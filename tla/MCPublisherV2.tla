--------------------------- MODULE MCPublisherV2 ---------------------------
(* PublisherV2 with four connections in use and one goroutine of Publish. *)
EXTENDS PublisherV2

CONSTANTS c1, c2, c3, c4, h1, NoConn

MCConns == {c1, c2, c3, c4}
MCHelpers == {h1}
MCMaxRetries == 2
=============================================================================
