-------------------------- MODULE MCAMQPPublisher --------------------------
(* AMQPPublisher with two workers and two connections. *)
EXTENDS AMQPPublisher

CONSTANTS c1, c2, w1, w2, NoConn

MCConns == {c1, c2}
MCCallers == {w1, w2}
=============================================================================
