------------------------- MODULE MCFrameProcessing -------------------------
(* FrameProcessing with two workers and three frames; the sequence numbers *)
(* start again with the third key.                                         *)
EXTENDS FrameProcessing

CONSTANTS w1, w2, c1, c2, c3

MCCallers == {w1, w2}
MCClients == {c1, c2, c3}
MCMaxFrames == 3
MCMaxSequence == 2
=============================================================================
