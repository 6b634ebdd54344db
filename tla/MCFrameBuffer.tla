--------------------------- MODULE MCFrameBuffer ---------------------------
(* FrameBuffer on a channel of two frames and five calls to Push. *)
EXTENDS FrameBuffer

MCCapacity == 2
MCMaxFrames == 5
=============================================================================
