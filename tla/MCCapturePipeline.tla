------------------------- MODULE MCCapturePipeline -------------------------
(* CapturePipeline with one-slot channels, one worker and three frames: a  *)
(* frame can be in the worker, one in the pool's queue, one in the buffer. *)
EXTENDS CapturePipeline, Integers

CONSTANT w1

MCCapacity == 1
MCMaxJobs == 3
MCWorkers == {w1}
MCBufferSize == 1
MCNoJob == -1
=============================================================================
