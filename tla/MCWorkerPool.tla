---------------------------- MODULE MCWorkerPool ----------------------------
(* WorkerPool with two workers, channels of one slot and three jobs. *)
EXTENDS WorkerPool, Integers

CONSTANTS w1, w2

MCWorkers == {w1, w2}
MCBufferSize == 1
MCMaxJobs == 3
MCNoJob == -1
=============================================================================
