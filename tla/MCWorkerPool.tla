--------------------------- MODULE MCWorkerPool ---------------------------
(* Instances of WorkerPool for TLC.                                        *)
EXTENDS WorkerPool
=============================================================================
