--------------------------- MODULE MCWorkerPipes ---------------------------
(* Module WorkerPipes on small instances: the constants are given in the   *)
(* configurations.                                                         *)
EXTENDS WorkerPipes

=============================================================================
