---------------------------- MODULE MCWorkerPool ----------------------------
(* Values of WorkerPool's constants for TLC.                               *)
EXTENDS WorkerPool, TLC

CONSTANTS t1, t2, t3, t4, k1, k2

FourTargets == {t1, t2, t3, t4}
TwoKeys == {k1, k2}
\* Two monitors of one tenant and port, two of another.
Tenants == t1 :> k1 @@ t2 :> k1 @@ t3 :> k2 @@ t4 :> k2
=============================================================================
