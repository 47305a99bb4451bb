----------------------------- MODULE MCTaskWorker -----------------------------
(* Instances of TaskWorker for TLC.  Clients and CompWorkers are            *)
(* interchangeable threads; symmetry is used only where no liveness is.    *)
EXTENDS TaskWorker, TLC

CONSTANTS c1, c2, k1, k2, w1, w2

TwoClients == {c1, c2}
OneClient == {c1}
TwoKeys == {k1, k2}
OneKey == {k1}
OneCompWorker == {w1}
TwoCompWorkers == {w1, w2}

ThreadSymmetry == Permutations(Clients) \cup Permutations(Keys)
=============================================================================
