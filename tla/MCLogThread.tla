----------------------------- MODULE MCLogThread -----------------------------
(* Small instances of LogThread for TLC.                                   *)
EXTENDS LogThread, TLC

CONSTANTS t1, t2

TwoThreads == {t1, t2}
CountOrNot == {0, 1}

=============================================================================
