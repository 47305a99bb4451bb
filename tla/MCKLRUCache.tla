----------------------------- MODULE MCKLRUCache -----------------------------
(* Small instances of KLRUCache for TLC.                                   *)
EXTENDS KLRUCache, TLC

CONSTANTS r1, r2, r3, d1

ThreeRecords == {r1, r2, r3}
OneContent == {d1}      \* the other content of a record is Erased

Constructed == {0}

CacheSymmetry == Permutations(ThreeRecords)

=============================================================================
