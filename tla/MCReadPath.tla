------------------------------ MODULE MCReadPath ------------------------------
(* Small instances of ReadPath for TLC.                                    *)
EXTENDS ReadPath

CONSTANTS k1, k2, v1, v2

TwoKeys == {k1, k2}
OneKey == {k1}
TwoValues == {v1, v2}

=============================================================================
