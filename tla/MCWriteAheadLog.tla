--------------------------- MODULE MCWriteAheadLog ---------------------------
(* Small instances of WriteAheadLog for TLC.                               *)
EXTENDS WriteAheadLog

CONSTANTS c1, c2

OneClient == {c1}
TwoClients == {c1, c2}

SmallSizes == {1, 2}
OneSize == {1}

=============================================================================
