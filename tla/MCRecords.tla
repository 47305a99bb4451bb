------------------------------ MODULE MCRecords ------------------------------
\* Instances of Records: keys and values on both sides of the lengths where a varint
\* gets its second byte, and probes of the filter that share bits.
EXTENDS Records

Fill(length, b) == [j \in 1..length |-> b]

k1 == <<97>>
k2 == <<97, 98>>
k3 == <<97>> \o Fill(127, 98)

MCKeys == {k1, k2, k3}
MCValues == {<<98>>, Fill(128, 98)}
TestValues == {Fill(36, 98)}     \* memtable_test.cpp: values are UUIDs
MCHashes == (k1 :> <<0, 71, 8, 63>>) @@ (k2 :> <<7, 8, 9, 127>>) @@ (k3 :> <<0, 8, 9, 63>>)
=============================================================================
