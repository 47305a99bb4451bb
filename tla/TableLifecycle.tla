---------------------------- MODULE TableLifecycle ----------------------------
(***************************************************************************)
(* What the flush path promises about the tables of every memtable number, *)
(* without threads, queues or counters: tables are sealed one after the    *)
(* other, become readable from disk in the order they were sealed, and     *)
(* leave memory from the oldest on, never before they are readable there.  *)
(* The promise is the comment of readonly_memtable_vec_                    *)
(* (db/shared_memtable.hpp, lines 86-96).                                  *)
(***************************************************************************)
EXTENDS Integers

CONSTANT Numbers    \* memtable numbers

VARIABLES
  sealed,       \* number -> tables handed to the compactor
  published,    \* number -> tables whose view is readable
  dropped       \* number -> tables no longer kept in memory

lifeVars == <<sealed, published, dropped>>

Init ==
  /\ sealed = [n \in Numbers |-> 0]
  /\ published = [n \in Numbers |-> 0]
  /\ dropped = [n \in Numbers |-> 0]

Seal(n) ==
  /\ sealed' = [sealed EXCEPT ![n] = @ + 1]
  /\ UNCHANGED <<published, dropped>>

Publish(n) ==
  /\ published[n] < sealed[n]
  /\ published' = [published EXCEPT ![n] = @ + 1]
  /\ UNCHANGED <<sealed, dropped>>

Drop(n) ==
  /\ \E k \in 1..(published[n] - dropped[n]) : dropped' = [dropped EXCEPT ![n] = @ + k]
  /\ UNCHANGED <<sealed, published>>

Next == \E n \in Numbers : Seal(n) \/ Publish(n) \/ Drop(n)

Spec == Init /\ [][Next]_lifeVars

=============================================================================
