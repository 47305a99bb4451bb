------------------------------- MODULE ReadPath -------------------------------
(***************************************************************************)
(* What one TaskWorker's thread does to the data of its keys: Memtable     *)
(* (db/memtable.cpp) and the handling of a Set, a Get and a Delete task    *)
(* (db/shared_memtable.cpp, lines 54-155).  The thread owns all of this    *)
(* state, so a task is one step.                                           *)
(*                                                                         *)
(* A table maps a key to the record its btree_set holds for it.  A bloom   *)
(* filter that matches by mistake only costs time and is left out.  The    *)
(* cache is the map kLRUCache is meant to be, which may forget a key at    *)
(* any time (KLRUCache models what it does).  No MemTable_view ever gets   *)
(* built (ViewInit of FlushPipeline), so the view manager finds nothing    *)
(* and no read-only table is dropped.                                      *)
(***************************************************************************)
EXTENDS Integers, Sequences

CONSTANTS
  Keys, Values,
  MaxTasks,       \* bounds of the model
  MaxRotations

ASSUME BoundsAssumption == MaxTasks \in Nat /\ MaxRotations \in Nat

None == "none"          \* no record, or no cache entry
Marker == "marker"      \* the record Memtable::Delete inserts
EraseRecord == "erased"      \* the cache entry of setEraseRecord
Empty == ""             \* the empty string

ASSUME NamesAssumption == Values \cap {None, Marker, EraseRecord, Empty} = {}

VARIABLES
  memtable,     \* memtable_: key -> record
  readonly,     \* readonly_memtable_vec_, oldest first
  cache,        \* klrucache_: key -> entry
  calls,        \* history: the callbacks of the last Get, in order
  asked,        \* history: the key of the last Get, or None
  writes        \* history: [key, record, table] of every Set and Delete

vars == <<memtable, readonly, cache, calls, asked, writes>>

EmptyTable == [k \in Keys |-> None]

Init ==
  /\ memtable = EmptyTable /\ readonly = <<>>
  /\ cache = EmptyTable
  /\ calls = <<>> /\ asked = None
  /\ writes = <<>>

-----------------------------------------------------------------------------
(* Memtable.                                                               *)

\* memMap_.insert of a btree_set: a record with an equal key stays.
Insert(table, k, record) ==
  IF table[k] = None THEN [table EXCEPT ![k] = record] ELSE table

\* Delete writes the type byte StatusCode::kDelete, which is not kTypeDeletion: Get takes
\* the record for a value, and reads its size from the string's closing zero.
MemGet(table, k, value) ==
  CASE table[k] = None   -> [code |-> "kNotFound", value |-> value]
    [] table[k] = Marker -> [code |-> "kOk", value |-> Empty]
    [] OTHER             -> [code |-> "kOk", value |-> table[k]]

-----------------------------------------------------------------------------
(* Tasks.                                                                  *)

Write(k, record) ==
  /\ Len(writes) < MaxTasks
  /\ memtable' = Insert(memtable, k, record)
  /\ writes' = Append(writes, [key |-> k, record |-> record, table |-> Len(readonly)])
  /\ UNCHANGED <<readonly, cache, calls, asked>>

Set(k, v) == Write(k, v)
Delete(k) == Write(k, Marker)

Answered(ctx) == ctx.code \in {"kOk", "kDelete"}
Found(ctx, code, value) == [code |-> code, value |-> value, calls |-> ctx.calls]
Call(ctx) == [code |-> ctx.code, value |-> ctx.value,
              calls |-> Append(ctx.calls, [code |-> ctx.code, value |-> ctx.value])]

\* memtable_->Get, and the callback if it found the key.
AskMemtable(k) ==
  LET r == MemGet(memtable, k, Empty)
      ctx == [code |-> r.code, value |-> r.value, calls |-> <<>>]
  IN  IF Answered(ctx) THEN Call(ctx) ELSE ctx

\* The cache is asked whether or not the memtable had the key.
AskCache(k, ctx) ==
  CASE cache[k] = None   -> ctx
    [] cache[k] = EraseRecord -> Call(Found(ctx, "kDelete", ctx.value))
    [] OTHER             -> Call(Found(ctx, "kOk", cache[k]))

\* Mutant: the oldest read-only table is asked first.
AskReadonlyOldest(k, ctx) ==
  LET hits == {i \in DOMAIN readonly : readonly[i][k] # None}
      first == CHOOSE i \in hits : \A h \in hits : i <= h
      r == MemGet(readonly[first], k, ctx.value)
  IN  IF Answered(ctx) \/ hits = {} THEN ctx
      ELSE Call(Found(ctx, r.code, r.value))

\* The read-only tables, newest first, until one has the key.
AskReadonly(k, ctx) ==
  LET hits == {i \in DOMAIN readonly : readonly[i][k] # None}
      newest == CHOOSE i \in hits : \A h \in hits : h <= i
      r == MemGet(readonly[newest], k, ctx.value)
  IN  IF Answered(ctx) \/ hits = {} THEN ctx
      ELSE Call(Found(ctx, r.code, r.value))

\* Mutant: a key found nowhere is not answered.
AskViewsSilent(ctx) == ctx

\* The view manager has no view; the callback runs in any case.
AskViews(ctx) == IF Answered(ctx) THEN ctx ELSE Call(ctx)

\* The context after the whole handling of Get(k).
Context(k) == AskViews(AskReadonly(k, AskCache(k, AskMemtable(k))))

Get(k) ==
  LET ctx == Context(k) IN
  /\ cache' = [cache EXCEPT ![k] = IF ctx.code = "kOk" THEN ctx.value ELSE EraseRecord]
  /\ calls' = ctx.calls /\ asked' = k
  /\ UNCHANGED <<memtable, readonly, writes>>

\* The memtable is full.
Rotate ==
  /\ Len(readonly) < MaxRotations /\ memtable # EmptyTable
  /\ readonly' = Append(readonly, memtable)
  /\ memtable' = EmptyTable
  /\ UNCHANGED <<cache, calls, asked, writes>>

\* kLRUCache drops a cold record.
Evict(k) ==
  /\ cache[k] # None
  /\ cache' = [cache EXCEPT ![k] = None]
  /\ UNCHANGED <<memtable, readonly, calls, asked, writes>>

Next ==
  \/ \E k \in Keys : (\E v \in Values : Set(k, v)) \/ Delete(k) \/ Get(k) \/ Evict(k)
  \/ Rotate

Spec == Init /\ [][Next]_vars

-----------------------------------------------------------------------------
(* Properties.                                                             *)

Records == Values \cup {None, Marker}

\* The codes a Get can end with, and what its callback is given.
StatusCode == {"kOk", "kDelete", "kNotFound"}
GetContext == [code : StatusCode, value : Values \cup {Empty}]

\* Every variable has the type its C++ counterpart has.
TypeOK ==
  /\ memtable \in [Keys -> Records]
  /\ \A i \in DOMAIN readonly : readonly[i] \in [Keys -> Records]
  /\ cache \in [Keys -> Values \cup {None, EraseRecord, Empty}]
  /\ asked \in Keys \cup {None}
  /\ \A i \in DOMAIN calls : calls[i] \in GetContext

\* Every Get is answered: whichever of the four places has the key, or none, some branch
\* runs the callback the client waits for.  It runs a second time only when memtable and
\* cache both answer (shared_memtable.cpp, lines 72-96), and never a third time.
GetIsAnswered == asked # None => Len(calls) \in 1..2

\* What the tables alone say of k, when the cache has no entry for it.
Lookup(k) ==
  LET ctx == AskViews(AskReadonly(k, AskMemtable(k)))
  IN  [code |-> ctx.code, value |-> ctx.value]

\* The writes to k that went into the newest table with a write to k.
Newest(k) ==
  {i \in DOMAIN writes :
     /\ writes[i].key = k
     /\ \A h \in DOMAIN writes : writes[h].key = k => writes[h].table <= writes[i].table}

\* Through any number of rotations the tables answer from the newest one with a write to
\* the key: with the value of a Set made to it or, of a Delete, without a value of an older
\* table.  They answer with nothing only if the key was never written.  Which of several
\* writes to one table it is, is not said here.
LookupIsOfNewestTable ==
  \A k \in Keys :
    LET answer == Lookup(k) IN
    IF Newest(k) = {} THEN answer.code = "kNotFound"
    ELSE /\ answer.code # "kNotFound"
         /\ \E i \in Newest(k) :
              answer.value = IF writes[i].record = Marker THEN Empty ELSE writes[i].record

\* The last write of a key is the one that counts: a Set of a key that exists overwrites it
\* (comment of memtable.cpp, line 69).
LastSetIsRead ==
  \A i \in DOMAIN writes :
    LET k == writes[i].key IN
    writes[i].record # Marker /\ (\A h \in DOMAIN writes : writes[h].key = k => h <= i)
      => Lookup(k) = [code |-> "kOk", value |-> writes[i].record]

\* The memtable's answer stands, other places are asked only when it has none
\* (doc/kvengine_design_cn.md, line 6).
MemtableComesFirst ==
  [][\A k \in Keys : Get(k) /\ memtable[k] \in Values => calls'[Len(calls')].value = memtable[k]]_vars

=============================================================================
