--------------------------- MODULE TaskWorkerProofs ---------------------------
(* Proofs about TaskWorker for every number of clients, keys and tasks.    *)
EXTENDS TaskWorker, SequenceTheorems, TLAPS

-----------------------------------------------------------------------------
(* Lemmas about sequences: the three ways the queue's content moves.       *)

\* Pushing onto the last part of a split queue appends to the whole.
LEMMA PushAtEnd ==
  ASSUME NEW S, NEW a \in Seq(S), NEW b \in Seq(S), NEW c \in Seq(S), NEW e \in S
  PROVE  a \o b \o Append(c, e) = Append(a \o b \o c, e)
<1>1. <<e>> \in Seq(S) /\ a \o b \in Seq(S) /\ a \o b \o c \in Seq(S)
  BY ConcatProperties
<1>2. Append(c, e) = c \o <<e>> /\ Append(a \o b \o c, e) = a \o b \o c \o <<e>>
  BY <1>1, AppendIsConcat
<1> QED BY <1>1, <1>2, ConcatAssociative

\* Executing the next entry of h moves it from the rest of h to the history a.
LEMMA MoveOne ==
  ASSUME NEW S, NEW a \in Seq(S), NEW h \in Seq(S), NEW n \in Nat, n < Len(h)
  PROVE  /\ h[n + 1] \in S
         /\ Append(a, h[n + 1]) \o Rest(h, n + 1) = a \o Rest(h, n)
<1>1. n + 1 \in 1..Len(h) /\ Len(h) \in (n + 1)..Len(h) /\ h[n + 1] \in S
  BY LenProperties, ElementOfSeq
<1>2. Rest(h, n) = <<h[n + 1]>> \o Rest(h, n + 1)
  BY <1>1, SubSeqRecursiveFirst DEF Rest
<1>3. \A i \in (n + 1 + 1)..Len(h) : h[i] \in S
  BY LenProperties, ElementOfSeq
<1>4. Rest(h, n + 1) \in Seq(S)
  BY <1>3, LenProperties, SubSeqProperties DEF Rest
<1>5. Append(a, h[n + 1]) = a \o <<h[n + 1]>> /\ <<h[n + 1]>> \in Seq(S)
  BY <1>1, AppendIsConcat
<1> QED BY <1>1, <1>2, <1>4, <1>5, ConcatAssociative

\* What is left of a sequence before its first and after its last entry.
LEMMA RestEnds ==
  ASSUME NEW S, NEW h \in Seq(S)
  PROVE  Rest(h, 0) = h /\ Rest(h, Len(h)) = <<>>
<1>1. Len(h) \in Nat
  BY LenProperties
<1> QED BY <1>1, SubSeqFull, SubSeqEmpty DEF Rest

\* A suffix of a sequence is a sequence over the same set.
LEMMA RestType ==
  ASSUME NEW S, NEW h \in Seq(S), NEW n \in Nat
  PROVE  /\ Rest(h, n) \in Seq(S)
         /\ n <= Len(h) => /\ Len(Rest(h, n)) = Len(h) - n
                           /\ \A i \in 1..(Len(h) - n) : Rest(h, n)[i] = h[n + i]
<1>1. Len(h) \in Nat /\ \A i \in (n + 1)..Len(h) : h[i] \in S
  BY LenProperties, ElementOfSeq
<1> QED BY <1>1, SubSeqProperties DEF Rest

-----------------------------------------------------------------------------
(* Type correctness.                                                       *)

\* Executing a task keeps the memtable a memtable.
LEMMA ApplyType ==
  ASSUME NEW m \in Memtable, NEW task \in Task
  PROVE  Apply(m, task) \in Memtable
<1>1. CASE task.op = "set"
  <2>1. task.key \in Keys
    BY <1>1 DEF Task, Snapshot
  <2>2. MemSet(m, task.key) \in Memtable
    <3> DEFINE n == [m EXCEPT !.keys = m.keys \cup {task.key}, !.size = m.size + 1]
    <3>1. m.size + 1 \in Nat /\ m.keys \cup {task.key} \in SUBSET Keys
      BY <2>1 DEF Memtable
    <3>2. n \in Memtable
      BY <3>1 DEF Memtable
    <3> QED BY <3>2 DEF MemSet
  <2> QED BY <1>1, <2>2 DEF Apply
<1>2. CASE task.op = "delete"
  <2>1. task.key \in Keys
    BY <1>2 DEF Task, Snapshot
  <2> QED BY <1>2, <2>1 DEF Apply, MemDelete, Memtable
<1>3. CASE task.op \notin {"set", "delete"}
  BY <1>3 DEF Apply
<1> QED BY <1>1, <1>2, <1>3

\* An added task is a Task.
LEMMA AddedIsTask ==
  ASSUME NEW c \in Clients
  PROVE  /\ Client(c) => \/ \E task \in Task : addTask(c, task)
                         \/ Notify(c)
BY DEF Client, Set, Get, Delete, SnapShot, Task, Snapshot

\* The initial state is well typed.
LEMMA TypeInit == Init => TypeOK
BY EmptySeq DEF Init, TypeOK, WorkerStates, Memtable, EmptyMemtable

\* Every step of every thread keeps the types.
LEMMA TypeNext == TypeOK /\ [Next]_vars => TypeOK'
<1> SUFFICES ASSUME TypeOK, [Next]_vars PROVE TypeOK'
  OBVIOUS
<1> USE DEF TypeOK, clientVars, queueVars, tableVars, removeVars, compVars, stopVars
<1>1. ASSUME NEW c \in Clients, NEW task \in Task, addTask(c, task) PROVE TypeOK'
  BY <1>1, AppendProperties DEF addTask
<1>2. ASSUME NEW c \in Clients, Notify(c) PROVE TypeOK'
  BY <1>2 DEF Notify, NotifyOne, WorkerStates
<1>3. CASE Loop
  BY <1>3 DEF Loop, WorkerStates
<1>4. CASE Check
  BY <1>4 DEF Check, WorkerStates
<1>5. CASE Block \/ SpuriousWakeup
  BY <1>5 DEF Block, SpuriousWakeup, WorkerStates
<1>6. CASE Swap
  BY <1>6 DEF Swap, WorkerStates
<1>7. CASE Handle
  <2>1. handle_vec[cursor + 1] \in Task
    BY <1>7, ElementOfSeq, LenProperties DEF Handle
  <2>2. memtable' \in Memtable
    BY <1>7, <2>1, ApplyType DEF Handle
  <2>3. handled' \in Seq(Task)
    BY <1>7, <2>1, AppendProperties DEF Handle
  <2> QED BY <1>7, <2>2, <2>3 DEF Handle
<1>8. CASE EndHandle
  BY <1>8 DEF EndHandle, WorkerStates
<1>9. CASE Count
  <2>1. Len(readonly) \in Nat
    BY LenProperties
  <2>2. size' \in Nat
    BY <1>9, <2>1 DEF Count
  <2> QED BY <1>9, <2>2 DEF Count, WorkerStates
<1>10. CASE Erase
  <2>1. readonly' \in Seq(Nat)
    BY <1>10, RestType DEF Erase, Rest
  <2> QED BY <1>10, <2>1 DEF Erase, WorkerStates
<1>11. CASE Advance
  BY <1>11 DEF Advance, WorkerStates
<1>12. CASE Clear
  BY <1>12, EmptySeq DEF Clear, WorkerStates
<1>13. CASE Rotate
  BY <1>13 DEF Rotate, WorkerStates
<1>14. CASE Retire
  <2>1. memtable.level \in Nat /\ memtable' \in Memtable
    BY <1>14 DEF Retire, Memtable, EmptyMemtable
  <2>2. readonly' \in Seq(Nat)
    BY <1>14, <2>1, AppendProperties DEF Retire
  <2> QED BY <1>14, <2>1, <2>2 DEF Retire, WorkerStates
<1>15. ASSUME NEW w \in CompWorkers, CompWorker(w) PROVE TypeOK'
  <2>1. CASE Publish(w)
    BY <2>1 DEF Publish
  <2>2. CASE PushRemoveReadonlyMemtableContext(w)
    <3>1. reg[w] + 1 \in Nat
      OBVIOUS
    <3> QED BY <2>2, <3>1 DEF PushRemoveReadonlyMemtableContext
  <2> QED BY <1>15, <2>1, <2>2 DEF CompWorker
<1>16. CASE Destructor
  BY <1>16 DEF Destructor, StopRunning, StopNotify, Join, NotifyOne, WorkerStates
<1>17. CASE UNCHANGED vars
  BY <1>17 DEF vars
<1> QED
  BY <1>1, <1>2, <1>3, <1>4, <1>5, <1>6, <1>7, <1>8, <1>9, <1>10, <1>11, <1>12,
     <1>13, <1>14, <1>15, <1>16, <1>17, AddedIsTask DEF Next, Worker

\* The state of the worker, its queues, tables and counters stays well typed in every
\* execution of TaskWorker::Run with any clients, CompWorkers and destructor.
THEOREM TypeCorrect == Spec => []TypeOK
<1> QED BY TypeInit, TypeNext, PTL DEF Spec

-----------------------------------------------------------------------------
(* Tasks are executed exactly once, in the order they were submitted.      *)

QueueInv == TypeOK /\ QueueShape /\ TasksInOrder

\* Steps that leave the queues, the cursor and the histories alone keep the order;
\* QueueShape is about where the worker is and is treated step by step.
LEMMA OrderUnchanged ==
  ASSUME TasksInOrder, UNCHANGED <<queueVars, submitted>>
  PROVE  TasksInOrder'
BY DEF TasksInOrder, queueVars, Rest

\* Empty queues are in order.
LEMMA QueueInit == Init => QueueInv
<1> SUFFICES ASSUME Init PROVE QueueInv
  OBVIOUS
<1>1. TypeOK
  BY TypeInit
<1>2. QueueShape
  BY EmptySeq DEF Init, QueueShape
<1>3. TasksInOrder
  <2>1. <<>> \in Seq(Task) /\ Len(<<>>) = 0 /\ Rest(<<>>, 0) = <<>>
    BY EmptySeq, RestEnds
  <2> QED BY <2>1, ConcatEmptySeq DEF Init, TasksInOrder
<1> QED BY <1>1, <1>2, <1>3 DEF QueueInv

\* Every step keeps the split of the submitted tasks over the history and the two vectors.
LEMMA QueueNext == QueueInv /\ [Next]_vars => QueueInv'
<1> SUFFICES ASSUME QueueInv, [Next]_vars PROVE QueueInv'
  OBVIOUS
<1>0. TypeOK' /\ TypeOK /\ QueueShape /\ TasksInOrder
  BY TypeNext DEF QueueInv
<1>t. /\ handled \in Seq(Task) /\ handle_vec \in Seq(Task) /\ bg_handle_vec \in Seq(Task)
      /\ cursor \in Nat /\ Len(handle_vec) \in Nat /\ Rest(handle_vec, cursor) \in Seq(Task)
  BY <1>0, LenProperties, RestType DEF TypeOK
<1> USE DEF clientVars, queueVars, tableVars, removeVars, compVars, stopVars
<1>1. ASSUME NEW c \in Clients, NEW task \in Task, addTask(c, task) PROVE QueueInv'
  <2>1. TasksInOrder'
    <3>1. handled \o Rest(handle_vec, cursor) \o Append(bg_handle_vec, task)
            = Append(handled \o Rest(handle_vec, cursor) \o bg_handle_vec, task)
      BY <1>t, PushAtEnd
    <3>2. UNCHANGED <<handled, handle_vec, cursor>>
      BY <1>1 DEF addTask
    <3>3. Rest(handle_vec, cursor)' = Rest(handle_vec, cursor)
      BY <3>2 DEF Rest
    <3> QED BY <1>0, <1>1, <3>1, <3>2, <3>3 DEF addTask, TasksInOrder
  <2> QED BY <1>0, <1>1, <2>1 DEF addTask, QueueShape, QueueInv
<1>2. ASSUME NEW c \in Clients, Notify(c) PROVE QueueInv'
  BY <1>0, <1>2, OrderUnchanged DEF Notify, NotifyOne, QueueShape, QueueInv
<1>3. CASE Loop
  BY <1>0, <1>3, OrderUnchanged DEF Loop, QueueShape, QueueInv
<1>4. CASE Check
  BY <1>0, <1>4, OrderUnchanged DEF Check, QueueShape, QueueInv
<1>5. CASE Block \/ SpuriousWakeup
  BY <1>0, <1>5, OrderUnchanged DEF Block, SpuriousWakeup, QueueShape, QueueInv
<1>6. CASE Swap
  <2>1. handle_vec = <<>> /\ cursor = 0
    BY <1>0, <1>6 DEF Swap, QueueShape
  <2>2. Rest(<<>>, 0) = <<>> /\ Rest(bg_handle_vec, 0) = bg_handle_vec
    <3>1. <<>> \in Seq(Task)
      BY EmptySeq
    <3> QED BY <1>t, <3>1, RestEnds
  <2>3. handled \o <<>> \o bg_handle_vec = handled \o bg_handle_vec \o <<>>
    <3>1. handled \o bg_handle_vec \in Seq(Task)
      BY <1>t, ConcatProperties
    <3> QED BY <1>t, <3>1, ConcatEmptySeq
  <2>4. TasksInOrder'
    BY <1>0, <1>6, <2>1, <2>2, <2>3 DEF Swap, TasksInOrder
  <2>5. QueueShape'
    BY <1>6, <1>t, LenProperties DEF Swap, QueueShape
  <2> QED BY <1>0, <2>4, <2>5 DEF QueueInv
<1>7. CASE Handle
  <2>1. /\ handled' = Append(handled, handle_vec[cursor + 1])
        /\ cursor' = cursor + 1 /\ cursor < Len(handle_vec)
        /\ UNCHANGED <<handle_vec, bg_handle_vec, submitted, wpc>> /\ wpc = "handle"
    BY <1>7 DEF Handle
  <2>2. handled' \o Rest(handle_vec, cursor + 1) = handled \o Rest(handle_vec, cursor)
    BY <1>t, <2>1, MoveOne
  <2>3. TasksInOrder'
    BY <1>0, <2>1, <2>2 DEF TasksInOrder
  <2>4. QueueShape'
    BY <1>0, <1>t, <2>1 DEF QueueShape
  <2> QED BY <1>0, <2>3, <2>4 DEF QueueInv
<1>8. CASE EndHandle
  BY <1>0, <1>8, OrderUnchanged DEF EndHandle, QueueShape, QueueInv
<1>9. CASE Count \/ Erase \/ Advance
  BY <1>0, <1>9, OrderUnchanged DEF Count, Erase, Advance, QueueShape, QueueInv
<1>10. CASE Clear
  <2>1. Rest(handle_vec, cursor) = <<>> /\ Rest(<<>>, 0) = <<>> /\ Len(<<>>) = 0
    BY <1>0, <1>10, <1>t, EmptySeq, RestEnds DEF Clear, QueueShape
  <2>2. TasksInOrder'
    BY <1>0, <1>10, <2>1 DEF Clear, TasksInOrder
  <2>3. QueueShape'
    BY <1>10, <2>1 DEF Clear, QueueShape
  <2> QED BY <1>0, <2>2, <2>3 DEF QueueInv
<1>11. CASE Rotate \/ Retire
  BY <1>0, <1>11, OrderUnchanged DEF Rotate, Retire, QueueShape, QueueInv
<1>12. ASSUME NEW w \in CompWorkers, CompWorker(w) PROVE QueueInv'
  BY <1>0, <1>12, OrderUnchanged
     DEF CompWorker, Publish, PushRemoveReadonlyMemtableContext, QueueShape, QueueInv
<1>13. CASE Destructor
  BY <1>0, <1>13, OrderUnchanged
     DEF Destructor, StopRunning, StopNotify, Join, NotifyOne, QueueShape, QueueInv
<1>14. CASE UNCHANGED vars
  BY <1>0, <1>14, OrderUnchanged DEF vars, QueueShape, QueueInv
<1> QED
  BY <1>1, <1>2, <1>3, <1>4, <1>5, <1>6, <1>7, <1>8, <1>9, <1>10, <1>11, <1>12,
     <1>13, <1>14, AddedIsTask DEF Next, Worker

\* For any number of client threads, the double-vector queue of TaskWorker loses,
\* repeats and reorders nothing.
THEOREM OrderCorrect == Spec => []TasksInOrder
<1>1. QueueInv => TasksInOrder
  BY DEF QueueInv
<1> QED BY <1>1, QueueInit, QueueNext, PTL DEF Spec
-----------------------------------------------------------------------------
(* With one CompWorker thread, the default compactor_thread_size, a table  *)
(* is dropped from memory only after its view is readable.                 *)

OneWorkerInv(w) == TypeOK /\ RemoveInv(w)

\* Steps that touch neither the tables nor the counters keep RemoveInv unless they
\* enter or leave one of the program points it speaks of.
LEMMA RemoveUnchanged ==
  ASSUME NEW w, TypeOK, RemoveInv(w), UNCHANGED <<tableVars, removeVars, compVars>>,
         wpc \notin {"retire", "advance", "erase"},
         wpc' \notin {"retire", "erase", "advance", "crashed"}
  PROVE  RemoveInv(w)'
BY DEF RemoveInv, Erased, tableVars, removeVars, compVars

\* Nothing flushed, nothing erased.
LEMMA RemoveInit ==
  ASSUME NEW w, CompWorkers = {w}, Init
  PROVE  OneWorkerInv(w)
<1>1. TypeOK
  BY TypeInit
<1>2. Len(<<>>) = 0
  BY EmptySeq
<1>3. RemoveInv(w)
  BY <1>2 DEF Init, RemoveInv, Erased, EmptyMemtable
<1> QED BY <1>1, <1>3 DEF OneWorkerInv

\* One CompWorker and the worker keep the counters and the vector of tables in step.
LEMMA RemoveNext ==
  ASSUME NEW w, CompWorkers = {w}, OneWorkerInv(w), [Next]_vars
  PROVE  OneWorkerInv(w)'
<1>0. TypeOK /\ TypeOK' /\ RemoveInv(w)
  BY TypeNext DEF OneWorkerInv
<1>t. /\ memtable.level \in Nat /\ readonly \in Seq(Nat) /\ Len(readonly) \in Nat
      /\ published \in Nat /\ handed \in Nat /\ size \in Nat
      /\ remove_N \in Nat /\ preRemove_N \in Nat /\ busy \subseteq {w} /\ reg \in [{w} -> Nat]
  BY <1>0, LenProperties DEF TypeOK, Memtable
<1> USE DEF clientVars, queueVars, tableVars, removeVars, compVars, stopVars
<1> SUFFICES RemoveInv(w)'
  BY <1>0 DEF OneWorkerInv
<1>1. ASSUME NEW c \in Clients, NEW task \in Task, addTask(c, task) PROVE RemoveInv(w)'
  BY <1>0, <1>1 DEF addTask, RemoveInv, Erased
<1>2. ASSUME NEW c \in Clients, Notify(c) PROVE RemoveInv(w)'
  BY <1>0, <1>2 DEF Notify, NotifyOne, RemoveInv, Erased
<1>3. CASE Loop \/ Check \/ Block \/ SpuriousWakeup \/ Swap \/ EndHandle \/ Clear
  BY <1>0, <1>3, RemoveUnchanged
     DEF Loop, Check, Block, SpuriousWakeup, Swap, EndHandle, Clear
<1>4. CASE Handle
  <2>1. memtable'.level = memtable.level
    <3>1. memtable' = Apply(memtable, handle_vec[cursor + 1])
      BY <1>4 DEF Handle
    <3>2. memtable \in Memtable
      BY <1>0 DEF TypeOK
    <3> QED BY <3>1, <3>2 DEF Apply, MemSet, MemDelete, Memtable
  <2> QED BY <1>0, <1>4, <2>1 DEF Handle, RemoveInv, Erased
<1>5. CASE Count
  BY <1>0, <1>t, <1>5 DEF Count, RemoveInv, Erased
<1>6. CASE Erase
  <2>1. /\ readonly' = Rest(readonly, size) /\ wpc = "erase"
        /\ wpc' = IF size <= Len(readonly) THEN "advance" ELSE "crashed"
        /\ UNCHANGED <<memtable, handed, removeVars, compVars>>
    BY <1>6 DEF Erase, Rest
  <2>2. size <= Len(readonly)
    BY <1>0, <1>t, <2>1 DEF RemoveInv, Erased
  <2>3. /\ Len(readonly') = Len(readonly) - size
        /\ \A i \in 1..(Len(readonly) - size) : readonly'[i] = readonly[size + i]
    BY <1>t, <2>1, <2>2, RestType
  <2>4. Erased' = Erased + size
    BY <1>t, <2>1, <2>3 DEF Erased
  <2>5. \A i \in 1..Len(readonly') : readonly'[i] = Erased' + i - 1
    <3> SUFFICES ASSUME NEW i \in 1..Len(readonly') PROVE readonly'[i] = Erased' + i - 1
      OBVIOUS
    <3>1. size + i \in 1..Len(readonly) /\ readonly'[i] = readonly[size + i]
      BY <1>t, <2>2, <2>3
    <3>2. readonly[size + i] = Erased + (size + i) - 1
      BY <1>0, <3>1 DEF RemoveInv
    <3> QED BY <1>t, <2>4, <3>1, <3>2 DEF Erased
  <2> QED BY <1>0, <1>t, <2>1, <2>2, <2>4, <2>5 DEF RemoveInv, Erased
<1>7. CASE Advance
  BY <1>0, <1>t, <1>7 DEF Advance, RemoveInv, Erased
<1>8. CASE Rotate
  BY <1>0, <1>t, <1>8 DEF Rotate, RemoveInv, Erased
<1>9. CASE Retire
  <2>1. /\ wpc = "retire" /\ wpc' = "loop"
        /\ memtable'.level = memtable.level + 1
        /\ UNCHANGED <<handed, removeVars, compVars>>
    BY <1>9 DEF Retire, EmptyMemtable
  <2>2. /\ Len(readonly') = Len(readonly) + 1
        /\ \A i \in 1..Len(readonly) : readonly'[i] = readonly[i]
        /\ readonly'[Len(readonly) + 1] = memtable.level
    BY <1>t, <1>9, AppendProperties DEF Retire
  <2>3. Erased' = Erased
    BY <1>t, <2>1, <2>2 DEF Erased
  <2>4. ASSUME NEW i \in 1..Len(readonly') PROVE readonly'[i] = Erased' + i - 1
    <3>1. CASE i \in 1..Len(readonly)
      BY <1>0, <2>2, <2>3, <3>1 DEF RemoveInv
    <3>2. CASE i = Len(readonly) + 1
      <4>1. Erased + i - 1 = memtable.level
        BY <1>t, <3>2 DEF Erased
      <4> QED BY <2>2, <2>3, <3>2, <4>1
    <3> QED BY <1>t, <2>2, <3>1, <3>2
  <2> QED BY <1>0, <1>t, <2>1, <2>3, <2>4 DEF RemoveInv
<1>10. ASSUME NEW v \in CompWorkers, CompWorker(v) PROVE RemoveInv(w)'
  <2>1. v = w
    BY <1>10
  <2>2. CASE Publish(w)
    <3>1. /\ w \notin busy /\ published < handed /\ published' = published + 1
          /\ w \in busy' /\ reg'[w] = remove_N
          /\ UNCHANGED <<wpc, tableVars, removeVars>>
      BY <1>t, <2>2 DEF Publish
    <3> QED BY <1>0, <1>t, <3>1 DEF RemoveInv, Erased
  <2>3. CASE PushRemoveReadonlyMemtableContext(w)
    <3>1. /\ w \in busy /\ remove_N' = reg[w] + 1 /\ w \notin busy'
          /\ UNCHANGED <<wpc, tableVars, preRemove_N, size, published>>
      BY <2>3 DEF PushRemoveReadonlyMemtableContext
    <3>2. remove_N' = remove_N + 1 /\ published = remove_N + 1
      BY <1>0, <3>1 DEF RemoveInv
    <3> QED BY <1>0, <1>t, <3>1, <3>2 DEF RemoveInv, Erased
  <2> QED BY <1>10, <2>1, <2>2, <2>3 DEF CompWorker
<1>11. CASE Destructor
  BY <1>0, <1>11 DEF Destructor, StopRunning, StopNotify, Join, NotifyOne, RemoveInv, Erased
<1>12. CASE UNCHANGED vars
  BY <1>0, <1>12 DEF vars, RemoveInv, Erased
<1> QED
  BY <1>1, <1>2, <1>3, <1>4, <1>5, <1>6, <1>7, <1>8, <1>9, <1>10, <1>11, <1>12,
     AddedIsTask DEF Next, Worker

\* With one CompWorker, every reachable state satisfies the invariant.
LEMMA EraseInv ==
  ASSUME NEW CONSTANT w, CompWorkers = {w}
  PROVE  Spec => []OneWorkerInv(w)
<1>1. Init => OneWorkerInv(w)
  BY RemoveInit
<1>2. OneWorkerInv(w) /\ [Next]_vars => OneWorkerInv(w)'
  BY RemoveNext
<1> QED BY <1>1, <1>2, PTL DEF Spec

\* With a single CompWorker, whatever the interleaving of its unsynchronised
\* remove_N_++ with the worker's three reads of it: no table is dropped before its view
\* is readable, and what stays in the vector are the newer tables in order.
THEOREM EraseCorrect ==
  ASSUME NEW CONSTANT w, CompWorkers = {w}
  PROVE  Spec => []ErasedOnlyAfterFlush
<1>1. Spec => []OneWorkerInv(w)
  BY EraseInv
<1>2. OneWorkerInv(w) => ErasedOnlyAfterFlush
  <2> SUFFICES ASSUME OneWorkerInv(w) PROVE ErasedOnlyAfterFlush
    OBVIOUS
  <2>1. /\ memtable.level \in Nat /\ Len(readonly) \in Nat /\ published \in Nat
        /\ remove_N \in Nat /\ preRemove_N \in Nat /\ size \in Nat
    BY LenProperties DEF OneWorkerInv, TypeOK, Memtable
  <2> QED BY <2>1 DEF OneWorkerInv, RemoveInv, ErasedOnlyAfterFlush, Erased
<1> QED BY <1>1, <1>2, PTL

\* With a single CompWorker the erase loop, whose length comes from a read of remove_N_
\* later than the one that was tested, never runs past the end of the vector.
THEOREM EraseRangeCorrect ==
  ASSUME NEW CONSTANT w, CompWorkers = {w}
  PROVE  Spec => []EraseInRange
<1>1. Spec => []OneWorkerInv(w)
  BY EraseInv
<1>2. OneWorkerInv(w) => EraseInRange
  BY DEF OneWorkerInv, RemoveInv, EraseInRange
<1> QED BY <1>1, <1>2, PTL

-----------------------------------------------------------------------------
(* Refinement of TableLifecycle.                                           *)

\* A step that leaves the three counts alone stutters.
LEMMA LifeStutter ==
  ASSUME UNCHANGED <<handed, published, Erased>>
  PROVE  UNCHANGED Life!lifeVars
BY DEF Life!lifeVars

\* With one CompWorker every step seals, publishes or drops, or stutters.
LEMMA LifeStep ==
  ASSUME NEW w, CompWorkers = {w}, OneWorkerInv(w), [Next]_vars
  PROVE  [Life!Next]_(Life!lifeVars)
<1>0. TypeOK /\ RemoveInv(w)
  BY DEF OneWorkerInv
<1>t. /\ memtable.level \in Nat /\ readonly \in Seq(Nat) /\ Len(readonly) \in Nat
      /\ published \in Nat /\ handed \in Nat /\ size \in Nat
      /\ remove_N \in Nat /\ preRemove_N \in Nat
  BY <1>0, LenProperties DEF TypeOK, Memtable
<1> USE DEF clientVars, queueVars, tableVars, removeVars, compVars, stopVars
<1>1. ASSUME NEW c \in Clients, NEW task \in Task, addTask(c, task)
      PROVE  UNCHANGED <<handed, published, Erased>>
  BY <1>1 DEF addTask, Erased
<1>2. ASSUME NEW c \in Clients, Notify(c) PROVE UNCHANGED <<handed, published, Erased>>
  BY <1>2 DEF Notify, Erased
<1>3. ASSUME Loop \/ Check \/ Block \/ SpuriousWakeup \/ Swap \/ EndHandle \/ Count
               \/ Advance \/ Clear \/ Destructor \/ UNCHANGED vars
      PROVE  UNCHANGED <<handed, published, Erased>>
  BY <1>3 DEF Loop, Check, Block, SpuriousWakeup, Swap, EndHandle, Count, Advance, Clear,
              Destructor, StopRunning, StopNotify, Join, vars, Erased
<1>4. ASSUME Handle PROVE UNCHANGED <<handed, published, Erased>>
  <2>1. memtable' = Apply(memtable, handle_vec[cursor + 1]) /\ memtable \in Memtable
    BY <1>0, <1>4 DEF Handle, TypeOK
  <2>2. memtable'.level = memtable.level
    BY <2>1 DEF Apply, MemSet, MemDelete, Memtable
  <2> QED BY <1>4, <2>2 DEF Handle, Erased
<1>5. ASSUME Retire PROVE UNCHANGED <<handed, published, Erased>>
  <2>1. memtable'.level = memtable.level + 1 /\ UNCHANGED <<handed, published>>
    BY <1>5 DEF Retire, EmptyMemtable
  <2>2. Len(readonly') = Len(readonly) + 1
    BY <1>t, <1>5, AppendProperties DEF Retire
  <2> QED BY <1>t, <2>1, <2>2 DEF Erased
<1>6. ASSUME PushRemoveReadonlyMemtableContext(w) PROVE UNCHANGED <<handed, published, Erased>>
  BY <1>6 DEF PushRemoveReadonlyMemtableContext, Erased
<1>7. ASSUME Rotate PROVE Life!Seal(0)
  BY <1>7 DEF Rotate, Erased, Life!Seal
<1>8. ASSUME Publish(w) PROVE Life!Publish(0)
  BY <1>8 DEF Publish, Erased, Life!Publish
<1>9. ASSUME Erase PROVE Life!Drop(0) \/ UNCHANGED <<handed, published, Erased>>
  <2>1. wpc = "erase" /\ readonly' = Rest(readonly, size) /\ UNCHANGED <<memtable, handed, published>>
    BY <1>9 DEF Erase, Rest
  <2>2. /\ size <= Len(readonly)
        /\ Erased \in Nat /\ Erased + size <= published
    BY <1>0, <1>t, <2>1 DEF RemoveInv, Erased
  <2>3. Len(readonly') = Len(readonly) - size
    BY <1>t, <2>1, <2>2, RestType
  <2>4. Erased' = Erased + size
    BY <1>t, <2>1, <2>3 DEF Erased
  <2> HIDE DEF Erased
  <2>5. CASE size = 0
    BY <1>t, <2>1, <2>2, <2>4, <2>5
  <2>6. CASE size # 0
    <3>1. size \in 1..(published - Erased)
      BY <1>t, <2>2, <2>6
    <3> QED BY <2>1, <2>4, <3>1 DEF Life!Drop
  <2> QED BY <2>5, <2>6
<1>10. ASSUME NEW v \in CompWorkers, CompWorker(v)
       PROVE  Life!Publish(0) \/ UNCHANGED <<handed, published, Erased>>
  BY <1>6, <1>8, <1>10 DEF CompWorker
<1> HIDE DEF clientVars, queueVars, tableVars, removeVars, compVars, stopVars
<1> QED
  BY <1>1, <1>2, <1>3, <1>4, <1>5, <1>7, <1>9, <1>10, AddedIsTask, LifeStutter
     DEF Next, Worker, Life!Next

\* With a single CompWorker the threads of TaskWorker implement TableLifecycle: tables
\* are published in the order they are sealed and dropped only when published.
THEOREM LifecycleRefined ==
  ASSUME NEW CONSTANT w, CompWorkers = {w}
  PROVE  Spec => KeepsTableLifecycle
<1>1. Init => Life!Init
  <2>1. Len(<<>>) = 0
    BY EmptySeq
  <2> QED BY <2>1 DEF Init, Life!Init, Erased, EmptyMemtable
<1>2. Init => OneWorkerInv(w)
  BY RemoveInit
<1>3. OneWorkerInv(w) /\ [Next]_vars => OneWorkerInv(w)'
  BY RemoveNext
<1>4. OneWorkerInv(w) /\ [Next]_vars => [Life!Next]_(Life!lifeVars)
  BY LifeStep
<1> QED BY <1>1, <1>2, <1>3, <1>4, PTL DEF Spec, KeepsTableLifecycle, Life!Spec

=============================================================================
