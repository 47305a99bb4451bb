------------------------------ MODULE TaskWorker ------------------------------
(***************************************************************************)
(* One TaskWorker of SharedMemtable (db/shared_memtable.cpp): the client   *)
(* threads that hand it tasks, its own thread's loop, the CompWorker       *)
(* threads that tell it a read-only table has been flushed, and the        *)
(* destructor that stops it.                                               *)
(*                                                                         *)
(* Data kept: a memtable is its level (getCompactionN), its key set and    *)
(* its memSize_ (one unit per record); a read-only table is its level.     *)
(* Values, the klrucache and what a Get answers are left to the read path: *)
(* a Get changes none of the state of this module.                         *)
(*                                                                         *)
(* Grain: a step is what one thread does between two accesses to state     *)
(* that another thread writes.  bg_handle_vec_.empty() at line 42 and      *)
(* remove_N_ are read without a lock, so each such read is a step.         *)
(***************************************************************************)
EXTENDS Integers, Sequences

CONSTANTS
  Clients,          \* threads that call SharedMemtable::Set/Get/Delete/SnapShot
  CompWorkers,      \* flushing threads that call PushRemoveReadonlyMemtableContext
  Keys,             \* keys that hash to this worker
  MaxMemTableSize,  \* maxMemTableSize_, in records
  MaxTasks          \* bound of the model: tasks ever submitted

ASSUME SizeAssumption == MaxMemTableSize \in Nat \ {0}
ASSUME TasksAssumption == MaxTasks \in Nat

VARIABLES
  cpc,            \* client -> "idle" | "notify" (task added, Notify() still to run)
  bg_handle_vec,
  handle_vec,
  cursor,         \* number of entries of handle_vec already handled
  wpc,            \* where the worker thread is
  isRunning,
  memtable,       \* [level, keys, size]
  readonly,       \* readonly_memtable_vec_: levels, oldest first
  remove_N,
  preRemove_N,
  size,           \* local of line 163
  handed,         \* number of tables given to Compactor::AddReadOnlyTable
  published,      \* number of tables whose MemTable_view is readable
  busy,           \* CompWorkers between the load and the store of remove_N_++
  reg,            \* CompWorker -> the value of remove_N_ it loaded
  dpc,            \* where ~SharedMemtable is
  submitted,      \* history: tasks in the order of addTask
  handled         \* history: tasks in the order the worker executed them

clientVars == <<cpc, submitted>>
queueVars == <<bg_handle_vec, handle_vec, cursor, handled>>
tableVars == <<memtable, readonly, handed>>
removeVars == <<remove_N, preRemove_N, size>>
compVars == <<published, busy, reg>>
stopVars == <<isRunning, dpc>>
vars == <<clientVars, queueVars, wpc, tableVars, removeVars, compVars, stopVars>>

Snapshot == [op |-> "snapshot"]
Task == [op : {"set", "get", "delete"}, key : Keys] \cup {Snapshot}

EmptyMemtable(level) == [level |-> level, keys |-> {}, size |-> 0]

Init ==
  /\ cpc = [c \in Clients |-> "idle"]
  /\ bg_handle_vec = <<>> /\ handle_vec = <<>> /\ cursor = 0
  /\ wpc = "loop" /\ isRunning = TRUE /\ dpc = "alive"
  /\ memtable = EmptyMemtable(0)
  /\ readonly = <<>>
  /\ remove_N = 0 /\ preRemove_N = 0 /\ size = 0
  /\ handed = 0 /\ published = 0
  /\ busy = {} /\ reg = [w \in CompWorkers |-> 0]
  /\ submitted = <<>> /\ handled = <<>>

-----------------------------------------------------------------------------
(* Client threads: addTask, then notify_one outside every lock.            *)

NotifyOneLost == wpc' = wpc

\* cond_.notify_one(): wakes the worker if it is inside cond_.wait, else is lost.
NotifyOne == wpc' = IF wpc = "waiting" THEN "swap" ELSE wpc

addTask(c, task) ==
  /\ cpc[c] = "idle" /\ dpc = "alive"
  /\ Len(submitted) < MaxTasks
  /\ bg_handle_vec' = Append(bg_handle_vec, task)
  /\ submitted' = Append(submitted, task)
  /\ cpc' = [cpc EXCEPT ![c] = "notify"]
  /\ UNCHANGED <<handle_vec, cursor, handled, wpc, tableVars, removeVars, compVars, stopVars>>

Set(c, k) == addTask(c, [op |-> "set", key |-> k])
Get(c, k) == addTask(c, [op |-> "get", key |-> k])
Delete(c, k) == addTask(c, [op |-> "delete", key |-> k])
SnapShot(c) == addTask(c, Snapshot)

Notify(c) ==
  /\ cpc[c] = "notify"
  /\ cpc' = [cpc EXCEPT ![c] = "idle"]
  /\ NotifyOne
  /\ UNCHANGED <<submitted, queueVars, tableVars, removeVars, compVars, stopVars>>

-----------------------------------------------------------------------------
(* The worker thread: one pass of the loop of TaskWorker::Run.             *)

Loop ==
  /\ wpc = "loop"
  /\ wpc' = IF isRunning THEN "check" ELSE "done"
  /\ UNCHANGED <<clientVars, queueVars, tableVars, removeVars, compVars, stopVars>>

\* Mutant: the loop waits without looking at the queue.
CheckAlwaysWaits ==
  /\ wpc = "check"
  /\ wpc' = "block"
  /\ UNCHANGED <<clientVars, queueVars, tableVars, removeVars, compVars, stopVars>>

Check ==
  /\ wpc = "check"
  /\ wpc' = IF bg_handle_vec = <<>> THEN "block" ELSE "swap"
  /\ UNCHANGED <<clientVars, queueVars, tableVars, removeVars, compVars, stopVars>>

\* Lock mtx_ (no other thread ever does) and enter cond_.wait.
Block ==
  /\ wpc = "block"
  /\ wpc' = "waiting"
  /\ UNCHANGED <<clientVars, queueVars, tableVars, removeVars, compVars, stopVars>>

\* cond_.wait has no predicate: a spurious wakeup returns too.
SpuriousWakeup ==
  /\ wpc = "waiting"
  /\ wpc' = "swap"
  /\ UNCHANGED <<clientVars, queueVars, tableVars, removeVars, compVars, stopVars>>

Swap ==
  /\ wpc = "swap"
  /\ bg_handle_vec' = handle_vec
  /\ handle_vec' = bg_handle_vec
  /\ cursor' = 0
  /\ wpc' = "handle"
  /\ UNCHANGED <<clientVars, handled, tableVars, removeVars, compVars, stopVars>>

\* Memtable::Set inserts a record and grows memSize_ only for a new key.
MemSet(m, k) ==
  IF k \in m.keys THEN m ELSE [m EXCEPT !.keys = @ \cup {k}, !.size = @ + 1]

\* Memtable::Delete inserts its marker and leaves memSize_ alone.
MemDelete(m, k) == [m EXCEPT !.keys = @ \cup {k}]

Apply(m, task) ==
  CASE task.op = "set"    -> MemSet(m, task.key)
    [] task.op = "delete" -> MemDelete(m, task.key)
    [] OTHER              -> m

Handle ==
  /\ wpc = "handle" /\ cursor < Len(handle_vec)
  /\ cursor' = cursor + 1
  /\ memtable' = Apply(memtable, handle_vec[cursor + 1])
  /\ handled' = Append(handled, handle_vec[cursor + 1])
  /\ UNCHANGED <<clientVars, bg_handle_vec, handle_vec, wpc, readonly, handed,
                 removeVars, compVars, stopVars>>

EndHandle ==
  /\ wpc = "handle" /\ cursor = Len(handle_vec)
  /\ wpc' = IF remove_N > preRemove_N THEN "count" ELSE "clear"
  /\ UNCHANGED <<clientVars, queueVars, tableVars, removeVars, compVars, stopVars>>

\* Mutant: the operands of the difference are swapped.
CountSwapped ==
  /\ wpc = "count"
  /\ size' = preRemove_N - remove_N
  /\ wpc' = "erase"
  /\ UNCHANGED <<clientVars, queueVars, tableVars, remove_N, preRemove_N, compVars, stopVars>>

\* size = remove_N_ - preRemove_N_ in uint64_t: EndHandle read remove_N_ before, and
\* if a CompWorker has stored an older value since, the difference wraps around to
\* more than any vector holds.
Count ==
  /\ wpc = "count"
  /\ size' = IF remove_N >= preRemove_N THEN remove_N - preRemove_N ELSE Len(readonly) + 1
  /\ wpc' = "erase"
  /\ UNCHANGED <<clientVars, queueVars, tableVars, remove_N, preRemove_N, compVars, stopVars>>

\* Mutant: erases as many tables as were ever flushed.
EraseAllFlushed ==
  /\ wpc = "erase"
  /\ readonly' = SubSeq(readonly, remove_N + 1, Len(readonly))
  /\ wpc' = IF remove_N <= Len(readonly) THEN "advance" ELSE "crashed"
  /\ UNCHANGED <<clientVars, queueVars, memtable, handed, removeVars, compVars, stopVars>>

\* erase(begin()) of an empty vector is undefined: the process is taken to crash.
Erase ==
  /\ wpc = "erase"
  /\ readonly' = SubSeq(readonly, size + 1, Len(readonly))
  /\ wpc' = IF size <= Len(readonly) THEN "advance" ELSE "crashed"
  /\ UNCHANGED <<clientVars, queueVars, memtable, handed, removeVars, compVars, stopVars>>

\* preRemove_N_ = remove_N_, read once more.
Advance ==
  /\ wpc = "advance"
  /\ preRemove_N' = remove_N
  /\ wpc' = "clear"
  /\ UNCHANGED <<clientVars, queueVars, tableVars, remove_N, size, compVars, stopVars>>

\* Mutant: handle_vec_.clear() is missing.
NoClear ==
  /\ wpc = "clear"
  /\ wpc' = IF memtable.size >= MaxMemTableSize THEN "rotate" ELSE "loop"
  /\ UNCHANGED <<clientVars, queueVars, tableVars, removeVars, compVars, stopVars>>

Clear ==
  /\ wpc = "clear"
  /\ handle_vec' = <<>>
  /\ cursor' = 0
  /\ wpc' = IF memtable.size >= MaxMemTableSize THEN "rotate" ELSE "loop"
  /\ UNCHANGED <<clientVars, bg_handle_vec, handled, tableVars, removeVars, compVars, stopVars>>

\* setReadOnly and Compactor::AddReadOnlyTable: from here a CompWorker may flush it.
Rotate ==
  /\ wpc = "rotate"
  /\ handed' = handed + 1
  /\ wpc' = "retire"
  /\ UNCHANGED <<clientVars, queueVars, memtable, readonly, removeVars, compVars, stopVars>>

\* Only now does the worker keep its own reference and open the next table.  On the way
\* assert(memtable_.use_count() == 3) ends the process when a CompWorker is already through
\* with the table; FlushPipeline has that end.  Here the worker goes on, which only adds
\* behaviours.
Retire ==
  /\ wpc = "retire"
  /\ readonly' = Append(readonly, memtable.level)
  /\ memtable' = EmptyMemtable(memtable.level + 1)
  /\ wpc' = "loop"
  /\ UNCHANGED <<clientVars, queueVars, handed, removeVars, compVars, stopVars>>

-----------------------------------------------------------------------------
(* CompWorker threads: the view of the next table is published (in level   *)
(* order, which MemTable_view::Init asserts), then remove_N_++ as a load   *)
(* and a store of a plain uint64_t.                                        *)

Publish(w) ==
  /\ w \notin busy
  /\ published < handed
  /\ published' = published + 1
  /\ busy' = busy \cup {w}
  /\ reg' = [reg EXCEPT ![w] = remove_N]
  /\ UNCHANGED <<clientVars, queueVars, wpc, tableVars, removeVars, stopVars>>

PushRemoveReadonlyMemtableContext(w) ==
  /\ w \in busy
  /\ remove_N' = reg[w] + 1
  /\ busy' = busy \ {w}
  /\ UNCHANGED <<clientVars, queueVars, wpc, tableVars, preRemove_N, size, published, reg, stopVars>>

-----------------------------------------------------------------------------
(* ~SharedMemtable, run by the owner when no client is inside a call:      *)
(* isRunning_ = false, Notify(), then Stop(), which notifies again, joins. *)

StopRunning ==
  /\ dpc = "alive" /\ \A c \in Clients : cpc[c] = "idle"
  /\ isRunning' = FALSE
  /\ dpc' = "notify"
  /\ UNCHANGED <<clientVars, queueVars, wpc, tableVars, removeVars, compVars>>

StopNotify ==
  /\ dpc \in {"notify", "stop"}
  /\ NotifyOne
  /\ dpc' = IF dpc = "notify" THEN "stop" ELSE "join"
  /\ UNCHANGED <<clientVars, queueVars, tableVars, removeVars, compVars, isRunning>>

Join ==
  /\ dpc = "join" /\ wpc = "done"
  /\ dpc' = "joined"
  /\ UNCHANGED <<clientVars, queueVars, wpc, tableVars, removeVars, compVars, isRunning>>

-----------------------------------------------------------------------------
Client(c) ==
  \/ \E k \in Keys : Set(c, k) \/ Get(c, k) \/ Delete(c, k)
  \/ SnapShot(c)
  \/ Notify(c)

Worker ==
  \/ Loop \/ Check \/ Block \/ Swap \/ Handle \/ EndHandle
  \/ Count \/ Erase \/ Advance \/ Clear \/ Rotate \/ Retire

CompWorker(w) == Publish(w) \/ PushRemoveReadonlyMemtableContext(w)

Destructor == StopRunning \/ StopNotify \/ Join

Next ==
  \/ \E c \in Clients : Client(c)
  \/ Worker \/ SpuriousWakeup
  \/ \E w \in CompWorkers : CompWorker(w)
  \/ Destructor

Spec == Init /\ [][Next]_vars

\* Threads that can run do run; nobody is obliged to call in, to destroy the
\* object or to be woken for no reason, and a flush may take forever.
Fairness ==
  /\ WF_vars(Worker)
  /\ \A c \in Clients : WF_vars(Notify(c))
  /\ WF_vars(StopNotify) /\ WF_vars(Join)

FairSpec == Spec /\ Fairness

-----------------------------------------------------------------------------
(* Properties.                                                             *)

WorkerStates ==
  {"loop", "check", "block", "waiting", "swap", "handle", "count", "erase",
   "advance", "clear", "rotate", "retire", "done", "crashed"}

Memtable == [level : Nat, keys : SUBSET Keys, size : Nat]

\* Every variable has the type its C++ counterpart has.
TypeOK ==
  /\ cpc \in [Clients -> {"idle", "notify"}]
  /\ submitted \in Seq(Task) /\ handled \in Seq(Task)
  /\ bg_handle_vec \in Seq(Task) /\ handle_vec \in Seq(Task)
  /\ cursor \in Nat
  /\ wpc \in WorkerStates
  /\ isRunning \in BOOLEAN
  /\ dpc \in {"alive", "notify", "stop", "join", "joined"}
  /\ memtable \in Memtable
  /\ readonly \in Seq(Nat)
  /\ handed \in Nat /\ published \in Nat
  /\ remove_N \in Nat /\ preRemove_N \in Nat /\ size \in Nat
  /\ busy \subseteq CompWorkers /\ reg \in [CompWorkers -> Nat]

Rest(s, n) == SubSeq(s, n + 1, Len(s))

\* No task is lost, executed twice or overtaken between addTask and its execution,
\* whatever the clients' pushes do between the unlocked emptiness test, the swap of the
\* two vectors and the clear: what was executed, what is left of handle_vec_ and what
\* waits in bg_handle_vec_ are, in this order, exactly the submitted tasks.
TasksInOrder == handled \o Rest(handle_vec, cursor) \o bg_handle_vec = submitted

\* Tables the worker has put into readonly_memtable_vec_ and dropped again.
Erased == memtable.level - Len(readonly)

\* A read-only table leaves memory only once its flushed view is readable: the vector
\* holds the newest retired levels, without a hole, and every level missing from its
\* front has been published by a CompWorker (shared_memtable.hpp, lines 91-95).
ErasedOnlyAfterFlush ==
  /\ Erased \in 0..published
  /\ \A i \in 1..Len(readonly) : readonly[i] = Erased + i - 1

\* The erase loop never runs past the end of readonly_memtable_vec_, although remove_N_
\* is written by another thread and read three times around the loop.
EraseInRange == wpc # "crashed"

\* Strengthens TasksInOrder: handle_vec_ is empty outside the handling pass.
QueueShape ==
  /\ cursor <= Len(handle_vec)
  /\ wpc \in {"count", "erase", "advance", "clear"} => cursor = Len(handle_vec)
  /\ wpc \notin {"handle", "count", "erase", "advance", "clear", "crashed"}
       => handle_vec = <<>> /\ cursor = 0

\* Strengthens the two erase properties when CompWorkers = {w}.
RemoveInv(w) ==
  /\ published <= handed
  /\ handed = IF wpc = "retire" THEN memtable.level + 1 ELSE memtable.level
  /\ published = IF w \in busy THEN remove_N + 1 ELSE remove_N
  /\ w \in busy => reg[w] = remove_N
  /\ preRemove_N <= remove_N
  /\ wpc \in {"erase", "advance"} => preRemove_N + size <= remove_N
  /\ 0 <= Erased
  /\ Erased <= IF wpc = "advance" THEN preRemove_N + size ELSE preRemove_N
  /\ \A i \in 1..Len(readonly) : readonly[i] = Erased + i - 1
  /\ wpc # "crashed"

\* A queued task is picked up if the worker has not yet decided to sleep, or sleeps
\* while some client is still to notify: the emptiness test at line 42 covers a push
\* that comes before it, and a notification covers everything queued so far.
QueuedIsServed ==
  (/\ bg_handle_vec # <<>> /\ isRunning
   /\ \/ wpc \notin {"block", "waiting"}
      \/ wpc = "waiting" /\ \E c \in Clients : cpc[c] = "notify")
  ~> (bg_handle_vec = <<>> \/ ~isRunning)

Life == INSTANCE TableLifecycle WITH
  Numbers <- {0},
  sealed <- [n \in {0} |-> handed],
  published <- [n \in {0} |-> published],
  dropped <- [n \in {0} |-> Erased]

\* The worker and one CompWorker keep the promise of TableLifecycle, whatever the
\* clients send and however the reads and the writes of remove_N_ interleave.
KeepsTableLifecycle == Life!Spec

\* The destructor of a worker that sleeps in cond_.wait returns.
SleepingWorkerJoins ==
  (dpc = "notify" /\ wpc = "waiting") ~> (dpc = "joined")

\* Every task handed to a running worker is executed (the comment at lines 39-41 says
\* the emptiness test takes care of a notification that comes too early).
EveryTaskIsHandled ==
  \A n \in 1..MaxTasks :
    (Len(submitted) >= n /\ isRunning) ~> (Len(handled) >= n \/ ~isRunning)

=============================================================================
