----------------------------- MODULE FlushPipeline -----------------------------
(***************************************************************************)
(* The path of a full memtable to disk and back into view: every           *)
(* TaskWorker's rotation (db/shared_memtable.cpp), Compactor's round robin,*)
(* the CompWorker threads with their io_uring each (db/compactor.cpp),     *)
(* SSTableManager and MemTableViewManager.                                 *)
(*                                                                         *)
(* A table is <<number, level>>; its records, the serialised bytes and the *)
(* file names are left out.  What TaskWorker tells apart around remove_N_  *)
(* (three reads, a load and a store) is one step here; when a worker       *)
(* rotates is a free choice.  Vector elements out of range, null pointers  *)
(* and failed assertions end the process: status says which.  What the     *)
(* bytes of a file or the operating system decide is a choice over every   *)
(* end the code has.                                                       *)
(***************************************************************************)
EXTENDS Integers, Sequences, Functions

CONSTANTS
  memtable_N,       \* memtables, DBConfig::memtable_N
  task_workers_n,   \* CompWorker threads, DBConfig::compactor_thread_size
  max_level_n,      \* DBConfig::max_level_size
  MaxTables,        \* bound of the model: rotations of one memtable
  InitEnds          \* what MemTable_view::Init can end in, see ViewInit

ASSUME MemtableNAssumption == memtable_N \in Nat \ {0}
ASSUME TaskWorkersAssumption == task_workers_n \in Nat \ {0}
ASSUME LevelAssumption == max_level_n \in Nat /\ MaxTables \in Nat
ASSUME ViewAssumption == InitEnds \subseteq {"null", "key_count", "up"} /\ "null" \in InitEnds

Numbers == 0..(memtable_N - 1)
CompWorkers == 0..(task_workers_n - 1)

VARIABLES
  status,              \* "up", or what ended the process
  (* per memtable number *)
  level,               \* getCompactionN of memtable_
  retiring,            \* between AddReadOnlyTable and the new memtable
  readonly,            \* readonly_memtable_vec_: levels, oldest first
  remove_N, preRemove_N,
  sstables,            \* size of SSTableManager::sstable_vec_[n]
  views,               \* memtable_vec_: levels of the views, in push order
  isCompaction,
  (* Compactor *)
  current_comp_index,
  (* per CompWorker *)
  bg_wait,             \* bg_wait_to_sync_sstable_
  wait,                \* what is left of wait_to_sync_sstable_ to serialise
  kept,                \* what wait_to_sync_sstable_ still references
  cst,                 \* "idle" | "peek" | "flush" | "merge"
  j,                   \* local of line 361
  inflight,            \* writes submitted to the io_uring
  cq                   \* its completion queue

taskVars == <<level, retiring, readonly, preRemove_N>>
mergeVars == <<isCompaction, j>>
vars == <<status, taskVars, remove_N, sstables, views, mergeVars, current_comp_index,
          bg_wait, wait, kept, cst, inflight, cq>>

Init ==
  /\ status = "up"
  /\ level = [n \in Numbers |-> 0]
  /\ retiring = [n \in Numbers |-> FALSE]
  /\ readonly = [n \in Numbers |-> <<>>]
  /\ remove_N = [n \in Numbers |-> 0] /\ preRemove_N = [n \in Numbers |-> 0]
  /\ sstables = [n \in Numbers |-> 0]
  /\ views = [n \in Numbers |-> <<>>]
  /\ isCompaction = [n \in Numbers |-> FALSE]
  /\ current_comp_index = 0
  /\ bg_wait = [c \in CompWorkers |-> <<>>]
  /\ wait = [c \in CompWorkers |-> <<>>]
  /\ kept = [c \in CompWorkers |-> <<>>]
  /\ cst = [c \in CompWorkers |-> "idle"]
  /\ j = [c \in CompWorkers |-> 0]
  /\ inflight = [c \in CompWorkers |-> {}]
  /\ cq = [c \in CompWorkers |-> <<>>]

-----------------------------------------------------------------------------
(* TaskWorker n.                                                           *)

\* Mutant: the newest table is put first.
AddSStableFront(c, t) == bg_wait' = [bg_wait EXCEPT ![c] = <<t>> \o @]

\* CompWorker::AddSStable.
AddSStable(c, t) == bg_wait' = [bg_wait EXCEPT ![c] = Append(@, t)]

\* Compactor::AddReadOnlyTable, called with the full memtable of number n.
AddReadOnlyTable(n) ==
  /\ status = "up" /\ ~retiring[n] /\ level[n] < MaxTables
  /\ AddSStable(current_comp_index, <<n, level[n]>>)
  /\ current_comp_index' = (current_comp_index + 1) % task_workers_n
  /\ retiring' = [retiring EXCEPT ![n] = TRUE]
  /\ UNCHANGED <<status, level, readonly, remove_N, preRemove_N, sstables, views, mergeVars,
                 wait, kept, cst, inflight, cq>>

\* A vector of a CompWorker still holds a reference to table t.
Referenced(t) ==
  \E c \in CompWorkers :
    \/ \E i \in DOMAIN bg_wait[c] : bg_wait[c][i] = t
    \/ \E i \in DOMAIN kept[c] : kept[c][i] = t

\* The rest of the rotation; memtable_, readonly_memtable_vec_ and the CompWorker are
\* the three owners that assert(memtable_.use_count() == 3) counts.
Retire(n) ==
  /\ status = "up" /\ retiring[n]
  /\ IF Referenced(<<n, level[n]>>)
     THEN /\ readonly' = [readonly EXCEPT ![n] = Append(@, level[n])]
          /\ level' = [level EXCEPT ![n] = @ + 1]
          /\ retiring' = [retiring EXCEPT ![n] = FALSE]
          /\ UNCHANGED status
     ELSE /\ status' = "use_count"
          /\ UNCHANGED <<readonly, level, retiring>>
  /\ UNCHANGED <<remove_N, preRemove_N, sstables, views, mergeVars, current_comp_index,
                 bg_wait, wait, kept, cst, inflight, cq>>

\* Mutant: one table more than was flushed leaves memory.
DropOneMore(n) ==
  /\ status = "up" /\ ~retiring[n]
  /\ remove_N[n] > preRemove_N[n]
  /\ LET size == remove_N[n] - preRemove_N[n] IN
       readonly' = [readonly EXCEPT ![n] = SubSeq(@, size + 2, Len(@))]
  /\ preRemove_N' = [preRemove_N EXCEPT ![n] = remove_N[n]]
  /\ UNCHANGED <<status, level, retiring, remove_N, sstables, views, mergeVars,
                 current_comp_index, bg_wait, wait, kept, cst, inflight, cq>>

\* The erase loop after a handling pass.
DropFlushed(n) ==
  /\ status = "up" /\ ~retiring[n]
  /\ remove_N[n] > preRemove_N[n]
  /\ LET size == remove_N[n] - preRemove_N[n] IN
       readonly' = [readonly EXCEPT ![n] = SubSeq(@, size + 1, Len(@))]
  /\ preRemove_N' = [preRemove_N EXCEPT ![n] = remove_N[n]]
  /\ UNCHANGED <<status, level, retiring, remove_N, sstables, views, mergeVars,
                 current_comp_index, bg_wait, wait, kept, cst, inflight, cq>>

-----------------------------------------------------------------------------
(* CompWorker c: minor compaction.                                         *)

\* Mutant: the vectors are not swapped but copied.
TakeCopy(c) ==
  /\ status = "up" /\ cst[c] = "idle" /\ bg_wait[c] # <<>>
  /\ wait' = [wait EXCEPT ![c] = bg_wait[c]]
  /\ kept' = [kept EXCEPT ![c] = bg_wait[c]]
  /\ cst' = [cst EXCEPT ![c] = "flush"]
  /\ UNCHANGED <<status, taskVars, remove_N, sstables, views, mergeVars, current_comp_index,
                 bg_wait, inflight, cq>>

\* Something to flush: swap with the (empty) wait_to_sync_sstable_.
Take(c) ==
  /\ status = "up" /\ cst[c] = "idle" /\ bg_wait[c] # <<>>
  /\ bg_wait' = [bg_wait EXCEPT ![c] = kept[c]]
  /\ wait' = [wait EXCEPT ![c] = bg_wait[c]]
  /\ kept' = [kept EXCEPT ![c] = bg_wait[c]]
  /\ cst' = [cst EXCEPT ![c] = "flush"]
  /\ UNCHANGED <<status, taskVars, remove_N, sstables, views, mergeVars, current_comp_index,
                 inflight, cq>>

\* SSTableManager::newSSTable pushes one slot and returns slot [number][level].
newSSTable(t) == sstables' = [sstables EXCEPT ![t[1]] = @ + 1]

\* SSTable::Init opens the file; the caller asserts that it could.
SSTableInit == {"up", "open"}

\* IOUring::PrepWrite and Submit, and sync_data_map_ that keeps the bytes alive.
PrepWrite(c, t) == inflight' = [inflight EXCEPT ![c] = @ \cup {t}]

\* Serialise one table, take its SSTable, open its file and submit the write.
Flush(c) ==
  /\ status = "up" /\ cst[c] = "flush" /\ wait[c] # <<>>
  /\ LET t == Head(wait[c]) IN
       /\ newSSTable(t)
       /\ status' \in IF t[2] <= sstables[t[1]] THEN SSTableInit ELSE {"sstable_vec"}
       /\ IF status' = "up"
          THEN PrepWrite(c, t) /\ wait' = [wait EXCEPT ![c] = Tail(@)]
          ELSE UNCHANGED <<inflight, wait>>
  /\ UNCHANGED <<taskVars, remove_N, views, mergeVars, current_comp_index, bg_wait, kept,
                 cst, cq>>

\* wait_to_sync_sstable_.clear(), then the scan for level merges.
EndFlush(c) ==
  /\ status = "up" /\ cst[c] = "flush" /\ wait[c] = <<>>
  /\ kept' = [kept EXCEPT ![c] = <<>>]
  /\ cst' = [cst EXCEPT ![c] = "merge"]
  /\ j' = [j EXCEPT ![c] = 0]
  /\ UNCHANGED <<status, taskVars, remove_N, sstables, views, isCompaction,
                 current_comp_index, bg_wait, wait, inflight, cq>>

\* Major compaction of number j.  getCompactLock sets isCompaction_, and so does
\* finishCompact.  size() - 1 of no view wraps around and element 0 is out of range; one
\* view leaves nothing to merge; two views reach newCompactionSSTable, whose
\* comp_sstable_vec_ is never resized.
Merge(c) ==
  /\ status = "up" /\ cst[c] = "merge" /\ j[c] < memtable_N
  /\ IF level[j[c]] > max_level_n /\ ~isCompaction[j[c]]
     THEN /\ isCompaction' = [isCompaction EXCEPT ![j[c]] = TRUE]
          /\ status' = IF Len(views[j[c]]) = 1 THEN "up" ELSE "merge"
     ELSE UNCHANGED <<isCompaction, status>>
  /\ j' = [j EXCEPT ![c] = @ + 1]
  /\ UNCHANGED <<taskVars, remove_N, sstables, views, current_comp_index, bg_wait, wait,
                 kept, cst, inflight, cq>>

EndMerge(c) ==
  /\ status = "up" /\ cst[c] = "merge" /\ j[c] = memtable_N
  /\ cst' = [cst EXCEPT ![c] = "idle"]
  /\ UNCHANGED <<status, taskVars, remove_N, sstables, views, mergeVars, current_comp_index,
                 bg_wait, wait, kept, inflight, cq>>

-----------------------------------------------------------------------------
(* CompWorker c: completions, looked at only when there is nothing to      *)
(* flush.  The kernel may complete the writes of a ring in any order.      *)

Complete(c) ==
  /\ status = "up"
  /\ \E t \in inflight[c] :
       /\ inflight' = [inflight EXCEPT ![c] = @ \ {t}]
       /\ cq' = [cq EXCEPT ![c] = Append(@, t)]
  /\ UNCHANGED <<status, taskVars, remove_N, sstables, views, mergeVars, current_comp_index,
                 bg_wait, wait, kept, cst>>

\* bg_wait_to_sync_sstable_ still empty after at most two seconds of cond_.wait_for.
Nothing(c) ==
  /\ status = "up" /\ cst[c] = "idle" /\ bg_wait[c] = <<>>
  /\ cst' = [cst EXCEPT ![c] = "peek"]
  /\ UNCHANGED <<status, taskVars, remove_N, sstables, views, mergeVars, current_comp_index,
                 bg_wait, wait, kept, inflight, cq>>

\* SSTable::InitMmap; the caller asserts that stat and mmap succeeded.
InitMmap == {"up", "mmap"}

\* MemTable_view::Init for table t.  It asserts that the level in the file is the number of
\* views so far (line 130), reads the seed of the bloom filter with a limit that the read
\* position has passed, gets a null pointer and goes on from there (lines 133-135), and
\* asserts that the key count in the file, where the compactor stored its width, is the
\* number of rows (line 162).  InitEnds = {"null"} is what this code does with a file that
\* the compactor wrote; the other ends cover what a build makes of the null pointer.
ViewInit(t) == IF t[2] # Len(views[t[1]]) THEN {"level"} ELSE InitEnds

\* What the completion of table t can end in.
Load(t) == (InitMmap \ {"up"}) \cup ViewInit(t)

\* One completion: InitMmap, PushTableView, PushRemoveReadonlyMemtableContext, and
\* DeleteEvent, which takes the entry out of the completion queue.
Peek(c) ==
  /\ status = "up" /\ cst[c] = "peek" /\ cq[c] # <<>>
  /\ LET t == Head(cq[c]) IN
       /\ status' \in Load(t)
       /\ IF status' = "up"
          THEN /\ views' = [views EXCEPT ![t[1]] = Append(@, t[2])]
               /\ remove_N' = [remove_N EXCEPT ![t[1]] = @ + 1]
               /\ cq' = [cq EXCEPT ![c] = Tail(@)]
          ELSE UNCHANGED <<views, remove_N, cq>>
  /\ UNCHANGED <<taskVars, sstables, mergeVars, current_comp_index, bg_wait, wait, kept, cst,
                 inflight>>

\* Mutant: the loop over the completions is not left while tables wait.
EndPeekStuck(c) ==
  /\ status = "up" /\ cst[c] = "peek" /\ cq[c] = <<>> /\ inflight[c] = {}
  /\ bg_wait[c] = <<>>
  /\ cst' = [cst EXCEPT ![c] = "idle"]
  /\ UNCHANGED <<status, taskVars, remove_N, sstables, views, mergeVars, current_comp_index,
                 bg_wait, wait, kept, inflight, cq>>

EndPeek(c) ==
  /\ status = "up" /\ cst[c] = "peek" /\ cq[c] = <<>>
  /\ cst' = [cst EXCEPT ![c] = "idle"]
  /\ UNCHANGED <<status, taskVars, remove_N, sstables, views, mergeVars, current_comp_index,
                 bg_wait, wait, kept, inflight, cq>>

-----------------------------------------------------------------------------
TaskWorker(n) == AddReadOnlyTable(n) \/ Retire(n) \/ DropFlushed(n)

CompWorker(c) ==
  Take(c) \/ Flush(c) \/ EndFlush(c) \/ Merge(c) \/ EndMerge(c)
    \/ Nothing(c) \/ Peek(c) \/ EndPeek(c)

Next ==
  \/ \E n \in Numbers : TaskWorker(n)
  \/ \E c \in CompWorkers : CompWorker(c) \/ Complete(c)

Spec == Init /\ [][Next]_vars

\* CompWorker threads run (cond_.wait_for times out), submitted writes complete, a
\* rotation that has begun ends, and a worker gets to its erase loop.
FairSpec ==
  /\ Spec
  /\ \A c \in CompWorkers : WF_vars(CompWorker(c)) /\ WF_vars(Complete(c))
  /\ \A n \in Numbers : WF_vars(Retire(n)) /\ WF_vars(DropFlushed(n))

-----------------------------------------------------------------------------
(* Properties.                                                             *)

\* A memtable and the SSTable made of it have their number and level.
Table == Numbers \X Nat

\* What a write carries through the io_uring names the table to be loaded.
CompData == Table

\* The writes an io_uring holds, and its completions in the order they are peeked.
IOUring == SUBSET CompData
ConSumptionQueue == Seq(CompData)

\* sstable_vec_ by its sizes; a view by its level; the views of every memtable.
SSTableManager == [Numbers -> Nat]
MemTable_view == Nat
MemTableViewManager == [Numbers -> Seq(MemTable_view)]

\* The process runs, or what ended it.
Ends == {"up", "use_count", "sstable_vec", "open", "merge", "mmap", "level", "null", "key_count"}

\* Every variable has the type its C++ counterpart has.
TypeOK ==
  /\ status \in Ends
  /\ level \in [Numbers -> Nat] /\ retiring \in [Numbers -> BOOLEAN]
  /\ readonly \in [Numbers -> Seq(Nat)] /\ views \in MemTableViewManager
  /\ remove_N \in [Numbers -> Nat] /\ preRemove_N \in [Numbers -> Nat]
  /\ sstables \in SSTableManager
  /\ isCompaction \in [Numbers -> BOOLEAN]
  /\ current_comp_index \in CompWorkers
  /\ bg_wait \in [CompWorkers -> Seq(Table)] /\ wait \in [CompWorkers -> Seq(Table)]
  /\ kept \in [CompWorkers -> Seq(Table)] /\ cq \in [CompWorkers -> ConSumptionQueue]
  /\ cst \in [CompWorkers -> {"idle", "peek", "flush", "merge"}]
  /\ j \in [CompWorkers -> 0..memtable_N]
  /\ inflight \in [CompWorkers -> IOUring]

\* Tables given to the compactor.
Sealed(n) == level[n] + IF retiring[n] THEN 1 ELSE 0

Handed == UNION {{n} \X (0..(Sealed(n) - 1)) : n \in Numbers}

\* Where table t is on its way to disk: vector or ring, CompWorker or number, and index.
Places(t) ==
  LET At(s, e) == {i \in DOMAIN s : s[i] = e}
      Of(c) == ({"bg_wait"} \X {c} \X At(bg_wait[c], t))
                 \cup ({"wait"} \X {c} \X At(wait[c], t))
                 \cup ({"inflight"} \X {c} \X (IF t \in inflight[c] THEN {0} ELSE {}))
                 \cup ({"cq"} \X {c} \X At(cq[c], t))
  IN  (UNION {Of(c) : c \in CompWorkers}) \cup ({"views"} \X {t[1]} \X At(views[t[1]], t[2]))

\* From AddReadOnlyTable on every table is in exactly one place: no swap of the two
\* vectors, no clear and no completion loses it or flushes it a second time.
FlushedOnce == \A t \in Handed : \E p \in Places(t) : Places(t) = {p}

\* The tables of a number are serialised in level order, so that the element
\* sstable_vec_[number][level] newSSTable returns (sstable_manager.cpp, line 24) is always
\* there: the tables that wait are those of levels that have no SSTable yet.
FlushedInOrder ==
  /\ status # "sstable_vec"
  /\ status # "open" => \A t \in Handed :
       t[2] < sstables[t[1]]
         <=> \A c \in CompWorkers : t \notin Range(bg_wait[c]) \cup Range(wait[c])

\* A handed table answers reads at all times: it is still memtable_, still in
\* readonly_memtable_vec_, or in a view, also while its flush is under way.
AlwaysReadable ==
  \A t \in Handed :
    \/ retiring[t[1]] /\ t[2] = level[t[1]]
    \/ t[2] \in Range(readonly[t[1]])
    \/ t[2] \in Range(views[t[1]])

\* The views of a number are pushed in level order, which the search from the newest view
\* back relies on and MemTable_view::Init asserts (memtable_view.cpp, line 130).
ViewLevelMatches == status # "level"

\* Every handed table reaches its file, unless the process ends first: the write of the
\* table has completed, whatever its view is going to be.
TablesAreWritten ==
  \A n \in Numbers, l \in 0..(MaxTables - 1) :
    Sealed(n) > l ~> (\/ l \in Range(views[n])
                      \/ \E c \in CompWorkers : <<n, l>> \in Range(cq[c])
                      \/ status # "up")

Life == INSTANCE TableLifecycle WITH
  sealed <- [n \in Numbers |-> Sealed(n)],
  published <- [n \in Numbers |-> Len(views[n])],
  dropped <- [n \in Numbers |-> level[n] - Len(readonly[n])]

\* The threads, queues and counters keep the promise of TableLifecycle.
KeepsTableLifecycle == Life!Spec

=============================================================================
