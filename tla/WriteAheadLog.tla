---------------------------- MODULE WriteAheadLog ----------------------------
(***************************************************************************)
(* The ring-shaped write-ahead log: DB::Set and DB::Delete as any number   *)
(* of threads call them (db/exportdb.cpp), WalWriter (db/wal_writer.cpp)   *)
(* and the WalLog file under it (util/file/wal_log.cpp), with the process  *)
(* killed and started again at any point.                                  *)
(*                                                                         *)
(* A record is its size and its sequence number; what it says is left out. *)
(* The file is the sequence of its cells, each naming the record it was    *)
(* written for.  Set and Delete differ in the text of the record only.     *)
(* DB takes no lock: every access to global_number_, current_log_size_ and *)
(* the file is a step, += on the plain uint32_t is a load and a store.     *)
(* write(2) moves the offset and the data in one step (the kernel locks    *)
(* the file position), is assumed to be complete as the code asserts, and  *)
(* O_SYNC puts it on disk before it returns.                               *)
(***************************************************************************)
EXTENDS Integers, Sequences

CONSTANTS
  Clients,        \* threads that call DB::Set and DB::Delete
  Sizes,          \* sizes of a formatted record
  wal_log_size,   \* wal_log_size_
  MaxRecord,      \* the largest size
  MaxRecords,     \* bound of the model: records ever written
  MaxRestarts     \* bound of the model: times the process is killed

ASSUME SizesAssumption ==
  /\ Sizes \subseteq Nat \ {0}
  /\ MaxRecord \in Sizes /\ \A s \in Sizes : s <= MaxRecord
ASSUME CapacityAssumption == wal_log_size \in Nat \ {0}
ASSUME WalBoundsAssumption == MaxRecords \in Nat /\ MaxRestarts \in Nat

VARIABLES
  wal_pc,                 \* client -> where in DB::Set / DB::Delete it is
  record,             \* client -> the record it has formatted: [size, number]
  reg,                \* client -> current_log_size_ as loaded for +=
  global_number,
  current_log_size,
  offset,             \* file position of fd_
  file,               \* the cells of the file
  history,            \* the records in the order they were written
  restarts

logVars == <<current_log_size, offset, file>>
walVars == <<wal_pc, record, reg, global_number, logVars, history, restarts>>

Record == [size : Sizes, number : Nat]

\* A written record: where it went, in which process, and the bytes written up to its end.
Entry == [size : Sizes, number : Nat, at : Nat, epoch : Nat, total : Nat]

WalInit ==
  /\ wal_pc = [c \in Clients |-> "idle"]
  /\ record \in [Clients -> [size : {MaxRecord}, number : {0}]]
  /\ reg = [c \in Clients |-> 0]
  /\ global_number = 0
  /\ current_log_size = 0 /\ offset = 0 /\ file = <<>>
  /\ history = <<>>
  /\ restarts = 0

Goto(c, from, to) == wal_pc[c] = from /\ wal_pc' = [wal_pc EXCEPT ![c] = to]

-----------------------------------------------------------------------------
(* DB::Set / DB::Delete.                                                   *)

\* SetContextWalLogFormat(.., global_number_.getValue(), ..).
Format(c, s) ==
  /\ Goto(c, "idle", "increment")
  /\ Len(history) < MaxRecords
  /\ record' = [record EXCEPT ![c] = [size |-> s, number |-> global_number]]
  /\ UNCHANGED <<reg, global_number, logVars, history, restarts>>

\* ++global_number_.
Increment(c) ==
  /\ Goto(c, "increment", "load")
  /\ global_number' = global_number + 1
  /\ UNCHANGED <<record, reg, logVars, history, restarts>>

-----------------------------------------------------------------------------
(* WalWriter::AddRecord.                                                   *)

Load(c) ==
  /\ Goto(c, "load", "store")
  /\ reg' = [reg EXCEPT ![c] = current_log_size]
  /\ UNCHANGED <<record, global_number, logVars, history, restarts>>

Store(c) ==
  /\ Goto(c, "store", "test")
  /\ current_log_size' = reg[c] + record[c].size
  /\ UNCHANGED <<record, reg, global_number, offset, file, history, restarts>>

\* Mutant: the log starts over when it is half full.
TestHalf(c) ==
  /\ Goto(c, "test", IF 2 * current_log_size >= wal_log_size THEN "seek" ELSE "write")
  /\ UNCHANGED <<record, reg, global_number, logVars, history, restarts>>

Test(c) ==
  /\ Goto(c, "test", IF current_log_size >= wal_log_size THEN "seek" ELSE "write")
  /\ UNCHANGED <<record, reg, global_number, logVars, history, restarts>>

SeekBegin(c) ==
  /\ Goto(c, "seek", "reset")
  /\ offset' = 0
  /\ UNCHANGED <<record, reg, global_number, current_log_size, file, history, restarts>>

\* current_log_size_ = 0: the record about to be written is not counted.
Reset(c) ==
  /\ Goto(c, "reset", "write")
  /\ current_log_size' = 0
  /\ UNCHANGED <<record, reg, global_number, offset, file, history, restarts>>

\* Bytes written so far.
Total == IF history = <<>> THEN 0 ELSE history[Len(history)].total

\* WalLog::AddRecord, the only write to the file; then the task goes to shared_memtable_.
AddRecord(c) ==
  LET s == record[c].size
      id == Len(history) + 1
      end == offset + s
      size == IF end > Len(file) THEN end ELSE Len(file)
  IN /\ Goto(c, "write", "idle")
     /\ file' = [p \in 1..size |-> IF p \in (offset + 1)..end THEN id ELSE file[p]]
     /\ offset' = end
     /\ history' = Append(history, [size |-> s, number |-> record[c].number, at |-> offset,
                                    epoch |-> restarts, total |-> Total + s])
     /\ UNCHANGED <<record, reg, global_number, current_log_size, restarts>>

-----------------------------------------------------------------------------
\* Mutant: the log is opened for appending and its size is not taken over.
RestartAppending ==
  /\ restarts < MaxRestarts
  /\ restarts' = restarts + 1
  /\ wal_pc' = [c \in Clients |-> "idle"]
  /\ global_number' = 0
  /\ current_log_size' = 0
  /\ offset' = Len(file)
  /\ UNCHANGED <<record, reg, file, history>>

\* The process is killed and DB::Init runs: a new WalWriter takes the size of the file
\* it finds, the file is opened at offset 0, and nothing is recovered.
Restart ==
  /\ restarts < MaxRestarts
  /\ restarts' = restarts + 1
  /\ wal_pc' = [c \in Clients |-> "idle"]
  /\ global_number' = 0
  /\ current_log_size' = Len(file)
  /\ offset' = 0
  /\ UNCHANGED <<record, reg, file, history>>

Client(c) ==
  \/ \E s \in Sizes : Format(c, s)
  \/ Increment(c) \/ Load(c) \/ Store(c) \/ Test(c) \/ SeekBegin(c) \/ Reset(c)
  \/ AddRecord(c)

WalNext == (\E c \in Clients : Client(c)) \/ Restart

WalSpec == WalInit /\ [][WalNext]_walVars

-----------------------------------------------------------------------------
(* Properties.                                                             *)

\* Every variable has the type its C++ counterpart has.
WalTypeOK ==
  /\ wal_pc \in [Clients -> {"idle", "increment", "load", "store", "test", "seek", "reset", "write"}]
  /\ record \in [Clients -> Record]
  /\ reg \in [Clients -> Nat]
  /\ global_number \in Nat
  /\ current_log_size \in Nat /\ offset \in Nat
  /\ file \in Seq(Nat)
  /\ history \in Seq(Entry)
  /\ restarts \in Nat

\* With one writer the file outgrows the threshold by less than one record, through any
\* number of wraps and restarts, although a wrap forgets to count the record that
\* follows it and a restart counts bytes it is going to overwrite.
FileBounded == Len(file) < wal_log_size + MaxRecord

Intact(i) ==
  \A p \in (history[i].at + 1)..(history[i].at + history[i].size) : file[p] = i

\* Bytes written after record i.
BytesSince(i) == Total - history[i].total

\* A record is overwritten only when the log has come round to it: as long as fewer bytes
\* than the threshold, less the two records at the seam, follow it, all its cells are
\* still its own.
KeptForOneRound ==
  \A i \in 1..Len(history) :
    BytesSince(i) <= wal_log_size - 2 * MaxRecord => Intact(i)

\* The first process keeps every record for one round.  The next one does not: it counts
\* the old file and begins at its start.
KeptUntilRestart == restarts = 0 => KeptForOneRound


\* Strengthens FileBounded when Clients = {c}: how far the file position may be ahead of
\* the bytes counted, at every point of AddRecord.
RingInv(c) ==
  /\ FileBounded
  /\ wal_pc[c] \in {"idle", "increment", "load", "store", "seek"}
       => offset <= current_log_size + MaxRecord
  /\ wal_pc[c] = "store" => reg[c] = current_log_size
  /\ wal_pc[c] \in {"test", "write"} => offset + record[c].size <= current_log_size + MaxRecord
  /\ wal_pc[c] = "reset" => offset = 0
  /\ wal_pc[c] = "write" => current_log_size < wal_log_size

\* Strengthens KeptForOneRound when Clients = {c}, until the first restart: no more bytes
\* are counted than the file position has passed, so a wrap comes late enough;
CountInv(c) ==
  /\ wal_pc[c] \in {"idle", "increment", "load", "store"} => current_log_size <= offset
  /\ wal_pc[c] = "store" => reg[c] = current_log_size
  /\ wal_pc[c] \in {"test", "seek", "write"} => current_log_size <= offset + record[c].size
  /\ wal_pc[c] = "seek" => current_log_size >= wal_log_size
  /\ wal_pc[c] = "reset" => offset = 0

\* every record lies inside the file;
Inside(i) ==
  /\ history[i].size <= history[i].total /\ history[i].total <= Total
  /\ history[i].at + history[i].size <= Len(file)

\* a record of this round ends before the file position and is intact;
ThisRound(i) ==
  /\ history[i].at = history[i].total - history[i].size - (Total - offset)
  /\ Intact(i)

\* and one of an earlier round is ahead of the file position and intact, the rest of its
\* round and the file position making up a threshold less a record, or is too old.
EarlierRound(i) ==
  \/ /\ history[i].at >= offset /\ Intact(i)
     /\ Total - offset - (history[i].total - history[i].size) + history[i].at
          >= wal_log_size - MaxRecord
  \/ BytesSince(i) > wal_log_size - 2 * MaxRecord

RoundInv ==
  /\ offset <= Total
  /\ \A i \in 1..Len(history) :
       /\ Inside(i)
       /\ IF history[i].total - history[i].size >= Total - offset
          THEN ThisRound(i) ELSE EarlierRound(i)

KeptInv(c) == restarts = 0 => CountInv(c) /\ RoundInv

=============================================================================
