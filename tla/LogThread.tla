------------------------------ MODULE LogThread ------------------------------
(***************************************************************************)
(* The logging library (base/log): every thread owns a Logger with two     *)
(* buffers, and one log thread writes the buffers to the log file.         *)
(*                                                                         *)
(* A step is what a thread does under a mutex or between two accesses to   *)
(* state another thread writes.  A line is the number it has among the     *)
(* lines of its thread; the file is seen through what it holds of each     *)
(* thread.  cond_->wait_for ends after a second whether or not somebody    *)
(* notifies, so a wait may end at any time and notifications are left out. *)
(*                                                                         *)
(* Nothing in the code ever adds to sumWrites_: Increments = {0} is the    *)
(* code as it is.  With a larger set LogMent may or may not count a line,  *)
(* which adds the sweep of lines 116-145 to the behaviours of the code.    *)
(***************************************************************************)
EXTENDS Integers, Sequences

CONSTANTS
  Threads,        \* threads that log
  Increments,     \* what LogMent may add to sumWrites_
  kLogThreshold,
  MaxLines        \* bound of the model: lines of one thread

ASSUME ConstantsAssumption ==
  /\ Increments \subseteq Nat
  /\ kLogThreshold \in Nat \ {0}
  /\ MaxLines \in Nat

VARIABLES
  \* shared
  isRunning, isSync, sumWrites,
  logVectmp,      \* loggers the log thread has not taken over yet
  logworkers,     \* loggers it looks after
  \* a logger, named by its thread
  holder,         \* isHolderByThread_; "none" before the logger is made
  counter,        \* its sumWrites_ pointer: "shared" or "null"
  buf,            \* head_ and tail_
  curPtr,         \* the buffer LogMent appends to
  \* the log thread
  lpc, i, n, bufptr,
  status,         \* "ok", or how the process ended
  \* history
  logged,         \* per thread, how many lines it has logged
  written,        \* per thread, its lines in the file
  late            \* threads that logged after isRunning_ was cleared

loggerVars == <<holder, counter, buf, curPtr>>
threadVars == <<lpc, i, n, bufptr>>
vars == <<isRunning, isSync, sumWrites, logVectmp, logworkers, loggerVars,
          threadVars, status, logged, written, late>>

Buffers == {"head", "tail"}
Other(b) == IF b = "head" THEN "tail" ELSE "head"
EmptyBuffers == [b \in Buffers |-> <<>>]
Elements(s) == {s[j] : j \in DOMAIN s}

Init ==
  /\ isRunning = FALSE /\ isSync = FALSE /\ sumWrites = 0
  /\ logVectmp = <<>> /\ logworkers = <<>>
  /\ holder = [t \in Threads |-> "none"]
  /\ counter = [t \in Threads |-> "null"]
  /\ buf = [t \in Threads |-> EmptyBuffers]
  /\ curPtr = [t \in Threads |-> "head"]
  /\ lpc = "none" /\ i = 1 /\ n = 0 /\ bufptr = "head"
  /\ status = "ok"
  /\ logged = [t \in Threads |-> 0]
  /\ written = [t \in Threads |-> <<>>]
  /\ late = {}

-----------------------------------------------------------------------------
(* The loggers.                                                            *)

\* LogImp::LogImp, at a thread's first line, and AddLogger under mtx_.
AddLogger(t) ==
  /\ status = "ok" /\ holder[t] = "none"
  /\ holder' = [holder EXCEPT ![t] = "yes"]
  /\ counter' = [counter EXCEPT ![t] = "shared"]
  /\ logVectmp' = Append(logVectmp, t)
  /\ UNCHANGED <<isRunning, isSync, sumWrites, logworkers, buf, curPtr,
                 threadVars, status, logged, written, late>>

\* Mutant: the line goes to the buffer the log thread may be writing.
PushOther(t, line) ==
  [buf EXCEPT ![t][Other(curPtr[t])] = Append(@, line)]

\* fmt::format_to(std::back_inserter(*curPtr_), ...).
Push(t, line) == [buf EXCEPT ![t][curPtr[t]] = Append(@, line)]

\* A line of a level that is logged: it is appended under the buffer's mutex,
\* then the count is compared.  "sumWrites_ = 0" does not reset the count: it
\* clears the logger's pointer to it, which the next line dereferences.
LogMent(t) ==
  /\ status = "ok" /\ holder[t] = "yes" /\ logged[t] < MaxLines
  /\ buf' = Push(t, logged[t] + 1)
  /\ logged' = [logged EXCEPT ![t] = @ + 1]
  /\ late' = IF lpc # "none" /\ ~isRunning THEN late \cup {t} ELSE late
  /\ \/ /\ counter[t] = "null"
        /\ status' = "null"
        /\ UNCHANGED <<sumWrites, counter>>
     \/ /\ counter[t] = "shared"
        /\ \E inc \in Increments : sumWrites' = sumWrites + inc
        /\ counter' = [counter EXCEPT
             ![t] = IF sumWrites' >= kLogThreshold THEN "null" ELSE @]
        /\ UNCHANGED status
  /\ UNCHANGED <<isRunning, isSync, logVectmp, logworkers, holder, curPtr,
                 threadVars, written>>

\* The thread ends: LogImp::~LogImp.
Exit(t) ==
  /\ status = "ok" /\ holder[t] = "yes"
  /\ holder' = [holder EXCEPT ![t] = "no"]
  /\ UNCHANGED <<isRunning, isSync, sumWrites, logVectmp, logworkers, counter,
                 buf, curPtr, threadVars, status, logged, written, late>>

\* VecLogBuffer::SwapBuffer: the logger goes on with the other buffer and the
\* caller gets the one used so far.
SwapBuffer(t) == curPtr' = [curPtr EXCEPT ![t] = Other(@)]

\* file_.WriteStr of a buffer, and buf_ptr->clear().
WriteStr(t, b) ==
  /\ written' = [written EXCEPT ![t] = @ \o buf[t][b]]
  /\ buf' = [buf EXCEPT ![t][b] = <<>>]

-----------------------------------------------------------------------------
(* The owner of the LogThread object.                                      *)

\* LogThread::Init, with or without isSync.
Start(sync) ==
  /\ status = "ok" /\ lpc = "none"
  /\ isSync' = sync
  /\ isRunning' = TRUE
  /\ lpc' = "loop"
  /\ UNCHANGED <<sumWrites, logVectmp, logworkers, loggerVars, i, n, bufptr,
                 status, logged, written, late>>

\* LogThread::Stop, from the destructor at the end of the process; its join
\* returns when lpc is "end".
Stop ==
  /\ status = "ok" /\ isRunning
  /\ isRunning' = FALSE
  /\ UNCHANGED <<isSync, sumWrites, logVectmp, logworkers, loggerVars,
                 threadVars, status, logged, written, late>>

-----------------------------------------------------------------------------
(* The log thread: syncThread_.                                            *)

\* while (isRunning_)
Loop ==
  /\ status = "ok" /\ lpc = "loop"
  /\ lpc' = IF isRunning THEN "splice" ELSE "final1"
  /\ i' = 1
  /\ UNCHANGED <<isRunning, isSync, sumWrites, logVectmp, logworkers,
                 loggerVars, n, bufptr, status, logged, written, late>>

\* logworkers_.insert(end, logVectmp_): under mtx_.
SpliceAll == logworkers' = logworkers \o logVectmp

\* The loggers added since the last round are taken over.
Splice ==
  /\ status = "ok" /\ lpc = "splice"
  /\ SpliceAll
  /\ logVectmp' = <<>>
  /\ lpc' = "wait"
  /\ UNCHANGED <<isRunning, isSync, sumWrites, loggerVars, i, n, bufptr,
                 status, logged, written, late>>

\* Mutant: the wait has no timeout and ends only after counted writes.
WaitForWrites == sumWrites > 0

\* cond_->wait_for(lock, 1s), or 750ms with isSync.
WaitEnds == TRUE

\* The wait ends; without a counted write there is nothing to do.
Wake ==
  /\ status = "ok" /\ lpc = "wait" /\ WaitEnds
  /\ IF sumWrites = 0
     THEN lpc' = "loop" /\ UNCHANGED <<i, n>>
     ELSE lpc' = "sweep" /\ i' = 1 /\ n' = Len(logworkers)
  /\ UNCHANGED <<isRunning, isSync, sumWrites, logVectmp, logworkers,
                 loggerVars, bufptr, status, logged, written, late>>

\* One round of the for loop begins: the logger's buffers are swapped under
\* its mutex.  n is the number of loggers at the start of the sweep: after a
\* removal the last index is past the end.
Sweep ==
  /\ status = "ok" /\ lpc = "sweep" /\ i <= n
  /\ IF i > Len(logworkers)
     THEN /\ status' = "range"
          /\ UNCHANGED <<lpc, bufptr, curPtr>>
     ELSE /\ bufptr' = curPtr[logworkers[i]]
          /\ SwapBuffer(logworkers[i])
          /\ lpc' = "write"
          /\ UNCHANGED status
  /\ UNCHANGED <<isRunning, isSync, sumWrites, logVectmp, logworkers, holder,
                 counter, buf, i, n, logged, written, late>>

\* The buffer has lines: they are written without the mutex.
SweepWrite ==
  /\ status = "ok" /\ lpc = "write"
  /\ LET t == logworkers[i] IN
       /\ buf[t][bufptr] # <<>>
       /\ WriteStr(t, bufptr)
  /\ lpc' = "sweep" /\ i' = i + 1
  /\ UNCHANGED <<isRunning, isSync, sumWrites, logVectmp, logworkers, holder,
                 counter, curPtr, n, bufptr, status, logged, late>>

\* The buffer is empty and the thread is still there.
SweepSkip ==
  /\ status = "ok" /\ lpc = "write"
  /\ buf[logworkers[i]][bufptr] = <<>> /\ holder[logworkers[i]] = "yes"
  /\ lpc' = "sweep" /\ i' = i + 1
  /\ UNCHANGED <<isRunning, isSync, sumWrites, logVectmp, logworkers,
                 loggerVars, n, bufptr, status, logged, written, late>>

\* std::swap(logworkers_[i], logworkers_.back()); logworkers_.pop_back().
SwapRemove(s, j) == SubSeq([s EXCEPT ![j] = s[Len(s)]], 1, Len(s) - 1)

\* What is written of a logger whose thread has ended and whose buffer is
\* empty: the lines of the other buffer.
LastLines(t) == buf[t][Other(bufptr)]

\* The same in the loop of isSync, which writes the empty buffer again.
LastLinesSync(t) == buf[t][bufptr]

\* The buffer is empty and the thread has ended.  The Logger is destroyed with
\* its last reference.
SweepRetire ==
  /\ status = "ok" /\ lpc = "write"
  /\ LET t == logworkers[i] IN
       /\ buf[t][bufptr] = <<>> /\ holder[t] = "no"
       /\ written' = [written EXCEPT
            ![t] = @ \o (IF isSync THEN LastLinesSync(t) ELSE LastLines(t))]
       /\ buf' = [buf EXCEPT ![t] = EmptyBuffers]
       /\ SwapBuffer(t)
  /\ logworkers' = SwapRemove(logworkers, i)
  /\ lpc' = "sweep" /\ i' = i + 1
  /\ UNCHANGED <<isRunning, isSync, sumWrites, logVectmp, holder, counter, n,
                 bufptr, status, logged, late>>

\* The end of the sweep; file_.Sync() of isSync changes nothing seen here.
EndSweep ==
  /\ status = "ok" /\ lpc = "sweep" /\ i > n
  /\ lpc' = "loop"
  /\ UNCHANGED <<isRunning, isSync, sumWrites, logVectmp, logworkers,
                 loggerVars, i, n, bufptr, status, logged, written, late>>

\* Mutant: the last logger is left out.
BeforeEnd(j) == j < Len(logworkers)

\* for (auto& log_iter : logworkers_)
HasNext(j) == j <= Len(logworkers)

\* After the loop all loggers are gone through twice: swap, write and clear
\* under the logger's mutex.
Final ==
  /\ status = "ok" /\ lpc \in {"final1", "final2"}
  /\ IF HasNext(i)
     THEN LET t == logworkers[i] IN
            /\ SwapBuffer(t)
            /\ WriteStr(t, curPtr[t])
            /\ i' = i + 1
            /\ UNCHANGED lpc
     ELSE /\ lpc' = IF lpc = "final1" THEN "final2" ELSE "end"
          /\ i' = 1
          /\ UNCHANGED <<curPtr, buf, written>>
  /\ UNCHANGED <<isRunning, isSync, sumWrites, logVectmp, logworkers, holder,
                 counter, n, bufptr, status, logged, late>>

LogStep == \/ Loop \/ Splice \/ Wake \/ Sweep \/ SweepWrite \/ SweepSkip
           \/ SweepRetire \/ EndSweep \/ Final

Next ==
  \/ \E t \in Threads : AddLogger(t) \/ LogMent(t) \/ Exit(t)
  \/ \E sync \in BOOLEAN : Start(sync)
  \/ Stop
  \/ LogStep

Spec == Init /\ [][Next]_vars

\* The log thread is scheduled and its wait ends after a second.
FairSpec == Spec /\ WF_vars(LogStep)

-----------------------------------------------------------------------------
(* Properties.                                                             *)

\* Types of the variables: the log thread's cursors, the loggers' two buffers and what the
\* file has of each thread.
TypeOK ==
  /\ isRunning \in BOOLEAN /\ isSync \in BOOLEAN /\ sumWrites \in Nat
  /\ logVectmp \in Seq(Threads) /\ logworkers \in Seq(Threads)
  /\ holder \in [Threads -> {"none", "yes", "no"}]
  /\ counter \in [Threads -> {"shared", "null"}]
  /\ buf \in [Threads -> [Buffers -> Seq(1 .. MaxLines)]]
  /\ curPtr \in [Threads -> Buffers]
  /\ lpc \in {"none", "loop", "splice", "wait", "sweep", "write", "final1",
              "final2", "end"}
  /\ i \in Nat /\ n \in Nat /\ bufptr \in Buffers
  /\ status \in {"ok", "null", "range"}
  /\ logged \in [Threads -> 0 .. MaxLines]
  /\ written \in [Threads -> Seq(1 .. MaxLines)]
  /\ late \in SUBSET Threads

\* The lines of t in the order it logged them.
Lines(t) == [j \in 1 .. logged[t] |-> j]

\* The lines of t that are in the file or in a buffer, oldest first.
Kept(t) == written[t] \o buf[t][Other(curPtr[t])] \o buf[t][curPtr[t]]

\* The logger of t has been removed by the sweep.
Retired(t) == holder[t] = "no" /\ t \notin Elements(logVectmp \o logworkers)

\* No line is lost, doubled or reordered on its way through the two buffers,
\* while loggers write, the log thread swaps and writes without the mutex,
\* and threads come and go.  The only lines that vanish are the last ones of
\* an ended thread whose logger the loop of isSync removes (line 216 writes
\* the wrong buffer).
LinesInOrder ==
  \A t \in Threads :
    \/ Kept(t) = Lines(t)
    \/ isSync /\ Retired(t) /\ Kept(t) = SubSeq(Lines(t), 1, Len(Kept(t)))

\* What Stop leaves unwritten: only lines of loggers that were still in
\* logVectmp_, and lines logged after isRunning_ was cleared.
StopWritesAll ==
  lpc = "end" =>
    \A t \in Threads :
      \/ written[t] = Lines(t)
      \/ t \in Elements(logVectmp) \/ t \in late
      \/ isSync /\ Retired(t)

\* Stop's join returns: the log thread notices isRunning_ within a wait,
\* finishes a sweep it is in and ends, although loggers keep logging.
StopReturns ==
  (lpc # "none" /\ ~isRunning) ~> (lpc = "end" \/ status # "ok")

=============================================================================
