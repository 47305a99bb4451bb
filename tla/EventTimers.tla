------------------------------ MODULE EventTimers ------------------------------
(***************************************************************************)
(* RepeatedTimer and SingleTimer (net/repeated_timer.cpp,                  *)
(* net/single_timer.cpp): the flag running_ beside the libevent event      *)
(* tick_evt_.  All operations are called on the loop's thread, from        *)
(* outside a timer's callback or inside it; another thread, as that of     *)
(* repeated_timer_test.cpp, would race with the loop inside libevent,      *)
(* which is left out.  libevent takes a timeout out of its queue before it *)
(* runs the callback.                                                      *)
(*                                                                         *)
(* The caller keeps to what the interface suggests: Init once, Run when    *)
(* the timer is not running, Stop and Reset once it has been run.          *)
(***************************************************************************)
EXTENDS Integers

CONSTANTS
  Repeated, Single,   \* timers of either class
  MaxRuns             \* bound of the model: calls of Run and Reset per timer

ASSUME TimersAssumption == Repeated \cap Single = {} /\ MaxRuns \in Nat

Timers == Repeated \cup Single

VARIABLES
  timerStatus,  \* "up", or what ended the process
  tstage,       \* "made", "init", "run" (event_assign done) or "gone"
  running,      \* running_
  pending,      \* tick_evt_ is in the queue of the loop
  runs,         \* history: calls of Run
  fires,        \* history: callbacks of single timers
  selfStopped   \* history: the last Stop was made in the timer's own callback

timerVars == <<timerStatus, tstage, running, pending, runs, fires, selfStopped>>

\* The constructors leave running_ as it is, but for RepeatedTimer's with a name.
TimersInit ==
  /\ timerStatus = "up"
  /\ tstage = [t \in Timers |-> "made"]
  /\ running \in [Timers -> BOOLEAN]
  /\ pending = [t \in Timers |-> FALSE]
  /\ runs = [t \in Timers |-> 0] /\ fires = [t \in Timers |-> 0]
  /\ selfStopped = [t \in Timers |-> FALSE]

-----------------------------------------------------------------------------
(* A timer's own state [running, pending], and what an operation leaves.   *)

Now(t) == [running |-> running[t], pending |-> pending[t]]

\* Its state when libevent calls back.
Fired(t) == [running |-> running[t], pending |-> FALSE]

\* RepeatedTimer::Stop and SingleTimer::Stop: the latter deletes the event of a running
\* timer only.
RepeatedStop(s) == [running |-> FALSE, pending |-> FALSE]
SingleStop(s) == [running |-> FALSE, pending |-> s.pending /\ ~s.running]
StopOf(t, s) == IF t \in Repeated THEN RepeatedStop(s) ELSE SingleStop(s)

\* Run: event_assign and event_add.
RunOf(s) == [running |-> TRUE, pending |-> TRUE]

\* What user code may do to its timer in the callback; Reset deletes the event and runs.
Bodies == {"nothing", "stop", "reset"}
Body(t, b, s) ==
  CASE b = "stop"  -> StopOf(t, s)
    [] b = "reset" -> RunOf(s)
    [] OTHER       -> s

\* RepeatedTimerCall arms the event again whatever the callback has done.
RepeatedAfter(s) == [running |-> s.running, pending |-> TRUE]

\* SingleTimerCall stops the timer whatever the callback has done.
SingleAfter(s) == SingleStop(s)

Put(t, s) ==
  /\ running' = [running EXCEPT ![t] = s.running]
  /\ pending' = [pending EXCEPT ![t] = s.pending]

-----------------------------------------------------------------------------
TimerInit(t) ==
  /\ timerStatus = "up" /\ tstage[t] = "made"
  /\ tstage' = [tstage EXCEPT ![t] = "init"]
  /\ running' = [running EXCEPT ![t] = FALSE]
  /\ UNCHANGED <<timerStatus, pending, runs, fires, selfStopped>>

\* event_assign of an event that is in the queue corrupts it.
TimerRun(t) ==
  /\ timerStatus = "up" /\ tstage[t] \in {"init", "run"} /\ ~running[t] /\ runs[t] < MaxRuns
  /\ timerStatus' = IF pending[t] THEN "assign" ELSE "up"
  /\ tstage' = [tstage EXCEPT ![t] = "run"]
  /\ Put(t, RunOf(Now(t)))
  /\ runs' = [runs EXCEPT ![t] = @ + 1]
  /\ selfStopped' = [selfStopped EXCEPT ![t] = FALSE]
  /\ UNCHANGED fires

TimerReset(t) ==
  /\ timerStatus = "up" /\ tstage[t] = "run" /\ runs[t] < MaxRuns
  /\ Put(t, RunOf(Now(t)))
  /\ runs' = [runs EXCEPT ![t] = @ + 1]
  /\ selfStopped' = [selfStopped EXCEPT ![t] = FALSE]
  /\ UNCHANGED <<timerStatus, tstage, fires>>

TimerStop(t) ==
  /\ timerStatus = "up" /\ tstage[t] = "run"
  /\ Put(t, StopOf(t, Now(t)))
  /\ selfStopped' = [selfStopped EXCEPT ![t] = FALSE]
  /\ UNCHANGED <<timerStatus, tstage, runs, fires>>

\* The loop runs RepeatedTimerCall; the timer may be gone by then.
RepeatedTimerCall(t) ==
  /\ timerStatus = "up" /\ t \in Repeated /\ pending[t]
  /\ IF tstage[t] = "gone"
     THEN timerStatus' = "freed" /\ UNCHANGED <<running, pending, runs, selfStopped>>
     ELSE \E b \in Bodies :
            /\ b = "reset" => runs[t] < MaxRuns
            /\ Put(t, RepeatedAfter(Body(t, b, Fired(t))))
            /\ runs' = [runs EXCEPT ![t] = @ + IF b = "reset" THEN 1 ELSE 0]
            /\ selfStopped' = [selfStopped EXCEPT ![t] = (b = "stop") \/ (@ /\ b = "nothing")]
            /\ UNCHANGED timerStatus
  /\ UNCHANGED <<tstage, fires>>

SingleTimerCall(t) ==
  /\ timerStatus = "up" /\ t \in Single /\ pending[t]
  /\ IF tstage[t] = "gone"
     THEN timerStatus' = "freed" /\ UNCHANGED <<running, pending, runs, fires>>
     ELSE \E b \in Bodies :
            /\ b = "reset" => runs[t] < MaxRuns
            /\ Put(t, SingleAfter(Body(t, b, Fired(t))))
            /\ runs' = [runs EXCEPT ![t] = @ + IF b = "reset" THEN 1 ELSE 0]
            /\ fires' = [fires EXCEPT ![t] = @ + 1]
            /\ UNCHANGED timerStatus
  /\ UNCHANGED <<tstage, selfStopped>>

\* Mutant: a running timer goes without its event being deleted.
DestroyQuietly(t) ==
  /\ timerStatus = "up" /\ tstage[t] # "gone"
  /\ tstage' = [tstage EXCEPT ![t] = "gone"]
  /\ UNCHANGED <<timerStatus, running, pending, runs, fires, selfStopped>>

\* ~RepeatedTimer and ~SingleTimer delete the event of a timer that is marked running; on
\* one that never was initialised the mark is whatever the memory held, and the event too.
TimerDestroy(t) ==
  /\ timerStatus = "up" /\ tstage[t] # "gone"
  /\ tstage' = [tstage EXCEPT ![t] = "gone"]
  /\ timerStatus' = IF running[t] /\ tstage[t] = "made" THEN "raw" ELSE "up"
  /\ Put(t, IF running[t] THEN StopOf(t, Now(t)) ELSE Now(t))
  /\ UNCHANGED <<runs, fires, selfStopped>>

\* User code destroys the timer in its own callback.  The destructor finds the event out of
\* the queue, and RepeatedTimerCall and SingleTimerCall go on with a timer that is gone.
DestroyInCallback(t) ==
  /\ timerStatus = "up" /\ pending[t] /\ tstage[t] # "gone"
  /\ timerStatus' = "freed"
  /\ tstage' = [tstage EXCEPT ![t] = "gone"]
  /\ running' = [running EXCEPT ![t] = FALSE]
  /\ pending' = [pending EXCEPT ![t] = FALSE]
  /\ UNCHANGED <<runs, fires, selfStopped>>

-----------------------------------------------------------------------------
TimersNext ==
  \E t \in Timers :
    \/ TimerInit(t) \/ TimerRun(t) \/ TimerReset(t) \/ TimerStop(t) \/ TimerDestroy(t)
    \/ RepeatedTimerCall(t) \/ SingleTimerCall(t) \/ DestroyInCallback(t)

TimersSpec == TimersInit /\ [][TimersNext]_timerVars

-----------------------------------------------------------------------------
(* Properties.                                                             *)

\* A timer that was stopped or destroyed is out of the loop's queue, so that the loop
\* never calls into a dead timer, whatever the callbacks did before, unless the stop was
\* made in the timer's own callback: RepeatedTimerCall then arms the event of a timer
\* marked as stopped, and the destructor leaves it (repeated_timer.cpp, lines 20 and 43).
\* And a single timer calls back at most once for each Run, also when its callback resets
\* it: the Reset made inside is taken back (single_timer.cpp, line 20).
TimersFireAsAsked ==
  /\ \A t \in Timers : pending[t] => (running[t] /\ tstage[t] = "run") \/ selfStopped[t]
  /\ \A t \in Single : fires[t] + (IF pending[t] THEN 1 ELSE 0) <= runs[t]

=============================================================================
