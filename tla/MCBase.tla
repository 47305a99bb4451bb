--------------------------------- MODULE MCBase --------------------------------
(***************************************************************************)
(* What the rest of the system stands on: the connections and the timers   *)
(* of an event loop, and the logging library.  They share no state: a      *)
(* behaviour belongs to the part that its initial state names, so that the *)
(* states of the whole are the sum of the parts' and not their product.    *)
(***************************************************************************)
EXTENDS MCLogThread, NetServer, EventTimers

VARIABLE part     \* which of the three this behaviour is about

baseVars == <<part, netVars, timerVars, vars>>

BaseInit ==
  /\ part \in {"connections", "timers", "log"} /\ NetInit /\ TimersInit /\ Init
  /\ part # "timers" => running = [t \in Timers |-> FALSE]

BaseNext ==
  /\ UNCHANGED part
  /\ \/ part = "connections" /\ NetNext /\ UNCHANGED <<timerVars, vars>>
     \/ part = "timers" /\ TimersNext /\ UNCHANGED <<netVars, vars>>
     \/ part = "log" /\ Next /\ UNCHANGED <<netVars, timerVars>>

BaseSpec == BaseInit /\ [][BaseNext]_baseVars /\ NetFairness /\ WF_vars(LogStep)

=============================================================================
