------------------------------- MODULE MCEngine -------------------------------
(***************************************************************************)
(* What the engine does with the data of a call: the write-ahead log under *)
(* one caller, the tables of one TaskWorker, and the cache in front of     *)
(* them.  A behaviour belongs to the part that its initial state names, so *)
(* that the states of the whole are the sum of the parts' and not their    *)
(* product.                                                                *)
(***************************************************************************)
EXTENDS MCWriteAheadLog, MCReadPath, MCKLRUCache

VARIABLE part     \* which of the three this behaviour is about

engineVars == <<part, walVars, vars, lruVars>>

EngineInit == part \in {"log", "tables", "cache"} /\ WalInit /\ Init /\ CacheInit

EngineNext ==
  /\ UNCHANGED part
  /\ \/ part = "log" /\ WalNext /\ UNCHANGED <<vars, lruVars>>
     \/ part = "tables" /\ Next /\ UNCHANGED <<walVars, lruVars>>
     \/ part = "cache" /\ CacheNext /\ UNCHANGED <<walVars, vars>>

EngineSpec == EngineInit /\ [][EngineNext]_engineVars

=============================================================================
