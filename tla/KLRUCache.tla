------------------------------- MODULE KLRUCache -------------------------------
(***************************************************************************)
(* kLRUCache (util/klrucache.cpp): a cold list (probation_list_), a hot    *)
(* list (protected_list_) and a map from a key to its list node.           *)
(*                                                                         *)
(* A node is [id, key, value]; its list says whether isHot, and the value  *)
(* Erased that isExist is false.  Nodes only ever enter a list at its      *)
(* front and ids are given in that order, so a list is the set of its      *)
(* nodes and its back, rbegin(), the node with the smallest id.  The key   *)
(* is Dangling once the map element that the node's key pointer refers to  *)
(* has been erased.                                                        *)
(*                                                                         *)
(* CacheKeys and values have size 1, a value that was moved out size 0.  One    *)
(* thread uses a cache: a call runs from pc = "idle" through its eviction  *)
(* loops, one turn a step, back to "idle".                                 *)
(***************************************************************************)
EXTENDS Integers, FiniteSets

CONSTANTS
  CacheKeys, CacheValues,
  Moved,           \* what std::move leaves of a value: the empty string
  Erased,          \* the value of a record of a deleted key
  NotFound,        \* get returned false; what was set last for a key never set
  Dangling,        \* a key pointer into an erased map element
  max_probation_mem_size,
  max_protected_mem_size,
  InitialUsage,    \* what the two usage counters may start from: {0} after the
                   \* two-argument constructor; the default constructor followed by
                   \* Init leaves them uninitialised
  UintModulus,     \* 2^32, scaled down to the sizes of the model
  MaxSets,         \* bounds of the model: sets of each key
  MaxGets          \* and gets of all keys

ASSUME LimitsAssumption ==
  /\ max_probation_mem_size \in Nat /\ max_protected_mem_size \in Nat
  /\ UintModulus \in Nat /\ UintModulus > max_probation_mem_size + max_protected_mem_size
  /\ InitialUsage \subseteq 0..(UintModulus - 1)

ASSUME ValueAssumption ==
  /\ Moved \notin CacheValues /\ Erased \notin CacheValues /\ NotFound \notin CacheValues
  /\ Moved # Erased /\ Moved # NotFound /\ Erased # NotFound
  /\ Dangling \notin CacheKeys

VARIABLES
  pc,                      \* "idle", the loop that runs, or the undefined access that
                           \* ended it: "empty", "dangling"
  probation_list, protected_list,
  cache_map,               \* key -> id of its node, 0 if the key is absent
  probation_memory_usage, protected_memory_usage,
  next,                    \* id of the next node
  last,                    \* history: key -> what was set last
  answer,                  \* history: the result of the get that is the latest call
  disturbed,               \* history: the calls so far of the two kinds that leave a
                           \* second node of a key behind
  sets,                    \* key -> sets so far
  gets                     \* gets so far

cacheVars == <<probation_list, protected_list, cache_map, probation_memory_usage,
               protected_memory_usage, next>>
historyVars == <<last, answer, disturbed, sets, gets>>
lruVars == <<pc, cacheVars, historyVars>>

Node(key, value) == [id |-> next, key |-> key, value |-> value]
Size(value) == IF value \in CacheValues THEN 2 ELSE 1
Plus(a, b) == (a + b) % UintModulus
Minus(a, b) == (a - b) % UintModulus
NoAnswer == [key |-> NotFound, value |-> NotFound]

CacheInit ==
  /\ pc = "idle"
  /\ probation_list = {} /\ protected_list = {}
  /\ cache_map = [k \in CacheKeys |-> 0]
  /\ probation_memory_usage \in InitialUsage /\ protected_memory_usage \in InitialUsage
  /\ next = 1
  /\ last = [k \in CacheKeys |-> NotFound]
  /\ answer = NoAnswer
  /\ disturbed = {}
  /\ sets = [k \in CacheKeys |-> 0] /\ gets = 0

-----------------------------------------------------------------------------
(* The calls, up to their loops.                                           *)

\* A new cold record: pushed to the front and put into the map, over any older node.
PushCold(k, value) ==
  /\ pc = "idle" /\ sets[k] < MaxSets
  /\ probation_list' = probation_list \cup {Node(k, value)}
  /\ cache_map' = [cache_map EXCEPT ![k] = next]
  /\ probation_memory_usage' = Plus(probation_memory_usage, Size(value))
  /\ next' = next + 1
  /\ pc' = "pop"
  /\ answer' = NoAnswer
  /\ disturbed' = IF cache_map[k] = 0 THEN disturbed ELSE disturbed \cup {"set again"}
  /\ sets' = [sets EXCEPT ![k] = @ + 1]
  /\ UNCHANGED <<protected_list, protected_memory_usage, gets>>

set(k, v) == PushCold(k, v) /\ last' = [last EXCEPT ![k] = v]

\* Mutant: the record of a deleted key is marked as existing.
setEraseRecordExists(k) == PushCold(k, Moved) /\ last' = [last EXCEPT ![k] = Erased]

setEraseRecord(k) == PushCold(k, Erased) /\ last' = [last EXCEPT ![k] = Erased]

Answer(k, value) ==
  /\ pc = "idle" /\ gets < MaxGets
  /\ answer' = [key |-> k, value |-> value]
  /\ gets' = gets + 1
  /\ UNCHANGED <<last, sets>>

Miss(k) == cache_map[k] = 0 /\ Answer(k, NotFound) /\ UNCHANGED <<pc, cacheVars, disturbed>>

\* Found in the cold list: the node moves to the front of the hot list.
HitCold(k, node) ==
  /\ node.id = cache_map[k]
  /\ Answer(k, node.value)
  /\ probation_list' = probation_list \ {node}
  /\ protected_list' = protected_list \cup {Node(node.key, node.value)}
  /\ cache_map' = [cache_map EXCEPT ![node.key] = next]
  /\ probation_memory_usage' = Minus(probation_memory_usage, Size(node.value))
  /\ protected_memory_usage' = Plus(protected_memory_usage, Size(node.value))
  /\ next' = next + 1
  /\ pc' = "demote"
  /\ UNCHANGED disturbed

\* Found in the hot list: a new node takes the value over and goes to the front; the
\* node it was moved out of stays in the list.
HitHot(k, node) ==
  LET left == [id |-> node.id, key |-> node.key,
               value |-> IF node.value = Erased THEN Erased ELSE Moved]
  IN
  /\ node.id = cache_map[k]
  /\ Answer(k, node.value)
  /\ protected_list' = (protected_list \ {node}) \cup {left, Node(node.key, node.value)}
  /\ cache_map' = [cache_map EXCEPT ![node.key] = next]
  /\ next' = next + 1
  /\ pc' = "demote hot"
  /\ disturbed' = disturbed \cup {"hot hit"}
  /\ UNCHANGED <<probation_list, probation_memory_usage, protected_memory_usage>>

get(k) ==
  \/ Miss(k)
  \/ \E node \in probation_list : HitCold(k, node)
  \/ \E node \in protected_list : HitHot(k, node)

-----------------------------------------------------------------------------
(* The loops.                                                              *)

Oldest(node, nodes) == node \in nodes /\ \A other \in nodes : node.id <= other.id

\* cache_map_.erase(key): every key pointer to the erased element dangles.
Unlink(nodes, k) ==
  {[id |-> node.id, key |-> IF node.key = k THEN Dangling ELSE node.key,
    value |-> node.value] : node \in nodes}

\* The conditions of the loops, on entry and after every turn.
ColdIsFull == pc = "pop" /\ probation_memory_usage >= max_probation_mem_size
HotIsFull == pc \in {"demote", "demote hot"} /\ protected_memory_usage >= max_protected_mem_size

\* Drop the oldest cold record and the map element of its key.
PopCold ==
  \E node \in probation_list :
    /\ ColdIsFull /\ Oldest(node, probation_list) /\ node.key # Dangling
    /\ probation_list' = Unlink(probation_list \ {node}, node.key)
    /\ protected_list' = Unlink(protected_list, node.key)
    /\ cache_map' = [cache_map EXCEPT ![node.key] = 0]
    /\ probation_memory_usage' = Minus(probation_memory_usage, Size(node.value))
    /\ UNCHANGED <<pc, protected_memory_usage, next, historyVars>>

\* Mutant: the record leaves the hot list uncounted on the cold side.
DemoteUncounted ==
  \E node \in protected_list :
    /\ HotIsFull /\ Oldest(node, protected_list) /\ node.key # Dangling
    /\ probation_list' = probation_list \cup {Node(node.key, node.value)}
    /\ protected_list' = protected_list \ {node}
    /\ cache_map' = [cache_map EXCEPT ![node.key] = next]
    /\ protected_memory_usage' = Minus(protected_memory_usage, Size(node.value))
    /\ next' = next + 1
    /\ UNCHANGED <<pc, probation_memory_usage, historyVars>>

\* The oldest hot record becomes the newest cold one.  After a hit in the hot list the
\* cold usage is left alone.
Demote ==
  \E node \in protected_list :
    /\ HotIsFull /\ Oldest(node, protected_list) /\ node.key # Dangling
    /\ probation_list' = probation_list \cup {Node(node.key, node.value)}
    /\ protected_list' = protected_list \ {node}
    /\ cache_map' = [cache_map EXCEPT ![node.key] = next]
    /\ protected_memory_usage' = Minus(protected_memory_usage, Size(node.value))
    /\ probation_memory_usage' = IF pc = "demote hot" THEN probation_memory_usage
                                 ELSE Plus(probation_memory_usage, Size(node.value))
    /\ next' = next + 1
    /\ UNCHANGED <<pc, historyVars>>

\* rbegin() of an empty list, or a look at a key that is gone.
Undefined(nodes) ==
  /\ \/ nodes = {} /\ pc' = "empty"
     \/ \E node \in nodes : Oldest(node, nodes) /\ node.key = Dangling /\ pc' = "dangling"
  /\ UNCHANGED <<cacheVars, historyVars>>

UndefinedPop == ColdIsFull /\ Undefined(probation_list)
UndefinedDemote == HotIsFull /\ Undefined(protected_list)

\* A hit in the cold list goes on to the cold list's loop; the others return.
EndDemote ==
  /\ pc \in {"demote", "demote hot"} /\ ~HotIsFull
  /\ pc' = IF pc = "demote" THEN "pop" ELSE "idle"
  /\ UNCHANGED <<cacheVars, historyVars>>

EndPop == pc = "pop" /\ ~ColdIsFull /\ pc' = "idle" /\ UNCHANGED <<cacheVars, historyVars>>

CacheNext ==
  \/ \E k \in CacheKeys : (\E v \in CacheValues : set(k, v)) \/ setEraseRecord(k) \/ get(k)
  \/ PopCold \/ Demote \/ EndDemote \/ EndPop \/ UndefinedPop \/ UndefinedDemote

CacheSpec == CacheInit /\ [][CacheNext]_lruVars

-----------------------------------------------------------------------------
(* Properties.                                                             *)

Nodes == probation_list \cup protected_list

\* Every node adds the size of its key and of its value.
Weight(nodes) == Cardinality(nodes) + Cardinality({node \in nodes : node.value \in CacheValues})

\* What a get finds is what was set last for its key (the assertion of the test
\* klrucache_test.cpp, lines 55-58), as long as no key was set while it was cached and no
\* get has hit the hot list.  Eviction may lose a record, never bring an older one back.
AnswerIsLastSet ==
  disturbed = {} /\ answer.value # NotFound => answer.value = last[answer.key]

\* The test's assertion without the restriction.
GetReturnsLastSet == answer.value # NotFound => answer.value = last[answer.key]

\* For the same calls, and inside the eviction loops too: no loop looks at the end of an
\* empty list or follows a key pointer into an erased map element; map and lists describe
\* the same records, one node per key, found through the map, its key pointer valid; the
\* usage counters are the sizes of the two lists, so that no eviction forgets to count and
\* no subtraction wraps around; and when a call returns both are below their limits.
CacheIsConsistent ==
  disturbed = {} =>
    /\ pc \notin {"empty", "dangling"}
    /\ \A node \in Nodes : node.key # Dangling /\ cache_map[node.key] = node.id
    /\ \A k \in CacheKeys : cache_map[k] # 0 => \E node \in Nodes : node.key = k
    /\ probation_memory_usage = Weight(probation_list)
    /\ protected_memory_usage = Weight(protected_list)
    /\ pc = "idle" => /\ probation_memory_usage < max_probation_mem_size
                      /\ protected_memory_usage < max_protected_mem_size

=============================================================================
