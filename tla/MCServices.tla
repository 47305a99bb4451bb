------------------------------- MODULE MCServices ------------------------------
(***************************************************************************)
(* The two services built on the connections: the elections of the Raft    *)
(* nodes and the Redis server.  They share no state: a behaviour belongs   *)
(* to the part that its initial state names, so that the states of the     *)
(* whole are the sum of the parts' and not their product.                  *)
(***************************************************************************)
EXTENDS Raft, MCRedisServer

CONSTANTS n1, n2, n3

ThreeNodes == {n1, n2, n3}
ZeroOrOne == {0, 1}

VARIABLE part     \* which of the two this behaviour is about

servicesVars == <<part, raftVars, redisVars>>

ServicesInit ==
  /\ part \in {"raft", "redis"} /\ RaftInit /\ RedisInit
  /\ part = "redis" => term = [n \in Nodes |-> 0]

ServicesNext ==
  /\ UNCHANGED part
  /\ \/ part = "raft" /\ RaftNext /\ UNCHANGED redisVars
     \/ part = "redis" /\ RedisNext /\ UNCHANGED raftVars

ServicesSpec == ServicesInit /\ [][ServicesNext]_servicesVars

Alike == Permutations(ThreeNodes) \cup Permutations(TwoClients)

=============================================================================
