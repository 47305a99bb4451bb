---------------------------- MODULE MCRedisServer ----------------------------
(* Small instances of RedisServer for TLC.                                 *)
EXTENDS RedisServer, TLC

CONSTANTS c1, c2

TwoClients == {c1, c2}
Symmetric == Permutations(TwoClients)

\* SET and GET with arguments that look like the protocol, and what redis-cli sends
\* when it connects.
SomeCommands ==
  { <<<<"S">>, <<"+", "k">>, <<"v">>>>,
    <<<<"G">>, <<"k", "$">>>>,
    <<<<"C">>, <<"D">>>> }

\* PING in a line of its own, a GET without the array header, a count of one with nothing
\* behind it that the parser takes for an element, and a length below zero.
SomeRequests ==
  { <<"P", "n">>, <<"+", "P", "r", "n">>, Bulks(<<<<"G">>, <<"k">>>>),
    <<"*", "1", "r", "n", "k">>, <<"$", "-", "1", "r", "n", "k">> }

=============================================================================
