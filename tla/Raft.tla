---------------------------------- MODULE Raft ---------------------------------
(***************************************************************************)
(* Leader election as far as the raft directory has it: the timer callback *)
(* RaftServer::_RequestVoteOnTimed with the fibers it detaches,            *)
(* RaftPeerNode::RequestVote, the handler RaftServiceImpl::RequestVote and *)
(* the terms and roles of RaftNode.  AppendEntries and InstallSnapshot are *)
(* empty in the code; nothing is persisted and a process that ends stays   *)
(* ended.                                                                  *)
(*                                                                         *)
(* Timer callback and fibers share a thread; gRPC runs handlers on threads *)
(* of its own, and nothing locks RaftNode, so every read or store of       *)
(* node_term_ is a step.  The fibers use locals of a fiber that has ended  *)
(* (vote_counts, request_info_vec): the memory still holds them, or the    *)
(* process ends.                                                           *)
(***************************************************************************)
EXTENDS Integers, Sequences, FiniteSets

CONSTANTS
  Nodes,
  InitialTerms,       \* values node_term_, which no constructor sets, may start with
  MaxCampaigns        \* bound of the model, over all nodes

ASSUME NodesAssumption == IsFiniteSet(Nodes) /\ Nodes # {}
ASSUME InitialTermsAssumption ==
  /\ InitialTerms \subseteq Nat
  /\ \E t \in InitialTerms : \A u \in InitialTerms : u <= t
ASSUME CampaignsAssumption == MaxCampaigns \in Nat

\* RaftConfig::node_counts.
node_counts == Cardinality(Nodes)

VARIABLES
  status,       \* per node: "up", or what ended the process
  role,         \* raft_role_; "unset" before the first be_*
  term,         \* node_term_
  timer,        \* per node: what addTerm has loaded, or Idle
  campaign,     \* the campaigns begun: the locals of the outer fiber
  call,         \* campaign and peer: where the vote request is
  highest       \* history: the highest initial term
raftVars == <<status, role, term, timer, campaign, call, highest>>

Idle == -1
Campaigns == DOMAIN campaign
Peers(c) == Nodes \ {campaign[c].node}

NoCall == [at |-> "queued", term |-> 0, reply |-> 0, granted |-> FALSE]

RaftInit ==
  /\ status = [n \in Nodes |-> "up"]
  /\ role = [n \in Nodes |-> "unset"]
  /\ term \in [Nodes -> InitialTerms]
  /\ timer = [n \in Nodes |-> Idle]
  /\ campaign = <<>> /\ call = <<>>
  /\ highest = CHOOSE t \in InitialTerms : \A u \in InitialTerms : u <= t

End(n, why) == status' = [status EXCEPT ![n] = why]
Move(c, p, at) == call' = [call EXCEPT ![c][p].at = at]

\* No callback or fiber of node n is between two of its steps.
ThreadFree(n) ==
  /\ timer[n] = Idle
  /\ \A c \in Campaigns : campaign[c].node = n =>
       \A p \in Peers(c) : call[c][p].at \notin {"adopting", "storing"}

-----------------------------------------------------------------------------
(* The timer callback.                                                     *)

\* is_timeout: the clock is seconds * 1000000 * microseconds, so it is 0 once in a while
\* and the assertion that time has passed fails; otherwise it is almost always a timeout.
ClockAsserts(n) ==
  /\ status[n] = "up" /\ ThreadFree(n)
  /\ End(n, "clock")
  /\ UNCHANGED <<role, term, timer, campaign, call, highest>>

\* be_Candidates, and addTerm's load.
Timeout(n) ==
  /\ status[n] = "up" /\ ThreadFree(n)
  /\ Len(campaign) + Cardinality({m \in Nodes : timer[m] # Idle}) < MaxCampaigns
  /\ role' = [role EXCEPT ![n] = "candidate"]
  /\ timer' = [timer EXCEPT ![n] = term[n]]
  /\ UNCHANGED <<status, term, campaign, call, highest>>

\* addTerm's store, and the outer fiber with a sending fiber for every peer.
Begin(n) ==
  /\ status[n] = "up" /\ timer[n] # Idle
  /\ term' = [term EXCEPT ![n] = timer[n] + 1]
  /\ timer' = [timer EXCEPT ![n] = Idle]
  /\ campaign' = Append(campaign, [node |-> n, vote_counts |-> 1, is_leader |-> FALSE])
  /\ call' = Append(call, [p \in Nodes \ {n} |-> NoCall])
  /\ UNCHANGED <<status, role, highest>>

-----------------------------------------------------------------------------
(* Fibers of campaign c at its node, one of each kind for peer p.          *)

FiberRuns(c) == status[campaign[c].node] = "up" /\ ThreadFree(campaign[c].node)

\* A fiber finds the memory of the outer fiber's locals gone.
Dangling(c) ==
  /\ FiberRuns(c)
  /\ \E p \in Peers(c) : call[c][p].at \in {"queued", "replied"}
  /\ End(campaign[c].node, "dangling")
  /\ UNCHANGED <<role, term, timer, campaign, call, highest>>

\* RaftPeerNode::RequestVote up to the call; the term is the node's by now.
SendVote(c, p) ==
  /\ FiberRuns(c) /\ call[c][p].at = "queued"
  /\ call' = [call EXCEPT ![c][p] = [at |-> "sent", term |-> term[campaign[c].node],
                                     reply |-> 0, granted |-> FALSE]]
  /\ UNCHANGED <<status, role, term, timer, campaign, highest>>

\* The call fails: request or answer lost, or the peer gone.  The promise stays empty and
\* the reply fiber waits in get(), its wait_for's result unused.
Fail(c, p) ==
  /\ call[c][p].at \in {"sent", "answered"}
  /\ Move(c, p, "failed")
  /\ UNCHANGED <<status, role, term, timer, campaign, highest>>

\* The call returns: set_value on the promise.
Return(c, p) ==
  /\ status[campaign[c].node] = "up" /\ call[c][p].at = "answered"
  /\ Move(c, p, "replied")
  /\ UNCHANGED <<status, role, term, timer, campaign, highest>>

\* The end of the reply fiber: the vote and the majority.  Neither role nor term of the
\* campaign is looked at.
CountVote(c, p) ==
  LET votes == campaign[c].vote_counts + (IF call[c][p].granted THEN 1 ELSE 0)
      n == campaign[c].node
      wins == votes > node_counts \div 2 /\ ~campaign[c].is_leader
  IN  /\ campaign' = [campaign EXCEPT ![c] =
                        [node |-> n, vote_counts |-> votes,
                         is_leader |-> campaign[c].is_leader \/ wins]]
      /\ role' = [role EXCEPT ![n] = IF wins THEN "leader" ELSE @]

\* The reply fiber compares the terms.
TakeReply(c, p) ==
  /\ FiberRuns(c) /\ call[c][p].at = "replied"
  /\ IF call[c][p].reply > term[campaign[c].node]
     THEN Move(c, p, "adopting") /\ UNCHANGED <<campaign, role>>
     ELSE CountVote(c, p) /\ Move(c, p, "counted")
  /\ UNCHANGED <<status, term, timer, highest>>

\* A newer term in the reply: be_Follower and setTerm's assertion; a handler may have
\* moved the term since the comparison.
AdoptTerm(c, p) ==
  LET n == campaign[c].node IN
  /\ status[n] = "up" /\ call[c][p].at = "adopting"
  /\ role' = [role EXCEPT ![n] = "follower"]
  /\ IF call[c][p].reply > term[n]
     THEN Move(c, p, "storing") /\ UNCHANGED status
     ELSE End(n, "setTerm") /\ UNCHANGED call
  /\ UNCHANGED <<term, timer, campaign, highest>>

\* setTerm's store, and on to the vote.
StoreReplyTerm(c, p) ==
  LET n == campaign[c].node IN
  /\ status[n] = "up" /\ call[c][p].at = "storing"
  /\ term' = [term EXCEPT ![n] = call[c][p].reply]
  /\ CountVote(c, p)
  /\ Move(c, p, "counted")
  /\ UNCHANGED <<status, timer, highest>>

-----------------------------------------------------------------------------
(* RaftServiceImpl::RequestVote at peer p.                                 *)

Answer(c, p, reply, granted) ==
  call' = [call EXCEPT ![c][p] = [at |-> "answered", term |-> call[c][p].term,
                                  reply |-> reply, granted |-> granted]]

\* The first comparison.
Handle(c, p) ==
  /\ status[p] = "up" /\ call[c][p].at = "sent"
  /\ Move(c, p, IF call[c][p].term < term[p] THEN "older" ELSE "compared")
  /\ UNCHANGED <<status, role, term, timer, campaign, highest>>

\* An older term: the answer has the node's term, which is read again.
Refuse(c, p) ==
  /\ status[p] = "up" /\ call[c][p].at = "older"
  /\ Answer(c, p, term[p], FALSE)
  /\ UNCHANGED <<status, role, term, timer, campaign, highest>>

\* The second comparison, with the term read again.  If it is not newer, the function
\* ends without a return.
CompareAgain(c, p) ==
  /\ status[p] = "up" /\ call[c][p].at = "compared"
  /\ \/ /\ call[c][p].term > term[p]
        /\ Move(c, p, "newer")
        /\ UNCHANGED status
     \/ /\ call[c][p].term <= term[p]
        /\ \/ Answer(c, p, 0, FALSE) /\ UNCHANGED status
           \/ Move(c, p, "failed") /\ UNCHANGED status
           \/ End(p, "no return") /\ UNCHANGED call
  /\ UNCHANGED <<role, term, timer, campaign, highest>>

\* be_Follower and setTerm's assertion.
Raise(c, p) ==
  /\ status[p] = "up" /\ call[c][p].at = "newer"
  /\ role' = [role EXCEPT ![p] = "follower"]
  /\ IF call[c][p].term > term[p]
     THEN Move(c, p, "raising") /\ UNCHANGED status
     ELSE End(p, "setTerm") /\ UNCHANGED call
  /\ UNCHANGED <<term, timer, campaign, highest>>

\* Mutant: the handler counts itself into the term.
StoreTermPlusOne(c, p) ==
  /\ status[p] = "up" /\ call[c][p].at = "raising"
  /\ term' = [term EXCEPT ![p] = call[c][p].term + 1]
  /\ Answer(c, p, 0, FALSE)
  /\ UNCHANGED <<status, role, timer, campaign, highest>>

\* setTerm's store; the reply keeps its default values.
StoreTerm(c, p) ==
  /\ status[p] = "up" /\ call[c][p].at = "raising"
  /\ term' = [term EXCEPT ![p] = call[c][p].term]
  /\ Answer(c, p, 0, FALSE)
  /\ UNCHANGED <<status, role, timer, campaign, highest>>

RaftNext ==
  \/ \E n \in Nodes : ClockAsserts(n) \/ Timeout(n) \/ Begin(n)
  \/ \E c \in Campaigns :
       \/ Dangling(c)
       \/ \E p \in Peers(c) :
            \/ SendVote(c, p) \/ Fail(c, p) \/ Return(c, p) \/ TakeReply(c, p)
            \/ AdoptTerm(c, p) \/ StoreReplyTerm(c, p)
            \/ Handle(c, p) \/ Refuse(c, p) \/ CompareAgain(c, p)
            \/ Raise(c, p) \/ StoreTerm(c, p)

RaftSpec == RaftInit /\ [][RaftNext]_raftVars

-----------------------------------------------------------------------------
(* Properties.                                                             *)

\* Terms come from campaigns only: no node's term passes the highest initial term by more
\* than the campaigns begun, although increments and stores of other threads race.
TermsAreEarned == \A n \in Nodes : term[n] <= highest + Len(campaign)

=============================================================================
