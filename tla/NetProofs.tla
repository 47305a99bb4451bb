------------------------------- MODULE NetProofs -------------------------------
(***************************************************************************)
(* What runs on an event loop: connections and timers, for any number of   *)
(* descriptors, Connections, Connectioners and timers; the Raft nodes, for *)
(* any number of nodes, campaigns and initial terms; and the Redis front   *)
(* end, for any buffer, clients and commands.                              *)
(***************************************************************************)
EXTENDS NetServer, EventTimers, Raft, RedisServer, SequenceTheorems,
        WellFoundedInduction, TLAPS

-----------------------------------------------------------------------------
(* Timers.                                                                 *)

TimerTypes ==
  /\ tstage \in [Timers -> {"made", "init", "run", "gone"}]
  /\ running \in [Timers -> BOOLEAN] /\ pending \in [Timers -> BOOLEAN]
  /\ selfStopped \in [Timers -> BOOLEAN]
  /\ runs \in [Timers -> Nat] /\ fires \in [Timers -> Nat]

\* What TimersFireAsAsked needs to be inductive: an event in the queue belongs to a timer
\* that was run, so that a Reset in its callback leaves it running and in stage "run"; and
\* the callback of a single timer never leaves it stopped with its event in the queue.
TimerFine(t) ==
  /\ pending[t] => tstage[t] \in {"run", "gone"}
  /\ pending[t] => (running[t] /\ tstage[t] = "run") \/ selfStopped[t]
  /\ t \in Single => /\ ~selfStopped[t]
                     /\ fires[t] + (IF pending[t] THEN 1 ELSE 0) <= runs[t]

TimerInv == TimerTypes /\ \A t \in Timers : TimerFine(t)

\* An operation on t leaves the other timers alone.
OnlyChanges(t) ==
  \A u \in Timers \ {t} :
    /\ running'[u] = running[u] /\ pending'[u] = pending[u]
    /\ selfStopped'[u] = selfStopped[u] /\ tstage'[u] = tstage[u]
    /\ runs'[u] = runs[u] /\ fires'[u] = fires[u]

\* A step of one timer leaves the others as they were.
LEMMA OneTimerChanges ==
  ASSUME TimerInv, NEW t \in Timers, TimerTypes', OnlyChanges(t), TimerFine(t)'
  PROVE  TimerInv'
<1>1. ASSUME NEW u \in Timers, u # t PROVE TimerFine(u)'
  BY <1>1 DEF TimerInv, OnlyChanges, TimerFine
<1> QED BY <1>1 DEF TimerInv

\* The invariant holds before a timer was run, whatever running_ was left as.
LEMMA TimersStart == TimersInit => TimerInv
BY DEF TimersInit, TimerInv, TimerTypes, TimerFine, Timers

\* Every operation and every callback keeps it.
LEMMA TimersStep == TimerInv /\ [TimersNext]_timerVars => TimerInv'
<1> SUFFICES ASSUME TimerInv, [TimersNext]_timerVars PROVE TimerInv'
  OBVIOUS
<1>1. CASE UNCHANGED timerVars
  BY <1>1 DEF timerVars, TimerInv, TimerTypes, TimerFine
<1> SUFFICES ASSUME NEW t \in Timers,
                    \/ TimerInit(t) \/ TimerRun(t) \/ TimerReset(t) \/ TimerStop(t)
                    \/ TimerDestroy(t) \/ DestroyInCallback(t)
                    \/ RepeatedTimerCall(t) \/ SingleTimerCall(t)
             PROVE  TimerInv'
  BY <1>1 DEF TimersNext
<1>2. TimerTypes /\ TimerFine(t) /\ (t \in Single <=> t \notin Repeated)
  BY TimersAssumption DEF TimerInv, Timers
<1>3. CASE TimerInit(t)
  <2>1. TimerTypes' /\ OnlyChanges(t)
    BY <1>2, <1>3 DEF TimerInit, TimerTypes, OnlyChanges
  <2>2. TimerFine(t)'
    BY <1>2, <1>3 DEF TimerInit, TimerTypes, TimerFine
  <2> QED BY <2>1, <2>2, OneTimerChanges
<1>4. CASE TimerRun(t) \/ TimerReset(t)
  <2>1. /\ running' = [running EXCEPT ![t] = TRUE] /\ pending' = [pending EXCEPT ![t] = TRUE]
        /\ tstage' = [tstage EXCEPT ![t] = "run"]
        /\ runs' = [runs EXCEPT ![t] = @ + 1]
        /\ selfStopped' = [selfStopped EXCEPT ![t] = FALSE] /\ UNCHANGED fires
    BY <1>2, <1>4 DEF TimerRun, TimerReset, Put, RunOf, TimerTypes
  <2>2. TimerTypes' /\ OnlyChanges(t)
    BY <1>2, <2>1 DEF TimerTypes, OnlyChanges
  <2>3. TimerFine(t)'
    BY <1>2, <2>1 DEF TimerTypes, TimerFine
  <2> QED BY <2>2, <2>3, OneTimerChanges
\* A stopped timer's event is gone: a single timer that is not running has none.
<1>5. StopOf(t, Now(t)) = [running |-> FALSE, pending |-> FALSE]
  <2>1. CASE t \in Repeated
    BY <2>1 DEF StopOf, RepeatedStop
  <2>2. CASE t \in Single
    <3>1. (pending[t] /\ ~running[t]) = FALSE
      BY <1>2, <2>2 DEF TimerFine, TimerTypes
    <3>2. Now(t).pending = pending[t] /\ Now(t).running = running[t]
      BY DEF Now
    <3> QED BY <1>2, <2>2, <3>1, <3>2 DEF StopOf, SingleStop
  <2> QED BY <2>1, <2>2, <1>2
<1>6. CASE TimerStop(t)
  <2>1. /\ running' = [running EXCEPT ![t] = FALSE] /\ pending' = [pending EXCEPT ![t] = FALSE]
        /\ selfStopped' = [selfStopped EXCEPT ![t] = FALSE] /\ UNCHANGED <<tstage, runs, fires>>
    BY <1>5, <1>6 DEF TimerStop, Put
  <2>2. TimerTypes' /\ OnlyChanges(t)
    BY <1>2, <2>1 DEF TimerTypes, OnlyChanges
  <2>3. TimerFine(t)'
    BY <1>2, <2>1 DEF TimerTypes, TimerFine
  <2> QED BY <2>2, <2>3, OneTimerChanges
<1>7. CASE TimerDestroy(t)
  <2>1. /\ tstage' = [tstage EXCEPT ![t] = "gone"] /\ UNCHANGED <<runs, fires, selfStopped>>
    BY <1>7 DEF TimerDestroy
  <2>2. CASE running[t]
    <3>1. running' = [running EXCEPT ![t] = FALSE] /\ pending' = [pending EXCEPT ![t] = FALSE]
      BY <1>5, <1>7, <2>2 DEF TimerDestroy, Put
    <3>2. TimerTypes' /\ OnlyChanges(t)
      BY <1>2, <2>1, <3>1 DEF TimerTypes, OnlyChanges
    <3>3. TimerFine(t)'
      BY <1>2, <2>1, <3>1 DEF TimerTypes, TimerFine
    <3> QED BY <3>2, <3>3, OneTimerChanges
  <2>3. CASE ~running[t]
    <3>1. UNCHANGED <<running, pending>>
      BY <1>2, <1>7, <2>3 DEF TimerDestroy, Put, Now, TimerTypes
    <3>2. TimerTypes' /\ OnlyChanges(t)
      BY <1>2, <2>1, <3>1 DEF TimerTypes, OnlyChanges
    <3>3. TimerFine(t)'
      BY <1>2, <2>1, <2>3, <3>1 DEF TimerTypes, TimerFine
    <3> QED BY <3>2, <3>3, OneTimerChanges
  <2> QED BY <2>2, <2>3
<1>8. CASE RepeatedTimerCall(t)
  <2>1. t \in Repeated /\ t \notin Single /\ pending[t] /\ UNCHANGED <<tstage, fires>>
    BY <1>2, <1>8 DEF RepeatedTimerCall
  <2>2. CASE tstage[t] = "gone"
    <3>1. UNCHANGED <<running, pending, runs, selfStopped>>
      BY <1>8, <2>2 DEF RepeatedTimerCall
    <3> QED BY <2>1, <3>1 DEF TimerInv, TimerTypes, TimerFine
  <2>3. CASE tstage[t] # "gone"
    <3> DEFINE s == Fired(t)
    <3>1. PICK b \in Bodies :
            /\ Put(t, RepeatedAfter(Body(t, b, s)))
            /\ runs' = [runs EXCEPT ![t] = @ + IF b = "reset" THEN 1 ELSE 0]
            /\ selfStopped' =
                 [selfStopped EXCEPT ![t] = (b = "stop") \/ (@ /\ b = "nothing")]
      BY <1>8, <2>3 DEF RepeatedTimerCall
    <3>2. s = [running |-> running[t], pending |-> FALSE]
      BY DEF Fired
    <3>3. PICK up \in BOOLEAN :
            /\ running' = [running EXCEPT ![t] = up]
            /\ pending' = [pending EXCEPT ![t] = TRUE]
            /\ b = "nothing" => up = running[t]
            /\ b = "reset" => up
      <4> DEFINE a == RepeatedAfter(Body(t, b, s))
      <4>1. a.running = Body(t, b, s).running /\ a.pending = TRUE
        BY DEF RepeatedAfter
      <4>2. CASE b = "nothing"
        <5>1. Body(t, b, s) = s
          BY <4>2, Zenon DEF Body
        <5>2. a.running = running[t]
          BY <3>2, <4>1, <5>1
        <5> QED BY <1>2, <3>1, <4>1, <4>2, <5>2 DEF Put, TimerTypes
      <4>3. CASE b = "stop"
        <5>1. a.running = FALSE
          BY <2>1, <4>1, <4>3 DEF Body, StopOf, RepeatedStop
        <5> HIDE DEF a
        <5>2. running' = [running EXCEPT ![t] = a.running] /\ pending' = [pending EXCEPT ![t] = a.pending]
          BY <3>1 DEF Put, a
        <5> QED BY <4>1, <4>3, <5>1, <5>2
      <4>4. CASE b = "reset"
        <5>1. a.running = TRUE
          BY <4>1, <4>4 DEF Body, RunOf
        <5> HIDE DEF a
        <5>2. running' = [running EXCEPT ![t] = a.running] /\ pending' = [pending EXCEPT ![t] = a.pending]
          BY <3>1 DEF Put, a
        <5> QED BY <4>1, <4>4, <5>1, <5>2
      <4> QED BY <4>2, <4>3, <4>4 DEF Bodies
    <3>4. TimerTypes' /\ OnlyChanges(t)
      BY <1>2, <2>1, <3>1, <3>3 DEF TimerTypes, OnlyChanges
    <3>5. TimerFine(t)'
      BY <1>2, <2>1, <2>3, <3>1, <3>3 DEF TimerTypes, TimerFine, Bodies
    <3> QED BY <3>4, <3>5, OneTimerChanges
  <2> QED BY <2>2, <2>3
<1>9. CASE SingleTimerCall(t)
  <2>1. t \in Single /\ t \notin Repeated /\ pending[t] /\ UNCHANGED <<tstage, selfStopped>>
    BY <1>2, <1>9 DEF SingleTimerCall
  <2>2. CASE tstage[t] = "gone"
    <3>1. UNCHANGED <<running, pending, runs, fires>>
      BY <1>9, <2>2 DEF SingleTimerCall
    <3> QED BY <2>1, <3>1 DEF TimerInv, TimerTypes, TimerFine
  <2>3. CASE tstage[t] # "gone"
    <3> DEFINE s == Fired(t)
    <3>1. PICK b \in Bodies :
            /\ Put(t, SingleAfter(Body(t, b, s)))
            /\ runs' = [runs EXCEPT ![t] = @ + IF b = "reset" THEN 1 ELSE 0]
            /\ fires' = [fires EXCEPT ![t] = @ + 1]
      BY <1>9, <2>3 DEF SingleTimerCall
    <3>2. s = [running |-> running[t], pending |-> FALSE]
      BY DEF Fired
    <3>3. Body(t, b, s).pending => Body(t, b, s).running
      <4>1. CASE b = "nothing"
        <5>1. Body(t, b, s) = s
          BY <4>1, Zenon DEF Body
        <5> QED BY <3>2, <5>1
      <4>2. CASE b = "stop"
        <5>1. Body(t, b, s) = SingleStop(s)
          BY <2>1, <4>2 DEF Body, StopOf
        <5>2. s.pending = FALSE
          BY <3>2
        <5>3. SingleStop(s) = [running |-> FALSE, pending |-> FALSE]
          BY <5>2, Zenon DEF SingleStop
        <5> QED BY <5>1, <5>3
      <4>3. CASE b = "reset"
        BY <4>3 DEF Body, RunOf
      <4> QED BY <4>1, <4>2, <4>3 DEF Bodies
    <3>4. SingleAfter(Body(t, b, s)) = [running |-> FALSE, pending |-> FALSE]
      BY <3>3, Zenon DEF SingleAfter, SingleStop
    <3>5. running' = [running EXCEPT ![t] = FALSE] /\ pending' = [pending EXCEPT ![t] = FALSE]
      BY <3>1, <3>4 DEF Put
    <3>6. TimerTypes' /\ OnlyChanges(t)
      BY <1>2, <2>1, <3>1, <3>5 DEF TimerTypes, OnlyChanges
    <3>7. TimerFine(t)'
      BY <1>2, <2>1, <3>1, <3>5 DEF TimerTypes, TimerFine
    <3> QED BY <3>6, <3>7, OneTimerChanges
  <2> QED BY <2>2, <2>3
\* The event was out of the queue when its callback began.
<1>10. CASE DestroyInCallback(t)
  <2>1. /\ tstage' = [tstage EXCEPT ![t] = "gone"] /\ UNCHANGED <<runs, fires, selfStopped>>
        /\ running' = [running EXCEPT ![t] = FALSE] /\ pending' = [pending EXCEPT ![t] = FALSE]
    BY <1>10 DEF DestroyInCallback
  <2>2. TimerTypes' /\ OnlyChanges(t)
    BY <1>2, <2>1 DEF TimerTypes, OnlyChanges
  <2>3. TimerFine(t)'
    BY <1>2, <2>1 DEF TimerTypes, TimerFine
  <2> QED BY <2>2, <2>3, OneTimerChanges
<1> QED BY <1>3, <1>4, <1>6, <1>7, <1>8, <1>9, <1>10

\* A timer that was stopped or destroyed from outside its callback is out of the loop's
\* queue, and a single timer calls back at most once per Run, for any number of timers.
THEOREM TimersCorrect == TimersSpec => []TimersFireAsAsked
<1>1. TimerInv => TimersFireAsAsked
  BY DEF TimerInv, TimerFine, TimersFireAsAsked, Timers
<1> QED BY TimersStart, TimersStep, <1>1, PTL DEF TimersSpec

-----------------------------------------------------------------------------
(* Connections.                                                            *)

NetTypes ==
  /\ made \in 0..MaxConns
  /\ owner \in [Fds -> Nat]
  /\ kind \in [Conns -> {"accepted", "active"}]
  /\ socketFd \in [Conns -> Nat]
  /\ buf_ \in [Conns -> {"raw", "null", "live", "freed"}]
  /\ \A fd \in DOMAIN ConnectionMap : ConnectionMap[fd] \in 0..made
  /\ conn \in [Connectioners -> 0..made]
  /\ isRunning_ \in [Connectioners -> BOOLEAN]
  /\ stage \in [Connectioners -> {"new", "init", "gone"}]

\* A Connection that is not made yet is as the initial state has it.
Unmade == \A c \in Conns : c > made => buf_[c] = "freed" /\ kind[c] = "accepted"

\* A Connection has at most one entry, under its own descriptor: the numbers of accepted
\* Connections never change, and Run changes one only while the Connection has no entry.
EntryNamesItself ==
  \A fd \in DOMAIN ConnectionMap :
    ConnectionMap[fd] # Nobody => socketFd[ConnectionMap[fd]] = fd

\* Connectioners hold active Connections only, two of them never the same one, and one
\* that does not run has neither a bufferevent nor an entry.
HoldsActive ==
  \A k \in Connectioners :
    /\ stage[k] = "init" <=> conn[k] # Nobody
    /\ conn[k] # Nobody =>
         /\ kind[conn[k]] = "active"
         /\ \A h \in Connectioners : conn[h] = conn[k] => h = k
         /\ ~isRunning_[k] => /\ buf_[conn[k]] = "raw"
                             /\ \A fd \in DOMAIN ConnectionMap : ConnectionMap[fd] # conn[k]

\* A Connection with a bufferevent has a socket.
HasSocket == \A c \in Conns : Accepted(c) => socketFd[c] \in Fds

NetInv ==
  NetTypes /\ Unmade /\ EntryNamesItself /\ HoldsActive /\ HasSocket
    /\ AcceptedFindsItself /\ AcceptedKeepsItsSocket

\* What removeConn and ~Connection do to map, bufferevents and descriptors.
LEMMA EraseFacts ==
  ASSUME NEW map, NEW fd
  PROVE  /\ DOMAIN Erase(map, fd) = DOMAIN map \ {fd}
         /\ \A f \in DOMAIN map \ {fd} : Erase(map, fd)[f] = map[f]
BY DEF Erase

\* The release of a connection closes no socket but its own.
LEMMA ReleaseFacts ==
  ASSUME NetTypes, NEW c \in 0..made, NEW map, NEW held, NEW table \in [Fds -> Nat],
         Release(c, map, held, table)
  PROVE  /\ owner' \in [Fds -> Nat]
         /\ buf_' \in [Conns -> {"raw", "null", "live", "freed"}]
         /\ \A d \in Conns : d # c => buf_'[d] = buf_[d]
         /\ c \in Conns /\ ~Referenced(c, map, held) => buf_'[c] # "live"
         /\ \A d \in Conns : buf_'[d] = "live" => buf_[d] = "live"
         /\ \A fd \in Fds : \/ owner'[fd] = table[fd]
                            \/ c \in Conns /\ buf_[c] = "live" /\ fd = socketFd[c]
<1>1. c \in Conns \/ c = Nobody
  BY NetAssumption DEF NetTypes, Conns, Nobody
<1>2. CASE c = Nobody \/ Referenced(c, map, held)
  <2>1. buf_' = buf_ /\ owner' = table
    BY <1>2 DEF Release
  <2>2. c \in Conns /\ ~Referenced(c, map, held) => FALSE
    BY <1>2, NetAssumption DEF Nobody, Conns
  <2> QED BY <2>1, <2>2 DEF NetTypes
<1>3. CASE c \in Conns /\ ~Referenced(c, map, held) /\ buf_[c] = "live"
  <2>1. buf_' = [buf_ EXCEPT ![c] = "freed"] /\ owner' = Close(table, socketFd[c])
    BY <1>3 DEF Release, Nobody, Conns
  <2> QED BY <1>3, <2>1 DEF NetTypes, Close, Nobody
<1>4. CASE c \in Conns /\ ~Referenced(c, map, held) /\ buf_[c] # "live"
  <2>1. buf_' = buf_ /\ owner' = table
    BY <1>4 DEF Release, Nobody, Conns
  <2> QED BY <1>4, <2>1 DEF NetTypes
<1> QED BY <1>1, <1>2, <1>3, <1>4

\* Nothing is connected at the start.
LEMMA NetStart == NetInit => NetInv
<1> SUFFICES ASSUME NetInit PROVE NetInv
  OBVIOUS
<1> USE NetAssumption DEF NetInit, Nobody, Conns, Fds
<1>1. NetTypes
  <2>1. DOMAIN ConnectionMap = {} /\ made = 0
    OBVIOUS
  <2> QED BY <2>1 DEF NetTypes
<1>2. Unmade /\ EntryNamesItself /\ HoldsActive
  BY DEF Unmade, EntryNamesItself, HoldsActive
<1>3. HasSocket /\ AcceptedFindsItself /\ AcceptedKeepsItsSocket
  BY DEF HasSocket, AcceptedFindsItself, AcceptedKeepsItsSocket, Accepted
<1> QED BY <1>1, <1>2, <1>3 DEF NetInv

\* A new connection is accepted.
LEMMA ListenerKeeps ==
  ASSUME NetInv, NEW fd \in Fds, ListenerCallback(fd)
  PROVE  NetInv'
<1> DEFINE c == made + 1
<1> USE NetAssumption DEF NetInv, Nobody
<1>1. /\ c \in Conns /\ made' = c /\ made \in 0..MaxConns /\ buf_[c] = "freed" /\ kind[c] = "accepted"
      /\ owner[fd] = Nobody
  BY DEF ListenerCallback, NetTypes, Unmade, Conns, Lowest
<1>2. /\ socketFd' = [socketFd EXCEPT ![c] = fd] /\ UNCHANGED <<kind, activeVars>>
      /\ ConnectionMap' = Insert(ConnectionMap, fd, c)
  BY DEF ListenerCallback
<1>3. \/ /\ fd \notin DOMAIN ConnectionMap /\ owner' = [owner EXCEPT ![fd] = c]
         /\ \E b \in {"live", "null"} : buf_' = [buf_ EXCEPT ![c] = b]
      \/ fd \in DOMAIN ConnectionMap /\ UNCHANGED <<buf_, owner>>
  BY DEF ListenerCallback
<1>4. /\ DOMAIN ConnectionMap' = DOMAIN ConnectionMap \cup {fd}
      /\ \A f \in DOMAIN ConnectionMap : ConnectionMap'[f] = ConnectionMap[f]
      /\ fd \notin DOMAIN ConnectionMap => ConnectionMap'[fd] = c
  BY <1>2 DEF Insert
<1>5. UNCHANGED <<conn, isRunning_, stage, closes>>
  BY <1>2 DEF activeVars
<1> HIDE DEF c
<1>6. NetTypes'
  <2>1. c \in Nat /\ fd \in Nat /\ c \in 0..MaxConns /\ 0..made \subseteq 0..c
    BY <1>1 DEF Fds, Conns, c
  <2>2. owner' \in [Fds -> Nat] /\ buf_' \in [Conns -> {"raw", "null", "live", "freed"}]
    BY <1>3, <2>1 DEF NetTypes
  <2>3. \A g \in DOMAIN ConnectionMap' : ConnectionMap'[g] \in 0..c
    BY <1>4, <2>1 DEF NetTypes
  <2> QED BY <1>1, <1>2, <1>5, <2>1, <2>2, <2>3 DEF NetTypes
<1>7. Unmade'
  <2> SUFFICES ASSUME NEW d \in Conns, d > c PROVE buf_'[d] = "freed" /\ kind'[d] = "accepted"
    BY <1>1 DEF Unmade
  <2>1. d # c /\ d > made
    BY <1>1 DEF Conns, c
  <2> QED BY <1>2, <1>3, <2>1 DEF NetTypes, Unmade
<1>8. EntryNamesItself'
  <2>1. \A g \in DOMAIN ConnectionMap : ConnectionMap[g] # Nobody =>
          ConnectionMap[g] \in Conns /\ ConnectionMap[g] # c
    BY <1>1 DEF NetTypes, Conns, c
  <2> QED BY <1>1, <1>2, <1>4, <2>1 DEF NetTypes, EntryNamesItself
<1>9. HoldsActive'
  <2>1. \A k \in Connectioners : conn[k] # c /\ (conn[k] # Nobody => conn[k] \in Conns)
    BY <1>1 DEF NetTypes, Conns, c
  <2>2. \A k \in Connectioners : conn[k] # Nobody => buf_'[conn[k]] = buf_[conn[k]]
    BY <1>3, <2>1 DEF NetTypes
  <2> QED BY <1>2, <1>4, <1>5, <2>1, <2>2 DEF HoldsActive
<1>10. \A d \in Conns : d # c => socketFd'[d] = socketFd[d] /\ buf_'[d] = buf_[d] /\ kind'[d] = kind[d]
  BY <1>2, <1>3 DEF NetTypes
<1>11. AcceptedFindsItself'
  <2> SUFFICES ASSUME NEW d \in Conns, Accepted(d)' PROVE Find(ConnectionMap, socketFd[d])' = d
    BY DEF AcceptedFindsItself
  <2>1. CASE d # c
    BY <1>4, <1>10, <2>1 DEF Accepted, AcceptedFindsItself, Find, Conns
  <2>2. CASE d = c
    BY <1>1, <1>2, <1>3, <1>4, <2>2 DEF Accepted, Find, NetTypes
  <2> QED BY <2>1, <2>2
<1>a. HasSocket'
  BY <1>1, <1>2, <1>10 DEF HasSocket, Accepted, NetTypes
<1>12. AcceptedKeepsItsSocket'
  <2> SUFFICES ASSUME NEW d \in Conns, Accepted(d)' PROVE owner'[socketFd'[d]] = d \/ closes'
    BY DEF AcceptedKeepsItsSocket
  <2>1. CASE d # c
    <3>1. owner[socketFd[d]] = d \/ closes
      BY <1>10, <2>1 DEF Accepted, AcceptedKeepsItsSocket
    <3>2. socketFd[d] \in Fds
      BY <1>10, <2>1 DEF Accepted, HasSocket
    <3> QED BY <1>1, <1>3, <1>5, <1>10, <2>1, <3>1, <3>2 DEF NetTypes, Conns
  <2>2. CASE d = c
    BY <1>1, <1>2, <1>3, <2>2 DEF Accepted, NetTypes
  <2> QED BY <2>1, <2>2
<1> QED BY <1>6, <1>7, <1>8, <1>9, <1>a, <1>11, <1>12

\* A step that touches none of what the invariant is about keeps it.
LEMMA NothingConnects ==
  ASSUME NetInv, UNCHANGED <<made, owner, kind, socketFd, buf_, ConnectionMap, activeVars>>
  PROVE  NetInv'
BY DEF NetInv, NetTypes, Unmade, EntryNamesItself, HoldsActive, HasSocket, AcceptedFindsItself,
       AcceptedKeepsItsSocket, Accepted, Find, activeVars

\* getConn leaves a null entry behind, under a number that has none.
LEMMA NotFoundKeeps ==
  ASSUME NetInv, NEW c \in Conns, NotFound(c)
  PROVE  NetInv'
<1> USE NetAssumption DEF NetInv, Nobody
<1>1. UNCHANGED <<made, owner, kind, socketFd, buf_, conn, isRunning_, stage, closes>>
  BY DEF NotFound, connVars, activeVars
<1>2. /\ DOMAIN ConnectionMap' = DOMAIN ConnectionMap \cup {socketFd[c]}
      /\ \A f \in DOMAIN ConnectionMap : ConnectionMap'[f] = ConnectionMap[f]
      /\ socketFd[c] \notin DOMAIN ConnectionMap => ConnectionMap'[socketFd[c]] = Nobody
  BY DEF NotFound, Insert
<1>3. NetTypes' /\ Unmade' /\ EntryNamesItself' /\ HasSocket'
  BY <1>1, <1>2 DEF NetTypes, Unmade, EntryNamesItself, HasSocket, Accepted
<1>4. HoldsActive'
  BY <1>1, <1>2 DEF NetTypes, HoldsActive
<1>5. AcceptedFindsItself'
  BY <1>1, <1>2 DEF AcceptedFindsItself, Accepted, Find, Conns
<1>6. AcceptedKeepsItsSocket'
  BY <1>1 DEF AcceptedKeepsItsSocket, Accepted
<1> QED BY <1>3, <1>4, <1>5, <1>6

\* The event callback takes the entry of the Connection it finds out of the map.  That is
\* the only entry of this Connection, so an accepted one dies here and closes its socket.
LEMMA EventKeeps ==
  ASSUME NetInv, NEW c \in Conns, ConnectionEventCallback(c)
  PROVE  NetInv'
<1> USE NetAssumption DEF NetInv, Nobody
<1> DEFINE found == Find(ConnectionMap, socketFd[c])
<1>1. CASE found = Nobody
  BY <1>1, NotFoundKeeps DEF ConnectionEventCallback
<1>2. CASE found # Nobody
  <2> DEFINE f == socketFd[found]
  <2>1. /\ UNCHANGED <<made, kind, socketFd, conn, isRunning_, stage, closes>>
        /\ ConnectionMap' = Erase(ConnectionMap, f)
        /\ Release(found, ConnectionMap', conn, owner)
    BY <1>2 DEF ConnectionEventCallback, activeVars
  <2>2. /\ found \in 0..made /\ found \in Conns /\ f = socketFd[c]
        /\ f \in DOMAIN ConnectionMap /\ ConnectionMap[f] = found
    BY <1>2 DEF Find, NetTypes, EntryNamesItself, Conns
  <2>3. /\ DOMAIN ConnectionMap' = DOMAIN ConnectionMap \ {f}
        /\ \A g \in DOMAIN ConnectionMap \ {f} : ConnectionMap'[g] = ConnectionMap[g]
    BY <2>1, EraseFacts
  <2> HIDE DEF found, f
  <2>4. /\ owner' \in [Fds -> Nat]
        /\ buf_' \in [Conns -> {"raw", "null", "live", "freed"}]
        /\ \A d \in Conns : d # found => buf_'[d] = buf_[d]
        /\ ~Referenced(found, ConnectionMap', conn) => buf_'[found] # "live"
        /\ \A d \in Conns : buf_'[d] = "live" => buf_[d] = "live"
        /\ \A fd \in Fds : owner'[fd] = owner[fd] \/ fd = socketFd[found]
    <3>1. owner \in [Fds -> Nat]
      BY DEF NetTypes
    <3> QED BY <2>1, <2>2, <3>1, ReleaseFacts
  <2>5. NetTypes' /\ EntryNamesItself'
    BY <2>1, <2>3, <2>4 DEF NetTypes, EntryNamesItself
  <2>6. Unmade'
    BY <2>1, <2>2, <2>4 DEF Unmade, NetTypes, Conns
  <2>7. HoldsActive'
    BY <2>1, <2>2, <2>3, <2>4 DEF HoldsActive, NetTypes, Conns
  <2>8. ASSUME NEW d \in Conns, Accepted(d)'
        PROVE  /\ Accepted(d) /\ Find(ConnectionMap, socketFd[d]) = d
               /\ d # found /\ socketFd[d] # f
    <3>1. Accepted(d)
      BY <2>1, <2>4, <2>8 DEF Accepted
    <3>2. Find(ConnectionMap, socketFd[d]) = d
      BY <3>1 DEF AcceptedFindsItself
    <3>3. d # found
      <4> SUFFICES ASSUME d = found PROVE FALSE
        OBVIOUS
      <4>1. \A k \in Connectioners : conn[k] # found
        BY <3>1 DEF HoldsActive, Accepted, Conns
      <4>2. \A g \in DOMAIN ConnectionMap' : ConnectionMap'[g] # found
        BY <2>2, <2>3 DEF EntryNamesItself, f, Conns
      <4> QED BY <2>4, <2>8, <4>1, <4>2 DEF Referenced, Accepted
    <3>4. socketFd[d] # f
      BY <2>2, <3>2, <3>3 DEF Find
    <3> QED BY <3>1, <3>2, <3>3, <3>4
  <2>9. AcceptedFindsItself' /\ HasSocket'
    BY <2>1, <2>3, <2>8 DEF AcceptedFindsItself, HasSocket, Find, Conns
  <2>10. AcceptedKeepsItsSocket'
    <3> SUFFICES ASSUME NEW d \in Conns, Accepted(d)' PROVE owner'[socketFd'[d]] = d \/ closes'
      BY DEF AcceptedKeepsItsSocket
    <3>1. Accepted(d) /\ socketFd[d] # f /\ socketFd[d] \in Fds
      BY <2>8 DEF HasSocket
    <3>2. owner[socketFd[d]] = d \/ closes
      BY <3>1 DEF AcceptedKeepsItsSocket
    <3> QED BY <2>1, <2>4, <3>1, <3>2 DEF f
  <2> QED BY <2>5, <2>6, <2>7, <2>9, <2>10
<1> QED BY <1>1, <1>2

\* A Connectioner makes its Connection.
LEMMA ConnectionerInitKeeps ==
  ASSUME NetInv, NEW k \in Connectioners, ConnectionerInit(k)
  PROVE  NetInv'
<1> DEFINE c == made + 1
<1> USE NetAssumption DEF NetInv, Nobody
<1>1. /\ c \in Conns /\ made' = c /\ made \in 0..MaxConns /\ c \in 0..MaxConns
      /\ 0..made \subseteq 0..c /\ c \in 0..c
  BY DEF ConnectionerInit, NetTypes, Conns
<1>2. /\ conn' = [conn EXCEPT ![k] = c] /\ kind' = [kind EXCEPT ![c] = "active"]
      /\ buf_' = [buf_ EXCEPT ![c] = "raw"] /\ stage' = [stage EXCEPT ![k] = "init"]
      /\ stage[k] = "new" /\ UNCHANGED <<owner, socketFd, ConnectionMap, isRunning_, closes>>
  BY DEF ConnectionerInit
<1>3. /\ \A fd \in DOMAIN ConnectionMap : ConnectionMap[fd] # c
      /\ \A h \in Connectioners : conn[h] # c /\ conn[h] \in 0..made
      /\ \A h \in Connectioners : conn[h] # Nobody => conn[h] \in Conns
  BY DEF NetTypes, Conns
<1>4. Unmade'
  BY <1>1, <1>2 DEF NetTypes, Unmade, Conns
<1> HIDE DEF c
<1>5. NetTypes'
  BY <1>1, <1>2, <1>3 DEF NetTypes
<1>6. EntryNamesItself'
  BY <1>2 DEF EntryNamesItself
<1>7. HoldsActive'
  <2> SUFFICES ASSUME NEW h \in Connectioners
               PROVE  /\ stage'[h] = "init" <=> conn'[h] # Nobody
                      /\ conn'[h] # Nobody =>
                           /\ kind'[conn'[h]] = "active"
                           /\ \A g \in Connectioners : conn'[g] = conn'[h] => g = h
                           /\ ~isRunning_'[h] =>
                                /\ buf_'[conn'[h]] = "raw"
                                /\ \A fd \in DOMAIN ConnectionMap : ConnectionMap[fd] # conn'[h]
    BY <1>2 DEF HoldsActive
  <2>1. CASE h = k
    BY <1>1, <1>2, <1>3, <2>1 DEF NetTypes, Conns
  <2>2. CASE h # k
    BY <1>1, <1>2, <1>3, <2>2 DEF NetTypes, HoldsActive
  <2> QED BY <2>1, <2>2
<1>8. \A d \in Conns : Accepted(d)' => Accepted(d)
  BY <1>1, <1>2 DEF NetTypes, Accepted
<1>9. HasSocket' /\ AcceptedFindsItself' /\ AcceptedKeepsItsSocket'
  BY <1>2, <1>8 DEF HasSocket, AcceptedFindsItself, AcceptedKeepsItsSocket, Find
<1> QED BY <1>4, <1>5, <1>6, <1>7, <1>9

\* Connect: a new number for the Connection, which has no entry so far.
LEMMA RunKeeps ==
  ASSUME NetInv, NEW k \in Connectioners, Run(k)
  PROVE  NetInv'
<1> DEFINE c == conn[k]
<1> USE NetAssumption DEF NetInv, Nobody
<1>1. /\ c \in Conns /\ c \in 0..made /\ kind[c] = "active" /\ stage[k] = "init" /\ ~isRunning_[k]
      /\ \A h \in Connectioners : conn[h] = c => h = k
      /\ \A f \in DOMAIN ConnectionMap : ConnectionMap[f] # c
  BY DEF Run, NetTypes, HoldsActive, Conns
<1>2. PICK fd \in Fds :
        /\ Lowest(fd)
        /\ socketFd' = [socketFd EXCEPT ![c] = fd]
        /\ \/ /\ ConnectionMap' = Insert(ConnectionMap, fd, c)
              /\ \E b \in {"live", "null"} : buf_' = [buf_ EXCEPT ![c] = b]
              /\ owner' = [owner EXCEPT ![fd] = c]
              /\ isRunning_' = [isRunning_ EXCEPT ![k] = TRUE]
           \/ UNCHANGED <<ConnectionMap, buf_, owner, isRunning_>>
           \/ /\ owner' = [owner EXCEPT ![fd] = c]
              /\ UNCHANGED <<ConnectionMap, buf_, isRunning_>>
  BY DEF Run
<1>3. UNCHANGED <<made, kind, conn, stage, closes>>
  BY DEF Run
<1>4. /\ DOMAIN ConnectionMap \subseteq DOMAIN ConnectionMap'
      /\ \A f \in DOMAIN ConnectionMap : ConnectionMap'[f] = ConnectionMap[f]
      /\ \A f \in DOMAIN ConnectionMap' \ DOMAIN ConnectionMap :
           f = fd /\ ConnectionMap'[f] = c /\ isRunning_'[k]
  BY <1>2 DEF Insert, NetTypes
<1>5. /\ buf_' \in [Conns -> {"raw", "null", "live", "freed"}]
      /\ isRunning_' \in [Connectioners -> BOOLEAN]
      /\ \A d \in Conns : d # c => buf_'[d] = buf_[d]
      /\ \A h \in Connectioners : h # k => isRunning_'[h] = isRunning_[h]
      /\ ~isRunning_'[k] => buf_'[c] = buf_[c]
  BY <1>1, <1>2 DEF NetTypes
<1>6. /\ owner' \in [Fds -> Nat] /\ fd \in Nat /\ owner[fd] = Nobody
      /\ \A f \in Fds : owner[f] # Nobody => owner'[f] = owner[f]
  <2>1. c \in Nat /\ fd \in Nat
    BY <1>1 DEF Conns, Fds
  <2>2. owner[fd] = Nobody
    BY <1>2 DEF Lowest
  <2> QED BY <1>2, <2>1, <2>2 DEF NetTypes
<1>7. \A d \in Conns : d # c => socketFd'[d] = socketFd[d]
  BY <1>2 DEF NetTypes
<1>8. socketFd'[c] = fd /\ socketFd' \in [Conns -> Nat]
  BY <1>1, <1>2, <1>6 DEF NetTypes
<1> HIDE DEF c
<1>9. NetTypes'
  BY <1>1, <1>3, <1>4, <1>5, <1>6, <1>8 DEF NetTypes
<1>10. Unmade'
  BY <1>1, <1>3, <1>5 DEF NetTypes, Unmade, Conns
<1>11. EntryNamesItself'
  BY <1>1, <1>4, <1>7, <1>8 DEF NetTypes, EntryNamesItself, Conns
<1>12. HoldsActive'
  <2> SUFFICES ASSUME NEW h \in Connectioners
               PROVE  /\ stage[h] = "init" <=> conn[h] # Nobody
                      /\ conn[h] # Nobody =>
                           /\ kind[conn[h]] = "active"
                           /\ \A g \in Connectioners : conn[g] = conn[h] => g = h
                           /\ ~isRunning_'[h] =>
                                /\ buf_'[conn[h]] = "raw"
                                /\ \A f \in DOMAIN ConnectionMap' : ConnectionMap'[f] # conn[h]
    BY <1>3 DEF HoldsActive
  <2>1. conn[h] # Nobody => conn[h] \in Conns
    BY DEF NetTypes, Conns
  <2>2. CASE h = k
    BY <1>1, <1>4, <1>5, <2>2 DEF HoldsActive, c
  <2>3. CASE h # k
    <3>1. conn[h] # c
      BY <1>1, <2>3
    <3>2. conn[h] # Nobody => buf_'[conn[h]] = buf_[conn[h]]
      BY <1>5, <2>1, <3>1
    <3>3. ASSUME \A f \in DOMAIN ConnectionMap : ConnectionMap[f] # conn[h]
          PROVE  \A f \in DOMAIN ConnectionMap' : ConnectionMap'[f] # conn[h]
      BY <1>4, <3>1, <3>3
    <3> QED BY <1>5, <2>3, <3>2, <3>3 DEF HoldsActive
  <2> QED BY <2>2, <2>3
<1>13. \A d \in Conns : Accepted(d)' =>
         /\ Accepted(d) /\ d # c /\ socketFd'[d] = socketFd[d] /\ socketFd[d] \in Fds
  BY <1>1, <1>3, <1>5, <1>7 DEF Accepted, HasSocket
<1>14. HasSocket' /\ AcceptedFindsItself'
  BY <1>4, <1>13 DEF HasSocket, AcceptedFindsItself, Find, Conns
<1>15. AcceptedKeepsItsSocket'
  <2> SUFFICES ASSUME NEW d \in Conns, Accepted(d)', ~closes PROVE owner'[socketFd'[d]] = d
    BY <1>3 DEF AcceptedKeepsItsSocket
  <2>1. owner[socketFd[d]] = d /\ socketFd[d] \in Fds /\ d # Nobody
    BY <1>13 DEF AcceptedKeepsItsSocket, Conns
  <2> QED BY <1>6, <1>13, <2>1
<1> QED BY <1>9, <1>10, <1>11, <1>12, <1>14, <1>15

\* CloseConn.
LEMMA CloseConnKeeps ==
  ASSUME NetInv, NEW k \in Connectioners, CloseConn(k)
  PROVE  NetInv'
<1> USE DEF NetInv
<1>1. /\ UNCHANGED <<made, kind, socketFd, buf_, ConnectionMap, conn, isRunning_, stage>>
      /\ owner' = Close(owner, socketFd[conn[k]]) /\ closes'
  BY DEF CloseConn, connVars
<1>2. NetTypes'
  BY <1>1 DEF NetTypes, Close, Nobody
<1>3. Unmade' /\ EntryNamesItself' /\ HoldsActive' /\ HasSocket'
  BY <1>1 DEF Unmade, EntryNamesItself, HoldsActive, HasSocket, Accepted
<1>4. AcceptedFindsItself' /\ AcceptedKeepsItsSocket'
  BY <1>1 DEF AcceptedFindsItself, AcceptedKeepsItsSocket, Accepted, Find
<1> QED BY <1>2, <1>3, <1>4

\* ~Connectioner: what it releases is an active Connection; if it never ran there is no
\* socket to close.
LEMMA DestroyKeeps ==
  ASSUME NetInv, NEW k \in Connectioners, Destroy(k)
  PROVE  NetInv'
<1> DEFINE c == conn[k]
           table == IF isRunning_[k] THEN Close(owner, socketFd[c]) ELSE owner
<1> USE NetAssumption DEF NetInv, Nobody
<1>1. /\ c \in Conns /\ c \in 0..made /\ kind[c] = "active"
      /\ ~isRunning_[k] => buf_[c] = "raw"
      /\ \A h \in Connectioners : conn[h] = c => h = k
  BY DEF Destroy, NetTypes, HoldsActive, Conns
<1>2. /\ stage' = [stage EXCEPT ![k] = "gone"] /\ conn' = [conn EXCEPT ![k] = Nobody]
      /\ closes' = (closes \/ isRunning_[k])
      /\ Release(c, ConnectionMap, conn', table)
      /\ UNCHANGED <<made, kind, socketFd, ConnectionMap, isRunning_>>
  BY DEF Destroy
<1>3. table \in [Fds -> Nat] /\ (~isRunning_[k] => table = owner)
  BY DEF NetTypes, Close
<1> HIDE DEF c, table
<1>4. /\ owner' \in [Fds -> Nat]
      /\ buf_' \in [Conns -> {"raw", "null", "live", "freed"}]
      /\ \A d \in Conns : d # c => buf_'[d] = buf_[d]
      /\ \A fd \in Fds : owner'[fd] = table[fd] \/ buf_[c] = "live"
  BY <1>1, <1>2, <1>3, ReleaseFacts
<1>5. NetTypes'
  BY <1>1, <1>2, <1>4 DEF NetTypes
<1>6. Unmade' /\ EntryNamesItself'
  BY <1>1, <1>2, <1>4 DEF NetTypes, Unmade, EntryNamesItself, Conns
<1>7. HoldsActive'
  <2> SUFFICES ASSUME NEW h \in Connectioners
               PROVE  /\ stage'[h] = "init" <=> conn'[h] # Nobody
                      /\ conn'[h] # Nobody =>
                           /\ kind[conn'[h]] = "active"
                           /\ \A g \in Connectioners : conn'[g] = conn'[h] => g = h
                           /\ ~isRunning_[h] =>
                                /\ buf_'[conn'[h]] = "raw"
                                /\ \A f \in DOMAIN ConnectionMap : ConnectionMap[f] # conn'[h]
    BY <1>2 DEF HoldsActive
  <2>1. CASE h = k
    BY <1>2, <2>1 DEF NetTypes
  <2>2. CASE h # k
    <3>1. conn'[h] = conn[h] /\ stage'[h] = stage[h] /\ conn[h] # c
          /\ (conn[h] # Nobody => conn[h] \in Conns)
      BY <1>1, <1>2, <2>2 DEF NetTypes, Conns
    <3>2. \A g \in Connectioners : conn'[g] = conn[h] /\ conn[h] # Nobody => conn[g] = conn[h]
      BY <1>2 DEF NetTypes
    <3> QED BY <1>4, <3>1, <3>2 DEF HoldsActive
  <2> QED BY <2>1, <2>2
<1>8. \A d \in Conns : Accepted(d)' => Accepted(d) /\ socketFd[d] \in Fds
  BY <1>1, <1>2, <1>4 DEF Accepted, HasSocket
<1>9. HasSocket' /\ AcceptedFindsItself'
  BY <1>2, <1>8 DEF HasSocket, AcceptedFindsItself, Find
<1>10. AcceptedKeepsItsSocket'
  <2>1. CASE isRunning_[k]
    BY <1>2, <2>1 DEF AcceptedKeepsItsSocket
  <2>2. CASE ~isRunning_[k]
    <3>1. \A fd \in Fds : owner'[fd] = owner[fd]
      BY <1>1, <1>3, <1>4, <2>2
    <3> QED BY <1>2, <1>8, <2>2, <3>1 DEF AcceptedKeepsItsSocket
  <2> QED BY <2>1, <2>2
<1> QED BY <1>5, <1>6, <1>7, <1>9, <1>10

\* A call of Run without a socket leaves nothing but the number.
LEMMA RunWithoutSocketKeeps ==
  ASSUME NetInv, NEW k \in Connectioners, RunWithoutSocket(k)
  PROVE  NetInv'
<1> DEFINE c == conn[k]
<1> USE NetAssumption DEF NetInv, Nobody
<1>1. /\ c \in Conns /\ kind[c] = "active"
      /\ \A f \in DOMAIN ConnectionMap : ConnectionMap[f] # c
  BY DEF RunWithoutSocket, NetTypes, HoldsActive, Conns
<1>2. /\ socketFd' = [socketFd EXCEPT ![c] = Nobody]
      /\ UNCHANGED <<made, owner, kind, buf_, ConnectionMap, conn, isRunning_, stage, closes>>
  BY DEF RunWithoutSocket, activeVars
<1> HIDE DEF c
<1>3. /\ socketFd' \in [Conns -> Nat]
      /\ \A d \in Conns : d # c => socketFd'[d] = socketFd[d]
  BY <1>1, <1>2 DEF NetTypes
<1>4. \A d \in Conns : Accepted(d)' => Accepted(d) /\ socketFd'[d] = socketFd[d]
  BY <1>1, <1>2, <1>3 DEF Accepted
<1>5. NetTypes' /\ Unmade' /\ HoldsActive'
  BY <1>2, <1>3 DEF NetTypes, Unmade, HoldsActive
<1>6. EntryNamesItself'
  <2>1. \A f \in DOMAIN ConnectionMap : ConnectionMap[f] # Nobody => ConnectionMap[f] \in Conns
    BY DEF NetTypes, Conns
  <2> QED BY <1>1, <1>2, <1>3, <2>1 DEF EntryNamesItself
<1>7. HasSocket' /\ AcceptedFindsItself' /\ AcceptedKeepsItsSocket'
  BY <1>2, <1>4 DEF HasSocket, AcceptedFindsItself, AcceptedKeepsItsSocket, Find
<1> QED BY <1>5, <1>6, <1>7

\* Every callback and every call keeps the invariant.
LEMMA NetStep == NetInv /\ [NetNext]_netVars => NetInv'
<1> SUFFICES ASSUME NetInv, [NetNext]_netVars PROVE NetInv'
  OBVIOUS
<1>1. ASSUME NEW c \in Conns, ConnectionReadCallback(c) PROVE NetInv'
  <2>1. CASE NotFound(c)
    BY <2>1, NotFoundKeeps
  <2>2. CASE UNCHANGED <<made, owner, kind, socketFd, buf_, ConnectionMap, activeVars>>
    BY <2>2, NothingConnects
  <2> QED BY <1>1, <2>1, <2>2 DEF ConnectionReadCallback
<1>2. ASSUME NEW c \in Conns, ConnectionWriteCallback(c) PROVE NetInv'
  <2>1. CASE NotFound(c)
    BY <2>1, NotFoundKeeps
  <2>2. CASE UNCHANGED <<made, owner, kind, socketFd, buf_, ConnectionMap, activeVars>>
    BY <2>2, NothingConnects
  <2> QED BY <1>2, <2>1, <2>2 DEF ConnectionWriteCallback
<1>3. ASSUME NEW c \in Conns, Hangup(c) PROVE NetInv'
  BY <1>3, NothingConnects DEF Hangup
<1>4. CASE UNCHANGED netVars
  BY <1>4, NothingConnects DEF netVars, connVars
<1> QED BY <1>1, <1>2, <1>3, <1>4, ListenerKeeps, EventKeeps, ConnectionerInitKeeps, RunKeeps,
           RunWithoutSocketKeeps, CloseConnKeeps, DestroyKeeps DEF NetNext, Callback

\* A callback of an accepted Connection finds this Connection in the map, through reuse of
\* descriptors, inserts that do nothing and entries Connectioners leave behind, for any
\* number of descriptors, Connections and Connectioners.
THEOREM CallbacksCorrect == NetSpec => []AcceptedFindsItself
<1>1. NetInv => AcceptedFindsItself
  BY DEF NetInv
<1> QED BY NetStart, NetStep, <1>1, PTL DEF NetSpec

\* An accepted Connection keeps its socket until it dies, as long as no Connectioner has
\* closed one.
THEOREM SocketsCorrect == NetSpec => []AcceptedKeepsItsSocket
<1>1. NetInv => AcceptedKeepsItsSocket
  BY DEF NetInv
<1> QED BY NetStart, NetStep, <1>1, PTL DEF NetSpec

-----------------------------------------------------------------------------
(* Raft.  Terms come from campaigns.                                       *)

Campaign == [node : Nodes, vote_counts : Nat, is_leader : BOOLEAN]
CallStates == {"queued", "sent", "older", "compared", "newer", "raising", "answered", "failed", "replied",
               "adopting", "storing", "counted"}
Call == [at : CallStates, term : Nat, reply : Nat, granted : BOOLEAN]
CallMaps == UNION {[S -> Call] : S \in SUBSET Nodes}

\* Every call has its place and its values their types.
ShapeInv ==
  /\ highest \in Nat
  /\ term \in [Nodes -> Nat]
  /\ timer \in [Nodes -> Nat \cup {Idle}]
  /\ campaign \in Seq(Campaign)
  /\ call \in Seq(CallMaps)
  /\ Len(call) = Len(campaign)
  /\ \A c \in Campaigns : call[c] \in [Peers(c) -> Call]

\* A term that a thread has loaded, or that is on its way in a request or a reply, has
\* been earned as well: whoever stores it later, after whatever else was stored meanwhile,
\* stays within the bound.
EarnedInv ==
  LET Earned(t) == t <= highest + Len(campaign) IN
  /\ \A n \in Nodes : Earned(term[n]) /\ Earned(timer[n])
  /\ \A c \in Campaigns : \A p \in Peers(c) :
       Earned(call[c][p].term) /\ Earned(call[c][p].reply)

TermInv == ShapeInv /\ EarnedInv

-----------------------------------------------------------------------------
\* A step that changes one call, to values within the bound, and leaves terms and
\* campaigns' nodes alone keeps the invariant.
LEMMA CallChanges ==
  ASSUME TermInv, NEW c \in Campaigns, NEW p \in Peers(c), NEW x \in Call,
         x.term <= highest + Len(campaign), x.reply <= highest + Len(campaign),
         call' = [call EXCEPT ![c][p] = x],
         campaign' \in Seq(Campaign), Len(campaign') = Len(campaign),
         \A d \in Campaigns : campaign'[d].node = campaign[d].node,
         timer' = timer, highest' = highest,
         term' \in [Nodes -> Nat],
         \A n \in Nodes : term'[n] <= highest + Len(campaign)
  PROVE  TermInv'
<1> USE DEF TermInv
<1>1. DOMAIN campaign' = Campaigns
  BY DEF ShapeInv, Campaigns
<1>2. \A d \in Campaigns : Peers(d)' = Peers(d)
  BY <1>1 DEF Peers
<1>3. DOMAIN call = Campaigns
  BY DEF ShapeInv, Campaigns
<1>4. call[c] \in [Peers(c) -> Call]
  BY DEF ShapeInv
<1>5. /\ call'[c] = [call[c] EXCEPT ![p] = x]
      /\ \A d \in Campaigns \ {c} : call'[d] = call[d]
  BY <1>3 DEF ShapeInv
<1>6. \A d \in Campaigns : call'[d] \in [Peers(d) -> Call]
  BY <1>4, <1>5 DEF ShapeInv
<1>7. call'[c] \in CallMaps
  <2>1. Peers(c) \in SUBSET Nodes
    BY DEF Peers
  <2> QED BY <1>6, <2>1 DEF CallMaps
<1>8. call' \in Seq(CallMaps) /\ Len(call') = Len(call)
  <2>1. call' = [call EXCEPT ![c] = [call[c] EXCEPT ![p] = x]]
    OBVIOUS
  <2> QED BY <1>3, <1>5, <1>7, <2>1 DEF ShapeInv
<1>9. ShapeInv'
  BY <1>1, <1>2, <1>6, <1>8 DEF ShapeInv, Campaigns
<1>10. \A d \in Campaigns : \A q \in Peers(d) :
         /\ call'[d][q].term <= highest + Len(campaign)
         /\ call'[d][q].reply <= highest + Len(campaign)
  BY <1>4, <1>5 DEF EarnedInv
<1>11. EarnedInv'
  BY <1>1, <1>2, <1>10 DEF EarnedInv, Campaigns
<1> QED BY <1>9, <1>11

\* The invariant holds at the start: nothing has been earned yet, and nothing is needed.
LEMMA InitHolds == RaftInit => TermInv
<1> SUFFICES ASSUME RaftInit PROVE TermInv
  OBVIOUS
<1>1. /\ highest \in InitialTerms
      /\ \A u \in InitialTerms : u <= highest
  BY InitialTermsAssumption DEF RaftInit
<1>2. /\ campaign \in Seq(Campaign) /\ call \in Seq(CallMaps)
      /\ Len(campaign) = 0 /\ Len(call) = 0 /\ Campaigns = {}
  BY DEF RaftInit, Campaigns
<1>a. /\ highest \in Nat /\ term \in [Nodes -> Nat]
      /\ \A n \in Nodes : term[n] \in InitialTerms
  BY <1>1, InitialTermsAssumption DEF RaftInit
<1>b. timer \in [Nodes -> Nat \cup {Idle}] /\ \A n \in Nodes : timer[n] = Idle
  BY DEF RaftInit
<1>3. ShapeInv
  BY <1>2, <1>a, <1>b DEF ShapeInv
<1>4. EarnedInv
  BY <1>1, <1>2, <1>a, <1>b DEF EarnedInv, Idle
<1> QED BY <1>3, <1>4 DEF TermInv

\* What a campaign counts does not move it to another node.
LEMMA CountingKeepsNodes ==
  ASSUME ShapeInv, NEW c \in Campaigns, NEW p \in Peers(c), CountVote(c, p)
  PROVE  /\ campaign' \in Seq(Campaign) /\ Len(campaign') = Len(campaign)
         /\ \A d \in Campaigns : campaign'[d].node = campaign[d].node
<1>1. campaign[c] \in Campaign /\ DOMAIN campaign = 1..Len(campaign)
  BY DEF ShapeInv, Campaigns
<1> DEFINE v == campaign[c].vote_counts + (IF call[c][p].granted THEN 1 ELSE 0)
           w == campaign[c].is_leader \/ (v > node_counts \div 2 /\ ~campaign[c].is_leader)
           x == [node |-> campaign[c].node, vote_counts |-> v, is_leader |-> w]
<1>2. campaign' = [campaign EXCEPT ![c] = x]
  BY DEF CountVote
<1>3. v \in Nat
  BY <1>1 DEF Campaign
<1>4. w \in BOOLEAN
  OBVIOUS
<1>5. campaign[c].node \in Nodes
  BY <1>1 DEF Campaign
<1> HIDE DEF v, w
<1>6. x \in Campaign /\ x.node = campaign[c].node
  BY <1>3, <1>4, <1>5 DEF Campaign
<1> HIDE DEF x
<1> QED BY <1>1, <1>2, <1>6 DEF ShapeInv, Campaigns

\* addTerm's store and the new campaign: the term grows by one, and so does the bound.
LEMMA BeginKeeps == ASSUME TermInv, NEW n \in Nodes, Begin(n) PROVE TermInv'
<1> USE DEF TermInv
<1> DEFINE new == [node |-> n, vote_counts |-> 1, is_leader |-> FALSE]
           calls == [p \in Nodes \ {n} |-> NoCall]
<1>1. timer[n] \in Nat
  BY DEF Begin, ShapeInv
<1>2. new \in Campaign
  BY DEF Campaign
<1>3. calls \in [Nodes \ {n} -> Call] /\ calls \in CallMaps
  <2>1. NoCall \in Call
    BY DEF NoCall, Call, CallStates
  <2>2. calls \in [Nodes \ {n} -> Call]
    BY <2>1
  <2> QED BY <2>2 DEF CallMaps
<1>4. /\ campaign' = Append(campaign, new) /\ call' = Append(call, calls)
      /\ Len(campaign') = Len(campaign) + 1 /\ Len(call') = Len(call) + 1
  BY DEF Begin, ShapeInv
<1>5. /\ DOMAIN campaign' = Campaigns \cup {Len(campaign) + 1}
      /\ Campaigns = 1..Len(campaign)
  BY <1>2, <1>4 DEF ShapeInv, Campaigns
<1>6. /\ \A d \in Campaigns : campaign'[d] = campaign[d] /\ call'[d] = call[d]
      /\ campaign'[Len(campaign) + 1] = new /\ call'[Len(campaign) + 1] = calls
  BY <1>2, <1>3, <1>4, <1>5 DEF ShapeInv
<1>7. /\ \A d \in Campaigns : Peers(d)' = Peers(d)
      /\ Nodes \ {campaign'[Len(campaign) + 1].node} = Nodes \ {n}
  BY <1>6 DEF Peers
<1>8. \A d \in Campaigns' : call'[d] \in [Peers(d)' -> Call]
  BY <1>3, <1>5, <1>6, <1>7 DEF ShapeInv, Campaigns, Peers
<1>9. campaign' \in Seq(Campaign) /\ call' \in Seq(CallMaps)
  BY <1>2, <1>3, <1>4 DEF ShapeInv
<1>10. /\ highest' = highest /\ term' \in [Nodes -> Nat]
       /\ timer' \in [Nodes -> Nat \cup {Idle}]
  BY <1>1 DEF Begin, ShapeInv, Idle
<1>11. ShapeInv'
  BY <1>4, <1>8, <1>9, <1>10 DEF ShapeInv
<1>12. \A m \in Nodes : /\ term'[m] <= highest + Len(campaign')
                         /\ timer'[m] <= highest + Len(campaign')
  BY <1>1, <1>4 DEF Begin, ShapeInv, EarnedInv, Idle
<1>13. \A d \in Campaigns : \A q \in Peers(d) :
         /\ call'[d][q].term <= highest + Len(campaign')
         /\ call'[d][q].reply <= highest + Len(campaign')
  <2> SUFFICES ASSUME NEW d \in Campaigns, NEW q \in Peers(d)
               PROVE  /\ call'[d][q].term <= highest + Len(campaign')
                      /\ call'[d][q].reply <= highest + Len(campaign')
    OBVIOUS
  <2>1. call[d][q] \in Call
    BY DEF ShapeInv
  <2>2. call[d][q].term \in Nat /\ call[d][q].reply \in Nat
    BY <2>1 DEF Call
  <2>3. /\ call[d][q].term <= highest + Len(campaign)
        /\ call[d][q].reply <= highest + Len(campaign)
    BY DEF EarnedInv
  <2>4. highest \in Nat /\ Len(campaign) \in Nat
    BY DEF ShapeInv
  <2>5. call'[d] = call[d] /\ Len(campaign') = Len(campaign) + 1
    BY <1>4, <1>6
  <2> QED BY <2>2, <2>3, <2>4, <2>5
<1>14. \A q \in Nodes \ {n} : calls[q].term = 0 /\ calls[q].reply = 0
  BY DEF NoCall
<1>15. EarnedInv'
  BY <1>4, <1>5, <1>6, <1>7, <1>10, <1>12, <1>13, <1>14
     DEF EarnedInv, ShapeInv, Campaigns, Peers
<1> QED BY <1>11, <1>15

\* A call that only moves on keeps the invariant, whatever is counted meanwhile.
LEMMA MoveKeeps ==
  ASSUME TermInv, NEW c \in Campaigns, NEW p \in Peers(c), NEW at \in CallStates,
         Move(c, p, at), UNCHANGED campaign \/ CountVote(c, p),
         timer' = timer, highest' = highest,
         term' \in [Nodes -> Nat],
         \A n \in Nodes : term'[n] <= highest + Len(campaign)
  PROVE  TermInv'
<1> DEFINE x == [at |-> at, term |-> call[c][p].term, reply |-> call[c][p].reply,
                 granted |-> call[c][p].granted]
<1>1. call[c][p] \in Call /\ c \in DOMAIN call /\ p \in DOMAIN call[c]
  BY DEF TermInv, ShapeInv, Campaigns
<1>2. x \in Call
  BY <1>1 DEF Call
<1>3. [call[c][p] EXCEPT !.at = at] = x
  BY <1>1 DEF Call
<1>4. call' = [call EXCEPT ![c][p] = x]
  BY <1>1, <1>3 DEF Move
<1>5. x.term <= highest + Len(campaign) /\ x.reply <= highest + Len(campaign)
  BY DEF TermInv, EarnedInv
<1>6. /\ campaign' \in Seq(Campaign) /\ Len(campaign') = Len(campaign)
      /\ \A d \in Campaigns : campaign'[d].node = campaign[d].node
  BY CountingKeepsNodes DEF TermInv, ShapeInv
<1> HIDE DEF x
<1> QED BY <1>2, <1>4, <1>5, <1>6, CallChanges

\* An answer with an earned term keeps the invariant.
LEMMA AnswerKeeps ==
  ASSUME TermInv, NEW c \in Campaigns, NEW p \in Peers(c), NEW reply \in Nat,
         reply <= highest + Len(campaign), Answer(c, p, reply, FALSE),
         UNCHANGED <<campaign, timer, highest>>,
         term' \in [Nodes -> Nat],
         \A n \in Nodes : term'[n] <= highest + Len(campaign)
  PROVE  TermInv'
<1> DEFINE x == [at |-> "answered", term |-> call[c][p].term, reply |-> reply,
                 granted |-> FALSE]
<1>1. call[c][p] \in Call
  BY DEF TermInv, ShapeInv
<1>2. x \in Call
  BY <1>1 DEF Call, CallStates
<1>3. x.term <= highest + Len(campaign) /\ x.reply <= highest + Len(campaign)
  BY DEF TermInv, EarnedInv
<1>4. call' = [call EXCEPT ![c][p] = x]
  BY DEF Answer
<1>5. campaign' \in Seq(Campaign)
  BY DEF TermInv, ShapeInv
<1> HIDE DEF x
<1> QED BY <1>2, <1>3, <1>4, <1>5, CallChanges

\* Steps that touch neither terms nor calls.
LEMMA NothingEarned ==
  ASSUME TermInv, UNCHANGED <<term, campaign, call, highest>>,
         timer' \in [Nodes -> Nat \cup {Idle}],
         \A n \in Nodes : timer'[n] <= highest + Len(campaign)
  PROVE  TermInv'
  BY DEF TermInv, ShapeInv, EarnedInv, Campaigns, Peers

-----------------------------------------------------------------------------
\* Every step of timers, fibers and handlers keeps the invariant.
LEMMA NextKeeps == TermInv /\ [RaftNext]_raftVars => TermInv'
<1> SUFFICES ASSUME TermInv, [RaftNext]_raftVars PROVE TermInv'
  OBVIOUS
<1>1. /\ highest \in Nat /\ Len(campaign) \in Nat /\ term \in [Nodes -> Nat]
      /\ timer \in [Nodes -> Nat \cup {Idle}]
      /\ \A n \in Nodes : term[n] <= highest + Len(campaign)
      /\ \A n \in Nodes : timer[n] <= highest + Len(campaign)
  BY DEF TermInv, ShapeInv, EarnedInv
<1>2. \A c \in Campaigns : campaign[c].node \in Nodes
  <2>1. \A c \in Campaigns : campaign[c] \in Campaign
    BY DEF TermInv, ShapeInv, Campaigns
  <2> QED BY <2>1 DEF Campaign
<1>3. \A c \in Campaigns : \A p \in Peers(c) :
        /\ p \in Nodes /\ call[c][p] \in Call
        /\ call[c][p].term \in Nat /\ call[c][p].term <= highest + Len(campaign)
        /\ call[c][p].reply \in Nat /\ call[c][p].reply <= highest + Len(campaign)
  BY DEF TermInv, ShapeInv, EarnedInv, Peers, Call
<1>4. CASE UNCHANGED raftVars
  BY <1>1, <1>4, NothingEarned DEF raftVars
<1>5. ASSUME NEW n \in Nodes, ClockAsserts(n) PROVE TermInv'
  BY <1>1, <1>5, NothingEarned DEF ClockAsserts
<1>6. ASSUME NEW n \in Nodes, Timeout(n) PROVE TermInv'
  BY <1>1, <1>6, NothingEarned DEF Timeout
<1>7. ASSUME NEW n \in Nodes, Begin(n) PROVE TermInv'
  BY <1>7, BeginKeeps
<1>8. ASSUME NEW c \in Campaigns, Dangling(c) PROVE TermInv'
  BY <1>1, <1>8, NothingEarned DEF Dangling
<1>9. ASSUME NEW c \in Campaigns, NEW p \in Peers(c), SendVote(c, p) PROVE TermInv'
  <2> DEFINE x == [at |-> "sent", term |-> term[campaign[c].node], reply |-> 0,
                   granted |-> FALSE]
  <2>1. x \in Call /\ x.term <= highest + Len(campaign) /\ x.reply <= highest + Len(campaign)
    BY <1>1, <1>2 DEF Call, CallStates
  <2>2. call' = [call EXCEPT ![c][p] = x]
    BY <1>9 DEF SendVote
  <2>3. UNCHANGED <<term, timer, campaign, highest>>
    BY <1>9 DEF SendVote
  <2>4. campaign' \in Seq(Campaign)
    BY <2>3 DEF TermInv, ShapeInv
  <2> HIDE DEF x
  <2> QED BY <1>1, <2>1, <2>2, <2>3, <2>4, CallChanges
<1>10. ASSUME NEW c \in Campaigns, NEW p \in Peers(c), Fail(c, p) PROVE TermInv'
  BY <1>1, <1>10, MoveKeeps DEF Fail, CallStates
<1>11. ASSUME NEW c \in Campaigns, NEW p \in Peers(c), Return(c, p) PROVE TermInv'
  BY <1>1, <1>11, MoveKeeps DEF Return, CallStates
<1>12. ASSUME NEW c \in Campaigns, NEW p \in Peers(c), TakeReply(c, p) PROVE TermInv'
  <2>1. UNCHANGED <<term, timer, highest>>
    BY <1>12 DEF TakeReply
  <2>2. CASE Move(c, p, "adopting") /\ UNCHANGED campaign
    BY <1>1, <2>1, <2>2, MoveKeeps DEF CallStates
  <2>3. CASE Move(c, p, "counted") /\ CountVote(c, p)
    BY <1>1, <2>1, <2>3, MoveKeeps DEF CallStates
  <2> QED BY <1>12, <2>2, <2>3 DEF TakeReply
<1>13. ASSUME NEW c \in Campaigns, NEW p \in Peers(c), AdoptTerm(c, p) PROVE TermInv'
  <2>1. UNCHANGED <<term, timer, campaign, highest>>
    BY <1>13 DEF AdoptTerm
  <2>2. CASE Move(c, p, "storing")
    BY <1>1, <2>1, <2>2, MoveKeeps DEF CallStates
  <2>3. CASE UNCHANGED call
    BY <1>1, <2>1, <2>3, NothingEarned
  <2> QED BY <1>13, <2>2, <2>3 DEF AdoptTerm
<1>14. ASSUME NEW c \in Campaigns, NEW p \in Peers(c), StoreReplyTerm(c, p) PROVE TermInv'
  <2>1. /\ UNCHANGED <<timer, highest>> /\ CountVote(c, p) /\ Move(c, p, "counted")
        /\ term' = [term EXCEPT ![campaign[c].node] = call[c][p].reply]
    BY <1>14 DEF StoreReplyTerm
  <2>2. /\ term' \in [Nodes -> Nat]
        /\ \A n \in Nodes : term'[n] <= highest + Len(campaign)
    BY <1>1, <1>2, <1>3, <2>1
  <2> QED BY <2>1, <2>2, MoveKeeps DEF CallStates
<1>15. ASSUME NEW c \in Campaigns, NEW p \in Peers(c), Handle(c, p) PROVE TermInv'
  <2>1. UNCHANGED <<term, timer, campaign, highest>>
    BY <1>15 DEF Handle
  <2>2. CASE Move(c, p, "older") \/ Move(c, p, "compared")
    BY <1>1, <2>1, <2>2, MoveKeeps DEF CallStates
  <2> QED BY <1>15, <2>2 DEF Handle
<1>18. ASSUME NEW c \in Campaigns, NEW p \in Peers(c), Refuse(c, p) PROVE TermInv'
  <2>1. UNCHANGED <<term, timer, campaign, highest>> /\ Answer(c, p, term[p], FALSE)
    BY <1>18 DEF Refuse
  <2> QED BY <1>1, <1>3, <2>1, AnswerKeeps
<1>19. ASSUME NEW c \in Campaigns, NEW p \in Peers(c), CompareAgain(c, p) PROVE TermInv'
  <2>1. UNCHANGED <<term, timer, campaign, highest>>
    BY <1>19 DEF CompareAgain
  <2>3. CASE Answer(c, p, 0, FALSE)
    <3>1. 0 <= highest + Len(campaign)
      BY <1>1
    <3> QED BY <1>1, <2>1, <2>3, <3>1, AnswerKeeps
  <2>4. CASE Move(c, p, "newer") \/ Move(c, p, "failed")
    BY <1>1, <2>1, <2>4, MoveKeeps DEF CallStates
  <2>5. CASE UNCHANGED call
    BY <1>1, <2>1, <2>5, NothingEarned
  <2> QED BY <1>19, <2>3, <2>4, <2>5 DEF CompareAgain
<1>16. ASSUME NEW c \in Campaigns, NEW p \in Peers(c), Raise(c, p) PROVE TermInv'
  <2>1. UNCHANGED <<term, timer, campaign, highest>>
    BY <1>16 DEF Raise
  <2>2. CASE Move(c, p, "raising")
    BY <1>1, <2>1, <2>2, MoveKeeps DEF CallStates
  <2>3. CASE UNCHANGED call
    BY <1>1, <2>1, <2>3, NothingEarned
  <2> QED BY <1>16, <2>2, <2>3 DEF Raise
<1>17. ASSUME NEW c \in Campaigns, NEW p \in Peers(c), StoreTerm(c, p) PROVE TermInv'
  <2>1. /\ UNCHANGED <<timer, campaign, highest>> /\ Answer(c, p, 0, FALSE)
        /\ term' = [term EXCEPT ![p] = call[c][p].term]
    BY <1>17 DEF StoreTerm
  <2>2. /\ term' \in [Nodes -> Nat]
        /\ \A n \in Nodes : term'[n] <= highest + Len(campaign)
    BY <1>1, <1>3, <2>1
  <2>3. 0 <= highest + Len(campaign)
    BY <1>1
  <2> QED BY <2>1, <2>2, <2>3, AnswerKeeps
<1> QED BY <1>4, <1>5, <1>6, <1>7, <1>8, <1>9, <1>10, <1>11, <1>12, <1>13, <1>14, <1>15,
           <1>16, <1>17, <1>18, <1>19 DEF RaftNext

\* Terms come from campaigns only, for any number of nodes: increments of the timer
\* callback and stores of replies and handlers race without a lock, and may lower a term,
\* but none passes the highest initial term by more than the campaigns begun.
THEOREM TermsCorrect == RaftSpec => []TermsAreEarned
<1>1. TermInv => TermsAreEarned
  BY DEF TermInv, EarnedInv, TermsAreEarned
<1> QED BY InitHolds, NextKeeps, <1>1, PTL DEF RaftSpec

-----------------------------------------------------------------------------
(* Redis: numbers and recursion.  An induction is over a set of numbers.   *)

\* Natural numbers: a set of them has a least one.
LEMMA LeastOne ==
  ASSUME NEW T, T \subseteq Nat, T # {}
  PROVE  \E x \in T : \A y \in T : x <= y
<1> DEFINE Less == {ss \in Nat \X Nat : ss[1] < ss[2]}
<1>1. IsWellFoundedOn(Less, Nat)
  BY NatLessThanWellFounded, Zenon DEF OpToRel
<1>2. PICK x \in T : \A y \in T : ~ (<<y, x>> \in Less)
  BY <1>1, WFMin
<1>3. ASSUME NEW y \in T PROVE x <= y
  <2>1. x \in Nat /\ y \in Nat
    OBVIOUS
  <2>2. CASE y < x
    <3>1. <<y, x>> \in Nat \X Nat /\ <<y, x>>[1] = y /\ <<y, x>>[2] = x
      BY <2>1
    <3>2. <<y, x>> \in Less
      BY <2>2, <3>1, Zenon
    <3> QED BY <1>2, <3>2, Zenon
  <2> QED BY <2>1, <2>2
<1> QED BY <1>3

\* Induction over 0 .. n, for a property given as the set of what has it.
LEMMA Upward ==
  ASSUME NEW n \in Nat, NEW Has, 0 \in Has, \A k \in 1..n : k - 1 \in Has => k \in Has
  PROVE  0..n \subseteq Has
<1> DEFINE Rest == {k \in 0..n : k \notin Has}
<1>1. ASSUME Rest # {} PROVE FALSE
  <2>1. Rest \subseteq Nat
    OBVIOUS
  <2> HIDE DEF Rest
  <2>2. PICK x \in Rest : \A y \in Rest : x <= y
    BY <1>1, <2>1, LeastOne
  <2>3. x \in 0..n /\ x \notin Has
    BY DEF Rest
  <2>4. x \in 1..n
    BY <2>3
  <2>5. x - 1 \in Has
    BY <2>2, <2>4 DEF Rest
  <2> QED BY <2>3, <2>4, <2>5
<1> QED BY <1>1

\* f is the recursion over 0 .. n that begins with start and whose k-th turn is turn[k].
Recursion(f, n, start, turn) ==
  f = [k \in 0..n |-> IF k = 0 THEN start ELSE turn[k][f[k - 1]]]

\* There is one.
LEMMA Iteration ==
  ASSUME NEW n \in Nat, NEW V, NEW start \in V, NEW turn \in [1..n -> [V -> V]]
  PROVE  \E f \in [0..n -> V] : Recursion(f, n, start, turn)
<1> DEFINE Solves(f, m) == \A k \in 0..m : f[k] = IF k = 0 THEN start ELSE turn[k][f[k - 1]]
           Solvable == {m \in 0..n : \E f \in [0..m -> V] : Solves(f, m)}
<1>1. 0 \in Solvable
  <2> DEFINE f == [k \in 0..0 |-> start]
  <2>1. f \in [0..0 -> V] /\ Solves(f, 0)
    OBVIOUS
  <2> HIDE DEF f, Solves
  <2>2. \E g \in [0..0 -> V] : Solves(g, 0)
    BY <2>1
  <2> QED BY <2>2
<1>2. ASSUME NEW m \in 1..n, m - 1 \in Solvable PROVE m \in Solvable
  <2>1. PICK g \in [0..(m - 1) -> V] : Solves(g, m - 1)
    BY <1>2
  <2> DEFINE f == [k \in 0..m |-> IF k = m THEN turn[m][g[m - 1]] ELSE g[k]]
  <2>2. f \in [0..m -> V]
    OBVIOUS
  <2>3. Solves(f, m)
    BY <2>1
  <2> HIDE DEF f, Solves
  <2>4. \E h \in [0..m -> V] : Solves(h, m)
    BY <2>2, <2>3
  <2> QED BY <2>4
<1>3. n \in Solvable
  <2> HIDE DEF Solvable
  <2>1. \A k \in 1..n : k - 1 \in Solvable => k \in Solvable
    BY <1>2
  <2>2. 0..n \subseteq Solvable
    BY <1>1, <2>1, Upward
  <2> QED BY <2>2
<1>4. PICK f \in [0..n -> V] : Solves(f, n)
  BY <1>3
<1>5. Recursion(f, n, start, turn)
  BY <1>4 DEF Recursion
<1> QED BY <1>5

\* A part of a sequence.
LEMMA PartIs ==
  ASSUME NEW S, NEW s \in Seq(S), NEW at \in Nat, NEW len \in Nat, at + len <= Len(s)
  PROVE  /\ SubSeq(s, at + 1, at + len) \in Seq(S)
         /\ Len(SubSeq(s, at + 1, at + len)) = len
         /\ \A j \in 1..len : SubSeq(s, at + 1, at + len)[j] = s[at + j]
<1>1. PICK m \in Int, n \in Int : m = at + 1 /\ n = at + len
  OBVIOUS
<1>2. \A j \in m..n : s[j] \in S
  BY <1>1
<1>3. /\ SubSeq(s, m, n) \in Seq(S)
      /\ Len(SubSeq(s, m, n)) = IF m <= n THEN n - m + 1 ELSE 0
      /\ \A j \in 1..(n - m + 1) : SubSeq(s, m, n)[j] = s[m + j - 1]
  BY <1>2, SubSeqProperties
<1>4. SubSeq(s, at + 1, at + len) = SubSeq(s, m, n)
  BY <1>1, Zenon
<1>5. n - m + 1 = len /\ (IF m <= n THEN n - m + 1 ELSE 0) = len
      /\ \A j \in 1..len : m + j - 1 = at + j
  BY <1>1
<1> QED BY <1>3, <1>4, <1>5

-----------------------------------------------------------------------------
(* Redis: the views a scan returns lie in the read, or it was cut.         *)

\* A digit more keeps the value an integer.
LEMMA ShiftType ==
  ASSUME NEW v \in Int, NEW b, IsDigit(b), NEW negative \in BOOLEAN
  PROVE  Shift(v, Figure(b), negative) \in Int
<1>1. Figure(b) \in Int
  BY DEF Figure, IsDigit, Digits
<1>2. PICK d \in Int : d = Figure(b)
  BY <1>1
<1>3. 10 * v + d \in Int /\ TooBig \in Int
  BY DEF TooBig
<1> QED BY <1>2, <1>3 DEF Shift

\* The values of the first k of n digits, for every k.
IsValues(bytes, from, n, negative, f) ==
  /\ f[0] = 0
  /\ \A k \in 1..n : f[k] = Shift(f[k - 1], Figure(bytes[from + k - 1]), negative)

\* Value is the last of them.
LEMMA ValueFacts ==
  ASSUME NEW bytes, NEW from \in Nat, NEW n \in Nat, NEW negative \in BOOLEAN,
         \A j \in from..(from + n - 1) : IsDigit(bytes[j])
  PROVE  \E f \in [0..n -> Int] :
           IsValues(bytes, from, n, negative, f) /\ Value(bytes, from, n, negative) = f[n]
<1> DEFINE Longer(v, k) == Shift(v, Figure(bytes[from + k - 1]), negative)
           Solves(f) == f = [k \in 0..n |-> IF k = 0 THEN 0 ELSE Longer(f[k - 1], k)]
           val == CHOOSE g : Solves(g)
<1>1. ASSUME NEW v \in Int, NEW k \in 1..n PROVE Longer(v, k) \in Int
  <2>1. from + k - 1 \in from..(from + n - 1)
    OBVIOUS
  <2> QED BY <2>1, ShiftType
<1>2. Value(bytes, from, n, negative) = val[n]
  BY DEF Value
<1>3. ASSUME NEW f, f[0] = 0, \A k \in 1..n : f[k] = Longer(f[k - 1], k)
      PROVE  IsValues(bytes, from, n, negative, f)
  BY <1>3 DEF IsValues
<1> HIDE DEF Longer, val
<1> DEFINE start == 0
           turn == [k \in 1..n |-> [v \in Int |-> Longer(v, k)]]
<1>4. turn \in [1..n -> [Int -> Int]]
  BY <1>1
<1>5. PICK f \in [0..n -> Int] : Recursion(f, n, start, turn)
  <2>1. start \in Int
    OBVIOUS
  <2> HIDE DEF start, turn
  <2>2. \E f \in [0..n -> Int] : Recursion(f, n, start, turn)
    BY <1>4, <2>1, Iteration
  <2> QED BY <2>2
<1>6. f = [k \in 0..n |-> IF k = 0 THEN start ELSE turn[k][f[k - 1]]]
  <2> HIDE DEF start, turn
  <2> QED BY <1>5 DEF Recursion
<1>7. Solves(f)
  <2>1. ASSUME NEW k \in 1..n PROVE turn[k][f[k - 1]] = Longer(f[k - 1], k)
    OBVIOUS
  <2> HIDE DEF turn
  <2> QED BY <1>6, <2>1
<1> HIDE DEF Solves
<1>8. Solves(val)
  BY <1>7 DEF val
<1>9. val[0] = 0 /\ \A k \in 1..n : val[k] = Longer(val[k - 1], k)
  <2> DEFINE r == [k \in 0..n |-> IF k = 0 THEN 0 ELSE Longer(val[k - 1], k)]
  <2>1. r[0] = 0 /\ \A k \in 1..n : r[k] = Longer(val[k - 1], k)
    OBVIOUS
  <2>2. val = r
    BY <1>8 DEF Solves
  <2> HIDE DEF r
  <2> QED BY <2>1, <2>2
<1> DEFINE Typed == {k \in 0..n : val[k] \in Int}
<1>10. 0 \in Typed /\ \A k \in 1..n : k - 1 \in Typed => k \in Typed
  <2>1. 0 \in Typed
    BY <1>9
  <2>2. ASSUME NEW k \in 1..n, k - 1 \in Typed PROVE k \in Typed
    <3>1. val[k - 1] \in Int /\ k \in 0..n
      BY <2>2
    <3>2. Longer(val[k - 1], k) \in Int
      BY <1>1, <3>1
    <3> QED BY <1>9, <3>1, <3>2
  <2> QED BY <2>1, <2>2
<1>11. 0..n \subseteq Typed
  <2> HIDE DEF Typed
  <2> QED BY <1>10, Upward
<1>12. val = [k \in 0..n |-> val[k]]
  BY <1>8 DEF Solves
<1>13. val \in [0..n -> Int]
  BY <1>11, <1>12
<1> QED BY <1>2, <1>3, <1>9, <1>13

\* e is the first byte of from .. to that is no digit, or to + 1.
IsDigitsEnd(bytes, from, to, e) ==
  /\ e \in from..(to + 1) /\ (e = to + 1 \/ ~IsDigit(bytes[e]))
  /\ \A j \in from..(e - 1) : j <= to /\ IsDigit(bytes[j])

\* The digits end somewhere.
LEMMA DigitsEndFound ==
  ASSUME NEW bytes, NEW from \in Nat, NEW to \in Int, from <= to + 1
  PROVE  IsDigitsEnd(bytes, from, to, DigitsEnd(bytes, from, to))
<1> DEFINE stops == {j \in from..(to + 1) : j = to + 1 \/ ~IsDigit(bytes[j])}
<1>1. stops \subseteq Nat /\ stops # {}
  <2>1. to + 1 \in stops
    OBVIOUS
  <2> QED BY <2>1
<1>2. PICK e : e = DigitsEnd(bytes, from, to)
  OBVIOUS
<1>3. e = CHOOSE j \in stops : \A h \in stops : j <= h
  BY <1>2 DEF DigitsEnd
<1>4. e \in stops /\ \A h \in stops : e <= h
  <2> HIDE DEF stops
  <2> QED BY <1>1, <1>3, LeastOne, Zenon
<1>5. ASSUME NEW j \in from..(e - 1) PROVE j <= to /\ IsDigit(bytes[j])
  <2>1. j \in from..(to + 1) /\ j < e
    BY <1>4
  <2>2. j \notin stops
    BY <1>4, <2>1
  <2> QED BY <2>1, <2>2
<1> QED BY <1>2, <1>4, <1>5 DEF IsDigitsEnd

\* There is one such place.
LEMMA OneDigitsEnd ==
  ASSUME NEW bytes, NEW from \in Nat, NEW to \in Int, NEW d, NEW e,
         IsDigitsEnd(bytes, from, to, d), IsDigitsEnd(bytes, from, to, e)
  PROVE  d = e
<1>1. d \in Int /\ e \in Int
  BY DEF IsDigitsEnd
<1>2. CASE d < e
  BY <1>1, <1>2 DEF IsDigitsEnd
<1>3. CASE e < d
  BY <1>1, <1>3 DEF IsDigitsEnd
<1> QED BY <1>1, <1>2, <1>3

\* A length or count that is read is an integer.
LEMMA NumberType ==
  ASSUME NEW bytes, NEW from \in Nat, NEW to \in Int, from <= to + 1
  PROVE  Number(bytes, from, to) \in Int
<1> DEFINE negative == from <= to /\ bytes[from] = "-"
           start == IF negative THEN from + 1 ELSE from
           n == DigitsEnd(bytes, start, to) - start
           value == Value(bytes, start, n, negative)
<1>1. negative \in BOOLEAN /\ start \in Nat /\ start <= to + 1
  OBVIOUS
<1>2. Number(bytes, from, to)
        = IF value = TooBig THEN 0 ELSE IF negative THEN 0 - value ELSE value
  BY DEF Number
<1> HIDE DEF negative, start
<1>3. IsDigitsEnd(bytes, start, to, DigitsEnd(bytes, start, to))
  BY <1>1, DigitsEndFound
<1>4. n \in Nat /\ \A j \in start..(start + n - 1) : IsDigit(bytes[j])
  BY <1>1, <1>3 DEF IsDigitsEnd
<1> HIDE DEF n
<1>5. value \in Int
  <2>1. \E f \in [0..n -> Int] : Value(bytes, start, n, negative) = f[n]
    BY <1>1, <1>4, ValueFacts
  <2> QED BY <1>4, <2>1
<1> QED BY <1>2, <1>5

\* It depends on its own bytes only.
LEMMA NumberLocal ==
  ASSUME NEW b, NEW c, NEW from \in Nat, NEW to \in Nat, from <= to,
         \A j \in from..to : b[j] = c[j]
  PROVE  Number(b, from, to) = Number(c, from, to)
<1> DEFINE negative == from <= to /\ b[from] = "-"
           start == IF negative THEN from + 1 ELSE from
           Stop(x) == DigitsEnd(x, start, to)
           value(x) == Value(x, start, Stop(x) - start, negative)
<1>1. b[from] = c[from]
  OBVIOUS
<1>2. /\ Number(b, from, to)
           = IF value(b) = TooBig THEN 0 ELSE IF negative THEN 0 - value(b) ELSE value(b)
      /\ Number(c, from, to)
           = IF value(c) = TooBig THEN 0 ELSE IF negative THEN 0 - value(c) ELSE value(c)
  BY <1>1 DEF Number
<1>3. negative \in BOOLEAN /\ start \in Nat /\ start <= to + 1 /\ start >= from
  OBVIOUS
<1> HIDE DEF negative, start
<1>4. IsDigitsEnd(b, start, to, Stop(b)) /\ IsDigitsEnd(c, start, to, Stop(c))
  BY <1>3, DigitsEndFound
<1>5. \A j \in start..to : b[j] = c[j]
  BY <1>3
<1> HIDE DEF Stop
<1>6. IsDigitsEnd(c, start, to, Stop(b))
  <2>1. Stop(b) = to + 1 \/ ~IsDigit(c[Stop(b)])
    BY <1>3, <1>4, <1>5 DEF IsDigitsEnd
  <2>2. ASSUME NEW j \in start..(Stop(b) - 1) PROVE j <= to /\ IsDigit(c[j])
    BY <1>3, <1>4, <1>5 DEF IsDigitsEnd
  <2> QED BY <1>4, <2>1, <2>2 DEF IsDigitsEnd
<1>7. Stop(b) = Stop(c)
  BY <1>3, <1>4, <1>6, OneDigitsEnd
<1>8. PICK n \in Nat : n = Stop(b) - start /\ start + n - 1 <= to
                      /\ \A j \in start..(start + n - 1) : IsDigit(b[j]) /\ IsDigit(c[j])
  BY <1>3, <1>4, <1>6 DEF IsDigitsEnd
<1>9. PICK f \in [0..n -> Int] :
        IsValues(b, start, n, negative, f) /\ Value(b, start, n, negative) = f[n]
  BY <1>3, <1>8, ValueFacts
<1>10. PICK g \in [0..n -> Int] :
         IsValues(c, start, n, negative, g) /\ Value(c, start, n, negative) = g[n]
  BY <1>3, <1>8, ValueFacts
<1> DEFINE Has == {k \in 0..n : f[k] = g[k]}
<1>11. 0 \in Has
  BY <1>9, <1>10 DEF IsValues
<1>12. ASSUME NEW k \in 1..n, k - 1 \in Has PROVE k \in Has
  <2>1. start + k - 1 \in start..to
    BY <1>3, <1>8
  <2>2. b[start + k - 1] = c[start + k - 1]
    BY <1>5, <2>1
  <2>3. /\ f[k] = Shift(f[k - 1], Figure(b[start + k - 1]), negative)
        /\ g[k] = Shift(g[k - 1], Figure(c[start + k - 1]), negative)
    BY <1>9, <1>10 DEF IsValues
  <2> QED BY <1>12, <2>2, <2>3
<1>13. n \in Has
  <2> HIDE DEF Has
  <2>1. \A k \in 1..n : k - 1 \in Has => k \in Has
    BY <1>12
  <2>2. 0..n \subseteq Has
    BY <1>11, <2>1, Upward
  <2> QED BY <2>2
<1>14. value(b) = value(c)
  BY <1>7, <1>8, <1>9, <1>10, <1>13
<1> QED BY <1>2, <1>14

\* e is the first end of line of the first size bytes, from byte "from" on.
IsLineEnd(bytes, size, from, e) ==
  /\ e \in from..(size - 1) /\ bytes[e] = "r" /\ bytes[e + 1] = "n"
  /\ \A j \in from..(size - 1) : bytes[j] = "r" /\ bytes[j + 1] = "n" => e <= j

\* find gives the first end of line from its start on.
LEMMA LineEndFound ==
  ASSUME NEW bytes, NEW size \in Nat, NEW from \in Nat \ {0}, NEW e,
         e = LineEnd(bytes, size, from), e # 0
  PROVE  IsLineEnd(bytes, size, from, e)
<1> DEFINE hits == {j \in from..(size - 1) : bytes[j] = "r" /\ bytes[j + 1] = "n"}
<1>1. CASE hits = {}
  BY <1>1 DEF LineEnd
<1>2. CASE hits # {}
  <2>1. hits \subseteq Nat
    OBVIOUS
  <2>2. e = CHOOSE j \in hits : \A h \in hits : j <= h
    BY <1>2 DEF LineEnd
  <2> HIDE DEF hits
  <2>3. e \in hits /\ \A h \in hits : e <= h
    BY <1>2, <2>1, <2>2, LeastOne, Zenon
  <2> QED BY <2>3 DEF hits, IsLineEnd
<1> QED BY <1>1, <1>2

\* find does not miss an end of line.
LEMMA LineEndExists ==
  ASSUME NEW bytes, NEW size \in Nat, NEW from \in Nat \ {0},
         NEW hit \in from..(size - 1), bytes[hit] = "r", bytes[hit + 1] = "n"
  PROVE  LineEnd(bytes, size, from) # 0
<1> DEFINE hits == {j \in from..(size - 1) : bytes[j] = "r" /\ bytes[j + 1] = "n"}
<1>1. hits # {} /\ hits \subseteq Nat \ {0}
  <2>1. hit \in hits
    OBVIOUS
  <2>2. hits \subseteq Nat \ {0}
    OBVIOUS
  <2> QED BY <2>1, <2>2
<1>2. LineEnd(bytes, size, from) = CHOOSE j \in hits : \A h \in hits : j <= h
  BY <1>1 DEF LineEnd
<1> HIDE DEF hits
<1>3. \E j \in hits : \A h \in hits : j <= h
  BY <1>1, LeastOne
<1>4. LineEnd(bytes, size, from) \in hits
  BY <1>2, <1>3, Zenon
<1> QED BY <1>1, <1>4

\* What the loop may add: the view of the word Error, a view of bytes that were read, or
\* that of a bulk string's text, which may reach further.
GoodViews(bytes, size) ==
  {v \in [at : Int, len : Int] :
     \/ v = Error
     \/ v.at >= 2 /\ v.at + v.len - 1 <= size /\ v.at <= size + 1
     \/ \E j \in 1..size : LET e == LineEnd(bytes, size, j)
                           IN bytes[j] = "$" /\ e # 0 /\ v = View(e + 2, Number(bytes, j + 1, e))}

\* Where the loop may be.
LoopStates(bytes, size) == [i : Nat \ {0}, result : Seq(GoodViews(bytes, size))]

\* A turn adds good views only.
LEMMA TurnType ==
  ASSUME NEW bytes, NEW size \in Nat, NEW loop \in LoopStates(bytes, size)
  PROVE  Turn(bytes, size, loop) \in LoopStates(bytes, size)
<1> DEFINE G == GoodViews(bytes, size)
<1>1. loop.i \in Nat \ {0} /\ loop.result \in Seq(G)
  BY DEF LoopStates
<1>2. ASSUME NEW v \in G, NEW next \in Nat \ {0}
      PROVE  [i |-> next, result |-> Append(loop.result, v)] \in LoopStates(bytes, size)
  <2>1. Append(loop.result, v) \in Seq(G)
    BY <1>1, <1>2
  <2> QED BY <2>1 DEF LoopStates
<1> DEFINE i == loop.i
           e == LineEnd(bytes, size, IF bytes[i] = "*" THEN 1 ELSE i)
           number == Number(bytes, i + 1, e)
<1>3. CASE i > size
  BY <1>3 DEF Turn
<1>4. CASE i <= size /\ bytes[i] \notin TypeBytes
  <2>1. [i |-> i + 1, result |-> loop.result] \in LoopStates(bytes, size)
    BY <1>1 DEF LoopStates
  <2> QED BY <1>1, <1>4, <2>1 DEF Turn
<1>5. CASE i <= size /\ bytes[i] \in TypeBytes /\ e = 0
  <2>1. Error \in G
    BY DEF Error, View, GoodViews
  <2>2. [i |-> size + 1, result |-> Append(loop.result, Error)] \in LoopStates(bytes, size)
    BY <1>2, <2>1
  <2> QED BY <1>1, <1>5, <2>2 DEF Turn
<1>6. CASE i <= size /\ bytes[i] \in TypeBytes /\ e # 0
  <2>1. e \in 1..(size - 1) /\ (bytes[i] # "*" => e >= i)
    <3>1. PICK from \in Nat \ {0} : from = IF bytes[i] = "*" THEN 1 ELSE i
      BY <1>1
    <3>2. IsLineEnd(bytes, size, from, e)
      BY <1>6, <3>1, LineEndFound
    <3> QED BY <3>1, <3>2 DEF IsLineEnd
  <2>3. CASE bytes[i] = "$"
    <3>0. number \in Int
      <4>1. e >= i + 1
        <5>1. bytes[e] = "r"
          BY <1>1, <1>6, <2>3, LineEndFound DEF IsLineEnd
        <5> QED BY <1>1, <2>1, <2>3, <5>1
      <4> HIDE DEF e, i
      <4>2. i + 1 \in Nat /\ e \in Int /\ i + 1 <= e + 1
        BY <1>1, <2>1, <4>1 DEF i
      <4> QED BY <4>2, NumberType
    <3> HIDE DEF number
    <3>1. View(e + 2, number) \in G
      <4>1. View(e + 2, number) \in [at : Int, len : Int]
        BY <2>1, <3>0 DEF View
      <4>2. i \in 1..size /\ e = LineEnd(bytes, size, i)
        BY <1>1, <1>6, <2>3
      <4> QED BY <4>1, <4>2, <1>6, <2>3 DEF GoodViews, number
    <3>2. PICK next \in Nat \ {0} :
            next = IF AfterBulk(e, number) < 1 THEN size + 1 ELSE AfterBulk(e, number)
      <4>1. AfterBulk(e, number) \in Int
        BY <2>1, <3>0 DEF AfterBulk
      <4> QED BY <4>1
    <3>3. Turn(bytes, size, loop)
            = [i |-> next, result |-> Append(loop.result, View(e + 2, number))]
      BY <1>1, <1>6, <2>3, <3>2 DEF Turn, number
    <3> QED BY <3>1, <3>3, <1>2
  <2>4. CASE bytes[i] = "*"
    <3>1. View(i + 1, e - i - 1) \in G
      BY <1>1, <1>6, <2>1 DEF View, GoodViews
    <3>2. e + 2 \in Nat \ {0} /\ ~(e + 2 < 1)
      BY <2>1
    <3>3. Turn(bytes, size, loop)
            = [i |-> e + 2, result |-> Append(loop.result, View(i + 1, e - i - 1))]
      BY <1>1, <1>6, <2>4, <3>2 DEF Turn
    <3> QED BY <3>1, <3>2, <3>3, <1>2
  <2>5. CASE bytes[i] # "$" /\ bytes[i] # "*"
    <3>1. View(i + 1, e - i) \in G
      BY <1>1, <1>6, <2>1, <2>5 DEF View, GoodViews
    <3>2. e + 2 \in Nat \ {0} /\ ~(e + 2 < 1)
      BY <2>1
    <3>3. Turn(bytes, size, loop)
            = [i |-> e + 2, result |-> Append(loop.result, View(i + 1, e - i))]
      BY <1>1, <1>6, <2>5, <3>2 DEF Turn
    <3> QED BY <3>1, <3>2, <3>3, <1>2
  <2> QED BY <2>3, <2>4, <2>5
<1> QED BY <1>1, <1>3, <1>4, <1>5, <1>6

\* The loop exists, as the recursion its definition asks for.
LEMMA LoopFacts ==
  ASSUME NEW bytes, NEW size \in Nat, NEW l, l = Turns(bytes, size)
  PROVE  /\ l \in [0..size -> LoopStates(bytes, size)]
         /\ l[0] = [i |-> 1, result |-> <<>>]
         /\ \A k \in 1..size : l[k] = Turn(bytes, size, l[k - 1])
<1> DEFINE V == LoopStates(bytes, size)
           start == [i |-> 1, result |-> <<>>]
           turn == [k \in 1..size |-> [loop \in V |-> Turn(bytes, size, loop)]]
           Solves(f) == f = [k \in 0..size |-> IF k = 0 THEN start
                                               ELSE Turn(bytes, size, f[k - 1])]
<1>1. start \in V
  BY EmptySeq DEF LoopStates
<1>2. turn \in [1..size -> [V -> V]]
  BY TurnType
<1>3. PICK f \in [0..size -> V] : Recursion(f, size, start, turn)
  <2> HIDE DEF V, start, turn
  <2>1. \E f \in [0..size -> V] : Recursion(f, size, start, turn)
    BY <1>1, <1>2, Iteration
  <2> QED BY <2>1
<1>4. f = [k \in 0..size |-> IF k = 0 THEN start ELSE turn[k][f[k - 1]]]
  <2> HIDE DEF V, start, turn
  <2> QED BY <1>3 DEF Recursion
<1>5. Solves(f)
  <2>1. ASSUME NEW k \in 1..size PROVE turn[k][f[k - 1]] = Turn(bytes, size, f[k - 1])
    OBVIOUS
  <2> HIDE DEF turn, start, V
  <2>2. ASSUME NEW k \in 0..size
        PROVE  (IF k = 0 THEN start ELSE turn[k][f[k - 1]])
                 = (IF k = 0 THEN start ELSE Turn(bytes, size, f[k - 1]))
    <3>1. CASE k = 0
      BY <3>1
    <3>2. CASE k # 0
      <4>1. k \in 1..size
        BY <3>2
      <4> QED BY <2>1, <3>2, <4>1
    <3> QED BY <3>1, <3>2
  <2>3. [k \in 0..size |-> IF k = 0 THEN start ELSE turn[k][f[k - 1]]]
          = [k \in 0..size |-> IF k = 0 THEN start ELSE Turn(bytes, size, f[k - 1])]
    BY <2>2, Zenon
  <2> QED BY <1>4, <2>3, Zenon
<1>6. l = CHOOSE g : Solves(g)
  BY DEF Turns
<1> HIDE DEF Solves
<1>7. Solves(l)
  BY <1>5, <1>6
<1> DEFINE Typed == {k \in 0..size : l[k] \in V}
<1>8. l[0] = start /\ \A k \in 1..size : l[k] = Turn(bytes, size, l[k - 1])
  <2> HIDE DEF start
  <2> DEFINE r == [k \in 0..size |-> IF k = 0 THEN start ELSE Turn(bytes, size, l[k - 1])]
  <2>1. r[0] = start /\ \A k \in 1..size : r[k] = Turn(bytes, size, l[k - 1])
    OBVIOUS
  <2>2. l = r
    BY <1>7 DEF Solves
  <2> HIDE DEF r
  <2> QED BY <2>1, <2>2
<1>9. 0 \in Typed /\ \A k \in 1..size : k - 1 \in Typed => k \in Typed
  BY <1>1, <1>8, TurnType
<1>10. 0..size \subseteq Typed
  <2> HIDE DEF Typed
  <2> QED BY <1>9, Upward
<1>11. l = [k \in 0..size |-> l[k]]
  <2> HIDE DEF start
  <2> QED BY <1>7 DEF Solves
<1> QED BY <1>8, <1>10, <1>11

\* The scan returns good views, unless it does not return.
LEMMA ScanViews ==
  ASSUME NEW bytes, NEW size \in Nat
  PROVE  \/ Scan(bytes, size) = <<Endless>>
         \/ Scan(bytes, size) \in Seq(GoodViews(bytes, size))
<1>1. PICK l : l = Turns(bytes, size)
  OBVIOUS
<1>2. l[size] \in LoopStates(bytes, size)
  BY <1>1, LoopFacts
<1>3. l[size].result \in Seq(GoodViews(bytes, size))
  BY <1>2 DEF LoopStates
<1> QED BY <1>1, <1>3 DEF Scan

\* What parse returns: views of its request.
ParseResult(b, size, views) ==
  \/ views = <<Ping>> \/ views = <<Endless>>
  \/ views \in Seq(GoodViews(b, size))

\* So does parseRedisProtocol.
LEMMA ParseViews ==
  ASSUME NEW bytes, NEW size \in Nat
  PROVE  ParseResult(bytes, size, Parse(bytes, size))
BY ScanViews DEF Parse, ParseResult

\* A reply of two parts is an error that shows the second view.
LEMMA TwoPartReply ==
  ASSUME NEW b, NEW size \in Nat \ {0}, NEW views, views = Parse(b, Trimmed(b, size)),
         Len(Execute(b, size).reply) = 2
  PROVE  /\ views \in Seq(GoodViews(b, Trimmed(b, size)))
         /\ Len(views) >= 2 /\ Inside(b, views[2])
         /\ Execute(b, size).reply[2] = Text(b, views[2])
<1>1. Trimmed(b, size) \in Nat
  BY DEF Trimmed
<1>2. ParseResult(b, Trimmed(b, size), views)
  BY <1>1, ParseViews
<1>3. \A end : /\ Len(Reply(<<"OK">>, end).reply) = 1
               /\ Len(Reply(<<"PONG">>, end).reply) = 1
               /\ Len(Reply(<<"error">>, end).reply) = 1
               /\ Len(Reply(<<>>, end).reply) = 0
  BY DEF Reply
<1>4. ASSUME NEW args PROVE Len(Dispatch(b, args).reply) # 2
  <2>1. \A n : Len(CallDB(args, n).reply) # 2
    BY <1>3 DEF CallDB
  <2>2. CASE ~Inside(b, args[1])
    BY <1>3, <2>2 DEF Dispatch
  <2>3. CASE Inside(b, args[1]) /\ Text(b, args[1]) = <<"P">>
    <3>1. Text(b, args[1]) # <<"S">> /\ Text(b, args[1]) # <<"G">>
      BY <2>3
    <3>2. Dispatch(b, args) = Reply(<<"PONG">>, "ok")
      BY <2>3, <3>1, Zenon DEF Dispatch
    <3> QED BY <1>3, <3>2
  <2>4. CASE Inside(b, args[1]) /\ Text(b, args[1]) # <<"P">>
    BY <1>3, <2>1, <2>4 DEF Dispatch
  <2> QED BY <2>2, <2>3, <2>4
<1>5. /\ SubSeq(b, 1, size) \notin {Encode(d) : d \in Docs}
      /\ views # <<Endless>>
      /\ Execute(b, size) = Reject(b, views)
  BY <1>3, <1>4 DEF Execute
<1>6. ~ (Len(views) < 2) /\ Inside(b, views[2])
  BY <1>3, <1>5 DEF Reject
<1>7. Reject(b, views).reply[2] = Text(b, views[2])
  BY <1>6 DEF Reject, Reply
<1>8. Len(<<Ping>>) = 1
  OBVIOUS
<1>9. views \in Seq(GoodViews(b, Trimmed(b, size)))
  BY <1>2, <1>5, <1>6, <1>8 DEF ParseResult
<1> QED BY <1>5, <1>6, <1>7, <1>9

\* Such a reply shows bytes of the read itself, the word Error, or the read was cut.
LEMMA ShowsItsOwn ==
  ASSUME NEW N \in Nat, NEW b \in [1..N -> Bytes], NEW size \in 1..N,
         NEW reply, reply = Execute(b, size).reply, Len(reply) = 2,
         NEW bytes, bytes = SubSeq(b, 1, size)
  PROVE  PartOf(reply[2], bytes) \/ reply[2] = <<"E">> \/ Cut(bytes)
<1> DEFINE t == Trimmed(b, size)
           views == Parse(b, t)
           v == views[2]
<1>1. t \in 0..size
  BY DEF Trimmed
<1>2. /\ views \in Seq(GoodViews(b, t)) /\ Len(views) >= 2 /\ Inside(b, v)
      /\ reply[2] = Text(b, v)
  BY TwoPartReply
<1>3. v \in GoodViews(b, t)
  <2> HIDE DEF views
  <2> QED BY <1>2
<1>4. b \in Seq(Bytes) /\ Len(b) = N
  OBVIOUS
<1>5. bytes \in Seq(Bytes) /\ Len(bytes) = size /\ \A j \in 1..size : bytes[j] = b[j]
  BY <1>4
<1> HIDE DEF views, v, t
<1>6. CASE v = Error
  <2>1. v # Ping
    BY <1>6 DEF Error, Ping, View
  <2> QED BY <1>2, <1>6, <2>1 DEF Text
<1>7. ASSUME v # Error, v.at >= 2, v.at + v.len - 1 <= size, v.at <= size + 1
      PROVE  PartOf(reply[2], bytes)
  <2>1. v.at \in Int /\ v.len \in Int
    BY <1>3 DEF GoodViews
  <2>2. v.len >= 0
    BY <1>2, <1>7, <2>1 DEF Inside
  <2>3. v # Ping
    BY <1>7 DEF Ping, View
  <2>4. reply[2] = SubSeq(b, v.at, v.at + v.len - 1)
    BY <1>2, <1>7, <2>3 DEF Text
  <2>5. PICK at \in Nat, len \in Nat : at = v.at - 1 /\ len = v.len /\ at + len <= size
    BY <1>1, <1>7, <2>1, <2>2
  <2>6. reply[2] = SubSeq(b, at + 1, at + len)
    <3>1. at + 1 = v.at /\ at + len = v.at + v.len - 1
      BY <2>1, <2>5
    <3> QED BY <2>4, <3>1, Zenon
  <2>7. /\ SubSeq(b, at + 1, at + len) \in Seq(Bytes)
        /\ Len(SubSeq(b, at + 1, at + len)) = len
        /\ \A j \in 1..len : SubSeq(b, at + 1, at + len)[j] = b[at + j]
    <3>1. at + len <= Len(b)
      BY <1>4, <2>5
    <3> QED BY <1>4, <3>1, PartIs
  <2>8. /\ SubSeq(bytes, at + 1, at + len) \in Seq(Bytes)
        /\ Len(SubSeq(bytes, at + 1, at + len)) = len
        /\ \A j \in 1..len : SubSeq(bytes, at + 1, at + len)[j] = bytes[at + j]
    <3>1. at + len <= Len(bytes)
      BY <1>5, <2>5
    <3>2. bytes \in Seq(Bytes)
      BY <1>5
    <3> QED BY <3>1, <3>2, PartIs
  <2>9. SubSeq(bytes, at + 1, at + len) = reply[2]
    <3>1. \A j \in 1..len : b[at + j] = bytes[at + j]
      BY <1>5, <2>5
    <3>2. SubSeq(bytes, at + 1, at + len) = SubSeq(b, at + 1, at + len)
      <4> DEFINE p == SubSeq(bytes, at + 1, at + len)
                 q == SubSeq(b, at + 1, at + len)
      <4>1. p \in Seq(Bytes) /\ q \in Seq(Bytes) /\ Len(p) = Len(q)
            /\ \A j \in 1..Len(p) : p[j] = q[j]
        BY <2>7, <2>8, <3>1
      <4> HIDE DEF p, q
      <4>2. p = q
        BY <4>1, SeqEqual
      <4> QED BY <4>2 DEF p, q
    <3> QED BY <2>6, <3>2
  <2>10. at \in 0..(Len(bytes) - Len(reply[2])) /\ len = Len(reply[2])
    BY <1>5, <2>5, <2>6, <2>7
  <2> QED BY <2>9, <2>10 DEF PartOf
<1>8. ASSUME NEW j \in 1..t, NEW e, e = LineEnd(b, t, j), b[j] = "$", e # 0,
             v = View(e + 2, Number(b, j + 1, e)), v # Error
      PROVE  PartOf(reply[2], bytes) \/ Cut(bytes)
  <2>2. /\ e \in j..(t - 1) /\ b[e] = "r" /\ b[e + 1] = "n"
        /\ \A h \in j..(t - 1) : b[h] = "r" /\ b[h + 1] = "n" => e <= h
    <3>1. t \in Nat /\ j \in Nat \ {0}
      BY <1>1
    <3>2. IsLineEnd(b, t, j, e)
      BY <1>8, <3>1, LineEndFound
    <3> QED BY <3>2 DEF IsLineEnd
  <2>0. j + 1 \in Nat /\ e \in Nat /\ j + 1 <= e /\ e < size
    BY <1>1, <1>8, <2>2
  <2>1. PICK number \in Int : number = Number(b, j + 1, e)
    BY <2>0, NumberType
  <2>3. v.at = e + 2 /\ v.len = number
    BY <1>8, <2>1 DEF View
  <2>4. CASE e + 1 + number <= size
    <3>1. v.at >= 2 /\ v.at + v.len - 1 <= size /\ v.at <= size + 1
      BY <1>1, <2>1, <2>2, <2>3, <2>4
    <3> QED BY <1>7, <1>8, <3>1
  <2>5. CASE e + 1 + number > size
    <3>1. PICK f : f = LineEnd(bytes, size, j)
      OBVIOUS
    <3>2. /\ j \in Nat \ {0} /\ j < e /\ e \in j..(size - 1) /\ j + 1 \in 1..size
          /\ bytes[e] = "r" /\ bytes[e + 1] = "n" /\ bytes[j] = "$"
      BY <1>1, <1>5, <1>8, <2>2
    <3>0. size \in Nat
      OBVIOUS
    <3>3. f # 0
      BY <3>0, <3>1, <3>2, LineEndExists
    <3>4. /\ f \in j..(size - 1) /\ bytes[f] = "r" /\ bytes[f + 1] = "n"
          /\ \A h \in j..(size - 1) : bytes[h] = "r" /\ bytes[h + 1] = "n" => f <= h
      <4>1. IsLineEnd(bytes, size, j, f)
        BY <3>0, <3>1, <3>2, <3>3, LineEndFound
      <4> QED BY <4>1 DEF IsLineEnd
    <3>5. f = e
      <4>1. f <= e
        BY <3>2, <3>4
      <4>2. b[f] = "r" /\ b[f + 1] = "n" /\ f \in j..(t - 1)
        BY <1>1, <1>5, <2>2, <3>4, <4>1
      <4> QED BY <2>2, <4>1, <4>2
    <3>6. j \in DOMAIN bytes /\ Len(bytes) = size
      BY <1>5, <1>1
    <3>7. f + 1 + Number(bytes, j + 1, f) > Len(bytes)
      <4>1. \A m \in (j + 1)..e : b[m] = bytes[m]
        BY <1>1, <1>5, <2>0
      <4>2. Number(b, j + 1, e) = Number(bytes, j + 1, e)
        BY <2>0, <4>1, NumberLocal
      <4> QED BY <2>1, <2>5, <3>5, <3>6, <4>2
    <3> QED BY <3>1, <3>2, <3>3, <3>6, <3>7 DEF Cut
  <2> QED BY <1>1, <2>1, <2>2, <2>4, <2>5
<1>9. \/ v = Error
      \/ v.at >= 2 /\ v.at + v.len - 1 <= t /\ v.at <= t + 1 /\ v.at \in Int /\ v.len \in Int
      \/ \E j \in 1..t : b[j] = "$" /\ LineEnd(b, t, j) # 0
                           /\ v = View(LineEnd(b, t, j) + 2,
                                       Number(b, j + 1, LineEnd(b, t, j)))
  BY <1>3 DEF GoodViews
<1>10. CASE v.at >= 2 /\ v.at + v.len - 1 <= t /\ v.at <= t + 1 /\ v.at \in Int /\ v.len \in Int
  BY <1>1, <1>6, <1>7, <1>10
<1> QED BY <1>6, <1>8, <1>9, <1>10

-----------------------------------------------------------------------------
(* Redis: the bytes of a command.                                          *)

\* A command a client may send.
IsCommand(args) ==
  /\ args \in Seq(Seq(Bytes)) /\ Len(args) \in 1..9
  /\ \A j \in 1..Len(args) : Len(args[j]) \in 1..9

\* The digits are bytes and mean their numbers.
LEMMA DigitFacts == \A d \in 1..9 : /\ Digits[d] \in Bytes /\ Digits[d] \notin {"r", "-", "0"}
                                    /\ IsDigit(Digits[d]) /\ Figure(Digits[d]) = d
<1>1. DOMAIN Digits = 1..9
  BY DEF Digits
<1>2. /\ Digits[1] = "1" /\ Digits[2] = "2" /\ Digits[3] = "3" /\ Digits[4] = "4"
      /\ Digits[5] = "5" /\ Digits[6] = "6" /\ Digits[7] = "7" /\ Digits[8] = "8"
      /\ Digits[9] = "9"
  BY DEF Digits
<1>3. \A d \in 1..9 : Digits[d] \in Bytes /\ Digits[d] \notin {"r", "-", "0"}
  BY <1>1, <1>2 DEF Bytes
<1>4. \A d \in 1..9 : IsDigit(Digits[d])
  BY <1>1 DEF IsDigit
<1>5. \A d \in 1..9, c \in 1..9 : Digits[c] = Digits[d] => c = d
  BY <1>2
<1>6. ASSUME NEW d \in 1..9 PROVE Figure(Digits[d]) = d
  <2>1. Figure(Digits[d]) = CHOOSE c \in 1..9 : Digits[c] = Digits[d]
    BY <1>1, <1>3 DEF Figure
  <2> QED BY <1>5, <2>1
<1> QED BY <1>3, <1>4, <1>6

\* A length of one digit that is followed by the end of its line.
LEMMA NumberOfDigit ==
  ASSUME NEW b, NEW at \in Nat, NEW d \in 1..9, b[at] = Digits[d], b[at + 1] = "r"
  PROVE  Number(b, at, at + 1) = d
<1>1. b[at] \notin {"r", "-", "0"} /\ IsDigit(b[at]) /\ Figure(b[at]) = d
  BY DigitFacts
<1>2. ~IsDigit(b[at + 1])
  BY DEF IsDigit, Digits
<1>3. PICK e : e = DigitsEnd(b, at, at + 1)
  OBVIOUS
<1>4. IsDigitsEnd(b, at, at + 1, e)
  BY <1>3, DigitsEndFound
<1>5. e = at + 1
  BY <1>1, <1>2, <1>4 DEF IsDigitsEnd
<1>6. PICK n \in Nat : n = e - at /\ n = 1
  BY <1>5
<1>7. PICK f \in [0..n -> Int] :
        IsValues(b, at, n, FALSE, f) /\ Value(b, at, n, FALSE) = f[n]
  <2>1. \A j \in at..(at + n - 1) : IsDigit(b[j])
    BY <1>1, <1>6
  <2> QED BY <2>1, ValueFacts
<1>8. f[1] = d
  <2>1. 1 \in 1..n /\ 1 - 1 = 0 /\ at + 1 - 1 = at
    BY <1>6
  <2>2. f[1] = Shift(0, Figure(b[at]), FALSE)
    BY <1>7, <2>1 DEF IsValues
  <2> QED BY <1>1, <2>2 DEF Shift, TooBig
<1>9. Number(b, at, at + 1) = IF Value(b, at, n, FALSE) = TooBig THEN 0
                              ELSE Value(b, at, n, FALSE)
  BY <1>1, <1>3, <1>6 DEF Number
<1>10. Value(b, at, n, FALSE) = d
  BY <1>6, <1>7, <1>8
<1>11. d # TooBig
  BY DEF TooBig
<1> QED BY <1>9, <1>10, <1>11, Zenon

\* The bytes of a bulk string.
LEMMA BulkFacts ==
  ASSUME NEW arg \in Seq(Bytes), Len(arg) \in 1..9, NEW k, k = Bulk(arg)
  PROVE  /\ k \in Seq(Bytes) /\ Len(k) = Len(arg) + 6
         /\ k[1] = "$" /\ k[2] = Digits[Len(arg)] /\ k[3] = "r" /\ k[4] = "n"
         /\ \A m \in 1..Len(arg) : k[4 + m] = arg[m]
         /\ k[Len(arg) + 5] = "r" /\ k[Len(arg) + 6] = "n"
<1>1. PICK d \in Bytes : d = Digits[Len(arg)]
  BY DigitFacts
<1>2. "$" \in Bytes /\ "r" \in Bytes /\ "n" \in Bytes
  BY DEF Bytes, TypeBytes
<1> DEFINE front == <<"$", d, "r", "n">>
           end == <<"r", "n">>
<1>3. /\ front \in Seq(Bytes) /\ Len(front) = 4
      /\ front[1] = "$" /\ front[2] = d /\ front[3] = "r" /\ front[4] = "n"
  BY <1>2
<1>4. end \in Seq(Bytes) /\ Len(end) = 2 /\ end[1] = "r" /\ end[2] = "n"
  BY <1>2
<1>5. k = (front \o arg) \o end
  BY <1>1 DEF Bulk
<1> HIDE DEF front, end
<1> DEFINE most == front \o arg
<1>6. /\ most \in Seq(Bytes) /\ Len(most) = Len(front) + Len(arg)
      /\ \A i \in 1..(Len(front) + Len(arg)) :
           most[i] = IF i <= Len(front) THEN front[i] ELSE arg[i - Len(front)]
  BY <1>3, ConcatProperties
<1> HIDE DEF most
<1>7. /\ most \in Seq(Bytes) /\ Len(most) = 4 + Len(arg)
      /\ \A i \in 1..(4 + Len(arg)) : most[i] = IF i <= 4 THEN front[i] ELSE arg[i - 4]
  BY <1>3, <1>6
<1>8. /\ most \o end \in Seq(Bytes) /\ Len(most \o end) = 6 + Len(arg)
      /\ \A i \in 1..(6 + Len(arg)) :
           (most \o end)[i] = IF i <= 4 + Len(arg) THEN most[i] ELSE end[i - (4 + Len(arg))]
  <2>1. /\ most \o end \in Seq(Bytes) /\ Len(most \o end) = Len(most) + Len(end)
        /\ \A i \in 1..(Len(most) + Len(end)) :
             (most \o end)[i] = IF i <= Len(most) THEN most[i] ELSE end[i - Len(most)]
    BY <1>4, <1>7, ConcatProperties
  <2>2. Len(most) + Len(end) = 6 + Len(arg)
    BY <1>4, <1>7
  <2> QED BY <1>7, <2>1, <2>2
<1>9. k = most \o end
  BY <1>5 DEF most
<1>10. \A i \in 1..4 : k[i] = front[i]
  BY <1>7, <1>8, <1>9
<1>11. \A m \in 1..Len(arg) : k[4 + m] = arg[m]
  <2>1. ASSUME NEW m \in 1..Len(arg) PROVE k[4 + m] = arg[m]
    <3>1. PICK i \in 1..(4 + Len(arg)) : i = 4 + m /\ i > 4 /\ i - 4 = m
      OBVIOUS
    <3>2. most[i] = arg[m]
      BY <1>7, <3>1
    <3> QED BY <1>8, <1>9, <3>1, <3>2
  <2> QED BY <2>1
<1>12. k[Len(arg) + 5] = "r" /\ k[Len(arg) + 6] = "n"
  BY <1>4, <1>8, <1>9
<1>13. k \in Seq(Bytes) /\ Len(k) = Len(arg) + 6
  BY <1>8, <1>9
<1>14. k[1] = "$" /\ k[2] = Digits[Len(arg)] /\ k[3] = "r" /\ k[4] = "n"
  BY <1>1, <1>3, <1>10
<1> QED BY <1>11, <1>12, <1>13, <1>14

\* The bulk strings of args one after the other: the first j of them, for every j.
IsPrefixes(args, cat) ==
  /\ cat[0] = <<>>
  /\ \A j \in 1..Len(args) : cat[j] = cat[j - 1] \o Bulk(args[j])

\* Bulks is the last of its prefixes.
LEMMA BulksFacts ==
  ASSUME NEW args, IsCommand(args)
  PROVE  \E cat \in [0..Len(args) -> Seq(Bytes)] :
           IsPrefixes(args, cat) /\ Bulks(args) = cat[Len(args)]
<1> DEFINE n == Len(args)
           V == Seq(Bytes)
           Joined(s, j) == s \o Bulk(args[j])
           Solves(f) == f = [j \in 0..n |-> IF j = 0 THEN <<>> ELSE Joined(f[j - 1], j)]
           cat == CHOOSE g : Solves(g)
<1>1. <<>> \in V
  BY EmptySeq
<1>2. n \in Nat /\ \A j \in 1..n : Bulk(args[j]) \in V
  BY BulkFacts DEF IsCommand
<1>3. ASSUME NEW s \in V, NEW j \in 1..n PROVE Joined(s, j) \in V
  BY <1>2, <1>3, ConcatProperties
<1>4. Bulks(args) = cat[n]
  BY DEF Bulks
<1>5. ASSUME NEW f, \A j \in 1..n : f[j] = Joined(f[j - 1], j), f[0] = <<>>
      PROVE  IsPrefixes(args, f)
  BY <1>5 DEF IsPrefixes
<1> HIDE DEF Joined, n, V, cat
<1> DEFINE start == <<>>
           turn == [j \in 1..n |-> [s \in V |-> Joined(s, j)]]
<1>6. turn \in [1..n -> [V -> V]]
  BY <1>3
<1>7. PICK f \in [0..n -> V] : Recursion(f, n, start, turn)
  <2>1. start \in V
    BY <1>1
  <2> HIDE DEF start, turn
  <2>2. \E f \in [0..n -> V] : Recursion(f, n, start, turn)
    BY <1>2, <1>6, <2>1, Iteration
  <2> QED BY <2>2
<1>8. f = [k \in 0..n |-> IF k = 0 THEN start ELSE turn[k][f[k - 1]]]
  <2> HIDE DEF start, turn
  <2> QED BY <1>7 DEF Recursion
<1>9. Solves(f)
  <2>1. ASSUME NEW k \in 1..n PROVE turn[k][f[k - 1]] = Joined(f[k - 1], k)
    BY <1>2
  <2> HIDE DEF turn
  <2> QED BY <1>2, <1>8, <2>1
<1> HIDE DEF Solves
<1>10. Solves(cat)
  BY <1>9 DEF cat
<1> DEFINE Typed == {k \in 0..n : cat[k] \in V}
<1>11. cat[0] = <<>> /\ \A k \in 1..n : cat[k] = Joined(cat[k - 1], k)
  <2> DEFINE r == [k \in 0..n |-> IF k = 0 THEN <<>> ELSE Joined(cat[k - 1], k)]
  <2>1. r[0] = <<>> /\ \A k \in 1..n : r[k] = Joined(cat[k - 1], k)
    BY <1>2
  <2>2. cat = r
    BY <1>10 DEF Solves
  <2> HIDE DEF r
  <2> QED BY <2>1, <2>2
<1>12. 0 \in Typed /\ \A k \in 1..n : k - 1 \in Typed => k \in Typed
  BY <1>1, <1>2, <1>3, <1>11
<1>13. 0..n \subseteq Typed
  <2> HIDE DEF Typed
  <2> QED BY <1>2, <1>12, Upward
<1>14. cat = [k \in 0..n |-> cat[k]]
  BY <1>10 DEF Solves
<1>15. cat \in [0..n -> V]
  BY <1>13, <1>14
<1>16. IsPrefixes(args, cat)
  BY <1>5, <1>11
<1> QED BY <1>4, <1>15, <1>16 DEF n, V

\* s begins with t.
Begins(s, t) == Len(t) <= Len(s) /\ \A i \in 1..Len(t) : s[i] = t[i]

\* Bulks begins with each of its prefixes.
LEMMA BulksGrow ==
  ASSUME NEW args, IsCommand(args), NEW cat \in [0..Len(args) -> Seq(Bytes)],
         IsPrefixes(args, cat), NEW j \in 0..Len(args)
  PROVE  Begins(cat[Len(args)], cat[j])
<1> DEFINE n == Len(args)
<1>1. n \in Nat /\ \A k \in 1..n : Bulk(args[k]) \in Seq(Bytes)
  BY BulkFacts DEF IsCommand
<1>2. ASSUME NEW k \in 1..n PROVE Begins(cat[k], cat[k - 1])
  <2>0. cat[k - 1] \in Seq(Bytes) /\ Bulk(args[k]) \in Seq(Bytes)
    <3>1. k - 1 \in 0..n
      BY <1>1
    <3> QED BY <1>1, <3>1
  <2>1. PICK s \in Seq(Bytes), t \in Seq(Bytes) : s = cat[k - 1] /\ t = Bulk(args[k])
    BY <2>0
  <2>2. cat[k] = s \o t
    BY <2>1 DEF IsPrefixes
  <2>3. Begins(s \o t, s)
    BY ConcatProperties DEF Begins
  <2> QED BY <2>1, <2>2, <2>3
<1> DEFINE m == n - j
           Has == {k \in 0..m : Begins(cat[j + k], cat[j])}
<1>3. cat[j] \in Seq(Bytes) /\ m \in Nat
  BY <1>1
<1>4. 0 \in Has
  <2>1. Begins(cat[j], cat[j])
    BY <1>3 DEF Begins
  <2>2. j + 0 = j
    BY <1>1
  <2> QED BY <1>3, <2>1, <2>2
<1>5. ASSUME NEW k \in 1..m, k - 1 \in Has PROVE k \in Has
  <2>1. PICK h \in 1..n : h = j + k /\ h - 1 = j + (k - 1)
    BY <1>1
  <2>2. Begins(cat[h], cat[h - 1]) /\ Begins(cat[h - 1], cat[j])
    BY <1>2, <1>5, <2>1
  <2>3. cat[h] \in Seq(Bytes) /\ cat[h - 1] \in Seq(Bytes)
    <3>1. h \in 0..n /\ h - 1 \in 0..n
      BY <1>1
    <3> QED BY <3>1
  <2>4. Begins(cat[h], cat[j])
    BY <1>3, <2>2, <2>3 DEF Begins
  <2> QED BY <2>1, <2>4
<1>6. 0..m \subseteq Has
  <2> HIDE DEF Has, m
  <2> QED BY <1>3, <1>4, <1>5, Upward
<1>7. m \in Has /\ j + m = n
  <2>1. m \in 0..m /\ j + m = n
    BY <1>1, <1>3
  <2> HIDE DEF Has, m
  <2> QED BY <1>6, <2>1
<1> QED BY <1>7

\* The bulk string of arg lies behind the first p bytes of e.
HoldsBulk(e, p, arg) ==
  /\ e[p + 1] = "$" /\ e[p + 2] = Digits[Len(arg)] /\ e[p + 3] = "r" /\ e[p + 4] = "n"
  /\ \A m \in 1..Len(arg) : e[p + 4 + m] = arg[m]
  /\ e[p + Len(arg) + 5] = "r" /\ e[p + Len(arg) + 6] = "n"

\* e is the encoding of args, whose j-th bulk string ends at byte at[j].
Layout(args, e, at) ==
  /\ at \in [0..Len(args) -> Nat] /\ at[0] = 4 /\ at[Len(args)] = Len(e)
  /\ e \in Seq(Bytes)
  /\ e[1] = "*" /\ e[2] = Digits[Len(args)] /\ e[3] = "r" /\ e[4] = "n"
  /\ \A j \in 1..Len(args) : /\ at[j] = at[j - 1] + Len(args[j]) + 6 /\ at[j] <= Len(e)
                             /\ HoldsBulk(e, at[j - 1], args[j])

\* The encoding of a command has a layout.
LEMMA EncodeFacts ==
  ASSUME NEW args, IsCommand(args), NEW e, e = Encode(args)
  PROVE  \E at : Layout(args, e, at)
<1> DEFINE n == Len(args)
<1>1. n \in 1..9 /\ args \in Seq(Seq(Bytes))
  BY DEF IsCommand
<1>2. PICK cat \in [0..n -> Seq(Bytes)] : IsPrefixes(args, cat) /\ Bulks(args) = cat[n]
  BY BulksFacts
<1> DEFINE front == <<"*", Digits[n], "r", "n">>
           all == cat[n]
<1>3. /\ front \in Seq(Bytes) /\ Len(front) = 4
      /\ front[1] = "*" /\ front[2] = Digits[n] /\ front[3] = "r" /\ front[4] = "n"
  <2>1. PICK d \in Bytes : d = Digits[n]
    BY <1>1, DigitFacts
  <2>2. "*" \in Bytes /\ "r" \in Bytes /\ "n" \in Bytes
    BY DEF Bytes, TypeBytes
  <2> QED BY <2>1, <2>2
<1>4. all \in Seq(Bytes)
  <2>1. n \in 0..n
    BY <1>1
  <2> QED BY <1>2, <2>1
<1>5. e = front \o all
  BY <1>2 DEF Encode
<1> HIDE DEF front, all
<1> HIDE DEF n
<1>6. /\ e \in Seq(Bytes) /\ Len(e) = Len(front) + Len(all)
      /\ \A i \in 1..(Len(front) + Len(all)) :
           e[i] = IF i <= Len(front) THEN front[i] ELSE all[i - Len(front)]
  <2>1. PICK s \in Seq(Bytes), r \in Seq(Bytes) : s = front /\ r = all
    BY <1>3, <1>4
  <2>2. /\ s \o r \in Seq(Bytes) /\ Len(s \o r) = Len(s) + Len(r)
        /\ \A i \in 1..(Len(s) + Len(r)) :
             (s \o r)[i] = IF i <= Len(s) THEN s[i] ELSE r[i - Len(s)]
    BY ConcatProperties
  <2> QED BY <1>5, <2>1, <2>2
<1>7. /\ Len(e) = 4 + Len(all) /\ Len(all) \in Nat
      /\ \A i \in 1..4 : e[i] = front[i]
      /\ \A i \in 1..Len(all) : e[4 + i] = all[i]
  <2>1. Len(all) \in Nat
    BY <1>4
  <2>2. ASSUME NEW i \in 1..Len(all) PROVE e[4 + i] = all[i]
    <3>1. PICK h \in 1..(4 + Len(all)) : h = 4 + i /\ h > 4 /\ h - 4 = i
      BY <2>1
    <3> QED BY <1>3, <1>6, <3>1
  <2> QED BY <1>3, <1>6, <2>1, <2>2
<1> DEFINE at == [j \in 0..n |-> 4 + Len(cat[j])]
<1>8. at \in [0..n -> Nat]
  BY <1>1
<1>9. at[0] = 4
  <2>1. Len(cat[0]) = 0
    BY <1>2 DEF IsPrefixes
  <2> QED BY <1>1, <2>1
<1>10. at[n] = Len(e)
  BY <1>1, <1>7 DEF all
<1>11. ASSUME NEW j \in 1..n
       PROVE  /\ at[j] = at[j - 1] + Len(args[j]) + 6 /\ at[j] <= Len(e)
              /\ HoldsBulk(e, at[j - 1], args[j])
  <2>0. j - 1 \in 0..n /\ j \in 0..n
    BY <1>1
  <2>1. args[j] \in Seq(Bytes) /\ Len(args[j]) \in 1..9
    BY DEF IsCommand, n
  <2>2. PICK k \in Seq(Bytes) : k = Bulk(args[j])
    BY <2>1, BulkFacts
  <2>3. PICK s \in Seq(Bytes) : s = cat[j - 1]
    BY <1>2, <2>0
  <2>4. PICK c \in Seq(Bytes) : c = cat[j]
    BY <1>2, <2>0
  <2>5. c = s \o k
    BY <1>2, <2>2, <2>3, <2>4 DEF IsPrefixes, n
  <2>12. PICK len \in 1..9 : len = Len(args[j])
    BY <2>1
  <2>6. /\ Len(k) = Len(args[j]) + 6
        /\ k[1] = "$" /\ k[2] = Digits[Len(args[j])] /\ k[3] = "r" /\ k[4] = "n"
        /\ \A m \in 1..Len(args[j]) : k[4 + m] = args[j][m]
        /\ k[Len(args[j]) + 5] = "r" /\ k[Len(args[j]) + 6] = "n"
    <3>1. PICK arg \in Seq(Bytes) : arg = args[j]
      BY <2>1
    <3>2. /\ Len(k) = Len(arg) + 6
          /\ k[1] = "$" /\ k[2] = Digits[Len(arg)] /\ k[3] = "r" /\ k[4] = "n"
          /\ \A m \in 1..Len(arg) : k[4 + m] = arg[m]
          /\ k[Len(arg) + 5] = "r" /\ k[Len(arg) + 6] = "n"
      <4>1. Len(arg) \in 1..9 /\ k = Bulk(arg)
        BY <2>1, <2>2, <3>1
      <4> QED BY <4>1, BulkFacts
    <3> QED BY <3>1, <3>2
  <2>61. Len(k) = len + 6
    BY <2>6, <2>12
  <2>7. Len(c) = Len(s) + Len(k) /\ Len(s) \in Nat
        /\ \A i \in 1..(Len(s) + Len(k)) : c[i] = IF i <= Len(s) THEN s[i] ELSE k[i - Len(s)]
    BY <2>5, ConcatProperties
  <2>8. Begins(all, c)
    <3>1. j \in 0..n
      OBVIOUS
    <3> QED BY <1>2, <2>4, <3>1, BulksGrow DEF all, n
  <2>9. PICK p \in Nat : p = at[j - 1] /\ p = 4 + Len(s)
    BY <1>1, <2>0, <2>3, <2>7
  <2>10. at[j] = 4 + Len(c)
    BY <2>0, <2>4
  <2>11. ASSUME NEW i \in 1..Len(k) PROVE e[p + i] = k[i]
    <3>1. PICK h \in 1..Len(c) : h = Len(s) + i /\ h - Len(s) = i /\ h > Len(s) /\ 4 + h = p + i
      <4>1. PICK a \in Nat, z \in Nat : a = Len(s) /\ z = Len(k) /\ Len(c) = a + z
        BY <2>61, <2>7
      <4>3. i \in 1..z /\ p = 4 + a
        BY <2>9, <4>1
      <4>2. a + i \in 1..Len(c) /\ (a + i) - a = i /\ a + i > a /\ 4 + (a + i) = p + i
        BY <4>1, <4>3
      <4> QED BY <4>1, <4>2
    <3>2. c[h] = k[i]
      BY <2>7, <3>1
    <3>3. h \in 1..Len(all) /\ all[h] = c[h]
      BY <1>7, <2>8, <3>1 DEF Begins
    <3> QED BY <1>7, <3>1, <3>2, <3>3
  <2>13. at[j] = p + len + 6 /\ at[j] <= Len(e)
    <3>1. PICK a \in Nat : a = Len(s) /\ Len(c) = a + (len + 6)
      BY <2>61, <2>7
    <3>2. Len(c) <= Len(all)
      BY <2>8 DEF Begins
    <3> HIDE DEF at
    <3> QED BY <1>7, <2>9, <2>10, <3>1, <3>2
  <2>14. HoldsBulk(e, p, args[j])
    <3>1. /\ e[p + 1] = "$" /\ e[p + 2] = Digits[Len(args[j])]
          /\ e[p + 3] = "r" /\ e[p + 4] = "n"
      <4>1. 1 \in 1..Len(k) /\ 2 \in 1..Len(k) /\ 3 \in 1..Len(k) /\ 4 \in 1..Len(k)
        BY <2>61
      <4> QED BY <2>6, <2>11, <4>1
    <3>2. ASSUME NEW m \in 1..Len(args[j]) PROVE e[p + 4 + m] = args[j][m]
      <4>1. 4 + m \in 1..Len(k) /\ p + (4 + m) = p + 4 + m
        BY <2>61, <2>12
      <4>2. e[p + (4 + m)] = k[4 + m]
        BY <2>11, <4>1
      <4> QED BY <2>6, <4>1, <4>2
    <3>3. e[p + Len(args[j]) + 5] = "r" /\ e[p + Len(args[j]) + 6] = "n"
      <4>1. /\ len + 5 \in 1..Len(k) /\ len + 6 \in 1..Len(k)
            /\ p + (len + 5) = p + Len(args[j]) + 5 /\ p + (len + 6) = p + Len(args[j]) + 6
        BY <2>61, <2>12
      <4>2. e[p + (len + 5)] = k[len + 5] /\ e[p + (len + 6)] = k[len + 6]
        BY <2>11, <4>1
      <4> QED BY <2>6, <2>12, <4>1, <4>2
    <3> QED BY <3>1, <3>2, <3>3 DEF HoldsBulk
  <2> HIDE DEF at
  <2> QED BY <2>9, <2>12, <2>13, <2>14
<1> HIDE DEF at
<1>12. e[1] = "*" /\ e[2] = Digits[n] /\ e[3] = "r" /\ e[4] = "n"
  BY <1>3, <1>7
<1>13. Layout(args, e, at)
  BY <1>6, <1>8, <1>9, <1>10, <1>11, <1>12 DEF Layout, n
<1> QED BY <1>13

-----------------------------------------------------------------------------
(* Redis: the loop over a plain command.                                   *)

\* The loop at byte x with the views r; turns that lead from one such place to another.
LoopAt(x, r) == [i |-> x, result |-> r]
Moves(b, s, x, r, y, v) == Turn(b, s, LoopAt(x, r)) = LoopAt(y, v)
MovesIn3(b, s, x, r, y, v) == Turn(b, s, Turn(b, s, Turn(b, s, LoopAt(x, r)))) = LoopAt(y, v)

\* l is a run of the loop over the first s bytes of b; what it has reached after k turns.
IsLoop(b, s, l) == \A m \in 1..s : l[m] = Turn(b, s, l[m - 1])
Same(l, s, k) == l[s] = l[k]
Reached(l, k, x, r) == l[k] = LoopAt(x, r)

\* A byte that begins nothing is passed over.
LEMMA PlainTurn ==
  ASSUME NEW b, NEW s \in Nat, NEW x \in Nat, x <= s, b[x] \notin TypeBytes, NEW r
  PROVE  Turn(b, s, LoopAt(x, r)) = LoopAt(x + 1, r)
BY DEF Turn, LoopAt

\* The header of an array that is the first line.
LEMMA HeaderTurn ==
  ASSUME NEW b, NEW s \in Nat, s >= 4, b[1] = "*", b[2] # "r", b[3] = "r", b[4] = "n"
  PROVE  Turn(b, s, LoopAt(1, <<>>)) = LoopAt(5, <<View(2, 1)>>)
<1>1. PICK from \in Nat \ {0} : from = 1
  OBVIOUS
<1>2. PICK e : e = LineEnd(b, s, from)
  OBVIOUS
<1>3. 3 \in from..(s - 1) /\ 3 + 1 = 4
  BY <1>1
<1>4. e # 0
  BY <1>2, <1>3, LineEndExists
<1>5. IsLineEnd(b, s, from, e)
  BY <1>2, <1>4, LineEndFound
<1>6. e = 3
  BY <1>1, <1>3, <1>5 DEF IsLineEnd
<1>7. LineEnd(b, s, 1) = 3
  BY <1>1, <1>2, <1>6
<1>8. "*" \in TypeBytes
  BY DEF TypeBytes
<1>9. Append(<<>>, View(2, 1)) = <<View(2, 1)>>
  OBVIOUS
<1>10. Turn(b, s, LoopAt(1, <<>>))
         = LoopAt(3 + 2, Append(<<>>, View(1 + 1, 3 - 1 - 1)))
  BY <1>7, <1>8 DEF Turn, LoopAt
<1>11. 3 + 2 = 5 /\ 1 + 1 = 2 /\ 3 - 1 - 1 = 1
  OBVIOUS
<1> QED BY <1>9, <1>10, <1>11

\* The turn at a bulk string: its view, and on at its own last byte.
LEMMA BulkTurn ==
  ASSUME NEW b, NEW s \in Nat, NEW p \in Nat, NEW arg, NEW len \in 1..9, len = Len(arg),
         HoldsBulk(b, p, arg), p + len + 5 <= s, NEW r, NEW v, v = Append(r, View(p + 5, len)),
         NEW y \in Nat, y = p + 1, NEW z \in Nat, z = p + len + 4
  PROVE  Moves(b, s, y, r, z, v)
<1>1. PICK x \in Nat \ {0} : x = p + 1
  OBVIOUS
<1>2. b[x] = "$" /\ b[x + 1] = Digits[len] /\ b[x + 2] = "r" /\ b[x + 3] = "n"
  <2>1. x + 1 = p + 2 /\ x + 2 = p + 3 /\ x + 3 = p + 4
    BY <1>1
  <2> QED BY <1>1, <2>1 DEF HoldsBulk
<1>3. Number(b, x + 1, x + 2) = len /\ b[x + 1] # "r"
  <2>1. x + 1 \in Nat /\ (x + 1) + 1 = x + 2
    OBVIOUS
  <2>2. PICK y1 \in Nat : y1 = x + 1 /\ y1 + 1 = x + 2
    BY <2>1
  <2>3. b[y1] = Digits[len] /\ b[y1 + 1] = "r"
    BY <1>2, <2>2
  <2>4. Number(b, y1, y1 + 1) = len
    BY <2>3, NumberOfDigit
  <2> QED BY <1>2, <2>2, <2>4, DigitFacts
<1>4. PICK e : e = LineEnd(b, s, x)
  OBVIOUS
<1>5. x + 2 \in x..(s - 1) /\ (x + 2) + 1 = x + 3 /\ x <= s
  BY <1>1
<1>6. e # 0
  BY <1>2, <1>4, <1>5, LineEndExists
<1>7. IsLineEnd(b, s, x, e)
  BY <1>4, <1>6, LineEndFound
<1>8. e = x + 2
  <2>1. e \in x..(s - 1) /\ b[e] = "r" /\ e <= x + 2
    BY <1>2, <1>5, <1>7 DEF IsLineEnd
  <2>2. e # x /\ e # x + 1
    BY <1>2, <1>3, <2>1
  <2> QED BY <2>1, <2>2
<1>9. "$" \in TypeBytes
  BY DEF TypeBytes
<1>10. Turn(b, s, LoopAt(x, r))
         = LoopAt(AfterBulk(e, len), Append(r, View(e + 2, len)))
  <2>1. PICK loop : loop = LoopAt(x, r)
    OBVIOUS
  <2>2. loop.i = x /\ loop.result = r
    BY <2>1 DEF LoopAt
  <2>3. (IF b[loop.i] = "*" THEN 1 ELSE loop.i) = x /\ b[x] # "*"
    BY <1>2, <2>2
  <2>4. Turn(b, s, loop) = LoopAt(AfterBulk(e, len), Append(r, View(e + 2, len)))
    <3>1. /\ ~(loop.i > s) /\ b[loop.i] \in TypeBytes /\ b[loop.i] = "$"
          /\ LineEnd(b, s, IF b[loop.i] = "*" THEN 1 ELSE loop.i) = e
      BY <1>2, <1>4, <1>5, <1>9, <2>2, <2>3
    <3>3. Number(b, loop.i + 1, e) = len
      BY <1>3, <1>8, <2>2, Zenon
    <3>2. ~(AfterBulk(e, len) < 1)
      BY <1>8 DEF AfterBulk
    <3> QED BY <1>6, <2>2, <3>1, <3>2, <3>3, Zenon DEF Turn, LoopAt
  <2> QED BY <2>1, <2>4
<1>11. AfterBulk(e, len) = p + len + 4 /\ e + 2 = p + 5
  BY <1>1, <1>8 DEF AfterBulk
<1>12. Turn(b, s, LoopAt(p + 1, r)) = LoopAt(p + len + 4, v)
  BY <1>1, <1>10, <1>11
<1> QED BY <1>12 DEF Moves

\* A bulk string whose last byte begins nothing takes three turns.
LEMMA BulkTurns ==
  ASSUME NEW b, NEW s \in Nat, NEW p \in Nat, NEW arg, NEW len \in 1..9, len = Len(arg),
         HoldsBulk(b, p, arg), arg[len] \notin TypeBytes, p + len + 5 <= s, NEW r,
         NEW y \in Nat, y = p + 1, NEW z \in Nat, z = p + len + 6,
         NEW w, w = Append(r, View(p + 5, len))
  PROVE  MovesIn3(b, s, y, r, z, w)
<1>0. PICK v : v = Append(r, View(p + 5, len))
  OBVIOUS
<1>1. Turn(b, s, LoopAt(p + 1, r)) = LoopAt(p + len + 4, v)
  <2>0. p + len + 4 \in Nat
    OBVIOUS
  <2>1. PICK x \in Nat : x = p + len + 4
    BY <2>0
  <2>2. /\ s \in Nat /\ p \in Nat /\ len \in 1..9 /\ len = Len(arg)
        /\ HoldsBulk(b, p, arg) /\ p + len + 5 <= s /\ v = Append(r, View(p + 5, len))
        /\ y \in Nat /\ y = p + 1 /\ x \in Nat /\ x = p + len + 4
    BY <1>0, <2>1
  <2>3. Moves(b, s, y, r, x, v)
    BY <2>2, BulkTurn
  <2> QED BY <2>1, <2>3 DEF Moves
<1>2. PICK x \in Nat : x = p + len + 4 /\ x <= s /\ x + 1 <= s
  OBVIOUS
<1>3. b[x] \notin TypeBytes
  <2>1. p + 4 + len = x /\ len \in 1..Len(arg)
    BY <1>2
  <2>2. b[p + 4 + len] = arg[len]
    BY <2>1 DEF HoldsBulk
  <2> QED BY <2>1, <2>2
<1>4. b[x + 1] \notin TypeBytes
  <2>1. p + Len(arg) + 5 = x + 1
    BY <1>2
  <2>2. b[x + 1] = "r"
    BY <2>1 DEF HoldsBulk
  <2> QED BY <2>2 DEF TypeBytes, LineTypes
<1>5. Turn(b, s, LoopAt(x, v)) = LoopAt(x + 1, v)
  <2>1. x <= s
    BY <1>2
  <2> QED BY <1>3, <2>1 DEF Turn, LoopAt
<1>6. Turn(b, s, LoopAt(x + 1, v)) = LoopAt(x + 2, v)
  <2>1. PICK u \in Nat : u = x + 1 /\ u <= s /\ u + 1 = x + 2
    BY <1>2
  <2>2. Turn(b, s, LoopAt(u, v)) = LoopAt(u + 1, v)
    <3>1. u <= s /\ b[u] \notin TypeBytes
      BY <1>4, <2>1
    <3> QED BY <3>1, PlainTurn
  <2> QED BY <2>1, <2>2
<1>7. x + 2 = p + len + 6
  BY <1>2
<1> QED BY <1>0, <1>1, <1>2, <1>5, <1>6, <1>7 DEF MovesIn3

\* A loop that has left the buffer stays there.
LEMMA LoopStays ==
  ASSUME NEW b, NEW s \in Nat, NEW l, NEW k \in 0..s, l[k].i > s,
         IsLoop(b, s, l)
  PROVE  Same(l, s, k)
<1> DEFINE n == s - k
           Has == {m \in 0..n : l[k + m] = l[k]}
<1>1. n \in Nat /\ k \in Nat
  OBVIOUS
<1>2. 0 \in Has
  <2>1. k + 0 = k /\ 0 \in 0..n
    BY <1>1
  <2> QED BY <2>1
<1>3. ASSUME NEW m \in 1..n, m - 1 \in Has PROVE m \in Has
  <2>1. PICK h \in 1..s : h = k + m /\ h - 1 = k + (m - 1)
    BY <1>1
  <2>2. l[h] = Turn(b, s, l[k])
    BY <1>3, <2>1 DEF IsLoop
  <2>3. l[h] = l[k]
    BY <2>2 DEF Turn
  <2> QED BY <2>1, <2>3
<1>4. 0..n \subseteq Has
  <2> HIDE DEF Has, n
  <2> QED BY <1>1, <1>2, <1>3, Upward
<1>5. n \in 0..n /\ k + n = s
  BY <1>1
<1> QED BY <1>4, <1>5 DEF Same

\* One turn of a loop.
LEMMA NextTurn ==
  ASSUME NEW b, NEW s \in Nat, NEW l, IsLoop(b, s, l), NEW k \in Nat, k + 1 <= s
  PROVE  l[k + 1] = Turn(b, s, l[k])
<1>1. PICK m \in 1..s : m = k + 1 /\ m - 1 = k
  OBVIOUS
<1>2. l[m] = Turn(b, s, l[m - 1])
  BY DEF IsLoop
<1> QED BY <1>1, <1>2

\* Three of them.
LEMMA ThreeTurns ==
  ASSUME NEW b, NEW s \in Nat, NEW l, IsLoop(b, s, l), NEW k \in Nat, k + 3 <= s
  PROVE  l[k + 3] = Turn(b, s, Turn(b, s, Turn(b, s, l[k])))
<1>1. PICK k1 \in Nat : k1 = k + 1 /\ k1 + 2 = k + 3
  OBVIOUS
<1>2. PICK k2 \in Nat : k2 = k1 + 1 /\ k2 + 1 = k + 3
  BY <1>1
<1>3. l[k1] = Turn(b, s, l[k])
  BY <1>1, NextTurn
<1>4. l[k2] = Turn(b, s, l[k1])
  <2>1. k1 + 1 <= s
    BY <1>1
  <2> QED BY <1>2, <2>1, NextTurn
<1>5. l[k + 3] = Turn(b, s, l[k2])
  <2>1. k2 + 1 <= s
    BY <1>2
  <2> QED BY <1>2, <2>1, NextTurn
<1> QED BY <1>3, <1>4, <1>5

\* The views of the count and of the first j arguments.
ViewsOf(args, at, j) ==
  [m \in 1..(j + 1) |-> IF m = 1 THEN View(2, 1) ELSE View(at[m - 2] + 5, Len(args[m - 1]))]

\* The next argument adds its view.
LEMMA ViewsGrow ==
  ASSUME NEW args, IsCommand(args), NEW at \in [0..Len(args) -> Nat], NEW j \in 1..Len(args)
  PROVE  Append(ViewsOf(args, at, j - 1), View(at[j - 1] + 5, Len(args[j])))
           = ViewsOf(args, at, j)
<1> DEFINE V == {View(x, y) : x \in Nat, y \in Nat}
           w == ViewsOf(args, at, j - 1)
           z == ViewsOf(args, at, j)
           v == View(at[j - 1] + 5, Len(args[j]))
<1>0. Len(args) \in Nat /\ \A m \in 1..Len(args) : Len(args[m]) \in Nat
  BY DEF IsCommand
<1>10. \A x \in Nat, y \in Nat : View(x, y) \in V
  OBVIOUS
<1> HIDE DEF V
<1>1. ASSUME NEW m \in 1..(j + 1)
      PROVE  (IF m = 1 THEN View(2, 1) ELSE View(at[m - 2] + 5, Len(args[m - 1]))) \in V
  <2>1. CASE m = 1
    BY <1>10, <2>1
  <2>2. CASE m # 1
    <3>1. m - 2 \in 0..Len(args) /\ m - 1 \in 1..Len(args)
      BY <1>0, <2>2
    <3>2. at[m - 2] + 5 \in Nat /\ Len(args[m - 1]) \in Nat
      <4>1. at[m - 2] \in Nat
        BY <3>1
      <4>2. Len(args[m - 1]) \in Nat
        BY <1>0, <3>1
      <4> QED BY <4>1, <4>2
    <3> QED BY <1>10, <2>2, <3>2
  <2> QED BY <2>1, <2>2
<1>2. v \in V
  <2>1. j - 1 \in 0..Len(args)
    BY <1>0
  <2>2. at[j - 1] + 5 \in Nat /\ Len(args[j]) \in Nat
    BY <1>0, <2>1
  <2> QED BY <1>10, <2>2
<1> DEFINE Is(m) == IF m = 1 THEN View(2, 1) ELSE View(at[m - 2] + 5, Len(args[m - 1]))
<1>3. /\ w = [m \in 1..j |-> Is(m)] /\ z = [m \in 1..(j + 1) |-> Is(m)]
      /\ \A m \in 1..(j + 1) : Is(m) \in V
  <2>1. (j - 1) + 1 = j
    BY <1>0
  <2> QED BY <1>1, <2>1 DEF ViewsOf
<1>4. Is(j + 1) = v
  BY <1>0
<1> HIDE DEF V, Is, v, w, z
<1>5. w \in Seq(V) /\ Len(w) = j /\ z \in Seq(V) /\ Len(z) = j + 1
  BY <1>0, <1>3
<1>6. /\ Append(w, v) \in Seq(V) /\ Len(Append(w, v)) = j + 1
      /\ \A m \in 1..j : Append(w, v)[m] = w[m]
      /\ Append(w, v)[j + 1] = v
  BY <1>2, <1>5, AppendProperties
<1>7. ASSUME NEW m \in 1..(j + 1) PROVE Append(w, v)[m] = z[m]
  <2>1. CASE m = j + 1
    BY <1>3, <1>4, <1>6, <2>1
  <2>2. CASE m \in 1..j
    BY <1>3, <1>6, <2>2
  <2> QED BY <2>1, <2>2
<1>8. Append(w, v) = z
  BY <1>5, <1>6, <1>7, SeqEqual
<1> QED BY <1>8 DEF v, w, z


\* The loop over one bulk string of the command.
LEMMA BulkWalk ==
  ASSUME NEW b, NEW s \in Nat, NEW l, IsLoop(b, s, l), NEW k \in Nat,
         NEW p \in Nat, NEW arg, NEW len \in 1..9, len = Len(arg),
         HoldsBulk(b, p, arg), arg[len] \notin TypeBytes, p + len + 5 <= s,
         NEW r, k <= p, NEW y \in Nat, y = p + 1, Reached(l, k, y, r),
         NEW h \in Nat, h = k + 3, NEW z \in Nat, z = p + len + 6,
         NEW v, v = Append(r, View(p + 5, len))
  PROVE  Reached(l, h, z, v)
<1>1. k + 3 <= s
  OBVIOUS
<1>2. l[k + 3] = Turn(b, s, Turn(b, s, Turn(b, s, l[k])))
  BY <1>1, ThreeTurns
<1>3. MovesIn3(b, s, y, r, z, v)
  <2>1. /\ s \in Nat /\ p \in Nat /\ len \in 1..9 /\ len = Len(arg)
        /\ HoldsBulk(b, p, arg) /\ arg[len] \notin TypeBytes /\ p + len + 5 <= s
        /\ y \in Nat /\ y = p + 1 /\ z \in Nat /\ z = p + len + 6
        /\ v = Append(r, View(p + 5, len))
    OBVIOUS
  <2> QED BY <2>1, BulkTurns
<1> QED BY <1>2, <1>3 DEF MovesIn3, Reached

\* What begins with the encoding holds its bulk strings.
LEMMA BulkThere ==
  ASSUME NEW args, IsCommand(args), NEW e, NEW at, Layout(args, e, at), NEW b,
         \A i \in 1..Len(e) : b[i] = e[i], NEW j \in 1..Len(args)
  PROVE  HoldsBulk(b, at[j - 1], args[j])
<1>1. PICK p \in Nat : p = at[j - 1]
  <2>1. Len(args) \in Nat /\ at \in [0..Len(args) -> Nat]
    BY DEF Layout, IsCommand
  <2>2. j - 1 \in 0..Len(args)
    BY <2>1
  <2>3. at[j - 1] \in Nat
    BY <2>1, <2>2
  <2> QED BY <2>3
<1>2. PICK len \in 1..9 : len = Len(args[j])
  BY DEF IsCommand
<1>3. HoldsBulk(e, p, args[j]) /\ p + len + 6 <= Len(e) /\ Len(e) \in Nat
  BY <1>1, <1>2 DEF Layout
<1>4. ASSUME NEW m \in 1..(len + 6) PROVE b[p + m] = e[p + m]
  <2>1. p + m \in 1..Len(e)
    BY <1>3
  <2> QED BY <2>1
<1>5. b[p + 1] = e[p + 1] /\ b[p + 2] = e[p + 2] /\ b[p + 3] = e[p + 3] /\ b[p + 4] = e[p + 4]
  <2>1. 1 \in 1..(len + 6) /\ 2 \in 1..(len + 6) /\ 3 \in 1..(len + 6) /\ 4 \in 1..(len + 6)
    BY <1>2
  <2> QED BY <1>4, <2>1
<1>6. ASSUME NEW m \in 1..len PROVE b[p + 4 + m] = e[p + 4 + m]
  <2>1. 4 + m \in 1..(len + 6) /\ p + (4 + m) = p + 4 + m
    BY <1>2
  <2>2. b[p + (4 + m)] = e[p + (4 + m)]
    BY <1>4, <2>1
  <2> QED BY <2>1, <2>2
<1>7. b[p + len + 5] = e[p + len + 5] /\ b[p + len + 6] = e[p + len + 6]
  <2>1. /\ len + 5 \in 1..(len + 6) /\ p + (len + 5) = p + len + 5
        /\ len + 6 \in 1..(len + 6) /\ p + (len + 6) = p + len + 6
    BY <1>2
  <2>2. b[p + (len + 5)] = e[p + (len + 5)] /\ b[p + (len + 6)] = e[p + (len + 6)]
    BY <1>4, <2>1
  <2> QED BY <2>1, <2>2
<1>8. HoldsBulk(b, p, args[j])
  BY <1>2, <1>3, <1>5, <1>6, <1>7 DEF HoldsBulk
<1> QED BY <1>1, <1>8

\* The scan of a command with plain arguments finds the count and the arguments.
LEMMA Walk ==
  ASSUME NEW args, IsCommand(args), Plain(args), NEW e, NEW at, Layout(args, e, at), NEW b,
         \A i \in 1..Len(e) : b[i] = e[i], NEW s \in Nat, s = Len(e) - 1
  PROVE  Scan(b, s) = ViewsOf(args, at, Len(args))
<1>1. PICK n \in 1..9 : n = Len(args)
  BY DEF IsCommand
<1>2. PICK l : l = Turns(b, s)
  OBVIOUS
<1>3. l[0] = LoopAt(1, <<>>) /\ IsLoop(b, s, l)
  BY <1>2, LoopFacts DEF LoopAt, IsLoop
<1>4. at \in [0..n -> Nat] /\ at[0] = 4 /\ at[n] = s + 1
  BY <1>1 DEF Layout
<1>5. ASSUME NEW j \in 1..n
      PROVE  /\ at[j - 1] \in Nat /\ Len(args[j]) \in 1..9
             /\ at[j] = at[j - 1] + Len(args[j]) + 6 /\ at[j] <= s + 1
             /\ HoldsBulk(b, at[j - 1], args[j])
             /\ args[j][Len(args[j])] \notin TypeBytes
  <2>1. j \in 1..Len(args)
    BY <1>1
  <2>2. HoldsBulk(b, at[j - 1], args[j])
    BY <2>1, BulkThere
  <2>3. args[j][Len(args[j])] \notin TypeBytes
    BY <2>1 DEF Plain, IsCommand
  <2>4. at[j - 1] \in Nat
    <3>1. j - 1 \in 0..n
      BY <1>1
    <3> QED BY <1>4, <3>1
  <2>5. Len(args[j]) \in 1..9
    BY <2>1 DEF IsCommand
  <2>6. at[j] = at[j - 1] + Len(args[j]) + 6 /\ at[j] <= s + 1
    BY <2>1 DEF Layout
  <2> QED BY <2>2, <2>3, <2>4, <2>5, <2>6
<1> DEFINE w(j) == ViewsOf(args, at, j)
           Has == {j \in 0..(n - 1) : \E k \in 0..at[j] : l[k] = LoopAt(at[j] + 1, w(j))}
<1>6. ASSUME NEW j \in 1..n
      PROVE  Append(w(j - 1), View(at[j - 1] + 5, Len(args[j]))) = w(j)
  <2>1. j \in 1..Len(args) /\ at \in [0..Len(args) -> Nat]
    BY <1>1, <1>4
  <2> QED BY <2>1, ViewsGrow
<1>7. w(0) = <<View(2, 1)>>
  <2>1. ViewsOf(args, at, 0) = [m \in 1..1 |-> View(2, 1)]
    <3>1. 1..(0 + 1) = 1..1 /\ \A m \in 1..1 : m = 1
      OBVIOUS
    <3> QED BY <3>1 DEF ViewsOf
  <2>2. [m \in 1..1 |-> View(2, 1)] = <<View(2, 1)>>
    OBVIOUS
  <2> QED BY <2>1, <2>2
<1> HIDE DEF w
\* One bulk string, from the byte before it.
<1>8. ASSUME NEW j \in 1..n, NEW k \in 0..at[j - 1], l[k] = LoopAt(at[j - 1] + 1, w(j - 1))
      PROVE  l[k + 3] = LoopAt(at[j], w(j)) /\ k + 3 \in 0..s /\ k + 4 <= at[j]
  <2>1. PICK p \in Nat : p = at[j - 1]
    BY <1>5
  <2>2. PICK len \in 1..9 : len = Len(args[j])
    BY <1>5
  <2>3. PICK arg : arg = args[j]
    OBVIOUS
  <2>4. PICK r : r = w(j - 1)
    OBVIOUS
  <2>5. /\ k \in Nat /\ k <= p /\ len = Len(arg) /\ HoldsBulk(b, p, arg)
        /\ arg[len] \notin TypeBytes /\ p + len + 5 <= s /\ l[k] = LoopAt(p + 1, r)
    <3>1. k \in Nat /\ k <= p
      BY <2>1
    <3>2. len = Len(arg) /\ HoldsBulk(b, p, arg) /\ arg[len] \notin TypeBytes
      BY <1>5, <2>1, <2>2, <2>3
    <3>3. p + len + 5 <= s
      <4>1. at[j] = at[j - 1] + Len(args[j]) + 6 /\ at[j] <= s + 1
        BY <1>5
      <4>2. p + len + 6 <= s + 1
        BY <2>1, <2>2, <4>1
      <4> QED BY <4>2
    <3>4. l[k] = LoopAt(p + 1, r)
      BY <1>8, <2>1, <2>4
    <3> QED BY <3>1, <3>2, <3>3, <3>4
  <2>6. l[k + 3] = LoopAt(p + len + 6, Append(r, View(p + 5, len)))
    <3>1. p + 1 \in Nat /\ p + len + 6 \in Nat /\ k + 3 \in Nat
      BY <2>5
    <3>2. PICK y \in Nat, z \in Nat, h \in Nat :
            y = p + 1 /\ z = p + len + 6 /\ h = k + 3
      BY <3>1
    <3>5. PICK v : v = Append(r, View(p + 5, len))
      OBVIOUS
    <3>3. /\ IsLoop(b, s, l) /\ s \in Nat /\ k \in Nat /\ p \in Nat /\ len \in 1..9
          /\ len = Len(arg) /\ HoldsBulk(b, p, arg) /\ arg[len] \notin TypeBytes
          /\ p + len + 5 <= s /\ k <= p /\ y \in Nat /\ y = p + 1 /\ Reached(l, k, y, r)
          /\ h \in Nat /\ h = k + 3 /\ z \in Nat /\ z = p + len + 6
          /\ v = Append(r, View(p + 5, len))
      BY <1>3, <2>5, <3>2, <3>5 DEF Reached
    <3>4. Reached(l, h, z, v)
      BY <3>3, BulkWalk
    <3> QED BY <3>2, <3>4, <3>5 DEF Reached
  <2>7. at[j] = p + len + 6 /\ Append(r, View(p + 5, len)) = w(j)
    BY <1>5, <1>6, <2>1, <2>2, <2>4
  <2>8. k + 3 \in 0..s /\ k + 4 <= p + len + 6
    BY <2>5
  <2> QED BY <2>6, <2>7, <2>8
<1>9. 0 \in Has
  <2>1. s >= 4 /\ b[1] = "*" /\ b[2] # "r" /\ b[3] = "r" /\ b[4] = "n"
    <3>1. 1 \in 1..n
      BY <1>1
    <3>2. at[1] <= s + 1 /\ at[1] >= 11
      <4>1. /\ at[1] = at[1 - 1] + Len(args[1]) + 6 /\ at[1] <= s + 1 /\ Len(args[1]) \in 1..9
        BY <1>5, <3>1
      <4>2. at[1 - 1] = 4
        BY <1>4
      <4>3. PICK a \in 1..9 : a = Len(args[1])
        BY <4>1
      <4>4. at[1] = 4 + a + 6
        BY <4>1, <4>2, <4>3
      <4>5. 4 + a + 6 >= 11
        OBVIOUS
      <4>6. at[1] >= 11
        BY <4>4, <4>5
      <4>7. at[1] <= s + 1
        BY <4>1
      <4> QED BY <4>6, <4>7
    <3>3. s >= 4 /\ 1 \in 1..Len(e) /\ 2 \in 1..Len(e) /\ 3 \in 1..Len(e) /\ 4 \in 1..Len(e)
      <4>1. PICK a1 \in Int : a1 = at[1] /\ a1 <= s + 1 /\ a1 >= 11
        <5>1. 1 \in 0..n
          BY <3>1
        <5> QED BY <1>4, <3>2, <5>1
      <4>2. s >= 10 /\ Len(e) = s + 1
        <5>1. Len(e) \in Int
          BY DEF Layout
        <5> QED BY <4>1, <5>1
      <4> QED BY <4>2
    <3>4. e[1] = "*" /\ e[2] = Digits[n] /\ e[3] = "r" /\ e[4] = "n"
      BY <1>1 DEF Layout
    <3> QED BY <3>3, <3>4, DigitFacts
  <2>2. Turn(b, s, LoopAt(1, <<>>)) = LoopAt(5, <<View(2, 1)>>)
    BY <2>1, HeaderTurn
  <2>3. l[0 + 1] = Turn(b, s, l[0])
    <3>1. 1 \in 1..s /\ 1 - 1 = 0 /\ 0 + 1 = 1
      BY <2>1
    <3> QED BY <1>3, <3>1 DEF IsLoop
  <2>4. l[1] = LoopAt(at[0] + 1, w(0)) /\ 1 \in 0..at[0]
    BY <1>3, <1>4, <1>7, <2>2, <2>3
  <2>5. 0 \in 0..(n - 1)
    BY <1>1
  <2> QED BY <2>4, <2>5
<1>10. ASSUME NEW j \in 1..(n - 1), j - 1 \in Has PROVE j \in Has
  <2>1. PICK k \in 0..at[j - 1] : l[k] = LoopAt(at[j - 1] + 1, w(j - 1))
    BY <1>10
  <2>2. j \in 1..n /\ j + 1 \in 1..n /\ (j + 1) - 1 = j /\ j \in 0..(n - 1)
    BY <1>1
  <2>3. l[k + 3] = LoopAt(at[j], w(j)) /\ k + 3 \in 0..s /\ k + 4 <= at[j]
    BY <1>8, <2>1, <2>2
  <2>4. PICK x \in Nat : x = at[j] /\ x <= s
    <3>1. at[j] \in Nat
      BY <1>4, <2>2
    <3>2. /\ at[j + 1] = at[(j + 1) - 1] + Len(args[j + 1]) + 6 /\ at[j + 1] <= s + 1
          /\ Len(args[j + 1]) \in 1..9
      BY <1>5, <2>2
    <3>3. at[(j + 1) - 1] = at[j]
      BY <2>2
    <3>4. at[j] <= s
      BY <3>1, <3>2, <3>3
    <3> QED BY <3>1, <3>4
  <2>5. b[x] \notin TypeBytes
    <3>1. HoldsBulk(b, at[j - 1], args[j]) /\ x = at[j - 1] + Len(args[j]) + 6
      BY <1>5, <2>2, <2>4
    <3>2. b[x] = "n"
      BY <3>1 DEF HoldsBulk
    <3> QED BY <3>2 DEF TypeBytes, LineTypes
  <2>6. PICK v : v = w(j)
    OBVIOUS
  <2>7. Turn(b, s, LoopAt(x, v)) = LoopAt(x + 1, v)
    BY <2>4, <2>5, PlainTurn
  <2>8. PICK m \in Nat : m = k + 3 /\ m + 1 <= x
    BY <2>3, <2>4
  <2>9. l[m + 1] = Turn(b, s, l[m])
    <3>1. m + 1 \in 1..s /\ (m + 1) - 1 = m
      BY <2>4, <2>8
    <3> QED BY <1>3, <3>1 DEF IsLoop
  <2>10. l[m + 1] = LoopAt(at[j] + 1, w(j)) /\ m + 1 \in 0..at[j]
    BY <2>3, <2>4, <2>6, <2>7, <2>8, <2>9
  <2> QED BY <2>2, <2>10
<1>11. n - 1 \in Has
  <2>1. n - 1 \in Nat /\ n - 1 \in 0..(n - 1)
    BY <1>1
  <2>2. PICK h \in Nat : h = n - 1
    BY <2>1
  <2>3. \A j \in 1..h : j - 1 \in Has => j \in Has
    BY <1>10, <2>2
  <2> HIDE DEF Has
  <2>4. 0..h \subseteq Has
    BY <1>9, <2>3, Upward
  <2> QED BY <2>1, <2>2, <2>4
<1>12. PICK k \in 0..at[n - 1] : l[k] = LoopAt(at[n - 1] + 1, w(n - 1))
  BY <1>11
<1>13. l[k + 3] = LoopAt(at[n], w(n)) /\ k + 3 \in 0..s
  <2>1. n \in 1..n
    BY <1>1
  <2> QED BY <1>8, <1>12, <2>1
<1>14. PICK m \in 0..s : m = k + 3
  BY <1>13
<1>15. l[m].i > s /\ l[m].result = w(n)
  BY <1>4, <1>13, <1>14 DEF LoopAt
<1>16. l[s] = l[m]
  <2>1. m \in 0..s /\ l[m].i > s /\ IsLoop(b, s, l)
    BY <1>3, <1>15
  <2>2. Same(l, s, m)
    BY <2>1, LoopStays
  <2> QED BY <2>2 DEF Same
<1>17. Scan(b, s) = w(n)
  BY <1>2, <1>15, <1>16 DEF Scan
<1> QED BY <1>1, <1>17 DEF w


-----------------------------------------------------------------------------
(* Redis: what a plain command is taken for.                               *)

\* The first size bytes of b are the command args, whose j-th argument begins behind byte
\* at[j - 1] + 4.
Holds(b, size, args, at) ==
  /\ at \in [0..Len(args) -> Nat] /\ b[2] = Digits[Len(args)] /\ size > 4
  /\ \A j \in 1..Len(args) :
       /\ at[j - 1] + 4 + Len(args[j]) <= size
       /\ \A m \in 1..Len(args[j]) : b[at[j - 1] + 4 + m] = args[j][m]

\* parse finds the views of a plain command, whatever stands behind it in the buffer.
LEMMA CommandViews ==
  ASSUME NEW args, IsCommand(args), Plain(args), NEW b \in Seq(Bytes), NEW size \in 1..Len(b),
         SubSeq(b, 1, size) = Encode(args)
  PROVE  \E at : /\ Holds(b, size, args, at)
                 /\ Parse(b, Trimmed(b, size)) = ViewsOf(args, at, Len(args))
<1>1. PICK n \in 1..9 : n = Len(args)
  BY DEF IsCommand
<1>2. PICK e : e = Encode(args)
  OBVIOUS
<1>3. PICK at : Layout(args, e, at)
  BY <1>2, EncodeFacts
<1>4. Len(e) = size /\ \A i \in 1..size : e[i] = b[i]
  BY <1>2
<1>5. /\ at \in [0..n -> Nat] /\ at[0] = 4 /\ at[n] = size /\ e[2] = Digits[n]
      /\ \A j \in 1..n : /\ at[j] = at[j - 1] + Len(args[j]) + 6 /\ at[j] <= size
                         /\ HoldsBulk(e, at[j - 1], args[j])
  BY <1>1, <1>3, <1>4 DEF Layout
<1>6. \A j \in 1..n : Len(args[j]) \in 1..9 /\ at[j - 1] \in Nat
  <2>1. \A j \in 1..n : Len(args[j]) \in 1..9
    BY <1>1 DEF IsCommand
  <2>2. \A j \in 1..n : j - 1 \in 0..n
    BY <1>1
  <2> QED BY <1>5, <2>1, <2>2
<1>7. size > 4 /\ size - 1 \in Nat
  <2>1. 1 \in 1..n /\ 1 - 1 = 0
    BY <1>1
  <2>2. at[1] = 4 + Len(args[1]) + 6 /\ at[1] <= size /\ Len(args[1]) \in 1..9
    BY <1>5, <1>6, <2>1
  <2>3. 4 + Len(args[1]) + 6 <= size
    BY <2>2
  <2> QED BY <2>2, <2>3
<1>8. b[size] = "n"
  <2>1. n \in 1..n
    BY <1>1
  <2>2. HoldsBulk(e, at[n - 1], args[n]) /\ size = at[n - 1] + Len(args[n]) + 6
    BY <1>5, <2>1
  <2>3. e[size] = "n"
    BY <2>2 DEF HoldsBulk
  <2> QED BY <1>4, <1>7, <2>3
<1>9. PICK s \in Nat : s = size - 1 /\ s = Len(e) - 1 /\ s >= 4
  BY <1>4, <1>7
<1>10. Trimmed(b, size) = s
  BY <1>8, <1>9 DEF Trimmed
<1>11. SubSeq(b, 1, s) # <<"P">>
  <2>1. Len(SubSeq(b, 1, s)) = s /\ s # 1
    BY <1>9
  <2> QED BY <2>1
<1>12. Scan(b, s) = ViewsOf(args, at, Len(args))
  <2>1. \A i \in 1..Len(e) : b[i] = e[i]
    BY <1>4
  <2> QED BY <1>3, <1>9, <2>1, Walk
<1>13. Parse(b, Trimmed(b, size)) = ViewsOf(args, at, Len(args))
  BY <1>10, <1>11, <1>12 DEF Parse
<1>14. ASSUME NEW j \in 1..n
       PROVE  /\ at[j - 1] + 4 + Len(args[j]) <= size
              /\ \A m \in 1..Len(args[j]) : b[at[j - 1] + 4 + m] = args[j][m]
  <2>1. PICK p \in Nat, len \in 1..9 : p = at[j - 1] /\ len = Len(args[j])
    BY <1>6
  <2>2. p + len + 6 <= size /\ HoldsBulk(e, p, args[j])
    BY <1>5, <2>1
  <2>3. ASSUME NEW m \in 1..len PROVE b[p + 4 + m] = args[j][m]
    <3>1. p + 4 + m \in 1..size
      BY <2>2
    <3>2. e[p + 4 + m] = args[j][m]
      BY <2>1, <2>2 DEF HoldsBulk
    <3> QED BY <1>4, <3>1, <3>2
  <2> QED BY <2>1, <2>2, <2>3
<1>15. b[2] = Digits[n]
  BY <1>4, <1>5, <1>7
<1>16. Holds(b, size, args, at)
  BY <1>1, <1>5, <1>7, <1>14, <1>15 DEF Holds
<1> QED BY <1>13, <1>16

\* Every such view lies in the buffer and shows its argument.
LEMMA ViewShows ==
  ASSUME NEW args, IsCommand(args), NEW b \in Seq(Bytes), NEW size \in 1..Len(b),
         NEW at, Holds(b, size, args, at), NEW j \in 1..Len(args)
  PROVE  LET v == ViewsOf(args, at, Len(args))[j + 1]
         IN v # Endless /\ v # Ping /\ v.at # 0 /\ Inside(b, v) /\ Text(b, v) = args[j]
<1>1. PICK n \in 1..9 : n = Len(args)
  BY DEF IsCommand
<1>2. PICK p \in Nat : p = at[j - 1]
  <2>1. at \in [0..n -> Nat] /\ j - 1 \in 0..n
    BY <1>1 DEF Holds
  <2>2. at[j - 1] \in Nat
    BY <2>1
  <2> QED BY <2>2
<1>3. PICK len \in 1..9 : len = Len(args[j])
  BY DEF IsCommand
<1>4. args[j] \in Seq(Bytes)
  BY DEF IsCommand
<1>5. p + 4 + len <= size /\ \A m \in 1..len : b[p + 4 + m] = args[j][m]
  BY <1>2, <1>3 DEF Holds
<1>6. ViewsOf(args, at, n)[j + 1] = View(p + 5, len)
  <2>1. j + 1 \in 1..(n + 1) /\ j + 1 # 1 /\ (j + 1) - 2 = j - 1 /\ (j + 1) - 1 = j
    BY <1>1
  <2> QED BY <1>2, <1>3, <2>1 DEF ViewsOf
<1>7. PICK v : v = View(p + 5, len)
  OBVIOUS
<1>8. v.at = p + 5 /\ v.len = len
  BY <1>7 DEF View
<1>9. v.at # 0 /\ v # Endless /\ v # Ping /\ v # Error
  <2>1. v.at # 0 /\ Endless.at = 0 /\ Ping.at = 0 /\ Error.at = 0
    BY <1>8 DEF Endless, Ping, Error, View
  <2> QED BY <2>1
<1>10. Inside(b, v)
  BY <1>5, <1>8 DEF Inside
<1>11. Text(b, v) = SubSeq(b, p + 5, p + 4 + len)
  <2>1. v.at + v.len - 1 = p + 4 + len
    BY <1>8
  <2>2. Text(b, v) = SubSeq(b, v.at, v.at + v.len - 1)
    BY <1>9, Zenon DEF Text
  <2> QED BY <1>8, <2>1, <2>2
<1>12. SubSeq(b, p + 5, p + 4 + len) = args[j]
  <2>1. PICK x \in Nat, y \in Nat : x = p + 5 /\ y = p + 4 + len
    <3>1. p + 5 \in Nat /\ p + 4 + len \in Nat
      OBVIOUS
    <3> QED BY <3>1
  <2>2. x \in 1..Len(b) /\ y \in 1..Len(b) /\ y - x + 1 = len
    <3>1. PICK z \in Nat : z = Len(b) /\ size <= z
      OBVIOUS
    <3>2. p + 4 + len <= z
      BY <1>5, <3>1
    <3>3. x \in 1..z /\ y \in 1..z /\ y - x + 1 = len
      BY <2>1, <3>2
    <3> QED BY <3>1, <3>3
  <2>3. PICK t : t = SubSeq(b, x, y)
    OBVIOUS
  <2>4. t \in Seq(Bytes) /\ Len(t) = len /\ \A m \in 1..len : t[m] = b[x + m - 1]
    BY <2>2, <2>3
  <2>5. ASSUME NEW m \in 1..len PROVE t[m] = args[j][m]
    <3>1. x + m - 1 = p + 4 + m
      BY <2>1
    <3> QED BY <1>5, <2>4, <3>1
  <2>6. t = args[j]
    BY <1>3, <1>4, <2>4, <2>5, SeqEqual
  <2> QED BY <2>1, <2>3, <2>6
<1> QED BY <1>1, <1>6, <1>7, <1>9, <1>10, <1>11, <1>12


\* The view of the count.
LEMMA CountShows ==
  ASSUME NEW args, IsCommand(args), NEW b \in Seq(Bytes), NEW size \in 1..Len(b),
         NEW at, Holds(b, size, args, at)
  PROVE  /\ ViewsOf(args, at, Len(args))[1] = View(2, 1)
         /\ View(2, 1) # Endless /\ View(2, 1) # Ping /\ View(2, 1).at = 2
         /\ Inside(b, View(2, 1))
         /\ Text(b, View(2, 1)) = <<Digits[Len(args)]>>
<1>1. PICK n \in 1..9 : n = Len(args)
  BY DEF IsCommand
<1>2. 1 \in 1..(n + 1)
  BY <1>1
<1>3. ViewsOf(args, at, n)[1] = View(2, 1)
  BY <1>2 DEF ViewsOf
<1>4. PICK v : v = View(2, 1)
  OBVIOUS
<1>5. v.at = 2 /\ v.len = 1
  BY <1>4 DEF View
<1>6. v # Endless /\ v # Ping /\ v # Error
  <2>1. Endless.at = 0 /\ Ping.at = 0 /\ Error.at = 0
    BY DEF Endless, Ping, Error, View
  <2> QED BY <1>5, <2>1
<1>7. size > 4 /\ Len(b) > 4 /\ b[2] = Digits[n]
  BY <1>1 DEF Holds
<1>8. Inside(b, v)
  BY <1>5, <1>7 DEF Inside
<1>9. Text(b, v) = SubSeq(b, 2, 2)
  <2>1. v.at + v.len - 1 = 2
    BY <1>5
  <2>2. Text(b, v) = SubSeq(b, v.at, v.at + v.len - 1)
    BY <1>6, Zenon DEF Text
  <2> QED BY <1>5, <2>1, <2>2
<1>10. SubSeq(b, 2, 2) = <<b[2]>>
  <2>1. PICK t : t = SubSeq(b, 2, 2)
    OBVIOUS
  <2>2. t \in Seq(Bytes) /\ Len(t) = 1 /\ t[1] = b[2] /\ b[2] \in Bytes
    BY <1>7, <2>1
  <2>3. PICK u : u = <<b[2]>>
    OBVIOUS
  <2>4. u \in Seq(Bytes) /\ Len(u) = 1 /\ u[1] = b[2]
    BY <2>2, <2>3
  <2>5. \A m \in 1..1 : t[m] = u[m]
    BY <2>2, <2>4
  <2>6. t = u
    BY <2>2, <2>4, <2>5, SeqEqual
  <2> QED BY <2>1, <2>3, <2>6
<1> QED BY <1>1, <1>3, <1>4, <1>5, <1>6, <1>7, <1>8, <1>9, <1>10

\* Their texts are the count and the arguments.
LEMMA CommandTexts ==
  ASSUME NEW args, IsCommand(args), Plain(args), NEW b \in Seq(Bytes), NEW size \in 1..Len(b),
         SubSeq(b, 1, size) = Encode(args)
  PROVE  Texts(b, Parse(b, Trimmed(b, size))) = <<<<Digits[Len(args)]>>>> \o args
<1>1. PICK n \in 1..9 : n = Len(args)
  BY DEF IsCommand
<1>2. PICK at : /\ Holds(b, size, args, at)
                /\ Parse(b, Trimmed(b, size)) = ViewsOf(args, at, Len(args))
  BY CommandViews
<1>3. PICK views : views = ViewsOf(args, at, n)
  OBVIOUS
<1>4. DOMAIN views = 1..(n + 1)
  BY <1>3 DEF ViewsOf
<1>5. PICK t : t = Texts(b, views)
  OBVIOUS
<1>6. /\ t = [v \in 1..(n + 1) |-> t[v]]
      /\ \A v \in 1..(n + 1) :
           views[v] # Endless /\ Inside(b, views[v]) => t[v] = Text(b, views[v])
  <2> DEFINE f == [v \in 1..(n + 1) |-> IF views[v] # Endless /\ Inside(b, views[v])
                                        THEN Text(b, views[v]) ELSE <<>>]
  <2>1. t = f
    BY <1>4, <1>5 DEF Texts
  <2>2. /\ f = [v \in 1..(n + 1) |-> f[v]]
        /\ \A v \in 1..(n + 1) :
             views[v] # Endless /\ Inside(b, views[v]) => f[v] = Text(b, views[v])
    OBVIOUS
  <2> HIDE DEF f
  <2> QED BY <2>1, <2>2
<1>7. PICK d \in Bytes : d = Digits[n]
  BY <1>1, DigitFacts
<1>8. t[1] = <<d>>
  <2>1. 1 \in 1..(n + 1)
    BY <1>1
  <2>2. /\ views[1] # Endless /\ Inside(b, views[1])
        /\ Text(b, views[1]) = <<d>>
    BY <1>1, <1>2, <1>3, <1>7, CountShows
  <2> QED BY <1>6, <2>1, <2>2
<1>9. ASSUME NEW j \in 1..n PROVE t[j + 1] = args[j]
  <2>1. j + 1 \in 1..(n + 1) /\ j \in 1..Len(args)
    BY <1>1
  <2>2. views[j + 1] # Endless /\ Inside(b, views[j + 1]) /\ Text(b, views[j + 1]) = args[j]
    BY <1>1, <1>2, <1>3, <2>1, ViewShows
  <2> QED BY <1>6, <2>1, <2>2
<1>10. args \in Seq(Seq(Bytes)) /\ <<d>> \in Seq(Bytes) /\ \A j \in 1..n : args[j] \in Seq(Bytes)
  BY <1>1 DEF IsCommand
<1> DEFINE first == <<<<d>>>>
<1>11. first \in Seq(Seq(Bytes)) /\ Len(first) = 1 /\ first[1] = <<d>>
  BY <1>10
<1> HIDE DEF first
<1> DEFINE c == first \o args
<1>12. /\ c \in Seq(Seq(Bytes)) /\ Len(c) = n + 1 /\ c[1] = <<d>>
       /\ \A j \in 1..n : c[j + 1] = args[j]
  <2>1. /\ c \in Seq(Seq(Bytes)) /\ Len(c) = 1 + n
        /\ \A i \in 1..(1 + n) : c[i] = IF i <= 1 THEN first[i] ELSE args[i - 1]
    <3>0. PICK S : S = Seq(Bytes)
      OBVIOUS
    <3>1. PICK u \in Seq(S), w \in Seq(S) : u = first /\ w = args
      BY <1>10, <1>11, <3>0
    <3>2. /\ u \o w \in Seq(S) /\ Len(u \o w) = Len(u) + Len(w)
          /\ \A i \in 1..(Len(u) + Len(w)) : (u \o w)[i] = IF i <= Len(u) THEN u[i]
                                                         ELSE w[i - Len(u)]
      BY <3>1, ConcatProperties
    <3>3. u \o w = c /\ Len(u) = 1 /\ Len(w) = n
      BY <1>1, <1>11, <3>1
    <3> HIDE DEF c
    <3> QED BY <3>0, <3>1, <3>2, <3>3
  <2> HIDE DEF c
  <2>2. 1 \in 1..(1 + n) /\ 1 + n = n + 1
    BY <1>1
  <2>3. ASSUME NEW j \in 1..n PROVE c[j + 1] = args[j]
    <3>1. j + 1 \in 1..(1 + n) /\ ~(j + 1 <= 1) /\ (j + 1) - 1 = j
      BY <1>1
    <3> QED BY <2>1, <3>1
  <2>4. c[1] = <<d>>
    BY <1>11, <2>1, <2>2
  <2> QED BY <2>1, <2>2, <2>3, <2>4
<1> HIDE DEF c
<1>13. ASSUME NEW i \in 1..(n + 1) PROVE t[i] = c[i] /\ t[i] \in Seq(Bytes)
  <2>1. CASE i = 1
    BY <1>8, <1>10, <1>12, <2>1
  <2>2. CASE i # 1
    <3>1. PICK j \in 1..n : i = j + 1
      <4>1. i - 1 \in 1..n /\ i = (i - 1) + 1
        BY <1>1, <2>2
      <4> QED BY <4>1
    <3> QED BY <1>9, <1>10, <1>12, <3>1
  <2> QED BY <2>1, <2>2
<1>14. t \in Seq(Seq(Bytes)) /\ Len(t) = n + 1
  <2>1. n + 1 \in Nat
    BY <1>1
  <2>2. t \in [1..(n + 1) -> Seq(Bytes)]
    BY <1>6, <1>13
  <2> QED BY <2>1, <2>2
<1>15. t = c
  BY <1>12, <1>13, <1>14, SeqEqual
<1> QED BY <1>1, <1>2, <1>3, <1>5, <1>7, <1>15 DEF c, first


-----------------------------------------------------------------------------
(* Redis: the server.                                                      *)

\* What clients send as commands are commands.
LEMMA CommandsAre == \A args \in Commands : IsCommand(args)
<1> SUFFICES ASSUME NEW args \in Commands PROVE IsCommand(args)
  OBVIOUS
<1>1. DOMAIN Digits = 1..9
  BY DEF Digits
<1>2. args \in Seq(Seq(Bytes)) /\ Len(args) \in 1..9
  BY <1>1, RequestAssumption
<1>3. DOMAIN args = 1..Len(args)
  BY <1>2
<1>4. \A j \in 1..Len(args) : Len(args[j]) \in 1..9
  BY <1>1, <1>3, RequestAssumption
<1> QED BY <1>2, <1>4 DEF IsCommand

\* Their encodings are bytes.
LEMMA EncodeType == ASSUME NEW args \in Commands PROVE Encode(args) \in Seq(Bytes)
<1>1. PICK e : e = Encode(args)
  OBVIOUS
<1>2. PICK at : Layout(args, e, at)
  BY <1>1, CommandsAre, EncodeFacts
<1> QED BY <1>1, <1>2 DEF Layout

\* A command is not nothing.
LEMMA EncodeNotEmpty == ASSUME NEW args \in Commands PROVE Encode(args) # <<>>
<1>1. PICK e : e = Encode(args)
  OBVIOUS
<1>2. IsCommand(args)
  BY CommandsAre
<1>3. PICK at : Layout(args, e, at)
  BY <1>1, <1>2, EncodeFacts
<1>4. PICK n \in 1..9 : n = Len(args)
  BY <1>2 DEF IsCommand
<1>5. n \in 1..n /\ n - 1 \in 0..n
  BY <1>4
<1>6. /\ at[n] = at[n - 1] + Len(args[n]) + 6 /\ at[n] = Len(e) /\ at[n - 1] \in Nat
      /\ Len(args[n]) \in 1..9
  BY <1>2, <1>3, <1>4, <1>5 DEF Layout, IsCommand
<1>7. Len(e) # 0
  BY <1>6
<1> QED BY <1>1, <1>7

\* Types, and that every path has left the offset at the front of the buffer.
RedisTypes ==
  /\ stream \in [Clients -> Seq(Bytes)] /\ evbuf \in [Clients -> Seq(Bytes)]
  /\ bufptr \in [1..buflen -> Bytes] /\ offset = 0

\* last and serverStatus are what readHD makes of the first size bytes of b.
Served(b, size, served, end) ==
  /\ served.bytes = SubSeq(b, 1, size)
  /\ served.reply = Execute(b, size).reply
  /\ served.views = Texts(b, Parse(b, Trimmed(b, size)))
  /\ end = Execute(b, size).status

\* A read moves bytes to the front of the buffer and serves them.
LEMMA ReadServes ==
  ASSUME RedisTypes, NEW c \in Clients, NEW n \in 1..Len(stream[c]), ReadCallback(c, n)
  PROVE  /\ RedisTypes'
         /\ \E b \in [1..buflen -> Bytes], size \in 1..buflen :
              Served(b, size, last', serverStatus')
<1> DEFINE input == evbuf[c] \o SubSeq(stream[c], 1, n)
           size == IF Len(input) < buflen THEN Len(input) ELSE buflen
           bytes == SubSeq(input, 1, size)
           b == [j \in 1..buflen |-> IF j \in offset + 1 .. offset + size
                                     THEN bytes[j - offset] ELSE bufptr[j]]
           answer == Execute(b, size)
<1>1. /\ stream' = [stream EXCEPT ![c] = SubSeq(@, n + 1, Len(@))]
      /\ evbuf' = [evbuf EXCEPT ![c] = SubSeq(input, size + 1, Len(input))]
      /\ bufptr' = b
      /\ offset' = ResetOffset(answer, size)
      /\ serverStatus' = answer.status
      /\ last' = [conn |-> c, bytes |-> bytes, reply |-> answer.reply,
                  views |-> Texts(b, Parse(b, Trimmed(b, size)))]
  BY Zenon DEF ReadCallback
<1>2. stream[c] \in Seq(Bytes) /\ evbuf[c] \in Seq(Bytes)
  BY DEF RedisTypes
<1>3. /\ SubSeq(stream[c], 1, n) \in Seq(Bytes) /\ Len(SubSeq(stream[c], 1, n)) = n
      /\ SubSeq(stream[c], n + 1, Len(stream[c])) \in Seq(Bytes)
  BY <1>2
<1>4. input \in Seq(Bytes) /\ Len(input) \in Nat \ {0}
  BY <1>2, <1>3
<1> HIDE DEF input
<1>5. size \in 1..buflen /\ size <= Len(input)
  BY <1>4, ServerAssumption
<1> HIDE DEF size
<1>6. /\ bytes \in Seq(Bytes) /\ Len(bytes) = size
      /\ SubSeq(input, size + 1, Len(input)) \in Seq(Bytes)
  BY <1>4, <1>5
<1> HIDE DEF bytes
<1>7. b \in [1..buflen -> Bytes] /\ \A j \in 1..size : b[j] = bytes[j]
  <2>1. b = [j \in 1..buflen |-> IF j \in 1..size THEN bytes[j] ELSE bufptr[j]]
    <3>1. /\ offset = 0 /\ offset + 1 = 1 /\ offset + size = size
          /\ \A j \in 1..buflen : j - offset = j
      BY <1>5 DEF RedisTypes
    <3> QED BY <3>1
  <2>2. \A j \in 1..size : bytes[j] \in Bytes
    BY <1>6
  <2>3. bufptr \in [1..buflen -> Bytes]
    BY DEF RedisTypes
  <2> HIDE DEF b
  <2>4. DOMAIN b = 1..buflen
        /\ \A j \in 1..buflen : b[j] = IF j \in 1..size THEN bytes[j] ELSE bufptr[j]
    BY <2>1
  <2>5. \A j \in 1..buflen : b[j] \in Bytes
    BY <2>2, <2>3, <2>4
  <2>6. b \in [1..buflen -> Bytes]
    <3>1. b = [j \in 1..buflen |-> b[j]]
      BY <2>1, <2>4
    <3> QED BY <2>5, <3>1
  <2>7. \A j \in 1..size : j \in 1..buflen
    BY <1>5, ServerAssumption
  <2> QED BY <2>4, <2>6, <2>7
<1> HIDE DEF b
<1>8. RedisTypes'
  BY <1>1, <1>3, <1>6, <1>7 DEF RedisTypes, ResetOffset
<1>9. bytes = SubSeq(b, 1, size)
  <2>1. b \in Seq(Bytes) /\ Len(b) = buflen
    BY <1>7, ServerAssumption
  <2>2. /\ SubSeq(b, 1, size) \in Seq(Bytes) /\ Len(SubSeq(b, 1, size)) = size
        /\ \A j \in 1..size : SubSeq(b, 1, size)[j] = b[j]
    BY <1>5, <2>1
  <2> QED BY <1>6, <1>7, <2>2, SeqEqual
<1>10. Served(b, size, last', serverStatus')
  BY <1>1, <1>9, Zenon DEF Served
<1> QED BY <1>5, <1>7, <1>8, <1>10

\* The types hold at first.
LEMMA RedisStart == RedisInit => RedisTypes
<1>1. <<>> \in Seq(Bytes)
  BY EmptySeq
<1>2. "z" \in Bytes
  BY DEF Bytes
<1> QED BY <1>1, <1>2 DEF RedisInit, RedisTypes

\* A client that sends changes nothing the server has read.
LEMMA SendKeepsTypes ==
  ASSUME RedisTypes, NEW c \in Clients, NEW request \in Requests, Send(c, request)
  PROVE  RedisTypes' /\ UNCHANGED <<last, serverStatus>>
<1>1. request \in Seq(Bytes)
  BY EncodeType, RequestAssumption DEF Requests
<1>2. stream[c] \o request \in Seq(Bytes)
  BY <1>1 DEF RedisTypes
<1> QED BY <1>2 DEF Send, RedisTypes

\* Every step leaves the last read alone or is a read that is served.
LEMMA RedisStep ==
  ASSUME RedisTypes, [RedisNext]_redisVars
  PROVE  /\ RedisTypes'
         /\ \/ UNCHANGED <<last, serverStatus>>
            \/ \E b \in [1..buflen -> Bytes], size \in 1..buflen :
                 Served(b, size, last', serverStatus')
<1>1. CASE UNCHANGED redisVars
  BY <1>1 DEF redisVars, RedisTypes
<1>2. CASE RedisNext
  <2>1. PICK c \in Clients : \/ \E request \in Requests : Send(c, request)
                             \/ \E n \in 1 .. Len(stream[c]) : ReadCallback(c, n)
    BY <1>2, Zenon DEF RedisNext
  <2>2. CASE \E request \in Requests : Send(c, request)
    BY <2>2, SendKeepsTypes
  <2>3. CASE \E n \in 1 .. Len(stream[c]) : ReadCallback(c, n)
    BY <2>3, ReadServes
  <2> QED BY <2>1, <2>2, <2>3
<1> QED BY <1>1, <1>2

\* For every buffer length, clients and requests, however TCP cuts them: an error reply of
\* the server shows bytes of the read it answers or the word Error, unless the read ends
\* inside a bulk string.
THEOREM OwnBytesCorrect == RedisSpec => []NoForeignBytes
<1> DEFINE Inv == RedisTypes /\ NoForeignBytes
<1>1. RedisInit => Inv
  <2> SUFFICES ASSUME RedisInit PROVE NoForeignBytes
    BY RedisStart
  <2>1. Len(last.reply) = 0
    BY DEF RedisInit, NoRead
  <2> QED BY <2>1 DEF NoForeignBytes
<1>2. Inv /\ [RedisNext]_redisVars => Inv'
  <2> SUFFICES ASSUME Inv, [RedisNext]_redisVars PROVE Inv'
    OBVIOUS
  <2>1. CASE UNCHANGED <<last, serverStatus>>
    BY <2>1, RedisStep DEF NoForeignBytes
  <2>2. ASSUME NEW b \in [1..buflen -> Bytes], NEW size \in 1..buflen,
               Served(b, size, last', serverStatus')
        PROVE  NoForeignBytes'
    <3>1. last'.bytes = SubSeq(b, 1, size) /\ last'.reply = Execute(b, size).reply
      BY <2>2 DEF Served
    <3>2. ASSUME Len(last'.reply) = 2
          PROVE  PartOf(last'.reply[2], last'.bytes) \/ last'.reply[2] = <<"E">>
                 \/ Cut(last'.bytes)
      BY <3>1, <3>2, ShowsItsOwn, ServerAssumption
    <3> QED BY <3>2 DEF NoForeignBytes
  <2> QED BY <2>1, <2>2, RedisStep
<1>3. Inv => NoForeignBytes
  OBVIOUS
<1> QED BY <1>1, <1>2, <1>3, PTL DEF RedisSpec


\* A read that is exactly one plain command is taken apart as it should be.
LEMMA ServedCommand ==
  ASSUME NEW b \in [1..buflen -> Bytes], NEW size \in 1..buflen,
         Served(b, size, last', serverStatus')
  PROVE  ParsedAsSent'
<1>1. b \in Seq(Bytes) /\ Len(b) = buflen
  BY ServerAssumption
<1>2. /\ last'.bytes = SubSeq(b, 1, size)
      /\ last'.views = Texts(b, Parse(b, Trimmed(b, size)))
  BY DEF Served
<1>3. ASSUME NEW args \in Commands, last'.bytes = Encode(args), Plain(args)
      PROVE  last'.views = <<<<Digits[Len(args)]>>>> \o args
  <2>1. IsCommand(args) /\ size \in 1..Len(b) /\ SubSeq(b, 1, size) = Encode(args)
    BY <1>1, <1>2, <1>3, CommandsAre
  <2>2. Texts(b, Parse(b, Trimmed(b, size))) = <<<<Digits[Len(args)]>>>> \o args
    BY <1>1, <1>3, <2>1, CommandTexts
  <2> QED BY <1>2, <2>2
<1> QED BY <1>3 DEF ParsedAsSent

\* Nothing has been read at first.
LEMMA NothingServed == RedisInit => ParsedAsSent
<1> SUFFICES ASSUME RedisInit PROVE ParsedAsSent
  OBVIOUS
<1>1. last.bytes = <<>>
  BY DEF RedisInit, NoRead
<1>2. \A args \in Commands : last.bytes # Encode(args)
  BY <1>1, EncodeNotEmpty
<1> QED BY <1>2 DEF ParsedAsSent

\* The steps keep it.
LEMMA CommandStep ==
  ASSUME RedisTypes, ParsedAsSent, [RedisNext]_redisVars
  PROVE  ParsedAsSent'
<1>1. CASE UNCHANGED <<last, serverStatus>>
  BY <1>1 DEF ParsedAsSent
<1>2. CASE \E b \in [1..buflen -> Bytes], size \in 1..buflen :
             Served(b, size, last', serverStatus')
  BY <1>2, ServedCommand
<1> QED BY <1>1, <1>2, RedisStep

\* For every buffer length, clients and commands: a read that is exactly one command with
\* plain arguments is taken apart into the count and the arguments, whatever earlier
\* requests have left behind it in the buffer all connections share.
THEOREM CommandsParsed == RedisSpec => []ParsedAsSent
<1> DEFINE Inv == RedisTypes /\ ParsedAsSent
<1>1. RedisInit => Inv
  BY RedisStart, NothingServed
<1>2. Inv /\ [RedisNext]_redisVars => Inv'
  BY RedisStep, CommandStep
<1>3. Inv => ParsedAsSent
  OBVIOUS
<1> QED BY <1>1, <1>2, <1>3, PTL DEF RedisSpec

=============================================================================
