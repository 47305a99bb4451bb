------------------------------- MODULE NetServer -------------------------------
(***************************************************************************)
(* The connections of one event loop: NetServer and its ConnectionMap_     *)
(* (net/net_server.cpp), Connection (net/connection.cpp), the callbacks of *)
(* its bufferevent (net/conn_callback.cpp) and the Connectioners that      *)
(* connect to others (net/active_conn.cpp).                                *)
(*                                                                         *)
(* A Connection is an identity; it dies with its last shared_ptr, and its  *)
(* bufferevent then closes the descriptor (BEV_OPT_CLOSE_ON_FREE).  The    *)
(* descriptor table belongs to the kernel: a number that is free again is  *)
(* given out again, the lowest first.  What the handlers do with the bytes *)
(* is RedisServer; here they may send.  timeVal_ is always zero, so the    *)
(* event callback is called for an end of file or an error only.           *)
(*                                                                         *)
(* All of it runs on the loop's thread: getConn (net_server.cpp, line 109) *)
(* and the two halves of removeConn leave the map unlocked, so a           *)
(* Connectioner that another thread runs, as active_conn_test.cpp does, is *)
(* a data race that this module leaves out.  A Connectioner that is        *)
(* running is not run again; nothing in the repository does.               *)
(***************************************************************************)
EXTENDS Integers, FiniteSets

CONSTANTS
  MaxFd,          \* bound of the model: descriptors 1..MaxFd
  MaxConns,       \* bound of the model: Connections ever made
  Connectioners

ASSUME NetAssumption == MaxFd \in Nat /\ MaxConns \in Nat

Fds == 1..MaxFd
Conns == 1..MaxConns
Nobody == 0       \* a free descriptor, a null shared_ptr, no descriptor

VARIABLES
  netStatus,      \* "up", or what ended the process
  made,           \* Connections made so far
  owner,          \* kernel: the Connection that opened the descriptor
  kind,           \* "accepted" or "active"
  socketFd,
  buf_,           \* "raw" (not assigned), "null", "live" or "freed"
  ConnectionMap,  \* descriptor -> Connection; a function on the keys it has
  eof,            \* the peer has gone: "no", "pending" or "seen"
  out,            \* output waits in the bufferevent
  conn,           \* Connectioner: conn_
  isRunning_,
  stage,          \* "new", "init" or "gone"
  closes          \* history: a Connectioner has closed a socket

connVars == <<kind, socketFd, buf_, eof, out>>
activeVars == <<conn, isRunning_, stage, closes>>
netVars == <<netStatus, made, owner, connVars, ConnectionMap, activeVars>>

NetInit ==
  /\ netStatus = "up" /\ made = 0 /\ closes = FALSE
  /\ owner = [fd \in Fds |-> Nobody]
  /\ kind = [c \in Conns |-> "accepted"] /\ socketFd = [c \in Conns |-> Nobody]
  /\ buf_ = [c \in Conns |-> "freed"]
  /\ eof = [c \in Conns |-> "no"] /\ out = [c \in Conns |-> FALSE]
  /\ ConnectionMap = [fd \in {} |-> Nobody]
  /\ conn = [k \in Connectioners |-> Nobody]
  /\ isRunning_ = [k \in Connectioners |-> FALSE]
  /\ stage = [k \in Connectioners |-> "new"]

-----------------------------------------------------------------------------
(* The map, the descriptors and the last reference.                        *)

\* The kernel gives out the lowest free descriptor.
Lowest(fd) == owner[fd] = Nobody /\ \A f \in 1..(fd - 1) : owner[f] # Nobody

Close(table, fd) == IF fd \in Fds THEN [table EXCEPT ![fd] = Nobody] ELSE table

\* std::map::insert leaves an existing entry alone.
Insert(map, fd, c) ==
  [f \in DOMAIN map \cup {fd} |-> IF f \in DOMAIN map THEN map[f] ELSE c]

\* Mutant: the entry stays.
EraseNothing(map, fd) == map

\* removeConn: find, then erase.
Erase(map, fd) == [f \in DOMAIN map \ {fd} |-> map[f]]

\* getConn uses operator[], which makes an entry with a null pointer.
Find(map, fd) == IF fd \in DOMAIN map THEN map[fd] ELSE Nobody

\* c is still referenced by the map or by a Connectioner.
Referenced(c, map, held) ==
  (\E fd \in DOMAIN map : map[fd] = c) \/ (\E k \in Connectioners : held[k] = c)

\* Mutant: the last reference goes and the bufferevent stays.
Leak(c, map, held, table) == UNCHANGED <<buf_, netStatus>> /\ owner' = table

\* ~Connection when no reference is left: bufferevent_free, which closes the socket.
Release(c, map, held, table) ==
  IF c = Nobody \/ Referenced(c, map, held) THEN UNCHANGED <<buf_, netStatus>> /\ owner' = table
  ELSE IF buf_[c] = "live"
       THEN /\ buf_' = [buf_ EXCEPT ![c] = "freed"] /\ owner' = Close(table, socketFd[c])
            /\ UNCHANGED netStatus
       ELSE netStatus' = buf_[c] /\ owner' = table /\ UNCHANGED buf_

-----------------------------------------------------------------------------
(* The event loop.                                                         *)

\* ListenerCallback: a Connection, an entry of the map if the number has none, and its
\* bufferevent.  Without an entry the Connection dies when the callback returns.
\* bufferevent_socket_new may fail: the Connection stays, without a bufferevent.
ListenerCallback(fd) ==
  /\ netStatus = "up" /\ made < MaxConns /\ Lowest(fd)
  /\ LET c == made + 1
         kept == fd \notin DOMAIN ConnectionMap
     IN  /\ made' = c
         /\ socketFd' = [socketFd EXCEPT ![c] = fd]
         /\ ConnectionMap' = Insert(ConnectionMap, fd, c)
         /\ \/ /\ kept /\ buf_' = [buf_ EXCEPT ![c] = "live"]
               /\ owner' = [owner EXCEPT ![fd] = c] /\ UNCHANGED netStatus
            \/ /\ kept /\ buf_' = [buf_ EXCEPT ![c] = "null"]
               /\ owner' = [owner EXCEPT ![fd] = c] /\ UNCHANGED netStatus
            \/ ~kept /\ UNCHANGED <<buf_, owner, netStatus>>
            \/ ~kept /\ netStatus' = "null" /\ UNCHANGED <<buf_, owner>>
  /\ UNCHANGED <<kind, eof, out, activeVars>>

\* The bufferevent of c can have an event: it exists and the socket is its own.
Watched(c) == buf_[c] = "live" /\ owner[socketFd[c]] = c

\* The callback finds no Connection, and dereferences the null pointer it has stored.
NotFound(c) ==
  /\ netStatus' = "getConn"
  /\ ConnectionMap' = Insert(ConnectionMap, socketFd[c], Nobody)
  /\ UNCHANGED <<made, owner, connVars, activeVars>>

\* ConnectionReadCallback: the handler of the Connection found may send.
ConnectionReadCallback(c) ==
  /\ netStatus = "up" /\ Watched(c) /\ eof[c] # "seen"
  /\ LET found == Find(ConnectionMap, socketFd[c]) IN
       IF found = Nobody THEN NotFound(c)
       ELSE /\ out' = [out EXCEPT ![found] = TRUE]
            /\ UNCHANGED <<netStatus, made, owner, kind, socketFd, buf_, eof, ConnectionMap, activeVars>>

\* ConnectionWriteCallback: the output has been sent.
ConnectionWriteCallback(c) ==
  /\ netStatus = "up" /\ Watched(c) /\ out[c]
  /\ IF Find(ConnectionMap, socketFd[c]) = Nobody THEN NotFound(c)
     ELSE /\ out' = [out EXCEPT ![c] = FALSE]
          /\ UNCHANGED <<netStatus, made, owner, kind, socketFd, buf_, eof, ConnectionMap, activeVars>>

\* ConnectionEventCallback: close handler, removeConn, and the callback's own reference,
\* often the last one, goes.
ConnectionEventCallback(c) ==
  /\ netStatus = "up" /\ Watched(c) /\ eof[c] = "pending"
  /\ LET found == Find(ConnectionMap, socketFd[c]) IN
       IF found = Nobody THEN NotFound(c)
       ELSE /\ eof' = [eof EXCEPT ![c] = "seen"]
            /\ ConnectionMap' = Erase(ConnectionMap, socketFd[found])
            /\ Release(found, ConnectionMap', conn, owner)
            /\ UNCHANGED <<made, kind, socketFd, out, activeVars>>

\* The peer closes, or the connection breaks.
Hangup(c) ==
  /\ netStatus = "up" /\ Watched(c) /\ eof[c] = "no"
  /\ eof' = [eof EXCEPT ![c] = "pending"]
  /\ UNCHANGED <<netStatus, made, owner, kind, socketFd, buf_, out, ConnectionMap, activeVars>>

-----------------------------------------------------------------------------
(* Connectioner k.                                                         *)

\* Connectioner::Init: Connection() leaves buf_ as it is.
ConnectionerInit(k) ==
  /\ netStatus = "up" /\ stage[k] = "new" /\ made < MaxConns
  /\ made' = made + 1
  /\ conn' = [conn EXCEPT ![k] = made + 1]
  /\ kind' = [kind EXCEPT ![made + 1] = "active"]
  /\ buf_' = [buf_ EXCEPT ![made + 1] = "raw"]
  /\ stage' = [stage EXCEPT ![k] = "init"]
  /\ UNCHANGED <<netStatus, owner, socketFd, eof, out, ConnectionMap, isRunning_, closes>>

\* Mutant: a retry first closes the socket of the attempt before.
RunClosesFirst(k) ==
  /\ netStatus = "up" /\ stage[k] = "init" /\ ~isRunning_[k]
  /\ owner' = Close(owner, socketFd[conn[k]])
  /\ \E fd \in Fds : socketFd' = [socketFd EXCEPT ![conn[k]] = fd]
  /\ UNCHANGED <<netStatus, made, kind, buf_, eof, out, ConnectionMap, activeVars>>

\* Run: socket and connect.  Connected or in progress: map entry and bufferevent, or a
\* null pointer where there should be one, which the call does not look at.  Refused: the
\* socket is closed and the call fails, as it does when there was no socket (EBADF).  An
\* error the switch does not name: the socket stays open and the call succeeds.
Run(k) ==
  /\ netStatus = "up" /\ stage[k] = "init" /\ ~isRunning_[k]
  /\ \E fd \in Fds :
       /\ Lowest(fd)
       /\ socketFd' = [socketFd EXCEPT ![conn[k]] = fd]
       /\ \/ /\ ConnectionMap' = Insert(ConnectionMap, fd, conn[k])
             /\ \E b \in {"live", "null"} : buf_' = [buf_ EXCEPT ![conn[k]] = b]
             /\ owner' = [owner EXCEPT ![fd] = conn[k]]
             /\ isRunning_' = [isRunning_ EXCEPT ![k] = TRUE]
          \/ UNCHANGED <<ConnectionMap, buf_, owner, isRunning_>>
          \/ /\ owner' = [owner EXCEPT ![fd] = conn[k]]
             /\ UNCHANGED <<ConnectionMap, buf_, isRunning_>>
  /\ UNCHANGED <<netStatus, made, kind, eof, out, conn, stage, closes>>

\* Run when ::socket gives no descriptor.
RunWithoutSocket(k) ==
  /\ netStatus = "up" /\ stage[k] = "init" /\ ~isRunning_[k]
  /\ socketFd' = [socketFd EXCEPT ![conn[k]] = Nobody]
  /\ UNCHANGED <<netStatus, made, owner, kind, buf_, eof, out, ConnectionMap, activeVars>>

\* CloseConn closes the socket and nothing else: map entry, bufferevent and isRunning_ stay.
CloseConn(k) ==
  /\ netStatus = "up" /\ stage[k] = "init" /\ isRunning_[k]
  /\ owner' = Close(owner, socketFd[conn[k]])
  /\ closes' = TRUE
  /\ UNCHANGED <<netStatus, made, connVars, ConnectionMap, conn, isRunning_, stage>>

\* ~Connectioner: CloseConn, then the member conn_ goes.
Destroy(k) ==
  /\ netStatus = "up" /\ stage[k] = "init"
  /\ stage' = [stage EXCEPT ![k] = "gone"]
  /\ conn' = [conn EXCEPT ![k] = Nobody]
  /\ closes' = (closes \/ isRunning_[k])
  /\ Release(conn[k], ConnectionMap, conn',
             IF isRunning_[k] THEN Close(owner, socketFd[conn[k]]) ELSE owner)
  /\ UNCHANGED <<made, kind, socketFd, eof, out, ConnectionMap, isRunning_>>

-----------------------------------------------------------------------------
Callback(c) == ConnectionReadCallback(c) \/ ConnectionWriteCallback(c) \/ ConnectionEventCallback(c)

NetNext ==
  \/ \E fd \in Fds : ListenerCallback(fd)
  \/ \E c \in Conns : Callback(c) \/ Hangup(c)
  \/ \E k \in Connectioners : \/ ConnectionerInit(k) \/ Run(k) \/ RunWithoutSocket(k)
                              \/ CloseConn(k) \/ Destroy(k)

NetSpec == NetInit /\ [][NetNext]_netVars

\* epoll is level triggered: a hangup that stays is reported.
NetFairness == \A c \in Conns : WF_netVars(ConnectionEventCallback(c))

-----------------------------------------------------------------------------
(* Properties.                                                             *)

Accepted(c) == kind[c] = "accepted" /\ buf_[c] = "live"

\* A callback finds the Connection it is called for: for as long as an accepted
\* Connection has a bufferevent, the map has it under its descriptor, through reuse of
\* the number, entries that Connectioners leave behind and inserts that do nothing.  The
\* null pointer of getConn (net_server.cpp, line 109) is met by active Connections only.
AcceptedFindsItself ==
  \A c \in Conns : Accepted(c) => Find(ConnectionMap, socketFd[c]) = c

\* No one takes the socket of an accepted Connection, unless a Connectioner has closed
\* one: CloseConn leaves isRunning_ set, and the descriptor is closed again, whoever has
\* it by then, by ~Connectioner and by ~Connection (active_conn.cpp, lines 88-94).
AcceptedKeepsItsSocket ==
  \A c \in Conns : Accepted(c) => owner[socketFd[c]] = c \/ closes

\* An accepted Connection whose peer has gone is freed, its socket and its map entry with
\* it, unless the process ends or a Connectioner has closed the socket before.
HangupReclaims ==
  \A c \in Conns :
    Accepted(c) /\ eof[c] = "pending" ~> buf_[c] = "freed" \/ netStatus # "up" \/ closes

=============================================================================
