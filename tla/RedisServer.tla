----------------------------- MODULE RedisServer -----------------------------
(***************************************************************************)
(* The Redis front end (server/server.cpp) over the read callback of a     *)
(* connection (net/conn_callback.cpp).  All connections share one thread   *)
(* and one request buffer, so a callback is one step.                      *)
(*                                                                         *)
(* TCP delivers the bytes of a client in pieces of any size: a request may *)
(* arrive in several reads and a read may hold several requests.           *)
(***************************************************************************)
EXTENDS RedisProtocol

CONSTANTS
  Clients,        \* connections
  Commands,       \* commands a client may send, as sequences of arguments
  RawRequests,    \* other requests, as bytes
  OtherBytes,     \* bytes that mean nothing to the parser
  buflen,         \* buf_.buflen_
  MaxRequests,    \* bounds of the model
  MaxCuts         \* reads that leave bytes on their way

ASSUME ServerAssumption == buflen \in Nat \ {0} /\ MaxRequests \in Nat
                           /\ MaxCuts \in Nat

Bytes == TypeBytes \cup {Digits[d] : d \in DOMAIN Digits} \cup OtherBytes
         \cup {"r", "n", "0", "z", "P", "S", "G", "C", "D", "E"}

\* "z" is what a byte of the buffer is before anything was read into it.  Counts and
\* lengths of the commands have one digit.
ASSUME RequestAssumption ==
  /\ \A args \in Commands :
       /\ Len(args) \in DOMAIN Digits /\ args \in Seq(Seq(Bytes))
       /\ \A j \in DOMAIN args : Len(args[j]) \in DOMAIN Digits
  /\ RawRequests \subseteq Seq(Bytes)

VARIABLES
  stream,         \* per connection, bytes on their way
  evbuf,          \* per connection, the input evbuffer
  bufptr, offset, \* buf_
  serverStatus,   \* "ok", or how the thread ended
  sent, cuts,     \* history: number of requests, of reads that cut
  last            \* history: the last read and its reply

redisVars == <<stream, evbuf, bufptr, offset, serverStatus, sent, cuts, last>>

Requests == {Encode(args) : args \in Commands} \cup RawRequests
NoRead == [conn |-> "none", bytes |-> <<>>, views |-> <<>>, reply |-> <<>>]

RedisInit ==
  /\ stream = [c \in Clients |-> <<>>]
  /\ evbuf = [c \in Clients |-> <<>>]
  /\ bufptr = [j \in 1 .. buflen |-> "z"] /\ offset = 0
  /\ serverStatus = "ok"
  /\ sent = 0 /\ cuts = 0
  /\ last = NoRead

\* A client sends a request.
Send(c, request) ==
  /\ sent < MaxRequests
  /\ stream' = [stream EXCEPT ![c] = @ \o request]
  /\ sent' = sent + 1
  /\ UNCHANGED <<evbuf, bufptr, offset, serverStatus, cuts, last>>

-----------------------------------------------------------------------------
(* readHD.                                                                 *)

\* The texts of the views, for the history.
Texts(b, views) ==
  [v \in DOMAIN views |->
     IF views[v] # Endless /\ Inside(b, views[v]) THEN Text(b, views[v]) ELSE <<>>]

Docs == {<<<<"C">>, <<"D">>>>, <<<<"C">>>>}
Reply(reply, end) == [reply |-> reply, status |-> end]

\* parse or check failed: the reply names the second view, if there is one.
Reject(b, views) ==
  IF Len(views) < 2 THEN Reply(<<"error">>, "ok")
  ELSE IF Inside(b, views[2])
       THEN Reply(<<"error", Text(b, views[2])>>, "ok")
       ELSE Reply(<<>>, "outside")

\* SET and GET: Server::Init never calls db_.Init, so the DB's pointers are
\* null; an argument that is missing is read past the end of the deque.
CallDB(views, args) ==
  Reply(<<>>, IF Len(views) > args THEN "null" ELSE "missing")

\* A line feed at the end is left out.
Trimmed(b, size) == IF b[size] = "n" THEN size - 1 ELSE size

\* The command of a request that parse and check have accepted.
Dispatch(b, args) ==
  LET name == Text(b, args[1]) IN
    CASE ~Inside(b, args[1]) -> Reply(<<>>, "outside")
      [] Inside(b, args[1]) /\ name = <<"P">> -> Reply(<<"PONG">>, "ok")
      [] Inside(b, args[1]) /\ name = <<"S">> -> CallDB(args, 2)
      [] Inside(b, args[1]) /\ name = <<"G">> -> CallDB(args, 1)
      [] OTHER -> Reply(<<>>, "ok")

\* What readHD does with "size" bytes at the start of the buffer.  When check has left no
\* argument, the dispatch dereferences begin() of an empty deque.
Execute(b, size) ==
  LET views == Parse(b, Trimmed(b, size))
      check == Check(b, views)
  IN IF SubSeq(b, 1, size) \in {Encode(d) : d \in Docs} THEN Reply(<<"OK">>, "ok")
     ELSE IF views = <<Endless>> THEN Reply(<<>>, "endless")
     ELSE IF check.result = "outside" THEN Reply(<<>>, "outside")
     ELSE IF check.result = "false" THEN Reject(b, views)
     ELSE IF check.args = <<>> THEN Reply(<<>>, "empty")
     ELSE Dispatch(b, check.args)

\* Mutant: some path does not start again at the front of the buffer.
KeepOffset(answer, size) ==
  IF answer.reply # <<>> /\ answer.reply[1] = "error" THEN offset + size ELSE 0

\* buf_.offset_ = 0 on every path.
ResetOffset(answer, size) == 0

\* bufferevent reads "n" bytes from the socket and calls
\* ConnectionReadCallback, which calls readHD: as many bytes as fit are moved
\* from the evbuffer into buf_, the rest stays there until more bytes come.
ReadCallback(c, n) ==
  /\ serverStatus = "ok"
  /\ cuts' = IF n < Len(stream[c]) THEN cuts + 1 ELSE cuts
  /\ cuts' <= MaxCuts
  /\ LET input == evbuf[c] \o SubSeq(stream[c], 1, n)
         size == IF Len(input) < buflen THEN Len(input) ELSE buflen
         bytes == SubSeq(input, 1, size)
         b == [j \in 1 .. buflen |->
                 IF j \in offset + 1 .. offset + size
                 THEN bytes[j - offset] ELSE bufptr[j]]
         answer == Execute(b, size)
     IN /\ stream' = [stream EXCEPT ![c] = SubSeq(@, n + 1, Len(@))]
        /\ evbuf' = [evbuf EXCEPT ![c] = SubSeq(input, size + 1, Len(input))]
        /\ bufptr' = b
        /\ offset' = ResetOffset(answer, size)
        /\ serverStatus' = answer.status
        /\ last' = [conn |-> c, bytes |-> bytes, reply |-> answer.reply,
                    views |-> Texts(b, Parse(b, Trimmed(b, size)))]
  /\ UNCHANGED sent

RedisNext ==
  \E c \in Clients :
    \/ \E request \in Requests : Send(c, request)
    \/ \E n \in 1 .. Len(stream[c]) : ReadCallback(c, n)

RedisSpec == RedisInit /\ [][RedisNext]_redisVars

-----------------------------------------------------------------------------
(* Properties.                                                             *)

TypeOK ==
  /\ stream \in [Clients -> Seq(Bytes)] /\ evbuf \in [Clients -> Seq(Bytes)]
  /\ bufptr \in [1 .. buflen -> Bytes] /\ offset \in 0 .. buflen - 1
  /\ serverStatus \in {"ok", "endless", "outside", "empty", "missing", "null"}
  /\ sent \in 0 .. MaxRequests /\ cuts \in 0 .. MaxCuts

\* No argument ends in a byte the scan takes for the start of an element.
Plain(args) == \A j \in DOMAIN args : args[j][Len(args[j])] \notin TypeBytes

\* The parser against its reference: a read that is exactly one command with
\* plain arguments is taken apart into the count and the arguments, whatever
\* the reads before it have left in the shared buffer.
ParsedAsSent ==
  \A args \in Commands :
    last.bytes = Encode(args) /\ Plain(args) =>
      last.views = <<<<Digits[Len(args)]>>>> \o args

\* What the README and the handler of SET say: a read that is exactly one SET with plain
\* arguments is not turned away with an error.
SetIsAccepted ==
  \A args \in Commands :
    last.bytes = Encode(args) /\ Plain(args) /\ args[1] = <<"S">> => Len(last.reply) # 2

\* t is a part of s.
PartOf(t, s) ==
  \E j \in 0 .. Len(s) - Len(t) : SubSeq(s, j + 1, j + Len(t)) = t

\* The read has a bulk string whose text is not completely there.
Cut(bytes) ==
  \E j \in DOMAIN bytes :
    LET crlf == LineEnd(bytes, Len(bytes), j) IN
      bytes[j] = "$" /\ crlf # 0 /\ crlf + 1 + Number(bytes, j + 1, crlf) > Len(bytes)

\* An error reply shows bytes of its own request only, or the word Error.  The exception
\* is a request that TCP has cut inside a bulk string: the view then reaches into what an
\* earlier request, maybe another client's, has left in the buffer.
NoForeignBytes ==
  Len(last.reply) = 2 =>
    \/ PartOf(last.reply[2], last.bytes) \/ last.reply[2] = <<"E">>
    \/ Cut(last.bytes)

=============================================================================
