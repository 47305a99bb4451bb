---------------------------- MODULE RedisProtocol ----------------------------
(***************************************************************************)
(* parseRedisProtocol and check (server/redis_protocol.cpp).               *)
(*                                                                         *)
(* A buffer is a sequence of bytes.  "r" and "n" are carriage return and   *)
(* line feed, and the names of commands are one byte long: "P" for PING,   *)
(* "S" for SET, "G" for GET, "C" for COMMAND, "D" for DOCS, "E" for the    *)
(* word Error.                                                             *)
(*                                                                         *)
(* A std::string_view is the record of where it begins and how long it is; *)
(* it may reach past the bytes just read, into what an earlier request     *)
(* left in the buffer.                                                     *)
(***************************************************************************)
EXTENDS Integers, Sequences

Digits == <<"1", "2", "3", "4", "5", "6", "7", "8", "9">>
IsDigit(b) == b = "0" \/ \E d \in DOMAIN Digits : Digits[d] = b
Figure(b) == IF b = "0" THEN 0 ELSE CHOOSE d \in DOMAIN Digits : Digits[d] = b

\* One digit more, or TooBig where the number leaves the range of an int.
TooBig == -1
Shift(v, d, negative) ==
  IF \/ v = TooBig \/ v > 214748364
     \/ v = 214748364 /\ d > (IF negative THEN 8 ELSE 7)
  THEN TooBig ELSE 10 * v + d

\* The value of n digits from byte "from" on.
Value(bytes, from, n, negative) ==
  LET val[k \in 0 .. n] ==
        IF k = 0 THEN 0 ELSE Shift(val[k - 1], Figure(bytes[from + k - 1]), negative)
  IN val[n]

\* The first byte of from .. to that is no digit, or to + 1.
DigitsEnd(bytes, from, to) ==
  LET stops == {j \in from .. to + 1 : j = to + 1 \/ ~IsDigit(bytes[j])}
  IN CHOOSE j \in stops : \A h \in stops : j <= h

\* std::from_chars over the bytes from .. to: a sign, digits, and then anything.  Its
\* result stays 0 when there is no digit or the number is too big.
Number(bytes, from, to) ==
  LET negative == from <= to /\ bytes[from] = "-"
      start == IF negative THEN from + 1 ELSE from
      value == Value(bytes, start, DigitsEnd(bytes, start, to) - start, negative)
  IN IF value = TooBig THEN 0 ELSE IF negative THEN 0 - value ELSE value

LineTypes == {"+", "-", ":"}
TypeBytes == LineTypes \cup {"$", "*"}

View(at, len) == [at |-> at, len |-> len]
Ping == View(0, 1)      \* views of literals
Error == View(0, 2)
Endless == View(0, 3)   \* not a result: the loop does not come to an end

\* The bytes a view shows.
Text(bytes, v) ==
  CASE v = Ping -> <<"P">>
    [] v = Error -> <<"E">>
    [] OTHER -> SubSeq(bytes, v.at, v.at + v.len - 1)

\* Whether a view lies in the buffer.  A length below zero stands for the huge size_t it
\* becomes.
Inside(bytes, v) == v.at = 0 \/ (v.len >= 0 /\ v.at + v.len - 1 <= Len(bytes))

\* arg_view.find("\r\n", from), 0 for npos.
LineEnd(bytes, size, from) ==
  LET hits == {j \in from .. size - 1 : bytes[j] = "r" /\ bytes[j + 1] = "n"}
  IN IF hits = {} THEN 0 ELSE CHOOSE j \in hits : \A h \in hits : j <= h

\* Mutant: the scan goes on at the last line feed's place, not behind the text.
AfterLength(crlf, number) == crlf + 2

\* "i += number", and the loop's i++: the last byte of the bulk string itself.  A length
\* below zero goes back; an index below the first byte, compared as a size_t, ends the loop.
AfterBulk(crlf, number) == crlf + number + 1

\* One turn of the loop.  A line goes on behind its end; a bulk string at its own last
\* byte, which is looked at again; an array header goes on behind the first line of the
\* whole buffer, which may be back.  A missing end of line returns.
Turn(bytes, size, loop) ==
  LET i == loop.i
      crlf == LineEnd(bytes, size, IF bytes[i] = "*" THEN 1 ELSE i)
      number == Number(bytes, i + 1, crlf)
      Push(view, next) == [i |-> IF next < 1 THEN size + 1 ELSE next,
                           result |-> Append(loop.result, view)]
  IN IF i > size THEN loop
     ELSE IF bytes[i] \notin TypeBytes THEN [i |-> i + 1, result |-> loop.result]
     ELSE IF crlf = 0 THEN Push(Error, size + 1)
     ELSE IF bytes[i] = "$" THEN Push(View(crlf + 2, number), AfterBulk(crlf, number))
     ELSE IF bytes[i] = "*" THEN Push(View(i + 1, crlf - i - 1), crlf + 2)
     ELSE Push(View(i + 1, crlf - i), crlf + 2)

\* The loop after k turns.
Turns(bytes, size) ==
  LET after[k \in 0 .. size] ==
        IF k = 0 THEN [i |-> 1, result |-> <<>>] ELSE Turn(bytes, size, after[k - 1])
  IN after

\* A loop that has not left the buffer after as many turns as there are bytes has been at
\* some byte twice, and will be for ever.
Scan(bytes, size) ==
  LET end == Turns(bytes, size)[size]
  IN IF end.i > size THEN end.result ELSE <<Endless>>

\* parseRedisProtocol.
Parse(bytes, size) ==
  IF SubSeq(bytes, 1, size) = <<"P">> THEN <<Ping>> ELSE Scan(bytes, size)

\* What check makes of the views: "false", "true" with the arguments of the command, or
\* "outside" when it reads behind the end of the buffer.  The
\* count is compared with the number of views, the count's own included, so what is left
\* of a single view is no argument at all.
Check(bytes, views) ==
  LET first == Head(views)
      byte == IF first.at = 0 THEN Text(bytes, first)[1] ELSE bytes[first.at]
      to == IF Inside(bytes, first) THEN first.at + first.len - 1 ELSE Len(bytes)
      Result(result, args) == [result |-> result, args |-> args]
  IN IF views = <<>> THEN Result("false", <<>>)
     ELSE IF /\ first.at # 0 /\ (first.at > Len(bytes) \/ ~Inside(bytes, first))
             /\ \A j \in first.at .. Len(bytes) : IsDigit(bytes[j])
     THEN Result("outside", <<>>)
     ELSE IF first = Ping \/ ~IsDigit(byte) THEN Result("true", views)
     ELSE IF Number(bytes, first.at, to) = Len(views) THEN Result("true", Tail(views))
     ELSE Result("false", <<>>)

-----------------------------------------------------------------------------
(* What a client sends.                                                    *)

Bulk(arg) == <<"$", Digits[Len(arg)], "r", "n">> \o arg \o <<"r", "n">>

Bulks(args) ==
  LET cat[j \in 0 .. Len(args)] ==
        IF j = 0 THEN <<>> ELSE cat[j - 1] \o Bulk(args[j])
  IN cat[Len(args)]

\* A command as an array of bulk strings.
Encode(args) == <<"*", Digits[Len(args)], "r", "n">> \o Bulks(args)

=============================================================================
