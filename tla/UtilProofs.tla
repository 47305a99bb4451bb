------------------------------ MODULE UtilProofs ------------------------------
(* Proofs about the two parts of util/ that keep state of their own: the   *)
(* logging library, for every number of threads and lines and every buffer *)
(* size, and kLRUCache, for all keys, values and capacities.               *)
EXTENDS LogThread, KLRUCache, SequenceTheorems, FiniteSetTheorems, TLAPS

-----------------------------------------------------------------------------
(* Sequences and buffers.                                                  *)

\* What two lists hold together, without repeats if they share nothing.
LEMMA ElementsConcat ==
  ASSUME NEW S, NEW s \in Seq(S), NEW u \in Seq(S)
  PROVE  /\ Elements(s \o u) = Elements(s) \cup Elements(u)
         /\ IsInjective(s) /\ IsInjective(u) /\ Elements(s) \cap Elements(u) = {} => IsInjective(s \o u)
<1> DEFINE c == s \o u
<1>1. /\ c \in Seq(S) /\ Len(c) = Len(s) + Len(u)
      /\ \A j \in 1 .. Len(s) + Len(u) : c[j] = IF j <= Len(s) THEN s[j] ELSE u[j - Len(s)]
  BY ConcatProperties
<1>2. /\ DOMAIN s = 1 .. Len(s) /\ DOMAIN u = 1 .. Len(u) /\ DOMAIN c = 1 .. Len(c)
      /\ Len(s) \in Nat /\ Len(u) \in Nat
  BY <1>1, LenProperties
<1> HIDE DEF c
<1>3. \A j \in DOMAIN s : j \in DOMAIN c /\ c[j] = s[j]
  BY <1>1, <1>2
<1>4. \A j \in DOMAIN u : j + Len(s) \in DOMAIN c /\ c[j + Len(s)] = u[j]
  BY <1>1, <1>2
<1>5. \A j \in DOMAIN c : \/ j \in DOMAIN s /\ c[j] = s[j]
                          \/ j - Len(s) \in DOMAIN u /\ c[j] = u[j - Len(s)]
  BY <1>1, <1>2
<1>6. Elements(c) = Elements(s) \cup Elements(u)
  BY <1>3, <1>4, <1>5 DEF Elements
<1>7. ASSUME IsInjective(s), IsInjective(u), Elements(s) \cap Elements(u) = {} PROVE IsInjective(c)
  <2> SUFFICES ASSUME NEW a \in DOMAIN c, NEW b \in DOMAIN c, c[a] = c[b] PROVE a = b
    BY DEF IsInjective
  <2>1. CASE a \in DOMAIN s /\ b \in DOMAIN s
    BY <2>1, <1>3, <1>7 DEF IsInjective
  <2>2. CASE a - Len(s) \in DOMAIN u /\ b - Len(s) \in DOMAIN u /\ c[a] = u[a - Len(s)] /\ c[b] = u[b - Len(s)]
    <3>1. a - Len(s) = b - Len(s)
      BY <2>2, <1>7 DEF IsInjective
    <3> QED BY <3>1, <1>2
  <2>3. \A x \in DOMAIN s, y \in DOMAIN u : s[x] # u[y]
    BY <1>7 DEF Elements
  <2> QED BY <2>1, <2>2, <2>3, <1>5
<1> QED BY <1>6, <1>7 DEF c

\* What a list holds after push_back.
LEMMA ElementsAppend ==
  ASSUME NEW S, NEW s \in Seq(S), NEW e \in S
  PROVE  /\ Elements(Append(s, e)) = Elements(s) \cup {e}
         /\ IsInjective(s) /\ e \notin Elements(s) => IsInjective(Append(s, e))
<1> DEFINE c == Append(s, e)
<1>1. /\ c \in Seq(S) /\ Len(c) = Len(s) + 1
      /\ \A j \in 1 .. Len(s) : c[j] = s[j]
      /\ c[Len(s) + 1] = e
  BY AppendProperties
<1> HIDE DEF c
<1>2. DOMAIN s = 1 .. Len(s) /\ DOMAIN c = 1 .. Len(c) /\ Len(s) \in Nat
  BY <1>1, LenProperties
<1>3. \A j \in DOMAIN c : (j \in DOMAIN s /\ c[j] = s[j]) \/ (j = Len(s) + 1 /\ c[j] = e)
  BY <1>1, <1>2
<1>4. \A j \in DOMAIN s : j \in DOMAIN c /\ c[j] = s[j]
  BY <1>1, <1>2
<1>5. Len(s) + 1 \in DOMAIN c
  BY <1>1, <1>2
<1>6. Elements(c) = Elements(s) \cup {e}
  BY <1>1, <1>3, <1>4, <1>5 DEF Elements
<1>7. IsInjective(s) /\ e \notin Elements(s) => IsInjective(c)
  BY <1>3 DEF IsInjective, Elements
<1> QED BY <1>6, <1>7 DEF c

\* Removal by a swap with the last element takes out that element and no other.
LEMMA ElementsSwapRemove ==
  ASSUME NEW S, NEW s \in Seq(S), NEW j \in 1 .. Len(s), IsInjective(s)
  PROVE  /\ SwapRemove(s, j) \in Seq(S)
         /\ Elements(SwapRemove(s, j)) = Elements(s) \ {s[j]}
         /\ IsInjective(SwapRemove(s, j))
<1> DEFINE m == Len(s) - 1
           x == [s EXCEPT ![j] = s[Len(s)]]
           c == SwapRemove(s, j)
<1>1. Len(s) \in Nat /\ DOMAIN s = 1 .. Len(s) /\ \A h \in 1 .. Len(s) : s[h] \in S
  BY LenProperties, ElementOfSeq
<1>2. \A h \in 1 .. m : x[h] = IF h = j THEN s[Len(s)] ELSE s[h]
  BY <1>1
<1> HIDE DEF x
<1>3. \A h \in 1 .. m : x[h] \in S
  BY <1>1, <1>2
<1>4. c = SubSeq(x, 1, m)
  BY DEF SwapRemove, x
<1>5. /\ c \in Seq(S) /\ Len(c) = m
      /\ \A h \in 1 .. m : c[h] = x[h]
  BY <1>1, <1>3, <1>4, SubSeqProperties
<1> HIDE DEF c
<1>6. DOMAIN c = 1 .. m
  BY <1>5, LenProperties
<1>7. \A h \in DOMAIN c : c[h] = IF h = j THEN s[Len(s)] ELSE s[h]
  BY <1>2, <1>5, <1>6
<1>8. IsInjective(c)
  BY <1>1, <1>6, <1>7 DEF IsInjective
<1>9. ASSUME NEW e PROVE e \in Elements(c) <=> e \in Elements(s) /\ e # s[j]
  <2>1. ASSUME NEW h \in DOMAIN c PROVE c[h] \in Elements(s) /\ c[h] # s[j]
    <3>1. PICK g \in DOMAIN s : c[h] = s[g] /\ g # j
      BY <1>1, <1>6, <1>7
    <3> QED BY <3>1, <1>1 DEF IsInjective, Elements
  <2>2. ASSUME NEW h \in DOMAIN s, s[h] # s[j] PROVE s[h] \in Elements(c)
    <3>1. CASE h = Len(s)
      <4>1. j \in DOMAIN c /\ c[j] = s[h]
        BY <2>2, <3>1, <1>1, <1>6, <1>7
      <4> QED BY <4>1 DEF Elements
    <3>2. CASE h # Len(s)
      <4>1. h \in DOMAIN c /\ c[h] = s[h]
        BY <2>2, <3>2, <1>1, <1>6, <1>7
      <4> QED BY <4>1 DEF Elements
    <3> QED BY <3>1, <3>2
  <2>3. e \in Elements(c) => e \in Elements(s) /\ e # s[j]
    BY <2>1 DEF Elements
  <2>4. e \in Elements(s) /\ e # s[j] => e \in Elements(c)
    BY <2>2 DEF Elements
  <2> QED BY <2>3, <2>4
<1> QED BY <1>5, <1>8, <1>9 DEF c

\* There are two buffers, and each is the other one's other.
LEMMA Swapping ==
  \A b \in Buffers : /\ Other(b) \in Buffers /\ Other(b) # b /\ Other(Other(b)) = b
                      /\ \A c \in Buffers : c = b \/ c = Other(b)
BY DEF Buffers, Other

-----------------------------------------------------------------------------
(* The invariant.                                                          *)

LogTypes ==
  /\ logVectmp \in Seq(Threads) /\ logworkers \in Seq(Threads)
  /\ holder \in [Threads -> {"none", "yes", "no"}]
  /\ buf \in [Threads -> [Buffers -> Seq(Nat)]]
  /\ curPtr \in [Threads -> Buffers]
  /\ i \in Nat \ {0} /\ bufptr \in Buffers
  /\ logged \in [Threads -> Nat]
  /\ written \in [Threads -> Seq(Nat)]

\* No logger is listed twice; a listed one has been made, and one in use is listed.
Listed == Elements(logVectmp) \cup Elements(logworkers)

Loggers ==
  /\ IsInjective(logVectmp) /\ IsInjective(logworkers)
  /\ Elements(logVectmp) \cap Elements(logworkers) = {}
  /\ \A t \in Threads : holder[t] = "none" => t \notin Listed /\ logged[t] = 0
  /\ \A t \in Threads : holder[t] = "yes" => t \in Listed

\* The log thread is in the logger of t, between the swap and the write.
Writing(t) == lpc = "write" /\ logworkers[i] = t

Drained(t) == \A b \in Buffers : buf[t][b] = <<>>

\* What the place of the log thread says of the flags and of the logger it is in.
Control ==
  /\ lpc = "none" => ~isSync
  /\ lpc = "write" => i <= Len(logworkers) /\ bufptr = Other(curPtr[logworkers[i]])
  /\ lpc \in {"final1", "final2", "end"} => ~isRunning

\* Only the logger the log thread is in has lines in the buffer that is not appended to.
OtherEmpty == \A t \in Threads : buf[t][Other(curPtr[t])] = <<>> \/ Writing(t)

\* A removed logger has no lines.
RemovedDrained == \A t \in Threads : holder[t] = "no" /\ t \notin Listed => Drained(t)

\* After Stop, a logger that has been written once has none but late lines.
Passed(h) == (lpc = "final1" /\ h < i) \/ lpc \in {"final2", "end"}
PassedDrained ==
  \A h \in DOMAIN logworkers : Passed(h) => logworkers[h] \in late \/ Drained(logworkers[h])

Cursor == Control /\ OtherEmpty /\ RemovedDrained /\ PassedDrained

LogInv == LogTypes /\ Loggers /\ Cursor /\ LinesInOrder

-----------------------------------------------------------------------------
(* Types and loggers.                                                      *)

\* The loggers of the two lists together.
LEMMA ListedOnce ==
  ASSUME LogTypes
  PROVE  Elements(logVectmp \o logworkers) = Listed
BY ElementsConcat DEF LogTypes, Listed

\* Every step keeps the variables in their types.
LEMMA TypesKept == LogInv /\ [Next]_vars => LogTypes'
<1> SUFFICES ASSUME LogInv, [Next]_vars PROVE LogTypes'
  OBVIOUS
<1> USE DEF LogTypes
<1>0. LogTypes /\ Loggers /\ Cursor
  BY DEF LogInv
<1>1. ASSUME NEW t \in Threads, AddLogger(t) PROVE LogTypes'
  BY <1>0, <1>1, AppendProperties DEF AddLogger, threadVars
<1>2. ASSUME NEW t \in Threads, LogMent(t) PROVE LogTypes'
  <2>1. buf' \in [Threads -> [Buffers -> Seq(Nat)]]
    <3>1. Append(buf[t][curPtr[t]], logged[t] + 1) \in Seq(Nat)
      BY <1>0, AppendProperties
    <3> QED BY <1>0, <1>2, <3>1 DEF LogMent, Push
  <2> QED BY <1>0, <1>2, <2>1 DEF LogMent, threadVars
<1>3. ASSUME NEW t \in Threads, Exit(t) PROVE LogTypes'
  BY <1>0, <1>3 DEF Exit, threadVars
<1>4. ASSUME NEW sync \in BOOLEAN, Start(sync) PROVE LogTypes'
  BY <1>0, <1>4 DEF Start, loggerVars
<1>5. CASE Splice
  BY <1>0, <1>5, ConcatProperties, EmptySeq DEF Splice, SpliceAll, loggerVars
<1>6. CASE Sweep
  <2>1. CASE i > Len(logworkers)
    BY <1>0, <1>6, <2>1 DEF Sweep
  <2>2. CASE i <= Len(logworkers)
    <3>1. logworkers[i] \in Threads /\ ~(i > Len(logworkers))
      BY <1>0, <2>2, ElementOfSeq
    <3>2. curPtr[logworkers[i]] \in Buffers /\ Other(curPtr[logworkers[i]]) \in Buffers
      BY <1>0, <3>1, Swapping
    <3>3. UNCHANGED <<logVectmp, logworkers, holder, buf, i, logged, written>>
      BY <1>6 DEF Sweep
    <3>4. bufptr' = curPtr[logworkers[i]] /\ curPtr' = [curPtr EXCEPT ![logworkers[i]] = Other(@)]
      BY <1>6, <3>1 DEF Sweep, SwapBuffer
    <3>5. bufptr' \in Buffers /\ curPtr' \in [Threads -> Buffers]
      BY <1>0, <3>2, <3>4
    <3> QED BY <1>0, <3>3, <3>5
  <2>3. i > Len(logworkers) \/ i <= Len(logworkers)
    BY <1>0
  <2> QED BY <2>1, <2>2, <2>3
<1>7. CASE SweepWrite
  <2>1. logworkers[i] \in Threads
    BY <1>0, <1>7, ElementOfSeq DEF SweepWrite, Cursor, Control
  <2>2. written[logworkers[i]] \o buf[logworkers[i]][bufptr] \in Seq(Nat)
    BY <1>0, <2>1, ConcatProperties
  <2>3. buf' \in [Threads -> [Buffers -> Seq(Nat)]] /\ written' \in [Threads -> Seq(Nat)]
    BY <1>0, <1>7, <2>1, <2>2, EmptySeq DEF SweepWrite, WriteStr
  <2>4. UNCHANGED <<logVectmp, logworkers, holder, curPtr, bufptr, logged>> /\ i' = i + 1
    BY <1>7 DEF SweepWrite
  <2> QED BY <1>0, <2>3, <2>4
<1>8. CASE SweepRetire
  <2> DEFINE t == logworkers[i]
  <2>1. t \in Threads /\ i \in 1 .. Len(logworkers)
    BY <1>0, <1>8, ElementOfSeq DEF SweepRetire, Cursor, Control
  <2>2. curPtr[t] \in Buffers /\ Other(curPtr[t]) \in Buffers /\ Other(bufptr) \in Buffers
    BY <1>0, <2>1, Swapping
  <2>3. LastLines(t) \in Seq(Nat) /\ LastLinesSync(t) \in Seq(Nat)
    BY <1>0, <2>1, <2>2 DEF LastLines, LastLinesSync
  <2>4. written[t] \o (IF isSync THEN LastLinesSync(t) ELSE LastLines(t)) \in Seq(Nat)
    BY <1>0, <2>1, <2>3, ConcatProperties
  <2>5. EmptyBuffers \in [Buffers -> Seq(Nat)]
    BY EmptySeq DEF EmptyBuffers
  <2>6. logworkers' \in Seq(Threads)
    BY <1>0, <1>8, <2>1, ElementsSwapRemove DEF SweepRetire, Loggers
  <2>7. UNCHANGED <<logVectmp, holder, bufptr, logged>> /\ i' = i + 1
    BY <1>8 DEF SweepRetire
  <2>8. /\ written' \in [Threads -> Seq(Nat)]
        /\ buf' \in [Threads -> [Buffers -> Seq(Nat)]]
        /\ curPtr' \in [Threads -> Buffers]
    BY <1>0, <1>8, <2>1, <2>2, <2>4, <2>5 DEF SweepRetire, SwapBuffer
  <2>9. i' \in Nat \ {0}
    BY <1>0, <2>7
  <2> QED BY <1>0, <2>6, <2>7, <2>8, <2>9
<1>9. CASE Final
  <2>1. CASE HasNext(i)
    <3> DEFINE t == logworkers[i]
    <3>1. t \in Threads
      BY <1>0, <2>1, ElementOfSeq DEF HasNext
    <3>2. curPtr[t] \in Buffers /\ Other(curPtr[t]) \in Buffers
      BY <1>0, <3>1, Swapping
    <3>3. written[t] \o buf[t][curPtr[t]] \in Seq(Nat)
      BY <1>0, <3>1, <3>2, ConcatProperties
    <3>4. UNCHANGED <<logVectmp, logworkers, holder, bufptr, logged>> /\ i' = i + 1
      BY <1>9, <2>1 DEF Final
    <3>5. /\ written' \in [Threads -> Seq(Nat)]
          /\ buf' \in [Threads -> [Buffers -> Seq(Nat)]]
          /\ curPtr' \in [Threads -> Buffers]
      <4>1. /\ written' = [written EXCEPT ![t] = @ \o buf[t][curPtr[t]]]
            /\ buf' = [buf EXCEPT ![t][curPtr[t]] = <<>>]
            /\ curPtr' = [curPtr EXCEPT ![t] = Other(@)]
        BY <1>9, <2>1 DEF Final, SwapBuffer, WriteStr
      <4>2. <<>> \in Seq(Nat)
        BY EmptySeq
      <4> HIDE DEF t
      <4> QED BY <1>0, <3>1, <3>2, <3>3, <4>1, <4>2
    <3> QED BY <1>0, <3>4, <3>5
  <2>2. CASE ~HasNext(i)
    BY <1>0, <1>9, <2>2 DEF Final
  <2> QED BY <2>1, <2>2
<1>10. CASE Stop \/ Loop \/ Wake \/ SweepSkip \/ EndSweep \/ UNCHANGED vars
  <2>1. UNCHANGED <<logVectmp, logworkers, holder, buf, curPtr, bufptr, logged, written>>
    BY <1>10 DEF Stop, Loop, Wake, SweepSkip, EndSweep, vars, loggerVars, threadVars
  <2>2. i' = i \/ i' = 1 \/ i' = i + 1
    BY <1>10 DEF Stop, Loop, Wake, SweepSkip, EndSweep, vars, threadVars
  <2> QED BY <1>0, <2>1, <2>2
<1> QED BY <1>1, <1>2, <1>3, <1>4, <1>5, <1>6, <1>7, <1>8, <1>9, <1>10 DEF Next, LogStep

\* Every step keeps each logger in at most one place of the lists.
LEMMA LoggersKept == LogInv /\ [Next]_vars => Loggers'
<1> SUFFICES ASSUME LogInv, [Next]_vars PROVE Loggers'
  OBVIOUS
<1>0. LogTypes /\ Loggers /\ Cursor
  BY DEF LogInv
<1>1. ASSUME NEW t \in Threads, AddLogger(t) PROVE Loggers'
  <2>1. t \notin Listed
    BY <1>0, <1>1 DEF AddLogger, Loggers
  <2>2. /\ Elements(logVectmp') = Elements(logVectmp) \cup {t}
        /\ IsInjective(logVectmp')
    BY <1>0, <1>1, <2>1, ElementsAppend DEF AddLogger, LogTypes, Loggers, Listed
  <2> QED BY <1>0, <1>1, <2>1, <2>2 DEF AddLogger, LogTypes, Loggers, Listed
<1>2. ASSUME NEW t \in Threads, LogMent(t) PROVE Loggers'
  BY <1>0, <1>2 DEF LogMent, LogTypes, Loggers, Listed
<1>3. ASSUME NEW t \in Threads, Exit(t) PROVE Loggers'
  BY <1>0, <1>3 DEF Exit, LogTypes, Loggers, Listed
<1>5. CASE Splice
  <2>1. /\ Elements(logworkers') = Elements(logworkers) \cup Elements(logVectmp)
        /\ IsInjective(logworkers')
    BY <1>0, <1>5, ElementsConcat DEF Splice, SpliceAll, LogTypes, Loggers
  <2>2. Elements(logVectmp') = {} /\ IsInjective(logVectmp')
    BY <1>5 DEF Splice, Elements, IsInjective
  <2> QED BY <1>0, <1>5, <2>1, <2>2 DEF Splice, loggerVars, LogTypes, Loggers, Listed
<1>8. CASE SweepRetire
  <2> DEFINE t == logworkers[i]
  <2>1. t \in Threads /\ i \in 1 .. Len(logworkers) /\ holder[t] = "no"
    BY <1>0, <1>8, ElementOfSeq DEF SweepRetire, Cursor, Control, LogTypes
  <2>2. Elements(logworkers') = Elements(logworkers) \ {t} /\ IsInjective(logworkers')
    BY <1>0, <1>8, <2>1, ElementsSwapRemove DEF SweepRetire, Loggers, LogTypes
  <2> HIDE DEF t
  <2>3. UNCHANGED <<logVectmp, holder, logged>>
    BY <1>8 DEF SweepRetire
  <2> QED BY <1>0, <2>1, <2>2, <2>3 DEF LogTypes, Loggers, Listed
<1>10. CASE UNCHANGED <<logVectmp, logworkers, holder, logged>>
  BY <1>0, <1>10 DEF Loggers, Listed
<1> QED
  BY <1>1, <1>2, <1>3, <1>5, <1>8, <1>10
  DEF Next, LogStep, Start, Stop, Loop, Wake, Sweep, SweepWrite, SweepSkip, EndSweep, Final,
      vars, loggerVars

-----------------------------------------------------------------------------
(* What the steps do to the buffers of one logger.                         *)

\* Everything the steps of the log thread change belongs to the logger t.
Only(t) ==
  \A u \in Threads \ {t} : buf'[u] = buf[u] /\ curPtr'[u] = curPtr[u] /\ written'[u] = written[u]

\* LogMent appends one line to the current buffer of its own thread.
LEMMA LogMentFacts ==
  ASSUME LogTypes, NEW t \in Threads, LogMent(t)
  PROVE  /\ buf'[t][curPtr[t]] = Append(buf[t][curPtr[t]], logged[t] + 1)
         /\ buf'[t][Other(curPtr[t])] = buf[t][Other(curPtr[t])]
         /\ \A u \in Threads \ {t} : buf'[u] = buf[u] /\ logged'[u] = logged[u]
         /\ logged'[t] = logged[t] + 1
         /\ curPtr' = curPtr /\ written' = written
<1>1. curPtr[t] \in Buffers /\ Other(curPtr[t]) \in Buffers /\ Other(curPtr[t]) # curPtr[t]
  BY Swapping DEF LogTypes
<1>2. /\ buf' = [buf EXCEPT ![t][curPtr[t]] = Append(@, logged[t] + 1)]
      /\ logged' = [logged EXCEPT ![t] = @ + 1]
      /\ curPtr' = curPtr /\ written' = written
  BY DEF LogMent, Push
<1> QED BY <1>1, <1>2 DEF LogTypes

\* The sweep swaps the buffers of the logger it has come to.
LEMMA SweepFacts ==
  ASSUME LogTypes, Sweep, NEW t, t = logworkers[i], i <= Len(logworkers)
  PROVE  /\ t \in Threads /\ i \in DOMAIN logworkers
         /\ curPtr'[t] = Other(curPtr[t]) /\ bufptr' = curPtr[t] /\ lpc' = "write"
         /\ buf' = buf /\ written' = written
         /\ Only(t)
<1>1. t \in Threads /\ i \in DOMAIN logworkers
  BY ElementOfSeq DEF LogTypes
<1>2. ~(i > Len(logworkers))
  BY DEF LogTypes
<1>3. /\ curPtr' = [curPtr EXCEPT ![t] = Other(@)] /\ bufptr' = curPtr[t] /\ lpc' = "write"
      /\ buf' = buf /\ written' = written
  BY <1>2 DEF Sweep, SwapBuffer
<1> QED BY <1>1, <1>3 DEF LogTypes, Only

\* It then writes and empties the buffer that it swapped out.
LEMMA SweepWriteFacts ==
  ASSUME LogTypes, Control, SweepWrite, NEW t, t = logworkers[i]
  PROVE  /\ t \in Threads /\ i \in DOMAIN logworkers
         /\ written'[t] = written[t] \o buf[t][Other(curPtr[t])]
         /\ buf'[t][Other(curPtr[t])] = <<>>
         /\ buf'[t][curPtr[t]] = buf[t][curPtr[t]]
         /\ curPtr' = curPtr
         /\ Only(t)
<1>1. t \in Threads /\ i \in DOMAIN logworkers
  BY ElementOfSeq DEF LogTypes, Control, SweepWrite
<1>2. bufptr = Other(curPtr[t]) /\ bufptr \in Buffers /\ curPtr[t] \in Buffers /\ curPtr[t] # bufptr
  BY <1>1, Swapping DEF Control, SweepWrite, LogTypes
<1>3. /\ written' = [written EXCEPT ![t] = @ \o buf[t][bufptr]]
      /\ buf' = [buf EXCEPT ![t][bufptr] = <<>>]
      /\ curPtr' = curPtr
  BY DEF SweepWrite, WriteStr
<1> QED BY <1>1, <1>2, <1>3 DEF LogTypes, Only

\* A logger whose thread has gone is removed: its last lines are written, those of sync mode not.
LEMMA SweepRetireFacts ==
  ASSUME LogTypes, Control, SweepRetire, NEW t, t = logworkers[i]
  PROVE  /\ t \in Threads /\ i \in DOMAIN logworkers /\ i \in 1 .. Len(logworkers)
         /\ holder[t] = "no" /\ buf[t][Other(curPtr[t])] = <<>>
         /\ written'[t] = written[t] \o (IF isSync THEN <<>> ELSE buf[t][curPtr[t]])
         /\ \A b \in Buffers : buf'[t][b] = <<>>
         /\ curPtr'[t] = Other(curPtr[t])
         /\ Only(t)
<1>1. t \in Threads /\ i \in DOMAIN logworkers /\ i \in 1 .. Len(logworkers)
  BY ElementOfSeq DEF LogTypes, Control, SweepRetire
<1>2. bufptr = Other(curPtr[t]) /\ Other(bufptr) = curPtr[t]
  BY <1>1, Swapping DEF Control, SweepRetire, LogTypes
<1>3. /\ holder[t] = "no" /\ buf[t][bufptr] = <<>>
      /\ written' = [written EXCEPT ![t] = @ \o (IF isSync THEN buf[t][bufptr] ELSE buf[t][curPtr[t]])]
      /\ buf' = [buf EXCEPT ![t] = EmptyBuffers]
      /\ curPtr' = [curPtr EXCEPT ![t] = Other(@)]
  BY <1>2 DEF SweepRetire, SwapBuffer, LastLines, LastLinesSync
<1>4. \A b \in Buffers : EmptyBuffers[b] = <<>>
  BY DEF EmptyBuffers
<1> HIDE DEF EmptyBuffers
<1>5. buf'[t] = EmptyBuffers /\ curPtr'[t] = Other(curPtr[t]) /\ Only(t)
  BY <1>1, <1>3 DEF LogTypes, Only
<1>6. written'[t] = written[t] \o (IF isSync THEN <<>> ELSE buf[t][curPtr[t]])
  BY <1>1, <1>3 DEF LogTypes
<1> QED BY <1>1, <1>2, <1>3, <1>4, <1>5, <1>6

\* A final pass writes and empties the current buffer of the logger it has come to.
LEMMA FinalFacts ==
  ASSUME LogTypes, Final, HasNext(i), NEW t, t = logworkers[i]
  PROVE  /\ t \in Threads /\ i \in DOMAIN logworkers
         /\ written'[t] = written[t] \o buf[t][curPtr[t]]
         /\ buf'[t][curPtr[t]] = <<>>
         /\ buf'[t][Other(curPtr[t])] = buf[t][Other(curPtr[t])]
         /\ curPtr'[t] = Other(curPtr[t])
         /\ i' = i + 1 /\ lpc' = lpc
         /\ Only(t)
<1>1. t \in Threads /\ i \in DOMAIN logworkers
  BY ElementOfSeq DEF LogTypes, HasNext
<1>2. curPtr[t] \in Buffers /\ Other(curPtr[t]) \in Buffers /\ Other(curPtr[t]) # curPtr[t]
  BY <1>1, Swapping DEF LogTypes
<1>3. /\ written' = [written EXCEPT ![t] = @ \o buf[t][curPtr[t]]]
      /\ buf' = [buf EXCEPT ![t][curPtr[t]] = <<>>]
      /\ curPtr' = [curPtr EXCEPT ![t] = Other(@)]
      /\ i' = i + 1 /\ lpc' = lpc
  BY DEF Final, SwapBuffer, WriteStr
<1> QED BY <1>1, <1>2, <1>3 DEF LogTypes, Only

-----------------------------------------------------------------------------
(* The log thread's place.                                                 *)

\* Every step keeps the log thread's place in step with its flags.
LEMMA ControlKept == LogInv /\ [Next]_vars => Control'
<1> SUFFICES ASSUME LogInv, [Next]_vars PROVE Control'
  OBVIOUS
<1>0. LogTypes /\ Control
  BY DEF LogInv, Cursor
<1>1. CASE Sweep /\ i <= Len(logworkers)
  <2> PICK t : t = logworkers[i]
    OBVIOUS
  <2>1. /\ curPtr'[t] = Other(curPtr[t]) /\ bufptr' = curPtr[t] /\ lpc' = "write"
        /\ curPtr[t] \in Buffers
    BY <1>0, <1>1, SweepFacts DEF LogTypes
  <2>2. UNCHANGED <<logworkers, i>>
    BY <1>1 DEF Sweep
  <2> QED BY <1>0, <1>1, <2>1, <2>2, Swapping DEF Control
<1>2. CASE Sweep /\ i > Len(logworkers)
  BY <1>0, <1>2 DEF Control, Sweep
<1>3. ASSUME NEW sync \in BOOLEAN, Start(sync) PROVE Control'
  BY <1>0, <1>3 DEF Control, Start
<1>4. CASE Stop
  BY <1>0, <1>4 DEF Control, Stop, threadVars, loggerVars
<1>5. CASE Loop \/ Splice \/ Wake \/ SweepWrite \/ SweepSkip \/ SweepRetire \/ EndSweep
  <2>1. /\ lpc' \in {"splice", "final1", "wait", "loop", "sweep"}
        /\ lpc' = "final1" => ~isRunning /\ isRunning' = isRunning
    BY <1>5 DEF Loop, Splice, Wake, SweepWrite, SweepSkip, SweepRetire, EndSweep
  <2> QED BY <2>1 DEF Control
<1>6. CASE Final
  <2>1. lpc' \in {"final1", "final2", "end"} /\ ~isRunning'
    BY <1>0, <1>6 DEF Control, Final
  <2> QED BY <2>1 DEF Control
<1>7. CASE UNCHANGED <<lpc, isSync, isRunning, i, logworkers, bufptr, curPtr>>
  BY <1>0, <1>7 DEF Control
<1>8. CASE \E t \in Threads : AddLogger(t) \/ LogMent(t) \/ Exit(t)
  BY <1>7, <1>8 DEF AddLogger, LogMent, Exit, threadVars
<1>9. i <= Len(logworkers) \/ i > Len(logworkers)
  BY <1>0 DEF LogTypes
<1>10. CASE UNCHANGED vars
  BY <1>7, <1>10 DEF vars, threadVars, loggerVars
<1> QED BY <1>1, <1>2, <1>3, <1>4, <1>5, <1>6, <1>8, <1>9, <1>10 DEF Next, LogStep

\* Every step keeps the swapped-out buffers empty but for the one being written.
LEMMA OtherEmptyKept == LogInv /\ [Next]_vars => OtherEmpty'
<1> SUFFICES ASSUME LogInv, [Next]_vars PROVE OtherEmpty'
  OBVIOUS
<1>0. LogTypes /\ Control /\ OtherEmpty
  BY DEF LogInv, Cursor
<1> PICK t : t = logworkers[i]
  OBVIOUS
<1>1. ASSUME NEW u \in Threads, LogMent(u) PROVE OtherEmpty'
  <2>1. UNCHANGED <<lpc, logworkers, i>>
    BY <1>1 DEF LogMent, threadVars
  <2> QED BY <1>0, <1>1, <2>1, LogMentFacts DEF OtherEmpty, Writing
<1>2. CASE Sweep /\ i <= Len(logworkers)
  <2>1. /\ t \in Threads /\ lpc' = "write" /\ lpc = "sweep" /\ UNCHANGED <<logworkers, i>> /\ Only(t)
    BY <1>0, <1>2, SweepFacts DEF Sweep
  <2> QED BY <1>0, <2>1 DEF OtherEmpty, Writing, Only
<1>3. CASE SweepWrite
  <2>1. /\ t \in Threads /\ buf'[t][Other(curPtr[t])] = <<>> /\ curPtr' = curPtr /\ Only(t)
    BY <1>0, <1>3, SweepWriteFacts
  <2> QED BY <1>0, <2>1 DEF OtherEmpty, Writing, Only
<1>4. CASE SweepSkip
  <2>1. lpc = "write" /\ buf' = buf /\ curPtr' = curPtr /\ buf[t][bufptr] = <<>>
    BY <1>4 DEF SweepSkip, loggerVars
  <2> QED BY <1>0, <2>1 DEF OtherEmpty, Writing, Control
<1>5. CASE SweepRetire
  <2>1. /\ t \in Threads /\ Only(t) /\ \A b \in Buffers : buf'[t][b] = <<>>
        /\ curPtr'[t] = Other(curPtr[t])
    BY <1>0, <1>5, SweepRetireFacts
  <2>2. Other(curPtr'[t]) \in Buffers
    BY <1>0, <2>1, Swapping DEF LogTypes
  <2> QED BY <1>0, <2>1, <2>2 DEF OtherEmpty, Writing, Only
<1>6. CASE Final /\ HasNext(i)
  <2>1. /\ t \in Threads /\ Only(t) /\ buf'[t][curPtr[t]] = <<>>
        /\ curPtr'[t] = Other(curPtr[t])
    BY <1>0, <1>6, FinalFacts
  <2>2. Other(curPtr'[t]) = curPtr[t]
    BY <1>0, <2>1, Swapping DEF LogTypes
  <2>3. lpc # "write"
    BY <1>6 DEF Final
  <2> QED BY <1>0, <2>1, <2>2, <2>3 DEF OtherEmpty, Writing, Only
<1>7. CASE UNCHANGED <<buf, curPtr>> /\ (lpc # "write" \/ UNCHANGED <<lpc, i, logworkers>>)
  BY <1>0, <1>7 DEF OtherEmpty, Writing
<1>8. CASE \E u \in Threads : AddLogger(u) \/ Exit(u)
  BY <1>7, <1>8 DEF AddLogger, Exit, threadVars
<1>9. CASE (\E sync \in BOOLEAN : Start(sync)) \/ Stop \/ Loop \/ Splice \/ Wake \/ EndSweep
  BY <1>7, <1>9 DEF Start, Stop, Loop, Splice, Wake, EndSweep, threadVars, loggerVars
<1>10. CASE Sweep /\ ~(i <= Len(logworkers))
  <2>1. i > Len(logworkers)
    BY <1>0, <1>10 DEF LogTypes
  <2> QED BY <1>7, <1>10, <2>1 DEF Sweep
<1>11. CASE Final /\ ~HasNext(i)
  BY <1>7, <1>11 DEF Final
<1>12. CASE UNCHANGED vars
  BY <1>7, <1>12 DEF vars, threadVars, loggerVars
<1> QED
  BY <1>1, <1>2, <1>3, <1>4, <1>5, <1>6, <1>8, <1>9, <1>10, <1>11, <1>12 DEF Next, LogStep

\* Every step leaves a removed logger without lines.
LEMMA RemovedDrainedKept == LogInv /\ [Next]_vars => RemovedDrained'
<1> SUFFICES ASSUME LogInv, [Next]_vars PROVE RemovedDrained'
  OBVIOUS
<1>0. LogTypes /\ Control /\ Loggers /\ RemovedDrained
  BY DEF LogInv, Cursor
<1> PICK t : t = logworkers[i]
  OBVIOUS
<1>1. ASSUME NEW u \in Threads, LogMent(u) PROVE RemovedDrained'
  <2>1. UNCHANGED <<logVectmp, logworkers, holder>> /\ holder[u] = "yes"
    BY <1>1 DEF LogMent
  <2> QED BY <1>0, <1>1, <2>1, LogMentFacts DEF RemovedDrained, Listed, Drained
<1>2. ASSUME NEW u \in Threads, AddLogger(u) PROVE RemovedDrained'
  <2>1. Listed' = Listed \cup {u}
    <3>1. Elements(logVectmp') = Elements(logVectmp) \cup {u} /\ logworkers' = logworkers
      BY <1>0, <1>2, ElementsAppend DEF AddLogger, LogTypes
    <3> QED BY <3>1 DEF Listed
  <2> QED BY <1>0, <1>2, <2>1 DEF AddLogger, RemovedDrained, Drained, LogTypes
<1>3. ASSUME NEW u \in Threads, Exit(u) PROVE RemovedDrained'
  <2>1. u \in Listed /\ UNCHANGED <<logVectmp, logworkers, buf>>
    BY <1>0, <1>3 DEF Exit, Loggers
  <2> QED BY <1>0, <1>3, <2>1 DEF Exit, RemovedDrained, Drained, Listed, LogTypes
<1>4. CASE Splice
  <2>1. Elements(logworkers') = Elements(logworkers) \cup Elements(logVectmp)
    BY <1>0, <1>4, ElementsConcat DEF Splice, SpliceAll, LogTypes
  <2>2. Elements(logVectmp') = {}
    BY <1>4 DEF Splice, Elements
  <2> QED BY <1>0, <1>4, <2>1, <2>2 DEF Splice, loggerVars, RemovedDrained, Drained, Listed
<1>5. CASE SweepWrite
  <2>1. t \in Threads /\ i \in DOMAIN logworkers /\ Only(t)
    BY <1>0, <1>5, SweepWriteFacts
  <2>2. t \in Listed /\ UNCHANGED <<logVectmp, logworkers, holder>>
    BY <1>5, <2>1 DEF SweepWrite, Listed, Elements
  <2> QED BY <1>0, <2>1, <2>2 DEF RemovedDrained, Drained, Listed, Only
<1>6. CASE SweepRetire
  <2>1. /\ t \in Threads /\ i \in 1 .. Len(logworkers) /\ Only(t)
        /\ \A b \in Buffers : buf'[t][b] = <<>>
    BY <1>0, <1>6, SweepRetireFacts
  <2>2. Elements(logworkers') = Elements(logworkers) \ {t}
    <3>1. logworkers' = SwapRemove(logworkers, i) /\ logworkers \in Seq(Threads) /\ IsInjective(logworkers)
      BY <1>0, <1>6 DEF SweepRetire, Loggers, LogTypes
    <3> QED BY <2>1, <3>1, ElementsSwapRemove
  <2>3. UNCHANGED <<logVectmp, holder>>
    BY <1>6 DEF SweepRetire
  <2> QED BY <1>0, <2>1, <2>2, <2>3 DEF RemovedDrained, Drained, Listed, Only
<1>7. CASE Final /\ HasNext(i)
  <2>1. t \in Threads /\ i \in DOMAIN logworkers /\ Only(t)
    BY <1>0, <1>7, FinalFacts
  <2>2. t \in Listed /\ UNCHANGED <<logVectmp, logworkers, holder>>
    BY <1>7, <2>1 DEF Final, Listed, Elements
  <2> QED BY <1>0, <2>1, <2>2 DEF RemovedDrained, Drained, Listed, Only
<1>8. CASE UNCHANGED <<logVectmp, logworkers, holder, buf>>
  BY <1>0, <1>8 DEF RemovedDrained, Drained, Listed
<1>9. CASE \/ (\E sync \in BOOLEAN : Start(sync)) \/ Stop \/ Loop \/ Wake \/ Sweep \/ SweepSkip
           \/ EndSweep \/ (Final /\ ~HasNext(i)) \/ UNCHANGED vars
  BY <1>8, <1>9 DEF Start, Stop, Loop, Wake, Sweep, SweepSkip, EndSweep, Final, vars, loggerVars
<1> QED BY <1>1, <1>2, <1>3, <1>4, <1>5, <1>6, <1>7, <1>9 DEF Next, LogStep

\* Every step leaves no line but a late one in a logger that a final pass has written.
LEMMA PassedDrainedKept == LogInv /\ [Next]_vars => PassedDrained'
<1> SUFFICES ASSUME LogInv, [Next]_vars PROVE PassedDrained'
  OBVIOUS
<1>0. LogTypes /\ Control /\ OtherEmpty /\ PassedDrained
  BY DEF LogInv, Cursor
<1>a. \A h \in DOMAIN logworkers : logworkers[h] \in Threads
  BY <1>0, ElementOfSeq DEF LogTypes
<1> PICK t : t = logworkers[i]
  OBVIOUS
<1>1. ASSUME NEW u \in Threads, LogMent(u) PROVE PassedDrained'
  <2>1. UNCHANGED <<lpc, i, logworkers>>
    BY <1>1 DEF LogMent, threadVars
  <2>2. late \subseteq late' /\ (lpc \in {"final1", "final2", "end"} => u \in late')
    BY <1>0, <1>1 DEF LogMent, Control
  <2>3. \A v \in Threads \ {u} : buf'[v] = buf[v]
    BY <1>0, <1>1, LogMentFacts
  <2> QED BY <1>0, <1>a, <2>1, <2>2, <2>3 DEF PassedDrained, Passed, Drained
<1>2. CASE Final /\ HasNext(i)
  <2>1. /\ t \in Threads /\ Only(t) /\ i' = i + 1 /\ lpc' = lpc
        /\ buf'[t][curPtr[t]] = <<>> /\ buf'[t][Other(curPtr[t])] = buf[t][Other(curPtr[t])]
    BY <1>0, <1>2, FinalFacts
  <2>2. lpc # "write" /\ UNCHANGED <<logworkers, late>>
    BY <1>2 DEF Final
  <2>3. \A b \in Buffers : buf'[t][b] = <<>>
    BY <1>0, <2>1, <2>2, Swapping DEF OtherEmpty, Writing, LogTypes
  <2>4. ASSUME NEW h \in DOMAIN logworkers, h # i, Passed(h)' PROVE Passed(h)
    BY <1>0, <2>1, <2>4 DEF Passed, LogTypes
  <2> QED BY <1>0, <1>a, <2>1, <2>2, <2>3, <2>4 DEF PassedDrained, Drained, Only
<1>3. CASE Final /\ ~HasNext(i)
  <2>1. /\ UNCHANGED <<buf, logworkers, late>> /\ lpc' \in {"final2", "end"} /\ lpc \in {"final1", "final2"}
    BY <1>3 DEF Final
  <2>2. \A h \in DOMAIN logworkers : Passed(h)
    BY <1>0, <1>3, <2>1 DEF HasNext, Passed, LogTypes
  <2> QED BY <1>0, <2>1, <2>2 DEF PassedDrained, Drained
<1>4. CASE lpc' \notin {"final1", "final2", "end"}
  BY <1>4 DEF PassedDrained, Passed
<1>5. CASE Loop
  <2>1. i' = 1 /\ lpc' \notin {"final2", "end"} /\ logworkers' = logworkers
    BY <1>5 DEF Loop
  <2>2. ASSUME NEW h \in DOMAIN logworkers PROVE ~Passed(h)'
    BY <1>0, <2>1 DEF Passed, LogTypes
  <2> QED BY <2>1, <2>2 DEF PassedDrained
<1>6. CASE UNCHANGED <<lpc, i, logworkers, late, buf>>
  BY <1>0, <1>6 DEF PassedDrained, Passed, Drained
<1>7. CASE (\E u \in Threads : AddLogger(u) \/ Exit(u)) \/ Stop \/ UNCHANGED vars
  BY <1>6, <1>7 DEF AddLogger, Exit, Stop, threadVars, loggerVars, vars
<1>8. CASE \/ (\E sync \in BOOLEAN : Start(sync)) \/ Splice \/ Wake \/ Sweep \/ SweepWrite
           \/ SweepSkip \/ SweepRetire \/ EndSweep
  BY <1>4, <1>8
  DEF Start, Splice, Wake, Sweep, SweepWrite, SweepSkip, SweepRetire, EndSweep
<1> QED BY <1>1, <1>2, <1>3, <1>5, <1>7, <1>8 DEF Next, LogStep

-----------------------------------------------------------------------------
(* The lines.                                                              *)

\* The two forms a thread's lines may have: LinesInOrder is this of every thread.
LinesOf(t) ==
  \/ Kept(t) = Lines(t)
  \/ isSync /\ Retired(t) /\ Kept(t) = SubSeq(Lines(t), 1, Len(Kept(t)))

\* The numbers of the lines logged, after one more.
LEMMA Counting ==
  ASSUME NEW m \in Nat
  PROVE  /\ [j \in 1 .. m |-> j] \in Seq(Nat)
         /\ [j \in 1 .. m + 1 |-> j] = Append([j \in 1 .. m |-> j], m + 1)
<1> DEFINE s == [j \in 1 .. m |-> j]
           s1 == [j \in 1 .. m + 1 |-> j]
<1>1. s \in Seq(Nat) /\ Len(s) = m /\ \A j \in 1 .. m : s[j] = j
  OBVIOUS
<1>2. s1 \in Seq(Nat) /\ Len(s1) = m + 1 /\ \A j \in 1 .. m + 1 : s1[j] = j
  OBVIOUS
<1> HIDE DEF s, s1
<1>3. /\ Append(s, m + 1) \in Seq(Nat) /\ Len(Append(s, m + 1)) = m + 1
      /\ \A j \in 1 .. m : Append(s, m + 1)[j] = j
      /\ Append(s, m + 1)[m + 1] = m + 1
  BY <1>1, AppendProperties
<1>4. \A j \in 1 .. Len(s1) : s1[j] = Append(s, m + 1)[j]
  BY <1>2, <1>3
<1>5. s1 = Append(s, m + 1)
  BY <1>2, <1>3, <1>4, SeqEqual
<1> QED BY <1>1, <1>5 DEF s, s1

\* The file and the two buffers of a logger, put together.
LEMMA Joining ==
  ASSUME NEW a \in Seq(Nat), NEW b \in Seq(Nat), NEW c \in Seq(Nat)
  PROVE  /\ a \o b \o c \in Seq(Nat)
         /\ a \o <<>> \o c = a \o c /\ a \o b \o <<>> = a \o b
         /\ a \o <<>> \o <<>> = a
<1>1. /\ a \o b \in Seq(Nat) /\ a \o c \in Seq(Nat) /\ a \o b \o c \in Seq(Nat)
      /\ <<>> \in Seq(Nat)
  BY ConcatProperties, EmptySeq
<1>2. a \o <<>> = a /\ (a \o b) \o <<>> = a \o b
  BY <1>1, ConcatEmptySeq
<1> QED BY <1>1, <1>2

\* A line appended to the last of them is appended to the whole.
LEMMA JoinAppend ==
  ASSUME NEW a \in Seq(Nat), NEW b \in Seq(Nat), NEW c \in Seq(Nat), NEW x \in Nat
  PROVE  a \o b \o Append(c, x) = Append(a \o b \o c, x)
<1>1. a \o b \in Seq(Nat) /\ a \o b \o c \in Seq(Nat) /\ <<x>> \in Seq(Nat)
  BY ConcatProperties
<1>2. Append(c, x) = c \o <<x>>
  BY AppendIsConcat
<1>3. Append(a \o b \o c, x) = a \o b \o c \o <<x>>
  BY <1>1, AppendIsConcat
<1>4. (a \o b) \o (c \o <<x>>) = ((a \o b) \o c) \o <<x>>
  BY <1>1, ConcatAssociative
<1> QED BY <1>2, <1>3, <1>4

\* A sequence is the front of its concatenation with another.
LEMMA PrefixOfConcat ==
  ASSUME NEW a \in Seq(Nat), NEW b \in Seq(Nat)
  PROVE  SubSeq(a \o b, 1, Len(a)) = a
<1> DEFINE c == a \o b
           p == SubSeq(c, 1, Len(a))
<1>1. /\ Len(a) \in Nat /\ Len(b) \in Nat
      /\ \A j \in 1 .. Len(a) : c[j] = a[j] /\ a[j] \in Nat
  BY ConcatProperties, LenProperties, ElementOfSeq
<1> HIDE DEF c
<1>2. /\ p \in Seq(Nat) /\ Len(p) = IF 1 <= Len(a) THEN Len(a) - 1 + 1 ELSE 0
      /\ \A j \in 1 .. Len(a) - 1 + 1 : p[j] = c[1 + j - 1]
  BY <1>1, SubSeqProperties
<1> HIDE DEF p
<1>3. Len(p) = Len(a) /\ \A j \in 1 .. Len(p) : p[j] = a[j]
  BY <1>1, <1>2
<1>4. p = a
  BY <1>2, <1>3, SeqEqual
<1> QED BY <1>4 DEF p, c

\* The lines of a logger, by where they are.
LEMMA KeptTypes ==
  ASSUME LogTypes, NEW t \in Threads
  PROVE  /\ written[t] \in Seq(Nat) /\ Kept(t) \in Seq(Nat)
         /\ curPtr[t] \in Buffers /\ Other(curPtr[t]) \in Buffers
         /\ buf[t][curPtr[t]] \in Seq(Nat) /\ buf[t][Other(curPtr[t])] \in Seq(Nat)
         /\ Lines(t) \in Seq(Nat)
<1>1. /\ written[t] \in Seq(Nat)
      /\ curPtr[t] \in Buffers /\ Other(curPtr[t]) \in Buffers
      /\ buf[t][curPtr[t]] \in Seq(Nat) /\ buf[t][Other(curPtr[t])] \in Seq(Nat)
  BY Swapping DEF LogTypes
<1>2. Kept(t) \in Seq(Nat)
  BY <1>1, Joining DEF Kept
<1>3. Lines(t) \in Seq(Nat)
  BY Counting DEF Lines, LogTypes
<1> QED BY <1>1, <1>2, <1>3

\* A removed logger stays removed, and isSync is set before the log thread runs.
LEMMA RetiredKept ==
  ASSUME LogInv, LogTypes', [Next]_vars, NEW t \in Threads, isSync, Retired(t)
  PROVE  isSync' /\ Retired(t)'
<1>0. LogTypes /\ Loggers /\ Control
  BY DEF LogInv, Cursor
<1>1. Elements(logVectmp \o logworkers) = Listed
  BY <1>0, ElementsConcat DEF LogTypes, Listed
<1>2. Elements(logVectmp' \o logworkers') = Listed'
  BY ElementsConcat DEF LogTypes, Listed
<1>3. holder[t] = "no" /\ t \notin Listed
  BY <1>1 DEF Retired
<1> SUFFICES isSync' /\ holder'[t] = "no" /\ t \notin Listed'
  BY <1>2 DEF Retired
<1>4. ASSUME NEW u \in Threads, AddLogger(u) PROVE isSync' /\ holder'[t] = "no" /\ t \notin Listed'
  <2>1. Elements(logVectmp') = Elements(logVectmp) \cup {u} /\ logworkers' = logworkers
    BY <1>0, <1>4, ElementsAppend DEF AddLogger, LogTypes
  <2>2. u # t
    BY <1>3, <1>4 DEF AddLogger
  <2> QED BY <1>0, <1>3, <1>4, <2>1, <2>2 DEF AddLogger, LogTypes, Listed
<1>5. CASE Splice
  <2>1. Elements(logworkers') = Elements(logworkers) \cup Elements(logVectmp)
    BY <1>0, <1>5, ElementsConcat DEF Splice, SpliceAll, LogTypes
  <2>2. Elements(logVectmp') = {}
    BY <1>5 DEF Splice, Elements
  <2> QED BY <1>3, <1>5, <2>1, <2>2 DEF Splice, loggerVars, Listed
<1>6. CASE SweepRetire
  <2> PICK u : u = logworkers[i]
    OBVIOUS
  <2>1. i \in 1 .. Len(logworkers)
    BY <1>0, <1>6, SweepRetireFacts
  <2>2. logworkers' = SwapRemove(logworkers, i) /\ logworkers \in Seq(Threads) /\ IsInjective(logworkers)
    BY <1>0, <1>6 DEF SweepRetire, Loggers, LogTypes
  <2>3. Elements(logworkers') = Elements(logworkers) \ {u}
    BY <2>1, <2>2, ElementsSwapRemove
  <2>4. UNCHANGED <<isSync, holder, logVectmp>>
    BY <1>6 DEF SweepRetire
  <2> QED BY <1>3, <2>3, <2>4 DEF Listed
<1>7. ASSUME NEW u \in Threads, Exit(u) PROVE isSync' /\ holder'[t] = "no" /\ t \notin Listed'
  BY <1>0, <1>3, <1>7 DEF Exit, LogTypes, Listed
<1>8. ASSUME NEW sync \in BOOLEAN, Start(sync) PROVE FALSE
  BY <1>0, <1>8 DEF Start, Control
<1>9. CASE UNCHANGED <<isSync, holder, logVectmp, logworkers>>
  BY <1>3, <1>9 DEF Listed
<1>10. CASE \/ (\E u \in Threads : LogMent(u)) \/ Stop \/ Loop \/ Wake \/ Sweep \/ SweepWrite
            \/ SweepSkip \/ EndSweep \/ Final \/ UNCHANGED vars
  BY <1>9, <1>10
  DEF LogMent, Stop, Loop, Wake, Sweep, SweepWrite, SweepSkip, EndSweep, Final, vars, loggerVars
<1> QED BY <1>4, <1>5, <1>6, <1>7, <1>8, <1>10 DEF Next, LogStep

\* A step that changes neither what is kept of t nor what t has logged.
LEMMA LinesSame ==
  ASSUME LogInv, LogTypes', [Next]_vars, NEW t \in Threads, LinesOf(t),
         Kept(t)' = Kept(t), logged'[t] = logged[t]
  PROVE  LinesOf(t)'
<1>1. Lines(t)' = Lines(t)
  BY DEF Lines
<1>2. CASE Kept(t) = Lines(t)
  BY <1>1, <1>2 DEF LinesOf
<1>3. CASE isSync /\ Retired(t) /\ Kept(t) = SubSeq(Lines(t), 1, Len(Kept(t)))
  <2>1. isSync' /\ Retired(t)'
    BY <1>3, RetiredKept
  <2> QED BY <1>1, <1>3, <2>1 DEF LinesOf
<1> QED BY <1>2, <1>3 DEF LinesOf

\* A line goes from a thread to its buffer, or from a buffer to the file.
LEMMA LinesStep ==
  ASSUME LogInv, LogTypes', [Next]_vars, NEW t \in Threads, LinesOf(t)
  PROVE  LinesOf(t)'
<1>0. LogTypes /\ Loggers /\ Control /\ OtherEmpty
  BY DEF LogInv, Cursor
<1>a. /\ written[t] \in Seq(Nat) /\ Kept(t) \in Seq(Nat) /\ <<>> \in Seq(Nat)
      /\ curPtr[t] \in Buffers /\ Other(curPtr[t]) \in Buffers
      /\ buf[t][curPtr[t]] \in Seq(Nat) /\ buf[t][Other(curPtr[t])] \in Seq(Nat)
      /\ Lines(t) \in Seq(Nat) /\ Other(Other(curPtr[t])) = curPtr[t]
  BY <1>0, KeptTypes, EmptySeq, Swapping
<1>1. CASE buf'[t] = buf[t] /\ curPtr'[t] = curPtr[t] /\ written'[t] = written[t] /\ logged'[t] = logged[t]
  <2>1. Kept(t)' = Kept(t)
    BY <1>1 DEF Kept
  <2> QED BY <1>1, <2>1, LinesSame
<1>2. CASE LogMent(t)
  <2>1. /\ buf'[t][curPtr[t]] = Append(buf[t][curPtr[t]], logged[t] + 1)
        /\ buf'[t][Other(curPtr[t])] = buf[t][Other(curPtr[t])]
        /\ logged'[t] = logged[t] + 1
        /\ curPtr' = curPtr /\ written' = written
    BY <1>0, <1>2, LogMentFacts
  <2>2. logged[t] \in Nat /\ logged[t] + 1 \in Nat
    BY <1>0 DEF LogTypes
  <2>3. Kept(t)' = Append(Kept(t), logged[t] + 1)
    <3>1. Kept(t)' = written[t] \o buf[t][Other(curPtr[t])] \o Append(buf[t][curPtr[t]], logged[t] + 1)
      BY <2>1 DEF Kept
    <3>2. Kept(t) = written[t] \o buf[t][Other(curPtr[t])] \o buf[t][curPtr[t]]
      BY DEF Kept
    <3>3. PICK a, b, c, x : a = written[t] /\ b = buf[t][Other(curPtr[t])] /\ c = buf[t][curPtr[t]]
                            /\ x = logged[t] + 1
      OBVIOUS
    <3>4. a \o b \o Append(c, x) = Append(a \o b \o c, x)
      <4>1. a \in Seq(Nat) /\ b \in Seq(Nat) /\ c \in Seq(Nat) /\ x \in Nat
        BY <1>a, <2>2, <3>3
      <4> QED BY <4>1, JoinAppend
    <3> QED BY <3>1, <3>2, <3>3, <3>4
  <2>4. Lines(t)' = Append(Lines(t), logged[t] + 1)
    BY <2>1, <2>2, Counting DEF Lines
  <2>5. Kept(t) = Lines(t)
    BY <1>2 DEF LinesOf, Retired, LogMent
  <2> QED BY <2>3, <2>4, <2>5 DEF LinesOf
<1>3. ASSUME NEW u \in Threads \ {t}, LogMent(u) PROVE LinesOf(t)'
  <2>1. buf'[t] = buf[t] /\ logged'[t] = logged[t] /\ curPtr' = curPtr /\ written' = written
    BY <1>0, <1>3, LogMentFacts
  <2> QED BY <1>1, <2>1
<1>4. CASE Sweep /\ i <= Len(logworkers)
  <2> PICK u : u = logworkers[i]
    OBVIOUS
  <2>1. /\ u \in Threads /\ Only(u) /\ buf' = buf /\ written' = written
        /\ curPtr'[u] = Other(curPtr[u]) /\ logged' = logged /\ lpc = "sweep"
    BY <1>0, <1>4, SweepFacts DEF Sweep
  <2>2. CASE u # t
    BY <1>1, <2>1, <2>2 DEF Only
  <2>3. CASE u = t
    <3>1. buf[t][Other(curPtr[t])] = <<>>
      BY <1>0, <2>1 DEF OtherEmpty, Writing
    <3>2. Kept(t)' = written[t] \o buf[t][curPtr[t]] \o <<>>
      BY <1>a, <2>1, <2>3, <3>1 DEF Kept
    <3>3. Kept(t) = written[t] \o <<>> \o buf[t][curPtr[t]]
      BY <3>1 DEF Kept
    <3>4. Kept(t)' = Kept(t)
      BY <1>a, <3>2, <3>3, Joining
    <3> QED BY <2>1, <3>4, LinesSame
  <2> QED BY <2>2, <2>3
<1>5. CASE SweepWrite
  <2> PICK u : u = logworkers[i]
    OBVIOUS
  <2>1. /\ u \in Threads /\ Only(u) /\ logged' = logged
        /\ written'[u] = written[u] \o buf[u][Other(curPtr[u])]
        /\ buf'[u][Other(curPtr[u])] = <<>>
        /\ buf'[u][curPtr[u]] = buf[u][curPtr[u]]
        /\ curPtr' = curPtr
    BY <1>0, <1>5, SweepWriteFacts DEF SweepWrite
  <2>2. CASE u # t
    BY <1>1, <2>1, <2>2 DEF Only
  <2>3. CASE u = t
    <3>1. written[t] \o buf[t][Other(curPtr[t])] \in Seq(Nat)
      BY <1>a, ConcatProperties
    <3>2. Kept(t)' = written[t] \o buf[t][Other(curPtr[t])] \o <<>> \o buf[t][curPtr[t]]
      BY <2>1, <2>3 DEF Kept
    <3>3. Kept(t)' = Kept(t)
      BY <1>a, <3>1, <3>2, Joining DEF Kept
    <3> QED BY <2>1, <3>3, LinesSame
  <2> QED BY <2>2, <2>3
<1>6. CASE SweepRetire
  <2> PICK u : u = logworkers[i]
    OBVIOUS
  <2>0. logged' = logged
    BY <1>6 DEF SweepRetire
  <2>1. /\ u \in Threads /\ Only(u) /\ logged' = logged /\ holder[u] = "no"
        /\ i \in DOMAIN logworkers /\ i \in 1 .. Len(logworkers)
        /\ buf[u][Other(curPtr[u])] = <<>>
        /\ written'[u] = written[u] \o (IF isSync THEN <<>> ELSE buf[u][curPtr[u]])
        /\ \A b \in Buffers : buf'[u][b] = <<>>
        /\ curPtr'[u] = Other(curPtr[u])
    BY <1>0, <1>6, <2>0, SweepRetireFacts
  <2>2. CASE u # t
    BY <1>1, <2>1, <2>2 DEF Only
  <2>3. CASE u = t
    <3>1. written'[t] \in Seq(Nat)
      BY DEF LogTypes
    <3>2. Kept(t)' = written'[t]
      <4>1. Kept(t)' = written'[t] \o <<>> \o <<>>
        BY <1>a, <2>1, <2>3 DEF Kept
      <4> QED BY <3>1, <4>1, <1>a, Joining
    <3>3. Kept(t) = written[t] \o buf[t][curPtr[t]]
      <4>1. Kept(t) = written[t] \o <<>> \o buf[t][curPtr[t]]
        BY <2>1, <2>3 DEF Kept
      <4> QED BY <1>a, <4>1, Joining
    <3>4. CASE ~isSync
      BY <2>1, <2>3, <3>2, <3>3, <3>4, LinesSame
    <3>5. CASE isSync
      <4>1. t \in Elements(logworkers)
        BY <2>1, <2>3 DEF Elements
      <4>2. Elements(logVectmp \o logworkers) = Listed
        BY <1>0, ListedOnce
      <4>3. Kept(t) = Lines(t)
        BY <4>1, <4>2 DEF LinesOf, Retired, Listed
      <4>4. written'[t] = written[t]
        BY <1>a, <2>1, <2>3, <3>5, ConcatEmptySeq
      <4>5. Retired(t)'
        <5>1. logworkers' = SwapRemove(logworkers, i) /\ logworkers \in Seq(Threads) /\ IsInjective(logworkers)
          BY <1>0, <1>6 DEF SweepRetire, Loggers, LogTypes
        <5>2. Elements(logworkers') = Elements(logworkers) \ {t}
          <6>1. i \in 1 .. Len(logworkers) /\ logworkers[i] = t
            BY <2>1, <2>3
          <6> QED BY <5>1, <6>1, ElementsSwapRemove
        <5>3. UNCHANGED <<isSync, holder, logVectmp>>
          BY <1>6 DEF SweepRetire
        <5>4. t \notin Elements(logVectmp')
          BY <1>0, <4>1, <5>3 DEF Loggers
        <5>5. Elements(logVectmp' \o logworkers') = Elements(logVectmp') \cup Elements(logworkers')
          BY ElementsConcat DEF LogTypes
        <5> QED BY <2>1, <2>3, <5>2, <5>3, <5>4, <5>5 DEF Retired
      <4>6. Lines(t)' = written[t] \o buf[t][curPtr[t]]
        BY <2>1, <3>3, <4>3 DEF Lines
      <4>7. SubSeq(written[t] \o buf[t][curPtr[t]], 1, Len(written[t])) = written[t]
        BY <1>a, PrefixOfConcat
      <4>8. isSync'
        BY <1>6, <3>5 DEF SweepRetire
      <4> QED BY <3>2, <4>4, <4>5, <4>6, <4>7, <4>8 DEF LinesOf
    <3> QED BY <3>4, <3>5
  <2> QED BY <2>2, <2>3
<1>7. CASE Final /\ HasNext(i)
  <2> PICK u : u = logworkers[i]
    OBVIOUS
  <2>1. /\ u \in Threads /\ Only(u) /\ logged' = logged /\ lpc # "write"
        /\ written'[u] = written[u] \o buf[u][curPtr[u]]
        /\ buf'[u][curPtr[u]] = <<>>
        /\ buf'[u][Other(curPtr[u])] = buf[u][Other(curPtr[u])]
        /\ curPtr'[u] = Other(curPtr[u])
    BY <1>0, <1>7, FinalFacts DEF Final
  <2>2. CASE u # t
    BY <1>1, <2>1, <2>2 DEF Only
  <2>3. CASE u = t
    <3>1. buf[t][Other(curPtr[t])] = <<>>
      BY <1>0, <2>1 DEF OtherEmpty, Writing
    <3>2. Kept(t)' = written[t] \o buf[t][curPtr[t]] \o <<>> \o <<>>
      BY <1>a, <2>1, <2>3, <3>1 DEF Kept
    <3>3. written[t] \o buf[t][curPtr[t]] \in Seq(Nat)
      BY <1>a, ConcatProperties
    <3>4. Kept(t)' = written[t] \o buf[t][curPtr[t]]
      BY <1>a, <3>2, <3>3, Joining
    <3>5. Kept(t) = written[t] \o buf[t][curPtr[t]]
      BY <1>a, <3>1, Joining DEF Kept
    <3> QED BY <2>1, <3>4, <3>5, LinesSame
  <2> QED BY <2>2, <2>3
<1>8. CASE UNCHANGED <<buf, curPtr, written, logged>>
  BY <1>1, <1>8
<1>9. CASE Sweep /\ ~(i <= Len(logworkers))
  <2>1. i > Len(logworkers)
    BY <1>0, <1>9 DEF LogTypes
  <2> QED BY <1>8, <1>9, <2>1 DEF Sweep
<1>10. CASE \/ (\E u \in Threads : AddLogger(u) \/ Exit(u)) \/ (\E sync \in BOOLEAN : Start(sync))
            \/ Stop \/ Loop \/ Splice \/ Wake \/ SweepSkip \/ EndSweep \/ (Final /\ ~HasNext(i))
            \/ UNCHANGED vars
  BY <1>8, <1>10
  DEF AddLogger, Exit, Start, Stop, Loop, Splice, Wake, SweepSkip, EndSweep, Final, vars, loggerVars
<1>11. ASSUME NEW u \in Threads, LogMent(u) PROVE LinesOf(t)'
  BY <1>2, <1>3, <1>11
<1> QED BY <1>4, <1>5, <1>6, <1>7, <1>9, <1>10, <1>11 DEF Next, LogStep

-----------------------------------------------------------------------------
(* The theorems.                                                           *)

\* Nothing is logged when the process starts.
LEMMA LogInvInit == Init => LogInv
<1> SUFFICES ASSUME Init PROVE LogInv
  OBVIOUS
<1>1. LogTypes
  BY EmptySeq DEF Init, LogTypes, EmptyBuffers, Buffers
<1>2. Listed = {} /\ IsInjective(logVectmp) /\ IsInjective(logworkers)
  BY DEF Init, Listed, Elements, IsInjective
<1>3. Loggers
  BY <1>2 DEF Init, Loggers, Listed
<1>4. \A t \in Threads : Drained(t)
  BY DEF Init, Drained, EmptyBuffers
<1>5. Cursor
  <2>1. OtherEmpty
    BY <1>1, <1>4, Swapping DEF OtherEmpty, Drained, LogTypes
  <2> QED BY <1>4, <2>1 DEF Init, Cursor, Control, RemovedDrained, PassedDrained, Passed
<1>6. ASSUME NEW t \in Threads PROVE Kept(t) = Lines(t)
  <2>1. written[t] = <<>> /\ buf[t][curPtr[t]] = <<>> /\ buf[t][Other(curPtr[t])] = <<>>
    BY <1>1, <1>4, Swapping DEF Init, Drained, LogTypes
  <2>2. Kept(t) = <<>>
    BY <2>1, EmptySeq, Joining DEF Kept
  <2>3. Lines(t) = <<>>
    BY DEF Init, Lines
  <2> QED BY <2>2, <2>3
<1> QED BY <1>1, <1>3, <1>5, <1>6 DEF LogInv, LinesInOrder

\* Every step keeps LogInv.
LEMMA LogInvStep == LogInv /\ [Next]_vars => LogInv'
<1> SUFFICES ASSUME LogInv, [Next]_vars PROVE LogInv'
  OBVIOUS
<1>1. LogTypes'
  BY TypesKept
<1>2. Loggers'
  BY LoggersKept
<1>3. Cursor'
  BY ControlKept, OtherEmptyKept, RemovedDrainedKept, PassedDrainedKept DEF Cursor
<1>4. \A t \in Threads : LinesOf(t)
  BY DEF LogInv, LinesInOrder, LinesOf
<1>5. \A t \in Threads : LinesOf(t)'
  BY <1>1, <1>4, LinesStep
<1>6. LinesInOrder'
  BY <1>5 DEF LinesInOrder, LinesOf
<1> QED BY <1>1, <1>2, <1>3, <1>6 DEF LogInv

\* No line is lost, doubled or reordered, with any number of threads that come and go and
\* log, except the last lines of a logger the loop of isSync removes.
THEOREM LinesCorrect == Spec => []LinesInOrder
<1>1. LogInv => LinesInOrder
  BY DEF LogInv
<1> QED BY <1>1, LogInvInit, LogInvStep, PTL DEF Spec

\* When the log thread has ended, only late lines are unwritten.
LEMMA InvImpliesAllWritten == LogInv => StopWritesAll
<1> SUFFICES ASSUME LogInv, lpc = "end", NEW t \in Threads,
                    t \notin Elements(logVectmp), t \notin late, ~(isSync /\ Retired(t))
             PROVE  written[t] = Lines(t)
  BY DEF StopWritesAll
<1>0. LogTypes /\ Loggers /\ Cursor
  BY DEF LogInv
<1>1. Kept(t) = Lines(t)
  BY DEF LogInv, LinesInOrder
<1>2. /\ written[t] \in Seq(Nat) /\ curPtr[t] \in Buffers /\ Other(curPtr[t]) \in Buffers
      /\ buf[t][curPtr[t]] \in Seq(Nat) /\ buf[t][Other(curPtr[t])] \in Seq(Nat)
  BY <1>0, KeptTypes
<1>3. CASE Drained(t)
  <2>1. Kept(t) = written[t] \o <<>> \o <<>>
    BY <1>2, <1>3 DEF Drained, Kept
  <2> QED BY <1>1, <1>2, <2>1, Joining
<1>4. CASE holder[t] = "none"
  <2>1. Lines(t) = <<>>
    BY <1>0, <1>4 DEF Loggers, Lines
  <2>2. written[t] \o buf[t][Other(curPtr[t])] \in Seq(Nat)
    BY <1>2, ConcatProperties
  <2>3. (written[t] \o buf[t][Other(curPtr[t])]) \o buf[t][curPtr[t]] = <<>>
    BY <1>1, <2>1 DEF Kept
  <2>4. written[t] \o buf[t][Other(curPtr[t])] = <<>>
    BY <1>2, <2>2, <2>3, ConcatEqualIffEmpty
  <2>5. written[t] = <<>>
    BY <1>2, <2>4, ConcatEqualIffEmpty
  <2> QED BY <2>1, <2>5
<1>5. CASE t \in Elements(logworkers)
  <2>1. PICK h \in DOMAIN logworkers : logworkers[h] = t
    BY <1>5 DEF Elements
  <2>2. Drained(t)
    BY <1>0, <2>1 DEF Cursor, PassedDrained, Passed
  <2> QED BY <1>3, <2>2
<1>6. CASE holder[t] # "none" /\ t \notin Elements(logworkers)
  <2>1. t \notin Listed
    BY <1>6 DEF Listed
  <2>2. holder[t] = "no"
    BY <1>0, <1>6, <2>1 DEF Loggers, LogTypes
  <2>3. Drained(t)
    BY <1>0, <2>1, <2>2 DEF Cursor, RemovedDrained
  <2> QED BY <1>3, <2>3
<1> QED BY <1>4, <1>5, <1>6

\* When the log thread has ended after Stop, every line is in the file but those of loggers
\* it never took over, those logged after isRunning_ was cleared, and those isSync loses.
THEOREM StopCorrect == Spec => []StopWritesAll
BY LogInvInit, LogInvStep, InvImpliesAllWritten, PTL DEF Spec

\* A cache as its two-argument constructor makes it, with room for something in both lists.
\* With a capacity of 0 every loop condition is true and the loops run past an empty list.
WellConstructed ==
  InitialUsage = {0} /\ max_probation_mem_size > 0 /\ max_protected_mem_size > 0

-----------------------------------------------------------------------------
(* The inductive invariant, until a second node of a key is left behind.   *)

Records == [id : 1..next - 1, key : CacheKeys, value : CacheValues \cup {Erased}]

\* No loop has met anything undefined; ids are handed out once.
CacheTypes ==
  /\ pc \in {"idle", "demote", "pop"}
  /\ next \in Nat \ {0}
  /\ IsFiniteSet(probation_list) /\ probation_list \subseteq Records
  /\ IsFiniteSet(protected_list) /\ protected_list \subseteq Records
  /\ cache_map \in [CacheKeys -> Nat]
  /\ last \in [CacheKeys -> CacheValues \cup {Erased, NotFound}]

\* Every key that the map knows has one node, in one of the lists, with its last value.
OneNodePerKey ==
  /\ probation_list \cap protected_list = {}
  /\ \A node \in Nodes : cache_map[node.key] = node.id /\ node.value = last[node.key]
  /\ \A a, b \in Nodes : a.id = b.id => a = b
  /\ \A k \in CacheKeys : cache_map[k] # 0 => \E node \in Nodes : node.key = k

\* A loop moves or drops records: the sum of the sizes never passes the sum of the limits.
UsageIsWeight ==
  /\ probation_memory_usage = Weight(probation_list)
  /\ protected_memory_usage = Weight(protected_list)
  /\ Weight(probation_list) + Weight(protected_list)
       <= max_probation_mem_size + max_protected_mem_size
  /\ pc \in {"idle", "pop"} => protected_memory_usage < max_protected_mem_size
  /\ pc = "idle" => probation_memory_usage < max_probation_mem_size

AnswerIsLast == answer.value # NotFound => answer.key \in CacheKeys /\ answer.value = last[answer.key]

CacheInv == disturbed = {} => CacheTypes /\ OneNodePerKey /\ UsageIsWeight /\ AnswerIsLast

-----------------------------------------------------------------------------
(* Sizes.                                                                  *)

\* A node more adds its size.
LEMMA WeightAdd ==
  ASSUME NEW S, IsFiniteSet(S), NEW node, node \notin S
  PROVE  /\ IsFiniteSet(S \cup {node})
         /\ Weight(S) \in Nat
         /\ Weight(S \cup {node}) = Weight(S) + Size(node.value)
<1> DEFINE Full(T) == {x \in T : x.value \in CacheValues}
<1>1. IsFiniteSet(Full(S)) /\ node \notin Full(S)
  BY FS_Subset
<1>2. /\ IsFiniteSet(S \cup {node}) /\ Cardinality(S \cup {node}) = Cardinality(S) + 1
      /\ Cardinality(S) \in Nat /\ Cardinality(Full(S)) \in Nat
  BY <1>1, FS_AddElement, FS_CardinalityType
<1>3. CASE node.value \in CacheValues
  <2>1. Full(S \cup {node}) = Full(S) \cup {node}
    BY <1>3
  <2>2. Cardinality(Full(S) \cup {node}) = Cardinality(Full(S)) + 1
    BY <1>1, FS_AddElement
  <2>3. Size(node.value) = 2
    BY <1>3 DEF Size
  <2> HIDE DEF Full
  <2> QED BY <1>2, <2>1, <2>2, <2>3 DEF Weight, Full
<1>4. CASE node.value \notin CacheValues
  <2>1. Full(S \cup {node}) = Full(S)
    BY <1>4
  <2>2. Size(node.value) = 1
    BY <1>4 DEF Size
  <2>3. /\ Weight(S) = Cardinality(S) + Cardinality(Full(S))
        /\ Weight(S \cup {node}) = Cardinality(S \cup {node}) + Cardinality(Full(S \cup {node}))
    BY DEF Weight
  <2> HIDE DEF Full
  <2> QED BY <1>2, <2>1, <2>2, <2>3
<1> QED BY <1>3, <1>4

\* A node less takes it away.
LEMMA WeightRemove ==
  ASSUME NEW S, IsFiniteSet(S), NEW node \in S
  PROVE  /\ IsFiniteSet(S \ {node})
         /\ Weight(S) \in Nat /\ Weight(S \ {node}) \in Nat
         /\ Weight(S) = Weight(S \ {node}) + Size(node.value)
<1>1. IsFiniteSet(S \ {node}) /\ node \notin S \ {node} /\ (S \ {node}) \cup {node} = S
  BY FS_RemoveElement
<1>2. /\ Weight(S \ {node}) \in Nat
      /\ Weight((S \ {node}) \cup {node}) = Weight(S \ {node}) + Size(node.value)
  BY <1>1, WeightAdd
<1>3. Size(node.value) \in Nat
  BY DEF Size
<1>4. Weight((S \ {node}) \cup {node}) = Weight(S)
  BY <1>1, Zenon
<1>5. Weight(S) = Weight(S \ {node}) + Size(node.value)
  BY <1>2, <1>4, Zenon
<1> QED BY <1>1, <1>2, <1>3, <1>5

\* A size is a number.
LEMMA WeightNat ==
  ASSUME NEW S, IsFiniteSet(S)
  PROVE  Weight(S) \in Nat
<1>1. IsFiniteSet({node \in S : node.value \in CacheValues})
  BY FS_Subset
<1>2. Cardinality(S) \in Nat /\ Cardinality({node \in S : node.value \in CacheValues}) \in Nat
  BY <1>1, FS_CardinalityType
<1> QED BY <1>2 DEF Weight

\* An empty list has no size.
LEMMA WeightEmpty == Weight({}) = 0
<1>1. {node \in {} : node.value \in CacheValues} = {}
  OBVIOUS
<1> QED BY <1>1, FS_EmptySet DEF Weight

\* The counters do not wrap around where the sums stay in range.
LEMMA NoWrap ==
  ASSUME NEW a \in Nat, NEW b \in Nat
  PROVE  /\ a + b < UintModulus => Plus(a, b) = a + b
         /\ a < UintModulus /\ b <= a => Minus(a, b) = a - b
<1>1. ASSUME NEW x \in Nat, NEW m \in Nat, x < m PROVE x % m = x
  BY <1>1
<1> QED BY <1>1, LimitsAssumption DEF Plus, Minus

\* Where no other node has the key, its erasure leaves no pointer dangling.
LEMMA UnlinkNothing ==
  ASSUME NEW S, S \subseteq Records, NEW k, \A node \in S : node.key # k
  PROVE  Unlink(S, k) = S
<1>1. \A node \in S : [id |-> node.id, key |-> IF node.key = k THEN Dangling ELSE node.key,
                       value |-> node.value] = node
  BY DEF Records
<1> QED BY <1>1 DEF Unlink

-----------------------------------------------------------------------------
(* The steps.                                                              *)

\* A node with a new id joins one of the lists in the place of the nodes of its key.
LEMMA NodesMove ==
  ASSUME CacheTypes, OneNodePerKey, NEW k \in CacheKeys, NEW value \in CacheValues \cup {Erased}
  PROVE  /\ Node(k, value) \notin Nodes
         /\ Node(k, value) \in [id : 1..(next + 1) - 1, key : CacheKeys, value : CacheValues \cup {Erased}]
         /\ Records \subseteq [id : 1..(next + 1) - 1, key : CacheKeys, value : CacheValues \cup {Erased}]
         /\ \A node \in Nodes : node.id # next
<1>1. \A node \in Nodes : node.id \in 1..next - 1
  BY DEF CacheTypes, Nodes, Records
<1>2. next \in Nat \ {0}
  BY DEF CacheTypes
<1>3. \A node \in Nodes : node.id # next
  BY <1>1, <1>2
<1>4. Node(k, value).id = next
  BY DEF Node
<1>5. Node(k, value) \notin Nodes
  BY <1>3, <1>4
<1>6. Node(k, value) \in [id : 1..(next + 1) - 1, key : CacheKeys, value : CacheValues \cup {Erased}]
  BY <1>2 DEF Node
<1>7. 1..next - 1 \subseteq 1..(next + 1) - 1
  BY <1>2
<1>8. Records \subseteq [id : 1..(next + 1) - 1, key : CacheKeys, value : CacheValues \cup {Erased}]
  BY <1>7 DEF Records
<1> QED BY <1>3, <1>5, <1>6, <1>8

\* set and setEraseRecord of a key that is not cached.
LEMMA PushKeeps ==
  ASSUME CacheInv, disturbed' = {}, WellConstructed, NEW k \in CacheKeys,
         NEW value \in CacheValues \cup {Erased}, PushCold(k, value), last' = [last EXCEPT ![k] = value]
  PROVE  CacheInv'
<1>d. disturbed = {} /\ cache_map[k] = 0
  BY DEF PushCold
<1>i. CacheTypes /\ OneNodePerKey /\ UsageIsWeight
  BY <1>d DEF CacheInv
<1>n. PICK new : new = Node(k, value) /\ new.id = next /\ new.key = k /\ new.value = value
  <2>1. Node(k, value).id = next /\ Node(k, value).key = k /\ Node(k, value).value = value
    BY DEF Node
  <2> QED BY <2>1
<1>m. /\ new \notin Nodes
      /\ new \in [id : 1..(next + 1) - 1, key : CacheKeys, value : CacheValues \cup {Erased}]
      /\ Records \subseteq [id : 1..(next + 1) - 1, key : CacheKeys, value : CacheValues \cup {Erased}]
      /\ \A node \in Nodes : node.id # next
  BY <1>i, <1>n, NodesMove
<1>s. /\ pc = "idle" /\ pc' = "pop" /\ next' = next + 1 /\ answer' = NoAnswer
      /\ probation_list' = probation_list \cup {new} /\ protected_list' = protected_list
      /\ cache_map' = [cache_map EXCEPT ![k] = next]
      /\ probation_memory_usage' = Plus(probation_memory_usage, Size(value))
      /\ protected_memory_usage' = protected_memory_usage
  BY <1>n DEF PushCold
<1>t. /\ next \in Nat \ {0} /\ cache_map \in [CacheKeys -> Nat]
      /\ last \in [CacheKeys -> CacheValues \cup {Erased, NotFound}]
      /\ IsFiniteSet(probation_list) /\ probation_list \subseteq Records
      /\ IsFiniteSet(protected_list) /\ protected_list \subseteq Records
  BY <1>i DEF CacheTypes
<1>k. \A node \in Nodes : node.key # k
  <2>1. \A node \in Nodes : cache_map[node.key] = node.id /\ node.id # 0
    BY <1>i, <1>t DEF OneNodePerKey, Nodes, Records
  <2> QED BY <1>d, <2>1
<1>w. /\ IsFiniteSet(probation_list \cup {new}) /\ Weight(probation_list) \in Nat
      /\ Weight(probation_list \cup {new}) = Weight(probation_list) + Size(value)
  <2>1. new \notin probation_list
    BY <1>m DEF Nodes
  <2> QED BY <1>n, <1>t, <2>1, WeightAdd
<1>1. CacheTypes'
  <2>1. Records' = [id : 1..(next + 1) - 1, key : CacheKeys, value : CacheValues \cup {Erased}]
    BY <1>s DEF Records
  <2>2. next' \in Nat \ {0} /\ cache_map' \in [CacheKeys -> Nat]
        /\ last' \in [CacheKeys -> CacheValues \cup {Erased, NotFound}]
    BY <1>s, <1>t
  <2> QED BY <1>m, <1>s, <1>t, <1>w, <2>1, <2>2 DEF CacheTypes
<1>2. OneNodePerKey'
  <2>n. Nodes' = Nodes \cup {new}
    BY <1>s DEF Nodes
  <2>1. (probation_list \cap protected_list)' = {}
    BY <1>i, <1>m, <1>s DEF OneNodePerKey, Nodes
  <2>2. ASSUME NEW node \in Nodes \cup {new}
        PROVE  cache_map'[node.key] = node.id /\ node.value = last'[node.key]
    <3>1. CASE node = new
      BY <1>n, <1>s, <1>t, <3>1
    <3>2. CASE node \in Nodes
      <4>1. node.key \in CacheKeys /\ node.key # k
        BY <1>k, <1>t, <3>2 DEF Nodes, Records
      <4> QED BY <1>i, <1>s, <1>t, <3>2, <4>1 DEF OneNodePerKey
    <3> QED BY <2>2, <3>1, <3>2
  <2>3. \A a, b \in Nodes \cup {new} : a.id = b.id => a = b
    BY <1>i, <1>m, <1>n DEF OneNodePerKey
  <2>4. \A j \in CacheKeys : cache_map'[j] # 0 => \E node \in Nodes \cup {new} : node.key = j
    BY <1>i, <1>n, <1>s, <1>t DEF OneNodePerKey
  <2> QED BY <2>n, <2>1, <2>2, <2>3, <2>4 DEF OneNodePerKey
<1>3. UsageIsWeight'
  <2>1. Size(value) \in 1..2
    BY DEF Size
  <2>2. /\ probation_memory_usage = Weight(probation_list)
        /\ protected_memory_usage = Weight(protected_list)
        /\ probation_memory_usage < max_probation_mem_size
        /\ protected_memory_usage < max_protected_mem_size
    BY <1>i, <1>s DEF UsageIsWeight
  <2>3. Weight(protected_list) \in Nat
    BY <1>t, WeightNat
  <2>4. Plus(probation_memory_usage, Size(value)) = probation_memory_usage + Size(value)
    BY <1>w, <2>1, <2>2, NoWrap, LimitsAssumption DEF WellConstructed
  <2>5. probation_memory_usage + Size(value) + protected_memory_usage
          <= max_probation_mem_size + max_protected_mem_size
    BY <1>w, <2>1, <2>2, <2>3, LimitsAssumption
  <2>6. probation_memory_usage' = Weight(probation_list')
    BY <1>s, <1>w, <2>2, <2>4
  <2>7. (Weight(probation_list) + Weight(protected_list))'
          <= max_probation_mem_size + max_protected_mem_size
    BY <1>s, <1>w, <2>2, <2>5
  <2> QED BY <1>s, <2>2, <2>6, <2>7 DEF UsageIsWeight
<1>4. AnswerIsLast'
  BY <1>s DEF AnswerIsLast, NoAnswer
<1> QED BY <1>1, <1>2, <1>3, <1>4 DEF CacheInv

\* The two lists A and B, in either order, with a map.
Agree(A, B, map) ==
  /\ A \cap B = {}
  /\ \A node \in A \cup B : map[node.key] = node.id /\ node.value = last[node.key]
  /\ \A a, b \in A \cup B : a.id = b.id => a = b
  /\ \A k \in CacheKeys : map[k] # 0 => \E node \in A \cup B : node.key = k

\* node of A becomes the node new of B.
Moves(A, B, node, new, map) ==
  /\ new \notin B
  /\ new \in [id : 1..(next + 1) - 1, key : CacheKeys, value : CacheValues \cup {Erased}]
  /\ Records \subseteq [id : 1..(next + 1) - 1, key : CacheKeys, value : CacheValues \cup {Erased}]
  /\ map \in [CacheKeys -> Nat]
  /\ Agree(A \ {node}, B \cup {new}, map)
  /\ Agree(B \cup {new}, A \ {node}, map)

\* A record that leaves one list and enters the other as a new node: the map follows it.
LEMMA MoveKeeps ==
  ASSUME CacheTypes, NEW A, NEW B, A \subseteq Records, B \subseteq Records,
         Agree(A, B, cache_map), NEW node \in A,
         NEW new, new = Node(node.key, node.value),
         NEW map, map = [cache_map EXCEPT ![node.key] = next]
  PROVE  Moves(A, B, node, new, map)
<1>t. next \in Nat \ {0} /\ cache_map \in [CacheKeys -> Nat]
  BY DEF CacheTypes
<1>r. \A x \in A \cup B : x.id \in 1..next - 1 /\ x.key \in CacheKeys /\ x.value \in CacheValues \cup {Erased}
  BY DEF Records
<1>n. new.id = next /\ new.key = node.key /\ new.value = node.value
  BY DEF Node
<1>1. new \in [id : 1..(next + 1) - 1, key : CacheKeys, value : CacheValues \cup {Erased}]
  BY <1>r, <1>t DEF Node
<1>2. Records \subseteq [id : 1..(next + 1) - 1, key : CacheKeys, value : CacheValues \cup {Erased}]
  <2>1. 1..next - 1 \subseteq 1..(next + 1) - 1
    BY <1>t
  <2> QED BY <2>1 DEF Records
<1>3. map \in [CacheKeys -> Nat]
  BY <1>r, <1>t
<1>4. \A x \in A \cup B : x.id # next
  BY <1>r, <1>t
<1>5. new \notin A \cup B
  BY <1>4, <1>n
<1> DEFINE T == (A \ {node}) \cup (B \cup {new})
<1>6. \A x \in T : x = new \/ (x \in A \cup B /\ x # node)
  BY DEF Agree
<1>7. \A x \in A \cup B : x # node => x.key # node.key
  <2> SUFFICES ASSUME NEW x \in A \cup B, x.key = node.key PROVE x = node
    OBVIOUS
  <2>1. x.id = node.id
    BY DEF Agree
  <2> QED BY <2>1 DEF Agree
<1>8. \A x \in T : map[x.key] = x.id /\ x.value = last[x.key]
  <2> SUFFICES ASSUME NEW x \in T PROVE map[x.key] = x.id /\ x.value = last[x.key]
    OBVIOUS
  <2>1. CASE x = new
    <3>1. node.key \in CacheKeys /\ node.value = last[node.key]
      BY <1>r DEF Agree
    <3>2. map[node.key] = next
      BY <1>t, <3>1
    <3> QED BY <1>n, <2>1, <3>1, <3>2
  <2>2. CASE x \in A \cup B /\ x # node
    <3>1. x.key \in CacheKeys /\ x.key # node.key /\ cache_map[x.key] = x.id /\ x.value = last[x.key]
      BY <1>7, <1>r, <2>2 DEF Agree
    <3>2. map[x.key] = cache_map[x.key]
      BY <1>t, <3>1
    <3> QED BY <3>1, <3>2
  <2> QED BY <1>6, <2>1, <2>2
<1>9. \A a, b \in T : a.id = b.id => a = b
  BY <1>4, <1>6, <1>n DEF Agree
<1>10. ASSUME NEW k \in CacheKeys, map[k] # 0 PROVE \E x \in T : x.key = k
  <2>1. CASE k = node.key
    BY <1>n, <2>1
  <2>2. CASE k # node.key
    <3>1. cache_map[k] # 0
      BY <1>10, <1>t, <2>2
    <3>2. PICK x \in A \cup B : x.key = k
      BY <3>1 DEF Agree
    <3> QED BY <2>2, <3>2
  <2> QED BY <2>1, <2>2
<1>11. (A \ {node}) \cap (B \cup {new}) = {} /\ (B \cup {new}) \cap (A \ {node}) = {}
  BY <1>5 DEF Agree
<1>12. (B \cup {new}) \cup (A \ {node}) = T
  OBVIOUS
<1> HIDE DEF T
<1>13. Agree(A \ {node}, B \cup {new}, map)
  <2>1. (A \ {node}) \cup (B \cup {new}) = T
    BY DEF T
  <2> QED BY <1>8, <1>9, <1>10, <1>11, <2>1 DEF Agree
<1>14. Agree(B \cup {new}, A \ {node}, map)
  BY <1>8, <1>9, <1>10, <1>11, <1>12 DEF Agree
<1> QED BY <1>1, <1>2, <1>3, <1>5, <1>13, <1>14 DEF Moves

\* A hit in the cold list.
LEMMA HitColdKeeps ==
  ASSUME CacheInv, disturbed' = {}, WellConstructed, NEW k \in CacheKeys,
         NEW node \in probation_list, HitCold(k, node)
  PROVE  CacheInv'
<1>d. disturbed = {}
  BY DEF HitCold
<1>i. CacheTypes /\ OneNodePerKey /\ UsageIsWeight
  BY <1>d DEF CacheInv
<1>n. PICK new : new = Node(node.key, node.value)
  OBVIOUS
<1>f. PICK map : map = [cache_map EXCEPT ![node.key] = next]
  OBVIOUS
<1>v. new.value = node.value /\ new.key = node.key
  BY <1>n DEF Node
<1>s. /\ pc = "idle" /\ pc' = "demote" /\ next' = next + 1 /\ node.id = cache_map[k]
      /\ answer' = [key |-> k, value |-> node.value] /\ last' = last
      /\ probation_list' = probation_list \ {node}
      /\ protected_list' = protected_list \cup {new}
      /\ cache_map' = map
      /\ probation_memory_usage' = Minus(probation_memory_usage, Size(node.value))
      /\ protected_memory_usage' = Plus(protected_memory_usage, Size(node.value))
  BY <1>f, <1>n DEF HitCold, Answer
<1>t. /\ next \in Nat \ {0} /\ cache_map \in [CacheKeys -> Nat]
      /\ last \in [CacheKeys -> CacheValues \cup {Erased, NotFound}]
      /\ IsFiniteSet(probation_list) /\ probation_list \subseteq Records
      /\ IsFiniteSet(protected_list) /\ protected_list \subseteq Records
  BY <1>i DEF CacheTypes
<1>a. Agree(probation_list, protected_list, cache_map)
  BY <1>i DEF OneNodePerKey, Agree, Nodes
<1>m. /\ new \notin protected_list
      /\ new \in [id : 1..(next + 1) - 1, key : CacheKeys, value : CacheValues \cup {Erased}]
      /\ Records \subseteq [id : 1..(next + 1) - 1, key : CacheKeys, value : CacheValues \cup {Erased}]
      /\ map \in [CacheKeys -> Nat]
      /\ Agree(probation_list \ {node}, protected_list \cup {new}, map)
  <2>1. CacheTypes /\ probation_list \subseteq Records /\ protected_list \subseteq Records /\ node \in probation_list
    BY <1>i, <1>t
  <2>2. Moves(probation_list, protected_list, node, new, map)
    BY <1>a, <1>f, <1>n, <2>1, MoveKeeps
  <2> QED BY <2>2 DEF Moves
<1>w. /\ IsFiniteSet(probation_list \ {node}) /\ IsFiniteSet(protected_list \cup {new})
      /\ Weight(probation_list) = Weight(probation_list \ {node}) + Size(node.value)
      /\ Weight(protected_list \cup {new}) = Weight(protected_list) + Size(node.value)
      /\ Weight(probation_list \ {node}) \in Nat /\ Weight(protected_list) \in Nat
      /\ Size(node.value) \in 1..2
  <2>1. Size(node.value) \in 1..2
    BY DEF Size
  <2> QED BY <1>m, <1>t, <1>v, <2>1, WeightAdd, WeightRemove
<1>1. CacheTypes'
  <2>1. Records' = [id : 1..(next + 1) - 1, key : CacheKeys, value : CacheValues \cup {Erased}]
    BY <1>s DEF Records
  <2>2. next' \in Nat \ {0} /\ cache_map' \in [CacheKeys -> Nat]
        /\ last' \in [CacheKeys -> CacheValues \cup {Erased, NotFound}]
    BY <1>m, <1>s, <1>t
  <2> QED BY <1>m, <1>s, <1>t, <1>w, <2>1, <2>2 DEF CacheTypes
<1>2. OneNodePerKey'
  BY <1>m, <1>s DEF OneNodePerKey, Agree, Nodes
<1>3. UsageIsWeight'
  <2>1. /\ probation_memory_usage = Weight(probation_list)
        /\ protected_memory_usage = Weight(protected_list)
        /\ Weight(probation_list) + Weight(protected_list)
             <= max_probation_mem_size + max_protected_mem_size
    BY <1>i DEF UsageIsWeight
  <2>2. /\ Minus(probation_memory_usage, Size(node.value)) = Weight(probation_list \ {node})
        /\ Plus(protected_memory_usage, Size(node.value)) = Weight(protected_list \cup {new})
    BY <1>w, <2>1, NoWrap, LimitsAssumption
  <2>3. Weight(probation_list \ {node}) + Weight(protected_list \cup {new})
          <= max_probation_mem_size + max_protected_mem_size
    BY <1>w, <2>1, LimitsAssumption
  <2> QED BY <1>s, <2>2, <2>3 DEF UsageIsWeight
<1>4. AnswerIsLast'
  <2>1. PICK other \in Nodes : other.key = k
    <3>1. node.id # 0
      BY <1>t DEF Records
    <3> QED BY <1>i, <1>s, <3>1 DEF OneNodePerKey
  <2>2. other = node
    BY <1>i, <1>s, <2>1 DEF OneNodePerKey, Nodes
  <2>3. node.value = last[k]
    BY <1>i, <2>1, <2>2 DEF OneNodePerKey
  <2> QED BY <1>s, <2>3 DEF AnswerIsLast
<1> QED BY <1>1, <1>2, <1>3, <1>4 DEF CacheInv

\* A turn of the hot list's loop.
LEMMA DemoteKeeps ==
  ASSUME CacheInv, disturbed' = {}, Demote
  PROVE  CacheInv'
<1>d. disturbed = {}
  BY DEF Demote, historyVars
<1>i. CacheTypes /\ OneNodePerKey /\ UsageIsWeight /\ AnswerIsLast
  BY <1>d DEF CacheInv
<1>p. pc = "demote"
  BY <1>i DEF CacheTypes, Demote, HotIsFull
<1>e. PICK node \in protected_list :
      /\ probation_list' = probation_list \cup {Node(node.key, node.value)}
      /\ protected_list' = protected_list \ {node}
      /\ cache_map' = [cache_map EXCEPT ![node.key] = next]
      /\ protected_memory_usage' = Minus(protected_memory_usage, Size(node.value))
      /\ probation_memory_usage' = Plus(probation_memory_usage, Size(node.value))
      /\ next' = next + 1 /\ pc' = pc /\ last' = last /\ answer' = answer
  BY <1>p DEF Demote, historyVars
<1>n. PICK new : new = Node(node.key, node.value)
  OBVIOUS
<1>f. PICK map : map = [cache_map EXCEPT ![node.key] = next]
  OBVIOUS
<1>v. new.value = node.value /\ new.key = node.key
  BY <1>n DEF Node
<1>t. /\ next \in Nat \ {0} /\ cache_map \in [CacheKeys -> Nat]
      /\ last \in [CacheKeys -> CacheValues \cup {Erased, NotFound}]
      /\ IsFiniteSet(probation_list) /\ probation_list \subseteq Records
      /\ IsFiniteSet(protected_list) /\ protected_list \subseteq Records
  BY <1>i DEF CacheTypes
<1>a. Agree(protected_list, probation_list, cache_map)
  BY <1>i DEF OneNodePerKey, Agree, Nodes
<1>m. /\ new \notin probation_list
      /\ new \in [id : 1..(next + 1) - 1, key : CacheKeys, value : CacheValues \cup {Erased}]
      /\ Records \subseteq [id : 1..(next + 1) - 1, key : CacheKeys, value : CacheValues \cup {Erased}]
      /\ map \in [CacheKeys -> Nat]
      /\ Agree(probation_list \cup {new}, protected_list \ {node}, map)
  <2>1. CacheTypes /\ protected_list \subseteq Records /\ probation_list \subseteq Records /\ node \in protected_list
    BY <1>i, <1>t
  <2>2. Moves(protected_list, probation_list, node, new, map)
    BY <1>a, <1>f, <1>n, <2>1, MoveKeeps
  <2> QED BY <2>2 DEF Moves
<1>w. /\ IsFiniteSet(protected_list \ {node}) /\ IsFiniteSet(probation_list \cup {new})
      /\ Weight(protected_list) = Weight(protected_list \ {node}) + Size(node.value)
      /\ Weight(probation_list \cup {new}) = Weight(probation_list) + Size(node.value)
      /\ Weight(protected_list \ {node}) \in Nat /\ Weight(probation_list) \in Nat
      /\ Size(node.value) \in 1..2
  <2>1. Size(node.value) \in 1..2
    BY DEF Size
  <2> QED BY <1>m, <1>t, <1>v, <2>1, WeightAdd, WeightRemove
<1>1. CacheTypes'
  <2>1. Records' = [id : 1..(next + 1) - 1, key : CacheKeys, value : CacheValues \cup {Erased}]
    BY <1>e DEF Records
  <2>2. next' \in Nat \ {0} /\ cache_map' \in [CacheKeys -> Nat]
        /\ last' \in [CacheKeys -> CacheValues \cup {Erased, NotFound}]
    BY <1>e, <1>f, <1>m, <1>t
  <2>3. probation_list' = probation_list \cup {new}
    BY <1>e, <1>n
  <2> QED BY <1>e, <1>m, <1>p, <1>t, <1>w, <2>1, <2>2, <2>3 DEF CacheTypes
<1>2. OneNodePerKey'
  BY <1>e, <1>f, <1>m, <1>n DEF OneNodePerKey, Agree, Nodes
<1>3. UsageIsWeight'
  <2>1. /\ probation_memory_usage = Weight(probation_list)
        /\ protected_memory_usage = Weight(protected_list)
        /\ Weight(probation_list) + Weight(protected_list)
             <= max_probation_mem_size + max_protected_mem_size
    BY <1>i DEF UsageIsWeight
  <2>2. /\ Minus(protected_memory_usage, Size(node.value)) = Weight(protected_list \ {node})
        /\ Plus(probation_memory_usage, Size(node.value)) = Weight(probation_list \cup {new})
    BY <1>w, <2>1, NoWrap, LimitsAssumption
  <2>3. Weight(probation_list \cup {new}) + Weight(protected_list \ {node})
          <= max_probation_mem_size + max_protected_mem_size
    BY <1>w, <2>1, LimitsAssumption
  <2>4. probation_list' = probation_list \cup {new}
    BY <1>e, <1>n
  <2> QED BY <1>e, <1>p, <2>2, <2>3, <2>4 DEF UsageIsWeight
<1>4. AnswerIsLast'
  BY <1>e, <1>i DEF AnswerIsLast
<1> QED BY <1>1, <1>2, <1>3, <1>4 DEF CacheInv

\* A turn of the cold list's loop: no other node has the key that leaves the map.
LEMMA PopKeeps ==
  ASSUME CacheInv, disturbed' = {}, PopCold
  PROVE  CacheInv'
<1>d. disturbed = {}
  BY DEF PopCold, historyVars
<1>i. CacheTypes /\ OneNodePerKey /\ UsageIsWeight /\ AnswerIsLast
  BY <1>d DEF CacheInv
<1>e. PICK node \in probation_list :
      /\ probation_list' = Unlink(probation_list \ {node}, node.key)
      /\ protected_list' = Unlink(protected_list, node.key)
      /\ cache_map' = [cache_map EXCEPT ![node.key] = 0]
      /\ probation_memory_usage' = Minus(probation_memory_usage, Size(node.value))
      /\ protected_memory_usage' = protected_memory_usage
      /\ pc = "pop" /\ pc' = pc /\ next' = next /\ last' = last /\ answer' = answer
  BY DEF PopCold, historyVars, ColdIsFull
<1>t. /\ next \in Nat \ {0} /\ cache_map \in [CacheKeys -> Nat]
      /\ last \in [CacheKeys -> CacheValues \cup {Erased, NotFound}]
      /\ IsFiniteSet(probation_list) /\ probation_list \subseteq Records
      /\ IsFiniteSet(protected_list) /\ protected_list \subseteq Records
  BY <1>i DEF CacheTypes
<1>k. node.key \in CacheKeys /\ \A x \in Nodes : x.key \in CacheKeys
  BY <1>e, <1>t DEF Records, Nodes
<1>o. \A x \in Nodes : x # node => x.key # node.key
  <2> SUFFICES ASSUME NEW x \in Nodes, x.key = node.key PROVE x = node
    OBVIOUS
  <2>1. x.id = node.id /\ node \in Nodes
    BY <1>e, <1>i DEF OneNodePerKey, Nodes
  <2> QED BY <1>i, <2>1 DEF OneNodePerKey
<1>u. probation_list' = probation_list \ {node} /\ protected_list' = protected_list
  <2>1. \A x \in probation_list \ {node} : x.key # node.key
    BY <1>o DEF Nodes
  <2>2. \A x \in protected_list : x.key # node.key
    BY <1>e, <1>i, <1>o DEF Nodes, OneNodePerKey
  <2>3. probation_list \ {node} \subseteq Records
    BY <1>t
  <2> QED BY <1>e, <1>t, <2>1, <2>2, <2>3, UnlinkNothing
<1>w. /\ IsFiniteSet(probation_list \ {node})
      /\ Weight(probation_list) = Weight(probation_list \ {node}) + Size(node.value)
      /\ Weight(probation_list \ {node}) \in Nat /\ Weight(protected_list) \in Nat
      /\ Size(node.value) \in 1..2
  <2>1. Size(node.value) \in 1..2
    BY DEF Size
  <2> QED BY <1>e, <1>t, <2>1, WeightNat, WeightRemove
<1>1. CacheTypes'
  <2>1. Records' = Records
    BY <1>e DEF Records
  <2>2. cache_map' \in [CacheKeys -> Nat]
    BY <1>e, <1>t
  <2>3. probation_list' \subseteq Records' /\ protected_list' \subseteq Records'
    BY <1>t, <1>u, <2>1
  <2>4. IsFiniteSet(probation_list') /\ IsFiniteSet(protected_list')
    BY <1>t, <1>u, <1>w
  <2> QED BY <1>e, <1>t, <2>2, <2>3, <2>4 DEF CacheTypes
<1>2. OneNodePerKey'
  <2>n. Nodes' = Nodes \ {node}
    <3>1. node \notin protected_list
      BY <1>e, <1>i DEF OneNodePerKey
    <3>2. Nodes' = (probation_list \ {node}) \cup protected_list
      BY <1>u DEF Nodes
    <3> QED BY <3>1, <3>2 DEF Nodes
  <2>1. (probation_list \cap protected_list)' = {}
    BY <1>i, <1>u DEF OneNodePerKey
  <2>2. \A x \in Nodes \ {node} : cache_map'[x.key] = x.id /\ x.value = last'[x.key]
    BY <1>e, <1>i, <1>k, <1>o, <1>t DEF OneNodePerKey
  <2>3. \A a, b \in Nodes \ {node} : a.id = b.id => a = b
    BY <1>i DEF OneNodePerKey
  <2>4. ASSUME NEW k \in CacheKeys, cache_map'[k] # 0 PROVE \E x \in Nodes \ {node} : x.key = k
    <3>1. k # node.key /\ cache_map[k] # 0
      BY <1>e, <1>t, <2>4
    <3>2. PICK x \in Nodes : x.key = k
      BY <1>i, <3>1 DEF OneNodePerKey
    <3> QED BY <3>1, <3>2
  <2> QED BY <2>n, <2>1, <2>2, <2>3, <2>4 DEF OneNodePerKey
<1>3. UsageIsWeight'
  <2>1. /\ probation_memory_usage = Weight(probation_list)
        /\ protected_memory_usage = Weight(protected_list)
        /\ Weight(probation_list) + Weight(protected_list)
             <= max_probation_mem_size + max_protected_mem_size
        /\ protected_memory_usage < max_protected_mem_size
    BY <1>e, <1>i DEF UsageIsWeight
  <2>2. Minus(probation_memory_usage, Size(node.value)) = Weight(probation_list \ {node})
    BY <1>w, <2>1, NoWrap, LimitsAssumption
  <2>3. Weight(probation_list \ {node}) + Weight(protected_list)
          <= max_probation_mem_size + max_protected_mem_size
    BY <1>w, <2>1, LimitsAssumption
  <2> QED BY <1>e, <1>u, <2>1, <2>2, <2>3 DEF UsageIsWeight
<1>4. AnswerIsLast'
  BY <1>e, <1>i DEF AnswerIsLast
<1> QED BY <1>1, <1>2, <1>3, <1>4 DEF CacheInv

\* A loop whose condition holds finds a record at the end of its list, its key intact.
LEMMA NothingUndefined ==
  ASSUME CacheInv, disturbed = {}, WellConstructed
  PROVE  ~UndefinedPop /\ ~UndefinedDemote
<1>i. CacheTypes /\ OneNodePerKey /\ UsageIsWeight
  BY DEF CacheInv
<1>1. \A node \in Nodes : node.key # Dangling
  BY <1>i, ValueAssumption DEF CacheTypes, Records, Nodes
<1>2. ASSUME UndefinedPop PROVE FALSE
  <2>1. probation_memory_usage >= max_probation_mem_size /\ probation_list = {}
    BY <1>1, <1>2 DEF UndefinedPop, Undefined, ColdIsFull, Nodes
  <2>2. probation_memory_usage = 0
    BY <1>i, <2>1, WeightEmpty DEF UsageIsWeight
  <2> QED BY <2>1, <2>2, LimitsAssumption DEF WellConstructed
<1>3. ASSUME UndefinedDemote PROVE FALSE
  <2>1. protected_memory_usage >= max_protected_mem_size /\ protected_list = {}
    BY <1>1, <1>3 DEF UndefinedDemote, Undefined, HotIsFull, Nodes
  <2>2. protected_memory_usage = 0
    BY <1>i, <2>1, WeightEmpty DEF UsageIsWeight
  <2> QED BY <2>1, <2>2, LimitsAssumption DEF WellConstructed
<1> QED BY <1>2, <1>3

\* The end of a loop, and a get that finds nothing.
LEMMA OthersKeep ==
  ASSUME CacheInv, disturbed' = {}, disturbed = {}, UNCHANGED cacheVars, last' = last,
         \/ EndDemote \/ EndPop
         \/ pc' = pc /\ answer'.value = NotFound
         \/ pc' = pc /\ answer' = answer
  PROVE  CacheInv'
<1>i. CacheTypes /\ OneNodePerKey /\ UsageIsWeight /\ AnswerIsLast
  BY DEF CacheInv
<1>u. /\ probation_list' = probation_list /\ protected_list' = protected_list
      /\ cache_map' = cache_map /\ next' = next
      /\ probation_memory_usage' = probation_memory_usage
      /\ protected_memory_usage' = protected_memory_usage
  BY DEF cacheVars
<1>n. Nodes' = Nodes /\ Records' = Records
  BY <1>u DEF Nodes, Records
<1>w. Weight(probation_list) \in Nat /\ Weight(protected_list) \in Nat
  BY <1>i, WeightNat DEF CacheTypes
<1>p. \/ pc' = pc
      \/ pc = "demote" /\ pc' = "pop" /\ protected_memory_usage < max_protected_mem_size
      \/ pc = "pop" /\ pc' = "idle" /\ probation_memory_usage < max_probation_mem_size
  <2>t. /\ pc \in {"idle", "demote", "pop"} /\ probation_memory_usage \in Nat
        /\ protected_memory_usage \in Nat
    BY <1>i, <1>w DEF CacheTypes, UsageIsWeight
  <2>1. CASE EndDemote
    <3>1. pc = "demote" /\ pc' = "pop"
      BY <2>1, <2>t DEF EndDemote
    <3>2. ~(protected_memory_usage >= max_protected_mem_size)
      BY <2>1, <3>1 DEF EndDemote, HotIsFull
    <3> QED BY <2>t, <3>1, <3>2, LimitsAssumption
  <2>2. CASE EndPop
    <3>1. pc = "pop" /\ pc' = "idle" /\ ~(probation_memory_usage >= max_probation_mem_size)
      BY <2>2 DEF EndPop, ColdIsFull
    <3> QED BY <2>t, <3>1, LimitsAssumption
  <2> QED BY <2>1, <2>2
<1>1. CacheTypes'
  BY <1>i, <1>n, <1>p, <1>u DEF CacheTypes
<1>2. OneNodePerKey'
  BY <1>i, <1>n, <1>u DEF OneNodePerKey
<1>3. UsageIsWeight'
  BY <1>i, <1>p, <1>u DEF UsageIsWeight
<1>4. AnswerIsLast'
  BY <1>i DEF AnswerIsLast, EndDemote, EndPop, historyVars
<1> QED BY <1>1, <1>2, <1>3, <1>4 DEF CacheInv

\* The new cache.
LEMMA CacheStart == WellConstructed /\ CacheInit => CacheInv
<1> SUFFICES ASSUME WellConstructed, CacheInit PROVE CacheInv
  OBVIOUS
<1>1. CacheTypes
  BY FS_EmptySet DEF CacheInit, CacheTypes
<1>2. OneNodePerKey
  BY DEF CacheInit, OneNodePerKey, Nodes
<1>3. UsageIsWeight
  <2>1. probation_memory_usage = 0 /\ protected_memory_usage = 0
    BY DEF CacheInit, WellConstructed
  <2> QED BY <2>1, WeightEmpty, LimitsAssumption DEF CacheInit, UsageIsWeight, WellConstructed
<1>4. AnswerIsLast
  BY DEF CacheInit, AnswerIsLast, NoAnswer
<1> QED BY <1>1, <1>2, <1>3, <1>4 DEF CacheInv

\* Every call and every turn of a loop.
LEMMA CacheStep == WellConstructed /\ CacheInv /\ [CacheNext]_lruVars => CacheInv'
<1> SUFFICES ASSUME WellConstructed, CacheInv, [CacheNext]_lruVars, disturbed' = {} PROVE CacheInv'
  BY DEF CacheInv
<1>1. ASSUME NEW k \in CacheKeys, NEW v \in CacheValues, set(k, v) PROVE CacheInv'
  BY <1>1, PushKeeps DEF set
<1>2. ASSUME NEW k \in CacheKeys, setEraseRecord(k) PROVE CacheInv'
  BY <1>2, PushKeeps DEF setEraseRecord
<1>3. ASSUME NEW k \in CacheKeys, Miss(k) PROVE CacheInv'
  <2>1. disturbed = {} /\ UNCHANGED cacheVars /\ last' = last /\ pc' = pc
        /\ answer'.value = NotFound
    BY <1>3 DEF Miss, Answer
  <2> QED BY <2>1, OthersKeep
<1>4. ASSUME NEW k \in CacheKeys, NEW node \in probation_list, HitCold(k, node) PROVE CacheInv'
  BY <1>4, HitColdKeeps
<1>5. ASSUME NEW k \in CacheKeys, NEW node \in protected_list, HitHot(k, node) PROVE CacheInv'
  BY <1>5 DEF HitHot
<1>6. CASE PopCold
  BY <1>6, PopKeeps
<1>7. CASE Demote
  BY <1>7, DemoteKeeps
<1>8. CASE EndDemote
  <2>1. disturbed = {} /\ UNCHANGED cacheVars /\ last' = last
    BY <1>8 DEF EndDemote, historyVars
  <2> QED BY <1>8, <2>1, OthersKeep
<1>9. CASE EndPop
  <2>1. disturbed = {} /\ UNCHANGED cacheVars /\ last' = last
    BY <1>9 DEF EndPop, historyVars
  <2> QED BY <1>9, <2>1, OthersKeep
<1>10. CASE UndefinedPop
  <2>1. disturbed = {}
    BY <1>10 DEF UndefinedPop, Undefined, historyVars
  <2> QED BY <1>10, <2>1, NothingUndefined
<1>11. CASE UndefinedDemote
  <2>1. disturbed = {}
    BY <1>11 DEF UndefinedDemote, Undefined, historyVars
  <2> QED BY <1>11, <2>1, NothingUndefined
<1>12. CASE UNCHANGED lruVars
  <2>1. disturbed = {} /\ UNCHANGED cacheVars /\ last' = last /\ pc' = pc /\ answer' = answer
    BY <1>12 DEF lruVars, historyVars
  <2> QED BY <2>1, OthersKeep
<1> QED BY <1>1, <1>2, <1>3, <1>4, <1>5, <1>6, <1>7, <1>8, <1>9, <1>10, <1>11, <1>12
        DEF CacheNext, get

\* kLRUCache::get: however many keys, sets, erasures, gets and evictions there were, what a
\* get finds in a constructed cache is what was set last for its key, as long as no key was
\* set while it was cached and no get has hit the hot list.
THEOREM AnswerCorrect ==
  ASSUME WellConstructed
  PROVE  CacheSpec => []AnswerIsLastSet
<1>1. CacheInv => AnswerIsLastSet
  BY DEF CacheInv, AnswerIsLast, AnswerIsLastSet
<1>2. CacheInit => CacheInv
  BY CacheStart
<1>3. CacheInv /\ [CacheNext]_lruVars => CacheInv'
  BY CacheStep
<1> QED BY <1>1, <1>2, <1>3, PTL DEF CacheSpec

\* get, set and setEraseRecord of klrucache.cpp: for the same calls map, lists and counters
\* agree inside the eviction loops and after them, no loop runs past an empty list or
\* through an erased key, no counter wraps around, and both lists end below their limits.
THEOREM ConsistentCorrect ==
  ASSUME WellConstructed
  PROVE  CacheSpec => []CacheIsConsistent
<1>1. CacheInv => CacheIsConsistent
  <2> SUFFICES ASSUME CacheInv, disturbed = {} PROVE CacheIsConsistent
    BY DEF CacheIsConsistent
  <2>1. CacheTypes /\ OneNodePerKey /\ UsageIsWeight
    BY DEF CacheInv
  <2>2. \A node \in Nodes : node.key # Dangling
    BY <2>1, ValueAssumption DEF CacheTypes, Records, Nodes
  <2>3. pc \notin {"empty", "dangling"}
    BY <2>1 DEF CacheTypes
  <2>4. /\ probation_memory_usage = Weight(probation_list)
        /\ protected_memory_usage = Weight(protected_list)
        /\ pc = "idle" => /\ probation_memory_usage < max_probation_mem_size
                          /\ protected_memory_usage < max_protected_mem_size
    BY <2>1 DEF UsageIsWeight
  <2> QED BY <2>1, <2>2, <2>3, <2>4 DEF CacheIsConsistent, OneNodePerKey
<1>2. CacheInit => CacheInv
  BY CacheStart
<1>3. CacheInv /\ [CacheNext]_lruVars => CacheInv'
  BY CacheStep
<1> QED BY <1>1, <1>2, <1>3, PTL DEF CacheSpec

=============================================================================
