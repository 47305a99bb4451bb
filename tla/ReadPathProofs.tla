---------------------------- MODULE ReadPathProofs ----------------------------
(* Proofs about ReadPath for all keys, values, writes and rotations.       *)
EXTENDS ReadPath, SequenceTheorems, TLAPS

-----------------------------------------------------------------------------
(* Every Get is answered.                                                  *)

\* The callback has run once or twice if there is an answer, and not at all if not.
InStep(ctx) ==
  \/ Answered(ctx) /\ ((\E x : ctx.calls = <<x>>) \/ (\E x, y : ctx.calls = <<x, y>>))
  \/ ~Answered(ctx) /\ ctx.calls = <<>>

\* The callback's calls, after the first and after the second.
LEMMA AppendToShort ==
  ASSUME NEW x, NEW y
  PROVE  Append(<<>>, y) = <<y>> /\ Append(<<x>>, y) = <<x, y>>
<1>1. <<>> \in Seq({x, y}) /\ <<x>> \in Seq({x, y}) /\ <<y>> \in Seq({x, y}) /\ <<x, y>> \in Seq({x, y})
  OBVIOUS
<1>2. /\ Append(<<>>, y) \in Seq({x, y}) /\ Len(Append(<<>>, y)) = 1 /\ Append(<<>>, y)[1] = y
      /\ Append(<<x>>, y) \in Seq({x, y}) /\ Len(Append(<<x>>, y)) = 2
      /\ Append(<<x>>, y)[1] = x /\ Append(<<x>>, y)[2] = y
  BY <1>1, AppendProperties
<1>3. Append(<<>>, y) = <<y>>
  <2>1. Len(<<y>>) = 1 /\ <<y>>[1] = y
    OBVIOUS
  <2>2. \A j \in 1 .. 1 : Append(<<>>, y)[j] = <<y>>[j]
    BY <1>2, <2>1
  <2> QED BY <1>1, <1>2, <2>1, <2>2, SeqEqual
<1>4. Append(<<x>>, y) = <<x, y>>
  <2>1. Len(<<x, y>>) = 2 /\ <<x, y>>[1] = x /\ <<x, y>>[2] = y
    OBVIOUS
  <2>2. \A j \in 1 .. 2 : Append(<<x>>, y)[j] = <<x, y>>[j]
    BY <1>2, <2>1
  <2> QED BY <1>1, <1>2, <2>1, <2>2, SeqEqual
<1> QED BY <1>3, <1>4

\* What Call leaves in the context.
LEMMA CallFacts ==
  ASSUME NEW ctx, NEW x
  PROVE  /\ Call(ctx).code = ctx.code
         /\ ctx.calls = <<>> => \E y : Call(ctx).calls = <<y>>
         /\ ctx.calls = <<x>> => \E y : Call(ctx).calls = <<x, y>>
BY AppendToShort DEF Call

\* The callback runs once or twice, whatever the memtable, the cache and the read-only
\* tables have: the memtable and the cache are both asked, all others only while there is
\* no answer yet.
LEMMA ContextIsAnswered ==
  ASSUME NEW k
  PROVE  Len(Context(k).calls) \in 1..2
<1> DEFINE a == AskMemtable(k)
           b == AskCache(k, a)
           c == AskReadonly(k, b)
           d == AskViews(c)
<1>1. \/ Answered(a) /\ \E x : a.calls = <<x>>
      \/ ~Answered(a) /\ a.calls = <<>>
  <2> DEFINE r == MemGet(memtable, k, Empty)
             m == [code |-> r.code, value |-> r.value, calls |-> <<>>]
  <2>1. a = IF Answered(m) THEN Call(m) ELSE m
    BY DEF AskMemtable
  <2>2. m.calls = <<>>
    OBVIOUS
  <2> HIDE DEF m, r
  <2> QED BY <2>1, <2>2, CallFacts DEF Answered
<1> HIDE DEF a
<1>2. InStep(b)
  <2>1. CASE cache[k] = None
    <3>1. b = a
      BY <2>1 DEF AskCache, None, EraseRecord
    <3> QED BY <1>1, <3>1 DEF InStep
  <2>2. CASE cache[k] # None
    <3> DEFINE f == IF cache[k] = EraseRecord THEN Found(a, "kDelete", a.value)
                                         ELSE Found(a, "kOk", cache[k])
    <3>1. b = Call(f)
      BY <2>2 DEF AskCache, None, EraseRecord
    <3>2. f.calls = a.calls /\ Answered(f)
      BY DEF Found, Answered
    <3> HIDE DEF f
    <3>3. Answered(b)
      BY <3>1, <3>2, CallFacts DEF Answered
    <3> QED BY <1>1, <3>1, <3>2, <3>3, CallFacts DEF InStep
  <2> QED BY <2>1, <2>2
<1> HIDE DEF b
<1>3. InStep(c) \/ \E x : c.calls = <<x>>
  <2> DEFINE hits == {i \in DOMAIN readonly : readonly[i][k] # None}
             newest == CHOOSE i \in hits : \A h \in hits : h <= i
             r == MemGet(readonly[newest], k, b.value)
             f == Found(b, r.code, r.value)
  <2>1. c = IF Answered(b) \/ hits = {} THEN b ELSE Call(f)
    BY DEF AskReadonly
  <2>2. f.calls = b.calls
    BY DEF Found
  <2> HIDE DEF hits, newest, r, f
  <2> QED BY <1>2, <2>1, <2>2, CallFacts DEF InStep
<1> HIDE DEF c
<1>4. (\E x : d.calls = <<x>>) \/ (\E x, y : d.calls = <<x, y>>)
  BY <1>3, CallFacts DEF AskViews, InStep
<1>5. Context(k) = d
  BY DEF Context, a, b, c
<1> HIDE DEF d
<1> QED BY <1>4, <1>5

\* Every Get is answered once or twice, in any state of the tables and the cache.
THEOREM AnswersCorrect == Spec => []GetIsAnswered
<1>1. Init => GetIsAnswered
  BY DEF Init, GetIsAnswered
<1>2. GetIsAnswered /\ [Next]_vars => GetIsAnswered'
  <2> SUFFICES ASSUME GetIsAnswered, [Next]_vars PROVE GetIsAnswered'
    OBVIOUS
  <2>1. ASSUME NEW k \in Keys, Get(k) PROVE GetIsAnswered'
    BY <2>1, ContextIsAnswered DEF Get, GetIsAnswered
  <2>2. CASE UNCHANGED <<calls, asked>>
    BY <2>2 DEF GetIsAnswered
  <2> QED BY <2>1, <2>2 DEF Next, Set, Delete, Write, Rotate, Evict, vars
<1> QED BY <1>1, <1>2, PTL DEF Spec

-----------------------------------------------------------------------------
(* The tables answer from the newest one with a write to the key.          *)

WriteRecord == [key : Keys, record : Values \cup {Marker}, table : Nat]

\* The write that insert of a btree_set keeps: of the newest table with a write to k, the
\* first one.
Decisive(k, i) ==
  /\ writes[i].key = k
  /\ \A h \in DOMAIN writes : writes[h].key = k =>
       \/ writes[h].table < writes[i].table
       \/ writes[h].table = writes[i].table /\ i <= h

TableTypes ==
  /\ memtable \in [Keys -> Records]
  /\ readonly \in Seq([Keys -> Records])
  /\ writes \in Seq(WriteRecord)
  /\ \A h \in DOMAIN writes : writes[h].table <= Len(readonly)

\* The table that was the memtable after j rotations.
Table(j) == IF j = Len(readonly) THEN memtable ELSE readonly[j + 1]

\* h is a write to k in that table, and i is the first of them.
Hits(k, j, h) == writes[h].key = k /\ writes[h].table = j
First(k, j, i) == Hits(k, j, i) /\ \A h \in DOMAIN writes : Hits(k, j, h) => i <= h

\* A table has the record of its first write to a key, and none without one.
Keeps(k, j) ==
  \/ Table(j)[k] = None /\ \A h \in DOMAIN writes : ~Hits(k, j, h)
  \/ \E i \in DOMAIN writes : First(k, j, i) /\ Table(j)[k] = writes[i].record

KeepsFirst == \A k \in Keys : \A j \in 0 .. Len(readonly) : Keeps(k, j)

\* A key that was ever written has a decisive write.
Decided(k) == (\A h \in DOMAIN writes : writes[h].key # k) \/ \E i \in DOMAIN writes : Decisive(k, i)

TablesInv == TableTypes /\ KeepsFirst /\ \A k \in Keys : Decided(k)

\* The parts of a write.
LEMMA WriteParts ==
  ASSUME TableTypes
  PROVE  /\ Len(readonly) \in Nat /\ DOMAIN readonly = 1 .. Len(readonly)
         /\ Len(writes) \in Nat /\ DOMAIN writes = 1 .. Len(writes)
         /\ \A h \in DOMAIN writes : /\ writes[h].table \in 0 .. Len(readonly)
                                     /\ writes[h].record \in Values \cup {Marker}
                                     /\ writes[h].record # None
<1>1. /\ Len(readonly) \in Nat /\ DOMAIN readonly = 1 .. Len(readonly)
      /\ Len(writes) \in Nat /\ DOMAIN writes = 1 .. Len(writes)
      /\ \A h \in DOMAIN writes : writes[h] \in WriteRecord /\ writes[h].table <= Len(readonly)
  BY DEF TableTypes
<1>2. \A w \in WriteRecord : w.table \in Nat /\ w.record \in Values \cup {Marker}
  BY DEF WriteRecord
<1>3. None \notin Values \cup {Marker}
  BY NamesAssumption DEF None, Marker
<1> QED BY <1>1, <1>2, <1>3

\* What a table with a record for k answers.
LEMMA AskKnown ==
  ASSUME NEW table, NEW k, NEW v, table[k] \in Values \cup {Marker}
  PROVE  /\ MemGet(table, k, v).code = "kOk"
         /\ MemGet(table, k, v).value = IF table[k] = Marker THEN Empty ELSE table[k]
BY NamesAssumption DEF MemGet, None, Marker, EraseRecord, Empty

\* In the invariant's states the tables have the decisive write of a key.
LEMMA DecisiveIsRead ==
  ASSUME TablesInv, NEW k \in Keys
  PROVE  IF \E i \in DOMAIN writes : Decisive(k, i)
         THEN \A i \in DOMAIN writes : Decisive(k, i) =>
                Lookup(k) = [code |-> "kOk",
                             value |-> IF writes[i].record = Marker THEN Empty ELSE writes[i].record]
         ELSE Lookup(k).code = "kNotFound"
<1> DEFINE a == AskMemtable(k)
           c == AskReadonly(k, a)
           d == AskViews(c)
           r == MemGet(memtable, k, Empty)
           m == [code |-> r.code, value |-> r.value, calls |-> <<>>]
           hits == {h \in DOMAIN readonly : readonly[h][k] # None}
           newest == CHOOSE h \in hits : \A g \in hits : g <= h
           q == MemGet(readonly[newest], k, a.value)
<1>0. /\ Lookup(k) = [code |-> d.code, value |-> d.value]
      /\ a = IF Answered(m) THEN Call(m) ELSE m
      /\ m.code = r.code /\ m.value = r.value
      /\ c = IF Answered(a) \/ hits = {} THEN a ELSE Call(Found(a, q.code, q.value))
      /\ d = IF Answered(c) THEN c ELSE Call(c)
      /\ \A ctx : Call(ctx).code = ctx.code /\ Call(ctx).value = ctx.value
      /\ \A ctx, code, value : Found(ctx, code, value).code = code /\ Found(ctx, code, value).value = value
  BY DEF Lookup, AskMemtable, AskReadonly, AskViews, Call, Found
<1> HIDE DEF a, c, d, m
<1>1. /\ Len(readonly) \in Nat /\ DOMAIN readonly = 1 .. Len(readonly)
      /\ \A h \in DOMAIN writes : /\ writes[h].table \in 0 .. Len(readonly)
                                  /\ writes[h].record \in Values \cup {Marker}
  BY WriteParts DEF TablesInv
<1>2. \A h \in DOMAIN readonly : readonly[h] = Table(h - 1) /\ h - 1 \in 0 .. Len(readonly)
  BY <1>1 DEF Table
<1>3. memtable = Table(Len(readonly)) /\ Len(readonly) \in 0 .. Len(readonly)
  BY <1>1 DEF Table
<1>4. ASSUME NEW i \in DOMAIN writes, Decisive(k, i)
      PROVE  Lookup(k) = [code |-> "kOk",
                          value |-> IF writes[i].record = Marker THEN Empty ELSE writes[i].record]
  <2> DEFINE j == writes[i].table
  <2>1. j \in 0 .. Len(readonly) /\ First(k, j, i)
    BY <1>1, <1>4 DEF Decisive, First, Hits
  <2>2. Table(j)[k] = writes[i].record
    <3>1. Keeps(k, j)
      BY <2>1 DEF TablesInv, KeepsFirst
    <3>2. PICK x \in DOMAIN writes : First(k, j, x) /\ Table(j)[k] = writes[x].record
      BY <2>1, <3>1 DEF Keeps, First
    <3>3. x = i
      <4>1. i <= x /\ x <= i /\ x \in Int /\ i \in Int
        BY <2>1, <3>2 DEF First, TablesInv, TableTypes
      <4> QED BY <4>1
    <3> QED BY <3>2, <3>3
  <2>3. ASSUME NEW l \in 0 .. Len(readonly), j < l PROVE Table(l)[k] = None
    <3>1. \A h \in DOMAIN writes : ~Hits(k, l, h)
      BY <1>1, <1>4, <2>3 DEF Decisive, Hits
    <3> QED BY <3>1 DEF TablesInv, KeepsFirst, Keeps, First
  <2>4. CASE j = Len(readonly)
    <3>1. memtable[k] = writes[i].record
      BY <1>3, <2>2, <2>4
    <3>2. r.code = "kOk" /\ r.value = IF writes[i].record = Marker THEN Empty ELSE writes[i].record
      BY <1>1, <3>1, AskKnown
    <3> HIDE DEF r
    <3>3. Answered(m) /\ a.code = "kOk" /\ a.value = r.value
      BY <1>0, <3>2 DEF Answered
    <3>4. d = a
      BY <1>0, <3>3 DEF Answered
    <3> QED BY <1>0, <3>2, <3>3, <3>4
  <2>5. CASE j # Len(readonly)
    <3>1. r.code = "kNotFound"
      BY <1>1, <1>3, <2>1, <2>3, <2>5 DEF MemGet, None, Marker
    <3> HIDE DEF r
    <3>2. ~Answered(a)
      BY <1>0, <3>1 DEF Answered
    <3>3. readonly[j + 1][k] = writes[i].record /\ j + 1 \in DOMAIN readonly
      BY <1>1, <2>1, <2>2, <2>5 DEF Table
    <3>4. j + 1 \in hits
      BY <1>1, <3>3, NamesAssumption DEF None, Marker
    <3>5. \A h \in hits : h <= j + 1
      BY <1>1, <1>2, <2>1, <2>3
    <3>6. newest = j + 1
      BY <1>1, <3>4, <3>5
    <3> HIDE DEF newest, hits
    <3>7. q.code = "kOk" /\ q.value = IF writes[i].record = Marker THEN Empty ELSE writes[i].record
      BY <1>1, <3>3, <3>6, AskKnown
    <3> HIDE DEF q
    <3>8. c.code = q.code /\ c.value = q.value
      BY <1>0, <3>2, <3>4
    <3>9. d = c
      BY <1>0, <3>7, <3>8 DEF Answered
    <3> QED BY <1>0, <3>7, <3>8, <3>9
  <2> QED BY <2>4, <2>5
<1>5. ASSUME ~\E i \in DOMAIN writes : Decisive(k, i)
      PROVE  Lookup(k).code = "kNotFound"
  <2>1. \A l \in 0 .. Len(readonly) : Table(l)[k] = None
    BY <1>5 DEF TablesInv, Decided, KeepsFirst, Keeps, First, Hits
  <2>2. r.code = "kNotFound"
    BY <1>3, <2>1 DEF MemGet, None, Marker
  <2> HIDE DEF r
  <2>3. hits = {}
    BY <1>1, <1>2, <2>1
  <2> HIDE DEF hits
  <2>4. a = m /\ c = a
    BY <1>0, <2>2, <2>3 DEF Answered
  <2>5. d.code = "kNotFound"
    BY <1>0, <2>2, <2>4 DEF Answered
  <2> QED BY <1>0, <2>5
<1> QED BY <1>4, <1>5

\* So they answer from the newest table that has a write to the key.
LEMMA InvImpliesLookup == TablesInv => LookupIsOfNewestTable
<1> SUFFICES ASSUME TablesInv, NEW k \in Keys
             PROVE  IF Newest(k) = {} THEN Lookup(k).code = "kNotFound"
                    ELSE /\ Lookup(k).code # "kNotFound"
                         /\ \E i \in Newest(k) :
                              Lookup(k).value = IF writes[i].record = Marker THEN Empty ELSE writes[i].record
  BY DEF LookupIsOfNewestTable
<1>1. CASE \E i \in DOMAIN writes : Decisive(k, i)
  <2>1. PICK i \in DOMAIN writes : Decisive(k, i)
    BY <1>1
  <2>2. \A h \in DOMAIN writes : writes[h].table \in Nat
    BY WriteParts DEF TablesInv
  <2>3. i \in Newest(k)
    BY <2>1, <2>2 DEF Newest, Decisive
  <2>4. Lookup(k) = [code |-> "kOk",
                     value |-> IF writes[i].record = Marker THEN Empty ELSE writes[i].record]
    BY <1>1, <2>1, DecisiveIsRead
  <2> QED BY <2>3, <2>4
<1>2. CASE ~\E i \in DOMAIN writes : Decisive(k, i)
  <2>1. Newest(k) = {}
    BY <1>2 DEF TablesInv, Decided, Newest
  <2> QED BY <1>2, <2>1, DecisiveIsRead
<1> QED BY <1>1, <1>2

\* What appending a write changes.
LEMMA WriteFacts ==
  ASSUME TableTypes, NEW k \in Keys, NEW record \in Values \cup {Marker}, Write(k, record)
  PROVE  /\ Len(writes') = Len(writes) + 1 /\ Len(writes) \in Nat
         /\ DOMAIN writes = 1 .. Len(writes) /\ DOMAIN writes' = 1 .. Len(writes) + 1
         /\ \A h \in DOMAIN writes : writes'[h] = writes[h]
         /\ writes'[Len(writes) + 1].key = k /\ writes'[Len(writes) + 1].record = record
         /\ writes'[Len(writes) + 1].table = Len(readonly)
         /\ writes' \in Seq(WriteRecord)
         /\ memtable' \in [Keys -> Records]
         /\ \A x \in Keys \ {k} : memtable'[x] = memtable[x]
         /\ memtable'[k] = IF memtable[k] = None THEN record ELSE memtable[k]
         /\ readonly' = readonly /\ Len(readonly) \in Nat
<1> DEFINE e == [key |-> k, record |-> record, table |-> Len(readonly)]
<1>1. writes \in Seq(WriteRecord) /\ Len(readonly) \in Nat /\ memtable \in [Keys -> Records]
  BY DEF TableTypes
<1>2. e \in WriteRecord
  BY <1>1 DEF WriteRecord
<1>3. writes' = Append(writes, e) /\ readonly' = readonly /\ memtable' = Insert(memtable, k, record)
  BY DEF Write
<1> HIDE DEF e
<1>4. /\ writes' \in Seq(WriteRecord) /\ Len(writes') = Len(writes) + 1
      /\ \A h \in 1 .. Len(writes) : writes'[h] = writes[h]
      /\ writes'[Len(writes) + 1] = e
  BY <1>1, <1>2, <1>3, AppendProperties
<1>5. /\ memtable' \in [Keys -> Records]
      /\ \A x \in Keys \ {k} : memtable'[x] = memtable[x]
      /\ memtable'[k] = IF memtable[k] = None THEN record ELSE memtable[k]
  BY <1>1, <1>3 DEF Insert, Records
<1>6. Len(writes) \in Nat /\ DOMAIN writes = 1 .. Len(writes) /\ DOMAIN writes' = 1 .. Len(writes')
  BY <1>1, <1>4
<1>7. e.key = k /\ e.record = record /\ e.table = Len(readonly)
  BY DEF e
<1> QED BY <1>1, <1>3, <1>4, <1>5, <1>6, <1>7

\* A write: a key that has a record keeps it, the first record of a key stays its first.
LEMMA WriteKeepsInv ==
  ASSUME TablesInv, NEW k \in Keys, NEW record \in Values \cup {Marker}, Write(k, record)
  PROVE  TablesInv'
<1> PICK new : new = Len(writes) + 1
  OBVIOUS
<1>0. TableTypes /\ KeepsFirst /\ \A x \in Keys : Decided(x)
  BY DEF TablesInv
<1> USE <1>0
<1>1. /\ Len(writes) \in Nat
      /\ DOMAIN writes = 1 .. Len(writes) /\ DOMAIN writes' = 1 .. Len(writes) + 1
      /\ \A h \in DOMAIN writes : writes'[h] = writes[h]
      /\ writes'[new].key = k /\ writes'[new].record = record /\ writes'[new].table = Len(readonly)
      /\ \A x \in Keys \ {k} : memtable'[x] = memtable[x]
      /\ memtable'[k] = IF memtable[k] = None THEN record ELSE memtable[k]
      /\ readonly' = readonly /\ Len(readonly) \in Nat
  BY WriteFacts
<1>2. TableTypes'
  <2>1. writes' \in Seq(WriteRecord) /\ memtable' \in [Keys -> Records]
    BY WriteFacts
  <2>2. readonly' \in Seq([Keys -> Records])
    BY <1>1 DEF TableTypes
  <2>3. ASSUME NEW h \in DOMAIN writes' PROVE writes'[h].table <= Len(readonly')
    <3>1. CASE h = new
      BY <3>1, <1>1
    <3>2. CASE h \in DOMAIN writes
      BY <3>2, <1>1 DEF TableTypes
    <3> QED BY <3>1, <3>2, <1>1
  <2> QED BY <2>1, <2>2, <2>3 DEF TableTypes
<1>3. \A h \in DOMAIN writes : writes[h].table \in Nat /\ writes[h].table <= Len(readonly)
  BY WriteParts
<1>4. ASSUME NEW x \in Keys, NEW j \in 0 .. Len(readonly) PROVE Keeps(x, j)'
  <2>0. Keeps(x, j)
    BY DEF KeepsFirst
  <2>1. CASE x # k \/ j # Len(readonly)
    <3>1. Table(j)'[x] = Table(j)[x]
      BY <2>1, <1>1 DEF Table
    <3>2. /\ \A h \in DOMAIN writes : Hits(x, j, h)' <=> Hits(x, j, h)
          /\ ~Hits(x, j, new)'
      BY <2>1, <1>1 DEF Hits
    <3>3. \A h \in DOMAIN writes' : h \in DOMAIN writes \/ h = new
      BY <1>1
    <3>4. \A i \in DOMAIN writes : First(x, j, i) => First(x, j, i)' /\ i \in DOMAIN writes'
      BY <3>2, <3>3, <1>1 DEF First
    <3> QED BY <2>0, <3>1, <3>2, <3>3, <3>4, <1>1 DEF Keeps
  <2>2. CASE x = k /\ j = Len(readonly)
    <3>1. Table(j) = memtable /\ Table(j)' = memtable'
      BY <2>2, <1>1 DEF Table
    <3>2. /\ \A h \in DOMAIN writes : Hits(x, j, h)' <=> Hits(x, j, h)
          /\ Hits(x, j, new)'
      BY <2>2, <1>1 DEF Hits
    <3>3. \A h \in DOMAIN writes' : h \in DOMAIN writes \/ h = new
      BY <1>1
    <3>4. CASE memtable[k] = None /\ \A h \in DOMAIN writes : ~Hits(x, j, h)
      <4>1. First(x, j, new)' /\ new \in DOMAIN writes'
        BY <3>2, <3>3, <3>4, <1>1 DEF First
      <4> QED BY <4>1, <3>1, <3>4, <2>2, <1>1 DEF Keeps
    <3>5. CASE \E i \in DOMAIN writes : First(x, j, i) /\ memtable[k] = writes[i].record
      <4>1. PICK i \in DOMAIN writes : First(x, j, i) /\ memtable[k] = writes[i].record
        BY <3>5
      <4>2. writes[i].record # None
        BY WriteParts
      <4>3. First(x, j, i)' /\ i \in DOMAIN writes'
        BY <4>1, <3>2, <3>3, <1>1 DEF First
      <4> QED BY <4>1, <4>2, <4>3, <3>1, <2>2, <1>1 DEF Keeps
    <3> QED BY <3>1, <3>4, <3>5, <2>0, <2>2 DEF Keeps
  <2> QED BY <2>1, <2>2
<1>5. ASSUME NEW x \in Keys PROVE Decided(x)'
  <2>0. Decided(x)
    OBVIOUS
  <2>1. \A h \in DOMAIN writes' : h \in DOMAIN writes \/ h = new
    BY <1>1
  <2>2. CASE x # k
    <3>1. \A i \in DOMAIN writes : Decisive(x, i) => Decisive(x, i)' /\ i \in DOMAIN writes'
      BY <2>1, <2>2, <1>1 DEF Decisive
    <3> QED BY <2>0, <2>1, <2>2, <3>1, <1>1 DEF Decided
  <2>3. CASE x = k
    <3>1. CASE \E i \in DOMAIN writes : Decisive(k, i) /\ writes[i].table = Len(readonly)
      <4>1. PICK i \in DOMAIN writes : Decisive(k, i) /\ writes[i].table = Len(readonly)
        BY <3>1
      <4>2. Decisive(k, i)' /\ i \in DOMAIN writes'
        BY <4>1, <2>1, <1>1 DEF Decisive
      <4> QED BY <4>2, <2>3 DEF Decided
    <3>2. CASE ~\E i \in DOMAIN writes : Decisive(k, i) /\ writes[i].table = Len(readonly)
      <4>1. \A h \in DOMAIN writes : writes[h].key = k => writes[h].table < Len(readonly)
        BY <3>2, <2>0, <2>3, <1>3, <1>1 DEF Decided, Decisive
      <4>2. Decisive(k, new)' /\ new \in DOMAIN writes'
        BY <4>1, <2>1, <1>1 DEF Decisive
      <4> QED BY <4>2, <2>3 DEF Decided
    <3> QED BY <3>1, <3>2
  <2> QED BY <2>2, <2>3
<1> QED BY <1>1, <1>2, <1>4, <1>5 DEF TablesInv, KeepsFirst

\* A rotation: the memtable becomes the newest read-only table, the new one has no write.
LEMMA RotateKeepsInv ==
  ASSUME TablesInv, Rotate
  PROVE  TablesInv'
<1>0. TableTypes /\ KeepsFirst /\ \A x \in Keys : Decided(x)
  BY DEF TablesInv
<1>1. /\ readonly' \in Seq([Keys -> Records]) /\ Len(readonly) \in Nat
      /\ Len(readonly') = Len(readonly) + 1
      /\ \A h \in 1 .. Len(readonly) : readonly'[h] = readonly[h]
      /\ readonly'[Len(readonly) + 1] = memtable
  BY <1>0, AppendProperties DEF Rotate, TableTypes
<1>2. /\ memtable' \in [Keys -> Records] /\ \A x \in Keys : memtable'[x] = None
      /\ writes' = writes
  BY DEF Rotate, EmptyTable, Records
<1>3. TableTypes'
  <2>1. \A h \in DOMAIN writes : writes[h].table <= Len(readonly')
    BY <1>0, <1>1, WriteParts
  <2>2. writes \in Seq(WriteRecord) /\ WriteRecord' = WriteRecord
    BY <1>0 DEF TableTypes, WriteRecord
  <2> QED BY <1>1, <1>2, <2>1, <2>2 DEF TableTypes
<1>4. ASSUME NEW x \in Keys, NEW j \in 0 .. Len(readonly) + 1 PROVE Keeps(x, j)'
  <2>1. CASE j = Len(readonly) + 1
    <3>1. Table(j)' = memtable'
      BY <2>1, <1>1 DEF Table
    <3>2. \A h \in DOMAIN writes' : ~Hits(x, j, h)'
      BY <2>1, <1>0, <1>1, <1>2, WriteParts DEF Hits
    <3> QED BY <3>1, <3>2, <1>2 DEF Keeps
  <2>2. CASE j \in 0 .. Len(readonly)
    <3>1. Table(j)' = Table(j)
      BY <2>2, <1>1 DEF Table
    <3> QED BY <2>2, <3>1, <1>0, <1>2 DEF KeepsFirst, Keeps, First, Hits
  <2> QED BY <2>1, <2>2, <1>1
<1>5. \A x \in Keys : Decided(x)'
  BY <1>0, <1>2 DEF Decided, Decisive
<1> QED BY <1>1, <1>3, <1>4, <1>5 DEF TablesInv, KeepsFirst

\* Memtable and read-only tables answer from the newest table that has a write to the key,
\* for any keys and values and through any number of rotations.
THEOREM LookupCorrect == Spec => []LookupIsOfNewestTable
<1>1. Init => TablesInv
  <2> SUFFICES ASSUME Init PROVE TablesInv
    OBVIOUS
  <2>1. TableTypes
    BY DEF Init, TableTypes, EmptyTable, Records
  <2>2. KeepsFirst
    BY DEF Init, KeepsFirst, Keeps, Table, EmptyTable
  <2>3. \A k \in Keys : Decided(k)
    BY DEF Init, Decided
  <2> QED BY <2>1, <2>2, <2>3 DEF TablesInv
<1>2. TablesInv /\ [Next]_vars => TablesInv'
  <2> SUFFICES ASSUME TablesInv, [Next]_vars PROVE TablesInv'
    OBVIOUS
  <2>1. ASSUME NEW k \in Keys, NEW record \in Values \cup {Marker}, Write(k, record) PROVE TablesInv'
    BY <2>1, WriteKeepsInv
  <2>2. CASE Rotate
    BY <2>2, RotateKeepsInv
  <2>3. CASE UNCHANGED <<memtable, readonly, writes>>
    BY <2>3 DEF TablesInv, TableTypes, KeepsFirst, Keeps, Table, First, Hits, Decided, Decisive, WriteRecord
  <2> QED BY <2>1, <2>2, <2>3 DEF Next, Set, Delete, Get, Evict, vars
<1> QED BY <1>1, <1>2, InvImpliesLookup, PTL DEF Spec

=============================================================================
