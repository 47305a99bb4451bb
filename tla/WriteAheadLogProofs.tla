-------------------------- MODULE WriteAheadLogProofs --------------------------
(***************************************************************************)
(* WalTypeOK for any number of writers; FileBounded and KeptUntilRestart   *)
(* for one writer and any sizes, threshold, number of wraps and restarts.  *)
(***************************************************************************)
EXTENDS WriteAheadLog, SequenceTheorems, TLAPS

\* The file after a write of s cells of record id behind position at.
Written(f, at, s, id) ==
  LET size == IF at + s > Len(f) THEN at + s ELSE Len(f)
  IN  [p \in 1..size |-> IF p \in (at + 1)..(at + s) THEN id ELSE f[p]]

\* A write leaves no hole and grows the file to the end of the record at most.
LEMMA WriteType ==
  ASSUME NEW f \in Seq(Nat), NEW at \in Nat, NEW s \in Nat, NEW id \in Nat, at <= Len(f)
  PROVE  /\ Written(f, at, s, id) \in Seq(Nat)
         /\ Len(Written(f, at, s, id)) = IF at + s > Len(f) THEN at + s ELSE Len(f)
<1> DEFINE size == IF at + s > Len(f) THEN at + s ELSE Len(f)
<1> DEFINE g == [p \in 1..size |-> IF p \in (at + 1)..(at + s) THEN id ELSE f[p]]
<1>1. size \in Nat
  OBVIOUS
<1>2. ASSUME NEW p \in 1..size PROVE (IF p \in (at + 1)..(at + s) THEN id ELSE f[p]) \in Nat
  OBVIOUS
<1>3. g \in [1..size -> Nat]
  <2> HIDE DEF size
  <2> QED BY <1>2
<1> HIDE DEF size
<1>4. g \in Seq(Nat) /\ Len(g) = size
  BY <1>1, <1>3
<1>5. QED
  BY <1>4 DEF Written, size

\* The file position never lies behind the end of the file.
TypeInv == WalTypeOK /\ offset <= Len(file)

\* The bytes written so far are a number.
LEMMA TotalNat == ASSUME history \in Seq(Entry) PROVE Total \in Nat
<1>1. CASE history = <<>>
  BY <1>1 DEF Total
<1>2. CASE history # <<>>
  <2>1. Len(history) \in 1..Len(history)
    BY <1>2, EmptySeq, LenProperties
  <2>2. history[Len(history)] \in Entry
    BY <2>1, ElementOfSeq
  <2> QED BY <1>2, <2>2 DEF Total, Entry
<1> QED BY <1>1, <1>2

\* The initial state is well typed.
LEMMA TypeInit == WalInit => TypeInv
BY SizesAssumption DEF WalInit, TypeInv, WalTypeOK, Record

\* Every step of a client and a restart keep the types.
LEMMA TypeNext == TypeInv /\ [WalNext]_walVars => TypeInv'
<1> SUFFICES ASSUME TypeInv, [WalNext]_walVars PROVE TypeInv'
  OBVIOUS
<1> USE SizesAssumption DEF TypeInv, WalTypeOK
<1>1. ASSUME NEW c \in Clients, NEW s \in Sizes, Format(c, s) PROVE TypeInv'
  <2>1. [size |-> s, number |-> global_number] \in Record
    BY DEF Record
  <2>2. record' \in [Clients -> Record]
    BY <1>1, <2>1 DEF Format
  <2>3. QED
    BY <1>1, <2>2 DEF Format, Goto, logVars
<1>2. ASSUME NEW c \in Clients, Increment(c) PROVE TypeInv'
  BY <1>2 DEF Increment, Goto, logVars
<1>3. ASSUME NEW c \in Clients, Load(c) PROVE TypeInv'
  BY <1>3 DEF Load, Goto, logVars
<1>4. ASSUME NEW c \in Clients, Store(c) PROVE TypeInv'
  <2>1. record[c].size \in Nat /\ reg[c] \in Nat
    BY DEF Record
  <2>2. reg[c] + record[c].size \in Nat
    <3> HIDE DEF TypeInv, WalTypeOK
    <3> QED BY <2>1
  <2>3. QED
    BY <1>4, <2>2 DEF Store, Goto
<1>5. ASSUME NEW c \in Clients, Test(c) PROVE TypeInv'
  BY <1>5 DEF Test, Goto, logVars
<1>6. ASSUME NEW c \in Clients, SeekBegin(c) PROVE TypeInv'
  BY <1>6 DEF SeekBegin, Goto
<1>7. ASSUME NEW c \in Clients, Reset(c) PROVE TypeInv'
  BY <1>7 DEF Reset, Goto
<1>8. ASSUME NEW c \in Clients, AddRecord(c) PROVE TypeInv'
  <2>1. record[c].size \in Sizes /\ record[c].size \in Nat /\ record[c].number \in Nat
    BY DEF Record
  <2>2. file' = Written(file, offset, record[c].size, Len(history) + 1)
    BY <1>8 DEF AddRecord, Written
  <2>3. Len(history) + 1 \in Nat
    OBVIOUS
  <2>4. /\ file' \in Seq(Nat)
        /\ Len(file') = IF offset + record[c].size > Len(file)
                        THEN offset + record[c].size ELSE Len(file)
    <3>1. file \in Seq(Nat) /\ offset \in Nat /\ offset <= Len(file)
      OBVIOUS
    <3> HIDE DEF TypeInv, WalTypeOK
    <3>2. QED
      BY <2>1, <2>2, <2>3, <3>1, WriteType
  <2>5. offset' = offset + record[c].size
    BY <1>8 DEF AddRecord
  <2>6. offset' \in Nat /\ offset' <= Len(file')
    BY <2>1, <2>4, <2>5
  <2>7. history' \in Seq(Entry)
    <3> DEFINE h == [size |-> record[c].size, number |-> record[c].number, at |-> offset,
                       epoch |-> restarts, total |-> Total + record[c].size]
    <3>1. h \in Entry
      BY <2>1, TotalNat DEF Entry
    <3>2. history' = Append(history, h)
      BY <1>8 DEF AddRecord
    <3>3. QED
      BY <3>1, <3>2
  <2>8. QED
    BY <1>8, <2>4, <2>6, <2>7 DEF AddRecord, Goto
<1>9. CASE Restart
  BY <1>9 DEF Restart
<1>10. CASE UNCHANGED walVars
  BY <1>10 DEF walVars, logVars
<1>11. QED
  BY <1>1, <1>2, <1>3, <1>4, <1>5, <1>6, <1>7, <1>8, <1>9, <1>10 DEF WalNext, Client

\* Every reachable state is well typed, and the file position is never beyond the end of
\* the file, for any number of unsynchronised writers.
THEOREM TypeCorrect == WalSpec => []WalTypeOK
<1>1. WalSpec => []TypeInv
  BY TypeInit, TypeNext, PTL DEF WalSpec
<1>2. TypeInv => WalTypeOK
  BY DEF TypeInv
<1>3. QED
  BY <1>1, <1>2, PTL

-----------------------------------------------------------------------------
\* The empty file is bounded.
LEMMA RingInit == ASSUME NEW c \in Clients PROVE WalInit => RingInv(c)
BY SizesAssumption, CapacityAssumption DEF WalInit, RingInv, FileBounded

\* The only writer, and a restart, keep the distance between position and count.
LEMMA RingNext ==
  ASSUME NEW c, Clients = {c}, TypeInv, RingInv(c), [WalNext]_walVars
  PROVE  RingInv(c)'
<1> USE SizesAssumption, CapacityAssumption
<1>0. c \in Clients /\ MaxRecord \in Nat /\ record[c].size \in Nat /\ record[c].size <= MaxRecord
  BY DEF TypeInv, WalTypeOK, Record
<1>t. /\ offset \in Nat /\ current_log_size \in Nat /\ reg[c] \in Nat /\ Len(file) \in Nat
      /\ wal_pc \in [Clients -> {"idle", "increment", "load", "store", "test", "seek", "reset", "write"}]
      /\ record \in [Clients -> Record] /\ reg \in [Clients -> Nat]
  BY <1>0 DEF TypeInv, WalTypeOK
<1>1. ASSUME NEW s \in Sizes, Format(c, s) PROVE RingInv(c)'
  BY <1>0, <1>t, <1>1 DEF Format, Goto, logVars, RingInv, FileBounded
<1>2. ASSUME Increment(c) PROVE RingInv(c)'
  BY <1>0, <1>t, <1>2 DEF Increment, Goto, logVars, RingInv, FileBounded
<1>3. ASSUME Load(c) PROVE RingInv(c)'
  BY <1>0, <1>t, <1>3 DEF Load, Goto, logVars, RingInv, FileBounded
<1>4. ASSUME Store(c) PROVE RingInv(c)'
  BY <1>0, <1>t, <1>4 DEF Store, Goto, RingInv, FileBounded
<1>5. ASSUME Test(c) PROVE RingInv(c)'
  BY <1>0, <1>t, <1>5 DEF Test, Goto, logVars, RingInv, FileBounded
<1>6. ASSUME SeekBegin(c) PROVE RingInv(c)'
  BY <1>0, <1>t, <1>6 DEF SeekBegin, Goto, RingInv, FileBounded
<1>7. ASSUME Reset(c) PROVE RingInv(c)'
  BY <1>0, <1>t, <1>7 DEF Reset, Goto, RingInv, FileBounded
<1>8. ASSUME AddRecord(c) PROVE RingInv(c)'
  <2>1. file' = Written(file, offset, record[c].size, Len(history) + 1)
    BY <1>8 DEF AddRecord, Written
  <2>2. Len(file') = IF offset + record[c].size > Len(file)
                     THEN offset + record[c].size ELSE Len(file)
    <3>1. /\ file \in Seq(Nat) /\ Len(history) + 1 \in Nat /\ offset \in Nat
          /\ offset <= Len(file)
      BY DEF TypeInv, WalTypeOK
    <3>2. QED
      BY <1>0, <2>1, <3>1, WriteType
  <2>3. offset' = offset + record[c].size /\ current_log_size' = current_log_size
        /\ wal_pc[c] = "write" /\ wal_pc'[c] = "idle"
    BY <1>0, <1>t, <1>8 DEF AddRecord, Goto
  <2>4. offset + record[c].size <= current_log_size + MaxRecord /\ current_log_size < wal_log_size
        /\ Len(file) < wal_log_size + MaxRecord
    BY <2>3 DEF RingInv, FileBounded
  <2>5. Len(file') < wal_log_size + MaxRecord /\ offset' <= current_log_size' + MaxRecord
    BY <1>0, <1>t, <2>2, <2>3, <2>4
  <2>6. QED
    BY <2>3, <2>5 DEF RingInv, FileBounded
<1>9. CASE Restart
  BY <1>0, <1>t, <1>9 DEF Restart, RingInv, FileBounded
<1>10. CASE UNCHANGED walVars
  BY <1>10 DEF walVars, logVars, RingInv, FileBounded
<1>11. QED
  BY <1>1, <1>2, <1>3, <1>4, <1>5, <1>6, <1>7, <1>8, <1>9, <1>10 DEF WalNext, Client

\* With one writer the log file stays below wal_log_size_ plus one record for ever,
\* through every wrap of AddRecord and every restart.
THEOREM BoundCorrect ==
  ASSUME NEW CONSTANT c, Clients = {c}
  PROVE  WalSpec => []FileBounded
<1>1. WalInit => RingInv(c)
  BY RingInit
<1>2. TypeInv /\ RingInv(c) /\ [WalNext]_walVars => RingInv(c)'
  BY RingNext
<1>3. RingInv(c) => FileBounded
  BY DEF RingInv
<1>4. QED
  BY <1>1, <1>2, <1>3, TypeInit, TypeNext, PTL DEF WalSpec

-----------------------------------------------------------------------------
(* Records are kept for one round.                                         *)

\* What is in the history is a record.
LEMMA EntryParts ==
  ASSUME history \in Seq(Entry)
  PROVE  \A i \in 1..Len(history) :
           /\ history[i].size \in Nat \ {0} /\ history[i].size <= MaxRecord
           /\ history[i].at \in Nat /\ history[i].total \in Nat
<1> SUFFICES ASSUME NEW i \in 1..Len(history)
             PROVE  /\ history[i].size \in Nat \ {0} /\ history[i].size <= MaxRecord
                    /\ history[i].at \in Nat /\ history[i].total \in Nat
  OBVIOUS
<1>1. history[i] \in Entry
  BY ElementOfSeq
<1>2. history[i].size \in Sizes /\ history[i].at \in Nat /\ history[i].total \in Nat
  BY <1>1 DEF Entry
<1> QED BY <1>2, SizesAssumption

\* A step that neither writes nor moves the file position keeps every round.
LEMMA RoundSame ==
  ASSUME RoundInv, UNCHANGED <<offset, file, history>>
  PROVE  RoundInv'
BY DEF RoundInv, Inside, ThisRound, EarlierRound, Intact, BytesSince, Total

\* A wrap: what was this round is the one before.
LEMMA RoundSeek ==
  ASSUME TypeInv, RoundInv, offset' = 0, UNCHANGED <<file, history>>,
         offset >= wal_log_size - MaxRecord
  PROVE  RoundInv'
<1>t. offset \in Nat /\ Total \in Nat /\ history \in Seq(Entry) /\ wal_log_size \in Nat /\ MaxRecord \in Nat
  BY TotalNat, CapacityAssumption, SizesAssumption DEF TypeInv, WalTypeOK
<1>1. Total' = Total
  BY DEF Total
<1>2. ASSUME NEW i \in 1..Len(history) PROVE Inside(i)' /\ EarlierRound(i)'
                                             /\ ~(history'[i].total - history'[i].size >= Total' - offset')
  <2>1. /\ history[i].size \in Nat \ {0} /\ history[i].at \in Nat /\ history[i].total \in Nat
    BY <1>t, EntryParts
  <2>2. Inside(i) /\ history[i].size <= history[i].total /\ history[i].total <= Total
    BY DEF RoundInv, Inside
  <2>3. ~(history'[i].total - history'[i].size >= Total' - offset')
    BY <1>t, <1>1, <2>1, <2>2
  <2>4. Inside(i)'
    BY <1>1, <2>2 DEF Inside
  <2>5. Intact(i)' <=> Intact(i)
    BY DEF Intact
  <2>6. BytesSince(i)' = BytesSince(i)
    BY <1>1 DEF BytesSince
  <2>7. CASE history[i].total - history[i].size >= Total - offset
    <3>1. Intact(i) /\ history[i].at = history[i].total - history[i].size - (Total - offset)
      BY <2>7 DEF RoundInv, ThisRound
    <3>2. /\ history'[i].at >= offset'
          /\ Total' - offset' - (history'[i].total - history'[i].size) + history'[i].at
               >= wal_log_size - MaxRecord
      BY <1>t, <1>1, <2>1, <3>1
    <3> QED BY <2>3, <2>4, <2>5, <3>1, <3>2 DEF EarlierRound
  <2>8. CASE ~(history[i].total - history[i].size >= Total - offset)
    <3>1. EarlierRound(i)
      BY <2>8 DEF RoundInv
    <3>2. CASE BytesSince(i) > wal_log_size - 2 * MaxRecord
      BY <2>3, <2>4, <2>6, <3>2 DEF EarlierRound
    <3>3. CASE /\ history[i].at >= offset /\ Intact(i)
               /\ Total - offset - (history[i].total - history[i].size) + history[i].at
                    >= wal_log_size - MaxRecord
      <4>1. /\ history'[i].at >= offset'
            /\ Total' - offset' - (history'[i].total - history'[i].size) + history'[i].at
                 >= wal_log_size - MaxRecord
        BY <1>t, <1>1, <2>1, <3>3
      <4> QED BY <2>3, <2>4, <2>5, <3>3, <4>1 DEF EarlierRound
    <3> QED BY <3>1, <3>2, <3>3 DEF EarlierRound
  <2> QED BY <2>7, <2>8
<1>3. offset' <= Total'
  BY <1>t, <1>1
<1> QED BY <1>2, <1>3 DEF RoundInv

\* A write at the file position: the records of this round are behind it, those of the
\* round before stay ahead of it or are followed by nearly a whole round.
LEMMA RoundWrite ==
  ASSUME TypeInv, RoundInv, NEW c \in Clients, AddRecord(c)
  PROVE  RoundInv'
<1>p. PICK s, m, id : s = record[c].size /\ m = Len(history) /\ id = Len(history) + 1
  OBVIOUS
<1>t. /\ offset \in Nat /\ Total \in Nat /\ history \in Seq(Entry) /\ wal_log_size \in Nat
      /\ MaxRecord \in Nat /\ file \in Seq(Nat) /\ Len(file) \in Nat /\ m \in Nat /\ offset <= Len(file)
  BY TotalNat, CapacityAssumption, SizesAssumption, LenProperties, <1>p DEF TypeInv, WalTypeOK
<1>s. s \in Nat \ {0} /\ s \in Sizes
  BY <1>p, SizesAssumption DEF TypeInv, WalTypeOK, Record
<1>1. offset' = offset + s
  BY <1>p DEF AddRecord
<1>3. /\ Len(history') = m + 1 /\ \A i \in 1..m : history'[i] = history[i]
      /\ history'[m + 1].size = s /\ history'[m + 1].at = offset /\ history'[m + 1].total = Total + s
      /\ history' \in Seq(Entry)
  <2> PICK h : h = [size |-> s, number |-> record[c].number, at |-> offset,
                    epoch |-> restarts, total |-> Total + s]
    OBVIOUS
  <2>1. history' = Append(history, h)
    BY <1>p DEF AddRecord
  <2>2. record[c].number \in Nat /\ restarts \in Nat /\ Total + s \in Nat
    BY <1>t, <1>s DEF TypeInv, WalTypeOK, Record
  <2>3. h \in Entry
    BY <1>t, <1>s, <2>2 DEF Entry
  <2>4. h.size = s /\ h.at = offset /\ h.total = Total + s
    OBVIOUS
  <2>5. /\ Len(history') = m + 1 /\ \A i \in 1..m : history'[i] = history[i]
        /\ history'[m + 1] = h /\ history' \in Seq(Entry)
    BY <1>p, <1>t, <2>1, <2>3, AppendProperties
  <2> QED BY <2>4, <2>5
<1>4. Total' = Total + s
  <2>1. history' # <<>>
    BY <1>t, <1>3, EmptySeq
  <2> QED BY <1>3, <2>1 DEF Total
<1>5. file' = Written(file, offset, s, id)
  BY <1>p DEF AddRecord, Written
<1>6. Len(file') = (IF offset + s > Len(file) THEN offset + s ELSE Len(file))
  <2>1. id \in Nat /\ s \in Nat
    BY <1>p, <1>t, <1>s
  <2> QED BY <1>t, <1>5, <2>1, WriteType
<1>a. /\ offset \in Nat /\ Total \in Nat /\ s \in Nat /\ s > 0 /\ Len(file) \in Nat
      /\ wal_log_size \in Nat /\ MaxRecord \in Nat /\ m \in Nat
  BY <1>t, <1>s
<1>7. \A p \in 1..Len(file') : file'[p] = IF p \in (offset + 1)..(offset + s) THEN id ELSE file[p]
  BY <1>t, <1>s, <1>5, <1>6 DEF Written
<1> HIDE DEF TypeInv
<1>8. ASSUME NEW i \in 1..m
      PROVE  /\ Inside(i)'
             /\ IF history'[i].total - history'[i].size >= Total' - offset'
                THEN ThisRound(i)' ELSE EarlierRound(i)'
  <2>p. PICK a, z, u : a = history[i].at /\ z = history[i].size /\ u = history[i].total
    OBVIOUS
  <2>1. /\ z \in Nat \ {0} /\ z <= MaxRecord /\ a \in Nat /\ u \in Nat
    BY <1>p, <1>t, <2>p, EntryParts
  <2>2. history'[i].at = a /\ history'[i].size = z /\ history'[i].total = u
    BY <1>3, <2>p
  <2>3. z <= u /\ u <= Total /\ a + z <= Len(file)
    BY <1>p, <2>p DEF RoundInv, Inside
  <2>4. Total' - offset' = Total - offset
    BY <1>a, <1>1, <1>4
  <2>5. Inside(i)'
    <3>1. z <= u /\ u <= Total' /\ a + z <= Len(file')
      BY <1>a, <1>4, <1>6, <2>1, <2>3
    <3> QED BY <2>2, <3>1 DEF Inside
  <2>6. ASSUME Intact(i), a + z <= offset \/ a >= offset + s PROVE Intact(i)'
    <3> SUFFICES ASSUME NEW p \in (a + 1)..(a + z) PROVE file'[p] = i
      BY <2>2 DEF Intact
    <3>1. file[p] = i
      BY <2>6, <2>p DEF Intact
    <3>2. p \in 1..Len(file') /\ p \notin (offset + 1)..(offset + s)
      BY <1>a, <1>6, <2>1, <2>3, <2>6
    <3> QED BY <1>7, <3>1, <3>2
  <2>7. CASE u - z >= Total - offset
    <3>1. Intact(i) /\ a = u - z - (Total - offset)
      BY <1>p, <2>p, <2>7 DEF RoundInv, ThisRound
    <3>2. a + z <= offset
      BY <1>a, <2>1, <2>3, <3>1
    <3>3. Intact(i)'
      BY <2>6, <3>1, <3>2
    <3>4. ThisRound(i)'
      BY <2>2, <2>4, <3>1, <3>3 DEF ThisRound
    <3> QED BY <2>2, <2>4, <2>5, <2>7, <3>4
  <2>8. CASE ~(u - z >= Total - offset)
    <3>1. EarlierRound(i)
      BY <1>p, <2>p, <2>8 DEF RoundInv
    <3>2. CASE Total - u > wal_log_size - 2 * MaxRecord
      <4>1. Total' - u > wal_log_size - 2 * MaxRecord
        BY <1>a, <1>4, <2>1, <3>2
      <4> QED BY <2>2, <2>4, <2>5, <2>8, <4>1 DEF EarlierRound, BytesSince
    <3>3. CASE a >= offset /\ Intact(i) /\ Total - offset - (u - z) + a >= wal_log_size - MaxRecord
      <4>1. CASE a >= offset + s
        <5>1. Intact(i)'
          BY <2>6, <3>3, <4>1
        <5>2. a >= offset' /\ Total' - offset' - (u - z) + a >= wal_log_size - MaxRecord
          BY <1>1, <2>4, <3>3, <4>1
        <5> QED BY <2>2, <2>4, <2>5, <2>8, <5>1, <5>2 DEF EarlierRound
      <4>2. CASE ~(a >= offset + s)
        <5>1. Total' - u > wal_log_size - 2 * MaxRecord
          BY <1>a, <1>4, <2>1, <3>3, <4>2
        <5> QED BY <2>2, <2>4, <2>5, <2>8, <5>1 DEF EarlierRound, BytesSince
      <4> QED BY <4>1, <4>2
    <3> QED BY <2>p, <3>1, <3>2, <3>3 DEF EarlierRound, BytesSince
  <2> QED BY <2>7, <2>8
<1>9. /\ Inside(m + 1)'
      /\ history'[m + 1].total - history'[m + 1].size >= Total' - offset'
      /\ ThisRound(m + 1)'
  <2>1. Inside(m + 1)'
    BY <1>t, <1>s, <1>3, <1>4, <1>6 DEF Inside
  <2>3. Intact(m + 1)'
    <3> SUFFICES ASSUME NEW p \in (offset + 1)..(offset + s) PROVE file'[p] = m + 1
      BY <1>3 DEF Intact
    <3>1. p \in 1..Len(file')
      BY <1>a, <1>6
    <3> QED BY <1>p, <1>7, <3>1
  <2>4. /\ history'[m + 1].at = history'[m + 1].total - history'[m + 1].size - (Total' - offset')
        /\ history'[m + 1].total - history'[m + 1].size >= Total' - offset'
    <3>1. history'[m + 1].size = s /\ history'[m + 1].at = offset /\ history'[m + 1].total = Total + s
      BY <1>3
    <3>p. PICK a, z, u : a = history'[m + 1].at /\ z = history'[m + 1].size /\ u = history'[m + 1].total
      OBVIOUS
    <3>2. a = offset /\ z = s /\ u = Total + s
      BY <3>1, <3>p
    <3>3. a = u - z - (Total' - offset') /\ u - z >= Total' - offset'
      BY <1>a, <1>1, <1>4, <3>2
    <3> QED BY <3>p, <3>3
  <2>5. ThisRound(m + 1)'
    BY <2>3, <2>4 DEF ThisRound
  <2> QED BY <2>1, <2>4, <2>5
<1>10. offset' <= Total'
  <2>1. offset <= Total
    BY DEF RoundInv
  <2> QED BY <1>a, <1>1, <1>4, <2>1
<1>11. \A i \in 1..Len(history') : i \in 1..m \/ i = m + 1
  BY <1>t, <1>3
<1> QED BY <1>8, <1>9, <1>10, <1>11 DEF RoundInv

\* Until the first restart every step of the only writer keeps the count behind the file
\* position and every round in its place.
LEMMA KeptNext ==
  ASSUME NEW c, Clients = {c}, TypeInv, KeptInv(c), [WalNext]_walVars
  PROVE  KeptInv(c)'
<1> USE SizesAssumption, CapacityAssumption
<1>t. /\ offset \in Nat /\ current_log_size \in Nat /\ reg[c] \in Nat
      /\ wal_pc \in [Clients -> {"idle", "increment", "load", "store", "test", "seek", "reset", "write"}]
      /\ record \in [Clients -> Record] /\ reg \in [Clients -> Nat] /\ restarts \in Nat
      /\ record[c].size \in Nat \ {0} /\ record[c].size <= MaxRecord /\ MaxRecord \in Nat
      /\ wal_log_size \in Nat
  BY DEF TypeInv, WalTypeOK, Record
<1>1. CASE Restart
  BY <1>t, <1>1 DEF Restart, KeptInv
<1> SUFFICES ASSUME ~Restart, restarts = 0, restarts' = restarts, CountInv(c), RoundInv
             PROVE  CountInv(c)' /\ RoundInv'
  <2>1. ASSUME ~Restart PROVE restarts' = restarts
    BY <2>1 DEF WalNext, Client, Format, Increment, Load, Store, Test, SeekBegin, Reset, AddRecord, walVars
  <2> QED BY <1>1, <2>1 DEF KeptInv
<1>2. ASSUME NEW s \in Sizes, Format(c, s) PROVE CountInv(c)' /\ RoundInv'
  <2>1. wal_pc[c] = "idle" /\ wal_pc'[c] = "increment" /\ UNCHANGED <<reg, current_log_size, offset, file, history>>
    BY <1>t, <1>2 DEF Format, Goto, logVars
  <2> QED BY <2>1, RoundSame DEF CountInv
<1>3. ASSUME Increment(c) PROVE CountInv(c)' /\ RoundInv'
  <2>1. wal_pc[c] = "increment" /\ wal_pc'[c] = "load" /\ UNCHANGED <<reg, current_log_size, offset, file, history>>
    BY <1>t, <1>3 DEF Increment, Goto, logVars
  <2> QED BY <2>1, RoundSame DEF CountInv
<1>4. ASSUME Load(c) PROVE CountInv(c)' /\ RoundInv'
  <2>1. /\ wal_pc[c] = "load" /\ wal_pc'[c] = "store" /\ reg'[c] = current_log_size
        /\ UNCHANGED <<current_log_size, offset, file, history>>
    BY <1>t, <1>4 DEF Load, Goto, logVars
  <2> QED BY <2>1, RoundSame DEF CountInv
<1>5. ASSUME Store(c) PROVE CountInv(c)' /\ RoundInv'
  <2>1. /\ wal_pc[c] = "store" /\ wal_pc'[c] = "test" /\ current_log_size' = reg[c] + record[c].size
        /\ UNCHANGED <<record, offset, file, history>>
    BY <1>t, <1>5 DEF Store, Goto
  <2>2. reg[c] = current_log_size /\ current_log_size <= offset
    BY <2>1 DEF CountInv
  <2>3. current_log_size' <= offset' + record'[c].size
    BY <1>t, <2>1, <2>2
  <2> QED BY <2>1, <2>3, RoundSame DEF CountInv
<1>6. ASSUME Test(c) PROVE CountInv(c)' /\ RoundInv'
  <2>1. /\ wal_pc[c] = "test" /\ wal_pc'[c] = IF current_log_size >= wal_log_size THEN "seek" ELSE "write"
        /\ UNCHANGED <<record, reg, current_log_size, offset, file, history>>
    BY <1>t, <1>6 DEF Test, Goto, logVars
  <2> QED BY <2>1, RoundSame DEF CountInv
<1>7. ASSUME SeekBegin(c) PROVE CountInv(c)' /\ RoundInv'
  <2>1. wal_pc[c] = "seek" /\ wal_pc'[c] = "reset" /\ offset' = 0 /\ UNCHANGED <<file, history>>
    BY <1>t, <1>7 DEF SeekBegin, Goto
  <2>2. current_log_size <= offset + record[c].size /\ current_log_size >= wal_log_size
    BY <2>1 DEF CountInv
  <2>3. offset >= wal_log_size - MaxRecord
    BY <1>t, <2>2
  <2>4. RoundInv'
    BY <2>1, <2>3, RoundSeek
  <2> QED BY <2>1, <2>4 DEF CountInv
<1>8. ASSUME Reset(c) PROVE CountInv(c)' /\ RoundInv'
  <2>1. /\ wal_pc[c] = "reset" /\ wal_pc'[c] = "write" /\ current_log_size' = 0
        /\ UNCHANGED <<record, offset, file, history>>
    BY <1>t, <1>8 DEF Reset, Goto
  <2>2. current_log_size' <= offset' + record'[c].size
    BY <1>t, <2>1
  <2> QED BY <2>1, <2>2, RoundSame DEF CountInv
<1>9. ASSUME AddRecord(c) PROVE CountInv(c)' /\ RoundInv'
  <2>1. /\ wal_pc[c] = "write" /\ wal_pc'[c] = "idle" /\ offset' = offset + record[c].size
        /\ current_log_size' = current_log_size
    BY <1>t, <1>9 DEF AddRecord, Goto
  <2>2. current_log_size' <= offset'
    BY <2>1 DEF CountInv
  <2>3. RoundInv'
    BY <1>9, RoundWrite
  <2> QED BY <2>1, <2>2, <2>3 DEF CountInv
<1>10. CASE UNCHANGED walVars
  <2>1. UNCHANGED <<wal_pc, record, reg, current_log_size, offset, file, history>>
    BY <1>10 DEF walVars, logVars
  <2> QED BY <2>1, RoundSame DEF CountInv
<1> QED
  BY <1>2, <1>3, <1>4, <1>5, <1>6, <1>7, <1>8, <1>9, <1>10 DEF WalNext, Client

\* With one writer, until the process is killed for the first time, a record is
\* overwritten only when the log has come round to it: as long as fewer bytes than the
\* threshold less two records follow it, all its cells are its own, whatever the sizes of
\* the records and however often AddRecord wraps.
THEOREM KeptCorrect ==
  ASSUME NEW CONSTANT c, Clients = {c}
  PROVE  WalSpec => []KeptUntilRestart
<1>1. WalInit => KeptInv(c)
  <2> SUFFICES ASSUME WalInit PROVE CountInv(c) /\ RoundInv
    BY DEF KeptInv
  <2>1. history = <<>> /\ offset = 0 /\ current_log_size = 0 /\ wal_pc[c] = "idle"
    BY DEF WalInit
  <2>2. Total = 0 /\ Len(history) = 0
    BY <2>1 DEF Total
  <2> QED BY <2>1, <2>2 DEF CountInv, RoundInv
<1>2. TypeInv /\ KeptInv(c) /\ [WalNext]_walVars => KeptInv(c)'
  BY KeptNext
<1>3. TypeInv /\ KeptInv(c) => KeptUntilRestart
  <2> SUFFICES ASSUME TypeInv, KeptInv(c), restarts = 0, NEW i \in 1..Len(history),
                      BytesSince(i) <= wal_log_size - 2 * MaxRecord
               PROVE  Intact(i)
    BY DEF KeptUntilRestart, KeptForOneRound
  <2>1. RoundInv
    BY DEF KeptInv
  <2>2. history[i].total \in Nat /\ Total \in Nat /\ wal_log_size \in Nat /\ MaxRecord \in Nat
    BY EntryParts, TotalNat, SizesAssumption, CapacityAssumption DEF TypeInv, WalTypeOK
  <2>3. ~(BytesSince(i) > wal_log_size - 2 * MaxRecord)
    BY <2>2 DEF BytesSince
  <2> QED BY <2>1, <2>3 DEF RoundInv, ThisRound, EarlierRound
<1>4. QED
  BY <1>1, <1>2, <1>3, TypeInit, TypeNext, PTL DEF WalSpec

=============================================================================
