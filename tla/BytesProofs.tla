----------------------------- MODULE BytesProofs -----------------------------
(* Proofs about the code that cuts a stream of bytes into pieces: the      *)
(* append file for every buffer size and any Appends, the streaming hash   *)
(* for every input and every way to cut it, the CRC for every length and   *)
(* alignment, the string hashes for every length and every build.          *)
EXTENDS AppendFile, XXHash64, Crc32, HashReads, SequenceTheorems, TLAPS

Bytes == Nat \X Nat

\* The offset is never past the end of the file, and between two calls the buffer is
\* never full: an Append that would fill it flushes it.
FileTypes ==
  /\ content \in Seq(Bytes) /\ buf \in Seq(Bytes) /\ since \in Seq(Bytes)
  /\ offset \in 0..Len(content)
  /\ Len(buf) < kAppendFileBufferSize
  /\ appends \in Nat

FileInv == FileTypes /\ AppendsInOrder

-----------------------------------------------------------------------------
(* Sequences.                                                              *)

\* A part of a sequence is a sequence, as long as its ends say.
LEMMA PartType ==
  ASSUME NEW S, NEW s \in Seq(S), NEW m \in Nat \ {0}, NEW k \in 0..Len(s)
  PROVE  /\ SubSeq(s, m, k) \in Seq(S)
         /\ Len(SubSeq(s, m, k)) = IF m <= k THEN k - m + 1 ELSE 0
<1>1. \A i \in m..k : s[i] \in S
  BY LenProperties, ElementOfSeq
<1>2. m \in Int /\ k \in Int
  BY LenProperties
<1> QED BY <1>1, <1>2, SubSeqProperties

\* What is put behind a sequence does not change its front.
LEMMA FrontOfConcat ==
  ASSUME NEW S, NEW s \in Seq(S), NEW t \in Seq(S), NEW k \in 0..Len(s)
  PROVE  SubSeq(s \o t, 1, k) = SubSeq(s, 1, k)
<1>1. CASE k = 0
  BY <1>1, SubSeqEmpty
<1>2. CASE k # 0
  <2>1. k \in 1..Len(s) /\ 1 \in 1..Len(s)
    BY <1>2, LenProperties
  <2> QED BY <2>1, SubSeqOfConcat1
<1> QED BY <1>1, <1>2

Regrouped(s, t, u) == (s \o t) \o u = s \o (t \o u)

\* Concatenation is associative.
LEMMA Regroup ==
  ASSUME NEW S, NEW s \in Seq(S), NEW t \in Seq(S), NEW u \in Seq(S)
  PROVE  Regrouped(s, t, u)
<1>1. s \o t \in Seq(S) /\ t \o u \in Seq(S)
  BY ConcatProperties
<1>2. (s \o t) \o u \in Seq(S) /\ s \o (t \o u) \in Seq(S)
  BY <1>1, ConcatProperties
<1>3. Len((s \o t) \o u) = Len(s \o (t \o u))
  BY <1>1
<1>4. \A i \in 1..Len((s \o t) \o u) : ((s \o t) \o u)[i] = (s \o (t \o u))[i]
  BY <1>1
<1>5. (s \o t) \o u = s \o (t \o u)
  BY <1>2, <1>3, <1>4, SeqEqual
<1> QED BY <1>5 DEF Regrouped

\* The two halves of a sequence.
LEMMA Halves ==
  ASSUME NEW S, NEW s \in Seq(S), NEW k \in 0..Len(s)
  PROVE  SubSeq(s, 1, k) \o SubSeq(s, k + 1, Len(s)) = s
<1>1. Len(s) \in Nat
  BY LenProperties
<1>2. 1 \in 1..Len(s) + 1 /\ k \in 1 - 1..Len(s) /\ Len(s) \in k..Len(s)
  BY <1>1
<1>3. SubSeq(s, 1, k) \o SubSeq(s, k + 1, Len(s)) = SubSeq(s, 1, Len(s))
  BY <1>2, ConcatAdjacentSubSeq
<1> QED BY <1>3, SubSeqFull

\* A sequence ends with its second half.
LEMMA EndsSelf ==
  ASSUME NEW S, NEW s \in Seq(S), NEW t \in Seq(S)
  PROVE  EndsWith(s \o t, t)
<1>1. Len(s) \in 0..Len(s) /\ Len(s) \in 0..Len(s \o t)
  BY LenProperties, ConcatProperties
<1>2. SubSeq(s \o t, 1, Len(s)) = s
  BY <1>1, FrontOfConcat, SubSeqFull
<1> QED BY <1>1, <1>2 DEF EndsWith

\* What is put behind both keeps the one the end of the other.
LEMMA EndsConcat ==
  ASSUME NEW S, NEW all \in Seq(S), NEW s \in Seq(S), NEW t \in Seq(S), EndsWith(all, s)
  PROVE  EndsWith(all \o t, s \o t)
<1>p. PICK k \in 0..Len(all) : all = SubSeq(all, 1, k) \o s
  BY DEF EndsWith
<1>h. PICK h : h = SubSeq(all, 1, k)
  OBVIOUS
<1>1. h \in Seq(S)
  BY <1>h, PartType
<1>2. all \o t = SubSeq(all, 1, k) \o (s \o t)
  <2>1. (h \o s) \o t = h \o (s \o t)
    <3>1. Regrouped(h, s, t)
      BY <1>1, Regroup
    <3> QED BY <3>1, Zenon DEF Regrouped
  <2> QED BY <1>p, <1>h, <2>1, Zenon
<1>3. SubSeq(all \o t, 1, k) = SubSeq(all, 1, k)
  BY FrontOfConcat
<1>4. k \in 0..Len(all \o t)
  BY LenProperties, ConcatProperties
<1> QED BY <1>2, <1>3, <1>4 DEF EndsWith

-----------------------------------------------------------------------------
(* write and Append.                                                       *)

\* write(2) leaves what is before the offset and moves the offset behind what it wrote.
LEMMA WrittenBefore ==
  ASSUME NEW S, NEW file \in Seq(S), NEW at \in 0..Len(file), NEW bytes \in Seq(S)
  PROVE  /\ Written(file, at, bytes) \in Seq(S)
         /\ at + Len(bytes) \in 0..Len(Written(file, at, bytes))
         /\ SubSeq(Written(file, at, bytes), 1, at + Len(bytes)) = SubSeq(file, 1, at) \o bytes
<1>p. PICK front, back : /\ front = SubSeq(file, 1, at) \o bytes
                         /\ back = SubSeq(file, at + Len(bytes) + 1, Len(file))
  OBVIOUS
<1>1. Len(bytes) \in Nat /\ Len(file) \in Nat /\ at \in Nat /\ at + Len(bytes) + 1 \in Nat \ {0}
  BY LenProperties
<1>2. SubSeq(file, 1, at) \in Seq(S) /\ Len(SubSeq(file, 1, at)) = at
  BY <1>1, PartType
<1>3. front \in Seq(S) /\ Len(front) = at + Len(bytes)
  BY <1>p, <1>2, ConcatProperties
<1>4. back \in Seq(S)
  BY <1>p, <1>1, PartType
<1>5. Written(file, at, bytes) = front \o back
  BY <1>p, <1>2, <1>4 DEF Written
<1>6. front \o back \in Seq(S) /\ Len(front \o back) = Len(front) + Len(back) /\ Len(back) \in Nat
  BY <1>3, <1>4, ConcatProperties, LenProperties
<1>7. SubSeq(front \o back, 1, Len(front)) = front
  <2>1. Len(front) \in 0..Len(front)
    BY <1>3, LenProperties
  <2> QED BY <1>3, <1>4, <2>1, FrontOfConcat, SubSeqFull
<1>8. at + Len(bytes) \in 0..Len(front \o back)
  BY <1>1, <1>3, <1>6
<1> QED BY <1>p, <1>3, <1>5, <1>6, <1>7, <1>8

\* Whichever of the three ways Append takes, what it writes and what it keeps are the
\* buffer and its data, and what it keeps does not fill the buffer.
LEMMA PiecesComplete ==
  ASSUME FileTypes, NEW data \in Seq(Bytes)
  PROVE  /\ Pieces(data).out \in Seq(Bytes) /\ Pieces(data).buf \in Seq(Bytes)
         /\ Pieces(data).out \o Pieces(data).buf = buf \o data
         /\ Len(Pieces(data).buf) < kAppendFileBufferSize
<1>p. PICK room, rest, full : /\ room = kAppendFileBufferSize - Len(buf)
                              /\ rest = SubSeq(data, room + 1, Len(data))
                              /\ full = buf \o SubSeq(data, 1, room)
  OBVIOUS
<1>t. buf \in Seq(Bytes) /\ Len(buf) < kAppendFileBufferSize
  BY DEF FileTypes
<1>1. /\ Len(buf) \in Nat /\ Len(data) \in Nat /\ kAppendFileBufferSize \in Nat \ {0}
      /\ room \in Nat \ {0}
  <2>1. Len(buf) \in Nat /\ Len(data) \in Nat /\ kAppendFileBufferSize \in Nat \ {0}
    BY <1>t, LenProperties, BufferAssumption
  <2> QED BY <1>p, <1>t, <2>1
<1>2. CASE room > Len(data)
  <2>1. Pieces(data) = [out |-> <<>>, buf |-> buf \o data]
    BY <1>p, <1>2 DEF Pieces
  <2>2. /\ buf \o data \in Seq(Bytes) /\ Len(buf \o data) = Len(buf) + Len(data)
        /\ <<>> \in Seq(Bytes)
    BY <1>t, ConcatProperties, EmptySeq
  <2>3. Len(buf) + Len(data) < kAppendFileBufferSize
    BY <1>p, <1>1, <1>2
  <2>4. <<>> \o (buf \o data) = buf \o data
    BY <2>2, ConcatEmptySeq
  <2> QED BY <2>1, <2>2, <2>3, <2>4
<1>3. CASE ~(room > Len(data))
  <2>1. room \in 0..Len(data)
    BY <1>1, <1>3
  <2>2. SubSeq(data, 1, room) \in Seq(Bytes)
    BY <1>1, <2>1, PartType
  <2>3. rest \in Seq(Bytes) /\ Len(rest) \in Nat
    <3>1. room + 1 \in Nat \ {0} /\ Len(data) \in 0..Len(data)
      BY <1>1
    <3> QED BY <1>p, <3>1, PartType, LenProperties
  <2>4. full \in Seq(Bytes)
    BY <1>p, <1>t, <2>2, ConcatProperties
  <2>5. full \o rest = buf \o data
    <3>1. SubSeq(data, 1, room) \o rest = data
      BY <1>p, <2>1, Halves
    <3>2. full \o rest = buf \o (SubSeq(data, 1, room) \o rest)
      <4>h. PICK h : h = SubSeq(data, 1, room)
        OBVIOUS
      <4>1. h \in Seq(Bytes)
        BY <2>2, <4>h, Zenon
      <4>2. (buf \o h) \o rest = buf \o (h \o rest)
        <5>1. Regrouped(buf, h, rest)
          BY <1>t, <2>3, <4>1, Regroup
        <5> QED BY <5>1, Zenon DEF Regrouped
      <4> QED BY <1>p, <4>h, <4>2, Zenon
    <3> QED BY <3>1, <3>2
  <2>6. CASE Len(rest) < kAppendFileBufferSize \div 4
    <3>1. Pieces(data) = [out |-> full, buf |-> rest]
      BY <1>p, <1>3, <2>6 DEF Pieces
    <3>2. Len(rest) < kAppendFileBufferSize
      <4>1. \A k \in Nat \ {0} : k \div 4 \in Nat /\ k \div 4 < k
        OBVIOUS
      <4> QED BY <1>1, <2>3, <2>6, <4>1
    <3> QED BY <2>3, <2>4, <2>5, <3>1, <3>2
  <2>7. CASE ~(Len(rest) < kAppendFileBufferSize \div 4)
    <3>1. Pieces(data) = [out |-> full \o rest, buf |-> <<>>]
      BY <1>p, <1>3, <2>7 DEF Pieces
    <3>2. full \o rest \in Seq(Bytes) /\ <<>> \in Seq(Bytes) /\ Len(<<>>) = 0
      BY <2>3, <2>4, ConcatProperties, EmptySeq
    <3>3. (full \o rest) \o <<>> = full \o rest /\ 0 < kAppendFileBufferSize
      BY <1>1, <3>2, ConcatEmptySeq
    <3> QED BY <2>5, <3>1, <3>2, <3>3
  <2> QED BY <2>6, <2>7
<1> QED BY <1>2, <1>3

-----------------------------------------------------------------------------
(* The invariant.                                                          *)

\* The step writes `out' at the offset and leaves `kept' in the buffer, which together are
\* the buffer and `data'.
Wrote(out, kept, data) ==
  /\ out \o kept = buf \o data /\ Len(kept) < kAppendFileBufferSize
  /\ content' = Written(content, offset, out) /\ offset' = offset + Len(out)
  /\ buf' = kept /\ since' = since \o data /\ appends' \in Nat

\* Such a step keeps the appended bytes in order.
LEMMA WriteStep ==
  ASSUME FileInv, NEW out \in Seq(Bytes), NEW kept \in Seq(Bytes), NEW data \in Seq(Bytes),
         Wrote(out, kept, data)
  PROVE  FileInv'
<1>t. /\ content \in Seq(Bytes) /\ buf \in Seq(Bytes) /\ since \in Seq(Bytes)
      /\ offset \in 0..Len(content)
  BY DEF FileInv, FileTypes
<1>b. buf \in Seq(Bytes)
  BY <1>t
<1>c. content \in Seq(Bytes) /\ offset \in 0..Len(content)
  BY <1>t
<1>h. PICK h : h = SubSeq(content, 1, offset)
  OBVIOUS
<1>1. /\ content' \in Seq(Bytes) /\ offset' \in 0..Len(content')
      /\ SubSeq(content', 1, offset') = h \o out
  <2>1. /\ Written(content, offset, out) \in Seq(Bytes)
        /\ offset + Len(out) \in 0..Len(Written(content, offset, out))
        /\ SubSeq(Written(content, offset, out), 1, offset + Len(out))
             = SubSeq(content, 1, offset) \o out
    BY <1>c, WrittenBefore
  <2> QED BY <1>h, <2>1, Zenon DEF Wrote
<1>2. h \in Seq(Bytes)
  BY <1>t, <1>h, PartType
<1>3. since \o data \in Seq(Bytes)
  BY <1>t, ConcatProperties
<1>4. FileTypes'
  BY <1>1, <1>3 DEF FileTypes, Wrote
<1>5. SubSeq(content', 1, offset') \o buf' = (h \o buf) \o data
  <2>1. (h \o out) \o kept = h \o (out \o kept)
    <3>1. Regrouped(h, out, kept)
      BY <1>2, Regroup
    <3> QED BY <3>1, Zenon DEF Regrouped
  <2>2. (h \o buf) \o data = h \o (buf \o data)
    <3>1. Regrouped(h, buf, data)
      BY <1>b, <1>2, Regroup
    <3> QED BY <3>1, Zenon DEF Regrouped
  <2> QED BY <1>1, <2>1, <2>2, Zenon DEF Wrote
<1>6. EndsWith((h \o buf) \o data, since \o data)
  <2>1. EndsWith(h \o buf, since)
    BY <1>h DEF FileInv, AppendsInOrder
  <2>2. h \o buf \in Seq(Bytes)
    BY <1>t, <1>2, ConcatProperties
  <2> QED BY <1>t, <2>1, <2>2, EndsConcat
<1>7. AppendsInOrder'
  BY <1>5, <1>6, Zenon DEF AppendsInOrder, Wrote
<1> QED BY <1>4, <1>7 DEF FileInv

\* A step that moves the offset starts the history again with what is in the buffer.
LEMMA SeekStep ==
  ASSUME FileInv, content' \in Seq(Bytes), offset' \in 0..Len(content'),
         buf' = buf, since' = buf, appends' = appends
  PROVE  FileInv'
<1>1. buf \in Seq(Bytes) /\ FileTypes'
  BY DEF FileInv, FileTypes
<1>2. SubSeq(content', 1, offset') \in Seq(Bytes)
  BY PartType
<1>3. AppendsInOrder'
  BY <1>1, <1>2, EndsSelf DEF AppendsInOrder
<1> QED BY <1>1, <1>3 DEF FileInv

\* The flush of FlushBuffer and Close: all of the buffer is written.
LEMMA FlushStep ==
  ASSUME FileInv, content' = Written(content, offset, buf), offset' = offset + Len(buf),
         buf' = <<>>, UNCHANGED <<since, appends>>
  PROVE  FileInv'
<1>1. buf \in Seq(Bytes) /\ since \in Seq(Bytes) /\ appends' \in Nat
  BY DEF FileInv, FileTypes
<1>2. <<>> \in Seq(Bytes) /\ Len(<<>>) < kAppendFileBufferSize
  BY EmptySeq, BufferAssumption
<1>3. since' = since \o <<>>
  BY <1>1, ConcatEmptySeq
<1>4. Wrote(buf, <<>>, <<>>)
  BY <1>1, <1>2, <1>3 DEF Wrote
<1> QED BY <1>1, <1>2, <1>4, WriteStep

\* The file is opened with an empty buffer.
LEMMA FileInvInit == FileInit => FileInv
<1> SUFFICES ASSUME FileInit PROVE FileInv
  OBVIOUS
<1>1. content = <<>> /\ buf = <<>> /\ since = <<>> /\ offset = 0 /\ appends = 0
  BY DEF FileInit
<1>2. <<>> \in Seq(Bytes) /\ Len(<<>>) = 0 /\ 0 < kAppendFileBufferSize
  BY EmptySeq, BufferAssumption
<1>3. FileTypes
  BY <1>1, <1>2 DEF FileTypes
<1>4. SubSeq(content, 1, offset) \in Seq(Bytes)
  BY <1>1, <1>2, PartType
<1>5. AppendsInOrder
  BY <1>1, <1>2, <1>4, EndsSelf DEF AppendsInOrder
<1> QED BY <1>3, <1>5 DEF FileInv

\* Every operation of the file keeps the appended bytes in order.
LEMMA FileInvNext == FileInv /\ [FileNext]_fileVars => FileInv'
<1> SUFFICES ASSUME FileInv, [FileNext]_fileVars PROVE FileInv'
  OBVIOUS
<1>t. /\ content \in Seq(Bytes) /\ buf \in Seq(Bytes) /\ since \in Seq(Bytes)
      /\ offset \in 0..Len(content) /\ appends \in Nat /\ Len(content) \in Nat
  BY LenProperties DEF FileInv, FileTypes
<1>1. ASSUME NEW opened \in BOOLEAN, InitFile(opened) PROVE FileInv'
  <2>0. content' = content /\ buf' = buf /\ appends' = appends
    BY <1>1 DEF InitFile
  <2>1. CASE opened
    <3>1. offset' = 0 /\ since' = buf
      BY <1>1, <2>1, Zenon DEF InitFile
    <3>2. content' \in Seq(Bytes) /\ offset' \in 0..Len(content')
      BY <1>t, <2>0, <3>1
    <3> QED BY <2>0, <3>1, <3>2, SeekStep
  <2>2. CASE ~opened
    <3>1. offset' = offset /\ since' = since
      BY <1>1, <2>2, Zenon DEF InitFile
    <3> QED BY <2>0, <3>1 DEF FileInv, FileTypes, AppendsInOrder
  <2> QED BY <2>1, <2>2
<1>2. ASSUME NEW size \in 1..MaxSize, AppendBytes(size) PROVE FileInv'
  <2>p. PICK data : data = [i \in 1..size |-> <<appends + 1, i>>]
    OBVIOUS
  <2>1. data \in Seq(Bytes)
    <3>1. size \in Nat
      BY SizeAssumption
    <3>2. \A i \in 1..size : <<appends + 1, i>> \in Bytes
      BY <1>t, <3>1 DEF Bytes
    <3> QED BY <2>p, <3>1, <3>2
  <2>2. /\ content' = Written(content, offset, Pieces(data).out)
        /\ offset' = offset + Len(Pieces(data).out)
        /\ buf' = Pieces(data).buf /\ since' = since \o data
        /\ appends' = appends + 1
    BY <1>2, <2>p DEF AppendBytes
  <2>3. /\ Pieces(data).out \in Seq(Bytes) /\ Pieces(data).buf \in Seq(Bytes)
        /\ Pieces(data).out \o Pieces(data).buf = buf \o data
        /\ Len(Pieces(data).buf) < kAppendFileBufferSize
    BY <2>1, PiecesComplete DEF FileInv
  <2>4. appends' \in Nat
    BY <1>t, <2>2
  <2>5. Wrote(Pieces(data).out, Pieces(data).buf, data)
    BY <2>2, <2>3, <2>4 DEF Wrote
  <2> QED BY <2>1, <2>3, <2>5, WriteStep
<1>3. CASE FlushBuffer
  BY <1>3, FlushStep DEF FlushBuffer
<1>4. CASE Read
  <2>1. content' \in Seq(Bytes) /\ offset' \in 0..Len(content')
    BY <1>4, <1>t DEF Read
  <2> QED BY <1>4, <2>1, SeekStep DEF Read
<1>5. CASE Clear
  <2>1. content' \in Seq(Bytes) /\ offset' \in 0..Len(content')
    BY <1>5, EmptySeq DEF Clear
  <2> QED BY <1>5, <2>1, SeekStep DEF Clear
<1>6. CASE Close
  BY <1>6, FlushStep DEF Close
<1>7. CASE UNCHANGED fileVars
  BY <1>7 DEF fileVars, FileInv, FileTypes, AppendsInOrder
<1> QED BY <1>1, <1>2, <1>3, <1>4, <1>5, <1>6, <1>7 DEF FileNext

\* Append, FlushBuffer and Close of appendfile.cpp: for every buffer size and every
\* sequence of calls, the bytes appended since Init, Read or Clear last moved the
\* descriptor are in the file and the buffer in order, each of them once.
THEOREM AppendsCorrect == FileSpec => []AppendsInOrder
<1>1. FileInv => AppendsInOrder
  BY DEF FileInv
<1> QED BY <1>1, FileInvInit, FileInvNext, PTL DEF FileSpec

-----------------------------------------------------------------------------
(* XXHash64.                                                               *)

\* The lanes have whole blocks, and what they and the buffer have is the stream.
XXInv ==
  /\ state \in Seq(Nat) /\ buffer \in Seq(Nat) /\ totalLength \in Nat
  /\ state \o buffer = Stream(0, totalLength)
  /\ \E b \in Nat : Len(state) = 32 * b
  /\ Len(buffer) < 32

\* A sequence is its first part, its second part and the rest.
LEMMA Thirds ==
  ASSUME NEW S, NEW s \in Seq(S), NEW j \in 0..Len(s), NEW k \in j..Len(s)
  PROVE  SubSeq(s, 1, j) \o SubSeq(s, j + 1, k) = SubSeq(s, 1, k)
<1>1. Len(s) \in Nat
  BY LenProperties
<1>2. 1 \in 1..Len(s) + 1 /\ j \in 1 - 1..Len(s) /\ k \in j..Len(s)
  BY <1>1
<1> QED BY <1>2, ConcatAdjacentSubSeq

\* A piece of the stream is a sequence of places.
LEMMA StreamType ==
  ASSUME NEW q \in Nat, NEW length \in Nat
  PROVE  Stream(q, length) \in Seq(Nat) /\ Len(Stream(q, length)) = length
BY DEF Stream

\* Two pieces of the stream that follow each other are one.
LEMMA StreamConcat ==
  ASSUME NEW q \in Nat, NEW length \in Nat
  PROVE  Stream(0, q) \o Stream(q, length) = Stream(0, q + length)
<1>1. Stream(0, q) \in Seq(Nat) /\ Len(Stream(0, q)) = q
  BY StreamType
<1>2. Stream(q, length) \in Seq(Nat) /\ Len(Stream(q, length)) = length
  BY StreamType
<1>3. Stream(0, q + length) \in Seq(Nat) /\ Len(Stream(0, q + length)) = q + length
  BY StreamType
<1>4. /\ Stream(0, q) \o Stream(q, length) \in Seq(Nat)
      /\ Len(Stream(0, q) \o Stream(q, length)) = q + length
      /\ \A h \in 1..q + length : (Stream(0, q) \o Stream(q, length))[h]
           = IF h <= q THEN Stream(0, q)[h] ELSE Stream(q, length)[h - q]
  <2>p. PICK s, t : s = Stream(0, q) /\ t = Stream(q, length)
    OBVIOUS
  <2>1. s \in Seq(Nat) /\ Len(s) = q /\ t \in Seq(Nat) /\ Len(t) = length
    BY <1>1, <1>2, <2>p
  <2>2. /\ s \o t \in Seq(Nat) /\ Len(s \o t) = Len(s) + Len(t)
        /\ \A h \in 1..Len(s) + Len(t) : (s \o t)[h] = IF h <= Len(s) THEN s[h] ELSE t[h - Len(s)]
    BY <2>1, ConcatProperties
  <2> QED BY <2>p, <2>1, <2>2
<1>5. \A h \in 1..q + length : (Stream(0, q) \o Stream(q, length))[h] = Stream(0, q + length)[h]
  <2>1. \A h \in 1..q : Stream(0, q)[h] = h - 1
    BY DEF Stream
  <2>2. \A h \in 1..length : Stream(q, length)[h] = q + h - 1
    BY DEF Stream
  <2>3. \A h \in 1..q + length : Stream(0, q + length)[h] = h - 1
    BY DEF Stream
  <2> SUFFICES ASSUME NEW h \in 1..q + length
               PROVE  (IF h <= q THEN Stream(0, q)[h] ELSE Stream(q, length)[h - q]) = h - 1
    BY <1>4, <2>3
  <2>4. CASE h <= q
    BY <2>1, <2>4
  <2>5. CASE ~(h <= q)
    <3>1. h - q \in 1..length /\ q + (h - q) - 1 = h - 1
      BY <2>5
    <3> QED BY <2>2, <2>5, <3>1
  <2> QED BY <2>4, <2>5
<1> QED BY <1>3, <1>4, <1>5, SeqEqual

\* The two parts of hash() use the buffer up.
LEMMA DigestIsBuffer ==
  ASSUME buffer \in Seq(Nat)
  PROVE  Digest = buffer
<1>p. PICK e, words, rest : /\ e = 8 * Eights /\ words = SubSeq(buffer, 1, 8 * Eights)
                            /\ rest = SubSeq(buffer, 8 * Eights + 1, Len(buffer))
  OBVIOUS
<1>1. Len(buffer) \in Nat
  BY LenProperties
<1>2. e \in 0..Len(buffer)
  BY <1>p, <1>1 DEF Eights
<1>3. words \o rest = buffer /\ rest = Rest
  BY <1>p, <1>2, Halves DEF Rest
<1>4. words \in Seq(Nat) /\ rest \in Seq(Nat)
  <2>1. 1 \in Nat \ {0} /\ e + 1 \in Nat \ {0} /\ Len(buffer) \in 0..Len(buffer)
    BY <1>1, <1>2
  <2> QED BY <1>p, <1>2, <2>1, PartType
<1>p2. PICK half : half = IF Len(rest) >= 4 THEN SubSeq(rest, 1, 4) ELSE <<>>
  OBVIOUS
<1>5. half \in Seq(Nat) /\ half \o SubSeq(rest, Len(half) + 1, Len(rest)) = rest
      /\ SubSeq(rest, Len(half) + 1, Len(rest)) \in Seq(Nat)
  <2>1. Len(rest) \in Nat
    BY <1>4, LenProperties
  <2>2. CASE Len(rest) >= 4
    <3>1. 4 \in 0..Len(rest) /\ Len(rest) \in 0..Len(rest)
      BY <2>1, <2>2
    <3>2. half = SubSeq(rest, 1, 4) /\ half \in Seq(Nat) /\ Len(half) = 4
      BY <1>4, <1>p2, <2>2, <3>1, PartType
    <3>3. SubSeq(rest, 5, Len(rest)) \in Seq(Nat)
      BY <1>4, <3>1, PartType
    <3>4. SubSeq(rest, 1, 4) \o SubSeq(rest, 5, Len(rest)) = rest
      BY <1>4, <3>1, Halves
    <3> QED BY <3>2, <3>3, <3>4
  <2>3. CASE ~(Len(rest) >= 4)
    <3>1. half = <<>> /\ Len(half) = 0 /\ half \in Seq(Nat)
      BY <1>p2, <2>3, EmptySeq
    <3>2. SubSeq(rest, 1, Len(rest)) = rest /\ <<>> \o rest = rest
      BY <1>4, SubSeqFull, ConcatEmptySeq
    <3> QED BY <1>4, <3>1, <3>2
  <2> QED BY <2>2, <2>3
<1>p3. PICK tail : tail = SubSeq(rest, Len(half) + 1, Len(rest))
  OBVIOUS
<1>6. Digest = words \o half \o tail
  BY <1>3, <1>p, <1>p2, <1>p3 DEF Digest
<1>7. tail \in Seq(Nat) /\ half \o tail = rest
  BY <1>5, <1>p3
<1>8. (words \o half) \o tail = words \o (half \o tail)
  <2>1. half \in Seq(Nat)
    BY <1>5
  <2>2. words \in Seq(Nat) /\ tail \in Seq(Nat)
    BY <1>4, <1>7
  <2>3. Regrouped(words, half, tail)
    BY <2>1, <2>2, Regroup
  <2> QED BY <2>3, Zenon DEF Regrouped
<1> QED BY <1>3, <1>6, <1>7, <1>8

\* The invariant is what the property says of the lanes, the buffer and hash().
LEMMA XXInvImplies == XXInv => HashOfBytesInOrder
<1> SUFFICES ASSUME XXInv PROVE HashOfBytesInOrder
  OBVIOUS
<1>t. state \in Seq(Nat) /\ buffer \in Seq(Nat) /\ totalLength \in Nat /\ Len(buffer) < 32
  BY DEF XXInv
<1>1. state \o Digest = Stream(0, totalLength)
  BY <1>t, DigestIsBuffer DEF XXInv
<1>2. totalLength = Len(state) + Len(buffer) /\ Len(state) \in Nat /\ Len(buffer) \in Nat
  <2>1. Len(state \o buffer) = Len(state) + Len(buffer)
    BY <1>t, ConcatProperties
  <2>2. Len(Stream(0, totalLength)) = totalLength
    BY <1>t, StreamType
  <2> QED BY <1>t, <2>1, <2>2, LenProperties DEF XXInv
<1>3. PICK b \in Nat : Len(state) = 32 * b
  BY DEF XXInv
<1>4. totalLength >= 32 <=> Len(state) # 0
  BY <1>t, <1>2, <1>3
<1>5. Len(state) # 0 <=> state # <<>>
  BY <1>t, EmptySeq
<1>6. Len(state) % 32 = 0
  BY <1>3
<1> QED BY <1>t, <1>1, <1>4, <1>5, <1>6 DEF HashOfBytesInOrder, UsesLanes, MaxBufferSize

\* The stream is empty at first.
LEMMA XXStart == XXInit => XXInv
<1> SUFFICES ASSUME XXInit PROVE XXInv
  OBVIOUS
<1>1. state = <<>> /\ buffer = <<>> /\ totalLength = 0 /\ <<>> \in Seq(Nat) /\ Len(<<>>) = 0
  BY EmptySeq DEF XXInit
<1>2. Stream(0, 0) = <<>>
  BY DEF Stream
<1>3. <<>> \o <<>> = <<>>
  BY <1>1, ConcatEmptySeq
<1>4. Len(state) = 32 * 0 /\ 0 \in Nat
  BY <1>1
<1> QED BY <1>1, <1>2, <1>3, <1>4 DEF XXInv

\* add(): a piece that fits is buffered; otherwise it fills the buffer up to a block, its
\* own whole blocks follow, and the rest is buffered.
LEMMA XXAdd ==
  ASSUME XXInv, NEW length \in Nat, Add(length)
  PROVE  XXInv'
<1>t. state \in Seq(Nat) /\ buffer \in Seq(Nat) /\ totalLength \in Nat
  BY DEF XXInv
<1>n. /\ Len(state) \in Nat /\ Len(buffer) \in Nat /\ Len(buffer) < 32 /\ length > 0
  BY <1>t, LenProperties DEF XXInv, Add
<1>b. PICK b \in Nat : Len(state) = 32 * b
  BY DEF XXInv
<1>p. PICK data, fill, taken :
        /\ data = Stream(totalLength, length)
        /\ fill = (IF Len(buffer) > 0 THEN MaxBufferSize - Len(buffer) ELSE 0)
        /\ taken = fill + Blocks(length - fill) * MaxBufferSize
  OBVIOUS
<1>1. data \in Seq(Nat) /\ Len(data) = length
  BY <1>t, <1>p, StreamType
<1>2. totalLength' = totalLength + length /\ totalLength' \in Nat
  BY <1>t DEF Add
<1>3. (state \o buffer) \o data = Stream(0, totalLength')
  BY <1>t, <1>p, <1>2, StreamConcat DEF XXInv
<1>4. CASE Fits(length)
  <2>1. buffer' = buffer \o data /\ state' = state
    BY <1>4, <1>p DEF Add
  <2>2. buffer \o data \in Seq(Nat) /\ Len(buffer \o data) = Len(buffer) + length
    BY <1>t, <1>1, ConcatProperties
  <2>3. Len(buffer) + length < 32
    BY <1>4 DEF Fits, MaxBufferSize
  <2>4. (state \o buffer) \o data = state \o (buffer \o data)
    <3>1. Regrouped(state, buffer, data)
      BY <1>t, <1>1, Regroup
    <3> QED BY <3>1, Zenon DEF Regrouped
  <2>5. state' \o buffer' = Stream(0, totalLength')
    BY <1>3, <2>1, <2>4
  <2> QED BY <1>t, <1>b, <1>2, <2>1, <2>2, <2>3, <2>5 DEF XXInv
<1>5. CASE ~Fits(length)
  <2>p. PICK head, blocks, last :
          /\ head = (IF Len(buffer) > 0 THEN buffer \o SubSeq(data, 1, fill) ELSE <<>>)
          /\ blocks = SubSeq(data, fill + 1, taken)
          /\ last = SubSeq(data, taken + 1, length)
    OBVIOUS
  <2>1. state' = (state \o head) \o blocks /\ buffer' = last
    BY <1>5, <1>p, <2>p DEF Add
  <2>2. Len(buffer) + length >= 32
    BY <1>5, <1>n DEF Fits, MaxBufferSize
  <2>3. PICK z \in Nat : /\ fill \in 0..length /\ taken = fill + z * 32
                         /\ taken \in fill..length /\ length - taken < 32
    <3>1. fill \in Nat /\ fill <= length
      BY <1>n, <1>p, <2>2 DEF MaxBufferSize
    <3>2. \A y \in Nat : y \div 32 \in Nat /\ (y \div 32) * 32 <= y /\ y - (y \div 32) * 32 < 32
      OBVIOUS
    <3>3. length - fill \in Nat
      BY <3>1
    <3>4. PICK z \in Nat : z = Blocks(length - fill)
      BY <3>2, <3>3 DEF Blocks, MaxBufferSize
    <3>5. z * 32 <= length - fill /\ length - fill - z * 32 < 32
      BY <3>2, <3>3, <3>4 DEF Blocks, MaxBufferSize
    <3>6. taken = fill + z * 32
      BY <1>p, <3>4 DEF MaxBufferSize
    <3> QED BY <3>1, <3>4, <3>5, <3>6
  <2>4. /\ head \in Seq(Nat) /\ SubSeq(data, 1, fill) \in Seq(Nat)
        /\ head = buffer \o SubSeq(data, 1, fill)
        /\ Len(head) = 32 \/ Len(head) = 0
    <3>1. SubSeq(data, 1, fill) \in Seq(Nat) /\ Len(SubSeq(data, 1, fill)) = fill
      BY <1>1, <2>3, PartType
    <3>2. CASE Len(buffer) > 0
      <4>1. head = buffer \o SubSeq(data, 1, fill)
        BY <2>p, <3>2
      <4>2. head \in Seq(Nat) /\ Len(head) = Len(buffer) + fill
        BY <1>t, <3>1, <4>1, ConcatProperties
      <4>3. Len(buffer) + fill = 32
        BY <1>n, <1>p, <3>2 DEF MaxBufferSize
      <4> QED BY <3>1, <4>1, <4>2, <4>3
    <3>3. CASE ~(Len(buffer) > 0)
      <4>1. buffer = <<>> /\ fill = 0 /\ head = <<>>
        BY <1>t, <1>n, <1>p, <2>p, <3>3, EmptySeq
      <4>2. SubSeq(data, 1, fill) = <<>>
        BY <3>1, <4>1, EmptySeq
      <4>3. <<>> \in Seq(Nat) /\ Len(<<>>) = 0 /\ <<>> \o <<>> = <<>>
        BY EmptySeq, ConcatEmptySeq
      <4> QED BY <3>1, <4>1, <4>2, <4>3
    <3> QED BY <3>2, <3>3
  <2>5. blocks \in Seq(Nat) /\ Len(blocks) = z * 32 /\ last \in Seq(Nat) /\ Len(last) < 32
    <3>1. /\ fill + 1 \in Nat \ {0} /\ taken \in 0..Len(data)
          /\ taken + 1 \in Nat \ {0} /\ length \in 0..Len(data)
      BY <1>1, <2>3
    <3>2. blocks \in Seq(Nat) /\ Len(blocks) = IF fill + 1 <= taken THEN taken - (fill + 1) + 1 ELSE 0
      BY <1>1, <2>p, <3>1, PartType
    <3>3. last \in Seq(Nat) /\ Len(last) = IF taken + 1 <= length THEN length - (taken + 1) + 1 ELSE 0
      BY <1>1, <2>p, <3>1, PartType
    <3>4. Len(blocks) = z * 32 /\ Len(last) < 32
      BY <2>3, <3>2, <3>3
    <3> QED BY <3>2, <3>3, <3>4
  <2>6. state' \in Seq(Nat) /\ Len(state') = Len(state) + Len(head) + Len(blocks)
    <3>1. state \o head \in Seq(Nat) /\ Len(state \o head) = Len(state) + Len(head)
      BY <1>t, <2>4, ConcatProperties
    <3>2. PICK u : u = state \o head
      OBVIOUS
    <3>3. u \in Seq(Nat) /\ Len(u) = Len(state) + Len(head)
      BY <3>1, <3>2
    <3>4. u \o blocks \in Seq(Nat) /\ Len(u \o blocks) = Len(u) + Len(blocks)
      BY <2>5, <3>3, ConcatProperties
    <3> QED BY <2>1, <3>2, <3>3, <3>4
  <2>7. \E y \in Nat : Len(state') = 32 * y
    <3>1. b \in Nat /\ z \in Nat
      BY <1>b, <2>3
    <3>2. Len(state) = 32 * b /\ Len(blocks) = z * 32 /\ (Len(head) = 32 \/ Len(head) = 0)
      BY <1>b, <2>4, <2>5
    <3>3. Len(state') = 32 * (b + 1 + z) \/ Len(state') = 32 * (b + z)
      <4>1. Len(state') = 32 * b + 32 + z * 32 \/ Len(state') = 32 * b + 0 + z * 32
        BY <2>6, <3>2, Zenon
      <4>2. 32 * b + 32 + z * 32 = 32 * (b + 1 + z) /\ 32 * b + 0 + z * 32 = 32 * (b + z)
        BY <3>1
      <4> QED BY <4>1, <4>2, Zenon
    <3>4. b + 1 + z \in Nat /\ b + z \in Nat
      BY <3>1
    <3> QED BY <3>3, <3>4, Zenon
  <2>8. state' \o buffer' = (state \o buffer) \o data
    <3>p. PICK first : first = SubSeq(data, 1, fill)
      OBVIOUS
    <3>1. first \in Seq(Nat) /\ head = buffer \o first
      BY <2>4, <3>p
    <3>2. (first \o blocks) \o last = data
      <4>1. taken \in 0..Len(data) /\ fill \in 0..Len(data) /\ taken \in fill..Len(data)
        BY <1>1, <2>3
      <4>2. SubSeq(data, 1, fill) \o SubSeq(data, fill + 1, taken) = SubSeq(data, 1, taken)
        BY <1>1, <4>1, Thirds
      <4>3. SubSeq(data, 1, taken) \o SubSeq(data, taken + 1, Len(data)) = data
        BY <1>1, <4>1, Halves
      <4> QED BY <1>1, <2>p, <3>p, <4>2, <4>3, Zenon
    <3>3. first \o blocks \in Seq(Nat) /\ state \o buffer \in Seq(Nat)
      BY <1>t, <2>5, <3>1, ConcatProperties
    <3>4. state \o (buffer \o first) = (state \o buffer) \o first
      <4>1. Regrouped(state, buffer, first)
        BY <1>t, <3>1, Regroup
      <4> QED BY <4>1, Zenon DEF Regrouped
    <3>q. PICK old, gone : old = state \o buffer /\ gone = first \o blocks
      OBVIOUS
    <3>t. old \in Seq(Nat) /\ first \in Seq(Nat) /\ blocks \in Seq(Nat)
      BY <2>5, <3>1, <3>3, <3>q
    <3>u. gone \in Seq(Nat) /\ last \in Seq(Nat)
      BY <2>5, <3>3, <3>q
    <3>v. old \in Seq(Nat)
      BY <3>t
    <3>5. (old \o first) \o blocks = old \o (first \o blocks)
      <4>1. Regrouped(old, first, blocks)
        BY <3>t, Regroup
      <4> QED BY <4>1, Zenon DEF Regrouped
    <3>6. (old \o gone) \o last = old \o (gone \o last)
      <4>1. Regrouped(old, gone, last)
        BY <3>u, <3>v, Regroup
      <4> QED BY <4>1, Zenon DEF Regrouped
    <3> QED BY <2>1, <3>1, <3>2, <3>4, <3>5, <3>6, <3>q, Zenon
  <2> QED BY <1>2, <1>3, <2>1, <2>5, <2>6, <2>7, <2>8 DEF XXInv
<1> QED BY <1>4, <1>5

\* add() and hash() of xxhash64.hpp: into whatever pieces the input is cut, the blocks
\* processed and what hash() eats of the buffer are the input, every byte once and in
\* order, and the lanes are folded in exactly when a block has gone into them.
THEOREM HashCorrect == XXSpec => []HashOfBytesInOrder
<1>1. XXInv /\ [XXNext]_xxVars => XXInv'
  <2> SUFFICES ASSUME XXInv, [XXNext]_xxVars PROVE XXInv'
    OBVIOUS
  <2>1. CASE UNCHANGED xxVars
    BY <2>1 DEF xxVars, XXInv
  <2>2. ASSUME NEW length \in 1..MaxPiece, Add(length) PROVE XXInv'
    BY <2>2, XXAdd
  <2> QED BY <2>1, <2>2 DEF XXNext
<1> QED BY <1>1, XXStart, XXInvImplies, PTL DEF XXSpec

-----------------------------------------------------------------------------
(* Crc32.                                                                  *)

\* The terms of the bytes J in the CRC of the first q bytes; the crc that is extended
\* stands before the first.
Place(j) == IF j = Before THEN 0 ELSE j
Sum(q, J) == {<<j, q - Place(j)>> : j \in J}

\* The four partial results share the bytes up to the read position out between them, each
\* as if the data ended a word earlier than for the next one and the last one's at p.
Dealt(lane) ==
  /\ lane \in [0..3 -> SUBSET Int]
  /\ \A i, j \in 0..3 : i # j => lane[i] \cap lane[j] = {}
  /\ UNION {lane[i] : i \in 0..3} = Before..p - 1
  /\ \A i \in 0..3 : crc[i] = Sum(p - 16 + 4 * i, lane[i])

CrcInv ==
  /\ n \in Nat /\ base \in 0..3 /\ p \in 0..n
  /\ pc \in {"idle", "align", "load", "swaths", "words", "combine", "bytes", "done"}
  /\ pc \in {"align", "load", "bytes", "done"} => l = Sum(p, Before..p - 1)
  /\ pc = "align" => p <= RoundUp(base)
  /\ pc = "load" => n - p >= 16
  /\ pc \in {"load", "swaths", "words"} => (base + p) % 4 = 0
  /\ pc \in {"swaths", "words", "combine"} => \E lane : Dealt(lane)
  /\ pc = "done" => p = n

\* A table lookup moves every term further from the end.
LEMMA SumTimes ==
  ASSUME NEW q \in Int, NEW d \in Int, NEW J \in SUBSET Int
  PROVE  Times(Sum(q, J), d) = Sum(q + d, J)
<1>r. PICK r \in Int : r = q + d
  OBVIOUS
<1>1. \A j \in J : Place(j) \in Int /\ q - Place(j) + d = r - Place(j)
  BY <1>r DEF Before, Place
<1>2. \A j \in J : <<j, q - Place(j) + d>> = <<j, r - Place(j)>>
  BY <1>1
<1>3. ASSUME NEW x PROVE x \in Times(Sum(q, J), d) <=> x \in Sum(r, J)
  <2>1. ASSUME x \in Times(Sum(q, J), d) PROVE x \in Sum(r, J)
    <3>1. PICK t \in Sum(q, J) : x = <<t[1], t[2] + d>>
      BY <2>1 DEF Times
    <3>2. PICK j \in J : t = <<j, q - Place(j)>>
      BY DEF Sum
    <3>3. x = <<j, q - Place(j) + d>>
      BY <3>1, <3>2
    <3>4. x = <<j, r - Place(j)>>
      BY <1>2, <3>3
    <3> QED BY <3>4 DEF Sum
  <2>2. ASSUME x \in Sum(r, J) PROVE x \in Times(Sum(q, J), d)
    <3>1. PICK j \in J : x = <<j, r - Place(j)>>
      BY <2>2 DEF Sum
    <3>2. PICK t : t = <<j, q - Place(j)>>
      OBVIOUS
    <3>3. t \in Sum(q, J) /\ t[1] = j /\ t[2] = q - Place(j)
      BY <3>2 DEF Sum
    <3>4. x = <<t[1], t[2] + d>>
      BY <1>2, <3>1, <3>3
    <3> QED BY <3>3, <3>4 DEF Times
  <2> QED BY <2>1, <2>2
<1>4. Times(Sum(q, J), d) = Sum(r, J)
  BY <1>3
<1> QED BY <1>r, <1>4

\* XOR of the terms of different bytes loses none.
LEMMA SumXor ==
  ASSUME NEW q \in Int, NEW J \in SUBSET Int, NEW K \in SUBSET Int, J \cap K = {}
  PROVE  Xor(Sum(q, J), Sum(q, K)) = Sum(q, J \cup K)
<1> DEFINE T(j) == <<j, q - Place(j)>>
<1>1. \A j, i : T(j) = T(i) => j = i
  OBVIOUS
<1>2. \A D : Sum(q, D) = {T(j) : j \in D}
  BY DEF Sum
<1> HIDE DEF T
<1>3. Sum(q, J) \cap Sum(q, K) = {}
  <2> SUFFICES ASSUME NEW x \in Sum(q, J), x \in Sum(q, K) PROVE FALSE
    OBVIOUS
  <2>1. PICK j \in J : x = T(j)
    BY <1>2
  <2>2. PICK i \in K : x = T(i)
    BY <1>2
  <2> QED BY <1>1, <2>1, <2>2
<1>4. Sum(q, J \cup K) = Sum(q, J) \cup Sum(q, K)
  BY <1>2
<1> QED BY <1>3, <1>4 DEF Xor

\* The terms of a word and of a byte at the read position.
LEMMA SumWord ==
  ASSUME NEW q \in Nat
  PROVE  ReadUint32LE(q) = Sum(q, q..q + 3) /\ {<<q, 0>>} = Sum(q, {q}) /\ Sum(q, {}) = {}
<1>1. \A i \in 0..3 : q + i \in q..q + 3 /\ q - (q + i) = -i /\ q + i # Before
  BY DEF Before
<1>2. \A j \in q..q + 3 : \E i \in 0..3 : j = q + i
  <2> SUFFICES ASSUME NEW j \in q..q + 3 PROVE \E i \in 0..3 : j = q + i
    OBVIOUS
  <2>1. j - q \in 0..3 /\ j = q + (j - q)
    OBVIOUS
  <2> QED BY <2>1
<1>3. \A i \in 0..3 : <<q + i, -i>> = <<q + i, q - Place(q + i)>>
  BY <1>1 DEF Place
<1>4. ReadUint32LE(q) = Sum(q, q..q + 3)
  BY <1>1, <1>2, <1>3 DEF ReadUint32LE, Sum
<1>5. q - q = 0 /\ q # Before
  BY DEF Before
<1> QED BY <1>4, <1>5 DEF Sum, Place

\* One byte more.
LEMMA SumByte ==
  ASSUME NEW q \in Nat
  PROVE  Step1(Sum(q, Before..q - 1), q) = Sum(q + 1, Before..q)
<1>1. Before..q - 1 \in SUBSET Int /\ {q} \in SUBSET Int /\ (Before..q - 1) \cap {q} = {}
      /\ (Before..q - 1) \cup {q} = Before..q /\ q \in Int /\ 1 \in Int
  BY DEF Before
<1>2. Xor(Sum(q, Before..q - 1), {<<q, 0>>}) = Sum(q, Before..q)
  <2>1. Xor(Sum(q, Before..q - 1), Sum(q, {q})) = Sum(q, (Before..q - 1) \cup {q})
    BY <1>1, SumXor
  <2>2. {<<q, 0>>} = Sum(q, {q})
    BY SumWord
  <2> QED BY <1>1, <2>1, <2>2
<1>3. Before..q \in SUBSET Int
  BY DEF Before
<1> QED BY <1>1, <1>2, <1>3, SumTimes DEF Step1, ByteExtension

\* One word more for a partial result that stands at q: 16 bytes later it stands there
\* again.
LEMMA SumStride ==
  ASSUME NEW q \in Nat, NEW J \in SUBSET Int, J \cap (q..q + 3) = {}
  PROVE  Step4(Sum(q - 16, J), q) = Sum(q, J \cup (q..q + 3))
<1>1. q - 16 \in Int /\ q \in Int /\ 16 \in Int /\ q - 16 + 16 = q /\ q..q + 3 \in SUBSET Int
  OBVIOUS
<1>2. StrideExtension(Sum(q - 16, J)) = Sum(q, J)
  BY <1>1, SumTimes DEF StrideExtension
<1>3. Xor(Sum(q, q..q + 3), Sum(q, J)) = Sum(q, (q..q + 3) \cup J)
  BY <1>1, SumXor
<1>4. (q..q + 3) \cup J = J \cup (q..q + 3)
  OBVIOUS
<1> QED BY <1>2, <1>3, <1>4, SumWord DEF Step4

\* Four byte steps take in a partial result that stands where the running CRC does.
LEMMA SumFold ==
  ASSUME NEW q \in Int, NEW J \in SUBSET Int, NEW K \in SUBSET Int, J \cap K = {}
  PROVE  Step4W(Sum(q, J), Sum(q, K)) = Sum(q + 4, J \cup K)
<1>1. Xor(Sum(q, K), Sum(q, J)) = Sum(q, K \cup J)
  BY SumXor
<1>2. K \cup J \in SUBSET Int /\ 4 \in Int /\ K \cup J = J \cup K
  OBVIOUS
<1>3. Times(Sum(q, K \cup J), 4) = Sum(q + 4, K \cup J)
  BY <1>2, SumTimes
<1> QED BY <1>1, <1>2, <1>3 DEF Step4W

-----------------------------------------------------------------------------
\* The first four words.
LEMMA LoadKeeps ==
  ASSUME CrcInv, Load16
  PROVE  CrcInv'
<1>1. /\ n \in Nat /\ base \in 0..3 /\ p \in Nat /\ n - p >= 16 /\ (base + p) % 4 = 0
      /\ l = Sum(p, Before..p - 1)
  BY DEF CrcInv, Load16
<1>2. /\ p' = p + 16 /\ pc' = "swaths" /\ n' = n /\ base' = base
      /\ crc' = [i \in 0..3 |-> IF i = 0 THEN Xor(ReadUint32LE(p), l) ELSE ReadUint32LE(p + i * 4)]
  BY DEF Load16
<1>3. PICK lane : lane = [i \in 0..3 |-> IF i = 0 THEN Before..p + 3 ELSE p + 4 * i..p + 4 * i + 3]
  OBVIOUS
<1>4. Dealt(lane)'
  <2>1. lane \in [0..3 -> SUBSET Int]
    BY <1>1, <1>3 DEF Before
  <2>2. \A i, j \in 0..3 : i # j => lane[i] \cap lane[j] = {}
    BY <1>1, <1>3 DEF Before
  <2>3. UNION {lane[i] : i \in 0..3} = Before..p' - 1
    <3>1. UNION {lane[i] : i \in 0..3} = lane[0] \cup lane[1] \cup lane[2] \cup lane[3]
      OBVIOUS
    <3>2. /\ lane[0] = Before..p + 3 /\ lane[1] = p + 4..p + 7
          /\ lane[2] = p + 8..p + 11 /\ lane[3] = p + 12..p + 15
      BY <1>1, <1>3
    <3>3. Before..p' - 1 = Before..p + 15
      BY <1>1, <1>2
    <3>4. (Before..p + 3) \cup (p + 4..p + 7) \cup (p + 8..p + 11) \cup (p + 12..p + 15) = Before..p + 15
      BY <1>1 DEF Before
    <3> QED BY <3>1, <3>2, <3>3, <3>4
  <2>4. \A i \in 0..3 : p' - 16 + 4 * i = p + 4 * i /\ p + 4 * i = p + i * 4
    BY <1>1, <1>2
  <2>5. crc'[0] = Sum(p, Before..p + 3)
    <3>1. /\ p..p + 3 \in SUBSET Int /\ Before..p - 1 \in SUBSET Int /\ p \in Int
          /\ (p..p + 3) \cap (Before..p - 1) = {}
          /\ (p..p + 3) \cup (Before..p - 1) = Before..p + 3
      BY <1>1 DEF Before
    <3>2. crc'[0] = Xor(Sum(p, p..p + 3), Sum(p, Before..p - 1))
      <4>1. crc'[0] = Xor(ReadUint32LE(p), l)
        BY <1>2
      <4>2. ReadUint32LE(p) = Sum(p, p..p + 3)
        BY <1>1, SumWord
      <4> QED BY <1>1, <4>1, <4>2
    <3>3. Xor(Sum(p, p..p + 3), Sum(p, Before..p - 1)) = Sum(p, (p..p + 3) \cup (Before..p - 1))
      BY <3>1, SumXor
    <3> QED BY <3>1, <3>2, <3>3
  <2>6. \A i \in 1..3 : crc'[i] = Sum(p + 4 * i, p + 4 * i..p + 4 * i + 3)
    <3> SUFFICES ASSUME NEW i \in 1..3 PROVE crc'[i] = Sum(p + 4 * i, p + 4 * i..p + 4 * i + 3)
      OBVIOUS
    <3>1. p + 4 * i \in Nat /\ crc'[i] = ReadUint32LE(p + 4 * i)
      BY <1>1, <1>2, <2>4
    <3> QED BY <3>1, SumWord
  <2>7. \A i \in 0..3 : crc'[i] = Sum(p' - 16 + 4 * i, lane[i])
    <3>1. CASE TRUE
      <4>1. p' - 16 + 4 * 0 = p /\ lane[0] = Before..p + 3
        BY <1>1, <1>2, <1>3
      <4>2. \A i \in 1..3 : p' - 16 + 4 * i = p + 4 * i /\ lane[i] = p + 4 * i..p + 4 * i + 3
        BY <1>1, <1>2, <1>3
      <4>3. \A i \in 0..3 : i = 0 \/ i \in 1..3
        OBVIOUS
      <4> QED BY <2>5, <2>6, <4>1, <4>2, <4>3
    <3> QED BY <3>1
  <2> QED BY <2>1, <2>2, <2>3, <2>7 DEF Dealt
<1>5. (base' + p') % 4 = 0 /\ p' \in 0..n'
  BY <1>1, <1>2
<1> QED BY <1>1, <1>2, <1>4, <1>5 DEF CrcInv

\* A stride, and the end of the strides.
LEMMA StrideKeeps ==
  ASSUME CrcInv, Step16
  PROVE  CrcInv'
<1>1. n \in Nat /\ base \in 0..3 /\ p \in 0..n /\ (base + p) % 4 = 0
  BY DEF CrcInv, Step16
<1>2. PICK lane : Dealt(lane)
  BY DEF CrcInv, Step16
<1>3. n' = n /\ base' = base
  BY DEF Step16
<1>4. CASE n - p >= 16
  <2>1. crc' = [i \in 0..3 |-> Step4(crc[i], p + i * 4)] /\ p' = p + 16 /\ pc' = "swaths"
    BY <1>4 DEF Step16
  <2>2. PICK more : more = [i \in 0..3 |-> lane[i] \cup (p + 4 * i..p + 4 * i + 3)]
    OBVIOUS
  <2>3. \A i \in 0..3 : \A j \in lane[i] : j \in Before..p - 1
    BY <1>2 DEF Dealt
  <2>4. \A i \in 0..3 : lane[i] \in SUBSET Int
    BY <1>2 DEF Dealt
  <2>5. \A i, j \in 0..3 : i # j => lane[i] \cap lane[j] = {}
    BY <1>2 DEF Dealt
  <2>6. more \in [0..3 -> SUBSET Int]
    BY <1>1, <2>2, <2>4
  <2>7. \A i, j \in 0..3 : i # j => more[i] \cap more[j] = {}
    <3>1. \A i, j \in 0..3 : i # j => (p + 4 * i..p + 4 * i + 3) \cap (p + 4 * j..p + 4 * j + 3) = {}
      BY <1>1
    <3>2. \A i, j \in 0..3 : lane[i] \cap (p + 4 * j..p + 4 * j + 3) = {}
      BY <1>1, <2>3 DEF Before
    <3> QED BY <2>2, <2>5, <3>1, <3>2
  <2>8. UNION {more[i] : i \in 0..3} = Before..p' - 1
    <3>1. UNION {lane[i] : i \in 0..3} = Before..p - 1
      BY <1>2 DEF Dealt
    <3>2. UNION {p + 4 * i..p + 4 * i + 3 : i \in 0..3} = p..p + 15
      <4>1. ASSUME NEW x, x \in UNION {p + 4 * i..p + 4 * i + 3 : i \in 0..3}
            PROVE  x \in p..p + 15
        <5>1. PICK i \in 0..3 : x \in p + 4 * i..p + 4 * i + 3
          BY <4>1
        <5> QED BY <1>1, <5>1
      <4>2. ASSUME NEW x \in p..p + 15
            PROVE  x \in UNION {p + 4 * i..p + 4 * i + 3 : i \in 0..3}
        <5>1. \E i \in 0..3 : x \in p + 4 * i..p + 4 * i + 3
          <6>1. x \in p + 4 * 0..p + 4 * 0 + 3 \/ x \in p + 4 * 1..p + 4 * 1 + 3
                  \/ x \in p + 4 * 2..p + 4 * 2 + 3 \/ x \in p + 4 * 3..p + 4 * 3 + 3
            BY <1>1
          <6>2. 0 \in 0..3 /\ 1 \in 0..3 /\ 2 \in 0..3 /\ 3 \in 0..3
            OBVIOUS
          <6> QED BY <6>1, <6>2, Zenon
        <5> QED BY <5>1, Zenon
      <4> QED BY <4>1, <4>2
    <3>3. UNION {more[i] : i \in 0..3} = (UNION {lane[i] : i \in 0..3}) \cup (UNION {p + 4 * i..p + 4 * i + 3 : i \in 0..3})
      BY <2>2
    <3>4. (Before..p - 1) \cup (p..p + 15) = Before..p' - 1
      BY <1>1, <2>1 DEF Before
    <3> QED BY <3>1, <3>2, <3>3, <3>4
  <2>9. \A i \in 0..3 : crc'[i] = Sum(p' - 16 + 4 * i, more[i])
    <3> SUFFICES ASSUME NEW i \in 0..3 PROVE crc'[i] = Sum(p' - 16 + 4 * i, more[i])
      OBVIOUS
    <3>1. PICK q \in Nat : q = p + 4 * i
      BY <1>1
    <3>2. q = p + i * 4 /\ p - 16 + 4 * i = q - 16 /\ p' - 16 + 4 * i = q
      BY <1>1, <2>1, <3>1
    <3>3. crc[i] = Sum(q - 16, lane[i])
      BY <1>2, <3>2 DEF Dealt
    <3>4. lane[i] \cap (q..q + 3) = {}
      BY <1>1, <2>3, <3>1 DEF Before
    <3>5. Step4(Sum(q - 16, lane[i]), q) = Sum(q, lane[i] \cup (q..q + 3))
      BY <2>4, <3>4, SumStride
    <3>6. crc'[i] = Step4(crc[i], q) /\ more[i] = lane[i] \cup (q..q + 3)
      BY <2>1, <2>2, <3>1, <3>2
    <3> QED BY <3>2, <3>3, <3>5, <3>6
  <2>10. Dealt(more)'
    BY <2>6, <2>7, <2>8, <2>9 DEF Dealt
  <2>11. (base' + p') % 4 = 0 /\ p' \in 0..n'
    BY <1>1, <1>3, <1>4, <2>1
  <2> QED BY <1>1, <1>3, <2>1, <2>10, <2>11 DEF CrcInv
<1>5. CASE ~(n - p >= 16)
  <2>1. pc' = "words" /\ crc' = crc /\ p' = p
    BY <1>5 DEF Step16
  <2>2. Dealt(lane)'
    BY <1>2, <2>1 DEF Dealt
  <2> QED BY <1>1, <1>3, <2>1, <2>2 DEF CrcInv
<1> QED BY <1>4, <1>5

\* A word for the first partial result and the rotation, and the end of the words.
LEMMA WordKeeps ==
  ASSUME CrcInv, StepWord
  PROVE  CrcInv'
<1>1. n \in Nat /\ base \in 0..3 /\ p \in 0..n /\ (base + p) % 4 = 0
  BY DEF CrcInv, StepWord
<1>2. PICK lane : Dealt(lane)
  BY DEF CrcInv, StepWord
<1>3. n' = n /\ base' = base
  BY DEF StepWord
<1>4. CASE n - p >= 4
  <2>1. /\ crc' = [i \in 0..3 |-> IF i = 3 THEN Step4(crc[0], p) ELSE crc[i + 1]]
        /\ p' = p + 4 /\ pc' = "words"
    BY <1>4 DEF StepWord
  <2>2. PICK more : more = [i \in 0..3 |-> IF i = 3 THEN lane[0] \cup (p..p + 3) ELSE lane[i + 1]]
    OBVIOUS
  <2>3. \A i \in 0..3 : \A j \in lane[i] : j \in Before..p - 1
    BY <1>2 DEF Dealt
  <2>4. \A i \in 0..3 : lane[i] \in SUBSET Int
    BY <1>2 DEF Dealt
  <2>5. \A i, j \in 0..3 : i # j => lane[i] \cap lane[j] = {}
    BY <1>2 DEF Dealt
  <2>m. more[0] = lane[1] /\ more[1] = lane[2] /\ more[2] = lane[3] /\ more[3] = lane[0] \cup (p..p + 3)
    BY <2>2
  <2>d. \A i \in 0..3 : lane[i] \cap (p..p + 3) = {}
    BY <1>1, <2>3 DEF Before
  <2>i. \A i \in 0..3 : i = 0 \/ i = 1 \/ i = 2 \/ i = 3
    OBVIOUS
  <2>6. more \in [0..3 -> SUBSET Int]
    <3>1. p..p + 3 \in SUBSET Int
      BY <1>1
    <3>2. \A i \in 0..3 : i + 1 \in 0..3 \/ i = 3
      OBVIOUS
    <3>3. \A i \in 0..3 : (IF i = 3 THEN lane[0] \cup (p..p + 3) ELSE lane[i + 1]) \in SUBSET Int
      BY <2>4, <3>1, <3>2
    <3> QED BY <2>2, <3>3
  <2>7. \A i, j \in 0..3 : i # j => more[i] \cap more[j] = {}
    <3>1. /\ lane[0] \cap lane[1] = {} /\ lane[0] \cap lane[2] = {} /\ lane[0] \cap lane[3] = {}
          /\ lane[1] \cap lane[2] = {} /\ lane[1] \cap lane[3] = {} /\ lane[2] \cap lane[3] = {}
          /\ lane[1] \cap (p..p + 3) = {} /\ lane[2] \cap (p..p + 3) = {} /\ lane[3] \cap (p..p + 3) = {}
      BY <2>5, <2>d
    <3>2. /\ more[0] \cap more[1] = {} /\ more[0] \cap more[2] = {} /\ more[0] \cap more[3] = {}
          /\ more[1] \cap more[2] = {} /\ more[1] \cap more[3] = {} /\ more[2] \cap more[3] = {}
      BY <2>m, <3>1
    <3> QED BY <2>i, <3>2
  <2>8. UNION {more[i] : i \in 0..3} = Before..p' - 1
    <3>1. UNION {lane[i] : i \in 0..3} = Before..p - 1
      BY <1>2 DEF Dealt
    <3>2. UNION {lane[i] : i \in 0..3} = lane[0] \cup lane[1] \cup lane[2] \cup lane[3]
      BY <2>i
    <3>3. UNION {more[i] : i \in 0..3} = more[0] \cup more[1] \cup more[2] \cup more[3]
      BY <2>i
    <3>4. (Before..p - 1) \cup (p..p + 3) = Before..p' - 1
      BY <1>1, <2>1 DEF Before
    <3> QED BY <2>m, <3>1, <3>2, <3>3, <3>4
  <2>9. \A i \in 0..3 : crc'[i] = Sum(p' - 16 + 4 * i, more[i])
    <3>1. crc'[3] = Step4(crc[0], p) /\ crc[0] = Sum(p - 16, lane[0])
      <4>1. p - 16 + 4 * 0 = p - 16
        BY <1>1
      <4> QED BY <1>2, <2>1, <4>1 DEF Dealt
    <3>2. Step4(Sum(p - 16, lane[0]), p) = Sum(p, lane[0] \cup (p..p + 3))
      <4>1. p \in Nat /\ lane[0] \in SUBSET Int /\ lane[0] \cap (p..p + 3) = {}
        BY <1>1, <2>4, <2>d
      <4> QED BY <4>1, SumStride
    <3>3. p' - 16 + 4 * 3 = p
      BY <1>1, <2>1
    <3>4. crc'[3] = Sum(p' - 16 + 4 * 3, more[3])
      BY <2>m, <3>1, <3>2, <3>3
    <3>5. ASSUME NEW i \in 0..2 PROVE crc'[i] = Sum(p' - 16 + 4 * i, more[i])
      <4>1. i + 1 \in 0..3 /\ i # 3 /\ i \in 0..3 /\ p - 16 + 4 * (i + 1) = p' - 16 + 4 * i
        BY <1>1, <2>1
      <4>2. crc[i + 1] = Sum(p - 16 + 4 * (i + 1), lane[i + 1])
        BY <1>2, <4>1 DEF Dealt
      <4>3. crc'[i] = crc[i + 1] /\ more[i] = lane[i + 1]
        BY <2>1, <2>2, <4>1
      <4> QED BY <4>1, <4>2, <4>3
    <3>6. \A i \in 0..3 : i \in 0..2 \/ i = 3
      OBVIOUS
    <3> QED BY <3>4, <3>5, <3>6
  <2>10. Dealt(more)'
    BY <2>6, <2>7, <2>8, <2>9 DEF Dealt
  <2>11. (base' + p') % 4 = 0 /\ p' \in 0..n'
    BY <1>1, <1>3, <1>4, <2>1
  <2> QED BY <1>1, <1>3, <2>1, <2>10, <2>11 DEF CrcInv
<1>5. CASE ~(n - p >= 4)
  <2>1. pc' = "combine" /\ crc' = crc /\ p' = p
    BY <1>5 DEF StepWord
  <2>2. Dealt(lane)'
    BY <1>2, <2>1 DEF Dealt
  <2> QED BY <1>1, <1>3, <2>1, <2>2 DEF CrcInv
<1> QED BY <1>4, <1>5

\* The partial results are folded together, each where it stands.
LEMMA CombineKeeps ==
  ASSUME CrcInv, Combine
  PROVE  CrcInv'
<1>1. n \in Nat /\ base \in 0..3 /\ p \in 0..n
  BY DEF CrcInv, Combine
<1>2. PICK lane : Dealt(lane)
  BY DEF CrcInv, Combine
<1>3. /\ n' = n /\ base' = base /\ p' = p /\ pc' = "bytes"
      /\ l' = Step4W(Step4W(Step4W(Step4W({}, crc[0]), crc[1]), crc[2]), crc[3])
  BY DEF Combine
<1>p. PICK a, b, c, d : a = lane[0] /\ b = lane[1] /\ c = lane[2] /\ d = lane[3]
  OBVIOUS
<1>4. a \in SUBSET Int /\ b \in SUBSET Int /\ c \in SUBSET Int /\ d \in SUBSET Int
  BY <1>2, <1>p DEF Dealt
<1>5. a \cap b = {} /\ (a \cup b) \cap c = {} /\ (a \cup b \cup c) \cap d = {}
  <2>1. \A i, j \in 0..3 : i # j => lane[i] \cap lane[j] = {}
    BY <1>2 DEF Dealt
  <2> QED BY <1>p, <2>1
<1>6. a \cup b \cup c \cup d = Before..p - 1
  <2>1. UNION {lane[i] : i \in 0..3} = Before..p - 1
    BY <1>2 DEF Dealt
  <2>2. \A i \in 0..3 : i = 0 \/ i = 1 \/ i = 2 \/ i = 3
    OBVIOUS
  <2>3. UNION {lane[i] : i \in 0..3} = lane[0] \cup lane[1] \cup lane[2] \cup lane[3]
    BY <2>2
  <2> QED BY <1>p, <2>1, <2>3
<1>7. crc[0] = Sum(p - 16, a) /\ crc[1] = Sum(p - 12, b) /\ crc[2] = Sum(p - 8, c) /\ crc[3] = Sum(p - 4, d)
  <2>1. /\ p - 16 + 4 * 0 = p - 16 /\ p - 16 + 4 * 1 = p - 12
        /\ p - 16 + 4 * 2 = p - 8 /\ p - 16 + 4 * 3 = p - 4
    BY <1>1
  <2>2. \A i \in 0..3 : crc[i] = Sum(p - 16 + 4 * i, lane[i])
    BY <1>2 DEF Dealt
  <2>3. /\ crc[0] = Sum(p - 16 + 4 * 0, a) /\ crc[1] = Sum(p - 16 + 4 * 1, b)
        /\ crc[2] = Sum(p - 16 + 4 * 2, c) /\ crc[3] = Sum(p - 16 + 4 * 3, d)
    BY <1>p, <2>2
  <2> QED BY <2>1, <2>3
<1>8. Step4W({}, crc[0]) = Sum(p - 12, a)
  <2>1. Sum(p - 16, {}) = {} /\ p - 16 \in Int /\ {} \in SUBSET Int /\ p - 16 + 4 = p - 12
    BY <1>1 DEF Sum
  <2>2. {} \cap a = {} /\ {} \cup a = a
    OBVIOUS
  <2>3. Step4W(Sum(p - 16, {}), Sum(p - 16, a)) = Sum(p - 16 + 4, {} \cup a)
    BY <1>4, <2>1, <2>2, SumFold
  <2> QED BY <1>7, <2>1, <2>2, <2>3
<1>9. Step4W(Sum(p - 12, a), crc[1]) = Sum(p - 8, a \cup b)
  <2>1. p - 12 \in Int /\ p - 12 + 4 = p - 8
    BY <1>1
  <2> QED BY <1>4, <1>5, <1>7, <2>1, SumFold
<1>10. Step4W(Sum(p - 8, a \cup b), crc[2]) = Sum(p - 4, a \cup b \cup c)
  <2>1. p - 8 \in Int /\ p - 8 + 4 = p - 4 /\ a \cup b \in SUBSET Int
    BY <1>1, <1>4
  <2> QED BY <1>4, <1>5, <1>7, <2>1, SumFold
<1>11. Step4W(Sum(p - 4, a \cup b \cup c), crc[3]) = Sum(p, a \cup b \cup c \cup d)
  <2>1. p - 4 \in Int /\ p - 4 + 4 = p /\ a \cup b \cup c \in SUBSET Int
    BY <1>1, <1>4
  <2> QED BY <1>4, <1>5, <1>7, <2>1, SumFold
<1>12. l' = Sum(p', Before..p' - 1)
  BY <1>3, <1>6, <1>8, <1>9, <1>10, <1>11
<1> QED BY <1>1, <1>3, <1>12 DEF CrcInv

\* Nothing has been read before the call.
LEMMA CrcStart == CrcInit => CrcInv
BY DEF CrcInit, CrcInv

\* The call, the loops over single bytes and the steps above.
LEMMA CrcStep == CrcInv /\ [CrcNext]_crcVars => CrcInv'
<1> SUFFICES ASSUME CrcInv, [CrcNext]_crcVars PROVE CrcInv'
  OBVIOUS
<1>t. n \in Nat /\ base \in 0..3 /\ p \in 0..n
  BY DEF CrcInv
<1>1. CASE Extend
  <2>1. n' \in Nat /\ base' \in 0..3 /\ p' = 0 /\ pc' = "align" /\ l' = {<<Before, 0>>}
    BY <1>1 DEF Extend
  <2>2. Sum(0, Before..0 - 1) = {<<Before, 0>>}
    <3>1. Before..0 - 1 = {Before}
      BY DEF Before
    <3> QED BY <3>1 DEF Sum, Place
  <2>3. p' <= RoundUp(base')
    <3>1. \A x \in 0..3 : 0 <= (4 - x) % 4
      OBVIOUS
    <3> QED BY <2>1, <3>1 DEF RoundUp
  <2> QED BY <2>1, <2>2, <2>3 DEF CrcInv
<1>2. CASE Align
  <2>1. l = Sum(p, Before..p - 1) /\ p <= RoundUp(base) /\ n' = n /\ base' = base
    BY <1>2 DEF CrcInv, Align
  <2>r. RoundUp(base) \in 0..3 /\ (base + RoundUp(base)) % 4 = 0
    BY <1>t DEF RoundUp
  <2>2. CASE RoundUp(base) <= n /\ p # RoundUp(base)
    <3>1. l' = Step1(l, p) /\ p' = p + 1 /\ pc' = "align"
      BY <1>2, <2>2 DEF Align
    <3>2. l' = Sum(p + 1, Before..p)
      BY <1>t, <2>1, <3>1, SumByte
    <3>3. p' - 1 = p /\ p' \in 0..n /\ p' <= RoundUp(base)
      BY <1>t, <2>1, <2>2, <2>r, <3>1
    <3> QED BY <1>t, <2>1, <3>1, <3>2, <3>3 DEF CrcInv
  <2>3. CASE ~(RoundUp(base) <= n /\ p # RoundUp(base))
    <3>1. l' = l /\ p' = p /\ pc' = (IF n - p >= 16 THEN "load" ELSE "bytes")
      BY <1>2, <2>3 DEF Align
    <3>2. n - p >= 16 => p = RoundUp(base)
      BY <1>t, <2>3, <2>r
    <3> QED BY <1>t, <2>1, <2>r, <3>1, <3>2 DEF CrcInv
  <2> QED BY <2>2, <2>3
<1>3. CASE Load16
  BY <1>3, LoadKeeps
<1>4. CASE Step16
  BY <1>4, StrideKeeps
<1>5. CASE StepWord
  BY <1>5, WordKeeps
<1>6. CASE Combine
  BY <1>6, CombineKeeps
<1>7. CASE LastBytes
  <2>1. l = Sum(p, Before..p - 1) /\ n' = n /\ base' = base
    BY <1>7 DEF CrcInv, LastBytes
  <2>2. CASE p # n
    <3>1. l' = Step1(l, p) /\ p' = p + 1 /\ pc' = "bytes"
      BY <1>7, <2>2 DEF LastBytes
    <3>2. l' = Sum(p + 1, Before..p)
      BY <1>t, <2>1, <3>1, SumByte
    <3>3. p' - 1 = p /\ p' \in 0..n
      BY <1>t, <2>2, <3>1
    <3> QED BY <1>t, <2>1, <3>1, <3>2, <3>3 DEF CrcInv
  <2>3. CASE ~(p # n)
    <3>1. l' = l /\ p' = p /\ pc' = "done"
      BY <1>7, <2>3 DEF LastBytes
    <3> QED BY <1>t, <2>1, <2>3, <3>1 DEF CrcInv
  <2> QED BY <2>2, <2>3
<1>8. CASE UNCHANGED crcVars
  BY <1>8 DEF crcVars, CrcInv, Dealt
<1> QED BY <1>1, <1>2, <1>3, <1>4, <1>5, <1>6, <1>7, <1>8 DEF CrcNext

\* Extend of crc32.cpp: for every length and every alignment of the data the result is the
\* CRC of the bytes in order on top of the crc that is extended, and words are read at
\* multiples of four and inside the data only.
THEOREM CrcCorrect == CrcSpec => []CrcOfBytesInOrder
<1>1. CrcInv => CrcOfBytesInOrder
  <2> SUFFICES ASSUME CrcInv PROVE CrcOfBytesInOrder
    OBVIOUS
  <2>1. p <= n /\ (pc \in {"load", "swaths", "words"} => (base + p) % 4 = 0)
    BY DEF CrcInv
  <2>2. Sum(n, Before..n - 1) = {<<Before, n>>} \cup {<<i, n - i>> : i \in 0..n - 1}
    <3>1. n \in Nat
      BY DEF CrcInv
    <3>2. Before..n - 1 = {Before} \cup 0..n - 1 /\ Before \notin 0..n - 1 /\ n - 0 = n
      BY <3>1 DEF Before
    <3> QED BY <3>2 DEF Sum, Place
  <2>3. pc = "done" => l = Sum(n, Before..n - 1)
    BY DEF CrcInv
  <2> QED BY <2>1, <2>2, <2>3 DEF CrcOfBytesInOrder
<1> QED BY <1>1, CrcStart, CrcStep, PTL DEF CrcSpec

-----------------------------------------------------------------------------
(* HashReads.  For every path of the source: the set of places that it     *)
(* reads is the interval of the key.                                       *)

\* The m pieces of w bytes each from place s on.
Tiles(s, w, m) == UNION {s + w * i..s + w * i + w - 1 : i \in 0..m - 1}

\* The widths of the words and blocks that the loops read.
Widths == {4, 8, 16, 20, 32, 40, 64, 80, 256}

\* Pieces of one width that follow each other are one piece.
LEMMA TilesJoin ==
  ASSUME NEW s \in Nat, NEW w \in Widths, NEW m \in Nat
  PROVE  Tiles(s, w, m) = s..s + w * m - 1
<1>1. ASSUME NEW x, x \in Tiles(s, w, m) PROVE x \in s..s + w * m - 1
  <2>1. PICK i \in 0..m - 1 : x \in s + w * i..s + w * i + w - 1
    BY <1>1 DEF Tiles
  <2>2. x \in Int /\ i \in Int /\ 0 <= i /\ i + 1 <= m /\ s + w * i <= x /\ x <= s + w * i + w - 1
    BY <2>1 DEF Widths
  <2> QED BY <2>2 DEF Widths
<1>2. ASSUME NEW x \in s..s + w * m - 1 PROVE x \in Tiles(s, w, m)
  <2>1. PICK y \in Nat : y = x - s /\ y <= w * m - 1 /\ x = s + y
    BY DEF Widths
  <2>2. PICK i \in 0..m - 1 : w * i <= y /\ y <= w * i + w - 1
    <3>1. y \div w \in 0..m - 1 /\ w * (y \div w) <= y /\ y <= w * (y \div w) + w - 1
      BY <2>1 DEF Widths
    <3> QED BY <3>1
  <2>3. x \in s + w * i..s + w * i + w - 1
    BY <2>1, <2>2 DEF Widths
  <2> QED BY <2>3 DEF Tiles
<1> QED BY <1>1, <1>2

-----------------------------------------------------------------------------
(* The paths without a loop.                                               *)

\* Keys of up to 16 bytes.
LEMMA Reads0to16 ==
  ASSUME NEW s \in Nat, NEW k \in 0..16
  PROVE  HashLen0to16(s, k) = s..s + k - 1
<1>1. CASE k >= 8
  <2>1. HashLen0to16(s, k) = (s..s + 7) \cup (s + k - 8..s + k - 8 + 7)
    BY <1>1 DEF HashLen0to16, Fetch64
  <2> QED BY <1>1, <2>1
<1>2. CASE k \in 4..7
  <2>1. HashLen0to16(s, k) = (s..s + 3) \cup (s + k - 4..s + k - 4 + 3)
    BY <1>2 DEF HashLen0to16, Fetch32
  <2> QED BY <1>2, <2>1
<1>3. CASE k \in 1..3
  <2>1. HashLen0to16(s, k) = {s} \cup {s + (k \div 2)} \cup {s + k - 1}
    BY <1>3 DEF HashLen0to16, Byte
  <2>2. k = 1 \/ k = 2 \/ k = 3
    BY <1>3
  <2>3. 1 \div 2 = 0 /\ 2 \div 2 = 1 /\ 3 \div 2 = 1
    OBVIOUS
  <2>4. k \div 2 \in 0..1 /\ (k = 1 => k \div 2 = 0) /\ (k # 1 => k \div 2 = 1)
    BY <2>2, <2>3
  <2> QED BY <1>3, <2>1, <2>4
<1>4. CASE k = 0
  BY <1>4 DEF HashLen0to16
<1> QED BY <1>1, <1>2, <1>3, <1>4

\* Keys of 17 to 32 bytes: two words from each end.
LEMMA Reads17to32 ==
  ASSUME NEW s \in Nat, NEW k \in 16..32
  PROVE  HashLen17to32(s, k) = s..s + k - 1 /\ H32(s, k) = s..s + k - 1
BY DEF HashLen17to32, H32, Fetch64

\* Four words of eight bytes.
LEMMA ReadsWeak32 ==
  ASSUME NEW s \in Int
  PROVE  WeakHashLen32WithSeeds(s) = s..s + 31
BY DEF WeakHashLen32WithSeeds, Fetch64

\* Keys of 33 to 64 bytes, in the three forms that na, xo and CityHash give it.
LEMMA Reads33to64 ==
  ASSUME NEW s \in Nat, NEW k \in 32..64
  PROVE  HashLen33to64(s, k) = s..s + k - 1 /\ CityHashLen33to64(s, k) = s..s + k - 1
         /\ xoHashLen33to64(s, k) = s..s + k - 1
<1>1. HashLen33to64(s, k) = s..s + k - 1
  BY DEF HashLen33to64, Fetch64
<1>2. CityHashLen33to64(s, k) = s..s + k - 1
  BY DEF CityHashLen33to64, Fetch64
<1>3. xoHashLen33to64(s, k) = s..s + k - 1
  <2>1. H32(s, 32) = s..s + 32 - 1 /\ H32(s + k - 32, 32) = s + k - 32..(s + k - 32) + 32 - 1
    BY Reads17to32
  <2> QED BY <2>1 DEF xoHashLen33to64
<1> QED BY <1>1, <1>2, <1>3

\* Keys of 65 to 96 bytes: the blocks of 32 from the end overlap the second one.
LEMMA Reads65to96 ==
  ASSUME NEW s \in Nat, NEW k \in 64..96
  PROVE  HashLen65to96(s, k) = s..s + k - 1
<1>1. /\ H32(s, 32) = s..s + 32 - 1 /\ H32(s + 32, 32) = s + 32..s + 32 + 32 - 1
      /\ H32(s + k - 32, 32) = s + k - 32..(s + k - 32) + 32 - 1
  BY Reads17to32
<1> QED BY <1>1 DEF HashLen65to96

\* One turn of the loop over 64 bytes.
LEMMA ReadsBlock64 ==
  ASSUME NEW s \in Int
  PROVE  Block64(s) = s..s + 63
<1>1. WeakHashLen32WithSeeds(s) = s..s + 31 /\ WeakHashLen32WithSeeds(s + 32) = s + 32..s + 32 + 31
  BY ReadsWeak32
<1> QED BY <1>1 DEF Block64, Fetch64

-----------------------------------------------------------------------------
(* The loops: the blocks from the start of the key, and the words counted  *)
(* from its end that close the gap.                                        *)

\* One block of each kind.
LEMMA ReadsSmall ==
  ASSUME NEW s \in Nat
  PROVE  /\ uoBlock(s) = s..s + 64 - 1 /\ teBlock(s) = s..s + 256 - 1 /\ Block20(s) = s..s + 20 - 1
         /\ Chunk(s) = s..s + 80 - 1 /\ CrcChunk(s) = s..s + 40 - 1
<1>1. /\ Tiles(s, 8, 8) = s..s + 64 - 1 /\ Tiles(s, 16, 16) = s..s + 256 - 1
      /\ Tiles(s, 4, 5) = s..s + 20 - 1 /\ Tiles(s, 16, 5) = s..s + 80 - 1
      /\ Tiles(s, 8, 5) = s..s + 40 - 1
  BY TilesJoin DEF Widths
<1>3. 0..8 - 1 = 0..7 /\ 0..16 - 1 = 0..15 /\ 0..5 - 1 = 0..4
  OBVIOUS
<1>4. uoBlock(s) = Tiles(s, 8, 8)
  <2>1. uoBlock(s) = UNION {Fetch64(s + 8 * i) : i \in 0..8 - 1}
    BY <1>3 DEF uoBlock
  <2>2. \A i \in 0..8 - 1 : Fetch64(s + 8 * i) = s + 8 * i..s + 8 * i + 8 - 1
    BY DEF Fetch64
  <2> QED BY <2>1, <2>2 DEF Tiles
<1>5. teBlock(s) = Tiles(s, 16, 16)
  <2>1. teBlock(s) = UNION {Fetch128(s + 16 * i) : i \in 0..16 - 1}
    BY <1>3 DEF teBlock
  <2>2. \A i \in 0..16 - 1 : Fetch128(s + 16 * i) = s + 16 * i..s + 16 * i + 16 - 1
    BY DEF Fetch128
  <2> QED BY <2>1, <2>2 DEF Tiles
<1>6. Block20(s) = Tiles(s, 4, 5)
  <2>1. Block20(s) = UNION {Fetch32(s + 4 * i) : i \in 0..5 - 1}
    BY <1>3 DEF Block20
  <2>2. \A i \in 0..5 - 1 : Fetch32(s + 4 * i) = s + 4 * i..s + 4 * i + 4 - 1
    BY DEF Fetch32
  <2> QED BY <2>1, <2>2 DEF Tiles
<1>7. Chunk(s) = Tiles(s, 16, 5)
  <2>1. Chunk(s) = UNION {Fetch128(s + 16 * i) : i \in 0..5 - 1}
    BY <1>3 DEF Chunk
  <2>2. \A i \in 0..5 - 1 : Fetch128(s + 16 * i) = s + 16 * i..s + 16 * i + 16 - 1
    BY DEF Fetch128
  <2> QED BY <2>1, <2>2 DEF Tiles
<1>8. CrcChunk(s) = Tiles(s, 8, 5)
  <2>1. CrcChunk(s) = UNION {Fetch64(s + 8 * i) : i \in 0..5 - 1}
    BY <1>3 DEF CrcChunk
  <2>2. \A i \in 0..5 - 1 : Fetch64(s + 8 * i) = s + 8 * i..s + 8 * i + 8 - 1
    BY DEF Fetch64
  <2> QED BY <2>1, <2>2 DEF Tiles
<1> QED BY <1>1, <1>4, <1>5, <1>6, <1>7, <1>8

\* m blocks in a row from place s on, for each kind of block.
Row64(s, m) == UNION {Block64(s + 64 * i) : i \in 0..m - 1}
RowUo(s, m) == UNION {uoBlock(s + 64 * i) : i \in 0..m - 1}
RowTe(s, m) == UNION {teBlock(s + 256 * i) : i \in 0..m - 1}
Row20(s, m) == UNION {Block20(s + 20 * i) : i \in 0..m - 1}
Row80(s, m) == UNION {Chunk(s + 80 * i) : i \in 0..m - 1}
Row40(s, m) == UNION {CrcChunk(s + 40 * i) : i \in 0..m - 1}
Row16(s, m) == UNION {Fetch64(s + 16 * i) \cup Fetch64(s + 16 * i + 8) : i \in 0..m - 1}

\* They read what is between the first and the last.
LEMMA ReadsBlocks ==
  ASSUME NEW s \in Nat, NEW m \in Nat
  PROVE  /\ Row64(s, m) = s..s + 64 * m - 1
         /\ RowUo(s, m) = s..s + 64 * m - 1
         /\ RowTe(s, m) = s..s + 256 * m - 1
         /\ Row20(s, m) = s..s + 20 * m - 1
         /\ Row80(s, m) = s..s + 80 * m - 1
         /\ Row40(s, m) = s..s + 40 * m - 1
         /\ Row16(s, m) = s..s + 16 * m - 1
<1>w. \A w \in Widths : Tiles(s, w, m) = s..s + w * m - 1
  BY TilesJoin
<1>i. \A i \in 0..m - 1 : i \in Nat /\ \A w \in Widths : s + w * i \in Nat
  BY DEF Widths
<1>1. \A i \in 0..m - 1 : Block64(s + 64 * i) = s + 64 * i..s + 64 * i + 64 - 1
  BY ReadsBlock64
<1>2. \A i \in 0..m - 1 : uoBlock(s + 64 * i) = s + 64 * i..s + 64 * i + 64 - 1
  BY ReadsSmall
<1>3. \A i \in 0..m - 1 : teBlock(s + 256 * i) = s + 256 * i..s + 256 * i + 256 - 1
  BY ReadsSmall
<1>4. \A i \in 0..m - 1 : Block20(s + 20 * i) = s + 20 * i..s + 20 * i + 20 - 1
  BY ReadsSmall
<1>5. \A i \in 0..m - 1 : Chunk(s + 80 * i) = s + 80 * i..s + 80 * i + 80 - 1
  BY ReadsSmall
<1>6. \A i \in 0..m - 1 : CrcChunk(s + 40 * i) = s + 40 * i..s + 40 * i + 40 - 1
  BY ReadsSmall
<1>7. \A i \in 0..m - 1 : Fetch64(s + 16 * i) \cup Fetch64(s + 16 * i + 8) = s + 16 * i..s + 16 * i + 16 - 1
  BY DEF Fetch64
<1>11. Row64(s, m) = Tiles(s, 64, m)
  BY <1>1 DEF Tiles, Row64
<1>12. RowUo(s, m) = Tiles(s, 64, m)
  BY <1>2 DEF Tiles, RowUo
<1>13. RowTe(s, m) = Tiles(s, 256, m)
  BY <1>3 DEF Tiles, RowTe
<1>14. Row20(s, m) = Tiles(s, 20, m)
  BY <1>4 DEF Tiles, Row20
<1>15. Row80(s, m) = Tiles(s, 80, m)
  BY <1>5 DEF Tiles, Row80
<1>16. Row40(s, m) = Tiles(s, 40, m)
  BY <1>6 DEF Tiles, Row40
<1>17. Row16(s, m) = Tiles(s, 16, m)
  BY <1>7 DEF Tiles, Row16
<1> QED BY <1>w, <1>11, <1>12, <1>13, <1>14, <1>15, <1>16, <1>17 DEF Widths

\* The loop over blocks of 64 bytes and the 64 bytes that end the key.
LEMMA ReadsLong64 ==
  ASSUME NEW s \in Nat, NEW k \in Nat, k > 64
  PROVE  /\ naLong(s, k) = s..s + k - 1
         /\ uoHash64WithSeeds(s, k) = s..s + k - 1
         /\ CityLong64(s, k) = s..s + k - 1
<1>m. PICK m \in Nat : m = (k - 1) \div 64
  OBVIOUS
<1>1. /\ m >= 1 /\ 64 * m < k /\ k <= 64 * m + 64 /\ (k - 1) % 64 = k - 1 - 64 * m
      /\ m * 64 = 64 * m
  BY <1>m
<1>e. PICK end \in Nat : end = s + 64 * m
  OBVIOUS
<1>2. /\ (end - s) \div 64 = m /\ end = s + m * 64 /\ end + ((k - 1) % 64) - 63 = s + k - 64
      /\ s + ((k - 1) - ((k - 1) % 64)) = end
  BY <1>1, <1>e
<1>3. /\ Row64(s, m) = s..s + 64 * m - 1
      /\ RowUo(s, m) = s..s + 64 * m - 1
  BY ReadsBlocks
<1>4. Blocks64(s, end) = s..s + 64 * m - 1
  BY <1>2, <1>3 DEF Blocks64, Row64
<1>5. Block64(s + k - 64) = s + k - 64..s + k - 64 + 63
  BY ReadsBlock64
<1>6. Fetch64(s) = s..s + 7
  BY DEF Fetch64
<1>7. naLong(s, k) = Fetch64(s) \cup Blocks64(s, end) \cup Block64(s + k - 64)
  BY <1>m, <1>2 DEF naLong
<1>8. naLong(s, k) = s..s + k - 1
  BY <1>1, <1>4, <1>5, <1>6, <1>7
<1>9. uoHash64WithSeeds(s, k)
        = RowUo(s, m) \cup Block64(s + k - 64)
  BY <1>m, <1>2 DEF uoHash64WithSeeds, RowUo
<1>10. uoHash64WithSeeds(s, k) = s..s + k - 1
  BY <1>1, <1>3, <1>5, <1>9
<1>11. /\ WeakHashLen32WithSeeds(s + k - 64) = s + k - 64..s + k - 64 + 31
       /\ WeakHashLen32WithSeeds(s + k - 32) = s + k - 32..s + k - 32 + 31
  BY ReadsWeak32
<1>12. CityLong64(s, k)
         = Fetch64(s + k - 40) \cup Fetch64(s + k - 16) \cup Fetch64(s + k - 56)
             \cup Fetch64(s + k - 48) \cup Fetch64(s + k - 24)
             \cup WeakHashLen32WithSeeds(s + k - 64) \cup WeakHashLen32WithSeeds(s + k - 32)
             \cup Fetch64(s) \cup Blocks64(s, end)
  BY <1>2 DEF CityLong64
<1>13. CityLong64(s, k) = s..s + k - 1
  BY <1>1, <1>4, <1>11, <1>12 DEF Fetch64
<1> QED BY <1>8, <1>10, <1>13

\* Hash64 of the namespaces na, uo and xo and of CityHash, for every length.
LEMMA ReadsHash64 ==
  ASSUME NEW s \in Nat, NEW k \in Nat
  PROVE  /\ naHash64(s, k) = s..s + k - 1
         /\ uoHash64(s, k) = s..s + k - 1
         /\ uoHash64WithSeed(s, k) = s..s + k - 1
         /\ uoHash64WithSeeds(s, k) = s..s + k - 1
         /\ xoHash64(s, k) = s..s + k - 1
         /\ CityHash64(s, k) = s..s + k - 1
<1>r. /\ k <= 16 => k \in 0..16
      /\ k > 16 /\ k <= 32 => k \in 16..32
      /\ k > 32 /\ k <= 64 => k \in 32..64
      /\ k > 64 /\ k <= 96 => k \in 64..96
  OBVIOUS
<1>1. k <= 16 => HashLen0to16(s, k) = s..s + k - 1
  BY <1>r, Reads0to16
<1>2. k > 16 /\ k <= 32 => HashLen17to32(s, k) = s..s + k - 1
  BY <1>r, Reads17to32
<1>3. k > 32 /\ k <= 64 => /\ HashLen33to64(s, k) = s..s + k - 1
                           /\ CityHashLen33to64(s, k) = s..s + k - 1
                           /\ xoHashLen33to64(s, k) = s..s + k - 1
  BY <1>r, Reads33to64
<1>4. k > 64 => /\ naLong(s, k) = s..s + k - 1 /\ uoHash64WithSeeds(s, k) = s..s + k - 1
                /\ CityLong64(s, k) = s..s + k - 1
  BY ReadsLong64
<1>5. k > 64 /\ k <= 96 => HashLen65to96(s, k) = s..s + k - 1
  BY <1>r, Reads65to96
<1>6. naHash64(s, k) = s..s + k - 1
  BY <1>1, <1>2, <1>3, <1>4 DEF naHash64
<1>7. uoHash64WithSeeds(s, k) = s..s + k - 1
  <2>1. CASE k <= 64
    BY <1>6, <2>1 DEF uoHash64WithSeeds, naHash64WithSeeds
  <2> QED BY <1>4, <2>1
<1>8. uoHash64(s, k) = s..s + k - 1 /\ uoHash64WithSeed(s, k) = s..s + k - 1
  BY <1>6, <1>7 DEF uoHash64, uoHash64WithSeed, naHash64WithSeed, naHash64WithSeeds
<1>9. xoHash64(s, k) = s..s + k - 1
  BY <1>1, <1>2, <1>3, <1>5, <1>6, <1>8 DEF xoHash64
<1>10. CityHash64(s, k) = s..s + k - 1
  BY <1>1, <1>2, <1>3, <1>4 DEF CityHash64
<1> QED BY <1>6, <1>7, <1>8, <1>9, <1>10

\* Blocks of 256 bytes, and what is left of the key as a key of its own.
LEMMA ReadsHash64Long ==
  ASSUME NEW s \in Nat, NEW k \in Nat
  PROVE  Hash64Long(s, k) = s..s + k - 1
<1>d. PICK m \in Nat : m = k \div 256
  OBVIOUS
<1>m. PICK rest \in 0..255 : rest = k % 256 /\ k = 256 * m + rest
  <2>1. 256 * m <= k /\ k <= 256 * m + 255 /\ k % 256 = k - 256 * m
    BY <1>d
  <2>2. k - 256 * m \in 0..255 /\ k = 256 * m + (k - 256 * m)
    BY <2>1
  <2> QED BY <2>1, <2>2
<1>e. PICK end \in Nat : end = s + 256 * m
  OBVIOUS
<1>1. s + (k - (k % 256)) = end /\ (end - s) \div 256 = m
  BY <1>m, <1>e
<1>2. Hash64Long(s, k) = RowTe(s, m)
                           \cup (IF rest # 0 THEN xoHash64(end, rest) ELSE {})
  BY <1>m, <1>1 DEF Hash64Long, RowTe
<1>3. RowTe(s, m) = s..s + 256 * m - 1
  BY ReadsBlocks
<1>4. xoHash64(end, rest) = end..end + rest - 1
  BY ReadsHash64
<1>5. CASE rest = 0
  <2>1. Hash64Long(s, k) = s..s + 256 * m - 1
    BY <1>2, <1>3, <1>5
  <2>2. s + 256 * m - 1 = s + k - 1
    BY <1>m, <1>5
  <2> QED BY <2>1, <2>2
<1>6. CASE rest # 0
  <2>1. Hash64Long(s, k) = (s..s + 256 * m - 1) \cup (end..end + rest - 1)
    BY <1>2, <1>3, <1>4, <1>6
  <2>2. s + 256 * m - 1 = end - 1 /\ s + k - 1 = end + rest - 1 /\ s <= end
    BY <1>m, <1>e
  <2>3. (s..end - 1) \cup (end..end + rest - 1) = s..end + rest - 1
    BY <2>2
  <2> QED BY <2>1, <2>2, <2>3
<1> QED BY <1>5, <1>6

\* The namespaces te and nt, where the build has SSE4.1.
LEMMA ReadsTe ==
  ASSUME NEW s \in Nat, NEW k \in Nat, build.sse41
  PROVE  /\ teHash64(s, k) = s..s + k - 1
         /\ teHash64WithSeed(s, k) = s..s + k - 1
         /\ teHash64WithSeeds(s, k) = s..s + k - 1
<1>1. Hash64Long(s, k) = s..s + k - 1
  BY ReadsHash64Long
<1>2. xoHash64(s, k) = s..s + k - 1 /\ uoHash64WithSeed(s, k) = s..s + k - 1
      /\ uoHash64WithSeeds(s, k) = s..s + k - 1
  BY ReadsHash64
<1> QED BY <1>1, <1>2 DEF teHash64, teHash64WithSeed, teHash64WithSeeds, xoHash64WithSeed,
                          xoHash64WithSeeds

-----------------------------------------------------------------------------
(* The 32-bit functions.                                                   *)

\* Keys of up to 24 bytes.
LEMMA ReadsShort ==
  ASSUME NEW s \in Nat, NEW k \in 0..24
  PROVE  mkShort(s, k) = s..s + k - 1 /\ mkHash32WithSeed(s, k) = s..s + k - 1
<1>1. ASSUME k >= 13 PROVE Hash32Len13to24(s, k) = s..s + k - 1
  <2>1. PICK h \in Nat : h = k \div 2 /\ 2 * h <= k /\ k <= 2 * h + 1
    OBVIOUS
  <2>2. Hash32Len13to24(s, k)
          = (s - 4 + h..s - 4 + h + 3) \cup (s + 4..s + 4 + 3) \cup (s + k - 8..s + k - 8 + 3)
              \cup (s + h..s + h + 3) \cup (s..s + 3) \cup (s + k - 4..s + k - 4 + 3)
    BY <2>1 DEF Hash32Len13to24, Fetch32
  <2> QED BY <1>1, <2>1, <2>2
<1>2. ASSUME k \in 5..12 PROVE Hash32Len5to12(s, k) = s..s + k - 1
  <2>1. PICK h : h = (IF (k \div 2) % 8 >= 4 THEN 4 ELSE 0) /\ h = (IF k >= 8 THEN 4 ELSE 0)
    <3>1. (k \div 2) % 8 >= 4 <=> k >= 8
      BY <1>2
    <3> QED BY <3>1
  <2>2. Hash32Len5to12(s, k)
          = (s..s + 3) \cup (s + k - 4..s + k - 4 + 3) \cup (s + h..s + h + 3)
    BY <2>1 DEF Hash32Len5to12, Fetch32
  <2> QED BY <1>2, <2>1, <2>2
<1>3. ASSUME k <= 4 PROVE Hash32Len0to4(s, k) = s..s + k - 1
  <2>1. ASSUME NEW x \in s..s + k - 1 PROVE x \in Hash32Len0to4(s, k)
    <3>1. x - s \in 0..k - 1 /\ x = s + (x - s)
      OBVIOUS
    <3> QED BY <3>1 DEF Hash32Len0to4
  <2>2. ASSUME NEW x \in Hash32Len0to4(s, k) PROVE x \in s..s + k - 1
    BY DEF Hash32Len0to4
  <2> QED BY <2>1, <2>2
<1> QED BY <1>1, <1>2, <1>3 DEF mkShort, mkHash32WithSeed

\* Any length: words from the end and blocks of 20 bytes.
LEMMA ReadsMk ==
  ASSUME NEW s \in Nat, NEW k \in Nat
  PROVE  mkHash32(s, k) = s..s + k - 1 /\ CityHash32(s, k) = s..s + k - 1
<1>1. ASSUME k <= 24 PROVE mkShort(s, k) = s..s + k - 1
  <2>1. k \in 0..24
    BY <1>1
  <2> QED BY <2>1, ReadsShort
<1>2. ASSUME k > 24 PROVE mkLong(s, k) = s..s + k - 1
  <2>m. PICK m \in Nat : m = (k - 1) \div 20
    BY <1>2
  <2>1. 20 * m < k /\ k <= 20 * m + 20
    BY <1>2, <2>m
  <2>2. Tail20(s, k) = s + k - 20..s + k - 1
    <3>1. Tail20(s, k) = Fetch32(s + k - 4 * 1) \cup Fetch32(s + k - 4 * 2)
                           \cup Fetch32(s + k - 4 * 3) \cup Fetch32(s + k - 4 * 4)
                           \cup Fetch32(s + k - 4 * 5)
      <4>1. \A i \in 1..5 : i = 1 \/ i = 2 \/ i = 3 \/ i = 4 \/ i = 5
        OBVIOUS
      <4>2. 1 \in 1..5 /\ 2 \in 1..5 /\ 3 \in 1..5 /\ 4 \in 1..5 /\ 5 \in 1..5
        OBVIOUS
      <4> QED BY <4>1, <4>2 DEF Tail20
    <3> QED BY <1>2, <3>1 DEF Fetch32
  <2>3. Row20(s, m) = s..s + 20 * m - 1
    BY ReadsBlocks
  <2>4. mkLong(s, k) = Tail20(s, k) \cup Row20(s, m)
    BY <2>m DEF mkLong, Row20
  <2> QED BY <1>2, <2>1, <2>2, <2>3, <2>4
<1>3. mkHash32(s, k) = s..s + k - 1
  BY <1>1, <1>2 DEF mkHash32
<1>4. CityHash32(s, k) = mkHash32(s, k)
  BY DEF CityHash32, mkHash32, mkLong
<1> QED BY <1>3, <1>4

\* The seeded functions: 24 bytes and the rest as a key of its own.
LEMMA ReadsMkSeed ==
  ASSUME NEW s \in Nat, NEW k \in Nat
  PROVE  mkHash32WithSeed(s, k) = s..s + k - 1 /\ ccHash32WithSeed(s, k) = s..s + k - 1
<1>1. ASSUME k <= 24 PROVE mkHash32WithSeed(s, k) = s..s + k - 1
  <2>1. k \in 0..24
    BY <1>1
  <2> QED BY <2>1, ReadsShort
<1>2. Hash32Len13to24(s, 24) = s..s + 24 - 1
  <2>1. mkShort(s, 24) = s..s + 24 - 1
    BY ReadsShort
  <2> QED BY <2>1 DEF mkShort
<1>3. ASSUME k > 24 PROVE Hash32Len13to24(s, 24) \cup mkHash32(s + 24, k - 24) = s..s + k - 1
  <2>1. s + 24 \in Nat /\ k - 24 \in Nat
    BY <1>3
  <2>2. mkHash32(s + 24, k - 24) = s + 24..s + 24 + (k - 24) - 1
    BY <2>1, ReadsMk
  <2> QED BY <1>2, <1>3, <2>2
<1>4. CASE k <= 24
  <2>1. mkHash32WithSeed(s, k) = s..s + k - 1
    BY <1>1, <1>4
  <2>2. ccHash32WithSeed(s, k) = mkHash32WithSeed(s, k)
    BY <1>4 DEF ccHash32WithSeed
  <2> QED BY <2>1, <2>2
<1>5. CASE k > 24
  <2>1. /\ mkHash32WithSeed(s, k) = Hash32Len13to24(s, 24) \cup mkHash32(s + 24, k - 24)
        /\ ccHash32WithSeed(s, k) = Hash32Len13to24(s, 24) \cup mkHash32(s + 24, k - 24)
    BY <1>5 DEF mkHash32WithSeed, ccHash32WithSeed, ccHash32
  <2>2. Hash32Len13to24(s, 24) \cup mkHash32(s + 24, k - 24) = s..s + k - 1
    BY <1>3, <1>5
  <2> QED BY <2>1, <2>2
<1> QED BY <1>4, <1>5

\* The paths of su and sa that their two functions share.
LEMMA ReadsSse42 ==
  ASSUME NEW s \in Nat, NEW k \in Nat
  PROVE  /\ k >= 25 /\ k < 40 => Len25to39(s, k) = s..s + k - 1
         /\ k >= 40 /\ k < 80 => Len40to79(s, k) = s..s + k - 1
         /\ k >= 80 => Chunks(s, k) = s..s + k - 1
<1>1. ASSUME k >= 25, k < 40 PROVE Len25to39(s, k) = s..s + k - 1
  <2>1. PICK h \in 13..20 : h = (k + 1) \div 2 /\ k <= 2 * h
    BY <1>1
  <2>2. Hash32Len13to24(s, h) = s..s + h - 1
    <3>1. h \in 0..24 /\ h > 12
      BY <2>1
    <3>2. mkShort(s, h) = s..s + h - 1
      BY <3>1, ReadsShort
    <3> QED BY <3>1, <3>2 DEF mkShort
  <2>3. Len25to39(s, k) = Fetch32(s + k - 4) \cup Fetch32(s + k - 20) \cup Fetch32(s + k - 16)
                            \cup Fetch32(s + k - 12) \cup Fetch32(s + k - 8) \cup (s..s + h - 1)
    BY <2>1, <2>2 DEF Len25to39
  <2> QED BY <1>1, <2>1, <2>3 DEF Fetch32
<1>2. ASSUME k >= 40, k < 80 PROVE Len40to79(s, k) = s..s + k - 1
  <2>1. PICK h \in Nat : h = (k - 15) \div 2 /\ 2 * h <= k - 15 /\ k - 16 <= 2 * h
    BY <1>2
  <2>2. Len40to79(s, k) = Fetch128(s) \cup Fetch128(s + 16) \cup Fetch128(s + h)
                            \cup Fetch128(s + k - 32) \cup Fetch128(s + k - 16)
    BY <2>1 DEF Len40to79
  <2> QED BY <1>2, <2>1, <2>2 DEF Fetch128
<1>3. ASSUME k >= 80 PROVE Chunks(s, k) = s..s + k - 1
  <2>m. PICK m \in Nat : m = (k - 1) \div 80
    BY <1>3
  <2>1. 80 * m < k /\ k <= 80 * m + 80 /\ m * 80 = 80 * m /\ k - m * 80 # 0
    BY <1>3, <2>m
  <2>2. Row80(s, m) = s..s + 80 * m - 1
    BY ReadsBlocks
  <2>q. PICK q \in Nat : q = s + k - 80 /\ q = s + 80 * m + (k - m * 80) - 80
    BY <1>3, <2>1
  <2>3. Chunk(q) = q..q + 80 - 1
    BY ReadsSmall
  <2>4. Chunks(s, k) = Row80(s, m) \cup Chunk(q)
    BY <2>m, <2>1, <2>q DEF Chunks, Row80
  <2> QED BY <1>3, <2>1, <2>2, <2>3, <2>4, <2>q
<1> QED BY <1>1, <1>2, <1>3

\* What suHash32 and saHash32 read where the build has their instructions.
SseHash32(s, k) ==
  IF k <= 24 THEN mkShort(s, k)
  ELSE IF k < 40 THEN Len25to39(s, k)
  ELSE IF k < 80 THEN Len40to79(s, k)
  ELSE Chunks(s, k)

\* Any length, with and without a seed.
LEMMA ReadsSse ==
  ASSUME NEW s \in Nat, NEW k \in Nat
  PROVE  /\ SseHash32(s, k) = s..s + k - 1
         /\ k > 24 => Hash32Len13to24(s, 24) \cup SseHash32(s + 24, k - 24) = s..s + k - 1
<1>1. \A t, j \in Nat : SseHash32(t, j) = t..t + j - 1
  <2> SUFFICES ASSUME NEW t \in Nat, NEW j \in Nat PROVE SseHash32(t, j) = t..t + j - 1
    OBVIOUS
  <2>1. ASSUME j <= 24 PROVE mkShort(t, j) = t..t + j - 1
    <3>1. j \in 0..24
      BY <2>1
    <3> QED BY <3>1, ReadsShort
  <2>2. /\ j >= 25 /\ j < 40 => Len25to39(t, j) = t..t + j - 1
        /\ j >= 40 /\ j < 80 => Len40to79(t, j) = t..t + j - 1
        /\ j >= 80 => Chunks(t, j) = t..t + j - 1
    BY ReadsSse42
  <2> QED BY <2>1, <2>2 DEF SseHash32
<1>2. Hash32Len13to24(s, 24) = s..s + 24 - 1
  <2>1. mkShort(s, 24) = s..s + 24 - 1
    BY ReadsShort
  <2> QED BY <2>1 DEF mkShort
<1>3. ASSUME k > 24 PROVE Hash32Len13to24(s, 24) \cup SseHash32(s + 24, k - 24) = s..s + k - 1
  <2>1. s + 24 \in Nat /\ k - 24 \in Nat
    BY <1>3
  <2>2. SseHash32(s + 24, k - 24) = s + 24..s + 24 + (k - 24) - 1
    BY <1>1, <2>1
  <2> QED BY <1>2, <1>3, <2>2
<1> QED BY <1>1, <1>3

-----------------------------------------------------------------------------
(* The 128-bit functions.                                                  *)

\* Keys of less than 128 bytes.
LEMMA ReadsMurmur ==
  ASSUME NEW s \in Nat, NEW k \in Nat
  PROVE  CityMurmur(s, k) = s..s + k - 1
<1>1. CASE k <= 16
  <2>1. k \in 0..16
    BY <1>1
  <2>2. HashLen0to16(s, k) = s..s + k - 1
    BY <2>1, Reads0to16
  <2> QED BY <1>1, <2>1, <2>2 DEF CityMurmur, Fetch64
<1>2. CASE k > 16
  <2>m. PICK m \in Nat : m = (k - 1) \div 16
    BY <1>2
  <2>1. 16 * m < k /\ k <= 16 * m + 16
    BY <1>2, <2>m
  <2>2. Row16(s, m) = s..s + 16 * m - 1
    BY ReadsBlocks
  <2>3. CityMurmur(s, k) = Fetch64(s + k - 8) \cup Fetch64(s + k - 16) \cup Row16(s, m)
    BY <1>2, <2>m DEF CityMurmur, Row16
  <2> QED BY <1>2, <2>1, <2>2, <2>3 DEF Fetch64
<1> QED BY <1>1, <1>2

\* The chunks of 32 bytes counted from the end e of the key.
Back32(e, m) == UNION {WeakHashLen32WithSeeds(e - 32 * i) : i \in 1..m}

\* They are the last 32 * m bytes before e.
LEMMA ReadsBack32 ==
  ASSUME NEW e \in Nat, NEW m \in Nat
  PROVE  Back32(e, m) = e - 32 * m..e - 1
<1>1. \A i \in 1..m : WeakHashLen32WithSeeds(e - 32 * i) = e - 32 * i..e - 32 * i + 31
  BY ReadsWeak32
<1>2. ASSUME NEW x, x \in Back32(e, m)
      PROVE  x \in e - 32 * m..e - 1
  <2>1. PICK i \in 1..m : x \in WeakHashLen32WithSeeds(e - 32 * i)
    BY <1>2 DEF Back32
  <2>2. x \in e - 32 * i..e - 32 * i + 31
    BY <1>1, <2>1
  <2> QED BY <2>2
<1>3. ASSUME NEW x \in e - 32 * m..e - 1
      PROVE  x \in Back32(e, m)
  <2>1. PICK y \in Nat : y = e - 1 - x /\ y <= 32 * m - 1 /\ x = e - 1 - y
    OBVIOUS
  <2>2. PICK h \in Nat : h = y \div 32 /\ 32 * h <= y /\ y <= 32 * h + 31
    OBVIOUS
  <2>3. h + 1 \in 1..m /\ x \in e - 32 * (h + 1)..e - 32 * (h + 1) + 31
    BY <2>1, <2>2
  <2> QED BY <1>1, <2>3 DEF Back32
<1> QED BY <1>2, <1>3

\* Keys of 128 bytes and more: the tail reaches back into what the loop has read.
LEMMA ReadsCcLong ==
  ASSUME NEW s \in Nat, NEW k \in Nat, k >= 128
  PROVE  ccLong(s, k) = s..s + k - 1
<1>t. PICK t \in Nat : t = k \div 128
  OBVIOUS
<1>1. 128 * t <= k /\ k < 128 * t + 128 /\ t >= 1
  BY <1>t
<1>r. PICK r \in Nat : r = k % 128 /\ r = k - 128 * t /\ r < 128
  BY <1>t
<1>h. PICK h \in Nat : h = (r + 31) \div 32 /\ 32 * h <= r + 31 /\ r <= 32 * h
  BY <1>r
<1>e. PICK e \in Nat : e = s + 128 * t + r /\ e = s + k
  BY <1>1, <1>r
<1>2. PICK u \in Nat : u = 2 * t
  BY <1>t
<1>3. Row64(s, u) = s..s + 64 * u - 1
  BY ReadsBlocks
<1>4. Back32(e, h) = e - 32 * h..e - 1
  BY ReadsBack32
<1>5. ccLong(s, k) = Fetch64(s) \cup Fetch64(s + 8) \cup Fetch64(s + 88) \cup Row64(s, u) \cup Back32(e, h)
  BY <1>t, <1>r, <1>h, <1>e, <1>2 DEF ccLong, Row64, Back32
<1>6. Row64(s, u) = s..s + 128 * t - 1 /\ 64 * u = 128 * t
  BY <1>2, <1>3
<1>7. e - 32 * h >= s /\ e - 32 * h <= s + 128 * t /\ e = s + k
  BY <1>1, <1>r, <1>h, <1>e
<1>8. (s..s + 128 * t - 1) \cup (e - 32 * h..e - 1) = s..s + k - 1
  BY <1>1, <1>7
<1>9. Fetch64(s) \cup Fetch64(s + 8) \cup Fetch64(s + 88) \subseteq s..s + k - 1
  BY DEF Fetch64
<1> QED BY <1>4, <1>5, <1>6, <1>8, <1>9

\* Any length, and the functions that take the first 16 bytes as a seed.
LEMMA Reads128 ==
  ASSUME NEW s \in Nat, NEW k \in Nat
  PROVE  /\ ccHash128WithSeed(s, k) = s..s + k - 1
         /\ CityHash128WithSeed(s, k) = s..s + k - 1
         /\ ccFingerprint128(s, k) = s..s + k - 1
         /\ CityHash128(s, k) = s..s + k - 1
<1>1. \A t, j \in Nat : /\ ccHash128WithSeed(t, j) = t..t + j - 1
                        /\ CityHash128WithSeed(t, j) = t..t + j - 1
  <2> SUFFICES ASSUME NEW t \in Nat, NEW j \in Nat
               PROVE  /\ ccHash128WithSeed(t, j) = t..t + j - 1
                      /\ CityHash128WithSeed(t, j) = t..t + j - 1
    OBVIOUS
  <2>1. CityMurmur(t, j) = t..t + j - 1
    BY ReadsMurmur
  <2>2. j >= 128 => ccLong(t, j) = t..t + j - 1
    BY ReadsCcLong
  <2> QED BY <2>1, <2>2 DEF ccHash128WithSeed, CityHash128WithSeed, CityMurmurOfCity
<1>2. ASSUME k >= 16
      PROVE  /\ ccFingerprint128(s, k) = s..s + k - 1
             /\ CityHash128(s, k) = s..s + k - 1
  <2>1. PICK t \in Nat : t = s + 16
    OBVIOUS
  <2>2. PICK j \in Nat : j = k - 16
    BY <1>2
  <2>3. ccHash128WithSeed(t, j) = t..t + j - 1 /\ CityHash128WithSeed(t, j) = t..t + j - 1
    BY <1>1
  <2>4. /\ ccFingerprint128(s, k) = Fetch64(s) \cup Fetch64(s + 8) \cup (t..t + j - 1)
        /\ CityHash128(s, k) = Fetch64(s) \cup Fetch64(s + 8) \cup (t..t + j - 1)
    BY <1>2, <2>1, <2>2, <2>3 DEF ccFingerprint128, CityHash128
  <2> QED BY <1>2, <2>1, <2>2, <2>4 DEF Fetch64
<1>3. ASSUME k < 16
      PROVE  /\ ccFingerprint128(s, k) = s..s + k - 1
             /\ CityHash128(s, k) = s..s + k - 1
  BY <1>1, <1>3 DEF ccFingerprint128, CityHash128
<1> QED BY <1>1, <1>2, <1>3

\* The functions with the CRC instruction, which only long keys of the 128-bit ones reach.
LEMMA ReadsCrc ==
  ASSUME NEW s \in Nat, NEW k \in Nat
  PROVE  /\ CityHashCrc256(s, k) = s..s + k - 1
         /\ CityHashCrc128(s, k) = s..s + k - 1
         /\ CityHashCrc128WithSeed(s, k) = s..s + k - 1
<1>1. ASSUME k >= 240 PROVE CityHashCrc256Long(s, k) = s..s + k - 1
  <2>t. PICK t \in Nat : t = k \div 240
    OBVIOUS
  <2>1. 240 * t <= k /\ k < 240 * t + 240 /\ t >= 1
    BY <1>1, <2>t
  <2>r. PICK r \in Nat : r = k % 240 /\ r = k - 240 * t /\ r < 240
    BY <2>t
  <2>h. PICK h \in Nat : h = r \div 40
    BY <2>r
  <2>2. 40 * h <= r /\ r < 40 * h + 40
    BY <2>r, <2>h
  <2>v. PICK v \in Nat : v = r % 40 /\ v = r - 40 * h
    BY <2>r, <2>h
  <2>b. PICK b \in Nat : b = s + 240 * t
    BY <2>t
  <2>u. PICK u \in Nat : u = 6 * t /\ 40 * u = 240 * t
    BY <2>t
  <2>e. PICK e \in Nat : e = b + 40 * h + v - 40 /\ e = s + k - 40
    BY <1>1, <2>b, <2>r, <2>v
  <2>3. Row40(s, u) = s..s + 40 * u - 1
    BY ReadsBlocks
  <2>4. Row40(b, h) = b..b + 40 * h - 1
    BY ReadsBlocks
  <2>5. CrcChunk(e) = e..e + 40 - 1
    BY ReadsSmall
  <2>6. CityHashCrc256Long(s, k) =
          Fetch64(s + 56) \cup Fetch64(s + 96) \cup Fetch64(s + 120) \cup Fetch64(s + 184)
          \cup Row40(s, u) \cup Row40(b, h) \cup (IF v > 0 THEN CrcChunk(e) ELSE {})
    BY <2>t, <2>r, <2>h, <2>v, <2>b, <2>u, <2>e DEF CityHashCrc256Long, Row40
  <2>7. Row40(s, u) = s..b - 1 /\ s <= b
    BY <2>3, <2>b, <2>u
  <2>8. Fetch64(s + 56) \cup Fetch64(s + 96) \cup Fetch64(s + 120) \cup Fetch64(s + 184)
          \subseteq s..b - 1
    BY <2>b, <2>1 DEF Fetch64
  <2>9. (s..b - 1) \cup (b..b + 40 * h - 1) = s..b + 40 * h - 1
    BY <2>7
  <2>10. CASE v = 0
    <3>1. b + 40 * h = s + k
      BY <2>b, <2>r, <2>v, <2>10
    <3> QED BY <2>10, <2>4, <2>6, <2>7, <2>8, <2>9, <3>1
  <2>11. CASE v > 0
    <3>1. e >= s /\ e <= b + 40 * h /\ e + 40 = s + k /\ b + 40 * h <= s + k
      BY <1>1, <2>11, <2>b, <2>r, <2>v, <2>e, <2>2
    <3>2. (s..b + 40 * h - 1) \cup (e..e + 40 - 1) = s..s + k - 1
      BY <3>1
    <3> QED BY <2>11, <2>4, <2>5, <2>6, <2>7, <2>8, <2>9, <3>2
  <2> QED BY <2>10, <2>11
<1>2. CityHashCrc256(s, k) = s..s + k - 1
  BY <1>1 DEF CityHashCrc256, CityHashCrc256Short
<1>3. CityHash128(s, k) = s..s + k - 1 /\ CityHash128WithSeed(s, k) = s..s + k - 1
  BY Reads128
<1> QED BY <1>2, <1>3 DEF CityHashCrc128, CityHashCrc128WithSeed

-----------------------------------------------------------------------------
(* The choice by the build, and the theorem.                               *)

\* su and sa, in a build that has their instructions.
LEMMA ReadsSuSa ==
  ASSUME NEW s \in Nat, NEW k \in Nat
  PROVE  /\ build.sse42 => saHash32(s, k) = s..s + k - 1
         /\ build.sse42 => saHash32WithSeed(s, k) = s..s + k - 1
         /\ build.sse42 /\ build.aesni => suHash32(s, k) = s..s + k - 1
         /\ build.sse42 /\ build.aesni => suHash32WithSeed(s, k) = s..s + k - 1
<1>1. SseHash32(s, k) = s..s + k - 1
  BY ReadsSse
<1>2. mkHash32WithSeed(s, k) = s..s + k - 1
  BY ReadsMkSeed
<1>3. ASSUME ~(k <= 24) PROVE Hash32Len13to24(s, 24) \cup SseHash32(s + 24, k - 24) = s..s + k - 1
  <2>1. k > 24
    BY <1>3
  <2> QED BY <2>1, ReadsSse
<1>4. ASSUME build.sse42
      PROVE  /\ saHash32(s, k) = SseHash32(s, k)
             /\ saHash32(s + 24, k - 24) = SseHash32(s + 24, k - 24)
  BY <1>4, Zenon DEF saHash32, SseHash32
<1>5. ASSUME build.sse42, build.aesni
      PROVE  /\ suHash32(s, k) = SseHash32(s, k)
             /\ suHash32(s + 24, k - 24) = SseHash32(s + 24, k - 24)
  BY <1>5, Zenon DEF suHash32, SseHash32
<1>6. ASSUME build.sse42 PROVE saHash32WithSeed(s, k) = s..s + k - 1
  <2>1. CASE k <= 24
    BY <1>2, <1>6, <2>1, Zenon DEF saHash32WithSeed
  <2>2. CASE ~(k <= 24)
    <3>1. saHash32WithSeed(s, k) = Hash32Len13to24(s, 24) \cup saHash32(s + 24, k - 24)
      BY <1>6, <2>2, Zenon DEF saHash32WithSeed
    <3> QED BY <1>3, <1>4, <1>6, <2>2, <3>1, Zenon
  <2> QED BY <2>1, <2>2, Zenon
<1>7. ASSUME build.sse42, build.aesni PROVE suHash32WithSeed(s, k) = s..s + k - 1
  <2>1. CASE k <= 24
    BY <1>2, <1>7, <2>1, Zenon DEF suHash32WithSeed
  <2>2. CASE ~(k <= 24)
    <3>1. suHash32WithSeed(s, k) = Hash32Len13to24(s, 24) \cup suHash32(s + 24, k - 24)
      BY <1>7, <2>2, Zenon DEF suHash32WithSeed
    <3> QED BY <1>3, <1>5, <1>7, <2>2, <3>1, Zenon
  <2> QED BY <2>1, <2>2, Zenon
<1> QED BY <1>1, <1>4, <1>5, <1>6, <1>7, Zenon

\* What every function of the three sets reads.
LEMMA ReadsAll ==
  ASSUME len \in Nat, build.sse42 => build.sse41
  PROVE  \A r \in FarmHash \cup Namespaces \cup CityHash : r = 0..len - 1
<1> DEFINE K == 0..len - 1
<1>0. 0 + len - 1 = len - 1 /\ 0 \in Nat
  OBVIOUS
<1>1. /\ naHash64(0, len) = K /\ uoHash64(0, len) = K /\ uoHash64WithSeed(0, len) = K
      /\ xoHash64(0, len) = K /\ CityHash64(0, len) = K
  BY <1>0, ReadsHash64
<1>2. mkHash32(0, len) = K /\ CityHash32(0, len) = K
  BY <1>0, ReadsMk
<1>3. mkHash32WithSeed(0, len) = K /\ ccHash32WithSeed(0, len) = K
  BY <1>0, ReadsMkSeed
<1>4. /\ ccHash128WithSeed(0, len) = K /\ CityHash128WithSeed(0, len) = K
      /\ ccFingerprint128(0, len) = K /\ CityHash128(0, len) = K
  BY <1>0, Reads128
<1>5. /\ CityHashCrc256(0, len) = K /\ CityHashCrc128(0, len) = K
      /\ CityHashCrc128WithSeed(0, len) = K
  BY <1>0, ReadsCrc
<1>6. ASSUME build.sse41
      PROVE  /\ teHash64(0, len) = K /\ teHash64WithSeed(0, len) = K
             /\ teHash64WithSeeds(0, len) = K
  BY <1>0, <1>6, ReadsTe
<1>7. /\ build.sse42 => saHash32(0, len) = K
      /\ build.sse42 => saHash32WithSeed(0, len) = K
      /\ build.sse42 /\ build.aesni => suHash32(0, len) = K
      /\ build.sse42 /\ build.aesni => suHash32WithSeed(0, len) = K
  <2>1. 0..0 + len - 1 = K
    BY <1>0, Zenon
  <2> QED BY <1>0, <2>1, ReadsSuSa, Zenon
<1> HIDE DEF K
<1>8. Hash32(0, len) = K /\ Hash32WithSeed(0, len) = K
  BY <1>2, <1>3, <1>6, <1>7, Zenon DEF Hash32, Hash32WithSeed, ntHash32, ntHash32WithSeed
<1>9. Hash64(0, len) = K
  BY <1>1, <1>6, Zenon DEF Hash64
<1>10. ASSUME NEW r \in FarmHash PROVE r = K
  <2>1. /\ Hash(0, len) = K /\ Hash64WithSeed(0, len) = K /\ Hash64WithSeeds(0, len) = K
        /\ Hash128(0, len) = K /\ Hash128WithSeed(0, len) = K /\ Fingerprint32(0, len) = K
        /\ Fingerprint64(0, len) = K /\ Fingerprint128(0, len) = K
    BY <1>1, <1>2, <1>4, <1>9, Zenon
       DEF Hash, Hash64WithSeed, Hash64WithSeeds, naHash64WithSeed, naHash64WithSeeds, Hash128,
           Hash128WithSeed, Fingerprint32, Fingerprint64, Fingerprint128
  <2> QED BY <1>8, <1>9, <1>10, <2>1, Zenon DEF FarmHash
<1>11. ASSUME NEW r \in Namespaces PROVE r = K
  <2>1. ccHash32(0, len) = K /\ xoHash64WithSeed(0, len) = K
    BY <1>1, <1>2, Zenon DEF ccHash32, xoHash64WithSeed
  <2> QED BY <1>1, <1>3, <1>6, <1>7, <1>11, <2>1, Zenon DEF Namespaces
<1>12. ASSUME NEW r \in CityHash PROVE r = K
  <2>1. CityHash64WithSeed(0, len) = K
    BY <1>1, Zenon DEF CityHash64WithSeed, CityHash64WithSeeds
  <2> QED BY <1>2, <1>4, <1>5, <1>12, <2>1, Zenon DEF CityHash
<1>13. \A r \in FarmHash \cup Namespaces \cup CityHash : r = K
  BY <1>10, <1>11, <1>12, Zenon
<1> QED BY <1>13, Zenon DEF K

\* A length, and a build in which SSE4.2 brings SSE4.1 with it.
HashTypeOK == len \in Nat /\ (build # NoBuild => build \in Builds)

\* farmhash.cpp and city_hash.cpp: for every length of the key and every choice of the
\* instruction sets sse41, sse42 and aesni, each of the functions that the headers offer
\* fetches all the bytes of the key and none outside it: Hash .. Fingerprint128, the seeded
\* forms of the namespaces, CityHash32 .. CityHashCrc256.
THEOREM HashReadsCorrect == HashSpec => []HashReadsTheKey
<1>1. HashInit => HashTypeOK
  BY DEF HashInit, HashTypeOK
<1>2. HashTypeOK /\ [HashNext]_hashVars => HashTypeOK'
  <2> SUFFICES ASSUME HashTypeOK, [HashNext]_hashVars PROVE HashTypeOK'
    OBVIOUS
  <2>1. CASE HashCompile
    BY <2>1 DEF HashCompile, HashTypeOK
  <2>2. CASE HashNextKey
    BY <2>2 DEF HashNextKey, HashTypeOK
  <2>3. CASE UNCHANGED hashVars
    BY <2>3 DEF hashVars, HashTypeOK
  <2> QED BY <2>1, <2>2, <2>3 DEF HashNext
<1>3. HashTypeOK => HashReadsTheKey
  <2> SUFFICES ASSUME HashTypeOK, build # NoBuild
               PROVE  \A r \in FarmHash \cup Namespaces \cup CityHash : r = 0..len - 1
    BY Zenon DEF HashReadsTheKey
  <2>1. len \in Nat /\ (build.sse42 => build.sse41)
    BY Zenon DEF HashTypeOK, Builds
  <2> QED BY <2>1, ReadsAll
<1> QED BY <1>1, <1>2, <1>3, PTL DEF HashSpec
=============================================================================
