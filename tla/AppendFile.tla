------------------------------- MODULE AppendFile ------------------------------
(***************************************************************************)
(* util/file/appendfile.cpp: a file behind a write buffer.  A byte is the  *)
(* number of its Append and its place in it; open does not truncate and    *)
(* starts at offset 0.                                                     *)
(***************************************************************************)
EXTENDS Integers, Sequences

CONSTANTS
  kAppendFileBufferSize,
  MaxSize, MaxAppends, MaxOpens     \* bounds: of one Append, of their number, of Inits

ASSUME BufferAssumption == kAppendFileBufferSize \in Nat \ {0}
ASSUME SizeAssumption == MaxSize \in Nat

VARIABLES
  content,      \* the file
  offset,       \* of the descriptor
  buf,          \* bufptr_[0 .. offset_ - 1]
  fd,           \* fd_ >= 0
  appends, opens,
  since         \* history: the bytes appended since the offset was last moved
fileVars == <<content, offset, buf, fd, appends, opens, since>>

FileInit ==
  /\ content = <<>> /\ offset = 0 /\ buf = <<>> /\ fd = FALSE
  /\ appends = 0 /\ opens = 0 /\ since = <<>>

\* write(2) at the offset: over what is there, and past the end.
Written(file, at, bytes) ==
  SubSeq(file, 1, at) \o bytes \o SubSeq(file, at + Len(bytes) + 1, Len(file))

\* Init: open without O_TRUNC and O_APPEND.  A descriptor that is open is dropped without
\* a flush or a close, and a failing open is only logged: fd_ is negative then.
InitFile(opened) ==
  /\ opens < MaxOpens /\ opens' = opens + 1
  /\ fd' = opened
  /\ opened => offset' = 0 /\ since' = buf
  /\ ~opened => UNCHANGED <<offset, since>>
  /\ UNCHANGED <<content, buf, appends>>

\* Mutant: the offset into the buffer is not reset after a flush.
FlushKeeps(data) ==
  LET room == kAppendFileBufferSize - Len(buf)
      rest == SubSeq(data, room + 1, Len(data))
      full == buf \o SubSeq(data, 1, room)
  IN  IF room > Len(data) THEN [out |-> <<>>, buf |-> buf \o data]
      ELSE IF Len(rest) < kAppendFileBufferSize \div 4
      THEN [out |-> full, buf |-> full \o rest]
      ELSE [out |-> full \o rest, buf |-> full]

\* What one Append writes and what it leaves in the buffer: a full buffer is flushed, the
\* rest is buffered when it is small and written directly otherwise.
Pieces(data) ==
  LET room == kAppendFileBufferSize - Len(buf)
      rest == SubSeq(data, room + 1, Len(data))
      full == buf \o SubSeq(data, 1, room)
  IN  IF room > Len(data) THEN [out |-> <<>>, buf |-> buf \o data]
      ELSE IF Len(rest) < kAppendFileBufferSize \div 4
      THEN [out |-> full, buf |-> rest]
      ELSE [out |-> full \o rest, buf |-> <<>>]

\* Append.  The buffer takes bytes without a descriptor; when it is full, WriteDirect's
\* assertion ends the process.
AppendBytes(size) ==
  LET data == [i \in 1..size |-> <<appends + 1, i>>]
      pieces == Pieces(data)
  IN  /\ fd \/ pieces.out = <<>>
      /\ appends < MaxAppends /\ appends' = appends + 1
      /\ content' = Written(content, offset, pieces.out)
      /\ offset' = offset + Len(pieces.out)
      /\ buf' = pieces.buf
      /\ since' = since \o data
      /\ UNCHANGED <<fd, opens>>

\* (Without a descriptor the same assertion fails.)
FlushBuffer ==
  /\ fd /\ buf # <<>>
  /\ content' = Written(content, offset, buf)
  /\ offset' = offset + Len(buf)
  /\ buf' = <<>>
  /\ UNCHANGED <<fd, appends, opens, since>>

\* Read: from the start to the end of the file, where the offset stays.
Read ==
  /\ fd /\ offset # Len(content)
  /\ offset' = Len(content) /\ since' = buf
  /\ UNCHANGED <<content, buf, fd, appends, opens>>

\* Clear empties the file, not the buffer.
Clear ==
  /\ fd /\ content # <<>>
  /\ content' = <<>> /\ offset' = 0 /\ since' = buf
  /\ UNCHANGED <<buf, fd, appends, opens>>

Close ==
  /\ fd
  /\ content' = Written(content, offset, buf)
  /\ offset' = offset + Len(buf)
  /\ buf' = <<>> /\ fd' = FALSE
  /\ UNCHANGED <<appends, opens, since>>

FileNext ==
  \/ (\E opened \in BOOLEAN : InitFile(opened)) \/ (\E size \in 1..MaxSize : AppendBytes(size))
  \/ FlushBuffer \/ Read \/ Clear \/ Close

FileSpec == FileInit /\ [][FileNext]_fileVars

-----------------------------------------------------------------------------
EndsWith(all, bytes) == \E n \in 0..Len(all) : all = SubSeq(all, 1, n) \o bytes

\* What was appended since Init, Read or Clear last moved the offset is, in order and
\* without a gap, the end of the bytes before the offset and the buffer: no byte is lost
\* or written twice, whichever of the three ways through Append it took.
AppendsInOrder == EndsWith(SubSeq(content, 1, offset) \o buf, since)

=============================================================================
