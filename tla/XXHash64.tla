------------------------------- MODULE XXHash64 -------------------------------
(***************************************************************************)
(* The streaming hash of src/util/hash/xxhash64.hpp: add() takes input in  *)
(* pieces of any size, keeps up to 31 bytes in a buffer between two calls  *)
(* and gives the state blocks of 32 bytes; hash() finishes with what is in *)
(* the buffer.  BloomFilter calls the static hash, one add() and hash().   *)
(*                                                                         *)
(* A byte is its place in the stream.  The four lanes of the state are     *)
(* modelled by the sequence of the bytes that process() has been given,    *)
(* the mixing is left out.                                                 *)
(***************************************************************************)
EXTENDS Integers, Sequences

CONSTANTS
    MaxTotal,       \* the longest stream
    MaxPiece        \* the longest input of one add()

MaxBufferSize == 32

VARIABLES
    state,          \* the bytes processed, in the order of process()
    buffer,         \* buffer[0 .. bufferSize - 1]
    totalLength

xxVars == <<state, buffer, totalLength>>

XXInit == state = <<>> /\ buffer = <<>> /\ totalLength = 0

(* length bytes of the stream from place q on.                              *)
Stream(q, length) == [i \in 1 .. length |-> q + i - 1]

(* The number of whole blocks that while (data <= stopBlock) takes.         *)
Blocks(length) == length \div MaxBufferSize

(* Mutant: a full buffer is kept for the next call.                         *)
FitsWithFullBuffer(length) == Len(buffer) + length <= MaxBufferSize

(* unprocessed old data plus new data still fit in temporary buffer         *)
Fits(length) == Len(buffer) + length < MaxBufferSize

(* add(input, length).                                                      *)
Add(length) ==
    LET data == Stream(totalLength, length)
        fill == IF Len(buffer) > 0 THEN MaxBufferSize - Len(buffer) ELSE 0
        rest == length - fill
        taken == fill + Blocks(rest) * MaxBufferSize
    IN  /\ length > 0 /\ totalLength + length <= MaxTotal
        /\ totalLength' = totalLength + length
        /\ IF Fits(length)
           THEN buffer' = buffer \o data /\ UNCHANGED state
           ELSE /\ state' = state
                              \o (IF Len(buffer) > 0
                                  THEN buffer \o SubSeq(data, 1, fill) ELSE <<>>)
                              \o SubSeq(data, fill + 1, taken)
                /\ buffer' = SubSeq(data, taken + 1, length)

(* hash() eats 8 bytes a step, then 4, then single bytes.                   *)
Eights == Len(buffer) \div 8
Rest == SubSeq(buffer, 8 * Eights + 1, Len(buffer))
Digest ==
    LET words == SubSeq(buffer, 1, 8 * Eights)
        half == IF Len(Rest) >= 4 THEN SubSeq(Rest, 1, 4) ELSE <<>>
    IN  words \o half \o SubSeq(Rest, Len(half) + 1, Len(Rest))

(* hash() folds the lanes in, or the seed when there was no block.          *)
UsesLanes == totalLength >= MaxBufferSize

XXNext == \E length \in 1 .. MaxPiece : Add(length)

XXSpec == XXInit /\ [][XXNext]_xxVars

-----------------------------------------------------------------------------
(***************************************************************************)
(* However the input is cut into pieces, the hash is made of every byte    *)
(* once and in order, whole blocks first and the buffer last; the lanes    *)
(* are used exactly when a block has gone into them ("internal state       *)
(* wasn't set in add()", xxhash64.hpp, line 101); and the buffer has room.  *)
(***************************************************************************)
HashOfBytesInOrder ==
    /\ state \o Digest = Stream(0, totalLength)
    /\ UsesLanes <=> state # <<>>
    /\ Len(state) % MaxBufferSize = 0
    /\ Len(buffer) < MaxBufferSize
=============================================================================
