-------------------------------- MODULE Crc32 --------------------------------
(***************************************************************************)
(* util::Extend of src/util/crc32.cpp, the CRC that a log record carries.  *)
(*                                                                         *)
(* A CRC is linear: the checksum is the XOR of one term per input byte,    *)
(* the byte times x to the power of eight times the number of bytes from   *)
(* it to the end.  So a value of the code's uint32_t is modelled by the    *)
(* terms it is the sum of, <<place of the byte, power>>, powers counted in *)
(* bytes; the term of the crc that is extended has the place Before.  The  *)
(* lookup tables are multiplications by powers of x and become additions   *)
(* to the power.                                                           *)
(*                                                                         *)
(* The code is not a loop over bytes.  It aligns the read position, splits *)
(* the input over four partial results that each take every fourth word,   *)
(* rotates them for the last words, and folds them together again.         *)
(***************************************************************************)
EXTENDS Integers

CONSTANT MaxBytes   \* the longest input

Before == -1

VARIABLES
    pc,             \* the loop of Extend that runs
    n,              \* the number of bytes
    base,           \* the address of data modulo 4
    p,              \* the read position, as an offset into data
    l,              \* the running CRC
    crc             \* crc0 .. crc3

crcVars == <<pc, n, base, p, l, crc>>

Xor(a, b) == (a \ b) \cup (b \ a)

(* Multiplication by x^8 to the k: kByteExtensionTable for k = 1, the four  *)
(* tables kStrideExtensionTable0 .. 3 together for k = 16.                  *)
Times(a, k) == {<<t[1], t[2] + k>> : t \in a}

(* The four bytes of a word in memory order, the first one k = 0.           *)
ReadUint32LE(q) == {<<q + k, -k>> : k \in 0 .. 3}

(* The lookup tables.                                                       *)
ByteExtension(a) == Times(a, 1)
StrideExtension(a) == Times(a, 16)

(* One byte: c = (l & 0xff) ^ *p++; l = kByteExtensionTable[c] ^ (l >> 8).  *)
Step1(a, q) == ByteExtension(Xor(a, {<<q, 0>>}))

(* One stride: the next word and what the partial result is worth 16 bytes  *)
(* further on.                                                              *)
Step4(a, q) == Xor(ReadUint32LE(q), StrideExtension(a))

(* A word already loaded: four times the byte table.                        *)
Step4W(a, w) == Times(Xor(w, a), 4)

(* The distance to the first address that is a multiple of 4.               *)
RoundUp(a) == (4 - a) % 4

CrcInit ==
    /\ pc = "idle"
    /\ n = 0 /\ base = 0 /\ p = 0
    /\ l = {}
    /\ crc = [i \in 0 .. 3 |-> {}]

-----------------------------------------------------------------------------
(* The call, for any length and any alignment of the argument.  Without the *)
(* crc32c library, AcceleratedCRC32C returns 0 and the code below runs.     *)
Extend ==
    /\ pc = "idle"
    /\ n' \in 0 .. MaxBytes
    /\ base' \in 0 .. 3
    /\ p' = 0
    /\ l' = {<<Before, 0>>}
    /\ pc' = "align"
    /\ UNCHANGED crc

(* while (p != x) STEP1, unless x is past the end; then the test for 16.    *)
Align ==
    /\ pc = "align"
    /\ IF RoundUp(base) <= n /\ p # RoundUp(base)
       THEN l' = Step1(l, p) /\ p' = p + 1 /\ UNCHANGED pc
       ELSE pc' = (IF n - p >= 16 THEN "load" ELSE "bytes") /\ UNCHANGED <<l, p>>
    /\ UNCHANGED <<n, base, crc>>

(* The first four words; crc0 takes over the running CRC.                   *)
Load16 ==
    /\ pc = "load"
    /\ crc' = [i \in 0 .. 3 |->
                 IF i = 0 THEN Xor(ReadUint32LE(p), l) ELSE ReadUint32LE(p + i * 4)]
    /\ p' = p + 16
    /\ pc' = "swaths"
    /\ UNCHANGED <<n, base, l>>

(* while ((e - p) >= 16) STEP16.                                            *)
Step16 ==
    /\ pc = "swaths"
    /\ IF n - p >= 16
       THEN /\ crc' = [i \in 0 .. 3 |-> Step4(crc[i], p + i * 4)]
            /\ p' = p + 16 /\ UNCHANGED pc
       ELSE pc' = "words" /\ UNCHANGED <<crc, p>>
    /\ UNCHANGED <<n, base, l>>

(* Mutant: the four partial results are not rotated.                        *)
StepWordUnrotated ==
    /\ pc = "words"
    /\ IF n - p >= 4
       THEN /\ crc' = [crc EXCEPT ![0] = Step4(crc[0], p)]
            /\ p' = p + 4 /\ UNCHANGED pc
       ELSE pc' = "combine" /\ UNCHANGED <<crc, p>>
    /\ UNCHANGED <<n, base, l>>

(* while ((e - p) >= 4): one word into crc0, then the four are rotated.     *)
StepWord ==
    /\ pc = "words"
    /\ IF n - p >= 4
       THEN /\ crc' = [i \in 0 .. 3 |-> IF i = 3 THEN Step4(crc[0], p) ELSE crc[i + 1]]
            /\ p' = p + 4 /\ UNCHANGED pc
       ELSE pc' = "combine" /\ UNCHANGED <<crc, p>>
    /\ UNCHANGED <<n, base, l>>

(* l = 0; STEP4W(crc0); STEP4W(crc1); STEP4W(crc2); STEP4W(crc3).           *)
Combine ==
    /\ pc = "combine"
    /\ l' = Step4W(Step4W(Step4W(Step4W({}, crc[0]), crc[1]), crc[2]), crc[3])
    /\ pc' = "bytes"
    /\ UNCHANGED <<n, base, p, crc>>

(* while (p != e) STEP1; return.                                            *)
LastBytes ==
    /\ pc = "bytes"
    /\ IF p # n
       THEN l' = Step1(l, p) /\ p' = p + 1 /\ UNCHANGED pc
       ELSE pc' = "done" /\ UNCHANGED <<l, p>>
    /\ UNCHANGED <<n, base, crc>>

CrcNext == Extend \/ Align \/ Load16 \/ Step16 \/ StepWord \/ Combine \/ LastBytes

CrcSpec == CrcInit /\ [][CrcNext]_crcVars

-----------------------------------------------------------------------------
(***************************************************************************)
(* The value that Extend returns is the CRC of the bytes in their order:   *)
(* every byte once, times the power of its distance to the end, on top of  *)
(* the crc that is extended.  It depends on neither the alignment of data  *)
(* nor on how the words are dealt out to the four partial results; words   *)
(* are only read at multiples of four, and nothing past the end.           *)
(***************************************************************************)
CrcOfBytesInOrder ==
    /\ p <= n
    /\ pc \in {"load", "swaths", "words"} => (base + p) % 4 = 0
    /\ pc = "done" =>
         l = {<<Before, n>>} \cup {<<i, n - i>> : i \in 0 .. n - 1}

=============================================================================
