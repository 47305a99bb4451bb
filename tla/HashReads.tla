------------------------------ MODULE HashReads ------------------------------
(***************************************************************************)
(* Which bytes of a key the string hashes of src/util/hash fetch.          *)
(*                                                                         *)
(* FarmHash and CityHash read a key of any length in words of 4, 8 or 16   *)
(* bytes, with one code path per range of lengths and, for long keys, a    *)
(* loop over blocks followed by words that are addressed backwards from    *)
(* the end and overlap what the loop has read.  Every path is one offset   *)
(* away from reading past the key or from leaving bytes out of the hash.   *)
(*                                                                         *)
(* The model keeps the control, i.e. the choice of the path, the loops and *)
(* the address of every fetch, and abstracts the mixing: a function of the *)
(* source is an operator from the place s of its argument in the key and   *)
(* its length to the set of places it reads.  The key is one string of     *)
(* len bytes at the places 0 .. len - 1.                                   *)
(***************************************************************************)
EXTENDS Integers

CONSTANT MaxLen     \* the longest key

VARIABLES
    len,            \* the length of the key that is hashed
    build           \* the instruction sets that the compiler was allowed to use

hashVars == <<len, build>>

(***************************************************************************)
(* can_use_sse41, can_use_sse42 and can_use_aesni.  A compiler that may    *)
(* use SSE4.2 may also use SSE4.1; the target is x86_64.                   *)
(***************************************************************************)
Builds == {b \in [sse41 : BOOLEAN, sse42 : BOOLEAN, aesni : BOOLEAN] :
              b.sse42 => b.sse41}

(* Before the library has been compiled: no build has SSE4.2 without 4.1.   *)
NoBuild == [sse41 |-> FALSE, sse42 |-> TRUE, aesni |-> FALSE]

(***************************************************************************)
(* The words.                                                              *)
(***************************************************************************)
Fetch32(p) == p .. p + 3
Fetch64(p) == p .. p + 7
Fetch128(p) == p .. p + 15
Byte(p) == {p}

(* What a function does that the build has no instructions for: it writes   *)
(* to a small address, and reads nothing.                                   *)
DieIfMisconfigured == {}

-----------------------------------------------------------------------------
(***************************************************************************)
(* namespace farmhashna: the functions behind util::Hash64WithSeed.        *)
(***************************************************************************)
HashLen0to16(s, n) ==
    IF n >= 8 THEN Fetch64(s) \cup Fetch64(s + n - 8)
    ELSE IF n >= 4 THEN Fetch32(s) \cup Fetch32(s + n - 4)
    ELSE IF n > 0 THEN Byte(s) \cup Byte(s + (n \div 2)) \cup Byte(s + n - 1)
    ELSE {}

HashLen17to32(s, n) ==
    Fetch64(s) \cup Fetch64(s + 8) \cup Fetch64(s + n - 8) \cup Fetch64(s + n - 16)

WeakHashLen32WithSeeds(s) ==
    Fetch64(s) \cup Fetch64(s + 8) \cup Fetch64(s + 16) \cup Fetch64(s + 24)

HashLen33to64(s, n) ==
    Fetch64(s) \cup Fetch64(s + 8) \cup Fetch64(s + n - 8) \cup Fetch64(s + n - 16)
    \cup Fetch64(s + 16) \cup Fetch64(s + 24)
    \cup Fetch64(s + n - 32) \cup Fetch64(s + n - 24)

(* One turn of the loop of Hash64, and the same statements for last64.      *)
Block64(s) ==
    Fetch64(s + 8) \cup Fetch64(s + 48) \cup Fetch64(s + 40)
    \cup WeakHashLen32WithSeeds(s) \cup WeakHashLen32WithSeeds(s + 32)
    \cup Fetch64(s + 16)

(* do { ... s += 64; } while (s != end).                                    *)
Blocks64(s, end) == UNION {Block64(s + 64 * i) : i \in 0 .. ((end - s) \div 64) - 1}

(* Mutant: the last 64 bytes are taken one byte too early.                  *)
naLongOneEarly(s, n) ==
    LET end == s + ((n - 1) \div 64) * 64
        last64 == end + ((n - 1) % 64) - 64
    IN  Fetch64(s) \cup Blocks64(s, end) \cup Block64(last64)

naLong(s, n) ==
    LET end == s + ((n - 1) \div 64) * 64
        last64 == end + ((n - 1) % 64) - 63
    IN  Fetch64(s) \cup Blocks64(s, end) \cup Block64(last64)

naHash64(s, n) ==
    IF n <= 32 THEN IF n <= 16 THEN HashLen0to16(s, n) ELSE HashLen17to32(s, n)
    ELSE IF n <= 64 THEN HashLen33to64(s, n)
    ELSE naLong(s, n)

naHash64WithSeeds(s, n) == naHash64(s, n)

naHash64WithSeed(s, n) == naHash64WithSeeds(s, n)

-----------------------------------------------------------------------------
(***************************************************************************)
(* namespace farmhashuo.                                                   *)
(***************************************************************************)
uoBlock(s) == UNION {Fetch64(s + 8 * i) : i \in 0 .. 7}

uoHash64WithSeeds(s, n) ==
    IF n <= 64 THEN naHash64WithSeeds(s, n)
    ELSE LET end == s + ((n - 1) \div 64) * 64
             last64 == end + ((n - 1) % 64) - 63
         IN  (UNION {uoBlock(s + 64 * i) : i \in 0 .. ((end - s) \div 64) - 1})
             \cup Block64(last64)

uoHash64WithSeed(s, n) ==
    IF n <= 64 THEN naHash64WithSeed(s, n) ELSE uoHash64WithSeeds(s, n)

uoHash64(s, n) ==
    IF n <= 64 THEN naHash64(s, n) ELSE uoHash64WithSeeds(s, n)

(***************************************************************************)
(* namespace farmhashxo.                                                   *)
(***************************************************************************)
H32(s, n) ==
    Fetch64(s) \cup Fetch64(s + 8) \cup Fetch64(s + n - 8) \cup Fetch64(s + n - 16)

xoHashLen33to64(s, n) == H32(s, 32) \cup H32(s + n - 32, 32)

HashLen65to96(s, n) == H32(s, 32) \cup H32(s + 32, 32) \cup H32(s + n - 32, 32)

xoHash64(s, n) ==
    IF n <= 32 THEN IF n <= 16 THEN HashLen0to16(s, n) ELSE HashLen17to32(s, n)
    ELSE IF n <= 64 THEN xoHashLen33to64(s, n)
    ELSE IF n <= 96 THEN HashLen65to96(s, n)
    ELSE IF n <= 256 THEN naHash64(s, n)
    ELSE uoHash64(s, n)

xoHash64WithSeeds(s, n) == uoHash64WithSeeds(s, n)

xoHash64WithSeed(s, n) == uoHash64WithSeed(s, n)

(***************************************************************************)
(* namespaces farmhashte and farmhashnt: SSE4.1.  The hash of the block t  *)
(* of intermediate results at the end of Hash64Long reads no byte of the   *)
(* key.                                                                    *)
(***************************************************************************)
teBlock(s) == UNION {Fetch128(s + 16 * i) : i \in 0 .. 15}

Hash64Long(s, n) ==
    LET end == s + (n - (n % 256))
    IN  (UNION {teBlock(s + 256 * i) : i \in 0 .. ((end - s) \div 256) - 1})
        \cup (IF n % 256 # 0 THEN xoHash64(end, n % 256) ELSE {})

teHash64(s, n) ==
    IF ~build.sse41 THEN DieIfMisconfigured
    ELSE IF n >= 512 THEN Hash64Long(s, n) ELSE xoHash64(s, n)

teHash64WithSeed(s, n) ==
    IF ~build.sse41 THEN DieIfMisconfigured
    ELSE IF n >= 512 THEN Hash64Long(s, n) ELSE xoHash64WithSeed(s, n)

teHash64WithSeeds(s, n) ==
    IF ~build.sse41 THEN DieIfMisconfigured
    ELSE IF n >= 512 THEN Hash64Long(s, n) ELSE xoHash64WithSeeds(s, n)

ntHash32(s, n) == teHash64(s, n)

ntHash32WithSeed(s, n) == teHash64WithSeed(s, n)

-----------------------------------------------------------------------------
(***************************************************************************)
(* namespace farmhashmk.                                                   *)
(***************************************************************************)
Hash32Len13to24(s, n) ==
    Fetch32(s - 4 + (n \div 2)) \cup Fetch32(s + 4) \cup Fetch32(s + n - 8)
    \cup Fetch32(s + (n \div 2)) \cup Fetch32(s) \cup Fetch32(s + n - 4)

Hash32Len0to4(s, n) == {s + i : i \in 0 .. n - 1}

(* (len >> 1) & 4 is 4 for the lengths 8 to 12 and 0 for 5 to 7.            *)
Hash32Len5to12(s, n) ==
    Fetch32(s) \cup Fetch32(s + n - 4)
    \cup Fetch32(s + (IF (n \div 2) % 8 >= 4 THEN 4 ELSE 0))

mkShort(s, n) ==
    IF n <= 12 THEN IF n <= 4 THEN Hash32Len0to4(s, n) ELSE Hash32Len5to12(s, n)
    ELSE Hash32Len13to24(s, n)

(* The five words a0 .. a4 of the end.                                      *)
Tail20(s, n) == UNION {Fetch32(s + n - 4 * i) : i \in 1 .. 5}

Block20(s) == UNION {Fetch32(s + 4 * i) : i \in 0 .. 4}

(* do { ... s += 20; } while (--iters != 0).                                *)
mkLong(s, n) ==
    LET iters == (n - 1) \div 20
    IN  Tail20(s, n) \cup (UNION {Block20(s + 20 * i) : i \in 0 .. iters - 1})

mkHash32(s, n) == IF n <= 24 THEN mkShort(s, n) ELSE mkLong(s, n)

mkHash32WithSeed(s, n) ==
    IF n <= 24 THEN IF n >= 13 THEN Hash32Len13to24(s, n)
                    ELSE IF n >= 5 THEN Hash32Len5to12(s, n)
                    ELSE Hash32Len0to4(s, n)
    ELSE Hash32Len13to24(s, 24) \cup mkHash32(s + 24, n - 24)

(***************************************************************************)
(* namespaces farmhashsu (SSE4.2 and AES) and farmhashsa (SSE4.2): they    *)
(* fetch the same words and mix them with different instructions.          *)
(***************************************************************************)
Len25to39(s, n) ==
    Fetch32(s + n - 4) \cup Fetch32(s + n - 20) \cup Fetch32(s + n - 16)
    \cup Fetch32(s + n - 12) \cup Fetch32(s + n - 8)
    \cup Hash32Len13to24(s, (n + 1) \div 2)

Len40to79(s, n) ==
    Fetch128(s) \cup Fetch128(s + 16) \cup Fetch128(s + (n - 15) \div 2)
    \cup Fetch128(s + n - 32) \cup Fetch128(s + n - 16)

Chunk(s) == UNION {Fetch128(s + 16 * i) : i \in 0 .. 4}

(* The chunks of 80 bytes; what is left, 1 to 80 bytes, is read with the    *)
(* chunk that ends where the key ends.                                      *)
Chunks(s, n) ==
    LET iters == (n - 1) \div 80
        rest == n - iters * 80
    IN  (UNION {Chunk(s + 80 * i) : i \in 0 .. iters - 1})
        \cup (IF rest # 0 THEN Chunk(s + 80 * iters + rest - 80) ELSE {})

suHash32(s, n) ==
    IF ~(build.sse42 /\ build.aesni) THEN DieIfMisconfigured
    ELSE IF n <= 24 THEN mkShort(s, n)
    ELSE IF n < 40 THEN Len25to39(s, n)
    ELSE IF n < 80 THEN Len40to79(s, n)
    ELSE Chunks(s, n)

saHash32(s, n) ==
    IF ~build.sse42 THEN DieIfMisconfigured
    ELSE IF n <= 24 THEN mkShort(s, n)
    ELSE IF n < 40 THEN Len25to39(s, n)
    ELSE IF n < 80 THEN Len40to79(s, n)
    ELSE Chunks(s, n)

suHash32WithSeed(s, n) ==
    IF ~(build.sse42 /\ build.aesni) THEN DieIfMisconfigured
    ELSE IF n <= 24 THEN mkHash32WithSeed(s, n)
    ELSE Hash32Len13to24(s, 24) \cup suHash32(s + 24, n - 24)

saHash32WithSeed(s, n) ==
    IF ~build.sse42 THEN DieIfMisconfigured
    ELSE IF n <= 24 THEN mkHash32WithSeed(s, n)
    ELSE Hash32Len13to24(s, 24) \cup saHash32(s + 24, n - 24)

-----------------------------------------------------------------------------
(***************************************************************************)
(* namespace farmhashcc: the 32-bit functions fetch what those of mk do.   *)
(***************************************************************************)
ccHash32(s, n) == mkHash32(s, n)

ccHash32WithSeed(s, n) ==
    IF n <= 24 THEN mkHash32WithSeed(s, n)
    ELSE Hash32Len13to24(s, 24) \cup ccHash32(s + 24, n - 24)

(* do { ... s += 16; l -= 16; } while (l > 0), l starting at n - 16.        *)
CityMurmur(s, n) ==
    IF n <= 16 THEN HashLen0to16(s, n) \cup (IF n >= 8 THEN Fetch64(s) ELSE {})
    ELSE Fetch64(s + n - 8) \cup Fetch64(s + n - 16)
         \cup (UNION {Fetch64(s + 16 * i) \cup Fetch64(s + 16 * i + 8) :
                        i \in 0 .. ((n - 1) \div 16) - 1})

(* The loop takes 128 bytes a turn; the rest is read in chunks of 32 bytes  *)
(* counted from the end, the last of which reaches back into the loop's.    *)
ccLong(s, n) ==
    LET turns == n \div 128
        p == s + 128 * turns
        rest == n % 128
    IN  Fetch64(s) \cup Fetch64(s + 8) \cup Fetch64(s + 88)
        \cup (UNION {Block64(s + 64 * i) : i \in 0 .. 2 * turns - 1})
        \cup (UNION {WeakHashLen32WithSeeds(p + rest - 32 * i) :
                       i \in 1 .. (rest + 31) \div 32})

ccHash128WithSeed(s, n) == IF n < 128 THEN CityMurmur(s, n) ELSE ccLong(s, n)

ccFingerprint128(s, n) ==
    IF n >= 16
    THEN Fetch64(s) \cup Fetch64(s + 8) \cup ccHash128WithSeed(s + 16, n - 16)
    ELSE ccHash128WithSeed(s, n)

(***************************************************************************)
(* namespace util: the choice between the functions above.                 *)
(***************************************************************************)
Hash32(s, n) ==
    IF build.sse41 THEN ntHash32(s, n)
    ELSE IF build.sse42 /\ build.aesni THEN suHash32(s, n)
    ELSE IF build.sse42 THEN saHash32(s, n)
    ELSE mkHash32(s, n)

Hash32WithSeed(s, n) ==
    IF build.sse41 THEN ntHash32WithSeed(s, n)
    ELSE IF build.sse42 /\ build.aesni THEN suHash32WithSeed(s, n)
    ELSE IF build.sse42 THEN saHash32WithSeed(s, n)
    ELSE mkHash32WithSeed(s, n)

Hash64(s, n) == IF build.sse42 THEN teHash64(s, n) ELSE xoHash64(s, n)

Hash64WithSeed(s, n) == naHash64WithSeed(s, n)

Hash64WithSeeds(s, n) == naHash64WithSeeds(s, n)

(* size_t has eight bytes.                                                  *)
Hash(s, n) == Hash64(s, n)

Hash128(s, n) == ccFingerprint128(s, n)

Hash128WithSeed(s, n) == ccHash128WithSeed(s, n)

Fingerprint32(s, n) == mkHash32(s, n)

Fingerprint64(s, n) == naHash64(s, n)

Fingerprint128(s, n) == ccFingerprint128(s, n)

-----------------------------------------------------------------------------
(***************************************************************************)
(* city_hash.cpp.                                                          *)
(***************************************************************************)
CityHash32(s, n) ==
    IF n <= 24 THEN mkShort(s, n)
    ELSE Tail20(s, n)
         \cup (UNION {Block20(s + 20 * i) : i \in 0 .. ((n - 1) \div 20) - 1})

CityHashLen33to64(s, n) ==
    Fetch64(s) \cup Fetch64(s + 8) \cup Fetch64(s + n - 24) \cup Fetch64(s + n - 32)
    \cup Fetch64(s + 16) \cup Fetch64(s + 24)
    \cup Fetch64(s + n - 8) \cup Fetch64(s + n - 16)

(* The end first, then the blocks of 64 bytes.                              *)
CityLong64(s, n) ==
    LET blocks == (n - 1) - ((n - 1) % 64)
    IN  Fetch64(s + n - 40) \cup Fetch64(s + n - 16) \cup Fetch64(s + n - 56)
        \cup Fetch64(s + n - 48) \cup Fetch64(s + n - 24)
        \cup WeakHashLen32WithSeeds(s + n - 64)
        \cup WeakHashLen32WithSeeds(s + n - 32)
        \cup Fetch64(s) \cup Blocks64(s, s + blocks)

CityHash64(s, n) ==
    IF n <= 32 THEN IF n <= 16 THEN HashLen0to16(s, n) ELSE HashLen17to32(s, n)
    ELSE IF n <= 64 THEN CityHashLen33to64(s, n)
    ELSE CityLong64(s, n)

CityHash64WithSeeds(s, n) == CityHash64(s, n)

CityHash64WithSeed(s, n) == CityHash64WithSeeds(s, n)

(* while (len > 16) instead of farmhashcc's while (l > 0): the same turns.  *)
CityMurmurOfCity(s, n) == CityMurmur(s, n)

CityHash128WithSeed(s, n) ==
    IF n < 128 THEN CityMurmurOfCity(s, n) ELSE ccLong(s, n)

CityHash128(s, n) ==
    IF n >= 16
    THEN Fetch64(s) \cup Fetch64(s + 8) \cup CityHash128WithSeed(s + 16, n - 16)
    ELSE CityHash128WithSeed(s, n)

CrcChunk(s) == UNION {Fetch64(s + 8 * i) : i \in 0 .. 4}

(* 240 bytes a turn, then chunks of 40, then the chunk that ends the key.   *)
CityHashCrc256Long(s, n) ==
    LET iters == n \div 240
        rest == n % 240
        p == s + 240 * iters
        q == p + 40 * (rest \div 40)
    IN  Fetch64(s + 56) \cup Fetch64(s + 96) \cup Fetch64(s + 120) \cup Fetch64(s + 184)
        \cup (UNION {CrcChunk(s + 40 * i) : i \in 0 .. 6 * iters - 1})
        \cup (UNION {CrcChunk(p + 40 * i) : i \in 0 .. (rest \div 40) - 1})
        \cup (IF rest % 40 > 0 THEN CrcChunk(q + (rest % 40) - 40) ELSE {})

(* A short key is copied into a buffer of 240 bytes and the rest zeroed.    *)
CityHashCrc256Short(s, n) == s .. s + n - 1

CityHashCrc256(s, n) ==
    IF n >= 240 THEN CityHashCrc256Long(s, n) ELSE CityHashCrc256Short(s, n)

CityHashCrc128WithSeed(s, n) ==
    IF n <= 900 THEN CityHash128WithSeed(s, n) ELSE CityHashCrc256(s, n)

CityHashCrc128(s, n) ==
    IF n <= 900 THEN CityHash128(s, n) ELSE CityHashCrc256(s, n)

-----------------------------------------------------------------------------
HashInit == len = 0 /\ build = NoBuild

(* The library is compiled for one of the builds.                           *)
HashCompile == build = NoBuild /\ build' \in Builds /\ UNCHANGED len

(* The next call hashes a key that is one byte longer.                      *)
HashNextKey == build # NoBuild /\ len < MaxLen /\ len' = len + 1 /\ UNCHANGED build

HashNext == HashCompile \/ HashNextKey

HashSpec == HashInit /\ [][HashNext]_hashVars

(***************************************************************************)
(* What each function reads of a key of len bytes: what farmhash.hpp       *)
(* offers, for a buffer or for a string and its data() and length(); the   *)
(* functions of the namespaces that this dispatch does not reach in every  *)
(* build; and CityHash.                                                    *)
(***************************************************************************)
FarmHash ==
    {Hash(0, len), Hash32(0, len), Hash32WithSeed(0, len), Hash64(0, len),
     Hash64WithSeed(0, len), Hash64WithSeeds(0, len), Hash128(0, len),
     Hash128WithSeed(0, len), Fingerprint32(0, len), Fingerprint64(0, len),
     Fingerprint128(0, len)}

Namespaces ==
    {ccHash32(0, len), ccHash32WithSeed(0, len), mkHash32WithSeed(0, len),
     uoHash64(0, len), xoHash64(0, len), xoHash64WithSeed(0, len)}
    \cup (IF build.sse41 THEN {teHash64WithSeeds(0, len)} ELSE {})
    \cup (IF build.sse42 THEN {saHash32WithSeed(0, len)} ELSE {})
    \cup (IF build.sse42 /\ build.aesni THEN {suHash32WithSeed(0, len)} ELSE {})

CityHash ==
    {CityHash32(0, len), CityHash64WithSeed(0, len), CityHash128(0, len),
     CityHash128WithSeed(0, len)}
    \cup (IF build.sse42
          THEN {CityHashCrc128(0, len), CityHashCrc128WithSeed(0, len),
                CityHashCrc256(0, len)} ELSE {})

(***************************************************************************)
(* Every function reads the bytes of the key, all of them and no other,    *)
(* whatever the length and whatever instructions the build may use: the    *)
(* words counted from the end (s + len - 8, last64, s + len - tail_done)   *)
(* never start before the key, the loops never run past its end, and no    *)
(* path skips bytes between the blocks of its loop and the words of its    *)
(* end.                                                                    *)
(***************************************************************************)
HashReadsTheKey ==
    build # NoBuild => \A r \in FarmHash \cup Namespaces \cup CityHash : r = 0 .. len - 1
=============================================================================
