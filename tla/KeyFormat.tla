------------------------------- MODULE KeyFormat -------------------------------
(***************************************************************************)
(* db/key_format.cpp: fixed-width integers, varints, the text of a log     *)
(* record and the common prefixes of a block.  A string is a sequence of   *)
(* bytes, a pointer into it an index from 0.  Pointer Null is nullptr.     *)
(* No operator is RECURSIVE, so that theorems can be stated about them.    *)
(***************************************************************************)
EXTENDS Integers, Sequences

Null == -1

\* The byte a pointer reads.  A std::string ends in a NUL and the last page of a mapped
\* file is filled with zeros, so what lies just past the end reads 0.
At(m, p) == IF p < Len(m) THEN m[p + 1] ELSE 0

\* Bytes assigned through a pointer p into the string m.
Overwrite(m, p, bytes) ==
  SubSeq(m, 1, p) \o bytes \o SubSeq(m, p + Len(bytes) + 1, Len(m))

\* std::string_view(m + p, n).
View(m, p, n) == IF p + n <= Len(m) THEN SubSeq(m, p + 1, p + n)
                 ELSE [i \in 1..n |-> At(m, p + i - 1)]

\* kEmpty1Space ... kEmpty9Space, as format32_vec and format64_vec index them.
kSpace == 32
Spaces(n) == [i \in 1..n |-> kSpace]
format32_vec(w) == Spaces(IF w = 0 THEN 1 ELSE w)

-----------------------------------------------------------------------------
(* Varints.  v | 128 stored in a byte is 128 + (v % 128).                  *)

More(v) == 128 + (v % 128)

encodeVarint32(v) ==
  CASE v < 128 -> <<v>>
    [] v >= 128 /\ v < 16384 -> <<More(v), v \div 128>>
    [] v >= 16384 /\ v < 2097152 -> <<More(v), More(v \div 128), v \div 16384>>
    [] v >= 2097152 /\ v < 268435456 ->
         <<More(v), More(v \div 128), More(v \div 16384), v \div 2097152>>
    [] OTHER -> <<More(v), More(v \div 128), More(v \div 16384), More(v \div 2097152),
                  v \div 268435456>>

\* The number of bytes: one, and one for every shift that leaves at least 128.
varintLength[v \in Nat] == IF v < 128 THEN 1 ELSE 1 + varintLength[v \div 128]

encodeVarint64(v) ==
  LET n == varintLength[v]
      shifted[i \in 1..n] == IF i = 1 THEN v ELSE shifted[i - 1] \div 128
  IN  [i \in 1..n |-> IF i < n THEN More(shifted[i]) ELSE shifted[i]]

\* result after the byte p + k that has no continuation bit; the fifth byte is shifted
\* out of the uint32_t but for four bits.
Decoded32(m, p, k) ==
  LET b(i) == At(m, p + i) % 128 IN
    CASE k = 0 -> b(0)
      [] k = 1 -> b(0) + b(1) * 128
      [] k = 2 -> b(0) + b(1) * 128 + b(2) * 16384
      [] k = 3 -> b(0) + b(1) * 128 + b(2) * 16384 + b(3) * 2097152
      [] OTHER -> b(0) + b(1) * 128 + b(2) * 16384 + b(3) * 2097152
                  + (b(4) % 16) * 268435456

\* Byte p + k is the first one without the continuation bit, and lies before limit.
EndsAt(m, p, limit, k) ==
  /\ p + k < limit /\ At(m, p + k) < 128
  /\ \A i \in 0..4 : i < k => At(m, p + i) >= 128

\* getVarint32Ptr, with its fast path for one byte, and getVarint32PtrFallback.
getVarint32Ptr(m, p, limit) ==
  IF \E k \in 0..4 : EndsAt(m, p, limit, k)
  THEN LET k == CHOOSE k \in 0..4 : EndsAt(m, p, limit, k)
       IN  [end |-> p + k + 1, value |-> Decoded32(m, p, k)]
  ELSE [end |-> Null, value |-> 0]

\* The same loop for ten bytes; shifts are multiplications.
getVarint64Ptr(m, p, limit) ==
  LET ends == {k \in 0..9 : /\ p + k < limit /\ At(m, p + k) < 128
                            /\ \A i \in 0..(k - 1) : At(m, p + i) >= 128}
  IN  IF ends = {} THEN [end |-> Null, value |-> 0]
      ELSE LET k == CHOOSE k \in ends : TRUE
               high[i \in 0..k] == (At(m, p + i) % 128)
                                   + (IF i = k THEN 0 ELSE 128 * high[i + 1])
           IN  [end |-> p + k + 1, value |-> high[0]]

-----------------------------------------------------------------------------
(* Fixed-width integers, least significant byte first.                     *)

EncodeFixed(v, width) ==
  LET shifted[i \in 1..width] == IF i = 1 THEN v ELSE shifted[i - 1] \div 256
  IN  [i \in 1..width |-> shifted[i] % 256]
formatEncodeFixed32(v) == EncodeFixed(v, 4)
formatEncodeFixed64(v) == EncodeFixed(v, 8)
formatEncodeFixed8(v) == <<v>>

DecodeFixed(m, p, width) ==
  LET high[i \in 0..(width - 1)] ==
        At(m, p + i) + (IF i = width - 1 THEN 0 ELSE 256 * high[i + 1])
  IN  high[0]
formatDecodeFixed32(m, p) == DecodeFixed(m, p, 4)
formatDecodeFixed64(m, p) == DecodeFixed(m, p, 8)
formatDecodeFixed8(m, p) == At(m, p)

-----------------------------------------------------------------------------
(* Records of the write-ahead log.  crc stands for the checksum by the     *)
(* bytes it was computed over, text is what follows its four bytes.        *)

\* "\r\n\r\n\x00\x00\x00\x00" as a std::string ends at the first NUL.
kFlagLogEnd == <<13, 10, 13, 10>>
kSet_Request == 0
kDel_Request == 3

\* Mutant: the sizes stay blank.
SetLogWithoutSizes(key, value, number) ==
  LET blank == Spaces(8) \o Spaces(1) \o Spaces(4) \o Spaces(4) \o key \o value
               \o kFlagLogEnd
      numbered == Overwrite(blank, 0, formatEncodeFixed64(number))
  IN  [crc |-> blank, text |-> Overwrite(numbered, 8, formatEncodeFixed8(kSet_Request))]

\* The checksum is taken while number, type and sizes are still blanks.
SetContextWalLogFormat(key, value, number) ==
  LET blank == Spaces(8) \o Spaces(1) \o Spaces(4) \o Spaces(4) \o key \o value
               \o kFlagLogEnd
      numbered == Overwrite(blank, 0, formatEncodeFixed64(number))
      typed == Overwrite(numbered, 8, formatEncodeFixed8(kSet_Request))
      keyed == Overwrite(typed, 9, formatEncodeFixed32(Len(key)))
  IN  [crc |-> blank, text |-> Overwrite(keyed, 13, formatEncodeFixed32(Len(value)))]

\* fmt's decimal digits of n, and a text right-aligned to a width.
Digits[n \in Nat] == IF n < 10 THEN <<48 + n>> ELSE Append(Digits[n \div 10], 48 + (n % 10))
RightAligned(text, width, fill) ==
  IF Len(text) >= width THEN text ELSE [i \in 1..(width - Len(text)) |-> fill] \o text

DeleteContextWalLogFormat(key, number) ==
  LET text == RightAligned(Digits[number], 8, 48) \o Digits[kDel_Request]
              \o RightAligned(Digits[Len(key)], 4, kSpace)
              \o RightAligned(key, 4, kSpace) \o kFlagLogEnd
  IN  [crc |-> text, text |-> text]

-----------------------------------------------------------------------------
(* Format16PrefixStr.                                                      *)

\* Mutant: the byte that differs is counted.
SharedBytesOneMore(strings) ==
  LET shortest == CHOOSE n \in {Len(strings[j]) : j \in DOMAIN strings} :
                    \A j \in DOMAIN strings : n <= Len(strings[j])
      same(i) == \A j \in 1..(Len(strings) - 1) : strings[j][i] = strings[j + 1][i]
      unequal == {i \in 1..shortest : ~same(i)}
  IN  IF unequal = {} THEN shortest ELSE CHOOSE i \in unequal : \A k \in unequal : i <= k

\* The two loops over one of the views: how many leading bytes all of them share.
SharedBytes(strings) ==
  LET shortest == CHOOSE n \in {Len(strings[j]) : j \in DOMAIN strings} :
                    \A j \in DOMAIN strings : n <= Len(strings[j])
      same(i) == \A j \in 1..(Len(strings) - 1) : strings[j][i] = strings[j + 1][i]
      unequal == {i \in 1..shortest : ~same(i)}
  IN  IF unequal = {} THEN shortest
      ELSE (CHOOSE i \in unequal : \A k \in unequal : i <= k) - 1

Format16PrefixStr(rows) ==
  LET keys == [j \in DOMAIN rows |-> rows[j].key_view]
      vals == [j \in DOMAIN rows |-> rows[j].value_view]
  IN  [key_view |-> SubSeq(keys[1], 1, SharedBytes(keys)),
       value_view |-> SubSeq(vals[1], 1, SharedBytes(vals))]

=============================================================================
