---------------------------- MODULE RecordsProofs ----------------------------
(***************************************************************************)
(* Proofs about Records, for every set of keys and values:                 *)
(*   - a log record names its request (LogNamesRequestCorrect);            *)
(*   - a memtable answers with a write of the key, and only then           *)
(*     (GetCorrect);                                                       *)
(*   - Format16PrefixStr finds the longest prefixes (PrefixCorrect);       *)
(*   - a table's file keeps what the table had (FileCorrect).              *)
(* The operators recurse over numbers and positions.  What they compute is *)
(* shown from the least number for which it would be wrong (LeastOne).     *)
(* Numerals from 16384 on are for SMT alone.                               *)
(***************************************************************************)
EXTENDS Records, SequenceTheorems, FiniteSetTheorems, WellFoundedInduction, TLAPS

\* Natural numbers: a set of them has a least one.
LEMMA LeastOne ==
  ASSUME NEW T, T \subseteq Nat, T # {}
  PROVE  \E x \in T : \A y \in T : x <= y
<1> DEFINE Smaller == {ss \in Nat \X Nat : ss[1] < ss[2]}
<1>1. IsWellFoundedOn(Smaller, Nat)
  BY NatLessThanWellFounded, Zenon DEF OpToRel
<1>2. PICK x \in T : \A y \in T : ~ (<<y, x>> \in Smaller)
  BY <1>1, WFMin
<1>3. ASSUME NEW y \in T PROVE x <= y
  <2>1. x \in Nat /\ y \in Nat
    OBVIOUS
  <2>2. CASE y < x
    <3>1. <<y, x>> \in Nat \X Nat /\ <<y, x>>[1] = y /\ <<y, x>>[2] = x
      BY <2>1
    <3>2. <<y, x>> \in Smaller
      BY <2>2, <3>1, Zenon
    <3> QED BY <1>2, <3>2, Zenon
  <2> QED BY <2>1, <2>2
<1> QED BY <1>3

Octets == 0..255
DigitBytes == 48..57

\* f has the decimal digits of every number up to m.
HasDigits(f, m) ==
  /\ f \in [0..m -> Seq(DigitBytes)]
  /\ \A i \in 0..m : f[i] = IF i < 10 THEN <<48 + i>> ELSE Append(f[i \div 10], 48 + (i % 10))

\* The digit of a number, and the number that is left.
LEMMA DigitByte ==
  ASSUME NEW n \in Nat
  PROVE  /\ 48 + (n % 10) \in DigitBytes /\ n \div 10 \in Nat
         /\ n < 10 => 48 + n \in DigitBytes
         /\ n >= 10 => n \div 10 < n
BY DEF DigitBytes

\* There is one for every m.
LEMMA DigitsUpTo ==
  ASSUME NEW m \in Nat PROVE \E f : HasDigits(f, m)
<1> DEFINE None == {n \in Nat : ~ \E f : HasDigits(f, n)}
<1>1. ASSUME None # {} PROVE FALSE
  <2>1. None \subseteq Nat
    OBVIOUS
  <2> HIDE DEF None
  <2>2. PICK x \in None : \A y \in None : x <= y
    BY <1>1, <2>1, LeastOne
  <2>3. x \in Nat
    BY <2>1
  <2>4. CASE x = 0
    <3> DEFINE f == [i \in 0..0 |-> <<48>>]
    <3>1. <<48>> \in Seq(DigitBytes) /\ 48 + 0 = 48
      BY DEF DigitBytes
    <3>2. HasDigits(f, 0)
      BY <3>1 DEF HasDigits
    <3> HIDE DEF f
    <3>3. \E g : HasDigits(g, 0)
      BY <3>2
    <3> QED BY <2>4, <3>3 DEF None
  <2>5. CASE x # 0
    <3>1. PICK y \in Nat : y = x - 1 /\ x = y + 1 /\ y \notin None
      BY <2>2, <2>3, <2>5
    <3>2. PICK f : HasDigits(f, y)
      BY <3>1 DEF None
    <3>3. f \in [0..y -> Seq(DigitBytes)]
      BY <3>2 DEF HasDigits
    <3>4. PICK new \in Seq(DigitBytes) :
            new = IF x < 10 THEN <<48 + x>> ELSE Append(f[x \div 10], 48 + (x % 10))
      <4>1. CASE x < 10
        <5>1. PICK d \in DigitBytes : d = 48 + x
          BY <2>3, <4>1, DigitByte
        <5>2. <<d>> \in Seq(DigitBytes)
          OBVIOUS
        <5> QED BY <4>1, <5>1, <5>2
      <4>2. CASE ~ (x < 10)
        <5>1. PICK d \in DigitBytes : d = 48 + (x % 10)
          BY <2>3, DigitByte
        <5>2. x \div 10 \in 0..y
          BY <2>3, <3>1, <4>2, DigitByte
        <5>3. PICK s \in Seq(DigitBytes) : s = f[x \div 10]
          BY <3>3, <5>2
        <5>4. Append(s, d) \in Seq(DigitBytes)
          OBVIOUS
        <5> QED BY <4>2, <5>1, <5>3, <5>4
      <4> QED BY <4>1, <4>2
    <3> DEFINE g == [i \in 0..x |-> IF i = x THEN new ELSE f[i]]
    <3>5. g[x] = new /\ \A i \in 0..y : g[i] = f[i]
      BY <2>3, <3>1
    <3>6. g \in [0..x -> Seq(DigitBytes)]
      BY <3>1, <3>3
    <3> HIDE DEF g
    <3>7. ASSUME NEW i \in 0..x
          PROVE  g[i] = IF i < 10 THEN <<48 + i>> ELSE Append(g[i \div 10], 48 + (i % 10))
      <4>1. i \in Nat
        OBVIOUS
      <4>2. i >= 10 => i \div 10 \in 0..y
        BY <3>1, <4>1, DigitByte
      <4>3. i >= 10 => g[i \div 10] = f[i \div 10]
        BY <3>5, <4>2
      <4>4. CASE i = x
        BY <3>4, <3>5, <4>1, <4>3, <4>4
      <4>5. CASE i # x
        <5>1. i \in 0..y
          BY <3>1, <4>1, <4>5
        <5>2. f[i] = IF i < 10 THEN <<48 + i>> ELSE Append(f[i \div 10], 48 + (i % 10))
          BY <3>2, <5>1 DEF HasDigits
        <5>3. g[i] = f[i]
          BY <3>5, <5>1
        <5> QED BY <4>1, <4>3, <5>2, <5>3
      <4> QED BY <4>4, <4>5
    <3>8. HasDigits(g, x)
      BY <3>6, <3>7 DEF HasDigits
    <3> QED BY <2>2, <3>8 DEF None
  <2> QED BY <2>4, <2>5
<1> QED BY <1>1

\* Two of them agree.
LEMMA DigitsAgree ==
  ASSUME NEW m \in Nat, NEW f, HasDigits(f, m), NEW n \in Nat, NEW g, HasDigits(g, n),
         NEW i \in Nat, i <= m, i <= n
  PROVE  f[i] = g[i]
<1> DEFINE Bad == {j \in Nat : j <= m /\ j <= n /\ f[j] # g[j]}
<1>1. ASSUME Bad # {} PROVE FALSE
  <2>1. Bad \subseteq Nat
    OBVIOUS
  <2> HIDE DEF Bad
  <2>2. PICK x \in Bad : \A y \in Bad : x <= y
    BY <1>1, <2>1, LeastOne
  <2>3. x \in Nat /\ x <= m /\ x <= n /\ f[x] # g[x]
    BY DEF Bad
  <2>4. /\ f[x] = IF x < 10 THEN <<48 + x>> ELSE Append(f[x \div 10], 48 + (x % 10))
        /\ g[x] = IF x < 10 THEN <<48 + x>> ELSE Append(g[x \div 10], 48 + (x % 10))
    <3>1. x \in 0..m /\ x \in 0..n
      BY <2>3
    <3> QED BY <3>1 DEF HasDigits
  <2>5. ~ (x < 10) /\ f[x \div 10] # g[x \div 10]
    BY <2>3, <2>4
  <2>6. PICK y \in Nat : y = x \div 10 /\ y < x
    BY <2>3, <2>5, DigitByte
  <2>7. y \in Bad
    BY <2>3, <2>5, <2>6 DEF Bad
  <2> QED BY <2>2, <2>3, <2>6, <2>7
<1> QED BY <1>1

\* Digits is the function its definition asks for.
LEMMA DigitsFacts ==
  /\ \A n \in Nat : Digits[n] \in Seq(DigitBytes)
  /\ \A n \in Nat : Digits[n] = IF n < 10 THEN <<48 + n>>
                                ELSE Append(Digits[n \div 10], 48 + (n % 10))
<1> DEFINE Solves(g) == g = [n \in Nat |-> IF n < 10 THEN <<48 + n>>
                                           ELSE Append(g[n \div 10], 48 + (n % 10))]
           F(n) == CHOOSE f : HasDigits(f, n)
           D == [n \in Nat |-> F(n)[n]]
<1>1. \A n \in Nat : HasDigits(F(n), n)
  BY DigitsUpTo
<1> HIDE DEF F
<1>2. ASSUME NEW n \in Nat
      PROVE  /\ D[n] \in Seq(DigitBytes)
             /\ D[n] = IF n < 10 THEN <<48 + n>> ELSE Append(D[n \div 10], 48 + (n % 10))
  <2>1. D[n] = F(n)[n] /\ n \in 0..n
    OBVIOUS
  <2>2. /\ F(n)[n] \in Seq(DigitBytes)
        /\ F(n)[n] = IF n < 10 THEN <<48 + n>> ELSE Append(F(n)[n \div 10], 48 + (n % 10))
    BY <1>1, <2>1 DEF HasDigits
  <2>3. ASSUME n >= 10 PROVE F(n)[n \div 10] = D[n \div 10]
    <3>1. PICK y \in Nat : y = n \div 10 /\ y < n
      BY <2>3, DigitByte
    <3>2. D[y] = F(y)[y]
      OBVIOUS
    <3>3. HasDigits(F(n), n) /\ HasDigits(F(y), y)
      BY <1>1
    <3>4. y <= n /\ y <= y
      BY <3>1
    <3>5. F(n)[y] = F(y)[y]
      BY <3>3, <3>4, DigitsAgree
    <3> QED BY <3>1, <3>2, <3>5
  <2> HIDE DEF D
  <2> QED BY <2>1, <2>2, <2>3
<1>3. Solves(D)
  <2>1. D = [n \in Nat |-> D[n]]
    OBVIOUS
  <2> HIDE DEF D
  <2>2. [n \in Nat |-> D[n]] = [n \in Nat |-> IF n < 10 THEN <<48 + n>>
                                              ELSE Append(D[n \div 10], 48 + (n % 10))]
    BY <1>2, Zenon
  <2> QED BY <2>1, <2>2, Zenon
<1>4. Digits = CHOOSE g : Solves(g)
  BY DEF Digits
<1> HIDE DEF D, Solves
<1>5. Solves(Digits)
  BY <1>3, <1>4
<1>6. ASSUME NEW n \in Nat
      PROVE Digits[n] = IF n < 10 THEN <<48 + n>> ELSE Append(Digits[n \div 10], 48 + (n % 10))
  <2> DEFINE r == [k \in Nat |-> IF k < 10 THEN <<48 + k>>
                                 ELSE Append(Digits[k \div 10], 48 + (k % 10))]
  <2>1. r[n] = IF n < 10 THEN <<48 + n>> ELSE Append(Digits[n \div 10], 48 + (n % 10))
    OBVIOUS
  <2>2. Digits = r
    BY <1>5 DEF Solves
  <2> HIDE DEF r
  <2> QED BY <2>1, <2>2
<1> DEFINE Bad == {n \in Nat : Digits[n] \notin Seq(DigitBytes)}
<1>7. ASSUME Bad # {} PROVE FALSE
  <2>1. Bad \subseteq Nat
    OBVIOUS
  <2> HIDE DEF Bad
  <2>2. PICK x \in Bad : \A y \in Bad : x <= y
    BY <1>7, <2>1, LeastOne
  <2>3. x \in Nat /\ Digits[x] \notin Seq(DigitBytes)
    BY DEF Bad
  <2>4. CASE x < 10
    <3>1. PICK d \in DigitBytes : d = 48 + x
      BY <2>3, <2>4, DigitByte
    <3>2. <<d>> \in Seq(DigitBytes)
      OBVIOUS
    <3> QED BY <1>6, <2>3, <2>4, <3>1, <3>2
  <2>5. CASE ~ (x < 10)
    <3>1. PICK y \in Nat : y = x \div 10 /\ y < x
      BY <2>3, <2>5, DigitByte
    <3>2. y \notin Bad
      BY <2>2, <2>3, <3>1
    <3>3. PICK s \in Seq(DigitBytes) : s = Digits[y]
      BY <3>2 DEF Bad
    <3>4. PICK d \in DigitBytes : d = 48 + (x % 10)
      BY <2>3, DigitByte
    <3>5. Append(s, d) \in Seq(DigitBytes)
      OBVIOUS
    <3> QED BY <1>6, <2>3, <2>5, <3>1, <3>3, <3>4, <3>5
  <2> QED BY <2>4, <2>5
<1> QED BY <1>6, <1>7

\* A number below ten has one digit.
LEMMA SmallDigits ==
  ASSUME NEW n \in Nat, n < 10 PROVE Digits[n] = <<48 + n>>
BY DigitsFacts

\* A greater number has no fewer digits, and every number has one.
LEMMA DigitsGrow ==
  ASSUME NEW m \in Nat, NEW n \in Nat, m <= n
  PROVE  Len(Digits[m]) <= Len(Digits[n]) /\ Len(Digits[m]) >= 1
<1>0. ASSUME NEW i \in Nat
      PROVE  /\ Len(Digits[i]) \in Nat
             /\ i < 10 => Len(Digits[i]) = 1
             /\ i >= 10 => Len(Digits[i]) = Len(Digits[i \div 10]) + 1
                           /\ Len(Digits[i \div 10]) \in Nat
  <2>1. Digits[i] \in Seq(DigitBytes)
    BY DigitsFacts
  <2>2. CASE i < 10
    <3>1. Digits[i] = <<48 + i>>
      BY <2>2, DigitsFacts
    <3> QED BY <2>1, <2>2, <3>1
  <2>3. CASE ~ (i < 10)
    <3>1. PICK j \in Nat : j = i \div 10
      BY DigitByte
    <3>2. PICK s \in Seq(DigitBytes) : s = Digits[j]
      BY DigitsFacts
    <3>3. Digits[i] = Append(s, 48 + (i % 10))
      BY <2>3, <3>1, <3>2, DigitsFacts
    <3>4. Len(Digits[i]) = Len(s) + 1 /\ Len(s) \in Nat
      BY <3>3
    <3> QED BY <2>1, <2>3, <3>1, <3>2, <3>4
  <2> QED BY <2>2, <2>3
<1> DEFINE Bad == {i \in Nat : \/ Len(Digits[i]) < 1
                               \/ \E j \in Nat : i <= j /\ ~ (Len(Digits[i]) <= Len(Digits[j]))}
<1>1. ASSUME Bad # {} PROVE FALSE
  <2>1. Bad \subseteq Nat
    OBVIOUS
  <2> HIDE DEF Bad
  <2>2. PICK x \in Bad : \A y \in Bad : x <= y
    BY <1>1, <2>1, LeastOne
  <2>3. x \in Nat
    BY <2>1
  <2>4. CASE x < 10
    <3>1. Len(Digits[x]) = 1
      BY <1>0, <2>3, <2>4
    <3>2. Len(Digits[x]) < 1 \/ \E j \in Nat : x <= j /\ ~ (Len(Digits[x]) <= Len(Digits[j]))
      BY <2>2 DEF Bad
    <3>3. PICK j \in Nat : ~ (Len(Digits[x]) <= Len(Digits[j]))
      BY <3>1, <3>2
    <3>4. CASE j < 10
      <4>1. Len(Digits[j]) = 1
        BY <1>0, <3>4
      <4> QED BY <3>1, <3>3, <4>1
    <3>5. CASE j >= 10
      <4>1. PICK l \in Nat : l = Len(Digits[j \div 10]) /\ Len(Digits[j]) = l + 1
        BY <1>0, <3>5
      <4>2. 1 <= l + 1
        OBVIOUS
      <4> QED BY <3>1, <3>3, <4>1, <4>2
    <3> QED BY <3>4, <3>5
  <2>5. CASE ~ (x < 10)
    <3>1. PICK y \in Nat : y = x \div 10 /\ y < x
      BY <2>3, <2>5, DigitByte
    <3>2. y \notin Bad
      BY <2>2, <2>3, <3>1
    <3>3. Len(Digits[x]) = Len(Digits[y]) + 1 /\ Len(Digits[y]) \in Nat
      BY <1>0, <2>3, <2>5, <3>1
    <3>4. PICK j \in Nat : x <= j /\ ~ (Len(Digits[x]) <= Len(Digits[j]))
      BY <2>2, <3>3 DEF Bad
    <3>5. PICK k \in Nat : k = j \div 10 /\ y <= k /\ j >= 10
      <4>1. j >= 10 /\ j \div 10 \in Nat /\ y <= j \div 10
        BY <2>3, <2>5, <3>1, <3>4
      <4> QED BY <4>1
    <3>6. Len(Digits[j]) = Len(Digits[k]) + 1 /\ Len(Digits[k]) \in Nat
      BY <1>0, <3>5
    <3>7. Len(Digits[y]) <= Len(Digits[k])
      BY <3>2, <3>5 DEF Bad
    <3> QED BY <3>3, <3>4, <3>6, <3>7
  <2> QED BY <2>4, <2>5
<1>2. m \notin Bad /\ Len(Digits[m]) \in Nat
  BY <1>0, <1>1
<1> QED BY <1>2

-----------------------------------------------------------------------------
Max2(m, n) == IF m >= n THEN m ELSE n

\* A function on 1..n is a sequence of length n.
LEMMA FunctionIsSeq ==
  ASSUME NEW S, NEW n \in Nat, NEW f \in [1..n -> S]
  PROVE  f \in Seq(S) /\ Len(f) = n
OBVIOUS

\* n blanks.
LEMMA SpacesType ==
  ASSUME NEW n \in Nat
  PROVE  Spaces(n) \in Seq(Octets) /\ Len(Spaces(n)) = n
<1>1. kSpace \in Octets
  BY DEF kSpace, Octets
<1>2. Spaces(n) \in [1..n -> Octets]
  BY <1>1 DEF Spaces
<1> QED BY <1>2

\* r is s followed by t.
Joined(r, s, t) ==
  /\ Len(r) = Len(s) + Len(t)
  /\ \A i \in 1..Len(s) : r[i] = s[i]
  /\ \A i \in 1..Len(t) : r[Len(s) + i] = t[i]

\* Concatenation joins.
LEMMA ConcatJoins ==
  ASSUME NEW S, NEW s \in Seq(S), NEW t \in Seq(S)
  PROVE  s \o t \in Seq(S) /\ Joined(s \o t, s, t)
<1>1. PICK l \in Nat, k \in Nat : l = Len(s) /\ k = Len(t)
  OBVIOUS
<1>2. s \o t \in Seq(S) /\ Len(s \o t) = l + k
  BY <1>1
<1>3. \A i \in 1..l : (s \o t)[i] = s[i]
  BY <1>1
<1>4. ASSUME NEW i \in 1..k PROVE (s \o t)[l + i] = t[i]
  <2>1. PICK j \in Nat : j = l + i /\ j \in 1..(l + k) /\ ~ (j <= l) /\ j - l = i
    <3>1. l + i \in Nat /\ l + i \in 1..(l + k) /\ ~ (l + i <= l) /\ (l + i) - l = i
      OBVIOUS
    <3> QED BY <3>1
  <2>2. (s \o t)[j] = t[j - l]
    BY <1>1, <2>1
  <2> QED BY <2>1, <2>2
<1> QED BY <1>1, <1>2, <1>3, <1>4 DEF Joined

\* r is m with the bytes from p on replaced.
Replaced(r, m, p, bytes) ==
  /\ Len(r) = Len(m)
  /\ \A i \in 1..Len(m) : i <= p => r[i] = m[i]
  /\ \A i \in 1..Len(bytes) : r[p + i] = bytes[i]
  /\ \A i \in 1..Len(m) : i > p + Len(bytes) => r[i] = m[i]

\* Bytes written inside a text replace as many bytes of it.
LEMMA OverwriteReplaces ==
  ASSUME NEW S, NEW m \in Seq(S), NEW bytes \in Seq(S), NEW p \in Nat,
         p + Len(bytes) <= Len(m)
  PROVE  Overwrite(m, p, bytes) \in Seq(S) /\ Replaced(Overwrite(m, p, bytes), m, p, bytes)
<1>1. PICK l \in Nat, k \in Nat : l = Len(m) /\ k = Len(bytes) /\ p + k <= l
  BY LenProperties
<1>2. PICK a \in Seq(S) : a = SubSeq(m, 1, p) /\ Len(a) = p /\ \A i \in 1..p : a[i] = m[i]
  <2>1. p \in 0..Len(m)
    BY <1>1
  <2>2. SubSeq(m, 1, p) \in Seq(S)
    BY <1>1, <2>1
  <2>3. Len(SubSeq(m, 1, p)) = p
    BY <1>1, <2>1
  <2>4. \A i \in 1..p : SubSeq(m, 1, p)[i] = m[i]
    BY <1>1, <2>1
  <2> QED BY <2>2, <2>3, <2>4
<1>3. PICK q \in Nat : q = p + k + 1 /\ q >= 1 /\ q <= l + 1
  BY <1>1
<1>4. PICK c \in Seq(S) : /\ c = SubSeq(m, q, l) /\ Len(c) = l - (p + k)
                          /\ \A i \in 1..(l - (p + k)) : c[i] = m[p + k + i]
  <2>2. SubSeq(m, q, l) \in Seq(S)
    BY <1>1, <1>3
  <2>3. Len(SubSeq(m, q, l)) = l - (p + k)
    BY <1>1, <1>3
  <2>4. \A i \in 1..(l - (p + k)) : SubSeq(m, q, l)[i] = m[p + k + i]
    BY <1>1, <1>3
  <2> QED BY <2>2, <2>3, <2>4
<1>5. Overwrite(m, p, bytes) = a \o bytes \o c
  BY <1>1, <1>2, <1>3, <1>4 DEF Overwrite
<1>6. PICK ab \in Seq(S) : /\ ab = a \o bytes /\ Len(ab) = p + k
                           /\ \A i \in 1..p : ab[i] = m[i]
                           /\ \A i \in 1..k : ab[p + i] = bytes[i]
  <2>1. a \o bytes \in Seq(S) /\ Joined(a \o bytes, a, bytes)
    BY ConcatJoins
  <2>2. Len(a \o bytes) = p + k
    BY <1>1, <1>2, <2>1 DEF Joined
  <2>3. \A i \in 1..p : (a \o bytes)[i] = m[i]
    BY <1>2, <2>1 DEF Joined
  <2>4. \A i \in 1..k : (a \o bytes)[p + i] = bytes[i]
    BY <1>1, <1>2, <2>1 DEF Joined
  <2> QED BY <2>1, <2>2, <2>3, <2>4
<1>7. PICK r \in Seq(S) : /\ r = ab \o c /\ Len(r) = l
                          /\ \A i \in 1..(p + k) : r[i] = ab[i]
                          /\ \A i \in 1..(l - (p + k)) : r[p + k + i] = c[i]
  <2>1. ab \o c \in Seq(S) /\ Joined(ab \o c, ab, c)
    BY ConcatJoins
  <2>2. Len(ab) + Len(c) = l
    BY <1>1, <1>4, <1>6
  <2>3. Len(ab \o c) = l
    BY <2>1, <2>2 DEF Joined
  <2>4. \A i \in 1..(p + k) : (ab \o c)[i] = ab[i]
    BY <1>6, <2>1 DEF Joined
  <2>5. \A i \in 1..(l - (p + k)) : (ab \o c)[p + k + i] = c[i]
    BY <1>4, <1>6, <2>1 DEF Joined
  <2> QED BY <2>1, <2>3, <2>4, <2>5
<1>8. Overwrite(m, p, bytes) = r
  BY <1>5, <1>6, <1>7
<1>9. ASSUME NEW i \in 1..l, i <= p PROVE r[i] = m[i]
  <2>1. i \in 1..p /\ i \in 1..(p + k)
    BY <1>1, <1>9
  <2> QED BY <1>6, <1>7, <2>1
<1>10. ASSUME NEW i \in 1..k PROVE r[p + i] = bytes[i]
  <2>1. p + i \in 1..(p + k)
    BY <1>1
  <2> QED BY <1>6, <1>7, <2>1
<1>11. ASSUME NEW i \in 1..l, i > p + k PROVE r[i] = m[i]
  <2>1. PICK j \in 1..(l - (p + k)) : i = p + k + j
    <3>1. i - (p + k) \in 1..(l - (p + k)) /\ i = p + k + (i - (p + k))
      BY <1>1, <1>11
    <3> QED BY <3>1
  <2> QED BY <1>4, <1>7, <2>1
<1>12. Replaced(r, m, p, bytes)
  BY <1>1, <1>7, <1>9, <1>10, <1>11 DEF Replaced
<1> QED BY <1>8, <1>12

-----------------------------------------------------------------------------
\* The four bytes of a number below 2^32.
FourBytes(b, v) ==
  /\ b[1] = v % 256 /\ b[2] = (v \div 256) % 256
  /\ b[3] = ((v \div 256) \div 256) % 256 /\ b[4] = (((v \div 256) \div 256) \div 256) % 256

\* formatEncodeFixed32 writes these four bytes.
LEMMA Fixed32Bytes ==
  ASSUME NEW v \in Nat
  PROVE  /\ formatEncodeFixed32(v) \in Seq(Octets) /\ Len(formatEncodeFixed32(v)) = 4
         /\ FourBytes(formatEncodeFixed32(v), v)
<1> DEFINE Solves(g) == g = [i \in 1..4 |-> IF i = 1 THEN v ELSE g[i - 1] \div 256]
           e == CHOOSE g : Solves(g)
           d == [i \in 1..4 |-> IF i = 1 THEN v ELSE IF i = 2 THEN v \div 256
                                ELSE IF i = 3 THEN (v \div 256) \div 256
                                ELSE ((v \div 256) \div 256) \div 256]
<1>1. ASSUME NEW i \in 1..4 PROVE d[i] = IF i = 1 THEN v ELSE d[i - 1] \div 256
  <2>1. i = 1 \/ i = 2 \/ i = 3 \/ i = 4
    OBVIOUS
  <2>2. d[1] = v /\ d[2] = v \div 256 /\ d[3] = (v \div 256) \div 256
        /\ d[4] = ((v \div 256) \div 256) \div 256
    OBVIOUS
  <2> HIDE DEF d
  <2>3. CASE i = 1
    BY <2>2, <2>3
  <2>4. CASE i = 2
    <3>1. i - 1 = 1 /\ i # 1
      BY <2>4
    <3> QED BY <2>2, <2>4, <3>1
  <2>5. CASE i = 3
    <3>1. i - 1 = 2 /\ i # 1
      BY <2>5
    <3> QED BY <2>2, <2>5, <3>1
  <2>6. CASE i = 4
    <3>1. i - 1 = 3 /\ i # 1
      BY <2>6
    <3> QED BY <2>2, <2>6, <3>1
  <2> QED BY <2>1, <2>3, <2>4, <2>5, <2>6
<1>2. Solves(d)
  <2>1. d = [i \in 1..4 |-> d[i]]
    OBVIOUS
  <2> HIDE DEF d
  <2> DEFINE Next(i) == IF i = 1 THEN v ELSE d[i - 1] \div 256
  <2>2. \A i \in 1..4 : d[i] = Next(i)
    BY <1>1
  <2>3. Solves(d) <=> d = [i \in 1..4 |-> Next(i)]
    OBVIOUS
  <2> HIDE DEF Next, Solves
  <2>4. [i \in 1..4 |-> d[i]] = [i \in 1..4 |-> Next(i)]
    BY <2>2
  <2> QED BY <2>1, <2>3, <2>4
<1> HIDE DEF d
<1>3. Solves(e)
  BY <1>2
<1>4. formatEncodeFixed32(v) = [i \in 1..4 |-> e[i] % 256]
  BY DEF formatEncodeFixed32, EncodeFixed
<1> HIDE DEF e
<1>5. \A i \in 1..4 : e[i] = IF i = 1 THEN v ELSE e[i - 1] \div 256
  <2> DEFINE r == [i \in 1..4 |-> IF i = 1 THEN v ELSE e[i - 1] \div 256]
  <2>1. \A i \in 1..4 : r[i] = IF i = 1 THEN v ELSE e[i - 1] \div 256
    OBVIOUS
  <2>2. e = r
    BY <1>3
  <2> HIDE DEF r
  <2> QED BY <2>1, <2>2
<1> HIDE DEF Solves
<1>6. e[1] = v /\ e[2] = e[1] \div 256 /\ e[3] = e[2] \div 256 /\ e[4] = e[3] \div 256
  <2>1. e[1] = v
    BY <1>5
  <2>2. e[2] = e[2 - 1] \div 256 /\ 2 - 1 = 1
    BY <1>5
  <2>3. e[3] = e[3 - 1] \div 256 /\ 3 - 1 = 2
    BY <1>5
  <2>4. e[4] = e[4 - 1] \div 256 /\ 4 - 1 = 3
    BY <1>5
  <2> QED BY <2>1, <2>2, <2>3, <2>4
<1>7. e[1] \in Nat /\ e[2] \in Nat /\ e[3] \in Nat /\ e[4] \in Nat
  <2>1. \A x \in Nat : x \div 256 \in Nat
    OBVIOUS
  <2> QED BY <1>6, <2>1
<1>8. \A i \in 1..4 : e[i] % 256 \in Octets
  <2>1. \A x \in Nat : x % 256 \in Octets
    BY DEF Octets
  <2>2. \A i \in 1..4 : i = 1 \/ i = 2 \/ i = 3 \/ i = 4
    OBVIOUS
  <2> QED BY <1>7, <2>1, <2>2
<1> DEFINE f == [i \in 1..4 |-> e[i] % 256]
<1>9. f \in [1..4 -> Octets]
  BY <1>8
<1>10. f \in Seq(Octets) /\ Len(f) = 4
  BY <1>9
<1>11. f[1] = e[1] % 256 /\ f[2] = e[2] % 256 /\ f[3] = e[3] % 256 /\ f[4] = e[4] % 256
  OBVIOUS
<1> HIDE DEF f
<1>12. FourBytes(f, v)
  BY <1>6, <1>11 DEF FourBytes
<1> QED BY <1>4, <1>10, <1>12 DEF f

\* They determine it.
LEMMA FourBytesAgree ==
  ASSUME NEW v \in Nat, Fits32(v), NEW w \in Nat, Fits32(w),
         NEW b, FourBytes(b, v), NEW c, FourBytes(c, w),
         b[1] = c[1], b[2] = c[2], b[3] = c[3], b[4] = c[4]
  PROVE  v = w
<1>1. ASSUME NEW x \in Nat, NEW y \in Nat, x % 256 = y % 256, x \div 256 = y \div 256
      PROVE  x = y
  BY <1>1
<1>2. \A x \in Nat : x \div 256 \in Nat
  OBVIOUS
<1> DEFINE v1 == v \div 256  v2 == v1 \div 256  v3 == v2 \div 256
           w1 == w \div 256  w2 == w1 \div 256  w3 == w2 \div 256
<1>3. v1 \in Nat /\ v2 \in Nat /\ v3 \in Nat /\ w1 \in Nat /\ w2 \in Nat /\ w3 \in Nat
  <2>1. v \in Nat /\ w \in Nat
    BY DEF Fits32
  <2>2. v \div 256 \in Nat /\ w \div 256 \in Nat
    BY <1>2, <2>1
  <2>3. (v \div 256) \div 256 \in Nat /\ (w \div 256) \div 256 \in Nat
    BY <1>2, <2>2
  <2>4. ((v \div 256) \div 256) \div 256 \in Nat /\ ((w \div 256) \div 256) \div 256 \in Nat
    BY <1>2, <2>3
  <2> QED BY <2>2, <2>3, <2>4
<1>4. v3 % 256 = w3 % 256 /\ v2 % 256 = w2 % 256 /\ v1 % 256 = w1 % 256 /\ v % 256 = w % 256
  BY DEF FourBytes
<1>5. v3 < 256 /\ w3 < 256 /\ v \in Nat /\ w \in Nat
  BY DEF Fits32
<1>9. v2 \div 256 = v3 /\ w2 \div 256 = w3 /\ v1 \div 256 = v2 /\ w1 \div 256 = w2
      /\ v \div 256 = v1 /\ w \div 256 = w1
  OBVIOUS
<1> HIDE DEF v1, v2, v3, w1, w2, w3
<1>6. v3 = w3
  BY <1>3, <1>4, <1>5
<1>7. v2 = w2
  BY <1>1, <1>3, <1>4, <1>6, <1>9
<1>8. v1 = w1
  BY <1>1, <1>3, <1>4, <1>7, <1>9
<1> QED BY <1>1, <1>3, <1>4, <1>5, <1>8, <1>9

-----------------------------------------------------------------------------
\* The bytes of a Set's record: its type, the two sizes, the key and the value.
SetLayout(t, k, v) ==
  /\ t[9] = 0
  /\ \A i \in 1..4 : /\ t[9 + i] = formatEncodeFixed32(Len(k))[i]
                     /\ t[13 + i] = formatEncodeFixed32(Len(v))[i]
  /\ \A i \in 1..Len(k) : t[17 + i] = k[i]
  /\ \A i \in 1..Len(v) : t[17 + Len(k) + i] = v[i]

\* What lies behind the type in the blank.
BlankLayout(t, k, v) ==
  /\ Len(t) = 21 + Len(k) + Len(v)
  /\ \A i \in 1..Len(k) : t[17 + i] = k[i]
  /\ \A i \in 1..Len(v) : t[17 + Len(k) + i] = v[i]

\* The blank of a Set's log record has key and value where the layout says.
LEMMA BlankIsLaidOut ==
  ASSUME NEW S, Octets \subseteq S, NEW k \in Seq(S), NEW v \in Seq(S)
  PROVE  LET blank == Spaces(8) \o Spaces(1) \o Spaces(4) \o Spaces(4) \o k \o v
                      \o kFlagLogEnd
         IN  blank \in Seq(S) /\ BlankLayout(blank, k, v)
<1>1. PICK a \in Seq(S) : a = Spaces(8) \o Spaces(1) \o Spaces(4) \o Spaces(4) /\ Len(a) = 17
  <2>0. \A s \in Seq(Octets) : s \in Seq(S)
    OBVIOUS
  <2>1. PICK s8 \in Seq(S), s1 \in Seq(S), s4 \in Seq(S) :
          /\ s8 = Spaces(8) /\ s1 = Spaces(1) /\ s4 = Spaces(4)
          /\ Len(s8) = 8 /\ Len(s1) = 1 /\ Len(s4) = 4
    BY <2>0, SpacesType
  <2>2. PICK s9 \in Seq(S) : s9 = s8 \o s1 /\ Len(s9) = 9
    <3>1. s8 \o s1 \in Seq(S) /\ Joined(s8 \o s1, s8, s1)
      BY ConcatJoins
    <3>3. Len(s8 \o s1) = Len(s8) + Len(s1)
      BY <3>1 DEF Joined
    <3>4. Len(s8) = 8 /\ Len(s1) = 1 /\ 8 + 1 = 9
      BY <2>1
    <3>2. Len(s8 \o s1) = 9
      BY <3>3, <3>4, Zenon
    <3> QED BY <3>1, <3>2
  <2>3. PICK s13 \in Seq(S) : s13 = s9 \o s4 /\ Len(s13) = 13
    <3>1. s9 \o s4 \in Seq(S) /\ Joined(s9 \o s4, s9, s4)
      BY ConcatJoins
    <3>3. Len(s9 \o s4) = Len(s9) + Len(s4)
      BY <3>1 DEF Joined
    <3>4. Len(s9) = 9 /\ Len(s4) = 4 /\ 9 + 4 = 13
      BY <2>1, <2>2
    <3>2. Len(s9 \o s4) = 13
      BY <3>3, <3>4, Zenon
    <3> QED BY <3>1, <3>2
  <2>4. PICK s17 \in Seq(S) : s17 = s13 \o s4 /\ Len(s17) = 17
    <3>1. s13 \o s4 \in Seq(S) /\ Joined(s13 \o s4, s13, s4)
      BY ConcatJoins
    <3>3. Len(s13 \o s4) = Len(s13) + Len(s4)
      BY <3>1 DEF Joined
    <3>4. Len(s13) = 13 /\ Len(s4) = 4 /\ 13 + 4 = 17
      BY <2>1, <2>3
    <3>2. Len(s13 \o s4) = 17
      BY <3>3, <3>4, Zenon
    <3> QED BY <3>1, <3>2
  <2> QED BY <2>1, <2>2, <2>3, <2>4
<1>2. PICK z \in Seq(S) : z = kFlagLogEnd /\ Len(z) = 4
  <2>1. kFlagLogEnd \in Seq(Octets) /\ Len(kFlagLogEnd) = 4
    BY DEF kFlagLogEnd, Octets
  <2> QED BY <2>1
<1>3. PICK x \in Nat, y \in Nat : x = Len(k) /\ y = Len(v)
  OBVIOUS
<1>4. PICK ak \in Seq(S) : ak = a \o k /\ Joined(ak, a, k)
  BY ConcatJoins
<1>5. Len(ak) = 17 + x /\ \A i \in 1..x : ak[17 + i] = k[i]
  BY <1>1, <1>3, <1>4 DEF Joined
<1>6. PICK av \in Seq(S) : av = ak \o v /\ Joined(av, ak, v)
  BY ConcatJoins
<1>7. Len(av) = 17 + x + y
  BY <1>3, <1>5, <1>6 DEF Joined
<1>8. \A i \in 1..(17 + x) : av[i] = ak[i]
  BY <1>5, <1>6 DEF Joined
<1>9. \A i \in 1..y : av[17 + x + i] = v[i]
  BY <1>3, <1>5, <1>6 DEF Joined
<1>10. PICK b \in Seq(S) : b = av \o z /\ Joined(b, av, z)
  BY ConcatJoins
<1>11. Len(b) = 21 + x + y
  BY <1>2, <1>3, <1>7, <1>10 DEF Joined
<1>12. \A i \in 1..(17 + x + y) : b[i] = av[i]
  BY <1>7, <1>10 DEF Joined
<1>13. ASSUME NEW i \in 1..x PROVE b[17 + i] = k[i]
  <2>1. 17 + i \in 1..(17 + x) /\ 17 + i \in 1..(17 + x + y)
    OBVIOUS
  <2> QED BY <1>5, <1>8, <1>12, <2>1
<1>14. ASSUME NEW i \in 1..y PROVE b[17 + x + i] = v[i]
  <2>1. 17 + x + i \in 1..(17 + x + y)
    OBVIOUS
  <2> QED BY <1>9, <1>12, <2>1
<1>15. BlankLayout(b, k, v)
  BY <1>3, <1>11, <1>13, <1>14 DEF BlankLayout
<1>16. b = Spaces(8) \o Spaces(1) \o Spaces(4) \o Spaces(4) \o k \o v \o kFlagLogEnd
  BY <1>1, <1>2, <1>4, <1>6, <1>10
<1> QED BY <1>15, <1>16

\* A Set's record is laid out so.
LEMMA SetIsLaidOut ==
  ASSUME NEW k \in Seq(Octets), NEW v \in Seq(Octets), NEW n
  PROVE  SetLayout(SetContextWalLogFormat(k, v, n).text, k, v)
<1> DEFINE e == formatEncodeFixed64(n)
           S == Octets \cup {e[i] : i \in 1..8}
           blank == Spaces(8) \o Spaces(1) \o Spaces(4) \o Spaces(4) \o k \o v \o kFlagLogEnd
           numbered == Overwrite(blank, 0, e)
           typed == Overwrite(numbered, 8, formatEncodeFixed8(kSet_Request))
           keyed == Overwrite(typed, 9, formatEncodeFixed32(Len(k)))
           text == Overwrite(keyed, 13, formatEncodeFixed32(Len(v)))
<1>1. SetContextWalLogFormat(k, v, n).text = text
  BY DEF SetContextWalLogFormat
<1>2. PICK x \in Nat, y \in Nat : x = Len(k) /\ y = Len(v)
  OBVIOUS
<1>3. e \in Seq(S) /\ Len(e) = 8
  <2> DEFINE Shifted(g) == g = [i \in 1..8 |-> IF i = 1 THEN n ELSE g[i - 1] \div 256]
             c == CHOOSE g : Shifted(g)
  <2>1. e = [i \in 1..8 |-> c[i] % 256]
    BY DEF formatEncodeFixed64, EncodeFixed
  <2> HIDE DEF c
  <2>2. e = [i \in 1..8 |-> e[i]]
    BY <2>1
  <2> HIDE DEF e
  <2>3. e \in [1..8 -> S]
    BY <2>2
  <2> HIDE DEF S
  <2> QED BY <2>3, FunctionIsSeq
<1>4. Octets \subseteq S
  OBVIOUS
<1> HIDE DEF S, e
<1>5. k \in Seq(S) /\ v \in Seq(S)
  BY <1>4
<1>6. blank \in Seq(S) /\ BlankLayout(blank, k, v)
  BY <1>4, <1>5, BlankIsLaidOut
<1> HIDE DEF blank
<1>7. Len(blank) = 21 + x + y
  BY <1>2, <1>6 DEF BlankLayout
<1>8. numbered \in Seq(S) /\ Replaced(numbered, blank, 0, e)
  <2>1. 0 + Len(e) <= Len(blank)
    BY <1>3, <1>7
  <2> QED BY <1>3, <1>6, <2>1, OverwriteReplaces
<1> HIDE DEF numbered
<1>9. /\ Len(numbered) = 21 + x + y
      /\ \A i \in 1..(21 + x + y) : i > 17 => numbered[i] = blank[i]
  BY <1>3, <1>7, <1>8 DEF Replaced
<1>10. PICK z \in Seq(S) : z = formatEncodeFixed8(kSet_Request) /\ Len(z) = 1 /\ z[1] = 0
  <2>1. 0 \in S
    BY <1>4 DEF Octets
  <2>2. <<0>> \in Seq(S) /\ Len(<<0>>) = 1 /\ <<0>>[1] = 0
    BY <2>1
  <2> QED BY <2>2 DEF formatEncodeFixed8, kSet_Request
<1>11. typed \in Seq(S) /\ Replaced(typed, numbered, 8, z)
  <2>1. 8 + Len(z) <= Len(numbered)
    BY <1>9, <1>10
  <2>2. typed = Overwrite(numbered, 8, z)
    BY <1>10
  <2> HIDE DEF typed
  <2> QED BY <1>8, <2>1, <2>2, OverwriteReplaces
<1> HIDE DEF typed
<1>12. /\ Len(typed) = 21 + x + y /\ typed[8 + 1] = 0
       /\ \A i \in 1..(21 + x + y) : i > 17 => typed[i] = numbered[i]
  BY <1>9, <1>10, <1>11 DEF Replaced
<1>13. PICK f \in Seq(S) : f = formatEncodeFixed32(Len(k)) /\ Len(f) = 4
  BY <1>2, <1>4, Fixed32Bytes
<1>14. keyed \in Seq(S) /\ Replaced(keyed, typed, 9, f)
  <2>1. 9 + Len(f) <= Len(typed)
    BY <1>12, <1>13
  <2>2. keyed = Overwrite(typed, 9, f)
    BY <1>13
  <2> HIDE DEF keyed
  <2> QED BY <1>11, <2>1, <2>2, OverwriteReplaces
<1> HIDE DEF keyed
<1>15. /\ Len(keyed) = 21 + x + y
       /\ \A i \in 1..(21 + x + y) : i <= 9 => keyed[i] = typed[i]
       /\ \A i \in 1..4 : keyed[9 + i] = f[i]
       /\ \A i \in 1..(21 + x + y) : i > 17 => keyed[i] = typed[i]
  BY <1>12, <1>13, <1>14 DEF Replaced
<1>16. PICK g \in Seq(S) : g = formatEncodeFixed32(Len(v)) /\ Len(g) = 4
  BY <1>2, <1>4, Fixed32Bytes
<1>17. text \in Seq(S) /\ Replaced(text, keyed, 13, g)
  <2>1. 13 + Len(g) <= Len(keyed)
    BY <1>15, <1>16
  <2>2. text = Overwrite(keyed, 13, g)
    BY <1>16
  <2> HIDE DEF text
  <2> QED BY <1>14, <2>1, <2>2, OverwriteReplaces
<1> HIDE DEF text
<1>18. /\ \A i \in 1..(21 + x + y) : i <= 13 => text[i] = keyed[i]
       /\ \A i \in 1..4 : text[13 + i] = g[i]
       /\ \A i \in 1..(21 + x + y) : i > 17 => text[i] = keyed[i]
  BY <1>15, <1>16, <1>17 DEF Replaced
<1>19. text[9] = 0
  <2>1. 9 \in 1..(21 + x + y) /\ 9 <= 9 /\ 9 <= 13 /\ 8 + 1 = 9
    OBVIOUS
  <2> QED BY <1>12, <1>15, <1>18, <2>1
<1>20. ASSUME NEW i \in 1..4 PROVE text[9 + i] = f[i]
  <2>1. 9 + i \in 1..(21 + x + y) /\ 9 + i <= 13
    OBVIOUS
  <2> QED BY <1>15, <1>18, <2>1
<1>21. \A i \in 1..(21 + x + y) : i > 17 => text[i] = blank[i]
  BY <1>9, <1>12, <1>15, <1>18
<1>22. ASSUME NEW i \in 1..x PROVE text[17 + i] = k[i]
  <2>1. 17 + i \in 1..(21 + x + y) /\ 17 + i > 17
    OBVIOUS
  <2>2. blank[17 + i] = k[i]
    BY <1>2, <1>6 DEF BlankLayout
  <2> QED BY <1>21, <2>1, <2>2
<1>23. ASSUME NEW i \in 1..y PROVE text[17 + x + i] = v[i]
  <2>1. 17 + x + i \in 1..(21 + x + y) /\ 17 + x + i > 17
    OBVIOUS
  <2>2. blank[17 + x + i] = v[i]
    BY <1>2, <1>6 DEF BlankLayout
  <2> QED BY <1>21, <2>1, <2>2
<1>24. SetLayout(text, k, v)
  BY <1>2, <1>13, <1>16, <1>18, <1>19, <1>20, <1>22, <1>23 DEF SetLayout
<1> QED BY <1>1, <1>24

\* One text, one key and one value.
LEMMA SetLayoutAgrees ==
  ASSUME NEW t, NEW k \in Seq(Octets), NEW v \in Seq(Octets), SetLayout(t, k, v),
         Fits32(Len(k)), Fits32(Len(v)),
         NEW l \in Seq(Octets), NEW w \in Seq(Octets), SetLayout(t, l, w),
         Fits32(Len(l)), Fits32(Len(w))
  PROVE  k = l /\ v = w
<1>1. PICK a, b, c, d : /\ a = formatEncodeFixed32(Len(k)) /\ FourBytes(a, Len(k))
                        /\ b = formatEncodeFixed32(Len(v)) /\ FourBytes(b, Len(v))
                        /\ c = formatEncodeFixed32(Len(l)) /\ FourBytes(c, Len(l))
                        /\ d = formatEncodeFixed32(Len(w)) /\ FourBytes(d, Len(w))
  BY Fixed32Bytes
<1>2. \A i \in 1..4 : a[i] = c[i] /\ b[i] = d[i]
  BY <1>1 DEF SetLayout
<1>7. a[1] = c[1] /\ a[2] = c[2] /\ a[3] = c[3] /\ a[4] = c[4]
  BY <1>2
<1>8. b[1] = d[1] /\ b[2] = d[2] /\ b[3] = d[3] /\ b[4] = d[4]
  BY <1>2
<1>9. Len(k) \in Nat /\ Len(v) \in Nat /\ Len(l) \in Nat /\ Len(w) \in Nat
  OBVIOUS
<1>3. Len(k) = Len(l)
  BY <1>1, <1>7, <1>9, FourBytesAgree, Zenon
<1>4. Len(v) = Len(w)
  BY <1>1, <1>8, <1>9, FourBytesAgree, Zenon
<1>5. \A i \in 1..Len(k) : k[i] = l[i]
  BY <1>3 DEF SetLayout
<1>6. \A i \in 1..Len(v) : v[i] = w[i]
  BY <1>3, <1>4 DEF SetLayout
<1> QED BY <1>3, <1>4, <1>5, <1>6, SeqEqual

-----------------------------------------------------------------------------
\* r ends in s, and is as long as the width says or as s is.
Aligned(r, s, width) ==
  /\ Len(r) = Max2(width, Len(s))
  /\ \A i \in 1..Len(s) : r[Len(r) - Len(s) + i] = s[i]

\* fmt's alignment puts a text at the end of its field.
LEMMA RightAlignedAligns ==
  ASSUME NEW S, NEW s \in Seq(S), NEW width \in Nat, NEW fill \in S
  PROVE  RightAligned(s, width, fill) \in Seq(S) /\ Aligned(RightAligned(s, width, fill), s, width)
<1>1. PICK l \in Nat : l = Len(s)
  OBVIOUS
<1>2. CASE l >= width
  <2>1. RightAligned(s, width, fill) = s
    BY <1>1, <1>2 DEF RightAligned
  <2>2. Max2(width, l) = l
    BY <1>2 DEF Max2
  <2>3. \A i \in 1..l : l - l + i = i
    OBVIOUS
  <2>4. Aligned(s, s, width)
    BY <1>1, <2>2, <2>3 DEF Aligned
  <2> QED BY <2>1, <2>4
<1>3. CASE ~ (l >= width)
  <2>1. PICK d \in Nat : d = width - l /\ width = d + l
    BY <1>3
  <2> DEFINE b == [i \in 1..d |-> fill]
  <2>2. b \in [1..d -> S]
    OBVIOUS
  <2>3. b \in Seq(S) /\ Len(b) = d
    BY <2>2, FunctionIsSeq
  <2>4. RightAligned(s, width, fill) = b \o s
    BY <1>1, <1>3, <2>1 DEF RightAligned
  <2> HIDE DEF b
  <2>5. b \o s \in Seq(S) /\ Joined(b \o s, b, s)
    BY <2>3, ConcatJoins
  <2>6. Len(b \o s) = width /\ \A i \in 1..l : (b \o s)[d + i] = s[i]
    BY <1>1, <2>1, <2>3, <2>5 DEF Joined
  <2>7. Max2(width, l) = width
    BY <1>3 DEF Max2
  <2>8. Aligned(b \o s, s, width)
    BY <1>1, <2>1, <2>6, <2>7 DEF Aligned
  <2> QED BY <2>4, <2>5, <2>8
<1> QED BY <1>2, <1>3

\* The bytes of a Delete's record: as many as this, a digit where a Set has its type, and
\* the key in front of the end; w is the width of the number.
DeleteLayout(t, k, w) ==
  /\ t[9] # 0
  /\ Len(t) = w + 5 + Max2(4, Len(Digits[Len(k)])) + Max2(4, Len(k))
  /\ Len(k) <= 4 => t[w + 5] = 48 + Len(k)
  /\ \A i \in 1..Len(k) : t[Len(t) - 4 - Len(k) + i] = k[i]

NumberWidth(n) == Len(RightAligned(Digits[n], 8, 48))

\* A Delete's log record is laid out so.
LEMMA DeleteIsLaidOut ==
  ASSUME NEW k \in Seq(Octets), NEW n \in Nat
  PROVE  DeleteLayout(DeleteContextWalLogFormat(k, n).text, k, NumberWidth(n))
<1>0. /\ \A s \in Seq(DigitBytes) : s \in Seq(Octets)
      /\ DigitBytes \subseteq Octets /\ 48 \in DigitBytes /\ kSpace \in Octets
  BY DEF DigitBytes, Octets, kSpace
<1>1. PICK x \in Nat : x = Len(k)
  OBVIOUS
<1>2. PICK a \in Seq(DigitBytes) : /\ a = RightAligned(Digits[n], 8, 48)
                                   /\ Len(a) = NumberWidth(n) /\ Len(a) >= 8
  <2>1. PICK s \in Seq(DigitBytes) : s = Digits[n]
    BY DigitsFacts
  <2>2. RightAligned(s, 8, 48) \in Seq(DigitBytes) /\ Aligned(RightAligned(s, 8, 48), s, 8)
    BY <1>0, RightAlignedAligns
  <2>3. Len(s) \in Nat
    OBVIOUS
  <2>4. Max2(8, Len(s)) >= 8
    BY <2>3 DEF Max2
  <2> QED BY <2>1, <2>2, <2>4 DEF Aligned, NumberWidth
<1>3. PICK w \in Nat : w = Len(a) /\ w = NumberWidth(n) /\ w >= 8
  BY <1>2
<1>4. PICK b \in Seq(Octets) : b = Digits[kDel_Request] /\ b = <<51>>
  <2>3. 3 \in Nat /\ 3 < 10 /\ 48 + 3 = 51
    OBVIOUS
  <2>4. Digits[3] = <<48 + 3>>
    BY <2>3, SmallDigits, Zenon
  <2>1. Digits[3] = <<51>>
    BY <2>3, <2>4, Zenon
  <2>2. <<51>> \in Seq(Octets)
    BY DEF Octets
  <2> QED BY <2>1, <2>2 DEF kDel_Request
<1>5. Len(b) = 1 /\ b[1] = 51
  BY <1>4
<1>6. PICK g \in Seq(Octets) : g = Digits[x]
  BY <1>0, DigitsFacts
<1>7. PICK c \in Seq(Octets) : c = RightAligned(g, 4, kSpace) /\ Aligned(c, g, 4)
  BY <1>0, RightAlignedAligns
<1>8. PICK y \in Nat : y = Len(c) /\ y = Max2(4, Len(Digits[x]))
  BY <1>6, <1>7 DEF Aligned
<1>9. x <= 4 => y = 4 /\ c[4] = 48 + x
  <2> SUFFICES ASSUME x <= 4 PROVE y = 4 /\ c[4] = 48 + x
    OBVIOUS
  <2>1. g = <<48 + x>>
    <3>1. x < 10
      OBVIOUS
    <3> QED BY <1>6, <3>1, SmallDigits
  <2>2. Len(g) = 1 /\ g[1] = 48 + x
    BY <2>1
  <2>3. Max2(4, 1) = 4
    BY DEF Max2
  <2>4. Len(c) = 4
    BY <1>7, <2>2, <2>3 DEF Aligned
  <2>5. c[4] = g[1]
    <3>1. 1 \in 1..Len(g) /\ Len(c) - Len(g) + 1 = 4
      BY <2>2, <2>4
    <3>2. c[Len(c) - Len(g) + 1] = g[1]
      BY <1>7, <3>1 DEF Aligned
    <3> QED BY <3>1, <3>2, Zenon
  <2> QED BY <1>8, <2>2, <2>4, <2>5
<1>10. PICK d \in Seq(Octets) : d = RightAligned(k, 4, kSpace) /\ Aligned(d, k, 4)
  BY <1>0, RightAlignedAligns
<1>11. PICK u \in Nat : u = Len(d) /\ u = Max2(4, x) /\ u >= x
  <2>1. Max2(4, x) \in Nat /\ Max2(4, x) >= x
    BY DEF Max2
  <2> QED BY <1>1, <1>10, <2>1 DEF Aligned
<1>12. \A i \in 1..x : d[u - x + i] = k[i]
  BY <1>1, <1>10, <1>11 DEF Aligned
<1>13. PICK z \in Seq(Octets) : z = kFlagLogEnd /\ Len(z) = 4
  <2>1. kFlagLogEnd \in Seq(Octets) /\ Len(kFlagLogEnd) = 4
    BY DEF kFlagLogEnd, Octets
  <2> QED BY <2>1
<1>14. PICK o \in Seq(Octets) : o = a
  BY <1>0
<1>15. PICK p \in Seq(Octets) : p = o \o b /\ Joined(p, o, b)
  BY ConcatJoins
<1>16. Len(p) = w + 1 /\ (\A i \in 1..w : p[i] = a[i]) /\ p[w + 1] = 51
  <2>1. Len(o) = w
    BY <1>3, <1>14
  <2>2. Len(p) = w + 1
    BY <1>5, <1>15, <2>1 DEF Joined
  <2>3. \A i \in 1..w : p[i] = a[i]
    BY <1>14, <1>15, <2>1 DEF Joined
  <2>4. p[w + 1] = 51
    BY <1>5, <1>15, <2>1 DEF Joined
  <2> QED BY <2>2, <2>3, <2>4
<1>17. PICK q \in Seq(Octets) : q = p \o c /\ Joined(q, p, c)
  BY ConcatJoins
<1>18. /\ Len(q) = w + 1 + y /\ \A i \in 1..(w + 1) : q[i] = p[i]
       /\ \A i \in 1..y : q[w + 1 + i] = c[i]
  BY <1>8, <1>16, <1>17 DEF Joined
<1>19. PICK r \in Seq(Octets) : r = q \o d /\ Joined(r, q, d)
  BY ConcatJoins
<1>20. /\ Len(r) = w + 1 + y + u /\ \A i \in 1..(w + 1 + y) : r[i] = q[i]
       /\ \A i \in 1..u : r[w + 1 + y + i] = d[i]
  BY <1>11, <1>18, <1>19 DEF Joined
<1>21. PICK t \in Seq(Octets) : t = r \o z /\ Joined(t, r, z)
  BY ConcatJoins
<1>22. Len(t) = w + 5 + y + u /\ \A i \in 1..(w + 1 + y + u) : t[i] = r[i]
  <2>1. Len(t) = Len(r) + Len(z)
    BY <1>21 DEF Joined
  <2>2. Len(t) = w + 5 + y + u
    BY <1>13, <1>20, <2>1
  <2>3. \A i \in 1..(w + 1 + y + u) : t[i] = r[i]
    BY <1>20, <1>21 DEF Joined
  <2> QED BY <2>2, <2>3
<1>23. DeleteContextWalLogFormat(k, n).text = t
  BY <1>1, <1>2, <1>4, <1>6, <1>7, <1>10, <1>13, <1>14, <1>15, <1>17, <1>19, <1>21
     DEF DeleteContextWalLogFormat
<1>24. t[9] # 0
  <2>1. CASE w >= 9
    <3>1. 9 \in 1..w /\ 9 \in 1..(w + 1) /\ 9 \in 1..(w + 1 + y) /\ 9 \in 1..(w + 1 + y + u)
      BY <2>1
    <3>2. t[9] = a[9]
      BY <1>16, <1>18, <1>20, <1>22, <3>1
    <3>3. 9 \in 1..Len(a)
      BY <1>3, <3>1
    <3>4. a[9] \in DigitBytes
      BY <3>3, ElementOfSeq
    <3>5. \A e \in DigitBytes : e # 0
      BY DEF DigitBytes
    <3> QED BY <3>2, <3>4, <3>5, Zenon
  <2>2. CASE w = 8
    <3>1. 9 \in 1..(w + 1) /\ 9 \in 1..(w + 1 + y) /\ 9 \in 1..(w + 1 + y + u) /\ w + 1 = 9
      BY <2>2
    <3>2. t[9] = 51
      BY <1>16, <1>18, <1>20, <1>22, <3>1
    <3> QED BY <3>2
  <2> QED BY <1>3, <2>1, <2>2
<1>25. ASSUME x <= 4 PROVE t[w + 5] = 48 + x
  <2>1. /\ 4 \in 1..y /\ w + 1 + 4 = w + 5
        /\ w + 5 \in 1..(w + 1 + y) /\ w + 5 \in 1..(w + 1 + y + u)
    BY <1>9, <1>25
  <2>2. q[w + 5] = c[4]
    BY <1>18, <2>1
  <2> QED BY <1>9, <1>20, <1>22, <1>25, <2>1, <2>2
<1>26. ASSUME NEW i \in 1..x PROVE t[(w + 5 + y + u) - 4 - x + i] = k[i]
  <2>1. PICK j \in Nat : j = u - x + i /\ j \in 1..u
    <3>1. u - x + i \in Nat /\ u - x + i \in 1..u
      BY <1>11
    <3> QED BY <3>1
  <2>2. (w + 5 + y + u) - 4 - x + i = w + 1 + y + j
    BY <2>1
  <2>3. w + 1 + y + j \in 1..(w + 1 + y + u)
    BY <2>1
  <2>4. d[j] = k[i]
    BY <1>12, <2>1
  <2> QED BY <1>20, <1>22, <2>1, <2>2, <2>3, <2>4
<1>27. DeleteLayout(t, k, w)
  <2>1. Len(t) = w + 5 + Max2(4, Len(Digits[Len(k)])) + Max2(4, Len(k))
    BY <1>1, <1>8, <1>11, <1>22
  <2>2. Len(k) <= 4 => t[w + 5] = 48 + Len(k)
    BY <1>1, <1>25
  <2>3. \A i \in 1..Len(k) : t[Len(t) - 4 - Len(k) + i] = k[i]
    BY <1>1, <1>22, <1>26
  <2> QED BY <1>24, <2>1, <2>2, <2>3 DEF DeleteLayout
<1> QED BY <1>3, <1>23, <1>27

\* Of two keys the longer one has the longer record, or both are short.
LEMMA LongerKey ==
  ASSUME NEW x \in Nat, NEW y \in Nat, x < y,
         Max2(4, Len(Digits[x])) + Max2(4, x) = Max2(4, Len(Digits[y])) + Max2(4, y)
  PROVE  y <= 4
<1>1. PICK a \in Nat, b \in Nat : a = Len(Digits[x]) /\ b = Len(Digits[y])
  BY DigitsFacts
<1>2. a <= b
  <2>1. x <= y
    OBVIOUS
  <2> QED BY <1>1, <2>1, DigitsGrow
<1>3. Max2(4, a) + Max2(4, x) = Max2(4, b) + Max2(4, y)
  BY <1>1
<1> QED BY <1>2, <1>3 DEF Max2

\* One text, one number width and one key.
LEMMA DeleteLayoutAgrees ==
  ASSUME NEW t, NEW w \in Nat, NEW k \in Seq(Octets), DeleteLayout(t, k, w),
         NEW l \in Seq(Octets), DeleteLayout(t, l, w)
  PROVE  k = l
<1>1. PICK x \in Nat, y \in Nat : x = Len(k) /\ y = Len(l)
  OBVIOUS
<1>2. PICK a \in Nat, b \in Nat, c \in Nat, d \in Nat :
         /\ a = Max2(4, Len(Digits[x])) /\ c = Max2(4, x)
         /\ b = Max2(4, Len(Digits[y])) /\ d = Max2(4, y)
  <2>1. Len(Digits[x]) \in Nat /\ Len(Digits[y]) \in Nat
    BY DigitsFacts
  <2>2. \A i \in Nat : Max2(4, i) \in Nat
    BY DEF Max2
  <2>3. /\ Max2(4, Len(Digits[x])) \in Nat /\ Max2(4, x) \in Nat
        /\ Max2(4, Len(Digits[y])) \in Nat /\ Max2(4, y) \in Nat
    BY <2>1, <2>2
  <2> QED BY <2>3
<1>3. a + c = b + d
  <2>1. Len(t) = w + 5 + a + c
    BY <1>1, <1>2 DEF DeleteLayout
  <2>2. Len(t) = w + 5 + b + d
    BY <1>1, <1>2 DEF DeleteLayout
  <2>3. w + 5 + a + c = w + 5 + b + d
    BY <2>1, <2>2, Zenon
  <2> QED BY <2>3
<1>4. ASSUME x <= 4, y <= 4 PROVE x = y
  <2>1. t[w + 5] = 48 + x /\ t[w + 5] = 48 + y
    BY <1>1, <1>4 DEF DeleteLayout
  <2> QED BY <2>1
<1>5. CASE x < y
  <2>1. y <= 4
    BY <1>2, <1>3, <1>5, LongerKey
  <2> QED BY <1>4, <1>5, <2>1
<1>6. CASE y < x
  <2>1. x <= 4
    BY <1>2, <1>3, <1>6, LongerKey
  <2> QED BY <1>4, <1>6, <2>1
<1>7. CASE x = y
  <2>1. \A i \in 1..x : k[i] = l[i]
    BY <1>1, <1>7 DEF DeleteLayout
  <2> QED BY <1>1, <1>7, <2>1, SeqEqual
<1> QED BY <1>5, <1>6, <1>7

-----------------------------------------------------------------------------
SetRequest(k, v) == [op |-> "set", key |-> k, value |-> v]
DeleteRequest(k) == [op |-> "delete", key |-> k, value |-> <<>>]

\* l is a request of the number n with the record that the code formats for it.
Logged(l, n) ==
  \/ \E k \in Keys, v \in Values :
       l = [request |-> SetRequest(k, v), record |-> SetContextWalLogFormat(k, v, n)]
  \/ \E k \in Keys :
       l = [request |-> DeleteRequest(k), record |-> DeleteContextWalLogFormat(k, n)]

LogInv ==
  /\ number \in Nat
  /\ log.request = NoWrite \/ \E n \in Nat : number = n + 1 /\ Logged(log, n)

\* Every step keeps the last log record that of the last request.
LEMMA LogInvHolds == RecordSpec => []LogInv
<1>1. ASSUME RecordInit PROVE LogInv
  BY <1>1 DEF RecordInit, LogInv
<1>2. ASSUME LogInv, [RecordNext]_recordVars PROVE LogInv'
  <2>0. number \in Nat
    BY <1>2 DEF LogInv
  <2>1. ASSUME NEW k \in Keys, NEW v \in Values, NEW n \in Numbers, Set(k, v, n) PROVE LogInv'
    <3>1. /\ number' = number + 1
          /\ log' = [request |-> SetRequest(k, v), record |-> SetContextWalLogFormat(k, v, number)]
      BY <2>1 DEF Set, Write, SetRequest
    <3>2. Logged(log', number)
      BY <3>1, Zenon DEF Logged
    <3>3. number' \in Nat
      BY <2>0, <3>1
    <3>4. \E i \in Nat : number' = i + 1 /\ Logged(log', i)
      BY <2>0, <3>1, <3>2, Zenon
    <3> QED BY <3>3, <3>4, Zenon DEF LogInv, Logged
  <2>2. ASSUME NEW k \in Keys, NEW n \in Numbers, Delete(k, n) PROVE LogInv'
    <3>1. /\ number' = number + 1
          /\ log' = [request |-> DeleteRequest(k), record |-> DeleteContextWalLogFormat(k, number)]
      BY <2>2 DEF Delete, Write, DeleteRequest
    <3>2. Logged(log', number)
      BY <3>1, Zenon DEF Logged
    <3>3. number' \in Nat
      BY <2>0, <3>1
    <3>4. \E i \in Nat : number' = i + 1 /\ Logged(log', i)
      BY <2>0, <3>1, <3>2, Zenon
    <3> QED BY <3>3, <3>4, Zenon DEF LogInv, Logged
  <2>3. CASE UNCHANGED <<number, log>>
    BY <1>2, <2>3, Zenon DEF LogInv, Logged
  <2>4. CASE WriteTable
    BY <2>3, <2>4 DEF WriteTable
  <2>5. CASE UNCHANGED recordVars
    BY <2>3, <2>5 DEF recordVars
  <2> QED BY <1>2, <2>1, <2>2, <2>4, <2>5, Zenon DEF RecordNext
<1> QED BY <1>1, <1>2, PTL DEF RecordSpec

SetText(k, v, n) == SetContextWalLogFormat(k, v, n).text
DeleteText(k, n) == DeleteContextWalLogFormat(k, n).text

\* Two requests of one number with the same bytes are the same request.
LEMMA TextsDiffer ==
  ASSUME NEW n \in Nat, NEW k \in Keys, NEW l \in Keys
  PROVE  /\ DeleteText(k, n) = DeleteText(l, n) => k = l
         /\ \A v \in Values : SetText(k, v, n) # DeleteText(l, n)
         /\ \A v \in Values, w \in Values : SetText(k, v, n) = SetText(l, w, n) => k = l /\ v = w
<1>1. ASSUME NEW s \in Keys \cup Values PROVE s \in Seq(Octets) /\ Fits32(Len(s))
  BY KeyAssumption DEF Octets
<1>2. k \in Seq(Octets) /\ l \in Seq(Octets) /\ Fits32(Len(k)) /\ Fits32(Len(l))
  BY <1>1
<1>3. /\ DeleteLayout(DeleteText(k, n), k, NumberWidth(n))
      /\ DeleteLayout(DeleteText(l, n), l, NumberWidth(n))
  BY <1>2, DeleteIsLaidOut DEF DeleteText
<1>4. ASSUME DeleteText(k, n) = DeleteText(l, n) PROVE k = l
  <2>1. NumberWidth(n) \in Nat
    <3>1. PICK s \in Seq(DigitBytes) : s = Digits[n]
      BY DigitsFacts
    <3>2. RightAligned(s, 8, 48) \in Seq(DigitBytes)
      <4>1. 48 \in DigitBytes /\ 8 \in Nat
        BY DEF DigitBytes
      <4> QED BY <4>1, RightAlignedAligns
    <3> QED BY <3>1, <3>2 DEF NumberWidth
  <2> QED BY <1>2, <1>3, <1>4, <2>1, DeleteLayoutAgrees, Zenon
<1>5. ASSUME NEW v \in Values PROVE SetText(k, v, n) # DeleteText(l, n)
  <2>1. SetText(k, v, n)[9] = 0
    BY <1>1, <1>2, SetIsLaidOut DEF SetText, SetLayout
  <2>2. DeleteText(l, n)[9] # 0
    BY <1>3 DEF DeleteLayout
  <2> QED BY <2>1, <2>2
<1>6. ASSUME NEW v \in Values, NEW w \in Values, SetText(k, v, n) = SetText(l, w, n)
      PROVE  k = l /\ v = w
  <2>1. v \in Seq(Octets) /\ w \in Seq(Octets) /\ Fits32(Len(v)) /\ Fits32(Len(w))
    BY <1>1
  <2>2. SetLayout(SetText(k, v, n), k, v) /\ SetLayout(SetText(l, w, n), l, w)
    BY <1>2, <2>1, SetIsLaidOut DEF SetText
  <2>3. PICK t : t = SetText(k, v, n) /\ SetLayout(t, k, v) /\ SetLayout(t, l, w)
    BY <1>6, <2>2, Zenon
  <2> QED BY <1>2, <2>1, <2>3, SetLayoutAgrees, Zenon
<1> QED BY <1>4, <1>5, <1>6, Zenon

\* The bytes that DB::Set and DB::Delete give to the write-ahead log name one request:
\* no other key, value or operation of the same number is written as the same bytes.
THEOREM LogNamesRequestCorrect == RecordSpec => []LogNamesRequest
<1>1. ASSUME LogInv PROVE LogNamesRequest
  <2>1. CASE log.request = NoWrite
    BY <2>1, Zenon DEF LogNamesRequest
  <2>2. CASE \E n \in Nat : number = n + 1 /\ Logged(log, n)
    <3>1. PICK n \in Nat : number = n + 1 /\ Logged(log, n)
      BY <2>2, Zenon
    <3>2. number - 1 = n
      BY <3>1
    <3>3. ASSUME NEW l \in Keys, NEW w \in Values, SetText(l, w, n) = log.record.text
          PROVE  l = log.request.key /\ w = log.request.value
      <4>1. ASSUME NEW k \in Keys, NEW v \in Values,
                   log = [request |-> SetRequest(k, v), record |-> SetContextWalLogFormat(k, v, n)]
            PROVE  l = log.request.key /\ w = log.request.value
        <5>1. log.request.key = k /\ log.request.value = v /\ log.record.text = SetText(k, v, n)
          BY <4>1 DEF SetRequest, SetText
        <5>2. SetText(l, w, n) = SetText(k, v, n)
          BY <3>3, <5>1, Zenon
        <5>3. l = k /\ w = v
          BY <5>2, TextsDiffer
        <5> QED BY <5>1, <5>3, Zenon
      <4>2. ASSUME NEW k \in Keys,
                   log = [request |-> DeleteRequest(k), record |-> DeleteContextWalLogFormat(k, n)]
            PROVE  FALSE
        <5>1. log.record.text = DeleteText(k, n)
          BY <4>2 DEF DeleteText
        <5> QED BY <3>3, <5>1, TextsDiffer, Zenon
      <4> QED BY <3>1, <4>1, <4>2, Zenon DEF Logged
    <3>4. ASSUME NEW l \in Keys, DeleteText(l, n) = log.record.text
          PROVE  l = log.request.key /\ <<>> = log.request.value
      <4>1. ASSUME NEW k \in Keys, NEW v \in Values,
                   log = [request |-> SetRequest(k, v), record |-> SetContextWalLogFormat(k, v, n)]
            PROVE  FALSE
        <5>1. log.record.text = SetText(k, v, n)
          BY <4>1 DEF SetText
        <5> QED BY <3>4, <5>1, TextsDiffer, Zenon
      <4>2. ASSUME NEW k \in Keys,
                   log = [request |-> DeleteRequest(k), record |-> DeleteContextWalLogFormat(k, n)]
            PROVE  l = log.request.key /\ <<>> = log.request.value
        <5>1. /\ log.request.key = k /\ log.request.value = <<>>
              /\ log.record.text = DeleteText(k, n)
          BY <4>2 DEF DeleteRequest, DeleteText
        <5>2. DeleteText(l, n) = DeleteText(k, n)
          BY <3>4, <5>1, Zenon
        <5>3. l = k
          BY <5>2, TextsDiffer
        <5> QED BY <5>1, <5>3, Zenon
      <4> QED BY <3>1, <4>1, <4>2, Zenon DEF Logged
    <3> QED BY <3>2, <3>3, <3>4, Zenon DEF LogNamesRequest, SetText, DeleteText
  <2> QED BY <1>1, <2>1, <2>2, Zenon DEF LogInv
<1> QED BY <1>1, LogInvHolds, PTL

-----------------------------------------------------------------------------
(* The order of the keys.                                                  *)

\* i is where b goes on and a ends or has the smaller byte.
LessAt(a, b, i) ==
  /\ i \in 1..Len(b)
  /\ \A h \in 1..(i - 1) : h <= Len(a) /\ a[h] = b[h]
  /\ i > Len(a) \/ a[i] < b[i]

\* The order of string_views: strict, transitive and total.
LEMMA LessTransitive ==
  ASSUME NEW a \in Seq(Nat), NEW b \in Seq(Nat), NEW c \in Seq(Nat), Less(a, b), Less(b, c)
  PROVE  Less(a, c)
<1>0. PICK la \in Nat, lb \in Nat, lc \in Nat : la = Len(a) /\ lb = Len(b) /\ lc = Len(c)
  OBVIOUS
<1>t. /\ \A i \in 1..la : a[i] \in Nat
      /\ \A i \in 1..lb : b[i] \in Nat
      /\ \A i \in 1..lc : c[i] \in Nat
  BY <1>0, ElementOfSeq
<1>1. PICK i \in 1..lb : LessAt(a, b, i)
  BY <1>0 DEF Less, LessAt
<1>2. PICK j \in 1..lc : LessAt(b, c, j)
  BY <1>0 DEF Less, LessAt
<1>3. /\ \A h \in 1..(i - 1) : h <= la /\ a[h] = b[h]
      /\ i > la \/ a[i] < b[i]
  BY <1>0, <1>1 DEF LessAt
<1>4. /\ \A h \in 1..(j - 1) : h <= lb /\ b[h] = c[h]
      /\ j > lb \/ b[j] < c[j]
  BY <1>0, <1>2 DEF LessAt
<1>5. CASE i < j
  <2>1. i \in 1..lc /\ i \in 1..(j - 1)
    BY <1>5
  <2>2. b[i] = c[i]
    BY <1>4, <2>1
  <2>3. \A h \in 1..(i - 1) : h <= la /\ a[h] = c[h]
    <3>1. \A h \in 1..(i - 1) : h \in 1..(j - 1)
      BY <1>5
    <3> QED BY <1>3, <1>4, <3>1
  <2>4. LessAt(a, c, i)
    BY <1>0, <1>3, <2>1, <2>2, <2>3 DEF LessAt
  <2> QED BY <1>0, <2>1, <2>4 DEF LessAt, Less
<1>6. CASE j <= i
  <2>1. j \in 1..lb
    BY <1>6
  <2>2. b[j] < c[j]
    BY <1>4, <2>1
  <2>3. \A h \in 1..(j - 1) : h <= la /\ a[h] = c[h]
    <3>1. \A h \in 1..(j - 1) : h \in 1..(i - 1)
      BY <1>6
    <3> QED BY <1>3, <1>4, <3>1
  <2>4. j > la \/ a[j] < c[j]
    <3>1. CASE j = i
      <4>1. j > la \/ a[j] < b[j]
        BY <1>3, <3>1
      <4>2. ASSUME ~ (j > la) PROVE a[j] < c[j]
        <5>1. a[j] < b[j] /\ j \in 1..la
          BY <4>1, <4>2
        <5>2. a[j] \in Nat /\ b[j] \in Nat /\ c[j] \in Nat
          BY <1>t, <2>1, <5>1
        <5> QED BY <2>2, <5>1, <5>2
      <4> QED BY <4>2
    <3>2. CASE j # i
      <4>1. j \in 1..(i - 1)
        BY <1>6, <3>2
      <4>2. a[j] = b[j]
        BY <1>3, <4>1
      <4> QED BY <2>2, <4>2
    <3> QED BY <3>1, <3>2
  <2>5. LessAt(a, c, j)
    BY <1>0, <2>3, <2>4 DEF LessAt
  <2> QED BY <1>0, <2>5 DEF LessAt, Less
<1> QED BY <1>5, <1>6

\* No text is less than itself.
LEMMA LessIrreflexive ==
  ASSUME NEW a \in Seq(Nat) PROVE ~ Less(a, a)
<1>1. ASSUME Less(a, a) PROVE FALSE
  <2>1. PICK i \in 1..Len(a) : i > Len(a) \/ a[i] < a[i]
    BY <1>1 DEF Less
  <2>2. a[i] \in Nat
    BY ElementOfSeq
  <2> QED BY <2>1, <2>2
<1> QED BY <1>1

\* Two texts neither of which is less are equal.
LEMMA LessTotal ==
  ASSUME NEW a \in Seq(Nat), NEW b \in Seq(Nat), ~ Less(a, b), ~ Less(b, a)
  PROVE  a = b
<1>0. PICK la \in Nat, lb \in Nat : la = Len(a) /\ lb = Len(b)
  OBVIOUS
<1>t. /\ \A i \in 1..la : a[i] \in Nat
      /\ \A i \in 1..lb : b[i] \in Nat
  BY <1>0, ElementOfSeq
<1> DEFINE D == {i \in Nat : i >= 1 /\ (i > la \/ i > lb \/ a[i] # b[i])}
<1>1. la + 1 \in D /\ D \subseteq Nat
  OBVIOUS
<1>2. PICK i \in D : \A j \in D : i <= j
  BY <1>1, LeastOne
<1>3. i \in Nat /\ i >= 1 /\ (i > la \/ i > lb \/ a[i] # b[i])
  OBVIOUS
<1>4. ASSUME NEW h \in 1..(i - 1) PROVE h <= la /\ h <= lb /\ a[h] = b[h]
  <2>1. h \notin D /\ h \in Nat /\ h >= 1
    BY <1>2, <1>3
  <2> QED BY <2>1
<1> HIDE DEF D
<1>5. CASE i > la /\ i > lb
  <2>1. i = la + 1 /\ i = lb + 1
    <3>1. CASE i = 1
      BY <1>5, <3>1
    <3>2. CASE i > 1
      <4>1. i - 1 \in 1..(i - 1)
        BY <1>3, <3>2
      <4>2. i - 1 <= la /\ i - 1 <= lb
        BY <1>4, <4>1
      <4> QED BY <1>3, <1>5, <4>2
    <3> QED BY <1>3, <3>1, <3>2
  <2>2. la = lb /\ \A h \in 1..la : a[h] = b[h]
    BY <1>4, <2>1
  <2> QED BY <1>0, <2>2, SeqEqual
<1>6. CASE i > la /\ i <= lb
  <2>1. LessAt(a, b, i)
    BY <1>0, <1>3, <1>4, <1>6 DEF LessAt
  <2> QED BY <1>0, <2>1 DEF LessAt, Less
<1>7. CASE i <= la /\ i > lb
  <2>1. \A h \in 1..(i - 1) : h <= lb /\ b[h] = a[h]
    BY <1>4
  <2>2. LessAt(b, a, i)
    BY <1>0, <1>3, <1>7, <2>1 DEF LessAt
  <2> QED BY <1>0, <2>2 DEF LessAt, Less
<1>8. CASE i <= la /\ i <= lb
  <2>0. i \in 1..la /\ i \in 1..lb
    BY <1>3, <1>8
  <2>1. a[i] \in Nat /\ b[i] \in Nat /\ a[i] # b[i]
    BY <1>t, <1>3, <1>8, <2>0
  <2>2. \A h \in 1..(i - 1) : h <= lb /\ b[h] = a[h]
    BY <1>4
  <2>3. CASE a[i] < b[i]
    <3>1. LessAt(a, b, i)
      BY <1>0, <1>4, <2>0, <2>3 DEF LessAt
    <3> QED BY <1>0, <3>1 DEF LessAt, Less
  <2>4. CASE b[i] < a[i]
    <3>1. LessAt(b, a, i)
      BY <1>0, <2>0, <2>2, <2>4 DEF LessAt
    <3> QED BY <1>0, <3>1 DEF LessAt, Less
  <2> QED BY <2>1, <2>3, <2>4
<1> QED BY <1>3, <1>5, <1>6, <1>7, <1>8

KeysOf(R) == \A r \in R : KeyView(r) \in Seq(Nat)

\* Comparator orders rows strictly, and equivalent rows alike.
Ordered(R) ==
  /\ \A r \in R, s \in R, t \in R : Comparator(r, s) /\ Comparator(s, t) => Comparator(r, t)
  /\ \A r \in R, s \in R : Comparator(r, s) => ~ Comparator(s, r)
  /\ \A r \in R, s \in R, t \in R :
       Equivalent(r, s) => (Comparator(r, t) <=> Comparator(s, t))
                           /\ (Comparator(t, r) <=> Comparator(t, s))

\* Rows with keys are ordered by Comparator.
LEMMA RowsAreOrdered ==
  ASSUME NEW R, KeysOf(R) PROVE Ordered(R)
<1>1. ASSUME NEW r \in R, NEW s \in R, NEW t \in R, Comparator(r, s), Comparator(s, t)
      PROVE  Comparator(r, t)
  BY <1>1, LessTransitive DEF KeysOf, Comparator
<1>2. ASSUME NEW r \in R, NEW s \in R, Comparator(r, s), Comparator(s, r) PROVE FALSE
  <2>1. Comparator(r, r)
    BY <1>1, <1>2
  <2> QED BY <2>1, LessIrreflexive DEF KeysOf, Comparator
<1>3. ASSUME NEW r \in R, NEW s \in R, Equivalent(r, s) PROVE KeyView(r) = KeyView(s)
  BY <1>3, LessTotal DEF KeysOf, Comparator, Equivalent
<1>4. ASSUME NEW r \in R, NEW s \in R, NEW t \in R, Equivalent(r, s)
      PROVE  (Comparator(r, t) <=> Comparator(s, t)) /\ (Comparator(t, r) <=> Comparator(t, s))
  BY <1>3, <1>4, Zenon DEF Comparator
<1> QED BY <1>1, <1>2, <1>4, Zenon DEF Ordered

-----------------------------------------------------------------------------
Ascending(s) == \A i \in 1..(Len(s) - 1) : Comparator(s[i], s[i + 1])

-----------------------------------------------------------------------------
(* Varints.                                                                *)

\* f has the varint length of every number up to m.
HasWidths(f, m) ==
  /\ f \in [0..m -> Nat]
  /\ \A i \in 0..m : f[i] = IF i < 128 THEN 1 ELSE 1 + f[i \div 128]

\* A shift by seven bits.
LEMMA Shift7 ==
  ASSUME NEW n \in Nat
  PROVE  n \div 128 \in Nat /\ (n >= 128 => n \div 128 < n)
OBVIOUS

\* There is one for every m.
LEMMA WidthsUpTo ==
  ASSUME NEW m \in Nat PROVE \E f : HasWidths(f, m)
<1> DEFINE None == {n \in Nat : ~ \E f : HasWidths(f, n)}
<1>1. ASSUME None # {} PROVE FALSE
  <2>1. None \subseteq Nat
    OBVIOUS
  <2> HIDE DEF None
  <2>2. PICK x \in None : \A y \in None : x <= y
    BY <1>1, <2>1, LeastOne
  <2>3. x \in Nat
    BY <2>1
  <2>4. CASE x = 0
    <3> DEFINE f == [i \in 0..0 |-> 1]
    <3>2. HasWidths(f, 0)
      BY DEF HasWidths
    <3> HIDE DEF f
    <3>3. \E g : HasWidths(g, 0)
      BY <3>2
    <3> QED BY <2>4, <3>3 DEF None
  <2>5. CASE x # 0
    <3>1. PICK y \in Nat : y = x - 1 /\ x = y + 1 /\ y \notin None
      BY <2>2, <2>3, <2>5
    <3>2. PICK f : HasWidths(f, y)
      BY <3>1 DEF None
    <3>3. f \in [0..y -> Nat]
      BY <3>2 DEF HasWidths
    <3>4. PICK new \in Nat : new = IF x < 128 THEN 1 ELSE 1 + f[x \div 128]
      <4>1. CASE x < 128
        BY <4>1
      <4>2. CASE ~ (x < 128)
        <5>1. x \div 128 \in 0..y
          BY <2>3, <3>1, <4>2, Shift7
        <5>2. PICK w \in Nat : w = f[x \div 128]
          BY <3>3, <5>1
        <5>3. 1 + w \in Nat
          OBVIOUS
        <5> QED BY <4>2, <5>2, <5>3
      <4> QED BY <4>1, <4>2
    <3> DEFINE g == [i \in 0..x |-> IF i = x THEN new ELSE f[i]]
    <3>5. g[x] = new /\ \A i \in 0..y : g[i] = f[i]
      BY <2>3, <3>1
    <3>6. g \in [0..x -> Nat]
      BY <3>1, <3>3
    <3> HIDE DEF g
    <3>7. ASSUME NEW i \in 0..x PROVE g[i] = IF i < 128 THEN 1 ELSE 1 + g[i \div 128]
      <4>1. i \in Nat
        OBVIOUS
      <4>2. i >= 128 => i \div 128 \in 0..y
        BY <3>1, <4>1, Shift7
      <4>3. i >= 128 => g[i \div 128] = f[i \div 128]
        BY <3>5, <4>2
      <4>4. CASE i = x
        BY <3>4, <3>5, <4>1, <4>3, <4>4
      <4>5. CASE i # x
        <5>1. i \in 0..y
          BY <3>1, <4>1, <4>5
        <5>2. f[i] = IF i < 128 THEN 1 ELSE 1 + f[i \div 128]
          BY <3>2, <5>1 DEF HasWidths
        <5>3. g[i] = f[i]
          BY <3>5, <5>1
        <5> QED BY <4>1, <4>3, <5>2, <5>3
      <4> QED BY <4>4, <4>5
    <3>8. HasWidths(g, x)
      BY <3>6, <3>7 DEF HasWidths
    <3> QED BY <2>2, <3>8 DEF None
  <2> QED BY <2>4, <2>5
<1> QED BY <1>1

\* Two of them agree.
LEMMA WidthsAgreeUpTo ==
  ASSUME NEW m \in Nat, NEW f, HasWidths(f, m), NEW n \in Nat, NEW g, HasWidths(g, n),
         NEW i \in Nat, i <= m, i <= n
  PROVE  f[i] = g[i]
<1> DEFINE Bad == {j \in Nat : j <= m /\ j <= n /\ f[j] # g[j]}
<1>1. ASSUME Bad # {} PROVE FALSE
  <2>1. Bad \subseteq Nat
    OBVIOUS
  <2> HIDE DEF Bad
  <2>2. PICK x \in Bad : \A y \in Bad : x <= y
    BY <1>1, <2>1, LeastOne
  <2>3. x \in Nat /\ x <= m /\ x <= n /\ f[x] # g[x]
    BY DEF Bad
  <2>4. /\ f[x] = IF x < 128 THEN 1 ELSE 1 + f[x \div 128]
        /\ g[x] = IF x < 128 THEN 1 ELSE 1 + g[x \div 128]
    <3>1. x \in 0..m /\ x \in 0..n
      BY <2>3
    <3> QED BY <3>1 DEF HasWidths
  <2>5. ~ (x < 128) /\ f[x \div 128] # g[x \div 128]
    BY <2>3, <2>4
  <2>6. PICK y \in Nat : y = x \div 128 /\ y < x
    BY <2>3, <2>5, Shift7
  <2>7. y \in Bad
    BY <2>3, <2>5, <2>6 DEF Bad
  <2> QED BY <2>2, <2>3, <2>6, <2>7
<1> QED BY <1>1

\* varintLength is the function its definition asks for.
LEMMA WidthFacts ==
  /\ varintLength \in [Nat -> Nat]
  /\ \A n \in Nat : varintLength[n] = IF n < 128 THEN 1 ELSE 1 + varintLength[n \div 128]
<1> DEFINE Fits(g) == g = [n \in Nat |-> IF n < 128 THEN 1 ELSE 1 + g[n \div 128]]
           F(n) == CHOOSE f : HasWidths(f, n)
           D == [n \in Nat |-> F(n)[n]]
<1>1. \A n \in Nat : HasWidths(F(n), n)
  BY WidthsUpTo
<1> HIDE DEF F
<1>2. ASSUME NEW n \in Nat
      PROVE  D[n] \in Nat /\ D[n] = IF n < 128 THEN 1 ELSE 1 + D[n \div 128]
  <2>1. D[n] = F(n)[n] /\ n \in 0..n
    OBVIOUS
  <2>2. F(n)[n] \in Nat /\ F(n)[n] = IF n < 128 THEN 1 ELSE 1 + F(n)[n \div 128]
    BY <1>1, <2>1 DEF HasWidths
  <2>3. ASSUME n >= 128 PROVE F(n)[n \div 128] = D[n \div 128]
    <3>1. PICK y \in Nat : y = n \div 128 /\ y < n
      BY <2>3, Shift7
    <3>2. D[y] = F(y)[y]
      OBVIOUS
    <3>3. HasWidths(F(n), n) /\ HasWidths(F(y), y)
      BY <1>1
    <3>4. y <= n /\ y <= y
      BY <3>1
    <3>5. F(n)[y] = F(y)[y]
      BY <3>3, <3>4, WidthsAgreeUpTo
    <3> QED BY <3>1, <3>2, <3>5
  <2> HIDE DEF D
  <2> QED BY <2>1, <2>2, <2>3
<1>3. Fits(D)
  <2>1. D = [n \in Nat |-> D[n]]
    OBVIOUS
  <2> HIDE DEF D
  <2>2. [n \in Nat |-> D[n]] = [n \in Nat |-> IF n < 128 THEN 1 ELSE 1 + D[n \div 128]]
    BY <1>2, Zenon
  <2> QED BY <2>1, <2>2, Zenon
<1>4. varintLength = CHOOSE g : Fits(g)
  BY DEF varintLength
<1> HIDE DEF D, Fits
<1>5. Fits(varintLength)
  BY <1>3, <1>4
<1>6. ASSUME NEW n \in Nat
      PROVE  varintLength[n] = IF n < 128 THEN 1 ELSE 1 + varintLength[n \div 128]
  <2> DEFINE r == [k \in Nat |-> IF k < 128 THEN 1 ELSE 1 + varintLength[k \div 128]]
  <2>1. r[n] = IF n < 128 THEN 1 ELSE 1 + varintLength[n \div 128]
    OBVIOUS
  <2>2. varintLength = r
    BY <1>5 DEF Fits
  <2> HIDE DEF r
  <2> QED BY <2>1, <2>2
<1>0. varintLength = [n \in Nat |-> varintLength[n]]
  <2> DEFINE r == [k \in Nat |-> IF k < 128 THEN 1 ELSE 1 + varintLength[k \div 128]]
  <2>1. r = [n \in Nat |-> r[n]]
    OBVIOUS
  <2>2. varintLength = r
    BY <1>5 DEF Fits
  <2> HIDE DEF r
  <2> QED BY <2>1, <2>2
<1> DEFINE Bad == {n \in Nat : varintLength[n] \notin Nat}
<1>7. ASSUME Bad # {} PROVE FALSE
  <2>1. Bad \subseteq Nat
    OBVIOUS
  <2> HIDE DEF Bad
  <2>2. PICK x \in Bad : \A y \in Bad : x <= y
    BY <1>7, <2>1, LeastOne
  <2>3. x \in Nat /\ varintLength[x] \notin Nat
    BY DEF Bad
  <2>4. CASE x < 128
    BY <1>6, <2>3, <2>4
  <2>5. CASE ~ (x < 128)
    <3>1. PICK y \in Nat : y = x \div 128 /\ y < x
      BY <2>3, <2>5, Shift7
    <3>2. y \notin Bad
      BY <2>2, <2>3, <3>1
    <3>3. PICK w \in Nat : w = varintLength[y]
      BY <3>2 DEF Bad
    <3>4. varintLength[x] = 1 + w
      BY <1>6, <2>3, <2>5, <3>1, <3>3
    <3> QED BY <2>3, <3>4
  <2> QED BY <2>4, <2>5
<1>8. \A n \in Nat : varintLength[n] \in Nat
  BY <1>7
<1> QED BY <1>0, <1>6, <1>8

\* The widths of the numbers below 2^32.
LEMMA Widths32 ==
  ASSUME NEW v \in Nat, Fits32(v)
  PROVE  /\ v < 128 => varintLength[v] = 1
         /\ v >= 128 /\ v < 16384 => varintLength[v] = 2
         /\ v >= 16384 /\ v < 2097152 => varintLength[v] = 3
         /\ v >= 2097152 /\ v < 268435456 => varintLength[v] = 4
         /\ v >= 268435456 => varintLength[v] = 5
         /\ varintLength[v] \in 1..5
<1>1. PICK v1 \in Nat : v1 = v \div 128
  BY Shift7
<1>2. PICK v2 \in Nat : v2 = v1 \div 128
  BY Shift7
<1>3. PICK v3 \in Nat : v3 = v2 \div 128
  BY Shift7
<1>4. PICK v4 \in Nat : v4 = v3 \div 128
  BY Shift7
<1>5. /\ varintLength[v] = IF v < 128 THEN 1 ELSE 1 + varintLength[v1]
      /\ varintLength[v1] = IF v1 < 128 THEN 1 ELSE 1 + varintLength[v2]
      /\ varintLength[v2] = IF v2 < 128 THEN 1 ELSE 1 + varintLength[v3]
      /\ varintLength[v3] = IF v3 < 128 THEN 1 ELSE 1 + varintLength[v4]
      /\ varintLength[v4] = IF v4 < 128 THEN 1 ELSE 1 + varintLength[v4 \div 128]
  BY <1>1, <1>2, <1>3, <1>4, WidthFacts
<1>6. /\ v < 16384 <=> v1 < 128
      /\ v < 2097152 <=> v2 < 128
      /\ v < 268435456 <=> v3 < 128
      /\ v1 >= 128 => v >= 128
      /\ v2 >= 128 => v1 >= 128
      /\ v3 >= 128 => v2 >= 128
      /\ v4 < 128
  <2>1. v < 4294967296
    BY DEF Fits32
  <2> QED BY <1>1, <1>2, <1>3, <1>4, <2>1
<1> QED BY <1>5, <1>6

\* b is a varint of width w: continuation bits in all bytes but the last.
VarintBytes(b, w) ==
  /\ b \in Seq(Octets) /\ Len(b) = w
  /\ \A i \in 1..(w - 1) : b[i] >= 128
  /\ b[w] < 128

\* A byte with the continuation bit keeps seven bits.
LEMMA MoreIsByte ==
  ASSUME NEW v \in Nat
  PROVE  More(v) \in Octets /\ More(v) >= 128 /\ More(v) % 128 = v % 128
BY SMT DEF More, Octets

\* The numbers a varint takes seven bits from.
LEMMA Sevens ==
  ASSUME NEW v \in Nat
  PROVE  /\ v = (v % 128) + 128 * (v \div 128)
         /\ v \div 128 = ((v \div 128) % 128) + 128 * (v \div 16384)
         /\ v \div 16384 = ((v \div 16384) % 128) + 128 * (v \div 2097152)
         /\ v \div 2097152 = ((v \div 2097152) % 128) + 128 * (v \div 268435456)
<1>1. \A n \in Nat : n \div 128 \in Nat /\ n = (n % 128) + 128 * (n \div 128)
  BY SMT
<1>2. v \div 16384 = (v \div 128) \div 128
  BY SMT
<1>3. v \div 2097152 = (v \div 16384) \div 128
  BY SMT
<1>4. v \div 268435456 = (v \div 2097152) \div 128
  BY SMT
<1>5. v \div 128 \in Nat /\ v \div 16384 \in Nat /\ v \div 2097152 \in Nat
  BY SMT
<1> QED BY <1>1, <1>2, <1>3, <1>4, <1>5, SMT

\* What encodeVarint32 gives, by size.
LEMMA Encode32Cases ==
  ASSUME NEW v \in Nat
  PROVE  /\ v < 128 => encodeVarint32(v) = <<v>>
         /\ v >= 128 /\ v < 16384 => encodeVarint32(v) = <<More(v), v \div 128>>
         /\ v >= 16384 /\ v < 2097152 =>
              encodeVarint32(v) = <<More(v), More(v \div 128), v \div 16384>>
         /\ v >= 2097152 /\ v < 268435456 =>
              encodeVarint32(v) = <<More(v), More(v \div 128), More(v \div 16384), v \div 2097152>>
         /\ v >= 268435456 =>
              encodeVarint32(v) = <<More(v), More(v \div 128), More(v \div 16384),
                                    More(v \div 2097152), v \div 268435456>>
<1>1. CASE v < 128
  <2>1. /\ ~ (v >= 128 /\ v < 16384) /\ ~ (v >= 16384 /\ v < 2097152)
        /\ ~ (v >= 2097152 /\ v < 268435456) /\ ~ (v >= 128) /\ ~ (v >= 16384)
        /\ ~ (v >= 2097152) /\ ~ (v >= 268435456)
    BY <1>1, SMT
  <2>2. encodeVarint32(v) = <<v>>
    BY <1>1, <2>1, SMT DEF encodeVarint32
  <2> QED BY <2>1, <2>2, SMT
<1>2. CASE v >= 128 /\ v < 16384
  <2>1. /\ ~ (v < 128) /\ ~ (v >= 16384 /\ v < 2097152)
        /\ ~ (v >= 2097152 /\ v < 268435456) /\ ~ (v >= 16384)
        /\ ~ (v >= 2097152) /\ ~ (v >= 268435456)
    BY <1>2, SMT
  <2>2. encodeVarint32(v) = <<More(v), v \div 128>>
    BY <1>2, <2>1, SMT DEF encodeVarint32
  <2> QED BY <2>1, <2>2, SMT
<1>3. CASE v >= 16384 /\ v < 2097152
  <2>1. /\ ~ (v < 128) /\ ~ (v >= 128 /\ v < 16384)
        /\ ~ (v >= 2097152 /\ v < 268435456) /\ ~ (v < 16384)
        /\ ~ (v >= 2097152) /\ ~ (v >= 268435456)
    BY <1>3, SMT
  <2>2. encodeVarint32(v) = <<More(v), More(v \div 128), v \div 16384>>
    BY <1>3, <2>1, SMT DEF encodeVarint32
  <2> QED BY <2>1, <2>2, SMT
<1>4. CASE v >= 2097152 /\ v < 268435456
  <2>1. /\ ~ (v < 128) /\ ~ (v >= 128 /\ v < 16384)
        /\ ~ (v >= 16384 /\ v < 2097152) /\ ~ (v < 16384)
        /\ ~ (v < 2097152) /\ ~ (v >= 268435456)
    BY <1>4, SMT
  <2>2. encodeVarint32(v) = <<More(v), More(v \div 128), More(v \div 16384), v \div 2097152>>
    BY <1>4, <2>1, SMT DEF encodeVarint32
  <2> QED BY <2>1, <2>2, SMT
<1>5. CASE v >= 268435456
  <2>1. /\ ~ (v < 128) /\ ~ (v >= 128 /\ v < 16384)
        /\ ~ (v >= 16384 /\ v < 2097152) /\ ~ (v < 16384)
        /\ ~ (v >= 2097152 /\ v < 268435456)
        /\ ~ (v < 2097152) /\ ~ (v < 268435456)
    BY <1>5, SMT
  <2>2. encodeVarint32(v) = <<More(v), More(v \div 128), More(v \div 16384),
                              More(v \div 2097152), v \div 268435456>>
    BY <1>5, <2>1, SMT DEF encodeVarint32
  <2> QED BY <2>1, <2>2, SMT
<1> QED BY <1>1, <1>2, <1>3, <1>4, <1>5, SMT

\* The value that a reader puts together from the first bytes of b.
Value32(b, w) ==
  CASE w = 1 -> b[1] % 128
    [] w = 2 -> (b[1] % 128) + (b[2] % 128) * 128
    [] w = 3 -> (b[1] % 128) + (b[2] % 128) * 128 + (b[3] % 128) * 16384
    [] w = 4 -> (b[1] % 128) + (b[2] % 128) * 128 + (b[3] % 128) * 16384 + (b[4] % 128) * 2097152
    [] OTHER -> (b[1] % 128) + (b[2] % 128) * 128 + (b[3] % 128) * 16384 + (b[4] % 128) * 2097152
                + ((b[5] % 128) % 16) * 268435456

\* A varint is as wide as varintLength says, and holds the number.
LEMMA Encode32 ==
  ASSUME NEW v \in Nat, Fits32(v)
  PROVE  /\ VarintBytes(encodeVarint32(v), varintLength[v])
         /\ Value32(encodeVarint32(v), varintLength[v]) = v
<1>0. v < 4294967296
  BY SMT DEF Fits32
<1>d. /\ v \div 128 \in Nat /\ v \div 16384 \in Nat /\ v \div 2097152 \in Nat
      /\ v \div 268435456 \in Nat
  BY SMT
<1>1. CASE v < 128
  <2>1. varintLength[v] = 1 /\ encodeVarint32(v) = <<v>>
    BY <1>1, Widths32, Encode32Cases, SMT
  <2>2. v \in Octets /\ v % 128 = v
    BY <1>1, SMT DEF Octets
  <2>3. VarintBytes(<<v>>, 1)
    BY <1>1, <2>2, SMT DEF VarintBytes
  <2>4. Value32(<<v>>, 1) = v
    BY <2>2, SMT DEF Value32
  <2> QED BY <2>1, <2>3, <2>4, SMT
<1>2. CASE v >= 128 /\ v < 16384
  <2>1. varintLength[v] = 2 /\ encodeVarint32(v) = <<More(v), v \div 128>>
    BY <1>2, Widths32, Encode32Cases, SMT
  <2>2. PICK a \in Octets, b \in Octets : a = More(v) /\ b = v \div 128 /\ a >= 128 /\ b < 128
                                          /\ a % 128 = v % 128
    <3>1. v \div 128 \in Octets /\ v \div 128 < 128
      BY <1>2, <1>d, SMT DEF Octets
    <3> QED BY <3>1, MoreIsByte, SMT
  <2>3. VarintBytes(<<a, b>>, 2)
    <3>1. <<a, b>> \in Seq(Octets) /\ Len(<<a, b>>) = 2 /\ <<a, b>>[1] = a /\ <<a, b>>[2] = b
      BY SMT
    <3>2. \A i \in 1..(2 - 1) : i = 1
      BY SMT
    <3> QED BY <2>2, <3>1, <3>2, SMT DEF VarintBytes
  <2>4. Value32(<<a, b>>, 2) = v
    <3>1. Value32(<<a, b>>, 2) = (a % 128) + (b % 128) * 128
      BY SMT DEF Value32
    <3>2. (v % 128) + ((v \div 128) % 128) * 128 = v
      BY <1>2, SMT
    <3> QED BY <2>2, <3>1, <3>2, SMT
  <2> QED BY <2>1, <2>2, <2>3, <2>4, SMT
<1>3. CASE v >= 16384 /\ v < 2097152
  <2>1. varintLength[v] = 3 /\ encodeVarint32(v) = <<More(v), More(v \div 128), v \div 16384>>
    BY <1>3, Widths32, Encode32Cases, SMT
  <2>2. PICK a \in Octets, b \in Octets, c \in Octets :
          /\ a = More(v) /\ b = More(v \div 128) /\ c = v \div 16384
          /\ a >= 128 /\ b >= 128 /\ c < 128
          /\ a % 128 = v % 128 /\ b % 128 = (v \div 128) % 128
    <3>1. v \div 16384 \in Octets /\ v \div 16384 < 128
      BY <1>3, <1>d, SMT DEF Octets
    <3> QED BY <1>d, <3>1, MoreIsByte, SMT
  <2>3. VarintBytes(<<a, b, c>>, 3)
    <3>1. /\ <<a, b, c>> \in Seq(Octets) /\ Len(<<a, b, c>>) = 3
          /\ <<a, b, c>>[1] = a /\ <<a, b, c>>[2] = b /\ <<a, b, c>>[3] = c
      BY SMT
    <3>2. \A i \in 1..(3 - 1) : i = 1 \/ i = 2
      BY SMT
    <3> QED BY <2>2, <3>1, <3>2, SMT DEF VarintBytes
  <2>4. Value32(<<a, b, c>>, 3) = v
    <3>1. Value32(<<a, b, c>>, 3) = (a % 128) + (b % 128) * 128 + (c % 128) * 16384
      BY SMT DEF Value32
    <3>2. (v % 128) + ((v \div 128) % 128) * 128 + ((v \div 16384) % 128) * 16384 = v
      BY <1>3, SMT
    <3> QED BY <2>2, <3>1, <3>2, SMT
  <2> QED BY <2>1, <2>2, <2>3, <2>4, SMT
<1>4. CASE v >= 2097152 /\ v < 268435456
  <2>1. /\ varintLength[v] = 4
        /\ encodeVarint32(v) = <<More(v), More(v \div 128), More(v \div 16384), v \div 2097152>>
    BY <1>4, Widths32, Encode32Cases, SMT
  <2>2. PICK a \in Octets, b \in Octets, c \in Octets, d \in Octets :
          /\ a = More(v) /\ b = More(v \div 128) /\ c = More(v \div 16384) /\ d = v \div 2097152
          /\ a >= 128 /\ b >= 128 /\ c >= 128 /\ d < 128
          /\ a % 128 = v % 128 /\ b % 128 = (v \div 128) % 128 /\ c % 128 = (v \div 16384) % 128
    <3>1. v \div 2097152 \in Octets /\ v \div 2097152 < 128
      BY <1>4, <1>d, SMT DEF Octets
    <3> QED BY <1>d, <3>1, MoreIsByte, SMT
  <2>3. VarintBytes(<<a, b, c, d>>, 4)
    <3>1. /\ <<a, b, c, d>> \in Seq(Octets) /\ Len(<<a, b, c, d>>) = 4
          /\ <<a, b, c, d>>[1] = a /\ <<a, b, c, d>>[2] = b /\ <<a, b, c, d>>[3] = c
          /\ <<a, b, c, d>>[4] = d
      BY SMT
    <3>2. \A i \in 1..(4 - 1) : i = 1 \/ i = 2 \/ i = 3
      BY SMT
    <3> QED BY <2>2, <3>1, <3>2, SMT DEF VarintBytes
  <2>4. Value32(<<a, b, c, d>>, 4) = v
    <3>1. Value32(<<a, b, c, d>>, 4)
            = (a % 128) + (b % 128) * 128 + (c % 128) * 16384 + (d % 128) * 2097152
      BY SMT DEF Value32
    <3>3. PICK x \in Nat, y \in Nat, z \in Nat, u \in Nat :
            /\ x = a % 128 /\ x = v % 128 /\ y = b % 128 /\ y = (v \div 128) % 128
            /\ z = c % 128 /\ z = (v \div 16384) % 128
            /\ u = d % 128 /\ u = (v \div 2097152) % 128
      BY <1>d, <2>2, SMT DEF Octets
    <3>4. Value32(<<a, b, c, d>>, 4) = x + y * 128 + z * 16384 + u * 2097152
      BY <3>1, <3>3, SMT
    <3>5. x + y * 128 + z * 16384 + u * 2097152 = v
      <4>1. PICK e \in Nat, f \in Nat, g \in Nat :
              /\ e = v \div 128 /\ f = v \div 16384 /\ g = v \div 2097152
              /\ v = (v % 128) + 128 * e /\ e = (e % 128) + 128 * f /\ f = (f % 128) + 128 * g
        BY <1>d, Sevens, SMT
      <4>2. x = v % 128 /\ y = e % 128 /\ z = f % 128
        BY <3>3, <4>1, SMT
      <4>3. u = g
        <5>1. g < 128 /\ u = g % 128
          BY <1>4, <3>3, <4>1, SMT
        <5> QED BY <5>1, SMT
      <4>4. v = x + 128 * e /\ e = y + 128 * f /\ f = z + 128 * g
        BY <4>1, <4>2, SMT
      <4> QED BY <4>3, <4>4, SMT
    <3> QED BY <3>4, <3>5, SMT
  <2> QED BY <2>1, <2>2, <2>3, <2>4, SMT
<1>5. CASE v >= 268435456
  <2>1. /\ varintLength[v] = 5
        /\ encodeVarint32(v) = <<More(v), More(v \div 128), More(v \div 16384),
                                 More(v \div 2097152), v \div 268435456>>
    BY <1>5, Widths32, Encode32Cases, SMT
  <2>2. PICK a \in Octets, b \in Octets, c \in Octets, d \in Octets, e \in Octets :
          /\ a = More(v) /\ b = More(v \div 128) /\ c = More(v \div 16384)
          /\ d = More(v \div 2097152) /\ e = v \div 268435456
          /\ a >= 128 /\ b >= 128 /\ c >= 128 /\ d >= 128 /\ e < 16
          /\ a % 128 = v % 128 /\ b % 128 = (v \div 128) % 128 /\ c % 128 = (v \div 16384) % 128
          /\ d % 128 = (v \div 2097152) % 128
    <3>1. v \div 268435456 \in Octets /\ v \div 268435456 < 16
      BY <1>0, <1>d, SMT DEF Octets
    <3> QED BY <1>d, <3>1, MoreIsByte, SMT
  <2>3. VarintBytes(<<a, b, c, d, e>>, 5)
    <3>1. /\ <<a, b, c, d, e>> \in Seq(Octets) /\ Len(<<a, b, c, d, e>>) = 5
          /\ <<a, b, c, d, e>>[1] = a /\ <<a, b, c, d, e>>[2] = b /\ <<a, b, c, d, e>>[3] = c
          /\ <<a, b, c, d, e>>[4] = d /\ <<a, b, c, d, e>>[5] = e
      BY SMT
    <3>2. \A i \in 1..(5 - 1) : i = 1 \/ i = 2 \/ i = 3 \/ i = 4
      BY SMT
    <3>3. e < 128
      BY <2>2, SMT DEF Octets
    <3> QED BY <2>2, <3>1, <3>2, <3>3, SMT DEF VarintBytes
  <2>4. Value32(<<a, b, c, d, e>>, 5) = v
    <3>1. Value32(<<a, b, c, d, e>>, 5)
            = (a % 128) + (b % 128) * 128 + (c % 128) * 16384 + (d % 128) * 2097152
              + ((e % 128) % 16) * 268435456
      BY SMT DEF Value32
    <3>2. (e % 128) % 16 = e
      BY <2>2, SMT DEF Octets
    <3>3. (v % 128) + ((v \div 128) % 128) * 128 + ((v \div 16384) % 128) * 16384
            + ((v \div 2097152) % 128) * 2097152 + (v \div 268435456) * 268435456 = v
      BY <1>5, SMT
    <3> QED BY <2>2, <3>1, <3>2, <3>3, SMT
  <2> QED BY <2>1, <2>2, <2>3, <2>4, SMT
<1> QED BY <1>1, <1>2, <1>3, <1>4, <1>5, SMT

\* m has the bytes b from p on.
Holds(m, p, b) == p + Len(b) <= Len(m) /\ \A i \in 1..Len(b) : m[p + i] = b[i]

\* A pointer into such bytes reads them.
LEMMA HeldByte ==
  ASSUME NEW m \in Seq(Octets), NEW p \in Nat, NEW b \in Seq(Octets), Holds(m, p, b),
         NEW i \in Nat, i < Len(b)
  PROVE  At(m, p + i) = b[i + 1]
<1>1. PICK l \in Nat, k \in Nat : l = Len(m) /\ k = Len(b)
  OBVIOUS
<1>2. p + k <= l /\ m[p + (i + 1)] = b[i + 1]
  BY <1>1 DEF Holds
<1>3. p + i < l /\ p + (i + 1) = p + i + 1
  BY <1>1, <1>2
<1> QED BY <1>1, <1>2, <1>3 DEF At

\* Where a varint ends is determined.
LEMMA EndsOnce ==
  ASSUME NEW m \in Seq(Octets), NEW p \in Nat, NEW limit \in Nat,
         NEW b, NEW w \in 1..5, VarintBytes(b, w), Holds(m, p, b), p + w <= limit
  PROVE  /\ EndsAt(m, p, limit, w - 1)
         /\ \A k \in 0..4 : EndsAt(m, p, limit, k) => k = w - 1
<1>1. b \in Seq(Octets) /\ Len(b) = w /\ b[w] < 128 /\ \A i \in 1..(w - 1) : b[i] >= 128
  BY DEF VarintBytes
<1>2. \A i \in Nat : i < w => At(m, p + i) = b[i + 1]
  BY <1>1, HeldByte
<1>3. At(m, p + (w - 1)) < 128
  <2>1. w - 1 \in Nat /\ w - 1 < w /\ (w - 1) + 1 = w
    OBVIOUS
  <2>2. At(m, p + (w - 1)) = b[w]
    BY <1>2, <2>1
  <2> QED BY <1>1, <2>2
<1>4. ASSUME NEW i \in 0..4, i < w - 1 PROVE At(m, p + i) >= 128
  <2>1. i \in Nat /\ i < w /\ i + 1 \in 1..(w - 1)
    BY <1>4
  <2> QED BY <1>1, <1>2, <2>1
<1>5. EndsAt(m, p, limit, w - 1)
  <2>1. p + (w - 1) < limit
    OBVIOUS
  <2> QED BY <1>3, <1>4, <2>1 DEF EndsAt
<1>6. ASSUME NEW k \in 0..4, EndsAt(m, p, limit, k) PROVE k = w - 1
  <2>1. At(m, p + k) < 128 /\ \A i \in 0..4 : i < k => At(m, p + i) >= 128
    BY <1>6 DEF EndsAt
  <2>t. \A i \in Nat : i < w => At(m, p + i) \in Int
    <3>1. \A i \in 1..w : b[i] \in Octets
      BY <1>1, ElementOfSeq
    <3>2. ASSUME NEW i \in Nat, i < w PROVE At(m, p + i) \in Int
      <4>1. i + 1 \in 1..w
        BY <3>2
      <4>2. b[i + 1] \in Octets
        BY <3>1, <4>1
      <4> QED BY <1>2, <3>2, <4>2 DEF Octets
    <3> QED BY <3>2
  <2>2. CASE k < w - 1
    <3>1. At(m, p + k) >= 128
      BY <1>4, <2>2
    <3>2. At(m, p + k) \in Int
      <4>1. k \in Nat /\ k < w
        BY <2>2
      <4> QED BY <2>t, <4>1
    <3> QED BY <2>1, <3>1, <3>2
  <2>3. CASE k > w - 1
    <3>1. w - 1 \in 0..4 /\ w - 1 \in Nat /\ w - 1 < w
      OBVIOUS
    <3>2. At(m, p + (w - 1)) >= 128 /\ At(m, p + (w - 1)) \in Int
      BY <2>1, <2>3, <2>t, <3>1
    <3> QED BY <1>3, <3>2
  <2> QED BY <2>2, <2>3
<1> QED BY <1>5, <1>6

\* getVarint32Ptr reads the number that encodeVarint32 wrote.
LEMMA Decode32 ==
  ASSUME NEW v \in Nat, Fits32(v), NEW m \in Seq(Octets), NEW p \in Nat, NEW limit \in Nat,
         p + 5 <= limit \/ p + varintLength[v] <= limit, Holds(m, p, encodeVarint32(v))
  PROVE  getVarint32Ptr(m, p, limit) = [end |-> p + varintLength[v], value |-> v]
<1>1. PICK w \in 1..5 : w = varintLength[v]
  BY Widths32, SMT
<1>2. PICK b : b = encodeVarint32(v)
  OBVIOUS
<1>3. VarintBytes(b, w) /\ Value32(b, w) = v
  BY <1>1, <1>2, Encode32, Zenon
<1>4. Holds(m, p, b)
  BY <1>2, Zenon
<1>5. p + w <= limit
  BY <1>1
<1>6. EndsAt(m, p, limit, w - 1) /\ \A k \in 0..4 : EndsAt(m, p, limit, k) => k = w - 1
  BY <1>3, <1>4, <1>5, EndsOnce
<1>7. w - 1 \in 0..4
  OBVIOUS
<1>8. (CHOOSE k \in 0..4 : EndsAt(m, p, limit, k)) = w - 1
  BY <1>6, <1>7, Zenon
<1>9. Decoded32(m, p, w - 1) = v
  <2>1. b \in Seq(Octets) /\ Len(b) = w
    BY <1>3 DEF VarintBytes
  <2>2. \A i \in Nat : i < w => At(m, p + i) = b[i + 1]
    BY <1>4, <2>1, HeldByte
  <2>3. /\ w >= 1 => At(m, p + 0) = b[1]
        /\ w >= 2 => At(m, p + 1) = b[2]
        /\ w >= 3 => At(m, p + 2) = b[3]
        /\ w >= 4 => At(m, p + 3) = b[4]
        /\ w >= 5 => At(m, p + 4) = b[5]
    BY <2>2
  <2>4. Decoded32(m, p, w - 1) = Value32(b, w)
    <3>1. CASE w = 1
      BY <2>3, <3>1, SMT DEF Decoded32, Value32
    <3>2. CASE w = 2
      BY <2>3, <3>2, SMT DEF Decoded32, Value32
    <3>3. CASE w = 3
      BY <2>3, <3>3, SMT DEF Decoded32, Value32
    <3>4. CASE w = 4
      BY <2>3, <3>4, SMT DEF Decoded32, Value32
    <3>5. CASE w = 5
      BY <2>3, <3>5, SMT DEF Decoded32, Value32
    <3> QED BY <3>1, <3>2, <3>3, <3>4, <3>5
  <2> QED BY <1>3, <2>4
<1>10. p + (w - 1) + 1 = p + w
  OBVIOUS
<1>11. \E k \in 0..4 : EndsAt(m, p, limit, k)
  BY <1>6, <1>7, Zenon
<1>12. getVarint32Ptr(m, p, limit) = [end |-> p + (w - 1) + 1, value |-> Decoded32(m, p, w - 1)]
  BY <1>8, <1>11, Zenon DEF getVarint32Ptr
<1> QED BY <1>1, <1>9, <1>10, <1>12, Zenon

\* getVarint64Ptr comes to the end of the number that is there.
LEMMA End64 ==
  ASSUME NEW m \in Seq(Octets), NEW p \in Nat, NEW b, NEW w \in 1..9, VarintBytes(b, w),
         Holds(m, p, b), NEW limit \in Nat, p + w <= limit
  PROVE  getVarint64Ptr(m, p, limit).end = p + w
<1>1. b \in Seq(Octets) /\ Len(b) = w /\ b[w] < 128 /\ \A i \in 1..(w - 1) : b[i] >= 128
  BY DEF VarintBytes
<1>2. \A i \in Nat : i < w => At(m, p + i) = b[i + 1]
  BY <1>1, HeldByte
<1>t. ASSUME NEW i \in Nat, i < w PROVE At(m, p + i) \in Int
  <2>1. \A j \in 1..w : b[j] \in Octets
    BY <1>1, ElementOfSeq
  <2>2. i + 1 \in 1..w
    BY <1>t
  <2>3. b[i + 1] \in Octets
    BY <2>1, <2>2
  <2>4. At(m, p + i) = b[i + 1]
    BY <1>2, <1>t, Zenon
  <2>5. \A x \in Octets : x \in Int
    BY DEF Octets
  <2> QED BY <2>3, <2>4, <2>5, Zenon
<1>3. PICK k \in 0..8 : k = w - 1 /\ p + k + 1 = p + w
  OBVIOUS
<1>4. At(m, p + k) < 128
  BY <1>1, <1>2, <1>3
<1>5. ASSUME NEW i \in 0..(k - 1) PROVE At(m, p + i) >= 128
  <2>1. i \in Nat /\ i < w /\ i + 1 \in 1..(w - 1)
    BY <1>3
  <2> QED BY <1>1, <1>2, <2>1
<1> DEFINE ends == {j \in 0..9 : /\ p + j < limit /\ At(m, p + j) < 128
                                 /\ \A i \in 0..(j - 1) : At(m, p + i) >= 128}
<1>6. k \in ends
  <2>1. p + k < limit /\ k \in 0..9
    BY <1>3
  <2> QED BY <1>4, <1>5, <2>1
<1>7. ASSUME NEW j \in ends PROVE j = k
  <2>1. /\ j \in 0..9 /\ At(m, p + j) < 128
        /\ \A i \in 0..(j - 1) : At(m, p + i) >= 128
    OBVIOUS
  <2>2. CASE j < k
    <3>1. j \in 0..(k - 1) /\ j \in Nat /\ j < w
      BY <1>3, <2>1, <2>2
    <3>2. At(m, p + j) \in Int /\ At(m, p + j) >= 128
      BY <1>5, <1>t, <3>1
    <3> QED BY <2>1, <3>2
  <2>3. CASE k < j
    <3>1. k \in 0..(j - 1) /\ k \in Nat /\ k < w
      BY <1>3, <2>1, <2>3
    <3>2. At(m, p + k) \in Int /\ At(m, p + k) >= 128
      BY <1>t, <2>1, <3>1
    <3> QED BY <1>4, <3>2
  <2> QED BY <2>1, <2>2, <2>3
<1> DEFINE Value(l) == LET high[i \in 0..l] == (At(m, p + i) % 128)
                                     + (IF i = l THEN 0 ELSE 128 * high[i + 1])
                       IN  high[0]
<1>8. getVarint64Ptr(m, p, limit) =
        IF ends = {} THEN [end |-> Null, value |-> 0]
        ELSE [end |-> p + (CHOOSE j \in ends : TRUE) + 1,
              value |-> Value(CHOOSE j \in ends : TRUE)]
  BY Zenon DEF getVarint64Ptr
<1> HIDE DEF Value
<1> HIDE DEF ends
<1>9. ends # {} /\ (CHOOSE j \in ends : TRUE) = k
  <2>1. (CHOOSE j \in ends : TRUE) \in ends
    BY <1>6, Zenon
  <2> QED BY <1>6, <1>7, <2>1, Zenon
<1>10. getVarint64Ptr(m, p, limit) = [end |-> p + k + 1, value |-> Value(k)]
  BY <1>8, <1>9, Zenon
<1> QED BY <1>3, <1>10

\* The shifts of a number by seven bits each.
IsShifted(g, v, n) ==
  g \in [1..n -> Nat] /\ \A i \in 1..n : g[i] = IF i = 1 THEN v ELSE g[i - 1] \div 128

\* There are any number of them.
LEMMA ShiftsUpTo ==
  ASSUME NEW v \in Nat, NEW n \in Nat PROVE \E g : IsShifted(g, v, n)
<1> DEFINE None == {x \in Nat : ~ \E g : IsShifted(g, v, x)}
<1>1. ASSUME None # {} PROVE FALSE
  <2>1. None \subseteq Nat
    OBVIOUS
  <2> HIDE DEF None
  <2>2. PICK x \in None : \A y \in None : x <= y
    BY <1>1, <2>1, LeastOne
  <2>3. x \in Nat
    BY <2>1
  <2>4. CASE x = 0
    <3> DEFINE g == [i \in 1..0 |-> 0]
    <3>1. IsShifted(g, v, 0)
      BY DEF IsShifted
    <3> HIDE DEF g
    <3>2. \E h : IsShifted(h, v, 0)
      BY <3>1
    <3> QED BY <2>4, <3>2 DEF None
  <2>5. CASE x # 0
    <3>1. PICK y \in Nat : x = y + 1 /\ y \notin None
      <4>1. x - 1 \in Nat /\ x = (x - 1) + 1 /\ ~ (x <= x - 1)
        BY <2>3, <2>5
      <4> QED BY <2>2, <4>1
    <3>2. PICK f : IsShifted(f, v, y)
      BY <3>1 DEF None
    <3>3. f \in [1..y -> Nat] /\ \A i \in 1..y : f[i] = IF i = 1 THEN v ELSE f[i - 1] \div 128
      BY <3>2 DEF IsShifted
    <3>4. PICK new \in Nat : new = IF x = 1 THEN v ELSE f[y] \div 128
      <4>1. CASE x = 1
        BY <4>1
      <4>2. CASE x # 1
        <5>1. y \in 1..y
          BY <3>1, <4>2
        <5>2. PICK z \in Nat : z = f[y]
          BY <3>3, <5>1
        <5>3. z \div 128 \in Nat
          BY Shift7
        <5> QED BY <4>2, <5>2, <5>3
      <4> QED BY <4>1, <4>2
    <3> DEFINE g == [i \in 1..x |-> IF i = x THEN new ELSE f[i]]
    <3>5. g[x] = new /\ \A i \in 1..y : g[i] = f[i]
      BY <2>3, <2>5, <3>1
    <3>6. g \in [1..x -> Nat]
      BY <3>1, <3>3
    <3> HIDE DEF g
    <3>7. ASSUME NEW i \in 1..x PROVE g[i] = IF i = 1 THEN v ELSE g[i - 1] \div 128
      <4>1. CASE i = x
        <5>1. CASE x = 1
          BY <3>4, <3>5, <4>1, <5>1
        <5>2. CASE x # 1
          <6>1. x - 1 = y /\ y \in 1..y
            BY <3>1, <5>2
          <6>2. g[i - 1] = f[y]
            BY <3>5, <4>1, <6>1
          <6>3. g[i] = f[y] \div 128
            BY <3>4, <3>5, <4>1, <5>2, Zenon
          <6> QED BY <4>1, <5>2, <6>2, <6>3, Zenon
        <5> QED BY <5>1, <5>2
      <4>2. CASE i # x
        <5>1. i \in 1..y /\ (i # 1 => i - 1 \in 1..y)
          BY <3>1, <4>2
        <5> QED BY <3>3, <3>5, <5>1, Zenon
      <4> QED BY <4>1, <4>2
    <3>8. IsShifted(g, v, x)
      BY <3>6, <3>7 DEF IsShifted
    <3> QED BY <2>2, <3>8 DEF None
  <2> QED BY <2>4, <2>5
<1> QED BY <1>1

\* Every shift takes one byte from the width.
LEMMA ShiftWidths ==
  ASSUME NEW v \in Nat, NEW w \in Nat, w = varintLength[v], NEW g, IsShifted(g, v, w),
         NEW i \in 1..w
  PROVE  varintLength[g[i]] = w - i + 1
<1> DEFINE Bad == {h \in Nat : h \in 1..w /\ varintLength[g[h]] # w - h + 1}
<1>g. g \in [1..w -> Nat] /\ \A h \in 1..w : g[h] = IF h = 1 THEN v ELSE g[h - 1] \div 128
  BY DEF IsShifted
<1>1. ASSUME Bad # {} PROVE FALSE
  <2>1. PICK x \in Bad : \A y \in Bad : x <= y
    <3>1. Bad \subseteq Nat
      OBVIOUS
    <3> HIDE DEF Bad
    <3> QED BY <1>1, <3>1, LeastOne
  <2>2. x \in 1..w /\ varintLength[g[x]] # w - x + 1
    OBVIOUS
  <2>3. x # 1
    <3>1. x = 1 => g[x] = v /\ w - x + 1 = w
      BY <1>g, <2>2
    <3> QED BY <2>2, <3>1
  <2>4. PICK y \in 1..w : y = x - 1 /\ y < x /\ y \in Nat
    BY <2>2, <2>3
  <2>5. y \notin Bad
    BY <2>1, <2>2, <2>4
  <2>6. PICK z \in Nat : z = g[y] /\ g[x] = z \div 128
    BY <1>g, <2>2, <2>3, <2>4
  <2>7. varintLength[z] = w - y + 1
    BY <2>4, <2>5, <2>6
  <2>8. varintLength[z] = IF z < 128 THEN 1 ELSE 1 + varintLength[z \div 128]
    BY WidthFacts
  <2>9. varintLength[z \div 128] \in Nat
    BY WidthFacts, Shift7
  <2>10. varintLength[z \div 128] = w - x + 1
    BY <2>2, <2>4, <2>7, <2>8, <2>9
  <2> QED BY <2>2, <2>6, <2>10
<1> QED BY <1>1

\* encodeVarint64 writes a varint as wide as varintLength says.
LEMMA Encode64 ==
  ASSUME NEW v \in Nat
  PROVE  VarintBytes(encodeVarint64(v), varintLength[v])
<1>1. PICK w \in Nat : w = varintLength[v] /\ w >= 1
  <2>1. /\ varintLength[v] = IF v < 128 THEN 1 ELSE 1 + varintLength[v \div 128]
        /\ varintLength[v] \in Nat /\ varintLength[v \div 128] \in Nat
    BY WidthFacts, Shift7
  <2> QED BY <2>1
<1> DEFINE Solves64(g) == g = [i \in 1..w |-> IF i = 1 THEN v ELSE g[i - 1] \div 128]
<1>2. \E g : Solves64(g)
  <2>1. PICK g : IsShifted(g, v, w)
    BY ShiftsUpTo
  <2>2. g = [i \in 1..w |-> g[i]] /\ \A i \in 1..w : g[i] = IF i = 1 THEN v ELSE g[i - 1] \div 128
    BY <2>1, Zenon DEF IsShifted
  <2>3. [i \in 1..w |-> g[i]] = [i \in 1..w |-> IF i = 1 THEN v ELSE g[i - 1] \div 128]
    BY <2>2, Zenon
  <2>4. Solves64(g)
    BY <2>2, <2>3, Zenon
  <2> HIDE DEF Solves64
  <2> QED BY <2>4
<1> DEFINE g == CHOOSE h : h = [i \in 1..varintLength[v] |-> IF i = 1 THEN v
                                                             ELSE h[i - 1] \div 128]
<1>4. g = CHOOSE h : Solves64(h)
  BY <1>1, Zenon
<1>5. Solves64(g)
  BY <1>2, <1>4, Zenon
<1>6. \A i \in 1..w : g[i] = IF i = 1 THEN v ELSE g[i - 1] \div 128
  BY <1>5, Zenon
<1>7. encodeVarint64(v) = [i \in 1..w |-> IF i < w THEN More(g[i]) ELSE g[i]]
  <2>1. encodeVarint64(v) = [i \in 1..varintLength[v] |->
                               IF i < varintLength[v] THEN More(g[i]) ELSE g[i]]
    BY DEF encodeVarint64
  <2> HIDE DEF g
  <2> QED BY <1>1, <2>1, Zenon
<1> HIDE DEF g
<1>8. g = [i \in 1..w |-> g[i]]
  BY <1>5, <1>6, Zenon
<1> HIDE DEF Solves64
<1>9. \A i \in 1..w : g[i] \in Nat
  <2> DEFINE Bad == {i \in Nat : i \in 1..w /\ g[i] \notin Nat}
  <2>1. ASSUME Bad # {} PROVE FALSE
    <3>1. PICK x \in Bad : \A y \in Bad : x <= y
      <4>1. Bad \subseteq Nat
        OBVIOUS
      <4> HIDE DEF Bad
      <4> QED BY <2>1, <4>1, LeastOne
    <3>2. x \in 1..w /\ g[x] \notin Nat
      OBVIOUS
    <3>3. x # 1
      BY <1>6, <3>2
    <3>4. PICK y \in 1..w : y = x - 1 /\ y < x /\ y \in Nat
      BY <3>2, <3>3
    <3>5. g[y] \in Nat
      BY <3>1, <3>2, <3>4
    <3>6. PICK z \in Nat : z = g[y] /\ g[x] = z \div 128
      BY <1>6, <3>2, <3>3, <3>4, <3>5
    <3> QED BY <3>2, <3>6, Shift7
  <2> QED BY <2>1
<1>s. IsShifted(g, v, w)
  <2>1. g \in [1..w -> Nat]
    BY <1>8, <1>9, Zenon
  <2> QED BY <1>6, <2>1, Zenon DEF IsShifted
<1>10. g[w] < 128
  <2>1. w \in 1..w
    BY <1>1
  <2>2. PICK z \in Nat : z = g[w]
    BY <1>9, <2>1
  <2>3. varintLength[z] = 1
    <3>1. varintLength[g[w]] = w - w + 1
      BY <1>1, <1>s, <2>1, ShiftWidths
    <3> QED BY <1>1, <2>2, <3>1
  <2>4. varintLength[z] = IF z < 128 THEN 1 ELSE 1 + varintLength[z \div 128]
    BY WidthFacts
  <2>5. PICK y \in Nat : y = z \div 128
    BY Shift7
  <2>6. varintLength[y] \in Nat /\ varintLength[y] >= 1
    <3>1. /\ varintLength[y] = IF y < 128 THEN 1 ELSE 1 + varintLength[y \div 128]
          /\ varintLength[y] \in Nat /\ varintLength[y \div 128] \in Nat
      BY WidthFacts, Shift7
    <3> QED BY <3>1
  <2> QED BY <2>2, <2>3, <2>4, <2>5, <2>6
<1>11. PICK b : b = encodeVarint64(v)
  OBVIOUS
<1>12. \A i \in 1..w : b[i] = IF i < w THEN More(g[i]) ELSE g[i]
  BY <1>7, <1>11, Zenon
<1>13. ASSUME NEW i \in 1..w PROVE b[i] \in Octets /\ (i < w => b[i] >= 128)
  <2>1. CASE i < w
    BY <1>9, <1>12, <2>1, MoreIsByte, SMT
  <2>2. CASE i = w
    BY <1>9, <1>10, <1>12, <2>2, SMT DEF Octets
  <2> QED BY <1>1, <2>1, <2>2, SMT
<1>14. b \in [1..w -> Octets]
  <2>1. b = [i \in 1..w |-> b[i]]
    BY <1>7, <1>11, Zenon
  <2> QED BY <1>13, <2>1, Zenon
<1>15. b \in Seq(Octets) /\ Len(b) = w
  BY <1>14, FunctionIsSeq
<1>16. b[w] < 128
  BY <1>1, <1>10, <1>12, SMT
<1>17. VarintBytes(b, w)
  <2>1. \A i \in 1..(w - 1) : i \in 1..w /\ i < w
    BY <1>1, SMT
  <2> QED BY <1>13, <1>15, <1>16, <2>1, Zenon DEF VarintBytes
<1> QED BY <1>1, <1>11, <1>17, Zenon

\* A string_view of bytes that are there.
LEMMA ViewHolds ==
  ASSUME NEW m \in Seq(Octets), NEW p \in Nat, NEW s \in Seq(Octets), Holds(m, p, s)
  PROVE  View(m, p, Len(s)) = s
<1>1. PICK l \in Nat, k \in Nat : l = Len(m) /\ k = Len(s)
  OBVIOUS
<1>2. p + k <= l /\ \A i \in 1..k : m[p + i] = s[i]
  BY <1>1 DEF Holds
<1>3. View(m, p, k) = SubSeq(m, p + 1, p + k)
  BY <1>1, <1>2 DEF View
<1>4. PICK t : t = SubSeq(m, p + 1, p + k)
  OBVIOUS
<1>5. t \in Seq(Octets) /\ Len(t) = k /\ \A i \in 1..k : t[i] = m[p + i]
  <2>1. /\ p + 1 \in 1..(l + 1) /\ p + k \in 0..l
    BY <1>2
  <2>2. t \in Seq(Octets)
    BY <1>1, <1>2, <1>4, SubSeqProperties
  <2>3. Len(t) = k
    BY <1>1, <1>2, <1>4
  <2>4. \A i \in 1..k : t[i] = m[p + 1 + i - 1] /\ p + 1 + i - 1 = p + i
    BY <1>1, <1>2, <1>4
  <2> QED BY <2>2, <2>3, <2>4
<1>6. t = s
  BY <1>1, <1>2, <1>5, SeqEqual
<1> QED BY <1>1, <1>3, <1>4, <1>6

\* Bytes written over m stand there, and what does not overlap them stays.
LEMMA HoldsOverwrite ==
  ASSUME NEW m \in Seq(Octets), NEW bytes \in Seq(Octets), NEW p \in Nat,
         p + Len(bytes) <= Len(m)
  PROVE  LET r == Overwrite(m, p, bytes) IN
         /\ r \in Seq(Octets) /\ Len(r) = Len(m) /\ Holds(r, p, bytes)
         /\ \A q \in Nat, s \in Seq(Octets) :
              Holds(m, q, s) /\ (q + Len(s) <= p \/ p + Len(bytes) <= q) => Holds(r, q, s)
<1>1. PICK r : r = Overwrite(m, p, bytes)
  OBVIOUS
<1>2. r \in Seq(Octets) /\ Replaced(r, m, p, bytes)
  BY <1>1, OverwriteReplaces
<1>3. PICK l \in Nat, k \in Nat : l = Len(m) /\ k = Len(bytes) /\ p + k <= l
  OBVIOUS
<1>4. /\ Len(r) = l /\ \A i \in 1..k : r[p + i] = bytes[i]
      /\ \A i \in 1..p : r[i] = m[i]
      /\ \A i \in 1..l : i > p + k => r[i] = m[i]
  BY <1>2, <1>3 DEF Replaced
<1>5. Holds(r, p, bytes)
  BY <1>3, <1>4 DEF Holds
<1>6. ASSUME NEW q \in Nat, NEW s \in Seq(Octets), Holds(m, q, s),
             q + Len(s) <= p \/ p + Len(bytes) <= q
      PROVE  Holds(r, q, s)
  <2>1. PICK z \in Nat : z = Len(s)
    OBVIOUS
  <2>2. q + z <= l /\ \A i \in 1..z : m[q + i] = s[i]
    BY <1>3, <1>6, <2>1 DEF Holds
  <2>3. ASSUME NEW i \in 1..z PROVE r[q + i] = m[q + i]
    <3>1. CASE q + z <= p
      BY <1>4, <3>1
    <3>2. CASE p + k <= q
      BY <1>4, <2>2, <3>2
    <3> QED BY <1>3, <1>6, <2>1, <3>1, <3>2
  <2> QED BY <1>4, <2>1, <2>2, <2>3 DEF Holds
<1> QED BY <1>1, <1>2, <1>3, <1>4, <1>5, <1>6

\* What a text holds, it holds with another one behind it.
LEMMA HoldsConcat ==
  ASSUME NEW s \in Seq(Octets), NEW t \in Seq(Octets)
  PROVE  /\ s \o t \in Seq(Octets) /\ Len(s \o t) = Len(s) + Len(t)
         /\ Holds(s \o t, Len(s), t)
         /\ \A q \in Nat, x \in Seq(Octets) : Holds(s, q, x) => Holds(s \o t, q, x)
<1>1. PICK l \in Nat, k \in Nat : l = Len(s) /\ k = Len(t)
  OBVIOUS
<1>2. PICK r \in Seq(Octets) : r = s \o t /\ Joined(r, s, t)
  BY ConcatJoins
<1>3. /\ Len(r) = l + k
      /\ \A i \in 1..l : r[i] = s[i]
      /\ \A i \in 1..k : r[l + i] = t[i]
  BY <1>1, <1>2 DEF Joined
<1>4. Holds(r, l, t)
  BY <1>1, <1>3 DEF Holds
<1>5. ASSUME NEW q \in Nat, NEW x \in Seq(Octets), Holds(s, q, x) PROVE Holds(r, q, x)
  <2>1. PICK z \in Nat : z = Len(x)
    OBVIOUS
  <2>2. q + z <= l /\ \A i \in 1..z : s[q + i] = x[i]
    BY <1>1, <1>5, <2>1 DEF Holds
  <2>3. ASSUME NEW i \in 1..z PROVE r[q + i] = x[i]
    BY <1>3, <2>2
  <2>4. q + z <= l + k
    BY <2>2
  <2> QED BY <1>3, <2>1, <2>3, <2>4 DEF Holds
<1> QED BY <1>1, <1>2, <1>3, <1>4, <1>5

\* A size, a text, a number and a type, one behind the other.
Heads(r, kk, k, q, t) ==
  /\ r \in Seq(Octets)
  /\ Holds(r, 0, kk) /\ Holds(r, Len(kk), k) /\ Holds(r, Len(kk) + Len(k), q)
  /\ Holds(r, Len(kk) + Len(k) + Len(q), t)

\* What Memtable::Set and Memtable::Delete write over their blanks.
LEMMA HeadsWritten ==
  ASSUME NEW blank \in Seq(Octets), NEW k \in Seq(Octets), NEW kk \in Seq(Octets),
         NEW q \in Seq(Octets), NEW t \in Seq(Octets),
         Len(kk) + Len(k) + Len(q) + Len(t) <= Len(blank), Holds(blank, Len(kk), k)
  PROVE  LET numbered == Overwrite(Overwrite(blank, 0, kk), Len(kk) + Len(k), q)
             r == Overwrite(numbered, Len(kk) + Len(k) + Len(q), t)
         IN  /\ Heads(r, kk, k, q, t) /\ Len(r) = Len(blank)
             /\ \A p \in Nat, s \in Seq(Octets) :
                  Holds(blank, p, s) /\ Len(kk) + Len(k) + Len(q) + Len(t) <= p => Holds(r, p, s)
<1>1. PICK z \in Nat, lk \in Nat, lkk \in Nat, lq \in Nat, lt \in Nat :
        /\ z = Len(blank) /\ lk = Len(k) /\ lkk = Len(kk) /\ lq = Len(q) /\ lt = Len(t)
        /\ lkk + lk + lq + lt <= z
  OBVIOUS
<1>2. PICK m : m = Overwrite(blank, 0, kk)
  OBVIOUS
<1>3. /\ m \in Seq(Octets) /\ Len(m) = z /\ Holds(m, 0, kk)
      /\ \A p \in Nat, s \in Seq(Octets) : Holds(blank, p, s) /\ lkk <= p => Holds(m, p, s)
  <2>1. 0 + Len(kk) <= Len(blank) /\ 0 + Len(kk) = lkk
    BY <1>1
  <2>2. /\ m \in Seq(Octets) /\ Len(m) = Len(blank) /\ Holds(m, 0, kk)
        /\ \A p \in Nat, s \in Seq(Octets) :
             Holds(blank, p, s) /\ (p + Len(s) <= 0 \/ 0 + Len(kk) <= p) => Holds(m, p, s)
    BY <1>2, <2>1, HoldsOverwrite
  <2> QED BY <1>1, <2>1, <2>2
<1>4. PICK u : u = Overwrite(m, lkk + lk, q)
  OBVIOUS
<1>5. /\ u \in Seq(Octets) /\ Len(u) = z /\ Holds(u, lkk + lk, q)
      /\ \A p \in Nat, s \in Seq(Octets) :
           Holds(m, p, s) /\ (p + Len(s) <= lkk + lk \/ lkk + lk + lq <= p) => Holds(u, p, s)
  <2>1. lkk + lk + Len(q) <= Len(m) /\ lkk + lk \in Nat
    BY <1>1, <1>3
  <2>2. m \in Seq(Octets)
    BY <1>3
  <2> QED BY <1>1, <1>3, <1>4, <2>1, <2>2, HoldsOverwrite
<1>6. PICK r : r = Overwrite(u, lkk + lk + lq, t)
  OBVIOUS
<1>7. /\ r \in Seq(Octets) /\ Len(r) = z /\ Holds(r, lkk + lk + lq, t)
      /\ \A p \in Nat, s \in Seq(Octets) :
           Holds(u, p, s) /\ (p + Len(s) <= lkk + lk + lq \/ lkk + lk + lq + lt <= p)
             => Holds(r, p, s)
  <2>1. lkk + lk + lq + Len(t) <= Len(u) /\ lkk + lk + lq \in Nat
    BY <1>1, <1>5
  <2>2. u \in Seq(Octets)
    BY <1>5
  <2> QED BY <1>1, <1>5, <1>6, <2>1, <2>2, HoldsOverwrite
<1>8. Holds(r, 0, kk)
  <2>1. 0 + Len(kk) <= lkk + lk /\ 0 + Len(kk) <= lkk + lk + lq
    BY <1>1
  <2>2. Holds(u, 0, kk)
    BY <1>3, <1>5, <2>1
  <2> QED BY <1>7, <2>1, <2>2
<1>9. Holds(r, lkk, k)
  <2>1. lkk + Len(k) <= lkk + lk /\ lkk + Len(k) <= lkk + lk + lq /\ lkk <= lkk
    BY <1>1
  <2>2. Holds(m, lkk, k)
    BY <1>1, <1>3, <2>1
  <2>3. Holds(u, lkk, k)
    BY <1>5, <2>1, <2>2
  <2> QED BY <1>7, <2>1, <2>3
<1>10. Holds(r, lkk + lk, q)
  <2>1. lkk + lk + Len(q) <= lkk + lk + lq /\ lkk + lk \in Nat
    BY <1>1
  <2> QED BY <1>5, <1>7, <2>1
<1>11. ASSUME NEW p \in Nat, NEW s \in Seq(Octets), Holds(blank, p, s), lkk + lk + lq + lt <= p
       PROVE  Holds(r, p, s)
  <2>1. lkk <= p /\ lkk + lk + lq <= p
    BY <1>11
  <2>2. Holds(m, p, s)
    BY <1>3, <1>11, <2>1
  <2>3. Holds(u, p, s)
    BY <1>5, <2>1, <2>2
  <2> QED BY <1>7, <1>11, <2>3
<1>12. Heads(r, kk, k, q, t)
  BY <1>1, <1>7, <1>8, <1>9, <1>10 DEF Heads
<1>13. r = Overwrite(Overwrite(Overwrite(blank, 0, kk), Len(kk) + Len(k), q),
                     Len(kk) + Len(k) + Len(q), t)
  BY <1>1, <1>2, <1>4, <1>6, Zenon
<1> QED BY <1>1, <1>7, <1>11, <1>12, <1>13, Zenon

\* What Memtable::Get takes from the record it finds.
Reading(r) ==
  LET k == getVarint32Ptr(r, 0, 5)
      q == getVarint64Ptr(r, k.end + k.value, k.end + k.value + 9)
      v == getVarint32Ptr(r, q.end + 1, q.end + 6)
  IN  IF formatDecodeFixed8(r, q.end) = kTypeDeletion
      THEN [code |-> "kDelete", value |-> <<>>]
      ELSE [code |-> "kOk", value |-> View(r, v.end, v.value)]

\* The row of a key and a value.
Row(k, v) == [key_view |-> k, value_view |-> v, isExist |-> TRUE]

\* A record of this key and value, for a lookup, for Get and for the writer of the file.
ReadsAs(r, k, v) ==
  /\ KeyView(r) = k
  /\ Reading(r) = [code |-> "kOk", value |-> v]
  /\ formatMemTableToSSTableStr(r) = Row(k, v)

\* A string of one byte.
LEMMA OneByte ==
  ASSUME NEW t \in Octets
  PROVE  \E o \in Seq(Octets) : o = <<t>> /\ Len(o) = 1 /\ o[1] = t
<1>1. <<t>> \in Seq(Octets) /\ Len(<<t>>) = 1 /\ <<t>>[1] = t
  OBVIOUS
<1> QED BY <1>1, Zenon

\* A blank of n bytes.
LEMMA Blanks ==
  ASSUME NEW n \in Nat
  PROVE  \E s \in Seq(Octets) : s = Spaces(n) /\ Len(s) = n
BY SpacesType, Zenon

\* The first fields of a record are read as they were written.
LEMMA HeadsRead ==
  ASSUME NEW r, NEW k \in Seq(Octets), Fits32(Len(k)), NEW q, NEW w \in 1..5, VarintBytes(q, w),
         NEW t \in Octets, Heads(r, encodeVarint32(Len(k)), k, q, <<t>>), t # kTypeDeletion
  PROVE  LET e == varintLength[Len(k)] + Len(k) + w
             v == getVarint32Ptr(r, e + 1, e + 6)
         IN  /\ KeyView(r) = k /\ Reading(r) = [code |-> "kOk", value |-> View(r, v.end, v.value)]
             /\ formatMemTableToSSTableStr(r) = Row(k, View(r, v.end, v.value))
<1>1. PICK l \in Nat : l = Len(k)
  OBVIOUS
<1>2. PICK z \in 1..5 : z = varintLength[l]
  BY <1>1, Widths32, SMT
<1>3. PICK kk : kk = encodeVarint32(l)
  OBVIOUS
<1>4. kk \in Seq(Octets) /\ Len(kk) = z
  BY <1>1, <1>2, <1>3, Encode32, SMT DEF VarintBytes
<1>5. q \in Seq(Octets) /\ Len(q) = w
  BY DEF VarintBytes
<1>6. Heads(r, kk, k, q, <<t>>)
  BY <1>1, <1>3, Zenon
<1>7. /\ r \in Seq(Octets) /\ Holds(r, 0, kk) /\ Holds(r, z, k) /\ Holds(r, z + l, q)
      /\ Holds(r, z + l + w, <<t>>)
  BY <1>1, <1>4, <1>5, <1>6, Zenon DEF Heads
<1>8. getVarint32Ptr(r, 0, 5) = [end |-> z, value |-> l]
  <2>1. 0 + 5 <= 5 /\ 0 + z = z
    OBVIOUS
  <2>2. Holds(r, 0, encodeVarint32(l)) /\ Fits32(l) /\ r \in Seq(Octets)
    BY <1>1, <1>3, <1>7, Zenon
  <2>3. getVarint32Ptr(r, 0, 5) = [end |-> 0 + varintLength[l], value |-> l]
    BY <2>1, <2>2, Decode32
  <2> QED BY <1>2, <2>1, <2>3
<1>9. PICK kp : kp = getVarint32Ptr(r, 0, 5) /\ kp.end = z /\ kp.value = l
  BY <1>8
<1>10. getVarint64Ptr(r, z + l, z + l + 9).end = z + l + w
  <2>1. PICK p \in Nat : p = z + l
    OBVIOUS
  <2>2. p + 9 \in Nat /\ p + w <= p + 9 /\ w \in 1..9
    OBVIOUS
  <2>3. getVarint64Ptr(r, p, p + 9).end = p + w
    BY <1>7, <2>1, <2>2, End64
  <2> QED BY <2>1, <2>3
<1>11. At(r, z + l + w) = t
  <2>1. PICK o \in Seq(Octets) : o = <<t>> /\ Len(o) = 1 /\ o[1] = t
    BY OneByte
  <2>2. PICK p \in Nat : p = z + l + w
    OBVIOUS
  <2>3. Holds(r, p, o) /\ 0 < Len(o) /\ o[0 + 1] = t /\ p + 0 = p
    BY <1>7, <2>1, <2>2
  <2>4. At(r, p + 0) = o[0 + 1]
    BY <1>7, <2>2, <2>3, HeldByte
  <2> QED BY <2>2, <2>3, <2>4
<1>12. KeyView(r) = k
  <2>1. View(r, z, Len(k)) = k
    BY <1>7, ViewHolds
  <2> QED BY <1>1, <1>9, <2>1, Zenon DEF KeyView
<1>13. formatDecodeFixed8(r, z + l + w) # kTypeDeletion
  BY <1>11 DEF formatDecodeFixed8
<1>14. Reading(r) = LET v == getVarint32Ptr(r, z + l + w + 1, z + l + w + 6)
                    IN  [code |-> "kOk", value |-> View(r, v.end, v.value)]
  BY <1>9, <1>10, <1>13, Zenon DEF Reading
<1>15. formatMemTableToSSTableStr(r) =
         LET v == getVarint32Ptr(r, z + l + w + 1, z + l + w + 6)
         IN  Row(k, View(r, v.end, v.value))
  <2>1. z + l # Len(r)
    <3>1. PICK o \in Seq(Octets) : o = <<t>> /\ Len(o) = 1 /\ o[1] = t
      BY OneByte
    <3>2. Holds(r, z + l + w, o)
      BY <1>7, <3>1
    <3>3. z + l + w + 1 <= Len(r)
      BY <3>1, <3>2 DEF Holds
    <3> QED BY <1>7, <3>3
  <2>2. PICK exist : exist = (formatDecodeFixed8(r, z + l + w) # 0)
    OBVIOUS
  <2>3. exist = TRUE
    BY <1>13, <2>2, Zenon DEF kTypeDeletion
  <2>4. View(r, kp.end, kp.value) = k
    BY <1>9, <1>12, Zenon DEF KeyView
  <2>5. formatMemTableToSSTableStr(r) = formatMemTableToSSTable(r)
    BY <1>9, <2>1, Zenon DEF formatMemTableToSSTableStr
  <2>6. formatMemTableToSSTable(r) =
          LET v == getVarint32Ptr(r, z + l + w + 1, z + l + w + 6)
          IN  [key_view |-> k, value_view |-> View(r, v.end, v.value), isExist |-> exist]
    BY <1>9, <1>10, <2>2, <2>4, Zenon DEF formatMemTableToSSTable
  <2> QED BY <2>3, <2>5, <2>6, Zenon DEF Row
<1> QED BY <1>1, <1>2, <1>12, <1>14, <1>15, Zenon

\* What Memtable::Set writes, Memtable::Get reads, if number and size have one width.
LEMMA SetReadExact ==
  ASSUME NEW k \in Seq(Octets), Fits32(Len(k)), NEW v \in Seq(Octets), Fits32(Len(v)),
         NEW n \in Nat, Fits32(n), varintLength[n] = varintLength[Len(v)]
  PROVE  LET r == SetRecord(k, v, n) IN r \in Seq(Octets) /\ ReadsAs(r, k, v)
<1>1. PICK lk \in Nat, lv \in Nat : lk = Len(k) /\ lv = Len(v)
  OBVIOUS
<1>2. PICK wk \in 1..5, wv \in 1..5 : wk = varintLength[lk] /\ wv = varintLength[lv]
  BY <1>1, Widths32, SMT
<1>3. PICK kk, q, vv : kk = encodeVarint32(lk) /\ q = encodeVarint64(n) /\ vv = encodeVarint32(lv)
  OBVIOUS
<1>4. VarintBytes(kk, wk) /\ VarintBytes(q, wv) /\ VarintBytes(vv, wv)
  <2>1. Fits32(lk) /\ Fits32(lv) /\ varintLength[n] = wv
    BY <1>1, <1>2
  <2>2. VarintBytes(kk, wk) /\ VarintBytes(vv, wv)
    BY <1>2, <1>3, <2>1, Encode32, Zenon
  <2>3. VarintBytes(q, wv)
    BY <1>3, <2>1, Encode64, Zenon
  <2> QED BY <2>2, <2>3
<1>5. /\ kk \in Seq(Octets) /\ Len(kk) = wk /\ q \in Seq(Octets) /\ Len(q) = wv
      /\ vv \in Seq(Octets) /\ Len(vv) = wv
  BY <1>4 DEF VarintBytes
<1>6. PICK blank : blank = format32_vec(wk) \o k \o Spaces(wv) \o Spaces(1) \o format32_vec(wv) \o v
  OBVIOUS
<1>7. /\ blank \in Seq(Octets) /\ Len(blank) = wk + lk + wv + 1 + wv + lv
      /\ Holds(blank, wk, k) /\ Holds(blank, wk + lk + wv + 1 + wv, v)
  <2>1. format32_vec(wk) = Spaces(wk) /\ format32_vec(wv) = Spaces(wv)
    BY DEF format32_vec
  <2>2. PICK a \in Seq(Octets) : a = Spaces(wk) /\ Len(a) = wk
    BY Blanks
  <2>b. PICK b \in Seq(Octets) : b = Spaces(wv) /\ Len(b) = wv
    BY Blanks
  <2>c. PICK c \in Seq(Octets) : c = Spaces(1) /\ Len(c) = 1
    BY Blanks
  <2>3. PICK s1 \in Seq(Octets) : s1 = a \o k /\ Len(s1) = wk + lk /\ Holds(s1, wk, k)
    <3>1. /\ a \o k \in Seq(Octets) /\ Len(a \o k) = Len(a) + Len(k)
          /\ Holds(a \o k, Len(a), k)
      BY HoldsConcat
    <3> QED BY <1>1, <2>2, <3>1, Zenon
  <2>4. PICK s2 \in Seq(Octets) : s2 = s1 \o b /\ Len(s2) = wk + lk + wv /\ Holds(s2, wk, k)
    <3>1. /\ s1 \o b \in Seq(Octets) /\ Len(s1 \o b) = Len(s1) + Len(b)
          /\ Holds(s1 \o b, Len(s1), b) /\ Holds(s1 \o b, wk, k)
      <4>1. wk \in Nat
        OBVIOUS
      <4> QED BY <2>3, <4>1, HoldsConcat
    <3> QED BY <1>1, <2>3, <2>b, <3>1, Zenon
  <2>5. PICK s3 \in Seq(Octets) : s3 = s2 \o c /\ Len(s3) = wk + lk + wv + 1 /\ Holds(s3, wk, k)
    <3>1. /\ s2 \o c \in Seq(Octets) /\ Len(s2 \o c) = Len(s2) + Len(c)
          /\ Holds(s2 \o c, Len(s2), c) /\ Holds(s2 \o c, wk, k)
      <4>1. wk \in Nat
        OBVIOUS
      <4> QED BY <2>4, <4>1, HoldsConcat
    <3> QED BY <1>1, <2>4, <2>c, <3>1, Zenon
  <2>6. PICK s4 \in Seq(Octets) : /\ s4 = s3 \o b /\ Len(s4) = wk + lk + wv + 1 + wv
                                  /\ Holds(s4, wk, k)
    <3>1. /\ s3 \o b \in Seq(Octets) /\ Len(s3 \o b) = Len(s3) + Len(b)
          /\ Holds(s3 \o b, Len(s3), b) /\ Holds(s3 \o b, wk, k)
      <4>1. wk \in Nat
        OBVIOUS
      <4> QED BY <2>5, <4>1, HoldsConcat
    <3> QED BY <1>1, <2>5, <2>b, <3>1, Zenon
  <2>7. PICK s5 \in Seq(Octets) : /\ s5 = s4 \o v /\ Len(s5) = wk + lk + wv + 1 + wv + lv
                                  /\ Holds(s5, wk, k) /\ Holds(s5, wk + lk + wv + 1 + wv, v)
    <3>1. /\ s4 \o v \in Seq(Octets) /\ Len(s4 \o v) = Len(s4) + Len(v)
          /\ Holds(s4 \o v, Len(s4), v) /\ Holds(s4 \o v, wk, k)
      <4>1. wk \in Nat
        OBVIOUS
      <4> QED BY <2>6, <4>1, HoldsConcat
    <3> QED BY <1>1, <2>6, <3>1, Zenon
  <2>8. blank = s5
    BY <1>6, <2>1, <2>2, <2>b, <2>c, <2>3, <2>4, <2>5, <2>6, <2>7, Zenon
  <2> QED BY <2>7, <2>8
<1>t. PICK t \in Octets : t = kTypeValue
  BY DEF kTypeValue, Octets
<1>o. PICK o \in Seq(Octets) : o = <<t>> /\ Len(o) = 1
  BY OneByte
<1>8. t = kTypeValue /\ o = <<t>> /\ Len(o) = 1
  BY <1>t, <1>o
<1>9. PICK typed : typed = Overwrite(Overwrite(Overwrite(blank, 0, kk), wk + lk, q),
                                     wk + lk + wv, o)
  OBVIOUS
<1>10. /\ Heads(typed, kk, k, q, o) /\ Len(typed) = Len(blank)
       /\ \A p \in Nat, s \in Seq(Octets) :
            Holds(blank, p, s) /\ wk + lk + wv + 1 <= p => Holds(typed, p, s)
  <2>1. /\ Len(kk) + Len(k) + Len(q) + Len(o) <= Len(blank) /\ Holds(blank, Len(kk), k)
        /\ Len(kk) = wk /\ Len(k) = lk /\ Len(q) = wv /\ Len(o) = 1
    BY <1>1, <1>5, <1>7, <1>8
  <2>2. blank \in Seq(Octets) /\ kk \in Seq(Octets) /\ q \in Seq(Octets)
    BY <1>5, <1>7
  <2>3. typed = Overwrite(Overwrite(Overwrite(blank, 0, kk), Len(kk) + Len(k), q),
                          Len(kk) + Len(k) + Len(q), o)
    BY <1>9, <2>1, Zenon
  <2>4. /\ Heads(typed, kk, k, q, o) /\ Len(typed) = Len(blank)
        /\ \A p \in Nat, s \in Seq(Octets) :
             Holds(blank, p, s) /\ Len(kk) + Len(k) + Len(q) + Len(o) <= p => Holds(typed, p, s)
    <3>1. LET numbered == Overwrite(Overwrite(blank, 0, kk), Len(kk) + Len(k), q)
              x == Overwrite(numbered, Len(kk) + Len(k) + Len(q), o)
          IN  /\ Heads(x, kk, k, q, o) /\ Len(x) = Len(blank)
              /\ \A p \in Nat, s \in Seq(Octets) :
                   Holds(blank, p, s) /\ Len(kk) + Len(k) + Len(q) + Len(o) <= p
                     => Holds(x, p, s)
      BY <2>1, <2>2, HeadsWritten
    <3> QED BY <2>3, <3>1, Zenon
  <2> QED BY <2>1, <2>4, Zenon
<1>11. PICK e \in Nat : e = wk + lk + wv
  OBVIOUS
<1>12. PICK r : r = Overwrite(typed, e + 1, vv)
  OBVIOUS
<1>13. /\ r \in Seq(Octets) /\ Holds(r, e + 1, vv)
       /\ \A p \in Nat, s \in Seq(Octets) :
            Holds(typed, p, s) /\ (p + Len(s) <= e + 1 \/ e + 1 + wv <= p) => Holds(r, p, s)
  <2>1. typed \in Seq(Octets) /\ e + 1 \in Nat /\ e + 1 + Len(vv) <= Len(typed) /\ Len(vv) = wv
    BY <1>5, <1>7, <1>10, <1>11 DEF Heads
  <2> QED BY <1>5, <1>12, <2>1, HoldsOverwrite
<1>14. Holds(r, e + 1 + wv, v)
  <2>1. e + 1 + wv \in Nat /\ wk + lk + wv + 1 <= e + 1 + wv
        /\ e + 1 + wv = wk + lk + wv + 1 + wv /\ e + 1 + wv <= e + 1 + wv
    BY <1>11
  <2>2. Holds(typed, e + 1 + wv, v)
    BY <1>7, <1>10, <2>1
  <2> QED BY <1>13, <2>1, <2>2
<1>15. Heads(r, kk, k, q, o)
  <2>1. /\ Holds(typed, 0, kk) /\ Holds(typed, wk, k) /\ Holds(typed, wk + lk, q)
        /\ Holds(typed, wk + lk + wv, o)
    BY <1>1, <1>5, <1>10 DEF Heads
  <2>2. /\ 0 + Len(kk) <= e + 1 /\ wk + Len(k) <= e + 1 /\ wk + lk + Len(q) <= e + 1
        /\ wk + lk + wv + Len(o) <= e + 1 /\ wk + lk \in Nat /\ wk + lk + wv \in Nat
    BY <1>1, <1>5, <1>8, <1>11
  <2>3. \A p \in Nat, s \in Seq(Octets) : Holds(typed, p, s) /\ p + Len(s) <= e + 1 => Holds(r, p, s)
    BY <1>13, Zenon
  <2>4. Holds(r, 0, kk) /\ Holds(r, wk, k)
    <3>1. 0 \in Nat /\ wk \in Nat
      OBVIOUS
    <3> QED BY <1>5, <2>1, <2>2, <2>3, <3>1, Zenon
  <2>5. Holds(r, wk + lk, q) /\ Holds(r, wk + lk + wv, o)
    BY <1>5, <2>1, <2>2, <2>3, Zenon
  <2> QED BY <1>1, <1>5, <1>13, <2>4, <2>5 DEF Heads
<1>16. SetRecord(k, v, n) = r
  <2>1. typed = Overwrite(Overwrite(Overwrite(blank, 0, kk), Len(kk) + Len(k), q),
                          Len(kk) + Len(k) + Len(q), formatEncodeFixed8(kTypeValue))
    BY <1>1, <1>5, <1>8, <1>9, Zenon DEF formatEncodeFixed8
  <2>2. e = Len(kk) + Len(k) + Len(q)
    BY <1>1, <1>5, <1>11, Zenon
  <2>3. blank = format32_vec(varintLength[Len(k)]) \o k \o Spaces(varintLength[Len(v)])
                \o Spaces(1) \o format32_vec(varintLength[Len(v)]) \o v
    BY <1>1, <1>2, <1>6, Zenon
  <2>4. kk = encodeVarint32(Len(k)) /\ q = encodeVarint64(n) /\ vv = encodeVarint32(Len(v))
    BY <1>1, <1>3, Zenon
  <2> QED BY <1>12, <2>1, <2>2, <2>3, <2>4, Zenon DEF SetRecord
<1>17. ReadsAs(r, k, v)
  <2>1. t # kTypeDeletion
    BY <1>8 DEF kTypeValue, kTypeDeletion
  <2>2. Heads(r, encodeVarint32(Len(k)), k, q, <<t>>)
    BY <1>1, <1>3, <1>8, <1>15, Zenon
  <2>3. PICK vp : vp = getVarint32Ptr(r, e + 1, e + 6)
    OBVIOUS
  <2>4. varintLength[Len(k)] + Len(k) + wv = e
    BY <1>1, <1>2, <1>11
  <2>5. LET x == varintLength[Len(k)] + Len(k) + wv
             y == getVarint32Ptr(r, x + 1, x + 6)
        IN  ReadsAs(r, k, View(r, y.end, y.value))
    BY <1>4, <2>1, <2>2, HeadsRead, Zenon DEF ReadsAs
  <2>6. ReadsAs(r, k, View(r, vp.end, vp.value))
    BY <2>3, <2>4, <2>5, Zenon
  <2>7. vp = [end |-> e + 1 + wv, value |-> lv]
    <3>1. /\ Fits32(lv) /\ r \in Seq(Octets) /\ Holds(r, e + 1, encodeVarint32(lv))
          /\ e + 1 \in Nat /\ e + 6 \in Nat /\ e + 1 + 5 <= e + 6
      BY <1>1, <1>3, <1>13
    <3>2. getVarint32Ptr(r, e + 1, e + 6) = [end |-> e + 1 + varintLength[lv], value |-> lv]
      BY <3>1, Decode32
    <3> QED BY <1>2, <2>3, <3>2, Zenon
  <2>8. View(r, e + 1 + wv, Len(v)) = v
    BY <1>13, <1>14, ViewHolds
  <2>9. vp.end = e + 1 + wv /\ vp.value = Len(v)
    BY <1>1, <2>7
  <2> QED BY <2>6, <2>8, <2>9, Zenon
<1> QED BY <1>13, <1>16, <1>17, Zenon

\* A view of n bytes is n bytes, past the end too.
LEMMA ViewType ==
  ASSUME NEW m \in Seq(Octets), NEW p \in Nat, NEW n \in Nat
  PROVE  View(m, p, n) \in Seq(Octets) /\ Len(View(m, p, n)) = n
<1>1. PICK l \in Nat : l = Len(m)
  OBVIOUS
<1>2. CASE p + n <= l
  <2>1. View(m, p, n) = SubSeq(m, p + 1, p + n)
    BY <1>1, <1>2 DEF View
  <2>2. PICK t : t = SubSeq(m, p + 1, p + n)
    OBVIOUS
  <2>3. t \in Seq(Octets)
    BY <1>1, <1>2, <2>2, SubSeqProperties
  <2>4. Len(t) = n
    BY <1>1, <1>2, <2>2
  <2> QED BY <2>1, <2>2, <2>3, <2>4, Zenon
<1>3. CASE ~ (p + n <= l)
  <2>1. View(m, p, n) = [i \in 1..n |-> At(m, p + i - 1)]
    BY <1>1, <1>3, Zenon DEF View
  <2>2. \A i \in 1..n : At(m, p + i - 1) \in Octets
    <3>1. ASSUME NEW i \in 1..n PROVE At(m, p + i - 1) \in Octets
      <4>1. PICK q \in Nat : q = p + i - 1
        <5>1. p + i - 1 \in Nat
          OBVIOUS
        <5> QED BY <5>1
      <4>2. CASE q < l
        <5>1. q + 1 \in 1..Len(m)
          BY <1>1, <4>2
        <5>2. m[q + 1] \in Octets
          BY <5>1, ElementOfSeq
        <5> QED BY <1>1, <4>1, <4>2, <5>2, Zenon DEF At
      <4>3. CASE ~ (q < l)
        <5>1. 0 \in Octets
          BY DEF Octets
        <5> QED BY <1>1, <4>1, <4>3, <5>1, Zenon DEF At
      <4> QED BY <4>2, <4>3
    <3> QED BY <3>1
  <2>3. [i \in 1..n |-> At(m, p + i - 1)] \in [1..n -> Octets]
    BY <2>2, Zenon
  <2> QED BY <2>1, <2>3, FunctionIsSeq
<1> QED BY <1>2, <1>3

\* Bytes written over m, and perhaps past its end: they stand there, and so does what was
\* in front of them.
LEMMA HoldsOver ==
  ASSUME NEW m \in Seq(Octets), NEW bytes \in Seq(Octets), NEW p \in Nat, p <= Len(m)
  PROVE  LET r == Overwrite(m, p, bytes) IN
         /\ r \in Seq(Octets) /\ p + Len(bytes) <= Len(r) /\ Holds(r, p, bytes)
         /\ \A q \in Nat, s \in Seq(Octets) : Holds(m, q, s) /\ q + Len(s) <= p => Holds(r, q, s)
<1>1. PICK l \in Nat, k \in Nat : l = Len(m) /\ k = Len(bytes) /\ p <= l
  OBVIOUS
<1>2. PICK a \in Seq(Octets) : a = SubSeq(m, 1, p) /\ Len(a) = p /\ \A i \in 1..p : a[i] = m[i]
  <2>1. SubSeq(m, 1, p) \in Seq(Octets) /\ Len(SubSeq(m, 1, p)) = p
    BY <1>1
  <2>2. \A i \in 1..p : SubSeq(m, 1, p)[i] = m[i]
    BY <1>1
  <2> QED BY <2>1, <2>2
<1>3. PICK c \in Seq(Octets) : c = SubSeq(m, p + Len(bytes) + 1, Len(m))
  <2>1. SubSeq(m, p + k + 1, l) \in Seq(Octets)
    BY <1>1, SubSeqProperties
  <2> QED BY <1>1, <2>1, Zenon
<1>4. PICK ab \in Seq(Octets) :
        /\ ab = a \o bytes /\ Len(ab) = p + k /\ Holds(ab, p, bytes)
        /\ \A q \in Nat, x \in Seq(Octets) : Holds(a, q, x) => Holds(ab, q, x)
  <2>1. /\ a \o bytes \in Seq(Octets) /\ Len(a \o bytes) = Len(a) + Len(bytes)
        /\ Holds(a \o bytes, Len(a), bytes)
        /\ \A q \in Nat, x \in Seq(Octets) : Holds(a, q, x) => Holds(a \o bytes, q, x)
    BY HoldsConcat, Zenon
  <2> QED BY <1>1, <1>2, <2>1, Zenon
<1>5. PICK r \in Seq(Octets) :
        /\ r = ab \o c /\ Len(r) = (p + k) + Len(c)
        /\ \A q \in Nat, x \in Seq(Octets) : Holds(ab, q, x) => Holds(r, q, x)
  <2>1. /\ ab \o c \in Seq(Octets) /\ Len(ab \o c) = Len(ab) + Len(c)
        /\ \A q \in Nat, x \in Seq(Octets) : Holds(ab, q, x) => Holds(ab \o c, q, x)
    BY HoldsConcat, Zenon
  <2> QED BY <1>4, <2>1, Zenon
<1>6. Overwrite(m, p, bytes) = r
  BY <1>2, <1>3, <1>4, <1>5, Zenon DEF Overwrite
<1>7. p + k <= Len(r)
  <2>1. Len(c) \in Nat
    OBVIOUS
  <2> QED BY <1>5, <2>1
<1>8. Holds(r, p, bytes)
  BY <1>4, <1>5
<1>9. ASSUME NEW q \in Nat, NEW s \in Seq(Octets), Holds(m, q, s), q + Len(s) <= p
      PROVE  Holds(r, q, s)
  <2>1. PICK z \in Nat : z = Len(s) /\ q + z <= p /\ \A i \in 1..z : m[q + i] = s[i]
    BY <1>9 DEF Holds
  <2>2. \A i \in 1..z : a[q + i] = s[i]
    BY <1>2, <2>1
  <2>3. Holds(a, q, s)
    BY <1>2, <2>1, <2>2 DEF Holds
  <2> QED BY <1>4, <1>5, <2>3
<1> QED BY <1>1, <1>5, <1>6, <1>7, <1>8, <1>9, Zenon

\* What Memtable::Set writes over its blank, in whatever width.
LEMMA HeadsOver ==
  ASSUME NEW blank \in Seq(Octets), NEW k \in Seq(Octets), NEW kk \in Seq(Octets),
         NEW q \in Seq(Octets), NEW t \in Seq(Octets), NEW vv \in Seq(Octets),
         Len(kk) + Len(k) <= Len(blank), Holds(blank, Len(kk), k)
  PROVE  LET e == Len(kk) + Len(k) + Len(q)
             numbered == Overwrite(Overwrite(blank, 0, kk), Len(kk) + Len(k), q)
             r == Overwrite(Overwrite(numbered, e, t), e + Len(t), vv)
         IN  Heads(r, kk, k, q, t) /\ Holds(r, e + Len(t), vv)
<1>1. PICK z \in Nat, lk \in Nat, lkk \in Nat, lq \in Nat, lt \in Nat :
        /\ z = Len(blank) /\ lk = Len(k) /\ lkk = Len(kk) /\ lq = Len(q) /\ lt = Len(t)
        /\ lkk + lk <= z
  OBVIOUS
<1>2. PICK m : m = Overwrite(blank, 0, kk)
  OBVIOUS
<1>3. /\ m \in Seq(Octets) /\ Len(m) = z /\ Holds(m, 0, kk) /\ Holds(m, lkk, k)
  <2>1. 0 + Len(kk) <= Len(blank) /\ 0 + Len(kk) = lkk /\ 0 + Len(kk) <= lkk
    BY <1>1
  <2>2. /\ m \in Seq(Octets) /\ Len(m) = Len(blank) /\ Holds(m, 0, kk)
        /\ \A p \in Nat, s \in Seq(Octets) :
             Holds(blank, p, s) /\ (p + Len(s) <= 0 \/ 0 + Len(kk) <= p) => Holds(m, p, s)
    BY <1>2, <2>1, HoldsOverwrite
  <2> QED BY <1>1, <2>1, <2>2
<1>4. PICK a \in Nat, b \in Nat, e \in Nat, g \in Nat :
        a = lkk /\ b = lkk + lk /\ e = lkk + lk + lq /\ g = e + lt
  OBVIOUS
<1>l. /\ 0 + Len(kk) = a /\ a + Len(k) = b /\ b + Len(q) = e /\ e + Len(t) = g
      /\ a <= b /\ b <= e /\ e <= g /\ b <= Len(m)
  BY <1>1, <1>3, <1>4
<1>5. PICK u : u = Overwrite(m, b, q)
  OBVIOUS
<1>6. /\ u \in Seq(Octets) /\ e <= Len(u) /\ Holds(u, b, q)
      /\ \A p \in Nat, s \in Seq(Octets) : Holds(m, p, s) /\ p + Len(s) <= b => Holds(u, p, s)
  BY <1>3, <1>5, <1>l, HoldsOver
<1>7. PICK w : w = Overwrite(u, e, t)
  OBVIOUS
<1>8. /\ w \in Seq(Octets) /\ g <= Len(w) /\ Holds(w, e, t)
      /\ \A p \in Nat, s \in Seq(Octets) : Holds(u, p, s) /\ p + Len(s) <= e => Holds(w, p, s)
  BY <1>6, <1>7, <1>l, HoldsOver
<1>9. PICK r : r = Overwrite(w, g, vv)
  OBVIOUS
<1>10. /\ r \in Seq(Octets) /\ Holds(r, g, vv)
       /\ \A p \in Nat, s \in Seq(Octets) : Holds(w, p, s) /\ p + Len(s) <= g => Holds(r, p, s)
  BY <1>8, <1>9, <1>l, HoldsOver
<1>11. \A p \in Nat, s \in Seq(Octets) : Holds(m, p, s) /\ p + Len(s) <= b => Holds(r, p, s)
  <2>1. ASSUME NEW p \in Nat, NEW s \in Seq(Octets), Holds(m, p, s), p + Len(s) <= b
        PROVE  Holds(r, p, s)
    <3>1. p + Len(s) <= e /\ p + Len(s) <= g
      BY <1>l, <2>1
    <3> QED BY <1>6, <1>8, <1>10, <2>1, <3>1
  <2> QED BY <2>1
<1>12. Holds(r, 0, kk) /\ Holds(r, a, k)
  <2>1. 0 + Len(kk) <= b /\ a + Len(k) <= b /\ 0 \in Nat
    BY <1>l
  <2> QED BY <1>3, <1>4, <1>11, <2>1
<1>13. Holds(r, b, q)
  <2>1. b + Len(q) <= e /\ b + Len(q) <= g
    BY <1>l
  <2> QED BY <1>6, <1>8, <1>10, <2>1
<1>14. Holds(r, e, t)
  <2>1. e + Len(t) <= g
    BY <1>l
  <2> QED BY <1>8, <1>10, <2>1
<1>15. Heads(r, kk, k, q, t) /\ Holds(r, e + Len(t), vv)
  BY <1>1, <1>4, <1>l, <1>10, <1>12, <1>13, <1>14 DEF Heads
<1>16. /\ b = Len(kk) + Len(k) /\ e = Len(kk) + Len(k) + Len(q) /\ g = e + Len(t)
  BY <1>1, <1>4
<1> QED BY <1>2, <1>5, <1>7, <1>9, <1>15, <1>16, Zenon

\* What Memtable::Set writes reads as the key and a value of the right length, whatever the
\* width of the number.
LEMMA SetReadSome ==
  ASSUME NEW k \in Seq(Octets), Fits32(Len(k)), NEW v \in Seq(Octets), Fits32(Len(v)),
         NEW n \in Nat, Fits32(n)
  PROVE  \E x \in Seq(Octets) : Len(x) = Len(v) /\ ReadsAs(SetRecord(k, v, n), k, x)
<1>1. PICK lk \in Nat, lv \in Nat : lk = Len(k) /\ lv = Len(v)
  OBVIOUS
<1>2. PICK wk \in 1..5, wv \in 1..5, wn \in 1..5 :
        wk = varintLength[lk] /\ wv = varintLength[lv] /\ wn = varintLength[n]
  BY <1>1, Widths32, SMT
<1>3. PICK kk, q, vv : kk = encodeVarint32(lk) /\ q = encodeVarint64(n) /\ vv = encodeVarint32(lv)
  OBVIOUS
<1>4. VarintBytes(kk, wk) /\ VarintBytes(q, wn) /\ VarintBytes(vv, wv)
  <2>1. Fits32(lk) /\ Fits32(lv)
    BY <1>1
  <2>2. VarintBytes(kk, wk) /\ VarintBytes(vv, wv)
    BY <1>2, <1>3, <2>1, Encode32, Zenon
  <2>3. VarintBytes(q, wn)
    BY <1>2, <1>3, Encode64, Zenon
  <2> QED BY <2>2, <2>3
<1>5. /\ kk \in Seq(Octets) /\ Len(kk) = wk /\ q \in Seq(Octets) /\ Len(q) = wn
      /\ vv \in Seq(Octets) /\ Len(vv) = wv
  BY <1>4 DEF VarintBytes
<1>6. PICK blank : blank = format32_vec(wk) \o k \o Spaces(wv) \o Spaces(1) \o format32_vec(wv) \o v
  OBVIOUS
<1>7. blank \in Seq(Octets) /\ wk + lk <= Len(blank) /\ Holds(blank, wk, k)
  <2>1. format32_vec(wk) = Spaces(wk) /\ format32_vec(wv) = Spaces(wv)
    BY DEF format32_vec
  <2>2. PICK a \in Seq(Octets) : a = Spaces(wk) /\ Len(a) = wk
    BY Blanks
  <2>b. PICK b \in Seq(Octets) : b = Spaces(wv) /\ Len(b) = wv
    BY Blanks
  <2>c. PICK c \in Seq(Octets) : c = Spaces(1) /\ Len(c) = 1
    BY Blanks
  <2>w. wk \in Nat
    OBVIOUS
  <2>3. PICK s1 \in Seq(Octets) : s1 = a \o k /\ Holds(s1, wk, k)
    <3>1. a \o k \in Seq(Octets) /\ Holds(a \o k, Len(a), k)
      BY HoldsConcat
    <3> QED BY <2>2, <3>1, Zenon
  <2>4. PICK s2 \in Seq(Octets) : s2 = s1 \o b /\ Holds(s2, wk, k)
    BY <2>3, <2>b, <2>w, HoldsConcat
  <2>5. PICK s3 \in Seq(Octets) : s3 = s2 \o c /\ Holds(s3, wk, k)
    BY <2>4, <2>c, <2>w, HoldsConcat
  <2>6. PICK s4 \in Seq(Octets) : s4 = s3 \o b /\ Holds(s4, wk, k)
    BY <2>5, <2>b, <2>w, HoldsConcat
  <2>7. PICK s5 \in Seq(Octets) : s5 = s4 \o v /\ Holds(s5, wk, k)
    BY <2>6, <2>w, HoldsConcat
  <2>8. blank = s5
    BY <1>6, <2>1, <2>2, <2>b, <2>c, <2>3, <2>4, <2>5, <2>6, <2>7, Zenon
  <2>9. wk + lk <= Len(s5)
    BY <1>1, <2>7 DEF Holds
  <2> QED BY <2>7, <2>8, <2>9
<1>t. PICK t \in Octets : t = kTypeValue
  BY DEF kTypeValue, Octets
<1>o. PICK o \in Seq(Octets) : o = <<t>> /\ Len(o) = 1
  BY OneByte
<1>8. PICK e \in Nat : e = wk + lk + wn
  OBVIOUS
<1>9. PICK r : r = Overwrite(Overwrite(Overwrite(Overwrite(blank, 0, kk), wk + lk, q), e, o),
                             e + 1, vv)
  OBVIOUS
<1>10. Heads(r, kk, k, q, o) /\ Holds(r, e + 1, vv)
  <2>1. /\ Len(kk) = wk /\ Len(k) = lk /\ Len(q) = wn /\ Len(o) = 1
        /\ Len(kk) + Len(k) <= Len(blank) /\ Holds(blank, Len(kk), k)
    BY <1>1, <1>5, <1>7, <1>o
  <2>2. /\ blank \in Seq(Octets) /\ kk \in Seq(Octets) /\ q \in Seq(Octets) /\ vv \in Seq(Octets)
    BY <1>5, <1>7
  <2>3. LET f == Len(kk) + Len(k) + Len(q)
            numbered == Overwrite(Overwrite(blank, 0, kk), Len(kk) + Len(k), q)
            y == Overwrite(Overwrite(numbered, f, o), f + Len(o), vv)
        IN  Heads(y, kk, k, q, o) /\ Holds(y, f + Len(o), vv)
    BY <2>1, <2>2, HeadsOver
  <2>4. e = Len(kk) + Len(k) + Len(q)
    BY <1>8, <2>1, Zenon
  <2>5. r = Overwrite(Overwrite(Overwrite(Overwrite(blank, 0, kk), Len(kk) + Len(k), q),
                      Len(kk) + Len(k) + Len(q), o), Len(kk) + Len(k) + Len(q) + Len(o), vv)
    BY <1>9, <2>1, <2>4, Zenon
  <2> QED BY <2>1, <2>3, <2>4, <2>5, Zenon
<1>11. SetRecord(k, v, n) = r
  <2>1. /\ wk = Len(kk) /\ lk = Len(k) /\ e = Len(kk) + Len(k) + Len(q)
    BY <1>1, <1>5, <1>8, Zenon
  <2>2. r = Overwrite(Overwrite(Overwrite(Overwrite(blank, 0, kk), Len(kk) + Len(k), q),
                      Len(kk) + Len(k) + Len(q), formatEncodeFixed8(kTypeValue)),
                      Len(kk) + Len(k) + Len(q) + 1, vv)
    BY <1>t, <1>o, <1>9, <2>1, Zenon DEF formatEncodeFixed8
  <2>3. blank = format32_vec(varintLength[Len(k)]) \o k \o Spaces(varintLength[Len(v)])
                \o Spaces(1) \o format32_vec(varintLength[Len(v)]) \o v
    BY <1>1, <1>2, <1>6, Zenon
  <2>4. kk = encodeVarint32(Len(k)) /\ q = encodeVarint64(n) /\ vv = encodeVarint32(Len(v))
    BY <1>1, <1>3, Zenon
  <2> QED BY <2>2, <2>3, <2>4, Zenon DEF SetRecord
<1>12. r \in Seq(Octets)
  BY <1>10 DEF Heads
<1>13. PICK vp : vp = getVarint32Ptr(r, e + 1, e + 6)
  OBVIOUS
<1>14. ReadsAs(r, k, View(r, vp.end, vp.value))
  <2>1. t # kTypeDeletion
    BY <1>t DEF kTypeValue, kTypeDeletion
  <2>2. Heads(r, encodeVarint32(Len(k)), k, q, <<t>>)
    BY <1>1, <1>3, <1>o, <1>10, Zenon
  <2>4. varintLength[Len(k)] + Len(k) + wn = e
    BY <1>1, <1>2, <1>8
  <2>5. LET x == varintLength[Len(k)] + Len(k) + wn
             y == getVarint32Ptr(r, x + 1, x + 6)
        IN  ReadsAs(r, k, View(r, y.end, y.value))
    BY <1>4, <2>1, <2>2, HeadsRead, Zenon DEF ReadsAs
  <2> QED BY <1>13, <2>4, <2>5, Zenon
<1>15. vp = [end |-> e + 1 + wv, value |-> lv]
  <2>1. /\ Fits32(lv) /\ Holds(r, e + 1, encodeVarint32(lv))
        /\ e + 1 \in Nat /\ e + 6 \in Nat /\ e + 1 + 5 <= e + 6
    BY <1>1, <1>3, <1>10
  <2>2. getVarint32Ptr(r, e + 1, e + 6) = [end |-> e + 1 + varintLength[lv], value |-> lv]
    BY <1>12, <2>1, Decode32
  <2> QED BY <1>2, <1>13, <2>2, Zenon
<1>16. vp.end \in Nat /\ vp.value \in Nat /\ vp.value = lv
  BY <1>15
<1>17. View(r, vp.end, vp.value) \in Seq(Octets) /\ Len(View(r, vp.end, vp.value)) = lv
  BY <1>12, <1>16, ViewType
<1> QED BY <1>1, <1>11, <1>14, <1>17, Zenon

\* And as the value itself, if the number has room.
LEMMA SetRead ==
  ASSUME NEW k \in Seq(Octets), Fits32(Len(k)), NEW v \in Seq(Octets), Fits32(Len(v)),
         NEW n \in Nat, Fits32(n)
  PROVE  \E x \in Seq(Octets) :
           /\ Len(x) = Len(v) /\ ReadsAs(SetRecord(k, v, n), k, x)
           /\ varintLength[n] = varintLength[Len(v)] => x = v
<1>1. CASE varintLength[n] = varintLength[Len(v)]
  BY <1>1, SetReadExact, Zenon
<1>2. CASE varintLength[n] # varintLength[Len(v)]
  BY <1>2, SetReadSome, Zenon
<1> QED BY <1>1, <1>2

\* Past the end of a record Get reads the size 0, and the value is empty.
LEMMA NoValue ==
  ASSUME NEW r \in Seq(Octets), NEW e \in Nat, Len(r) = e + 1
  PROVE  LET v == getVarint32Ptr(r, e + 1, e + 6) IN View(r, v.end, v.value) = <<>>
<1>1. \A i \in Nat : At(r, e + 1 + i) = 0
  BY DEF At
<1>2. EndsAt(r, e + 1, e + 6, 0)
  <2>1. e + 1 + 0 < e + 6 /\ \A i \in 0..4 : ~ (i < 0)
    OBVIOUS
  <2>2. At(r, e + 1 + 0) < 128
    BY <1>1
  <2> QED BY <2>1, <2>2 DEF EndsAt
<1>3. ASSUME NEW k \in 0..4, EndsAt(r, e + 1, e + 6, k) PROVE k = 0
  <2>1. \A i \in 0..4 : i < k => At(r, e + 1 + i) >= 128
    BY <1>3 DEF EndsAt
  <2>2. At(r, e + 1 + 0) = 0
    BY <1>1
  <2>3. 0 < k => At(r, e + 1 + 0) >= 128
    BY <2>1
  <2> QED BY <2>2, <2>3
<1>4. 0 \in 0..4
  OBVIOUS
<1>5. (CHOOSE k \in 0..4 : EndsAt(r, e + 1, e + 6, k)) = 0
  BY <1>2, <1>3, <1>4, Zenon
<1>6. Decoded32(r, e + 1, 0) = 0
  <2>1. At(r, e + 1 + 0) = 0
    BY <1>1
  <2> QED BY <2>1, SMT DEF Decoded32
<1>7. PICK v : v = getVarint32Ptr(r, e + 1, e + 6)
  OBVIOUS
<1>8. v = [end |-> e + 1 + 0 + 1, value |-> Decoded32(r, e + 1, 0)]
  BY <1>2, <1>4, <1>5, <1>7, Zenon DEF getVarint32Ptr
<1>9. v.end = e + 2 /\ v.value = 0
  BY <1>6, <1>8
<1>10. View(r, e + 2, 0) = <<>>
  <2>1. ~ (e + 2 + 0 <= Len(r))
    OBVIOUS
  <2>2. View(r, e + 2, 0) = [i \in 1..0 |-> At(r, e + 2 + i - 1)]
    BY <2>1, Zenon DEF View
  <2> DEFINE f == [i \in 1..0 |-> At(r, e + 2 + i - 1)]
  <2>3. f = <<>>
    BY SMT
  <2> QED BY <2>2, <2>3
<1> QED BY <1>7, <1>9, <1>10, Zenon

\* A deletion's record reads as an empty value.
LEMMA DeleteRead ==
  ASSUME NEW k \in Seq(Octets), Fits32(Len(k)), NEW n \in Nat, Fits32(n)
  PROVE  LET r == DeleteRecord(k, n) IN r \in Seq(Octets) /\ ReadsAs(r, k, <<>>)
<1>1. PICK lk \in Nat : lk = Len(k)
  OBVIOUS
<1>2. PICK wk \in 1..5, wn \in 1..5 : wk = varintLength[lk] /\ wn = varintLength[n]
  BY <1>1, Widths32, SMT
<1>3. PICK kk, q : kk = encodeVarint32(lk) /\ q = encodeVarint32(n)
  OBVIOUS
<1>4. VarintBytes(kk, wk) /\ VarintBytes(q, wn)
  <2>1. Fits32(lk)
    BY <1>1
  <2> QED BY <1>2, <1>3, <2>1, Encode32, Zenon
<1>5. kk \in Seq(Octets) /\ Len(kk) = wk /\ q \in Seq(Octets) /\ Len(q) = wn
  BY <1>4 DEF VarintBytes
<1>6. PICK blank : blank = format32_vec(wk) \o k \o Spaces(wn) \o Spaces(1)
  OBVIOUS
<1>7. blank \in Seq(Octets) /\ Len(blank) = wk + lk + wn + 1 /\ Holds(blank, wk, k)
  <2>1. format32_vec(wk) = Spaces(wk)
    BY DEF format32_vec
  <2>2. PICK a \in Seq(Octets) : a = Spaces(wk) /\ Len(a) = wk
    BY Blanks
  <2>b. PICK b \in Seq(Octets) : b = Spaces(wn) /\ Len(b) = wn
    BY Blanks
  <2>c. PICK c \in Seq(Octets) : c = Spaces(1) /\ Len(c) = 1
    BY Blanks
  <2>3. PICK s1 \in Seq(Octets) : s1 = a \o k /\ Len(s1) = wk + lk /\ Holds(s1, wk, k)
    <3>1. /\ a \o k \in Seq(Octets) /\ Len(a \o k) = Len(a) + Len(k)
          /\ Holds(a \o k, Len(a), k)
      BY HoldsConcat
    <3> QED BY <1>1, <2>2, <3>1, Zenon
  <2>4. PICK s2 \in Seq(Octets) : s2 = s1 \o b /\ Len(s2) = wk + lk + wn /\ Holds(s2, wk, k)
    <3>1. /\ s1 \o b \in Seq(Octets) /\ Len(s1 \o b) = Len(s1) + Len(b)
          /\ Holds(s1 \o b, wk, k)
      <4>1. wk \in Nat
        OBVIOUS
      <4> QED BY <2>3, <4>1, HoldsConcat
    <3> QED BY <2>b, <2>3, <3>1, Zenon
  <2>5. PICK s3 \in Seq(Octets) : s3 = s2 \o c /\ Len(s3) = wk + lk + wn + 1 /\ Holds(s3, wk, k)
    <3>1. /\ s2 \o c \in Seq(Octets) /\ Len(s2 \o c) = Len(s2) + Len(c)
          /\ Holds(s2 \o c, wk, k)
      <4>1. wk \in Nat
        OBVIOUS
      <4> QED BY <2>4, <4>1, HoldsConcat
    <3> QED BY <2>c, <2>4, <3>1, Zenon
  <2>6. blank = s3
    BY <1>6, <2>1, <2>2, <2>b, <2>c, <2>3, <2>4, <2>5, Zenon
  <2> QED BY <2>5, <2>6
<1>t. PICK t \in Octets : t = kDeleteCode
  BY DEF kDeleteCode, Octets
<1>o. PICK o \in Seq(Octets) : o = <<t>> /\ Len(o) = 1
  BY OneByte
<1>8. PICK r : r = Overwrite(Overwrite(Overwrite(blank, 0, kk), wk + lk, q), wk + lk + wn, o)
  OBVIOUS
<1>9. Heads(r, kk, k, q, o) /\ Len(r) = wk + lk + wn + 1
  <2>1. /\ Len(kk) + Len(k) + Len(q) + Len(o) <= Len(blank) /\ Holds(blank, Len(kk), k)
        /\ Len(kk) = wk /\ Len(k) = lk /\ Len(q) = wn /\ Len(o) = 1
    BY <1>1, <1>5, <1>7, <1>o
  <2>2. blank \in Seq(Octets) /\ kk \in Seq(Octets) /\ q \in Seq(Octets)
    BY <1>5, <1>7
  <2>3. r = Overwrite(Overwrite(Overwrite(blank, 0, kk), Len(kk) + Len(k), q),
                      Len(kk) + Len(k) + Len(q), o)
    BY <1>8, <2>1, Zenon
  <2>4. LET numbered == Overwrite(Overwrite(blank, 0, kk), Len(kk) + Len(k), q)
            x == Overwrite(numbered, Len(kk) + Len(k) + Len(q), o)
        IN  /\ Heads(x, kk, k, q, o) /\ Len(x) = Len(blank)
            /\ \A p \in Nat, s \in Seq(Octets) :
                 Holds(blank, p, s) /\ Len(kk) + Len(k) + Len(q) + Len(o) <= p
                   => Holds(x, p, s)
    BY <2>1, <2>2, HeadsWritten
  <2> QED BY <1>7, <2>3, <2>4, Zenon
<1>10. DeleteRecord(k, n) = r
  <2>1. r = Overwrite(Overwrite(Overwrite(blank, 0, kk), Len(kk) + Len(k), q),
                      Len(kk) + Len(k) + Len(q), formatEncodeFixed8(kDeleteCode))
    BY <1>1, <1>5, <1>t, <1>o, <1>8, Zenon DEF formatEncodeFixed8
  <2>2. blank = format32_vec(varintLength[Len(k)]) \o k \o Spaces(varintLength[n]) \o Spaces(1)
    BY <1>1, <1>2, <1>6, Zenon
  <2>3. kk = encodeVarint32(Len(k)) /\ q = encodeVarint32(n)
    BY <1>1, <1>3, Zenon
  <2> QED BY <2>1, <2>2, <2>3, Zenon DEF DeleteRecord
<1>11. PICK e \in Nat : e = wk + lk + wn
  OBVIOUS
<1>12. ReadsAs(r, k, <<>>)
  <2>1. t # kTypeDeletion
    BY <1>t DEF kDeleteCode, kTypeDeletion
  <2>2. Heads(r, encodeVarint32(Len(k)), k, q, <<t>>)
    BY <1>1, <1>3, <1>o, <1>9, Zenon
  <2>3. varintLength[Len(k)] + Len(k) + wn = e
    BY <1>1, <1>2, <1>11
  <2>4. LET x == varintLength[Len(k)] + Len(k) + wn
             y == getVarint32Ptr(r, x + 1, x + 6)
        IN  ReadsAs(r, k, View(r, y.end, y.value))
    BY <1>4, <2>1, <2>2, HeadsRead, Zenon DEF ReadsAs
  <2>5. LET y == getVarint32Ptr(r, e + 1, e + 6)
        IN  ReadsAs(r, k, View(r, y.end, y.value))
    BY <2>3, <2>4, Zenon
  <2>6. r \in Seq(Octets) /\ Len(r) = e + 1
    BY <1>9, <1>11 DEF Heads
  <2>7. LET y == getVarint32Ptr(r, e + 1, e + 6) IN View(r, y.end, y.value) = <<>>
    BY <2>6, NoValue, Zenon
  <2> QED BY <2>5, <2>7, Zenon
<1>13. r \in Seq(Octets)
  BY <1>9 DEF Heads
<1> QED BY <1>10, <1>12, <1>13, Zenon

\* A lookup compares with the key.
LEMMA ProbeRead ==
  ASSUME NEW k \in Seq(Octets), Fits32(Len(k))
  PROVE  KeyView(Probe(k)) = k /\ Len(Probe(k)) = varintLength[Len(k)] + Len(k)
<1>1. PICK lk \in Nat : lk = Len(k)
  OBVIOUS
<1>2. PICK wk \in 1..5 : wk = varintLength[lk]
  BY <1>1, Widths32, SMT
<1>3. PICK kk : kk = encodeVarint32(lk)
  OBVIOUS
<1>4. Fits32(lk) /\ VarintBytes(kk, wk)
  <2>1. Fits32(lk)
    BY <1>1
  <2> QED BY <1>2, <1>3, <2>1, Encode32, Zenon
<1>5. kk \in Seq(Octets) /\ Len(kk) = wk
  BY <1>4 DEF VarintBytes
<1>6. PICK a \in Seq(Octets) : a = format32_vec(wk) /\ Len(a) = wk
  <2>1. format32_vec(wk) = Spaces(wk)
    BY DEF format32_vec
  <2> QED BY <2>1, Blanks
<1>7. PICK m \in Seq(Octets) : m = a \o k /\ Len(m) = wk + lk /\ Holds(m, wk, k)
  <2>1. a \o k \in Seq(Octets) /\ Len(a \o k) = Len(a) + Len(k) /\ Holds(a \o k, Len(a), k)
    BY HoldsConcat
  <2> QED BY <1>1, <1>6, <2>1, Zenon
<1>8. PICK r : r = Overwrite(m, 0, kk)
  OBVIOUS
<1>9. r \in Seq(Octets) /\ Len(r) = wk + lk /\ Holds(r, 0, kk) /\ Holds(r, wk, k)
  <2>1. 0 + Len(kk) <= Len(m) /\ wk \in Nat /\ 0 + Len(kk) <= wk
    BY <1>5, <1>7
  <2>2. /\ r \in Seq(Octets) /\ Len(r) = Len(m) /\ Holds(r, 0, kk)
        /\ \A q \in Nat, s \in Seq(Octets) :
             Holds(m, q, s) /\ (q + Len(s) <= 0 \/ 0 + Len(kk) <= q) => Holds(r, q, s)
    BY <1>5, <1>8, <2>1, HoldsOverwrite
  <2> QED BY <1>7, <2>1, <2>2
<1>10. Probe(k) = r
  BY <1>1, <1>2, <1>3, <1>6, <1>7, <1>8, Zenon DEF Probe
<1>11. getVarint32Ptr(r, 0, 5) = [end |-> wk, value |-> lk]
  <2>1. 0 + 5 <= 5 /\ 0 + wk = wk /\ Holds(r, 0, encodeVarint32(lk)) /\ r \in Seq(Octets)
    BY <1>3, <1>9
  <2>2. getVarint32Ptr(r, 0, 5) = [end |-> 0 + varintLength[lk], value |-> lk]
    BY <1>4, <2>1, Decode32
  <2> QED BY <1>2, <2>1, <2>2
<1>12. PICK kp : kp = getVarint32Ptr(r, 0, 5) /\ kp.end = wk /\ kp.value = lk
  BY <1>11
<1>13. View(r, wk, Len(k)) = k
  BY <1>9, ViewHolds
<1>14. KeyView(r) = k
  BY <1>1, <1>12, <1>13, Zenon DEF KeyView
<1> QED BY <1>1, <1>2, <1>9, <1>10, <1>14, Zenon

Powers == {1, 2, 4, 8, 16, 32, 64, 128}

\* A bit that is 0 is set by adding it, and the other bits stay.
LEMMA AddBit ==
  ASSUME NEW x \in Octets, NEW a \in Powers, (x \div a) % 2 # 1
  PROVE  /\ x + a \in Octets /\ ((x + a) \div a) % 2 = 1
         /\ \A b \in Powers : (x \div b) % 2 = 1 => ((x + a) \div b) % 2 = 1
<1>1. CASE a = 1
  BY <1>1, SMT DEF Octets, Powers
<1>2. CASE a = 2
  BY <1>2, SMT DEF Octets, Powers
<1>3. CASE a = 4
  BY <1>3, SMT DEF Octets, Powers
<1>4. CASE a = 8
  BY <1>4, SMT DEF Octets, Powers
<1>5. CASE a = 16
  BY <1>5, SMT DEF Octets, Powers
<1>6. CASE a = 32
  BY <1>6, SMT DEF Octets, Powers
<1>7. CASE a = 64
  BY <1>7, SMT DEF Octets, Powers
<1>8. CASE a = 128
  BY <1>8, SMT DEF Octets, Powers
<1> QED BY <1>1, <1>2, <1>3, <1>4, <1>5, <1>6, <1>7, <1>8 DEF Powers

\* kset_Remain_Idx has the eight powers.
LEMMA BitIsPower ==
  ASSUME NEW i \in Nat PROVE Bit(i) \in Powers
<1>1. i % 8 \in 0..7
  OBVIOUS
<1>2. PICK j \in 1..8 : j = (i % 8) + 1
  BY <1>1
<1>3. kset_Remain_Idx[j] \in Powers
  BY DEF kset_Remain_Idx, Powers
<1> QED BY <1>2, <1>3 DEF Bit

FilterBytes == [1..(FilterBits \div 8) -> Octets]
Places == 0..(FilterBits - 1)

\* A place of the filter is in one of its bytes.
LEMMA PlaceByte ==
  ASSUME NEW i \in Places PROVE (i \div 8) + 1 \in 1..(FilterBits \div 8) /\ i \in Nat
BY FilterAssumption, SMT DEF Places

\* BitSet::set sets its bit and keeps the others.
LEMMA SetKeeps ==
  ASSUME NEW data \in FilterBytes, NEW i \in Places
  PROVE  /\ BitSetOne(data, i) \in FilterBytes /\ BitTest(BitSetOne(data, i), i)
         /\ \A j \in Places : BitTest(data, j) => BitTest(BitSetOne(data, i), j)
<1>1. PICK at \in 1..(FilterBits \div 8) : at = (i \div 8) + 1
  BY PlaceByte
<1>2. PICK a \in Powers : a = Bit(i)
  BY PlaceByte, BitIsPower
<1>3. PICK x \in Octets : x = data[at]
  BY DEF FilterBytes
<1>4. BitTest(data, i) <=> (x \div a) % 2 = 1
  BY <1>1, <1>2, <1>3 DEF BitTest
<1>5. PICK y : y = IF BitTest(data, i) THEN x ELSE x + a
  OBVIOUS
<1>6. /\ y \in Octets /\ (y \div a) % 2 = 1
      /\ \A b \in Powers : (x \div b) % 2 = 1 => (y \div b) % 2 = 1
  <2>1. CASE BitTest(data, i)
    BY <1>4, <1>5, <2>1, Zenon
  <2>2. CASE ~ BitTest(data, i)
    <3>1. y = x + a /\ (x \div a) % 2 # 1
      BY <1>4, <1>5, <2>2, Zenon
    <3> QED BY <3>1, AddBit
  <2> QED BY <2>1, <2>2
<1>7. PICK d : d = BitSetOne(data, i)
  OBVIOUS
<1>8. d = [data EXCEPT ![at] = y]
  BY <1>1, <1>2, <1>3, <1>5, <1>7, Zenon DEF BitSetOne
<1>9. /\ d \in FilterBytes /\ d[at] = y
      /\ \A h \in 1..(FilterBits \div 8) : h # at => d[h] = data[h]
  BY <1>6, <1>8 DEF FilterBytes
<1>10. BitTest(d, i)
  BY <1>1, <1>2, <1>6, <1>9, Zenon DEF BitTest
<1>11. ASSUME NEW j \in Places, BitTest(data, j) PROVE BitTest(d, j)
  <2>1. PICK h \in 1..(FilterBits \div 8) : h = (j \div 8) + 1
    BY PlaceByte
  <2>2. PICK b \in Powers : b = Bit(j)
    BY PlaceByte, BitIsPower
  <2>3. CASE h = at
    <3>1. (x \div b) % 2 = 1
      BY <1>3, <1>11, <2>1, <2>2, <2>3, Zenon DEF BitTest
    <3>2. (y \div b) % 2 = 1
      BY <1>6, <3>1, Zenon
    <3> QED BY <1>9, <2>1, <2>2, <2>3, <3>2, Zenon DEF BitTest
  <2>4. CASE h # at
    <3>1. d[h] = data[h]
      BY <1>9, <2>4
    <3> QED BY <1>11, <2>1, <3>1, Zenon DEF BitTest
  <2> QED BY <2>3, <2>4
<1> QED BY <1>7, <1>9, <1>10, <1>11, Zenon

\* A key that was inserted matches, and goes on matching.
LEMMA InsertKeeps ==
  ASSUME NEW data \in FilterBytes, NEW k \in Keys
  PROVE  /\ BloomInsert(data, k) \in FilterBytes /\ IsMatch(BloomInsert(data, k), k)
         /\ \A l \in Keys : IsMatch(data, l) => IsMatch(BloomInsert(data, k), l)
<1>1. ASSUME NEW l \in Keys, NEW i \in 1..4 PROVE Hashes[l][i] % FilterBits \in Places
  <2>1. PICK h \in Nat : h = Hashes[l][i]
    BY HashAssumption
  <2>2. FilterBits \in Nat /\ FilterBits > 0
    BY FilterAssumption
  <2>3. h % FilterBits \in 0..(FilterBits - 1)
    BY <2>2
  <2> QED BY <2>1, <2>3 DEF Places
<1>2. PICK p1 \in Places, p2 \in Places, p3 \in Places, p4 \in Places :
        /\ p1 = Hashes[k][1] % FilterBits /\ p2 = Hashes[k][2] % FilterBits
        /\ p3 = Hashes[k][3] % FilterBits /\ p4 = Hashes[k][4] % FilterBits
  <2>1. 1 \in 1..4 /\ 2 \in 1..4 /\ 3 \in 1..4 /\ 4 \in 1..4
    OBVIOUS
  <2> QED BY <1>1, <2>1, Zenon
<1>3. PICK d1 \in FilterBytes : /\ d1 = BitSetOne(data, p1) /\ BitTest(d1, p1)
                                /\ \A j \in Places : BitTest(data, j) => BitTest(d1, j)
  BY SetKeeps, Zenon
<1>4. PICK d2 \in FilterBytes : /\ d2 = BitSetOne(d1, p2) /\ BitTest(d2, p2)
                                /\ \A j \in Places : BitTest(d1, j) => BitTest(d2, j)
  BY SetKeeps, Zenon
<1>5. PICK d3 \in FilterBytes : /\ d3 = BitSetOne(d2, p3) /\ BitTest(d3, p3)
                                /\ \A j \in Places : BitTest(d2, j) => BitTest(d3, j)
  BY SetKeeps, Zenon
<1>6. PICK d4 \in FilterBytes : /\ d4 = BitSetOne(d3, p4) /\ BitTest(d4, p4)
                                /\ \A j \in Places : BitTest(d3, j) => BitTest(d4, j)
  BY SetKeeps, Zenon
<1>7. BloomInsert(data, k) = d4
  BY <1>2, <1>3, <1>4, <1>5, <1>6, Zenon DEF BloomInsert
<1>8. \A j \in Places : BitTest(data, j) => BitTest(d4, j)
  BY <1>3, <1>4, <1>5, <1>6, Zenon
<1>9. BitTest(d4, p1) /\ BitTest(d4, p2) /\ BitTest(d4, p3) /\ BitTest(d4, p4)
  BY <1>3, <1>4, <1>5, <1>6, Zenon
<1>10. IsMatch(d4, k)
  <2>1. ASSUME NEW i \in 1..4 PROVE BitTest(d4, Hashes[k][i] % FilterBits)
    <3>1. i = 1 \/ i = 2 \/ i = 3 \/ i = 4
      OBVIOUS
    <3> QED BY <1>2, <1>9, <3>1, Zenon
  <2> QED BY <2>1 DEF IsMatch
<1>11. ASSUME NEW l \in Keys, IsMatch(data, l) PROVE IsMatch(d4, l)
  <2>1. ASSUME NEW i \in 1..4 PROVE BitTest(d4, Hashes[l][i] % FilterBits)
    <3>1. BitTest(data, Hashes[l][i] % FilterBits)
      BY <1>11 DEF IsMatch
    <3> QED BY <1>1, <1>8, <3>1, Zenon
  <2> QED BY <2>1 DEF IsMatch
<1> QED BY <1>7, <1>10, <1>11, Zenon

\* Keys and values are bytes.
LEMMA KeyBytes ==
  ASSUME NEW s \in Keys \cup Values PROVE s \in Seq(Octets) /\ s \in Seq(Nat) /\ Fits32(Len(s))
<1>1. s \in Seq(0..255) /\ Fits32(Len(s))
  BY KeyAssumption
<1>2. s \in Seq(Nat)
  <2>1. PICK l \in Nat : l = Len(s) /\ s \in [1..l -> 0..255]
    <3>1. Len(s) \in Nat /\ s \in [1..Len(s) -> 0..255]
      BY <1>1, LenProperties
    <3> QED BY <3>1, Zenon
  <2>2. \A i \in 0..255 : i \in Nat
    OBVIOUS
  <2>3. s \in [1..l -> Nat]
    BY <2>1, <2>2, Zenon
  <2> QED BY <2>3, FunctionIsSeq
<1> QED BY <1>1, <1>2 DEF Octets

\* Records with the same key are the equivalent ones.
LEMMA SameKey ==
  ASSUME NEW r, KeyView(r) \in Keys, NEW s, KeyView(s) \in Keys
  PROVE  Equivalent(r, s) <=> KeyView(r) = KeyView(s)
<1>1. KeyView(r) \in Seq(Nat) /\ KeyView(s) \in Seq(Nat)
  BY KeyBytes, Zenon
<1>2. ASSUME Equivalent(r, s) PROVE KeyView(r) = KeyView(s)
  BY <1>1, <1>2, LessTotal, Zenon DEF Equivalent, Comparator
<1>3. ASSUME KeyView(r) = KeyView(s) PROVE Equivalent(r, s)
  BY <1>1, <1>3, LessIrreflexive, Zenon DEF Equivalent, Comparator
<1> QED BY <1>2, <1>3

\* The history's entries.
Written == [op : {"set", "delete"}, value : Values \cup {<<>>}, number : Numbers]

LEMMA WrittenValue ==
  ASSUME NEW w \in Written PROVE w.value \in Seq(Octets) /\ Fits32(Len(w.value))
<1>1. w.value \in Values \cup {<<>>}
  BY DEF Written
<1>2. <<>> \in Seq(Octets) /\ Len(<<>>) = 0 /\ Fits32(0)
  BY SMT DEF Fits32
<1> QED BY <1>1, <1>2, KeyBytes

\* x is what can be read of the write w.
ReadOf(x, w) ==
  x \in Seq(Octets) /\ Len(x) = Len(w.value) /\ (HasRoom(w) => x = w.value)

\* An answer that was found is one of the writes.
LEMMA FoundReadsBack ==
  ASSUME NEW ws, NEW w \in ws, NEW x, ReadOf(x, w)
  PROVE  ReadsBack([code |-> "kOk", value |-> x], ws)
<1>1. PICK a : a = [code |-> "kOk", value |-> x]
  OBVIOUS
<1>2. a.code = "kOk" /\ a.value = x
  BY <1>1
<1>3. a.code # "kNotFound"
  BY <1>2
<1>4. ws # {}
  OBVIOUS
<1>5. ReadsBack(a, ws)
  BY <1>2, <1>3, <1>4, Zenon DEF ReadsBack, ReadOf
<1> QED BY <1>1, <1>5

\* The map has one record for every written key and no others, and each reads as a write
\* of its key; the filter matches every written key.
Stored(map, data, ws) ==
  /\ IsFiniteSet(map)
  /\ \A r \in map : \E k \in Keys, x \in Seq(Octets) :
       ReadsAs(r, k, x) /\ \E w \in ws[k] : ReadOf(x, w)
  /\ \A r \in map, s \in map : KeyView(r) = KeyView(s) => r = s
  /\ \A k \in Keys : ws[k] # {} => IsMatch(data, k) /\ \E r \in map : KeyView(r) = k

\* Get finds the record of its key and answers with it.
LEMMA StoredRead ==
  ASSUME NEW map, NEW data, NEW ws, Stored(map, data, ws), NEW k \in Keys
  PROVE  ReadsBack(MemtableGet(map, data, k), ws[k])
<1> DEFINE found == {r \in map : Equivalent(r, Probe(k))}
<1>1. KeyView(Probe(k)) = k
  BY KeyBytes, ProbeRead
<1>2. ASSUME NEW r \in map PROVE r \in found <=> KeyView(r) = k
  <2>1. KeyView(r) \in Keys
    BY Zenon DEF Stored, ReadsAs
  <2>2. Equivalent(r, Probe(k)) <=> KeyView(r) = KeyView(Probe(k))
    BY <1>1, <2>1, SameKey, Zenon
  <2> QED BY <1>1, <2>2, Zenon
<1>3. CASE ws[k] = {}
  <2>1. ASSUME NEW r \in map, KeyView(r) = k PROVE FALSE
    BY <1>3, <2>1, Zenon DEF Stored, ReadsAs
  <2>2. found = {}
    BY <1>2, <2>1, Zenon
  <2>3. MemtableGet(map, data, k) = NotFound
    BY <2>2, Zenon DEF MemtableGet
  <2>4. NotFound.code = "kNotFound"
    BY DEF NotFound
  <2> QED BY <1>3, <2>3, <2>4, Zenon DEF ReadsBack
<1>4. CASE ws[k] # {}
  <2>1. IsMatch(data, k) /\ found # {}
    BY <1>2, <1>4, Zenon DEF Stored
  <2>2. PICK r : r = CHOOSE x \in found : TRUE
    OBVIOUS
  <2>3. r \in found
    BY <2>1, <2>2, Zenon
  <2>4. MemtableGet(map, data, k) = Reading(r)
    BY <2>1, <2>2, Zenon DEF MemtableGet, Reading
  <2>5. r \in map /\ KeyView(r) = k
    BY <1>2, <2>3, Zenon
  <2>6. PICK x : ReadsAs(r, k, x) /\ \E w \in ws[k] : ReadOf(x, w)
    BY <2>5, Zenon DEF Stored, ReadsAs
  <2>7. MemtableGet(map, data, k) = [code |-> "kOk", value |-> x]
    BY <2>4, <2>6, Zenon DEF ReadsAs
  <2> QED BY <2>6, <2>7, FoundReadsBack, Zenon
<1> QED BY <1>3, <1>4

\* A write keeps that.
LEMMA StoredKept ==
  ASSUME NEW map, NEW data \in FilterBytes, NEW ws, Stored(map, data, ws),
         NEW k \in Keys, NEW w, NEW rec, NEW x \in Seq(Octets), ReadsAs(rec, k, x), ReadOf(x, w),
         NEW after, after[k] = ws[k] \cup {w},
         \A l \in Keys : l # k => after[l] = ws[l]
  PROVE  Stored(Insert(map, rec), BloomInsert(data, k), after)
<1>1. /\ IsMatch(BloomInsert(data, k), k)
      /\ \A l \in Keys : IsMatch(data, l) => IsMatch(BloomInsert(data, k), l)
  BY InsertKeeps
<1>r. KeyView(rec) = k
  BY DEF ReadsAs
<1>2. \A r \in map : Equivalent(r, rec) <=> KeyView(r) = k
  <2>1. ASSUME NEW r \in map PROVE Equivalent(r, rec) <=> KeyView(r) = k
    <3>1. KeyView(r) \in Keys
      BY Zenon DEF Stored, ReadsAs
    <3> QED BY <1>r, <3>1, SameKey, Zenon
  <2> QED BY <2>1
<1>g. \A l \in Keys : ws[l] \subseteq after[l]
  <2>1. ASSUME NEW l \in Keys PROVE ws[l] \subseteq after[l]
    <3>1. CASE l = k
      BY <3>1
    <3>2. CASE l # k
      BY <3>2
    <3> QED BY <3>1, <3>2
  <2> QED BY <2>1
<1>o. ASSUME NEW r \in map
      PROVE  \E l \in Keys, y \in Seq(Octets) : ReadsAs(r, l, y) /\ \E v \in after[l] : ReadOf(y, v)
  <2>1. PICK l \in Keys, y \in Seq(Octets) : ReadsAs(r, l, y) /\ \E v \in ws[l] : ReadOf(y, v)
    BY Zenon DEF Stored
  <2>2. \E v \in after[l] : ReadOf(y, v)
    BY <1>g, <2>1, Zenon
  <2> QED BY <2>1, <2>2, Zenon
<1>3. CASE \E r \in map : KeyView(r) = k
  <2>1. Insert(map, rec) = map
    BY <1>2, <1>3, Zenon DEF Insert
  <2>2. ASSUME NEW l \in Keys, after[l] # {}
        PROVE  IsMatch(BloomInsert(data, k), l) /\ \E r \in map : KeyView(r) = l
    <3>1. CASE l = k
      BY <1>1, <1>3, <3>1, Zenon
    <3>2. CASE l # k
      BY <1>1, <2>2, <3>2, Zenon DEF Stored
    <3> QED BY <3>1, <3>2
  <2>3. IsFiniteSet(map) /\ \A r \in map, s \in map : KeyView(r) = KeyView(s) => r = s
    BY Zenon DEF Stored
  <2> QED BY <1>o, <2>1, <2>2, <2>3, Zenon DEF Stored
<1>4. CASE ~ \E r \in map : KeyView(r) = k
  <2>1. Insert(map, rec) = map \cup {rec}
    BY <1>2, <1>4, Zenon DEF Insert
  <2>4. ASSUME NEW r \in map \cup {rec}
        PROVE  \E l \in Keys, y \in Seq(Octets) :
                 ReadsAs(r, l, y) /\ \E v \in after[l] : ReadOf(y, v)
    <3>1. CASE r = rec
      <4>1. w \in after[k]
        OBVIOUS
      <4> QED BY <3>1, <4>1, Zenon
    <3>2. CASE r \in map
      BY <1>o, <3>2
    <3> QED BY <3>1, <3>2
  <2>5. ASSUME NEW l \in Keys, after[l] # {}
        PROVE  IsMatch(BloomInsert(data, k), l) /\ \E r \in map \cup {rec} : KeyView(r) = l
    <3>1. CASE l = k
      BY <1>1, <1>r, <3>1, Zenon
    <3>2. CASE l # k
      BY <1>1, <2>5, <3>2, Zenon DEF Stored
    <3> QED BY <3>1, <3>2
  <2>6. ASSUME NEW r \in map \cup {rec}, NEW s \in map \cup {rec}, KeyView(r) = KeyView(s)
        PROVE  r = s
    BY <1>r, <1>4, <2>6, Zenon DEF Stored
  <2>7. IsFiniteSet(map \cup {rec})
    BY FS_AddElement DEF Stored
  <2> QED BY <2>1, <2>4, <2>5, <2>6, <2>7, Zenon DEF Stored
<1> QED BY <1>3, <1>4

History == [Keys -> SUBSET Written]

MemInv ==
  /\ level \in Nat /\ writes \in Seq(History) /\ Len(writes) = level + 1
  /\ filter \in FilterBytes
  /\ Stored(memMap, filter, writes[level + 1])

\* A write of either kind.
LEMMA WriteKeeps ==
  ASSUME MemInv, NEW k \in Keys, NEW request, request.key = k, NEW n, NEW logRecord, NEW rec,
         NEW w \in Written, w = [op |-> request.op, value |-> request.value, number |-> n],
         NEW x \in Seq(Octets), ReadsAs(rec, k, x), ReadOf(x, w), Write(request, n, logRecord, rec)
  PROVE  MemInv'
<1>1. PICK i \in Nat, ws \in History : i = level + 1 /\ ws = writes[i] /\ i \in 1..Len(writes)
  <2>1. level + 1 \in Nat /\ level + 1 \in 1..Len(writes)
    BY DEF MemInv
  <2>2. writes[level + 1] \in History
    BY <2>1, ElementOfSeq DEF MemInv
  <2> QED BY <2>1, <2>2, Zenon
<1>2. PICK next \in SUBSET Written : next = ws[k] \cup {w}
  <2>1. ws[k] \cup {w} \in SUBSET Written
    BY <1>1 DEF History
  <2> QED BY <2>1
<1>3. PICK after \in History :
        after = [ws EXCEPT ![k] = next] /\ after[k] = next
        /\ \A l \in Keys : l # k => after[l] = ws[l]
  <2>1. /\ [ws EXCEPT ![k] = next] \in History /\ [ws EXCEPT ![k] = next][k] = next
        /\ \A l \in Keys : l # k => [ws EXCEPT ![k] = next][l] = ws[l]
    BY <1>1 DEF History
  <2> QED BY <2>1, Zenon
<1>4. writes' = [writes EXCEPT ![i] = after]
  <2>1. writes' = [writes EXCEPT ![level + 1][request.key] =
                     @ \cup {[op |-> request.op, value |-> request.value, number |-> n]}]
    BY Zenon DEF Write
  <2>2. writes' = [writes EXCEPT ![i][k] = @ \cup {w}]
    BY <1>1, <2>1, Zenon
  <2> QED BY <1>1, <1>2, <1>3, <2>2, Zenon
<1>5. /\ writes' \in Seq(History) /\ Len(writes') = level + 1 /\ writes'[i] = after
  BY <1>1, <1>4 DEF MemInv
<1>6. level' = level /\ filter' = BloomInsert(filter, k) /\ memMap' = Insert(memMap, rec)
  BY DEF Write
<1>7. filter \in FilterBytes /\ filter' \in FilterBytes
  BY <1>6, InsertKeeps DEF MemInv
<1>8. Stored(memMap, filter, ws)
  BY <1>1 DEF MemInv
<1>9. after[k] = ws[k] \cup {w}
  BY <1>2, <1>3, Zenon
<1>10. Stored(Insert(memMap, rec), BloomInsert(filter, k), after)
  <2>1. PICK data \in FilterBytes : data = filter
    BY <1>7, Zenon
  <2>2. Stored(memMap, data, ws)
    BY <1>8, <2>1, Zenon
  <2>3. after[k] = ws[k] \cup {w} /\ \A l \in Keys : l # k => after[l] = ws[l]
    BY <1>3, <1>9, Zenon
  <2>4. Stored(Insert(memMap, rec), BloomInsert(data, k), after)
    BY <2>2, <2>3, StoredKept, Zenon
  <2> QED BY <2>1, <2>4, Zenon
<1>11. Stored(memMap', filter', writes'[level' + 1])
  BY <1>1, <1>5, <1>6, <1>10, Zenon
<1> QED BY <1>5, <1>6, <1>7, <1>11 DEF MemInv

\* Every step keeps the memtable's invariant.
LEMMA MemInvHolds == RecordSpec => []MemInv
<1>0. /\ NoBits \in FilterBytes /\ Stored({}, NoBits, [k \in Keys |-> {}])
      /\ [k \in Keys |-> {}] \in History
  <2>1. NoBits \in FilterBytes
    BY DEF NoBits, FilterBytes, Octets
  <2>2. Stored({}, NoBits, [k \in Keys |-> {}])
    BY FS_EmptySet, Zenon DEF Stored
  <2>3. {} \in SUBSET Written
    OBVIOUS
  <2> QED BY <2>1, <2>2, <2>3, Zenon DEF History
<1>1. ASSUME RecordInit PROVE MemInv
  <2>1. PICK ws \in History : ws = [k \in Keys |-> {}] /\ writes = <<ws>>
    BY <1>0, <1>1, Zenon DEF RecordInit
  <2>2. writes \in Seq(History) /\ Len(writes) = 0 + 1 /\ writes[0 + 1] = ws
    BY <2>1
  <2>3. level = 0 /\ memMap = {} /\ filter = NoBits
    BY <1>1, Zenon DEF RecordInit
  <2>4. Stored(memMap, filter, writes[level + 1])
    BY <1>0, <2>1, <2>2, <2>3, Zenon
  <2>5. level \in Nat /\ Len(writes) = level + 1 /\ filter \in FilterBytes
    BY <1>0, <2>2, <2>3
  <2> QED BY <2>2, <2>4, <2>5, Zenon DEF MemInv
<1>2. ASSUME MemInv, [RecordNext]_recordVars PROVE MemInv'
  <2>1. ASSUME NEW k \in Keys, NEW v \in Values, NEW n \in Numbers, Set(k, v, n) PROVE MemInv'
    <3>1. PICK request : request = SetRequest(k, v)
      OBVIOUS
    <3>2. request.key = k /\ request.op = "set" /\ request.value = v
      BY <3>1 DEF SetRequest
    <3>3. PICK w : w = [op |-> request.op, value |-> request.value, number |-> n]
      OBVIOUS
    <3>4. w = [op |-> "set", value |-> v, number |-> n]
      BY <3>2, <3>3, Zenon
    <3>5. w \in Written /\ w.op = "set" /\ w.value = v /\ w.number = n
      BY <3>4 DEF Written
    <3>6. /\ k \in Seq(Octets) /\ v \in Seq(Octets) /\ Fits32(Len(k)) /\ Fits32(Len(v))
          /\ n \in Nat /\ Fits32(n)
      BY KeyBytes, NumberAssumption
    <3>7. PICK rec : rec = SetRecord(k, v, n)
      OBVIOUS
    <3>8. PICK x \in Seq(Octets) : /\ Len(x) = Len(v) /\ ReadsAs(rec, k, x)
                                   /\ varintLength[n] = varintLength[Len(v)] => x = v
      <4>1. \E x \in Seq(Octets) : /\ Len(x) = Len(v) /\ ReadsAs(SetRecord(k, v, n), k, x)
                                   /\ varintLength[n] = varintLength[Len(v)] => x = v
        BY <3>6, SetRead
      <4> QED BY <3>7, <4>1, Zenon
    <3>9. ReadOf(x, w)
      BY <3>5, <3>8, Zenon DEF ReadOf, HasRoom
    <3>10. PICK logRecord : logRecord = SetContextWalLogFormat(k, v, number)
      OBVIOUS
    <3>11. Write(request, n, logRecord, rec)
      BY <2>1, <3>1, <3>7, <3>10, Zenon DEF Set, SetRequest
    <3> QED BY <1>2, <3>2, <3>3, <3>5, <3>8, <3>9, <3>11, WriteKeeps
  <2>2. ASSUME NEW k \in Keys, NEW n \in Numbers, Delete(k, n) PROVE MemInv'
    <3>1. PICK request : request = DeleteRequest(k)
      OBVIOUS
    <3>2. request.key = k /\ request.op = "delete" /\ request.value = <<>>
      BY <3>1 DEF DeleteRequest
    <3>3. PICK w : w = [op |-> request.op, value |-> request.value, number |-> n]
      OBVIOUS
    <3>4. w = [op |-> "delete", value |-> <<>>, number |-> n]
      BY <3>2, <3>3, Zenon
    <3>5. w \in Written /\ w.value = <<>>
      BY <3>4 DEF Written
    <3>6. k \in Seq(Octets) /\ Fits32(Len(k)) /\ n \in Nat /\ Fits32(n)
      BY KeyBytes, NumberAssumption
    <3>7. PICK rec : rec = DeleteRecord(k, n)
      OBVIOUS
    <3>8. PICK x \in Seq(Octets) : x = <<>> /\ ReadsAs(rec, k, x)
      <4>1. <<>> \in Seq(Octets)
        OBVIOUS
      <4> QED BY <3>6, <3>7, <4>1, DeleteRead, Zenon
    <3>9. ReadOf(x, w)
      BY <3>5, <3>8, Zenon DEF ReadOf
    <3>10. PICK logRecord : logRecord = DeleteContextWalLogFormat(k, number)
      OBVIOUS
    <3>11. Write(request, n, logRecord, rec)
      BY <2>2, <3>1, <3>7, <3>10, Zenon DEF Delete, DeleteRequest
    <3> QED BY <1>2, <3>2, <3>3, <3>5, <3>8, <3>9, <3>11, WriteKeeps
  <2>3. ASSUME WriteTable PROVE MemInv'
    <3>1. PICK ws \in History : ws = [k \in Keys |-> {}] /\ writes' = Append(writes, ws)
      BY <1>0, <2>3, Zenon DEF WriteTable
    <3>2. level' = level + 1 /\ memMap' = {} /\ filter' = NoBits
      BY <2>3 DEF WriteTable
    <3>3. PICK f \in Seq(History), n \in Nat : f = writes /\ n = level /\ Len(f) = n + 1
      BY <1>2 DEF MemInv
    <3>4. /\ Append(f, ws) \in Seq(History) /\ Len(Append(f, ws)) = n + 1 + 1
          /\ Append(f, ws)[n + 1 + 1] = ws
      BY <3>3
    <3>5. /\ writes' \in Seq(History) /\ Len(writes') = level' + 1
          /\ writes'[level' + 1] = ws
      BY <3>1, <3>2, <3>3, <3>4, Zenon
    <3>6. Stored(memMap', filter', writes'[level' + 1])
      BY <1>0, <3>1, <3>2, <3>5, Zenon
    <3>7. level' \in Nat /\ filter' \in FilterBytes
      BY <1>0, <3>2, <3>3
    <3> QED BY <3>5, <3>6, <3>7, Zenon DEF MemInv
  <2>4. CASE UNCHANGED recordVars
    BY <1>2, <2>4, Zenon DEF recordVars, MemInv
  <2> QED BY <1>2, <2>1, <2>2, <2>3, <2>4, Zenon DEF RecordNext
<1> QED BY <1>1, <1>2, PTL DEF RecordSpec

\* The memtable's round trip, for every key, value and number: a Get finds a key if and only
\* if it was written, whatever other keys share bits of the filter, and what it finds is a
\* write of that key: of its length always, and its very bytes if the number was as wide as
\* the size of the value.
THEOREM GetCorrect == RecordSpec => []GetReadsBack
<1>1. ASSUME MemInv PROVE GetReadsBack
  BY <1>1, StoredRead, Zenon DEF MemInv, GetReadsBack
<1>2. RecordSpec => []MemInv
  BY MemInvHolds
<1> QED BY <1>1, <1>2, PTL

-----------------------------------------------------------------------------
(* The rows of a file.                                                     *)

\* The records that come before r.
Below(map, r) == {s \in map : Comparator(s, r)}

\* One record for a key.
OneEach(map) ==
  /\ IsFiniteSet(map) /\ KeysOf(map)
  /\ \A r \in map, s \in map : KeyView(r) = KeyView(s) => r = s

\* A record has more records before it than the ones before it have.
LEMMA BelowGrows ==
  ASSUME NEW map, OneEach(map), NEW r \in map, NEW s \in map, Comparator(r, s)
  PROVE  Cardinality(Below(map, r)) < Cardinality(Below(map, s))
<1>1. Ordered(map)
  BY RowsAreOrdered DEF OneEach
<1>2. PICK R, S : R = Below(map, r) /\ S = Below(map, s)
  OBVIOUS
<1>3. R \subseteq S /\ S \subseteq map /\ r \in S /\ r \notin R
  BY <1>1, <1>2, Zenon DEF Below, Ordered
<1>4. IsFiniteSet(S)
  BY <1>3, FS_Subset DEF OneEach
<1>5. R \in SUBSET S /\ R # S
  BY <1>3
<1>6. IsFiniteSet(R) /\ Cardinality(R) <= Cardinality(S) /\ Cardinality(S) # Cardinality(R)
  BY <1>4, <1>5, FS_Subset
<1>7. Cardinality(R) \in Nat /\ Cardinality(S) \in Nat
  BY <1>4, <1>6, FS_CardinalityType
<1> QED BY <1>2, <1>6, <1>7

\* The number of records before a record is a place in the map, another one for another
\* record, and every place is taken.
LEMMA EveryPlace ==
  ASSUME NEW map, OneEach(map)
  PROVE  LET n == Cardinality(map) IN
         /\ n \in Nat
         /\ \A r \in map : Cardinality(Below(map, r)) \in 0..(n - 1)
         /\ \A i \in 0..(n - 1) : \E r \in map : Cardinality(Below(map, r)) = i
         /\ \A r \in map, s \in map :
              Cardinality(Below(map, r)) < Cardinality(Below(map, s)) => Comparator(r, s)
         /\ \A r \in map, s \in map :
              Cardinality(Below(map, r)) = Cardinality(Below(map, s)) => r = s
<1>1. PICK n \in Nat : n = Cardinality(map)
  BY FS_CardinalityType DEF OneEach
<1>2. ASSUME NEW r \in map PROVE Cardinality(Below(map, r)) \in 0..(n - 1)
  <2>1. PICK R : R = Below(map, r)
    OBVIOUS
  <2>2. Ordered(map)
    BY RowsAreOrdered DEF OneEach
  <2>3. R \in SUBSET map /\ r \notin R
    BY <2>1, <2>2, Zenon DEF Below, Ordered
  <2>4. IsFiniteSet(R) /\ Cardinality(R) <= n /\ (n = Cardinality(R) => map = R)
    BY <1>1, <2>3, FS_Subset DEF OneEach
  <2>5. Cardinality(R) \in Nat
    BY <2>4, FS_CardinalityType
  <2>6. Cardinality(R) # n
    BY <2>3, <2>4
  <2> QED BY <2>1, <2>4, <2>5, <2>6
<1>3. ASSUME NEW r \in map, NEW s \in map PROVE Comparator(r, s) \/ Comparator(s, r) \/ r = s
  BY LessTotal DEF OneEach, KeysOf, Comparator
<1>4. ASSUME NEW r \in map, NEW s \in map,
             Cardinality(Below(map, r)) < Cardinality(Below(map, s))
      PROVE  Comparator(r, s)
  <2>1. Cardinality(Below(map, r)) \in Int /\ Cardinality(Below(map, s)) \in Int
    BY <1>2
  <2>2. ~ Comparator(s, r)
    BY <1>4, <2>1, BelowGrows
  <2>3. r # s
    BY <1>4, <2>1
  <2> QED BY <1>3, <2>2, <2>3
<1>5. ASSUME NEW r \in map, NEW s \in map,
             Cardinality(Below(map, r)) = Cardinality(Below(map, s))
      PROVE  r = s
  <2>1. Cardinality(Below(map, r)) \in Int /\ Cardinality(Below(map, s)) \in Int
    BY <1>2
  <2>2. ~ Comparator(s, r) /\ ~ Comparator(r, s)
    BY <1>5, <2>1, BelowGrows
  <2> QED BY <1>3, <2>2
<1> DEFINE place == [r \in map |-> Cardinality(Below(map, r))]
           places == 0..(n - 1)
<1>6. place \in Injection(map, places)
  <2>1. place \in [map -> places]
    BY <1>2
  <2>2. \A r \in map, s \in map : place[r] = place[s] => r = s
    BY <1>5
  <2> QED BY <2>1, <2>2, Zenon DEF Injection, IsInjective
<1>7. IsFiniteSet(places) /\ Cardinality(places) = n
  <2>1. 0 \in Int /\ n - 1 \in Int
    OBVIOUS
  <2>2. IsFiniteSet(0..(n - 1)) /\ Cardinality(0..(n - 1)) = IF 0 > n - 1 THEN 0 ELSE n - 1 - 0 + 1
    BY <2>1, FS_Interval
  <2> QED BY <2>2
<1>8. place \in Surjection(map, places)
  <2> HIDE DEF place, places
  <2> QED BY <1>1, <1>6, <1>7, FS_Injection
<1>9. \A i \in places : \E r \in map : place[r] = i
  BY <1>8, Zenon DEF Surjection
<1> QED BY <1>1, <1>2, <1>4, <1>5, <1>9

\* The btree_set's order: every record once, in ascending order.
LEMMA InOrderLists ==
  ASSUME NEW map, OneEach(map)
  PROVE  /\ InOrder(map) \in Seq(map) /\ Len(InOrder(map)) = Cardinality(map)
         /\ Ascending(InOrder(map))
         /\ \A r \in map : \E i \in 1..Cardinality(map) : InOrder(map)[i] = r
<1>1. PICK n \in Nat : n = Cardinality(map)
  BY FS_CardinalityType DEF OneEach
<1>2. PICK rank : rank = [r \in map |-> Cardinality(Below(map, r))]
  OBVIOUS
<1>3. \A r \in map : rank[r] = Cardinality({s \in map : Comparator(s, r)})
  BY <1>2 DEF Below
<1>4. /\ \A r \in map : rank[r] \in 0..(n - 1)
      /\ \A i \in 0..(n - 1) : \E r \in map : rank[r] = i
      /\ \A r \in map, s \in map : rank[r] < rank[s] => Comparator(r, s)
      /\ \A r \in map, s \in map : rank[r] = rank[s] => r = s
  <2>1. /\ \A r \in map : Cardinality(Below(map, r)) \in 0..(n - 1)
        /\ \A i \in 0..(n - 1) : \E r \in map : Cardinality(Below(map, r)) = i
        /\ \A r \in map, s \in map :
             Cardinality(Below(map, r)) < Cardinality(Below(map, s)) => Comparator(r, s)
        /\ \A r \in map, s \in map :
             Cardinality(Below(map, r)) = Cardinality(Below(map, s)) => r = s
    BY <1>1, EveryPlace, Zenon
  <2> QED BY <1>2, <2>1, Zenon
<1>5. PICK a : a = InOrder(map)
  OBVIOUS
<1>6. a = [i \in 1..n |-> CHOOSE r \in map : Cardinality({s \in map : Comparator(s, r)}) = i - 1]
  BY <1>1, <1>5, Zenon DEF InOrder
<1>7. ASSUME NEW i \in 1..n PROVE a[i] \in map /\ rank[a[i]] = i - 1
  <2>1. i - 1 \in 0..(n - 1)
    OBVIOUS
  <2>2. PICK r \in map : rank[r] = i - 1
    BY <1>4, <2>1
  <2>3. a[i] = CHOOSE x \in map : Cardinality({s \in map : Comparator(s, x)}) = i - 1
    BY <1>6
  <2>4. Cardinality({s \in map : Comparator(s, r)}) = i - 1
    BY <1>3, <2>2
  <2>5. a[i] \in map /\ Cardinality({s \in map : Comparator(s, a[i])}) = i - 1
    BY <2>3, <2>4, Zenon
  <2> QED BY <1>3, <2>5, Zenon
<1>8. a \in [1..n -> map]
  <2> DEFINE Record(i) == CHOOSE r \in map : Cardinality({s \in map : Comparator(s, r)}) = i - 1
  <2>1. a = [i \in 1..n |-> Record(i)]
    BY <1>6, Zenon
  <2> HIDE DEF Record
  <2>2. a = [i \in 1..n |-> a[i]]
    BY <2>1, Zenon
  <2> QED BY <1>7, <2>2, Zenon
<1>9. a \in Seq(map) /\ Len(a) = n
  BY <1>8, FunctionIsSeq
<1>10. Ascending(a)
  <2>1. ASSUME NEW i \in 1..(Len(a) - 1) PROVE Comparator(a[i], a[i + 1])
    <3>1. i \in 1..n /\ i + 1 \in 1..n /\ i - 1 < (i + 1) - 1
      BY <1>9
    <3> QED BY <1>4, <1>7, <3>1
  <2> QED BY <2>1 DEF Ascending
<1>11. ASSUME NEW r \in map PROVE \E i \in 1..n : a[i] = r
  <2>1. PICK i \in 1..n : i - 1 = rank[r]
    <3>1. rank[r] \in 0..(n - 1)
      BY <1>4
    <3>2. rank[r] + 1 \in 1..n /\ (rank[r] + 1) - 1 = rank[r]
      BY <3>1
    <3> QED BY <3>2
  <2>2. a[i] \in map /\ rank[a[i]] = rank[r]
    BY <1>7, <2>1
  <2> QED BY <1>4, <2>2
<1> QED BY <1>1, <1>5, <1>9, <1>10, <1>11

-----------------------------------------------------------------------------
(* The prefixes of a block.                                                *)

\* What Format16PrefixStr should find.
Longest(prefix, strings) ==
  /\ \A i \in DOMAIN strings : IsPrefix(prefix, strings[i])
  /\ ~ \A i \in DOMAIN strings :
         /\ Len(strings[i]) > Len(prefix)
         /\ strings[i][Len(prefix) + 1] = strings[1][Len(prefix) + 1]

\* Neighbours that all have the same byte at i: all have the first one's.
LEMMA AllSame ==
  ASSUME NEW n \in Nat, NEW f, \A j \in 1..(n - 1) : f[j] = f[j + 1], NEW j \in 1..n
  PROVE  f[j] = f[1]
<1> DEFINE Bad == {h \in Nat : h \in 1..n /\ f[h] # f[1]}
<1>1. ASSUME Bad # {} PROVE FALSE
  <2>1. PICK x \in Bad : \A y \in Bad : x <= y
    <3>1. Bad \subseteq Nat
      OBVIOUS
    <3> HIDE DEF Bad
    <3> QED BY <1>1, <3>1, LeastOne
  <2>2. x \in 1..n /\ f[x] # f[1] /\ x # 1
    OBVIOUS
  <2>3. PICK y \in 1..(n - 1) : y + 1 = x /\ y < x /\ y \in Nat
    <3>1. x - 1 \in 1..(n - 1) /\ (x - 1) + 1 = x /\ x - 1 < x /\ x - 1 \in Nat
      BY <2>2
    <3> QED BY <3>1
  <2>4. f[y] = f[x]
    BY <2>3
  <2>5. y \in Bad
    BY <2>2, <2>3, <2>4
  <2> QED BY <2>1, <2>3, <2>5
<1> QED BY <1>1

\* A bounded set of naturals: a least length.
LEMMA ShortestOne ==
  ASSUME NEW n \in Nat, n >= 1, NEW len \in [1..n -> Nat]
  PROVE  \E m \in Nat : /\ m \in {len[j] : j \in 1..n} /\ \A j \in 1..n : m <= len[j]
                        /\ \E j \in 1..n : m = len[j]
<1> DEFINE T == {len[j] : j \in 1..n}
<1>1. T \subseteq Nat /\ T # {}
  <2>1. 1 \in 1..n
    OBVIOUS
  <2> QED BY <2>1
<1>2. PICK m \in T : \A y \in T : m <= y
  <2> HIDE DEF T
  <2> QED BY <1>1, LeastOne
<1> QED BY <1>1, <1>2

\* The two loops of Format16PrefixStr.
LEMMA SharedIsLongest ==
  ASSUME NEW n \in Nat, n >= 1, NEW strings \in [1..n -> Seq(Octets)]
  PROVE  Longest(SubSeq(strings[1], 1, SharedBytes(strings)), strings)
<1>1. strings \in Seq(Seq(Octets)) /\ Len(strings) = n /\ DOMAIN strings = 1..n
  BY FunctionIsSeq
<1>2. PICK len \in [1..n -> Nat] : \A j \in 1..n : len[j] = Len(strings[j])
  <2>1. [j \in 1..n |-> Len(strings[j])] \in [1..n -> Nat]
    BY LenProperties
  <2> QED BY <2>1
<1> DEFINE Short == {Len(strings[j]) : j \in DOMAIN strings}
           Least(m) == \A j \in DOMAIN strings : m <= Len(strings[j])
           shortest == CHOOSE m \in Short : Least(m)
           same(i) == \A j \in 1..(Len(strings) - 1) : strings[j][i] = strings[j + 1][i]
<1>3. PICK short \in Nat : /\ short = shortest /\ \A j \in 1..n : short <= len[j]
                           /\ \E j \in 1..n : short = len[j]
  <2>1. PICK m \in Nat : /\ m \in {len[j] : j \in 1..n} /\ \A j \in 1..n : m <= len[j]
    BY <1>2, ShortestOne, Zenon
  <2>2. Short = {len[j] : j \in 1..n}
    BY <1>1, <1>2
  <2>3. m \in Short /\ Least(m)
    BY <1>1, <1>2, <2>1, <2>2
  <2> HIDE DEF Short
  <2>4. shortest \in Short /\ Least(shortest)
    BY <2>3, Zenon
  <2>5. \A j \in 1..n : shortest <= len[j]
    BY <1>1, <1>2, <2>4
  <2> HIDE DEF shortest
  <2>6. shortest \in Nat /\ \E j \in 1..n : shortest = len[j]
    BY <2>2, <2>4
  <2> QED BY <2>5, <2>6
<1> DEFINE unequal == {i \in 1..shortest : ~ same(i)}
<1>4. SharedBytes(strings) = IF unequal = {} THEN shortest
                             ELSE (CHOOSE i \in unequal : \A k \in unequal : i <= k) - 1
  BY Zenon DEF SharedBytes
<1> HIDE DEF shortest
<1>5. PICK m \in Nat : /\ m = SharedBytes(strings) /\ m <= short /\ \A i \in 1..m : same(i)
                       /\ m < short => ~ same(m + 1)
  <2>1. CASE unequal = {}
    <3>1. SharedBytes(strings) = short
      BY <1>3, <1>4, <2>1
    <3>2. \A i \in 1..short : same(i)
      BY <1>3, <2>1, Zenon
    <3> HIDE DEF same
    <3> QED BY <3>1, <3>2
  <2>2. CASE unequal # {}
    <3>1. unequal = {i \in 1..short : ~ same(i)}
      BY <1>3
    <3> HIDE DEF same
    <3>2. unequal \subseteq Nat
      BY <3>1
    <3> HIDE DEF unequal
    <3>3. \E i \in unequal : \A k \in unequal : i <= k
      BY <2>2, <3>2, LeastOne
    <3>4. PICK x \in unequal : /\ x = CHOOSE i \in unequal : \A k \in unequal : i <= k
                               /\ \A k \in unequal : x <= k
      BY <3>3, Zenon
    <3>5. SharedBytes(strings) = x - 1
      BY <1>4, <2>2, <3>4, Zenon
    <3>6. x \in 1..short /\ ~ same(x)
      BY <3>1
    <3>7. x - 1 \in Nat /\ x - 1 < short /\ (x - 1) + 1 = x
      BY <3>6
    <3>8. ASSUME NEW i \in 1..(x - 1) PROVE same(i)
      <4>1. i \in 1..short /\ i < x
        BY <3>6
      <4>2. \A k \in unequal : x <= k
        BY <3>4, Zenon
      <4>3. i \notin unequal
        BY <3>6, <4>1, <4>2
      <4> QED BY <3>1, <4>1, <4>3
    <3> QED BY <3>5, <3>6, <3>7, <3>8
  <2> QED BY <2>1, <2>2
<1>6. ASSUME NEW i \in Nat, same(i), NEW j \in 1..n PROVE strings[j][i] = strings[1][i]
  <2> DEFINE f == [h \in 1..n |-> strings[h][i]]
  <2>1. 1 \in 1..n /\ \A h \in 1..(n - 1) : h \in 1..n /\ h + 1 \in 1..n
    OBVIOUS
  <2>2. \A h \in 1..(n - 1) : f[h] = f[h + 1]
    BY <1>1, <1>6, <2>1
  <2>3. f[j] = strings[j][i] /\ f[1] = strings[1][i]
    BY <2>1
  <2> HIDE DEF f
  <2>4. f[j] = f[1]
    BY <2>2, AllSame
  <2> QED BY <2>3, <2>4
<1>7. PICK prefix : prefix = SubSeq(strings[1], 1, m)
  OBVIOUS
<1>8. strings[1] \in Seq(Octets) /\ m <= Len(strings[1])
  BY <1>2, <1>3, <1>5
<1>9. prefix \in Seq(Octets) /\ Len(prefix) = m /\ \A i \in 1..m : prefix[i] = strings[1][i]
  <2>1. PICK s \in Seq(Octets), l \in Nat : s = strings[1] /\ l = Len(s) /\ m <= l
    BY <1>8
  <2>2. /\ SubSeq(s, 1, m) \in Seq(Octets) /\ Len(SubSeq(s, 1, m)) = m
        /\ \A i \in 1..m : SubSeq(s, 1, m)[i] = s[i]
    BY <2>1
  <2> QED BY <1>7, <2>1, <2>2, Zenon
<1>10. ASSUME NEW j \in 1..n PROVE IsPrefix(prefix, strings[j])
  <2>1. PICK s \in Seq(Octets), l \in Nat : s = strings[j] /\ l = Len(s) /\ m <= l
    <3>1. Len(strings[j]) \in Nat /\ m <= Len(strings[j])
      BY <1>2, <1>3, <1>5
    <3> QED BY <3>1
  <2>2. \A i \in 1..m : s[i] = prefix[i]
    <3>1. ASSUME NEW i \in 1..m PROVE s[i] = prefix[i]
      <4>1. i \in Nat /\ same(i)
        BY <1>5
      <4> HIDE DEF same
      <4> QED BY <1>6, <1>9, <2>1, <4>1
    <3> QED BY <3>1
  <2>3. PICK t, u : t = SubSeq(s, 1, m) /\ u = SubSeq(prefix, 1, m)
    OBVIOUS
  <2>4. t \in Seq(Octets) /\ Len(t) = m /\ \A i \in 1..m : t[i] = s[i]
    BY <2>1, <2>3
  <2>5. u \in Seq(Octets) /\ Len(u) = m /\ \A i \in 1..m : u[i] = prefix[i]
    BY <1>9, <2>3
  <2>6. t = u
    BY <2>2, <2>4, <2>5, SeqEqual
  <2> QED BY <1>9, <2>1, <2>3, <2>6 DEF IsPrefix
<1>11. ASSUME \A j \in 1..n : Len(strings[j]) > m /\ strings[j][m + 1] = strings[1][m + 1]
       PROVE  FALSE
  <2>1. m < short
    BY <1>2, <1>3, <1>5, <1>11
  <2>2. ~ same(m + 1)
    BY <1>5, <2>1
  <2>3. same(m + 1)
    <3>1. \A j \in 1..(n - 1) : j \in 1..n /\ j + 1 \in 1..n
      OBVIOUS
    <3> QED BY <1>1, <1>11, <3>1
  <2> QED BY <2>2, <2>3
<1>12. Longest(prefix, strings)
  BY <1>1, <1>9, <1>10, <1>11 DEF Longest
<1> QED BY <1>5, <1>7, <1>12

\* The keys of the rows are the written ones, in order, and the values are read of writes.
Lists(key, val, n, ws) ==
  /\ n \in Nat /\ key \in [1..n -> Keys] /\ val \in [1..n -> Seq(Octets)]
  /\ \A i \in 1..n : \E w \in ws[key[i]] : ReadOf(val[i], w)
  /\ \A k \in Keys : ws[k] # {} => \E i \in 1..n : key[i] = k
  /\ \A i \in 1..(n - 1) : Less(key[i], key[i + 1])

RowsOf(key, val, n) == [i \in 1..n |-> Row(key[i], val[i])]

\* A table is written as one row for every written key.
LEMMA StoredRows ==
  ASSUME NEW map, NEW data, NEW ws, Stored(map, data, ws)
  PROVE  \E n, key, val :
           /\ n = Cardinality(map) /\ Lists(key, val, n, ws)
           /\ Rows(map) = RowsOf(key, val, n)
<1> DEFINE ValueView(r) == formatMemTableToSSTableStr(r).value_view
<1>1. \A r \in map : /\ KeyView(r) \in Keys /\ ValueView(r) \in Seq(Octets)
                     /\ \E w \in ws[KeyView(r)] : ReadOf(ValueView(r), w)
                     /\ formatMemTableToSSTableStr(r) = Row(KeyView(r), ValueView(r))
  <2>1. ASSUME NEW r \in map
        PROVE  /\ KeyView(r) \in Keys /\ ValueView(r) \in Seq(Octets)
               /\ \E w \in ws[KeyView(r)] : ReadOf(ValueView(r), w)
               /\ formatMemTableToSSTableStr(r) = Row(KeyView(r), ValueView(r))
    <3>1. PICK k \in Keys, x \in Seq(Octets) : ReadsAs(r, k, x) /\ \E w \in ws[k] : ReadOf(x, w)
      BY Zenon DEF Stored
    <3>2. KeyView(r) = k /\ formatMemTableToSSTableStr(r) = Row(k, x)
      BY <3>1, Zenon DEF ReadsAs
    <3>3. Row(k, x).value_view = x
      BY DEF Row
    <3>4. ValueView(r) = x
      BY <3>2, <3>3, Zenon
    <3>5. x \in Seq(Octets)
      BY <3>1, Zenon DEF ReadOf
    <3> HIDE DEF ValueView
    <3> QED BY <3>1, <3>2, <3>4, <3>5, Zenon
  <2> QED BY <2>1
<1> HIDE DEF ValueView
<1>2. OneEach(map)
  <2>1. KeysOf(map)
    BY <1>1, KeyBytes, Zenon DEF KeysOf
  <2> QED BY <2>1, Zenon DEF OneEach, Stored
<1>3. PICK a, n : a = InOrder(map) /\ n = Cardinality(map)
  OBVIOUS
<1>4. /\ a \in Seq(map) /\ Len(a) = n /\ Ascending(a)
      /\ \A r \in map : \E i \in 1..n : a[i] = r
  BY <1>2, <1>3, InOrderLists, Zenon
<1>5. n \in Nat /\ DOMAIN a = 1..n /\ \A i \in 1..n : a[i] \in map
  BY <1>4, ElementOfSeq, LenProperties
<1>6. PICK key, val : key = [i \in 1..n |-> KeyView(a[i])] /\ val = [i \in 1..n |-> ValueView(a[i])]
  OBVIOUS
<1>7. /\ key \in [1..n -> Keys] /\ \A i \in 1..n : key[i] = KeyView(a[i])
      /\ val \in [1..n -> Seq(Octets)] /\ \A i \in 1..n : val[i] = ValueView(a[i])
  BY <1>1, <1>5, <1>6, Zenon
<1>8. Lists(key, val, n, ws)
  <2>1. \A i \in 1..n : \E w \in ws[key[i]] : ReadOf(val[i], w)
    BY <1>1, <1>5, <1>7, Zenon
  <2>2. ASSUME NEW k \in Keys, ws[k] # {} PROVE \E i \in 1..n : key[i] = k
    <3>1. PICK r \in map : KeyView(r) = k
      BY <2>2, Zenon DEF Stored
    <3> QED BY <1>4, <1>7, <3>1, Zenon
  <2>3. ASSUME NEW i \in 1..(n - 1) PROVE Less(key[i], key[i + 1])
    <3>1. i \in 1..n /\ i + 1 \in 1..n /\ i \in 1..(Len(a) - 1)
      BY <1>4, <1>5
    <3>2. Comparator(a[i], a[i + 1])
      BY <1>4, <3>1 DEF Ascending
    <3> QED BY <1>7, <3>1, <3>2, Zenon DEF Comparator
  <2> QED BY <1>5, <1>7, <2>1, <2>2, <2>3, Zenon DEF Lists
<1>9. Rows(map) = RowsOf(key, val, n)
  <2>1. Rows(map) = [i \in 1..n |-> formatMemTableToSSTableStr(a[i])]
    BY <1>3, <1>5, Zenon DEF Rows
  <2>2. \A i \in 1..n : formatMemTableToSSTableStr(a[i]) = Row(key[i], val[i])
    BY <1>1, <1>5, <1>7, Zenon
  <2> QED BY <2>1, <2>2, Zenon DEF RowsOf
<1> QED BY <1>3, <1>8, <1>9, Zenon

\* Block compression's prefixes: Format16PrefixStr finds, for the keys and for the values of
\* every table, the longest prefix that all of them share.
THEOREM PrefixCorrect == RecordSpec => []PrefixIsLongest
<1>1. ASSUME MemInv, memMap # {}
      PROVE  LET rows == Rows(memMap)
                 result == Format16PrefixStr(rows)
             IN  /\ Longest(result.key_view, [i \in DOMAIN rows |-> rows[i].key_view])
                 /\ Longest(result.value_view, [i \in DOMAIN rows |-> rows[i].value_view])
  <2>1. PICK ws : Stored(memMap, filter, ws)
    BY <1>1, Zenon DEF MemInv
  <2>2. PICK n, key, val :
          /\ n = Cardinality(memMap) /\ Lists(key, val, n, ws)
          /\ Rows(memMap) = RowsOf(key, val, n)
    BY <2>1, StoredRows
  <2>t. n \in Nat /\ key \in [1..n -> Keys] /\ val \in [1..n -> Seq(Octets)]
    BY <2>2 DEF Lists
  <2>3. n >= 1
    <3>1. IsFiniteSet(memMap)
      BY <2>1 DEF Stored
    <3>2. n # 0
      BY <1>1, <2>2, <3>1, FS_EmptySet
    <3> QED BY <2>t, <3>2
  <2>4. PICK rows, keys, vals : /\ rows = Rows(memMap)
                                /\ keys = [i \in 1..n |-> key[i]]
                                /\ vals = [i \in 1..n |-> val[i]]
    OBVIOUS
  <2>5. \A i \in 1..n : rows[i].key_view = key[i] /\ rows[i].value_view = val[i]
    <3>1. ASSUME NEW i \in 1..n
          PROVE  rows[i].key_view = key[i] /\ rows[i].value_view = val[i]
      <4>1. PICK k, v : k = key[i] /\ v = val[i]
        OBVIOUS
      <4>2. rows[i] = Row(k, v)
        BY <2>2, <2>4, <4>1, Zenon DEF RowsOf
      <4>3. rows[i].key_view = k /\ rows[i].value_view = v
        BY <4>2 DEF Row
      <4> QED BY <4>1, <4>3, Zenon
    <3> QED BY <3>1
  <2>6. DOMAIN rows = 1..n
    BY <2>2, <2>4, Zenon DEF RowsOf
  <2>7. /\ keys = [i \in DOMAIN rows |-> rows[i].key_view]
        /\ vals = [i \in DOMAIN rows |-> rows[i].value_view]
    BY <2>4, <2>5, <2>6, Zenon
  <2>8. keys \in [1..n -> Seq(Octets)]
    <3>1. \A i \in 1..n : key[i] \in Seq(Octets)
      BY <2>t, KeyBytes
    <3> QED BY <2>4, <3>1, Zenon
  <2>9. vals \in [1..n -> Seq(Octets)]
    <3>1. \A i \in 1..n : val[i] \in Seq(Octets)
      BY <2>t, Zenon
    <3> QED BY <2>4, <3>1, Zenon
  <2>10. /\ Longest(SubSeq(keys[1], 1, SharedBytes(keys)), keys)
         /\ Longest(SubSeq(vals[1], 1, SharedBytes(vals)), vals)
    BY <2>t, <2>3, <2>8, <2>9, SharedIsLongest
  <2>11. PICK x, y : /\ x = SubSeq(keys[1], 1, SharedBytes(keys))
                     /\ y = SubSeq(vals[1], 1, SharedBytes(vals))
    OBVIOUS
  <2>12. PICK result : result = Format16PrefixStr(rows)
    OBVIOUS
  <2>13. result = [key_view |-> x, value_view |-> y]
    BY <2>7, <2>11, <2>12, Zenon DEF Format16PrefixStr
  <2>14. result.key_view = x /\ result.value_view = y
    BY <2>13
  <2> QED BY <2>4, <2>7, <2>10, <2>11, <2>12, <2>14, Zenon
<1>2. ASSUME MemInv PROVE PrefixIsLongest
  BY <1>1, <1>2, Zenon DEF PrefixIsLongest, Longest
<1>3. RecordSpec => []MemInv
  BY MemInvHolds
<1> QED BY <1>2, <1>3, PTL

-----------------------------------------------------------------------------
(* The meta data of a file.                                                *)

\* What s holds, t holds.
Keeps(s, t) == \A q \in Nat, x \in Seq(Octets) : Holds(s, q, x) => Holds(t, q, x)

\* One more field behind a text.
LEMMA OneMore ==
  ASSUME NEW s \in Seq(Octets), NEW n \in Nat, Len(s) = n, NEW b \in Seq(Octets), NEW l \in Nat,
         Len(b) = l
  PROVE  \E r \in Seq(Octets) : r = s \o b /\ Len(r) = n + l /\ Holds(r, n, b) /\ Keeps(s, r)
<1>1. /\ s \o b \in Seq(Octets) /\ Len(s \o b) = Len(s) + Len(b) /\ Holds(s \o b, Len(s), b)
      /\ \A q \in Nat, x \in Seq(Octets) : Holds(s, q, x) => Holds(s \o b, q, x)
  BY HoldsConcat
<1> QED BY <1>1, Zenon DEF Keeps

\* A field of 32 bits.
LEMMA Field32 ==
  ASSUME NEW v \in Nat, Fits32(v)
  PROVE  \E b \in Seq(Octets), w \in 1..5 :
           b = encodeVarint32(v) /\ w = varintLength[v] /\ Len(b) = w
<1>1. PICK w \in 1..5 : w = varintLength[v]
  BY Widths32, SMT
<1>2. VarintBytes(encodeVarint32(v), w)
  BY <1>1, Encode32, Zenon
<1> QED BY <1>1, <1>2, Zenon DEF VarintBytes

\* A field of 64 bits that format64_vec has a blank for.
LEMMA Field64 ==
  ASSUME NEW v \in Nat, varintLength[v] <= 9
  PROVE  \E b \in Seq(Octets), w \in 1..9 :
           b = encodeVarint64(v) /\ w = varintLength[v] /\ Len(b) = w /\ VarintBytes(b, w)
<1>1. PICK w \in 1..9 : w = varintLength[v]
  <2>1. /\ varintLength[v] = IF v < 128 THEN 1 ELSE 1 + varintLength[v \div 128]
        /\ varintLength[v] \in Nat /\ varintLength[v \div 128] \in Nat
    BY WidthFacts, Shift7
  <2> QED BY <2>1
<1>2. VarintBytes(encodeVarint64(v), w)
  BY <1>1, Encode64, Zenon
<1> QED BY <1>1, <1>2, Zenon DEF VarintBytes

\* m has the number v as a varint from p to e.
Has32(m, p, v, e) ==
  /\ v \in Nat /\ Fits32(v) /\ m \in Seq(Octets) /\ p \in Nat
  /\ Holds(m, p, encodeVarint32(v)) /\ e = p + varintLength[v]

Has64(m, p, v, e) ==
  /\ v \in Nat /\ varintLength[v] <= 9 /\ m \in Seq(Octets) /\ p \in Nat
  /\ Holds(m, p, encodeVarint64(v)) /\ e = p + varintLength[v]

\* A field of 32 bits is read where it stands.
LEMMA Read32 ==
  ASSUME NEW m, NEW p, NEW v, NEW e, Has32(m, p, v, e)
  PROVE  /\ getVarint32Ptr(m, p, p + 5) = [end |-> e, value |-> v]
         /\ varintLength[v] <= 4 => getVarint32Ptr(m, p, p + 4) = [end |-> e, value |-> v]
<1>h. /\ v \in Nat /\ Fits32(v) /\ m \in Seq(Octets) /\ p \in Nat
      /\ Holds(m, p, encodeVarint32(v)) /\ e = p + varintLength[v]
  BY DEF Has32
<1>1. \A limit \in Nat : p + 5 <= limit \/ p + varintLength[v] <= limit =>
        getVarint32Ptr(m, p, limit) = [end |-> e, value |-> v]
  BY <1>h, Decode32
<1>3. getVarint32Ptr(m, p, p + 5) = [end |-> e, value |-> v]
  <2>1. p + 5 \in Nat /\ p + 5 <= p + 5
    BY <1>h
  <2> QED BY <1>1, <2>1, Zenon
<1>4. ASSUME varintLength[v] <= 4
      PROVE  getVarint32Ptr(m, p, p + 4) = [end |-> e, value |-> v]
  <2>1. varintLength[v] \in Nat
    BY <1>h, WidthFacts
  <2>2. p + 4 \in Nat /\ p + varintLength[v] <= p + 4
    BY <1>h, <1>4, <2>1
  <2> QED BY <1>1, <2>2, Zenon
<1> QED BY <1>3, <1>4, Zenon

\* And one of 64 bits.
LEMMA Read64 ==
  ASSUME NEW m, NEW p, NEW v, NEW e, Has64(m, p, v, e)
  PROVE  getVarint64Ptr(m, p, p + 9).end = e /\ getVarint64Ptr(m, p, Len(m)).end = e
<1>h. /\ v \in Nat /\ varintLength[v] <= 9 /\ m \in Seq(Octets) /\ p \in Nat
      /\ Holds(m, p, encodeVarint64(v)) /\ e = p + varintLength[v]
  BY DEF Has64
<1>1. PICK b \in Seq(Octets), w \in 1..9 :
        b = encodeVarint64(v) /\ w = varintLength[v] /\ Len(b) = w /\ VarintBytes(b, w)
  BY <1>h, Field64, Zenon
<1>2. Holds(m, p, b) /\ e = p + w
  BY <1>1, <1>h, Zenon
<1>3. p + w <= Len(m) /\ Len(m) \in Nat
  BY <1>1, <1>h, <1>2 DEF Holds
<1>4. p + w <= p + 9 /\ p + 9 \in Nat
  BY <1>h
<1>5. ASSUME NEW limit \in Nat, p + w <= limit PROVE getVarint64Ptr(m, p, limit).end = p + w
  <2>1. m \in Seq(Octets) /\ p \in Nat /\ VarintBytes(b, w) /\ Holds(m, p, b)
    BY <1>1, <1>2, <1>h
  <2> QED BY <1>5, <2>1, End64
<1> QED BY <1>2, <1>3, <1>4, <1>5, Zenon

\* The fields in front of the filter, each where the one before it ends.
FieldsAt(m, lev, z, p) ==
  /\ m \in Seq(Octets) /\ p \in [0..7 -> Nat] /\ p[0] = 0
  /\ Has32(m, p[0], Version, p[1]) /\ Has64(m, p[1], CreateTime, p[2])
  /\ Has32(m, p[2], lev, p[3]) /\ Has32(m, p[3], 0, p[4]) /\ Has32(m, p[4], 1, p[5])
  /\ Has64(m, p[5], Seed, p[6]) /\ Has32(m, p[6], z, p[7])

\* They are read as they were written.
LEMMA FieldsRead ==
  ASSUME NEW m, NEW lev, NEW z, NEW p, FieldsAt(m, lev, z, p), varintLength[z] <= 4
  PROVE  FileHeader(m) = [end |-> p[7] + z, filter |-> View(m, p[7], z), level |-> lev]
<1> DEFINE ver == getVarint32Ptr(m, 0, 5)
           created == Behind64(m, ver, 9)
           level0 == Behind32(m, created, 5)
           num == Behind32(m, level0, 5)
           keys == Behind32(m, num, 5)
<1>m. MetaFields(m) = [level |-> level0.value, keys |-> keys.value, end |-> keys.end]
  BY Zenon DEF MetaFields
<1> HIDE DEF ver, created, level0, num, keys
<1>n. MetaFields(m).level = level0.value /\ MetaFields(m).end = keys.end
  BY <1>m
<1> DEFINE seed == getVarint64Ptr(m, keys.end, Len(m))
           size == Behind32(m, seed, 4)
<1>r. FileHeader(m) =
        [end |-> size.end + size.value, filter |-> View(m, size.end, size.value),
         level |-> level0.value]
  BY <1>n, Zenon DEF FileHeader
<1> HIDE DEF seed, size
<1>f. /\ Has32(m, p[0], Version, p[1]) /\ Has64(m, p[1], CreateTime, p[2])
      /\ Has32(m, p[2], lev, p[3]) /\ Has32(m, p[3], 0, p[4]) /\ Has32(m, p[4], 1, p[5])
      /\ Has64(m, p[5], Seed, p[6]) /\ Has32(m, p[6], z, p[7])
      /\ p[0] = 0 /\ 0 + 5 = 5
  BY DEF FieldsAt
<1>1. ver.end = p[1]
  <2>1. getVarint32Ptr(m, p[0], p[0] + 5) = [end |-> p[1], value |-> Version]
    BY <1>f, Read32, Zenon
  <2>2. ver = [end |-> p[1], value |-> Version]
    BY <1>f, <2>1, Zenon DEF ver
  <2> QED BY <2>2
<1>2. created.end = p[2]
  <2>1. getVarint64Ptr(m, p[1], p[1] + 9).end = p[2]
    BY <1>f, Read64, Zenon
  <2> QED BY <1>1, <2>1, Zenon DEF created, Behind64
<1>3. level0.end = p[3] /\ level0.value = lev
  <2>1. getVarint32Ptr(m, p[2], p[2] + 5) = [end |-> p[3], value |-> lev]
    BY <1>f, Read32, Zenon
  <2>2. level0 = [end |-> p[3], value |-> lev]
    BY <1>2, <2>1, Zenon DEF level0, Behind32
  <2> QED BY <2>2
<1>4. num.end = p[4]
  <2>1. getVarint32Ptr(m, p[3], p[3] + 5) = [end |-> p[4], value |-> 0]
    BY <1>f, Read32, Zenon
  <2>2. num = [end |-> p[4], value |-> 0]
    BY <1>3, <2>1, Zenon DEF num, Behind32
  <2> QED BY <2>2
<1>5. keys.end = p[5]
  <2>1. getVarint32Ptr(m, p[4], p[4] + 5) = [end |-> p[5], value |-> 1]
    BY <1>f, Read32, Zenon
  <2>2. keys = [end |-> p[5], value |-> 1]
    BY <1>4, <2>1, Zenon DEF keys, Behind32
  <2> QED BY <2>2
<1>6. seed.end = p[6]
  <2>1. getVarint64Ptr(m, p[5], Len(m)).end = p[6]
    BY <1>f, Read64, Zenon
  <2> QED BY <1>5, <2>1, Zenon DEF seed
<1>7. size.end = p[7] /\ size.value = z
  <2>1. getVarint32Ptr(m, p[6], p[6] + 4) = [end |-> p[7], value |-> z]
    BY <1>f, Read32, Zenon
  <2>2. size = [end |-> p[7], value |-> z]
    BY <1>6, <2>1, Zenon DEF size, Behind32
  <2> QED BY <2>2
<1> QED BY <1>r, <1>3, <1>7, Zenon

\* m is a header and rows, and the header is read as this level and filter.
MetaRead(m, head, lev, data, rows) ==
  /\ head \in Seq(Octets) /\ m \in Seq(Octets) /\ m = head \o rows
  /\ Len(m) = Len(head) + Len(rows) /\ Holds(m, Len(head), rows)
  /\ LET h == FileHeader(m) IN h.end = Len(head) /\ h.filter = data /\ h.level = lev

\* The meta data of a table with fewer than 128 rows is read as it was written.
LEMMA HeaderRead ==
  ASSUME NEW lev \in Nat, Fits32(lev), NEW count \in Nat, count < 128,
         NEW data \in FilterBytes, NEW rows \in Seq(Octets)
  PROVE  \E m : MetaRead(m, HeaderBytes(lev, count, data), lev, data, rows)
<1>0. /\ Version \in Nat /\ Fits32(Version) /\ CreateTime \in Nat /\ varintLength[CreateTime] <= 9
      /\ Seed \in Nat /\ varintLength[Seed] <= 9
  BY FormatAssumption
<1>1. PICK b1 \in Seq(Octets), w1 \in 1..5 :
        b1 = encodeVarint32(Version) /\ w1 = varintLength[Version] /\ Len(b1) = w1
  BY <1>0, Field32, Zenon
<1>2. PICK b2 \in Seq(Octets), w2 \in 1..9 :
        /\ b2 = encodeVarint64(CreateTime) /\ w2 = varintLength[CreateTime] /\ Len(b2) = w2
        /\ VarintBytes(b2, w2)
  BY <1>0, Field64, Zenon
<1>3. PICK b3 \in Seq(Octets), w3 \in 1..5 :
        b3 = encodeVarint32(lev) /\ w3 = varintLength[lev] /\ Len(b3) = w3
  BY Field32, Zenon
<1>f. Fits32(0) /\ Fits32(1)
  BY SMT DEF Fits32
<1>4. PICK b4 \in Seq(Octets), w4 \in 1..5 :
        b4 = encodeVarint32(0) /\ w4 = varintLength[0] /\ Len(b4) = w4
  <2>1. 0 \in Nat
    OBVIOUS
  <2> QED BY <1>f, <2>1, Field32, Zenon
<1>5. PICK b5 \in Seq(Octets), w5 \in 1..5 :
        b5 = encodeVarint32(1) /\ w5 = varintLength[1] /\ Len(b5) = w5
  <2>1. 1 \in Nat
    OBVIOUS
  <2> QED BY <1>f, <2>1, Field32, Zenon
<1>6. PICK b6 \in Seq(Octets), w6 \in 1..9 :
        /\ b6 = encodeVarint64(Seed) /\ w6 = varintLength[Seed] /\ Len(b6) = w6
        /\ VarintBytes(b6, w6)
  BY <1>0, Field64, Zenon
<1>d. PICK z \in Nat : z = FilterBits \div 8 /\ data \in Seq(Octets) /\ Len(data) = z
  <2>1. FilterBits \div 8 \in Nat
    BY FilterAssumption
  <2> QED BY <2>1, FunctionIsSeq DEF FilterBytes
<1>y. z < 268435456
  BY <1>d, FormatAssumption
<1>z. Fits32(z)
  BY <1>y, SMT DEF Fits32
<1>7. PICK b7 \in Seq(Octets), w7 \in 1..4 :
        b7 = encodeVarint32(z) /\ w7 = varintLength[z] /\ Len(b7) = w7
  <2>1. PICK b \in Seq(Octets), w \in 1..5 :
          b = encodeVarint32(z) /\ w = varintLength[z] /\ Len(b) = w
    BY <1>z, Field32, Zenon
  <2>2. w \in 1..4
    BY <1>y, <1>z, <2>1, Widths32, SMT
  <2> QED BY <2>1, <2>2, Zenon
<1>8. PICK b8 \in Seq(Octets) : b8 = Spaces(varintLength[count] - 1) /\ Len(b8) = 0
                                /\ varintLength[count] = 1
  <2>1. varintLength[count] = 1
    BY WidthFacts
  <2>2. varintLength[count] - 1 = 0
    BY <2>1
  <2> QED BY <2>1, <2>2, Blanks
<1>11. PICK s2 \in Seq(Octets), p2 \in Nat :
         /\ s2 = b1 \o b2 /\ p2 = w1 + w2 /\ Len(s2) = p2 /\ Holds(s2, w1, b2) /\ Keeps(b1, s2)
  <2>1. w1 \in Nat /\ w2 \in Nat /\ w1 + w2 \in Nat
    OBVIOUS
  <2>2. Len(b1) = w1 /\ Len(b2) = w2
    BY <1>1, <1>2
  <2>3. PICK r \in Seq(Octets) : /\ r = b1 \o b2 /\ Len(r) = w1 + w2 /\ Holds(r, w1, b2)
                                 /\ Keeps(b1, r)
    BY <2>1, <2>2, OneMore
  <2> QED BY <2>1, <2>3, Zenon
<1>12. PICK s3 \in Seq(Octets), p3 \in Nat :
         /\ s3 = s2 \o b3 /\ p3 = p2 + w3 /\ Len(s3) = p3 /\ Holds(s3, p2, b3) /\ Keeps(s2, s3)
  <2>1. w3 \in Nat /\ p2 + w3 \in Nat
    OBVIOUS
  <2> QED BY <1>3, <1>11, <2>1, OneMore, ZenonT(60)
<1>13. PICK s4 \in Seq(Octets), p4 \in Nat :
         /\ s4 = s3 \o b4 /\ p4 = p3 + w4 /\ Len(s4) = p4 /\ Holds(s4, p3, b4) /\ Keeps(s3, s4)
  <2>1. w4 \in Nat /\ p3 + w4 \in Nat
    OBVIOUS
  <2> QED BY <1>4, <1>12, <2>1, OneMore, ZenonT(60)
<1>14. PICK s5 \in Seq(Octets), p5 \in Nat :
         /\ s5 = s4 \o b5 /\ p5 = p4 + w5 /\ Len(s5) = p5 /\ Holds(s5, p4, b5) /\ Keeps(s4, s5)
  <2>1. w5 \in Nat /\ p4 + w5 \in Nat
    OBVIOUS
  <2> QED BY <1>5, <1>13, <2>1, OneMore, ZenonT(60)
<1>15. PICK s6 \in Seq(Octets), p6 \in Nat :
         /\ s6 = s5 \o b6 /\ p6 = p5 + w6 /\ Len(s6) = p6 /\ Holds(s6, p5, b6) /\ Keeps(s5, s6)
  <2>1. w6 \in Nat /\ p5 + w6 \in Nat
    OBVIOUS
  <2> QED BY <1>6, <1>14, <2>1, OneMore, ZenonT(60)
<1>16. PICK s7 \in Seq(Octets), p7 \in Nat :
         /\ s7 = s6 \o b7 /\ p7 = p6 + w7 /\ Len(s7) = p7 /\ Holds(s7, p6, b7) /\ Keeps(s6, s7)
  <2>1. w7 \in Nat /\ p6 + w7 \in Nat
    OBVIOUS
  <2> QED BY <1>7, <1>15, <2>1, OneMore, ZenonT(60)
<1>17. PICK s8 \in Seq(Octets) : s8 = s7 \o b8 /\ Len(s8) = p7 /\ Keeps(s7, s8)
  <2>1. 0 \in Nat /\ p7 + 0 = p7
    OBVIOUS
  <2>2. PICK r \in Seq(Octets) : r = s7 \o b8 /\ Len(r) = p7 + 0 /\ Keeps(s7, r)
    <3>1. Len(s7) = p7 /\ Len(b8) = 0
      BY <1>8, <1>16
    <3>2. \E r \in Seq(Octets) : r = s7 \o b8 /\ Len(r) = p7 + 0 /\ Holds(r, p7, b8) /\ Keeps(s7, r)
      BY <2>1, <3>1, OneMore
    <3> QED BY <3>2
  <2> QED BY <2>1, <2>2, Zenon
<1>18. PICK s9 \in Seq(Octets), p9 \in Nat :
         /\ s9 = s8 \o data /\ p9 = p7 + z /\ Len(s9) = p9 /\ Holds(s9, p7, data) /\ Keeps(s8, s9)
  <2>1. p7 + z \in Nat
    OBVIOUS
  <2> QED BY <1>d, <1>17, <2>1, OneMore, ZenonT(60)
<1>19. PICK m \in Seq(Octets) : /\ m = s9 \o rows /\ Len(m) = p9 + Len(rows) /\ Holds(m, p9, rows)
                                /\ Keeps(s9, m)
  <2>1. Len(rows) \in Nat
    OBVIOUS
  <2> QED BY <1>18, <2>1, OneMore, ZenonT(60)
<1>20. HeaderBytes(lev, count, data) = s9
  BY <1>1, <1>2, <1>3, <1>4, <1>5, <1>6, <1>d, <1>7, <1>8, <1>11, <1>12, <1>13, <1>14, <1>15,
     <1>16, <1>17, <1>18, Zenon DEF HeaderBytes
<1>21. /\ Holds(m, 0, b1) /\ Holds(m, w1, b2) /\ Holds(m, p2, b3) /\ Holds(m, p3, b4)
       /\ Holds(m, p4, b5) /\ Holds(m, p5, b6) /\ Holds(m, p6, b7) /\ Holds(m, p7, data)
  <2>1. 0 \in Nat /\ w1 \in Nat /\ Holds(b1, 0, b1)
    <3>1. PICK l \in Nat : l = Len(b1)
      OBVIOUS
    <3>2. 0 + l <= l /\ \A i \in 1..l : 0 + i = i
      OBVIOUS
    <3>3. Holds(b1, 0, b1)
      BY <3>1, <3>2, Zenon DEF Holds
    <3> QED BY <3>3
  <2>9. Keeps(s9, m)
    BY <1>19
  <2>8. Keeps(s8, m)
    BY <1>18, <2>9, Zenon DEF Keeps
  <2>7. Keeps(s7, m)
    BY <1>17, <2>8, Zenon DEF Keeps
  <2>6. Keeps(s6, m)
    BY <1>16, <2>7, Zenon DEF Keeps
  <2>5. Keeps(s5, m)
    BY <1>15, <2>6, Zenon DEF Keeps
  <2>4. Keeps(s4, m)
    BY <1>14, <2>5, Zenon DEF Keeps
  <2>3. Keeps(s3, m)
    BY <1>13, <2>4, Zenon DEF Keeps
  <2>2. Keeps(s2, m)
    BY <1>12, <2>3, Zenon DEF Keeps
  <2>10. Keeps(b1, m)
    BY <1>11, <2>2, Zenon DEF Keeps
  <2>11. Holds(m, 0, b1)
    BY <2>1, <2>10, Zenon DEF Keeps
  <2>12. Holds(m, w1, b2)
    BY <1>11, <2>1, <2>2, Zenon DEF Keeps
  <2>13. Holds(m, p2, b3)
    BY <1>12, <2>3, Zenon DEF Keeps
  <2>14. Holds(m, p3, b4)
    BY <1>13, <2>4, Zenon DEF Keeps
  <2>15. Holds(m, p4, b5)
    BY <1>14, <2>5, Zenon DEF Keeps
  <2>16. Holds(m, p5, b6)
    BY <1>15, <2>6, Zenon DEF Keeps
  <2>17. Holds(m, p6, b7)
    BY <1>16, <2>7, Zenon DEF Keeps
  <2>18. Holds(m, p7, data)
    BY <1>d, <1>18, <2>9, Zenon DEF Keeps
  <2> QED BY <2>11, <2>12, <2>13, <2>14, <2>15, <2>16, <2>17, <2>18
<1>22. View(m, p7, z) = data
  <2>1. View(m, p7, Len(data)) = data
    BY <1>d, <1>21, ViewHolds, Zenon
  <2> QED BY <1>d, <2>1, Zenon
<1>23. PICK p \in [0..7 -> Nat] : /\ p[0] = 0 /\ p[1] = w1 /\ p[2] = p2 /\ p[3] = p3 /\ p[4] = p4
                                  /\ p[5] = p5 /\ p[6] = p6 /\ p[7] = p7
  <2> DEFINE f == [i \in 0..7 |-> IF i = 0 THEN 0 ELSE IF i = 1 THEN w1 ELSE IF i = 2 THEN p2
                     ELSE IF i = 3 THEN p3 ELSE IF i = 4 THEN p4 ELSE IF i = 5 THEN p5
                     ELSE IF i = 6 THEN p6 ELSE p7]
  <2>1. /\ f[0] = 0 /\ f[1] = w1 /\ f[2] = p2 /\ f[3] = p3 /\ f[4] = p4
        /\ f[5] = p5 /\ f[6] = p6 /\ f[7] = p7
    OBVIOUS
  <2>2. f \in [0..7 -> Nat]
    OBVIOUS
  <2> HIDE DEF f
  <2> QED BY <2>1, <2>2, Zenon
<1>24. FieldsAt(m, lev, z, p)
  <2>0. 0 \in Nat /\ 1 \in Nat /\ w1 \in Nat
    OBVIOUS
  <2>1. 0 + w1 = w1
    OBVIOUS
  <2>2. Has32(m, p[0], Version, p[1])
    BY <1>0, <1>1, <1>21, <1>23, <2>0, <2>1, Zenon DEF Has32
  <2>3. Has64(m, p[1], CreateTime, p[2])
    BY <1>0, <1>2, <1>11, <1>21, <1>23, <2>0, Zenon DEF Has64
  <2>4. Has32(m, p[2], lev, p[3])
    BY <1>3, <1>12, <1>21, <1>23, Zenon DEF Has32
  <2>5. Has32(m, p[3], 0, p[4])
    BY <1>f, <1>4, <1>13, <1>21, <1>23, <2>0, Zenon DEF Has32
  <2>6. Has32(m, p[4], 1, p[5])
    BY <1>f, <1>5, <1>14, <1>21, <1>23, <2>0, Zenon DEF Has32
  <2>7. Has64(m, p[5], Seed, p[6])
    BY <1>0, <1>6, <1>15, <1>21, <1>23, Zenon DEF Has64
  <2>8. Has32(m, p[6], z, p[7])
    BY <1>z, <1>7, <1>16, <1>21, <1>23, Zenon DEF Has32
  <2> QED BY <1>23, <2>2, <2>3, <2>4, <2>5, <2>6, <2>7, <2>8, Zenon DEF FieldsAt
<1>25. varintLength[z] <= 4
  <2>1. w7 <= 4
    OBVIOUS
  <2> QED BY <1>7, <2>1, Zenon
<1>26. FileHeader(m) = [end |-> p[7] + z, filter |-> View(m, p[7], z), level |-> lev]
  BY <1>24, <1>25, FieldsRead, Zenon
<1>31. FileHeader(m) = [end |-> p9, filter |-> data, level |-> lev]
  BY <1>18, <1>22, <1>23, <1>26, Zenon
<1>32. PICK h : h = FileHeader(m)
  OBVIOUS
<1>33. h.end = p9 /\ h.filter = data /\ h.level = lev
  BY <1>31, <1>32
<1>34. HeaderBytes(lev, count, data) = s9 /\ Len(s9) = p9
  BY <1>18, <1>20, Zenon
<1>35. MetaRead(m, s9, lev, data, rows)
  BY <1>19, <1>32, <1>33, <1>34, Zenon DEF MetaRead
<1> QED BY <1>34, <1>35, Zenon

-----------------------------------------------------------------------------
(* The function that ViewRows defines.                                     *)

Offsets(m) == 0..(Len(m) - 1)

\* The row that Init's loop cuts out at q, and where it goes on.
SizeAt(m, q) == getVarint32Ptr(m, q, q + 5)
ValueAt(m, q) == LET k == SizeAt(m, q) IN getVarint32Ptr(m, k.end + k.value, k.end + k.value + 5)
RowAt(m, q) ==
  IF ValueAt(m, q).end = Null THEN View(m, SizeAt(m, q).end, SizeAt(m, q).value)
  ELSE View(m, q, ValueAt(m, q).end + ValueAt(m, q).value - q)
NextAt(m, q) ==
  IF ValueAt(m, q).end = Null THEN SizeAt(m, q).end ELSE ValueAt(m, q).end + ValueAt(m, q).value

CutAt(f, m, q) ==
  <<RowAt(m, q)>>
  \o (IF NextAt(m, q) > q /\ NextAt(m, q) \in Offsets(m) THEN f[NextAt(m, q)] ELSE <<>>)
SolvesCut(f, m) == f = [q \in Offsets(m) |-> CutAt(f, m, q)]
Cuts(m) == CHOOSE f : SolvesCut(f, m)

\* ViewRows is this recursive function.
LEMMA ViewRowsIsCuts ==
  ASSUME NEW m, NEW p PROVE ViewRows(m, p) = IF p \in Offsets(m) THEN Cuts(m)[p] ELSE <<>>
BY DEF ViewRows, Cuts, SolvesCut, CutAt, RowAt, NextAt, SizeAt, ValueAt, Offsets

\* A row depends on those behind it.
LEMMA CutLocal ==
  ASSUME NEW m, NEW q \in Offsets(m), NEW f, NEW g, \A r \in Offsets(m) : r > q => f[r] = g[r]
  PROVE  CutAt(f, m, q) = CutAt(g, m, q)
BY Zenon DEF CutAt

\* f is right in the last d places.
CutsLast(f, m, d) == \A q \in Offsets(m) : Len(m) - q <= d => f[q] = CutAt(f, m, q)

\* One place more.
LEMMA CutExtends ==
  ASSUME NEW m \in Seq(Octets), NEW d \in Nat, d = 0 \/ \E f : CutsLast(f, m, d - 1)
  PROVE  \E g : CutsLast(g, m, d)
<1>1. PICK f : d = 0 \/ CutsLast(f, m, d - 1)
  OBVIOUS
<1>l. PICK l \in Nat : l = Len(m)
  OBVIOUS
<1>q. ASSUME NEW q \in Offsets(m) PROVE q \in 0..(l - 1)
  BY <1>l DEF Offsets
<1> DEFINE g == [q \in Offsets(m) |-> IF l - q = d THEN CutAt(f, m, q) ELSE f[q]]
<1>2. ASSUME NEW q \in Offsets(m), l - q <= d PROVE g[q] = CutAt(g, m, q)
  <2>1. \A r \in Offsets(m) : l - r # d => f[r] = g[r]
    OBVIOUS
  <2>2. g[q] = IF l - q = d THEN CutAt(f, m, q) ELSE f[q]
    OBVIOUS
  <2> HIDE DEF g
  <2>3. ASSUME NEW r \in Offsets(m), r > q PROVE f[r] = g[r]
    <3>1. l - r # d
      BY <1>2, <1>q, <2>3
    <3> QED BY <2>1, <3>1
  <2>4. CutAt(f, m, q) = CutAt(g, m, q)
    BY <2>3, CutLocal
  <2>5. CASE l - q = d
    BY <2>2, <2>4, <2>5
  <2>6. CASE l - q # d
    <3>1. d # 0 /\ l - q <= d - 1
      BY <1>2, <1>q, <2>6
    <3>2. f[q] = CutAt(f, m, q)
      BY <1>1, <1>l, <3>1 DEF CutsLast
    <3> QED BY <2>2, <2>4, <2>6, <3>2
  <2> QED BY <2>5, <2>6
<1> HIDE DEF g
<1>3. CutsLast(g, m, d)
  BY <1>2, <1>l DEF CutsLast
<1> QED BY <1>3

\* The recursion of ViewRows has a solution.
LEMMA CutsSolve ==
  ASSUME NEW m \in Seq(Octets) PROVE SolvesCut(Cuts(m), m)
<1> DEFINE Bad == {d \in Nat : ~ \E f : CutsLast(f, m, d)}
<1>1. ASSUME Bad # {} PROVE FALSE
  <2>1. Bad \subseteq Nat
    OBVIOUS
  <2> HIDE DEF Bad
  <2>2. PICK d \in Bad : \A e \in Bad : d <= e
    BY <1>1, <2>1, LeastOne
  <2>3. d \in Nat /\ ~ \E f : CutsLast(f, m, d)
    BY DEF Bad
  <2>4. d # 0 => \E f : CutsLast(f, m, d - 1)
    <3> SUFFICES ASSUME d # 0 PROVE \E f : CutsLast(f, m, d - 1)
      OBVIOUS
    <3>1. PICK e \in Nat : e = d - 1 /\ e \notin Bad
      <4>1. d - 1 \in Nat /\ ~ (d <= d - 1)
        BY <2>3
      <4> QED BY <2>2, <4>1
    <3>2. \E f : CutsLast(f, m, e)
      BY <3>1 DEF Bad
    <3> QED BY <3>1, <3>2, Zenon
  <2>5. \E g : CutsLast(g, m, d)
    BY <2>3, <2>4, CutExtends
  <2> QED BY <2>3, <2>5
<1>2. PICK d \in Nat : d = Len(m)
  OBVIOUS
<1>3. PICK f : CutsLast(f, m, d)
  BY <1>1
<1>4. ASSUME NEW q \in Offsets(m) PROVE f[q] = CutAt(f, m, q)
  <2>1. Len(m) - q <= d
    BY <1>2 DEF Offsets
  <2> QED BY <1>3, <2>1 DEF CutsLast
<1> DEFINE h == [q \in Offsets(m) |-> f[q]]
<1>5. \A q \in Offsets(m) : h[q] = f[q]
  OBVIOUS
<1>6. h = [q \in Offsets(m) |-> h[q]]
  OBVIOUS
<1> HIDE DEF h
<1>7. ASSUME NEW q \in Offsets(m) PROVE h[q] = CutAt(h, m, q)
  <2>1. CutAt(f, m, q) = CutAt(h, m, q)
    BY <1>5, CutLocal
  <2> QED BY <1>4, <1>5, <2>1
<1>8. [q \in Offsets(m) |-> h[q]] = [q \in Offsets(m) |-> CutAt(h, m, q)]
  BY <1>7, Zenon
<1>9. SolvesCut(h, m)
  BY <1>6, <1>8, Zenon DEF SolvesCut
<1> QED BY <1>9, Zenon DEF Cuts

\* What ViewRows gives from q on.
LEMMA ViewRowsAt ==
  ASSUME NEW m \in Seq(Octets), NEW q \in Nat
  PROVE  /\ q >= Len(m) => ViewRows(m, q) = <<>>
         /\ q < Len(m) /\ NextAt(m, q) \in Nat /\ NextAt(m, q) > q =>
              ViewRows(m, q) = <<RowAt(m, q)>> \o ViewRows(m, NextAt(m, q))
<1>1. PICK l \in Nat : l = Len(m)
  OBVIOUS
<1>2. \A r \in Nat : r \in Offsets(m) <=> r < l
  BY <1>1 DEF Offsets
<1>3. ASSUME q >= l PROVE ViewRows(m, q) = <<>>
  <2>1. q \notin Offsets(m)
    BY <1>2, <1>3
  <2> QED BY <2>1, ViewRowsIsCuts, Zenon
<1>4. ASSUME q < l, NextAt(m, q) \in Nat, NextAt(m, q) > q
      PROVE  ViewRows(m, q) = <<RowAt(m, q)>> \o ViewRows(m, NextAt(m, q))
  <2>1. q \in Offsets(m)
    BY <1>2, <1>4
  <2>2. PICK f : f = Cuts(m) /\ SolvesCut(f, m)
    BY CutsSolve
  <2>3. ViewRows(m, q) = CutAt(f, m, q)
    <3>1. f[q] = CutAt(f, m, q)
      BY <2>1, <2>2, Zenon DEF SolvesCut
    <3> QED BY <2>1, <2>2, <3>1, ViewRowsIsCuts, Zenon
  <2>4. ViewRows(m, NextAt(m, q)) = IF NextAt(m, q) \in Offsets(m) THEN f[NextAt(m, q)] ELSE <<>>
    BY <2>2, ViewRowsIsCuts, Zenon
  <2> QED BY <1>4, <2>3, <2>4, Zenon DEF CutAt
<1> QED BY <1>1, <1>3, <1>4, Zenon

-----------------------------------------------------------------------------
(* One row of a file.                                                      *)

\* m has a row of key k and value v from q to e.
RowIn(m, q, k, v, e) ==
  \E a \in Nat, b \in Nat, c \in Nat :
    /\ Has32(m, q, Len(k), a) /\ Holds(m, a, k) /\ b = a + Len(k)
    /\ Has32(m, b, Len(v), c) /\ Holds(m, c, v) /\ e = c + Len(v)

\* What a part of a text holds, the text holds.
LEMMA HoldsWithin ==
  ASSUME NEW m \in Seq(Octets), NEW q \in Nat, NEW s \in Seq(Octets), Holds(m, q, s),
         NEW p \in Nat, NEW x \in Seq(Octets), Holds(s, p, x)
  PROVE  Holds(m, q + p, x)
<1>1. PICK l \in Nat, n \in Nat, h \in Nat : l = Len(m) /\ n = Len(s) /\ h = Len(x)
  OBVIOUS
<1>2. /\ q + n <= l /\ \A i \in 1..n : m[q + i] = s[i]
      /\ p + h <= n /\ \A i \in 1..h : s[p + i] = x[i]
  BY <1>1 DEF Holds
<1>3. ASSUME NEW i \in 1..h PROVE m[(q + p) + i] = x[i]
  <2>1. p + i \in 1..n /\ (q + p) + i = q + (p + i)
    BY <1>2
  <2> QED BY <1>2, <2>1
<1>4. (q + p) + h <= l
  BY <1>2
<1> QED BY <1>1, <1>3, <1>4 DEF Holds

\* A number within a text.
LEMMA HasWithin ==
  ASSUME NEW m \in Seq(Octets), NEW q \in Nat, NEW s \in Seq(Octets), Holds(m, q, s),
         NEW p \in Nat, NEW v, NEW e, Has32(s, p, v, e)
  PROVE  Has32(m, q + p, v, q + e)
<1>1. v \in Nat /\ Fits32(v) /\ Holds(s, p, encodeVarint32(v)) /\ e = p + varintLength[v]
  BY DEF Has32
<1>2. PICK b \in Seq(Octets), w \in 1..5 :
        b = encodeVarint32(v) /\ w = varintLength[v] /\ Len(b) = w
  BY <1>1, Field32, Zenon
<1>3. Holds(m, q + p, b)
  BY <1>1, <1>2, HoldsWithin, Zenon
<1>4. q + (p + w) = (q + p) + w /\ q + p \in Nat
  OBVIOUS
<1> QED BY <1>1, <1>2, <1>3, <1>4, Zenon DEF Has32

\* A row within a text.
LEMMA RowWithin ==
  ASSUME NEW m \in Seq(Octets), NEW q \in Nat, NEW s \in Seq(Octets), Holds(m, q, s),
         NEW k \in Seq(Octets), NEW v \in Seq(Octets), NEW e \in Nat, RowIn(s, 0, k, v, e)
  PROVE  RowIn(m, q, k, v, q + e)
<1>1. PICK a \in Nat, b \in Nat, c \in Nat :
        /\ Has32(s, 0, Len(k), a) /\ Holds(s, a, k) /\ b = a + Len(k)
        /\ Has32(s, b, Len(v), c) /\ Holds(s, c, v) /\ e = c + Len(v)
  BY Zenon DEF RowIn
<1>0. 0 \in Nat /\ q + 0 = q
  OBVIOUS
<1>2. Has32(m, q, Len(k), q + a)
  BY <1>0, <1>1, HasWithin, Zenon
<1>3. Holds(m, q + a, k)
  BY <1>1, HoldsWithin, Zenon
<1>4. Has32(m, q + b, Len(v), q + c)
  BY <1>1, HasWithin, Zenon
<1>5. Holds(m, q + c, v)
  BY <1>1, HoldsWithin, Zenon
<1>6. Len(k) \in Nat /\ Len(v) \in Nat
  OBVIOUS
<1>7. q + b = (q + a) + Len(k) /\ q + e = (q + c) + Len(v)
  BY <1>1, <1>6
<1>8. q + a \in Nat /\ q + b \in Nat /\ q + c \in Nat
  OBVIOUS
<1> QED BY <1>2, <1>3, <1>4, <1>5, <1>7, <1>8, Zenon DEF RowIn

\* What CompWorker writes for a row.
LEMMA RowWritten ==
  ASSUME NEW k \in Seq(Octets), Fits32(Len(k)), NEW v \in Seq(Octets), Fits32(Len(v))
  PROVE  \E r \in Seq(Octets) :
           /\ r = RowBytes(Row(k, v)) /\ RowIn(r, 0, k, v, Len(r))
           /\ Len(r) > varintLength[Len(k)] + Len(k)
<1>1. PICK lk \in Nat, lv \in Nat : lk = Len(k) /\ lv = Len(v)
  OBVIOUS
<1>2. PICK a \in Seq(Octets), wa \in 1..5 :
        a = encodeVarint32(lk) /\ wa = varintLength[lk] /\ Len(a) = wa
  BY <1>1, Field32, Zenon
<1>3. PICK b \in Seq(Octets), wb \in 1..5 :
        b = encodeVarint32(lv) /\ wb = varintLength[lv] /\ Len(b) = wb
  BY <1>1, Field32, Zenon
<1>t. /\ 0 \in Nat /\ wa \in Nat /\ wb \in Nat /\ wa + lk \in Nat /\ (wa + lk) + wb \in Nat
      /\ 0 + wa = wa
  OBVIOUS
<1>l. Len(a) = wa /\ Len(k) = lk /\ Len(b) = wb /\ Len(v) = lv
  BY <1>1, <1>2, <1>3
<1>p. PICK p1 \in Nat, p2 \in Nat, p3 \in Nat : p1 = wa + lk /\ p2 = p1 + wb /\ p3 = p2 + lv
  BY <1>t
<1>4. PICK s1 \in Seq(Octets) :
        s1 = a \o k /\ Len(s1) = wa + lk /\ Holds(s1, wa, k) /\ Keeps(a, s1)
  BY <1>l, <1>t, OneMore, ZenonT(60)
<1>5. PICK s2 \in Seq(Octets) :
        s2 = s1 \o b /\ Len(s2) = p1 + wb /\ Holds(s2, p1, b) /\ Keeps(s1, s2)
  <2>1. Len(s1) = p1
    BY <1>p, <1>4
  <2>2. Len(b) = wb /\ wb \in Nat
    BY <1>3
  <2> QED BY <2>1, <2>2, OneMore, ZenonT(60)
<1>6. PICK r \in Seq(Octets) :
        r = s2 \o v /\ Len(r) = p2 + lv /\ Holds(r, p2, v) /\ Keeps(s2, r)
  <2>1. Len(s2) = p2
    BY <1>p, <1>5
  <2>2. Len(v) = lv
    BY <1>1
  <2> QED BY <2>1, <2>2, OneMore, ZenonT(60)
<1>7. r = RowBytes(Row(k, v))
  <2>1. PICK row : row = Row(k, v)
    OBVIOUS
  <2>2. row.key_view = k /\ row.value_view = v /\ row.isExist = TRUE
    BY <2>1 DEF Row
  <2> QED BY <1>1, <1>2, <1>3, <1>4, <1>5, <1>6, <2>1, <2>2, Zenon DEF RowBytes
<1>8. Holds(a, 0, a)
  <2>1. PICK l \in Nat : l = Len(a)
    OBVIOUS
  <2>2. 0 + l <= l /\ \A i \in 1..l : 0 + i = i
    OBVIOUS
  <2> QED BY <2>1, <2>2, Zenon DEF Holds
<1>9. Keeps(s1, r) /\ Keeps(a, r)
  BY <1>4, <1>5, <1>6, Zenon DEF Keeps
<1>10. Holds(r, 0, a) /\ Holds(r, wa, k) /\ Holds(r, p1, b)
  BY <1>4, <1>5, <1>6, <1>8, <1>9, <1>t, Zenon DEF Keeps
<1>11. Has32(r, 0, lk, wa) /\ Has32(r, p1, lv, p2)
  BY <1>1, <1>2, <1>3, <1>10, <1>p, <1>t, Zenon DEF Has32
<1>12. RowIn(r, 0, k, v, Len(r))
  BY <1>1, <1>6, <1>10, <1>11, <1>p, <1>t, Zenon DEF RowIn
<1>13. Len(r) > wa + lk
  BY <1>6, <1>p
<1> QED BY <1>1, <1>2, <1>7, <1>12, <1>13, Zenon

\* Init's loop cuts out a row and goes to its end.
LEMMA RowRead ==
  ASSUME NEW m \in Seq(Octets), NEW q \in Nat, NEW k \in Seq(Octets), NEW v \in Seq(Octets),
         NEW e, RowIn(m, q, k, v, e)
  PROVE  NextAt(m, q) = e /\ RowAt(m, q) = View(m, q, e - q)
<1>1. PICK a \in Nat, b \in Nat, c \in Nat :
        /\ Has32(m, q, Len(k), a) /\ Holds(m, a, k) /\ b = a + Len(k)
        /\ Has32(m, b, Len(v), c) /\ Holds(m, c, v) /\ e = c + Len(v)
  BY Zenon DEF RowIn
<1>2. getVarint32Ptr(m, q, q + 5) = [end |-> a, value |-> Len(k)]
  BY <1>1, Read32, Zenon
<1>3. SizeAt(m, q) = [end |-> a, value |-> Len(k)]
  BY <1>2, Zenon DEF SizeAt
<1>4. SizeAt(m, q).end = a /\ SizeAt(m, q).value = Len(k)
  BY <1>3
<1>5. getVarint32Ptr(m, b, b + 5) = [end |-> c, value |-> Len(v)]
  BY <1>1, Read32, Zenon
<1>6. ValueAt(m, q) = [end |-> c, value |-> Len(v)]
  BY <1>1, <1>4, <1>5, Zenon DEF ValueAt
<1>7. ValueAt(m, q).end = c /\ ValueAt(m, q).value = Len(v)
  BY <1>6
<1>8. c # Null
  BY DEF Null
<1>9. NextAt(m, q) = c + Len(v) /\ RowAt(m, q) = View(m, q, c + (Len(v) - q))
  BY <1>7, <1>8, Zenon DEF NextAt, RowAt
<1>10. c + (Len(v) - q) = e - q
  BY <1>1
<1> QED BY <1>1, <1>9, <1>10, Zenon

\* A row read on its own.
LEMMA RowFields ==
  ASSUME NEW r \in Seq(Octets), NEW k \in Seq(Octets), NEW v \in Seq(Octets), NEW e,
         RowIn(r, 0, k, v, e)
  PROVE  LET w == ValueAt(r, 0) IN KeyView(r) = k /\ View(r, w.end, w.value) = v
<1>1. PICK a \in Nat, b \in Nat, c \in Nat :
        /\ Has32(r, 0, Len(k), a) /\ Holds(r, a, k) /\ b = a + Len(k)
        /\ Has32(r, b, Len(v), c) /\ Holds(r, c, v) /\ e = c + Len(v)
  BY Zenon DEF RowIn
<1>0. 0 + 5 = 5
  OBVIOUS
<1>2. getVarint32Ptr(r, 0, 0 + 5) = [end |-> a, value |-> Len(k)]
  BY <1>1, Read32, Zenon
<1>3. SizeAt(r, 0) = [end |-> a, value |-> Len(k)] /\ SizeAt(r, 0) = getVarint32Ptr(r, 0, 5)
  BY <1>0, <1>2, Zenon DEF SizeAt
<1>4. SizeAt(r, 0).end = a /\ SizeAt(r, 0).value = Len(k)
  BY <1>3
<1>5. getVarint32Ptr(r, b, b + 5) = [end |-> c, value |-> Len(v)]
  BY <1>1, Read32, Zenon
<1>6. ValueAt(r, 0) = [end |-> c, value |-> Len(v)]
  BY <1>1, <1>4, <1>5, Zenon DEF ValueAt
<1>7. ValueAt(r, 0).end = c /\ ValueAt(r, 0).value = Len(v)
  BY <1>6
<1>8. View(r, a, Len(k)) = k /\ View(r, c, Len(v)) = v
  BY <1>1, ViewHolds
<1>9. KeyView(r) = k
  BY <1>3, <1>4, <1>8, Zenon DEF KeyView
<1> QED BY <1>7, <1>8, <1>9, Zenon

-----------------------------------------------------------------------------
(* The rows behind each other.                                             *)

\* The texts of s joined one by one.
IsJoined(g, s, n) ==
  /\ g \in [1..n -> Seq(Octets)]
  /\ \A i \in 1..n : g[i] = IF i = 1 THEN s[i] ELSE g[i - 1] \o s[i]

\* There is such a function for as many texts as there are.
LEMMA JoinsUpTo ==
  ASSUME NEW n \in Nat, NEW s \in [1..n -> Seq(Octets)] PROVE \E g : IsJoined(g, s, n)
<1> DEFINE None == {x \in Nat : x <= n /\ ~ \E g : IsJoined(g, s, x)}
<1>1. ASSUME None # {} PROVE FALSE
  <2>1. None \subseteq Nat
    OBVIOUS
  <2>a. \A x \in Nat : x \in None <=> x <= n /\ ~ \E g : IsJoined(g, s, x)
    OBVIOUS
  <2> HIDE DEF None
  <2>2. PICK x \in None : \A y \in None : x <= y
    BY <1>1, <2>1, LeastOne
  <2>3. x \in Nat /\ x <= n /\ ~ \E g : IsJoined(g, s, x)
    BY <2>1, <2>a
  <2>4. CASE x = 0
    <3> DEFINE g == [i \in 1..0 |-> <<>>]
    <3>1. IsJoined(g, s, 0)
      BY DEF IsJoined
    <3> HIDE DEF g
    <3> QED BY <2>3, <2>4, <3>1
  <2>5. CASE x # 0
    <3>1. PICK y \in Nat : x = y + 1 /\ y \notin None
      <4>1. x - 1 \in Nat /\ x = (x - 1) + 1 /\ ~ (x <= x - 1)
        BY <2>3, <2>5
      <4> QED BY <2>2, <4>1
    <3>2. PICK f : IsJoined(f, s, y)
      <4>1. y <= n
        BY <2>3, <3>1
      <4> QED BY <2>a, <3>1, <4>1
    <3>3. /\ f \in [1..y -> Seq(Octets)]
          /\ \A i \in 1..y : f[i] = IF i = 1 THEN s[i] ELSE f[i - 1] \o s[i]
      BY <3>2 DEF IsJoined
    <3>s. s[x] \in Seq(Octets)
      <4>1. x \in 1..n
        BY <2>3, <2>5
      <4> QED BY <4>1
    <3>4. PICK new \in Seq(Octets) : new = IF x = 1 THEN s[x] ELSE f[y] \o s[x]
      <4>1. CASE x = 1
        BY <3>s, <4>1
      <4>2. CASE x # 1
        <5>1. y \in 1..y
          BY <3>1, <4>2
        <5>2. f[y] \in Seq(Octets)
          BY <3>3, <5>1
        <5>3. f[y] \o s[x] \in Seq(Octets)
          BY <3>s, <5>2, HoldsConcat
        <5> QED BY <4>2, <5>3
      <4> QED BY <4>1, <4>2
    <3> DEFINE g == [i \in 1..x |-> IF i = x THEN new ELSE f[i]]
    <3>5. g[x] = new /\ \A i \in 1..y : g[i] = f[i]
      BY <2>3, <2>5, <3>1
    <3>6. g \in [1..x -> Seq(Octets)]
      <4>1. \A i \in 1..x : i # x => i \in 1..y
        BY <2>3, <3>1
      <4> QED BY <3>3, <4>1, Zenon
    <3> HIDE DEF g
    <3>7. ASSUME NEW i \in 1..x PROVE g[i] = IF i = 1 THEN s[i] ELSE g[i - 1] \o s[i]
      <4>1. CASE i = x
        <5>1. CASE x = 1
          BY <3>4, <3>5, <4>1, <5>1, Zenon
        <5>2. CASE x # 1
          <6>1. x - 1 = y /\ y \in 1..y
            BY <3>1, <5>2
          <6>2. g[i - 1] = f[y]
            BY <3>5, <4>1, <6>1, Zenon
          <6>3. g[i] = f[y] \o s[x]
            BY <3>4, <3>5, <4>1, <5>2, Zenon
          <6> QED BY <4>1, <5>2, <6>2, <6>3, Zenon
        <5> QED BY <5>1, <5>2
      <4>2. CASE i # x
        <5>1. i \in 1..y /\ (i # 1 => i - 1 \in 1..y)
          BY <3>1, <4>2
        <5> QED BY <3>3, <3>5, <5>1, Zenon
      <4> QED BY <4>1, <4>2
    <3>8. IsJoined(g, s, x)
      BY <3>6, <3>7 DEF IsJoined
    <3> QED BY <2>3, <3>8
  <2> QED BY <2>4, <2>5
<1>2. n \notin None
  BY <1>1
<1> QED BY <1>2

\* FlattenSeq gives the last of them.
LEMMA FlattenJoins ==
  ASSUME NEW n \in Nat, n >= 1, NEW s \in [1..n -> Seq(Octets)]
  PROVE  \E g : IsJoined(g, s, n) /\ FlattenSeq(s) = g[n]
<1> DEFINE Joins(g) == g = [i \in 1..n |-> IF i = 1 THEN s[i] ELSE g[i - 1] \o s[i]]
<1>1. Len(s) = n /\ s \in Seq(Seq(Octets))
  BY FunctionIsSeq
<1>2. \E g : Joins(g)
  <2>1. PICK g : IsJoined(g, s, n)
    BY JoinsUpTo
  <2>2. g = [i \in 1..n |-> g[i]] /\ \A i \in 1..n : g[i] = IF i = 1 THEN s[i] ELSE g[i - 1] \o s[i]
    BY <2>1, Zenon DEF IsJoined
  <2>3. [i \in 1..n |-> g[i]] = [i \in 1..n |-> IF i = 1 THEN s[i] ELSE g[i - 1] \o s[i]]
    BY <2>2, Zenon
  <2>4. Joins(g)
    BY <2>2, <2>3, Zenon
  <2> HIDE DEF Joins
  <2> QED BY <2>4
<1> DEFINE g == CHOOSE h : h = [i \in 1..Len(s) |-> IF i = 1 THEN s[i] ELSE h[i - 1] \o s[i]]
<1>3. g = CHOOSE h : Joins(h)
  BY <1>1, Zenon
<1>4. Joins(g)
  BY <1>2, <1>3, Zenon
<1>5. \A i \in 1..n : g[i] = IF i = 1 THEN s[i] ELSE g[i - 1] \o s[i]
  BY <1>4, Zenon
<1>6. FlattenSeq(s) = g[n]
  <2>1. FlattenSeq(s) = IF Len(s) = 0 THEN s ELSE g[Len(s)]
    BY DEF FlattenSeq
  <2>2. Len(s) # 0
    BY <1>1
  <2> HIDE DEF g
  <2> QED BY <1>1, <2>1, <2>2, Zenon
<1> HIDE DEF g
<1>7. g = [i \in 1..n |-> g[i]]
  BY <1>4, <1>5, Zenon
<1> HIDE DEF Joins
<1>8. \A i \in 1..n : g[i] \in Seq(Octets)
  <2> DEFINE Bad == {i \in Nat : i \in 1..n /\ g[i] \notin Seq(Octets)}
  <2>1. ASSUME Bad # {} PROVE FALSE
    <3>1. PICK x \in Bad : \A y \in Bad : x <= y
      <4>1. Bad \subseteq Nat
        OBVIOUS
      <4> HIDE DEF Bad
      <4> QED BY <2>1, <4>1, LeastOne
    <3>2. x \in 1..n /\ g[x] \notin Seq(Octets)
      OBVIOUS
    <3>3. x # 1
      BY <1>5, <3>2, Zenon
    <3>4. PICK y \in 1..n : y = x - 1 /\ y < x /\ y \in Nat
      BY <3>2, <3>3
    <3>5. g[y] \in Seq(Octets)
      BY <3>1, <3>2, <3>4
    <3>6. g[x] = g[y] \o s[x]
      BY <1>5, <3>2, <3>3, <3>4, Zenon
    <3>7. g[y] \o s[x] \in Seq(Octets)
      BY <3>2, <3>5, HoldsConcat
    <3> QED BY <3>2, <3>6, <3>7, Zenon
  <2>2. \A i \in 1..n : i \in Nat
    OBVIOUS
  <2> QED BY <2>1, <2>2, Zenon
<1>9. IsJoined(g, s, n)
  <2>1. g \in [1..n -> Seq(Octets)]
    BY <1>7, <1>8, Zenon
  <2> QED BY <1>5, <2>1, Zenon DEF IsJoined
<1> QED BY <1>6, <1>9

\* m has the n texts of s behind each other, from pos[1] on.
Lined(m, pos, s, n) ==
  /\ pos \in [1..(n + 1) -> Nat]
  /\ \A i \in 1..n : pos[i + 1] = pos[i] + Len(s[i]) /\ Holds(m, pos[i], s[i])

\* A text is kept when another one is joined.
LEMMA JoinHolds ==
  ASSUME NEW n \in Nat, NEW s \in [1..n -> Seq(Octets)], NEW g, IsJoined(g, s, n),
         NEW i \in 1..n, NEW j \in 1..i
  PROVE  Holds(g[i], IF j = 1 THEN 0 ELSE Len(g[j - 1]), s[j])
<1>g. /\ g \in [1..n -> Seq(Octets)]
      /\ \A x \in 1..n : g[x] = IF x = 1 THEN s[x] ELSE g[x - 1] \o s[x]
  BY DEF IsJoined
<1>1. PICK p \in Nat : p = IF j = 1 THEN 0 ELSE Len(g[j - 1])
  <2>1. j # 1 => j - 1 \in 1..n
    OBVIOUS
  <2>2. j # 1 => Len(g[j - 1]) \in Nat
    BY <1>g, <2>1
  <2> QED BY <2>2
<1>j. j \in 1..n
  OBVIOUS
<1>2. Holds(g[j], p, s[j])
  <2>1. CASE j = 1
    <3>1. g[j] = s[j] /\ p = 0
      BY <1>1, <1>g, <1>j, <2>1, Zenon
    <3>2. PICK t \in Seq(Octets), l \in Nat : t = s[j] /\ l = Len(t)
      BY <1>j
    <3>3. 0 + l <= l /\ \A x \in 1..l : 0 + x = x
      OBVIOUS
    <3>4. Holds(t, 0, t)
      BY <3>2, <3>3, Zenon DEF Holds
    <3> QED BY <3>1, <3>2, <3>4, Zenon
  <2>2. CASE j # 1
    <3>1. PICK y \in 1..n : y = j - 1
      BY <2>2
    <3>2. g[y] \in Seq(Octets) /\ s[j] \in Seq(Octets)
      BY <1>g, <1>j
    <3>3. g[j] = g[y] \o s[j] /\ p = Len(g[y])
      BY <1>1, <1>g, <1>j, <2>2, <3>1, Zenon
    <3>4. Holds(g[y] \o s[j], Len(g[y]), s[j])
      BY <3>2, HoldsConcat
    <3> QED BY <3>3, <3>4, Zenon
  <2> QED BY <2>1, <2>2
<1> DEFINE Bad == {x \in Nat : x \in j..n /\ ~ Holds(g[x], p, s[j])}
<1>3. ASSUME Bad # {} PROVE FALSE
  <2>1. PICK x \in Bad : \A y \in Bad : x <= y
    <3>1. Bad \subseteq Nat
      OBVIOUS
    <3> HIDE DEF Bad
    <3> QED BY <1>3, <3>1, LeastOne
  <2>2. x \in j..n /\ ~ Holds(g[x], p, s[j])
    OBVIOUS
  <2>3. x # j
    BY <1>2, <2>2
  <2>4. PICK y \in j..n : y = x - 1 /\ y < x /\ y \in Nat /\ y \in 1..n /\ x \in 1..n /\ x # 1
    BY <2>2, <2>3
  <2>5. Holds(g[y], p, s[j])
    BY <2>1, <2>2, <2>4
  <2>6. g[x] = g[y] \o s[x]
    BY <1>g, <2>4, Zenon
  <2>7. g[y] \in Seq(Octets) /\ s[x] \in Seq(Octets) /\ s[j] \in Seq(Octets)
    BY <1>g, <1>j, <2>4
  <2>8. Holds(g[y] \o s[x], p, s[j])
    BY <2>5, <2>7, HoldsConcat, Zenon
  <2> QED BY <2>2, <2>6, <2>8, Zenon
<1>4. i \in Nat /\ i \in j..n
  OBVIOUS
<1>5. Holds(g[i], p, s[j])
  BY <1>3, <1>4
<1> QED BY <1>1, <1>5, Zenon

\* FlattenSeq writes the texts behind each other.
LEMMA FlattenLines ==
  ASSUME NEW n \in Nat, n >= 1, NEW s \in [1..n -> Seq(Octets)]
  PROVE  \E t, pos :
           /\ t \in Seq(Octets) /\ t = FlattenSeq(s)
           /\ Lined(t, pos, s, n) /\ pos[1] = 0 /\ pos[n + 1] = Len(t)
<1>1. PICK g : IsJoined(g, s, n) /\ FlattenSeq(s) = g[n]
  BY FlattenJoins
<1>g. /\ g \in [1..n -> Seq(Octets)]
      /\ \A x \in 1..n : g[x] = IF x = 1 THEN s[x] ELSE g[x - 1] \o s[x]
  BY <1>1 DEF IsJoined
<1>n. n \in 1..n /\ n + 1 \in 1..(n + 1) /\ 1 \in 1..(n + 1) /\ n + 1 # 1 /\ (n + 1) - 1 = n
  OBVIOUS
<1>2. PICK t \in Seq(Octets) : t = g[n]
  BY <1>g, <1>n
<1> DEFINE pos == [i \in 1..(n + 1) |-> IF i = 1 THEN 0 ELSE Len(g[i - 1])]
<1>3. \A i \in 1..(n + 1) : pos[i] = IF i = 1 THEN 0 ELSE Len(g[i - 1])
  OBVIOUS
<1>4. ASSUME NEW i \in 1..(n + 1) PROVE pos[i] \in Nat
  <2>1. i # 1 => i - 1 \in 1..n
    OBVIOUS
  <2>2. i # 1 => Len(g[i - 1]) \in Nat
    BY <1>g, <2>1
  <2> QED BY <1>3, <2>2
<1>5. pos \in [1..(n + 1) -> Nat]
  BY <1>4, Zenon
<1> HIDE DEF pos
<1>6. ASSUME NEW i \in 1..n PROVE pos[i + 1] = pos[i] + Len(s[i])
  <2>1. i \in 1..(n + 1) /\ i + 1 \in 1..(n + 1) /\ i + 1 # 1 /\ (i + 1) - 1 = i
    OBVIOUS
  <2>2. pos[i + 1] = Len(g[i])
    BY <1>3, <2>1, Zenon
  <2>s. s[i] \in Seq(Octets)
    OBVIOUS
  <2>3. CASE i = 1
    <3>1. pos[i] = 0 /\ g[i] = s[i]
      BY <1>3, <1>g, <2>1, <2>3, Zenon
    <3>2. Len(s[i]) \in Nat
      BY <2>s
    <3> QED BY <2>2, <3>1, <3>2
  <2>4. CASE i # 1
    <3>1. i - 1 \in 1..n
      BY <2>4
    <3>2. PICK y \in 1..n : y = i - 1
      BY <3>1
    <3>3. g[y] \in Seq(Octets) /\ g[i] = g[y] \o s[i] /\ pos[i] = Len(g[y])
      BY <1>3, <1>g, <2>1, <2>4, <3>2, Zenon
    <3>4. Len(g[y] \o s[i]) = Len(g[y]) + Len(s[i])
      BY <2>s, <3>3, HoldsConcat
    <3> QED BY <2>2, <3>3, <3>4, Zenon
  <2> QED BY <2>3, <2>4
<1>7. ASSUME NEW i \in 1..n PROVE Holds(t, pos[i], s[i])
  <2>1. i \in 1..(n + 1) /\ n \in 1..n /\ i \in 1..n
    OBVIOUS
  <2>2. Holds(g[n], IF i = 1 THEN 0 ELSE Len(g[i - 1]), s[i])
    BY <1>1, <2>1, JoinHolds, Zenon
  <2>3. pos[i] = IF i = 1 THEN 0 ELSE Len(g[i - 1])
    BY <1>3, <2>1
  <2> QED BY <1>2, <2>2, <2>3, Zenon
<1>8. Lined(t, pos, s, n)
  BY <1>5, <1>6, <1>7, Zenon DEF Lined
<1>9. pos[1] = 0 /\ pos[n + 1] = Len(t)
  BY <1>2, <1>3, <1>n, Zenon
<1> QED BY <1>1, <1>2, <1>8, <1>9, Zenon

\* The bytes of one row and nothing else.
IsRow(r) == /\ r \in Seq(Octets) /\ Len(r) > 0
            /\ \E k \in Seq(Octets), v \in Seq(Octets) : RowIn(r, 0, k, v, Len(r))

\* Init's loop takes the row that is there and goes on behind it.
LEMMA RowStep ==
  ASSUME NEW m \in Seq(Octets), NEW q \in Nat, NEW r, IsRow(r), Holds(m, q, r)
  PROVE  ViewRows(m, q) = <<r>> \o ViewRows(m, q + Len(r))
<1>1. PICK k \in Seq(Octets), v \in Seq(Octets) : RowIn(r, 0, k, v, Len(r))
  BY DEF IsRow
<1>2. r \in Seq(Octets) /\ Len(r) > 0
  BY DEF IsRow
<1>3. PICK l \in Nat, h \in Nat : l = Len(m) /\ h = Len(r)
  BY <1>2
<1>4. q + h <= l /\ h > 0
  BY <1>2, <1>3 DEF Holds
<1>5. RowIn(m, q, k, v, q + h)
  BY <1>1, <1>2, <1>3, RowWithin, Zenon
<1>6. NextAt(m, q) = q + h /\ RowAt(m, q) = View(m, q, (q + h) - q)
  BY <1>5, RowRead, Zenon
<1>7. (q + h) - q = h /\ q + h \in Nat /\ q + h > q /\ q < l
  BY <1>4
<1>8. View(m, q, h) = r
  BY <1>2, <1>3, ViewHolds
<1>9. NextAt(m, q) \in Nat /\ NextAt(m, q) > q /\ q < Len(m)
  BY <1>3, <1>6, <1>7, Zenon
<1>10. ViewRows(m, q) = <<RowAt(m, q)>> \o ViewRows(m, NextAt(m, q))
  BY <1>9, ViewRowsAt, Zenon
<1> QED BY <1>3, <1>6, <1>7, <1>8, <1>10, Zenon

\* The rows from i on.
IsTail(r, s, i, n) ==
  /\ r \in Seq(Seq(Octets)) /\ Len(r) = (n + 1) - i
  /\ \A j \in 1..((n + 1) - i) : r[j] = s[(i - 1) + j]

\* One row in front of them.
LEMMA TailStep ==
  ASSUME NEW n \in Nat, NEW s \in [1..n -> Seq(Octets)], NEW i \in 1..n, NEW t,
         IsTail(t, s, i + 1, n)
  PROVE  IsTail(<<s[i]>> \o t, s, i, n)
<1>x. PICK x \in Seq(Octets) : x = s[i]
  OBVIOUS
<1>1. PICK o : o = <<x>>
  OBVIOUS
<1>2. o \in Seq(Seq(Octets)) /\ Len(o) = 1 /\ o[1] = x
  BY <1>1
<1>3. /\ t \in Seq(Seq(Octets)) /\ Len(t) = (n + 1) - (i + 1)
      /\ \A j \in 1..((n + 1) - (i + 1)) : t[j] = s[((i + 1) - 1) + j]
  BY DEF IsTail
<1>4. PICK r \in Seq(Seq(Octets)) : r = o \o t /\ Joined(r, o, t)
  BY <1>2, <1>3, ConcatJoins
<1>5. /\ Len(r) = 1 + Len(t) /\ r[1] = x /\ \A j \in 1..Len(t) : r[1 + j] = t[j]
  <2>1. 1 \in 1..1
    OBVIOUS
  <2> QED BY <1>2, <1>4, <2>1, Zenon DEF Joined
<1>6. ASSUME NEW j \in 1..((n + 1) - i) PROVE r[j] = s[(i - 1) + j]
  <2>1. CASE j = 1
    <3>1. (i - 1) + j = i
      BY <2>1
    <3> QED BY <1>x, <1>5, <2>1, <3>1
  <2>2. CASE j # 1
    <3>1. PICK h \in 1..Len(t) : j = 1 + h
      <4>1. j - 1 \in 1..Len(t) /\ j = 1 + (j - 1)
        BY <1>3, <2>2
      <4> QED BY <4>1
    <3>2. r[j] = t[h]
      BY <1>5, <3>1
    <3>3. t[h] = s[((i + 1) - 1) + h]
      BY <1>3, <3>1
    <3>4. ((i + 1) - 1) + h = (i - 1) + j
      BY <1>3, <3>1
    <3> QED BY <3>2, <3>3, <3>4
  <2> QED BY <2>1, <2>2
<1>7. Len(r) = (n + 1) - i
  BY <1>3, <1>5
<1>8. IsTail(r, s, i, n)
  BY <1>6, <1>7, Zenon DEF IsTail
<1> QED BY <1>x, <1>1, <1>4, <1>8, Zenon

\* Init's loop cuts the rows out of the file.
LEMMA RowsCut ==
  ASSUME NEW m \in Seq(Octets), NEW n \in Nat, NEW s \in [1..n -> Seq(Octets)],
         \A i \in 1..n : IsRow(s[i]), NEW pos, Lined(m, pos, s, n), pos[n + 1] = Len(m)
  PROVE  ViewRows(m, pos[1]) = s
<1>p. /\ pos \in [1..(n + 1) -> Nat]
      /\ \A i \in 1..n : pos[i + 1] = pos[i] + Len(s[i]) /\ Holds(m, pos[i], s[i])
  BY DEF Lined
<1> DEFINE Bad == {d \in Nat : d <= n /\ ~ IsTail(ViewRows(m, pos[(n + 1) - d]), s, (n + 1) - d, n)}
<1>1. ASSUME Bad # {} PROVE FALSE
  <2>1. Bad \subseteq Nat
    OBVIOUS
  <2>a. \A d \in Nat :
          d \in Bad <=> d <= n /\ ~ IsTail(ViewRows(m, pos[(n + 1) - d]), s, (n + 1) - d, n)
    OBVIOUS
  <2> HIDE DEF Bad
  <2>2. PICK x \in Bad : \A y \in Bad : x <= y
    BY <1>1, <2>1, LeastOne
  <2>3. PICK i \in 1..(n + 1) : i = (n + 1) - x /\ x \in Nat /\ x <= n
    <3>1. x \in Nat /\ x <= n
      BY <2>1, <2>a
    <3>2. (n + 1) - x \in 1..(n + 1)
      BY <3>1
    <3> QED BY <3>1, <3>2
  <2>4. ~ IsTail(ViewRows(m, pos[i]), s, i, n)
    BY <2>a, <2>3, Zenon
  <2>5. CASE x = 0
    <3>1. i = n + 1
      BY <2>3, <2>5
    <3>2. pos[i] \in Nat /\ pos[i] >= Len(m)
      BY <1>p, <3>1
    <3>3. ViewRows(m, pos[i]) = <<>>
      BY <3>2, ViewRowsAt, Zenon
    <3>4. IsTail(<<>>, s, n + 1, n)
      BY DEF IsTail
    <3> QED BY <2>4, <3>1, <3>3, <3>4, Zenon
  <2>6. CASE x # 0
    <3>1. PICK y \in Nat : x = y + 1 /\ y \notin Bad /\ y <= n /\ (n + 1) - y = i + 1 /\ i \in 1..n
      <4>1. /\ x - 1 \in Nat /\ x = (x - 1) + 1 /\ ~ (x <= x - 1) /\ x - 1 <= n
            /\ (n + 1) - (x - 1) = i + 1 /\ i \in 1..n
        BY <2>3, <2>6
      <4> QED BY <2>2, <4>1
    <3>2. IsTail(ViewRows(m, pos[i + 1]), s, i + 1, n)
      BY <2>a, <3>1, Zenon
    <3>3. pos[i] \in Nat /\ pos[i + 1] = pos[i] + Len(s[i]) /\ Holds(m, pos[i], s[i])
      BY <1>p, <2>3, <3>1, Zenon
    <3>4. ViewRows(m, pos[i]) = <<s[i]>> \o ViewRows(m, pos[i] + Len(s[i]))
      BY <3>1, <3>3, RowStep, Zenon
    <3>5. IsTail(<<s[i]>> \o ViewRows(m, pos[i + 1]), s, i, n)
      BY <3>1, <3>2, TailStep, Zenon
    <3> QED BY <2>4, <3>3, <3>4, <3>5, Zenon
  <2> QED BY <2>5, <2>6
<1>2. IsTail(ViewRows(m, pos[1]), s, 1, n)
  <2>1. n \notin Bad
    BY <1>1
  <2>2. (n + 1) - n = 1 /\ n <= n
    OBVIOUS
  <2> QED BY <2>1, <2>2, Zenon
<1>3. PICK r : r = ViewRows(m, pos[1])
  OBVIOUS
<1>4. /\ r \in Seq(Seq(Octets)) /\ Len(r) = (n + 1) - 1
      /\ \A j \in 1..((n + 1) - 1) : r[j] = s[(1 - 1) + j]
  BY <1>2, <1>3, Zenon DEF IsTail
<1>5. (n + 1) - 1 = n /\ \A j \in 1..n : (1 - 1) + j = j
  OBVIOUS
<1>6. s \in Seq(Seq(Octets)) /\ Len(s) = n
  BY FunctionIsSeq
<1>7. Len(r) = Len(s) /\ \A j \in 1..Len(r) : r[j] = s[j]
  <2>1. Len(r) = n
    BY <1>4, <1>5
  <2>2. ASSUME NEW j \in 1..n PROVE r[j] = s[j]
    BY <1>4, <1>5, Zenon
  <2> QED BY <1>6, <2>1, <2>2, Zenon
<1>8. r = s
  BY <1>4, <1>6, <1>7, SeqEqual
<1> QED BY <1>3, <1>8

-----------------------------------------------------------------------------
(* A table's file.                                                         *)

\* The rows of a file as bytes.
BytesOf(key, val, n) == [i \in 1..n |-> RowBytes(Row(key[i], val[i]))]

FileRows(m) == ViewRows(m, FileHeader(m).end)

\* A row that is read as this key and value.
RowReads(r, k, v) ==
  /\ IsRow(r) /\ KeyView(r) = k /\ View(r, ValueAt(r, 0).end, ValueAt(r, 0).value) = v
  /\ Len(r) > varintLength[Len(k)] + Len(k)

\* Each of them is read as its key and value.
LEMMA RowsRead ==
  ASSUME NEW key, NEW val, NEW n, NEW ws \in History, Lists(key, val, n, ws), NEW i \in 1..n
  PROVE  RowReads(BytesOf(key, val, n)[i], key[i], val[i])
<1>1. PICK k \in Keys : k = key[i]
  BY Zenon DEF Lists
<1>2. PICK v \in Seq(Octets) : v = val[i] /\ Fits32(Len(v))
  <2>1. PICK w \in ws[k] : ReadOf(val[i], w)
    BY <1>1, Zenon DEF Lists
  <2>2. w \in Written
    BY <1>1, <2>1, Zenon DEF History
  <2> QED BY <2>1, <2>2, WrittenValue, Zenon DEF ReadOf
<1>3. k \in Seq(Octets) /\ Fits32(Len(k))
  BY <1>1, KeyBytes
<1>4. PICK r \in Seq(Octets) :
        /\ r = RowBytes(Row(k, v)) /\ RowIn(r, 0, k, v, Len(r))
        /\ Len(r) > varintLength[Len(k)] + Len(k)
  BY <1>2, <1>3, RowWritten, Zenon
<1>5. BytesOf(key, val, n)[i] = r
  BY <1>1, <1>2, <1>4, Zenon DEF BytesOf
<1>6. Len(r) > 0
  <2>1. PICK l \in Nat, w \in Nat : l = Len(k) /\ w = varintLength[l]
    BY <1>3, WidthFacts
  <2>2. Len(r) > w + l
    BY <1>4, <2>1, Zenon
  <2> QED BY <2>2
<1>7. IsRow(r)
  BY <1>3, <1>4, <1>6, Zenon DEF IsRow
<1>8. KeyView(r) = k /\ View(r, ValueAt(r, 0).end, ValueAt(r, 0).value) = v
  BY <1>3, <1>4, RowFields, Zenon
<1> QED BY <1>1, <1>2, <1>4, <1>5, <1>7, <1>8, Zenon DEF RowReads

\* What the format has room for.
FewKeys(ws) == Cardinality({k \in Keys : ws[k] # {}}) < 128

\* There are no more rows than written keys.
LEMMA FewRows ==
  ASSUME NEW map, NEW data, NEW ws, Stored(map, data, ws), FewKeys(ws)
  PROVE  Cardinality(map) \in Nat /\ Cardinality(map) < 128
<1> DEFINE Used == {k \in Keys : ws[k] # {}}
           f == [r \in map |-> KeyView(r)]
<1>1. \A r \in map : KeyView(r) \in Used
  BY Zenon DEF Stored, ReadsAs
<1>2. f \in Injection(map, Used)
  <2>1. f \in [map -> Used]
    BY <1>1, Zenon
  <2>2. \A r \in map, s \in map : f[r] = f[s] => r = s
    BY Zenon DEF Stored
  <2> HIDE DEF Used
  <2> QED BY <2>1, <2>2, Zenon DEF Injection, IsInjective
<1>3. f \in Surjection(map, Used)
  <2>1. f \in [map -> Used]
    BY <1>1, Zenon
  <2>2. \A k \in Used : \E r \in map : f[r] = k
    BY Zenon DEF Stored
  <2> HIDE DEF Used
  <2> QED BY <2>1, <2>2, Zenon DEF Surjection
<1>4. Cardinality(Used) < 128
  BY DEF FewKeys
<1>5. IsFiniteSet(map)
  BY DEF Stored
<1> HIDE DEF Used, f
<1>6. IsFiniteSet(Used)
  BY <1>3, <1>5, FS_Surjection
<1>7. Cardinality(map) <= Cardinality(Used)
  BY <1>2, <1>6, FS_Injection
<1>8. Cardinality(map) \in Nat /\ Cardinality(Used) \in Nat
  BY <1>5, <1>6, FS_CardinalityType
<1> QED BY <1>4, <1>7, <1>8

\* A file that is read as the writes of a table.
IsTable(m, lev, ws) ==
  \E data, key, val, n :
    /\ n \in Nat /\ Lists(key, val, n, ws)
    /\ FileHeader(m).level = lev /\ FileHeader(m).filter = data
    /\ FileRows(m) = BytesOf(key, val, n)
    /\ \A k \in Keys : ws[k] # {} => IsMatch(data, k)

\* CompWorker writes such a file.
LEMMA TableWritten ==
  ASSUME NEW map, map # {}, NEW data \in FilterBytes, NEW ws \in History,
         Stored(map, data, ws), FewKeys(ws), NEW lev \in Nat, Fits32(lev)
  PROVE  IsTable(TableFile(map, data, lev), lev, ws)
<1>1. PICK n, key, val :
        /\ n = Cardinality(map) /\ Lists(key, val, n, ws) /\ Rows(map) = RowsOf(key, val, n)
  BY StoredRows
<1>2. n \in Nat /\ n < 128 /\ n >= 1
  <2>1. n \in Nat /\ n < 128
    BY <1>1, FewRows, Zenon
  <2>2. IsFiniteSet(map)
    BY DEF Stored
  <2>3. n # 0
    BY <1>1, <2>2, FS_EmptySet
  <2> QED BY <2>1, <2>3
<1>3. PICK rows, s : rows = Rows(map) /\ s = BytesOf(key, val, n)
  OBVIOUS
<1>4. DOMAIN rows = 1..n /\ \A i \in 1..n : rows[i] = Row(key[i], val[i])
  BY <1>1, <1>3, Zenon DEF RowsOf
<1>5. Len(rows) = n
  <2> DEFINE R == {rows[i] : i \in 1..n}
  <2>1. rows = [i \in 1..n |-> rows[i]]
    BY <1>1, <1>3, <1>4, Zenon DEF RowsOf
  <2>2. \A i \in 1..n : rows[i] \in R
    OBVIOUS
  <2> HIDE DEF R
  <2>3. rows \in [1..n -> R]
    BY <2>1, <2>2, Zenon
  <2> QED BY <1>2, <2>3, FunctionIsSeq
<1>6. [i \in DOMAIN rows |-> RowBytes(rows[i])] = s
  BY <1>3, <1>4, Zenon DEF BytesOf
<1>7. ASSUME NEW i \in 1..n PROVE IsRow(s[i])
  BY <1>1, <1>3, RowsRead, Zenon DEF RowReads
<1>8. s \in [1..n -> Seq(Octets)]
  <2>1. s = [i \in 1..n |-> s[i]]
    BY <1>3, Zenon DEF BytesOf
  <2>2. \A i \in 1..n : s[i] \in Seq(Octets)
    BY <1>7, Zenon DEF IsRow
  <2> QED BY <2>1, <2>2, Zenon
<1>9. PICK t, at :
        /\ t \in Seq(Octets) /\ t = FlattenSeq(s)
        /\ Lined(t, at, s, n) /\ at[1] = 0 /\ at[n + 1] = Len(t)
  BY <1>2, <1>8, FlattenLines
<1>10. PICK head, m : head = HeaderBytes(lev, n, data) /\ MetaRead(m, head, lev, data, t)
  <2>1. \E m : MetaRead(m, HeaderBytes(lev, n, data), lev, data, t)
    BY <1>2, <1>9, HeaderRead
  <2> QED BY <2>1, Zenon
<1>11. /\ head \in Seq(Octets) /\ m \in Seq(Octets) /\ Len(m) = Len(head) + Len(t)
       /\ Holds(m, Len(head), t) /\ m = head \o t
       /\ FileHeader(m).end = Len(head) /\ FileHeader(m).filter = data
       /\ FileHeader(m).level = lev
  BY <1>10, Zenon DEF MetaRead
<1>12. TableFile(map, data, lev) = m
  BY <1>3, <1>5, <1>6, <1>9, <1>10, <1>11, Zenon DEF TableFile
<1>13. PICK h \in Nat : h = Len(head)
  BY <1>11
<1>a. /\ at \in [1..(n + 1) -> Nat]
      /\ \A i \in 1..n : at[i + 1] = at[i] + Len(s[i]) /\ Holds(t, at[i], s[i])
  BY <1>9 DEF Lined
<1> DEFINE pos == [i \in 1..(n + 1) |-> h + at[i]]
<1>14. pos \in [1..(n + 1) -> Nat] /\ \A i \in 1..(n + 1) : pos[i] = h + at[i]
  BY <1>a
<1> HIDE DEF pos
<1>15. ASSUME NEW i \in 1..n PROVE pos[i + 1] = pos[i] + Len(s[i]) /\ Holds(m, pos[i], s[i])
  <2>1. i \in 1..(n + 1) /\ i + 1 \in 1..(n + 1)
    BY <1>2
  <2>2. PICK p \in Nat, l \in Nat : p = at[i] /\ l = Len(s[i]) /\ s[i] \in Seq(Octets)
    <3>1. at[i] \in Nat /\ s[i] \in Seq(Octets)
      BY <1>8, <1>a, <2>1, Zenon
    <3>2. Len(s[i]) \in Nat
      BY <3>1
    <3> QED BY <3>1, <3>2
  <2>3. pos[i] = h + p /\ pos[i + 1] = h + (p + l) /\ Holds(t, p, s[i])
    BY <1>14, <1>a, <2>1, <2>2, Zenon
  <2>4. h + (p + l) = (h + p) + l
    OBVIOUS
  <2>5. Holds(m, h + p, s[i])
    BY <1>9, <1>11, <1>13, <2>2, <2>3, HoldsWithin, Zenon
  <2> QED BY <2>2, <2>3, <2>4, <2>5, Zenon
<1>16. Lined(m, pos, s, n)
  BY <1>14, <1>15, Zenon DEF Lined
<1>17. pos[1] = h /\ pos[n + 1] = Len(m)
  <2>1. 1 \in 1..(n + 1) /\ n + 1 \in 1..(n + 1)
    BY <1>2
  <2>2. pos[1] = h + 0 /\ pos[n + 1] = h + Len(t) /\ h + 0 = h
    BY <1>9, <1>14, <2>1
  <2> QED BY <1>11, <1>13, <2>2, Zenon
<1>18. ViewRows(m, pos[1]) = s
  BY <1>2, <1>7, <1>8, <1>11, <1>16, <1>17, RowsCut, Zenon
<1>19. FileRows(m) = s
  BY <1>11, <1>13, <1>17, <1>18, Zenon DEF FileRows
<1>20. \A k \in Keys : ws[k] # {} => IsMatch(data, k)
  BY Zenon DEF Stored
<1>21. IsTable(m, lev, ws)
  BY <1>1, <1>2, <1>3, <1>11, <1>19, <1>20, Zenon DEF IsTable
<1> QED BY <1>12, <1>21, Zenon

\* MemTable_view::Get answers from the rows of its file.
LEMMA TableRead ==
  ASSUME NEW key, NEW val, NEW n \in Nat, NEW ws \in History, Lists(key, val, n, ws),
         NEW data, \A k \in Keys : ws[k] # {} => IsMatch(data, k), NEW k \in Keys
  PROVE  ReadsBack(ViewGet(BytesOf(key, val, n), data, k), ws[k])
<1>1. PICK rows : rows = BytesOf(key, val, n)
  OBVIOUS
<1>2. DOMAIN rows = 1..n
  BY <1>1, Zenon DEF BytesOf
<1>k. key \in [1..n -> Keys]
  BY DEF Lists
<1>3. \A i \in 1..n : RowReads(rows[i], key[i], val[i])
  BY <1>1, RowsRead, Zenon
<1>4. KeyView(Probe(k)) = k /\ Len(Probe(k)) = varintLength[Len(k)] + Len(k)
  BY KeyBytes, ProbeRead
<1> DEFINE found == {i \in DOMAIN rows : Equivalent(rows[i], Probe(k))}
<1>5. ASSUME NEW i \in 1..n PROVE i \in found <=> key[i] = k
  <2>1. KeyView(rows[i]) = key[i] /\ key[i] \in Keys
    BY <1>3, <1>k, Zenon DEF RowReads
  <2>2. Equivalent(rows[i], Probe(k)) <=> KeyView(rows[i]) = KeyView(Probe(k))
    BY <1>4, <2>1, SameKey, Zenon
  <2> QED BY <1>2, <1>4, <2>1, <2>2, Zenon
<1>6. found \subseteq 1..n
  BY <1>2, Zenon
<1>7. CASE ws[k] = {}
  <2>1. \A i \in 1..n : key[i] # k
    BY <1>7, Zenon DEF Lists
  <2>2. found = {}
    BY <1>5, <1>6, <2>1, Zenon
  <2>3. ViewGet(rows, data, k) = NotFound
    BY <2>2, Zenon DEF ViewGet
  <2>4. NotFound.code = "kNotFound"
    BY DEF NotFound
  <2> QED BY <1>1, <1>7, <2>3, <2>4, Zenon DEF ReadsBack
<1>8. CASE ws[k] # {}
  <2>1. IsMatch(data, k) /\ found # {}
    BY <1>5, <1>8, Zenon DEF Lists
  <2>2. PICK i, r : i = (CHOOSE x \in found : TRUE) /\ r = rows[i]
    OBVIOUS
  <2>3. i \in found /\ i \in 1..n
    BY <1>6, <2>1, <2>2, Zenon
  <2>4. key[i] = k /\ RowReads(r, k, val[i])
    BY <1>3, <1>5, <2>2, <2>3, Zenon
  <2>5. Len(r) # Len(Probe(k))
    <3>1. PICK l \in Nat, w \in Nat, b \in Nat : l = Len(k) /\ w = varintLength[l] /\ b = Len(r)
      <4>1. k \in Seq(Octets) /\ r \in Seq(Octets)
        BY <2>4, KeyBytes, Zenon DEF RowReads, IsRow
      <4>2. Len(k) \in Nat /\ Len(r) \in Nat
        BY <4>1
      <4> QED BY <4>2, WidthFacts
    <3>2. b > w + l /\ Len(Probe(k)) = w + l
      BY <1>4, <2>4, <3>1, Zenon DEF RowReads
    <3>3. b # w + l
      BY <3>2
    <3> QED BY <3>1, <3>2, <3>3, Zenon
  <2>6. 0 + 5 = 5
    OBVIOUS
  <2>7. ViewGet(rows, data, k) =
          [code |-> "kOk", value |-> View(r, ValueAt(r, 0).end, ValueAt(r, 0).value)]
    BY <2>1, <2>2, <2>5, <2>6, Zenon DEF ViewGet, ValueAt, SizeAt
  <2>8. View(r, ValueAt(r, 0).end, ValueAt(r, 0).value) = val[i]
    BY <2>4, Zenon DEF RowReads
  <2>9. PICK w \in ws[k] : ReadOf(val[i], w)
    BY <2>3, <2>4, Zenon DEF Lists
  <2>10. ReadsBack([code |-> "kOk", value |-> val[i]], ws[k])
    BY <2>9, FoundReadsBack
  <2> QED BY <1>1, <2>7, <2>8, <2>10, Zenon
<1> QED BY <1>7, <1>8

\* The memtable's invariant, and every level's file is read as the writes of its table.
FileInv ==
  /\ MemInv
  /\ (\E S : files \in Seq(S)) /\ Len(files) = level /\ level <= MaxLevel
  /\ \A l \in 1..level : FewKeys(writes[l]) => IsTable(files[l], l - 1, writes[l])

\* A level's number fits into its field.
LEMMA LevelFits ==
  ASSUME NEW lev \in Nat, lev <= MaxLevel PROVE Fits32(lev)
<1>1. PICK n \in Nat : n = MaxLevel /\ Fits32(n)
  BY FormatAssumption
<1>2. n < 4294967296
  BY <1>1, SMT DEF Fits32
<1>3. lev < 4294967296
  BY <1>1, <1>2, SMT
<1> QED BY <1>3, SMT DEF Fits32

\* A write leaves the files and the history of their levels.
LEMMA WriteLeavesFiles ==
  ASSUME FileInv, NEW request, NEW num, NEW logRecord, NEW rec,
         Write(request, num, logRecord, rec), MemInv'
  PROVE  FileInv'
<1>1. level' = level /\ files' = files
  BY DEF Write
<1>2. PICK n \in Nat, f \in Seq(History) : n = level /\ f = writes /\ Len(f) = n + 1
  BY DEF FileInv, MemInv
<1>3. \A l \in 1..n : writes'[l] = writes[l]
  <2>1. PICK ws : writes' = [writes EXCEPT ![level + 1] = ws]
    BY Zenon DEF Write
  <2>2. \A l \in 1..n : l \in DOMAIN f /\ l # n + 1
    BY <1>2
  <2> QED BY <1>2, <2>1, <2>2, Zenon
<1>4. \A l \in 1..level' : FewKeys(writes'[l]) => IsTable(files'[l], l - 1, writes'[l])
  BY <1>1, <1>2, <1>3, Zenon DEF FileInv
<1>5. (\E S : files' \in Seq(S)) /\ Len(files') = level' /\ level' <= MaxLevel
  BY <1>1, Zenon DEF FileInv
<1> QED BY <1>4, <1>5, Zenon DEF FileInv

\* A flush adds the file of the level and starts the next one.
LEMMA TableAdded ==
  ASSUME FileInv, WriteTable, MemInv' PROVE FileInv'
<1>1. PICK n \in Nat, f \in Seq(History), ws \in History :
        n = level /\ f = writes /\ Len(f) = n + 1 /\ writes' = Append(f, ws)
  <2>1. PICK n \in Nat, f \in Seq(History) : n = level /\ f = writes /\ Len(f) = n + 1
    BY DEF FileInv, MemInv
  <2>2. writes' = Append(f, [k \in Keys |-> {}])
    BY <2>1, Zenon DEF WriteTable
  <2>3. [k \in Keys |-> {}] \in History
    <3>1. {} \in SUBSET Written
      OBVIOUS
    <3> QED BY <3>1, Zenon DEF History
  <2> QED BY <2>1, <2>2, <2>3, Zenon
<1>2. PICK file, old, S :
        /\ old \in Seq(S) /\ old = files /\ Len(old) = n
        /\ file = TableFile(memMap, filter, n)
        /\ files' = Append(old, file) /\ level' = n + 1 /\ n < MaxLevel /\ memMap # {}
  BY <1>1, Zenon DEF FileInv, WriteTable
<1>3. MaxLevel \in Nat
  BY FormatAssumption
<1>4. n + 1 <= MaxLevel /\ n <= MaxLevel
  BY <1>2, <1>3
<1>5. n + 1 \in 1..Len(f)
  BY <1>1
<1>6. f[n + 1] \in History
  BY <1>5, ElementOfSeq
<1>7. Stored(memMap, filter, f[n + 1]) /\ filter \in FilterBytes
  BY <1>1, Zenon DEF FileInv, MemInv
<1>8. Fits32(n)
  BY <1>4, LevelFits
<1>9. FewKeys(f[n + 1]) => IsTable(file, n, f[n + 1])
  BY <1>2, <1>6, <1>7, <1>8, TableWritten
<1>10. PICK T : T = S \cup {file} /\ file \in T /\ old \in Seq(T)
  <2>1. old \in Seq(S \cup {file})
    BY <1>2
  <2> QED BY <2>1
<1>11. /\ Append(old, file) \in Seq(T) /\ Len(Append(old, file)) = n + 1
       /\ Append(old, file)[n + 1] = file
       /\ \A l \in 1..n : Append(old, file)[l] = old[l]
  BY <1>2, <1>10
<1>12. \A l \in 1..(n + 1) : Append(f, ws)[l] = f[l]
  BY <1>1
<1>13. ASSUME NEW l \in 1..(n + 1), FewKeys(writes'[l])
       PROVE  IsTable(files'[l], l - 1, writes'[l])
  <2>1. writes'[l] = f[l] /\ FewKeys(f[l])
    BY <1>1, <1>12, <1>13, Zenon
  <2>2. CASE l = n + 1
    <3>1. l - 1 = n
      BY <2>2
    <3> QED BY <1>2, <1>9, <1>11, <2>1, <2>2, <3>1, Zenon
  <2>3. CASE l # n + 1
    <3>1. l \in 1..n
      BY <2>3
    <3>2. IsTable(old[l], l - 1, f[l])
      BY <1>1, <1>2, <2>1, <3>1, Zenon DEF FileInv
    <3> QED BY <1>2, <1>11, <2>1, <3>1, <3>2, Zenon
  <2> QED BY <2>2, <2>3
<1>14. (\E U : files' \in Seq(U)) /\ Len(files') = level' /\ level' <= MaxLevel
  BY <1>2, <1>4, <1>11, Zenon
<1> QED BY <1>2, <1>13, <1>14, Zenon DEF FileInv

\* Every step keeps the invariant.
LEMMA FileInvHolds == RecordSpec => []FileInv
<1>1. ASSUME RecordInit, MemInv PROVE FileInv
  <2>1. files = <<>> /\ level = 0
    BY <1>1 DEF RecordInit
  <2>2. MaxLevel \in Nat
    BY FormatAssumption
  <2>3. files \in Seq({}) /\ Len(files) = level /\ level <= MaxLevel
    BY <2>1, <2>2
  <2>4. \A l \in 1..level : IsTable(files[l], l - 1, writes[l])
    BY <2>1
  <2> QED BY <1>1, <2>3, <2>4, Zenon DEF FileInv
<1>2. ASSUME FileInv, [RecordNext]_recordVars, MemInv' PROVE FileInv'
  <2>1. ASSUME NEW k \in Keys, NEW v \in Values, NEW n \in Numbers, Set(k, v, n) PROVE FileInv'
    BY <1>2, <2>1, WriteLeavesFiles, Zenon DEF Set
  <2>2. ASSUME NEW k \in Keys, NEW n \in Numbers, Delete(k, n) PROVE FileInv'
    BY <1>2, <2>2, WriteLeavesFiles, Zenon DEF Delete
  <2>3. CASE WriteTable
    BY <1>2, <2>3, TableAdded
  <2>4. CASE UNCHANGED recordVars
    BY <1>2, <2>4, Zenon DEF recordVars, FileInv
  <2> QED BY <1>2, <2>1, <2>2, <2>3, <2>4, Zenon DEF RecordNext
<1>3. RecordSpec => []MemInv
  BY MemInvHolds
<1> QED BY <1>1, <1>2, <1>3, PTL DEF RecordSpec

\* The file's round trip: what CompWorker::Run writes for a table of fewer than 128 keys has
\* the level in its header, and rows behind a copy of the filter from which every key is
\* answered with one of its writes, for every number of a request.  It is a theorem about
\* the bytes that are written, by the description of their format (FileHeader);
\* MemTable_view::Init does not read the header so (ViewIsBuilt).
THEOREM FileCorrect == RecordSpec => []FileReadsBack
<1>1. ASSUME FileInv, NEW l \in DOMAIN files, FewKeys(writes[l])
      PROVE  LET header == FileHeader(files[l])
                 rows == ViewRows(files[l], header.end)
             IN  /\ header.level = l - 1
                 /\ \A k \in Keys : ReadsBack(ViewGet(rows, header.filter, k), writes[l][k])
  <2>1. l \in 1..level /\ l \in 1..Len(writes) /\ writes \in Seq(History)
    <3>1. PICK S : files \in Seq(S) /\ Len(files) = level
      BY <1>1, Zenon DEF FileInv
    <3>2. l \in 1..level /\ level \in Nat
      BY <1>1, <3>1 DEF FileInv, MemInv
    <3>3. writes \in Seq(History) /\ Len(writes) = level + 1
      BY <1>1 DEF FileInv, MemInv
    <3> QED BY <3>2, <3>3
  <2>w. PICK ws \in History : ws = writes[l]
    BY <2>1, ElementOfSeq
  <2>2. PICK m : m = files[l] /\ IsTable(m, l - 1, ws)
    BY <1>1, <2>1, <2>w, Zenon DEF FileInv
  <2>3. PICK data, key, val, n :
          /\ n \in Nat /\ Lists(key, val, n, ws)
          /\ FileHeader(m).level = l - 1 /\ FileHeader(m).filter = data
          /\ FileRows(m) = BytesOf(key, val, n)
          /\ \A k \in Keys : ws[k] # {} => IsMatch(data, k)
    BY <2>2, Zenon DEF IsTable
  <2>4. ViewRows(m, FileHeader(m).end) = BytesOf(key, val, n)
    BY <2>3, Zenon DEF FileRows
  <2>5. \A k \in Keys : ReadsBack(ViewGet(BytesOf(key, val, n), data, k), ws[k])
    BY <2>3, TableRead, Zenon
  <2> QED BY <2>2, <2>3, <2>4, <2>5, <2>w, Zenon
<1>2. ASSUME FileInv PROVE FileReadsBack
  BY <1>1, <1>2, Zenon DEF FileReadsBack, FewKeys
<1>3. RecordSpec => []FileInv
  BY FileInvHolds
<1> QED BY <1>2, <1>3, PTL

=============================================================================
