----------------------------- MODULE ChainProofs -----------------------------
(***************************************************************************)
(* Proofs about what the api sends to a node and asks of it: extrinsics on *)
(* the wire, queries while the chain grows, reports of eras and sessions.  *)
(***************************************************************************)
EXTENDS ChainApi, TLAPS

\* A leaf is tried with Zenon and then with SMT, unless it names one of them.
USE ZenonT(10), SMTT(30)

-----------------------------------------------------------------------------
(* Extrinsics.                                                             *)

\* A sequence, element by element.
LEMMA Elements ==
    ASSUME NEW S, NEW s \in Seq(S)
    PROVE  Len(s) \in Nat /\ DOMAIN s = 1 .. Len(s) /\ \A i \in 1 .. Len(s) : s[i] \in S
BY SMT

\* Sequences that are joined.
LEMMA Joined ==
    ASSUME NEW a \in Seq(Nat), NEW b \in Seq(Nat)
    PROVE  /\ a \o b \in Seq(Nat) /\ Len(a \o b) = Len(a) + Len(b)
           /\ \A i \in 1 .. Len(a) : (a \o b)[i] = a[i]
           /\ \A i \in 1 .. Len(b) : (a \o b)[Len(a) + i] = b[i]
BY SMT

\* A part of a sequence.
LEMMA Cut ==
    ASSUME NEW s \in Seq(Nat), NEW m \in Nat, NEW n \in Nat, 1 <= m, m <= n + 1, n <= Len(s)
    PROVE  /\ SubSeq(s, m, n) \in Seq(Nat) /\ Len(SubSeq(s, m, n)) = n - m + 1
           /\ \A i \in 1 .. n - m + 1 : SubSeq(s, m, n)[i] = s[m + i - 1]
BY SMT

\* Sequences of the same elements are the same.
LEMMA SameSeq ==
    ASSUME NEW a \in Seq(Nat), NEW b \in Seq(Nat), Len(a) = Len(b), \A i \in 1 .. Len(a) : a[i] = b[i]
    PROVE  a = b
BY SMT

\* What was joined is cut off again: the front,
LEMMA FrontOf ==
    ASSUME NEW a \in Seq(Nat), NEW b \in Seq(Nat)
    PROVE  SubSeq(a \o b, 1, Len(a)) = a
<1> DEFINE s == a \o b
           n == Len(a)
           c == SubSeq(s, 1, n)
<1>1. s \in Seq(Nat) /\ Len(s) = Len(a) + Len(b) /\ \A i \in 1 .. Len(a) : s[i] = a[i]
  BY Joined
<1> HIDE DEF s
<1>2. n \in Nat /\ n <= Len(s) /\ 1 <= n + 1 /\ Len(b) \in Nat
  BY <1>1, SMT
<1>3. c \in Seq(Nat) /\ Len(c) = n - 1 + 1 /\ \A i \in 1 .. n - 1 + 1 : c[i] = s[1 + i - 1]
  BY <1>1, <1>2, Cut, SMT
<1> HIDE DEF c
<1>4. Len(c) = Len(a) /\ \A i \in 1 .. Len(c) : c[i] = a[i]
  BY <1>1, <1>2, <1>3, SMT
<1>5. c = a
  BY <1>3, <1>4, SameSeq
<1> QED
  BY <1>5 DEF c, s

\* and the back.
LEMMA BackOf ==
    ASSUME NEW a \in Seq(Nat), NEW b \in Seq(Nat)
    PROVE  SubSeq(a \o b, Len(a) + 1, Len(a \o b)) = b
<1> DEFINE s == a \o b
           m == Len(a) + 1
           c == SubSeq(s, m, Len(s))
<1>1. s \in Seq(Nat) /\ Len(s) = Len(a) + Len(b) /\ \A i \in 1 .. Len(b) : s[Len(a) + i] = b[i]
  BY Joined
<1> HIDE DEF s
<1>2. m \in Nat /\ 1 <= m /\ m <= Len(s) + 1 /\ Len(s) \in Nat /\ Len(b) \in Nat /\ Len(a) \in Nat /\ Len(s) <= Len(s)
  BY <1>1, SMT
<1>3. c \in Seq(Nat) /\ Len(c) = Len(s) - m + 1 /\ \A i \in 1 .. Len(s) - m + 1 : c[i] = s[m + i - 1]
  BY <1>1, <1>2, Cut
<1> HIDE DEF c
<1>4. Len(c) = Len(b)
  BY <1>1, <1>2, <1>3, SMT
<1>41. ASSUME NEW i \in 1 .. Len(c) PROVE c[i] = b[i]
  <2>1. c[i] = s[m + i - 1] /\ s[Len(a) + i] = b[i]
    BY <1>1, <1>2, <1>3, <1>4, SMT
  <2>2. m + i - 1 = Len(a) + i
    BY <1>2, SMT
  <2> QED
    BY <2>1, <2>2
<1>5. c = b
  BY <1>3, <1>4, <1>41, SameSeq
<1> QED
  BY <1>5 DEF c, s

\* It does not matter which are joined first.
LEMMA JoinAssoc ==
    ASSUME NEW a \in Seq(Nat), NEW b \in Seq(Nat), NEW c \in Seq(Nat)
    PROVE  (a \o b) \o c = a \o (b \o c)
BY SMT

\* The zeros at the end of a number's digits are cut.
LEMMA TrimmedIs ==
    ASSUME NEW d \in Seq(Nat), NEW k \in 0 .. Len(d), \A i \in k + 1 .. Len(d) : d[i] = 0, k = 0 \/ d[k] # 0
    PROVE  Trimmed(d) = SubSeq(d, 1, k)
<1> DEFINE top == {i \in DOMAIN d : d[i] # 0}
<1>1. Len(d) \in Nat /\ DOMAIN d = 1 .. Len(d)
  BY SMT
<1>2. CASE k = 0
  <2>1. top = {}
    BY <1>1, <1>2, SMT
  <2>2. SubSeq(d, 1, 0) = <<>>
    BY SMT
  <2> QED
    BY <1>2, <2>1, <2>2 DEF Trimmed
<1>3. CASE k # 0
  <2>1. k \in top /\ \A j \in top : j <= k
    BY <1>1, <1>3, SMT
  <2>2. \A i \in top : (\A j \in top : j <= i) => i = k
    BY <1>1, <2>1, SMT
  <2>3. (CHOOSE i \in top : \A j \in top : j <= i) = k
    BY <2>1, <2>2, Zenon
  <2> QED
    BY <2>1, <2>3 DEF Trimmed
<1> QED
  BY <1>2, <1>3
-----------------------------------------------------------------------------
\* Digits of a number that encodeCompactInteger writes exactly: in its mode of
\* two bytes it keeps twelve bits of fourteen.
Exact ==
    {d \in Seq(Byte) : /\ Len(d) <= 8 /\ (Len(d) = 0 \/ d[Len(d)] # 0)
                       /\ ~(Len(d) = 2 /\ d[2] \in 16 .. 63)}

\* Bytes are numbers.
LEMMA BytesAreNat == \A x \in Byte : x \in Nat /\ x <= 255
BY SMT DEF Byte

\* The digits of such a number.
LEMMA ExactType ==
    ASSUME NEW d \in Exact
    PROVE  /\ d \in Seq(Byte) /\ d \in Seq(Nat) /\ Len(d) \in Nat /\ Len(d) <= 8 /\ (Len(d) = 0 \/ d[Len(d)] # 0)
           /\ ~(Len(d) = 2 /\ d[2] \in 16 .. 63) /\ \A i \in 1 .. Len(d) : d[i] \in Nat /\ d[i] <= 255
<1>1. d \in Seq(Byte) /\ Len(d) <= 8 /\ (Len(d) = 0 \/ d[Len(d)] # 0) /\ ~(Len(d) = 2 /\ d[2] \in 16 .. 63)
  BY Zenon DEF Exact
<1>2. Len(d) \in Nat /\ \A i \in 1 .. Len(d) : d[i] \in Byte
  BY <1>1, Elements
<1>3. d \in Seq(Nat)
  BY <1>1, BytesAreNat, SMT
<1> QED
  BY <1>1, <1>2, <1>3, BytesAreNat

\* Zeros behind the digits are trimmed, and no digit is.
LEMMA ExactTrimmed ==
    ASSUME NEW d \in Exact, NEW s \in Seq(Nat), Len(d) <= Len(s),
           \A i \in 1 .. Len(d) : s[i] = d[i], \A i \in Len(d) + 1 .. Len(s) : s[i] = 0
    PROVE  Trimmed(s) = d
<1> DEFINE k == Len(d)
           c == SubSeq(s, 1, k)
<1>1. d \in Seq(Nat) /\ k \in Nat /\ Len(s) \in Nat /\ (k = 0 \/ d[k] # 0)
  BY ExactType, SMT
<1>2. k \in 0 .. Len(s) /\ (k = 0 \/ s[k] # 0)
  BY <1>1, SMT
<1>3. Trimmed(s) = c
  BY <1>2, TrimmedIs
<1>4. c \in Seq(Nat) /\ Len(c) = k - 1 + 1 /\ \A i \in 1 .. k - 1 + 1 : c[i] = s[1 + i - 1]
  <2>1. 1 <= k + 1 /\ k <= Len(s)
    BY <1>1, SMT
  <2> QED
    BY <1>1, <2>1, Cut, SMT
<1> HIDE DEF c
<1>5. Len(c) = Len(d) /\ \A i \in 1 .. Len(c) : c[i] = d[i]
  BY <1>1, <1>4, SMT
<1> QED
  BY <1>1, <1>3, <1>4, <1>5, SameSeq

\* What is read: a number, and the bytes behind it.
LEMMA ReadIs ==
    ASSUME NEW v, NEW r
    PROVE  Read(v, r).val = v /\ Read(v, r).rest = r
BY DEF Read

\* How many bytes follow the first, in each mode.
LEMMA FollowingIs ==
    ASSUME NEW b \in Nat
    PROVE  /\ b % 4 = 0 => Following(b) = 0
           /\ b % 4 = 1 => Following(b) = 1
           /\ b % 4 = 2 => Following(b) = 3
           /\ b % 4 = 3 => Following(b) = b \div 4 + 4
<1> DEFINE m == b % 4
<1>1. ASSUME NEW x, NEW y
      PROVE  LET F == CASE x = 0 -> 0 [] x = 1 -> 1 [] x = 2 -> 3 [] x = 3 -> y
             IN  (x = 0 => F = 0) /\ (x = 1 => F = 1) /\ (x = 2 => F = 3) /\ (x = 3 => F = y)
  BY SMT
<1>2. Following(b) = CASE m = 0 -> 0 [] m = 1 -> 1 [] m = 2 -> 3 [] m = 3 -> b \div 4 + 4
  BY DEF Following
<1> QED
  BY <1>1, <1>2, Zenon

\* What is read of a compact integer e that other bytes follow: the modes that
\* hold the number in e itself, and the mode of big integers.
LEMMA ReadShort ==
    ASSUME NEW e \in Seq(Nat), NEW rest \in Seq(Nat), NEW d \in Exact,
           Len(e) \in Nat \ {0}, e[1] % 4 # 3, Following(e[1]) = Len(e) - 1,
           Len(d) <= Len(e), \A i \in 1 .. Len(e) : e[i] \div 4 + (Digit(e, i + 1) % 4) * 64 = Digit(d, i)
    PROVE  decodeCompactInteger(e \o rest) = Read(d, rest)
<1> DEFINE s == e \o rest
           n == Len(e) - 1
           f == ShiftRight2(e)
<1>1. s \in Seq(Nat) /\ s[1] = e[1] /\ Len(s) = Len(e) + Len(rest) /\ Len(rest) \in Nat
  BY Joined, SMT
<1>2. s # <<>> /\ ~(Len(s) <= n) /\ n \in Nat /\ n + 1 = Len(e) /\ n + 2 = Len(e) + 1
  BY <1>1, SMT
<1>3. SubSeq(s, 1, n + 1) = e /\ SubSeq(s, n + 2, Len(s)) = rest
  BY <1>2, FrontOf, BackOf
<1>4. DOMAIN e = 1 .. Len(e) /\ Len(d) \in Nat /\ d \in Seq(Nat) /\ \A i \in 1 .. Len(e) : Digit(d, i) \in Nat
  <2>1. DOMAIN e = 1 .. Len(e) /\ Len(d) \in Nat /\ d \in Seq(Nat) /\ \A i \in 1 .. Len(d) : d[i] \in Nat
    BY ExactType, Elements
  <2> QED
    BY <2>1, SMT DEF Digit
<1>5. f = [i \in 1 .. Len(e) |-> Digit(d, i)]
  BY <1>4, Zenon DEF ShiftRight2
<1>6. f \in Seq(Nat) /\ Len(f) = Len(e)
  BY <1>4, <1>5, SMT
<1>7. Trimmed(f) = d
  <2>1. \A i \in 1 .. Len(d) : f[i] = d[i]
    BY <1>4, <1>5, SMT DEF Digit
  <2>2. \A i \in Len(d) + 1 .. Len(f) : f[i] = 0
    BY <1>4, <1>5, <1>6, SMT DEF Digit
  <2> HIDE DEF f
  <2> QED
    BY <1>6, <2>1, <2>2, ExactTrimmed
<1> HIDE DEF s, f
<1>8. Following(s[1]) = n /\ s[1] % 4 # 3
  BY <1>1
<1> QED
  BY <1>2, <1>3, <1>7, <1>8 DEF decodeCompactInteger, s, f

\* The mode of more bytes is read back.
LEMMA ReadBig ==
    ASSUME NEW rest \in Seq(Nat), NEW d \in Exact, Len(d) >= 4
    PROVE  decodeCompactInteger(BigInteger(d) \o rest) = Read(d, rest)
<1> DEFINE k == Len(d)
           b == (k - 4) * 4 + 3
           e == <<b>> \o d
           s == e \o rest
<1>1. d \in Seq(Nat) /\ k \in Nat /\ k <= 8 /\ 4 <= k /\ k = Len(d)
  BY ExactType, SMT
<1> HIDE DEF k
<1>0. k \in 4 .. 8
  <2>1. k \in Nat /\ k <= 8 /\ 4 <= k
    BY <1>1
  <2> QED
    BY <2>1, SMT
<1>2. b \in Nat /\ b % 4 = 3 /\ b \div 4 + 4 = k
  BY <1>0, SMT
<1>3. Following(b) = k
  BY <1>2, FollowingIs
<1> HIDE DEF b
<1>4. <<b>> \in Seq(Nat) /\ Len(<<b>>) = 1
  BY <1>2, SMT
<1>5. e \in Seq(Nat) /\ Len(e) = k + 1 /\ e[1] = b
  BY <1>1, <1>2, SMT
<1>6. SubSeq(e, 2, k + 1) = d
  <2>1. SubSeq(<<b>> \o d, Len(<<b>>) + 1, Len(<<b>> \o d)) = d
    BY <1>1, <1>4, BackOf
  <2> QED
    BY <1>4, <1>5, <2>1, SMT
<1> HIDE DEF e
<1>7. s \in Seq(Nat) /\ Len(s) = k + 1 + Len(rest) /\ s[1] = b /\ Len(rest) \in Nat
  <2>1. 1 \in 1 .. Len(e)
    BY <1>1, <1>5, SMT
  <2>2. s \in Seq(Nat) /\ Len(s) = Len(e) + Len(rest) /\ s[1] = e[1]
    BY <1>5, <2>1, Joined
  <2> QED
    BY <1>5, <2>2, Elements
<1>8. SubSeq(s, k + 2, Len(s)) = rest
  <2>1. SubSeq(s, Len(e) + 1, Len(s)) = rest
    BY <1>5, BackOf
  <2>2. Len(e) + 1 = k + 2
    BY <1>1, <1>5, SMT
  <2> QED
    BY <2>1, <2>2
<1>9. SubSeq(s, 2, k + 1) = d
  <2> DEFINE f == SubSeq(s, 2, k + 1)
             g == SubSeq(e, 2, k + 1)
  <2> DEFINE m == k + 1
  <2>0. 2 \in Nat /\ 1 <= 2 /\ m \in Nat /\ 2 <= m + 1 /\ m <= Len(e) /\ m <= Len(s) /\ m - 2 + 1 = k
    BY <1>1, <1>5, <1>7, SMT
  <2>1. f \in Seq(Nat) /\ Len(f) = m - 2 + 1 /\ \A i \in 1 .. m - 2 + 1 : f[i] = s[2 + i - 1]
    BY <1>7, <2>0, Cut
  <2>2. \A i \in 1 .. m - 2 + 1 : g[i] = e[2 + i - 1]
    BY <1>5, <2>0, Cut
  <2>3. ASSUME NEW i \in 1 .. k PROVE f[i] = d[i]
    <3>1. 2 + i - 1 \in 1 .. Len(e)
      BY <1>1, <1>5, SMT
    <3>2. e[2 + i - 1] = s[2 + i - 1]
      BY <1>5, <3>1, Joined
    <3> QED
      BY <1>6, <2>0, <2>1, <2>2, <3>2
  <2> HIDE DEF f
  <2> QED
    BY <1>1, <2>0, <2>1, <2>3, SameSeq DEF f
<1>10. Lowest8(d) = d
  <2>1. SubSeq(d, 1, k) = d
    BY <1>1, SMT
  <2>2. CASE k < 8
    BY <1>1, <2>1, <2>2 DEF Lowest8
  <2>3. CASE k = 8
    BY <1>1, <2>1, <2>3 DEF Lowest8
  <2> QED
    BY <1>0, <2>2, <2>3, SMT
<1>11. Trimmed(d) = d
  <2>1. Len(d) <= Len(d) /\ \A i \in Len(d) + 1 .. Len(d) : d[i] = 0
    BY <1>1, SMT
  <2> QED
    BY <1>1, <2>1, ExactTrimmed
<1>12. s # <<>> /\ ~(Len(s) <= k) /\ s[1] % 4 = 3 /\ Following(s[1]) = k
  <2>1. s # <<>> /\ ~(Len(s) <= k)
    BY <1>1, <1>7, SMT
  <2> QED
    BY <1>2, <1>3, <1>7, <2>1
<1>13. BigInteger(d) = e
  BY DEF BigInteger, b, e, k
<1> HIDE DEF s, k
<1> QED
  BY <1>8, <1>9, <1>10, <1>11, <1>12, <1>13 DEF decodeCompactInteger, s

\* The mode in which a number is written.
LEMMA EncodeIs ==
    ASSUME NEW d, Len(d) \in Nat
    PROVE  /\ AtMost63(d) => encodeCompactInteger(d) = OneByte(d)
           /\ ~AtMost63(d) /\ AtMost3FFF(d) => encodeCompactInteger(d) = TwoBytes(d)
           /\ ~AtMost3FFF(d) /\ AtMost3FFFFFFF(d) => encodeCompactInteger(d) = FourBytes(d)
           /\ ~AtMost3FFFFFFF(d) => encodeCompactInteger(d) = BigInteger(d)
<1>1. AtMost63(d) => AtMost3FFF(d)
  BY SMT DEF AtMost63, AtMost3FFF
<1>2. AtMost3FFF(d) => AtMost3FFFFFFF(d)
  BY SMT DEF AtMost3FFF, AtMost3FFFFFFF
<1>3. ASSUME NEW p \in BOOLEAN, NEW q \in BOOLEAN, NEW r \in BOOLEAN, p => q, q => r, NEW a, NEW b, NEW c, NEW e
      PROVE  LET E == CASE p -> a [] ~p /\ q -> b [] ~q /\ r -> c [] OTHER -> e
             IN  (p => E = a) /\ (~p /\ q => E = b) /\ (~q /\ r => E = c) /\ (~r => E = e)
  BY <1>3, SMT
<1>4. AtMost63(d) \in BOOLEAN /\ AtMost3FFF(d) \in BOOLEAN /\ AtMost3FFFFFFF(d) \in BOOLEAN
  BY Zenon DEF AtMost63, AtMost3FFF, AtMost3FFFFFFF
<1> QED
  BY <1>1, <1>2, <1>3, <1>4, Zenon DEF encodeCompactInteger

\* The digits of a number, of eight bits each, in six and two.
LEMMA Bits ==
    ASSUME NEW a \in Nat, a <= 255
    PROVE  /\ a % 64 \in 0 .. 63 /\ a \div 64 \in 0 .. 3 /\ (a % 64) + (a \div 64) * 64 = a
           /\ \A m \in 0 .. 3 : ((a % 64) * 4 + m) \div 4 = a % 64 /\ ((a % 64) * 4 + m) % 4 = m
BY SMT

\* A byte of two bits of one digit and six of the next gives them back.
LEMMA Mixed ==
    ASSUME NEW a \in Nat, a <= 255, NEW x \in 0 .. 63
    PROVE  (a \div 64 + x * 4) \div 4 = x /\ (a \div 64 + x * 4) % 4 = a \div 64 /\ a \div 64 + x * 4 \in Nat
BY SMT

\* A digit is a byte, or 0 behind the last.
LEMMA DigitType ==
    ASSUME NEW d \in Seq(Byte), NEW i \in Nat \ {0}
    PROVE  Digit(d, i) \in Nat /\ Digit(d, i) <= 255
<1>1. Len(d) \in Nat /\ \A j \in 1 .. Len(d) : d[j] \in Nat /\ d[j] <= 255
  BY Elements, BytesAreNat
<1>2. CASE i <= Len(d)
  <2>1. i \in 1 .. Len(d)
    BY <1>1, <1>2, SMT
  <2> QED
    BY <1>1, <1>2, <2>1 DEF Digit
<1>3. CASE ~(i <= Len(d))
  BY <1>3, SMT DEF Digit
<1> QED
  BY <1>2, <1>3

\* The sizes of numbers, by mode.
LEMMA SizeOfMode ==
    ASSUME NEW d, Len(d) \in Nat
    PROVE  /\ AtMost63(d) => Len(d) <= 1
           /\ AtMost3FFF(d) => Len(d) <= 2
           /\ ~AtMost3FFF(d) /\ AtMost3FFFFFFF(d) => Len(d) \in 2 .. 4 /\ Len(d) <= 4
           /\ ~AtMost3FFFFFFF(d) => Len(d) >= 4
           /\ Len(d) <= 2 /\ Len(d) # 2 => ~(2 <= Len(d))
           /\ Len(d) # 4 /\ Len(d) <= 4 => ~(4 <= Len(d))
<1> DEFINE k == Len(d)
<1>1. /\ AtMost63(d) => k = 0 \/ k = 1
      /\ AtMost3FFF(d) => k <= 1 \/ k = 2
      /\ ~AtMost3FFF(d) => ~(k <= 1)
      /\ AtMost3FFFFFFF(d) => k <= 3 \/ k = 4
      /\ ~AtMost3FFFFFFF(d) => ~(k <= 3)
  BY Zenon DEF AtMost63, AtMost3FFF, AtMost3FFFFFFF
<1>2. k \in Nat
  OBVIOUS
<1> HIDE DEF k
<1>3. /\ AtMost63(d) => k <= 1
      /\ AtMost3FFF(d) => k <= 2
      /\ ~AtMost3FFF(d) /\ AtMost3FFFFFFF(d) => k \in 2 .. 4 /\ k <= 4
      /\ ~AtMost3FFFFFFF(d) => k >= 4
      /\ k <= 2 /\ k # 2 => ~(2 <= k)
      /\ k # 4 /\ k <= 4 => ~(4 <= k)
  BY <1>1, <1>2, SMT
<1> QED
  BY <1>3 DEF k

\* Each mode is read back: one byte,
LEMMA CompactOne ==
    ASSUME NEW d \in Exact, NEW rest \in Seq(Nat), AtMost63(d)
    PROVE  decodeCompactInteger(OneByte(d) \o rest) = Read(d, rest)
<1> DEFINE x == Digit(d, 1)
           b == x * 4
           e == <<b>>
<1>0. Len(d) \in Nat /\ x \in Nat /\ x <= 255 /\ Len(d) <= 1
  <2>1. 1 \in Nat \ {0} /\ Len(d) \in Nat
    BY ExactType, SMT
  <2>2. Len(d) <= 1
    BY <2>1, SizeOfMode
  <2> QED
    BY <2>1, <2>2, ExactType, DigitType
<1>1. x <= 63
  BY SMT DEF AtMost63, Digit
<1>2. e = OneByte(d)
  BY DEF OneByte
<1> HIDE DEF x
<1>3. b \in Nat /\ b % 4 = 0 /\ b \div 4 = x /\ b % 4 # 3
  BY <1>0, <1>1, SMT
<1>4. Following(b) = 0
  BY <1>3, FollowingIs
<1> HIDE DEF b
<1>5. e \in Seq(Nat) /\ Len(e) = 1 /\ e[1] = b /\ Len(e) \in Nat \ {0} /\ Len(e) - 1 = 0
  BY <1>3, SMT
<1>6. \A i \in 1 .. Len(e) : e[i] \div 4 + (Digit(e, i + 1) % 4) * 64 = Digit(d, i)
  <2>1. Digit(e, 1 + 1) = 0
    BY <1>5, SMT DEF Digit
  <2>2. \A i \in 1 .. Len(e) : i = 1
    BY <1>5, SMT
  <2>3. e[1] \div 4 + (Digit(e, 1 + 1) % 4) * 64 = x
    BY <1>0, <1>3, <1>5, <2>1, SMT
  <2> QED
    BY <2>2, <2>3 DEF x
<1> HIDE DEF e
<1> QED
  BY <1>0, <1>2, <1>3, <1>4, <1>5, <1>6, ReadShort

\* two bytes,
LEMMA CompactTwo ==
    ASSUME NEW d \in Exact, NEW rest \in Seq(Nat), ~AtMost63(d), AtMost3FFF(d)
    PROVE  decodeCompactInteger(TwoBytes(d) \o rest) = Read(d, rest)
<1> DEFINE x == Digit(d, 1)
           y == Digit(d, 2)
           b == (x % 64) * 4 + 1
           c == x \div 64 + (y % 16) * 4
           e == <<b, c>>
<1>0. Len(d) \in Nat /\ x \in Nat /\ x <= 255 /\ y \in Nat /\ y <= 255 /\ Len(d) <= 2
  <2>1. 1 \in Nat \ {0} /\ 2 \in Nat \ {0} /\ Len(d) \in Nat
    BY ExactType, SMT
  <2>2. Len(d) <= 2
    BY <2>1, SizeOfMode
  <2> QED
    BY <2>1, <2>2, ExactType, DigitType
<1>1. y <= 15
  <2>1. CASE Len(d) = 2
    <3>1. y <= 63 /\ y \notin 16 .. 63
      <4>1. 2 <= Len(d) /\ ~(Len(d) <= 1)
        BY <2>1, SMT
      <4> QED
        BY <2>1, <4>1, ExactType, Zenon DEF AtMost3FFF, Digit
    <3> HIDE DEF y
    <3> QED
      BY <1>0, <3>1, SMT
  <2>2. CASE Len(d) # 2
    <3>1. ~(2 <= Len(d))
      BY <1>0, <2>2, SizeOfMode
    <3> QED
      BY <3>1, SMT DEF Digit
  <2> QED
    BY <2>1, <2>2
<1>2. e = TwoBytes(d)
  BY DEF TwoBytes
<1> HIDE DEF x, y
<1>3. /\ b \in Nat /\ c \in Nat /\ b % 4 = 1 /\ b % 4 # 3 /\ b \div 4 = x % 64 /\ c % 4 = x \div 64 /\ c \div 4 = y
      /\ (x % 64) + (x \div 64) * 64 = x
  BY <1>0, <1>1, SMT
<1>4. Following(b) = 1
  BY <1>3, FollowingIs
<1> HIDE DEF b, c
<1>5. e \in Seq(Nat) /\ Len(e) = 2 /\ e[1] = b /\ e[2] = c /\ Len(e) \in Nat \ {0} /\ Len(e) - 1 = 1
  BY <1>3, SMT
<1>6. \A i \in 1 .. Len(e) : e[i] \div 4 + (Digit(e, i + 1) % 4) * 64 = Digit(d, i)
  <2>1. Digit(e, 1 + 1) = c /\ Digit(e, 2 + 1) = 0
    BY <1>5, SMT DEF Digit
  <2>2. \A i \in 1 .. Len(e) : i = 1 \/ i = 2
    BY <1>5, SMT
  <2>3. e[1] \div 4 + (Digit(e, 1 + 1) % 4) * 64 = x
    BY <1>3, <1>5, <2>1
  <2>4. e[2] \div 4 + (Digit(e, 2 + 1) % 4) * 64 = y
    BY <1>0, <1>3, <1>5, <2>1, SMT
  <2> QED
    BY <2>2, <2>3, <2>4 DEF x, y
<1> HIDE DEF e
<1> QED
  BY <1>0, <1>2, <1>3, <1>4, <1>5, <1>6, ReadShort

\* The four bytes, spelled out.
LEMMA FourIs ==
    ASSUME NEW d
    PROVE  LET c(i) == Digit(d, i) \div 64 + (Digit(d, i + 1) % 64) * 4
           IN  <<(Digit(d, 1) % 64) * 4 + 2, c(1), c(2), c(3)>> = FourBytes(d)
BY SMT DEF FourBytes

\* and four bytes.
LEMMA CompactFour ==
    ASSUME NEW d \in Exact, NEW rest \in Seq(Nat), ~AtMost3FFF(d), AtMost3FFFFFFF(d)
    PROVE  decodeCompactInteger(FourBytes(d) \o rest) = Read(d, rest)
<1> DEFINE x(i) == Digit(d, i)
           b == (x(1) % 64) * 4 + 2
           c(i) == x(i) \div 64 + (x(i + 1) % 64) * 4
           e == <<b, c(1), c(2), c(3)>>
<1>0. Len(d) \in Nat /\ Len(d) \in 2 .. 4 /\ \A i \in Nat \ {0} : x(i) \in Nat /\ x(i) <= 255
  BY ExactType, DigitType, SizeOfMode
<1>00. Len(d) <= 4
  BY <1>0, SizeOfMode
<1>1. x(4) <= 63
  <2>1. CASE Len(d) = 4
    <3>1. ~(Len(d) <= 3) /\ 4 <= Len(d)
      BY <2>1, SMT
    <3> QED
      BY <2>1, <3>1, Zenon DEF AtMost3FFFFFFF, Digit
  <2>2. CASE Len(d) # 4
    <3>1. ~(4 <= Len(d))
      BY <1>0, <1>00, <2>2, SizeOfMode
    <3> QED
      BY <3>1, SMT DEF Digit
  <2> QED
    BY <2>1, <2>2
<1>2. e = FourBytes(d)
  BY FourIs
<1> HIDE DEF x
<1>3. /\ b \in Nat /\ b % 4 = 2 /\ b % 4 # 3 /\ b \div 4 = x(1) % 64
  <2> DEFINE y == x(1)
  <2>1. y \in Nat /\ y <= 255
    BY <1>0, SMT
  <2> HIDE DEF y
  <2>2. LET f == (y % 64) * 4 + 2 IN f \in Nat /\ f % 4 = 2 /\ f % 4 # 3 /\ f \div 4 = y % 64
    BY <2>1, SMT
  <2> QED
    BY <2>2 DEF y
<1>4. Following(b) = 3
  BY <1>3, FollowingIs
<1>40. ASSUME NEW i \in 1 .. 3
       PROVE  c(i) \in Nat /\ c(i) % 4 = x(i) \div 64 /\ c(i) \div 4 = x(i + 1) % 64 /\ x(i) = (x(i) % 64) + (x(i) \div 64) * 64
  <2>1. i \in Nat \ {0} /\ i + 1 \in Nat \ {0}
    BY SMT
  <2> DEFINE y == x(i)
             z == x(i + 1)
             w == z % 64
  <2>2. y \in Nat /\ y <= 255 /\ z \in Nat /\ z <= 255
    BY <1>0, <2>1
  <2> HIDE DEF y, z
  <2>3. w \in 0 .. 63 /\ (y % 64) + (y \div 64) * 64 = y
    BY <2>2, Bits
  <2> HIDE DEF w
  <2>4. (y \div 64 + w * 4) \div 4 = w /\ (y \div 64 + w * 4) % 4 = y \div 64 /\ y \div 64 + w * 4 \in Nat
    BY <2>2, <2>3, Mixed
  <2> QED
    BY <2>3, <2>4 DEF y, z, w
<1>41. x(4) % 64 = x(4)
  <2> DEFINE y == x(4)
  <2>1. y \in Nat /\ y <= 63
    BY <1>0, <1>1, SMT
  <2> HIDE DEF y
  <2>2. y % 64 = y
    BY <2>1, SMT
  <2> QED
    BY <2>2 DEF y
<1> DEFINE c1 == c(1)
           c2 == c(2)
           c3 == c(3)
<1>42. /\ c1 \in Nat /\ c1 % 4 = x(1) \div 64 /\ c1 \div 4 = x(2) % 64
       /\ c2 \in Nat /\ c2 % 4 = x(2) \div 64 /\ c2 \div 4 = x(3) % 64
       /\ c3 \in Nat /\ c3 % 4 = x(3) \div 64 /\ c3 \div 4 = x(4)
       /\ (x(1) % 64) + (x(1) \div 64) * 64 = x(1) /\ (x(2) % 64) + (x(2) \div 64) * 64 = x(2)
       /\ (x(3) % 64) + (x(3) \div 64) * 64 = x(3)
  <2>1. 1 \in 1 .. 3 /\ 2 \in 1 .. 3 /\ 3 \in 1 .. 3 /\ 1 + 1 = 2 /\ 2 + 1 = 3 /\ 3 + 1 = 4
    BY SMT
  <2> HIDE DEF c
  <2> QED
    BY <1>40, <1>41, <2>1, SMT
<1>43. e = <<b, c1, c2, c3>>
  OBVIOUS
<1> HIDE DEF b, c, c1, c2, c3, e
<1>5. /\ e \in Seq(Nat) /\ Len(e) = 4 /\ e[1] = b /\ e[2] = c1 /\ e[3] = c2 /\ e[4] = c3
      /\ Len(e) \in Nat \ {0} /\ Len(e) - 1 = 3
  BY <1>3, <1>42, <1>43, SMT
<1>6. \A i \in 1 .. Len(e) : e[i] \div 4 + (Digit(e, i + 1) % 4) * 64 = Digit(d, i)
  <2>1. Digit(e, 1 + 1) = c1 /\ Digit(e, 2 + 1) = c2 /\ Digit(e, 3 + 1) = c3 /\ Digit(e, 4 + 1) = 0
    BY <1>5, SMT DEF Digit
  <2>2. \A i \in 1 .. Len(e) : i = 1 \/ i = 2 \/ i = 3 \/ i = 4
    BY <1>5, SMT
  <2>3. e[1] \div 4 + (Digit(e, 1 + 1) % 4) * 64 = x(1)
    BY <1>3, <1>42, <1>5, <2>1
  <2>4. e[2] \div 4 + (Digit(e, 2 + 1) % 4) * 64 = x(2)
    BY <1>42, <1>5, <2>1
  <2>5. e[3] \div 4 + (Digit(e, 3 + 1) % 4) * 64 = x(3)
    BY <1>42, <1>5, <2>1
  <2>6. e[4] \div 4 + (Digit(e, 4 + 1) % 4) * 64 = x(4)
    <3>1. x(4) \in Nat
      BY <1>0, SMT
    <3>2. x(4) + (0 % 4) * 64 = x(4)
      BY <3>1, SMT
    <3>3. e[4] \div 4 = x(4)
      BY <1>42, <1>5, Zenon
    <3> QED
      BY <2>1, <3>2, <3>3, Zenon
  <2> QED
    BY <2>2, <2>3, <2>4, <2>5, <2>6 DEF x
<1> QED
  BY <1>00, <1>2, <1>3, <1>4, <1>5, <1>6, ReadShort

\* A compact integer is read back, whatever follows it: decodeCompactInteger
\* gives the value encodeCompactInteger was given and leaves the rest of the
\* bytes, in each of the four modes, for every integer of at most 8 bytes (what
\* the long holds) outside 4096 .. 16383, of which two bytes keep too little.
THEOREM CompactRead ==
    ASSUME NEW d \in Exact, NEW rest \in Seq(Nat)
    PROVE  decodeCompactInteger(encodeCompactInteger(d) \o rest) = Read(d, rest)
<1>1. CASE AtMost63(d)
  BY <1>1, ExactType, EncodeIs, CompactOne
<1>2. CASE ~AtMost63(d) /\ AtMost3FFF(d)
  BY <1>2, ExactType, EncodeIs, CompactTwo
<1>3. CASE ~AtMost3FFF(d) /\ AtMost3FFFFFFF(d)
  BY <1>3, ExactType, EncodeIs, CompactFour
<1>4. CASE ~AtMost3FFFFFFF(d)
  <2>1. Len(d) >= 4
    BY <1>4, ExactType, SizeOfMode
  <2> QED
    BY <1>4, <2>1, ExactType, EncodeIs, ReadBig
<1> QED
  BY <1>1, <1>2, <1>3, <1>4

\* Bytes that are put together of digits are numbers, and make sequences.
LEMMA Packed ==
    ASSUME NEW a \in Nat, NEW b \in Nat
    PROVE  /\ a * 4 \in Nat /\ (a % 64) * 4 + 1 \in Nat /\ (a % 64) * 4 + 2 \in Nat
           /\ a \div 64 + (b % 16) * 4 \in Nat /\ a \div 64 + (b % 64) * 4 \in Nat
BY SMT

\* The tuples that are written out are sequences of numbers.
LEMMA Tuples ==
    ASSUME NEW a \in Nat, NEW b \in Nat, NEW c \in Nat, NEW e \in Nat
    PROVE  /\ <<a>> \in Seq(Nat) /\ <<a, b>> \in Seq(Nat) /\ <<a, b, c, e>> \in Seq(Nat)
           /\ Len(<<a>>) = 1 /\ Len(<<a, b>>) = 2 /\ Len(<<a, b, c, e>>) = 4
BY SMT

\* What is written are numbers, one more than the digits at most.
LEMMA EncodedType ==
    ASSUME NEW d \in Seq(Byte)
    PROVE  /\ encodeCompactInteger(d) \in Seq(Nat)
           /\ Len(encodeCompactInteger(d)) \in 1 .. 4 \/ Len(encodeCompactInteger(d)) = Len(d) + 1
<1>1. Len(d) \in Nat /\ d \in Seq(Nat)
  <2>1. Len(d) \in Nat
    BY Elements
  <2> QED
    BY <2>1, BytesAreNat, SMT
<1> DEFINE x(i) == Digit(d, i)
<1>2. \A i \in Nat \ {0} : x(i) \in Nat /\ x(i) <= 255
  BY DigitType
<1>3. x(1) \in Nat /\ x(2) \in Nat /\ x(3) \in Nat /\ x(4) \in Nat
  BY <1>2, SMT
<1>4. OneByte(d) = <<x(1) * 4>> /\ TwoBytes(d) = <<(x(1) % 64) * 4 + 1, x(1) \div 64 + (x(2) % 16) * 4>>
  BY DEF OneByte, TwoBytes
<1>5. FourBytes(d) = <<(x(1) % 64) * 4 + 2, x(1) \div 64 + (x(2) % 64) * 4,
                       x(2) \div 64 + (x(3) % 64) * 4, x(3) \div 64 + (x(4) % 64) * 4>>
  <2>1. 1 + 1 = 2 /\ 2 + 1 = 3 /\ 3 + 1 = 4
    BY SMT
  <2> QED
    BY <2>1, FourIs DEF x
<1>6. BigInteger(d) = <<(Len(d) - 4) * 4 + 3>> \o d
  BY DEF BigInteger
<1> HIDE DEF x
<1>7. OneByte(d) \in Seq(Nat) /\ Len(OneByte(d)) = 1
  <2>1. x(1) * 4 \in Nat
    BY <1>3, Packed, Zenon
  <2> QED
    BY <1>4, <2>1, Tuples, Zenon
<1>8. TwoBytes(d) \in Seq(Nat) /\ Len(TwoBytes(d)) = 2
  <2>1. (x(1) % 64) * 4 + 1 \in Nat /\ x(1) \div 64 + (x(2) % 16) * 4 \in Nat
    BY <1>3, Packed, Zenon
  <2> QED
    BY <1>4, <2>1, Tuples, Zenon
<1>9. FourBytes(d) \in Seq(Nat) /\ Len(FourBytes(d)) = 4
  <2> DEFINE a == (x(1) % 64) * 4 + 2
             b == x(1) \div 64 + (x(2) % 64) * 4
             c == x(2) \div 64 + (x(3) % 64) * 4
             e == x(3) \div 64 + (x(4) % 64) * 4
  <2>1. a \in Nat /\ b \in Nat /\ c \in Nat /\ e \in Nat
    BY <1>3, Packed, Zenon
  <2>2. FourBytes(d) = <<a, b, c, e>>
    BY <1>5, Zenon
  <2> HIDE DEF a, b, c, e
  <2>3. <<a, b, c, e>> \in Seq(Nat) /\ Len(<<a, b, c, e>>) = 4
    BY <2>1, Tuples, SMT
  <2> QED
    BY <2>2, <2>3
<1>10. ASSUME ~AtMost3FFFFFFF(d) PROVE BigInteger(d) \in Seq(Nat) /\ Len(BigInteger(d)) = Len(d) + 1
  <2> DEFINE b == (Len(d) - 4) * 4 + 3
  <2>1. Len(d) >= 4
    BY <1>1, <1>10, SizeOfMode
  <2>2. b \in Nat
    <3> DEFINE k == Len(d)
    <3>1. k \in Nat /\ k >= 4
      BY <1>1, <2>1
    <3> HIDE DEF k
    <3>2. (k - 4) * 4 + 3 \in Nat
      BY <3>1, SMT
    <3> QED
      BY <3>2 DEF k
  <2> HIDE DEF b
  <2>3. <<b>> \in Seq(Nat) /\ Len(<<b>>) = 1
    BY <2>2, SMT
  <2>4. <<b>> \o d \in Seq(Nat) /\ Len(<<b>> \o d) = 1 + Len(d)
    BY <1>1, <2>3, Joined
  <2>5. 1 + Len(d) = Len(d) + 1
    BY <1>1, SMT
  <2> QED
    BY <1>6, <2>4, <2>5 DEF b
<1>11. 1 \in 1 .. 4 /\ 2 \in 1 .. 4 /\ 4 \in 1 .. 4
  BY SMT
<1> QED
  BY <1>1, <1>7, <1>8, <1>9, <1>10, <1>11, EncodeIs

\* The lengths that are announced exactly.
Announceable == {n \in Nat : n < 4096 \/ (16384 <= n /\ n < 65536)}

\* Such a length has two digits, which make it up again.
LEMMA TwoDigits ==
    ASSUME NEW n \in Announceable
    PROVE  /\ n % 256 \in 0 .. 255 /\ n \div 256 \in 0 .. 255 /\ n = (n % 256) + 256 * (n \div 256)
           /\ n \div 256 \notin 16 .. 63
BY SMT DEF Announceable

\* The digits of a length.
LEMMA DigitsOf ==
    ASSUME NEW n \in Announceable
    PROVE  Digits(n) = Trimmed(<<n % 256, n \div 256, 0, 0>>)
<1>1. (n \div 256) % 256 = n \div 256 /\ (n \div 65536) % 256 = 0 /\ n \div 16777216 = 0
  BY SMT DEF Announceable
<1> QED
  BY <1>1, SMT DEF Digits

\* The number of two digits.
LEMMA ValueOf ==
    ASSUME NEW d, Digit(d, 1) \in Nat, Digit(d, 2) \in Nat, Digit(d, 3) = 0, Digit(d, 4) = 0
    PROVE  Value(d) = Digit(d, 1) + 256 * Digit(d, 2)
BY SMT DEF Value

\* A length is written exactly, and read as the same length.
LEMMA LengthAnnounced ==
    ASSUME NEW n \in Announceable
    PROVE  Digits(n) \in Exact /\ Value(Digits(n)) = n
<1> DEFINE a == n % 256
           b == n \div 256
           s == <<a, b, 0, 0>>
<1>1. a \in 0 .. 255 /\ b \in 0 .. 255 /\ n = a + 256 * b /\ b \notin 16 .. 63
  BY TwoDigits, SMT
<1>2. a \in Nat /\ b \in Nat /\ a \in Byte /\ b \in Byte
  BY <1>1, SMT DEF Byte
<1>5. Digits(n) = Trimmed(s)
  BY DigitsOf
<1> HIDE DEF a, b, s
<1>6. s \in Seq(Nat) /\ Len(s) = 4 /\ s[1] = a /\ s[2] = b /\ s[3] = 0 /\ s[4] = 0
  BY <1>2, SMT DEF s
<1>7. CASE b # 0
  <2> DEFINE d == <<a, b>>
  <2>1. d \in Seq(Byte) /\ Len(d) = 2 /\ d[1] = a /\ d[2] = b
    BY <1>2, SMT
  <2> HIDE DEF d
  <2>2. d \in Exact
    <3>1. Len(d) <= 8 /\ d[Len(d)] # 0
      BY <1>7, <2>1, SMT
    <3> QED
      BY <1>1, <2>1, <3>1, Zenon DEF Exact
  <2>3. Len(d) <= Len(s) /\ (\A i \in 1 .. Len(d) : s[i] = d[i]) /\ \A i \in Len(d) + 1 .. Len(s) : s[i] = 0
    BY <1>6, <2>1, SMT
  <2>4. Digits(n) = d
    BY <1>5, <1>6, <2>2, <2>3, ExactTrimmed
  <2>5. Digit(d, 1) = a /\ Digit(d, 2) = b /\ Digit(d, 3) = 0 /\ Digit(d, 4) = 0
    BY <2>1, SMT DEF Digit
  <2>6. Value(d) = n
    BY <1>1, <1>2, <2>5, ValueOf, SMT
  <2> QED
    BY <2>2, <2>4, <2>6
<1>8. CASE b = 0 /\ a # 0
  <2> DEFINE d == <<a>>
  <2>1. d \in Seq(Byte) /\ Len(d) = 1 /\ d[1] = a
    BY <1>2, SMT
  <2> HIDE DEF d
  <2>2. d \in Exact
    <3>1. Len(d) <= 8 /\ d[Len(d)] # 0 /\ Len(d) # 2
      BY <1>8, <2>1, SMT
    <3> QED
      BY <2>1, <3>1, Zenon DEF Exact
  <2>3. Len(d) <= Len(s) /\ (\A i \in 1 .. Len(d) : s[i] = d[i]) /\ \A i \in Len(d) + 1 .. Len(s) : s[i] = 0
    BY <1>6, <1>8, <2>1, SMT
  <2>4. Digits(n) = d
    BY <1>5, <1>6, <2>2, <2>3, ExactTrimmed
  <2>5. Digit(d, 1) = a /\ Digit(d, 2) = 0 /\ Digit(d, 3) = 0 /\ Digit(d, 4) = 0
    BY <2>1, SMT DEF Digit
  <2>6. Value(d) = n
    <3>1. Value(d) = a + 256 * 0 /\ n = a + 256 * 0
      BY <1>1, <1>2, <1>8, <2>5, ValueOf, SMT
    <3> QED
      BY <3>1
  <2> QED
    BY <2>2, <2>4, <2>6
<1>9. CASE b = 0 /\ a = 0
  <2> DEFINE d == <<>>
  <2>1. d \in Seq(Byte) /\ Len(d) = 0
    BY SMT
  <2> HIDE DEF d
  <2>2. d \in Exact
    BY <2>1, SMT DEF Exact
  <2>3. Len(d) <= Len(s) /\ (\A i \in 1 .. Len(d) : s[i] = d[i]) /\ \A i \in Len(d) + 1 .. Len(s) : s[i] = 0
    BY <1>6, <1>9, <2>1, SMT
  <2>4. Digits(n) = d
    BY <1>5, <1>6, <2>2, <2>3, ExactTrimmed
  <2>5. Digit(d, 1) = 0 /\ Digit(d, 2) = 0 /\ Digit(d, 3) = 0 /\ Digit(d, 4) = 0
    BY <2>1, SMT DEF Digit
  <2>6. Value(d) = n
    <3>1. Value(d) = 0 + 256 * 0 /\ n = 0 + 256 * 0
      BY <1>1, <1>2, <1>9, <2>5, ValueOf, SMT
    <3> QED
      BY <3>1
  <2> QED
    BY <2>2, <2>4, <2>6
<1> QED
  BY <1>7, <1>8, <1>9

-----------------------------------------------------------------------------
\* Accounts are bytes; nonces, as the lengths that follow from the sizes of
\* the methods, are numbers that the compact encoding keeps; amounts have up
\* to sixteen bytes.
ExtrinsicConstants ==
    /\ Account \subseteq Byte /\ Nonces \subseteq Exact /\ BufferSizes \subseteq Nat
    /\ Amounts \subseteq {d \in Seq(Byte) : Len(d) <= 16}
    /\ \A z \in MethodSizes : z \in Nat /\ \A k \in 0 .. 8 : DEFAULT_FIXED_EXSTRINSIC_SIZE + z + k \in Announceable

\* The parts of constant size.
LEMMA Filled ==
    ASSUME NEW a \in Nat, NEW n \in Nat
    PROVE  LET s == [i \in 1 .. n |-> a] IN s \in Seq(Nat) /\ Len(s) = n
BY SMT

\* The bytes that come before the nonce, and the signer's key among them.
Opening(sender) == <<SIGNATURE_VERSION, ADDRESS_SEPARATOR>> \o Key(sender) \o Sign(sender)

\* Their sizes, and the place of the key.
LEMMA OpeningIs ==
    ASSUME NEW a \in Nat
    PROVE  /\ Opening(a) \in Seq(Nat) /\ Len(Opening(a)) = 98
           /\ Key(a) \in Seq(Nat) /\ Len(Key(a)) = 32
           /\ \A i \in 1 .. 32 : Opening(a)[2 + i] = Key(a)[i]
<1> DEFINE v == <<SIGNATURE_VERSION, ADDRESS_SEPARATOR>>
           k == Key(a)
           g == Sign(a)
           f == v \o k
<1>1. v \in Seq(Nat)
  BY SMT DEF SIGNATURE_VERSION, ADDRESS_SEPARATOR
<1>2. k \in Seq(Nat) /\ g \in Seq(Nat)
  BY Filled DEF Key, PublicSize, Sign, SignatureSize
<1>3. Len(v) = 2 /\ Len(k) = 32 /\ Len(g) = 64
  BY Filled DEF Key, PublicSize, Sign, SignatureSize
<1> HIDE DEF v, k, g
<1>4. f \in Seq(Nat) /\ Len(f) = Len(v) + Len(k) /\ \A i \in 1 .. Len(k) : f[Len(v) + i] = k[i]
  BY <1>1, <1>2, Joined
<1> HIDE DEF f
<1>5. f \o g \in Seq(Nat) /\ Len(f \o g) = Len(f) + Len(g) /\ \A i \in 1 .. Len(f) : (f \o g)[i] = f[i]
  BY <1>2, <1>4, Joined
<1>6. Opening(a) = f \o g
  BY DEF Opening, f, v, k, g
<1>7. Len(f) = 34 /\ Len(f \o g) = 98
  BY <1>3, <1>4, <1>5, SMT
<1>8. ASSUME NEW i \in 1 .. 32 PROVE (f \o g)[2 + i] = k[i]
  <2>1. f[2 + i] = k[i]
    BY <1>3, <1>4
  <2>2. 2 + i \in 1 .. Len(f)
    BY <1>7, SMT
  <2> QED
    BY <1>5, <2>1, <2>2
<1>9. Opening(a) \in Seq(Nat) /\ Len(Opening(a)) = 98
  BY <1>5, <1>6, <1>7, Zenon
<1>10. \A i \in 1 .. 32 : Opening(a)[2 + i] = Key(a)[i]
  BY <1>6, <1>8, Zenon DEF k
<1>11. Key(a) \in Seq(Nat) /\ Len(Key(a)) = 32
  BY <1>2, <1>3, Zenon DEF k
<1> QED
  BY <1>9, <1>10, <1>11, Zenon

\* What is signed and sent: the opening, the nonce, the era and the method.
LEMMA SignedIs ==
    ASSUME NEW a \in Nat, NEW n \in Exact, NEW m \in Seq(Nat)
    PROVE  LET e == encodeCompactInteger(n)
               t == <<IMMORTAL_ERA>> \o m
               w == Signed(a, n, m)
           IN  /\ w = Opening(a) \o (e \o t) /\ w \in Seq(Nat) /\ Len(w) = 99 + Len(e) + Len(m)
               /\ e \in Seq(Nat) /\ e \o t \in Seq(Nat) /\ t \in Seq(Nat) /\ Len(t) = 1 + Len(m)
<1> DEFINE o == Opening(a)
           e == encodeCompactInteger(n)
           z == <<IMMORTAL_ERA>>
           t == z \o m
           w == Signed(a, n, m)
<1>1. o \in Seq(Nat) /\ e \in Seq(Nat) /\ z \in Seq(Nat)
  <2>1. z \in Seq(Nat)
    BY SMT DEF IMMORTAL_ERA
  <2> QED
    BY <2>1, OpeningIs, ExactType, EncodedType
<1>2. Len(o) = 98 /\ Len(z) = 1 /\ Len(e) \in Nat /\ Len(m) \in Nat
  BY <1>1, OpeningIs, Elements
<1>3. w = ((o \o e) \o z) \o m
  BY DEF Signed, Opening
<1> HIDE DEF o, e, z, w
<1>4. t \in Seq(Nat) /\ Len(t) = Len(z) + Len(m)
  BY <1>1, Joined
<1>5. o \o e \in Seq(Nat)
  BY <1>1, Joined
<1>6. ((o \o e) \o z) \o m = (o \o e) \o t
  BY <1>1, <1>5, JoinAssoc
<1> HIDE DEF t
<1>7. (o \o e) \o t = o \o (e \o t)
  <2>1. o \in Seq(Nat) /\ e \in Seq(Nat) /\ t \in Seq(Nat)
    BY <1>1, <1>4, Zenon
  <2> QED
    BY <2>1, JoinAssoc, Zenon
<1>8. e \o t \in Seq(Nat) /\ Len(e \o t) = Len(e) + Len(t)
  BY <1>1, <1>4, Joined
<1>9. o \o (e \o t) \in Seq(Nat) /\ Len(o \o (e \o t)) = Len(o) + Len(e \o t)
  BY <1>1, <1>8, Joined
<1>10. w = o \o (e \o t)
  BY <1>3, <1>6, <1>7
<1>11. Len(w) = 99 + Len(e) + Len(m) /\ Len(t) = 1 + Len(m)
  <2> DEFINE p == Len(e)
             q == Len(m)
             x == e \o t
             y == o \o x
  <2>1. p \in Nat /\ q \in Nat /\ Len(y) = Len(o) + Len(x) /\ Len(x) = p + Len(t) /\ Len(t) = Len(z) + q
    BY <1>2, <1>4, <1>8, <1>9
  <2>2. w = y
    BY <1>10
  <2> HIDE DEF p, q, x, y
  <2>3. Len(w) = 99 + p + q /\ Len(t) = 1 + q
    BY <1>2, <2>1, <2>2, SMT
  <2> QED
    BY <2>3 DEF p, q
<1> QED
  BY <1>1, <1>4, <1>8, <1>9, <1>10, <1>11 DEF e, z, t, o, w

\* What is read of an extrinsic.
LEMMA ParsedIs ==
    ASSUME NEW a \in Nat, NEW n \in Exact, NEW m \in Seq(Nat), Len(m) >= 2, NEW l \in Announceable, NEW kind
    PROVE  LET e == Extrinsic(kind, a, n, m, l)
               p == Parse(e.bytes)
           IN  /\ Announced(e) = Read(Digits(l), Signed(a, n, m))
               /\ p.signer = Key(a) /\ p.nonce = n /\ p.era = IMMORTAL_ERA
               /\ <<p.moduleIndex, p.methodIndex>> \o p.methodBytes = m
               /\ p.moduleIndex \in Nat /\ p.methodIndex \in Nat /\ p.methodBytes \in Seq(Nat)
<1> DEFINE w == Signed(a, n, m)
           o == Opening(a)
           e == encodeCompactInteger(n)
           t == <<IMMORTAL_ERA>> \o m
           bytes == encodeCompactInteger(Digits(l)) \o w
           p == Parse(bytes)
<1>1. w = o \o (e \o t) /\ w \in Seq(Nat) /\ e \o t \in Seq(Nat) /\ t \in Seq(Nat) /\ o \in Seq(Nat)
  BY SignedIs, OpeningIs
<1>2. decodeCompactInteger(bytes) = Read(Digits(l), w)
  BY <1>1, LengthAnnounced, CompactRead
<1>3. Len(o) = 98
  BY OpeningIs
<1>4. SubSeq(w, 3 + PublicSize + SignatureSize, Len(w)) = e \o t
  <2>1. SubSeq(w, Len(o) + 1, Len(w)) = e \o t
    BY <1>1, BackOf
  <2>2. Len(o) + 1 = 3 + PublicSize + SignatureSize
    BY <1>3, SMT DEF PublicSize, SignatureSize
  <2> QED
    BY <2>1, <2>2, Zenon
<1>5. decodeCompactInteger(e \o t) = Read(n, t)
  BY <1>1, CompactRead
<1>6. SubSeq(w, 3, 2 + PublicSize) = Key(a)
  <2> DEFINE k == Key(a)
             c == SubSeq(w, 3, 34)
  <2>1. /\ k \in Seq(Nat) /\ Len(k) = 32 /\ \A i \in 1 .. 32 : o[2 + i] = k[i]
    BY OpeningIs
  <2>2. Len(w) = Len(o) + Len(e \o t) /\ (\A i \in 1 .. Len(o) : w[i] = o[i]) /\ Len(e \o t) \in Nat
    BY <1>1, Joined, Elements, SMT
  <2> HIDE DEF k, c, w, o
  <2>3. 34 <= Len(w) /\ Len(w) \in Nat
    BY <1>3, <2>2, SMT
  <2>4. c \in Seq(Nat) /\ Len(c) = 32 /\ \A i \in 1 .. 32 : c[i] = w[2 + i]
    <3> DEFINE x == 3
               y == 34
    <3>1. y \in Nat /\ x \in Nat /\ 1 <= x /\ x <= y + 1 /\ y <= Len(w) /\ w \in Seq(Nat)
      BY <1>1, <2>3, SMT
    <3>2. y - x + 1 = 32 /\ (\A i \in 1 .. 32 : x + i - 1 = 2 + i)
      BY SMT
    <3>3. c = SubSeq(w, x, y)
      BY DEF c
    <3> HIDE DEF x, y
    <3>4. c \in Seq(Nat) /\ Len(c) = y - x + 1 /\ \A i \in 1 .. y - x + 1 : c[i] = w[x + i - 1]
      BY <3>1, <3>3, Cut
    <3> QED
      BY <3>2, <3>4, Zenon
  <2>5. \A i \in 1 .. 32 : 2 + i \in 1 .. Len(o)
    BY <1>3, SMT
  <2>6. Len(c) = Len(k) /\ \A i \in 1 .. Len(c) : c[i] = k[i]
    BY <2>1, <2>2, <2>4, <2>5, Zenon
  <2>7. c = k
    BY <2>1, <2>4, <2>6, SameSeq
  <2>8. 2 + PublicSize = 34
    BY SMT DEF PublicSize
  <2> QED
    BY <2>7, <2>8 DEF c, k, w, o
<1>7. t[1] = 0 /\ t[2] = m[1] /\ t[3] = m[2] /\ m[1] \in Nat /\ m[2] \in Nat /\ Len(t) = Len(m) + 1 /\ Len(m) \in Nat
  BY SMT DEF IMMORTAL_ERA
<1> DEFINE b == SubSeq(t, 4, Len(t))
<1> HIDE DEF w, e, o
<1>8. /\ p.signer = Key(a) /\ p.nonce = n /\ p.era = IMMORTAL_ERA
      /\ p.moduleIndex = m[1] /\ p.methodIndex = m[2] /\ p.methodBytes = b
  <2> HIDE DEF bytes
  <2>1. decodeCompactInteger(bytes).rest = w /\ decodeCompactInteger(e \o t).rest = t /\ decodeCompactInteger(e \o t).val = n
    BY <1>2, <1>5, ReadIs, Zenon
  <2> HIDE DEF t
  <2> QED
    BY <1>4, <1>6, <1>7, <2>1 DEF Parse, b
<1>9. b \in Seq(Nat) /\ <<m[1], m[2]>> \o b = m
  <2> DEFINE h == <<m[1], m[2]>>
             q == Len(m)
             x == 4
             y == Len(t)
             c == h \o b
  <2>1. q \in Nat /\ q >= 2 /\ y = q + 1 /\ x = 4
    BY <1>7
  <2>2. h \in Seq(Nat) /\ Len(h) = 2 /\ h[1] = m[1] /\ h[2] = m[2]
    BY <1>7, SMT
  <2>3. \A i \in 1 .. q : t[1 + i] = m[i]
    BY SMT
  <2>4. b = SubSeq(t, x, y)
    OBVIOUS
  <2> HIDE DEF q, x, y, h, b
  <2>5. y \in Nat /\ x \in Nat /\ 1 <= x /\ x <= y + 1 /\ y - x + 1 = q - 2 /\ q - 2 \in Nat
    BY <2>1, SMT
  <2>6. t \in Seq(Nat) /\ y <= Len(t)
    BY <1>1, <2>5, SMT DEF y
  <2>7. b \in Seq(Nat) /\ Len(b) = y - x + 1 /\ \A i \in 1 .. y - x + 1 : b[i] = t[x + i - 1]
    BY <2>4, <2>5, <2>6, Cut
  <2>8. ASSUME NEW i \in 1 .. q - 2 PROVE b[i] = m[2 + i]
    <3>1. x + i - 1 = 1 + (2 + i) /\ 2 + i \in 1 .. q
      BY <2>1, SMT
    <3> QED
      BY <2>3, <2>5, <2>7, <3>1
  <2>9. c \in Seq(Nat) /\ Len(c) = Len(h) + Len(b) /\ (\A i \in 1 .. Len(h) : c[i] = h[i]) /\ \A i \in 1 .. Len(b) : c[Len(h) + i] = b[i]
    BY <2>2, <2>7, Joined
  <2> HIDE DEF c
  <2>10. Len(c) = q
    BY <2>1, <2>2, <2>5, <2>7, <2>9, SMT
  <2>11. ASSUME NEW i \in 1 .. q PROVE c[i] = m[i]
    <3>1. CASE i = 1 \/ i = 2
      BY <2>2, <2>9, <3>1, SMT
    <3>2. CASE i # 1 /\ i # 2
      <4>1. i - 2 \in 1 .. q - 2 /\ 2 + (i - 2) = i
        BY <2>1, <3>2, SMT
      <4>2. c[2 + (i - 2)] = b[i - 2] /\ b[i - 2] = m[2 + (i - 2)]
        BY <2>2, <2>5, <2>7, <2>8, <2>9, <4>1
      <4> QED
        BY <4>1, <4>2
    <3> QED
      BY <3>1, <3>2
  <2>12. c = m
    BY <2>9, <2>10, <2>11, SameSeq DEF q
  <2> QED
    BY <2>7, <2>12 DEF c, h
<1> HIDE DEF p, bytes
<1>10. Extrinsic(kind, a, n, m, l).bytes = bytes
  BY DEF Extrinsic, bytes, w
<1> QED
  BY <1>2, <1>7, <1>8, <1>9, <1>10 DEF p, w, Announced

\* What holds of one extrinsic.
ReadBack(e) ==
    LET p == Parse(e.bytes)
    IN  p.signer = Key(e.sender) /\ p.nonce = e.nonce /\ <<p.moduleIndex, p.methodIndex>> \o p.methodBytes = e.method

SentRight(e) ==
    /\ ReadBack(e)
    /\ e.call # "watch" => Value(Announced(e).val) = Len(Announced(e).rest)
    /\ Len(e.method) <= 255 => e.payload = Expected(e)

\* The extrinsics that the api can send.
Sendable ==
    {Extrinsic(kind, a, n, m, l) :
        kind \in {"transfer", "submit", "watch"}, a \in Byte, n \in Exact, m \in Seq(Nat), l \in Announceable}

\* The fields of an extrinsic.
LEMMA Fields ==
    ASSUME NEW kind, NEW a, NEW n, NEW m, NEW l
    PROVE  LET e == Extrinsic(kind, a, n, m, l)
           IN  e.call = kind /\ e.sender = a /\ e.nonce = n /\ e.method = m /\ e.payload = SignaturePayload(n, m)
BY DEF Extrinsic

\* The payload that was signed.
LEMMA PayloadIs ==
    ASSUME NEW kind, NEW a \in Nat, NEW n \in Exact, NEW m \in Seq(Nat), Len(m) >= 2, Len(m) <= 255,
           NEW l \in Announceable
    PROVE  LET e == Extrinsic(kind, a, n, m, l) IN e.payload = Expected(e)
<1> DEFINE e == Extrinsic(kind, a, n, m, l)
           p == Parse(e.bytes)
           x == encodeCompactInteger(n)
           h == <<p.moduleIndex, p.methodIndex>>
           b == p.methodBytes
<1>1. p.nonce = n /\ p.era = IMMORTAL_ERA /\ h \o b = m /\ p.moduleIndex \in Nat /\ p.methodIndex \in Nat /\ b \in Seq(Nat)
  BY ParsedIs, SMT
<1>2. e.payload = x \o SubSeq(m, 1, Len(m) % 256) \o <<IMMORTAL_ERA>> \o GenesisHash
  <2>1. e.payload = SignaturePayload(n, m)
    BY Fields, SMT
  <2> QED
    BY <2>1 DEF SignaturePayload
<1>3. SubSeq(m, 1, Len(m) % 256) = m
  <2> DEFINE k == Len(m)
  <2>1. k \in Nat /\ k <= 255
    BY Elements
  <2>2. SubSeq(m, 1, k) = m
    BY SMT
  <2> HIDE DEF k
  <2>3. k % 256 = k
    BY <2>1, SMT
  <2> QED
    BY <2>2, <2>3 DEF k
<1>4. Expected(e) = ((x \o h) \o b) \o <<IMMORTAL_ERA>> \o GenesisHash
  BY <1>1 DEF Expected
<1>5. (x \o h) \o b = x \o (h \o b)
  <2>1. x \in Seq(Nat)
    BY ExactType, EncodedType
  <2>2. h \in Seq(Nat)
    <3> HIDE DEF p
    <3> QED
      BY <1>1, SMT
  <2> HIDE DEF x, h, b
  <2> QED
    BY <1>1, <2>1, <2>2, JoinAssoc DEF b
<1> HIDE DEF p, x, h, b
<1>6. h \o b = m
  BY <1>1
<1>7. e.payload = x \o m \o <<IMMORTAL_ERA>> \o GenesisHash
  BY <1>2, <1>3
<1>8. Expected(e) = x \o m \o <<IMMORTAL_ERA>> \o GenesisHash
  BY <1>4, <1>5, <1>6
<1> QED
  BY <1>7, <1>8

\* An extrinsic that the api sends is right.
LEMMA SentOne ==
    ASSUME NEW kind \in {"transfer", "submit", "watch"}, NEW a \in Byte, NEW n \in Exact, NEW m \in Seq(Nat),
           Len(m) >= 2, NEW l \in Announceable,
           kind # "watch" => l = 99 + Len(encodeCompactInteger(n)) + Len(m)
    PROVE  Extrinsic(kind, a, n, m, l) \in Sendable /\ SentRight(Extrinsic(kind, a, n, m, l))
<1> DEFINE e == Extrinsic(kind, a, n, m, l)
<1>1. a \in Nat
  BY BytesAreNat
<1>2. e.call = kind /\ e.sender = a /\ e.nonce = n /\ e.method = m
  BY Fields, SMT
<1>3. e \in Sendable
  BY SMT DEF Sendable
<1> DEFINE p == Parse(e.bytes)
<1>30. /\ Announced(e) = Read(Digits(l), Signed(a, n, m))
       /\ p.signer = Key(a) /\ p.nonce = n /\ <<p.moduleIndex, p.methodIndex>> \o p.methodBytes = m
  BY <1>1, ParsedIs, SMT
<1>4. ReadBack(e)
  <2> HIDE DEF e
  <2> QED
    BY <1>2, <1>30 DEF ReadBack
<1>5. ASSUME kind # "watch" PROVE Value(Announced(e).val) = Len(Announced(e).rest)
  <2>1. Announced(e).val = Digits(l) /\ Announced(e).rest = Signed(a, n, m)
    <3> HIDE DEF e
    <3> QED
      BY <1>30, SMT DEF Read
  <2>2. Len(Signed(a, n, m)) = l
    BY <1>1, <1>5, SignedIs
  <2> QED
    BY <2>1, <2>2, LengthAnnounced
<1>6. ASSUME Len(m) <= 255 PROVE e.payload = Expected(e)
  BY <1>1, <1>6, PayloadIs
<1> HIDE DEF e
<1>7. SentRight(e)
  BY <1>2, <1>4, <1>5, <1>6 DEF SentRight
<1> QED
  BY <1>3, <1>7 DEF e

\* The inductive invariant: every extrinsic sent is one that the api can send,
\* and right; what pendingExtrinsics returned is read of the first of them.
SentInv ==
    /\ sent \in Seq(Sendable) /\ \A i \in 1 .. Len(sent) : SentRight(sent[i])
    /\ report.of \in Nat /\ report.of <= Len(sent) /\ report.size \in Nat /\ report.count = report.of
    /\ report.buf = [i \in 1 .. (IF report.of < report.size THEN report.of ELSE report.size) |-> Parse(sent[i].bytes)]

\* The invariant implies the property,
LEMMA SentInvImplies == SentInv => ExtrinsicIsSent
<1> SUFFICES ASSUME SentInv PROVE ExtrinsicIsSent
  OBVIOUS
<1> DEFINE f == IF report.of < report.size THEN report.of ELSE report.size
<1>1. /\ DOMAIN sent = 1 .. Len(sent) /\ Len(sent) \in Nat /\ \A i \in 1 .. Len(sent) : SentRight(sent[i])
      /\ report.of \in Nat /\ report.of <= Len(sent) /\ report.size \in Nat /\ report.count = report.of
  BY Elements DEF SentInv
<1>2. report.buf = [i \in 1 .. f |-> Parse(sent[i].bytes)]
  BY DEF SentInv
<1>3. f \in Nat /\ f <= Len(sent)
  BY <1>1, SMT
<1> HIDE DEF f
<1>4. Len(report.buf) = f /\ DOMAIN report.buf = 1 .. f
  BY <1>2, <1>3, SMT
<1>5. LengthMatches /\ SignedIsSent
  BY <1>1, Zenon DEF LengthMatches, SignedIsSent, SentRight
<1>6. \A i \in 1 .. f : report.buf[i] = Parse(sent[i].bytes) /\ i \in 1 .. Len(sent)
  BY <1>1, <1>2, <1>3, SMT
<1>7. \A i \in 1 .. f : ReadBack(sent[i])
  BY <1>1, <1>6, Zenon DEF SentRight
<1>8. PendingIsSent
  BY <1>1, <1>4, <1>6, <1>7, Zenon DEF PendingIsSent, ReadBack, f
<1> QED
  BY <1>5, <1>8 DEF ExtrinsicIsSent

\* holds at the start,
LEMMA SentInit == Init => SentInv
<1> SUFFICES ASSUME Init PROVE SentInv
  OBVIOUS
<1>1. sent = <<>> /\ report.of = 0 /\ report.size = 0 /\ report.count = 0 /\ report.buf = <<>>
  BY DEF Init
<1>2. sent \in Seq(Sendable) /\ Len(sent) = 0
  BY <1>1, SMT
<1>3. \A i \in 1 .. Len(sent) : FALSE
  BY <1>2, SMT
<1>4. report.buf = [i \in 1 .. 0 |-> Parse(sent[i].bytes)]
  BY <1>1, SMT
<1> QED
  BY <1>1, <1>2, <1>3, <1>4, SMT DEF SentInv

\* One more extrinsic.
LEMMA SentMore ==
    ASSUME SentInv, NEW e \in Sendable, SentRight(e), Send(e)
    PROVE  SentInv'
<1>1. sent' = Append(sent, e) /\ report' = report /\ sent \in Seq(Sendable)
  BY DEF Send, SentInv
<1>2. sent' \in Seq(Sendable) /\ Len(sent') = Len(sent) + 1 /\ Len(sent) \in Nat
  BY <1>1, SMT
<1>3. \A i \in 1 .. Len(sent) : sent'[i] = sent[i]
  BY <1>1, SMT
<1>4. sent'[Len(sent) + 1] = e
  BY <1>1, SMT
<1>5. \A i \in 1 .. Len(sent') : SentRight(sent'[i])
  <2>1. \A i \in 1 .. Len(sent') : i \in 1 .. Len(sent) \/ i = Len(sent) + 1
    BY <1>2, SMT
  <2> QED
    BY <1>3, <1>4, <2>1 DEF SentInv
<1> DEFINE f == IF report.of < report.size THEN report.of ELSE report.size
<1>6. report.of \in Nat /\ report.of <= Len(sent) /\ report.size \in Nat /\ report.count = report.of
  BY DEF SentInv
<1>7. report.of <= Len(sent') /\ \A i \in 1 .. f : i \in 1 .. Len(sent)
  BY <1>2, <1>6, SMT
<1>8. report.buf = [i \in 1 .. f |-> Parse(sent[i].bytes)]
  BY DEF SentInv
<1> HIDE DEF f
<1>9. report.buf = [i \in 1 .. f |-> Parse(sent'[i].bytes)]
  BY <1>3, <1>7, <1>8, Zenon
<1> QED
  BY <1>1, <1>2, <1>5, <1>6, <1>7, <1>9 DEF SentInv, f

\* A nonce takes nine bytes at most.
LEMMA SizeOfNonce ==
    ASSUME NEW n \in Exact
    PROVE  encodeCompactInteger(n) \in Seq(Nat) /\ Len(encodeCompactInteger(n)) \in 1 .. 9
<1> DEFINE k == Len(n)
           c == Len(encodeCompactInteger(n))
<1>1. k \in Nat /\ k <= 8 /\ encodeCompactInteger(n) \in Seq(Nat) /\ (c \in 1 .. 4 \/ c = k + 1)
  BY ExactType, EncodedType
<1> HIDE DEF k, c
<1>2. c \in 1 .. 9
  BY <1>1, SMT
<1> QED
  BY <1>1, <1>2 DEF c

\* The two kinds of methods.
LEMMA MethodOfTransfer ==
    ASSUME NEW r \in Byte, NEW a \in Seq(Byte), Len(a) <= 16
    PROVE  LET m == SerializeTransferMethod(r, a)
               x == encodeCompactInteger(a)
           IN  m \in Seq(Nat) /\ Len(m) = 35 + Len(x) /\ x \in Seq(Nat) /\ Len(x) \in 1 .. 17
<1> DEFINE h == <<ModuleIndex, MethodIndex, ADDRESS_SEPARATOR>>
           k == Key(r)
           x == encodeCompactInteger(a)
           g == h \o k
           c == Len(x)
           q == Len(a)
<1>1. h \in Seq(Nat) /\ Len(h) = 3
  BY SMT DEF ModuleIndex, MethodIndex, ADDRESS_SEPARATOR
<1>2. k \in Seq(Nat) /\ Len(k) = 32
  BY BytesAreNat, OpeningIs
<1>3. x \in Seq(Nat) /\ (c \in 1 .. 4 \/ c = q + 1) /\ q \in Nat /\ q <= 16
  BY EncodedType, Elements
<1>4. SerializeTransferMethod(r, a) = g \o x
  BY DEF SerializeTransferMethod
<1> HIDE DEF h, k, x, q
<1>5. h \in Seq(Nat) /\ k \in Seq(Nat) /\ x \in Seq(Nat)
  BY <1>1, <1>2, <1>3
<1>6. g \in Seq(Nat) /\ Len(g) = Len(h) + Len(k)
  BY <1>5, Joined
<1> HIDE DEF g
<1>7. g \o x \in Seq(Nat) /\ Len(g \o x) = Len(g) + c
  BY <1>5, <1>6, Joined
<1> HIDE DEF c
<1>8. Len(g \o x) = 35 + c /\ c \in 1 .. 17
  <2>1. Len(g) = 3 + 32
    BY <1>1, <1>2, <1>6, Zenon
  <2>2. Len(g \o x) = 3 + 32 + c
    BY <1>7, <2>1, Zenon
  <2>3. (c \in 1 .. 4 \/ c = q + 1) /\ q \in Nat /\ q <= 16
    BY <1>3, Zenon
  <2>4. c \in 1 .. 17 /\ 3 + 32 + c = 35 + c
    BY <2>3, SMT
  <2> QED
    BY <2>2, <2>4, Zenon
<1> QED
  BY <1>3, <1>4, <1>7, <1>8, Zenon DEF c, x

\* The method of submitExtrinsic.
LEMMA MessageIs ==
    ASSUME NEW z \in Nat
    PROVE  CompleteMessage(z) \in Seq(Nat) /\ Len(CompleteMessage(z)) = 3 + z
<1> DEFINE h == <<ModuleIndex, MethodIndex, ADDRESS_SEPARATOR>>
           b == [i \in 1 .. z |-> i % 256]
<1>1. h \in Seq(Nat) /\ Len(h) = 3
  BY SMT DEF ModuleIndex, MethodIndex, ADDRESS_SEPARATOR
<1>2. b \in Seq(Nat) /\ Len(b) = z
  BY SMT
<1> HIDE DEF h, b
<1>3. h \o b \in Seq(Nat) /\ Len(h \o b) = Len(h) + Len(b)
  BY <1>1, <1>2, Joined
<1> QED
  BY <1>1, <1>2, <1>3 DEF CompleteMessage, h, b

\* and is kept by every step.
LEMMA SentNext == ExtrinsicConstants /\ SentInv /\ [Next]_vars => SentInv'
<1> SUFFICES ASSUME ExtrinsicConstants, SentInv, [Next]_vars PROVE SentInv'
  OBVIOUS
<1>0. Account \subseteq Byte /\ Nonces \subseteq Exact /\ BufferSizes \subseteq Nat
  BY DEF ExtrinsicConstants
<1>1. CASE UNCHANGED vars
  BY <1>1 DEF vars, SentInv
<1>2. ASSUME NEW s \in Account, NEW r \in Account, NEW n \in Nonces, NEW a \in Amounts, signAndSendTransfer(s, r, n, a)
      PROVE  SentInv'
  <2> DEFINE m == SerializeTransferMethod(r, a)
             x == encodeCompactInteger(a)
             y == encodeCompactInteger(n)
             l == FixedTransferSize + Len(x) + Len(y)
             e == Extrinsic("transfer", s, n, m, l)
  <2>1. m \in Seq(Nat) /\ Len(m) = 35 + Len(x) /\ x \in Seq(Nat) /\ y \in Seq(Nat) /\ Len(x) \in 1 .. 17 /\ Len(y) \in 1 .. 9
    BY <1>0, MethodOfTransfer, SizeOfNonce DEF ExtrinsicConstants
  <2>2. Send(e)
    BY <1>2 DEF signAndSendTransfer
  <2> HIDE DEF m, x, y
  <2>3. l = 99 + Len(y) + Len(m) /\ Len(m) >= 2 /\ l \in Announceable
    <3> DEFINE p == Len(x)
               q == Len(y)
               k == Len(m)
    <3>1. k = 35 + p /\ p \in 1 .. 17 /\ q \in 1 .. 9
      BY <2>1
    <3> HIDE DEF p, q, k
    <3>2. LET j == FixedTransferSize + p + q IN j = 99 + q + k /\ k >= 2 /\ j \in Announceable
      BY <3>1, SMT DEF FixedTransferSize, Announceable
    <3> QED
      BY <3>2, Zenon DEF p, q, k
  <2> HIDE DEF l
  <2>4. e \in Sendable /\ SentRight(e)
    BY <1>0, <2>1, <2>3, SentOne DEF y
  <2> QED
    BY <2>2, <2>4, SentMore
<1>3. ASSUME NEW s \in Account, NEW n \in Nonces, NEW z \in MethodSizes, submitExtrinsic(s, n, z)
      PROVE  SentInv'
  <2> DEFINE m == CompleteMessage(z)
             y == encodeCompactInteger(n)
             l == DEFAULT_FIXED_EXSTRINSIC_SIZE + z + Len(y) - 1
             e == Extrinsic("submit", s, n, m, l)
  <2>1. z \in Nat /\ m \in Seq(Nat) /\ Len(m) = 3 + z /\ y \in Seq(Nat) /\ Len(y) \in 1 .. 9
    BY <1>0, MessageIs, SizeOfNonce DEF ExtrinsicConstants
  <2>2. Send(e)
    BY <1>3 DEF submitExtrinsic
  <2> HIDE DEF m, y
  <2>3. l = 99 + Len(y) + Len(m) /\ Len(m) >= 2 /\ Len(y) - 1 \in 0 .. 8
    BY <2>1, SMT DEF DEFAULT_FIXED_EXSTRINSIC_SIZE
  <2>4. l = DEFAULT_FIXED_EXSTRINSIC_SIZE + z + (Len(y) - 1)
    BY <2>1, SMT DEF DEFAULT_FIXED_EXSTRINSIC_SIZE
  <2>5. l \in Announceable
    BY <2>3, <2>4 DEF ExtrinsicConstants
  <2> HIDE DEF l
  <2>6. e \in Sendable /\ SentRight(e)
    BY <1>0, <2>1, <2>3, <2>5, SentOne DEF y
  <2> QED
    BY <2>2, <2>6, SentMore
<1>4. ASSUME NEW s \in Account, NEW n \in Nonces, NEW z \in MethodSizes, submitAndSubcribeExtrinsic(s, n, z)
      PROVE  SentInv'
  <2> DEFINE m == CompleteMessage(z)
             l == DEFAULT_FIXED_EXSTRINSIC_SIZE + z
             e == Extrinsic("watch", s, n, m, l)
  <2>1. z \in Nat /\ m \in Seq(Nat) /\ Len(m) = 3 + z
    BY MessageIs DEF ExtrinsicConstants
  <2>2. Send(e)
    BY <1>4 DEF submitAndSubcribeExtrinsic
  <2> HIDE DEF m
  <2>3. Len(m) >= 2 /\ 0 \in 0 .. 8 /\ l = DEFAULT_FIXED_EXSTRINSIC_SIZE + z + 0
    BY <2>1, SMT DEF DEFAULT_FIXED_EXSTRINSIC_SIZE
  <2>4. l \in Announceable
    BY <2>3 DEF ExtrinsicConstants
  <2> HIDE DEF l
  <2>5. e \in Sendable /\ SentRight(e)
    BY <1>0, <2>1, <2>3, <2>4, SentOne
  <2> QED
    BY <2>2, <2>5, SentMore
<1>5. ASSUME NEW b \in BufferSizes, pendingExtrinsics(b) PROVE SentInv'
  <2> DEFINE f == IF Len(sent) < b THEN Len(sent) ELSE b
  <2>1. /\ report'.count = Len(sent) /\ report'.of = Len(sent) /\ report'.size = b /\ sent' = sent
        /\ report'.buf = [i \in 1 .. f |-> Parse(sent[i].bytes)]
    BY <1>5 DEF pendingExtrinsics
  <2>2. Len(sent) \in Nat /\ b \in Nat /\ Len(sent) <= Len(sent)
    <3>1. Len(sent) \in Nat
      BY Elements DEF SentInv
    <3> QED
      BY <1>0, <3>1, SMT
  <2> QED
    BY <2>1, <2>2, Zenon DEF SentInv
<1> QED
  BY <1>1, <1>2, <1>3, <1>4, <1>5, Zenon DEF Next

\* Extrinsics (signAndSendTransfer, submitExtrinsic and pendingExtrinsics of
\* application.cpp), for all accounts, nonces, amounts and methods that the
\* compact encoding keeps, however many are sent: each announces its own
\* length, what was signed is what its receiver rebuilds, and the pool is read
\* back as it was sent.
THEOREM ExtrinsicsHold ==
    ASSUME ExtrinsicConstants
    PROVE  Spec => []ExtrinsicIsSent
BY SentInit, SentNext, SentInvImplies, PTL DEF Spec

-----------------------------------------------------------------------------
(* Queries.                                                                *)

\* The bounds are numbers.
QueryConstants == MaxPeers \in Nat /\ MAX_PEER_COUNT \in Nat /\ BufferSizes \subseteq Nat

\* What the node can have answered to the requests of a method, from one height
\* of its chain to another.
HashAnswers(lo, hi) == {Query!Null} \cup {Query!S(Query!Hash(b)) : b \in lo .. hi}
ValueAnswers(variable, lo, hi) == {Query!Null} \cup {Query!S(Query!ValueAt(variable, b)) : b \in lo .. hi}
SizeAnswers(lo, hi) == {Query!Null} \cup {Query!N(b + 1) : b \in lo .. hi}
BlockAnswers(args, hi) ==
    {Query!Null} \cup {Query!Block(b) : b \in {b \in 0 .. hi : args = <<>> \/ args = <<Query!Hash(b)>>}}
PeerAnswers == {Query!Null, Query!A([i \in 1 .. peers |-> Query!O([peerId |-> Query!S(Query!Text(i))])])}
Change(i)  == Query!O([block |-> Query!S(Query!Hash(i)),
                       changes |-> Query!A(<<Query!A(<<Query!S(Query!Text(0)), Query!S(Query!Text(i))>>)>>)])
Changed(h) == Query!A([i \in 1 .. h |-> Change(i)])
ChangeAnswers(lo, hi) == {Query!Null} \cup {Changed(h) : h \in lo .. hi}

One(X)    == {<<>>} \cup {<<x>> : x \in X}
Two(X, Y) == One(X) \cup {<<x, y>> : x \in X, y \in Y}

\* The answers that the method which runs has got so far.
GotRight(c) ==
    /\ DOMAIN c = {"method", "args", "got", "from"} /\ c.from \in Nat /\ c.from <= head
    /\ c.method \in {"getStorage", "getStorageHash"} =>
           c.got \in Two(HashAnswers(c.from, head), ValueAnswers(c.args, c.from, head))
    /\ c.method = "getStorageSize" => c.got \in Two(HashAnswers(c.from, head), SizeAnswers(c.from, head))
    /\ c.method = "getBlock" =>
           c.args \in {<<>>} \cup {<<Query!Hash(b)>> : b \in Nat} /\ c.got \in One(BlockAnswers(c.args, head))
    /\ c.method = "getSystemPeers" => c.got \in One(PeerAnswers)
    /\ c.method = "queryStorage" => c.args \in Nat /\ c.got \in One(ChangeAnswers(c.from, head))

\* A block has its own number, also that of blocks to come.
BlockNumbered ==
    \A b \in Nat :
        (Query!Got("getBlock") /\ returned.answered /\ returned.args = <<Query!Hash(b)>>) =>
            returned.value.header.number = Query!Number(Query!fromHex(Query!NumberText(b), TRUE, 8))

\* The inductive invariant.
QueryInv ==
    /\ head \in Nat /\ peers \in Nat
    /\ call # Query!NoCall => GotRight(call)
    /\ Query!StorageOfAHead /\ BlockNumbered /\ Query!PeersFit /\ Query!FirstItems

\* It implies the property,
LEMMA QueryInvImplies == QueryInv => QueriesAreRight
<1> SUFFICES ASSUME QueryInv PROVE QueriesAreRight
  OBVIOUS
<1>1. \A b \in 0 .. head : b \in Nat
  BY SMT
<1>2. Query!BlockHasItsNumber
  BY <1>1, Zenon DEF QueryInv, BlockNumbered, Query!BlockHasItsNumber
<1> QED
  BY <1>2 DEF QueryInv, QueriesAreRight, Query!QueriesAreRight

\* and holds at the start.
LEMMA QueryInit == QueryConstants /\ Query!Init => QueryInv
<1> SUFFICES ASSUME QueryConstants, Query!Init PROVE QueryInv
  OBVIOUS
<1>1. head \in Nat /\ peers \in Nat /\ call = Query!NoCall /\ returned = Query!NoCall
  BY SMT DEF Query!Init, QueryConstants
<1>2. \A m : Query!Got(m) => m = "none"
  BY <1>1 DEF Query!Got, Query!NoCall
<1> QED
  BY <1>1, <1>2 DEF QueryInv, Query!StorageOfAHead, BlockNumbered, Query!PeersFit, Query!FirstItems

\* What a method does next.
LEMMA DoesIs ==
    ASSUME NEW c
    PROVE  /\ c.method = "getStorage" => Query!Does(c) = Query!getStorage(c.args, c.got)
           /\ c.method = "getStorageHash" => Query!Does(c) = Query!getStorageHash(c.args, c.got)
           /\ c.method = "getStorageSize" => Query!Does(c) = Query!getStorageSize(c.args, c.got)
           /\ c.method = "getBlock" => Query!Does(c) = Query!getBlock(c.args, c.got)
           /\ c.method = "getSystemPeers" => Query!Does(c) = Query!getSystemPeers(c.got)
           /\ c.method = "queryStorage" => Query!Does(c) = Query!queryStorage(c.args, c.got)
<1>1. c.method = "getStorage" => Query!Does(c) = Query!getStorage(c.args, c.got)
  BY Zenon DEF Query!Does
<1>2. c.method = "getStorageHash" => Query!Does(c) = Query!getStorageHash(c.args, c.got)
  BY Zenon DEF Query!Does
<1>3. c.method = "getStorageSize" => Query!Does(c) = Query!getStorageSize(c.args, c.got)
  BY Zenon DEF Query!Does
<1>4. c.method = "getBlock" => Query!Does(c) = Query!getBlock(c.args, c.got)
  BY Zenon DEF Query!Does
<1>5. c.method = "getSystemPeers" => Query!Does(c) = Query!getSystemPeers(c.got)
  BY Zenon DEF Query!Does
<1>6. c.method = "queryStorage" => Query!Does(c) = Query!queryStorage(c.args, c.got)
  BY Zenon DEF Query!Does
<1> QED
  BY <1>1, <1>2, <1>3, <1>4, <1>5, <1>6

\* Lists of one and of two elements.
LEMMA Lists ==
    ASSUME NEW a, NEW b
    PROVE  /\ Append(<<>>, a) = <<a>> /\ Append(<<a>>, b) = <<a, b>>
           /\ Len(<<>>) = 0 /\ Len(<<a>>) = 1 /\ Len(<<a, b>>) = 2 /\ <<a>> # <<>> /\ <<a, b>> # <<>>
           /\ <<a>>[1] = a /\ <<a, b>>[1] = a /\ <<a, b>>[2] = b /\ 1 \in DOMAIN <<a>>
<1>1. Append(<<>>, a) = <<a>>
  BY SMT
<1>2. Append(<<a>>, b) = <<a, b>>
  <2> DEFINE T == {a, b}
             s == Append(<<a>>, b)
             p == <<a, b>>
  <2>1. <<a>> \in Seq(T) /\ Len(<<a>>) = 1 /\ <<a>>[1] = a /\ a \in T /\ b \in T
    BY SMT
  <2>2. s \in Seq(T) /\ Len(s) = 2 /\ s[1] = a /\ s[2] = b
    BY <2>1, SMT
  <2>3. p \in Seq(T) /\ Len(p) = 2 /\ p[1] = a /\ p[2] = b
    BY SMT
  <2> HIDE DEF s, p, T
  <2>4. s = p
    BY <2>2, <2>3, SMT
  <2> QED
    BY <2>4 DEF s, p
<1>3. Len(<<>>) = 0 /\ Len(<<a>>) = 1 /\ Len(<<a, b>>) = 2
  OBVIOUS
<1>4. <<a>> # <<>> /\ <<a, b>> # <<>>
  BY <1>3, SMT
<1>5. <<a>>[1] = a /\ <<a, b>>[1] = a /\ <<a, b>>[2] = b
  OBVIOUS
<1>6. 1 \in DOMAIN <<a>>
  BY SMT
<1> QED
  BY <1>1, <1>2, <1>3, <1>4, <1>5, <1>6

\* A hash is that of one block.
LEMMA HashOne ==
    ASSUME NEW a \in Nat, NEW b \in Nat, Query!Hash(a) = Query!Hash(b)
    PROVE  a = b
BY SMT DEF Query!Hash

\* What the node answers.
LEMMA AnswersIs ==
    ASSUME NEW params
    PROVE  /\ Query!Answer("chain_getBlockHash", <<>>) = Query!S(Query!Hash(head))
           /\ Query!Answer("chain_getBlock", params) =
                  IF Query!Asked(params) = {} THEN Query!Null ELSE Query!Block(CHOOSE b \in Query!Asked(params) : TRUE)
           /\ Query!Answer("system_peers", params) \in PeerAnswers
           /\ Query!Answer("state_queryStorage", params) = Changed(head)
<1>1. Query!Answer("chain_getBlockHash", <<>>) = Query!S(Query!Hash(head))
  BY Zenon DEF Query!Answer
<1>2. Query!Answer("chain_getBlock", params) =
                  IF Query!Asked(params) = {} THEN Query!Null ELSE Query!Block(CHOOSE b \in Query!Asked(params) : TRUE)
  BY Zenon DEF Query!Answer, Query!OfBlock, Query!OfState
<1>3. Query!Answer("system_peers", params) \in PeerAnswers
  BY Zenon DEF Query!Answer, PeerAnswers
<1>4. Query!Answer("state_queryStorage", params) = Changed(head)
  BY Zenon DEF Query!Answer, Changed, Change
<1> QED
  BY <1>1, <1>2, <1>3, <1>4

\* What the node answers about its state.
LEMMA StateAnswerIs ==
    ASSUME NEW params
    PROVE  LET b == CHOOSE b \in Query!Asked(params) : TRUE
               kept == /\ \E c \in Query!Asked(params) : c + StateKept > head
                       /\ \E v \in Query!Variables : params[1] = <<Query!HasherOf(v), v>>
               value == Query!ValueAt(params[1][2], b)
           IN  /\ Query!Answer("state_getStorage", params) = IF kept THEN Query!S(value) ELSE Query!Null
               /\ Query!Answer("state_getStorageHash", params) = IF kept THEN Query!S(value) ELSE Query!Null
               /\ Query!Answer("state_getStorageSize", params) = IF kept THEN Query!N(value[2] + 1) ELSE Query!Null
<1> DEFINE b == CHOOSE b \in Query!Asked(params) : TRUE
           here == \E c \in Query!Asked(params) : c + StateKept > head
           known == \E v \in Query!Variables : params[1] = <<Query!HasherOf(v), v>>
           value == Query!ValueAt(params[1][2], b)
<1>1. Query!Answer("state_getStorage", params) = IF here THEN (IF known THEN Query!S(value) ELSE Query!Null) ELSE Query!Null
  BY Zenon DEF Query!Answer, Query!OfState, Query!OfBlock
<1>2. Query!Answer("state_getStorageHash", params) = IF here THEN (IF known THEN Query!S(value) ELSE Query!Null) ELSE Query!Null
  BY Zenon DEF Query!Answer, Query!OfState, Query!OfBlock
<1>3. Query!Answer("state_getStorageSize", params) =
          IF here THEN (IF known THEN Query!N(value[2] + 1) ELSE Query!Null) ELSE Query!Null
  BY Zenon DEF Query!Answer, Query!OfState, Query!OfBlock
<1> HIDE DEF here, known, value
<1> QED
  BY <1>1, <1>2, <1>3, Zenon DEF here, known, value

\* The two requests of a method that asks about the head.
LEMMA StorageAsks ==
    ASSUME NEW variable, NEW x
    PROVE  LET ask == Query!Ask("chain_getBlockHash", <<>>)
               key == Query!getKeys(variable)
               params == <<key, Query!createBlockHash(x).hash>>
           IN  /\ Query!getStorage(variable, <<>>) = ask
               /\ Query!getStorageHash(variable, <<>>) = ask
               /\ Query!getStorageSize(variable, <<>>) = ask
               /\ Query!getStorage(variable, <<x>>) =
                      IF key = Query!NotFound THEN Query!Throw ELSE Query!Ask("state_getStorage", params)
               /\ Query!getStorageHash(variable, <<x>>) =
                      IF key = Query!NotFound THEN Query!Throw ELSE Query!Ask("state_getStorageHash", params)
               /\ Query!getStorageSize(variable, <<x>>) =
                      IF key = Query!NotFound THEN Query!Throw ELSE Query!Ask("state_getStorageSize", params)
<1>1. Len(<<>>) = 0 /\ Len(<<x>>) = 1 /\ 0 # 1 /\ 0 # 2 /\ 1 # 2 /\ <<x>>[1] = x
  BY Lists, SMT
<1>2. /\ Query!getStorage(variable, <<>>) = Query!Ask("chain_getBlockHash", <<>>)
      /\ Query!getStorageHash(variable, <<>>) = Query!Ask("chain_getBlockHash", <<>>)
      /\ Query!getStorageSize(variable, <<>>) = Query!Ask("chain_getBlockHash", <<>>)
  BY <1>1, Zenon DEF Query!getStorage, Query!getStorageHash, Query!getStorageSize, Query!AtHead
<1> DEFINE key == Query!getKeys(variable)
           params == <<key, Query!createBlockHash(x).hash>>
<1>3. /\ Query!getStorage(variable, <<x>>) =
            IF key = Query!NotFound THEN Query!Throw ELSE Query!Ask("state_getStorage", params)
      /\ Query!getStorageHash(variable, <<x>>) =
            IF key = Query!NotFound THEN Query!Throw ELSE Query!Ask("state_getStorageHash", params)
      /\ Query!getStorageSize(variable, <<x>>) =
            IF key = Query!NotFound THEN Query!Throw ELSE Query!Ask("state_getStorageSize", params)
  BY <1>1, Zenon DEF Query!getStorage, Query!getStorageHash, Query!getStorageSize, Query!AtHead
<1> QED
  BY <1>2, <1>3, Zenon

\* A list of two, if it is neither empty nor of one.
LEMMA TwoFull ==
    ASSUME NEW X, NEW Y, NEW g \in Two(X, Y), \A x : g \notin {<<>>, <<x>>}
    PROVE  \E x \in X, y \in Y : g = <<x, y>>
BY SMT DEF Two, One

\* Before its second answer a storage method returns nothing.
LEMMA StorageWaits ==
    ASSUME NEW variable, NEW x, NEW got \in {<<>>, <<x>>}
    PROVE  /\ Query!getStorage(variable, got).does \in {"asks", "throws"}
           /\ Query!getStorageHash(variable, got).does \in {"asks", "throws"}
           /\ Query!getStorageSize(variable, got).does \in {"asks", "throws"}
<1>1. Len(got) \in {0, 1} /\ 0 # 1 /\ 0 # 2 /\ 1 # 2
  BY Lists, SMT
<1>2. Query!Throw.does = "throws" /\ \A m, p : Query!Ask(m, p).does = "asks"
  BY DEF Query!Throw, Query!Ask
<1> QED
  BY <1>1, <1>2, Zenon DEF Query!getStorage, Query!getStorageHash, Query!getStorageSize, Query!AtHead

\* With it, it returns what the answer holds.
LEMMA StorageReturns ==
    ASSUME NEW variable, NEW x, NEW y
    PROVE  /\ Query!getStorage(variable, <<x, y>>) = Query!Returns(Query!string_value(y))
           /\ Query!getStorageHash(variable, <<x, y>>) = Query!Returns(Query!string_value(y))
           /\ Query!getStorageSize(variable, <<x, y>>) = Query!Returns(Query!int_value(y))
<1>1. Len(<<x, y>>) = 2 /\ 0 # 2 /\ 1 # 2 /\ <<x, y>>[2] = y
  BY Lists, SMT
<1> QED
  BY <1>1, Zenon DEF Query!getStorage, Query!getStorageHash, Query!getStorageSize, Query!AtHead

\* The methods of one request.
LEMMA SingleDoes ==
    ASSUME NEW args, NEW x
    PROVE  /\ Query!getBlock(args, <<>>) = Query!Ask("chain_getBlock", args)
           /\ Query!getBlock(args, <<x>>) =
                  IF Query!createBlock(x) = Query!Blank THEN Query!Throw ELSE Query!Returns(Query!createBlock(x))
           /\ Query!getSystemPeers(<<>>) = Query!Ask("system_peers", <<>>)
           /\ Query!getSystemPeers(<<x>>) =
                  IF Query!createPeerInfo(x) = Query!Blank THEN Query!Throw ELSE Query!Returns(Query!createPeerInfo(x))
           /\ Query!queryStorage(args, <<>>) = Query!Ask("state_queryStorage", <<>>)
<1>1. <<x>> # <<>> /\ <<x>>[1] = x
  BY Lists
<1>2. /\ Query!getBlock(args, <<>>) = Query!Ask("chain_getBlock", args)
      /\ Query!getSystemPeers(<<>>) = Query!Ask("system_peers", <<>>)
      /\ Query!queryStorage(args, <<>>) = Query!Ask("state_queryStorage", <<>>)
  BY Zenon DEF Query!getBlock, Query!getSystemPeers, Query!Single, Query!queryStorage
<1>3. Query!getBlock(args, <<x>>) =
          IF Query!createBlock(x) = Query!Blank THEN Query!Throw ELSE Query!Returns(Query!createBlock(x))
  BY <1>1, Zenon DEF Query!getBlock, Query!Single
<1>4. Query!getSystemPeers(<<x>>) =
          IF Query!createPeerInfo(x) = Query!Blank THEN Query!Throw ELSE Query!Returns(Query!createPeerInfo(x))
  BY <1>1, Zenon DEF Query!getSystemPeers, Query!Single
<1> QED
  BY <1>2, <1>3, <1>4

\* Texts and numbers are taken out of answers.
LEMMA TextOf ==
    ASSUME NEW x
    PROVE  /\ Query!string_value(Query!S(x)) = x /\ Query!string_value(Query!Null) = <<>>
           /\ Query!int_value(Query!N(x)) = x /\ Query!int_value(Query!Null) = 0
BY DEF Query!string_value, Query!int_value, Query!S, Query!N, Query!Null

\* The state asked for is that of the block whose hash was answered.
LEMMA AskedHead ==
    ASSUME head \in Nat, NEW lo \in Nat, NEW key, NEW h \in HashAnswers(lo, head),
           NEW b \in Query!Asked(<<key, Query!createBlockHash(h).hash>>)
    PROVE  b \in lo .. head
<1> DEFINE hash == Query!createBlockHash(h).hash
           params == <<key, hash>>
<1>1. hash = Query!string_value(h)
  BY DEF Query!createBlockHash
<1>2. params # <<>> /\ Len(params) = 2 /\ params[2] = hash
  BY Lists
<1>3. b \in 0 .. head /\ Query!Hash(b) = hash
  BY <1>2, Zenon DEF Query!Asked
<1>4. h # Query!Null
  <2>1. Query!Hash(b) # <<>>
    BY SMT DEF Query!Hash
  <2> QED
    BY <1>1, <1>3, <2>1, TextOf
<1>5. PICK c \in lo .. head : h = Query!S(Query!Hash(c))
  BY <1>4 DEF HashAnswers
<1>6. Query!Hash(b) = Query!Hash(c)
  BY <1>1, <1>3, <1>5, TextOf
<1>7. b \in Nat /\ c \in Nat
  BY <1>3, <1>5, SMT
<1> QED
  BY <1>5, <1>6, <1>7, HashOne

\* The key names its variable.
LEMMA KeyIs ==
    ASSUME NEW variable, Query!getKeys(variable) # Query!NotFound
    PROVE  Query!getKeys(variable)[2] = variable
<1>1. Query!getKeys(variable) = <<api.hasher, variable>>
  BY DEF Query!getKeys
<1>2. <<api.hasher, variable>>[2] = variable
  OBVIOUS
<1> QED
  BY <1>1, <1>2, Zenon

\* The state that is answered is that of a head since the method started.
LEMMA StateAnswered ==
    ASSUME head \in Nat, NEW lo \in Nat, NEW variable, NEW h \in HashAnswers(lo, head),
           Query!getKeys(variable) # Query!NotFound
    PROVE  LET params == <<Query!getKeys(variable), Query!createBlockHash(h).hash>>
           IN  /\ Query!Answer("state_getStorage", params) \in ValueAnswers(variable, lo, head)
               /\ Query!Answer("state_getStorageHash", params) \in ValueAnswers(variable, lo, head)
               /\ Query!Answer("state_getStorageSize", params) \in SizeAnswers(lo, head)
<1> DEFINE key == Query!getKeys(variable)
           params == <<key, Query!createBlockHash(h).hash>>
           b == CHOOSE b \in Query!Asked(params) : TRUE
           kept == /\ \E c \in Query!Asked(params) : c + StateKept > head
                   /\ \E v \in Query!Variables : params[1] = <<Query!HasherOf(v), v>>
           value == Query!ValueAt(params[1][2], b)
<1>1. /\ Query!Answer("state_getStorage", params) = IF kept THEN Query!S(value) ELSE Query!Null
      /\ Query!Answer("state_getStorageHash", params) = IF kept THEN Query!S(value) ELSE Query!Null
      /\ Query!Answer("state_getStorageSize", params) = IF kept THEN Query!N(value[2] + 1) ELSE Query!Null
  BY StateAnswerIs
<1>2. kept => b \in lo .. head
  <2>1. kept => b \in Query!Asked(params)
    BY Zenon
  <2> QED
    BY <2>1, AskedHead
<1>3. params[1][2] = variable
  BY KeyIs, Lists, Zenon
<1>4. value = Query!ValueAt(variable, b) /\ value[2] = b
  <2> HIDE DEF b, params
  <2>1. value = Query!ValueAt(variable, b)
    BY <1>3
  <2>2. value[2] = b
    BY <2>1, Lists, Zenon DEF Query!ValueAt
  <2> QED
    BY <2>1, <2>2
<1> HIDE DEF params, b, kept, value
<1>5. kept => Query!S(value) \in ValueAnswers(variable, lo, head) /\ Query!N(value[2] + 1) \in SizeAnswers(lo, head)
  BY <1>2, <1>4, Zenon DEF ValueAnswers, SizeAnswers
<1>6. Query!Null \in ValueAnswers(variable, lo, head) /\ Query!Null \in SizeAnswers(lo, head)
  BY DEF ValueAnswers, SizeAnswers
<1> QED
  BY <1>1, <1>5, <1>6, Zenon DEF params

\* An answer, or none, is one more of those a method can have got.
LEMMA TwoMore ==
    ASSUME NEW X, NEW Y, NEW g \in Two(X, Y), NEW x,
           g = <<>> => x \in X, \A h \in X : g = <<h>> => x \in Y, \A h \in X, y \in Y : g # <<h, y>>
    PROVE  Append(g, x) \in Two(X, Y)
<1>1. CASE g = <<>>
  BY <1>1, Lists, SMT DEF Two, One
<1>2. CASE \E h \in X : g = <<h>>
  BY <1>2, Lists, SMT DEF Two, One
<1> QED
  BY <1>1, <1>2, SMT DEF Two, One

\* The same for a method of one request.
LEMMA OneMore ==
    ASSUME NEW X, NEW g \in One(X), NEW x \in X, \A h \in X : g # <<h>>
    PROVE  Append(g, x) \in One(X)
<1>1. g = <<>>
  BY DEF One
<1>2. Append(g, x) = <<x>>
  BY <1>1, Lists
<1> QED
  BY <1>2 DEF One

\* The answers of the storage methods are possible ones.
LEMMA StorageGot ==
    ASSUME head \in Nat, NEW c, c.from \in Nat, c.from <= head,
           c.method \in {"getStorage", "getStorageHash", "getStorageSize"},
           NEW Y, Y = IF c.method = "getStorageSize" THEN SizeAnswers(c.from, head) ELSE ValueAnswers(c.args, c.from, head),
           c.got \in Two(HashAnswers(c.from, head), Y),
           Query!Does(c).does = "asks",
           NEW x \in {Query!Null, Query!Answer(Query!Does(c).method, Query!Does(c).params)}
    PROVE  Append(c.got, x) \in Two(HashAnswers(c.from, head), Y)
<1> DEFINE X == HashAnswers(c.from, head)
           a == Query!Answer(Query!Does(c).method, Query!Does(c).params)
           key == Query!getKeys(c.args)
<1>0. Query!Null \in X /\ Query!Null \in Y
  BY DEF HashAnswers, ValueAnswers, SizeAnswers
<1>1. ASSUME c.got = <<>> PROVE a \in X
  <2>1. Query!Does(c) = Query!Ask("chain_getBlockHash", <<>>)
    BY <1>1, DoesIs, StorageAsks
  <2>2. a = Query!S(Query!Hash(head))
    BY <2>1, AnswersIs, SMT DEF Query!Ask
  <2>3. head \in c.from .. head
    BY SMT
  <2> QED
    BY <2>2, <2>3 DEF HashAnswers
<1>2. ASSUME NEW h \in X, c.got = <<h>> PROVE a \in Y
  <2> DEFINE params == <<key, Query!createBlockHash(h).hash>>
             m == IF c.method = "getStorage" THEN "state_getStorage"
                  ELSE IF c.method = "getStorageHash" THEN "state_getStorageHash" ELSE "state_getStorageSize"
  <2>1. Query!Does(c) = IF key = Query!NotFound THEN Query!Throw ELSE Query!Ask(m, params)
    <3>1. CASE c.method = "getStorage"
      <4>1. Query!Does(c) = Query!getStorage(c.args, <<h>>)
        BY <1>2, <3>1, DoesIs
      <4> QED
        BY <3>1, <4>1, StorageAsks
    <3>2. CASE c.method = "getStorageHash"
      <4>1. Query!Does(c) = Query!getStorageHash(c.args, <<h>>)
        BY <1>2, <3>2, DoesIs
      <4> QED
        BY <3>2, <4>1, StorageAsks
    <3>3. CASE c.method = "getStorageSize"
      <4>1. Query!Does(c) = Query!getStorageSize(c.args, <<h>>)
        BY <1>2, <3>3, DoesIs
      <4> QED
        BY <3>3, <4>1, StorageAsks
    <3> QED
      BY <3>1, <3>2, <3>3
  <2>2. key # Query!NotFound
    BY <2>1, SMT DEF Query!Throw
  <2>3. a = Query!Answer(m, params)
    BY <2>1, <2>2, SMT DEF Query!Ask
  <2> HIDE DEF a
  <2>4. /\ Query!Answer("state_getStorage", params) \in ValueAnswers(c.args, c.from, head)
        /\ Query!Answer("state_getStorageHash", params) \in ValueAnswers(c.args, c.from, head)
        /\ Query!Answer("state_getStorageSize", params) \in SizeAnswers(c.from, head)
    BY <1>2, <2>2, StateAnswered
  <2> QED
    BY <2>3, <2>4
<1>3. ASSUME NEW h \in X, NEW y \in Y, c.got = <<h, y>> PROVE FALSE
  <2>1. Query!Does(c) \in {Query!Returns(Query!string_value(y)), Query!Returns(Query!int_value(y))}
    <3>1. \/ Query!Does(c) = Query!getStorage(c.args, <<h, y>>)
          \/ Query!Does(c) = Query!getStorageHash(c.args, <<h, y>>)
          \/ Query!Does(c) = Query!getStorageSize(c.args, <<h, y>>)
      BY <1>3, DoesIs
    <3>2. /\ Query!getStorage(c.args, <<h, y>>) = Query!Returns(Query!string_value(y))
          /\ Query!getStorageHash(c.args, <<h, y>>) = Query!Returns(Query!string_value(y))
          /\ Query!getStorageSize(c.args, <<h, y>>) = Query!Returns(Query!int_value(y))
      BY StorageReturns
    <3> QED
      BY <3>1, <3>2
  <2> QED
    BY <2>1, SMT DEF Query!Returns
<1> HIDE DEF X, a
<1>4. c.got \in Two(X, Y) /\ x \in {Query!Null, a}
  BY DEF X, a
<1>5. Append(c.got, x) \in Two(X, Y)
  BY <1>0, <1>1, <1>2, <1>3, <1>4, TwoMore
<1> QED
  BY <1>5 DEF X

\* What queryStorage fills the array with, from the answer.
ItemsOf(size, a)  == {n \in 0 .. size : \A i \in 0 .. n - 1 : Query!Item(a, i) # Query!Null}
CountOf(size, a)  == CHOOSE n \in ItemsOf(size, a) : \A m \in ItemsOf(size, a) : m <= n
FilledOf(size, a) == [i \in 1 .. CountOf(size, a) |-> Query!StorageItem(Query!Item(a, i - 1))]

\* queryStorage with its answer.
LEMMA ChangesDo ==
    ASSUME NEW size, NEW a
    PROVE  Query!queryStorage(size, <<a>>) = Query!Returns(FilledOf(size, a))
<1>1. \A got : got # <<>> => Query!queryStorage(size, got) = Query!Returns(FilledOf(size, got[1]))
  BY DEF Query!queryStorage, FilledOf, CountOf, ItemsOf
<1>2. <<a>> # <<>> /\ <<a>>[1] = a
  BY Lists
<1> QED
  BY <1>1, <1>2

\* So are the answer of getBlock,
LEMMA BlockGot ==
    ASSUME head \in Nat, NEW c, c.method = "getBlock", c.args \in {<<>>} \cup {<<Query!Hash(b)>> : b \in Nat},
           c.got \in One(BlockAnswers(c.args, head)), Query!Does(c).does = "asks",
           NEW x \in {Query!Null, Query!Answer(Query!Does(c).method, Query!Does(c).params)}
    PROVE  Append(c.got, x) \in One(BlockAnswers(c.args, head))
<1> DEFINE X == BlockAnswers(c.args, head)
           b == CHOOSE b \in Query!Asked(c.args) : TRUE
<1>1. Query!Does(c) = Query!getBlock(c.args, c.got)
  BY DoesIs
<1>2. \A h \in X : c.got # <<h>>
  <2> SUFFICES ASSUME NEW h \in X, c.got = <<h>> PROVE FALSE
    OBVIOUS
  <2>1. Query!Does(c) \in {Query!Throw, Query!Returns(Query!createBlock(h))}
    BY <1>1, SingleDoes
  <2> QED
    BY <2>1, SMT DEF Query!Throw, Query!Returns
<1>3. c.got = <<>>
  BY <1>2 DEF One
<1>4. Query!Does(c) = Query!Ask("chain_getBlock", c.args)
  BY <1>1, <1>3, SingleDoes
<1>5. x = Query!Null \/ (Query!Asked(c.args) # {} /\ x = Query!Block(b))
  <2>1. Query!Does(c).method = "chain_getBlock" /\ Query!Does(c).params = c.args
    BY <1>4, SMT DEF Query!Ask
  <2> QED
    BY <2>1, AnswersIs
<1>6. Query!Asked(c.args) # {} => b \in 0 .. head /\ (c.args = <<>> \/ c.args = <<Query!Hash(b)>>)
  <2>1. SUFFICES ASSUME Query!Asked(c.args) # {} PROVE b \in 0 .. head /\ (c.args = <<>> \/ c.args = <<Query!Hash(b)>>)
    OBVIOUS
  <2>2. b \in Query!Asked(c.args)
    BY <2>1
  <2> HIDE DEF b
  <2>3. CASE c.args = <<>>
    <3>1. b = head
      BY <2>2, <2>3 DEF Query!Asked
    <3> QED
      BY <2>3, <3>1, SMT
  <2>4. CASE c.args # <<>>
    <3>1. PICK d \in Nat : c.args = <<Query!Hash(d)>>
      BY <2>4
    <3>2. c.args[Len(c.args)] = Query!Hash(d)
      BY <3>1, Lists
    <3>3. b \in 0 .. head /\ Query!Hash(b) = Query!Hash(d)
      BY <2>2, <2>4, <3>2 DEF Query!Asked
    <3> QED
      BY <3>1, <3>3
  <2> QED
    BY <2>3, <2>4
<1> HIDE DEF b
<1>7. x \in X
  BY <1>5, <1>6 DEF BlockAnswers
<1> QED
  BY <1>2, <1>7, OneMore

\* that of getSystemPeers,
LEMMA PeersGot ==
    ASSUME NEW c, c.method = "getSystemPeers", c.got \in One(PeerAnswers), Query!Does(c).does = "asks",
           NEW x \in {Query!Null, Query!Answer(Query!Does(c).method, Query!Does(c).params)}
    PROVE  Append(c.got, x) \in One(PeerAnswers)
<1>1. Query!Does(c) = Query!getSystemPeers(c.got)
  BY DoesIs
<1>2. \A h \in PeerAnswers : c.got # <<h>>
  <2> SUFFICES ASSUME NEW h \in PeerAnswers, c.got = <<h>> PROVE FALSE
    OBVIOUS
  <2>1. Query!Does(c) \in {Query!Throw, Query!Returns(Query!createPeerInfo(h))}
    BY <1>1, SingleDoes
  <2> QED
    BY <2>1, SMT DEF Query!Throw, Query!Returns
<1>3. c.got = <<>>
  BY <1>2 DEF One
<1>4. Query!Does(c) = Query!Ask("system_peers", <<>>)
  BY <1>1, <1>3, SingleDoes
<1>5. x \in PeerAnswers
  <2>1. Query!Null \in PeerAnswers
    BY DEF PeerAnswers
  <2>2. Query!Does(c).method = "system_peers"
    BY <1>4, SMT DEF Query!Ask
  <2> QED
    BY <2>1, <2>2, AnswersIs
<1> QED
  BY <1>2, <1>5, OneMore

\* and that of queryStorage.
LEMMA ChangesGot ==
    ASSUME head \in Nat, NEW c, c.method = "queryStorage", c.from \in Nat, c.from <= head,
           c.got \in One(ChangeAnswers(c.from, head)), Query!Does(c).does = "asks",
           NEW x \in {Query!Null, Query!Answer(Query!Does(c).method, Query!Does(c).params)}
    PROVE  Append(c.got, x) \in One(ChangeAnswers(c.from, head))
<1> DEFINE X == ChangeAnswers(c.from, head)
<1>1. Query!Does(c) = Query!queryStorage(c.args, c.got)
  BY DoesIs
<1>2. \A h \in X : c.got # <<h>>
  <2> SUFFICES ASSUME NEW h \in X, c.got = <<h>> PROVE FALSE
    OBVIOUS
  <2>1. Query!Does(c) = Query!Returns(FilledOf(c.args, h))
    BY <1>1, ChangesDo
  <2> QED
    BY <2>1, SMT DEF Query!Returns
<1>3. c.got = <<>>
  BY <1>2 DEF One
<1>4. Query!Does(c) = Query!Ask("state_queryStorage", <<>>)
  BY <1>1, <1>3, SingleDoes
<1>5. head \in c.from .. head
  BY SMT
<1>6. x \in X
  <2>1. Query!Does(c).method = "state_queryStorage"
    BY <1>4, SMT DEF Query!Ask
  <2> QED
    BY <1>5, <2>1, AnswersIs DEF ChangeAnswers
<1> QED
  BY <1>2, <1>6, OneMore

\* What is given for a call whose list of answers grows.
LEMMA CallGrown ==
    ASSUME NEW c, NEW x, DOMAIN c = {"method", "args", "got", "from"}
    PROVE  LET d == [c EXCEPT !.got = Append(@, x)]
           IN  /\ DOMAIN d = {"method", "args", "got", "from"}
               /\ d.method = c.method /\ d.args = c.args /\ d.from = c.from /\ d.got = Append(c.got, x)
OBVIOUS

\* Whatever the method, one more answer keeps them possible.
LEMMA GotMore ==
    ASSUME head \in Nat, NEW c, GotRight(c), Query!Does(c).does = "asks",
           NEW x \in {Query!Null, Query!Answer(Query!Does(c).method, Query!Does(c).params)}
    PROVE  GotRight([c EXCEPT !.got = Append(@, x)])
<1> DEFINE d == [c EXCEPT !.got = Append(@, x)]
<1>1. DOMAIN c = {"method", "args", "got", "from"} /\ c.from \in Nat /\ c.from <= head
  BY DEF GotRight
<1>2. /\ DOMAIN d = {"method", "args", "got", "from"}
      /\ d.method = c.method /\ d.args = c.args /\ d.from = c.from /\ d.got = Append(c.got, x)
  BY <1>1, CallGrown
<1> HIDE DEF d
<1>3. c.method \in {"getStorage", "getStorageHash"} =>
          Append(c.got, x) \in Two(HashAnswers(c.from, head), ValueAnswers(c.args, c.from, head))
  BY <1>1, StorageGot DEF GotRight
<1>4. c.method = "getStorageSize" => Append(c.got, x) \in Two(HashAnswers(c.from, head), SizeAnswers(c.from, head))
  BY <1>1, StorageGot DEF GotRight
<1>5. c.method = "getBlock" => Append(c.got, x) \in One(BlockAnswers(c.args, head))
  BY BlockGot DEF GotRight
<1>6. c.method = "getSystemPeers" => Append(c.got, x) \in One(PeerAnswers)
  BY PeersGot DEF GotRight
<1>7. c.method = "queryStorage" => Append(c.got, x) \in One(ChangeAnswers(c.from, head))
  BY <1>1, ChangesGot DEF GotRight
<1>8. /\ c.method = "getBlock" => c.args \in {<<>>} \cup {<<Query!Hash(b)>> : b \in Nat}
      /\ c.method = "queryStorage" => c.args \in Nat
  BY DEF GotRight
<1>9. GotRight(d)
  BY <1>1, <1>2, <1>3, <1>4, <1>5, <1>6, <1>7, <1>8, Zenon DEF GotRight
<1> QED
  BY <1>9 DEF d

\* What is returned by the methods, from the answers they have got.
LEMMA StorageReturned ==
    ASSUME head \in Nat, NEW c, c.from \in Nat, c.from <= head,
           c.method \in {"getStorage", "getStorageHash"},
           c.got \in Two(HashAnswers(c.from, head), ValueAnswers(c.args, c.from, head)),
           Query!Does(c).does \notin {"asks", "throws"}
    PROVE  LET value == Query!Does(c).value
           IN  value = <<>> \/ \E b \in c.from .. head : value = Query!ValueAt(c.args, b)
<1> DEFINE X == HashAnswers(c.from, head)
           Y == ValueAnswers(c.args, c.from, head)
<1>1. Query!Does(c) = Query!getStorage(c.args, c.got) \/ Query!Does(c) = Query!getStorageHash(c.args, c.got)
  BY DoesIs
<1>2. PICK x \in X, y \in Y : c.got = <<x, y>>
  <2>1. \A x : c.got \notin {<<>>, <<x>>}
    <3> SUFFICES ASSUME NEW x, c.got \in {<<>>, <<x>>} PROVE FALSE
      BY SMT
    <3>1. /\ Query!getStorage(c.args, c.got).does \in {"asks", "throws"}
          /\ Query!getStorageHash(c.args, c.got).does \in {"asks", "throws"}
      BY StorageWaits
    <3> QED
      BY <1>1, <3>1
  <2> QED
    BY <2>1, TwoFull, SMT
<1>3. Query!Does(c) = Query!Returns(Query!string_value(y))
  BY <1>1, <1>2, StorageReturns, SMT
<1>4. Query!Does(c).value = Query!string_value(y)
  BY <1>3, SMT DEF Query!Returns
<1>5. CASE y = Query!Null
  BY <1>4, <1>5 DEF Query!Null, Query!string_value
<1>6. CASE y # Query!Null
  <2>1. PICK b \in c.from .. head : y = Query!S(Query!ValueAt(c.args, b))
    BY <1>6 DEF ValueAnswers
  <2>2. Query!string_value(y) = Query!ValueAt(c.args, b)
    BY <2>1 DEF Query!S, Query!string_value
  <2> QED
    BY <1>4, <2>2
<1> QED
  BY <1>5, <1>6

\* The size that is returned is that of a head.
LEMMA SizeReturned ==
    ASSUME head \in Nat, NEW c, c.from \in Nat, c.from <= head, c.method = "getStorageSize",
           c.got \in Two(HashAnswers(c.from, head), SizeAnswers(c.from, head)),
           Query!Does(c).does \notin {"asks", "throws"}
    PROVE  LET value == Query!Does(c).value IN value = 0 \/ value - 1 \in c.from .. head
<1> DEFINE X == HashAnswers(c.from, head)
           Y == SizeAnswers(c.from, head)
<1>1. Query!Does(c) = Query!getStorageSize(c.args, c.got)
  BY DoesIs
<1>2. PICK x \in X, y \in Y : c.got = <<x, y>>
  <2>1. \A x : c.got \notin {<<>>, <<x>>}
    <3> SUFFICES ASSUME NEW x, c.got \in {<<>>, <<x>>} PROVE FALSE
      BY SMT
    <3>1. Query!getStorageSize(c.args, c.got).does \in {"asks", "throws"}
      BY StorageWaits
    <3> QED
      BY <1>1, <3>1
  <2> QED
    BY <2>1, TwoFull, SMT
<1>3. Query!Does(c) = Query!Returns(Query!int_value(y))
  BY <1>1, <1>2, StorageReturns, SMT
<1>4. Query!Does(c).value = Query!int_value(y)
  BY <1>3, SMT DEF Query!Returns
<1>5. CASE y = Query!Null
  BY <1>4, <1>5 DEF Query!Null, Query!int_value
<1>6. CASE y # Query!Null
  <2>1. PICK b \in c.from .. head : y = Query!N(b + 1)
    BY <1>6 DEF SizeAnswers
  <2>2. Query!int_value(y) = b + 1
    BY <2>1 DEF Query!N, Query!int_value
  <2>3. (b + 1) - 1 = b
    BY SMT
  <2> QED
    BY <1>4, <2>2, <2>3
<1> QED
  BY <1>5, <1>6

\* The peers that are returned fit and are counted.
LEMMA PeersReturned ==
    ASSUME peers \in Nat, MAX_PEER_COUNT \in Nat, NEW c, c.method = "getSystemPeers", c.got \in One(PeerAnswers),
           Query!Does(c).does \notin {"asks", "throws"}
    PROVE  LET value == Query!Does(c).value
           IN  value.count = Len(value.peers) /\ value.count <= MAX_PEER_COUNT
<1>1. Query!Does(c) = Query!getSystemPeers(c.got)
  BY DoesIs
<1>2. c.got # <<>>
  <2>1. Query!getSystemPeers(<<>>) = Query!Ask("system_peers", <<>>)
    BY SingleDoes
  <2> QED
    BY <1>1, <2>1, SMT DEF Query!Ask
<1>3. PICK a \in PeerAnswers : c.got = <<a>>
  BY <1>2 DEF One
<1> DEFINE items == Query!array_items(a)
           names == [i \in DOMAIN items |-> Query!GetStr(items[i], "peerId")]
<1>4. Query!Does(c) = Query!Returns(Query!createPeerInfo(a)) /\ Query!createPeerInfo(a) # Query!Blank
  <2>1. Query!Does(c) # Query!Throw
    BY SMT DEF Query!Throw
  <2> QED
    BY <1>1, <1>3, <2>1, SingleDoes
<1>5. Query!createPeerInfo(a) = [count |-> Len(items), peers |-> names] /\ ~(Len(items) > MAX_PEER_COUNT)
  BY <1>4 DEF Query!createPeerInfo
<1>6. Query!Does(c).value.count = Len(items) /\ Query!Does(c).value.peers = names
  <2>1. Query!Does(c).value = [count |-> Len(items), peers |-> names]
    BY <1>4, <1>5, SMT DEF Query!Returns
  <2> QED
    BY <2>1, SMT
<1>7. \E n \in Nat : DOMAIN items = 1 .. n /\ Len(items) = n
  <2>1. CASE a = Query!Null
    <3>1. items = <<>>
      BY <2>1 DEF Query!Null, Query!array_items
    <3> QED
      BY <3>1, SMT
  <2>2. CASE a # Query!Null
    <3> DEFINE list == [i \in 1 .. peers |-> Query!O([peerId |-> Query!S(Query!Text(i))])]
    <3>1. items = list
      <4>1. a = Query!A(list)
        BY <2>2 DEF PeerAnswers
      <4> QED
        BY <4>1 DEF Query!A, Query!array_items
    <3>2. list \in Seq({list[i] : i \in 1 .. peers}) /\ DOMAIN list = 1 .. peers
      BY SMT
    <3> HIDE DEF list
    <3>3. Len(list) = peers
      BY <3>2, SMT
    <3> QED
      BY <3>1, <3>2, <3>3
  <2> QED
    BY <2>1, <2>2
<1> HIDE DEF items
<1>8. Len(names) = Len(items)
  <2>1. PICK n \in Nat : DOMAIN items = 1 .. n /\ Len(items) = n
    BY <1>7
  <2>2. DOMAIN names = 1 .. n /\ names \in Seq({names[i] : i \in 1 .. n})
    BY <2>1, SMT
  <2> HIDE DEF names
  <2> QED
    BY <2>1, <2>2, SMT
<1> HIDE DEF names
<1>9. Len(items) <= MAX_PEER_COUNT
  <2>1. Len(items) \in Nat
    BY <1>7
  <2> QED
    BY <1>5, <2>1, SMT
<1> QED
  BY <1>6, <1>8, <1>9

\* The block that is returned has the number of its hash.
LEMMA BlockReturned ==
    ASSUME NEW c, c.method = "getBlock", c.got \in One(BlockAnswers(c.args, head)),
           Query!Does(c).does \notin {"asks", "throws"}, \A i \in DOMAIN c.got : c.got[i] # Query!Null,
           NEW b \in Nat, c.args = <<Query!Hash(b)>>
    PROVE  Query!Does(c).value.header.number = Query!Number(Query!fromHex(Query!NumberText(b), TRUE, 8))
<1>1. Query!Does(c) = Query!getBlock(c.args, c.got)
  BY DoesIs
<1>2. c.got # <<>>
  BY <1>1, SingleDoes, SMT DEF Query!Ask
<1>3. PICK a \in BlockAnswers(c.args, head) : c.got = <<a>>
  BY <1>2 DEF One
<1>4. a # Query!Null
  <2>1. 1 \in DOMAIN <<a>> /\ <<a>>[1] = a
    BY SMT
  <2> QED
    BY <1>3, <2>1
<1>5. PICK d \in 0 .. head : a = Query!Block(d) /\ (c.args = <<>> \/ c.args = <<Query!Hash(d)>>)
  BY <1>4 DEF BlockAnswers
<1>6. d = b
  <2>1. c.args # <<>>
    BY Lists
  <2>2. Query!Hash(d) = Query!Hash(b)
    BY <1>5, <2>1, Lists, SMT
  <2>3. d \in Nat
    BY SMT
  <2> QED
    BY <2>2, <2>3, HashOne
<1>7. Query!Does(c).value = Query!createBlock(a)
  <2>1. Query!Does(c) # Query!Throw
    BY SMT DEF Query!Throw
  <2>2. Query!Does(c) = Query!Returns(Query!createBlock(a))
    BY <1>1, <1>3, <2>1, SingleDoes
  <2> QED
    BY <2>2, SMT DEF Query!Returns
<1>8. Query!Get(Query!Get(a, "block"), "header") = Query!Header(b)
  <2> DEFINE inner == [header |-> Query!Header(b),
                       extrinsics |-> Query!A([i \in 1 .. 2 |-> Query!S(Query!Extrinsics(b)[i])])]
  <2>1. Query!Get(a, "block") = Query!O(inner)
    BY <1>5, <1>6 DEF Query!Block, Query!Get, Query!O
  <2>2. Query!Get(Query!O(inner), "header") = Query!Header(b)
    BY DEF Query!Get, Query!O
  <2> QED
    BY <2>1, <2>2
<1>9. Query!GetStr(Query!Header(b), "number") = Query!NumberText(b)
  <2>1. Query!Get(Query!Header(b), "number") = Query!S(Query!NumberText(b))
    BY Zenon DEF Query!Header, Query!Get, Query!O
  <2> QED
    BY <2>1, SMT DEF Query!GetStr, Query!S, Query!string_value
<1>10. Query!createBlock(a).header = Query!decodeBlockHeader(Query!Header(b))
  BY <1>8 DEF Query!createBlock
<1>11. Query!decodeBlockHeader(Query!Header(b)).number = Query!Number(Query!fromHex(Query!NumberText(b), TRUE, 8))
  BY <1>9 DEF Query!decodeBlockHeader
<1> QED
  BY <1>7, <1>10, <1>11

\* The items of the changes up to a block, and of no answer.
LEMMA ItemIs ==
    ASSUME NEW h \in Nat, NEW i \in Nat
    PROVE  /\ i < h => Query!Item(Changed(h), i) = Change(i + 1) /\ Query!Item(Changed(h), i) # Query!Null
           /\ ~(i < h) => Query!Item(Changed(h), i) = Query!Null
           /\ Query!Item(Query!Null, i) = Query!Null
<1> DEFINE list == [k \in 1 .. h |-> Change(k)]
<1>1. Changed(h).t = "array" /\ Changed(h).v = list
  BY Zenon DEF Changed, Change, Query!A
<1>2. Len(list) = h
  <2>1. list \in Seq({list[k] : k \in 1 .. h}) /\ DOMAIN list = 1 .. h
    BY SMT
  <2> HIDE DEF list
  <2> QED
    BY <2>1, SMT
<1>3. i < h => list[i + 1] = Change(i + 1)
  <2>1. i < h => i + 1 \in 1 .. h
    BY SMT
  <2> QED
    BY <2>1
<1> HIDE DEF list
<1>4. Change(i + 1) # Query!Null
  <2>1. Change(i + 1).t = "object" /\ Query!Null.t = "null"
    BY DEF Change, Query!O, Query!Null
  <2> QED
    BY <2>1
<1>5. Query!Item(Query!Null, i) = Query!Null
  BY DEF Query!Item, Query!Null
<1> QED
  BY <1>1, <1>2, <1>3, <1>4, <1>5, Zenon DEF Query!Item

\* An item as it is read.
LEMMA StorageItemIs ==
    ASSUME NEW i
    PROVE  Query!StorageItem(Change(i)) = [block |-> Query!Hash(i), value |-> Query!Text(i)]
<1> DEFINE pair == <<Query!S(Query!Text(0)), Query!S(Query!Text(i))>>
           list == <<Query!A(pair)>>
<1>1. Query!Get(Change(i), "block") = Query!S(Query!Hash(i)) /\ Query!Get(Change(i), "changes") = Query!A(list)
  BY Zenon DEF Change, Query!Get, Query!O
<1>2. Query!GetStr(Change(i), "block") = Query!Hash(i)
  BY <1>1, SMT DEF Query!GetStr, Query!S, Query!string_value
<1>3. Len(list) = 1 /\ list[1] = Query!A(pair) /\ Len(pair) = 2 /\ pair[2] = Query!S(Query!Text(i))
  BY Lists
<1>4. 0 < 1 /\ 0 + 1 = 1 /\ 1 < 2 /\ 1 + 1 = 2
  BY SMT
<1> HIDE DEF pair, list
<1>5. Query!Item(Query!A(list), 0) = Query!A(pair)
  <2>1. Query!A(list).t = "array" /\ Query!A(list).v = list
    BY DEF Query!A
  <2> QED
    BY <1>3, <1>4, <2>1, Zenon DEF Query!Item
<1>6. Query!Item(Query!A(pair), 1) = Query!S(Query!Text(i))
  <2>1. Query!A(pair).t = "array" /\ Query!A(pair).v = pair
    BY DEF Query!A
  <2> QED
    BY <1>3, <1>4, <2>1, Zenon DEF Query!Item
<1>7. Query!string_value(Query!S(Query!Text(i))) = Query!Text(i)
  BY DEF Query!S, Query!string_value
<1> QED
  BY <1>1, <1>2, <1>5, <1>6, <1>7 DEF Query!StorageItem

\* How many items are read.
LEMMA CountIs ==
    ASSUME NEW size \in Nat, NEW h \in Nat, NEW a, \A i \in Nat : i < h <=> Query!Item(a, i) # Query!Null
    PROVE  CountOf(size, a) = IF size < h THEN size ELSE h
<1> DEFINE n == IF size < h THEN size ELSE h
<1>1. \A k \in 0 .. size : k \in ItemsOf(size, a) <=> k <= h
  <2> SUFFICES ASSUME NEW k \in 0 .. size
               PROVE  (\A i \in 0 .. k - 1 : Query!Item(a, i) # Query!Null) <=> k <= h
    BY DEF ItemsOf
  <2>1. ASSUME k <= h, NEW i \in 0 .. k - 1 PROVE i \in Nat /\ i < h
    BY <2>1, SMT
  <2>2. ASSUME ~(k <= h) PROVE h \in 0 .. k - 1 /\ ~(h < h)
    BY <2>2, SMT
  <2> QED
    BY <2>1, <2>2
<1>2. \A k \in ItemsOf(size, a) : k \in 0 .. size
  BY DEF ItemsOf
<1>3. n \in 0 .. size /\ n <= h
  BY SMT
<1>4. \A k \in 0 .. size : k <= h => k <= n
  BY SMT
<1>5. n \in ItemsOf(size, a) /\ \A k \in ItemsOf(size, a) : k <= n
  BY <1>1, <1>2, <1>3, <1>4
<1>6. \A k \in 0 .. size : (k <= n /\ n <= k) => k = n
  BY SMT
<1> HIDE DEF n
<1>7. CountOf(size, a) \in ItemsOf(size, a) /\ \A k \in ItemsOf(size, a) : k <= CountOf(size, a)
  BY <1>5 DEF CountOf
<1>8. CountOf(size, a) = n
  BY <1>2, <1>5, <1>6, <1>7
<1> QED
  BY <1>8 DEF n

\* The array is filled with the first of them.
LEMMA FilledIs ==
    ASSUME NEW size \in Nat, NEW h \in Nat, NEW a, a = Changed(h) \/ (h = 0 /\ a = Query!Null)
    PROVE  LET n == IF size < h THEN size ELSE h
           IN  FilledOf(size, a) = [i \in 1 .. n |-> [block |-> Query!Hash(i), value |-> Query!Text(i)]]
<1> DEFINE n == IF size < h THEN size ELSE h
<1>1. \A i \in Nat : ~(i < 0)
  BY SMT
<1>2. \A i \in Nat : i < h <=> Query!Item(a, i) # Query!Null
  BY <1>1, ItemIs
<1>3. CountOf(size, a) = n
  BY <1>2, CountIs
<1>4. n \in Nat /\ n <= h
  BY SMT
<1> HIDE DEF n
<1>5. ASSUME NEW i \in 1 .. n
      PROVE  Query!StorageItem(Query!Item(a, i - 1)) = [block |-> Query!Hash(i), value |-> Query!Text(i)]
  <2>1. i - 1 \in Nat /\ i - 1 < h /\ (i - 1) + 1 = i /\ h # 0
    BY <1>4, SMT
  <2>2. Query!Item(a, i - 1) = Change((i - 1) + 1)
    BY <2>1, ItemIs
  <2> QED
    BY <2>1, <2>2, StorageItemIs
<1>6. FilledOf(size, a) = [i \in 1 .. n |-> [block |-> Query!Hash(i), value |-> Query!Text(i)]]
  BY <1>3, <1>5 DEF FilledOf
<1> QED
  BY <1>6 DEF n

\* The changes that are returned.
LEMMA ChangesReturned ==
    ASSUME head \in Nat, NEW c, c.method = "queryStorage", c.from \in Nat, c.from <= head, c.args \in Nat,
           c.got \in One(ChangeAnswers(c.from, head)), Query!Does(c).does \notin {"asks", "throws"}
    PROVE  LET value == Query!Does(c).value
           IN  /\ Len(value) <= c.args
               /\ \A i \in DOMAIN value : value[i] = [block |-> Query!Hash(i), value |-> Query!Text(i)]
               /\ ((\A i \in DOMAIN c.got : c.got[i] # Query!Null) /\ c.from = head /\ c.args >= c.from) =>
                      Len(value) = c.from
<1>1. Query!Does(c) = Query!queryStorage(c.args, c.got)
  BY DoesIs
<1>2. c.got # <<>>
  <2>1. Query!queryStorage(c.args, <<>>) = Query!Ask("state_queryStorage", <<>>)
    BY SingleDoes
  <2> QED
    BY <1>1, <2>1, SMT DEF Query!Ask
<1>3. PICK a \in ChangeAnswers(c.from, head) : c.got = <<a>>
  BY <1>2 DEF One
<1>4. Query!Does(c).value = FilledOf(c.args, a)
  <2>1. Query!Does(c) = Query!Returns(FilledOf(c.args, a))
    BY <1>1, <1>3, ChangesDo
  <2> QED
    BY <2>1, SMT DEF Query!Returns
<1>5. PICK h \in Nat : (a = Changed(h) /\ h \in c.from .. head) \/ (h = 0 /\ a = Query!Null)
  <2>1. \A h \in c.from .. head : h \in Nat
    BY SMT
  <2> QED
    BY <2>1 DEF ChangeAnswers
<1> DEFINE n == IF c.args < h THEN c.args ELSE h
           list == [i \in 1 .. n |-> [block |-> Query!Hash(i), value |-> Query!Text(i)]]
<1>6. Query!Does(c).value = list
  BY <1>4, <1>5, FilledIs, SMT
<1>7. n \in Nat /\ n <= c.args /\ (c.args >= h => n = h)
  BY SMT
<1>8. (\A i \in DOMAIN c.got : c.got[i] # Query!Null) => a # Query!Null
  <2>1. 1 \in DOMAIN <<a>> /\ <<a>>[1] = a
    BY SMT
  <2> QED
    BY <1>3, <2>1
<1>9. (h \in c.from .. head /\ c.from = head) => h = c.from
  BY SMT
<1> HIDE DEF n
<1>10. Len(list) = n
  <2>1. list \in Seq({list[i] : i \in 1 .. n}) /\ DOMAIN list = 1 .. n
    BY <1>7, SMT
  <2> HIDE DEF list
  <2> QED
    BY <1>7, <2>1, SMT
<1>11. \A i \in DOMAIN list : list[i] = [block |-> Query!Hash(i), value |-> Query!Text(i)]
  OBVIOUS
<1> HIDE DEF list
<1> QED
  BY <1>5, <1>6, <1>7, <1>8, <1>9, <1>10, <1>11

\* A method that starts has no answers yet.
LEMMA GotAtStart ==
    ASSUME QueryConstants, head \in Nat, NEW m, NEW args,
           m = "connect" \/ (m \in Query!Methods /\ args \in Query!Arguments(m))
    PROVE  GotRight(Query!Starts(m, args)) /\ Query!Starts(m, args) # Query!NoCall
<1> DEFINE c == Query!Starts(m, args)
<1>1. /\ DOMAIN c = {"method", "args", "got", "from"}
      /\ c.method = m /\ c.args = args /\ c.got = <<>> /\ c.from = head
  BY DEF Query!Starts
<1> HIDE DEF c
<1>2. head <= head
  BY SMT
<1>3. \A X, Y : <<>> \in One(X) /\ <<>> \in Two(X, Y)
  BY SMT DEF One, Two
<1>4. m = "getBlock" => args \in {<<>>} \cup {<<Query!Hash(b)>> : b \in Nat}
  <2>1. m = "getBlock" => args \in {<<>>} \cup {<<Query!Hash(b)>> : b \in 0 .. head}
    BY Zenon DEF Query!Arguments
  <2>2. \A b \in 0 .. head : b \in Nat
    BY SMT
  <2> QED
    BY <2>1, <2>2
<1>5. m = "queryStorage" => args \in Nat
  <2>1. Query!Arguments("queryStorage") = BufferSizes
    BY Zenon DEF Query!Arguments
  <2> QED
    BY <2>1 DEF QueryConstants
<1>6. GotRight(c)
  BY <1>1, <1>2, <1>3, <1>4, <1>5, Zenon DEF GotRight
<1>7. c # Query!NoCall
  <2>1. DOMAIN Query!NoCall = {"method"}
    BY DEF Query!NoCall
  <2> QED
    BY <1>1, <2>1, SMT
<1> QED
  BY <1>6, <1>7 DEF c

\* What was answered stays possible when the chain grows.
LEMMA AnswersGrow ==
    ASSUME NEW lo \in Nat, NEW hi \in Nat, NEW args
    PROVE  /\ HashAnswers(lo, hi) \subseteq HashAnswers(lo, hi + 1)
           /\ ValueAnswers(args, lo, hi) \subseteq ValueAnswers(args, lo, hi + 1)
           /\ SizeAnswers(lo, hi) \subseteq SizeAnswers(lo, hi + 1)
           /\ BlockAnswers(args, hi) \subseteq BlockAnswers(args, hi + 1)
           /\ ChangeAnswers(lo, hi) \subseteq ChangeAnswers(lo, hi + 1)
<1>1. lo .. hi \subseteq lo .. (hi + 1) /\ 0 .. hi \subseteq 0 .. (hi + 1)
  BY SMT
<1>2. HashAnswers(lo, hi) \subseteq HashAnswers(lo, hi + 1)
  BY <1>1, Zenon DEF HashAnswers
<1>3. ValueAnswers(args, lo, hi) \subseteq ValueAnswers(args, lo, hi + 1)
  BY <1>1, Zenon DEF ValueAnswers
<1>4. SizeAnswers(lo, hi) \subseteq SizeAnswers(lo, hi + 1)
  BY <1>1, Zenon DEF SizeAnswers
<1>5. BlockAnswers(args, hi) \subseteq BlockAnswers(args, hi + 1)
  BY <1>1, Zenon DEF BlockAnswers
<1>6. ChangeAnswers(lo, hi) \subseteq ChangeAnswers(lo, hi + 1)
  BY <1>1, Zenon DEF ChangeAnswers
<1> QED
  BY <1>2, <1>3, <1>4, <1>5, <1>6

\* A block that is added leaves the answers possible.
LEMMA GotStays ==
    ASSUME head \in Nat, NEW c, GotRight(c), head' = head + 1, peers' = peers, call' = c
    PROVE  GotRight(call)'
<1>1. c.from \in Nat /\ c.from <= head
  BY DEF GotRight
<1>2. c.from <= head + 1
  BY <1>1, SMT
<1>3. \A X, V : X \subseteq V => One(X) \subseteq One(V)
  BY Zenon DEF One
<1>4. \A X, Y, V, W : X \subseteq V /\ Y \subseteq W => Two(X, Y) \subseteq Two(V, W)
  BY <1>3, SMT DEF Two
<1>5. /\ HashAnswers(c.from, head) \subseteq HashAnswers(c.from, head + 1)
      /\ ValueAnswers(c.args, c.from, head) \subseteq ValueAnswers(c.args, c.from, head + 1)
      /\ SizeAnswers(c.from, head) \subseteq SizeAnswers(c.from, head + 1)
      /\ BlockAnswers(c.args, head) \subseteq BlockAnswers(c.args, head + 1)
      /\ ChangeAnswers(c.from, head) \subseteq ChangeAnswers(c.from, head + 1)
  BY <1>1, AnswersGrow
<1>6. /\ Two(HashAnswers(c.from, head), ValueAnswers(c.args, c.from, head))
           \subseteq Two(HashAnswers(c.from, head + 1), ValueAnswers(c.args, c.from, head + 1))
      /\ Two(HashAnswers(c.from, head), SizeAnswers(c.from, head))
           \subseteq Two(HashAnswers(c.from, head + 1), SizeAnswers(c.from, head + 1))
  BY <1>4, <1>5, SMT
<1>7. /\ One(BlockAnswers(c.args, head)) \subseteq One(BlockAnswers(c.args, head + 1))
      /\ One(ChangeAnswers(c.from, head)) \subseteq One(ChangeAnswers(c.from, head + 1))
  BY <1>3, <1>5
<1>8. PeerAnswers' = PeerAnswers
  BY DEF PeerAnswers
<1> QED
  BY <1>2, <1>6, <1>7, <1>8, Zenon DEF GotRight

\* What a method has returned.
LEMMA ReturnedRight ==
    ASSUME QueryConstants, head \in Nat, peers \in Nat, GotRight(call), Query!Return
    PROVE  (Query!StorageOfAHead /\ BlockNumbered /\ Query!PeersFit /\ Query!FirstItems)'
<1> DEFINE done == \A i \in DOMAIN call.got : call.got[i] # Query!Null
           d == Query!Does(call)
<1>1. /\ returned' = [method |-> call.method, args |-> call.args, from |-> call.from, until |-> head,
                      thrown |-> d.does = "throws", value |-> d.value, answered |-> done]
      /\ d.does # "asks"
  BY DEF Query!Return
<1>2. /\ returned'.method = call.method /\ returned'.args = call.args /\ returned'.from = call.from
      /\ returned'.until = head /\ (returned'.thrown <=> d.does = "throws") /\ returned'.value = d.value
      /\ (returned'.answered <=> done)
  BY <1>1, Zenon
<1>3. call.from \in Nat /\ call.from <= head
  BY DEF GotRight
<1>4. ASSUME NEW m, Query!Got(m)' PROVE call.method = m /\ d.does \notin {"asks", "throws"}
  BY <1>1, <1>2, <1>4 DEF Query!Got
<1> HIDE DEF d, done
<1>5. Query!StorageOfAHead'
  <2>1. ASSUME NEW m \in {"getStorage", "getStorageHash"}, Query!Got(m)'
        PROVE  d.value = <<>> \/ \E b \in call.from .. head : d.value = Query!ValueAt(call.args, b)
    BY <1>3, <1>4, <2>1, StorageReturned DEF GotRight, d
  <2>2. ASSUME Query!Got("getStorageSize")' PROVE d.value = 0 \/ d.value - 1 \in call.from .. head
    BY <1>3, <1>4, <2>2, SizeReturned, SMT DEF GotRight, d
  <2> QED
    BY <1>2, <2>1, <2>2, Zenon DEF Query!StorageOfAHead
<1>6. BlockNumbered'
  <2>1. ASSUME NEW b \in Nat, Query!Got("getBlock")', done, call.args = <<Query!Hash(b)>>
        PROVE  d.value.header.number = Query!Number(Query!fromHex(Query!NumberText(b), TRUE, 8))
    BY <1>4, <2>1, BlockReturned DEF GotRight, d, done
  <2> QED
    BY <1>2, <2>1, Zenon DEF BlockNumbered
<1>7. Query!PeersFit'
  <2>1. ASSUME Query!Got("getSystemPeers")'
        PROVE  d.value.count = Len(d.value.peers) /\ d.value.count <= MAX_PEER_COUNT
    BY <1>4, <2>1, PeersReturned DEF GotRight, d, QueryConstants
  <2> QED
    BY <1>2, <2>1, Zenon DEF Query!PeersFit
<1>8. Query!FirstItems'
  <2>1. ASSUME Query!Got("queryStorage")'
        PROVE  /\ Len(d.value) <= call.args
               /\ \A i \in DOMAIN d.value : d.value[i] = [block |-> Query!Hash(i), value |-> Query!Text(i)]
               /\ (done /\ call.from = head /\ call.args >= call.from) => Len(d.value) = call.from
    BY <1>3, <1>4, <2>1, ChangesReturned DEF GotRight, d, done
  <2> QED
    BY <1>2, <2>1, Zenon DEF Query!FirstItems
<1> QED
  BY <1>5, <1>6, <1>7, <1>8

\* The invariant is kept by every step.
LEMMA QueryNext == QueryConstants /\ QueryInv /\ [Query!Next]_Query!vars => QueryInv'
<1> SUFFICES ASSUME QueryConstants, QueryInv, [Query!Next]_Query!vars PROVE QueryInv'
  OBVIOUS
<1> DEFINE Results == Query!StorageOfAHead /\ BlockNumbered /\ Query!PeersFit /\ Query!FirstItems
<1>1. head \in Nat /\ peers \in Nat /\ Results /\ (call # Query!NoCall => GotRight(call))
  BY DEF QueryInv
<1>2. returned' = Query!NoCall => Results'
  <2>1. SUFFICES ASSUME returned' = Query!NoCall PROVE Results'
    OBVIOUS
  <2>2. \A m : Query!Got(m)' => m = "none"
    BY <2>1 DEF Query!Got, Query!NoCall
  <2> QED
    BY <2>2 DEF Query!StorageOfAHead, BlockNumbered, Query!PeersFit, Query!FirstItems
<1>3. returned' = returned => Results'
  <2>1. SUFFICES ASSUME returned' = returned PROVE Results'
    OBVIOUS
  <2>2. \A m : Query!Got(m)' = Query!Got(m)
    BY <2>1 DEF Query!Got
  <2>3. Query!StorageOfAHead'
    BY <1>1, <2>1, <2>2, Zenon DEF Query!StorageOfAHead
  <2>4. BlockNumbered'
    BY <1>1, <2>1, <2>2, Zenon DEF BlockNumbered
  <2>5. Query!PeersFit' /\ Query!FirstItems'
    BY <1>1, <2>1, <2>2, Zenon DEF Query!PeersFit, Query!FirstItems
  <2> QED
    BY <2>3, <2>4, <2>5
<1>4. QueryInv' <=> head' \in Nat /\ peers' \in Nat /\ (call' # Query!NoCall => GotRight(call)') /\ Results'
  BY DEF QueryInv
<1>5. CASE Query!Connect \/ Query!Query
  <2>1. PICK m, args : (m = "connect" \/ (m \in Query!Methods /\ args \in Query!Arguments(m)))
                       /\ call' = Query!Starts(m, args)
    BY <1>5 DEF Query!Connect, Query!Query
  <2>2. GotRight(Query!Starts(m, args))
    BY <1>1, <2>1, GotAtStart
  <2>3. head' = head /\ peers' = peers /\ returned' = Query!NoCall
    BY <1>5 DEF Query!Connect, Query!Query
  <2>4. GotRight(call)'
    BY <2>1, <2>2, <2>3 DEF GotRight, PeerAnswers
  <2> QED
    BY <1>1, <1>2, <1>4, <2>3, <2>4
<1>6. CASE Query!Answered \/ Query!TimesOut
  <2>1. /\ call # Query!NoCall /\ Query!Does(call).does = "asks"
        /\ head' = head /\ peers' = peers /\ returned' = returned
    BY <1>6 DEF Query!Answered, Query!TimesOut
  <2>2. PICK x \in {Query!Null, Query!Answer(Query!Does(call).method, Query!Does(call).params)} :
            call' = [call EXCEPT !.got = Append(@, x)]
    BY <1>6 DEF Query!Answered, Query!TimesOut
  <2>3. GotRight([call EXCEPT !.got = Append(@, x)])
    BY <1>1, <2>1, GotMore
  <2>4. GotRight(call)'
    BY <2>1, <2>2, <2>3 DEF GotRight, PeerAnswers
  <2> QED
    BY <1>1, <1>3, <1>4, <2>1, <2>4
<1>7. CASE Query!Return
  <2>1. call # Query!NoCall /\ call' = Query!NoCall /\ head' = head /\ peers' = peers
    BY <1>7 DEF Query!Return
  <2>2. Results'
    BY <1>1, <1>7, <2>1, ReturnedRight
  <2> QED
    BY <1>1, <1>4, <2>1, <2>2
<1>8. CASE Query!NodeBlock
  <2>1. head' = head + 1 /\ peers' = peers /\ call' = call /\ returned' = returned
    BY <1>8 DEF Query!NodeBlock
  <2>2. call # Query!NoCall => GotRight(call)'
    BY <1>1, <2>1, GotStays
  <2>3. head + 1 \in Nat
    BY <1>1, SMT
  <2> QED
    BY <1>1, <1>3, <1>4, <2>1, <2>2, <2>3
<1>9. CASE UNCHANGED Query!vars
  <2>1. head' = head /\ peers' = peers /\ call' = call /\ returned' = returned
    BY <1>9 DEF Query!vars
  <2>2. call # Query!NoCall => GotRight(call)'
    BY <1>1, <2>1 DEF GotRight, PeerAnswers
  <2> QED
    BY <1>1, <1>3, <1>4, <2>1, <2>2
<1> QED
  BY <1>5, <1>6, <1>7, <1>8, <1>9 DEF Query!Next

\* Queries (the methods of application.cpp with which a caller asks), for every
\* height of the chain, however it grows between two requests of a method and
\* whichever requests time out: storage belongs to one block that was the head
\* while the method ran, a block has its own number, and an answer longer than
\* the caller's array fills it in order and no further.
THEOREM QueriesHold ==
    ASSUME QueryConstants
    PROVE  Query!Spec => []QueriesAreRight
<1>1. Query!Init => QueryInv
  BY QueryInit
<1>2. QueryInv /\ [Query!Next]_Query!vars => QueryInv'
  BY QueryNext
<1> QED
  BY <1>1, <1>2, QueryInvImplies, PTL DEF Query!Spec

-----------------------------------------------------------------------------
(* Eras and sessions.                                                      *)

\* The numbers the node stores: the model reads two bytes of each.
Stores == {n \in Nat : n < 65536}

\* Every length is positive, and block, slot and session numbers are stored
\* in two bytes.
EraConstants ==
    /\ FirstBlock \in Nat /\ LastBlock \in Nat /\ FirstBlock <= LastBlock
    /\ Lengths \subseteq Stores \ {0} /\ SessionsPerEra \in Stores \ {0} /\ EpochDuration \in Stores \ {0}
    /\ 2 * LastBlock + Eras!GenesisSlot \in Stores /\ SessionsPerEra + LastBlock \in Stores

\* What a digit stands for.
LEMMA NibbleOfDigit ==
    ASSUME NEW c, c \in 48 .. 57, c \notin 97 .. 102, c \notin 65 .. 70
    PROVE  Eras!Nibble(c) = c - 48
BY Zenon DEF Eras!Nibble

\* What a letter stands for.
LEMMA NibbleOfLetter ==
    ASSUME NEW c, c \in 97 .. 102, c \notin 65 .. 70, c \notin 48 .. 57
    PROVE  Eras!Nibble(c) = c - 97 + 10
BY Zenon DEF Eras!Nibble

\* A digit that is written is read back.
LEMMA NibbleOfHex ==
    ASSUME NEW d \in 0 .. 15
    PROVE  Eras!Nibble(Eras!LowerHex(d)) = d
<1> DEFINE c == Eras!LowerHex(d)
<1>1. CASE d < 10
  <2>1. c = 48 + d
    BY <1>1 DEF Eras!LowerHex
  <2>2. c \notin 97 .. 102 /\ c \notin 65 .. 70 /\ c \in 48 .. 57 /\ c - 48 = d
    BY <1>1, <2>1, SMT
  <2> HIDE DEF c
  <2> QED
    BY <2>2, NibbleOfDigit, Zenon DEF c
<1>2. CASE ~(d < 10)
  <2>1. c = 97 + d - 10
    BY <1>2 DEF Eras!LowerHex
  <2>2. c \in 97 .. 102 /\ c \notin 65 .. 70 /\ c \notin 48 .. 57 /\ c - 97 + 10 = d
    BY <1>2, <2>1, SMT
  <2> HIDE DEF c
  <2> QED
    BY <2>2, NibbleOfLetter, Zenon DEF c
<1> QED
  BY <1>1, <1>2


\* For two digits the bits do not meet.
LEMMA HexByte ==
    ASSUME NEW c1, NEW c2, Eras!Nibble(c1) \in 0 .. 15, Eras!Nibble(c2) \in 0 .. 15
    PROVE  Eras!fromHexByte(c1, c2) = 16 * Eras!Nibble(c1) + Eras!Nibble(c2)
<1> DEFINE a == Eras!Nibble(c1)
           b == Eras!Nibble(c2)
<1>1. b \div 16 = 0 /\ a % 16 = a /\ b % 16 = b
  BY SMT
<1>2. Eras!Or4(a, 0) = a
  <2>1. a \in {0, 1, 2, 3, 4, 5, 6, 7, 8, 9, 10, 11, 12, 13, 14, 15}
    BY SMT
  <2> HIDE DEF a
  <2> QED
    BY <2>1, SMT DEF Eras!Or4
<1> QED
  BY <1>1, <1>2 DEF Eras!fromHexByte

\* Two digits are a byte, and two bytes a number that is stored.
LEMMA BytesOfNumber ==
    ASSUME NEW n \in Stores
    PROVE  /\ n \div 4096 \in 0 .. 15 /\ (n \div 256) % 16 \in 0 .. 15
           /\ (n \div 16) % 16 \in 0 .. 15 /\ n % 16 \in 0 .. 15
           /\ 16 * (n \div 4096) + ((n \div 256) % 16) = n \div 256
           /\ 16 * ((n \div 16) % 16) + (n % 16) + 256 * (n \div 256) = n
<1> DEFINE q == n \div 16
           r == n \div 256
<1>1. n \in Nat /\ n < 65536
  BY SMT DEF Stores
<1>2. q \in Nat /\ n = 16 * q + (n % 16) /\ n % 16 \in 0 .. 15
  BY <1>1, SMT
<1>3. r \in 0 .. 255 /\ r = q \div 16 /\ q = 16 * r + (q % 16) /\ q % 16 \in 0 .. 15
  BY <1>1, SMT
<1>4. n \div 4096 = r \div 16 /\ r \div 16 \in 0 .. 15 /\ r = 16 * (r \div 16) + (r % 16) /\ r % 16 \in 0 .. 15
  BY <1>1, SMT
<1>5. 16 * (r \div 16) + (r % 16) = r
  BY <1>3, <1>4, SMT
<1>6. 16 * (q % 16) + (n % 16) + 256 * r = n
  <2> HIDE DEF q, r
  <2> QED
    BY <1>1, <1>2, <1>3, SMT
<1> QED
  BY <1>2, <1>3, <1>4, <1>5, <1>6, SMT

\* The two digits of a byte.
LEMMA HexPair ==
    ASSUME NEW a \in 0 .. 15, NEW b \in 0 .. 15
    PROVE  Eras!fromHexByte(Eras!LowerHex(a), Eras!LowerHex(b)) = 16 * a + b
BY NibbleOfHex, HexByte

\* The text of a vector of bytes: "0x" and two digits a byte, from the left.
IsHexOf(s, bs) ==
    /\ Len(s) = 2 + 2 * Len(bs) /\ s[1] = 48 /\ s[2] = 120
    /\ \A k \in 1 .. Len(bs) : /\ s[2 * k + 1] = Eras!LowerHex(bs[k] \div 16)
                               /\ s[2 * k + 2] = Eras!LowerHex(bs[k] % 16)

\* The digits of one byte of such a text.
LEMMA ByteOfHex ==
    ASSUME NEW bs \in Seq(0 .. 255), NEW s \in Seq(Nat), IsHexOf(s, bs), NEW k \in 1 .. Len(bs)
    PROVE  Eras!fromHexByte(Eras!CharAt(s, 2 * k), Eras!CharAt(s, 2 * k + 1)) = bs[k]
<1> DEFINE b == bs[k]
           n == Len(bs)
<1>1. n \in Nat /\ k \in 1 .. n /\ b \in 0 .. 255
  BY Elements, Zenon
<1>2. /\ Len(s) = 2 + 2 * n
      /\ s[2 * k + 1] = Eras!LowerHex(b \div 16) /\ s[2 * k + 2] = Eras!LowerHex(b % 16)
  BY DEF IsHexOf
<1>3. Eras!CharAt(s, 2 * k) = s[2 * k + 1] /\ Eras!CharAt(s, 2 * k + 1) = s[2 * k + 2]
  <2> HIDE DEF n
  <2>1. 2 * k < Len(s) /\ 2 * k + 1 < Len(s) /\ 2 * k + 1 + 1 = 2 * k + 2
    BY <1>1, <1>2, SMT
  <2> QED
    BY <2>1, Zenon DEF Eras!CharAt
<1>4. b \div 16 \in 0 .. 15 /\ b % 16 \in 0 .. 15 /\ 16 * (b \div 16) + (b % 16) = b
  <2> HIDE DEF b
  <2> QED
    BY <1>1, SMT
<1> QED
  BY <1>2, <1>3, <1>4, HexPair

\* Where its bytes are.
LEMMA BytesOfHex ==
    ASSUME NEW bs \in Seq(0 .. 255), NEW s \in Seq(Nat), IsHexOf(s, bs)
    PROVE  /\ Eras!Start(s) = 2 /\ Eras!Bytes(s) = Len(bs) /\ (Len(s) - Eras!Start(s)) \div 2 = Len(bs)
           /\ \A k \in 0 .. Len(bs) - 1 : Eras!ByteOf(s, k) = bs[k + 1]
<1> DEFINE n == Len(bs)
<1>1. n \in Nat /\ Len(s) = 2 + 2 * n /\ s[1] = 48 /\ s[2] = 120
  BY SMT DEF IsHexOf
<1>2. Eras!Start(s) = 2
  <2> HIDE DEF n
  <2> QED
    BY <1>1, SMT DEF Eras!Start, Eras!CharAt
<1>3. Eras!Bytes(s) = n /\ (Len(s) - Eras!Start(s)) \div 2 = n
  <2> HIDE DEF n
  <2>1. (Len(s) - 2 + 1) \div 2 = n /\ (Len(s) - 2) \div 2 = n
    BY <1>1, SMT
  <2>2. Eras!Bytes(s) = (Len(s) - Eras!Start(s) + 1) \div 2
    BY DEF Eras!Bytes
  <2> QED
    BY <1>2, <2>1, <2>2
<1>4. ASSUME NEW k \in 0 .. n - 1
      PROVE  Eras!ByteOf(s, k) = bs[k + 1]
  <2>1. k + 1 \in 1 .. n /\ 2 + 2 * k = 2 * (k + 1) /\ 2 + 2 * k + 1 = 2 * (k + 1) + 1
    <3> HIDE DEF n
    <3> QED
      BY <1>1, SMT
  <2>2. Eras!fromHexByte(Eras!CharAt(s, 2 * (k + 1)), Eras!CharAt(s, 2 * (k + 1) + 1)) = bs[k + 1]
    BY <2>1, ByteOfHex
  <2> QED
    BY <1>2, <2>1, <2>2, Zenon DEF Eras!ByteOf
<1> QED
  BY <1>2, <1>3, <1>4

\* Hexadecimal text is read back, whatever its length: of the text of a vector
\* of bytes, fromHex<vector<uint8_t>> gives the bytes, or lowest byte first the
\* bytes in the other order, and fromHex<T> gives the integer of w bytes with
\* these lowest or highest bytes first, 0 beyond them and cut off to width w.
THEOREM HexIsRead ==
    ASSUME NEW bs \in Seq(0 .. 255), NEW s \in Seq(Nat), IsHexOf(s, bs), NEW w \in Nat
    PROVE  /\ Eras!fromHexVector(s, TRUE) = bs
           /\ Eras!fromHexVector(s, FALSE) = [i \in 1 .. Len(bs) |-> bs[Len(bs) + 1 - i]]
           /\ Eras!fromHex(s, FALSE, w) = [i \in 1 .. w |-> IF i > Len(bs) THEN 0 ELSE bs[i]]
           /\ Eras!fromHex(s, TRUE, w) = [i \in 1 .. w |-> IF i > Len(bs) THEN 0 ELSE bs[Len(bs) + 1 - i]]
<1> DEFINE n == Len(bs)
<1>1. /\ Eras!Start(s) = 2 /\ Eras!Bytes(s) = n /\ (Len(s) - Eras!Start(s)) \div 2 = n
      /\ \A k \in 0 .. n - 1 : Eras!ByteOf(s, k) = bs[k + 1]
  BY BytesOfHex
<1>2. n \in Nat /\ Len(s) = 2 + 2 * n
  BY SMT DEF IsHexOf
<1>n. bs = [i \in 1 .. n |-> bs[i]]
  BY Elements, SMT
<1>3. ASSUME NEW i \in 1 .. n
      PROVE  Eras!ByteOf(s, i - 1) = bs[i] /\ Eras!ByteOf(s, n - i) = bs[n + 1 - i]
  <2> HIDE DEF n
  <2>1. i - 1 \in 0 .. n - 1 /\ i - 1 + 1 = i /\ n - i \in 0 .. n - 1 /\ n - i + 1 = n + 1 - i
    BY <1>2, SMT
  <2> QED
    BY <1>1, <2>1, Zenon
<1>4. ASSUME NEW i \in 1 .. n
      PROVE  Eras!fromHexByte(Eras!CharAt(s, Len(s) - 2 * i), Eras!CharAt(s, Len(s) - 2 * i + 1)) = bs[n + 1 - i]
  <2>1. n + 1 - i \in 1 .. n /\ Len(s) - 2 * i = 2 * (n + 1 - i)
    <3> HIDE DEF n
    <3> QED
      BY <1>2, SMT
  <2> QED
    BY <2>1, ByteOfHex
<1>5. Eras!fromHexVector(s, TRUE) = bs
  <2> HIDE DEF n
  <2>1. [i \in 1 .. n |-> Eras!ByteOf(s, i - 1)] = [i \in 1 .. n |-> bs[i]]
    BY <1>3, Zenon
  <2> QED
    BY <1>1, <1>n, <2>1, Zenon DEF Eras!fromHexVector
<1>6. Eras!fromHexVector(s, FALSE) = [i \in 1 .. n |-> bs[n + 1 - i]]
  <2> HIDE DEF n
  <2>1. [i \in 1 .. n |-> Eras!fromHexByte(Eras!CharAt(s, Len(s) - 2 * i), Eras!CharAt(s, Len(s) - 2 * i + 1))]
          = [i \in 1 .. n |-> bs[n + 1 - i]]
    BY <1>4, Zenon
  <2> QED
    BY <1>1, <2>1, Zenon DEF Eras!fromHexVector
<1>7. ASSUME NEW i \in 1 .. w
      PROVE  i > n \/ i \in 1 .. n
  <2> HIDE DEF n
  <2> QED
    BY <1>2, SMT
<1>8. Eras!fromHex(s, FALSE, w) = [i \in 1 .. w |-> IF i > n THEN 0 ELSE bs[i]]
  <2> HIDE DEF n
  <2>1. [i \in 1 .. w |-> IF i > n THEN 0 ELSE Eras!ByteOf(s, i - 1)] = [i \in 1 .. w |-> IF i > n THEN 0 ELSE bs[i]]
    BY <1>3, <1>7, Zenon
  <2> QED
    BY <1>1, <2>1, Zenon DEF Eras!fromHex
<1>9. Eras!fromHex(s, TRUE, w) = [i \in 1 .. w |-> IF i > n THEN 0 ELSE bs[n + 1 - i]]
  <2> HIDE DEF n
  <2>1. [i \in 1 .. w |-> IF i > n THEN 0 ELSE Eras!ByteOf(s, n - i)]
          = [i \in 1 .. w |-> IF i > n THEN 0 ELSE bs[n + 1 - i]]
    BY <1>3, <1>7, Zenon
  <2> QED
    BY <1>1, <2>1, Zenon DEF Eras!fromHex
<1> QED
  BY <1>5, <1>6, <1>8, <1>9

\* A storage value is read as the number it stands for.
LEMMA FieldOfStored ==
    ASSUME NEW n \in Stores
    PROVE  Eras!Field(Eras!Stored(n)) = n /\ Eras!Stored(n) # Eras!Null
<1> DEFINE s == Eras!Stored(n)
           h(d) == Eras!LowerHex(d)
           front == <<48, 120, h((n \div 16) % 16), h(n % 16), h(n \div 4096), h((n \div 256) % 16)>>
           back == [i \in 1 .. 12 |-> 48]
<1>1. s = front \o back
  BY DEF Eras!Stored
<1> HIDE DEF h
<1>2. /\ Len(s) = 18 /\ s[1] = 48 /\ s[2] = 120
      /\ s[3] = h((n \div 16) % 16) /\ s[4] = h(n % 16) /\ s[5] = h(n \div 4096) /\ s[6] = h((n \div 256) % 16)
  BY <1>1, SMT
<1> HIDE DEF s
<1>3. Eras!Start(s) = 2
  BY <1>2, SMT DEF Eras!Start, Eras!CharAt
<1>4. Eras!Bytes(s) = 8
  BY <1>2, <1>3, SMT DEF Eras!Bytes
<1>5. Eras!ByteOf(s, 0) = Eras!fromHexByte(s[3], s[4]) /\ Eras!ByteOf(s, 1) = Eras!fromHexByte(s[5], s[6])
  BY <1>2, <1>3, SMT DEF Eras!ByteOf, Eras!CharAt
<1>6. /\ Eras!ByteOf(s, 0) = 16 * ((n \div 16) % 16) + (n % 16)
      /\ Eras!ByteOf(s, 1) = 16 * (n \div 4096) + ((n \div 256) % 16)
  BY <1>2, <1>5, HexPair, BytesOfNumber, SMT DEF h
<1>7. s # Eras!Null
  BY <1>2, SMT DEF Eras!Null
<1>8. Eras!fromHex(s, FALSE, 8)[1] = Eras!ByteOf(s, 0) /\ Eras!fromHex(s, FALSE, 8)[2] = Eras!ByteOf(s, 1)
  BY <1>4, SMT DEF Eras!fromHex
<1>9. Eras!Field(s) = Eras!ByteOf(s, 0) + 256 * Eras!ByteOf(s, 1)
  BY <1>7, <1>8 DEF Eras!Field
<1> QED
  BY <1>6, <1>7, <1>9, BytesOfNumber, SMT DEF s

\* And so is the number of a block.
LEMMA NumberOfHead ==
    ASSUME NEW n \in Stores
    PROVE  LET d == Eras!fromHex(Eras!HeadText(n), TRUE, 8) IN d[1] + 256 * d[2] = n
<1> DEFINE s == Eras!HeadText(n)
           h(d) == Eras!LowerHex(d)
<1>1. s = <<48, 120, h(n \div 4096), h((n \div 256) % 16), h((n \div 16) % 16), h(n % 16)>>
  BY DEF Eras!HeadText
<1> HIDE DEF h
<1>2. /\ Len(s) = 6 /\ s[1] = 48 /\ s[2] = 120
      /\ s[3] = h(n \div 4096) /\ s[4] = h((n \div 256) % 16) /\ s[5] = h((n \div 16) % 16) /\ s[6] = h(n % 16)
  BY <1>1, SMT
<1> HIDE DEF s
<1>3. Eras!Start(s) = 2
  BY <1>2, SMT DEF Eras!Start, Eras!CharAt
<1>4. Eras!Bytes(s) = 2
  BY <1>2, <1>3, SMT DEF Eras!Bytes
<1>5. Eras!ByteOf(s, 1) = Eras!fromHexByte(s[5], s[6]) /\ Eras!ByteOf(s, 0) = Eras!fromHexByte(s[3], s[4])
  BY <1>2, <1>3, SMT DEF Eras!ByteOf, Eras!CharAt
<1>6. /\ Eras!ByteOf(s, 1) = 16 * ((n \div 16) % 16) + (n % 16)
      /\ Eras!ByteOf(s, 0) = 16 * (n \div 4096) + ((n \div 256) % 16)
  BY <1>2, <1>5, HexPair, BytesOfNumber, SMT DEF h
<1>7. Eras!fromHex(s, TRUE, 8)[1] = Eras!ByteOf(s, 1) /\ Eras!fromHex(s, TRUE, 8)[2] = Eras!ByteOf(s, 0)
  BY <1>4, SMT DEF Eras!fromHex
<1>8. Eras!fromHex(s, TRUE, 8)[1] + 256 * Eras!fromHex(s, TRUE, 8)[2] = n
  <2>0. /\ 16 * (n \div 4096) + ((n \div 256) % 16) = n \div 256
        /\ 16 * ((n \div 16) % 16) + (n % 16) + 256 * (n \div 256) = n
    BY BytesOfNumber, SMT
  <2>1. Eras!ByteOf(s, 0) = n \div 256
    BY <1>6, <2>0, SMT
  <2>2. Eras!ByteOf(s, 1) + 256 * (n \div 256) = n
    BY <1>6, <2>0, SMT
  <2> QED
    BY <1>7, <2>1, <2>2, Zenon
<1> QED
  BY <1>8 DEF s

\* A value of 0 is not stored and reads as 0.
LEMMA FieldOfValue ==
    ASSUME NEW n \in Stores
    PROVE  Eras!Field(IF n = 0 THEN Eras!Null ELSE Eras!Stored(n)) = n
BY FieldOfStored DEF Eras!Field

\* The chains a node can have.
Chains ==
    {c \in [block : Nat, last : Nat, len : Lengths, base : Nat, slot : Nat] :
        /\ FirstBlock <= c.block /\ c.block <= LastBlock /\ c.last <= c.block /\ c.base <= SessionsPerEra + c.last
        /\ Eras!GenesisSlot <= c.slot /\ c.slot <= 2 * c.block + Eras!GenesisSlot}

\* What is less than a stored number is stored.
LEMMA StoresBelow ==
    ASSUME NEW n \in Stores
    PROVE  n \in Nat /\ \A m \in Nat : m <= n => m \in Stores
BY SMT DEF Stores

\* Quotient and remainder.
LEMMA Division ==
    ASSUME NEW n \in Nat, NEW m \in Nat, m # 0
    PROVE  /\ n \div m \in Nat /\ n % m \in 0 .. m - 1 /\ n = m * (n \div m) + (n % m)
           /\ n \div m <= n
<1>1. n \div m \in Nat /\ n % m \in 0 .. m - 1 /\ n = m * (n \div m) + (n % m)
  BY SMT
<1>2. m * (n \div m) >= n \div m
  BY <1>1, SMT
<1> QED
  BY <1>1, <1>2, SMT

\* A place within one of s periods of m, and the same place in the next round.
LEMMA InPeriod ==
    ASSUME NEW s \in Nat, NEW m \in Nat, NEW q \in 0 .. s - 1, NEW r \in 0 .. m - 1
    PROVE  q * m + r \in 0 .. s * m - 1
<1>1. q * m <= (s - 1) * m /\ (s - 1) * m = s * m - m /\ q * m \in Nat /\ s * m \in Nat
  BY SMT
<1> QED
  BY <1>1, SMT

\* The next period starts where this one ends.
LEMMA NextRound ==
    ASSUME NEW n \in Nat, NEW m \in Nat, m # 0
    PROVE  (n + m) % m = n % m
<1> DEFINE q == n \div m
           r == n % m
           p == (n + m) \div m
           t == (n + m) % m
<1>1. q \in Nat /\ r \in 0 .. m - 1 /\ n = m * q + r
  BY Division
<1>2. n + m \in Nat
  BY SMT
<1>3. p \in Nat /\ t \in 0 .. m - 1 /\ n + m = m * p + t
  BY <1>2, Division
<1> HIDE DEF q, r, p, t
<1>4. m * (p - (q + 1)) = r - t
  <2>1. m * (p - (q + 1)) = m * p - m * q - m
    BY <1>1, <1>3, SMT
  <2> QED
    BY <1>1, <1>3, <2>1, SMT
<1>5. p = q + 1
  <2>1. CASE p < q + 1
    <3>1. m * (p - (q + 1)) <= m * (-1)
      BY <1>1, <1>3, <2>1, SMT
    <3> QED
      BY <1>1, <1>3, <1>4, <3>1, SMT
  <2>2. CASE p > q + 1
    <3>1. m * (p - (q + 1)) >= m * 1
      BY <1>1, <1>3, <2>2, SMT
    <3> QED
      BY <1>1, <1>3, <1>4, <3>1, SMT
  <2> QED
    BY <1>1, <1>3, <2>1, <2>2, SMT
<1>6. r = t
  BY <1>1, <1>3, <1>4, <1>5, SMT
<1> QED
  BY <1>6 DEF r, t

\* The indexes of sessions and epochs are stored in two bytes.
LEMMA IndexesFit ==
    ASSUME EraConstants, NEW c \in Chains
    PROVE  /\ c.block \in Stores /\ c.last \in Stores /\ c.len \in Stores \ {0} /\ c.slot \in Stores
           /\ c.block - c.last \in Nat /\ c.slot - Eras!GenesisSlot \in Nat
           /\ Eras!Index(c) \in Stores /\ Eras!Index(c) <= SessionsPerEra + c.block
           /\ Eras!EpochIndex(c) \in Stores /\ Eras!GenesisSlot \in Stores
<1>1. /\ c.block \in Nat /\ c.last \in Nat /\ c.len \in Lengths /\ c.base \in Nat /\ c.slot \in Nat
      /\ c.block <= LastBlock /\ c.last <= c.block /\ c.base <= SessionsPerEra + c.last
      /\ Eras!GenesisSlot <= c.slot /\ c.slot <= 2 * c.block + Eras!GenesisSlot
  BY DEF Chains
<1>2. /\ LastBlock \in Nat /\ SessionsPerEra \in Nat /\ EpochDuration \in Nat /\ EpochDuration # 0
      /\ c.len \in Stores \ {0} /\ c.len \in Nat /\ c.len # 0 /\ Eras!GenesisSlot = 5
      /\ 2 * LastBlock + Eras!GenesisSlot \in Stores /\ SessionsPerEra + LastBlock \in Stores
  BY <1>1, StoresBelow DEF EraConstants, Eras!GenesisSlot
<1>3. /\ c.block - c.last \in Nat /\ c.slot - Eras!GenesisSlot \in Nat
      /\ c.slot <= 2 * LastBlock + Eras!GenesisSlot /\ c.block <= 2 * LastBlock + Eras!GenesisSlot
      /\ c.last <= 2 * LastBlock + Eras!GenesisSlot /\ Eras!GenesisSlot <= 2 * LastBlock + Eras!GenesisSlot
  BY <1>1, <1>2, SMT
<1>4. (c.block - c.last) \div c.len \in Nat /\ (c.block - c.last) \div c.len <= c.block - c.last
  <2> DEFINE x == c.block - c.last
  <2>1. x \in Nat
    BY <1>3
  <2> HIDE DEF x
  <2>2. x \div c.len \in Nat /\ x \div c.len <= x
    BY <1>2, <2>1, Division
  <2> QED
    BY <2>2 DEF x
<1>5. Eras!Index(c) \in Nat /\ Eras!Index(c) <= SessionsPerEra + c.block
  BY <1>1, <1>2, <1>4, SMT DEF Eras!Index
<1>6. Eras!EpochIndex(c) \in Nat /\ Eras!EpochIndex(c) <= c.slot - Eras!GenesisSlot
  <2> DEFINE x == c.slot - Eras!GenesisSlot
  <2>1. x \in Nat
    BY <1>3
  <2> HIDE DEF x
  <2>2. x \div EpochDuration \in Nat /\ x \div EpochDuration <= x
    BY <1>2, <2>1, Division
  <2> QED
    BY <2>2 DEF x, Eras!EpochIndex
<1>7. c.slot \in Stores /\ c.block \in Stores /\ c.last \in Stores /\ Eras!GenesisSlot \in Stores
  BY <1>1, <1>2, <1>3, StoresBelow
<1>8. Eras!Index(c) \in Stores
  <2>1. Eras!Index(c) <= SessionsPerEra + LastBlock
    BY <1>1, <1>2, <1>5, SMT
  <2> QED
    BY <1>2, <1>5, <2>1, StoresBelow
<1>9. Eras!EpochIndex(c) \in Stores
  <2>1. Eras!EpochIndex(c) <= c.slot
    BY <1>1, <1>2, <1>6, SMT
  <2> QED
    BY <1>6, <1>7, <2>1, StoresBelow
<1> QED
  BY <1>2, <1>3, <1>5, <1>7, <1>8, <1>9

\* What a report of an epoch says of the chain its update was taken from.
LEMMA EpochReportRight ==
    ASSUME EraConstants, isEpoch, NEW c \in Chains
    PROVE  LET r == Eras!EpochReport(Eras!Update(c))
           IN  /\ r.progress = r.truth /\ r.progress \in 0 .. r.length - 1
               /\ r.eraProgress \in 0 .. r.eraLength - 1
<1> DEFINE u == Eras!Update(c)
           index == Eras!EpochIndex(c)
           x == c.slot - Eras!GenesisSlot
           progress == c.slot - (EpochDuration * index + Eras!GenesisSlot)
           r == Eras!EpochReport(u)
<1>1. /\ u.of = c
      /\ u.values[1] = IF index = 0 THEN Eras!Null ELSE Eras!Stored(index)
      /\ u.values[2] = IF Eras!GenesisSlot = 0 THEN Eras!Null ELSE Eras!Stored(Eras!GenesisSlot)
      /\ u.values[3] = IF c.slot = 0 THEN Eras!Null ELSE Eras!Stored(c.slot)
  BY SMT DEF Eras!Update, Eras!Changes
<1>2. Eras!Field(u.values[1]) = index /\ Eras!Field(u.values[2]) = Eras!GenesisSlot /\ Eras!Field(u.values[3]) = c.slot
  BY <1>1, IndexesFit, FieldOfValue
<1>3. /\ x \in Nat /\ EpochDuration \in Nat /\ EpochDuration # 0 /\ SessionsPerEra \in Nat /\ SessionsPerEra # 0
      /\ c.slot \in Nat /\ Eras!GenesisSlot \in Nat
  BY IndexesFit, StoresBelow DEF EraConstants
<1>4. index = x \div EpochDuration
  BY DEF Eras!EpochIndex
<1>5. /\ r.progress = progress /\ r.length = EpochDuration
      /\ r.eraProgress = (index % SessionsPerEra) * EpochDuration + progress
      /\ r.eraLength = SessionsPerEra * EpochDuration /\ r.truth = x % EpochDuration
  BY <1>1, <1>2 DEF Eras!EpochReport, Eras!Report
<1> HIDE DEF u, r, index, x
<1>6. index \in Nat /\ x % EpochDuration \in 0 .. EpochDuration - 1 /\ x = EpochDuration * index + (x % EpochDuration)
  BY <1>3, <1>4, Division
<1>7. progress = x % EpochDuration
  <2>1. EpochDuration * index \in Int
    BY <1>3, <1>6, SMT
  <2> QED
    BY <1>3, <1>6, <2>1, SMT DEF x
<1>8. index % SessionsPerEra \in 0 .. SessionsPerEra - 1
  BY <1>3, <1>6, Division
<1>9. (index % SessionsPerEra) * EpochDuration + (x % EpochDuration) \in 0 .. SessionsPerEra * EpochDuration - 1
  BY <1>3, <1>6, <1>8, InPeriod
<1> QED
  BY <1>5, <1>6, <1>7, <1>9, Zenon DEF r, u

\* What remains of a difference.
LEMMA Remains ==
    ASSUME NEW b \in Nat, NEW l \in Nat, NEW p \in Int, NEW z \in Int, b - l = p + z
    PROVE  b - (l + p) = z
BY SMT

\* And what a report of a session says, if all five values are there and the
\* block number seen last is that of the chain.
LEMMA SessionReportRight ==
    ASSUME EraConstants, ~isEpoch, NEW c \in Chains, best = c.block,
           ~\E i \in 1 .. 5 : Eras!Field(Eras!Update(c).values[i]) <= 0
    PROVE  LET r == Eras!SessionReport(Eras!Update(c))
           IN  r.progress = r.truth /\ r.eraProgress \in 0 .. r.eraLength - 1
<1> DEFINE u == Eras!Update(c)
           index == Eras!Index(c)
           x == c.block - c.last
           r == Eras!SessionReport(u)
<1>1. /\ u.of = c
      /\ u.values[1] = IF c.last = 0 THEN Eras!Null ELSE Eras!Stored(c.last)
      /\ u.values[2] = IF c.len = 0 THEN Eras!Null ELSE Eras!Stored(c.len)
      /\ u.values[4] = IF SessionsPerEra = 0 THEN Eras!Null ELSE Eras!Stored(SessionsPerEra)
      /\ u.values[5] = IF index = 0 THEN Eras!Null ELSE Eras!Stored(index)
  BY SMT DEF Eras!Update, Eras!Changes
<1>2. /\ SessionsPerEra \in Stores /\ SessionsPerEra # 0 /\ c.len \in Stores /\ c.len # 0
      /\ c.last \in Stores /\ index \in Stores /\ x \in Nat
  BY IndexesFit DEF EraConstants
<1>3. /\ Eras!Field(u.values[1]) = c.last /\ Eras!Field(u.values[2]) = c.len
      /\ Eras!Field(u.values[4]) = SessionsPerEra /\ Eras!Field(u.values[5]) = index
  BY <1>1, <1>2, FieldOfValue
<1>4. /\ r.progress = Eras!Rem(best - c.last + c.len, c.len)
      /\ r.eraProgress = (index % SessionsPerEra) * c.len + Eras!Rem(best - c.last + c.len, c.len)
      /\ r.eraLength = SessionsPerEra * c.len
      /\ r.truth = c.block - (c.last + (index - c.base) * c.len)
  BY <1>1, <1>3 DEF Eras!SessionReport, Eras!Report
<1>5. index = c.base + x \div c.len
  BY DEF Eras!Index
<1>6. /\ c.base \in Nat /\ c.block \in Nat /\ c.last \in Nat /\ c.len \in Nat /\ SessionsPerEra \in Nat /\ index \in Nat
      /\ best - c.last + c.len = x + c.len /\ x = c.block - c.last
  BY <1>2, IndexesFit, StoresBelow DEF Chains
<1> HIDE DEF u, r, index, x
<1>7. x \div c.len \in Nat /\ x % c.len \in 0 .. c.len - 1 /\ x = c.len * (x \div c.len) + (x % c.len)
  BY <1>2, <1>6, Division
<1>8. Eras!Rem(x + c.len, c.len) = x % c.len
  <2>1. x + c.len >= 0
    BY <1>2, <1>6, SMT
  <2> QED
    BY <1>2, <1>6, <2>1, NextRound DEF Eras!Rem
<1>9. r.truth = x % c.len
  <2> DEFINE y == x \div c.len
             z == x % c.len
  <2>1. index = c.base + y /\ y \in Nat /\ x = c.len * y + z /\ z \in Int
    BY <1>5, <1>7, SMT
  <2> HIDE DEF y, z
  <2>2. index - c.base = y
    BY <1>6, <2>1, SMT
  <2> DEFINE p == c.len * y
             q == (index - c.base) * c.len
  <2>3. q = p /\ p \in Int
    BY <1>6, <2>1, <2>2, SMT
  <2>4. r.truth = c.block - (c.last + q) /\ x = p + z
    BY <1>4, <2>1
  <2> HIDE DEF p, q
  <2>5. c.block - c.last = p + z /\ r.truth = c.block - (c.last + p)
    BY <1>6, <2>3, <2>4
  <2>6. r.truth = z
    BY <1>6, <2>1, <2>3, <2>5, Remains, SMT
  <2> QED
    BY <2>6 DEF z
<1>10. index % SessionsPerEra \in 0 .. SessionsPerEra - 1
  BY <1>2, <1>6, Division
<1>11. (index % SessionsPerEra) * c.len + (x % c.len) \in 0 .. SessionsPerEra * c.len - 1
  BY <1>6, <1>7, <1>10, InPeriod
<1> QED
  BY <1>4, <1>6, <1>8, <1>9, <1>11, Zenon DEF r, u

\* The texts of the blocks of the chain.
HeadTexts == {Eras!HeadText(n) : n \in FirstBlock .. chain.block}
Updates   == {Eras!Update(c) : c \in Chains}

\* The inductive invariant: what waits in the queues was sent by the node for
\* one of its chains.
EraInv ==
    /\ isEpoch \in BOOLEAN /\ chain \in Chains
    /\ heads \in Seq(HeadTexts) /\ changes \in Seq(Updates)
    /\ Eras!ReportsAreRight

\* It holds at the start.
LEMMA EraInit == EraConstants /\ Eras!Init => EraInv
<1> SUFFICES ASSUME EraConstants, Eras!Init PROVE EraInv
  OBVIOUS
<1>1. PICK l \in Lengths, last \in {0, FirstBlock} :
          chain = [block |-> FirstBlock, last |-> last, len |-> l, base |-> SessionsPerEra,
                   slot |-> FirstBlock + Eras!GenesisSlot]
  BY DEF Eras!Init
<1>2. FirstBlock \in Nat /\ LastBlock \in Nat /\ FirstBlock <= LastBlock /\ SessionsPerEra \in Nat /\ Eras!GenesisSlot \in Nat
  BY StoresBelow DEF EraConstants, Eras!GenesisSlot
<1>3. chain \in Chains
  BY <1>1, <1>2, SMT DEF Chains
<1>4. ~told.given /\ best = -1 /\ isEpoch \in BOOLEAN /\ heads = <<>> /\ changes = <<>>
  BY DEF Eras!Init, Eras!NoReport
<1> QED
  BY <1>3, <1>4, SMT DEF EraInv, Eras!ReportsAreRight, Eras!EpochIsRight, Eras!FreshSessionIsRight, Eras!BestIsOfChain

\* A block is added to the chain.
LEMMA Extended ==
    ASSUME EraConstants, EraInv, NEW c \in Chains, chain.block <= c.block, Eras!Extend(c)
    PROVE  EraInv'
<1>1. chain' = c /\ isEpoch' = isEpoch /\ best' = best /\ told' = told
  BY DEF Eras!Extend
<1>2. isEpoch' \in BOOLEAN /\ chain' \in Chains'
  BY <1>1 DEF EraInv, Chains
<1>3. HeadTexts \subseteq HeadTexts' /\ Eras!HeadText(c.block) \in HeadTexts'
  BY <1>1, SMTT(20) DEF EraInv, Chains, HeadTexts, EraConstants
<1>4. heads' \in Seq(HeadTexts')
  <2>1. heads \in Seq(HeadTexts')
    BY <1>3, SMT DEF EraInv
  <2> QED
    BY <1>3, <2>1, SMT DEF Eras!Extend
<1>5. Updates' = Updates /\ Eras!Update(c) \in Updates
  <2>1. Chains' = Chains
    BY DEF Chains
  <2>2. \A d \in Chains : Eras!Update(d)' = Eras!Update(d)
    BY <1>1 DEF Eras!Update, Eras!Changes
  <2> QED
    BY <2>1, <2>2, Zenon DEF Updates
<1>6. changes' \in Seq(Updates')
  <2>1. changes' \in {changes, Append(changes, Eras!Update(c))}
    BY DEF Eras!Extend
  <2> QED
    BY <1>5, <2>1, SMT DEF EraInv
<1>7. Eras!EpochIsRight' /\ Eras!FreshSessionIsRight'
  BY <1>1 DEF EraInv, Eras!ReportsAreRight, Eras!EpochIsRight, Eras!FreshSessionIsRight
<1>8. Eras!BestIsOfChain'
  BY <1>1, SMTT(20) DEF EraInv, Eras!ReportsAreRight, Eras!BestIsOfChain, Chains, EraConstants
<1> QED
  BY <1>2, <1>4, <1>6, <1>7, <1>8 DEF EraInv, Eras!ReportsAreRight

\* Nothing that waits in the queues depends on what the api knows.
LEMMA QueuesKept ==
    ASSUME chain' = chain, isEpoch' = isEpoch
    PROVE  HeadTexts' = HeadTexts /\ Updates' = Updates /\ Chains' = Chains
<1>1. HeadTexts' = HeadTexts /\ Chains' = Chains
  BY DEF HeadTexts, Chains
<1>2. \A d \in Chains : Eras!Update(d)' = Eras!Update(d)
  BY DEF Eras!Update, Eras!Changes
<1> QED
  BY <1>1, <1>2, Zenon DEF Updates

\* A block is added, and sessions get a new length.
ChainRecords == [block : Nat, last : Nat, len : Lengths, base : Nat, slot : Nat]

\* A block that is added,
LEMMA Prolonged ==
    ASSUME EraConstants, NEW c \in Chains, c.block < LastBlock, NEW b, NEW s,
           b = c.block + 1, s \in {c.slot + 1, c.slot + 2}
    PROVE  LET d == [c EXCEPT !.block = b, !.slot = s] IN d \in Chains /\ d.block = c.block + 1
<1>1. /\ c \in ChainRecords
      /\ FirstBlock <= c.block /\ c.last <= c.block /\ c.base <= SessionsPerEra + c.last
      /\ Eras!GenesisSlot <= c.slot /\ c.slot <= 2 * c.block + Eras!GenesisSlot
  BY DEF Chains, ChainRecords
<1>2. FirstBlock \in Nat /\ LastBlock \in Nat /\ Eras!GenesisSlot \in Nat /\ c.block \in Nat /\ c.slot \in Nat /\ c.last \in Nat
  BY <1>1 DEF EraConstants, Eras!GenesisSlot, ChainRecords
<1> DEFINE c1 == [c EXCEPT !.block = b]
           d == [c1 EXCEPT !.slot = s]
<1>3. /\ b \in Nat /\ s \in Nat /\ FirstBlock <= b /\ b <= LastBlock /\ c.last <= b
      /\ Eras!GenesisSlot <= s /\ s <= 2 * b + Eras!GenesisSlot
  BY <1>1, <1>2, SMT
<1>4. c1 \in ChainRecords /\ c1.block = b /\ c1.last = c.last /\ c1.base = c.base
  BY <1>1, <1>3, Zenon DEF ChainRecords
<1> HIDE DEF c1
<1>5. d \in ChainRecords /\ d.block = b /\ d.last = c.last /\ d.base = c.base /\ d.slot = s
  BY <1>3, <1>4, Zenon DEF ChainRecords
<1>6. d = [c EXCEPT !.block = b, !.slot = s]
  BY DEF c1
<1> HIDE DEF d
<1>7. d \in Chains
  BY <1>1, <1>3, <1>5 DEF Chains, ChainRecords
<1> QED
  BY <1>5, <1>6, <1>7

\* and one that starts a session of another length, make a chain again.
LEMMA NewLength ==
    ASSUME NEW c \in Chains, NEW base \in Nat, base <= SessionsPerEra + c.block, NEW l \in Lengths
    PROVE  LET d == [c EXCEPT !.base = base, !.last = c.block, !.len = l] IN d \in Chains /\ d.block = c.block
<1>1. /\ c \in ChainRecords
      /\ FirstBlock <= c.block /\ c.block <= LastBlock /\ c.block \in Nat /\ c.block <= c.block
      /\ Eras!GenesisSlot <= c.slot /\ c.slot <= 2 * c.block + Eras!GenesisSlot
  BY SMT DEF Chains, ChainRecords
<1> DEFINE n == c.block
           c1 == [c EXCEPT !.base = base]
           c2 == [c1 EXCEPT !.last = n]
           d == [c2 EXCEPT !.len = l]
<1>2. c1 \in ChainRecords /\ c1.block = c.block /\ c1.base = base /\ c1.slot = c.slot
  BY <1>1, Zenon DEF ChainRecords
<1> HIDE DEF c1
<1>3. c2 \in ChainRecords /\ c2.block = c.block /\ c2.base = base /\ c2.slot = c.slot /\ c2.last = c.block
  BY <1>1, <1>2, Zenon DEF ChainRecords
<1> HIDE DEF c2
<1>4. d \in ChainRecords /\ d.block = c.block /\ d.base = base /\ d.slot = c.slot /\ d.last = c.block
  BY <1>3, Zenon DEF ChainRecords
<1>5. d = [c EXCEPT !.base = base, !.last = c.block, !.len = l]
  BY DEF c1, c2
<1> HIDE DEF d
<1>6. d \in Chains
  BY <1>1, <1>4 DEF Chains, ChainRecords
<1> QED
  BY <1>4, <1>5, <1>6

\* The invariant is kept by every step.
LEMMA EraNext == EraConstants /\ EraInv /\ [Eras!Next]_(Eras!vars) => EraInv'
<1> SUFFICES ASSUME EraConstants, EraInv, [Eras!Next]_(Eras!vars) PROVE EraInv'
  OBVIOUS
<1> DEFINE Right == Eras!EpochIsRight /\ Eras!FreshSessionIsRight
<1>0. /\ isEpoch \in BOOLEAN /\ chain \in Chains /\ heads \in Seq(HeadTexts) /\ changes \in Seq(Updates)
      /\ Right /\ Eras!BestIsOfChain
  BY DEF EraInv, Eras!ReportsAreRight
<1>01. /\ chain.block \in Nat /\ chain.last \in Nat /\ chain.len \in Lengths /\ chain.base \in Nat /\ chain.slot \in Nat
       /\ FirstBlock <= chain.block /\ chain.block <= LastBlock /\ chain.last <= chain.block
       /\ chain.base <= SessionsPerEra + chain.last
       /\ Eras!GenesisSlot <= chain.slot /\ chain.slot <= 2 * chain.block + Eras!GenesisSlot
       /\ Eras!GenesisSlot \in Nat /\ FirstBlock \in Nat /\ LastBlock \in Nat /\ SessionsPerEra \in Nat
  BY <1>0, StoresBelow DEF Chains, EraConstants, Eras!GenesisSlot
<1>02. ASSUME told' = told, isEpoch' = isEpoch PROVE Right'
  BY <1>0, <1>02 DEF Eras!EpochIsRight, Eras!FreshSessionIsRight
<1>03. ASSUME best' = best, chain' = chain PROVE Eras!BestIsOfChain'
  BY <1>0, <1>03 DEF Eras!BestIsOfChain
<1> HIDE DEF Right
<1>1. CASE UNCHANGED Eras!vars
  BY <1>0, <1>02, <1>03, <1>1, QueuesKept DEF Eras!vars, EraInv, Eras!ReportsAreRight, Right
<1>2. CASE Eras!Subscribe
  <2>1. chain' = chain /\ isEpoch' = isEpoch /\ best' = best /\ told' = told
    BY <1>2 DEF Eras!Subscribe
  <2>2. Eras!HeadText(chain.block) \in HeadTexts /\ Eras!Update(chain) \in Updates
    BY <1>0, <1>01, SMT DEF HeadTexts, Updates
  <2>3. heads' \in Seq(HeadTexts) /\ changes' \in Seq(Updates)
    BY <1>2, <2>2, SMT DEF Eras!Subscribe
  <2> QED
    BY <1>0, <1>02, <1>03, <2>1, <2>3, QueuesKept DEF EraInv, Eras!ReportsAreRight, Right
<1>3. CASE Eras!Unsubscribe
  <2>1. chain' = chain /\ isEpoch' = isEpoch /\ best' = best /\ told' = told /\ heads' = <<>> /\ changes' = <<>>
    BY <1>3 DEF Eras!Unsubscribe
  <2>2. heads' \in Seq(HeadTexts) /\ changes' \in Seq(Updates)
    BY <2>1, SMT
  <2> QED
    BY <1>0, <1>02, <1>03, <2>1, <2>2, QueuesKept DEF EraInv, Eras!ReportsAreRight, Right
<1>4. CASE Eras!NodeBlock
  <2>1. PICK skipped \in 0 .. 1 : Eras!Extend([chain EXCEPT !.block = @ + 1, !.slot = @ + 1 + skipped])
    BY <1>4 DEF Eras!NodeBlock
  <2> DEFINE b == chain.block + 1
             s == chain.slot + 1 + skipped
             c == [chain EXCEPT !.block = b, !.slot = s]
  <2>2. chain.block < LastBlock
    BY <1>4 DEF Eras!NodeBlock
  <2>3. s \in {chain.slot + 1, chain.slot + 2} /\ chain.block <= b
    BY <1>01, SMT
  <2>4. Eras!Extend(c)
    BY <2>1
  <2> HIDE DEF b, s
  <2>5. b = chain.block + 1
    BY DEF b
  <2>6. c \in Chains /\ c.block = chain.block + 1
    BY <1>0, <2>2, <2>3, <2>5, Prolonged
  <2> HIDE DEF c
  <2> QED
    BY <2>3, <2>4, <2>5, <2>6, Extended
<1>5. CASE Eras!NodeLength
  <2> DEFINE b == chain.block + 1
             s == chain.slot + 1
             n == [chain EXCEPT !.block = b, !.slot = s]
  <2>1. PICK l \in Lengths : Eras!Extend([n EXCEPT !.base = Eras!Index(n), !.last = n.block, !.len = l])
    BY <1>5 DEF Eras!NodeLength
  <2> DEFINE c == [n EXCEPT !.base = Eras!Index(n), !.last = n.block, !.len = l]
  <2>2. chain.block < LastBlock
    BY <1>5 DEF Eras!NodeLength
  <2>3. b = chain.block + 1 /\ s \in {chain.slot + 1, chain.slot + 2} /\ chain.block <= b
    BY <1>01, SMT
  <2> HIDE DEF b, s
  <2>4. n \in Chains /\ n.block = chain.block + 1
    BY <1>0, <2>2, <2>3, Prolonged
  <2> HIDE DEF n
  <2>5. Eras!Index(n) \in Nat /\ Eras!Index(n) <= SessionsPerEra + n.block
    BY <2>4, IndexesFit, StoresBelow
  <2>6. c \in Chains /\ c.block = n.block
    BY <2>4, <2>5, NewLength
  <2> HIDE DEF c
  <2> QED
    BY <2>1, <2>3, <2>4, <2>6, Extended DEF c
<1>6. CASE Eras!HandleHead
  <2>1. /\ chain' = chain /\ isEpoch' = isEpoch /\ told' = told /\ changes' = changes
        /\ heads # <<>> /\ heads' = Tail(heads)
        /\ best' = LET d == Eras!fromHex(Head(heads), TRUE, 8) IN d[1] + 256 * d[2]
    BY <1>6 DEF Eras!HandleHead
  <2>2. Head(heads) \in HeadTexts /\ heads' \in Seq(HeadTexts)
    BY <1>0, <2>1, SMT
  <2>3. PICK n \in FirstBlock .. chain.block : Head(heads) = Eras!HeadText(n)
    BY <2>2 DEF HeadTexts
  <2>4. n \in Nat /\ n <= chain.block /\ chain.block \in Stores
    BY <1>0, <1>01, <2>3, IndexesFit, SMT
  <2>5. n \in Stores
    BY <1>01, <2>4, StoresBelow
  <2>6. best' = n
    BY <2>1, <2>3, <2>5, NumberOfHead
  <2>7. Eras!BestIsOfChain'
    BY <2>1, <2>3, <2>6 DEF Eras!BestIsOfChain
  <2> QED
    BY <1>0, <1>02, <2>1, <2>2, <2>7, QueuesKept DEF EraInv, Eras!ReportsAreRight, Right
<1>7. CASE Eras!HandleChanges
  <2>1. /\ chain' = chain /\ isEpoch' = isEpoch /\ heads' = heads /\ best' = best
        /\ changes # <<>> /\ changes' = Tail(changes)
        /\ told' = IF best = -1 THEN told
                   ELSE IF isEpoch THEN Eras!EpochReport(Head(changes)) ELSE Eras!SessionReport(Head(changes))
    BY <1>7 DEF Eras!HandleChanges
  <2>2. Head(changes) \in Updates /\ changes' \in Seq(Updates)
    BY <1>0, <2>1, SMT
  <2>3. PICK c \in Chains : Head(changes) = Eras!Update(c)
    BY <2>2 DEF Updates
  <2>4. Right'
    <3>1. CASE told' = told
      BY <1>02, <2>1, <3>1
    <3>2. CASE isEpoch /\ told' = Eras!EpochReport(Eras!Update(c))
      <4>1. /\ told'.progress = told'.truth /\ told'.progress \in 0 .. told'.length - 1
            /\ told'.eraProgress \in 0 .. told'.eraLength - 1
        BY <3>2, EpochReportRight
      <4> QED
        BY <2>1, <3>2, <4>1 DEF Right, Eras!EpochIsRight, Eras!FreshSessionIsRight
    <3>3. CASE ~isEpoch /\ told' = Eras!SessionReport(Eras!Update(c)) /\ told' # told
      <4>1. ~\E i \in 1 .. 5 : Eras!Field(Eras!Update(c).values[i]) <= 0
        BY <3>3 DEF Eras!SessionReport
      <4>2. told'.fresh = (best = c.block)
        BY <3>3, <4>1 DEF Eras!SessionReport, Eras!Report, Eras!Update
      <4>3. best = c.block => told'.progress = told'.truth /\ told'.eraProgress \in 0 .. told'.eraLength - 1
        BY <3>3, <4>1, SessionReportRight
      <4> QED
        BY <2>1, <3>3, <4>2, <4>3 DEF Right, Eras!EpochIsRight, Eras!FreshSessionIsRight
    <3> QED
      BY <1>0, <2>1, <2>3, <3>1, <3>2, <3>3
  <2> QED
    BY <1>0, <1>03, <2>1, <2>2, <2>4, QueuesKept DEF EraInv, Eras!ReportsAreRight, Right
<1> QED
  BY <1>1, <1>2, <1>3, <1>4, <1>5, <1>6, <1>7 DEF Eras!Next

\* The reports of eras and sessions (handleWsMessage of application.cpp), for
\* any lengths of epochs, sessions and eras, any chain whose numbers take two
\* bytes and any order in which the two subscriptions are handled: an epoch's
\* progress is right, a session's is if the block number is fresh, and that
\* number is one of the chain.
THEOREM ReportsHold ==
    ASSUME EraConstants
    PROVE  Eras!Spec => []ReportsAreRight
<1>1. EraInv => ReportsAreRight
  BY DEF EraInv, ReportsAreRight
<1> QED
  BY <1>1, EraInit, EraNext, PTL DEF Eras!Spec

=============================================================================
