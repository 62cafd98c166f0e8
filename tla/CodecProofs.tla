----------------------------- MODULE CodecProofs -----------------------------
(***************************************************************************)
(* Proofs about the values that are encoded and hashed.  The carries of    *)
(* uint128 are right for words of every size: the number a result stands   *)
(* for is the exact one, or the exact one wrapped once at the square of    *)
(* the word size.  And the buffer of BLAKE2b, for blocks, messages, keys   *)
(* and pieces of every length and for every compression function.          *)
(***************************************************************************)
EXTENDS Uint128, Blake2b, TLAPS

-----------------------------------------------------------------------------
(* uint128.                                                                *)

\* Words are closed under the arithmetic of words, and what it computes
\* differs from the exact number by B or by nothing.
LEMMA WordArithmetic ==
    ASSUME NEW x \in Word, NEW y \in Word
    PROVE  /\ PlusW(x, y) \in Word /\ MinusW(x, y) \in Word /\ NotW(x) \in Word
           /\ PlusW(x, y) = IF x + y >= B THEN x + y - B ELSE x + y
           /\ MinusW(x, y) = IF x < y THEN x - y + B ELSE x - y
           /\ NotW(x) = B - 1 - x
BY WordAssumption DEF Word, PlusW, MinusW, NotW

\* The number of a value lies below the square of the word size, and values
\* with different words are different numbers.
LEMMA ValRange ==
    ASSUME NEW a \in Uint
    PROVE  Val(a) \in Nat /\ Val(a) < B * B
<1>1. a.hi \in Word /\ a.lo \in Word
  BY DEF Uint
<1>2. a.hi \in Nat /\ a.lo \in Nat /\ B \in Nat /\ a.hi <= B - 1 /\ a.lo <= B - 1
  BY <1>1, WordAssumption DEF Word
<1>3. a.hi * B <= (B - 1) * B
  BY <1>2
<1> QED
  BY <1>2, <1>3 DEF Val

\* The number of a sum of two words each: no carry, a carry out of the low
\* words, out of the high words.
LEMMA SumNoCarry ==
    ASSUME NEW x \in Int, NEW y \in Int, NEW p \in Int, NEW q \in Int, NEW m \in Int
    PROVE  (x + y) * m + (p + q) = x * m + p + (y * m + q)
<1>1. (x + y) * m = x * m + y * m /\ x * m \in Int /\ y * m \in Int
  OBVIOUS
<1> QED
  BY <1>1

LEMMA SumLowCarry ==
    ASSUME NEW x \in Int, NEW y \in Int, NEW p \in Int, NEW q \in Int, NEW m \in Int
    PROVE  (x + y + 1) * m + (p + q - m) = x * m + p + (y * m + q)
<1>1. (x + y + 1) * m = (x + y) * m + m /\ (x + y) * m = x * m + y * m
  OBVIOUS
<1>2. x * m \in Int /\ y * m \in Int
  OBVIOUS
<1> QED
  BY <1>1, <1>2

LEMMA SumHighCarry ==
    ASSUME NEW x \in Int, NEW y \in Int, NEW p \in Int, NEW q \in Int, NEW m \in Int
    PROVE  (x + y - m) * m + (p + q) = x * m + p + (y * m + q) - m * m
<1>1. (x + y - m) * m = (x + y) * m - m * m /\ (x + y) * m = x * m + y * m
  OBVIOUS
<1>2. x * m \in Int /\ y * m \in Int /\ m * m \in Int
  OBVIOUS
<1> QED
  BY <1>1, <1>2

\* operator< compares the high words, and the low words if those are equal:
\* it is the order of the numbers.
THEOREM LessIsLess ==
    ASSUME NEW a \in Uint, NEW b \in Uint
    PROVE  Lt(a, b) <=> Val(a) < Val(b)
<1>1. /\ a.hi \in Nat /\ a.lo \in Nat /\ b.hi \in Nat /\ b.lo \in Nat /\ B \in Nat
      /\ a.lo < B /\ b.lo < B
  BY WordAssumption DEF Uint, Word
<1>2. CASE a.hi = b.hi
  BY <1>1, <1>2 DEF Lt, Val
<1>3. CASE a.hi < b.hi
  <2>1. (a.hi + 1) * B <= b.hi * B
    BY <1>1, <1>3
  <2>2. (a.hi + 1) * B = a.hi * B + B
    BY <1>1
  <2> QED
    BY <1>1, <1>3, <2>1, <2>2 DEF Lt, Val
<1>4. CASE b.hi < a.hi
  <2>1. (b.hi + 1) * B <= a.hi * B
    BY <1>1, <1>4
  <2>2. (b.hi + 1) * B = b.hi * B + B
    BY <1>1
  <2> QED
    BY <1>1, <1>4, <2>1, <2>2 DEF Lt, Val
<1> QED
  BY <1>1, <1>2, <1>3, <1>4

\* operator+ takes its carry from the low word being less than that of the
\* left operand: the sum is a value, and its number is the sum of the numbers
\* or that sum less B * B.
THEOREM SumIsExact ==
    ASSUME NEW a \in Uint, NEW b \in Uint
    PROVE  /\ Add(a, b) \in Uint
           /\ Val(Add(a, b)) = IF Val(a) + Val(b) < B * B THEN Val(a) + Val(b)
                               ELSE Val(a) + Val(b) - B * B
<1> DEFINE lo == PlusW(a.lo, b.lo)
           hi == PlusW(a.hi, b.hi)
<1>1. /\ a.hi \in Word /\ a.lo \in Word /\ b.hi \in Word /\ b.lo \in Word
      /\ 1 \in Word \/ B = 1
  BY WordAssumption DEF Uint, Word
<1>2. /\ a.hi \in Nat /\ a.lo \in Nat /\ b.hi \in Nat /\ b.lo \in Nat /\ B \in Nat
      /\ a.lo < B /\ b.lo < B /\ a.hi < B /\ b.hi < B
  BY WordAssumption, <1>1 DEF Word
<1>3. lo \in Word /\ hi \in Word /\ lo \in Nat /\ hi \in Nat /\ lo < B /\ hi < B
  <2>1. lo \in Word /\ hi \in Word
    BY <1>1, WordArithmetic
  <2> QED
    BY <2>1, WordAssumption DEF Word
<1>4. lo < a.lo <=> a.lo + b.lo >= B
  BY <1>2 DEF PlusW
<1>5. Val(a) \in Nat /\ Val(b) \in Nat /\ B * B \in Nat
  BY ValRange, <1>2
<1>6. CASE lo < a.lo
  <2>1. Add(a, b) = [hi |-> PlusW(hi, 1), lo |-> lo] /\ lo = a.lo + b.lo - B /\ 1 \in Word
    BY <1>1, <1>2, <1>4, <1>6 DEF Add, MakeUint128, PlusW
  <2>2. PlusW(hi, 1) \in Word /\ PlusW(hi, 1) = IF hi + 1 >= B THEN hi + 1 - B ELSE hi + 1
    BY <1>3, <2>1, WordArithmetic
  <2>3. Add(a, b) \in Uint /\ Val(Add(a, b)) = PlusW(hi, 1) * B + lo
    BY <1>3, <2>1, <2>2 DEF Uint, Val
  <2>4. CASE a.hi + b.hi + 1 >= B
    <3>1. PlusW(hi, 1) = a.hi + b.hi + 1 - B
      BY <1>2, <1>3, <2>2, <2>4 DEF PlusW
    <3>2. PlusW(hi, 1) * B + lo = a.hi * B + a.lo + (b.hi * B + b.lo) - B * B
      <4>1. a.hi \in Int /\ b.hi \in Int /\ a.lo \in Int /\ b.lo \in Int /\ B \in Int
        BY <1>2
      <4>2. (a.hi + b.hi + 1 - B) * B + (a.lo + b.lo - B) = a.hi * B + a.lo + (b.hi * B + b.lo) - B * B
        <5>1. (a.hi + b.hi + 1 - B) * B = (a.hi + b.hi + 1) * B - B * B
          <6>1. \A x \in Int : (x - B) * B = x * B - B * B
            BY <4>1
          <6>2. ((a.hi + b.hi + 1) - B) * B = (a.hi + b.hi + 1) * B - B * B
            BY <4>1, <6>1
          <6>3. a.hi + b.hi + 1 - B = (a.hi + b.hi + 1) - B
            BY <4>1
          <6> QED
            BY <6>2, <6>3
        <5>2. (a.hi + b.hi + 1) * B + (a.lo + b.lo - B) = a.hi * B + a.lo + (b.hi * B + b.lo)
          BY <4>1, SumLowCarry
        <5> QED
          BY <4>1, <5>1, <5>2
      <4> QED
        BY <2>1, <3>1, <4>2
    <3>3. (a.hi + b.hi + 1) * B >= B * B
      BY <1>2, <2>4
    <3>4. Val(a) + Val(b) >= B * B
      BY <1>2, <3>3, <1>4, <1>6 DEF Val
    <3> QED
      BY <1>2, <1>5, <2>3, <3>2, <3>4 DEF Val
  <2>5. CASE a.hi + b.hi + 1 < B
    <3>1. PlusW(hi, 1) = a.hi + b.hi + 1
      BY <1>2, <1>3, <2>2, <2>5 DEF PlusW
    <3>2. PlusW(hi, 1) * B + lo = a.hi * B + a.lo + (b.hi * B + b.lo)
      <4>1. a.hi \in Int /\ b.hi \in Int /\ a.lo \in Int /\ b.lo \in Int /\ B \in Int
        BY <1>2
      <4>2. (a.hi + b.hi + 1) * B + (a.lo + b.lo - B) = a.hi * B + a.lo + (b.hi * B + b.lo)
        BY <4>1, SumLowCarry
      <4> QED
        BY <2>1, <3>1, <4>2
    <3> QED
      BY <1>2, <1>5, <2>3, <3>2, ValRange DEF Val
  <2> QED
    BY <1>2, <2>4, <2>5
<1>7. CASE ~(lo < a.lo)
  <2>1. Add(a, b) = [hi |-> hi, lo |-> lo] /\ lo = a.lo + b.lo /\ a.lo + b.lo < B
    BY <1>1, <1>2, <1>4, <1>7 DEF Add, MakeUint128, PlusW
  <2>2. Add(a, b) \in Uint /\ Val(Add(a, b)) = hi * B + lo
    BY <1>3, <2>1 DEF Uint, Val
  <2>3. CASE a.hi + b.hi >= B
    <3>1. hi = a.hi + b.hi - B
      BY <2>3 DEF PlusW
    <3>2. hi * B + lo = a.hi * B + a.lo + (b.hi * B + b.lo) - B * B
      <4>1. a.hi \in Int /\ b.hi \in Int /\ a.lo \in Int /\ b.lo \in Int /\ B \in Int
        BY <1>2
      <4>2. (a.hi + b.hi - B) * B + (a.lo + b.lo) = a.hi * B + a.lo + (b.hi * B + b.lo) - B * B
        BY <4>1, SumHighCarry
      <4> QED
        BY <2>1, <3>1, <4>2
    <3>3. (a.hi + b.hi) * B >= B * B
      BY <1>2, <2>3
    <3> QED
      BY <1>2, <1>5, <2>2, <3>2, <3>3 DEF Val
  <2>4. CASE a.hi + b.hi < B
    <3>1. hi = a.hi + b.hi
      BY <1>2, <2>4 DEF PlusW
    <3>2. hi * B + lo = a.hi * B + a.lo + (b.hi * B + b.lo)
      <4>1. a.hi \in Int /\ b.hi \in Int /\ a.lo \in Int /\ b.lo \in Int /\ B \in Int
        BY <1>2
      <4>2. (a.hi + b.hi) * B + (a.lo + b.lo) = a.hi * B + a.lo + (b.hi * B + b.lo)
        BY <4>1, SumNoCarry
      <4> QED
        BY <2>1, <3>1, <4>2
    <3> QED
      BY <1>2, <1>5, <2>2, <3>2, ValRange DEF Val
  <2> QED
    BY <1>2, <2>3, <2>4
<1> QED
  BY <1>6, <1>7

\* operator- borrows from the high word if the low word of the left operand is
\* the lesser one: the number of the difference is the difference of the
\* numbers, or that difference and B * B.
THEOREM DifferenceIsExact ==
    ASSUME NEW a \in Uint, NEW b \in Uint
    PROVE  /\ Sub(a, b) \in Uint
           /\ Val(Sub(a, b)) = IF Val(a) < Val(b) THEN Val(a) - Val(b) + B * B ELSE Val(a) - Val(b)
<1> DEFINE lo == MinusW(a.lo, b.lo)
           hi == MinusW(a.hi, b.hi)
<1>1. /\ a.hi \in Word /\ a.lo \in Word /\ b.hi \in Word /\ b.lo \in Word
  BY DEF Uint
<1>2. /\ a.hi \in Nat /\ a.lo \in Nat /\ b.hi \in Nat /\ b.lo \in Nat /\ B \in Nat
      /\ a.lo < B /\ b.lo < B /\ a.hi < B /\ b.hi < B
  BY WordAssumption, <1>1 DEF Word
<1>3. lo \in Word /\ hi \in Word /\ lo \in Nat /\ hi \in Nat /\ lo < B /\ hi < B
  <2>1. lo \in Word /\ hi \in Word
    BY <1>1, WordArithmetic
  <2> QED
    BY <2>1, WordAssumption DEF Word
<1>4. Val(a) \in Nat /\ Val(b) \in Nat /\ B * B \in Nat
  BY ValRange, <1>2
<1>5. Val(a) < Val(b) <=> IF a.hi = b.hi THEN a.lo < b.lo ELSE a.hi < b.hi
  BY LessIsLess DEF Lt
<1>6. CASE a.lo < b.lo
  <2>1. Sub(a, b) = [hi |-> MinusW(hi, 1), lo |-> lo] /\ lo = a.lo - b.lo + B /\ 1 \in Word
    BY <1>2, <1>6 DEF Sub, MakeUint128, MinusW, Word
  <2>2. MinusW(hi, 1) \in Word /\ MinusW(hi, 1) = IF hi < 1 THEN hi - 1 + B ELSE hi - 1
    BY <1>3, <2>1, WordArithmetic
  <2>3. Sub(a, b) \in Uint /\ Val(Sub(a, b)) = MinusW(hi, 1) * B + lo
    BY <1>3, <2>1, <2>2 DEF Uint, Val
  <2>4. CASE a.hi <= b.hi
    <3>1. MinusW(hi, 1) = a.hi - b.hi - 1 + B
      BY <1>2, <1>3, <2>2, <2>4 DEF MinusW
    <3>2. MinusW(hi, 1) * B + lo = a.hi * B + a.lo - (b.hi * B + b.lo) + B * B
      BY <1>2, <2>1, <3>1
    <3>3. Val(a) < Val(b)
      BY <1>2, <1>5, <1>6, <2>4
    <3> QED
      BY <1>2, <1>4, <2>3, <3>2, <3>3 DEF Val
  <2>5. CASE a.hi > b.hi
    <3>1. MinusW(hi, 1) = a.hi - b.hi - 1
      BY <1>2, <1>3, <2>2, <2>5 DEF MinusW
    <3>2. MinusW(hi, 1) * B + lo = a.hi * B + a.lo - (b.hi * B + b.lo)
      BY <1>2, <2>1, <3>1
    <3>3. ~(Val(a) < Val(b))
      BY <1>2, <1>5, <2>5
    <3> QED
      BY <1>2, <1>4, <2>3, <3>2, <3>3 DEF Val
  <2> QED
    BY <1>2, <2>4, <2>5
<1>7. CASE ~(a.lo < b.lo)
  <2>1. Sub(a, b) = [hi |-> hi, lo |-> lo] /\ lo = a.lo - b.lo
    BY <1>2, <1>7 DEF Sub, MakeUint128, MinusW
  <2>2. Sub(a, b) \in Uint /\ Val(Sub(a, b)) = hi * B + lo
    BY <1>3, <2>1 DEF Uint, Val
  <2>3. CASE a.hi < b.hi
    <3>1. hi = a.hi - b.hi + B
      BY <2>3 DEF MinusW
    <3>2. hi * B + lo = a.hi * B + a.lo - (b.hi * B + b.lo) + B * B
      BY <1>2, <2>1, <3>1
    <3>3. Val(a) < Val(b)
      BY <1>2, <1>5, <2>3
    <3> QED
      BY <1>2, <1>4, <2>2, <3>2, <3>3 DEF Val
  <2>4. CASE a.hi >= b.hi
    <3>1. hi = a.hi - b.hi
      BY <1>2, <2>4 DEF MinusW
    <3>2. hi * B + lo = a.hi * B + a.lo - (b.hi * B + b.lo)
      BY <1>2, <2>1, <3>1
    <3>3. ~(Val(a) < Val(b))
      BY <1>2, <1>5, <1>7, <2>4
    <3> QED
      BY <1>2, <1>4, <2>2, <3>2, <3>3 DEF Val
  <2> QED
    BY <1>2, <2>3, <2>4
<1> QED
  BY <1>6, <1>7

\* Unary minus inverts both words and adds one, with a carry out of the low
\* word when it was 0: a value and its negative add up to B * B, but for 0.
THEOREM NegativeIsExact ==
    ASSUME NEW a \in Uint, B > 1
    PROVE  /\ Neg(a) \in Uint
           /\ Val(Neg(a)) = IF Val(a) = 0 THEN 0 ELSE B * B - Val(a)
<1>1. /\ a.hi \in Word /\ a.lo \in Word /\ 1 \in Word
      /\ a.hi \in Nat /\ a.lo \in Nat /\ B \in Nat /\ a.lo < B /\ a.hi < B
  BY WordAssumption DEF Word, Uint
<1>2. CASE a.lo = 0
  <2>1. PlusW(NotW(a.lo), 1) = 0
    BY <1>1, <1>2 DEF PlusW, NotW
  <2>2. PlusW(NotW(a.hi), 1) = IF a.hi = 0 THEN 0 ELSE B - a.hi
    BY <1>1 DEF PlusW, NotW
  <2>3. Neg(a) = [hi |-> IF a.hi = 0 THEN 0 ELSE B - a.hi, lo |-> 0]
    BY <2>1, <2>2 DEF Neg, MakeUint128
  <2>4. CASE a.hi = 0
    BY <1>1, <1>2, <2>3, <2>4, WordAssumption DEF Uint, Word, Val
  <2>5. CASE a.hi # 0
    <3>1. Neg(a) = [hi |-> B - a.hi, lo |-> 0] /\ B - a.hi \in Word /\ 0 \in Word
      BY <1>1, <2>3, <2>5 DEF Word
    <3>2. (B - a.hi) * B = B * B - a.hi * B
      BY <1>1
    <3>3. a.hi * B # 0
      BY <1>1, <2>5
    <3> QED
      BY <1>1, <1>2, <3>1, <3>2, <3>3 DEF Uint, Val
  <2> QED
    BY <2>4, <2>5
<1>3. CASE a.lo # 0
  <2>1. PlusW(NotW(a.lo), 1) = B - a.lo
    BY <1>1, <1>3 DEF PlusW, NotW
  <2>2. Neg(a) = [hi |-> B - 1 - a.hi, lo |-> B - a.lo]
    BY <1>1, <2>1 DEF Neg, NotW, MakeUint128
  <2>3. B - 1 - a.hi \in Word /\ B - a.lo \in Word
    BY <1>1, <1>3 DEF Word
  <2>4. (B - 1 - a.hi) * B = B * B - B - a.hi * B
    BY <1>1
  <2>5. a.hi * B \in Nat
    BY <1>1
  <2> QED
    BY <1>1, <1>3, <2>2, <2>3, <2>4, <2>5 DEF Uint, Val
<1> QED
  BY <1>2, <1>3

-----------------------------------------------------------------------------
(* BLAKE2b.                                                                *)

Data == {MessageByte(i) : i \in Int} \cup {KeyByte(i) : i \in Nat} \cup {0}

Calls == [op : {"update", "final"}, bytes : Seq(Data), n : Nat]

\* Of the calls to make, n is the number of bytes of an update.
TypeOK ==
    /\ buflen \in 0 .. BLOCKBYTES
    /\ in \in Seq(Data) /\ given \in Seq(Data)
    /\ todo \in Seq(Calls)
    /\ \A i \in 1 .. Len(todo) : todo[i].op = "update" => todo[i].n = Len(todo[i].bytes)
    /\ pc \in {"none", "idle", "fill", "loop", "rest"}

\* BlockIsHeldBack with the types, and with what the two steps before it leave.
IInv ==
    /\ TypeOK
    /\ pc = "idle" /\ given # <<>> => buflen > 0
    /\ pc = "fill" => Len(in) > 0
    /\ pc = "loop" => buflen = 0 /\ Len(in) > 0
    /\ pc = "rest" => Len(in) > 0 /\ buflen + Len(in) <= BLOCKBYTES

\* The bytes of a message, and a key with its zeros, are data.
LEMMA BytesAreData ==
    /\ \A from \in Int, n \in Nat : Next_n(from, n) \in Seq(Data) /\ Len(Next_n(from, n)) = n
    /\ \A k \in 0 .. BLOCKBYTES : KeyBlock(k) \in Seq(Data)
<1>1. ASSUME NEW from \in Int, NEW n \in Nat
      PROVE  Next_n(from, n) \in Seq(Data) /\ Len(Next_n(from, n)) = n
  <2>1. \A i \in 1 .. n : MessageByte(from + i) \in Data
    BY DEF Data
  <2> QED
    BY <2>1 DEF Next_n
<1>2. ASSUME NEW k \in 0 .. BLOCKBYTES
      PROVE  KeyBlock(k) \in Seq(Data)
  <2>1. Bytes(KeyByte, k) \in Seq(Data)
    BY BlockAssumption DEF Bytes, Data
  <2>2. Zeros(BLOCKBYTES - k) \in Seq(Data)
    BY BlockAssumption DEF Zeros, Data
  <2> QED
    BY <2>1, <2>2 DEF KeyBlock
<1> QED
  BY <1>1, <1>2

\* The calls that are put on the list.
LEMMA CallsAreCalls ==
    /\ \A b \in Seq(Data) : UpdateCall(b) \in Calls /\ UpdateCall(b).op = "update"
                             /\ UpdateCall(b).n = Len(UpdateCall(b).bytes)
    /\ \A n \in Nat : FinalCall(n) \in Calls /\ FinalCall(n).op = "final"
  BY DEF UpdateCall, FinalCall, Calls

\* A new state, with any list of calls.
LEMMA StartKeepsIInv ==
    ASSUME NEW n, NEW k, Start(n, k), todo' \in Seq(Calls),
           \A i \in 1 .. Len(todo') : todo'[i].op = "update" => todo'[i].n = Len(todo'[i].bytes)
    PROVE  IInv'
  BY BlockAssumption DEF Start, IInv, TypeOK

\* One of the calls that begin or change a digest.
LEMMA CallKeepsIInv ==
    ASSUME IInv, NEW n \in Nat, NEW k \in Nat, NEW len \in Nat,
           blake2b_init(n) \/ blake2b_init_key(n, k) \/ CallUpdate(n) \/ CallFinal(n)
             \/ blake2b(n, len, k)
    PROVE  IInv'
<1> USE BlockAssumption
<1>1. CASE blake2b_init(n)
  BY <1>1, StartKeepsIInv DEF IInv, TypeOK, blake2b_init
<1>2. CASE blake2b_init_key(n, k)
  <2>1. k \in 0 .. BLOCKBYTES
    BY <1>2 DEF blake2b_init_key
  <2>2. KeyBlock(k) \in Seq(Data)
    BY <2>1, BytesAreData
  <2>3. todo' = <<UpdateCall(KeyBlock(k))>>
    BY <1>2 DEF blake2b_init_key
  <2> HIDE DEF UpdateCall, KeyBlock
  <2>4. todo' \in Seq(Calls)
    BY <2>2, <2>3, CallsAreCalls
  <2>5. \A i \in 1 .. Len(todo') : todo'[i].op = "update" => todo'[i].n = Len(todo'[i].bytes)
    BY <2>2, <2>3, CallsAreCalls
  <2> QED
    BY <1>2, <2>4, <2>5, StartKeepsIInv DEF blake2b_init_key
<1>3. CASE CallUpdate(n)
  <2>1. MessageLen \in Int
    BY DEF IInv, TypeOK, MessageLen
  <2>2. Next_n(MessageLen, n) \in Seq(Data)
    BY <2>1, BytesAreData
  <2>3. todo' = <<UpdateCall(Next_n(MessageLen, n))>>
    BY <1>3 DEF CallUpdate
  <2>4. todo' \in Seq(Calls)
    BY <2>2, <2>3, CallsAreCalls
  <2>5. \A i \in 1 .. Len(todo') : todo'[i].op = "update" => todo'[i].n = Len(todo'[i].bytes)
    BY <2>2, <2>3, CallsAreCalls
  <2> QED
    <3>1. UNCHANGED <<buflen, pc, in, given>>
      BY <1>3 DEF CallUpdate, state
    <3> QED
      BY <2>4, <2>5, <3>1 DEF IInv, TypeOK
<1>4. CASE CallFinal(n)
  <2>1. todo' = <<FinalCall(n)>>
    BY <1>4 DEF CallFinal
  <2>2. todo' \in Seq(Calls)
    BY <2>1, CallsAreCalls
  <2>3. \A i \in 1 .. Len(todo') : todo'[i].op = "update" => todo'[i].n = Len(todo'[i].bytes)
    BY <2>1, CallsAreCalls
  <2> QED
    <3>1. UNCHANGED <<buflen, pc, in, given>>
      BY <1>4 DEF CallFinal, state
    <3> QED
      BY <2>2, <2>3, <3>1 DEF IInv, TypeOK
<1>5. CASE blake2b(n, len, k)
  <2>1. k \in 0 .. BLOCKBYTES
    BY <1>5 DEF blake2b
  <2>2. KeyBlock(k) \in Seq(Data) /\ Next_n(0, len) \in Seq(Data)
    BY <2>1, BytesAreData
  <2>3. todo' = IF k > 0
                THEN <<UpdateCall(KeyBlock(k)), UpdateCall(Next_n(0, len)), FinalCall(n)>>
                ELSE <<UpdateCall(Next_n(0, len)), FinalCall(n)>>
    BY <1>5 DEF blake2b
  <2>4. todo' \in Seq(Calls)
    <3>1. UpdateCall(KeyBlock(k)) \in Calls /\ UpdateCall(Next_n(0, len)) \in Calls /\ FinalCall(n) \in Calls
      BY <2>2, CallsAreCalls
    <3> QED
      BY <2>3, <3>1
  <2>5. \A i \in 1 .. Len(todo') : todo'[i].op = "update" => todo'[i].n = Len(todo'[i].bytes)
    <3>1. CASE k > 0
      BY <2>2, <2>3, <3>1, CallsAreCalls
    <3>2. CASE ~(k > 0)
      BY <2>2, <2>3, <3>2, CallsAreCalls
    <3> QED
      BY <3>1, <3>2
  <2> QED
    BY <1>5, <2>4, <2>5, StartKeepsIInv DEF blake2b
<1> QED
  BY <1>1, <1>2, <1>3, <1>4, <1>5

\* Taking the first call off the list leaves a list of calls.
LEMMA TailIsCalls ==
    ASSUME TypeOK, todo # <<>>
    PROVE  /\ Tail(todo) \in Seq(Calls) /\ todo[1] \in Calls
           /\ \A i \in 1 .. Len(Tail(todo)) :
                Tail(todo)[i].op = "update" => Tail(todo)[i].n = Len(Tail(todo)[i].bytes)
           /\ todo[1].op = "update" => todo[1].n = Len(todo[1].bytes)
<1>1. todo \in Seq(Calls) /\ Len(todo) > 0
  BY DEF TypeOK
<1>2. Tail(todo) \in Seq(Calls) /\ Len(Tail(todo)) = Len(todo) - 1
  BY <1>1
<1>3. \A i \in 1 .. Len(Tail(todo)) : Tail(todo)[i] = todo[i + 1] /\ i + 1 \in 1 .. Len(todo)
  BY <1>1
<1> QED
  BY <1>1, <1>2, <1>3 DEF TypeOK

\* The part of a sequence after its first m elements.
LEMMA Dropped ==
    ASSUME NEW s \in Seq(Data), NEW m \in Nat, m < Len(s)
    PROVE  SubSeq(s, m + 1, Len(s)) \in Seq(Data) /\ Len(SubSeq(s, m + 1, Len(s))) = Len(s) - m
  OBVIOUS

\* A sequence without elements adds none.
LEMMA NothingAdded ==
    ASSUME NEW s \in Seq(Data), NEW b \in Seq(Data), Len(b) = 0
    PROVE  s \o b = s
  BY b = <<>>

\* One step of a call that was made.
LEMMA StepKeepsIInv == IInv /\ Step => IInv'
<1> SUFFICES ASSUME IInv, Step PROVE IInv'
  OBVIOUS
<1> USE BlockAssumption
<1>0. TypeOK
  BY DEF IInv
<1>1. CASE Enter
  <2>1. todo # <<>> /\ todo[1].op = "update" /\ pc = "idle"
    BY <1>1 DEF Enter
  <2>2. todo[1].bytes \in Seq(Data) /\ todo[1].n = Len(todo[1].bytes)
    BY <1>0, <2>1, TailIsCalls DEF Calls
  <2>3. TypeOK'
    <3>1. todo' = Tail(todo) /\ in' = todo[1].bytes /\ given' = given \o todo[1].bytes
          /\ buflen' = buflen /\ pc' \in {"fill", "idle"}
      BY <1>1 DEF Enter, state
    <3>2. given' \in Seq(Data) /\ in' \in Seq(Data)
      BY <1>0, <2>2, <3>1 DEF TypeOK
    <3>3. todo' \in Seq(Calls)
          /\ \A i \in 1 .. Len(todo') : todo'[i].op = "update" => todo'[i].n = Len(todo'[i].bytes)
      BY <1>0, <2>1, <3>1, TailIsCalls
    <3> QED
      BY <1>0, <3>1, <3>2, <3>3 DEF TypeOK
  <2>4. ASSUME todo[1].n = 0 PROVE given' = given
    <3>1. given' = given \o todo[1].bytes
      BY <1>1 DEF Enter
    <3>2. given \in Seq(Data)
      BY <1>0 DEF TypeOK
    <3> QED
      BY <2>2, <2>4, <3>1, <3>2, NothingAdded
  <2>5. pc' = "fill" => Len(in') > 0
    BY <1>1, <2>2 DEF Enter
  <2>6. pc' = "idle" => given' = given /\ buflen' = buflen
    BY <1>1, <2>2, <2>4 DEF Enter, state
  <2>7. pc' \in {"fill", "idle"}
    BY <1>1 DEF Enter
  <2> QED
    BY <2>1, <2>3, <2>5, <2>6, <2>7 DEF IInv
<1>2. CASE Fill
  <2>1. CASE Len(in) > BLOCKBYTES - buflen
    <3>1. in' = SubSeq(in, BLOCKBYTES - buflen + 1, Len(in)) /\ buflen' = 0 /\ pc' = "loop"
      BY <1>2, <2>1 DEF Fill
    <3>2. BLOCKBYTES - buflen \in Nat /\ in \in Seq(Data)
      BY <1>0 DEF TypeOK
    <3>3. in' \in Seq(Data) /\ Len(in') > 0
      BY <2>1, <3>1, <3>2, Dropped
    <3> QED
      BY <1>2, <3>1, <3>3 DEF IInv, TypeOK, Fill
  <2>2. CASE ~(Len(in) > BLOCKBYTES - buflen)
    <3>1. pc' = "rest" /\ buflen' = buflen /\ in' = in /\ pc = "fill"
      BY <1>2, <2>2 DEF Fill
    <3> QED
      BY <1>2, <2>2, <3>1 DEF IInv, TypeOK, Fill
  <2> QED
    BY <2>1, <2>2
<1>3. CASE Block
  <2>1. in' = SubSeq(in, BLOCKBYTES + 1, Len(in)) /\ Len(in) > BLOCKBYTES
    BY <1>3 DEF Block
  <2>2. in' \in Seq(Data) /\ Len(in') > 0
    BY <1>0, <2>1, Dropped DEF TypeOK
  <2> QED
    BY <1>3, <2>2 DEF IInv, TypeOK, Block
<1>4. CASE Rest
  <2>1. Len(in) > 0 /\ buflen + Len(in) <= BLOCKBYTES
    BY <1>4 DEF IInv, TypeOK, Rest
  <2> QED
    BY <1>4, <2>1 DEF IInv, TypeOK, Rest
<1>5. CASE Refused
  BY <1>0, <1>5, TailIsCalls DEF IInv, TypeOK, Refused, state
<1>6. CASE blake2b_final
  BY <1>0, <1>6, TailIsCalls DEF IInv, TypeOK, blake2b_final
<1> QED
  BY <1>1, <1>2, <1>3, <1>4, <1>5, <1>6 DEF Step

\* The buffer is never written past its end and a block is always held back for
\* blake2b_final, whatever calls are made and however a message is cut up
\* (blake2b_update).
THEOREM BlockIsAlwaysHeldBack == AnySpec => []BlockIsHeldBack
<1>1. Init => IInv
  BY BlockAssumption DEF Init, IInv, TypeOK
<1>2. IInv /\ [AnyCall \/ Step]_vars => IInv'
  <2>1. IInv /\ AnyCall => IInv'
    BY CallKeepsIInv DEF AnyCall
  <2>2. IInv /\ UNCHANGED vars => IInv'
    BY DEF IInv, TypeOK, vars, state
  <2> QED
    BY <2>1, <2>2, StepKeepsIInv
<1>3. IInv => BlockIsHeldBack
  BY BlockAssumption DEF IInv, TypeOK, BlockIsHeldBack
<1> QED
  BY <1>1, <1>2, <1>3, PTL DEF AnySpec
=============================================================================
