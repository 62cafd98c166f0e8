------------------------------ MODULE Uint128 ------------------------------
(***************************************************************************)
(* The unsigned integer of two words (libs/int128), for words of W bits:   *)
(* W is 64 in the code.  A word is a number below B = 2^W, and the         *)
(* arithmetic of words wraps at B.  Multiplication and division are those  *)
(* of the builds that have no __int128.                                    *)
(***************************************************************************)
EXTENDS Integers, Sequences, FiniteSetsExt

CONSTANTS W,         \* bits of a word, an even number
          B,         \* the words there are
          Steps      \* the shifts that Fls64 tries, 32, 16, 8, 4 in the code

ASSUME WordAssumption == W \in Nat /\ W % 2 = 0 /\ B \in Nat \ {0} /\ B = 2 ^ W

Word == 0 .. B - 1
Uint == [hi : Word, lo : Word]

MakeUint128(high, low) == [hi |-> high, lo |-> low]
Zero == MakeUint128(0, 0)
One  == MakeUint128(0, 1)

\* uint128(int), uint128(long), uint128(long long): the sign is extended.
FromSigned(v) == MakeUint128(IF v < 0 THEN B - 1 ELSE 0, v % B)

Eq(a, b) == a.lo = b.lo /\ a.hi = b.hi
Lt(a, b) == IF a.hi = b.hi THEN a.lo < b.lo ELSE a.hi < b.hi
Le(a, b) == IF a.hi = b.hi THEN a.lo <= b.lo ELSE a.hi <= b.hi
Gt(a, b) == IF a.hi = b.hi THEN a.lo > b.lo ELSE a.hi > b.hi
Ge(a, b) == IF a.hi = b.hi THEN a.lo >= b.lo ELSE a.hi >= b.hi

-----------------------------------------------------------------------------
(* Words.                                                                  *)

PlusW(x, y)  == IF x + y >= B THEN x + y - B ELSE x + y
MinusW(x, y) == IF x < y THEN x - y + B ELSE x - y
NotW(x)      == B - 1 - x
TimesW(x, y) == (x * y) % B
ShlW(x, n)   == (x * 2 ^ n) % B
ShrW(x, n)   == x \div 2 ^ n

Bits(x)   == {i \in 0 .. W - 1 : (x \div 2 ^ i) % 2 = 1}
OfBits(s) == MapThenSumSet(LAMBDA i : 2 ^ i, s)
OrW(x, y)  == OfBits(Bits(x) \cup Bits(y))
AndW(x, y) == OfBits(Bits(x) \cap Bits(y))
XorW(x, y) == OfBits((Bits(x) \cup Bits(y)) \ (Bits(x) \cap Bits(y)))

-----------------------------------------------------------------------------
(* Operators.                                                              *)

Neg(a) ==
    LET lo == PlusW(NotW(a.lo), 1)
    IN  MakeUint128(IF lo = 0 THEN PlusW(NotW(a.hi), 1) ELSE NotW(a.hi), lo)

Not(a)    == MakeUint128(NotW(a.hi), NotW(a.lo))
Or(a, b)  == MakeUint128(OrW(a.hi, b.hi), OrW(a.lo, b.lo))
And(a, b) == MakeUint128(AndW(a.hi, b.hi), AndW(a.lo, b.lo))
Xor(a, b) == MakeUint128(XorW(a.hi, b.hi), XorW(a.lo, b.lo))

Shl(a, amount) ==
    IF amount = 0 THEN a
    ELSE IF amount < W
    THEN MakeUint128(OrW(ShlW(a.hi, amount), ShrW(a.lo, W - amount)), ShlW(a.lo, amount))
    ELSE MakeUint128(ShlW(a.lo, amount - W), 0)

Shr(a, amount) ==
    IF amount = 0 THEN a
    ELSE IF amount < W
    THEN MakeUint128(ShrW(a.hi, amount), OrW(ShrW(a.lo, amount), ShlW(a.hi, W - amount)))
    ELSE MakeUint128(0, ShrW(a.hi, amount - W))

\* The low word has wrapped if it is less than the one of an operand.
Add(a, b) ==
    LET lo == PlusW(a.lo, b.lo)
        hi == PlusW(a.hi, b.hi)
    IN  IF lo < a.lo THEN MakeUint128(PlusW(hi, 1), lo) ELSE MakeUint128(hi, lo)

Sub(a, b) ==
    LET lo == MinusW(a.lo, b.lo)
        hi == MinusW(a.hi, b.hi)
    IN  IF a.lo < b.lo THEN MakeUint128(MinusW(hi, 1), lo) ELSE MakeUint128(hi, lo)

\* The products of half words; those in the middle are added with their carry.
Mul(a, b) ==
    LET h   == W \div 2
        a32 == ShrW(a.lo, h)
        a00 == a.lo % 2 ^ h
        b32 == ShrW(b.lo, h)
        b00 == b.lo % 2 ^ h
        hi  == PlusW(PlusW(TimesW(a.hi, b.lo), TimesW(a.lo, b.hi)), TimesW(a32, b32))
    IN  Add(Add(MakeUint128(hi, TimesW(a00, b00)), Shl(MakeUint128(0, TimesW(a32, b00)), h)),
            Shl(MakeUint128(0, TimesW(a00, b32)), h))

\* Highest bit of a word: halve the range while it is not below a nibble, and
\* look the nibble up.
Fls64(n) ==
    LET at[i \in 0 .. Len(Steps)] ==
            IF i = 0 THEN [n |-> n, pos |-> 0]
            ELSE LET was == at[i - 1]
                 IN  IF was.n >= 2 ^ Steps[i]
                     THEN [n |-> ShrW(was.n, Steps[i]), pos |-> was.pos + Steps[i]] ELSE was
        end == at[Len(Steps)]
    IN  end.pos + (CASE end.n < 2 -> 0 [] end.n \in 2 .. 3 -> 1 [] end.n \in 4 .. 7 -> 2 [] end.n > 7 -> 3)

Fls128(a) == IF a.hi # 0 THEN Fls64(a.hi) + W ELSE Fls64(a.lo)

\* Mutant of Rounds: the divisor is shifted one bit too little.
RoundsOneLess(dividend, divisor) == Max({0, Fls128(dividend) - Fls128(divisor) - 1})

\* The divisor is shifted to the highest bit of the dividend, and back bit by
\* bit: rounds 0 to this one.
Rounds(dividend, divisor) == Fls128(dividend) - Fls128(divisor)

DivMod(dividend, divisor) ==
    LET shift == Rounds(dividend, divisor)
        at[i \in 0 .. shift + 1] ==
            IF i = 0 THEN [quotient |-> Zero, rest |-> dividend, denominator |-> Shl(divisor, shift)]
            ELSE LET was == at[i - 1]
                     q   == Shl(was.quotient, 1)
                 IN  [quotient |-> IF Ge(was.rest, was.denominator) THEN Or(q, One) ELSE q,
                      rest |-> IF Ge(was.rest, was.denominator) THEN Sub(was.rest, was.denominator) ELSE was.rest,
                      denominator |-> Shr(was.denominator, 1)]
    IN  IF Gt(divisor, dividend) THEN [quotient |-> Zero, rest |-> dividend]
        ELSE IF Eq(divisor, dividend) THEN [quotient |-> One, rest |-> Zero]
        ELSE [quotient |-> at[shift + 1].quotient, rest |-> at[shift + 1].rest]

-----------------------------------------------------------------------------
(* Text.  A word is printed by the stream.                                 *)

Digits(x, base) ==
    LET n == CHOOSE k \in 1 .. W : x < base ^ k /\ \A l \in 1 .. k - 1 : x >= base ^ l
    IN  [i \in 1 .. n |-> (x \div base ^ (n - i)) % base]

Padded(x, base, width) == [i \in 1 .. width |-> (x \div base ^ (width - i)) % base]

\* Three chunks of log digits, the first that is not 0 without padding.
Formatted(a, base, log) ==
    LET div  == MakeUint128(0, base ^ log)
        first == DivMod(a, div)
        next == DivMod(first.quotient, div)
        high == next.quotient.lo
        mid  == next.rest.lo
    IN  IF high # 0
        THEN Digits(high, base) \o Padded(mid, base, log) \o Padded(first.rest.lo, base, log)
        ELSE IF mid # 0 THEN Digits(mid, base) \o Padded(first.rest.lo, base, log)
        ELSE Digits(first.rest.lo, base)

-----------------------------------------------------------------------------
\* The number a value stands for.
Val(a) == a.hi * B + a.lo
=============================================================================
