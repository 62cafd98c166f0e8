----------------------------- MODULE Converters -----------------------------
(***************************************************************************)
(* Hexadecimal and decimal text (src/utils/converters.cpp).  A text is the *)
(* sequence of its character codes.  An integer of W bytes is the sequence *)
(* of its W base-256 digits, lowest first: W is 8 for long long and for    *)
(* unsigned long, 16 for uint128.                                          *)
(***************************************************************************)
EXTENDS Integers, Sequences

\* c_str()[i]: the terminator follows the last character.
CharAt(s, i) == IF i < Len(s) THEN s[i + 1] ELSE 0

Nibble(c) ==
    CASE c \in 97 .. 102 -> c - 97 + 10      \* 'a' .. 'f'
      [] c \in 65 .. 70  -> c - 65 + 10      \* 'A' .. 'F'
      [] c \in 48 .. 57  -> c - 48           \* '0' .. '9'
      [] OTHER           -> c

\* The bits of two numbers below 16, in either of them.
Or4(a, b) ==
    LET bit(k) == IF (a \div k) % 2 = 1 \/ (b \div k) % 2 = 1 THEN k ELSE 0
    IN  bit(1) + bit(2) + bit(4) + bit(8)

\* (digit1 << 4) | digit2: a digit2 that is no digit has high bits too.
fromHexByte(c1, c2) == (16 * Or4(Nibble(c1) % 16, Nibble(c2) \div 16)) + (Nibble(c2) % 16)

\* Where the digits start: behind a leading "0x".
Start(s) == IF CharAt(s, 0) = 48 /\ CharAt(s, 1) = 120 THEN 2 ELSE 0

\* Byte k of the text, two characters each from the left.
ByteOf(s, k) == fromHexByte(CharAt(s, Start(s) + 2 * k), CharAt(s, Start(s) + 2 * k + 1))

Bytes(s) == (Len(s) - Start(s) + 1) \div 2

\* fromHex<T>, T of w bytes.  The bytes come highest or lowest first; of more
\* than w bytes, highest first, the last w remain.
fromHex(s, bigEndianBytes, w) ==
    [i \in 1 .. w |-> IF i > Bytes(s) THEN 0
                      ELSE ByteOf(s, IF bigEndianBytes THEN Bytes(s) - i ELSE i - 1)]

\* fromHex<vector<uint8_t>>: lowest byte first, it reads from the right.
fromHexVector(s, bigEndianBytes) ==
    IF bigEndianBytes
    THEN [i \in 1 .. Bytes(s) |-> ByteOf(s, i - 1)]
    ELSE [i \in 1 .. (Len(s) - Start(s)) \div 2 |->
              fromHexByte(CharAt(s, Len(s) - 2 * i), CharAt(s, Len(s) - 2 * i + 1))]

-----------------------------------------------------------------------------
(* atoi128.  scratch holds the decimal digits; halving them as a whole     *)
(* brings out one bit of the number after the other.                       *)

\* The first place from i on whose character is not in cs.
Skip(s, i, cs) ==
    CHOOSE j \in i .. Len(s) : CharAt(s, j) \notin cs /\ \A k \in i .. j - 1 : CharAt(s, k) \in cs

\* Mutant of Halved: no decimal correction of a digit that took a bit over.
HalvedUncorrected(scratch) ==
    [i \in DOMAIN scratch |->
        LET carry == i > 1 /\ scratch[i - 1] % 2 = 1
        IN  scratch[i] \div 2 + (IF carry THEN 8 ELSE 0)]

\* One halving: a digit takes 8 over from an odd digit on its left, and gives
\* back 3 of it: a carried ten is worth five.
Halved(scratch) ==
    [i \in DOMAIN scratch |->
        LET carry == i > 1 /\ scratch[i - 1] % 2 = 1
            d     == scratch[i] \div 2 + (IF carry THEN 8 ELSE 0)
        IN  IF d > 7 THEN d - 3 ELSE d]

\* The loop, for integers of b bits: the lowest bit of the digits after k
\* halvings is bit k of the result.  After four halvings for each digit all
\* of them are 0.
Gather(scratch, b) ==
    LET Round[k \in 0 .. 4 * Len(scratch)] ==
            IF k = 0 THEN [digits |-> scratch, result |-> 0]
            ELSE LET r   == Round[k - 1]
                     odd == r.digits[Len(scratch)] % 2 = 1
                 IN  [digits |-> Halved(r.digits),
                      result |-> r.result + (IF odd /\ k <= b THEN 2 ^ (k - 1) ELSE 0)]
    IN  Round[4 * Len(scratch)].result

atoi128(s, b) ==
    LET from     == Skip(s, 0, {32, 9, 10, 43})
        negative == CharAt(s, from) = 45
        first    == IF negative THEN from + 1 ELSE from
        digits   == Skip(s, first, 48 .. 57) - first
        result   == Gather([i \in 1 .. digits |-> CharAt(s, first + i - 1) - 48], b)
    IN  IF negative THEN (0 - result) % 2 ^ b ELSE result

=============================================================================
