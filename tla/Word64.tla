------------------------------- MODULE Word64 -------------------------------
(***************************************************************************)
(* Unsigned 64-bit integers, as the sequences of their eight base-256      *)
(* digits, lowest first, and the operations on them that the hash          *)
(* functions of src/libs use.  All of them are modulo 2^64.  Words are     *)
(* written as tuples, which TLC evaluates once.                            *)
(***************************************************************************)
EXTENDS Integers, Sequences

Byte == 0 .. 255
U64  == [1 .. 8 -> Byte]

Eight(digit(_)) ==
    <<digit(1), digit(2), digit(3), digit(4), digit(5), digit(6), digit(7), digit(8)>>

\* The word with these columns: each a digit that may be too large or negative.
Carried(c) ==
    LET c1 == c[1]
        c2 == c[2] + (c1 \div 256)
        c3 == c[3] + (c2 \div 256)
        c4 == c[4] + (c3 \div 256)
        c5 == c[5] + (c4 \div 256)
        c6 == c[6] + (c5 \div 256)
        c7 == c[7] + (c6 \div 256)
        c8 == c[8] + (c7 \div 256)
    IN  <<c1 % 256, c2 % 256, c3 % 256, c4 % 256, c5 % 256, c6 % 256, c7 % 256, c8 % 256>>

Small(n) == Carried(<<n, 0, 0, 0, 0, 0, 0, 0>>)

Plus(a, b)  == LET column(i) == a[i] + b[i] IN Carried(Eight(column))
Minus(a, b) == LET column(i) == a[i] - b[i] IN Carried(Eight(column))

Times(a, b) ==
    LET product(i, k) == IF i <= k THEN a[i] * b[k + 1 - i] ELSE 0
        column(k) == product(1, k) + product(2, k) + product(3, k) + product(4, k)
                       + product(5, k) + product(6, k) + product(7, k) + product(8, k)
    IN  Carried(Eight(column))

\* Of two numbers below 16.
XorHex ==
    LET bit(n, i) == (n \div 2 ^ i) % 2
        one(x, y, i) == IF bit(x, i) # bit(y, i) THEN 2 ^ i ELSE 0
    IN  [x, y \in 0 .. 15 |-> one(x, y, 0) + one(x, y, 1) + one(x, y, 2) + one(x, y, 3)]

Xor(a, b) ==
    LET digit(i) == 16 * XorHex[a[i] \div 16, b[i] \div 16] + XorHex[a[i] % 16, b[i] % 16]
    IN  Eight(digit)

\* Shifted and rotated by 0 < r < 64 bits.
Rotl(w, r) ==
    LET at(i)    == w[((i - 1 - (r \div 8)) % 8) + 1]
        digit(i) == ((at(i) * 2 ^ (r % 8)) + (at(i - 1) \div 2 ^ (8 - (r % 8)))) % 256
    IN  Eight(digit)

Rotr(w, r) == Rotl(w, 64 - r)

Shr(w, r) ==
    LET at(i)    == IF i + (r \div 8) <= 8 THEN w[i + (r \div 8)] ELSE 0
        digit(i) == ((at(i) \div 2 ^ (r % 8)) + (at(i + 1) * 2 ^ (8 - (r % 8)))) % 256
    IN  Eight(digit)

\* The word in eight bytes of s from place p, counted from 0; in four bytes.
Read64(s, p) == LET digit(i) == s[p + i] IN Eight(digit)
Read32(s, p) == LET digit(i) == IF i <= 4 THEN s[p + i] ELSE 0 IN Eight(digit)

=============================================================================
