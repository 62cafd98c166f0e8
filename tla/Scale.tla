------------------------------- MODULE Scale -------------------------------
(***************************************************************************)
(* The SCALE codec (src/scale.cpp): compact integers, bytes, words and     *)
(* strings, read from the front of a stream.  A stream is the sequence of  *)
(* the bytes its hexadecimal text stands for.  An integer of 128 bits is   *)
(* the sequence of its base-256 digits, lowest first and without zeros at  *)
(* the end.  What a C++ call throws is the result with ok = FALSE.         *)
(***************************************************************************)
EXTENDS Integers, Sequences

Byte == 0 .. 255

\* Digit i of the number with digits d; 0 above the highest.
Digit(d, i) == IF i <= Len(d) THEN d[i] ELSE 0

Trimmed(d) ==
    LET top == {i \in DOMAIN d : d[i] # 0}
    IN  IF top = {} THEN <<>> ELSE SubSeq(d, 1, CHOOSE i \in top : \A j \in top : j <= i)

\* The digits of a machine integer.
Digits(n) ==
    Trimmed(<<n % 256, (n \div 256) % 256, (n \div 65536) % 256, n \div 16777216>>)

-----------------------------------------------------------------------------
(* encodeCompactInteger                                                    *)

AtMost63(d)         == Len(d) = 0 \/ (Len(d) = 1 /\ d[1] <= 63)
AtMost3FFF(d)       == Len(d) <= 1 \/ (Len(d) = 2 /\ d[2] <= 63)
AtMost3FFFFFFF(d)   == Len(d) <= 3 \/ (Len(d) = 4 /\ d[4] <= 63)

OneByte(d)   == <<Digit(d, 1) * 4>>

\* (n & 0xFC0) >> 6 keeps six bits.
TwoBytes(d)  == <<(Digit(d, 1) % 64) * 4 + 1,
                  Digit(d, 1) \div 64 + (Digit(d, 2) % 16) * 4>>

\* n >>= 6, and then byte by byte.
FourBytes(d) ==
    <<(Digit(d, 1) % 64) * 4 + 2>>
        \o [i \in 1 .. 3 |-> Digit(d, i) \div 64 + (Digit(d, i + 1) % 64) * 4]

BigInteger(d) == <<(Len(d) - 4) * 4 + 3>> \o d

encodeCompactInteger(d) ==
    CASE AtMost63(d)                               -> OneByte(d)
      [] ~AtMost63(d) /\ AtMost3FFF(d)             -> TwoBytes(d)
      [] ~AtMost3FFF(d) /\ AtMost3FFFFFFF(d)       -> FourBytes(d)
      [] OTHER                                     -> BigInteger(d)

-----------------------------------------------------------------------------
(* The readers.                                                            *)

Read(v, rest) == [ok |-> TRUE, val |-> v, rest |-> rest]
Throws        == [ok |-> FALSE, val |-> <<>>, rest |-> <<>>]

nextByte(s) == IF s = <<>> THEN Throws ELSE Read(s[1], Tail(s))

\* The word is cut to the uint8_t that nextWord returns.
nextWord(s) ==
    IF Len(s) < 2 THEN Throws ELSE Read((s[1] + 256 * s[2]) % 256, SubSeq(s, 3, Len(s)))

extractString(s, len) ==
    IF Len(s) < len THEN Throws ELSE Read(SubSeq(s, 1, len), SubSeq(s, len + 1, Len(s)))

\* The bytes after the first one of a compact integer.
Following(b) == CASE b % 4 = 0 -> 0 [] b % 4 = 1 -> 1 [] b % 4 = 2 -> 3 [] b % 4 = 3 -> b \div 4 + 4

\* (number >> 2) of the digits d.
ShiftRight2(d) == [i \in DOMAIN d |-> d[i] \div 4 + (Digit(d, i + 1) % 4) * 64]

\* A long keeps the lowest 8 digits of a big integer.
Lowest8(d) == SubSeq(d, 1, IF Len(d) < 8 THEN Len(d) ELSE 8)

decodeCompactInteger(s) ==
    IF s = <<>> \/ Len(s) <= Following(s[1])
    THEN Throws
    ELSE LET n == Following(s[1])
             d == IF s[1] % 4 = 3 THEN Lowest8(SubSeq(s, 2, n + 1))
                                  ELSE ShiftRight2(SubSeq(s, 1, n + 1))
         IN  Read(Trimmed(d), SubSeq(s, n + 2, Len(s)))

\* The value of the digits, for numbers that fit a machine integer.
Value(d) == Digit(d, 1) + 256 * Digit(d, 2) + 65536 * Digit(d, 3) + 16777216 * Digit(d, 4)

=============================================================================
