------------------------------ MODULE Address ------------------------------
(***************************************************************************)
(* Addresses (src/utils/address.cpp).  A symbol is its place 0 .. 57 in    *)
(* ALPHABET, and -1 for a character that is not in it, as ALPHABET_MAP has *)
(* it; the symbol 0 is '1'.                                                *)
(***************************************************************************)
EXTENDS Integers, Sequences

CONSTANT Checksum(_)       \* the first two bytes of blake2 of "SS58PRE" and the argument

PUBLIC_KEY_LENGTH == 32
ADDRESS_LENGTH    == 48
SubstratePrefix   == 42

\* The digits that are left of a carry.
RECURSIVE Spill(_, _)
Spill(carry, base) == IF carry = 0 THEN <<>> ELSE <<carry % base>> \o Spill(carry \div base, base)

\* Digits in a base, lowest first, times m plus carry.  The carry is unsigned:
\* -1 that no digit lifts above 0 is 2^32 - 1, of which 2^24 - 1 is carried on.
RECURSIVE MulAdd(_, _, _, _)
MulAdd(digits, m, base, carry) ==
    IF digits = <<>>
    THEN Spill(carry, base)
    ELSE LET sum == carry + digits[1] * m
         IN  <<sum % base>> \o MulAdd(Tail(digits), m, base,
                                      IF sum < 0 THEN 2 ^ 24 - 1 ELSE sum \div base)

RECURSIVE Convert(_, _, _, _)
Convert(digits, s, m, base) ==
    IF s = <<>> THEN digits ELSE Convert(MulAdd(digits, m, base, s[1]), Tail(s), m, base)

\* Zeros at the front of s.
Leading(s) ==
    LET other == {i \in DOMAIN s : s[i] # 0}
    IN  IF other = {} THEN Len(s) ELSE (CHOOSE i \in other : \A j \in other : i <= j) - 1

Zeros(n) == [i \in 1 .. n |-> 0]

Backwards(s) == [i \in DOMAIN s |-> s[Len(s) + 1 - i]]

Digits58(bytes) == Convert(<<0>>, bytes, 256, 58)

EncodeBase58(bytes) == Zeros(Leading(bytes)) \o Backwards(Digits58(bytes))

DecodeBase58(str) == Backwards(Convert(<<0>>, str, 58, 256) \o Zeros(Leading(str)))

-----------------------------------------------------------------------------
\* The exception "Address checksum is wrong."
Throws  == <<>>
ZeroKey == Zeros(PUBLIC_KEY_LENGTH)

\* Mutant of getPublicKeyFromAddr: one byte of the checksum compared.
PublicKeyHalfChecked(addr) ==
    LET decoded == DecodeBase58(SubSeq(addr, 1, ADDRESS_LENGTH))
        payload == SubSeq(decoded, 1, PUBLIC_KEY_LENGTH + 1)
    IN  IF Len(decoded) # 35 THEN ZeroKey
        ELSE IF decoded[34] # Checksum(payload)[1] THEN Throws
        ELSE Tail(payload)

\* The prefix is not looked at.  What does not decode to 35 bytes is the key 0.
getPublicKeyFromAddr(addr) ==
    LET decoded == DecodeBase58(SubSeq(addr, 1, ADDRESS_LENGTH))
        payload == SubSeq(decoded, 1, PUBLIC_KEY_LENGTH + 1)
    IN  IF Len(decoded) # 35 THEN ZeroKey
        ELSE IF SubSeq(decoded, 34, 35) # Checksum(payload) THEN Throws
        ELSE Tail(payload)

getAddrFromPublicKey(pubKey) ==
    LET payload == <<SubstratePrefix>> \o pubKey
    IN  EncodeBase58(payload \o Checksum(payload))

=============================================================================
