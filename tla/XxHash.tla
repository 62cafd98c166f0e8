------------------------------- MODULE XxHash -------------------------------
(***************************************************************************)
(* The 64-bit xxHash (src/libs/xxhash/xxhash.cpp) of the first len bytes   *)
(* of the memory s.  p is the code's pointer, counted from 0.              *)
(***************************************************************************)
EXTENDS Word64

PRIME64_1 == <<135, 202, 235, 133, 177, 121, 55, 158>>
PRIME64_2 == <<79, 235, 212, 39, 61, 174, 178, 194>>
PRIME64_3 == <<249, 121, 55, 158, 177, 103, 86, 22>>
PRIME64_4 == <<99, 174, 178, 194, 119, 202, 235, 133>>
PRIME64_5 == <<197, 103, 86, 22, 47, 235, 212, 39>>

XXH64_round(acc, input) == Times(Rotl(Plus(acc, Times(input, PRIME64_2)), 31), PRIME64_1)

XXH64_mergeRound(acc, val) ==
    Plus(Times(Xor(acc, XXH64_round(Small(0), val)), PRIME64_1), PRIME64_4)

XXH64_avalanche(h64) ==
    LET a == Times(Xor(h64, Shr(h64, 33)), PRIME64_2)
        b == Times(Xor(a, Shr(a, 29)), PRIME64_3)
    IN  Xor(b, Shr(b, 32))

PROCESS8_64(h64, s, p) ==
    Plus(Times(Rotl(Xor(h64, XXH64_round(Small(0), Read64(s, p))), 27), PRIME64_1), PRIME64_4)

PROCESS4_64(h64, s, p) ==
    Plus(Times(Rotl(Xor(h64, Times(Read32(s, p), PRIME64_1)), 23), PRIME64_2), PRIME64_3)

PROCESS1_64(h64, s, p) ==
    Times(Rotl(Xor(h64, Times(Small(s[p + 1]), PRIME64_5)), 11), PRIME64_1)

\* The three loops over the last bytes, of which n are left.
Processed(h64, s, p, n) ==
    LET step[h \in U64, q \in Nat, r \in 0 .. 31] ==
            CASE r >= 8       -> step[PROCESS8_64(h, s, q), q + 8, r - 8]
              [] r \in 4 .. 7 -> step[PROCESS4_64(h, s, q), q + 4, r - 4]
              [] r \in 1 .. 3 -> step[PROCESS1_64(h, s, q), q + 1, r - 1]
              [] r = 0        -> h
    IN  step[h64, p, n]

XXH64_finalize(h64, s, p, len) == XXH64_avalanche(Processed(h64, s, p, len % 32))

\* do ... while (p <= limit)
Stripes(v, s, p, limit) ==
    LET lane(u, q, j) == XXH64_round(u[j], Read64(s, q + (8 * (j - 1))))
        stripe[u \in [1 .. 4 -> U64], q \in Nat] ==
            LET w == <<lane(u, q, 1), lane(u, q, 2), lane(u, q, 3), lane(u, q, 4)>>
            IN  IF q + 32 <= limit THEN stripe[w, q + 32] ELSE [v |-> w, p |-> q + 32]
    IN  stripe[v, p]

Lanes(seed) ==
    <<Plus(Plus(seed, PRIME64_1), PRIME64_2), Plus(seed, PRIME64_2), seed, Minus(seed, PRIME64_1)>>

Merged(v) ==
    LET sum == Plus(Plus(Rotl(v[1], 1), Rotl(v[2], 7)), Plus(Rotl(v[3], 12), Rotl(v[4], 18)))
        merge[h \in U64, j \in 1 .. 5] ==
            IF j = 5 THEN h ELSE merge[XXH64_mergeRound(h, v[j]), j + 1]
    IN  merge[sum, 1]

XXH64(s, len, seed) ==
    LET long   == len >= 32
        end    == IF long THEN Stripes(Lanes(seed), s, 0, len - 32) ELSE [p |-> 0]
        h64    == IF long THEN Merged(end.v) ELSE Plus(seed, PRIME64_5)
    IN  XXH64_finalize(Plus(h64, Small(len)), s, end.p, len)

=============================================================================
