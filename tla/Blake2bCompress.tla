-------------------------- MODULE Blake2bCompress ---------------------------
(***************************************************************************)
(* The compression function of BLAKE2b (src/libs/blake/blake2b.cpp) on     *)
(* words of 64 bits, and the parameter block it starts from.               *)
(***************************************************************************)
EXTENDS Word64

blake2b_IV ==
    << <<8, 201, 188, 243, 103, 230, 9, 106>>,    <<59, 167, 202, 132, 133, 174, 103, 187>>,
       <<43, 248, 148, 254, 114, 243, 110, 60>>,  <<241, 54, 29, 95, 58, 245, 79, 165>>,
       <<209, 130, 230, 173, 127, 82, 14, 81>>,   <<31, 108, 62, 43, 140, 104, 5, 155>>,
       <<107, 189, 65, 251, 171, 217, 131, 31>>,  <<121, 33, 126, 19, 25, 205, 224, 91>> >>

blake2b_sigma ==
    << <<0, 1, 2, 3, 4, 5, 6, 7, 8, 9, 10, 11, 12, 13, 14, 15>>,
       <<14, 10, 4, 8, 9, 15, 13, 6, 1, 12, 0, 2, 11, 7, 5, 3>>,
       <<11, 8, 12, 0, 5, 2, 15, 13, 10, 14, 3, 6, 7, 1, 9, 4>>,
       <<7, 9, 3, 1, 13, 12, 11, 14, 2, 6, 5, 10, 4, 0, 15, 8>>,
       <<9, 0, 5, 7, 2, 4, 10, 15, 14, 1, 11, 12, 6, 8, 3, 13>>,
       <<2, 12, 6, 10, 0, 11, 8, 3, 4, 13, 7, 5, 15, 14, 1, 9>>,
       <<12, 5, 1, 15, 14, 13, 4, 10, 0, 7, 6, 3, 9, 2, 8, 11>>,
       <<13, 11, 7, 14, 12, 1, 3, 9, 5, 0, 15, 4, 8, 6, 2, 10>>,
       <<6, 15, 14, 9, 11, 3, 0, 8, 12, 2, 13, 7, 1, 4, 10, 5>>,
       <<10, 2, 8, 4, 7, 6, 1, 5, 15, 11, 9, 14, 3, 12, 13, 0>>,
       <<0, 1, 2, 3, 4, 5, 6, 7, 8, 9, 10, 11, 12, 13, 14, 15>>,
       <<14, 10, 4, 8, 9, 15, 13, 6, 1, 12, 0, 2, 11, 7, 5, 3>> >>

\* The words of v that the i-th G of a round mixes, counted from 0.
Mixed == << <<0, 4, 8, 12>>, <<1, 5, 9, 13>>, <<2, 6, 10, 14>>, <<3, 7, 11, 15>>,
            <<0, 5, 10, 15>>, <<1, 6, 11, 12>>, <<2, 7, 8, 13>>, <<3, 4, 9, 14>> >>

\* One half of G on <<a, b, c, d>>, with a word of the message and two rotations.
Half(w, word, r1, r2) ==
    LET a == Plus(Plus(w[1], w[2]), word)
        d == Rotr(Xor(w[4], a), r1)
        c == Plus(w[3], d)
    IN  <<a, Rotr(Xor(w[2], c), r2), c, d>>

G(m, v, r, i) ==
    LET q == Mixed[i + 1]
        x == m[blake2b_sigma[r + 1][2 * i + 1] + 1]
        y == m[blake2b_sigma[r + 1][2 * i + 2] + 1]
        w == Half(Half(<<v[q[1] + 1], v[q[2] + 1], v[q[3] + 1], v[q[4] + 1]>>, x, 32, 24), y, 16, 63)
    IN  [v EXCEPT ![q[1] + 1] = w[1], ![q[2] + 1] = w[2], ![q[3] + 1] = w[3], ![q[4] + 1] = w[4]]

\* The twelve rounds of eight G; g counts them.
Rounds(m, v) ==
    LET mix[u \in [1 .. 16 -> U64], g \in 0 .. 96] ==
            IF g = 96 THEN u ELSE mix[G(m, u, g \div 8, g % 8), g + 1]
    IN  mix[v, 0]

AllOnes == <<255, 255, 255, 255, 255, 255, 255, 255>>
Flag(on) == IF on THEN AllOnes ELSE Small(0)

\* last_node, and with it f[1], is never set.
blake2b_compress(h, block, t, last) ==
    LET m == [i \in 1 .. 16 |-> Read64(block, 8 * (i - 1))]
        iv == blake2b_IV
        v == h \o <<iv[1], iv[2], iv[3], iv[4], Xor(iv[5], Small(t[1])), Xor(iv[6], Small(t[2])),
                    Xor(iv[7], Flag(last)), iv[8]>>
        w == Rounds(m, v)
        new(i) == Xor(Xor(h[i], w[i]), w[i + 8])
    IN  Eight(new)

\* digest_length, key_length, fanout, depth; every other parameter is 0.
blake2b_init_param(outlen, keylen) ==
    [blake2b_IV EXCEPT ![1] = Xor(@, <<outlen, keylen, 1, 1, 0, 0, 0, 0>>)]

\* The first n bytes of the words of h.
Written(h, n) == [i \in 1 .. n |-> h[((i - 1) \div 8) + 1][((i - 1) % 8) + 1]]

=============================================================================
