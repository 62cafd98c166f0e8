------------------------------ MODULE Blake2b -------------------------------
(***************************************************************************)
(* The streaming and the simple interface of BLAKE2b                       *)
(* (src/libs/blake/blake2b.cpp).  A call is put on the list todo; the      *)
(* loops of blake2b_update are steps.  The compression function is a       *)
(* parameter: Blake2bCompress is the one of the code.                      *)
(*                                                                         *)
(* The i-th byte of a message is MessageByte(i), so that a message is its  *)
(* length; the history variables given and key tell what was hashed.       *)
(***************************************************************************)
EXTENDS Integers, Sequences

CONSTANTS BLOCKBYTES, OUTBYTES, KEYBYTES,
          CounterWord,             \* the words of the counter are below it
          H0(_, _),                \* of outlen and keylen: IV XOR ParamBlock
          Compress(_, _, _, _),    \* of h, a block, the counter, the last-block flag
          Stored(_, _),            \* outlen bytes of h
          MessageByte(_), KeyByte(_)

ASSUME BlockAssumption == BLOCKBYTES \in Nat \ {0} /\ KEYBYTES \in 0 .. BLOCKBYTES

VARIABLES h, t, f, buf, buflen, outlen,     \* blake2b_state
          pc,                               \* where blake2b_update is; "none": no state yet
          in,                               \* what blake2b_update still has to copy
          todo,                             \* calls to make
          given, key,                       \* all bytes and the key since the last initialisation
          digest                            \* what blake2b_final wrote, and what of

state == <<h, t, f, buf, buflen, outlen>>
vars  == <<state, pc, in, todo, given, key, digest>>

NoDigest == [out |-> <<>>, of |-> <<>>]

Zeros(n) == [i \in 1 .. n |-> 0]
Bytes(byte(_), n) == [i \in 1 .. n |-> byte(i)]
Next_n(from, n) == [i \in 1 .. n |-> MessageByte(from + i)]

\* The message is what was given after the key block.
MessageLen == Len(given) - (IF key = 0 THEN 0 ELSE BLOCKBYTES)

UpdateCall(bytes) == [op |-> "update", bytes |-> bytes, n |-> Len(bytes)]
FinalCall(n)      == [op |-> "final", bytes |-> <<>>, n |-> n]

Init ==
    /\ h = H0(1, 0) /\ t = <<0, 0>> /\ f = FALSE
    /\ buf = Zeros(BLOCKBYTES) /\ buflen = 0 /\ outlen = 0
    /\ pc = "none" /\ in = <<>> /\ todo = <<>>
    /\ given = <<>> /\ key = 0 /\ digest = NoDigest

-----------------------------------------------------------------------------
\* The state after blake2b_init_param.
Start(n, k) ==
    /\ h' = H0(n, k) /\ t' = <<0, 0>> /\ f' = FALSE
    /\ buf' = Zeros(BLOCKBYTES) /\ buflen' = 0 /\ outlen' = n
    /\ pc' = "idle" /\ in' = <<>>
    /\ given' = <<>> /\ key' = k /\ digest' = NoDigest

Callable == todo = <<>> /\ pc \in {"none", "idle"}

blake2b_init(n) ==
    /\ Callable
    /\ n \in 1 .. OUTBYTES
    /\ Start(n, 0) /\ UNCHANGED todo

\* The key, filled up with zeros, is hashed as a block of its own.
KeyBlock(k) == Bytes(KeyByte, k) \o Zeros(BLOCKBYTES - k)

blake2b_init_key(n, k) ==
    /\ Callable
    /\ n \in 1 .. OUTBYTES /\ k \in 1 .. KEYBYTES
    /\ Start(n, k) /\ todo' = <<UpdateCall(KeyBlock(k))>>

CallUpdate(n) ==
    /\ Callable /\ pc = "idle"
    /\ todo' = <<UpdateCall(Next_n(MessageLen, n))>>
    /\ UNCHANGED <<state, pc, in, given, key, digest>>

CallFinal(n) ==
    /\ Callable /\ pc = "idle"
    /\ todo' = <<FinalCall(n)>>
    /\ UNCHANGED <<state, pc, in, given, key, digest>>

\* The simple interface: the other calls on a state of its own.
blake2b(n, len, k) ==
    /\ Callable
    /\ n \in 1 .. OUTBYTES /\ k \in 0 .. KEYBYTES
    /\ Start(n, k)
    /\ todo' = IF k > 0
               THEN <<UpdateCall(KeyBlock(k)), UpdateCall(Next_n(0, len)), FinalCall(n)>>
               ELSE <<UpdateCall(Next_n(0, len)), FinalCall(n)>>

-----------------------------------------------------------------------------
Incremented(inc) ==
    LET low == (t[1] + inc) % CounterWord
    IN  <<low, IF low < inc THEN (t[2] + 1) % CounterWord ELSE t[2]>>

Enter ==
    /\ pc = "idle" /\ todo # <<>> /\ todo[1].op = "update"
    /\ in' = todo[1].bytes /\ todo' = Tail(todo)
    /\ given' = given \o todo[1].bytes
    /\ pc' = IF todo[1].n > 0 THEN "fill" ELSE "idle"
    /\ UNCHANGED <<state, key, digest>>

\* if (inlen > fill): the buffer is filled and compressed.
Fill ==
    /\ pc = "fill"
    /\ LET fill == BLOCKBYTES - buflen
           full == SubSeq(buf, 1, buflen) \o SubSeq(in, 1, fill)
       IN  IF Len(in) > fill
           THEN /\ buf' = full /\ buflen' = 0
                /\ t' = Incremented(BLOCKBYTES)
                /\ h' = Compress(h, full, Incremented(BLOCKBYTES), f)
                /\ in' = SubSeq(in, fill + 1, Len(in))
                /\ pc' = "loop"
           ELSE /\ pc' = "rest"
                /\ UNCHANGED <<h, t, buf, buflen, in>>
    /\ UNCHANGED <<f, outlen, todo, given, key, digest>>

\* Mutant of Block: a block is compressed as soon as it is full.
BlockEager ==
    /\ pc = "loop" /\ Len(in) >= BLOCKBYTES
    /\ t' = Incremented(BLOCKBYTES)
    /\ h' = Compress(h, SubSeq(in, 1, BLOCKBYTES), Incremented(BLOCKBYTES), f)
    /\ in' = SubSeq(in, BLOCKBYTES + 1, Len(in))
    /\ UNCHANGED <<f, buf, buflen, outlen, pc, todo, given, key, digest>>

\* One round of while (inlen > BLAKE2B_BLOCKBYTES).
Block ==
    /\ pc = "loop" /\ Len(in) > BLOCKBYTES
    /\ t' = Incremented(BLOCKBYTES)
    /\ h' = Compress(h, SubSeq(in, 1, BLOCKBYTES), Incremented(BLOCKBYTES), f)
    /\ in' = SubSeq(in, BLOCKBYTES + 1, Len(in))
    /\ UNCHANGED <<f, buf, buflen, outlen, pc, todo, given, key, digest>>

\* The last bytes are kept.
Rest ==
    /\ pc = "rest" \/ (pc = "loop" /\ Len(in) <= BLOCKBYTES)
    /\ buf' = SubSeq(buf, 1, buflen) \o in \o SubSeq(buf, buflen + Len(in) + 1, BLOCKBYTES)
    /\ buflen' = buflen + Len(in)
    /\ in' = <<>> /\ pc' = "idle"
    /\ UNCHANGED <<h, t, f, outlen, todo, given, key, digest>>

Refused ==
    /\ pc = "idle" /\ todo # <<>> /\ todo[1].op = "final"
    /\ todo[1].n < outlen \/ f
    /\ todo' = Tail(todo)
    /\ UNCHANGED <<state, pc, in, given, key, digest>>

\* Mutant of blake2b_final: what an earlier block left in the buffer is hashed.
FinalNoPadding ==
    /\ pc = "idle" /\ todo # <<>> /\ todo[1].op = "final"
    /\ todo[1].n >= outlen /\ ~f
    /\ t' = Incremented(buflen) /\ f' = TRUE
    /\ h' = Compress(h, buf, Incremented(buflen), TRUE)
    /\ digest' = [out |-> Stored(h', outlen), of |-> given]
    /\ todo' = Tail(todo)
    /\ UNCHANGED <<buf, buflen, outlen, pc, in, given, key>>

blake2b_final ==
    /\ pc = "idle" /\ todo # <<>> /\ todo[1].op = "final"
    /\ todo[1].n >= outlen /\ ~f
    /\ t' = Incremented(buflen) /\ f' = TRUE
    /\ buf' = SubSeq(buf, 1, buflen) \o Zeros(BLOCKBYTES - buflen)
    /\ h' = Compress(h, buf', Incremented(buflen), TRUE)
    /\ digest' = [out |-> Stored(h', outlen), of |-> given]
    /\ todo' = Tail(todo)
    /\ UNCHANGED <<buflen, outlen, pc, in, given, key>>

Step == Enter \/ Fill \/ Block \/ Rest \/ Refused \/ blake2b_final

-----------------------------------------------------------------------------
\* What is still to be compressed is in the buffer and before the pointer.
Kept == SubSeq(buf, 1, buflen) \o in

AnyCall ==
    \E n, k, len \in Nat :
        \/ blake2b_init(n)
        \/ blake2b_init_key(n, k)
        \/ CallUpdate(n)
        \/ CallFinal(n)
        \/ blake2b(n, len, k)

AnySpec == Init /\ [][AnyCall \/ Step]_vars

\* The buffer is not written past its end, and between two calls a block is
\* held back however the message was cut up, because the last one is
\* compressed with another flag and counter (blake2b_update, blake2b_final).
BlockIsHeldBack ==
    /\ buflen <= BLOCKBYTES
    /\ pc = "idle" /\ given # <<>> => buflen > 0
    /\ pc = "loop" => buflen = 0 /\ in # <<>>
    /\ pc = "rest" => buflen + Len(in) <= BLOCKBYTES

=============================================================================
