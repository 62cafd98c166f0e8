------------------------------ MODULE ApiProofs ------------------------------
(***************************************************************************)
(* Proofs about the api: that updates are routed to their subscribers, for *)
(* any number of application threads; on top of it, that nothing is lost   *)
(* or left over when one thread calls it; and its two singletons, for any  *)
(* number of threads that take the api and give it back.                   *)
(***************************************************************************)
EXTENDS MCApi, TLAPS

\* A leaf is tried with Zenon and then with SMT, unless it names one of them.
USE ZenonT(5), SMTT(20)

-----------------------------------------------------------------------------
(* The routing of updates, for any number of application threads.          *)

Statements == [op : {"set", "ask", "send", "await", "drop"}, slot : Slot, cb : -1 .. MaxCalls]
Reports    == [cb : -1 .. MaxCalls, id : 1 .. MaxSubs, update : Nat]

SlotTypes ==
    /\ id \in [Slot -> Leftover \cup {Absent} \cup 0 .. MaxSubs]
    /\ sub \in [Slot -> -1 .. MaxCalls] /\ best \in BOOLEAN

ThreadTypes ==
    /\ todo \in [User -> Seq(Statements)] /\ clearing \in [User -> 0 .. 2]
    /\ answer \in [User -> Seq(0 .. MaxSubs)] /\ \A u \in User : Len(answer[u]) <= 1

NodeTypes ==
    /\ topic \in Seq(Slot) /\ Len(topic) <= MaxSubs /\ active \subseteq DOMAIN topic
    /\ sent \in [1 .. MaxSubs -> 0 .. MaxUpdates]

ConsumerTypes ==
    /\ taken \in [1 .. MaxSubs -> 0 .. MaxUpdates] /\ \A i \in 1 .. MaxSubs : taken[i] <= sent[i]
    /\ calling \in [1 .. MaxSubs -> Seq(Slot)] /\ \A i \in 1 .. MaxSubs : Len(calling[i]) <= 1
    /\ resetting \in [1 .. MaxSubs -> BOOLEAN]

HistoryTypes ==
    /\ calls \in Seq(Slot) /\ Len(calls) <= MaxCalls
    /\ wanted \in [Slot -> 0 .. MaxCalls] /\ heard \in Seq(Reports)
    /\ fault \in {"none", "bad_function_call"}

Types == SlotTypes /\ ThreadTypes /\ NodeTypes /\ ConsumerTypes /\ HistoryTypes

\* c is a callback that was brought for the slot s.
BroughtFor(c, s) == (c = Lambda /\ s = Block) \/ (c \in DOMAIN calls /\ calls[c] = s)

\* What the application threads have before them: callbacks go to the slots they
\* were brought for, and only "send" subscribes to an extrinsic.
TaskOK(st) ==
    /\ st.op = "set" => BroughtFor(st.cb, st.slot)
    /\ st.op \in {"ask", "drop"} => st.slot[1] \notin Extrinsics
    /\ st.op = "send" => st.slot[1] \in Extrinsics

Tasks == \A u \in User : \A n \in DOMAIN todo[u] : TaskOK(todo[u][n])

\* An answer waits for its Store, an unsubscribe for its end.
Pending == \A u \in User :
    /\ answer[u] # <<>> =>
            /\ todo[u] # <<>> /\ todo[u][1].op \in {"ask", "send"}
            /\ answer[u][1] # 0 => /\ answer[u][1] \in DOMAIN topic
                                   /\ topic[answer[u][1]] = todo[u][1].slot
    /\ clearing[u] # 0 => todo[u] # <<>> /\ todo[u][1].op = "drop"

\* A slot has an id of a subscription for it, and a callback brought for it.
Slots == \A s \in Slot :
    /\ id[s] \in 1 .. MaxSubs => id[s] \in DOMAIN topic /\ topic[id[s]] = s
    /\ sub[s] = None \/ BroughtFor(sub[s], s)

\* A consumer calls the slot of its subscription.
Consumers == \A i \in 1 .. MaxSubs :
    /\ calling[i] # <<>> => i \in DOMAIN topic /\ calling[i][1] = topic[i]
    /\ resetting[i] => calling[i] # <<>> /\ calling[i][1][1] = "transfer"

Told == \A n \in DOMAIN heard :
    heard[n].id \in DOMAIN topic /\ BroughtFor(heard[n].cb, topic[heard[n].id])

RInv == Types /\ Tasks /\ Pending /\ Slots /\ Consumers /\ Told

-----------------------------------------------------------------------------
(* What holds for one application thread.                                  *)

\* The slots that no method uses but the two they are for.
Watched == {s \in Slot : s[1] \in {"balance", "storage", "finalized", "version", "era"}}

\* A subscription the node serves is in its slot or on its way there; an id is
\* not replaced while the node serves it.
Kept(u) ==
    /\ \A i \in active : topic[i][1] \notin Extrinsics => id[topic[i]] = i \/ answer[u] = <<i>>
    /\ answer[u] # <<>> => todo[u][1].op = "send" \/ ~Held(todo[u][1].slot)
    /\ clearing[u] # 0 => id[todo[u][1].slot] \notin active

\* What the thread has before it is what the application wants.
WishOK(st) == st.slot \in Watched =>
    /\ st.op = "set" => st.cb = wanted[st.slot]
    /\ st.op \in {"set", "ask"} => wanted[st.slot] # None
    /\ st.op = "drop" => wanted[st.slot] = None

Wishes(u) == \A n \in DOMAIN todo[u] : WishOK(todo[u][n])

Has(u, o, s) == \E n \in DOMAIN todo[u] : todo[u][n].op = o /\ todo[u][n].slot = s

\* It is done, or to be done.
Fulfilled(u) == \A s \in Watched :
    IF wanted[s] = None THEN sub[s] = None \/ ~Held(s) \/ Has(u, "drop", s)
                        ELSE sub[s] = wanted[s] \/ Has(u, "set", s)

OneInv(u) == RInv /\ Kept(u) /\ Wishes(u) /\ Fulfilled(u)

-----------------------------------------------------------------------------
(* The programs of the methods.                                            *)

LEMMA SingleSlots ==
    Single = {"block", "extrinsic", "transfer", "era", "finalized", "version"}
<1>1. DOMAIN Kinds = 1 .. 9
  BY DEF Kinds
<1>2. {Kinds[n] : n \in DOMAIN Kinds} = {"block", "nonce", "balance", "extrinsic", "transfer", "era",
                                         "finalized", "version", "storage"}
  <2>1. \A n \in 1 .. 9 : n = 1 \/ n = 2 \/ n = 3 \/ n = 4 \/ n = 5 \/ n = 6 \/ n = 7 \/ n = 8 \/ n = 9
    OBVIOUS
  <2>2. 1 \in 1 .. 9 /\ 2 \in 1 .. 9 /\ 3 \in 1 .. 9 /\ 4 \in 1 .. 9 /\ 5 \in 1 .. 9 /\ 6 \in 1 .. 9
        /\ 7 \in 1 .. 9 /\ 8 \in 1 .. 9 /\ 9 \in 1 .. 9
    OBVIOUS
  <2> QED
    BY <1>1, <2>1, <2>2 DEF Kinds
<1> QED
  BY <1>2 DEF Single, Keyed

LEMMA SlotForms ==
    /\ Block \in Slot /\ Era \in Slot /\ Block # Era
    /\ Block[1] = "block" /\ Era[1] = "era"
    /\ \A s \in Slot : s[1] \in {"block", "era", "finalized", "version", "extrinsic", "transfer", "nonce",
                                 "balance", "storage"}
    /\ \A s \in Slot : s[1] = "block" => s = Block
    /\ \A s \in Slot : s[1] = "era" => s = Era
BY SingleSlots DEF Slot, Keyed, Block, Era

LEMMA SenderSlot == Sender \in Slot /\ Sender[1] = "nonce"
<1>1. PICK x \in Address : TRUE
  BY PolkaApiAssumption
<1>2. <<"nonce", x>> \in Slot /\ <<"nonce", x>>[1] = "nonce"
  BY DEF Slot, Keyed
<1> QED
  BY <1>2 DEF Sender

LEMMA TailOf ==
    ASSUME NEW S, NEW q \in Seq(S), q # <<>>
    PROVE  /\ Tail(q) \in Seq(S) /\ 1 \in DOMAIN q /\ q[1] \in S
           /\ \A n \in DOMAIN Tail(q) : n + 1 \in DOMAIN q /\ Tail(q)[n] = q[n + 1]
           /\ \A n \in DOMAIN q : n = 1 \/ (n - 1 \in DOMAIN Tail(q) /\ Tail(q)[n - 1] = q[n])
OBVIOUS

\* p is a program of statements of M that begins with m.
Program(p, m, M) == p \in Seq(M) /\ p # <<>> /\ p[1] = m

LEMMA ProgramJoin ==
    ASSUME NEW M, NEW m, NEW p, NEW q \in Seq(M), Program(p, m, M)
    PROVE  Program(p \o q, m, M)
BY DEF Program

LEMMA SubscribeIs ==
    ASSUME NEW s \in Slot, s[1] \notin Extrinsics, NEW c
    PROVE  Program(Subscribe(s, c), Set(s, c),
                   IF s = Era THEN {Set(s, c), Ask(s), Set(Block, Lambda), Ask(Block)} ELSE {Set(s, c), Ask(s)})
<1>1. s[1] \in {"block", "era", "finalized", "version", "nonce", "balance", "storage"}
  BY SlotForms DEF Extrinsics
<1>2. CASE s = Era
  <2> DEFINE M == {Set(Era, c), Ask(Era), Set(Block, Lambda), Ask(Block)}
             p == <<Set(Era, c)>>
             q == <<Set(Block, Lambda), Ask(Block)>>
             r == <<Ask(Era)>>
  <2>1. Subscribe(Era, c) = (p \o q) \o r
    BY SlotForms DEF Subscribe, subscribeEraAndSession, subscribeBlockNumber
  <2>2. Program(p, Set(Era, c), M) /\ q \in Seq(M) /\ r \in Seq(M)
    BY DEF Program
  <2> HIDE DEF M, p, q, r
  <2>3. Program((p \o q) \o r, Set(Era, c), M)
    BY <2>2, ProgramJoin
  <2> QED
    BY <1>2, <2>1, <2>3 DEF M
<1>3. CASE s # Era
  <2>1. Subscribe(s, c) = <<Set(s, c), Ask(s)>>
    <3>1. CASE s = Block
      BY <3>1, SlotForms DEF Subscribe, subscribeBlockNumber
    <3>2. CASE s # Block
      <4>1. s[1] \in {"finalized", "version", "nonce", "balance", "storage"}
        BY <1>1, <1>3, <3>2, SlotForms
      <4> QED
        BY <1>3, <3>2, <4>1 DEF Subscribe, subscribeBalance, subscribeAccountNonce,
           subscribeFinalizedBlock, subscribeRuntimeVersion, subscribeStorage
    <3> QED
      BY <3>1, <3>2
  <2>2. <<Set(s, c), Ask(s)>> \in Seq({Set(s, c), Ask(s)})
    OBVIOUS
  <2> QED
    BY <1>3, <2>1, <2>2 DEF Program
<1> QED
  BY <1>2, <1>3

LEMMA UnsubscribeIs ==
    ASSUME NEW s \in Slot, s[1] \notin Extrinsics
    PROVE  Program(Unsubscribe(s), Drop(s), IF s = Era THEN {Drop(s), Drop(Block)} ELSE {Drop(s)})
<1>1. s[1] \in {"block", "era", "finalized", "version", "nonce", "balance", "storage"}
  BY SlotForms DEF Extrinsics
<1>2. CASE s = Era
  <2> DEFINE M == {Drop(Era), Drop(Block)}
             p == <<Drop(Era)>>
             q == <<Drop(Block)>>
  <2>1. Unsubscribe(Era) = p \o q
    BY SlotForms DEF Unsubscribe, unsubscribeEraAndSession, unsubscribeBlockNumber
  <2>2. Program(p, Drop(Era), M) /\ q \in Seq(M)
    BY DEF Program
  <2> HIDE DEF M, p, q
  <2>3. Program(p \o q, Drop(Era), M)
    BY <2>2, ProgramJoin
  <2> QED
    BY <1>2, <2>1, <2>3 DEF M
<1>3. CASE s # Era
  <2>1. Unsubscribe(s) = <<Drop(s)>>
    <3>1. CASE s = Block
      BY <3>1, SlotForms DEF Unsubscribe, unsubscribeBlockNumber
    <3>2. CASE s # Block
      <4>1. s[1] \in {"finalized", "version", "nonce", "balance", "storage"}
        BY <1>1, <1>3, <3>2, SlotForms
      <4> QED
        BY <1>3, <3>2, <4>1 DEF Unsubscribe, unsubscribeBalance, unsubscribeAccountNonce,
           unsubscribeFinalizedBlock, unsubscribeRuntimeVersion, unsubscribeStorage
    <3> QED
      BY <3>1, <3>2
  <2>2. <<Drop(s)>> \in Seq({Drop(s)})
    OBVIOUS
  <2> QED
    BY <1>3, <2>1, <2>2 DEF Program
<1> QED
  BY <1>2, <1>3

LEMMA NonceIs ==
    ASSUME NEW s, NEW c, NEW M, {Set(s, c), Ask(s), Await(s, c), Drop(s)} \subseteq M
    PROVE  Program(getAccountNonce(s, c), Set(s, c), M)
<1> DEFINE p == <<Set(s, c), Ask(s)>>
           q == <<Await(s, c)>>
           r == <<Drop(s)>>
<1>1. getAccountNonce(s, c) = (p \o q) \o r
  BY DEF getAccountNonce, subscribeAccountNonce, unsubscribeAccountNonce
<1>2. Program(p, Set(s, c), M) /\ q \in Seq(M) /\ r \in Seq(M)
  BY DEF Program
<1> HIDE DEF p, q, r
<1> QED
  BY <1>1, <1>2, ProgramJoin

LEMMA SendIs ==
    ASSUME NEW s, NEW c, NEW M,
           {Set(Sender, c), Ask(Sender), Await(Sender, c), Drop(Sender), Set(s, c + 1), Send(s)} \subseteq M
    PROVE  Program(SendExtrinsic(s, c), Set(Sender, c), M)
<1>1. Program(getAccountNonce(Sender, c), Set(Sender, c), M)
  BY NonceIs
<1>2. <<Set(s, c + 1), Send(s)>> \in Seq(M)
  OBVIOUS
<1> QED
  BY <1>1, <1>2, ProgramJoin DEF SendExtrinsic

-----------------------------------------------------------------------------
(* A call brings its callbacks, and a program that uses them.              *)

Brings(u, p) ==
    /\ p \in Seq(Statements) /\ p # <<>> /\ todo' = [todo EXCEPT ![u] = p]
    /\ \A n \in DOMAIN p : TaskOK(p[n])' /\ WishOK(p[n])'
    /\ calls' \in Seq(Slot) /\ Len(calls') <= MaxCalls
    /\ \A n \in DOMAIN calls : n \in DOMAIN calls' /\ calls'[n] = calls[n]
    /\ wanted' \in [Slot -> 0 .. MaxCalls]
    /\ \A s \in Watched : \/ wanted'[s] = wanted[s]
                          \/ p[1].slot = s /\ p[1].op = IF wanted'[s] = None THEN "drop" ELSE "set"

LEMMA CallBrings ==
    ASSUME Types, NEW u \in User, NEW call, NEW s, <<call, s>> \in Methods, Call(u, call, s)
    PROVE  \E p : Brings(u, p)
<1>d. PICK c : c = Len(calls) + 1
  OBVIOUS
<1>0. /\ calls \in Seq(Slot) /\ c \in 1 .. MaxCalls /\ c + 1 \in 1 .. MaxCalls /\ s \in Slot
      /\ wanted \in [Slot -> 0 .. MaxCalls]
  BY <1>d, PolkaApiAssumption DEF Call, Types, HistoryTypes, Methods
<1>a. ASSUME NEW p, NEW m, NEW M, Program(p, m, M), \A st \in M : st \in Statements /\ TaskOK(st)' /\ WishOK(st)'
      PROVE  p \in Seq(Statements) /\ p # <<>> /\ p[1] = m /\ \A n \in DOMAIN p : TaskOK(p[n])' /\ WishOK(p[n])'
  <2>1. p \in Seq(M) /\ p # <<>> /\ p[1] = m
    BY <1>a DEF Program
  <2>2. p \in Seq(Statements)
    BY <2>1, <1>a
  <2>3. \A n \in DOMAIN p : p[n] \in M
    BY <2>1
  <2> QED
    BY <2>1, <2>2, <2>3, <1>a
<1>b. \A r \in Slot : \A k \in -1 .. MaxCalls :
        Set(r, k) \in Statements /\ Ask(r) \in Statements /\ Send(r) \in Statements /\ Await(r, k) \in Statements
            /\ Drop(r) \in Statements
  BY PolkaApiAssumption DEF Statements, Set, Ask, Send, Await, Drop, None
<1>c. /\ Block \notin Watched /\ Sender \notin Watched
      /\ \A r \in Watched : r[1] \notin Extrinsics /\ r[1] # "nonce"
      /\ \A r \in Slot : r[1] = "nonce" \/ r[1] \in Extrinsics => r \notin Watched
  BY SlotForms, SenderSlot DEF Watched, Extrinsics
<1>1. CASE call = "subscribe"
  <2> DEFINE M == IF s = Era THEN {Set(s, c), Ask(s), Set(Block, Lambda), Ask(Block)} ELSE {Set(s, c), Ask(s)}
  <2>1. todo' = [todo EXCEPT ![u] = Subscribe(s, c)] /\ calls' = Append(calls, s)
        /\ wanted' = [wanted EXCEPT ![s] = c] /\ s[1] \notin Extrinsics
    BY <1>d, <1>1 DEF Call, Methods
  <2>2. Program(Subscribe(s, c), Set(s, c), M)
    BY <1>0, <2>1, SubscribeIs
  <2>3. c \in DOMAIN calls' /\ calls'[c] = s /\ wanted'[s] = c
    BY <1>d, <1>0, <2>1
  <2>4. Block \in Slot /\ Block[1] \notin Extrinsics
    BY SlotForms DEF Extrinsics
  <2>5. \A st \in M : st \in Statements
    BY <1>0, <1>b, <2>4, PolkaApiAssumption DEF Lambda
  <2>6. /\ TaskOK(Set(s, c))' /\ TaskOK(Ask(s))' /\ TaskOK(Set(Block, Lambda))' /\ TaskOK(Ask(Block))'
    BY <2>1, <2>3, <2>4 DEF TaskOK, Set, Ask, BroughtFor
  <2>7. /\ WishOK(Set(s, c))' /\ WishOK(Ask(s))' /\ WishOK(Set(Block, Lambda))' /\ WishOK(Ask(Block))'
    BY <1>0, <2>3, <1>c DEF WishOK, Set, Ask, None
  <2>8. \A st \in M : st \in Statements /\ TaskOK(st)' /\ WishOK(st)'
    BY <2>5, <2>6, <2>7
  <2> HIDE DEF M
  <2>9. /\ Subscribe(s, c) \in Seq(Statements) /\ Subscribe(s, c) # <<>> /\ Subscribe(s, c)[1] = Set(s, c)
        /\ \A n \in DOMAIN Subscribe(s, c) : TaskOK(Subscribe(s, c)[n])' /\ WishOK(Subscribe(s, c)[n])'
    BY <2>2, <2>8, <1>a
  <2>10. /\ calls' \in Seq(Slot) /\ Len(calls') <= MaxCalls
         /\ \A n \in DOMAIN calls : n \in DOMAIN calls' /\ calls'[n] = calls[n]
    BY <1>d, <1>0, <2>1
  <2>11. wanted' \in [Slot -> 0 .. MaxCalls]
    BY <1>d, <1>0, <2>1
  <2>12. \A r \in Watched : \/ wanted'[r] = wanted[r]
                            \/ Set(s, c).slot = r /\ Set(s, c).op = IF wanted'[r] = None THEN "drop" ELSE "set"
    BY <1>0, <2>1, <2>3 DEF Watched, Set, None
  <2>13. PICK p : p = Subscribe(s, c)
    OBVIOUS
  <2>14. /\ p \in Seq(Statements) /\ p # <<>> /\ todo' = [todo EXCEPT ![u] = p] /\ p[1] = Set(s, c)
         /\ \A n \in DOMAIN p : TaskOK(p[n])' /\ WishOK(p[n])'
    BY <2>13, <2>1, <2>9
  <2>15. Brings(u, p)
    BY <2>14, <2>10, <2>11, <2>12 DEF Brings
  <2> QED
    BY <2>15
<1>2. CASE call = "unsubscribe"
  <2> DEFINE M == IF s = Era THEN {Drop(s), Drop(Block)} ELSE {Drop(s)}
  <2>1. todo' = [todo EXCEPT ![u] = Unsubscribe(s)] /\ calls' = calls
        /\ wanted' = [wanted EXCEPT ![s] = None] /\ s[1] \notin Extrinsics
    BY <1>d, <1>2 DEF Call, Methods
  <2>2. Program(Unsubscribe(s), Drop(s), M)
    BY <1>0, <2>1, UnsubscribeIs
  <2>3. wanted'[s] = None
    BY <1>d, <1>0, <2>1
  <2>4. Block \in Slot /\ Block[1] \notin Extrinsics
    BY SlotForms DEF Extrinsics
  <2>5. \A st \in M : st \in Statements
    BY <1>0, <1>b, <2>4
  <2>6. TaskOK(Drop(s))' /\ TaskOK(Drop(Block))'
    BY <2>1, <2>4 DEF TaskOK, Drop
  <2>7. WishOK(Drop(s))' /\ WishOK(Drop(Block))'
    BY <1>0, <2>3, <1>c DEF WishOK, Drop
  <2>8. \A st \in M : st \in Statements /\ TaskOK(st)' /\ WishOK(st)'
    BY <2>5, <2>6, <2>7
  <2> HIDE DEF M
  <2>9. /\ Unsubscribe(s) \in Seq(Statements) /\ Unsubscribe(s) # <<>> /\ Unsubscribe(s)[1] = Drop(s)
        /\ \A n \in DOMAIN Unsubscribe(s) : TaskOK(Unsubscribe(s)[n])' /\ WishOK(Unsubscribe(s)[n])'
    BY <2>2, <2>8, <1>a
  <2>10. Len(calls) <= MaxCalls
    BY DEF Types, HistoryTypes
  <2>11. wanted' \in [Slot -> 0 .. MaxCalls]
    BY <1>0, <2>1, PolkaApiAssumption DEF None
  <2>12. \A r \in Watched : \/ wanted'[r] = wanted[r]
                            \/ Drop(s).slot = r /\ Drop(s).op = IF wanted'[r] = None THEN "drop" ELSE "set"
    BY <1>0, <2>1, <2>3 DEF Watched, Drop
  <2> QED
    BY <1>0, <2>1, <2>9, <2>10, <2>11, <2>12 DEF Brings
<1>3. CASE call = "getAccountNonce"
  <2> DEFINE M == {Set(s, c), Ask(s), Await(s, c), Drop(s)}
  <2>1. todo' = [todo EXCEPT ![u] = getAccountNonce(s, c)] /\ calls' = Append(calls, s) /\ wanted' = wanted
        /\ s[1] = "nonce"
    BY <1>d, <1>3 DEF Call, Methods
  <2>2. Program(getAccountNonce(s, c), Set(s, c), M)
    BY NonceIs
  <2>3. c \in DOMAIN calls' /\ calls'[c] = s
    BY <1>d, <1>0, <2>1
  <2>5. \A st \in M : st \in Statements
    BY <1>0, <1>b
  <2>6. TaskOK(Set(s, c))' /\ TaskOK(Ask(s))' /\ TaskOK(Await(s, c))' /\ TaskOK(Drop(s))'
    BY <2>1, <2>3 DEF TaskOK, Set, Ask, Await, Drop, BroughtFor, Extrinsics
  <2>7. WishOK(Set(s, c))' /\ WishOK(Ask(s))' /\ WishOK(Await(s, c))' /\ WishOK(Drop(s))'
    BY <1>0, <2>1, <1>c DEF WishOK, Set, Ask, Await, Drop
  <2>8. \A st \in M : st \in Statements /\ TaskOK(st)' /\ WishOK(st)'
    BY <2>5, <2>6, <2>7
  <2> HIDE DEF M
  <2>9. /\ getAccountNonce(s, c) \in Seq(Statements) /\ getAccountNonce(s, c) # <<>>
        /\ \A n \in DOMAIN getAccountNonce(s, c) : TaskOK(getAccountNonce(s, c)[n])' /\ WishOK(getAccountNonce(s, c)[n])'
    BY <2>2, <2>8, <1>a
  <2>10. /\ calls' \in Seq(Slot) /\ Len(calls') <= MaxCalls
         /\ \A n \in DOMAIN calls : n \in DOMAIN calls' /\ calls'[n] = calls[n]
    BY <1>d, <1>0, <2>1
  <2> QED
    BY <1>0, <2>1, <2>9, <2>10 DEF Brings
<1>4. CASE call = "send"
  <2> DEFINE M == {Set(Sender, c), Ask(Sender), Await(Sender, c), Drop(Sender), Set(s, c + 1), Send(s)}
  <2>1. todo' = [todo EXCEPT ![u] = SendExtrinsic(s, c)] /\ calls' = calls \o <<Sender, s>> /\ wanted' = wanted
        /\ s[1] \in Extrinsics
    BY <1>d, <1>4 DEF Call, Methods
  <2>2. Program(SendExtrinsic(s, c), Set(Sender, c), M)
    BY SendIs
  <2>x. <<Sender, s>> \in Seq(Slot) /\ Len(<<Sender, s>>) = 2
    BY <1>0, SenderSlot
  <2>3. c \in DOMAIN calls' /\ calls'[c] = Sender /\ c + 1 \in DOMAIN calls' /\ calls'[c + 1] = s
    BY <1>d, <1>0, <2>1, <2>x
  <2>5. \A st \in M : st \in Statements
    BY <1>0, <1>b, SenderSlot
  <2>6. TaskOK(Set(Sender, c))' /\ TaskOK(Ask(Sender))' /\ TaskOK(Await(Sender, c))' /\ TaskOK(Drop(Sender))'
        /\ TaskOK(Set(s, c + 1))' /\ TaskOK(Send(s))'
    BY <2>1, <2>3, SenderSlot DEF TaskOK, Set, Ask, Await, Drop, Send, BroughtFor, Extrinsics
  <2>7. WishOK(Set(Sender, c))' /\ WishOK(Ask(Sender))' /\ WishOK(Await(Sender, c))' /\ WishOK(Drop(Sender))'
        /\ WishOK(Set(s, c + 1))' /\ WishOK(Send(s))'
    BY <1>0, <2>1, <1>c DEF WishOK, Set, Ask, Await, Drop, Send
  <2>8. \A st \in M : st \in Statements /\ TaskOK(st)' /\ WishOK(st)'
    BY <2>5, <2>6, <2>7
  <2> HIDE DEF M
  <2>9. /\ SendExtrinsic(s, c) \in Seq(Statements) /\ SendExtrinsic(s, c) # <<>>
        /\ \A n \in DOMAIN SendExtrinsic(s, c) : TaskOK(SendExtrinsic(s, c)[n])' /\ WishOK(SendExtrinsic(s, c)[n])'
    BY <2>2, <2>8, <1>a
  <2>10. /\ calls' \in Seq(Slot) /\ Len(calls') <= MaxCalls
         /\ \A n \in DOMAIN calls : n \in DOMAIN calls' /\ calls'[n] = calls[n]
    BY <1>d, <1>0, <2>1, <2>x
  <2> QED
    BY <1>0, <2>1, <2>9, <2>10 DEF Brings
<1> QED
  BY <1>1, <1>2, <1>3, <1>4 DEF Call

-----------------------------------------------------------------------------
(* Steps.                                                                  *)

\* A thread that executes a statement has it before it.
LEMMA Facing ==
    ASSUME RInv, NEW u \in User,
           todo[u] # <<>> \/ answer[u] # <<>> \/ clearing[u] # 0
    PROVE  /\ todo[u] \in Seq(Statements) /\ todo[u] # <<>> /\ 1 \in DOMAIN todo[u]
           /\ Next1(u) = todo[u][1] /\ Next1(u) \in Statements /\ TaskOK(Next1(u))
           /\ Next1(u).slot \in Slot /\ Next1(u).cb \in -1 .. MaxCalls
           /\ Tail(todo[u]) \in Seq(Statements)
           /\ \A n \in DOMAIN Tail(todo[u]) : n + 1 \in DOMAIN todo[u] /\ Tail(todo[u])[n] = todo[u][n + 1]
<1>1. todo[u] \in Seq(Statements) /\ todo[u] # <<>>
  BY DEF RInv, Types, ThreadTypes, Pending
<1>2. /\ Tail(todo[u]) \in Seq(Statements) /\ 1 \in DOMAIN todo[u] /\ todo[u][1] \in Statements
      /\ \A n \in DOMAIN Tail(todo[u]) : n + 1 \in DOMAIN todo[u] /\ Tail(todo[u])[n] = todo[u][n + 1]
  BY <1>1, TailOf
<1>3. TaskOK(todo[u][1])
  BY <1>2 DEF RInv, Tasks
<1>4. todo[u][1].slot \in Slot /\ todo[u][1].cb \in -1 .. MaxCalls
  BY <1>2 DEF Statements
<1> QED
  BY <1>1, <1>2, <1>3, <1>4 DEF Next1

LEMMA CallOf ==
    ASSUME RInv, NEW u \in User, NEW c \in Calls, Call(u, c[1], c[2])
    PROVE  \E p : Brings(u, p)
<1>1. c \in Methods /\ c = <<c[1], c[2]>>
  BY PolkaApiAssumption DEF Methods
<1> QED
  BY <1>1, CallBrings DEF RInv

LEMMA NextSlotTypes == RInv /\ [Next]_vars => SlotTypes'
<1> SUFFICES ASSUME RInv, [Next]_vars PROVE SlotTypes'
  OBVIOUS
<1>0. SlotTypes
  BY DEF RInv, Types
<1>1. ASSUME NEW u \in User, SetCallback(u) PROVE SlotTypes'
  <2>1. Next1(u).cb \in -1 .. MaxCalls
    BY <1>1, Facing DEF SetCallback, At
  <2> QED
    BY <1>0, <2>1, <1>1 DEF SetCallback, SlotTypes
<1>2. ASSUME NEW u \in User, AlreadySubscribed(u) PROVE SlotTypes'
  BY <1>0, <1>2 DEF AlreadySubscribed, slots, threads, node, consumer, history, SlotTypes
<1>3. ASSUME NEW u \in User, subscribeWs(u) PROVE SlotTypes'
  BY <1>0, <1>3 DEF subscribeWs, slots, threads, node, consumer, history, SlotTypes
<1>4. ASSUME NEW u \in User, subscribeTimesOut(u) PROVE SlotTypes'
  BY <1>0, <1>4 DEF subscribeTimesOut, slots, threads, node, consumer, history, SlotTypes
<1>5. ASSUME NEW u \in User, Store(u) PROVE SlotTypes'
  <2>a. answer[u] \in Seq(0 .. MaxSubs) /\ answer[u] # <<>>
    BY <1>5 DEF Store, RInv, Types, ThreadTypes
  <2>1. answer[u][1] \in 0 .. MaxSubs
    BY <2>a, TailOf
  <2> QED
    BY <1>0, <2>1, <1>5 DEF Store, SlotTypes
<1>6. ASSUME NEW u \in User, NonceArrived(u) PROVE SlotTypes'
  BY <1>0, <1>6 DEF NonceArrived, slots, threads, node, consumer, history, SlotTypes
<1>7. ASSUME NEW u \in User, NotSubscribed(u) PROVE SlotTypes'
  BY <1>0, <1>7 DEF NotSubscribed, slots, threads, node, consumer, history, SlotTypes
<1>8. ASSUME NEW u \in User, unsubscribeWs(u) PROVE SlotTypes'
  BY <1>0, <1>8 DEF unsubscribeWs, slots, threads, node, consumer, history, SlotTypes
<1>9. ASSUME NEW u \in User, ForgetCallback(u) PROVE SlotTypes'
  <2>1. None \in -1 .. MaxCalls
    BY PolkaApiAssumption DEF None
  <2> QED
    BY <1>0, <2>1, <1>9 DEF ForgetCallback, SlotTypes
<1>10. ASSUME NEW u \in User, ForgetId(u) PROVE SlotTypes'
  BY <1>0, <1>10, PolkaApiAssumption DEF ForgetId, SlotTypes, NoId
<1>11. ASSUME NEW u \in User, NEW c \in Calls, Call(u, c[1], c[2]) PROVE SlotTypes'
  BY <1>0, <1>11 DEF Call, slots, threads, node, consumer, history, SlotTypes
<1>12. ASSUME NEW i \in 1 .. MaxSubs, NodeUpdates(i) PROVE SlotTypes'
  BY <1>0, <1>12 DEF NodeUpdates, slots, threads, node, consumer, history, SlotTypes
<1>13. ASSUME NEW i \in 1 .. MaxSubs, Match(i) PROVE SlotTypes'
  BY <1>0, <1>13 DEF Match, slots, threads, node, consumer, history, SlotTypes
<1>14. ASSUME NEW i \in 1 .. MaxSubs, Invoke(i) PROVE SlotTypes'
  <2>1. best' \in BOOLEAN
    BY <1>0, <1>14 DEF Invoke, SlotTypes
  <2> QED
    BY <1>0, <2>1, <1>14 DEF Invoke, SlotTypes
<1>15. ASSUME NEW i \in 1 .. MaxSubs, Reset(i) PROVE SlotTypes'
  <2>1. None \in -1 .. MaxCalls /\ 0 \in 0 .. MaxSubs
    BY PolkaApiAssumption DEF None
  <2>2. sub' \in [Slot -> -1 .. MaxCalls]
    BY <1>0, <2>1, <1>15 DEF Reset, SlotTypes
  <2>3. id' \in [Slot -> Leftover \cup {Absent} \cup 0 .. MaxSubs]
    BY <1>0, <2>1, <1>15 DEF Reset, SlotTypes
  <2> QED
    BY <1>0, <2>2, <2>3, <1>15 DEF Reset, SlotTypes
<1>16. CASE UNCHANGED vars
  BY <1>0, <1>16 DEF vars, slots, threads, node, consumer, history, SlotTypes
<1> QED
  BY <1>1, <1>2, <1>3, <1>4, <1>5, <1>6, <1>7, <1>8, <1>9, <1>10,
     <1>11, <1>12, <1>13, <1>14, <1>15, <1>16 DEF Next, Step, Consume

LEMMA NextThreadTypes == RInv /\ [Next]_vars => ThreadTypes'
<1> SUFFICES ASSUME RInv, [Next]_vars PROVE ThreadTypes'
  OBVIOUS
<1>0. ThreadTypes
  BY DEF RInv, Types
<1>1. ASSUME NEW u \in User, SetCallback(u) PROVE ThreadTypes'
  <2>1. Tail(todo[u]) \in Seq(Statements)
    BY <1>1, Facing DEF SetCallback, At
  <2>2. todo' \in [User -> Seq(Statements)]
    BY <1>0, <2>1, <1>1 DEF SetCallback, Done, ThreadTypes
  <2> QED
    BY <1>0, <2>2, <1>1 DEF SetCallback, ThreadTypes, slots, threads, node, consumer, history
<1>2. ASSUME NEW u \in User, AlreadySubscribed(u) PROVE ThreadTypes'
  <2>1. Tail(todo[u]) \in Seq(Statements)
    BY <1>2, Facing DEF AlreadySubscribed, At
  <2>2. todo' \in [User -> Seq(Statements)]
    BY <1>0, <2>1, <1>2 DEF AlreadySubscribed, Done, ThreadTypes
  <2> QED
    BY <1>0, <2>2, <1>2 DEF AlreadySubscribed, ThreadTypes, slots, threads, node, consumer, history
<1>3. ASSUME NEW u \in User, subscribeWs(u) PROVE ThreadTypes'
  <2>1. <<Len(topic) + 1>> \in Seq(0 .. MaxSubs) /\ Len(<<Len(topic) + 1>>) = 1
    BY <1>3, PolkaApiAssumption DEF subscribeWs, RInv, Types, NodeTypes
  <2>2. answer' \in [User -> Seq(0 .. MaxSubs)] /\ \A v \in User : Len(answer'[v]) <= 1
    BY <1>0, <2>1, <1>3 DEF subscribeWs, ThreadTypes
  <2> QED
    BY <1>0, <2>2, <1>3 DEF subscribeWs, ThreadTypes
<1>4. ASSUME NEW u \in User, subscribeTimesOut(u) PROVE ThreadTypes'
  <2>1. <<0>> \in Seq(0 .. MaxSubs) /\ Len(<<0>>) = 1
    BY PolkaApiAssumption
  <2>2. answer' \in [User -> Seq(0 .. MaxSubs)] /\ \A v \in User : Len(answer'[v]) <= 1
    BY <1>0, <2>1, <1>4 DEF subscribeTimesOut, ThreadTypes
  <2> QED
    BY <1>0, <2>2, <1>4 DEF subscribeTimesOut, ThreadTypes
<1>5. ASSUME NEW u \in User, Store(u) PROVE ThreadTypes'
  <2>1. Tail(todo[u]) \in Seq(Statements)
    BY <1>5, Facing DEF Store
  <2>2. todo' \in [User -> Seq(Statements)]
    BY <1>0, <2>1, <1>5 DEF Store, Done, ThreadTypes
  <2>3. answer' \in [User -> Seq(0 .. MaxSubs)] /\ \A v \in User : Len(answer'[v]) <= 1
    BY <1>0, <1>5 DEF Store, ThreadTypes
  <2> QED
    BY <1>0, <2>2, <2>3, <1>5 DEF Store, ThreadTypes
<1>6. ASSUME NEW u \in User, NonceArrived(u) PROVE ThreadTypes'
  <2>1. Tail(todo[u]) \in Seq(Statements)
    BY <1>6, Facing DEF NonceArrived, At
  <2>2. todo' \in [User -> Seq(Statements)]
    BY <1>0, <2>1, <1>6 DEF NonceArrived, Done, ThreadTypes
  <2> QED
    BY <1>0, <2>2, <1>6 DEF NonceArrived, ThreadTypes, slots, threads, node, consumer, history
<1>7. ASSUME NEW u \in User, NotSubscribed(u) PROVE ThreadTypes'
  <2>1. Tail(todo[u]) \in Seq(Statements)
    BY <1>7, Facing DEF NotSubscribed, At
  <2>2. todo' \in [User -> Seq(Statements)]
    BY <1>0, <2>1, <1>7 DEF NotSubscribed, Done, ThreadTypes
  <2> QED
    BY <1>0, <2>2, <1>7 DEF NotSubscribed, ThreadTypes, slots, threads, node, consumer, history
<1>8. ASSUME NEW u \in User, unsubscribeWs(u) PROVE ThreadTypes'
  <2>1. clearing' \in [User -> 0 .. 2]
    BY <1>0, <1>8 DEF unsubscribeWs, ThreadTypes
  <2> QED
    BY <1>0, <2>1, <1>8 DEF unsubscribeWs, ThreadTypes, threads
<1>9. ASSUME NEW u \in User, ForgetCallback(u) PROVE ThreadTypes'
  <2>1. clearing' \in [User -> 0 .. 2]
    BY <1>0, <1>9 DEF ForgetCallback, ThreadTypes
  <2> QED
    BY <1>0, <2>1, <1>9 DEF ForgetCallback, ThreadTypes, threads
<1>10. ASSUME NEW u \in User, ForgetId(u) PROVE ThreadTypes'
  <2>1. Tail(todo[u]) \in Seq(Statements)
    BY <1>10, Facing DEF ForgetId
  <2>2. todo' \in [User -> Seq(Statements)]
    BY <1>0, <2>1, <1>10 DEF ForgetId, Done, ThreadTypes
  <2>3. clearing' \in [User -> 0 .. 2]
    BY <1>0, <1>10 DEF ForgetId, ThreadTypes
  <2> QED
    BY <1>0, <2>2, <2>3, <1>10 DEF ForgetId, ThreadTypes
<1>11. ASSUME NEW u \in User, NEW c \in Calls, Call(u, c[1], c[2]) PROVE ThreadTypes'
  <2>1. PICK p : Brings(u, p)
    BY <1>11, CallOf
  <2>2. todo' \in [User -> Seq(Statements)]
    BY <1>0, <2>1 DEF Brings, ThreadTypes
  <2> QED
    BY <1>0, <2>2, <1>11 DEF Call, ThreadTypes
<1>12. ASSUME NEW i \in 1 .. MaxSubs, NodeUpdates(i) PROVE ThreadTypes'
  BY <1>0, <1>12 DEF NodeUpdates, slots, threads, node, consumer, history, ThreadTypes
<1>13. ASSUME NEW i \in 1 .. MaxSubs, Match(i) PROVE ThreadTypes'
  BY <1>0, <1>13 DEF Match, slots, threads, node, consumer, history, ThreadTypes
<1>14. ASSUME NEW i \in 1 .. MaxSubs, Invoke(i) PROVE ThreadTypes'
  BY <1>0, <1>14 DEF Invoke, slots, threads, node, consumer, history, ThreadTypes
<1>15. ASSUME NEW i \in 1 .. MaxSubs, Reset(i) PROVE ThreadTypes'
  BY <1>0, <1>15 DEF Reset, slots, threads, node, consumer, history, ThreadTypes
<1>16. CASE UNCHANGED vars
  BY <1>0, <1>16 DEF vars, slots, threads, node, consumer, history, ThreadTypes
<1> QED
  BY <1>1, <1>2, <1>3, <1>4, <1>5, <1>6, <1>7, <1>8, <1>9, <1>10,
     <1>11, <1>12, <1>13, <1>14, <1>15, <1>16 DEF Next, Step, Consume

LEMMA NextNodeTypes == RInv /\ [Next]_vars => NodeTypes'
<1> SUFFICES ASSUME RInv, [Next]_vars PROVE NodeTypes'
  OBVIOUS
<1>0. NodeTypes
  BY DEF RInv, Types
<1>1. ASSUME NEW u \in User, SetCallback(u) PROVE NodeTypes'
  BY <1>0, <1>1 DEF SetCallback, slots, threads, node, consumer, history, NodeTypes
<1>2. ASSUME NEW u \in User, AlreadySubscribed(u) PROVE NodeTypes'
  BY <1>0, <1>2 DEF AlreadySubscribed, slots, threads, node, consumer, history, NodeTypes
<1>3. ASSUME NEW u \in User, subscribeWs(u) PROVE NodeTypes'
  <2>1. Next1(u).slot \in Slot
    BY <1>3, Facing DEF subscribeWs, MustAsk, At
  <2>2. topic' \in Seq(Slot) /\ Len(topic') = Len(topic) + 1 /\ Len(topic') <= MaxSubs
    BY <1>0, <2>1, <1>3, PolkaApiAssumption DEF subscribeWs, NodeTypes
  <2>3. active' \subseteq DOMAIN topic'
    BY <1>0, <2>2, <1>3 DEF subscribeWs, NodeTypes
  <2> QED
    BY <1>0, <2>2, <2>3, <1>3 DEF subscribeWs, NodeTypes
<1>4. ASSUME NEW u \in User, subscribeTimesOut(u) PROVE NodeTypes'
  BY <1>0, <1>4 DEF subscribeTimesOut, slots, threads, node, consumer, history, NodeTypes
<1>5. ASSUME NEW u \in User, Store(u) PROVE NodeTypes'
  BY <1>0, <1>5 DEF Store, slots, threads, node, consumer, history, NodeTypes
<1>6. ASSUME NEW u \in User, NonceArrived(u) PROVE NodeTypes'
  BY <1>0, <1>6 DEF NonceArrived, slots, threads, node, consumer, history, NodeTypes
<1>7. ASSUME NEW u \in User, NotSubscribed(u) PROVE NodeTypes'
  BY <1>0, <1>7 DEF NotSubscribed, slots, threads, node, consumer, history, NodeTypes
<1>8. ASSUME NEW u \in User, unsubscribeWs(u) PROVE NodeTypes'
  BY <1>0, <1>8 DEF unsubscribeWs, slots, threads, node, consumer, history, NodeTypes
<1>9. ASSUME NEW u \in User, ForgetCallback(u) PROVE NodeTypes'
  BY <1>0, <1>9 DEF ForgetCallback, slots, threads, node, consumer, history, NodeTypes
<1>10. ASSUME NEW u \in User, ForgetId(u) PROVE NodeTypes'
  BY <1>0, <1>10 DEF ForgetId, slots, threads, node, consumer, history, NodeTypes
<1>11. ASSUME NEW u \in User, NEW c \in Calls, Call(u, c[1], c[2]) PROVE NodeTypes'
  BY <1>0, <1>11 DEF Call, slots, threads, node, consumer, history, NodeTypes
<1>12. ASSUME NEW i \in 1 .. MaxSubs, NodeUpdates(i) PROVE NodeTypes'
  <2>1. sent' \in [1 .. MaxSubs -> 0 .. MaxUpdates]
    BY <1>0, <1>12, PolkaApiAssumption DEF NodeUpdates, NodeTypes
  <2>2. active' \subseteq active
    BY <1>12 DEF NodeUpdates
  <2> QED
    BY <1>0, <2>1, <2>2, <1>12 DEF NodeUpdates, NodeTypes
<1>13. ASSUME NEW i \in 1 .. MaxSubs, Match(i) PROVE NodeTypes'
  BY <1>0, <1>13 DEF Match, slots, threads, node, consumer, history, NodeTypes
<1>14. ASSUME NEW i \in 1 .. MaxSubs, Invoke(i) PROVE NodeTypes'
  BY <1>0, <1>14 DEF Invoke, slots, threads, node, consumer, history, NodeTypes
<1>15. ASSUME NEW i \in 1 .. MaxSubs, Reset(i) PROVE NodeTypes'
  BY <1>0, <1>15 DEF Reset, slots, threads, node, consumer, history, NodeTypes
<1>16. CASE UNCHANGED vars
  BY <1>0, <1>16 DEF vars, slots, threads, node, consumer, history, NodeTypes
<1> QED
  BY <1>1, <1>2, <1>3, <1>4, <1>5, <1>6, <1>7, <1>8, <1>9, <1>10,
     <1>11, <1>12, <1>13, <1>14, <1>15, <1>16 DEF Next, Step, Consume

LEMMA NextConsumerTypes == RInv /\ [Next]_vars => ConsumerTypes'
<1> SUFFICES ASSUME RInv, [Next]_vars PROVE ConsumerTypes'
  OBVIOUS
<1>0. ConsumerTypes
  BY DEF RInv, Types
<1>1. ASSUME NEW u \in User, SetCallback(u) PROVE ConsumerTypes'
  BY <1>0, <1>1 DEF SetCallback, slots, threads, node, consumer, history, ConsumerTypes
<1>2. ASSUME NEW u \in User, AlreadySubscribed(u) PROVE ConsumerTypes'
  BY <1>0, <1>2 DEF AlreadySubscribed, slots, threads, node, consumer, history, ConsumerTypes
<1>3. ASSUME NEW u \in User, subscribeWs(u) PROVE ConsumerTypes'
  BY <1>0, <1>3 DEF subscribeWs, slots, threads, node, consumer, history, ConsumerTypes
<1>4. ASSUME NEW u \in User, subscribeTimesOut(u) PROVE ConsumerTypes'
  BY <1>0, <1>4 DEF subscribeTimesOut, slots, threads, node, consumer, history, ConsumerTypes
<1>5. ASSUME NEW u \in User, Store(u) PROVE ConsumerTypes'
  BY <1>0, <1>5 DEF Store, slots, threads, node, consumer, history, ConsumerTypes
<1>6. ASSUME NEW u \in User, NonceArrived(u) PROVE ConsumerTypes'
  BY <1>0, <1>6 DEF NonceArrived, slots, threads, node, consumer, history, ConsumerTypes
<1>7. ASSUME NEW u \in User, NotSubscribed(u) PROVE ConsumerTypes'
  BY <1>0, <1>7 DEF NotSubscribed, slots, threads, node, consumer, history, ConsumerTypes
<1>8. ASSUME NEW u \in User, unsubscribeWs(u) PROVE ConsumerTypes'
  <2>1. sent \in [1 .. MaxSubs -> 0 .. MaxUpdates]
    BY DEF RInv, Types, NodeTypes
  <2>2. PICK j : taken' = [k \in DOMAIN taken |-> IF k = j THEN sent[k] ELSE taken[k]]
    BY <1>8 DEF unsubscribeWs
  <2>3. taken' \in [1 .. MaxSubs -> 0 .. MaxUpdates] /\ \A k \in 1 .. MaxSubs : taken'[k] <= sent[k]
    BY <1>0, <2>1, <2>2 DEF ConsumerTypes
  <2> QED
    BY <1>0, <2>3, <1>8 DEF unsubscribeWs, ConsumerTypes
<1>9. ASSUME NEW u \in User, ForgetCallback(u) PROVE ConsumerTypes'
  BY <1>0, <1>9 DEF ForgetCallback, slots, threads, node, consumer, history, ConsumerTypes
<1>10. ASSUME NEW u \in User, ForgetId(u) PROVE ConsumerTypes'
  BY <1>0, <1>10 DEF ForgetId, slots, threads, node, consumer, history, ConsumerTypes
<1>11. ASSUME NEW u \in User, NEW c \in Calls, Call(u, c[1], c[2]) PROVE ConsumerTypes'
  BY <1>0, <1>11 DEF Call, slots, threads, node, consumer, history, ConsumerTypes
<1>12. ASSUME NEW i \in 1 .. MaxSubs, NodeUpdates(i) PROVE ConsumerTypes'
  <2>1. sent \in [1 .. MaxSubs -> 0 .. MaxUpdates] /\ taken \in [1 .. MaxSubs -> 0 .. MaxUpdates]
    BY <1>0 DEF RInv, Types, NodeTypes, ConsumerTypes
  <2>2. \A k \in 1 .. MaxSubs : sent[k] <= sent'[k]
    BY <2>1, <1>12, PolkaApiAssumption DEF NodeUpdates
  <2>3. \A k \in 1 .. MaxSubs : sent'[k] \in Int
    BY <2>1, <1>12, PolkaApiAssumption DEF NodeUpdates
  <2>4. \A k \in 1 .. MaxSubs : taken[k] <= sent'[k]
    BY <1>0, <2>1, <2>2, <2>3, PolkaApiAssumption DEF ConsumerTypes
  <2> QED
    BY <1>0, <2>4, <1>12 DEF NodeUpdates, ConsumerTypes, consumer
<1>13. ASSUME NEW i \in 1 .. MaxSubs, Match(i) PROVE ConsumerTypes'
  <2>1. sent \in [1 .. MaxSubs -> 0 .. MaxUpdates] /\ taken \in [1 .. MaxSubs -> 0 .. MaxUpdates]
    BY <1>0 DEF RInv, Types, NodeTypes, ConsumerTypes
  <2>a. taken[i] \in Nat /\ sent[i] \in Nat /\ taken[i] + 1 <= sent[i] /\ taken[i] + 1 \in 0 .. MaxUpdates
    BY <2>1, <1>13, PolkaApiAssumption DEF Match
  <2>b. taken' = [taken EXCEPT ![i] = taken[i] + 1]
    BY <1>13 DEF Match
  <2>2. taken' \in [1 .. MaxSubs -> 0 .. MaxUpdates] /\ \A k \in 1 .. MaxSubs : taken'[k] <= sent[k]
    BY <1>0, <2>1, <2>a, <2>b DEF ConsumerTypes
  <2>3. \A s \in FirstMatching(i) : <<s>> \in Seq(Slot) /\ Len(<<s>>) = 1
    BY DEF FirstMatching, Matching
  <2>c. \/ calling' = calling
        \/ \E s \in FirstMatching(i) : calling' = [calling EXCEPT ![i] = <<s>>]
    BY <1>13 DEF Match
  <2>4. calling' \in [1 .. MaxSubs -> Seq(Slot)] /\ \A k \in 1 .. MaxSubs : Len(calling'[k]) <= 1
    <3> DEFINE S == 1 .. MaxSubs
               Q == Seq(Slot)
    <3>1. calling \in [S -> Q] /\ i \in S /\ \A k \in S : Len(calling[k]) <= 1
      BY <1>0 DEF ConsumerTypes
    <3>2. PICK w \in Q : Len(w) <= 1 /\ (calling' = calling \/ calling' = [calling EXCEPT ![i] = w])
      <4>1. CASE calling' = calling
        <5>1. <<>> \in Q /\ Len(<<>>) <= 1
          OBVIOUS
        <5> QED
          BY <4>1, <5>1
      <4>2. ASSUME NEW s \in FirstMatching(i), calling' = [calling EXCEPT ![i] = <<s>>]
            PROVE  \E w \in Q : Len(w) <= 1 /\ (calling' = calling \/ calling' = [calling EXCEPT ![i] = w])
        <5>1. <<s>> \in Q /\ Len(<<s>>) <= 1
          BY <2>3
        <5> QED
          BY <4>2, <5>1
      <4> QED
        BY <2>c, <4>1, <4>2
    <3> HIDE DEF S, Q
    <3>3. calling' \in [S -> Q] /\ \A k \in S : calling'[k] = calling[k] \/ calling'[k] = w
      BY <3>1, <3>2
    <3>4. \A k \in S : Len(calling'[k]) <= 1
      BY <3>1, <3>2, <3>3
    <3> QED
      BY <3>3, <3>4 DEF S, Q
  <2> QED
    BY <1>0, <2>2, <2>4, <1>13 DEF Match, ConsumerTypes, node
<1>14. ASSUME NEW i \in 1 .. MaxSubs, Invoke(i) PROVE ConsumerTypes'
  <2>a. calling' = calling \/ calling' = [calling EXCEPT ![i] = <<>>]
    BY <1>14 DEF Invoke
  <2>b. <<>> \in Seq(Slot) /\ Len(<<>>) = 0
    OBVIOUS
  <2>1. calling' \in [1 .. MaxSubs -> Seq(Slot)] /\ \A k \in 1 .. MaxSubs : Len(calling'[k]) <= 1
    <3> DEFINE S == 1 .. MaxSubs
               Q == Seq(Slot)
    <3>1. calling \in [S -> Q] /\ i \in S /\ \A k \in S : Len(calling[k]) <= 1
      BY <1>0 DEF ConsumerTypes
    <3>2. PICK w \in Q : Len(w) <= 1 /\ (calling' = calling \/ calling' = [calling EXCEPT ![i] = w])
      <4>1. <<>> \in Q /\ Len(<<>>) <= 1
        OBVIOUS
      <4> QED
        BY <2>a, <4>1
    <3> HIDE DEF S, Q
    <3>3. calling' \in [S -> Q] /\ \A k \in S : calling'[k] = calling[k] \/ calling'[k] = w
      BY <3>1, <3>2
    <3>4. \A k \in S : Len(calling'[k]) <= 1
      BY <3>1, <3>2, <3>3
    <3> QED
      BY <3>3, <3>4 DEF S, Q
  <2>2. resetting' \in [1 .. MaxSubs -> BOOLEAN]
    BY <1>0, <1>14 DEF Invoke, ConsumerTypes
  <2> QED
    BY <1>0, <2>1, <2>2, <1>14 DEF Invoke, ConsumerTypes, node
<1>15. ASSUME NEW i \in 1 .. MaxSubs, Reset(i) PROVE ConsumerTypes'
  <2>1. calling' \in [1 .. MaxSubs -> Seq(Slot)] /\ \A k \in 1 .. MaxSubs : Len(calling'[k]) <= 1
    BY <1>0, <1>15 DEF Reset, ConsumerTypes
  <2>2. resetting' \in [1 .. MaxSubs -> BOOLEAN]
    BY <1>0, <1>15 DEF Reset, ConsumerTypes
  <2> QED
    BY <1>0, <2>1, <2>2, <1>15 DEF Reset, ConsumerTypes, node
<1>16. CASE UNCHANGED vars
  BY <1>0, <1>16 DEF vars, slots, threads, node, consumer, history, ConsumerTypes
<1> QED
  BY <1>1, <1>2, <1>3, <1>4, <1>5, <1>6, <1>7, <1>8, <1>9, <1>10,
     <1>11, <1>12, <1>13, <1>14, <1>15, <1>16 DEF Next, Step, Consume

LEMMA NextHistoryTypes == RInv /\ [Next]_vars => HistoryTypes'
<1> SUFFICES ASSUME RInv, [Next]_vars PROVE HistoryTypes'
  OBVIOUS
<1>0. HistoryTypes
  BY DEF RInv, Types
<1>1. ASSUME NEW u \in User, SetCallback(u) PROVE HistoryTypes'
  BY <1>0, <1>1 DEF SetCallback, slots, threads, node, consumer, history, HistoryTypes
<1>2. ASSUME NEW u \in User, AlreadySubscribed(u) PROVE HistoryTypes'
  BY <1>0, <1>2 DEF AlreadySubscribed, slots, threads, node, consumer, history, HistoryTypes
<1>3. ASSUME NEW u \in User, subscribeWs(u) PROVE HistoryTypes'
  BY <1>0, <1>3 DEF subscribeWs, slots, threads, node, consumer, history, HistoryTypes
<1>4. ASSUME NEW u \in User, subscribeTimesOut(u) PROVE HistoryTypes'
  BY <1>0, <1>4 DEF subscribeTimesOut, slots, threads, node, consumer, history, HistoryTypes
<1>5. ASSUME NEW u \in User, Store(u) PROVE HistoryTypes'
  BY <1>0, <1>5 DEF Store, slots, threads, node, consumer, history, HistoryTypes
<1>6. ASSUME NEW u \in User, NonceArrived(u) PROVE HistoryTypes'
  BY <1>0, <1>6 DEF NonceArrived, slots, threads, node, consumer, history, HistoryTypes
<1>7. ASSUME NEW u \in User, NotSubscribed(u) PROVE HistoryTypes'
  BY <1>0, <1>7 DEF NotSubscribed, slots, threads, node, consumer, history, HistoryTypes
<1>8. ASSUME NEW u \in User, unsubscribeWs(u) PROVE HistoryTypes'
  BY <1>0, <1>8 DEF unsubscribeWs, slots, threads, node, consumer, history, HistoryTypes
<1>9. ASSUME NEW u \in User, ForgetCallback(u) PROVE HistoryTypes'
  BY <1>0, <1>9 DEF ForgetCallback, slots, threads, node, consumer, history, HistoryTypes
<1>10. ASSUME NEW u \in User, ForgetId(u) PROVE HistoryTypes'
  BY <1>0, <1>10 DEF ForgetId, slots, threads, node, consumer, history, HistoryTypes
<1>11. ASSUME NEW u \in User, NEW c \in Calls, Call(u, c[1], c[2]) PROVE HistoryTypes'
  <2>1. PICK p : Brings(u, p)
    BY <1>11, CallOf
  <2> QED
    BY <1>0, <2>1, <1>11 DEF Brings, Call, HistoryTypes
<1>12. ASSUME NEW i \in 1 .. MaxSubs, NodeUpdates(i) PROVE HistoryTypes'
  BY <1>0, <1>12 DEF NodeUpdates, slots, threads, node, consumer, history, HistoryTypes
<1>13. ASSUME NEW i \in 1 .. MaxSubs, Match(i) PROVE HistoryTypes'
  BY <1>0, <1>13 DEF Match, slots, threads, node, consumer, history, HistoryTypes
<1>14. ASSUME NEW i \in 1 .. MaxSubs, Invoke(i) PROVE HistoryTypes'
  <2>1. /\ sub \in [Slot -> -1 .. MaxCalls] /\ taken \in [1 .. MaxSubs -> 0 .. MaxUpdates]
        /\ calling[i] \in Seq(Slot) /\ calling[i] # <<>>
    BY <1>14 DEF Invoke, RInv, Types, SlotTypes, ConsumerTypes
  <2>2. sub[calling[i][1]] \in -1 .. MaxCalls /\ taken[i] \in Nat
    BY <2>1, PolkaApiAssumption
  <2>3. [cb |-> sub[calling[i][1]], id |-> i, update |-> taken[i]] \in Reports
    BY <2>2 DEF Reports
  <2>a. PICK m \in Reports : heard' = heard \/ heard' = Append(heard, m)
    BY <2>3, <1>14 DEF Invoke
  <2>4. heard' \in Seq(Reports)
    BY <1>0, <2>a DEF HistoryTypes
  <2> QED
    BY <1>0, <2>4, <1>14 DEF Invoke, HistoryTypes
<1>15. ASSUME NEW i \in 1 .. MaxSubs, Reset(i) PROVE HistoryTypes'
  BY <1>0, <1>15 DEF Reset, slots, threads, node, consumer, history, HistoryTypes
<1>16. CASE UNCHANGED vars
  BY <1>0, <1>16 DEF vars, slots, threads, node, consumer, history, HistoryTypes
<1> QED
  BY <1>1, <1>2, <1>3, <1>4, <1>5, <1>6, <1>7, <1>8, <1>9, <1>10,
     <1>11, <1>12, <1>13, <1>14, <1>15, <1>16 DEF Next, Step, Consume

LEMMA BroughtStays ==
    ASSUME \A n \in DOMAIN calls : n \in DOMAIN calls' /\ calls'[n] = calls[n]
    PROVE  \A c, s : BroughtFor(c, s) => BroughtFor(c, s)'
BY DEF BroughtFor

LEMMA TopicStays ==
    ASSUME RInv, NEW u \in User, subscribeWs(u)
    PROVE  /\ Next1(u).slot \in Slot /\ Len(topic) \in Nat /\ Len(topic) + 1 \in 1 .. MaxSubs
           /\ DOMAIN topic' = 1 .. (Len(topic) + 1) /\ topic'[Len(topic) + 1] = Next1(u).slot
           /\ DOMAIN topic = 1 .. Len(topic)
           /\ \A n \in DOMAIN topic : n \in DOMAIN topic' /\ topic'[n] = topic[n]
<1>1. topic \in Seq(Slot) /\ Len(topic) < MaxSubs /\ topic' = Append(topic, Next1(u).slot)
  BY DEF RInv, Types, NodeTypes, subscribeWs
<1>2. Next1(u).slot \in Slot
  BY Facing DEF subscribeWs, MustAsk, At
<1> QED
  BY <1>1, <1>2, PolkaApiAssumption

\* The statement is done, the others stay.
LEMMA TasksLeft ==
    ASSUME RInv, NEW u \in User, todo[u] # <<>>, Done(u), calls' = calls
    PROVE  Tasks'
<1>1. todo' = [todo EXCEPT ![u] = Tail(todo[u])] /\ todo \in [User -> Seq(Statements)]
  BY DEF Done, RInv, Types, ThreadTypes
<1>2. \A st : TaskOK(st)' <=> TaskOK(st)
  BY DEF TaskOK, BroughtFor
<1>3. \A v \in User : \A n \in DOMAIN todo'[v] : \E k \in DOMAIN todo[v] : todo'[v][n] = todo[v][k]
  <2> SUFFICES ASSUME NEW v \in User, NEW n \in DOMAIN todo'[v]
               PROVE  \E k \in DOMAIN todo[v] : todo'[v][n] = todo[v][k]
    OBVIOUS
  <2>1. CASE v = u
    BY <1>1, <2>1, Facing
  <2>2. CASE v # u
    BY <1>1, <2>2
  <2> QED
    BY <2>1, <2>2
<1>4. \A v \in User : \A k \in DOMAIN todo[v] : TaskOK(todo[v][k])
  BY DEF RInv, Tasks
<1>5. \A v \in User : \A n \in DOMAIN todo'[v] : TaskOK(todo'[v][n])
  BY <1>3, <1>4
<1> QED
  BY <1>5 DEF Tasks, TaskOK, BroughtFor

LEMMA PendingLeft ==
    ASSUME RInv, NEW u \in User, Done(u), answer'[u] = <<>>, clearing'[u] = 0, topic' = topic,
           \A v \in User \ {u} : answer'[v] = answer[v] /\ clearing'[v] = clearing[v]
    PROVE  Pending'
<1>1. \A v \in User \ {u} : todo'[v] = todo[v]
  BY DEF Done, RInv, Types, ThreadTypes
<1> QED
  BY <1>1 DEF RInv, Pending

LEMMA NextTasks == RInv /\ [Next]_vars => Tasks'
<1> SUFFICES ASSUME RInv, [Next]_vars PROVE Tasks'
  OBVIOUS
<1>0. Tasks
  BY DEF RInv, Types
<1>1. ASSUME NEW u \in User, SetCallback(u) PROVE Tasks'
  <2>1. todo[u] # <<>> /\ Done(u) /\ calls' = calls
    BY <1>1, Facing DEF SetCallback, At, history
  <2> QED
    BY <2>1, TasksLeft
<1>2. ASSUME NEW u \in User, AlreadySubscribed(u) PROVE Tasks'
  <2>1. todo[u] # <<>> /\ Done(u) /\ calls' = calls
    BY <1>2, Facing DEF AlreadySubscribed, At, history
  <2> QED
    BY <2>1, TasksLeft
<1>3. ASSUME NEW u \in User, subscribeWs(u) PROVE Tasks'
  BY <1>0, <1>3 DEF subscribeWs, slots, threads, node, consumer, history, Tasks, TaskOK, BroughtFor
<1>4. ASSUME NEW u \in User, subscribeTimesOut(u) PROVE Tasks'
  BY <1>0, <1>4 DEF subscribeTimesOut, slots, threads, node, consumer, history, Tasks, TaskOK, BroughtFor
<1>5. ASSUME NEW u \in User, Store(u) PROVE Tasks'
  <2>1. todo[u] # <<>> /\ Done(u) /\ calls' = calls
    BY <1>5, Facing DEF Store, At, history
  <2> QED
    BY <2>1, TasksLeft
<1>6. ASSUME NEW u \in User, NonceArrived(u) PROVE Tasks'
  <2>1. todo[u] # <<>> /\ Done(u) /\ calls' = calls
    BY <1>6, Facing DEF NonceArrived, At, history
  <2> QED
    BY <2>1, TasksLeft
<1>7. ASSUME NEW u \in User, NotSubscribed(u) PROVE Tasks'
  <2>1. todo[u] # <<>> /\ Done(u) /\ calls' = calls
    BY <1>7, Facing DEF NotSubscribed, At, history
  <2> QED
    BY <2>1, TasksLeft
<1>8. ASSUME NEW u \in User, unsubscribeWs(u) PROVE Tasks'
  BY <1>0, <1>8 DEF unsubscribeWs, slots, threads, node, consumer, history, Tasks, TaskOK, BroughtFor
<1>9. ASSUME NEW u \in User, ForgetCallback(u) PROVE Tasks'
  BY <1>0, <1>9 DEF ForgetCallback, slots, threads, node, consumer, history, Tasks, TaskOK, BroughtFor
<1>10. ASSUME NEW u \in User, ForgetId(u) PROVE Tasks'
  <2>0. clearing[u] # 0 /\ Done(u) /\ calls' = calls
    BY <1>10 DEF ForgetId, history
  <2>1. todo[u] # <<>> /\ Done(u) /\ calls' = calls
    BY <2>0, Facing
  <2> QED
    BY <2>1, TasksLeft
<1>11. ASSUME NEW u \in User, NEW c \in Calls, Call(u, c[1], c[2]) PROVE Tasks'
  <2>1. PICK p : Brings(u, p)
    BY <1>11, CallOf
  <2>2. todo \in [User -> Seq(Statements)] /\ todo' = [todo EXCEPT ![u] = p]
    BY <2>1 DEF Brings, RInv, Types, ThreadTypes
  <2>3. \A c1, s : BroughtFor(c1, s) => BroughtFor(c1, s)'
    BY <2>1, BroughtStays DEF Brings
  <2>4. \A st : TaskOK(st) => TaskOK(st)'
    BY <2>3 DEF TaskOK
  <2>5. ASSUME NEW v \in User, NEW n \in DOMAIN todo'[v] PROVE TaskOK(todo[v][n])'
    <3>1. PICK st : st = todo'[v][n]
      OBVIOUS
    <3>2. TaskOK(st)'
      <4>1. CASE v = u
        BY <4>1, <3>1, <2>1, <2>2 DEF Brings
      <4>2. CASE v # u
        BY <4>2, <3>1, <2>2, <2>4, <1>0 DEF Tasks
      <4> QED
        BY <4>1, <4>2
    <3> QED
      BY <3>1, <3>2 DEF TaskOK, BroughtFor
  <2> QED
    BY <2>5 DEF Tasks
<1>12. ASSUME NEW i \in 1 .. MaxSubs, NodeUpdates(i) PROVE Tasks'
  BY <1>0, <1>12 DEF NodeUpdates, slots, threads, node, consumer, history, Tasks, TaskOK, BroughtFor
<1>13. ASSUME NEW i \in 1 .. MaxSubs, Match(i) PROVE Tasks'
  BY <1>0, <1>13 DEF Match, slots, threads, node, consumer, history, Tasks, TaskOK, BroughtFor
<1>14. ASSUME NEW i \in 1 .. MaxSubs, Invoke(i) PROVE Tasks'
  BY <1>0, <1>14 DEF Invoke, slots, threads, node, consumer, history, Tasks, TaskOK, BroughtFor
<1>15. ASSUME NEW i \in 1 .. MaxSubs, Reset(i) PROVE Tasks'
  BY <1>0, <1>15 DEF Reset, slots, threads, node, consumer, history, Tasks, TaskOK, BroughtFor
<1>16. CASE UNCHANGED vars
  BY <1>0, <1>16 DEF vars, slots, threads, node, consumer, history, Tasks, TaskOK, BroughtFor
<1> QED
  BY <1>1, <1>2, <1>3, <1>4, <1>5, <1>6, <1>7, <1>8, <1>9, <1>10,
     <1>11, <1>12, <1>13, <1>14, <1>15, <1>16 DEF Next, Step, Consume

LEMMA NextPending == RInv /\ [Next]_vars => Pending'
<1> SUFFICES ASSUME RInv, [Next]_vars PROVE Pending'
  OBVIOUS
<1>0. Pending
  BY DEF RInv, Types
<1>1. ASSUME NEW u \in User, SetCallback(u) PROVE Pending'
  <2>1. Done(u) /\ answer'[u] = <<>> /\ clearing'[u] = 0 /\ topic' = topic
    BY <1>1, <1>0, Facing DEF SetCallback, At, Pending, RInv, Types, ThreadTypes, threads, node
  <2>2. \A v \in User \ {u} : answer'[v] = answer[v] /\ clearing'[v] = clearing[v]
    BY <1>1 DEF SetCallback, RInv, Types, ThreadTypes, threads
  <2> QED
    BY <2>1, <2>2, PendingLeft
<1>2. ASSUME NEW u \in User, AlreadySubscribed(u) PROVE Pending'
  <2>1. Done(u) /\ answer'[u] = <<>> /\ clearing'[u] = 0 /\ topic' = topic
    BY <1>2, <1>0, Facing DEF AlreadySubscribed, At, Pending, RInv, Types, ThreadTypes, threads, node
  <2>2. \A v \in User \ {u} : answer'[v] = answer[v] /\ clearing'[v] = clearing[v]
    BY <1>2 DEF AlreadySubscribed, RInv, Types, ThreadTypes, threads
  <2> QED
    BY <2>1, <2>2, PendingLeft
<1>3. ASSUME NEW u \in User, subscribeWs(u) PROVE Pending'
  <2>1. todo[u] # <<>> /\ todo[u][1].op \in {"ask", "send"}
    BY <1>3 DEF subscribeWs, MustAsk, At, Next1
  <2>2. PICK j : j = Len(topic) + 1
    OBVIOUS
  <2>3. j \in DOMAIN topic' /\ topic'[j] = todo[u][1].slot
    BY <2>2, <1>3, TopicStays DEF Next1
  <2>4. \A n \in DOMAIN topic : n \in DOMAIN topic' /\ topic'[n] = topic[n]
    BY <1>3, TopicStays
  <2>5. answer \in [User -> Seq(0 .. MaxSubs)] /\ answer' = [answer EXCEPT ![u] = <<j>>] /\ <<j>>[1] = j
    BY <2>2, <1>3 DEF subscribeWs, RInv, Types, ThreadTypes
  <2>6. \A v \in User \ {u} : answer'[v] = answer[v]
    BY <2>5
  <2>7. answer'[u][1] = j
    BY <2>5
  <2>8. todo' = todo /\ clearing' = clearing
    BY <1>3 DEF subscribeWs
  <2> QED
    BY <1>0, <2>1, <2>3, <2>4, <2>6, <2>7, <2>8 DEF Pending
<1>4. ASSUME NEW u \in User, subscribeTimesOut(u) PROVE Pending'
  <2>1. todo[u] # <<>> /\ todo[u][1].op \in {"ask", "send"}
    BY <1>4 DEF subscribeTimesOut, MustAsk, At, Next1
  <2>5. answer \in [User -> Seq(0 .. MaxSubs)] /\ answer' = [answer EXCEPT ![u] = <<0>>]
    BY <1>4 DEF subscribeTimesOut, RInv, Types, ThreadTypes
  <2>6. answer'[u][1] = 0 /\ \A v \in User \ {u} : answer'[v] = answer[v]
    BY <2>5
  <2>8. todo' = todo /\ clearing' = clearing /\ topic' = topic
    BY <1>4 DEF subscribeTimesOut, node
  <2> QED
    BY <1>0, <2>1, <2>6, <2>8 DEF Pending
<1>5. ASSUME NEW u \in User, Store(u) PROVE Pending'
  <2>1. Done(u) /\ answer'[u] = <<>> /\ clearing'[u] = 0 /\ topic' = topic
    BY <1>5, <1>0, Facing DEF Store, At, Pending, RInv, Types, ThreadTypes, threads, node
  <2>2. \A v \in User \ {u} : answer'[v] = answer[v] /\ clearing'[v] = clearing[v]
    BY <1>5 DEF Store, RInv, Types, ThreadTypes, threads
  <2> QED
    BY <2>1, <2>2, PendingLeft
<1>6. ASSUME NEW u \in User, NonceArrived(u) PROVE Pending'
  <2>1. Done(u) /\ answer'[u] = <<>> /\ clearing'[u] = 0 /\ topic' = topic
    BY <1>6, <1>0, Facing DEF NonceArrived, At, Pending, RInv, Types, ThreadTypes, threads, node
  <2>2. \A v \in User \ {u} : answer'[v] = answer[v] /\ clearing'[v] = clearing[v]
    BY <1>6 DEF NonceArrived, RInv, Types, ThreadTypes, threads
  <2> QED
    BY <2>1, <2>2, PendingLeft
<1>7. ASSUME NEW u \in User, NotSubscribed(u) PROVE Pending'
  <2>1. Done(u) /\ answer'[u] = <<>> /\ clearing'[u] = 0 /\ topic' = topic
    BY <1>7, <1>0, Facing DEF NotSubscribed, At, Pending, RInv, Types, ThreadTypes, threads, node
  <2>2. \A v \in User \ {u} : answer'[v] = answer[v] /\ clearing'[v] = clearing[v]
    BY <1>7 DEF NotSubscribed, RInv, Types, ThreadTypes, threads
  <2> QED
    BY <2>1, <2>2, PendingLeft
<1>8. ASSUME NEW u \in User, unsubscribeWs(u) PROVE Pending'
  BY <1>0, <1>8 DEF unsubscribeWs, At, Next1, Pending, RInv, Types, ThreadTypes
<1>9. ASSUME NEW u \in User, ForgetCallback(u) PROVE Pending'
  BY <1>0, <1>9 DEF ForgetCallback, Pending, RInv, Types, ThreadTypes, node
<1>10. ASSUME NEW u \in User, ForgetId(u) PROVE Pending'
  <2>1. clearing[u] = 2 /\ Done(u) /\ answer' = answer /\ topic' = topic
    BY <1>10 DEF ForgetId, node
  <2>2. todo[u][1].op = "drop"
    BY <2>1, <1>0 DEF Pending
  <2>3. answer[u] = <<>>
    BY <2>2, <1>0 DEF Pending
  <2>4. clearing'[u] = 0 /\ \A v \in User \ {u} : clearing'[v] = clearing[v]
    BY <1>10 DEF ForgetId, RInv, Types, ThreadTypes
  <2> QED
    BY <2>1, <2>3, <2>4, PendingLeft
<1>11. ASSUME NEW u \in User, NEW c \in Calls, Call(u, c[1], c[2]) PROVE Pending'
  <2>1. PICK p : Brings(u, p)
    BY <1>11, CallOf
  <2>2. \A v \in User \ {u} : todo'[v] = todo[v]
    BY <2>1 DEF Brings, RInv, Types, ThreadTypes
  <2>3. answer[u] = <<>> /\ clearing[u] = 0 /\ UNCHANGED <<answer, clearing, topic>>
    BY <1>0, <1>11 DEF Call, Idle, Pending, node
  <2> QED
    BY <1>0, <2>2, <2>3 DEF Pending
<1>12. ASSUME NEW i \in 1 .. MaxSubs, NodeUpdates(i) PROVE Pending'
  BY <1>0, <1>12 DEF NodeUpdates, slots, threads, node, consumer, history, Pending
<1>13. ASSUME NEW i \in 1 .. MaxSubs, Match(i) PROVE Pending'
  BY <1>0, <1>13 DEF Match, slots, threads, node, consumer, history, Pending
<1>14. ASSUME NEW i \in 1 .. MaxSubs, Invoke(i) PROVE Pending'
  BY <1>0, <1>14 DEF Invoke, slots, threads, node, consumer, history, Pending
<1>15. ASSUME NEW i \in 1 .. MaxSubs, Reset(i) PROVE Pending'
  BY <1>0, <1>15 DEF Reset, slots, threads, node, consumer, history, Pending
<1>16. CASE UNCHANGED vars
  BY <1>0, <1>16 DEF vars, slots, threads, node, consumer, history, Pending
<1> QED
  BY <1>1, <1>2, <1>3, <1>4, <1>5, <1>6, <1>7, <1>8, <1>9, <1>10,
     <1>11, <1>12, <1>13, <1>14, <1>15, <1>16 DEF Next, Step, Consume

LEMMA NextSlots == RInv /\ [Next]_vars => Slots'
<1> SUFFICES ASSUME RInv, [Next]_vars PROVE Slots'
  OBVIOUS
<1>0. Slots
  BY DEF RInv, Types
<1>1. ASSUME NEW u \in User, SetCallback(u) PROVE Slots'
  <2>1. BroughtFor(Next1(u).cb, Next1(u).slot)
    BY <1>1, Facing DEF SetCallback, At, TaskOK
  <2>2. PICK r, c : r = Next1(u).slot /\ c = Next1(u).cb
    OBVIOUS
  <2>3. sub \in [Slot -> -1 .. MaxCalls] /\ sub' = [sub EXCEPT ![r] = c]
    BY <2>2, <1>1 DEF SetCallback, RInv, Types, SlotTypes
  <2>4. BroughtFor(c, r) /\ UNCHANGED <<id, topic, calls>>
    BY <2>1, <2>2, <1>1 DEF SetCallback, node, history
  <2> QED
    BY <1>0, <2>3, <2>4 DEF Slots, BroughtFor
<1>2. ASSUME NEW u \in User, AlreadySubscribed(u) PROVE Slots'
  BY <1>0, <1>2 DEF AlreadySubscribed, slots, threads, node, consumer, history, Slots, BroughtFor
<1>3. ASSUME NEW u \in User, subscribeWs(u) PROVE Slots'
  <2>1. \A n \in DOMAIN topic : n \in DOMAIN topic' /\ topic'[n] = topic[n]
    BY <1>3, TopicStays
  <2> QED
    BY <1>0, <2>1, <1>3 DEF subscribeWs, slots, history, Slots, BroughtFor
<1>4. ASSUME NEW u \in User, subscribeTimesOut(u) PROVE Slots'
  BY <1>0, <1>4 DEF subscribeTimesOut, slots, threads, node, consumer, history, Slots, BroughtFor
<1>5. ASSUME NEW u \in User, Store(u) PROVE Slots'
  <2>1. PICK r, j : r = Next1(u).slot /\ j = answer[u][1]
    OBVIOUS
  <2>2. id \in [Slot -> Leftover \cup {Absent} \cup 0 .. MaxSubs] /\ id' = [id EXCEPT ![r] = j]
    BY <2>1, <1>5 DEF Store, RInv, Types, SlotTypes
  <2>3. j # 0 => j \in DOMAIN topic /\ topic[j] = r
    BY <2>1, <1>5 DEF Store, RInv, Pending, Next1
  <2>4. UNCHANGED <<sub, topic, calls>>
    BY <1>5 DEF Store, node, history
  <2> QED
    BY <1>0, <2>2, <2>3, <2>4 DEF Slots, BroughtFor
<1>6. ASSUME NEW u \in User, NonceArrived(u) PROVE Slots'
  BY <1>0, <1>6 DEF NonceArrived, slots, threads, node, consumer, history, Slots, BroughtFor
<1>7. ASSUME NEW u \in User, NotSubscribed(u) PROVE Slots'
  BY <1>0, <1>7 DEF NotSubscribed, slots, threads, node, consumer, history, Slots, BroughtFor
<1>8. ASSUME NEW u \in User, unsubscribeWs(u) PROVE Slots'
  BY <1>0, <1>8 DEF unsubscribeWs, slots, threads, node, consumer, history, Slots, BroughtFor
<1>9. ASSUME NEW u \in User, ForgetCallback(u) PROVE Slots'
  <2>1. sub \in [Slot -> -1 .. MaxCalls]
    BY DEF RInv, Types, SlotTypes
  <2> QED
    BY <1>0, <2>1, <1>9 DEF ForgetCallback, node, history, Slots, BroughtFor
<1>10. ASSUME NEW u \in User, ForgetId(u) PROVE Slots'
  <2>1. id \in [Slot -> Leftover \cup {Absent} \cup 0 .. MaxSubs]
    BY DEF RInv, Types, SlotTypes
  <2>2. PICK r : id' = [id EXCEPT ![r] = NoId(r)]
    BY <1>10 DEF ForgetId
  <2>3. NoId(r) \notin 1 .. MaxSubs
    BY PolkaApiAssumption DEF NoId, Absent
  <2>4. \A s \in Slot : id'[s] = id[s] \/ id'[s] \notin 1 .. MaxSubs
    BY <2>1, <2>2, <2>3
  <2> QED
    BY <1>0, <2>4, <1>10 DEF ForgetId, node, history, Slots, BroughtFor
<1>11. ASSUME NEW u \in User, NEW c \in Calls, Call(u, c[1], c[2]) PROVE Slots'
  <2>1. PICK p : Brings(u, p)
    BY <1>11, CallOf
  <2>2. \A n \in DOMAIN calls : n \in DOMAIN calls' /\ calls'[n] = calls[n]
    BY <2>1 DEF Brings
  <2> QED
    BY <1>0, <2>2, <1>11 DEF Call, slots, node, Slots, BroughtFor
<1>12. ASSUME NEW i \in 1 .. MaxSubs, NodeUpdates(i) PROVE Slots'
  BY <1>0, <1>12 DEF NodeUpdates, slots, threads, node, consumer, history, Slots, BroughtFor
<1>13. ASSUME NEW i \in 1 .. MaxSubs, Match(i) PROVE Slots'
  BY <1>0, <1>13 DEF Match, slots, threads, node, consumer, history, Slots, BroughtFor
<1>14. ASSUME NEW i \in 1 .. MaxSubs, Invoke(i) PROVE Slots'
  BY <1>0, <1>14 DEF Invoke, slots, threads, node, consumer, history, Slots, BroughtFor
<1>15. ASSUME NEW i \in 1 .. MaxSubs, Reset(i) PROVE Slots'
  <2>1. id \in [Slot -> Leftover \cup {Absent} \cup 0 .. MaxSubs] /\ sub \in [Slot -> -1 .. MaxCalls]
    BY DEF RInv, Types, SlotTypes
  <2>2. PICK r : id' = [id EXCEPT ![r] = 0] /\ sub' = [sub EXCEPT ![r] = None]
    BY <1>15 DEF Reset
  <2>3. \A s \in Slot : (id'[s] = id[s] \/ id'[s] = 0) /\ (sub'[s] = sub[s] \/ sub'[s] = None)
    BY <2>1, <2>2
  <2> QED
    BY <1>0, <2>3, <1>15 DEF Reset, node, history, Slots, BroughtFor
<1>16. CASE UNCHANGED vars
  BY <1>0, <1>16 DEF vars, slots, threads, node, consumer, history, Slots, BroughtFor
<1> QED
  BY <1>1, <1>2, <1>3, <1>4, <1>5, <1>6, <1>7, <1>8, <1>9, <1>10,
     <1>11, <1>12, <1>13, <1>14, <1>15, <1>16 DEF Next, Step, Consume

LEMMA NextConsumers == RInv /\ [Next]_vars => Consumers'
<1> SUFFICES ASSUME RInv, [Next]_vars PROVE Consumers'
  OBVIOUS
<1>0. Consumers
  BY DEF RInv, Types
<1>1. ASSUME NEW u \in User, SetCallback(u) PROVE Consumers'
  BY <1>0, <1>1 DEF SetCallback, slots, threads, node, consumer, history, Consumers
<1>2. ASSUME NEW u \in User, AlreadySubscribed(u) PROVE Consumers'
  BY <1>0, <1>2 DEF AlreadySubscribed, slots, threads, node, consumer, history, Consumers
<1>3. ASSUME NEW u \in User, subscribeWs(u) PROVE Consumers'
  <2>1. \A n \in DOMAIN topic : n \in DOMAIN topic' /\ topic'[n] = topic[n]
    BY <1>3, TopicStays
  <2> QED
    BY <1>0, <2>1, <1>3 DEF subscribeWs, consumer, Consumers
<1>4. ASSUME NEW u \in User, subscribeTimesOut(u) PROVE Consumers'
  BY <1>0, <1>4 DEF subscribeTimesOut, slots, threads, node, consumer, history, Consumers
<1>5. ASSUME NEW u \in User, Store(u) PROVE Consumers'
  BY <1>0, <1>5 DEF Store, slots, threads, node, consumer, history, Consumers
<1>6. ASSUME NEW u \in User, NonceArrived(u) PROVE Consumers'
  BY <1>0, <1>6 DEF NonceArrived, slots, threads, node, consumer, history, Consumers
<1>7. ASSUME NEW u \in User, NotSubscribed(u) PROVE Consumers'
  BY <1>0, <1>7 DEF NotSubscribed, slots, threads, node, consumer, history, Consumers
<1>8. ASSUME NEW u \in User, unsubscribeWs(u) PROVE Consumers'
  BY <1>0, <1>8 DEF unsubscribeWs, slots, threads, node, consumer, history, Consumers
<1>9. ASSUME NEW u \in User, ForgetCallback(u) PROVE Consumers'
  BY <1>0, <1>9 DEF ForgetCallback, slots, threads, node, consumer, history, Consumers
<1>10. ASSUME NEW u \in User, ForgetId(u) PROVE Consumers'
  BY <1>0, <1>10 DEF ForgetId, slots, threads, node, consumer, history, Consumers
<1>11. ASSUME NEW u \in User, NEW c \in Calls, Call(u, c[1], c[2]) PROVE Consumers'
  BY <1>0, <1>11 DEF Call, slots, threads, node, consumer, history, Consumers
<1>12. ASSUME NEW i \in 1 .. MaxSubs, NodeUpdates(i) PROVE Consumers'
  BY <1>0, <1>12 DEF NodeUpdates, slots, threads, node, consumer, history, Consumers
<1>13. ASSUME NEW i \in 1 .. MaxSubs, Match(i) PROVE Consumers'
  <2>1. ASSUME NEW s \in FirstMatching(i), calling' = [calling EXCEPT ![i] = <<s>>] PROVE Consumers'
    <3>1. i \in DOMAIN topic /\ topic[i] = s /\ <<s>>[1] = s
      BY DEF FirstMatching, Matching, RInv, Slots
    <3>2. PICK w : w = <<s>>
      OBVIOUS
    <3>3. calling \in [1 .. MaxSubs -> Seq(Slot)] /\ calling' = [calling EXCEPT ![i] = w] /\ w[1] = topic[i]
      BY <2>1, <3>1, <3>2 DEF RInv, Types, ConsumerTypes
    <3>4. UNCHANGED <<topic, resetting>> /\ ~resetting[i]
      BY <1>0, <1>13 DEF Match, node, Consumers
    <3> QED
      BY <1>0, <3>1, <3>3, <3>4 DEF Consumers
  <2> QED
    BY <1>0, <2>1, <1>13 DEF Match, node, Consumers
<1>14. ASSUME NEW i \in 1 .. MaxSubs, Invoke(i) PROVE Consumers'
  <2>1. calling \in [1 .. MaxSubs -> Seq(Slot)] /\ resetting \in [1 .. MaxSubs -> BOOLEAN]
    BY DEF RInv, Types, ConsumerTypes
  <2>2. \/ calling' = calling /\ resetting' = resetting
        \/ calling' = calling /\ resetting' = [resetting EXCEPT ![i] = TRUE] /\ calling[i][1][1] = "transfer"
        \/ calling' = [calling EXCEPT ![i] = <<>>] /\ resetting' = resetting
    BY <1>14 DEF Invoke
  <2>3. calling[i] # <<>> /\ ~resetting[i] /\ topic' = topic
    BY <1>14 DEF Invoke, node
  <2> QED
    BY <1>0, <2>1, <2>2, <2>3 DEF Consumers
<1>15. ASSUME NEW i \in 1 .. MaxSubs, Reset(i) PROVE Consumers'
  <2>1. calling \in [1 .. MaxSubs -> Seq(Slot)] /\ resetting \in [1 .. MaxSubs -> BOOLEAN]
    BY DEF RInv, Types, ConsumerTypes
  <2> QED
    BY <1>0, <2>1, <1>15 DEF Reset, node, Consumers
<1>16. CASE UNCHANGED vars
  BY <1>0, <1>16 DEF vars, slots, threads, node, consumer, history, Consumers
<1> QED
  BY <1>1, <1>2, <1>3, <1>4, <1>5, <1>6, <1>7, <1>8, <1>9, <1>10,
     <1>11, <1>12, <1>13, <1>14, <1>15, <1>16 DEF Next, Step, Consume

LEMMA NextTold == RInv /\ [Next]_vars => Told'
<1> SUFFICES ASSUME RInv, [Next]_vars PROVE Told'
  OBVIOUS
<1>0. Told
  BY DEF RInv, Types
<1>1. ASSUME NEW u \in User, SetCallback(u) PROVE Told'
  BY <1>0, <1>1 DEF SetCallback, slots, threads, node, consumer, history, Told, BroughtFor
<1>2. ASSUME NEW u \in User, AlreadySubscribed(u) PROVE Told'
  BY <1>0, <1>2 DEF AlreadySubscribed, slots, threads, node, consumer, history, Told, BroughtFor
<1>3. ASSUME NEW u \in User, subscribeWs(u) PROVE Told'
  <2>1. \A n \in DOMAIN topic : n \in DOMAIN topic' /\ topic'[n] = topic[n]
    BY <1>3, TopicStays
  <2> QED
    BY <1>0, <2>1, <1>3 DEF subscribeWs, history, Told, BroughtFor
<1>4. ASSUME NEW u \in User, subscribeTimesOut(u) PROVE Told'
  BY <1>0, <1>4 DEF subscribeTimesOut, slots, threads, node, consumer, history, Told, BroughtFor
<1>5. ASSUME NEW u \in User, Store(u) PROVE Told'
  BY <1>0, <1>5 DEF Store, slots, threads, node, consumer, history, Told, BroughtFor
<1>6. ASSUME NEW u \in User, NonceArrived(u) PROVE Told'
  BY <1>0, <1>6 DEF NonceArrived, slots, threads, node, consumer, history, Told, BroughtFor
<1>7. ASSUME NEW u \in User, NotSubscribed(u) PROVE Told'
  BY <1>0, <1>7 DEF NotSubscribed, slots, threads, node, consumer, history, Told, BroughtFor
<1>8. ASSUME NEW u \in User, unsubscribeWs(u) PROVE Told'
  BY <1>0, <1>8 DEF unsubscribeWs, slots, threads, node, consumer, history, Told, BroughtFor
<1>9. ASSUME NEW u \in User, ForgetCallback(u) PROVE Told'
  BY <1>0, <1>9 DEF ForgetCallback, slots, threads, node, consumer, history, Told, BroughtFor
<1>10. ASSUME NEW u \in User, ForgetId(u) PROVE Told'
  BY <1>0, <1>10 DEF ForgetId, slots, threads, node, consumer, history, Told, BroughtFor
<1>11. ASSUME NEW u \in User, NEW c \in Calls, Call(u, c[1], c[2]) PROVE Told'
  <2>1. PICK p : Brings(u, p)
    BY <1>11, CallOf
  <2>2. \A n \in DOMAIN calls : n \in DOMAIN calls' /\ calls'[n] = calls[n]
    BY <2>1 DEF Brings
  <2> QED
    BY <1>0, <2>2, <1>11 DEF Call, node, Told, BroughtFor
<1>12. ASSUME NEW i \in 1 .. MaxSubs, NodeUpdates(i) PROVE Told'
  BY <1>0, <1>12 DEF NodeUpdates, slots, threads, node, consumer, history, Told, BroughtFor
<1>13. ASSUME NEW i \in 1 .. MaxSubs, Match(i) PROVE Told'
  BY <1>0, <1>13 DEF Match, slots, threads, node, consumer, history, Told, BroughtFor
<1>14. ASSUME NEW i \in 1 .. MaxSubs, Invoke(i) PROVE Told'
  <2>1. PICK s : s = calling[i][1]
    OBVIOUS
  <2>2. i \in DOMAIN topic /\ topic[i] = s /\ s \in Slot
    BY <2>1, <1>14 DEF Invoke, RInv, Types, NodeTypes, Consumers
  <2>3. CASE sub[s] = None
    BY <1>0, <2>1, <2>3, <1>14 DEF Invoke, node, Told, BroughtFor
  <2>4. CASE sub[s] # None
    <3>1. BroughtFor(sub[s], s)
      BY <2>2, <2>4 DEF RInv, Slots
    <3>2. PICK m : m = [cb |-> sub[s], id |-> i, update |-> taken[i]]
      OBVIOUS
    <3>3. heard' = Append(heard, m) /\ UNCHANGED <<topic, calls>>
      BY <2>1, <2>4, <3>2, <1>14 DEF Invoke, node
    <3>4. heard \in Seq(Reports)
      BY DEF RInv, Types, HistoryTypes
    <3>5. m.id = i /\ m.cb = sub[s]
      BY <3>2
    <3>6. \A n \in DOMAIN heard' : (n \in DOMAIN heard /\ heard'[n] = heard[n]) \/ heard'[n] = m
      BY <3>3, <3>4
    <3>7. BroughtFor(m.cb, topic[m.id]) /\ m.id \in DOMAIN topic
      BY <3>1, <3>5, <2>2
    <3> QED
      BY <1>0, <3>3, <3>6, <3>7 DEF Told, BroughtFor
  <2> QED
    BY <2>3, <2>4
<1>15. ASSUME NEW i \in 1 .. MaxSubs, Reset(i) PROVE Told'
  BY <1>0, <1>15 DEF Reset, slots, threads, node, consumer, history, Told, BroughtFor
<1>16. CASE UNCHANGED vars
  BY <1>0, <1>16 DEF vars, slots, threads, node, consumer, history, Told, BroughtFor
<1> QED
  BY <1>1, <1>2, <1>3, <1>4, <1>5, <1>6, <1>7, <1>8, <1>9, <1>10,
     <1>11, <1>12, <1>13, <1>14, <1>15, <1>16 DEF Next, Step, Consume

LEMMA RoutingInit == Init => RInv
<1> SUFFICES ASSUME Init PROVE RInv
  OBVIOUS
<1> USE PolkaApiAssumption
<1>0. id \in [Slot -> {0, Absent} \cup Leftover] /\ \A s \in Slot : id[s] \notin 1 .. MaxSubs
  <2>1. id \in [Slot -> {0, Absent} \cup Leftover]
    BY DEF Init
  <2>2. Absent \notin 1 .. MaxSubs /\ 0 \notin 1 .. MaxSubs
    BY DEF Absent
  <2> QED
    BY <2>1, <2>2
<1>1. SlotTypes
  <2>1. sub \in [Slot -> -1 .. MaxCalls]
    BY DEF Init, None
  <2>2. best \in BOOLEAN
    BY DEF Init
  <2>3. id \in [Slot -> Leftover \cup {Absent} \cup 0 .. MaxSubs]
    BY <1>0
  <2> QED
    BY <2>1, <2>2, <2>3 DEF SlotTypes
<1>2. ThreadTypes
  <2>1. todo \in [User -> Seq(Statements)]
    BY DEF Init
  <2>2. clearing \in [User -> 0 .. 2]
    BY DEF Init
  <2>3. answer \in [User -> Seq(0 .. MaxSubs)] /\ \A u \in User : Len(answer[u]) <= 1
    BY DEF Init
  <2> QED
    BY <2>1, <2>2, <2>3 DEF ThreadTypes
<1>3. NodeTypes
  <2>1. sent \in [1 .. MaxSubs -> 0 .. MaxUpdates]
    BY DEF Init
  <2>2. topic \in Seq(Slot) /\ Len(topic) <= MaxSubs /\ active \subseteq DOMAIN topic
    BY DEF Init
  <2> QED
    BY <2>1, <2>2 DEF NodeTypes
<1>4. ConsumerTypes
  <2>1. taken \in [1 .. MaxSubs -> 0 .. MaxUpdates] /\ \A i \in 1 .. MaxSubs : taken[i] <= sent[i]
    BY DEF Init
  <2>2. calling \in [1 .. MaxSubs -> Seq(Slot)] /\ \A i \in 1 .. MaxSubs : Len(calling[i]) <= 1
    BY DEF Init
  <2>3. resetting \in [1 .. MaxSubs -> BOOLEAN]
    BY DEF Init
  <2> QED
    BY <2>1, <2>2, <2>3 DEF ConsumerTypes
<1>5. HistoryTypes
  <2>1. wanted \in [Slot -> 0 .. MaxCalls]
    BY DEF Init, None
  <2>2. calls \in Seq(Slot) /\ Len(calls) <= MaxCalls /\ heard \in Seq(Reports)
    BY DEF Init
  <2> QED
    BY <2>1, <2>2 DEF HistoryTypes, Init
<1>6. Tasks /\ Pending
  BY DEF Init, Tasks, Pending
<1>7. Slots
  BY <1>0 DEF Init, Slots
<1>8. Consumers /\ Told
  BY DEF Init, Consumers, Told
<1> QED
  BY <1>1, <1>2, <1>3, <1>4, <1>5, <1>6, <1>7, <1>8 DEF RInv, Types

LEMMA RoutingNext == RInv /\ [Next]_vars => RInv'
BY NextSlotTypes, NextThreadTypes, NextNodeTypes, NextConsumerTypes, NextHistoryTypes, NextTasks, NextPending,
   NextSlots, NextConsumers, NextTold DEF RInv, Types

LEMMA RoutingInvariance == Spec => []RInv
BY RoutingInit, RoutingNext, PTL DEF Spec

\* Whatever the application threads subscribe to, cancel and subscribe to again,
\* and however their calls interleave with handleWsMessage, an update reaches
\* only a callback that was brought for what the update is about
\* (application.cpp, handleWsMessage), for any number of threads.
THEOREM UpdatesRouted == Spec => []Routed
<1>1. RInv => Routed
  BY DEF RInv, Told, BroughtFor, Routed
<1> QED
  BY <1>1, RoutingInvariance, PTL

-----------------------------------------------------------------------------
(* The singletons.                                                         *)

Places == {"idle", "check", "ws", "create", "construct", "assign", "return", "holds"}

\* One api and one client are ever made, by the first call.
Made ==
    /\ pc \in [Threads -> Places]
    /\ held \in [Threads -> {Null, 1}] /\ fresh \in [Threads -> 1 .. MaxCalls \cup {Null}]
    /\ instance \in {Null, 1} /\ wsInstance \in {Null, 1}
    /\ client \in [1 .. MaxCalls -> {Null, 1}]
    /\ taking \in 0 .. MaxCalls /\ exited \in BOOLEAN /\ misused = FALSE

\* t makes the first call, the other threads wait for it to return.
First(t) ==
    /\ taking = 1 /\ fresh[t] = 1 /\ 1 \in 1 .. MaxCalls
    /\ pc[t] \in {"check", "ws", "create", "construct", "assign"}
    /\ \A r \in Threads \ {t} : pc[r] = "idle"
    /\ wsInstance = IF pc[t] \in {"construct", "assign"} THEN 1 ELSE Null
    /\ pc[t] = "assign" => client[1] = 1

Alone == instance = Null /\ ~exited =>
    \/ taking = 0 /\ wsInstance = Null /\ \A t \in Threads : pc[t] = "idle"
    \/ \E t \in Threads : First(t)

\* After it, _instance is there for as long as the process runs.
Ready == instance = 1 =>
    /\ wsInstance = 1 /\ client[1] = 1 /\ ~exited /\ 1 \in 1 .. MaxCalls
    /\ \A t \in Threads : pc[t] \in {"idle", "check", "return", "holds"}

\* _instance is one of the references to the api that is held.
Refs == \A t \in Threads : IF pc[t] = "holds" THEN held[t] = 1 /\ instance = 1 ELSE held[t] = Null

\* Nothing is deleted before the process ends.
Gone ==
    /\ ~exited => deleted = {}
    /\ exited => /\ instance = Null /\ \A t \in Threads : pc[t] = "idle"
                 /\ wsInstance # Null => deleted = {wsInstance}

SInv == Made /\ Alone /\ Ready /\ Refs /\ Gone

LEMMA SingletonInit == Singleton!Init => SInv
<1> SUFFICES ASSUME Singleton!Init PROVE SInv
  OBVIOUS
<1> USE NullAssumption, PolkaApiAssumption DEF Singleton!Init, Singleton!Ids
<1>1. Made
  <2>1. pc \in [Threads -> Places] /\ held \in [Threads -> {Null, 1}]
    BY DEF Places
  <2>2. fresh \in [Threads -> 1 .. MaxCalls \cup {Null}]
    OBVIOUS
  <2>5. client \in [1 .. MaxCalls -> {Null, 1}]
    OBVIOUS
  <2>3. taking \in 0 .. MaxCalls
    OBVIOUS
  <2>4. exited \in BOOLEAN /\ misused = FALSE
    BY Zenon
  <2> QED
    BY <2>1, <2>2, <2>5, <2>3, <2>4 DEF Made
<1>2. Alone
  BY DEF Alone
<1>3. Ready
  BY DEF Ready
<1>4. Refs /\ Gone
  BY DEF Refs, Gone
<1> QED
  BY <1>1, <1>2, <1>3, <1>4 DEF SInv

LEMMA SingletonNext == SInv /\ Singleton!Next => SInv'
<1> SUFFICES ASSUME SInv, Singleton!Next PROVE SInv'
  OBVIOUS
<1> USE NullAssumption, PolkaApiAssumption
<1>0. 1 # Null
  OBVIOUS
<1>1. ASSUME NEW t \in Threads, Singleton!Call(t) PROVE SInv'
  <2> USE DEF Singleton!Call, Singleton!At
  <2>1. /\ pc[t] = "idle" /\ pc' = [pc EXCEPT ![t] = "check"] /\ ~exited
        /\ instance = Null => taking = 0
        /\ fresh' = [fresh EXCEPT ![t] = taking + 1] /\ taking' = taking + 1
        /\ taking + 1 \in 1 .. MaxCalls
        /\ UNCHANGED <<held, instance, wsInstance, client, deleted, misused, exited>>
    BY <1>1 DEF SInv, Made
  <2>2. Made'
    BY <2>1 DEF SInv, Made, Places
  <2>3. Alone'
    <3> SUFFICES ASSUME instance = Null PROVE First(t)'
      BY <2>1 DEF Alone
    <3>1. taking = 0 /\ wsInstance = Null /\ \A r \in Threads : pc[r] = "idle"
      BY <2>1 DEF SInv, Alone, First
    <3>2. fresh'[t] = 1 /\ pc'[t] = "check" /\ \A r \in Threads \ {t} : pc'[r] = "idle"
      BY <2>1, <3>1 DEF SInv, Made
    <3> QED
      BY <2>1, <3>1, <3>2 DEF First
  <2>4. Ready' /\ Refs' /\ Gone'
    BY <2>1 DEF SInv, Made, Ready, Refs, Gone
  <2> QED
    BY <2>2, <2>3, <2>4 DEF SInv
<1>2. ASSUME NEW t \in Threads, Singleton!Check(t) PROVE SInv'
  BY <1>0, <1>2 DEF Singleton!Check, Singleton!At, Singleton!Ids, Singleton!Released, SInv, Made, First,
     Alone, Ready, Refs, Gone, Places
<1>3. ASSUME NEW t \in Threads, Singleton!WsCheck(t) PROVE SInv'
  BY <1>0, <1>3 DEF Singleton!WsCheck, Singleton!At, Singleton!Ids, Singleton!Released, SInv, Made, First,
     Alone, Ready, Refs, Gone, Places
<1>4. ASSUME NEW t \in Threads, Singleton!WsCreate(t) PROVE SInv'
  BY <1>0, <1>4 DEF Singleton!WsCreate, Singleton!At, Singleton!Ids, Singleton!Released, SInv, Made, First,
     Alone, Ready, Refs, Gone, Places
<1>5. ASSUME NEW t \in Threads, Singleton!Construct(t) PROVE SInv'
  BY <1>0, <1>5 DEF Singleton!Construct, Singleton!At, Singleton!Ids, Singleton!Released, SInv, Made, First,
     Alone, Ready, Refs, Gone, Places
<1>6. ASSUME NEW t \in Threads, Singleton!Assign(t) PROVE SInv'
  BY <1>0, <1>6 DEF Singleton!Assign, Singleton!At, Singleton!Ids, Singleton!Released, SInv, Made, First,
     Alone, Ready, Refs, Gone, Places
<1>7. ASSUME NEW t \in Threads, Singleton!Return(t) PROVE SInv'
  BY <1>0, <1>7 DEF Singleton!Return, Singleton!At, Singleton!Ids, Singleton!Released, SInv, Made, First,
     Alone, Ready, Refs, Gone, Places
<1>8. ASSUME NEW t \in Threads, Singleton!Release(t) PROVE SInv'
  BY <1>0, <1>8 DEF Singleton!Release, Singleton!At, Singleton!Ids, Singleton!Released, SInv, Made, First,
     Alone, Ready, Refs, Gone, Places
<1>9. CASE Singleton!Exit
  BY <1>0, <1>9 DEF Singleton!Exit, Singleton!Released, SInv, Made, First, Alone, Ready, Refs, Gone, Places
<1> QED
  BY <1>1, <1>2, <1>3, <1>4, <1>5, <1>6, <1>7, <1>8, <1>9 DEF Singleton!Next, Singleton!Step

-----------------------------------------------------------------------------
(* One application thread.                                                 *)

\* Done leaves what the thread has to do, but for the statement that is done.
LEMMA HasLeft ==
    ASSUME RInv, NEW u \in User, todo[u] # <<>>, Done(u)
    PROVE  \A o, s : Has(u, o, s) => Has(u, o, s)' \/ (Next1(u).op = o /\ Next1(u).slot = s)
<1>1. todo'[u] = Tail(todo[u]) /\ todo[u] \in Seq(Statements)
  BY DEF Done, RInv, Types, ThreadTypes
<1>2. \A n \in DOMAIN todo[u] : n = 1 \/ (n - 1 \in DOMAIN Tail(todo[u]) /\ Tail(todo[u])[n - 1] = todo[u][n])
  BY <1>1, TailOf
<1> SUFFICES ASSUME NEW o, NEW s, NEW n \in DOMAIN todo[u], todo[u][n].op = o, todo[u][n].slot = s
             PROVE  Has(u, o, s)' \/ (Next1(u).op = o /\ Next1(u).slot = s)
  BY DEF Has
<1>3. CASE n = 1
  BY <1>3 DEF Next1
<1>4. CASE n # 1
  <2>1. PICK k : k = n - 1
    OBVIOUS
  <2>2. k \in DOMAIN todo'[u] /\ todo'[u][k].op = o /\ todo'[u][k].slot = s
    BY <1>1, <1>2, <1>4, <2>1
  <2> QED
    BY <2>2 DEF Has
<1> QED
  BY <1>3, <1>4

LEMMA WishesLeft ==
    ASSUME RInv, NEW u \in User, todo[u] # <<>>, Done(u), Wishes(u), wanted' = wanted
    PROVE  Wishes(u)'
<1>1. todo'[u] = Tail(todo[u]) /\ todo[u] \in Seq(Statements)
  BY DEF Done, RInv, Types, ThreadTypes
<1>2. \A n \in DOMAIN todo'[u] : n + 1 \in DOMAIN todo[u] /\ todo'[u][n] = todo[u][n + 1]
  BY <1>1, TailOf
<1> QED
  BY <1>2 DEF Wishes, WishOK

LEMMA NextKept ==
    ASSUME NEW w, User = {w}
    PROVE  OneInv(w) /\ [Next]_vars => Kept(w)'
<1> SUFFICES ASSUME OneInv(w), [Next]_vars PROVE Kept(w)'
  OBVIOUS
<1>0. /\ w \in User /\ RInv /\ Kept(w) /\ active \subseteq DOMAIN topic /\ active \subseteq 1 .. MaxSubs
      /\ DOMAIN topic = 1 .. Len(topic)
  BY PolkaApiAssumption DEF OneInv, RInv, Types, NodeTypes
<1>a. /\ answer[w] # <<>> => todo[w] # <<>> /\ todo[w][1].op \in {"ask", "send"}
      /\ clearing[w] # 0 => todo[w] # <<>> /\ todo[w][1].op = "drop"
  BY <1>0 DEF RInv, Pending
<1>b. \A r \in Slot : NoId(r) \notin 1 .. MaxSubs
  BY PolkaApiAssumption DEF NoId, Absent
<1>c. ASSUME answer'[w] = <<>>, clearing'[w] = 0, UNCHANGED <<id, topic>>, active' \subseteq active, answer[w] = <<>>
      PROVE  Kept(w)'
  BY <1>c, <1>0 DEF Kept
<1>1. CASE SetCallback(w)
  <2>1. answer[w] = <<>> /\ clearing[w] = 0
    BY <1>a, <1>1 DEF SetCallback, At, Next1
  <2>2. answer'[w] = <<>> /\ clearing'[w] = 0 /\ UNCHANGED <<id, topic, active>>
    BY <2>1, <1>1 DEF SetCallback, slots, threads, node
  <2> QED
    BY <1>c, <2>1, <2>2
<1>2. CASE AlreadySubscribed(w)
  <2>1. answer[w] = <<>> /\ clearing[w] = 0
    BY <1>a, <1>2 DEF AlreadySubscribed, At, Next1
  <2>2. answer'[w] = <<>> /\ clearing'[w] = 0 /\ UNCHANGED <<id, topic, active>>
    BY <2>1, <1>2 DEF AlreadySubscribed, slots, threads, node
  <2> QED
    BY <1>c, <2>1, <2>2
<1>3. CASE subscribeWs(w)
  <2>1. PICK j : j = Len(topic) + 1
    OBVIOUS
  <2>2. \A n \in DOMAIN topic : topic'[n] = topic[n]
    BY <1>0, <1>3, TopicStays
  <2>3. answer[w] = <<>> /\ clearing[w] = 0 /\ (todo[w][1].op = "send" \/ ~Held(todo[w][1].slot))
    BY <1>a, <1>3 DEF subscribeWs, MustAsk, At, Next1
  <2>4. answer'[w] = <<j>> /\ active' = active \cup {j} /\ UNCHANGED <<id, todo, clearing>>
    BY <1>0, <2>1, <1>3 DEF subscribeWs, slots, RInv, Types, ThreadTypes
  <2>5. \A n \in active : topic[n][1] \notin Extrinsics => id[topic[n]] = n
    BY <1>0, <2>3 DEF Kept
  <2> QED
    BY <1>0, <2>2, <2>3, <2>4, <2>5 DEF Kept, Held
<1>4. CASE subscribeTimesOut(w)
  <2>3. answer[w] = <<>> /\ clearing[w] = 0 /\ (todo[w][1].op = "send" \/ ~Held(todo[w][1].slot))
    BY <1>a, <1>4 DEF subscribeTimesOut, MustAsk, At, Next1
  <2>4. UNCHANGED <<id, todo, clearing, topic, active>>
    BY <1>4 DEF subscribeTimesOut, slots, node
  <2>5. \A n \in active : topic[n][1] \notin Extrinsics => id[topic[n]] = n
    BY <1>0, <2>3 DEF Kept
  <2> QED
    BY <1>0, <2>3, <2>4, <2>5 DEF Kept, Held
<1>5. CASE Store(w)
  <2>1. PICK r, j : r = Next1(w).slot /\ j = answer[w][1]
    OBVIOUS
  <2>2. id' = [id EXCEPT ![r] = j] /\ id \in [Slot -> Leftover \cup {Absent} \cup 0 .. MaxSubs] /\ r \in Slot
    BY <2>1, <1>0, <1>5, Facing DEF Store, RInv, Types, SlotTypes
  <2>3. j # 0 => j \in DOMAIN topic /\ topic[j] = r
    BY <2>1, <1>0, <1>5 DEF Store, RInv, Pending, Next1
  <2>4. r[1] \in Extrinsics \/ id[r] \notin 1 .. MaxSubs
    <3>1. TaskOK(Next1(w)) /\ Next1(w) = todo[w][1]
      BY <1>0, <1>5, Facing DEF Store
    <3>2. todo[w][1].op = "send" \/ ~Held(todo[w][1].slot)
      BY <1>0, <1>5 DEF Store, Kept
    <3> QED
      BY <3>1, <3>2, <2>1, <2>2, <1>b DEF TaskOK, Held
  <2>5. answer'[w] = <<>> /\ clearing'[w] = 0 /\ UNCHANGED <<topic, active>>
    BY <1>0, <1>a, <1>5 DEF Store, node, RInv, Types, ThreadTypes
  <2>6. ASSUME NEW n \in active, topic[n][1] \notin Extrinsics PROVE id'[topic[n]] = n
    <3>1. n \in 1 .. MaxSubs /\ n \in DOMAIN topic /\ topic[n] \in Slot
      BY <1>0 DEF RInv, Types, NodeTypes
    <3>2. CASE answer[w] = <<n>>
      <4>1. j = n /\ n # 0
        BY <3>1, <3>2, <2>1
      <4> QED
        BY <4>1, <2>2, <2>3
    <3>3. CASE id[topic[n]] = n
      <4>1. topic[n] # r
        BY <3>1, <3>3, <2>4, <2>6
      <4> QED
        BY <4>1, <3>3, <3>1, <2>2
    <3> QED
      BY <3>2, <3>3, <2>6, <1>0 DEF Kept
  <2> QED
    BY <2>5, <2>6 DEF Kept
<1>6. CASE NonceArrived(w)
  <2>1. answer[w] = <<>> /\ clearing[w] = 0
    BY <1>a, <1>6 DEF NonceArrived, At, Next1
  <2>2. answer'[w] = <<>> /\ clearing'[w] = 0 /\ UNCHANGED <<id, topic, active>>
    BY <2>1, <1>6 DEF NonceArrived, slots, threads, node
  <2> QED
    BY <1>c, <2>1, <2>2
<1>7. CASE NotSubscribed(w)
  <2>1. answer[w] = <<>> /\ clearing[w] = 0
    BY <1>a, <1>7 DEF NotSubscribed, At, Next1
  <2>2. answer'[w] = <<>> /\ clearing'[w] = 0 /\ UNCHANGED <<id, topic, active>>
    BY <2>1, <1>7 DEF NotSubscribed, slots, threads, node
  <2> QED
    BY <1>c, <2>1, <2>2
<1>8. CASE unsubscribeWs(w)
  <2>1. answer[w] = <<>> /\ Next1(w) = todo[w][1]
    BY <1>a, <1>8 DEF unsubscribeWs, At, Next1
  <2>2. active' = active \ {id[todo[w][1].slot]} /\ UNCHANGED <<id, topic, todo, answer>>
    BY <2>1, <1>8 DEF unsubscribeWs, slots
  <2> QED
    BY <1>0, <2>1, <2>2 DEF Kept
<1>9. CASE ForgetCallback(w)
  <2>1. clearing[w] # 0 /\ UNCHANGED <<id, topic, todo, answer, active>>
    BY <1>9 DEF ForgetCallback, node
  <2> QED
    BY <1>0, <2>1 DEF Kept, Held
<1>10. CASE ForgetId(w)
  <2>1. PICK r : r = Next1(w).slot
    OBVIOUS
  <2>2. id' = [id EXCEPT ![r] = NoId(r)] /\ id \in [Slot -> Leftover \cup {Absent} \cup 0 .. MaxSubs]
    BY <2>1, <1>0, <1>10 DEF ForgetId, RInv, Types, SlotTypes
  <2>3. clearing[w] # 0 /\ answer[w] = <<>> /\ r = todo[w][1].slot
    BY <2>1, <1>a, <1>10 DEF ForgetId, Next1
  <2>4. answer'[w] = <<>> /\ clearing'[w] = 0 /\ UNCHANGED <<topic, active>>
    BY <2>3, <1>0, <1>10 DEF ForgetId, node, RInv, Types, ThreadTypes
  <2>5. ASSUME NEW n \in active, topic[n][1] \notin Extrinsics PROVE id'[topic[n]] = n
    <3>1. id[topic[n]] = n /\ id[r] \notin active /\ topic[n] \in Slot
      BY <2>5, <2>3, <1>0 DEF Kept, RInv, Types, NodeTypes
    <3> QED
      BY <3>1, <2>2
  <2> QED
    BY <2>4, <2>5 DEF Kept
<1>11. ASSUME NEW c \in Calls, Call(w, c[1], c[2]) PROVE Kept(w)'
  <2>1. answer[w] = <<>> /\ clearing[w] = 0
    BY <1>a, <1>11 DEF Call, Idle
  <2>2. answer'[w] = <<>> /\ clearing'[w] = 0 /\ UNCHANGED <<id, topic, active>>
    BY <2>1, <1>11 DEF Call, slots, threads, node
  <2> QED
    BY <1>c, <2>1, <2>2
<1>12. ASSUME NEW i \in 1 .. MaxSubs, NodeUpdates(i) PROVE Kept(w)'
  <2>1. active' \subseteq active /\ UNCHANGED <<id, topic, todo, answer, clearing>>
    BY <1>12 DEF NodeUpdates, slots, threads
  <2> QED
    BY <1>0, <2>1 DEF Kept, Held
<1>13. ASSUME NEW i \in 1 .. MaxSubs, Match(i) PROVE Kept(w)'
  <2>1. UNCHANGED <<id, topic, active, todo, answer, clearing>>
    BY <1>13 DEF Match, slots, node, threads
  <2> QED
    BY <1>0, <2>1 DEF Kept, Held
<1>14. ASSUME NEW i \in 1 .. MaxSubs, Invoke(i) PROVE Kept(w)'
  <2>1. UNCHANGED <<id, topic, active, todo, answer, clearing>>
    BY <1>14 DEF Invoke, slots, node, threads
  <2> QED
    BY <1>0, <2>1 DEF Kept, Held
<1>15. ASSUME NEW i \in 1 .. MaxSubs, Reset(i) PROVE Kept(w)'
  <2>1. PICK r : r = calling[i][1]
    OBVIOUS
  <2>2. id' = [id EXCEPT ![r] = 0] /\ id \in [Slot -> Leftover \cup {Absent} \cup 0 .. MaxSubs]
    BY <2>1, <1>0, <1>15 DEF Reset, RInv, Types, SlotTypes
  <2>3. r[1] \in Extrinsics
    BY <2>1, <1>0, <1>15 DEF Reset, RInv, Consumers, Extrinsics
  <2>4. \A s \in Slot : s[1] \notin Extrinsics => id'[s] = id[s]
    BY <2>2, <2>3
  <2>5. UNCHANGED <<topic, active, todo, answer, clearing>>
    BY <1>15 DEF Reset, node, threads
  <2>6. \A n \in active : topic[n] \in Slot
    BY <1>0 DEF RInv, Types, NodeTypes
  <2>7. ASSUME todo[w] # <<>>
        PROVE  todo[w][1].slot \in Slot /\ (todo[w][1].op \in {"ask", "drop"} => todo[w][1].slot[1] \notin Extrinsics)
    BY <1>0, <2>7, Facing DEF Next1, TaskOK
  <2>8. \A n \in active : topic[n][1] \notin Extrinsics => id'[topic[n]] = n \/ answer[w] = <<n>>
    BY <1>0, <2>4, <2>6 DEF Kept
  <2>9. answer[w] # <<>> => todo[w][1].op = "send" \/ ~Held(todo[w][1].slot)'
    <3> SUFFICES ASSUME answer[w] # <<>>, todo[w][1].op # "send" PROVE ~Held(todo[w][1].slot)'
      OBVIOUS
    <3>1. PICK q : q = todo[w][1].slot
      OBVIOUS
    <3>2. q \in Slot /\ q[1] \notin Extrinsics
      BY <1>a, <2>7, <3>1
    <3>3. id[q] = NoId(q)
      BY <1>0, <3>1 DEF Kept, Held
    <3>4. id'[q] = NoId(q) /\ todo'[w][1].slot = q
      BY <2>4, <2>5, <3>1, <3>2, <3>3
    <3> QED
      BY <3>4 DEF Held, NoId
  <2>10. clearing[w] # 0 => id'[todo[w][1].slot] \notin active
    <3> SUFFICES ASSUME clearing[w] # 0 PROVE id'[todo[w][1].slot] \notin active
      OBVIOUS
    <3>1. PICK q : q = todo[w][1].slot
      OBVIOUS
    <3>2. q \in Slot /\ q[1] \notin Extrinsics
      BY <1>a, <2>7, <3>1
    <3>3. id[q] \notin active
      BY <1>0, <3>1 DEF Kept
    <3> QED
      BY <2>4, <3>1, <3>2, <3>3
  <2> QED
    BY <2>5, <2>8, <2>9, <2>10 DEF Kept, Held
<1>16. CASE UNCHANGED vars
  BY <1>0, <1>16 DEF vars, slots, threads, node, consumer, history, Kept, Held
<1> QED
  BY <1>1, <1>2, <1>3, <1>4, <1>5, <1>6, <1>7, <1>8, <1>9, <1>10,
     <1>11, <1>12, <1>13, <1>14, <1>15, <1>16 DEF Next, Step, Consume

LEMMA NextWishes ==
    ASSUME NEW w, User = {w}
    PROVE  OneInv(w) /\ [Next]_vars => Wishes(w)'
<1> SUFFICES ASSUME OneInv(w), [Next]_vars PROVE Wishes(w)'
  OBVIOUS
<1>0. w \in User /\ RInv /\ Wishes(w)
  BY DEF OneInv
<1>1. CASE SetCallback(w)
  <2>1. todo[w] # <<>> /\ Done(w) /\ wanted' = wanted
    BY <1>0, <1>1, Facing DEF SetCallback, At, history
  <2> QED
    BY <1>0, <2>1, WishesLeft
<1>2. CASE AlreadySubscribed(w)
  <2>1. todo[w] # <<>> /\ Done(w) /\ wanted' = wanted
    BY <1>0, <1>2, Facing DEF AlreadySubscribed, At, history
  <2> QED
    BY <1>0, <2>1, WishesLeft
<1>3. CASE subscribeWs(w)
  BY <1>0, <1>3 DEF subscribeWs, slots, threads, node, consumer, history, Wishes, WishOK
<1>4. CASE subscribeTimesOut(w)
  BY <1>0, <1>4 DEF subscribeTimesOut, slots, threads, node, consumer, history, Wishes, WishOK
<1>5. CASE Store(w)
  <2>1. todo[w] # <<>> /\ Done(w) /\ wanted' = wanted
    BY <1>0, <1>5, Facing DEF Store, At, history
  <2> QED
    BY <1>0, <2>1, WishesLeft
<1>6. CASE NonceArrived(w)
  <2>1. todo[w] # <<>> /\ Done(w) /\ wanted' = wanted
    BY <1>0, <1>6, Facing DEF NonceArrived, At, history
  <2> QED
    BY <1>0, <2>1, WishesLeft
<1>7. CASE NotSubscribed(w)
  <2>1. todo[w] # <<>> /\ Done(w) /\ wanted' = wanted
    BY <1>0, <1>7, Facing DEF NotSubscribed, At, history
  <2> QED
    BY <1>0, <2>1, WishesLeft
<1>8. CASE unsubscribeWs(w)
  BY <1>0, <1>8 DEF unsubscribeWs, slots, threads, node, consumer, history, Wishes, WishOK
<1>9. CASE ForgetCallback(w)
  BY <1>0, <1>9 DEF ForgetCallback, slots, threads, node, consumer, history, Wishes, WishOK
<1>10. CASE ForgetId(w)
  <2>0. clearing[w] # 0 /\ Done(w) /\ wanted' = wanted
    BY <1>10 DEF ForgetId, history
  <2>1. todo[w] # <<>> /\ Done(w) /\ wanted' = wanted
    BY <1>0, <2>0, Facing, Zenon
  <2> QED
    BY <1>0, <2>1, WishesLeft
<1>11. ASSUME NEW c \in Calls, Call(w, c[1], c[2]) PROVE Wishes(w)'
  <2>1. PICK p : Brings(w, p)
    BY <1>0, <1>11, CallOf
  <2>2. todo'[w] = p
    BY <1>0, <2>1 DEF Brings, RInv, Types, ThreadTypes
  <2> QED
    BY <2>1, <2>2 DEF Brings, Wishes, WishOK
<1>12. ASSUME NEW i \in 1 .. MaxSubs, NodeUpdates(i) PROVE Wishes(w)'
  BY <1>0, <1>12 DEF NodeUpdates, slots, threads, node, consumer, history, Wishes, WishOK
<1>13. ASSUME NEW i \in 1 .. MaxSubs, Match(i) PROVE Wishes(w)'
  BY <1>0, <1>13 DEF Match, slots, threads, node, consumer, history, Wishes, WishOK
<1>14. ASSUME NEW i \in 1 .. MaxSubs, Invoke(i) PROVE Wishes(w)'
  BY <1>0, <1>14 DEF Invoke, slots, threads, node, consumer, history, Wishes, WishOK
<1>15. ASSUME NEW i \in 1 .. MaxSubs, Reset(i) PROVE Wishes(w)'
  BY <1>0, <1>15 DEF Reset, slots, threads, node, consumer, history, Wishes, WishOK
<1>16. CASE UNCHANGED vars
  BY <1>0, <1>16 DEF vars, slots, threads, node, consumer, history, Wishes, WishOK
<1> QED
  BY <1>1, <1>2, <1>3, <1>4, <1>5, <1>6, <1>7, <1>8, <1>9, <1>10,
     <1>11, <1>12, <1>13, <1>14, <1>15, <1>16 DEF Next, Step, Consume

LEMMA NextFulfilled ==
    ASSUME NEW w, User = {w}
    PROVE  OneInv(w) /\ [Next]_vars => Fulfilled(w)'
<1> SUFFICES ASSUME OneInv(w), [Next]_vars PROVE Fulfilled(w)'
  OBVIOUS
<1>0. w \in User /\ RInv /\ Fulfilled(w) /\ Wishes(w)
  BY DEF OneInv
<1>a. /\ id \in [Slot -> Leftover \cup {Absent} \cup 0 .. MaxSubs] /\ sub \in [Slot -> -1 .. MaxCalls]
      /\ Watched \subseteq Slot /\ \A s \in Watched : s[1] \notin Extrinsics
  BY <1>0 DEF RInv, Types, SlotTypes, Watched, Extrinsics
<1>1. CASE SetCallback(w)
  <2>1. todo[w] # <<>> /\ Done(w) /\ wanted' = wanted /\ Next1(w).slot \in Slot
    BY <1>0, <1>1, Facing DEF SetCallback, At, history
  <2>2. \A o, s : Has(w, o, s) => Has(w, o, s)' \/ (Next1(w).op = o /\ Next1(w).slot = s)
    BY <1>0, <2>1, HasLeft
  <2>3. WishOK(Next1(w)) /\ TaskOK(Next1(w))
    BY <1>0, <2>1, Facing DEF Wishes, Next1
  <2>4. PICK r : r = Next1(w).slot
    OBVIOUS
  <2>5. Next1(w).op = "set" /\ id' = id /\ sub' = [sub EXCEPT ![r] = Next1(w).cb]
    BY <2>4, <1>1 DEF SetCallback, At
  <2>6. r \in Watched => sub'[r] = wanted[r] /\ wanted[r] # None
    BY <1>a, <2>3, <2>4, <2>5 DEF WishOK
  <2>7. \A s \in Watched \ {r} : sub'[s] = sub[s]
    BY <1>a, <2>5
  <2>8. ASSUME NEW s \in Watched, wanted[s] = None PROVE sub'[s] = None \/ ~Held(s) \/ Has(w, "drop", s)'
    BY <1>0, <2>2, <2>4, <2>5, <2>6, <2>7, <2>8 DEF Fulfilled
  <2>9. ASSUME NEW s \in Watched, wanted[s] # None PROVE sub'[s] = wanted[s] \/ Has(w, "set", s)'
    BY <1>0, <2>2, <2>4, <2>5, <2>6, <2>7, <2>9 DEF Fulfilled
  <2> QED
    BY <2>1, <2>5, <2>8, <2>9 DEF Fulfilled, Held
<1>2. CASE AlreadySubscribed(w)
  <2>1. todo[w] # <<>> /\ Done(w) /\ wanted' = wanted /\ Next1(w).slot \in Slot
    BY <1>0, <1>2, Facing DEF AlreadySubscribed, At, history
  <2>2. \A o, s : Has(w, o, s) => Has(w, o, s)' \/ (Next1(w).op = o /\ Next1(w).slot = s)
    BY <1>0, <2>1, HasLeft
  <2>3. WishOK(Next1(w)) /\ TaskOK(Next1(w))
    BY <1>0, <2>1, Facing DEF Wishes, Next1
  <2>4. Next1(w).op \notin {"set", "drop"} /\ UNCHANGED <<id, sub>>
    BY <1>2 DEF AlreadySubscribed, At, slots
  <2> QED
    BY <1>0, <2>1, <2>2, <2>4 DEF Fulfilled, Held
<1>3. CASE subscribeWs(w)
  BY <1>0, <1>3 DEF subscribeWs, slots, threads, node, consumer, history, Fulfilled, Held, Has
<1>4. CASE subscribeTimesOut(w)
  BY <1>0, <1>4 DEF subscribeTimesOut, slots, threads, node, consumer, history, Fulfilled, Held, Has
<1>5. CASE Store(w)
  <2>1. todo[w] # <<>> /\ Done(w) /\ wanted' = wanted /\ Next1(w).slot \in Slot
    BY <1>0, <1>5, Facing DEF Store, At, history
  <2>2. \A o, s : Has(w, o, s) => Has(w, o, s)' \/ (Next1(w).op = o /\ Next1(w).slot = s)
    BY <1>0, <2>1, HasLeft
  <2>3. WishOK(Next1(w)) /\ TaskOK(Next1(w))
    BY <1>0, <2>1, Facing DEF Wishes, Next1
  <2>4. PICK r : r = Next1(w).slot
    OBVIOUS
  <2>5. Next1(w).op \in {"ask", "send"} /\ sub' = sub /\ id' = [id EXCEPT ![r] = answer[w][1]]
    BY <1>0, <2>4, <1>5 DEF Store, RInv, Pending, Next1
  <2>6. r \in Watched => wanted[r] # None
    BY <1>a, <2>3, <2>4, <2>5 DEF WishOK, TaskOK
  <2>7. \A s \in Watched \ {r} : id'[s] = id[s]
    BY <1>a, <2>5
  <2> QED
    BY <1>0, <2>1, <2>2, <2>5, <2>6, <2>7 DEF Fulfilled, Held
<1>6. CASE NonceArrived(w)
  <2>1. todo[w] # <<>> /\ Done(w) /\ wanted' = wanted /\ Next1(w).slot \in Slot
    BY <1>0, <1>6, Facing DEF NonceArrived, At, history
  <2>2. \A o, s : Has(w, o, s) => Has(w, o, s)' \/ (Next1(w).op = o /\ Next1(w).slot = s)
    BY <1>0, <2>1, HasLeft
  <2>3. WishOK(Next1(w)) /\ TaskOK(Next1(w))
    BY <1>0, <2>1, Facing DEF Wishes, Next1
  <2>4. Next1(w).op \notin {"set", "drop"} /\ UNCHANGED <<id, sub>>
    BY <1>6 DEF NonceArrived, At, slots
  <2> QED
    BY <1>0, <2>1, <2>2, <2>4 DEF Fulfilled, Held
<1>7. CASE NotSubscribed(w)
  <2>1. todo[w] # <<>> /\ Done(w) /\ wanted' = wanted /\ Next1(w).slot \in Slot
    BY <1>0, <1>7, Facing DEF NotSubscribed, At, history
  <2>2. \A o, s : Has(w, o, s) => Has(w, o, s)' \/ (Next1(w).op = o /\ Next1(w).slot = s)
    BY <1>0, <2>1, HasLeft
  <2>3. WishOK(Next1(w)) /\ TaskOK(Next1(w))
    BY <1>0, <2>1, Facing DEF Wishes, Next1
  <2>4. Next1(w).op = "drop" /\ ~Held(Next1(w).slot) /\ UNCHANGED <<id, sub>>
    BY <1>7 DEF NotSubscribed, At, slots
  <2> QED
    BY <1>0, <2>1, <2>2, <2>4 DEF Fulfilled, Held
<1>8. CASE unsubscribeWs(w)
  BY <1>0, <1>8 DEF unsubscribeWs, slots, threads, node, consumer, history, Fulfilled, Held, Has
<1>9. CASE ForgetCallback(w)
  <2>1. todo[w] # <<>> /\ Next1(w).op = "drop" /\ UNCHANGED <<id, todo, wanted>>
    BY <1>0, <1>9 DEF ForgetCallback, RInv, Pending, Next1, history
  <2>2. WishOK(Next1(w)) /\ Next1(w).slot \in Slot
    BY <1>0, <2>1, Facing DEF Wishes, Next1
  <2>3. PICK r : r = Next1(w).slot
    OBVIOUS
  <2>4. sub' = [sub EXCEPT ![r] = None] /\ (r \in Watched => wanted[r] = None)
    BY <2>1, <2>2, <2>3, <1>9 DEF ForgetCallback, WishOK
  <2>5. sub'[r] = None /\ \A s \in Watched \ {r} : sub'[s] = sub[s]
    BY <1>a, <2>2, <2>3, <2>4
  <2> QED
    BY <1>0, <2>1, <2>4, <2>5 DEF Fulfilled, Held, Has
<1>10. CASE ForgetId(w)
  <2>0. clearing[w] # 0 /\ Done(w) /\ wanted' = wanted
    BY <1>10 DEF ForgetId, history
  <2>1. todo[w] # <<>> /\ Done(w) /\ wanted' = wanted /\ Next1(w).slot \in Slot
    BY <1>0, <2>0, Facing, Zenon
  <2>2. \A o, s : Has(w, o, s) => Has(w, o, s)' \/ (Next1(w).op = o /\ Next1(w).slot = s)
    BY <1>0, <2>1, HasLeft
  <2>3. WishOK(Next1(w)) /\ TaskOK(Next1(w))
    BY <1>0, <2>1, Facing DEF Wishes, Next1
  <2>4. PICK r : r = Next1(w).slot
    OBVIOUS
  <2>5. Next1(w).op = "drop" /\ sub' = sub /\ id' = [id EXCEPT ![r] = NoId(r)]
    BY <1>0, <2>4, <1>10 DEF ForgetId, RInv, Pending, Next1
  <2>6. id'[r] = NoId(r)
    BY <1>a, <2>1, <2>4, <2>5
  <2>7. \A s \in Watched \ {r} : id'[s] = id[s]
    BY <1>a, <2>5
  <2>8. ASSUME NEW s \in Watched, wanted[s] = None
        PROVE  sub'[s] = None \/ id'[s] = NoId(s) \/ Has(w, "drop", s)'
    <3>1. CASE s = r
      BY <2>6, <3>1
    <3>2. CASE s # r
      <4>1. sub[s] = None \/ id[s] = NoId(s) \/ Has(w, "drop", s)
        BY <1>0, <2>8 DEF Fulfilled, Held
      <4>2. Has(w, "drop", s) => Has(w, "drop", s)'
        BY <2>2, <2>4, <3>2
      <4> QED
        BY <2>5, <2>7, <3>2, <4>1, <4>2
    <3> QED
      BY <3>1, <3>2
  <2>9. ASSUME NEW s \in Watched, wanted[s] # None PROVE sub'[s] = wanted[s] \/ Has(w, "set", s)'
    BY <1>0, <2>2, <2>5, <2>9 DEF Fulfilled
  <2> QED
    BY <2>1, <2>8, <2>9 DEF Fulfilled, Held
<1>11. ASSUME NEW c \in Calls, Call(w, c[1], c[2]) PROVE Fulfilled(w)'
  <2>1. PICK p : Brings(w, p)
    BY <1>0, <1>11, CallOf
  <2>2. todo'[w] = p /\ 1 \in DOMAIN p
    BY <1>0, <2>1 DEF Brings, RInv, Types, ThreadTypes
  <2>3. todo[w] = <<>> /\ UNCHANGED <<id, sub>>
    BY <1>11 DEF Call, Idle, slots
  <2>4. \A o, s : ~Has(w, o, s)
    BY <2>3 DEF Has
  <2>5. \A o, s : p[1].op = o /\ p[1].slot = s => Has(w, o, s)'
    BY <2>2 DEF Has
  <2>6. \A s \in Watched : \/ wanted'[s] = wanted[s]
                           \/ p[1].slot = s /\ p[1].op = IF wanted'[s] = None THEN "drop" ELSE "set"
    BY <2>1 DEF Brings
  <2> QED
    BY <1>0, <2>3, <2>4, <2>5, <2>6 DEF Fulfilled, Held
<1>12. ASSUME NEW i \in 1 .. MaxSubs, NodeUpdates(i) PROVE Fulfilled(w)'
  BY <1>0, <1>12 DEF NodeUpdates, slots, threads, node, consumer, history, Fulfilled, Held, Has
<1>13. ASSUME NEW i \in 1 .. MaxSubs, Match(i) PROVE Fulfilled(w)'
  BY <1>0, <1>13 DEF Match, slots, threads, node, consumer, history, Fulfilled, Held, Has
<1>14. ASSUME NEW i \in 1 .. MaxSubs, Invoke(i) PROVE Fulfilled(w)'
  BY <1>0, <1>14 DEF Invoke, slots, threads, node, consumer, history, Fulfilled, Held, Has
<1>15. ASSUME NEW i \in 1 .. MaxSubs, Reset(i) PROVE Fulfilled(w)'
  <2>1. PICK r : r = calling[i][1]
    OBVIOUS
  <2>2. id' = [id EXCEPT ![r] = 0] /\ sub' = [sub EXCEPT ![r] = None] /\ r[1] \in Extrinsics
    BY <2>1, <1>0, <1>15 DEF Reset, RInv, Consumers, Extrinsics
  <2>3. \A s \in Watched : id'[s] = id[s] /\ sub'[s] = sub[s]
    BY <1>a, <2>2
  <2>4. UNCHANGED <<todo, wanted>>
    BY <1>15 DEF Reset, threads, history
  <2> QED
    BY <1>0, <2>3, <2>4 DEF Fulfilled, Held, Has
<1>16. CASE UNCHANGED vars
  BY <1>0, <1>16 DEF vars, slots, threads, node, consumer, history, Fulfilled, Held, Has
<1> QED
  BY <1>1, <1>2, <1>3, <1>4, <1>5, <1>6, <1>7, <1>8, <1>9, <1>10,
     <1>11, <1>12, <1>13, <1>14, <1>15, <1>16 DEF Next, Step, Consume

LEMMA OneInvariance ==
    ASSUME NEW w, User = {w}
    PROVE  Spec => []OneInv(w)
<1>1. Init => OneInv(w)
  <2> SUFFICES ASSUME Init PROVE OneInv(w)
    OBVIOUS
  <2>1. RInv
    BY RoutingInit
  <2>2. todo[w] = <<>> /\ answer[w] = <<>> /\ clearing[w] = 0 /\ active = {}
    BY DEF Init
  <2>4. Kept(w) /\ Wishes(w)
    BY <2>2 DEF Kept, Wishes
  <2>3. Fulfilled(w)
    BY DEF Init, Fulfilled, Watched
  <2> QED
    BY <2>1, <2>3, <2>4 DEF OneInv
<1>2. OneInv(w) /\ [Next]_vars => OneInv(w)'
  BY RoutingNext, NextKept, NextWishes, NextFulfilled DEF OneInv
<1> QED
  BY <1>1, <1>2, PTL DEF Spec

-----------------------------------------------------------------------------
(* Results.                                                                *)

\* With one application thread, whatever it calls: besides, the node's
\* subscription is held in exactly one slot once its id is stored, and between
\* the calls each callback in place is that of the latest subscriber
\* (handleWsMessage and the subscribe methods of application.cpp).
THEOREM UpdatesDispatched ==
    ASSUME NEW w, User = {w}
    PROVE  Spec => []Dispatched
<1>1. ASSUME OneInv(w) PROVE Dispatched
  <2>0. RInv /\ Kept(w) /\ Fulfilled(w)
    BY <1>1 DEF OneInv
  <2>1. TypeOK
    <3>1. \A i \in 1 .. MaxSubs : sent[i] <= MaxUpdates
      BY <2>0, PolkaApiAssumption DEF RInv, Types, NodeTypes
    <3> QED
      BY <2>0, <3>1 DEF RInv, Types, SlotTypes, ThreadTypes, NodeTypes, ConsumerTypes, HistoryTypes, TypeOK
  <2>2. HeldOnce
    <3> SUFFICES ASSUME NEW i \in active, topic[i][1] \notin Extrinsics, answer[w] # <<i>>
                 PROVE  \E s \in Slot : {t \in Slot : id[t] = i} = {s}
      BY DEF HeldOnce
    <3>1. i \in DOMAIN topic /\ topic[i] \in Slot /\ i \in 1 .. MaxSubs
      BY <2>0, PolkaApiAssumption DEF RInv, Types, NodeTypes
    <3>2. id[topic[i]] = i
      BY <2>0 DEF Kept
    <3>3. \A s \in Slot : id[s] = i => s = topic[i]
      BY <2>0, <3>1 DEF RInv, Slots
    <3>4. {t \in Slot : id[t] = i} = {topic[i]}
      BY <3>1, <3>2, <3>3
    <3> QED
      BY <3>1, <3>4
  <2>3. OthersForwarded
    <3> SUFFICES ASSUME NEW s \in Watched, todo[w] = <<>>
                 PROVE  IF wanted[s] = None THEN sub[s] = None \/ ~Held(s) ELSE sub[s] = wanted[s]
      BY DEF OthersForwarded, InPlace, Watched
    <3>1. \A o : ~Has(w, o, s)
      BY DEF Has
    <3> QED
      BY <2>0, <3>1 DEF Fulfilled
  <2>4. Routed
    BY <2>0 DEF RInv, Told, BroughtFor, Routed
  <2> QED
    BY <2>1, <2>2, <2>3, <2>4 DEF Dispatched
<1> QED
  BY <1>1, OneInvariance, PTL

\* Every scene of MCApi is a behaviour of the api (the methods of CPolkaApi and
\* handleWsMessage), so the two theorems above hold of the scenes.
THEOREM ScenesAreBehaviours ==
    ASSUME AllCalls \subseteq Calls
    PROVE  MCSpec => Spec
<1> DEFINE Played == scene \in DOMAIN Scenes \cup {"instance"}
<1>1. MCInit => Init /\ Played
  BY DEF MCInit
<1>2. Played /\ [MCNext]_MCvars => Played'
  BY DEF MCNext, MCvars, UserStep, ApplicationStep, UpdateStep, ConsumerStep, InstanceStep, Scenes
<1>3. Played /\ [MCNext]_MCvars => [Next]_vars
  <2> SUFFICES ASSUME Played, [MCNext]_MCvars PROVE [Next]_vars
    OBVIOUS
  <2>1. ASSUME NEW u \in User, UserStep(u) PROVE Next
    BY <2>1 DEF UserStep, Next
  <2>2. ASSUME NEW u \in User, ApplicationStep(u) PROVE Next
    <3>0. scene \in DOMAIN Scenes
      BY <2>2 DEF ApplicationStep
    <3>1. PICK c \in Scenes[scene] : Call(u, c[1], c[2])
      BY <2>2 DEF ApplicationStep
    <3>2. c \in Calls
      BY <3>0, <3>1 DEF AllCalls
    <3> QED
      BY <3>1, <3>2 DEF Next
  <2>3. ASSUME NEW i \in 1 .. MaxSubs, UpdateStep(i) \/ ConsumerStep(i) PROVE Next
    BY <2>3 DEF UpdateStep, ConsumerStep, Next
  <2>4. CASE InstanceStep \/ UNCHANGED MCvars
    BY <2>4 DEF InstanceStep, MCvars
  <2> QED
    BY <2>1, <2>2, <2>3, <2>4 DEF MCNext
<1> QED
  BY <1>1, <1>2, <1>3, PTL DEF MCSpec, Spec

\* Whoever has an api can call it, and its client is deleted once (getInstance
\* and ~impl of polkacpp.cpp), for any number of threads, as long as the first
\* call of getInstance has returned before another one starts.
THEOREM InstanceIsAlive == MCSpec => []InstanceLives
<1>1. MCInit => SInv
  BY SingletonInit DEF MCInit
<1>2. SInv /\ [MCNext]_MCvars => SInv'
  <2> SUFFICES ASSUME SInv, [MCNext]_MCvars PROVE SInv'
    OBVIOUS
  <2>1. CASE UNCHANGED singleton
    BY <2>1 DEF singleton, SInv, Made, First, Alone, Ready, Refs, Gone
  <2>2. CASE InstanceStep
    BY <2>2, SingletonNext DEF InstanceStep
  <2> QED
    BY <2>1, <2>2 DEF MCNext, MCvars, UserStep, ApplicationStep, UpdateStep, ConsumerStep
<1>3. SInv => InstanceLives
  BY NullAssumption DEF SInv, Made, Ready, Refs, Gone, InstanceLives, Singleton!ClientOfHeldLives,
     Singleton!DeletedOnce
<1> QED
  BY <1>1, <1>2, <1>3, PTL DEF MCSpec
=============================================================================
