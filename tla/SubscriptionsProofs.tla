------------------------ MODULE SubscriptionsProofs ------------------------
(***************************************************************************)
(* Proofs about Subscriptions, for any threads, subscriptions, updates,    *)
(* timeouts and unsubscriptions and every size of the queue.               *)
(***************************************************************************)
EXTENDS Subscriptions, TLAPS

\* A leaf is tried with Zenon and then with SMT, unless it names one of them.
USE ZenonT(5), SMTT(20)

-----------------------------------------------------------------------------
(* The inductive invariant.                                                *)

IsResponse(p) == wire[p].update = 0

\* The p-th message is the answer that its thread waits for to subscribe.
Awaited(p) == IsResponse(p) /\ pc[wire[p].user] = "subscribing"

\* Requests are of threads that have begun, and name subscriptions.
Asked ==
    \A q \in asked : IF q.method = "subscribe" THEN pc[q.user] # "idle" /\ q.id = 0
                     ELSE pc[q.user] \notin {"idle", "subscribing"} /\ q.id \in 1 .. given

\* A subscription whose answer is on its way belongs to nobody yet.
Wired ==
    \A p \in 1 .. Len(wire) :
        /\ wire[p].id <= given
        /\ IsResponse(p) => pc[wire[p].user] # "idle"
        /\ Awaited(p) => /\ \A v \in User : sub[v] # wire[p].id
                         /\ consumer[wire[p].id] = "none"
                         /\ \A q \in 1 .. p - 1 : Awaited(q) => wire[q].id # wire[p].id

\* A subscription is of one thread, and has no consumer before its thread
\* registers it.
Subbed ==
    \A u \in User :
        /\ sub[u] <= given
        /\ pc[u] \in {"idle", "subscribing"} => sub[u] = 0
        /\ pc[u] = "register" /\ sub[u] # 0 => consumer[sub[u]] = "none"
        /\ \A v \in User : u # v /\ sub[u] = sub[v] => sub[u] = 0

\* Nothing is known of a subscription the node has not given.
Fresh ==
    /\ \A i \in Ids : i > given => sent[i] = 0 /\ consumer[i] = "none"
    /\ putting # <<>> => putting[1] <= given

Owned == Asked /\ Wired /\ Subbed /\ Fresh

\* A key that was not erased has semaphores as soon as somebody needs them.
Keyed ==
    /\ \A i \in Ids0 \ (semaphores \cup erased) :
            /\ queue[i] = <<>> /\ permR[i] = 0 /\ permW[i] = MaxSize - 1
            /\ consumer[i] \notin {"wait", "read"}
    /\ putting # <<>> => putting[1] \in semaphores \cup erased

\* What an unsubscription has done, and what it alone does.
Observed ==
    unsubs = 0 =>
        /\ erased = {} /\ fault = "none"
        /\ \A u \in User : pc[u] \notin {"unsubscribing", "unregister", "erase"}
        /\ \A i \in Ids0 : consumer[i] # "none" => i \in observers

IInv == TypeOK /\ Owned /\ Keyed /\ Observed /\ UpdatesKept

-----------------------------------------------------------------------------
(* Facts about messages and sequences.                                     *)

LEMMA Messages ==
    ASSUME NEW m \in Responses \cup Updates
    PROVE  /\ m.id \in Ids /\ m.update \in Nat
           /\ m.update = 0 => m.user \in User
           /\ m.update # 0 => m.update \in 1 .. MaxUpdates
BY SubscriptionsAssumption DEF Responses, Updates, Ids

LEMMA Ids0Ids == Ids \subseteq Ids0 /\ 0 \in Ids0 /\ 0 \notin Ids /\ (\A i \in Ids0 : i \in Nat /\ (i # 0 => i \in Ids))
BY SubscriptionsAssumption DEF Ids, Ids0

LEMMA Heads ==
    ASSUME NEW S, NEW s \in Seq(S), s # <<>>
    PROVE  /\ Len(s) \in Nat \ {0} /\ Head(s) = s[1] /\ Head(s) \in S
           /\ Tail(s) \in Seq(S) /\ Len(Tail(s)) = Len(s) - 1
           /\ \A k \in 1 .. Len(s) - 1 : Tail(s)[k] = s[k + 1]
OBVIOUS

\* A sequence is the function of its elements.
LEMMA ElementsOf ==
    ASSUME NEW s \in Seq(Nat)
    PROVE  s = [k \in 1 .. Len(s) |-> s[k]]
BY SMT

LEMMA Appends ==
    ASSUME NEW S, NEW s \in Seq(S), NEW e \in S
    PROVE  /\ Append(s, e) \in Seq(S) /\ Len(s) \in Nat /\ Len(Append(s, e)) = Len(s) + 1
           /\ Append(s, e)[Len(s) + 1] = e
           /\ \A k \in 1 .. Len(s) : Append(s, e)[k] = s[k]
OBVIOUS

-----------------------------------------------------------------------------
(* Types.                                                                  *)

LEMMA InitInv == Init => IInv
<1> SUFFICES ASSUME Init PROVE IInv
  OBVIOUS
<1> USE SubscriptionsAssumption DEF Init, Ids, Ids0
<1>1. TypeOK
  <2>1. /\ sent \in [Ids0 -> 0 .. MaxUpdates] /\ permR \in [Ids0 -> Nat] /\ permW \in [Ids0 -> Nat]
        /\ item \in [Ids0 -> Nat] /\ sub \in [User -> Ids0]
    OBVIOUS
  <2>2. queue \in [Ids0 -> Seq(Nat)] /\ handled \in [Ids0 -> Seq(Nat)] /\ wire \in Seq(Responses \cup Updates)
    OBVIOUS
  <2>3. /\ consumer \in [Ids0 -> {"none", "get", "wait", "read", "handle", "ended"}]
        /\ pc \in [User -> Labels]
    BY DEF Labels
  <2>4. /\ active \subseteq 1 .. given /\ given \in 0 .. MaxSubs /\ semaphores \subseteq Ids0 /\ observers \subseteq Ids0
        /\ asked \subseteq [user : User, method : {"subscribe", "unsubscribe"}, id : Ids0]
        /\ erased \subseteq Ids0 /\ putting = <<>>
    OBVIOUS
  <2>5. stuck \in BOOLEAN /\ timeouts \in Nat /\ unsubs \in Nat /\ fault \in {"none", "null"}
    OBVIOUS
  <2> HIDE DEF Init, Ids, Ids0
  <2> QED
    BY <2>1, <2>2, <2>3, <2>4, <2>5 DEF TypeOK
<1>3. Owned /\ Keyed /\ Observed
  BY DEF Owned, Asked, Wired, Subbed, Fresh, Keyed, Observed
<1>4. \A i \in Ids : handled[i] = UpTo(0) /\ Len(handled[i]) = 0
  BY DEF UpTo
<1>5. NothingLost
  <2> SUFFICES ASSUME NEW i \in Ids PROVE InClient(i) /\ OnWire(i)
    BY DEF NothingLost
  <2>1. Len(queue[i]) = 0 /\ Len(wire) = 0 /\ sent[i] = 0 /\ ~InPut(i) /\ consumer[i] # "handle"
    BY DEF InPut
  <2>2. Received(i) = 0
    BY <1>4, <2>1 DEF Taken, Stored, Received
  <2> QED
    BY <1>4, <2>1, <2>2 DEF InClient, OnWire
<1>6. PermitsMatch
  BY DEF PermitsMatch
<1> QED
  BY <1>1, <1>3, <1>5, <1>6 DEF IInv, UpdatesKept

LEMMA AddKeyType ==
    ASSUME TypeOK, NEW i \in Ids0, AddKey(i)
    PROVE  semaphores' \subseteq Ids0 /\ permR' \in [Ids0 -> Nat] /\ permW' \in [Ids0 -> Nat]
<1>1. MaxSize - 1 \in Nat /\ permR[i] \in Nat /\ permW[i] \in Nat
  BY SubscriptionsAssumption DEF TypeOK
<1> QED
  BY <1>1 DEF TypeOK, AddKey

LEMMA NodeType ==
    ASSUME TypeOK, Owned,
           \/ \E q \in asked : NodeSubscribes(q) \/ NodeUnsubscribes(q)
           \/ \E i \in Ids : NodeUpdates(i)
    PROVE  TypeOK'
<1> USE SubscriptionsAssumption DEF TypeOK
<1>1. ASSUME NEW q \in asked, NodeSubscribes(q) PROVE TypeOK'
  <2>1. given < MaxSubs
    BY <1>1 DEF NodeSubscribes
  <2>2. [user |-> q.user, id |-> given + 1, update |-> 0] \in Responses
    BY <1>1, <2>1 DEF Responses, Ids
  <2>3. wire' \in Seq(Responses \cup Updates)
    BY <1>1, <2>2, Appends DEF NodeSubscribes
  <2>4. active' \subseteq 1 .. given' /\ given' \in 0 .. MaxSubs
    BY <1>1, <2>1 DEF NodeSubscribes
  <2>5. asked' \subseteq asked
    BY <1>1 DEF NodeSubscribes
  <2> QED
    BY <1>1, <2>3, <2>4, <2>5 DEF NodeSubscribes, ws, chan, cons, users, bound
<1>2. ASSUME NEW q \in asked, NodeUnsubscribes(q) PROVE TypeOK'
  <2>1. q.id \in Ids
    BY <1>2 DEF Owned, Asked, NodeUnsubscribes, Ids
  <2>2. [user |-> q.user, id |-> q.id, update |-> 0] \in Responses
    BY <1>2, <2>1 DEF Responses, Ids
  <2>3. wire' \in Seq(Responses \cup Updates)
    BY <1>2, <2>2, Appends DEF NodeUnsubscribes
  <2> QED
    BY <1>2, <2>3 DEF NodeUnsubscribes, ws, chan, cons, users, bound
<1>3. ASSUME NEW i \in Ids, NodeUpdates(i) PROVE TypeOK'
  <2>0. /\ sent \in [Ids0 -> 0 .. MaxUpdates] /\ wire \in Seq(Responses \cup Updates)
        /\ sent[i] \in 0 .. MaxUpdates /\ sent[i] < MaxUpdates
    BY <1>3, Ids0Ids DEF NodeUpdates
  <2> HIDE DEF TypeOK
  <2>a. sent[i] + 1 \in 1 .. MaxUpdates
    BY <2>0
  <2>1. [id |-> i, update |-> sent[i] + 1] \in Updates
    BY <2>a DEF Updates
  <2>b. sent' \in [Ids0 -> 0 .. MaxUpdates]
    <3> DEFINE S == 0 .. MaxUpdates
    <3>1. sent' = [sent EXCEPT ![i] = sent[i] + 1] /\ sent \in [Ids0 -> S] /\ sent[i] + 1 \in S
      BY <1>3, <2>0, <2>a DEF NodeUpdates
    <3> HIDE DEF S
    <3>2. sent' \in [Ids0 -> S]
      BY <3>1
    <3> QED
      BY <3>2 DEF S
  <2>2. wire' \in Seq(Responses \cup Updates)
    BY <1>3, <2>0, <2>1, Appends DEF NodeUpdates
  <2> QED
    BY <1>3, <2>b, <2>2 DEF TypeOK, NodeUpdates, ws, chan, cons, users, bound
<1> QED
  BY <1>1, <1>2, <1>3

LEMMA WsType == ASSUME TypeOK, WsStep PROVE TypeOK'
<1> USE SubscriptionsAssumption DEF TypeOK
<1>1. CASE Response
  <2>1. Head(wire) \in Responses \cup Updates /\ wire' = Tail(wire) /\ wire' \in Seq(Responses \cup Updates)
    BY <1>1, Heads DEF Response
  <2>2. Head(wire).id \in Ids0
    BY <2>1, Messages, Ids0Ids
  <2>3. pc' \in [User -> Labels] /\ sub' \in [User -> Ids0]
    BY <1>1, <2>2 DEF Response, Goto, users, Labels
  <2> QED
    BY <1>1, <2>1, <2>3 DEF Response, node, ws, chan, cons, bound
<1>2. CASE Update
  <2>1. Head(wire) \in Responses \cup Updates /\ wire' = Tail(wire) /\ wire' \in Seq(Responses \cup Updates)
    BY <1>2, Heads DEF Update
  <2>a. Head(wire).update > 0
    BY <1>2 DEF Update
  <2> HIDE DEF TypeOK
  <2>2. Head(wire).id \in Ids /\ Head(wire).id \in Ids0 /\ Head(wire).update \in 1 .. MaxUpdates
    BY <2>1, <2>a, Messages, Ids0Ids
  <2>3. semaphores' \subseteq Ids0 /\ permR' \in [Ids0 -> Nat] /\ permW' \in [Ids0 -> Nat]
    BY <1>2, <2>2, AddKeyType DEF Update
  <2> QED
    BY <1>2, <2>1, <2>2, <2>3 DEF TypeOK, Update, node, cons, users, bound
<1>3. CASE Put
  <2>1. putting[1] \in Ids0 /\ putting[2] \in Nat
    BY <1>3, Ids0Ids DEF Put
  <2>2. queue[putting[1]] \in Seq(Nat)
    BY <2>1
  <2>3. Append(queue[putting[1]], putting[2]) \in Seq(Nat)
    BY <2>1, <2>2, Appends
  <2>4. permW' \in [Ids0 -> Nat] /\ permR' \in [Ids0 -> Nat]
    <3>1. permW \in [Ids0 -> Nat] /\ permR \in [Ids0 -> Nat]
      OBVIOUS
    <3> HIDE DEF TypeOK
    <3> QED
      BY <1>3, <2>1, <3>1 DEF Put
  <2>5. queue' \in [Ids0 -> Seq(Nat)]
    BY <1>3, <2>1, <2>3 DEF Put
  <2> QED
    BY <1>3, <2>4, <2>5 DEF Put, node, cons, users, bound
<1>4. CASE PutErased
  BY <1>4 DEF PutErased, node, ws, chan, cons, users, bound
<1> QED
  BY <1>1, <1>2, <1>3, <1>4 DEF WsStep

LEMMA UserType ==
    ASSUME TypeOK, NEW u \in User, Subscribe(u) \/ TimeOut(u) \/ Unsubscribe(u) \/ UserStep(u)
    PROVE  TypeOK'
<1> USE SubscriptionsAssumption DEF TypeOK, At, Goto
<1>0. sub[u] \in Ids0 /\ 0 \in Ids0
  BY DEF Ids0
<1>1. CASE Subscribe(u)
  <2>1. asked' \subseteq [user : User, method : {"subscribe", "unsubscribe"}, id : Ids0]
    BY <1>0, <1>1 DEF Subscribe
  <2>2. pc' \in [User -> Labels]
    BY <1>1 DEF Subscribe, Labels
  <2> QED
    BY <1>1, <2>1, <2>2 DEF Subscribe, node, ws, chan, cons, bound
<1>2. CASE TimeOut(u)
  <2>1. pc' \in [User -> Labels] /\ sub' \in [User -> Ids0]
    BY <1>0, <1>2 DEF TimeOut, Labels
  <2>2. timeouts' \in Nat
    BY <1>2 DEF TimeOut
  <2> QED
    BY <1>2, <2>1, <2>2 DEF TimeOut, node, ws, chan, cons
<1>3. CASE Unsubscribe(u)
  <2>1. asked' \subseteq [user : User, method : {"subscribe", "unsubscribe"}, id : Ids0]
    <3>1. [user |-> u, method |-> "unsubscribe", id |-> sub[u]] \in [user : User, method : {"subscribe", "unsubscribe"}, id : Ids0]
      BY <1>0
    <3> QED
      BY <1>3, <3>1 DEF Unsubscribe
  <2>2. pc' \in [User -> Labels]
    BY <1>3 DEF Unsubscribe, Labels
  <2>3. unsubs' \in Nat
    BY <1>3 DEF Unsubscribe
  <2>4. UNCHANGED <<node, wire, ws, chan, observers, cons, sub, erased, handled, timeouts, fault>>
    BY <1>3 DEF Unsubscribe
  <2> QED
    BY <2>1, <2>2, <2>3, <2>4 DEF node, ws, chan, cons
<1>4. CASE Register(u)
  <2>1. pc' \in [User -> Labels]
    BY <1>4 DEF Register, Labels
  <2> QED
    BY <1>0, <1>4, <2>1 DEF Register, node, ws, chan, bound
<1>5. CASE Unregister(u)
  <2>1. pc' \in [User -> Labels]
    BY <1>5 DEF Unregister, Labels
  <2> QED
    BY <1>5, <2>1 DEF Unregister, node, ws, chan, cons, bound
<1>6. CASE EraseKey(u)
  <2>1. pc' \in [User -> Labels]
    BY <1>6 DEF EraseKey, Labels
  <2>2. stuck' \in BOOLEAN
    BY <1>6 DEF EraseKey
  <2> QED
    BY <1>0, <1>6, <2>1, <2>2 DEF EraseKey, node, bound
<1> QED
  BY <1>1, <1>2, <1>3, <1>4, <1>5, <1>6 DEF UserStep

LEMMA ConsumerType == ASSUME TypeOK, NEW i \in Ids0, ConsumerStep(i) PROVE TypeOK'
<1> USE SubscriptionsAssumption DEF TypeOK
<1>1. CASE Get(i)
  <2>1. semaphores' \subseteq Ids0 /\ permR' \in [Ids0 -> Nat] /\ permW' \in [Ids0 -> Nat]
    BY <1>1, AddKeyType DEF Get
  <2> QED
    BY <1>1, <2>1 DEF Get, node, ws, users, bound
<1>2. CASE Wait(i)
  <2>1. permR' \in [Ids0 -> Nat]
    BY <1>2 DEF Wait
  <2> QED
    BY <1>2, <2>1 DEF Wait, node, ws, users, bound
<1>3. CASE Read(i)
  <2>0. queue[i] \in Seq(Nat)
    OBVIOUS
  <2>1. queue[i] # <<>> => Head(queue[i]) \in Nat /\ Tail(queue[i]) \in Seq(Nat)
    BY <2>0, Heads
  <2>2. item' \in [Ids0 -> Nat] /\ permW' \in [Ids0 -> Nat]
    <3>1. permW \in [Ids0 -> Nat] /\ item \in [Ids0 -> Nat] /\ permW[i] \in Nat
      OBVIOUS
    <3>2. \/ UNCHANGED <<permW, item>>
          \/ /\ queue[i] # <<>> /\ permW' = [permW EXCEPT ![i] = @ + 1]
             /\ item' = [item EXCEPT ![i] = Head(queue[i])]
      BY <1>3 DEF Read
    <3> HIDE DEF TypeOK
    <3>3. permW[i] + 1 \in Nat /\ (queue[i] # <<>> => Head(queue[i]) \in Nat)
      BY <2>1, <3>1
    <3>4. permW' \in [Ids0 -> Nat]
      BY <3>1, <3>2, <3>3
    <3>5. item' \in [Ids0 -> Nat]
      BY <3>1, <3>2, <3>3
    <3> QED
      BY <3>4, <3>5
  <2>3. queue' \in [Ids0 -> Seq(Nat)]
    <3>1. queue \in [Ids0 -> Seq(Nat)]
      OBVIOUS
    <3>2. queue' = queue \/ (queue[i] # <<>> /\ queue' = [queue EXCEPT ![i] = Tail(@)])
      BY <1>3 DEF Read
    <3> HIDE DEF TypeOK
    <3> QED
      BY <2>1, <3>1, <3>2
  <2>4. consumer' \in [Ids0 -> {"none", "get", "wait", "read", "handle", "ended"}] /\ fault' \in {"none", "null"}
    BY <1>3 DEF Read
  <2>5. UNCHANGED <<node, asked, wire, ws, semaphores, permR, observers, users, erased, handled, bound>>
    BY <1>3 DEF Read
  <2> QED
    BY <2>2, <2>3, <2>4, <2>5 DEF node, ws, users, bound
<1>4. CASE Handle(i)
  <2>0. handled[i] \in Seq(Nat) /\ item[i] \in Nat
    OBVIOUS
  <2>1. Append(handled[i], item[i]) \in Seq(Nat)
    BY <2>0, Appends
  <2>2. handled' \in [Ids0 -> Seq(Nat)]
    BY <1>4, <2>1 DEF Handle
  <2> QED
    BY <1>4, <2>2 DEF Handle, node, ws, chan, users, bound
<1> QED
  BY <1>1, <1>2, <1>3, <1>4 DEF ConsumerStep

LEMMA NextType == TypeOK /\ Owned /\ [Next]_vars => TypeOK'
<1>1. TypeOK /\ UNCHANGED vars => TypeOK'
  BY DEF TypeOK, vars, node, ws, chan, cons, users, bound
<1> QED
  BY <1>1, NodeType, WsType, UserType, ConsumerType DEF Next

-----------------------------------------------------------------------------
(* A subscription is of one thread.                                        *)

LEMMA WireType ==
    ASSUME TypeOK
    PROVE  /\ Len(wire) \in Nat
           /\ \A p \in 1 .. Len(wire) : wire[p].id \in Ids /\ wire[p].id \in Nat
           /\ \A p \in 1 .. Len(wire) : wire[p].update \in Nat
           /\ \A p \in 1 .. Len(wire) : wire[p].update = 0 => wire[p].user \in User
<1>1. wire \in Seq(Responses \cup Updates)
  BY DEF TypeOK
<1>2. Len(wire) \in Nat /\ \A p \in 1 .. Len(wire) : wire[p] \in Responses \cup Updates
  BY <1>1
<1>3. ASSUME NEW p \in 1 .. Len(wire)
      PROVE  /\ wire[p].id \in Ids /\ wire[p].update \in Nat
             /\ wire[p].update = 0 => wire[p].user \in User
  BY <1>2, Messages
<1> QED
  BY <1>2, <1>3, Ids0Ids

LEMMA WireTail ==
    ASSUME TypeOK, wire # <<>>, wire' = Tail(wire)
    PROVE  /\ Len(wire) \in Nat \ {0} /\ Head(wire) = wire[1]
           /\ Len(wire') = Len(wire) - 1
           /\ \A p \in 1 .. Len(wire') : p + 1 \in 1 .. Len(wire) /\ wire'[p] = wire[p + 1]
<1>1. wire \in Seq(Responses \cup Updates)
  BY DEF TypeOK
<1> QED
  BY <1>1, Heads

LEMMA WireAppend ==
    ASSUME TypeOK, NEW m \in Responses \cup Updates, wire' = Append(wire, m)
    PROVE  /\ Len(wire) \in Nat /\ Len(wire') = Len(wire) + 1 /\ wire'[Len(wire) + 1] = m
           /\ \A p \in 1 .. Len(wire) : wire'[p] = wire[p]
<1>1. wire \in Seq(Responses \cup Updates)
  BY DEF TypeOK
<1> QED
  BY <1>1, Appends

LEMMA GivenBound ==
    ASSUME TypeOK, NEW q \in asked, NodeSubscribes(q)
    PROVE  given + 1 \in Ids /\ given \in Nat
BY SubscriptionsAssumption DEF TypeOK, NodeSubscribes, Ids

LEMMA NodeOwned ==
    ASSUME TypeOK, Owned,
           \/ \E q \in asked : NodeSubscribes(q) \/ NodeUnsubscribes(q)
           \/ \E i \in Ids : NodeUpdates(i)
    PROVE  Owned'
<1> USE DEF Owned
<1>0. /\ given \in Nat /\ (\A u \in User : sub[u] \in Nat) /\ (\A i \in Ids : i \in Nat)
      /\ putting # <<>> => putting[1] \in Nat
  BY Ids0Ids DEF TypeOK
<1>w. Len(wire) \in Nat /\ \A p \in 1 .. Len(wire) : wire[p].id \in Ids /\ wire[p].id \in Nat
  BY WireType
<1>u. \A p \in 1 .. Len(wire) : wire[p].update = 0 => wire[p].user \in User
  BY WireType
<1>1. ASSUME NEW q \in asked, NodeSubscribes(q) PROVE Owned'
  <2> DEFINE m == [user |-> q.user, id |-> given + 1, update |-> 0]
  <2>0. UNCHANGED <<sent, ws, consumer, pc, sub>> /\ given' = given + 1 /\ wire' = Append(wire, m)
    BY <1>1 DEF NodeSubscribes, cons, users
  <2>1. given + 1 \in Ids /\ q.user \in User /\ m \in Responses \cup Updates
    BY <1>1, GivenBound DEF NodeSubscribes, TypeOK, Responses
  <2>2. Asked'
    BY <1>0, <1>1, <2>0 DEF Asked, NodeSubscribes
  <2>3. Wired'
    <3>1. /\ Len(wire) \in Nat /\ Len(wire') = Len(wire) + 1 /\ wire'[Len(wire) + 1] = m
          /\ \A p \in 1 .. Len(wire) : wire'[p] = wire[p]
      BY <2>0, <2>1, WireAppend
    <3>2. m.id = given + 1 /\ m.user = q.user /\ m.update = 0 /\ pc[q.user] # "idle"
      BY <1>1 DEF Asked, NodeSubscribes
    <3>3. consumer[given + 1] = "none" /\ \A v \in User : sub[v] # given + 1
      BY <1>0, <2>1 DEF Fresh, Subbed
    <3>4. \A p \in 1 .. Len(wire) : wire[p].id \in Nat /\ wire[p].id <= given
      BY <1>w DEF Wired
    <3> HIDE DEF m
    <3>5. ASSUME NEW p \in 1 .. Len(wire) PROVE Awaited(p)' <=> Awaited(p)
      BY <2>0, <3>1 DEF Awaited, IsResponse
    <3>6. ASSUME NEW p \in 1 .. Len(wire') PROVE Wired!(p)'
      <4>1. CASE p = Len(wire) + 1
        BY <1>0, <2>0, <3>1, <3>2, <3>3, <3>4, <4>1 DEF Wired
      <4>2. CASE p \in 1 .. Len(wire)
        <5>1. wire'[p] = wire[p] /\ 1 .. p - 1 \subseteq 1 .. Len(wire)
          BY <3>1, <4>2
        <5> QED
          BY <1>0, <2>0, <3>1, <3>4, <3>5, <4>2, <5>1 DEF Wired, IsResponse
      <4> QED
        BY <3>1, <4>1, <4>2
    <3> QED
      BY <3>6 DEF Wired
  <2>4. Subbed'
    BY <1>0, <2>0 DEF Subbed
  <2>5. Fresh'
    BY <1>0, <2>0 DEF Fresh, ws
  <2> QED
    BY <2>2, <2>3, <2>4, <2>5
<1>2. ASSUME NEW q \in asked, NodeUnsubscribes(q) PROVE Owned'
  <2> DEFINE m == [user |-> q.user, id |-> q.id, update |-> 0]
  <2>0. UNCHANGED <<given, sent, ws, consumer, pc, sub>> /\ wire' = Append(wire, m)
    BY <1>2 DEF NodeUnsubscribes, cons, users
  <2>1. q.user \in User /\ q.id \in 1 .. given /\ pc[q.user] \notin {"idle", "subscribing"}
    BY <1>2 DEF NodeUnsubscribes, TypeOK, Asked
  <2>2. m \in Responses \cup Updates
    <3>1. q.id \in Ids
      BY <1>0, <2>1, SubscriptionsAssumption DEF Ids, TypeOK
    <3> QED
      BY <2>1, <3>1 DEF Responses
  <2>3. Asked'
    BY <1>2, <2>0 DEF Asked, NodeUnsubscribes
  <2>4. Wired'
    <3>1. /\ Len(wire) \in Nat /\ Len(wire') = Len(wire) + 1 /\ wire'[Len(wire) + 1] = m
          /\ \A p \in 1 .. Len(wire) : wire'[p] = wire[p]
      BY <2>0, <2>2, WireAppend
    <3>2. m.id = q.id /\ m.user = q.user /\ m.update = 0
      OBVIOUS
    <3> HIDE DEF m
    <3>3. ASSUME NEW p \in 1 .. Len(wire) PROVE Awaited(p)' <=> Awaited(p)
      BY <2>0, <3>1 DEF Awaited, IsResponse
    <3>4. ASSUME NEW p \in 1 .. Len(wire') PROVE Wired!(p)'
      <4>1. CASE p = Len(wire) + 1
        BY <1>0, <2>0, <2>1, <3>1, <3>2, <4>1 DEF Wired, Awaited
      <4>2. CASE p \in 1 .. Len(wire)
        <5>1. wire'[p] = wire[p] /\ 1 .. p - 1 \subseteq 1 .. Len(wire)
          BY <3>1, <4>2
        <5> QED
          BY <1>0, <2>0, <3>1, <3>3, <4>2, <5>1 DEF Wired, IsResponse
      <4> QED
        BY <3>1, <4>1, <4>2
    <3> QED
      BY <3>4 DEF Wired
  <2>5. Subbed' /\ Fresh'
    BY <2>0 DEF Subbed, Fresh, ws
  <2> QED
    BY <2>3, <2>4, <2>5
<1>3. ASSUME NEW i \in Ids, NodeUpdates(i) PROVE Owned'
  <2> DEFINE m == [id |-> i, update |-> sent[i] + 1]
  <2>0. UNCHANGED <<given, asked, ws, consumer, pc, sub>> /\ wire' = Append(wire, m)
    BY <1>3 DEF NodeUpdates, cons, users
  <2>1. i \in 1 .. given /\ sent[i] \in Nat /\ sent[i] + 1 \in 1 .. MaxUpdates
    <3>1. sent[i] \in 0 .. MaxUpdates /\ sent[i] < MaxUpdates /\ i \in 1 .. given
      BY <1>3, Ids0Ids DEF NodeUpdates, TypeOK
    <3> QED
      BY <3>1, SubscriptionsAssumption
  <2>2. m \in Responses \cup Updates
    BY <2>1 DEF Updates
  <2>3. Asked'
    BY <2>0 DEF Asked
  <2>4. Wired'
    <3>1. /\ Len(wire) \in Nat /\ Len(wire') = Len(wire) + 1 /\ wire'[Len(wire) + 1] = m
          /\ \A p \in 1 .. Len(wire) : wire'[p] = wire[p]
      BY <2>0, <2>2, WireAppend
    <3>2. m.id = i /\ m.update # 0
      BY <2>1
    <3> HIDE DEF m
    <3>3. ASSUME NEW p \in 1 .. Len(wire) PROVE Awaited(p)' <=> Awaited(p)
      BY <2>0, <3>1 DEF Awaited, IsResponse
    <3>4. ASSUME NEW p \in 1 .. Len(wire') PROVE Wired!(p)'
      <4>1. CASE p = Len(wire) + 1
        BY <1>0, <2>0, <2>1, <3>1, <3>2, <4>1 DEF Wired, Awaited, IsResponse
      <4>2. CASE p \in 1 .. Len(wire)
        <5>1. wire'[p] = wire[p] /\ 1 .. p - 1 \subseteq 1 .. Len(wire)
          BY <3>1, <4>2
        <5> QED
          BY <1>0, <2>0, <3>1, <3>3, <4>2, <5>1 DEF Wired, IsResponse
      <4> QED
        BY <3>1, <4>1, <4>2
    <3> QED
      BY <3>4 DEF Wired
  <2>5. Subbed' 
    BY <2>0 DEF Subbed
  <2>6. Fresh'
    BY <1>0, <1>3, <2>0, <2>1, Ids0Ids DEF Fresh, ws, NodeUpdates, TypeOK
  <2> QED
    BY <2>3, <2>4, <2>5, <2>6
<1> QED
  BY <1>1, <1>2, <1>3

LEMMA WsOwned == ASSUME TypeOK, Owned, WsStep PROVE Owned'
<1> USE DEF Owned
<1>w. Len(wire) \in Nat /\ \A p \in 1 .. Len(wire) : wire[p].id \in Ids /\ wire[p].id \in Nat
  BY WireType
<1>u. \A p \in 1 .. Len(wire) : wire[p].update = 0 => wire[p].user \in User
  BY WireType
<1>0. /\ given \in Nat /\ pc \in [User -> Labels] /\ sub \in [User -> Ids0]
      /\ \A u \in User : sub[u] \in Nat
  BY Ids0Ids DEF TypeOK
<1>1. CASE Response
  <2> DEFINE m == Head(wire)
  <2>0. UNCHANGED <<given, asked, sent, putting, consumer>> /\ wire' = Tail(wire) /\ wire # <<>> /\ m.update = 0
    BY <1>1 DEF Response, node, ws, cons
  <2>1. /\ Len(wire) \in Nat \ {0} /\ Len(wire') = Len(wire) - 1 /\ m = wire[1]
        /\ \A p \in 1 .. Len(wire') : p + 1 \in 1 .. Len(wire) /\ wire'[p] = wire[p + 1]
    BY <2>0, WireTail
  <2>2. m.user \in User /\ m.id \in Ids0 /\ m.id \in Nat /\ m.id <= given
    <3>1. 1 \in 1 .. Len(wire)
      BY <2>1
    <3> QED
      BY <1>w, <1>u, <2>0, <2>1, <3>1, Ids0Ids DEF Wired
  <2>3. \/ /\ pc[m.user] = "subscribing" /\ sub' = [sub EXCEPT ![m.user] = m.id]
           /\ pc' = [pc EXCEPT ![m.user] = "register"]
        \/ /\ pc[m.user] = "unsubscribing" /\ pc' = [pc EXCEPT ![m.user] = "unregister"] /\ sub' = sub
        \/ pc[m.user] # "subscribing" /\ UNCHANGED <<pc, sub>>
    BY <1>1 DEF Response, Goto, users
  <2> HIDE DEF m
  <2>4. ASSUME NEW v \in User
        PROVE  /\ pc'[v] \in {"idle", "subscribing"} => pc'[v] = pc[v]
               /\ pc'[v] = "subscribing" => v # m.user
               /\ v # m.user => pc'[v] = pc[v] /\ sub'[v] = sub[v]
               /\ sub'[v] # sub[v] => v = m.user /\ sub'[v] = m.id /\ pc[v] = "subscribing" /\ pc'[v] = "register"
               /\ pc'[v] = "register" => pc[v] = "register" \/ pc[v] = "subscribing"
    BY <1>0, <2>2, <2>3
  <2>5. pc[m.user] = "subscribing" => Awaited(1)
    BY <2>0, <2>1 DEF Awaited, IsResponse
  <2>6. Asked'
    BY <1>0, <2>0, <2>4 DEF Asked, TypeOK
  <2>7. Wired'
    <3>1. ASSUME NEW p \in 1 .. Len(wire') PROVE Awaited(p)' => Awaited(p + 1) /\ wire[p + 1].user # m.user
      BY <2>1, <2>3, <2>4, <1>u DEF Awaited, IsResponse
    <3>2. ASSUME NEW p \in 1 .. Len(wire') PROVE Wired!(p)'
      <4>1. p + 1 \in 1 .. Len(wire) /\ wire'[p] = wire[p + 1]
        BY <2>1
      <4>2. wire'[p].id <= given' /\ (IsResponse(p)' => pc'[wire'[p].user] # "idle")
        BY <2>0, <2>4, <4>1, <1>u DEF Wired, IsResponse
      <4>3. ASSUME Awaited(p)' PROVE /\ \A v \in User : sub'[v] # wire'[p].id
                                    /\ consumer'[wire'[p].id] = "none"
                                    /\ \A q \in 1 .. p - 1 : Awaited(q)' => wire'[q].id # wire'[p].id
        <5>1. Awaited(p + 1)
          BY <3>1, <4>3
        <5>2. pc[m.user] = "subscribing" => wire[1].id # wire[p + 1].id
          BY <2>1, <2>5, <4>1, <5>1 DEF Wired
        <5>3. \A v \in User : sub'[v] # wire'[p].id
          BY <2>1, <2>4, <4>1, <5>1, <5>2 DEF Wired
        <5>4. ASSUME NEW q \in 1 .. p - 1, Awaited(q)' PROVE wire'[q].id # wire'[p].id
          <6>1. q \in 1 .. Len(wire') /\ q + 1 \in 1 .. (p + 1) - 1
            BY <2>1
          <6>2. Awaited(q + 1) /\ wire'[q] = wire[q + 1]
            BY <2>1, <3>1, <5>4, <6>1
          <6> QED
            BY <4>1, <5>1, <6>1, <6>2 DEF Wired
        <5> QED
          BY <2>0, <4>1, <5>1, <5>3, <5>4 DEF Wired
      <4> QED
        BY <4>2, <4>3
    <3> QED
      BY <3>2 DEF Wired
  <2>8. Subbed'
    <3>1. ASSUME NEW u \in User, sub'[u] # sub[u] PROVE Subbed!(u)'
      <4>1. u = m.user /\ sub'[u] = m.id /\ Awaited(1) /\ pc'[u] = "register"
        BY <2>4, <2>5, <3>1
      <4>2. consumer[m.id] = "none" /\ \A v \in User : sub[v] # m.id
        BY <2>1, <4>1 DEF Wired
      <4> QED
        BY <2>0, <2>2, <2>4, <4>1, <4>2
    <3>2. ASSUME NEW u \in User, sub'[u] = sub[u] PROVE Subbed!(u)'
      <4>1. ASSUME NEW v \in User, sub'[v] # sub[v] PROVE sub'[v] # sub'[u]
        BY <2>1, <2>4, <2>5, <3>2, <4>1 DEF Wired
      <4>2. \A v \in User : u # v /\ sub'[u] = sub'[v] => sub'[u] = 0
        BY <3>2, <4>1 DEF Subbed
      <4>3. pc'[u] = "register" /\ sub'[u] # 0 => pc[u] = "register"
        BY <2>4, <3>2 DEF Subbed
      <4> QED
        BY <2>0, <2>4, <3>2, <4>2, <4>3 DEF Subbed
    <3> QED
      BY <3>1, <3>2 DEF Subbed
  <2>9. Fresh'
    BY <2>0 DEF Fresh
  <2> QED
    BY <2>6, <2>7, <2>8, <2>9
<1>2. CASE Update
  <2>0. /\ UNCHANGED <<given, asked, sent, consumer, pc, sub>> /\ wire' = Tail(wire) /\ wire # <<>>
        /\ putting' = <<Head(wire).id, Head(wire).update>>
    BY <1>2 DEF Update, node, users, cons
  <2>1. /\ Len(wire) \in Nat \ {0} /\ Len(wire') = Len(wire) - 1 /\ Head(wire) = wire[1]
        /\ \A p \in 1 .. Len(wire') : p + 1 \in 1 .. Len(wire) /\ wire'[p] = wire[p + 1]
    BY <2>0, WireTail
  <2>2. Asked' /\ Subbed'
    BY <2>0 DEF Asked, Subbed
  <2>3. Wired'
    <3>1. ASSUME NEW p \in 1 .. Len(wire') PROVE Awaited(p)' <=> Awaited(p + 1)
      BY <2>0, <2>1 DEF Awaited, IsResponse
    <3>2. ASSUME NEW p \in 1 .. Len(wire') PROVE Wired!(p)'
      <4>1. p + 1 \in 1 .. Len(wire) /\ wire'[p] = wire[p + 1]
        BY <2>1
      <4>2. ASSUME Awaited(p)', NEW q \in 1 .. p - 1, Awaited(q)' PROVE wire'[q].id # wire'[p].id
        <5>1. q \in 1 .. Len(wire') /\ q + 1 \in 1 .. (p + 1) - 1
          BY <2>1
        <5>2. Awaited(p + 1) /\ Awaited(q + 1) /\ wire'[q] = wire[q + 1]
          BY <2>1, <3>1, <4>2, <5>1
        <5> QED
          BY <4>1, <5>1, <5>2 DEF Wired
      <4> QED
        BY <2>0, <3>1, <4>1, <4>2 DEF Wired, IsResponse
    <3> QED
      BY <3>2 DEF Wired
  <2>4. Fresh'
    BY <2>0, <2>1 DEF Fresh, Wired
  <2> QED
    BY <2>2, <2>3, <2>4
<1>3. CASE Put \/ PutErased
  <2>1. UNCHANGED <<given, asked, sent, consumer, pc, sub, wire>> /\ (putting' = putting \/ putting' = <<>>)
    BY <1>3 DEF Put, PutErased, node, users, cons, ws
  <2> QED
    BY <2>1 DEF Asked, Wired, Subbed, Fresh, Awaited, IsResponse
<1> QED
  BY <1>1, <1>2, <1>3 DEF WsStep

LEMMA WiredKept ==
    ASSUME TypeOK, Wired, wire' = wire, given' = given,
           \A v \in User : /\ pc'[v] = "idle" => pc[v] = "idle"
                           /\ pc'[v] = "subscribing" => pc[v] \in {"idle", "subscribing"}
                           /\ sub'[v] \in {sub[v], 0},
           \A p \in 1 .. Len(wire) : Awaited(p) => consumer'[wire[p].id] = "none"
    PROVE  Wired'
<1>1. \A p \in 1 .. Len(wire) : wire[p].update = 0 => wire[p].user \in User
  BY WireType
<1>2. Len(wire) \in Nat /\ \A p \in 1 .. Len(wire) : wire[p].id # 0
  BY WireType, Ids0Ids
<1>3. ASSUME NEW p \in 1 .. Len(wire) PROVE Awaited(p)' => Awaited(p)
  <2>1. IsResponse(p) => wire[p].user \in User /\ pc[wire[p].user] # "idle"
    BY <1>1 DEF Wired, IsResponse
  <2> QED
    BY <2>1 DEF Awaited, IsResponse
<1>4. ASSUME NEW p \in 1 .. Len(wire) PROVE Wired!(p)'
  <2>1. wire[p].id <= given /\ (IsResponse(p)' => pc'[wire[p].user] # "idle")
    BY <1>1 DEF Wired, IsResponse
  <2>2. ASSUME Awaited(p)' PROVE /\ \A v \in User : sub'[v] # wire[p].id
                                /\ consumer'[wire[p].id] = "none"
                                /\ \A q \in 1 .. p - 1 : Awaited(q)' => wire[q].id # wire[p].id
    <3>1. Awaited(p)
      BY <1>3, <2>2
    <3>2. 1 .. p - 1 \subseteq 1 .. Len(wire)
      BY <1>2
    <3>3. /\ \A v \in User : sub[v] # wire[p].id
          /\ consumer[wire[p].id] = "none"
          /\ \A q \in 1 .. p - 1 : Awaited(q) => wire[q].id # wire[p].id
      BY <3>1 DEF Wired
    <3>4. \A q \in 1 .. p - 1 : Awaited(q)' => wire[q].id # wire[p].id
      BY <1>3, <3>2, <3>3
    <3>5. consumer'[wire[p].id] = "none"
      BY <3>1
    <3>6. \A v \in User : sub'[v] # wire[p].id
      BY <1>2, <3>3
    <3> QED
      BY <3>4, <3>5, <3>6
  <2> QED
    BY <2>1, <2>2
<1> QED
  BY <1>4 DEF Wired

LEMMA UserOwned ==
    ASSUME TypeOK, Owned, NEW u \in User, Subscribe(u) \/ TimeOut(u) \/ Unsubscribe(u) \/ UserStep(u)
    PROVE  Owned'
<1> USE DEF Owned
<1>0. /\ given \in Nat /\ pc \in [User -> Labels] /\ sub \in [User -> Ids0]
      /\ (\A v \in User : sub[v] \in Nat) /\ (\A q \in asked : q.user \in User)
      /\ consumer \in [Ids0 -> {"none", "get", "wait", "read", "handle", "ended"}]
      /\ (\A i \in Ids : i \in Nat /\ i \in Ids0)
  BY Ids0Ids DEF TypeOK
<1>w. \A p \in 1 .. Len(wire) : wire[p].id \in Ids0
  BY WireType, Ids0Ids
<1>1. CASE Subscribe(u)
  <2>0. /\ UNCHANGED <<given, sent, wire, putting, consumer, sub>>
        /\ asked' = asked \cup {[user |-> u, method |-> "subscribe", id |-> 0]}
        /\ pc' = [pc EXCEPT ![u] = "subscribing"] /\ pc[u] = "idle"
    BY <1>1 DEF Subscribe, At, Goto, node, ws, cons
  <2>1. \A v \in User : v # u => pc'[v] = pc[v]
    BY <1>0, <2>0
  <2>2. pc'[u] = "subscribing"
    BY <1>0, <2>0
  <2>3. Asked'
    <3>1. ASSUME NEW q \in asked', q \notin asked PROVE q.user = u /\ q.method = "subscribe" /\ q.id = 0
      <4>1. q = [user |-> u, method |-> "subscribe", id |-> 0]
        BY <2>0, <3>1
      <4> QED
        BY <4>1
    <3>2. \A q \in asked : q.user # u
      BY <2>0 DEF Asked
    <3> QED
      BY <1>0, <2>0, <2>1, <2>2, <3>1, <3>2 DEF Asked
  <2>4. Wired'
    BY <2>0, <2>1, <2>2, WiredKept DEF Wired
  <2>5. Subbed' /\ Fresh'
    BY <2>0, <2>1, <2>2 DEF Subbed, Fresh
  <2> QED
    BY <2>3, <2>4, <2>5
<1>2. CASE TimeOut(u)
  <2>0. /\ UNCHANGED <<given, sent, wire, putting, consumer, asked>>
        /\ \/ pc[u] = "subscribing" /\ sub' = [sub EXCEPT ![u] = 0] /\ pc' = [pc EXCEPT ![u] = "register"]
           \/ pc[u] = "unsubscribing" /\ sub' = sub /\ pc' = [pc EXCEPT ![u] = "unregister"]
    BY <1>2 DEF TimeOut, At, Goto, node, ws, cons
  <2>1. /\ \A v \in User : v # u => pc'[v] = pc[v] /\ sub'[v] = sub[v]
        /\ pc'[u] \in {"register", "unregister"} /\ sub'[u] = sub[u]
        /\ pc'[u] = "register" => sub'[u] = 0
    BY <1>0, <2>0 DEF Subbed
  <2>2. Asked'
    BY <1>0, <2>0, <2>1 DEF Asked
  <2>3. Wired'
    BY <2>0, <2>1, WiredKept DEF Wired
  <2>4. Subbed' /\ Fresh'
    BY <2>0, <2>1 DEF Subbed, Fresh
  <2> QED
    BY <2>2, <2>3, <2>4
<1>3. CASE Unsubscribe(u)
  <2>0. /\ UNCHANGED <<given, sent, wire, putting, consumer, sub>> /\ pc[u] = "subscribed"
        /\ \/ asked' = asked /\ pc' = [pc EXCEPT ![u] = "done"]
           \/ /\ asked' = asked \cup {[user |-> u, method |-> "unsubscribe", id |-> sub[u]]}
              /\ pc' = [pc EXCEPT ![u] = "unsubscribing"] /\ sub[u] # 0
    BY <1>3 DEF Unsubscribe, At, Goto, node, ws, cons
  <2>1. (\A v \in User : v # u => pc'[v] = pc[v]) /\ pc'[u] \in {"done", "unsubscribing"}
    BY <1>0, <2>0
  <2>2. Asked'
    <3>1. ASSUME NEW q \in asked', q \notin asked
          PROVE  q.user = u /\ q.method = "unsubscribe" /\ q.id = sub[u] /\ sub[u] # 0
      <4>1. q = [user |-> u, method |-> "unsubscribe", id |-> sub[u]] /\ sub[u] # 0
        BY <2>0, <3>1
      <4> QED
        BY <4>1
    <3>2. sub[u] # 0 => sub[u] \in 1 .. given
      BY <1>0 DEF Subbed
    <3> QED
      BY <1>0, <2>0, <2>1, <3>1, <3>2 DEF Asked
  <2>3. Wired'
    BY <2>0, <2>1, WiredKept DEF Wired
  <2>4. Subbed' /\ Fresh'
    BY <2>0, <2>1 DEF Subbed, Fresh
  <2> QED
    BY <2>2, <2>3, <2>4
<1>4. CASE Register(u)
  <2>0. /\ UNCHANGED <<given, sent, wire, putting, asked, sub>> /\ pc[u] = "register"
        /\ pc' = [pc EXCEPT ![u] = "subscribed"] /\ consumer' = [consumer EXCEPT ![sub[u]] = "get"]
    BY <1>4 DEF Register, At, Goto, node, ws
  <2>1. (\A v \in User : v # u => pc'[v] = pc[v]) /\ pc'[u] = "subscribed"
    BY <1>0, <2>0
  <2>2. \A i \in Ids0 : i # sub[u] => consumer'[i] = consumer[i]
    BY <1>0, <2>0
  <2>3. Asked'
    BY <1>0, <2>0, <2>1 DEF Asked
  <2>4. Wired'
    <3>1. \A p \in 1 .. Len(wire) : Awaited(p) => consumer'[wire[p].id] = "none"
      BY <1>w, <2>2 DEF Wired
    <3> QED
      BY <2>0, <2>1, <3>1, WiredKept
  <2>5. Subbed'
    BY <1>0, <2>0, <2>1, <2>2 DEF Subbed
  <2>6. Fresh'
    BY <1>0, <2>0, <2>2 DEF Fresh, Subbed
  <2> QED
    BY <2>3, <2>4, <2>5, <2>6
<1>5. CASE Unregister(u) \/ EraseKey(u)
  <2>0. /\ UNCHANGED <<given, sent, wire, putting, asked, sub>> /\ pc[u] \in {"unregister", "erase"}
        /\ \E l \in {"erase", "done"} : pc' = [pc EXCEPT ![u] = l]
        /\ \/ consumer' = consumer
           \/ consumer' = [consumer EXCEPT ![sub[u]] = IF @ = "wait" THEN "read" ELSE @]
    BY <1>5 DEF Unregister, EraseKey, At, Goto, node, ws, cons
  <2>1. (\A v \in User : v # u => pc'[v] = pc[v]) /\ pc'[u] \in {"erase", "done"}
    BY <1>0, <2>0
  <2>2. \A i \in Ids0 : consumer'[i] = "none" <=> consumer[i] = "none"
    BY <1>0, <2>0
  <2>3. Asked'
    BY <1>0, <2>0, <2>1 DEF Asked
  <2>4. Wired'
    <3>1. \A p \in 1 .. Len(wire) : Awaited(p) => consumer'[wire[p].id] = "none"
      BY <1>w, <2>2 DEF Wired
    <3> QED
      BY <2>0, <2>1, <3>1, WiredKept
  <2>5. Subbed'
    BY <1>0, <2>0, <2>1, <2>2 DEF Subbed
  <2>6. Fresh'
    BY <1>0, <2>0, <2>2 DEF Fresh
  <2> QED
    BY <2>3, <2>4, <2>5, <2>6
<1> QED
  BY <1>1, <1>2, <1>3, <1>4, <1>5 DEF UserStep

LEMMA ConsumerOwned == ASSUME TypeOK, Owned, NEW i \in Ids0, ConsumerStep(i) PROVE Owned'
<1> USE DEF Owned
<1>0. consumer \in [Ids0 -> {"none", "get", "wait", "read", "handle", "ended"}]
  BY DEF TypeOK
<1>w. \A p \in 1 .. Len(wire) : wire[p].id \in Ids0
  BY WireType, Ids0Ids
<1>1. /\ UNCHANGED <<given, sent, wire, putting, asked, pc, sub>>
      /\ \/ consumer' = consumer
         \/ /\ consumer[i] \in {"get", "wait", "read", "handle"}
            /\ \E l \in {"get", "wait", "read", "handle", "ended"} : consumer' = [consumer EXCEPT ![i] = l]
  BY DEF ConsumerStep, Get, Wait, Read, Handle, node, ws, users
<1>2. \A j \in Ids0 : consumer'[j] = "none" <=> consumer[j] = "none"
  BY <1>0, <1>1
<1>3. Wired'
  <2>1. \A p \in 1 .. Len(wire) : Awaited(p) => consumer'[wire[p].id] = "none"
    BY <1>w, <1>2 DEF Wired
  <2> QED
    BY <1>1, <2>1, WiredKept
<1>4. Asked'
  BY <1>1 DEF Asked
<1>5. Subbed' /\ Fresh'
  BY <1>1, <1>2, Ids0Ids DEF Subbed, Fresh, TypeOK
<1> QED
  BY <1>3, <1>4, <1>5

LEMMA NextOwned == TypeOK /\ Owned /\ [Next]_vars => Owned'
<1>1. Owned /\ UNCHANGED vars => Owned'
  BY DEF Owned, Asked, Wired, Subbed, Fresh, Awaited, IsResponse, vars, node, ws, cons, users
<1> QED
  BY <1>1, NodeOwned, WsOwned, UserOwned, ConsumerOwned DEF Next

-----------------------------------------------------------------------------
(* Keys and permits.                                                       *)

\* addKey changes no permit of a key that was not erased.
LEMMA AddKeyKeeps ==
    ASSUME TypeOK, Keyed, NEW j \in Ids0, AddKey(j)
    PROVE  /\ semaphores' = semaphores \cup {j}
           /\ \A i \in Ids0 : i # j => permR'[i] = permR[i] /\ permW'[i] = permW[i]
           /\ \A i \in Ids0 \ erased : permR'[i] = permR[i] /\ permW'[i] = permW[i]
<1>1. permR \in [Ids0 -> Nat] /\ permW \in [Ids0 -> Nat]
  BY DEF TypeOK
<1>2. j \notin semaphores \cup erased => permR[j] = 0 /\ permW[j] = MaxSize - 1
  BY DEF Keyed
<1> QED
  BY <1>1, <1>2 DEF AddKey

LEMMA PuttingType == ASSUME TypeOK, putting # <<>> PROVE putting[1] \in Ids /\ putting[1] \in Ids0 /\ putting[2] \in Nat
BY Ids0Ids, SubscriptionsAssumption DEF TypeOK

LEMMA NextKeyed == TypeOK /\ Keyed /\ [Next]_vars => Keyed'
<1> SUFFICES ASSUME TypeOK, Keyed, [Next]_vars PROVE Keyed'
  OBVIOUS
<1>0. /\ permR \in [Ids0 -> Nat] /\ permW \in [Ids0 -> Nat] /\ queue \in [Ids0 -> Seq(Nat)]
      /\ consumer \in [Ids0 -> {"none", "get", "wait", "read", "handle", "ended"}]
      /\ sub \in [User -> Ids0]
  BY DEF TypeOK
<1>1. CASE UNCHANGED <<semaphores, erased, queue, permR, permW, consumer, putting>>
  BY <1>1 DEF Keyed
<1>2. CASE Update
  <2>1. Head(wire).id \in Ids0
    BY <1>2, WireTail, WireType, Ids0Ids DEF Update
  <2>2. UNCHANGED <<queue, consumer, erased>> /\ putting'[1] = Head(wire).id /\ AddKey(Head(wire).id)
    BY <1>2 DEF Update, cons
  <2>3. /\ semaphores' = semaphores \cup {Head(wire).id}
        /\ \A i \in Ids0 : i # Head(wire).id => permR'[i] = permR[i] /\ permW'[i] = permW[i]
    BY <2>1, <2>2, AddKeyKeeps
  <2> QED
    BY <2>2, <2>3 DEF Keyed
<1>3. CASE Put
  <2>1. putting[1] \in Ids0 /\ putting[1] \in semaphores /\ putting' = <<>>
    BY <1>3, PuttingType DEF Put
  <2>2. UNCHANGED <<semaphores, consumer, erased>>
    BY <1>3 DEF Put, cons
  <2>3. \A i \in Ids0 : i # putting[1] => permR'[i] = permR[i] /\ permW'[i] = permW[i] /\ queue'[i] = queue[i]
    BY <1>0, <1>3, <2>1 DEF Put
  <2> QED
    BY <2>1, <2>2, <2>3 DEF Keyed
<1>4. ASSUME NEW u \in User, Register(u) PROVE Keyed'
  BY <1>0, <1>4 DEF Keyed, Register, chan, ws
<1>5. ASSUME NEW u \in User, EraseKey(u) PROVE Keyed'
  <2>1. /\ UNCHANGED <<queue, permR, permW, putting>>
        /\ erased' = erased \cup {sub[u]} /\ semaphores' = semaphores \ {sub[u]}
        /\ \A i \in Ids0 : i # sub[u] => consumer'[i] = consumer[i]
    BY <1>0, <1>5 DEF EraseKey
  <2> QED
    BY <2>1 DEF Keyed
<1>6. ASSUME NEW j \in Ids0, Get(j) PROVE Keyed'
  <2>1. UNCHANGED <<queue, erased, putting>> /\ \A i \in Ids0 : i # j => consumer'[i] = consumer[i]
    BY <1>0, <1>6 DEF Get, ws
  <2>2. /\ semaphores' = semaphores \cup {j}
        /\ \A i \in Ids0 : i # j => permR'[i] = permR[i] /\ permW'[i] = permW[i]
    BY <1>6, AddKeyKeeps DEF Get
  <2> QED
    BY <2>1, <2>2 DEF Keyed
<1>7. ASSUME NEW j \in Ids0, Wait(j) \/ Read(j) PROVE Keyed'
  <2>1. j \in semaphores \cup erased
    BY <1>7 DEF Keyed, Wait, Read
  <2>2. /\ UNCHANGED <<semaphores, erased, putting>>
        /\ \A i \in Ids0 : i # j => /\ permR'[i] = permR[i] /\ permW'[i] = permW[i]
                                   /\ queue'[i] = queue[i] /\ consumer'[i] = consumer[i]
    BY <1>0, <1>7 DEF Wait, Read, ws
  <2> QED
    BY <2>1, <2>2 DEF Keyed
<1>8. ASSUME NEW j \in Ids0, Handle(j) PROVE Keyed'
  BY <1>0, <1>8 DEF Keyed, Handle, chan, ws
<1>9. ASSUME NEW q \in asked, NodeSubscribes(q) \/ NodeUnsubscribes(q)
      PROVE  UNCHANGED <<semaphores, erased, queue, permR, permW, consumer, putting>>
  BY <1>9 DEF NodeSubscribes, NodeUnsubscribes, ws, chan, cons
<1>10. ASSUME NEW i \in Ids, NodeUpdates(i)
      PROVE  UNCHANGED <<semaphores, erased, queue, permR, permW, consumer, putting>>
  BY <1>10 DEF NodeUpdates, ws, chan, cons
<1>11. ASSUME Response \/ PutErased \/ UNCHANGED vars
      PROVE  UNCHANGED <<semaphores, erased, queue, permR, permW, consumer, putting>>
  BY <1>11 DEF Response, PutErased, vars, ws, chan, cons
<1>12. ASSUME NEW u \in User, Subscribe(u) \/ TimeOut(u) \/ Unsubscribe(u) \/ Unregister(u)
      PROVE  UNCHANGED <<semaphores, erased, queue, permR, permW, consumer, putting>>
  BY <1>12 DEF Subscribe, TimeOut, Unsubscribe, Unregister, ws, chan, cons
<1> QED
  BY <1>1, <1>2, <1>3, <1>4, <1>5, <1>6, <1>7, <1>8, <1>9, <1>10, <1>11, <1>12
     DEF Next, WsStep, UserStep, ConsumerStep

LEMMA NextPermits == TypeOK /\ Owned /\ Keyed /\ PermitsMatch /\ [Next]_vars => PermitsMatch'
<1> SUFFICES ASSUME TypeOK, Owned, Keyed, PermitsMatch, [Next]_vars PROVE PermitsMatch'
  OBVIOUS
<1>0. /\ permR \in [Ids0 -> Nat] /\ permW \in [Ids0 -> Nat] /\ queue \in [Ids0 -> Seq(Nat)]
      /\ consumer \in [Ids0 -> {"none", "get", "wait", "read", "handle", "ended"}]
      /\ sub \in [User -> Ids0] /\ Ids \subseteq Ids0
  BY Ids0Ids DEF TypeOK
<1>1. CASE UNCHANGED <<erased, queue, permR, permW, consumer>>
  BY <1>1 DEF PermitsMatch
<1>2. CASE Update
  <2>1. Head(wire).id \in Ids0
    BY <1>2, WireTail, WireType, Ids0Ids DEF Update
  <2>2. UNCHANGED <<queue, consumer, erased>> /\ AddKey(Head(wire).id)
    BY <1>2 DEF Update, cons
  <2>3. \A i \in Ids0 \ erased : permR'[i] = permR[i] /\ permW'[i] = permW[i]
    BY <2>1, <2>2, AddKeyKeeps
  <2> QED
    BY <1>0, <2>2, <2>3 DEF PermitsMatch
<1>3. CASE Put
  <2> DEFINE j == putting[1]
  <2>1. j \in Ids0 /\ putting[2] \in Nat
    BY <1>3, PuttingType DEF Put
  <2>2. /\ UNCHANGED <<consumer, erased>> /\ permW[j] > 0
        /\ permW' = [permW EXCEPT ![j] = @ - 1] /\ permR' = [permR EXCEPT ![j] = @ + 1]
        /\ queue' = [queue EXCEPT ![j] = Append(@, putting[2])]
    BY <1>3 DEF Put, cons
  <2> HIDE DEF j
  <2>3. \A i \in Ids0 : i # j => permR'[i] = permR[i] /\ permW'[i] = permW[i] /\ queue'[i] = queue[i]
    BY <1>0, <2>1, <2>2
  <2>4. permR'[j] = permR[j] + 1 /\ permW'[j] = permW[j] - 1 /\ queue'[j] = Append(queue[j], putting[2])
    BY <1>0, <2>1, <2>2
  <2>5. Len(queue'[j]) = Len(queue[j]) + 1 /\ Len(queue[j]) \in Nat /\ permR[j] \in Nat /\ permW[j] \in Nat
    BY <1>0, <2>1, <2>4, Appends
  <2> SUFFICES ASSUME NEW i \in Ids \ erased PROVE PermitsMatch!(i)'
    BY <2>2 DEF PermitsMatch
  <2>6. /\ permR[i] + (IF consumer[i] = "read" THEN 1 ELSE 0) = Len(queue[i])
        /\ permW[i] + Len(queue[i]) = MaxSize - 1
    BY DEF PermitsMatch
  <2>7. CASE i = j
    BY <2>2, <2>4, <2>5, <2>6, <2>7, SubscriptionsAssumption
  <2>8. CASE i # j
    BY <1>0, <2>2, <2>3, <2>6, <2>8
  <2> QED
    BY <2>7, <2>8
<1>4. ASSUME NEW u \in User, Register(u) PROVE PermitsMatch'
  <2>1. /\ UNCHANGED <<queue, permR, permW, erased>> /\ (sub[u] # 0 => consumer[sub[u]] = "none")
        /\ consumer'[sub[u]] = "get" /\ \A i \in Ids0 : i # sub[u] => consumer'[i] = consumer[i]
    BY <1>0, <1>4 DEF Register, chan, At, Owned, Subbed
  <2> QED
    BY <1>0, <2>1, Ids0Ids DEF PermitsMatch
<1>5. ASSUME NEW u \in User, EraseKey(u) PROVE PermitsMatch'
  <2>1. /\ UNCHANGED <<queue, permR, permW>> /\ erased' = erased \cup {sub[u]}
        /\ \A i \in Ids0 : i # sub[u] => consumer'[i] = consumer[i]
    BY <1>0, <1>5 DEF EraseKey
  <2> QED
    BY <1>0, <2>1 DEF PermitsMatch
<1>6. ASSUME NEW j \in Ids0, Get(j) PROVE PermitsMatch'
  <2>1. /\ UNCHANGED <<queue, erased>> /\ consumer[j] = "get" /\ consumer'[j] = "wait"
        /\ \A i \in Ids0 : i # j => consumer'[i] = consumer[i]
    BY <1>0, <1>6 DEF Get
  <2>2. \A i \in Ids0 \ erased : permR'[i] = permR[i] /\ permW'[i] = permW[i]
    BY <1>6, AddKeyKeeps DEF Get
  <2> QED
    BY <1>0, <2>1, <2>2 DEF PermitsMatch
<1>7. ASSUME NEW j \in Ids0, Wait(j) PROVE PermitsMatch'
  <2>1. /\ UNCHANGED <<queue, erased, permW>> /\ consumer[j] = "wait" /\ consumer'[j] = "read"
        /\ permR'[j] = permR[j] - 1 /\ permR[j] \in Nat
        /\ \A i \in Ids0 : i # j => consumer'[i] = consumer[i] /\ permR'[i] = permR[i]
    BY <1>0, <1>7 DEF Wait
  <2> SUFFICES ASSUME NEW i \in Ids \ erased PROVE PermitsMatch!(i)'
    BY <2>1 DEF PermitsMatch
  <2>2. /\ permR[i] + (IF consumer[i] = "read" THEN 1 ELSE 0) = Len(queue[i])
        /\ permW[i] + Len(queue[i]) = MaxSize - 1
    BY DEF PermitsMatch
  <2>3. CASE i = j
    BY <2>1, <2>2, <2>3
  <2>4. CASE i # j
    BY <1>0, <2>1, <2>2, <2>4
  <2> QED
    BY <2>3, <2>4
<1>8. ASSUME NEW j \in Ids0, Read(j) PROVE PermitsMatch'
  <2>1. /\ UNCHANGED <<erased, permR>> /\ consumer[j] = "read"
        /\ \A i \in Ids0 : i # j => consumer'[i] = consumer[i] /\ permW'[i] = permW[i] /\ queue'[i] = queue[i]
    BY <1>0, <1>8 DEF Read
  <2>2. SUFFICES ASSUME j \in Ids \ erased
                 PROVE  /\ permR'[j] + (IF consumer'[j] = "read" THEN 1 ELSE 0) = Len(queue'[j])
                        /\ permW'[j] + Len(queue'[j]) = MaxSize - 1
    BY <1>0, <2>1 DEF PermitsMatch
  <2>3. /\ permR[j] \in Nat /\ permW[j] \in Nat /\ queue[j] \in Seq(Nat)
        /\ permR[j] + 1 = Len(queue[j]) /\ permW[j] + Len(queue[j]) = MaxSize - 1
    BY <1>0, <2>1, <2>2 DEF PermitsMatch
  <2>4. queue[j] # <<>>
    BY <2>3
  <2>5. \/ UNCHANGED <<queue, permW, consumer>>
        \/ queue'[j] = Tail(queue[j]) /\ permW'[j] = permW[j] + 1 /\ consumer'[j] = "handle"
    BY <1>0, <1>8, <2>4 DEF Read
  <2>6. Len(Tail(queue[j])) = Len(queue[j]) - 1 /\ Len(queue[j]) \in Nat
    BY <2>3, <2>4, Heads
  <2>7. CASE UNCHANGED <<queue, permW, consumer>>
    BY <2>1, <2>3, <2>7
  <2>8. CASE queue'[j] = Tail(queue[j]) /\ permW'[j] = permW[j] + 1 /\ consumer'[j] = "handle"
    <3>0. Len(queue'[j]) = Len(queue[j]) - 1 /\ permR'[j] = permR[j] /\ permW'[j] = permW[j] + 1
      BY <2>1, <2>6, <2>8
    <3>a. /\ permR[j] \in Nat /\ permW[j] \in Nat /\ Len(queue[j]) \in Nat
          /\ permR[j] + 1 = Len(queue[j]) /\ permW[j] + Len(queue[j]) = MaxSize - 1
      BY <2>3, <2>6
    <3> DEFINE n == Len(queue[j]) r == permR[j] w == permW[j] M == MaxSize
    <3>b. r \in Nat /\ w \in Nat /\ n \in Nat /\ r + 1 = n /\ w + n = M - 1 /\ M \in Nat
      BY <3>a, SubscriptionsAssumption
    <3> HIDE DEF n, r, w, M
    <3>c. r = n - 1 /\ (w + 1) + (n - 1) = M - 1
      BY <3>b
    <3>1. permR'[j] = Len(queue'[j]) /\ permW'[j] + Len(queue'[j]) = MaxSize - 1
      BY <3>0, <3>c DEF n, r, w, M
    <3>2. permR[j] + 0 = permR[j]
      BY <2>3
    <3> QED
      BY <2>1, <2>8, <3>1, <3>2
  <2> QED
    BY <2>5, <2>7, <2>8
<1>9. ASSUME NEW j \in Ids0, Handle(j) PROVE PermitsMatch'
  <2>1. /\ UNCHANGED <<queue, erased, permW, permR>> /\ consumer[j] = "handle"
        /\ consumer'[j] \in {"handle", "get"} /\ \A i \in Ids0 : i # j => consumer'[i] = consumer[i]
    BY <1>0, <1>9 DEF Handle, chan
  <2> QED
    BY <1>0, <2>1 DEF PermitsMatch
<1>10. ASSUME NEW q \in asked, NodeSubscribes(q) \/ NodeUnsubscribes(q)
       PROVE  UNCHANGED <<erased, queue, permR, permW, consumer>>
  BY <1>10 DEF NodeSubscribes, NodeUnsubscribes, chan, cons
<1>11. ASSUME NEW i \in Ids, NodeUpdates(i) PROVE  UNCHANGED <<erased, queue, permR, permW, consumer>>
  BY <1>11 DEF NodeUpdates, chan, cons
<1>12. ASSUME Response \/ PutErased \/ UNCHANGED vars PROVE UNCHANGED <<erased, queue, permR, permW, consumer>>
  BY <1>12 DEF Response, PutErased, vars, chan, cons
<1>13. ASSUME NEW u \in User, Subscribe(u) \/ TimeOut(u) \/ Unsubscribe(u) \/ Unregister(u)
       PROVE  UNCHANGED <<erased, queue, permR, permW, consumer>>
  BY <1>13 DEF Subscribe, TimeOut, Unsubscribe, Unregister, chan, cons
<1> QED
  BY <1>1, <1>2, <1>3, <1>4, <1>5, <1>6, <1>7, <1>8, <1>9, <1>10, <1>11, <1>12, <1>13
     DEF Next, WsStep, UserStep, ConsumerStep

-----------------------------------------------------------------------------
(* Null pointers.                                                          *)

LEMMA NextObserved == TypeOK /\ Keyed /\ Observed /\ [Next]_vars => Observed'
<1> SUFFICES ASSUME TypeOK, Keyed, Observed, [Next]_vars, unsubs' = 0 PROVE Observed'
  BY DEF Observed
<1>0. /\ consumer \in [Ids0 -> {"none", "get", "wait", "read", "handle", "ended"}]
      /\ sub \in [User -> Ids0] /\ pc \in [User -> Labels] /\ unsubs \in Nat
  BY DEF TypeOK
<1>1. ASSUME unsubs' = unsubs
      PROVE  /\ erased = {} /\ fault = "none"
             /\ \A u \in User : pc[u] \notin {"unsubscribing", "unregister", "erase"}
             /\ \A i \in Ids0 : consumer[i] # "none" => i \in observers
  BY <1>1 DEF Observed
<1>2. ASSUME UNCHANGED <<unsubs, erased, fault, pc, consumer, observers>> PROVE Observed'
  BY <1>2 DEF Observed
<1>3. CASE Response
  <2>1. UNCHANGED <<unsubs, erased, fault, consumer, observers>>
    BY <1>3 DEF Response, cons, bound
  <2>2. Head(wire).user \in User
    BY <1>3, WireTail, WireType DEF Response
  <2>3. \A u \in User : pc'[u] \in {pc[u], "register"}
    BY <1>0, <1>1, <1>3, <2>1, <2>2 DEF Response, Goto, users
  <2> QED
    BY <1>1, <2>1, <2>3 DEF Observed
<1>4. CASE PutErased
  <2>1. unsubs' = unsubs /\ putting # <<>> /\ putting[1] \notin semaphores
    BY <1>4 DEF PutErased, bound
  <2> QED
    BY <1>1, <2>1 DEF Keyed
<1>5. ASSUME NEW u \in User, Subscribe(u) \/ TimeOut(u) PROVE Observed'
  <2>1. UNCHANGED <<unsubs, erased, fault, consumer, observers>>
    BY <1>5 DEF Subscribe, TimeOut, cons, bound
  <2>2. \A v \in User : pc'[v] \in {pc[v], "subscribing", "register"}
    BY <1>0, <1>1, <1>5, <2>1 DEF Subscribe, TimeOut, At, Goto
  <2> QED
    BY <1>1, <2>1, <2>2 DEF Observed
<1>6. ASSUME NEW u \in User, Unsubscribe(u) PROVE Observed'
  BY <1>0, <1>6 DEF Unsubscribe
<1>7. ASSUME NEW u \in User, Register(u) PROVE Observed'
  <2>1. UNCHANGED <<unsubs, erased, fault>> /\ observers' = observers \cup {sub[u]}
    BY <1>7 DEF Register, bound
  <2>2. \A v \in User : pc'[v] \in {pc[v], "subscribed"}
    BY <1>0, <1>7 DEF Register, Goto
  <2>3. \A i \in Ids0 : i # sub[u] => consumer'[i] = consumer[i]
    BY <1>0, <1>7 DEF Register
  <2> QED
    BY <1>1, <2>1, <2>2, <2>3 DEF Observed
<1>8. ASSUME NEW u \in User, Unregister(u) \/ EraseKey(u) PROVE Observed'
  BY <1>1, <1>8 DEF Unregister, EraseKey, At, bound
<1>9. ASSUME NEW j \in Ids0, Get(j) \/ Wait(j) PROVE Observed'
  <2>1. UNCHANGED <<unsubs, erased, fault, pc, observers>> /\ consumer[j] # "none"
    BY <1>9 DEF Get, Wait, users, bound
  <2>2. \A i \in Ids0 : i # j => consumer'[i] = consumer[i]
    BY <1>0, <1>9 DEF Get, Wait
  <2> QED
    BY <1>1, <2>1, <2>2 DEF Observed
<1>10. ASSUME NEW j \in Ids0, Read(j) PROVE Observed'
  <2>1. UNCHANGED <<unsubs, erased, pc, observers, semaphores>> /\ consumer[j] = "read"
    BY <1>10 DEF Read, users, bound
  <2>2. j \in semaphores
    BY <1>1, <2>1 DEF Keyed
  <2>3. fault' = fault /\ \A i \in Ids0 : i # j => consumer'[i] = consumer[i]
    BY <1>0, <1>10, <2>2 DEF Read
  <2> QED
    BY <1>1, <2>1, <2>3 DEF Observed
<1>11. ASSUME NEW j \in Ids0, Handle(j) PROVE Observed'
  <2>1. UNCHANGED <<unsubs, erased, pc, observers>> /\ consumer[j] = "handle"
    BY <1>11 DEF Handle, users, bound
  <2>2. j \in observers
    BY <1>1, <2>1
  <2>3. fault' = fault /\ \A i \in Ids0 : i # j => consumer'[i] = consumer[i]
    BY <1>0, <1>11, <2>2 DEF Handle
  <2> QED
    BY <1>1, <2>1, <2>2, <2>3 DEF Observed
<1>12. ASSUME NEW q \in asked, NodeSubscribes(q) \/ NodeUnsubscribes(q)
       PROVE  UNCHANGED <<unsubs, erased, fault, pc, consumer, observers>>
  BY <1>12 DEF NodeSubscribes, NodeUnsubscribes, cons, users, bound
<1>13. ASSUME NEW i \in Ids, NodeUpdates(i) PROVE UNCHANGED <<unsubs, erased, fault, pc, consumer, observers>>
  BY <1>13 DEF NodeUpdates, cons, users, bound
<1>14. ASSUME Update \/ Put \/ UNCHANGED vars PROVE UNCHANGED <<unsubs, erased, fault, pc, consumer, observers>>
  BY <1>14 DEF Update, Put, vars, cons, users, bound
<1> QED
  BY <1>2, <1>3, <1>4, <1>5, <1>6, <1>7, <1>8, <1>9, <1>10, <1>11, <1>12, <1>13, <1>14
     DEF Next, WsStep, UserStep, ConsumerStep

-----------------------------------------------------------------------------
(* No update is lost, duplicated or overtaken.                             *)

LEMMA Counts ==
    ASSUME TypeOK, NEW i \in Ids
    PROVE  /\ Len(handled[i]) \in Nat /\ Taken(i) \in Nat /\ Len(queue[i]) \in Nat
           /\ Stored(i) \in Nat /\ Received(i) \in Nat /\ sent[i] \in Nat
<1>1. i \in Ids0
  BY Ids0Ids
<1>2. handled[i] \in Seq(Nat) /\ queue[i] \in Seq(Nat) /\ sent[i] \in Nat
  BY <1>1, SubscriptionsAssumption DEF TypeOK
<1>3. Len(handled[i]) \in Nat /\ Len(queue[i]) \in Nat
  BY <1>2
<1>4. Taken(i) \in Nat
  <2>1. Taken(i) = Len(handled[i]) + 1 \/ Taken(i) = Len(handled[i]) + 0
    BY DEF Taken
  <2> QED
    BY <1>3, <2>1
<1>5. Stored(i) \in Nat
  BY <1>3, <1>4 DEF Stored
<1>6. Received(i) \in Nat
  BY <1>5 DEF Received, InPut
<1> QED
  BY <1>2, <1>3, <1>4, <1>5, <1>6

\* A step that does not touch what the client has of i.
LEMMA ClientKept ==
    ASSUME NEW i \in Ids, InClient(i), putting' = putting,
           handled'[i] = handled[i], queue'[i] = queue[i], item'[i] = item[i],
           consumer'[i] = "handle" <=> consumer[i] = "handle"
    PROVE  InClient(i)' /\ Received(i)' = Received(i)
<1>1. Taken(i)' = Taken(i)
  BY DEF Taken
<1>2. Received(i)' = Received(i) /\ InPut(i)' = InPut(i)
  BY <1>1 DEF Received, Stored, InPut
<1> QED
  BY <1>1, <1>2 DEF InClient, UpTo, InPut

\* A step that does not touch the wire.
LEMMA WireKept ==
    ASSUME NEW i \in Ids, OnWire(i), wire' = wire, sent'[i] = sent[i], Received(i)' = Received(i)
    PROVE  OnWire(i)'
BY DEF OnWire, Carries

\* A message that is not an update of i is sent.
LEMMA WireGrows ==
    ASSUME TypeOK, NEW i \in Ids, OnWire(i), NEW m \in Responses \cup Updates, wire' = Append(wire, m),
           ~(m.id = i /\ m.update > 0), sent'[i] = sent[i], Received(i)' = Received(i)
    PROVE  OnWire(i)'
<1>1. /\ Len(wire) \in Nat /\ Len(wire') = Len(wire) + 1 /\ wire'[Len(wire) + 1] = m
      /\ \A p \in 1 .. Len(wire) : wire'[p] = wire[p]
  BY WireAppend
<1>2. \A p \in 1 .. Len(wire') : Carries(p, i)' => p \in 1 .. Len(wire)
  BY <1>1 DEF Carries
<1>3. \A p \in 1 .. Len(wire) : p \in 1 .. Len(wire') /\ (Carries(p, i)' <=> Carries(p, i))
  BY <1>1 DEF Carries
<1>4. ASSUME NEW n \in Received(i)' + 1 .. sent'[i]
      PROVE  \E p \in 1 .. Len(wire') : Carries(p, i)' /\ wire'[p].update = n
  <2>1. PICK p \in 1 .. Len(wire) : Carries(p, i) /\ wire[p].update = n
    BY DEF OnWire
  <2> QED
    BY <1>1, <1>3, <2>1
<1>5. ASSUME NEW p \in 1 .. Len(wire'), Carries(p, i)'
      PROVE  /\ wire'[p].update \in Received(i)' + 1 .. sent'[i]
             /\ \A q \in 1 .. p - 1 : Carries(q, i)' => wire'[q].update < wire'[p].update
  <2>1. p \in 1 .. Len(wire) /\ Carries(p, i) /\ 1 .. p - 1 \subseteq 1 .. Len(wire)
    BY <1>1, <1>2, <1>3, <1>5
  <2> QED
    BY <1>1, <1>3, <2>1 DEF OnWire
<1>6. Received(i)' <= sent'[i]
  BY DEF OnWire
<1> QED
  BY <1>4, <1>5, <1>6 DEF OnWire

\* handleMessage takes a message that is not an update of i.
LEMMA WireShrinks ==
    ASSUME TypeOK, NEW i \in Ids, OnWire(i), wire # <<>>, wire' = Tail(wire), ~Carries(1, i),
           sent'[i] = sent[i], Received(i)' = Received(i)
    PROVE  OnWire(i)'
<1>1. /\ Len(wire) \in Nat \ {0} /\ Len(wire') = Len(wire) - 1
      /\ \A p \in 1 .. Len(wire') : p + 1 \in 1 .. Len(wire) /\ wire'[p] = wire[p + 1]
  BY WireTail
<1>2. ASSUME NEW p \in 1 .. Len(wire') PROVE Carries(p, i)' <=> Carries(p + 1, i)
  BY <1>1 DEF Carries
<1>3. ASSUME NEW n \in Received(i)' + 1 .. sent'[i]
      PROVE  \E p \in 1 .. Len(wire') : Carries(p, i)' /\ wire'[p].update = n
  <2>1. PICK p \in 1 .. Len(wire) : Carries(p, i) /\ wire[p].update = n
    BY DEF OnWire
  <2>2. p - 1 \in 1 .. Len(wire') /\ (p - 1) + 1 = p
    BY <1>1, <2>1
  <2> QED
    BY <1>1, <1>2, <2>1, <2>2
<1>4. ASSUME NEW p \in 1 .. Len(wire'), Carries(p, i)'
      PROVE  /\ wire'[p].update \in Received(i)' + 1 .. sent'[i]
             /\ \A q \in 1 .. p - 1 : Carries(q, i)' => wire'[q].update < wire'[p].update
  <2>1. p + 1 \in 1 .. Len(wire) /\ Carries(p + 1, i) /\ wire'[p] = wire[p + 1]
    BY <1>1, <1>2, <1>4
  <2>2. ASSUME NEW q \in 1 .. p - 1, Carries(q, i)' PROVE wire'[q].update < wire'[p].update
    <3>1. q \in 1 .. Len(wire') /\ q + 1 \in 1 .. (p + 1) - 1
      BY <1>1
    <3>2. Carries(q + 1, i) /\ wire'[q] = wire[q + 1]
      BY <1>1, <1>2, <2>2, <3>1
    <3> QED
      BY <2>1, <3>1, <3>2 DEF OnWire
  <2> QED
    BY <2>1, <2>2 DEF OnWire
<1>5. Received(i)' <= sent'[i]
  BY DEF OnWire
<1> QED
  BY <1>3, <1>4, <1>5 DEF OnWire

\* The node sends the next update of i.
LEMMA UpdateSent ==
    ASSUME TypeOK, NEW i \in Ids, OnWire(i), NodeUpdates(i), Received(i)' = Received(i)
    PROVE  OnWire(i)'
<1> DEFINE m == [id |-> i, update |-> sent[i] + 1]
<1>0. Received(i) \in Nat /\ sent[i] \in Nat /\ Received(i) <= sent[i]
  BY Counts DEF OnWire
<1>1. m \in Responses \cup Updates
  <2>1. sent[i] + 1 \in 1 .. MaxUpdates
    BY <1>0, SubscriptionsAssumption DEF NodeUpdates
  <2> QED
    BY <2>1 DEF Updates
<1>2. m.id = i /\ m.update = sent[i] + 1 /\ wire' = Append(wire, m) /\ sent'[i] = sent[i] + 1
  BY Ids0Ids DEF NodeUpdates, TypeOK
<1> HIDE DEF m
<1>3. /\ Len(wire) \in Nat /\ Len(wire') = Len(wire) + 1 /\ wire'[Len(wire) + 1] = m
      /\ \A p \in 1 .. Len(wire) : wire'[p] = wire[p]
  BY <1>1, <1>2, WireAppend
<1>4. \A p \in 1 .. Len(wire) : Carries(p, i)' <=> Carries(p, i)
  BY <1>3 DEF Carries
<1>a. PICK last \in 1 .. Len(wire') : last = Len(wire) + 1
  BY <1>3
<1>b. Carries(last, i)' /\ wire'[last].update = sent[i] + 1
  BY <1>0, <1>2, <1>3, <1>a DEF Carries
<1>5. ASSUME NEW n \in Received(i)' + 1 .. sent'[i]
      PROVE  \E p \in 1 .. Len(wire') : Carries(p, i)' /\ wire'[p].update = n
  <2>1. CASE n = sent[i] + 1
    BY <1>b, <2>1
  <2>2. CASE n # sent[i] + 1
    <3>1. n \in Received(i) + 1 .. sent[i]
      <4>1. n \in Received(i) + 1 .. sent[i] + 1
        BY <1>2
      <4> QED
        BY <1>0, <2>2, <4>1
    <3>2. PICK p \in 1 .. Len(wire) : Carries(p, i) /\ wire[p].update = n
      BY <3>1 DEF OnWire
    <3>3. p \in 1 .. Len(wire')
      <4>1. Len(wire) \in Nat /\ Len(wire') = Len(wire) + 1
        BY <1>3
      <4> QED
        BY <4>1
    <3>4. Carries(p, i)'
      BY <1>4, <3>2
    <3>5. wire'[p] = wire[p]
      BY <1>3, <3>2
    <3> QED
      BY <3>2, <3>3, <3>4, <3>5
  <2> QED
    BY <2>1, <2>2
<1>6. ASSUME NEW p \in 1 .. Len(wire'), Carries(p, i)'
      PROVE  /\ wire'[p].update \in Received(i)' + 1 .. sent'[i]
             /\ \A q \in 1 .. p - 1 : Carries(q, i)' => wire'[q].update < wire'[p].update
  <2>0. \A q \in 1 .. Len(wire) : Carries(q, i) => wire[q].update \in Received(i) + 1 .. sent[i]
    BY DEF OnWire
  <2>1. CASE p = Len(wire) + 1
    <3>1. wire'[p].update = sent[i] + 1 /\ 1 .. p - 1 = 1 .. Len(wire)
      BY <1>3, <1>a, <1>b, <2>1
    <3>2. \A q \in 1 .. Len(wire) : Carries(q, i)' => wire'[q].update \in Received(i) + 1 .. sent[i]
      BY <1>3, <1>4, <2>0
    <3> QED
      BY <1>0, <1>2, <3>1, <3>2
  <2>2. CASE p \in 1 .. Len(wire)
    <3>1. Carries(p, i) /\ wire'[p] = wire[p] /\ 1 .. p - 1 \subseteq 1 .. Len(wire)
      BY <1>3, <1>4, <1>6, <2>2
    <3>2. wire'[p].update \in Received(i)' + 1 .. sent'[i]
      BY <1>0, <1>2, <2>0, <2>2, <3>1
    <3>3. \A q \in 1 .. p - 1 : Carries(q, i)' => wire'[q].update < wire'[p].update
      BY <1>3, <1>4, <2>2, <3>1 DEF OnWire
    <3> QED
      BY <3>2, <3>3
  <2> QED
    BY <1>3, <2>1, <2>2
<1>7. Received(i)' <= sent'[i]
  BY <1>0, <1>2
<1> QED
  BY <1>5, <1>6, <1>7 DEF OnWire

\* The first update of i on the wire is the next one, and put takes it.
LEMMA UpdateTaken ==
    ASSUME TypeOK, NEW i \in Ids, InClient(i), OnWire(i), Update, Head(wire).id = i
    PROVE  InClient(i)' /\ OnWire(i)'
<1>0. Received(i) \in Nat /\ Stored(i) \in Nat /\ sent[i] \in Nat
  BY Counts
<1>1. /\ putting = <<>> /\ wire # <<>> /\ wire' = Tail(wire) /\ Head(wire).update > 0
      /\ putting' = <<i, Head(wire).update>> /\ UNCHANGED <<sent, queue, consumer, item, handled>>
  BY DEF Update, node, cons
<1>2. /\ Len(wire) \in Nat \ {0} /\ Len(wire') = Len(wire) - 1 /\ Head(wire) = wire[1]
      /\ \A p \in 1 .. Len(wire') : p + 1 \in 1 .. Len(wire) /\ wire'[p] = wire[p + 1]
  BY <1>1, WireTail
<1>3. Carries(1, i) /\ wire[1].update \in Received(i) + 1 .. sent[i]
  BY <1>1, <1>2 DEF Carries, OnWire
<1>4. wire[1].update = Received(i) + 1 /\ Received(i) + 1 <= sent[i]
  <2>1. Received(i) + 1 \in Received(i) + 1 .. sent[i]
    BY <1>0, <1>3
  <2>2. PICK p \in 1 .. Len(wire) : Carries(p, i) /\ wire[p].update = Received(i) + 1
    BY <2>1 DEF OnWire
  <2>3. p # 1 => wire[1].update < wire[p].update
    BY <1>2, <1>3, <2>2 DEF OnWire
  <2> QED
    BY <1>0, <1>3, <2>1, <2>2, <2>3
<1>5. Taken(i)' = Taken(i) /\ Stored(i)' = Stored(i) /\ Received(i) = Stored(i)
  BY <1>0, <1>1 DEF Taken, Stored, Received, InPut
<1>6. InPut(i)' /\ Received(i)' = Received(i) + 1
  BY <1>1, <1>5 DEF Received, InPut
<1>7. InClient(i)'
  <2>1. putting'[2] = Received(i)'
    BY <1>1, <1>2, <1>4, <1>6
  <2> QED
    BY <1>1, <1>5, <2>1 DEF InClient, UpTo
<1>8. OnWire(i)'
  <2>1. ASSUME NEW p \in 1 .. Len(wire') PROVE Carries(p, i)' <=> Carries(p + 1, i)
    BY <1>2 DEF Carries
  <2>2. ASSUME NEW n \in Received(i)' + 1 .. sent'[i]
        PROVE  \E p \in 1 .. Len(wire') : Carries(p, i)' /\ wire'[p].update = n
    <3>1. n \in Received(i) + 1 .. sent[i] /\ n # Received(i) + 1
      BY <1>0, <1>1, <1>6
    <3>2. PICK p \in 1 .. Len(wire) : Carries(p, i) /\ wire[p].update = n
      BY <3>1 DEF OnWire
    <3>3. p - 1 \in 1 .. Len(wire') /\ (p - 1) + 1 = p
      BY <1>2, <1>4, <3>1, <3>2
    <3> QED
      BY <1>2, <2>1, <3>2, <3>3
  <2>3. ASSUME NEW p \in 1 .. Len(wire'), Carries(p, i)'
        PROVE  /\ wire'[p].update \in Received(i)' + 1 .. sent'[i]
               /\ \A q \in 1 .. p - 1 : Carries(q, i)' => wire'[q].update < wire'[p].update
    <3>1. p + 1 \in 1 .. Len(wire) /\ Carries(p + 1, i) /\ wire'[p] = wire[p + 1]
      BY <1>2, <2>1, <2>3
    <3>2. wire[p + 1].update \in Received(i) + 1 .. sent[i] /\ wire[1].update < wire[p + 1].update
      <4>1. 1 \in 1 .. (p + 1) - 1
        OBVIOUS
      <4> QED
        BY <1>3, <3>1, <4>1 DEF OnWire
    <3>3. wire'[p].update \in Received(i)' + 1 .. sent'[i]
      <4>1. PICK n : n = wire[p + 1].update
        OBVIOUS
      <4>2. n \in Received(i) + 1 .. sent[i] /\ n > Received(i) + 1
        BY <1>0, <1>4, <3>2, <4>1
      <4>3. n \in (Received(i) + 1) + 1 .. sent[i]
        BY <1>0, <4>2
      <4>4. wire'[p].update = n /\ sent'[i] = sent[i]
        BY <1>1, <3>1, <4>1
      <4> QED
        BY <1>6, <4>3, <4>4
    <3>4. ASSUME NEW q \in 1 .. p - 1, Carries(q, i)' PROVE wire'[q].update < wire'[p].update
      <4>1. q \in 1 .. Len(wire') /\ q + 1 \in 1 .. (p + 1) - 1
        BY <1>2
      <4>2. Carries(q + 1, i) /\ wire'[q] = wire[q + 1]
        BY <1>2, <2>1, <3>4, <4>1
      <4> QED
        BY <3>1, <4>1, <4>2 DEF OnWire
    <3> QED
      BY <3>3, <3>4
  <2>4. Received(i)' <= sent'[i]
    BY <1>1, <1>4, <1>6
  <2> QED
    BY <2>2, <2>3, <2>4 DEF OnWire
<1> QED
  BY <1>7, <1>8

LEMMA NodeKeeps ==
    ASSUME TypeOK, Owned, NothingLost,
           \/ \E q \in asked : NodeSubscribes(q) \/ NodeUnsubscribes(q)
           \/ \E i \in Ids : NodeUpdates(i)
    PROVE  NothingLost'
<1> SUFFICES ASSUME NEW i \in Ids PROVE InClient(i)' /\ OnWire(i)'
  BY DEF NothingLost
<1>0. InClient(i) /\ OnWire(i)
  BY DEF NothingLost
<1>1. UNCHANGED <<putting, handled, queue, item, consumer>>
  BY DEF NodeSubscribes, NodeUnsubscribes, NodeUpdates, ws, chan, cons
<1>2. InClient(i)' /\ Received(i)' = Received(i)
  BY <1>0, <1>1, ClientKept
<1>3. ASSUME NEW q \in asked, NodeSubscribes(q) PROVE OnWire(i)'
  <2> DEFINE m == [user |-> q.user, id |-> given + 1, update |-> 0]
  <2>1. given + 1 \in Ids /\ q.user \in User
    BY <1>3, GivenBound DEF NodeSubscribes, TypeOK
  <2>2. m \in Responses \cup Updates /\ ~(m.id = i /\ m.update > 0)
    BY <2>1 DEF Responses
  <2>3. wire' = Append(wire, m) /\ sent' = sent
    BY <1>3 DEF NodeSubscribes
  <2> HIDE DEF m
  <2> QED
    BY <1>0, <1>2, <2>2, <2>3, WireGrows
<1>4. ASSUME NEW q \in asked, NodeUnsubscribes(q) PROVE OnWire(i)'
  <2> DEFINE m == [user |-> q.user, id |-> q.id, update |-> 0]
  <2>0. q.id \in 1 .. given /\ given \in 0 .. MaxSubs /\ q.user \in User
    BY <1>4 DEF NodeUnsubscribes, TypeOK, Owned, Asked
  <2>1. q.id \in Ids
    BY <2>0, SubscriptionsAssumption DEF Ids
  <2>2. m \in Responses \cup Updates /\ ~(m.id = i /\ m.update > 0)
    BY <2>0, <2>1 DEF Responses
  <2>3. wire' = Append(wire, m) /\ sent' = sent
    BY <1>4 DEF NodeUnsubscribes
  <2> HIDE DEF m
  <2> QED
    BY <1>0, <1>2, <2>2, <2>3, WireGrows
<1>5. ASSUME NEW j \in Ids, NodeUpdates(j) PROVE OnWire(i)'
  <2>1. CASE j = i
    BY <1>0, <1>2, <1>5, <2>1, UpdateSent
  <2>2. CASE j # i
    <3> DEFINE m == [id |-> j, update |-> sent[j] + 1]
    <3>1. sent[j] + 1 \in 1 .. MaxUpdates
      <4>1. sent[j] \in Nat /\ sent[j] < MaxUpdates
        BY <1>5, Counts DEF NodeUpdates
      <4> QED
        BY <4>1, SubscriptionsAssumption
    <3>2. m \in Responses \cup Updates /\ ~(m.id = i /\ m.update > 0)
      BY <2>2, <3>1 DEF Updates
    <3>3. wire' = Append(wire, m) /\ sent'[i] = sent[i]
      BY <1>5, <2>2, Ids0Ids DEF NodeUpdates, TypeOK
    <3> HIDE DEF m
    <3> QED
      BY <1>0, <1>2, <3>2, <3>3, WireGrows
  <2> QED
    BY <2>1, <2>2
<1> QED
  BY <1>2, <1>3, <1>4, <1>5

LEMMA WsKeeps == ASSUME TypeOK, NothingLost, WsStep PROVE NothingLost'
<1> SUFFICES ASSUME NEW i \in Ids PROVE InClient(i)' /\ OnWire(i)'
  BY DEF NothingLost
<1>0. InClient(i) /\ OnWire(i)
  BY DEF NothingLost
<1>1. CASE Response
  <2>1. /\ UNCHANGED <<putting, handled, queue, item, consumer, sent>>
        /\ wire # <<>> /\ wire' = Tail(wire) /\ Head(wire).update = 0
    BY <1>1 DEF Response, node, ws, chan, cons
  <2>2. InClient(i)' /\ Received(i)' = Received(i)
    BY <1>0, <2>1, ClientKept
  <2>3. ~Carries(1, i)
    BY <2>1, WireTail DEF Carries
  <2> QED
    BY <1>0, <2>1, <2>2, <2>3, WireShrinks
<1>2. CASE Update
  <2>1. CASE Head(wire).id = i
    BY <1>0, <1>2, <2>1, UpdateTaken
  <2>2. CASE Head(wire).id # i
    <3>1. /\ UNCHANGED <<handled, queue, item, consumer, sent>> /\ putting = <<>>
          /\ wire # <<>> /\ wire' = Tail(wire) /\ putting' = <<Head(wire).id, Head(wire).update>>
      BY <1>2 DEF Update, node, cons
    <3>2. ~InPut(i) /\ ~InPut(i)' /\ Taken(i)' = Taken(i) /\ Stored(i)' = Stored(i)
      BY <2>2, <3>1 DEF InPut, Taken, Stored
    <3>3. Received(i)' = Received(i)
      BY <3>2 DEF Received
    <3>4. InClient(i)'
      BY <1>0, <3>1, <3>2 DEF InClient, UpTo
    <3>5. ~Carries(1, i)
      BY <2>2, <3>1, WireTail DEF Carries
    <3> QED
      BY <1>0, <3>1, <3>3, <3>4, <3>5, WireShrinks
  <2> QED
    BY <2>1, <2>2
<1>3. CASE Put
  <2>1. UNCHANGED <<handled, item, consumer, sent, wire>> /\ putting # <<>> /\ putting' = <<>>
    BY <1>3 DEF Put, node, cons
  <2>2. putting[1] \in Ids0 /\ putting[2] \in Nat /\ i \in Ids0 /\ queue \in [Ids0 -> Seq(Nat)]
    BY <2>1, PuttingType, Ids0Ids DEF TypeOK
  <2>3. queue' = [queue EXCEPT ![putting[1]] = Append(@, putting[2])]
    BY <1>3 DEF Put
  <2>4. ~InPut(i)' /\ Taken(i)' = Taken(i) /\ Taken(i) \in Nat
    BY <2>1, Counts DEF InPut, Taken
  <2>5. CASE putting[1] = i
    <3>1. queue'[i] = Append(queue[i], putting[2]) /\ queue[i] \in Seq(Nat)
      BY <2>2, <2>3, <2>5
    <3>2. /\ Len(queue[i]) \in Nat /\ Len(queue'[i]) = Len(queue[i]) + 1
          /\ queue'[i][Len(queue[i]) + 1] = putting[2]
          /\ \A k \in 1 .. Len(queue[i]) : queue'[i][k] = queue[i][k]
      BY <2>2, <3>1, Appends
    <3>3. InPut(i) /\ Received(i) = Stored(i) + 1 /\ Stored(i) = Taken(i) + Len(queue[i])
      BY <2>1, <2>5 DEF InPut, Received, Stored
    <3>4. Received(i)' = Stored(i)' /\ Stored(i)' = Taken(i) + (Len(queue[i]) + 1)
      <4>1. Stored(i)' = Taken(i) + (Len(queue[i]) + 1)
        BY <2>4, <3>2 DEF Stored
      <4>2. Received(i)' = Stored(i)' + 0
        BY <2>4 DEF Received
      <4> QED
        BY <2>4, <3>2, <4>1, <4>2
    <3>5. Received(i)' = Received(i)
      BY <2>4, <3>2, <3>3, <3>4
    <3>6. ASSUME NEW k \in 1 .. Len(queue'[i]) PROVE queue'[i][k] = Taken(i) + k
      <4>1. CASE k = Len(queue[i]) + 1
        <5>1. putting[2] = Received(i)
          BY <1>0, <3>3 DEF InClient
        <5>2. queue'[i][k] = putting[2]
          BY <3>2, <4>1
        <5>3. Received(i) = Taken(i) + k
          BY <2>4, <3>2, <3>3, <4>1
        <5> QED
          BY <5>1, <5>2, <5>3
      <4>2. CASE k \in 1 .. Len(queue[i])
        BY <1>0, <3>2, <4>2 DEF InClient
      <4> QED
        BY <3>2, <4>1, <4>2
    <3>7. InClient(i)'
      BY <1>0, <2>1, <2>4, <3>6 DEF InClient, UpTo
    <3> QED
      BY <1>0, <2>1, <3>5, <3>7, WireKept
  <2>6. CASE putting[1] # i
    <3>1. queue'[i] = queue[i] /\ ~InPut(i)
      BY <2>2, <2>3, <2>6 DEF InPut
    <3>2. Received(i)' = Received(i)
      BY <2>4, <3>1 DEF Received, Stored
    <3>3. InClient(i)'
      BY <1>0, <2>1, <2>4, <3>1 DEF InClient, UpTo
    <3> QED
      BY <1>0, <2>1, <3>2, <3>3, WireKept
  <2> QED
    BY <2>5, <2>6
<1>4. CASE PutErased
  <2>1. UNCHANGED <<putting, handled, queue, item, consumer, sent, wire>>
    BY <1>4 DEF PutErased, node, ws, chan, cons
  <2> QED
    BY <1>0, <2>1, ClientKept, WireKept
<1> QED
  BY <1>1, <1>2, <1>3, <1>4 DEF WsStep

LEMMA UserKeeps ==
    ASSUME TypeOK, Owned, NothingLost, NEW u \in User,
           Subscribe(u) \/ TimeOut(u) \/ Unsubscribe(u) \/ UserStep(u)
    PROVE  NothingLost'
<1> SUFFICES ASSUME NEW i \in Ids PROVE InClient(i)' /\ OnWire(i)'
  BY DEF NothingLost
<1>0. InClient(i) /\ OnWire(i) /\ i \in Ids0 /\ i # 0
  BY Ids0Ids DEF NothingLost
<1>1. UNCHANGED <<putting, handled, queue, item, sent, wire>>
  BY DEF Subscribe, TimeOut, Unsubscribe, UserStep, Register, Unregister, EraseKey, node, ws, chan, cons
<1>2. consumer'[i] = "handle" <=> consumer[i] = "handle"
  <2>0. consumer \in [Ids0 -> {"none", "get", "wait", "read", "handle", "ended"}] /\ sub \in [User -> Ids0]
    BY DEF TypeOK
  <2>1. CASE Subscribe(u) \/ TimeOut(u) \/ Unsubscribe(u) \/ Unregister(u)
    BY <2>1 DEF Subscribe, TimeOut, Unsubscribe, Unregister, cons
  <2>2. CASE Register(u)
    <3>1. consumer' = [consumer EXCEPT ![sub[u]] = "get"] /\ (sub[u] # 0 => consumer[sub[u]] = "none")
      BY <2>2 DEF Register, At, Owned, Subbed
    <3> QED
      BY <1>0, <2>0, <3>1
  <2>3. CASE EraseKey(u)
    <3>1. consumer' = [consumer EXCEPT ![sub[u]] = IF @ = "wait" THEN "read" ELSE @]
      BY <2>3 DEF EraseKey
    <3> QED
      BY <1>0, <2>0, <3>1
  <2> QED
    BY <2>1, <2>2, <2>3 DEF UserStep
<1> QED
  BY <1>0, <1>1, <1>2, ClientKept, WireKept

LEMMA ConsumerKeeps ==
    ASSUME TypeOK, NothingLost, NEW j \in Ids0, ConsumerStep(j)
    PROVE  NothingLost'
<1> SUFFICES ASSUME NEW i \in Ids PROVE InClient(i)' /\ OnWire(i)'
  BY DEF NothingLost
<1>0. /\ InClient(i) /\ OnWire(i) /\ i \in Ids0
      /\ consumer \in [Ids0 -> {"none", "get", "wait", "read", "handle", "ended"}]
      /\ queue \in [Ids0 -> Seq(Nat)] /\ item \in [Ids0 -> Nat] /\ handled \in [Ids0 -> Seq(Nat)]
  BY Ids0Ids DEF NothingLost, TypeOK
<1>1. UNCHANGED <<putting, sent, wire>>
  BY DEF ConsumerStep, Get, Wait, Read, Handle, node, ws
<1>2. CASE UNCHANGED <<handled, queue, item>> /\ (consumer'[i] = "handle" <=> consumer[i] = "handle")
  BY <1>0, <1>1, <1>2, ClientKept, WireKept
<1>3. CASE Get(j) \/ Wait(j)
  BY <1>0, <1>2, <1>3 DEF Get, Wait
<1>4. CASE i # j
  <2>1. /\ queue'[i] = queue[i] /\ item'[i] = item[i] /\ handled'[i] = handled[i]
        /\ consumer'[i] = consumer[i]
    BY <1>0, <1>4 DEF ConsumerStep, Get, Wait, Read, Handle, chan
  <2> QED
    BY <1>0, <1>1, <2>1, ClientKept, WireKept
<1>5. CASE i = j /\ Read(j)
  <2>1. CASE queue[i] = <<>> \/ i \notin semaphores
    BY <1>0, <1>2, <1>5, <2>1 DEF Read
  <2>2. CASE queue[i] # <<>> /\ i \in semaphores
    <3>1. /\ consumer[i] = "read" /\ consumer'[i] = "handle" /\ item'[i] = Head(queue[i])
          /\ queue'[i] = Tail(queue[i]) /\ handled' = handled /\ queue[i] \in Seq(Nat)
      BY <1>0, <1>5, <2>2 DEF Read
    <3>2. /\ Len(queue[i]) \in Nat \ {0} /\ Head(queue[i]) = queue[i][1] /\ Len(queue'[i]) = Len(queue[i]) - 1
          /\ \A k \in 1 .. Len(queue[i]) - 1 : queue'[i][k] = queue[i][k + 1]
      BY <2>2, <3>1, Heads
    <3>3. Taken(i) \in Nat /\ Len(handled[i]) \in Nat /\ Stored(i) \in Nat
      BY Counts
    <3>4. Taken(i) = Len(handled[i]) /\ Taken(i)' = Taken(i) + 1
      BY <3>1, <3>3 DEF Taken
    <3>5. Stored(i)' = Stored(i)
      <4>1. Stored(i)' = Taken(i)' + Len(queue'[i]) /\ Stored(i) = Taken(i) + Len(queue[i])
        BY DEF Stored
      <4>2. ASSUME NEW m \in Nat, NEW n \in Nat PROVE (m + 1) + (n - 1) = m + n
        OBVIOUS
      <4> QED
        BY <3>2, <3>3, <3>4, <4>1, <4>2
    <3>6. Received(i)' = Received(i) /\ InPut(i)' = InPut(i)
      BY <1>1, <3>5 DEF Received, InPut
    <3>7. \A k \in 1 .. Len(queue[i]) : queue[i][k] = Taken(i) + k
      BY <1>0 DEF InClient
    <3>8. item'[i] = Taken(i)'
      BY <3>1, <3>2, <3>4, <3>7
    <3>9. ASSUME NEW k \in 1 .. Len(queue'[i]) PROVE queue'[i][k] = Taken(i)' + k
      <4>1. k \in Nat /\ k \in 1 .. Len(queue[i]) - 1 /\ k + 1 \in 1 .. Len(queue[i])
        BY <3>2
      <4>2. queue'[i][k] = Taken(i) + (k + 1)
        BY <3>2, <3>7, <4>1
      <4>3. ASSUME NEW m \in Nat, NEW n \in Nat PROVE m + (n + 1) = (m + 1) + n
        OBVIOUS
      <4> QED
        BY <3>3, <3>4, <4>1, <4>2, <4>3
    <3>10. InClient(i)'
      BY <1>0, <1>1, <3>1, <3>6, <3>8, <3>9 DEF InClient, UpTo
    <3> QED
      BY <1>0, <1>1, <3>6, <3>10, WireKept
  <2> QED
    BY <2>1, <2>2
<1>6. CASE i = j /\ Handle(j)
  <2>1. CASE i \notin observers
    BY <1>0, <1>2, <1>6, <2>1 DEF Handle, chan
  <2>2. CASE i \in observers
    <3>1. /\ consumer[i] = "handle" /\ consumer'[i] = "get" /\ handled'[i] = Append(handled[i], item[i])
          /\ UNCHANGED <<queue, item>> /\ handled[i] \in Seq(Nat) /\ item[i] \in Nat
      BY <1>0, <1>6, <2>2 DEF Handle, chan
    <3>2. Taken(i) \in Nat /\ Len(handled[i]) \in Nat
      BY Counts
    <3>3. Taken(i) = Len(handled[i]) + 1 /\ item[i] = Taken(i)
      BY <1>0, <3>1, <3>2 DEF Taken, InClient
    <3>4. Len(handled'[i]) = Len(handled[i]) + 1
      BY <3>1, Appends
    <3>5. Taken(i)' = Taken(i)
      <4>1. Taken(i)' = Len(handled'[i]) + 0
        BY <3>1 DEF Taken
      <4> QED
        BY <3>2, <3>3, <3>4, <4>1
    <3>6. Received(i)' = Received(i) /\ InPut(i)' = InPut(i)
      BY <1>1, <3>1, <3>5 DEF Received, Stored, InPut
    <3>7. handled'[i] = UpTo(Len(handled'[i]))
      <4>1. handled[i] = UpTo(Len(handled[i]))
        BY <1>0 DEF InClient
      <4>2. \A k \in 1 .. Len(handled[i]) : handled[i][k] = k
        BY <4>1 DEF UpTo
      <4>3. /\ handled'[i] \in Seq(Nat) /\ handled'[i][Len(handled[i]) + 1] = Len(handled[i]) + 1
            /\ \A k \in 1 .. Len(handled[i]) : handled'[i][k] = handled[i][k]
        BY <3>1, <3>3, Appends
      <4>4. ASSUME NEW k \in 1 .. Len(handled'[i]) PROVE handled'[i][k] = k
        <5>1. k \in 1 .. Len(handled[i]) \/ k = Len(handled[i]) + 1
          BY <3>2, <3>4
        <5> QED
          BY <4>2, <4>3, <5>1
      <4>5. handled'[i] = [k \in 1 .. Len(handled'[i]) |-> handled'[i][k]]
        BY <4>3, ElementsOf, Zenon
      <4> QED
        BY <4>4, <4>5 DEF UpTo
    <3>8. InClient(i)'
      BY <1>0, <1>1, <3>1, <3>5, <3>6, <3>7 DEF InClient
    <3> QED
      BY <1>0, <1>1, <3>6, <3>8, WireKept
  <2> QED
    BY <2>1, <2>2
<1> QED
  BY <1>3, <1>4, <1>5, <1>6 DEF ConsumerStep

LEMMA NextKeeps == TypeOK /\ Owned /\ NothingLost /\ [Next]_vars => NothingLost'
<1>1. ASSUME NothingLost, UNCHANGED vars PROVE NothingLost'
  <2>1. UNCHANGED <<putting, handled, queue, item, consumer, sent, wire>>
    BY <1>1 DEF vars, node, ws, chan, cons
  <2> QED
    BY <1>1, <2>1, ClientKept, WireKept DEF NothingLost
<1> QED
  BY <1>1, NodeKeeps, WsKeeps, UserKeeps, ConsumerKeeps DEF Next

-----------------------------------------------------------------------------
(* The theorems.                                                           *)

LEMMA NextInv == IInv /\ [Next]_vars => IInv'
BY NextType, NextOwned, NextKeyed, NextObserved, NextKeeps, NextPermits DEF IInv, UpdatesKept

\* The states of the client and the node stay within their types: no count of a
\* semaphore is negative and no id is one the node has not given (jsonrpc.cpp and
\* concurrentmapqueue.h).
THEOREM SubscriptionsTyped == Spec => []TypeOK
<1>1. IInv => TypeOK
  BY DEF IInv
<1> QED
  BY <1>1, InitInv, NextInv, PTL DEF Spec

\* Every update is handed to its observer once and in order, or is still on its
\* way in order, and the permits of a queue count what it holds: for any number
\* of threads that subscribe and unsubscribe, and any size of the queue
\* (handleMessage and updateConsumerThread of jsonrpc.cpp).
THEOREM UpdatesAreKept == Spec => []UpdatesKept
<1>1. IInv => UpdatesKept
  BY DEF IInv
<1> QED
  BY <1>1, InitInv, NextInv, PTL DEF Spec

\* As long as nobody unsubscribes no null pointer is used, whatever times out
\* (jsonrpc.cpp:68, :107).
THEOREM NoNullWithoutUnsubscribe == Spec => []NullOnlyAfterUnsubscribe
<1>1. IInv => NullOnlyAfterUnsubscribe
  BY DEF IInv, Observed, TypeOK, NullOnlyAfterUnsubscribe
<1> QED
  BY <1>1, InitInv, NextInv, PTL DEF Spec
=============================================================================
