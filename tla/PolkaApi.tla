------------------------------ MODULE PolkaApi ------------------------------
(***************************************************************************)
(* The subscriptions of CPolkaApi (src/application.cpp): the callbacks and *)
(* the subscription ids it keeps, the calls of the application threads     *)
(* that change them, and handleWsMessage in the consumer threads of        *)
(* CJsonRpc, one per subscription.  Nothing here is protected by a mutex.  *)
(*                                                                         *)
(* A call is a program of the statements that touch the shared state, and  *)
(* every statement is a step.  CJsonRpc is reduced to what it gives to     *)
(* this class (modules JsonRpc and Subscriptions have the rest):           *)
(* subscribeWs starts a consumer and returns the node's id, or 0 when the  *)
(* answer is late; unsubscribeWs ends the deliveries that have not begun.  *)
(* A callback is represented by the number of the call that brought it,    *)
(* an update by its number within its subscription.                        *)
(***************************************************************************)
EXTENDS Integers, Sequences

CONSTANTS User,         \* application threads
          Address,      \* addresses and storage keys
          Calls,        \* the calls the application makes: <<call, slot>>
          MaxCalls,     \* bound: callbacks the application brings
          MaxSubs,      \* bound: subscriptions the node grants
          MaxUpdates,   \* bound: updates of a subscription
          MaxTimeouts,  \* bound: subscribe requests that time out
          Leftover      \* what the memory of the object held before

\* The member variables, in the order in which handleWsMessage tries them.
Kinds  == <<"block", "nonce", "balance", "extrinsic", "transfer", "era",
            "finalized", "version", "storage">>
Keyed  == {"nonce", "balance", "storage"}          \* the maps
Single == {Kinds[n] : n \in DOMAIN Kinds} \ Keyed
Slot   == (Single \X {"-"}) \cup (Keyed \X Address)
Block  == <<"block", "-">>
Era    == <<"era", "-">>

Absent == -1                  \* no entry in the map of ids
NoId(s) == IF s[1] \in Keyed THEN Absent ELSE 0

None   == 0                   \* an empty std::function
Lambda == -1                  \* the callback of subscribeEraAndSession for blocks

Extrinsics == {"transfer", "extrinsic"}

\* The methods of the api, each with the slots it is for.
Methods ==
    ({"subscribe", "unsubscribe"} \X {s \in Slot : s[1] \notin Extrinsics})
        \cup ({"getAccountNonce"} \X {s \in Slot : s[1] = "nonce"})
        \cup ({"send"} \X {s \in Slot : s[1] \in Extrinsics})

ASSUME PolkaApiAssumption ==
    /\ MaxCalls \in Nat /\ MaxSubs \in Nat /\ MaxUpdates \in Nat /\ MaxTimeouts \in Nat
    /\ Address # {} /\ Calls \subseteq Methods
    /\ 0 \in Leftover /\ Leftover \cap 1 .. MaxSubs = {}

VARIABLES
    id,        \* per slot: its subscription id
    sub,       \* per slot: its callback
    best,      \* _bestBlockNum # -1
    todo,      \* per thread: the statements left of its call
    answer,    \* per thread: <<>>, or what subscribeWs has returned
    clearing,  \* per thread: how far an unsubscribe has come: 0, 1, 2
    topic,     \* the slots of the node's subscriptions; ids are positions
    active,    \* the subscriptions the node sends updates of
    sent,      \* per subscription: the number of its updates
    taken,     \* per subscription: the updates its consumer has taken
    calling,   \* per subscription: <<>>, or the slot its consumer calls
    resetting, \* the consumer resets the slot after "finalized"
    calls,     \* history: the slots of the callbacks the application brought
    wanted,    \* history: per slot, the callback the application wants called
    heard,     \* history: the updates passed to callbacks, oldest first
    timeouts, fault

slots    == <<id, sub, best>>
threads  == <<todo, answer, clearing>>
node     == <<topic, active, sent>>
consumer == <<taken, calling, resetting>>
history  == <<calls, wanted, heard>>
vars     == <<slots, threads, node, consumer, history, timeouts, fault>>

\* The constructor, which leaves four of the ids as the memory had them.
Init ==
    /\ id \in {f \in [Slot -> {0, Absent} \cup Leftover] : \A s \in Slot :
                 f[s] \in IF s[1] \in {"finalized", "version", "transfer", "extrinsic"}
                          THEN Leftover ELSE {NoId(s)}}
    /\ sub = [s \in Slot |-> None] /\ best = FALSE
    /\ todo = [u \in User |-> <<>>] /\ answer = [u \in User |-> <<>>]
    /\ clearing = [u \in User |-> 0]
    /\ topic = <<>> /\ active = {}
    /\ sent = [i \in 1 .. MaxSubs |-> 0] /\ taken = [i \in 1 .. MaxSubs |-> 0]
    /\ calling = [i \in 1 .. MaxSubs |-> <<>>]
    /\ resetting = [i \in 1 .. MaxSubs |-> FALSE]
    /\ calls = <<>> /\ wanted = [s \in Slot |-> None] /\ heard = <<>>
    /\ timeouts = 0 /\ fault = "none"

-----------------------------------------------------------------------------
(* The calls, as programs.                                                 *)

Set(s, c)   == [op |-> "set", slot |-> s, cb |-> c]
Ask(s)      == [op |-> "ask", slot |-> s, cb |-> None]     \* if there is no id
Send(s)     == [op |-> "send", slot |-> s, cb |-> None]    \* in any case
Await(s, c) == [op |-> "await", slot |-> s, cb |-> c]      \* while (!done)
Drop(s)     == [op |-> "drop", slot |-> s, cb |-> None]

subscribeBlockNumber(c)       == <<Set(Block, c), Ask(Block)>>
unsubscribeBlockNumber        == <<Drop(Block)>>
subscribeEraAndSession(c)     == <<Set(Era, c)>> \o subscribeBlockNumber(Lambda) \o <<Ask(Era)>>
unsubscribeEraAndSession      == <<Drop(Era)>> \o unsubscribeBlockNumber
subscribeBalance(s, c)        == <<Set(s, c), Ask(s)>>
unsubscribeBalance(s)         == <<Drop(s)>>
subscribeAccountNonce(s, c)   == <<Set(s, c), Ask(s)>>
unsubscribeAccountNonce(s)    == <<Drop(s)>>
subscribeFinalizedBlock(s, c) == <<Set(s, c), Ask(s)>>
unsubscribeFinalizedBlock(s)  == <<Drop(s)>>
subscribeRuntimeVersion(s, c) == <<Set(s, c), Ask(s)>>
unsubscribeRuntimeVersion(s)  == <<Drop(s)>>
subscribeStorage(s, c)        == <<Set(s, c), Ask(s)>>
unsubscribeStorage(s)         == <<Drop(s)>>

Subscribe(s, c) ==
    CASE s = Block             -> subscribeBlockNumber(c)
      [] s = Era               -> subscribeEraAndSession(c)
      [] s[1] = "balance"      -> subscribeBalance(s, c)
      [] s[1] = "nonce"        -> subscribeAccountNonce(s, c)
      [] s[1] = "finalized"    -> subscribeFinalizedBlock(s, c)
      [] s[1] = "version"      -> subscribeRuntimeVersion(s, c)
      [] s[1] = "storage"      -> subscribeStorage(s, c)

Unsubscribe(s) ==
    CASE s = Block             -> unsubscribeBlockNumber
      [] s = Era               -> unsubscribeEraAndSession
      [] s[1] = "balance"      -> unsubscribeBalance(s)
      [] s[1] = "nonce"        -> unsubscribeAccountNonce(s)
      [] s[1] = "finalized"    -> unsubscribeFinalizedBlock(s)
      [] s[1] = "version"      -> unsubscribeRuntimeVersion(s)
      [] s[1] = "storage"      -> unsubscribeStorage(s)

getAccountNonce(s, c) ==
    subscribeAccountNonce(s, c) \o <<Await(s, c)>> \o unsubscribeAccountNonce(s)

Sender == CHOOSE n \in Slot : n[1] = "nonce"

\* signAndSendTransfer and submitAndSubcribeExtrinsic, with the callbacks c
\* for the nonce and c + 1 for the progress of the extrinsic.
SendExtrinsic(s, c) == getAccountNonce(Sender, c) \o <<Set(s, c + 1), Send(s)>>

Idle(u) == todo[u] = <<>> /\ fault = "none"

Call(u, call, s) ==
    LET c == Len(calls) + 1
    IN  /\ Idle(u)
        /\ c + 1 <= MaxCalls
        /\ \/ /\ call = "subscribe"
              /\ todo' = [todo EXCEPT ![u] = Subscribe(s, c)]
              /\ calls' = Append(calls, s)
              /\ wanted' = [wanted EXCEPT ![s] = c]
           \/ /\ call = "unsubscribe"
              /\ todo' = [todo EXCEPT ![u] = Unsubscribe(s)]
              /\ wanted' = [wanted EXCEPT ![s] = None]
              /\ UNCHANGED calls
           \/ /\ call = "getAccountNonce"
              /\ todo' = [todo EXCEPT ![u] = getAccountNonce(s, c)]
              /\ calls' = Append(calls, s)
              /\ UNCHANGED wanted
           \/ /\ call = "send"
              /\ todo' = [todo EXCEPT ![u] = SendExtrinsic(s, c)]
              /\ calls' = calls \o <<Sender, s>>
              /\ UNCHANGED wanted
        /\ UNCHANGED <<slots, answer, clearing, node, consumer, heard, timeouts, fault>>

-----------------------------------------------------------------------------
(* The statements of a call.                                               *)

Next1(u) == todo[u][1]
At(u, op) == todo[u] # <<>> /\ Next1(u).op = op /\ fault = "none"
Done(u) == todo' = [todo EXCEPT ![u] = Tail(@)]

\* if (!id), or if (ids.count(key) == 0).
Held(s) == id[s] # NoId(s)

SetCallback(u) ==
    /\ At(u, "set")
    /\ sub' = [sub EXCEPT ![Next1(u).slot] = Next1(u).cb]
    /\ Done(u)
    /\ UNCHANGED <<id, best, answer, clearing, node, consumer, history, timeouts, fault>>

AlreadySubscribed(u) ==
    /\ At(u, "ask") /\ Held(Next1(u).slot) /\ answer[u] = <<>>
    /\ Done(u)
    /\ UNCHANGED <<slots, answer, clearing, node, consumer, history, timeouts, fault>>

MustAsk(u) ==
    /\ At(u, "send") \/ (At(u, "ask") /\ ~Held(Next1(u).slot))
    /\ answer[u] = <<>>

\* subscribeWs: from here on the consumer thread may call handleWsMessage.
subscribeWs(u) ==
    /\ MustAsk(u) /\ Len(topic) < MaxSubs
    /\ topic' = Append(topic, Next1(u).slot)
    /\ active' = active \cup {Len(topic) + 1}
    /\ answer' = [answer EXCEPT ![u] = <<Len(topic) + 1>>]
    /\ UNCHANGED <<slots, todo, clearing, sent, consumer, history, timeouts, fault>>

subscribeTimesOut(u) ==
    /\ MustAsk(u) /\ timeouts < MaxTimeouts
    /\ timeouts' = timeouts + 1
    /\ answer' = [answer EXCEPT ![u] = <<0>>]
    /\ UNCHANGED <<slots, todo, clearing, node, consumer, history, fault>>

Store(u) ==
    /\ answer[u] # <<>> /\ fault = "none"
    /\ id' = [id EXCEPT ![Next1(u).slot] = answer[u][1]]
    /\ answer' = [answer EXCEPT ![u] = <<>>]
    /\ Done(u)
    /\ UNCHANGED <<sub, best, clearing, node, consumer, history, timeouts, fault>>

\* The lambda of getAccountNonce has set done.
NonceArrived(u) ==
    /\ At(u, "await") /\ \E n \in DOMAIN heard : heard[n].cb = Next1(u).cb
    /\ Done(u)
    /\ UNCHANGED <<slots, answer, clearing, node, consumer, history, timeouts, fault>>

NotSubscribed(u) ==
    /\ At(u, "drop") /\ clearing[u] = 0 /\ ~Held(Next1(u).slot)
    /\ Done(u)
    /\ UNCHANGED <<slots, answer, clearing, node, consumer, history, timeouts, fault>>

unsubscribeWs(u) ==
    /\ At(u, "drop") /\ clearing[u] = 0 /\ Held(Next1(u).slot)
    /\ LET i == id[Next1(u).slot]
       IN  /\ active' = active \ {i}
           /\ taken' = [j \in DOMAIN taken |-> IF j = i THEN sent[j] ELSE taken[j]]
    /\ clearing' = [clearing EXCEPT ![u] = 1]
    /\ UNCHANGED <<slots, todo, answer, topic, sent, calling, resetting, history, timeouts, fault>>

ForgetCallback(u) ==
    /\ clearing[u] = 1 /\ fault = "none"
    /\ sub' = [sub EXCEPT ![Next1(u).slot] = None]
    /\ clearing' = [clearing EXCEPT ![u] = 2]
    /\ UNCHANGED <<id, best, todo, answer, node, consumer, history, timeouts, fault>>

ForgetId(u) ==
    /\ clearing[u] = 2 /\ fault = "none"
    /\ id' = [id EXCEPT ![Next1(u).slot] = NoId(Next1(u).slot)]
    /\ clearing' = [clearing EXCEPT ![u] = 0]
    /\ Done(u)
    /\ UNCHANGED <<sub, best, answer, node, consumer, history, timeouts, fault>>

Step(u) ==
    \/ SetCallback(u) \/ AlreadySubscribed(u) \/ subscribeWs(u) \/ subscribeTimesOut(u)
    \/ Store(u) \/ NonceArrived(u) \/ NotSubscribed(u) \/ unsubscribeWs(u)
    \/ ForgetCallback(u) \/ ForgetId(u)

-----------------------------------------------------------------------------
(* The node (external) and handleWsMessage.                                *)

IsFinalized(i, n) == topic[i][1] \in Extrinsics /\ n = MaxUpdates

\* An extrinsic is reported ready first and finalized last, which ends its
\* subscription.
NodeUpdates(i) ==
    /\ i \in active /\ sent[i] < MaxUpdates /\ fault = "none"
    /\ sent' = [sent EXCEPT ![i] = @ + 1]
    /\ active' = IF IsFinalized(i, sent[i] + 1) THEN active \ {i} ELSE active
    /\ UNCHANGED <<slots, threads, topic, consumer, history, timeouts, fault>>

\* Mutant of Matching: the id of finalized blocks is only tested for zero.
MatchingAnyFinalized(i) ==
    {s \in Slot : /\ IF s[1] = "finalized" THEN id[s] # 0 ELSE id[s] = i
                  /\ s = Era => best}

\* The slots whose id the update has; an update of eras needs a block number.
Matching(i) == {s \in Slot : id[s] = i /\ (s = Era => best)}
Rank(s) == CHOOSE n \in DOMAIN Kinds : Kinds[n] = s[1]
FirstMatching(i) == {s \in Matching(i) : \A r \in Matching(i) : Rank(s) <= Rank(r)}

MatchSingle(i) ==
    /\ calling[i] = <<>> /\ taken[i] < sent[i] /\ fault = "none"
    /\ taken' = [taken EXCEPT ![i] = @ + 1]
    /\ \/ \E s \in FirstMatching(i) :
            s[1] \in Single /\ calling' = [calling EXCEPT ![i] = <<s>>]
       \/ (\A s \in Matching(i) : s[1] \in Keyed) /\ UNCHANGED calling
    /\ UNCHANGED <<slots, threads, node, resetting, history, timeouts, fault>>

\* handleWsMessage finds the subscriber; an update that matches nothing is lost.
Match(i) ==
    /\ calling[i] = <<>> /\ taken[i] < sent[i] /\ fault = "none"
    /\ taken' = [taken EXCEPT ![i] = @ + 1]
    /\ \/ \E s \in FirstMatching(i) : calling' = [calling EXCEPT ![i] = <<s>>]
       \/ Matching(i) = {} /\ UNCHANGED calling
    /\ UNCHANGED <<slots, threads, node, resetting, history, timeouts, fault>>

\* It calls the callback that is there now; an empty function throws, which
\* ends the process.
Invoke(i) ==
    LET s == calling[i][1]
    IN  /\ calling[i] # <<>> /\ ~resetting[i] /\ fault = "none"
        /\ \/ /\ sub[s] = None
              /\ fault' = "bad_function_call"
              /\ UNCHANGED <<best, calling, resetting, heard>>
           \/ /\ sub[s] # None
              /\ best' = (best \/ sub[s] = Lambda)
              /\ heard' = Append(heard, [cb |-> sub[s], id |-> i, update |-> taken[i]])
              /\ IF s[1] = "transfer" /\ IsFinalized(i, taken[i])
                 THEN resetting' = [resetting EXCEPT ![i] = TRUE] /\ UNCHANGED calling
                 ELSE calling' = [calling EXCEPT ![i] = <<>>] /\ UNCHANGED resetting
              /\ UNCHANGED fault
        /\ UNCHANGED <<id, sub, threads, node, taken, calls, wanted, timeouts>>

\* "There is no need to unsubscribe, just reset".
Reset(i) ==
    LET s == calling[i][1]
    IN  /\ resetting[i] /\ fault = "none"
        /\ sub' = [sub EXCEPT ![s] = None] /\ id' = [id EXCEPT ![s] = 0]
        /\ resetting' = [resetting EXCEPT ![i] = FALSE]
        /\ calling' = [calling EXCEPT ![i] = <<>>]
        /\ UNCHANGED <<best, threads, node, taken, history, timeouts, fault>>

Consume(i) == Match(i) \/ Invoke(i) \/ Reset(i)

Next ==
    \/ \E u \in User : Step(u) \/ \E c \in Calls : Call(u, c[1], c[2])
    \/ \E i \in 1 .. MaxSubs : NodeUpdates(i) \/ Consume(i)

Spec == Init /\ [][Next]_vars

-----------------------------------------------------------------------------
(* Properties                                                              *)

TypeOK ==
    /\ id \in [Slot -> Leftover \cup {Absent} \cup 0 .. MaxSubs]
    /\ sub \in [Slot -> -1 .. MaxCalls] /\ best \in BOOLEAN
    /\ clearing \in [User -> 0 .. 2]
    /\ topic \in Seq(Slot) /\ active \subseteq DOMAIN topic
    /\ \A i \in 1 .. MaxSubs : taken[i] <= sent[i] /\ sent[i] <= MaxUpdates
    /\ fault \in {"none", "bad_function_call"}

\* Every update handleWsMessage passes on reaches a callback that was brought
\* for what the update is about, across all the slots, replacements of
\* callbacks, and ids that come and go.
Routed ==
    \A n \in DOMAIN heard :
        heard[n].cb # Lambda => calls[heard[n].cb] = topic[heard[n].id]

\* A subscription the node serves is the one of exactly one slot, so that it
\* can be cancelled and its updates find their way, except between the return
\* of subscribeWs and the store of the id it returned.
HeldOnce ==
    \A i \in active : topic[i][1] \notin Extrinsics =>
        \/ \E s \in Slot : {t \in Slot : id[t] = i} = {s}
        \/ \E u \in User : answer[u] = <<i>>

\* Between calls, a callback the application brought and has not withdrawn is
\* the one in place, and a withdrawn callback has no subscription.
InPlace(s) ==
    (\A u \in User : todo[u] = <<>>) =>
        IF wanted[s] = None THEN sub[s] = None \/ ~Held(s) ELSE sub[s] = wanted[s]

\* So it is for the slots that no other call uses: not for the block number,
\* which subscribeEraAndSession takes over, and the nonce, which
\* getAccountNonce does.
OthersForwarded ==
    \A s \in Slot : s[1] \in {"balance", "storage", "finalized", "version", "era"} => InPlace(s)

\* While the id of a subscription is stored, its latest update reaches the
\* callback in place, unless the slot is given up first.
Forwarded ==
    \A i \in 1 .. MaxSubs :
        (taken[i] < sent[i] /\ Matching(i) # {})
            ~> \/ \E n \in DOMAIN heard : heard[n].id = i /\ heard[n].update = sent[i]
               \/ \A s \in Slot : id[s] # i
               \/ fault # "none"
=============================================================================
