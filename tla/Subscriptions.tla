---------------------------- MODULE Subscriptions ----------------------------
(***************************************************************************)
(* The subscription half of CJsonRpc (src/jsonrpc.cpp): subscribeWs and    *)
(* unsubscribeWs in the threads of the application, handleMessage in the   *)
(* WebSocket thread, and one updateConsumerThread per subscription.        *)
(*                                                                         *)
(* request is what module JsonRpc makes of it: the answer, or null when    *)
(* it comes too late.  The queue is what ConcurrentMapQueue gives to one   *)
(* producer and one consumer per key, with the two permits it counts and   *)
(* with eraseKey, which leaves the items in the queue; its own races are   *)
(* the subject of that module.  The n-th update of a subscription is       *)
(* represented by n.                                                       *)
(***************************************************************************)
EXTENDS Integers, Sequences

CONSTANTS User,          \* the threads, each of which subscribes once
          MaxSubs,       \* bound: subscriptions
          MaxUpdates,    \* bound: updates of a subscription
          MaxSize,       \* RESPONSE_QUEUE_MAX_SIZE
          MaxTimeouts,   \* bound: requests whose answer comes too late
          MaxUnsubs      \* bound: calls of unsubscribeWs

ASSUME SubscriptionsAssumption ==
    /\ MaxSubs \in Nat /\ MaxUpdates \in Nat /\ MaxTimeouts \in Nat /\ MaxUnsubs \in Nat
    /\ MaxSize \in Nat \ {0}

Ids  == 1 .. MaxSubs
Ids0 == 0 .. MaxSubs       \* 0 is what a null answer becomes

VARIABLES
    active,      \* the node's subscriptions
    given,       \* subscriptions the node has handed out
    sent,        \* per subscription: updates the node has sent
    asked,       \* requests that are with the node: [user, method, id]
    wire,        \* messages to the client, oldest first
    putting,     \* the update the WebSocket thread is putting, or <<>>
    stuck,       \* that put waits on a semaphore eraseKey has deleted
    queue,       \* _collection
    semaphores,  \* the keys of _semR and _semW
    permR, permW,\* per key: the counts of its semaphores
    observers,   \* the keys of _wsSubscribers with an observer
    consumer,    \* per subscription: the next step of its consumer thread
    item,        \* per consumer: the message it holds
    pc, sub,     \* per user: its next step, and its subscription
    erased,      \* history: subscriptions that eraseKey was called for
    handled,     \* history: per subscription, the updates its observer got
    timeouts, unsubs, fault

node  == <<active, given, sent>>
chan  == <<queue, semaphores, permR, permW>>
ws    == <<putting, stuck>>
cons  == <<consumer, item>>
users == <<pc, sub>>
bound == <<timeouts, unsubs>>
vars  == <<node, asked, wire, ws, chan, observers, cons, users, erased, handled, bound, fault>>

Init ==
    /\ active = {} /\ given = 0 /\ sent = [i \in Ids0 |-> 0]
    /\ asked = {} /\ wire = <<>>
    /\ putting = <<>> /\ stuck = FALSE
    /\ queue = [i \in Ids0 |-> <<>>] /\ semaphores = {}
    /\ permR = [i \in Ids0 |-> 0] /\ permW = [i \in Ids0 |-> MaxSize - 1]
    /\ observers = {}
    /\ consumer = [i \in Ids0 |-> "none"] /\ item = [i \in Ids0 |-> 0]
    /\ pc = [u \in User |-> "idle"] /\ sub = [u \in User |-> 0]
    /\ erased = {} /\ handled = [i \in Ids0 |-> <<>>]
    /\ timeouts = 0 /\ unsubs = 0 /\ fault = "none"

At(u, l)   == fault = "none" /\ pc[u] = l
Goto(u, l) == pc' = [pc EXCEPT ![u] = l]

-----------------------------------------------------------------------------
(* The node (external): answers, and sends the updates of a subscription   *)
(* after the answer to it.                                                 *)

NodeSubscribes(q) ==
    /\ q \in asked /\ q.method = "subscribe"
    /\ given < MaxSubs
    /\ given' = given + 1 /\ active' = active \cup {given + 1}
    /\ asked' = asked \ {q}
    /\ wire' = Append(wire, [user |-> q.user, id |-> given + 1, update |-> 0])
    /\ UNCHANGED <<sent, ws, chan, observers, cons, users, erased, handled, bound, fault>>

NodeUnsubscribes(q) ==
    /\ q \in asked /\ q.method = "unsubscribe"
    /\ active' = active \ {q.id}
    /\ asked' = asked \ {q}
    /\ wire' = Append(wire, [user |-> q.user, id |-> q.id, update |-> 0])
    /\ UNCHANGED <<given, sent, ws, chan, observers, cons, users, erased, handled, bound, fault>>

NodeUpdates(i) ==
    /\ fault = "none"
    /\ i \in active /\ sent[i] < MaxUpdates
    /\ sent' = [sent EXCEPT ![i] = @ + 1]
    /\ wire' = Append(wire, [id |-> i, update |-> sent[i] + 1])
    /\ UNCHANGED <<active, given, asked, ws, chan, observers, cons, users, erased, handled,
                   bound, fault>>

-----------------------------------------------------------------------------
(* handleMessage                                                           *)

\* The answer to a request, which a request that gave up drops.
Response ==
    /\ fault = "none" /\ putting = <<>> /\ wire # <<>> /\ Head(wire).update = 0
    /\ LET m == Head(wire)
       IN  /\ wire' = Tail(wire)
           /\ \/ /\ pc[m.user] = "subscribing"
                 /\ sub' = [sub EXCEPT ![m.user] = m.id] /\ Goto(m.user, "register")
              \/ /\ pc[m.user] = "unsubscribing" /\ sub[m.user] = m.id
                 /\ Goto(m.user, "unregister") /\ UNCHANGED sub
              \/ /\ pc[m.user] # "subscribing"
                 /\ ~(pc[m.user] = "unsubscribing" /\ sub[m.user] = m.id)
                 /\ UNCHANGED users
    /\ UNCHANGED <<node, asked, ws, chan, observers, cons, erased, handled, bound, fault>>

\* addKey of the queue.
AddKey(i) ==
    /\ semaphores' = semaphores \cup {i}
    /\ permR' = [permR EXCEPT ![i] = IF i \in semaphores THEN @ ELSE 0]
    /\ permW' = [permW EXCEPT ![i] = IF i \in semaphores THEN @ ELSE MaxSize - 1]

\* An update arrives, and put begins.
Update ==
    /\ fault = "none" /\ putting = <<>> /\ wire # <<>> /\ Head(wire).update > 0
    /\ wire' = Tail(wire)
    /\ putting' = <<Head(wire).id, Head(wire).update>>
    /\ AddKey(Head(wire).id)
    /\ UNCHANGED <<node, asked, stuck, queue, observers, cons, users, erased, handled, bound, fault>>

\* Mutant of Put: an update for a full queue is dropped.
PutOrDrop ==
    LET i == putting[1]
    IN  /\ fault = "none" /\ putting # <<>> /\ ~stuck
        /\ putting' = <<>>
        /\ \/ /\ permW[i] > 0
              /\ permW' = [permW EXCEPT ![i] = @ - 1]
              /\ queue' = [queue EXCEPT ![i] = Append(@, putting[2])]
              /\ permR' = [permR EXCEPT ![i] = @ + 1]
           \/ permW[i] = 0 /\ UNCHANGED <<permW, queue, permR>>
        /\ UNCHANGED <<node, asked, wire, stuck, semaphores, observers, cons, users, erased,
                       handled, bound, fault>>

\* put gets through the semaphore, writes and notifies.
Put ==
    LET i == putting[1]
    IN  /\ fault = "none" /\ putting # <<>> /\ ~stuck
        /\ i \in semaphores /\ permW[i] > 0
        /\ permW' = [permW EXCEPT ![i] = @ - 1]
        /\ queue' = [queue EXCEPT ![i] = Append(@, putting[2])]
        /\ permR' = [permR EXCEPT ![i] = @ + 1]
        /\ putting' = <<>>
        /\ UNCHANGED <<node, asked, wire, stuck, semaphores, observers, cons, users, erased,
                       handled, bound, fault>>

\* The semaphores are gone when put looks for them.
PutErased ==
    /\ fault = "none" /\ putting # <<>> /\ ~stuck
    /\ putting[1] \notin semaphores
    /\ fault' = "null"
    /\ UNCHANGED <<node, asked, wire, ws, chan, observers, cons, users, erased, handled, bound>>

WsStep == Response \/ Update \/ Put \/ PutErased

-----------------------------------------------------------------------------
(* subscribeWs and unsubscribeWs                                           *)

Subscribe(u) ==
    /\ At(u, "idle")
    /\ asked' = asked \cup {[user |-> u, method |-> "subscribe", id |-> 0]}
    /\ Goto(u, "subscribing")
    /\ UNCHANGED <<node, wire, ws, chan, observers, cons, sub, erased, handled, bound, fault>>

\* request gives up: the answer is null, and becomes the subscription ID 0.
TimeOut(u) ==
    /\ At(u, "subscribing") \/ At(u, "unsubscribing")
    /\ timeouts < MaxTimeouts
    /\ timeouts' = timeouts + 1
    /\ IF pc[u] = "subscribing" THEN sub' = [sub EXCEPT ![u] = 0] /\ Goto(u, "register")
                                ELSE Goto(u, "unregister") /\ UNCHANGED sub
    /\ UNCHANGED <<node, asked, wire, ws, chan, observers, cons, erased, handled, unsubs, fault>>

\* Mutant of Register: the observer is not stored.
RegisterUnobserved(u) ==
    /\ At(u, "register")
    /\ consumer' = [consumer EXCEPT ![sub[u]] = "get"]
    /\ Goto(u, "subscribed")
    /\ UNCHANGED <<node, asked, wire, ws, chan, observers, item, sub, erased, handled, bound, fault>>

\* The observer is stored and the consumer thread started and detached.
Register(u) ==
    /\ At(u, "register")
    /\ observers' = observers \cup {sub[u]}
    /\ consumer' = [consumer EXCEPT ![sub[u]] = "get"]
    /\ Goto(u, "subscribed")
    /\ UNCHANGED <<node, asked, wire, ws, chan, item, sub, erased, handled, bound, fault>>

\* unsubscribeWs; for the subscription ID 0 it does nothing.
Unsubscribe(u) ==
    /\ At(u, "subscribed") /\ unsubs < MaxUnsubs
    /\ unsubs' = unsubs + 1
    /\ IF sub[u] = 0
       THEN Goto(u, "done") /\ UNCHANGED asked
       ELSE /\ asked' = asked \cup {[user |-> u, method |-> "unsubscribe", id |-> sub[u]]}
            /\ Goto(u, "unsubscribing")
    /\ UNCHANGED <<node, wire, ws, chan, observers, cons, sub, erased, handled, timeouts, fault>>

\* _wsSubscribers.erase(subscriptionId).
Unregister(u) ==
    /\ At(u, "unregister")
    /\ observers' = observers \ {sub[u]}
    /\ Goto(u, "erase")
    /\ UNCHANGED <<node, asked, wire, ws, chan, cons, sub, erased, handled, bound, fault>>

\* eraseKey: the waiting consumer is released, the semaphores are deleted, and
\* a put that waits for one of them is left behind.  A key that neither put nor
\* get has added yet has none, and its null pointer is used.
EraseKey(u) ==
    LET i == sub[u]
    IN  /\ At(u, "erase")
        /\ erased' = erased \cup {i}
        /\ semaphores' = semaphores \ {i}
        /\ consumer' = [consumer EXCEPT ![i] = IF @ = "wait" THEN "read" ELSE @]
        /\ stuck' = (stuck \/ (putting # <<>> /\ putting[1] = i /\ permW[i] = 0))
        /\ fault' = IF i \in semaphores THEN fault ELSE "null"
        /\ Goto(u, "done")
        /\ UNCHANGED <<node, asked, wire, putting, queue, permR, permW, observers, item, sub,
                       handled, bound>>

UserStep(u) == Register(u) \/ Unregister(u) \/ EraseKey(u)

-----------------------------------------------------------------------------
(* updateConsumerThread                                                    *)

Get(i) ==
    /\ fault = "none" /\ consumer[i] = "get"
    /\ AddKey(i)
    /\ consumer' = [consumer EXCEPT ![i] = "wait"]
    /\ UNCHANGED <<node, asked, wire, ws, queue, observers, item, users, erased, handled,
                   bound, fault>>

Wait(i) ==
    /\ fault = "none" /\ consumer[i] = "wait" /\ permR[i] > 0
    /\ permR' = [permR EXCEPT ![i] = @ - 1]
    /\ consumer' = [consumer EXCEPT ![i] = "read"]
    /\ UNCHANGED <<node, asked, wire, ws, queue, semaphores, permW, observers, item, users,
                   erased, handled, bound, fault>>

\* read: the thread ends if the queue is empty, and otherwise takes an item and
\* notifies put, whose semaphore may have been erased by now.
Read(i) ==
    /\ fault = "none" /\ consumer[i] = "read"
    /\ \/ /\ queue[i] = <<>>
          /\ consumer' = [consumer EXCEPT ![i] = "ended"]
          /\ UNCHANGED <<queue, permW, item, fault>>
       \/ /\ queue[i] # <<>> /\ i \in semaphores
          /\ item' = [item EXCEPT ![i] = Head(queue[i])]
          /\ queue' = [queue EXCEPT ![i] = Tail(@)]
          /\ permW' = [permW EXCEPT ![i] = @ + 1]
          /\ consumer' = [consumer EXCEPT ![i] = "handle"]
          /\ UNCHANGED fault
       \/ /\ queue[i] # <<>> /\ i \notin semaphores
          /\ fault' = "null"
          /\ UNCHANGED <<queue, permW, item, consumer>>
    /\ UNCHANGED <<node, asked, wire, ws, semaphores, permR, observers, users, erased, handled,
                   bound>>

\* Mutant of Handle: an update ends the thread.
HandleOnce(i) ==
    /\ fault = "none" /\ consumer[i] = "handle" /\ i \in observers
    /\ handled' = [handled EXCEPT ![i] = Append(@, item[i])]
    /\ consumer' = [consumer EXCEPT ![i] = "ended"]
    /\ UNCHANGED <<node, asked, wire, ws, chan, observers, item, users, erased, bound, fault>>

\* _wsSubscribers[subscriptionId]->handleWsMessage, without a lock.
Handle(i) ==
    /\ fault = "none" /\ consumer[i] = "handle"
    /\ IF i \in observers
       THEN /\ handled' = [handled EXCEPT ![i] = Append(@, item[i])]
            /\ consumer' = [consumer EXCEPT ![i] = "get"]
            /\ UNCHANGED fault
       ELSE fault' = "null" /\ UNCHANGED <<handled, consumer>>
    /\ UNCHANGED <<node, asked, wire, ws, chan, observers, item, users, erased, bound>>

ConsumerStep(i) == Get(i) \/ Wait(i) \/ Read(i) \/ Handle(i)

-----------------------------------------------------------------------------
Next ==
    \/ \E q \in asked : NodeSubscribes(q) \/ NodeUnsubscribes(q)
    \/ \E i \in Ids : NodeUpdates(i)
    \/ WsStep
    \/ \E u \in User : Subscribe(u) \/ TimeOut(u) \/ Unsubscribe(u) \/ UserStep(u)
    \/ \E i \in Ids0 : ConsumerStep(i)

Spec == Init /\ [][Next]_vars

\* Threads run until they block, handlers return (they do not block,
\* iapplication.h:11), and the node answers.
Fairness ==
    /\ WF_vars(WsStep)
    /\ WF_vars(\E q \in asked : NodeSubscribes(q) \/ NodeUnsubscribes(q))
    /\ \A u \in User : WF_vars(UserStep(u))
    /\ \A i \in Ids0 : WF_vars(ConsumerStep(i))

FairSpec == Spec /\ Fairness

-----------------------------------------------------------------------------
(* Properties                                                              *)

Labels    == {"idle", "subscribing", "register", "subscribed", "unsubscribing", "unregister", "erase", "done"}
Responses == [user : User, id : Ids, update : {0}]
Updates   == [id : Ids, update : 1 .. MaxUpdates]

TypeOK ==
    /\ active \subseteq 1 .. given /\ given \in 0 .. MaxSubs /\ sent \in [Ids0 -> 0 .. MaxUpdates]
    /\ asked \subseteq [user : User, method : {"subscribe", "unsubscribe"}, id : Ids0]
    /\ wire \in Seq(Responses \cup Updates)
    /\ putting # <<>> => putting \in Ids \X (1 .. MaxUpdates)
    /\ stuck \in BOOLEAN
    /\ queue \in [Ids0 -> Seq(Nat)] /\ semaphores \subseteq Ids0
    /\ permR \in [Ids0 -> Nat] /\ permW \in [Ids0 -> Nat]
    /\ observers \subseteq Ids0
    /\ consumer \in [Ids0 -> {"none", "get", "wait", "read", "handle", "ended"}] /\ item \in [Ids0 -> Nat]
    /\ pc \in [User -> Labels] /\ sub \in [User -> Ids0]
    /\ erased \subseteq Ids0 /\ handled \in [Ids0 -> Seq(Nat)]
    /\ timeouts \in Nat /\ unsubs \in Nat /\ fault \in {"none", "null"}

UpTo(n) == [k \in 1 .. n |-> k]

\* How many updates of i its consumer has taken from the queue, how many were
\* put into it, and how many handleMessage has seen.
Taken(i)    == Len(handled[i]) + (IF consumer[i] = "handle" THEN 1 ELSE 0)
Stored(i)   == Taken(i) + Len(queue[i])
InPut(i)    == putting # <<>> /\ putting[1] = i
Received(i) == Stored(i) + (IF InPut(i) THEN 1 ELSE 0)

\* What the client has of i are its first updates, in order.
InClient(i) ==
    /\ handled[i] = UpTo(Len(handled[i]))
    /\ consumer[i] = "handle" => item[i] = Taken(i)
    /\ \A k \in 1 .. Len(queue[i]) : queue[i][k] = Taken(i) + k
    /\ InPut(i) => putting[2] = Received(i)

\* The p-th message on the wire is an update of i.
Carries(p, i) == wire[p].id = i /\ wire[p].update > 0

\* What is on the wire of i are the others, in order.
OnWire(i) ==
    /\ Received(i) <= sent[i]
    /\ \A n \in Received(i) + 1 .. sent[i] : \E p \in 1 .. Len(wire) : Carries(p, i) /\ wire[p].update = n
    /\ \A p \in 1 .. Len(wire) : Carries(p, i) =>
            /\ wire[p].update \in Received(i) + 1 .. sent[i]
            /\ \A q \in 1 .. p - 1 : Carries(q, i) => wire[q].update < wire[p].update

\* Every update is handed to its observer once, in the order the node sent
\* them, or is still on its way, in that order: held by the consumer, in the
\* queue, in put or on the wire (jsonrpc.cpp:67-68, :97).  None is lost,
\* duplicated or overtaken, whatever else is subscribed and unsubscribed.
NothingLost == \A i \in Ids : InClient(i) /\ OnWire(i)

\* The queue of a subscription that was not erased holds no more than it may,
\* and the consumer may take exactly what is in it (jsonrpc.cpp:97).
PermitsMatch ==
    \A i \in Ids \ erased :
        /\ permR[i] + (IF consumer[i] = "read" THEN 1 ELSE 0) = Len(queue[i])
        /\ permW[i] + Len(queue[i]) = MaxSize - 1

\* Every update is handed to its observer once and in order or is still on its
\* way, and the permits of a queue that was not erased count what it holds
\* (handleMessage and updateConsumerThread of jsonrpc.cpp).
UpdatesKept == NothingLost /\ PermitsMatch

\* The process does not use a null pointer as long as nobody unsubscribes, not
\* even with a subscription that timed out (jsonrpc.cpp:68, :107).
NullOnlyAfterUnsubscribe == fault = "null" => unsubs > 0

\* Every update is handled (jsonrpc.cpp:65-70), unless a request timed out or a
\* subscription was ended: then the WebSocket thread may wait forever to store
\* an update that nobody takes.
EveryUpdateHandled ==
    \A i \in Ids : \A n \in 1 .. MaxUpdates :
        sent[i] >= n ~> Len(handled[i]) >= n \/ timeouts > 0 \/ unsubs > 0

\* "Stop the update consumer thread" (jsonrpc.cpp:130).
ConsumerStops == \A i \in Ids : i \in erased ~> consumer[i] = "ended" \/ fault # "none"
=============================================================================
