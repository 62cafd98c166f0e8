------------------------------- MODULE MCApi -------------------------------
(***************************************************************************)
(* The api and its subscriptions.  A behaviour plays one scene: some of    *)
(* the calls of one application, or threads that take the api and give it  *)
(* back.                                                                   *)
(***************************************************************************)
EXTENDS PolkaApi

CONSTANTS a,            \* an address
          Threads, Null

ASSUME NullAssumption == Null \notin Nat

VARIABLES scene,
          pc, held, fresh, instance, wsInstance, client, deleted, misused, taking, exited

singleton == <<pc, held, fresh, instance, wsInstance, client, deleted, misused, taking, exited>>

Singleton == INSTANCE ApiInstance WITH calls <- taking, FirstAlone <- TRUE

Both(s) == {<<"subscribe", s>>, <<"unsubscribe", s>>}

Scenes ==
    [views  |-> Both(Block) \cup Both(Era) \cup Both(<<"balance", a>>),
     heads  |-> Both(<<"finalized", "-">>) \cup Both(<<"version", "-">>),
     keyed  |-> Both(<<"storage", a>>) \cup Both(<<"nonce", a>>)
                    \cup {<<"getAccountNonce", <<"nonce", a>>>>},
     sends  |-> {<<"send", <<"transfer", "-">>>>, <<"send", <<"extrinsic", "-">>>>}]

AllCalls   == UNION {Scenes[s] : s \in DOMAIN Scenes}
NoLeftover == {0}

MCInit == scene \in DOMAIN Scenes \cup {"instance"} /\ Init /\ Singleton!Init

\* The bounds of a scene: of a transfer the node sends "ready" and "finalized",
\* of all else one update; a send needs two subscriptions; the keyed ones time out.
Within ==
    /\ scene # "sends" => Len(topic') < MaxSubs /\ \A i \in 1 .. MaxSubs : sent'[i] <= 1
    /\ scene # "keyed" => timeouts' = 0

UserStep(u) == scene # "instance" /\ Step(u) /\ Within /\ UNCHANGED <<scene, singleton>>

ApplicationStep(u) ==
    /\ scene # "instance"
    /\ \E c \in Scenes[scene] : Call(u, c[1], c[2])
    /\ UNCHANGED <<scene, singleton>>

UpdateStep(i) == NodeUpdates(i) /\ Within /\ UNCHANGED <<scene, singleton>>

ConsumerStep(i) == Consume(i) /\ UNCHANGED <<scene, singleton>>

InstanceStep == scene = "instance" /\ Singleton!Next /\ UNCHANGED <<scene, vars>>

MCNext ==
    \/ \E u \in User : UserStep(u) \/ ApplicationStep(u)
    \/ \E i \in 1 .. MaxSubs : UpdateStep(i) \/ ConsumerStep(i)
    \/ InstanceStep

MCvars == <<vars, scene, singleton>>

\* The threads run, and the node sends the first value of what is subscribed.
MCSpec ==
    /\ MCInit /\ [][MCNext]_MCvars
    /\ \A u \in User : WF_MCvars(UserStep(u))
    /\ \A i \in 1 .. MaxSubs : WF_MCvars(ConsumerStep(i)) /\ WF_MCvars(UpdateStep(i) /\ sent[i] = 0)

\* An update goes to the callback of the subscription it belongs to and to no
\* other, a subscription of the node is held in one slot, and the callback of a
\* slot is that of its latest subscriber (handleWsMessage and the subscribe
\* methods).
Dispatched == TypeOK /\ HeldOnce /\ OthersForwarded /\ Routed

\* Whoever has an api can call it, and its client is deleted once (getInstance
\* and ~impl of polkacpp.cpp).
InstanceLives == Singleton!ClientOfHeldLives /\ Singleton!DeletedOnce
=============================================================================
