------------------------------ MODULE MCChain ------------------------------
(***************************************************************************)
(* What CPolkaApi asks of a node and sends to it.  A behaviour is about    *)
(* one subject: extrinsics, metadata, queries, or eras and sessions; the   *)
(* others stay as they were at the start.                                  *)
(***************************************************************************)
EXTENDS ChainApi

CONSTANT Versions                                   \* MetadataLookup

VARIABLES subject,
          runtime, version, md, asked, answer       \* MetadataLookup

metadata == <<runtime, version, md, asked, answer>>

\* Nonces of every compact mode: 63, 4095, 16384, 2^30 and 2^32.
SomeNonces == {<<63>>, <<255, 15>>, <<0, 64>>, <<0, 0, 0, 64>>, <<0, 0, 0, 0, 1>>}
\* 1, 141 and the largest amount of 7 bytes.
SomeAmounts == {<<1>>, <<141>>, <<255, 255, 255, 255, 255, 255, 255>>}

-----------------------------------------------------------------------------
(* Runtimes of one module, with every optional part, and of two.           *)

A == <<65>>                  \* "A"
LowerA == <<97>>             \* "a"
B == <<66>>                  \* "B"

Variable(name, kind, hasher) ==
    [name |-> name, modifier |-> 1, kind |-> kind, hasher |-> hasher, key1 |-> <<75>>, key2 |-> <<76>>,
     value |-> <<86>>, linked |-> 0, fallback |-> <<0>>, docs |-> <<A>>]
Call(name) == [name |-> name, args |-> <<<<A, B>>>>, docs |-> <<>>]
Const(name, value) == [name |-> name, type |-> <<84>>, value |-> <<value>>, docs |-> <<>>]

NoPart   == <<>>
Part(xs) == <<xs>>

Storages   == {NoPart, Part(<<>>), Part(<<Variable(A, 0, 0)>>),
               Part(<<Variable(B, 1, 2), Variable(LowerA, 2, 1)>>)}
CallLists  == {NoPart, Part(<<>>), Part(<<Call(A)>>), Part(<<Call(B), Call(LowerA)>>)}
EventLists == {NoPart, Part(<<A>>)}
ConstLists == {<<>>, <<Const(A, 7), Const(LowerA, 9)>>}

Modules(name, storages, callLists, eventLists, constLists) ==
    [name : {name}, storage : storages, calls : callLists, events : eventLists, consts : constLists]

OneModule  == {<<m>> : m \in Modules(A, Storages, CallLists, EventLists, ConstLists)}
TwoModules == {<<m, n>> : m \in Modules(A, Storages, CallLists, {NoPart}, {<<>>}),
                          n \in Modules(B, {NoPart, Part(<<Variable(A, 0, 0)>>)}, CallLists, {NoPart}, {<<>>})}

-----------------------------------------------------------------------------
Metadata == INSTANCE MetadataLookup WITH Runtimes <- OneModule \cup TwoModules, Names <- {LowerA, B}

MCInit ==
    /\ subject \in {"extrinsics", "metadata", "queries", "eras"}
    /\ Init
    /\ IF subject = "metadata" THEN Metadata!Init
       ELSE runtime = <<>> /\ version = 0 /\ md = <<>> /\ asked = Metadata!Nothing /\ answer = -1
    /\ IF subject = "queries" THEN Query!Init
       ELSE head = 0 /\ peers = 0 /\ api = <<>> /\ call = <<>> /\ returned = Query!NoCall /\ timeouts = 0
    /\ IF subject = "eras" THEN Eras!Init
       ELSE /\ isEpoch = TRUE /\ chain = <<>> /\ subscribed = FALSE /\ heads = <<>> /\ changes = <<>>
            /\ best = -1 /\ told = Eras!NoReport

ExtrinsicStep == subject = "extrinsics" /\ Next /\ UNCHANGED <<subject, metadata, queries, eras>>
MetadataStep  == subject = "metadata" /\ Metadata!Next /\ UNCHANGED <<subject, vars, queries, eras>>
QueryStep     == subject = "queries" /\ Query!Next /\ UNCHANGED <<subject, vars, metadata, eras>>
EraStep       == subject = "eras" /\ Eras!Next /\ UNCHANGED <<subject, vars, metadata, queries>>

MCNext == ExtrinsicStep \/ MetadataStep \/ QueryStep \/ EraStep

MCSpec == MCInit /\ [][MCNext]_<<subject, vars, metadata, queries, eras>>

-----------------------------------------------------------------------------
(* The properties of the lookups; Extrinsic and ChainApi state the others. *)

\* createMetadata reads the node's runtime, whichever of the five versions it
\* comes in (metadatafactory.cpp).
Faithful == Metadata!Faithful

\* A module index is the one the node dispatches by, and any other index or
\* constant that a lookup returns is that of the name it was asked for
\* (getModuleIndex, getStorageMethodIndex, getCallMethodIndex, getMetadataConst).
LookupsAreRight ==
    Metadata!ModuleIndexDispatches /\ Metadata!IndexIsOfName /\ Metadata!ConstIsRead
=============================================================================
