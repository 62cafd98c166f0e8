--------------------------- MODULE MetadataLookup ---------------------------
(***************************************************************************)
(* From the node's metadata to the indexes an extrinsic or a storage key   *)
(* is made of: createMetadata and the lookups of CPolkaApi over what it    *)
(* filled (src/application.cpp).  The node's runtime is described by the   *)
(* sequence of its modules; Write is the encoding the node sends it in.    *)
(* The lookups count from 0, as the code does.                             *)
(***************************************************************************)
EXTENDS MetadataFactory, SequencesExt

CONSTANTS Runtimes,       \* the runtimes a node may have
          Versions,       \* the metadata versions it may describe them in
          Names           \* the names that are looked up

VARIABLES runtime,        \* the modules of the node's runtime
          version,        \* the version of its metadata
          md,             \* _protocolPrm.metadata, by version
          asked, answer   \* the last lookup and what it returned

vars == <<runtime, version, md, asked, answer>>

-----------------------------------------------------------------------------
(* The node: a module has a name, optional variables and calls, constants. *)

WStr(s)        == encodeCompactInteger(Digits(Len(s))) \o s
WList(xs, W(_)) == encodeCompactInteger(Digits(Len(xs))) \o FlattenSeq([i \in DOMAIN xs |-> W(xs[i])])
WIsset(o, W(_)) == IF o = <<>> THEN <<0>> ELSE <<1>> \o W(o[1])

WDocs(ds) == WList(ds, WStr)

\* kind: 0 plain, 1 map, 2 double map.
WVariable(x) ==
    WStr(x.name) \o <<x.modifier, x.kind>>
        \o (IF x.kind # 0 THEN <<x.hasher>> \o WStr(x.key1) ELSE <<>>)
        \o (IF x.kind = 2 THEN WStr(x.key2) ELSE <<>>)
        \o WStr(x.value)
        \o (IF x.kind # 0 THEN <<x.linked>> ELSE <<>>)
        \o WStr(x.fallback) \o WDocs(x.docs)

WVariableV4(x) ==
    WStr(x.name) \o <<x.modifier, x.kind>>
        \o (IF x.kind # 0 THEN WStr(x.key1) ELSE <<>>)
        \o WStr(x.value) \o (IF x.kind # 0 THEN <<x.hasher>> ELSE <<>>)
        \o WStr(x.fallback) \o WDocs(x.docs)

WVariableV0(x) ==
    WStr(x.name) \o <<x.kind, IF x.kind # 0 THEN 1 ELSE 0>>
        \o (IF x.kind # 0 THEN WStr(x.key1) ELSE <<>>)
        \o WStr(x.value) \o WStr(x.fallback) \o WDocs(x.docs)

WArg(a)     == WStr(a[1]) \o WStr(a[2])
WCall(c)    == WStr(c.name) \o WList(c.args, WArg) \o WDocs(c.docs)
WCallV0(c)  == <<0, 0>> \o WCall(c)
WConst(c)   == WStr(c.name) \o WStr(c.type) \o WStr(c.value) \o WDocs(<<>>)
WEvent(e)   == WStr(e) \o WList(<<e>>, WStr) \o WDocs(<<e>>)
WVars(xs)   == WList(xs, WVariable)
WVarsV4(xs) == WList(xs, WVariableV4)
WVarsV7(xs) == WStr(<<80>>) \o WList(xs, WVariable)
WVarsV0(xs) == WStr(<<80>>) \o WList(xs, WVariableV0)
WCalls(cs)  == WList(cs, WCall)
WEvents(es) == WList(es, WEvent)

WModuleV0(m) ==
    WStr(m.name) \o WStr(m.name) \o WStr(<<67>>)
        \o WList(IF m.calls = <<>> THEN <<>> ELSE m.calls[1], WCallV0) \o WIsset(m.storage, WVarsV0)
WModuleV4(m) == WStr(m.name) \o WStr(m.name) \o WIsset(m.storage, WVarsV4)
                    \o WIsset(m.calls, WCalls) \o WIsset(m.events, WEvents)
WModuleV5(m) == WStr(m.name) \o WStr(m.name) \o WIsset(m.storage, WVars)
                    \o WIsset(m.calls, WCalls) \o WIsset(m.events, WEvents)
WModuleV6(m) == WModuleV5(m) \o WList(m.consts, WConst)
WModuleV7(m) == WStr(m.name) \o WIsset(m.storage, WVarsV7) \o WIsset(m.calls, WCalls)
                    \o WIsset(m.events, WEvents) \o WList(m.consts, WConst)

WEventV0(c)    == WStr(<<c>>) \o WList(<<<<c>>>>, WEvent)
WDispatchV0(c) == WStr(<<c>>) \o WStr(<<c>>) \o <<1, 0>>

MetaMagic(v) == <<109, 101, 116, 97, v>>

Write(v, ms) ==
    CASE v = 0 -> WStr(<<69>>) \o WList(<<69>>, WEventV0) \o WList(ms, WModuleV0)
                      \o WStr(<<68>>) \o WList(<<68>>, WDispatchV0)
      [] v = 4 -> MetaMagic(v) \o WList(ms, WModuleV4)
      [] v = 5 -> MetaMagic(v) \o WList(ms, WModuleV5)
      [] v = 6 -> MetaMagic(v) \o WList(ms, WModuleV6)
      [] v = 7 -> MetaMagic(v) \o WList(ms, WModuleV7)

-----------------------------------------------------------------------------
(* Lookups.                                                                *)

COLLECTION_SIZE == 64
Indexes == 0 .. COLLECTION_SIZE - 1

easytolower(c) == IF c \in 65 .. 90 THEN c + 32 ELSE c
Lower(name)    == [i \in DOMAIN name |-> easytolower(name[i])]

\* Reading through a null pointer.
Crash == -2

\* The first version that has a module i, in the order of the else-ifs.
HasModule(i)  == {v \in VersionNumber : md[v] # Null /\ i \in 0 .. Len(md[v][1]) - 1}
First(vs)     == CHOOSE v \in vs : \A w \in vs : v <= w
Module(v, i)  == md[v][1][i + 1]

\* V0 looks at the storage functions, the others at the calls.
hasMethods(i) ==
    /\ HasModule(i) # {}
    /\ LET v == First(HasModule(i))
       IN  IF v = 0 THEN Module(v, i).storage # Null ELSE Module(v, i).call # <<>>

\* Mutant of getModuleIndex: modules without calls are counted up to the end.
ModuleIndexAllZero(name, skipZeroCalls) ==
    LET found == {i \in Indexes : HasModule(i) # {} /\ Lower(Module(First(HasModule(i)), i).name) = Lower(name)}
        index == First(found)
        zero  == {i \in Indexes : HasModule(i) # {} /\ ~hasMethods(i)}
    IN  IF found = {} THEN -1
        ELSE index - (IF skipZeroCalls THEN Cardinality(zero) ELSE 0)

getModuleIndex(name, skipZeroCalls) ==
    LET found == {i \in Indexes : HasModule(i) # {} /\ Lower(Module(First(HasModule(i)), i).name) = Lower(name)}
        index == First(found)
        zero  == {i \in 0 .. index : HasModule(i) # {} /\ ~hasMethods(i)}
    IN  IF found = {} THEN -1
        ELSE index - (IF skipZeroCalls THEN Cardinality(zero) ELSE 0)

\* The loop over i of the two method lookups: the version is chosen by
\* module i, the item by module and i.  Where there is no module i the name
\* stays empty; an item that is not there is a null pointer, except in the
\* arrays of V0.
Stop(i, items(_, _), module, name) ==
    /\ HasModule(i) # {}
    /\ LET v == First(HasModule(i)) IN
       IF module \in 0 .. Len(md[v][1]) - 1 /\ i < Len(items(v, module))
       THEN Lower(items(v, module)[i + 1].name) = Lower(name)
       ELSE v # 0 \/ module \notin 0 .. Len(md[v][1]) - 1

Search(items(_, _), module, name) ==
    LET stops == {i \in Indexes : Stop(i, items, module, name)}
        i     == First(stops)
        v     == First(HasModule(i))
    IN  IF stops = {} THEN -1
        ELSE IF module \in 0 .. Len(md[v][1]) - 1 /\ i < Len(items(v, module)) THEN i ELSE Crash

StorageOf(v, i) == Module(v, i).storage
CallsOf(v, i)   == Module(v, i).call

getStorageMethodIndex(module, name) == Search(StorageOf, module, name)

getCallMethodIndex(module, name) == Search(CallsOf, module, name)

\* With V0, the type of a function that was not written is not known.
isStateVariablePlain(module, i) == Module(First(HasModule(module)), module).storage[i + 1].type = 0

XXHASH == 0
BLAKE2 == 1

\* hasherStr is never "Blake2_256": V4 keeps a number, the others nothing.
getFuncHasher(moduleName, name) ==
    LET module == getModuleIndex(moduleName, FALSE) IN
    IF md[0] = Null /\ module >= 0 /\ getStorageMethodIndex(module, name) = Crash THEN Crash ELSE XXHASH

\* Only metadataV7 is looked at, and the case of the name matters here.
getMetadataConst(moduleName, name) ==
    LET module == getModuleIndex(moduleName, FALSE) IN
    IF md[7] = Null \/ module \notin 0 .. Len(md[7][1]) - 1 THEN Crash
    ELSE LET cons == Module(7, module).cons
             is   == {i \in DOMAIN cons : cons[i].name = name}
         IN  IF is = {} THEN -1 ELSE cons[First(is)].value[1]

-----------------------------------------------------------------------------
Nothing == [by |-> "none"]

Init ==
    /\ runtime \in Runtimes /\ version \in Versions
    /\ md = [v \in VersionNumber |-> Null]
    /\ asked = Nothing /\ answer = -1

getMetadataOfNode ==
    /\ asked = Nothing
    /\ md' = createMetadata(Write(version, runtime))
    /\ asked' = [by |-> "metadata"]
    /\ UNCHANGED <<runtime, version, answer>>

Ask(by, module, name, result) ==
    /\ asked # Nothing
    /\ asked' = [by |-> by, module |-> module, name |-> name]
    /\ answer' = result
    /\ UNCHANGED <<runtime, version, md>>

AskModule   == \E n \in Names : Ask("module", -1, n, getModuleIndex(n, TRUE))
AskVariable == \E n \in Names, m \in Names :
                   LET i == getModuleIndex(m, FALSE)
                   IN  i >= 0 /\ Ask("variable", i, n, getStorageMethodIndex(i, n))
AskCall     == \E n \in Names, m \in Names :
                   LET i == getModuleIndex(m, FALSE)
                   IN  i >= 0 /\ Ask("call", i, n, getCallMethodIndex(i, n))
AskPlain    == /\ asked.by = "variable" /\ answer >= 0
               /\ Ask("plain", asked.module, asked.name,
                      IF isStateVariablePlain(asked.module, answer) THEN 1 ELSE 0)
AskHasher   == \E n \in Names, m \in Names : Ask("hasher", getModuleIndex(m, FALSE), n, getFuncHasher(m, n))
AskConst    == \E n \in Names, m \in Names : Ask("const", getModuleIndex(m, FALSE), n, getMetadataConst(m, n))

Next ==
    \/ getMetadataOfNode
    \/ AskModule \/ AskVariable \/ AskCall \/ AskPlain \/ AskHasher \/ AskConst

Spec == Init /\ [][Next]_vars

-----------------------------------------------------------------------------
(* What the answers mean, in terms of the node's runtime.                  *)

Same(a, b) == Lower(a) = Lower(b)

\* The variables and calls of module i of the runtime.
Variables(i) == IF runtime[i + 1].storage = <<>> THEN <<>> ELSE runtime[i + 1].storage[1]
Calls(i)     == IF runtime[i + 1].calls = <<>> THEN <<>> ELSE runtime[i + 1].calls[1]

ExpectedStorage(v, x) ==
    [name |-> x.name,
     type |-> IF v = 4 THEN x.kind ELSE IF x.kind = 0 THEN 0 ELSE x.hasher,
     key1 |-> IF x.kind = 0 THEN x.value ELSE x.key1,
     key2 |-> IF v = 4 /\ x.kind # 0 THEN x.value ELSE Uninit,
     value |-> IF v = 4 \/ x.kind = 0 THEN Uninit ELSE x.value,
     fallback |-> x.fallback, documentation |-> x.docs]

\* What createMetadata fills for the version the node used is the node's
\* runtime: every module, variable, call and constant, in order, whichever
\* of the optional parts of a module are there, whatever their kind.
Faithful ==
    asked # Nothing =>
        /\ md[version] # Null
        /\ Len(md[version][1]) = Len(runtime)
        /\ \A i \in 0 .. Len(runtime) - 1 :
               LET m == Module(version, i) IN
               /\ m.name = runtime[i + 1].name
               /\ version = 0 =>
                      \A k \in DOMAIN Variables(i) :
                          /\ m.storage[k].name = Variables(i)[k].name
                          /\ m.storage[k].value = Variables(i)[k].value
               /\ version # 0 /\ Variables(i) # <<>> =>
                      m.storage = [k \in DOMAIN Variables(i) |-> ExpectedStorage(version, Variables(i)[k])]
               /\ Calls(i) # <<>> =>
                      m.call = [k \in DOMAIN Calls(i) |-> [name |-> Calls(i)[k].name, args |-> Calls(i)[k].args]]
               /\ version \in {6, 7} =>
                      m.cons = [k \in DOMAIN runtime[i + 1].consts |->
                                    [name |-> runtime[i + 1].consts[k].name, value |-> runtime[i + 1].consts[k].value]]

\* The index of a module in an extrinsic: the modules before it that have
\* calls, an empty list of calls included.
CallIndex(i) == Cardinality({k \in 0 .. i - 1 : runtime[k + 1].calls # <<>>})

\* getModuleIndex skips the modules without calls: the index it returns for
\* a module that has calls is the one the node's dispatch uses.  Left out are
\* V0 and V7 with an empty list of calls, where hasMethods tells otherwise.
ModuleIndexDispatches ==
    asked.by = "module" /\ version # 0 =>
        \A i \in 0 .. Len(runtime) - 1 :
            /\ Same(runtime[i + 1].name, asked.name)
            /\ \A k \in 0 .. i - 1 : ~Same(runtime[k + 1].name, asked.name)
            /\ Calls(i) # <<>>
            /\ version = 7 => \A k \in 0 .. i : runtime[k + 1].calls # << <<>> >>
            => answer = CallIndex(i)

\* An index that getStorageMethodIndex or getCallMethodIndex returns is that
\* of the first variable or call with the name, case apart.
IndexIsOfName ==
    answer >= 0 =>
        LET items == IF asked.by = "variable" THEN Variables(asked.module) ELSE Calls(asked.module) IN
        asked.by \in {"variable", "call"} =>
            /\ answer < Len(items) /\ Same(items[answer + 1].name, asked.name)
            /\ \A k \in 1 .. answer : ~Same(items[k].name, asked.name)

\* The value of a constant of V7 metadata is found, and no other is taken
\* for it.
ConstIsRead ==
    asked.by = "const" /\ version = 7 /\ asked.module >= 0 =>
        LET cs == {c \in ToSet(runtime[asked.module + 1].consts) : c.name = asked.name}
        IN  IF cs = {} THEN answer = -1 ELSE \E c \in cs : answer = c.value[1]

=============================================================================
