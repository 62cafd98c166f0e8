------------------------------ MODULE Queries ------------------------------
(***************************************************************************)
(* connect and the query methods of CPolkaApi (src/application.cpp).  A    *)
(* method is a sequence of requests; between two of them the node's chain  *)
(* may grow, and each may time out, which request() answers with a null    *)
(* Json.  A method is given as what it does next, from the answers it has  *)
(* so far: it asks, returns or throws.                                     *)
(***************************************************************************)
EXTENDS Converters

CONSTANTS MaxBlock,        \* bound on the height of the chain
          StateKept,       \* blocks whose state the node keeps
          MaxTimeouts,     \* bound on the requests that time out
          MAX_PEER_COUNT,
          MaxPeers,        \* bound on the peers of the node
          BufferSizes      \* sizes of the array given to queryStorage

VARIABLES head,            \* the node: height of its chain
          peers,           \* the node: number of its peers
          api,             \* what connect sets
          call,            \* the method that runs
          returned,        \* what the last method returned
          timeouts

vars == <<head, peers, api, call, returned, timeouts>>

-----------------------------------------------------------------------------
(* Json values, and their accessors: the wrong type reads as blank.        *)

Null   == [t |-> "null"]
S(x)   == [t |-> "string", v |-> x]
N(x)   == [t |-> "number", v |-> x]
A(x)   == [t |-> "array", v |-> x]
O(x)   == [t |-> "object", v |-> x]

string_value(j) == IF j.t = "string" THEN j.v ELSE <<>>
int_value(j)    == IF j.t = "number" THEN j.v ELSE 0
array_items(j)  == IF j.t = "array" THEN j.v ELSE <<>>
object_items(j) == IF j.t = "members" THEN j.v ELSE <<>>
Item(j, i)      == IF j.t = "array" /\ i < Len(j.v) THEN j.v[i + 1] ELSE Null
Get(j, f)       == IF j.t = "object" /\ f \in DOMAIN j.v THEN j.v[f] ELSE Null
GetStr(j, f)    == string_value(Get(j, f))
Strings(j)      == [i \in DOMAIN array_items(j) |-> string_value(array_items(j)[i])]

-----------------------------------------------------------------------------
(* The deserializers; Blank is what an exception leaves.                   *)

Blank == [thrown |-> TRUE]

Number(digits) == digits[1] + 256 * digits[2]

createSystemInfo(j) ==
    [chainName |-> string_value(Item(j, 0)), chainId |-> string_value(Item(j, 1)),
     version |-> string_value(Item(j, 2)), tokenDecimals |-> int_value(Get(Item(j, 3), "tokenDecimals")),
     tokenSymbol |-> GetStr(Item(j, 3), "tokenSymbol")]

createBlockHash(j) == [hash |-> string_value(j)]

createRuntimeVersion(j) ==
    [specName |-> GetStr(j, "specName"), specVersion |-> int_value(Get(j, "specVersion")),
     api |-> [i \in DOMAIN array_items(Get(j, "apis")) |->
                LET a == array_items(Get(j, "apis"))[i]
                IN  [num |-> string_value(Item(a, 0)), id |-> int_value(Item(a, 1))]]]

decodeBlockHeader(j) ==
    [parentHash |-> GetStr(j, "parentHash"), number |-> Number(fromHex(GetStr(j, "number"), TRUE, 8)),
     stateRoot |-> GetStr(j, "stateRoot"), extrinsicsRoot |-> GetStr(j, "extrinsicsRoot"),
     digest |-> Strings(Get(Get(j, "digest"), "logs"))]

createBlock(j) ==
    [header |-> decodeBlockHeader(Get(Get(j, "block"), "header")),
     extrinsic |-> Strings(Get(j, "extrinsics")), justification |-> GetStr(j, "justification")]

\* substr(2) of a text that has no two characters throws.
createBlockHeader(j) ==
    LET parent == GetStr(j, "parentHash")
    IN  IF Len(parent) < 2 THEN Blank
        ELSE [parentHash |-> parent, number |-> atoi128(SubSeq(parent, 3, Len(parent)), 16),
              stateRoot |-> GetStr(j, "stateRoot"), extrinsicsRoot |-> GetStr(j, "extrinsicsRoot"),
              digest |-> Strings(Get(Get(j, "digest"), "logs"))]

createFinalHead(j) == [blockHash |-> string_value(j)]

createSystemHealth(j) == [peers |-> int_value(Get(j, "peers"))]

\* Every peer that is not connected goes to place 0.
createNetworkState(j) ==
    LET connected == object_items(Get(j, "connectedPeers"))
        others    == object_items(Get(j, "notConnectedPeers"))
    IN  [peerId |-> GetStr(j, "peerId"),
         connectedPeers |-> [i \in DOMAIN connected |->
            [key |-> connected[i].key, dialing |-> GetStr(connected[i].value, "dialing"),
             knownAddresses |-> Strings(Get(connected[i].value, "knownAddresses"))]],
         notConnectedPeers |->
            IF others = <<>> THEN <<>> ELSE <<[key |-> others[Len(others)].key]>>]

createPeerInfo(j) ==
    LET items == array_items(j)
    IN  IF Len(items) > MAX_PEER_COUNT THEN Blank
        ELSE [count |-> Len(items), peers |-> [i \in DOMAIN items |-> GetStr(items[i], "peerId")]]

-----------------------------------------------------------------------------
(* The methods.  got is the sequence of answers so far.                    *)

Ask(method, params) == [does |-> "asks", method |-> method, params |-> params]
Returns(value)      == [does |-> "returns", value |-> value]
Throw               == [does |-> "throws", value |-> Blank]

\* One request, and its answer deserialized by f; what f throws, deserialize throws.
Single(method, params, got, f(_)) ==
    IF got = <<>> THEN Ask(method, params)
    ELSE IF f(got[1]) = Blank THEN Throw ELSE Returns(f(got[1]))

getSystemInfo(got) ==
    IF Len(got) < 4
    THEN Ask(<<"system_name", "system_chain", "system_version", "system_properties">>[Len(got) + 1], <<>>)
    ELSE Returns(createSystemInfo(A(got)))

getBlockHash(params, got)      == Single("chain_getBlockHash", params, got, createBlockHash)
getRuntimeVersion(params, got) == Single("chain_getRuntimeVersion", params, got, createRuntimeVersion)
getBlock(params, got)          == Single("chain_getBlock", params, got, createBlock)
getBlockHeader(params, got)    == Single("chain_getHeader", params, got, createBlockHeader)
getSystemHealth(got)           == Single("system_health", <<>>, got, createSystemHealth)
getFinalizedHead(got)          == Single("chain_getFinalizedHead", <<>>, got, createFinalHead)
getSystemPeers(got)            == Single("system_peers", <<>>, got, createPeerInfo)
getNetworkState(got)           == Single("system_networkState", <<>>, got, createNetworkState)

Variables == {"FreeBalance", "AccountNonce"}      \* those of the metadata
NotFound  == <<"not found">>

\* A key is the hasher and what it hashes.  Every variable has that of FreeBalance.
getKeys(variable) == IF variable \in Variables THEN <<api.hasher, variable>> ELSE NotFound

\* The state methods: the hash of the head, and then the question about it.
AtHead(got, method, key, f(_)) ==
    CASE Len(got) = 0 -> Ask("chain_getBlockHash", <<>>)
      [] Len(got) = 1 -> IF key = NotFound THEN Throw
                         ELSE Ask(method, <<key, createBlockHash(got[1]).hash>>)
      [] Len(got) = 2 -> Returns(f(got[2]))

\* Mutant of getStorage: the state of the first block.
GetStorageOfFirst(variable, got) ==
    IF got = <<>> THEN Ask("chain_getBlockHash", <<0>>)
    ELSE AtHead(got, "state_getStorage", getKeys(variable), string_value)

getStorage(variable, got)     == AtHead(got, "state_getStorage", getKeys(variable), string_value)
getStorageHash(variable, got) == AtHead(got, "state_getStorageHash", getKeys(variable), string_value)
getStorageSize(variable, got) == AtHead(got, "state_getStorageSize", getKeys(variable), int_value)
getChildKeys(key, got)        == AtHead(got, "state_getChildKeys", key, string_value)
getChildStorage(key, got)     == AtHead(got, "state_getChildStorage", key, string_value)
getChildStorageHash(key, got) == AtHead(got, "state_getChildStorageHash", key, string_value)
getChildStorageSize(key, got) == AtHead(got, "state_getChildStorageSize", key, int_value)

stateCall(got) == IF got = <<>> THEN Ask("state_call", <<>>) ELSE Returns(got[1])

StorageItem(j) ==
    LET change == Item(Get(j, "changes"), 0)
    IN  [block |-> GetStr(j, "block"), value |-> string_value(Item(change, 1))]

\* Items up to the end of the array, or to the first null.
queryStorage(size, got) ==
    IF got = <<>> THEN Ask("state_queryStorage", <<>>)
    ELSE LET items == {n \in 0 .. size : \A i \in 0 .. n - 1 : Item(got[1], i) # Null}
             n     == CHOOSE n \in items : \A m \in items : m <= n
         IN  Returns([i \in 1 .. n |-> StorageItem(Item(got[1], i - 1))])

removeExtrinsic(got) ==
    IF got = <<>> THEN Ask("author_removeExtrinsic", <<>>)
    ELSE IF got[1] = Null THEN Throw ELSE Returns(FALSE)

\* connect goes on whatever the connection did; a request without one throws.
\* Metadata that did not come throws in createMetadata.
connect(connected, got) ==
    CASE ~connected                      -> Throw
      [] connected /\ Len(got) = 0       -> Ask("chain_getBlockHash", <<0>>)
      [] connected /\ Len(got) = 1       -> Ask("state_getMetadata", <<>>)
      [] connected /\ Len(got) = 2       ->
            IF Len(string_value(got[2])) < 2 THEN Throw ELSE Returns("PAPI_OK")

\* GenesisBlockHash, of one byte here: the hash sits in a cleared buffer.
GenesisBlockHash(got) ==
    LET hash == createBlockHash(got[1]).hash
    IN  fromHexByte(CharAt(hash, 2), CharAt(hash, 3))

-----------------------------------------------------------------------------
(* The node.                                                               *)

Hash(b)       == <<48, 120, 49 + b, 97>>
NumberText(b) == <<48, 120, 49, 48 + b>>
Text(i)       == <<i>>

HasherOf(variable) == IF variable = "FreeBalance" THEN "blake2" ELSE "xxhash"

ValueAt(variable, b) == <<HasherOf(variable), b>>

Header(b) ==
    O([parentHash |-> S(IF b = 0 THEN Hash(0) ELSE Hash(b - 1)), number |-> S(NumberText(b)), stateRoot |-> S(Text(b)),
       extrinsicsRoot |-> S(Text(b)), digest |-> O([logs |-> A(<<S(Text(1))>>)])])

Extrinsics(b) == <<Text(b), Text(b + 1)>>

Block(b) ==
    O([block |-> O([header |-> Header(b), extrinsics |-> A([i \in 1 .. 2 |-> S(Extrinsics(b)[i])])]),
       justification |-> Null])

Members(n, f(_)) == [t |-> "members", v |-> [i \in 1 .. n |-> [key |-> Text(i), value |-> f(i)]]]

Peer(i) ==
    O([knownAddresses |-> A(<<S(Text(i))>>),
       endpoint |-> O([dialing |-> S(Text(i))])])

\* The blocks a question is about: the one with the hash, or the head.
Asked(params) == IF params = <<>> THEN {head} ELSE {b \in 0 .. head : Hash(b) = params[Len(params)]}

OfBlock(params, f(_)) ==
    IF Asked(params) = {} THEN Null ELSE f(CHOOSE b \in Asked(params) : TRUE)

\* State that is no longer kept, or was never stored, is an error, hence null.
OfState(params, f(_)) ==
    IF \E b \in Asked(params) : b + StateKept > head
    THEN LET b == CHOOSE b \in Asked(params) : TRUE
         IN  IF \E v \in Variables : params[1] = <<HasherOf(v), v>>
             THEN f(ValueAt(params[1][2], b)) ELSE Null
    ELSE Null

Answer(method, params) ==
    CASE method = "chain_getBlockHash" ->
            S(IF params = <<>> THEN Hash(head) ELSE Hash(params[1]))
      [] method = "state_getMetadata" -> S(<<48, 120, 109>>)
      [] method = "chain_getBlock" -> OfBlock(params, Block)
      [] method = "chain_getHeader" -> OfBlock(params, Header)
      [] method = "chain_getFinalizedHead" -> S(Hash(IF head = 0 THEN 0 ELSE head - 1))
      [] method = "chain_getRuntimeVersion" ->
            O([specName |-> S(Text(1)), specVersion |-> N(1), apis |-> A(<<A(<<S(Text(1)), N(1)>>)>>)])
      [] method = "system_health" -> O([peers |-> N(peers)])
      [] method = "system_peers" -> A([i \in 1 .. peers |-> O([peerId |-> S(Text(i))])])
      [] method = "system_networkState" ->
            O([peerId |-> S(Text(9)), connectedPeers |-> Members(peers, Peer),
               notConnectedPeers |-> Members(peers, Peer)])
      [] method = "system_properties" -> O([tokenDecimals |-> N(15), tokenSymbol |-> S(Text(4))])
      [] method \in {"system_name", "system_chain", "system_version"} -> S(Text(3))
      [] method \in {"state_getStorage", "state_getStorageHash"} -> OfState(params, S)
      [] method = "state_getStorageSize" -> OfState(params, LAMBDA v : N(v[2] + 1))
      [] method \in {"state_getChildKeys", "state_getChildStorage", "state_getChildStorageHash"} ->
            OfBlock(params, LAMBDA b : S(Text(b)))
      [] method = "state_getChildStorageSize" -> OfBlock(params, N)
      [] method = "state_queryStorage" ->
            A([i \in 1 .. head |-> O([block |-> S(Hash(i)),
                                      changes |-> A(<<A(<<S(Text(0)), S(Text(i))>>)>>)])])
      [] method = "author_removeExtrinsic" -> A(<<S(Text(1))>>)
      [] OTHER -> Null

-----------------------------------------------------------------------------
Methods == {"getSystemInfo", "getBlockHash", "getRuntimeVersion", "getBlock", "getBlockHeader", "getSystemHealth",
            "getFinalizedHead", "getSystemPeers", "getNetworkState", "getStorage", "getStorageHash", "getStorageSize",
            "getChildKeys", "getChildStorage", "getChildStorageHash", "getChildStorageSize", "stateCall",
            "queryStorage", "removeExtrinsic"}

\* What the arguments of a method may be.
Arguments(m) ==
    CASE m \in {"getRuntimeVersion", "getBlock", "getBlockHeader"} -> {<<>>} \cup {<<Hash(b)>> : b \in 0 .. head}
      [] m = "getBlockHash" -> {<<>>} \cup {<<b>> : b \in 0 .. head}
      [] m \in {"getStorage", "getStorageHash", "getStorageSize"} -> Variables \cup {"Unknown"}
      [] m = "queryStorage" -> BufferSizes
      [] OTHER -> {<<>>}

\* What the method that runs does next.
Does(c) ==
    CASE c.method = "connect"             -> connect(c.args, c.got)
      [] c.method = "getSystemInfo"       -> getSystemInfo(c.got)
      [] c.method = "getBlockHash"        -> getBlockHash(c.args, c.got)
      [] c.method = "getRuntimeVersion"   -> getRuntimeVersion(c.args, c.got)
      [] c.method = "getBlock"            -> getBlock(c.args, c.got)
      [] c.method = "getBlockHeader"      -> getBlockHeader(c.args, c.got)
      [] c.method = "getSystemHealth"     -> getSystemHealth(c.got)
      [] c.method = "getFinalizedHead"    -> getFinalizedHead(c.got)
      [] c.method = "getSystemPeers"      -> getSystemPeers(c.got)
      [] c.method = "getNetworkState"     -> getNetworkState(c.got)
      [] c.method = "getStorage"          -> getStorage(c.args, c.got)
      [] c.method = "getStorageHash"      -> getStorageHash(c.args, c.got)
      [] c.method = "getStorageSize"      -> getStorageSize(c.args, c.got)
      [] c.method = "getChildKeys"        -> getChildKeys(<<>>, c.got)
      [] c.method = "getChildStorage"     -> getChildStorage(<<>>, c.got)
      [] c.method = "getChildStorageHash" -> getChildStorageHash(<<>>, c.got)
      [] c.method = "getChildStorageSize" -> getChildStorageSize(<<>>, c.got)
      [] c.method = "stateCall"           -> stateCall(c.got)
      [] c.method = "queryStorage"        -> queryStorage(c.args, c.got)
      [] c.method = "removeExtrinsic"     -> removeExtrinsic(c.got)

NoCall == [method |-> "none"]
Starts(m, args) == [method |-> m, args |-> args, got |-> <<>>, from |-> head]

Init ==
    /\ head \in 0 .. 1 /\ peers \in 0 .. MaxPeers
    /\ api = [connected |-> FALSE, hasher |-> "none", genesis |-> 0]
    /\ call = NoCall /\ returned = NoCall /\ timeouts = 0

Connect ==
    /\ call = NoCall /\ ~api.connected
    /\ \E connected \in BOOLEAN : call' = Starts("connect", connected)
    /\ returned' = NoCall
    /\ UNCHANGED <<head, peers, api, timeouts>>

Query ==
    /\ call = NoCall /\ api.connected
    /\ \E m \in Methods : \E args \in Arguments(m) : call' = Starts(m, args)
    /\ returned' = NoCall
    /\ UNCHANGED <<head, peers, api, timeouts>>

\* A request is answered.
Answered ==
    /\ call # NoCall /\ Does(call).does = "asks"
    /\ call' = [call EXCEPT !.got = Append(@, Answer(Does(call).method, Does(call).params))]
    /\ UNCHANGED <<head, peers, api, returned, timeouts>>

\* request() gives up waiting.
TimesOut ==
    /\ call # NoCall /\ Does(call).does = "asks"
    /\ timeouts < MaxTimeouts
    /\ timeouts' = timeouts + 1
    /\ call' = [call EXCEPT !.got = Append(@, Null)]
    /\ UNCHANGED <<head, peers, api, returned>>

\* The method returns or throws; connect keeps what it has read.
Return ==
    /\ call # NoCall /\ Does(call).does # "asks"
    /\ returned' = [method |-> call.method, args |-> call.args, from |-> call.from, until |-> head,
                    thrown |-> Does(call).does = "throws", value |-> Does(call).value,
                    answered |-> \A i \in DOMAIN call.got : call.got[i] # Null]
    /\ call' = NoCall
    /\ IF call.method = "connect" /\ Does(call).does = "returns"
       THEN api' = [connected |-> TRUE, hasher |-> HasherOf("FreeBalance"),
                    genesis |-> GenesisBlockHash(call.got)]
       ELSE api' = api
    /\ UNCHANGED <<head, peers, timeouts>>

\* A block is added.
NodeBlock ==
    /\ head < MaxBlock
    /\ head' = head + 1
    /\ UNCHANGED <<peers, api, call, returned, timeouts>>

Next == Connect \/ Query \/ Answered \/ TimesOut \/ Return \/ NodeBlock

Spec == Init /\ [][Next]_vars

-----------------------------------------------------------------------------
Got(m) == returned.method = m /\ ~returned.thrown

\* What the three storage methods return belongs to one block that was the
\* head while the method ran, however many blocks come between its two
\* requests; or it is blank, if a request was not answered or the state of
\* that block was no longer kept.
StorageOfAHead ==
    /\ \A m \in {"getStorage", "getStorageHash"} : Got(m) =>
        \/ returned.value = <<>>
        \/ \E b \in returned.from .. returned.until : returned.value = ValueAt(returned.args, b)
    /\ Got("getStorageSize") =>
        (returned.value = 0 \/ returned.value - 1 \in returned.from .. returned.until)

\* getSystemPeers fills no more peers than the array has room for, and counts
\* as many as it fills.
PeersFit ==
    Got("getSystemPeers") =>
        returned.value.count = Len(returned.value.peers) /\ returned.value.count <= MAX_PEER_COUNT

\* queryStorage fills the array with the first changes, in their order, and no
\* more than it has room for; all of them if there is room.
FirstItems ==
    Got("queryStorage") =>
        /\ Len(returned.value) <= returned.args
        /\ \A i \in DOMAIN returned.value : returned.value[i] = [block |-> Hash(i), value |-> Text(i)]
        /\ (returned.answered /\ returned.from = returned.until /\ returned.args >= returned.from) =>
                Len(returned.value) = returned.from

\* A block that getBlock returns for its hash has the number of that block, so
\* that getBlockHash of the number finds it again.
BlockHasItsNumber ==
    \A b \in 0 .. head :
        (Got("getBlock") /\ returned.answered /\ returned.args = <<Hash(b)>>) =>
            returned.value.header.number = Number(fromHex(NumberText(b), TRUE, 8))

\* All four: storage is read at one head, a block has its own number, and an
\* answer longer than the caller's array fills it in order and no further.
QueriesAreRight == StorageOfAHead /\ BlockHasItsNumber /\ PeersFit /\ FirstItems

=============================================================================
