------------------------------- MODULE JsonRpc -------------------------------
(***************************************************************************)
(* The request/response half of CJsonRpc (src/jsonrpc.cpp): the callers of *)
(* request, each in a thread of its own, and handleMessage, which runs in  *)
(* the WebSocket thread.                                                   *)
(*                                                                         *)
(* A request is known by its serial number, the value _lastId would have   *)
(* without wrapping; Id is the int that goes over the wire.  A response is *)
(* represented by the serial number of the request it answers, and the     *)
(* condition variable on the stack of a call by the call's serial number.  *)
(* The node answers the requests it got in any order, or not at all.       *)
(***************************************************************************)
EXTENDS Integers

CONSTANTS Caller,    \* the threads that call request
          Ws,        \* the thread that calls handleMessage
          IntMax,    \* INT_MAX: the id the health check uses
          MaxCalls   \* bound: calls of request

ASSUME RpcAssumption ==
    /\ Ws \notin Caller
    /\ IntMax \in Nat \ {0}
    /\ MaxCalls \in Nat

Thread == Caller \cup {Ws}
Serial == 1 .. MaxCalls
Null   == 0         \* a null Json, or a null pointer

\* unsigned int _lastId, converted to the int query.id.
Ids == -(IntMax + 1) .. IntMax
Id(n) ==
    LET u == n % (2 * (IntMax + 1))
    IN  IF u <= IntMax THEN u ELSE u - 2 * (IntMax + 1)

VARIABLES
    lastId,         \* _lastId
    queries,        \* the keys of _queries
    json, cv,       \* json and completionCV of every entry; Null for the ids
                    \* that have none, which is what operator[] would create
    connected,      \* what isConnected returns
    sendLocked,     \* _sendMtx of the WebSocket client was left locked
    inflight,       \* requests the node got and whose response is not in yet
    pc,             \* per thread: its next step
    call,           \* per thread: the request it works on
    result,         \* per caller: what the last call returned, or will return
    pointer,        \* the WebSocket thread's completionCV
    fault,          \* how the process crashed, if it did
    stored, early, thrown
                    \* history: the calls whose response was stored before they
                    \* took it, that woke up unnotified, and that threw

map     == <<queries, json, cv>>
locals  == <<call, result, pointer>>
history == <<stored, early, thrown>>
vars    == <<lastId, map, connected, sendLocked, inflight, pc, locals, fault, history>>

Label == {"idle", "send", "beginWait", "wait", "take", "erase",
          "check", "set", "notify"}

Init ==
    /\ lastId = 0
    /\ queries = {}
    /\ json = [i \in Ids |-> Null]
    /\ cv = [i \in Ids |-> Null]
    /\ connected = TRUE
    /\ sendLocked = FALSE
    /\ inflight = {}
    /\ pc = [t \in Thread |-> "idle"]
    /\ call = [t \in Thread |-> Null]
    /\ result = [c \in Caller |-> Null]
    /\ pointer = Null
    /\ fault = "none"
    /\ stored = {} /\ early = {} /\ thrown = {}

At(t, l)   == fault = "none" /\ pc[t] = l
Goto(t, l) == pc' = [pc EXCEPT ![t] = l]

\* The stack frame of call n, with its condition variable, still exists.
Alive(n) == \E c \in Caller : call[c] = n /\ pc[c] # "idle"

-----------------------------------------------------------------------------
(* request                                                                 *)

RegisterWithoutCV(c) ==
    LET n == lastId + 1
    IN  /\ At(c, "idle")
        /\ lastId < MaxCalls
        /\ lastId' = n
        /\ queries' = queries \cup {Id(n)}
        /\ json' = [json EXCEPT ![Id(n)] = Null]
        /\ call' = [call EXCEPT ![c] = n]
        /\ result' = [result EXCEPT ![c] = Null]
        /\ Goto(c, "send")
        /\ UNCHANGED <<cv, connected, sendLocked, inflight, pointer, fault, history>>

\* request is called.  The section under _queryMtx: a new id, and its entry
\* in _queries.
Register(c) ==
    LET n == lastId + 1
    IN  /\ At(c, "idle")
        /\ lastId < MaxCalls
        /\ lastId' = n
        /\ queries' = queries \cup {Id(n)}
        /\ json' = [json EXCEPT ![Id(n)] = Null]
        /\ cv' = [cv EXCEPT ![Id(n)] = n]
        /\ call' = [call EXCEPT ![c] = n]
        /\ result' = [result EXCEPT ![c] = Null]
        /\ Goto(c, "send")
        /\ UNCHANGED <<connected, sendLocked, inflight, pointer, fault, history>>

\* isConnected returned true and send gets _sendMtx.  Whether the message
\* reaches the node is not known: a request that does not is never answered.
Send(c) ==
    /\ At(c, "send")
    /\ connected
    /\ ~sendLocked
    /\ inflight' = inflight \cup {call[c]}
    /\ Goto(c, "beginWait")
    /\ UNCHANGED <<lastId, map, connected, sendLocked, locals, fault, history>>

\* JsonRpcException: the entry stays in _queries, the frame is gone.
NotConnected(c) ==
    /\ At(c, "send")
    /\ ~connected
    /\ thrown' = thrown \cup {call[c]}
    /\ Goto(c, "idle")
    /\ UNCHANGED <<lastId, map, connected, sendLocked, inflight, locals, fault, stored, early>>

\* send throws out of request, because the connection is not open any more
\* although isConnected says so: it does not release _sendMtx.
SendThrows(c) ==
    /\ At(c, "send")
    /\ connected
    /\ ~sendLocked
    /\ sendLocked' = TRUE
    /\ thrown' = thrown \cup {call[c]}
    /\ Goto(c, "idle")
    /\ UNCHANGED <<lastId, map, connected, inflight, locals, fault, stored, early>>

\* completionMtx is locked and released by wait_for; nothing tests whether the
\* response is there already.
BeginWait(c) ==
    /\ At(c, "beginWait")
    /\ Goto(c, "wait")
    /\ UNCHANGED <<lastId, map, connected, sendLocked, inflight, locals, fault, history>>

\* Mutant of WakeUnnotified: wait instead of wait_for.
WakeNever(c) == FALSE

\* wait_for returns without a notification: after timeout_s seconds, or
\* spuriously at any time.
WakeUnnotified(c) ==
    /\ At(c, "wait")
    /\ early' = early \cup {call[c]}
    /\ Goto(c, "take")
    /\ UNCHANGED <<lastId, map, connected, sendLocked, inflight, locals, fault, stored, thrown>>

\* Mutant of Take: the entry is erased before its response is moved out.
TakeErased(c) ==
    LET i == Id(call[c])
    IN  /\ At(c, "take")
        /\ result' = [result EXCEPT ![c] = Null]
        /\ json' = [json EXCEPT ![i] = Null]
        /\ queries' = queries \cup {i}
        /\ Goto(c, "erase")
        /\ UNCHANGED <<lastId, cv, connected, sendLocked, inflight, call, pointer, fault, history>>

\* move(_queries[query.id].json), without _queryMtx.
Take(c) ==
    LET i == Id(call[c])
    IN  /\ At(c, "take")
        /\ result' = [result EXCEPT ![c] = json[i]]
        /\ json' = [json EXCEPT ![i] = Null]
        /\ queries' = queries \cup {i}
        /\ Goto(c, "erase")
        /\ UNCHANGED <<lastId, cv, connected, sendLocked, inflight, call, pointer, fault, history>>

\* _queries.erase(query.id), without _queryMtx; and request returns.
Erase(c) ==
    LET i == Id(call[c])
    IN  /\ At(c, "erase")
        /\ queries' = queries \ {i}
        /\ json' = [json EXCEPT ![i] = Null]
        /\ cv' = [cv EXCEPT ![i] = Null]
        /\ Goto(c, "idle")
        /\ UNCHANGED <<lastId, connected, sendLocked, inflight, locals, fault, history>>

CallerStep(c) ==
    \/ Send(c)
    \/ NotConnected(c)
    \/ SendThrows(c)
    \/ BeginWait(c)
    \/ WakeUnnotified(c)
    \/ Take(c)
    \/ Erase(c)

-----------------------------------------------------------------------------
(* handleMessage, for responses                                            *)

\* A response arrives.  One with the id of the health check is dropped.
Receive(n) ==
    /\ At(Ws, "idle")
    /\ n \in inflight
    /\ inflight' = inflight \ {n}
    /\ call' = [call EXCEPT ![Ws] = n]
    /\ Goto(Ws, IF Id(n) = IntMax THEN "idle" ELSE "check")
    /\ UNCHANGED <<lastId, map, connected, sendLocked, result, pointer, fault, history>>

\* requestId && _queries.count(requestId), without _queryMtx.  A response
\* nobody waits for any more is only logged.
Check ==
    LET i == Id(call[Ws])
    IN  /\ At(Ws, "check")
        /\ Goto(Ws, IF i # 0 /\ i \in queries THEN "set" ELSE "idle")
        /\ UNCHANGED <<lastId, map, connected, sendLocked, inflight, locals, fault, history>>

\* Mutant of Set: the response is stored for the latest request.
SetLatest(v) ==
    LET i == Id(lastId)
    IN  /\ At(Ws, "set")
        /\ queries' = queries \cup {i}
        /\ json' = [json EXCEPT ![i] = v]
        /\ pointer' = cv[i]
        /\ stored' = stored
        /\ Goto(Ws, "notify")
        /\ UNCHANGED <<lastId, cv, connected, sendLocked, inflight, call, result, fault,
                       early, thrown>>

\* The section under _queryMtx; v is json["result"], null in an error response.
\* If the entry is gone by now, operator[] creates one with a null completionCV.
Set(v) ==
    LET i == Id(call[Ws])
    IN  /\ At(Ws, "set")
        /\ queries' = queries \cup {i}
        /\ json' = [json EXCEPT ![i] = v]
        /\ pointer' = cv[i]
        /\ stored' = stored \cup {n \in {v} \ {Null} : \E c \in Caller :
                        call[c] = n /\ pc[c] \in {"send", "beginWait", "wait", "take"}}
        /\ Goto(Ws, "notify")
        /\ UNCHANGED <<lastId, cv, connected, sendLocked, inflight, call, result, fault,
                       early, thrown>>

\* completionCV->notify_all(): wakes the call if it waits by now.  A dangling
\* condition variable is used as if its memory were intact; Crash is the
\* other outcome.
Notify ==
    /\ At(Ws, "notify")
    /\ pointer # Null
    /\ pc' = [t \in Thread |->
                 CASE t = Ws -> "idle"
                   [] t # Ws /\ call[t] = pointer /\ pc[t] = "wait" -> "take"
                   [] OTHER -> pc[t]]
    /\ pointer' = Null
    /\ UNCHANGED <<lastId, map, connected, sendLocked, inflight, call, result, fault, history>>

WsStep == Check \/ (\E v \in {call[Ws], Null} : Set(v)) \/ Notify

-----------------------------------------------------------------------------
\* The connection goes down (external: CWebSocketClient).
Disconnect ==
    /\ fault = "none"
    /\ connected
    /\ connected' = FALSE
    /\ UNCHANGED <<lastId, map, sendLocked, inflight, pc, locals, fault, history>>

\* The next step of t accesses _queries without _queryMtx.
Unlocked(t) == pc[t] \in {"take", "erase", "check"}

\* t may enter request.
Enters(t) == t # Ws /\ pc[t] = "idle" /\ lastId < MaxCalls

\* The next step of t links an entry into _queries or unlinks one.
ChangesMap(t) ==
    \/ Enters(t)
    \/ pc[t] = "erase"
    \/ pc[t] \in {"take", "set"} /\ Id(call[t]) \notin queries

\* Two threads are about to access _queries, one of them without the lock, and
\* one changes the map or both use the json of one entry.
DataRace ==
    \E t, u \in Thread :
        /\ t # u
        /\ Unlocked(t)
        /\ \/ ChangesMap(u)
           \/ ChangesMap(t) /\ pc[u] \in {"take", "check", "set"}
           \/ pc[t] = "take" /\ pc[u] = "set" /\ call[t] = call[u]

Crash ==
    /\ fault = "none"
    /\ \/ pc[Ws] = "notify" /\ pointer = Null /\ fault' = "null"
       \/ pc[Ws] = "notify" /\ pointer # Null /\ ~Alive(pointer) /\ fault' = "dangling"
       \/ DataRace /\ fault' = "race"
    /\ UNCHANGED <<lastId, map, connected, sendLocked, inflight, pc, locals, history>>

Next ==
    \/ \E c \in Caller : Register(c) \/ CallerStep(c)
    \/ \E n \in Serial : Receive(n)
    \/ WsStep
    \/ Disconnect
    \/ Crash

Spec == Init /\ [][Next]_vars

\* Every thread runs until it blocks, and wait_for returns after timeout_s
\* seconds at the latest.  Whether a response ever arrives is up to the node.
Fairness ==
    /\ \A c \in Caller : WF_vars(CallerStep(c))
    /\ WF_vars(WsStep)

FairSpec == Spec /\ Fairness

-----------------------------------------------------------------------------
(* Properties.                                                             *)

TypeOK ==
    /\ lastId \in 0 .. MaxCalls
    /\ queries \subseteq Ids
    /\ json \in [Ids -> Serial \cup {Null}] /\ cv \in [Ids -> Serial \cup {Null}]
    /\ connected \in BOOLEAN /\ sendLocked \in BOOLEAN
    /\ inflight \subseteq Serial
    /\ pc \in [Thread -> Label]
    /\ call \in [Thread -> Serial \cup {Null}]
    /\ result \in [Caller -> Serial \cup {Null}]
    /\ pointer \in Serial \cup {Null}
    /\ fault \in {"none", "null", "dangling", "race"}
    /\ stored \subseteq Serial /\ early \subseteq Serial /\ thrown \subseteq Serial
    /\ \A c \in Caller : pc[c] # "idle" => call[c] # Null

\* request returns the response to the caller's own request or a null Json:
\* no interleaving, however late a response comes, hands a caller the response
\* to somebody else's request.
OwnResponse == \A c \in Caller : result[c] \in {Null, call[c]}

\* A response that handleMessage stored before the caller woke up and took its
\* result is the result request returns.
StoredIsReturned ==
    \A c \in Caller : pc[c] \in {"erase", "idle"} /\ call[c] \in stored => result[c] = call[c]

\* The entry of a call is erased when request returns: what _queries still
\* holds belongs to a call in progress or to one that threw, or was just
\* re-created by a handleMessage that has yet to notify.
NoStaleEntry ==
    \A i \in queries :
        \/ \E c \in Caller : pc[c] # "idle" /\ Id(call[c]) = i
        \/ \E n \in thrown : Id(n) = i
        \/ pc[Ws] = "notify" /\ Id(call[Ws]) = i

\* handleMessage meets a null or a dangling condition variable only after some
\* request woke up before its response came: a process in which no wait times
\* out, or returns spuriously, does not crash there.
CrashNeedsEarlyWake == fault \in {"null", "dangling"} => early # {}

\* Every call of request returns or throws, answered or not: what it waits for
\* comes or times out.  The one exception is a call that finds _sendMtx left
\* locked by a send that threw.
EveryCallReturns ==
    \A c \in Caller :
        pc[c] # "idle" ~> \/ pc[c] = "idle"
                          \/ pc[c] = "send" /\ sendLocked
                          \/ fault # "none"

\* The comment in request: "Block until a timeout happens or response is
\* received".  No caller waits for a response that handleMessage has already
\* stored and announced.
WaitsForResponseOnly ==
    \A c \in Caller :
        pc[c] = "wait" /\ call[c] \in stored => pc[Ws] = "notify" /\ pointer = call[c]

=============================================================================
