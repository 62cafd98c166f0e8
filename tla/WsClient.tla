------------------------------ MODULE WsClient ------------------------------
(***************************************************************************)
(* CWebSocketClient (src/wsclient.cpp): connect with its timed wait,       *)
(* disconnect, send, the message loop in _connectedThread and the health   *)
(* thread.  The application connects and disconnects in one thread and     *)
(* sends from others.                                                      *)
(*                                                                         *)
(* websocketpp is external.  What the code relies on: an endpoint can be   *)
(* initialised once (init_asio throws the second time); run returns when   *)
(* the connection has failed or has ended; send and close throw unless     *)
(* the connection is open.                                                 *)
(***************************************************************************)
EXTENDS Integers

CONSTANTS App,          \* the thread that calls connect and disconnect
          Sender,       \* the threads that call send
          Urls,         \* the URLs connect is called with: a good one of either
                        \* scheme, a malformed one, one of another scheme
          Period,       \* wakeups of the health thread per health request
          MaxConnects   \* bound: calls of connect

ASSUME WsAssumption ==
    /\ {App, "nobody"} \cap (Sender \cup {"wss", "ws"}) = {} /\ App # "nobody"
    /\ Sender \cap {"wss", "ws"} = {}
    /\ Urls \subseteq {"wss", "ws", "malformed", "other"}
    /\ Period \in Nat \ {0} /\ MaxConnects \in Nat

Scheme == {"wss", "ws"}

\* A health thread is named after the endpoint whose connect started it.
Health == Scheme
Client == Sender \cup Health     \* the threads that call send

VARIABLES
    connected,      \* _connected
    tls,            \* _tls, by the scheme it stands for
    initialised,    \* the endpoints init_asio was called on
    socket,         \* per endpoint: the state of its connection (external)
    loop,           \* the thread _connectedThread points to: its next step
    joined,         \* that thread was joined
    healthThread,   \* _healthThread: the health thread started last
    wakeups,        \* per health thread: period_counter, in wakeups
    pc,             \* per other thread: its next step
    holder,         \* the owner of _sendMtx, or "nobody"
    result,         \* of the last connect or disconnect
    connects,       \* calls of connect
    fault,          \* how the process died, if it did
    lost            \* history: an open connection ended by itself

threads == <<loop, joined, healthThread, wakeups>>
vars == <<connected, tls, initialised, socket, threads, pc, holder, result,
          connects, fault, lost>>

Init ==
    /\ connected = FALSE
    /\ tls \in Scheme                    \* _tls is not initialised
    /\ initialised = {}
    /\ socket = [s \in Scheme |-> "none"]
    /\ loop = "null" /\ joined = FALSE /\ healthThread = "null"
    /\ wakeups = [h \in Health |-> 0]
    /\ pc = [t \in {App} \cup Client |-> IF t \in Health THEN "off" ELSE "idle"]
    /\ holder = "nobody"
    /\ result = "none" /\ connects = 0 /\ fault = "none"
    /\ lost = FALSE

At(t, l)   == fault = "none" /\ pc[t] = l
Goto(t, l) == pc' = [pc EXCEPT ![t] = l]
Alive      == fault = "none"

-----------------------------------------------------------------------------
(* connect                                                                 *)

\* The application disconnects before it connects again.
MayConnect == At(App, "idle") /\ result # "ok" /\ connects < MaxConnects

\* No connection is requested: the URL has another scheme, init_asio throws, or
\* get_connection cannot parse the URL.
ConnectRefused(u) ==
    /\ MayConnect
    /\ connects' = connects + 1
    /\ \/ u = "other" /\ UNCHANGED <<tls, initialised>>
       \/ u \in initialised /\ tls' = u /\ UNCHANGED initialised
       \/ u = "malformed" /\ tls' = "wss" /\ initialised' = initialised \cup {"wss"}
    /\ result' = "failed"
    /\ UNCHANGED <<connected, socket, threads, pc, holder, fault, lost>>

\* connect_tls or connect_no_tls requests the connection, and _connectedThread
\* is started under _connectionMtx.
Connect(u) ==
    /\ MayConnect
    /\ u \in Scheme \ initialised
    /\ connects' = connects + 1
    /\ tls' = u
    /\ initialised' = initialised \cup {u}
    /\ socket' = [socket EXCEPT ![u] = "opening"]
    /\ loop' = "run" /\ joined' = FALSE
    /\ result' = "none"
    /\ Goto(App, "wait")
    /\ UNCHANGED <<connected, healthThread, wakeups, holder, fault, lost>>

\* wait_for returns unnotified: ConnectionTimeout passed, or spuriously.
WaitEnds ==
    /\ At(App, "wait")
    /\ Goto(App, "check")
    /\ UNCHANGED <<connected, tls, initialised, socket, threads, holder, result,
                   connects, fault, lost>>

\* Mutant of Check: the result of the wait is not looked at.
CheckUntested ==
    /\ At(App, "check")
    /\ healthThread' = tls /\ wakeups' = [wakeups EXCEPT ![tls] = 0] /\ result' = "ok"
    /\ pc' = [pc EXCEPT ![App] = "idle", ![tls] = "sleep"]
    /\ UNCHANGED <<connected, tls, initialised, socket, loop, joined, holder,
                   connects, fault, lost>>

\* if (_connected): the health thread is started, or else _connectedThread is
\* joined.
Check ==
    /\ At(App, "check")
    /\ \/ /\ connected
          /\ healthThread' = tls /\ wakeups' = [wakeups EXCEPT ![tls] = 0] /\ result' = "ok"
          /\ pc' = [pc EXCEPT ![App] = "idle", ![tls] = "sleep"]
       \/ /\ ~connected
          /\ Goto(App, "joinFailed")
          /\ UNCHANGED <<healthThread, wakeups, result>>
    /\ UNCHANGED <<connected, tls, initialised, socket, loop, joined, holder,
                   connects, fault, lost>>

\* join returns, _connectedThread = nullptr and connect fails.
JoinFailed ==
    /\ At(App, "joinFailed")
    /\ loop = "exited"
    /\ loop' = "null" /\ result' = "failed"
    /\ Goto(App, "idle")
    /\ UNCHANGED <<connected, tls, initialised, socket, joined, healthThread,
                   wakeups, holder, connects, fault, lost>>

-----------------------------------------------------------------------------
(* disconnect                                                              *)

\* close throws unless the connection is open, and so does disconnect.
Close ==
    /\ At(App, "idle")
    /\ connects > 0
    /\ \/ /\ socket[tls] = "open"
          /\ socket' = [socket EXCEPT ![tls] = "closing"]
          /\ result' = "none"
          /\ Goto(App, "drop")
       \/ /\ socket[tls] # "open"
          /\ result' = "threw"
          /\ UNCHANGED <<socket, pc>>
    /\ UNCHANGED <<connected, tls, initialised, threads, holder, connects, fault, lost>>

\* _connected = false.
Drop ==
    /\ At(App, "drop")
    /\ connected' = FALSE
    /\ Goto(App, "joinLoop")
    /\ UNCHANGED <<tls, initialised, socket, threads, holder, result, connects, fault,
                   lost>>

\* _connectedThread->join().
JoinLoop ==
    /\ At(App, "joinLoop")
    /\ loop = "exited" /\ ~joined
    /\ joined' = TRUE
    /\ Goto(App, "joinHealth")
    /\ UNCHANGED <<connected, tls, initialised, socket, loop, healthThread, wakeups, holder,
                   result, connects, fault, lost>>

\* Mutant of JoinHealth: the health thread is not joined.
JoinHealthForgotten ==
    /\ At(App, "joinHealth")
    /\ result' = "closed"
    /\ Goto(App, "idle")
    /\ UNCHANGED <<connected, tls, initialised, socket, threads, holder, connects, fault,
                   lost>>

\* if (_healthThread) _healthThread->join().
JoinHealth ==
    /\ At(App, "joinHealth")
    /\ healthThread = "null" \/ pc[healthThread] = "exited"
    /\ result' = "closed"
    /\ Goto(App, "idle")
    /\ UNCHANGED <<connected, tls, initialised, socket, threads, holder, connects, fault,
                   lost>>

AppStep == WaitEnds \/ Check \/ JoinFailed \/ Drop \/ JoinLoop \/ JoinHealth

-----------------------------------------------------------------------------
(* The message loop: runWsMessages and on_open                             *)

\* The handshake succeeds: on_open sets _connected, without _connectionMtx.
Open ==
    /\ Alive /\ loop = "run" /\ socket[tls] = "opening"
    /\ socket' = [socket EXCEPT ![tls] = "open"]
    /\ connected' = TRUE
    /\ loop' = "notify"
    /\ UNCHANGED <<tls, initialised, joined, healthThread, wakeups, pc, holder, result,
                   connects, fault, lost>>

\* The connection is refused or times out: run returns, and no handler is set.
OpenFails ==
    /\ Alive /\ loop = "run" /\ socket[tls] = "opening"
    /\ socket' = [socket EXCEPT ![tls] = "closed"]
    /\ loop' = "exited"
    /\ UNCHANGED <<connected, tls, initialised, joined, healthThread, wakeups, pc, holder,
                   result, connects, fault, lost>>

\* run throws, as verify_certificate does: _connected = false and a notification.
OpenThrows ==
    /\ Alive /\ loop = "run" /\ socket[tls] = "opening"
    /\ socket' = [socket EXCEPT ![tls] = "closed"]
    /\ connected' = FALSE
    /\ loop' = "notifyExit"
    /\ UNCHANGED <<tls, initialised, joined, healthThread, wakeups, pc, holder, result,
                   connects, fault, lost>>

\* Mutant of NotifyAll: the loop goes on after an exception.
NotifyAndGoOn ==
    /\ Alive /\ loop \in {"notify", "notifyExit"}
    /\ loop' = "run"
    /\ IF pc[App] = "wait" THEN Goto(App, "check") ELSE UNCHANGED pc
    /\ UNCHANGED <<connected, tls, initialised, socket, joined, healthThread, wakeups, holder,
                   result, connects, fault, lost>>

\* _connectionCV.notify_all(): wakes connect if it waits.
NotifyAll ==
    /\ Alive /\ loop \in {"notify", "notifyExit"}
    /\ loop' = IF loop = "notify" THEN "run" ELSE "exited"
    /\ IF pc[App] = "wait" THEN Goto(App, "check") ELSE UNCHANGED pc
    /\ UNCHANGED <<connected, tls, initialised, socket, joined, healthThread, wakeups, holder,
                   result, connects, fault, lost>>

\* The connection ends and run returns: closed by disconnect, or lost (by the
\* node or the network; nothing tells _connected).
Ended ==
    /\ Alive /\ loop = "run" /\ socket[tls] \in {"open", "closing"}
    /\ lost' = (lost \/ socket[tls] = "open")
    /\ socket' = [socket EXCEPT ![tls] = "closed"]
    /\ loop' = "exited"
    /\ UNCHANGED <<connected, tls, initialised, joined, healthThread, wakeups, pc, holder,
                   result, connects, fault>>

\* The closing handshake that disconnect started ends.
Closed == socket[tls] = "closing" /\ Ended

LoopStep == NotifyAll \/ Closed

-----------------------------------------------------------------------------
(* send, and the health thread that calls it                               *)

\* if (_connected), tested without a lock; otherwise PAPI_NOT_CONNECTED.
SendTest(t) ==
    /\ At(t, "idle")
    /\ connected
    /\ Goto(t, "lock")
    /\ UNCHANGED <<connected, tls, initialised, socket, threads, holder, result,
                   connects, fault, lost>>

\* Mutant of Lock: the mutex is not waited for.
LockIgnored(t) ==
    /\ At(t, "lock")
    /\ holder' = t
    /\ Goto(t, "transmit")
    /\ UNCHANGED <<connected, tls, initialised, socket, threads, result, connects,
                   fault, lost>>

\* _sendMtx.lock().
Lock(t) ==
    /\ At(t, "lock")
    /\ holder = "nobody"
    /\ holder' = t
    /\ Goto(t, "transmit")
    /\ UNCHANGED <<connected, tls, initialised, socket, threads, result, connects,
                   fault, lost>>

\* The endpoint sends, and _sendMtx is unlocked.
Transmit(t) ==
    /\ At(t, "transmit")
    /\ socket[tls] = "open"
    /\ holder' = "nobody"
    /\ Goto(t, IF t \in Health THEN "sleep" ELSE "idle")
    /\ wakeups' = [h \in Health |-> IF h = t THEN 0 ELSE wakeups[h]]
    /\ UNCHANGED <<connected, tls, initialised, socket, loop, joined, healthThread, result,
                   connects, fault, lost>>

\* The endpoint throws: _sendMtx stays locked.  The exception reaches the caller
\* of send, or leaves the health thread and ends the process.
TransmitThrows(t) ==
    /\ At(t, "transmit")
    /\ socket[tls] # "open"
    /\ fault' = IF t \in Health THEN "terminate" ELSE fault
    /\ Goto(t, "idle")
    /\ UNCHANGED <<connected, tls, initialised, socket, threads, holder, result,
                   connects, lost>>

SendStep(t) == Lock(t) \/ Transmit(t) \/ TransmitThrows(t)

\* usleep returns: the thread ends if the connection is gone, and otherwise
\* sends a health request every Period wakeups.
Wakeup(h) ==
    /\ At(h, "sleep")
    /\ wakeups' = [wakeups EXCEPT ![h] = @ + 1]
    /\ Goto(h, CASE ~connected \/ loop = "null" -> "exited"
                 [] connected /\ loop # "null" /\ wakeups[h] + 1 < Period -> "sleep"
                 [] OTHER -> "send")
    /\ UNCHANGED <<connected, tls, initialised, socket, loop, joined, healthThread, holder,
                   result, connects, fault, lost>>

\* The test of _connected inside send, for the health request.
HealthTest(h) ==
    /\ At(h, "send")
    /\ Goto(h, IF connected THEN "lock" ELSE "sleep")
    /\ wakeups' = [wakeups EXCEPT ![h] = IF connected THEN @ ELSE 0]
    /\ UNCHANGED <<connected, tls, initialised, socket, loop, joined, healthThread, holder,
                   result, connects, fault, lost>>

HealthStep(h) == Wakeup(h) \/ HealthTest(h)

-----------------------------------------------------------------------------
Next ==
    \/ \E u \in Urls : ConnectRefused(u) \/ Connect(u)
    \/ Close
    \/ AppStep
    \/ Open \/ OpenFails \/ OpenThrows \/ Ended
    \/ NotifyAll
    \/ \E t \in Sender : SendTest(t)
    \/ \E t \in Client : SendStep(t)
    \/ \E h \in Health : HealthStep(h)

Spec == Init /\ [][Next]_vars

\* Every thread runs until it blocks, and _sendMtx is given to every thread
\* that asks for it again and again.  The closing handshake ends, at the latest
\* by its timeout; whether a connection is ever established is up to the node.
Fairness ==
    /\ WF_vars(AppStep) /\ WF_vars(LoopStep)
    /\ \A h \in Health : WF_vars(HealthStep(h))
    /\ \A t \in Client : WF_vars(Transmit(t) \/ TransmitThrows(t)) /\ SF_vars(Lock(t))

FairSpec == Spec /\ Fairness

-----------------------------------------------------------------------------
(* Properties                                                              *)

TypeOK ==
    /\ connected \in BOOLEAN /\ tls \in Scheme /\ initialised \subseteq Scheme
    /\ socket \in [Scheme -> {"none", "opening", "open", "closing", "closed"}]
    /\ loop \in {"null", "run", "notify", "notifyExit", "exited"} /\ joined \in BOOLEAN
    /\ healthThread \in Health \cup {"null"} /\ wakeups \in [Health -> 0 .. Period]
    /\ pc \in [{App} \cup Client ->
                  {"off", "idle", "wait", "check", "joinFailed", "drop", "joinLoop",
                   "joinHealth", "lock", "transmit", "sleep", "send", "exited"}]
    /\ holder \in Client \cup {"nobody"}
    /\ result \in {"none", "ok", "failed", "threw", "closed"}
    /\ connects \in 0 .. MaxConnects /\ fault \in {"none", "terminate"}
    /\ lost \in BOOLEAN

\* connect returns PAPI_OK only for a connection that on_open has announced,
\* unless an earlier connection was lost, which leaves _connected set
\* (wsclient.cpp:309).
OkMeansOpened == result = "ok" /\ ~lost => socket[tls] = "open" /\ connected

\* Once disconnect has returned, the message loop and the health thread are
\* over, so the client may be deleted (wsclient.cpp:334, :9).
ThreadsJoined ==
    result = "closed" => /\ loop = "exited" /\ joined
                         /\ ~lost => \A h \in Health : pc[h] \in {"off", "exited"}

\* A send threw and has left _sendMtx locked.
LeftLocked == holder # "nobody" /\ pc[holder] # "transmit"

\* _sendMtx lets one thread at a time use the endpoint, and is left locked only
\* after a connection that ended (wsclient.cpp:342-345).
OneSender ==
    /\ \A t \in Client : pc[t] = "transmit" => holder = t
    /\ LeftLocked => \E s \in Scheme : socket[s] \in {"closing", "closed"}

\* One thread at a time uses the endpoint (send of wsclient.cpp).
SendersInTurn == TypeOK /\ OneSender

\* disconnect comes to its end, both joins included, unless a send on the
\* closed connection threw or ended the process (wsclient.cpp:334-337).
DisconnectReturns == pc[App] \in {"drop", "joinLoop", "joinHealth"}
                        ~> pc[App] = "idle" \/ LeftLocked \/ fault # "none"

\* While the connection is up the health thread uses it again and again
\* (wsclient.cpp:364-376).
KeptAlive == \A h \in Health :
    pc[h] = "sleep" ~> pc[h] = "transmit" \/ ~connected \/ LeftLocked \/ fault # "none"

\* connect returns, unless the node answers after the wait ended: then it joins
\* a message loop that runs for as long as the connection does
\* (wsclient.cpp:309-317).
ConnectReturns ==
    pc[App] \in {"wait", "check", "joinFailed"}
        ~> pc[App] = "idle" \/ socket[tls] \in {"opening", "open"} \/ fault # "none"

\* No thread of the client gets stuck: connect and disconnect come to their
\* ends, and the health thread keeps the connection up (wsclient.cpp).
ThreadsGoOn == ConnectReturns /\ DisconnectReturns /\ KeptAlive
=============================================================================
