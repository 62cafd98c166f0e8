-------------------------- MODULE WsClientProofs --------------------------
(***************************************************************************)
(* Proofs about WsClient, for any threads that send, any URLs and any      *)
(* number of calls of connect and disconnect; and about TlsVerify, for any *)
(* chains of certificates.                                                 *)
(***************************************************************************)
EXTENDS WsClient, TlsVerify, SequenceTheorems, WellFoundedInduction, TLAPS

\* A leaf is tried with Zenon and then with SMT, unless it names one of them.
USE ZenonT(5), SMTT(20)

-----------------------------------------------------------------------------
(* The inductive invariant.                                                *)

\* The thread that uses the endpoint owns _sendMtx.
Mutual == \A t \in Client : pc[t] = "transmit" => holder = t

\* An endpoint is used once, and so is the name of its health thread.
Once ==
    /\ \A s \in Scheme \ initialised : socket[s] = "none" /\ pc[s] = "off"
    /\ \A h \in Health : pc[h] = "sleep" => wakeups[h] < Period
    /\ pc[App] \in {"wait", "check"} => pc[tls] = "off" /\ tls \in initialised

\* Threads send, and the health thread runs, only after a connection was open.
Used ==
    /\ connected \/ (\E t \in Client : pc[t] \in {"lock", "transmit"}) =>
            \E s \in Scheme : socket[s] \in {"open", "closing", "closed"}
    /\ lost \/ LeftLocked => \E s \in Scheme : socket[s] \in {"closing", "closed"}

\* disconnect has joined the message loop.
LoopJoined ==
    /\ result \in {"ok", "closed"} => pc[App] = "idle"
    /\ pc[App] = "joinHealth" \/ result = "closed" => loop = "exited" /\ joined

\* As long as no connection is lost, the endpoint in use is the one of tls, and
\* _connected follows it.
InUse ==
    /\ connected => socket[tls] = "open" \/ pc[App] = "drop"
    /\ connected /\ pc[App] = "idle" => result = "ok"
    /\ result = "ok" => connected
    /\ pc[App] \in {"joinLoop", "joinHealth"} => ~connected
    /\ \A s \in Scheme :
            /\ socket[s] = "opening" => s = tls /\ pc[App] \in {"wait", "check", "joinFailed"} /\ ~connected
            /\ socket[s] = "open" => s = tls /\ connected /\ pc[App] # "drop"
            /\ socket[s] = "closing" => s = tls /\ pc[App] \in {"drop", "joinLoop"}
            /\ loop \in {"null", "notifyExit", "exited"} => socket[s] \in {"none", "closed"}

Quiet == \A h \in Health : pc[h] \in {"off", "exited"}

\* As long as no connection is lost, one health thread runs at most, and none
\* outside a connection that connect has announced.
HealthJoined ==
    /\ pc[App] \in {"wait", "check", "joinFailed"} => Quiet
    /\ pc[App] = "idle" /\ result # "ok" => Quiet
    /\ \A h \in Health : pc[h] \notin {"off", "exited"} => h = healthThread

IInv == TypeOK /\ Mutual /\ Once /\ Used /\ LoopJoined /\ (~lost => InUse /\ HealthJoined)

-----------------------------------------------------------------------------
(* Types.                                                                  *)

Label == {"off", "idle", "wait", "check", "joinFailed", "drop", "joinLoop",
          "joinHealth", "lock", "transmit", "sleep", "send", "exited"}

LEMMA Threads ==
    /\ App \notin Client /\ App \notin Health /\ "nobody" \notin Client
    /\ Health \subseteq Client /\ Sender \subseteq Client /\ Sender \cap Health = {}
    /\ Health = Scheme /\ "null" \notin Health
BY WsAssumption DEF Client, Health, Scheme

LEMMA InitInv == Init => IInv
<1> SUFFICES ASSUME Init PROVE IInv
  OBVIOUS
<1> USE WsAssumption, Threads DEF Init
<1>1. TypeOK
  <2>1. pc \in [{App} \cup Client -> Label]
    BY DEF Label
  <2>2. connected \in BOOLEAN /\ joined \in BOOLEAN /\ lost \in BOOLEAN
    OBVIOUS
  <2>3. wakeups \in [Health -> 0 .. Period] /\ connects \in 0 .. MaxConnects
    OBVIOUS
  <2> QED
    BY <2>1, <2>2, <2>3 DEF TypeOK, Label
<1>2. \A t \in {App} \cup Client : pc[t] = IF t \in Health THEN "off" ELSE "idle"
  OBVIOUS
<1>3. Mutual /\ Once /\ LoopJoined
  BY <1>2 DEF Mutual, Once, LoopJoined
<1>4. Used
  BY <1>2 DEF Used, LeftLocked
<1>5. InUse
  BY <1>2 DEF InUse
<1>6. HealthJoined
  BY <1>2 DEF HealthJoined, Quiet
<1> QED
  BY <1>1, <1>3, <1>4, <1>5, <1>6 DEF IInv

LEMMA AppType ==
    ASSUME TypeOK, (\E u \in Urls : ConnectRefused(u) \/ Connect(u)) \/ Close \/ AppStep
    PROVE  TypeOK'
<1> USE DEF TypeOK, At, Goto
<1>1. ASSUME NEW u \in Urls, ConnectRefused(u) PROVE TypeOK'
  <2>1. connects' \in 0 .. MaxConnects
    BY <1>1, WsAssumption DEF ConnectRefused, MayConnect
  <2>2. tls' \in Scheme /\ initialised' \subseteq Scheme
    BY <1>1 DEF ConnectRefused, Scheme
  <2> QED
    BY <1>1, <2>1, <2>2 DEF ConnectRefused, threads
<1>2. ASSUME NEW u \in Urls, Connect(u) PROVE TypeOK'
  <2>1. connects' \in 0 .. MaxConnects
    BY <1>2, WsAssumption DEF Connect, MayConnect
  <2>2. joined' \in BOOLEAN
    BY <1>2 DEF Connect
  <2> QED
    BY <1>2, <2>1, <2>2 DEF Connect
<1>3. CASE Close
  BY <1>3 DEF Close, threads
<1>4. CASE WaitEnds
  BY <1>4 DEF WaitEnds, threads
<1>5. CASE Check
  <2>1. wakeups' \in [Health -> 0 .. Period]
    <3>1. 0 \in 0 .. Period
      BY WsAssumption
    <3> QED
      BY <1>5, <3>1 DEF Check
  <2>2. healthThread' \in Health \cup {"null"}
    BY <1>5, Threads DEF Check
  <2> QED
    BY <1>5, <2>1, <2>2 DEF Check
<1>6. CASE JoinFailed
  BY <1>6 DEF JoinFailed
<1>7. CASE Drop
  <2>1. connected' \in BOOLEAN
    BY <1>7 DEF Drop
  <2> QED
    BY <1>7, <2>1 DEF Drop, threads
<1>8. CASE JoinLoop
  <2>1. joined' \in BOOLEAN
    BY <1>8 DEF JoinLoop
  <2> QED
    BY <1>8, <2>1 DEF JoinLoop
<1>9. CASE JoinHealth
  BY <1>9 DEF JoinHealth, threads
<1> QED
  BY <1>1, <1>2, <1>3, <1>4, <1>5, <1>6, <1>7, <1>8, <1>9 DEF AppStep

LEMMA LoopType == ASSUME TypeOK, Open \/ OpenFails \/ OpenThrows \/ Ended \/ NotifyAll PROVE TypeOK'
<1> USE DEF TypeOK, Alive, Goto
<1>1. CASE Open
  <2>1. connected' \in BOOLEAN
    BY <1>1 DEF Open
  <2> QED
    BY <1>1, <2>1 DEF Open
<1>2. CASE OpenFails
  BY <1>2 DEF OpenFails
<1>3. CASE OpenThrows
  <2>1. connected' \in BOOLEAN
    BY <1>3 DEF OpenThrows
  <2> QED
    BY <1>3, <2>1 DEF OpenThrows
<1>4. CASE Ended
  <2>1. lost' \in BOOLEAN
    BY <1>4 DEF Ended
  <2> QED
    BY <1>4, <2>1 DEF Ended
<1>5. CASE NotifyAll
  BY <1>5 DEF NotifyAll
<1> QED
  BY <1>1, <1>2, <1>3, <1>4, <1>5

LEMMA SendType ==
    ASSUME TypeOK, Once,
           \/ \E t \in Sender : SendTest(t)
           \/ \E t \in Client : SendStep(t)
           \/ \E h \in Health : HealthStep(h)
    PROVE  TypeOK'
<1> USE DEF TypeOK, At, Goto
<1>1. ASSUME NEW t \in Sender, SendTest(t) PROVE TypeOK'
  BY <1>1, Threads DEF SendTest, threads
<1>2. ASSUME NEW t \in Client, Lock(t) PROVE TypeOK'
  BY <1>2 DEF Lock, threads
<1>3. ASSUME NEW t \in Client, Transmit(t) PROVE TypeOK'
  <2>1. wakeups' \in [Health -> 0 .. Period]
    BY <1>3, WsAssumption DEF Transmit
  <2> QED
    BY <1>3, <2>1 DEF Transmit
<1>4. ASSUME NEW t \in Client, TransmitThrows(t) PROVE TypeOK'
  BY <1>4 DEF TransmitThrows, threads
<1>5. ASSUME NEW h \in Health, Wakeup(h) PROVE TypeOK'
  <2>1. wakeups[h] < Period /\ wakeups[h] \in 0 .. Period /\ wakeups[h] + 1 \in 0 .. Period
    BY <1>5, WsAssumption DEF Wakeup, Once
  <2>2. wakeups' \in [Health -> 0 .. Period]
    BY <1>5, <2>1 DEF Wakeup
  <2>3. \E l \in {"exited", "sleep", "send"} : pc' = [pc EXCEPT ![h] = l]
    BY <1>5 DEF Wakeup
  <2> QED
    BY <1>5, <2>2, <2>3 DEF Wakeup
<1>6. ASSUME NEW h \in Health, HealthTest(h) PROVE TypeOK'
  <2>1. wakeups' \in [Health -> 0 .. Period]
    BY <1>6, WsAssumption DEF HealthTest
  <2> QED
    BY <1>6, <2>1 DEF HealthTest
<1> QED
  BY <1>1, <1>2, <1>3, <1>4, <1>5, <1>6 DEF SendStep, HealthStep

LEMMA NextType == TypeOK /\ Once /\ [Next]_vars => TypeOK'
<1>1. TypeOK /\ UNCHANGED vars => TypeOK'
  BY DEF TypeOK, vars, threads
<1> QED
  BY <1>1, AppType, LoopType, SendType DEF Next

-----------------------------------------------------------------------------
(* _sendMtx, and what happens once.                                        *)

LEMMA Typed ==
    ASSUME TypeOK
    PROVE  /\ pc \in [{App} \cup Client -> Label] /\ socket \in [Scheme -> {"none", "opening", "open", "closing", "closed"}]
           /\ tls \in Scheme /\ tls \in Health /\ initialised \subseteq Scheme
BY Threads DEF TypeOK, Label

\* _sendMtx is taken free and released by its owner.
LEMMA NextMutual ==
    TypeOK /\ Mutual /\ [Next]_vars => Mutual'
<1> SUFFICES ASSUME TypeOK, Mutual, [Next]_vars PROVE Mutual'
  OBVIOUS
<1>0. /\ pc \in [{App} \cup Client -> Label]
      /\ socket \in [Scheme -> {"none", "opening", "open", "closing", "closed"}]
      /\ tls \in Scheme /\ tls \in Health /\ initialised \subseteq Scheme
  BY Typed
<1>1. ASSUME NEW u \in Urls, ConnectRefused(u) PROVE Mutual'
  BY <1>1, <1>0, Threads DEF ConnectRefused, Mutual, At, Goto, threads
<1>2. ASSUME NEW u \in Urls, Connect(u) PROVE Mutual'
  BY <1>2, <1>0, Threads DEF Connect, Mutual, At, Goto, threads
<1>3. CASE Close
  BY <1>3, <1>0, Threads DEF Close, Mutual, At, Goto, threads
<1>4. CASE WaitEnds
  BY <1>4, <1>0, Threads DEF WaitEnds, Mutual, At, Goto, threads
<1>5. CASE Check
  BY <1>5, <1>0, Threads DEF Check, Mutual, At, Goto, threads
<1>6. CASE JoinFailed
  BY <1>6, <1>0, Threads DEF JoinFailed, Mutual, At, Goto, threads
<1>7. CASE Drop
  BY <1>7, <1>0, Threads DEF Drop, Mutual, At, Goto, threads
<1>8. CASE JoinLoop
  BY <1>8, <1>0, Threads DEF JoinLoop, Mutual, At, Goto, threads
<1>9. CASE JoinHealth
  BY <1>9, <1>0, Threads DEF JoinHealth, Mutual, At, Goto, threads
<1>10. CASE Open
  BY <1>10, <1>0, Threads DEF Open, Mutual, At, Goto, threads
<1>11. CASE OpenFails
  BY <1>11, <1>0, Threads DEF OpenFails, Mutual, At, Goto, threads
<1>12. CASE OpenThrows
  BY <1>12, <1>0, Threads DEF OpenThrows, Mutual, At, Goto, threads
<1>13. CASE Ended
  BY <1>13, <1>0, Threads DEF Ended, Mutual, At, Goto, threads
<1>14. CASE NotifyAll
  BY <1>14, <1>0, Threads DEF NotifyAll, Mutual, At, Goto, threads
<1>15. ASSUME NEW t \in Sender, SendTest(t) PROVE Mutual'
  BY <1>15, <1>0, Threads DEF SendTest, Mutual, At, Goto, threads
<1>16. ASSUME NEW t \in Client, Lock(t) PROVE Mutual'
  BY <1>16, <1>0, Threads DEF Lock, Mutual, At, Goto, threads
<1>17. ASSUME NEW t \in Client, Transmit(t) PROVE Mutual'
  BY <1>17, <1>0, Threads DEF Transmit, Mutual, At, Goto, threads
<1>18. ASSUME NEW t \in Client, TransmitThrows(t) PROVE Mutual'
  BY <1>18, <1>0, Threads DEF TransmitThrows, Mutual, At, Goto, threads
<1>19. ASSUME NEW h \in Health, Wakeup(h) PROVE Mutual'
  BY <1>19, <1>0, Threads DEF Wakeup, Mutual, At, Goto, threads
<1>20. ASSUME NEW h \in Health, HealthTest(h) PROVE Mutual'
  BY <1>20, <1>0, Threads DEF HealthTest, Mutual, At, Goto, threads
<1>21. CASE UNCHANGED vars
  BY <1>21 DEF vars, Mutual, At, Goto, threads
<1> QED
  BY <1>1, <1>2, <1>3, <1>4, <1>5, <1>6, <1>7, <1>8, <1>9, <1>10, <1>11,
     <1>12, <1>13, <1>14, <1>15, <1>16, <1>17, <1>18, <1>19, <1>20, <1>21
     DEF Next, AppStep, SendStep, HealthStep

\* init_asio refuses an endpoint that was used.
LEMMA NextOnce ==
    TypeOK /\ Once /\ [Next]_vars => Once'
<1> SUFFICES ASSUME TypeOK, Once, [Next]_vars PROVE Once'
  OBVIOUS
<1>0. /\ pc \in [{App} \cup Client -> Label]
      /\ socket \in [Scheme -> {"none", "opening", "open", "closing", "closed"}]
      /\ tls \in Scheme /\ tls \in Health /\ initialised \subseteq Scheme
  BY Typed
<1>00. wakeups \in [Health -> 0 .. Period]
  BY DEF TypeOK
<1>1. ASSUME NEW u \in Urls, ConnectRefused(u) PROVE Once'
  BY <1>1, <1>0, <1>00, Threads, WsAssumption DEF ConnectRefused, Once, At, Goto, threads, MayConnect
<1>2. ASSUME NEW u \in Urls, Connect(u) PROVE Once'
  BY <1>2, <1>0, <1>00, Threads, WsAssumption DEF Connect, Once, At, Goto, threads, MayConnect
<1>3. CASE Close
  BY <1>3, <1>0, <1>00, Threads, WsAssumption DEF Close, Once, At, Goto, threads, MayConnect
<1>4. CASE WaitEnds
  BY <1>4, <1>0, <1>00, Threads, WsAssumption DEF WaitEnds, Once, At, Goto, threads, MayConnect
<1>5. CASE Check
  BY <1>5, <1>0, <1>00, Threads, WsAssumption DEF Check, Once, At, Goto, threads, MayConnect
<1>6. CASE JoinFailed
  BY <1>6, <1>0, <1>00, Threads, WsAssumption DEF JoinFailed, Once, At, Goto, threads, MayConnect
<1>7. CASE Drop
  BY <1>7, <1>0, <1>00, Threads, WsAssumption DEF Drop, Once, At, Goto, threads, MayConnect
<1>8. CASE JoinLoop
  BY <1>8, <1>0, <1>00, Threads, WsAssumption DEF JoinLoop, Once, At, Goto, threads, MayConnect
<1>9. CASE JoinHealth
  BY <1>9, <1>0, <1>00, Threads, WsAssumption DEF JoinHealth, Once, At, Goto, threads, MayConnect
<1>10. CASE Open
  BY <1>10, <1>0, <1>00, Threads, WsAssumption DEF Open, Once, At, Goto, threads, MayConnect
<1>11. CASE OpenFails
  BY <1>11, <1>0, <1>00, Threads, WsAssumption DEF OpenFails, Once, At, Goto, threads, MayConnect
<1>12. CASE OpenThrows
  BY <1>12, <1>0, <1>00, Threads, WsAssumption DEF OpenThrows, Once, At, Goto, threads, MayConnect
<1>13. CASE Ended
  BY <1>13, <1>0, <1>00, Threads, WsAssumption DEF Ended, Once, At, Goto, threads, MayConnect
<1>14. CASE NotifyAll
  BY <1>14, <1>0, <1>00, Threads, WsAssumption DEF NotifyAll, Once, At, Goto, threads, MayConnect
<1>15. ASSUME NEW t \in Sender, SendTest(t) PROVE Once'
  BY <1>15, <1>0, <1>00, Threads, WsAssumption DEF SendTest, Once, At, Goto, threads, MayConnect
<1>16. ASSUME NEW t \in Client, Lock(t) PROVE Once'
  BY <1>16, <1>0, <1>00, Threads, WsAssumption DEF Lock, Once, At, Goto, threads, MayConnect
<1>17. ASSUME NEW t \in Client, Transmit(t) PROVE Once'
  BY <1>17, <1>0, <1>00, Threads, WsAssumption DEF Transmit, Once, At, Goto, threads, MayConnect
<1>18. ASSUME NEW t \in Client, TransmitThrows(t) PROVE Once'
  BY <1>18, <1>0, <1>00, Threads, WsAssumption DEF TransmitThrows, Once, At, Goto, threads, MayConnect
<1>19. ASSUME NEW h \in Health, Wakeup(h) PROVE Once'
  BY <1>19, <1>0, <1>00, Threads, WsAssumption DEF Wakeup, Once, At, Goto, threads, MayConnect
<1>20. ASSUME NEW h \in Health, HealthTest(h) PROVE Once'
  BY <1>20, <1>0, <1>00, Threads, WsAssumption DEF HealthTest, Once, At, Goto, threads, MayConnect
<1>21. CASE UNCHANGED vars
  BY <1>21 DEF vars, Once, At, Goto, threads, MayConnect
<1> QED
  BY <1>1, <1>2, <1>3, <1>4, <1>5, <1>6, <1>7, <1>8, <1>9, <1>10, <1>11,
     <1>12, <1>13, <1>14, <1>15, <1>16, <1>17, <1>18, <1>19, <1>20, <1>21
     DEF Next, AppStep, SendStep, HealthStep

\* The message loop that was joined does not run again.
LEMMA NextLoopJoined ==
    TypeOK /\ LoopJoined /\ [Next]_vars => LoopJoined'
<1> SUFFICES ASSUME TypeOK, LoopJoined, [Next]_vars PROVE LoopJoined'
  OBVIOUS
<1>0. /\ pc \in [{App} \cup Client -> Label]
      /\ socket \in [Scheme -> {"none", "opening", "open", "closing", "closed"}]
      /\ tls \in Scheme /\ tls \in Health /\ initialised \subseteq Scheme
  BY Typed
<1>1. ASSUME NEW u \in Urls, ConnectRefused(u) PROVE LoopJoined'
  BY <1>1, <1>0, Threads DEF ConnectRefused, LoopJoined, At, Goto, threads, MayConnect
<1>2. ASSUME NEW u \in Urls, Connect(u) PROVE LoopJoined'
  BY <1>2, <1>0, Threads DEF Connect, LoopJoined, At, Goto, threads, MayConnect
<1>3. CASE Close
  BY <1>3, <1>0, Threads DEF Close, LoopJoined, At, Goto, threads, MayConnect
<1>4. CASE WaitEnds
  BY <1>4, <1>0, Threads DEF WaitEnds, LoopJoined, At, Goto, threads, MayConnect
<1>5. CASE Check
  BY <1>5, <1>0, Threads DEF Check, LoopJoined, At, Goto, threads, MayConnect
<1>6. CASE JoinFailed
  BY <1>6, <1>0, Threads DEF JoinFailed, LoopJoined, At, Goto, threads, MayConnect
<1>7. CASE Drop
  BY <1>7, <1>0, Threads DEF Drop, LoopJoined, At, Goto, threads, MayConnect
<1>8. CASE JoinLoop
  BY <1>8, <1>0, Threads DEF JoinLoop, LoopJoined, At, Goto, threads, MayConnect
<1>9. CASE JoinHealth
  BY <1>9, <1>0, Threads DEF JoinHealth, LoopJoined, At, Goto, threads, MayConnect
<1>10. CASE Open
  BY <1>10, <1>0, Threads DEF Open, LoopJoined, At, Goto, threads, MayConnect
<1>11. CASE OpenFails
  BY <1>11, <1>0, Threads DEF OpenFails, LoopJoined, At, Goto, threads, MayConnect
<1>12. CASE OpenThrows
  BY <1>12, <1>0, Threads DEF OpenThrows, LoopJoined, At, Goto, threads, MayConnect
<1>13. CASE Ended
  BY <1>13, <1>0, Threads DEF Ended, LoopJoined, At, Goto, threads, MayConnect
<1>14. CASE NotifyAll
  BY <1>14, <1>0, Threads DEF NotifyAll, LoopJoined, At, Goto, threads, MayConnect
<1>15. ASSUME NEW t \in Sender, SendTest(t) PROVE LoopJoined'
  BY <1>15, <1>0, Threads DEF SendTest, LoopJoined, At, Goto, threads, MayConnect
<1>16. ASSUME NEW t \in Client, Lock(t) PROVE LoopJoined'
  BY <1>16, <1>0, Threads DEF Lock, LoopJoined, At, Goto, threads, MayConnect
<1>17. ASSUME NEW t \in Client, Transmit(t) PROVE LoopJoined'
  BY <1>17, <1>0, Threads DEF Transmit, LoopJoined, At, Goto, threads, MayConnect
<1>18. ASSUME NEW t \in Client, TransmitThrows(t) PROVE LoopJoined'
  BY <1>18, <1>0, Threads DEF TransmitThrows, LoopJoined, At, Goto, threads, MayConnect
<1>19. ASSUME NEW h \in Health, Wakeup(h) PROVE LoopJoined'
  BY <1>19, <1>0, Threads DEF Wakeup, LoopJoined, At, Goto, threads, MayConnect
<1>20. ASSUME NEW h \in Health, HealthTest(h) PROVE LoopJoined'
  BY <1>20, <1>0, Threads DEF HealthTest, LoopJoined, At, Goto, threads, MayConnect
<1>21. CASE UNCHANGED vars
  BY <1>21 DEF vars, LoopJoined, At, Goto, threads, MayConnect
<1> QED
  BY <1>1, <1>2, <1>3, <1>4, <1>5, <1>6, <1>7, <1>8, <1>9, <1>10, <1>11,
     <1>12, <1>13, <1>14, <1>15, <1>16, <1>17, <1>18, <1>19, <1>20, <1>21
     DEF Next, AppStep, SendStep, HealthStep

\* A connection that was open is open or over, and one that is over stays over.
Sockets ==
    \A s \in Scheme :
        /\ socket[s] \in {"open", "closing", "closed"} => socket'[s] \in {"open", "closing", "closed"}
        /\ socket[s] \in {"closing", "closed"} => socket'[s] \in {"closing", "closed"}

\* A connection that was open is open or over; one that is over stays over.
LEMMA NextSockets ==
    TypeOK /\ Once /\ [Next]_vars => Sockets
<1> SUFFICES ASSUME TypeOK, Once, [Next]_vars PROVE Sockets
  OBVIOUS
<1>0. /\ pc \in [{App} \cup Client -> Label]
      /\ socket \in [Scheme -> {"none", "opening", "open", "closing", "closed"}]
      /\ tls \in Scheme /\ tls \in Health /\ initialised \subseteq Scheme
  BY Typed
<1>1. ASSUME NEW u \in Urls, ConnectRefused(u) PROVE Sockets
  BY <1>1, <1>0, Threads DEF ConnectRefused, Sockets, Once, At, threads, MayConnect
<1>2. ASSUME NEW u \in Urls, Connect(u) PROVE Sockets
  BY <1>2, <1>0, Threads DEF Connect, Sockets, Once, At, threads, MayConnect
<1>3. CASE Close
  BY <1>3, <1>0, Threads DEF Close, Sockets, Once, At, threads, MayConnect
<1>4. CASE WaitEnds
  BY <1>4, <1>0, Threads DEF WaitEnds, Sockets, Once, At, threads, MayConnect
<1>5. CASE Check
  BY <1>5, <1>0, Threads DEF Check, Sockets, Once, At, threads, MayConnect
<1>6. CASE JoinFailed
  BY <1>6, <1>0, Threads DEF JoinFailed, Sockets, Once, At, threads, MayConnect
<1>7. CASE Drop
  BY <1>7, <1>0, Threads DEF Drop, Sockets, Once, At, threads, MayConnect
<1>8. CASE JoinLoop
  BY <1>8, <1>0, Threads DEF JoinLoop, Sockets, Once, At, threads, MayConnect
<1>9. CASE JoinHealth
  BY <1>9, <1>0, Threads DEF JoinHealth, Sockets, Once, At, threads, MayConnect
<1>10. CASE Open
  BY <1>10, <1>0, Threads DEF Open, Sockets, Once, At, threads, MayConnect
<1>11. CASE OpenFails
  BY <1>11, <1>0, Threads DEF OpenFails, Sockets, Once, At, threads, MayConnect
<1>12. CASE OpenThrows
  BY <1>12, <1>0, Threads DEF OpenThrows, Sockets, Once, At, threads, MayConnect
<1>13. CASE Ended
  BY <1>13, <1>0, Threads DEF Ended, Sockets, Once, At, threads, MayConnect
<1>14. CASE NotifyAll
  BY <1>14, <1>0, Threads DEF NotifyAll, Sockets, Once, At, threads, MayConnect
<1>15. ASSUME NEW t \in Sender, SendTest(t) PROVE Sockets
  BY <1>15, <1>0, Threads DEF SendTest, Sockets, Once, At, threads, MayConnect
<1>16. ASSUME NEW t \in Client, Lock(t) PROVE Sockets
  BY <1>16, <1>0, Threads DEF Lock, Sockets, Once, At, threads, MayConnect
<1>17. ASSUME NEW t \in Client, Transmit(t) PROVE Sockets
  BY <1>17, <1>0, Threads DEF Transmit, Sockets, Once, At, threads, MayConnect
<1>18. ASSUME NEW t \in Client, TransmitThrows(t) PROVE Sockets
  BY <1>18, <1>0, Threads DEF TransmitThrows, Sockets, Once, At, threads, MayConnect
<1>19. ASSUME NEW h \in Health, Wakeup(h) PROVE Sockets
  BY <1>19, <1>0, Threads DEF Wakeup, Sockets, Once, At, threads, MayConnect
<1>20. ASSUME NEW h \in Health, HealthTest(h) PROVE Sockets
  BY <1>20, <1>0, Threads DEF HealthTest, Sockets, Once, At, threads, MayConnect
<1>21. CASE UNCHANGED vars
  BY <1>21 DEF vars, Sockets, Once, At, threads, MayConnect
<1> QED
  BY <1>1, <1>2, <1>3, <1>4, <1>5, <1>6, <1>7, <1>8, <1>9, <1>10, <1>11,
     <1>12, <1>13, <1>14, <1>15, <1>16, <1>17, <1>18, <1>19, <1>20, <1>21
     DEF Next, AppStep, SendStep, HealthStep

\* A send that throws meets a connection that is over.
LEMMA NextUsed ==
    TypeOK /\ Mutual /\ Once /\ Used /\ (~lost => InUse) /\ [Next]_vars => Used'
<1> SUFFICES ASSUME TypeOK, Mutual, Once, Used, ~lost => InUse, [Next]_vars PROVE Used'
  OBVIOUS
<1>0. /\ pc \in [{App} \cup Client -> Label]
      /\ socket \in [Scheme -> {"none", "opening", "open", "closing", "closed"}]
      /\ tls \in Scheme /\ tls \in Health /\ initialised \subseteq Scheme
  BY Typed
<1>w. Sockets
  BY NextSockets
<1>h. holder \in Client \cup {"nobody"} /\ lost \in BOOLEAN /\ connected \in BOOLEAN
  BY DEF TypeOK
<1> HIDE DEF TypeOK
<1>1. ASSUME NEW u \in Urls, ConnectRefused(u) PROVE Used'
  BY <1>1, <1>0, <1>w, <1>h, Threads DEF ConnectRefused, Used, LeftLocked, Sockets, At, Goto, threads
<1>2. ASSUME NEW u \in Urls, Connect(u) PROVE Used'
  BY <1>2, <1>0, <1>w, <1>h, Threads DEF Connect, Used, LeftLocked, Sockets, At, Goto, threads
<1>3. CASE Close
  BY <1>3, <1>0, <1>w, <1>h, Threads DEF Close, Used, LeftLocked, Sockets, At, Goto, threads
<1>4. CASE WaitEnds
  BY <1>4, <1>0, <1>w, <1>h, Threads DEF WaitEnds, Used, LeftLocked, Sockets, At, Goto, threads
<1>5. CASE Check
  BY <1>5, <1>0, <1>w, <1>h, Threads DEF Check, Used, LeftLocked, Sockets, Once, At, Goto, threads
<1>6. CASE JoinFailed
  BY <1>6, <1>0, <1>w, <1>h, Threads DEF JoinFailed, Used, LeftLocked, Sockets, At, Goto, threads
<1>7. CASE Drop
  BY <1>7, <1>0, <1>w, <1>h, Threads DEF Drop, Used, LeftLocked, Sockets, At, Goto, threads
<1>8. CASE JoinLoop
  BY <1>8, <1>0, <1>w, <1>h, Threads DEF JoinLoop, Used, LeftLocked, Sockets, At, Goto, threads
<1>9. CASE JoinHealth
  BY <1>9, <1>0, <1>w, <1>h, Threads DEF JoinHealth, Used, LeftLocked, Sockets, At, Goto, threads
<1>10. CASE Open
  BY <1>10, <1>0, <1>w, <1>h, Threads DEF Open, Used, LeftLocked, Sockets, At, Goto, threads
<1>11. CASE OpenFails
  BY <1>11, <1>0, <1>w, <1>h, Threads DEF OpenFails, Used, LeftLocked, Sockets, At, Goto, threads
<1>12. CASE OpenThrows
  BY <1>12, <1>0, <1>w, <1>h, Threads DEF OpenThrows, Used, LeftLocked, Sockets, At, Goto, threads
<1>13. CASE Ended
  BY <1>13, <1>0, <1>w, <1>h, Threads DEF Ended, Used, LeftLocked, Sockets, At, Goto, threads
<1>14. CASE NotifyAll
  BY <1>14, <1>0, <1>w, <1>h, Threads DEF NotifyAll, Used, LeftLocked, Sockets, At, Goto, threads
<1>15. ASSUME NEW t \in Sender, SendTest(t) PROVE Used'
  BY <1>15, <1>0, <1>w, <1>h, Threads DEF SendTest, Used, LeftLocked, Sockets, At, Goto, threads
<1>16. ASSUME NEW t \in Client, Lock(t) PROVE Used'
  BY <1>16, <1>0, <1>w, <1>h, Threads DEF Lock, Used, LeftLocked, Sockets, At, Goto, threads
<1>17. ASSUME NEW t \in Client, Transmit(t) PROVE Used'
  BY <1>17, <1>0, <1>w, <1>h, Threads DEF Transmit, Used, LeftLocked, Sockets, At, Goto, threads
<1>18. ASSUME NEW t \in Client, TransmitThrows(t) PROVE Used'
  BY <1>18, <1>0, <1>w, <1>h, Threads DEF TransmitThrows, Used, LeftLocked, Sockets, InUse, Mutual, At, Goto, threads
<1>19. ASSUME NEW h \in Health, Wakeup(h) PROVE Used'
  BY <1>19, <1>0, <1>w, <1>h, Threads DEF Wakeup, Used, LeftLocked, Sockets, At, Goto, threads
<1>20. ASSUME NEW h \in Health, HealthTest(h) PROVE Used'
  BY <1>20, <1>0, <1>w, <1>h, Threads DEF HealthTest, Used, LeftLocked, Sockets, At, Goto, threads
<1>21. CASE UNCHANGED vars
  BY <1>21 DEF vars, Used, LeftLocked, Sockets, At, Goto, threads
<1> QED
  BY <1>1, <1>2, <1>3, <1>4, <1>5, <1>6, <1>7, <1>8, <1>9, <1>10, <1>11,
     <1>12, <1>13, <1>14, <1>15, <1>16, <1>17, <1>18, <1>19, <1>20, <1>21
     DEF Next, AppStep, SendStep, HealthStep

\* Only a lost connection leaves _connected set, or a thread at work, behind.
LEMMA NextInUse ==
    TypeOK /\ Once /\ LoopJoined /\ InUse /\ [Next]_vars => (~lost => InUse)'
<1> SUFFICES ASSUME TypeOK, Once, LoopJoined, InUse, [Next]_vars PROVE (~lost => InUse)'
  OBVIOUS
<1>0. /\ pc \in [{App} \cup Client -> Label]
      /\ socket \in [Scheme -> {"none", "opening", "open", "closing", "closed"}]
      /\ tls \in Scheme /\ tls \in Health /\ initialised \subseteq Scheme
  BY Typed
<1>h. lost \in BOOLEAN /\ connected \in BOOLEAN
  BY DEF TypeOK
<1>1. ASSUME NEW u \in Urls, ConnectRefused(u) PROVE (~lost => InUse)'
  BY <1>1, <1>0, <1>h, Threads DEF ConnectRefused, InUse, LoopJoined, Once, At, Goto, threads, MayConnect
<1>2. ASSUME NEW u \in Urls, Connect(u) PROVE (~lost => InUse)'
  BY <1>2, <1>0, <1>h, Threads DEF Connect, InUse, LoopJoined, Once, At, Goto, threads, MayConnect
<1>3. CASE Close
  BY <1>3, <1>0, <1>h, Threads DEF Close, InUse, LoopJoined, Once, At, Goto, threads, MayConnect
<1>4. CASE WaitEnds
  BY <1>4, <1>0, <1>h, Threads DEF WaitEnds, InUse, LoopJoined, Once, At, Goto, threads, MayConnect
<1>5. CASE Check
  BY <1>5, <1>0, <1>h, Threads DEF Check, InUse, LoopJoined, Once, At, Goto, threads, MayConnect
<1>6. CASE JoinFailed
  BY <1>6, <1>0, <1>h, Threads DEF JoinFailed, InUse, LoopJoined, Once, At, Goto, threads, MayConnect
<1>7. CASE Drop
  BY <1>7, <1>0, <1>h, Threads DEF Drop, InUse, LoopJoined, Once, At, Goto, threads, MayConnect
<1>8. CASE JoinLoop
  BY <1>8, <1>0, <1>h, Threads DEF JoinLoop, InUse, LoopJoined, Once, At, Goto, threads, MayConnect
<1>9. CASE JoinHealth
  BY <1>9, <1>0, <1>h, Threads DEF JoinHealth, InUse, LoopJoined, Once, At, Goto, threads, MayConnect
<1>10. CASE Open
  BY <1>10, <1>0, <1>h, Threads DEF Open, InUse, LoopJoined, Once, At, Goto, threads, MayConnect
<1>11. CASE OpenFails
  BY <1>11, <1>0, <1>h, Threads DEF OpenFails, InUse, LoopJoined, Once, At, Goto, threads, MayConnect
<1>12. CASE OpenThrows
  BY <1>12, <1>0, <1>h, Threads DEF OpenThrows, InUse, LoopJoined, Once, At, Goto, threads, MayConnect
<1>13. CASE Ended
  BY <1>13, <1>0, <1>h, Threads DEF Ended, InUse, LoopJoined, Once, At, Goto, threads, MayConnect
<1>14. CASE NotifyAll
  BY <1>14, <1>0, <1>h, Threads DEF NotifyAll, InUse, LoopJoined, Once, At, Goto, threads, MayConnect
<1>15. ASSUME NEW t \in Sender, SendTest(t) PROVE (~lost => InUse)'
  BY <1>15, <1>0, <1>h, Threads DEF SendTest, InUse, LoopJoined, Once, At, Goto, threads, MayConnect
<1>16. ASSUME NEW t \in Client, Lock(t) PROVE (~lost => InUse)'
  BY <1>16, <1>0, <1>h, Threads DEF Lock, InUse, LoopJoined, Once, At, Goto, threads, MayConnect
<1>17. ASSUME NEW t \in Client, Transmit(t) PROVE (~lost => InUse)'
  BY <1>17, <1>0, <1>h, Threads DEF Transmit, InUse, LoopJoined, Once, At, Goto, threads, MayConnect
<1>18. ASSUME NEW t \in Client, TransmitThrows(t) PROVE (~lost => InUse)'
  BY <1>18, <1>0, <1>h, Threads DEF TransmitThrows, InUse, LoopJoined, Once, At, Goto, threads, MayConnect
<1>19. ASSUME NEW h \in Health, Wakeup(h) PROVE (~lost => InUse)'
  BY <1>19, <1>0, <1>h, Threads DEF Wakeup, InUse, LoopJoined, Once, At, Goto, threads, MayConnect
<1>20. ASSUME NEW h \in Health, HealthTest(h) PROVE (~lost => InUse)'
  BY <1>20, <1>0, <1>h, Threads DEF HealthTest, InUse, LoopJoined, Once, At, Goto, threads, MayConnect
<1>21. CASE UNCHANGED vars
  BY <1>21 DEF vars, InUse, LoopJoined, Once, At, Goto, threads, MayConnect
<1> QED
  BY <1>1, <1>2, <1>3, <1>4, <1>5, <1>6, <1>7, <1>8, <1>9, <1>10, <1>11,
     <1>12, <1>13, <1>14, <1>15, <1>16, <1>17, <1>18, <1>19, <1>20, <1>21
     DEF Next, AppStep, SendStep, HealthStep

\* disconnect joins the health thread.
LEMMA NextHealthJoined ==
    TypeOK /\ Once /\ LoopJoined /\ InUse /\ HealthJoined /\ [Next]_vars => HealthJoined'
<1> SUFFICES ASSUME TypeOK, Once, LoopJoined, InUse, HealthJoined, [Next]_vars PROVE HealthJoined'
  OBVIOUS
<1>0. /\ pc \in [{App} \cup Client -> Label]
      /\ socket \in [Scheme -> {"none", "opening", "open", "closing", "closed"}]
      /\ tls \in Scheme /\ tls \in Health /\ initialised \subseteq Scheme
  BY Typed
<1>1. ASSUME NEW u \in Urls, ConnectRefused(u) PROVE HealthJoined'
  BY <1>1, <1>0, Threads DEF ConnectRefused, HealthJoined, Quiet, InUse, LoopJoined, At, Goto, threads, MayConnect
<1>2. ASSUME NEW u \in Urls, Connect(u) PROVE HealthJoined'
  BY <1>2, <1>0, Threads DEF Connect, HealthJoined, Quiet, InUse, LoopJoined, At, Goto, threads, MayConnect
<1>3. CASE Close
  BY <1>3, <1>0, Threads DEF Close, HealthJoined, Quiet, InUse, LoopJoined, At, Goto, threads, MayConnect
<1>4. CASE WaitEnds
  BY <1>4, <1>0, Threads DEF WaitEnds, HealthJoined, Quiet, InUse, LoopJoined, At, Goto, threads, MayConnect
<1>5. CASE Check
  BY <1>5, <1>0, Threads DEF Check, HealthJoined, Quiet, InUse, LoopJoined, At, Goto, threads, MayConnect
<1>6. CASE JoinFailed
  BY <1>6, <1>0, Threads DEF JoinFailed, HealthJoined, Quiet, InUse, LoopJoined, At, Goto, threads, MayConnect
<1>7. CASE Drop
  BY <1>7, <1>0, Threads DEF Drop, HealthJoined, Quiet, InUse, LoopJoined, At, Goto, threads, MayConnect
<1>8. CASE JoinLoop
  BY <1>8, <1>0, Threads DEF JoinLoop, HealthJoined, Quiet, InUse, LoopJoined, At, Goto, threads, MayConnect
<1>9. CASE JoinHealth
  BY <1>9, <1>0, Threads DEF JoinHealth, HealthJoined, Quiet, InUse, LoopJoined, At, Goto, threads, MayConnect
<1>10. CASE Open
  BY <1>10, <1>0, Threads DEF Open, HealthJoined, Quiet, InUse, LoopJoined, At, Goto, threads, MayConnect
<1>11. CASE OpenFails
  BY <1>11, <1>0, Threads DEF OpenFails, HealthJoined, Quiet, InUse, LoopJoined, At, Goto, threads, MayConnect
<1>12. CASE OpenThrows
  BY <1>12, <1>0, Threads DEF OpenThrows, HealthJoined, Quiet, InUse, LoopJoined, At, Goto, threads, MayConnect
<1>13. CASE Ended
  BY <1>13, <1>0, Threads DEF Ended, HealthJoined, Quiet, InUse, LoopJoined, At, Goto, threads, MayConnect
<1>14. CASE NotifyAll
  BY <1>14, <1>0, Threads DEF NotifyAll, HealthJoined, Quiet, InUse, LoopJoined, At, Goto, threads, MayConnect
<1>15. ASSUME NEW t \in Sender, SendTest(t) PROVE HealthJoined'
  BY <1>15, <1>0, Threads DEF SendTest, HealthJoined, Quiet, InUse, LoopJoined, At, Goto, threads, MayConnect
<1>16. ASSUME NEW t \in Client, Lock(t) PROVE HealthJoined'
  BY <1>16, <1>0, Threads DEF Lock, HealthJoined, Quiet, InUse, LoopJoined, At, Goto, threads, MayConnect
<1>17. ASSUME NEW t \in Client, Transmit(t) PROVE HealthJoined'
  BY <1>17, <1>0, Threads DEF Transmit, HealthJoined, Quiet, InUse, LoopJoined, At, Goto, threads, MayConnect
<1>18. ASSUME NEW t \in Client, TransmitThrows(t) PROVE HealthJoined'
  BY <1>18, <1>0, Threads DEF TransmitThrows, HealthJoined, Quiet, InUse, LoopJoined, At, Goto, threads, MayConnect
<1>19. ASSUME NEW h \in Health, Wakeup(h) PROVE HealthJoined'
  BY <1>19, <1>0, Threads DEF Wakeup, HealthJoined, Quiet, InUse, LoopJoined, At, Goto, threads, MayConnect
<1>20. ASSUME NEW h \in Health, HealthTest(h) PROVE HealthJoined'
  BY <1>20, <1>0, Threads DEF HealthTest, HealthJoined, Quiet, InUse, LoopJoined, At, Goto, threads, MayConnect
<1>21. CASE UNCHANGED vars
  BY <1>21 DEF vars, HealthJoined, Quiet, InUse, LoopJoined, At, Goto, threads, MayConnect
<1> QED
  BY <1>1, <1>2, <1>3, <1>4, <1>5, <1>6, <1>7, <1>8, <1>9, <1>10, <1>11,
     <1>12, <1>13, <1>14, <1>15, <1>16, <1>17, <1>18, <1>19, <1>20, <1>21
     DEF Next, AppStep, SendStep, HealthStep

LEMMA NextInv == IInv /\ [Next]_vars => IInv'
<1> SUFFICES ASSUME IInv, [Next]_vars PROVE IInv'
  OBVIOUS
<1>1. TypeOK /\ Mutual /\ Once /\ Used /\ LoopJoined /\ (~lost => InUse /\ HealthJoined)
  BY DEF IInv
<1>2. TypeOK' /\ Mutual' /\ Once' /\ LoopJoined'
  BY <1>1, NextType, NextMutual, NextOnce, NextLoopJoined
<1>3. Used'
  BY <1>1, NextUsed
<1>4. ASSUME ~lost' PROVE InUse' /\ HealthJoined'
  <2>1. ~lost
    BY <1>4, <1>1 DEF TypeOK, Next, vars, AppStep, SendStep, HealthStep, ConnectRefused,
       Connect, Close, WaitEnds, Check, JoinFailed, Drop, JoinLoop, JoinHealth, Open,
       OpenFails, OpenThrows, Ended, NotifyAll, SendTest, Lock, Transmit, TransmitThrows,
       Wakeup, HealthTest
  <2>2. (~lost => InUse)'
    BY <2>1, <1>1, NextInUse
  <2>3. HealthJoined'
    BY <2>1, <1>1, NextHealthJoined
  <2> QED
    BY <2>2, <2>3, <1>4
<1> QED
  BY <1>2, <1>3, <1>4 DEF IInv

LEMMA Invariance == Spec => []IInv
BY InitInv, NextInv, PTL DEF Spec

-----------------------------------------------------------------------------
(* Results.                                                                *)

\* connect returns PAPI_OK only for a connection that on_open has announced,
\* unless an earlier one was lost (wsclient.cpp:309), however many threads send
\* and however often the application connects.
THEOREM ConnectedIsOpen == Spec => []OkMeansOpened
<1>1. IInv => OkMeansOpened
  BY DEF IInv, LoopJoined, InUse, OkMeansOpened
<1> QED
  BY <1>1, Invariance, PTL

\* When disconnect has returned, neither the message loop nor a health thread of
\* any connect is still running (wsclient.cpp:334-337), unless a connection was
\* lost.
THEOREM DisconnectJoins == Spec => []ThreadsJoined
<1>1. IInv => ThreadsJoined
  BY DEF IInv, LoopJoined, HealthJoined, Quiet, ThreadsJoined
<1> QED
  BY <1>1, Invariance, PTL

\* One thread at a time uses the endpoint, and _sendMtx is left locked only after
\* a connection that ended (send, wsclient.cpp:340-347).
THEOREM OneSenderAtATime == Spec => []SendersInTurn
<1>1. IInv => SendersInTurn
  BY DEF IInv, Mutual, Used, OneSender, SendersInTurn
<1> QED
  BY <1>1, Invariance, PTL

-----------------------------------------------------------------------------
(* The certificates: the handshakes of TlsVerify.                          *)

CONSTANT Char

Names == [dns : BOOLEAN, name : Seq(Char), nul : BOOLEAN]
Certs == [trusted : BOOLEAN, san : Seq(Names), cn : Seq(Names)]

\* URLs are texts, and a handshake presents a certificate at least.
Presented == NodeUrls \subseteq Seq(Char) /\ Chains \subseteq Seq(Certs) \ {<<>>}

LEMMA Least ==
    ASSUME NEW T \in SUBSET Nat, T # {}
    PROVE  LET i == CHOOSE i \in T : \A j \in T : i <= j
           IN  i \in T /\ \A j \in T : i <= j
<1> DEFINE R == {ss \in Nat \X Nat : ss[1] < ss[2]}
<1>1. OpToRel(<, Nat) = R
  BY DEF OpToRel
<1>2. IsWellFoundedOn(R, Nat)
  BY <1>1, NatLessThanWellFounded
<1> HIDE DEF R
<1>3. PICK x \in T : \A y \in T : ~(<<y, x>> \in R)
  BY <1>2, WFMin, Zenon
<1>4. \A y \in T : x <= y
  <2> SUFFICES ASSUME NEW y \in T PROVE x <= y
    OBVIOUS
  <2>1. ~(<<y, x>> \in {ss \in Nat \X Nat : ss[1] < ss[2]})
    BY <1>3 DEF R
  <2> QED
    BY <2>1
<1> QED
  BY <1>4

\* A part of a text is a text.
LEMMA Parts ==
    ASSUME NEW s \in Seq(Char), NEW m \in 1 .. Len(s) + 1, NEW n \in m - 1 .. Len(s)
    PROVE  /\ SubSeq(s, m, n) \in Seq(Char) /\ Len(SubSeq(s, m, n)) = n - m + 1
           /\ \A k \in 1 .. n - m + 1 : SubSeq(s, m, n)[k] = s[m + k - 1]
<1>1. \A i \in m .. n : s[i] \in Char
  OBVIOUS
<1>2. m \in Int /\ n \in Int
  OBVIOUS
<1> QED
  BY <1>1, <1>2, SubSeqProperties

\* strstr finds every end of a text in it.
LEMMA EndOccurs ==
    ASSUME NEW s \in Seq(Char), NEW m \in 1 .. Len(s) + 1
    PROVE  Occurrences(s, SubSeq(s, m, Len(s))) # {}
<1> DEFINE t == SubSeq(s, m, Len(s))
<1>0. Len(s) \in Nat /\ Len(s) \in m - 1 .. Len(s)
  OBVIOUS
<1>1. Len(t) = Len(s) - m + 1
  BY <1>0, Parts
<1>2. SubSeq(s, m, m + Len(t) - 1) = t
  BY <1>0, <1>1
<1>3. m \in 1 .. Len(s) + 1 - Len(t)
  BY <1>0, <1>1
<1> HIDE DEF t
<1>4. m \in Occurrences(s, t)
  BY <1>2, <1>3 DEF Occurrences
<1> QED
  BY <1>4 DEF t

\* What follows a pattern in a text is an end of the text.
LEMMA AfterIsEnd ==
    ASSUME NEW s \in Seq(Char), NEW t, Len(t) \in Nat
    PROVE  \E m \in 1 .. Len(s) + 1 : After(s, t) = SubSeq(s, m, Len(s))
<1> DEFINE at == Occurrences(s, t)
           first == CHOOSE i \in at : \A j \in at : i <= j
<1>0. Len(s) \in Nat /\ Len(t) \in Nat
  OBVIOUS
<1>1. CASE at = {}
  <2>1. After(s, t) = SubSeq(s, 1, Len(s)) /\ 1 \in 1 .. Len(s) + 1
    BY <1>0, <1>1, SubSeqFull DEF After
  <2> QED
    BY <2>1
<1>2. CASE at # {}
  <2>1. at \in SUBSET Nat /\ \A i \in at : i \in 1 .. Len(s) + 1 - Len(t)
    BY <1>0 DEF Occurrences
  <2>2. first \in at
    BY <1>2, <2>1, Least
  <2>3. After(s, t) = SubSeq(s, first + Len(t), Len(s))
    BY <1>2 DEF After
  <2>4. first + Len(t) \in 1 .. Len(s) + 1
    BY <1>0, <2>1, <2>2
  <2> QED
    BY <2>3, <2>4
<1> QED
  BY <1>1, <1>2

\* The host of a URL is a text.
LEMMA HostIsText ==
    ASSUME NEW u \in Seq(Char)
    PROVE  Host(u) \in Seq(Char)
<1> DEFINE rest == After(u, <<"/", "/">>)
           at == Occurrences(rest, <<"/">>)
           first == CHOOSE i \in at : \A j \in at : i <= j
<1>0. Len(<<"/", "/">>) \in Nat /\ Len(<<"/">>) = 1
  OBVIOUS
<1>1. PICK m \in 1 .. Len(u) + 1 : rest = SubSeq(u, m, Len(u))
  BY <1>0, AfterIsEnd
<1>2. rest \in Seq(Char)
  <2>1. Len(u) \in m - 1 .. Len(u)
    OBVIOUS
  <2> QED
    BY <1>1, <2>1, Parts
<1> HIDE DEF rest
<1>3. CASE at = {}
  BY <1>2, <1>3 DEF Host, Before, rest
<1>4. CASE at # {}
  <2>1. at \in SUBSET Nat /\ \A i \in at : i \in 1 .. Len(rest)
    BY <1>0, <1>2 DEF Occurrences
  <2>2. first \in at
    BY <1>4, <2>1, Least
  <2>3. SubSeq(rest, 1, first - 1) \in Seq(Char)
    <3>1. 1 \in 1 .. Len(rest) + 1 /\ first - 1 \in 1 - 1 .. Len(rest)
      BY <1>2, <2>1, <2>2
    <3> QED
      BY <1>2, <3>1, Parts
  <2>4. Before(rest, <<"/">>) = SubSeq(rest, 1, first - 1)
    BY <1>4 DEF Before
  <2> QED
    BY <2>3, <2>4 DEF Host, rest
<1> QED
  BY <1>3, <1>4

\* What a wildcard leaves of a name.
LEMMA AfterWildcard ==
    ASSUME NEW s \in Seq(Char), Len(s) > 2, SubSeq(s, 1, 2) = <<"*", ".">>
    PROVE  After(s, <<"*", ".">>) = SubSeq(s, 3, Len(s))
<1> DEFINE at == Occurrences(s, <<"*", ".">>)
           first == CHOOSE i \in at : \A j \in at : i <= j
<1>0. Len(<<"*", ".">>) = 2 /\ Len(s) \in Nat
  OBVIOUS
<1>1. 1 \in at
  BY <1>0 DEF Occurrences
<1>2. at \in SUBSET Nat /\ \A i \in at : i >= 1
  BY <1>0 DEF Occurrences
<1>3. first \in at /\ first <= 1
  BY <1>1, <1>2, Least
<1>4. first = 1
  BY <1>2, <1>3
<1>5. After(s, <<"*", ".">>) = SubSeq(s, first + 2, Len(s))
  BY <1>0, <1>1 DEF After
<1> HIDE DEF first
<1>6. first + 2 = 3
  BY <1>4
<1> QED
  BY <1>5, <1>6

\* compare_host_name accepts a name that stands for the host.
LEMMA OwnNameCompares ==
    ASSUME NEW u \in Seq(Char), NEW name \in Seq(Char), StandsFor(name, Host(u))
    PROVE  CompareHostName(u, name)
<1> DEFINE star == <<"*", ".">>
<1>1. PICK host \in Seq(Char) : host = Host(u)
  BY HostIsText
<1>2. \E m \in 1 .. Len(host) + 1 : After(name, star) = SubSeq(host, m, Len(host))
  <2>1. CASE name = host
    <3>1. Len(star) \in Nat
      OBVIOUS
    <3> QED
      BY <2>1, <3>1, AfterIsEnd
  <2>2. CASE name # host
    <3>1. Len(name) > 2 /\ SubSeq(name, 1, 2) = star
      BY <1>1, <2>2 DEF StandsFor
    <3>2. PICK i \in 2 .. Len(host) : SubSeq(host, i, Len(host)) = SubSeq(name, 2, Len(name))
      BY <1>1, <2>2 DEF StandsFor
    <3>3. Tail(SubSeq(host, i, Len(host))) = SubSeq(host, i + 1, Len(host))
      <4>1. i \in 1 .. Len(host) /\ Len(host) \in i .. Len(host)
        OBVIOUS
      <4> QED
        BY <4>1, HeadTailOfSubSeq
    <3>4. Tail(SubSeq(name, 2, Len(name))) = SubSeq(name, 3, Len(name))
      <4>1. 2 \in 1 .. Len(name) /\ Len(name) \in 2 .. Len(name) /\ 2 + 1 = 3
        BY <3>1
      <4> QED
        BY <4>1, HeadTailOfSubSeq
    <3>5. After(name, star) = SubSeq(name, 3, Len(name))
      BY <3>1, AfterWildcard
    <3>6. i + 1 \in 1 .. Len(host) + 1
      OBVIOUS
    <3> QED
      BY <3>2, <3>3, <3>4, <3>5, <3>6
  <2> QED
    BY <2>1, <2>2
<1>3. Occurrences(host, After(name, star)) # {}
  BY <1>2, EndOccurs
<1> QED
  BY <1>1, <1>3 DEF CompareHostName

\* The certificates above the current depth are trusted, all of them once the
\* handshake is accepted.
HInv ==
    /\ url \in NodeUrls /\ chain \in Chains /\ caFile \in BOOLEAN
    /\ depth \in 0 .. Len(chain) - 1 /\ verdict \in {"checking", "accepted", "threw", "rejected"}
    /\ \A i \in depth + 2 .. Len(chain) : caFile /\ chain[i].trusted
    /\ AcceptedIsTrusted /\ OwnNameAccepted

\* The leaf names the host, and nothing is wrong with the chain.
LeafNames(cert, u) ==
    \/ \E i \in 1 .. Len(cert.san) : cert.san[i].dns /\ StandsFor(cert.san[i].name, Host(u))
    \/ cert.cn # <<>> /\ StandsFor(cert.cn[1].name, Host(u))

LEMMA LeafIsAccepted ==
    ASSUME NEW u \in Seq(Char), NEW cert \in Certs, Wellformed(cert), LeafNames(cert, u)
    PROVE  VerifySubjectAlternativeName(u, cert.san) \/ VerifyCommonName(u, cert.cn)
<1>0. cert.san \in Seq(Names) /\ cert.cn \in Seq(Names) /\ \A e \in Names : e.name \in Seq(Char)
  BY DEF Certs, Names
<1>1. ASSUME NEW i \in 1 .. Len(cert.san), cert.san[i].dns,
             StandsFor(cert.san[i].name, Host(u))
      PROVE  VerifySubjectAlternativeName(u, cert.san)
  <2>1. cert.san[i].name \in Seq(Char)
    <3>1. cert.san[i] \in Names
      BY <1>0
    <3> QED
      BY <1>0, <3>1
  <2>2. CompareHostName(u, cert.san[i].name)
    BY <1>1, <2>1, OwnNameCompares
  <2>3. \A j \in 1 .. i : ~cert.san[j].nul
    <3>1. \A j \in 1 .. i : j \in 1 .. Len(cert.san)
      BY <1>0
    <3> QED
      BY <3>1 DEF Wellformed
  <2> QED
    BY <1>1, <2>2, <2>3 DEF VerifySubjectAlternativeName
<1>2. ASSUME cert.cn # <<>>, StandsFor(cert.cn[1].name, Host(u))
      PROVE  VerifyCommonName(u, cert.cn)
  <2>0. 1 \in 1 .. Len(cert.cn)
    BY <1>0, <1>2
  <2>1. cert.cn[1].name \in Seq(Char)
    <3>1. cert.cn[1] \in Names
      BY <1>0, <2>0
    <3> QED
      BY <1>0, <3>1
  <2>2. CompareHostName(u, cert.cn[1].name)
    BY <1>2, <2>1, OwnNameCompares
  <2> QED
    BY <1>2, <2>0, <2>2 DEF VerifyCommonName, Wellformed
<1> QED
  BY <1>1, <1>2 DEF LeafNames

LEMMA HandshakeInit == Presented /\ Begin => HInv
<1> SUFFICES ASSUME Presented, Begin PROVE HInv
  OBVIOUS
<1>1. chain \in Seq(Certs) /\ chain # <<>>
  BY DEF Presented, Begin
<1>2. depth = Len(chain) - 1 /\ Len(chain) \in Nat \ {0}
  BY <1>1 DEF Begin
<1> QED
  BY <1>2 DEF Begin, HInv, AcceptedIsTrusted, OwnNameAccepted

LEMMA HandshakeNext == Presented /\ HInv /\ [Verify]_handshake => HInv'
<1> SUFFICES ASSUME Presented, HInv, [Verify]_handshake PROVE HInv'
  OBVIOUS
<1>1. CASE UNCHANGED handshake
  BY <1>1 DEF handshake, HInv, AcceptedIsTrusted, OwnNameAccepted
<1>2. CASE Verify
  <2> DEFINE cert == chain[depth + 1]
             answer == VerifyCertificate(url, depth, caFile /\ cert.trusted, cert)
  <2>0. /\ url \in Seq(Char) /\ chain \in Seq(Certs) /\ Len(chain) \in Nat \ {0}
        /\ depth \in 0 .. Len(chain) - 1 /\ depth \in Int /\ cert \in Certs
    <3>1. chain \in Seq(Certs) /\ chain # <<>> /\ url \in Seq(Char) /\ depth \in 0 .. Len(chain) - 1
      BY DEF HInv, Presented
    <3> QED
      BY <3>1
  <2>1. /\ verdict = "checking" /\ UNCHANGED <<url, caFile, chain>>
        /\ \/ answer = "ok" /\ depth > 0 /\ depth' = depth - 1 /\ verdict' = verdict
           \/ answer = "ok" /\ depth = 0 /\ verdict' = "accepted" /\ depth' = depth
           \/ answer # "ok" /\ verdict' = answer /\ depth' = depth
    BY <1>2 DEF Verify
  <2>2. answer = IF ~(caFile /\ cert.trusted) THEN "threw"
                 ELSE IF depth # 0 \/ \/ VerifySubjectAlternativeName(url, cert.san)
                                      \/ VerifyCommonName(url, cert.cn)
                      THEN "ok" ELSE "rejected"
    BY DEF VerifyCertificate
  <2> HIDE DEF answer
  <2>3. answer = "ok" => \A i \in depth + 1 .. Len(chain) : caFile /\ chain[i].trusted
    <3>1. \A i \in depth + 1 .. Len(chain) : i = depth + 1 \/ i \in depth + 2 .. Len(chain)
      BY <2>0
    <3> QED
      BY <2>2, <3>1 DEF HInv
  <2>4. answer = "ok" \/ answer = "threw" \/ answer = "rejected"
    BY <2>2
  <2>5. /\ url' \in NodeUrls /\ chain' \in Chains /\ caFile' \in BOOLEAN
        /\ depth' \in 0 .. Len(chain') - 1 /\ verdict' \in {"checking", "accepted", "threw", "rejected"}
    BY <2>0, <2>1, <2>4 DEF HInv
  <2>6. \A i \in depth' + 2 .. Len(chain') : caFile' /\ chain'[i].trusted
    <3>1. CASE depth' = depth
      BY <2>1, <3>1 DEF HInv
    <3>2. CASE depth' = depth - 1 /\ answer = "ok"
      BY <2>0, <2>1, <2>3, <3>2
    <3> QED
      BY <2>1, <3>1, <3>2
  <2>7. AcceptedIsTrusted'
    BY <2>0, <2>1, <2>3, <2>4 DEF AcceptedIsTrusted
  <2>8. OwnNameAccepted'
    <3> SUFFICES ASSUME verdict' # "checking", LeafNames(chain[1], url), caFile, Wellformed(chain[1]),
                        \A i \in 1 .. Len(chain) : chain[i].trusted
                 PROVE  verdict' = "accepted"
      BY <2>1 DEF OwnNameAccepted, LeafNames
    <3>1. depth + 1 \in 1 .. Len(chain)
      BY <2>0
    <3>2. answer = "ok"
      <4>1. CASE depth = 0
        <5>1. chain[1] \in Certs /\ cert = chain[1]
          BY <2>0, <4>1
        <5>2. \/ VerifySubjectAlternativeName(url, chain[1].san)
              \/ VerifyCommonName(url, chain[1].cn)
          BY <2>0, <5>1, LeafIsAccepted
        <5> QED
          BY <2>2, <3>1, <5>1, <5>2
      <4>2. CASE depth # 0
        BY <2>2, <3>1, <4>2
      <4> QED
        BY <4>1, <4>2
    <3> QED
      BY <2>1, <3>2
  <2> QED
    BY <2>5, <2>6, <2>7, <2>8 DEF HInv
<1> QED
  BY <1>1, <1>2

\* For chains of any length, any names and any URLs, a handshake goes on only if
\* the CA file was loaded and every certificate is trusted, and a trusted chain
\* whose leaf names the host, exactly or by a wildcard, is accepted
\* (verify_certificate and compare_host_name, wsclient.cpp:43-180).
THEOREM ChainsAreJudged ==
    ASSUME Presented
    PROVE  Handshake => []ChainIsJudged
<1>1. HInv => ChainIsJudged
  BY DEF HInv, ChainIsJudged
<1> QED
  BY <1>1, HandshakeInit, HandshakeNext, PTL DEF Handshake
=============================================================================
