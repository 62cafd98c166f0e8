---------------------------- MODULE JsonRpcProofs ----------------------------
(***************************************************************************)
(* Proofs about JsonRpc, for any number of callers and of calls.  What is  *)
(* about particular ids is proved for a connection on which _lastId has    *)
(* not reached INT_MAX.                                                    *)
(***************************************************************************)
EXTENDS JsonRpc, TLAPS

\* A leaf is tried with Zenon and then with SMT, unless it names one of them.
USE ZenonT(5), SMTT(20)

LEMMA IdType == \A n \in Nat : Id(n) \in Ids
BY RpcAssumption DEF Id, Ids

LEMMA SmallId ==
  ASSUME NEW n \in 0 .. IntMax
  PROVE  Id(n) = n
BY RpcAssumption DEF Id

-----------------------------------------------------------------------------
(* Type correctness.                                                       *)

LEMMA InitType == Init => TypeOK
<1> SUFFICES ASSUME Init PROVE TypeOK
  OBVIOUS
<1>1. lastId \in 0 .. MaxCalls /\ pointer \in Serial \cup {Null}
  BY RpcAssumption DEF Init
<1>2. pc \in [Thread -> Label] /\ \A c \in Caller : pc[c] = "idle"
  BY DEF Init, Thread, Label
<1>3. connected \in BOOLEAN /\ sendLocked \in BOOLEAN
  BY DEF Init
<1> QED
  BY <1>1, <1>2, <1>3 DEF Init, TypeOK

LEMMA CallerType ==
  ASSUME TypeOK, NEW c \in Caller, Register(c) \/ CallerStep(c)
  PROVE  TypeOK'
<1> USE DEF TypeOK
<1>0. c \in Thread /\ (call[c] \in Nat => Id(call[c]) \in Ids) /\ call[c] \in Nat
  BY IdType DEF Thread, Serial, Null
<1>1. CASE Register(c)
  <2>1. lastId + 1 \in Serial /\ Id(lastId + 1) \in Ids
    BY <1>1, IdType, RpcAssumption DEF Register, Serial
  <2> QED
    BY <1>0, <1>1, <2>1, RpcAssumption DEF Register, At, Goto, Label, history, Serial, Null
<1>2. CASE Send(c) \/ NotConnected(c) \/ SendThrows(c) \/ BeginWait(c) \/ WakeUnnotified(c)
  <2>1. call[c] \in Serial
    BY <1>0, <1>2 DEF Send, NotConnected, SendThrows, BeginWait, WakeUnnotified, At
  <2> QED
    <3>1. CASE Send(c)
      BY <1>0, <2>1, <3>1 DEF Send, At, Goto, Label, map, locals, history
    <3>2. CASE NotConnected(c)
      BY <1>0, <2>1, <3>2 DEF NotConnected, SendThrows, At, Goto, Label, map, locals
    <3>3. CASE BeginWait(c)
      BY <1>0, <2>1, <3>3 DEF BeginWait, At, Goto, Label, map, locals, history
    <3>4. CASE WakeUnnotified(c)
      BY <1>0, <2>1, <3>4 DEF WakeUnnotified, At, Goto, Label, map, locals
    <3>5. CASE SendThrows(c)
      BY <1>0, <2>1, <3>5 DEF SendThrows, At, Goto, Label, map, locals
    <3> QED
      BY <1>2, <3>1, <3>2, <3>3, <3>4, <3>5
<1>3. CASE Take(c)
  BY <1>0, <1>3 DEF Take, At, Goto, Label, history
<1>4. CASE Erase(c)
  BY <1>0, <1>4 DEF Erase, At, Goto, Label, locals, history
<1> QED
  BY <1>1, <1>2, <1>3, <1>4 DEF CallerStep

LEMMA NextType == TypeOK /\ [Next]_vars => TypeOK'
<1> SUFFICES ASSUME TypeOK, [Next]_vars PROVE TypeOK'
  OBVIOUS
<1>0. Ws \in Thread /\ Id(call[Ws]) \in Ids
  BY IdType DEF Thread, TypeOK, Serial, Null
<1>1. ASSUME NEW n \in Serial, Receive(n) PROVE TypeOK'
  <2>1. \A c \in Caller : pc'[c] = pc[c] /\ call'[c] = call[c]
    BY <1>0, <1>1, RpcAssumption DEF TypeOK, Receive, Goto, Thread
  <2> QED
    BY <1>0, <1>1, <2>1 DEF TypeOK, Receive, At, Goto, Label, map, history
<1>2. CASE Check
  BY <1>0, <1>2 DEF TypeOK, Check, At, Goto, Label, map, locals, history
<1>3. ASSUME NEW v \in {call[Ws], Null}, Set(v) PROVE TypeOK'
  <2>1. v \in Serial \cup {Null} /\ {v} \ {Null} \subseteq Serial
    BY <1>0 DEF TypeOK
  <2>2. stored' \subseteq Serial
    BY <1>3, <2>1 DEF TypeOK, Set
  <2> QED
    BY <1>0, <1>3, <2>1, <2>2 DEF TypeOK, Set, At, Goto, Label
<1>4. CASE Notify
  <2>1. pc' \in [Thread -> Label]
    BY <1>4 DEF TypeOK, Notify, Label
  <2>2. \A c \in Caller : pc'[c] # "idle" => pc[c] # "idle"
    BY <1>4, RpcAssumption DEF TypeOK, Notify, Thread
  <2> QED
    BY <1>4, <2>1, <2>2 DEF TypeOK, Notify, map, history
<1>5. CASE Disconnect \/ Crash \/ UNCHANGED vars
  BY <1>5 DEF TypeOK, Disconnect, Crash, vars, map, locals, history
<1> QED
  BY <1>1, <1>2, <1>3, <1>4, <1>5, CallerType DEF Next, WsStep

\* Every state is well typed.
THEOREM TypeCorrect == Spec => []TypeOK
BY InitType, NextType, PTL DEF Spec

-----------------------------------------------------------------------------
(* Serial numbers are unique, and a request has one response.              *)

\* handleMessage works on the response to request n.
Handling(n) == call[Ws] = n /\ pc[Ws] \in {"check", "set", "notify"}

Serials ==
    /\ \A c \in Caller : call[c] <= lastId
    /\ \A c, d \in Caller : c # d /\ call[c] = call[d] => call[c] = Null
    /\ \A n \in inflight : n <= lastId /\ ~Handling(n)
    /\ call[Ws] <= lastId
    /\ \A c \in Caller : pc[c] = "send" => call[c] \notin inflight /\ ~Handling(call[c])
    /\ \A n \in stored : n <= lastId

LEMMA NextSerials == TypeOK /\ Serials /\ [Next]_vars => Serials'
<1> SUFFICES ASSUME TypeOK, Serials, [Next]_vars PROVE Serials'
  OBVIOUS
<1> USE DEF Serials
<1>0. /\ lastId \in Nat /\ Ws \in Thread /\ Ws \notin Caller /\ Caller \subseteq Thread
      /\ \A t \in Thread : call[t] \in Nat
      /\ \A n \in inflight : n \in Nat
      /\ \A n \in stored : n \in Nat
  BY RpcAssumption DEF TypeOK, Thread, Serial, Null
<1>1. ASSUME NEW c \in Caller, Register(c) PROVE Serials'
  <2>1. /\ lastId' = lastId + 1 /\ call' = [call EXCEPT ![c] = lastId + 1]
        /\ pc' = [pc EXCEPT ![c] = "send"] /\ UNCHANGED <<inflight, stored>>
    BY <1>1 DEF Register, Goto, history
  <2>2. call'[c] = lastId + 1 /\ \A t \in Thread \ {c} : call'[t] = call[t] /\ pc'[t] = pc[t]
    BY <1>0, <2>1 DEF TypeOK
  <2>3. ASSUME NEW n \in Nat, n <= lastId PROVE Handling(n)' <=> Handling(n)
    BY <1>0, <2>2 DEF Handling
  <2>4. call'[c] \notin inflight' /\ ~Handling(call[c])'
    BY <1>0, <2>1, <2>2 DEF Handling
  <2>5. /\ \A d \in Caller : call'[d] <= lastId'
        /\ \A d, e \in Caller : d # e /\ call'[d] = call'[e] => call'[d] = Null
        /\ call'[Ws] <= lastId' /\ \A n \in stored' : n <= lastId'
    BY <1>0, <2>1, <2>2
  <2>6. \A n \in inflight' : n <= lastId' /\ ~Handling(n)'
    BY <1>0, <2>1, <2>3
  <2>7. ASSUME NEW d \in Caller, pc'[d] = "send"
        PROVE  call'[d] \notin inflight' /\ ~Handling(call[d])'
    BY <1>0, <2>1, <2>2, <2>3, <2>4, <2>7
  <2> QED
    BY <2>5, <2>6, <2>7
<1>2. ASSUME NEW c \in Caller, CallerStep(c) PROVE Serials'
  <2>1. /\ lastId' = lastId /\ call' = call /\ stored' = stored
        /\ \A t \in Thread \ {c} : pc'[t] = pc[t]
        /\ pc'[c] # "send"
        /\ inflight' = inflight \/ (pc[c] = "send" /\ inflight' = inflight \cup {call[c]})
    BY <1>0, <1>2 DEF CallerStep, Send, NotConnected, SendThrows, BeginWait, WakeUnnotified, Take,
       Erase, At, Goto, locals, history, TypeOK
  <2>2. \A n : Handling(n)' <=> Handling(n)
    BY <1>0, <2>1 DEF Handling
  <2>3. \A n \in inflight' : n <= lastId' /\ ~Handling(n)'
    BY <1>0, <2>1, <2>2
  <2>4. ASSUME NEW d \in Caller, pc'[d] = "send"
        PROVE  call'[d] \notin inflight' /\ ~Handling(call[d])'
    <3>1. d # c /\ pc[d] = "send" /\ call[d] # Null
      BY <1>0, <2>1, <2>4 DEF TypeOK
    <3> QED
      BY <1>0, <2>1, <2>2, <3>1
  <2> QED
    BY <2>1, <2>3, <2>4
<1>3. ASSUME NEW n \in Serial, Receive(n) PROVE Serials'
  <2>1. /\ n \in inflight /\ inflight' = inflight \ {n}
        /\ call' = [call EXCEPT ![Ws] = n] /\ UNCHANGED <<lastId, stored>>
        /\ \A t \in Thread \ {Ws} : pc'[t] = pc[t] /\ call'[t] = call[t]
        /\ call'[Ws] = n
    BY <1>0, <1>3 DEF Receive, Goto, history, TypeOK
  <2>2. \A m : Handling(m)' => m = n
    BY <2>1 DEF Handling
  <2> QED
    BY <1>0, <2>1, <2>2
<1>4. ASSUME Check \/ (\E v \in {call[Ws], Null} : Set(v)) \/ Notify PROVE Serials'
  <2>1. /\ UNCHANGED <<lastId, call, inflight>>
        /\ \A t \in Thread \ {Ws} : pc'[t] = "send" => pc[t] = "send"
        /\ pc[Ws] \in {"check", "set", "notify"}
        /\ stored' \subseteq stored \cup {call[Ws]}
    BY <1>0, <1>4 DEF Check, Set, Notify, At, Goto, locals, history, TypeOK
  <2>2. \A m : Handling(m)' => Handling(m)
    BY <2>1 DEF Handling
  <2> QED
    BY <1>0, <2>1, <2>2
<1>5. CASE Disconnect \/ Crash \/ UNCHANGED vars
  BY <1>5 DEF Disconnect, Crash, vars, locals, history, Handling
<1> QED
  BY <1>1, <1>2, <1>3, <1>4, <1>5 DEF Next, WsStep

LEMMA SerialsInvariant == Spec => []Serials
<1>1. Init => Serials
  BY RpcAssumption DEF Init, Serials, Thread, Null
<1> QED
  BY <1>1, TypeCorrect, NextSerials, PTL DEF Spec

-----------------------------------------------------------------------------
(* Whose response it is.                                                   *)

\* The entry of a small id never holds the response to another request.
Owned == OwnResponse /\ \A i \in 1 .. MaxCalls : json[i] \in {Null, i}

LEMMA NextOwned ==
  ASSUME MaxCalls <= IntMax
  PROVE  TypeOK /\ Owned /\ [Next]_vars => Owned'
<1> SUFFICES ASSUME TypeOK, Owned, [Next]_vars PROVE Owned'
  OBVIOUS
<1> USE DEF Owned, OwnResponse
<1>0. /\ Ws \in Thread /\ Ws \notin Caller /\ Caller \subseteq Thread
      /\ \A n \in Serial \cup {Null} : Id(n) = n
      /\ Serial \subseteq Ids /\ Null \in Ids
  BY RpcAssumption, SmallId DEF Thread, Serial, Null, Ids
<1>1. ASSUME NEW c \in Caller, Register(c) PROVE Owned'
  <2>1. lastId + 1 \in Serial
    BY <1>1, RpcAssumption DEF TypeOK, Register, Serial
  <2> QED
    BY <1>0, <1>1, <2>1 DEF TypeOK, Register, Serial
<1>2. ASSUME NEW c \in Caller, CallerStep(c) PROVE Owned'
  <2>1. CASE Take(c)
    <3>1. call[c] \in Serial
      BY <1>0, <2>1 DEF TypeOK, Take, At
    <3> QED
      BY <1>0, <2>1, <3>1 DEF TypeOK, Take, Serial
  <2>2. CASE Erase(c)
    <3>1. call[c] \in Serial
      BY <1>0, <2>2 DEF TypeOK, Erase, At
    <3> QED
      BY <1>0, <2>2, <3>1 DEF TypeOK, Erase, locals, Serial
  <2> QED
    BY <1>2, <2>1, <2>2 DEF CallerStep, Send, NotConnected, SendThrows, BeginWait, WakeUnnotified,
       map, locals
<1>3. ASSUME NEW n \in Serial, Receive(n) PROVE Owned'
  BY <1>0, <1>3 DEF TypeOK, Receive, map
<1>4. ASSUME NEW v \in {call[Ws], Null}, Set(v) PROVE Owned'
  <2>1. Id(call[Ws]) = call[Ws]
    BY <1>0 DEF TypeOK
  <2> QED
    BY <1>0, <1>4, <2>1 DEF TypeOK, Set, Serial
<1>5. CASE Check \/ Notify \/ Disconnect \/ Crash \/ UNCHANGED vars
  BY <1>5 DEF Check, Notify, Disconnect, Crash, vars, map, locals
<1> QED
  BY <1>1, <1>2, <1>3, <1>4, <1>5 DEF Next, WsStep

\* No caller is ever handed the response to another request, as long as
\* _lastId has not passed INT_MAX.
THEOREM OwnResponseInvariant ==
  ASSUME MaxCalls <= IntMax
  PROVE  Spec => []OwnResponse
<1>1. Init => Owned
  BY RpcAssumption DEF Init, Owned, OwnResponse, Null, Ids
<1>2. Owned => OwnResponse
  BY DEF Owned
<1> QED
  BY <1>1, <1>2, TypeCorrect, NextOwned, PTL DEF Spec

-----------------------------------------------------------------------------
(* Which entries _queries keeps.                                           *)

\* An id without an entry has no completionCV, so the entry handleMessage
\* re-creates has none, and the thread stays where it is: notify_all is called
\* on a null pointer.
Kept ==
    /\ \A i \in Ids \ queries : cv[i] = Null
    /\ \A i \in queries :
        \/ \E c \in Caller : pc[c] # "idle" /\ Id(call[c]) = i
        \/ \E n \in thrown : Id(n) = i
        \/ pc[Ws] = "notify" /\ Id(call[Ws]) = i /\ pointer = Null

LEMMA NextKept == TypeOK /\ Kept /\ [Next]_vars => Kept'
<1> SUFFICES ASSUME TypeOK, Kept, [Next]_vars PROVE Kept'
  OBVIOUS
<1> USE DEF Kept
<1>0. /\ Ws \in Thread /\ Ws \notin Caller /\ Caller \subseteq Thread
      /\ queries \subseteq Ids
      /\ \A t \in Thread : Id(call[t]) \in Ids
  BY RpcAssumption, IdType DEF TypeOK, Thread, Serial, Null
<1>1. ASSUME NEW c \in Caller, Register(c) PROVE Kept'
  <2>1. Id(lastId + 1) \in Ids
    BY IdType, RpcAssumption DEF TypeOK
  <2>2. /\ queries' = queries \cup {Id(lastId + 1)}
        /\ cv' = [cv EXCEPT ![Id(lastId + 1)] = lastId + 1]
        /\ pc[c] = "idle" /\ pc'[c] = "send" /\ call'[c] = lastId + 1
        /\ \A t \in Thread \ {c} : pc'[t] = pc[t] /\ call'[t] = call[t]
        /\ UNCHANGED <<thrown, pointer>>
    BY <1>0, <1>1 DEF Register, At, Goto, history, TypeOK
  <2>3. \A i \in Ids \ queries' : cv'[i] = Null
    BY <2>1, <2>2 DEF TypeOK
  <2>4. ASSUME NEW i \in queries'
        PROVE  \/ \E d \in Caller : pc'[d] # "idle" /\ Id(call'[d]) = i
               \/ \E n \in thrown' : Id(n) = i
               \/ pc'[Ws] = "notify" /\ Id(call'[Ws]) = i /\ pointer' = Null
    BY <1>0, <2>2
  <2> QED
    BY <2>3, <2>4
<1>2. ASSUME NEW c \in Caller, CallerStep(c) PROVE Kept'
  <2> DEFINE i == Id(call[c])
  <2>1. CASE Erase(c)
    <3>1. /\ queries' = queries \ {i} /\ cv' = [cv EXCEPT ![i] = Null]
          /\ UNCHANGED <<call, thrown, pointer>>
          /\ \A t \in Thread \ {c} : pc'[t] = pc[t]
      BY <1>0, <2>1 DEF Erase, Goto, locals, history, TypeOK
    <3> QED
      BY <1>0, <3>1 DEF TypeOK
  <2>2. CASE NotConnected(c) \/ SendThrows(c)
    <3>1. /\ UNCHANGED <<queries, cv, call, pointer>>
          /\ thrown' = thrown \cup {call[c]}
          /\ \A t \in Thread \ {c} : pc'[t] = pc[t]
      BY <1>0, <2>2 DEF NotConnected, SendThrows, Goto, map, locals, TypeOK
    <3> QED
      BY <1>0, <3>1
  <2>3. CASE Send(c) \/ BeginWait(c) \/ WakeUnnotified(c) \/ Take(c)
    <3>1. /\ UNCHANGED <<cv, call, thrown, pointer>>
          /\ queries' = queries \/ queries' = queries \cup {i}
          /\ pc'[c] # "idle"
          /\ \A t \in Thread \ {c} : pc'[t] = pc[t]
      BY <1>0, <2>3 DEF Send, BeginWait, WakeUnnotified, Take, Goto, map, locals, history, TypeOK
    <3> QED
      BY <1>0, <3>1
  <2> QED
    BY <1>2, <2>1, <2>2, <2>3 DEF CallerStep
<1>3. ASSUME NEW n \in Serial, Receive(n) PROVE Kept'
  <2>1. /\ UNCHANGED <<queries, cv, thrown>> /\ pc[Ws] = "idle"
        /\ \A t \in Caller : pc'[t] = pc[t] /\ call'[t] = call[t]
    BY <1>0, <1>3 DEF Receive, At, Goto, map, history, TypeOK
  <2> QED
    BY <1>0, <2>1
<1>4. CASE Check
  <2>1. /\ UNCHANGED <<queries, cv, call, thrown>> /\ pc[Ws] = "check"
        /\ \A t \in Caller : pc'[t] = pc[t]
    BY <1>0, <1>4 DEF Check, At, Goto, map, locals, history, TypeOK
  <2> QED
    BY <1>0, <2>1
<1>5. ASSUME NEW v \in {call[Ws], Null}, Set(v) PROVE Kept'
  <2> DEFINE i == Id(call[Ws])
  <2>1. /\ queries' = queries \cup {i} /\ UNCHANGED <<cv, call, thrown>>
        /\ pointer' = cv[i] /\ pc[Ws] = "set" /\ pc'[Ws] = "notify"
        /\ \A t \in Caller : pc'[t] = pc[t]
    BY <1>0, <1>5 DEF Set, At, Goto, TypeOK
  <2>2. i \in queries \/ pointer' = Null
    BY <1>0, <2>1
  <2> QED
    BY <1>0, <2>1, <2>2
<1>6. CASE Notify
  <2>1. /\ UNCHANGED <<queries, cv, call, thrown>> /\ pointer # Null
        /\ \A t \in Caller : pc'[t] # "idle" <=> pc[t] # "idle"
    BY <1>0, <1>6 DEF Notify, map, history
  <2> QED
    BY <1>0, <2>1
<1>7. CASE Disconnect \/ Crash \/ UNCHANGED vars
  BY <1>7 DEF Disconnect, Crash, vars, map, locals, history
<1> QED
  BY <1>1, <1>2, <1>3, <1>4, <1>5, <1>6, <1>7 DEF Next, WsStep

\* request leaves no entry of _queries behind, whatever the ids do, except when
\* it throws; an entry that a late handleMessage re-creates is one on which the
\* thread then uses a null condition variable.
THEOREM NoStaleEntryInvariant == Spec => []NoStaleEntry
<1>1. Init => Kept
  BY DEF Init, Kept
<1>2. Kept => NoStaleEntry
  BY DEF Kept, NoStaleEntry
<1> QED
  BY <1>1, <1>2, TypeCorrect, NextKept, PTL DEF Spec

-----------------------------------------------------------------------------
(* A response that was stored in time is returned.                         *)

Safe ==
    /\ StoredIsReturned
    /\ \A n \in stored : n \notin inflight /\ (Handling(n) => pc[Ws] = "notify")
    /\ \A c \in Caller : pc[c] = "send" => call[c] \notin stored
    /\ \A c \in Caller : pc[c] \in {"beginWait", "wait", "take"} /\ call[c] \in stored
                           => json[call[c]] = call[c]

LEMMA NextSafe ==
  ASSUME MaxCalls <= IntMax
  PROVE  TypeOK /\ Serials /\ Safe /\ [Next]_vars => Safe'
<1> SUFFICES ASSUME TypeOK, Serials, Safe, [Next]_vars PROVE Safe'
  OBVIOUS
<1> USE DEF Safe, StoredIsReturned
<1>0. /\ Ws \in Thread /\ Ws \notin Caller /\ Caller \subseteq Thread
      /\ \A n \in Serial \cup {Null} : Id(n) = n /\ n \in Ids
      /\ \A t \in Thread : call[t] \in Serial \cup {Null} /\ Id(call[t]) = call[t]
      /\ \A c \in Caller : pc[c] # "idle" => call[c] \in Serial /\ call[c] # Null
      /\ Null \notin stored
  BY RpcAssumption, SmallId DEF TypeOK, Thread, Serial, Null, Ids
<1>1. ASSUME NEW c \in Caller, Register(c) PROVE Safe'
  <2> DEFINE n == lastId + 1
  <2>1. n \in Serial /\ Id(n) = n
    BY <1>0, <1>1, RpcAssumption DEF TypeOK, Register, Serial
  <2>2. /\ json' = [json EXCEPT ![n] = Null] /\ call'[c] = n /\ pc'[c] = "send"
        /\ \A t \in Thread \ {c} : pc'[t] = pc[t] /\ call'[t] = call[t]
        /\ \A d \in Caller \ {c} : result'[d] = result[d]
        /\ UNCHANGED <<inflight, stored>>
    BY <1>0, <1>1, <2>1 DEF Register, Goto, history, TypeOK
  <2>3. n \notin stored /\ \A d \in Caller : call[d] # n
    BY <1>0, RpcAssumption DEF Serials, TypeOK, Serial, Null
  <2>4. \A m : Handling(m)' <=> Handling(m)
    BY <1>0, <2>2 DEF Handling
  <2>5. \A d \in Caller \ {c} : call[d] \in Ids => json'[call[d]] = json[call[d]]
    BY <2>2, <2>3 DEF TypeOK
  <2> QED
    BY <1>0, <2>2, <2>3, <2>4, <2>5
<1>2. ASSUME NEW c \in Caller, CallerStep(c) PROVE Safe'
  <2>0. \A m : Handling(m)' <=> Handling(m)
    BY <1>0, <1>2 DEF Handling, CallerStep, Send, NotConnected, SendThrows, BeginWait, WakeUnnotified,
       Take, Erase, Goto, locals, TypeOK
  <2>1. CASE Send(c)
    <3>1. /\ UNCHANGED <<json, call, result, stored>> /\ inflight' = inflight \cup {call[c]}
          /\ pc[c] = "send" /\ pc'[c] = "beginWait"
          /\ \A t \in Thread \ {c} : pc'[t] = pc[t]
      BY <1>0, <2>1 DEF Send, At, Goto, map, locals, history, TypeOK
    <3> QED
      BY <1>0, <2>0, <3>1
  <2>2. CASE NotConnected(c) \/ SendThrows(c) \/ BeginWait(c) \/ WakeUnnotified(c)
    <3>1. /\ UNCHANGED <<json, call, result, stored, inflight>>
          /\ \A t \in Thread \ {c} : pc'[t] = pc[t]
          /\ \/ pc[c] = "send" /\ pc'[c] = "idle"
             \/ pc[c] = "beginWait" /\ pc'[c] = "wait"
             \/ pc[c] = "wait" /\ pc'[c] = "take"
      BY <1>0, <2>2 DEF NotConnected, SendThrows, BeginWait, WakeUnnotified, At, Goto, map,
         locals, history, TypeOK
    <3> QED
      BY <1>0, <2>0, <3>1
  <2>3. CASE Take(c) \/ Erase(c)
    <3>1. /\ UNCHANGED <<call, stored, inflight>> /\ json' = [json EXCEPT ![call[c]] = Null]
          /\ \A t \in Thread \ {c} : pc'[t] = pc[t]
          /\ \A d \in Caller \ {c} : result'[d] = result[d]
          /\ \/ pc[c] = "take" /\ pc'[c] = "erase" /\ result'[c] = json[call[c]]
             \/ pc[c] = "erase" /\ pc'[c] = "idle" /\ result'[c] = result[c]
      BY <1>0, <2>3 DEF Take, Erase, At, Goto, locals, history, TypeOK
    <3>2. \A d \in Caller \ {c} : pc[d] # "idle" => call[d] # call[c]
      BY <1>0, <3>1 DEF Serials
    <3>3. \A d \in Caller \ {c} : pc[d] # "idle" => json'[call[d]] = json[call[d]]
      BY <1>0, <3>1, <3>2 DEF TypeOK
    <3> QED
      BY <1>0, <2>0, <3>1, <3>3
  <2> QED
    BY <1>2, <2>1, <2>2, <2>3 DEF CallerStep
<1>3. ASSUME NEW n \in Serial, Receive(n) PROVE Safe'
  <2>1. /\ n \in inflight /\ inflight' = inflight \ {n} /\ UNCHANGED <<json, result, stored>>
        /\ \A t \in Caller : pc'[t] = pc[t] /\ call'[t] = call[t]
        /\ call'[Ws] = n
    BY <1>0, <1>3 DEF Receive, Goto, map, history, TypeOK
  <2>2. \A m : Handling(m)' => m = n
    BY <2>1 DEF Handling
  <2> QED
    BY <1>0, <2>1, <2>2
<1>4. CASE Check
  <2>1. /\ UNCHANGED <<json, call, result, stored, inflight>> /\ pc[Ws] = "check"
        /\ \A t \in Caller : pc'[t] = pc[t]
    BY <1>0, <1>4 DEF Check, At, Goto, map, locals, history, TypeOK
  <2>2. \A m : Handling(m)' => Handling(m)
    BY <2>1 DEF Handling
  <2> QED
    BY <1>0, <2>1, <2>2
<1>5. ASSUME NEW v \in {call[Ws], Null}, Set(v) PROVE Safe'
  <2> DEFINE n == call[Ws]
  <2>1. /\ UNCHANGED <<call, result, inflight>> /\ pc[Ws] = "set" /\ pc'[Ws] = "notify"
        /\ json' = [json EXCEPT ![n] = v]
        /\ stored' = stored \cup {m \in {v} \ {Null} : \E c \in Caller :
                        call[c] = m /\ pc[c] \in {"send", "beginWait", "wait", "take"}}
        /\ \A t \in Caller : pc'[t] = pc[t]
    BY <1>0, <1>5 DEF Set, At, Goto, TypeOK
  <2>2. n \notin stored /\ n \notin inflight /\ Handling(n)
    BY <2>1 DEF Serials, Handling
  <2>3. \A m \in stored' : m \in stored \/ m = n
    BY <2>1
  <2>4. ASSUME n \in stored'
        PROVE  v = n /\ \E c \in Caller : call[c] = n /\ pc[c] \in {"beginWait", "wait", "take"}
    BY <1>0, <2>1, <2>2, <2>4 DEF Serials
  <2>5. \A c \in Caller : pc[c] \in {"erase", "idle"} /\ call[c] = n => n \notin stored'
    BY <1>0, <2>4 DEF Serials
  <2>6. \A c \in Caller : pc[c] = "send" => call[c] # n
    BY <2>2 DEF Serials
  <2>7. ASSUME NEW c \in Caller, pc[c] \in {"beginWait", "wait", "take"}, call[c] \in stored'
        PROVE  json'[call[c]] = call[c]
    BY <1>0, <2>1, <2>2, <2>3, <2>4, <2>7 DEF TypeOK
  <2> QED
    BY <1>0, <2>1, <2>2, <2>3, <2>5, <2>6, <2>7
<1>6. CASE Notify
  <2>1. /\ UNCHANGED <<json, call, result, stored, inflight>> /\ pc'[Ws] = "idle"
        /\ \A t \in Caller : pc'[t] = pc[t] \/ (pc[t] = "wait" /\ pc'[t] = "take")
    BY <1>0, <1>6 DEF Notify, map, history
  <2>2. \A m : ~Handling(m)'
    BY <2>1 DEF Handling
  <2> QED
    BY <1>0, <2>1, <2>2
<1>7. CASE Disconnect \/ Crash \/ UNCHANGED vars
  BY <1>7 DEF Disconnect, Crash, vars, map, locals, history, Handling
<1> QED
  BY <1>1, <1>2, <1>3, <1>4, <1>5, <1>6, <1>7 DEF Next, WsStep

\* A response that is in its entry before the caller takes it is what request
\* returns, as long as _lastId has not passed INT_MAX.
THEOREM StoredIsReturnedInvariant ==
  ASSUME MaxCalls <= IntMax
  PROVE  Spec => []StoredIsReturned
<1>1. Init => Safe
  BY RpcAssumption DEF Init, Safe, StoredIsReturned, Thread
<1>2. Safe => StoredIsReturned
  BY DEF Safe
<1> QED
  BY <1>1, <1>2, TypeCorrect, SerialsInvariant, NextSafe, PTL DEF Spec

-----------------------------------------------------------------------------
(* What it takes for notify_all to meet a bad condition variable.          *)

\* The call that sent request n is still there, its entry intact.
Awaited(n) == \E c \in Caller : call[c] = n /\ pc[c] \in {"beginWait", "wait"}

Undisturbed ==
    early = {} =>
        /\ fault \notin {"null", "dangling"}
        /\ \A n \in inflight : Awaited(n)
        /\ pc[Ws] # "idle" => Awaited(call[Ws])
        /\ \A c \in Caller : pc[c] \in {"send", "beginWait", "wait"} => cv[call[c]] = call[c]
        /\ pc[Ws] = "notify" => pointer = call[Ws]
        /\ pc[Ws] \in {"idle", "check", "set", "notify"}

LEMMA NextUndisturbed ==
  ASSUME MaxCalls <= IntMax
  PROVE  TypeOK /\ Serials /\ Undisturbed /\ [Next]_vars => Undisturbed'
<1> SUFFICES ASSUME TypeOK, Serials, Undisturbed, [Next]_vars, early' = {} PROVE Undisturbed'
  BY DEF Undisturbed
<1> USE DEF Undisturbed
<1>0. /\ Ws \in Thread /\ Ws \notin Caller /\ Caller \subseteq Thread
      /\ \A n \in Serial \cup {Null} : Id(n) = n /\ n \in Ids
      /\ \A t \in Thread : call[t] \in Serial \cup {Null} /\ Id(call[t]) = call[t]
      /\ \A c \in Caller : pc[c] # "idle" => call[c] \in Serial /\ call[c] # Null
  BY RpcAssumption, SmallId DEF TypeOK, Thread, Serial, Null, Ids
<1>1. ASSUME NEW c \in Caller, Register(c) PROVE Undisturbed'
  <2> DEFINE n == lastId + 1
  <2>1. n \in Serial /\ Id(n) = n
    BY <1>0, <1>1, RpcAssumption DEF TypeOK, Register, Serial
  <2>2. /\ cv' = [cv EXCEPT ![n] = n] /\ call'[c] = n /\ pc[c] = "idle" /\ pc'[c] = "send"
        /\ \A t \in Thread \ {c} : pc'[t] = pc[t] /\ call'[t] = call[t]
        /\ UNCHANGED <<inflight, fault, pointer, early>>
    BY <1>0, <1>1, <2>1 DEF Register, At, Goto, history, TypeOK
  <2>3. \A d \in Caller : call[d] # n
    BY <1>0, RpcAssumption DEF Serials, TypeOK, Serial, Null
  <2>4. \A m : Awaited(m) => Awaited(m)'
    BY <1>0, <2>2 DEF Awaited
  <2>5. \A d \in Caller : pc'[d] \in {"send", "beginWait", "wait"} => cv'[call'[d]] = call'[d]
    BY <1>0, <2>1, <2>2, <2>3 DEF TypeOK
  <2> QED
    BY <1>0, <2>2, <2>4, <2>5
<1>2. ASSUME NEW c \in Caller, CallerStep(c) PROVE Undisturbed'
  <2>1. CASE Send(c)
    <3>1. /\ UNCHANGED <<cv, call, pointer, fault, early>> /\ inflight' = inflight \cup {call[c]}
          /\ pc[c] = "send" /\ pc'[c] = "beginWait"
          /\ \A t \in Thread \ {c} : pc'[t] = pc[t]
      BY <1>0, <2>1 DEF Send, At, Goto, map, locals, history, TypeOK
    <3>2. (\A m : Awaited(m) => Awaited(m)') /\ Awaited(call[c])'
      BY <1>0, <3>1 DEF Awaited
    <3>3. \A n \in inflight' : Awaited(n)'
      BY <3>1, <3>2
    <3> QED
      BY <1>0, <3>1, <3>2, <3>3
  <2>2. CASE NotConnected(c) \/ SendThrows(c) \/ BeginWait(c)
    <3>1. /\ UNCHANGED <<cv, call, pointer, fault, early, inflight>>
          /\ \A t \in Thread \ {c} : pc'[t] = pc[t]
          /\ \/ pc[c] = "send" /\ pc'[c] = "idle"
             \/ pc[c] = "beginWait" /\ pc'[c] = "wait"
      BY <1>0, <2>2 DEF NotConnected, SendThrows, BeginWait, At, Goto, map, locals, history, TypeOK
    <3>2. \A m : Awaited(m) => Awaited(m)'
      BY <1>0, <3>1 DEF Awaited
    <3> QED
      BY <1>0, <3>1, <3>2
  <2>3. CASE Take(c) \/ Erase(c)
    <3>1. /\ UNCHANGED <<call, pointer, fault, early, inflight>>
          /\ cv' = cv \/ cv' = [cv EXCEPT ![call[c]] = Null]
          /\ \A t \in Thread \ {c} : pc'[t] = pc[t]
          /\ pc[c] \in {"take", "erase"} /\ pc'[c] \in {"erase", "idle"}
      BY <1>0, <2>3 DEF Take, Erase, At, Goto, locals, history, TypeOK
    <3>2. \A d \in Caller \ {c} : pc[d] # "idle" => call[d] # call[c]
      BY <1>0, <3>1 DEF Serials
    <3>3. \A d \in Caller \ {c} : pc[d] # "idle" => cv'[call[d]] = cv[call[d]]
      BY <1>0, <3>1, <3>2 DEF TypeOK
    <3>4. \A m : Awaited(m) => Awaited(m)'
      BY <1>0, <3>1 DEF Awaited
    <3> QED
      BY <1>0, <3>1, <3>3, <3>4
  <2>4. CASE WakeUnnotified(c)
    BY <2>4 DEF WakeUnnotified
  <2> QED
    BY <1>2, <2>1, <2>2, <2>3, <2>4 DEF CallerStep
<1>3. ASSUME NEW n \in Serial, Receive(n) PROVE Undisturbed'
  <2>1. /\ n \in inflight /\ inflight' = inflight \ {n}
        /\ UNCHANGED <<cv, pointer, fault, early>>
        /\ \A t \in Caller : pc'[t] = pc[t] /\ call'[t] = call[t]
        /\ call'[Ws] = n /\ pc'[Ws] \in {"idle", "check"}
    BY <1>0, <1>3 DEF Receive, Goto, map, history, TypeOK
  <2>2. \A m : Awaited(m) => Awaited(m)'
    BY <2>1 DEF Awaited
  <2> QED
    BY <1>0, <2>1, <2>2
<1>4. CASE Check
  <2>1. /\ UNCHANGED <<cv, call, pointer, fault, early, inflight>> /\ pc[Ws] = "check"
        /\ \A t \in Caller : pc'[t] = pc[t]
        /\ pc'[Ws] \in {"idle", "set"}
    BY <1>0, <1>4 DEF Check, At, Goto, map, locals, history, TypeOK
  <2>2. \A m : Awaited(m) => Awaited(m)'
    BY <2>1 DEF Awaited
  <2> QED
    BY <1>0, <2>1, <2>2
<1>5. ASSUME NEW v \in {call[Ws], Null}, Set(v) PROVE Undisturbed'
  <2>1. /\ UNCHANGED <<cv, call, fault, early, inflight>> /\ pc[Ws] = "set" /\ pc'[Ws] = "notify"
        /\ pointer' = cv[call[Ws]]
        /\ \A t \in Caller : pc'[t] = pc[t]
    BY <1>0, <1>5 DEF Set, At, Goto, TypeOK
  <2>2. \A m : Awaited(m) => Awaited(m)'
    BY <2>1 DEF Awaited
  <2>3. Awaited(call[Ws])
    BY <2>1
  <2>4. cv[call[Ws]] = call[Ws]
    BY <2>1, <2>3 DEF Awaited
  <2> QED
    BY <1>0, <2>1, <2>2, <2>4
<1>6. CASE Notify
  <2>1. /\ UNCHANGED <<cv, call, fault, early, inflight>>
        /\ pc[Ws] = "notify" /\ pc'[Ws] = "idle"
        /\ \A t \in Caller : \/ pc'[t] = pc[t]
                             \/ pc[t] = "wait" /\ pc'[t] = "take" /\ call[t] = pointer
    BY <1>0, <1>6 DEF Notify, At, map, history
  <2>2. pointer = call[Ws] /\ call[Ws] \notin inflight
    BY <2>1 DEF Serials, Handling
  <2>3. \A n \in inflight : Awaited(n)'
    BY <2>1, <2>2 DEF Awaited
  <2> QED
    BY <1>0, <2>1, <2>3
<1>7. CASE Disconnect \/ UNCHANGED vars
  BY <1>7 DEF Disconnect, vars, map, locals, history, Awaited
<1>8. CASE Crash
  <2>1. UNCHANGED <<cv, call, pointer, early, inflight, pc>>
    BY <1>8 DEF Crash, map, locals, history
  <2>2. \A m : Awaited(m) <=> Awaited(m)'
    BY <2>1 DEF Awaited
  <2>3. pc[Ws] = "notify" => pointer # Null /\ Alive(pointer)
    BY <1>0, <2>1 DEF Awaited, Alive
  <2>4. fault' \notin {"null", "dangling"}
    BY <1>8, <2>3 DEF Crash
  <2> QED
    BY <2>1, <2>2, <2>4
<1> QED
  BY <1>1, <1>2, <1>3, <1>4, <1>5, <1>6, <1>7, <1>8 DEF Next, WsStep

\* As long as no wait_for returns before its response was announced, and
\* _lastId has not passed INT_MAX, handleMessage never uses a null or a
\* dangling condition variable.
THEOREM CrashNeedsEarlyWakeInvariant ==
  ASSUME MaxCalls <= IntMax
  PROVE  Spec => []CrashNeedsEarlyWake
<1>1. Init => Undisturbed
  BY RpcAssumption DEF Init, Undisturbed, Thread
<1>2. Undisturbed => CrashNeedsEarlyWake
  BY DEF Undisturbed, CrashNeedsEarlyWake
<1> QED
  BY <1>1, <1>2, TypeCorrect, SerialsInvariant, NextUndisturbed, PTL DEF Spec

=============================================================================
