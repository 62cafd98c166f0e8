---------------------- MODULE ConcurrentMapQueueProofs ----------------------
(***************************************************************************)
(* Proofs about ConcurrentMapQueue for any number of keys, producers,      *)
(* consumers and erasers and any max_size.                                 *)
(***************************************************************************)
EXTENDS ConcurrentMapQueue, FiniteSetTheorems, TLAPS

\* A leaf is tried with Zenon and then with SMT, unless it names one of them.
USE ZenonT(5), SMTT(20)

(* Type correctness.                                                       *)

LEMMA InitType == Init => TypeOK
<1> SUFFICES ASSUME Init PROVE TypeOK
  OBVIOUS
<1>1. key \in [Thread -> Key]
  BY QueueAssumption DEF Init
<1> QED
  BY <1>1, QueueAssumption DEF Init, TypeOK, Label, Absent, Null

LEMMA CallType ==
  ASSUME TypeOK, NEW t \in Thread, NEW k \in Key, NEW l \in Label, Call(t, k, l),
         erases' \in [Key -> 0 .. MaxErase]
  PROVE  TypeOK'
<1>1. /\ UNCHANGED <<collection, keys, semR, semW, countR, countW, freedR, freedW,
                      written, last, fault>>
      /\ key' = [key EXCEPT ![t] = k] /\ pc' = [pc EXCEPT ![t] = l]
      /\ pR' = [pR EXCEPT ![t] = 0] /\ pW' = [pW EXCEPT ![t] = 0]
  BY DEF Call, Goto, sems, items, Null
<1>2. \A j \in Key : Len(countR[j]) \in Nat /\ Len(countW[j]) \in Nat
  BY DEF TypeOK
<1>3. \A u \in Thread : pR'[u] <= Len(countR'[key'[u]]) /\ pW'[u] <= Len(countW'[key'[u]])
  <2> SUFFICES ASSUME NEW u \in Thread
               PROVE  pR'[u] <= Len(countR'[key'[u]]) /\ pW'[u] <= Len(countW'[key'[u]])
    OBVIOUS
  <2>1. CASE u = t
    <3>1. pR'[u] = 0 /\ pW'[u] = 0 /\ key'[u] = k
      BY <1>1, <2>1 DEF TypeOK
    <3> QED
      BY <1>1, <1>2, <3>1
  <2>2. CASE u # t
    <3>1. pR'[u] = pR[u] /\ pW'[u] = pW[u] /\ key'[u] = key[u]
      BY <1>1, <2>2 DEF TypeOK
    <3> QED
      BY <1>1, <3>1, Zenon DEF TypeOK
  <2> QED
    BY <2>1, <2>2
<1> QED
  BY <1>1, <1>3, Zenon DEF TypeOK

LEMMA AddKeyType ==
  ASSUME TypeOK, NEW t \in Thread, NEW l \in Label, AddKey(t, l)
  PROVE  TypeOK'
<1> DEFINE k == key[t]
<1>1. MaxSize - 1 \in Nat /\ k \in Key
  BY QueueAssumption DEF TypeOK
<1>2. CASE semR[k] = Absent
  <2>1. /\ semR' = [semR EXCEPT ![k] = Len(countR[k]) + 1]
        /\ semW' = [semW EXCEPT ![k] = Len(countR[k]) + 1]
        /\ countR' = [countR EXCEPT ![k] = Append(countR[k], 0)]
        /\ countW' = [countW EXCEPT ![k] = Append(countW[k], MaxSize - 1)]
    BY <1>2 DEF AddKey
  <2>2. /\ countR' \in [Key -> Seq(Nat)] /\ countW' \in [Key -> Seq(Nat)]
        /\ Len(countR'[k]) = Len(countR[k]) + 1 /\ Len(countW'[k]) = Len(countW[k]) + 1
        /\ \A j \in Key \ {k} : countR'[j] = countR[j] /\ countW'[j] = countW[j]
    BY <1>1, <2>1 DEF TypeOK
  <2>3. /\ UNCHANGED <<collection, keys, freedR, freedW, erases, written, last, key, pR, pW,
                        fault>>
        /\ pc' = [pc EXCEPT ![t] = l]
    BY DEF AddKey, Goto, items, locals
  <2>4. /\ semR' \in [Key -> Nat \cup {Absent}] /\ semW' \in [Key -> Nat \cup {Absent}]
        /\ \A j \in Key : semR'[j] <= Len(countR'[j]) /\ semW'[j] <= Len(countW'[j])
    BY <1>1, <2>1, <2>2, SMTT(30) DEF TypeOK, Absent
  <2>5. \A u \in Thread : pR'[u] <= Len(countR'[key'[u]]) /\ pW'[u] <= Len(countW'[key'[u]])
    <3> SUFFICES ASSUME NEW u \in Thread
                 PROVE  pR[u] <= Len(countR'[key[u]]) /\ pW[u] <= Len(countW'[key[u]])
      BY <2>3
    <3>1. /\ key[u] \in Key /\ pR[u] \in Nat /\ pW[u] \in Nat
          /\ pR[u] <= Len(countR[key[u]]) /\ pW[u] <= Len(countW[key[u]])
          /\ Len(countR[key[u]]) \in Nat /\ Len(countW[key[u]]) \in Nat
      BY DEF TypeOK
    <3>2. /\ Len(countR'[key[u]]) \in Nat /\ Len(countR'[key[u]]) >= Len(countR[key[u]])
          /\ Len(countW'[key[u]]) \in Nat /\ Len(countW'[key[u]]) >= Len(countW[key[u]])
      <4>1. CASE key[u] = k
        BY <2>2, <3>1, <4>1, SMTT(30)
      <4>2. CASE key[u] # k
        BY <2>2, <3>1, <4>2
      <4> QED
        BY <4>1, <4>2
    <3>3. pR[u] <= Len(countR'[key[u]])
      BY <3>1, <3>2
    <3>4. pW[u] <= Len(countW'[key[u]])
      BY <3>1, <3>2, SMTT(30)
    <3> QED
      BY <3>3, <3>4
  <2>6. \A j \in Key : Len(countW'[j]) = Len(countR'[j])
    BY <2>2, Zenon DEF TypeOK
  <2> QED
    BY <2>2, <2>3, <2>4, <2>5, <2>6, Zenon DEF TypeOK
<1>3. CASE semR[k] # Absent
  BY <1>3, SMTT(30) DEF TypeOK, AddKey, Goto, items, locals
<1> QED
  BY <1>2, <1>3

LEMMA LoadType ==
  ASSUME TypeOK, NEW t \in Thread, NEW l \in Label, LoadR(t, l) \/ LoadW(t, l)
  PROVE  TypeOK'
<1> DEFINE k == key[t]
<1>0. /\ k \in Key
      /\ \A p \in Nat \cup {Absent} : Loaded(p) \in Nat /\ (p # Absent => Loaded(p) = p)
      /\ Loaded(Absent) = 0
      /\ \A j \in Key : Len(countR[j]) \in Nat /\ Len(countW[j]) \in Nat
  BY DEF TypeOK, Loaded, Absent, Null
<1>1. CASE LoadR(t, l)
  <2>1. /\ UNCHANGED <<collection, keys, semW, countR, countW, freedR, freedW, erases,
                        written, last, key, pW, fault>>
        /\ semR' = [semR EXCEPT ![k] = Loaded(semR[k])]
        /\ pR' = [pR EXCEPT ![t] = Loaded(semR[k])]
        /\ pc' = [pc EXCEPT ![t] = l]
    BY <1>1 DEF LoadR, Goto, items
  <2>2. Loaded(semR[k]) \in Nat /\ Loaded(semR[k]) <= Len(countR[k])
    <3>1. semR[k] \in Nat \cup {Absent} /\ semR[k] <= Len(countR[k])
      BY <1>0 DEF TypeOK
    <3>2. CASE semR[k] = Absent
      BY <1>0, <3>2
    <3>3. CASE semR[k] # Absent
      BY <1>0, <3>1, <3>3, SMTT(30)
    <3> QED
      BY <3>2, <3>3
  <2>3. \A j \in Key : semR'[j] <= Len(countR[j])
    BY <2>1, <2>2 DEF TypeOK
  <2>4. \A u \in Thread : pR'[u] <= Len(countR[key[u]])
    BY <2>1, <2>2, SMTT(30) DEF TypeOK
  <2> QED
    BY <2>1, <2>2, <2>3, <2>4, SMTT(30) DEF TypeOK
<1>2. CASE LoadW(t, l)
  <2>1. /\ UNCHANGED <<collection, keys, semR, countR, countW, freedR, freedW, erases,
                        written, last, key, pR, fault>>
        /\ semW' = [semW EXCEPT ![k] = Loaded(semW[k])]
        /\ pW' = [pW EXCEPT ![t] = Loaded(semW[k])]
        /\ pc' = [pc EXCEPT ![t] = l]
    BY <1>2 DEF LoadW, Goto, items
  <2>2. Loaded(semW[k]) \in Nat /\ Loaded(semW[k]) <= Len(countW[k])
    <3>1. semW[k] \in Nat \cup {Absent} /\ semW[k] <= Len(countW[k])
      BY <1>0 DEF TypeOK
    <3>2. CASE semW[k] = Absent
      BY <1>0, <3>2
    <3>3. CASE semW[k] # Absent
      BY <1>0, <3>1, <3>3, SMTT(30)
    <3> QED
      BY <3>2, <3>3
  <2>3. \A j \in Key : semW'[j] <= Len(countW[j])
    BY <2>1, <2>2 DEF TypeOK
  <2>4. \A u \in Thread : pW'[u] <= Len(countW[key[u]])
    BY <2>1, <2>2, Zenon DEF TypeOK
  <2> QED
    BY <2>1, <2>2, <2>3, <2>4, SMTT(30) DEF TypeOK
<1> QED
  BY <1>1, <1>2

\* What Semaphore::wait, notify and unblockAll change: one count.
LEMMA CountR ==
  ASSUME TypeOK, NEW k \in Key, NEW i \in Nat, i # 0, i <= Len(countR[k]), NEW n \in Nat,
         countR' = [countR EXCEPT ![k][i] = n]
  PROVE  /\ countR' \in [Key -> Seq(Nat)]
         /\ \A j \in Key : Len(countR'[j]) = Len(countR[j])
         /\ countR'[k][i] = n
         /\ \A j \in Key \ {k} : countR'[j] = countR[j]
BY SMTT(30) DEF TypeOK

LEMMA CountW ==
  ASSUME TypeOK, NEW k \in Key, NEW i \in Nat, i # 0, i <= Len(countW[k]), NEW n \in Nat,
         countW' = [countW EXCEPT ![k][i] = n]
  PROVE  /\ countW' \in [Key -> Seq(Nat)]
         /\ \A j \in Key : Len(countW'[j]) = Len(countW[j])
         /\ countW'[k][i] = n
         /\ \A j \in Key \ {k} : countW'[j] = countW[j]
BY SMTT(30) DEF TypeOK

LEMMA SemaphoreType ==
  ASSUME TypeOK, NEW t \in Thread, NEW l \in Label,
         WaitR(t, l) \/ WaitW(t, l) \/ NotifyR(t, l) \/ NotifyW(t, l)
  PROVE  TypeOK'
<1> DEFINE k == key[t]
<1>0. k \in Key
  BY DEF TypeOK
<1>1. CASE WaitR(t, l) \/ NotifyR(t, l)
  <2>1. /\ UNCHANGED <<collection, keys, semR, semW, countW, freedR, freedW, erases,
                        written, last, key, pW, fault>>
        /\ pR' = [pR EXCEPT ![t] = 0]
        /\ pc' = [pc EXCEPT ![t] = l]
        /\ pR[t] # 0
    BY <1>1 DEF WaitR, NotifyR, Goto, items, Null
  <2>2. PICK n \in Nat : countR' = [countR EXCEPT ![k][pR[t]] = n]
    <3>1. countR[k][pR[t]] \in Nat
      BY <2>1, SMTT(30) DEF TypeOK
    <3>2. CASE WaitR(t, l)
      <4>1. /\ countR[k][pR[t]] - 1 \in Nat
            /\ countR' = [countR EXCEPT ![k][pR[t]] = countR[k][pR[t]] - 1]
        BY <3>1, <3>2 DEF WaitR
      <4> QED
        BY <4>1, Zenon
    <3>3. CASE NotifyR(t, l)
      <4>1. /\ countR[k][pR[t]] + 1 \in Nat
            /\ countR' = [countR EXCEPT ![k][pR[t]] = countR[k][pR[t]] + 1]
        BY <3>1, <3>3 DEF NotifyR
      <4> QED
        BY <4>1, Zenon
    <3> QED
      BY <1>1, <3>2, <3>3, Zenon
  <2>3. /\ countR' \in [Key -> Seq(Nat)]
        /\ \A j \in Key : Len(countR'[j]) = Len(countR[j])
    BY <1>0, <2>1, <2>2, CountR, SMTT(30) DEF TypeOK
  <2>4. \A u \in Thread : pR'[u] <= Len(countR'[key[u]])
    BY <2>1, <2>3, SMTT(30) DEF TypeOK
  <2> QED
    BY <2>1, <2>3, <2>4, SMTT(30) DEF TypeOK
<1>2. CASE WaitW(t, l) \/ NotifyW(t, l)
  <2>1. /\ UNCHANGED <<collection, keys, semR, semW, countR, freedR, freedW, erases,
                        written, last, key, pR, fault>>
        /\ pW' = [pW EXCEPT ![t] = 0]
        /\ pc' = [pc EXCEPT ![t] = l]
        /\ pW[t] # 0
    BY <1>2 DEF WaitW, NotifyW, Goto, items, Null
  <2>2. PICK n \in Nat : countW' = [countW EXCEPT ![k][pW[t]] = n]
    <3>1. countW[k][pW[t]] \in Nat
      BY <2>1, SMTT(30) DEF TypeOK
    <3>2. CASE WaitW(t, l)
      <4>1. /\ countW[k][pW[t]] - 1 \in Nat
            /\ countW' = [countW EXCEPT ![k][pW[t]] = countW[k][pW[t]] - 1]
        BY <3>1, <3>2 DEF WaitW
      <4> QED
        BY <4>1, Zenon
    <3>3. CASE NotifyW(t, l)
      <4>1. /\ countW[k][pW[t]] + 1 \in Nat
            /\ countW' = [countW EXCEPT ![k][pW[t]] = countW[k][pW[t]] + 1]
        BY <3>1, <3>3 DEF NotifyW
      <4> QED
        BY <4>1, Zenon
    <3> QED
      BY <1>2, <3>2, <3>3, Zenon
  <2>3. /\ countW' \in [Key -> Seq(Nat)]
        /\ \A j \in Key : Len(countW'[j]) = Len(countW[j])
    BY <1>0, <2>1, <2>2, CountW, SMTT(30) DEF TypeOK
  <2>4. \A u \in Thread : pW'[u] <= Len(countW'[key[u]])
    BY <2>1, <2>3, SMTT(30) DEF TypeOK
  <2> QED
    BY <2>1, <2>3, <2>4, Zenon DEF TypeOK
<1> QED
  BY <1>1, <1>2

LEMMA QueueType ==
  ASSUME TypeOK, NEW t \in Thread, Write(t) \/ ReadItem(t) \/ ReadNothing(t)
  PROVE  TypeOK'
<1> DEFINE k == key[t]
<1>0. /\ k \in Key /\ collection[k] \in Seq(Nat) /\ written[k] + 1 \in Nat
      /\ {"loadR", "loadW", "idle"} \subseteq Label
  BY DEF TypeOK, Label
<1>1. CASE Write(t)
  <2>1. Append(collection[k], written[k] + 1) \in Seq(Nat)
    BY <1>0
  <2> QED
    BY <1>0, <1>1, <2>1, Zenon DEF TypeOK, Write, Goto, sems, locals
<1>2. CASE ReadItem(t)
  <2>1. Head(collection[k]) \in Nat /\ Tail(collection[k]) \in Seq(Nat)
    BY <1>0, <1>2 DEF ReadItem
  <2> QED
    BY <1>0, <1>2, <2>1, Zenon DEF TypeOK, ReadItem, Goto, sems, locals
<1>3. CASE ReadNothing(t)
  BY <1>0, <1>3, SMTT(30) DEF TypeOK, ReadNothing, Goto, sems, locals
<1> QED
  BY <1>1, <1>2, <1>3

LEMMA EraseType ==
  ASSUME TypeOK, NEW e \in Thread,
         UnblockAll(e) \/ EraseR(e) \/ EraseW(e) \/ DeleteR(e) \/ DeleteW(e)
  PROVE  TypeOK'
<1> DEFINE k == key[e]
<1>0. /\ k \in Key /\ pR[e] \in Nat /\ pW[e] \in Nat
      /\ {"eraseR", "eraseW", "deleteR", "deleteW", "idle"} \subseteq Label
      /\ \A j \in Key : Len(countR[j]) \in Nat /\ Len(countW[j]) \in Nat
  BY DEF TypeOK, Label
<1>1. CASE UnblockAll(e)
  <2>1. /\ UNCHANGED <<collection, keys, semR, semW, countW, freedR, freedW, erases,
                        written, last, key, pR, pW, fault>>
        /\ pc' = [pc EXCEPT ![e] = "eraseR"]
        /\ countR' = [countR EXCEPT ![k][pR[e]] = 1]
        /\ pR[e] # 0
    BY <1>1 DEF UnblockAll, Goto, items, locals, Null
  <2>2. /\ countR' \in [Key -> Seq(Nat)]
        /\ \A j \in Key : Len(countR'[j]) = Len(countR[j])
    BY <1>0, <2>1, CountR, Zenon DEF TypeOK
  <2> QED
    BY <1>0, <2>1, <2>2, Zenon DEF TypeOK
<1>2. CASE EraseR(e)
  <2>1. \A j \in Key : semR'[j] <= Len(countR[j])
    BY <1>0, <1>2 DEF TypeOK, EraseR, Absent
  <2> QED
    BY <1>0, <1>2, <2>1, Zenon DEF TypeOK, EraseR, Goto, items, locals
<1>3. CASE EraseW(e)
  <2>1. \A j \in Key : semW'[j] <= Len(countW[j])
    BY <1>0, <1>3 DEF TypeOK, EraseW, Absent
  <2> QED
    BY <1>0, <1>3, <2>1, SMTT(30) DEF TypeOK, EraseW, Goto, items, locals
<1>4. CASE DeleteR(e)
  <2>1. \A u \in Thread : pR'[u] \in Nat /\ pR'[u] <= Len(countR[key[u]])
    BY <1>0, <1>4, SMTT(30) DEF TypeOK, DeleteR, Null
  <2> QED
    BY <1>0, <1>4, <2>1, Zenon DEF TypeOK, DeleteR, Goto, items, Null
<1>5. CASE DeleteW(e)
  <2>1. \A u \in Thread : pW'[u] \in Nat /\ pW'[u] <= Len(countW[key[u]])
    BY <1>0, <1>5, SMTT(30) DEF TypeOK, DeleteW, Null
  <2> QED
    BY <1>0, <1>5, <2>1, Zenon DEF TypeOK, DeleteW, Goto, items, Null
<1> QED
  BY <1>1, <1>2, <1>3, <1>4, <1>5

LEMMA NextType == TypeOK /\ [Next]_vars => TypeOK'
<1> SUFFICES ASSUME TypeOK, [Next]_vars PROVE TypeOK'
  OBVIOUS
<1>0. /\ Label = {"idle", "addKey", "loadR", "loadW", "waitR", "waitW", "write", "read",
                  "notifyR", "notifyW", "unblock", "eraseR", "eraseW", "deleteR", "deleteW"}
      /\ Producer \subseteq Thread /\ Consumer \subseteq Thread /\ Eraser \subseteq Thread
  BY DEF Label, Thread
<1>1. ASSUME NEW p \in Producer, ProducerStep(p) PROVE TypeOK'
  <2>1. ASSUME NEW k \in Key, Put(p, k) PROVE TypeOK'
    BY <1>0, <2>1, CallType, Zenon DEF Put, TypeOK
  <2> QED
    BY <1>0, <1>1, <2>1, AddKeyType, LoadType, SemaphoreType, QueueType, SMTT(30) DEF ProducerStep
<1>2. ASSUME NEW c \in Consumer, ConsumerStep(c) PROVE TypeOK'
  <2>1. ASSUME Get(c) PROVE TypeOK'
    BY <1>0, <2>1, CallType, QueueAssumption, Zenon DEF Get, TypeOK
  <2> QED
    BY <1>0, <1>2, <2>1, AddKeyType, LoadType, SemaphoreType, QueueType, SMTT(30) DEF ConsumerStep
<1>3. ASSUME NEW e \in Eraser, EraserStep(e) PROVE TypeOK'
  <2>1. ASSUME NEW k \in Key, EraseKey(e, k) PROVE TypeOK'
    <3>1. erases' \in [Key -> 0 .. MaxErase]
      BY <2>1, QueueAssumption, SMTT(30) DEF EraseKey, TypeOK
    <3> QED
      BY <1>0, <2>1, <3>1, CallType DEF EraseKey
  <2> QED
    BY <1>0, <1>3, <2>1, LoadType, EraseType, SMTT(30) DEF EraserStep
<1>4. ASSUME NEW t \in Thread, Crash(t) PROVE TypeOK'
  BY <1>4, SMTT(30) DEF TypeOK, Crash, sems, items, locals
<1>5. CASE UNCHANGED vars
  BY <1>5 DEF TypeOK, vars, sems, items, locals
<1> QED
  BY <1>1, <1>2, <1>3, <1>4, <1>5 DEF Next

\* Every state of the queue is well typed; in particular every pointer a
\* thread holds is null or the number of a semaphore that was allocated.
THEOREM TypeCorrect == Spec => []TypeOK
BY InitType, NextType, PTL DEF Spec

-----------------------------------------------------------------------------
(* The accounting of semaphores against items.                             *)

Active == Label \ {"idle", "addKey"}

\* A step that leaves key k and the threads working on it alone.
Untouched(k) ==
    /\ UNCHANGED <<semR[k], semW[k], countR[k], countW[k], freedR[k], freedW[k], collection[k]>>
    /\ \A t \in Thread :
          /\ (pc'[t] \in Active /\ key'[t] = k) <=> (pc[t] \in Active /\ key[t] = k)
          /\ (pc[t] \in Active /\ key[t] = k) => UNCHANGED <<pc[t], pR[t], pW[t]>>

LEMMA UntouchedAccounting ==
  ASSUME TypeOK, TypeOK', NEW k \in Key, KeyAccounting(k), Untouched(k)
  PROVE  KeyAccounting(k)'
<1>1. ASSUME NEW S, S \subseteq Thread, NEW L, L \subseteq Active
      PROVE  Busy(S, k, L)' = Busy(S, k, L)
  BY <1>1 DEF Busy, Untouched
<1>2. /\ AboutToWrite(k)' = AboutToWrite(k) /\ AboutToNotifyR(k)' = AboutToNotifyR(k)
      /\ AboutToRead(k)' = AboutToRead(k) /\ AboutToNotifyW(k)' = AboutToNotifyW(k)
  <2>1. Producer \subseteq Thread /\ Consumer \subseteq Thread
    BY DEF Thread
  <2>2. /\ {"write"} \subseteq Active /\ {"loadR", "notifyR"} \subseteq Active
        /\ {"read"} \subseteq Active /\ {"loadW", "notifyW"} \subseteq Active
    BY DEF Active, Label
  <2> QED
    BY <1>1, <2>1, <2>2 DEF AboutToWrite, AboutToNotifyR, AboutToRead, AboutToNotifyW
<1>3. ASSUME NEW t \in Thread, key'[t] = k PROVE HoldsValidPointer(t, k)'
  <2>1. CASE pc'[t] \in Active
    BY <1>3, <2>1 DEF Untouched, KeyAccounting, PointersValid, HoldsValidPointer, UsesR, UsesW
  <2>2. CASE pc'[t] \notin Active
    BY <2>2, Zenon DEF HoldsValidPointer, UsesR, UsesW, Active, TypeOK, Label
  <2> QED
    BY <2>1, <2>2
<1>4. OnePair(k)'
  BY DEF KeyAccounting, OnePair, Untouched
<1>5. PermitsR(k)' = PermitsR(k) /\ PermitsW(k)' = PermitsW(k) /\ collection'[k] = collection[k]
  BY DEF PermitsR, PermitsW, Untouched
<1>6. ItemsMatched(k)' /\ PlacesMatched(k)'
  BY <1>2, <1>5 DEF KeyAccounting, ItemsMatched, PlacesMatched
<1> QED
  BY <1>3, <1>4, <1>6 DEF KeyAccounting, PointersValid

\* KeyAccounting after a step that changes no count of the key.
LEMMA SameCounts ==
  ASSUME NEW k, KeyAccounting(k), OnePair(k)', PointersValid(k)',
         PermitsR(k)' = PermitsR(k), PermitsW(k)' = PermitsW(k), collection'[k] = collection[k],
         Cardinality(AboutToWrite(k)') = Cardinality(AboutToWrite(k)),
         Cardinality(AboutToNotifyR(k)') = Cardinality(AboutToNotifyR(k)),
         Cardinality(AboutToRead(k)') = Cardinality(AboutToRead(k)),
         Cardinality(AboutToNotifyW(k)') = Cardinality(AboutToNotifyW(k))
  PROVE  KeyAccounting(k)'
<1>1. ItemsMatched(k)'
  BY DEF KeyAccounting, ItemsMatched
<1>2. PlacesMatched(k)'
  BY DEF KeyAccounting, PlacesMatched
<1> QED
  BY <1>1, <1>2 DEF KeyAccounting

LEMMA AbsentIsNoNumber == Absent # 0 /\ Absent # 1
BY DEF Absent

LEMMA AddOne ==
  ASSUME NEW S, IsFiniteSet(S), NEW x, x \notin S
  PROVE  Cardinality(S \cup {x}) = Cardinality(S) + 1
BY FS_AddElement

LEMMA RemoveOne ==
  ASSUME NEW S, IsFiniteSet(S), NEW x, x \in S
  PROVE  Cardinality(S \ {x}) = Cardinality(S) - 1
<1>1. Cardinality(S \ {x}) = IF x \in S THEN Cardinality(S) - 1 ELSE Cardinality(S)
  BY FS_RemoveElement
<1> QED
  BY <1>1

\* The threads counted by KeyAccounting are finitely many.
LEMMA FiniteCounts ==
  ASSUME NEW k
  PROVE  /\ IsFiniteSet(AboutToWrite(k)) /\ IsFiniteSet(AboutToNotifyR(k))
         /\ IsFiniteSet(AboutToRead(k)) /\ IsFiniteSet(AboutToNotifyW(k))
         /\ Cardinality(AboutToWrite(k)) \in Nat /\ Cardinality(AboutToNotifyR(k)) \in Nat
         /\ Cardinality(AboutToRead(k)) \in Nat /\ Cardinality(AboutToNotifyW(k)) \in Nat
<1>1. /\ AboutToWrite(k) \subseteq Producer /\ AboutToNotifyR(k) \subseteq Producer
      /\ AboutToRead(k) \subseteq Consumer /\ AboutToNotifyW(k) \subseteq Consumer
  BY DEF AboutToWrite, AboutToNotifyR, AboutToRead, AboutToNotifyW, Busy
<1>2. /\ IsFiniteSet(AboutToWrite(k)) /\ IsFiniteSet(AboutToNotifyR(k))
      /\ IsFiniteSet(AboutToRead(k)) /\ IsFiniteSet(AboutToNotifyW(k))
  BY <1>1, QueueAssumption, FS_Subset
<1> QED
  BY <1>2, FS_CardinalityType

\* How a step of a producer from pc[p] to l changes the counts of its key.
LEMMA ProducerMove ==
  ASSUME TypeOK, NEW p \in Producer, NEW k, key[p] = k, NEW l,
         key' = key, pc' = [pc EXCEPT ![p] = l]
  PROVE  /\ Cardinality(AboutToRead(k)') = Cardinality(AboutToRead(k))
         /\ Cardinality(AboutToNotifyW(k)') = Cardinality(AboutToNotifyW(k))
         /\ pc[p] = "addKey" /\ l = "loadW" =>
               /\ Cardinality(AboutToWrite(k)') = Cardinality(AboutToWrite(k))
               /\ Cardinality(AboutToNotifyR(k)') = Cardinality(AboutToNotifyR(k))
         /\ pc[p] = "loadW" /\ l = "waitW" =>
               /\ Cardinality(AboutToWrite(k)') = Cardinality(AboutToWrite(k))
               /\ Cardinality(AboutToNotifyR(k)') = Cardinality(AboutToNotifyR(k))
         /\ pc[p] = "waitW" /\ l = "write" =>
               /\ Cardinality(AboutToWrite(k)') = Cardinality(AboutToWrite(k)) + 1
               /\ Cardinality(AboutToNotifyR(k)') = Cardinality(AboutToNotifyR(k))
         /\ pc[p] = "write" /\ l = "loadR" =>
               /\ Cardinality(AboutToWrite(k)') = Cardinality(AboutToWrite(k)) - 1
               /\ Cardinality(AboutToNotifyR(k)') = Cardinality(AboutToNotifyR(k)) + 1
         /\ pc[p] = "loadR" /\ l = "notifyR" =>
               /\ Cardinality(AboutToWrite(k)') = Cardinality(AboutToWrite(k))
               /\ Cardinality(AboutToNotifyR(k)') = Cardinality(AboutToNotifyR(k))
         /\ pc[p] = "notifyR" /\ l = "idle" =>
               /\ Cardinality(AboutToWrite(k)') = Cardinality(AboutToWrite(k))
               /\ Cardinality(AboutToNotifyR(k)') = Cardinality(AboutToNotifyR(k)) - 1
<1>0. p \notin Consumer /\ p \in Thread
  BY QueueAssumption DEF Thread
<1>1. /\ IsFiniteSet(AboutToWrite(k)) /\ IsFiniteSet(AboutToNotifyR(k))
      /\ Cardinality(AboutToWrite(k)) \in Nat /\ Cardinality(AboutToNotifyR(k)) \in Nat
  BY FiniteCounts
<1>2. AboutToRead(k)' = AboutToRead(k) /\ AboutToNotifyW(k)' = AboutToNotifyW(k)
  BY <1>0 DEF AboutToRead, AboutToNotifyW, Busy, TypeOK
<1>4. ASSUME pc[p] = "addKey", l = "loadW"
      PROVE  /\ Cardinality(AboutToWrite(k)') = Cardinality(AboutToWrite(k))
             /\ Cardinality(AboutToNotifyR(k)') = Cardinality(AboutToNotifyR(k))
  <2>1. /\ AboutToWrite(k)' = AboutToWrite(k)
        /\ AboutToNotifyR(k)' = AboutToNotifyR(k)
    BY <1>0, <1>4 DEF AboutToWrite, AboutToNotifyR, Busy, TypeOK
  <2> QED
    BY <1>1, <2>1, AddOne, RemoveOne
<1>5. ASSUME pc[p] = "loadW", l = "waitW"
      PROVE  /\ Cardinality(AboutToWrite(k)') = Cardinality(AboutToWrite(k))
             /\ Cardinality(AboutToNotifyR(k)') = Cardinality(AboutToNotifyR(k))
  <2>1. /\ AboutToWrite(k)' = AboutToWrite(k)
        /\ AboutToNotifyR(k)' = AboutToNotifyR(k)
    BY <1>0, <1>5, SMTT(30) DEF AboutToWrite, AboutToNotifyR, Busy, TypeOK
  <2> QED
    BY <1>1, <2>1, AddOne, RemoveOne, SMTT(30)
<1>6. ASSUME pc[p] = "waitW", l = "write"
      PROVE  /\ Cardinality(AboutToWrite(k)') = Cardinality(AboutToWrite(k)) + 1
             /\ Cardinality(AboutToNotifyR(k)') = Cardinality(AboutToNotifyR(k))
  <2>1. /\ AboutToWrite(k)' = AboutToWrite(k) \cup {p} /\ p \notin AboutToWrite(k)
        /\ AboutToNotifyR(k)' = AboutToNotifyR(k)
    BY <1>0, <1>6, SMTT(30) DEF AboutToWrite, AboutToNotifyR, Busy, TypeOK
  <2> QED
    BY <1>1, <2>1, AddOne, RemoveOne
<1>7. ASSUME pc[p] = "write", l = "loadR"
      PROVE  /\ Cardinality(AboutToWrite(k)') = Cardinality(AboutToWrite(k)) - 1
             /\ Cardinality(AboutToNotifyR(k)') = Cardinality(AboutToNotifyR(k)) + 1
  <2>1. /\ AboutToWrite(k)' = AboutToWrite(k) \ {p} /\ p \in AboutToWrite(k)
        /\ AboutToNotifyR(k)' = AboutToNotifyR(k) \cup {p} /\ p \notin AboutToNotifyR(k)
    BY <1>0, <1>7, SMTT(30) DEF AboutToWrite, AboutToNotifyR, Busy, TypeOK
  <2> QED
    BY <1>1, <2>1, AddOne, RemoveOne
<1>8. ASSUME pc[p] = "loadR", l = "notifyR"
      PROVE  /\ Cardinality(AboutToWrite(k)') = Cardinality(AboutToWrite(k))
             /\ Cardinality(AboutToNotifyR(k)') = Cardinality(AboutToNotifyR(k))
  <2>1. /\ AboutToWrite(k)' = AboutToWrite(k)
        /\ AboutToNotifyR(k)' = AboutToNotifyR(k)
    BY <1>0, <1>8, SMTT(30) DEF AboutToWrite, AboutToNotifyR, Busy, TypeOK
  <2> QED
    BY <1>1, <2>1, AddOne, RemoveOne
<1>9. ASSUME pc[p] = "notifyR", l = "idle"
      PROVE  /\ Cardinality(AboutToWrite(k)') = Cardinality(AboutToWrite(k))
             /\ Cardinality(AboutToNotifyR(k)') = Cardinality(AboutToNotifyR(k)) - 1
  <2>1. /\ AboutToWrite(k)' = AboutToWrite(k)
        /\ AboutToNotifyR(k)' = AboutToNotifyR(k) \ {p} /\ p \in AboutToNotifyR(k)
    BY <1>0, <1>9 DEF AboutToWrite, AboutToNotifyR, Busy, TypeOK
  <2> QED
    BY <1>1, <2>1, AddOne, RemoveOne
<1> QED
  BY <1>2, <1>4, <1>5, <1>6, <1>7, <1>8, <1>9

\* How a step of a consumer from pc[c] to l changes the counts of its key.
LEMMA ConsumerMove ==
  ASSUME TypeOK, NEW c \in Consumer, NEW k, key[c] = k, NEW l,
         key' = key, pc' = [pc EXCEPT ![c] = l]
  PROVE  /\ Cardinality(AboutToWrite(k)') = Cardinality(AboutToWrite(k))
         /\ Cardinality(AboutToNotifyR(k)') = Cardinality(AboutToNotifyR(k))
         /\ pc[c] = "addKey" /\ l = "loadR" =>
               /\ Cardinality(AboutToRead(k)') = Cardinality(AboutToRead(k))
               /\ Cardinality(AboutToNotifyW(k)') = Cardinality(AboutToNotifyW(k))
         /\ pc[c] = "loadR" /\ l = "waitR" =>
               /\ Cardinality(AboutToRead(k)') = Cardinality(AboutToRead(k))
               /\ Cardinality(AboutToNotifyW(k)') = Cardinality(AboutToNotifyW(k))
         /\ pc[c] = "waitR" /\ l = "read" =>
               /\ Cardinality(AboutToRead(k)') = Cardinality(AboutToRead(k)) + 1
               /\ Cardinality(AboutToNotifyW(k)') = Cardinality(AboutToNotifyW(k))
         /\ pc[c] = "read" /\ l = "loadW" =>
               /\ Cardinality(AboutToRead(k)') = Cardinality(AboutToRead(k)) - 1
               /\ Cardinality(AboutToNotifyW(k)') = Cardinality(AboutToNotifyW(k)) + 1
         /\ pc[c] = "loadW" /\ l = "notifyW" =>
               /\ Cardinality(AboutToRead(k)') = Cardinality(AboutToRead(k))
               /\ Cardinality(AboutToNotifyW(k)') = Cardinality(AboutToNotifyW(k))
         /\ pc[c] = "notifyW" /\ l = "idle" =>
               /\ Cardinality(AboutToRead(k)') = Cardinality(AboutToRead(k))
               /\ Cardinality(AboutToNotifyW(k)') = Cardinality(AboutToNotifyW(k)) - 1
<1>0. c \notin Producer /\ c \in Thread
  BY QueueAssumption DEF Thread
<1>1. /\ IsFiniteSet(AboutToRead(k)) /\ IsFiniteSet(AboutToNotifyW(k))
      /\ Cardinality(AboutToRead(k)) \in Nat /\ Cardinality(AboutToNotifyW(k)) \in Nat
  BY FiniteCounts
<1>2. AboutToWrite(k)' = AboutToWrite(k) /\ AboutToNotifyR(k)' = AboutToNotifyR(k)
  BY <1>0 DEF AboutToWrite, AboutToNotifyR, Busy, TypeOK
<1>4. ASSUME pc[c] = "addKey", l = "loadR"
      PROVE  /\ Cardinality(AboutToRead(k)') = Cardinality(AboutToRead(k))
             /\ Cardinality(AboutToNotifyW(k)') = Cardinality(AboutToNotifyW(k))
  <2>1. /\ AboutToRead(k)' = AboutToRead(k)
        /\ AboutToNotifyW(k)' = AboutToNotifyW(k)
    BY <1>0, <1>4 DEF AboutToRead, AboutToNotifyW, Busy, TypeOK
  <2> QED
    BY <1>1, <2>1, AddOne, RemoveOne
<1>5. ASSUME pc[c] = "loadR", l = "waitR"
      PROVE  /\ Cardinality(AboutToRead(k)') = Cardinality(AboutToRead(k))
             /\ Cardinality(AboutToNotifyW(k)') = Cardinality(AboutToNotifyW(k))
  <2>1. /\ AboutToRead(k)' = AboutToRead(k)
        /\ AboutToNotifyW(k)' = AboutToNotifyW(k)
    BY <1>0, <1>5 DEF AboutToRead, AboutToNotifyW, Busy, TypeOK
  <2> QED
    BY <1>1, <2>1, AddOne, RemoveOne
<1>6. ASSUME pc[c] = "waitR", l = "read"
      PROVE  /\ Cardinality(AboutToRead(k)') = Cardinality(AboutToRead(k)) + 1
             /\ Cardinality(AboutToNotifyW(k)') = Cardinality(AboutToNotifyW(k))
  <2>1. /\ AboutToRead(k)' = AboutToRead(k) \cup {c} /\ c \notin AboutToRead(k)
        /\ AboutToNotifyW(k)' = AboutToNotifyW(k)
    BY <1>0, <1>6, SMTT(30) DEF AboutToRead, AboutToNotifyW, Busy, TypeOK
  <2> QED
    BY <1>1, <2>1, AddOne, RemoveOne
<1>7. ASSUME pc[c] = "read", l = "loadW"
      PROVE  /\ Cardinality(AboutToRead(k)') = Cardinality(AboutToRead(k)) - 1
             /\ Cardinality(AboutToNotifyW(k)') = Cardinality(AboutToNotifyW(k)) + 1
  <2>1. /\ AboutToRead(k)' = AboutToRead(k) \ {c} /\ c \in AboutToRead(k)
        /\ AboutToNotifyW(k)' = AboutToNotifyW(k) \cup {c} /\ c \notin AboutToNotifyW(k)
    BY <1>0, <1>7, SMTT(30) DEF AboutToRead, AboutToNotifyW, Busy, TypeOK
  <2> QED
    BY <1>1, <2>1, AddOne, RemoveOne, SMTT(30)
<1>8. ASSUME pc[c] = "loadW", l = "notifyW"
      PROVE  /\ Cardinality(AboutToRead(k)') = Cardinality(AboutToRead(k))
             /\ Cardinality(AboutToNotifyW(k)') = Cardinality(AboutToNotifyW(k))
  <2>1. /\ AboutToRead(k)' = AboutToRead(k)
        /\ AboutToNotifyW(k)' = AboutToNotifyW(k)
    BY <1>0, <1>8, SMTT(30) DEF AboutToRead, AboutToNotifyW, Busy, TypeOK
  <2> QED
    BY <1>1, <2>1, AddOne, RemoveOne
<1>9. ASSUME pc[c] = "notifyW", l = "idle"
      PROVE  /\ Cardinality(AboutToRead(k)') = Cardinality(AboutToRead(k))
             /\ Cardinality(AboutToNotifyW(k)') = Cardinality(AboutToNotifyW(k)) - 1
  <2>1. /\ AboutToRead(k)' = AboutToRead(k)
        /\ AboutToNotifyW(k)' = AboutToNotifyW(k) \ {c} /\ c \in AboutToNotifyW(k)
    BY <1>0, <1>9 DEF AboutToRead, AboutToNotifyW, Busy, TypeOK
  <2> QED
    BY <1>1, <2>1, AddOne, RemoveOne
<1> QED
  BY <1>2, <1>4, <1>5, <1>6, <1>7, <1>8, <1>9, SMTT(30)

\* A step of a thread that works on another key leaves k alone.
LEMMA OtherKey ==
  ASSUME TypeOK, NEW t \in Thread, NEW k \in Key, key[t] # k, key' = key,
         NEW l, pc' = [pc EXCEPT ![t] = l],
         \A u \in Thread \ {t} : UNCHANGED <<pR[u], pW[u]>>,
         \A j \in Key \ {key[t]} :
            UNCHANGED <<semR[j], semW[j], countR[j], countW[j], freedR[j], freedW[j], collection[j]>>
  PROVE  Untouched(k)
BY Zenon DEF Untouched, TypeOK

LEMMA CallAccounting ==
  ASSUME TypeOK, NEW t \in Thread, NEW j \in Key, NEW l, Call(t, j, l), NEW k \in Key,
         l = "addKey" \/ j # k
  PROVE  Untouched(k)
<1>1. /\ UNCHANGED <<collection, semR, semW, countR, countW, freedR, freedW>>
      /\ key' = [key EXCEPT ![t] = j] /\ pc' = [pc EXCEPT ![t] = l]
      /\ pR' = [pR EXCEPT ![t] = 0] /\ pW' = [pW EXCEPT ![t] = 0]
      /\ pc[t] = "idle"
  BY DEF Call, Goto, At, sems, items, Null
<1>2. ASSUME NEW u \in Thread
      PROVE  /\ (pc'[u] \in Active /\ key'[u] = k) <=> (pc[u] \in Active /\ key[u] = k)
             /\ (pc[u] \in Active /\ key[u] = k) => UNCHANGED <<pc[u], pR[u], pW[u]>>
  <2>1. CASE u = t
    BY <1>1, <2>1 DEF TypeOK, Active
  <2>2. CASE u # t
    BY <1>1, <2>2 DEF TypeOK
  <2> QED
    BY <2>1, <2>2, Zenon
<1>3. UNCHANGED <<semR[k], semW[k], countR[k], countW[k], freedR[k], freedW[k], collection[k]>>
  BY <1>1, Zenon
<1> QED
  BY <1>2, <1>3, Zenon DEF Untouched

LEMMA OtherKeyStep ==
  ASSUME TypeOK, NEW t \in Thread, NEW k \in Key, key[t] # k, NEW l,
         \/ AddKey(t, l) \/ LoadR(t, l) \/ LoadW(t, l)
         \/ WaitR(t, l) \/ WaitW(t, l) \/ NotifyR(t, l) \/ NotifyW(t, l)
         \/ Write(t) \/ ReadItem(t) \/ ReadNothing(t)
         \/ UnblockAll(t) \/ EraseR(t) \/ EraseW(t) \/ DeleteR(t) \/ DeleteW(t)
  PROVE  Untouched(k)
<1> DEFINE Others == /\ key' = key
                     /\ \A u \in Thread \ {t} : UNCHANGED <<pR[u], pW[u]>>
                     /\ \A j \in Key \ {key[t]} :
                           UNCHANGED <<semR[j], semW[j], countR[j], countW[j], freedR[j],
                                       freedW[j], collection[j]>>
                     /\ \E m : pc' = [pc EXCEPT ![t] = m]
<1>1. CASE AddKey(t, l)
  <2>1. Others
    <3>1. /\ UNCHANGED <<key, pR, pW, freedR, freedW, collection>>
          /\ pc' = [pc EXCEPT ![t] = l]
      BY <1>1, SMTT(30) DEF AddKey, Goto, items, locals
    <3>2. ASSUME NEW j \in Key \ {key[t]}
          PROVE  UNCHANGED <<semR[j], semW[j], countR[j], countW[j]>>
      <4>1. CASE semR[key[t]] = Absent
        <5>1. /\ \E n : semR' = [semR EXCEPT ![key[t]] = n] /\ semW' = [semW EXCEPT ![key[t]] = n]
              /\ \E r : countR' = [countR EXCEPT ![key[t]] = r]
              /\ \E w : countW' = [countW EXCEPT ![key[t]] = w]
          BY <1>1, <4>1, Zenon DEF AddKey
        <5>2. j \in Key /\ j # key[t]
          BY <3>2
        <5>3. semR'[j] = semR[j] /\ semW'[j] = semW[j]
          BY <5>1, <5>2 DEF TypeOK
        <5>4. countR'[j] = countR[j]
          BY <5>1, <5>2 DEF TypeOK
        <5>5. countW'[j] = countW[j]
          BY <5>1, <5>2 DEF TypeOK
        <5> QED BY <5>3, <5>4, <5>5, Zenon
      <4>2. CASE semR[key[t]] # Absent
        BY <1>1, <4>2, SMTT(30) DEF AddKey
      <4> QED BY <4>1, <4>2, Zenon
    <3> QED BY <3>1, <3>2, Zenon
  <2> QED BY <2>1, OtherKey, ZenonT(30)
<1>2. CASE LoadR(t, l)
  <2>1. Others BY <1>2, Zenon DEF LoadR, Goto, items, TypeOK
  <2> QED BY <2>1, OtherKey, ZenonT(30)
<1>3. CASE LoadW(t, l)
  <2>1. Others BY <1>3, Zenon DEF LoadW, Goto, items, TypeOK
  <2> QED BY <2>1, OtherKey, ZenonT(30)
<1>4. CASE WaitR(t, l) \/ NotifyR(t, l)
  <2>1. Others BY <1>4, Zenon DEF WaitR, NotifyR, Goto, items, TypeOK
  <2> QED BY <2>1, OtherKey, ZenonT(30)
<1>5. CASE WaitW(t, l) \/ NotifyW(t, l)
  <2>1. Others BY <1>5, Zenon DEF WaitW, NotifyW, Goto, items, TypeOK
  <2> QED BY <2>1, OtherKey, ZenonT(30)
<1>6. CASE Write(t)
  <2>1. Others BY <1>6, Zenon DEF Write, Goto, sems, locals, TypeOK
  <2> QED BY <2>1, OtherKey, ZenonT(30)
<1>7. CASE ReadItem(t) \/ ReadNothing(t)
  <2>1. Others
    <3>1. CASE ReadItem(t)
      BY <3>1, ZenonT(30) DEF ReadItem, Goto, sems, locals, TypeOK
    <3>2. CASE ReadNothing(t)
      BY <3>2, ZenonT(30) DEF ReadNothing, Goto, sems, locals
    <3> QED BY <1>7, <3>1, <3>2, Zenon
  <2> QED BY <2>1, OtherKey, ZenonT(30)
<1>8. CASE UnblockAll(t) \/ EraseR(t) \/ EraseW(t)
  <2>1. Others BY <1>8, Zenon DEF UnblockAll, EraseR, EraseW, Goto, items, locals, TypeOK
  <2> QED BY <2>1, OtherKey, ZenonT(30)
<1>9. CASE DeleteR(t) \/ DeleteW(t)
  <2>1. Others BY <1>9, ZenonT(30) DEF DeleteR, DeleteW, Goto, items, TypeOK
  <2> QED BY <2>1, OtherKey, ZenonT(30)
<1> QED
  BY <1>1, <1>2, <1>3, <1>4, <1>5, <1>6, <1>7, <1>8, <1>9, SMTT(30)

\* The pointers of a key that was never erased stay valid in a step of one
\* of its threads, if that thread's own pointer is.
LEMMA PointersStep ==
  ASSUME TypeOK, NEW t \in Thread, NEW k \in Key, key[t] = k, KeyAccounting(k),
         key' = key, NEW l, pc' = [pc EXCEPT ![t] = l],
         \A u \in Thread \ {t} : UNCHANGED <<pR[u], pW[u]>>,
         semR'[k] = semR[k] \/ semR[k] = Absent,
         HoldsValidPointer(t, k)'
  PROVE  PointersValid(k)'
<1> SUFFICES ASSUME NEW u \in Thread, key[u] = k, u # t
             PROVE  HoldsValidPointer(u, k)'
  BY DEF PointersValid
<1>1. pc'[u] = pc[u] /\ pR'[u] = pR[u] /\ pW'[u] = pW[u]
  BY DEF TypeOK
<1>2. HoldsValidPointer(u, k)
  BY DEF KeyAccounting, PointersValid
<1>3. pc[u] \notin {"idle", "addKey"} => semR'[k] = 1
  BY <1>2, AbsentIsNoNumber DEF HoldsValidPointer
<1> QED
  BY <1>1, <1>2, <1>3 DEF HoldsValidPointer, UsesR, UsesW

LEMMA AddKeyAccounting ==
  ASSUME TypeOK, NEW t \in Producer \cup Consumer, NEW k \in Key, key[t] = k, KeyAccounting(k),
         NEW l, AddKey(t, l), l = (IF t \in Producer THEN "loadW" ELSE "loadR")
  PROVE  KeyAccounting(k)'
<1>0. /\ t \in Thread /\ t \notin Eraser /\ pc[t] = "addKey"
      /\ key' = key /\ pR' = pR /\ pW' = pW
      /\ pc' = [pc EXCEPT ![t] = l]
      /\ UNCHANGED <<collection, freedR, freedW>>
  BY QueueAssumption DEF Thread, AddKey, At, Goto, items, locals
<1>1. /\ Cardinality(AboutToWrite(k)') = Cardinality(AboutToWrite(k))
      /\ Cardinality(AboutToNotifyR(k)') = Cardinality(AboutToNotifyR(k))
      /\ Cardinality(AboutToRead(k)') = Cardinality(AboutToRead(k))
      /\ Cardinality(AboutToNotifyW(k)') = Cardinality(AboutToNotifyW(k))
  <2>1. CASE t \in Producer
    BY <1>0, <2>1, ProducerMove, Zenon
  <2>2. CASE t \in Consumer
    BY <1>0, <2>2, ConsumerMove, QueueAssumption, Zenon
  <2> QED
    BY <2>1, <2>2
<1>2. CASE semR[k] = Absent
  <2>1. /\ Len(countR[k]) = 0 /\ Len(countW[k]) = 0 /\ semW[k] = Absent
        /\ countR[k] \in Seq(Nat) /\ countW[k] \in Seq(Nat)
    BY <1>2 DEF KeyAccounting, OnePair, TypeOK
  <2>2. /\ semR'[k] = 1 /\ semW'[k] = 1
        /\ countR'[k] = Append(countR[k], 0)
        /\ countW'[k] = Append(countW[k], MaxSize - 1)
    <3>1. /\ Len(countR[k]) + 1 = 1 /\ Len(countW[k]) + 1 = 1
      BY <2>1
    <3> QED
      BY <1>2, <2>1, <3>1, SMTT(30) DEF AddKey, TypeOK
  <2>3. /\ Len(countR'[k]) = 1 /\ countR'[k][1] = 0 /\ countW'[k][1] = MaxSize - 1
    <3>1. MaxSize - 1 \in Nat
      BY QueueAssumption
    <3>2. Len(countR'[k]) = 1 /\ countR'[k][1] = 0
      BY <2>1, <2>2
    <3>3. countW'[k][1] = MaxSize - 1
      BY <2>1, <2>2, <3>1
    <3> QED
      BY <3>2, <3>3
  <2>4. HoldsValidPointer(t, k)'
    BY <1>0, <2>2, SMTT(30) DEF HoldsValidPointer, UsesR, UsesW, TypeOK
  <2>5. PointersValid(k)'
    BY <1>0, <1>2, <2>4, PointersStep, Zenon
  <2>6. PermitsR(k)' = PermitsR(k) /\ PermitsW(k)' = PermitsW(k)
    BY <1>2, <2>1, <2>2, <2>3, AbsentIsNoNumber, SMTT(30) DEF PermitsR, PermitsW
  <2>7. freedR[k] = {} /\ freedW[k] = {}
    BY DEF KeyAccounting, OnePair
  <2>8. OnePair(k)'
    BY <1>0, <2>2, <2>3, <2>7, AbsentIsNoNumber, SMTT(30) DEF OnePair
  <2> QED
    BY <1>0, <1>1, <2>5, <2>6, <2>8, SameCounts, Zenon
<1>3. CASE semR[k] # Absent
  <2>1. UNCHANGED <<semR, semW, countR, countW>> /\ semR[k] = 1
    <3>1. UNCHANGED <<semR, semW, countR, countW>>
      BY <1>3, Zenon DEF AddKey
    <3> QED BY <1>3, <3>1 DEF KeyAccounting, OnePair
  <2>2. HoldsValidPointer(t, k)'
    BY <1>0, <2>1 DEF HoldsValidPointer, UsesR, UsesW, TypeOK
  <2>3. PointersValid(k)'
    BY <1>0, <2>1, <2>2, PointersStep, Zenon
  <2>4. OnePair(k)'
    BY <1>0, <2>1 DEF KeyAccounting, OnePair
  <2>5. PermitsR(k)' = PermitsR(k) /\ PermitsW(k)' = PermitsW(k)
    BY <2>1 DEF PermitsR, PermitsW
  <2> QED
    BY <1>0, <1>1, <2>3, <2>4, <2>5, SameCounts, Zenon
<1> QED
  BY <1>2, <1>3

\* The load of a key's semaphore pointer, which is there already.
LEMMA LoadAccounting ==
  ASSUME TypeOK, NEW t \in Producer \cup Consumer, NEW k \in Key, key[t] = k, KeyAccounting(k),
         \/ t \in Producer /\ LoadW(t, "waitW")
         \/ t \in Producer /\ LoadR(t, "notifyR")
         \/ t \in Consumer /\ LoadR(t, "waitR")
         \/ t \in Consumer /\ LoadW(t, "notifyW")
  PROVE  KeyAccounting(k)'
<1> DEFINE L == {"waitW", "notifyR", "waitR", "notifyW"}
<1>0. t \in Thread /\ t \notin Eraser
  BY QueueAssumption DEF Thread
<1>1. semR[k] = 1 /\ semW[k] = 1
  <2>1. pc[t] \notin {"idle", "addKey"}
    <3>1. pc[t] \in {"loadR", "loadW"}
      BY Zenon DEF LoadR, LoadW, At
    <3> QED
      BY <3>1
  <2> QED
    BY <1>0, <2>1, ZenonT(30) DEF KeyAccounting, OnePair, PointersValid, HoldsValidPointer
<1>2. /\ key' = key /\ UNCHANGED <<collection, freedR, freedW, countR, countW>>
      /\ semR' = semR /\ semW' = semW
      /\ \A u \in Thread \ {t} : UNCHANGED <<pR[u], pW[u]>>
  <2>1. Loaded(semR[k]) = semR[k] /\ Loaded(semW[k]) = semW[k]
    BY <1>1, AbsentIsNoNumber DEF Loaded
  <2>2. CASE LoadR(t, "notifyR") \/ LoadR(t, "waitR")
    <3>1. /\ semR' = [semR EXCEPT ![k] = semR[k]] /\ pR' = [pR EXCEPT ![t] = semR[k]]
          /\ UNCHANGED <<semW, pW, key, collection, freedR, freedW, countR, countW>>
      BY <2>1, <2>2, Zenon DEF LoadR, items
    <3>2. semR' = semR
      BY <3>1, SMTT(30) DEF TypeOK
    <3>3. \A u \in Thread \ {t} : pR'[u] = pR[u]
      BY <3>1, SMTT(30) DEF TypeOK
    <3> QED
      BY <3>1, <3>2, <3>3, Zenon
  <2>3. CASE LoadW(t, "waitW") \/ LoadW(t, "notifyW")
    <3>1. /\ semW' = [semW EXCEPT ![k] = semW[k]] /\ pW' = [pW EXCEPT ![t] = semW[k]]
          /\ UNCHANGED <<semR, pR, key, collection, freedR, freedW, countR, countW>>
      BY <2>1, <2>3, Zenon DEF LoadW, items
    <3>2. semW' = semW
      BY <3>1, SMTT(30) DEF TypeOK
    <3>3. \A u \in Thread \ {t} : pW'[u] = pW[u]
      BY <3>1, SMTT(30) DEF TypeOK
    <3> QED
      BY <3>1, <3>2, <3>3, Zenon
  <2> QED
    BY <2>2, <2>3, Zenon
<1>3. ASSUME NEW l, pc' = [pc EXCEPT ![t] = l], HoldsValidPointer(t, k)',
             /\ Cardinality(AboutToWrite(k)') = Cardinality(AboutToWrite(k))
             /\ Cardinality(AboutToNotifyR(k)') = Cardinality(AboutToNotifyR(k))
             /\ Cardinality(AboutToRead(k)') = Cardinality(AboutToRead(k))
             /\ Cardinality(AboutToNotifyW(k)') = Cardinality(AboutToNotifyW(k))
      PROVE  KeyAccounting(k)'
  <2>1. PointersValid(k)'
    BY <1>0, <1>2, <1>3, PointersStep, Zenon
  <2>2. OnePair(k)'
    BY <1>2 DEF KeyAccounting, OnePair
  <2>3. PermitsR(k)' = PermitsR(k) /\ PermitsW(k)' = PermitsW(k)
    BY <1>2 DEF PermitsR, PermitsW
  <2> QED
    BY <1>2, <1>3, <2>1, <2>2, <2>3, SameCounts, Zenon
<1>4. CASE t \in Producer /\ LoadW(t, "waitW")
  <2>1. pc[t] = "loadW" /\ pc' = [pc EXCEPT ![t] = "waitW"] /\ pW'[t] = 1
    <3>1. pc[t] = "loadW" /\ pc' = [pc EXCEPT ![t] = "waitW"] /\ pW' = [pW EXCEPT ![t] = 1]
      BY <1>1, <1>4, AbsentIsNoNumber, Zenon DEF LoadW, At, Goto, Loaded
    <3> QED
      BY <1>0, <3>1, SMTT(30) DEF TypeOK
  <2>2. HoldsValidPointer(t, k)'
    <3>1. pc'[t] = "waitW"
      BY <1>0, <2>1, Zenon DEF TypeOK
    <3> QED BY <1>0, <1>1, <1>2, <2>1, <3>1 DEF HoldsValidPointer, UsesR, UsesW
  <2> QED BY <1>2, <1>3, <1>4, <2>1, <2>2, ProducerMove, Zenon
<1>5. CASE t \in Producer /\ LoadR(t, "notifyR")
  <2>1. pc[t] = "loadR" /\ pc' = [pc EXCEPT ![t] = "notifyR"] /\ pR'[t] = 1
    <3>1. pc[t] = "loadR" /\ pc' = [pc EXCEPT ![t] = "notifyR"] /\ pR' = [pR EXCEPT ![t] = 1]
      BY <1>1, <1>5, AbsentIsNoNumber, Zenon DEF LoadR, At, Goto, Loaded
    <3> QED
      BY <1>0, <3>1 DEF TypeOK
  <2>2. HoldsValidPointer(t, k)'
    <3>1. pc'[t] = "notifyR"
      BY <1>0, <2>1, Zenon DEF TypeOK
    <3> QED BY <1>0, <1>1, <1>2, <2>1, <3>1 DEF HoldsValidPointer, UsesR, UsesW
  <2> QED BY <1>2, <1>3, <1>5, <2>1, <2>2, ProducerMove, Zenon
<1>6. CASE t \in Consumer /\ LoadR(t, "waitR")
  <2>1. pc[t] = "loadR" /\ pc' = [pc EXCEPT ![t] = "waitR"] /\ pR'[t] = 1
    <3>1. pc[t] = "loadR" /\ pc' = [pc EXCEPT ![t] = "waitR"] /\ pR' = [pR EXCEPT ![t] = 1]
      BY <1>1, <1>6, AbsentIsNoNumber, Zenon DEF LoadR, At, Goto, Loaded
    <3> QED
      BY <1>0, <3>1 DEF TypeOK
  <2>2. HoldsValidPointer(t, k)'
    <3>1. pc'[t] = "waitR"
      BY <1>0, <2>1, Zenon DEF TypeOK
    <3> QED BY <1>0, <1>1, <1>2, <2>1, <3>1 DEF HoldsValidPointer, UsesR, UsesW
  <2> QED BY <1>2, <1>3, <1>6, <2>1, <2>2, ConsumerMove, Zenon
<1>7. CASE t \in Consumer /\ LoadW(t, "notifyW")
  <2>1. pc[t] = "loadW" /\ pc' = [pc EXCEPT ![t] = "notifyW"] /\ pW'[t] = 1
    <3>1. pc[t] = "loadW" /\ pc' = [pc EXCEPT ![t] = "notifyW"] /\ pW' = [pW EXCEPT ![t] = 1]
      BY <1>1, <1>7, AbsentIsNoNumber, Zenon DEF LoadW, At, Goto, Loaded
    <3> QED
      BY <1>0, <3>1, SMTT(30) DEF TypeOK
  <2>2. HoldsValidPointer(t, k)'
    <3>1. pc'[t] = "notifyW"
      BY <1>0, <2>1, Zenon DEF TypeOK
    <3> QED BY <1>0, <1>1, <1>2, <2>1, <3>1 DEF HoldsValidPointer, UsesR, UsesW
  <2> QED BY <1>2, <1>3, <1>7, <2>1, <2>2, ConsumerMove, Zenon
<1> QED
  BY <1>4, <1>5, <1>6, <1>7

\* KeyAccounting of a key whose semaphores are allocated, with its counts.
LEMMA Counted ==
  ASSUME TypeOK, NEW k \in Key, KeyAccounting(k), semR[k] = 1
  PROVE  /\ collection[k] \in Seq(Nat) /\ countR[k] \in Seq(Nat) /\ countW[k] \in Seq(Nat)
         /\ Len(countR[k]) = 1 /\ Len(countW[k]) = 1
         /\ countR[k][1] \in Nat /\ countW[k][1] \in Nat /\ Len(collection[k]) \in Nat
         /\ countR[k][1] + Cardinality(AboutToNotifyR(k)) + Cardinality(AboutToRead(k))
               = Len(collection[k])
         /\ countW[k][1] + Cardinality(AboutToWrite(k)) + Cardinality(AboutToNotifyW(k))
               + Len(collection[k]) = MaxSize - 1
<1>1. /\ collection[k] \in Seq(Nat) /\ countR[k] \in Seq(Nat) /\ countW[k] \in Seq(Nat)
      /\ Len(countW[k]) = Len(countR[k])
  BY DEF TypeOK
<1>2. Len(countR[k]) = 1 /\ semR[k] # Absent /\ semW[k] # Absent
  BY AbsentIsNoNumber DEF KeyAccounting, OnePair
<1>3. countR[k][1] \in Nat /\ countW[k][1] \in Nat /\ Len(collection[k]) \in Nat
  BY <1>1, <1>2
<1>4. PermitsR(k) = countR[k][1] /\ PermitsW(k) = countW[k][1]
  BY <1>2 DEF PermitsR, PermitsW
<1>5. ItemsMatched(k) /\ PlacesMatched(k)
  BY DEF KeyAccounting
<1>6. Len(countW[k]) = 1
  BY <1>1, <1>2, Zenon
<1> QED
  BY <1>1, <1>2, <1>3, <1>4, <1>5, <1>6, Zenon DEF ItemsMatched, PlacesMatched

\* KeyAccounting after a step that keeps the key's semaphores, from its counts.
LEMMA Recounted ==
  ASSUME NEW k, KeyAccounting(k), semR[k] = 1, UNCHANGED <<semR, semW, freedR, freedW>>,
         Len(countR'[k]) = 1,
         PointersValid(k)',
         countR'[k][1] + Cardinality(AboutToNotifyR(k)') + Cardinality(AboutToRead(k)')
            = Len(collection'[k]),
         countW'[k][1] + Cardinality(AboutToWrite(k)') + Cardinality(AboutToNotifyW(k)')
            + Len(collection'[k]) = MaxSize - 1
  PROVE  KeyAccounting(k)'
<1>1. semR'[k] = 1 /\ semW'[k] = 1 /\ freedR'[k] = {} /\ freedW'[k] = {}
  BY Zenon DEF KeyAccounting, OnePair
<1>2. OnePair(k)'
  BY <1>1, AbsentIsNoNumber DEF OnePair
<1>3. PermitsR(k)' = countR'[k][1] /\ PermitsW(k)' = countW'[k][1]
  BY <1>1, AbsentIsNoNumber DEF PermitsR, PermitsW
<1>4. ItemsMatched(k)'
  BY <1>3 DEF ItemsMatched
<1>5. PlacesMatched(k)'
  BY <1>3 DEF PlacesMatched
<1> QED
  BY <1>2, <1>4, <1>5 DEF KeyAccounting

\* A semaphore operation moves one unit between two terms of an equation of
\* KeyAccounting.
LEMMA UnitMovedR ==
  ASSUME NEW k, NEW n \in Nat, NEW m,
         Cardinality(AboutToNotifyR(k)) \in Nat, Cardinality(AboutToRead(k)) \in Nat,
         \/ /\ m = n + 1
            /\ Cardinality(AboutToNotifyR(k)') = Cardinality(AboutToNotifyR(k)) - 1
            /\ Cardinality(AboutToRead(k)') = Cardinality(AboutToRead(k))
         \/ /\ m = n - 1
            /\ Cardinality(AboutToNotifyR(k)') = Cardinality(AboutToNotifyR(k))
            /\ Cardinality(AboutToRead(k)') = Cardinality(AboutToRead(k)) + 1
  PROVE  m + Cardinality(AboutToNotifyR(k)') + Cardinality(AboutToRead(k)')
            = n + Cardinality(AboutToNotifyR(k)) + Cardinality(AboutToRead(k))
OBVIOUS

LEMMA UnitMovedW ==
  ASSUME NEW k, NEW n \in Nat, NEW m,
         Cardinality(AboutToWrite(k)) \in Nat, Cardinality(AboutToNotifyW(k)) \in Nat,
         \/ /\ m = n - 1
            /\ Cardinality(AboutToWrite(k)') = Cardinality(AboutToWrite(k)) + 1
            /\ Cardinality(AboutToNotifyW(k)') = Cardinality(AboutToNotifyW(k))
         \/ /\ m = n + 1
            /\ Cardinality(AboutToWrite(k)') = Cardinality(AboutToWrite(k))
            /\ Cardinality(AboutToNotifyW(k)') = Cardinality(AboutToNotifyW(k)) - 1
  PROVE  m + Cardinality(AboutToWrite(k)') + Cardinality(AboutToNotifyW(k)')
            = n + Cardinality(AboutToWrite(k)) + Cardinality(AboutToNotifyW(k))
OBVIOUS

\* The two equations of KeyAccounting after a write or a read, which changes
\* the number of items by d.
LEMMA ReadableCounts ==
  ASSUME NEW k, NEW r \in Nat, Len(collection[k]) \in Nat, NEW d \in {-1, 1},
         Cardinality(AboutToNotifyR(k)) \in Nat, Cardinality(AboutToRead(k)) \in Nat,
         r + Cardinality(AboutToNotifyR(k)) + Cardinality(AboutToRead(k)) = Len(collection[k]),
         Len(collection'[k]) = Len(collection[k]) + d,
         \/ /\ d = 1
            /\ Cardinality(AboutToNotifyR(k)') = Cardinality(AboutToNotifyR(k)) + 1
            /\ Cardinality(AboutToRead(k)') = Cardinality(AboutToRead(k))
         \/ /\ d = -1
            /\ Cardinality(AboutToNotifyR(k)') = Cardinality(AboutToNotifyR(k))
            /\ Cardinality(AboutToRead(k)') = Cardinality(AboutToRead(k)) - 1
  PROVE  r + Cardinality(AboutToNotifyR(k)') + Cardinality(AboutToRead(k)')
            = Len(collection'[k])
<1>1. CASE d = 1
  <2>1. /\ Cardinality(AboutToNotifyR(k)') = Cardinality(AboutToNotifyR(k)) + 1
        /\ Cardinality(AboutToRead(k)') = Cardinality(AboutToRead(k))
        /\ Len(collection'[k]) = Len(collection[k]) + 1
    BY <1>1
  <2> QED BY <2>1, SMTT(30)
<1>2. CASE d = -1
  <2>1. /\ Cardinality(AboutToNotifyR(k)') = Cardinality(AboutToNotifyR(k))
        /\ Cardinality(AboutToRead(k)') = Cardinality(AboutToRead(k)) - 1
        /\ Len(collection'[k]) = Len(collection[k]) - 1
    BY <1>2
  <2> QED BY <2>1, SMTT(30)
<1> QED BY <1>1, <1>2

LEMMA WritableCounts ==
  ASSUME NEW k, NEW w \in Nat, Len(collection[k]) \in Nat, MaxSize \in Nat, NEW d \in {-1, 1},
         Cardinality(AboutToWrite(k)) \in Nat, Cardinality(AboutToNotifyW(k)) \in Nat,
         w + Cardinality(AboutToWrite(k)) + Cardinality(AboutToNotifyW(k))
            + Len(collection[k]) = MaxSize - 1,
         Len(collection'[k]) = Len(collection[k]) + d,
         \/ /\ d = 1
            /\ Cardinality(AboutToWrite(k)') = Cardinality(AboutToWrite(k)) - 1
            /\ Cardinality(AboutToNotifyW(k)') = Cardinality(AboutToNotifyW(k))
         \/ /\ d = -1
            /\ Cardinality(AboutToWrite(k)') = Cardinality(AboutToWrite(k))
            /\ Cardinality(AboutToNotifyW(k)') = Cardinality(AboutToNotifyW(k)) + 1
  PROVE  w + Cardinality(AboutToWrite(k)') + Cardinality(AboutToNotifyW(k)')
            + Len(collection'[k]) = MaxSize - 1
<1>1. CASE d = 1
  <2>1. /\ Cardinality(AboutToWrite(k)') = Cardinality(AboutToWrite(k)) - 1
        /\ Cardinality(AboutToNotifyW(k)') = Cardinality(AboutToNotifyW(k))
        /\ Len(collection'[k]) = Len(collection[k]) + 1
    BY <1>1
  <2> QED BY <2>1
<1>2. CASE d = -1
  <2>1. /\ Cardinality(AboutToWrite(k)') = Cardinality(AboutToWrite(k))
        /\ Cardinality(AboutToNotifyW(k)') = Cardinality(AboutToNotifyW(k)) + 1
        /\ Len(collection'[k]) = Len(collection[k]) - 1
    BY <1>2
  <2> QED BY <2>1
<1> QED BY <1>1, <1>2

\* The semaphore operations and the queue accesses of a producer.
LEMMA ProducerAccounting ==
  ASSUME TypeOK, TypeOK', NEW p \in Producer, NEW k \in Key, key[p] = k, KeyAccounting(k),
         WaitW(p, "write") \/ Write(p) \/ NotifyR(p, "idle")
  PROVE  KeyAccounting(k)'
<1>0. p \in Thread /\ p \notin Eraser
  BY QueueAssumption DEF Thread
<1>1. semR[k] = 1 /\ semW[k] = 1 /\ (UsesR(p) => pR[p] = 1) /\ (UsesW(p) => pW[p] = 1)
  <2>1. pc[p] \notin {"idle", "addKey"}
    BY DEF WaitW, Write, NotifyR, At
  <2> QED
    BY <1>0, <2>1, ZenonT(30) DEF KeyAccounting, OnePair, PointersValid, HoldsValidPointer
<1>2. /\ key' = key /\ UNCHANGED <<semR, semW, freedR, freedW>>
      /\ \A u \in Thread \ {p} : UNCHANGED <<pR[u], pW[u]>>
  BY Zenon DEF WaitW, Write, NotifyR, sems, locals, TypeOK
<1>3. /\ Cardinality(AboutToWrite(k)) \in Nat /\ Cardinality(AboutToNotifyR(k)) \in Nat
      /\ Cardinality(AboutToRead(k)) \in Nat /\ Cardinality(AboutToNotifyW(k)) \in Nat
  BY FiniteCounts
<1>4. /\ collection[k] \in Seq(Nat) /\ countR[k] \in Seq(Nat) /\ countW[k] \in Seq(Nat)
      /\ Len(countR[k]) = 1 /\ Len(countW[k]) = 1
      /\ countR[k][1] \in Nat /\ countW[k][1] \in Nat /\ Len(collection[k]) \in Nat
      /\ MaxSize \in Nat
  BY <1>1, Counted, QueueAssumption, Zenon
<1>r. countR[k][1] + Cardinality(AboutToNotifyR(k)) + Cardinality(AboutToRead(k))
         = Len(collection[k])
  BY <1>1, Counted, Zenon
<1>w. countW[k][1] + Cardinality(AboutToWrite(k)) + Cardinality(AboutToNotifyW(k))
         + Len(collection[k]) = MaxSize - 1
  BY <1>1, Counted, Zenon
<1>5. CASE WaitW(p, "write")
  <2>1. pc[p] = "waitW" /\ pc' = [pc EXCEPT ![p] = "write"] /\ pW[p] = 1
    BY <1>1, <1>5 DEF WaitW, At, Goto, UsesW
  <2>2. /\ countW'[k][1] = countW[k][1] - 1 /\ Len(countW'[k]) = 1
        /\ UNCHANGED <<countR, collection>>
    <3>1. /\ countW' = [countW EXCEPT ![k][1] = @ - 1]
          /\ UNCHANGED <<countR, collection>>
      BY <1>5, <2>1, Zenon DEF WaitW, items
    <3>2. countW'[k] = [countW[k] EXCEPT ![1] = @ - 1]
      BY <3>1, SMTT(30) DEF TypeOK
    <3> QED
      BY <1>4, <3>1, <3>2
  <2>3. HoldsValidPointer(p, k)'
    BY <1>0, <1>1, <1>2, <2>1, ZenonT(30) DEF HoldsValidPointer, UsesR, UsesW, TypeOK
  <2>4. PointersValid(k)'
    BY <1>0, <1>2, <2>1, <2>3, PointersStep, Zenon
  <2>5. /\ Cardinality(AboutToWrite(k)') = Cardinality(AboutToWrite(k)) + 1
        /\ Cardinality(AboutToNotifyR(k)') = Cardinality(AboutToNotifyR(k))
        /\ Cardinality(AboutToRead(k)') = Cardinality(AboutToRead(k))
        /\ Cardinality(AboutToNotifyW(k)') = Cardinality(AboutToNotifyW(k))
    BY <1>2, <2>1, ProducerMove, Zenon
  <2>6. Len(countR'[k]) = 1
    BY <1>4, <2>2, Zenon
  <2>r. countR'[k][1] + Cardinality(AboutToNotifyR(k)') + Cardinality(AboutToRead(k)')
           = Len(collection'[k])
    BY <1>r, <2>2, <2>5, Zenon
  <2>w. countW'[k][1] + Cardinality(AboutToWrite(k)') + Cardinality(AboutToNotifyW(k)')
           + Len(collection'[k]) = MaxSize - 1
    <3>1. countW'[k][1] + Cardinality(AboutToWrite(k)') + Cardinality(AboutToNotifyW(k)')
             = countW[k][1] + Cardinality(AboutToWrite(k)) + Cardinality(AboutToNotifyW(k))
      BY <1>3, <1>4, <2>2, <2>5, UnitMovedW, ZenonT(60)
    <3> QED BY <1>w, <2>2, <3>1, Zenon
  <2> QED
    BY <1>1, <1>2, <2>4, <2>6, <2>r, <2>w, Recounted, ZenonT(30)
<1>6. CASE Write(p)
  <2>1. pc[p] = "write" /\ pc' = [pc EXCEPT ![p] = "loadR"]
    BY <1>6 DEF Write, At, Goto
  <2>2. /\ Len(collection'[k]) = Len(collection[k]) + 1 /\ collection'[k] \in Seq(Nat)
        /\ UNCHANGED <<countR, countW>>
    BY <1>4, <1>6, SMTT(30) DEF Write, sems, TypeOK
  <2>3. HoldsValidPointer(p, k)'
    BY <1>0, <1>1, <1>2, <2>1, ZenonT(30) DEF HoldsValidPointer, UsesR, UsesW, TypeOK
  <2>4. PointersValid(k)'
    BY <1>0, <1>2, <2>1, <2>3, PointersStep, Zenon
  <2>5. /\ Cardinality(AboutToWrite(k)') = Cardinality(AboutToWrite(k)) - 1
        /\ Cardinality(AboutToNotifyR(k)') = Cardinality(AboutToNotifyR(k)) + 1
        /\ Cardinality(AboutToRead(k)') = Cardinality(AboutToRead(k))
        /\ Cardinality(AboutToNotifyW(k)') = Cardinality(AboutToNotifyW(k))
    BY <1>2, <2>1, ProducerMove, Zenon
  <2>6. Len(countR'[k]) = 1
    BY <1>4, <2>2, Zenon
  <2>r. countR'[k][1] + Cardinality(AboutToNotifyR(k)') + Cardinality(AboutToRead(k)')
           = Len(collection'[k])
    BY <1>3, <1>4, <1>r, <2>2, <2>5, ReadableCounts, Zenon
  <2>w. countW'[k][1] + Cardinality(AboutToWrite(k)') + Cardinality(AboutToNotifyW(k)')
           + Len(collection'[k]) = MaxSize - 1
    BY <1>3, <1>4, <1>w, <2>2, <2>5, WritableCounts, Zenon
  <2> QED
    BY <1>1, <1>2, <2>4, <2>6, <2>r, <2>w, Recounted, Zenon
<1>7. CASE NotifyR(p, "idle")
  <2>1. pc[p] = "notifyR" /\ pc' = [pc EXCEPT ![p] = "idle"] /\ pR[p] = 1
    BY <1>1, <1>7 DEF NotifyR, At, Goto, UsesR
  <2>2. /\ countR'[k][1] = countR[k][1] + 1 /\ Len(countR'[k]) = 1
        /\ UNCHANGED <<countW, collection>>
    <3>1. /\ countR' = [countR EXCEPT ![k][1] = @ + 1]
          /\ UNCHANGED <<countW, collection>>
      BY <1>7, <2>1, Zenon DEF NotifyR, items
    <3>2. countR'[k] = [countR[k] EXCEPT ![1] = @ + 1]
      BY <3>1, SMTT(30) DEF TypeOK
    <3> QED
      BY <1>4, <3>1, <3>2
  <2>3. HoldsValidPointer(p, k)'
    BY <1>0, <1>1, <1>2, <2>1, ZenonT(30) DEF HoldsValidPointer, UsesR, UsesW, TypeOK
  <2>4. PointersValid(k)'
    BY <1>0, <1>2, <2>1, <2>3, PointersStep, Zenon
  <2>5. /\ Cardinality(AboutToWrite(k)') = Cardinality(AboutToWrite(k))
        /\ Cardinality(AboutToNotifyR(k)') = Cardinality(AboutToNotifyR(k)) - 1
        /\ Cardinality(AboutToRead(k)') = Cardinality(AboutToRead(k))
        /\ Cardinality(AboutToNotifyW(k)') = Cardinality(AboutToNotifyW(k))
    BY <1>2, <2>1, ProducerMove, Zenon
  <2>6. Len(countR'[k]) = 1
    BY <1>4, <2>2, Zenon
  <2>r. countR'[k][1] + Cardinality(AboutToNotifyR(k)') + Cardinality(AboutToRead(k)')
           = Len(collection'[k])
    <3>1. countR'[k][1] + Cardinality(AboutToNotifyR(k)') + Cardinality(AboutToRead(k)')
             = countR[k][1] + Cardinality(AboutToNotifyR(k)) + Cardinality(AboutToRead(k))
      BY <1>3, <1>4, <2>2, <2>5, UnitMovedR, ZenonT(60)
    <3> QED BY <1>r, <2>2, <3>1, Zenon
  <2>w. countW'[k][1] + Cardinality(AboutToWrite(k)') + Cardinality(AboutToNotifyW(k)')
           + Len(collection'[k]) = MaxSize - 1
    BY <1>w, <2>2, <2>5, Zenon
  <2> QED
    BY <1>1, <1>2, <2>4, <2>6, <2>r, <2>w, Recounted, Zenon
<1> QED
  BY <1>5, <1>6, <1>7

\* A consumer past its semaphore finds an item.
LEMMA ReaderFindsItem ==
  ASSUME TypeOK, NEW c \in Consumer, NEW k \in Key, key[c] = k, KeyAccounting(k), pc[c] = "read"
  PROVE  collection[k] # <<>>
<1>1. c \in Thread
  BY DEF Thread
<1>2. semR[k] = 1
  BY <1>1 DEF KeyAccounting, PointersValid, HoldsValidPointer
<1>3. /\ countR[k][1] \in Nat /\ collection[k] \in Seq(Nat)
      /\ countR[k][1] + Cardinality(AboutToNotifyR(k)) + Cardinality(AboutToRead(k))
            = Len(collection[k])
  BY <1>2, Counted, Zenon
<1>4. c \in AboutToRead(k)
  BY Zenon DEF AboutToRead, Busy
<1>5. /\ Cardinality(AboutToRead(k)) - 1 \in Nat
      /\ Cardinality(AboutToRead(k)) \in Nat /\ Cardinality(AboutToNotifyR(k)) \in Nat
  <2>1. IsFiniteSet(AboutToRead(k) \ {c})
    BY FiniteCounts, FS_Subset
  <2>2. Cardinality(AboutToRead(k) \ {c}) = Cardinality(AboutToRead(k)) - 1
    BY <1>4, FiniteCounts, RemoveOne
  <2>3. Cardinality(AboutToRead(k) \ {c}) \in Nat
    BY <2>1, FS_CardinalityType
  <2> QED
    BY <2>2, <2>3, FiniteCounts, SMTT(30)
<1>6. Len(collection[k]) > 0
  BY <1>3, <1>5
<1> QED
  BY <1>6

\* The semaphore operations and the queue accesses of a consumer.
LEMMA ConsumerAccounting ==
  ASSUME TypeOK, TypeOK', NEW c \in Consumer, NEW k \in Key, key[c] = k, KeyAccounting(k),
         WaitR(c, "read") \/ ReadItem(c) \/ ReadNothing(c) \/ NotifyW(c, "idle")
  PROVE  KeyAccounting(k)'
<1>0. c \in Thread /\ c \notin Eraser
  BY QueueAssumption DEF Thread
<1>1. semR[k] = 1 /\ semW[k] = 1 /\ (UsesR(c) => pR[c] = 1) /\ (UsesW(c) => pW[c] = 1)
  <2>1. pc[c] \notin {"idle", "addKey"}
    BY DEF WaitR, ReadItem, ReadNothing, NotifyW, At
  <2> QED
    BY <1>0, <2>1, ZenonT(30) DEF KeyAccounting, OnePair, PointersValid, HoldsValidPointer
<1>2. /\ key' = key /\ UNCHANGED <<semR, semW, freedR, freedW>>
      /\ \A u \in Thread \ {c} : UNCHANGED <<pR[u], pW[u]>>
  BY Zenon DEF WaitR, ReadItem, ReadNothing, NotifyW, sems, locals, TypeOK
<1>3. /\ Cardinality(AboutToWrite(k)) \in Nat /\ Cardinality(AboutToNotifyR(k)) \in Nat
      /\ Cardinality(AboutToRead(k)) \in Nat /\ Cardinality(AboutToNotifyW(k)) \in Nat
  BY FiniteCounts
<1>4. /\ collection[k] \in Seq(Nat) /\ countR[k] \in Seq(Nat) /\ countW[k] \in Seq(Nat)
      /\ Len(countR[k]) = 1 /\ Len(countW[k]) = 1
      /\ countR[k][1] \in Nat /\ countW[k][1] \in Nat /\ Len(collection[k]) \in Nat
      /\ MaxSize \in Nat
  BY <1>1, Counted, QueueAssumption, Zenon
<1>r. countR[k][1] + Cardinality(AboutToNotifyR(k)) + Cardinality(AboutToRead(k))
         = Len(collection[k])
  BY <1>1, Counted, Zenon
<1>w. countW[k][1] + Cardinality(AboutToWrite(k)) + Cardinality(AboutToNotifyW(k))
         + Len(collection[k]) = MaxSize - 1
  BY <1>1, Counted, Zenon
<1>5. CASE WaitR(c, "read")
  <2>1. pc[c] = "waitR" /\ pc' = [pc EXCEPT ![c] = "read"] /\ pR[c] = 1
    BY <1>1, <1>5 DEF WaitR, At, Goto, UsesR
  <2>2. /\ countR'[k][1] = countR[k][1] - 1 /\ Len(countR'[k]) = 1
        /\ UNCHANGED <<countW, collection>>
    <3>1. /\ countR' = [countR EXCEPT ![k][1] = @ - 1]
          /\ UNCHANGED <<countW, collection>>
      BY <1>5, <2>1, Zenon DEF WaitR, items
    <3>2. countR'[k] = [countR[k] EXCEPT ![1] = @ - 1]
      BY <3>1, SMTT(30) DEF TypeOK
    <3> QED
      BY <1>4, <3>1, <3>2
  <2>3. HoldsValidPointer(c, k)'
    BY <1>0, <1>1, <1>2, <2>1, ZenonT(30) DEF HoldsValidPointer, UsesR, UsesW, TypeOK
  <2>4. PointersValid(k)'
    BY <1>0, <1>2, <2>1, <2>3, PointersStep, Zenon
  <2>5. /\ Cardinality(AboutToWrite(k)') = Cardinality(AboutToWrite(k))
        /\ Cardinality(AboutToNotifyR(k)') = Cardinality(AboutToNotifyR(k))
        /\ Cardinality(AboutToRead(k)') = Cardinality(AboutToRead(k)) + 1
        /\ Cardinality(AboutToNotifyW(k)') = Cardinality(AboutToNotifyW(k))
    BY <1>2, <2>1, ConsumerMove, Zenon
  <2>r. countR'[k][1] + Cardinality(AboutToNotifyR(k)') + Cardinality(AboutToRead(k)')
           = Len(collection'[k])
    <3>1. countR'[k][1] + Cardinality(AboutToNotifyR(k)') + Cardinality(AboutToRead(k)')
             = countR[k][1] + Cardinality(AboutToNotifyR(k)) + Cardinality(AboutToRead(k))
      BY <1>3, <1>4, <2>2, <2>5, UnitMovedR, ZenonT(60)
    <3> QED BY <1>r, <2>2, <3>1, Zenon
  <2>w. countW'[k][1] + Cardinality(AboutToWrite(k)') + Cardinality(AboutToNotifyW(k)')
           + Len(collection'[k]) = MaxSize - 1
    BY <1>w, <2>2, <2>5, Zenon
  <2> QED
    BY <1>1, <1>2, <2>2, <2>4, <2>r, <2>w, Recounted, Zenon
<1>6. CASE ReadItem(c)
  <2>1. pc[c] = "read" /\ pc' = [pc EXCEPT ![c] = "loadW"]
    BY <1>6 DEF ReadItem, At, Goto
  <2>2. /\ Len(collection'[k]) = Len(collection[k]) - 1
        /\ UNCHANGED <<countR, countW>>
    BY <1>4, <1>6, SMTT(30) DEF ReadItem, sems, TypeOK
  <2>3. HoldsValidPointer(c, k)'
    BY <1>0, <1>1, <1>2, <2>1, ZenonT(30) DEF HoldsValidPointer, UsesR, UsesW, TypeOK
  <2>4. PointersValid(k)'
    BY <1>0, <1>2, <2>1, <2>3, PointersStep, Zenon
  <2>5. /\ Cardinality(AboutToWrite(k)') = Cardinality(AboutToWrite(k))
        /\ Cardinality(AboutToNotifyR(k)') = Cardinality(AboutToNotifyR(k))
        /\ Cardinality(AboutToRead(k)') = Cardinality(AboutToRead(k)) - 1
        /\ Cardinality(AboutToNotifyW(k)') = Cardinality(AboutToNotifyW(k)) + 1
    BY <1>2, <2>1, ConsumerMove, Zenon
  <2>6. Len(countR'[k]) = 1 /\ Len(collection'[k]) = Len(collection[k]) + (-1)
    BY <1>4, <2>2, Zenon
  <2>r. countR'[k][1] + Cardinality(AboutToNotifyR(k)') + Cardinality(AboutToRead(k)')
           = Len(collection'[k])
    BY <1>3, <1>4, <1>r, <2>2, <2>5, <2>6, ReadableCounts, Zenon
  <2>w. countW'[k][1] + Cardinality(AboutToWrite(k)') + Cardinality(AboutToNotifyW(k)')
           + Len(collection'[k]) = MaxSize - 1
    BY <1>3, <1>4, <1>w, <2>2, <2>5, <2>6, WritableCounts, Zenon
  <2> QED
    BY <1>1, <1>2, <2>4, <2>6, <2>r, <2>w, Recounted, Zenon
<1>7. CASE ReadNothing(c)
  BY <1>7, ReaderFindsItem, Zenon DEF ReadNothing, At
<1>8. CASE NotifyW(c, "idle")
  <2>1. pc[c] = "notifyW" /\ pc' = [pc EXCEPT ![c] = "idle"] /\ pW[c] = 1
    BY <1>1, <1>8 DEF NotifyW, At, Goto, UsesW
  <2>2. /\ countW'[k][1] = countW[k][1] + 1 /\ Len(countW'[k]) = 1
        /\ UNCHANGED <<countR, collection>>
    <3>1. /\ countW' = [countW EXCEPT ![k][1] = @ + 1]
          /\ UNCHANGED <<countR, collection>>
      BY <1>8, <2>1, Zenon DEF NotifyW, items
    <3>2. countW'[k] = [countW[k] EXCEPT ![1] = @ + 1]
      BY <3>1, SMTT(30) DEF TypeOK
    <3> QED
      BY <1>4, <3>1, <3>2, SMTT(30)
  <2>3. HoldsValidPointer(c, k)'
    BY <1>0, <1>1, <1>2, <2>1, ZenonT(30) DEF HoldsValidPointer, UsesR, UsesW, TypeOK
  <2>4. PointersValid(k)'
    BY <1>0, <1>2, <2>1, <2>3, PointersStep, Zenon
  <2>5. /\ Cardinality(AboutToWrite(k)') = Cardinality(AboutToWrite(k))
        /\ Cardinality(AboutToNotifyR(k)') = Cardinality(AboutToNotifyR(k))
        /\ Cardinality(AboutToRead(k)') = Cardinality(AboutToRead(k))
        /\ Cardinality(AboutToNotifyW(k)') = Cardinality(AboutToNotifyW(k)) - 1
    BY <1>2, <2>1, ConsumerMove, Zenon
  <2>6. Len(countR'[k]) = 1
    BY <1>4, <2>2, Zenon
  <2>r. countR'[k][1] + Cardinality(AboutToNotifyR(k)') + Cardinality(AboutToRead(k)')
           = Len(collection'[k])
    BY <1>r, <2>2, <2>5, Zenon
  <2>w. countW'[k][1] + Cardinality(AboutToWrite(k)') + Cardinality(AboutToNotifyW(k)')
           + Len(collection'[k]) = MaxSize - 1
    <3>1. countW'[k][1] + Cardinality(AboutToWrite(k)') + Cardinality(AboutToNotifyW(k)')
             = countW[k][1] + Cardinality(AboutToWrite(k)) + Cardinality(AboutToNotifyW(k))
      BY <1>3, <1>4, <2>2, <2>5, UnitMovedW, ZenonT(60)
    <3> QED BY <1>w, <2>2, <3>1, Zenon
  <2> QED
    BY <1>1, <1>2, <2>4, <2>6, <2>r, <2>w, Recounted, Zenon
<1> QED
  BY <1>5, <1>6, <1>7, <1>8, SMTT(30)

LEMMA InitAccounting == Init => Accounting
<1> SUFFICES ASSUME Init, NEW k \in Key PROVE KeyAccounting(k)
  BY DEF Accounting
<1>1. /\ AboutToWrite(k) = {} /\ AboutToNotifyR(k) = {}
      /\ AboutToRead(k) = {} /\ AboutToNotifyW(k) = {}
  BY DEF Init, AboutToWrite, AboutToNotifyR, AboutToRead, AboutToNotifyW, Busy, Thread
<1>2. Cardinality({}) = 0
  BY FS_EmptySet
<1>3. \A t \in Thread : HoldsValidPointer(t, k)
  BY DEF Init, HoldsValidPointer, UsesR, UsesW
<1>4. OnePair(k)
  BY DEF Init, OnePair
<1>5. PermitsR(k) = 0 /\ PermitsW(k) = MaxSize - 1 /\ Len(collection[k]) = 0
  BY DEF Init, PermitsR, PermitsW
<1>6. MaxSize - 1 \in Nat
  BY QueueAssumption
<1>7. ItemsMatched(k)
  BY <1>1, <1>2, <1>5 DEF ItemsMatched
<1>8. PlacesMatched(k)
  BY <1>1, <1>2, <1>5, <1>6, SMTT(30) DEF PlacesMatched
<1> QED
  BY <1>3, <1>4, <1>7, <1>8, SMTT(30) DEF KeyAccounting, PointersValid

LEMMA NextAccounting == TypeOK /\ TypeOK' /\ Accounting /\ [Next]_vars => Accounting'
<1> SUFFICES ASSUME TypeOK, TypeOK', Accounting, [Next]_vars,
                    NEW k \in Key, ~Erased(k)'
             PROVE  KeyAccounting(k)'
  BY DEF Accounting
<1>0. ~Erased(k) => KeyAccounting(k)
  BY DEF Accounting
<1>1. ASSUME NEW p \in Producer, ProducerStep(p) PROVE KeyAccounting(k)'
  <2>e. erases' = erases
    BY <1>1, Zenon DEF ProducerStep, Put, AddKey, LoadW, LoadR, WaitW, Write, NotifyR
  <2>0. p \in Thread /\ KeyAccounting(k)
    BY <1>0, <2>e, Zenon DEF Thread, Erased
  <2>1. ASSUME NEW j \in Key, Put(p, j) PROVE KeyAccounting(k)'
    BY <2>0, <2>1, CallAccounting, UntouchedAccounting DEF Put
  <2>2. CASE key[p] # k /\ ~\E j \in Key : Put(p, j)
    BY <1>1, <2>0, <2>2, OtherKeyStep, UntouchedAccounting, SMTT(30) DEF ProducerStep
  <2>3. CASE key[p] = k /\ ~\E j \in Key : Put(p, j)
    BY <1>1, <2>0, <2>3, AddKeyAccounting, LoadAccounting, ProducerAccounting,
       SMTT(30) DEF ProducerStep
  <2> QED
    BY <2>1, <2>2, <2>3
<1>2. ASSUME NEW c \in Consumer, ConsumerStep(c) PROVE KeyAccounting(k)'
  <2>e. erases' = erases
    BY <1>2, Zenon DEF ConsumerStep, Get, AddKey, LoadW, LoadR, WaitR, ReadItem, ReadNothing, NotifyW
  <2>k. c \notin Producer /\ Serves[c] \in Key
    BY QueueAssumption
  <2>0. c \in Thread /\ KeyAccounting(k) /\ c \notin Producer /\ Serves[c] \in Key
    BY <1>0, <2>e, <2>k, Zenon DEF Thread, Erased
  <2>1. CASE Get(c)
    BY <2>0, <2>1, CallAccounting, UntouchedAccounting, SMTT(30) DEF Get
  <2>2. CASE key[c] # k /\ ~Get(c)
    BY <1>2, <2>0, <2>2, OtherKeyStep, UntouchedAccounting, Zenon DEF ConsumerStep
  <2>3. CASE key[c] = k /\ ~Get(c)
    BY <1>2, <2>0, <2>3, AddKeyAccounting, LoadAccounting, ConsumerAccounting,
       Zenon DEF ConsumerStep
  <2> QED
    BY <2>1, <2>2, <2>3
<1>3. ASSUME NEW e \in Eraser, EraserStep(e) PROVE KeyAccounting(k)'
  <2>0. e \in Thread
    BY DEF Thread
  <2>1. ASSUME NEW j \in Key, EraseKey(e, j) PROVE KeyAccounting(k)'
    <3>1. j # k /\ ~Erased(k)
      <4>1. erases' = [erases EXCEPT ![j] = @ + 1] /\ erases \in [Key -> Nat]
        BY <2>1, QueueAssumption, SMTT(30) DEF EraseKey, TypeOK
      <4>2. erases[j] \in Nat /\ erases'[j] = erases[j] + 1
        BY <4>1
      <4>3. erases'[j] > 0
        BY <4>2
      <4>4. j # k
        BY <4>3 DEF Erased
      <4>5. erases'[k] = erases[k]
        BY <4>1, <4>4
      <4> QED
        BY <4>4, <4>5, Zenon DEF Erased
    <3> QED
      BY <1>0, <2>0, <2>1, <3>1, CallAccounting, UntouchedAccounting, SMTT(30) DEF EraseKey
  <2>2. CASE ~\E j \in Key : EraseKey(e, j)
    <3>1. KeyAccounting(k)
      BY <1>0, <1>3, <2>2, SMTT(30) DEF EraserStep, LoadR, LoadW, UnblockAll, EraseR, EraseW, DeleteR,
         DeleteW, Erased
    <3>2. key[e] # k
      BY <1>3, <2>0, <2>2, <3>1, SMTT(30)
      DEF EraserStep, LoadR, LoadW, UnblockAll, EraseR, EraseW, DeleteR,
         DeleteW, At, KeyAccounting, PointersValid, HoldsValidPointer
    <3> QED
      BY <1>3, <2>0, <2>2, <3>1, <3>2, OtherKeyStep, UntouchedAccounting, SMTT(30) DEF EraserStep
  <2> QED
    BY <2>1, <2>2
<1>4. CASE (\E t \in Thread : Crash(t)) \/ UNCHANGED vars
  <2>1. UNCHANGED <<sems, items, locals, pc, erases>>
    BY <1>4 DEF Crash, vars
  <2>2. Untouched(k) /\ KeyAccounting(k)
    BY <1>0, <2>1, Zenon DEF Untouched, sems, items, locals, Erased
  <2> QED
    BY <2>2, UntouchedAccounting
<1> QED
  BY <1>1, <1>2, <1>3, <1>4 DEF Next

\* In every state of every instance the semaphores of a key that was never
\* erased and its items are in step: put and get keep their books although
\* they load the semaphores without _keyMtx.
THEOREM AccountingInvariant == Spec => []Accounting
BY TypeCorrect, InitAccounting, NextAccounting, PTL DEF Spec

-----------------------------------------------------------------------------
(* What follows from the accounting.                                       *)

LEMMA AccountingBounds == TypeOK /\ Accounting => Bounded
<1> SUFFICES ASSUME TypeOK, NEW k \in Key, KeyAccounting(k)
             PROVE  Len(collection[k]) + Cardinality(AboutToWrite(k)) <= MaxSize - 1
  BY DEF Accounting, Bounded
<1>1. PermitsW(k) \in Nat
  <2>1. CASE semR[k] = 1
    <3>1. semW[k] # Absent
      BY <2>1, AbsentIsNoNumber, Zenon DEF KeyAccounting, OnePair
    <3> QED
      BY <2>1, <3>1, Counted, Zenon DEF PermitsW
  <2>2. CASE semR[k] = Absent
    <3>1. MaxSize - 1 \in Nat
      BY QueueAssumption
    <3>2. PermitsW(k) = MaxSize - 1
      BY <2>2 DEF PermitsW, KeyAccounting, OnePair
    <3> QED
      BY <3>1, <3>2
  <2> QED
    BY <2>1, <2>2 DEF KeyAccounting, OnePair
<1>2. /\ Cardinality(AboutToWrite(k)) \in Nat /\ Cardinality(AboutToNotifyW(k)) \in Nat
      /\ Len(collection[k]) \in Nat /\ MaxSize \in Nat
  <2>1. collection[k] \in Seq(Nat) /\ MaxSize \in Nat
    BY QueueAssumption DEF TypeOK
  <2> QED
    BY <2>1, FiniteCounts
<1>3. PermitsW(k) + Cardinality(AboutToWrite(k)) + Cardinality(AboutToNotifyW(k))
         + Len(collection[k]) = MaxSize - 1
  BY DEF KeyAccounting, PlacesMatched
<1> QED
  BY <1>1, <1>2, <1>3, SMTT(30)

\* The queue of a key that was never erased never holds more than MaxSize - 1
\* items, whatever the numbers of producers, consumers and erasers.
THEOREM BoundedInvariant == Spec => []Bounded
BY TypeCorrect, AccountingInvariant, AccountingBounds, PTL

LEMMA AccountingReads == TypeOK /\ Accounting => FalseMeansErased
<1> SUFFICES ASSUME TypeOK, Accounting, NEW c \in Consumer, pc[c] = "read", ~Erased(key[c])
             PROVE  collection[key[c]] # <<>>
  BY DEF FalseMeansErased
<1>1. key[c] \in Key
  BY DEF TypeOK, Thread
<1> QED
  BY <1>1, ReaderFindsItem DEF Accounting

\* get returns false for no key that was never erased.
THEOREM FalseMeansErasedInvariant == Spec => []FalseMeansErased
BY TypeCorrect, AccountingInvariant, AccountingReads, PTL

LEMMA NextSemaphoresValid ==
  TypeOK /\ Accounting /\ SemaphoresValid /\ [Next]_vars => SemaphoresValid'
<1> SUFFICES ASSUME TypeOK, Accounting, SemaphoresValid, [Next]_vars,
                    \A k \in Key : ~Erased(k)'
             PROVE  fault' \notin {"null", "freed"}
  BY DEF SemaphoresValid
<1>1. ASSUME NEW t \in Thread, Crash(t) PROVE fault' \notin {"null", "freed"}
  <2>1. key[t] \in Key /\ ~Erased(key[t])
    BY <1>1 DEF Crash, Erased, TypeOK
  <2>2. KeyAccounting(key[t])
    BY <2>1 DEF Accounting
  <2>3. /\ UsesR(t) => pR[t] = 1
        /\ UsesW(t) => pW[t] = 1
        /\ freedR[key[t]] = {} /\ freedW[key[t]] = {}
    BY <2>2 DEF KeyAccounting, OnePair, PointersValid, HoldsValidPointer
  <2>4. ~NullDereference(t) /\ ~UseAfterFree(t)
    BY <2>3 DEF NullDereference, UseAfterFree, Null
  <2> QED
    BY <1>1, <2>4 DEF Crash
<1>2. CASE ~\E t \in Thread : Crash(t)
  <2>1. fault' = fault /\ (erases' = erases \/ \E e \in Eraser, j \in Key : EraseKey(e, j))
    <3>1. ASSUME NEW p \in Producer, ProducerStep(p) PROVE UNCHANGED <<fault, erases>>
      BY <3>1, ZenonT(60) DEF ProducerStep, Put, Call, AddKey, LoadR, LoadW, WaitW, NotifyR, Write
    <3>2. ASSUME NEW c \in Consumer, ConsumerStep(c) PROVE UNCHANGED <<fault, erases>>
      BY <3>2, ZenonT(60) DEF ConsumerStep, Get, Call, AddKey, LoadR, LoadW, WaitR, NotifyW,
         ReadItem, ReadNothing
    <3>3. ASSUME NEW e \in Eraser, EraserStep(e), ~\E j \in Key : EraseKey(e, j)
          PROVE  UNCHANGED <<fault, erases>>
      BY <3>3, ZenonT(60) DEF EraserStep, LoadR, LoadW, UnblockAll, EraseR, EraseW, DeleteR, DeleteW
    <3>4. ASSUME NEW e \in Eraser, NEW j \in Key, EraseKey(e, j) PROVE fault' = fault
      BY <3>4 DEF EraseKey, Call
    <3> QED
      BY <1>2, <3>1, <3>2, <3>3, <3>4, SMTT(30) DEF Next, vars
  <2>2. ASSUME NEW k \in Key PROVE ~Erased(k)
    <3>1. erases[k] \in Nat /\ ~(erases'[k] > 0)
      BY QueueAssumption DEF TypeOK, Erased
    <3>2. CASE erases' = erases
      BY <3>1, <3>2 DEF Erased
    <3>3. ASSUME NEW e \in Eraser, NEW j \in Key, EraseKey(e, j) PROVE ~Erased(k)
      BY <3>1, <3>3, SMTT(30) DEF EraseKey, Erased, TypeOK
    <3> QED
      BY <2>1, <3>2, <3>3
  <2> QED
    BY <2>1, <2>2 DEF SemaphoresValid
<1> QED
  BY <1>1, <1>2

\* No thread meets a null or a deleted semaphore until some key is erased.
THEOREM SemaphoresValidInvariant == Spec => []SemaphoresValid
<1>1. Init => SemaphoresValid
  BY DEF Init, SemaphoresValid
<1> QED
  BY <1>1, TypeCorrect, AccountingInvariant, NextSemaphoresValid, PTL DEF Spec

-----------------------------------------------------------------------------
(* The order of the items, and the refinement of MapChannel.               *)

\* The steps that leave the items alone.
LEMMA ItemsUnchanged ==
  ASSUME [Next]_vars, ~\E p \in Producer : Write(p), ~\E c \in Consumer : ReadItem(c)
  PROVE  UNCHANGED <<collection, written, last>>
BY Zenon DEF Next, vars, items, ProducerStep, ConsumerStep, EraserStep, Put, Get, EraseKey, Call,
   AddKey, LoadR, LoadW, WaitR, WaitW, NotifyR, NotifyW, ReadNothing, Crash,
   UnblockAll, EraseR, EraseW, DeleteR, DeleteW

LEMMA NextInOrder == TypeOK /\ InOrder /\ [Next]_vars => InOrder'
<1> SUFFICES ASSUME TypeOK, InOrder, [Next]_vars, NEW k \in Key
             PROVE  /\ Len(collection'[k]) = written'[k] - last'[k]
                    /\ \A i \in 1 .. Len(collection'[k]) : collection'[k][i] = last'[k] + i
  BY DEF InOrder
<1>0. /\ collection[k] \in Seq(Nat) /\ written[k] \in Nat /\ last[k] \in Nat
      /\ Len(collection[k]) = written[k] - last[k]
      /\ \A i \in 1 .. Len(collection[k]) : collection[k][i] = last[k] + i
  BY DEF TypeOK, InOrder
<1>1. ASSUME NEW p \in Producer, Write(p)
      PROVE  /\ Len(collection'[k]) = written'[k] - last'[k]
             /\ \A i \in 1 .. Len(collection'[k]) : collection'[k][i] = last'[k] + i
  <2>1. CASE key[p] = k
    <3>1. /\ collection'[k] = Append(collection[k], written[k] + 1)
          /\ written'[k] = written[k] + 1 /\ last'[k] = last[k]
      BY <1>1, <2>1, SMTT(30) DEF Write, TypeOK
    <3>2. /\ Len(collection'[k]) = Len(collection[k]) + 1
          /\ collection'[k][Len(collection[k]) + 1] = written[k] + 1
          /\ \A i \in 1 .. Len(collection[k]) : collection'[k][i] = collection[k][i]
      <4>1. written[k] + 1 \in Nat
        BY <1>0
      <4> QED
        BY <1>0, <3>1, <4>1, SMTT(30)
    <3>3. Len(collection'[k]) = written'[k] - last'[k]
      BY <1>0, <3>1, <3>2, SMTT(30)
    <3>4. ASSUME NEW i \in 1 .. Len(collection'[k]) PROVE collection'[k][i] = last'[k] + i
      <4>1. CASE i \in 1 .. Len(collection[k])
        BY <1>0, <3>1, <3>2, <4>1, SMTT(30)
      <4>2. CASE i = Len(collection[k]) + 1
        <5>1. collection'[k][i] = written[k] + 1
          BY <3>2, <4>2
        <5>2. written[k] + 1 = last[k] + (Len(collection[k]) + 1)
          BY <1>0
        <5> QED
          BY <3>1, <4>2, <5>1, <5>2
      <4>3. Len(collection[k]) \in Nat /\ i \in 1 .. (Len(collection[k]) + 1)
        BY <1>0, <3>2
      <4>4. i \in 1 .. Len(collection[k]) \/ i = Len(collection[k]) + 1
        BY <4>3
      <4> QED
        BY <4>1, <4>2, <4>4
    <3> QED
      BY <3>3, <3>4
  <2>2. CASE key[p] # k
    BY <1>0, <1>1, <2>2, SMTT(30) DEF Write, TypeOK
  <2> QED
    BY <2>1, <2>2, Zenon
<1>2. ASSUME NEW c \in Consumer, ReadItem(c)
      PROVE  /\ Len(collection'[k]) = written'[k] - last'[k]
             /\ \A i \in 1 .. Len(collection'[k]) : collection'[k][i] = last'[k] + i
  <2>1. CASE key[c] = k
    <3>1. /\ collection[k] # <<>> /\ collection'[k] = Tail(collection[k])
          /\ written' = written /\ last'[k] = Head(collection[k])
      BY <1>2, <2>1, SMTT(30) DEF ReadItem, TypeOK
    <3>2. last'[k] = last[k] + 1
      BY <1>0, <3>1
    <3>3. Len(collection'[k]) = Len(collection[k]) - 1
      BY <1>0, <3>1
    <3>4. ASSUME NEW i \in 1 .. Len(collection'[k]) PROVE collection'[k][i] = last'[k] + i
      <4>1. i + 1 \in 1 .. Len(collection[k]) /\ collection'[k][i] = collection[k][i + 1]
        <5>0. Len(collection[k]) \in Nat
          BY <1>0
        <5>1. Len(collection[k]) \in Nat /\ i \in 1 .. (Len(collection[k]) - 1)
          BY <3>3, <5>0, Zenon
        <5>2. i + 1 \in 1 .. Len(collection[k])
          BY <5>1
        <5>3. Tail(collection[k])[i] = collection[k][i + 1]
          BY <1>0, <3>1, <5>1, SMTT(30)
        <5> QED
          BY <3>1, <5>2, <5>3, Zenon
      <4>2. collection[k][i + 1] = last[k] + (i + 1)
        BY <1>0, <4>1
      <4>3. i \in Nat /\ last[k] \in Nat
        BY <1>0, <3>3
      <4>4. last[k] + (i + 1) = (last[k] + 1) + i
        BY <4>3
      <4> QED
        BY <3>2, <4>1, <4>2, <4>4, Zenon
    <3> QED
      BY <1>0, <3>1, <3>2, <3>3, <3>4, SMTT(30)
  <2>2. CASE key[c] # k
    BY <1>0, <1>2, <2>2, SMTT(30) DEF ReadItem, TypeOK
  <2> QED
    BY <2>1, <2>2, Zenon
<1>3. CASE /\ ~\E p \in Producer : Write(p)
           /\ ~\E c \in Consumer : ReadItem(c)
  BY <1>0, <1>3, ItemsUnchanged, Zenon
<1> QED
  BY <1>1, <1>2, <1>3, Zenon

\* Every item is handed out once, in the order of the writes, in every
\* execution, erasures included.
THEOREM InOrderInvariant == Spec => []InOrder
<1>1. Init => InOrder
  BY DEF Init, InOrder
<1> QED
  BY <1>1, TypeCorrect, NextInOrder, PTL DEF Spec

NeverErased == \A k \in Key : erases[k] = 0

\* Without eraseKey, any number of producers and consumers on any number of
\* keys see one FIFO channel of capacity MaxSize - 1 per key.
THEOREM ImplementsChannelWithoutErasers ==
  ASSUME Eraser = {}
  PROVE  Spec => ImplementsChannel
<1>1. Init => Channel!Init /\ NeverErased
  BY DEF Init, Channel!Init, NeverErased
<1>2. NeverErased /\ [Next]_vars => NeverErased'
  BY Zenon DEF NeverErased, Next, vars, ProducerStep, ConsumerStep, Put, Get,
     AddKey, LoadR, LoadW, WaitR, WaitW, NotifyR, NotifyW, Write, ReadItem, ReadNothing, Crash
<1>3. ASSUME TypeOK, Accounting, Bounded, InOrder, NeverErased, [Next]_vars
      PROVE  [Channel!Next]_(Channel!vars)
  <2>1. ASSUME NEW p \in Producer, Write(p) PROVE Channel!Next
    <3>0. key[p] \in Key /\ pc[p] = "write" /\ p \in Thread
      BY <1>3, <2>1, SMTT(30) DEF TypeOK, Thread, Write, At
    <3>1. PICK k \in Key : key[p] = k
      BY <3>0, Zenon
    <3>2. p \in AboutToWrite(k)
      BY <3>0, <3>1 DEF AboutToWrite, Busy
    <3>3. Cardinality(AboutToWrite(k)) # 0 /\ Cardinality(AboutToWrite(k)) \in Nat
      BY <3>2, FiniteCounts, FS_EmptySet
    <3>4. Len(collection[k]) + Cardinality(AboutToWrite(k)) <= MaxSize - 1
      BY <1>3 DEF Bounded, NeverErased, Erased
    <3>5. Len(collection[k]) < MaxSize - 1
      BY <1>3, <3>3, <3>4, QueueAssumption, SMTT(30) DEF TypeOK
    <3>6. Channel!Send(k)
      BY <1>3, <2>1, <3>1, <3>5, SMTT(30) DEF Channel!Send, Write, TypeOK
    <3> QED
      BY <3>6 DEF Channel!Next
  <2>2. ASSUME NEW c \in Consumer, ReadItem(c) PROVE Channel!Next
    <3>0. key[c] \in Key
      BY <1>3 DEF TypeOK, Thread
    <3>1. PICK k \in Key : key[c] = k
      BY <3>0
    <3>2. collection[k] # <<>> /\ collection[k] \in Seq(Nat)
      BY <1>3, <2>2, <3>1, SMTT(30) DEF ReadItem, TypeOK
    <3>3. Head(collection[k]) = last[k] + 1
      BY <1>3, <3>2 DEF InOrder
    <3>4. Channel!Receive(k)
      BY <1>3, <2>2, <3>1, <3>2, <3>3, ZenonT(30) DEF Channel!Receive, ReadItem, TypeOK
    <3> QED
      BY <3>4 DEF Channel!Next
  <2>3. CASE /\ ~\E p \in Producer : Write(p)
             /\ ~\E c \in Consumer : ReadItem(c)
    BY <1>3, <2>3, ItemsUnchanged DEF Channel!vars
  <2> QED
    BY <2>1, <2>2, <2>3
<1> QED
  BY <1>1, <1>2, <1>3, TypeCorrect, AccountingInvariant, BoundedInvariant, InOrderInvariant, PTL
  DEF Spec, ImplementsChannel, Channel!Spec

=============================================================================
