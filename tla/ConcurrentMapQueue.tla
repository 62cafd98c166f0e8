------------------------- MODULE ConcurrentMapQueue -------------------------
(***************************************************************************)
(* The per-key blocking queue between the WebSocket thread and the update  *)
(* consumer threads (src/utils/concurrentmapqueue.h).                      *)
(*                                                                         *)
(* put and get synchronise through two semaphores per key, allocated by    *)
(* addKey and deleted by eraseKey.  Only addKey holds _keyMtx; every other *)
(* access to the maps is unlocked, so each map access, each semaphore      *)
(* operation and each access to a std::queue is a step of its own.         *)
(*                                                                         *)
(* An item is represented by its serial number: the n-th value written     *)
(* under a key is n.  A semaphore pointer is the number of the allocation  *)
(* that made it: addKey's n-th pair of semaphores for a key is n.          *)
(***************************************************************************)
EXTENDS Integers, Sequences, FiniteSets

CONSTANTS Key,       \* the subscription ids
          Producer,  \* threads that call put
          Consumer,  \* threads that call get
          Eraser,    \* threads that call eraseKey
          Serves,    \* the key a consumer thread was started for
          MaxSize,   \* the constructor's max_size
          MaxPut,    \* bound: no put starts on a key with this many writes
          MaxErase   \* bound: calls of eraseKey per key

ASSUME QueueAssumption ==
    /\ MaxSize \in Nat \ {0}
    /\ MaxPut \in Nat
    /\ MaxErase \in Nat
    /\ Key # {}
    /\ Serves \in [Consumer -> Key]
    /\ IsFiniteSet(Producer) /\ IsFiniteSet(Consumer)
    /\ Producer \cap Consumer = {}
    /\ Producer \cap Eraser = {}
    /\ Consumer \cap Eraser = {}

Thread == Producer \cup Consumer \cup Eraser

Absent == -1                    \* the key has no entry in the map
Null   == 0                     \* the entry operator[] creates: nullptr

VARIABLES
    collection,     \* _collection: the queue of every key
    keys,           \* the keys that have an entry in _collection
    semR, semW,     \* _semR, _semW: Absent or a pointer
    countR, countW, \* per key, _count of every semaphore ever allocated
    freedR, freedW, \* the deleted semaphores
    erases,         \* how many calls of eraseKey were made for the key
    written,        \* serial number of the last item written under the key
    last,           \* serial number of the last item get returned
    pc, key,        \* per thread: next step, and the key it works on
    pR, pW,         \* per thread: the semaphore pointers it has loaded
    fault           \* how the process crashed, if it did

sems    == <<semR, semW, countR, countW, freedR, freedW>>
items   == <<collection, keys, written, last>>
locals  == <<key, pR, pW>>
vars    == <<sems, items, locals, pc, erases, fault>>

Label == {"idle", "addKey", "loadR", "loadW", "waitR", "waitW", "write", "read",
          "notifyR", "notifyW", "unblock", "eraseR", "eraseW", "deleteR", "deleteW"}

Init ==
    /\ collection = [k \in Key |-> <<>>]
    /\ keys = {}
    /\ semR = [k \in Key |-> Absent]
    /\ semW = [k \in Key |-> Absent]
    /\ countR = [k \in Key |-> <<>>]
    /\ countW = [k \in Key |-> <<>>]
    /\ freedR = [k \in Key |-> {}]
    /\ freedW = [k \in Key |-> {}]
    /\ erases = [k \in Key |-> 0]
    /\ written = [k \in Key |-> 0]
    /\ last = [k \in Key |-> 0]
    /\ pc = [t \in Thread |-> "idle"]
    /\ key = [t \in Thread |-> CHOOSE k \in Key : TRUE]
    /\ pR = [t \in Thread |-> Null]
    /\ pW = [t \in Thread |-> Null]
    /\ fault = "none"

-----------------------------------------------------------------------------
(* Steps shared by put, get and eraseKey.                                  *)

At(t, l)   == fault = "none" /\ pc[t] = l
Goto(t, l) == pc' = [pc EXCEPT ![t] = l]

\* A call on key k begins; its pointers are not loaded yet.
Call(t, k, l) ==
    /\ At(t, "idle")
    /\ key' = [key EXCEPT ![t] = k]
    /\ pR' = [pR EXCEPT ![t] = Null]
    /\ pW' = [pW EXCEPT ![t] = Null]
    /\ Goto(t, l)
    /\ UNCHANGED <<sems, items, fault>>

\* addKey, atomic under _keyMtx: allocates both semaphores of a key that has
\* no entry in _semR.
AddKey(t, next) ==
    LET k == key[t]
        n == Len(countR[k]) + 1
    IN  /\ At(t, "addKey")
        /\ Goto(t, next)
        /\ \/ /\ semR[k] = Absent
              /\ semR' = [semR EXCEPT ![k] = n]
              /\ semW' = [semW EXCEPT ![k] = n]
              /\ countR' = [countR EXCEPT ![k] = Append(@, 0)]
              /\ countW' = [countW EXCEPT ![k] = Append(@, MaxSize - 1)]
           \/ /\ semR[k] # Absent
              /\ UNCHANGED <<semR, semW, countR, countW>>
        /\ UNCHANGED <<freedR, freedW, items, locals, erases, fault>>

\* map::operator[] returns a null pointer, and inserts it, for a missing key.
Loaded(p) == IF p = Absent THEN Null ELSE p

LoadR(t, next) ==
    LET p == Loaded(semR[key[t]])
    IN  /\ At(t, "loadR")
        /\ semR' = [semR EXCEPT ![key[t]] = p]
        /\ pR' = [pR EXCEPT ![t] = p]
        /\ Goto(t, next)
        /\ UNCHANGED <<semW, countR, countW, freedR, freedW, items, key, pW,
                       erases, fault>>

LoadW(t, next) ==
    LET p == Loaded(semW[key[t]])
    IN  /\ At(t, "loadW")
        /\ semW' = [semW EXCEPT ![key[t]] = p]
        /\ pW' = [pW EXCEPT ![t] = p]
        /\ Goto(t, next)
        /\ UNCHANGED <<semR, countR, countW, freedR, freedW, items, key, pR,
                       erases, fault>>

\* Semaphore::wait returns: the condition variable's loop makes it wait for
\* a positive count.  The pointer is a temporary and dies with the call.  A
\* deleted semaphore is used as if its memory were
\* intact; Crash is the other outcome.
WaitR(t, next) ==
    /\ At(t, "waitR")
    /\ pR[t] # Null
    /\ countR[key[t]][pR[t]] > 0
    /\ countR' = [countR EXCEPT ![key[t]][pR[t]] = @ - 1]
    /\ pR' = [pR EXCEPT ![t] = Null]
    /\ Goto(t, next)
    /\ UNCHANGED <<semR, semW, countW, freedR, freedW, items, key, pW,
                   erases, fault>>

WaitW(t, next) ==
    /\ At(t, "waitW")
    /\ pW[t] # Null
    /\ countW[key[t]][pW[t]] > 0
    /\ countW' = [countW EXCEPT ![key[t]][pW[t]] = @ - 1]
    /\ pW' = [pW EXCEPT ![t] = Null]
    /\ Goto(t, next)
    /\ UNCHANGED <<semR, semW, countR, freedR, freedW, items, key, pR,
                   erases, fault>>

\* Mutant of NotifyR: the count is left alone.
NotifyRLost(t, next) ==
    /\ At(t, "notifyR")
    /\ Goto(t, next)
    /\ UNCHANGED <<sems, items, locals, erases, fault>>

\* Semaphore::notify.
NotifyR(t, next) ==
    /\ At(t, "notifyR")
    /\ pR[t] # Null
    /\ countR' = [countR EXCEPT ![key[t]][pR[t]] = @ + 1]
    /\ pR' = [pR EXCEPT ![t] = Null]
    /\ Goto(t, next)
    /\ UNCHANGED <<semR, semW, countW, freedR, freedW, items, key, pW,
                   erases, fault>>

NotifyW(t, next) ==
    /\ At(t, "notifyW")
    /\ pW[t] # Null
    /\ countW' = [countW EXCEPT ![key[t]][pW[t]] = @ + 1]
    /\ pW' = [pW EXCEPT ![t] = Null]
    /\ Goto(t, next)
    /\ UNCHANGED <<semR, semW, countR, freedR, freedW, items, key, pR,
                   erases, fault>>

-----------------------------------------------------------------------------
(* put: addKey; _semW[key]->wait(); write; _semR[key]->notify()            *)

\* Mutant of Put: put does not call addKey.
PutWithoutAddKey(p, k) ==
    /\ written[k] < MaxPut
    /\ Call(p, k, "loadW")
    /\ UNCHANGED erases

Put(p, k) ==
    /\ written[k] < MaxPut
    /\ Call(p, k, "addKey")
    /\ UNCHANGED erases

Write(p) ==
    LET k == key[p]
    IN  /\ At(p, "write")
        /\ written' = [written EXCEPT ![k] = @ + 1]
        /\ collection' = [collection EXCEPT ![k] = Append(@, written[k] + 1)]
        /\ keys' = keys \cup {k}
        /\ Goto(p, "loadR")
        /\ UNCHANGED <<sems, last, locals, erases, fault>>

\* Mutant of ProducerStep: put notifies the readers before it writes.
ProducerStepNotifyFirst(p) ==
    \/ \E k \in Key : Put(p, k)
    \/ AddKey(p, "loadW")
    \/ LoadW(p, "waitW")
    \/ WaitW(p, "loadR")
    \/ LoadR(p, "notifyR")
    \/ NotifyR(p, "write")
    \/ Write(p)

ProducerStep(p) ==
    \/ \E k \in Key : Put(p, k)
    \/ AddKey(p, "loadW")
    \/ LoadW(p, "waitW")
    \/ WaitW(p, "write")
    \/ Write(p)
    \/ LoadR(p, "notifyR")
    \/ NotifyR(p, "idle")

-----------------------------------------------------------------------------
(* get: addKey; _semR[key]->wait(); read; and, if something was read,      *)
(* _semW[key]->notify()                                                    *)

Get(c) ==
    /\ Call(c, Serves[c], "addKey")
    /\ UNCHANGED erases

\* Mutants of ReadItem: the newest item is read instead of the oldest, the
\* item is not popped, and get returns without notifying _semW.
ReadItemNewest(c) ==
    LET k == key[c]
        n == Len(collection[k])
    IN  /\ At(c, "read")
        /\ collection[k] # <<>>
        /\ last' = [last EXCEPT ![k] = collection[k][n]]
        /\ collection' = [collection EXCEPT ![k] = SubSeq(@, 1, n - 1)]
        /\ keys' = keys \cup {k}
        /\ Goto(c, "loadW")
        /\ UNCHANGED <<sems, written, locals, erases, fault>>

ReadItemKept(c) ==
    LET k == key[c]
    IN  /\ At(c, "read")
        /\ collection[k] # <<>>
        /\ last' = [last EXCEPT ![k] = Head(collection[k])]
        /\ keys' = keys \cup {k}
        /\ Goto(c, "loadW")
        /\ UNCHANGED <<sems, collection, written, locals, erases, fault>>

\* read returned true: the front item was copied out and popped.
ReadItem(c) ==
    LET k == key[c]
    IN  /\ At(c, "read")
        /\ collection[k] # <<>>
        /\ last' = [last EXCEPT ![k] = Head(collection[k])]
        /\ collection' = [collection EXCEPT ![k] = Tail(@)]
        /\ keys' = keys \cup {k}
        /\ Goto(c, "loadW")
        /\ UNCHANGED <<sems, written, locals, erases, fault>>

\* read returned false, and so does get.
ReadNothing(c) ==
    /\ At(c, "read")
    /\ collection[key[c]] = <<>>
    /\ keys' = keys \cup {key[c]}
    /\ Goto(c, "idle")
    /\ UNCHANGED <<sems, collection, written, last, locals, erases, fault>>

ConsumerStep(c) ==
    \/ Get(c)
    \/ AddKey(c, "loadR")
    \/ LoadR(c, "waitR")
    \/ WaitR(c, "read")
    \/ ReadItem(c)
    \/ ReadNothing(c)
    \/ LoadW(c, "notifyW")
    \/ NotifyW(c, "idle")

-----------------------------------------------------------------------------
(* eraseKey: load both pointers, unblockAll, erase both entries, delete    *)
(* both semaphores.  The key's std::queue stays in _collection.            *)

EraseKey(e, k) ==
    /\ erases[k] < MaxErase
    /\ erases' = [erases EXCEPT ![k] = @ + 1]
    /\ Call(e, k, "loadR")

\* Semaphore::unblockAll sets the count to 1, whatever it was.
UnblockAll(e) ==
    /\ At(e, "unblock")
    /\ pR[e] # Null
    /\ countR' = [countR EXCEPT ![key[e]][pR[e]] = 1]
    /\ Goto(e, "eraseR")
    /\ UNCHANGED <<semR, semW, countW, freedR, freedW, items, locals, erases, fault>>

\* Mutant of EraseR: every key's entry is erased.
EraseRAll(e) ==
    /\ At(e, "eraseR")
    /\ semR' = [k \in Key |-> Absent]
    /\ Goto(e, "eraseW")
    /\ UNCHANGED <<semW, countR, countW, freedR, freedW, items, locals, erases, fault>>

EraseR(e) ==
    /\ At(e, "eraseR")
    /\ semR' = [semR EXCEPT ![key[e]] = Absent]
    /\ Goto(e, "eraseW")
    /\ UNCHANGED <<semW, countR, countW, freedR, freedW, items, locals, erases, fault>>

EraseW(e) ==
    /\ At(e, "eraseW")
    /\ semW' = [semW EXCEPT ![key[e]] = Absent]
    /\ Goto(e, "deleteR")
    /\ UNCHANGED <<semR, countR, countW, freedR, freedW, items, locals, erases, fault>>

DeleteR(e) ==
    /\ At(e, "deleteR")
    /\ freedR' = [freedR EXCEPT ![key[e]] = @ \cup {pR[e]}]
    /\ pR' = [pR EXCEPT ![e] = Null]
    /\ Goto(e, "deleteW")
    /\ UNCHANGED <<semR, semW, countR, countW, freedW, items, key, pW,
                   erases, fault>>

\* Deleting a null pointer does nothing.
DeleteW(e) ==
    /\ At(e, "deleteW")
    /\ freedW' = [freedW EXCEPT ![key[e]] = @ \cup ({pW[e]} \ {Null})]
    /\ pW' = [pW EXCEPT ![e] = Null]
    /\ Goto(e, "idle")
    /\ UNCHANGED <<semR, semW, countR, countW, freedR, items, key, pR,
                   erases, fault>>

EraserStep(e) ==
    \/ \E k \in Key : EraseKey(e, k)
    \/ LoadR(e, "loadW")
    \/ LoadW(e, "unblock")
    \/ UnblockAll(e)
    \/ EraseR(e)
    \/ EraseW(e)
    \/ DeleteR(e)
    \/ DeleteW(e)

-----------------------------------------------------------------------------
(* Undefined behaviour.  The process may crash in a step that uses a null  *)
(* or deleted semaphore (a null one leaves it no other outcome), and in an *)
(* unlocked map or queue access that overlaps a conflicting one.           *)

UsesR(t) == pc[t] \in {"waitR", "notifyR", "unblock"}
UsesW(t) == pc[t] \in {"waitW", "notifyW"}

NullDereference(t) ==
    \/ UsesR(t) /\ pR[t] = Null
    \/ UsesW(t) /\ pW[t] = Null

UseAfterFree(t) ==
    \/ (UsesR(t) \/ pc[t] = "deleteR") /\ pR[t] \in freedR[key[t]]
    \/ (UsesW(t) \/ pc[t] = "deleteW") /\ pW[t] \in freedW[key[t]]

\* t is about to look up _semR or _semW without _keyMtx.
UnlockedLookup(t) == pc[t] \in {"loadR", "loadW", "eraseR", "eraseW"}

\* u is about to link a node into, or out of, _semR or _semW.
ChangesMaps(u) ==
    \/ pc[u] = "addKey" /\ semR[key[u]] = Absent
    \/ pc[u] = "loadR" /\ semR[key[u]] = Absent
    \/ pc[u] = "loadW" /\ semW[key[u]] = Absent
    \/ pc[u] \in {"eraseR", "eraseW"}

\* write and read run without a lock: two of them conflict on the queue of
\* their key, or on _collection when one of them creates the key's entry.
InQueue(t) == pc[t] \in {"write", "read"}

DataRace(t) ==
    \E u \in Thread \ {t} :
        \/ UnlockedLookup(t) /\ ChangesMaps(u)
        \/ InQueue(t) /\ InQueue(u) /\ (key[t] = key[u] \/ key[u] \notin keys)

Crash(t) ==
    /\ fault = "none"
    /\ \/ NullDereference(t) /\ fault' = "null"
       \/ UseAfterFree(t) /\ fault' = "freed"
       \/ DataRace(t) /\ fault' = "race"
    /\ UNCHANGED <<sems, items, locals, pc, erases>>

-----------------------------------------------------------------------------
Next ==
    \/ \E p \in Producer : ProducerStep(p)
    \/ \E c \in Consumer : ConsumerStep(c)
    \/ \E e \in Eraser : EraserStep(e)
    \/ \E t \in Thread : Crash(t)

Spec == Init /\ [][Next]_vars

\* Every thread keeps running until it blocks: the operating system schedules
\* them all.  Whether a caller makes its next call is up to the caller.
Fairness ==
    /\ \A p \in Producer : WF_vars(ProducerStep(p) /\ pc[p] # "idle")
    /\ \A c \in Consumer : WF_vars(ConsumerStep(c) /\ pc[c] # "idle")
    /\ \A e \in Eraser : WF_vars(EraserStep(e) /\ pc[e] # "idle")

\* updateConsumerThread calls get again as long as get returns true, and
\* without eraseKey it always does.
ConsumersLoop == \A c \in Consumer : WF_vars(Get(c))

RunningSpec == Spec /\ Fairness

FairSpec == RunningSpec /\ ConsumersLoop

-----------------------------------------------------------------------------
(* Properties.                                                             *)

TypeOK ==
    /\ collection \in [Key -> Seq(Nat)]
    /\ keys \subseteq Key
    /\ semR \in [Key -> Nat \cup {Absent}] /\ semW \in [Key -> Nat \cup {Absent}]
    /\ countR \in [Key -> Seq(Nat)] /\ countW \in [Key -> Seq(Nat)]
    /\ freedR \in [Key -> SUBSET Nat] /\ freedW \in [Key -> SUBSET Nat]
    /\ erases \in [Key -> 0 .. MaxErase]
    /\ written \in [Key -> Nat] /\ last \in [Key -> Nat]
    /\ pc \in [Thread -> Label] /\ key \in [Thread -> Key]
    /\ pR \in [Thread -> Nat] /\ pW \in [Thread -> Nat]
    /\ fault \in {"none", "null", "freed", "race"}
    /\ \A k \in Key : /\ Len(countW[k]) = Len(countR[k])
                      /\ semR[k] <= Len(countR[k])
                      /\ semW[k] <= Len(countW[k])
    /\ \A t \in Thread : /\ pR[t] <= Len(countR[key[t]])
                         /\ pW[t] <= Len(countW[key[t]])

Erased(k) == erases[k] > 0

\* The threads of S that work on key k and whose next step is in L.
Busy(S, k, L) == {t \in S : key[t] = k /\ pc[t] \in L}

AboutToWrite(k)   == Busy(Producer, k, {"write"})
AboutToNotifyR(k) == Busy(Producer, k, {"loadR", "notifyR"})
AboutToRead(k)    == Busy(Consumer, k, {"read"})
AboutToNotifyW(k) == Busy(Consumer, k, {"loadW", "notifyW"})

\* The permits of the key's first pair of semaphores, allocated or not yet.
PermitsR(k) == IF semR[k] = Absent THEN 0 ELSE countR[k][1]
PermitsW(k) == IF semW[k] = Absent THEN MaxSize - 1 ELSE countW[k][1]

\* A thread past addKey on key k is no eraser, and the pointer it is about to
\* use is the key's one semaphore.
HoldsValidPointer(t, k) ==
    /\ pc[t] \notin {"idle", "addKey"} => t \notin Eraser /\ semR[k] = 1
    /\ UsesR(t) => pR[t] = 1
    /\ UsesW(t) => pW[t] = 1

\* The key's pair of semaphores is allocated once and never deleted.
OnePair(k) ==
    /\ semR[k] = semW[k]
    /\ semR[k] \in {Absent, 1}
    /\ Len(countR[k]) = (IF semR[k] = Absent THEN 0 ELSE 1)
    /\ freedR[k] = {} /\ freedW[k] = {}

PointersValid(k) == \A t \in Thread : key[t] = k => HoldsValidPointer(t, k)

ItemsMatched(k) ==
    PermitsR(k) + Cardinality(AboutToNotifyR(k)) + Cardinality(AboutToRead(k))
        = Len(collection[k])

PlacesMatched(k) ==
    PermitsW(k) + Cardinality(AboutToWrite(k)) + Cardinality(AboutToNotifyW(k))
        + Len(collection[k]) = MaxSize - 1

KeyAccounting(k) == OnePair(k) /\ PointersValid(k) /\ ItemsMatched(k) /\ PlacesMatched(k)

\* The semaphores of a key that was never erased and the items it holds stay
\* in step: an item is matched by a permit of _semR, by a put that has yet to
\* notify _semR or by a get that has yet to read; and the MaxSize - 1 places
\* are items, permits of _semW, puts about to write or gets that have yet to
\* notify _semW.
Accounting == \A k \in Key : ~Erased(k) => KeyAccounting(k)

\* A key that was never erased holds at most MaxSize - 1 items, counting the
\* ones whose put has passed its semaphore and not written yet, whatever
\* happens to the other keys.
Bounded ==
    \A k \in Key : ~Erased(k) =>
        Len(collection[k]) + Cardinality(AboutToWrite(k)) <= MaxSize - 1

\* get returns false only for a key that is being erased (the comment in
\* get): a consumer past its semaphore finds an item.
FalseMeansErased ==
    \A c \in Consumer : pc[c] = "read" /\ ~Erased(key[c]) => collection[key[c]] # <<>>

\* Every item is handed out exactly once and in the order of the writes:
\* what a key still holds is exactly what follows the last item returned.
InOrder ==
    \A k \in Key :
        /\ Len(collection[k]) = written[k] - last[k]
        /\ \A i \in 1 .. Len(collection[k]) : collection[k][i] = last[k] + i

\* As long as no key is erased, no thread can meet a null or a deleted
\* semaphore, although the pointers are loaded without _keyMtx.
SemaphoresValid ==
    (\A k \in Key : ~Erased(k)) => fault \notin {"null", "freed"}

\* Every item written is eventually returned by get, unless the process
\* crashed (checked without erasers).
Delivered ==
    \A k \in Key : \A n \in 1 .. MaxPut :
        written[k] >= n ~> (last[k] >= n \/ fault # "none")

\* Every put returns: a full queue blocks it only until a consumer reads.
PutReturns == \A p \in Producer : pc[p] # "idle" ~> (pc[p] = "idle" \/ fault # "none")

\* Without erasers the queue implements one bounded FIFO channel per key.
Channel == INSTANCE MapChannel
             WITH Capacity <- MaxSize - 1, chan <- collection, sent <- written, received <- last

ImplementsChannel == Channel!Spec

=============================================================================
