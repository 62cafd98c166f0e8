---------------------------- MODULE ApiInstance ----------------------------
(***************************************************************************)
(* polkadot::api::getInstance and the two singletons behind it: the api    *)
(* object, shared by counted references, and the WebSocket client, a plain *)
(* static pointer.  Neither is guarded.  An api that is destroyed deletes  *)
(* the client the static pointer names and leaves the pointer as it is.    *)
(***************************************************************************)
EXTENDS Naturals

CONSTANTS Threads,
          Null,
          MaxCalls,     \* bound on the calls of getInstance
          FirstAlone    \* the first call returns before another one starts

VARIABLES pc, held,     \* of each thread: where it is, the api it has a reference to
          fresh,        \* the api each thread is constructing
          instance,     \* api::_instance
          wsInstance,   \* CWebSocketClient::_instance
          client,       \* the client each api was constructed with
          deleted,      \* the clients that were deleted
          misused,      \* a client was deleted that was deleted before
          calls, exited

vars == <<pc, held, fresh, instance, wsInstance, client, deleted, misused, calls, exited>>

\* Objects are numbered: an api and a client by the call that makes them.
Ids == 1 .. MaxCalls

Init ==
    /\ pc = [t \in Threads |-> "idle"] /\ held = [t \in Threads |-> Null]
    /\ fresh = [t \in Threads |-> Null]
    /\ instance = Null /\ wsInstance = Null
    /\ client = [a \in Ids |-> Null]
    /\ deleted = {} /\ misused = FALSE
    /\ calls = 0 /\ exited = FALSE

At(t, from, to) == pc[t] = from /\ pc' = [pc EXCEPT ![t] = to]

\* The call begins; the number is for the objects it may make.
Call(t) ==
    /\ At(t, "idle", "check")
    /\ ~exited /\ calls < MaxCalls
    /\ FirstAlone /\ instance = Null => calls = 0
    /\ calls' = calls + 1
    /\ fresh' = [fresh EXCEPT ![t] = calls + 1]
    /\ UNCHANGED <<held, instance, wsInstance, client, deleted, misused, exited>>

\* Mutant of Check: an instance that is there is not looked at.
CheckNothing(t) ==
    /\ At(t, "check", "ws")
    /\ UNCHANGED <<held, fresh, instance, wsInstance, client, deleted, misused, calls, exited>>

\* if (!_instance)
Check(t) ==
    /\ At(t, "check", IF instance = Null THEN "ws" ELSE "return")
    /\ UNCHANGED <<held, fresh, instance, wsInstance, client, deleted, misused, calls, exited>>

\* impl(), CWebSocketClient::getInstance: if (!_instance)
WsCheck(t) ==
    /\ At(t, "ws", IF wsInstance = Null THEN "create" ELSE "construct")
    /\ UNCHANGED <<held, fresh, instance, wsInstance, client, deleted, misused, calls, exited>>

WsCreate(t) ==
    /\ At(t, "create", "construct")
    /\ wsInstance' = fresh[t]
    /\ UNCHANGED <<held, fresh, instance, client, deleted, misused, calls, exited>>

\* The static pointer is read again for the value that is returned.
Construct(t) ==
    /\ At(t, "construct", "assign")
    /\ client' = [client EXCEPT ![fresh[t]] = wsInstance]
    /\ UNCHANGED <<held, fresh, instance, wsInstance, deleted, misused, calls, exited>>

\* A reference to a is given up: ~impl when it was the last.
Released(a, inst, refs) ==
    IF a # Null /\ a # inst /\ \A t \in Threads : refs[t] # a
    THEN /\ deleted' = deleted \cup {wsInstance}
         /\ misused' = (misused \/ wsInstance \in deleted)
    ELSE UNCHANGED <<deleted, misused>>

\* _instance = shared_ptr<api>(new api())
Assign(t) ==
    /\ At(t, "assign", "return")
    /\ instance' = fresh[t]
    /\ Released(instance, fresh[t], held)
    /\ UNCHANGED <<held, fresh, wsInstance, client, calls, exited>>

\* return _instance: one more reference to it.
Return(t) ==
    /\ At(t, "return", "holds")
    /\ held' = [held EXCEPT ![t] = instance]
    /\ fresh' = [fresh EXCEPT ![t] = Null]
    /\ UNCHANGED <<instance, wsInstance, client, deleted, misused, calls, exited>>

\* The caller's shared_ptr goes out of scope.
Release(t) ==
    /\ At(t, "holds", "idle")
    /\ held' = [held EXCEPT ![t] = Null]
    /\ Released(held[t], instance, held')
    /\ UNCHANGED <<fresh, instance, wsInstance, client, calls, exited>>

\* The process ends, its threads with it: static objects are destroyed.
Exit ==
    /\ ~exited /\ \A t \in Threads : pc[t] = "idle"
    /\ exited' = TRUE
    /\ instance' = Null
    /\ Released(instance, Null, held)
    /\ UNCHANGED <<pc, held, fresh, wsInstance, client, calls>>

Step(t) == Check(t) \/ WsCheck(t) \/ WsCreate(t) \/ Construct(t) \/ Assign(t) \/ Return(t) \/ Release(t)

Next == Exit \/ \E t \in Threads : Call(t) \/ Step(t)

Spec == Init /\ [][Next]_vars

-----------------------------------------------------------------------------
\* Whoever has an api can call it: the client that getInstance constructed it
\* with was not deleted by the destructor of another api.
ClientOfHeldLives ==
    \A t \in Threads : held[t] # Null => client[held[t]] \notin deleted

\* At the end of the process ~impl has deleted the client, once.
DeletedOnce == exited => ~misused /\ (wsInstance # Null => deleted = {wsInstance})

=============================================================================
