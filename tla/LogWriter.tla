----------------------------- MODULE LogWriter -----------------------------
(***************************************************************************)
(* Log calls of several threads (EasyLogger in src/elog.cpp, over          *)
(* el::base::Writer of src/libs/easyloggingpp).  The library is built      *)
(* without its locks: a call appends to the one stream of the logger,      *)
(* dispatches what the stream holds and clears it.  Only _mtx of           *)
(* EasyLogger keeps the calls apart.                                       *)
(***************************************************************************)
EXTENDS Naturals, Sequences

CONSTANTS Threads,
          NoThread,
          Messages,             \* messages, as sequences of characters
          Dots,                 \* what marks a message that was cut
          MAX_LOG_MSG_LENGTH,   \* 500 in the code
          Enabled,              \* the levels that are enabled
          MaxCalls              \* bound on the calls of a thread

VARIABLES pc, level, message, proceed,  \* of the call each thread is in
          mtx,                          \* who holds _mtx
          stream,                       \* what the stream of the logger holds
          lines,                        \* the lines that were written
          said,                         \* history: the enabled calls, in the order they got the lock
          calls                         \* calls of each thread

vars == <<pc, level, message, proceed, mtx, stream, lines, said, calls>>

LogLevels == {"INFO", "ERROR", "WARNING"}

ASSUME ThreadsAssumption == NoThread \notin Threads
ASSUME TextAssumption == /\ \A m \in Messages \cup {Dots} : m \in Seq(STRING)
                         /\ MAX_LOG_MSG_LENGTH \in Nat

\* outstr: only an info message is cut.
Outstr(l, m) ==
    IF l = "INFO" /\ Len(m) > MAX_LOG_MSG_LENGTH THEN SubSeq(m, 1, MAX_LOG_MSG_LENGTH) \o Dots ELSE m

Init ==
    /\ pc = [t \in Threads |-> "idle"]
    /\ level \in [Threads -> LogLevels]
    /\ message \in [Threads -> Messages]
    /\ proceed = [t \in Threads |-> FALSE]
    /\ mtx = NoThread
    /\ stream = <<>> /\ lines = <<>> /\ said = <<>>
    /\ calls = [t \in Threads |-> 0]

At(t, from, to) == pc[t] = from /\ pc' = [pc EXCEPT ![t] = to]

Call(t, l, m) ==
    /\ At(t, "idle", "lock")
    /\ calls[t] < MaxCalls
    /\ calls' = [calls EXCEPT ![t] = @ + 1]
    /\ level' = [level EXCEPT ![t] = l]
    /\ message' = [message EXCEPT ![t] = m]
    /\ UNCHANGED <<proceed, mtx, stream, lines, said>>

\* Mutant of Lock: _mtx is not waited for.
LockAnyway(t) ==
    /\ At(t, "lock", "construct")
    /\ mtx' = t
    /\ said' = IF level[t] \in Enabled THEN Append(said, [level |-> level[t], text |-> Outstr(level[t], message[t])]) ELSE said
    /\ UNCHANGED <<level, message, proceed, stream, lines, calls>>

Lock(t) ==
    /\ At(t, "lock", "construct")
    /\ mtx = NoThread
    /\ mtx' = t
    /\ said' = IF level[t] \in Enabled THEN Append(said, [level |-> level[t], text |-> Outstr(level[t], message[t])]) ELSE said
    /\ UNCHANGED <<level, message, proceed, stream, lines, calls>>

\* Writer::construct, initializeLogger.
Construct(t) ==
    /\ At(t, "construct", "append")
    /\ proceed' = [proceed EXCEPT ![t] = level[t] \in Enabled]
    /\ UNCHANGED <<level, message, mtx, stream, lines, said, calls>>

\* operator<< of a Writer that proceeds.
AppendText(t) ==
    /\ At(t, "append", "dispatch")
    /\ stream' = IF proceed[t] THEN stream \o Outstr(level[t], message[t]) ELSE stream
    /\ UNCHANGED <<level, message, proceed, mtx, lines, said, calls>>

\* ~Writer: the line is what the stream holds.
Dispatch(t) ==
    /\ At(t, "dispatch", "clear")
    /\ lines' = IF proceed[t] THEN Append(lines, [level |-> level[t], text |-> stream]) ELSE lines
    /\ UNCHANGED <<level, message, proceed, mtx, stream, said, calls>>

\* Whether it proceeds or not, a Writer clears the stream.
Clear(t) ==
    /\ At(t, "clear", "unlock")
    /\ stream' = <<>>
    /\ proceed' = [proceed EXCEPT ![t] = FALSE]
    /\ UNCHANGED <<level, message, mtx, lines, said, calls>>

\* Mutant of Unlock: a call that wrote nothing keeps _mtx.
UnlockIfEnabled(t) ==
    /\ At(t, "unlock", "idle")
    /\ mtx' = IF level[t] \in Enabled THEN NoThread ELSE mtx
    /\ UNCHANGED <<level, message, proceed, stream, lines, said, calls>>

Unlock(t) ==
    /\ At(t, "unlock", "idle")
    /\ mtx' = NoThread
    /\ UNCHANGED <<level, message, proceed, stream, lines, said, calls>>

Step(t) == Lock(t) \/ Construct(t) \/ AppendText(t) \/ Dispatch(t) \/ Clear(t) \/ Unlock(t)

Next == \E t \in Threads : Step(t) \/ \E l \in LogLevels, m \in Messages : Call(t, l, m)

Spec == Init /\ [][Next]_vars

\* A thread inside a call goes on; the lock may go to any thread that waits.
FairSpec == Spec /\ \A t \in Threads : WF_vars(Step(t))

-----------------------------------------------------------------------------
PCs == {"idle", "lock", "construct", "append", "dispatch", "clear", "unlock"}

TypeOK ==
    /\ pc \in [Threads -> PCs]
    /\ level \in [Threads -> LogLevels]
    /\ message \in [Threads -> Messages]
    /\ proceed \in [Threads -> BOOLEAN]
    /\ mtx \in Threads \cup {NoThread}
    /\ stream \in Seq(STRING)
    /\ lines \in Seq([level : LogLevels, text : Seq(STRING)])
    /\ said \in Seq([level : LogLevels, text : Seq(STRING)])

\* The lines are those of the calls that got the lock, whole, in that order,
\* at most the last one still missing: no line has text of two threads, none
\* is lost and none is written twice.
LinesWhole ==
    \/ lines = said
    \/ said # <<>> /\ lines = SubSeq(said, 1, Len(said) - 1)

\* Every call of info, error or warning returns.
CallReturns == \A t \in Threads : pc[t] = "lock" ~> pc[t] = "idle"

=============================================================================
