--------------------------- MODULE LoggingProofs ---------------------------
(***************************************************************************)
(* Proofs about the logging: log lines are whole, for any number of        *)
(* threads, messages and calls (LogWriter); and occasional lines come when *)
(* they should, for any places and hits (LogCounters).                     *)
(***************************************************************************)
EXTENDS LogWriter, SequenceTheorems, TLAPS

-----------------------------------------------------------------------------
(* Whole lines.  The lock says who is inside; what the stream holds and    *)
(* which line is missing follows from where that thread has come to.       *)

Inside == {"construct", "append", "dispatch", "clear", "unlock"}

Entry(t) == [level |-> level[t], text |-> Outstr(level[t], message[t])]

\* The line of the thread inside is the only one that is missing.
Missing(t) == said = IF level[t] \in Enabled THEN Append(lines, Entry(t)) ELSE lines

\* What holds for the thread inside, by where it is.
Progress(t) ==
    /\ pc[t] = "construct" => stream = <<>> /\ Missing(t)
    /\ pc[t] = "append"    => stream = <<>> /\ Missing(t) /\ proceed[t] = (level[t] \in Enabled)
    /\ pc[t] = "dispatch"  => /\ Missing(t) /\ proceed[t] = (level[t] \in Enabled)
                              /\ level[t] \in Enabled => stream = Outstr(level[t], message[t])
    /\ pc[t] = "clear"     => lines = said
    /\ pc[t] = "unlock"    => lines = said /\ stream = <<>>

\* The inductive invariant.
IInv ==
    /\ TypeOK
    /\ \A t \in Threads : pc[t] \in Inside <=> mtx = t
    /\ mtx = NoThread => stream = <<>> /\ lines = said
    /\ \A t \in Threads : mtx = t => Progress(t)

\* What a call shows is a text (EasyLogger::info cuts it, error and warning do not).
LEMMA OutstrType ==
    ASSUME NEW l, NEW m \in Messages
    PROVE  Outstr(l, m) \in Seq(STRING)
<1>1. m \in Seq(STRING) /\ Dots \in Seq(STRING) /\ MAX_LOG_MSG_LENGTH \in Nat
  BY TextAssumption
<1>2. CASE l = "INFO" /\ Len(m) > MAX_LOG_MSG_LENGTH
  <2>1. \A i \in 1 .. MAX_LOG_MSG_LENGTH : m[i] \in STRING
    BY <1>1, <1>2, ElementOfSeq, LenProperties
  <2>2. SubSeq(m, 1, MAX_LOG_MSG_LENGTH) \in Seq(STRING)
    BY <1>1, <2>1, SubSeqProperties
  <2>3. SubSeq(m, 1, MAX_LOG_MSG_LENGTH) \o Dots \in Seq(STRING)
    BY <1>1, <2>2, ConcatProperties
  <2> QED
    BY <1>2, <2>3 DEF Outstr
<1>3. CASE ~(l = "INFO" /\ Len(m) > MAX_LOG_MSG_LENGTH)
  BY <1>1, <1>3 DEF Outstr
<1> QED
  BY <1>2, <1>3

\* Without its last element a sequence that was extended is what it was.
LEMMA FrontOfAppend ==
    ASSUME NEW S, NEW s \in Seq(S), NEW e \in S
    PROVE  /\ Append(s, e) # <<>>
           /\ SubSeq(Append(s, e), 1, Len(Append(s, e)) - 1) = s
<1> DEFINE a == Append(s, e)
<1>1. /\ a \in Seq(S) /\ Len(a) = Len(s) + 1 /\ Len(s) \in Nat
      /\ \A i \in 1 .. Len(s) : a[i] = s[i]
  BY AppendProperties, LenProperties
<1>2. \A i \in 1 .. Len(s) : a[i] \in S
  BY <1>1, ElementOfSeq
<1>3. /\ SubSeq(a, 1, Len(s)) \in Seq(S) /\ Len(SubSeq(a, 1, Len(s))) = Len(s)
      /\ \A i \in 1 .. Len(s) : SubSeq(a, 1, Len(s))[i] = a[i]
  BY <1>1, <1>2, SubSeqProperties
<1>4. SubSeq(a, 1, Len(s)) = s
  <2> HIDE DEF a
  <2> QED
    BY <1>1, <1>3, SeqEqual
<1>5. a # <<>>
  BY <1>1, EmptySeq
<1> QED
  BY <1>1, <1>4, <1>5

-----------------------------------------------------------------------------
\* Before the first call nothing is missing and nobody is inside.
LEMMA InitIInv == Init => IInv
  BY ThreadsAssumption DEF Init, IInv, TypeOK, Inside, PCs, Progress

\* A step of one thread moves nothing that another one is inside with.
LEMMA NextIInv == IInv /\ [Next]_vars => IInv'
<1> SUFFICES ASSUME IInv, [Next]_vars
             PROVE  IInv'
  OBVIOUS
<1> USE ThreadsAssumption
<1>1. ASSUME NEW t \in Threads, NEW l \in LogLevels, NEW m \in Messages, Call(t, l, m)
      PROVE  IInv'
  <2>1. TypeOK'
    BY <1>1 DEF IInv, TypeOK, Call, At, PCs
  <2>2. \A u \in Threads : (pc[u] \in Inside <=> mtx = u)'
    BY <1>1 DEF IInv, TypeOK, Call, At, PCs, Inside
  <2>3. (mtx = NoThread => stream = <<>> /\ lines = said)'
    BY <1>1 DEF IInv, Call
  <2>4. \A u \in Threads : (mtx = u => Progress(u))'
    <3> SUFFICES ASSUME NEW u \in Threads, mtx = u
                 PROVE  Progress(u)'
      BY <1>1 DEF Call
    <3>1. u # t
      BY <1>1 DEF IInv, Call, At, Inside
    <3>2. pc'[u] = pc[u] /\ level'[u] = level[u] /\ message'[u] = message[u]
      BY <1>1, <3>1 DEF IInv, TypeOK, Call, At
    <3>3. Progress(u)
      BY DEF IInv
    <3> QED
      BY <1>1, <3>2, <3>3 DEF Call, Progress, Missing, Entry
  <2> QED
    BY <2>1, <2>2, <2>3, <2>4 DEF IInv
<1>2. ASSUME NEW t \in Threads, Lock(t)
      PROVE  IInv'
  <2>1. Outstr(level[t], message[t]) \in Seq(STRING)
    BY OutstrType DEF IInv, TypeOK
  <2>2. Entry(t) \in [level : LogLevels, text : Seq(STRING)]
    BY <2>1 DEF IInv, TypeOK, Entry
  <2>3. said' = IF level[t] \in Enabled THEN Append(said, Entry(t)) ELSE said
    BY <1>2 DEF Lock, Entry
  <2>4. said' \in Seq([level : LogLevels, text : Seq(STRING)])
    BY <2>2, <2>3, AppendProperties DEF IInv, TypeOK
  <2>5. TypeOK'
    BY <1>2, <2>4 DEF IInv, TypeOK, Lock, At, PCs
  <2>6. \A u \in Threads : (pc[u] \in Inside <=> mtx = u)'
    BY <1>2 DEF IInv, TypeOK, Lock, At, PCs, Inside
  <2>7. (mtx = NoThread => stream = <<>> /\ lines = said)'
    BY <1>2 DEF Lock
  <2>8. Progress(t)'
    <3>1. stream' = <<>> /\ lines' = said /\ pc'[t] = "construct"
      BY <1>2 DEF IInv, TypeOK, Lock, At
    <3>2. Missing(t)'
      BY <1>2, <2>3, <3>1 DEF Missing, Entry, Lock
    <3> QED
      BY <3>1, <3>2 DEF Progress
  <2>9. \A u \in Threads : (mtx = u => Progress(u))'
    BY <1>2, <2>8 DEF Lock
  <2> QED
    BY <2>5, <2>6, <2>7, <2>9 DEF IInv
<1>3. ASSUME NEW t \in Threads, Construct(t) \/ AppendText(t) \/ Dispatch(t) \/ Clear(t)
      PROVE  IInv'
  <2>1. mtx = t /\ mtx' = t /\ Progress(t) /\ pc[t] \in Inside
    BY <1>3 DEF IInv, Construct, AppendText, Dispatch, Clear, At, Inside
  <2>2. level' = level /\ message' = message /\ said' = said
    BY <1>3 DEF Construct, AppendText, Dispatch, Clear
  <2>3. Outstr(level[t], message[t]) \in Seq(STRING)
    BY OutstrType DEF IInv, TypeOK
  <2>4. Progress(t)' /\ stream' \in Seq(STRING) /\ lines' \in Seq([level : LogLevels, text : Seq(STRING)])
    <3>1. CASE Construct(t)
      BY <2>1, <2>2, <3>1 DEF IInv, TypeOK, Construct, At, Progress, Missing, Entry
    <3>2. CASE AppendText(t)
      <4>1. stream = <<>> /\ proceed[t] = (level[t] \in Enabled) /\ Missing(t)
        BY <2>1, <3>2 DEF Progress, AppendText, At
      <4>2. <<>> \o Outstr(level[t], message[t]) = Outstr(level[t], message[t])
        BY <2>3, ConcatEmptySeq
      <4>3. level[t] \in Enabled => stream' = Outstr(level[t], message[t])
        BY <3>2, <4>1, <4>2 DEF AppendText
      <4>4. stream' \in Seq(STRING)
        BY <3>2, <4>1, <4>2, <2>3, EmptySeq DEF AppendText
      <4>5. pc'[t] = "dispatch" /\ proceed' = proceed /\ lines' = lines
        BY <3>2 DEF IInv, TypeOK, AppendText, At
      <4>6. Missing(t)'
        BY <2>2, <4>1, <4>5 DEF Missing, Entry
      <4> QED
        BY <2>2, <4>1, <4>3, <4>4, <4>5, <4>6 DEF IInv, TypeOK, Progress
    <3>3. CASE Dispatch(t)
      <4>1. Missing(t) /\ proceed[t] = (level[t] \in Enabled)
            /\ (level[t] \in Enabled => stream = Outstr(level[t], message[t]))
        BY <2>1, <3>3 DEF Progress, Dispatch, At
      <4>2. lines' = said
        BY <3>3, <4>1 DEF Dispatch, Missing, Entry
      <4>3. pc'[t] = "clear" /\ stream' = stream
        BY <3>3 DEF IInv, TypeOK, Dispatch, At
      <4> QED
        BY <2>2, <4>2, <4>3 DEF IInv, TypeOK, Progress
    <3>4. CASE Clear(t)
      <4>1. lines = said
        BY <2>1, <3>4 DEF Progress, Clear, At
      <4>2. pc'[t] = "unlock" /\ stream' = <<>> /\ lines' = lines
        BY <3>4 DEF IInv, TypeOK, Clear, At
      <4> QED
        BY <2>2, <4>1, <4>2, EmptySeq DEF IInv, TypeOK, Progress
    <3> QED
      BY <1>3, <3>1, <3>2, <3>3, <3>4
  <2>5. pc' \in [Threads -> PCs] /\ pc'[t] \in Inside /\ \A u \in Threads \ {t} : pc'[u] = pc[u]
    BY <1>3 DEF IInv, TypeOK, Construct, AppendText, Dispatch, Clear, At, PCs, Inside
  <2>6. proceed' \in [Threads -> BOOLEAN]
    <3>1. \/ proceed' = proceed
          \/ proceed' = [proceed EXCEPT ![t] = level[t] \in Enabled]
          \/ proceed' = [proceed EXCEPT ![t] = FALSE]
      BY <1>3, Zenon DEF Construct, AppendText, Dispatch, Clear
    <3>2. proceed \in [Threads -> BOOLEAN] /\ (level[t] \in Enabled) \in BOOLEAN
      BY DEF IInv, TypeOK
    <3> QED
      BY <3>1, <3>2
  <2>7. TypeOK'
    BY <2>1, <2>2, <2>4, <2>5, <2>6 DEF IInv, TypeOK
  <2>8. \A u \in Threads : (pc[u] \in Inside <=> mtx = u)'
    BY <2>1, <2>5 DEF IInv
  <2> QED
    BY <2>1, <2>4, <2>7, <2>8 DEF IInv
<1>4. ASSUME NEW t \in Threads, Unlock(t)
      PROVE  IInv'
  <2>1. mtx = t /\ Progress(t) /\ pc[t] = "unlock"
    BY <1>4 DEF IInv, Unlock, At, Inside
  <2>2. stream = <<>> /\ lines = said
    BY <2>1 DEF Progress
  <2>3. TypeOK'
    BY <1>4 DEF IInv, TypeOK, Unlock, At, PCs
  <2>4. \A u \in Threads : (pc[u] \in Inside <=> mtx = u)'
    BY <1>4, <2>1 DEF IInv, TypeOK, Unlock, At, PCs, Inside
  <2> QED
    BY <1>4, <2>2, <2>3, <2>4 DEF IInv, Unlock
<1>5. CASE UNCHANGED vars
  BY <1>5 DEF IInv, TypeOK, vars, Inside, Progress, Missing, Entry
<1> QED
  BY <1>1, <1>2, <1>3, <1>4, <1>5 DEF Next, Step

\* What LinesWhole says follows from where the thread inside is.
LEMMA IInvLinesWhole == IInv => LinesWhole
<1> SUFFICES ASSUME IInv
             PROVE  LinesWhole
  OBVIOUS
<1>1. CASE mtx = NoThread
  BY <1>1 DEF IInv, LinesWhole
<1>2. ASSUME NEW t \in Threads, mtx = t
      PROVE  LinesWhole
  <2>1. Progress(t) /\ pc[t] \in Inside
    BY <1>2 DEF IInv
  <2>2. lines = said \/ (Missing(t) /\ level[t] \in Enabled)
    BY <2>1 DEF Progress, Inside, Missing
  <2>3. Entry(t) \in [level : LogLevels, text : Seq(STRING)]
    BY <1>2, OutstrType DEF IInv, TypeOK, Entry
  <2>4. CASE Missing(t) /\ level[t] \in Enabled
    <3>1. said = Append(lines, Entry(t)) /\ lines \in Seq([level : LogLevels, text : Seq(STRING)])
      BY <2>4 DEF Missing, IInv, TypeOK
    <3> QED
      BY <2>3, <3>1, FrontOfAppend DEF LinesWhole
  <2> QED
    BY <2>2, <2>4 DEF LinesWhole
<1> QED
  BY <1>1, <1>2 DEF IInv, TypeOK

\* For any threads, messages and enabled levels: every line that EasyLogger
\* writes is the whole text of one call, in the order in which the calls got
\* _mtx, and none is lost or written twice.
THEOREM LinesAreWhole == Spec => []LinesWhole
<1>1. Spec => []IInv
  BY InitIInv, NextIInv, PTL DEF Spec
<1> QED
  BY <1>1, IInvLinesWhole, PTL

-----------------------------------------------------------------------------
(* Occasional lines: the counters of LogCounters.                          *)

CONSTANTS Places, kMaxLogPerCounter, MaxHits
VARIABLES counters, hits, fired

Counting == INSTANCE LogCounters

\* Every place has a macro and a number; the counter of every-N reaches N.
PlacesCount ==
    /\ kMaxLogPerCounter \in Nat \ {0}
    /\ \A p \in Places : /\ p.macro \in {"EVERY_N", "AFTER_N", "N_TIMES"} /\ p.n \in Nat
                         /\ p.macro = "EVERY_N" => p.n <= kMaxLogPerCounter

\* A place has one counter.
Single(S) == \A c, d \in S : c.place = d.place => c.count = d.count

\* What the counter of p says of its hits: every-N keeps them modulo N across
\* its restarts, after-N up to N, N-times all of them.
Counts(p) ==
    LET count == Counting!CountOf(p)
    IN  /\ count \in Nat
        /\ p.macro = "EVERY_N" => /\ count <= kMaxLogPerCounter
                                  /\ p.n >= 1 => count % p.n = hits[p] % p.n
        /\ p.macro = "AFTER_N" => count = IF hits[p] <= p.n THEN hits[p] ELSE p.n
        /\ p.macro = "N_TIMES" => count = hits[p]

\* The hits of p that write a line.
Named(p, h) ==
    \/ p.macro = "EVERY_N" /\ p.n >= 1 /\ h % p.n = 0
    \/ p.macro = "AFTER_N" /\ h > p.n
    \/ p.macro = "N_TIMES" /\ h <= p.n

Fires == \A p \in Places : fired[p] = {h \in 1 .. hits[p] : Named(p, h)}

CInv ==
    /\ hits \in [Places -> Nat] /\ fired \in [Places -> SUBSET Nat]
    /\ Single(counters) /\ (\A p \in Places : Counts(p)) /\ Fires

LEMMA Remainder ==
    ASSUME NEW a \in Int, NEW n \in Nat \ {0}, NEW q \in Int, NEW r \in 0 .. n - 1, a = n * q + r
    PROVE  a % n = r
BY SMT

LEMMA RemainderOnce ==
    ASSUME NEW a \in Nat, NEW n \in Nat \ {0}
    PROVE  (a % n) % n = a % n
<1>1. PICK r \in 0 .. n - 1 : r = a % n
  OBVIOUS
<1>2. r = n * 0 + r
  OBVIOUS
<1> QED
  BY <1>1, <1>2, Remainder

LEMMA Successor ==
    ASSUME NEW a \in Nat, NEW n \in Nat \ {0}
    PROVE  (a + 1) % n = IF a % n = n - 1 THEN 0 ELSE (a % n) + 1
<1>1. PICK q \in Int, r \in 0 .. n - 1 : q = a \div n /\ r = a % n
  OBVIOUS
<1>2. r = a - n * q
  <2>1. a % n = a - n * (a \div n)
    BY SMT
  <2> QED
    BY <1>1, <2>1
<1>3. n * q \in Int /\ n * (q + 1) = n * q + n
  OBVIOUS
<1>4. CASE r = n - 1
  <2>1. a + 1 = n * (q + 1) + 0
    BY <1>2, <1>3, <1>4
  <2> QED
    BY <1>1, <1>4, <2>1, Remainder
<1>5. CASE r # n - 1
  <2>1. a + 1 = n * q + (r + 1) /\ r + 1 \in 0 .. n - 1
    BY <1>2, <1>3, <1>5
  <2> QED
    BY <1>1, <1>5, <2>1, Remainder
<1> QED
  BY <1>4, <1>5

\* Numbers that agree modulo n agree after one more hit.
LEMMA OneMore ==
    ASSUME NEW a \in Nat, NEW b \in Nat, NEW n \in Nat \ {0}, a % n = b % n
    PROVE  (a + 1) % n = (b + 1) % n
BY Successor

LEMMA Chosen ==
    ASSUME NEW S, Single(S), NEW c \in S
    PROVE  (CHOOSE d \in S : d.place = c.place).count = c.count
<1>1. (CHOOSE d \in S : d.place = c.place) \in S /\ (CHOOSE d \in S : d.place = c.place).place = c.place
  OBVIOUS
<1> QED
  BY <1>1 DEF Single

\* A counter is stored for its place and for no other.
LEMMA Storing ==
    ASSUME Single(counters), NEW p \in Places, NEW k \in Nat, Counting!Store(p, k)
    PROVE  /\ Single(counters') /\ Counting!CountOf(p)' = k
           /\ \A q \in Places \ {p} : Counting!CountOf(q)' = Counting!CountOf(q)
<1> DEFINE e == [place |-> p, count |-> k]
<1>0. counters' = {c \in counters : c.place # p} \cup {e} /\ e.place = p /\ e.count = k
  BY DEF Counting!Store
<1> HIDE DEF e
<1>1. Single(counters')
  BY <1>0 DEF Single
<1>2. Counting!CountOf(p)' = k
  <2>1. e \in counters'
    BY <1>0
  <2>2. (CHOOSE d \in counters' : d.place = p).count = k
    BY <1>0, <1>1, <2>1, Chosen
  <2> QED
    BY <1>0, <2>1, <2>2 DEF Counting!CountOf, Counting!hitCounts
<1>3. ASSUME NEW q \in Places \ {p} PROVE Counting!CountOf(q)' = Counting!CountOf(q)
  <2>1. CASE \E c \in counters : c.place = q
    <3>1. PICK c \in counters : c.place = q
      BY <2>1
    <3>2. c \in counters'
      BY <1>0, <3>1
    <3>3. /\ (CHOOSE d \in counters : d.place = q).count = c.count
          /\ (CHOOSE d \in counters' : d.place = q).count = c.count
      BY <1>1, <3>1, <3>2, Chosen
    <3> QED
      BY <3>1, <3>2, <3>3 DEF Counting!CountOf, Counting!hitCounts
  <2>2. CASE ~ \E c \in counters : c.place = q
    <3>1. ~ \E c \in counters' : c.place = q
      BY <1>0, <2>2
    <3> QED
      BY <2>2, <3>1 DEF Counting!CountOf
  <2> QED
    BY <2>1, <2>2
<1> QED
  BY <1>1, <1>2, <1>3

\* A hit whose counter is right after it, and which writes a line if it should.
LEMMA Hitting ==
    ASSUME CInv, NEW p \in Places, NEW k \in Nat, NEW writes \in BOOLEAN,
           Counting!Store(p, k), Counting!Hit(p, writes),
           writes <=> Named(p, hits[p] + 1),
           p.macro = "EVERY_N" => /\ k <= kMaxLogPerCounter
                                  /\ p.n >= 1 => k % p.n = (hits[p] + 1) % p.n,
           p.macro = "AFTER_N" => k = IF hits[p] + 1 <= p.n THEN hits[p] + 1 ELSE p.n,
           p.macro = "N_TIMES" => k = hits[p] + 1
    PROVE  CInv'
<1>1. hits[p] \in Nat /\ fired[p] \subseteq Nat
  BY DEF CInv
<1>2. /\ hits' = [hits EXCEPT ![p] = hits[p] + 1]
      /\ fired' = [fired EXCEPT ![p] = IF writes THEN fired[p] \cup {hits[p] + 1} ELSE fired[p]]
  BY DEF Counting!Hit
<1>3. hits' \in [Places -> Nat] /\ fired' \in [Places -> SUBSET Nat]
  <2>1. (IF writes THEN fired[p] \cup {hits[p] + 1} ELSE fired[p]) \in SUBSET Nat
    BY <1>1
  <2> QED
    BY <1>1, <1>2, <2>1 DEF CInv
<1>4. hits'[p] = hits[p] + 1 /\ \A q \in Places \ {p} : hits'[q] = hits[q] /\ fired'[q] = fired[q]
  BY <1>2 DEF CInv
<1>5. /\ Single(counters') /\ Counting!CountOf(p)' = k
      /\ \A q \in Places \ {p} : Counting!CountOf(q)' = Counting!CountOf(q)
  BY Storing DEF CInv
<1>6. ASSUME NEW q \in Places PROVE Counts(q)'
  <2>1. CASE q = p
    BY <1>4, <1>5, <2>1 DEF Counts
  <2>2. CASE q # p
    <3>1. Counts(q)
      BY DEF CInv
    <3> QED
      BY <1>4, <1>5, <2>2, <3>1 DEF Counts
  <2> QED
    BY <2>1, <2>2
<1>7. ASSUME NEW q \in Places PROVE fired'[q] = {h \in 1 .. hits'[q] : Named(q, h)}
  <2>1. fired[q] = {h \in 1 .. hits[q] : Named(q, h)}
    BY DEF CInv, Fires
  <2>2. CASE q = p
    <3>1. fired'[p] = IF writes THEN fired[p] \cup {hits[p] + 1} ELSE fired[p]
      BY <1>2 DEF CInv
    <3>2. 1 .. hits[p] + 1 = (1 .. hits[p]) \cup {hits[p] + 1}
      BY <1>1
    <3>3. {h \in 1 .. hits[p] + 1 : Named(p, h)} = IF writes THEN fired[p] \cup {hits[p] + 1} ELSE fired[p]
      BY <2>1, <2>2, <3>2
    <3> QED
      BY <1>4, <2>2, <3>1, <3>3
  <2>3. CASE q # p
    BY <1>4, <2>1, <2>3
  <2> QED
    BY <2>2, <2>3
<1> QED
  BY <1>3, <1>5, <1>6, <1>7 DEF CInv, Fires, Named

\* The counter of every-N starts again where it is modulo N.
LEMMA Restarting ==
    ASSUME PlacesCount, CInv, NEW p \in Places, p.macro = "EVERY_N"
    PROVE  LET k == Counting!validateHitCounts(Counting!CountOf(p), p.n)
           IN  /\ k \in 1 .. kMaxLogPerCounter
               /\ p.n >= 1 => k % p.n = (hits[p] + 1) % p.n
<1> DEFINE count == Counting!CountOf(p)
           from == IF count >= kMaxLogPerCounter THEN (IF p.n >= 1 THEN kMaxLogPerCounter % p.n ELSE 0) ELSE count
<1>1. /\ count \in Nat /\ count <= kMaxLogPerCounter /\ hits[p] \in Nat /\ p.n \in Nat
      /\ kMaxLogPerCounter \in Nat \ {0} /\ p.n <= kMaxLogPerCounter
      /\ p.n >= 1 => count % p.n = hits[p] % p.n
  BY DEF PlacesCount, CInv, Counts
<1>2. Counting!validateHitCounts(count, p.n) = from + 1
  BY DEF Counting!validateHitCounts
<1> HIDE DEF count
<1>3. CASE p.n >= 1
  <2>1. kMaxLogPerCounter % p.n \in 0 .. p.n - 1
    BY <1>1, <1>3
  <2>2. from \in 0 .. kMaxLogPerCounter - 1
    BY <1>1, <1>3, <2>1
  <2>3. from % p.n = hits[p] % p.n
    <3>1. CASE count >= kMaxLogPerCounter
      <4>1. from = kMaxLogPerCounter % p.n /\ kMaxLogPerCounter = count
        BY <1>1, <1>3, <3>1
      <4>2. p.n \in Nat \ {0}
        BY <1>1, <1>3
      <4> QED
        BY <1>1, <1>3, <4>1, <4>2, RemainderOnce
    <3>2. CASE count < kMaxLogPerCounter
      BY <1>1, <1>3, <3>2
    <3> QED
      BY <1>1, <3>1, <3>2
  <2> HIDE DEF from
  <2>4. (from + 1) % p.n = (hits[p] + 1) % p.n
    <3>1. from \in Nat /\ p.n \in Nat \ {0}
      BY <1>1, <1>3, <2>2
    <3> QED
      BY <1>1, <2>3, <3>1, OneMore
  <2> QED
    BY <1>1, <1>2, <2>2, <2>4 DEF count
<1>4. CASE p.n = 0
  <2>1. from \in 0 .. kMaxLogPerCounter - 1
    BY <1>1, <1>4
  <2> HIDE DEF from
  <2> QED
    BY <1>1, <1>2, <1>4, <2>1 DEF count
<1> QED
  BY <1>1, <1>3, <1>4

LEMMA CountersInit == PlacesCount /\ Counting!Init => CInv
<1> SUFFICES ASSUME PlacesCount, Counting!Init PROVE CInv
  OBVIOUS
<1>1. /\ counters = {} /\ hits \in [Places -> Nat] /\ fired \in [Places -> SUBSET Nat]
      /\ \A p \in Places : hits[p] = 0 /\ fired[p] = {}
  BY DEF Counting!Init
<1>2. \A p \in Places : Counting!CountOf(p) = 0
  BY <1>1 DEF Counting!CountOf
<1>3. \A p \in Places : Counts(p)
  BY <1>1, <1>2 DEF Counts, PlacesCount
<1> QED
  BY <1>1, <1>3 DEF CInv, Single, Fires

LEMMA CountersNext == PlacesCount /\ CInv /\ [Counting!Next]_(Counting!vars) => CInv'
<1> SUFFICES ASSUME PlacesCount, CInv, [Counting!Next]_(Counting!vars) PROVE CInv'
  OBVIOUS
<1>1. CASE UNCHANGED Counting!vars
  BY <1>1 DEF Counting!vars, CInv, Single, Counts, Fires, Named, Counting!CountOf, Counting!hitCounts
<1>2. ASSUME NEW p \in Places
      PROVE  hits[p] \in Nat /\ p.n \in Nat /\ Counts(p) /\ Counting!CountOf(p) \in Nat
  BY DEF CInv, PlacesCount, Counts
<1>3. ASSUME NEW p \in Places, Counting!validateEveryN(p) PROVE CInv'
  <2> DEFINE k == Counting!validateHitCounts(Counting!CountOf(p), p.n)
             writes == p.n >= 1 /\ k # 0 /\ k % p.n = 0
  <2>1. p.macro = "EVERY_N" /\ Counting!Store(p, k) /\ Counting!Hit(p, writes)
    BY <1>3 DEF Counting!validateEveryN
  <2>2. k \in 1 .. kMaxLogPerCounter /\ (p.n >= 1 => k % p.n = (hits[p] + 1) % p.n)
    BY <2>1, Restarting
  <2> HIDE DEF k
  <2>3. writes <=> Named(p, hits[p] + 1)
    BY <1>2, <2>1, <2>2 DEF Named
  <2> HIDE DEF writes
  <2>4. writes \in BOOLEAN
    BY DEF writes
  <2>5. k \in Nat /\ k <= kMaxLogPerCounter
    BY <2>2 DEF PlacesCount
  <2> QED
    BY <2>1, <2>2, <2>3, <2>4, <2>5, Hitting
<1>4. ASSUME NEW p \in Places, Counting!validateAfterN(p) PROVE CInv'
  <2> DEFINE count == Counting!CountOf(p)
             k == IF count >= p.n THEN count ELSE count + 1
             writes == count >= p.n
  <2>1. p.macro = "AFTER_N" /\ Counting!Store(p, k) /\ Counting!Hit(p, writes)
    BY <1>4 DEF Counting!validateAfterN
  <2>2. count = IF hits[p] <= p.n THEN hits[p] ELSE p.n
    BY <1>2, <2>1 DEF Counts
  <2> HIDE DEF count
  <2>3. /\ k \in Nat /\ k = IF hits[p] + 1 <= p.n THEN hits[p] + 1 ELSE p.n
        /\ writes <=> Named(p, hits[p] + 1)
    BY <1>2, <2>1, <2>2 DEF Named
  <2>4. writes \in BOOLEAN
    OBVIOUS
  <2> HIDE DEF k, writes
  <2> QED
    BY <2>1, <2>3, <2>4, Hitting
<1>5. ASSUME NEW p \in Places, Counting!validateNTimes(p) PROVE CInv'
  <2> DEFINE k == Counting!CountOf(p) + 1
             writes == k <= p.n
  <2>1. p.macro = "N_TIMES" /\ Counting!Store(p, k) /\ Counting!Hit(p, writes)
    BY <1>5 DEF Counting!validateNTimes
  <2>2. k \in Nat /\ k = hits[p] + 1
    BY <1>2, <2>1 DEF Counts
  <2> HIDE DEF k
  <2>3. writes \in BOOLEAN /\ (writes <=> Named(p, hits[p] + 1))
    BY <1>2, <2>1, <2>2 DEF Named
  <2> HIDE DEF writes
  <2> QED
    BY <2>1, <2>2, <2>3, Hitting
<1> QED
  BY <1>1, <1>3, <1>4, <1>5 DEF Counting!Next

\* For any places and any number of hits, LOG_EVERY_N, LOG_AFTER_N and
\* LOG_N_TIMES write at the hits they are named for, however often the counter
\* of every-N starts again (validateEveryN, validateAfterN and validateNTimes of
\* easylogging++).
THEOREM OccasionalLines ==
    ASSUME PlacesCount
    PROVE  Counting!Spec => []Counting!FiresAsNamed
<1>1. CInv => Counting!FiresAsNamed
  <2> SUFFICES ASSUME CInv, NEW p \in Places
               PROVE  fired[p] = {h \in 1 .. hits[p] :
                                     CASE p.macro = "EVERY_N" -> p.n >= 1 /\ h % p.n = 0
                                       [] p.macro = "AFTER_N" -> h > p.n
                                       [] p.macro = "N_TIMES" -> h <= p.n}
    BY DEF Counting!FiresAsNamed
  <2>1. fired[p] = {h \in 1 .. hits[p] : Named(p, h)}
    BY DEF CInv, Fires
  <2>2. p.macro \in {"EVERY_N", "AFTER_N", "N_TIMES"}
    BY DEF PlacesCount
  <2> QED
    BY <2>1, <2>2 DEF Named
<1> QED
  BY <1>1, CountersInit, CountersNext, PTL DEF Counting!Spec
=============================================================================
