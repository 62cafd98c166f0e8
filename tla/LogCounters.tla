---------------------------- MODULE LogCounters ----------------------------
(***************************************************************************)
(* Occasional logging (el::base::RegisteredHitCounters in                  *)
(* src/libs/easyloggingpp): LOG_EVERY_N, LOG_AFTER_N and LOG_N_TIMES keep  *)
(* one counter for each place of the source, made by its first hit.        *)
(***************************************************************************)
EXTENDS Naturals, FiniteSets

CONSTANTS Places,             \* places in the source: an id, the macro and its n
          kMaxLogPerCounter,  \* where the counter of every-N starts again (100000 in the code)
          MaxHits             \* bound on the hits of a place

VARIABLES counters,           \* the registered counters: their places and counts
          hits,               \* history: the hits of each place
          fired               \* history: the hits of each place that wrote a line

vars == <<counters, hits, fired>>

hitCounts(place) == (CHOOSE c \in counters : c.place = place).count

\* get, registering a counter that is not there.
CountOf(place) == IF \E c \in counters : c.place = place THEN hitCounts(place) ELSE 0

Store(place, count) ==
    counters' = {c \in counters : c.place # place} \cup {[place |-> place, count |-> count]}

\* Mutant of validateHitCounts: the counter starts again from zero.
RestartFromZero(count, n) == (IF count >= kMaxLogPerCounter THEN 0 ELSE count) + 1

\* At its limit the counter starts again from where every-N is.
validateHitCounts(count, n) ==
    (IF count >= kMaxLogPerCounter THEN (IF n >= 1 THEN kMaxLogPerCounter % n ELSE 0) ELSE count) + 1

Hit(place, writes) ==
    /\ hits[place] < MaxHits
    /\ hits' = [hits EXCEPT ![place] = @ + 1]
    /\ fired' = [fired EXCEPT ![place] = IF writes THEN @ \cup {hits[place] + 1} ELSE @]

validateEveryN(place) ==
    LET n     == place.n
        count == validateHitCounts(CountOf(place), n)
    IN  /\ place.macro = "EVERY_N"
        /\ Store(place, count)
        /\ Hit(place, n >= 1 /\ count # 0 /\ count % n = 0)

\* The counter stops at n.
validateAfterN(place) ==
    LET count == CountOf(place)
    IN  /\ place.macro = "AFTER_N"
        /\ Store(place, IF count >= place.n THEN count ELSE count + 1)
        /\ Hit(place, count >= place.n)

validateNTimes(place) ==
    LET count == CountOf(place) + 1
    IN  /\ place.macro = "N_TIMES"
        /\ Store(place, count)
        /\ Hit(place, count <= place.n)

Init == counters = {} /\ hits = [p \in Places |-> 0] /\ fired = [p \in Places |-> {}]

Next == \E p \in Places : validateEveryN(p) \/ validateAfterN(p) \/ validateNTimes(p)

Spec == Init /\ [][Next]_vars

-----------------------------------------------------------------------------
\* The lines a place writes are, of its hits, every nth, those after the nth,
\* or the first n, across every restart of the counter, and n = 0 is none, all
\* and none; n of every-N is no larger than where the counter starts again.
FiresAsNamed ==
    \A p \in Places :
        fired[p] = {h \in 1 .. hits[p] :
                        CASE p.macro = "EVERY_N" -> p.n >= 1 /\ h % p.n = 0
                          [] p.macro = "AFTER_N" -> h > p.n
                          [] p.macro = "N_TIMES" -> h <= p.n}

=============================================================================
