---------------------------- MODULE EraSession ----------------------------
(***************************************************************************)
(* What subscribeEraAndSession tells the application (src/application.cpp, *)
(* handleWsMessage).  Block numbers and storage values come through two    *)
(* subscriptions, each with a queue and a thread of its own; a report is   *)
(* computed from the storage values and from the block number seen last.   *)
(***************************************************************************)
EXTENDS Converters

CONSTANTS FirstBlock,      \* height of the chain at the start
          MaxBlock,        \* bound on the height
          Lengths,         \* the lengths a session may have
          SessionsPerEra,  \* _sessionsPerEra
          EpochDuration,   \* _babeEpochDuration
          QueueLength      \* updates of a subscription that are not yet handled

VARIABLES isEpoch,         \* _isEpoch
          chain,           \* the node's state
          subscribed,
          heads, changes,  \* the two queues
          best,            \* _bestBlockNum
          report           \* what the callback was given last

vars == <<isEpoch, chain, subscribed, heads, changes, best, report>>

GenesisSlot == 5

NoReport == [given |-> FALSE, progress |-> 0, length |-> 1, eraProgress |-> 0, eraLength |-> 1,
             at |-> 0, fresh |-> FALSE, truth |-> 0]

-----------------------------------------------------------------------------
(* The node.                                                               *)

Index(c)      == c.base + (c.block - c.last) \div c.len
EpochIndex(c) == (c.slot - GenesisSlot) \div EpochDuration

LowerHex(d) == IF d < 10 THEN 48 + d ELSE 97 + d - 10

\* A storage value: eight bytes, lowest first.
Stored(n) == <<48, 120, LowerHex((n \div 16) % 16), LowerHex(n % 16),
               LowerHex(n \div 4096), LowerHex((n \div 256) % 16)>> \o [i \in 1 .. 12 |-> 48]

\* The number of a block, of four hexadecimal digits here.
HeadText(n) == <<48, 120, LowerHex(n \div 4096), LowerHex((n \div 256) % 16),
                 LowerHex((n \div 16) % 16), LowerHex(n % 16)>>

Null == <<>>

\* The values of the keys asked for, in their order; a value of 0 was never stored.
Changes(c) ==
    LET values == IF isEpoch
                  THEN <<EpochIndex(c), GenesisSlot, c.slot>>
                  ELSE <<c.last, c.len, Index(c) \div SessionsPerEra, SessionsPerEra, Index(c)>>
    IN  [i \in DOMAIN values |-> IF values[i] = 0 THEN Null ELSE Stored(values[i])]

\* An update of storage; of the chain it was taken from the reports know nothing.
Update(c) == [values |-> Changes(c), of |-> c]

-----------------------------------------------------------------------------
(* The API.                                                                *)

Field(v) == IF v = Null THEN 0
            ELSE LET d == fromHex(v, FALSE, 8) IN d[1] + 256 * d[2]

\* The remainder of C++ has the sign of a.
Rem(a, b) == IF a >= 0 THEN a % b ELSE 0 - ((0 - a) % b)

Report(progress, length, eraProgress, eraLength, truth, c) ==
    [given |-> TRUE, progress |-> progress, length |-> length, eraProgress |-> eraProgress,
     eraLength |-> eraLength, at |-> c.block, fresh |-> best = c.block, truth |-> truth]

EpochReport(u) ==
    LET epochIndex      == Field(u.values[1])
        startSlot       == Field(u.values[2])
        currentSlot     == Field(u.values[3])
        sessionProgress == currentSlot - (EpochDuration * epochIndex + startSlot)
    IN  Report(sessionProgress, EpochDuration,
               (epochIndex % SessionsPerEra) * EpochDuration + sessionProgress,
               SessionsPerEra * EpochDuration, (u.of.slot - GenesisSlot) % EpochDuration, u.of)

\* Mutant of SessionReport: progress counted from block 0.
SessionReportFromZero(u) ==
    LET v(i)            == Field(u.values[i])
        sessionProgress == Rem(best + v(2), v(2))
    IN  IF \E i \in 1 .. 5 : v(i) <= 0
        THEN report
        ELSE Report(sessionProgress, v(2), (v(5) % v(4)) * v(2) + sessionProgress, v(4) * v(2),
                    u.of.block - (u.of.last + (Index(u.of) - u.of.base) * u.of.len), u.of)

\* Nothing is reported until all five values are there.
SessionReport(u) ==
    LET v(i)            == Field(u.values[i])
        sessionProgress == Rem(best - v(1) + v(2), v(2))
    IN  IF \E i \in 1 .. 5 : v(i) <= 0
        THEN report
        ELSE Report(sessionProgress, v(2), (v(5) % v(4)) * v(2) + sessionProgress, v(4) * v(2),
                    u.of.block - (u.of.last + (Index(u.of) - u.of.base) * u.of.len), u.of)

-----------------------------------------------------------------------------
Init ==
    /\ isEpoch \in BOOLEAN
    /\ \E l \in Lengths, last \in {0, FirstBlock} :
        chain = [block |-> FirstBlock, last |-> last, len |-> l,
                 base |-> SessionsPerEra, slot |-> FirstBlock + GenesisSlot]
    /\ subscribed = FALSE /\ heads = <<>> /\ changes = <<>>
    /\ best = -1 /\ report = NoReport

\* subscribeEraAndSession: the node answers with what is current.  _bestBlockNum
\* is left as it is.
Subscribe ==
    /\ ~subscribed
    /\ subscribed' = TRUE
    /\ heads' = <<HeadText(chain.block)>>
    /\ changes' = <<Update(chain)>>
    /\ UNCHANGED <<isEpoch, chain, best, report>>

\* unsubscribeEraAndSession
Unsubscribe ==
    /\ subscribed
    /\ subscribed' = FALSE
    /\ heads' = <<>> /\ changes' = <<>>
    /\ UNCHANGED <<isEpoch, chain, best, report>>

\* A block is added to chain c; subscribers are told its number, and its values
\* if they are not those of the block before.
Extend(c) ==
    /\ Len(heads) < QueueLength /\ Len(changes) < QueueLength
    /\ chain' = c
    /\ heads' = IF subscribed THEN Append(heads, HeadText(c.block)) ELSE heads
    /\ changes' = IF subscribed /\ Changes(c) # Changes(chain) THEN Append(changes, Update(c)) ELSE changes
    /\ UNCHANGED <<isEpoch, subscribed, best, report>>

NodeBlock ==
    /\ chain.block < MaxBlock
    /\ \E skipped \in 0 .. 1 :
        Extend([chain EXCEPT !.block = @ + 1, !.slot = @ + 1 + skipped])

\* A new length of sessions, from a session's first block on.
NodeLength ==
    /\ chain.block < MaxBlock
    /\ (chain.block + 1 - chain.last) % chain.len = 0
    /\ \E l \in Lengths \ {chain.len} :
        LET c == [chain EXCEPT !.block = @ + 1, !.slot = @ + 1]
        IN  Extend([c EXCEPT !.base = Index(c), !.last = c.block, !.len = l])

\* The callback that subscribeEraAndSession gives subscribeBlockNumber.
HandleHead ==
    /\ heads # <<>>
    /\ heads' = Tail(heads)
    /\ best' = LET d == fromHex(Head(heads), TRUE, 8) IN d[1] + 256 * d[2]
    /\ UNCHANGED <<isEpoch, chain, subscribed, changes, report>>

HandleChanges ==
    /\ changes # <<>>
    /\ changes' = Tail(changes)
    /\ report' = IF best = -1 THEN report
                 ELSE IF isEpoch THEN EpochReport(Head(changes))
                 ELSE SessionReport(Head(changes))
    /\ UNCHANGED <<isEpoch, chain, subscribed, heads, best>>

Next == Subscribe \/ Unsubscribe \/ NodeBlock \/ NodeLength \/ HandleHead \/ HandleChanges

Spec == Init /\ [][Next]_vars

-----------------------------------------------------------------------------
\* An epoch's report is computed from one update alone: it is right whatever
\* the block numbers do, with skipped slots too, and stays within the epoch
\* and the era.
EpochIsRight ==
    (isEpoch /\ report.given) =>
        /\ report.progress = report.truth
        /\ report.progress \in 0 .. report.length - 1
        /\ report.eraProgress \in 0 .. report.eraLength - 1

\* A session's report is right if the block number seen last is that of the
\* storage values, also after the length of sessions was changed.
FreshSessionIsRight ==
    (~isEpoch /\ report.given /\ report.fresh) =>
        /\ report.progress = report.truth
        /\ report.eraProgress \in 0 .. report.eraLength - 1

\* The block number seen last is that of a block of the chain, read from the
\* text of its header (subscribeEraAndSession, fromHex).
BestIsOfChain == best = -1 \/ best \in FirstBlock .. chain.block

\* All three, for the reports that handleWsMessage gives.
ReportsAreRight == EpochIsRight /\ FreshSessionIsRight /\ BestIsOfChain

=============================================================================
