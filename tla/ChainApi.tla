------------------------------ MODULE ChainApi ------------------------------
(***************************************************************************)
(* What CPolkaApi sends to a node and asks of it (src/application.cpp):    *)
(* extrinsics, whose definitions this module extends, queries, and the     *)
(* reports of eras and sessions.  Each has its own part of the state.      *)
(***************************************************************************)
EXTENDS Extrinsic

CONSTANTS MaxBlock, StateKept, MaxTimeouts, MAX_PEER_COUNT, MaxPeers,   \* Queries
          FirstBlock, LastBlock, Lengths, SessionsPerEra, EpochDuration, QueueLength   \* EraSession

VARIABLES head, peers, api, call, returned, timeouts,                   \* Queries
          isEpoch, chain, subscribed, heads, changes, best, told        \* EraSession

queries == <<head, peers, api, call, returned, timeouts>>
eras    == <<isEpoch, chain, subscribed, heads, changes, best, told>>

Query == INSTANCE Queries
Eras  == INSTANCE EraSession WITH MaxBlock <- LastBlock, report <- told

-----------------------------------------------------------------------------
\* While the chain grows between two requests of a query: storage is read at
\* one head, a block has its own number, and an answer longer than the
\* caller's array fills it in order and no further (application.cpp).
QueriesAreRight == Query!QueriesAreRight

\* The progress of an epoch is right, and that of a session if the head is
\* fresh; the block number kept for it is one of the chain (handleWsMessage and
\* subscribeEraAndSession of application.cpp).
ReportsAreRight == Eras!ReportsAreRight
=============================================================================
