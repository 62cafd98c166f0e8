------------------------------- MODULE MCQueue -------------------------------
(* Instances of ConcurrentMapQueue for TLC.  The program has one producer,  *)
(* the WebSocket thread, and one consumer thread per subscription.          *)
EXTENDS ConcurrentMapQueue

CONSTANTS k1, k2, c1, c2

\* one consumer per key
ServesOwnKey == [c \in Consumer |-> IF c = c1 THEN k1 ELSE k2]

\* every consumer on the same key
ServesOneKey == [c \in Consumer |-> k1]

\* Every item that was put is handed out, and a put that waits for room goes on
\* (put and get of concurrentmapqueue.h).
ItemsMove == Delivered /\ PutReturns

=============================================================================
