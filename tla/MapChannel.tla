----------------------------- MODULE MapChannel -----------------------------
(***************************************************************************)
(* What ConcurrentMapQueue promises to its users as long as no key is      *)
(* erased: every key is a FIFO channel of bounded capacity.  Send is the   *)
(* moment a put takes effect and Receive the moment a get returns an item; *)
(* items are numbered in the order they are sent.                          *)
(***************************************************************************)
EXTENDS Naturals, Sequences

CONSTANTS Key, Capacity

VARIABLES chan, sent, received
vars == <<chan, sent, received>>

Init ==
    /\ chan = [k \in Key |-> <<>>]
    /\ sent = [k \in Key |-> 0]
    /\ received = [k \in Key |-> 0]

Send(k) ==
    /\ Len(chan[k]) < Capacity
    /\ sent' = [sent EXCEPT ![k] = @ + 1]
    /\ chan' = [chan EXCEPT ![k] = Append(@, sent'[k])]
    /\ UNCHANGED received

\* The item received is always the one after the item received before it.
Receive(k) ==
    /\ chan[k] # <<>>
    /\ Head(chan[k]) = received[k] + 1
    /\ received' = [received EXCEPT ![k] = @ + 1]
    /\ chan' = [chan EXCEPT ![k] = Tail(@)]
    /\ UNCHANGED sent

Next == \E k \in Key : Send(k) \/ Receive(k)

Spec == Init /\ [][Next]_vars

=============================================================================
