------------------------------- MODULE Delivery -------------------------------
(***************************************************************************)
(* What a subscription promises its clients, whatever goes on inside.       *)
(*                                                                          *)
(* Changes are numbered from 1 as they happen.  A number is kept until the  *)
(* client acknowledges it or a newer one needs its place; each reader is    *)
(* given the numbers in order and without repetition, and misses only those *)
(* that were acknowledged or dropped before it came to them.                *)
(*                                                                          *)
(* Source: the docstrings and the API documentation of the i3X              *)
(* subscriptions (i3x_server/application/services/subscription.py and       *)
(* i3x_server/infrastructure/subscriptions/service.py).                     *)
(***************************************************************************)
EXTENDS Integers, FiniteSets

CONSTANTS
    Readers,   \* stream requests
    Limit      \* changes kept at most

VARIABLES
    issued,    \* the newest number
    kept,      \* numbers kept
    settled,   \* numbers that acknowledgements cover
    dropped,   \* numbers that newer ones displaced
    position,  \* the newest number given to each reader
    given      \* all numbers given to each reader

vars == <<issued, kept, settled, dropped, position, given>>

Init ==
    /\ issued = 0 /\ kept = {} /\ settled = {} /\ dropped = {}
    /\ position = [r \in Readers |-> 0]
    /\ given = [r \in Readers |-> {}]

\* A change happens; when there is no place left, the oldest number goes.
Change ==
    /\ issued' = issued + 1
    /\ \E old \in SUBSET kept :
         /\ IF Cardinality(kept) < Limit THEN old = {}
            ELSE \E o \in kept : old = {o} /\ \A k \in kept : o <= k
         /\ kept' = (kept \ old) \cup {issued + 1}
         /\ dropped' = dropped \cup old
    /\ UNCHANGED <<settled, position, given>>

\* A client acknowledges everything up to k.
Acknowledge(k) ==
    /\ kept' = {i \in kept : i > k}
    /\ settled' = settled \cup 1 .. k
    /\ UNCHANGED <<issued, dropped, position, given>>

\* A reader is given what follows, up to k.
Give(r, k) ==
    /\ k > position[r]
    /\ \E batch \in SUBSET (position[r] + 1 .. k) :
         /\ k \in batch
         /\ (position[r] + 1 .. k) \ batch \subseteq settled \cup dropped
         /\ given' = [given EXCEPT ![r] = @ \cup batch]
    /\ position' = [position EXCEPT ![r] = k]
    /\ UNCHANGED <<issued, kept, settled, dropped>>

Next ==
    \/ Change
    \/ \E k \in 0 .. issued : Acknowledge(k)
    \/ \E r \in Readers, k \in 1 .. issued : Give(r, k)

Spec == Init /\ [][Next]_vars
=============================================================================
