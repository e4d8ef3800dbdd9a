------------------------------ MODULE Channel ------------------------------
(***************************************************************************)
(* What a serial line promises in one direction: characters come out in    *)
(* the order in which they went in, each of them once, and never more than *)
(* Capacity are under way.  Characters are numbered, modulo Numbers.       *)
(***************************************************************************)
EXTENDS Integers, Sequences

CONSTANTS
    Capacity,    \* a number of characters
    Numbers      \* bound: how many numbers there are

VARIABLES
    q,      \* the characters under way, the oldest first
    next    \* the number of the next one to go in

Run(first, k) == [i \in 1 .. k |-> (first + i - 1) % Numbers]

Init == q = <<>> /\ next \in 0 .. Numbers - 1

Put ==
    \E k \in 1 .. Capacity - Len(q) :
        /\ q' = q \o Run(next, k)
        /\ next' = (next + k) % Numbers

Get ==
    \E k \in 1 .. Len(q) :
        /\ q' = SubSeq(q, k + 1, Len(q))
        /\ UNCHANGED next

Next == Put \/ Get

Spec == Init /\ [][Next]_<<q, next>>
=============================================================================
