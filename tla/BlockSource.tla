---------------------------- MODULE BlockSource ----------------------------
(***************************************************************************)
(* What the players may expect of the block generator: it shows the index  *)
(* of the next block and keeps showing it until it is taken; the one after *)
(* it is a different block.  The only exception is a block taken in the    *)
(* very cycle after a reset.                                               *)
(***************************************************************************)
EXTENDS Integers

VARIABLES
    next,  \* the index shown
    last   \* what happened in the last cycle: a "pulse" took a block, a
           \* "reset", or neither ("quiet")

Indices == 0..6

Init == next = 0 /\ last = "quiet"

Take ==
    /\ last # "pulse"
    /\ next' \in Indices
    /\ last # "reset" => next' # next
    /\ last' = "pulse"

Hold == UNCHANGED next /\ last' = "quiet"

Restart == next' = 0 /\ last' = "reset"

Next == Take \/ Hold \/ Restart

Spec == Init /\ [][Next]_<<next, last>>
=============================================================================
