------------------------- MODULE TetrominoGenerator -------------------------
(***************************************************************************)
(* hdl/tetromino_generator.sv: the pseudo-random source of blocks.  Every  *)
(* cycle mixes the player's move and the index shown into generated_bits;  *)
(* a pulse on new_block takes its low bits as the next index, or a counter *)
(* when these give no index or the one shown.                              *)
(*                                                                         *)
(* Only the low three bits of generated_bits reach an output, and addition *)
(* carries nothing down into them: they are the variable here.             *)
(***************************************************************************)
EXTENDS Integers

VARIABLES
    next_block_idx,  \* the index shown on the output block_idx
    old_idx,         \* the index shown in the previous cycle
    fair_counter,
    generated_bits,  \* its bits [2:0]
    last             \* history: the cycle before was a "pulse", a "reset" or
                     \* neither ("quiet")

vars == <<next_block_idx, old_idx, fair_counter, generated_bits, last>>

-----------------------------------------------------------------------------
Successor(i) == IF i = 6 THEN 0 ELSE i + 1

(* Faulty form: the fallback ignores the index shown.                      *)
Fallback_Ignores == fair_counter

(* block_idx_in on a pulse: the fallback compares with old_idx, which is   *)
(* the index shown only from the second cycle on that it is shown.         *)
Fallback == IF old_idx = fair_counter THEN Successor(fair_counter)
                                      ELSE fair_counter

block_idx_in ==
    IF generated_bits > 6 \/ generated_bits = old_idx THEN Fallback
                                                      ELSE generated_bits

(* Every cycle, reset or not: the reset values that the source gives to    *)
(* fair_counter and generated_bits are overridden by these assignments.    *)
Mix(new_move) ==
    /\ old_idx' = next_block_idx
    /\ generated_bits' = (generated_bits + new_move + next_block_idx) % 8

-----------------------------------------------------------------------------
(* A cycle in which no block is taken; player_move codes the move made.    *)
Quiet(new_move) ==
    /\ Mix(new_move)
    /\ UNCHANGED <<next_block_idx, fair_counter>>
    /\ last' = "quiet"

(* A pulse.  It comes with a frame edge, so never in two cycles running.   *)
NewBlock(new_move) ==
    /\ last # "pulse"
    /\ Mix(new_move)
    /\ next_block_idx' = block_idx_in
    /\ fair_counter' = Successor(fair_counter)
    /\ last' = "pulse"

(* block_logic makes no move and takes no block during reset.              *)
Reset ==
    /\ Mix(0)
    /\ next_block_idx' = 0
    /\ UNCHANGED fair_counter
    /\ last' = "reset"

Init ==
    /\ next_block_idx = 0
    /\ old_idx = 0
    /\ fair_counter = 0
    /\ generated_bits = 220 % 8
    /\ last = "quiet"

(* player_move is 3 bits: 0 and 2..6 code moves, 1..7 a lock, 0 a hold.    *)
Next ==
    \/ \E new_move \in {0} \cup 2..6 : Quiet(new_move)
    \/ \E new_move \in 0..7 : NewBlock(new_move)
    \/ Reset

Spec == Init /\ [][Next]_vars

-----------------------------------------------------------------------------
(* Type invariant: every index shown is one of a block: block_logic indexes*)
(* its tables of seven with it.                                            *)
TypeOK ==
    /\ next_block_idx \in 0..6
    /\ old_idx \in 0..6
    /\ fair_counter \in 0..6
    /\ generated_bits \in 0..7
    /\ last \in {"quiet", "pulse", "reset"}

(* By the time a pulse may come, old_idx has caught up with the index.     *)
CaughtUp == last = "quiet" => old_idx = next_block_idx

(* The generator implements the source of blocks that BlockSource states:  *)
(* indices are held until taken and do not repeat.                         *)
Source == INSTANCE BlockSource WITH next <- next_block_idx

ImplementsSource == Source!Spec
=============================================================================
