---------------------------- MODULE MCGameParts ----------------------------
(***************************************************************************)
(* Four parts of the game on their own, on instances larger than Game can  *)
(* afford: the generator and the score in full, the turns of all seven     *)
(* blocks, and clearing with the level table of the code.  They do not     *)
(* interact here: a behaviour is one of them, while the rest stands still. *)
(***************************************************************************)
EXTENDS ScoreKeeper, TetrominoGenerator, LineClear, RotateWalk

VARIABLE part   \* which of them runs

AllPieces   == 0..6
NinePlaces  == {<<dx, dy>> : dx \in {0, 1, 4}, dy \in {3, 9, 16}}
CodeRows    == <<4, 10, 20, 30, 40, 50>>
CodeSpeeds  == <<60, 30, 25, 20, 15, 10, 5>>
RowsAndFull == {{}, {0}, {1, 3}, 0..3}
ThreeTops   == {{}, {<<0, 0>>}, {<<1, 0>>, <<2, 0>>, <<1, 1>>}}

Parts == {"score", "generator", "turns", "clear"}

PartsInit ==
    /\ part \in Parts
    /\ ScoreInit /\ Init
    /\ part # "turns" => idx = 0 /\ at = <<0, 3>>
    /\ WalkInit
    /\ part # "clear" => board_arr = {<<x, 6>> : x \in 0..3} /\ num_rows_reg = 0 /\ clear_y_reg = 0
    /\ ClearInit

Plays(p) == part = p /\ part' = p

PartsNext ==
    \/ Plays("score") /\ ScoreNext /\ UNCHANGED <<vars, walkVars, clearVars>>
    \/ Plays("generator") /\ Next /\ UNCHANGED <<scoreVars, walkVars, clearVars>>
    \/ Plays("turns") /\ WalkNext /\ UNCHANGED <<scoreVars, vars, clearVars>>
    \/ Plays("clear") /\ ClearNext /\ UNCHANGED <<scoreVars, vars, walkVars>>

PartsSpec == PartsInit /\ [][PartsNext]_<<scoreVars, vars, walkVars, clearVars, part>>
=============================================================================
