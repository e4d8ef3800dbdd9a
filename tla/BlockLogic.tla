----------------------------- MODULE BlockLogic -----------------------------
(***************************************************************************)
(* hdl/block_logic.sv: the block a player steers.  Its registers, and one  *)
(* action per branch of the combinational logic that computes their next   *)
(* values.  Inputs from the other modules are parameters: the keys that    *)
(* are down, can_move and level_speed from board.sv, and block_idx from    *)
(* the generator.                                                          *)
(***************************************************************************)
EXTENDS Tetromino

VARIABLES
    xy_block,           \* x_block, y_block: where the block is
    xy_save,            \* save_xblock, save_yblock: where the board shows it
    block,              \* its colour
    cur_orientation,
    cur_block_idx,      \* index of the block, unless it came from a swap
    down_counter,       \* frames since the last fall
    speed_counter,      \* frames the down key has been held
    held_block,         \* colour of the block on hold, or EMPTY
    switch_block_idx,   \* its index
    is_block_switched,  \* no second swap before the block locks
    old_keys,           \* old_moveleft, ...: keys down at the last frame
    frame_clk_delayed,
    frame_clk_rising_edge

pieceVars == <<xy_block, block, cur_orientation, cur_block_idx>>
holdVars  == <<held_block, switch_block_idx, is_block_switched>>
frameVars == <<old_keys, frame_clk_delayed, frame_clk_rising_edge>>
blockVars == <<xy_block, xy_save, block, cur_orientation, cur_block_idx,
               down_counter, speed_counter, held_block, switch_block_idx,
               is_block_switched, old_keys, frame_clk_delayed,
               frame_clk_rising_edge>>

(* The keys of one player, and the ones whose last value is registered.    *)
Keys     == {"rotate_left", "rotate_right", "right", "left", "down", "hold"}
EdgeKeys == {"rotate_left", "rotate_right", "right", "left"}

s_speed == 1

-----------------------------------------------------------------------------
(* Where each move would take the block.  The turns start from the saved   *)
(* cells, the shifts from the current ones.                                *)
Target(move) ==
    CASE move = "left"         -> Shifted(xy_block, -1, 0)
      [] move = "right"        -> Shifted(xy_block, 1, 0)
      [] move = "down"         -> Shifted(xy_block, 0, 1)
      [] move = "rotate_left"  -> Rotated(block, cur_orientation, "LEFT", xy_save)
      [] move = "rotate_right" -> Rotated(block, cur_orientation, "RIGHT", xy_save)

(* The moves asked for that the board allows: a key that is down now, was  *)
(* not at the last frame, and whose target is free.                        *)
Accepted(keys, can_move) == ((keys \cap EdgeKeys) \ old_keys) \cap can_move

(* Faulty form: the counters run on across a new block.                    *)
SetNewBlockInputs_RunsOn(idx, block_idx) ==
    /\ xy_block' = StartCells(idx)
    /\ block' = ColorOf(idx)
    /\ cur_block_idx' = block_idx
    /\ cur_orientation' = "NORMAL"
    /\ UNCHANGED <<down_counter, speed_counter>>

(* setNewBlockInputs(idx), without the saved cells.  cur_block_idx takes   *)
(* the generator's index whichever block comes in.                         *)
SetNewBlockInputs(idx, block_idx) ==
    /\ xy_block' = StartCells(idx)
    /\ block' = ColorOf(idx)
    /\ cur_block_idx' = block_idx
    /\ cur_orientation' = "NORMAL"
    /\ down_counter' = 0
    /\ speed_counter' = 0

GravityDue(level_speed) == down_counter >= level_speed

-----------------------------------------------------------------------------
(* Branches.  A branch that does not mention the saved cells copies the    *)
(* current ones there.                                                     *)

(* No frame edge, or the board is busy.                                    *)
Stay ==
    /\ xy_save' = xy_block
    /\ UNCHANGED <<pieceVars, holdVars, down_counter, speed_counter>>

(* Faulty form: the cells to erase are already the new ones.               *)
Fall_SavesNew(can_move) ==
    /\ "down" \in can_move
    /\ xy_block' = Target("down")
    /\ xy_save' = Target("down")
    /\ down_counter' = 0
    /\ UNCHANGED <<block, cur_orientation, cur_block_idx, holdVars>>

Fall(can_move) ==
    /\ "down" \in can_move
    /\ xy_block' = Target("down")
    /\ xy_save' = xy_block
    /\ down_counter' = 0
    /\ UNCHANGED <<block, cur_orientation, cur_block_idx, holdVars>>

(* The block stays where it is and the next one takes over.                *)
Lock(can_move, block_idx) ==
    /\ "down" \notin can_move
    /\ SetNewBlockInputs(block_idx, block_idx)
    /\ xy_save' = StartCells(block_idx)
    /\ is_block_switched' = FALSE
    /\ UNCHANGED <<held_block, switch_block_idx>>

Turn(turn, move) ==
    /\ xy_block' = Target(move)
    /\ cur_orientation' = TurnedTo(turn, cur_orientation)
    /\ xy_save' = xy_block
    /\ UNCHANGED <<block, cur_block_idx, holdVars, down_counter, speed_counter>>

RotateLeft(keys, can_move) ==
    /\ "rotate_left" \in Accepted(keys, can_move)
    /\ Turn("LEFT", "rotate_left")

RotateRight(keys, can_move) ==
    /\ "rotate_right" \in Accepted(keys, can_move)
    /\ "rotate_left" \notin Accepted(keys, can_move)
    /\ Turn("RIGHT", "rotate_right")

Move(move) ==
    /\ xy_block' = Target(move)
    /\ xy_save' = xy_block
    /\ UNCHANGED <<block, cur_orientation, cur_block_idx, holdVars,
                   down_counter, speed_counter>>

MoveRight(keys, can_move) ==
    /\ "right" \in Accepted(keys, can_move)
    /\ Accepted(keys, can_move) \cap {"rotate_left", "rotate_right"} = {}
    /\ Move("right")

MoveLeft(keys, can_move) == Accepted(keys, can_move) = {"left"} /\ Move("left")

(* The down key: every second frame it counts, the block falls, or locks   *)
(* when it cannot; at the top of the board it does neither.                *)
SpeedDown(keys, can_move) == Accepted(keys, can_move) = {} /\ "down" \in keys

AtTop == \E k \in 1..4 : xy_block[k][2] = 0

SpeedWait(keys, can_move) ==
    /\ SpeedDown(keys, can_move)
    /\ speed_counter < s_speed \/ ("down" \in can_move /\ AtTop)
    /\ speed_counter' = IF speed_counter < s_speed THEN speed_counter + 1 ELSE 0
    /\ down_counter' = (down_counter + 1) % 64
    /\ xy_save' = xy_block
    /\ UNCHANGED <<pieceVars, holdVars>>

SpeedFall(keys, can_move) ==
    /\ SpeedDown(keys, can_move)
    /\ speed_counter >= s_speed /\ ~AtTop
    /\ Fall(can_move)
    /\ speed_counter' = 0

SpeedLock(keys, can_move, block_idx) ==
    /\ SpeedDown(keys, can_move)
    /\ speed_counter >= s_speed
    /\ Lock(can_move, block_idx)

(* Gravity: takes precedence over every key.                               *)
GravityFall(can_move) == Fall(can_move) /\ UNCHANGED speed_counter

GravityLock(can_move, block_idx) == Lock(can_move, block_idx)

(* Faulty form: a block that came from a swap may be swapped again.        *)
Hold_Again(keys, can_move) ==
    /\ Accepted(keys, can_move) = {}
    /\ "down" \notin keys
    /\ "hold" \in keys
    /\ held_block' = block
    /\ switch_block_idx' = cur_block_idx
    /\ is_block_switched' = TRUE
    /\ xy_save' = xy_block

(* The hold key swaps the block with the one on hold; with none on hold    *)
(* the next block takes over.  The saved cells stay on the old block, for  *)
(* the board to erase it.                                                  *)
Hold(keys, can_move) ==
    /\ Accepted(keys, can_move) = {}
    /\ "down" \notin keys
    /\ "hold" \in keys /\ ~is_block_switched
    /\ held_block' = block
    /\ switch_block_idx' = cur_block_idx
    /\ is_block_switched' = TRUE
    /\ xy_save' = xy_block

HoldSwap(keys, can_move, block_idx) ==
    /\ Hold(keys, can_move)
    /\ held_block # "EMPTY"
    /\ SetNewBlockInputs(switch_block_idx, block_idx)

HoldReplace(keys, can_move, block_idx) ==
    /\ Hold(keys, can_move)
    /\ held_block = "EMPTY"
    /\ SetNewBlockInputs(block_idx, block_idx)

(* No key that counts: the frame brings the next fall closer.              *)
Wait(keys, can_move) ==
    /\ Accepted(keys, can_move) = {}
    /\ "down" \notin keys
    /\ "hold" \notin keys \/ is_block_switched
    /\ down_counter' = (down_counter + 1) % 64
    /\ xy_save' = xy_block
    /\ UNCHANGED <<pieceVars, holdVars, speed_counter>>

-----------------------------------------------------------------------------
(* Reset starts from the block the generator shows.                        *)
BlockReset(block_idx) ==
    /\ SetNewBlockInputs(block_idx, block_idx)
    /\ xy_save' = StartCells(block_idx)
    /\ is_block_switched' = FALSE
    /\ held_block' = "EMPTY"
    /\ UNCHANGED switch_block_idx

(* Faulty form: the level of the frame clock instead of its rising edge.   *)
FrameClock_Level(frame_clk) ==
    /\ frame_clk_delayed' = frame_clk
    /\ frame_clk_rising_edge' = frame_clk

(* Reset or not: the edge detector of the frame clock, and the keys that   *)
(* are registered at a frame edge.                                         *)
FrameClock(frame_clk) ==
    /\ frame_clk_delayed' = frame_clk
    /\ frame_clk_rising_edge' = (frame_clk /\ ~frame_clk_delayed)

KeyRegisters(keys) ==
    old_keys' = IF frame_clk_rising_edge THEN keys \cap EdgeKeys ELSE old_keys

(* Power-up: a block of no colour on the cells of T, zeros elsewhere.      *)
BlockPowerUp ==
    /\ xy_block = StartCells(5)
    /\ xy_save = [k \in 1..4 |-> <<0, 0>>]
    /\ block = "EMPTY"
    /\ cur_orientation = "NORMAL"
    /\ cur_block_idx = 0
    /\ down_counter = 0
    /\ speed_counter = 0
    /\ held_block = "EMPTY"
    /\ switch_block_idx = 0
    /\ is_block_switched = FALSE
    /\ old_keys = {}
    /\ frame_clk_delayed = FALSE
    /\ frame_clk_rising_edge = FALSE
=============================================================================
