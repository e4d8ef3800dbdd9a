-------------------------------- MODULE Game --------------------------------
(***************************************************************************)
(* One player's game as hdl/tetris.sv wires it: block_logic, the board and *)
(* the block generator, advancing together on every edge of Clk.  Each     *)
(* action is one clock cycle: one branch of block_logic, what the board    *)
(* does in that cycle, what the generator does, and the frame detector.    *)
(* The frame clock and the keys are free inputs of every cycle.            *)
(***************************************************************************)
EXTENDS BlockLogic, Board

CONSTANT KeySets   \* bound: the sets of keys that may be down at a frame,
                   \* SUBSET Keys in the code

ASSUME GameAssumption ==
    /\ KeySets \subseteq SUBSET Keys /\ {} \in KeySets
    /\ 0 \in Pieces
    /\ XSize + SpawnShift >= 7

VARIABLES
    block_idx,  \* output of the generator: the next block
    phase       \* history: how the block came to be where it is: "reset" and
                \* "spawn" (after a lock) until the board shows it, "swap" (hold)
                \* while the board shows the one it replaced, else "live"

vars == <<blockVars, boardVars, block_idx, phase>>

-----------------------------------------------------------------------------
(* Wires.                                                                  *)

can_move == {m \in {"left", "right", "rotate_left", "rotate_right", "down"} :
                CanMove(Target(m), xy_block)}

(* block_logic acts only at a frame edge while the board is in PLAY.       *)
FrameInPlay == frame_clk_rising_edge /\ ~BOARD_BUSY

(* tetromino_generator, from outside: block_idx changes only on new_block. *)
(* TetrominoGenerator says which index it changes to.                      *)
Generate(new_block) ==
    IF new_block THEN block_idx' \in Pieces ELSE UNCHANGED block_idx

(* What the rest of the hardware does in a cycle in which block_logic sees *)
(* these keys and gives these pulses.                                      *)
Cycle(keys, get_new_block, replace_block) ==
    /\ \E frame_clk \in BOOLEAN : FrameClock(frame_clk)
    /\ KeyRegisters(keys)
    /\ BoardTick(frame_clk_rising_edge, get_new_block, xy_block, xy_save, block)
    /\ Generate(get_new_block \/ replace_block)

Quiet(keys) == Cycle(keys, FALSE, FALSE)

-----------------------------------------------------------------------------
(* Cycles without reset.                                                   *)

(* Between frames; the keys are not looked at.                             *)
BetweenFrames ==
    /\ ~frame_clk_rising_edge
    /\ Stay /\ Quiet({})
    /\ phase' = IF BOARD_BUSY THEN phase ELSE "live"

(* A frame while the board is busy: only the keys are registered.          *)
BusyFrame(keys) ==
    /\ frame_clk_rising_edge /\ BOARD_BUSY
    /\ Stay /\ Quiet(keys)
    /\ UNCHANGED phase

FallFrame(keys) ==
    /\ FrameInPlay /\ GravityDue(level_speed)
    /\ GravityFall(can_move) /\ Quiet(keys)
    /\ phase' = "live"

LockFrame(keys) ==
    /\ FrameInPlay /\ GravityDue(level_speed)
    /\ GravityLock(can_move, block_idx) /\ Cycle(keys, TRUE, FALSE)
    /\ phase' = "spawn"

(* The other branches, when gravity is not due.                            *)
KeyFrame(keys) ==
    /\ FrameInPlay /\ ~GravityDue(level_speed)
    /\ \/ RotateLeft(keys, can_move)
       \/ RotateRight(keys, can_move)
       \/ MoveRight(keys, can_move)
       \/ MoveLeft(keys, can_move)
       \/ SpeedWait(keys, can_move)
       \/ SpeedFall(keys, can_move)
       \/ Wait(keys, can_move)
    /\ Quiet(keys)
    /\ phase' = "live"

SpeedLockFrame(keys) ==
    /\ FrameInPlay /\ ~GravityDue(level_speed)
    /\ SpeedLock(keys, can_move, block_idx) /\ Cycle(keys, TRUE, FALSE)
    /\ phase' = "spawn"

HoldSwapFrame(keys) ==
    /\ FrameInPlay /\ ~GravityDue(level_speed)
    /\ HoldSwap(keys, can_move, block_idx) /\ Quiet(keys)
    /\ phase' = "swap"

HoldReplaceFrame(keys) ==
    /\ FrameInPlay /\ ~GravityDue(level_speed)
    /\ HoldReplace(keys, can_move, block_idx) /\ Cycle(keys, FALSE, TRUE)
    /\ phase' = "swap"

Frame(keys) ==
    \/ BusyFrame(keys)
    \/ FallFrame(keys)
    \/ LockFrame(keys)
    \/ KeyFrame(keys)
    \/ SpeedLockFrame(keys)
    \/ HoldSwapFrame(keys)
    \/ HoldReplaceFrame(keys)

(* A cycle with Reset_h high, which the player can cause at any time.      *)
Reset ==
    /\ BlockReset(block_idx)
    /\ BoardReset
    /\ block_idx' = 0
    /\ \E frame_clk \in BOOLEAN : FrameClock(frame_clk)
    /\ \E keys \in KeySets :
          (frame_clk_rising_edge \/ keys = {}) /\ KeyRegisters(keys)
    /\ phase' = "reset"

Init ==
    /\ BlockPowerUp
    /\ BoardPowerUp
    /\ block_idx = 0
    /\ phase = "live"

Next == BetweenFrames \/ (\E keys \in KeySets : Frame(keys)) \/ Reset

Spec == Init /\ [][Next]_vars

(* Clk runs and the frame clock (VGA_VS) keeps toggling.                   *)
FrameClockRuns == WF_vars(Next /\ frame_clk_delayed' # frame_clk_delayed)

(* The player is human: again and again a frame finds no key down, reset   *)
(* included.  A player who alternates keys at every frame holds the block  *)
(* up for as long as he likes: frames with a move do not count down.       *)
KeysComeUp == SF_vars(Frame({}))

FairSpec == Spec /\ FrameClockRuns /\ KeysComeUp

-----------------------------------------------------------------------------
(* Type invariant of the whole game: counters and coordinates stay within  *)
(* the widths of their registers, and the block never leaves the board.    *)
TypeOK ==
    /\ BoardTypeOK
    /\ xy_block \in Block /\ xy_save \in Block
    /\ CellsOf(xy_block) \subseteq Array
    /\ block \in Colors /\ held_block \in Colors
    /\ cur_orientation \in Orientations
    /\ {cur_block_idx, switch_block_idx, block_idx} \subseteq Pieces
    /\ down_counter \in 0..63 /\ speed_counter \in 0..s_speed
    /\ is_block_switched \in BOOLEAN
    /\ old_keys \subseteq EdgeKeys
    /\ frame_clk_delayed \in BOOLEAN /\ frame_clk_rising_edge \in BOOLEAN
    /\ phase \in {"reset", "spawn", "swap", "live"}

(* The cells that blocks have left on the board: what is not the block in  *)
(* play, which is shown at the saved cells once it is painted.             *)
Settled == IF phase \in {"reset", "spawn"} THEN board_arr
                                         ELSE board_arr \ CellsOf(xy_save)

(* At every frame the saved cells are the current ones: a turn computed    *)
(* from them does not undo the move of the frame before, and what the      *)
(* board erases when the block moves is where the block has been shown.    *)
FreshAtFrame == frame_clk_rising_edge => xy_save = xy_block

(* The four cells of the block are on the board and form the block's shape *)
(* in its orientation.  Turns are computed from the saved cells, one cycle *)
(* behind: a turn from stale cells would break the shape.                  *)
PieceShape ==
    /\ InBounds(xy_block)
    /\ block # "EMPTY" =>
          \E idx \in 0..6 : /\ block = ColorOf(idx)
                            /\ HasShape(xy_block, idx, cur_orientation)

(* A block in play never covers a settled cell.                            *)
NoOverlap == phase = "live" => CellsOf(xy_block) \cap Settled = {}

(* The swap index always names the block on hold.  While no swap has been  *)
(* made, cur_block_idx names the block in play; after one it does not.     *)
HeldConsistent ==
    /\ held_block # "EMPTY" => held_block = ColorOf(switch_block_idx)
    /\ ~is_block_switched /\ block # "EMPTY" => block = ColorOf(cur_block_idx)

(* Between blocks no full row stays on the board, unless the garbage that  *)
(* fills the top rows after a drop makes one.                              *)
NoFullRowSettled ==
    state = "PLAY" => \A y \in Rows : \E x \in Columns : <<x, y>> \notin Settled

(* While the game is on, whatever the player does, no settled cell is ever *)
(* removed or added, with one exception: a block that has just come in, by *)
(* spawn or by swap, takes over the cells it comes in on, occupied or not. *)
OnlySpawnErases ==
    [][~BOARD_BUSY /\ phase' \in {"live", "swap"} =>
          Settled' = Settled \ IF phase = "live" THEN {} ELSE CellsOf(xy_block)]_vars

(* A lock leaves all four cells of the block on the board as settled ones, *)
(* and disturbs no other: when it happens, the block has been painted and  *)
(* the board shows it exactly where it is.                                 *)
LockSettles ==
    [][phase' = "spawn" /\ ~BOARD_BUSY
          => /\ phase = "live"
             /\ xy_save = xy_block
             /\ block # "EMPTY" => Settled' = Settled \cup CellsOf(xy_block)]_vars

(* Every block locks in the end (or the game is reset): neither the keys,  *)
(* the hold among them, nor the clearing of rows keeps one up forever.     *)
KeepsLocking == []<>(phase \in {"spawn", "reset"})

(* Every lock, and every reset, gives way to a block that is played, if    *)
(* the player does not keep resetting: the board cannot stay busy.         *)
KeepsPlaying == <>[][~Reset]_vars => []<>(phase = "live")
=============================================================================
