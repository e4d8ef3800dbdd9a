----------------------------- MODULE Game_proofs -----------------------------
(* Theorems about a player's game, for every board, set of pieces, set of  *)
(* keys, level table and content of the rows beyond the array.             *)
EXTENDS Game, Blocks_proofs

-----------------------------------------------------------------------------
(* The block on hold.                                                      *)

LEMMA HeldNext == HeldConsistent /\ [Next]_vars => HeldConsistent'
<1> SUFFICES ASSUME HeldConsistent, [Next]_vars PROVE HeldConsistent'
  OBVIOUS
<1> USE DEF HeldConsistent
<1>1. CASE BetweenFrames
  BY <1>1 DEF BetweenFrames, Stay, pieceVars, holdVars
<1>2. ASSUME NEW keys \in KeySets, Frame(keys) PROVE HeldConsistent'
  <2>1. CASE BusyFrame(keys)
    BY <2>1 DEF BusyFrame, Stay, pieceVars, holdVars
  <2>2. CASE FallFrame(keys)
    BY <2>2 DEF FallFrame, GravityFall, Fall, holdVars
  <2>3. CASE LockFrame(keys)
    BY <2>3 DEF LockFrame, GravityLock, Lock, SetNewBlockInputs
  <2>4. CASE KeyFrame(keys)
    BY <2>4 DEF KeyFrame, RotateLeft, RotateRight, MoveRight, MoveLeft,
                SpeedWait, SpeedFall, Wait, Turn, Move, Fall, pieceVars, holdVars
  <2>5. CASE SpeedLockFrame(keys)
    BY <2>5 DEF SpeedLockFrame, SpeedLock, Lock, SetNewBlockInputs
  <2>6. CASE HoldSwapFrame(keys)
    BY <2>6 DEF HoldSwapFrame, HoldSwap, Hold, SetNewBlockInputs
  <2>7. CASE HoldReplaceFrame(keys)
    BY <2>7 DEF HoldReplaceFrame, HoldReplace, Hold, SetNewBlockInputs
  <2> QED
    BY <1>2, <2>1, <2>2, <2>3, <2>4, <2>5, <2>6, <2>7 DEF Frame
<1>3. CASE Reset
  BY <1>3 DEF Reset, BlockReset, SetNewBlockInputs
<1>4. CASE UNCHANGED vars
  BY <1>4 DEF vars, blockVars
<1> QED
  BY <1>1, <1>2, <1>3, <1>4 DEF Next

(* The swap index names the block on hold in every reachable state, though *)
(* cur_block_idx is wrong after a swap: is_block_switched keeps the wrong  *)
(* value from ever being saved.                                            *)
THEOREM HeldIsConsistent == Spec => []HeldConsistent
<1>1. Init => HeldConsistent
  BY DEF Init, BlockPowerUp, HeldConsistent
<1> QED
  BY <1>1, HeldNext, PTL DEF Spec

-----------------------------------------------------------------------------
(* Types.  A move is taken only if all four of its target cells are on the *)
(* board, which keeps the coordinates within their five bits and the block *)
(* on the board: TypeOK is inductive.                                      *)

LEMMA ColorOfType == \A idx \in Pieces : ColorOf(idx) \in Colors
BY TetrominoAssumption DEF ColorOf, Colors

LEMMA ArrayInCell == Array \subseteq Cell
<1>1. Columns \subseteq Coord /\ Rows \subseteq Coord
  BY BoardAssumption DEF Columns, Rows, Coord
<1> QED
  BY <1>1 DEF Array, Cell

LEMMA StartCellsType ==
  ASSUME NEW idx \in 0..6
  PROVE  StartCells(idx) \in Block /\ CellsOf(StartCells(idx)) \subseteq Array
<1>1. \A k \in 1..4 : StartCells(idx)[k] \in Array
  <2>1. \A k \in 1..4 : StartAt(idx)[k][1] \in 3..6 /\ StartAt(idx)[k][2] \in 0..1
    BY DEF StartAt
  <2>2. \A x \in 3..6 : x - SpawnShift \in Columns
    BY TetrominoAssumption, BoardAssumption, GameAssumption DEF Columns
  <2>3. 0..1 \subseteq Rows
    BY BoardAssumption DEF Rows
  <2> QED
    BY <2>1, <2>2, <2>3 DEF StartCells, Array
<1> QED
  BY <1>1, ArrayInCell DEF StartCells, Block, CellsOf

(* A target on the board is a block.                                       *)
LEMMA TargetType ==
  ASSUME TypeOK, NEW move \in can_move
  PROVE  Target(move) \in Block /\ CellsOf(Target(move)) \subseteq Array
<1>1. \A k \in 1..4 : Target(move)[k] \in Array
  BY DEF can_move, CanMove, InBounds
<1>2. Target(move) = [k \in 1..4 |-> Target(move)[k]]
  <2>1. move \in {"left", "right", "rotate_left", "rotate_right", "down"}
    BY DEF can_move
  <2>2. xy_save = [k \in 1..4 |-> xy_save[k]]
    BY DEF TypeOK, Block
  <2>3. \A turn : LET to == Rotated(block, cur_orientation, turn, xy_save)
                  IN  to = [k \in 1..4 |-> to[k]]
    BY <2>2 DEF Rotated, Bar
  <2> QED
    BY <2>1, <2>3 DEF Target, Shifted
<1>3. \A k \in 1..4 : Target(move)[k] \in Cell
  BY <1>1, ArrayInCell
<1> QED
  BY <1>1, <1>2, <1>3 DEF Block, CellsOf

LEMMA NewBlockType ==
  ASSUME TypeOK, NEW idx \in Pieces, SetNewBlockInputs(idx, block_idx)
  PROVE  /\ xy_block' \in Block /\ CellsOf(xy_block)' \subseteq Array
         /\ block' \in Colors /\ cur_orientation' \in Orientations
         /\ cur_block_idx' \in Pieces
         /\ down_counter' \in 0..63 /\ speed_counter' \in 0..s_speed
<1>1. xy_block' \in Block /\ CellsOf(xy_block)' \subseteq Array
  BY StartCellsType, TetrominoAssumption DEF SetNewBlockInputs, CellsOf
<1>2. block' \in Colors
  BY ColorOfType DEF SetNewBlockInputs
<1> QED
  BY <1>1, <1>2 DEF TypeOK, SetNewBlockInputs, Orientations, s_speed

(* What block_logic leaves behind when it acts.                            *)
PieceTypeOK ==
    /\ xy_block \in Block /\ xy_save \in Block
    /\ CellsOf(xy_block) \subseteq Array
    /\ block \in Colors /\ held_block \in Colors
    /\ cur_orientation \in Orientations
    /\ cur_block_idx \in Pieces /\ switch_block_idx \in Pieces
    /\ down_counter \in 0..63 /\ speed_counter \in 0..s_speed
    /\ is_block_switched \in BOOLEAN

LEMMA StayType ==
  ASSUME TypeOK, Stay
  PROVE  PieceTypeOK'
BY DEF TypeOK, PieceTypeOK, Stay, pieceVars, holdVars, CellsOf

LEMMA FallType ==
  ASSUME TypeOK, Fall(can_move), speed_counter' \in 0..s_speed
  PROVE  PieceTypeOK'
<1>1. xy_block' \in Block /\ CellsOf(xy_block)' \subseteq Array
  BY TargetType DEF Fall, CellsOf
<1> QED
  BY <1>1 DEF TypeOK, PieceTypeOK, Fall, holdVars

LEMMA LockType ==
  ASSUME TypeOK, Lock(can_move, block_idx)
  PROVE  PieceTypeOK'
<1>1. block_idx \in Pieces
  BY DEF TypeOK
<1>2. SetNewBlockInputs(block_idx, block_idx) /\ xy_save' = StartCells(block_idx)
  BY DEF Lock
<1> QED
  BY <1>1, <1>2, NewBlockType, StartCellsType, TetrominoAssumption
  DEF TypeOK, PieceTypeOK, Lock

LEMMA MovedType ==
  ASSUME TypeOK, NEW move \in can_move, xy_block' = Target(move),
         xy_save' = xy_block, cur_orientation' \in Orientations,
         UNCHANGED <<block, cur_block_idx, holdVars, down_counter, speed_counter>>
  PROVE  PieceTypeOK'
<1>1. xy_block' \in Block /\ CellsOf(xy_block)' \subseteq Array
  BY TargetType DEF CellsOf
<1> QED
  BY <1>1 DEF TypeOK, PieceTypeOK, holdVars

LEMMA HoldType ==
  ASSUME TypeOK, NEW keys, Hold(keys, can_move), NEW idx \in Pieces,
         SetNewBlockInputs(idx, block_idx)
  PROVE  PieceTypeOK'
BY NewBlockType DEF TypeOK, PieceTypeOK, Hold

LEMMA KeyFrameType ==
  ASSUME TypeOK, NEW keys \in KeySets, KeyFrame(keys)
  PROVE  PieceTypeOK'
<1>1. Accepted(keys, can_move) \subseteq can_move
  BY DEF Accepted
<1>2. \A turn : TurnedTo(turn, cur_orientation) \in Orientations
  BY DEF TypeOK, TurnedTo, Orientations
<1>3. CASE RotateLeft(keys, can_move)
  BY <1>1, <1>2, <1>3, MovedType DEF RotateLeft, Turn
<1>4. CASE RotateRight(keys, can_move)
  BY <1>1, <1>2, <1>4, MovedType DEF RotateRight, Turn
<1>5. CASE MoveRight(keys, can_move)
  BY <1>1, <1>5, MovedType DEF MoveRight, Move, TypeOK
<1>6. CASE MoveLeft(keys, can_move)
  BY <1>1, <1>6, MovedType DEF MoveLeft, Move, TypeOK
<1>7. CASE SpeedWait(keys, can_move)
  BY <1>7 DEF SpeedWait, TypeOK, PieceTypeOK, pieceVars, holdVars, s_speed, CellsOf
<1>8. CASE SpeedFall(keys, can_move)
  BY <1>8, FallType DEF SpeedFall, s_speed
<1>9. CASE Wait(keys, can_move)
  BY <1>9 DEF Wait, TypeOK, PieceTypeOK, pieceVars, holdVars, CellsOf
<1> QED
  BY <1>3, <1>4, <1>5, <1>6, <1>7, <1>8, <1>9 DEF KeyFrame

(* What every cycle but a reset does beside the block.                     *)
LEMMA CycleType ==
  ASSUME TypeOK, PieceTypeOK', NEW keys, NEW get, NEW replace,
         Cycle(keys, get, replace), phase' \in {"reset", "spawn", "swap", "live"}
  PROVE  TypeOK'
<1>1. BoardTypeOK'
  BY BoardTickType DEF TypeOK, Cycle
<1>2. frame_clk_delayed' \in BOOLEAN /\ frame_clk_rising_edge' \in BOOLEAN
  BY DEF TypeOK, Cycle, FrameClock
<1>3. old_keys' \subseteq EdgeKeys
  BY DEF TypeOK, Cycle, KeyRegisters
<1>4. block_idx' \in Pieces
  BY DEF TypeOK, Cycle, Generate
<1> QED
  BY <1>1, <1>2, <1>3, <1>4 DEF TypeOK, PieceTypeOK

LEMMA TypeNext == TypeOK /\ [Next]_vars => TypeOK'
<1> SUFFICES ASSUME TypeOK, [Next]_vars PROVE TypeOK'
  OBVIOUS
<1>1. CASE BetweenFrames
  BY <1>1, StayType, CycleType DEF BetweenFrames, Quiet, TypeOK
<1>2. ASSUME NEW keys \in KeySets, Frame(keys) PROVE TypeOK'
  <2>1. CASE BusyFrame(keys)
    BY <2>1, StayType, CycleType DEF BusyFrame, Quiet, TypeOK
  <2>2. CASE FallFrame(keys)
    BY <2>2, FallType, CycleType DEF FallFrame, GravityFall, Quiet, TypeOK
  <2>3. CASE LockFrame(keys)
    BY <2>3, LockType, CycleType DEF LockFrame, GravityLock
  <2>4. CASE KeyFrame(keys)
    BY <2>4, KeyFrameType, CycleType DEF KeyFrame, Quiet
  <2>5. CASE SpeedLockFrame(keys)
    BY <2>5, LockType, CycleType DEF SpeedLockFrame, SpeedLock
  <2>6. CASE HoldSwapFrame(keys)
    BY <2>6, HoldType, CycleType DEF HoldSwapFrame, HoldSwap, Quiet, TypeOK
  <2>7. CASE HoldReplaceFrame(keys)
    BY <2>7, HoldType, CycleType DEF HoldReplaceFrame, HoldReplace, TypeOK
  <2> QED
    BY <1>2, <2>1, <2>2, <2>3, <2>4, <2>5, <2>6, <2>7 DEF Frame
<1>3. CASE Reset
  <2>1. BoardTypeOK'
    BY <1>3, BoardResetType DEF Reset, TypeOK
  <2>2. PieceTypeOK'
    BY <1>3, NewBlockType, StartCellsType, TetrominoAssumption
    DEF Reset, BlockReset, TypeOK, PieceTypeOK, Colors
  <2>3. /\ frame_clk_delayed' \in BOOLEAN /\ frame_clk_rising_edge' \in BOOLEAN
        /\ old_keys' \subseteq EdgeKeys
    BY <1>3 DEF Reset, FrameClock, KeyRegisters, TypeOK
  <2> QED
    BY <1>3, <2>1, <2>2, <2>3, GameAssumption DEF Reset, TypeOK, PieceTypeOK
<1>4. CASE UNCHANGED vars
  BY <1>4 DEF vars, blockVars, boardVars, TypeOK, BoardTypeOK, CellsOf
<1> QED
  BY <1>1, <1>2, <1>3, <1>4 DEF Next

LEMMA TypeInit == Init => TypeOK
<1> SUFFICES ASSUME Init PROVE TypeOK
  OBVIOUS
<1>1. BoardTypeOK
  BY BoardAssumption DEF Init, BoardPowerUp, BoardTypeOK, Rows
<1>2. xy_block \in Block /\ CellsOf(xy_block) \subseteq Array
  BY StartCellsType DEF Init, BlockPowerUp
<1>3. xy_save \in Block
  BY DEF Init, BlockPowerUp, Block, Cell, Coord
<1>4. {cur_block_idx, switch_block_idx, block_idx} \subseteq Pieces
  BY GameAssumption DEF Init, BlockPowerUp
<1>5. down_counter \in 0..63 /\ speed_counter \in 0..s_speed
  BY DEF Init, BlockPowerUp, s_speed
<1>6. /\ block \in Colors /\ held_block \in Colors
      /\ cur_orientation \in Orientations
  BY DEF Init, BlockPowerUp, Colors, Orientations
<1> QED
  BY <1>1, <1>2, <1>3, <1>4, <1>5, <1>6 DEF Init, BlockPowerUp, TypeOK

(* In every reachable state the counters and coordinates are within the    *)
(* widths of their registers, the row registers name rows of the board,    *)
(* and all four cells of the block are on the board.                       *)
THEOREM GameTypeOK == Spec => []TypeOK
BY TypeInit, TypeNext, PTL DEF Spec
-----------------------------------------------------------------------------
(* The saved cells.  After a cycle with a frame edge the frame clock has   *)
(* been high, so the next cycle has none, and that cycle saves the block   *)
(* where it is.                                                            *)

FreshInv == FreshAtFrame /\ (frame_clk_rising_edge => frame_clk_delayed)

LEMMA FreshNext == FreshInv /\ [Next]_vars => FreshInv'
<1> SUFFICES ASSUME FreshInv, [Next]_vars PROVE FreshInv'
  OBVIOUS
<1> USE DEF FreshInv, FreshAtFrame
<1>1. CASE BetweenFrames
  BY <1>1 DEF BetweenFrames, Stay, pieceVars, Quiet, Cycle, FrameClock
<1>2. ASSUME NEW keys \in KeySets, Frame(keys) PROVE FreshInv'
  <2>1. frame_clk_rising_edge
    BY <1>2 DEF Frame, BusyFrame, FallFrame, LockFrame, KeyFrame,
                SpeedLockFrame, HoldSwapFrame, HoldReplaceFrame, FrameInPlay
  <2>2. \E get, replace : Cycle(keys, get, replace)
    BY <1>2 DEF Frame, BusyFrame, FallFrame, LockFrame, KeyFrame,
                SpeedLockFrame, HoldSwapFrame, HoldReplaceFrame, Quiet
  <2>3. ~frame_clk_rising_edge'
    BY <2>1, <2>2 DEF Cycle, FrameClock
  <2> QED
    BY <2>3
<1>3. CASE Reset
  BY <1>3 DEF Reset, BlockReset, SetNewBlockInputs, FrameClock
<1>4. CASE UNCHANGED vars
  BY <1>4 DEF vars, blockVars
<1> QED
  BY <1>1, <1>2, <1>3, <1>4 DEF Next

(* Whenever block_logic acts, the cells it turns from and has the board    *)
(* erase are the ones the block is on.                                     *)
THEOREM SavedCellsAreFresh == Spec => []FreshAtFrame
<1>1. Init => FreshInv
  BY DEF Init, BlockPowerUp, FreshInv, FreshAtFrame
<1>2. FreshInv => FreshAtFrame
  BY DEF FreshInv
<1> QED
  BY <1>1, <1>2, FreshNext, PTL DEF Spec
-----------------------------------------------------------------------------
(* The settled cells.  A block that is played has the board to itself, and *)
(* a block that has just come in is painted before anything else happens   *)
(* to it: its counters are zero, so no lock is due, and only a lock leaves *)
(* the board busy.                                                         *)

PhaseInv ==
    /\ phase \in {"live", "swap"} => ~BOARD_BUSY
    /\ phase = "swap" => ~frame_clk_rising_edge
    /\ phase # "live" => down_counter = 0 /\ speed_counter = 0 /\ level_speed \in 1..63
    /\ phase \in {"spawn", "reset"} => xy_save = xy_block
    /\ phase \in {"reset", "spawn", "swap", "live"}

PlayInv == FreshInv /\ PhaseInv /\ NoOverlap

(* A cycle in which the block comes to be, or stays, on the board: what    *)
(* BetweenFrames, FallFrame and KeyFrame have in common.                   *)
PlaysOn ==
    /\ phase' = "live" /\ block' = block
    /\ xy_block' = xy_block \/ (\E move \in can_move :
                                    frame_clk_rising_edge /\ xy_block' = Target(move))

(* A cycle in which another block comes in by the hold key.                *)
Swaps ==
    /\ phase' = "swap" /\ frame_clk_rising_edge
    /\ down_counter' = 0 /\ speed_counter' = 0

(* Both leave the rest to the board.                                       *)
Paints ==
    /\ ~BOARD_BUSY /\ state' = state
    /\ xy_save' = xy_block
    /\ board_arr' = Painted(FALSE, xy_block, xy_save, block)

(* A lock.                                                                 *)
Locks ==
    /\ ~BOARD_BUSY /\ frame_clk_rising_edge
    /\ GravityDue(level_speed) \/ speed_counter >= s_speed
    /\ phase' = "spawn" /\ xy_save' = xy_block'
    /\ down_counter' = 0 /\ speed_counter' = 0
    /\ board_arr' = Painted(TRUE, xy_block, xy_save, block)
    /\ ~can_clear_row => state' = state
    /\ can_clear_row => state' = "CLEAR"

(* A cycle while the board is busy.                                        *)
Waits ==
    /\ BOARD_BUSY
    /\ xy_save' = xy_block /\ xy_block' = xy_block
    /\ UNCHANGED <<phase, down_counter, speed_counter>>

LEMMA CycleEffect ==
  ASSUME NEW keys, NEW get \in BOOLEAN, NEW replace, Cycle(keys, get, replace)
  PROVE  /\ level_speed' \in 1..63
         /\ frame_clk_rising_edge /\ FreshInv => ~frame_clk_rising_edge'
         /\ ~BOARD_BUSY =>
              /\ board_arr' = Painted(get, xy_block, xy_save, block)
              /\ ~(get /\ can_clear_row) => state' = state
              /\ get /\ can_clear_row => state' = "CLEAR"
         /\ BOARD_BUSY => Busy(frame_clk_rising_edge)
<1>1. level_speed' \in 1..63
  BY LevelSpeedType DEF Cycle, BoardTick
<1>2. frame_clk_rising_edge /\ FreshInv => ~frame_clk_rising_edge'
  BY DEF Cycle, FrameClock, FreshInv
<1>3. Play(get, xy_block, xy_save, block) \/ Busy(frame_clk_rising_edge)
  BY DEF Cycle, BoardTick
<1>4. ~BOARD_BUSY => ~Busy(frame_clk_rising_edge)
  BY DEF BOARD_BUSY, Busy, ClearWait, ClearRow, DropWait, Drop, Score
<1>5. BOARD_BUSY => ~Play(get, xy_block, xy_save, block)
  BY DEF BOARD_BUSY, Play
<1> QED
  BY <1>1, <1>2, <1>3, <1>4, <1>5 DEF Play

(* Every cycle without reset is of one of the four kinds.                  *)
LEMMA CycleKinds ==
  ASSUME BetweenFrames \/ \E keys \in KeySets : Frame(keys)
  PROVE  /\ level_speed' \in 1..63
         /\ frame_clk_rising_edge /\ FreshInv => ~frame_clk_rising_edge'
         /\ BOARD_BUSY => Waits /\ Busy(frame_clk_rising_edge)
         /\ ~BOARD_BUSY => Locks \/ (Paints /\ (PlaysOn \/ Swaps))
<1>1. CASE BetweenFrames
  BY <1>1, CycleEffect
  DEF BetweenFrames, Quiet, Stay, pieceVars, Waits, Paints, PlaysOn
<1>2. ASSUME NEW keys \in KeySets, BusyFrame(keys)
      PROVE  Waits /\ Quiet(keys)
  BY <1>2 DEF BusyFrame, Stay, pieceVars, Waits
<1>3. ASSUME NEW keys \in KeySets, FallFrame(keys) \/ KeyFrame(keys)
      PROVE  FrameInPlay /\ Quiet(keys) /\ PlaysOn /\ xy_save' = xy_block
  <2>1. CASE FallFrame(keys)
    BY <2>1 DEF FallFrame, GravityFall, Fall, FrameInPlay, PlaysOn
  <2>2. CASE KeyFrame(keys)
    <3>1. /\ FrameInPlay /\ Quiet(keys) /\ phase' = "live"
      BY <2>2 DEF KeyFrame
    <3>2. Accepted(keys, can_move) \subseteq can_move
      BY DEF Accepted
    <3>3. /\ xy_save' = xy_block /\ block' = block
          /\ xy_block' = xy_block \/ \E move \in can_move : xy_block' = Target(move)
      BY <2>2, <3>2 DEF KeyFrame, RotateLeft, RotateRight, MoveRight, MoveLeft,
          SpeedWait, SpeedFall, Wait, Turn, Move, Fall, pieceVars
    <3> QED
      BY <3>1, <3>3 DEF PlaysOn, FrameInPlay
  <2> QED
    BY <1>3, <2>1, <2>2
<1>4. ASSUME NEW keys \in KeySets, LockFrame(keys) \/ SpeedLockFrame(keys)
      PROVE  /\ FrameInPlay /\ Cycle(keys, TRUE, FALSE)
             /\ GravityDue(level_speed) \/ speed_counter >= s_speed
             /\ phase' = "spawn" /\ xy_save' = xy_block'
             /\ down_counter' = 0 /\ speed_counter' = 0
  BY <1>4 DEF LockFrame, SpeedLockFrame, GravityLock, SpeedLock, Lock,
              SetNewBlockInputs
<1>5. ASSUME NEW keys \in KeySets, HoldSwapFrame(keys) \/ HoldReplaceFrame(keys)
      PROVE  /\ FrameInPlay /\ \E replace : Cycle(keys, FALSE, replace)
             /\ Swaps /\ xy_save' = xy_block
  BY <1>5 DEF HoldSwapFrame, HoldReplaceFrame, HoldSwap, HoldReplace, Hold,
              SetNewBlockInputs, Quiet, Swaps, FrameInPlay
<1> QED
  BY <1>1, <1>2, <1>3, <1>4, <1>5, CycleEffect
  DEF Frame, BusyFrame, Quiet, FrameInPlay, Waits, Paints, Locks

LEMMA ResetEffect ==
  ASSUME Reset
  PROVE  /\ phase' = "reset" /\ xy_save' = xy_block' /\ board_arr' = {}
         /\ down_counter' = 0 /\ speed_counter' = 0 /\ level_speed' \in 1..63
         /\ state' = state
BY LevelSpeedType DEF Reset, BlockReset, SetNewBlockInputs, BoardReset

LEMMA PhaseNext == FreshInv /\ PhaseInv /\ [Next]_vars => PhaseInv'
<1> SUFFICES ASSUME FreshInv, PhaseInv, [Next]_vars PROVE PhaseInv'
  OBVIOUS
<1>1. CASE BetweenFrames \/ \E keys \in KeySets : Frame(keys)
  BY <1>1, CycleKinds
  DEF PhaseInv, Locks, Paints, PlaysOn, Swaps, Waits, BOARD_BUSY
<1>2. CASE Reset
  BY <1>2, ResetEffect DEF PhaseInv
<1>3. CASE UNCHANGED vars
  BY <1>3 DEF vars, blockVars, boardVars, PhaseInv, BOARD_BUSY
<1> QED
  BY <1>1, <1>2, <1>3 DEF Next

(* A block that plays on: the settled cells are the ones there were before *)
(* it came in, but for those it came in on, and it is on none of them.     *)
LEMMA PlaysOnSettled ==
  ASSUME PlayInv, Paints, PlaysOn
  PROVE  /\ Settled' = Settled \ IF phase = "live" THEN {} ELSE CellsOf(xy_block)
         /\ NoOverlap'
<1> USE DEF Paints, PlaysOn
<1>1. Settled' = board_arr' \ CellsOf(xy_block)
  BY DEF Settled, CellsOf
<1>2. board_arr' \ CellsOf(xy_block) = (board_arr \ CellsOf(xy_save)) \ CellsOf(xy_block)
  BY DEF Painted
<1>3. phase \in {"spawn", "reset"} => CellsOf(xy_save) = CellsOf(xy_block)
  BY DEF PlayInv, PhaseInv
<1>4. Settled' = Settled \ CellsOf(xy_block)
  BY <1>1, <1>2, <1>3 DEF Settled
<1>5. phase = "live" => Settled \ CellsOf(xy_block) = Settled
  BY DEF PlayInv, NoOverlap
<1>6. CellsOf(xy_block)' \cap Settled' = {}
  <2>1. CASE xy_block' = xy_block
    BY <1>4, <2>1 DEF CellsOf
  <2>2. CASE \E move \in can_move :
                 frame_clk_rising_edge /\ xy_block' = Target(move)
    <3>1. CheckBoardSpaces(xy_block', xy_block)
      BY <2>2 DEF can_move, CanMove
    <3>2. \A c \in CellsOf(xy_block)' : c \notin board_arr \/ c \in CellsOf(xy_block)
      BY <3>1 DEF CheckBoardSpaces, CellsOf
    <3>3. Settled \subseteq board_arr
      BY DEF Settled
    <3> QED
      BY <1>4, <3>2, <3>3
  <2> QED
    BY <2>1, <2>2
<1> QED
  BY <1>4, <1>5, <1>6 DEF NoOverlap

(* The hold key: the board takes the old block off, wherever it was.       *)
LEMMA SwapsSettled ==
  ASSUME PlayInv, Paints, Swaps
  PROVE  Settled' = Settled \ IF phase = "live" THEN {} ELSE CellsOf(xy_block)
<1>1. xy_save = xy_block /\ phase # "swap"
  BY DEF PlayInv, FreshInv, FreshAtFrame, PhaseInv, Swaps
<1>2. Settled' = board_arr' \ CellsOf(xy_block)
  BY DEF Settled, CellsOf, Paints, Swaps
<1>3. board_arr' \ CellsOf(xy_block) = board_arr \ CellsOf(xy_block)
  BY <1>1 DEF Paints, Painted
<1>4. phase = "live" => Settled = board_arr \ CellsOf(xy_block)
  BY <1>1 DEF Settled
<1>5. phase # "live" => Settled = board_arr
  BY <1>1 DEF Settled, PlayInv, PhaseInv
<1> QED
  BY <1>2, <1>3, <1>4, <1>5

LEMMA LocksSettled ==
  ASSUME PlayInv, Locks
  PROVE  /\ phase = "live" /\ xy_save = xy_block
         /\ block # "EMPTY" => Settled' = Settled \cup CellsOf(xy_block)
<1>1. phase = "live"
  BY DEF PlayInv, PhaseInv, Locks, GravityDue, s_speed
<1>2. xy_save = xy_block
  BY DEF PlayInv, FreshInv, FreshAtFrame, Locks
<1>3. Settled' = board_arr'
  BY DEF Settled, Locks
<1>4. block # "EMPTY" => board_arr' = board_arr \cup CellsOf(xy_block)
  BY DEF Locks, Painted
<1>5. Settled = board_arr \ CellsOf(xy_block)
  BY <1>1, <1>2 DEF Settled
<1> QED
  BY <1>1, <1>2, <1>3, <1>4, <1>5

LEMMA PlayNext == PlayInv /\ [Next]_vars => PlayInv'
<1> SUFFICES ASSUME PlayInv, [Next]_vars PROVE NoOverlap'
  BY FreshNext, PhaseNext DEF PlayInv
<1>1. CASE BetweenFrames \/ \E keys \in KeySets : Frame(keys)
  <2>1. CASE Waits
    BY <2>1 DEF Waits, PlayInv, PhaseInv, NoOverlap
  <2>2. CASE Locks
    BY <2>2 DEF Locks, NoOverlap
  <2>3. CASE Paints /\ PlaysOn
    BY <2>3, PlaysOnSettled
  <2>4. CASE Paints /\ Swaps
    BY <2>4 DEF Swaps, NoOverlap
  <2> QED
    BY <1>1, <2>1, <2>2, <2>3, <2>4, CycleKinds
<1>2. CASE Reset
  BY <1>2, ResetEffect DEF NoOverlap
<1>3. CASE UNCHANGED vars
  BY <1>3 DEF vars, blockVars, boardVars, PlayInv, NoOverlap, Settled, CellsOf
<1> QED
  BY <1>1, <1>2, <1>3 DEF Next

LEMMA PlayInit == Init => PlayInv
BY DEF Init, BlockPowerUp, BoardPowerUp, PlayInv, FreshInv, FreshAtFrame,
       PhaseInv, BOARD_BUSY, NoOverlap, Settled

(* In every reachable state the block that is played covers no settled     *)
(* cell: board.sv refuses every move onto one, and the block that comes in *)
(* takes over the cells it comes in on before it moves.                    *)
THEOREM BlockApart == Spec => []NoOverlap
<1>1. PlayInv => NoOverlap
  BY DEF PlayInv
<1> QED
  BY <1>1, PlayInit, PlayNext, PTL DEF Spec

(* Every step that keeps the game on leaves the settled cells as they are, *)
(* the cells a new block comes in on excepted.                             *)
THEOREM SettledStays == Spec => OnlySpawnErases
<1> DEFINE Step == ~BOARD_BUSY /\ phase' \in {"live", "swap"} =>
             Settled' = Settled \ IF phase = "live" THEN {} ELSE CellsOf(xy_block)
<1>1. PlayInv /\ [Next]_vars => [Step]_vars
  <2> SUFFICES ASSUME PlayInv, Next, ~BOARD_BUSY, phase' \in {"live", "swap"}
               PROVE  Step
    OBVIOUS
  <2>1. CASE Reset
    BY <2>1, ResetEffect
  <2>2. CASE BetweenFrames \/ \E keys \in KeySets : Frame(keys)
    <3>1. ~Locks
      BY DEF Locks
    <3> QED
      BY <2>2, <3>1, CycleKinds, PlaysOnSettled, SwapsSettled
  <2> QED
    BY <2>1, <2>2 DEF Next
<1> HIDE DEF Step
<1>2. Spec => [][Step]_vars
  BY <1>1, PlayInit, PlayNext, PTL DEF Spec
<1> QED
  BY <1>2 DEF OnlySpawnErases, Step

(* Every lock finds the block painted where it is, and adds its four cells *)
(* and no other to the settled ones.  (When a lock is due is not said.)    *)
THEOREM LockIsExact == Spec => LockSettles
<1> DEFINE Step == phase' = "spawn" /\ ~BOARD_BUSY
             => /\ phase = "live"
                /\ xy_save = xy_block
                /\ block # "EMPTY" => Settled' = Settled \cup CellsOf(xy_block)
<1>1. PlayInv /\ [Next]_vars => [Step]_vars
  <2> SUFFICES ASSUME PlayInv, Next, ~BOARD_BUSY, phase' = "spawn"
               PROVE  Step
    OBVIOUS
  <2>1. ~Reset
    BY ResetEffect
  <2>2. ~PlaysOn /\ ~Swaps
    BY DEF PlaysOn, Swaps
  <2> QED
    BY <2>1, <2>2, CycleKinds, LocksSettled DEF Next
<1> HIDE DEF Step
<1>2. Spec => [][Step]_vars
  BY <1>1, PlayInit, PlayNext, PTL DEF Spec
<1> QED
  BY <1>2 DEF LockSettles, Step
-----------------------------------------------------------------------------
(* Full rows.  Between blocks only the last full row is cleared into a     *)
(* board without one, and a row of the block in play can only be full with *)
(* the block, which the board shows when it locks.                         *)

RowsInv ==
    /\ FullRows(Settled) = {} \/ state = "CLEAR"
    /\ phase = "live" /\ block # "EMPTY" => CellsOf(xy_save) \subseteq board_arr

LEMMA BusyRows ==
  ASSUME TypeOK, RowsInv, PlainGarbage, phase \in {"spawn", "reset"},
         NEW edge, Busy(edge)
  PROVE  FullRows(board_arr)' = {} \/ state' = "CLEAR"
<1>1. Settled = board_arr
  BY DEF Settled
<1>2. CASE ClearWait(edge)
  BY <1>2 DEF ClearWait
<1>3. CASE ClearRow(edge) /\ can_clear_row
  <2>1. clear_y \in Rows
    BY <1>3, ClearYType
  <2>2. FullRows(board_arr') = FullRows(board_arr) \ {clear_y}
    BY <1>3, <2>1, FullRowsCleared DEF ClearRow
  <2>3. num_rows = 1 => FullRows(board_arr)' = {}
    BY <2>2, LastFullRow DEF FullRows, Row
  <2>4. num_rows # 0
    BY <1>3, NoFullRows DEF can_clear_row
  <2>5. num_rows \in Nat /\ (num_rows # 0 /\ num_rows # 1 => num_rows > 1)
    BY NumRowsType, BoardAssumption
  <2>6. num_rows > 1 /\ num_rows # 1 => state' = "CLEAR"
    BY <1>3 DEF ClearRow, AfterClear
  <2> QED
    BY <2>3, <2>4, <2>5, <2>6
<1>4. CASE ClearRow(edge) /\ ~can_clear_row
  BY <1>4 DEF ClearRow, can_clear_row
<1>5. CASE DropWait(edge)
  BY <1>1, <1>5 DEF DropWait, RowsInv
<1>6. CASE Drop(edge)
  <2>1. FullRows(board_arr) = {}
    BY <1>1, <1>6 DEF Drop, RowsInv
  <2>2. PICK garbage \in Garbage : board_arr' = Dropped(garbage)
    BY <1>6 DEF Drop
  <2>3. FullRows(Dropped(garbage)) = {}
    BY <2>1, DroppedRows DEF TypeOK
  <2> QED
    BY <2>2, <2>3
<1>7. CASE Score
  BY <1>1, <1>7 DEF Score, RowsInv
<1> QED
  BY <1>2, <1>3, <1>4, <1>5, <1>6, <1>7 DEF Busy

LEMMA RowsNext ==
  ASSUME TypeOK, PlayInv, RowsInv, PlainGarbage, [Next]_vars
  PROVE  RowsInv'
<1>1. ASSUME Settled' \subseteq Settled, state' = state
      PROVE  (FullRows(Settled) = {} \/ state = "CLEAR")'
  <2>1. FullRows(Settled') \subseteq FullRows(Settled)
    BY <1>1, FullRowsShrink
  <2> QED
    BY <1>1, <2>1 DEF RowsInv, FullRows, Row
<1>2. CASE BetweenFrames \/ \E keys \in KeySets : Frame(keys)
  <2>1. CASE Waits /\ Busy(frame_clk_rising_edge)
    <3>1. phase \in {"spawn", "reset"}
      BY <2>1 DEF Waits, PlayInv, PhaseInv
    <3>2. FullRows(board_arr)' = {} \/ state' = "CLEAR"
      BY <2>1, <3>1, BusyRows
    <3> QED
      BY <2>1, <3>1, <3>2 DEF Waits, RowsInv, Settled, FullRows, Row
  <2>2. CASE Locks
    <3>1. board_arr' \subseteq board_arr
      BY <2>2, LocksSettled DEF Locks, Painted, RowsInv
    <3>2. FullRows(board_arr') \subseteq FullRows(board_arr)
      BY <3>1, FullRowsShrink
    <3>3. ~can_clear_row => FullRows(board_arr') = {}
      BY <3>2 DEF can_clear_row
    <3>4. Settled' = board_arr' /\ phase' # "live"
      BY <2>2 DEF Locks, Settled
    <3>5. can_clear_row => state' = "CLEAR"
      BY <2>2 DEF Locks
    <3>6. FullRows(Settled)' = FullRows(board_arr')
      BY <3>4 DEF FullRows, Row, Settled
    <3> QED
      BY <3>3, <3>4, <3>5, <3>6 DEF RowsInv
  <2>3. CASE Paints /\ PlaysOn
    <3>1. Settled' \subseteq Settled
      BY <2>3, PlaysOnSettled
    <3>2. block' # "EMPTY" => CellsOf(xy_save)' \subseteq board_arr'
      BY <2>3 DEF Paints, PlaysOn, Painted, CellsOf
    <3> QED
      BY <1>1, <2>3, <3>1, <3>2 DEF Paints, RowsInv
  <2>4. CASE Paints /\ Swaps
    <3>1. Settled' \subseteq Settled
      BY <2>4, SwapsSettled
    <3> QED
      BY <1>1, <2>4, <3>1 DEF Paints, Swaps, RowsInv
  <2> QED
    BY <1>2, <2>1, <2>2, <2>3, <2>4, CycleKinds
<1>3. CASE Reset
  <2>1. 0 \in Columns
    BY BoardAssumption DEF Columns
  <2>2. Settled' = {} /\ phase' # "live"
    BY <1>3, ResetEffect DEF Settled
  <2>3. FullRows(Settled)' = {}
    BY <2>1, <2>2 DEF FullRows, Row
  <2> QED
    BY <2>2, <2>3 DEF RowsInv
<1>4. CASE UNCHANGED vars
  BY <1>4
  DEF vars, blockVars, boardVars, RowsInv, Settled, CellsOf, FullRows, Row
<1> QED
  BY <1>2, <1>3, <1>4 DEF Next

(* While a block is in play no full row is left among the settled cells,   *)
(* on every board and for every sequence of drops, if no row beyond the    *)
(* array reads as full: the machine clears as many rows as it has counted  *)
(* and leaves CLEAR only when the last one goes.                           *)
THEOREM NoFullRowStays == PlainGarbage => (Spec => []NoFullRowSettled)
<1> SUFFICES ASSUME PlainGarbage PROVE Spec => []NoFullRowSettled
  OBVIOUS
<1>1. Init => RowsInv
  <2> SUFFICES ASSUME Init PROVE RowsInv
    OBVIOUS
  <2>1. 0 \in Columns
    BY BoardAssumption DEF Columns
  <2>2. Settled = {} /\ block = "EMPTY"
    BY DEF Init, BlockPowerUp, BoardPowerUp, Settled
  <2> QED
    BY <2>1, <2>2 DEF RowsInv, FullRows, Row
<1>2. RowsInv => NoFullRowSettled
  BY DEF RowsInv, NoFullRowSettled, FullRows, Row
<1>3. TypeOK /\ PlayInv /\ RowsInv /\ [Next]_vars => RowsInv'
  BY RowsNext
<1> QED
  BY <1>1, <1>2, <1>3, TypeInit, TypeNext, PlayInit, PlayNext, PTL DEF Spec
-----------------------------------------------------------------------------
(* The shape of the block.  A turn starts from the saved cells, which at a *)
(* frame are the current ones, and is taken only if it ends on the board;  *)
(* the rest is the tables'.                                                *)

ShapeInv ==
    block # "EMPTY" =>
        \E idx \in 0..6 : /\ block = ColorOf(idx)
                          /\ HasShape(xy_block, idx, cur_orientation)

LEMMA ArrayOnBoard ==
  ASSUME NEW blk \in Block, CellsOf(blk) \subseteq Array
  PROVE  OnBoard(blk)
<1>1. Columns \subseteq 0..19 /\ Rows \subseteq 0..19
  BY BoardAssumption DEF Columns, Rows
<1>2. \A k \in 1..4 : blk[k] \in Array
  BY DEF CellsOf
<1> QED
  BY <1>1, <1>2 DEF OnBoard, Array

LEMMA MovedShape ==
  ASSUME TypeOK, ShapeInv, FreshAtFrame, frame_clk_rising_edge,
         NEW move \in can_move, xy_block' = Target(move), block' = block,
         cur_orientation' = CASE move = "rotate_left"  -> TurnedTo("LEFT", cur_orientation)
                              [] move = "rotate_right" -> TurnedTo("RIGHT", cur_orientation)
                              [] OTHER -> cur_orientation
  PROVE  ShapeInv'
<1> SUFFICES ASSUME block # "EMPTY" PROVE ShapeInv'
  BY DEF ShapeInv
<1>1. PICK idx \in 0..6 : block = ColorOf(idx) /\ HasShape(xy_block, idx, cur_orientation)
  BY DEF ShapeInv
<1>2. OnBoard(xy_block) /\ OnBoard(Target(move))
  BY TargetType, ArrayOnBoard DEF TypeOK
<1>3. xy_save = xy_block
  BY DEF FreshAtFrame
<1>4. cur_orientation \in Orientations /\ "LEFT" \in Turns /\ "RIGHT" \in Turns
  BY DEF TypeOK, Turns
<1>5. move \in {"left", "right", "rotate_left", "rotate_right", "down"}
  BY DEF can_move
<1>6. HasShape(Target(move), idx, cur_orientation')
  <2>1. CASE move \in {"left", "right", "down"}
    <3>1. cur_orientation' = cur_orientation
      BY <2>1
    <3>2. CASE move = "left"
      BY <1>1, <1>2, <1>4, <3>1, <3>2, ShiftKeepsShape DEF Target
    <3>3. CASE move = "right"
      BY <1>1, <1>2, <1>4, <3>1, <3>3, ShiftKeepsShape DEF Target
    <3>4. CASE move = "down"
      BY <1>1, <1>2, <1>4, <3>1, <3>4, ShiftKeepsShape DEF Target
    <3> QED
      BY <2>1, <3>2, <3>3, <3>4
  <2>2. CASE move = "rotate_left"
    <3>1. Target(move) = Rotated(ColorOf(idx), cur_orientation, "LEFT", xy_block)
      BY <1>1, <1>3, <2>2 DEF Target
    <3>2. cur_orientation' = TurnedTo("LEFT", cur_orientation)
      BY <2>2
    <3> QED
      BY <1>1, <1>2, <1>4, <3>1, <3>2, TurnKeepsShape
  <2>3. CASE move = "rotate_right"
    <3>1. Target(move) = Rotated(ColorOf(idx), cur_orientation, "RIGHT", xy_block)
      BY <1>1, <1>3, <2>3 DEF Target
    <3>2. cur_orientation' = TurnedTo("RIGHT", cur_orientation)
      BY <2>3
    <3> QED
      BY <1>1, <1>2, <1>4, <3>1, <3>2, TurnKeepsShape
  <2> QED
    BY <1>5, <2>1, <2>2, <2>3
<1> QED
  BY <1>1, <1>6 DEF ShapeInv

LEMMA NewShape ==
  ASSUME NEW idx \in Pieces, SetNewBlockInputs(idx, block_idx)
  PROVE  ShapeInv'
<1>1. idx \in 0..6
  BY TetrominoAssumption
<1> QED
  BY <1>1, StartHasShape DEF SetNewBlockInputs, ShapeInv

LEMMA KeptShape ==
  ASSUME ShapeInv, UNCHANGED <<xy_block, block, cur_orientation>>
  PROVE  ShapeInv'
BY DEF ShapeInv

LEMMA KeyFrameShape ==
  ASSUME TypeOK, ShapeInv, FreshAtFrame, NEW keys \in KeySets, KeyFrame(keys)
  PROVE  ShapeInv'
<1> USE DEF Accepted
<1>1. frame_clk_rising_edge
  BY DEF KeyFrame, FrameInPlay
<1>2. CASE RotateLeft(keys, can_move)
  BY <1>1, <1>2, MovedShape DEF RotateLeft, Turn
<1>3. CASE RotateRight(keys, can_move)
  BY <1>1, <1>3, MovedShape DEF RotateRight, Turn
<1>4. CASE MoveRight(keys, can_move)
  BY <1>1, <1>4, MovedShape DEF MoveRight, Move
<1>5. CASE MoveLeft(keys, can_move)
  <2>1. "left" \in can_move
    BY <1>5 DEF MoveLeft
  <2> QED
    BY <1>1, <1>5, <2>1, MovedShape DEF MoveLeft, Move
<1>6. CASE SpeedWait(keys, can_move) \/ Wait(keys, can_move)
  BY <1>6, KeptShape DEF SpeedWait, Wait, pieceVars
<1>7. CASE SpeedFall(keys, can_move)
  BY <1>1, <1>7, MovedShape DEF SpeedFall, Fall
<1> QED
  BY <1>2, <1>3, <1>4, <1>5, <1>6, <1>7 DEF KeyFrame

LEMMA ShapeNext ==
  ASSUME TypeOK, FreshInv, ShapeInv, [Next]_vars
  PROVE  ShapeInv'
<1>1. FreshAtFrame
  BY DEF FreshInv
<1>2. CASE BetweenFrames
  BY <1>2, KeptShape DEF BetweenFrames, Stay, pieceVars
<1>3. ASSUME NEW keys \in KeySets, Frame(keys) PROVE ShapeInv'
  <2>1. CASE BusyFrame(keys)
    BY <2>1, KeptShape DEF BusyFrame, Stay, pieceVars
  <2>2. CASE FallFrame(keys)
    BY <1>1, <2>2, MovedShape DEF FallFrame, FrameInPlay, GravityFall, Fall
  <2>3. CASE LockFrame(keys) \/ SpeedLockFrame(keys)
    BY <2>3, NewShape DEF LockFrame, SpeedLockFrame, GravityLock, SpeedLock, Lock, TypeOK
  <2>4. CASE KeyFrame(keys)
    BY <1>1, <2>4, KeyFrameShape
  <2>5. CASE HoldSwapFrame(keys)
    BY <2>5, NewShape DEF HoldSwapFrame, HoldSwap, TypeOK
  <2>6. CASE HoldReplaceFrame(keys)
    BY <2>6, NewShape DEF HoldReplaceFrame, HoldReplace, TypeOK
  <2> QED
    BY <1>3, <2>1, <2>2, <2>3, <2>4, <2>5, <2>6 DEF Frame
<1>4. CASE Reset
  BY <1>4, NewShape DEF Reset, BlockReset, TypeOK
<1>5. CASE UNCHANGED vars
  BY <1>5, KeptShape DEF vars, blockVars
<1> QED
  BY <1>2, <1>3, <1>4, <1>5 DEF Next

(* The block in play always has the shape of its colour in its             *)
(* orientation, whatever moves, turns, falls and swaps brought it there:   *)
(* the tables of rotate_blocks.sv fit together, and never see stale cells. *)
THEOREM ShapeKept == Spec => []PieceShape
<1>1. Init => ShapeInv
  BY DEF Init, BlockPowerUp, ShapeInv
<1>2. TypeOK /\ FreshInv /\ ShapeInv /\ [Next]_vars => ShapeInv'
  BY ShapeNext
<1>3. TypeOK /\ ShapeInv => PieceShape
  BY DEF TypeOK, ShapeInv, PieceShape, InBounds, CellsOf
<1>4. Init => FreshInv
  BY DEF Init, BlockPowerUp, FreshInv, FreshAtFrame
<1> QED
  BY <1>1, <1>2, <1>3, <1>4, TypeInit, TypeNext, FreshNext, PTL DEF Spec
=============================================================================
