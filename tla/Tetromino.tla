----------------------------- MODULE Tetromino -----------------------------
(***************************************************************************)
(* What every hardware module shares: the colours and orientations of      *)
(* hdl/types.sv, the 5-bit coordinates, and the tables of hdl/block_logic  *)
(* that map a block index to a colour and to the four cells a new block    *)
(* starts on.  A 20-bit bus such as x_block packs four coordinates; here   *)
(* a block is a function from 1..4 (bits [19:15] first) to pairs <<x, y>>. *)
(* Then hdl/rotate_blocks.sv, which turns a block.                         *)
(***************************************************************************)
EXTENDS Integers

CONSTANTS
    SpawnShift,  \* how far left of its column in the source a block starts
                 \* (0 in the code): lets a narrow board stand for the real one
    Pieces       \* the block indices in play, 0..6 in the code

ASSUME TetrominoAssumption ==
    /\ SpawnShift \in 0..3
    /\ Pieces # {} /\ Pieces \subseteq 0..6

Colors == {"EMPTY", "CYAN", "BLUE", "ORANGE", "YELLOW", "GREEN", "MAGENTA",
           "RED"}
Orientations == {"NORMAL", "ROT_LEFT", "ROT2", "ROT_RIGHT"}

Coord == 0..31                      \* a 5-bit coordinate
Cell  == Coord \X Coord
Block == [1..4 -> Cell]

(* 5-bit addition and subtraction wrap.                                    *)
Add5(a, b) == (a + b) % 32

(* block_color_choices: the colour of a block index.                       *)
ColorOf(idx) ==
    CASE idx = 0 -> "CYAN"   [] idx = 1 -> "BLUE"    [] idx = 2 -> "ORANGE"
      [] idx = 3 -> "YELLOW" [] idx = 4 -> "GREEN"   [] idx = 5 -> "MAGENTA"
      [] idx = 6 -> "RED"

(* x_block_choices and y_block_choices.                                    *)
StartAt(idx) ==
    CASE idx = 0 -> <<<<3, 0>>, <<4, 0>>, <<5, 0>>, <<6, 0>>>>
      [] idx = 1 -> <<<<4, 0>>, <<4, 1>>, <<5, 1>>, <<6, 1>>>>
      [] idx = 2 -> <<<<6, 0>>, <<6, 1>>, <<5, 1>>, <<4, 1>>>>
      [] idx = 3 -> <<<<4, 0>>, <<5, 0>>, <<4, 1>>, <<5, 1>>>>
      [] idx = 4 -> <<<<6, 0>>, <<5, 0>>, <<5, 1>>, <<4, 1>>>>
      [] idx = 5 -> <<<<4, 1>>, <<5, 0>>, <<5, 1>>, <<6, 1>>>>
      [] idx = 6 -> <<<<4, 0>>, <<5, 0>>, <<5, 1>>, <<6, 1>>>>

StartCells(idx) ==
    [k \in 1..4 |-> <<StartAt(idx)[k][1] - SpawnShift, StartAt(idx)[k][2]>>]

(* The cells of a block, as a set.                                         *)
CellsOf(blk) == {blk[k] : k \in 1..4}

(* x_move_left, x_move_right, y_move_down: every cell moved by one.        *)
Shifted(blk, dx, dy) ==
    [k \in 1..4 |-> <<Add5(blk[k][1], dx), Add5(blk[k][2], dy)>>]

-----------------------------------------------------------------------------
(* hdl/rotate_blocks.sv: where the four cells of a block go when it turns. *)
(* The source spells every case out; for all colours but CYAN each cell    *)
(* moves by a constant, given here as one table per colour, indexed by the *)
(* direction of the turn and the orientation the block has before it.      *)

Turns == {"LEFT", "RIGHT"}

BlueTurn ==
    [LEFT  |-> [NORMAL    |-> <<<< 0,  2>>, << 1,  1>>, << 0,  0>>, <<-1, -1>>>>,
                ROT_LEFT  |-> <<<< 2,  0>>, << 1, -1>>, << 0,  0>>, <<-1,  1>>>>,
                ROT2      |-> <<<< 0, -2>>, <<-1, -1>>, << 0,  0>>, << 1,  1>>>>,
                ROT_RIGHT |-> <<<<-2,  0>>, <<-1,  1>>, << 0,  0>>, << 1, -1>>>>],
     RIGHT |-> [NORMAL    |-> <<<< 2,  0>>, << 1, -1>>, << 0,  0>>, <<-1,  1>>>>,
                ROT_LEFT  |-> <<<< 0, -2>>, <<-1, -1>>, << 0,  0>>, << 1,  1>>>>,
                ROT2      |-> <<<<-2,  0>>, <<-1,  1>>, << 0,  0>>, << 1, -1>>>>,
                ROT_RIGHT |-> <<<< 0,  2>>, << 1,  1>>, << 0,  0>>, <<-1, -1>>>>]]

OrangeTurn ==
    [LEFT  |-> [NORMAL    |-> <<<<-2,  0>>, <<-1, -1>>, << 0,  0>>, << 1,  1>>>>,
                ROT_LEFT  |-> <<<< 0,  2>>, <<-1,  1>>, << 0,  0>>, << 1, -1>>>>,
                ROT2      |-> <<<< 2,  0>>, << 1,  1>>, << 0,  0>>, <<-1, -1>>>>,
                ROT_RIGHT |-> <<<< 0, -2>>, << 1, -1>>, << 0,  0>>, <<-1,  1>>>>],
     RIGHT |-> [NORMAL    |-> <<<< 0,  2>>, <<-1,  1>>, << 0,  0>>, << 1, -1>>>>,
                ROT_LEFT  |-> <<<< 2,  0>>, << 1,  1>>, << 0,  0>>, <<-1, -1>>>>,
                ROT2      |-> <<<< 0, -2>>, << 1, -1>>, << 0,  0>>, <<-1,  1>>>>,
                ROT_RIGHT |-> <<<<-2,  0>>, <<-1, -1>>, << 0,  0>>, << 1,  1>>>>]]

GreenTurn ==
    [LEFT  |-> [NORMAL    |-> <<<<-2,  0>>, <<-1,  1>>, << 0,  0>>, << 1,  1>>>>,
                ROT_LEFT  |-> <<<< 0,  2>>, << 1,  1>>, << 0,  0>>, << 1, -1>>>>,
                ROT2      |-> <<<< 2,  0>>, << 1, -1>>, << 0,  0>>, <<-1, -1>>>>,
                ROT_RIGHT |-> <<<< 0, -2>>, <<-1, -1>>, << 0,  0>>, <<-1,  1>>>>],
     RIGHT |-> [NORMAL    |-> <<<< 0,  2>>, << 1,  1>>, << 0,  0>>, << 1, -1>>>>,
                ROT_LEFT  |-> <<<< 2,  0>>, << 1, -1>>, << 0,  0>>, <<-1, -1>>>>,
                ROT2      |-> <<<< 0, -2>>, <<-1, -1>>, << 0,  0>>, <<-1,  1>>>>,
                ROT_RIGHT |-> <<<<-2,  0>>, <<-1,  1>>, << 0,  0>>, << 1,  1>>>>]]

RedTurn ==
    [LEFT  |-> [NORMAL    |-> <<<< 0,  2>>, <<-1,  1>>, << 0,  0>>, <<-1, -1>>>>,
                ROT_LEFT  |-> <<<< 2,  0>>, << 1,  1>>, << 0,  0>>, <<-1,  1>>>>,
                ROT2      |-> <<<< 0, -2>>, << 1, -1>>, << 0,  0>>, << 1,  1>>>>,
                ROT_RIGHT |-> <<<<-2,  0>>, <<-1, -1>>, << 0,  0>>, << 1, -1>>>>],
     RIGHT |-> [NORMAL    |-> <<<< 2,  0>>, << 1,  1>>, << 0,  0>>, <<-1,  1>>>>,
                ROT_LEFT  |-> <<<< 0, -2>>, << 1, -1>>, << 0,  0>>, << 1,  1>>>>,
                ROT2      |-> <<<<-2,  0>>, <<-1, -1>>, << 0,  0>>, << 1, -1>>>>,
                ROT_RIGHT |-> <<<< 0,  2>>, <<-1,  1>>, << 0,  0>>, <<-1, -1>>>>]]

MagentaTurn ==
    [LEFT  |-> [NORMAL    |-> <<<< 1,  1>>, <<-1,  1>>, << 0,  0>>, <<-1, -1>>>>,
                ROT_LEFT  |-> <<<< 1, -1>>, << 1,  1>>, << 0,  0>>, <<-1,  1>>>>,
                ROT2      |-> <<<<-1, -1>>, << 1, -1>>, << 0,  0>>, << 1,  1>>>>,
                ROT_RIGHT |-> <<<<-1,  1>>, <<-1, -1>>, << 0,  0>>, << 1, -1>>>>],
     RIGHT |-> [NORMAL    |-> <<<< 1, -1>>, << 1,  1>>, << 0,  0>>, <<-1,  1>>>>,
                ROT_LEFT  |-> <<<<-1, -1>>, << 1, -1>>, << 0,  0>>, << 1,  1>>>>,
                ROT2      |-> <<<<-1,  1>>, <<-1, -1>>, << 0,  0>>, << 1, -1>>>>,
                ROT_RIGHT |-> <<<< 1,  1>>, <<-1,  1>>, << 0,  0>>, <<-1, -1>>>>]]

TurnTable ==
    [BLUE |-> BlueTurn, ORANGE |-> OrangeTurn, GREEN |-> GreenTurn,
     RED |-> RedTurn, MAGENTA |-> MagentaTurn]

(* The bar is rebuilt as a line: an x and a y taken from one cell each,    *)
(* and the first offset of the run, which goes along one of the axes.      *)
(* Faulty form: one turn of the bar takes its row from the wrong cell.     *)
CyanTurn_WrongCell ==
    [LEFT  |-> [NORMAL    |-> [x |-> 2, y |-> 4, axis |-> "y", first |-> -1],
                ROT_LEFT  |-> [x |-> 3, y |-> 2, axis |-> "x", first |-> -1],
                ROT2      |-> [x |-> 3, y |-> 3, axis |-> "y", first |-> -2],
                ROT_RIGHT |-> [x |-> 3, y |-> 2, axis |-> "x", first |-> -2]],
     RIGHT |-> [NORMAL    |-> [x |-> 3, y |-> 4, axis |-> "y", first |-> -1],
                ROT_LEFT  |-> [x |-> 3, y |-> 2, axis |-> "x", first |-> -1],
                ROT2      |-> [x |-> 2, y |-> 3, axis |-> "y", first |-> -2],
                ROT_RIGHT |-> [x |-> 3, y |-> 3, axis |-> "x", first |-> -2]]]

CyanTurn ==
    [LEFT  |-> [NORMAL    |-> [x |-> 2, y |-> 4, axis |-> "y", first |-> -1],
                ROT_LEFT  |-> [x |-> 3, y |-> 3, axis |-> "x", first |-> -1],
                ROT2      |-> [x |-> 3, y |-> 3, axis |-> "y", first |-> -2],
                ROT_RIGHT |-> [x |-> 3, y |-> 2, axis |-> "x", first |-> -2]],
     RIGHT |-> [NORMAL    |-> [x |-> 3, y |-> 4, axis |-> "y", first |-> -1],
                ROT_LEFT  |-> [x |-> 3, y |-> 2, axis |-> "x", first |-> -1],
                ROT2      |-> [x |-> 2, y |-> 3, axis |-> "y", first |-> -2],
                ROT_RIGHT |-> [x |-> 3, y |-> 3, axis |-> "x", first |-> -2]]]

Bar(blk, row) ==
    [k \in 1..4 |->
        <<Add5(blk[row.x][1], IF row.axis = "x" THEN row.first + k - 1 ELSE 0),
          Add5(blk[row.y][2], IF row.axis = "y" THEN row.first + k - 1 ELSE 0)>>]

(* The square does not turn; a block of no colour gets the default zeros.  *)
Rotated(block, orientation, turn, blk) ==
    CASE block = "EMPTY"  -> [k \in 1..4 |-> <<0, 0>>]
      [] block = "YELLOW" -> blk
      [] block = "CYAN"   -> Bar(blk, CyanTurn[turn][orientation])
      [] OTHER -> LET delta == TurnTable[block][turn][orientation]
                  IN  [k \in 1..4 |-> <<Add5(blk[k][1], delta[k][1]),
                                        Add5(blk[k][2], delta[k][2])>>]

(* The orientation after a turn (hdl/block_logic.sv).                      *)
TurnedTo(turn, orientation) ==
    LET left == [NORMAL |-> "ROT_LEFT", ROT_LEFT |-> "ROT2",
                 ROT2 |-> "ROT_RIGHT", ROT_RIGHT |-> "NORMAL"]
        right == [NORMAL |-> "ROT_RIGHT", ROT_RIGHT |-> "ROT2",
                  ROT2 |-> "ROT_LEFT", ROT_LEFT |-> "NORMAL"]
    IN  IF turn = "LEFT" THEN left[orientation] ELSE right[orientation]

-----------------------------------------------------------------------------
(* Reference: the geometry the tables stand for.  With y growing downward, *)
(* a left (counter-clockwise) quarter turn maps the offset <<x, y>> from   *)
(* the pivot to <<y, -x>>.                                                 *)
QuarterLeft(o) == <<o[2], -o[1]>>

TurnedOffset(o, orientation) ==
    CASE orientation = "NORMAL"    -> o
      [] orientation = "ROT_LEFT"  -> QuarterLeft(o)
      [] orientation = "ROT2"      -> QuarterLeft(QuarterLeft(o))
      [] orientation = "ROT_RIGHT" -> QuarterLeft(QuarterLeft(QuarterLeft(o)))

(* Cell k of block idx relative to its third cell.  Three shapes: the bar, *)
(* whose cells keep their order along an axis, the square, which never     *)
(* turns, and the blocks that turn about their third cell.                 *)
ShapeOffset(idx, orientation, k) ==
    LET o == <<StartAt(idx)[k][1] - StartAt(idx)[3][1],
               StartAt(idx)[k][2] - StartAt(idx)[3][2]>>
    IN  CASE idx = 0 -> IF orientation \in {"NORMAL", "ROT2"}
                        THEN <<k - 3, 0>> ELSE <<0, k - 3>>
          [] idx = 3 -> o
          [] OTHER   -> TurnedOffset(o, orientation)

HasShape(blk, idx, orientation) ==
    \A k \in 1..4 :
        /\ blk[k][1] = blk[3][1] + ShapeOffset(idx, orientation, k)[1]
        /\ blk[k][2] = blk[3][2] + ShapeOffset(idx, orientation, k)[2]
=============================================================================
