------------------------------- MODULE Board -------------------------------
(***************************************************************************)
(* hdl/board.sv: the 10 x 20 array of colours, the check of the moves that *)
(* block_logic proposes, the detection of full rows and the state machine  *)
(* that clears them, drops what is above and signals the score.            *)
(*                                                                         *)
(* The array is modelled by the set of cells that are not EMPTY: no branch *)
(* of the source tells two colours apart.  All registers change together,  *)
(* on the clock edge: BoardTick(...) is one cycle without reset, with the  *)
(* values on the input ports as parameters, and BoardReset one with reset. *)
(***************************************************************************)
EXTENDS Tetromino, FiniteSets, Sequences

CONSTANTS
    XSize, YSize,   \* x_size and y_size: 10 and 20 in the code
    ClearFrames,    \* clear_frames: 3
    LevelRows,      \* rows cleared at which the level goes up: <<4,10,...,50>>
    LevelSpeeds,    \* frames per row at each level: <<60,30,...,5>>
    TotalWrap,      \* total_num_rows has 11 bits: 2048
    Garbage         \* what a read beyond the array may return: sets of cells
                    \* that appear occupied (see Dropped)

ASSUME BoardAssumption ==
    /\ XSize \in 4..16 /\ YSize \in 4..20
    /\ ClearFrames \in 0..6
    /\ LevelRows \in Seq(Nat)
    /\ LevelSpeeds \in Seq(1..63) /\ Len(LevelSpeeds) = Len(LevelRows) + 1
    /\ TotalWrap \in Nat \ {0}
    /\ Garbage # {}

VARIABLES
    board_arr,       \* the cells of the array that are not EMPTY
    state,           \* of the state machine
    clear_counter,   \* frames spent on the current row in CLEAR
    num_rows_reg,    \* full rows found when the block locked
    clear_y_reg,     \* the lowest of them
    total_num_rows,  \* rows cleared since reset
    level_speed      \* frames per row of fall

boardVars == <<board_arr, state, clear_counter, num_rows_reg, clear_y_reg,
               total_num_rows, level_speed>>

Columns == 0..(XSize - 1)
Rows    == 0..(YSize - 1)
Array   == Columns \X Rows

-----------------------------------------------------------------------------
(* Combinational logic.                                                    *)

Row(y) == {<<x, y>> : x \in Columns}

FullRows(b) == {y \in Rows : Row(y) \subseteq b}

can_clear_row == FullRows(board_arr) # {}
num_rows      == Cardinality(FullRows(board_arr))
clear_y       == IF can_clear_row
                 THEN CHOOSE y \in FullRows(board_arr) :
                          \A z \in FullRows(board_arr) : z <= y
                 ELSE 30

BOARD_BUSY == state # "PLAY"

(* The level of a number of rows, and the speed that goes with it.         *)
Level(total) ==
    1 + Cardinality({i \in 1..Len(LevelRows) : total >= LevelRows[i]})

level_speed_in == LevelSpeeds[Level(total_num_rows)]

(* Faulty form: the last cell is not compared.                             *)
CheckBoardSpaces_Three(to, xy_block) ==
    \A k \in 1..3 : to[k] \notin board_arr \/ to[k] \in CellsOf(xy_block)

(* Faulty form: the lower edge is missed by one row.                       *)
InBounds_OneBelow(to) ==
    \A k \in 1..4 : to[k][1] \in Columns /\ to[k][2] \in 0..YSize

(* can_move: all four cells on the board and each one EMPTY or part of the *)
(* block that moves.                                                       *)
InBounds(to) == \A k \in 1..4 : to[k] \in Array

CheckBoardSpaces(to, xy_block) ==
    \A k \in 1..4 : to[k] \notin board_arr \/ to[k] \in CellsOf(xy_block)

CanMove(to, xy_block) == InBounds(to) /\ CheckBoardSpaces(to, xy_block)

(* PLAY: erase the block where it was, paint it where it is.  Painting a   *)
(* block of no colour, as after power-up, erases.                          *)
Painted(get_new_block, xy_block, xy_save, block) ==
    LET kept == IF get_new_block THEN board_arr
                                 ELSE board_arr \ CellsOf(xy_save)
    IN  IF block = "EMPTY" THEN kept \ CellsOf(xy_block)
                           ELSE kept \cup CellsOf(xy_block)

(* Faulty form: drops by a single row, however many were cleared.          *)
Dropped_ByOne(garbage) ==
    {c \in board_arr : c[2] > clear_y_reg}
      \cup {<<c[1], c[2] + 1>> : c \in {d \in board_arr : d[2] + 1 <= clear_y_reg}}

(* DROP: a row at or above the lowest cleared one is read num_rows_reg     *)
(* rows further up.  For the topmost rows that index is negative, wraps to *)
(* a row the array does not have, and reads garbage.                       *)
Dropped(garbage) ==
    {c \in board_arr : c[2] > clear_y_reg}
      \cup {<<c[1], c[2] + num_rows_reg>> :
               c \in {d \in board_arr : d[2] + num_rows_reg <= clear_y_reg}}
      \cup {c \in garbage : /\ c \in Array
                            /\ c[2] < num_rows_reg /\ c[2] <= clear_y_reg}

-----------------------------------------------------------------------------
(* Sequential logic, one action per state of the machine and input.        *)

Play(get_new_block, xy_block, xy_save, block) ==
    /\ state = "PLAY"
    /\ board_arr' = Painted(get_new_block, xy_block, xy_save, block)
    /\ clear_counter' = 0
    /\ IF get_new_block /\ can_clear_row
       THEN /\ state' = "CLEAR"
            /\ num_rows_reg' = num_rows
            /\ clear_y_reg' = clear_y
            /\ total_num_rows' = (total_num_rows + num_rows) % TotalWrap
       ELSE UNCHANGED <<state, num_rows_reg, clear_y_reg, total_num_rows>>

(* Faulty form: the counter wraps before it gets to clear_frames.          *)
ClearWait_Wraps(edge) ==
    /\ state = "CLEAR"
    /\ ~(edge /\ clear_counter = ClearFrames)
    /\ clear_counter' = IF edge THEN (clear_counter + 1) % ClearFrames
                                ELSE clear_counter
    /\ UNCHANGED <<board_arr, state>>

(* CLEAR counts frames until the row is due.                               *)
ClearWait(edge) ==
    /\ state = "CLEAR"
    /\ ~(edge /\ clear_counter = ClearFrames)
    /\ clear_counter' = IF edge THEN (clear_counter + 1) % 8 ELSE clear_counter
    /\ UNCHANGED <<board_arr, state>>

(* Faulty form: scores after the first row, whatever is left.              *)
AfterClear_First ==
    CASE num_rows = 1 /\ (clear_y_reg - num_rows_reg) % 32 # 0 -> "DROP"
      [] OTHER -> "SCORE"

(* The row is due: clear the lowest full one.  While others are left the   *)
(* machine stays; after the last one it drops the rows above, unless       *)
(* clear_y_reg - num_rows_reg is zero.                                     *)
AfterClear ==
    CASE num_rows = 1 /\ (clear_y_reg - num_rows_reg) % 32 # 0 -> "DROP"
      [] num_rows > 1 -> "CLEAR"
      [] OTHER -> "SCORE"

ClearRow(edge) ==
    /\ state = "CLEAR"
    /\ edge /\ clear_counter = ClearFrames
    /\ board_arr' = IF can_clear_row THEN board_arr \ Row(clear_y) ELSE board_arr
    /\ clear_counter' = IF can_clear_row THEN 0 ELSE (clear_counter + 1) % 8
    /\ state' = AfterClear

DropWait(edge) ==
    /\ state = "DROP"
    /\ ~edge
    /\ clear_counter' = 0
    /\ UNCHANGED <<board_arr, state>>

Drop(edge) ==
    /\ state = "DROP"
    /\ edge
    /\ \E garbage \in Garbage : board_arr' = Dropped(garbage)
    /\ clear_counter' = 0
    /\ state' = "SCORE"

(* SCORE: update_score is high for this one cycle, with num_rows_reg on    *)
(* the port num_lines of the score keeper.                                 *)
Score ==
    /\ state = "SCORE"
    /\ clear_counter' = 0
    /\ state' = "PLAY"
    /\ UNCHANGED board_arr

Busy(edge) ==
    /\ \/ ClearWait(edge) \/ ClearRow(edge)
       \/ DropWait(edge) \/ Drop(edge)
       \/ Score
    /\ UNCHANGED <<num_rows_reg, clear_y_reg, total_num_rows>>

BoardTick(edge, get_new_block, xy_block, xy_save, block) ==
    /\ Play(get_new_block, xy_block, xy_save, block) \/ Busy(edge)
    /\ level_speed' = level_speed_in

(* Faulty form: the number of rows found survives a reset.                 *)
BoardReset_KeepsRows ==
    /\ board_arr' = {}
    /\ clear_counter' = 0
    /\ clear_y_reg' = 0
    /\ total_num_rows' = 0
    /\ level_speed' = LevelSpeeds[1]
    /\ UNCHANGED <<state, num_rows_reg>>

(* Reset clears every register but the state of the machine.               *)
BoardReset ==
    /\ board_arr' = {}
    /\ clear_counter' = 0
    /\ num_rows_reg' = 0
    /\ clear_y_reg' = 0
    /\ total_num_rows' = 0
    /\ level_speed' = LevelSpeeds[1]
    /\ UNCHANGED state

(* Registers come up as zeros, which are EMPTY and PLAY.                   *)
BoardPowerUp ==
    /\ board_arr = {}
    /\ state = "PLAY"
    /\ clear_counter = 0
    /\ num_rows_reg = 0
    /\ clear_y_reg = 0
    /\ total_num_rows = 0
    /\ level_speed = 0

-----------------------------------------------------------------------------
(* Type invariant: the registers stay within their widths.                 *)
BoardTypeOK ==
    /\ board_arr \subseteq Array
    /\ state \in {"PLAY", "CLEAR", "DROP", "SCORE"}
    /\ clear_counter \in 0..7
    /\ num_rows_reg \in 0..YSize
    /\ clear_y_reg \in Rows
    /\ total_num_rows \in 0..(TotalWrap - 1)
    /\ level_speed \in 0..63
=============================================================================
