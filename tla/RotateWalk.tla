----------------------------- MODULE RotateWalk -----------------------------
(***************************************************************************)
(* A block that turns in free space: the tables of hdl/rotate_blocks.sv    *)
(* applied along every path of turns, from every block and from several    *)
(* places, compared with the geometry of a quarter turn.                   *)
(***************************************************************************)
EXTENDS Tetromino

CONSTANT Shifts   \* bound: how far the starting block is shifted, <<dx, dy>>

(* Free space: in no orientation does a coordinate wrap around.            *)
ASSUME RotateWalkAssumption == Shifts \subseteq (0..7) \X (2..16)

VARIABLES
    idx,             \* the block that turns
    at,              \* the shift it started with
    cells,           \* its cells
    cur_orientation  \* its orientation

walkVars == <<idx, at, cells, cur_orientation>>

WalkInit ==
    /\ idx \in Pieces
    /\ at \in Shifts
    /\ cells = Shifted(StartCells(idx), at[1], at[2])
    /\ cur_orientation = "NORMAL"

Turn(turn) ==
    /\ cells' = Rotated(ColorOf(idx), cur_orientation, turn, cells)
    /\ cur_orientation' = TurnedTo(turn, cur_orientation)
    /\ UNCHANGED <<idx, at>>

TurnLeft  == Turn("LEFT")
TurnRight == Turn("RIGHT")

WalkNext == TurnLeft \/ TurnRight

WalkSpec == WalkInit /\ [][WalkNext]_walkVars

-----------------------------------------------------------------------------
(* Twice the centre of rotation of a block, fixed by where it started: its *)
(* third cell, or for the bar the corner below its second and third cell   *)
(* and for the square its middle.                                          *)
TwiceCentre ==
    LET start == Shifted(StartCells(idx), at[1], at[2])
    IN  CASE idx = 0 -> <<2 * start[3][1] - 1, 2 * start[3][2] + 1>>
          [] idx = 3 -> <<2 * start[3][1] + 1, 2 * start[3][2] - 1>>
          [] OTHER   -> <<2 * start[3][1], 2 * start[3][2]>>

(* The next turn relies on which cell is which: the third cell of a block  *)
(* is where the tables expect it, in every orientation.                    *)
KeepsShape == HasShape(cells, idx, cur_orientation)

(* Whatever turns led here, the block covers what its starting cells cover *)
(* when they are turned about the centre as often as the orientation says: *)
(* no path of turns makes the block drift, deform or lose its orientation, *)
(* and its cells keep the order in which the tables expect them.           *)
TurnsAboutCentre ==
    LET start == Shifted(StartCells(idx), at[1], at[2])
        c == TwiceCentre
        turned(k) == TurnedOffset(<<2 * start[k][1] - c[1],
                                    2 * start[k][2] - c[2]>>, cur_orientation)
    IN  /\ {<<2 * cells[k][1], 2 * cells[k][2]>> : k \in 1..4}
               = {<<c[1] + turned(k)[1], c[2] + turned(k)[2]>> : k \in 1..4}
        /\ KeepsShape
=============================================================================
