----------------------------- MODULE LineClear -----------------------------
(***************************************************************************)
(* The board alone, from the cycle in which a block locks to the cycle in  *)
(* which play goes on: the state machine of hdl/board.sv on every board    *)
(* whose rows follow given patterns, compared with what a reader expects   *)
(* of clearing: full rows disappear and what is above moves down.          *)
(***************************************************************************)
EXTENDS Board, FiniteSetsExt

CONSTANT RowPatterns   \* bound: the columns that may be occupied in a row;
                       \* Columns itself makes a full row

ASSUME LineClearAssumption ==
    /\ RowPatterns \subseteq SUBSET Columns
    /\ TotalWrap > 4

VARIABLES
    before,  \* history: the board when the block locked, {} after a reset
    pulses   \* history: num_lines at each update_score pulse since then

clearVars == <<boardVars, before, pulses>>

(* The board a function from rows to patterns describes.                   *)
BoardOf(pattern) == UNION {{<<x, y>> : x \in pattern[y]} : y \in Rows}

(* A block spans at most four rows, and only the rows it touches can be    *)
(* full when it locks: every lock before left none.                        *)
MayLock(b) ==
    /\ FullRows(b) # {}
    /\ \A y, z \in FullRows(b) : z - y < 4

(* Four cells of the lowest full row stand for the block: it has been      *)
(* painted before it locks, so that painting it again changes nothing.     *)
LockedBlock == [k \in 1..4 |-> <<k - 1, clear_y>>]

ClearInit ==
    /\ \E pattern \in [Rows -> RowPatterns] : board_arr = BoardOf(pattern)
    /\ MayLock(board_arr)
    /\ state = "PLAY"
    /\ clear_counter = 0
    /\ num_rows_reg \in {0, 2} /\ clear_y_reg \in {0, YSize - 1}  \* left over
    /\ total_num_rows = 0
    /\ level_speed = LevelSpeeds[1]
    /\ before = board_arr
    /\ pulses = <<>>

Locks ==
    /\ state = "PLAY" /\ can_clear_row
    /\ BoardTick(TRUE, TRUE, LockedBlock, LockedBlock, "CYAN")
    /\ UNCHANGED <<before, pulses>>

Clears(edge) ==
    /\ BOARD_BUSY
    /\ BoardTick(edge, FALSE, LockedBlock, LockedBlock, "CYAN")
    /\ UNCHANGED before
    /\ pulses' = IF state = "SCORE" THEN Append(pulses, num_rows_reg % 8)
                                    ELSE pulses

ClearReset == BoardReset /\ before' = {} /\ pulses' = <<>>

Done == state = "PLAY" /\ ~can_clear_row

ClearNext == Locks \/ (\E edge \in BOOLEAN : Clears(edge)) \/ ClearReset

ClearSpec == ClearInit /\ [][ClearNext]_clearVars

-----------------------------------------------------------------------------
(* Reference: the board without its full rows, every other cell as many    *)
(* rows further down as full rows were below it.                           *)
Compacted(b) ==
    {<<c[1], c[2] + Cardinality({y \in FullRows(b) : y > c[2]})>> :
        c \in {d \in b : d[2] \notin FullRows(b)}}

Lowest(b) == Max(FullRows(b))
Count(b)  == Cardinality(FullRows(b))

(* The full rows of one lock lie next to each other.                       *)
Contiguous(b) == Lowest(b) - Min(FullRows(b)) = Count(b) - 1

Below(b, y) == {c \in b : c[2] >= y}

(* When the full rows lie together, with anything but a single row above   *)
(* them to drop (clear_y_reg = num_rows_reg skips the drop), the board     *)
(* ends up compacted: except for the topmost rows, which are garbage.      *)
CompactsContiguous ==
    Done /\ before # {} /\ Contiguous(before) /\ Lowest(before) # Count(before)
        => Below(board_arr, Count(before)) = Below(Compacted(before), Count(before))

(* Whatever the rows, clearing removes every one of them, and only them,   *)
(* before anything drops, though each one is searched anew frames later.   *)
ClearsAllFullRows ==
    before # {} /\ (state = "DROP" \/ (state = "SCORE" /\ Lowest(before) = Count(before)))
        => board_arr = {c \in before : c[2] \notin FullRows(before)}

(* Every lock is scored once, with the number of rows that were full, and  *)
(* the line counter of the level agrees.  A reset does not stop the state  *)
(* machine, but a clear that it interrupts scores no rows.                 *)
ScoresTheLock ==
    /\ pulses \in {<<>>, <<Count(before)>>}
    /\ Done /\ before # {} => /\ pulses = <<Count(before)>>
                             /\ total_num_rows = Count(before)

(* The comment at line 184 of the source says that what is at or above the *)
(* dropped lines is shifted appropriately: also when the full rows are not *)
(* next to each other.                                                     *)
CompactsSplitRows ==
    Done /\ before # {} /\ ~Contiguous(before)
        => Below(board_arr, Count(before)) = Below(Compacted(before), Count(before))
=============================================================================
