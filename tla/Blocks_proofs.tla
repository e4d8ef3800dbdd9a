---------------------------- MODULE Blocks_proofs ----------------------------
(***************************************************************************)
(* Lemmas about the board and about the turns of a block, which the proofs *)
(* about the game and its parts need.                                      *)
(***************************************************************************)
EXTENDS Board, FiniteSetTheorems, SequenceTheorems, TLAPS

-----------------------------------------------------------------------------
(* Finite sets of numbers.                                                 *)

(* A nonempty set of rows has a lowest one.  Twenty rows are ruled out one *)
(* after the other: no induction is at hand.                               *)
LEMMA LowestRow ==
  ASSUME NEW S \in SUBSET (0..19), S # {}
  PROVE  \E y \in S : \A z \in S : z <= y
<1> SUFFICES ASSUME \A y \in S : \E z \in S : z > y PROVE FALSE
  OBVIOUS
<1>1. \A y \in S : y < 15
  <2>1. 19 \notin S
    OBVIOUS
  <2>2. 18 \notin S
    BY <2>1
  <2>3. 17 \notin S
    BY <2>1, <2>2
  <2>4. 16 \notin S
    BY <2>1, <2>2, <2>3
  <2>5. 15 \notin S
    BY <2>1, <2>2, <2>3, <2>4
  <2> QED
    BY <2>1, <2>2, <2>3, <2>4, <2>5
<1>2. \A y \in S : y < 12
  BY <1>1
<1>3. \A y \in S : y < 9
  BY <1>2
<1>4. \A y \in S : y < 6
  BY <1>3
<1>5. \A y \in S : y < 3
  BY <1>4
<1>6. S = {}
  BY <1>5
<1> QED
  BY <1>6

LEMMA CardinalityBound ==
  ASSUME NEW T, IsFiniteSet(T), NEW S \in SUBSET T
  PROVE  Cardinality(S) \in 0..Cardinality(T)
<1>1. IsFiniteSet(S) /\ Cardinality(S) <= Cardinality(T)
  BY FS_Subset
<1>2. Cardinality(S) \in Nat /\ Cardinality(T) \in Nat
  BY <1>1, FS_CardinalityType
<1> QED
  BY <1>1, <1>2

-----------------------------------------------------------------------------
(* Combinational logic.                                                    *)

LEMMA FullRowsType == FullRows(board_arr) \in SUBSET Rows
BY DEF FullRows

LEMMA NumRowsType == num_rows \in 0..YSize
<1>1. YSize \in 4..20 /\ 0 \in Int /\ YSize - 1 \in Int
  BY BoardAssumption
<1>2. IsFiniteSet(Rows) /\ Cardinality(Rows) = YSize
  BY <1>1, FS_Interval DEF Rows
<1> QED
  BY <1>2, FullRowsType, CardinalityBound DEF num_rows

LEMMA ClearYType == can_clear_row => clear_y \in Rows
<1> DEFINE S == FullRows(board_arr)
<1> SUFFICES ASSUME can_clear_row PROVE clear_y \in Rows
  OBVIOUS
<1>1. Rows \subseteq 0..19
  BY BoardAssumption DEF Rows
<1>2. S \in SUBSET (0..19) /\ S # {}
  BY <1>1, FullRowsType DEF can_clear_row
<1>3. \E y \in S : \A z \in S : z <= y
  BY <1>2, LowestRow
<1>4. clear_y = CHOOSE y \in S : \A z \in S : z <= y
  BY DEF clear_y
<1>5. clear_y \in S
  BY <1>3, <1>4
<1> QED
  BY <1>5, FullRowsType

LEMMA LevelSpeedType == LevelSpeeds[1] \in 1..63 /\ level_speed_in \in 1..63
<1> DEFINE n == Len(LevelRows)
           reached == {i \in 1..n : total_num_rows >= LevelRows[i]}
<1>1. n \in Nat /\ Len(LevelSpeeds) = n + 1
  <2>1. \A s \in Seq(Nat) : Len(s) \in Nat
    OBVIOUS
  <2> QED
    BY <2>1, BoardAssumption
<1>2. Cardinality(reached) \in 0..n
  <2>1. \A k \in Nat : IsFiniteSet(1..k) /\ Cardinality(1..k) = k
    BY FS_Interval
  <2>2. reached \in SUBSET (1..n)
    OBVIOUS
  <2> HIDE DEF reached, n
  <2> QED
    BY <1>1, <2>1, <2>2, CardinalityBound
<1>3. Level(total_num_rows) \in 1..Len(LevelSpeeds)
  <2> HIDE DEF n
  <2>1. 1 + Cardinality(reached) \in 1..(n + 1)
    BY <1>1, <1>2
  <2> QED
    BY <1>1, <2>1 DEF Level, n
<1>4. \A i \in 1..Len(LevelSpeeds) : LevelSpeeds[i] \in 1..63
  BY BoardAssumption, ElementOfSeq
<1>5. 1 \in 1..Len(LevelSpeeds)
  BY <1>1
<1> QED
  BY <1>3, <1>4, <1>5 DEF level_speed_in

-----------------------------------------------------------------------------
(* Steps.                                                                  *)

LEMMA PaintedType ==
  ASSUME NEW get, NEW blk, NEW save, NEW color,
         board_arr \subseteq Array, CellsOf(blk) \subseteq Array
  PROVE  Painted(get, blk, save, color) \subseteq Array
BY DEF Painted

(* Dropped cells stay on the board, whatever is read from beyond it.       *)
LEMMA DroppedType ==
  ASSUME BoardTypeOK, NEW garbage
  PROVE  Dropped(garbage) \subseteq Array
<1> DEFINE below == {c \in board_arr : c[2] > clear_y_reg}
           dropped == {<<c[1], c[2] + num_rows_reg>> :
                         c \in {d \in board_arr : d[2] + num_rows_reg <= clear_y_reg}}
<1>1. below \subseteq Array
  BY DEF BoardTypeOK
<1>2. dropped \subseteq Array
  <2> SUFFICES ASSUME NEW d \in board_arr, d[2] + num_rows_reg <= clear_y_reg
               PROVE  <<d[1], d[2] + num_rows_reg>> \in Array
    OBVIOUS
  <2>1. d[1] \in Columns /\ d[2] \in Rows
    BY DEF BoardTypeOK, Array
  <2>2. d[2] + num_rows_reg \in Rows
    BY <2>1, BoardAssumption DEF BoardTypeOK, Rows
  <2> QED
    BY <2>1, <2>2 DEF Array
<1> QED
  BY <1>1, <1>2 DEF Dropped

LEMMA BoardTickType ==
  ASSUME NEW edge, NEW get, NEW blk, NEW save, NEW color,
         BoardTypeOK, CellsOf(blk) \subseteq Array,
         BoardTick(edge, get, blk, save, color)
  PROVE  BoardTypeOK'
<1>1. level_speed' \in 0..63
  BY LevelSpeedType DEF BoardTick
<1>2. CASE Play(get, blk, save, color)
  <2>1. board_arr' \subseteq Array
    BY <1>2, PaintedType DEF BoardTypeOK, Play
  <2>2. total_num_rows' \in 0..(TotalWrap - 1)
    BY <1>2, NumRowsType, BoardAssumption DEF BoardTypeOK, Play
  <2>3. num_rows_reg' \in 0..YSize /\ clear_y_reg' \in Rows
    BY <1>2, NumRowsType, ClearYType DEF BoardTypeOK, Play
  <2>4. clear_counter' \in 0..7 /\ state' \in {"PLAY", "CLEAR", "DROP", "SCORE"}
    BY <1>2 DEF BoardTypeOK, Play
  <2> QED
    BY <1>1, <2>1, <2>2, <2>3, <2>4 DEF BoardTypeOK
<1>3. CASE Busy(edge)
  <2>1. board_arr' \subseteq Array
    BY <1>3, DroppedType
    DEF BoardTypeOK, Busy, ClearWait, ClearRow, DropWait, Drop, Score
  <2>2. clear_counter' \in 0..7
    BY <1>3 DEF BoardTypeOK, Busy, ClearWait, ClearRow, DropWait, Drop, Score
  <2>3. state' \in {"PLAY", "CLEAR", "DROP", "SCORE"}
    BY <1>3 DEF BoardTypeOK, Busy, ClearWait, ClearRow, DropWait, Drop, Score,
                AfterClear
  <2> QED
    BY <1>1, <1>3, <2>1, <2>2, <2>3 DEF BoardTypeOK, Busy
<1> QED
  BY <1>2, <1>3 DEF BoardTick

LEMMA BoardResetType ==
  ASSUME BoardTypeOK, BoardReset
  PROVE  BoardTypeOK'
<1>1. level_speed' \in 0..63
  BY LevelSpeedType DEF BoardReset
<1> QED
  BY <1>1, BoardAssumption DEF BoardTypeOK, BoardReset, Rows
-----------------------------------------------------------------------------
(* Full rows.  The row the machine clears last is the last full one, and   *)
(* the rows it moves down were not full.                                   *)

LEMMA FullRowsFinite == IsFiniteSet(FullRows(board_arr))
<1>1. YSize \in 4..20 /\ 0 \in Int /\ YSize - 1 \in Int
  BY BoardAssumption
<1>2. IsFiniteSet(Rows)
  BY <1>1, FS_Interval DEF Rows
<1> QED
  BY <1>2, FullRowsType, FS_Subset

LEMMA FullRowsShrink ==
  ASSUME NEW b, NEW c, c \subseteq b
  PROVE  FullRows(c) \subseteq FullRows(b)
BY DEF FullRows

(* Clearing a row takes that row, and no other, off the list of full ones. *)
LEMMA FullRowsCleared ==
  ASSUME NEW b, NEW y \in Rows
  PROVE  FullRows(b \ Row(y)) = FullRows(b) \ {y}
<1>1. \A z \in Rows : z # y => Row(z) \cap Row(y) = {}
  BY DEF Row
<1>2. Row(y) # {}
  <2>1. 0 \in Columns
    BY BoardAssumption DEF Columns
  <2> QED
    BY <2>1 DEF Row
<1> QED
  BY <1>1, <1>2 DEF FullRows

LEMMA LastFullRow ==
  ASSUME num_rows = 1
  PROVE  FullRows(board_arr) = {clear_y}
<1> DEFINE S == FullRows(board_arr)
<1>1. IsFiniteSet(S)
  BY FullRowsFinite
<1>2. PICK y : S = {y}
  BY <1>1, FS_Singleton DEF num_rows
<1>3. y \in Rows
  BY <1>2, FullRowsType
<1>4. clear_y = CHOOSE r \in S : \A z \in S : z <= r
  BY <1>2 DEF clear_y, can_clear_row
<1>5. y <= y
  BY <1>3, BoardAssumption DEF Rows
<1>6. \E r \in S : \A z \in S : z <= r
  BY <1>2, <1>5
<1> QED
  BY <1>2, <1>4, <1>6

(* No rows, no sum: without full rows the count is zero.                   *)
LEMMA NoFullRows == num_rows = 0 => FullRows(board_arr) = {}
BY FullRowsFinite, FS_EmptySet DEF num_rows

(* No row read from beyond the array appears full.                         *)
PlainGarbage == \A garbage \in Garbage : FullRows(garbage) = {}

(* A drop makes no row full: below the lowest cleared row nothing moves,   *)
(* a row above it gets one whole row of the board or, at the top, one of   *)
(* the garbage.                                                            *)
LEMMA DroppedRows ==
  ASSUME BoardTypeOK, FullRows(board_arr) = {}, PlainGarbage,
         NEW garbage \in Garbage
  PROVE  FullRows(Dropped(garbage)) = {}
<1> SUFFICES ASSUME NEW y \in Rows PROVE \E x \in Columns : <<x, y>> \notin Dropped(garbage)
  BY DEF FullRows, Row
<1>1. y \in Int /\ clear_y_reg \in Int /\ num_rows_reg \in Nat
  BY BoardAssumption DEF BoardTypeOK, Rows
<1>2. \A b : FullRows(b) = {} => \A z \in Rows : \E x \in Columns : <<x, z>> \notin b
  BY DEF FullRows, Row
<1>3. \A d \in board_arr : d[1] \in Columns /\ d[2] \in Rows /\ d = <<d[1], d[2]>>
  BY DEF BoardTypeOK, Array
<1>4. \A z \in Rows : z \in Nat
  BY BoardAssumption DEF Rows
<1>5. CASE y > clear_y_reg
  <2>1. PICK x \in Columns : <<x, y>> \notin board_arr
    BY <1>2
  <2>2. \A d \in board_arr : d[2] + num_rows_reg <= clear_y_reg =>
                               <<d[1], d[2] + num_rows_reg>> # <<x, y>>
    BY <1>1, <1>5
  <2> QED
    BY <1>1, <1>5, <2>1, <2>2 DEF Dropped
<1>6. CASE y <= clear_y_reg /\ y >= num_rows_reg
  <2>1. y - num_rows_reg \in Rows
    BY <1>1, <1>6, BoardAssumption DEF Rows
  <2>2. PICK x \in Columns : <<x, y - num_rows_reg>> \notin board_arr
    BY <1>2, <2>1
  <2>3. \A d \in board_arr : <<d[1], d[2] + num_rows_reg>> # <<x, y>>
    <3> SUFFICES ASSUME NEW d \in board_arr, d[1] = x, d[2] + num_rows_reg = y
                 PROVE  FALSE
      OBVIOUS
    <3>1. d[2] \in Int
      BY <1>3, <1>4
    <3>2. d[2] = y - num_rows_reg
      BY <1>1, <3>1
    <3> QED
      BY <1>3, <2>2, <3>2
  <2> QED
    BY <1>1, <1>6, <2>3 DEF Dropped
<1>7. CASE y <= clear_y_reg /\ y < num_rows_reg
  <2>1. PICK x \in Columns : <<x, y>> \notin garbage
    BY <1>2 DEF PlainGarbage
  <2>2. \A d \in board_arr : <<d[1], d[2] + num_rows_reg>> # <<x, y>>
    <3> SUFFICES ASSUME NEW d \in board_arr, d[2] + num_rows_reg = y
                 PROVE  FALSE
      OBVIOUS
    <3>1. d[2] \in Nat
      BY <1>3, <1>4
    <3> QED
      BY <1>1, <1>7, <3>1
  <2> QED
    BY <1>1, <1>7, <2>1, <2>2 DEF Dropped
<1> QED
  BY <1>1, <1>5, <1>6, <1>7

-----------------------------------------------------------------------------
(* The tables of rotate_blocks.sv: a turn that stays on the board takes    *)
(* the shape of a block in one orientation to its shape in the next, for   *)
(* every block, orientation and place.                                     *)

(* Coordinates of a board, which has at most 20 rows and 16 columns.       *)
OnBoard(blk) == \A k \in 1..4 : blk[k][1] \in 0..19 /\ blk[k][2] \in 0..19

(* A sum that is a coordinate of a board again has not wrapped around.     *)
LEMMA Add5Exact ==
  ASSUME NEW a \in 0..19, NEW d \in -2..2, Add5(a, d) \in 0..19
  PROVE  Add5(a, d) = a + d
<1>1. CASE a + d >= 0
  BY <1>1 DEF Add5
<1>2. CASE a + d < 0
  <2>1. (a + d) % 32 = a + d + 32
    BY <1>2
  <2> QED
    BY <1>2, <2>1 DEF Add5
<1> QED
  BY <1>1, <1>2

LEMMA TurnedType ==
  ASSUME NEW o \in Orientations, NEW turn \in Turns
  PROVE  TurnedTo(turn, o) \in Orientations
BY DEF TurnedTo, Orientations, Turns

-----------------------------------------------------------------------------
LEMMA OffsetType ==
  ASSUME NEW idx \in 0..6, NEW o \in Orientations, NEW k \in 1..4
  PROVE  ShapeOffset(idx, o, k)[1] \in Int /\ ShapeOffset(idx, o, k)[2] \in Int
<1> DEFINE from == <<StartAt(idx)[k][1] - StartAt(idx)[3][1],
                     StartAt(idx)[k][2] - StartAt(idx)[3][2]>>
<1>1. from[1] \in Int /\ from[2] \in Int
  BY DEF StartAt
<1>2. TurnedOffset(from, o)[1] \in Int /\ TurnedOffset(from, o)[2] \in Int
  <2> HIDE DEF from
  <2> QED
    BY <1>1 DEF TurnedOffset, QuarterLeft, Orientations
<1>3. ShapeOffset(idx, o, k) \in {<<k - 3, 0>>, <<0, k - 3>>, from, TurnedOffset(from, o)}
  BY DEF ShapeOffset
<1> HIDE DEF from
<1> QED
  BY <1>1, <1>2, <1>3

(* The offsets by which block idx moves its k-th cell in a turn are the    *)
(* ones between the two shapes, and its third cell stays.                  *)
TableFits(idx, o, turn, k) ==
    LET d   == TurnTable[ColorOf(idx)][turn][o]
        new == ShapeOffset(idx, TurnedTo(turn, o), k)
        old == ShapeOffset(idx, o, k)
    IN  /\ d[k][1] \in -2..2 /\ d[k][2] \in -2..2
        /\ d[3] = <<0, 0>>
        /\ old[1] \in Int /\ old[2] \in Int
        /\ new[1] = old[1] + d[k][1] /\ new[2] = old[2] + d[k][2]

LEMMA TablesFit ==
  ASSUME NEW idx \in {1, 2, 4, 5, 6}, NEW o \in Orientations,
         NEW turn \in Turns, NEW k \in 1..4
  PROVE  TableFits(idx, o, turn, k)
<1> USE DEF Orientations, Turns, TableFits, TurnTable, ColorOf, ShapeOffset,
            TurnedTo, TurnedOffset, QuarterLeft, StartAt
<1>1. CASE idx = 1
  <2>1. CASE turn = "LEFT"
    BY <1>1, <2>1, SMTT(60) DEF BlueTurn
  <2>2. CASE turn = "RIGHT"
    BY <1>1, <2>2, SMTT(60) DEF BlueTurn
  <2> QED
    BY <2>1, <2>2
<1>2. CASE idx = 2
  <2>1. CASE turn = "LEFT"
    BY <1>2, <2>1, SMTT(60) DEF OrangeTurn
  <2>2. CASE turn = "RIGHT"
    BY <1>2, <2>2, SMTT(60) DEF OrangeTurn
  <2> QED
    BY <2>1, <2>2
<1>3. CASE idx = 4
  <2>1. CASE turn = "LEFT"
    BY <1>3, <2>1, SMTT(60) DEF GreenTurn
  <2>2. CASE turn = "RIGHT"
    BY <1>3, <2>2, SMTT(60) DEF GreenTurn
  <2> QED
    BY <2>1, <2>2
<1>4. CASE idx = 5
  <2>1. CASE turn = "LEFT"
    BY <1>4, <2>1, SMTT(60) DEF MagentaTurn
  <2>2. CASE turn = "RIGHT"
    BY <1>4, <2>2, SMTT(60) DEF MagentaTurn
  <2> QED
    BY <2>1, <2>2
<1>5. CASE idx = 6
  <2>1. CASE turn = "LEFT"
    BY <1>5, <2>1, SMTT(60) DEF RedTurn
  <2>2. CASE turn = "RIGHT"
    BY <1>5, <2>2, SMTT(60) DEF RedTurn
  <2> QED
    BY <2>1, <2>2
<1> QED
  BY <1>1, <1>2, <1>3, <1>4, <1>5

(* The blocks that turn about their third cell.                            *)
LEMMA PivotTurn ==
  ASSUME NEW idx \in {1, 2, 4, 5, 6}, NEW o \in Orientations, NEW turn \in Turns,
         NEW blk, HasShape(blk, idx, o), OnBoard(blk),
         OnBoard(Rotated(ColorOf(idx), o, turn, blk))
  PROVE  HasShape(Rotated(ColorOf(idx), o, turn, blk), idx, TurnedTo(turn, o))
<1> DEFINE new == Rotated(ColorOf(idx), o, turn, blk)
           d == TurnTable[ColorOf(idx)][turn][o]
<1>1. new = [k \in 1..4 |-> <<Add5(blk[k][1], d[k][1]), Add5(blk[k][2], d[k][2])>>]
  <2>1. ColorOf(idx) \in {"BLUE", "ORANGE", "GREEN", "MAGENTA", "RED"}
    BY DEF ColorOf
  <2> QED
    BY <2>1 DEF Rotated
<1>2. ASSUME NEW k \in 1..4
      PROVE  new[k][1] = blk[k][1] + d[k][1] /\ new[k][2] = blk[k][2] + d[k][2]
  <2>1. d[k][1] \in -2..2 /\ d[k][2] \in -2..2
    BY TablesFit DEF TableFits
  <2>2. /\ new[k][1] \in 0..19 /\ new[k][2] \in 0..19
        /\ blk[k][1] \in 0..19 /\ blk[k][2] \in 0..19
    BY DEF OnBoard
  <2> HIDE DEF new, d
  <2>3. /\ new[k][1] = Add5(blk[k][1], d[k][1])
        /\ new[k][2] = Add5(blk[k][2], d[k][2])
    BY <1>1
  <2> QED
    BY <2>1, <2>2, <2>3, Add5Exact
<1>3. new[3][1] = blk[3][1] /\ new[3][2] = blk[3][2]
  <2>1. d[3][1] = 0 /\ d[3][2] = 0
    <3>1. TableFits(idx, o, turn, 3)
      BY TablesFit
    <3> QED
      BY <3>1 DEF TableFits
  <2>2. blk[3][1] \in Int /\ blk[3][2] \in Int
    BY DEF OnBoard
  <2> HIDE DEF new, d
  <2> QED
    BY <1>2, <2>1, <2>2
<1>4. ASSUME NEW k \in 1..4
      PROVE  /\ new[k][1] = new[3][1] + ShapeOffset(idx, TurnedTo(turn, o), k)[1]
             /\ new[k][2] = new[3][2] + ShapeOffset(idx, TurnedTo(turn, o), k)[2]
  <2>1. /\ blk[k][1] = blk[3][1] + ShapeOffset(idx, o, k)[1]
        /\ blk[k][2] = blk[3][2] + ShapeOffset(idx, o, k)[2]
        /\ blk[3][1] \in Int /\ blk[3][2] \in Int
    BY DEF HasShape, OnBoard
  <2>2. TableFits(idx, o, turn, k)
    BY TablesFit
  <2>3. /\ ShapeOffset(idx, TurnedTo(turn, o), k)[1] = ShapeOffset(idx, o, k)[1] + d[k][1]
        /\ ShapeOffset(idx, TurnedTo(turn, o), k)[2] = ShapeOffset(idx, o, k)[2] + d[k][2]
        /\ ShapeOffset(idx, o, k)[1] \in Int /\ ShapeOffset(idx, o, k)[2] \in Int
        /\ d[k][1] \in Int /\ d[k][2] \in Int
    BY <2>2 DEF TableFits
  <2> HIDE DEF new, d
  <2> QED
    BY <1>2, <1>3, <2>1, <2>3
<1> QED
  BY <1>4 DEF HasShape

(* The bar, which is rebuilt from two of its cells.                        *)
LEMMA BarTurn ==
  ASSUME NEW o \in Orientations, NEW turn \in Turns,
         NEW blk, HasShape(blk, 0, o), OnBoard(blk),
         OnBoard(Rotated("CYAN", o, turn, blk))
  PROVE  HasShape(Rotated("CYAN", o, turn, blk), 0, TurnedTo(turn, o))
<1> DEFINE row == CyanTurn[turn][o]
           new == Rotated("CYAN", o, turn, blk)
           dx(k) == IF row.axis = "x" THEN row.first + k - 1 ELSE 0
           dy(k) == IF row.axis = "y" THEN row.first + k - 1 ELSE 0
<1>1. new = [k \in 1..4 |-> <<Add5(blk[row.x][1], dx(k)), Add5(blk[row.y][2], dy(k))>>]
  BY DEF Rotated, Bar
<1>2. /\ row.x \in 1..4 /\ row.y \in 1..4 /\ row.first \in {-1, -2}
      /\ row.axis = IF o \in {"NORMAL", "ROT2"} THEN "y" ELSE "x"
      /\ TurnedTo(turn, o) \in {"NORMAL", "ROT2"} <=> o \notin {"NORMAL", "ROT2"}
  BY DEF CyanTurn, Orientations, Turns, TurnedTo
<1>3. ASSUME NEW k \in 1..4
      PROVE  new[k][1] = blk[row.x][1] + dx(k) /\ new[k][2] = blk[row.y][2] + dy(k)
  <2>1. dx(k) \in -2..2 /\ dy(k) \in -2..2
    BY <1>2
  <2>2. new[k][1] = Add5(blk[row.x][1], dx(k)) /\ new[k][2] = Add5(blk[row.y][2], dy(k))
    BY <1>1
  <2>3. /\ new[k][1] \in 0..19 /\ new[k][2] \in 0..19
        /\ blk[row.x][1] \in 0..19 /\ blk[row.y][2] \in 0..19
    BY <1>2 DEF OnBoard
  <2> HIDE DEF new, row, dx, dy
  <2> QED
    BY <2>1, <2>2, <2>3, Add5Exact
<1>4. blk[row.x][1] \in Int /\ blk[row.y][2] \in Int
  BY <1>2 DEF OnBoard
<1>5. ASSUME NEW k \in 1..4
      PROVE  /\ new[k][1] = new[3][1] + ShapeOffset(0, TurnedTo(turn, o), k)[1]
             /\ new[k][2] = new[3][2] + ShapeOffset(0, TurnedTo(turn, o), k)[2]
  <2>1. ShapeOffset(0, TurnedTo(turn, o), k)
          = IF o \in {"NORMAL", "ROT2"} THEN <<0, k - 3>> ELSE <<k - 3, 0>>
    BY <1>2 DEF ShapeOffset
  <2>2. /\ new[k][1] = blk[row.x][1] + dx(k) /\ new[k][2] = blk[row.y][2] + dy(k)
        /\ new[3][1] = blk[row.x][1] + dx(3) /\ new[3][2] = blk[row.y][2] + dy(3)
    BY <1>3
  <2>3. /\ dx(k) = dx(3) + IF o \in {"NORMAL", "ROT2"} THEN 0 ELSE k - 3
        /\ dy(k) = dy(3) + IF o \in {"NORMAL", "ROT2"} THEN k - 3 ELSE 0
        /\ dx(3) \in Int /\ dy(3) \in Int
    BY <1>2
  <2> HIDE DEF new, row, dx, dy
  <2>4. CASE o \in {"NORMAL", "ROT2"}
    BY <1>4, <2>1, <2>2, <2>3, <2>4
  <2>5. CASE o \notin {"NORMAL", "ROT2"}
    BY <1>4, <2>1, <2>2, <2>3, <2>5
  <2> QED
    BY <2>4, <2>5
<1> QED
  BY <1>5 DEF HasShape

(* Every block, in every orientation, in both directions.                  *)
LEMMA TurnKeepsShape ==
  ASSUME NEW idx \in 0..6, NEW o \in Orientations, NEW turn \in Turns,
         NEW blk, HasShape(blk, idx, o), OnBoard(blk),
         OnBoard(Rotated(ColorOf(idx), o, turn, blk))
  PROVE  HasShape(Rotated(ColorOf(idx), o, turn, blk), idx, TurnedTo(turn, o))
<1>1. CASE idx = 0
  <2>1. ColorOf(0) = "CYAN"
    BY DEF ColorOf
  <2> QED
    BY <1>1, <2>1, BarTurn
<1>2. CASE idx = 3
  <2>1. ColorOf(3) = "YELLOW"
    BY DEF ColorOf
  <2>2. Rotated("YELLOW", o, turn, blk) = blk
    BY DEF Rotated
  <2> QED
    BY <1>2, <2>1, <2>2 DEF HasShape, ShapeOffset
<1>3. CASE idx \in {1, 2, 4, 5, 6}
  BY <1>3, PivotTurn
<1> QED
  BY <1>1, <1>2, <1>3

(* A shift by one cell keeps the shape.                                    *)
LEMMA ShiftKeepsShape ==
  ASSUME NEW idx \in 0..6, NEW o \in Orientations,
         NEW dx \in -1..1, NEW dy \in -1..1,
         NEW blk, HasShape(blk, idx, o), OnBoard(blk), OnBoard(Shifted(blk, dx, dy))
  PROVE  HasShape(Shifted(blk, dx, dy), idx, o)
<1> DEFINE new == Shifted(blk, dx, dy)
<1>1. ASSUME NEW k \in 1..4
      PROVE  new[k][1] = blk[k][1] + dx /\ new[k][2] = blk[k][2] + dy
  <2>1. new[k][1] = Add5(blk[k][1], dx) /\ new[k][2] = Add5(blk[k][2], dy)
    BY DEF Shifted
  <2>2. /\ new[k][1] \in 0..19 /\ new[k][2] \in 0..19
        /\ blk[k][1] \in 0..19 /\ blk[k][2] \in 0..19
    BY DEF OnBoard
  <2> HIDE DEF new
  <2> QED
    BY <2>1, <2>2, Add5Exact
<1>2. ASSUME NEW k \in 1..4
      PROVE  /\ new[k][1] = new[3][1] + ShapeOffset(idx, o, k)[1]
             /\ new[k][2] = new[3][2] + ShapeOffset(idx, o, k)[2]
  <2>1. /\ blk[k][1] = blk[3][1] + ShapeOffset(idx, o, k)[1]
        /\ blk[k][2] = blk[3][2] + ShapeOffset(idx, o, k)[2]
        /\ blk[3][1] \in Int /\ blk[3][2] \in Int
    BY DEF HasShape, OnBoard
  <2>2. ShapeOffset(idx, o, k)[1] \in Int /\ ShapeOffset(idx, o, k)[2] \in Int
    BY OffsetType
  <2> HIDE DEF new
  <2> QED
    BY <1>1, <2>1, <2>2
<1> QED
  BY <1>2 DEF HasShape

(* The cells a new block starts on have its shape.                         *)
LEMMA StartHasShape ==
  ASSUME NEW idx \in 0..6
  PROVE  HasShape(StartCells(idx), idx, "NORMAL")
<1>1. SpawnShift \in Int
  BY TetrominoAssumption
<1> QED
  BY <1>1, SMTT(60)
  DEF HasShape, StartCells, ShapeOffset, TurnedOffset, StartAt
=============================================================================
