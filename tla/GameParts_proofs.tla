--------------------------- MODULE GameParts_proofs ---------------------------
(* Theorems about the parts of the game that MCGameParts runs, the score,  *)
(* the generator, the clearing of rows and the turns, and about what moves *)
(* it, the keys of both players on their way from the slots of a report to *)
(* block_logic (UsbTransfer).  Each is for every value of the constants    *)
(* and every sequence of inputs.                                           *)
EXTENDS ScoreKeeper, TetrominoGenerator, LineClear, RotateWalk, UsbTransfer,
        Blocks_proofs

-----------------------------------------------------------------------------
(* ScoreKeeper: the digits stay decimal, and below the overflow the carry  *)
(* chain adds exactly the documented award.                                *)

Digits == [Places -> Nibble]

(* One stage of the carry chain, on a digit that has room to carry into.   *)
LEMMA CarryStage ==
  ASSUME NEW k \in 1..4, NEW d \in Digits
  PROVE  /\ CarryFrom(k, d) \in Digits
         /\ CarryFrom(k, d)[k] \in Decimal
         /\ \A j \in Places \ {k, k + 1} : CarryFrom(k, d)[j] = d[j]
         /\ d[k + 1] < 15 =>
              /\ CarryFrom(k, d)[k] + 10 * CarryFrom(k, d)[k + 1]
                   = d[k] + 10 * d[k + 1]
              /\ CarryFrom(k, d)[k + 1] <= d[k + 1] + 1
<1>1. d[k] \in Nibble /\ d[k + 1] \in Nibble /\ k \in Places /\ k + 1 \in Places
  BY DEF Digits, Places
<1>2. CASE d[k] >= 10
  <2>1. CarryFrom(k, d) = [d EXCEPT ![k] = Add4(@, 6), ![k + 1] = Add4(@, 1)]
    BY <1>2 DEF CarryFrom
  <2>2. /\ Add4(d[k], 6) = d[k] - 10 /\ Add4(d[k], 6) \in Nibble
        /\ Add4(d[k + 1], 1) \in Nibble
        /\ d[k + 1] < 15 => Add4(d[k + 1], 1) = d[k + 1] + 1
    BY <1>1, <1>2 DEF Add4, Nibble
  <2>3. /\ CarryFrom(k, d)[k] = d[k] - 10
        /\ CarryFrom(k, d)[k + 1] = Add4(d[k + 1], 1)
        /\ CarryFrom(k, d) \in Digits
        /\ \A j \in Places \ {k, k + 1} : CarryFrom(k, d)[j] = d[j]
    BY <1>1, <2>1, <2>2 DEF Digits
  <2> QED
    BY <1>1, <1>2, <2>2, <2>3 DEF Nibble, Decimal
<1>3. CASE ~(d[k] >= 10)
  BY <1>1, <1>3 DEF CarryFrom, Nibble, Decimal
<1> QED
  BY <1>2, <1>3
LEMMA DigitTypes ==
  ASSUME NEW d \in Digits
  PROVE  /\ d[1] \in 0..15 /\ d[2] \in 0..15 /\ d[3] \in 0..15
         /\ d[4] \in 0..15 /\ d[5] \in 0..15
BY DEF Digits, Places, Nibble

(* The digits and the value of a score as bounded integers: arithmetic is  *)
(* done on these.                                                          *)
Reads(d, x1, x2, x3, x4, x5) ==
    /\ d[1] = x1 /\ d[2] = x2 /\ d[3] = x3 /\ d[4] = x4 /\ d[5] = x5
    /\ Value(d) = x1 + 10 * x2 + 100 * x3 + 1000 * x4 + 10000 * x5

LEMMA DigitValues ==
  ASSUME NEW d \in Digits
  PROVE  \E x1 \in 0..15, x2 \in 0..15, x3 \in 0..15, x4 \in 0..15, x5 \in 0..15 :
            Reads(d, x1, x2, x3, x4, x5)
<1>1. Reads(d, d[1], d[2], d[3], d[4], d[5])
  BY SMT DEF Reads, Value
<1> QED
  BY <1>1, DigitTypes, Zenon

(* The whole chain.  Each digit is small enough when its carry comes, if   *)
(* what is added first is an award; only the topmost one may wrap.         *)
LEMMA CarriedValue ==
  ASSUME NEW d \in Digits, d[2] <= 13, d[3] <= 11, d[4] <= 10
  PROVE  /\ Carried(d) \in Digits
         /\ \A j \in 1..4 : Carried(d)[j] \in Decimal
         /\ d[5] < 15 => Value(Carried(d)) = Value(d)
<1> DEFINE d1 == CarryFrom(1, d)
           d2 == CarryFrom(2, d1)
           d3 == CarryFrom(3, d2)
           d4 == CarryFrom(4, d3)
<1> USE DigitTypes
<1>1. /\ d1 \in Digits /\ d1[1] \in Decimal
      /\ d1[3] = d[3] /\ d1[4] = d[4] /\ d1[5] = d[5]
      /\ d1[1] + 10 * d1[2] = d[1] + 10 * d[2] /\ d1[2] <= 14
  <2>1. 1 \in 1..4 /\ 1 + 1 = 2 /\ {3, 4, 5} \subseteq Places \ {1, 2} /\ d[2] < 15
    BY DEF Places
  <2> QED
    BY <2>1, CarryStage
<1> HIDE DEF d1
<1>2. /\ d2 \in Digits /\ d2[2] \in Decimal
      /\ d2[1] = d1[1] /\ d2[4] = d1[4] /\ d2[5] = d1[5]
      /\ d2[2] + 10 * d2[3] = d1[2] + 10 * d1[3] /\ d2[3] <= 12
  <2>1. 2 \in 1..4 /\ 2 + 1 = 3 /\ {1, 4, 5} \subseteq Places \ {2, 3} /\ d1[3] < 15
    BY <1>1 DEF Places
  <2> QED
    BY <1>1, <2>1, CarryStage
<1> HIDE DEF d2
<1>3. /\ d3 \in Digits /\ d3[3] \in Decimal
      /\ d3[1] = d2[1] /\ d3[2] = d2[2] /\ d3[5] = d2[5]
      /\ d3[3] + 10 * d3[4] = d2[3] + 10 * d2[4] /\ d3[4] <= 11
  <2>1. 3 \in 1..4 /\ 3 + 1 = 4 /\ {1, 2, 5} \subseteq Places \ {3, 4} /\ d2[4] < 15
    BY <1>1, <1>2 DEF Places
  <2> QED
    BY <1>1, <1>2, <2>1, CarryStage
<1> HIDE DEF d3
<1>4. /\ d4 \in Digits /\ d4[4] \in Decimal
      /\ d4[1] = d3[1] /\ d4[2] = d3[2] /\ d4[3] = d3[3]
      /\ d[5] < 15 => d4[4] + 10 * d4[5] = d3[4] + 10 * d3[5]
  <2>1. 4 \in 1..4 /\ 4 + 1 = 5 /\ {1, 2, 3} \subseteq Places \ {4, 5} /\ d3[5] = d[5]
    BY <1>1, <1>2, <1>3 DEF Places
  <2> QED
    BY <1>3, <2>1, CarryStage
<1> HIDE DEF d4
<1>5. Carried(d) = d4
  BY DEF Carried, d1, d2, d3, d4
<1>6. \A j \in 1..4 : d4[j] \in Decimal
  BY <1>1, <1>2, <1>3, <1>4
<1>7. d[5] < 15 => Value(d4) = Value(d)
  <2>1. PICK x1 \in 0..15, x2 \in 0..15, x3 \in 0..15, x4 \in 0..15, x5 \in 0..15 :
            Reads(d, x1, x2, x3, x4, x5)
    BY DigitValues, Zenon
  <2>2. PICK z1 \in 0..15, z2 \in 0..15, z3 \in 0..15, z4 \in 0..15, z5 \in 0..15 :
            Reads(d4, z1, z2, z3, z4, z5)
    BY <1>4, DigitValues, Zenon
  <2>3. PICK y2 \in 0..15 : y2 = d1[2]
    BY <1>1
  <2>4. PICK y3 \in 0..15 : y3 = d2[3]
    BY <1>2
  <2>5. PICK y4 \in 0..15 : y4 = d3[4]
    BY <1>3
  <2>6. /\ z1 + 10 * y2 = x1 + 10 * x2
        /\ z2 + 10 * y3 = y2 + 10 * x3
        /\ z3 + 10 * y4 = y3 + 10 * x4
        /\ d[5] < 15 => z4 + 10 * z5 = y4 + 10 * x5
    BY <1>1, <1>2, <1>3, <1>4, <2>1, <2>2, <2>3, <2>4, <2>5, SMT DEF Reads
  <2>7. d[5] < 15 => z1 + 10 * z2 + 100 * z3 + 1000 * z4 + 10000 * z5
                       = x1 + 10 * x2 + 100 * x3 + 1000 * x4 + 10000 * x5
    BY <2>6, SMT
  <2> QED
    BY <2>1, <2>2, <2>7, SMT DEF Reads
<1> QED
  BY <1>4, <1>5, <1>6, <1>7

(* The digits that enter the chain.                                        *)
LEMMA AwardAdded ==
  ASSUME ScoreTypeOK, NEW num_lines \in 0..7
  PROVE  LET d == [k \in Places |-> Add4(digits[k], Award(num_lines)[k])]
         IN  /\ d \in Digits
             /\ d[2] <= 13 /\ d[3] <= 11 /\ d[4] <= 10 /\ d[5] = digits[5]
             /\ Value(d) = Value(digits) + Points(num_lines)
<1> DEFINE a == Award(num_lines)
           d == [k \in Places |-> Add4(digits[k], a[k])]
<1>1. /\ a[1] \in 0..4 /\ a[2] \in 0..3 /\ a[3] \in 0..1 /\ a[4] = 0 /\ a[5] = 0
      /\ Points(num_lines) = a[1] + 10 * a[2] + 100 * a[3]
  BY DEF Award, Points, Places
<1> HIDE DEF a
<1>2. /\ digits[1] \in 0..9 /\ digits[2] \in 0..9 /\ digits[3] \in 0..9
      /\ digits[4] \in 0..9 /\ digits[5] \in 0..15
  BY DEF ScoreTypeOK, Decimal, Nibble, Places
<1>3. /\ d[1] = digits[1] + a[1] /\ d[2] = digits[2] + a[2]
      /\ d[3] = digits[3] + a[3] /\ d[4] = digits[4] /\ d[5] = digits[5]
  BY <1>1, <1>2 DEF Add4, Places
<1>4. d \in Digits
  BY <1>1, <1>2, <1>3 DEF Digits, Places, Nibble
<1> HIDE DEF d
<1>5. Value(d) = Value(digits) + Points(num_lines)
  <2>1. PICK x1 \in 0..15, x2 \in 0..15, x3 \in 0..15, x4 \in 0..15, x5 \in 0..15 :
            Reads(digits, x1, x2, x3, x4, x5)
    <3>1. digits \in Digits
      BY DEF ScoreTypeOK, Digits
    <3> QED
      BY <3>1, DigitValues, Zenon
  <2>2. PICK z1 \in 0..15, z2 \in 0..15, z3 \in 0..15, z4 \in 0..15, z5 \in 0..15 :
            Reads(d, z1, z2, z3, z4, z5)
    BY <1>4, DigitValues, Zenon
  <2>3. PICK a1 \in 0..4, a2 \in 0..3, a3 \in 0..1 :
            a[1] = a1 /\ a[2] = a2 /\ a[3] = a3
    BY <1>1, SMT
  <2>4. /\ z1 = x1 + a1 /\ z2 = x2 + a2 /\ z3 = x3 + a3 /\ z4 = x4 /\ z5 = x5
        /\ Points(num_lines) = a1 + 10 * a2 + 100 * a3
    BY <1>1, <1>3, <2>1, <2>2, <2>3, SMT DEF Reads
  <2> QED
    BY <2>1, <2>2, <2>4, SMT DEF Reads
<1>6. d[2] <= 13 /\ d[3] <= 11 /\ d[4] <= 10 /\ d[5] = digits[5]
  BY <1>1, <1>2, <1>3
<1> QED
  BY <1>4, <1>5, <1>6 DEF d, a

LEMMA NextDigitsValue ==
  ASSUME ScoreTypeOK, NEW num_lines \in 0..7
  PROVE  /\ NextDigits(digits, num_lines) \in Digits
         /\ \A k \in 1..4 : NextDigits(digits, num_lines)[k] \in Decimal
         /\ Value(digits) + Points(num_lines) < 100000 =>
              Value(NextDigits(digits, num_lines))
                = Value(digits) + Points(num_lines)
<1> DEFINE d == [k \in Places |-> Add4(digits[k], Award(num_lines)[k])]
           c == Carried(d)
<1>1. /\ d \in Digits
      /\ d[2] <= 13 /\ d[3] <= 11 /\ d[4] <= 10 /\ d[5] = digits[5]
      /\ Value(d) = Value(digits) + Points(num_lines)
  BY AwardAdded
<1>2. NextDigits(digits, num_lines) = Saturate(c)
  BY DEF NextDigits
<1> HIDE DEF d
<1>3. /\ c \in Digits /\ \A j \in 1..4 : c[j] \in Decimal
      /\ d[5] < 15 => Value(c) = Value(d)
  BY <1>1, CarriedValue
<1> HIDE DEF c
<1>4. Saturate(c) \in Digits /\ \A j \in 1..4 : Saturate(c)[j] \in Decimal
  BY <1>3 DEF Saturate, Digits, Places, Nibble, Decimal
<1>5. ASSUME Value(d) < 100000
      PROVE  Value(Saturate(c)) = Value(d)
  <2>1. \A e \in Digits : Value(e) < 100000 => e[5] < 10
    <3> SUFFICES ASSUME NEW e \in Digits PROVE Value(e) < 100000 => e[5] < 10
      OBVIOUS
    <3>1. PICK x1 \in 0..15, x2 \in 0..15, x3 \in 0..15, x4 \in 0..15, x5 \in 0..15 :
            Reads(e, x1, x2, x3, x4, x5)
      BY DigitValues, Zenon
    <3> QED
      BY <3>1, SMT DEF Reads
  <2>2. Value(c) = Value(d)
    BY <1>1, <1>3, <1>5, <2>1, DigitTypes, SMT
  <2>3. c[5] < 10
    BY <1>3, <1>5, <2>1, <2>2, SMT
  <2> QED
    BY <1>3, <2>2, <2>3, DigitTypes, SMT DEF Saturate
<1> QED
  BY <1>1, <1>2, <1>4, <1>5

-----------------------------------------------------------------------------
LEMMA DigitsNext == ScoreTypeOK /\ [ScoreNext]_scoreVars => ScoreTypeOK'
<1> SUFFICES ASSUME ScoreTypeOK, [ScoreNext]_scoreVars PROVE ScoreTypeOK'
  OBVIOUS
<1>1. CASE ScoreReset
  BY <1>1 DEF ScoreReset, ScoreTypeOK, Places, Nibble, Decimal
<1>2. ASSUME NEW num_lines \in 0..7, ScoreUpdate(num_lines) PROVE ScoreTypeOK'
  BY <1>2, NextDigitsValue DEF ScoreUpdate, ScoreTypeOK, Digits
<1>3. CASE UNCHANGED scoreVars
  BY <1>3 DEF scoreVars, ScoreTypeOK
<1> QED
  BY <1>1, <1>2, <1>3 DEF ScoreNext

LEMMA DigitsInit == ScoreInit => ScoreTypeOK
BY DEF ScoreInit, ScoreTypeOK, Places, Nibble, Decimal

(* Every digit but the topmost is decimal in every reachable state.        *)
THEOREM DigitsTypeOK == ScoreSpec => []ScoreTypeOK
BY DigitsInit, DigitsNext, PTL DEF ScoreSpec

(* Below the overflow an update adds the documented award, whatever the    *)
(* score: no carry is lost and none is made up.                            *)
THEOREM AwardIsExact == ScoreSpec => AwardExact
<1> DEFINE Exact ==
      \A num_lines \in 0..7 :
        ScoreUpdate(num_lines) /\ Value(digits) + Points(num_lines) < 100000
          => Value(digits') = Value(digits) + Points(num_lines)
<1>1. ScoreTypeOK /\ [ScoreNext]_scoreVars => [Exact]_scoreVars
  <2> SUFFICES ASSUME ScoreTypeOK PROVE Exact
    OBVIOUS
  <2> QED
    BY NextDigitsValue DEF ScoreUpdate
<1> QED
  BY <1>1, DigitsTypeOK, PTL DEF ScoreSpec, AwardExact

-----------------------------------------------------------------------------
(* TetrominoGenerator: it implements BlockSource, for every sequence of    *)
(* moves, pulses and resets.                                               *)

(* What the refinement rests on: the types, and that old_idx has caught up *)
(* with the index shown whenever a pulse may come.                         *)
Inv == TypeOK /\ CaughtUp

LEMMA SuccessorType == ASSUME NEW i \in 0..6
                       PROVE  Successor(i) \in 0..6 /\ Successor(i) # i
BY DEF Successor

LEMMA CandidateType == ASSUME TypeOK
                       PROVE  block_idx_in \in 0..6 /\ block_idx_in # old_idx
<1>1. Fallback \in 0..6 /\ Fallback # old_idx
  BY SuccessorType DEF Fallback, TypeOK
<1> QED
  BY <1>1 DEF block_idx_in, TypeOK

LEMMA InvInit == Init => Inv
BY DEF Init, Inv, TypeOK, CaughtUp

LEMMA InvNext == Inv /\ [Next]_vars => Inv'
<1> SUFFICES ASSUME Inv, [Next]_vars PROVE Inv'
  OBVIOUS
<1> USE DEF Inv, TypeOK, CaughtUp
<1>1. ASSUME NEW new_move \in {0} \cup 2..6, Quiet(new_move) PROVE Inv'
  BY <1>1 DEF Quiet, Mix
<1>2. ASSUME NEW new_move \in 0..7, NewBlock(new_move) PROVE Inv'
  BY <1>2, CandidateType, SuccessorType DEF NewBlock, Mix
<1>3. CASE Reset
  BY <1>3 DEF Reset, Mix
<1>4. CASE UNCHANGED vars
  BY <1>4 DEF vars
<1> QED
  BY <1>1, <1>2, <1>3, <1>4 DEF Next

(* Every index the generator shows, in every reachable state, is one of    *)
(* the seven that block_logic's tables have.                               *)
THEOREM GeneratorTypeOK == Spec => []TypeOK
<1>1. Inv => TypeOK
  BY DEF Inv
<1> QED
  BY InvInit, InvNext, <1>1, PTL DEF Spec

LEMMA StepImplementsSource ==
    Inv /\ [Next]_vars => [Source!Next]_<<next_block_idx, last>>
<1> SUFFICES ASSUME Inv, [Next]_vars
             PROVE  [Source!Next]_<<next_block_idx, last>>
  OBVIOUS
<1>1. ASSUME NEW new_move \in {0} \cup 2..6, Quiet(new_move) PROVE Source!Hold
  BY <1>1 DEF Quiet, Source!Hold
<1>2. ASSUME NEW new_move \in 0..7, NewBlock(new_move) PROVE Source!Take
  BY <1>2, CandidateType
  DEF NewBlock, Source!Take, Source!Indices, Inv, TypeOK, CaughtUp
<1>3. CASE Reset
  BY <1>3 DEF Reset, Source!Restart, Source!Next
<1>4. CASE UNCHANGED vars
  BY <1>4 DEF vars
<1> QED
  BY <1>1, <1>2, <1>3, <1>4 DEF Next, Source!Next

(* The generator implements BlockSource: it holds an index until a block   *)
(* is taken, and then shows a different one.                               *)
THEOREM GeneratorImplementsSource == Spec => ImplementsSource
<1>1. Init => Source!Init
  BY DEF Init, Source!Init
<1>2. Spec => []Inv
  BY InvInit, InvNext, PTL DEF Spec
<1> QED
  BY <1>1, <1>2, StepImplementsSource, PTL DEF Spec, ImplementsSource, Source!Spec

-----------------------------------------------------------------------------
(* LineClear: sets of rows.                                                *)

LEMMA RowsAreNat == Rows \subseteq 0..19 /\ 0 \in Columns /\ 0..3 \subseteq Columns
BY BoardAssumption DEF Rows, Columns

LEMMA FullRowsIn == ASSUME NEW b PROVE FullRows(b) \in SUBSET (0..19) /\ IsFiniteSet(FullRows(b))
<1>1. FullRows(b) \in SUBSET (0..19)
  BY RowsAreNat DEF FullRows
<1>2. IsFiniteSet(0..19)
  <2>1. 0 \in Int /\ 19 \in Int
    OBVIOUS
  <2> QED
    BY <2>1, FS_Interval
<1> QED
  BY <1>1, <1>2, FS_Subset

(* The lowest full row, as LineClear and as the board find it.             *)
LEMMA LowestIs ==
  ASSUME NEW b, FullRows(b) # {}
  PROVE  /\ Lowest(b) \in FullRows(b)
         /\ \A y \in FullRows(b) : y <= Lowest(b)
<1> DEFINE S == FullRows(b)
<1>1. S \in SUBSET (0..19) /\ S # {}
  BY FullRowsIn
<1> HIDE DEF S
<1>2. \E y \in S : \A z \in S : z <= y
  BY <1>1, LowestRow
<1>3. \E y \in S : \A z \in S : y >= z
  BY <1>1, <1>2
<1> QED
  BY <1>3, <1>1 DEF Lowest, Max, S

LEMMA ClearYIs ==
  ASSUME can_clear_row
  PROVE  clear_y = Lowest(board_arr)
<1> DEFINE S == FullRows(board_arr)
<1>1. S \in SUBSET (0..19) /\ S # {}
  BY FullRowsIn DEF can_clear_row
<1> HIDE DEF S
<1>2. \E y \in S : \A z \in S : z <= y
  BY <1>1, LowestRow
<1>3. clear_y \in S /\ \A z \in S : z <= clear_y
  BY <1>2 DEF clear_y, can_clear_row, S
<1>4. Lowest(board_arr) \in S /\ \A z \in S : z <= Lowest(board_arr)
  BY <1>1, LowestIs DEF S
<1>5. clear_y <= Lowest(board_arr) /\ Lowest(board_arr) <= clear_y
  BY <1>3, <1>4
<1>6. clear_y \in 0..19 /\ Lowest(board_arr) \in 0..19
  BY <1>1, <1>3, <1>4
<1> QED
  BY <1>5, <1>6

LEMMA HighestIs ==
  ASSUME NEW S \in SUBSET (0..19), S # {}
  PROVE  Min(S) \in S /\ \A z \in S : Min(S) <= z
<1> DEFINE T == {19 - y : y \in S}
<1>1. T \in SUBSET (0..19) /\ T # {}
  <2>1. \A y \in S : 19 - y \in 0..19
    OBVIOUS
  <2> QED
    BY <2>1
<1>2. PICK t \in T : \A z \in T : z <= t
  BY <1>1, LowestRow
<1>3. PICK y \in S : t = 19 - y
  BY <1>2
<1>4. \A z \in S : y <= z
  <2> TAKE z \in S
  <2>1. 19 - z <= t
    BY <1>2
  <2>2. z \in 0..19 /\ y \in 0..19
    OBVIOUS
  <2> HIDE DEF T
  <2> QED
    BY <1>3, <2>1, <2>2
<1> QED
  BY <1>4 DEF Min

(* What a lock leaves to clear: one to four rows.                          *)
LEMMA LockCount ==
  ASSUME NEW b, MayLock(b)
  PROVE  Count(b) \in 1..4
<1> DEFINE S == FullRows(b)
           L == Lowest(b)
<1>1. S \in SUBSET (0..19) /\ IsFiniteSet(S) /\ S # {}
  BY FullRowsIn DEF MayLock
<1>2. L \in S /\ \A y \in S : y <= L /\ L - y < 4
  BY <1>1, LowestIs DEF MayLock
<1> HIDE DEF S, L
<1>3. S \in SUBSET ((L - 3)..L) /\ L \in Int
  BY <1>1, <1>2
<1>4. IsFiniteSet((L - 3)..L) /\ Cardinality((L - 3)..L) = 4
  <2>1. L - 3 \in Int /\ L \in Int /\ L - 3 <= L
    BY <1>3
  <2>2. L - (L - 3) + 1 = 4
    BY <1>3
  <2> QED
    BY <2>1, <2>2, FS_Interval
<1>5. Cardinality(S) \in 0..4
  BY <1>3, <1>4, CardinalityBound
<1>6. Cardinality(S) # 0
  BY <1>1, FS_EmptySet
<1> QED
  BY <1>5, <1>6 DEF Count, S

(* Rows that lie next to each other are an interval.                       *)
LEMMA ContiguousRows ==
  ASSUME NEW b, MayLock(b), Contiguous(b)
  PROVE  FullRows(b) = (Lowest(b) - Count(b) + 1)..Lowest(b)
<1> DEFINE S == FullRows(b)
           L == Lowest(b)
           n == Count(b)
<1>1. S \in SUBSET (0..19) /\ S # {} /\ L \in S /\ \A y \in S : y <= L
  BY FullRowsIn, LowestIs DEF MayLock
<1>2. n \in 1..4 /\ n = Cardinality(S)
  BY LockCount DEF Count
<1>3. L - Min(S) = n - 1
  BY DEF Contiguous
<1> HIDE DEF S, L, n
<1>4. Min(S) \in S /\ \A y \in S : Min(S) <= y
  BY <1>1, HighestIs
<1>5. Min(S) = L - n + 1 /\ L \in Int /\ L - n + 1 \in Int
  <2>1. Min(S) \in 0..19 /\ L \in 0..19
    BY <1>1, <1>4
  <2> QED
    BY <1>2, <1>3, <2>1
<1>6. S \in SUBSET ((L - n + 1)..L)
  BY <1>1, <1>4, <1>5
<1>7. IsFiniteSet((L - n + 1)..L) /\ Cardinality((L - n + 1)..L) = n
  <2>1. L - (L - n + 1) + 1 = n /\ L - n + 1 <= L
    BY <1>2, <1>5
  <2> QED
    BY <1>5, <2>1, FS_Interval
<1> QED
  BY <1>2, <1>6, <1>7, FS_Subset DEF S, L, n

-----------------------------------------------------------------------------
(* LineClear: the state machine from the lock on.  While it clears, the    *)
(* board is the one that locked without the rows that are full no more;    *)
(* the registers keep what the lock found.                                 *)

Cleared(b) == {c \in b : c[2] \notin FullRows(b)}

(* The board after the drop, without what is read from beyond the array.   *)
Moved(b) ==
    {c \in b : c[2] > Lowest(b)}
      \cup {<<c[1], c[2] + Count(b)>> : c \in {d \in Cleared(b) : d[2] + Count(b) <= Lowest(b)}}

Scored == state = "SCORE" \/ (state = "PLAY" /\ pulses # <<>>)

Progress ==
    /\ MayLock(before)
    /\ pulses \in {<<>>, <<Count(before)>>}
    /\ state # "PLAY" => pulses = <<>>
    /\ state = "PLAY" /\ pulses = <<>> => board_arr = before /\ total_num_rows = 0
    /\ state # "PLAY" \/ pulses # <<>> =>
         /\ num_rows_reg = Count(before) /\ clear_y_reg = Lowest(before)
         /\ total_num_rows = Count(before)
    /\ state = "CLEAR" =>
         /\ FullRows(board_arr) # {}
         /\ board_arr = {c \in before : c[2] \notin FullRows(before) \ FullRows(board_arr)}
    /\ state = "DROP" => board_arr = Cleared(before) /\ Lowest(before) # Count(before)
    /\ Scored =>
         /\ FullRows(board_arr) = {}
         /\ IF Lowest(before) = Count(before)
            THEN board_arr = Cleared(before)
            ELSE Below(board_arr, Count(before)) = Below(Moved(before), Count(before))

WasReset ==
    /\ board_arr = {}
    /\ state # "PLAY" => num_rows_reg = 0 /\ pulses = <<>>
    /\ pulses \in {<<>>, <<0>>}

MachineInv ==
    /\ BoardTypeOK /\ before \subseteq Array
    /\ IF before = {} THEN WasReset ELSE Progress

LEMMA EmptyBoard == FullRows({}) = {} /\ Count({}) = 0
<1>1. FullRows({}) = {}
  BY RowsAreNat DEF FullRows, Row
<1> QED
  BY <1>1, FS_EmptySet DEF Count

LEMMA ClearedRows == ASSUME NEW b PROVE FullRows(Cleared(b)) = {}
<1> SUFFICES ASSUME NEW y \in Rows, Row(y) \subseteq Cleared(b) PROVE FALSE
  BY DEF FullRows
<1>1. Cleared(b) \subseteq b
  BY DEF Cleared
<1>2. y \in FullRows(b)
  BY <1>1 DEF FullRows
<1>3. <<0, y>> \in Cleared(b)
  BY RowsAreNat DEF Row
<1> QED
  BY <1>2, <1>3 DEF Cleared

(* The block that locks is on the row that is full: it paints nothing new. *)
LEMMA LocksPaints ==
  ASSUME can_clear_row
  PROVE  Painted(TRUE, LockedBlock, LockedBlock, "CYAN") = board_arr
<1>1. clear_y \in FullRows(board_arr)
  BY ClearYIs, LowestIs DEF can_clear_row
<1>2. \A k \in 1..4 : <<k - 1, clear_y>> \in board_arr
  <2>1. \A k \in 1..4 : k - 1 \in Columns
    BY RowsAreNat
  <2> QED
    BY <1>1, <2>1 DEF FullRows, Row
<1>3. CellsOf(LockedBlock) \subseteq board_arr
  BY <1>2 DEF CellsOf, LockedBlock
<1> QED
  BY <1>3 DEF Painted

LEMMA LocksProgress ==
  ASSUME MachineInv, Locks
  PROVE  MachineInv'
<1>1. FullRows(board_arr) # {} /\ state = "PLAY"
  BY DEF Locks, can_clear_row
<1>2. before # {}
  BY <1>1, EmptyBoard DEF MachineInv, WasReset
<1>3. Progress /\ pulses = <<>> /\ board_arr = before /\ total_num_rows = 0
  BY <1>1, <1>2 DEF MachineInv, Progress, Scored
<1>4. Play(TRUE, LockedBlock, LockedBlock, "CYAN")
  BY <1>1 DEF Locks, BoardTick, Busy, ClearWait, ClearRow, DropWait, Drop, Score
<1>5. board_arr' = board_arr
  BY <1>4, LocksPaints DEF Play, Locks
<1>6. num_rows = Count(before) /\ clear_y = Lowest(before)
  BY <1>3, ClearYIs DEF Locks, num_rows, Count
<1>7. /\ state' = "CLEAR" /\ num_rows_reg' = Count(before) /\ clear_y_reg' = Lowest(before)
      /\ total_num_rows' = (0 + Count(before)) % TotalWrap
      /\ before' = before /\ pulses' = <<>>
  BY <1>3, <1>4, <1>6 DEF Play, Locks
<1>8. total_num_rows' = Count(before)
  <2>1. Count(before) \in 1..4
    BY <1>3, LockCount DEF Progress
  <2>2. TotalWrap \in Nat /\ TotalWrap > 4
    BY BoardAssumption, LineClearAssumption
  <2>3. \A n \in 1..4 : (0 + n) % TotalWrap = n
    BY <2>2
  <2> QED
    BY <1>7, <2>1, <2>3
<1>9. BoardTypeOK'
  <2>1. CellsOf(LockedBlock) \subseteq Array
    <3>1. clear_y \in Rows
      BY ClearYType DEF Locks
    <3>2. \A k \in 1..4 : k - 1 \in Columns
      BY RowsAreNat
    <3> QED
      BY <3>1, <3>2 DEF CellsOf, LockedBlock, Array
  <2> QED
    BY <2>1, BoardTickType DEF MachineInv, Locks
<1>10. Progress'
  <2>1. FullRows(board_arr)' = FullRows(before)
    BY <1>3, <1>5 DEF FullRows, Row
  <2>2. board_arr' = {c \in before : c[2] \notin FullRows(before) \ FullRows(before)}
    BY <1>3, <1>5
  <2>3. MayLock(before)' /\ FullRows(before)' = FullRows(before)
    BY <1>3, <1>7 DEF Progress, MayLock, FullRows, Row
  <2>4. Count(before)' = Count(before) /\ Lowest(before)' = Lowest(before)
    BY <1>7 DEF Count, Lowest, FullRows, Row, Max
  <2>5. FullRows(board_arr)' # {}
    BY <1>1, <1>3, <2>1
  <2> QED
    BY <1>7, <1>8, <2>1, <2>2, <2>3, <2>4, <2>5 DEF Progress, Scored
<1> QED
  BY <1>2, <1>7, <1>9, <1>10 DEF MachineInv

(* One cycle while the machine is busy, after a reset: nothing happens to  *)
(* an empty board, and no rows are scored.                                 *)
LEMMA ClearsReset ==
  ASSUME MachineInv, before = {}, NEW edge \in BOOLEAN, Clears(edge)
  PROVE  WasReset'
<1>1. board_arr = {} /\ num_rows_reg = 0 /\ pulses = <<>>
  BY DEF MachineInv, WasReset, Clears, BOARD_BUSY
<1>2. Busy(edge) /\ num_rows_reg' = num_rows_reg
  BY DEF Clears, BOARD_BUSY, BoardTick, Play, Busy
<1>3. pulses' = IF state = "SCORE" THEN <<0>> ELSE <<>>
  <2>1. 0 % 8 = 0
    OBVIOUS
  <2> QED
    BY <1>1, <2>1 DEF Clears
<1>4. board_arr' = {}
  <2>1. ASSUME NEW garbage PROVE Dropped(garbage) = {}
    <3>1. \A c \in Array : ~(c[2] < num_rows_reg)
      <4>1. \A c \in Array : c[2] \in 0..19
        BY RowsAreNat DEF Array
      <4> QED
        BY <1>1, <4>1
    <3> QED
      BY <1>1, <3>1 DEF Dropped
  <2> QED
    BY <1>1, <1>2, <2>1 DEF Busy, ClearWait, ClearRow, DropWait, Drop, Score
<1>5. state' # "PLAY" => state # "SCORE"
  BY <1>2 DEF Busy, ClearWait, ClearRow, DropWait, Drop, Score
<1> QED
  BY <1>1, <1>2, <1>3, <1>4, <1>5 DEF WasReset

(* The row that is due disappears from the board and from its full rows.   *)
LEMMA RowCleared ==
  ASSUME BoardTypeOK, before \subseteq Array, Progress, NEW edge,
         state = "CLEAR", ClearRow(edge)
  PROVE  /\ clear_y \in FullRows(board_arr)
         /\ FullRows(board_arr') = FullRows(board_arr) \ {clear_y}
         /\ board_arr' = {c \in before : c[2] \notin FullRows(before) \ FullRows(board_arr')}
<1>1. FullRows(board_arr) # {}
  BY DEF Progress
<1>2. clear_y \in FullRows(board_arr)
  BY <1>1, ClearYIs, LowestIs DEF can_clear_row
<1>3. clear_y \in Rows
  BY <1>2 DEF FullRows
<1>4. board_arr' = board_arr \ Row(clear_y)
  BY <1>1 DEF ClearRow, can_clear_row
<1>5. FullRows(board_arr') = FullRows(board_arr) \ {clear_y}
  BY <1>3, <1>4, FullRowsCleared
<1>6. board_arr = {c \in before : c[2] \notin FullRows(before) \ FullRows(board_arr)}
  BY DEF Progress
<1>7. \A c \in before : c \in Row(clear_y) <=> c[2] = clear_y
  BY DEF Row, Array
<1>8. clear_y \in FullRows(before)
  <2>1. board_arr \subseteq before
    BY <1>6
  <2> QED
    BY <1>2, <2>1, FullRowsShrink
<1>9. board_arr' = {c \in before : c[2] \notin FullRows(before) \ FullRows(board_arr')}
  <2>1. ASSUME NEW c \in before
        PROVE  c \in board_arr' <=> c[2] \notin FullRows(before) \ FullRows(board_arr')
    BY <1>4, <1>5, <1>6, <1>7, <1>8
  <2>2. board_arr' \subseteq before
    BY <1>4, <1>6
  <2> QED
    BY <2>1, <2>2
<1> QED
  BY <1>2, <1>5, <1>9

(* What a drop leaves below the garbage it may have read.                  *)
LEMMA DroppedIsMoved ==
  ASSUME BoardTypeOK, before \subseteq Array, MayLock(before),
         num_rows_reg = Count(before), clear_y_reg = Lowest(before),
         board_arr = Cleared(before), NEW garbage
  PROVE  Below(Dropped(garbage), Count(before)) = Below(Moved(before), Count(before))
<1> DEFINE n == Count(before)
           L == Lowest(before)
           low == {c \in before : c[2] > L}
           moved == {<<c[1], c[2] + n>> : c \in {d \in Cleared(before) : d[2] + n <= L}}
           read == {c \in garbage : c \in Array /\ c[2] < n /\ c[2] <= L}
<1>1. \A y \in FullRows(before) : y <= L
  BY LowestIs DEF MayLock
<1>2. {c \in Cleared(before) : c[2] > L} = low
  <2>1. FullRows(before) \subseteq 0..19 /\ L \in 0..19
    BY FullRowsIn, LowestIs DEF MayLock
  <2>2. \A c \in before : c[2] > L => c[2] \notin FullRows(before)
    BY <1>1, <2>1
  <2> QED
    BY <2>2 DEF Cleared
<1>3. Dropped(garbage) = low \cup moved \cup read
  BY <1>2 DEF Dropped
<1>4. Moved(before) = low \cup moved
  BY DEF Moved
<1>5. Below(read, n) = {}
  <2>1. \A c \in read : c[2] \in 0..19 /\ c[2] < n
    BY RowsAreNat DEF Array
  <2>2. n \in 1..4
    BY LockCount
  <2> HIDE DEF n, read
  <2> QED
    BY <2>1, <2>2 DEF Below
<1> HIDE DEF n, low, moved, read
<1> QED
  BY <1>3, <1>4, <1>5 DEF Below, n

LEMMA ClearsProgress ==
  ASSUME MachineInv, PlainGarbage, before # {}, NEW edge \in BOOLEAN, Clears(edge)
  PROVE  Progress'
<1>1. Busy(edge) /\ state # "PLAY" /\ before' = before
  BY DEF Clears, BOARD_BUSY, BoardTick, Play
<1>2. /\ Progress /\ BoardTypeOK /\ before \subseteq Array
      /\ pulses = <<>> /\ MayLock(before)
  BY <1>1 DEF MachineInv, Progress
<1>3. Count(before) \in 1..4 /\ Lowest(before) \in 0..19
  BY <1>2, LockCount, LowestIs, FullRowsIn DEF MayLock
<1>4. /\ num_rows_reg = Count(before) /\ clear_y_reg = Lowest(before)
      /\ total_num_rows = Count(before)
      /\ UNCHANGED <<num_rows_reg, clear_y_reg, total_num_rows>>
  BY <1>1, <1>2 DEF Progress, Busy
<1>5. /\ MayLock(before)' /\ Count(before)' = Count(before)
      /\ Lowest(before)' = Lowest(before) /\ FullRows(before)' = FullRows(before)
      /\ Cleared(before)' = Cleared(before) /\ Moved(before)' = Moved(before)
      /\ FullRows(board_arr)' = FullRows(board_arr')
  BY <1>1, <1>2 DEF MayLock, Count, Lowest, Max, Cleared, Moved, FullRows, Row
<1>6. CASE ClearWait(edge) \/ DropWait(edge)
  <2>1. UNCHANGED <<board_arr, state, pulses>>
    BY <1>6 DEF ClearWait, DropWait, Clears
  <2> QED
    BY <1>1, <1>2, <1>4, <1>5, <2>1 DEF Progress, Scored, Below
<1>7. CASE ClearRow(edge)
  <2>1. state = "CLEAR" /\ state' = AfterClear /\ pulses' = <<>>
    BY <1>2, <1>7 DEF ClearRow, Clears
  <2>2. /\ clear_y \in FullRows(board_arr)
        /\ FullRows(board_arr') = FullRows(board_arr) \ {clear_y}
        /\ board_arr' = {c \in before : c[2] \notin FullRows(before) \ FullRows(board_arr')}
    BY <1>2, <1>7, <2>1, RowCleared
  <2>3. CASE num_rows = 1
    <3>1. FullRows(board_arr') = {}
      BY <2>2, <2>3, LastFullRow
    <3>2. board_arr' = Cleared(before)
      BY <2>2, <3>1 DEF Cleared
    <3>3. (clear_y_reg - num_rows_reg) % 32 # 0 <=> Lowest(before) # Count(before)
      <4>1. \A l \in 0..19, n \in 1..4 : (l - n) % 32 # 0 <=> l # n
        OBVIOUS
      <4> QED
        BY <1>3, <1>4, <4>1
    <3>4. state' = IF Lowest(before) # Count(before) THEN "DROP" ELSE "SCORE"
      BY <2>1, <2>3, <3>3 DEF AfterClear
    <3> QED
      BY <1>4, <1>5, <2>1, <3>1, <3>2, <3>4 DEF Progress, Scored
  <2>4. CASE num_rows > 1
    <3>1. state' = "CLEAR"
      BY <2>1, <2>4 DEF AfterClear
    <3>2. FullRows(board_arr) # {clear_y}
      <4>1. Cardinality({clear_y}) = 1
        BY FS_Singleton
      <4> QED
        BY <2>4, <4>1 DEF num_rows
    <3>3. FullRows(board_arr') # {}
      BY <2>2, <3>2
    <3> QED
      BY <1>1, <1>4, <1>5, <2>1, <2>2, <3>1, <3>3 DEF Progress, Scored
  <2>5. num_rows # 0
    BY <2>2, NoFullRows
  <2>6. num_rows \in Nat
    BY FullRowsFinite, FS_CardinalityType DEF num_rows
  <2> QED
    BY <2>3, <2>4, <2>5, <2>6
<1>8. CASE Drop(edge)
  <2>1. PICK garbage \in Garbage : board_arr' = Dropped(garbage)
    BY <1>8 DEF Drop
  <2>2. board_arr = Cleared(before) /\ Lowest(before) # Count(before)
    BY <1>2, <1>8 DEF Progress, Drop
  <2>3. FullRows(board_arr') = {}
    BY <1>2, <2>1, <2>2, ClearedRows, DroppedRows
  <2>4. Below(board_arr', Count(before)) = Below(Moved(before), Count(before))
    BY <1>2, <1>4, <2>1, <2>2, DroppedIsMoved
  <2>5. state' = "SCORE" /\ pulses' = <<>>
    BY <1>2, <1>8 DEF Drop, Clears
  <2> QED
    BY <1>4, <1>5, <2>2, <2>3, <2>4, <2>5 DEF Progress, Scored, Below
<1>9. CASE Score
  <2>1. state = "SCORE" /\ state' = "PLAY" /\ board_arr' = board_arr
    BY <1>9 DEF Score
  <2>2. pulses' = <<Count(before)>>
    <3>1. num_rows_reg % 8 = Count(before)
      BY <1>3, <1>4
    <3> QED
      BY <1>2, <2>1, <3>1 DEF Clears
  <2> QED
    BY <1>2, <1>4, <1>5, <2>1, <2>2 DEF Progress, Scored, Below
<1> QED
  BY <1>1, <1>6, <1>7, <1>8, <1>9 DEF Busy

-----------------------------------------------------------------------------
(* LineClear: the invariant, and what follows from it.                     *)

LEMMA MachineStep ==
  ASSUME MachineInv, PlainGarbage, [ClearNext]_clearVars
  PROVE  MachineInv'
<1>1. CASE Locks
  BY <1>1, LocksProgress
<1>2. ASSUME NEW edge \in BOOLEAN, Clears(edge) PROVE MachineInv'
  <2> DEFINE corner == [k \in 1..4 |-> <<0, 0>>]
  <2>1. BoardTypeOK'
    <3>1. BoardTick(edge, FALSE, corner, corner, "CYAN")
      BY <1>2 DEF Clears, BOARD_BUSY, BoardTick, Play
    <3>2. 0 \in Columns /\ 0 \in Rows
      BY BoardAssumption DEF Columns, Rows
    <3>3. CellsOf(corner) \subseteq Array
      BY <3>2 DEF CellsOf, Array
    <3> QED
      BY <3>1, <3>3, BoardTickType DEF MachineInv
  <2>2. before' = before
    BY <1>2 DEF Clears
  <2> QED
    BY <1>2, <2>1, <2>2, ClearsReset, ClearsProgress DEF MachineInv
<1>3. CASE ClearReset
  <2>1. BoardTypeOK'
    BY <1>3, BoardResetType DEF MachineInv, ClearReset
  <2> QED
    BY <1>3, <2>1 DEF ClearReset, BoardReset, MachineInv, WasReset
<1>4. CASE UNCHANGED clearVars
  <2>1. /\ UNCHANGED <<board_arr, state, clear_counter, num_rows_reg, clear_y_reg,
                      total_num_rows, level_speed>>
        /\ UNCHANGED <<before, pulses>>
    BY <1>4 DEF clearVars, boardVars
  <2>2. BoardTypeOK' <=> BoardTypeOK
    BY <2>1 DEF BoardTypeOK
  <2>3. WasReset' <=> WasReset
    BY <2>1 DEF WasReset
  <2>4. Progress' <=> Progress
    BY <2>1 DEF Progress, Scored, MayLock, Count, Lowest, Max, Cleared, Moved, Below,
                FullRows, Row
  <2> QED
    BY <2>1, <2>2, <2>3, <2>4 DEF MachineInv
<1> QED
  BY <1>1, <1>2, <1>3, <1>4 DEF ClearNext

LEMMA MachineInit == ClearInit => MachineInv
<1> SUFFICES ASSUME ClearInit PROVE MachineInv
  OBVIOUS
<1>1. board_arr \subseteq Array
  <2>1. PICK pattern \in [Rows -> RowPatterns] : board_arr = BoardOf(pattern)
    BY DEF ClearInit
  <2>2. \A y \in Rows : pattern[y] \subseteq Columns
    BY LineClearAssumption
  <2> QED
    BY <2>1, <2>2 DEF BoardOf, Array
<1>2. BoardTypeOK
  <2>1. num_rows_reg \in 0..YSize /\ clear_y_reg \in Rows
    BY BoardAssumption DEF ClearInit, Rows
  <2>2. level_speed \in 0..63
    BY LevelSpeedType DEF ClearInit
  <2>3. total_num_rows \in 0..(TotalWrap - 1) /\ clear_counter \in 0..7
    BY BoardAssumption DEF ClearInit
  <2> QED
    BY <1>1, <2>1, <2>2, <2>3 DEF BoardTypeOK, ClearInit
<1>3. before # {}
  BY EmptyBoard DEF ClearInit, MayLock
<1>4. Progress
  BY DEF ClearInit, Progress, Scored
<1> QED
  BY <1>1, <1>2, <1>3, <1>4 DEF MachineInv, ClearInit

THEOREM MachineInvariant == PlainGarbage => (ClearSpec => []MachineInv)
<1> SUFFICES ASSUME PlainGarbage PROVE ClearSpec => []MachineInv
  OBVIOUS
<1>1. MachineInv /\ [ClearNext]_clearVars => MachineInv'
  BY MachineStep
<1> QED
  BY MachineInit, <1>1, PTL DEF ClearSpec

(* Clearing removes every full row of the board that locked, and only      *)
(* them, before anything drops.                                            *)
THEOREM ClearsAll == PlainGarbage => (ClearSpec => []ClearsAllFullRows)
<1>1. MachineInv => ClearsAllFullRows
  BY DEF MachineInv, Progress, Scored, ClearsAllFullRows, Cleared
<1> QED
  BY <1>1, MachineInvariant, PTL

(* Every lock is scored once, with the number of rows that were full, and  *)
(* the rows of the level agree.                                            *)
THEOREM ScoresOnce == PlainGarbage => (ClearSpec => []ScoresTheLock)
<1>1. ASSUME MachineInv PROVE ScoresTheLock
  <2>1. CASE before = {}
    BY <1>1, <2>1, EmptyBoard DEF MachineInv, WasReset, ScoresTheLock
  <2>2. CASE before # {}
    <3>1. Progress
      BY <1>1, <2>2 DEF MachineInv
    <3>2. Done => pulses # <<>>
      BY <3>1 DEF Done, Progress, can_clear_row, MayLock
    <3> QED
      BY <3>1, <3>2 DEF ScoresTheLock, Progress, Done
  <2> QED
    BY <2>1, <2>2
<1> QED
  BY <1>1, MachineInvariant, PTL

(* When the full rows lie together the machine compacts the board: a cell  *)
(* that is not below all of them moves down by their number.               *)
LEMMA MovedIsCompacted ==
  ASSUME before \subseteq Array, MayLock(before), Contiguous(before)
  PROVE  Moved(before) = Compacted(before)
<1> DEFINE n == Count(before)
           L == Lowest(before)
           S == FullRows(before)
           under(c) == {y \in S : y > c[2]}
<1>1. S = (L - n + 1)..L
  BY ContiguousRows
<1>2. n \in 1..4 /\ L \in 0..19 /\ S \in SUBSET (0..19) /\ n = Cardinality(S)
  BY LockCount, LowestIs, FullRowsIn DEF MayLock, Count
<1>3. \A c \in before : c = <<c[1], c[2]>> /\ c[2] \in 0..19
  <2>1. \A c \in Array : c = <<c[1], c[2]>> /\ c[2] \in Rows
    BY DEF Array
  <2> QED
    BY <2>1, RowsAreNat
<1>4. Cardinality({}) = 0
  BY FS_EmptySet
<1> HIDE DEF n, L, S
<1>5. ASSUME NEW c \in Cleared(before)
      PROVE  IF c[2] > L THEN under(c) = {} ELSE under(c) = S /\ c[2] + n <= L
  <2>1. c[2] \in 0..19 /\ c[2] \notin S
    BY <1>3 DEF Cleared, S
  <2>2. c[2] \notin (L - n + 1)..L /\ n \in 1..4 /\ L \in 0..19
    BY <1>1, <1>2, <2>1
  <2>3. c[2] > L \/ c[2] < L - n + 1
    BY <2>1, <2>2
  <2>4. \A y \in S : y \in Int /\ L - n + 1 <= y /\ y <= L
    BY <1>1, <2>2
  <2>5. CASE c[2] > L
    <3>1. \A y \in S : ~(y > c[2])
      BY <2>1, <2>2, <2>4, <2>5
    <3> QED
      BY <2>5, <3>1
  <2>6. CASE c[2] < L - n + 1
    <3>1. \A y \in S : y > c[2]
      BY <2>1, <2>2, <2>4, <2>6
    <3>2. ~(c[2] > L) /\ c[2] + n <= L
      BY <2>1, <2>2, <2>6
    <3> QED
      BY <3>1, <3>2
  <2> QED
    BY <2>3, <2>5, <2>6
<1> DEFINE to(c) == <<c[1], c[2] + Cardinality(under(c))>>
<1>6. ASSUME NEW c \in Cleared(before)
      PROVE  to(c) = IF c[2] > L THEN c ELSE <<c[1], c[2] + n>>
  <2>1. c = <<c[1], c[2]>> /\ c[2] + 0 = c[2]
    BY <1>3 DEF Cleared
  <2> QED
    BY <1>2, <1>4, <1>5, <2>1
<1>7. \A c \in before : c[2] > L => c \in Cleared(before)
  BY <1>1, <1>2, <1>3 DEF Cleared, S
<1>8. \A c \in Cleared(before) : c \in before /\ (c[2] + n <= L <=> ~(c[2] > L))
  BY <1>2, <1>3, <1>5 DEF Cleared
<1>9. Compacted(before) = {to(c) : c \in Cleared(before)}
  BY DEF Compacted, Cleared, S
<1>10. Moved(before) = {c \in before : c[2] > L}
                         \cup {<<c[1], c[2] + n>> : c \in {d \in Cleared(before) : d[2] + n <= L}}
  BY DEF Moved, n, L
<1> HIDE DEF to
<1> QED
  BY <1>6, <1>7, <1>8, <1>9, <1>10

(* With full rows that lie together, the board ends up compacted, but for  *)
(* the topmost rows and for a single block of rows at the very top.        *)
THEOREM CompactsBoard == PlainGarbage => (ClearSpec => []CompactsContiguous)
<1>1. ASSUME MachineInv PROVE CompactsContiguous
  <2> SUFFICES ASSUME Done, before # {}, Contiguous(before), Lowest(before) # Count(before)
               PROVE  Below(board_arr, Count(before)) = Below(Compacted(before), Count(before))
    BY DEF CompactsContiguous
  <2>1. Progress /\ before \subseteq Array
    BY <1>1 DEF MachineInv
  <2>2. pulses # <<>>
    BY <2>1 DEF Done, Progress, can_clear_row, MayLock
  <2>3. Below(board_arr, Count(before)) = Below(Moved(before), Count(before))
    BY <2>1, <2>2 DEF Progress, Scored, Done
  <2> QED
    BY <2>1, <2>3, MovedIsCompacted DEF Progress
<1> QED
  BY <1>1, MachineInvariant, PTL

-----------------------------------------------------------------------------
(* RotateWalk: on every path of turns the third cell of a block stays      *)
(* where it started, but for the bar, whose third cell goes around its     *)
(* centre; the other cells follow from the shape.                          *)

LEMMA Add5NoWrap ==
  ASSUME NEW a \in Int, NEW d \in Int, a + d \in 0..19
  PROVE  Add5(a, d) = a + d
BY DEF Add5

Drift(i, o) ==
    IF i # 0 \/ o = "NORMAL" THEN <<0, 0>>
    ELSE IF o = "ROT_LEFT" THEN <<-1, 1>> ELSE <<0, 1>>

StartX(k) == StartAt(idx)[k][1] - SpawnShift + at[1]
StartY(k) == StartAt(idx)[k][2] + at[2]

WalkInv ==
    /\ idx \in Pieces /\ at \in Shifts /\ cur_orientation \in Orientations
    /\ cells[3][1] = StartX(3) + Drift(idx, cur_orientation)[1]
    /\ cells[3][2] = StartY(3) + Drift(idx, cur_orientation)[2]
    /\ HasShape(cells, idx, cur_orientation)

LEMMA WalkConstants ==
  ASSUME idx \in Pieces, at \in Shifts
  PROVE  /\ idx \in 0..6 /\ SpawnShift \in 0..3
         /\ at[1] \in 0..7 /\ at[2] \in 2..16
BY TetrominoAssumption, RotateWalkAssumption

LEMMA StartExact ==
  ASSUME idx \in Pieces, at \in Shifts, NEW k \in 1..4
  PROVE  LET start == Shifted(StartCells(idx), at[1], at[2])
         IN  /\ start[k][1] = StartX(k) /\ start[k][2] = StartY(k)
             /\ StartX(k) \in 0..13 /\ StartY(k) \in 2..17
             /\ idx = 0 => StartY(k) \in 2..16
             /\ idx # 3 => StartX(3) \in 2..12
<1>1. idx \in 0..6 /\ SpawnShift \in 0..3 /\ at[1] \in 0..7 /\ at[2] \in 2..16
  BY WalkConstants
<1>2. StartAt(idx)[k][1] \in 3..6 /\ StartAt(idx)[k][2] \in 0..1
  BY <1>1 DEF StartAt
<1>3. (idx = 0 => StartAt(idx)[k][2] = 0) /\ (idx # 3 => StartAt(idx)[3][1] = 5)
  BY <1>1 DEF StartAt
<1>4. StartX(k) \in 0..13 /\ StartY(k) \in 2..17
  BY <1>1, <1>2 DEF StartX, StartY
<1>5. (idx = 0 => StartY(k) \in 2..16) /\ (idx # 3 => StartX(3) \in 2..12)
  BY <1>1, <1>3 DEF StartX, StartY
<1>6. Add5(StartAt(idx)[k][1] - SpawnShift, at[1]) = StartX(k)
  <2> DEFINE a == StartAt(idx)[k][1] - SpawnShift
             d == at[1]
  <2>1. a \in Int /\ d \in Int /\ a + d = StartX(k) /\ a + d \in 0..19
    BY <1>1, <1>2, <1>4 DEF StartX
  <2> HIDE DEF a, d
  <2>2. Add5(a, d) = StartX(k)
    BY <2>1, Add5NoWrap
  <2> QED
    BY <2>2 DEF a, d
<1>7. Add5(StartAt(idx)[k][2], at[2]) = StartY(k)
  <2> DEFINE a == StartAt(idx)[k][2]
             d == at[2]
  <2>1. a \in Int /\ d \in Int /\ a + d = StartY(k) /\ a + d \in 0..19
    BY <1>1, <1>2, <1>4 DEF StartY
  <2> HIDE DEF a, d
  <2>2. Add5(a, d) = StartY(k)
    BY <2>1, Add5NoWrap
  <2> QED
    BY <2>2 DEF a, d
<1> QED
  BY <1>4, <1>5, <1>6, <1>7 DEF Shifted, StartCells

LEMMA OffsetSmall ==
  ASSUME NEW i \in {1, 2, 4, 5, 6}, NEW o \in Orientations, NEW k \in 1..4
  PROVE  ShapeOffset(i, o, k)[1] \in -2..2 /\ ShapeOffset(i, o, k)[2] \in -2..2
<1> DEFINE from == <<StartAt(i)[k][1] - StartAt(i)[3][1],
                     StartAt(i)[k][2] - StartAt(i)[3][2]>>
<1>1. from[1] \in -2..2 /\ from[2] \in -2..2
  BY DEF StartAt
<1>2. TurnedOffset(from, o)[1] \in -2..2 /\ TurnedOffset(from, o)[2] \in -2..2
  <2> HIDE DEF from
  <2> QED
    BY <1>1 DEF TurnedOffset, QuarterLeft, Orientations
<1>3. ShapeOffset(i, o, k) = TurnedOffset(from, o)
  BY DEF ShapeOffset
<1> QED
  BY <1>2, <1>3

(* A turn about the third cell, with room for it.                          *)
LEMMA PivotExact ==
  ASSUME NEW i \in {1, 2, 4, 5, 6}, NEW o \in Orientations, NEW turn \in Turns,
         NEW blk, HasShape(blk, i, o), blk[3][1] \in 2..17, blk[3][2] \in 2..17
  PROVE  LET new == Rotated(ColorOf(i), o, turn, blk)
         IN  /\ HasShape(new, i, TurnedTo(turn, o))
             /\ new[3][1] = blk[3][1] /\ new[3][2] = blk[3][2]
<1> DEFINE new == Rotated(ColorOf(i), o, turn, blk)
           d == TurnTable[ColorOf(i)][turn][o]
           old(k) == ShapeOffset(i, o, k)
           next(k) == ShapeOffset(i, TurnedTo(turn, o), k)
<1>1. new = [k \in 1..4 |-> <<Add5(blk[k][1], d[k][1]), Add5(blk[k][2], d[k][2])>>]
  <2>1. ColorOf(i) \in {"BLUE", "ORANGE", "GREEN", "MAGENTA", "RED"}
    BY DEF ColorOf
  <2> QED
    BY <2>1 DEF Rotated
<1>2. ASSUME NEW k \in 1..4
      PROVE  /\ new[k][1] = blk[3][1] + next(k)[1] /\ new[k][1] \in 0..19
             /\ new[k][2] = blk[3][2] + next(k)[2] /\ new[k][2] \in 0..19
             /\ blk[k][1] \in 0..19 /\ blk[k][2] \in 0..19
  <2>1. /\ new[k][1] = Add5(blk[k][1], d[k][1])
        /\ new[k][2] = Add5(blk[k][2], d[k][2])
    <3> HIDE DEF new, d
    <3> QED
      BY <1>1
  <2>2. blk[k][1] = blk[3][1] + old(k)[1] /\ blk[k][2] = blk[3][2] + old(k)[2]
    BY DEF HasShape
  <2>3. TurnedTo(turn, o) \in Orientations
    BY TurnedType
  <2>4. /\ old(k)[1] \in -2..2 /\ old(k)[2] \in -2..2
        /\ next(k)[1] \in -2..2 /\ next(k)[2] \in -2..2
    BY <2>3, OffsetSmall
  <2>5. TableFits(i, o, turn, k)
    BY TablesFit
  <2>6. /\ d[k][1] \in -2..2 /\ d[k][2] \in -2..2
        /\ next(k)[1] = old(k)[1] + d[k][1] /\ next(k)[2] = old(k)[2] + d[k][2]
    BY <2>5 DEF TableFits
  <2> HIDE DEF new, d, old, next
  <2>7. blk[k][1] \in 0..19 /\ blk[k][2] \in 0..19
    BY <2>2, <2>4
  <2>8. /\ blk[k][1] + d[k][1] = blk[3][1] + next(k)[1]
        /\ blk[k][1] + d[k][1] \in 0..19
    BY <2>2, <2>4, <2>6
  <2>9. /\ blk[k][2] + d[k][2] = blk[3][2] + next(k)[2]
        /\ blk[k][2] + d[k][2] \in 0..19
    BY <2>2, <2>4, <2>6
  <2>10. /\ Add5(blk[k][1], d[k][1]) = blk[k][1] + d[k][1]
         /\ Add5(blk[k][2], d[k][2]) = blk[k][2] + d[k][2]
    <3>1. d[k][1] \in Int /\ d[k][2] \in Int /\ blk[k][1] \in Int /\ blk[k][2] \in Int
      BY <2>6, <2>7
    <3> QED
      BY <3>1, <2>8, <2>9, Add5NoWrap
  <2> QED
    BY <2>1, <2>7, <2>8, <2>9, <2>10
<1>3. HasShape(new, i, TurnedTo(turn, o))
  <2>1. OnBoard(blk) /\ OnBoard(new)
    BY <1>2 DEF OnBoard
  <2> QED
    BY <2>1, PivotTurn
<1>4. next(3)[1] = 0 /\ next(3)[2] = 0
  <2>1. TurnedTo(turn, o) \in Orientations
    BY TurnedType
  <2>2. StartAt(i)[3][1] - StartAt(i)[3][1] = 0 /\ StartAt(i)[3][2] - StartAt(i)[3][2] = 0
    BY DEF StartAt
  <2>3. next(3) = TurnedOffset(<<0, 0>>, TurnedTo(turn, o))
    BY <2>2 DEF ShapeOffset
  <2> QED
    BY <2>1, <2>3 DEF TurnedOffset, QuarterLeft, Orientations
<1>5. new[3][1] = blk[3][1] /\ new[3][2] = blk[3][2]
  <2> HIDE DEF new, next
  <2> QED
    BY <1>2, <1>4
<1> QED
  BY <1>3, <1>5

(* What the table of the bar says of its k-th cell, relative to where the  *)
(* bar started: the two cells that it is rebuilt from, and how far.        *)
BarFits(o, turn, k) ==
    LET row == CyanTurn[turn][o]
        to == TurnedTo(turn, o)
        s1 == Drift(0, o)[1] + ShapeOffset(0, o, row.x)[1]
        s2 == Drift(0, o)[2] + ShapeOffset(0, o, row.y)[2]
        dx == IF row.axis = "x" THEN row.first + k - 1 ELSE 0
        dy == IF row.axis = "y" THEN row.first + k - 1 ELSE 0
    IN  /\ s1 + dx = Drift(0, to)[1] + ShapeOffset(0, to, k)[1]
        /\ s2 + dy = Drift(0, to)[2] + ShapeOffset(0, to, k)[2]
        /\ dx \in Int /\ dy \in Int /\ s1 \in Int /\ s2 \in Int
        /\ s1 + dx \in -2..2 /\ s2 + dy \in -2..2

LEMMA BarTable ==
  ASSUME NEW o \in Orientations, NEW turn \in Turns, NEW k \in 1..4
  PROVE  BarFits(o, turn, k)
<1>1. \A n \in 1..4 : \A q \in Orientations :
          ShapeOffset(0, q, n) = IF q \in {"NORMAL", "ROT2"} THEN <<n - 3, 0>> ELSE <<0, n - 3>>
  BY DEF ShapeOffset
<1>2. /\ Drift(0, "NORMAL") = <<0, 0>> /\ Drift(0, "ROT_LEFT") = <<-1, 1>>
      /\ Drift(0, "ROT2") = <<0, 1>> /\ Drift(0, "ROT_RIGHT") = <<0, 1>>
  BY DEF Drift
<1>3. CASE o = "NORMAL"
  <2>1. CASE turn = "LEFT"
    <3>1. /\ CyanTurn[turn][o] = [x |-> 2, y |-> 4, axis |-> "y", first |-> -1]
          /\ TurnedTo(turn, o) = "ROT_LEFT"
      BY <1>3, <2>1 DEF CyanTurn, TurnedTo
    <3> QED
      BY <1>1, <1>2, <1>3, <3>1 DEF BarFits, Orientations
  <2>2. CASE turn = "RIGHT"
    <3>1. /\ CyanTurn[turn][o] = [x |-> 3, y |-> 4, axis |-> "y", first |-> -1]
          /\ TurnedTo(turn, o) = "ROT_RIGHT"
      BY <1>3, <2>2 DEF CyanTurn, TurnedTo
    <3> QED
      BY <1>1, <1>2, <1>3, <3>1 DEF BarFits, Orientations
  <2> QED
    BY <2>1, <2>2 DEF Turns
<1>4. CASE o = "ROT_LEFT"
  <2>1. CASE turn = "LEFT"
    <3>1. /\ CyanTurn[turn][o] = [x |-> 3, y |-> 3, axis |-> "x", first |-> -1]
          /\ TurnedTo(turn, o) = "ROT2"
      BY <1>4, <2>1 DEF CyanTurn, TurnedTo
    <3> QED
      BY <1>1, <1>2, <1>4, <3>1 DEF BarFits, Orientations
  <2>2. CASE turn = "RIGHT"
    <3>1. /\ CyanTurn[turn][o] = [x |-> 3, y |-> 2, axis |-> "x", first |-> -1]
          /\ TurnedTo(turn, o) = "NORMAL"
      BY <1>4, <2>2 DEF CyanTurn, TurnedTo
    <3> QED
      BY <1>1, <1>2, <1>4, <3>1 DEF BarFits, Orientations
  <2> QED
    BY <2>1, <2>2 DEF Turns
<1>5. CASE o = "ROT2"
  <2>1. CASE turn = "LEFT"
    <3>1. /\ CyanTurn[turn][o] = [x |-> 3, y |-> 3, axis |-> "y", first |-> -2]
          /\ TurnedTo(turn, o) = "ROT_RIGHT"
      BY <1>5, <2>1 DEF CyanTurn, TurnedTo
    <3> QED
      BY <1>1, <1>2, <1>5, <3>1 DEF BarFits, Orientations
  <2>2. CASE turn = "RIGHT"
    <3>1. /\ CyanTurn[turn][o] = [x |-> 2, y |-> 3, axis |-> "y", first |-> -2]
          /\ TurnedTo(turn, o) = "ROT_LEFT"
      BY <1>5, <2>2 DEF CyanTurn, TurnedTo
    <3> QED
      BY <1>1, <1>2, <1>5, <3>1 DEF BarFits, Orientations
  <2> QED
    BY <2>1, <2>2 DEF Turns
<1>6. CASE o = "ROT_RIGHT"
  <2>1. CASE turn = "LEFT"
    <3>1. /\ CyanTurn[turn][o] = [x |-> 3, y |-> 2, axis |-> "x", first |-> -2]
          /\ TurnedTo(turn, o) = "NORMAL"
      BY <1>6, <2>1 DEF CyanTurn, TurnedTo
    <3> QED
      BY <1>1, <1>2, <1>6, <3>1 DEF BarFits, Orientations
  <2>2. CASE turn = "RIGHT"
    <3>1. /\ CyanTurn[turn][o] = [x |-> 3, y |-> 3, axis |-> "x", first |-> -2]
          /\ TurnedTo(turn, o) = "ROT2"
      BY <1>6, <2>2 DEF CyanTurn, TurnedTo
    <3> QED
      BY <1>1, <1>2, <1>6, <3>1 DEF BarFits, Orientations
  <2> QED
    BY <2>1, <2>2 DEF Turns
<1> QED
  BY <1>3, <1>4, <1>5, <1>6 DEF Orientations

(* The bar, from where it started: three columns and two rows around.      *)
LEMMA BarExact ==
  ASSUME NEW o \in Orientations, NEW turn \in Turns, NEW x \in 2..12, NEW y \in 2..16,
         NEW blk, HasShape(blk, 0, o),
         blk[3][1] = x + Drift(0, o)[1], blk[3][2] = y + Drift(0, o)[2]
  PROVE  LET new == Rotated("CYAN", o, turn, blk)
             to  == TurnedTo(turn, o)
         IN  /\ HasShape(new, 0, to)
             /\ new[3][1] = x + Drift(0, to)[1] /\ new[3][2] = y + Drift(0, to)[2]
<1> DEFINE row == CyanTurn[turn][o]
           new == Rotated("CYAN", o, turn, blk)
           to == TurnedTo(turn, o)
           dx(k) == IF row.axis = "x" THEN row.first + k - 1 ELSE 0
           dy(k) == IF row.axis = "y" THEN row.first + k - 1 ELSE 0
<1>1. new = [k \in 1..4 |-> <<Add5(blk[row.x][1], dx(k)), Add5(blk[row.y][2], dy(k))>>]
  BY DEF Rotated, Bar
<1>2. ASSUME NEW k \in 1..4
      PROVE  /\ blk[k][1] = x + Drift(0, o)[1] + ShapeOffset(0, o, k)[1]
             /\ blk[k][2] = y + Drift(0, o)[2] + ShapeOffset(0, o, k)[2]
             /\ ShapeOffset(0, o, k) = IF o \in {"NORMAL", "ROT2"}
                                       THEN <<k - 3, 0>> ELSE <<0, k - 3>>
             /\ Drift(0, o) = IF o = "NORMAL" THEN <<0, 0>>
                              ELSE IF o = "ROT_LEFT" THEN <<-1, 1>> ELSE <<0, 1>>
  BY DEF HasShape, ShapeOffset, Drift
<1>3. ASSUME NEW k \in 1..4
      PROVE  /\ blk[k][1] \in 0..19 /\ blk[k][2] \in 0..19
  BY <1>2 DEF Orientations
<1>4. row.x \in 1..4 /\ row.y \in 1..4 /\ to \in Orientations
  BY TurnedType DEF CyanTurn, Turns, Orientations
<1>5. ASSUME NEW k \in 1..4
      PROVE  /\ new[k][1] = x + (Drift(0, to)[1] + ShapeOffset(0, to, k)[1])
             /\ new[k][2] = y + (Drift(0, to)[2] + ShapeOffset(0, to, k)[2])
             /\ new[k][1] \in 0..19 /\ new[k][2] \in 0..19
  <2>1. new[k][1] = Add5(blk[row.x][1], dx(k)) /\ new[k][2] = Add5(blk[row.y][2], dy(k))
    BY <1>1
  <2>2. /\ blk[row.x][1] + dx(k) = x + (Drift(0, to)[1] + ShapeOffset(0, to, k)[1])
        /\ blk[row.x][1] + dx(k) \in 0..19 /\ dx(k) \in Int
        /\ blk[row.x][1] \in Int /\ blk[row.y][2] \in Int
        /\ blk[row.y][2] + dy(k) = y + (Drift(0, to)[2] + ShapeOffset(0, to, k)[2])
        /\ blk[row.y][2] + dy(k) \in 0..19 /\ dy(k) \in Int
    <3> DEFINE s1 == Drift(0, o)[1] + ShapeOffset(0, o, row.x)[1]
               s2 == Drift(0, o)[2] + ShapeOffset(0, o, row.y)[2]
    <3>1. blk[row.x][1] = x + s1 /\ blk[row.y][2] = y + s2
      <4>1. /\ Drift(0, o)[1] \in Int /\ Drift(0, o)[2] \in Int
            /\ ShapeOffset(0, o, row.x)[1] \in Int /\ ShapeOffset(0, o, row.y)[2] \in Int
        BY <1>2, <1>4, OffsetType DEF Drift
      <4>2. /\ blk[row.x][1] = x + Drift(0, o)[1] + ShapeOffset(0, o, row.x)[1]
            /\ blk[row.y][2] = y + Drift(0, o)[2] + ShapeOffset(0, o, row.y)[2]
        BY <1>2, <1>4
      <4> HIDE DEF row
      <4> QED
        BY <4>1, <4>2
    <3>2. /\ s1 + dx(k) = Drift(0, to)[1] + ShapeOffset(0, to, k)[1]
          /\ s2 + dy(k) = Drift(0, to)[2] + ShapeOffset(0, to, k)[2]
          /\ dx(k) \in Int /\ dy(k) \in Int /\ s1 \in Int /\ s2 \in Int
          /\ s1 + dx(k) \in -2..2 /\ s2 + dy(k) \in -2..2
      BY BarTable DEF BarFits
    <3> HIDE DEF row, to, dx, dy, s1, s2
    <3> QED
      BY <3>1, <3>2
  <2> HIDE DEF row, new, to, dx, dy
  <2> QED
    BY <2>1, <2>2, Add5NoWrap
<1>6. HasShape(new, 0, to)
  <2>1. OnBoard(blk) /\ OnBoard(new)
    BY <1>3, <1>5 DEF OnBoard
  <2> QED
    BY <2>1, BarTurn
<1>7. ShapeOffset(0, to, 3)[1] = 0 /\ ShapeOffset(0, to, 3)[2] = 0
  BY DEF ShapeOffset
<1>8. Drift(0, to)[1] \in Int /\ Drift(0, to)[2] \in Int
  BY DEF Drift
<1> HIDE DEF new, to
<1>9. new[3][1] = x + Drift(0, to)[1] /\ new[3][2] = y + Drift(0, to)[2]
  BY <1>5, <1>7, <1>8
<1> QED
  BY <1>6, <1>9 DEF new, to

LEMMA WalkTurn ==
  ASSUME WalkInv, NEW turn \in Turns, Turn(turn)
  PROVE  WalkInv'
<1> DEFINE o == cur_orientation
           to == TurnedTo(turn, cur_orientation)
<1>1. /\ idx' = idx /\ at' = at /\ cur_orientation' = to
      /\ cells' = Rotated(ColorOf(idx), o, turn, cells)
  BY DEF Turn
<1>2. idx \in 0..6 /\ idx \in Pieces /\ at \in Shifts /\ o \in Orientations /\ to \in Orientations
  BY WalkConstants, TurnedType DEF WalkInv
<1>3. StartX(3)' = StartX(3) /\ StartY(3)' = StartY(3)
  BY <1>1 DEF StartX, StartY
<1>4. StartX(3) \in 0..13 /\ StartY(3) \in 2..17
  BY <1>2, StartExact
<1>5. SUFFICES /\ cells'[3][1] = StartX(3) + Drift(idx, to)[1]
               /\ cells'[3][2] = StartY(3) + Drift(idx, to)[2]
               /\ HasShape(cells', idx, to)
  BY <1>1, <1>2, <1>3 DEF WalkInv, Drift, HasShape, ShapeOffset
<1>6. CASE idx = 0
  <2>1. ColorOf(idx) = "CYAN"
    BY <1>6 DEF ColorOf
  <2>2. StartX(3) \in 2..12 /\ StartY(3) \in 2..16
    BY <1>2, <1>6, StartExact
  <2> QED
    BY <1>1, <1>2, <1>6, <2>1, <2>2, BarExact DEF WalkInv
<1>7. CASE idx = 3
  <2>1. ColorOf(3) = "YELLOW"
    BY DEF ColorOf
  <2>2. cells' = cells
    BY <1>1, <1>7, <2>1 DEF Rotated
  <2>3. Drift(3, o) = Drift(3, to)
    BY DEF Drift
  <2>4. HasShape(cells, 3, o) <=> HasShape(cells, 3, to)
    BY DEF HasShape, ShapeOffset
  <2> QED
    BY <1>7, <2>2, <2>3, <2>4 DEF WalkInv
<1>8. CASE idx \in {1, 2, 4, 5, 6}
  <2>1. Drift(idx, o) = <<0, 0>> /\ Drift(idx, to) = <<0, 0>>
    BY <1>8 DEF Drift
  <2>2. StartX(3) \in 2..12
    BY <1>2, <1>8, StartExact
  <2>3. cells[3][1] = StartX(3) /\ cells[3][2] = StartY(3)
    BY <1>4, <2>1, <2>2 DEF WalkInv
  <2>4. cells[3][1] \in 2..17 /\ cells[3][2] \in 2..17
    BY <1>4, <2>2, <2>3
  <2>5. /\ HasShape(cells', idx, to)
        /\ cells'[3][1] = cells[3][1] /\ cells'[3][2] = cells[3][2]
    BY <1>1, <1>2, <1>8, <2>4, PivotExact DEF WalkInv
  <2> QED
    BY <1>4, <2>1, <2>2, <2>3, <2>5
<1> QED
  BY <1>2, <1>6, <1>7, <1>8

(* The offset of the k-th cell from twice the centre, where it started.    *)
FromCentre(k) ==
    LET start == Shifted(StartCells(idx), at[1], at[2])
    IN  <<2 * start[k][1] - TwiceCentre[1], 2 * start[k][2] - TwiceCentre[2]>>

(* A block that turns about its third cell.                                *)
LEMMA PivotAbout ==
  ASSUME WalkInv, idx \in {1, 2, 4, 5, 6}, NEW k \in 1..4
  PROVE  LET t == TurnedOffset(FromCentre(k), cur_orientation)
         IN  2 * cells[k][1] = TwiceCentre[1] + t[1] /\ 2 * cells[k][2] = TwiceCentre[2] + t[2]
<1> DEFINE off == <<StartAt(idx)[k][1] - StartAt(idx)[3][1],
                    StartAt(idx)[k][2] - StartAt(idx)[3][2]>>
           off2 == <<2 * off[1], 2 * off[2]>>
           turned == TurnedOffset(off, cur_orientation)
<1>1. idx \in Pieces /\ at \in Shifts /\ cur_orientation \in Orientations
  BY DEF WalkInv
<1>2. off[1] \in Int /\ off[2] \in Int
  BY DEF StartAt
<1>3. TwiceCentre = <<2 * StartX(3), 2 * StartY(3)>>
  BY <1>1, StartExact DEF TwiceCentre
<1>4. StartX(k) = StartX(3) + off[1] /\ StartY(k) = StartY(3) + off[2]
  <2>1. SpawnShift \in Int /\ at[1] \in Int /\ at[2] \in Int
    BY <1>1, WalkConstants
  <2>2. /\ StartAt(idx)[k][1] \in Int /\ StartAt(idx)[k][2] \in Int
        /\ StartAt(idx)[3][1] \in Int /\ StartAt(idx)[3][2] \in Int
    BY DEF StartAt
  <2> QED
    BY <2>1, <2>2 DEF StartX, StartY
<1>5. StartX(3) \in Int /\ StartY(3) \in Int
  BY <1>1, StartExact
<1>6. FromCentre(k) = off2
  <2>1. FromCentre(k) = <<2 * StartX(k) - 2 * StartX(3), 2 * StartY(k) - 2 * StartY(3)>>
    BY <1>1, <1>3, StartExact DEF FromCentre
  <2> HIDE DEF off
  <2>2. 2 * StartX(k) - 2 * StartX(3) = 2 * off[1] /\ 2 * StartY(k) - 2 * StartY(3) = 2 * off[2]
    BY <1>2, <1>4, <1>5
  <2> QED
    BY <2>1, <2>2
<1>7. cells[k][1] = StartX(3) + turned[1] /\ cells[k][2] = StartY(3) + turned[2]
  <2>1. ShapeOffset(idx, cur_orientation, k) = turned
    BY DEF ShapeOffset
  <2>2. cells[3][1] = StartX(3) /\ cells[3][2] = StartY(3)
    BY <1>5 DEF WalkInv, Drift
  <2> QED
    BY <2>1, <2>2 DEF WalkInv, HasShape
<1> HIDE DEF off
<1>8. turned[1] \in Int /\ turned[2] \in Int
  BY <1>1, <1>2 DEF TurnedOffset, QuarterLeft, Orientations
<1>9. /\ TurnedOffset(off2, cur_orientation)[1] = 2 * turned[1]
      /\ TurnedOffset(off2, cur_orientation)[2] = 2 * turned[2]
  BY <1>1, <1>2 DEF TurnedOffset, QuarterLeft, Orientations
<1> HIDE DEF turned, off2
<1> QED
  BY <1>3, <1>5, <1>6, <1>7, <1>8, <1>9

(* The bar: its k-th cell covers the place of the turned k-th or, when it  *)
(* points the other way, of the cell at the other end.                     *)
LEMMA BarAbout ==
  ASSUME WalkInv, idx = 0, NEW k \in 1..4
  PROVE  LET j == IF cur_orientation \in {"NORMAL", "ROT_RIGHT"} THEN k ELSE 5 - k
             t == TurnedOffset(FromCentre(j), cur_orientation)
         IN  2 * cells[k][1] = TwiceCentre[1] + t[1] /\ 2 * cells[k][2] = TwiceCentre[2] + t[2]
<1>1. idx \in Pieces /\ at \in Shifts /\ cur_orientation \in Orientations
  BY DEF WalkInv
<1>2. TwiceCentre = <<2 * StartX(3) + 1, 2 * StartY(3) - 1>>
        \/ TwiceCentre = <<2 * StartX(3) - 1, 2 * StartY(3) + 1>>
  BY <1>1, StartExact DEF TwiceCentre
<1>3. TwiceCentre = <<2 * StartX(3) - 1, 2 * StartY(3) + 1>>
  BY <1>1, StartExact DEF TwiceCentre
<1>4. StartX(3) \in Int /\ StartY(3) \in Int
  BY <1>1, StartExact
<1>5. \A n \in 1..4 : FromCentre(n) = <<2 * n - 5, -1>>
  <2> TAKE n \in 1..4
  <2>1. StartX(n) = StartX(3) + n - 3 /\ StartY(n) = StartY(3)
    <3>1. StartAt(0)[n][1] = StartAt(0)[3][1] + n - 3 /\ StartAt(0)[n][2] = StartAt(0)[3][2]
      BY DEF StartAt
    <3>2. SpawnShift \in Int /\ at[1] \in Int /\ StartAt(0)[3][1] \in Int
      BY <1>1, WalkConstants DEF StartAt
    <3> QED
      BY <3>1, <3>2 DEF StartX, StartY
  <2>2. FromCentre(n) = <<2 * StartX(n) - (2 * StartX(3) - 1), 2 * StartY(n) - (2 * StartY(3) + 1)>>
    BY <1>1, <1>3, StartExact DEF FromCentre
  <2> QED
    BY <1>4, <2>1, <2>2
<1>6. \A n \in 1..4 :
        TurnedOffset(FromCentre(n), cur_orientation) =
          CASE cur_orientation = "NORMAL"   -> <<2 * n - 5, -1>>
            [] cur_orientation = "ROT_LEFT" -> <<-1, 5 - 2 * n>>
            [] cur_orientation = "ROT2"     -> <<5 - 2 * n, 1>>
            [] OTHER                        -> <<1, 2 * n - 5>>
  BY <1>1, <1>5 DEF TurnedOffset, QuarterLeft, Orientations
<1>7. /\ cells[k][1] = StartX(3) + Drift(0, cur_orientation)[1]
                         + ShapeOffset(0, cur_orientation, k)[1]
      /\ cells[k][2] = StartY(3) + Drift(0, cur_orientation)[2]
                         + ShapeOffset(0, cur_orientation, k)[2]
  BY DEF WalkInv, HasShape
<1>8. ShapeOffset(0, cur_orientation, k)
        = IF cur_orientation \in {"NORMAL", "ROT2"} THEN <<k - 3, 0>> ELSE <<0, k - 3>>
  BY DEF ShapeOffset
<1>9. 5 - k \in 1..4
  OBVIOUS
<1>10. CASE cur_orientation = "NORMAL"
  BY <1>3, <1>4, <1>6, <1>7, <1>8, <1>10 DEF Drift
<1>11. CASE cur_orientation = "ROT_LEFT"
  BY <1>3, <1>4, <1>6, <1>7, <1>8, <1>9, <1>11 DEF Drift
<1>12. CASE cur_orientation = "ROT2"
  BY <1>3, <1>4, <1>6, <1>7, <1>8, <1>9, <1>12 DEF Drift
<1>13. CASE cur_orientation = "ROT_RIGHT"
  BY <1>3, <1>4, <1>6, <1>7, <1>8, <1>13 DEF Drift
<1> QED
  BY <1>1, <1>10, <1>11, <1>12, <1>13 DEF Orientations

(* The square, which a quarter turn maps to itself: its cells take each    *)
(* other's places.                                                         *)
SquareTurned ==
    [NORMAL |-> <<1, 2, 3, 4>>, ROT_LEFT |-> <<2, 4, 1, 3>>,
     ROT2 |-> <<4, 3, 2, 1>>, ROT_RIGHT |-> <<3, 1, 4, 2>>]

LEMMA SquareAbout ==
  ASSUME WalkInv, idx = 3, NEW k \in 1..4
  PROVE  LET t == TurnedOffset(FromCentre(SquareTurned[cur_orientation][k]), cur_orientation)
         IN  2 * cells[k][1] = TwiceCentre[1] + t[1] /\ 2 * cells[k][2] = TwiceCentre[2] + t[2]
<1>1. idx \in Pieces /\ at \in Shifts /\ cur_orientation \in Orientations
  BY DEF WalkInv
<1>2. TwiceCentre = <<2 * StartX(3) + 1, 2 * StartY(3) - 1>>
  BY <1>1, StartExact DEF TwiceCentre
<1>3. StartX(3) \in Int /\ StartY(3) \in Int
  BY <1>1, StartExact
<1> DEFINE dx(n) == IF n \in {1, 3} THEN 0 ELSE 1
           dy(n) == IF n \in {1, 2} THEN -1 ELSE 0
<1>4. \A n \in 1..4 : StartX(n) = StartX(3) + dx(n) /\ StartY(n) = StartY(3) + dy(n)
  <2> TAKE n \in 1..4
  <2>1. StartAt(3)[n][1] = StartAt(3)[3][1] + dx(n) /\ StartAt(3)[n][2] = StartAt(3)[3][2] + dy(n)
    BY DEF StartAt
  <2>2. SpawnShift \in Int /\ at[1] \in Int /\ at[2] \in Int
        /\ StartAt(3)[3][1] \in Int /\ StartAt(3)[3][2] \in Int
    BY <1>1, WalkConstants DEF StartAt
  <2>3. dx(n) \in Int /\ dy(n) \in Int
    OBVIOUS
  <2> HIDE DEF dx, dy
  <2> QED
    BY <2>1, <2>2, <2>3 DEF StartX, StartY
<1>5. \A n \in 1..4 : FromCentre(n) = <<2 * dx(n) - 1, 2 * dy(n) + 1>>
  <2> TAKE n \in 1..4
  <2>1. FromCentre(n) = <<2 * StartX(n) - (2 * StartX(3) + 1), 2 * StartY(n) - (2 * StartY(3) - 1)>>
    BY <1>1, <1>2, StartExact DEF FromCentre
  <2> QED
    BY <1>3, <1>4, <2>1
<1>6. 2 * cells[k][1] = 2 * StartX(3) + 2 * dx(k) /\ 2 * cells[k][2] = 2 * StartY(3) + 2 * dy(k)
  <2>1. ShapeOffset(3, cur_orientation, k) = <<dx(k), dy(k)>>
    BY DEF ShapeOffset, StartAt
  <2>2. cells[k][1] = StartX(3) + dx(k) /\ cells[k][2] = StartY(3) + dy(k)
    BY <1>3, <2>1 DEF WalkInv, HasShape, Drift
  <2> QED
    BY <1>3, <2>2
<1>7. LET j == SquareTurned[cur_orientation][k]
          t == TurnedOffset(<<2 * dx(j) - 1, 2 * dy(j) + 1>>, cur_orientation)
      IN  j \in 1..4 /\ t[1] = 2 * dx(k) - 1 /\ t[2] = 2 * dy(k) + 1
  <2> DEFINE j == SquareTurned[cur_orientation][k]
  <2>1. CASE cur_orientation = "NORMAL"
    <3>1. j = k
      BY <2>1 DEF SquareTurned
    <3> QED
      BY <2>1, <3>1 DEF TurnedOffset
  <2>2. CASE cur_orientation = "ROT_LEFT"
    <3>1. j = <<2, 4, 1, 3>>[k]
      BY <2>2 DEF SquareTurned
    <3>2. j \in 1..4 /\ 2 * dy(j) + 1 = 2 * dx(k) - 1 /\ -(2 * dx(j) - 1) = 2 * dy(k) + 1
      BY <3>1
    <3> HIDE DEF j, dx, dy
    <3> QED
      BY <2>2, <3>2 DEF TurnedOffset, QuarterLeft, j
  <2>3. CASE cur_orientation = "ROT2"
    <3>1. j = <<4, 3, 2, 1>>[k]
      BY <2>3 DEF SquareTurned
    <3>2. j \in 1..4 /\ -(2 * dx(j) - 1) = 2 * dx(k) - 1 /\ -(2 * dy(j) + 1) = 2 * dy(k) + 1
      BY <3>1
    <3> HIDE DEF j, dx, dy
    <3> QED
      BY <2>3, <3>2 DEF TurnedOffset, QuarterLeft, j
  <2>4. CASE cur_orientation = "ROT_RIGHT"
    <3>1. j = <<3, 1, 4, 2>>[k]
      BY <2>4 DEF SquareTurned
    <3>2. j \in 1..4 /\ -(2 * dy(j) + 1) = 2 * dx(k) - 1 /\ 2 * dx(j) - 1 = 2 * dy(k) + 1
          /\ dx(j) \in Int
      BY <3>1
    <3> HIDE DEF j, dx, dy
    <3> QED
      BY <2>4, <3>2 DEF TurnedOffset, QuarterLeft, j
  <2> QED
    BY <1>1, <2>1, <2>2, <2>3, <2>4 DEF Orientations
<1>8. dx(k) \in Int /\ dy(k) \in Int
  OBVIOUS
<1>9. LET t == TurnedOffset(FromCentre(SquareTurned[cur_orientation][k]), cur_orientation)
      IN  t[1] = 2 * dx(k) - 1 /\ t[2] = 2 * dy(k) + 1
  BY <1>5, <1>7
<1> HIDE DEF dx, dy
<1> QED
  BY <1>2, <1>3, <1>6, <1>8, <1>9

(* A one-to-one correspondence between the cells and the turned ones.      *)
LEMMA WalkAbout == ASSUME WalkInv PROVE TurnsAboutCentre
<1> DEFINE turned(k) == TurnedOffset(FromCentre(k), cur_orientation)
           f(k) == <<2 * cells[k][1], 2 * cells[k][2]>>
           g(k) == <<TwiceCentre[1] + turned(k)[1], TwiceCentre[2] + turned(k)[2]>>
           square == SquareTurned[cur_orientation]
<1>1. idx \in {1, 2, 4, 5, 6} => \A k \in 1..4 : f(k) = g(k)
  BY PivotAbout
<1>2. idx = 0 => \/ \A k \in 1..4 : f(k) = g(k)
                 \/ \A k \in 1..4 : f(k) = g(5 - k)
  BY BarAbout
<1>3. idx = 3 => \A k \in 1..4 : f(k) = g(square[k])
  BY SquareAbout
<1>4. /\ \A k \in 1..4 : square[k] \in 1..4
      /\ \A k \in 1..4 : \E j \in 1..4 : k = square[j]
  <2>1. cur_orientation \in Orientations
    BY DEF WalkInv
  <2>2. square \in {<<1, 2, 3, 4>>, <<2, 4, 1, 3>>, <<4, 3, 2, 1>>, <<3, 1, 4, 2>>}
    BY <2>1 DEF SquareTurned, Orientations
  <2> HIDE DEF square
  <2>3. square[1] \in 1..4 /\ square[2] \in 1..4 /\ square[3] \in 1..4 /\ square[4] \in 1..4
    BY <2>2
  <2>4. ASSUME NEW k \in 1..4 PROVE \E j \in 1..4 : k = square[j]
    <3>1. k = square[1] \/ k = square[2] \/ k = square[3] \/ k = square[4]
      BY <2>2
    <3> QED
      BY <3>1
  <2> QED
    BY <2>3, <2>4
<1>5. \A k \in 1..4 : 5 - k \in 1..4 /\ 5 - (5 - k) = k
  OBVIOUS
<1> HIDE DEF f, g, square
<1>6. /\ \A k \in 1..4 : \E j \in 1..4 : f(k) = g(j)
      /\ \A j \in 1..4 : \E k \in 1..4 : f(k) = g(j)
  <2>1. idx \in 0..6
    BY WalkConstants DEF WalkInv
  <2>2. CASE \A k \in 1..4 : f(k) = g(k)
    BY <2>2
  <2>3. CASE \A k \in 1..4 : f(k) = g(5 - k)
    BY <1>5, <2>3
  <2>4. CASE \A k \in 1..4 : f(k) = g(square[k])
    BY <1>4, <2>4
  <2> QED
    BY <1>1, <1>2, <1>3, <2>1, <2>2, <2>3, <2>4
<1>7. {f(k) : k \in 1..4} = {g(k) : k \in 1..4}
  BY <1>6
<1> QED
  BY <1>7 DEF TurnsAboutCentre, f, g, FromCentre, KeepsShape, WalkInv

(* No path of turns makes a block drift, deform or lose its orientation:   *)
(* wherever it turns in free space, it covers the cells that it started on *)
(* turned about its centre, in the order in which the tables expect them.  *)
THEOREM TurnsStayCentred == WalkSpec => []TurnsAboutCentre
<1>1. ASSUME WalkInit PROVE WalkInv
  <2>1. idx \in Pieces /\ at \in Shifts /\ idx \in 0..6
    BY <1>1, WalkConstants DEF WalkInit
  <2>2. \A k \in 1..4 : cells[k][1] = StartX(k) /\ cells[k][2] = StartY(k)
    BY <1>1, <2>1, StartExact DEF WalkInit
  <2>3. StartX(3) \in Int /\ StartY(3) \in Int
    BY <2>1, StartExact
  <2>4. cur_orientation = "NORMAL" /\ Drift(idx, "NORMAL") = <<0, 0>>
    BY <1>1 DEF WalkInit, Drift
  <2>5. HasShape(cells, idx, "NORMAL")
    <3>1. \A k \in 1..4 : /\ StartX(k) = StartCells(idx)[k][1] + at[1]
                          /\ StartY(k) = StartCells(idx)[k][2] + at[2]
                          /\ StartCells(idx)[k][1] \in Int /\ StartCells(idx)[k][2] \in Int
      <4>1. SpawnShift \in Int /\ at[1] \in Int /\ at[2] \in Int
        BY <2>1, WalkConstants
      <4>2. \A k \in 1..4 : StartAt(idx)[k][1] \in Int /\ StartAt(idx)[k][2] \in Int
        BY <2>1 DEF StartAt
      <4> QED
        BY <4>1, <4>2 DEF StartX, StartY, StartCells
    <3>2. HasShape(StartCells(idx), idx, "NORMAL")
      BY <2>1, StartHasShape
    <3>3. at[1] \in Int /\ at[2] \in Int
      BY <2>1, WalkConstants
    <3>4. \A k \in 1..4 : /\ ShapeOffset(idx, "NORMAL", k)[1] \in Int
                          /\ ShapeOffset(idx, "NORMAL", k)[2] \in Int
      BY <2>1, OffsetType DEF Orientations
    <3>5. ASSUME NEW k \in 1..4
          PROVE  /\ cells[k][1] = cells[3][1] + ShapeOffset(idx, "NORMAL", k)[1]
                 /\ cells[k][2] = cells[3][2] + ShapeOffset(idx, "NORMAL", k)[2]
      <4>1. /\ StartCells(idx)[k][1] = StartCells(idx)[3][1] + ShapeOffset(idx, "NORMAL", k)[1]
            /\ StartCells(idx)[k][2] = StartCells(idx)[3][2] + ShapeOffset(idx, "NORMAL", k)[2]
        BY <3>2 DEF HasShape
      <4> QED
        BY <2>2, <3>1, <3>3, <3>4, <4>1
    <3> QED
      BY <3>5 DEF HasShape
  <2> QED
    BY <2>1, <2>2, <2>3, <2>4, <2>5 DEF WalkInv, Orientations
<1>2. ASSUME WalkInv, [WalkNext]_walkVars PROVE WalkInv'
  <2>1. CASE UNCHANGED walkVars
    BY <1>2, <2>1 DEF walkVars, WalkInv, StartX, StartY, Drift, HasShape, ShapeOffset
  <2>2. CASE WalkNext
    BY <1>2, <2>2, WalkTurn DEF WalkNext, TurnLeft, TurnRight, Turns
  <2> QED
    BY <1>2, <2>1, <2>2
<1> QED
  BY <1>1, <1>2, WalkAbout, PTL DEF WalkSpec

-----------------------------------------------------------------------------
(* UsbTransfer: from the slots of the keyboard to the moves of a player.   *)

\* The bits of the keys that are down, or none when they do not fit into a report.
Bits == IF Len(down) > NumSlots THEN {} ELSE {KeyBit[Code[key]] : key \in Down}

PathInv ==
    /\ down \in Seq(KeyNames)
    /\ \A i, j \in 1 .. Len(down) : down[i] = down[j] => i = j
    /\ keycode = Bits

LEMMA KeysAre ==
  /\ KeyNames = {"A", "S", "D", "F", "G", "H", "COMMA", "PERIOD", "BACKSLASH",
                 "ONE", "TWO", "THREE", "SPACE"}
  /\ DOMAIN KeyBit = {4, 22, 7, 9, 10, 11, 54, 55, 56, 89, 90, 91, 44}
  /\ Code["A"] = 4 /\ Code["S"] = 22 /\ Code["D"] = 7 /\ Code["F"] = 9
  /\ Code["G"] = 10 /\ Code["H"] = 11 /\ Code["COMMA"] = 54 /\ Code["PERIOD"] = 55
  /\ Code["BACKSLASH"] = 56 /\ Code["ONE"] = 89 /\ Code["TWO"] = 90
  /\ Code["THREE"] = 91 /\ Code["SPACE"] = 44
  BY DEF KeyNames, Code, KeyBit

LEMMA BitsAre ==
  /\ KeyBit[4] = 0 /\ KeyBit[22] = 1 /\ KeyBit[7] = 2 /\ KeyBit[9] = 3
  /\ KeyBit[10] = 5 /\ KeyBit[11] = 4 /\ KeyBit[54] = 6 /\ KeyBit[55] = 7
  /\ KeyBit[56] = 8 /\ KeyBit[89] = 9 /\ KeyBit[90] = 10 /\ KeyBit[91] = 11
  /\ KeyBit[44] = 12
  BY DEF KeyBit

\* Each key has a code of its own, and each code a bit of its own.
LEMMA CodesApart ==
  /\ \A key \in KeyNames : Code[key] \in DOMAIN KeyBit /\ Code[key] \in 2 .. 255
  /\ \A key, other \in KeyNames :
        KeyBit[Code[key]] = KeyBit[Code[other]] => key = other
  BY KeysAre, BitsAre

LEMMA SlotCodes ==
  ASSUME down \in Seq(KeyNames)
  PROVE  \A i \in 1 .. 6 :
            /\ SlotCode(i) \in 0 .. 255
            /\ Len(down) > 6 => SlotCode(i) = 1
            /\ Len(down) <= 6 => SlotCode(i) = IF i <= Len(down) THEN Code[down[i]] ELSE 0
<1> SUFFICES ASSUME NEW i \in 1 .. 6
             PROVE  /\ SlotCode(i) \in 0 .. 255
                    /\ Len(down) > 6 => SlotCode(i) = 1
                    /\ Len(down) <= 6 =>
                          SlotCode(i) = IF i <= Len(down) THEN Code[down[i]] ELSE 0
  OBVIOUS
<1>1. Len(down) \in Nat /\ (i <= Len(down) => down[i] \in KeyNames)
  BY ElementOfSeq, LenProperties
<1>2. i <= Len(down) => Code[down[i]] \in 0 .. 255
  BY <1>1, CodesApart
<1> QED
  BY <1>1, <1>2, SMT DEF SlotCode, NumSlots, RollOver

\* The two loops of main.c read each slot once.
LEMMA SlotsAreRead ==
  ASSUME down \in Seq(KeyNames)
  PROVE  {Slots(Report)[i] : i \in 1 .. 6} = {SlotCode(i) : i \in 1 .. 6}
<1>1. ASSUME NEW word, NEW i \in 1 .. 6, NEW j \in 1 .. 6,
             word = SlotCode(i) + 256 * SlotCode(j)
      PROVE  word % 256 = SlotCode(i) /\ word \div 256 = SlotCode(j)
  <2>1. PICK lo \in 0 .. 255 : lo = SlotCode(i)
    BY SlotCodes
  <2>2. PICK hi \in 0 .. 255 : hi = SlotCode(j)
    BY SlotCodes
  <2>3. (lo + 256 * hi) % 256 = lo /\ (lo + 256 * hi) \div 256 = hi
    BY SMT
  <2> QED
    BY <1>1, <2>1, <2>2, <2>3
<1>2. /\ Report[1] = SlotCode(1) + 256 * SlotCode(2)
      /\ Report[2] = SlotCode(3) + 256 * SlotCode(4)
      /\ Report[3] = SlotCode(5) + 256 * SlotCode(6)
  BY DEF Report
<1>3. /\ Slots(Report)[1] = Report[1] % 256 /\ Slots(Report)[4] = Report[1] \div 256
      /\ Slots(Report)[2] = Report[2] % 256 /\ Slots(Report)[5] = Report[2] \div 256
      /\ Slots(Report)[3] = Report[3] % 256 /\ Slots(Report)[6] = Report[3] \div 256
  BY DEF Slots
<1>4. Slots(Report)[1] = SlotCode(1) /\ Slots(Report)[4] = SlotCode(2)
  BY <1>1, <1>2, <1>3
<1>5. Slots(Report)[2] = SlotCode(3) /\ Slots(Report)[5] = SlotCode(4)
  BY <1>1, <1>2, <1>3
<1>6. Slots(Report)[3] = SlotCode(5) /\ Slots(Report)[6] = SlotCode(6)
  BY <1>1, <1>2, <1>3
<1>7. \A i \in 1 .. 6 : i = 1 \/ i = 2 \/ i = 3 \/ i = 4 \/ i = 5 \/ i = 6
  BY SMT
<1>8. \A i \in 1 .. 6 : \E j \in 1 .. 6 : Slots(Report)[i] = SlotCode(j)
  BY <1>4, <1>5, <1>6, <1>7
<1>9. \A j \in 1 .. 6 : \E i \in 1 .. 6 : Slots(Report)[i] = SlotCode(j)
  BY <1>4, <1>5, <1>6, <1>7
<1> QED
  BY <1>8, <1>9

LEMMA BitsAreRead == down \in Seq(KeyNames) => key_bits(Report) = Bits
<1> SUFFICES ASSUME down \in Seq(KeyNames) PROVE key_bits(Report) = Bits
  OBVIOUS
<1>1. key_bits(Report) = {KeyBit[c] : c \in {SlotCode(i) : i \in 1 .. 6} \cap DOMAIN KeyBit}
  BY SlotsAreRead DEF key_bits
<1>2. 0 \notin DOMAIN KeyBit /\ 1 \notin DOMAIN KeyBit
  BY KeysAre
<1>3. Len(down) \in Nat /\ \A i \in 1 .. Len(down) : down[i] \in KeyNames
  BY ElementOfSeq, LenProperties
<1>4. CASE Len(down) > 6
  <2>1. {SlotCode(i) : i \in 1 .. 6} \cap DOMAIN KeyBit = {}
    BY <1>2, <1>4, SlotCodes
  <2> QED
    BY <1>1, <1>4, <2>1 DEF Bits, NumSlots
<1>5. CASE Len(down) <= 6
  <2>1. \A i \in 1 .. 6 : SlotCode(i) \in DOMAIN KeyBit =>
            i \in 1 .. Len(down) /\ SlotCode(i) = Code[down[i]]
    BY <1>2, <1>3, <1>5, SlotCodes
  <2>2. \A i \in 1 .. Len(down) : i \in 1 .. 6 /\ SlotCode(i) = Code[down[i]]
                                  /\ SlotCode(i) \in DOMAIN KeyBit
    BY <1>3, <1>5, SlotCodes, CodesApart
  <2>3. Bits = {KeyBit[Code[down[i]]] : i \in 1 .. Len(down)}
    <3>1. Down = {down[i] : i \in 1 .. Len(down)}
      BY LenProperties DEF Down
    <3>2. ~(Len(down) > NumSlots)
      BY <1>3, <1>5 DEF NumSlots
    <3> QED
      BY <3>1, <3>2 DEF Bits
  <2>4. key_bits(Report) \subseteq {KeyBit[Code[down[i]]] : i \in 1 .. Len(down)}
    BY <1>1, <2>1
  <2>5. {KeyBit[Code[down[i]]] : i \in 1 .. Len(down)} \subseteq key_bits(Report)
    BY <1>1, <2>2
  <2> QED
    BY <2>3, <2>4, <2>5
<1> QED
  BY <1>3, <1>4, <1>5

LEMMA PolledBits == down' \in Seq(KeyNames) => key_bits(Report') = Bits'
<1> DEFINE Read == down \in Seq(KeyNames) => key_bits(Report) = Bits
<1>1. Read
  BY BitsAreRead
<1>2. Read'
  <2> HIDE DEF Read
  <2> QED
    BY <1>1, PTL
<1> QED
  BY <1>2

LEMMA RemoveAtIs ==
  ASSUME NEW S, NEW s \in Seq(S), NEW i \in 1 .. Len(s)
  PROVE  /\ RemoveAt(s, i) \in Seq(S)
         /\ Len(RemoveAt(s, i)) = Len(s) - 1
         /\ \A j \in 1 .. Len(s) - 1 :
               RemoveAt(s, i)[j] = IF j < i THEN s[j] ELSE s[j + 1]
<1> DEFINE low == SubSeq(s, 1, i - 1)
           high == SubSeq(s, i + 1, Len(s))
<1>1. Len(s) \in Nat /\ \A j \in 1 .. Len(s) : s[j] \in S
  BY ElementOfSeq, LenProperties
<1>2. low \in Seq(S) /\ Len(low) = i - 1 /\ \A j \in 1 .. i - 1 : low[j] = s[j]
  <2>1. 1 \in Int /\ i - 1 \in Int /\ \A j \in 1 .. i - 1 : s[j] \in S
    BY <1>1
  <2>2. /\ low \in Seq(S) /\ Len(low) = IF 1 <= i - 1 THEN i - 1 - 1 + 1 ELSE 0
        /\ \A j \in 1 .. i - 1 - 1 + 1 : low[j] = s[1 + j - 1]
    BY <2>1, SubSeqProperties
  <2> QED
    BY <1>1, <2>2
<1>3. /\ high \in Seq(S) /\ Len(high) = Len(s) - i
      /\ \A j \in 1 .. Len(s) - i : high[j] = s[i + j]
  <2>1. i + 1 \in Int /\ Len(s) \in Int /\ \A j \in i + 1 .. Len(s) : s[j] \in S
    BY <1>1
  <2>2. /\ high \in Seq(S)
        /\ Len(high) = IF i + 1 <= Len(s) THEN Len(s) - (i + 1) + 1 ELSE 0
        /\ \A j \in 1 .. Len(s) - (i + 1) + 1 : high[j] = s[(i + 1) + j - 1]
    BY <2>1, SubSeqProperties
  <2> QED
    BY <1>1, <2>2
<1> HIDE DEF low, high
<1>4. /\ low \o high \in Seq(S) /\ Len(low \o high) = Len(low) + Len(high)
      /\ \A j \in 1 .. Len(low) + Len(high) :
            (low \o high)[j] = IF j <= Len(low) THEN low[j] ELSE high[j - Len(low)]
  BY <1>2, <1>3, ConcatProperties
<1>5. RemoveAt(s, i) = low \o high
  BY DEF RemoveAt, low, high
<1>6. Len(low) + Len(high) = Len(s) - 1
  BY <1>1, <1>2, <1>3
<1>7. ASSUME NEW j \in 1 .. Len(s) - 1
      PROVE  (low \o high)[j] = IF j < i THEN s[j] ELSE s[j + 1]
  <2>1. (low \o high)[j] = IF j <= i - 1 THEN low[j] ELSE high[j - (i - 1)]
    BY <1>2, <1>4, <1>6
  <2>2. CASE j < i
    BY <1>1, <1>2, <2>1, <2>2
  <2>3. CASE ~(j < i)
    <3>1. ~(j <= i - 1) /\ j - (i - 1) \in 1 .. Len(s) - i /\ i + (j - (i - 1)) = j + 1
      BY <1>1, <2>3
    <3>2. high[j - (i - 1)] = s[i + (j - (i - 1))]
      BY <1>3, <3>1
    <3> QED
      BY <2>1, <2>3, <3>1, <3>2
  <2> QED
    BY <2>2, <2>3
<1> QED
  BY <1>4, <1>5, <1>6, <1>7

LEMMA PathStep ==
  ASSUME Keys \subseteq KeyNames, PathInv, [PathNext]_pathVars
  PROVE  PathInv'
<1>1. Len(down) \in Nat /\ DOMAIN down = 1 .. Len(down)
  BY LenProperties DEF PathInv
<1>2. ASSUME NEW key \in Keys, Press(key) PROVE PathInv'
  <2>1. key \in KeyNames /\ down' = Append(down, key) /\ keycode' = key_bits(Report')
        /\ \A i \in 1 .. Len(down) : down[i] # key
    BY <1>1, <1>2 DEF Press, Polled, Down
  <2>2. /\ down' \in Seq(KeyNames) /\ Len(down') = Len(down) + 1
        /\ down'[Len(down) + 1] = key /\ \A i \in 1 .. Len(down) : down'[i] = down[i]
    BY <2>1, AppendProperties DEF PathInv
  <2>3. ASSUME NEW i \in 1 .. Len(down'), NEW j \in 1 .. Len(down'), down'[i] = down'[j]
        PROVE  i = j
    <3>1. (i \in 1 .. Len(down) \/ i = Len(down) + 1) /\ (j \in 1 .. Len(down) \/ j = Len(down) + 1)
      BY <1>1, <2>2, SMT
    <3> QED
      BY <2>1, <2>2, <2>3, <3>1 DEF PathInv
  <2> QED
    BY <2>1, <2>2, <2>3, PolledBits DEF PathInv
<1>3. ASSUME NEW key \in Keys, Release(key) PROVE PathInv'
  <2>1. keycode' = key_bits(Report')
    BY <1>3 DEF Release, Polled
  <2>2. PICK i \in 1 .. Len(down) : down' = RemoveAt(down, i)
    BY <1>1, <1>3 DEF Release
  <2>3. /\ down' \in Seq(KeyNames) /\ Len(down') = Len(down) - 1
        /\ \A j \in 1 .. Len(down) - 1 : down'[j] = IF j < i THEN down[j] ELSE down[j + 1]
    BY <2>2, RemoveAtIs DEF PathInv
  <2>4. ASSUME NEW j \in 1 .. Len(down'), NEW k \in 1 .. Len(down'), down'[j] = down'[k]
        PROVE  j = k
    <3> DEFINE from(n) == IF n < i THEN n ELSE n + 1
    <3>1. from(j) \in 1 .. Len(down) /\ from(k) \in 1 .. Len(down)
      BY <1>1, <2>3, SMT
    <3>2. down'[j] = down[from(j)] /\ down'[k] = down[from(k)]
      BY <2>3
    <3>3. from(j) = from(k)
      <4> HIDE DEF from
      <4> QED
        BY <2>4, <3>1, <3>2 DEF PathInv
    <3> QED
      BY <1>1, <2>3, <3>3, SMT
  <2> QED
    BY <2>1, <2>3, <2>4, PolledBits DEF PathInv
<1>4. CASE UNCHANGED pathVars
  BY <1>4 DEF pathVars, PathInv, Bits, Down
<1> QED
  BY <1>2, <1>3, <1>4 DEF PathNext

LEMMA PathInvariant == ASSUME Keys \subseteq KeyNames PROVE PathSpec => []PathInv
<1>1. PathInit => PathInv
  BY DEF PathInit, PathInv, Bits, Down, NumSlots
<1>2. PathInv /\ [PathNext]_pathVars => PathInv'
  BY PathStep
<1> QED
  BY <1>1, <1>2, PTL DEF PathSpec

\* With any of the keys, down in any order and any number: a key that is down shows,
\* whatever its slot, no two keys share a bit, and more keys than slots show nothing.
\* (main.c lines 559 to 617.)
THEOREM EachKeyShows == ASSUME Keys \subseteq KeyNames PROVE PathSpec => []EveryKeyShows
<1>1. ASSUME PathInv PROVE EveryKeyShows
  <2>1. Len(down) \in Nat /\ DOMAIN down = 1 .. Len(down)
        /\ \A i \in 1 .. Len(down) : down[i] \in KeyNames
    BY <1>1, LenProperties, ElementOfSeq DEF PathInv
  <2>2. CASE Len(down) > NumSlots
    BY <1>1, <2>1, <2>2, FS_EmptySet DEF PathInv, Bits, EveryKeyShows, NumSlots
  <2>3. CASE Len(down) <= NumSlots
    <3> DEFINE f == [key \in Down |-> KeyBit[Code[key]]]
    <3>1. keycode = {KeyBit[Code[key]] : key \in Down}
      BY <1>1, <2>1, <2>3 DEF PathInv, Bits, NumSlots
    <3>2. IsFiniteSet(Down)
      <4>1. IsFiniteSet(1 .. Len(down))
        BY <2>1, FS_Interval
      <4> DEFINE g == [i \in 1 .. Len(down) |-> down[i]]
      <4>2. g \in Surjection(1 .. Len(down), Down)
        BY <2>1 DEF Surjection, Down
      <4> QED
        BY <4>1, <4>2, FS_Surjection
    <3>3. f \in Bijection(Down, keycode)
      <4>1. f \in [Down -> keycode] /\ \A b \in keycode : \E key \in Down : f[key] = b
        BY <3>1
      <4>2. \A key, other \in Down : f[key] = f[other] => key = other
        BY <2>1, CodesApart DEF Down
      <4> QED
        BY <4>1, <4>2 DEF Bijection, Injection, Surjection, IsInjective
    <3>4. Cardinality(keycode) = Cardinality(Down)
      BY <3>2, <3>3, FS_Bijection DEF ExistsBijection
    <3> QED
      BY <2>3, <3>1, <3>4 DEF EveryKeyShows
  <2> QED
    BY <2>1, <2>2, <2>3 DEF NumSlots
<1> QED
  BY <1>1, PathInvariant, PTL

\* The key of each move, and the player whose it is.
LEMMA MovesAre ==
  ASSUME NEW p \in {1, 2}, NEW bits, NEW m \in Moves(p, bits)
  PROVE  \E bit \in bits \ {SpaceBit} :
            KeyWire[bit + 1] \in {MoveKeys(p)[n] : n \in DOMAIN MoveKeys(p)}
  BY DEF Moves

\* The keys of one player are the bits 0 to 5, those of the other 6 to 11; G and H are
\* mixed up, but are both the first player's.
LEMMA OwnBits ==
  ASSUME NEW key \in KeyNames, KeyBit[Code[key]] # SpaceBit, NEW p \in {1, 2},
         KeyWire[KeyBit[Code[key]] + 1] \in {MoveKeys(p)[n] : n \in DOMAIN MoveKeys(p)}
  PROVE  key \in {MoveKeys(p)[n] : n \in DOMAIN MoveKeys(p)}
  BY KeysAre, BitsAre DEF MoveKeys, KeyWire, SpaceBit

\* However the keys of both share the slots of the reports, a player's block moves only
\* while one of his own keys is down.  (main.c lines 563 to 615, block_logic.sv.)
THEOREM PlayersStayApart == ASSUME Keys \subseteq KeyNames PROVE PathSpec => []PlayersApart
<1>1. ASSUME PathInv PROVE PlayersApart
  <2> SUFFICES ASSUME NEW p \in {1, 2}, Moves(p, keycode) # {}
               PROVE  Down \cap {MoveKeys(p)[m] : m \in DOMAIN MoveKeys(p)} # {}
    BY DEF PlayersApart
  <2>1. PICK bit \in keycode \ {SpaceBit} :
            KeyWire[bit + 1] \in {MoveKeys(p)[m] : m \in DOMAIN MoveKeys(p)}
    BY MovesAre
  <2>2. PICK key \in Down : bit = KeyBit[Code[key]]
    BY <1>1, <2>1 DEF PathInv, Bits
  <2>3. key \in KeyNames
    BY <1>1, <2>2, LenProperties, ElementOfSeq DEF PathInv, Down
  <2> QED
    BY <2>1, <2>2, <2>3, OwnBits
<1> QED
  BY <1>1, PathInvariant, PTL

\* Both together: what a player holds down, and nothing else, reaches his game.
THEOREM EveryKeyArrives == ASSUME Keys \subseteq KeyNames PROVE PathSpec => []KeysArrive
  BY EachKeyShows, PlayersStayApart, PTL DEF KeysArrive
=============================================================================
