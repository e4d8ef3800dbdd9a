---------------------------- MODULE ScoreKeeper ----------------------------
(***************************************************************************)
(* hdl/score_keeper.sv: the decimal score of one player.  The register     *)
(* holds five 4-bit digits, tens to hundred-thousands (the ones digit is   *)
(* wired to 0).  An update pulse from board.sv adds the award for the      *)
(* number of lines cleared and propagates the carries, all in one cycle.   *)
(***************************************************************************)
EXTENDS Integers

VARIABLES
    digits  \* digits[k], k \in 1..5: the registers digit1 .. digit5

scoreVars == <<digits>>

Places  == 1..5
Nibble  == 0..15          \* a 4-bit register
Decimal == 0..9

-----------------------------------------------------------------------------
(* A digit register is 4 bits wide: additions wrap at 16.                  *)
Add4(a, b) == (a + b) % 16

(* What each line count adds to each digit: 40, 100, 300 and 1200 points.  *)
(* The `default' branch of the case adds nothing.                          *)
Award(num_lines) ==
    CASE num_lines = 1 -> [k \in Places |-> IF k = 1 THEN 4 ELSE 0]
      [] num_lines = 2 -> [k \in Places |-> IF k = 2 THEN 1 ELSE 0]
      [] num_lines = 3 -> [k \in Places |-> IF k = 2 THEN 3 ELSE 0]
      [] num_lines = 4 -> [k \in Places |-> IF k = 2 THEN 2
                                            ELSE IF k = 3 THEN 1 ELSE 0]
      [] OTHER         -> [k \in Places |-> 0]

(* Faulty form: the carry is not added to the next digit.                  *)
CarryFrom_Lost(k, d) == IF d[k] >= 10 THEN [d EXCEPT ![k] = Add4(@, 6)] ELSE d

(* One stage of the carry chain: normalise digit k into digit k + 1.       *)
CarryFrom(k, d) ==
    IF d[k] >= 10
    THEN [d EXCEPT ![k] = Add4(@, 6), ![k + 1] = Add4(@, 1)]
    ELSE d

Carried(d) == CarryFrom(4, CarryFrom(3, CarryFrom(2, CarryFrom(1, d))))

(* The overflow branch: five assignments, all of them to digit 1.          *)
Saturate(d) == IF d[5] >= 10 THEN [d EXCEPT ![1] = 9] ELSE d

NextDigits(d, num_lines) ==
    Saturate(Carried([k \in Places |-> Add4(d[k], Award(num_lines)[k])]))

-----------------------------------------------------------------------------
ScoreInit == digits = [k \in Places |-> 0]

ScoreReset == digits' = [k \in Places |-> 0]

(* update is high for one cycle, in the SCORE state of board.sv.           *)
ScoreUpdate(num_lines) == digits' = NextDigits(digits, num_lines)

(* num_lines is a 3-bit port.                                              *)
ScoreNext == ScoreReset \/ \E num_lines \in 0..7 : ScoreUpdate(num_lines)

ScoreSpec == ScoreInit /\ [][ScoreNext]_scoreVars

-----------------------------------------------------------------------------
(* The score as a player reads it, without the constant ones digit.        *)
Value(d) == d[1] + 10 * d[2] + 100 * d[3] + 1000 * d[4] + 10000 * d[5]

(* The documented awards, in tens of points (lines 27-31 of the source).   *)
Points(num_lines) ==
    CASE num_lines = 1 -> 4
      [] num_lines = 2 -> 10
      [] num_lines = 3 -> 30
      [] num_lines = 4 -> 120
      [] OTHER         -> 0

(* Type invariant: five digits; the carry chain keeps every digit but the  *)
(* topmost decimal, and the topmost one within its register.               *)
ScoreTypeOK ==
    /\ digits \in [Places -> Nibble]
    /\ \A k \in 1..4 : digits[k] \in Decimal

(* As long as the score stays below the overflow, an update adds exactly   *)
(* the documented award: no carry is lost and none is made up.             *)
AwardExact ==
    [][\A num_lines \in 0..7 :
          ScoreUpdate(num_lines) /\ Value(digits) + Points(num_lines) < 100000
              => Value(digits') = Value(digits) + Points(num_lines)]_scoreVars

(* What the comment at line 89 promises: an award that does not fit leaves *)
(* every digit at 9.                                                       *)
SaturatesAtMaximum ==
    [][\A num_lines \in 0..7 :
          ScoreUpdate(num_lines) /\ Value(digits) + Points(num_lines) >= 100000
              => \A k \in Places : digits'[k] = 9]_scoreVars
=============================================================================
