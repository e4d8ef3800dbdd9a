------------------------------- MODULE MulDiv -------------------------------
(***************************************************************************)
(* alt_exception_muldiv.S: the multiply and divide instructions that the   *)
(* processor lacks, emulated by the exception handler with the shift, add  *)
(* and compare instructions that it has.  One behaviour is one exception:  *)
(* the entry code saves some registers, the emulation the others, a loop   *)
(* runs over the bits, and what was saved is restored, with the result in  *)
(* the place of the destination.  r holds the registers by their number,   *)
(* as the code names them.                                                 *)
(***************************************************************************)
EXTENDS Integers

CONSTANTS
    W,              \* bits in a word, 32 in the processor
    Pow,            \* the powers of two from 2^0 to 2^W
    Ops,            \* the operations an instruction may ask for
    Sources,        \* the registers it may read
    Destinations    \* the registers it may write

Registers == 0 .. 31
ET == 24
GP == 26
SP == 27
FP == 28
EA == 29
RA == 31

Emulated == {"div", "divu", "mul", "muli", "mulxuu", "mulxsu", "mulxss"}

MulDivAssumption ==
    /\ W \in Nat /\ W >= 2
    /\ Pow \in [0 .. W -> Nat] /\ Pow[0] = 1
    /\ \A i \in 0 .. W - 1 : Pow[i + 1] = 2 * Pow[i]
    /\ Ops \subseteq Emulated \cup {"other"}
    /\ Sources \subseteq Registers /\ Destinations \subseteq Registers

Size == Pow[W]
Half == Pow[W - 1]
WordValue == 0 .. Size - 1

VARIABLES
    place,       \* the place in the handler
    insn,     \* the instruction: its operation, registers and immediate
    r,        \* the registers
    slot,     \* the words on the stack, by the register they belong to
    before    \* the registers when the exception came

mulDivVars == <<place, insn, r, slot, before>>

\* Arithmetic on words.
Plus(x, y)  == (x + y) % Size
Minus(x, y) == (x - y) % Size
Negative(x) == x >= Half
SignedWord(x)   == IF Negative(x) THEN x - Size ELSE x
Differ(x, y) == IF Negative(x) # Negative(y) THEN Half ELSE 0   \* the sign bit of xor
Lsb(x)      == x % 2
ShiftLeft(x)  == (2 * x) % Size
ShiftRight(x) == x \div 2
Bit(b)      == IF b THEN 1 ELSE 0

\* An immediate is half a word, with its sign extended.
Immediates == {i \in WordValue : SignedWord(i) \in -Pow[W \div 2 - 1] .. Pow[W \div 2 - 1] - 1}

-----------------------------------------------------------------------------
(* What the instructions are defined to do.                                *)

Quotient(x, y) == IF (x < 0) = (y < 0)
                  THEN (IF x < 0 THEN -x ELSE x) \div (IF y < 0 THEN -y ELSE y)
                  ELSE -((IF x < 0 THEN -x ELSE x) \div (IF y < 0 THEN -y ELSE y))

Meaning(op, a, b) ==
    CASE op = "divu"   -> a \div b
      [] op = "div"    -> Quotient(SignedWord(a), SignedWord(b)) % Size
      [] op \in {"mul", "muli"} -> (a * b) % Size
      [] op = "mulxuu" -> (a * b) \div Size
      [] op = "mulxsu" -> ((SignedWord(a) * b) \div Size) % Size
      [] op = "mulxss" -> ((SignedWord(a) * SignedWord(b)) \div Size) % Size

Destination == IF insn.op = "muli" THEN insn.B ELSE insn.C

\* What the handler finds in the place of a source: for sp its own stack pointer, for
\* ea, which is not saved, what was on the stack.
Operand(i) == CASE i = SP -> Minus(Minus(before[SP], 76), 60)
                [] i = EA -> slot[EA]
                [] OTHER  -> before[i]
Second == IF insn.op = "muli" THEN insn.imm ELSE Operand(insn.B)

\* Division by zero, and the quotient that does not fit, have no defined result.
Defined ==
    /\ insn.op \in {"div", "divu"} => Second # 0
    /\ ~(insn.op = "div" /\ SignedWord(Operand(insn.A)) = -Half /\ SignedWord(Second) = -1)

-----------------------------------------------------------------------------
\* The exception entry code: room for 76 bytes, then ra and r1 to r15.  The
\* instruction is loaded into r2.
EntryCode ==
    /\ place = "entry" /\ place' = "soft"
    /\ slot' = [i \in Registers |-> IF i \in 1 .. 15 \cup {RA} THEN r[i] ELSE slot[i]]
    /\ r' = [r EXCEPT ![SP] = Minus(@, 76)]
    /\ UNCHANGED <<insn, before>>

\* The fields of the instruction, the rest of the registers, and the operands.
\* r4 holds the immediate until it is known that there is none.
Decode ==
    LET saved == [i \in Registers |-> CASE i = 0 -> 0
                                        [] i \in 16 .. 23 \cup {GP, FP} -> r[i]
                                        [] i = SP -> Minus(r[SP], 60)
                                        [] OTHER -> slot[i]]
    IN  /\ place = "soft"
        /\ slot' = saved
        /\ CASE insn.op = "other" ->
                  /\ place' = "not_muldiv"
                  /\ r' = [r EXCEPT ![SP] = Minus(@, 60), ![14] = W % Size]
             [] insn.op \in {"div", "divu"} ->
                  /\ place' = "divide"
                  /\ r' = [r EXCEPT ![SP] = Minus(@, 60), ![14] = W % Size,
                                    ![3] = saved[insn.A], ![6] = saved[insn.B]]
             [] OTHER ->
                  LET multiplier == IF insn.op = "muli" THEN insn.imm ELSE saved[insn.B]
                  IN  /\ place' = "multiply_loop"
                      /\ r' = [r EXCEPT ![SP] = Minus(@, 60), ![14] = W % Size,
                                        ![3] = saved[insn.A], ![6] = multiplier,
                                        ![9] = 0, ![10] = 0, ![11] = multiplier,
                                        ![12] = multiplier, ![16] = 1]
        /\ UNCHANGED <<insn, before>>

\* Ldivide: the sign of the quotient into r17, the operands to their magnitudes.
Divide ==
    /\ place = "divide" /\ place' = "divide_loop"
    /\ r' = IF insn.op = "div"
            THEN [r EXCEPT ![17] = Differ(r[3], r[6]), ![13] = 0,
                           ![3] = IF Negative(@) THEN Minus(0, @) ELSE @,
                           ![6] = IF Negative(@) THEN Minus(0, @) ELSE @]
            ELSE [r EXCEPT ![17] = 0, ![13] = 0]
    /\ UNCHANGED <<insn, slot, before>>

\* One turn of the division loop: remainder, dividend and quotient shift left
\* together; a divisor that fits is taken off the remainder.
DivideLoop ==
    LET rem  == Plus(ShiftLeft(r[13]), Bit(Negative(r[3])))
        fits == rem >= r[6]
    IN  /\ place = "divide_loop"
        /\ r' = [r EXCEPT ![13] = IF fits THEN Minus(rem, r[6]) ELSE rem,
                          ![3] = Plus(ShiftLeft(@), Bit(fits)),
                          ![14] = @ - 1]
        /\ place' = IF r'[14] # 0 THEN "divide_loop" ELSE "quotient"
        /\ UNCHANGED <<insn, slot, before>>

StoreQuotient ==
    /\ place = "quotient" /\ place' = "exit"
    /\ slot' = [slot EXCEPT ![Destination] =
                    IF Negative(r[17]) THEN Minus(0, r[3]) ELSE r[3]]
    /\ UNCHANGED <<insn, r, before>>

\* One turn of the multiplication loop: the low product (r9) from the top bit of
\* the multiplier down, the high one (r10) from its lowest bit up, with the
\* carry of its addition shifted in at the top.
MultiplyLoop ==
    LET odd   == Lsb(r[12]) = 1
        sum   == IF odd THEN Plus(r[10], r[3]) ELSE r[10]
        carry == IF odd /\ sum < r[3] THEN Half ELSE 0
    IN  /\ place = "multiply_loop"
        /\ r' = [r EXCEPT ![9] = Plus(ShiftLeft(@), IF Negative(r[6]) THEN r[3] ELSE 0),
                          ![15] = carry,
                          ![10] = ShiftRight(sum) + carry,
                          ![6] = ShiftLeft(@),
                          ![12] = ShiftRight(@),
                          ![14] = @ - 1]
        /\ place' = IF r'[14] # 0 THEN "multiply_loop" ELSE "product"
        /\ UNCHANGED <<insn, slot, before>>

\* Faulty form: the correction of mulxss subtracts the multiplier again.
StoreProduct_Twice ==
    LET mulxsu == IF Negative(r[3]) THEN Minus(r[10], r[11]) ELSE r[10]
        mulxss == IF Negative(r[11]) THEN Minus(mulxsu, r[11]) ELSE mulxsu
    IN  /\ place = "product" /\ place' = "exit"
        /\ slot' = [slot EXCEPT ![Destination] =
                       CASE insn.op \in {"mul", "muli"} -> r[9]
                         [] insn.op = "mulxuu" -> r[10]
                         [] insn.op = "mulxsu" -> mulxsu
                         [] insn.op = "mulxss" -> mulxss]
        /\ UNCHANGED <<insn, r, before>>

\* Which product it is; the signed ones are corrected from the unsigned one.
StoreProduct ==
    LET mulxsu == IF Negative(r[3]) THEN Minus(r[10], r[11]) ELSE r[10]
        mulxss == IF Negative(r[11]) THEN Minus(mulxsu, r[3]) ELSE mulxsu
    IN  /\ place = "product" /\ place' = "exit"
        /\ slot' = [slot EXCEPT ![Destination] =
                       CASE insn.op \in {"mul", "muli"} -> r[9]
                         [] insn.op = "mulxuu" -> r[10]
                         [] insn.op = "mulxsu" -> mulxsu
                         [] insn.op = "mulxss" -> mulxss]
        /\ UNCHANGED <<insn, r, before>>

\* Lstore_result and the exit code: the emulation restores r16 to r23 and fp,
\* the exit code r1 to r15 and ra.
ExitCode ==
    /\ place = "exit" /\ place' = "done"
    /\ r' = [i \in Registers |-> CASE i \in 1 .. 23 \cup {FP, RA} -> slot[i]
                                   [] i = SP -> Plus(r[SP], 136)
                                   [] OTHER -> r[i]]
    /\ UNCHANGED <<insn, slot, before>>

\* Lnot_muldiv: the code linked behind it finds the registers as they were, r2
\* to r15 excepted, which are on the stack.
NotMulDiv ==
    /\ place = "not_muldiv" /\ place' = "unknown"
    /\ r' = [r EXCEPT ![SP] = Plus(@, 60)]
    /\ UNCHANGED <<insn, slot, before>>

Instructions == [op : Ops \ {"muli"}, A : Sources, B : Sources, C : Destinations,
                 imm : {0}]
                \cup [op : Ops \cap {"muli"}, A : Sources, B : Destinations, C : {0},
                      imm : Immediates]

\* What the other registers hold: distinct words, as far as there are any.
Content(i) == (7 * i) % Size

MulDivInit ==
    /\ place = "entry"
    /\ insn \in Instructions
    /\ \E a, b \in WordValue :
         r = [i \in Registers |-> CASE i = 0 -> 0
                                    [] i = insn.A /\ i # 0 -> a
                                    [] i = insn.B /\ i \notin {0, insn.A} -> b
                                    [] OTHER -> Content(i)]
    /\ \E left \in IF EA \in {insn.A, insn.B} THEN WordValue ELSE {0} :
         slot = [i \in Registers |-> IF i = EA THEN left ELSE 0]
    /\ before = r

MulDivNext == EntryCode \/ Decode \/ Divide \/ DivideLoop \/ StoreQuotient
              \/ MultiplyLoop \/ StoreProduct \/ ExitCode \/ NotMulDiv

MulDivSpec == MulDivInit /\ [][MulDivNext]_mulDivVars

-----------------------------------------------------------------------------
MulDivPlaces == {"entry", "soft", "divide", "divide_loop", "quotient", "multiply_loop",
           "product", "exit", "done", "not_muldiv", "unknown"}

MulDivTypeOK ==
    /\ place \in MulDivPlaces
    /\ r \in [Registers -> WordValue] /\ slot \in [Registers -> WordValue]

\* The interrupted program finds the result that the instruction defines, for the
\* operands that the handler found, in its destination, and every other register as it
\* was, whichever registers the source permits: a result for gp is dropped, and et
\* changes with every exception.  (The code between .Lnot_muldiv and the entry.)
ResultRight ==
    place = "done" /\ Defined =>
        \A i \in Registers \ {ET} :
            r[i] = IF i = Destination /\ i \notin {0, GP}
                   THEN Meaning(insn.op, Operand(insn.A), Second)
                   ELSE before[i]

\* "The emulations match the instructions, except for the following limitations", which
\* do not name sp and ea as sources, nor gp as a destination.
EmulationsMatch ==
    LET second == IF insn.op = "muli" THEN insn.imm ELSE before[insn.B]
    IN  place = "done" /\ Defined =>
            \A i \in Registers \ {ET} :
                r[i] = IF i = Destination /\ i # 0
                       THEN Meaning(insn.op, before[insn.A], second)
                       ELSE before[i]

\* An instruction that is none of these reaches the next handler with the
\* registers that a C function preserves, and its own on the stack.
PassesOn ==
    place = "unknown" =>
        /\ \A i \in 16 .. 30 : r[i] = IF i = SP THEN Minus(before[SP], 76) ELSE before[i]
        /\ \A i \in 1 .. 15 \cup {RA} : slot[i] = before[i]

\* In the division loop: what is left of the dividend, the quotient so far and
\* the remainder make up the dividend.
DivisionLoop ==
    place = "divide_loop" /\ insn.op = "divu" /\ r[6] # 0 =>
        LET n == r[14]
            rest == r[3] \div Pow[W - n]
            quotient == r[3] % Pow[W - n]
        IN  /\ r[13] < r[6]
            /\ (quotient * r[6] + r[13]) * Pow[n] + rest = Operand(insn.A)

\* An emulated instruction has its effect and no other, and any other instruction
\* reaches the next handler.
Emulates == MulDivTypeOK /\ ResultRight /\ PassesOn /\ DivisionLoop
=============================================================================
