-------------------------- MODULE Exceptions_proofs --------------------------
(***************************************************************************)
(* The exception code for every program, every set of interrupt lines and  *)
(* whatever the devices do: each instruction takes effect exactly once;    *)
(* no interrupt meets half a table entry if the program registers its      *)
(* handlers through alt_iic_isr_register; and if devices wait until they   *)
(* are served, no interrupt is taken for an exception.  And for words of   *)
(* every size and all operands: a multiply or divide instruction that the  *)
(* code emulates has its effect, and no other.                             *)
(***************************************************************************)
EXTENDS Exceptions, MulDiv, WellFoundedInduction, TLAPS

-----------------------------------------------------------------------------
(* Where an interrupted program resumes.                                   *)

\* The instructions before n took effect, once.
UpTo(n) == \A i \in Insns : effects[i] = IF i < n THEN 1 ELSE 0

\* Between the interrupt and its end the program stands at the instruction that was
\* interrupted, or that raised the exception; the code returns to it or behind it.
Resumes ==
    /\ pc # "run" => ea = at + 1
    /\ pc \in {"irqtest", "irq_handler", "dispatch", "irq_next", "notirq"} => frame.ea = at
    /\ pc \in {"soft", "unknown", "returned"} => frame.ea = at + 1
    /\ pc \notin {"returned", "exit"} => UpTo(at)
    /\ pc = "returned" => IF r2 = SKIP_INST THEN UpTo(at + 1) ELSE UpTo(at)
    /\ pc = "exit" => frame.ea \in {at, at + 1} /\ UpTo(frame.ea)
    /\ (pc = "exit" /\ frame.ea = at + 1) \/ (pc = "returned" /\ r2 = SKIP_INST) =>
         KindOf(at) \in {"muldiv", "illegal"}

ResumeInv == TypeOK /\ Resumes

\* What stands at each place of the program.
LEMMA ProgramTypes ==
  ASSUME ExceptionsAssumption
  PROVE  /\ Len(Program) \in Nat /\ Insns = 1 .. Len(Program)
         /\ \A i \in Insns : /\ Program[i].kind \in Kinds /\ Program[i].irq \in Lines
                             /\ Program[i].isr \in {"none", "old", "new"}
                             /\ KindOf(i) = Program[i].kind
         /\ \A i : KindOf(i) \in {"muldiv", "illegal", "fault"} => i \in Insns
         /\ \A i : KindOf(i) \in Kinds
<1> DEFINE I == [kind : Kinds, irq : Lines, isr : {"none", "old", "new"}]
<1>1. Program \in Seq(I)
  BY DEF ExceptionsAssumption
<1> HIDE DEF I
<1>2. Len(Program) \in Nat /\ Insns = 1 .. Len(Program) /\ \A i \in Insns : Program[i] \in I
  BY <1>1 DEF Insns
<1>3. \A i \in Insns : /\ Program[i].kind \in Kinds /\ Program[i].irq \in Lines
                      /\ Program[i].isr \in {"none", "old", "new"}
  BY <1>2 DEF I
<1> QED
  BY <1>2, <1>3 DEF KindOf, Kinds, Ordinary, Raising

LEMMA ResumeStart == ExceptionsAssumption => (Init => ResumeInv)
<1> SUFFICES ASSUME ExceptionsAssumption, Init PROVE ResumeInv
  OBVIOUS
<1>1. Len(Program) \in Nat /\ Insns = 1 .. Len(Program)
  BY ProgramTypes
<1>2. TypeOK
  <2>1. status_pie \in BOOLEAN /\ irq_context \in BOOLEAN /\ estatus \in BOOLEAN
    BY DEF Init
  <2>2. frame \in [estatus : BOOLEAN, ea : 1 .. Len(Program) + 2]
    BY <1>1 DEF Init
  <2>3. /\ effects \in [Insns -> Nat]
        /\ alt_irq \in [Lines -> [handler : {"none", "old", "new"},
                                 context : {"none", "old", "new"}]]
    BY DEF Init
  <2>4. /\ at \in 1 .. Len(Program) + 1 /\ ea \in 1 .. Len(Program) + 2
        /\ raises \in 0 .. MaxRaises /\ pc \in Places /\ r2 \in {REISSUE, SKIP_INST}
    BY <1>1 DEF Init, Places, REISSUE, ExceptionsAssumption
  <2>5. /\ enables \subseteq Lines /\ requests \subseteq Lines /\ active \subseteq Lines
        /\ repaired \subseteq Insns
        /\ alt_instruction_exception_handler \in {"none", "old", "new"}
    BY DEF Init
  <2> QED
    BY <2>1, <2>2, <2>3, <2>4, <2>5 DEF TypeOK
<1>3. Resumes
  BY <1>1 DEF Init, Resumes, UpTo
<1> QED
  BY <1>2, <1>3 DEF ResumeInv

\* The instruction of the program, executed or interrupted.
LEMMA ResumeExecute == ASSUME ExceptionsAssumption, ResumeInv, Execute PROVE ResumeInv'
<1>1. /\ Len(Program) \in Nat /\ Insns = 1 .. Len(Program) /\ at \in Insns
      /\ Program[at].irq \in Lines /\ Program[at].isr \in {"none", "old", "new"}
  BY ProgramTypes DEF Execute
<1>2. /\ pc = "run" /\ pc' = "run" /\ at' = at + 1
      /\ effects' = [effects EXCEPT ![at] = @ + 1]
      /\ UNCHANGED <<repaired, estatus, ea, frame, requests, raises, active, r2>>
  BY DEF Execute, devices
<1>3. status_pie' \in BOOLEAN /\ irq_context' \in BOOLEAN
  BY DEF Execute, ResumeInv, TypeOK, PieAfter
<1>4. /\ enables' \subseteq Lines
      /\ alt_irq' \in [Lines -> [handler : {"none", "old", "new"},
                                context : {"none", "old", "new"}]]
      /\ alt_instruction_exception_handler' \in {"none", "old", "new"}
  BY <1>1 DEF Execute, ResumeInv, TypeOK, alt_instruction_exception_register
<1>5. at' \in 1 .. Len(Program) + 1 /\ effects' \in [Insns -> Nat]
  BY <1>1, <1>2 DEF ResumeInv, TypeOK
<1>6. UpTo(at)'
  BY <1>1, <1>2 DEF ResumeInv, TypeOK, Resumes, UpTo
<1> QED
  BY <1>2, <1>3, <1>4, <1>5, <1>6 DEF ResumeInv, TypeOK, Resumes

LEMMA ResumeExcept == ASSUME ExceptionsAssumption, ResumeInv, Except PROVE ResumeInv'
<1>1. Len(Program) \in Nat
  BY ProgramTypes
<1>2. /\ pc = "run" /\ pc' = "entry" /\ ea' = at + 1 /\ estatus' = status_pie /\ status_pie' = FALSE
      /\ UNCHANGED <<at, effects, repaired, irq_context, frame, enables, alt_irq,
                     alt_instruction_exception_handler, requests, raises, active, r2>>
  BY DEF Except, devices, control
<1>3. TypeOK'
  <2>1. estatus' \in BOOLEAN /\ status_pie' \in BOOLEAN
    <3>1. status_pie \in BOOLEAN
      BY DEF ResumeInv, TypeOK
    <3> QED
      BY <1>2, <3>1, Zenon
  <2>2. ea' \in 1 .. Len(Program) + 2 /\ pc' \in Places
    BY <1>1, <1>2 DEF ResumeInv, TypeOK, Places
  <2> QED
    BY <1>2, <2>1, <2>2 DEF ResumeInv, TypeOK
<1> QED
  BY <1>2, <1>3 DEF ResumeInv, Resumes, UpTo

LEMMA ResumeDevice == ASSUME ExceptionsAssumption, ResumeInv, Raise \/ Withdraw PROVE ResumeInv'
<1>1. /\ requests' \subseteq Lines /\ raises' \in 0 .. MaxRaises
      /\ UNCHANGED <<pc, at, effects, repaired, status_pie, irq_context, estatus, ea, frame>>
      /\ UNCHANGED <<enables,
                     alt_irq, alt_instruction_exception_handler, active, r2>>
  <2>1. requests \subseteq Lines /\ raises \in 0 .. MaxRaises /\ MaxRaises \in Nat
    BY DEF ResumeInv, TypeOK, ExceptionsAssumption
  <2>2. CASE Raise
    BY <2>1, <2>2 DEF Raise, program, control
  <2>3. CASE Withdraw
    BY <2>1, <2>3 DEF Withdraw, program, control
  <2> QED
    BY <2>2, <2>3
<1> QED
  BY <1>1 DEF ResumeInv, TypeOK, Resumes, UpTo

\* The exception code.
LEMMA ResumeHandler == ASSUME ExceptionsAssumption, ResumeInv, Handler PROVE ResumeInv'
<1>1. Len(Program) \in Nat /\ Insns = 1 .. Len(Program) /\ at \in 1 .. Len(Program) + 1
  BY ProgramTypes DEF ResumeInv, TypeOK
<1>2. KindOf(at) \in {"muldiv", "illegal", "fault"} => at \in Insns
  BY ProgramTypes
<1>3. ASSUME Entry PROVE ResumeInv'
  <2>1. frame'.estatus = estatus /\ frame'.ea = at /\ frame' = [estatus |-> estatus, ea |-> at]
    BY <1>1, <1>3 DEF Entry, ResumeInv, Resumes
  <2>2. TypeOK'
    BY <1>1, <1>3, <2>1 DEF Entry, ResumeInv, TypeOK, Places, program, control, devices
  <2> QED
    BY <1>3, <2>1, <2>2 DEF Entry, ResumeInv, Resumes, UpTo, program, control, devices
<1>4. ASSUME IrqTest PROVE ResumeInv'
  BY <1>4 DEF IrqTest, ResumeInv, TypeOK, Places, Resumes, UpTo, program, control, devices
<1>5. ASSUME IrqPending \/ IrqNext PROVE ResumeInv'
  <2>1. /\ pc' \in {"dispatch", "exit"} /\ pc \in {"irq_handler", "irq_next"}
        /\ active' \subseteq Lines
        /\ UNCHANGED <<at, effects, repaired, status_pie, irq_context, estatus, ea, frame>>
        /\ UNCHANGED <<enables, alt_irq,
                       alt_instruction_exception_handler, requests, raises, r2>>
    BY <1>5 DEF IrqPending, IrqNext, Pending, ResumeInv, TypeOK, program, control, devices
  <2>2. TypeOK'
    BY <2>1 DEF ResumeInv, TypeOK, Places
  <2> QED
    BY <1>1, <2>1, <2>2 DEF ResumeInv, Resumes, UpTo
<1>6. ASSUME Dispatch PROVE ResumeInv'
  BY <1>6 DEF Dispatch, ResumeInv, TypeOK, Places, Resumes, UpTo, program, control
<1>7. ASSUME NotIrq PROVE ResumeInv'
  <2>1. frame' = [frame EXCEPT !.ea = ea] /\ frame'.ea = at + 1
    BY <1>7 DEF NotIrq, ResumeInv, TypeOK, Resumes
  <2>2. TypeOK'
    BY <1>7, <2>1 DEF NotIrq, ResumeInv, TypeOK, Places, program, control, devices
  <2> QED
    BY <1>7, <2>1, <2>2 DEF NotIrq, ResumeInv, Resumes, UpTo, program, control, devices
<1>8. ASSUME Soft PROVE ResumeInv'
  <2>1. ea - 1 = at /\ frame.ea = at + 1 /\ UpTo(at)
    BY <1>1, <1>8 DEF Soft, ResumeInv, Resumes
  <2>2. CASE Emulation /\ KindOf(ea - 1) = "muldiv"
    <3>1. effects' = [effects EXCEPT ![at] = @ + 1] /\ pc' = "exit" /\ at \in Insns
      BY <1>2, <1>8, <2>1, <2>2 DEF Soft
    <3>2. effects' \in [Insns -> Nat] /\ UpTo(at + 1)'
      BY <1>1, <1>8, <2>1, <3>1 DEF Soft, UpTo, ResumeInv, TypeOK
    <3> QED
      BY <1>8, <2>1, <2>2, <3>1, <3>2
         DEF Soft, ResumeInv, TypeOK, Places, Resumes, UpTo, control, devices
  <2>3. CASE ~(Emulation /\ KindOf(ea - 1) = "muldiv")
    BY <1>8, <2>1, <2>3 DEF Soft, ResumeInv, TypeOK, Places, Resumes, UpTo, control, devices
  <2> QED
    BY <2>2, <2>3
<1>9. ASSUME Unknown PROVE ResumeInv'
  <2>1. ea - 1 = at /\ frame.ea = at + 1 /\ UpTo(at)
    BY <1>1, <1>9 DEF Unknown, ResumeInv, Resumes
  <2>2. CASE KindOf(at) \in {"muldiv", "illegal"}
    <3>1. effects' = [effects EXCEPT ![at] = @ + 1] /\ r2' = SKIP_INST /\ at \in Insns
          /\ UNCHANGED repaired
      BY <1>2, <1>9, <2>1, <2>2 DEF Unknown
    <3>2. effects' \in [Insns -> Nat] /\ UpTo(at + 1)'
      BY <1>1, <1>9, <2>1, <3>1 DEF Unknown, UpTo, ResumeInv, TypeOK
    <3> QED
      BY <1>9, <2>1, <2>2, <3>1, <3>2
         DEF Unknown, ResumeInv, TypeOK, Places, Resumes, UpTo, control, devices
  <2>3. CASE KindOf(at) \notin {"muldiv", "illegal"}
    <3>1. r2' = REISSUE /\ repaired' \subseteq Insns /\ UNCHANGED effects
      BY <1>9, <2>1, <2>3 DEF Unknown, ResumeInv, TypeOK
    <3> QED
      BY <1>9, <2>1, <3>1
         DEF Unknown, ResumeInv, TypeOK, Places, Resumes, UpTo, control, devices, REISSUE, SKIP_INST
  <2> QED
    BY <2>2, <2>3
<1>10. ASSUME NoHandler PROVE ResumeInv'
  BY <1>10 DEF NoHandler, ResumeInv, TypeOK, Places, Resumes, UpTo, program, control, devices
<1>11. ASSUME Returned PROVE ResumeInv'
  <2>1. /\ frame' = [frame EXCEPT !.ea = IF r2 # 0 THEN @ ELSE ea - 1]
        /\ frame.ea = at + 1 /\ ea = at + 1 /\ r2 \in {0, 1}
    BY <1>11 DEF Returned, ResumeInv, TypeOK, Resumes, REISSUE, SKIP_INST
  <2>2. frame'.ea = (IF r2 = 1 THEN at + 1 ELSE at) /\ frame'.estatus \in BOOLEAN
    BY <1>1, <2>1 DEF ResumeInv, TypeOK
  <2>3. frame' \in [estatus : BOOLEAN, ea : 1 .. Len(Program) + 2]
    BY <1>1, <2>1, <2>2 DEF ResumeInv, TypeOK
  <2>4. UpTo(frame.ea)'
    BY <1>1, <1>11, <2>1, <2>2 DEF Returned, ResumeInv, Resumes, UpTo, SKIP_INST, program
  <2> QED
    BY <1>1, <1>11, <2>1, <2>2, <2>3, <2>4
       DEF Returned, ResumeInv, TypeOK, Places, Resumes, SKIP_INST, program, control, devices
<1>12. ASSUME Exit PROVE ResumeInv'
  <2>1. at' = frame.ea /\ frame.ea \in {at, at + 1} /\ UpTo(frame.ea)
        /\ (frame.ea = at + 1 => at \in Insns)
    BY <1>2, <1>12 DEF Exit, ResumeInv, Resumes
  <2>2. at' \in 1 .. Len(Program) + 1
    BY <1>1, <2>1
  <2> QED
    BY <1>12, <2>1, <2>2
       DEF Exit, ResumeInv, TypeOK, Places, Resumes, UpTo, control, devices
<1> QED
  BY <1>3, <1>4, <1>5, <1>6, <1>7, <1>8, <1>9, <1>10, <1>11, <1>12 DEF Handler

LEMMA ResumeNext == ASSUME ExceptionsAssumption, ResumeInv, [Next]_vars PROVE ResumeInv'
<1>1. ASSUME UNCHANGED vars PROVE ResumeInv'
  BY <1>1 DEF vars, ResumeInv, TypeOK, Resumes, UpTo
<1> QED
  BY <1>1, ResumeExecute, ResumeExcept, ResumeDevice, ResumeHandler DEF Next

\* Whatever interrupts come when, and whatever exceptions the program raises: when it runs,
\* the instructions behind it took effect once each, and those before it not yet.
THEOREM EachOnce == ExceptionsAssumption => (Spec => [](TypeOK /\ OnceEach))
<1> SUFFICES ASSUME ExceptionsAssumption PROVE Spec => [](TypeOK /\ OnceEach)
  OBVIOUS
<1>1. Init => ResumeInv
  BY ResumeStart
<1>2. ResumeInv /\ [Next]_vars => ResumeInv'
  BY ResumeNext
<1>3. ResumeInv => TypeOK /\ OnceEach
  BY DEF ResumeInv, Resumes, OnceEach, UpTo
<1> QED
  BY <1>1, <1>2, <1>3, PTL DEF Spec

-----------------------------------------------------------------------------
(* Calls of alt_iic_isr_register.                                          *)

\* The steps of a call that change something, and those before which it is half done.
Changing == {"handler", "context", "ienable"}
HalfDone(i) == KindOf(at) \in {"context", "ienable"} /\ Program[at].irq = i

WholeItem(i) ==
    /\ alt_irq[i].handler = alt_irq[i].context
    /\ i \in enables => alt_irq[i].handler # "none"

\* Nothing interrupts a call between its changes; outside of a call every entry is whole.
Registering ==
    /\ KindOf(at) \in Changing => pc = "run" /\ ~status_pie
    /\ KindOf(at) \in {"context", "ienable"} => alt_irq[Program[at].irq].handler = Program[at].isr
    /\ KindOf(at) = "ienable" => alt_irq[Program[at].irq].context = Program[at].isr
    /\ \A i \in Lines : HalfDone(i) \/ WholeItem(i)
    /\ pc = "dispatch" => active \subseteq enables

EntryInv == ResumeInv /\ Registering

\* A set of numbers has a least element.
Less == {p \in Nat \X Nat : p[1] < p[2]}

LEMMA LeastOf ==
  ASSUME NEW S, S \subseteq Nat, S # {}
  PROVE  Lowest(S) \in S /\ \A j \in S : Lowest(S) <= j
<1>1. Less = OpToRel(<, Nat)
  BY DEF Less, OpToRel
<1>2. IsWellFoundedOn(Less, Nat)
  BY <1>1, NatLessThanWellFounded
<1>3. \A x \in Nat, y \in Nat : <<y, x>> \notin Less => x <= y
  BY DEF Less
<1>4. \E x \in S : \A y \in S : ~(<<y, x>> \in Less)
  <2> HIDE DEF Less
  <2> QED
    BY <1>2, WFMin
<1>5. \E x \in S : \A y \in S : x <= y
  BY <1>3, <1>4
<1> QED
  BY <1>5 DEF Lowest

LEMMA EntryStart == ExceptionsAssumption /\ WholeCalls => (Init => Registering)
<1> SUFFICES ASSUME ExceptionsAssumption, WholeCalls, Init PROVE Registering
  OBVIOUS
<1>1. KindOf(1) \notin Changing
  <2>1. Insns = 1 .. Len(Program) /\ Len(Program) \in Nat
    BY ProgramTypes
  <2>2. KindOf(0) = "plain"
    BY <2>1 DEF KindOf
  <2>3. 1 \notin Insns => KindOf(1) = "plain"
    BY DEF KindOf
  <2> QED
    BY <2>2, <2>3 DEF WholeCalls, Changing
<1> QED
  BY <1>1 DEF Init, Registering, HalfDone, WholeItem, Changing

LEMMA EntryExecute ==
  ASSUME ExceptionsAssumption, WholeCalls, EntryInv, Execute
  PROVE  Registering'
<1> DEFINE p == Program[at]
<1>1. /\ Len(Program) \in Nat /\ Insns = 1 .. Len(Program) /\ at \in Insns
      /\ p.irq \in Lines /\ p.isr \in {"none", "old", "new"} /\ KindOf(at) = p.kind
  BY ProgramTypes DEF Execute
<1>2. /\ pc = "run" /\ pc' = "run" /\ at' = at + 1 /\ (at + 1) - 1 = at
      /\ KindOf(at)' = KindOf(at + 1) /\ active' = active
  BY <1>1 DEF Execute, KindOf, Insns
<1>3. alt_irq \in [Lines -> [handler : {"none", "old", "new"}, context : {"none", "old", "new"}]]
  BY DEF EntryInv, ResumeInv, TypeOK
<1>4. /\ KindOf(at + 1) = "handler" => KindOf(at) = "disable_all"
      /\ KindOf(at + 1) = "context" => KindOf(at) = "handler"
      /\ KindOf(at + 1) = "ienable" => KindOf(at) = "context"
  <2>1. at + 1 \notin Insns => KindOf(at + 1) = "plain"
    BY DEF KindOf
  <2> QED
    BY <1>2, <2>1 DEF WholeCalls
<1>5. KindOf(at + 1) \in Changing => ~status_pie'
  BY <1>1, <1>4 DEF Execute, PieAfter, Changing, EntryInv, Registering
<1>6. ASSUME p.kind \notin Changing PROVE Registering'
  <2>1. alt_irq' = alt_irq /\ enables' = enables
    BY <1>6 DEF Execute, Changing
  <2>2. KindOf(at + 1) \notin {"context", "ienable"}
    BY <1>1, <1>4, <1>6 DEF Changing
  <2>3. \A i \in Lines : WholeItem(i)
    BY <1>1, <1>6 DEF EntryInv, Registering, HalfDone, Changing
  <2> QED
    BY <1>2, <1>5, <2>1, <2>2, <2>3 DEF Registering, HalfDone, WholeItem
<1>7. ASSUME p.kind = "handler" PROVE Registering'
  <2>1. alt_irq' = [alt_irq EXCEPT ![p.irq].handler = p.isr] /\ enables' = enables
    BY <1>7 DEF Execute
  <2>2. KindOf(at + 1) = "context" /\ Program[at + 1].irq = p.irq /\ Program[at + 1].isr = p.isr
    BY <1>1, <1>7 DEF WholeCalls, SameCall
  <2>3. alt_irq'[p.irq].handler = p.isr /\ \A i \in Lines \ {p.irq} : alt_irq'[i] = alt_irq[i]
    BY <1>1, <1>3, <2>1
  <2>4. \A i \in Lines : WholeItem(i)
    BY <1>1, <1>7 DEF EntryInv, Registering, HalfDone
  <2> HIDE DEF p
  <2> QED
    BY <1>2, <1>5, <2>1, <2>2, <2>3, <2>4 DEF Registering, HalfDone, WholeItem
<1>8. ASSUME p.kind = "context" PROVE Registering'
  <2>1. alt_irq' = [alt_irq EXCEPT ![p.irq].context = p.isr] /\ enables' = enables
    BY <1>8 DEF Execute
  <2>2. KindOf(at + 1) = "ienable" /\ Program[at + 1].irq = p.irq /\ Program[at + 1].isr = p.isr
    BY <1>1, <1>8 DEF WholeCalls, SameCall
  <2>3. /\ alt_irq'[p.irq].context = p.isr /\ alt_irq'[p.irq].handler = alt_irq[p.irq].handler
        /\ \A i \in Lines \ {p.irq} : alt_irq'[i] = alt_irq[i]
    BY <1>1, <1>3, <2>1
  <2>4. /\ alt_irq[p.irq].handler = p.isr
        /\ \A i \in Lines \ {p.irq} : WholeItem(i)
    BY <1>1, <1>8 DEF EntryInv, Registering, HalfDone
  <2> HIDE DEF p
  <2> QED
    BY <1>2, <1>5, <2>1, <2>2, <2>3, <2>4 DEF Registering, HalfDone, WholeItem
<1>9. ASSUME p.kind = "ienable" PROVE Registering'
  <2>1. /\ alt_irq' = alt_irq
        /\ enables' = IF p.isr = "none" THEN enables \ {p.irq} ELSE enables \cup {p.irq}
    BY <1>9 DEF Execute
  <2>2. KindOf(at + 1) \notin {"context", "ienable"}
    BY <1>1, <1>4, <1>9
  <2>3. /\ alt_irq[p.irq].handler = p.isr /\ alt_irq[p.irq].context = p.isr
        /\ \A i \in Lines \ {p.irq} : WholeItem(i)
    BY <1>1, <1>9 DEF EntryInv, Registering, HalfDone
  <2> HIDE DEF p
  <2>4. \A i \in Lines : WholeItem(i)'
    BY <2>1, <2>3 DEF WholeItem
  <2> QED
    BY <1>2, <1>5, <2>2, <2>4 DEF Registering, HalfDone
<1> QED
  BY <1>6, <1>7, <1>8, <1>9 DEF Changing

\* Steps at which the program stands, and which leave the table alone.
LEMMA EntryStays ==
  ASSUME ExceptionsAssumption, EntryInv, Next \/ UNCHANGED vars, ~Execute, ~Exit
  PROVE  Registering'
<1>1. /\ at' = at /\ UNCHANGED control
      /\ pc' = "dispatch" => active' \subseteq enables'
      /\ pc = "run" => UNCHANGED <<pc, status_pie>> \/ KindOf(at) \notin Changing
  <2>1. CASE Except
    <3>1. TakesInterrupt \/ ~Executable(at)
      BY <2>1 DEF Except
    <3>2. KindOf(at) \notin Changing
      BY <3>1 DEF TakesInterrupt, Executable, EntryInv, Registering, Changing, Ordinary
    <3> QED
      BY <2>1, <3>2 DEF Except
  <2>2. CASE Raise \/ Withdraw \/ UNCHANGED vars
    BY <2>2 DEF Raise, Withdraw, vars, program, control, EntryInv, Registering
  <2>3. CASE Entry \/ IrqTest \/ NotIrq \/ Soft \/ Unknown \/ NoHandler \/ Returned
    BY <2>3 DEF Entry, IrqTest, NotIrq, Soft, Unknown, NoHandler, Returned, program, control
  <2>4. CASE IrqPending \/ IrqNext
    BY <2>4 DEF IrqPending, IrqNext, program, control, Pending
  <2>5. CASE Dispatch
    BY <2>5 DEF Dispatch, program, control
  <2> QED
    BY <2>1, <2>2, <2>3, <2>4, <2>5 DEF Next, Handler
<1>2. KindOf(at)' = KindOf(at)
  BY <1>1 DEF KindOf, Insns
<1>3. KindOf(at) \in Changing => pc = "run" /\ ~status_pie
  BY DEF EntryInv, Registering
<1> QED
  BY <1>1, <1>2, <1>3 DEF EntryInv, Registering, HalfDone, WholeItem, control

\* The return to the program, which is at an instruction that may follow one that raised
\* an exception.
LEMMA EntryExit ==
  ASSUME ExceptionsAssumption, WholeCalls, EntryInv, Exit
  PROVE  Registering'
<1>1. /\ frame.ea \in {at, at + 1} /\ at \in Nat
      /\ frame.ea = at + 1 => KindOf(at) \in {"muldiv", "illegal"}
      /\ pc = "exit" /\ pc' = "run" /\ at' = frame.ea /\ UNCHANGED <<enables, alt_irq, active>>
  BY DEF Exit, EntryInv, ResumeInv, TypeOK, Resumes, control
<1>2. KindOf(at) \notin Changing /\ \A i \in Lines : WholeItem(i)
  BY <1>1 DEF EntryInv, Registering, HalfDone, Changing
<1>3. KindOf(at)' = KindOf(frame.ea)
  BY <1>1 DEF KindOf, Insns
<1>4. KindOf(frame.ea) \notin Changing
  <2>1. CASE frame.ea = at
    BY <1>2, <2>1
  <2>2. CASE frame.ea = at + 1
    <3>1. (at + 1) - 1 = at /\ KindOf(at) \in {"muldiv", "illegal"}
      BY <1>1, <2>2
    <3>2. at + 1 \notin Insns => KindOf(at + 1) = "plain"
      BY DEF KindOf
    <3> QED
      BY <2>2, <3>1, <3>2 DEF WholeCalls, Changing
  <2> QED
    BY <1>1, <2>1, <2>2
<1> QED
  BY <1>1, <1>2, <1>3, <1>4 DEF Registering, HalfDone, WholeItem, Changing

\* In a program that registers its handlers through alt_iic_isr_register, no interrupt meets
\* half a table entry: a handler is called only while its interrupt is enabled, and with
\* the context that belongs to it.
THEOREM WholeEntries == ExceptionsAssumption /\ WholeCalls => (Spec => []WholeEntry)
<1> SUFFICES ASSUME ExceptionsAssumption, WholeCalls PROVE Spec => []WholeEntry
  OBVIOUS
<1>1. Init => EntryInv
  BY ResumeStart, EntryStart DEF EntryInv
<1>2. EntryInv /\ [Next]_vars => EntryInv'
  BY ResumeNext, EntryExecute, EntryStays, EntryExit DEF EntryInv
<1>3. EntryInv => WholeEntry
  <2> SUFFICES ASSUME EntryInv, pc = "dispatch", active # {}
               PROVE  LET i == Lowest(active)
                      IN  i \in enables /\ alt_irq[i].handler # "none"
                          /\ alt_irq[i].handler = alt_irq[i].context
    BY DEF WholeEntry
  <2>1. active \subseteq enables /\ active \subseteq Lines /\ active \subseteq Nat
    BY DEF EntryInv, Registering, ResumeInv, TypeOK, ExceptionsAssumption
  <2>2. Lowest(active) \in active
    BY <2>1, LeastOf
  <2>3. \A i \in Lines : WholeItem(i)
    BY DEF EntryInv, Registering, HalfDone, Changing
  <2> QED
    BY <2>1, <2>2, <2>3 DEF WholeItem
<1> QED
  BY <1>1, <1>2, <1>3, PTL DEF Spec

-----------------------------------------------------------------------------
(* Interrupts and exceptions told apart.                                   *)

\* As long as nothing but alt_irq_handler ends a request, an interrupt that was taken is
\* still pending when the code looks for it.
Raised ==
    /\ pc = "entry" => (estatus /\ Pending # {}) \/ KindOf(at) \in Raising
    /\ pc = "irqtest" => (frame.estatus /\ Pending # {}) \/ KindOf(at) \in Raising
    /\ pc \in {"notirq", "soft", "unknown"} => KindOf(at) \in Raising

LEMMA RaisedNext ==
  ASSUME ExceptionsAssumption, Steady, ResumeInv, Raised, [Next]_vars
  PROVE  Raised'
<1>1. at' = at => KindOf(at)' = KindOf(at)
  BY DEF KindOf, Insns
<1>2. CASE Execute
  BY <1>2 DEF Execute, Raised
<1>3. CASE Except
  <2>1. KindOf(at) \in Kinds
    BY ProgramTypes
  <2>2. (status_pie /\ Pending # {}) \/ KindOf(at) \in Raising
    BY <1>3, <2>1 DEF Except, TakesInterrupt, Executable, Kinds
  <2>3. at' = at /\ pc' = "entry" /\ Pending' = Pending /\ (estatus' <=> status_pie)
    BY <1>3 DEF Except, Pending, control, devices
  <2> QED
    BY <1>1, <2>2, <2>3 DEF Raised
<1>4. CASE Raise
  <2>1. Pending \subseteq Pending'
    BY <1>4 DEF Raise, Pending, control
  <2> QED
    BY <1>1, <1>4, <2>1 DEF Raise, program, Raised
<1>5. ~Withdraw
  BY DEF Withdraw
<1>6. CASE Entry
  <2>1. /\ at' = at /\ pc' = "irqtest" /\ Pending' = Pending
        /\ frame'.estatus = estatus /\ pc = "entry"
    BY <1>6 DEF Entry, Pending, program, control, devices
  <2> QED
    BY <1>1, <2>1 DEF Raised
<1>7. CASE IrqTest
  BY <1>1, <1>7 DEF IrqTest, Raised, program
<1>8. CASE IrqPending \/ IrqNext \/ Dispatch \/ NoHandler \/ Returned \/ Exit
  BY <1>8 DEF IrqPending, IrqNext, Dispatch, NoHandler, Returned, Exit, Raised
<1>9. CASE NotIrq \/ Soft \/ Unknown
  BY <1>1, <1>9 DEF NotIrq, Soft, Unknown, Raised, program
<1>10. CASE UNCHANGED vars
  <2>1. Pending' = Pending
    BY <1>10 DEF vars, Pending
  <2> QED
    BY <1>1, <1>10, <2>1 DEF vars, Raised
<1> QED
  BY <1>2, <1>3, <1>4, <1>5, <1>6, <1>7, <1>8, <1>9, <1>10 DEF Next, Handler

\* If a device asks until it is served, the program's exception handler sees only
\* instructions that raised an exception: an interrupt is never taken for one.
THEOREM RaisedOnly == ExceptionsAssumption /\ Steady => (Spec => []OnlyRaised)
<1> SUFFICES ASSUME ExceptionsAssumption, Steady PROVE Spec => []OnlyRaised
  OBVIOUS
<1>1. Init => ResumeInv /\ Raised
  BY ResumeStart DEF Init, Raised
<1>2. ResumeInv /\ Raised /\ [Next]_vars => (ResumeInv /\ Raised)'
  BY ResumeNext, RaisedNext
<1>3. ResumeInv /\ Raised => OnlyRaised
  <2> SUFFICES ASSUME ResumeInv, Raised, pc = "unknown" PROVE KindOf(ea - 1) \in Raising
    BY DEF OnlyRaised
  <2>1. ea = at + 1 /\ at \in Int
    BY DEF ResumeInv, TypeOK, Resumes
  <2>2. ea - 1 = at
    BY <2>1
  <2> QED
    BY <2>2 DEF Raised
<1> QED
  BY <1>1, <1>2, <1>3, PTL DEF Spec

\* What the interrupted program relies on, whatever it is and whatever comes when; that
\* entries are whole, if it registers handlers through alt_iic_isr_register only.
THEOREM NothingDisturbs == ExceptionsAssumption => (Spec => []Undisturbed)
<1> SUFFICES ASSUME ExceptionsAssumption PROVE Spec => []Undisturbed
  OBVIOUS
<1>1. CASE WholeCalls
  <2>1. Spec => []WholeEntry
    BY <1>1, WholeEntries
  <2>2. Spec => [](TypeOK /\ OnceEach)
    BY EachOnce
  <2> QED
    BY <2>1, <2>2, PTL DEF Undisturbed
<1>2. CASE ~WholeCalls
  <2>1. TypeOK /\ OnceEach => Undisturbed
    BY <1>2 DEF Undisturbed
  <2>2. Spec => [](TypeOK /\ OnceEach)
    BY EachOnce
  <2> QED
    BY <2>1, <2>2, PTL
<1> QED
  BY <1>1, <1>2

-----------------------------------------------------------------------------
(* MulDiv: numbers.                                                        *)

\* Division is unique.
LEMMA DivisionIs ==
  ASSUME NEW d \in Nat, d > 0, NEW x \in Int, NEW q \in Int, NEW y \in 0 .. d - 1, x = q * d + y
  PROVE  x % d = y /\ x \div d = q
<1> DEFINE p == x \div d
           z == x % d
<1>1. p \in Int /\ z \in 0 .. d - 1 /\ x = d * p + z
  OBVIOUS
<1> HIDE DEF p, z
<1>2. (q - p) * d = z - y
  BY <1>1
<1>3. q = p
  <2>1. CASE q - p >= 1
    <3>1. (q - p) * d >= d
      BY <1>1, <2>1
    <3> QED
      BY <1>1, <1>2, <3>1
  <2>2. CASE q - p <= -1
    <3>1. (q - p) * d <= -d
      BY <1>1, <2>2
    <3> QED
      BY <1>1, <1>2, <3>1
  <2> QED
    BY <1>1, <2>1, <2>2
<1>4. y = z
  BY <1>1, <1>3
<1> QED
  BY <1>3, <1>4 DEF p, z

\* What a number is congruent to may be multiplied and added to.
LEMMA Congruent ==
  ASSUME NEW d \in Nat, d > 0, NEW x \in Int, NEW k \in Int, NEW y \in Int
  PROVE  (k * (x % d) + y) % d = (k * x + y) % d
<1> DEFINE p == x \div d
           z == x % d
           s == k * z + y
           p2 == s \div d
           w == s % d
<1>1. p \in Int /\ z \in 0 .. d - 1 /\ x = d * p + z
  OBVIOUS
<1>2. s \in Int
  BY <1>1
<1>3. p2 \in Int /\ w \in 0 .. d - 1 /\ s = d * p2 + w
  <2> HIDE DEF s
  <2> QED
    BY <1>2
<1>4. k * x + y = (k * p + p2) * d + w
  <2>1. s = k * z + y
    OBVIOUS
  <2> HIDE DEF p, z, s, p2, w
  <2>2. k * x = k * (d * p + z)
    BY <1>1
  <2>3. k * (d * p + z) = (k * p) * d + k * z
    BY <1>1
  <2>4. (k * p + p2) * d = (k * p) * d + p2 * d
    BY <1>1, <1>3
  <2>5. k * x \in Int /\ k * z \in Int /\ (k * p) * d \in Int /\ p2 * d \in Int /\ p2 * d = d * p2
    BY <1>1, <1>3
  <2> QED
    BY <1>1, <1>3, <2>1, <2>2, <2>3, <2>4, <2>5
<1>5. (k * x + y) % d = w
  <2> DEFINE u == k * x + y
             v == k * p + p2
  <2>1. u \in Int /\ v \in Int
    BY <1>1, <1>3
  <2>2. u = v * d + w
    BY <1>4
  <2> HIDE DEF u, v, w
  <2>3. u % d = w
    BY <1>3, <2>1, <2>2, DivisionIs
  <2> QED
    BY <2>3 DEF u
<1> QED
  BY <1>5

-----------------------------------------------------------------------------
\* The powers of two.
LEMMA Powers ==
  ASSUME MulDivAssumption
  PROVE  /\ W \in Nat /\ W >= 2
         /\ \A i \in 0 .. W : Pow[i] \in Nat /\ Pow[i] >= i + 1 /\ Pow[i] * Pow[W - i] = Size
<1>1. /\ W \in Nat /\ W >= 2 /\ Pow[0] = 1
      /\ \A i \in 0 .. W : Pow[i] \in Nat
      /\ \A i \in 0 .. W - 1 : Pow[i + 1] = 2 * Pow[i]
  BY DEF MulDivAssumption
<1> DEFINE Right(i) == Pow[i] >= i + 1 /\ Pow[i] * Pow[W - i] = Size
           Wrong == {i \in 0 .. W : ~Right(i)}
<1>2. Wrong = {}
  <2> SUFFICES ASSUME Wrong # {} PROVE FALSE
    OBVIOUS
  <2>1. Wrong \subseteq Nat
    BY <1>1
  <2>2. PICK i \in Wrong : \A j \in Wrong : i <= j
    <3> HIDE DEF Wrong
    <3> QED
      BY <2>1, LeastOf
  <2>3. i \in 0 .. W /\ ~Right(i)
    OBVIOUS
  <2>4. Right(0)
    <3>1. W - 0 = W
      BY <1>1
    <3> QED
      BY <1>1, <3>1 DEF Size
  <2>5. i # 0
    BY <2>3, <2>4
  <2>6. i - 1 \in 0 .. W - 1 /\ i - 1 \in 0 .. W /\ i \in Nat
    BY <1>1, <2>3, <2>5
  <2>7. Right(i - 1)
    <3>1. i - 1 \notin Wrong
      BY <2>2, <2>6
    <3> QED
      BY <2>6, <3>1
  <2> DEFINE c == Pow[i - 1]
             e == Pow[W - i]
  <2>8. Pow[i] = 2 * c /\ c \in Nat
    BY <1>1, <2>6
  <2>9. Pow[W - (i - 1)] = 2 * e /\ e \in Nat
    <3>1. W - i \in 0 .. W - 1 /\ W - i \in 0 .. W /\ (W - i) + 1 = W - (i - 1)
      BY <1>1, <2>3, <2>5
    <3> QED
      BY <1>1, <3>1
  <2>10. c >= i /\ c * (2 * e) = Size
    BY <2>6, <2>7, <2>9
  <2>11. Pow[i] >= i + 1
    BY <2>6, <2>8, <2>10, <2>5
  <2>12. (2 * c) * e = Size
    <3> HIDE DEF c, e
    <3> QED
      BY <2>8, <2>9, <2>10
  <2> QED
    BY <2>3, <2>8, <2>11, <2>12
<1> QED
  BY <1>1, <1>2

\* A word, half of what it can hold, and the turns of a loop.
LEMMA Sizes ==
  ASSUME MulDivAssumption
  PROVE  /\ Size \in Nat /\ Half \in Nat /\ Half >= 2 /\ Size = 2 * Half
         /\ W % Size = W /\ W \in WordValue
<1>1. /\ W \in Nat /\ W >= 2 /\ W \in 0 .. W /\ W - 1 \in 0 .. W /\ W - 1 \in 0 .. W - 1
      /\ (W - 1) + 1 = W
  BY Powers
<1>2. /\ Pow[W] \in Nat /\ Pow[W] >= W + 1 /\ Pow[W - 1] \in Nat /\ Pow[W - 1] >= W
      /\ Pow[W] = 2 * Pow[W - 1]
  BY <1>1, Powers DEF MulDivAssumption
<1>3. W % Pow[W] = W
  BY <1>1, <1>2, DivisionIs
<1> QED
  BY <1>1, <1>2, <1>3 DEF Size, Half, WordValue

\* A product grows with its factors.
LEMMA Grows == \A x, y, z \in Nat : x <= y => x * z <= y * z
<1> TAKE x, y, z \in Nat
<1> HAVE x <= y
<1>1. y * z = x * z + (y - x) * z
  OBVIOUS
<1>2. (y - x) * z >= 0
  OBVIOUS
<1> QED
  BY <1>1, <1>2

-----------------------------------------------------------------------------
(* One turn of a loop.                                                     *)

\* A word of some bits above others, shifted to the left: its top bit leaves.  P and K are
\* the powers of two of the bits above, but for the topmost, and of those below.
LEMMA ShiftsOut ==
  ASSUME NEW P \in Nat, P >= 1, NEW K \in Nat, K >= 1, NEW H \in Nat, P * K = H,
         NEW up \in Nat, up < 2 * P, NEW low \in Nat, low < K,
         NEW x, x = up * K + low
  PROVE  /\ up >= P <=> x >= H
         /\ up >= P => (2 * x) % (2 * H) = (up - P) * (2 * K) + 2 * low
         /\ up < P => (2 * x) % (2 * H) = up * (2 * K) + 2 * low
<1>0. x \in Nat /\ up * K \in Nat
  OBVIOUS
<1>1. ASSUME NEW u \in Nat, u < P PROVE u * K + low < H /\ u * (2 * K) + 2 * low < 2 * H
  <2>1. u * K <= (P - 1) * K
    BY <1>1, Grows
  <2>2. (P - 1) * K = P * K - K
    OBVIOUS
  <2>3. u * K \in Nat /\ u * (2 * K) = 2 * (u * K)
    BY <1>1
  <2> QED
    BY <2>1, <2>2, <2>3
<1>2. CASE up >= P
  <2>1. (up - P) * K = up * K - H
    OBVIOUS
  <2>2. up - P \in Nat /\ up - P < P
    BY <1>2
  <2>3. (up - P) * K \in Nat
    BY <2>2
  <2>4. x >= H
    BY <1>0, <2>1, <2>3
  <2> DEFINE y == (up - P) * (2 * K) + 2 * low
  <2>5. y \in Nat /\ y < 2 * H
    BY <1>1, <2>2
  <2>6. (up - P) * (2 * K) = 2 * ((up - P) * K)
    OBVIOUS
  <2>7. 2 * x = 1 * (2 * H) + y
    BY <1>0, <2>1, <2>3, <2>6
  <2>8. 2 * H \in Nat /\ 2 * H > 0 /\ 2 * x \in Int
    BY <1>0, <2>5
  <2> HIDE DEF y
  <2>9. (2 * x) % (2 * H) = y
    BY <2>5, <2>7, <2>8, DivisionIs
  <2> QED
    BY <1>2, <2>4, <2>9 DEF y
<1>3. CASE up < P
  <2>1. x < H /\ up * (2 * K) + 2 * low < 2 * H
    BY <1>1, <1>3
  <2> DEFINE y == up * (2 * K) + 2 * low
  <2>2. y \in Nat /\ 2 * x = 0 * (2 * H) + y
    BY <1>0
  <2>3. 2 * H \in Nat /\ 2 * H > 0 /\ 2 * x \in Int
    BY <1>0, <2>1
  <2>4. y < 2 * H
    BY <2>1
  <2> HIDE DEF y
  <2>5. (2 * x) % (2 * H) = y
    BY <2>2, <2>3, <2>4, DivisionIs
  <2> QED
    BY <1>0, <1>3, <2>1, <2>5 DEF y
<1> QED
  BY <1>2, <1>3

\* The division: rest are the bits of the dividend that are left, quo the quotient so far.
DivisionIn(dividend, divisor, x, rem, P, K) ==
    \E rest, quo \in Nat :
        /\ rest < P /\ quo < K /\ x = rest * K + quo
        /\ rem < divisor /\ quo * divisor + rem < K
        /\ dividend = (quo * divisor + rem) * P + rest

\* The division loop keeps it.
LEMMA DivisionTurn ==
  ASSUME NEW P \in Nat, P >= 1, NEW K \in Nat, K >= 1, NEW H \in Nat, P * K = H,
         NEW dividend \in Nat, NEW d \in 1 .. 2 * H - 1, NEW x \in Nat, NEW rem \in Nat,
         DivisionIn(dividend, d, x, rem, 2 * P, K),
         NEW b, b = (IF x >= H THEN 1 ELSE 0),
         NEW rem2, rem2 = (((2 * rem) % (2 * H)) + b) % (2 * H),
         NEW f, f = (IF rem2 >= d THEN 1 ELSE 0),
         NEW x2, x2 = (((2 * x) % (2 * H)) + f) % (2 * H),
         NEW rem3, rem3 = (IF rem2 >= d THEN (rem2 - d) % (2 * H) ELSE rem2)
  PROVE  DivisionIn(dividend, d, x2, rem3, P, 2 * K)
<1>1. PICK rest \in Nat, quo \in Nat :
        /\ rest < 2 * P /\ quo < K /\ x = rest * K + quo
        /\ rem < d /\ quo * d + rem < K
        /\ dividend = (quo * d + rem) * (2 * P) + rest
  BY DEF DivisionIn
<1> DEFINE rest1 == IF rest >= P THEN rest - P ELSE rest
           quo1 == 2 * quo + f
<1>2. b \in {0, 1} /\ f \in {0, 1} /\ d \in Nat /\ d >= 1
  OBVIOUS
<1>3. /\ rest1 \in Nat /\ rest1 < P /\ rest = b * P + rest1
      /\ (2 * x) % (2 * H) = rest1 * (2 * K) + 2 * quo
  BY <1>1, ShiftsOut
<1>4. quo * d \in Nat /\ quo * d + rem < H /\ K <= H
  <2>1. 1 * K <= P * K
    BY Grows
  <2>2. quo * d \in Nat
    BY <1>1, <1>2
  <2> QED
    BY <1>1, <2>1, <2>2
<1>5. rem2 = 2 * rem + b
  <2>1. 2 * rem \in 0 .. 2 * H - 1 /\ 2 * rem + b \in 0 .. 2 * H - 1 /\ 2 * H \in Nat /\ 2 * H > 0
    BY <1>2, <1>4
  <2>2. (2 * rem) % (2 * H) = 2 * rem
    <3> DEFINE m == 2 * H
               y == 2 * rem
    <3>1. m \in Nat /\ m > 0 /\ y \in 0 .. m - 1 /\ y \in Int /\ y = 0 * m + y
      BY <2>1
    <3> HIDE DEF m, y
    <3>2. y % m = y
      BY <3>1, DivisionIs
    <3> QED
      BY <3>2 DEF m, y
  <2>3. (2 * rem + b) % (2 * H) = 2 * rem + b
    <3> DEFINE m == 2 * H
               y == 2 * rem + b
    <3>1. m \in Nat /\ m > 0 /\ y \in 0 .. m - 1 /\ y \in Int /\ y = 0 * m + y
      BY <2>1
    <3> HIDE DEF m, y
    <3>2. y % m = y
      BY <3>1, DivisionIs
    <3> QED
      BY <3>2 DEF m, y
  <2> QED
    BY <2>2, <2>3
<1>6. rem3 = 2 * rem + b - f * d /\ rem3 \in Nat /\ rem3 < d
  <2>1. CASE rem2 >= d
    <3> DEFINE m == 2 * H
               y == rem2 - d
    <3>1. m \in Nat /\ m > 0 /\ y \in 0 .. m - 1 /\ y \in Int /\ y = 0 * m + y /\ y < d
      BY <1>1, <1>2, <1>4, <1>5, <2>1
    <3> HIDE DEF m, y
    <3>2. y % m = y
      BY <3>1, DivisionIs
    <3>3. rem3 = rem2 - d /\ f = 1
      BY <2>1, <3>2 DEF m, y
    <3>4. rem2 - d \in Nat /\ rem2 - d < d
      BY <3>1 DEF y
    <3> QED
      BY <1>2, <1>5, <3>3, <3>4
  <2>2. CASE ~(rem2 >= d)
    BY <1>1, <1>2, <1>5, <2>2
  <2> QED
    BY <2>1, <2>2
<1>7. x2 = rest1 * (2 * K) + quo1 /\ quo1 \in Nat /\ quo1 < 2 * K
  <2>1. rest1 * (2 * K) <= (P - 1) * (2 * K)
    BY <1>3, Grows
  <2>2. (P - 1) * (2 * K) = 2 * (P * K) - 2 * K
    OBVIOUS
  <2>3. quo1 \in Nat /\ quo1 < 2 * K
    BY <1>1, <1>2
  <2> DEFINE m == 2 * H
             y == rest1 * (2 * K) + quo1
  <2>4. rest1 * (2 * K) \in Nat
    BY <1>3
  <2>5. m \in Nat /\ m > 0 /\ y \in 0 .. m - 1 /\ y \in Int /\ y = 0 * m + y
    BY <1>4, <2>1, <2>2, <2>3, <2>4
  <2>6. x2 = y % m
    BY <1>2, <1>3, <2>4
  <2> HIDE DEF m, y
  <2>7. y % m = y
    BY <2>5, DivisionIs
  <2> QED
    BY <2>3, <2>6, <2>7 DEF y
<1>8. quo1 * d + rem3 = 2 * (quo * d + rem) + b
  <2>1. (2 * quo + f) * d = 2 * (quo * d) + f * d
    BY <1>2
  <2>2. f * d \in Nat
    BY <1>2
  <2> QED
    BY <1>2, <1>4, <1>6, <2>1, <2>2
<1>9. quo1 * d + rem3 < 2 * K
  BY <1>1, <1>2, <1>4, <1>8
<1>10. dividend = (quo1 * d + rem3) * P + rest1
  <2> DEFINE t == quo * d + rem
  <2>1. t \in Nat /\ dividend = t * (2 * P) + rest
    BY <1>1, <1>4
  <2> HIDE DEF t
  <2>2. (2 * t + b) * P = t * (2 * P) + b * P
    BY <1>2, <2>1
  <2>3. t * (2 * P) \in Nat /\ b * P \in Nat
    BY <1>2, <2>1
  <2>4. dividend = (2 * t + b) * P + rest1
    BY <1>3, <2>1, <2>2, <2>3
  <2> QED
    BY <1>8, <2>4 DEF t
<1> QED
  <2> HIDE DEF rest1, quo1
  <2> QED
    BY <1>3, <1>6, <1>7, <1>9, <1>10 DEF DivisionIn

\* What is less than the modulus, and a multiple of it added.
LEMMA Remains == ASSUME NEW d \in Nat, NEW x \in 0 .. d - 1 PROVE x % d = x /\ x \div d = 0
<1>1. d > 0 /\ x \in Int /\ x = 0 * d + x
  OBVIOUS
<1> QED
  BY <1>1, DivisionIs
LEMMA Around == ASSUME NEW d \in Nat, d > 0, NEW x \in Int PROVE (x + d) % d = x % d
<1> DEFINE q == x \div d
           y == x % d
           u == x + d
           v == q + 1
<1>1. q \in Int /\ y \in 0 .. d - 1 /\ x = d * q + y
  OBVIOUS
<1>2. u \in Int /\ v \in Int /\ u = v * d + y
  <2> HIDE DEF q, y
  <2> QED
    BY <1>1
<1> HIDE DEF u, v, y
<1>3. u % d = y
  BY <1>1, <1>2, DivisionIs
<1> QED
  BY <1>3 DEF u, y

\* The same with nothing below.
LEMMA AllShiftsOut ==
  ASSUME NEW P \in Nat, P >= 1, NEW K \in Nat, K >= 1, NEW up \in Nat, up < 2 * P
  PROVE  /\ up >= P <=> up * K >= P * K
         /\ up >= P => (2 * (up * K)) % (2 * (P * K)) = (up - P) * (2 * K)
         /\ up < P => (2 * (up * K)) % (2 * (P * K)) = up * (2 * K)
<1> DEFINE H == P * K
<1>0. H \in Nat /\ P * K = H
  OBVIOUS
<1> DEFINE low == 0
           x == up * K
<1>1. low \in Nat /\ low < K /\ x = up * K + low /\ 2 * low = 0
  OBVIOUS
<1>2. x = up * K
  OBVIOUS
<1> HIDE DEF low, x, H
<1>3. /\ up >= P <=> x >= H
      /\ up >= P => (2 * x) % (2 * H) = (up - P) * (2 * K) + 2 * low
      /\ up < P => (2 * x) % (2 * H) = up * (2 * K) + 2 * low
  BY <1>0, <1>1, ShiftsOut
<1>4. (up - P) * (2 * K) \in Int /\ up * (2 * K) \in Int
  OBVIOUS
<1> QED
  BY <1>0, <1>1, <1>2, <1>3, <1>4

\* Carries may be dropped at once or at the end, in adding and in doubling.
LEMMA Adding ==
  ASSUME NEW d \in Nat, d > 0, NEW x \in Int, NEW z \in Int
  PROVE  ((x % d) + z) % d = (x + z) % d
<1>1. (1 * (x % d) + z) % d = (1 * x + z) % d
  BY Congruent
<1>2. x % d \in Int
  OBVIOUS
<1>3. 1 * (x % d) = x % d /\ 1 * x = x
  BY <1>2
<1> QED
  BY <1>1, <1>3
LEMMA Doubling ==
  ASSUME NEW d \in Nat, d > 0, NEW w \in Int, NEW z \in Int
  PROVE  (((2 * (w % d)) % d) + z) % d = (2 * w + z) % d
<1> DEFINE v == 2 * (w % d)
<1>1. v \in Int
  OBVIOUS
<1>2. ((v % d) + z) % d = (v + z) % d
  BY <1>1, Adding, Zenon
<1>3. (2 * (w % d) + z) % d = (2 * w + z) % d
  <2>1. 2 \in Int
    OBVIOUS
  <2> QED
    BY <2>1, Congruent, Zenon
<1> QED
  BY <1>2, <1>3

\* The multiplication from the top bit of the multiplier m down: up are the bits of m that
\* have been used, down the others.
LowIn(m, a, x, y, P, K, S) ==
    \E up, down \in Nat :
        /\ down < P /\ m = up * P + down /\ x = down * K /\ y = (a * up) % S

\* The multiplication loop keeps it.
LEMMA LowTurn ==
  ASSUME NEW P \in Nat, P >= 1, NEW K \in Nat, K >= 1, NEW H \in Nat, P * K = H,
         NEW m \in Nat, NEW a \in Nat, NEW x \in Nat, NEW y \in Nat,
         LowIn(m, a, x, y, 2 * P, K, 2 * H),
         NEW x2, x2 = (2 * x) % (2 * H),
         NEW y2, y2 = (((2 * y) % (2 * H)) + (IF x >= H THEN a ELSE 0)) % (2 * H)
  PROVE  LowIn(m, a, x2, y2, P, 2 * K, 2 * H)
<1>1. PICK up \in Nat, down \in Nat :
        /\ down < 2 * P /\ m = up * (2 * P) + down /\ x = down * K /\ y = (a * up) % (2 * H)
  BY DEF LowIn
<1> DEFINE b == IF x >= H THEN 1 ELSE 0
           down1 == IF down >= P THEN down - P ELSE down
           up1 == 2 * up + b
           S == 2 * H
<1>2. /\ b \in {0, 1} /\ down1 \in Nat /\ down1 < P /\ down = b * P + down1
      /\ x2 = down1 * (2 * K)
  <2>1. /\ down >= P <=> down * K >= P * K
        /\ down >= P => (2 * (down * K)) % (2 * (P * K)) = (down - P) * (2 * K)
        /\ down < P => (2 * (down * K)) % (2 * (P * K)) = down * (2 * K)
    <3>1. P \in Nat /\ P >= 1 /\ K \in Nat /\ K >= 1 /\ down \in Nat /\ down < 2 * P
      BY <1>1
    <3>2. \A u \in Nat : u < 2 * P =>
             /\ u >= P <=> u * K >= P * K
             /\ u >= P => (2 * (u * K)) % (2 * (P * K)) = (u - P) * (2 * K)
             /\ u < P => (2 * (u * K)) % (2 * (P * K)) = u * (2 * K)
      BY <3>1, AllShiftsOut, Zenon
    <3> QED
      BY <3>1, <3>2, Zenon
  <2> QED
    BY <1>1, <2>1
<1>3. m = up1 * P + down1
  <2>1. (2 * up + b) * P = up * (2 * P) + b * P
    BY <1>2
  <2>2. up * (2 * P) \in Nat /\ b * P \in Nat
    BY <1>2
  <2> QED
    BY <1>1, <1>2, <2>1, <2>2
<1>4. y2 = (a * up1) % S
  <2>1. S \in Nat /\ S > 0
    <3>1. 1 * K <= P * K
      BY Grows
    <3> QED
      BY <3>1
  <2> DEFINE z == b * a
             w == a * up
  <2>2. z \in Int /\ w \in Int /\ z = IF x >= H THEN a ELSE 0
    OBVIOUS
  <2>3. y2 = (((2 * y) % S) + z) % S /\ y = w % S
    BY <1>1, <2>2
  <2>4. a * up1 = 2 * w + z
    BY <1>2
  <2> HIDE DEF S, z, w, up1
  <2>5. (((2 * (w % S)) % S) + z) % S = (2 * w + z) % S
    BY <2>1, <2>2, Doubling, Zenon
  <2> QED
    BY <2>3, <2>4, <2>5
<1> HIDE DEF down1, up1
<1>5. up1 \in Nat
  BY <1>2 DEF up1
<1> QED
  BY <1>2, <1>3, <1>4, <1>5 DEF LowIn

\* The multiplication from the lowest bit of the multiplier m up: x are the bits that have
\* not been used, used the others; the product of those is h above some bits that have left.
HighIn(m, a, x, h, K) ==
    \E used, left \in Nat :
        /\ used < K /\ left < K /\ m = x * K + used /\ a * used = h * K + left

\* The sum of one turn and its carry.
Summed(a, x, h, H) == IF x % 2 = 1 THEN (h + a) % (2 * H) ELSE h
Carried(a, x, h, H) == IF x % 2 = 1 /\ Summed(a, x, h, H) < a THEN H ELSE 0

\* The multiplication loop keeps it.
LEMMA HighTurn ==
  ASSUME NEW K \in Nat, K >= 1, NEW H \in Nat, H >= 1,
         NEW m \in Nat, NEW a \in 0 .. 2 * H - 1, NEW x \in Nat, NEW h \in 0 .. 2 * H - 1,
         HighIn(m, a, x, h, K)
  PROVE  /\ HighIn(m, a, x \div 2, Summed(a, x, h, H) \div 2 + Carried(a, x, h, H), 2 * K)
         /\ Summed(a, x, h, H) \div 2 + Carried(a, x, h, H) \in 0 .. 2 * H - 1
<1> DEFINE sum == Summed(a, x, h, H)
           c == Carried(a, x, h, H)
<1>0. /\ sum = (IF x % 2 = 1 THEN (h + a) % (2 * H) ELSE h)
      /\ c = (IF x % 2 = 1 /\ sum < a THEN H ELSE 0)
  BY DEF Summed, Carried
<1> HIDE DEF sum, c
<1> USE <1>0
<1>1. PICK used \in Nat, left \in Nat :
        used < K /\ left < K /\ m = x * K + used /\ a * used = h * K + left
  BY DEF HighIn
<1> DEFINE b == x % 2
           x1 == x \div 2
           full == h + b * a
           h1 == full \div 2
           e == full % 2
<1>2. b \in {0, 1} /\ x1 \in Nat /\ x = 2 * x1 + b
  OBVIOUS
<1>3. full \in Nat /\ full < 4 * H
  <2>1. b * a \in Nat /\ b * a < 2 * H
    BY <1>2
  <2> HIDE DEF b
  <2> QED
    BY <2>1
<1>4. e \in {0, 1} /\ h1 \in Nat /\ full = 2 * h1 + e /\ h1 < 2 * H
  <2> HIDE DEF full
  <2> QED
    BY <1>3
<1>5. sum \div 2 + c = h1
  <2>1. CASE b = 1 /\ full >= 2 * H
    <3> DEFINE s == full - 2 * H
    <3>1. s \in 0 .. 2 * H - 1 /\ s < a /\ full = h + a
      BY <1>3, <2>1
    <3>2. s = 2 * (h1 - H) + e
      BY <1>4
    <3>3. sum = s
      <4> DEFINE d == 2 * H
                 z == h + a
      <4>1. d \in Nat /\ d > 0 /\ z \in Int /\ z = 1 * d + s /\ s \in 0 .. d - 1
        BY <3>1
      <4>2. sum = z % d
        BY <2>1
      <4> HIDE DEF d, z, s
      <4> QED
        BY <4>1, <4>2, DivisionIs
    <3>4. c = H
      BY <2>1, <3>1, <3>3
    <3>5. s \div 2 = h1 - H
      <4>1. s = (h1 - H) * 2 + e /\ h1 - H \in Int /\ e \in 0 .. 2 - 1 /\ s \in Int
        BY <1>4, <3>1, <3>2
      <4> HIDE DEF s, h1, e
      <4> QED
        BY <4>1, DivisionIs
    <3> HIDE DEF s, h1
    <3> QED
      BY <1>4, <3>3, <3>4, <3>5
  <2>2. CASE ~(b = 1 /\ full >= 2 * H)
    <3>1. sum = full /\ c = 0
      <4>1. CASE b = 1
        <5> DEFINE d == 2 * H
                   z == h + a
        <5>1. z = full /\ d \in Nat /\ z \in 0 .. d - 1 /\ z >= a
          BY <1>3, <2>2, <4>1
        <5>2. sum = z % d
          BY <4>1
        <5> HIDE DEF d, z
        <5>3. sum = z
          BY <5>1, <5>2, Remains
        <5> HIDE DEF full
        <5> QED
          BY <5>1, <5>3, <1>3
      <4>2. CASE b = 0
        BY <4>2
      <4> QED
        BY <1>2, <4>1, <4>2
    <3> HIDE DEF full
    <3> QED
      BY <1>3, <1>4, <3>1
  <2> QED
    BY <2>1, <2>2
<1> HIDE DEF b, x1, h1, e
<1> DEFINE used1 == used + b * K
           left1 == e * K + left
<1>6. used1 \in Nat /\ used1 < 2 * K /\ left1 \in Nat /\ left1 < 2 * K
  BY <1>1, <1>2, <1>4
<1>7. m = x1 * (2 * K) + used1
  <2>1. (2 * x1 + b) * K = x1 * (2 * K) + b * K
    BY <1>2
  <2>2. x1 * (2 * K) \in Nat /\ b * K \in Nat
    BY <1>2
  <2> QED
    BY <1>1, <1>2, <2>1, <2>2
<1>8. a * used1 = h1 * (2 * K) + left1
  <2>1. a * (used + b * K) = a * used + (b * a) * K
    BY <1>2
  <2>2. (h + b * a) * K = h * K + (b * a) * K
    BY <1>2
  <2>3. (2 * h1 + e) * K = h1 * (2 * K) + e * K
    BY <1>4
  <2>4. /\ a * used \in Nat /\ (b * a) * K \in Nat /\ h * K \in Nat /\ h1 * (2 * K) \in Nat
        /\ e * K \in Nat /\ full * K = (2 * h1 + e) * K
    BY <1>2, <1>4
  <2> QED
    BY <1>1, <2>1, <2>2, <2>3, <2>4
<1> HIDE DEF used1, left1
<1>9. HighIn(m, a, x1, h1, 2 * K)
  BY <1>6, <1>7, <1>8 DEF HighIn
<1> QED
  BY <1>4, <1>5, <1>9 DEF x1, sum, c

\* The end of the loops: every bit has been used.
LEMMA LowEnds ==
  ASSUME NEW S \in Nat, NEW m \in Nat, NEW a \in Nat, NEW x, NEW y, LowIn(m, a, x, y, 1, S, S)
  PROVE  y = (a * m) % S
<1>1. PICK up \in Nat, down \in Nat :
        down < 1 /\ m = up * 1 + down /\ y = (a * up) % S
  BY DEF LowIn
<1>2. up = m
  BY <1>1
<1> QED
  BY <1>1, <1>2
LEMMA HighEnds ==
  ASSUME NEW S \in Nat, S > 0, NEW m \in 0 .. S - 1, NEW a \in Nat, NEW x \in Nat, NEW h \in Nat,
         HighIn(m, a, x, h, S)
  PROVE  \E left \in 0 .. S - 1 : a * m = h * S + left
<1>1. PICK used \in Nat, left \in Nat :
        used < S /\ left < S /\ m = x * S + used /\ a * used = h * S + left
  BY DEF HighIn
<1>2. x = 0
  <2>1. CASE x >= 1
    <3>1. 1 * S <= x * S
      BY <2>1, Grows
    <3>2. x * S \in Nat
      OBVIOUS
    <3> QED
      BY <1>1, <3>1, <3>2
  <2> QED
    BY <2>1
<1>3. used = m
  BY <1>1, <1>2
<1> QED
  BY <1>1, <1>3
LEMMA DivisionEnds ==
  ASSUME NEW S \in Nat, NEW dividend \in Nat, NEW d \in Nat, d > 0, NEW x, NEW rem,
         rem \in Nat, DivisionIn(dividend, d, x, rem, 1, S)
  PROVE  x = dividend \div d
<1>1. PICK rest \in Nat, quo \in Nat :
        /\ rest < 1 /\ x = rest * S + quo /\ rem < d
        /\ dividend = (quo * d + rem) * 1 + rest
  BY DEF DivisionIn
<1>2. rest = 0 /\ x = quo
  BY <1>1
<1>3. dividend = quo * d + rem /\ rem \in 0 .. d - 1
  <2>1. quo * d \in Nat
    OBVIOUS
  <2> QED
    BY <1>1, <1>2, <2>1
<1>4. dividend \div d = quo
  BY <1>3, DivisionIs
<1> QED
  BY <1>2, <1>4

\* The signed products, from the upper half h of the unsigned one.
SignedBy(a, m, h) == IF Negative(a) THEN Minus(h, m) ELSE h
SignedTwice(a, m, h) == IF Negative(m) THEN Minus(SignedBy(a, m, h), a) ELSE SignedBy(a, m, h)
LEMMA SignedProducts ==
  ASSUME MulDivAssumption, NEW a \in WordValue, NEW m \in WordValue, NEW h \in WordValue,
         \E left \in WordValue : a * m = h * Size + left
  PROVE  /\ (a * m) \div Size = h
         /\ ((SignedWord(a) * m) \div Size) % Size = SignedBy(a, m, h)
         /\ ((SignedWord(a) * SignedWord(m)) \div Size) % Size = SignedTwice(a, m, h)
<1> DEFINE S == Size
           H == Half
           sa == SignedWord(a)
           sm == SignedWord(m)
           su == SignedBy(a, m, h)
           ss == SignedTwice(a, m, h)
<1>a. /\ H \in Nat /\ H >= 1 /\ S = 2 * H
      /\ a \in 0 .. S - 1 /\ m \in 0 .. S - 1 /\ h \in 0 .. S - 1
      /\ sa = (IF a >= H THEN a - S ELSE a)
      /\ sm = (IF m >= H THEN m - S ELSE m)
      /\ su = (IF a >= H THEN (h - m) % S ELSE h)
      /\ ss = (IF m >= H THEN (su - a) % S ELSE su)
  BY Sizes DEF WordValue, SignedWord, Negative, SignedBy, SignedTwice, Minus
<1>b. PICK left \in 0 .. S - 1 : a * m = h * S + left
  BY DEF WordValue
<1> HIDE DEF S, H, sa, sm, su, ss
<1> USE <1>a, <1>b
<1>0. S \in Nat /\ S > 0 /\ sa \in Int /\ sm \in Int
  OBVIOUS
<1> DEFINE hu == IF a >= H THEN h - m ELSE h
           hs == IF m >= H THEN hu - sa ELSE hu
<1>1. hu \in Int /\ hs \in Int
  BY <1>0
<1>2. (a * m) \div S = h
  <2> DEFINE z == a * m
  <2>1. z \in Int /\ z = h * S + left /\ h \in Int
    OBVIOUS
  <2> HIDE DEF z
  <2>2. z \div S = h
    BY <1>0, <2>1, DivisionIs
  <2> QED
    BY <2>2 DEF z
<1>3. sa * m = hu * S + left
  <2>1. CASE a >= H
    <3>1. (a - S) * m = a * m - S * m /\ (h - m) * S = h * S - S * m
      BY <1>0
    <3>2. a * m \in Int /\ S * m \in Int /\ h * S \in Int
      BY <1>0
    <3> QED
      BY <2>1, <3>1, <3>2
  <2>2. CASE ~(a >= H)
    BY <2>2
  <2> QED
    BY <2>1, <2>2
<1>4. sa * sm = hs * S + left
  <2>1. CASE m >= H
    <3>1. sa * (m - S) = sa * m - sa * S /\ (hu - sa) * S = hu * S - sa * S
      <4> HIDE DEF hu
      <4> QED
        BY <1>0, <1>1
    <3>2. sa * m \in Int /\ sa * S \in Int /\ hu * S \in Int
      BY <1>0, <1>1
    <3> HIDE DEF hu
    <3> QED
      BY <1>3, <2>1, <3>1, <3>2
  <2>2. CASE ~(m >= H)
    BY <1>3, <2>2
  <2> QED
    BY <2>1, <2>2
<1>5. (sa * m) \div S = hu
  <2> DEFINE z == sa * m
  <2>1. z \in Int /\ z = hu * S + left
    BY <1>0, <1>3
  <2> HIDE DEF z, hu
  <2>2. z \div S = hu
    BY <1>0, <1>1, <2>1, DivisionIs
  <2> QED
    BY <2>2 DEF z
<1>6. (sa * sm) \div S = hs
  <2> DEFINE z == sa * sm
  <2>1. z \in Int /\ z = hs * S + left
    BY <1>0, <1>4
  <2> HIDE DEF z, hs
  <2>2. z \div S = hs
    BY <1>0, <1>1, <2>1, DivisionIs
  <2> QED
    BY <2>2 DEF z
<1>7. hu % S = su
  <2>1. CASE a >= H
    BY <2>1
  <2>2. CASE ~(a >= H)
    <3>1. h % S = h
      BY <1>0, Remains
    <3> QED
      BY <2>2, <3>1
  <2> QED
    BY <2>1, <2>2
<1>8. hs % S = ss
  <2>1. CASE m >= H
    <3>1. (su - a) % S = (hu - a) % S
      <4> DEFINE y == -a
      <4>1. y \in Int
        OBVIOUS
      <4>2. ((hu % S) + y) % S = (hu + y) % S
        <5> HIDE DEF y, hu
        <5> QED
          BY <1>0, <1>1, <4>1, Adding, Zenon
      <4>3. su \in Int /\ su + y = su - a /\ hu + y = hu - a
        <5> HIDE DEF hu
        <5> QED
          BY <1>0, <1>1, <1>7
      <4> HIDE DEF y, hu
      <4> QED
        BY <1>7, <4>2, <4>3
    <3>2. (hu - sa) % S = (hu - a) % S
      <4>1. CASE a >= H
        <5> DEFINE z == hu - a
        <5>1. z \in Int /\ hu - sa = z + S
          BY <1>0, <1>1, <4>1
        <5> HIDE DEF z, hu
        <5>2. (z + S) % S = z % S
          BY <1>0, <5>1, Around
        <5> QED
          BY <5>1, <5>2 DEF z
      <4>2. CASE ~(a >= H)
        BY <4>2
      <4> QED
        BY <4>1, <4>2
    <3> HIDE DEF hu
    <3> QED
      BY <2>1, <3>1, <3>2
  <2>2. CASE ~(m >= H)
    BY <1>7, <2>2
  <2> QED
    BY <2>1, <2>2
<1> HIDE DEF hu, hs
<1> QED
  BY <1>2, <1>5, <1>6, <1>7, <1>8 DEF S, sa, sm, su, ss

\* The magnitude of a word that is negative.
LEMMA Magnitudes ==
  ASSUME NEW H \in Nat, H >= 1, NEW S, S = 2 * H, NEW a \in 0 .. S - 1, a >= H
  PROVE  (0 - a) % S = S - a
<1> DEFINE z == 0 - a
           y == S - a
           q == -1
<1>1. S \in Nat /\ S > 0 /\ z \in Int /\ q \in Int /\ y \in 0 .. S - 1 /\ z = q * S + y
  OBVIOUS
<1>2. z % S = y
  <2> HIDE DEF z, y, q
  <2> QED
    BY <1>1, DivisionIs
<1> QED
  BY <1>2

\* The stack pointer, moved down twice and up again.
LEMMA StackReturns ==
  ASSUME NEW S \in Nat, S > 0, NEW p \in 0 .. S - 1
  PROVE  /\ (((((p - 76) % S) - 60) % S) + 136) % S = p
         /\ (((((p - 76) % S) - 60) % S) + 60) % S = (p - 76) % S
<1> DEFINE u == p - 76
           v == (u % S) - 60
<1>1. u \in Int /\ v \in Int
  OBVIOUS
<1>2. \A x, y \in Int : ((x % S) + y) % S = (x + y) % S
  BY Adding, Zenon
<1>3. ((v % S) + 136) % S = (v + 136) % S /\ ((v % S) + 60) % S = (v + 60) % S
  <2> HIDE DEF v
  <2> QED
    BY <1>1, <1>2
<1>4. v + 136 = (u % S) + 76 /\ v + 60 = u % S
  <2> HIDE DEF u
  <2> QED
    BY <1>1
<1>5. ((u % S) + 76) % S = (u + 76) % S
  <2> HIDE DEF u
  <2> QED
    BY <1>1, <1>2
<1>6. u + 76 = p /\ p % S = p /\ (u % S) % S = u % S
  <2>1. p % S = p
    BY Remains
  <2>2. u + 76 = p
    OBVIOUS
  <2>3. (u % S) % S = u % S
    <3> DEFINE w == u % S
    <3> HIDE DEF u
    <3>1. w \in 0 .. S - 1
      BY <1>1
    <3> HIDE DEF w
    <3>2. w % S = w
      BY <3>1, Remains
    <3> QED
      BY <3>2 DEF w
  <2> HIDE DEF u
  <2> QED
    BY <2>1, <2>2, <2>3
<1> HIDE DEF v
<1>7. ((v % S) + 136) % S = p
  <2> HIDE DEF u
  <2> QED
    BY <1>3, <1>4, <1>5, <1>6
<1>8. ((v % S) + 60) % S = u % S
  <2> HIDE DEF u
  <2> QED
    BY <1>3, <1>4, <1>5, <1>6
<1> QED
  BY <1>7, <1>8 DEF v

-----------------------------------------------------------------------------
(* The emulation.                                                          *)

\* The restrictions of the source, and no others: et is not read, sp and ea are not
\* written, and the breakpoint registers bt (25) and ba (30) are neither read nor written.
Allowed == /\ Sources \subseteq Registers \ {ET, 25, 30}
           /\ Destinations \subseteq Registers \ {SP, EA, 25, 30}

First == Operand(insn.A)
Magnitude(x) == IF insn.op = "div" /\ Negative(x) THEN Minus(0, x) ELSE x
Saved == 0 .. 23 \cup {GP, SP, FP, EA, RA}
Restored == 1 .. 23 \cup {FP, RA}
Untouched == {0, 24, 25, 26, 28, 29, 30}
Dividing == {"divide", "divide_loop", "quotient"}
Multiplying == {"multiply_loop", "product"}

Asked == /\ insn \in Instructions /\ before \in [Registers -> WordValue] /\ before[0] = 0
         /\ MulDivTypeOK
Entering == /\ place = "entry" => r = before
            /\ place = "soft" => /\ r = [before EXCEPT ![SP] = Minus(@, 76)]
                                 /\ \A i \in 1 .. 15 \cup {RA} : slot[i] = before[i]
OnStack == place \in Dividing \cup Multiplying \cup {"not_muldiv"} =>
             \A i \in Saved : slot[i] = Operand(i)
LeftAlone == place \in Dividing \cup Multiplying \cup {"exit", "not_muldiv"} =>
             /\ r[SP] = Minus(Minus(before[SP], 76), 60)
             /\ \A i \in Untouched : r[i] = before[i]
Foreign == place = "not_muldiv" => \A i \in 16 .. 30 \ {SP} : r[i] = before[i]
Divides == place \in Dividing => insn.op \in {"div", "divu"}
DivideBegins == place = "divide" => r[3] = First /\ r[6] = Second /\ r[14] = W
DivideGoesOn ==
    place \in {"divide_loop", "quotient"} =>
        /\ r[6] = Magnitude(Second)
        /\ r[17] = IF insn.op = "div" THEN Differ(First, Second) ELSE 0
DivideTurns ==
    place = "divide_loop" =>
        /\ r[14] \in 1 .. W
        /\ r[6] # 0 => DivisionIn(Magnitude(First), r[6], r[3], r[13],
                                  Pow[r[14]], Pow[W - r[14]])
DivideEnds ==
    place = "quotient" /\ r[6] # 0 => DivisionIn(Magnitude(First), r[6], r[3], r[13], 1, Size)
Multiplies == place \in Multiplying => insn.op \notin {"div", "divu", "other"}
                                       /\ r[3] = First /\ r[11] = Second
MultiplyTurns ==
    place = "multiply_loop" =>
        /\ r[14] \in 1 .. W
        /\ LowIn(Second, First, r[6], r[9], Pow[r[14]], Pow[W - r[14]], Size)
        /\ HighIn(Second, First, r[12], r[10], Pow[W - r[14]])
MultiplyEnds ==
    place = "product" =>
        /\ LowIn(Second, First, r[6], r[9], 1, Size, Size)
        /\ HighIn(Second, First, r[12], r[10], Size)
Leaving ==
    place = "exit" /\ Defined =>
        \A i \in Restored : slot[i] = IF i = Destination
                                      THEN Meaning(insn.op, First, Second) ELSE before[i]

EmulationInv ==
    Asked /\ Entering /\ OnStack /\ LeftAlone /\ Foreign /\ Divides /\ DivideBegins
    /\ DivideGoesOn /\ DivideTurns /\ DivideEnds /\ Multiplies /\ MultiplyTurns /\ MultiplyEnds
    /\ Leaving /\ ResultRight /\ PassesOn

\* The operations on words give words.
LEMMA Words ==
  ASSUME MulDivAssumption
  PROVE  /\ \A x, y \in WordValue : Plus(x, y) \in WordValue /\ Minus(x, y) \in WordValue
         /\ \A x \in WordValue : ShiftLeft(x) \in WordValue
         /\ \A x \in WordValue, i \in Nat : Minus(x, i) \in WordValue /\ Plus(x, i) \in WordValue
         /\ 0 \in WordValue /\ 1 \in WordValue /\ Half \in WordValue
<1>1. Size \in Nat /\ Half \in Nat /\ Half >= 2 /\ Size = 2 * Half
  BY Sizes
<1>2. \A z \in Int : z % Size \in WordValue
  <2> TAKE z \in Int
  <2> HIDE DEF Size
  <2>1. Size > 0
    BY <1>1
  <2> QED
    BY <1>1, <2>1 DEF WordValue
<1>3. \A x \in WordValue : x \in Int
  BY <1>1 DEF WordValue
<1>4. \A x, y \in WordValue : Plus(x, y) \in WordValue /\ Minus(x, y) \in WordValue
  <2>1. \A x, y \in WordValue : x + y \in Int /\ x - y \in Int
    BY <1>3
  <2> QED
    BY <1>2, <2>1 DEF Plus, Minus
<1>5. \A x \in WordValue : ShiftLeft(x) \in WordValue
  <2>1. \A x \in WordValue : 2 * x \in Int
    BY <1>3
  <2> QED
    BY <1>2, <2>1 DEF ShiftLeft
<1>6. \A x \in WordValue, i \in Nat : Minus(x, i) \in WordValue /\ Plus(x, i) \in WordValue
  <2>1. \A x \in WordValue, i \in Nat : x + i \in Int /\ x - i \in Int
    BY <1>3
  <2> QED
    BY <1>2, <2>1 DEF Plus, Minus
<1>7. 0 \in WordValue /\ 1 \in WordValue /\ Half \in WordValue
  BY <1>1 DEF WordValue
<1> QED
  BY <1>4, <1>5, <1>6, <1>7

\* What an instruction names.
LEMMA Named ==
  ASSUME MulDivAssumption, Allowed, insn \in Instructions,
         before \in [Registers -> WordValue], slot \in [Registers -> WordValue]
  PROVE  /\ insn.op \in Emulated \cup {"other"} /\ insn.A \in Saved /\ insn.imm \in WordValue
         /\ insn.op # "muli" => insn.B \in Saved
         /\ Destination \in 0 .. 23 \cup {ET, GP, FP, RA} /\ Destination \in Registers
         /\ First \in WordValue /\ Second \in WordValue
<1>1. 0 \in WordValue
  BY Words
<1>2. Immediates \subseteq WordValue
  BY DEF Immediates
<1>3. insn.op \in Emulated \cup {"other"} /\ insn.A \in Sources /\ insn.imm \in WordValue
  BY <1>1, <1>2 DEF Instructions, MulDivAssumption
<1>4. /\ insn.op # "muli" => insn.B \in Sources /\ insn.C \in Destinations
      /\ insn.op = "muli" => insn.B \in Destinations
  BY DEF Instructions
<1>5. Saved \subseteq Registers /\ 0 .. 23 \cup {ET, GP, FP, RA} \subseteq Registers
  BY DEF Saved, Registers, GP, SP, FP, EA, RA, ET
<1>6. insn.A \in Saved /\ (insn.op # "muli" => insn.B \in Saved)
  <2>1. \A i \in Registers \ {ET, 25, 30} : i \in Saved
    BY DEF Saved, Registers, GP, SP, FP, EA, RA, ET
  <2> QED
    BY <1>3, <1>4, <2>1 DEF Allowed
<1>7. Destination \in 0 .. 23 \cup {ET, GP, FP, RA}
  <2>1. \A i \in Registers \ {SP, EA, 25, 30} : i \in 0 .. 23 \cup {ET, GP, FP, RA}
    BY DEF Registers, GP, SP, FP, EA, RA, ET
  <2>2. Destination \in Destinations
    BY <1>4 DEF Destination
  <2> QED
    BY <2>1, <2>2 DEF Allowed
<1>8. First \in WordValue /\ Second \in WordValue
  <2>1. Minus(Minus(before[SP], 76), 60) \in WordValue
    <3>1. before[SP] \in WordValue
      BY DEF Registers, SP
    <3>2. Minus(before[SP], 76) \in WordValue
      BY <3>1, Words
    <3> QED
      BY <3>2, Words
  <2>2. slot[EA] \in WordValue
    BY DEF Registers, EA
  <2>3. \A i \in Saved : Operand(i) \in WordValue
    BY <1>5, <2>1, <2>2 DEF Operand
  <2> QED
    BY <1>3, <1>6, <2>3 DEF First, Second
<1> QED
  BY <1>3, <1>5, <1>6, <1>7, <1>8

LEMMA EmulationStarts == ASSUME MulDivAssumption, MulDivInit PROVE EmulationInv
<1>1. PICK a \in WordValue, b \in WordValue :
        r = [i \in Registers |-> CASE i = 0 -> 0
                                   [] i = insn.A /\ i # 0 -> a
                                   [] i = insn.B /\ i \notin {0, insn.A} -> b
                                   [] OTHER -> Content(i)]
  BY DEF MulDivInit
<1>2. Size \in Nat /\ Size >= 2 /\ 0 \in WordValue
  BY Sizes, Words
<1>3. \A i \in Registers : Content(i) \in WordValue
  <2> TAKE i \in Registers
  <2> DEFINE z == 7 * i
  <2>1. z \in Int
    BY DEF Registers
  <2> HIDE DEF z, Size
  <2>2. z % Size \in 0 .. Size - 1
    BY <1>2, <2>1
  <2> QED
    BY <2>2 DEF z, Content, WordValue
<1>4. 0 \in Registers
  BY DEF Registers
<1>5. r \in [Registers -> WordValue] /\ r[0] = 0
  BY <1>1, <1>2, <1>3, <1>4
<1>6. slot \in [Registers -> WordValue]
  BY <1>2 DEF MulDivInit
<1>7. Asked
  BY <1>5, <1>6 DEF MulDivInit, Asked, MulDivTypeOK, MulDivPlaces
<1>8. place = "entry" /\ r = before
  BY DEF MulDivInit
<1> QED
  BY <1>7, <1>8 DEF EmulationInv, Entering, OnStack, LeftAlone, Foreign, Divides, DivideBegins,
     DivideGoesOn, DivideTurns, DivideEnds, Multiplies, MultiplyTurns, MultiplyEnds, Leaving,
     ResultRight, PassesOn, Dividing, Multiplying

LEMMA EntryHolds ==
  ASSUME MulDivAssumption, EmulationInv, EntryCode PROVE EmulationInv'
<1>1. /\ place = "entry" /\ place' = "soft" /\ r = before
      /\ slot' = [i \in Registers |-> IF i \in 1 .. 15 \cup {RA} THEN r[i] ELSE slot[i]]
      /\ r' = [r EXCEPT ![SP] = Minus(@, 76)]
      /\ insn' = insn /\ before' = before
  BY DEF EntryCode, EmulationInv, Entering
<1>2. /\ insn \in Instructions /\ before \in [Registers -> WordValue] /\ before[0] = 0
      /\ r \in [Registers -> WordValue] /\ slot \in [Registers -> WordValue]
  BY DEF EmulationInv, Asked, MulDivTypeOK
<1>3. \A i \in 1 .. 15 \cup {RA} : i \in Registers
  BY DEF Registers, RA
<1>4. r' \in [Registers -> WordValue]
  <2>1. SP \in Registers
    BY DEF SP, Registers
  <2>2. Minus(r[SP], 76) \in WordValue
    BY <1>2, <2>1, Words
  <2> QED
    BY <1>1, <1>2, <2>2
<1>5. slot' \in [Registers -> WordValue]
  BY <1>1, <1>2
<1>6. Instructions' = Instructions /\ WordValue' = WordValue
  BY DEF Instructions, WordValue, Immediates, SignedWord, Negative, Size, Half
<1>7. Asked'
  BY <1>1, <1>2, <1>4, <1>5, <1>6 DEF Asked, MulDivTypeOK, MulDivPlaces
<1>8. Entering'
  BY <1>1, <1>3 DEF Entering, Minus, Size
<1> QED
  BY <1>1, <1>7, <1>8 DEF EmulationInv, OnStack, LeftAlone, Foreign, Divides, DivideBegins,
     DivideGoesOn, DivideTurns, DivideEnds, Multiplies, MultiplyTurns, MultiplyEnds, Leaving,
     ResultRight, PassesOn, Dividing, Multiplying

\* What an action keeps that changes neither the instruction nor the memory of the
\* registers, nor the word that stands for ea.
LEMMA SameQuestion ==
  ASSUME insn' = insn, before' = before, slot'[EA] = slot[EA]
  PROVE  /\ Instructions' = Instructions /\ WordValue' = WordValue /\ Registers' = Registers
         /\ First' = First /\ Second' = Second /\ Destination' = Destination
         /\ Defined' = Defined /\ Size' = Size /\ Half' = Half
         /\ Magnitude(First)' = Magnitude(First) /\ Magnitude(Second)' = Magnitude(Second)
         /\ \A i \in Saved : Operand(i)' = Operand(i)
<1>1. Size' = Size /\ Half' = Half /\ Registers' = Registers
  BY DEF Size, Half, Registers
<1>2. Instructions' = Instructions /\ WordValue' = WordValue
  BY DEF Instructions, WordValue, Immediates, SignedWord, Negative, Size, Half
<1>3. First' = First /\ Second' = Second /\ Destination' = Destination
  BY DEF First, Second, Destination, Operand, Minus, Size
<1>4. Defined' = Defined
  BY <1>3 DEF Defined, First, SignedWord, Negative, Size, Half
<1>5. Magnitude(First)' = Magnitude(First) /\ Magnitude(Second)' = Magnitude(Second)
  BY <1>3 DEF Magnitude, Minus, Negative, Size, Half
<1>6. \A i \in Saved : Operand(i)' = Operand(i)
  BY DEF Operand, Minus, Size
<1> QED
  BY <1>1, <1>2, <1>3, <1>4, <1>5, <1>6

LEMMA DecodeHolds ==
  ASSUME MulDivAssumption, Allowed, EmulationInv, Decode PROVE EmulationInv'
<1> DEFINE saved == [i \in Registers |-> CASE i = 0 -> 0
                                          [] i \in 16 .. 23 \cup {GP, FP} -> r[i]
                                          [] i = SP -> Minus(r[SP], 60)
                                          [] OTHER -> slot[i]]
           multiplier == IF insn.op = "muli" THEN insn.imm ELSE saved[insn.B]
<1>1. /\ place = "soft" /\ slot' = saved /\ insn' = insn /\ before' = before
      /\ \/ /\ insn.op = "other" /\ place' = "not_muldiv"
            /\ r' = [r EXCEPT ![SP] = Minus(@, 60), ![14] = W % Size]
         \/ /\ insn.op \in {"div", "divu"} /\ place' = "divide"
            /\ r' = [r EXCEPT ![SP] = Minus(@, 60), ![14] = W % Size,
                              ![3] = saved[insn.A], ![6] = saved[insn.B]]
         \/ /\ insn.op \notin {"div", "divu", "other"} /\ place' = "multiply_loop"
            /\ r' = [r EXCEPT ![SP] = Minus(@, 60), ![14] = W % Size,
                              ![3] = saved[insn.A], ![6] = multiplier,
                              ![9] = 0, ![10] = 0, ![11] = multiplier,
                              ![12] = multiplier, ![16] = 1]
  BY DEF Decode
<1>2. /\ insn \in Instructions /\ before \in [Registers -> WordValue] /\ before[0] = 0
      /\ r \in [Registers -> WordValue] /\ slot \in [Registers -> WordValue]
      /\ r = [before EXCEPT ![SP] = Minus(@, 76)]
      /\ \A i \in 1 .. 15 \cup {RA} : slot[i] = before[i]
  BY <1>1 DEF EmulationInv, Asked, Entering, MulDivTypeOK
<1>3. /\ insn.op \in Emulated \cup {"other"} /\ insn.A \in Saved /\ insn.imm \in WordValue
      /\ insn.op # "muli" => insn.B \in Saved
      /\ First \in WordValue /\ Second \in WordValue
  BY <1>2, Named
<1>4. \A i \in Registers :
        i \in Saved <=> i \in {0, SP, EA} \/ i \in 16 .. 23 \cup {GP, FP} \/ i \in 1 .. 15 \cup {RA}
  BY DEF Saved, Registers, GP, SP, FP, EA, RA
<1>5. /\ SP \in Registers /\ SP \notin 16 .. 23 \cup {GP, FP}
      /\ EA \in Registers /\ EA \notin 16 .. 23 \cup {GP, FP}
      /\ Saved \subseteq Registers
      /\ SP = 27 /\ GP = 26 /\ FP = 28 /\ EA = 29 /\ RA = 31
  BY DEF SP, EA, Registers, Saved, GP, FP, RA
<1>6. \A i \in Saved : saved[i] = Operand(i)
  <2> TAKE i \in Saved
  <2>1. CASE i = 0
    BY <1>2, <1>5, <2>1 DEF Operand
  <2>2. CASE i \in 16 .. 23 \cup {GP, FP}
    <3>1. i # 0 /\ i # SP /\ i # EA
      BY <1>5, <2>2
    <3>2. r[i] = before[i]
      BY <1>2, <1>5, <3>1
    <3> QED
      BY <1>5, <2>2, <3>1, <3>2 DEF Operand
  <2>3. CASE i \in 1 .. 15 \cup {RA}
    <3>1. i # 0 /\ i # SP /\ i # EA /\ i \notin 16 .. 23 \cup {GP, FP}
      BY <1>5, <2>3
    <3> QED
      BY <1>2, <1>5, <2>3, <3>1 DEF Operand
  <2>4. CASE i = SP
    BY <1>2, <1>5, <2>4 DEF Operand
  <2>5. CASE i = EA
    BY <1>5, <2>5 DEF Operand
  <2> QED
    BY <1>4, <1>5, <2>1, <2>2, <2>3, <2>4, <2>5
<1>7. r[SP] \in WordValue /\ Minus(r[SP], 60) \in WordValue /\ 0 \in WordValue /\ 1 \in WordValue
      /\ W % Size = W /\ W \in WordValue
  BY <1>2, <1>5, Words, Sizes
<1>8. saved \in [Registers -> WordValue] /\ saved[EA] = slot[EA]
  BY <1>2, <1>5, <1>7
<1>9. saved[insn.A] = First
  BY <1>3, <1>6 DEF First
<1>10. insn.op # "muli" => saved[insn.B] = Second
  BY <1>3, <1>6 DEF Second
<1>11. multiplier = Second
  BY <1>10 DEF Second
<1> HIDE DEF saved, multiplier
<1>12. /\ r' \in [Registers -> WordValue] /\ r'[SP] = Minus(Minus(before[SP], 76), 60)
       /\ \A i \in Registers \ ({3, 6, 9, 10, 11, 12, 14, 16, SP}) : r'[i] = before[i]
  <2>1. {3, 6, 9, 10, 11, 12, 14, 16, SP} \subseteq Registers
    BY <1>5 DEF Registers
  <2>2. \A i \in Registers \ {SP} : r[i] = before[i]
    BY <1>2
  <2>3. r[SP] = Minus(before[SP], 76)
    BY <1>2, <1>5
  <2> QED
    BY <1>1, <1>2, <1>3, <1>5, <1>7, <1>9, <1>10, <1>11, <2>1, <2>2, <2>3
<1>13. place' \in MulDivPlaces /\ place' \notin {"entry", "soft", "done", "unknown", "exit",
                                                 "divide_loop", "quotient", "product"}
  BY <1>1 DEF MulDivPlaces
<1>14. Asked'
  BY <1>1, <1>2, <1>8, <1>12, <1>13, SameQuestion DEF Asked, MulDivTypeOK, MulDivPlaces
<1>15. Entering'
  BY <1>13 DEF Entering
<1>16. OnStack'
  BY <1>1, <1>6, <1>8, SameQuestion DEF OnStack
<1>17. LeftAlone'
  <2>1. Minus(Minus(before[SP], 76), 60)' = Minus(Minus(before[SP], 76), 60)
    BY <1>1 DEF Minus, Size
  <2>2. Untouched \subseteq Registers \ ({3, 6, 9, 10, 11, 12, 14, 16, SP})
    BY <1>5 DEF Untouched, Registers
  <2> QED
    BY <1>1, <1>12, <2>1, <2>2 DEF LeftAlone, Untouched
<1>18. Foreign'
  <2>1. ASSUME place' = "not_muldiv" PROVE \A i \in 16 .. 30 \ {SP} : r'[i] = before[i]
    <3>1. r' = [r EXCEPT ![SP] = Minus(@, 60), ![14] = W % Size]
      BY <1>1, <2>1
    <3>2. \A i \in 16 .. 30 \ {SP} : i \in Registers /\ i # 14 /\ i # SP
      BY <1>5 DEF Registers
    <3> QED
      BY <1>2, <3>1, <3>2
  <2> QED
    BY <1>1, <2>1 DEF Foreign, SP
<1>19. Divides' /\ DivideGoesOn' /\ DivideTurns' /\ DivideEnds'
  BY <1>1, <1>13 DEF Divides, Dividing, DivideGoesOn, DivideTurns, DivideEnds
<1>20. {3, 6, 9, 10, 11, 12, 14, 16} \subseteq Registers
  BY DEF Registers
<1>21. DivideBegins'
  <2>1. ASSUME place' = "divide" PROVE r'[3] = First /\ r'[6] = Second /\ r'[14] = W
    <3>1. /\ r' = [r EXCEPT ![SP] = Minus(@, 60), ![14] = W % Size,
                            ![3] = saved[insn.A], ![6] = saved[insn.B]]
          /\ insn.op # "muli"
      BY <1>1, <2>1
    <3> QED
      BY <1>2, <1>5, <1>7, <1>9, <1>10, <1>20, <3>1
  <2> QED
    BY <1>1, <1>8, <2>1, SameQuestion DEF DivideBegins
<1>22. ASSUME place' \in Multiplying
       PROVE  /\ insn.op \notin {"div", "divu", "other"} /\ place' = "multiply_loop"
              /\ r'[3] = First /\ r'[11] = Second /\ r'[14] = W
              /\ r'[6] = Second /\ r'[9] = 0 /\ r'[12] = Second /\ r'[10] = 0
  <2>1. /\ insn.op \notin {"div", "divu", "other"} /\ place' = "multiply_loop"
        /\ r' = [r EXCEPT ![SP] = Minus(@, 60), ![14] = W % Size,
                          ![3] = saved[insn.A], ![6] = multiplier,
                          ![9] = 0, ![10] = 0, ![11] = multiplier,
                          ![12] = multiplier, ![16] = 1]
    BY <1>1, <1>22 DEF Multiplying
  <2> QED
    BY <1>2, <1>5, <1>7, <1>9, <1>11, <1>20, <2>1
<1>23. Multiplies' /\ MultiplyEnds'
  BY <1>1, <1>8, <1>13, <1>22, SameQuestion DEF Multiplies, MultiplyEnds
<1>24. MultiplyTurns'
  <2> SUFFICES ASSUME place' = "multiply_loop"
               PROVE  /\ r'[14] \in 1 .. W
                      /\ LowIn(Second, First, r'[6], r'[9], Pow[r'[14]], Pow[W - r'[14]], Size)
                      /\ HighIn(Second, First, r'[12], r'[10], Pow[W - r'[14]])
    BY <1>1, <1>8, SameQuestion DEF MultiplyTurns, LowIn, HighIn
  <2>1. /\ r'[14] = W /\ r'[6] = Second /\ r'[9] = 0 /\ r'[12] = Second /\ r'[10] = 0
    BY <1>22 DEF Multiplying
  <2>2. Pow[W] = Size /\ W - W = 0 /\ Pow[0] = 1 /\ W \in 1 .. W
    BY Powers DEF Size, MulDivAssumption
  <2>3. Size \in Nat /\ Size > 0 /\ First \in 0 .. Size - 1 /\ Second \in 0 .. Size - 1
    BY <1>3, Sizes DEF WordValue
  <2>4. LowIn(Second, First, Second, 0, Size, 1, Size)
    <3> DEFINE m == Second
               a == First
               S == Size
               up == 0
    <3>1. up \in Nat /\ m \in Nat /\ m < S /\ m = up * S + m /\ m = m * 1
      BY <2>3
    <3>2. a * up = 0
      BY <2>3
    <3>3. 0 % S = 0
      BY <2>3, Remains
    <3> HIDE DEF m, a, S, up
    <3>4. LowIn(m, a, m, 0, S, 1, S)
      BY <3>1, <3>2, <3>3 DEF LowIn
    <3> QED
      BY <3>4 DEF m, a, S
  <2>5. HighIn(Second, First, Second, 0, 1)
    <3> DEFINE m == Second
               a == First
               none == 0
    <3>1. none \in Nat /\ m \in Nat /\ a \in Nat /\ none < 1 /\ m = m * 1 + none
          /\ a * none = 0 * 1 + none
      BY <2>3
    <3> HIDE DEF m, a, none
    <3>2. HighIn(m, a, m, 0, 1)
      BY <3>1 DEF HighIn
    <3> QED
      BY <3>2 DEF m, a
  <2> QED
    BY <2>1, <2>2, <2>4, <2>5
<1>25. Leaving' /\ ResultRight' /\ PassesOn'
  BY <1>13 DEF Leaving, ResultRight, PassesOn
<1> QED
  BY <1>14, <1>15, <1>16, <1>17, <1>18, <1>19, <1>21, <1>23, <1>24, <1>25 DEF EmulationInv

\* The magnitude of an operand of a division is its absolute value.
LEMMA MagnitudeIs ==
  ASSUME MulDivAssumption, NEW x \in WordValue
  PROVE  /\ Magnitude(x) \in WordValue
         /\ x # 0 => Magnitude(x) # 0
         /\ insn.op # "div" => Magnitude(x) = x
         /\ insn.op = "div" => Magnitude(x) = (IF SignedWord(x) < 0 THEN -SignedWord(x)
                                               ELSE SignedWord(x))
         /\ SignedWord(x) < 0 <=> Negative(x)
         /\ SignedWord(x) \in Int
<1>1. Size \in Nat /\ Half \in Nat /\ Half >= 1 /\ Size = 2 * Half /\ x \in 0 .. Size - 1
  BY Sizes DEF WordValue
<1>2. Negative(x) => Minus(0, x) = Size - x
  BY <1>1, Magnitudes DEF Negative, Minus
<1>3. /\ Negative(x) => SignedWord(x) = x - Size /\ x - Size < 0 /\ Size - x \in 1 .. Size - 1
      /\ ~Negative(x) => SignedWord(x) = x /\ x >= 0
  BY <1>1 DEF SignedWord, Negative
<1> QED
  BY <1>1, <1>2, <1>3 DEF Magnitude, WordValue

LEMMA DivideHolds ==
  ASSUME MulDivAssumption, Allowed, EmulationInv, Divide PROVE EmulationInv'
<1>1. /\ place = "divide" /\ place' = "divide_loop" /\ insn' = insn /\ slot' = slot
      /\ before' = before
      /\ r' = IF insn.op = "div"
              THEN [r EXCEPT ![17] = Differ(r[3], r[6]), ![13] = 0,
                             ![3] = IF Negative(@) THEN Minus(0, @) ELSE @,
                             ![6] = IF Negative(@) THEN Minus(0, @) ELSE @]
              ELSE [r EXCEPT ![17] = 0, ![13] = 0]
  BY DEF Divide
<1>2. /\ insn \in Instructions /\ before \in [Registers -> WordValue] /\ before[0] = 0
      /\ r \in [Registers -> WordValue] /\ slot \in [Registers -> WordValue]
      /\ r[3] = First /\ r[6] = Second /\ r[14] = W /\ insn.op \in {"div", "divu"}
      /\ \A i \in Saved : slot[i] = Operand(i)
      /\ r[SP] = Minus(Minus(before[SP], 76), 60)
      /\ \A i \in Untouched : r[i] = before[i]
  BY <1>1 DEF EmulationInv, Asked, MulDivTypeOK, DivideBegins, OnStack, LeftAlone, Divides,
     Dividing
<1>3. First \in WordValue /\ Second \in WordValue
  BY <1>2, Named
<1>4. {3, 6, 13, 14, 17, SP} \subseteq Registers /\ SP = 27
  BY DEF Registers, SP
<1>5. /\ Magnitude(First) \in WordValue /\ Magnitude(Second) \in WordValue
      /\ 0 \in WordValue /\ Differ(First, Second) \in WordValue
  BY <1>3, MagnitudeIs, Words DEF Differ
<1>6. /\ r' = [r EXCEPT ![17] = IF insn.op = "div" THEN Differ(First, Second) ELSE 0,
                        ![13] = 0, ![3] = Magnitude(First), ![6] = Magnitude(Second)]
  <2>1. CASE insn.op = "div"
    BY <1>1, <1>2, <2>1 DEF Magnitude
  <2>2. CASE insn.op # "div"
    <3>1. Magnitude(First) = r[3] /\ Magnitude(Second) = r[6]
      BY <1>2, <2>2 DEF Magnitude
    <3>2. r' = [r EXCEPT ![17] = 0, ![13] = 0]
      BY <1>1, <2>2
    <3>3. r' = [r EXCEPT ![17] = 0, ![13] = 0, ![3] = r[3], ![6] = r[6]]
      <4> DEFINE new == [r EXCEPT ![17] = 0, ![13] = 0, ![3] = r[3], ![6] = r[6]]
      <4>1. r' = [i \in Registers |-> r'[i]] /\ new = [i \in Registers |-> new[i]]
        BY <1>2, <3>2
      <4>2. \A i \in Registers : r'[i] = new[i]
        BY <1>2, <1>4, <3>2
      <4> HIDE DEF new
      <4> QED
        BY <4>1, <4>2 DEF new
    <3> QED
      BY <2>2, <3>1, <3>3
  <2> QED
    BY <2>1, <2>2
<1>7. /\ r' \in [Registers -> WordValue]
      /\ r'[3] = Magnitude(First) /\ r'[6] = Magnitude(Second) /\ r'[13] = 0 /\ r'[14] = W
      /\ r'[17] = IF insn.op = "div" THEN Differ(First, Second) ELSE 0
      /\ \A i \in Registers \ {3, 6, 13, 17} : r'[i] = r[i]
  BY <1>2, <1>4, <1>5, <1>6
<1>8. Asked'
  BY <1>1, <1>2, <1>7, SameQuestion DEF Asked, MulDivTypeOK, MulDivPlaces
<1>9. LeftAlone'
  <2>1. Minus(Minus(before[SP], 76), 60)' = Minus(Minus(before[SP], 76), 60)
    BY <1>1 DEF Minus, Size
  <2>2. Untouched \subseteq Registers \ {3, 6, 13, 17} /\ SP \in Registers \ {3, 6, 13, 17}
    BY <1>4 DEF Untouched, Registers
  <2> QED
    BY <1>1, <1>2, <1>7, <2>1, <2>2 DEF LeftAlone, Untouched
<1>10. OnStack' /\ Divides'
  BY <1>1, <1>2, SameQuestion DEF OnStack, Divides
<1>11. DivideGoesOn'
  <2>1. Differ(First, Second)' = Differ(First, Second)
    BY <1>1, SameQuestion DEF Differ, Negative
  <2> QED
    BY <1>1, <1>7, <2>1, SameQuestion DEF DivideGoesOn
<1>12. DivideTurns'
  <2>1. W \in 1 .. W /\ W - W = 0 /\ Pow[W] = Size /\ Pow[0] = 1 /\ Size \in Nat
    BY Powers, Sizes DEF Size, MulDivAssumption
  <2>2. ASSUME Magnitude(Second) # 0
        PROVE  DivisionIn(Magnitude(First), Magnitude(Second), Magnitude(First), 0, Size, 1)
    <3> DEFINE q == Magnitude(First)
               d == Magnitude(Second)
               S == Size
               quo == 0
    <3>1. q \in Nat /\ q < S /\ d \in Nat /\ d > 0 /\ quo \in Nat /\ quo < 1
      BY <1>5, <2>1, <2>2 DEF WordValue
    <3>2. quo * d = 0
      BY <3>1
    <3> HIDE DEF q, d, S
    <3>3. q = q * 1 + quo /\ quo * d + 0 < 1 /\ q = (quo * d + 0) * S + q
      BY <3>1, <3>2, <2>1 DEF S
    <3> HIDE DEF quo
    <3>4. DivisionIn(q, d, q, 0, S, 1)
      BY <3>1, <3>3 DEF DivisionIn
    <3> QED
      BY <3>4 DEF q, d, S
  <2>3. DivisionIn(Magnitude(First), r[6], r[3], r[13], Pow[r[14]], Pow[W - r[14]])'
        <=> DivisionIn(Magnitude(First), r'[6], r'[3], r'[13], Pow[r'[14]], Pow[W - r'[14]])
    BY <1>1, SameQuestion DEF DivisionIn
  <2> QED
    BY <1>7, <2>1, <2>2, <2>3 DEF DivideTurns
<1> QED
  BY <1>1, <1>8, <1>9, <1>10, <1>11, <1>12 DEF EmulationInv, Entering, Foreign, DivideBegins,
     DivideEnds, Multiplies, MultiplyTurns, MultiplyEnds, Leaving, ResultRight, PassesOn,
     Multiplying

LEMMA DivideLoopHolds ==
  ASSUME MulDivAssumption, Allowed, EmulationInv, DivideLoop PROVE EmulationInv'
<1> DEFINE rem == Plus(ShiftLeft(r[13]), Bit(Negative(r[3])))
           fits == rem >= r[6]
           rem3 == IF fits THEN Minus(rem, r[6]) ELSE rem
           x2 == Plus(ShiftLeft(r[3]), Bit(fits))
           n == r[14]
<1>1. /\ place = "divide_loop" /\ insn' = insn /\ slot' = slot /\ before' = before
      /\ r' = [r EXCEPT ![13] = rem3, ![3] = x2, ![14] = @ - 1]
      /\ place' = IF r'[14] # 0 THEN "divide_loop" ELSE "quotient"
  BY DEF DivideLoop
<1>2. /\ insn \in Instructions /\ before \in [Registers -> WordValue] /\ before[0] = 0
      /\ r \in [Registers -> WordValue] /\ slot \in [Registers -> WordValue]
      /\ insn.op \in {"div", "divu"} /\ r[6] = Magnitude(Second)
      /\ r[17] = IF insn.op = "div" THEN Differ(First, Second) ELSE 0
      /\ n \in 1 .. W
      /\ r[6] # 0 => DivisionIn(Magnitude(First), r[6], r[3], r[13], Pow[n], Pow[W - n])
      /\ \A i \in Saved : slot[i] = Operand(i)
      /\ r[SP] = Minus(Minus(before[SP], 76), 60)
      /\ \A i \in Untouched : r[i] = before[i]
  BY <1>1 DEF EmulationInv, Asked, MulDivTypeOK, OnStack, LeftAlone, Divides, DivideGoesOn,
     DivideTurns, Dividing
<1>3. First \in WordValue /\ Second \in WordValue
  BY <1>2, Named
<1>4. {3, 6, 13, 14, 17, SP} \subseteq Registers /\ SP = 27
  BY DEF Registers, SP
<1>5. rem \in WordValue /\ rem3 \in WordValue /\ x2 \in WordValue
  <2>1. \A b \in BOOLEAN : Bit(b) \in {0, 1}
    BY DEF Bit
  <2>2. Bit(Negative(r[3])) \in {0, 1} /\ Bit(fits) \in {0, 1}
    BY <2>1 DEF Bit
  <2>3. r[13] \in WordValue /\ r[3] \in WordValue /\ r[6] \in WordValue
    BY <1>2, <1>4
  <2>4. rem \in WordValue
    BY <2>2, <2>3, Words
  <2>5. x2 \in WordValue
    BY <2>2, <2>3, Words
  <2>6. Minus(rem, r[6]) \in WordValue
    <3> HIDE DEF rem
    <3> QED
      BY <2>3, <2>4, Words
  <2> QED
    BY <2>4, <2>5, <2>6
<1> HIDE DEF rem3, x2
<1>6. n - 1 \in WordValue /\ n \in Nat /\ n - 1 \in 0 .. W - 1 /\ n \in 0 .. W /\ W \in Nat
  BY <1>2, Sizes, Powers DEF WordValue
<1>7. /\ r' \in [Registers -> WordValue]
      /\ r'[3] = x2 /\ r'[13] = rem3 /\ r'[14] = n - 1
      /\ \A i \in Registers \ {3, 13, 14} : r'[i] = r[i]
  BY <1>1, <1>2, <1>4, <1>5, <1>6
<1>8. Asked'
  BY <1>1, <1>2, <1>7, SameQuestion DEF Asked, MulDivTypeOK, MulDivPlaces
<1>9. LeftAlone'
  <2>1. Minus(Minus(before[SP], 76), 60)' = Minus(Minus(before[SP], 76), 60)
    BY <1>1 DEF Minus, Size
  <2>2. Untouched \subseteq Registers \ {3, 13, 14} /\ SP \in Registers \ {3, 13, 14}
    BY <1>4 DEF Untouched, Registers
  <2> QED
    BY <1>1, <1>2, <1>7, <2>1, <2>2 DEF LeftAlone, Untouched
<1>10. OnStack' /\ Divides'
  BY <1>1, <1>2, SameQuestion DEF OnStack, Divides
<1>11. DivideGoesOn'
  <2>1. Differ(First, Second)' = Differ(First, Second)
    BY <1>1, SameQuestion DEF Differ, Negative
  <2>2. r'[6] = r[6] /\ r'[17] = r[17]
    BY <1>4, <1>7
  <2> QED
    BY <1>1, <1>2, <2>1, <2>2, SameQuestion DEF DivideGoesOn
<1>12. ASSUME r[6] # 0
       PROVE  DivisionIn(Magnitude(First), r[6], x2, rem3, Pow[n - 1], Pow[W - (n - 1)])
  <2> DEFINE P == Pow[n - 1]
             K == Pow[W - n]
  <2>1. /\ P \in Nat /\ P >= 1 /\ K \in Nat /\ K >= 1 /\ Pow[n] = 2 * P
        /\ Pow[W - (n - 1)] = 2 * K
    <3>1. n - 1 \in 0 .. W /\ W - n \in 0 .. W - 1 /\ W - n \in 0 .. W
          /\ (n - 1) + 1 = n /\ (W - n) + 1 = W - (n - 1)
      BY <1>2, <1>6
    <3>2. Pow[(n - 1) + 1] = 2 * Pow[n - 1] /\ Pow[(W - n) + 1] = 2 * Pow[W - n]
      BY <1>6, <3>1 DEF MulDivAssumption
    <3>3. Pow[n - 1] \in Nat /\ Pow[n - 1] >= (n - 1) + 1 /\ Pow[W - n] \in Nat
          /\ Pow[W - n] >= (W - n) + 1
      BY <3>1, Powers
    <3> QED
      BY <1>2, <1>6, <3>1, <3>2, <3>3
  <2>2. P * K = Half
    <3>1. Pow[n] * Pow[W - n] = Size
      BY <1>6, Powers
    <3>2. Size = 2 * Half /\ Half \in Nat
      BY Sizes
    <3>3. (2 * P) * K = Size
      BY <2>1, <3>1
    <3> HIDE DEF P, K
    <3>4. (2 * P) * K = 2 * (P * K) /\ P * K \in Nat
      BY <2>1
    <3> QED
      BY <3>2, <3>3, <3>4
  <2>3. /\ Magnitude(First) \in Nat /\ r[6] \in 1 .. 2 * Half - 1 /\ r[3] \in Nat /\ r[13] \in Nat
        /\ Half \in Nat /\ Size = 2 * Half
    BY <1>2, <1>3, <1>4, <1>12, MagnitudeIs, Sizes DEF WordValue
  <2>4. DivisionIn(Magnitude(First), r[6], r[3], r[13], 2 * P, K)
    BY <1>2, <1>12, <2>1
  <2> DEFINE b == IF r[3] >= Half THEN 1 ELSE 0
             f == IF rem >= r[6] THEN 1 ELSE 0
  <2>5. rem = (((2 * r[13]) % (2 * Half)) + b) % (2 * Half)
    BY <2>3 DEF Plus, ShiftLeft, Bit, Negative
  <2>6. x2 = (((2 * r[3]) % (2 * Half)) + f) % (2 * Half)
    BY <2>3 DEF x2, Plus, ShiftLeft, Bit
  <2>7. rem3 = (IF rem >= r[6] THEN (rem - r[6]) % (2 * Half) ELSE rem)
    BY <2>3 DEF rem3, Minus
  <2>8. b = (IF r[3] >= Half THEN 1 ELSE 0) /\ f = (IF rem >= r[6] THEN 1 ELSE 0)
    OBVIOUS
  <2> HIDE DEF P, K, b, f, rem
  <2>9. DivisionIn(Magnitude(First), r[6], x2, rem3, P, 2 * K)
    BY <2>1, <2>2, <2>3, <2>4, <2>5, <2>6, <2>7, <2>8, DivisionTurn
  <2> QED
    BY <2>1, <2>9 DEF P
<1>13. r'[6] = r[6]
  BY <1>4, <1>7
<1>14. DivideTurns'
  <2> SUFFICES ASSUME place' = "divide_loop"
               PROVE  /\ r'[14] \in 1 .. W
                      /\ r'[6] # 0 => DivisionIn(Magnitude(First), r'[6], r'[3], r'[13],
                                                 Pow[r'[14]], Pow[W - r'[14]])
    BY <1>1, SameQuestion DEF DivideTurns, DivisionIn
  <2>1. r'[14] # 0
    BY <1>1
  <2> QED
    BY <1>6, <1>7, <1>12, <1>13, <2>1
<1>15. DivideEnds'
  <2> SUFFICES ASSUME place' = "quotient", r'[6] # 0
               PROVE  DivisionIn(Magnitude(First), r'[6], r'[3], r'[13], 1, Size)
    BY <1>1, SameQuestion DEF DivideEnds, DivisionIn
  <2>1. r'[14] = 0
    BY <1>1
  <2>2. n - 1 = 0
    BY <1>7, <2>1
  <2>3. W - (n - 1) = W /\ Pow[0] = 1 /\ Pow[W] = Size
    <3> HIDE DEF n
    <3> QED
      BY <1>6, <2>2 DEF Size, MulDivAssumption
  <2> QED
    BY <1>7, <1>12, <1>13, <2>2, <2>3
<1> QED
  BY <1>1, <1>8, <1>9, <1>10, <1>11, <1>14, <1>15 DEF EmulationInv, Entering, Foreign,
     DivideBegins, Multiplies, MultiplyTurns, MultiplyEnds, Leaving, ResultRight, PassesOn,
     Multiplying

\* The quotient with its sign.
LEMMA QuotientIsRight ==
  ASSUME MulDivAssumption, insn.op \in {"div", "divu"},
         First \in WordValue, Second \in WordValue, NEW q \in WordValue,
         q = Magnitude(First) \div Magnitude(Second), Second # 0,
         NEW s, s = IF insn.op = "div" THEN Differ(First, Second) ELSE 0
  PROVE  (IF Negative(s) THEN Minus(0, q) ELSE q) = Meaning(insn.op, First, Second)
<1>1. Size \in Nat /\ Half \in Nat /\ Half >= 2 /\ Size = 2 * Half
  BY Sizes
<1>2. CASE insn.op = "divu"
  <2>1. ~Negative(s) /\ Magnitude(First) = First /\ Magnitude(Second) = Second
    BY <1>1, <1>2, MagnitudeIs DEF Negative
  <2> QED
    BY <1>2, <2>1 DEF Meaning
<1>3. CASE insn.op = "div"
  <2> DEFINE x == SignedWord(First)
             y == SignedWord(Second)
  <2>1. /\ x \in Int /\ y \in Int
        /\ x < 0 <=> Negative(First)
        /\ y < 0 <=> Negative(Second)
        /\ Magnitude(First) = (IF x < 0 THEN -x ELSE x)
        /\ Magnitude(Second) = (IF y < 0 THEN -y ELSE y)
    BY <1>3, MagnitudeIs
  <2>2. Meaning(insn.op, First, Second) = Quotient(x, y) % Size
    BY <1>3 DEF Meaning
  <2>3. Quotient(x, y) = IF (x < 0) = (y < 0) THEN q ELSE -q
    <3> HIDE DEF x, y
    <3> QED
      BY <2>1 DEF Quotient
  <2>4. q % Size = q /\ q \in Int
    BY <1>1, Remains DEF WordValue
  <2>5. Minus(0, q) = (-q) % Size
    <3>1. 0 - q = -q
      BY <2>4
    <3> QED
      BY <3>1 DEF Minus
  <2>6. Negative(s) <=> ~((x < 0) = (y < 0))
    <3>1. s = Differ(First, Second)
      BY <1>3
    <3>2. Negative(First) \in BOOLEAN /\ Negative(Second) \in BOOLEAN
      BY DEF Negative
    <3>3. s = IF (x < 0) = (y < 0) THEN 0 ELSE Half
      <4> HIDE DEF x, y
      <4>1. (x < 0) = (y < 0) <=> ((First >= Half) = (Second >= Half))
        BY <2>1 DEF Negative
      <4> QED
        BY <3>1, <4>1 DEF Differ, Negative
    <3> HIDE DEF x, y
    <3> QED
      BY <1>1, <3>3 DEF Negative
  <2> HIDE DEF x, y
  <2> QED
    BY <2>2, <2>3, <2>4, <2>5, <2>6
<1> QED
  BY <1>2, <1>3

LEMMA StoreQuotientHolds ==
  ASSUME MulDivAssumption, Allowed, EmulationInv, StoreQuotient PROVE EmulationInv'
<1> DEFINE result == IF Negative(r[17]) THEN Minus(0, r[3]) ELSE r[3]
<1>1. /\ place = "quotient" /\ place' = "exit" /\ slot' = [slot EXCEPT ![Destination] = result]
      /\ insn' = insn /\ r' = r /\ before' = before
  BY DEF StoreQuotient
<1>2. /\ insn \in Instructions /\ before \in [Registers -> WordValue] /\ before[0] = 0
      /\ r \in [Registers -> WordValue] /\ slot \in [Registers -> WordValue]
      /\ insn.op \in {"div", "divu"} /\ r[6] = Magnitude(Second)
      /\ r[17] = IF insn.op = "div" THEN Differ(First, Second) ELSE 0
      /\ r[6] # 0 => DivisionIn(Magnitude(First), r[6], r[3], r[13], 1, Size)
      /\ \A i \in Saved : slot[i] = Operand(i)
      /\ r[SP] = Minus(Minus(before[SP], 76), 60)
      /\ \A i \in Untouched : r[i] = before[i]
  BY <1>1 DEF EmulationInv, Asked, MulDivTypeOK, OnStack, LeftAlone, Divides, DivideGoesOn,
     DivideEnds, Dividing
<1>3. First \in WordValue /\ Second \in WordValue /\ Destination \in Registers
      /\ Destination # EA
  BY <1>2, Named DEF ET, GP, FP, EA, RA
<1>4. r[3] \in WordValue /\ r[6] \in WordValue /\ r[13] \in WordValue
  BY <1>2 DEF Registers
<1>5. result \in WordValue
  BY <1>4, Words
<1>6. slot' \in [Registers -> WordValue] /\ slot'[EA] = slot[EA]
  BY <1>1, <1>2, <1>3, <1>5 DEF EA, Registers
<1>7. Asked'
  BY <1>1, <1>2, <1>6, SameQuestion DEF Asked, MulDivTypeOK, MulDivPlaces
<1>8. LeftAlone'
  <2>1. Minus(Minus(before[SP], 76), 60)' = Minus(Minus(before[SP], 76), 60)
    BY <1>1 DEF Minus, Size
  <2> QED
    BY <1>1, <1>2, <2>1 DEF LeftAlone, Untouched
<1>9. ASSUME Defined PROVE result = Meaning(insn.op, First, Second)
  <2>1. Second # 0 /\ r[6] # 0
    BY <1>2, <1>3, <1>9, MagnitudeIs DEF Defined
  <2>2. Magnitude(First) \in Nat /\ r[6] \in Nat /\ r[6] > 0 /\ r[13] \in Nat /\ Size \in Nat
    BY <1>3, <1>4, <2>1, MagnitudeIs, Sizes DEF WordValue
  <2>3. r[3] = Magnitude(First) \div r[6]
    BY <1>2, <2>1, <2>2, DivisionEnds
  <2> QED
    BY <1>2, <1>3, <1>4, <2>1, <2>3, QuotientIsRight
<1>10. Leaving'
  <2>1. /\ Restored \subseteq Saved /\ Restored \subseteq Registers
        /\ \A i \in Restored : Operand(i) = before[i]
    BY DEF Restored, Saved, Registers, SP, FP, EA, RA, Operand
  <2>2. Meaning(insn.op, First, Second)' = Meaning(insn.op, First, Second)
    <3>1. First' = First /\ Second' = Second
      BY <1>1, <1>6, SameQuestion
    <3> QED
      BY <1>1, <3>1 DEF Meaning, Quotient, SignedWord, Negative, Size, Half
  <2>3. ASSUME Defined PROVE \A i \in Restored :
          slot'[i] = IF i = Destination THEN Meaning(insn.op, First, Second) ELSE before[i]
    BY <1>1, <1>2, <1>3, <1>9, <2>1, <2>3
  <2> QED
    BY <1>1, <1>6, <2>2, <2>3, SameQuestion DEF Leaving, Restored
<1> QED
  BY <1>1, <1>7, <1>8, <1>10 DEF EmulationInv, Entering, OnStack, Foreign, Divides, DivideBegins,
     DivideGoesOn, DivideTurns, DivideEnds, Multiplies, MultiplyTurns, MultiplyEnds,
     ResultRight, PassesOn, Dividing, Multiplying

LEMMA MultiplyLoopHolds ==
  ASSUME MulDivAssumption, Allowed, EmulationInv, MultiplyLoop PROVE EmulationInv'
<1> DEFINE odd   == Lsb(r[12]) = 1
           sum   == IF odd THEN Plus(r[10], r[3]) ELSE r[10]
           carry == IF odd /\ sum < r[3] THEN Half ELSE 0
           y2 == Plus(ShiftLeft(r[9]), IF Negative(r[6]) THEN r[3] ELSE 0)
           h2 == ShiftRight(sum) + carry
           x2 == ShiftLeft(r[6])
           z2 == ShiftRight(r[12])
           n == r[14]
<1>1. /\ place = "multiply_loop" /\ insn' = insn /\ slot' = slot /\ before' = before
      /\ r' = [r EXCEPT ![9] = y2, ![15] = carry, ![10] = h2, ![6] = x2, ![12] = z2, ![14] = @ - 1]
      /\ place' = IF r'[14] # 0 THEN "multiply_loop" ELSE "product"
  BY DEF MultiplyLoop
<1>2. /\ insn \in Instructions /\ before \in [Registers -> WordValue] /\ before[0] = 0
      /\ r \in [Registers -> WordValue] /\ slot \in [Registers -> WordValue]
      /\ insn.op \notin {"div", "divu", "other"} /\ r[3] = First /\ r[11] = Second
      /\ n \in 1 .. W
      /\ LowIn(Second, First, r[6], r[9], Pow[n], Pow[W - n], Size)
      /\ HighIn(Second, First, r[12], r[10], Pow[W - n])
      /\ \A i \in Saved : slot[i] = Operand(i)
      /\ r[SP] = Minus(Minus(before[SP], 76), 60)
      /\ \A i \in Untouched : r[i] = before[i]
  BY <1>1 DEF EmulationInv, Asked, MulDivTypeOK, OnStack, LeftAlone, Multiplies, MultiplyTurns,
     Multiplying
<1>3. First \in WordValue /\ Second \in WordValue
  BY <1>2, Named
<1>4. {3, 6, 9, 10, 11, 12, 14, 15, SP} \subseteq Registers /\ SP = 27
  BY DEF Registers, SP
<1>5. n - 1 \in WordValue /\ n \in Nat /\ n - 1 \in 0 .. W - 1 /\ n \in 0 .. W /\ W \in Nat
  <2>1. W \in Nat /\ W <= Size - 1 /\ Size \in Nat
    BY Sizes, Powers DEF WordValue
  <2>2. n \in Nat /\ n >= 1 /\ n <= W
    BY <1>2, <2>1
  <2> HIDE DEF n
  <2> QED
    BY <2>1, <2>2 DEF WordValue
<1>6. /\ Half \in Nat /\ Half >= 1 /\ Size = 2 * Half
      /\ r[3] \in 0 .. 2 * Half - 1 /\ r[6] \in Nat /\ r[9] \in Nat /\ r[12] \in 0 .. 2 * Half - 1
      /\ r[10] \in 0 .. 2 * Half - 1 /\ Second \in Nat
  BY <1>2, <1>3, <1>4, Sizes DEF WordValue
<1> DEFINE P == Pow[n - 1]
           K == Pow[W - n]
<1>7. /\ P \in Nat /\ P >= 1 /\ K \in Nat /\ K >= 1 /\ Pow[n] = 2 * P
      /\ Pow[W - (n - 1)] = 2 * K
  <2>1. n - 1 \in 0 .. W /\ W - n \in 0 .. W - 1 /\ W - n \in 0 .. W
        /\ (n - 1) + 1 = n /\ (W - n) + 1 = W - (n - 1)
    BY <1>2, <1>5
  <2>2. Pow[(n - 1) + 1] = 2 * Pow[n - 1] /\ Pow[(W - n) + 1] = 2 * Pow[W - n]
    BY <1>5, <2>1 DEF MulDivAssumption
  <2>3. Pow[n - 1] \in Nat /\ Pow[n - 1] >= (n - 1) + 1 /\ Pow[W - n] \in Nat
        /\ Pow[W - n] >= (W - n) + 1
    BY <2>1, Powers
  <2> QED
    BY <1>2, <1>5, <2>1, <2>2, <2>3
<1>8. P * K = Half
  <2>1. Pow[n] * Pow[W - n] = Size
    BY <1>5, Powers
  <2>2. (2 * P) * K = Size
    BY <1>7, <2>1
  <2> HIDE DEF P, K
  <2>3. (2 * P) * K = 2 * (P * K) /\ P * K \in Nat
    BY <1>7
  <2> QED
    BY <1>6, <2>2, <2>3
<1>9. LowIn(Second, First, x2, y2, P, 2 * K, Size)
  <2>1. LowIn(Second, First, r[6], r[9], 2 * P, K, 2 * Half)
    BY <1>2, <1>6, <1>7
  <2>2. x2 = (2 * r[6]) % (2 * Half)
    BY <1>6 DEF ShiftLeft
  <2>3. y2 = (((2 * r[9]) % (2 * Half)) + (IF r[6] >= Half THEN First ELSE 0)) % (2 * Half)
    BY <1>2, <1>6 DEF Plus, ShiftLeft, Negative
  <2>4. First \in Nat
    BY <1>2, <1>6
  <2> HIDE DEF P, K, x2, y2
  <2>5. LowIn(Second, First, x2, y2, P, 2 * K, 2 * Half)
    BY <1>6, <1>7, <1>8, <2>1, <2>2, <2>3, <2>4, LowTurn
  <2> QED
    BY <1>6, <2>5
<1>10. HighIn(Second, First, z2, h2, 2 * K) /\ h2 \in WordValue
  <2>1. First \in 0 .. 2 * Half - 1 /\ r[12] \in Nat /\ r[10] \in 0 .. 2 * Half - 1
    BY <1>2, <1>6
  <2>2. sum = Summed(First, r[12], r[10], Half)
    BY <1>2, <1>6 DEF Plus, Lsb, Summed
  <2>3. carry = Carried(First, r[12], r[10], Half)
    BY <1>2, <2>2 DEF Lsb, Carried
  <2>4. HighIn(Second, First, r[12], r[10], K)
    BY <1>2
  <2>5. K \in Nat /\ K >= 1 /\ Half \in Nat /\ Half >= 1 /\ Second \in Nat
    BY <1>6, <1>7
  <2> HIDE DEF K, sum, carry
  <2>6. /\ HighIn(Second, First, r[12] \div 2, sum \div 2 + carry, 2 * K)
        /\ sum \div 2 + carry \in 0 .. 2 * Half - 1
    BY <2>1, <2>2, <2>3, <2>4, <2>5, HighTurn
  <2> QED
    BY <1>6, <2>6 DEF ShiftRight, WordValue
<1>11. x2 \in WordValue /\ y2 \in WordValue /\ z2 \in WordValue /\ carry \in WordValue
  <2>1. r[3] \in WordValue /\ r[6] \in WordValue /\ r[9] \in WordValue /\ r[12] \in WordValue
    BY <1>2, <1>4
  <2>2. x2 \in WordValue /\ ShiftLeft(r[9]) \in WordValue /\ 0 \in WordValue /\ Half \in WordValue
    BY <2>1, Words
  <2>3. y2 \in WordValue
    BY <2>1, <2>2, Words
  <2>4. z2 \in WordValue
    <3>1. \A k \in 0 .. 2 * Half - 1 : k \div 2 \in 0 .. 2 * Half - 1
      BY <1>6
    <3> QED
      BY <1>6, <3>1 DEF ShiftRight, WordValue
  <2> QED
    BY <2>2, <2>3, <2>4
<1> HIDE DEF P, K, x2, y2, z2, h2, carry, sum, odd
<1>12. /\ r' \in [Registers -> WordValue]
       /\ r'[6] = x2 /\ r'[9] = y2 /\ r'[10] = h2 /\ r'[12] = z2 /\ r'[14] = n - 1
       /\ \A i \in Registers \ {6, 9, 10, 12, 14, 15} : r'[i] = r[i]
  BY <1>1, <1>2, <1>4, <1>5, <1>10, <1>11
<1>13. Asked'
  BY <1>1, <1>2, <1>12, SameQuestion DEF Asked, MulDivTypeOK, MulDivPlaces
<1>14. LeftAlone'
  <2>1. Minus(Minus(before[SP], 76), 60)' = Minus(Minus(before[SP], 76), 60)
    BY <1>1 DEF Minus, Size
  <2>2. /\ Untouched \subseteq Registers \ {6, 9, 10, 12, 14, 15}
        /\ SP \in Registers \ {6, 9, 10, 12, 14, 15}
    BY <1>4 DEF Untouched, Registers
  <2> QED
    BY <1>1, <1>2, <1>12, <2>1, <2>2 DEF LeftAlone, Untouched
<1>15. OnStack'
  BY <1>1, <1>2, SameQuestion DEF OnStack
<1>16. Multiplies'
  <2>1. r'[3] = r[3] /\ r'[11] = r[11]
    BY <1>4, <1>12
  <2> QED
    BY <1>1, <1>2, <2>1, SameQuestion DEF Multiplies
<1>17. MultiplyTurns'
  <2> SUFFICES ASSUME place' = "multiply_loop"
               PROVE  /\ r'[14] \in 1 .. W
                      /\ LowIn(Second, First, r'[6], r'[9], Pow[r'[14]], Pow[W - r'[14]], Size)
                      /\ HighIn(Second, First, r'[12], r'[10], Pow[W - r'[14]])
    BY <1>1, SameQuestion DEF MultiplyTurns, LowIn, HighIn
  <2>1. r'[14] # 0
    BY <1>1
  <2> QED
    BY <1>5, <1>7, <1>9, <1>10, <1>12, <2>1 DEF P
<1>18. MultiplyEnds'
  <2> SUFFICES ASSUME place' = "product"
               PROVE  /\ LowIn(Second, First, r'[6], r'[9], 1, Size, Size)
                      /\ HighIn(Second, First, r'[12], r'[10], Size)
    BY <1>1, SameQuestion DEF MultiplyEnds, LowIn, HighIn
  <2>1. r'[14] = 0
    BY <1>1
  <2>2. n - 1 = 0
    BY <1>12, <2>1
  <2>3. W - (n - 1) = W /\ Pow[0] = 1 /\ Pow[W] = Size
    <3> HIDE DEF n
    <3> QED
      BY <1>5, <2>2 DEF Size, MulDivAssumption
  <2> QED
    BY <1>7, <1>9, <1>10, <1>12, <2>2, <2>3 DEF P
<1> QED
  BY <1>1, <1>13, <1>14, <1>15, <1>16, <1>17, <1>18 DEF EmulationInv, Entering, Foreign,
     Divides, DivideBegins, DivideGoesOn, DivideTurns, DivideEnds, Leaving, ResultRight, PassesOn,
     Dividing, Multiplying

LEMMA StoreProductHolds ==
  ASSUME MulDivAssumption, Allowed, EmulationInv, StoreProduct PROVE EmulationInv'
<1> DEFINE su == IF Negative(r[3]) THEN Minus(r[10], r[11]) ELSE r[10]
           ss == IF Negative(r[11]) THEN Minus(su, r[3]) ELSE su
           result == CASE insn.op \in {"mul", "muli"} -> r[9]
                       [] insn.op = "mulxuu" -> r[10]
                       [] insn.op = "mulxsu" -> su
                       [] insn.op = "mulxss" -> ss
<1>1. /\ place = "product" /\ place' = "exit" /\ slot' = [slot EXCEPT ![Destination] = result]
      /\ insn' = insn /\ r' = r /\ before' = before
  BY DEF StoreProduct
<1>2. /\ insn \in Instructions /\ before \in [Registers -> WordValue] /\ before[0] = 0
      /\ r \in [Registers -> WordValue] /\ slot \in [Registers -> WordValue]
      /\ insn.op \notin {"div", "divu", "other"} /\ r[3] = First /\ r[11] = Second
      /\ LowIn(Second, First, r[6], r[9], 1, Size, Size)
      /\ HighIn(Second, First, r[12], r[10], Size)
      /\ \A i \in Saved : slot[i] = Operand(i)
      /\ r[SP] = Minus(Minus(before[SP], 76), 60)
      /\ \A i \in Untouched : r[i] = before[i]
  BY <1>1 DEF EmulationInv, Asked, MulDivTypeOK, OnStack, LeftAlone, Multiplies, MultiplyEnds,
     Multiplying
<1>3. First \in WordValue /\ Second \in WordValue /\ Destination \in Registers
      /\ Destination # EA
      /\ insn.op \in {"mul", "muli", "mulxuu", "mulxsu", "mulxss"}
  BY <1>2, Named DEF Emulated, ET, GP, FP, EA, RA
<1>4. r[3] \in WordValue /\ r[9] \in WordValue /\ r[10] \in WordValue /\ r[11] \in WordValue
      /\ r[12] \in WordValue
  BY <1>2 DEF Registers
<1>5. Half \in Nat /\ Half >= 1 /\ Size \in Nat /\ Size = 2 * Half /\ Size > 0
  BY Sizes
<1>6. su \in WordValue /\ ss \in WordValue
  <2>1. su \in WordValue
    BY <1>4, Words
  <2> HIDE DEF su
  <2> QED
    BY <1>4, <2>1, Words
<1>7. result \in WordValue
  <2> HIDE DEF su, ss
  <2> QED
    BY <1>3, <1>4, <1>6
<1>8. slot' \in [Registers -> WordValue] /\ slot'[EA] = slot[EA]
  <2> HIDE DEF result
  <2> QED
    BY <1>1, <1>2, <1>3, <1>7 DEF EA, Registers
<1>9. Asked'
  BY <1>1, <1>2, <1>8, SameQuestion DEF Asked, MulDivTypeOK, MulDivPlaces
<1>10. LeftAlone'
  <2>1. Minus(Minus(before[SP], 76), 60)' = Minus(Minus(before[SP], 76), 60)
    BY <1>1 DEF Minus, Size
  <2> QED
    BY <1>1, <1>2, <2>1 DEF LeftAlone, Untouched
<1>11. r[9] = (First * Second) % Size
  <2>1. First \in Nat /\ Second \in Nat
    BY <1>3, <1>5 DEF WordValue
  <2> DEFINE S == Size
             m == Second
             a == First
  <2>2. S \in Nat /\ m \in Nat /\ a \in Nat /\ LowIn(m, a, r[6], r[9], 1, S, S)
    BY <1>2, <1>5, <2>1
  <2> HIDE DEF S, m, a
  <2>3. r[9] = (a * m) % S
    BY <2>2, LowEnds
  <2> QED
    BY <2>3 DEF S, m, a
<1>12. PICK left \in 0 .. Size - 1 : First * Second = r[10] * Size + left
  <2>1. First \in Nat /\ Second \in 0 .. Size - 1 /\ r[12] \in Nat /\ r[10] \in Nat
    BY <1>3, <1>4, <1>5 DEF WordValue
  <2> DEFINE S == Size
             m == Second
             a == First
             x == r[12]
             h == r[10]
  <2>2. /\ S \in Nat /\ S > 0 /\ m \in 0 .. S - 1 /\ a \in Nat /\ x \in Nat /\ h \in Nat
        /\ HighIn(m, a, x, h, S)
    BY <1>2, <1>5, <2>1
  <2> HIDE DEF S, m, a, x, h
  <2>3. \E left \in 0 .. S - 1 : a * m = h * S + left
    BY <2>2, HighEnds
  <2> QED
    BY <2>3 DEF S, m, a, h
<1>13. /\ (First * Second) \div Size = r[10]
       /\ ((SignedWord(First) * Second) \div Size) % Size = su
       /\ ((SignedWord(First) * SignedWord(Second)) \div Size) % Size = ss
  <2>1. \E rest \in WordValue : First * Second = r[10] * Size + rest
    BY <1>12 DEF WordValue
  <2>2. su = SignedBy(First, Second, r[10]) /\ ss = SignedTwice(First, Second, r[10])
    BY <1>2 DEF SignedBy, SignedTwice
  <2> HIDE DEF su, ss
  <2>3. /\ (First * Second) \div Size = r[10]
        /\ ((SignedWord(First) * Second) \div Size) % Size = SignedBy(First, Second, r[10])
        /\ ((SignedWord(First) * SignedWord(Second)) \div Size) % Size
             = SignedTwice(First, Second, r[10])
    BY <1>3, <1>4, <2>1, SignedProducts
  <2> QED
    BY <2>2, <2>3
<1>14. result = Meaning(insn.op, First, Second)
  <2> HIDE DEF su, ss
  <2> QED
    BY <1>3, <1>11, <1>13 DEF Meaning
<1> HIDE DEF result
<1>15. Leaving'
  <2>1. /\ Restored \subseteq Saved /\ Restored \subseteq Registers
        /\ \A i \in Restored : Operand(i) = before[i]
    BY DEF Restored, Saved, Registers, SP, FP, EA, RA, Operand
  <2>2. Meaning(insn.op, First, Second)' = Meaning(insn.op, First, Second)
    <3>1. First' = First /\ Second' = Second
      BY <1>1, <1>8, SameQuestion
    <3> QED
      BY <1>1, <3>1 DEF Meaning, Quotient, SignedWord, Negative, Size, Half
  <2>3. \A i \in Restored :
          slot'[i] = IF i = Destination THEN Meaning(insn.op, First, Second) ELSE before[i]
    BY <1>1, <1>2, <1>3, <1>14, <2>1
  <2> QED
    BY <1>1, <1>8, <2>2, <2>3, SameQuestion DEF Leaving, Restored
<1> QED
  BY <1>1, <1>9, <1>10, <1>15 DEF EmulationInv, Entering, OnStack, Foreign, Divides, DivideBegins,
     DivideGoesOn, DivideTurns, DivideEnds, Multiplies, MultiplyTurns, MultiplyEnds,
     ResultRight, PassesOn, Dividing, Multiplying

LEMMA ExitHolds ==
  ASSUME MulDivAssumption, Allowed, EmulationInv, ExitCode PROVE EmulationInv'
<1>1. /\ place = "exit" /\ place' = "done" /\ insn' = insn /\ slot' = slot /\ before' = before
      /\ r' = [i \in Registers |-> CASE i \in 1 .. 23 \cup {FP, RA} -> slot[i]
                                     [] i = SP -> Plus(r[SP], 136)
                                     [] OTHER -> r[i]]
  BY DEF ExitCode
<1>2. /\ insn \in Instructions /\ before \in [Registers -> WordValue] /\ before[0] = 0
      /\ r \in [Registers -> WordValue] /\ slot \in [Registers -> WordValue]
      /\ Defined => \A i \in Restored : slot[i] = IF i = Destination
                                                  THEN Meaning(insn.op, First, Second)
                                                  ELSE before[i]
      /\ r[SP] = Minus(Minus(before[SP], 76), 60)
      /\ \A i \in Untouched : r[i] = before[i]
  BY <1>1 DEF EmulationInv, Asked, MulDivTypeOK, LeftAlone, Leaving
<1>3. SP \in Registers /\ SP \notin Restored /\ SP = 27 /\ FP = 28 /\ RA = 31 /\ ET = 24
      /\ Restored \subseteq Registers /\ Restored = 1 .. 23 \cup {FP, RA}
  BY DEF SP, FP, RA, ET, Registers, Restored
<1>4. Plus(r[SP], 136) \in WordValue /\ Plus(r[SP], 136) = before[SP]
  <2>1. Size \in Nat /\ Size > 0 /\ before[SP] \in 0 .. Size - 1 /\ r[SP] \in WordValue
    BY <1>2, <1>3, Sizes DEF WordValue
  <2>2. (((((before[SP] - 76) % Size) - 60) % Size) + 136) % Size = before[SP]
    <3> DEFINE p == before[SP]
               S == Size
    <3>1. S \in Nat /\ S > 0 /\ p \in 0 .. S - 1
      BY <2>1
    <3> HIDE DEF p, S
    <3>2. (((((p - 76) % S) - 60) % S) + 136) % S = p
      BY <3>1, StackReturns
    <3> QED
      BY <3>2 DEF p, S
  <2> QED
    BY <1>2, <2>1, <2>2, Words DEF Plus, Minus
<1>5. /\ r' \in [Registers -> WordValue] /\ r'[SP] = before[SP]
      /\ \A i \in Restored : r'[i] = slot[i]
      /\ \A i \in Registers \ (Restored \cup {SP}) : r'[i] = r[i]
  BY <1>1, <1>2, <1>3, <1>4
<1>6. Asked'
  BY <1>1, <1>2, <1>5, SameQuestion DEF Asked, MulDivTypeOK, MulDivPlaces
<1>7. ResultRight'
  <2>1. Meaning(insn.op, Operand(insn.A), Second)' = Meaning(insn.op, First, Second)
    <3>1. First' = First /\ Second' = Second
      BY <1>1, SameQuestion
    <3> QED
      BY <1>1, <3>1 DEF Meaning, Quotient, SignedWord, Negative, Size, Half, First
  <2>2. Destination \in 0 .. 23 \cup {ET, GP, FP, RA}
    BY <1>2, Named
  <2>3. ASSUME Defined, NEW i \in Registers \ {ET}
        PROVE  r'[i] = IF i = Destination /\ i \notin {0, GP}
                       THEN Meaning(insn.op, First, Second) ELSE before[i]
    <3>1. CASE i \in Restored
      <4>1. i \notin {0, GP}
        BY <1>3, <3>1 DEF GP
      <4> QED
        BY <1>2, <1>5, <2>3, <3>1, <4>1
    <3>2. CASE i = SP
      <4>1. i # Destination
        BY <1>3, <2>2, <3>2 DEF GP
      <4> QED
        BY <1>5, <3>2, <4>1
    <3>3. CASE i \notin Restored \cup {SP}
      <4>1. i \in Untouched
        BY <1>3, <2>3, <3>3 DEF Registers, Untouched
      <4>2. ~(i = Destination /\ i \notin {0, GP})
        BY <1>3, <2>2, <2>3, <3>3
      <4> QED
        BY <1>2, <1>5, <2>3, <3>3, <4>1, <4>2
    <3> QED
      BY <3>1, <3>2, <3>3
  <2> QED
    BY <1>1, <2>1, <2>3, SameQuestion DEF ResultRight
<1> QED
  BY <1>1, <1>6, <1>7 DEF EmulationInv, Entering, OnStack, LeftAlone, Foreign, Divides,
     DivideBegins, DivideGoesOn, DivideTurns, DivideEnds, Multiplies, MultiplyTurns, MultiplyEnds,
     Leaving, PassesOn, Dividing, Multiplying

LEMMA NotMulDivHolds ==
  ASSUME MulDivAssumption, Allowed, EmulationInv, NotMulDiv PROVE EmulationInv'
<1>1. /\ place = "not_muldiv" /\ place' = "unknown" /\ r' = [r EXCEPT ![SP] = Plus(@, 60)]
      /\ insn' = insn /\ slot' = slot /\ before' = before
  BY DEF NotMulDiv
<1>2. /\ insn \in Instructions /\ before \in [Registers -> WordValue] /\ before[0] = 0
      /\ r \in [Registers -> WordValue] /\ slot \in [Registers -> WordValue]
      /\ \A i \in Saved : slot[i] = Operand(i)
      /\ r[SP] = Minus(Minus(before[SP], 76), 60)
      /\ \A i \in 16 .. 30 \ {SP} : r[i] = before[i]
  BY <1>1 DEF EmulationInv, Asked, MulDivTypeOK, OnStack, LeftAlone, Foreign
<1>3. SP \in Registers /\ SP = 27 /\ RA = 31
  BY DEF SP, RA, Registers
<1>4. Plus(r[SP], 60) \in WordValue /\ Plus(r[SP], 60) = Minus(before[SP], 76)
  <2>1. Size \in Nat /\ Size > 0 /\ before[SP] \in 0 .. Size - 1 /\ r[SP] \in WordValue
    BY <1>2, <1>3, Sizes DEF WordValue
  <2>2. (((((before[SP] - 76) % Size) - 60) % Size) + 60) % Size = (before[SP] - 76) % Size
    <3> DEFINE p == before[SP]
               S == Size
    <3>1. S \in Nat /\ S > 0 /\ p \in 0 .. S - 1
      BY <2>1
    <3> HIDE DEF p, S
    <3>2. (((((p - 76) % S) - 60) % S) + 60) % S = (p - 76) % S
      BY <3>1, StackReturns
    <3> QED
      BY <3>2 DEF p, S
  <2> QED
    BY <1>2, <2>1, <2>2, Words DEF Plus, Minus
<1>5. /\ r' \in [Registers -> WordValue] /\ r'[SP] = Minus(before[SP], 76)
      /\ \A i \in Registers \ {SP} : r'[i] = r[i]
  BY <1>1, <1>2, <1>3, <1>4
<1>6. Asked'
  BY <1>1, <1>2, <1>5, SameQuestion DEF Asked, MulDivTypeOK, MulDivPlaces
<1>7. PassesOn'
  <2>1. Minus(before[SP], 76)' = Minus(before[SP], 76)
    BY <1>1 DEF Minus, Size
  <2>2. \A i \in 16 .. 30 : i \in Registers
    BY DEF Registers
  <2>3. \A i \in 1 .. 15 \cup {RA} : i \in Saved /\ Operand(i) = before[i]
    BY DEF Saved, Operand, SP, EA, RA
  <2>4. \A i \in 16 .. 30 : r'[i] = IF i = SP THEN Minus(before[SP], 76) ELSE before[i]
    BY <1>2, <1>5, <2>2
  <2> QED
    BY <1>1, <1>2, <2>1, <2>3, <2>4 DEF PassesOn
<1> QED
  BY <1>1, <1>6, <1>7 DEF EmulationInv, Entering, OnStack, LeftAlone, Foreign, Divides,
     DivideBegins, DivideGoesOn, DivideTurns, DivideEnds, Multiplies, MultiplyTurns, MultiplyEnds,
     Leaving, ResultRight, Dividing, Multiplying

LEMMA EmulationStays ==
  ASSUME EmulationInv, UNCHANGED mulDivVars PROVE EmulationInv'
<1>1. place' = place /\ insn' = insn /\ r' = r /\ slot' = slot /\ before' = before
  BY DEF mulDivVars
<1>2. Asked' /\ Entering' /\ OnStack' /\ LeftAlone' /\ Foreign'
  BY <1>1, SameQuestion DEF EmulationInv, Asked, MulDivTypeOK, MulDivPlaces, Entering, OnStack,
     LeftAlone, Foreign, Dividing, Multiplying, Untouched, Minus, Size
<1>3. Divides' /\ DivideBegins' /\ DivideGoesOn' /\ DivideTurns' /\ DivideEnds'
  <2>1. Differ(First, Second)' = Differ(First, Second)
    BY <1>1, SameQuestion DEF Differ, Negative
  <2> QED
    BY <1>1, <2>1, SameQuestion DEF EmulationInv, Divides, DivideBegins, DivideGoesOn,
       DivideTurns, DivideEnds, Dividing, DivisionIn
<1>4. Multiplies' /\ MultiplyTurns' /\ MultiplyEnds'
  BY <1>1, SameQuestion DEF EmulationInv, Multiplies, MultiplyTurns, MultiplyEnds, Multiplying,
     LowIn, HighIn
<1>5. Leaving' /\ ResultRight' /\ PassesOn'
  <2>1. /\ Meaning(insn.op, First, Second)' = Meaning(insn.op, First, Second)
        /\ Meaning(insn.op, Operand(insn.A), Second)' = Meaning(insn.op, Operand(insn.A), Second)
    <3>1. First' = First /\ Second' = Second
      BY <1>1, SameQuestion
    <3> QED
      BY <1>1, <3>1 DEF Meaning, Quotient, SignedWord, Negative, Size, Half, First
  <2> QED
    BY <1>1, <2>1, SameQuestion DEF EmulationInv, Leaving, ResultRight, PassesOn, Restored, Minus,
       Size
<1> QED
  BY <1>2, <1>3, <1>4, <1>5 DEF EmulationInv

\* In the division loop the two parts of r3 are the rest and the quotient.
LEMMA LoopIsRight ==
  ASSUME MulDivAssumption, EmulationInv PROVE DivisionLoop
<1> SUFFICES ASSUME place = "divide_loop", insn.op = "divu", r[6] # 0
             PROVE  /\ r[13] < r[6]
                    /\ ((r[3] % Pow[W - r[14]]) * r[6] + r[13]) * Pow[r[14]]
                         + r[3] \div Pow[W - r[14]] = Operand(insn.A)
  BY DEF DivisionLoop
<1> DEFINE n == r[14]
           P == Pow[n]
           K == Pow[W - n]
           x == r[3]
           d == r[6]
           m == r[13]
<1>1. /\ n \in 1 .. W /\ x \in WordValue
      /\ DivisionIn(First, d, x, m, P, K)
  BY DEF EmulationInv, Asked, MulDivTypeOK, DivideTurns, Magnitude, Registers
<1>2. K \in Nat /\ K > 0 /\ x \in Int
  <2>1. W - n \in 0 .. W
    BY <1>1, Powers
  <2> QED
    BY <1>1, <2>1, Powers, Sizes DEF WordValue
<1> HIDE DEF P, K, x, d, m
<1>3. PICK rest \in Nat, quo \in Nat :
        /\ quo < K /\ x = rest * K + quo /\ m < d /\ First = (quo * d + m) * P + rest
  BY <1>1 DEF DivisionIn
<1>4. x % K = quo /\ x \div K = rest
  <2>1. quo \in 0 .. K - 1
    BY <1>2, <1>3
  <2> QED
    BY <1>2, <1>3, <2>1, DivisionIs
<1>5. m < d /\ ((x % K) * d + m) * P + x \div K = First
  BY <1>3, <1>4
<1> QED
  BY <1>5 DEF P, K, x, d, m, First

\* Theorem: for every size of a word, every operand and every register that the source
\* permits, an emulated instruction has its effect, on the operands that the handler finds,
\* and no other, and any other instruction reaches the next handler.
THEOREM EmulationIsRight ==
  ASSUME MulDivAssumption, Allowed
  PROVE  MulDivSpec => []Emulates
<1>1. MulDivInit => EmulationInv
  BY EmulationStarts
<1>2. EmulationInv /\ [MulDivNext]_mulDivVars => EmulationInv'
  BY EntryHolds, DecodeHolds, DivideHolds, DivideLoopHolds, StoreQuotientHolds,
     MultiplyLoopHolds, StoreProductHolds, ExitHolds, NotMulDivHolds, EmulationStays
     DEF MulDivNext
<1>3. EmulationInv => Emulates
  BY LoopIsRight DEF EmulationInv, Asked, Emulates
<1> QED
  BY <1>1, <1>2, <1>3, PTL DEF MulDivSpec
=============================================================================
