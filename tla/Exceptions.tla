----------------------------- MODULE Exceptions -----------------------------
(***************************************************************************)
(* Exceptions and interrupts of the processor, as the board support        *)
(* package handles them: alt_exception_entry.S and the pieces linked into  *)
(* it, alt_irq_handler.c, the registration of handlers.  The interrupted   *)
(* program is a list of instructions, executed in order; what counts is    *)
(* which of them take effect, how often, and with which interrupts.        *)
(***************************************************************************)
EXTENDS Integers, Sequences

CONSTANTS
    Program,     \* the instructions of the program: records, see Kinds
    Lines,       \* the interrupt numbers, 0 .. ALT_NIRQ - 1
    MaxRaises,   \* bound: how often the devices ask for an interrupt
    Steady,      \* TRUE: a device asks until it is served
    Emulation    \* TRUE: alt_exception_muldiv.S is linked in

\* Instructions that the processor executes, the steps of the functions that
\* manage interrupts among them; and those that raise an exception: a multiply
\* or divide, one that needs a repair before it can be executed, one that the
\* program's own handler stands in for.
Ordinary == {"plain", "catch", "disable_all", "enable_all", "handler", "context", "ienable"}
Raising  == {"muldiv", "fault", "illegal"}
Kinds == Ordinary \cup Raising

ExceptionsAssumption ==
    /\ Program \in Seq([kind : Kinds, irq : Lines, isr : {"none", "old", "new"}])
    /\ Lines \subseteq Nat
    /\ MaxRaises \in Nat /\ Steady \in BOOLEAN /\ Emulation \in BOOLEAN

VARIABLES
    pc,        \* the place in the exception code, "run" in the program
    at,        \* the next instruction of the program
    effects,   \* how often each instruction took effect
    repaired,  \* the faults that the program's handler has repaired
    status_pie,    \* status.PIE: interrupts are on
    irq_context,   \* what alt_irq_disable_all returned
    estatus,   \* the copy of pie that the processor makes on an exception
    ea,        \* the instruction after the one interrupted
    frame,     \* what the entry code stores: estatus, and where to return to
    enables,   \* the interrupts enabled one by one
    requests,  \* the devices that ask for one
    active,    \* the interrupts that alt_irq_handler found pending
    alt_irq,   \* the table of handlers
    alt_instruction_exception_handler,   \* the program's handler, or "none"
    r2,        \* the answer of the program's exception handler
    raises     \* how often a device has asked

vars == <<pc, at, effects, repaired, status_pie, irq_context, estatus, ea, frame, enables,
          requests, active, alt_irq, alt_instruction_exception_handler, r2, raises>>
program == <<at, effects, repaired, status_pie, irq_context>>
devices == <<requests, raises>>
control == <<enables, alt_irq, alt_instruction_exception_handler>>

Insns == DOMAIN Program
Pending == requests \cap enables        \* ipending
Lowest(S) == CHOOSE i \in S : \A j \in S : i <= j

REISSUE == 0                            \* NIOS2_EXCEPTION_RETURN_REISSUE_INST
SKIP_INST == 1

-----------------------------------------------------------------------------
(* The program.  The processor looks for interrupts between instructions.  *)

\* At its end the program idles.
KindOf(i) == IF i \in Insns THEN Program[i].kind ELSE "plain"

TakesInterrupt == status_pie /\ Pending # {}
Executable(i) == KindOf(i) \in Ordinary \/ (KindOf(i) = "fault" /\ i \in repaired)

PieAfter(kind) == CASE kind = "disable_all" -> FALSE
                    [] kind = "enable_all" -> irq_context
                    [] OTHER -> status_pie

alt_instruction_exception_register(p) ==
    alt_instruction_exception_handler' =
        IF p.kind = "catch" THEN p.isr ELSE alt_instruction_exception_handler

\* alt_irq_disable_all and alt_irq_enable_all, and between them the statements of
\* alt_iic_isr_register; alt_instruction_exception_register.
Execute ==
    /\ pc = "run" /\ at \in Insns /\ Executable(at) /\ ~TakesInterrupt
    /\ effects' = [effects EXCEPT ![at] = @ + 1]
    /\ at' = at + 1
    /\ LET p == Program[at]
       IN  /\ status_pie' = PieAfter(p.kind)
           /\ irq_context' = IF p.kind = "disable_all" THEN status_pie ELSE irq_context
           /\ alt_irq' = CASE p.kind = "handler" -> [alt_irq EXCEPT ![p.irq].handler = p.isr]
                           [] p.kind = "context" -> [alt_irq EXCEPT ![p.irq].context = p.isr]
                           [] OTHER -> alt_irq
           /\ alt_instruction_exception_register(p)
           /\ enables' = IF p.kind # "ienable" THEN enables
                         ELSE IF p.isr = "none" THEN enables \ {p.irq} ELSE enables \cup {p.irq}
    /\ UNCHANGED <<pc, repaired, estatus, ea, frame, devices, active, r2>>

\* What the processor does on an interrupt or an exception.
Except ==
    /\ pc = "run"
    /\ TakesInterrupt \/ ~Executable(at)
    /\ pc' = "entry"
    /\ estatus' = status_pie /\ status_pie' = FALSE
    /\ ea' = at + 1
    /\ UNCHANGED <<at, effects, repaired, irq_context, frame, control, devices, active, r2>>

\* A device asks for an interrupt; one that is not steady may think better of it.
Raise ==
    /\ raises < MaxRaises /\ raises' = raises + 1
    /\ \E i \in Lines \ requests : requests' = requests \cup {i}
    /\ UNCHANGED <<pc, program, estatus, ea, frame, control, active, r2>>

Withdraw ==
    /\ ~Steady
    /\ \E i \in requests : requests' = requests \ {i}
    /\ UNCHANGED <<pc, program, estatus, ea, frame, control, raises, active, r2>>

-----------------------------------------------------------------------------
(* The exception code.                                                     *)

\* Faulty form: the return address is that of the next instruction.
Entry_Next ==
    /\ pc = "entry" /\ pc' = "irqtest"
    /\ frame' = [estatus |-> estatus, ea |-> ea]
    /\ UNCHANGED <<program, estatus, ea, control, devices, active, r2>>

\* An interrupted instruction will be issued again.
Entry ==
    /\ pc = "entry" /\ pc' = "irqtest"
    /\ frame' = [estatus |-> estatus, ea |-> ea - 1]
    /\ UNCHANGED <<program, estatus, ea, control, devices, active, r2>>

\* An interrupt, if they were on and one is pending now.
IrqTest ==
    /\ pc = "irqtest"
    /\ pc' = IF frame.estatus /\ Pending # {} THEN "irq_handler" ELSE "notirq"
    /\ UNCHANGED <<program, estatus, ea, frame, control, devices, active, r2>>

\* alt_irq_handler: the list of pending interrupts, the lowest of them, and so on
\* until none is left.
IrqPending ==
    /\ pc = "irq_handler" /\ pc' = "dispatch"
    /\ active' = Pending
    /\ UNCHANGED <<program, estatus, ea, frame, control, devices, r2>>

\* The handler serves its device.  The search for the lowest bit has no other
\* end: with no bit set it goes on for ever.
Dispatch ==
    /\ pc = "dispatch" /\ active # {} /\ pc' = "irq_next"
    /\ requests' = requests \ {Lowest(active)}
    /\ UNCHANGED <<program, estatus, ea, frame, control, raises, active, r2>>

IrqNext ==
    /\ pc = "irq_next"
    /\ active' = Pending
    /\ pc' = IF Pending = {} THEN "exit" ELSE "dispatch"
    /\ UNCHANGED <<program, estatus, ea, frame, control, devices, r2>>

\* No interrupt: the instruction will be skipped, unless a handler says otherwise.
NotIrq ==
    /\ pc = "notirq" /\ pc' = "soft"
    /\ frame' = [frame EXCEPT !.ea = ea]
    /\ UNCHANGED <<program, estatus, ea, control, devices, active, r2>>

\* The code linked into .exceptions.soft: MulDiv models what it computes.
Soft ==
    /\ pc = "soft"
    /\ IF Emulation /\ KindOf(ea - 1) = "muldiv"
       THEN effects' = [effects EXCEPT ![ea - 1] = @ + 1] /\ pc' = "exit"
       ELSE pc' = "unknown" /\ UNCHANGED effects
    /\ UNCHANGED <<at, repaired, status_pie, irq_context, estatus, ea, frame, control, devices,
                   active, r2>>

\* alt_instruction_exception_entry calls the handler that the program registered:
\* does itself what the instruction is for, or repairs the cause and has it issued
\* again; so it answers as well when there was no cause.
Unknown ==
    /\ pc = "unknown" /\ alt_instruction_exception_handler # "none" /\ pc' = "returned"
    /\ IF KindOf(ea - 1) \in {"muldiv", "illegal"}
       THEN /\ r2' = SKIP_INST
            /\ effects' = [effects EXCEPT ![ea - 1] = @ + 1] /\ UNCHANGED repaired
       ELSE /\ r2' = REISSUE
            /\ repaired' = repaired \cup ({ea - 1} \cap Insns) /\ UNCHANGED effects
    /\ UNCHANGED <<at, status_pie, irq_context, estatus, ea, frame, control, devices, active>>

\* Without one the processor breaks into the debugger, and stays there.
NoHandler ==
    /\ pc = "unknown" /\ alt_instruction_exception_handler = "none" /\ pc' = "break"
    /\ UNCHANGED <<program, estatus, ea, frame, control, devices, active, r2>>

Returned ==
    /\ pc = "returned" /\ pc' = "exit"
    /\ frame' = [frame EXCEPT !.ea = IF r2 # 0 THEN @ ELSE ea - 1]
    /\ UNCHANGED <<program, estatus, ea, control, devices, active, r2>>

\* Faulty form: estatus is not restored.
Exit_Off ==
    /\ pc = "exit" /\ pc' = "run"
    /\ at' = frame.ea
    /\ UNCHANGED <<effects, repaired, status_pie, irq_context, estatus, ea, frame, control, devices,
                   active, r2>>

Exit ==
    /\ pc = "exit" /\ pc' = "run"
    /\ at' = frame.ea
    /\ status_pie' = frame.estatus
    /\ UNCHANGED <<effects, repaired, irq_context, estatus, ea, frame, control, devices, active,
                   r2>>

Handler == Entry \/ IrqTest \/ IrqPending \/ Dispatch \/ IrqNext
           \/ NotIrq \/ Soft \/ Unknown \/ NoHandler \/ Returned \/ Exit

Init ==
    /\ pc = "run" /\ at = 1
    /\ effects = [i \in Insns |-> 0] /\ repaired = {}
    /\ status_pie = TRUE /\ irq_context = FALSE
    /\ estatus = FALSE /\ ea = 1 /\ frame = [estatus |-> FALSE, ea |-> 1]
    /\ enables \in {{}, Lines} /\ requests = {} /\ active = {}
    /\ alt_irq = [i \in Lines |-> [handler |-> "old", context |-> "old"]]
    /\ alt_instruction_exception_handler = "none" /\ r2 = 0 /\ raises = 0

Next == Execute \/ Except \/ Raise \/ Withdraw \/ Handler

Spec == Init /\ [][Next]_vars

\* The processor does not stop.
FairSpec == Spec /\ WF_vars(Execute \/ Except \/ Handler)

-----------------------------------------------------------------------------
\* A program that changes the table and the enables only as alt_iic_isr_register does:
\* with interrupts off, the handler, its context and the enable of one interrupt.
SameCall(k, l) == Program[l].irq = Program[k].irq /\ Program[l].isr = Program[k].isr
WholeCalls ==
    \A k \in Insns :
        /\ KindOf(k) = "handler" =>
             KindOf(k - 1) = "disable_all" /\ KindOf(k + 1) = "context" /\ SameCall(k, k + 1)
        /\ KindOf(k) = "context" =>
             KindOf(k - 1) = "handler" /\ KindOf(k + 1) = "ienable" /\ SameCall(k, k + 1)
        /\ KindOf(k) = "ienable" => KindOf(k - 1) = "context"

-----------------------------------------------------------------------------
Places == {"run", "entry", "irqtest", "irq_handler", "dispatch", "irq_next", "notirq",
           "soft", "unknown", "break", "returned", "exit"}

TypeOK ==
    /\ pc \in Places /\ at \in 1 .. Len(Program) + 1
    /\ effects \in [Insns -> Nat] /\ repaired \subseteq Insns
    /\ status_pie \in BOOLEAN /\ irq_context \in BOOLEAN /\ estatus \in BOOLEAN
    /\ ea \in 1 .. Len(Program) + 2
    /\ frame \in [estatus : BOOLEAN, ea : 1 .. Len(Program) + 2]
    /\ enables \subseteq Lines /\ requests \subseteq Lines /\ active \subseteq Lines
    /\ alt_irq \in [Lines -> [handler : {"none", "old", "new"},
                             context : {"none", "old", "new"}]]
    /\ alt_instruction_exception_handler \in {"none", "old", "new"}
    /\ r2 \in {REISSUE, SKIP_INST} /\ raises \in 0 .. MaxRaises

\* Whatever interrupts and exceptions come between and on top of each other, every
\* instruction of the program takes effect exactly once.
\* (The return addresses of alt_exception_entry.S.)
OnceEach ==
    pc = "run" => \A i \in Insns : effects[i] = IF i < at THEN 1 ELSE 0

\* An interrupt is not taken for an exception: the program's handler sees only
\* instructions that raised one.
OnlyRaised == pc = "unknown" => KindOf(ea - 1) \in Raising

\* A handler is called only while its interrupt is enabled, with the context that
\* was registered with it.  (alt_iic_isr_register.)
WholeEntry ==
    pc = "dispatch" /\ active # {} =>
        LET i == Lowest(active)
        IN  i \in enables /\ alt_irq[i].handler # "none"
            /\ alt_irq[i].handler = alt_irq[i].context

\* Registers keep their types, every instruction takes effect exactly once, whatever
\* interrupts it, and no interrupt meets half a table entry.
Undisturbed == TypeOK /\ OnceEach /\ (WholeCalls => WholeEntry)

\* alt_irq_handler "loops [...] until alt_irq_pending() return zero"; then the
\* program goes on.
HandlerEnds == pc \in {"irq_handler", "dispatch"} ~> pc = "run"

\* No interrupt is forgotten: one that is enabled is served, or switched off.
Served == \A i \in Lines : i \in Pending ~> i \notin Pending

\* "Return code was 0: Skip." (alt_exception_entry.S.)
ZeroSkips == [][pc = "returned" /\ r2 = 0 => frame'.ea = ea]_vars
=============================================================================
