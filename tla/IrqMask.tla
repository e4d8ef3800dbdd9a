------------------------------ MODULE IrqMask -------------------------------
(***************************************************************************)
(* Which interrupts the processor takes: alt_legacy_irq.h, alt_irq.h and   *)
(* the registration of handlers.  The program and the interrupt routines   *)
(* change the enables in nested critical sections, and a routine may let   *)
(* the interrupts of higher priority in while it runs.  A device asks for  *)
(* an interrupt at any moment.                                             *)
(***************************************************************************)
EXTENDS Integers, Sequences

CONSTANTS
    Irqs,        \* the lowest number has the highest priority
    Isrs,        \* routines and their contexts, by name
    NoIsr,
    Careless,    \* TRUE: routines enable and disable interrupts at any time, FALSE:
                 \* only as long as none of those that run is interruptible
    Deepest      \* bound: routines interrupting each other

ASSUME IrqMaskAssumption ==
    /\ Irqs \subseteq Nat /\ NoIsr \notin Isrs
    /\ Careless \in BOOLEAN /\ Deepest \in Nat

VARIABLES
    pie, ienable,                          \* the processor's
    alt_irq_active, alt_priority_mask,
    handler, context,                      \* alt_irq[id]
    frames,      \* what runs: the program, then the routines interrupting each other
    asked        \* history: the interrupts enabled by the calls so far

masks == <<ienable, alt_irq_active, alt_priority_mask, asked>>
table == <<handler, context>>
maskVars == <<pie, masks, table, frames>>

All == Irqs
Nobody == -1
Closed == {Nobody}

\* todo: the accesses that a call has yet to make; saved: the status words of
\* its critical sections; loaded: alt_irq_active as read; old: the mask that
\* a routine found when it became interruptible.
Frame(id) == [isr |-> id, todo |-> <<>>, saved |-> <<>>, loaded |-> {}, old |-> Closed]

me == frames[Len(frames)]
Todo == Head(me.todo)
Free == me.todo = <<>>
InIsr == me.isr # Nobody
Done(f) == [f EXCEPT !.todo = Tail(@)]
Become(f) == frames' = [frames EXCEPT ![Len(frames)] = f]

-----------------------------------------------------------------------------
(* Calls, as the accesses they make.                                       *)

alt_irq_disable_all == <<<<"off">>>>
alt_irq_enable_all == <<<<"restore">>>>

\* Faulty form: outside a critical section.
alt_irq_change_Open(change, id) == <<<<"load">>, <<change, id>>, <<"ienable">>>>

\* alt_irq_enable and alt_irq_disable.
alt_irq_change(change, id) ==
    alt_irq_disable_all \o <<<<"load">>, <<change, id>>, <<"ienable">>>> \o alt_irq_enable_all

\* Without a routine the interrupt is disabled.
alt_iic_isr_register(id, isr) ==
    alt_irq_disable_all \o <<<<"handler", id, isr>>, <<"context", id, isr>>>>
    \o alt_irq_change(IF isr = NoIsr THEN "disable" ELSE "enable", id) \o alt_irq_enable_all

Call(todo) ==
    /\ Free /\ Become([me EXCEPT !.todo = todo])
    /\ UNCHANGED <<pie, masks, table>>

Register == ~InIsr /\ \E id \in Irqs, isr \in Isrs \cup {NoIsr} :
                        Call(alt_iic_isr_register(id, isr))

Change ==
    /\ InIsr => Careless \/ alt_priority_mask = All
    /\ \E id \in Irqs : \/ Call(alt_irq_change("disable", id))
                        \/ handler[id] # NoIsr /\ Call(alt_irq_change("enable", id))

\* A change in a critical section of the program's own.
Section == ~InIsr /\ \E id \in Irqs :
    Call(alt_irq_disable_all \o alt_irq_change("disable", id) \o alt_irq_enable_all)

-----------------------------------------------------------------------------
(* The accesses.                                                           *)

Off ==
    /\ ~Free /\ Todo[1] = "off"
    /\ pie' = FALSE /\ Become([Done(me) EXCEPT !.saved = <<pie>> \o @])
    /\ UNCHANGED <<masks, table>>

Restore ==
    /\ ~Free /\ Todo[1] = "restore"
    /\ pie' = Head(me.saved) /\ Become([Done(me) EXCEPT !.saved = Tail(@)])
    /\ UNCHANGED <<masks, table>>

Load ==
    /\ ~Free /\ Todo[1] = "load"
    /\ Become([Done(me) EXCEPT !.loaded = alt_irq_active])
    /\ UNCHANGED <<pie, masks, table>>

Store ==
    /\ ~Free /\ Todo[1] \in {"enable", "disable"}
    /\ LET Changed(set) == IF Todo[1] = "enable" THEN set \cup {Todo[2]} ELSE set \ {Todo[2]}
       IN alt_irq_active' = Changed(me.loaded) /\ asked' = Changed(asked)
    /\ Become([Done(me) EXCEPT !.loaded = {}])
    /\ UNCHANGED <<pie, ienable, alt_priority_mask, table>>

WriteIenable ==
    /\ ~Free /\ Todo[1] = "ienable"
    /\ ienable' = alt_irq_active /\ Become(Done(me))
    /\ UNCHANGED <<pie, alt_irq_active, alt_priority_mask, asked, table>>

SetHandler ==
    /\ ~Free /\ Todo[1] \in {"handler", "context"}
    /\ IF Todo[1] = "handler"
         THEN handler' = [handler EXCEPT ![Todo[2]] = Todo[3]] /\ UNCHANGED context
         ELSE context' = [context EXCEPT ![Todo[2]] = Todo[3]] /\ UNCHANGED handler
    /\ Become(Done(me))
    /\ UNCHANGED <<pie, masks>>

Access == Off \/ Restore \/ Load \/ Store \/ WriteIenable \/ SetHandler

-----------------------------------------------------------------------------
(* Interrupts.                                                             *)

\* The program lets the processor take interrupts.
alt_irq_cpu_enable_interrupts ==
    /\ ~InIsr /\ Free /\ pie' = TRUE /\ UNCHANGED <<masks, table, frames>>

Interrupt ==
    /\ pie /\ Len(frames) <= Deepest
    /\ \E id \in ienable : frames' = Append(frames, Frame(id))
    /\ pie' = FALSE
    /\ UNCHANGED <<masks, table>>

alt_irq_interruptible ==
    /\ InIsr /\ Free /\ me.old = Closed
    /\ alt_priority_mask' = {id \in Irqs : id < me.isr}
    /\ ienable' = alt_irq_active \cap alt_priority_mask'
    /\ pie' = TRUE /\ Become([me EXCEPT !.old = alt_priority_mask])
    /\ UNCHANGED <<alt_irq_active, asked, table>>

alt_irq_non_interruptible ==
    /\ InIsr /\ Free /\ me.old # Closed
    /\ pie' = FALSE
    /\ alt_priority_mask' = me.old /\ ienable' = me.old \cap alt_irq_active
    /\ Become([me EXCEPT !.old = Closed])
    /\ UNCHANGED <<alt_irq_active, asked, table>>

\* The status that was saved is the one in which the interrupt was taken.
Return ==
    /\ InIsr /\ Free /\ me.old = Closed
    /\ frames' = SubSeq(frames, 1, Len(frames) - 1) /\ pie' = TRUE
    /\ UNCHANGED <<masks, table>>

MaskInit ==
    /\ pie = FALSE /\ ienable = {} /\ alt_irq_active = {} /\ alt_priority_mask = All
    /\ handler = [id \in Irqs |-> NoIsr] /\ context = handler
    /\ frames = <<Frame(Nobody)>> /\ asked = {}

MaskNext ==
    \/ Register \/ Change \/ Section \/ Access
    \/ alt_irq_cpu_enable_interrupts \/ Interrupt
    \/ alt_irq_interruptible \/ alt_irq_non_interruptible \/ Return

MaskSpec == MaskInit /\ [][MaskNext]_maskVars

-----------------------------------------------------------------------------
\* Whenever an interrupt can be taken, the processor lets in exactly those
\* that the calls so far have enabled, and of these only the ones that have
\* priority over every routine that runs; each has a routine, registered
\* together with its context; and the program is in no critical section.
\* (alt_legacy_irq.h: no enable or disable is lost to an interrupt, nor its
\* mask to another.)  Does not hold if Careless: alt_irq_enable and
\* alt_irq_disable write alt_irq_active without alt_priority_mask.
EnablesExact ==
    pie => /\ ienable = {id \in asked : \A i \in 2 .. Len(frames) : id < frames[i].isr}
           /\ \A id \in ienable : handler[id] # NoIsr /\ context[id] = handler[id]
           /\ \A i \in 1 .. Len(frames) : frames[i].saved = <<>>
=============================================================================
