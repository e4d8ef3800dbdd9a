-------------------------------- MODULE Sbrk --------------------------------
(***************************************************************************)
(* alt_sbrk.c: the heap grows towards the stack, and with run-time stack   *)
(* checks moves the limit that the prologue of every function compares the *)
(* stack pointer with.  Interrupts take memory as well (alt_gmon.c), and   *)
(* run on the stack they find or on one of their own.                      *)
(***************************************************************************)
EXTENDS Integers

CONSTANTS
    HeapStart, HeapLimit,        \* __alt_heap_start, __alt_heap_limit: also the stack's top
    STACK_CHECK, EXCEPTION_STACK,
    Incrs, Frames        \* bound: bytes asked for, and used by a function

ASSUME SbrkAssumption ==
    /\ HeapStart \in Nat \ {0} /\ HeapStart % 4 = 0 /\ HeapLimit \in Nat /\ HeapStart < HeapLimit
    /\ STACK_CHECK \in BOOLEAN /\ EXCEPTION_STACK \in BOOLEAN
    /\ Incrs \subseteq Nat /\ Frames \subseteq Nat

VARIABLES
    heap_end, blocks,    \* the blocks handed out: first byte and the byte behind
    sp, depth,           \* of the program's stack, and how far the exception moved it
    et, old_limit,       \* the limit register and what an exception keeps of it
    active,              \* who runs: "main" or "irq"
    pie,
    prev,                \* of either context's call of sbrk, heap_end before; or -1
    overflow             \* "no", or what stopped the program

sbrkVars == <<heap_end, blocks, sp, depth, et, old_limit, active, pie, prev, overflow>>
stack == <<sp, depth, et, old_limit, active>>

ExceptionLimit == HeapLimit + 1      \* a stack that is elsewhere
NoCall == -1
Running == overflow = "no"
Aligned(a) == ((a + 3) \div 4) * 4

-----------------------------------------------------------------------------
(* sbrk.                                                                   *)

\* Interrupts go off, and the end of the heap is rounded up.
sbrk ==
    /\ Running /\ prev[active] = NoCall
    /\ pie' = FALSE
    /\ heap_end' = Aligned(heap_end) /\ prev' = [prev EXCEPT ![active] = Aligned(heap_end)]
    /\ UNCHANGED <<blocks, stack, overflow>>

Refused(incr) ==
    /\ Running /\ prev[active] # NoCall /\ heap_end + incr > HeapLimit
    /\ prev' = [prev EXCEPT ![active] = NoCall] /\ pie' = (active = "main")
    /\ UNCHANGED <<heap_end, blocks, stack, overflow>>

\* The stack that is in use now is the default one.
OnHeap == STACK_CHECK /\ et = prev[active]

\* That is the stack which the exception came from.
OldOnHeap == STACK_CHECK /\ EXCEPTION_STACK /\ old_limit = prev[active]

\* Faulty form: the limit is not moved.
Extended_LimitStays(incr) ==
    LET end == prev[active] + incr
    IN  /\ Running /\ prev[active] # NoCall /\ end <= HeapLimit
        /\ heap_end' = end /\ blocks' = blocks \cup {<<prev[active], end, active>>}
        /\ prev' = [prev EXCEPT ![active] = NoCall] /\ pie' = (active = "main")
        /\ UNCHANGED <<stack, overflow>>

Extended(incr) ==
    LET end == prev[active] + incr
    IN  /\ Running /\ prev[active] # NoCall /\ end <= HeapLimit
        /\ heap_end' = end /\ blocks' = blocks \cup {<<prev[active], end, active>>}
        /\ et' = IF OnHeap THEN end ELSE et
        /\ old_limit' = IF OldOnHeap THEN end ELSE old_limit
        /\ overflow' = IF OnHeap /\ sp <= end THEN "sbrk"
                       ELSE IF OldOnHeap /\ old_limit <= end THEN "sbrk in an exception"
                       ELSE "no"
        /\ prev' = [prev EXCEPT ![active] = NoCall] /\ pie' = (active = "main")
        /\ UNCHANGED <<sp, depth, active>>

-----------------------------------------------------------------------------
(* The program and its interrupts.                                         *)

\* The prologue of a function, as the compiler makes it.
Push(n) ==
    /\ Running /\ active = "main" /\ prev.main = NoCall /\ sp - n >= 0
    /\ sp' = sp - n
    /\ overflow' = IF STACK_CHECK /\ sp' < et THEN "prologue" ELSE "no"
    /\ UNCHANGED <<heap_end, blocks, depth, et, old_limit, active, pie, prev>>

Pop(n) ==
    /\ Running /\ active = "main" /\ prev.main = NoCall /\ sp + n <= HeapLimit
    /\ sp' = sp + n
    /\ UNCHANGED <<heap_end, blocks, depth, et, old_limit, active, pie, prev, overflow>>

\* The entry of an exception: registers are saved on the stack that was found, or
\* stack and limit change to the exception's own.
Entry(n) ==
    /\ Running /\ pie /\ active = "main" /\ active' = "irq" /\ pie' = FALSE
    /\ IF EXCEPTION_STACK
       THEN /\ old_limit' = et /\ et' = ExceptionLimit
            /\ UNCHANGED <<sp, depth, overflow>>
       ELSE /\ sp - n >= 0 /\ sp' = sp - n /\ depth' = n
            /\ overflow' = IF STACK_CHECK /\ sp' < et THEN "exception" ELSE "no"
            /\ UNCHANGED <<et, old_limit>>
    /\ UNCHANGED <<heap_end, blocks, prev>>

Exit ==
    /\ Running /\ active = "irq" /\ prev.irq = NoCall /\ active' = "main" /\ pie' = TRUE
    /\ IF EXCEPTION_STACK
       THEN et' = old_limit /\ old_limit' = 0 /\ UNCHANGED <<sp, depth>>
       ELSE sp' = sp + depth /\ depth' = 0 /\ UNCHANGED <<et, old_limit>>
    /\ UNCHANGED <<heap_end, blocks, prev, overflow>>

SbrkInit ==
    /\ heap_end = HeapStart /\ blocks = {} /\ sp = HeapLimit /\ depth = 0
    /\ et = HeapStart /\ old_limit = 0 /\ active = "main" /\ pie = TRUE
    /\ prev = [main |-> NoCall, irq |-> NoCall] /\ overflow = "no"

SbrkNext ==
    \/ sbrk \/ Exit
    \/ \E incr \in Incrs : Refused(incr) \/ Extended(incr)
    \/ \E n \in Frames : Push(n) \/ Pop(n) \/ Entry(n)

SbrkSpec == SbrkInit /\ [][SbrkNext]_sbrkVars

-----------------------------------------------------------------------------
\* No byte is handed out twice, though interrupts take memory at any time.
\* "This function is called by the profiling code to allocate memory so must be
\* safe if called from an interrupt context."  (alt_sbrk.c.)
BlocksApart ==
    \A b, c \in blocks : b # c => b[2] <= c[1] \/ c[2] <= b[1]

\* "Extending the heap reduces the space available for the stack": with the checks
\* on, a program that is not stopped never has its stack in a block of the heap.
\* (alt_sbrk.c, alt_stack.h.)
StackFree == Running => \A b \in blocks : b[2] <= sp

\* The program is stopped only when stack and heap have met, and the exception stack
\* is compared "against the stack we switched away from as well".  (alt_sbrk.c.)
OverflowIsReal == ~Running => sp <= heap_end

\* Blocks of the heap are apart from each other and from the stack, and the program is
\* stopped only when they have met.  Holds with the checks on, for blocks of whole
\* words, without an exception stack: see the README for what the code does otherwise.
StackApart == BlocksApart /\ StackFree /\ OverflowIsReal
=============================================================================
