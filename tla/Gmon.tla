-------------------------------- MODULE Gmon --------------------------------
(***************************************************************************)
(* Profiling: mcount (alt_mcount.S), which every function of a profiled    *)
(* program calls first, and alt_gmon.c.  Interrupts run profiled functions *)
(* as well, in the middle of mcount.  Entries are known by the order in    *)
(* which they were allocated; 0 is the null pointer.                       *)
(***************************************************************************)
EXTENDS Integers, Sequences, FiniteSetsExt

CONSTANTS
    Bucket,            \* of every self_pc, its place in the hash table
    MainArcs, IrqArcs, \* the pairs of self_pc and from_pc of either context
    TextBytes, PCSAMPLE_BYTES_PER_BUCKET,
    HeapLasts,         \* TRUE: sbrk has room for the histogram
    MaxCalls           \* bound: calls of mcount

GmonAssumption ==
    /\ \A arc \in MainArcs \cup IrqArcs : arc[1] \in DOMAIN Bucket
    /\ TextBytes \in Nat /\ PCSAMPLE_BYTES_PER_BUCKET \in Nat \ {0}
    /\ HeapLasts \in BOOLEAN /\ MaxCalls \in Nat

VARIABLES
    fn_head, fns, arcs,              \* the lists of mcount
    pcsample_need_init, tick_rate, s_pcsamples,    \* the histogram's length, 0 before
    bucket,                          \* the bucket last written, -1 before
    alarms,                          \* how often the alarm has been started
    cpu, active,                     \* registers of either context, which one runs
    calls,                           \* history: how often either context called an arc
    raced                            \* history: the arcs called between load and store

vars == <<fn_head, fns, arcs, pcsample_need_init, tick_rate, s_pcsamples, bucket,
          alarms, cpu, active, calls, raced>>
lists == <<fn_head, fns, arcs>>
sampling == <<pcsample_need_init, tick_rate, s_pcsamples, bucket, alarms>>
history == <<calls, raced>>

Quiet == [pc |-> "idle", self |-> 0, from |-> 0, r10 |-> 0, r3 |-> 0, r2 |-> 0]

Arcs == MainArcs \cup IrqArcs

\* How often a context made calls, of some arcs.
CallsOf(c, of) == MapThenSumSet(LAMBDA arc : calls[c][arc], of)

Me == cpu[active]
Goes(new) == cpu' = [cpu EXCEPT ![active] = new]

-----------------------------------------------------------------------------
(* mcount.                                                                 *)

Mcount ==
    /\ Me.pc = "idle"
    /\ CallsOf("main", Arcs) + CallsOf("irq", Arcs) < MaxCalls
    /\ \E arc \in IF active = "main" THEN MainArcs ELSE IrqArcs :
         /\ Goes([Quiet EXCEPT !.pc = "head", !.self = arc[1], !.from = arc[2]])
         /\ calls' = [calls EXCEPT ![active][arc] = @ + 1]
         /\ raced' = IF /\ active = "irq" /\ cpu["main"].pc = "store"
                       /\ arc = <<cpu["main"].self, cpu["main"].from>>
                    THEN raced \cup {arc} ELSE raced
    /\ UNCHANGED <<lists, sampling, active>>

\* The list of functions: one load, and one comparison.
FindFn ==
    LET r10 == IF Me.pc = "head" THEN fn_head[Bucket[Me.self]] ELSE fns[Me.r10].next
    IN  /\ Me.pc \in {"head", "fn"}
        /\ Goes([Me EXCEPT !.r10 = r10,
                           !.pc = IF r10 = 0 THEN "new"
                                  ELSE IF fns[r10].self = Me.self THEN "arc_head" ELSE "fn"])
        /\ UNCHANGED <<lists, sampling, active, history>>

\* The list of a function's callers.
FindArc ==
    LET r3 == IF Me.pc = "arc_head" THEN fns[Me.r10].arc_head ELSE arcs[Me.r3].next
    IN  /\ Me.pc \in {"arc_head", "arc"}
        /\ Goes([Me EXCEPT !.r3 = r3,
                           !.pc = IF r3 = 0 THEN "new"
                                  ELSE IF arcs[r3].from = Me.from THEN "found" ELSE "arc"])
        /\ UNCHANGED <<lists, sampling, active, history>>

\* The count is loaded, and stored one higher.
FoundLoad ==
    /\ Me.pc = "found"
    /\ Goes([Me EXCEPT !.r2 = arcs[Me.r3].count + 1, !.pc = "store"])
    /\ UNCHANGED <<lists, sampling, active, history>>

FoundStore ==
    /\ Me.pc = "store"
    /\ arcs' = [arcs EXCEPT ![Me.r3].count = Me.r2]
    /\ Goes(Quiet)
    /\ UNCHANGED <<fn_head, fns, sampling, active, history>>

-----------------------------------------------------------------------------
(* __mcount_record.                                                        *)

\* Sampling is started as soon as there is a clock.  The flag is down meanwhile,
\* for the functions called may be profiled themselves.
NeedInit ==
    /\ Me.pc = "new"
    /\ Goes([Me EXCEPT !.pc = IF pcsample_need_init THEN "claim" ELSE "record"])
    /\ UNCHANGED <<lists, sampling, active, history>>

ClaimInit ==
    /\ Me.pc = "claim" /\ pcsample_need_init' = FALSE
    /\ Goes([Me EXCEPT !.pc = "init"])
    /\ UNCHANGED <<lists, tick_rate, s_pcsamples, bucket, alarms, active, history>>

\* A full heap makes sbrk return -1, which the test for zero lets pass: sampling
\* starts with no histogram at all.
nios2_pcsample_init ==
    /\ Me.pc = "init"
    /\ pcsample_need_init' = ~tick_rate
    /\ IF tick_rate
       THEN /\ \E room \in {TRUE, HeapLasts} :
                 s_pcsamples' = IF room THEN TextBytes \div PCSAMPLE_BYTES_PER_BUCKET ELSE -1
            /\ alarms' = alarms + 1
       ELSE UNCHANGED <<s_pcsamples, alarms>>
    /\ Goes([Me EXCEPT !.pc = "record"])
    /\ UNCHANGED <<lists, tick_rate, bucket, active, history>>

\* Faulty form: the function takes the place of the others in its bucket.
Record_Unlinked ==
    LET id == IF Me.r10 = 0 THEN Len(fns) + 1 ELSE Me.r10
        b  == Bucket[Me.self]
        known == IF Me.r10 = 0
                 THEN Append(fns, [self |-> Me.self, next |-> 0, arc_head |-> 0]) ELSE fns
    IN  /\ Me.pc = "record"
        /\ arcs' = Append(arcs, [from |-> Me.from, next |-> known[id].arc_head, count |-> 1])
        /\ fns' = [known EXCEPT ![id].arc_head = Len(arcs) + 1]
        /\ fn_head' = [fn_head EXCEPT ![b] = IF Me.r10 = 0 THEN id ELSE @]
        /\ Goes(Quiet)
        /\ UNCHANGED <<sampling, active, history>>

\* With interrupts off a function that was not found is put at the head of its
\* bucket, and the arc at the head of the function's.
Record ==
    LET id == IF Me.r10 = 0 THEN Len(fns) + 1 ELSE Me.r10
        b  == Bucket[Me.self]
        known == IF Me.r10 = 0
                 THEN Append(fns, [self |-> Me.self, next |-> fn_head[b], arc_head |-> 0]) ELSE fns
    IN  /\ Me.pc = "record"
        /\ arcs' = Append(arcs, [from |-> Me.from, next |-> known[id].arc_head, count |-> 1])
        /\ fns' = [known EXCEPT ![id].arc_head = Len(arcs) + 1]
        /\ fn_head' = [fn_head EXCEPT ![b] = IF Me.r10 = 0 THEN id ELSE @]
        /\ Goes(Quiet)
        /\ UNCHANGED <<sampling, active, history>>

-----------------------------------------------------------------------------
(* Interrupts.                                                             *)

Interrupt ==
    /\ active = "main" /\ active' = "irq"
    /\ UNCHANGED <<lists, sampling, cpu, history>>

InterruptReturns ==
    /\ active = "irq" /\ cpu["irq"].pc = "idle" /\ active' = "main"
    /\ UNCHANGED <<lists, sampling, cpu, history>>

\* The alarm of the sampler: the bucket of the interrupted instruction.
nios2_pcsample ==
    /\ active = "irq" /\ s_pcsamples # 0
    /\ \E pc \in 0 .. TextBytes - 1 : bucket' = pc \div PCSAMPLE_BYTES_PER_BUCKET
    /\ UNCHANGED <<lists, pcsample_need_init, tick_rate, s_pcsamples, alarms, cpu, active, history>>

alt_sysclk_init ==
    /\ ~tick_rate /\ tick_rate' = TRUE /\ active = "main" /\ Me = Quiet
    /\ UNCHANGED <<lists, pcsample_need_init, s_pcsamples, bucket, alarms, cpu, active, history>>

Init ==
    /\ fn_head = [b \in {Bucket[s] : s \in DOMAIN Bucket} |-> 0] /\ fns = <<>> /\ arcs = <<>>
    /\ pcsample_need_init = TRUE /\ tick_rate = FALSE /\ s_pcsamples = 0
    /\ bucket = -1 /\ alarms = 0
    /\ cpu = [c \in {"main", "irq"} |-> Quiet] /\ active = "main"
    /\ calls = [c \in {"main", "irq"} |-> [arc \in Arcs |-> 0]] /\ raced = {}

Next ==
    \/ Mcount \/ FindFn \/ FindArc \/ FoundLoad \/ FoundStore
    \/ NeedInit \/ ClaimInit \/ nios2_pcsample_init \/ Record
    \/ Interrupt \/ InterruptReturns \/ nios2_pcsample \/ alt_sysclk_init

Spec == Init /\ [][Next]_vars

-----------------------------------------------------------------------------
\* What the host reads: the lists from every bucket on.
FnsFrom[id \in 0 .. Len(fns)] == IF id = 0 THEN {} ELSE {id} \cup FnsFrom[fns[id].next]

ArcsFrom[id \in 0 .. Len(arcs)] == IF id = 0 THEN {} ELSE {id} \cup ArcsFrom[arcs[id].next]

Counted(arc) ==
    LET listed == UNION {ArcsFrom[fns[f].arc_head] :
                            f \in {f \in UNION {FnsFrom[fn_head[b]] : b \in DOMAIN fn_head} :
                                      fns[f].self = arc[1]}}
    IN  MapThenSumSet(LAMBDA a : arcs[a].count, {a \in listed : arcs[a].from = arc[2]})

BetweenCalls == \A c \in DOMAIN cpu : cpu[c].pc = "idle"

\* "It's safe for the code above to be stepping through the chain and be interrupted
\* by this code modifying it": between calls the host finds every arc as often as it was
\* called, and adds up what is listed twice.  An arc that an interrupt called between the
\* load and the store of its count is the exception, and the only one: of its calls, the
\* interrupt's may be lost, but never the program's.  (alt_gmon.c:152, alt_mcount.S:120.)
CountsKept ==
    BetweenCalls =>
        \A arc \in Arcs :
            LET made == CallsOf("main", {arc}) + CallsOf("irq", {arc})
            IN  /\ Counted(arc) \in CallsOf("main", {arc}) .. made
                /\ arc \notin raced => Counted(arc) = made

\* "This function might be called at interrupt time so must be able to cope with
\* reentrancy": no call is lost.  (alt_gmon.c.)
CountsExact ==
    BetweenCalls =>
        \A arc \in Arcs : Counted(arc) = CallsOf("main", {arc}) + CallsOf("irq", {arc})

\* "If we're within the profilable range then increment the relevant bucket in
\* the histogram": the histogram has that bucket.  (alt_gmon.c.)
HistogramFits == bucket # -1 => bucket < s_pcsamples

\* "This function might be called at interrupt time so must be able to cope with
\* reentrancy": the sampler's alarm is started once.  (alt_gmon.c.)
StartsOnce == alarms <= 1
=============================================================================
