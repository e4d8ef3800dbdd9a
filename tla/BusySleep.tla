----------------------------- MODULE BusySleep -----------------------------
(***************************************************************************)
(* alt_busy_sleep.c: usleep as a counted loop.  A long sleep is cut into   *)
(* chunks of as many turns as a register can count.                        *)
(***************************************************************************)
EXTENDS Integers

CONSTANTS
    INT_MAX,            \* the largest signed word
    CPU_FREQ,           \* cycles in a microsecond
    tiny,               \* TRUE: the small processor
    Asked               \* bound: the microseconds asked for

SleepAssumption ==
    /\ INT_MAX \in Nat /\ CPU_FREQ \in Nat /\ CPU_FREQ > 9 /\ INT_MAX > CPU_FREQ
    /\ tiny \in BOOLEAN /\ Asked \subseteq 0 .. 2 * INT_MAX + 1

VARIABLES
    us, big_loops, i,      \* local variables
    asked, turns,          \* history: what was asked for, the turns made
    pc

vars == <<us, big_loops, i, asked, turns, pc>>

cycles_per_loop == IF tiny THEN 9 ELSE 3
PerMicro == CPU_FREQ \div cycles_per_loop
Chunk == INT_MAX \div PerMicro

-----------------------------------------------------------------------------

\* The loop counts down first and goes on until it meets zero.
UntilZero(r) == IF r = 0 THEN 2 * INT_MAX + 2 ELSE r

\* The loop goes on while the count is positive.
WhilePositive(r) == IF r = 0 THEN 1 ELSE r

Call ==
    /\ pc = "idle"
    /\ us' \in Asked /\ asked' = us' /\ turns' = 0
    /\ big_loops' = us' \div Chunk /\ i' = 0
    /\ pc' = IF big_loops' = 0 THEN "small" ELSE "big"

\* The register that held INT_MAX is zero after the loop.  The compiler has not
\* been told: it may load the register anew for the next turn, or not.
BigLoop ==
    /\ pc = "big" /\ i < big_loops
    /\ \E r \in {INT_MAX} \cup (IF i > 0 THEN {0} ELSE {}) : turns' = turns + UntilZero(r)
    /\ us' = us - Chunk /\ i' = i + 1
    /\ UNCHANGED <<big_loops, asked, pc>>

Rest ==
    /\ pc = "big" /\ i = big_loops
    /\ turns' = turns + UntilZero(us * PerMicro)
    /\ pc' = "return"
    /\ UNCHANGED <<us, big_loops, i, asked>>

Small ==
    /\ pc = "small"
    /\ turns' = turns + WhilePositive(us * PerMicro)
    /\ pc' = "return"
    /\ UNCHANGED <<us, big_loops, i, asked>>

Return == pc = "return" /\ pc' = "idle" /\ UNCHANGED <<us, big_loops, i, asked, turns>>

Init == us = 0 /\ big_loops = 0 /\ i = 0 /\ asked = 0 /\ turns = 0 /\ pc = "idle"

Next == Call \/ BigLoop \/ Rest \/ Small \/ Return

Spec == Init /\ [][Next]_vars

-----------------------------------------------------------------------------

\* "equivalent to for (i=0;i<us*(ALT_CPU_FREQ/3);i++);": the turns are those of
\* one counted loop, up to what a chunk's size is rounded by and the one turn of
\* a sleep of nothing.  (alt_busy_sleep.c.)
OneLoop ==
    pc = "return" =>
        /\ turns >= asked * PerMicro
        /\ turns <= asked * PerMicro + 1 + big_loops * PerMicro

\* "Calibrated delay": a sleep is not shorter than asked for.  (alt_busy_sleep.c.)
Calibrated == pc = "return" => turns * cycles_per_loop >= asked * CPU_FREQ
=============================================================================
