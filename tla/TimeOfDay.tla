----------------------------- MODULE TimeOfDay -----------------------------
(***************************************************************************)
(* alt_gettod.c and alt_settod.c: the time of day is kept as the time that *)
(* it was at reset, in seconds and microseconds, to which the ticks of the *)
(* system clock are added.  Words are taken modulo M.                      *)
(***************************************************************************)
EXTENDS Integers

CONSTANTS
    ALT_US,       \* microseconds in a second
    Rate,         \* ticks per second
    M,            \* values of a word, 2^32 in the system
    LastTick,     \* bound: ticks counted
    Times         \* bound: the seconds that the clock is set to

TimeAssumption ==
    /\ ALT_US \in Nat \ {0} /\ Rate \in 1 .. ALT_US
    /\ M \in Nat /\ M > 2 * ALT_US /\ LastTick \in 0 .. M - 1 /\ Times \subseteq Nat

VARIABLES
    nticks, tick_rate,     \* of alt_tick.c
    alt_resettime,         \* the time at reset
    wall                   \* history: the microseconds a right clock shows

timeVars == <<nticks, tick_rate, alt_resettime, wall>>

Signed(x) == IF x % M >= M \div 2 THEN (x % M) - M ELSE x % M

MicrosPerTick == ALT_US \div Rate

-----------------------------------------------------------------------------
\* One turn of either loop is enough: both summands are below a second.
Borrowed(t) ==
    IF t.usec >= 0 THEN t
    ELSE IF t.sec <= 0 THEN [sec |-> 0, usec |-> 0]
    ELSE [sec |-> t.sec - 1, usec |-> t.usec + ALT_US]

\* Faulty form: a whole second of microseconds is left.
Carried_None(t) == t

Carried(t) ==
    IF t.usec >= ALT_US THEN [sec |-> t.sec + 1, usec |-> t.usec - ALT_US] ELSE t

\* The product is taken in 64 bits.
alt_gettimeofday ==
    Carried(Borrowed(
        [sec  |-> Signed(alt_resettime.sec + nticks \div tick_rate),
         usec |-> Signed(alt_resettime.usec + ((nticks * MicrosPerTick) % ALT_US))]))

\* The product is taken in 32 bits.  Without a clock nothing is set.
alt_settimeofday(s, u) ==
    /\ tick_rate # 0
    /\ alt_resettime' = [sec  |-> Signed(s - nticks \div tick_rate),
                         usec |-> Signed(u - (((nticks * MicrosPerTick) % M) % ALT_US))]
    /\ wall' = s * ALT_US + u
    /\ UNCHANGED <<nticks, tick_rate>>

alt_sysclk_init ==
    /\ tick_rate = 0 /\ tick_rate' = Rate
    /\ UNCHANGED <<nticks, alt_resettime, wall>>

alt_tick ==
    /\ tick_rate # 0 /\ nticks < LastTick
    /\ nticks' = nticks + 1
    /\ wall' = wall + MicrosPerTick
    /\ UNCHANGED <<tick_rate, alt_resettime>>

TimeInit ==
    /\ nticks = 0 /\ tick_rate = 0
    /\ alt_resettime = [sec |-> 0, usec |-> 0] /\ wall = 0

TimeNext ==
    \/ alt_tick \/ alt_sysclk_init
    \/ \E s \in Times, u \in 0 .. ALT_US - 1 : alt_settimeofday(s, u)

TimeSpec == TimeInit /\ [][TimeNext]_timeVars

-----------------------------------------------------------------------------
\* The clock shows the time it was last set to and what has gone by since, to
\* the microsecond, a proper time in both fields.  (alt_gettod.c, alt_settod.c.)
ClockRight ==
    tick_rate # 0 =>
        /\ alt_gettimeofday.sec * ALT_US + alt_gettimeofday.usec = wall
        /\ alt_gettimeofday.usec \in 0 .. ALT_US - 1

\* "an immediate call to gettimeofday() would return the value specified by "t""
\* (alt_settod.c), at whatever moment the clock is set.
SetThenGet ==
    [][alt_resettime' # alt_resettime =>
        (alt_gettimeofday.sec * ALT_US + alt_gettimeofday.usec = wall)']_timeVars
=============================================================================
