----------------------------- MODULE MCServices -----------------------------
(***************************************************************************)
(* The services of the board support package, which know nothing of each   *)
(* other: alarms (Alarms), time of day (TimeOfDay), busy sleep (BusySleep), *)
(* caches (Caches), profiling (Gmon), start-up (Start), heap and stack     *)
(* (Sbrk), formatting (LogPrintf) and the emulated instructions (MulDiv).  *)
(* A behaviour is one of them, while the rest stands still.                *)
(***************************************************************************)
EXTENDS Sbrk, TimeOfDay, Caches, Start, MulDiv

CONSTANTS
    Alarm, alt_alarm_list      \* of Alarms

VARIABLES
    next, previous, time, rollover, alarm_nticks, alarm_tick_rate,             \* Alarms
    pc, alarm, saved,
    us, big_loops, turn, asked, turns, sleep_pc,                               \* BusySleep
    fn_head, fns, arcs, pcsample_need_init, gmon_tick_rate, s_pcsamples,       \* Gmon
    bucket, alarms, cpu, gmon_active, calls, raced,
    who, message, fmt, state, zero, base, signed, upper, log_before, after, arg,        \* LogPrintf
    v, p, vShrink, digitCount, digit_shift, out, from, seen,
    part                                                                       \* which runs

alarmVars == <<next, previous, time, rollover, alarm_nticks, alarm_tick_rate, pc, alarm,
               saved>>
sleepVars == <<us, big_loops, turn, asked, turns, sleep_pc>>
gmonVars  == <<fn_head, fns, arcs, pcsample_need_init, gmon_tick_rate, s_pcsamples, bucket,
               alarms, cpu, gmon_active, calls, raced>>
printVars == <<who, message, fmt, state, zero, base, signed, upper, log_before, after, arg,
               v, p, vShrink, digitCount, digit_shift, out, from, seen>>

clockVars   == <<alarmVars, timeVars, sleepVars>>
memoryVars  == <<cacheVars, startVars, sbrkVars>>
programVars == <<gmonVars, printVars, mulDivVars>>

-----------------------------------------------------------------------------
(* Time.                                                                   *)

\* A counter of two bits, which wraps around all the time.
Clock == INSTANCE Alarms
    WITH Nil <- None, M <- 4, Ticks <- {0, 1, 2}, StopsNext <- FALSE,
         nticks <- alarm_nticks, tick_rate <- alarm_tick_rate

\* Words of eleven bits, so that a chunk is 204 microseconds; sleeps below, at and above
\* every number of chunks that there can be.
Sleep == INSTANCE BusySleep
    WITH INT_MAX <- 1023, CPU_FREQ <- 50, tiny <- TRUE,
         Asked <- {204 * n + d : n \in 0 .. 9, d \in 0 .. 3} \cup {204 * n - 1 : n \in 1 .. 10}
                  \cup 2040 .. 2047,
         i <- turn, pc <- sleep_pc

-----------------------------------------------------------------------------
(* Memory.                                                                 *)

\* The caches of the cfg are flushed, in regions of every alignment, shorter and longer
\* than the cache; here, blocks of the heap.
HeapCache == INSTANCE Caches WITH Lengths <- {}, Sizes <- {1, 2, 3}

\* Memory: data and its image, exception code and its image, a section that is where
\* its image is, and four words of bss.
Loaded == <<[from |-> 1, to |-> 0, end |-> 1], [from |-> 3, to |-> 2, end |-> 3],
            [from |-> 4, to |-> 4, end |-> 5]>>

-----------------------------------------------------------------------------
(* The program.                                                            *)

\* Three functions, two of them in one bucket; the interrupt calls two of them from
\* elsewhere and makes one of the program's own calls.
Profile == INSTANCE Gmon
    WITH Bucket <- [s \in {"f", "g", "h"} |-> IF s = "h" THEN 1 ELSE 0],
         MainArcs <- {<<"f", 1>>, <<"f", 2>>, <<"g", 1>>, <<"h", 1>>},
         IrqArcs <- {<<"f", 1>>, <<"f", 3>>, <<"g", 3>>}, HeapLasts <- TRUE,
         TextBytes <- 64, PCSAMPLE_BYTES_PER_BUCKET <- 32, MaxCalls <- 4,
         tick_rate <- gmon_tick_rate, active <- gmon_active

\* Every conversion, with a width, with zeros, and with what is not a conversion.
LogFormats ==
    {<<"%", "d">>, <<"t", "%", "5", "d">>, <<"%", "0", "5", "d">>, <<"%", "x", "t">>,
     <<"%", "0", "1", "2", "X">>, <<"%", "3", "l", "u">>, <<"%", "o">>, <<"%", "c">>,
     <<"%", "3", "s">>, <<"%", "%", "t">>, <<"%", "7", ".", "2", "i">>,
     <<"%", "q", "t">>, <<"%", "5", "%">>}
ShortFormats ==
    {<<"t", "%", "x">>, <<"%", "c", "t">>, <<"%", "s">>, <<"%", "%">>, <<"%">>, <<"%", "d", "t">>}

Printer == INSTANCE LogPrintf
    WITH W <- 8, Formats <- LogFormats, AltFormats <- ShortFormats, ECHO_LEN <- 4,
         Levels <- -1 .. 3, before <- log_before,
         Texts <- {<<>>, <<"a">>, <<"a", "b">>, <<"a", "^D", "b">>, <<"a", "b", "a", "b">>,
                   <<"b", "b", "a", "a", "^D">>}

\* The words of the emulation have four bits: all operands, in registers of every kind.
PowersOfTwo == [i \in 0 .. 4 |-> 2 ^ i]
Untouched == [i \in Registers |-> 0]

ASSUME ServicesAssumption ==
    /\ Clock!AlarmsAssumption /\ Clock!Promise!TimersAssumption
    /\ TimeAssumption /\ Sleep!SleepAssumption
    /\ CachesAssumption /\ HeapCache!CachesAssumption
    /\ StartAssumption
    /\ Profile!GmonAssumption /\ Printer!LogPrintfAssumption /\ MulDivAssumption

-----------------------------------------------------------------------------
Parts == {"alarms", "day", "sleep", "cache", "heap", "start", "sbrk", "gmon", "printf", "muldiv"}

Init ==
    /\ part \in Parts
    /\ Clock!Init /\ TimeInit /\ Sleep!Init /\ SbrkInit /\ Profile!Init
    /\ IF part = "heap" THEN HeapCache!CachesInit ELSE CachesInit
    /\ IF part = "start" THEN StartInit
       ELSE /\ memory = <<>> /\ data_cache = <<>> /\ code_cache = <<>> /\ stage = "off"
            /\ r2 = 0 /\ section = 1 /\ status_pie = FALSE /\ ienable = FALSE /\ line = FALSE
            /\ resets = 0
    /\ part # "printf" => /\ who = "log" /\ fmt = <<>> /\ state = "call" /\ arg = <<>>
                          /\ message = [kind |-> "write", level |-> 0]
    /\ Printer!Init
    /\ IF part = "muldiv" THEN MulDivInit
       ELSE place = "entry" /\ insn = <<>> /\ r = Untouched /\ slot = r /\ before = r

Runs(x) == part = x /\ part' = x

Next ==
    \/ Runs("alarms") /\ Clock!Next /\ UNCHANGED <<timeVars, sleepVars, memoryVars, programVars>>
    \/ Runs("day") /\ TimeNext /\ UNCHANGED <<alarmVars, sleepVars, memoryVars, programVars>>
    \/ Runs("sleep") /\ Sleep!Next /\ UNCHANGED <<alarmVars, timeVars, memoryVars, programVars>>
    \/ Runs("cache") /\ CachesNext /\ UNCHANGED <<startVars, sbrkVars, clockVars, programVars>>
    \/ Runs("heap") /\ HeapCache!CachesNext
                    /\ UNCHANGED <<startVars, sbrkVars, clockVars, programVars>>
    \/ Runs("start") /\ StartNext /\ UNCHANGED <<cacheVars, sbrkVars, clockVars, programVars>>
    \/ Runs("sbrk") /\ SbrkNext /\ UNCHANGED <<cacheVars, startVars, clockVars, programVars>>
    \/ Runs("gmon") /\ Profile!Next /\ UNCHANGED <<printVars, mulDivVars, clockVars, memoryVars>>
    \/ Runs("printf") /\ Printer!Next /\ UNCHANGED <<gmonVars, mulDivVars, clockVars, memoryVars>>
    \/ Runs("muldiv") /\ MulDivNext /\ UNCHANGED <<gmonVars, printVars, clockVars, memoryVars>>

\* The interrupt routine of the clock runs to its end, callbacks return.
ClockStep    == part = "alarms" /\ (Clock!Visit \/ Clock!TickReturns)
CallbackStep == part = "alarms" /\ Clock!Returned

Spec ==
    /\ Init /\ [][Next]_<<clockVars, memoryVars, programVars, part>>
    /\ WF_alarmVars(ClockStep) /\ WF_alarmVars(CallbackStep)

-----------------------------------------------------------------------------
(* The properties of the parts, of the lines named there.  ClockRight,     *)
(* NothingStays, StartsFresh, StackApart and Emulates are as TimeOfDay,    *)
(* Caches, Start, Sbrk and MulDiv state them.                              *)

\* Every alarm runs on its tick, across the wrap of the counter, and the interrupt
\* routine of the clock ends, though callbacks start and stop alarms.
RunsOnTime == Clock!RunsOnTime /\ Clock!TickEnds

\* The host finds every arc as often as it was called, but for the calls of an interrupt
\* that broke into the program's own count of the same arc; none of the program's is lost.
\* (alt_gmon.c:152, alt_mcount.S:120.)
CountsKept == part = "gmon" => Profile!CountsKept


\* What is printed is the argument, in the form asked for.
Prints == part = "printf" => Printer!Prints
=============================================================================
