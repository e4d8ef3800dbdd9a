------------------------------- MODULE Alarms -------------------------------
(***************************************************************************)
(* alt_tick.c, alt_alarm_start.c and the linked list of alt_llist.h: the   *)
(* alarms of a board support package with a system clock.  The counter of  *)
(* ticks wraps.  alt_tick runs in the interrupt of the clock; a callback   *)
(* may itself start and stop alarms.                                       *)
(***************************************************************************)
EXTENDS Integers

CONSTANTS
    Alarm,            \* the alarms
    alt_alarm_list,   \* the head of the list of those that run
    Nil,              \* a pointer that was never set
    M,                \* the values of the counter, 2^32 in the system
    Ticks,            \* bound: the times asked for
    StopsNext         \* TRUE: a callback may stop the alarm that comes next

AlarmsAssumption ==
    /\ alt_alarm_list \notin Alarm /\ Nil \notin Alarm \cup {alt_alarm_list}
    /\ M \in Nat /\ M > 1 /\ Ticks \subseteq 0 .. M - 1 /\ StopsNext \in BOOLEAN

VARIABLES
    next, previous,      \* the list
    time, rollover,      \* of every alarm
    nticks, tick_rate,   \* _alt_nticks; whether _alt_tick_rate is set
    pc,                  \* "run", or in alt_tick: "tick", "callback"
    alarm, saved         \* its local variables, the latter next in the code

vars == <<next, previous, time, rollover, nticks, tick_rate, pc, alarm, saved>>
list == <<next, previous>>
clock == <<nticks, tick_rate>>
local == <<pc, alarm, saved>>

Listed(a) == next[a] \notin {Nil, a}

-----------------------------------------------------------------------------
(* The linked list.                                                        *)

alt_llist_insert(a) ==
    /\ next' = [next EXCEPT ![a] = next[alt_alarm_list], ![alt_alarm_list] = a]
    /\ previous' = [previous EXCEPT ![a] = alt_alarm_list, ![next[alt_alarm_list]] = a]

\* The entry points to itself, so that removing it again does no harm.
alt_llist_remove(a) ==
    /\ next' = [[next EXCEPT ![previous[a]] = next[a]] EXCEPT ![a] = a]
    /\ previous' = [[previous EXCEPT ![next[a]] = previous[a]] EXCEPT ![a] = a]

-----------------------------------------------------------------------------
(* Starting and stopping, by the program or by a callback.                 *)

\* Faulty form: no care is taken of the counter's wrap.
Sets_NoRollover(a, t) ==
    /\ time' = [time EXCEPT ![a] = t % M]
    /\ rollover' = [rollover EXCEPT ![a] = FALSE]

\* A time below the counter lies beyond its wrap.
Sets(a, t) ==
    /\ time' = [time EXCEPT ![a] = t % M]
    /\ rollover' = [rollover EXCEPT ![a] = t % M < nticks]

\* Without a clock the call is refused.  Only alarms that are not running are
\* started, and not the one whose callback this is: it returns its next time.
alt_alarm_start(a) ==
    /\ pc \in {"run", "callback"} /\ tick_rate
    /\ ~Listed(a) /\ (pc = "callback" => a # alarm)
    /\ \E n \in Ticks : Sets(a, n + nticks + 1)
    /\ alt_llist_insert(a)
    /\ UNCHANGED <<clock, local>>

alt_alarm_stop(a) ==
    /\ pc \in {"run", "callback"} /\ next[a] # Nil
    /\ pc = "callback" /\ a = saved => StopsNext
    /\ alt_llist_remove(a)
    /\ UNCHANGED <<time, rollover, clock, local>>

\* The driver of the first clock sets the rate.
alt_sysclk_init ==
    /\ ~tick_rate /\ tick_rate' = TRUE
    /\ UNCHANGED <<list, time, rollover, nticks, local>>

-----------------------------------------------------------------------------
(* alt_tick.                                                               *)

TickStarts ==
    /\ pc = "run" /\ tick_rate
    /\ pc' = "tick"
    /\ nticks' = (nticks + 1) % M
    /\ alarm' = next[alt_alarm_list]
    /\ UNCHANGED <<list, time, rollover, tick_rate, saved>>

\* The alarm that comes next is remembered; one that is due is called.
Visit ==
    LET over == rollover[alarm] /\ nticks # 0
    IN  /\ pc = "tick" /\ alarm # alt_alarm_list
        /\ saved' = next[alarm]
        /\ rollover' = [rollover EXCEPT ![alarm] = over]
        /\ IF time[alarm] <= nticks /\ ~over
           THEN pc' = "callback" /\ UNCHANGED alarm
           ELSE alarm' = saved' /\ UNCHANGED pc
        /\ UNCHANGED <<list, time, clock>>

\* The callback returns the ticks until its next call, or 0.
Returned ==
    /\ pc = "callback" /\ pc' = "tick"
    /\ \/ alt_llist_remove(alarm) /\ UNCHANGED <<time, rollover>>
       \/ \E n \in Ticks \ {0} : Sets(alarm, time[alarm] + n) /\ UNCHANGED list
    /\ alarm' = saved
    /\ UNCHANGED <<clock, saved>>

TickReturns ==
    /\ pc = "tick" /\ alarm = alt_alarm_list
    /\ pc' = "run"
    /\ UNCHANGED <<list, time, rollover, clock, alarm, saved>>

Tick == Visit \/ Returned \/ TickReturns

Init ==
    /\ next = [a \in Alarm \cup {alt_alarm_list} |-> IF a \in Alarm THEN Nil ELSE a]
    /\ previous = next
    /\ time = [a \in Alarm |-> 0] /\ rollover = [a \in Alarm |-> FALSE]
    /\ nticks = 0 /\ tick_rate = FALSE
    /\ pc = "run" /\ alarm = alt_alarm_list /\ saved = alt_alarm_list

Next ==
    \/ alt_sysclk_init \/ TickStarts \/ Tick
    \/ \E a \in Alarm : alt_alarm_start(a) \/ alt_alarm_stop(a)

Spec == Init /\ [][Next]_vars

\* The interrupt routine of the clock runs to its end, callbacks return.
FairSpec == Spec /\ WF_vars(Visit \/ TickReturns) /\ WF_vars(Returned)

-----------------------------------------------------------------------------
\* Taken from the head, the entries form one ring, in which previous is the way
\* back, and every other alarm is by itself.  (alt_llist.h.)
Pointers == [Alarm \cup {alt_alarm_list} -> Alarm \cup {alt_alarm_list, Nil}]
Ring == {alt_alarm_list} \cup {a \in Alarm : Listed(a)}

WellLinked ==
    /\ next \in Pointers /\ previous \in Pointers
    /\ \A a \in Ring : next[a] \in Ring /\ previous[next[a]] = a
    /\ \A S \in SUBSET Ring : alt_alarm_list \in S /\ (\A a \in S : next[a] \in S) => S = Ring
    /\ \A a \in Alarm \ Ring : previous[a] = next[a]

\* The ticks left until an alarm is due, from its time, its flag and the counter.
Left == [a \in Alarm |->
            IF ~Listed(a) THEN -1
            ELSE IF rollover[a] /\ nticks # 0 THEN time[a] + M - nticks
            ELSE time[a] - nticks]

\* Every alarm runs on its tick, across the wrap of the counter, whatever other
\* alarms are started and stopped between.  (alt_tick.c, alt_alarm_start.c.)
Promise == INSTANCE Timers WITH Alarms <- Alarm, left <- Left, Longest <- M - 1
RunsOnTime == Promise!Spec

\* The interrupt routine comes to its end.
TickEnds == pc = "tick" ~> pc = "run"

\* "alt_alarm_stop() is called to remove an alarm from the list of registered
\* alarms": its callback is not called any more.  (alt_tick.c.)
StoppedIsQuiet == [][pc = "tick" /\ pc' = "callback" => Listed(alarm)]_vars
=============================================================================
