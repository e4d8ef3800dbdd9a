------------------------------- MODULE Timers -------------------------------
(***************************************************************************)
(* What alarms promise: each runs when as many ticks have gone by as were  *)
(* asked for, no tick sooner and none later, and not after it was stopped. *)
(***************************************************************************)
EXTENDS Integers

CONSTANTS Alarms, Longest

TimersAssumption == Longest \in Nat

VARIABLE left       \* the ticks left until an alarm runs, Off if it is stopped

Off == -1

Init == left = [a \in Alarms |-> Off]

\* n ticks are to elapse: the alarm runs at the tick after them.
Start(a, n) == left[a] = Off /\ left' = [left EXCEPT ![a] = n + 1]

Stop(a) == left' = [left EXCEPT ![a] = Off]

\* There is no tick while an alarm is waiting to run.
Tick ==
    /\ \A a \in Alarms : left[a] # 0
    /\ left' = [a \in Alarms |-> IF left[a] = Off THEN Off ELSE left[a] - 1]

\* The callback says when it wants to run again, or 0 for never.
Run(a, n) ==
    /\ left[a] = 0
    /\ left' = [left EXCEPT ![a] = IF n = 0 THEN Off ELSE n]

Next ==
    \/ Tick
    \/ \E a \in Alarms : Stop(a) \/ \E n \in 0 .. Longest : Start(a, n) \/ Run(a, n)

Spec == Init /\ [][Next]_left
=============================================================================
