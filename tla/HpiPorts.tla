------------------------------ MODULE HpiPorts ------------------------------
(***************************************************************************)
(* What the program expects of the USB chip's four ports: a write happens  *)
(* once and to its port only, a read is one access and returns what the    *)
(* port held during the call.  Access by access, because each one to the   *)
(* data port moves the chip on to the next word of its memory.             *)
(***************************************************************************)
EXTENDS Integers

CONSTANTS
    Ports, Values,
    Owned,         \* the ports whose contents the chip changes
    None           \* no value read yet

VARIABLES call, ports, accesses, may, result

vars == <<call, ports, accesses, may, result>>

Idle == [op |-> "none", address |-> 0, data |-> 0]

Init ==
    /\ call = [Idle EXCEPT !.op = "init"]
    /\ ports \in [Ports -> Values]
    /\ accesses = 0 /\ may = {} /\ result = None

\* Until the chip has been reset, anything may happen to its ports.
Starting ==
    /\ call.op = "init" /\ ports' \in [Ports -> Values] /\ accesses' \in 0 .. 2
    /\ UNCHANGED <<call, may, result>>

Started ==
    /\ call.op = "init" /\ call' = Idle
    /\ \A p \in Ports \ Owned : ports[p] = 0
    /\ UNCHANGED <<ports, accesses, may, result>>

Write(a, d) ==
    /\ call = Idle /\ call' = [op |-> "write", address |-> a, data |-> d]
    /\ accesses' = 0
    /\ UNCHANGED <<ports, may, result>>

Take ==
    /\ call.op = "write" /\ accesses = 0
    /\ accesses' = 1
    /\ ports' = [ports EXCEPT ![call.address] = call.data]
    /\ UNCHANGED <<call, may, result>>

Read(a) ==
    /\ call = Idle /\ call' = [Idle EXCEPT !.op = "read", !.address = a]
    /\ accesses' = 0 /\ may' = {ports[a]} /\ result' = None
    /\ UNCHANGED ports

Answer ==
    /\ call.op = "read" /\ accesses = 0 /\ result = None
    /\ result' \in may
    /\ UNCHANGED <<call, ports, accesses, may>>

Advance ==
    /\ call.op = "read" /\ accesses = 0 /\ result # None
    /\ accesses' = 1
    /\ UNCHANGED <<call, ports, may, result>>

Return ==
    /\ call.op \in {"read", "write"} /\ accesses = 1
    /\ call' = Idle
    /\ UNCHANGED <<ports, accesses, may, result>>

Change(p, v) ==
    /\ p \in Owned
    /\ ports' = [ports EXCEPT ![p] = v]
    /\ may' = IF call.op = "read" /\ call.address = p THEN may \cup {v} ELSE may
    /\ UNCHANGED <<call, accesses, result>>

Next ==
    \/ Starting \/ Started \/ Take \/ Answer \/ Advance \/ Return
    \/ \E p \in Ports : Read(p) \/ \E v \in Values : Write(p, v) \/ Change(p, v)

Spec == Init /\ [][Next]_vars
=============================================================================
