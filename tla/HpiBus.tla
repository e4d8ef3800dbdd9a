------------------------------- MODULE HpiBus -------------------------------
(***************************************************************************)
(* The way from the program to the USB chip: the stores and loads of       *)
(* io_handler.c, the parallel ports of system.h, the registers of          *)
(* hpi_io_intf.sv and the chip's side of the bus, clock by clock.          *)
(***************************************************************************)
EXTENDS Integers, Sequences

CONSTANTS
    Ports, Values, Owned, None,    \* as in HpiPorts
    Gap,          \* fewest clocks from one access of the processor to the next
    Resets        \* TRUE: Reset_h may come at any clock

BusAssumption ==
    /\ Ports \subseteq 0 .. 2^2 - 1 /\ 0 \in Ports /\ Owned \subseteq Ports
    /\ Values \subseteq 0 .. 2^16 - 1 /\ 0 \in Values /\ None \notin Values
    /\ Gap \in Nat \ {0} /\ Resets \in BOOLEAN

VARIABLES
    code, call, temp,     \* io_handler: the accesses left to do, the call, temp
    wait,                 \* clocks until the processor may access the bus again
    pio, readdata,        \* the parallel ports
    from_sw_data_in, from_sw_data_out_buffer, otg,    \* hpi_io_intf
    chip,                 \* the ports of the chip
    accesses, may         \* history: the chip's accesses, what a read may return

program == <<code, call, temp>>
busVars == <<program, wait, pio, readdata, from_sw_data_in, from_sw_data_out_buffer, otg,
          chip, accesses, may>>

-----------------------------------------------------------------------------
(* system.h: the addresses of the parallel ports and their widths.         *)

Slave ==
    [address |-> [base |-> 16^7 + 4336, width |-> 2],
     cs      |-> [base |-> 16^7 + 4272, width |-> 1],
     data    |-> [base |-> 16^7 + 4320, width |-> 16],
     r       |-> [base |-> 16^7 + 4304, width |-> 1],
     reset   |-> [base |-> 16^7 + 4256, width |-> 1],
     w       |-> [base |-> 16^7 + 4288, width |-> 1]]

Span == 16

\* The ports that a store to the address of p reaches.
Reached(p) ==
    {q \in DOMAIN Slave : Slave[p].base \in Slave[q].base .. Slave[q].base + Span - 1}

-----------------------------------------------------------------------------
(* io_handler.c: each routine is a list of stores and loads.               *)

IO_init ==
    <<<<"reset", 1>>, <<"cs", 1>>, <<"r", 1>>, <<"w", 1>>, <<"address", 0>>, <<"data", 0>>,
      <<"cs", 0>>, <<"reset", 0>>, <<"reset", 1>>, <<"cs", 1>>>>

\* Faulty form: the strobe ends before the data are there.
IO_write_Late(a, d) ==
    <<<<"address", a>>, <<"cs", 0>>, <<"w", 0>>, <<"w", 1>>, <<"data", d>>, <<"cs", 1>>>>

\* Faulty form: the address comes within the strobe.
IO_write_AddressLast(a, d) ==
    <<<<"cs", 0>>, <<"w", 0>>, <<"data", d>>, <<"address", a>>, <<"w", 1>>, <<"cs", 1>>>>

IO_write(a, d) ==
    <<<<"address", a>>, <<"cs", 0>>, <<"w", 0>>, <<"data", d>>, <<"w", 1>>, <<"cs", 1>>>>

IO_read(a) ==
    <<<<"address", a>>, <<"r", 0>>, <<"cs", 0>>, <<"load">>, <<"cs", 1>>, <<"r", 1>>>>

-----------------------------------------------------------------------------
(* hpi_io_intf.sv and the bus.                                             *)

Released == [address |-> 0, r |-> 1, w |-> 1, cs |-> 1, reset |-> 1]

\* Nobody drives the bus when neither strobe is active: any value may be read.
Bus ==
    IF otg.w = 0 THEN {from_sw_data_out_buffer}
    ELSE IF otg.r = 0 /\ otg.cs = 0 THEN {chip[otg.address]}
    ELSE Values

Interface(Reset) ==
    IF Reset
    THEN /\ otg' = Released
         /\ from_sw_data_out_buffer' = 0 /\ from_sw_data_in' = 0
    ELSE /\ otg' = [p \in DOMAIN otg |-> pio[p]]
         /\ from_sw_data_out_buffer' = pio.data
         /\ from_sw_data_in' \in Bus

\* The chip takes what is on the bus when the write strobe ends.
Strobe(s) == otg.cs = 0 /\ otg[s] = 0 /\ (otg'.cs = 1 \/ otg'[s] = 1)

Chip ==
    IF otg.reset = 0
    THEN chip' = [p \in Ports |-> 0]
    ELSE chip' = IF Strobe("w") THEN [chip EXCEPT ![otg.address] = from_sw_data_out_buffer]
                 ELSE chip

-----------------------------------------------------------------------------
(* The processor: one access, with Gap clocks or more from each to the next. *)

Idle == [op |-> "none", address |-> 0, data |-> 0]

Begin ==
    /\ code = <<>> /\ call = Idle
    /\ \E a \in Ports :
         \/ /\ call' = [Idle EXCEPT !.op = "read", !.address = a]
            /\ code' = IO_read(a) /\ temp' = None /\ may' = {chip[a]}
         \/ \E d \in Values :
              /\ call' = [op |-> "write", address |-> a, data |-> d]
              /\ code' = IO_write(a, d) /\ UNCHANGED <<temp, may>>
    /\ UNCHANGED <<pio, wait>>

Access ==
    /\ code # <<>> /\ wait = 0
    /\ code' = Tail(code) /\ wait' = Gap - 1
    /\ call' = IF Len(code) = 1 THEN Idle ELSE call
    /\ LET to == Head(code)
       IN  IF to[1] = "load"
           THEN temp' = readdata /\ UNCHANGED pio
           ELSE /\ pio' = [p \in DOMAIN pio |-> IF p \in Reached(to[1])
                                              THEN to[2] % 2^Slave[p].width ELSE pio[p]]
                /\ UNCHANGED temp
    /\ UNCHANGED may

NoAccess ==
    /\ wait' = IF wait = 0 THEN 0 ELSE wait - 1
    /\ UNCHANGED <<program, pio, may>>

\* History: the chip's accesses since the call began.
Counted ==
    accesses' = IF code = <<>> /\ code' # <<>> THEN 0
                ELSE IF accesses < 2 /\ (Strobe("w") \/ Strobe("r")) THEN accesses + 1
                ELSE accesses

BusClock ==
    /\ \E Reset \in BOOLEAN : (Reset => Resets) /\ Interface(Reset)
    /\ Chip
    /\ readdata' = from_sw_data_in
    /\ Begin \/ Access \/ NoAccess
    /\ Counted

\* The chip changes a port of its own, at a moment that has nothing to do with
\* the clock.
Change(p, v) ==
    /\ chip' = [chip EXCEPT ![p] = v]
    /\ may' = IF call.op = "read" /\ call.address = p THEN may \cup {v} ELSE may
    /\ UNCHANGED <<program, wait, pio, readdata, from_sw_data_in, from_sw_data_out_buffer,
                   otg, accesses>>

\* The registers of the FPGA and the ports power up at zero.
BusInit ==
    /\ code = IO_init /\ call = [Idle EXCEPT !.op = "init"] /\ temp = None /\ wait = 0
    /\ pio = [p \in DOMAIN Slave |-> 0] /\ readdata = 0
    /\ otg = [p \in DOMAIN Released |-> 0]
    /\ from_sw_data_in = 0 /\ from_sw_data_out_buffer = 0
    /\ chip \in {[p \in Ports |-> v] : v \in Values}
    /\ accesses = 0 /\ may = {}

BusNext == BusClock \/ \E p \in Owned, v \in Values : Change(p, v)

BusSpec == BusInit /\ [][BusNext]_busVars

-----------------------------------------------------------------------------
\* A reset in the middle of a write may spoil its data, but whatever the moment,
\* no other port is written.  (hpi_io_intf.sv, Reset.)
OnlyItsPort ==
    [][\A p \in Ports \ Owned : chip'[p] # chip[p] =>
        call.op = "init" \/ (call.op = "write" /\ call.address = p)]_busVars
=============================================================================
