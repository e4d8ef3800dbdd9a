--------------------------- MODULE Drivers_proofs ---------------------------
(***************************************************************************)
(* Two drivers, each between the program and a device that runs by itself, *)
(* and what comes before them.  The bus interface of the USB chip          *)
(* (HpiBus), whose lines follow the parallel ports a clock later, and the  *)
(* driver of the JTAG UART (JtagUart), whose interrupt routine and host    *)
(* move between any two steps of the program: for both, the invariant says *)
(* what one side relies on in the other, and the driver is shown to        *)
(* implement what it promises, ports that are read and written at once and *)
(* two channels that lose, double and reorder nothing.  The start-up       *)
(* (Start), after a reset at any moment: the program starts in a fresh     *)
(* memory, and no interrupt comes before a driver has registered for it.   *)
(***************************************************************************)
EXTENDS HpiBus, JtagUart, Start, SequenceTheorems, TLAPS

-----------------------------------------------------------------------------
(* The bus of the USB chip: where the call is, and what the lines show.     *)

\* The strobes, the select and the reset line that a routine has set with k accesses left.
LinesOf(op, k) ==
    CASE op = "init" -> [reset |-> IF k \in {10, 2} THEN 0 ELSE 1,
                         cs    |-> IF k \in {10, 9, 3, 2, 1} THEN 0 ELSE 1,
                         r     |-> IF k \in {10, 9, 8} THEN 0 ELSE 1,
                         w     |-> IF k \in 7 .. 10 THEN 0 ELSE 1]
      [] op = "write" -> [reset |-> 1, cs |-> IF k \in 1 .. 4 THEN 0 ELSE 1,
                          r |-> 1, w |-> IF k \in {3, 2} THEN 0 ELSE 1]
      [] op = "read"  -> [reset |-> 1, cs |-> IF k \in {3, 2} THEN 0 ELSE 1,
                          r |-> IF k \in 1 .. 4 THEN 0 ELSE 1, w |-> 1]
      [] OTHER -> [reset |-> 1, cs |-> 1, r |-> 1, w |-> 1]

\* The accesses left to do.
Left == Len(code)

\* The accesses of the call in progress.
CallCode ==
    CASE call.op = "init"  -> IO_init
      [] call.op = "write" -> IO_write(call.address, call.data)
      [] call.op = "read"  -> IO_read(call.address)
      [] OTHER -> <<>>

\* The four lines show what the routine has set.
Show(lines, op, k) ==
    /\ lines.reset = LinesOf(op, k).reset /\ lines.cs = LinesOf(op, k).cs
    /\ lines.r = LinesOf(op, k).r /\ lines.w = LinesOf(op, k).w

\* The calls; what a routine does not use is zero.
BusCalls ==
    {c \in [op : {"none", "init", "read", "write"}, address : Ports, data : Values] :
        /\ c.op # "write" => c.data = 0
        /\ c.op \in {"none", "init"} => c.address = 0}

\* The parallel ports, and the accesses to them.
PioNames == {"address", "cs", "data", "r", "reset", "w"}
BusAccesses == {<<"load">>} \cup (PioNames \X Nat)

\* What the parallel ports hold.
PioRow == [address : Ports, cs : {0, 1}, data : Values, r : {0, 1}, reset : {0, 1}, w : {0, 1}]

\* Every variable keeps its type.
BusTypeOK ==
    /\ call \in BusCalls /\ code \in Seq(BusAccesses)
    /\ wait \in 0 .. Gap - 1
    /\ pio \in PioRow
    /\ otg \in [address : Ports, r : {0, 1}, w : {0, 1}, cs : {0, 1}, reset : {0, 1}]
    /\ from_sw_data_out_buffer \in Values
    /\ from_sw_data_in \in Values /\ readdata \in Values
    /\ chip \in [Ports -> Values] /\ may \subseteq Values
    /\ temp \in Values \cup {None}
    /\ accesses \in 0 .. 2

\* Where the program is in its routine.
InCode ==
    /\ call.op = "none" => Left = 0
    /\ call.op = "init" => Left \in 1 .. 10
    /\ call.op \in {"read", "write"} => Left \in 1 .. 6
    /\ \A i \in 1 .. Left : code[i] = CallCode[Len(CallCode) - Left + i]

\* The ports show what the routine has set, its address and its data among it.
PioRight ==
    /\ Show(pio, call.op, Left)
    /\ call.op \in {"read", "write"} /\ Left <= 5 => pio.address = call.address
    /\ call.op = "write" /\ Left <= 2 => pio.data = call.data

\* The chip is not reset but by IO_init, and a write strobe is for the port of the call.
LinesSafe ==
    /\ call.op # "init" => otg.reset = 1
    /\ call.op = "none" => otg.w = 1
    /\ otg.w = 0 => call.op = "init" \/ (call.op = "write" /\ otg.address = call.address)

\* Without resets: the chip's lines show what the ports show, or, in the clock after an
\* access, what they showed before it.
Lag ==
    /\ call.op = "none" => otg.w = 1 /\ otg.reset = 1 /\ (otg.cs = 1 \/ otg.r = 1)
    /\ call.op # "none" =>
         \/ Show(otg, call.op, Left)
         \/ /\ wait = Gap - 1 /\ Left < (IF call.op = "init" THEN 10 ELSE 6)
            /\ Show(otg, call.op, Left + 1)
    /\ call.op \in {"read", "write"} /\ Left <= 4 => otg.address = call.address
    /\ call.op = "write" /\ Left = 1 => from_sw_data_out_buffer = call.data

\* The chip has been reset by the end of IO_init, and accessed once by the end of a call.
Moved ==
    /\ call.op = "init" /\ Left = 1 /\ otg.reset = 1 => \A p \in Ports \ Owned : chip[p] = 0
    /\ call.op = "write" => accesses = (IF Left = 1 /\ otg.w = 1 THEN 1 ELSE 0)
    /\ call.op = "read" => accesses = (IF Left = 1 /\ otg.cs = 1 THEN 1 ELSE 0)

\* Nothing has been read before the load; from two clocks before it on, what comes in
\* is what the port held during the call.
Answers ==
    /\ call.op = "init" => temp = None
    /\ call.op = "read" =>
        /\ chip[call.address] \in may
        /\ Left >= 3 => temp = None
        /\ Left <= 2 => temp # None
        /\ Left = 3 /\ wait <= Gap - 3 => from_sw_data_in \in may
        /\ Left = 3 /\ wait <= Gap - 4 => readdata \in may

\* The program sees four ports.
Expected == INSTANCE HpiPorts WITH ports <- chip, result <- temp
ImplementsPorts == Expected!Spec

-----------------------------------------------------------------------------
(* The accesses of the routines.                                           *)

\* A value that fits is not changed by the width of its port.
LEMMA RemainderIs == \A m \in Nat \ {0} : \A v \in 0 .. m - 1 : v % m = v
  OBVIOUS

\* What the assumption says of the constants, in the form that the proofs use.
LEMMA Ranges ==
  ASSUME BusAssumption
  PROVE  /\ Ports \subseteq Nat /\ Values \subseteq Nat /\ Gap \in Nat /\ Gap >= 1
         /\ 0 \in Ports /\ 0 \in Values /\ None \notin Values /\ Owned \subseteq Ports
         /\ \A p \in Ports : p % 2^2 = p
         /\ \A v \in Values : v % 2^16 = v
         /\ 0 % 2^1 = 0 /\ 1 % 2^1 = 1
<1> DEFINE a == 2^2  d == 2^16
<1>1. a \in Nat \ {0} /\ d \in Nat \ {0}
  OBVIOUS
<1>2. Ports \subseteq 0 .. a - 1 /\ Values \subseteq 0 .. d - 1
  BY DEF BusAssumption
<1>3. Gap \in Nat \ {0}
  BY Zenon DEF BusAssumption
<1>4. 0 \in Ports /\ 0 \in Values /\ None \notin Values /\ Owned \subseteq Ports
  BY Zenon DEF BusAssumption
<1>5. 2^1 = 2
  OBVIOUS
<1>6. 0 % 2^1 = 0 /\ 1 % 2^1 = 1
  BY <1>5
<1> HIDE DEF a, d, BusAssumption
<1>7. /\ \A p \in Ports : p % a = p /\ p \in Nat
      /\ \A v \in Values : v % d = v /\ v \in Nat
  BY <1>1, <1>2, RemainderIs
<1>8. Gap \in Nat /\ Gap >= 1
  BY <1>3
<1> QED
  BY <1>4, <1>6, <1>7, <1>8 DEF a, d

\* No two ports share an address: a store reaches one port.  (system.h.)
LEMMA OnePortReached == \A p \in PioNames : Reached(p) = {p}
<1>1. 16^7 \in Int
  OBVIOUS
<1> DEFINE h == 16^7
<1>2. DOMAIN Slave = PioNames
  BY DEF Slave, PioNames
<1>3. /\ Slave["address"].base = h + 4336 /\ Slave["cs"].base = h + 4272
      /\ Slave["data"].base = h + 4320 /\ Slave["r"].base = h + 4304
      /\ Slave["reset"].base = h + 4256 /\ Slave["w"].base = h + 4288
  BY DEF Slave
<1> HIDE DEF h
<1> SUFFICES ASSUME NEW p \in PioNames PROVE Reached(p) = {p}
  OBVIOUS
<1>4. \A q \in PioNames :
        /\ Slave[q].base \in Int
        /\ Slave[p].base \in Slave[q].base .. Slave[q].base + 15 <=> p = q
  BY <1>1, <1>3 DEF PioNames, h
<1> QED
  BY <1>2, <1>4 DEF Reached, Span

\* The call in progress is one of a routine of io_handler.c, or none.
LEMMA CallIs ==
  ASSUME call \in BusCalls
  PROVE  /\ call.op \in {"none", "init", "read", "write"}
         /\ call.op = "none" => call = Idle
         /\ call.address \in Ports /\ call.data \in Values
  BY DEF BusCalls, Idle

\* The accesses of each call.
LEMMA CodeOf ==
  /\ call.op = "init" => CallCode = IO_init
  /\ call.op = "write" => CallCode = IO_write(call.address, call.data)
  /\ call.op = "read" => CallCode = IO_read(call.address)
  BY DEF CallCode

\* The next access is the one of its routine that the number left tells.
LEMMA HeadIs ==
  ASSUME BusTypeOK, InCode, code # <<>>
  PROVE  /\ Left \in Nat /\ Left >= 1 /\ call.op # "none"
         /\ call.op = "init" => Left <= 10 /\ Head(code) = IO_init[11 - Left]
         /\ call.op = "write" =>
              Left <= 6 /\ Head(code) = IO_write(call.address, call.data)[7 - Left]
         /\ call.op = "read" => Left <= 6 /\ Head(code) = IO_read(call.address)[7 - Left]
<1>1. Len(IO_init) = 10
  BY DEF IO_init
<1>2. Len(IO_write(call.address, call.data)) = 6
  BY DEF IO_write
<1>3. Len(IO_read(call.address)) = 6
  BY DEF IO_read
<1>4. Left \in Nat /\ Left >= 1 /\ Head(code) = code[1]
  <2>1. code \in Seq(BusAccesses)
    BY DEF BusTypeOK
  <2> QED
    BY <2>1 DEF Left
<1>5. code[1] = CallCode[Len(CallCode) - Left + 1]
  BY <1>4 DEF InCode
<1>6. /\ call.op # "none" /\ (call.op = "init" => Left \in 1 .. 10)
      /\ (call.op \in {"read", "write"} => Left \in 1 .. 6)
  BY <1>4, CallIs DEF InCode, BusTypeOK
<1> HIDE DEF Left
<1> DEFINE R == CallCode
<1>a. code[1] = R[Len(R) - Left + 1]
  BY <1>5
<1> HIDE DEF R
<1>7. call.op = "init" => Head(code) = IO_init[11 - Left]
  <2> SUFFICES ASSUME call.op = "init" PROVE Head(code) = IO_init[11 - Left]
    OBVIOUS
  <2>1. R = IO_init
    BY CodeOf DEF R
  <2>2. Len(R) = 10
    BY <1>1, <2>1, Zenon
  <2>3. Len(R) - Left + 1 = 11 - Left
    BY <1>4, <2>2
  <2> QED
    BY <1>4, <1>a, <2>1, <2>3
<1>8. call.op = "write" => Head(code) = IO_write(call.address, call.data)[7 - Left]
  <2> SUFFICES ASSUME call.op = "write"
               PROVE  Head(code) = IO_write(call.address, call.data)[7 - Left]
    OBVIOUS
  <2>1. R = IO_write(call.address, call.data)
    BY CodeOf DEF R
  <2>2. Len(R) = 6
    BY <1>2, <2>1, Zenon
  <2>3. Len(R) - Left + 1 = 7 - Left
    BY <1>4, <2>2
  <2> QED
    BY <1>4, <1>a, <2>1, <2>3
<1>9. call.op = "read" => Head(code) = IO_read(call.address)[7 - Left]
  <2> SUFFICES ASSUME call.op = "read" PROVE Head(code) = IO_read(call.address)[7 - Left]
    OBVIOUS
  <2>1. R = IO_read(call.address)
    BY CodeOf DEF R
  <2>2. Len(R) = 6
    BY <1>3, <2>1, Zenon
  <2>3. Len(R) - Left + 1 = 7 - Left
    BY <1>4, <2>2
  <2> QED
    BY <1>4, <1>a, <2>1, <2>3
<1> QED
  BY <1>4, <1>6, <1>7, <1>8, <1>9

\* A store changes its port alone, to the value that it was given.
LEMMA Stores ==
  ASSUME BusAssumption, BusTypeOK, Access, NEW p \in PioNames, NEW v, Head(code) = <<p, v>>,
         v \in (IF p = "address" THEN Ports ELSE IF p = "data" THEN Values ELSE {0, 1})
  PROVE  pio' = [pio EXCEPT ![p] = v] /\ temp' = temp
<1>1. Head(code)[1] = p /\ Head(code)[2] = v /\ p # "load"
  BY DEF PioNames
<1>2. /\ pio' = [q \in DOMAIN pio |-> IF q \in Reached(p) THEN v % 2^Slave[q].width ELSE pio[q]]
      /\ temp' = temp
  BY <1>1, Zenon DEF Access
<1>3. DOMAIN pio = PioNames /\ pio = [q \in PioNames |-> pio[q]]
  BY DEF BusTypeOK, PioRow, PioNames
<1>4. v % 2^Slave[p].width = v
  <2>1. /\ Slave["address"].width = 2 /\ Slave["data"].width = 16
        /\ \A q \in PioNames \ {"address", "data"} : Slave[q].width = 1
    BY DEF Slave, PioNames
  <2>2. CASE p = "address"
    BY <2>1, <2>2, Ranges, Zenon
  <2>3. CASE p = "data"
    BY <2>1, <2>3, Ranges, Zenon
  <2>4. CASE p \notin {"address", "data"}
    <3>1. Slave[p].width = 1 /\ v \in {0, 1}
      BY <2>1, <2>4
    <3> QED
      BY <3>1, Ranges, Zenon
  <2> QED
    BY <2>2, <2>3, <2>4
<1>5. \A q \in PioNames : q \in Reached(p) <=> q = p
  BY OnePortReached
<1> HIDE DEF PioNames
<1>6. \A q \in PioNames :
        (IF q \in Reached(p) THEN v % 2^Slave[q].width ELSE pio[q])
          = (IF q = p THEN v ELSE pio[q])
  BY <1>4, <1>5, Zenon
<1>7. pio' = [q \in PioNames |-> IF q = p THEN v ELSE pio[q]]
  BY <1>2, <1>3, <1>6, Zenon
<1>8. [pio EXCEPT ![p] = v] = [q \in PioNames |-> IF q = p THEN v ELSE pio[q]]
  BY <1>3
<1> QED
  BY <1>2, <1>7, <1>8

\* A load changes no port.
LEMMA Loads ==
  ASSUME Access, Head(code) = <<"load">>
  PROVE  pio' = pio /\ temp' = readdata
<1>1. Head(code)[1] = "load"
  OBVIOUS
<1> QED
  BY <1>1, Zenon DEF Access

\* One access: the rest is left to do, and the call ends with the last one.
LEMMA AccessIs ==
  ASSUME BusAssumption, BusTypeOK, InCode, Access
  PROVE  /\ wait = 0 /\ wait' = Gap - 1 /\ may' = may
         /\ code # <<>> /\ Left \in Nat /\ Left >= 1 /\ Left' = Left - 1
         /\ code' \in Seq(BusAccesses)
         /\ \A i \in 1 .. Left' : code'[i] = code[i + 1]
         /\ call' = IF Left = 1 THEN Idle ELSE call
<1>1. /\ code # <<>> /\ wait = 0 /\ wait' = Gap - 1 /\ may' = may /\ code' = Tail(code)
      /\ call' = IF Left = 1 THEN Idle ELSE call
  BY Zenon DEF Access, Left
<1>2. code \in Seq(BusAccesses)
  BY DEF BusTypeOK
<1> HIDE DEF BusAccesses
<1>3. /\ Tail(code) \in Seq(BusAccesses) /\ Len(Tail(code)) = Len(code) - 1
      /\ Len(code) \in Nat /\ Len(code) >= 1
      /\ \A i \in 1 .. Len(Tail(code)) : Tail(code)[i] = code[i + 1]
  BY <1>1, <1>2
<1> QED
  BY <1>1, <1>3 DEF Left

\* The accesses of IO_init, one by one.  (io_handler.c lines 5-18.)
LEMMA InitSteps ==
  ASSUME BusAssumption, BusTypeOK, InCode, Access, call.op = "init"
  PROVE  /\ Left \in 1 .. 10
         /\ Left = 10 => pio' = [pio EXCEPT !.reset = 1] /\ temp' = temp
         /\ Left = 9 => pio' = [pio EXCEPT !.cs = 1] /\ temp' = temp
         /\ Left = 8 => pio' = [pio EXCEPT !.r = 1] /\ temp' = temp
         /\ Left = 7 => pio' = [pio EXCEPT !.w = 1] /\ temp' = temp
         /\ Left = 6 => pio' = [pio EXCEPT !.address = 0] /\ temp' = temp
         /\ Left = 5 => pio' = [pio EXCEPT !.data = 0] /\ temp' = temp
         /\ Left = 4 => pio' = [pio EXCEPT !.cs = 0] /\ temp' = temp
         /\ Left = 3 => pio' = [pio EXCEPT !.reset = 0] /\ temp' = temp
         /\ Left = 2 => pio' = [pio EXCEPT !.reset = 1] /\ temp' = temp
         /\ Left = 1 => pio' = [pio EXCEPT !.cs = 1] /\ temp' = temp
<1>1. code # <<>> /\ Left \in 1 .. 10 /\ Head(code) = IO_init[11 - Left]
  BY AccessIs, HeadIs
<1>2. call.address \in Ports /\ call.data \in Values
  BY CallIs DEF BusTypeOK
<1>3. Left = 10 => pio' = [pio EXCEPT !.reset = 1] /\ temp' = temp
  <2> SUFFICES ASSUME Left = 10 PROVE pio' = [pio EXCEPT !.reset = 1] /\ temp' = temp
    OBVIOUS
  <2>1. Head(code) = <<"reset", 1>>
    BY <1>1 DEF IO_init
  <2> QED
    BY <2>1, Stores DEF PioNames
<1>4. Left = 9 => pio' = [pio EXCEPT !.cs = 1] /\ temp' = temp
  <2> SUFFICES ASSUME Left = 9 PROVE pio' = [pio EXCEPT !.cs = 1] /\ temp' = temp
    OBVIOUS
  <2>1. Head(code) = <<"cs", 1>>
    BY <1>1 DEF IO_init
  <2> QED
    BY <2>1, Stores DEF PioNames
<1>5. Left = 8 => pio' = [pio EXCEPT !.r = 1] /\ temp' = temp
  <2> SUFFICES ASSUME Left = 8 PROVE pio' = [pio EXCEPT !.r = 1] /\ temp' = temp
    OBVIOUS
  <2>1. Head(code) = <<"r", 1>>
    BY <1>1 DEF IO_init
  <2> QED
    BY <2>1, Stores DEF PioNames
<1>6. Left = 7 => pio' = [pio EXCEPT !.w = 1] /\ temp' = temp
  <2> SUFFICES ASSUME Left = 7 PROVE pio' = [pio EXCEPT !.w = 1] /\ temp' = temp
    OBVIOUS
  <2>1. Head(code) = <<"w", 1>>
    BY <1>1 DEF IO_init
  <2> QED
    BY <2>1, Stores DEF PioNames
<1>7. Left = 6 => pio' = [pio EXCEPT !.address = 0] /\ temp' = temp
  <2> SUFFICES ASSUME Left = 6 PROVE pio' = [pio EXCEPT !.address = 0] /\ temp' = temp
    OBVIOUS
  <2>1. Head(code) = <<"address", 0>>
    BY <1>1 DEF IO_init
  <2>2. "address" \in PioNames /\ 0 \in Ports
    BY <1>2, Ranges DEF PioNames
  <2> QED
    BY <2>1, <2>2, Stores
<1>8. Left = 5 => pio' = [pio EXCEPT !.data = 0] /\ temp' = temp
  <2> SUFFICES ASSUME Left = 5 PROVE pio' = [pio EXCEPT !.data = 0] /\ temp' = temp
    OBVIOUS
  <2>1. Head(code) = <<"data", 0>>
    BY <1>1 DEF IO_init
  <2>2. "data" \in PioNames /\ 0 \in Values
    BY <1>2, Ranges DEF PioNames
  <2> QED
    BY <2>1, <2>2, Stores
<1>9. Left = 4 => pio' = [pio EXCEPT !.cs = 0] /\ temp' = temp
  <2> SUFFICES ASSUME Left = 4 PROVE pio' = [pio EXCEPT !.cs = 0] /\ temp' = temp
    OBVIOUS
  <2>1. Head(code) = <<"cs", 0>>
    BY <1>1 DEF IO_init
  <2> QED
    BY <2>1, Stores DEF PioNames
<1>10. Left = 3 => pio' = [pio EXCEPT !.reset = 0] /\ temp' = temp
  <2> SUFFICES ASSUME Left = 3 PROVE pio' = [pio EXCEPT !.reset = 0] /\ temp' = temp
    OBVIOUS
  <2>1. Head(code) = <<"reset", 0>>
    BY <1>1 DEF IO_init
  <2> QED
    BY <2>1, Stores DEF PioNames
<1>11. Left = 2 => pio' = [pio EXCEPT !.reset = 1] /\ temp' = temp
  <2> SUFFICES ASSUME Left = 2 PROVE pio' = [pio EXCEPT !.reset = 1] /\ temp' = temp
    OBVIOUS
  <2>1. Head(code) = <<"reset", 1>>
    BY <1>1 DEF IO_init
  <2> QED
    BY <2>1, Stores DEF PioNames
<1>12. Left = 1 => pio' = [pio EXCEPT !.cs = 1] /\ temp' = temp
  <2> SUFFICES ASSUME Left = 1 PROVE pio' = [pio EXCEPT !.cs = 1] /\ temp' = temp
    OBVIOUS
  <2>1. Head(code) = <<"cs", 1>>
    BY <1>1 DEF IO_init
  <2> QED
    BY <2>1, Stores DEF PioNames
<1> QED
  BY <1>1, <1>3, <1>4, <1>5, <1>6, <1>7, <1>8, <1>9, <1>10, <1>11, <1>12

\* The accesses of IO_write.  (io_handler.c lines 20-28.)
LEMMA WriteSteps ==
  ASSUME BusAssumption, BusTypeOK, InCode, Access, call.op = "write"
  PROVE  /\ Left \in 1 .. 6
         /\ Left = 6 => pio' = [pio EXCEPT !.address = call.address] /\ temp' = temp
         /\ Left = 5 => pio' = [pio EXCEPT !.cs = 0] /\ temp' = temp
         /\ Left = 4 => pio' = [pio EXCEPT !.w = 0] /\ temp' = temp
         /\ Left = 3 => pio' = [pio EXCEPT !.data = call.data] /\ temp' = temp
         /\ Left = 2 => pio' = [pio EXCEPT !.w = 1] /\ temp' = temp
         /\ Left = 1 => pio' = [pio EXCEPT !.cs = 1] /\ temp' = temp
<1>1. code # <<>> /\ Left \in 1 .. 6 /\ Head(code) = IO_write(call.address, call.data)[7 - Left]
  BY AccessIs, HeadIs
<1>2. call.address \in Ports /\ call.data \in Values
  BY CallIs DEF BusTypeOK
<1>3. Left = 6 => pio' = [pio EXCEPT !.address = call.address] /\ temp' = temp
  <2> SUFFICES ASSUME Left = 6 PROVE pio' = [pio EXCEPT !.address = call.address] /\ temp' = temp
    OBVIOUS
  <2>1. Head(code) = <<"address", call.address>>
    BY <1>1 DEF IO_write
  <2>2. "address" \in PioNames /\ call.address \in Ports
    BY <1>2, Ranges DEF PioNames
  <2> QED
    BY <2>1, <2>2, Stores
<1>4. Left = 5 => pio' = [pio EXCEPT !.cs = 0] /\ temp' = temp
  <2> SUFFICES ASSUME Left = 5 PROVE pio' = [pio EXCEPT !.cs = 0] /\ temp' = temp
    OBVIOUS
  <2>1. Head(code) = <<"cs", 0>>
    BY <1>1 DEF IO_write
  <2> QED
    BY <2>1, Stores DEF PioNames
<1>5. Left = 4 => pio' = [pio EXCEPT !.w = 0] /\ temp' = temp
  <2> SUFFICES ASSUME Left = 4 PROVE pio' = [pio EXCEPT !.w = 0] /\ temp' = temp
    OBVIOUS
  <2>1. Head(code) = <<"w", 0>>
    BY <1>1 DEF IO_write
  <2> QED
    BY <2>1, Stores DEF PioNames
<1>6. Left = 3 => pio' = [pio EXCEPT !.data = call.data] /\ temp' = temp
  <2> SUFFICES ASSUME Left = 3 PROVE pio' = [pio EXCEPT !.data = call.data] /\ temp' = temp
    OBVIOUS
  <2>1. Head(code) = <<"data", call.data>>
    BY <1>1 DEF IO_write
  <2>2. "data" \in PioNames /\ call.data \in Values
    BY <1>2, Ranges DEF PioNames
  <2> QED
    BY <2>1, <2>2, Stores
<1>7. Left = 2 => pio' = [pio EXCEPT !.w = 1] /\ temp' = temp
  <2> SUFFICES ASSUME Left = 2 PROVE pio' = [pio EXCEPT !.w = 1] /\ temp' = temp
    OBVIOUS
  <2>1. Head(code) = <<"w", 1>>
    BY <1>1 DEF IO_write
  <2> QED
    BY <2>1, Stores DEF PioNames
<1>8. Left = 1 => pio' = [pio EXCEPT !.cs = 1] /\ temp' = temp
  <2> SUFFICES ASSUME Left = 1 PROVE pio' = [pio EXCEPT !.cs = 1] /\ temp' = temp
    OBVIOUS
  <2>1. Head(code) = <<"cs", 1>>
    BY <1>1 DEF IO_write
  <2> QED
    BY <2>1, Stores DEF PioNames
<1> QED
  BY <1>1, <1>3, <1>4, <1>5, <1>6, <1>7, <1>8

\* The accesses of IO_read.  (io_handler.c lines 30-40.)
LEMMA ReadSteps ==
  ASSUME BusAssumption, BusTypeOK, InCode, Access, call.op = "read"
  PROVE  /\ Left \in 1 .. 6
         /\ Left = 6 => pio' = [pio EXCEPT !.address = call.address] /\ temp' = temp
         /\ Left = 5 => pio' = [pio EXCEPT !.r = 0] /\ temp' = temp
         /\ Left = 4 => pio' = [pio EXCEPT !.cs = 0] /\ temp' = temp
         /\ Left = 3 => pio' = pio /\ temp' = readdata
         /\ Left = 2 => pio' = [pio EXCEPT !.cs = 1] /\ temp' = temp
         /\ Left = 1 => pio' = [pio EXCEPT !.r = 1] /\ temp' = temp
<1>1. code # <<>> /\ Left \in 1 .. 6 /\ Head(code) = IO_read(call.address)[7 - Left]
  BY AccessIs, HeadIs
<1>2. call.address \in Ports /\ call.data \in Values
  BY CallIs DEF BusTypeOK
<1>3. Left = 6 => pio' = [pio EXCEPT !.address = call.address] /\ temp' = temp
  <2> SUFFICES ASSUME Left = 6 PROVE pio' = [pio EXCEPT !.address = call.address] /\ temp' = temp
    OBVIOUS
  <2>1. Head(code) = <<"address", call.address>>
    BY <1>1 DEF IO_read
  <2>2. "address" \in PioNames /\ call.address \in Ports
    BY <1>2, Ranges DEF PioNames
  <2> QED
    BY <2>1, <2>2, Stores
<1>4. Left = 5 => pio' = [pio EXCEPT !.r = 0] /\ temp' = temp
  <2> SUFFICES ASSUME Left = 5 PROVE pio' = [pio EXCEPT !.r = 0] /\ temp' = temp
    OBVIOUS
  <2>1. Head(code) = <<"r", 0>>
    BY <1>1 DEF IO_read
  <2> QED
    BY <2>1, Stores DEF PioNames
<1>5. Left = 4 => pio' = [pio EXCEPT !.cs = 0] /\ temp' = temp
  <2> SUFFICES ASSUME Left = 4 PROVE pio' = [pio EXCEPT !.cs = 0] /\ temp' = temp
    OBVIOUS
  <2>1. Head(code) = <<"cs", 0>>
    BY <1>1 DEF IO_read
  <2> QED
    BY <2>1, Stores DEF PioNames
<1>6. Left = 3 => pio' = pio /\ temp' = readdata
  <2> SUFFICES ASSUME Left = 3 PROVE pio' = pio /\ temp' = readdata
    OBVIOUS
  <2>1. Head(code) = <<"load">>
    BY <1>1 DEF IO_read
  <2> QED
    BY <2>1, Loads
<1>7. Left = 2 => pio' = [pio EXCEPT !.cs = 1] /\ temp' = temp
  <2> SUFFICES ASSUME Left = 2 PROVE pio' = [pio EXCEPT !.cs = 1] /\ temp' = temp
    OBVIOUS
  <2>1. Head(code) = <<"cs", 1>>
    BY <1>1 DEF IO_read
  <2> QED
    BY <2>1, Stores DEF PioNames
<1>8. Left = 1 => pio' = [pio EXCEPT !.r = 1] /\ temp' = temp
  <2> SUFFICES ASSUME Left = 1 PROVE pio' = [pio EXCEPT !.r = 1] /\ temp' = temp
    OBVIOUS
  <2>1. Head(code) = <<"r", 1>>
    BY <1>1 DEF IO_read
  <2> QED
    BY <2>1, Stores DEF PioNames
<1> QED
  BY <1>1, <1>3, <1>4, <1>5, <1>6, <1>7, <1>8

-----------------------------------------------------------------------------
(* The clock.                                                              *)

\* A clock takes the ports to the lines of the chip, or resets them.
\* (hpi_io_intf.sv.)
LEMMA ClockIs ==
  ASSUME BusTypeOK, BusClock
  PROVE  \/ /\ Resets
            /\ otg'.address = 0 /\ otg'.cs = 1 /\ otg'.r = 1 /\ otg'.w = 1 /\ otg'.reset = 1
            /\ from_sw_data_out_buffer' = 0 /\ from_sw_data_in' = 0
         \/ /\ otg'.address = pio.address /\ otg'.cs = pio.cs /\ otg'.r = pio.r
            /\ otg'.w = pio.w /\ otg'.reset = pio.reset
            /\ from_sw_data_out_buffer' = pio.data /\ from_sw_data_in' \in Bus
<1>1. PICK InReset \in BOOLEAN : (InReset => Resets) /\ Interface(InReset)
  BY DEF BusClock
<1>2. CASE InReset
  BY <1>1, <1>2 DEF Interface, Released
<1>3. CASE ~InReset
  <2>1. DOMAIN otg = {"address", "r", "w", "cs", "reset"}
    BY DEF BusTypeOK
  <2>2. /\ otg' = [p \in DOMAIN otg |-> pio[p]]
        /\ from_sw_data_out_buffer' = pio.data /\ from_sw_data_in' \in Bus
    BY <1>1, <1>3 DEF Interface
  <2> QED
    BY <2>1, <2>2
<1> QED
  BY <1>1, <1>2, <1>3

\* The lines keep their types.
LEMMA ClockOtg ==
  ASSUME BusAssumption, BusTypeOK, BusClock
  PROVE  otg' \in [address : Ports, r : {0, 1}, w : {0, 1}, cs : {0, 1}, reset : {0, 1}]
<1>1. PICK InReset \in BOOLEAN : (InReset => Resets) /\ Interface(InReset)
  BY DEF BusClock
<1>2. CASE InReset
  BY <1>1, <1>2, Ranges DEF Interface, Released
<1>3. CASE ~InReset
  <2>1. otg' = [p \in {"address", "r", "w", "cs", "reset"} |-> pio[p]]
    BY <1>1, <1>3 DEF Interface, BusTypeOK
  <2> QED
    BY <2>1 DEF BusTypeOK, PioRow
<1> QED
  BY <1>1, <1>2, <1>3

\* A call begins: its accesses are all to be done.
LEMMA BeginIs ==
  ASSUME BusAssumption, BusTypeOK, Begin
  PROVE  /\ call = Idle /\ code = <<>> /\ pio' = pio /\ wait' = wait
         /\ call'.address \in Ports /\ call' \in BusCalls
         /\ \/ /\ call'.op = "read" /\ code' = IO_read(call'.address)
               /\ temp' = None /\ may' = {chip[call'.address]}
            \/ /\ call'.op = "write" /\ code' = IO_write(call'.address, call'.data)
               /\ UNCHANGED <<temp, may>>
<1>1. PICK a \in Ports :
        \/ /\ call' = [Idle EXCEPT !.op = "read", !.address = a]
           /\ code' = IO_read(a) /\ temp' = None /\ may' = {chip[a]}
        \/ \E d \in Values :
             /\ call' = [op |-> "write", address |-> a, data |-> d]
             /\ code' = IO_write(a, d) /\ UNCHANGED <<temp, may>>
  BY Zenon DEF Begin
<1>2. call = Idle /\ code = <<>> /\ UNCHANGED <<pio, wait>>
  BY DEF Begin
<1>3. CASE /\ call' = [Idle EXCEPT !.op = "read", !.address = a]
           /\ code' = IO_read(a) /\ temp' = None /\ may' = {chip[a]}
  <2>1. call' = [op |-> "read", address |-> a, data |-> 0]
    BY <1>3 DEF Idle
  <2> HIDE DEF IO_read
  <2> QED
    BY <1>2, <1>3, <2>1, Ranges DEF BusCalls
<1>4. ASSUME NEW d \in Values, call' = [op |-> "write", address |-> a, data |-> d],
             code' = IO_write(a, d), UNCHANGED <<temp, may>>
      PROVE  /\ call'.address \in Ports /\ call' \in BusCalls
             /\ call'.op = "write" /\ code' = IO_write(call'.address, call'.data)
             /\ UNCHANGED <<temp, may>>
  BY <1>4 DEF BusCalls
<1> QED
  BY <1>1, <1>2, <1>3, <1>4

\* Nothing is left to do exactly between calls.
LEMMA IdleCode ==
  ASSUME BusTypeOK, InCode
  PROVE  code = <<>> <=> call.op = "none"
<1>1. code \in Seq(BusAccesses)
  BY DEF BusTypeOK
<1>2. code = <<>> <=> Len(code) = 0
  BY <1>1
<1>3. call.op = "none" <=> Len(code) = 0
  <2>1. call.op \in {"none", "init", "read", "write"}
    BY CallIs DEF BusTypeOK
  <2>2. /\ call.op = "none" => Left = 0
        /\ call.op = "init" => Left \in 1 .. 10
        /\ call.op \in {"read", "write"} => Left \in 1 .. 6
    BY DEF InCode
  <2> QED
    BY <2>1, <2>2 DEF Left
<1> QED
  BY <1>2, <1>3

\* A function on 1 .. k is a sequence of k elements.
LEMMA FunctionIsSeq ==
  \A S : \A k \in Nat : \A f \in [1 .. k -> S] : f \in Seq(S) /\ Len(f) = k
  OBVIOUS

\* The routines are sequences of accesses, of ten and of six.
LEMMA NewCode ==
  ASSUME BusAssumption, NEW a \in Ports, NEW d \in Values
  PROVE  /\ IO_read(a) \in Seq(BusAccesses) /\ Len(IO_read(a)) = 6
         /\ IO_write(a, d) \in Seq(BusAccesses) /\ Len(IO_write(a, d)) = 6
         /\ IO_init \in Seq(BusAccesses) /\ Len(IO_init) = 10
<1>1. a \in Nat /\ d \in Nat
  BY Ranges
<1>2. \A p \in PioNames, v \in Nat : <<p, v>> \in BusAccesses
  BY DEF BusAccesses
<1>3. <<"load">> \in BusAccesses
  BY DEF BusAccesses
<1>4. /\ <<"address", 0>> \in BusAccesses /\ <<"address", a>> \in BusAccesses
      /\ <<"data", 0>> \in BusAccesses /\ <<"data", d>> \in BusAccesses
      /\ <<"cs", 0>> \in BusAccesses /\ <<"cs", 1>> \in BusAccesses
      /\ <<"r", 0>> \in BusAccesses /\ <<"r", 1>> \in BusAccesses
      /\ <<"w", 0>> \in BusAccesses /\ <<"w", 1>> \in BusAccesses
      /\ <<"reset", 0>> \in BusAccesses /\ <<"reset", 1>> \in BusAccesses
  BY <1>1, <1>2 DEF PioNames
<1> HIDE DEF BusAccesses
<1>5. IO_read(a) \in Seq(BusAccesses) /\ Len(IO_read(a)) = 6
  <2>1. IO_read(a) \in [1 .. 6 -> BusAccesses]
    BY <1>1, <1>3, <1>4 DEF IO_read
  <2> QED
    BY <2>1, FunctionIsSeq, Zenon
<1>6. IO_write(a, d) \in Seq(BusAccesses) /\ Len(IO_write(a, d)) = 6
  <2>1. IO_write(a, d) \in [1 .. 6 -> BusAccesses]
    BY <1>1, <1>3, <1>4 DEF IO_write
  <2> QED
    BY <2>1, FunctionIsSeq, Zenon
<1>7. IO_init \in Seq(BusAccesses) /\ Len(IO_init) = 10
  <2>1. IO_init \in [1 .. 10 -> BusAccesses]
    BY <1>1, <1>3, <1>4 DEF IO_init
  <2> QED
    BY <2>1, FunctionIsSeq, Zenon
<1> QED
  BY <1>5, <1>6, <1>7

\* The program stays in its routine.
LEMMA CodeStep ==
  ASSUME BusAssumption, BusTypeOK, InCode, Begin \/ Access \/ NoAccess
  PROVE  InCode' /\ code' \in Seq(BusAccesses)
<1>1. CASE Begin
  <2>1. /\ call'.op \in {"read", "write"} /\ call'.address \in Ports /\ call'.data \in Values
        /\ call'.op = "read" => code' = IO_read(call'.address)
        /\ call'.op = "write" => code' = IO_write(call'.address, call'.data)
    BY <1>1, BeginIs DEF BusCalls
  <2>2. code' = CallCode'
    BY <2>1 DEF CallCode
  <2>3. code' \in Seq(BusAccesses) /\ Len(code') = 6
    BY <2>1, NewCode
  <2> HIDE DEF CallCode, BusAccesses
  <2>4. \A i \in 1 .. Left' : code'[i] = CallCode'[Len(CallCode') - Left' + i]
    BY <2>2, <2>3 DEF Left
  <2> QED
    BY <2>1, <2>3, <2>4 DEF InCode, Left
<1>2. CASE Access
  <2>1. code # <<>> /\ Left \in Nat /\ Left' = Left - 1 /\ code' \in Seq(BusAccesses)
    BY <1>2, AccessIs
  <2>2. CASE Left = 1
    <3>1. call' = Idle /\ Left' = 0
      BY <1>2, <2>1, <2>2, AccessIs
    <3>2. call'.op = "none"
      BY <3>1 DEF Idle
    <3> QED
      BY <2>1, <3>1, <3>2 DEF InCode
  <2>3. CASE Left # 1
    <3>1. call' = call /\ (\A i \in 1 .. Left' : code'[i] = code[i + 1])
      BY <1>2, <2>3, AccessIs
    <3>2. CallCode' = CallCode
      BY <3>1 DEF CallCode
    <3>3. /\ call.op = "init" => Left \in 1 .. 10
          /\ call.op \in {"read", "write"} => Left \in 1 .. 6
      BY DEF InCode
    <3>4. Len(CallCode) \in Nat
      BY CallIs, NewCode, CodeOf, <3>3, <2>1, HeadIs DEF BusTypeOK
    <3> DEFINE R == CallCode
    <3>5. \A i \in 1 .. Left : code[i] = R[Len(R) - Left + i]
      BY Zenon DEF InCode
    <3>6. Len(R) \in Nat /\ R' = R
      BY <3>2, <3>4
    <3> HIDE DEF R
    <3>7. \A i \in 1 .. Left' : code'[i] = R[Len(R) - Left' + i]
      <4> SUFFICES ASSUME NEW i \in 1 .. Left' PROVE code'[i] = R[Len(R) - Left' + i]
        OBVIOUS
      <4>1. i + 1 \in 1 .. Left /\ Len(R) - Left' + i = Len(R) - Left + (i + 1)
        BY <2>1, <3>6
      <4> QED
        BY <3>1, <3>5, <4>1
    <3>8. \A i \in 1 .. Left' : code'[i] = CallCode'[Len(CallCode') - Left' + i]
      BY <3>2, <3>7 DEF R
    <3>9. /\ call'.op = "init" => Left' \in 1 .. 10
          /\ call'.op \in {"read", "write"} => Left' \in 1 .. 6
      <4>1. call'.op = call.op
        BY <3>1
      <4>2. Left \in Nat /\ Left # 1 /\ Left' = Left - 1
        BY <2>1, <2>3
      <4>3. call.op = "init" => Left' \in 1 .. 10
        BY <3>3, <4>2
      <4>4. call.op \in {"read", "write"} => Left' \in 1 .. 6
        BY <3>3, <4>2
      <4> QED
        BY <4>1, <4>3, <4>4
    <3>10. call'.op # "none"
      BY <2>1, <3>1, IdleCode
    <3> QED
      BY <2>1, <3>8, <3>9, <3>10, Zenon DEF InCode
  <2> QED
    BY <2>2, <2>3
<1>3. CASE NoAccess
  <2>1. UNCHANGED <<code, call>>
    BY <1>3 DEF NoAccess, program
  <2> QED
    BY <2>1 DEF InCode, Left, CallCode, BusTypeOK
<1> QED
  BY <1>1, <1>2, <1>3

-----------------------------------------------------------------------------
(* Types.                                                                  *)

\* The types hold at power-up.
LEMMA InitBusTypeOK == BusAssumption /\ BusInit => BusTypeOK
<1> SUFFICES ASSUME BusAssumption, BusInit PROVE BusTypeOK
  OBVIOUS
<1>1. call = [op |-> "init", address |-> 0, data |-> 0]
  BY DEF BusInit, Idle
<1>2. call \in BusCalls
  BY <1>1, Ranges DEF BusCalls
<1>3. code \in Seq(BusAccesses)
  BY Ranges, NewCode, Zenon DEF BusInit
<1>4. pio \in PioRow
  <2>1. pio = [p \in PioNames |-> 0]
    BY DEF BusInit, Slave, PioNames
  <2> QED
    BY <2>1, Ranges DEF PioRow, PioNames
<1>5. otg \in [address : Ports, r : {0, 1}, w : {0, 1}, cs : {0, 1}, reset : {0, 1}]
  <2>1. otg = [p \in {"address", "r", "w", "cs", "reset"} |-> 0]
    BY DEF BusInit, Released
  <2> QED
    BY <2>1, Ranges
<1>6. chip \in [Ports -> Values]
  BY DEF BusInit
<1>7. /\ wait = 0 /\ readdata = 0 /\ temp = None /\ accesses = 0 /\ may = {}
      /\ from_sw_data_in = 0 /\ from_sw_data_out_buffer = 0
  BY DEF BusInit
<1>8. wait \in 0 .. Gap - 1
  BY <1>7, Ranges
<1> QED
  BY <1>2, <1>3, <1>4, <1>5, <1>6, <1>7, <1>8, Ranges DEF BusTypeOK

\* The ports of the chip keep their types.
LEMMA ChipStep ==
  ASSUME BusAssumption, BusTypeOK, Chip
  PROVE  chip' \in [Ports -> Values]
  BY Ranges DEF Chip, BusTypeOK

\* What is on the bus is a value.
LEMMA BusValues ==
  ASSUME BusAssumption, BusTypeOK
  PROVE  Bus \subseteq Values
<1>1. otg.address \in Ports /\ chip \in [Ports -> Values] /\ from_sw_data_out_buffer \in Values
  BY DEF BusTypeOK
<1>2. chip[otg.address] \in Values
  BY <1>1
<1> QED
  BY <1>1, <1>2, Zenon DEF Bus

\* The parallel ports keep their types.
LEMMA PioStep ==
  ASSUME BusAssumption, BusTypeOK, InCode, Begin \/ Access \/ NoAccess
  PROVE  pio' \in PioRow
<1>0. call.address \in Ports /\ call.data \in Values /\ pio \in PioRow
  BY CallIs DEF BusTypeOK
<1>1. CASE Begin
  BY <1>0, <1>1, BeginIs
<1>2. CASE NoAccess
  BY <1>0, <1>2 DEF NoAccess
<1>3. CASE Access
  <2>0. /\ \A a \in Ports : [pio EXCEPT !.address = a] \in PioRow
        /\ \A d \in Values : [pio EXCEPT !.data = d] \in PioRow
        /\ \A b \in {0, 1} : /\ [pio EXCEPT !.cs = b] \in PioRow /\ [pio EXCEPT !.r = b] \in PioRow
                             /\ [pio EXCEPT !.w = b] \in PioRow
                             /\ [pio EXCEPT !.reset = b] \in PioRow
    BY <1>0 DEF PioRow
  <2>1. call.op \in {"init", "read", "write"}
    BY <1>3, CallIs, AccessIs, HeadIs DEF BusTypeOK
  <2>2. CASE call.op = "init"
    <3>1. Left \in 1 .. 10
      BY <1>3, <2>2, InitSteps
    <3> QED
      BY <1>0, <1>3, <2>0, <2>2, <3>1, InitSteps, Ranges
  <2>3. CASE call.op = "read"
    BY <1>0, <1>3, <2>0, <2>3, ReadSteps, Ranges
  <2>4. CASE call.op = "write"
    BY <1>0, <1>3, <2>0, <2>4, WriteSteps, Ranges
  <2> QED
    BY <2>1, <2>2, <2>3, <2>4
<1> QED
  BY <1>1, <1>2, <1>3

\* The call and its results keep their types.
LEMMA CallStep ==
  ASSUME BusAssumption, BusTypeOK, InCode, Begin \/ Access \/ NoAccess
  PROVE  /\ call' \in BusCalls /\ wait' \in 0 .. Gap - 1
         /\ temp' \in Values \cup {None} /\ may' \subseteq Values
<1>0. /\ call \in BusCalls /\ wait \in 0 .. Gap - 1 /\ temp \in Values \cup {None}
      /\ may \subseteq Values /\ chip \in [Ports -> Values] /\ readdata \in Values
  BY DEF BusTypeOK
<1>1. CASE Begin
  BY <1>0, <1>1, BeginIs
<1>2. CASE NoAccess
  BY <1>0, <1>2, Ranges DEF NoAccess, program
<1>3. CASE Access
  <2>1. call' = call \/ call' = Idle
    BY <1>3, AccessIs
  <2>2. Idle \in BusCalls
    BY Ranges DEF BusCalls, Idle
  <2>3. temp' = temp \/ temp' = readdata
    BY <1>3, Zenon DEF Access
  <2>4. wait' = Gap - 1 /\ may' = may
    BY <1>3, AccessIs
  <2> QED
    BY <1>0, <2>1, <2>2, <2>3, <2>4, Ranges
<1> QED
  BY <1>1, <1>2, <1>3

\* Every step keeps the types.
LEMMA BusTypeStep == BusAssumption /\ BusTypeOK /\ InCode /\ [BusNext]_busVars => BusTypeOK'
<1> SUFFICES ASSUME BusAssumption, BusTypeOK, InCode, [BusNext]_busVars PROVE BusTypeOK'
  OBVIOUS
<1>1. CASE BusClock
  <2>1. /\ call' \in BusCalls /\ wait' \in 0 .. Gap - 1
        /\ temp' \in Values \cup {None} /\ may' \subseteq Values
        /\ pio' \in PioRow /\ code' \in Seq(BusAccesses) /\ chip' \in [Ports -> Values]
    BY <1>1, CallStep, PioStep, CodeStep, ChipStep DEF BusClock
  <2>2. otg' \in [address : Ports, r : {0, 1}, w : {0, 1}, cs : {0, 1}, reset : {0, 1}]
    BY <1>1, ClockOtg
  <2>3. from_sw_data_out_buffer' \in Values /\ from_sw_data_in' \in Values
    <3>1. pio.data \in Values
      BY DEF BusTypeOK, PioRow
    <3> QED
      BY <1>1, <3>1, ClockIs, BusValues, Ranges
  <2>4. readdata' \in Values /\ accesses' \in 0 .. 2
    BY <1>1 DEF BusClock, Counted, BusTypeOK
  <2> QED
    BY <2>1, <2>2, <2>3, <2>4 DEF BusTypeOK
<1>2. CASE \E p \in Owned, v \in Values : Change(p, v)
  <2>1. PICK p \in Owned, v \in Values : Change(p, v)
    BY <1>2
  <2>2. p \in Ports
    BY Ranges
  <2>3. chip' \in [Ports -> Values] /\ may' \subseteq Values
    BY <2>1, <2>2 DEF Change, BusTypeOK
  <2>4. UNCHANGED <<code, call, temp, wait, pio, readdata, from_sw_data_in,
                 from_sw_data_out_buffer, otg, accesses>>
    BY <2>1 DEF Change, program
  <2> QED
    BY <2>3, <2>4 DEF BusTypeOK
<1>3. CASE UNCHANGED busVars
  BY <1>3 DEF busVars, program, BusTypeOK
<1> QED
  BY <1>1, <1>2, <1>3 DEF BusNext

-----------------------------------------------------------------------------
(* The ports hold what the routine has set.                                *)

\* LinesOf, line by line.
LEMMA LinesOfIs ==
  /\ \A k : /\ LinesOf("none", k).reset = 1 /\ LinesOf("none", k).cs = 1
           /\ LinesOf("none", k).r = 1 /\ LinesOf("none", k).w = 1
  /\ \A k : /\ LinesOf("init", k).reset = (IF k \in {10, 2} THEN 0 ELSE 1)
           /\ LinesOf("init", k).cs = (IF k \in {10, 9, 3, 2, 1} THEN 0 ELSE 1)
           /\ LinesOf("init", k).r = (IF k \in {10, 9, 8} THEN 0 ELSE 1)
           /\ LinesOf("init", k).w = (IF k \in 7 .. 10 THEN 0 ELSE 1)
  /\ \A k : /\ LinesOf("write", k).reset = 1 /\ LinesOf("write", k).r = 1
           /\ LinesOf("write", k).cs = (IF k \in 1 .. 4 THEN 0 ELSE 1)
           /\ LinesOf("write", k).w = (IF k \in {3, 2} THEN 0 ELSE 1)
  /\ \A k : /\ LinesOf("read", k).reset = 1 /\ LinesOf("read", k).w = 1
           /\ LinesOf("read", k).cs = (IF k \in {3, 2} THEN 0 ELSE 1)
           /\ LinesOf("read", k).r = (IF k \in 1 .. 4 THEN 0 ELSE 1)
  BY DEF LinesOf

\* What the parallel ports show in each call.
LEMMA PioIs ==
  ASSUME BusTypeOK, PioRight
  PROVE  /\ call.op = "none" => pio.reset = 1 /\ pio.cs = 1 /\ pio.r = 1 /\ pio.w = 1
         /\ call.op = "init" =>
              /\ pio.reset = (IF Left \in {10, 2} THEN 0 ELSE 1)
              /\ pio.cs = (IF Left \in {10, 9, 3, 2, 1} THEN 0 ELSE 1)
              /\ pio.r = (IF Left \in {10, 9, 8} THEN 0 ELSE 1)
              /\ pio.w = (IF Left \in 7 .. 10 THEN 0 ELSE 1)
         /\ call.op = "write" =>
              /\ pio.reset = 1 /\ pio.r = 1
              /\ pio.cs = (IF Left \in 1 .. 4 THEN 0 ELSE 1)
              /\ pio.w = (IF Left \in {3, 2} THEN 0 ELSE 1)
         /\ call.op = "read" =>
              /\ pio.reset = 1 /\ pio.w = 1
              /\ pio.cs = (IF Left \in {3, 2} THEN 0 ELSE 1)
              /\ pio.r = (IF Left \in 1 .. 4 THEN 0 ELSE 1)
<1>1. Show(pio, call.op, Left)
  BY DEF PioRight
<1>2. /\ pio.reset = LinesOf(call.op, Left).reset /\ pio.cs = LinesOf(call.op, Left).cs
      /\ pio.r = LinesOf(call.op, Left).r /\ pio.w = LinesOf(call.op, Left).w
  BY <1>1, Zenon DEF Show
<1>3. CASE call.op = "none"
  BY <1>2, <1>3, LinesOfIs
<1>4. CASE call.op = "init"
  BY <1>2, <1>4, LinesOfIs
<1>5. CASE call.op = "write"
  BY <1>2, <1>5, LinesOfIs
<1>6. CASE call.op = "read"
  BY <1>2, <1>6, LinesOfIs
<1> QED
  BY <1>3, <1>4, <1>5, <1>6

\* At power-up the ports show nothing set, as IO_init assumes.
LEMMA InitPio == BusAssumption /\ BusInit => InCode /\ PioRight
<1> SUFFICES ASSUME BusAssumption, BusInit PROVE InCode /\ PioRight
  OBVIOUS
<1>1. call = [op |-> "init", address |-> 0, data |-> 0] /\ code = IO_init
  BY DEF BusInit, Idle
<1>2. code = CallCode /\ Left = 10
  BY <1>1, NewCode, Ranges DEF CallCode, Left
<1>3. InCode
  <2>1. \A i \in 1 .. Left : code[i] = CallCode[Len(CallCode) - Left + i]
    <3>1. Len(CallCode) = 10
      BY <1>1, <1>2, NewCode, Ranges
    <3> DEFINE l == Len(CallCode)
    <3>2. \A i \in 1 .. Left : l - Left + i = i
      <4>1. l = 10 /\ Left = 10
        BY <1>2, <3>1
      <4> HIDE DEF l
      <4> QED
        BY <4>1
    <3> QED
      BY <1>2, <3>2, Zenon
  <2> QED
    BY <1>1, <1>2, <2>1 DEF InCode
<1>4. pio.reset = 0 /\ pio.cs = 0 /\ pio.r = 0 /\ pio.w = 0
  BY DEF BusInit, Slave
<1>5. PioRight
  BY <1>1, <1>2, <1>4, LinesOfIs DEF PioRight, Show
<1> QED
  BY <1>3, <1>5

\* After every access the ports show what the routine has set.
LEMMA PioRightStep ==
  ASSUME BusAssumption, BusTypeOK, InCode, PioRight, Begin \/ Access \/ NoAccess
  PROVE  PioRight'
<1>1. CASE Begin
  <2>1. /\ pio.reset = 1 /\ pio.cs = 1 /\ pio.r = 1 /\ pio.w = 1 /\ pio' = pio
        /\ call'.op \in {"read", "write"}
    BY <1>1, BeginIs, PioIs DEF Idle
  <2>2. Left' = 6
    BY <1>1, BeginIs, NewCode DEF Left, BusCalls
  <2>3. Show(pio', call'.op, Left')
    BY <2>1, <2>2, LinesOfIs DEF Show
  <2> QED
    BY <2>2, <2>3 DEF PioRight
<1>2. CASE Access
  <2>1. /\ Left \in Nat /\ Left >= 1 /\ Left' = Left - 1 /\ call' = IF Left = 1 THEN Idle ELSE call
        /\ pio \in PioRow /\ call.op \in {"init", "read", "write"}
    BY <1>2, AccessIs, HeadIs, CallIs DEF BusTypeOK
  <2>2. CASE call.op = "init"
    <3>1. Left \in 1 .. 10
      BY <1>2, <2>2, InitSteps
    <3>2. /\ pio'.reset = (IF Left' \in {10, 2} THEN 0 ELSE 1)
          /\ pio'.cs = (IF Left' \in {10, 9, 3, 2, 1} THEN 0 ELSE 1)
          /\ pio'.r = (IF Left' \in {10, 9, 8} THEN 0 ELSE 1)
          /\ pio'.w = (IF Left' \in 7 .. 10 THEN 0 ELSE 1)
      BY <1>2, <2>1, <2>2, <3>1, InitSteps, PioIs DEF PioRow
    <3>3. CASE Left = 1
      <4>1. call'.op = "none" /\ Left' = 0
        BY <2>1, <3>3 DEF Idle
      <4> QED
        BY <3>2, <4>1, LinesOfIs DEF PioRight, Show
    <3>4. CASE Left # 1
      <4>1. call'.op = "init"
        BY <2>1, <2>2, <3>4
      <4> QED
        BY <3>2, <4>1, LinesOfIs DEF PioRight, Show
    <3> QED
      BY <3>3, <3>4
  <2>3. CASE call.op = "read"
    <3>1. Left \in 1 .. 6
      BY <1>2, <2>3, ReadSteps
    <3>2. /\ pio'.reset = 1 /\ pio'.w = 1
          /\ pio'.cs = (IF Left' \in {3, 2} THEN 0 ELSE 1)
          /\ pio'.r = (IF Left' \in 1 .. 4 THEN 0 ELSE 1)
          /\ Left' <= 5 => pio'.address = call.address
      BY <1>2, <2>1, <2>3, <3>1, ReadSteps, PioIs DEF PioRow, PioRight
    <3>3. CASE Left = 1
      <4>1. call'.op = "none" /\ Left' = 0
        BY <2>1, <3>3 DEF Idle
      <4> QED
        BY <3>2, <4>1, LinesOfIs DEF PioRight, Show
    <3>4. CASE Left # 1
      <4>1. call' = call
        BY <2>1, <2>3, <3>4
      <4> QED
        BY <2>3, <3>2, <4>1, LinesOfIs DEF PioRight, Show
    <3> QED
      BY <3>3, <3>4
  <2>4. CASE call.op = "write"
    <3>1. Left \in 1 .. 6
      BY <1>2, <2>4, WriteSteps
    <3>2. /\ pio'.reset = 1 /\ pio'.r = 1
          /\ pio'.cs = (IF Left' \in 1 .. 4 THEN 0 ELSE 1)
          /\ pio'.w = (IF Left' \in {3, 2} THEN 0 ELSE 1)
          /\ Left' <= 5 => pio'.address = call.address
          /\ Left' <= 2 => pio'.data = call.data
      BY <1>2, <2>1, <2>4, <3>1, WriteSteps, PioIs DEF PioRow, PioRight
    <3>3. CASE Left = 1
      <4>1. call'.op = "none" /\ Left' = 0
        BY <2>1, <3>3 DEF Idle
      <4> QED
        BY <3>2, <4>1, LinesOfIs DEF PioRight, Show
    <3>4. CASE Left # 1
      <4>1. call' = call
        BY <2>1, <2>4, <3>4
      <4> QED
        BY <2>4, <3>2, <4>1, LinesOfIs DEF PioRight, Show
    <3> QED
      BY <3>3, <3>4
  <2> QED
    BY <2>1, <2>2, <2>3, <2>4
<1>3. CASE NoAccess
  <2>1. UNCHANGED <<code, call, pio>>
    BY <1>3 DEF NoAccess, program
  <2> QED
    BY <2>1 DEF PioRight, Show, Left
<1> QED
  BY <1>1, <1>2, <1>3

-----------------------------------------------------------------------------
(* Whatever the resets: only the port of a write is written.               *)

\* No call of IO_write is in progress at power-up.
LEMMA InitLinesSafe == BusAssumption /\ BusInit => LinesSafe
<1> SUFFICES ASSUME BusAssumption, BusInit PROVE LinesSafe
  OBVIOUS
<1>1. call.op = "init"
  BY DEF BusInit, Idle
<1> QED
  BY <1>1 DEF LinesSafe

\* The lines of the chip stay safe at every clock, a reset included.
LEMMA LinesSafeStep ==
  ASSUME BusAssumption, BusTypeOK, InCode, PioRight, LinesSafe, BusClock
  PROVE  LinesSafe'
<1>0. /\ pio \in PioRow /\ call.op \in {"none", "init", "read", "write"}
      /\ otg \in [address : Ports, r : {0, 1}, w : {0, 1}, cs : {0, 1}, reset : {0, 1}]
  BY CallIs DEF BusTypeOK
<1>1. \/ otg'.reset = 1 /\ otg'.w = 1
      \/ otg'.reset = pio.reset /\ otg'.w = pio.w /\ otg'.address = pio.address
  BY ClockIs
<1>2. CASE Begin
  <2>1. call'.op # "init" /\ otg'.reset = 1 /\ otg'.w = 1
    <3>1. call.op = "none"
      BY <1>2, BeginIs DEF Idle
    <3>2. call'.op \in {"read", "write"}
      BY <1>2, BeginIs
    <3> QED
      BY <1>1, <3>1, <3>2, PioIs
  <2> QED
    BY <2>1 DEF LinesSafe
<1>3. CASE Access
  <2>1. /\ Left \in Nat /\ Left >= 1 /\ call.op \in {"init", "read", "write"}
        /\ call.op = "init" => Left \in 1 .. 10
        /\ call.op \in {"read", "write"} => Left \in 1 .. 6
        /\ call' = IF Left = 1 THEN Idle ELSE call
    BY <1>0, <1>3, AccessIs, HeadIs, InitSteps, ReadSteps, WriteSteps
  <2>2. CASE Left = 1
    <3>1. call'.op = "none"
      BY <2>1, <2>2 DEF Idle
    <3>2. pio.reset = 1 /\ pio.w = 1
      BY <2>1, <2>2, PioIs
    <3> QED
      BY <1>1, <3>1, <3>2 DEF LinesSafe
  <2>3. CASE Left # 1
    <3>1. call' = call
      BY <2>1, <2>3
    <3>2. call.op # "init" => pio.reset = 1
      BY <2>1, PioIs
    <3>3. pio.w = 0 /\ call.op # "init" => call.op = "write" /\ pio.address = call.address
      BY <2>1, PioIs DEF PioRight
    <3> QED
      BY <1>1, <2>1, <3>1, <3>2, <3>3 DEF LinesSafe
  <2> QED
    BY <2>2, <2>3
<1>4. CASE NoAccess
  <2>1. UNCHANGED <<code, call, pio>>
    BY <1>4 DEF NoAccess, program
  <2>2. call.op # "init" => pio.reset = 1
    BY <1>0, PioIs
  <2>3. call.op = "none" => pio.w = 1
    BY <1>0, PioIs
  <2>4. pio.w = 0 /\ call.op # "init" => call.op = "write" /\ pio.address = call.address
    BY <1>0, PioIs DEF PioRight
  <2> QED
    BY <1>1, <2>1, <2>2, <2>3, <2>4 DEF LinesSafe
<1> QED
  BY <1>2, <1>3, <1>4 DEF BusClock

\* The inductive invariant.
BusInv == BusTypeOK /\ InCode /\ PioRight /\ LinesSafe

\* BusInv is inductive.
LEMMA BusInvStep == BusAssumption /\ BusInv /\ [BusNext]_busVars => BusInv'
<1> SUFFICES ASSUME BusAssumption, BusInv, [BusNext]_busVars PROVE BusInv'
  OBVIOUS
<1>0. BusTypeOK /\ InCode /\ PioRight /\ LinesSafe
  BY DEF BusInv
<1>1. BusTypeOK'
  BY <1>0, BusTypeStep
<1>2. CASE BusClock
  <2>1. Begin \/ Access \/ NoAccess
    BY <1>2 DEF BusClock
  <2> QED
    BY <1>0, <1>1, <1>2, <2>1, CodeStep, PioRightStep, LinesSafeStep DEF BusInv
<1>3. CASE UNCHANGED <<code, call, pio, otg>>
  <2>1. InCode' /\ PioRight' /\ LinesSafe'
    BY <1>0, <1>3 DEF InCode, PioRight, LinesSafe, CallCode, Left, Show
  <2> QED
    BY <1>1, <2>1 DEF BusInv
<1>4. CASE \E p \in Owned, v \in Values : Change(p, v)
  BY <1>3, <1>4 DEF Change, program
<1>5. CASE UNCHANGED busVars
  BY <1>3, <1>5 DEF busVars, program
<1> QED
  BY <1>2, <1>4, <1>5 DEF BusNext

\* For any ports, any gap and any resets: registers keep their types, the program is
\* where its routine says, the parallel ports show what the routine has set, and the
\* chip's lines never strobe a write to a port other than that of the call.
THEOREM BusSafe == ASSUME BusAssumption PROVE BusSpec => []BusInv
<1>1. BusInit => BusInv
  BY InitBusTypeOK, InitPio, InitLinesSafe DEF BusInv
<1>2. BusInv /\ [BusNext]_busVars => BusInv'
  BY BusInvStep
<1> QED
  BY <1>1, <1>2, PTL DEF BusSpec

\* A reset in the middle of a write may spoil its data, but whatever the moment, no
\* other port is written.  (hpi_io_intf.sv, Reset.)
THEOREM NoOtherPort == ASSUME BusAssumption PROVE BusSpec => OnlyItsPort
<1> DEFINE Right == \A p \in Ports \ Owned : chip'[p] # chip[p] =>
        call.op = "init" \/ (call.op = "write" /\ call.address = p)
<1>1. BusInv /\ [BusNext]_busVars => [Right]_busVars
  <2> SUFFICES ASSUME BusInv, BusNext, NEW p \in Ports \ Owned,
                      chip'[p] # chip[p], call.op # "init"
               PROVE  call.op = "write" /\ call.address = p
    OBVIOUS
  <2>0. /\ chip \in [Ports -> Values]
        /\ otg \in [address : Ports, r : {0, 1}, w : {0, 1}, cs : {0, 1}, reset : {0, 1}]
    BY DEF BusInv, BusTypeOK
  <2>1. CASE BusClock
    <3>1. Chip
      BY <2>1 DEF BusClock
    <3>2. otg.reset = 1
      BY DEF BusInv, LinesSafe
    <3>3. Strobe("w") /\ p = otg.address
      BY <2>0, <3>1, <3>2 DEF Chip
    <3>4. otg.w = 0
      BY <3>3 DEF Strobe
    <3> QED
      BY <3>3, <3>4 DEF BusInv, LinesSafe
  <2>2. CASE \E q \in Owned, v \in Values : Change(q, v)
    BY <2>0, <2>2 DEF Change
  <2> QED
    BY <2>1, <2>2 DEF BusNext
<1>2. BusSpec => []BusInv
  BY BusSafe
<1> QED
  BY <1>1, <1>2, PTL DEF BusSpec, OnlyItsPort

-----------------------------------------------------------------------------
(* Without resets, and with time for a read to come back: HpiPorts.        *)

\* Four clocks: two registers on the way out, two on the way back.
Timing == BusAssumption /\ ~Resets /\ Gap >= 4

\* What the lines of the chip show in each call.
LEMMA OtgIs ==
  ASSUME BusTypeOK, Lag
  PROVE  /\ call.op = "init" /\ Left = 1 =>
               otg.r = 1 /\ otg.w = 1 /\ (wait # Gap - 1 => otg.reset = 1)
         /\ call.op = "write" =>
              /\ otg.r = 1
              /\ Left \notin 1 .. 3 => otg.w = 1
              /\ wait # Gap - 1 => otg.w = (IF Left \in {3, 2} THEN 0 ELSE 1)
              /\ Left = 1 => otg.cs = 0
         /\ call.op = "read" =>
              /\ otg.w = 1
              /\ Left \notin 1 .. 3 => otg.cs = 1
              /\ wait # Gap - 1 => otg.cs = (IF Left \in {3, 2} THEN 0 ELSE 1)
              /\ Left \in {1, 2, 3} => otg.r = 0
<1>0. Left \in Nat /\ code \in Seq(BusAccesses)
  BY DEF BusTypeOK, Left
<1> HIDE DEF Left
<1>1. CASE call.op = "init"
  <2>1. \/ Show(otg, "init", Left)
        \/ wait = Gap - 1 /\ Show(otg, "init", Left + 1)
    BY <1>1 DEF Lag
  <2> QED
    BY <1>0, <1>1, <2>1, LinesOfIs DEF Show
<1>2. CASE call.op = "write"
  <2>1. \/ Show(otg, "write", Left)
        \/ wait = Gap - 1 /\ Show(otg, "write", Left + 1)
    BY <1>2 DEF Lag
  <2> QED
    BY <1>0, <1>2, <2>1, LinesOfIs DEF Show
<1>3. CASE call.op = "read"
  <2>1. \/ Show(otg, "read", Left)
        \/ wait = Gap - 1 /\ Show(otg, "read", Left + 1)
    BY <1>3 DEF Lag
  <2> QED
    BY <1>0, <1>3, <2>1, LinesOfIs DEF Show
<1> QED
  BY <1>1, <1>2, <1>3

\* Without resets a clock takes the ports to the lines.
LEMMA QuietClock ==
  ASSUME Timing, BusTypeOK, BusClock
  PROVE  /\ otg'.address = pio.address /\ otg'.cs = pio.cs /\ otg'.r = pio.r
         /\ otg'.w = pio.w /\ otg'.reset = pio.reset
         /\ from_sw_data_out_buffer' = pio.data /\ from_sw_data_in' \in Bus
         /\ readdata' = from_sw_data_in
  BY ClockIs DEF Timing, BusClock

\* The strobes end where the routines end them, once in each call.
LEMMA Strobes ==
  ASSUME Timing, BusInv, Lag, BusClock
  PROVE  /\ call.op = "none" => ~Strobe("w") /\ ~Strobe("r")
         /\ call.op = "init" /\ Left = 1 => ~Strobe("w") /\ ~Strobe("r")
         /\ call.op = "write" => ~Strobe("r") /\ (Strobe("w") <=> Left = 1 /\ otg.w = 0)
         /\ call.op = "read" => ~Strobe("w") /\ (Strobe("r") <=> Left = 1 /\ otg.cs = 0)
<1>0. BusTypeOK /\ PioRight /\ InCode
  BY DEF BusInv
<1>1. otg'.cs = pio.cs /\ otg'.r = pio.r /\ otg'.w = pio.w
  BY <1>0, QuietClock
<1>2. CASE call.op = "none"
  BY <1>2 DEF Lag, Strobe
<1>3. CASE call.op = "init"
  BY <1>0, <1>3, OtgIs DEF Strobe
<1>4. CASE call.op = "write"
  <2>1. Left \in 1 .. 6
    BY <1>0, <1>4 DEF InCode
  <2> HIDE DEF Left
  <2>2. /\ pio.cs = (IF Left \in 1 .. 4 THEN 0 ELSE 1)
        /\ pio.w = (IF Left \in {3, 2} THEN 0 ELSE 1)
    BY <1>0, <1>4, PioIs
  <2>3. /\ otg.r = 1 /\ (Left \notin 1 .. 3 => otg.w = 1) /\ (Left = 1 => otg.cs = 0)
        /\ otg.w \in {0, 1}
    BY <1>0, <1>4, OtgIs DEF BusTypeOK
  <2> QED
    BY <1>1, <1>4, <2>1, <2>2, <2>3 DEF Strobe
<1>5. CASE call.op = "read"
  <2>1. Left \in 1 .. 6
    BY <1>0, <1>5 DEF InCode
  <2> HIDE DEF Left
  <2>2. /\ pio.cs = (IF Left \in {3, 2} THEN 0 ELSE 1)
        /\ pio.r = (IF Left \in 1 .. 4 THEN 0 ELSE 1)
    BY <1>0, <1>5, PioIs
  <2>3. /\ otg.w = 1 /\ (Left \notin 1 .. 3 => otg.cs = 1) /\ (Left \in {1, 2, 3} => otg.r = 0)
        /\ otg.cs \in {0, 1}
    BY <1>0, <1>5, OtgIs DEF BusTypeOK
  <2> QED
    BY <1>1, <1>5, <2>1, <2>2, <2>3 DEF Strobe
<1> QED
  BY <1>0, <1>2, <1>3, <1>4, <1>5, CallIs DEF BusTypeOK

\* The lines follow the ports at a distance of one clock.
LEMMA LagStep ==
  ASSUME Timing, BusInv, Lag, BusClock
  PROVE  Lag'
<1>0. BusTypeOK /\ PioRight /\ InCode /\ call.op \in {"none", "init", "read", "write"}
  BY CallIs DEF BusInv, BusTypeOK
<1>1. /\ otg'.cs = pio.cs /\ otg'.r = pio.r /\ otg'.w = pio.w /\ otg'.reset = pio.reset
      /\ otg'.address = pio.address /\ from_sw_data_out_buffer' = pio.data
  BY <1>0, QuietClock
<1>2. Show(otg', call.op, Left)
  BY <1>0, <1>1 DEF PioRight, Show
<1>3. CASE Begin
  <2>1. call.op = "none" /\ call'.op \in {"read", "write"} /\ Left' = 6
    <3>1. BusAssumption
      BY DEF Timing
    <3>2. call.op = "none" /\ call'.op \in {"read", "write"}
      BY <1>0, <1>3, <3>1, BeginIs DEF Idle
    <3>3. Left' = 6
      BY <1>0, <1>3, <3>1, BeginIs, NewCode DEF Left, BusCalls
    <3> QED
      BY <3>2, <3>3
  <2>2. Show(otg', call'.op, Left')
    BY <1>2, <2>1, LinesOfIs DEF Show
  <2> QED
    BY <2>1, <2>2 DEF Lag
<1>4. CASE Access
  <2>1. /\ Left \in Nat /\ Left >= 1 /\ Left' = Left - 1 /\ wait' = Gap - 1
        /\ call' = IF Left = 1 THEN Idle ELSE call
        /\ call.op \in {"init", "read", "write"}
        /\ Left <= (IF call.op = "init" THEN 10 ELSE 6)
    BY <1>0, <1>4, AccessIs, HeadIs DEF Timing
  <2>2. CASE Left = 1
    <3>1. call'.op = "none" /\ Left' = 0
      BY <2>1, <2>2 DEF Idle
    <3>2. pio.w = 1 /\ pio.reset = 1 /\ (pio.cs = 1 \/ pio.r = 1)
      BY <1>0, <2>1, <2>2, PioIs
    <3> QED
      BY <1>1, <3>1, <3>2 DEF Lag
  <2>3. CASE Left # 1
    <3>1. call' = call
      BY <2>1, <2>3
    <3>2. Left' + 1 = Left
      BY <2>1
    <3>3. Show(otg', call'.op, Left' + 1)
      BY <1>2, <3>1, <3>2
    <3>4. call.op \in {"read", "write"} /\ Left' <= 4 => pio.address = call.address
      BY <1>0, <2>1 DEF PioRight
    <3>5. call.op = "write" /\ Left' = 1 => pio.data = call.data
      BY <1>0, <2>1 DEF PioRight
    <3>6. Left' < (IF call.op = "init" THEN 10 ELSE 6)
      BY <2>1
    <3> QED
      BY <1>1, <2>1, <3>1, <3>3, <3>4, <3>5, <3>6 DEF Lag
  <2> QED
    BY <2>2, <2>3
<1>5. CASE NoAccess
  <2>1. call' = call /\ Left' = Left
    BY <1>5 DEF NoAccess, program, Left
  <2>2. /\ call.op = "none" => pio.w = 1 /\ pio.reset = 1 /\ pio.cs = 1
        /\ call.op \in {"read", "write"} /\ Left <= 4 => pio.address = call.address
        /\ call.op = "write" /\ Left = 1 => pio.data = call.data
    <3>1. Left \in Nat
      BY <1>0 DEF BusTypeOK, Left
    <3> QED
      BY <1>0, <3>1, PioIs DEF PioRight
  <2> QED
    BY <1>1, <1>2, <2>1, <2>2 DEF Lag
<1> QED
  BY <1>3, <1>4, <1>5 DEF BusClock

\* The gap between two accesses, as a number.
LEMMA TimingIs == Timing => BusAssumption /\ Gap \in Nat /\ Gap >= 4
  BY Ranges DEF Timing

\* How the accesses of the chip are counted.
LEMMA CountIs ==
  ASSUME BusAssumption, BusTypeOK, BusClock
  PROVE  /\ Begin => accesses' = 0
         /\ Access \/ NoAccess =>
              accesses' = IF accesses < 2 /\ (Strobe("w") \/ Strobe("r"))
                          THEN accesses + 1 ELSE accesses
<1>1. Counted
  BY DEF BusClock
<1>2. CASE Begin
  <2>1. code = <<>> /\ code' # <<>>
    <3>1. code = <<>> /\ call'.op \in {"read", "write"} /\ Len(code') = 6
      BY <1>2, BeginIs, NewCode DEF BusCalls
    <3>2. Len(<<>>) = 0
      OBVIOUS
    <3> QED
      BY <3>1, <3>2
  <2>2. ~(Access \/ NoAccess)
    BY <2>1 DEF Access, NoAccess, program
  <2> QED
    BY <1>1, <1>2, <2>1, <2>2, Zenon DEF Counted
<1>3. CASE ~Begin /\ (Access \/ NoAccess)
  <2>1. ~(code = <<>> /\ code' # <<>>)
    BY <1>3 DEF Access, NoAccess, program
  <2> QED
    BY <1>1, <1>3, <2>1, Zenon DEF Counted
<1> QED
  BY <1>2, <1>3

\* After IO_init the chip changes by the data of a write, when its strobe ends.
LEMMA ChipIs ==
  ASSUME Timing, BusInv, Lag, BusClock, call.op # "init"
  PROVE  /\ chip' = IF call.op = "write" /\ Left = 1 /\ otg.w = 0
                    THEN [chip EXCEPT ![call.address] = call.data] ELSE chip
<1>1. otg.reset = 1 /\ Chip /\ call.op \in {"none", "read", "write"}
  BY CallIs DEF BusInv, LinesSafe, BusClock, BusTypeOK
<1>2. Strobe("w") <=> call.op = "write" /\ Left = 1 /\ otg.w = 0
  BY <1>1, Strobes
<1>3. Strobe("w") => otg.address = call.address /\ from_sw_data_out_buffer = call.data
  BY <1>2 DEF Lag
<1>a. otg.reset # 0
  BY <1>1
<1>4. chip' = IF Strobe("w") THEN [chip EXCEPT ![otg.address] = from_sw_data_out_buffer] ELSE chip
  BY <1>1, <1>a, Zenon DEF Chip
<1>5. CASE Strobe("w")
  BY <1>2, <1>3, <1>4, <1>5, Zenon
<1>6. CASE ~Strobe("w")
  BY <1>2, <1>4, <1>6, Zenon
<1> QED
  BY <1>5, <1>6

\* The chip has been accessed as often as the strobes of the call say.
LEMMA MovedStep ==
  ASSUME Timing, BusInv, Lag, Moved, BusClock
  PROVE  Moved'
<1>0. /\ BusTypeOK /\ PioRight /\ InCode /\ BusAssumption
      /\ call.op \in {"none", "init", "read", "write"}
  BY CallIs DEF BusInv, BusTypeOK, Timing
<1>1. otg'.cs = pio.cs /\ otg'.w = pio.w /\ otg'.reset = pio.reset
  BY <1>0, QuietClock
<1>2. CASE Begin
  <2>1. call'.op \in {"read", "write"} /\ Left' = 6 /\ accesses' = 0
    BY <1>0, <1>2, BeginIs, NewCode, CountIs DEF Left, BusCalls
  <2> QED
    BY <2>1 DEF Moved
<1>3. CASE Access
  <2>1. /\ Left \in Nat /\ Left >= 1 /\ Left' = Left - 1 /\ wait = 0
        /\ call' = IF Left = 1 THEN Idle ELSE call
        /\ wait # Gap - 1
    BY <1>0, <1>3, AccessIs, TimingIs
  <2>2. CASE Left = 1
    <3>1. call'.op = "none"
      BY <2>1, <2>2 DEF Idle
    <3> QED
      BY <3>1 DEF Moved
  <2>3. CASE Left # 1
    <3>1. call' = call
      BY <2>1, <2>3
    <3>2. call.op = "init" /\ Left' = 1 => pio.reset = 0
      BY <1>0, <2>1, PioIs
    <3>3. call.op \in {"read", "write"} => accesses' = accesses
      BY <1>0, <1>3, <2>3, Strobes, CountIs
    <3>4. call.op = "write" /\ Left' = 1 => pio.w = 0
      BY <1>0, <2>1, PioIs
    <3>5. call.op = "read" /\ Left' = 1 => pio.cs = 0
      BY <1>0, <2>1, PioIs
    <3> QED
      BY <1>1, <2>3, <3>1, <3>2, <3>3, <3>4, <3>5 DEF Moved
  <2> QED
    BY <2>2, <2>3
<1>4. CASE NoAccess
  <2>1. call' = call /\ Left' = Left
    BY <1>4 DEF NoAccess, program, Left
  <2>2. ASSUME call.op = "init", Left = 1, NEW p \in Ports \ Owned
        PROVE  chip'[p] = 0
    <3>1. ~Strobe("w") /\ Chip
      BY <2>2, Strobes DEF BusClock
    <3>2. CASE otg.reset = 0
      BY <3>1, <3>2 DEF Chip
    <3>3. CASE otg.reset # 0
      <4>1. otg.reset = 1
        BY <1>0, <3>3 DEF BusTypeOK
      <4> QED
        BY <2>2, <3>1, <4>1 DEF Chip, Moved
    <3> QED
      BY <3>2, <3>3
  <2>3. call.op = "write" => accesses' = (IF Left = 1 /\ pio.w = 1 THEN 1 ELSE 0)
    <3> SUFFICES ASSUME call.op = "write" PROVE accesses' = (IF Left = 1 /\ pio.w = 1 THEN 1 ELSE 0)
      OBVIOUS
    <3>1. accesses' = IF accesses < 2 /\ Left = 1 /\ otg.w = 0 THEN accesses + 1 ELSE accesses
      BY <1>0, <1>4, Strobes, CountIs
    <3>2. accesses = (IF Left = 1 /\ otg.w = 1 THEN 1 ELSE 0) /\ otg.w \in {0, 1}
      BY <1>0 DEF Moved, BusTypeOK
    <3>3. Left = 1 => pio.w = 1
      BY <1>0, PioIs
    <3> QED
      BY <3>1, <3>2, <3>3
  <2>4. call.op = "read" => accesses' = (IF Left = 1 /\ pio.cs = 1 THEN 1 ELSE 0)
    <3> SUFFICES ASSUME call.op = "read" PROVE accesses' = (IF Left = 1 /\ pio.cs = 1 THEN 1 ELSE 0)
      OBVIOUS
    <3>1. accesses' = IF accesses < 2 /\ Left = 1 /\ otg.cs = 0 THEN accesses + 1 ELSE accesses
      BY <1>0, <1>4, Strobes, CountIs
    <3>2. accesses = (IF Left = 1 /\ otg.cs = 1 THEN 1 ELSE 0) /\ otg.cs \in {0, 1}
      BY <1>0 DEF Moved, BusTypeOK
    <3>3. Left = 1 => pio.cs = 1
      BY <1>0, PioIs
    <3> QED
      BY <3>1, <3>2, <3>3
  <2> QED
    BY <1>1, <2>1, <2>2, <2>3, <2>4 DEF Moved
<1> QED
  BY <1>2, <1>3, <1>4 DEF BusClock

\* What a read loads was on its way for long enough to be of this call.
LEMMA AnswersStep ==
  ASSUME Timing, BusInv, Lag, Answers, BusClock
  PROVE  Answers'
<1>0. /\ BusTypeOK /\ PioRight /\ InCode /\ call.op \in {"none", "init", "read", "write"}
      /\ BusAssumption /\ call.address \in Ports
  BY CallIs DEF BusInv, BusTypeOK, Timing
<1>1. CASE Begin
  <2>1. call.op = "none" /\ call'.op # "init"
    BY <1>0, <1>1, BeginIs DEF Idle
  <2>2. call'.op = "read" => temp' = None /\ may' = {chip[call'.address]} /\ Left' = 6
    BY <1>0, <1>1, BeginIs, NewCode, Ranges DEF Left
  <2>3. chip' = chip
    BY <2>1, ChipIs
  <2> QED
    BY <2>1, <2>2, <2>3 DEF Answers
<1>2. CASE Access
  <2>1. /\ Left \in Nat /\ Left >= 1 /\ Left' = Left - 1 /\ wait = 0 /\ wait' = Gap - 1
        /\ call' = IF Left = 1 THEN Idle ELSE call
        /\ may' = may /\ Gap \in Nat /\ Gap >= 4
    BY <1>0, <1>2, AccessIs, TimingIs
  <2>2. CASE Left = 1
    <3>1. call'.op = "none"
      BY <2>1, <2>2 DEF Idle
    <3> QED
      BY <3>1 DEF Answers
  <2>3. CASE Left # 1
    <3>1. call' = call
      BY <2>1, <2>3
    <3>2. call.op = "init" => temp' = temp
      <4> SUFFICES ASSUME call.op = "init" PROVE temp' = temp
        OBVIOUS
      <4>1. Left \in 1 .. 10
        BY <1>0, <1>2, InitSteps
      <4> QED
        BY <1>0, <1>2, <4>1, InitSteps
    <3>3. call.op = "read" => Left \in 1 .. 6 /\ temp' = (IF Left = 3 THEN readdata ELSE temp)
      BY <1>0, <1>2, ReadSteps
    <3>4. call.op = "read" => chip' = chip
      BY ChipIs
    <3>5. call.op = "read" /\ Left = 3 => readdata \in may
      BY <2>1 DEF Answers
    <3>6. may \subseteq Values /\ None \notin Values
      BY <1>0, Ranges DEF BusTypeOK
    <3>7. call.op = "read" =>
            /\ Left' >= 3 => temp' = None
            /\ Left' <= 2 => temp' # None
      BY <2>1, <3>3, <3>5, <3>6 DEF Answers
    <3> QED
      BY <2>1, <3>1, <3>2, <3>4, <3>7 DEF Answers
  <2> QED
    BY <2>2, <2>3
<1>3. CASE NoAccess
  <2>1. /\ call' = call /\ Left' = Left /\ temp' = temp /\ may' = may
        /\ wait' = IF wait = 0 THEN 0 ELSE wait - 1
    BY <1>3 DEF NoAccess, program, Left
  <2>2. call.op = "read" => chip' = chip
    BY ChipIs
  <2>3. wait \in 0 .. Gap - 1 /\ Gap \in Nat /\ Gap >= 4
    BY <1>0, TimingIs DEF BusTypeOK
  <2>4. call.op = "read" /\ Left = 3 /\ wait' <= Gap - 3 => from_sw_data_in' \in may
    <3> SUFFICES ASSUME call.op = "read", Left = 3, wait' <= Gap - 3 PROVE from_sw_data_in' \in may
      OBVIOUS
    <3>1. wait # Gap - 1
      BY <2>1, <2>3
    <3>2. otg.w = 1 /\ otg.r = 0 /\ otg.cs = 0
      BY <1>0, <3>1, OtgIs
    <3>3. otg.address = call.address
      BY DEF Lag
    <3>4. from_sw_data_in' \in Bus
      BY <1>0, QuietClock
    <3>5. Bus = {chip[call.address]}
      BY <3>2, <3>3 DEF Bus
    <3> QED
      BY <3>4, <3>5 DEF Answers
  <2>5. call.op = "read" /\ Left = 3 /\ wait' <= Gap - 4 => readdata' \in may
    <3> SUFFICES ASSUME call.op = "read", Left = 3, wait' <= Gap - 4 PROVE readdata' \in may
      OBVIOUS
    <3>1. wait <= Gap - 3
      BY <2>1, <2>3
    <3> QED
      BY <1>0, <3>1, QuietClock DEF Answers
  <2> QED
    BY <2>1, <2>2, <2>4, <2>5 DEF Answers
<1> QED
  BY <1>1, <1>2, <1>3 DEF BusClock

\* The inductive invariant of the refinement.
BusRefined == BusInv /\ Lag /\ Moved /\ Answers

\* The chip changes a port of its own, and nothing else.
LEMMA ChangeStep ==
  ASSUME Timing, BusRefined, \E p \in Owned, v \in Values : Change(p, v)
  PROVE  Lag' /\ Moved' /\ Answers'
<1>1. PICK p \in Owned, v \in Values : Change(p, v)
  OBVIOUS
<1>2. UNCHANGED <<code, call, temp, wait, pio, readdata, from_sw_data_in,
                 from_sw_data_out_buffer, otg, accesses>>
  BY <1>1 DEF Change, program
<1>3. /\ chip' = [chip EXCEPT ![p] = v] /\ chip \in [Ports -> Values]
      /\ may' = IF call.op = "read" /\ call.address = p THEN may \cup {v} ELSE may
  BY <1>1 DEF Change, BusRefined, BusInv, BusTypeOK
<1>4. Lag'
  BY <1>2 DEF BusRefined, Lag, Show, Left
<1>5. Moved'
  BY <1>2, <1>3 DEF BusRefined, Moved, Left
<1>6. call.op = "read" => chip'[call.address] \in may'
  BY <1>3, Ranges, CallIs DEF BusRefined, Answers, Timing, BusInv, BusTypeOK
<1>7. may \subseteq may'
  BY <1>3
<1>8. Answers'
  BY <1>2, <1>6, <1>7 DEF BusRefined, Answers, Left
<1> QED
  BY <1>4, <1>5, <1>8

\* The invariant of the refinement holds at power-up.
LEMMA BusRefinedInit == Timing /\ BusInit => BusRefined
<1> SUFFICES ASSUME Timing, BusInit PROVE BusRefined
  OBVIOUS
<1>1. BusInv
  BY InitBusTypeOK, InitPio, InitLinesSafe DEF BusInv, Timing
<1>2. call.op = "init" /\ temp = None
  BY DEF BusInit, Idle
<1>3. Left = 10
  BY NewCode, Ranges DEF BusInit, Left, Timing
<1>4. otg.reset = 0 /\ otg.cs = 0 /\ otg.r = 0 /\ otg.w = 0
  BY DEF BusInit, Released
<1>5. Lag
  BY <1>2, <1>3, <1>4, LinesOfIs DEF Lag, Show
<1> QED
  BY <1>1, <1>2, <1>3, <1>5 DEF BusRefined, Moved, Answers

\* Every step keeps it.
LEMMA BusRefinedStep == Timing /\ BusRefined /\ [BusNext]_busVars => BusRefined'
<1> SUFFICES ASSUME Timing, BusRefined, [BusNext]_busVars PROVE BusRefined'
  OBVIOUS
<1>0. BusInv /\ Lag /\ Moved /\ Answers
  BY DEF BusRefined
<1>1. BusInv'
  BY <1>0, BusInvStep DEF Timing
<1>2. CASE BusClock
  BY <1>0, <1>1, <1>2, LagStep, MovedStep, AnswersStep DEF BusRefined
<1>3. CASE \E p \in Owned, v \in Values : Change(p, v)
  BY <1>1, <1>3, ChangeStep DEF BusRefined
<1>4. CASE UNCHANGED busVars
  BY <1>0, <1>1, <1>4 DEF BusRefined, Lag, Moved, Answers, busVars, program, Show, Left
<1> QED
  BY <1>2, <1>3, <1>4 DEF BusNext

\* The initial states map to initial states.
LEMMA BusInitMaps == Timing /\ BusInit => Expected!Init
<1> SUFFICES ASSUME Timing, BusInit PROVE Expected!Init
  OBVIOUS
<1>1. chip \in [Ports -> Values]
  BY DEF BusInit
<1>2. call = [Idle EXCEPT !.op = "init"] /\ accesses = 0 /\ may = {} /\ temp = None
  BY DEF BusInit
<1> QED
  BY <1>1, <1>2 DEF Expected!Init, Expected!Idle, Idle

\* The record of a read, written out.
LEMMA ReadCall ==
  \A a : [Idle EXCEPT !.op = "read", !.address = a] = [op |-> "read", address |-> a, data |-> 0]
<1> SUFFICES ASSUME NEW a
             PROVE  [Idle EXCEPT !.op = "read", !.address = a]
                      = [op |-> "read", address |-> a, data |-> 0]
  OBVIOUS
<1> DEFINE c == [Idle EXCEPT !.op = "read", !.address = a]
<1>1. c \in [op : {"read"}, address : {a}, data : {0}]
  BY DEF Idle
<1> HIDE DEF c
<1>2. c = [op |-> "read", address |-> a, data |-> 0]
  BY <1>1
<1> QED
  BY <1>2 DEF c

\* Every clock is a step of the ports or a stutter.
LEMMA ClockMaps ==
  ASSUME Timing, BusRefined, BusClock
  PROVE  [Expected!Next]_(Expected!vars)
<1>0. /\ BusInv /\ Lag /\ Moved /\ Answers /\ BusTypeOK /\ InCode /\ BusAssumption /\ BusTypeOK'
      /\ call.op \in {"none", "init", "read", "write"}
      /\ call.address \in Ports /\ call.data \in Values
      /\ (call.op = "none" => call = Idle)
  BY CallIs, BusTypeStep DEF BusRefined, BusInv, Timing, BusTypeOK, BusNext
<1>1. CASE Begin
  <2>1. /\ call = Idle /\ accesses' = 0
        /\ call'.address \in Ports /\ call' \in BusCalls
        /\ \/ call'.op = "read" /\ temp' = None /\ may' = {chip[call'.address]}
           \/ call'.op = "write" /\ UNCHANGED <<temp, may>>
    BY <1>0, <1>1, BeginIs, CountIs
  <2>2. chip' = chip
    BY <1>0, <2>1, ChipIs DEF Idle
  <2>3. CASE call'.op = "read" /\ temp' = None /\ may' = {chip[call'.address]}
    <3>1. call' = [Idle EXCEPT !.op = "read", !.address = call'.address]
      <4> DEFINE a == call'.address
      <4>1. call' = [op |-> "read", address |-> a, data |-> 0]
        BY <2>1, <2>3 DEF BusCalls
      <4> HIDE DEF a
      <4>2. call' = [Idle EXCEPT !.op = "read", !.address = a]
        BY <4>1, ReadCall, Zenon
      <4> QED
        BY <4>2 DEF a
    <3>2. Expected!Read(call'.address)
      BY <2>1, <2>2, <2>3, <3>1 DEF Expected!Read, Expected!Idle, Idle
    <3> QED
      BY <2>1, <3>2 DEF Expected!Next
  <2>4. CASE call'.op = "write" /\ UNCHANGED <<temp, may>>
    <3>1. /\ call' = [op |-> "write", address |-> call'.address, data |-> call'.data]
          /\ call'.data \in Values
      BY <2>1, <2>4 DEF BusCalls
    <3>2. Expected!Write(call'.address, call'.data)
      BY <2>1, <2>2, <2>4, <3>1 DEF Expected!Write, Expected!Idle, Idle
    <3> QED
      BY <2>1, <3>1, <3>2 DEF Expected!Next
  <2> QED
    BY <2>1, <2>3, <2>4
<1>2. CASE Access
  <2>1. /\ Left \in Nat /\ Left >= 1 /\ wait = 0 /\ may' = may
        /\ call' = IF Left = 1 THEN Idle ELSE call
        /\ call.op \in {"init", "read", "write"} /\ wait # Gap - 1
    BY <1>0, <1>2, AccessIs, HeadIs, TimingIs
  <2>2. CASE call.op = "init"
    <3>1. Left \in 1 .. 10 /\ temp' = temp
      <4>1. Left \in 1 .. 10
        BY <1>0, <1>2, <2>2, InitSteps
      <4> QED
        BY <1>0, <1>2, <2>2, <4>1, InitSteps
    <3>2. CASE Left = 1
      <4>1. ~Strobe("w") /\ ~Strobe("r") /\ Chip
        BY <1>0, <2>2, <3>2, Strobes DEF BusClock
      <4>2. otg.reset = 1
        BY <1>0, <2>1, <2>2, <3>2, OtgIs
      <4>3. chip' = chip /\ \A p \in Ports \ Owned : chip[p] = 0
        BY <1>0, <2>2, <3>2, <4>1, <4>2 DEF Chip, Moved
      <4>4. accesses' = accesses
        BY <1>0, <1>2, <4>1, CountIs
      <4>5. call' = Expected!Idle
        BY <2>1, <3>2 DEF Idle, Expected!Idle
      <4>6. Expected!Started
        BY <2>1, <2>2, <3>1, <4>3, <4>4, <4>5 DEF Expected!Started
      <4> QED
        BY <4>6 DEF Expected!Next
    <3>3. CASE Left # 1
      <4>1. Expected!Starting
        BY <1>0, <2>1, <2>2, <3>1, <3>3 DEF Expected!Starting, BusTypeOK
      <4> QED
        BY <4>1 DEF Expected!Next
    <3> QED
      BY <3>2, <3>3
  <2>3. CASE call.op = "write"
    <3>1. otg.w = (IF Left \in {3, 2} THEN 0 ELSE 1) /\ Left \in 1 .. 6
      BY <1>0, <2>1, <2>3, OtgIs DEF InCode
    <3>2. chip' = chip
      BY <1>0, <2>3, <3>1, ChipIs
    <3>3. ~Strobe("w") /\ ~Strobe("r")
      BY <1>0, <2>3, <3>1, Strobes
    <3>4. accesses' = accesses
      BY <1>0, <1>2, <3>3, CountIs
    <3>5. temp' = temp
      BY <1>0, <1>2, <2>3, <3>1, WriteSteps
    <3>6. CASE Left = 1
      <4>1. accesses = 1
        BY <1>0, <2>3, <3>1, <3>6 DEF Moved
      <4>2. call' = Expected!Idle
        BY <2>1, <3>6 DEF Idle, Expected!Idle
      <4>3. Expected!Return
        BY <2>1, <2>3, <3>2, <3>4, <3>5, <4>1, <4>2 DEF Expected!Return
      <4> QED
        BY <4>3 DEF Expected!Next
    <3>7. CASE Left # 1
      BY <2>1, <3>2, <3>4, <3>5, <3>7 DEF Expected!vars
    <3> QED
      BY <3>6, <3>7
  <2>4. CASE call.op = "read"
    <3>1. otg.cs = (IF Left \in {3, 2} THEN 0 ELSE 1) /\ Left \in 1 .. 6
      BY <1>0, <2>1, <2>4, OtgIs DEF InCode
    <3>2. chip' = chip
      BY <1>0, <2>4, ChipIs
    <3>3. ~Strobe("w") /\ ~Strobe("r")
      BY <1>0, <2>4, <3>1, Strobes
    <3>4. accesses' = accesses
      BY <1>0, <1>2, <3>3, CountIs
    <3>5. temp' = (IF Left = 3 THEN readdata ELSE temp)
      BY <1>0, <1>2, <2>4, <3>1, ReadSteps
    <3>6. CASE Left = 1
      <4>1. accesses = 1
        BY <1>0, <2>4, <3>1, <3>6 DEF Moved
      <4>2. call' = Expected!Idle
        BY <2>1, <3>6 DEF Idle, Expected!Idle
      <4>3. Expected!Return
        BY <2>1, <2>4, <3>2, <3>4, <3>5, <3>6, <4>1, <4>2 DEF Expected!Return
      <4> QED
        BY <4>3 DEF Expected!Next
    <3>7. CASE Left = 3
      <4>1. accesses = 0 /\ temp = None
        BY <1>0, <2>4, <3>7 DEF Moved, Answers
      <4>2. 0 <= Gap - 4
        BY TimingIs
      <4>3. readdata \in may
        BY <1>0, <2>1, <2>4, <3>7, <4>2 DEF Answers
      <4>4. call' = call
        BY <2>1, <3>7
      <4>5. Expected!Answer
        BY <2>1, <2>4, <3>2, <3>4, <3>5, <3>7, <4>1, <4>3, <4>4 DEF Expected!Answer
      <4> QED
        BY <4>5 DEF Expected!Next
    <3>8. CASE Left \notin {1, 3}
      BY <2>1, <3>2, <3>4, <3>5, <3>8 DEF Expected!vars
    <3> QED
      BY <3>6, <3>7, <3>8
  <2> QED
    BY <2>1, <2>2, <2>3, <2>4
<1>3. CASE NoAccess
  <2>1. UNCHANGED <<code, call, temp, may>>
    BY <1>3 DEF NoAccess, program
  <2>2. CASE call.op = "init"
    <3>1. Expected!Starting
      BY <1>0, <2>1, <2>2 DEF Expected!Starting, BusTypeOK
    <3> QED
      BY <3>1 DEF Expected!Next
  <2>3. CASE call.op = "none"
    <3>1. chip' = chip /\ ~Strobe("w") /\ ~Strobe("r")
      BY <1>0, <2>3, ChipIs, Strobes
    <3>2. accesses' = accesses
      BY <1>0, <1>3, <3>1, CountIs
    <3> QED
      BY <2>1, <3>1, <3>2 DEF Expected!vars
  <2>4. CASE call.op = "write"
    <3>1. CASE Left = 1 /\ otg.w = 0
      <4>1. chip' = [chip EXCEPT ![call.address] = call.data]
        BY <1>0, <2>4, <3>1, ChipIs
      <4>2. accesses = 0
        BY <1>0, <2>4, <3>1 DEF Moved
      <4>3. accesses' = 1
        BY <1>0, <1>3, <2>4, <3>1, <4>2, Strobes, CountIs
      <4>4. Expected!Take
        BY <2>1, <2>4, <4>1, <4>2, <4>3 DEF Expected!Take
      <4> QED
        BY <4>4 DEF Expected!Next
    <3>2. CASE ~(Left = 1 /\ otg.w = 0)
      <4>1. chip' = chip /\ ~Strobe("w") /\ ~Strobe("r")
        BY <1>0, <2>4, <3>2, ChipIs, Strobes
      <4>2. accesses' = accesses
        BY <1>0, <1>3, <4>1, CountIs
      <4> QED
        BY <2>1, <4>1, <4>2 DEF Expected!vars
    <3> QED
      BY <3>1, <3>2
  <2>5. CASE call.op = "read"
    <3>0. chip' = chip
      BY <1>0, <2>5, ChipIs
    <3>1. CASE Left = 1 /\ otg.cs = 0
      <4>1. accesses = 0 /\ temp # None
        BY <1>0, <2>5, <3>1 DEF Moved, Answers
      <4>2. accesses' = 1
        BY <1>0, <1>3, <2>5, <3>1, <4>1, Strobes, CountIs
      <4>3. Expected!Advance
        BY <2>1, <2>5, <3>0, <4>1, <4>2 DEF Expected!Advance
      <4> QED
        BY <4>3 DEF Expected!Next
    <3>2. CASE ~(Left = 1 /\ otg.cs = 0)
      <4>1. ~Strobe("w") /\ ~Strobe("r")
        BY <1>0, <2>5, <3>2, Strobes
      <4>2. accesses' = accesses
        BY <1>0, <1>3, <4>1, CountIs
      <4> QED
        BY <2>1, <3>0, <4>2 DEF Expected!vars
    <3> QED
      BY <3>1, <3>2
  <2> QED
    BY <1>0, <2>2, <2>3, <2>4, <2>5
<1> QED
  BY <1>1, <1>2, <1>3 DEF BusClock

\* And so is every step.
LEMMA BusStepMaps == Timing /\ BusRefined /\ [BusNext]_busVars => [Expected!Next]_(Expected!vars)
<1> SUFFICES ASSUME Timing, BusRefined, [BusNext]_busVars PROVE [Expected!Next]_(Expected!vars)
  OBVIOUS
<1>1. CASE BusClock
  BY <1>1, ClockMaps
<1>2. CASE \E p \in Owned, v \in Values : Change(p, v)
  <2>1. PICK p \in Owned, v \in Values : Change(p, v)
    BY <1>2
  <2>2. p \in Ports
    BY Ranges DEF Timing
  <2>3. Expected!Change(p, v)
    BY <2>1 DEF Change, Expected!Change, program
  <2> QED
    BY <2>2, <2>3 DEF Expected!Next
<1>3. CASE UNCHANGED busVars
  BY <1>3 DEF busVars, program, Expected!vars
<1> QED
  BY <1>1, <1>2, <1>3 DEF BusNext

\* Without resets, and with four clocks or more between two accesses, the stores of
\* io_handler.c and the registers of hpi_io_intf.sv implement the ports: a write is one
\* access, to its port and with its data, a read is one access and returns what the
\* port held during the call.
THEOREM PortsImplemented ==
  ASSUME BusAssumption, ~Resets, Gap >= 4
  PROVE  BusSpec => ImplementsPorts
<1>0. Timing
  BY DEF Timing
<1>1. BusInit => BusRefined
  BY <1>0, BusRefinedInit
<1>2. BusRefined /\ [BusNext]_busVars => BusRefined'
  BY <1>0, BusRefinedStep
<1>3. BusInit => Expected!Init
  BY <1>0, BusInitMaps
<1>4. BusRefined /\ [BusNext]_busVars => [Expected!Next]_(Expected!vars)
  BY <1>0, BusStepMaps
<1> QED
  BY <1>1, <1>2, <1>3, <1>4, PTL DEF BusSpec, ImplementsPorts, Expected!Spec

-----------------------------------------------------------------------------
(* The ring buffers of the JTAG UART.                                      *)

\* The numbers of the characters.
CharNumbers == 0 .. Numbers - 1

\* A sum of two indexes, and a difference, taken round the buffer once.
Round(x) == IF x < BUF_LEN THEN x ELSE x - BUF_LEN

\* Indexes go round the buffer.
LEMMA RoundIs ==
  ASSUME JtagUartAssumption
  PROVE  /\ BUF_LEN \in Nat /\ BUF_LEN >= 2
         /\ \A x \in 0 .. 2 * BUF_LEN - 1 : x % BUF_LEN = Round(x)
         /\ \A i, o \in Slot : Used(i, o) = IF i >= o THEN i - o ELSE i - o + BUF_LEN
<1>0. BUF_LEN \in Nat /\ BUF_LEN >= 2
  BY DEF JtagUartAssumption
<1>1. \A x \in 0 .. BUF_LEN - 1 : x % BUF_LEN = x
  BY <1>0
<1>2. \A x \in BUF_LEN .. 2 * BUF_LEN - 1 : x % BUF_LEN = x - BUF_LEN
  BY <1>0
<1>3. \A x \in -BUF_LEN .. -1 : x % BUF_LEN = x + BUF_LEN
  BY <1>0
<1>4. \A x \in 0 .. 2 * BUF_LEN - 1 : x % BUF_LEN = Round(x)
  <2> SUFFICES ASSUME NEW x \in 0 .. 2 * BUF_LEN - 1 PROVE x % BUF_LEN = Round(x)
    OBVIOUS
  <2>1. CASE x < BUF_LEN
    BY <1>0, <1>1, <2>1 DEF Round
  <2>2. CASE x >= BUF_LEN
    BY <1>0, <1>2, <2>2 DEF Round
  <2> QED
    BY <1>0, <2>1, <2>2
<1>5. \A i, o \in Slot : Used(i, o) = IF i >= o THEN i - o ELSE i - o + BUF_LEN
  <2> SUFFICES ASSUME NEW i \in Slot, NEW o \in Slot
               PROVE  Used(i, o) = IF i >= o THEN i - o ELSE i - o + BUF_LEN
    OBVIOUS
  <2>1. CASE i >= o
    <3>1. i - o \in 0 .. BUF_LEN - 1
      BY <1>0, <2>1 DEF Slot
    <3> QED
      BY <1>1, <2>1, <3>1, Zenon DEF Used
  <2>2. CASE ~(i >= o)
    <3>1. i - o \in -BUF_LEN .. -1
      BY <1>0, <2>2 DEF Slot
    <3> QED
      BY <1>3, <2>2, <3>1, Zenon DEF Used
  <2> QED
    BY <2>1, <2>2
<1> QED
  BY <1>0, <1>4, <1>5

\* A ring holds fewer characters than it has slots, and shows them from out on.
LEMMA RingIs ==
  ASSUME JtagUartAssumption, NEW buf \in [Slot -> CharNumbers], NEW i \in Slot, NEW o \in Slot
  PROVE  /\ Used(i, o) \in 0 .. BUF_LEN - 1
         /\ Contents(buf, i, o) \in Seq(CharNumbers)
         /\ Len(Contents(buf, i, o)) = Used(i, o)
         /\ \A k \in 1 .. Used(i, o) : /\ Round(o + k - 1) \in Slot
                                       /\ Contents(buf, i, o)[k] = buf[Round(o + k - 1)]
<1>0. BUF_LEN \in Nat /\ BUF_LEN >= 2
  BY RoundIs
<1>a. i \in Nat /\ o \in Nat /\ i < BUF_LEN /\ o < BUF_LEN
  BY <1>0 DEF Slot
<1>b. Used(i, o) = IF i >= o THEN i - o ELSE i - o + BUF_LEN
  BY RoundIs
<1>1. Used(i, o) \in 0 .. BUF_LEN - 1
  BY <1>0, <1>a, <1>b
<1>2. \A k \in 1 .. Used(i, o) :
        (o + k - 1) % BUF_LEN = Round(o + k - 1) /\ Round(o + k - 1) \in Slot
  <2> SUFFICES ASSUME NEW k \in 1 .. Used(i, o)
               PROVE  (o + k - 1) % BUF_LEN = Round(o + k - 1) /\ Round(o + k - 1) \in Slot
    OBVIOUS
  <2>1. o + k - 1 \in 0 .. 2 * BUF_LEN - 1
    BY <1>0, <1>1 DEF Slot
  <2>2. Round(o + k - 1) \in Slot
    BY <1>0, <2>1 DEF Slot, Round
  <2> QED
    BY <2>1, <2>2, RoundIs
<1> DEFINE u == Used(i, o)
<1>3. Contents(buf, i, o) = [k \in 1 .. u |-> buf[(o + k - 1) % BUF_LEN]]
  BY DEF Contents
<1> HIDE DEF u
<1>4. \A k \in 1 .. u : /\ buf[(o + k - 1) % BUF_LEN] = buf[Round(o + k - 1)]
                        /\ buf[(o + k - 1) % BUF_LEN] \in CharNumbers
  BY <1>2 DEF u
<1>5. u \in Nat
  BY <1>1 DEF u
<1>6. Contents(buf, i, o) \in [1 .. u -> CharNumbers]
  BY <1>3, <1>4, Zenon
<1>7. Contents(buf, i, o) \in Seq(CharNumbers) /\ Len(Contents(buf, i, o)) = u
  BY <1>5, <1>6, IsASeq, LenProperties
<1>8. \A k \in 1 .. u : Contents(buf, i, o)[k] = buf[Round(o + k - 1)]
  BY <1>3, <1>4
<1> QED
  BY <1>1, <1>2, <1>7, <1>8 DEF u

\* There is room for characters s behind the last one, without going round the end of
\* the buffer; they are there; and the index behind them.
Fits(i, o, s) == Len(s) + Used(i, o) <= BUF_LEN - 1 /\ i + Len(s) <= BUF_LEN
Fills(new, buf, i, s) ==
    \A k \in Slot : new[k] = IF k \in i .. i + Len(s) - 1 THEN s[k - i + 1] ELSE buf[k]
After(i, s) == (i + Len(s)) % BUF_LEN

\* Characters go in behind the others, as far as there is room.
LEMMA RingGrows ==
  ASSUME JtagUartAssumption, NEW i \in Slot, NEW o \in Slot, NEW s \in Seq(CharNumbers),
         NEW buf \in [Slot -> CharNumbers], NEW new \in [Slot -> CharNumbers],
         Fits(i, o, s), Fills(new, buf, i, s)
  PROVE  Contents(new, After(i, s), o) = Contents(buf, i, o) \o s
<1> DEFINE m == Len(s)
<1>m. /\ m \in Nat /\ m + Used(i, o) <= BUF_LEN - 1 /\ i + m <= BUF_LEN
      /\ \A k \in Slot : new[k] = IF k \in i .. i + m - 1 THEN s[k - i + 1] ELSE buf[k]
      /\ After(i, s) = (i + m) % BUF_LEN /\ Len(s) = m
  BY LenProperties DEF Fits, Fills, After
<1> HIDE DEF m
<1>0. BUF_LEN \in Nat /\ BUF_LEN >= 2 /\ i \in Nat /\ o \in Nat /\ i < BUF_LEN /\ o < BUF_LEN
  BY RoundIs DEF Slot
<1>1. i + m \in 0 .. 2 * BUF_LEN - 1
  BY <1>0, <1>m
<1>2. (i + m) % BUF_LEN = Round(i + m) /\ Round(i + m) \in Slot
  <2>1. Round(i + m) \in Slot
    BY <1>0, <1>1 DEF Slot, Round
  <2> QED
    BY <1>1, <2>1, RoundIs
<1> DEFINE u == Used(i, o)
           j == Round(i + m)
           A == Contents(buf, i, o)
           C == Contents(new, j, o)
<1>d. j = (IF i + m < BUF_LEN THEN i + m ELSE i + m - BUF_LEN)
  BY <1>0, <1>1, <1>m DEF Round
<1>a. j \in Slot
  BY <1>2
<1> HIDE DEF j
<1>b. Used(j, o) = (IF j >= o THEN j - o ELSE j - o + BUF_LEN)
  BY <1>a, RoundIs
<1>c. u = (IF i >= o THEN i - o ELSE i - o + BUF_LEN)
  BY RoundIs
<1>3. /\ u = (IF i >= o THEN i - o ELSE i - o + BUF_LEN)
      /\ Used(j, o) = (IF j >= o THEN j - o ELSE j - o + BUF_LEN)
      /\ j = (IF i + m < BUF_LEN THEN i + m ELSE i + m - BUF_LEN)
  BY <1>b, <1>c, <1>d
<1>4. u \in Nat /\ u + m <= BUF_LEN - 1 /\ Used(j, o) = u + m
  BY <1>0, <1>3, <1>m
<1>5. /\ A \in Seq(CharNumbers) /\ Len(A) = u
      /\ \A k \in 1 .. u : Round(o + k - 1) \in Slot /\ A[k] = buf[Round(o + k - 1)]
  BY RingIs
<1>6. /\ C \in Seq(CharNumbers) /\ Len(C) = u + m
      /\ \A k \in 1 .. u + m : Round(o + k - 1) \in Slot /\ C[k] = new[Round(o + k - 1)]
  <2>1. /\ C \in Seq(CharNumbers) /\ Len(C) = Used(j, o)
        /\ \A k \in 1 .. Used(j, o) : Round(o + k - 1) \in Slot /\ C[k] = new[Round(o + k - 1)]
    BY <1>a, RingIs
  <2>2. Used(j, o) = u + m
    BY <1>4
  <2> HIDE DEF C, u
  <2> QED
    BY <2>1, <2>2, Zenon
<1> HIDE DEF A, C
<1>7. \A k \in 1 .. u : Round(o + k - 1) \notin i .. i + m - 1
  BY <1>0, <1>3, <1>4, <1>m DEF Round
<1>8. \A k \in u + 1 .. u + m : Round(o + k - 1) = i + (k - u) - 1
  BY <1>0, <1>3, <1>4, <1>m DEF Round
<1> HIDE DEF u
<1>9. /\ A \o s \in Seq(CharNumbers) /\ Len(A \o s) = u + m
      /\ \A k \in 1 .. u + m : (A \o s)[k] = IF k <= u THEN A[k] ELSE s[k - u]
  <2>1. /\ A \o s \in Seq(CharNumbers) /\ Len(A \o s) = Len(A) + Len(s)
        /\ \A k \in 1 .. Len(A) + Len(s) : (A \o s)[k] = IF k <= Len(A) THEN A[k] ELSE s[k - Len(A)]
    <3>1. A \in Seq(CharNumbers) /\ s \in Seq(CharNumbers)
      BY <1>5
    <3> QED
      BY <3>1, ConcatProperties, Zenon
  <2> QED
    BY <1>5, <1>m, <2>1, Zenon
<1>10. \A k \in 1 .. u + m : C[k] = (A \o s)[k]
  <2> SUFFICES ASSUME NEW k \in 1 .. u + m PROVE C[k] = (A \o s)[k]
    OBVIOUS
  <2>1. C[k] = new[Round(o + k - 1)] /\ Round(o + k - 1) \in Slot
    BY <1>6
  <2>2. CASE k <= u
    <3>1. k \in 1 .. u
      BY <1>4, <2>2
    <3>2. A[k] = buf[Round(o + k - 1)] /\ Round(o + k - 1) \notin i .. i + m - 1
      BY <1>5, <1>7, <3>1
    <3>3. new[Round(o + k - 1)] = buf[Round(o + k - 1)]
      BY <1>m, <2>1, <3>2
    <3> QED
      BY <1>9, <2>1, <2>2, <3>2, <3>3
  <2>3. CASE k > u
    <3>1. k \in u + 1 .. u + m
      BY <1>4, <2>3
    <3>2. Round(o + k - 1) = i + (k - u) - 1
      BY <1>8, <3>1
    <3>3. Round(o + k - 1) \in i .. i + m - 1 /\ Round(o + k - 1) - i + 1 = k - u
      <4>1. i \in Nat /\ u \in Nat /\ m \in Nat /\ k \in Nat /\ k >= u + 1 /\ k <= u + m
        BY <1>0, <1>4, <1>m, <3>1
      <4> QED
        BY <3>2, <4>1
    <3>4. new[Round(o + k - 1)] = s[k - u]
      BY <1>m, <2>1, <3>3
    <3> QED
      BY <1>4, <1>9, <2>1, <2>3, <3>4
  <2>4. k <= u \/ k > u
    BY <1>4
  <2> QED
    BY <2>2, <2>3, <2>4, Zenon
<1>11. C = A \o s
  BY <1>6, <1>9, <1>10, SeqEqual
<1> QED
  BY <1>2, <1>11, <1>m DEF A, C, j

\* The oldest m characters leave.
LEMMA RingShrinks ==
  ASSUME JtagUartAssumption, NEW i \in Slot, NEW o \in Slot,
         NEW m \in 0 .. Used(i, o), NEW buf \in [Slot -> CharNumbers]
  PROVE  /\ (o + m) % BUF_LEN \in Slot
         /\ Used(i, (o + m) % BUF_LEN) = Used(i, o) - m
         /\ Contents(buf, i, (o + m) % BUF_LEN)
              = SubSeq(Contents(buf, i, o), m + 1, Len(Contents(buf, i, o)))
<1>0. BUF_LEN \in Nat /\ BUF_LEN >= 2 /\ i \in Nat /\ o \in Nat /\ i < BUF_LEN /\ o < BUF_LEN
  BY RoundIs DEF Slot
<1> DEFINE u == Used(i, o)
           j == Round(o + m)
           A == Contents(buf, i, o)
           C == Contents(buf, i, j)
<1>5. /\ A \in Seq(CharNumbers) /\ Len(A) = u /\ u \in 0 .. BUF_LEN - 1
      /\ \A k \in 1 .. u : Round(o + k - 1) \in Slot /\ A[k] = buf[Round(o + k - 1)]
  BY RingIs
<1>1. o + m \in 0 .. 2 * BUF_LEN - 1
  BY <1>0, <1>5
<1>2. (o + m) % BUF_LEN = j /\ j \in Slot
  <2>1. Round(o + m) \in Slot
    BY <1>0, <1>1 DEF Slot, Round
  <2> QED
    BY <1>1, <2>1, RoundIs
<1>d. j = (IF o + m < BUF_LEN THEN o + m ELSE o + m - BUF_LEN)
  BY <1>0, <1>1 DEF Round
<1>a. j \in Slot
  BY <1>2
<1> HIDE DEF j
<1>b. Used(i, j) = (IF i >= j THEN i - j ELSE i - j + BUF_LEN)
  BY <1>a, RoundIs
<1>c. u = (IF i >= o THEN i - o ELSE i - o + BUF_LEN)
  BY RoundIs
<1>3. /\ u = (IF i >= o THEN i - o ELSE i - o + BUF_LEN)
      /\ Used(i, j) = (IF i >= j THEN i - j ELSE i - j + BUF_LEN)
      /\ j = (IF o + m < BUF_LEN THEN o + m ELSE o + m - BUF_LEN)
  BY <1>b, <1>c, <1>d
<1>4. u \in Nat /\ m \in Nat /\ m <= u /\ u <= BUF_LEN - 1 /\ Used(i, j) = u - m
  BY <1>0, <1>3, <1>5
<1>6. /\ C \in Seq(CharNumbers) /\ Len(C) = u - m
      /\ \A k \in 1 .. u - m : C[k] = buf[Round(j + k - 1)]
  <2>1. /\ C \in Seq(CharNumbers) /\ Len(C) = Used(i, j)
        /\ \A k \in 1 .. Used(i, j) : C[k] = buf[Round(j + k - 1)]
    BY <1>a, RingIs
  <2>2. Used(i, j) = u - m
    BY <1>4
  <2> HIDE DEF C, u
  <2> QED
    BY <2>1, <2>2, Zenon
<1>7. \A k \in 1 .. u - m : Round(j + k - 1) = Round(o + (m + k) - 1)
  BY <1>0, <1>3, <1>4 DEF Round
<1> HIDE DEF A, C, j, u
<1>8. \A k \in 1 .. u - m : C[k] = A[m + k]
  <2> SUFFICES ASSUME NEW k \in 1 .. u - m PROVE C[k] = A[m + k]
    OBVIOUS
  <2>1. m + k \in 1 .. u
    BY <1>4
  <2> QED
    BY <1>5, <1>6, <1>7, <2>1
<1>9. /\ SubSeq(A, m + 1, u) \in Seq(CharNumbers) /\ Len(SubSeq(A, m + 1, u)) = u - m
      /\ \A k \in 1 .. u - m : SubSeq(A, m + 1, u)[k] = A[m + k]
  <2>1. m + 1 \in 1 .. Len(A) + 1 /\ u \in m + 1 - 1 .. Len(A)
    BY <1>4, <1>5
  <2> QED
    BY <1>4, <1>5, <2>1, SubSeqProperties
<1>10. C = SubSeq(A, m + 1, Len(A))
  BY <1>5, <1>6, <1>8, <1>9, SeqEqual
<1> QED
  BY <1>2, <1>4, <1>10 DEF A, C, j, u

\* Counting: what goes in or out of a ring, and what empty and full mean.
LEMMA RingCounts ==
  ASSUME JtagUartAssumption, NEW i \in Slot, NEW o \in Slot
  PROVE  /\ Used(i, o) \in 0 .. BUF_LEN - 1
         /\ i = o <=> Used(i, o) = 0
         /\ (i + 1) % BUF_LEN = o <=> Used(i, o) = BUF_LEN - 1
         /\ \A m \in 0 .. Used(i, o) : /\ (o + m) % BUF_LEN \in Slot
                                       /\ Used(i, (o + m) % BUF_LEN) = Used(i, o) - m
         /\ \A m \in 0 .. BUF_LEN - 1 - Used(i, o) :
                /\ (i + m) % BUF_LEN \in Slot
                /\ Used((i + m) % BUF_LEN, o) = Used(i, o) + m
<1>0. BUF_LEN \in Nat /\ BUF_LEN >= 2 /\ i \in Nat /\ o \in Nat /\ i < BUF_LEN /\ o < BUF_LEN
  BY RoundIs DEF Slot
<1>1. Used(i, o) = IF i >= o THEN i - o ELSE i - o + BUF_LEN
  BY RoundIs
<1>2. Used(i, o) \in 0 .. BUF_LEN - 1 /\ (i = o <=> Used(i, o) = 0)
  BY <1>0, <1>1
<1>3. (i + 1) % BUF_LEN = o <=> Used(i, o) = BUF_LEN - 1
  <2>1. i + 1 \in 0 .. 2 * BUF_LEN - 1
    BY <1>0
  <2>2. (i + 1) % BUF_LEN = Round(i + 1)
    BY <2>1, RoundIs
  <2> QED
    BY <1>0, <1>1, <2>2 DEF Round
<1>4. ASSUME NEW m \in 0 .. Used(i, o)
      PROVE  (o + m) % BUF_LEN \in Slot /\ Used(i, (o + m) % BUF_LEN) = Used(i, o) - m
  <2>1. o + m \in 0 .. 2 * BUF_LEN - 1
    BY <1>0, <1>2
  <2>2. (o + m) % BUF_LEN = Round(o + m) /\ Round(o + m) \in Slot
    <3>1. Round(o + m) \in Slot
      BY <1>0, <2>1 DEF Slot, Round
    <3> QED
      BY <2>1, <3>1, RoundIs
  <2> DEFINE j == (o + m) % BUF_LEN
  <2>3. j \in Slot /\ j = (IF o + m < BUF_LEN THEN o + m ELSE o + m - BUF_LEN)
    BY <1>0, <2>1, <2>2 DEF Round
  <2> HIDE DEF j
  <2>4. Used(i, j) = IF i >= j THEN i - j ELSE i - j + BUF_LEN
    BY <2>3, RoundIs
  <2>5. Used(i, j) = Used(i, o) - m
    BY <1>0, <1>1, <1>2, <2>3, <2>4
  <2> QED
    BY <2>3, <2>5 DEF j
<1>5. ASSUME NEW m \in 0 .. BUF_LEN - 1 - Used(i, o)
      PROVE  (i + m) % BUF_LEN \in Slot /\ Used((i + m) % BUF_LEN, o) = Used(i, o) + m
  <2>1. i + m \in 0 .. 2 * BUF_LEN - 1
    BY <1>0, <1>2
  <2>2. (i + m) % BUF_LEN = Round(i + m) /\ Round(i + m) \in Slot
    <3>1. Round(i + m) \in Slot
      BY <1>0, <2>1 DEF Slot, Round
    <3> QED
      BY <2>1, <3>1, RoundIs
  <2> DEFINE j == (i + m) % BUF_LEN
  <2>3. j \in Slot /\ j = (IF i + m < BUF_LEN THEN i + m ELSE i + m - BUF_LEN)
    BY <1>0, <2>1, <2>2 DEF Round
  <2> HIDE DEF j
  <2>4. Used(j, o) = IF j >= o THEN j - o ELSE j - o + BUF_LEN
    BY <2>3, RoundIs
  <2>5. Used(j, o) = Used(i, o) + m
    BY <1>0, <1>1, <1>2, <2>3, <2>4
  <2> QED
    BY <2>3, <2>5 DEF j
<1> QED
  BY <1>2, <1>3, <1>4, <1>5

\* What is written where there is room does not change what is in the ring.
LEMMA RingKeeps ==
  ASSUME JtagUartAssumption, NEW i \in Slot, NEW o \in Slot,
         NEW m \in Nat, m + Used(i, o) <= BUF_LEN - 1, i + m <= BUF_LEN,
         NEW buf \in [Slot -> CharNumbers], NEW new \in [Slot -> CharNumbers],
         \A k \in Slot : k \notin i .. i + m - 1 => new[k] = buf[k]
  PROVE  Contents(new, i, o) = Contents(buf, i, o)
<1>0. BUF_LEN \in Nat /\ BUF_LEN >= 2 /\ i \in Nat /\ o \in Nat /\ i < BUF_LEN /\ o < BUF_LEN
  BY RoundIs DEF Slot
<1> DEFINE u == Used(i, o)
           A == Contents(buf, i, o)
           C == Contents(new, i, o)
<1>1. u = (IF i >= o THEN i - o ELSE i - o + BUF_LEN)
  BY RoundIs
<1>2. u \in Nat /\ u + m <= BUF_LEN - 1
  BY <1>0, <1>1
<1>3. /\ A \in Seq(CharNumbers) /\ Len(A) = u
      /\ \A k \in 1 .. u : Round(o + k - 1) \in Slot /\ A[k] = buf[Round(o + k - 1)]
  BY RingIs
<1>4. /\ C \in Seq(CharNumbers) /\ Len(C) = u
      /\ \A k \in 1 .. u : Round(o + k - 1) \in Slot /\ C[k] = new[Round(o + k - 1)]
  BY RingIs
<1>5. \A k \in 1 .. u : Round(o + k - 1) \notin i .. i + m - 1
  BY <1>0, <1>1, <1>2 DEF Round
<1> HIDE DEF A, C, u
<1>6. \A k \in 1 .. u : C[k] = A[k]
  BY <1>3, <1>4, <1>5
<1>7. C = A
  BY <1>3, <1>4, <1>6, SeqEqual
<1> QED
  BY <1>7 DEF A, C

\* One character from the head of a sequence to the end of the one before it.
LEMMA HeadMoves ==
  ASSUME NEW S, NEW f \in Seq(S), NEW c \in Seq(S), c # <<>>
  PROVE  Append(f, c[1]) \o SubSeq(c, 2, Len(c)) = f \o c
<1>1. c[1] \in S /\ Len(c) \in Nat /\ Len(c) >= 1 /\ <<c[1]>> \in Seq(S)
  <2>1. Len(c) \in Nat /\ Len(c) >= 1
    BY EmptySeq, LenProperties
  <2>2. c[1] \in S
    BY <2>1, ElementOfSeq
  <2> QED
    BY <2>1, <2>2
<1>2. /\ Tail(c) \in Seq(S)
      /\ Tail(c) = SubSeq(c, 2, Len(c))
  BY HeadTailProperties, TailIsSubSeq
<1>3. Append(f, c[1]) = f \o <<c[1]>>
  BY <1>1, AppendIsConcat
<1>4. (f \o <<c[1]>>) \o Tail(c) = f \o (<<c[1]>> \o Tail(c))
  BY <1>1, <1>2, ConcatAssociative
<1>5. <<c[1]>> \o Tail(c) = c
  <2>1. c = <<Head(c)>> \o Tail(c)
    BY HeadTailProperties
  <2>2. Head(c) = c[1]
    BY <1>1
  <2> QED
    BY <2>1, <2>2, Zenon
<1> QED
  BY <1>2, <1>3, <1>4, <1>5, Zenon

\* The oldest characters of two sequences in a row are those of the first.
LEMMA OldestLeave ==
  ASSUME NEW S, NEW a \in Seq(S), NEW b \in Seq(S), NEW m \in 0 .. Len(a)
  PROVE  /\ Len(a \o b) = Len(a) + Len(b)
         /\ SubSeq(a, m + 1, Len(a)) \o b = SubSeq(a \o b, m + 1, Len(a \o b))
<1>0. Len(a) \in Nat /\ Len(b) \in Nat /\ m \in Nat /\ m <= Len(a)
  BY LenProperties
<1> DEFINE c == a \o b
           s == SubSeq(a, m + 1, Len(a))
           d == SubSeq(c, m + 1, Len(c))
<1>1. /\ c \in Seq(S) /\ Len(c) = Len(a) + Len(b)
      /\ \A k \in 1 .. Len(a) + Len(b) : c[k] = IF k <= Len(a) THEN a[k] ELSE b[k - Len(a)]
  BY ConcatProperties
<1>2. /\ s \in Seq(S) /\ Len(s) = Len(a) - m
      /\ \A k \in 1 .. Len(a) - m : s[k] = a[m + k]
  <2>1. m + 1 \in 1 .. Len(a) + 1 /\ Len(a) \in m + 1 - 1 .. Len(a)
    BY <1>0
  <2> QED
    BY <1>0, <2>1, SubSeqProperties
<1> HIDE DEF c
<1>3. /\ d \in Seq(S) /\ Len(d) = Len(a) + Len(b) - m
      /\ \A k \in 1 .. Len(a) + Len(b) - m : d[k] = c[m + k]
  <2>1. m + 1 \in 1 .. Len(c) + 1 /\ Len(c) \in m + 1 - 1 .. Len(c)
    BY <1>0, <1>1
  <2> QED
    BY <1>0, <1>1, <2>1, SubSeqProperties
<1> HIDE DEF s, d
<1>4. /\ s \o b \in Seq(S) /\ Len(s \o b) = Len(a) - m + Len(b)
      /\ \A k \in 1 .. Len(a) - m + Len(b) :
            (s \o b)[k] = IF k <= Len(a) - m THEN s[k] ELSE b[k - (Len(a) - m)]
  <2>1. /\ s \o b \in Seq(S) /\ Len(s \o b) = Len(s) + Len(b)
        /\ \A k \in 1 .. Len(s) + Len(b) : (s \o b)[k] = IF k <= Len(s) THEN s[k] ELSE b[k - Len(s)]
    BY <1>2, ConcatProperties
  <2> QED
    BY <1>2, <2>1
<1>5. \A k \in 1 .. Len(a) - m + Len(b) : (s \o b)[k] = d[k]
  <2> SUFFICES ASSUME NEW k \in 1 .. Len(a) - m + Len(b) PROVE (s \o b)[k] = d[k]
    OBVIOUS
  <2>1. m + k \in 1 .. Len(a) + Len(b) /\ k \in 1 .. Len(a) + Len(b) - m
    BY <1>0
  <2>2. d[k] = c[m + k] /\ c[m + k] = IF m + k <= Len(a) THEN a[m + k] ELSE b[m + k - Len(a)]
    BY <1>1, <1>3, <2>1
  <2>3. (s \o b)[k] = IF k <= Len(a) - m THEN s[k] ELSE b[k - (Len(a) - m)]
    BY <1>4
  <2>4. CASE k <= Len(a) - m
    <3>1. k \in 1 .. Len(a) - m /\ m + k <= Len(a)
      BY <1>0, <2>4
    <3> QED
      BY <1>2, <2>2, <2>3, <2>4, <3>1
  <2>5. CASE ~(k <= Len(a) - m)
    <3>1. ~(m + k <= Len(a)) /\ k - (Len(a) - m) = m + k - Len(a)
      BY <1>0, <2>5
    <3> QED
      BY <2>2, <2>3, <2>5, <3>1
  <2> QED
    BY <2>4, <2>5
<1>6. s \o b = d
  <2>1. Len(s \o b) = Len(d)
    BY <1>0, <1>3, <1>4
  <2> QED
    BY <1>3, <1>4, <1>5, <2>1, SeqEqual
<1> QED
  BY <1>1, <1>6 DEF c, s, d
-----------------------------------------------------------------------------
(* The JTAG UART: what the program and the routine rely on in each other.  *)

\* Every variable keeps its type, and only characters are under way.
UartTypeOK ==
    /\ TypeOK
    /\ chunk \in Seq(CharNumbers) /\ txfifo \in Seq(CharNumbers) /\ rxfifo \in Seq(CharNumbers)
    /\ tx_next \in CharNumbers /\ rx_next \in CharNumbers

\* A writer's piece fits behind what is in the ring, without going round its end, and is
\* there before the ring shows it.
WriterKnows ==
    pc \in {"w_copy", "w_advance"} =>
        /\ in = tx_in /\ n \in 1 .. count
        /\ n + Used(tx_in, tx_out) <= BUF_LEN - 1 /\ in + n <= BUF_LEN
        /\ pc = "w_advance" =>
             \A k \in Slot : k \in in .. in + n - 1 => tx_buf[k] = (tx_next + k - in) % Numbers

\* A reader's piece is in the ring until the reader takes it out.
ReaderKnows ==
    pc \in {"r_copy", "r_advance"} =>
        /\ out = rx_out /\ n \in 1 .. count
        /\ n <= Used(rx_in, rx_out) /\ out + n <= BUF_LEN
        /\ pc = "r_advance" => chunk = [k \in 1 .. n |-> rx_buf[out + k - 1]]

\* What the routine read of the control register holds still, and why a loop of it ended.
RoutineKnows ==
    /\ isr \in {"rx", "rx_end", "tx", "tx_end"} => Len(txfifo) + space <= FifoLen
    /\ isr = "rx_end" /\ ravail => RxFull
    /\ isr = "tx_end" /\ space > 0 => tx_in = tx_out

\* SendingIsOn and ReceivingIsOn, in the routine as well.
SendOn ==
    tx_in # tx_out => "WE" \in irq_enable \/ pc \in {"w_space", "w_copy", "w_advance", "w_enable"}
RecvOn ==
    "RE" \notin irq_enable =>
        RxFull \/ (done > 0 /\ pc \in {"r_space", "r_copy", "r_advance", "r_enable"})

\* The inductive invariant.
UartInv == UartTypeOK /\ WriterKnows /\ ReaderKnows /\ RoutineKnows /\ SendOn /\ RecvOn

\* The parameters, as the proofs below need them.
LEMMA UartParameters ==
  ASSUME JtagUartAssumption
  PROVE  /\ BUF_LEN \in Nat /\ BUF_LEN >= 2 /\ FifoLen \in Nat /\ FifoLen >= 1
         /\ INT_MAX \in Nat /\ INT_MAX >= 3 /\ Numbers \in Nat /\ Numbers >= 1
         /\ Counts \subseteq Nat \ {0} /\ Flags \subseteq BOOLEAN
         /\ \A x \in Nat : x % Numbers \in CharNumbers
<1>1. Numbers \in Nat /\ Numbers >= 1
  BY DEF JtagUartAssumption
<1>2. \A x \in Nat : x % Numbers \in CharNumbers
  BY <1>1 DEF CharNumbers
<1> QED
  BY <1>1, <1>2 DEF JtagUartAssumption

\* What the types say of the rings and of the FIFOs.
LEMMA UartTyped ==
  ASSUME JtagUartAssumption, UartTypeOK
  PROVE  /\ tx_in \in 0 .. BUF_LEN - 1 /\ tx_out \in 0 .. BUF_LEN - 1
         /\ rx_in \in 0 .. BUF_LEN - 1 /\ rx_out \in 0 .. BUF_LEN - 1
         /\ Used(tx_in, tx_out) \in 0 .. BUF_LEN - 1
         /\ tx_in = tx_out <=> Used(tx_in, tx_out) = 0
         /\ Used(rx_in, rx_out) \in 0 .. BUF_LEN - 1
         /\ RxFull <=> Used(rx_in, rx_out) = BUF_LEN - 1
         /\ Len(txfifo) \in 0 .. FifoLen /\ Len(rxfifo) \in 0 .. FifoLen
         /\ txfifo # <<>> => /\ Tail(txfifo) \in Seq(CharNumbers)
                            /\ Len(Tail(txfifo)) = Len(txfifo) - 1
         /\ rxfifo # <<>> => /\ Head(rxfifo) \in CharNumbers
                            /\ Tail(rxfifo) \in Seq(CharNumbers)
                            /\ Len(Tail(rxfifo)) = Len(rxfifo) - 1
<1>1. tx_in \in Slot /\ tx_out \in Slot /\ rx_in \in Slot /\ rx_out \in Slot
  BY DEF UartTypeOK, TypeOK
<1>2. txfifo \in Seq(CharNumbers) /\ rxfifo \in Seq(CharNumbers)
  BY DEF UartTypeOK
<1>3. Len(txfifo) \in Nat /\ Len(rxfifo) \in Nat
  BY <1>2, LenProperties
<1>4. FifoLen \in Nat /\ Len(txfifo) <= FifoLen /\ Len(rxfifo) <= FifoLen
  BY UartParameters DEF UartTypeOK, TypeOK
<1>5. Len(txfifo) \in 0 .. FifoLen /\ Len(rxfifo) \in 0 .. FifoLen
  BY <1>3, <1>4
<1>6. /\ Used(tx_in, tx_out) \in 0 .. BUF_LEN - 1
      /\ tx_in = tx_out <=> Used(tx_in, tx_out) = 0
  BY <1>1, RingCounts
<1>7. /\ Used(rx_in, rx_out) \in 0 .. BUF_LEN - 1
      /\ (rx_in + 1) % BUF_LEN = rx_out <=> Used(rx_in, rx_out) = BUF_LEN - 1
  BY <1>1, RingCounts
<1>8. /\ txfifo # <<>> => /\ Tail(txfifo) \in Seq(CharNumbers)
                         /\ Len(Tail(txfifo)) = Len(txfifo) - 1
      /\ rxfifo # <<>> => /\ Head(rxfifo) \in CharNumbers
                         /\ Tail(rxfifo) \in Seq(CharNumbers)
                         /\ Len(Tail(rxfifo)) = Len(rxfifo) - 1
  BY <1>2, HeadTailProperties
<1> QED
  BY <1>1, <1>5, <1>6, <1>7, <1>8 DEF Slot, RxFull

\* The host takes a character.
LEMMA UartHostTakes ==
  ASSUME JtagUartAssumption, UartInv, HostTakes
  PROVE  UartInv'
<1>0. UartTypeOK /\ WriterKnows /\ ReaderKnows /\ RoutineKnows /\ SendOn /\ RecvOn
  BY DEF UartInv
<1>a. /\ txfifo' = Tail(txfifo) /\ txfifo' \in Seq(CharNumbers)
      /\ Len(txfifo') = Len(txfifo) - 1 /\ Len(txfifo) \in 0 .. FifoLen
  BY <1>0, UartTyped DEF HostTakes
<1>b. Len(txfifo') <= FifoLen
  BY <1>a, UartParameters
<1>1. UartTypeOK'
  BY <1>0, <1>a, <1>b
  DEF HostTakes, UartTypeOK, TypeOK, Places, request, locals, tx, rx, alarm, routine
<1>2. WriterKnows'
  BY <1>0, <1>a, UartParameters
  DEF HostTakes, WriterKnows, request, locals, tx, rx, routine, device, alarm
<1>3. ReaderKnows'
  BY <1>0, <1>a, UartParameters
  DEF HostTakes, ReaderKnows, request, locals, tx, rx, routine, device, alarm
<1>4. RoutineKnows'
  BY <1>0, <1>a, UartParameters
  DEF HostTakes, RoutineKnows, RxFull, UartTypeOK, TypeOK, request, locals, tx, rx, routine,
      device, alarm
<1>5. SendOn'
  BY <1>0, <1>a, UartParameters
  DEF HostTakes, SendOn, request, locals, tx, rx, routine, device, alarm
<1>6. RecvOn'
  BY <1>0, <1>a, UartParameters
  DEF HostTakes, RecvOn, RxFull, request, locals, tx, rx, routine, device, alarm
<1> QED
  BY <1>1, <1>2, <1>3, <1>4, <1>5, <1>6 DEF UartInv

\* The host sends a character.
LEMMA UartHostSends ==
  ASSUME JtagUartAssumption, UartInv, HostSends
  PROVE  UartInv'
<1>0. UartTypeOK /\ WriterKnows /\ ReaderKnows /\ RoutineKnows /\ SendOn /\ RecvOn
  BY DEF UartInv
<1>a. /\ rxfifo' \in Seq(CharNumbers) /\ Len(rxfifo') <= FifoLen
      /\ rx_next' \in CharNumbers
  <2>1. /\ rxfifo' = Append(rxfifo, rx_next) /\ Len(rxfifo) < FifoLen
        /\ rx_next' = (rx_next + 1) % Numbers
        /\ rx_next \in CharNumbers /\ rxfifo \in Seq(CharNumbers)
    BY <1>0 DEF HostSends, UartTypeOK
  <2>2. rxfifo' \in Seq(CharNumbers) /\ Len(rxfifo') = Len(rxfifo) + 1
    BY <2>1, AppendProperties
  <2>3. rx_next + 1 \in Nat /\ Len(rxfifo) \in Nat /\ FifoLen \in Nat
    BY <1>0, <2>1, UartParameters, UartTyped DEF CharNumbers
  <2>4. rx_next' \in CharNumbers
    BY <2>1, <2>3, UartParameters
  <2> QED
    BY <2>1, <2>2, <2>3, <2>4
<1>1. UartTypeOK'
  BY <1>0, <1>a, UartParameters
  DEF HostSends, Slot, UartTypeOK, TypeOK, Places, request, locals, tx, rx, routine, device, alarm
<1>2. WriterKnows'
  BY <1>0, <1>a, UartParameters
  DEF HostSends, WriterKnows, request, locals, tx, rx, routine, device, alarm
<1>3. ReaderKnows'
  BY <1>0, <1>a, UartParameters
  DEF HostSends, ReaderKnows, request, locals, tx, rx, routine, device, alarm
<1>4. RoutineKnows'
  BY <1>0, <1>a, UartParameters
  DEF HostSends, RoutineKnows, RxFull, request, locals, tx, rx, routine, device, alarm
<1>5. SendOn'
  BY <1>0, <1>a, UartParameters
  DEF HostSends, SendOn, request, locals, tx, rx, routine, device, alarm
<1>6. RecvOn'
  BY <1>0, <1>a, UartParameters
  DEF HostSends, RecvOn, RxFull, request, locals, tx, rx, routine, device, alarm
<1> QED
  BY <1>1, <1>2, <1>3, <1>4, <1>5, <1>6 DEF UartInv

\* The routine starts.
LEMMA UartInterrupt ==
  ASSUME JtagUartAssumption, UartInv, Interrupt
  PROVE  UartInv'
<1>0. UartTypeOK /\ WriterKnows /\ ReaderKnows /\ RoutineKnows /\ SendOn /\ RecvOn
  BY DEF UartInv
<1>1. UartTypeOK'
  BY <1>0, UartParameters
  DEF Interrupt, RI, WI, Slot, UartTypeOK, TypeOK, Places, request, locals, tx, rx, routine,
      device, alarm
<1>2. WriterKnows'
  BY <1>0, UartParameters
  DEF Interrupt, RI, WI, WriterKnows, request, locals, tx, rx, routine, device, alarm
<1>3. ReaderKnows'
  BY <1>0, UartParameters
  DEF Interrupt, RI, WI, ReaderKnows, request, locals, tx, rx, routine, device, alarm
<1>4. RoutineKnows'
  BY <1>0, UartParameters
  DEF Interrupt, RI, WI, RoutineKnows, RxFull, request, locals, tx, rx, routine, device, alarm
<1>5. SendOn'
  BY <1>0, UartParameters
  DEF Interrupt, RI, WI, SendOn, request, locals, tx, rx, routine, device, alarm
<1>6. RecvOn'
  BY <1>0, UartParameters
  DEF Interrupt, RI, WI, RecvOn, RxFull, request, locals, tx, rx, routine, device, alarm
<1> QED
  BY <1>1, <1>2, <1>3, <1>4, <1>5, <1>6 DEF UartInv

\* The routine reads the control register.
LEMMA UartIsrControl ==
  ASSUME JtagUartAssumption, UartInv, IsrControl
  PROVE  UartInv'
<1>0. UartTypeOK /\ WriterKnows /\ ReaderKnows /\ RoutineKnows /\ SendOn /\ RecvOn
  BY DEF UartInv
<1>a. /\ space' \in 0 .. FifoLen /\ Len(txfifo) + space' <= FifoLen
      /\ isr' \in {"rx", "tx", "none"} /\ UNCHANGED txfifo
  <2>1. Len(txfifo) \in 0 .. FifoLen
    BY <1>0, UartTyped
  <2>2. space' = FifoLen - Len(txfifo)
    BY DEF IsrControl
  <2>3. isr' \in {"rx", "tx", "none"} /\ UNCHANGED txfifo
    BY DEF IsrControl, device
  <2>4. space' \in 0 .. FifoLen /\ Len(txfifo) + space' <= FifoLen
    <3>1. FifoLen \in Nat
      BY UartParameters
    <3> QED
      BY <2>1, <2>2, <3>1
  <2> QED
    BY <2>3, <2>4
<1>1. UartTypeOK'
  BY <1>0, <1>a, UartParameters
  DEF IsrControl, RI, WI, Slot, UartTypeOK, TypeOK, Places, request, locals, tx, rx, routine,
      device, alarm
<1>2. WriterKnows'
  BY <1>0, <1>a, UartParameters
  DEF IsrControl, RI, WI, WriterKnows, request, locals, tx, rx, routine, device, alarm
<1>3. ReaderKnows'
  BY <1>0, <1>a, UartParameters
  DEF IsrControl, RI, WI, ReaderKnows, request, locals, tx, rx, routine, device, alarm
<1>4. RoutineKnows'
  BY <1>a DEF RoutineKnows
<1>5. SendOn'
  BY <1>0, <1>a, UartParameters
  DEF IsrControl, RI, WI, SendOn, request, locals, tx, rx, routine, device, alarm
<1>6. RecvOn'
  BY <1>0, <1>a, UartParameters
  DEF IsrControl, RI, WI, RecvOn, RxFull, request, locals, tx, rx, routine, device, alarm
<1> QED
  BY <1>1, <1>2, <1>3, <1>4, <1>5, <1>6 DEF UartInv

\* A turn of the receive loop.
LEMMA UartIsrRx ==
  ASSUME JtagUartAssumption, UartInv, IsrRx
  PROVE  UartInv'
<1>0. UartTypeOK /\ WriterKnows /\ ReaderKnows /\ RoutineKnows /\ SendOn /\ RecvOn
  BY DEF UartInv
<1> DEFINE u == Used(rx_in, rx_out)
<1>b. rx_in \in Slot /\ rx_out \in Slot /\ u \in 0 .. BUF_LEN - 1
  BY <1>0, UartTyped DEF UartTypeOK, TypeOK
<1>c. /\ RxFull <=> u = BUF_LEN - 1
      /\ u < BUF_LEN - 1 => /\ (rx_in + 1) % BUF_LEN \in Slot
                            /\ Used((rx_in + 1) % BUF_LEN, rx_out) = u + 1
  <2>1. RxFull <=> u = BUF_LEN - 1
    BY <1>0, UartTyped
  <2>2. ASSUME u < BUF_LEN - 1
        PROVE  /\ (rx_in + 1) % BUF_LEN \in Slot
               /\ Used((rx_in + 1) % BUF_LEN, rx_out) = u + 1
    <3>1. 1 \in 0 .. BUF_LEN - 1 - u
      BY <1>b, <2>2, UartParameters
    <3> QED
      BY <1>b, <3>1, RingCounts
  <2> QED
    BY <2>1, <2>2
<1>1. UartTypeOK'
  <2>1. rx_in' \in Slot /\ rx_buf' \in [Slot -> 0 .. Numbers - 1]
    <3>1. CASE UNCHANGED <<rx_in, rx_buf>>
      BY <1>0, <3>1 DEF UartTypeOK, TypeOK
    <3>2. CASE ~UNCHANGED <<rx_in, rx_buf>>
      <4>1. /\ ~RxFull /\ rxfifo # <<>>
            /\ rx_buf' = [rx_buf EXCEPT ![rx_in] = Head(rxfifo)]
            /\ rx_in' = (rx_in + 1) % BUF_LEN
        BY <3>2 DEF IsrRx, rx
      <4>2. Head(rxfifo) \in 0 .. Numbers - 1
        BY <1>0, <4>1, UartTyped DEF CharNumbers
      <4>3. u < BUF_LEN - 1
        BY <1>b, <1>c, <4>1, UartParameters
      <4> QED
        BY <1>0, <1>b, <1>c, <4>1, <4>2, <4>3 DEF UartTypeOK, TypeOK
    <3> QED
      BY <3>1, <3>2
  <2>2. rxfifo' \in Seq(CharNumbers) /\ Len(rxfifo') <= FifoLen
    <3>1. CASE rxfifo' = rxfifo
      BY <1>0, <3>1 DEF UartTypeOK, TypeOK
    <3>2. CASE rxfifo' # rxfifo
      <4>1. rxfifo # <<>> /\ rxfifo' = Tail(rxfifo)
        BY <3>2 DEF IsrRx
      <4>2. rxfifo' \in Seq(CharNumbers) /\ Len(rxfifo') = Len(rxfifo) - 1
        BY <1>0, <4>1, UartTyped
      <4>3. Len(rxfifo) \in 0 .. FifoLen
        BY <1>0, UartTyped
      <4> QED
        BY <4>2, <4>3, UartParameters
    <3> QED
      BY <3>1, <3>2
  <2>3. isr' \in {"rx", "rx_end"} /\ rx_out' = rx_out
    BY DEF IsrRx, rx
  <2> QED
    BY <1>0, <2>1, <2>2, <2>3
    DEF IsrRx, UartTypeOK, TypeOK, request, locals, tx, alarm
<1>2. WriterKnows'
  BY <1>0, UartParameters
  DEF IsrRx, WriterKnows, request, locals, tx, rx, routine, device, alarm
<1>3. ReaderKnows'
  <2> SUFFICES ASSUME pc \in {"r_copy", "r_advance"} PROVE ReaderKnows'
    BY DEF IsrRx, ReaderKnows
  <2>1. CASE UNCHANGED <<rx_in, rx_buf>>
    BY <1>0, <2>1 DEF IsrRx, ReaderKnows, request, locals, rx
  <2>2. CASE ~UNCHANGED <<rx_in, rx_buf>>
    <3>1. /\ ~RxFull
          /\ rx_buf' = [rx_buf EXCEPT ![rx_in] = Head(rxfifo)]
          /\ rx_in' = (rx_in + 1) % BUF_LEN /\ rx_out' = rx_out
      BY <2>2 DEF IsrRx, rx
    <3>2. u < BUF_LEN - 1
      BY <1>b, <1>c, <3>1, UartParameters
    <3>3. Used(rx_in', rx_out') = u + 1
      BY <1>c, <3>1, <3>2
    <3>4. /\ out = rx_out /\ n \in 1 .. count /\ n <= u /\ out + n <= BUF_LEN
          /\ pc = "r_advance" => chunk = [k \in 1 .. n |-> rx_buf[out + k - 1]]
          /\ out \in 0 .. BUF_LEN - 1 /\ count \in Nat
      BY <1>0 DEF ReaderKnows, UartTypeOK, TypeOK, Slot
    <3>5. \A k \in 1 .. n : out + k - 1 \in Slot /\ out + k - 1 # rx_in
      <4>1. u = IF rx_in >= rx_out THEN rx_in - rx_out ELSE rx_in - rx_out + BUF_LEN
        BY <1>b, RoundIs
      <4>2. /\ out = rx_out /\ n \in 1 .. count /\ n <= u /\ out + n <= BUF_LEN
            /\ out \in 0 .. BUF_LEN - 1 /\ count \in Nat
        BY <3>4
      <4>3. rx_in \in 0 .. BUF_LEN - 1 /\ u \in 0 .. BUF_LEN - 1
        BY <1>b DEF Slot
      <4> HIDE DEF u
      <4> SUFFICES ASSUME NEW k \in 1 .. n
                   PROVE  out + k - 1 \in 0 .. BUF_LEN - 1 /\ out + k - 1 # rx_in
        BY DEF Slot
      <4>4. k \in Nat /\ k >= 1 /\ k <= n /\ n \in Nat
        BY <4>2
      <4> QED
        BY <4>1, <4>2, <4>3, <4>4, UartParameters
    <3>6. \A k \in 1 .. n : rx_buf'[out + k - 1] = rx_buf[out + k - 1]
      BY <1>0, <3>1, <3>5 DEF UartTypeOK, TypeOK
    <3>7. pc = "r_advance" => chunk = [k \in 1 .. n |-> rx_buf'[out + k - 1]]
      BY <3>4, <3>6, Zenon
    <3>8. n <= u + 1
      BY <1>b, <3>4, UartParameters
    <3>9. UNCHANGED <<pc, count, n, out, chunk>>
      BY DEF IsrRx, request, locals
    <3> HIDE DEF u
    <3> QED
      BY <3>1, <3>3, <3>4, <3>7, <3>8, <3>9 DEF ReaderKnows
  <2> QED
    BY <2>1, <2>2
<1>4. RoutineKnows'
  BY <1>0, UartParameters
  DEF IsrRx, RoutineKnows, RxFull, request, locals, tx, rx, routine, device, alarm
<1>5. SendOn'
  BY <1>0, UartParameters
  DEF IsrRx, SendOn, request, locals, tx, rx, routine, device, alarm
<1>6. RecvOn'
  BY <1>0, UartParameters
  DEF IsrRx, RecvOn, RxFull, request, locals, tx, rx, routine, device, alarm
<1> QED
  BY <1>1, <1>2, <1>3, <1>4, <1>5, <1>6 DEF UartInv

\* The end of the receive loop.
LEMMA UartIsrRxEnd ==
  ASSUME JtagUartAssumption, UartInv, IsrRxEnd
  PROVE  UartInv'
<1>0. UartTypeOK /\ WriterKnows /\ ReaderKnows /\ RoutineKnows /\ SendOn /\ RecvOn
  BY DEF UartInv
<1>1. UartTypeOK'
  BY <1>0, UartParameters
  DEF IsrRxEnd, Slot, UartTypeOK, TypeOK, Places, request, locals, tx, rx, routine, device, alarm
<1>2. WriterKnows'
  BY <1>0, UartParameters
  DEF IsrRxEnd, WriterKnows, request, locals, tx, rx, routine, device, alarm
<1>3. ReaderKnows'
  BY <1>0, UartParameters
  DEF IsrRxEnd, ReaderKnows, request, locals, tx, rx, routine, device, alarm
<1>4. RoutineKnows'
  BY <1>0, UartParameters
  DEF IsrRxEnd, RoutineKnows, RxFull, request, locals, tx, rx, routine, device, alarm
<1>5. SendOn'
  BY <1>0, UartParameters
  DEF IsrRxEnd, SendOn, request, locals, tx, rx, routine, device, alarm
<1>6. RecvOn'
  <2>1. CASE ravail
    <3>1. RxFull
      BY <1>0, <2>1 DEF IsrRxEnd, RoutineKnows
    <3> QED
      BY <3>1 DEF IsrRxEnd, RecvOn, RxFull, rx
  <2>2. CASE ~ravail
    BY <1>0, <2>2 DEF IsrRxEnd, RecvOn, RxFull, rx, request
  <2> QED
    BY <2>1, <2>2
<1> QED
  BY <1>1, <1>2, <1>3, <1>4, <1>5, <1>6 DEF UartInv

\* A turn of the send loop.
LEMMA UartIsrTx ==
  ASSUME JtagUartAssumption, UartInv, IsrTx
  PROVE  UartInv'
<1>0. UartTypeOK /\ WriterKnows /\ ReaderKnows /\ RoutineKnows /\ SendOn /\ RecvOn
  BY DEF UartInv
<1> DEFINE u == Used(tx_in, tx_out)
<1>a. CASE ~(space > 0 /\ tx_out # tx_in)
  <2>1. isr' = "tx_end" /\ UNCHANGED <<txfifo, tx_out, space>>
    BY <1>a DEF IsrTx
  <2>2. UartTypeOK'
    BY <1>0, <2>1 DEF IsrTx, UartTypeOK, TypeOK, request, locals, rx, alarm
  <2>3. RoutineKnows'
    BY <1>0, <1>a, <2>1 DEF IsrTx, RoutineKnows
  <2> QED
    BY <1>0, <2>1, <2>2, <2>3
    DEF IsrTx, UartInv, WriterKnows, ReaderKnows, SendOn, RecvOn, RxFull, request, locals, rx
<1>b. CASE space > 0 /\ tx_out # tx_in
  <2>1. /\ txfifo' = Append(txfifo, tx_buf[tx_out]) /\ space' = space - 1 /\ isr' = isr
        /\ tx_out' = (tx_out + 1) % BUF_LEN /\ tx_in' = tx_in
    BY <1>b DEF IsrTx
  <2>2. /\ tx_in \in Slot /\ tx_out \in Slot /\ u \in 0 .. BUF_LEN - 1
        /\ tx_in = tx_out <=> u = 0
    BY <1>0, UartTyped DEF UartTypeOK, TypeOK
  <2>3. 1 \in 0 .. u
    BY <1>b, <2>2
  <2>4. tx_out' \in Slot /\ Used(tx_in', tx_out') = u - 1
    BY <2>1, <2>2, <2>3, RingCounts
  <2>5. tx_buf[tx_out] \in CharNumbers /\ txfifo \in Seq(CharNumbers)
    BY <1>0, <2>2 DEF UartTypeOK, TypeOK, CharNumbers
  <2>6. txfifo' \in Seq(CharNumbers) /\ Len(txfifo') = Len(txfifo) + 1
    BY <2>1, <2>5, AppendProperties
  <2>7. /\ space \in 0 .. FifoLen /\ Len(txfifo) \in 0 .. FifoLen
        /\ Len(txfifo) + space <= FifoLen
    BY <1>0, UartTyped DEF IsrTx, RoutineKnows, UartTypeOK, TypeOK
  <2>8. /\ space' \in 0 .. FifoLen /\ Len(txfifo') <= FifoLen
        /\ Len(txfifo') + space' <= FifoLen
    <3>1. space > 0 /\ space' = space - 1 /\ Len(txfifo') = Len(txfifo) + 1
      BY <1>b, <2>1, <2>6
    <3>2. FifoLen \in Nat
      BY UartParameters
    <3> QED
      BY <2>7, <3>1, <3>2
  <2>9. UartTypeOK'
    BY <1>0, <2>1, <2>4, <2>6, <2>8 DEF IsrTx, UartTypeOK, TypeOK, request, locals, rx, alarm
  <2>10. WriterKnows'
    <3> SUFFICES ASSUME pc \in {"w_copy", "w_advance"} PROVE WriterKnows'
      BY DEF IsrTx, WriterKnows
    <3>1. /\ in = tx_in /\ n \in 1 .. count /\ n + u <= BUF_LEN - 1 /\ in + n <= BUF_LEN
          /\ pc = "w_advance" =>
               \A k \in Slot : k \in in .. in + n - 1 => tx_buf[k] = (tx_next + k - in) % Numbers
          /\ count \in Nat
      BY <1>0 DEF WriterKnows, UartTypeOK, TypeOK
    <3>2. n + Used(tx_in', tx_out') <= BUF_LEN - 1
      <4> HIDE DEF u
      <4> QED
        BY <2>2, <2>4, <3>1, UartParameters
    <3>3. UNCHANGED <<pc, count, n, in, tx_buf, tx_next>>
      BY DEF IsrTx, request, locals
    <3> QED
      BY <2>1, <3>1, <3>2, <3>3 DEF WriterKnows
  <2>11. RoutineKnows'
    BY <2>1, <2>8 DEF IsrTx, RoutineKnows
  <2> QED
    BY <1>0, <2>1, <2>9, <2>10, <2>11
    DEF IsrTx, UartInv, ReaderKnows, SendOn, RecvOn, RxFull, request, locals, rx
<1> QED
  BY <1>a, <1>b

\* The end of the send loop.
LEMMA UartIsrTxEnd ==
  ASSUME JtagUartAssumption, UartInv, IsrTxEnd
  PROVE  UartInv'
<1>0. UartTypeOK /\ WriterKnows /\ ReaderKnows /\ RoutineKnows /\ SendOn /\ RecvOn
  BY DEF UartInv
<1>1. UartTypeOK'
  BY <1>0, UartParameters
  DEF IsrTxEnd, Slot, UartTypeOK, TypeOK, Places, request, locals, tx, rx, routine, device, alarm
<1>2. WriterKnows'
  BY <1>0, UartParameters
  DEF IsrTxEnd, WriterKnows, request, locals, tx, rx, routine, device, alarm
<1>3. ReaderKnows'
  BY <1>0, UartParameters
  DEF IsrTxEnd, ReaderKnows, request, locals, tx, rx, routine, device, alarm
<1>4. RoutineKnows'
  BY <1>0, UartParameters
  DEF IsrTxEnd, RoutineKnows, RxFull, request, locals, tx, rx, routine, device, alarm
<1>5. SendOn'
  <2>1. CASE space > 0
    <3>1. tx_in = tx_out
      BY <1>0, <2>1 DEF IsrTxEnd, RoutineKnows
    <3> QED
      BY <3>1 DEF IsrTxEnd, SendOn, tx
  <2>2. CASE ~(space > 0)
    BY <1>0, <2>2 DEF IsrTxEnd, SendOn, tx
  <2> QED
    BY <2>1, <2>2
<1>6. RecvOn'
  BY <1>0, UartParameters
  DEF IsrTxEnd, RecvOn, RxFull, request, locals, tx, rx, routine, device, alarm
<1> QED
  BY <1>1, <1>2, <1>3, <1>4, <1>5, <1>6 DEF UartInv

\* The alarm.
LEMMA UartTimeout ==
  ASSUME JtagUartAssumption, UartInv, Timeout
  PROVE  UartInv'
<1>0. UartTypeOK /\ WriterKnows /\ ReaderKnows /\ RoutineKnows /\ SendOn /\ RecvOn
  BY DEF UartInv
<1>1. UartTypeOK'
  <2>1. host_inactive' \in 0 .. INT_MAX - 2
    <3>1. host_inactive \in 0 .. INT_MAX - 2
      BY <1>0 DEF UartTypeOK, TypeOK
    <3> QED
      BY <3>1, UartParameters DEF Timeout
  <2> QED
    BY <1>0, <2>1 DEF Timeout, UartTypeOK, TypeOK, request, locals, tx, rx, routine
<1>2. WriterKnows'
  BY <1>0, UartParameters
  DEF Timeout, WriterKnows, request, locals, tx, rx, routine, device, alarm
<1>3. ReaderKnows'
  BY <1>0, UartParameters
  DEF Timeout, ReaderKnows, request, locals, tx, rx, routine, device, alarm
<1>4. RoutineKnows'
  BY <1>0, UartParameters
  DEF Timeout, RoutineKnows, RxFull, request, locals, tx, rx, routine, device, alarm
<1>5. SendOn'
  BY <1>0, UartParameters
  DEF Timeout, SendOn, request, locals, tx, rx, routine, device, alarm
<1>6. RecvOn'
  BY <1>0, UartParameters
  DEF Timeout, RecvOn, RxFull, request, locals, tx, rx, routine, device, alarm
<1> QED
  BY <1>1, <1>2, <1>3, <1>4, <1>5, <1>6 DEF UartInv

\* A call to write.
LEMMA UartWrite ==
  ASSUME JtagUartAssumption, UartInv, Write
  PROVE  UartInv'
<1>0. UartTypeOK /\ WriterKnows /\ ReaderKnows /\ RoutineKnows /\ SendOn /\ RecvOn
  BY DEF UartInv
<1>1. UartTypeOK'
  BY <1>0, UartParameters
  DEF Write, Call, Goes, Slot, UartTypeOK, TypeOK, Places, request, locals, tx, rx, routine,
      device, alarm
<1>2. WriterKnows'
  BY <1>0, UartParameters
  DEF Write, Call, Goes, WriterKnows, request, locals, tx, rx, routine, device, alarm
<1>3. ReaderKnows'
  BY <1>0, UartParameters
  DEF Write, Call, Goes, ReaderKnows, request, locals, tx, rx, routine, device, alarm
<1>4. RoutineKnows'
  BY <1>0, UartParameters
  DEF Write, Call, Goes, RoutineKnows, RxFull, request, locals, tx, rx, routine, device, alarm
<1>5. SendOn'
  BY <1>0, UartParameters
  DEF Write, Call, Goes, SendOn, request, locals, tx, rx, routine, device, alarm
<1>6. RecvOn'
  BY <1>0, UartParameters
  DEF Write, Call, Goes, RecvOn, RxFull, request, locals, tx, rx, routine, device, alarm
<1> QED
  BY <1>1, <1>2, <1>3, <1>4, <1>5, <1>6 DEF UartInv

\* The writer looks for room.
LEMMA UartWriteSpace ==
  ASSUME JtagUartAssumption, UartInv, WriteSpace
  PROVE  UartInv'
<1>0. UartTypeOK /\ WriterKnows /\ ReaderKnows /\ RoutineKnows /\ SendOn /\ RecvOn
  BY DEF UartInv
<1> DEFINE u == Used(tx_in, tx_out)
<1>a. CASE count = 0
  <2>1. pc' = "w_enable" /\ UNCHANGED locals
    BY <1>a DEF WriteSpace
  <2> QED
    BY <1>0, <2>1
    DEF WriteSpace, UartInv, UartTypeOK, TypeOK, Places, WriterKnows, ReaderKnows,
        RoutineKnows, SendOn, RecvOn, RxFull, request, locals, tx, rx, routine, device, alarm
<1>b. CASE count # 0
  <2>1. /\ in' = tx_in /\ out' = tx_out /\ n' = Lower(Room(tx_in, tx_out), count)
        /\ pc' = IF n' = 0 THEN "w_enable" ELSE "w_copy"
        /\ chunk' = chunk /\ count' = count
    BY <1>b DEF WriteSpace, request
  <2>2. tx_in \in Slot /\ tx_out \in Slot /\ count \in Nat /\ count >= 1
    BY <1>0, <1>b DEF UartTypeOK, TypeOK
  <2>3. u = IF tx_in >= tx_out THEN tx_in - tx_out ELSE tx_in - tx_out + BUF_LEN
    BY <2>2, RoundIs
  <2> HIDE DEF u
  <2>4. /\ n' \in 0 .. count /\ n' + u <= BUF_LEN - 1 /\ tx_in + n' <= BUF_LEN
        /\ n' \in 0 .. BUF_LEN
    <3> DEFINE r == Room(tx_in, tx_out)
    <3>1. tx_in \in 0 .. BUF_LEN - 1 /\ tx_out \in 0 .. BUF_LEN - 1
      BY <2>2 DEF Slot
    <3>2. r \in 0 .. BUF_LEN /\ r + u <= BUF_LEN - 1 /\ tx_in + r <= BUF_LEN
      BY <2>3, <3>1, UartParameters DEF Room
    <3>3. u \in Nat
      BY <2>3, <3>1, UartParameters
    <3> HIDE DEF r
    <3>4. n' = IF r < count THEN r ELSE count
      BY <2>1 DEF Lower, r
    <3> QED
      BY <2>2, <3>1, <3>2, <3>3, <3>4, UartParameters
  <2>5. UartTypeOK'
    BY <1>0, <2>1, <2>2, <2>4
    DEF WriteSpace, UartTypeOK, TypeOK, Places, request, tx, rx, routine, device, alarm
  <2>6. WriterKnows'
    <3> SUFFICES ASSUME pc' \in {"w_copy", "w_advance"} PROVE WriterKnows'
      BY DEF WriterKnows
    <3>1. n' # 0 /\ pc' = "w_copy"
      BY <2>1
    <3>2. n' \in 1 .. count'
      BY <2>1, <2>2, <2>4, <3>1
    <3>3. n' + Used(tx_in', tx_out') <= BUF_LEN - 1 /\ in' + n' <= BUF_LEN /\ in' = tx_in'
      BY <2>1, <2>4 DEF WriteSpace, tx, u
    <3> QED
      BY <3>1, <3>2, <3>3 DEF WriterKnows
  <2>7. pc' \in {"w_enable", "w_copy"}
    BY <2>1
  <2>8. ReaderKnows' /\ RoutineKnows' /\ RecvOn'
    BY <1>0, <2>7
    DEF WriteSpace, ReaderKnows, RoutineKnows, RecvOn, RxFull, request, locals, tx, rx, routine,
        device, alarm
  <2>9. SendOn'
    BY <1>0, <2>7 DEF SendOn
  <2> QED
    BY <2>5, <2>6, <2>8, <2>9 DEF UartInv
<1> QED
  BY <1>a, <1>b

\* The writer fills the room.
LEMMA UartWriteCopy ==
  ASSUME JtagUartAssumption, UartInv, WriteCopy
  PROVE  UartInv'
<1>0. UartTypeOK /\ WriterKnows /\ ReaderKnows /\ RoutineKnows /\ SendOn /\ RecvOn
  BY DEF UartInv
<1>1. UartTypeOK'
  <2>1. tx_buf' \in [Slot -> 0 .. Numbers - 1]
    <3>1. /\ tx_buf \in [Slot -> 0 .. Numbers - 1] /\ in \in Slot /\ n \in 0 .. BUF_LEN
          /\ tx_next \in 0 .. Numbers - 1
      BY <1>0 DEF UartTypeOK, TypeOK, CharNumbers
    <3>2. ASSUME NEW k \in Slot, k \in in .. in + n - 1
          PROVE  (tx_next + k - in) % Numbers \in 0 .. Numbers - 1
      <4>1. tx_next + k - in \in Nat
        BY <3>1, <3>2, UartParameters DEF Slot
      <4> QED
        BY <4>1, UartParameters DEF CharNumbers
    <3> QED
      BY <3>1, <3>2 DEF WriteCopy
  <2>2. pc' = "w_advance"
    BY DEF WriteCopy, Goes
  <2> QED
    BY <1>0, <2>1, <2>2
    DEF WriteCopy, UartTypeOK, TypeOK, Places, request, locals, rx, routine, device, alarm
<1>2. WriterKnows'
  BY <1>0, UartParameters
  DEF WriteCopy, Goes, WriterKnows, request, locals, tx, rx, routine, device, alarm
<1>3. ReaderKnows'
  BY <1>0, UartParameters
  DEF WriteCopy, Goes, ReaderKnows, request, locals, tx, rx, routine, device, alarm
<1>4. RoutineKnows'
  BY <1>0, UartParameters
  DEF WriteCopy, Goes, RoutineKnows, RxFull, request, locals, tx, rx, routine, device, alarm
<1>5. SendOn'
  BY <1>0, UartParameters
  DEF WriteCopy, Goes, SendOn, request, locals, tx, rx, routine, device, alarm
<1>6. RecvOn'
  BY <1>0, UartParameters
  DEF WriteCopy, Goes, RecvOn, RxFull, request, locals, tx, rx, routine, device, alarm
<1> QED
  BY <1>1, <1>2, <1>3, <1>4, <1>5, <1>6 DEF UartInv

\* The writer shows what it wrote.
LEMMA UartWriteAdvance ==
  ASSUME JtagUartAssumption, UartInv, WriteAdvance
  PROVE  UartInv'
<1>0. UartTypeOK /\ WriterKnows /\ ReaderKnows /\ RoutineKnows /\ SendOn /\ RecvOn
  BY DEF UartInv
<1>a. /\ in = tx_in /\ n \in 1 .. count /\ count \in Nat /\ done \in Nat
      /\ n + Used(tx_in, tx_out) <= BUF_LEN - 1
  BY <1>0 DEF WriteAdvance, Goes, WriterKnows, UartTypeOK, TypeOK
<1>b. /\ tx_in' = (in + n) % BUF_LEN /\ tx_next' = (tx_next + n) % Numbers
      /\ count' = count - n /\ done' = done + n /\ pc' = "w_space"
  BY DEF WriteAdvance, Goes
<1>c. tx_in' \in Slot
  <2>1. tx_in \in Slot /\ tx_out \in Slot /\ Used(tx_in, tx_out) \in 0 .. BUF_LEN - 1
    BY <1>0, UartTyped DEF UartTypeOK, TypeOK
  <2>2. n \in 0 .. BUF_LEN - 1 - Used(tx_in, tx_out)
    BY <1>a, <2>1, UartParameters
  <2> QED
    BY <1>a, <1>b, <2>1, <2>2, RingCounts
<1>1. UartTypeOK'
  <2>1. count' \in Nat /\ done' \in Nat
    BY <1>a, <1>b
  <2>2. tx_next' \in CharNumbers
    <3>1. tx_next + n \in Nat
      BY <1>0, <1>a, UartParameters DEF UartTypeOK, CharNumbers
    <3> QED
      BY <1>b, <3>1, UartParameters
  <2> QED
    BY <1>0, <1>b, <1>c, <2>1, <2>2
    DEF WriteAdvance, UartTypeOK, TypeOK, Places, locals, rx, routine, device, alarm
<1>2. WriterKnows'
  BY <1>0, UartParameters
  DEF WriteAdvance, Goes, WriterKnows, request, locals, tx, rx, routine, device, alarm
<1>3. ReaderKnows'
  BY <1>0, UartParameters
  DEF WriteAdvance, Goes, ReaderKnows, request, locals, tx, rx, routine, device, alarm
<1>4. RoutineKnows'
  BY <1>0, UartParameters
  DEF WriteAdvance, Goes, RoutineKnows, RxFull, request, locals, tx, rx, routine, device, alarm
<1>5. SendOn'
  BY <1>0, UartParameters
  DEF WriteAdvance, Goes, SendOn, request, locals, tx, rx, routine, device, alarm
<1>6. RecvOn'
  BY <1>0, UartParameters
  DEF WriteAdvance, Goes, RecvOn, RxFull, request, locals, tx, rx, routine, device, alarm
<1> QED
  BY <1>1, <1>2, <1>3, <1>4, <1>5, <1>6 DEF UartInv

\* The writer kicks the routine.
LEMMA UartWriteEnable ==
  ASSUME JtagUartAssumption, UartInv, WriteEnable
  PROVE  UartInv'
<1>0. UartTypeOK /\ WriterKnows /\ ReaderKnows /\ RoutineKnows /\ SendOn /\ RecvOn
  BY DEF UartInv
<1>1. UartTypeOK'
  BY <1>0, UartParameters
  DEF WriteEnable, Return, Outcome, Slot, UartTypeOK, TypeOK, Places, request, locals, tx, rx,
      routine, device, alarm
<1>2. WriterKnows'
  BY <1>0, UartParameters
  DEF WriteEnable, Return, Outcome, WriterKnows, request, locals, tx, rx, routine, device, alarm
<1>3. ReaderKnows'
  BY <1>0, UartParameters
  DEF WriteEnable, Return, Outcome, ReaderKnows, request, locals, tx, rx, routine, device, alarm
<1>4. RoutineKnows'
  BY <1>0, UartParameters
  DEF WriteEnable, Return, Outcome, RoutineKnows, RxFull, request, locals, tx, rx, routine,
      device, alarm
<1>5. SendOn'
  BY <1>0, UartParameters
  DEF WriteEnable, Return, Outcome, SendOn, request, locals, tx, rx, routine, device, alarm
<1>6. RecvOn'
  BY <1>0, UartParameters
  DEF WriteEnable, Return, Outcome, RecvOn, RxFull, request, locals, tx, rx, routine, device, alarm
<1> QED
  BY <1>1, <1>2, <1>3, <1>4, <1>5, <1>6 DEF UartInv

\* The writer waits.
LEMMA UartWriteSpin ==
  ASSUME JtagUartAssumption, UartInv, WriteSpin
  PROVE  UartInv'
<1>0. UartTypeOK /\ WriterKnows /\ ReaderKnows /\ RoutineKnows /\ SendOn /\ RecvOn
  BY DEF UartInv
<1>1. UartTypeOK'
  BY <1>0, UartParameters
  DEF WriteSpin, Return, Outcome, Slot, UartTypeOK, TypeOK, Places, request, locals, tx, rx,
      routine, device, alarm
<1>2. WriterKnows'
  BY <1>0, UartParameters
  DEF WriteSpin, Return, Outcome, WriterKnows, request, locals, tx, rx, routine, device, alarm
<1>3. ReaderKnows'
  BY <1>0, UartParameters
  DEF WriteSpin, Return, Outcome, ReaderKnows, request, locals, tx, rx, routine, device, alarm
<1>4. RoutineKnows'
  BY <1>0, UartParameters
  DEF WriteSpin, Return, Outcome, RoutineKnows, RxFull, request, locals, tx, rx, routine, device,
      alarm
<1>5. SendOn'
  BY <1>0, UartParameters
  DEF WriteSpin, Return, Outcome, SendOn, request, locals, tx, rx, routine, device, alarm
<1>6. RecvOn'
  BY <1>0, UartParameters
  DEF WriteSpin, Return, Outcome, RecvOn, RxFull, request, locals, tx, rx, routine, device, alarm
<1> QED
  BY <1>1, <1>2, <1>3, <1>4, <1>5, <1>6 DEF UartInv

\* A call to read.
LEMMA UartRead ==
  ASSUME JtagUartAssumption, UartInv, Read
  PROVE  UartInv'
<1>0. UartTypeOK /\ WriterKnows /\ ReaderKnows /\ RoutineKnows /\ SendOn /\ RecvOn
  BY DEF UartInv
<1>1. UartTypeOK'
  BY <1>0, UartParameters
  DEF Read, Call, Goes, Slot, UartTypeOK, TypeOK, Places, request, locals, tx, rx, routine,
      device, alarm
<1>2. WriterKnows'
  BY <1>0, UartParameters
  DEF Read, Call, Goes, WriterKnows, request, locals, tx, rx, routine, device, alarm
<1>3. ReaderKnows'
  BY <1>0, UartParameters
  DEF Read, Call, Goes, ReaderKnows, request, locals, tx, rx, routine, device, alarm
<1>4. RoutineKnows'
  BY <1>0, UartParameters
  DEF Read, Call, Goes, RoutineKnows, RxFull, request, locals, tx, rx, routine, device, alarm
<1>5. SendOn'
  BY <1>0, UartParameters
  DEF Read, Call, Goes, SendOn, request, locals, tx, rx, routine, device, alarm
<1>6. RecvOn'
  BY <1>0, UartParameters
  DEF Read, Call, Goes, RecvOn, RxFull, request, locals, tx, rx, routine, device, alarm
<1> QED
  BY <1>1, <1>2, <1>3, <1>4, <1>5, <1>6 DEF UartInv

\* The reader looks for characters.
LEMMA UartReadSpace ==
  ASSUME JtagUartAssumption, UartInv, ReadSpace
  PROVE  UartInv'
<1>0. UartTypeOK /\ WriterKnows /\ ReaderKnows /\ RoutineKnows /\ SendOn /\ RecvOn
  BY DEF UartInv
<1> DEFINE u == Used(rx_in, rx_out)
<1>a. /\ in' = rx_in /\ out' = rx_out
      /\ n' = Lower(IF rx_in >= rx_out THEN rx_in - rx_out ELSE BUF_LEN - rx_out, count)
  BY DEF ReadSpace
<1>b. rx_in \in Slot /\ rx_out \in Slot /\ count \in Nat
  BY <1>0 DEF UartTypeOK, TypeOK
<1>c. u = IF rx_in >= rx_out THEN rx_in - rx_out ELSE rx_in - rx_out + BUF_LEN
  BY <1>b, RoundIs
<1>d. /\ n' \in 0 .. count /\ n' \in 0 .. BUF_LEN /\ n' <= u
      /\ rx_out + n' <= BUF_LEN
  <2> HIDE DEF u
  <2> QED
    BY <1>a, <1>b, <1>c, UartParameters DEF Lower, Slot
<1>e. /\ pc' \in {"r_copy", "r_enable", "idle", "r_spin"}
      /\ pc' = "r_copy" => n' > 0 /\ UNCHANGED request
      /\ UNCHANGED <<count, done, nonblock>>
      /\ n' = 0 /\ done > 0 => pc' = "r_enable"
  BY <1>d DEF ReadSpace, Return, request
<1>1. UartTypeOK'
  BY <1>0, <1>a, <1>b, <1>d, <1>e
  DEF ReadSpace, UartTypeOK, TypeOK, Places, tx, rx, routine, device, alarm
<1>2. WriterKnows'
  BY <1>e DEF WriterKnows
<1>3. ReaderKnows'
  <2> SUFFICES ASSUME pc' \in {"r_copy", "r_advance"} PROVE ReaderKnows'
    BY DEF ReaderKnows
  <2>1. pc' = "r_copy" /\ n' > 0
    BY <1>e
  <2>2. n' \in 1 .. count'
    BY <1>b, <1>d, <1>e, <2>1
  <2>3. out' = rx_out' /\ n' <= Used(rx_in', rx_out') /\ out' + n' <= BUF_LEN
    BY <1>a, <1>d DEF ReadSpace, rx
  <2> QED
    BY <2>1, <2>2, <2>3 DEF ReaderKnows
<1>4. RoutineKnows'
  BY <1>0 DEF ReadSpace, RoutineKnows, RxFull, tx, rx, routine, device
<1>5. SendOn'
  BY <1>0 DEF ReadSpace, SendOn, tx
<1>6. RecvOn'
  <2> SUFFICES ASSUME "RE" \notin irq_enable, ~RxFull, done > 0
               PROVE  pc' \in {"r_copy", "r_enable"}
    BY <1>0, <1>e DEF ReadSpace, RecvOn, RxFull, rx
  <2>1. n' = 0 \/ n' > 0
    BY <1>d
  <2> QED
    BY <1>e, <2>1 DEF ReadSpace
<1> QED
  BY <1>1, <1>2, <1>3, <1>4, <1>5, <1>6 DEF UartInv

\* The reader copies them.
LEMMA UartReadCopy ==
  ASSUME JtagUartAssumption, UartInv, ReadCopy
  PROVE  UartInv'
<1>0. UartTypeOK /\ WriterKnows /\ ReaderKnows /\ RoutineKnows /\ SendOn /\ RecvOn
  BY DEF UartInv
<1>a. /\ n \in 1 .. count /\ n <= Used(rx_in, rx_out) /\ out + n <= BUF_LEN
      /\ count \in Nat /\ n \in Nat /\ out \in 0 .. BUF_LEN - 1
      /\ Used(rx_in, rx_out) \in 0 .. BUF_LEN - 1
  BY <1>0, UartTyped DEF ReadCopy, Goes, ReaderKnows, UartTypeOK, TypeOK, Slot
<1>b. /\ chunk' = [k \in 1 .. n |-> rx_buf[out + k - 1]]
      /\ chunk' \in Seq(CharNumbers) /\ Len(chunk') = n
  <2>1. chunk' = [k \in 1 .. n |-> rx_buf[out + k - 1]]
    BY DEF ReadCopy
  <2>2. \A k \in 1 .. n : rx_buf[out + k - 1] \in CharNumbers
    <3> SUFFICES ASSUME NEW k \in 1 .. n PROVE rx_buf[out + k - 1] \in CharNumbers
      OBVIOUS
    <3>1. out + k - 1 \in Slot
      BY <1>a, UartParameters DEF Slot
    <3> QED
      BY <1>0, <3>1 DEF UartTypeOK, TypeOK, CharNumbers
  <2>3. chunk' \in [1 .. n -> CharNumbers]
    BY <2>1, <2>2, Zenon
  <2> QED
    <3> DEFINE c == chunk'
    <3>1. c \in [1 .. n -> CharNumbers] /\ n \in Nat
      BY <1>a, <2>3
    <3> HIDE DEF c
    <3>2. c \in Seq(CharNumbers)
      BY <3>1
    <3>3. Len(c) = n
      BY <3>1
    <3> QED
      BY <2>1, <3>2, <3>3 DEF c
<1>c. Len(chunk') < BUF_LEN
  BY <1>a, <1>b, UartParameters
<1>d. pc' = "r_advance"
  BY DEF ReadCopy, Goes
<1>1. UartTypeOK'
  BY <1>0, <1>b, <1>c, <1>d
  DEF ReadCopy, UartTypeOK, TypeOK, Places, request, tx, rx, routine, device, alarm
<1>2. WriterKnows'
  BY <1>0, UartParameters
  DEF ReadCopy, Goes, WriterKnows, request, locals, tx, rx, routine, device, alarm
<1>3. ReaderKnows'
  BY <1>0, <1>b DEF ReadCopy, Goes, ReaderKnows, request, rx
<1>4. RoutineKnows'
  BY <1>0, UartParameters
  DEF ReadCopy, Goes, RoutineKnows, RxFull, request, locals, tx, rx, routine, device, alarm
<1>5. SendOn'
  BY <1>0, UartParameters
  DEF ReadCopy, Goes, SendOn, request, locals, tx, rx, routine, device, alarm
<1>6. RecvOn'
  BY <1>0, UartParameters
  DEF ReadCopy, Goes, RecvOn, RxFull, request, locals, tx, rx, routine, device, alarm
<1> QED
  BY <1>1, <1>2, <1>3, <1>4, <1>5, <1>6 DEF UartInv

\* The reader takes them out.
LEMMA UartReadAdvance ==
  ASSUME JtagUartAssumption, UartInv, ReadAdvance
  PROVE  UartInv'
<1>0. UartTypeOK /\ WriterKnows /\ ReaderKnows /\ RoutineKnows /\ SendOn /\ RecvOn
  BY DEF UartInv
<1>a. /\ out = rx_out /\ n \in 1 .. count /\ count \in Nat /\ done \in Nat
      /\ n <= Used(rx_in, rx_out)
  BY <1>0 DEF ReadAdvance, ReaderKnows, UartTypeOK, TypeOK
<1>b. /\ rx_out' = (out + n) % BUF_LEN /\ count' = count - n /\ done' = done + n
      /\ pc' \in {"r_space", "r_enable"}
  BY DEF ReadAdvance
<1>c. rx_out' \in Slot /\ count' \in Nat /\ done' \in Nat /\ done' > 0
  <2>1. rx_in \in Slot /\ rx_out \in Slot /\ Used(rx_in, rx_out) \in 0 .. BUF_LEN - 1
    BY <1>0, UartTyped DEF UartTypeOK, TypeOK
  <2>2. n \in 0 .. Used(rx_in, rx_out)
    BY <1>a, <2>1, UartParameters
  <2>3. rx_out' \in Slot
    BY <1>a, <1>b, <2>1, <2>2, RingCounts
  <2> QED
    BY <1>a, <1>b, <2>3
<1>1. UartTypeOK'
  BY <1>0, <1>b, <1>c
  DEF ReadAdvance, UartTypeOK, TypeOK, Places, locals, tx, routine, device, alarm
<1>2. WriterKnows'
  BY <1>b DEF WriterKnows
<1>3. ReaderKnows'
  BY <1>b DEF ReaderKnows
<1>4. RoutineKnows'
  BY <1>0 DEF ReadAdvance, RoutineKnows, tx, routine, device
<1>5. SendOn'
  BY <1>0, UartParameters
  DEF ReadAdvance, SendOn, request, locals, tx, rx, routine, device, alarm
<1>6. RecvOn'
  BY <1>b, <1>c DEF RecvOn
<1> QED
  BY <1>1, <1>2, <1>3, <1>4, <1>5, <1>6 DEF UartInv

\* The reader waits.
LEMMA UartReadSpin ==
  ASSUME JtagUartAssumption, UartInv, ReadSpin
  PROVE  UartInv'
<1>0. UartTypeOK /\ WriterKnows /\ ReaderKnows /\ RoutineKnows /\ SendOn /\ RecvOn
  BY DEF UartInv
<1>1. UartTypeOK'
  BY <1>0, UartParameters
  DEF ReadSpin, Return, Outcome, Slot, UartTypeOK, TypeOK, Places, request, locals, tx, rx,
      routine, device, alarm
<1>2. WriterKnows'
  BY <1>0, UartParameters
  DEF ReadSpin, Return, Outcome, WriterKnows, request, locals, tx, rx, routine, device, alarm
<1>3. ReaderKnows'
  BY <1>0, UartParameters
  DEF ReadSpin, Return, Outcome, ReaderKnows, request, locals, tx, rx, routine, device, alarm
<1>4. RoutineKnows'
  BY <1>0, UartParameters
  DEF ReadSpin, Return, Outcome, RoutineKnows, RxFull, request, locals, tx, rx, routine, device,
      alarm
<1>5. SendOn'
  BY <1>0, UartParameters
  DEF ReadSpin, Return, Outcome, SendOn, request, locals, tx, rx, routine, device, alarm
<1>6. RecvOn'
  BY <1>0, UartParameters
  DEF ReadSpin, Return, Outcome, RecvOn, RxFull, request, locals, tx, rx, routine, device, alarm
<1> QED
  BY <1>1, <1>2, <1>3, <1>4, <1>5, <1>6 DEF UartInv

\* The reader makes the routine go on.
LEMMA UartReadEnable ==
  ASSUME JtagUartAssumption, UartInv, ReadEnable
  PROVE  UartInv'
<1>0. UartTypeOK /\ WriterKnows /\ ReaderKnows /\ RoutineKnows /\ SendOn /\ RecvOn
  BY DEF UartInv
<1>1. UartTypeOK'
  BY <1>0, UartParameters
  DEF ReadEnable, Goes, Return, Slot, UartTypeOK, TypeOK, Places, request, locals, tx, rx,
      routine, device, alarm
<1>2. WriterKnows'
  BY <1>0, UartParameters
  DEF ReadEnable, Goes, Return, WriterKnows, request, locals, tx, rx, routine, device, alarm
<1>3. ReaderKnows'
  BY <1>0, UartParameters
  DEF ReadEnable, Goes, Return, ReaderKnows, request, locals, tx, rx, routine, device, alarm
<1>4. RoutineKnows'
  BY <1>0, UartParameters
  DEF ReadEnable, Goes, Return, RoutineKnows, RxFull, request, locals, tx, rx, routine, device,
      alarm
<1>5. SendOn'
  BY <1>0, UartParameters
  DEF ReadEnable, Goes, Return, SendOn, request, locals, tx, rx, routine, device, alarm
<1>6. RecvOn'
  BY <1>0, UartParameters
  DEF ReadEnable, Goes, Return, RecvOn, RxFull, request, locals, tx, rx, routine, device, alarm
<1> QED
  BY <1>1, <1>2, <1>3, <1>4, <1>5, <1>6 DEF UartInv

\* A call to close.
LEMMA UartClose ==
  ASSUME JtagUartAssumption, UartInv, Close
  PROVE  UartInv'
<1>0. UartTypeOK /\ WriterKnows /\ ReaderKnows /\ RoutineKnows /\ SendOn /\ RecvOn
  BY DEF UartInv
<1>1. UartTypeOK'
  <2>1. pc' = "c_spin" /\ count' = 0 /\ done' = 0 /\ nonblock' \in BOOLEAN
    BY UartParameters DEF Close, Goes, Call
  <2> QED
    BY <1>0, <2>1
    DEF Close, Call, UartTypeOK, TypeOK, Places, locals, tx, rx, routine, device, alarm
<1>2. WriterKnows'
  BY <1>0, UartParameters
  DEF Close, Call, Goes, WriterKnows, request, locals, tx, rx, routine, device, alarm
<1>3. ReaderKnows'
  BY <1>0, UartParameters
  DEF Close, Call, Goes, ReaderKnows, request, locals, tx, rx, routine, device, alarm
<1>4. RoutineKnows'
  BY <1>0, UartParameters
  DEF Close, Call, Goes, RoutineKnows, RxFull, request, locals, tx, rx, routine, device, alarm
<1>5. SendOn'
  BY <1>0, UartParameters
  DEF Close, Call, Goes, SendOn, request, locals, tx, rx, routine, device, alarm
<1>6. RecvOn'
  BY <1>0, UartParameters
  DEF Close, Call, Goes, RecvOn, RxFull, request, locals, tx, rx, routine, device, alarm
<1> QED
  BY <1>1, <1>2, <1>3, <1>4, <1>5, <1>6 DEF UartInv

\* A call to close waits.
LEMMA UartCloseSpin ==
  ASSUME JtagUartAssumption, UartInv, CloseSpin
  PROVE  UartInv'
<1>0. UartTypeOK /\ WriterKnows /\ ReaderKnows /\ RoutineKnows /\ SendOn /\ RecvOn
  BY DEF UartInv
<1>1. UartTypeOK'
  BY <1>0, UartParameters
  DEF CloseSpin, Goes, Return, Slot, UartTypeOK, TypeOK, Places, request, locals, tx, rx, routine,
      device, alarm
<1>2. WriterKnows'
  BY <1>0, UartParameters
  DEF CloseSpin, Goes, Return, WriterKnows, request, locals, tx, rx, routine, device, alarm
<1>3. ReaderKnows'
  BY <1>0, UartParameters
  DEF CloseSpin, Goes, Return, ReaderKnows, request, locals, tx, rx, routine, device, alarm
<1>4. RoutineKnows'
  BY <1>0, UartParameters
  DEF CloseSpin, Goes, Return, RoutineKnows, RxFull, request, locals, tx, rx, routine, device, alarm
<1>5. SendOn'
  BY <1>0, UartParameters
  DEF CloseSpin, Goes, Return, SendOn, request, locals, tx, rx, routine, device, alarm
<1>6. RecvOn'
  BY <1>0, UartParameters
  DEF CloseSpin, Goes, Return, RecvOn, RxFull, request, locals, tx, rx, routine, device, alarm
<1> QED
  BY <1>1, <1>2, <1>3, <1>4, <1>5, <1>6 DEF UartInv

\* The timeout is set.
LEMMA UartSetTimeout ==
  ASSUME JtagUartAssumption, UartInv, SetTimeout
  PROVE  UartInv'
<1>0. UartTypeOK /\ WriterKnows /\ ReaderKnows /\ RoutineKnows /\ SendOn /\ RecvOn
  BY DEF UartInv
<1>1. UartTypeOK'
  BY <1>0, UartParameters
  DEF SetTimeout, Goes, Slot, UartTypeOK, TypeOK, Places, request, locals, tx, rx, routine,
      device, alarm
<1>2. WriterKnows'
  BY <1>0, UartParameters
  DEF SetTimeout, Goes, WriterKnows, request, locals, tx, rx, routine, device, alarm
<1>3. ReaderKnows'
  BY <1>0, UartParameters
  DEF SetTimeout, Goes, ReaderKnows, request, locals, tx, rx, routine, device, alarm
<1>4. RoutineKnows'
  BY <1>0, UartParameters
  DEF SetTimeout, Goes, RoutineKnows, RxFull, request, locals, tx, rx, routine, device, alarm
<1>5. SendOn'
  BY <1>0, UartParameters
  DEF SetTimeout, Goes, SendOn, request, locals, tx, rx, routine, device, alarm
<1>6. RecvOn'
  BY <1>0, UartParameters
  DEF SetTimeout, Goes, RecvOn, RxFull, request, locals, tx, rx, routine, device, alarm
<1> QED
  BY <1>1, <1>2, <1>3, <1>4, <1>5, <1>6 DEF UartInv

\* The program and the routine keep the invariant, wherever the one interrupts the other.
LEMMA UartStep ==
  ASSUME JtagUartAssumption, UartInv, [Next]_vars
  PROVE  UartInv'
<1>1. CASE Caller
  BY <1>1, UartWrite, UartWriteSpace, UartWriteCopy, UartWriteAdvance, UartWriteEnable,
     UartWriteSpin, UartRead, UartReadSpace, UartReadCopy, UartReadAdvance, UartReadSpin,
     UartReadEnable, UartClose, UartCloseSpin, UartSetTimeout DEF Caller
<1>2. CASE Routine
  BY <1>2, UartInterrupt, UartIsrControl, UartIsrRx, UartIsrRxEnd, UartIsrTx, UartIsrTxEnd
  DEF Routine
<1>3. CASE Timeout
  BY <1>3, UartTimeout
<1>4. CASE Device
  BY <1>4, UartHostTakes, UartHostSends DEF Device
<1>5. CASE UNCHANGED vars
  BY <1>5
  DEF vars, UartInv, UartTypeOK, TypeOK, WriterKnows, ReaderKnows, RoutineKnows, RxFull, SendOn,
      RecvOn, request, locals, tx, rx, routine, device, alarm
<1> QED
  BY <1>1, <1>2, <1>3, <1>4, <1>5 DEF Next

\* It holds when the driver starts.
LEMMA UartStarts ==
  ASSUME JtagUartAssumption, Init
  PROVE  UartInv
<1>1. 0 \in Slot /\ 0 \in 0 .. Numbers - 1 /\ 0 \in CharNumbers
  BY UartParameters DEF Slot, CharNumbers
<1>2. 0 \in 0 .. BUF_LEN /\ 0 \in 0 .. FifoLen /\ 0 \in 0 .. INT_MAX - 2 /\ BUF_LEN > 0
  BY UartParameters
<1>3. <<>> \in Seq(CharNumbers) /\ Len(<<>>) = 0
  BY EmptySeq
<1>4. UartTypeOK
  <2>1. tx_buf \in [Slot -> 0 .. Numbers - 1] /\ rx_buf \in [Slot -> 0 .. Numbers - 1]
    BY <1>1 DEF Init
  <2>2. timeout \in Timeouts \cup {INT_MAX - 1, INT_MAX}
    BY DEF Init
  <2>3. Len(chunk) < BUF_LEN /\ Len(txfifo) <= FifoLen /\ Len(rxfifo) <= FifoLen
    BY <1>2, <1>3, UartParameters DEF Init
  <2>4. irq_enable \subseteq {"RE", "WE"} /\ isr = "none" /\ pc = "idle"
    BY DEF Init
  <2> QED
    BY <1>1, <1>2, <1>3, <2>1, <2>2, <2>3, <2>4 DEF Init, UartTypeOK, TypeOK, Places
<1> QED
  BY <1>4 DEF Init, UartInv, WriterKnows, ReaderKnows, RoutineKnows, SendOn, RecvOn

\* For every size of the ring and of the FIFOs, and with any calls: a writer never writes
\* over what waits in the ring, a reader's piece stays in it until it is taken out, and
\* the interrupts are on whenever there is something to send or room for what may come.
THEOREM UartSafe == ASSUME JtagUartAssumption PROVE Spec => []UartInv
<1>1. Init => UartInv
  BY UartStarts
<1>2. UartInv /\ [Next]_vars => UartInv'
  BY UartStep
<1> QED
  BY <1>1, <1>2, PTL DEF Spec

\* A piece that the reader has copied is what the ring gives out.
LEMMA PieceLeaves ==
  ASSUME JtagUartAssumption, UartInv
  PROVE  ReadsWhatLeaves
<1> SUFFICES ASSUME pc = "r_advance"
             PROVE  /\ n <= Used(rx_in, rx_out)
                    /\ chunk = SubSeq(Contents(rx_buf, rx_in, rx_out), 1, n)
  BY DEF ReadsWhatLeaves
<1> DEFINE u == Used(rx_in, rx_out)
           A == Contents(rx_buf, rx_in, rx_out)
           B == SubSeq(A, 1, n)
<1>1. /\ out = rx_out /\ n \in 1 .. count /\ count \in Nat
      /\ n <= u /\ out + n <= BUF_LEN
      /\ chunk = [k \in 1 .. n |-> rx_buf[out + k - 1]]
      /\ chunk \in Seq(CharNumbers)
  BY DEF UartInv, ReaderKnows, UartTypeOK, TypeOK
<1>2. rx_in \in Slot /\ rx_out \in Slot /\ rx_buf \in [Slot -> CharNumbers]
  BY DEF UartInv, UartTypeOK, TypeOK, CharNumbers
<1>3. /\ A \in Seq(CharNumbers) /\ Len(A) = u /\ u \in 0 .. BUF_LEN - 1
      /\ \A k \in 1 .. u : A[k] = rx_buf[Round(rx_out + k - 1)]
  BY <1>2, RingIs
<1> HIDE DEF u, A
<1>4. n \in Nat /\ n >= 1 /\ u \in Nat /\ rx_out \in 0 .. BUF_LEN - 1
  BY <1>1, <1>2, <1>3, UartParameters DEF Slot
<1>5. B \in Seq(CharNumbers) /\ Len(B) = n /\ \A k \in 1 .. n : B[k] = A[k]
  <2>1. 1 \in 1 .. Len(A) + 1 /\ n \in 1 - 1 .. Len(A)
    BY <1>1, <1>3, <1>4
  <2> QED
    BY <1>3, <1>4, <2>1, SubSeqProperties
<1> HIDE DEF B
<1>6. \A k \in 1 .. n : B[k] = rx_buf[out + k - 1]
  <2> SUFFICES ASSUME NEW k \in 1 .. n PROVE B[k] = rx_buf[out + k - 1]
    OBVIOUS
  <2>1. k \in 1 .. u /\ rx_out + k - 1 < BUF_LEN
    <3>1. k \in Nat /\ k >= 1 /\ k <= n /\ n <= u /\ rx_out + n <= BUF_LEN
      BY <1>1, <1>4
    <3>2. BUF_LEN \in Nat
      BY UartParameters
    <3> QED
      BY <1>4, <3>1, <3>2
  <2>2. Round(rx_out + k - 1) = rx_out + k - 1
    BY <2>1 DEF Round
  <2> QED
    BY <1>1, <1>3, <1>5, <2>1, <2>2
<1>7. Len(chunk) = n /\ \A k \in 1 .. n : chunk[k] = rx_buf[out + k - 1]
  BY <1>1, <1>4
<1>8. chunk = B
  BY <1>1, <1>5, <1>6, <1>7, SeqEqual
<1> QED
  BY <1>1, <1>8 DEF u, A, B

\* What memcpy reads, without a lock, is exactly what then leaves the ring.
THEOREM ReaderTakesWhatItRead == ASSUME JtagUartAssumption PROVE Spec => []ReadsWhatLeaves
<1>1. UartInv => ReadsWhatLeaves
  BY PieceLeaves
<1> QED
  BY <1>1, UartSafe, PTL

\* The registers keep their types; characters wait in the ring only while the interrupt
\* that sends them is on or the writer is about to switch it on, and receiving is off only
\* while there is no room or a reader is about to switch it on.
THEOREM UartTypesAndInterrupts ==
  ASSUME JtagUartAssumption
  PROVE  Spec => [](TypeOK /\ SendingIsOn /\ ReceivingIsOn)
<1>1. UartInv => TypeOK /\ SendingIsOn /\ ReceivingIsOn
  BY DEF UartInv, UartTypeOK, SendOn, RecvOn, SendingIsOn, ReceivingIsOn
<1> QED
  BY <1>1, UartSafe, PTL

-----------------------------------------------------------------------------
(* The JTAG UART as two channels.                                          *)

\* To the host: the FIFO of the device, then the ring of the writer.
ToHost == INSTANCE Channel
    WITH Capacity <- BUF_LEN - 1 + FifoLen, next <- tx_next,
         q <- txfifo \o Contents(tx_buf, tx_in, tx_out)

\* To the program: the ring of the reader, then the FIFO of the device.
ToProgram == INSTANCE Channel
    WITH Capacity <- BUF_LEN - 1 + FifoLen, next <- rx_next,
         q <- Contents(rx_buf, rx_in, rx_out) \o rxfifo

\* What is under way in either direction.
Outgoing == txfifo \o Contents(tx_buf, tx_in, tx_out)
Incoming == Contents(rx_buf, rx_in, rx_out) \o rxfifo

\* Numbers in a row are characters.
LEMMA RunIs ==
  ASSUME JtagUartAssumption, NEW first \in CharNumbers, NEW m \in Nat
  PROVE  /\ ToHost!Run(first, m) \in Seq(CharNumbers) /\ Len(ToHost!Run(first, m)) = m
         /\ \A k \in 1 .. m : ToHost!Run(first, m)[k] = (first + k - 1) % Numbers
<1> DEFINE s == ToHost!Run(first, m)
<1>1. s = [k \in 1 .. m |-> (first + k - 1) % Numbers]
  BY DEF ToHost!Run
<1> HIDE DEF s
<1>2. \A k \in 1 .. m : (first + k - 1) % Numbers \in CharNumbers
  <2> SUFFICES ASSUME NEW k \in 1 .. m PROVE (first + k - 1) % Numbers \in CharNumbers
    OBVIOUS
  <2>1. first + k - 1 \in Nat
    BY UartParameters DEF CharNumbers
  <2> QED
    BY <2>1, UartParameters
<1>3. s \in [1 .. m -> CharNumbers]
  BY <1>1, <1>2, Zenon
<1>4. s \in Seq(CharNumbers) /\ Len(s) = m
  BY <1>3
<1>5. \A k \in 1 .. m : s[k] = (first + k - 1) % Numbers
  BY <1>1
<1> QED
  BY <1>4, <1>5 DEF s

\* The rings of the invariant are sequences of characters, as long as they are used.
LEMMA RingsAre ==
  ASSUME JtagUartAssumption, UartInv
  PROVE  /\ Contents(tx_buf, tx_in, tx_out) \in Seq(CharNumbers)
         /\ Len(Contents(tx_buf, tx_in, tx_out)) = Used(tx_in, tx_out)
         /\ Contents(rx_buf, rx_in, rx_out) \in Seq(CharNumbers)
         /\ Len(Contents(rx_buf, rx_in, rx_out)) = Used(rx_in, rx_out)
         /\ txfifo \in Seq(CharNumbers) /\ rxfifo \in Seq(CharNumbers)
         /\ tx_buf \in [Slot -> CharNumbers] /\ rx_buf \in [Slot -> CharNumbers]
         /\ tx_in \in Slot /\ tx_out \in Slot /\ rx_in \in Slot /\ rx_out \in Slot
<1>1. /\ tx_buf \in [Slot -> CharNumbers] /\ rx_buf \in [Slot -> CharNumbers]
      /\ tx_in \in Slot /\ tx_out \in Slot /\ rx_in \in Slot /\ rx_out \in Slot
      /\ txfifo \in Seq(CharNumbers) /\ rxfifo \in Seq(CharNumbers)
  BY DEF UartInv, UartTypeOK, TypeOK, CharNumbers
<1>2. /\ Contents(tx_buf, tx_in, tx_out) \in Seq(CharNumbers)
      /\ Len(Contents(tx_buf, tx_in, tx_out)) = Used(tx_in, tx_out)
      /\ Contents(rx_buf, rx_in, rx_out) \in Seq(CharNumbers)
      /\ Len(Contents(rx_buf, rx_in, rx_out)) = Used(rx_in, rx_out)
  BY <1>1, RingIs
<1> QED
  BY <1>1, <1>2

\* The host takes the oldest character.
LEMMA HostGets ==
  ASSUME JtagUartAssumption, UartInv, HostTakes
  PROVE  ToHost!Get /\ UNCHANGED <<Incoming, rx_next>>
<1> DEFINE C == Contents(tx_buf, tx_in, tx_out)
<1>1. C \in Seq(CharNumbers) /\ txfifo \in Seq(CharNumbers) /\ txfifo # <<>>
  BY RingsAre DEF HostTakes
<1>2. /\ txfifo' = SubSeq(txfifo, 2, Len(txfifo))
      /\ Len(txfifo) \in Nat /\ Len(txfifo) >= 1 /\ Len(C) \in Nat
  <2>1. txfifo' = Tail(txfifo)
    BY DEF HostTakes
  <2> HIDE DEF C
  <2>2. Tail(txfifo) = SubSeq(txfifo, 2, Len(txfifo))
    BY <1>1, TailIsSubSeq
  <2>3. Len(txfifo) \in Nat /\ Len(C) \in Nat /\ Len(txfifo) # 0
    BY <1>1, EmptySeq, LenProperties
  <2> QED
    BY <2>1, <2>2, <2>3
<1>3. UNCHANGED <<C, Incoming, rx_next, tx_next>>
  BY DEF HostTakes, Incoming, tx, rx
<1> HIDE DEF C
<1>4. /\ Len(txfifo \o C) = Len(txfifo) + Len(C)
      /\ SubSeq(txfifo, 1 + 1, Len(txfifo)) \o C = SubSeq(txfifo \o C, 1 + 1, Len(txfifo \o C))
  <2>1. 1 \in 0 .. Len(txfifo)
    BY <1>2
  <2> QED
    BY <1>1, <2>1, OldestLeave
<1>5. 1 \in 1 .. Len(txfifo \o C)
  BY <1>2, <1>4
<1>6. txfifo' \o C' = SubSeq(txfifo \o C, 1 + 1, Len(txfifo \o C))
  <2>1. 1 + 1 = 2
    OBVIOUS
  <2>2. txfifo' = SubSeq(txfifo, 1 + 1, Len(txfifo)) /\ C' = C
    BY <1>2, <1>3, <2>1
  <2> QED
    BY <1>4, <2>2, Zenon
<1>7. ToHost!Get
  BY <1>3, <1>5, <1>6 DEF ToHost!Get, C
<1> QED
  BY <1>3, <1>7

\* The host sends the next character.
LEMMA HostPuts ==
  ASSUME JtagUartAssumption, UartInv, HostSends
  PROVE  ToProgram!Put /\ UNCHANGED <<Outgoing, tx_next>>
<1> DEFINE C == Contents(rx_buf, rx_in, rx_out)
           s == ToProgram!Run(rx_next, 1)
<1>1. C \in Seq(CharNumbers) /\ rxfifo \in Seq(CharNumbers) /\ rx_next \in CharNumbers
  BY RingsAre DEF UartInv, UartTypeOK
<1>2. Len(C) \in 0 .. BUF_LEN - 1 /\ Len(rxfifo) \in 0 .. FifoLen /\ Len(rxfifo) < FifoLen
  BY RingsAre, UartTyped DEF UartInv, HostSends
<1>3. UNCHANGED <<C, Outgoing, tx_next>> /\ rx_next' = (rx_next + 1) % Numbers
  BY DEF HostSends, Outgoing, tx, rx
<1>4. s = <<rx_next>>
  <2>1. s = [k \in 1 .. 1 |-> (rx_next + k - 1) % Numbers]
    BY DEF ToProgram!Run
  <2>2. (rx_next + 1 - 1) % Numbers = rx_next
    <3>1. rx_next + 1 - 1 = rx_next /\ rx_next \in 0 .. Numbers - 1
      BY <1>1 DEF CharNumbers
    <3>2. \A x \in 0 .. Numbers - 1 : x % Numbers = x
      BY UartParameters
    <3> QED
      BY <3>1, <3>2
  <2>3. s = [k \in 1 .. 1 |-> rx_next]
    BY <2>1, <2>2
  <2> QED
    BY <2>3
<1>5. rxfifo' = rxfifo \o <<rx_next>>
  <2>1. rxfifo' = Append(rxfifo, rx_next)
    BY DEF HostSends
  <2> QED
    BY <1>1, <2>1, AppendIsConcat
<1> HIDE DEF C, s
<1>6. (C \o rxfifo) \o <<rx_next>> = C \o (rxfifo \o <<rx_next>>)
  <2>1. <<rx_next>> \in Seq(CharNumbers)
    BY <1>1
  <2> QED
    BY <1>1, <2>1, ConcatAssociative
<1>7. C' \o rxfifo' = (C \o rxfifo) \o s
  BY <1>3, <1>4, <1>5, <1>6
<1>8. 1 \in 1 .. (BUF_LEN - 1 + FifoLen) - Len(C \o rxfifo)
  <2>1. Len(C \o rxfifo) = Len(C) + Len(rxfifo)
    BY <1>1, ConcatProperties
  <2> QED
    <3>1. Len(C \o rxfifo) = Len(C) + Len(rxfifo) /\ BUF_LEN \in Nat /\ FifoLen \in Nat
      BY <2>1, UartParameters
    <3> QED
      BY <1>2, <3>1
<1>9. ToProgram!Put
  <2>1. \E k \in 1 .. (BUF_LEN - 1 + FifoLen) - Len(C \o rxfifo) :
          /\ Incoming' = (C \o rxfifo) \o ToProgram!Run(rx_next, k)
          /\ rx_next' = (rx_next + k) % Numbers
    <3>1. Incoming' = (C \o rxfifo) \o s
      BY <1>7 DEF Incoming, C
    <3> QED
      BY <1>3, <1>8, <3>1, Zenon DEF s
  <2> QED
    BY <2>1, Zenon DEF ToProgram!Put, Incoming, C
<1> QED
  BY <1>3, <1>9

\* The routine moves one character from the FIFO into the ring: the same are under way.
LEMMA RoutineReceives ==
  ASSUME JtagUartAssumption, UartInv, IsrRx
  PROVE  UNCHANGED <<Incoming, rx_next, Outgoing, tx_next>>
<1> DEFINE C == Contents(rx_buf, rx_in, rx_out)
           u == Used(rx_in, rx_out)
<1>1. UNCHANGED <<rx_next, Outgoing, tx_next>>
  BY DEF IsrRx, Outgoing, tx
<1>2. CASE UNCHANGED <<rx, rxfifo>>
  BY <1>1, <1>2 DEF Incoming, rx
<1>3. CASE ~UNCHANGED <<rx, rxfifo>>
  <2>1. /\ ~RxFull /\ rxfifo # <<>>
        /\ rx_buf' = [rx_buf EXCEPT ![rx_in] = Head(rxfifo)]
        /\ rx_in' = (rx_in + 1) % BUF_LEN /\ rx_out' = rx_out
        /\ rxfifo' = Tail(rxfifo)
    BY <1>3 DEF IsrRx
  <2>2. /\ C \in Seq(CharNumbers) /\ rxfifo \in Seq(CharNumbers)
        /\ rx_in \in Slot /\ rx_out \in Slot /\ rx_buf \in [Slot -> CharNumbers]
    BY RingsAre
  <2>3. u \in 0 .. BUF_LEN - 1 /\ (RxFull <=> u = BUF_LEN - 1)
    BY UartTyped DEF UartInv
  <2>4. Head(rxfifo) \in CharNumbers /\ Head(rxfifo) = rxfifo[1]
    BY <2>1, <2>2, HeadTailProperties
  <2>5. rx_in \in 0 .. BUF_LEN - 1 /\ 1 \in Nat /\ 1 + u <= BUF_LEN - 1 /\ rx_in + 1 <= BUF_LEN
    <3>1. u # BUF_LEN - 1 /\ u \in 0 .. BUF_LEN - 1 /\ rx_in \in 0 .. BUF_LEN - 1
      BY <2>1, <2>2, <2>3 DEF Slot
    <3> HIDE DEF u
    <3> QED
      BY <3>1, UartParameters
  <2>6. rx_buf' \in [Slot -> CharNumbers]
    BY <2>1, <2>2, <2>4
  <2> DEFINE s == <<rxfifo[1]>>
  <2>7. s \in Seq(CharNumbers) /\ Len(s) = 1 /\ s[1] = rxfifo[1]
    BY <2>4
  <2>8. \A k \in Slot : rx_buf'[k] = IF k \in rx_in .. rx_in + 1 - 1 THEN s[k - rx_in + 1]
                                                                      ELSE rx_buf[k]
    <3> SUFFICES ASSUME NEW k \in Slot
                 PROVE  rx_buf'[k] = IF k \in rx_in .. rx_in + 1 - 1 THEN s[k - rx_in + 1]
                                                                      ELSE rx_buf[k]
      OBVIOUS
    <3>1. k \in rx_in .. rx_in + 1 - 1 <=> k = rx_in
      BY <2>5 DEF Slot
    <3>2. CASE k = rx_in
      <4>1. k - rx_in + 1 = 1
        BY <2>5, <3>2
      <4> QED
        BY <2>1, <2>2, <2>4, <2>7, <3>1, <3>2, <4>1
    <3>3. CASE k # rx_in
      BY <2>1, <2>2, <3>1, <3>3
    <3> QED
      BY <3>2, <3>3
  <2> HIDE DEF C, u, s
  <2>9. Contents(rx_buf', rx_in', rx_out') = C \o s
    <3>1. Fits(rx_in, rx_out, s)
      BY <2>5, <2>7 DEF Fits, u
    <3>2. Fills(rx_buf', rx_buf, rx_in, s)
      BY <2>7, <2>8 DEF Fills
    <3>3. Contents(rx_buf', After(rx_in, s), rx_out) = Contents(rx_buf, rx_in, rx_out) \o s
      BY <2>2, <2>6, <2>7, <3>1, <3>2, RingGrows
    <3>4. After(rx_in, s) = rx_in'
      BY <2>1, <2>7 DEF After
    <3> QED
      BY <2>1, <3>3, <3>4 DEF C
  <2>10. C \o s = Append(C, rxfifo[1])
    BY <2>2, <2>4, AppendIsConcat DEF s
  <2>11. Tail(rxfifo) = SubSeq(rxfifo, 2, Len(rxfifo))
    BY <2>1, <2>2, TailIsSubSeq
  <2>12. Append(C, rxfifo[1]) \o SubSeq(rxfifo, 2, Len(rxfifo)) = C \o rxfifo
    BY <2>1, <2>2, HeadMoves
  <2>13. Incoming' = Incoming
    <3>1. Incoming' = Contents(rx_buf', rx_in', rx_out') \o rxfifo'
      BY DEF Incoming
    <3> QED
      BY <2>1, <2>9, <2>10, <2>11, <2>12, <3>1 DEF Incoming, C
  <2> QED
    BY <1>1, <2>13
<1> QED
  BY <1>2, <1>3

\* The routine moves one character from the ring into the FIFO: the same are under way.
LEMMA RoutineSends ==
  ASSUME JtagUartAssumption, UartInv, IsrTx
  PROVE  UNCHANGED <<Incoming, rx_next, Outgoing, tx_next>>
<1> DEFINE C == Contents(tx_buf, tx_in, tx_out)
           u == Used(tx_in, tx_out)
<1>1. UNCHANGED <<rx_next, Incoming, tx_next>>
  BY DEF IsrTx, Incoming, rx
<1>2. CASE UNCHANGED <<tx, txfifo>>
  BY <1>1, <1>2 DEF Outgoing, tx
<1>3. CASE ~UNCHANGED <<tx, txfifo>>
  <2>1. /\ tx_out # tx_in
        /\ txfifo' = Append(txfifo, tx_buf[tx_out])
        /\ tx_out' = (tx_out + 1) % BUF_LEN
        /\ UNCHANGED <<tx_buf, tx_in>>
    BY <1>3 DEF IsrTx, tx
  <2>2. /\ C \in Seq(CharNumbers) /\ Len(C) = u /\ txfifo \in Seq(CharNumbers)
        /\ tx_in \in Slot /\ tx_out \in Slot /\ tx_buf \in [Slot -> CharNumbers]
    BY RingsAre
  <2>3. u \in 0 .. BUF_LEN - 1 /\ (tx_in = tx_out <=> u = 0)
    BY UartTyped DEF UartInv
  <2>4. 1 \in 0 .. u /\ 1 \in 1 .. u /\ C # <<>>
    BY <2>1, <2>2, <2>3
  <2>5. C[1] = tx_buf[tx_out]
    <3>1. C[1] = tx_buf[Round(tx_out + 1 - 1)]
      BY <2>2, <2>4, RingIs
    <3>2. Round(tx_out + 1 - 1) = tx_out
      BY <2>2, UartParameters DEF Slot, Round
    <3> QED
      BY <3>1, <3>2
  <2>6. Contents(tx_buf', tx_in', tx_out') = SubSeq(C, 2, Len(C))
    <3>1. Contents(tx_buf, tx_in, (tx_out + 1) % BUF_LEN) = SubSeq(C, 1 + 1, Len(C))
      BY <2>2, <2>4, RingShrinks
    <3>2. 1 + 1 = 2
      OBVIOUS
    <3> HIDE DEF C
    <3> QED
      BY <2>1, <3>1, <3>2
  <2> HIDE DEF C
  <2>7. Append(txfifo, C[1]) \o SubSeq(C, 2, Len(C)) = txfifo \o C
    BY <2>2, <2>4, HeadMoves
  <2>8. Outgoing' = Outgoing
    <3>1. Outgoing' = txfifo' \o Contents(tx_buf', tx_in', tx_out')
      BY DEF Outgoing
    <3> QED
      BY <2>1, <2>5, <2>6, <2>7, <3>1 DEF Outgoing, C
  <2> QED
    BY <1>1, <2>8
<1> QED
  BY <1>2, <1>3

\* The writer fills slots that nobody looks at.
LEMMA WriterHides ==
  ASSUME JtagUartAssumption, UartInv, WriteCopy
  PROVE  UNCHANGED <<Incoming, rx_next, Outgoing, tx_next>>
<1>1. UNCHANGED <<Incoming, rx_next, txfifo, tx_in, tx_out, tx_next>>
  BY DEF WriteCopy, Incoming, rx, device
<1>2. /\ n + Used(tx_in, tx_out) <= BUF_LEN - 1 /\ tx_in + n <= BUF_LEN /\ n \in Nat /\ in = tx_in
  BY DEF WriteCopy, Goes, UartInv, WriterKnows, UartTypeOK, TypeOK
<1>3. /\ tx_in \in Slot /\ tx_out \in Slot
      /\ tx_buf \in [Slot -> CharNumbers] /\ tx_buf' \in [Slot -> CharNumbers]
  <2>1. UartInv'
    BY UartWriteCopy
  <2> QED
    BY <2>1, RingsAre DEF UartInv, UartTypeOK, TypeOK, CharNumbers
<1>4. \A k \in Slot : k \notin tx_in .. tx_in + n - 1 => tx_buf'[k] = tx_buf[k]
  BY <1>2 DEF WriteCopy
<1>5. Contents(tx_buf', tx_in, tx_out) = Contents(tx_buf, tx_in, tx_out)
  BY <1>2, <1>3, <1>4, RingKeeps
<1>6. Outgoing' = Outgoing
  <2>1. Outgoing' = txfifo' \o Contents(tx_buf', tx_in', tx_out')
    BY DEF Outgoing
  <2> QED
    BY <1>1, <1>5, <2>1 DEF Outgoing
<1> QED
  BY <1>1, <1>6

\* The writer shows what it has written: the next numbers in a row go in.
LEMMA WriterPuts ==
  ASSUME JtagUartAssumption, UartInv, WriteAdvance
  PROVE  ToHost!Put /\ UNCHANGED <<Incoming, rx_next>>
<1> DEFINE C == Contents(tx_buf, tx_in, tx_out)
           u == Used(tx_in, tx_out)
           s == ToHost!Run(tx_next, n)
<1>1. UNCHANGED <<Incoming, rx_next, txfifo, tx_buf, tx_out>>
  BY DEF WriteAdvance, Incoming, rx, device
<1>2. /\ in = tx_in /\ n \in Nat /\ n >= 1 /\ n + u <= BUF_LEN - 1 /\ tx_in + n <= BUF_LEN
      /\ \A k \in Slot : k \in tx_in .. tx_in + n - 1 => tx_buf[k] = (tx_next + k - tx_in) % Numbers
  BY DEF WriteAdvance, Goes, UartInv, WriterKnows, UartTypeOK, TypeOK
<1>3. /\ C \in Seq(CharNumbers) /\ Len(C) = u /\ txfifo \in Seq(CharNumbers)
      /\ tx_in \in Slot /\ tx_out \in Slot /\ tx_buf \in [Slot -> CharNumbers]
      /\ tx_next \in CharNumbers
  BY RingsAre DEF UartInv, UartTypeOK
<1>4. u \in 0 .. BUF_LEN - 1 /\ Len(txfifo) \in 0 .. FifoLen
  BY UartTyped DEF UartInv
<1>5. tx_in' = (tx_in + n) % BUF_LEN /\ tx_next' = (tx_next + n) % Numbers
  BY <1>2 DEF WriteAdvance
<1>6. /\ s \in Seq(CharNumbers) /\ Len(s) = n
      /\ \A k \in 1 .. n : s[k] = (tx_next + k - 1) % Numbers
  BY <1>2, <1>3, RunIs
<1> HIDE DEF C, u, s
<1>7. \A k \in Slot : tx_buf[k] = IF k \in tx_in .. tx_in + n - 1 THEN s[k - tx_in + 1]
                                                                   ELSE tx_buf[k]
  <2> SUFFICES ASSUME NEW k \in Slot, k \in tx_in .. tx_in + n - 1
               PROVE  tx_buf[k] = s[k - tx_in + 1]
    OBVIOUS
  <2>1. k \in Int /\ tx_in \in Int /\ tx_next \in Int /\ tx_in <= k /\ k <= tx_in + n - 1
    BY <1>2, <1>3, UartParameters DEF Slot, CharNumbers
  <2>2. k - tx_in + 1 \in 1 .. n /\ tx_next + (k - tx_in + 1) - 1 = tx_next + k - tx_in
    BY <1>2, <2>1
  <2>3. s[k - tx_in + 1] = (tx_next + (k - tx_in + 1) - 1) % Numbers
    BY <1>6, <2>2
  <2>4. tx_buf[k] = (tx_next + k - tx_in) % Numbers
    BY <1>2
  <2> QED
    BY <2>2, <2>3, <2>4
<1>8. Contents(tx_buf, tx_in', tx_out) = C \o s
  <2>1. Fits(tx_in, tx_out, s)
    BY <1>2, <1>6 DEF Fits, u
  <2>2. Fills(tx_buf, tx_buf, tx_in, s)
    BY <1>6, <1>7 DEF Fills
  <2>3. Contents(tx_buf, After(tx_in, s), tx_out) = Contents(tx_buf, tx_in, tx_out) \o s
    BY <1>3, <1>6, <2>1, <2>2, RingGrows
  <2>4. After(tx_in, s) = tx_in'
    BY <1>5, <1>6 DEF After
  <2> QED
    BY <2>3, <2>4 DEF C
<1>9. txfifo \o (C \o s) = (txfifo \o C) \o s
  BY <1>3, <1>6, ConcatAssociative
<1>10. Outgoing' = (txfifo \o C) \o s
  <2>1. Outgoing' = txfifo' \o Contents(tx_buf', tx_in', tx_out')
    BY DEF Outgoing
  <2> QED
    BY <1>1, <1>5, <1>8, <1>9, <2>1
<1>11. n \in 1 .. (BUF_LEN - 1 + FifoLen) - Len(txfifo \o C)
  <2>1. Len(txfifo \o C) = Len(txfifo) + Len(C)
    BY <1>3, ConcatProperties
  <2>2. n \in Nat /\ n >= 1 /\ n + u <= BUF_LEN - 1 /\ Len(C) = u
    BY <1>2, <1>3
  <2>3. BUF_LEN \in Nat /\ FifoLen \in Nat
    BY UartParameters
  <2>4. Len(txfifo \o C) = Len(txfifo) + u
    BY <2>1, <2>2
  <2> QED
    BY <1>4, <2>2, <2>3, <2>4
<1>12. ToHost!Put
  <2>1. \E k \in 1 .. (BUF_LEN - 1 + FifoLen) - Len(txfifo \o C) :
          /\ Outgoing' = (txfifo \o C) \o ToHost!Run(tx_next, k)
          /\ tx_next' = (tx_next + k) % Numbers
    BY <1>5, <1>10, <1>11, Zenon DEF s
  <2> QED
    BY <2>1, Zenon DEF ToHost!Put, Outgoing, C
<1> QED
  BY <1>1, <1>12

\* The reader takes the oldest characters out.
LEMMA ReaderGets ==
  ASSUME JtagUartAssumption, UartInv, ReadAdvance
  PROVE  ToProgram!Get /\ UNCHANGED <<Outgoing, tx_next>>
<1> DEFINE C == Contents(rx_buf, rx_in, rx_out)
           u == Used(rx_in, rx_out)
<1>1. UNCHANGED <<Outgoing, tx_next, rxfifo, rx_buf, rx_in, rx_next>>
  BY DEF ReadAdvance, Outgoing, tx, device
<1>2. out = rx_out /\ n \in Nat /\ n >= 1 /\ n <= u
  BY DEF ReadAdvance, UartInv, ReaderKnows, UartTypeOK, TypeOK
<1>3. /\ C \in Seq(CharNumbers) /\ Len(C) = u /\ rxfifo \in Seq(CharNumbers)
      /\ rx_in \in Slot /\ rx_out \in Slot /\ rx_buf \in [Slot -> CharNumbers]
  BY RingsAre
<1>4. u \in 0 .. BUF_LEN - 1 /\ Len(rxfifo) \in 0 .. FifoLen
  BY UartTyped DEF UartInv
<1>5. rx_out' = (rx_out + n) % BUF_LEN
  BY <1>2 DEF ReadAdvance
<1>6. n \in 0 .. u
  BY <1>2, <1>4
<1>7. Contents(rx_buf, rx_in, (rx_out + n) % BUF_LEN) = SubSeq(C, n + 1, Len(C))
  BY <1>3, <1>6, RingShrinks
<1> HIDE DEF C, u
<1>8. /\ Len(C \o rxfifo) = Len(C) + Len(rxfifo)
      /\ SubSeq(C, n + 1, Len(C)) \o rxfifo = SubSeq(C \o rxfifo, n + 1, Len(C \o rxfifo))
  <2>1. n \in 0 .. Len(C)
    BY <1>3, <1>6
  <2> QED
    BY <1>3, <2>1, OldestLeave
<1>9. Incoming' = SubSeq(C \o rxfifo, n + 1, Len(C \o rxfifo))
  <2>1. Incoming' = Contents(rx_buf', rx_in', rx_out') \o rxfifo'
    BY DEF Incoming
  <2> QED
    BY <1>1, <1>5, <1>7, <1>8, <2>1
<1>10. n \in 1 .. Len(C \o rxfifo)
  BY <1>2, <1>3, <1>4, <1>8
<1>11. ToProgram!Get
  BY <1>1, <1>9, <1>10 DEF ToProgram!Get, Incoming, C
<1> QED
  BY <1>1, <1>11

\* A step of nobody else moves a character.
LEMMA OthersMoveNothing ==
  ASSUME \/ Write \/ WriteSpace \/ WriteEnable \/ WriteSpin
         \/ Read \/ ReadSpace \/ ReadCopy \/ ReadSpin \/ ReadEnable
         \/ Close \/ CloseSpin \/ SetTimeout
         \/ Interrupt \/ IsrControl \/ IsrRxEnd \/ IsrTxEnd \/ Timeout \/ UNCHANGED vars
  PROVE  UNCHANGED <<Incoming, rx_next, Outgoing, tx_next>>
<1>1. UNCHANGED <<tx, rx, txfifo, rxfifo, rx_next>>
  BY DEF Write, WriteSpace, WriteEnable, WriteSpin, Read, ReadSpace, ReadCopy, ReadSpin,
         ReadEnable, Close, CloseSpin, SetTimeout, Interrupt, IsrControl, IsrRxEnd, IsrTxEnd,
         Timeout, Call, vars, device
<1> QED
  BY <1>1 DEF Incoming, Outgoing, tx, rx

\* For every size of the ring and of the FIFOs: what is written comes to the host, and what
\* the host sends comes to the program, once and in order, with the routine running
\* between any two steps of the program.
THEOREM UartDelivers ==
  ASSUME JtagUartAssumption
  PROVE  Spec => ToHost!Spec /\ ToProgram!Spec
<1>1. Init => ToHost!Init /\ ToProgram!Init
  <2> SUFFICES ASSUME Init PROVE ToHost!Init /\ ToProgram!Init
    OBVIOUS
  <2>1. UartInv /\ tx_in = 0 /\ tx_out = 0 /\ rx_in = 0 /\ rx_out = 0
    BY UartStarts DEF Init
  <2>2. Used(0, 0) = 0 /\ txfifo = <<>> /\ rxfifo = <<>> /\ tx_next = 0 /\ rx_next = 0
    BY <2>1, UartTyped DEF Init, UartInv
  <2>3. /\ Contents(tx_buf, tx_in, tx_out) = <<>>
        /\ Contents(rx_buf, rx_in, rx_out) = <<>>
    BY <2>1, <2>2, RingsAre, EmptySeq
  <2>4. <<>> \o <<>> = <<>> /\ 0 \in 0 .. Numbers - 1
    BY UartParameters
  <2> QED
    BY <2>2, <2>3, <2>4 DEF ToHost!Init, ToProgram!Init
<1>2. UartInv /\ [Next]_vars =>
        /\ [ToHost!Next]_<<Outgoing, tx_next>>
        /\ [ToProgram!Next]_<<Incoming, rx_next>>
  <2> SUFFICES ASSUME UartInv, [Next]_vars
               PROVE  /\ [ToHost!Next]_<<Outgoing, tx_next>>
                      /\ [ToProgram!Next]_<<Incoming, rx_next>>
    OBVIOUS
  <2>1. CASE HostTakes
    BY <2>1, HostGets DEF ToHost!Next
  <2>2. CASE HostSends
    BY <2>2, HostPuts DEF ToProgram!Next
  <2>3. CASE IsrRx
    BY <2>3, RoutineReceives
  <2>4. CASE IsrTx
    BY <2>4, RoutineSends
  <2>5. CASE WriteCopy
    BY <2>5, WriterHides
  <2>6. CASE WriteAdvance
    BY <2>6, WriterPuts DEF ToHost!Next
  <2>7. CASE ReadAdvance
    BY <2>7, ReaderGets DEF ToProgram!Next
  <2>8. CASE \/ Write \/ WriteSpace \/ WriteEnable \/ WriteSpin
             \/ Read \/ ReadSpace \/ ReadCopy \/ ReadSpin \/ ReadEnable
             \/ Close \/ CloseSpin \/ SetTimeout
             \/ Interrupt \/ IsrControl \/ IsrRxEnd \/ IsrTxEnd \/ Timeout \/ UNCHANGED vars
    BY <2>8, OthersMoveNothing
  <2> QED
    BY <2>1, <2>2, <2>3, <2>4, <2>5, <2>6, <2>7, <2>8
    DEF Next, Caller, Routine, Device
<1> QED
  BY <1>1, <1>2, UartSafe, PTL DEF Spec, ToHost!Spec, ToProgram!Spec, Outgoing, Incoming

-----------------------------------------------------------------------------
(* Start-up: from a reset at any moment to the entry of alt_main.          *)

Value == Word \cup {Zero, Junk, Isr}
CacheLine == [word : Word \cup {-1}, value : Value, dirty : BOOLEAN]
DPlaces == 0 .. DCACHE_WORDS - 1
IPlaces == 0 .. ICACHE_WORDS - 1
Stages == {"initi", "initd", "bss", "load", "dflush", "iflush", "loaded", "alt_main",
           "sys_init", "enable", "ctors", "main", "dtors", "exit"}

StartTypeOK ==
    /\ memory \in [Word -> Value]
    /\ data_cache \in [DPlaces -> CacheLine] /\ code_cache \in [IPlaces -> CacheLine]
    /\ stage \in Stages /\ r2 \in Int /\ section \in 1 .. Len(Sections) + 1
    /\ status_pie \in BOOLEAN /\ ienable \in BOOLEAN /\ line \in BOOLEAN /\ resets \in Nat

\* How far the counter of each loop gets.
Counters ==
    /\ stage = "initd" => r2 \in 1 .. DCACHE_WORDS
    /\ stage = "bss" => r2 \in Bss
    /\ stage = "load" /\ section <= Len(Sections) =>
         LET s == Sections[section]
         IN  r2 \in 0 .. s.end - s.to /\ (s.from = s.to => r2 = 0)
    /\ stage \in {"dflush", "iflush"} => r2 \in Nat

\* What the program may write to.
Own == Data \cup Bss

\* The data cache's places that crt0.S has been at since the reset.
Swept(p) ==
    /\ stage # "initi"
    /\ stage = "initd" => \E k \in r2 + 1 .. DCACHE_WORDS : p = DataPlace(k)

\* A line of a swept place was written since the reset, to where it may be written.
Settled(p) ==
    \/ data_cache[p] = Empty
    \/ data_cache[p].word \in Own /\ DataPlace(data_cache[p].word) = p /\ data_cache[p].dirty
Sweeping == \A p \in DPlaces : Swept(p) => Settled(p)

\* Nothing is written back from the cache of before the reset, so that images stay.
ImagesStay == \A w \in Word \ Own : memory[w] = w

\* The bss and the sections, word by word.
Clearing ==
    /\ stage = "bss" => \A w \in BssStart .. r2 - 1 : Seen(w) = Zero
    /\ stage = "load" => \A w \in Bss : Seen(w) = Zero
Loading ==
    stage = "load" =>
        \A i \in 1 .. Len(Sections) : \A w \in Copied(Sections[i]) :
            i < section \/ (i = section /\ w < Sections[i].to + r2) =>
                Seen(w) = ImageIn(Sections[i], w)

\* From then on every word is right, in memory too once the flush has been there.
AllFresh ==
    /\ stage \in {"dflush", "iflush", "loaded", "alt_main"} =>
         \A w \in Word : Seen(w) = Fresh(w)
    /\ stage \in {"dflush", "iflush", "loaded", "alt_main"} =>
         \A p \in DPlaces : stage # "dflush" \/ p < r2 => data_cache[p] = Empty
    /\ stage \in {"iflush", "loaded", "alt_main"} =>
         \A w \in Code :
            (stage # "iflush" \/ CodePlace(w) < r2) /\ code_cache[CodePlace(w)].word = w =>
                code_cache[CodePlace(w)].value = Fresh(w)

\* Interrupts are off, in one way or another, until the handler is in the table.
Quiet ==
    /\ stage \notin {"sys_init", "ctors", "main", "dtors", "exit"} => ~status_pie
    /\ stage = "sys_init" => ~ienable
    /\ stage \in {"enable", "ctors", "main", "dtors", "exit"} => Seen(Handler) = Isr

StartInv ==
    /\ StartTypeOK /\ Counters /\ Sweeping /\ ImagesStay
    /\ Clearing /\ Loading /\ AllFresh /\ Quiet

-----------------------------------------------------------------------------
(* The layout of memory.                                                   *)

LEMMA PlacesExist ==
  ASSUME StartAssumption
  PROVE  \A w \in Int : DataPlace(w) \in DPlaces /\ CodePlace(w) \in IPlaces
  BY SMT DEF StartAssumption, DataPlace, CodePlace, DPlaces, IPlaces

\* The place of address 0 is that of the size, so that the loop over 1 .. DCACHE_WORDS is at each.
LEMMA WrapsOnce ==
  ASSUME StartAssumption, NEW p \in DPlaces
  PROVE  \E k \in 1 .. DCACHE_WORDS : p = DataPlace(k)
<1>1. CASE p = 0
  <2>1. DCACHE_WORDS \in 1 .. DCACHE_WORDS /\ p = DataPlace(DCACHE_WORDS)
    BY <1>1, SMT DEF StartAssumption, DataPlace
  <2> QED
    BY <2>1
<1>2. CASE p # 0
  <2>1. p \in 1 .. DCACHE_WORDS /\ p = DataPlace(p)
    BY <1>2, SMT DEF StartAssumption, DataPlace, DPlaces
  <2> QED
    BY <2>1
<1> QED
  BY <1>1, <1>2

LEMMA SectionsAre ==
  ASSUME StartAssumption, NEW i \in 1 .. Len(Sections)
  PROVE  /\ Len(Sections) \in Nat /\ Sections[i] \in [from : Nat, to : Nat, end : Nat]
         /\ Sections[i].to <= Sections[i].end /\ Sections[i].end <= BssStart
         /\ Copied(Sections[i]) \subseteq Data
         /\ \A w \in Copied(Sections[i]) : ImageIn(Sections[i], w) \in Word \ Own
<1>1. Len(Sections) \in Nat /\ Sections[i] \in [from : Nat, to : Nat, end : Nat]
  <2>1. Sections \in Seq([from : Nat, to : Nat, end : Nat])
    BY DEF StartAssumption
  <2> QED
    BY <2>1, ElementOfSeq, LenProperties
<1>2. Sections[i].to <= Sections[i].end /\ Sections[i].end <= BssStart
  BY DEF StartAssumption
<1>3. Copied(Sections[i]) \subseteq Data
  BY DEF Data
<1>4. {ImageIn(Sections[i], w) : w \in Copied(Sections[i])} \subseteq Word \ (Data \cup Bss)
  BY DEF StartAssumption
<1> QED
  BY <1>1, <1>2, <1>3, <1>4 DEF Own

LEMMA OwnIsMemory ==
  ASSUME StartAssumption
  PROVE  /\ Own \subseteq Word /\ Data \cap Bss = {} /\ Handler \in Bss
         /\ Word \subseteq Nat /\ Own \subseteq Nat /\ Code \subseteq Word
<1>1. \A w \in Bss : w \in Word /\ w >= BssStart
  BY SMT DEF StartAssumption, Bss, Word
<1>2. ASSUME NEW w \in Data PROVE w \in Word /\ w < BssStart
  <2>1. PICK i \in 1 .. Len(Sections) : w \in Copied(Sections[i])
    BY DEF Data
  <2>2. w \in Sections[i].to .. Sections[i].end - 1
    BY <2>1 DEF Copied
  <2>3. /\ Sections[i] \in [from : Nat, to : Nat, end : Nat]
        /\ Sections[i].to <= Sections[i].end /\ Sections[i].end <= BssStart
    BY SectionsAre
  <2> QED
    BY <2>2, <2>3, SMT DEF StartAssumption, Word
<1>3. Handler \in Bss /\ Code \subseteq Word /\ Words \in Nat /\ BssStart \in Nat
  BY DEF StartAssumption
<1> QED
  BY <1>1, <1>2, <1>3, SMT DEF Own, Word

\* Sections do not overlap, so that a word has one image.
LEMMA OneImage ==
  ASSUME StartAssumption, NEW i \in 1 .. Len(Sections), NEW w \in Copied(Sections[i])
  PROVE  ImageOf(w) = ImageIn(Sections[i], w)
<1> DEFINE s == CHOOSE s \in {Sections[j] : j \in 1 .. Len(Sections)} : w \in Copied(s)
<1>1. s \in {Sections[j] : j \in 1 .. Len(Sections)} /\ w \in Copied(s)
  OBVIOUS
<1>2. PICK j \in 1 .. Len(Sections) : s = Sections[j]
  BY <1>1
<1>3. j = i
  <2> SUFFICES ASSUME j # i PROVE FALSE
    OBVIOUS
  <2>1. Copied(Sections[i]) \cap Copied(Sections[j]) = {}
    BY DEF StartAssumption
  <2> QED
    BY <1>1, <1>2, <2>1
<1> QED
  BY <1>2, <1>3 DEF ImageOf

LEMMA FreshIs ==
  ASSUME StartAssumption
  PROVE  /\ \A w \in Word : Fresh(w) \in Value
         /\ \A w \in Word \ Own : Fresh(w) = w
         /\ \A w \in Bss : Fresh(w) = Zero
         /\ \A i \in 1 .. Len(Sections) : \A w \in Copied(Sections[i]) :
              Fresh(w) = ImageIn(Sections[i], w)
<1>1. ASSUME NEW i \in 1 .. Len(Sections), NEW w \in Copied(Sections[i])
      PROVE  Fresh(w) = ImageIn(Sections[i], w) /\ Fresh(w) \in Word
  <2>1. w \in Data /\ w \notin Bss
    BY SectionsAre, OwnIsMemory
  <2> QED
    BY <2>1, SectionsAre, OneImage DEF Fresh
<1>2. \A w \in Data : \E i \in 1 .. Len(Sections) : w \in Copied(Sections[i])
  BY DEF Data
<1> QED
  BY <1>1, <1>2 DEF Fresh, Own, Value

-----------------------------------------------------------------------------
(* The caches.                                                             *)

LEMMA EmptyIsALine == Empty \in CacheLine
  BY DEF Empty, CacheLine, Value

\* What the data cache and the memory show when all lines are the program's own.
Clean == \A p \in DPlaces : Settled(p)

LEMMA CleanIs == StartInv /\ stage \notin {"initi", "initd"} => Clean
  BY DEF StartInv, Sweeping, Swept, Clean

\* A line that is written back is seen as before.
LEMMA WrittenBack ==
  ASSUME StartAssumption, StartTypeOK, Clean, NEW p \in DPlaces
  PROVE  /\ Evicted(p) \in [Word -> Value]
         /\ \A x \in Word \ Own : Evicted(p)[x] = memory[x]
         /\ \A x \in Word : Evicted(p)[x] =
              IF data_cache[p].word = x THEN data_cache[p].value ELSE memory[x]
<1>1. data_cache[p] \in CacheLine /\ Settled(p) /\ memory \in [Word -> Value]
  BY DEF StartTypeOK, Clean
<1>2. CASE data_cache[p] = Empty
  <2>1. Evicted(p) = memory /\ data_cache[p].word = -1
    BY <1>2 DEF Evicted, Empty
  <2>2. \A x \in Word : x # -1
    BY OwnIsMemory, SMT
  <2> QED
    BY <1>1, <2>1, <2>2
<1>3. CASE data_cache[p].word \in Own /\ data_cache[p].dirty
  <2>1. Evicted(p) = [memory EXCEPT ![data_cache[p].word] = data_cache[p].value]
    BY <1>3 DEF Evicted
  <2>2. data_cache[p].word \in Word /\ data_cache[p].value \in Value
    BY <1>1, <1>3, OwnIsMemory DEF CacheLine
  <2> QED
    BY <1>1, <1>3, <2>1, <2>2
<1> QED
  BY <1>1, <1>2, <1>3 DEF Settled

\* A store is seen at its word, and nowhere else.
LEMMA StoreIsSeen ==
  ASSUME StartAssumption, StartTypeOK, Clean, NEW w \in Own, NEW v \in Value, StoreWord(w, v)
  PROVE  /\ memory' \in [Word -> Value] /\ data_cache' \in [DPlaces -> CacheLine]
         /\ Clean'
         /\ \A x \in Word \ Own : memory'[x] = memory[x]
         /\ \A x \in Word : Seen(x)' = IF x = w THEN v ELSE Seen(x)
<1> DEFINE p == DataPlace(w)
           new == [word |-> w, value |-> v, dirty |-> TRUE]
<1>1. w \in Word /\ p \in DPlaces /\ Own \subseteq Word /\ Word \subseteq Nat
  BY OwnIsMemory, PlacesExist
<1>2. new \in CacheLine /\ memory \in [Word -> Value] /\ data_cache \in [DPlaces -> CacheLine]
  BY <1>1 DEF CacheLine, StartTypeOK
<1>3. data_cache' = [data_cache EXCEPT ![p] = new]
  BY DEF StoreWord
<1>4. data_cache' \in [DPlaces -> CacheLine] /\ data_cache'[p] = new
      /\ \A q \in DPlaces : q # p => data_cache'[q] = data_cache[q]
  BY <1>1, <1>2, <1>3
<1>5. /\ memory' \in [Word -> Value]
      /\ \A x \in Word \ Own : memory'[x] = memory[x]
      /\ \A x \in Word : data_cache[p].word # x => memory'[x] = memory[x]
      /\ \A x \in Word : x # w /\ data_cache[p].word = x => memory'[x] = data_cache[p].value
  <2>1. CASE InDCache(w)
    BY <1>2, <2>1 DEF StoreWord, InDCache
  <2>2. CASE ~InDCache(w)
    BY <1>1, <2>2, WrittenBack DEF StoreWord
  <2> QED
    BY <2>1, <2>2
<1>6. Clean'
  <2> SUFFICES ASSUME NEW q \in DPlaces PROVE Settled(q)'
    BY DEF Clean, DPlaces
  <2>1. CASE q = p
    BY <1>4, <2>1 DEF Settled
  <2>2. CASE q # p
    BY <1>4, <2>2 DEF Settled, Clean
  <2> QED
    BY <2>1, <2>2
<1>7. ASSUME NEW x \in Word PROVE Seen(x)' = IF x = w THEN v ELSE Seen(x)
  <2>0. DataPlace(x) \in DPlaces /\ DataPlace(x)' = DataPlace(x)
    BY <1>1, PlacesExist DEF DataPlace
  <2>1. CASE x = w
    BY <1>4, <2>1 DEF Seen, InDCache
  <2>2. CASE x # w /\ DataPlace(x) # p
    <3>1. Settled(p)
      BY <1>1 DEF Clean
    <3>2. data_cache[p].word # x
      BY <1>1, <2>2, <3>1 DEF Settled, Empty
    <3> QED
      BY <1>4, <1>5, <2>0, <2>2, <3>2 DEF Seen, InDCache
  <2>3. CASE x # w /\ DataPlace(x) = p
    <3>1. Seen(x)' = memory'[x]
      BY <1>4, <2>3 DEF Seen, InDCache
    <3> QED
      BY <1>5, <2>3, <3>1 DEF Seen, InDCache
  <2> QED
    BY <2>1, <2>2, <2>3
<1> QED
  BY <1>4, <1>5, <1>6, <1>7

\* A flush of one place changes nothing of what is seen.
LEMMA FlushIsNotSeen ==
  ASSUME StartAssumption, StartTypeOK, Clean, NEW p \in DPlaces,
         memory' = Evicted(p), data_cache' = [data_cache EXCEPT ![p] = Empty]
  PROVE  /\ memory' \in [Word -> Value] /\ data_cache' \in [DPlaces -> CacheLine]
         /\ Clean'
         /\ \A x \in Word \ Own : memory'[x] = memory[x]
         /\ \A x \in Word : Seen(x)' = Seen(x)
<1>1. Empty \in CacheLine /\ Own \subseteq Word /\ Word \subseteq Nat
      /\ data_cache \in [DPlaces -> CacheLine]
  BY OwnIsMemory, EmptyIsALine DEF StartTypeOK
<1>2. data_cache' \in [DPlaces -> CacheLine] /\ data_cache'[p] = Empty
      /\ \A q \in DPlaces : q # p => data_cache'[q] = data_cache[q]
  BY <1>1
<1>3. Clean'
  <2> SUFFICES ASSUME NEW q \in DPlaces PROVE Settled(q)'
    BY DEF Clean, DPlaces
  <2> QED
    BY <1>2 DEF Settled, Clean
<1>4. ASSUME NEW x \in Word PROVE Seen(x)' = Seen(x)
  <2>0. DataPlace(x) \in DPlaces /\ x # -1
    BY <1>1, PlacesExist, SMT
  <2>1. CASE DataPlace(x) # p
    <3>1. Settled(p)
      BY DEF Clean
    <3>2. data_cache[p].word # x
      BY <2>0, <2>1, <3>1 DEF Settled, Empty
    <3> QED
      BY <1>2, <2>0, <2>1, <3>2, WrittenBack DEF Seen, InDCache
  <2>2. CASE DataPlace(x) = p
    <3>1. Seen(x)' = memory'[x]
      BY <1>2, <2>0, <2>2 DEF Seen, InDCache, Empty
    <3> QED
      BY <2>2, <3>1, WrittenBack DEF Seen, InDCache
  <2> QED
    BY <2>1, <2>2
<1> QED
  BY <1>2, <1>3, <1>4, WrittenBack

-----------------------------------------------------------------------------
(* The steps of crt0.S and alt_load.                                       *)

LEMMA StartStarts == StartAssumption /\ StartInit => StartInv
<1> SUFFICES ASSUME StartAssumption, StartInit PROVE StartInv
  OBVIOUS
<1>1. stage = "initi" /\ r2 = ICACHE_WORDS /\ section = 1 /\ ~status_pie /\ Len(Sections) \in Nat
      /\ ICACHE_WORDS \in Nat
  <2>1. Sections \in Seq([from : Nat, to : Nat, end : Nat])
    BY DEF StartAssumption
  <2> QED
    BY <2>1, LenProperties DEF StartInit, StartAssumption
<1>2. memory \in [Word -> Value] /\ ImagesStay
  BY DEF StartInit, Value, ImagesStay, Own
<1>3. data_cache \in [DPlaces -> CacheLine]
  <2>1. [word : Word, value : {Junk}, dirty : {TRUE}] \subseteq CacheLine
    BY DEF CacheLine, Value
  <2> QED
    BY <2>1, EmptyIsALine DEF StartInit, DPlaces
<1>4. code_cache \in [IPlaces -> CacheLine]
  <2>1. [word : Code, value : {Junk}, dirty : {FALSE}] \subseteq CacheLine
    BY OwnIsMemory DEF CacheLine, Value
  <2> QED
    BY <2>1, EmptyIsALine DEF StartInit, IPlaces
<1>5. StartTypeOK
  <2>1. r2 \in Int /\ section \in 1 .. Len(Sections) + 1 /\ resets \in Nat /\ stage \in Stages
    BY <1>1, SMT DEF StartInit, Stages
  <2>2. status_pie \in BOOLEAN /\ ienable \in BOOLEAN /\ line \in BOOLEAN
    BY DEF StartInit
  <2> QED
    BY <1>2, <1>3, <1>4, <2>1, <2>2 DEF StartTypeOK
<1> QED
  BY <1>1, <1>2, <1>5
     DEF StartInv, Counters, Sweeping, Swept, Clearing, Loading, AllFresh, Quiet

LEMMA InitICacheKeeps == StartAssumption /\ StartInv /\ InitICache => StartInv'
<1> SUFFICES ASSUME StartAssumption, StartInv, InitICache PROVE StartInv'
  OBVIOUS
<1>1. StartTypeOK /\ ImagesStay /\ Quiet /\ stage = "initi"
  BY DEF StartInv, InitICache, At
<1>2. UNCHANGED <<memory, data_cache, section, status_pie, ienable, line, resets>>
  BY DEF InitICache, At, irqs
<1>3. \/ stage' = "initi" /\ r2' = r2 - 1
      \/ stage' = "initd" /\ r2' = DCACHE_WORDS
  BY DEF InitICache, Goto
<1>4. r2 \in Int /\ DCACHE_WORDS \in Nat \ {0} /\ Empty \in CacheLine
  BY <1>1, EmptyIsALine DEF StartTypeOK, StartAssumption
<1>5. code_cache' \in [IPlaces -> CacheLine]
  BY <1>1, <1>4 DEF InitICache, StartTypeOK
<1>6. StartTypeOK'
  BY <1>1, <1>2, <1>3, <1>4, <1>5 DEF StartTypeOK, Stages
<1>7. Sweeping' /\ Counters'
  BY <1>3, <1>4, SMT DEF Sweeping, Swept, Counters
<1>8. ImagesStay'
  BY <1>1, <1>2 DEF ImagesStay
<1> QED
  BY <1>1, <1>2, <1>3, <1>6, <1>7, <1>8 DEF StartInv, Clearing, Loading, AllFresh, Quiet

\* Entered with a place or none of the bss cleared, and no section copied.
LEMMA LoadStarts ==
  ASSUME StartAssumption, section' = 1, r2' = 0, stage' = "load"
  PROVE  Counters' /\ Loading'
<1>1. Counters'
  <2> SUFFICES ASSUME 1 <= Len(Sections)
               PROVE  0 \in 0 .. Sections[1].end - Sections[1].to
    BY DEF Counters
  <2>1. Sections[1] \in [from : Nat, to : Nat, end : Nat] /\ Sections[1].to <= Sections[1].end
    <3>1. Len(Sections) \in Nat
      BY LenProperties DEF StartAssumption
    <3> QED
      BY <3>1, SectionsAre
  <2> QED
    BY <2>1, SMT
<1>2. Loading'
  <2> SUFFICES ASSUME NEW i \in 1 .. Len(Sections), NEW w \in Copied(Sections[i])
               PROVE  ~(i < 1) /\ ~(i = 1 /\ w < Sections[i].to + 0)
    BY DEF Loading
  <2>1. w \in Sections[i].to .. Sections[i].end - 1
    BY DEF Copied
  <2>2. Sections[i] \in [from : Nat, to : Nat, end : Nat]
    BY SectionsAre
  <2> QED
    BY <2>1, <2>2, SMT
<1> QED
  BY <1>1, <1>2

LEMMA InitDCacheKeeps == StartAssumption /\ StartInv /\ InitDCache => StartInv'
<1> SUFFICES ASSUME StartAssumption, StartInv, InitDCache PROVE StartInv'
  OBVIOUS
<1>1. /\ StartTypeOK /\ ImagesStay /\ Quiet /\ Sweeping /\ stage = "initd"
      /\ r2 \in 1 .. DCACHE_WORDS
  BY DEF StartInv, Counters, InitDCache, At
<1>2. UNCHANGED <<memory, code_cache, section, status_pie, ienable, line, resets>>
  BY DEF InitDCache, At, irqs
<1>3. /\ DCACHE_WORDS \in Nat /\ BssStart \in Nat /\ BssStart \in Bss /\ BssStart # BssEnd
      /\ Empty \in CacheLine /\ DataPlace(r2) \in DPlaces
  <2>1. DCACHE_WORDS \in Nat /\ BssStart \in Nat /\ BssEnd \in Int /\ Handler \in Bss
    BY DEF StartAssumption
  <2>2. BssStart \in Bss /\ BssStart # BssEnd
    BY <2>1, SMT DEF Bss
  <2> QED
    BY <1>1, <2>1, <2>2, PlacesExist, EmptyIsALine
<1>4. \/ stage' = "initd" /\ r2' = r2 - 1 /\ r2 > 1
      \/ stage' = "bss" /\ r2' = BssStart /\ r2 = 1
  BY <1>1, <1>3, SMT DEF InitDCache, Goto, AfterInitD
<1>5. /\ data_cache' \in [DPlaces -> CacheLine] /\ data_cache'[DataPlace(r2)] = Empty
      /\ \A p \in DPlaces : p # DataPlace(r2) => data_cache'[p] = data_cache[p]
  BY <1>1, <1>3 DEF InitDCache, StartTypeOK
<1>6. StartTypeOK'
  <2>1. stage' \in Stages /\ r2' \in Int
    BY <1>1, <1>3, <1>4 DEF Stages
  <2> QED
    BY <1>1, <1>2, <1>5, <2>1 DEF StartTypeOK
<1>7. Counters'
  BY <1>1, <1>3, <1>4, SMT DEF Counters
<1>8. Sweeping'
  <2> SUFFICES ASSUME NEW p \in DPlaces, Swept(p)' PROVE Settled(p)'
    BY DEF Sweeping, DPlaces
  <2>1. p = DataPlace(r2) \/ Swept(p)
    <3>1. CASE stage' = "initd"
      <4>1. PICK k \in r2' + 1 .. DCACHE_WORDS : p = DataPlace(k)
        BY <3>1 DEF Swept, DataPlace
      <4>2. k = r2 \/ k \in r2 + 1 .. DCACHE_WORDS
        BY <1>1, <1>3, <1>4, <3>1, SMT
      <4> QED
        BY <1>1, <4>1, <4>2 DEF Swept
    <3>2. CASE stage' = "bss"
      <4>1. PICK k \in 1 .. DCACHE_WORDS : p = DataPlace(k)
        BY <1>3, WrapsOnce
      <4>2. k = r2 \/ k \in r2 + 1 .. DCACHE_WORDS
        BY <1>1, <1>3, <1>4, <3>2, SMT
      <4> QED
        BY <1>1, <4>1, <4>2 DEF Swept
    <3> QED
      BY <1>4, <3>1, <3>2
  <2>2. CASE p = DataPlace(r2)
    BY <1>5, <2>2 DEF Settled
  <2>3. CASE p # DataPlace(r2)
    BY <1>1, <1>5, <2>1, <2>3 DEF Settled, Sweeping
  <2> QED
    BY <2>2, <2>3
<1>9. ImagesStay'
  BY <1>1, <1>2 DEF ImagesStay
<1>10. Clearing'
  BY <1>1, <1>3, <1>4, SMT DEF Clearing
<1> QED
  BY <1>1, <1>2, <1>4, <1>6, <1>7, <1>8, <1>9, <1>10 DEF StartInv, Loading, AllFresh, Quiet

LEMMA ClearBssKeeps == StartAssumption /\ StartInv /\ ClearBss => StartInv'
<1> SUFFICES ASSUME StartAssumption, StartInv, ClearBss PROVE StartInv'
  OBVIOUS
<1>1. /\ StartTypeOK /\ ImagesStay /\ Quiet /\ Clean /\ stage = "bss" /\ r2 \in Bss
      /\ \A w \in BssStart .. r2 - 1 : Seen(w) = Zero
  BY CleanIs DEF StartInv, Counters, Clearing, ClearBss, At
<1>2. UNCHANGED <<code_cache, status_pie, ienable, line, resets>> /\ section' = 1
  BY DEF ClearBss, At, irqs
<1>3. /\ BssStart \in Nat /\ BssEnd \in Nat /\ Bss \subseteq Own /\ Bss \subseteq Word
      /\ Len(Sections) \in Nat
  <2>1. BssStart \in Nat /\ BssEnd \in BssStart .. Words
        /\ Sections \in Seq([from : Nat, to : Nat, end : Nat])
    BY DEF StartAssumption
  <2>2. Len(Sections) \in Nat
    BY <2>1, LenProperties
  <2> QED
    BY <2>1, <2>2, OwnIsMemory, SMT DEF Own
<1>4. \/ stage' = "bss" /\ r2' = r2 + 1 /\ r2 + 1 \in Bss
      \/ stage' = "load" /\ r2' = 0 /\ r2 + 1 = BssEnd
  BY <1>1, <1>3, SMT DEF ClearBss, Goto, Bss
<1>5. /\ memory' \in [Word -> Value] /\ data_cache' \in [DPlaces -> CacheLine]
      /\ Clean'
      /\ \A x \in Word \ Own : memory'[x] = memory[x]
      /\ \A x \in Word : Seen(x)' = IF x = r2 THEN Zero ELSE Seen(x)
  <2>1. StoreWord(r2, Zero) /\ r2 \in Own /\ Zero \in Value
    BY <1>1, <1>3 DEF ClearBss, Value
  <2> QED
    BY <1>1, <2>1, StoreIsSeen
<1>6. StartTypeOK'
  <2>1. stage' \in Stages /\ r2' \in Int
    BY <1>3, <1>4, SMT DEF Stages, Bss
  <2>2. section' \in 1 .. Len(Sections) + 1
    BY <1>2, <1>3, SMT
  <2> QED
    BY <1>1, <1>2, <1>5, <2>1, <2>2 DEF StartTypeOK
<1>7. Counters' /\ Loading'
  <2>1. CASE stage' = "bss"
    BY <1>4, <2>1 DEF Counters, Loading
  <2>2. CASE stage' = "load"
    BY <1>2, <1>4, <2>2, LoadStarts
  <2> QED
    BY <1>4, <2>1, <2>2
<1>8. Sweeping'
  BY <1>5 DEF Sweeping, Clean
<1>9. ImagesStay'
  BY <1>1, <1>5 DEF ImagesStay
<1>10. Clearing'
  <2>1. ASSUME NEW w \in Word, w \in BssStart .. r2 PROVE Seen(w)' = Zero
    <3>1. w = r2 \/ w \in BssStart .. r2 - 1
      BY <1>1, <1>3, <2>1, SMT DEF Bss
    <3> QED
      BY <1>1, <1>5, <2>1, <3>1
  <2>2. BssStart .. r2 \subseteq Word
    BY <1>1, <1>3, SMT DEF Bss
  <2>3. stage' = "bss" => BssStart .. r2' - 1 = BssStart .. r2
    BY <1>1, <1>3, <1>4, SMT DEF Bss
  <2>4. stage' = "load" => Bss = BssStart .. r2
    BY <1>1, <1>3, <1>4, SMT DEF Bss
  <2> QED
    BY <1>4, <2>1, <2>2, <2>3, <2>4 DEF Clearing
<1> QED
  BY <1>1, <1>2, <1>4, <1>6, <1>7, <1>8, <1>9, <1>10 DEF StartInv, AllFresh, Quiet

\* The image is outside of what is written to, so that the word read is as it was linked.
LEMMA CopiesImage ==
  ASSUME StartAssumption, StartInv, stage = "load", section <= Len(Sections),
         NEW k \in Nat, Sections[section].to + k < Sections[section].end,
         Sections[section].from # Sections[section].to
  PROVE  /\ Sections[section].to + k \in Copied(Sections[section])
         /\ Seen(Sections[section].from + k)
               = ImageIn(Sections[section], Sections[section].to + k)
         /\ Seen(Sections[section].from + k) \in Word
<1> DEFINE s == Sections[section]
           w == s.to + k
<1>1. StartTypeOK /\ ImagesStay /\ Clean
  BY CleanIs DEF StartInv
<1>2. section \in 1 .. Len(Sections) /\ s \in [from : Nat, to : Nat, end : Nat]
  <2>1. section \in 1 .. Len(Sections) + 1 /\ Len(Sections) \in Nat
    BY <1>1, LenProperties DEF StartTypeOK, StartAssumption
  <2>2. section \in 1 .. Len(Sections)
    BY <2>1, SMT
  <2> QED
    BY <2>2, SectionsAre
<1>3. w \in Copied(s)
  <2>1. w \in s.to .. s.end - 1
    BY <1>2, SMT
  <2> QED
    BY <2>1 DEF Copied
<1>4. ImageIn(s, w) = s.from + k /\ ImageIn(s, w) \in Word \ Own
  <2>1. ImageIn(s, w) = s.from + k
    BY <1>2, SMT DEF ImageIn
  <2> QED
    BY <1>2, <1>3, <2>1, SectionsAre
<1>5. ASSUME NEW x \in Word \ Own PROVE Seen(x) = x
  <2>1. DataPlace(x) \in DPlaces /\ x # -1
    BY OwnIsMemory, PlacesExist, SMT
  <2>2. data_cache[DataPlace(x)].word # x
    BY <1>1, <2>1 DEF Clean, Settled, Empty
  <2> QED
    BY <1>1, <2>2 DEF Seen, InDCache, ImagesStay
<1> QED
  BY <1>3, <1>4, <1>5

LEMMA alt_load_sectionKeeps == StartAssumption /\ StartInv /\ alt_load_section => StartInv'
<1> SUFFICES ASSUME StartAssumption, StartInv, alt_load_section PROVE StartInv'
  OBVIOUS
<1> DEFINE s == Sections[section]
<1>1. /\ StartTypeOK /\ ImagesStay /\ Quiet /\ Clean /\ Loading /\ stage = "load"
      /\ section <= Len(Sections) /\ r2 \in 0 .. s.end - s.to /\ (s.from = s.to => r2 = 0)
      /\ \A w \in Bss : Seen(w) = Zero
  BY CleanIs DEF StartInv, Counters, Clearing, alt_load_section, At
<1>2. UNCHANGED <<code_cache, status_pie, ienable, line, resets>> /\ stage' = "load"
  BY DEF alt_load_section, At, irqs, Goto
<1>3. section \in 1 .. Len(Sections) /\ Len(Sections) \in Nat
  <2>1. section \in 1 .. Len(Sections) + 1 /\ Len(Sections) \in Nat
    BY <1>1, LenProperties DEF StartTypeOK, StartAssumption
  <2> QED
    BY <1>1, <2>1, SMT
<1>4. s \in [from : Nat, to : Nat, end : Nat] /\ s.to <= s.end
  BY <1>3, SectionsAre
<1>5. CASE s.to # s.from /\ s.to + r2 # s.end
  <2> DEFINE w == s.to + r2
  <2>1. r2 \in Nat /\ w < s.end
    BY <1>1, <1>4, <1>5, SMT
  <2>2. w \in Copied(s) /\ Seen(s.from + r2) = ImageIn(s, w) /\ Seen(s.from + r2) \in Value
        /\ w \in Own
    BY <1>1, <1>3, <1>5, <2>1, CopiesImage, SectionsAre DEF Value, Own
  <2>3. StoreWord(w, Seen(s.from + r2)) /\ r2' = r2 + 1 /\ section' = section
    BY <1>5 DEF alt_load_section, Goto
  <2>4. /\ memory' \in [Word -> Value] /\ data_cache' \in [DPlaces -> CacheLine]
        /\ Clean'
        /\ \A x \in Word \ Own : memory'[x] = memory[x]
        /\ \A x \in Word : Seen(x)' = IF x = w THEN ImageIn(s, w) ELSE Seen(x)
    BY <1>1, <2>2, <2>3, StoreIsSeen
  <2>5. StartTypeOK'
    BY <1>1, <1>2, <2>1, <2>3, <2>4 DEF StartTypeOK
  <2>6. Counters'
    <3>1. r2 + 1 \in 0 .. s.end - s.to
      BY <1>4, <2>1, SMT
    <3> QED
      BY <1>2, <1>5, <2>3, <3>1 DEF Counters
  <2>7. Sweeping' /\ ImagesStay'
    BY <1>1, <2>4 DEF Sweeping, Clean, ImagesStay
  <2>8. Clearing'
    BY <1>1, <1>2, <1>3, <2>2, <2>4, SectionsAre, OwnIsMemory DEF Clearing, Own
  <2>9. Loading'
    <3> SUFFICES ASSUME NEW i \in 1 .. Len(Sections), NEW x \in Copied(Sections[i]),
                        i < section \/ (i = section /\ x < Sections[i].to + (r2 + 1))
                 PROVE  Seen(x)' = ImageIn(Sections[i], x)
      BY <2>3 DEF Loading
    <3>1. x \in Word
      BY SectionsAre, OwnIsMemory DEF Own
    <3>2. CASE x = w
      <4>1. i = section
        BY <1>3, <2>2, <3>2 DEF StartAssumption
      <4> QED
        BY <2>4, <3>1, <3>2, <4>1
    <3>3. CASE x # w
      <4>1. i < section \/ (i = section /\ x < Sections[i].to + r2)
        BY <1>4, <2>1, <3>1, <3>3, OwnIsMemory, SMT
      <4> QED
        BY <1>1, <2>4, <3>1, <3>3, <4>1 DEF Loading
    <3> QED
      BY <3>2, <3>3
  <2> QED
    BY <1>1, <1>2, <2>5, <2>6, <2>7, <2>8, <2>9 DEF StartInv, AllFresh, Quiet
<1>6. CASE ~(s.to # s.from /\ s.to + r2 # s.end)
  <2>1. r2' = 0 /\ section' = section + 1 /\ UNCHANGED <<memory, data_cache>>
    BY <1>6 DEF alt_load_section, Goto
  <2>2. \A x : Seen(x)' = Seen(x)
    BY <2>1 DEF Seen, InDCache
  <2>3. StartTypeOK'
    <3>1. section' \in 1 .. Len(Sections) + 1 /\ r2' \in Int
      BY <1>3, <2>1, SMT
    <3> QED
      BY <1>1, <1>2, <2>1, <3>1 DEF StartTypeOK
  <2>4. Counters'
    <3> SUFFICES ASSUME section + 1 <= Len(Sections)
                 PROVE  0 \in 0 .. Sections[section + 1].end - Sections[section + 1].to
      BY <1>2, <2>1 DEF Counters
    <3>1. section + 1 \in 1 .. Len(Sections)
      BY <1>3, SMT
    <3>2. /\ Sections[section + 1] \in [from : Nat, to : Nat, end : Nat]
          /\ Sections[section + 1].to <= Sections[section + 1].end
      BY <3>1, SectionsAre
    <3> QED
      BY <3>2, SMT
  <2>5. Sweeping' /\ ImagesStay' /\ Clearing'
    BY <1>1, <1>2, <2>1, <2>2 DEF Sweeping, Clean, Settled, ImagesStay, Clearing
  <2>6. Loading'
    <3> SUFFICES ASSUME NEW i \in 1 .. Len(Sections), NEW x \in Copied(Sections[i]),
                        i < section + 1 \/ (i = section + 1 /\ x < Sections[i].to + 0)
                 PROVE  Seen(x)' = ImageIn(Sections[i], x)
      BY <2>1 DEF Loading
    <3>1. /\ Sections[i] \in [from : Nat, to : Nat, end : Nat]
          /\ Sections[i].from # Sections[i].to
          /\ x \in Sections[i].to .. Sections[i].end - 1
      BY SectionsAre DEF Copied
    <3>2. i < section \/ i = section
      BY <1>3, <3>1, SMT
    <3>3. i = section => x < s.to + r2
      BY <1>1, <1>4, <1>6, <3>1, SMT
    <3> QED
      BY <1>1, <2>2, <3>2, <3>3 DEF Loading
  <2> QED
    BY <1>1, <1>2, <2>3, <2>4, <2>5, <2>6 DEF StartInv, AllFresh, Quiet
<1> QED
  BY <1>5, <1>6

LEMMA LoadDoneKeeps == StartAssumption /\ StartInv /\ LoadDone => StartInv'
<1> SUFFICES ASSUME StartAssumption, StartInv, LoadDone PROVE StartInv'
  OBVIOUS
<1>1. /\ StartTypeOK /\ ImagesStay /\ Quiet /\ Clean /\ Loading /\ stage = "load"
      /\ section > Len(Sections) /\ \A w \in Bss : Seen(w) = Zero
  BY CleanIs DEF StartInv, Clearing, LoadDone, At
<1>2. /\ UNCHANGED <<memory, data_cache, code_cache, section, status_pie, ienable, line, resets>>
      /\ stage' = "dflush" /\ r2' = 0
  BY DEF LoadDone, At, irqs, caches, Goto
<1>3. \A x : Seen(x)' = Seen(x)
  BY <1>2 DEF Seen, InDCache
<1>4. ASSUME NEW w \in Word PROVE Seen(w) = Fresh(w)
  <2>1. CASE w \in Bss
    BY <1>1, <2>1, FreshIs
  <2>2. CASE w \in Data
    <3>1. PICK i \in 1 .. Len(Sections) : w \in Copied(Sections[i])
      BY <2>2 DEF Data
    <3>2. Len(Sections) \in Nat /\ section \in Int
      BY <1>1, LenProperties DEF StartTypeOK, StartAssumption
    <3>3. i < section
      BY <1>1, <3>2, SMT
    <3> QED
      BY <1>1, <3>1, <3>3, FreshIs DEF Loading
  <2>3. CASE w \notin Own
    <3>1. DataPlace(w) \in DPlaces /\ w # -1
      BY OwnIsMemory, PlacesExist, SMT
    <3>2. data_cache[DataPlace(w)].word # w
      BY <1>1, <2>3, <3>1 DEF Clean, Settled, Empty
    <3> QED
      BY <1>1, <2>3, <3>2, FreshIs DEF Seen, InDCache, ImagesStay
  <2> QED
    BY <2>1, <2>2, <2>3 DEF Own
<1>5. AllFresh'
  <2>1. \A p \in DPlaces : ~(p < 0)
    BY SMT DEF DPlaces
  <2> QED
    BY <1>2, <1>3, <1>4, <2>1 DEF AllFresh, Fresh
<1>6. StartTypeOK'
  BY <1>1, <1>2 DEF StartTypeOK, Stages
<1>7. Sweeping' /\ ImagesStay'
  BY <1>1, <1>2 DEF Sweeping, Clean, Settled, ImagesStay
<1> QED
  BY <1>1, <1>2, <1>5, <1>6, <1>7 DEF StartInv, Counters, Clearing, Loading, Quiet

LEMMA FlushDCacheKeeps == StartAssumption /\ StartInv /\ FlushDCache => StartInv'
<1> SUFFICES ASSUME StartAssumption, StartInv, FlushDCache PROVE StartInv'
  OBVIOUS
<1>1. /\ StartTypeOK /\ ImagesStay /\ Quiet /\ Clean /\ stage = "dflush" /\ r2 \in Nat
      /\ \A w \in Word : Seen(w) = Fresh(w)
      /\ \A p \in DPlaces : p < r2 => data_cache[p] = Empty
  BY CleanIs DEF StartInv, Counters, AllFresh, FlushDCache, At
<1>2. UNCHANGED <<code_cache, section, status_pie, ienable, line, resets>>
  BY DEF FlushDCache, At, irqs
<1>3. DCACHE_WORDS \in Nat /\ ICACHE_WORDS \in Nat
  BY DEF StartAssumption
<1>4. CASE r2 < DCACHE_WORDS
  <2>1. r2 \in DPlaces /\ DataPlace(r2) = r2
    BY <1>1, <1>3, <1>4, SMT DEF DPlaces, DataPlace
  <2>2. /\ memory' = Evicted(r2) /\ data_cache' = [data_cache EXCEPT ![r2] = Empty]
        /\ stage' = "dflush" /\ r2' = r2 + 1
    BY <1>4, <2>1 DEF FlushDCache, Goto
  <2>3. /\ memory' \in [Word -> Value] /\ data_cache' \in [DPlaces -> CacheLine]
        /\ Clean'
        /\ \A x \in Word \ Own : memory'[x] = memory[x]
        /\ \A x \in Word : Seen(x)' = Seen(x)
    BY <1>1, <2>1, <2>2, FlushIsNotSeen
  <2>4. StartTypeOK' /\ Counters'
    BY <1>1, <1>2, <2>2, <2>3 DEF StartTypeOK, Counters
  <2>5. Sweeping' /\ ImagesStay'
    BY <1>1, <2>3 DEF Sweeping, Clean, ImagesStay
  <2>6. AllFresh'
    <3>1. ASSUME NEW p \in DPlaces, p < r2 + 1 PROVE data_cache'[p] = Empty
      <4>1. p < r2 \/ p = r2
        BY <1>1, <3>1, SMT DEF DPlaces
      <4>2. data_cache \in [DPlaces -> CacheLine]
        BY <1>1 DEF StartTypeOK
      <4> QED
        BY <1>1, <2>1, <2>2, <4>1, <4>2
    <3> QED
      BY <1>1, <2>2, <2>3, <3>1 DEF AllFresh, Fresh
  <2> QED
    BY <1>1, <1>2, <2>2, <2>4, <2>5, <2>6 DEF StartInv, Clearing, Loading, Quiet
<1>5. CASE ~(r2 < DCACHE_WORDS)
  <2>1. UNCHANGED <<memory, data_cache>> /\ stage' = "iflush" /\ r2' = 0
    BY <1>5 DEF FlushDCache, Goto
  <2>2. \A x : Seen(x)' = Seen(x)
    BY <2>1 DEF Seen, InDCache
  <2>3. \A p \in DPlaces : data_cache'[p] = Empty
    <3>1. \A p \in DPlaces : p < r2
      BY <1>1, <1>3, <1>5, SMT DEF DPlaces
    <3> QED
      BY <1>1, <2>1, <3>1
  <2>4. \A w \in Code : ~(CodePlace(w) < 0)
    <3>1. \A w \in Code : CodePlace(w) \in IPlaces
      BY PlacesExist, OwnIsMemory
    <3> QED
      BY <3>1, SMT DEF IPlaces
  <2>5. AllFresh'
    BY <1>1, <2>1, <2>2, <2>3, <2>4 DEF AllFresh, Fresh, CodePlace
  <2>6. StartTypeOK'
    BY <1>1, <1>2, <2>1 DEF StartTypeOK, Stages
  <2>7. Sweeping' /\ ImagesStay' /\ Counters'
    BY <1>1, <2>1 DEF Sweeping, Clean, Settled, ImagesStay, Counters
  <2> QED
    BY <1>1, <1>2, <2>1, <2>5, <2>6, <2>7 DEF StartInv, Clearing, Loading, Quiet
<1> QED
  BY <1>4, <1>5

\* A word whose line is in no place of the cache is seen in memory.
LEMMA EmptyShowsMemory ==
  ASSUME StartAssumption, \A p \in DPlaces : data_cache[p] = Empty, NEW w \in Word
  PROVE  Seen(w) = memory[w]
<1>1. DataPlace(w) \in DPlaces /\ w # -1
  BY OwnIsMemory, PlacesExist, SMT
<1> QED
  BY <1>1 DEF Seen, InDCache, Empty

LEMMA FlushICacheKeeps == StartAssumption /\ StartInv /\ FlushICache => StartInv'
<1> SUFFICES ASSUME StartAssumption, StartInv, FlushICache PROVE StartInv'
  OBVIOUS
<1>1. /\ StartTypeOK /\ ImagesStay /\ Quiet /\ Clean /\ stage = "iflush" /\ r2 \in Nat
      /\ \A w \in Word : Seen(w) = Fresh(w)
      /\ \A p \in DPlaces : data_cache[p] = Empty
      /\ \A w \in Code : CodePlace(w) < r2 /\ code_cache[CodePlace(w)].word = w =>
                           code_cache[CodePlace(w)].value = Fresh(w)
  BY CleanIs DEF StartInv, Counters, AllFresh, FlushICache, At
<1>2. UNCHANGED <<memory, data_cache, section, status_pie, ienable, line, resets>>
  BY DEF FlushICache, At, irqs
<1>3. ICACHE_WORDS \in Nat /\ \A w \in Code : CodePlace(w) \in IPlaces /\ w # -1
  <2>1. ICACHE_WORDS \in Nat
    BY DEF StartAssumption
  <2>2. \A w \in Code : w \in Nat
    BY OwnIsMemory
  <2>3. \A w \in Code : CodePlace(w) \in IPlaces
    BY <2>2, PlacesExist
  <2>4. \A w \in Nat : w # -1
    BY SMT
  <2> QED
    BY <2>1, <2>2, <2>3, <2>4
<1>4. \A x : Seen(x)' = Seen(x)
  BY <1>2 DEF Seen, InDCache
<1>5. Sweeping' /\ ImagesStay'
  BY <1>1, <1>2 DEF Sweeping, Clean, Settled, ImagesStay
<1>6. CASE r2 < ICACHE_WORDS
  <2>1. r2 \in IPlaces /\ CodePlace(r2) = r2
    BY <1>1, <1>3, <1>6, SMT DEF IPlaces, CodePlace
  <2>2. code_cache' = [code_cache EXCEPT ![r2] = Empty] /\ stage' = "iflush" /\ r2' = r2 + 1
    BY <1>6, <2>1 DEF FlushICache, Goto
  <2>3. /\ code_cache' \in [IPlaces -> CacheLine] /\ code_cache'[r2].word = -1
        /\ \A p \in IPlaces : p # r2 => code_cache'[p] = code_cache[p]
    <3>1. code_cache \in [IPlaces -> CacheLine] /\ Empty \in CacheLine /\ Empty.word = -1
      BY <1>1, EmptyIsALine DEF StartTypeOK, Empty
    <3> QED
      BY <2>1, <2>2, <3>1
  <2>4. StartTypeOK' /\ Counters'
    BY <1>1, <1>2, <2>2, <2>3 DEF StartTypeOK, Counters
  <2>5. ASSUME NEW w \in Code, CodePlace(w) < r2 + 1, code_cache'[CodePlace(w)].word = w
        PROVE  code_cache'[CodePlace(w)].value = Fresh(w)
    <3>1. CodePlace(w) # r2
      BY <1>3, <2>3, <2>5
    <3>2. CodePlace(w) < r2
      BY <1>1, <1>3, <2>5, <3>1, SMT DEF IPlaces
    <3> QED
      BY <1>1, <1>3, <2>3, <2>5, <3>1, <3>2
  <2>6. AllFresh'
    BY <1>1, <1>2, <1>4, <2>2, <2>5 DEF AllFresh, Fresh, CodePlace
  <2> QED
    BY <1>1, <1>2, <1>5, <2>2, <2>4, <2>6 DEF StartInv, Clearing, Loading, Quiet
<1>7. CASE ~(r2 < ICACHE_WORDS)
  <2>1. code_cache' = code_cache /\ stage' = "loaded" /\ r2' = 0
    BY <1>7 DEF FlushICache, Goto
  <2>2. StartTypeOK' /\ Counters'
    BY <1>1, <1>2, <2>1 DEF StartTypeOK, Stages, Counters
  <2>3. \A w \in Code : CodePlace(w) < r2
    BY <1>1, <1>3, <1>7, SMT DEF IPlaces
  <2>4. AllFresh'
    BY <1>1, <1>2, <1>4, <2>1, <2>3 DEF AllFresh, Fresh, CodePlace
  <2> QED
    BY <1>1, <1>2, <1>5, <2>1, <2>2, <2>4 DEF StartInv, Clearing, Loading, Quiet
<1> QED
  BY <1>6, <1>7

\* What the processor fetches comes from memory, and is right once memory is.
LEMMA PrefetchKeeps ==
  ASSUME StartAssumption, StartInv, NEW w \in Code, Prefetch(w)
  PROVE  StartInv'
<1>1. /\ StartTypeOK /\ Counters /\ Sweeping /\ ImagesStay
      /\ Clearing /\ Loading /\ AllFresh /\ Quiet /\ stage # "initi"
  BY DEF StartInv, Prefetch
<1>2. /\ UNCHANGED <<memory, data_cache, stage, r2, section, status_pie, ienable, line, resets>>
      /\ code_cache' = [code_cache EXCEPT ![CodePlace(w)] =
                      [word |-> w, value |-> memory[w], dirty |-> FALSE]]
  BY DEF Prefetch, irqs
<1>3. w \in Word /\ CodePlace(w) \in IPlaces /\ \A x \in Code : CodePlace(x) \in IPlaces
  BY OwnIsMemory, PlacesExist
<1>4. /\ code_cache' \in [IPlaces -> CacheLine]
      /\ code_cache'[CodePlace(w)].word = w /\ code_cache'[CodePlace(w)].value = memory[w]
      /\ \A p \in IPlaces : p # CodePlace(w) => code_cache'[p] = code_cache[p]
  <2>1. code_cache \in [IPlaces -> CacheLine] /\ memory[w] \in Value
    BY <1>1, <1>3 DEF StartTypeOK
  <2>2. [word |-> w, value |-> memory[w], dirty |-> FALSE] \in CacheLine
    BY <1>3, <2>1 DEF CacheLine
  <2> QED
    BY <1>2, <1>3, <2>1, <2>2
<1>5. \A x : Seen(x)' = Seen(x)
  BY <1>2 DEF Seen, InDCache
<1>6. StartTypeOK'
  BY <1>1, <1>2, <1>4 DEF StartTypeOK
<1>7. AllFresh'
  <2>1. ASSUME stage \in {"iflush", "loaded", "alt_main"} PROVE memory[w] = Fresh(w)
    <3>1. Seen(w) = Fresh(w) /\ \A p \in DPlaces : data_cache[p] = Empty
      BY <1>1, <1>3, <2>1 DEF AllFresh
    <3> QED
      BY <1>3, <3>1, EmptyShowsMemory
  <2>2. ASSUME stage \in {"iflush", "loaded", "alt_main"}, NEW x \in Code,
               stage # "iflush" \/ CodePlace(x) < r2, code_cache'[CodePlace(x)].word = x
        PROVE  code_cache'[CodePlace(x)].value = Fresh(x)
    <3>1. CASE CodePlace(x) = CodePlace(w)
      BY <1>4, <2>1, <2>2, <3>1
    <3>2. CASE CodePlace(x) # CodePlace(w)
      BY <1>1, <1>3, <1>4, <2>2, <3>2 DEF AllFresh
    <3> QED
      BY <3>1, <3>2
  <2>3. stage' = stage /\ r2' = r2 /\ data_cache' = data_cache
        /\ \A x : Fresh(x)' = Fresh(x) /\ CodePlace(x)' = CodePlace(x)
    BY <1>2 DEF Fresh, CodePlace
  <2>4. /\ stage \in {"dflush", "iflush", "loaded", "alt_main"} =>
             \A x \in Word : Seen(x)' = Fresh(x)
        /\ stage \in {"dflush", "iflush", "loaded", "alt_main"} =>
             \A p \in DPlaces : stage # "dflush" \/ p < r2 => data_cache'[p] = Empty
    BY <1>1, <1>5, <2>3 DEF AllFresh
  <2> QED
    BY <2>2, <2>3, <2>4 DEF AllFresh
<1>8. Counters' /\ Sweeping' /\ ImagesStay' /\ Clearing' /\ Loading' /\ Quiet'
  BY <1>1, <1>2, <1>5 DEF Counters, Sweeping, Swept, Settled, ImagesStay, Clearing, Loading, Quiet
<1> QED
  BY <1>6, <1>7, <1>8 DEF StartInv

-----------------------------------------------------------------------------
(* The steps of alt_main and of the program, and resets.                   *)

\* Where the program runs, only the interrupts and the handler's word matter.
Running == {"sys_init", "enable", "ctors", "main", "dtors", "exit"}

LEMMA RunsOn ==
  ASSUME StartInv, stage' \in Running, stage \in Running \cup {"alt_main"},
         StartTypeOK', Clean', \A x \in Word \ Own : memory'[x] = memory[x], Quiet'
  PROVE  StartInv'
<1>1. ImagesStay'
  BY DEF StartInv, ImagesStay
<1>2. Sweeping'
  BY DEF Sweeping, Clean
<1> QED
  BY <1>1, <1>2 DEF StartInv, Running, Counters, Clearing, Loading, AllFresh

\* Steps that leave memory and data cache alone.
LEMMA StepsOn ==
  ASSUME StartAssumption, StartInv, stage \in Running \cup {"alt_main"}, stage' \in Running,
         UNCHANGED <<caches, section, line, resets>>, r2' \in Int,
         status_pie' \in BOOLEAN, ienable' \in BOOLEAN,
         stage' = "sys_init" => ~ienable', stage' = "enable" => ~status_pie',
         stage' # "sys_init" => Seen(Handler) = Isr
  PROVE  StartInv'
<1>1. StartTypeOK /\ Clean
  BY CleanIs DEF StartInv, Running
<1>2. UNCHANGED <<memory, data_cache, code_cache, section, line, resets>>
  BY DEF caches
<1>3. Clean' /\ Seen(Handler)' = Seen(Handler)
  BY <1>1, <1>2 DEF Clean, Settled, Seen, InDCache
<1>4. StartTypeOK'
  BY <1>1, <1>2 DEF StartTypeOK, Running, Stages
<1>5. Quiet'
  BY <1>3 DEF Quiet, Running
<1> QED
  BY <1>2, <1>3, <1>4, <1>5, RunsOn

LEMMA CallMainKeeps == StartAssumption /\ StartInv /\ CallMain => StartInv'
<1> SUFFICES ASSUME StartInv, CallMain PROVE StartInv'
  OBVIOUS
<1>1. /\ StartTypeOK /\ Sweeping /\ ImagesStay /\ AllFresh /\ Quiet /\ stage = "loaded"
  BY DEF StartInv, CallMain, At
<1>2. /\ UNCHANGED <<memory, data_cache, code_cache, section, status_pie, ienable, line, resets>>
      /\ stage' = "alt_main" /\ r2' = 0
  BY DEF CallMain, At, irqs, caches, Goto
<1>3. \A x : Seen(x)' = Seen(x)
  BY <1>2 DEF Seen, InDCache
<1>4. StartTypeOK' /\ ImagesStay' /\ Quiet'
  BY <1>1, <1>2 DEF StartTypeOK, Stages, ImagesStay, Quiet
<1>5. Sweeping'
  BY <1>1, <1>2 DEF Sweeping, Swept, Settled
<1>6. AllFresh'
  BY <1>1, <1>2, <1>3 DEF AllFresh, Fresh, CodePlace
<1> QED
  BY <1>2, <1>4, <1>5, <1>6 DEF StartInv, Counters, Clearing, Loading

LEMMA alt_irq_initKeeps == StartAssumption /\ StartInv /\ alt_irq_init => StartInv'
<1> SUFFICES ASSUME StartAssumption, StartInv, alt_irq_init PROVE StartInv'
  OBVIOUS
<1>1. /\ stage = "alt_main" /\ stage' = "sys_init" /\ r2' = 0
      /\ ienable' = FALSE /\ status_pie' = TRUE
      /\ UNCHANGED <<caches, section, line, resets>>
  BY DEF alt_irq_init, At, Goto
<1>2. status_pie' \in BOOLEAN /\ ienable' \in BOOLEAN /\ ~ienable'
  BY <1>1, Zenon
<1>3. r2' \in Int
  BY <1>1
<1> QED
  BY <1>1, <1>2, <1>3, StepsOn DEF Running

\* The handler's word is one that the program may write to, and stays in the cache until
\* its line is needed for another word.
LEMMA RegisterKeeps == StartAssumption /\ StartInv /\ Register => StartInv'
<1> SUFFICES ASSUME StartAssumption, StartInv, Register PROVE StartInv'
  OBVIOUS
<1>1. StartTypeOK /\ Clean /\ stage = "sys_init"
  BY CleanIs DEF StartInv, Register, At
<1>2. Handler \in Own /\ Handler \in Word /\ Isr \in Value
  BY OwnIsMemory DEF Own, Value
<1>3. /\ memory' \in [Word -> Value] /\ data_cache' \in [DPlaces -> CacheLine]
      /\ Clean'
      /\ \A x \in Word \ Own : memory'[x] = memory[x]
      /\ Seen(Handler)' = Isr
  <2>1. StoreWord(Handler, Isr)
    BY DEF Register
  <2> QED
    BY <1>1, <1>2, <2>1, StoreIsSeen
<1>4. /\ UNCHANGED <<code_cache, section, ienable, line, resets>>
      /\ stage' = "enable" /\ r2' = 0 /\ status_pie' = FALSE
  BY DEF Register, At, Goto
<1>5. StartTypeOK'
  <2>1. stage' \in Stages /\ r2' \in Int
    BY <1>4 DEF Stages
  <2>2. status_pie' \in BOOLEAN
    BY <1>4, Zenon
  <2> QED
    BY <1>1, <1>3, <1>4, <2>1, <2>2 DEF StartTypeOK
<1>6. Quiet'
  BY <1>3, <1>4 DEF Quiet
<1> QED
  BY <1>1, <1>3, <1>4, <1>5, <1>6, RunsOn DEF Running

LEMMA RegisteredKeeps == StartAssumption /\ StartInv /\ Registered => StartInv'
<1> SUFFICES ASSUME StartAssumption, StartInv, Registered PROVE StartInv'
  OBVIOUS
<1>1. Seen(Handler) = Isr /\ stage = "enable"
  BY DEF StartInv, Quiet, Registered, At
<1>2. Constructors \in Int
  BY DEF StartAssumption
<1> QED
  BY <1>1, <1>2, StepsOn DEF Registered, At, Goto, Running

\* What the program changes is not the handler's word.
LEMMA ChangesKeep ==
  ASSUME StartAssumption, StartInv, stage \in {"ctors", "main", "dtors"}, ChangesData,
         stage' \in {"ctors", "main", "dtors"}, r2' \in Int,
         UNCHANGED <<code_cache, section, irqs, resets>>
  PROVE  StartInv'
<1>1. StartTypeOK /\ Clean /\ Quiet
  BY CleanIs DEF StartInv
<1>2. PICK w \in (Data \ Code) \cup (Bss \ {Handler}) : StoreWord(w, Junk)
  BY DEF ChangesData
<1>3. w \in Own /\ w # Handler /\ Junk \in Value /\ Handler \in Word
  BY OwnIsMemory DEF Own, Value
<1>4. /\ memory' \in [Word -> Value] /\ data_cache' \in [DPlaces -> CacheLine]
      /\ Clean'
      /\ \A x \in Word \ Own : memory'[x] = memory[x]
      /\ Seen(Handler)' = Seen(Handler)
  BY <1>1, <1>2, <1>3, StoreIsSeen
<1>5. StartTypeOK' /\ Quiet'
  BY <1>1, <1>4 DEF StartTypeOK, Stages, Quiet, irqs
<1> QED
  BY <1>4, <1>5, RunsOn DEF Running

LEMMA ProgramKeeps ==
  ASSUME StartAssumption, StartInv,
         _do_ctors \/ Main \/ _do_dtors
  PROVE  StartInv'
<1>1. StartTypeOK /\ Quiet
  BY DEF StartInv
<1>2. r2 \in Int /\ r2 - 1 \in Int /\ status_pie \in BOOLEAN /\ ienable \in BOOLEAN
  BY <1>1, SMT DEF StartTypeOK
<1>3. CASE Main
  <2>1. /\ ChangesData /\ stage = "main" /\ stage' = stage /\ r2' = r2
        /\ UNCHANGED <<code_cache, section, irqs, resets>>
    BY <1>3 DEF Main, At
  <2> QED
    BY <1>2, <2>1, ChangesKeep
<1>4. CASE _do_ctors
  <2>1. CASE r2 > 0
    <3>1. /\ ChangesData /\ stage = "ctors" /\ stage' = "ctors" /\ r2' = r2 - 1
          /\ UNCHANGED <<code_cache, section, irqs, resets>>
      BY <1>4, <2>1 DEF _do_ctors, At, Goto
    <3> QED
      BY <1>2, <3>1, ChangesKeep
  <2>2. CASE ~(r2 > 0)
    BY <1>1, <1>2, <1>4, <2>2, StepsOn DEF _do_ctors, At, Goto, caches, irqs, Quiet, Running
  <2> QED
    BY <2>1, <2>2
<1>5. CASE _do_dtors
  <2>1. CASE r2 > 0
    <3>1. /\ ChangesData /\ stage = "dtors" /\ stage' = "dtors" /\ r2' = r2 - 1
          /\ UNCHANGED <<code_cache, section, irqs, resets>>
      BY <1>5, <2>1 DEF _do_dtors, At, Goto
    <3> QED
      BY <1>2, <3>1, ChangesKeep
  <2>2. CASE ~(r2 > 0)
    BY <1>1, <1>2, <1>5, <2>2, StepsOn DEF _do_dtors, At, Goto, caches, irqs, Quiet, Running
  <2> QED
    BY <2>1, <2>2
<1> QED
  BY <1>3, <1>4, <1>5

\* The calls of the program that change no memory.
LEMMA CallsKeep ==
  ASSUME StartAssumption, StartInv,
         \/ ALT_FORK \/ ALT_WAIT \/ MainReturns \/ ALT_EXIT
         \/ \E pid \in {0, 1}, sig \in Signals : ALT_KILL(pid, sig)
  PROVE  StartInv'
<1>1. StartTypeOK /\ Quiet
  BY DEF StartInv
<1>2. status_pie \in BOOLEAN /\ ienable \in BOOLEAN /\ Destructors \in Int /\ r2 \in Int
      /\ -1 \in Int /\ 0 \in Int
  BY <1>1, SMT DEF StartTypeOK, StartAssumption
<1>3. /\ stage \in {"main", "exit"} /\ stage' \in {"main", "dtors", "exit"} /\ r2' \in Int
      /\ UNCHANGED <<caches, section, irqs, resets>>
  <2>1. CASE ALT_FORK
    BY <1>2, <2>1 DEF ALT_FORK, At, Goto
  <2>2. CASE ALT_WAIT
    BY <1>2, <2>2 DEF ALT_WAIT, At, Goto
  <2>3. CASE MainReturns
    BY <1>2, <2>3 DEF MainReturns, At, Goto
  <2>4. CASE ALT_EXIT
    BY <1>2, <2>4 DEF ALT_EXIT, At
  <2>5. ASSUME NEW pid \in {0, 1}, NEW sig \in Signals, ALT_KILL(pid, sig)
        PROVE  /\ stage \in {"main", "exit"} /\ stage' \in {"main", "dtors", "exit"} /\ r2' \in Int
               /\ UNCHANGED <<caches, section, irqs, resets>>
    BY <1>2, <2>5 DEF ALT_KILL, At, Goto
  <2> QED
    BY <2>1, <2>2, <2>3, <2>4, <2>5
<1> QED
  BY <1>1, <1>2, <1>3, StepsOn DEF Running, irqs, Quiet

\* Of the device and its interrupt the memory knows nothing.
LEMMA DeviceKeeps == ASSUME StartInv, Asks \/ TakesInterrupt PROVE StartInv'
<1>1. /\ StartTypeOK /\ Counters /\ Sweeping /\ ImagesStay
      /\ Clearing /\ Loading /\ AllFresh /\ Quiet
  BY DEF StartInv
<1>2. /\ UNCHANGED <<memory, data_cache, code_cache>>
      /\ UNCHANGED <<stage, r2, section, status_pie, ienable, resets>>
      /\ line' \in BOOLEAN
  BY DEF Asks, TakesInterrupt, caches
<1>3. \A x : Seen(x)' = Seen(x) /\ Fresh(x)' = Fresh(x) /\ CodePlace(x)' = CodePlace(x)
  BY <1>2 DEF Seen, InDCache, Fresh, CodePlace
<1>4. StartTypeOK' /\ Counters' /\ ImagesStay' /\ Clearing' /\ Loading' /\ Quiet'
  BY <1>1, <1>2, <1>3 DEF StartTypeOK, Counters, ImagesStay, Clearing, Loading, Quiet
<1>5. Sweeping'
  BY <1>1, <1>2 DEF Sweeping, Swept, Settled
<1>6. AllFresh'
  BY <1>1, <1>2, <1>3 DEF AllFresh
<1> QED
  BY <1>4, <1>5, <1>6 DEF StartInv

\* A reset leaves everything as it is but where the program stands.
LEMMA ResetKeeps == StartAssumption /\ StartInv /\ Reset => StartInv'
<1> SUFFICES ASSUME StartAssumption, StartInv, Reset PROVE StartInv'
  OBVIOUS
<1>1. StartTypeOK /\ ImagesStay
  BY DEF StartInv
<1>2. /\ UNCHANGED <<memory, data_cache, code_cache, line>> /\ resets' = resets + 1 /\ section' = 1
      /\ status_pie' = FALSE /\ ienable' \in BOOLEAN
      /\ \/ stage' = "initi" /\ r2' = ICACHE_WORDS
         \/ stage' = "initd" /\ r2' = DCACHE_WORDS
  BY DEF Reset, caches, Goto
<1>3. DCACHE_WORDS \in Nat \ {0} /\ ICACHE_WORDS \in Nat /\ Len(Sections) \in Nat
  <2>1. Sections \in Seq([from : Nat, to : Nat, end : Nat])
    BY DEF StartAssumption
  <2>2. Len(Sections) \in Nat
    BY <2>1, LenProperties
  <2> QED
    BY <2>2 DEF StartAssumption
<1>4. StartTypeOK'
  <2>1. section' \in 1 .. Len(Sections) + 1 /\ resets' \in Nat
    BY <1>1, <1>2, <1>3, SMT DEF StartTypeOK
  <2>2. stage' \in Stages /\ r2' \in Int
    BY <1>2, <1>3 DEF Stages
  <2> QED
    BY <1>1, <1>2, <2>1, <2>2 DEF StartTypeOK
<1>5. Counters' /\ Sweeping'
  <2>1. DCACHE_WORDS + 1 .. DCACHE_WORDS = {} /\ DCACHE_WORDS \in 1 .. DCACHE_WORDS
    BY <1>3, SMT
  <2> QED
    BY <1>2, <2>1 DEF Counters, Sweeping, Swept
<1>6. ImagesStay'
  BY <1>1, <1>2 DEF ImagesStay
<1> QED
  BY <1>2, <1>4, <1>5, <1>6 DEF StartInv, Clearing, Loading, AllFresh, Quiet

LEMMA StartStep == StartAssumption /\ StartInv /\ [StartNext]_startVars => StartInv'
<1> SUFFICES ASSUME StartAssumption, StartInv, [StartNext]_startVars PROVE StartInv'
  OBVIOUS
<1>1. CASE \/ InitICache \/ InitDCache \/ ClearBss \/ alt_load_section \/ LoadDone
           \/ FlushDCache \/ FlushICache \/ CallMain
  BY <1>1, InitICacheKeeps, InitDCacheKeeps, ClearBssKeeps, alt_load_sectionKeeps,
     LoadDoneKeeps, FlushDCacheKeeps, FlushICacheKeeps, CallMainKeeps
<1>2. CASE alt_irq_init \/ Register \/ Registered
  BY <1>2, alt_irq_initKeeps, RegisterKeeps, RegisteredKeeps
<1>3. CASE _do_ctors \/ Main \/ _do_dtors
  BY <1>3, ProgramKeeps
<1>4. CASE \/ ALT_FORK \/ ALT_WAIT \/ MainReturns \/ ALT_EXIT
           \/ \E pid \in {0, 1}, sig \in Signals : ALT_KILL(pid, sig)
  BY <1>4, CallsKeep
<1>5. CASE Asks \/ TakesInterrupt
  BY <1>5, DeviceKeeps
<1>6. CASE Reset
  BY <1>6, ResetKeeps
<1>7. CASE \E w \in Code : Prefetch(w)
  BY <1>7, PrefetchKeeps
<1>8. CASE UNCHANGED startVars
  <2>1. UNCHANGED <<memory, data_cache, code_cache, stage, r2, section, status_pie, ienable,
                    line, resets>>
    BY <1>8 DEF startVars, caches, irqs
  <2>2. /\ StartTypeOK /\ Counters /\ Sweeping /\ ImagesStay
        /\ Clearing /\ Loading /\ AllFresh /\ Quiet
    BY DEF StartInv
  <2>3. \A x : Seen(x)' = Seen(x) /\ Fresh(x)' = Fresh(x) /\ CodePlace(x)' = CodePlace(x)
    BY <2>1 DEF Seen, InDCache, Fresh, CodePlace
  <2>4. StartTypeOK' /\ Counters' /\ ImagesStay' /\ Clearing' /\ Loading' /\ Quiet'
    BY <2>1, <2>2, <2>3 DEF StartTypeOK, Counters, ImagesStay, Clearing, Loading, Quiet
  <2>5. Sweeping'
    BY <2>1, <2>2 DEF Sweeping, Swept, Settled
  <2>6. AllFresh'
    BY <2>1, <2>2, <2>3 DEF AllFresh
  <2> QED
    BY <2>4, <2>5, <2>6 DEF StartInv
<1> QED
  BY <1>1, <1>2, <1>3, <1>4, <1>5, <1>6, <1>7, <1>8 DEF StartNext

LEMMA StartInvariant == ASSUME StartAssumption PROVE StartSpec => []StartInv
<1>1. StartInit => StartInv
  BY StartStarts
<1>2. StartInv /\ [StartNext]_startVars => StartInv'
  BY StartStep
<1> QED
  BY <1>1, <1>2, PTL DEF StartSpec

\* Whatever the caches, the memory and the device are left with by a reset at any moment:
\* when alt_main is entered, every word is as it was linked, and so is the exception code
\* that the processor has fetched.  For any sections, any bss and caches of any size.
\* (crt0.S, alt_load.c.)
THEOREM ImageIsFresh == ASSUME StartAssumption PROVE StartSpec => []FreshImage
<1>1. StartInv => FreshImage
  BY DEF StartInv, AllFresh, FreshImage
<1> QED
  BY <1>1, StartInvariant, PTL

\* No interrupt is taken before this start has registered a handler for it.
\* (alt_main.c, alt_sys_init.c.)
THEOREM NoneIsStray == ASSUME StartAssumption PROVE StartSpec => []NoStray
<1>1. StartInv => NoStray
  BY DEF StartInv, StartTypeOK, Stages, Quiet, NoStray, Dispatches
<1> QED
  BY <1>1, StartInvariant, PTL

\* Both together: whatever a reset interrupts, the next start is as the first.
THEOREM StartIsFresh == ASSUME StartAssumption PROVE StartSpec => []StartsFresh
  BY ImageIsFresh, NoneIsStray, PTL DEF StartsFresh
=============================================================================
