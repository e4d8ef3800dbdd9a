------------------------------ MODULE JtagUart ------------------------------
(***************************************************************************)
(* The interrupt driven driver of the JTAG UART, over which everything     *)
(* that the program prints goes to the host: two ring buffers between one  *)
(* program, which reads, writes and closes, and the interrupt routine.     *)
(* The program is interrupted between any two accesses to what it shares   *)
(* with the routine; the host moves at any moment.  Characters are         *)
(* numbered as in Channel.                                                 *)
(***************************************************************************)
EXTENDS Integers, Sequences

CONSTANTS
    BUF_LEN,      \* ALTERA_AVALON_JTAG_UART_BUF_LEN, 2048 in the system
    FifoLen,      \* the FIFOs of the device, 64
    Threshold,    \* the device asks for more with this few left, 8
    INT_MAX,
    Clock,        \* TRUE: there is a system clock, so that the alarm starts
    Timeouts,     \* bound: the timeouts set, the initial one among them
    Calls,        \* bound: the calls made, of "read", "write", "close"
    Flags,        \* bound: whether O_NONBLOCK is set
    Counts,       \* bound: the lengths of reads and writes
    Talks,        \* bound: whether the host sends anything
    Numbers

JtagUartAssumption ==
    /\ BUF_LEN \in Nat /\ BUF_LEN >= 2
    /\ FifoLen \in Nat /\ FifoLen >= 1 /\ Threshold \in 0 .. FifoLen - 1
    /\ INT_MAX \in Nat /\ INT_MAX >= 3
    /\ Clock \in BOOLEAN /\ Timeouts \subseteq 2 .. INT_MAX - 1
    /\ Calls \subseteq {"read", "write", "close", "timeout"}
    /\ Flags \subseteq BOOLEAN /\ Counts \subseteq Nat \ {0}
    /\ Talks \in BOOLEAN /\ Numbers \in Nat \ {0}

VARIABLES
    pc,                          \* the program, "idle" between calls
    count, done, nonblock,       \* the call: characters left, moved; O_NONBLOCK
    in, out, n, chunk,           \* its local variables; what memcpy read
    result,                      \* of the last call: "count" of characters or error
    tx_buf, tx_in, tx_out, rx_buf, rx_in, rx_out,
    irq_enable,                  \* the interrupts enabled, in sp and the device
    host_inactive, timeout,
    isr,                         \* the interrupt routine, "none" if it does not run
    ri, wi, space, ravail,       \* its local variables, from the control register
    txfifo, rxfifo, ac,          \* the device: its FIFOs, "the host was active"
    tx_next, rx_next             \* the numbers of the next characters sent

request == <<count, done, nonblock, result>>
locals  == <<in, out, n, chunk>>
tx      == <<tx_buf, tx_in, tx_out, tx_next>>
rx      == <<rx_buf, rx_in, rx_out>>
routine == <<isr, ri, wi, space, ravail>>
device  == <<txfifo, rxfifo, ac, rx_next>>
alarm   == <<host_inactive, timeout>>
vars == <<pc, request, locals, tx, rx, irq_enable, alarm, routine, device>>

Slot == 0 .. BUF_LEN - 1
Lower(x, y) == IF x < y THEN x ELSE y

-----------------------------------------------------------------------------
(* The device and the host.                                                *)

RI == "RE" \in irq_enable /\ rxfifo # <<>>
WI == "WE" \in irq_enable /\ Len(txfifo) <= Threshold

HostTakes ==
    /\ txfifo # <<>>
    /\ txfifo' = Tail(txfifo) /\ ac' = TRUE
    /\ UNCHANGED <<pc, request, locals, tx, rx, irq_enable, alarm, routine, rxfifo, rx_next>>

HostSends ==
    /\ Talks /\ Len(rxfifo) < FifoLen
    /\ rxfifo' = Append(rxfifo, rx_next) /\ ac' = TRUE
    /\ rx_next' = (rx_next + 1) % Numbers
    /\ UNCHANGED <<pc, request, locals, tx, rx, irq_enable, alarm, routine, txfifo>>

-----------------------------------------------------------------------------
(* altera_avalon_jtag_uart_irq, and the alarm of every second.             *)

Interrupt ==
    /\ isr = "none" /\ (RI \/ WI)
    /\ isr' = "control"
    /\ UNCHANGED <<pc, request, locals, tx, rx, irq_enable, alarm, ri, wi, space, ravail, device>>

\* Read the control register: what is pending, how much space there is.
IsrControl ==
    /\ isr = "control"
    /\ ri' = RI /\ wi' = WI /\ space' = FifoLen - Len(txfifo) /\ ravail' = TRUE
    /\ isr' = IF RI THEN "rx" ELSE IF WI THEN "tx" ELSE "none"
    /\ UNCHANGED <<pc, request, locals, tx, rx, irq_enable, alarm, device>>

RxFull == (rx_in + 1) % BUF_LEN = rx_out

\* One turn of the receive loop: no space, no character, or one more.
IsrRx ==
    /\ isr = "rx"
    /\ IF RxFull
       THEN isr' = "rx_end" /\ UNCHANGED <<rx, rxfifo, ravail>>
       ELSE IF rxfifo = <<>>
       THEN isr' = "rx_end" /\ ravail' = FALSE /\ UNCHANGED <<rx, rxfifo>>
       ELSE /\ rx_buf' = [rx_buf EXCEPT ![rx_in] = Head(rxfifo)]
            /\ rx_in' = (rx_in + 1) % BUF_LEN
            /\ rxfifo' = Tail(rxfifo) /\ ravail' = (rxfifo' # <<>>)
            /\ UNCHANGED <<isr, rx_out>>
    /\ UNCHANGED <<pc, request, locals, tx, irq_enable, alarm, ri, wi, space, txfifo, ac, rx_next>>

\* Characters are left: the buffer is full, no more interrupts until it is read.
IsrRxEnd ==
    /\ isr = "rx_end"
    /\ irq_enable' = IF ravail THEN irq_enable \ {"RE"} ELSE irq_enable
    /\ isr' = IF wi THEN "tx" ELSE "control"
    /\ UNCHANGED <<pc, request, locals, tx, rx, alarm, ri, wi, space, ravail, device>>

IsrTx ==
    /\ isr = "tx"
    /\ IF space > 0 /\ tx_out # tx_in
       THEN /\ txfifo' = Append(txfifo, tx_buf[tx_out])
            /\ tx_out' = (tx_out + 1) % BUF_LEN
            /\ space' = space - 1
            /\ UNCHANGED isr
       ELSE isr' = "tx_end" /\ UNCHANGED <<txfifo, tx_out, space>>
    /\ UNCHANGED <<pc, request, locals, tx_buf, tx_in, tx_next, rx, irq_enable, alarm, ri, wi,
                   ravail, rxfifo, ac, rx_next>>

\* Space is left: there is no more to send.
IsrTxEnd ==
    /\ isr = "tx_end" /\ isr' = "control"
    /\ irq_enable' = IF space > 0 THEN irq_enable \ {"WE"} ELSE irq_enable
    /\ UNCHANGED <<pc, request, locals, tx, rx, alarm, ri, wi, space, ravail, device>>

\* altera_avalon_jtag_uart_timeout.
Timeout ==
    /\ Clock /\ isr = "none"
    /\ IF ac THEN ac' = FALSE /\ host_inactive' = 0
       ELSE /\ host_inactive' = IF host_inactive < INT_MAX - 2
                                THEN host_inactive + 1 ELSE host_inactive
            /\ UNCHANGED ac
    /\ UNCHANGED <<pc, request, locals, tx, rx, irq_enable, timeout, routine,
                   txfifo, rxfifo, rx_next>>

Device == HostTakes \/ HostSends
Routine == Interrupt \/ IsrControl \/ IsrRx \/ IsrRxEnd \/ IsrTx \/ IsrTxEnd

-----------------------------------------------------------------------------
(* The calls.  The program runs only while the routine does not.           *)

Goes(from, to) == isr = "none" /\ pc = from /\ pc' = to

Call(kind) ==
    /\ kind \in Calls /\ nonblock' \in Flags
    /\ count' \in (IF kind = "close" THEN {0} ELSE Counts)
    /\ done' = 0 /\ result' = "none"
    /\ UNCHANGED <<locals, tx, rx, irq_enable, alarm, routine, device>>

Return(r) == result' = r /\ UNCHANGED <<count, done, nonblock>>

\* The number of characters moved, or why there are none.
Outcome == IF done > 0 THEN "count" ELSE IF nonblock THEN "EWOULDBLOCK" ELSE "EIO"

Write == Goes("idle", "w_space") /\ Call("write")

\* Faulty form: the slot before out is filled as well.
Room_NoGap(i, o) == IF i < o THEN o - i ELSE BUF_LEN - i

\* How much fits in one piece: a stable value of out, and up to the end of the
\* buffer or up to the slot before out.
Room(i, o) == IF i < o THEN o - 1 - i ELSE IF o > 0 THEN BUF_LEN - i ELSE BUF_LEN - 1 - i

\* Faulty form: no break when there is no room.
WriteSpace_NoBreak ==
    /\ isr = "none" /\ pc = "w_space"
    /\ IF count = 0 THEN pc' = "w_enable" /\ UNCHANGED locals
       ELSE /\ in' = tx_in /\ out' = tx_out
            /\ n' = Lower(Room(tx_in, tx_out), count)
            /\ pc' = "w_copy"
            /\ UNCHANGED chunk
    /\ UNCHANGED <<request, tx, rx, irq_enable, alarm, routine, device>>

WriteSpace ==
    /\ isr = "none" /\ pc = "w_space"
    /\ IF count = 0 THEN pc' = "w_enable" /\ UNCHANGED locals
       ELSE /\ in' = tx_in /\ out' = tx_out
            /\ n' = Lower(Room(tx_in, tx_out), count)
            /\ pc' = IF n' = 0 THEN "w_enable" ELSE "w_copy"
            /\ UNCHANGED chunk
    /\ UNCHANGED <<request, tx, rx, irq_enable, alarm, routine, device>>

WriteCopy ==
    /\ Goes("w_copy", "w_advance")
    /\ tx_buf' = [k \in Slot |-> IF k \in in .. in + n - 1
                                 THEN (tx_next + k - in) % Numbers ELSE tx_buf[k]]
    /\ UNCHANGED <<request, locals, tx_in, tx_out, tx_next, rx, irq_enable, alarm, routine, device>>

WriteAdvance ==
    /\ Goes("w_advance", "w_space")
    /\ tx_in' = (in + n) % BUF_LEN
    /\ tx_next' = (tx_next + n) % Numbers
    /\ count' = count - n /\ done' = done + n
    /\ UNCHANGED <<nonblock, result, locals, tx_buf, tx_out, rx, irq_enable, alarm, routine,
                   device>>

\* Kick the routine, with interrupts off; then wait for it, or return.
WriteEnable ==
    /\ isr = "none" /\ pc = "w_enable"
    /\ irq_enable' = irq_enable \cup {"WE"}
    /\ IF count > 0 /\ ~nonblock THEN pc' = "w_spin" /\ UNCHANGED request
       ELSE pc' = "idle" /\ Return(Outcome)
    /\ UNCHANGED <<locals, tx, rx, alarm, routine, device>>

\* Wait for space in the buffer; a second without the host ends the call.
WriteSpin ==
    /\ isr = "none" /\ pc = "w_spin"
    /\ out # tx_out \/ host_inactive >= timeout
    /\ IF host_inactive # 0 THEN pc' = "idle" /\ Return(Outcome)
       ELSE pc' = "w_space" /\ UNCHANGED request
    /\ UNCHANGED <<locals, tx, rx, irq_enable, alarm, routine, device>>

Read == Goes("idle", "r_space") /\ Call("read")

\* As much as there is in one piece; when nothing is left, return what there is,
\* and only if there is nothing at all, wait.
ReadSpace ==
    /\ isr = "none" /\ pc = "r_space"
    /\ in' = rx_in /\ out' = rx_out
    /\ n' = Lower(IF rx_in >= rx_out THEN rx_in - rx_out ELSE BUF_LEN - rx_out, count)
    /\ IF n' > 0 THEN pc' = "r_copy" /\ UNCHANGED request
       ELSE IF done > 0 THEN pc' = "r_enable" /\ UNCHANGED request
       ELSE IF nonblock THEN pc' = "idle" /\ Return(Outcome)
       ELSE pc' = "r_spin" /\ UNCHANGED request
    /\ UNCHANGED <<chunk, tx, rx, irq_enable, alarm, routine, device>>

ReadCopy ==
    /\ Goes("r_copy", "r_advance")
    /\ chunk' = [k \in 1 .. n |-> rx_buf[out + k - 1]]
    /\ UNCHANGED <<request, in, out, n, tx, rx, irq_enable, alarm, routine, device>>

ReadAdvance ==
    /\ isr = "none" /\ pc = "r_advance"
    /\ rx_out' = (out + n) % BUF_LEN
    /\ count' = count - n /\ done' = done + n
    /\ pc' = IF count' > 0 THEN "r_space" ELSE "r_enable"
    /\ UNCHANGED <<nonblock, result, locals, tx, rx_buf, rx_in, irq_enable, alarm, routine, device>>

ReadSpin ==
    /\ isr = "none" /\ pc = "r_spin"
    /\ in # rx_in \/ host_inactive >= timeout
    /\ IF in # rx_in THEN pc' = "r_space" /\ UNCHANGED request
       ELSE pc' = "idle" /\ Return(Outcome)
    /\ UNCHANGED <<locals, tx, rx, irq_enable, alarm, routine, device>>

\* Something was read, so there is space: receive interrupts on again.
ReadEnable ==
    /\ Goes("r_enable", "idle")
    /\ irq_enable' = irq_enable \cup {"RE"}
    /\ Return("count")
    /\ UNCHANGED <<locals, tx, rx, alarm, routine, device>>

\* altera_avalon_jtag_uart_close: wait until all is sent.
Close == Goes("idle", "c_spin") /\ Call("close")

CloseSpin ==
    /\ Goes("c_spin", "idle")
    /\ LET waits == tx_out # tx_in /\ host_inactive < timeout
       IN  /\ waits => nonblock
           /\ Return(IF waits THEN "EWOULDBLOCK" ELSE "count")
    /\ UNCHANGED <<locals, tx, rx, irq_enable, alarm, routine, device>>

\* ioctl TIOCSTIMEOUT; without a clock it is refused.
SetTimeout ==
    /\ Goes("idle", "idle") /\ "timeout" \in Calls
    /\ timeout # INT_MAX
    /\ timeout' \in Timeouts \cup {INT_MAX - 1}
    /\ UNCHANGED <<request, locals, tx, rx, irq_enable, host_inactive, routine, device>>

Caller ==
    \/ Write \/ WriteSpace \/ WriteCopy \/ WriteAdvance \/ WriteEnable \/ WriteSpin
    \/ Read \/ ReadSpace \/ ReadCopy \/ ReadAdvance \/ ReadSpin \/ ReadEnable
    \/ Close \/ CloseSpin \/ SetTimeout

\* altera_avalon_jtag_uart_init: receive interrupts on; the alarm, if it starts.
Init ==
    /\ pc = "idle" /\ count = 0 /\ done = 0 /\ nonblock = FALSE /\ result = "none"
    /\ in = 0 /\ out = 0 /\ n = 0 /\ chunk = <<>>
    /\ tx_buf = [k \in Slot |-> 0] /\ tx_in = 0 /\ tx_out = 0
    /\ rx_buf = [k \in Slot |-> 0] /\ rx_in = 0 /\ rx_out = 0
    /\ irq_enable = {"RE"}
    /\ host_inactive = 0 /\ timeout \in IF Clock THEN Timeouts ELSE {INT_MAX}
    /\ isr = "none" /\ ri = FALSE /\ wi = FALSE /\ space = 0 /\ ravail = FALSE
    /\ txfifo = <<>> /\ rxfifo = <<>> /\ ac \in BOOLEAN
    /\ tx_next = 0 /\ rx_next = 0

Next == Caller \/ Routine \/ Timeout \/ Device

Spec == Init /\ [][Next]_vars

\* The processor runs; without a clock a call that waits ends only if the host
\* takes what is written, and with one the alarm ends it.
InCall == Caller /\ pc # "idle"
FairSpec ==
    /\ Spec /\ WF_vars(InCall) /\ WF_vars(Routine)
    /\ IF Clock THEN WF_vars(Timeout) ELSE WF_vars(HostTakes)

-----------------------------------------------------------------------------
Places == {"idle", "w_space", "w_copy", "w_advance", "w_enable", "w_spin",
           "r_space", "r_copy", "r_advance", "r_spin", "r_enable", "c_spin"}

TypeOK ==
    /\ pc \in Places /\ count \in Nat /\ done \in Nat /\ nonblock \in BOOLEAN
    /\ in \in Slot /\ out \in Slot /\ n \in 0 .. BUF_LEN /\ Len(chunk) < BUF_LEN
    /\ tx_buf \in [Slot -> 0 .. Numbers - 1] /\ tx_in \in Slot /\ tx_out \in Slot
    /\ rx_buf \in [Slot -> 0 .. Numbers - 1] /\ rx_in \in Slot /\ rx_out \in Slot
    /\ irq_enable \subseteq {"RE", "WE"}
    /\ host_inactive \in 0 .. INT_MAX - 2
    /\ timeout \in Timeouts \cup {INT_MAX - 1, INT_MAX}
    /\ isr \in {"none", "control", "rx", "rx_end", "tx", "tx_end"}
    /\ space \in 0 .. FifoLen /\ Len(txfifo) <= FifoLen /\ Len(rxfifo) <= FifoLen

\* What is in a ring buffer, the oldest first.
Used(i, o) == (i - o) % BUF_LEN
Contents(buf, i, o) == [k \in 1 .. Used(i, o) |-> buf[(o + k - 1) % BUF_LEN]]

\* What memcpy has read is what leaves the buffer, not what came in meanwhile.
ReadsWhatLeaves ==
    pc = "r_advance" =>
        /\ n <= Used(rx_in, rx_out)
        /\ chunk = SubSeq(Contents(rx_buf, rx_in, rx_out), 1, n)

\* Characters never lie in the buffer with nobody to send them: the interrupt is
\* on, or the writer is about to switch it on.
SendingIsOn ==
    isr = "none" /\ tx_in # tx_out =>
        "WE" \in irq_enable \/ pc \in {"w_space", "w_copy", "w_advance", "w_enable"}

\* Receiving is off only while the buffer is full, or a reader that has made room
\* is about to switch it on.
ReceivingIsOn ==
    isr = "none" /\ "RE" \notin irq_enable =>
        RxFull \/ (done > 0 /\ pc \in {"r_space", "r_copy", "r_advance", "r_enable"})

\* A call to write or close comes to its end: without a clock if there is a host
\* that takes what is sent, with one even if there is none, unless the timeout is
\* the one that stands for ever.
WriteEnds == pc \in {"w_space", "c_spin"} ~> pc = "idle" \/ (Clock /\ timeout > INT_MAX - 2)
=============================================================================
