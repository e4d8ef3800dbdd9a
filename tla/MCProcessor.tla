---------------------------- MODULE MCProcessor ----------------------------
(***************************************************************************)
(* What interrupts do to the processor's program: the exception code       *)
(* (Exceptions), with devices that wait to be served and with devices that *)
(* withdraw their request, the enables (IrqMask), and the driver of the    *)
(* JTAG UART (JtagUart) sending, receiving, and sending with a clock.  A   *)
(* behaviour is one of them, while the rest stands still.                  *)
(***************************************************************************)
EXTENDS IrqMask, Exceptions

VARIABLES
    uart_pc, count, done, nonblock, in, out, n, chunk, result,             \* JtagUart
    tx_buf, tx_in, tx_out, rx_buf, rx_in, rx_out, irq_enable, host_inactive, timeout,
    isr, ri, wi, space, ravail, txfifo, rxfifo, ac, tx_next, rx_next,
    part                                                                   \* which runs

uartVars == <<uart_pc, count, done, nonblock, in, out, n, chunk, result, tx_buf, tx_in,
              tx_out, rx_buf, rx_in, rx_out, irq_enable, host_inactive, timeout, isr, ri,
              wi, space, ravail, txfifo, rxfifo, ac, tx_next, rx_next>>

-----------------------------------------------------------------------------
\* A program with every kind of instruction, which registers its exception handler
\* and a new handler for one interrupt, and drops that of the other.
I(kind, irq, routine) == [kind |-> kind, irq |-> irq, isr |-> routine]
Do(kind) == I(kind, 0, "none")

Registration(irq, routine) ==
    <<Do("disable_all"), I("handler", irq, routine), I("context", irq, routine),
      I("ienable", irq, routine), Do("enable_all")>>

EveryKind == <<I("catch", 0, "new"), Do("muldiv")>> \o Registration(0, "new")
             \o <<Do("fault"), Do("illegal")>> \o Registration(1, "none") \o <<Do("muldiv")>>

\* Devices that withdraw what they asked for, and no emulation.
Withdrawing == INSTANCE Exceptions
    WITH MaxRaises <- 3, Steady <- FALSE, Emulation <- FALSE

\* Calls that wrap around a ring of four characters, and that do not fit into it.
Sending == INSTANCE JtagUart
    WITH BUF_LEN <- 4, FifoLen <- 2, Threshold <- 1, INT_MAX <- 5, Clock <- FALSE,
         Timeouts <- {2}, Calls <- {"write", "close"}, Flags <- BOOLEAN, Counts <- {1, 5},
         Talks <- FALSE, Numbers <- 4, pc <- uart_pc
Receiving == INSTANCE JtagUart
    WITH BUF_LEN <- 4, FifoLen <- 2, Threshold <- 1, INT_MAX <- 5, Clock <- FALSE,
         Timeouts <- {2}, Calls <- {"read"}, Flags <- BOOLEAN, Counts <- {1, 5},
         Talks <- TRUE, Numbers <- 4, pc <- uart_pc
Timed == INSTANCE JtagUart
    WITH BUF_LEN <- 3, FifoLen <- 1, Threshold <- 0, INT_MAX <- 5, Clock <- TRUE,
         Timeouts <- {2, 3}, Calls <- {"write", "timeout"}, Flags <- {FALSE}, Counts <- {4},
         Talks <- FALSE, Numbers <- 2, pc <- uart_pc

ASSUME ProcessorAssumption ==
    /\ ExceptionsAssumption /\ Withdrawing!ExceptionsAssumption /\ WholeCalls
    /\ Sending!JtagUartAssumption /\ Receiving!JtagUartAssumption /\ Timed!JtagUartAssumption

-----------------------------------------------------------------------------
Parts == {"exceptions", "withdrawing", "masks", "sending", "receiving", "timed"}

PartsInit ==
    /\ part \in Parts
    /\ part \notin {"exceptions", "withdrawing"} => enables = {}
    /\ Init /\ MaskInit
    /\ part \notin {"sending", "receiving", "timed"} => ac = FALSE
    /\ IF part = "timed" THEN Timed!Init ELSE Sending!Init

Runs(p) == part = p /\ part' = p

PartsNext ==
    \/ Runs("exceptions") /\ Next /\ UNCHANGED <<maskVars, uartVars>>
    \/ Runs("withdrawing") /\ Withdrawing!Next /\ UNCHANGED <<maskVars, uartVars>>
    \/ Runs("masks") /\ MaskNext /\ UNCHANGED <<vars, uartVars>>
    \/ Runs("sending") /\ Sending!Next /\ UNCHANGED <<vars, maskVars>>
    \/ Runs("receiving") /\ Receiving!Next /\ UNCHANGED <<vars, maskVars>>
    \/ Runs("timed") /\ Timed!Next /\ UNCHANGED <<vars, maskVars>>

PartsSpec == PartsInit /\ [][PartsNext]_<<vars, maskVars, uartVars, part>>

\* Each part has the fairness of its module: the processor runs, and a host that is
\* there takes what is sent.
Instruction == part = "exceptions" /\ (Execute \/ Except \/ Handler)
CallStep    == \/ part = "sending" /\ Sending!InCall
               \/ part = "timed" /\ Timed!InCall
RoutineStep == \/ part = "sending" /\ Sending!Routine
               \/ part = "timed" /\ Timed!Routine
AlarmOrHost == \/ part = "sending" /\ Sending!HostTakes
               \/ part = "timed" /\ Timed!Timeout

PartsFairness ==
    /\ WF_vars(Instruction)
    /\ WF_uartVars(CallStep) /\ WF_uartVars(RoutineStep) /\ WF_uartVars(AlarmOrHost)

PartsFairSpec == PartsSpec /\ PartsFairness

-----------------------------------------------------------------------------
(* The properties of the parts, of the lines named there; Undisturbed is   *)
(* that of Exceptions.                                                     *)

\* No enabled interrupt is forgotten, and none is taken for an exception unless its
\* device withdraws it.
NoneForgotten ==
    /\ \A i \in Lines : part = "exceptions" /\ i \in Pending ~> i \notin Pending
    /\ [](part = "exceptions" => OnlyRaised)

\* The characters on their way, in the calls without a clock.
Untimed(x, otherwise) == IF part = "timed" THEN otherwise ELSE x
ToHost == INSTANCE Channel
    WITH Capacity <- 5, Numbers <- 4, next <- Untimed(tx_next, 0),
         q <- Untimed(txfifo \o Sending!Contents(tx_buf, tx_in, tx_out), <<>>)
ToProgram == INSTANCE Channel
    WITH Capacity <- 5, Numbers <- 4, next <- Untimed(rx_next, 0),
         q <- Untimed(Sending!Contents(rx_buf, rx_in, rx_out) \o rxfifo, <<>>)

\* What is written comes to the host, and what the host sends to the program, once
\* and in order; what the reader copies is what it then takes out of the ring.  The
\* interrupts of the JTAG UART are on while there is something to send, and room for
\* what may come.
Delivers ==
    /\ ToHost!Spec /\ ToProgram!Spec
    /\ [](IF part = "timed" THEN Timed!TypeOK ELSE Sending!TypeOK)
    /\ [](part = "receiving" => Receiving!ReadsWhatLeaves)
    /\ [](part \in {"sending", "receiving"} => Sending!SendingIsOn /\ Sending!ReceivingIsOn)
    /\ [](part = "timed" => Timed!SendingIsOn /\ Timed!ReceivingIsOn)

\* A call to write or close ends.
WriteEnds ==
    part \in {"sending", "timed"} /\ uart_pc \in {"w_space", "c_spin"}
        ~> uart_pc = "idle" \/ (part = "timed" /\ timeout > 3)
=============================================================================
