----------------------------- MODULE MCUsbParts -----------------------------
(***************************************************************************)
(* Three levels below UsbHost: the lists of transfers in the chip's memory *)
(* and the way of a key from the keyboard's slots to the moves of a player *)
(* (UsbTransfer), and the stores and clocks of one access to the chip      *)
(* (HpiBus), with and without resets.  A behaviour is one of them, while   *)
(* the rest stands still.                                                  *)
(***************************************************************************)
EXTENDS HpiBus, UsbTransfer

VARIABLE part    \* which of them runs

\* The bus of the cfg is reset at any clock; this one is not.
ThreePorts == {0, 2, 3}
QuietBus == INSTANCE HpiBus
    WITH Ports <- ThreePorts, Values <- {0, 1}, Owned <- {3}, Gap <- 4, Resets <- FALSE

ASSUME PartsAssumption ==
    /\ TransferAssumption /\ BusAssumption /\ QuietBus!BusAssumption

Parts == {"transfer", "path", "bus", "reset_bus"}

Init ==
    /\ part \in Parts
    /\ IF part = "transfer" THEN TransferInit
       ELSE mem = <<>> /\ cur = 0 /\ step = 1 /\ data_size = 0 /\ dev = <<>>
    /\ PathInit
    /\ part \in {"transfer", "path"} => chip = [p \in ThreePorts |-> 0]
    /\ IF part = "reset_bus" THEN BusInit ELSE QuietBus!BusInit

Runs(p) == part = p /\ part' = p

Next ==
    \/ Runs("transfer") /\ TransferNext /\ UNCHANGED <<pathVars, busVars>>
    \/ Runs("path") /\ PathNext /\ UNCHANGED <<transferVars, busVars>>
    \/ Runs("bus") /\ QuietBus!BusNext /\ UNCHANGED <<transferVars, pathVars>>
    \/ Runs("reset_bus") /\ BusNext /\ UNCHANGED <<transferVars, pathVars>>

Spec == Init /\ [][Next]_<<transferVars, pathVars, busVars, part>>

-----------------------------------------------------------------------------
(* The properties of the parts, of the lines named there; KeysArrive as      *)
(* UsbTransfer states it, OnlyItsPort, with and without resets, as HpiBus.  *)

\* The chip's memory: the lists stay whole under the chip, which walks them from TD
\* to TD with the toggles that the keyboard expects, and what the enumeration leaves
\* there is never taken for a key.
MemoryRight == part = "transfer" => ListsRight /\ NoGhostKeys

\* Without resets the program sees four ports: every IO_write is one access, to its
\* port and with its data, every IO_read one access that returns what the port held
\* during the call.  (io_handler.c, hpi_io_intf.sv.)
Whole(seen, idle) == IF part = "reset_bus" THEN idle ELSE seen
Expected == INSTANCE HpiPorts
    WITH Ports <- ThreePorts, Values <- {0, 1}, Owned <- {3},
         call <- Whole(call, [op |-> "init", address |-> 0, data |-> 0]),
         ports <- Whole(chip, [p \in ThreePorts |-> 0]),
         accesses <- Whole(accesses, 0), may <- Whole(may, {}), result <- Whole(temp, None)
ImplementsPorts == Expected!Spec
=============================================================================
