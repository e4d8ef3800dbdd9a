---------------------------- MODULE UsbTransfer ----------------------------
(***************************************************************************)
(* What lies between the program and the keys of a keyboard, in two parts  *)
(* that share the words of UsbRequests.                                    *)
(*                                                                         *)
(* The enumeration of main.c at the level of memory words: the processor   *)
(* writes one list of transfer descriptors after the other, the chip       *)
(* executes it, and the control endpoint of a keyboard answers.  The chip  *)
(* (the BIOS of the CY7C67200) and the keyboard are not in the repository: *)
(* they are modelled as far as the program relies on them.  Writing a list *)
(* is one step; the chip executes one descriptor per step.                 *)
(*                                                                         *)
(* The way of a key: both players are at one keyboard, which puts the keys *)
(* that are down into its six slots, and each report goes through main.c   *)
(* to the moves that the two block_logics see.  With more keys down than   *)
(* slots a keyboard sends the roll-over code in all of them.               *)
(***************************************************************************)
EXTENDS UsbRequests, FiniteSets

CONSTANTS
    Sizes,      \* the descriptor lengths that a keyboard may answer with
    Faults,     \* TRUE: any transfer may fail for good, as on a noisy line
    Keys,       \* bound: the keys in use
    MaxDown     \* bound: how many are down at once

TransferAssumption ==
    /\ Sizes \subseteq Nat /\ Faults \in BOOLEAN
    /\ Keys \subseteq KeyNames /\ MaxDown \in Nat

VARIABLES
    mem,        \* the words of the chip's memory from 0x0500 on
    cur,        \* HUSB_SIE1_pCurrentTDPtr; 0 when no list is being executed
    step,       \* the request in progress, an index into Requests
    data_size,  \* main.c's data_size; 0 until it is read
    dev,        \* the control endpoint of the keyboard
    down,       \* the slots of the keyboard, the names of the keys that are down
    keycode     \* the register, after the last poll

transferVars == <<mem, cur, step, data_size, dev>>
pathVars == <<down, keycode>>

Addresses == {Base + 2 * k : k \in 0 .. 95}
Enumerated == Len(Requests) + 1

\* The list in memory; in the poll loop, up to the toggle.
List == IF step = Enumerated THEN UsbPoll(1, data_size) ELSE Requests[step]

\* Where the TDs of a list start: the eight bytes of SETUP data follow the first.
Starts(w) == {Base} \cup {Base + 20 + 12 * k : k \in 0 .. (Len(w) - 16) \div 6}

(***************************************************************************)
(* The keyboard: its address and configuration, the stage of the control   *)
(* transfer, the toggle of its next packet, the bytes it has sent of this  *)
(* transfer and those it will send in all.                                 *)
(***************************************************************************)
FreshDevice == [addr |-> 0, configured |-> FALSE, stage |-> "idle",
                toggle |-> Data1, sent |-> 0, total |-> 0]

MaxPacket == 8
PacketLength == IF dev.total - dev.sent > MaxPacket THEN MaxPacket ELSE dev.total - dev.sent

\* Word k of what the keyboard sends names its place in the descriptor, and is
\* no address, length or toggle that a list contains.
DataWord(k) == \hE000 + k

\* The TD at an address, as the fields that UsbRequests gives to words.
At(a) == [i \in 1 .. 6 |-> mem[a + 2 * (i - 1)]]
TD == At(cur)
SetupWords == [i \in 1 .. 4 |-> mem[BufferOf(TD, 1) + 2 * (i - 1)]]

\* The chip ends a TD: its retry word tells how, and the list goes on or stops.
Complete(m) ==
    /\ mem' = [m EXCEPT ![cur + 8] = Finished]
    /\ cur' = NextOf(TD, 1)

Fail ==
    /\ mem' = [mem EXCEPT ![cur + 8] = 0]
    /\ cur' = 0

Answers == AddressOf(TD, 1) = dev.addr
Active  == (TD[5] \div 16) % 2 = 1

ExecSetup ==
    /\ PidOf(TD, 1) = PidSetup /\ Answers
    /\ Complete(mem)
    /\ \E size \in Sizes :
         LET wLength == SetupWords[4]
         IN  dev' = [dev EXCEPT !.stage = IF wLength = 0 THEN "ack" ELSE "data",
                                !.toggle = Data1, !.sent = 0,
                                !.total = IF size < wLength THEN size ELSE wLength]

ExecData ==
    /\ PidOf(TD, 1) = PidIn /\ Answers /\ dev.stage = "data"
    /\ step < Enumerated /\ PacketLength <= LengthOf(TD, 1)
    /\ Complete([a \in Addresses |->
                   LET k == a - BufferOf(TD, 1)
                   IN  IF k \in 0 .. PacketLength - 1 THEN DataWord(dev.sent + k) ELSE mem[a]])
    /\ dev' = [dev EXCEPT !.toggle = IF @ = Data1 THEN Data0 ELSE Data1,
                          !.sent = @ + PacketLength,
                          !.stage = IF PacketLength < MaxPacket THEN "over" ELSE "data"]

\* The status stage: an empty packet in for a request without data, an empty
\* packet out after the data.  Only now the keyboard does what was asked.
ExecStatusIn ==
    /\ PidOf(TD, 1) = PidIn /\ Answers /\ dev.stage = "ack"
    /\ Complete(mem)
    /\ dev' = [dev EXCEPT !.stage = "idle",
                          !.addr = IF step = 1 THEN mem[\h050E] ELSE @,
                          !.configured = (step = 6) \/ @]

\* Endpoint 1: a report of eight bytes, from a keyboard that is configured.
ExecReport ==
    /\ step = Enumerated
    /\ PidOf(TD, 1) = PidIn /\ Answers /\ dev.configured
    /\ Complete([a \in Addresses |->
                   LET k == a - BufferOf(TD, 1)
                   IN  IF k \in 0 .. LengthOf(TD, 1) - 1 THEN DataWord(k) ELSE mem[a]])
    /\ UNCHANGED dev

ExecStatusOut ==
    /\ PidOf(TD, 1) = PidOut /\ Answers /\ dev.stage \in {"data", "over"}
    /\ Complete(mem)
    /\ dev' = [dev EXCEPT !.stage = "idle"]

\* No answer, an answer that is an error (a read past the end of the data), or
\* a line that garbles every try.
ExecFailure ==
    /\ \/ Faults
       \/ ~Answers
       \/ PidOf(TD, 1) = PidIn /\ step < Enumerated /\ dev.stage \in {"idle", "over"}
       \/ PidOf(TD, 1) = PidIn /\ step = Enumerated /\ ~dev.configured
       \/ PidOf(TD, 1) = PidIn /\ dev.stage = "data" /\ PacketLength > LengthOf(TD, 1)
       \/ PidOf(TD, 1) = PidOut /\ dev.stage \in {"idle", "ack"}
    /\ Fail
    /\ UNCHANGED dev

Execute ==
    /\ cur # 0 /\ Active
    /\ ExecSetup \/ ExecData \/ ExecReport \/ ExecStatusIn \/ ExecStatusOut \/ ExecFailure
    /\ UNCHANGED <<step, data_size>>

\* What main.c writes as DeviceInfo has no active bit: the chip lets it be.
SkipInactive ==
    /\ cur # 0 /\ ~Active
    /\ cur' = 0
    /\ UNCHANGED <<mem, step, data_size, dev>>

-----------------------------------------------------------------------------
\* One call of a function of usb.c.
Send(s) ==
    /\ step' = s
    /\ mem' = Written(mem, Base, Requests[s])
    /\ cur' = Base

\* While no message has come the program calls the function again.
Resend ==
    /\ step < Enumerated /\ cur # DeviceInfoAt
    /\ Send(step)
    /\ UNCHANGED <<data_size, dev>>

\* The list has ended and the first TD shows three retries left: next request.
NextRequest ==
    /\ cur = 0 /\ step < Enumerated /\ step # 5
    /\ mem[\h0508] = Finished
    /\ IF step + 1 = Enumerated
       THEN step' = Enumerated /\ UNCHANGED <<mem, cur>>
       ELSE Send(step + 1)
    /\ UNCHANGED <<data_size, dev>>

\* After the configuration descriptor: write the endpoint descriptor, start the
\* chip on it, read the packet size; then SetConfig, whether or not the chip
\* has looked at the list in between.
GetDeviceInfo ==
    /\ cur = 0 /\ step = 5 /\ data_size = 0
    /\ mem[\h0508] = Finished
    /\ mem' = Written(mem, DeviceInfoAt, DeviceInfo)
    /\ cur' = DeviceInfoAt
    /\ data_size' = mem'[\h057C] % 256
    /\ UNCHANGED <<step, dev>>

SetConfig ==
    /\ step = 5 /\ data_size # 0
    /\ Send(6)
    /\ UNCHANGED <<data_size, dev>>

\* Anything else in the retry word: back to USB_HOT_PLUG, which resets the bus.
Restart ==
    /\ cur = 0 /\ step < Enumerated /\ ~(step = 5 /\ data_size # 0)
    /\ mem[\h0508] # Finished
    /\ Send(1)
    /\ data_size' = 0
    /\ dev' = FreshDevice

\* The poll loop, for as long as the keyboard stays: here, for good.
Poll ==
    /\ cur = 0 /\ step = Enumerated
    /\ \E toggle \in {0, 1} : mem' = Written(mem, Base, UsbPoll(toggle, data_size))
    /\ cur' = Base
    /\ UNCHANGED <<step, data_size, dev>>

TransferInit ==
    /\ step = 1
    /\ mem = Written([a \in Addresses |-> 0], Base, UsbSetAddress)
    /\ cur = Base
    /\ data_size = 0
    /\ dev = FreshDevice

TransferNext ==
    \/ Execute \/ SkipInactive
    \/ Resend \/ NextRequest \/ GetDeviceInfo \/ SetConfig \/ Restart \/ Poll

TransferSpec == TransferInit /\ [][TransferNext]_transferVars

-----------------------------------------------------------------------------
(* The way of a key to a player.                                           *)

RollOver == 1
NumSlots == 6

SlotCode(i) ==
    IF Len(down) > NumSlots THEN RollOver
    ELSE IF i <= Len(down) THEN Code[down[i]] ELSE 0

\* Slots go to bytes 2 to 7 of the report, little-endian words at 0x051e.
Report == [k \in 1 .. 3 |-> SlotCode(2 * k - 1) + 256 * SlotCode(2 * k)]

Down == {down[i] : i \in DOMAIN down}

\* A key goes down and is appended, or comes up and closes its gap; the next
\* poll takes the report to the register.
Polled == keycode' = key_bits(Report')

Press(key) ==
    /\ key \notin Down /\ Len(down) < MaxDown
    /\ down' = Append(down, key)
    /\ Polled

Release(key) ==
    /\ \E i \in DOMAIN down : down[i] = key /\ down' = RemoveAt(down, i)
    /\ Polled

PathInit == down = <<>> /\ keycode = {}

PathNext == \E key \in Keys : Press(key) \/ Release(key)

PathSpec == PathInit /\ [][PathNext]_pathVars

-----------------------------------------------------------------------------
\* Descriptors and data share the memory from 0x0500 on.  While the chip executes
\* a list, nothing the keyboard sends overwrites it: only retry words change.
\* (The buffer addresses and lengths of all requests in usb.c.)
IsRetryWord(i) == i = 5 \/ (i > 14 /\ (i - 15) % 6 = 0)
IsToggle(i) == step = Enumerated /\ i = 4

ListIntact ==
    cur \in Starts(List) =>
        \A i \in 1 .. Len(List) :
            IsRetryWord(i) \/ IsToggle(i) \/ mem[Base + 2 * (i - 1)] = List[i]

\* The chip never takes data, or the middle of a TD, for a TD.
\* (The next addresses of all requests.)
WalkInList == cur \in {0, DeviceInfoAt} \cup Starts(List)

\* Every packet goes by the toggle that the keyboard expects, through requests
\* that are called again at any moment and answers of every length.
\* (The toggles of all requests.)
TogglesMatch ==
    cur # 0 /\ Active /\ Answers /\ step < Enumerated =>
        /\ PidOf(TD, 1) = PidIn /\ dev.stage = "data" => ToggleOf(TD, 1) = dev.toggle
        /\ PidOf(TD, 1) = PidIn /\ dev.stage = "ack" => ToggleOf(TD, 1) = Data1
        /\ PidOf(TD, 1) = PidOut => ToggleOf(TD, 1) = Data1

\* From the second descriptor request on the keyboard has the address that all
\* requests are sent to, although nothing looks at the end of SetAddress.
\* (main.c lines 191-203 and 221-235.)
AddressKnown == step >= 3 => dev.addr = 2

\* The interface protocol is read from where the descriptor really has it, and
\* the packet size comes out as 8 whatever was there.  (main.c lines 343-376.)
DescriptorInPlace ==
    /\ step = 5 /\ data_size = 0 /\ dev.sent >= 24 => mem[\h056C] = DataWord(16)
    /\ step >= 6 => data_size = 8

\* The lists of a transfer stay whole, are walked from TD to TD, and go by the
\* toggles that the keyboard expects.
ListsRight == ListIntact /\ WalkInList /\ TogglesMatch /\ DescriptorInPlace

\* Until a report has come the words that main.c reads keys from hold what the
\* enumeration left there: that must not be the code of any key.
\* (main.c lines 555-557 after a poll that failed; usb.c 433-523.)
NoGhostKeys ==
    step = Enumerated =>
        LET words == <<mem[\h051E], mem[\h0520], mem[\h0522]>>
        IN  key_bits(words) = {} \/ words = <<DataWord(2), DataWord(4), DataWord(6)>>

\* "set configuration done!" (main.c line 407) and what follows it.
ConfigurationDone == step > 6 => dev.configured

\* The register shows one bit for each key that is down, wherever its slot:
\* no key hides or imitates another.  With more than six keys down it shows none
\* at all.  (The loops of main.c lines 559-561 and the cases below them.)
EveryKeyShows ==
    /\ Cardinality(keycode) = IF Len(down) <= NumSlots THEN Cardinality(Down) ELSE 0
    /\ Len(down) <= NumSlots => \A key \in Down : KeyBit[Code[key]] \in keycode

\* No player moves because of a key of the other: what the two players see are
\* the moves of their own keys, though both share the slots of one report.
PlayersApart ==
    \A p \in {1, 2} :
        Moves(p, keycode) # {} => Down \cap {MoveKeys(p)[m] : m \in DOMAIN MoveKeys(p)} # {}

\* Every key that is down shows, in any slot, and only for its own player.
KeysArrive == EveryKeyShows /\ PlayersApart

\* A key reaches block_logic under its own name.
\* (The comments of main.c lines 563-613, the assignments of block_logic.sv 163-175.)
KeyNamesAgree == \A bit \in keycode \ {SpaceBit} : KeyWire[bit + 1] \in Down
=============================================================================
