---------------------------- MODULE UsbRequests ----------------------------
(***************************************************************************)
(* The requests of usb.c, word for word.  A request is a list of transfer  *)
(* descriptors (TDs) that the processor writes into the memory of the      *)
(* CY7C67200 from address 0x0500 on; the BIOS of the chip executes it from *)
(* there.  A TD is six words:                                              *)
(*                                                                         *)
(*   +0 buffer address     +2 length            +4 device address, PID, EP *)
(*   +6 data toggle, armed +8 retries, active   +A address of the next TD  *)
(*                                                                         *)
(* and the first one, the SETUP, is followed by its eight bytes of data.   *)
(* The last of them brings the report of the keyboard: six slots for the   *)
(* codes of the keys that are down, two to a word of the memory.           *)
(***************************************************************************)
EXTENDS Integers, SequencesExt

Base     == \h0500      \* where every list starts
Armed    == \h0013      \* active, three retries
Finished == \h0003      \* done, no retry was needed: what main.c looks for
Data0    == \h0001
Data1    == \h0041
Device   == \h0200      \* the address that UsbSetAddress assigns, in place

\* The fields of a TD that starts at word i of a list of words.
BufferOf(w, i) == w[i]
LengthOf(w, i) == w[i + 1]
PidOf(w, i)    == (w[i + 2] % 256) \div 16
AddressOf(w, i) == w[i + 2] \div 256
ToggleOf(w, i) == w[i + 3]
NextOf(w, i)   == w[i + 5]

PidSetup == \hD
PidIn    == \h9
PidOut   == \h1

\* The words of the three kinds of TD.
Setup(dev)                     == <<\h050C, 8, dev + \hD0, Data0, Armed, \h0514>>
DataIn(buf, len, toggle, next) == <<buf, len, Device + \h90, toggle, Armed, next>>
StatusIn(dev)                  == <<0, 0, dev + \h90, Data1, Armed, 0>>
StatusOut                      == <<0, 0, Device + \h10, Data1, Armed, 0>>

UsbSetAddress ==
    Setup(0) \o <<\h0500, 2, 0, 0>> \o StatusIn(0)

UsbGetDeviceDesc1 ==
    Setup(Device) \o <<\h0680, \h0100, 0, 8>>
    \o DataIn(\h052C, 8, Data1, \h0520) \o StatusOut

UsbGetDeviceDesc2 ==
    Setup(Device) \o <<\h0680, \h0100, 0, \h12>>
    \o DataIn(\h0544, 8, Data1, \h0520) \o DataIn(\h054C, 8, Data0, \h052C)
    \o DataIn(\h0554, 2, Data1, \h0538) \o StatusOut

UsbGetConfigDesc1 ==
    Setup(Device) \o <<\h0680, \h0200, 0, 9>>
    \o DataIn(\h0544, 8, Data1, \h0520) \o DataIn(\h054C, 1, Data0, \h052C)
    \o StatusOut

UsbGetConfigDesc2 ==
    Setup(Device) \o <<\h0680, \h0200, 0, \hFF>>
    \o DataIn(\h055C, 8, Data1, \h0520) \o DataIn(\h0564, 8, Data0, \h052C)
    \o DataIn(\h056C, 8, Data1, \h0538) \o DataIn(\h0574, 8, Data0, \h0544)
    \o DataIn(\h057C, 2, Data1, \h0550) \o StatusOut

UsbSetConfig ==
    Setup(Device) \o <<\h0900, 1, 0, 0>> \o StatusIn(Device)

UsbClassRequest ==
    Setup(Device) \o <<\h0A21, 0, 0, 0>> \o StatusIn(Device)

UsbGetHidDesc ==
    Setup(Device) \o <<\h0681, \h2100, 0, \h7B>>
    \o DataIn(\h0544, 8, Data1, \h0520) \o StatusOut

\* Faulty form: the second packet asks for nine bytes, and 9 is the code of a key.
UsbGetReportDesc_Nine ==
    Setup(Device) \o <<\h0681, \h2200, 0, \h7B>>
    \o DataIn(\h0580, 8, Data1, \h0520) \o DataIn(\h0588, 9, Data0, \h052C)
    \o DataIn(\h0590, 8, Data1, \h0538) \o DataIn(\h0598, 8, Data0, \h0544)
    \o DataIn(\h05A0, 8, Data1, \h0550) \o DataIn(\h05A8, 8, Data0, \h055C)
    \o DataIn(\h05B0, 8, Data1, \h0568) \o DataIn(\h05B8, 3, Data0, \h0574)
    \o StatusOut

UsbGetReportDesc ==
    Setup(Device) \o <<\h0681, \h2200, 0, \h7B>>
    \o DataIn(\h0580, 8, Data1, \h0520) \o DataIn(\h0588, 8, Data0, \h052C)
    \o DataIn(\h0590, 8, Data1, \h0538) \o DataIn(\h0598, 8, Data0, \h0544)
    \o DataIn(\h05A0, 8, Data1, \h0550) \o DataIn(\h05A8, 8, Data0, \h055C)
    \o DataIn(\h05B0, 8, Data1, \h0568) \o DataIn(\h05B8, 3, Data0, \h0574)
    \o StatusOut

\* The poll of endpoint 1: one TD, whose toggle follows the parity of the
\* counter of polls.
UsbPoll(toggle, data_size) ==
    <<\h051C, data_size % 16, Device + \h91,
      IF toggle % 2 = 1 THEN Data0 ELSE Data1, Armed, 0>>

\* The nine requests of the enumeration, in the order of main.c.
Requests == <<UsbSetAddress, UsbGetDeviceDesc1, UsbGetDeviceDesc2, UsbGetConfigDesc1,
              UsbGetConfigDesc2, UsbSetConfig, UsbClassRequest, UsbGetHidDesc,
              UsbGetReportDesc>>

\* Before SetConfig the program writes an endpoint descriptor of its own over
\* the last bytes of the one it has read, has the chip take it for a list, and
\* reads the packet size out of what it wrote.
DeviceInfoAt == \h0576
DeviceInfo   == <<\h073F, \h8105, \h0003, \h0008, \hAC0A>>

-----------------------------------------------------------------------------
\* The word of list w at an address, and the addresses it occupies.
Index(a)     == (a - Base) \div 2 + 1
Covers(w, a) == a >= Base /\ Index(a) \in 1 .. Len(w)
WordAt(w, a) == w[Index(a)]

\* Writing a list into memory: IO_write(HPI_ADDR, at), then the words to
\* HPI_DATA, for which the chip advances the address by itself.
Written(mem, at, w) ==
    [a \in DOMAIN mem |-> IF a >= at /\ (a - at) \div 2 + 1 \in 1 .. Len(w)
                          THEN w[(a - at) \div 2 + 1] ELSE mem[a]]

-----------------------------------------------------------------------------
(* The report of the keyboard, from its slots to the bits that block_logic *)
(* sees: main.c turns the three words into the register keycode, here the  *)
(* set of the bits that are 1.                                             *)

\* The key that the comment beside each case of the switch names.
Code == [A |-> \h04, S |-> \h16, D |-> \h07, F |-> \h09, G |-> \h0A, H |-> \h0B,
         COMMA |-> \h36, PERIOD |-> \h37, BACKSLASH |-> \h38,
         ONE |-> \h59, TWO |-> \h5A, THREE |-> \h5B, SPACE |-> \h2C]

KeyNames == DOMAIN Code

\* The bit that each case sets.
KeyBit ==
    [c \in {\h04, \h16, \h07, \h09, \h0A, \h0B, \h36, \h37, \h38, \h59, \h5A, \h5B, \h2C} |->
        CASE c = \h04 -> 0 [] c = \h16 -> 1 [] c = \h07 -> 2  [] c = \h09 -> 3  [] c = \h0A -> 5
          [] c = \h0B -> 4 [] c = \h36 -> 6 [] c = \h37 -> 7  [] c = \h38 -> 8
          [] c = \h59 -> 9 [] c = \h5A -> 10 [] c = \h5B -> 11 [] c = \h2C -> 12]

\* Faulty form: the inner loop takes the words, the outer one stops at the low bytes.
Slots_LowBytes(keycodes) ==
    [i \in 1 .. 6 |-> IF i <= 3 THEN keycodes[i] % 256 ELSE 0]

\* The six codes in three words, the low bytes first, as the two loops read them.
Slots(keycodes) ==
    [i \in 1 .. 6 |-> IF i <= 3 THEN keycodes[i] % 256 ELSE keycodes[i - 3] \div 256]

key_bits(keycodes) ==
    {KeyBit[c] : c \in {Slots(keycodes)[i] : i \in 1 .. 6} \cap DOMAIN KeyBit}

\* tetris.sv: the space key resets the hardware.
SpaceBit == 12
space_rst(keycode) == SpaceBit \in keycode

\* block_logic: the names of the bits, and what they do for each player.
KeyWire == <<"A", "S", "D", "F", "G", "H", "COMMA", "PERIOD", "BACKSLASH",
             "ONE", "TWO", "THREE">>

MoveKeys(player) ==
    IF player = 1
    THEN [left |-> "A", right |-> "D", speed_down |-> "S",
          rotate_left |-> "F", rotate_right |-> "G", hold_block |-> "H"]
    ELSE [left |-> "COMMA", right |-> "BACKSLASH", speed_down |-> "PERIOD",
          rotate_left |-> "ONE", rotate_right |-> "THREE", hold_block |-> "TWO"]

Moves(player, keycode) ==
    {m \in DOMAIN MoveKeys(player) :
        \E bit \in keycode \ {SpaceBit} : KeyWire[bit + 1] = MoveKeys(player)[m]}
=============================================================================
