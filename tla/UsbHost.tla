------------------------------ MODULE UsbHost ------------------------------
(***************************************************************************)
(* The keyboard program: main.c with the functions of usb.c that it waits  *)
(* in, the BIOS of the USB chip, and a keyboard that is pulled and plugged *)
(* in while keys go down and come up.  The program is sequential: pc is    *)
(* the place in main.c.  Each access to the chip that another one may      *)
(* overtake is a step of its own; delays are not modelled, time passes     *)
(* between any two steps.  The chip and the keyboard are external: they do *)
(* what the program relies on, at any moment.                              *)
(***************************************************************************)
EXTENDS UsbRequests

CONSTANTS
    Reports,       \* bound: the reports of the keyboard, three words each
    Faults,        \* TRUE: a transfer may fail for good, a command be refused
    Prompt,        \* TRUE: the chip does nothing in the moment between a look
                   \* at the status and the next call of a request, and in
                   \* that between a read of the message and the write of zero
    SlowHands,     \* TRUE: the keyboard comes back only after it was missed
    PortMessages   \* TRUE: the chip also reports that a device comes or goes

NoKeys == <<0, 0, 0>>

ASSUME HostAssumption ==
    /\ NoKeys \in Reports /\ Reports \subseteq [1 .. 3 -> Nat]
    /\ {Faults, Prompt, SlowHands, PortMessages} \subseteq BOOLEAN

VARIABLES
    pc,        \* where main.c is
    step,      \* the request in progress, PollStep in the poll loop
    toggle,    \* parity of main.c's toggle
    tries,     \* hot_plug_count
    val,       \* usb_ctl_val in UsbWaitTDListDone
    keycode,   \* the register that the hardware reads
    cmd,       \* the command in the chip's mailbox that it has not executed
    ack,       \* the answer in the mailbox is COMM_ACK
    mbxflag,   \* HPI_STATUS: an answer is waiting
    msg,       \* the bits of the SIE1 message register
    msgflag,   \* HPI_STATUS: an SIE1 message is waiting
    cur,       \* what the chip does with the list: "idle", "first" TD, "rest"
    list,      \* the request that is in its memory
    first,     \* the retry word of the first TD: "armed", "finished", "failed"
    words,     \* 0x051e, 0x0520, 0x0522: where main.c reads the keys
    plugged, held, kb   \* the keyboard: present, its keys, its state

program  == <<step, toggle, tries, val, keycode>>
mailbox  == <<cmd, ack, mbxflag>>
message  == <<msg, msgflag>>
transfer == <<cur, list, first, words>>
keyboard == <<plugged, held, kb>>
vars == <<pc, program, mailbox, message, transfer, keyboard>>

PollStep == Len(Requests) + 1
KeyAddresses == <<\h051E, \h0520, \h0522>>

\* What the program asks of the chip's BIOS, through the registers of an interrupt,
\* and what it reports; of the two ports of an interface only one is used.
Commands == {"init", "bus_reset"}
Messages == {"TDListDone", "AINS", "ARMV"}

\* A keyboard after power-up or a bus reset: no address, and a report to send
\* only when its keys differ from what it sent last.
FreshKeyboard == [addr |-> 0, configured |-> FALSE, sent |-> NoKeys]

\* A read of the USB control register: is a device there?  While the space key
\* resets the bus interface every read returns zero.
Present == plugged /\ ~space_rst(keycode)

At(p)   == pc = p
Goto(p) == pc' = p

-----------------------------------------------------------------------------
(* USB_HOT_PLUG to the end of step 2: reset the chip, then the bus.        *)

UsbSoftReset ==
    /\ At("reset") /\ Goto("init")
    /\ cmd' = "none" /\ ack' = FALSE /\ mbxflag' = FALSE
    /\ msg' = {} /\ msgflag' = FALSE
    /\ cur' = "idle"
    /\ step' = 0
    /\ UNCHANGED <<toggle, tries, val, keycode, list, first, words, keyboard>>

\* Steps 1a and 1b: clear the message, ask for the host mode.
InitHost ==
    /\ At("init") /\ Goto("init_wait")
    /\ msg' = {}
    /\ cmd' = "init"
    /\ UNCHANGED <<program, ack, mbxflag, msgflag, transfer, keyboard>>

\* The loop on HPI_STATUS ends with any flag; then the mailbox decides.
InitAnswered ==
    /\ At("init_wait")
    /\ mbxflag \/ msgflag
    /\ mbxflag' = FALSE
    /\ Goto(IF ack THEN "bus_reset" ELSE "reset")
    /\ UNCHANGED <<program, cmd, ack, message, transfer, keyboard>>

\* Step 2: ask for a bus reset.
ResetBus ==
    /\ At("bus_reset") /\ Goto("bus_answer")
    /\ cmd' = "bus_reset"
    /\ UNCHANGED <<program, ack, mbxflag, message, transfer, keyboard>>

\* No loop on the status here: what the mailbox shows may be the answer to step 1.
BusAnswered ==
    /\ At("bus_answer")
    /\ mbxflag' = FALSE
    /\ Goto(IF ack THEN "detect" ELSE "reset")
    /\ tries' = 0
    /\ UNCHANGED <<step, toggle, val, keycode, cmd, ack, message, transfer, keyboard>>

\* Is a keyboard there?  One look and five more, then wait for one and start again.
Detect ==
    /\ At("detect")
    /\ IF Present THEN Goto("send") /\ step' = 1 /\ UNCHANGED tries
       ELSE IF tries < 5 THEN tries' = tries + 1 /\ UNCHANGED <<pc, step>>
       ELSE Goto("insert") /\ UNCHANGED <<step, tries>>
    /\ UNCHANGED <<toggle, val, keycode, mailbox, message, transfer, keyboard>>

Inserted ==
    /\ At("insert") /\ Present /\ Goto("reset")
    /\ UNCHANGED <<program, mailbox, message, transfer, keyboard>>

-----------------------------------------------------------------------------
(* Steps 3 to 9: the nine requests.                                        *)

\* Writing a list starts the chip on it, and covers what was there.  (The toggle
\* of a poll does not matter here.)
Write(s) ==
    LET w == IF s = PollStep THEN UsbPoll(toggle, 8) ELSE Requests[s]
    IN  /\ list' = s /\ cur' = "first" /\ first' = "armed"
        /\ words' = [k \in 1 .. 3 |-> IF Covers(w, KeyAddresses[k])
                                      THEN WordAt(w, KeyAddresses[k]) ELSE words[k]]

Send ==
    /\ At("send") /\ Goto("wait")
    /\ Write(step)
    /\ UNCHANGED <<program, mailbox, message, keyboard>>

\* The loop on HPI_STATUS: a look at the flag, and if it is not set the same
\* call again and a delay.
LookForMessage ==
    /\ At("wait")
    /\ Goto(IF msgflag THEN "read" ELSE "resend")
    /\ UNCHANGED <<program, mailbox, message, transfer, keyboard>>

Resend ==
    /\ At("resend") /\ Goto("wait")
    /\ Write(step)
    /\ UNCHANGED <<program, mailbox, message, keyboard>>

\* UsbWaitTDListDone: read the message, which takes the flag down, and write
\* zero over it, until what was read is TDListDone and nothing else.
ReadMessage ==
    /\ At("read") /\ Goto("clear")
    /\ val' = msg
    /\ msgflag' = FALSE
    /\ UNCHANGED <<step, toggle, tries, keycode, mailbox, msg, transfer, keyboard>>

\* Faulty form: any message ends the wait.
ClearMessage_Any ==
    /\ At("clear")
    /\ msg' = {}
    /\ Goto(IF val = {} THEN "read" ELSE IF step = PollStep THEN "keys" ELSE "check")
    /\ UNCHANGED <<program, mailbox, msgflag, transfer, keyboard>>

ClearMessage ==
    /\ At("clear")
    /\ msg' = {}
    /\ Goto(IF val # {"TDListDone"} THEN "read" ELSE IF step = PollStep THEN "keys" ELSE "check")
    /\ UNCHANGED <<program, mailbox, msgflag, transfer, keyboard>>

\* The first TD tells whether the request is done.  After the configuration
\* descriptor comes the device information, which UsbTransfer models.
CheckFirst ==
    /\ At("check")
    /\ IF first = "finished"
       THEN /\ step' = step + 1
            /\ Goto(IF step' = PollStep THEN "poll" ELSE "send")
       ELSE Goto("retry_count") /\ UNCHANGED step
    /\ UNCHANGED <<toggle, tries, val, keycode, mailbox, message, transfer, keyboard>>

\* UsbGetRetryCnt: a completion that came since is cleared and another one
\* waited for.  Either way the enumeration starts again.
UsbGetRetryCnt ==
    /\ At("retry_count")
    /\ msgflag' = FALSE
    /\ IF msg = {"TDListDone"} THEN msg' = {} /\ Goto("retry_wait")
       ELSE Goto("reset") /\ UNCHANGED msg
    /\ UNCHANGED <<program, mailbox, transfer, keyboard>>

RetryAnswered ==
    /\ At("retry_wait") /\ msgflag /\ Goto("reset")
    /\ UNCHANGED <<program, mailbox, message, transfer, keyboard>>

-----------------------------------------------------------------------------
(* The poll loop.                                                          *)

Poll ==
    /\ At("poll") /\ Goto("wait")
    /\ toggle' = 1 - toggle
    /\ Write(PollStep)
    /\ UNCHANGED <<step, tries, val, keycode, mailbox, message, keyboard>>

\* Whatever became of the transfer, the words in memory are the keys.
ShowKeys ==
    /\ At("keys") /\ Goto("look")
    /\ keycode' = key_bits(words)
    /\ tries' = 0
    /\ UNCHANGED <<step, toggle, val, mailbox, message, transfer, keyboard>>

\* Is the keyboard still there?  One look and seven more before it is missed.
LookForDevice ==
    /\ At("look")
    /\ IF Present THEN Goto("poll") /\ UNCHANGED tries
       ELSE IF tries < 7 THEN tries' = tries + 1 /\ UNCHANGED pc
       ELSE Goto("removed") /\ UNCHANGED tries
    /\ UNCHANGED <<step, toggle, val, keycode, mailbox, message, transfer, keyboard>>

\* Faulty form: the program polls on, without a new enumeration.
PluggedInAgain_NoReset ==
    /\ At("removed") /\ Present /\ Goto("poll")
    /\ UNCHANGED <<program, mailbox, message, transfer, keyboard>>

PluggedInAgain ==
    /\ At("removed") /\ Present /\ Goto("reset")
    /\ UNCHANGED <<program, mailbox, message, transfer, keyboard>>

Program ==
    \/ UsbSoftReset \/ InitHost \/ InitAnswered \/ ResetBus \/ BusAnswered
    \/ Detect \/ Inserted
    \/ Send \/ LookForMessage \/ Resend \/ ReadMessage \/ ClearMessage
    \/ CheckFirst \/ UsbGetRetryCnt \/ RetryAnswered
    \/ Poll \/ ShowKeys \/ LookForDevice \/ PluggedInAgain

-----------------------------------------------------------------------------
(* The chip.  It executes a command before it goes on with a list.         *)

ExecCommand ==
    /\ cmd # "none"
    /\ cmd' = "none" /\ mbxflag' = TRUE
    /\ ack' \in IF Faults THEN BOOLEAN ELSE {TRUE}
    /\ kb' = IF cmd = "bus_reset" THEN FreshKeyboard ELSE kb
    /\ UNCHANGED <<pc, program, message, transfer, plugged, held>>

Post(m) == msg' = msg \cup {m} /\ msgflag' = TRUE

Answers == plugged /\ kb.addr = (IF list = 1 THEN 0 ELSE 2)
OffGuard == Prompt => pc # "clear" /\ (list = PollStep \/ pc # "resend")

ExecFirst ==
    /\ cmd = "none" /\ cur = "first" /\ list < PollStep /\ OffGuard
    /\ \/ Answers /\ cur' = "rest" /\ first' = "finished" /\ UNCHANGED message
       \/ /\ ~Answers \/ Faults
          /\ cur' = "idle" /\ first' = "failed" /\ Post("TDListDone")
    /\ UNCHANGED <<pc, program, mailbox, list, words, keyboard>>

\* The rest of the list.  Only when it ends well the keyboard does what was
\* asked; none of this shows in the first TD.
ExecRest ==
    /\ cmd = "none" /\ cur = "rest" /\ OffGuard
    /\ cur' = "idle" /\ Post("TDListDone")
    /\ \/ /\ Answers
          /\ kb' = [kb EXCEPT !.addr = IF list = 1 THEN 2 ELSE @,
                              !.configured = (list = 6) \/ @]
       \/ (~Answers \/ Faults) /\ UNCHANGED kb
    /\ UNCHANGED <<pc, program, mailbox, list, first, words, plugged, held>>

\* A poll waits for as long as the keyboard has nothing new.
ExecPoll ==
    /\ cmd = "none" /\ cur = "first" /\ list = PollStep /\ OffGuard
    /\ cur' = "idle" /\ Post("TDListDone")
    /\ \/ /\ Answers /\ kb.configured /\ held # kb.sent
          /\ words' = held /\ kb' = [kb EXCEPT !.sent = held] /\ first' = "finished"
       \/ (~Answers \/ ~kb.configured \/ Faults) /\ first' = "failed" /\ UNCHANGED <<words, kb>>
    /\ UNCHANGED <<pc, program, mailbox, list, plugged, held>>

Chip == ExecCommand \/ ExecFirst \/ ExecRest \/ ExecPoll

-----------------------------------------------------------------------------
(* The player.                                                             *)

Tell(m) == IF PortMessages THEN Post(m) ELSE UNCHANGED message

Unplug ==
    /\ plugged /\ plugged' = FALSE /\ held' = NoKeys
    /\ Tell("ARMV")
    /\ UNCHANGED <<pc, program, mailbox, transfer, kb>>

PlugIn ==
    /\ ~plugged /\ plugged' = TRUE /\ kb' = FreshKeyboard
    /\ SlowHands => pc \in {"insert", "removed"}
    /\ Tell("AINS")
    /\ UNCHANGED <<pc, program, mailbox, transfer, held>>

ChangeKeys ==
    /\ plugged
    /\ held' \in Reports \ {held}
    /\ UNCHANGED <<pc, program, mailbox, message, transfer, plugged, kb>>

Player == Unplug \/ PlugIn \/ ChangeKeys

Init ==
    /\ pc = "reset" /\ step = 0 /\ toggle = 0 /\ tries = 0 /\ val = {} /\ keycode = {}
    /\ cmd = "none" /\ ack = FALSE /\ mbxflag = FALSE
    /\ msg = {} /\ msgflag = FALSE
    /\ cur = "idle" /\ list = 1 /\ first = "failed" /\ words = NoKeys
    /\ plugged \in BOOLEAN /\ held = NoKeys /\ kb = FreshKeyboard

Next == Program \/ Chip \/ Player

Spec == Init /\ [][Next]_vars

\* The processor runs one program; the chip gets to its list again and again,
\* however often the program rewrites it.
Fairness == WF_vars(Program) /\ WF_vars(ExecCommand)
            /\ SF_vars(ExecFirst) /\ SF_vars(ExecRest) /\ SF_vars(ExecPoll)

FairSpec == Spec /\ Fairness

-----------------------------------------------------------------------------
Places == {"reset", "init", "init_wait", "bus_reset", "bus_answer", "detect", "insert",
           "send", "wait", "resend", "read", "clear", "check", "retry_count", "retry_wait",
           "poll", "keys", "look", "removed"}

TypeOK ==
    /\ pc \in Places /\ step \in 0 .. PollStep /\ toggle \in {0, 1} /\ tries \in 0 .. 7
    /\ val \subseteq Messages /\ keycode \subseteq 0 .. SpaceBit
    /\ cmd \in {"none"} \cup Commands /\ ack \in BOOLEAN /\ mbxflag \in BOOLEAN
    /\ msg \subseteq Messages /\ msgflag \in BOOLEAN
    /\ cur \in {"idle", "first", "rest"} /\ list \in 1 .. PollStep
    /\ first \in {"armed", "finished", "failed"}
    /\ words \in [1 .. 3 -> Nat] /\ plugged \in BOOLEAN /\ held \in Reports
    /\ kb \in [addr : {0, 2}, configured : BOOLEAN, sent : Reports]

\* What the register comes to show is what the keyboard has reported last, and
\* never keys made out of a report that did not come, of what the enumeration
\* left in memory, or of a keyboard used before.  Exempt is one that was plugged
\* in so fast that it was not missed.  (main.c lines 553-620: the words are taken
\* for keys after every poll.)
ShowsReported ==
    [][keycode' # keycode /\ plugged /\ kb.addr # 0 => keycode' = key_bits(kb.sent)]_vars

\* In the poll loop a keyboard that was not plugged in behind the program's back
\* has its configuration.
PollsConfigured == step = PollStep /\ plugged /\ kb.addr # 0 => kb.configured

\* "[INFO]: the keyboard has been removed!!!" (main.c line 637).
RemovedIsRemoved == [][pc # "removed" /\ pc' = "removed" => ~plugged]_vars

\* A keyboard that stays plugged in ends up being polled.
Reaches == <>[]plugged => <>[](step = PollStep)

\* Keys that are held show in the register, and stay there.
HeldKeysShow ==
    \A r \in Reports \ {NoKeys} :
        <>[](plugged /\ held = r) => <>[](keycode = key_bits(r))

\* Keys that were reported and are let go of leave the register, unless the
\* keyboard is pulled or other keys go down.
ReleaseShows ==
    held = NoKeys /\ kb.sent # NoKeys /\ plugged
        ~> keycode = {} \/ ~plugged \/ held # NoKeys

\* With no keyboard the program ends up waiting for one.
WaitsForKeyboard == <>[]~plugged => <>[](pc \in {"insert", "removed"})

\* UsbWaitTDListDone "until HUSB_TDListDone is read from HPI Data" (usb.h line 92).
WaitEnds ==
    pc \in {"read", "clear"} /\ "TDListDone" \in msg ~> pc \notin {"read", "clear"}
=============================================================================
