--------------------------- MODULE UsbHost_proofs ---------------------------
(***************************************************************************)
(* The keyboard program for every set of reports and every behaviour of    *)
(* chip, keyboard and player.                                              *)
(***************************************************************************)
EXTENDS UsbHost, SequenceTheorems, TLAPS

-----------------------------------------------------------------------------
(* The lists in memory, where they lie over the words of the keys.         *)

LastStep == PollStep - 1     \* the last request of the enumeration

LEMMA Numbers == PollStep = 10 /\ LastStep = 9
BY DEF PollStep, LastStep, Requests

LEMMA Joins ==
  \A s \in Seq(Nat), t \in Seq(Nat) :
    /\ s \o t \in Seq(Nat) /\ Len(s \o t) = Len(s) + Len(t)
    /\ \A i \in 1 .. Len(s) : (s \o t)[i] = s[i]
    /\ \A i \in 1 .. Len(t) : (s \o t)[Len(s) + i] = t[i]
OBVIOUS

LEMMA JoinTypes == \A s \in Seq(Nat), t \in Seq(Nat) : s \o t \in Seq(Nat)
BY Joins

LEMMA SetupType == ASSUME NEW dev \in Nat PROVE Setup(dev) \in Seq(Nat)
BY DEF Setup, Data0, Armed

LEMMA DataInIs ==
  ASSUME NEW b \in Nat, NEW l \in Nat, NEW t \in {Data0, Data1}, NEW n \in Nat
  PROVE  /\ DataIn(b, l, t, n) \in Seq(Nat) /\ Len(DataIn(b, l, t, n)) = 6
         /\ DataIn(b, l, t, n)[1] = b /\ DataIn(b, l, t, n)[2] = l
         /\ DataIn(b, l, t, n)[6] = n
BY DEF DataIn, Data0, Data1, Armed, Device

LEMMA StatusType == StatusOut \in Seq(Nat) /\ \A dev \in Nat : StatusIn(dev) \in Seq(Nat)
BY DEF StatusOut, StatusIn, Device, Data1, Armed

LEMMA ListTypes == \A s \in 1 .. LastStep : Requests[s] \in Seq(Nat)
<1>d. Device \in Nat
  BY DEF Device
<1>1. UsbSetAddress \in Seq(Nat)
  <2>1. Setup(0) \in Seq(Nat) /\ StatusIn(0) \in Seq(Nat)
    BY <1>d, SetupType, StatusType
  <2>2. <<\h0500, 2, 0, 0>> \in Seq(Nat)
    OBVIOUS
  <2> QED
    BY <2>1, <2>2, JoinTypes DEF UsbSetAddress
<1>2. UsbGetDeviceDesc1 \in Seq(Nat)
  <2>1. Setup(Device) \in Seq(Nat) /\ StatusOut \in Seq(Nat)
    BY <1>d, SetupType, StatusType
  <2>2. <<\h0680, \h0100, 0, 8>> \in Seq(Nat)
    OBVIOUS
  <2>3. DataIn(\h052C, 8, Data1, \h0520) \in Seq(Nat)
    BY DataInIs
  <2> QED
    BY <2>1, <2>2, <2>3, JoinTypes DEF UsbGetDeviceDesc1
<1>3. UsbGetDeviceDesc2 \in Seq(Nat)
  <2>1. Setup(Device) \in Seq(Nat) /\ StatusOut \in Seq(Nat)
    BY <1>d, SetupType, StatusType
  <2>2. <<\h0680, \h0100, 0, \h12>> \in Seq(Nat)
    OBVIOUS
  <2>3. DataIn(\h0544, 8, Data1, \h0520) \in Seq(Nat) /\ DataIn(\h054C, 8, Data0, \h052C) \in Seq(Nat)
    BY DataInIs
  <2>4. DataIn(\h0554, 2, Data1, \h0538) \in Seq(Nat)
    BY DataInIs
  <2> QED
    BY <2>1, <2>2, <2>3, <2>4, JoinTypes DEF UsbGetDeviceDesc2
<1>4. UsbGetConfigDesc1 \in Seq(Nat)
  <2>1. Setup(Device) \in Seq(Nat) /\ StatusOut \in Seq(Nat)
    BY <1>d, SetupType, StatusType
  <2>2. <<\h0680, \h0200, 0, 9>> \in Seq(Nat)
    OBVIOUS
  <2>3. DataIn(\h0544, 8, Data1, \h0520) \in Seq(Nat) /\ DataIn(\h054C, 1, Data0, \h052C) \in Seq(Nat)
    BY DataInIs
  <2> QED
    BY <2>1, <2>2, <2>3, JoinTypes DEF UsbGetConfigDesc1
<1>5. UsbGetConfigDesc2 \in Seq(Nat)
  <2>1. Setup(Device) \in Seq(Nat) /\ StatusOut \in Seq(Nat)
    BY <1>d, SetupType, StatusType
  <2>2. <<\h0680, \h0200, 0, \hFF>> \in Seq(Nat)
    OBVIOUS
  <2>3. DataIn(\h055C, 8, Data1, \h0520) \in Seq(Nat) /\ DataIn(\h0564, 8, Data0, \h052C) \in Seq(Nat)
    BY DataInIs
  <2>4. DataIn(\h056C, 8, Data1, \h0538) \in Seq(Nat) /\ DataIn(\h0574, 8, Data0, \h0544) \in Seq(Nat)
    BY DataInIs
  <2>5. DataIn(\h057C, 2, Data1, \h0550) \in Seq(Nat)
    BY DataInIs
  <2> QED
    BY <2>1, <2>2, <2>3, <2>4, <2>5, JoinTypes DEF UsbGetConfigDesc2
<1>6. UsbSetConfig \in Seq(Nat)
  <2>1. Setup(Device) \in Seq(Nat) /\ StatusIn(Device) \in Seq(Nat)
    BY <1>d, SetupType, StatusType
  <2>2. <<\h0900, 1, 0, 0>> \in Seq(Nat)
    OBVIOUS
  <2> QED
    BY <2>1, <2>2, JoinTypes DEF UsbSetConfig
<1>7. UsbClassRequest \in Seq(Nat)
  <2>1. Setup(Device) \in Seq(Nat) /\ StatusIn(Device) \in Seq(Nat)
    BY <1>d, SetupType, StatusType
  <2>2. <<\h0A21, 0, 0, 0>> \in Seq(Nat)
    OBVIOUS
  <2> QED
    BY <2>1, <2>2, JoinTypes DEF UsbClassRequest
<1>8. UsbGetHidDesc \in Seq(Nat)
  <2>1. Setup(Device) \in Seq(Nat) /\ StatusOut \in Seq(Nat)
    BY <1>d, SetupType, StatusType
  <2>2. <<\h0681, \h2100, 0, \h7B>> \in Seq(Nat)
    OBVIOUS
  <2>3. DataIn(\h0544, 8, Data1, \h0520) \in Seq(Nat)
    BY DataInIs
  <2> QED
    BY <2>1, <2>2, <2>3, JoinTypes DEF UsbGetHidDesc
<1>9. UsbGetReportDesc \in Seq(Nat)
  <2>1. Setup(Device) \in Seq(Nat) /\ StatusOut \in Seq(Nat)
    BY <1>d, SetupType, StatusType
  <2>2. <<\h0681, \h2200, 0, \h7B>> \in Seq(Nat)
    OBVIOUS
  <2>3. DataIn(\h0580, 8, Data1, \h0520) \in Seq(Nat) /\ DataIn(\h0588, 8, Data0, \h052C) \in Seq(Nat)
    BY DataInIs
  <2>4. DataIn(\h0590, 8, Data1, \h0538) \in Seq(Nat) /\ DataIn(\h0598, 8, Data0, \h0544) \in Seq(Nat)
    BY DataInIs
  <2>5. DataIn(\h05A0, 8, Data1, \h0550) \in Seq(Nat) /\ DataIn(\h05A8, 8, Data0, \h055C) \in Seq(Nat)
    BY DataInIs
  <2>6. DataIn(\h05B0, 8, Data1, \h0568) \in Seq(Nat) /\ DataIn(\h05B8, 3, Data0, \h0574) \in Seq(Nat)
    BY DataInIs
  <2> QED
    BY <2>1, <2>2, <2>3, <2>4, <2>5, <2>6, JoinTypes DEF UsbGetReportDesc
<1> QED
  BY <1>1, <1>2, <1>3, <1>4, <1>5, <1>6, <1>7, <1>8, <1>9, Numbers DEF Requests

\* What the enumeration leaves where the keys are read: no codes of keys.
Left == <<\h0520, \h0588, 8>>

LEMMA ReportDesc ==
  \A k \in 1 .. 3 : /\ Covers(UsbGetReportDesc, KeyAddresses[k])
                    /\ WordAt(UsbGetReportDesc, KeyAddresses[k]) = Left[k]
<1> DEFINE
      A  == Setup(Device) \o <<\h0681, \h2200, 0, \h7B>>
      E1 == DataIn(\h0580, 8, Data1, \h0520)
      E2 == DataIn(\h0588, 8, Data0, \h052C)
      E3 == DataIn(\h0590, 8, Data1, \h0538)
      E4 == DataIn(\h0598, 8, Data0, \h0544)
      E5 == DataIn(\h05A0, 8, Data1, \h0550)
      E6 == DataIn(\h05A8, 8, Data0, \h055C)
      E7 == DataIn(\h05B0, 8, Data1, \h0568)
      E8 == DataIn(\h05B8, 3, Data0, \h0574)
      C  == A \o E1 \o E2
<1>1. UsbGetReportDesc = C \o E3 \o E4 \o E5 \o E6 \o E7 \o E8 \o StatusOut
  BY DEF UsbGetReportDesc
<1>2. A \in Seq(Nat) /\ Len(A) = 10
  BY DEF Setup, Device, Data0, Armed
<1>3. E1 \in Seq(Nat) /\ Len(E1) = 6 /\ E1[6] = \h0520
  BY DataInIs
<1>4. E2 \in Seq(Nat) /\ Len(E2) = 6 /\ E2[1] = \h0588 /\ E2[2] = 8
  BY DataInIs
<1>5. E3 \in Seq(Nat) /\ E4 \in Seq(Nat)
  BY DataInIs
<1>6. E5 \in Seq(Nat) /\ E6 \in Seq(Nat)
  BY DataInIs
<1>7. E7 \in Seq(Nat) /\ E8 \in Seq(Nat)
  BY DataInIs
<1>0. StatusOut \in Seq(Nat)
  BY StatusType
<1> HIDE DEF A, E1, E2, E3, E4, E5, E6, E7, E8
<1>8. A \o E1 \in Seq(Nat) /\ Len(A \o E1) = 16 /\ (A \o E1)[16] = \h0520
  <2>1. A \o E1 \in Seq(Nat) /\ Len(A \o E1) = Len(A) + Len(E1)
        /\ \A i \in 1 .. Len(E1) : (A \o E1)[Len(A) + i] = E1[i]
    <3>1. A \in Seq(Nat) /\ E1 \in Seq(Nat)
      BY <1>2, <1>3
    <3> HIDE DEF C
    <3> QED
      BY <3>1, Joins, Zenon
  <2>2. 6 \in 1 .. Len(E1) /\ Len(A) + 6 = 16
    BY <1>2, <1>3
  <2>3. (A \o E1)[Len(A) + 6] = E1[6]
    BY <2>1, <2>2
  <2> QED
    BY <1>2, <1>3, <2>1, <2>2, <2>3
<1> DEFINE B == A \o E1
<1>9. C \in Seq(Nat) /\ Len(C) = 22 /\ C[16] = \h0520 /\ C[17] = \h0588 /\ C[18] = 8
  <2>0. C = B \o E2
    OBVIOUS
  <2>1. B \in Seq(Nat) /\ Len(B) = 16 /\ B[16] = \h0520
    BY <1>8
  <2> HIDE DEF B, C
  <2>2. C \in Seq(Nat) /\ Len(C) = Len(B) + Len(E2)
        /\ (\A i \in 1 .. Len(B) : C[i] = B[i])
        /\ \A i \in 1 .. Len(E2) : C[Len(B) + i] = E2[i]
    <3>1. B \in Seq(Nat) /\ E2 \in Seq(Nat)
      BY <1>4, <2>1
    <3> QED
      BY <3>1, <2>0, Joins, Zenon
  <2>3. 1 \in 1 .. Len(E2) /\ 2 \in 1 .. Len(E2) /\ 16 \in 1 .. Len(B)
    BY <1>4, <2>1
  <2>4. C[Len(B) + 1] = E2[1] /\ C[Len(B) + 2] = E2[2] /\ C[16] = B[16]
    BY <2>2, <2>3
  <2>5. Len(B) + 1 = 17 /\ Len(B) + 2 = 18 /\ Len(C) = 22
    BY <1>4, <2>1, <2>2
  <2> QED
    BY <1>4, <2>1, <2>2, <2>4, <2>5
<1> HIDE DEF C
<1>10. UsbGetReportDesc \in Seq(Nat) /\ Len(UsbGetReportDesc) >= 22
      /\ \A i \in 1 .. 22 : UsbGetReportDesc[i] = C[i]
  <2> DEFINE From(s) == s \in Seq(Nat) /\ Len(s) >= 22 /\ \A i \in 1 .. 22 : s[i] = C[i]
  <2>1. ASSUME NEW s \in Seq(Nat), Len(s) >= 22, \A i \in 1 .. 22 : s[i] = C[i],
               NEW t \in Seq(Nat)
        PROVE  From(s \o t)
    <3>1. /\ s \o t \in Seq(Nat) /\ Len(s \o t) = Len(s) + Len(t)
          /\ \A i \in 1 .. Len(s) : (s \o t)[i] = s[i]
      BY Joins
    <3>2. Len(s) \in Nat /\ Len(t) \in Nat
      OBVIOUS
    <3>3. \A i \in 1 .. 22 : i \in 1 .. Len(s)
      <4>1. \A n \in Nat : n >= 22 => \A i \in 1 .. 22 : i \in 1 .. n
        OBVIOUS
      <4> QED
        BY <2>1, <3>2, <4>1, Zenon
    <3>4. Len(s) + Len(t) >= 22
      BY <2>1, <3>2
    <3> QED
      BY <2>1, <3>1, <3>3, <3>4
  <2>2. From(C)
    BY <1>9
  <2>0. \A s, t : From(s) /\ t \in Seq(Nat) => From(s \o t)
    BY <2>1
  <2> HIDE DEF From
  <2>3. From(C \o E3 \o E4)
    BY <2>0, <2>2, <1>5
  <2>4. From(C \o E3 \o E4 \o E5 \o E6)
    BY <2>0, <2>3, <1>6
  <2>5. From(C \o E3 \o E4 \o E5 \o E6 \o E7 \o E8 \o StatusOut)
    BY <2>0, <2>4, <1>7, <1>0
  <2> QED
    BY <1>1, <2>5 DEF From
<1>11. Index(\h051E) = 16 /\ Index(\h0520) = 17 /\ Index(\h0522) = 18
  BY DEF Index, Base
<1>12. UsbGetReportDesc[16] = Left[1] /\ UsbGetReportDesc[17] = Left[2] /\ UsbGetReportDesc[18] = Left[3]
  BY <1>9, <1>10 DEF Left
<1>13. {16, 17, 18} \subseteq 1 .. Len(UsbGetReportDesc)
  <2>1. Len(UsbGetReportDesc) \in Nat /\ Len(UsbGetReportDesc) >= 22
    BY <1>10
  <2> QED
    BY <2>1
<1> QED
  BY <1>11, <1>12, <1>13 DEF Covers, WordAt, KeyAddresses, Base

LEMMA PollList == \A t : \A k \in 1 .. 3 : ~Covers(UsbPoll(t, 8), KeyAddresses[k])
<1> SUFFICES ASSUME NEW t, NEW k \in 1 .. 3 PROVE ~Covers(UsbPoll(t, 8), KeyAddresses[k])
  OBVIOUS
<1> DEFINE n == Len(UsbPoll(t, 8))
<1>1. n = 6
  BY DEF UsbPoll
<1>2. Index(KeyAddresses[k]) \in {16, 17, 18}
  BY DEF Index, Base, KeyAddresses
<1> HIDE DEF n
<1>3. Index(KeyAddresses[k]) \notin 1 .. n
  BY <1>1, <1>2
<1> QED
  BY <1>3 DEF Covers, n

-----------------------------------------------------------------------------
(* The keys of a word.                                                     *)

LEMMA KeyBitIs ==
  /\ DOMAIN KeyBit \subseteq {4, 22, 7, 9, 10, 11, 54, 55, 56, 89, 90, 91, 44}
  /\ \A c \in DOMAIN KeyBit : KeyBit[c] \in 0 .. SpaceBit
BY DEF KeyBit, SpaceBit

LEMMA KeyBits ==
  /\ \A w : key_bits(w) \subseteq 0 .. SpaceBit
  /\ key_bits(Left) = {} /\ key_bits(NoKeys) = {}
<1>1. \A w : key_bits(w) \subseteq 0 .. SpaceBit
  BY KeyBitIs DEF key_bits
<1>2. \A i \in 1 .. 6 : Slots(Left)[i] \in {32, 136, 8, 5, 0}
  BY DEF Slots, Left
<1>3. \A i \in 1 .. 6 : Slots(NoKeys)[i] = 0
  BY DEF Slots, NoKeys
<1> QED
  BY <1>1, <1>2, <1>3, KeyBitIs DEF key_bits


-----------------------------------------------------------------------------
(* Where the program is in the enumeration, and what lies in memory then.  *)

Resetting == {"init", "init_wait", "bus_reset", "bus_answer", "detect", "insert"}
Retrying  == {"check", "retry_count", "retry_wait"}
Waiting   == {"wait", "resend", "read", "clear"} \cup Retrying
Polling   == {"poll", "keys", "look", "removed"}

Stages ==
    /\ pc \in Resetting => step = 0
    /\ pc = "send" => step \in 1 .. LastStep
    /\ pc \in Waiting => list = step
    /\ pc \in Retrying => step < PollStep
    /\ pc \in Polling => step = PollStep
    /\ pc = "keys" => list = PollStep
    /\ step = PollStep => list \in {LastStep, PollStep}

\* The chip is never more than one request behind, and a poll is a single TD.
Behind ==
    /\ cur # "idle" => list \in {step - 1, step}
    /\ cur = "rest" => list # PollStep

\* The last list of the enumeration lies over the words of the keys, until the
\* first report.
Buffer == list = LastStep => words = Left

\* The keyboard is enumerated with nothing reported; as long as it is the old
\* one of the previous enumeration the bus reset is still to come.
Unsent ==
    /\ pc \in {"bus_answer", "detect"} => kb.sent = NoKeys \/ cmd = "bus_reset"
    /\ step \in 1 .. LastStep =>
          \/ kb.sent = NoKeys
          \/ step = 1 /\ cmd = "bus_reset" /\ (pc = "send" \/ first = "armed")
    /\ step = PollStep /\ list = LastStep => kb.sent = NoKeys

\* What is polled is in memory.
Shown ==
    step = PollStep /\ list = PollStep =>
        kb.addr = 0 \/ key_bits(words) = key_bits(kb.sent)

HostInv == TypeOK /\ Stages /\ Behind /\ Buffer /\ Unsent /\ Shown

\* With a prompt chip a completion in the message register is that of the list in
\* memory, from the soft reset to the first poll.
Fits ==
    step < PollStep =>
        /\ "TDListDone" \in msg => cur = "idle"
        /\ pc = "clear" /\ "TDListDone" \in val => cur = "idle"
        /\ pc \in Resetting \cup {"check", "send"} => cur = "idle" /\ "TDListDone" \notin msg
        /\ pc = "wait" /\ ~msgflag => "TDListDone" \notin msg
        /\ pc = "resend" => "TDListDone" \notin msg

Conf == plugged /\ kb.addr # 0 => kb.configured

\* SetConfig that was answered to its end, and everything after it.
Configures ==
    /\ step \in {6, 7} /\ list = 6 /\ cur = "idle" /\ first = "finished" => Conf
    /\ step >= 7 => Conf

PromptInv == HostInv /\ Fits /\ Configures

-----------------------------------------------------------------------------
(* Steps.  Writing a list: what it leaves in the words of the keys.        *)

LEMMA WriteIs ==
  ASSUME TypeOK, NEW s \in 1 .. PollStep, Write(s)
  PROVE  /\ list' = s /\ cur' = "first" /\ first' = "armed"
         /\ words' \in [1 .. 3 -> Nat]
         /\ s = LastStep => words' = Left
         /\ s = PollStep => words' = words
<1> DEFINE w == IF s = PollStep THEN UsbPoll(toggle, 8) ELSE Requests[s]
<1>1. /\ list' = s /\ cur' = "first" /\ first' = "armed"
      /\ words' = [k \in 1 .. 3 |-> IF Covers(w, KeyAddresses[k])
                                    THEN WordAt(w, KeyAddresses[k]) ELSE words[k]]
  BY DEF Write
<1>2. words \in [1 .. 3 -> Nat]
  BY DEF TypeOK
<1>3. CASE s = PollStep
  <2>1. \A k \in 1 .. 3 : ~Covers(w, KeyAddresses[k])
    BY <1>3, PollList
  <2> HIDE DEF w
  <2>2. words' = words
    BY <1>1, <1>2, <2>1
  <2> QED
    BY <1>1, <1>2, <1>3, <2>2, Numbers
<1>4. CASE s # PollStep
  <2>0. s \in 1 .. LastStep
    BY <1>4, Numbers
  <2>1. w \in Seq(Nat) /\ w = Requests[s]
    BY <1>4, <2>0, ListTypes, Zenon
  <2>2. s = LastStep => w = UsbGetReportDesc
    BY <2>1, Numbers DEF Requests
  <2> HIDE DEF w
  <2>3. \A k \in 1 .. 3 : Covers(w, KeyAddresses[k]) => WordAt(w, KeyAddresses[k]) \in Nat
    BY <2>1 DEF Covers, WordAt
  <2>4. words' \in [1 .. 3 -> Nat]
    BY <1>1, <1>2, <2>3
  <2>5. s = LastStep => words' = Left
    BY <1>1, <2>2, ReportDesc DEF Left
  <2> QED
    BY <1>1, <1>4, <2>4, <2>5
<1> QED
  BY <1>3, <1>4

LEMMA TypeStep == TypeOK /\ Stages /\ [Next]_vars => TypeOK'
<1> SUFFICES ASSUME TypeOK /\ Stages, [Next]_vars PROVE TypeOK'
  OBVIOUS
<1> USE Numbers DEF At, Goto, TypeOK, Places, program, mailbox, message, transfer,
         keyboard
<1>1. CASE UsbSoftReset
  <2>1. step' \in 0 .. PollStep
    BY <1>1 DEF UsbSoftReset
  <2> QED
    BY <1>1, <2>1 DEF UsbSoftReset
<1>2. CASE InitHost
  BY <1>2 DEF InitHost, Commands
<1>3. CASE InitAnswered
  BY <1>3 DEF InitAnswered
<1>4. CASE ResetBus
  BY <1>4 DEF ResetBus, Commands
<1>5. CASE BusAnswered
  <2>1. tries' \in 0 .. 7
    BY <1>5 DEF BusAnswered
  <2> QED
    BY <1>5, <2>1 DEF BusAnswered
<1>6. CASE Detect
  BY <1>6 DEF Detect, Present
<1>7. CASE Inserted
  BY <1>7 DEF Inserted, Present
<1>8. CASE Send
  BY <1>8, WriteIs DEF Send, Stages
<1>9. CASE LookForMessage
  BY <1>9 DEF LookForMessage
<1>10. CASE Resend
  BY <1>10, WriteIs DEF Resend, Stages, Waiting
<1>11. CASE ReadMessage
  BY <1>11 DEF ReadMessage
<1>12. CASE ClearMessage
  BY <1>12 DEF ClearMessage
<1>13. CASE CheckFirst
  BY <1>13 DEF CheckFirst, Stages, Retrying
<1>14. CASE UsbGetRetryCnt
  BY <1>14 DEF UsbGetRetryCnt
<1>15. CASE RetryAnswered
  BY <1>15 DEF RetryAnswered
<1>16. CASE Poll
  BY <1>16, WriteIs DEF Poll
<1>17. CASE ShowKeys
  <2>1. keycode' \subseteq 0 .. SpaceBit
    BY <1>17, KeyBits DEF ShowKeys
  <2>2. tries' \in 0 .. 7
    BY <1>17 DEF ShowKeys
  <2>3. pc' \in Places
    BY <1>17 DEF ShowKeys
  <2>4. UNCHANGED <<step, toggle, val, mailbox, message, transfer, keyboard>>
    BY <1>17 DEF ShowKeys
  <2> QED
    BY <2>1, <2>2, <2>3, <2>4
<1>18. CASE LookForDevice
  BY <1>18 DEF LookForDevice, Present
<1>19. CASE PluggedInAgain
  BY <1>19 DEF PluggedInAgain, Present
<1>20. CASE ExecCommand
  BY <1>20, HostAssumption DEF ExecCommand, FreshKeyboard, HostAssumption
<1>21. CASE ExecFirst
  BY <1>21 DEF ExecFirst, Post, Answers, OffGuard, Messages
<1>22. CASE ExecRest
  BY <1>22 DEF ExecRest, Post, Answers, OffGuard, Messages
<1>23. CASE ExecPoll
  BY <1>23, HostAssumption DEF ExecPoll, Post, Answers, OffGuard, HostAssumption,
         Messages
<1>24. CASE Unplug
  <2>1. msg' \subseteq Messages /\ msgflag' \in BOOLEAN
    BY <1>24 DEF Unplug, Tell, Post, Messages
  <2>2. held' \in Reports /\ kb' \in [addr : {0, 2}, configured : BOOLEAN, sent : Reports]
    BY <1>24, HostAssumption DEF Unplug, HostAssumption, FreshKeyboard
  <2> QED
    BY <1>24, <2>1, <2>2 DEF Unplug
<1>25. CASE PlugIn
  <2>1. msg' \subseteq Messages /\ msgflag' \in BOOLEAN
    BY <1>25 DEF PlugIn, Tell, Post, Messages
  <2>2. held' \in Reports /\ kb' \in [addr : {0, 2}, configured : BOOLEAN, sent : Reports]
    BY <1>25, HostAssumption DEF PlugIn, HostAssumption, FreshKeyboard
  <2> QED
    BY <1>25, <2>1, <2>2 DEF PlugIn
<1>26. CASE ChangeKeys
  BY <1>26, HostAssumption DEF ChangeKeys, HostAssumption
<1>27. CASE UNCHANGED vars
  BY <1>27 DEF vars
<1> QED
  BY <1>1, <1>2, <1>3, <1>4, <1>5, <1>6, <1>7, <1>8, <1>9, <1>10, <1>11, <1>12, <1>13,
     <1>14, <1>15, <1>16, <1>17, <1>18, <1>19, <1>20, <1>21, <1>22, <1>23, <1>24, <1>25,
     <1>26, <1>27
      DEF Next, Program, Chip, Player

LEMMA OrderStep == HostInv /\ [Next]_vars => (Stages /\ Behind /\ Buffer /\ Unsent /\ Shown)'
<1> SUFFICES ASSUME HostInv, [Next]_vars PROVE (Stages /\ Behind /\ Buffer /\ Unsent /\ Shown)'
  OBVIOUS
<1> USE Numbers DEF At, Goto, TypeOK, Places, Stages, Resetting, Retrying, Waiting,
         Polling, Behind, Buffer, Unsent, Shown, HostInv, program, mailbox, message,
         transfer, keyboard
<1>1. CASE UsbSoftReset
  BY <1>1 DEF UsbSoftReset
<1>2. CASE InitHost
  BY <1>2 DEF InitHost
<1>3. CASE InitAnswered
  BY <1>3 DEF InitAnswered
<1>4. CASE ResetBus
  BY <1>4 DEF ResetBus
<1>5. CASE BusAnswered
  BY <1>5 DEF BusAnswered
<1>6. CASE Detect
  BY <1>6 DEF Detect, Present
<1>7. CASE Inserted
  BY <1>7 DEF Inserted, Present
<1>8. CASE Send
  BY <1>8, WriteIs, KeyBits DEF Send
<1>9. CASE LookForMessage
  BY <1>9 DEF LookForMessage
<1>10. CASE Resend
  BY <1>10, WriteIs, KeyBits DEF Resend
<1>11. CASE ReadMessage
  BY <1>11 DEF ReadMessage
<1>12. CASE ClearMessage
  BY <1>12 DEF ClearMessage
<1>13. CASE CheckFirst
  BY <1>13 DEF CheckFirst
<1>14. CASE UsbGetRetryCnt
  BY <1>14 DEF UsbGetRetryCnt
<1>15. CASE RetryAnswered
  BY <1>15 DEF RetryAnswered
<1>16. CASE Poll
  BY <1>16, WriteIs, KeyBits DEF Poll
<1>17. CASE ShowKeys
  BY <1>17 DEF ShowKeys
<1>18. CASE LookForDevice
  BY <1>18 DEF LookForDevice, Present
<1>19. CASE PluggedInAgain
  BY <1>19 DEF PluggedInAgain, Present
<1>20. CASE ExecCommand
  BY <1>20 DEF ExecCommand, FreshKeyboard
<1>21. CASE ExecFirst
  BY <1>21 DEF ExecFirst, Post, Answers, OffGuard
<1>22. CASE ExecRest
  BY <1>22 DEF ExecRest, Post, Answers, OffGuard
<1>23. CASE ExecPoll
  BY <1>23 DEF ExecPoll, Post, Answers, OffGuard
<1>24. CASE Unplug
  BY <1>24 DEF Unplug, Post, Tell
<1>25. CASE PlugIn
  BY <1>25 DEF PlugIn, Post, Tell, FreshKeyboard
<1>26. CASE ChangeKeys
  BY <1>26 DEF ChangeKeys
<1>27. CASE UNCHANGED vars
  BY <1>27 DEF vars
<1> QED
  BY <1>1, <1>2, <1>3, <1>4, <1>5, <1>6, <1>7, <1>8, <1>9, <1>10, <1>11, <1>12, <1>13,
     <1>14, <1>15, <1>16, <1>17, <1>18, <1>19, <1>20, <1>21, <1>22, <1>23, <1>24, <1>25,
     <1>26, <1>27
      DEF Next, Program, Chip, Player

LEMMA FitsStep == Prompt /\ ~Faults /\ HostInv /\ Fits /\ [Next]_vars => Fits'
<1> SUFFICES ASSUME Prompt /\ ~Faults /\ HostInv /\ Fits, [Next]_vars PROVE Fits'
  OBVIOUS
<1> USE Numbers DEF At, Goto, TypeOK, Places, Stages, Resetting, Retrying, Waiting,
         Polling, Behind, Buffer, Unsent, Shown, HostInv, program, mailbox, message,
         transfer, keyboard, Fits, Messages
<1>1. CASE UsbSoftReset
  BY <1>1 DEF UsbSoftReset
<1>2. CASE InitHost
  BY <1>2 DEF InitHost
<1>3. CASE InitAnswered
  BY <1>3 DEF InitAnswered
<1>4. CASE ResetBus
  BY <1>4 DEF ResetBus
<1>5. CASE BusAnswered
  BY <1>5 DEF BusAnswered
<1>6. CASE Detect
  BY <1>6 DEF Detect, Present
<1>7. CASE Inserted
  BY <1>7 DEF Inserted, Present
<1>8. CASE Send
  BY <1>8, WriteIs DEF Send
<1>9. CASE LookForMessage
  BY <1>9 DEF LookForMessage
<1>10. CASE Resend
  BY <1>10, WriteIs DEF Resend
<1>11. CASE ReadMessage
  BY <1>11 DEF ReadMessage
<1>12. CASE ClearMessage
  BY <1>12 DEF ClearMessage
<1>13. CASE CheckFirst
  BY <1>13 DEF CheckFirst
<1>14. CASE UsbGetRetryCnt
  BY <1>14 DEF UsbGetRetryCnt
<1>15. CASE RetryAnswered
  BY <1>15 DEF RetryAnswered
<1>16. CASE Poll
  BY <1>16, WriteIs DEF Poll
<1>17. CASE ShowKeys
  BY <1>17 DEF ShowKeys
<1>18. CASE LookForDevice
  BY <1>18 DEF LookForDevice, Present
<1>19. CASE PluggedInAgain
  BY <1>19 DEF PluggedInAgain, Present
<1>20. CASE ExecCommand
  BY <1>20 DEF ExecCommand, FreshKeyboard
<1>21. CASE ExecFirst
  BY <1>21 DEF ExecFirst, Post, Answers, OffGuard
<1>22. CASE ExecRest
  BY <1>22 DEF ExecRest, Post, Answers, OffGuard
<1>23. CASE ExecPoll
  BY <1>23 DEF ExecPoll, Post, Answers, OffGuard
<1>24. CASE Unplug
  BY <1>24 DEF Unplug, Post, Tell
<1>25. CASE PlugIn
  BY <1>25 DEF PlugIn, Post, Tell, FreshKeyboard
<1>26. CASE ChangeKeys
  BY <1>26 DEF ChangeKeys
<1>27. CASE UNCHANGED vars
  BY <1>27 DEF vars
<1> QED
  BY <1>1, <1>2, <1>3, <1>4, <1>5, <1>6, <1>7, <1>8, <1>9, <1>10, <1>11, <1>12, <1>13,
     <1>14, <1>15, <1>16, <1>17, <1>18, <1>19, <1>20, <1>21, <1>22, <1>23, <1>24, <1>25,
     <1>26, <1>27
      DEF Next, Program, Chip, Player

LEMMA ConfiguresStep == Prompt /\ ~Faults /\ HostInv /\ Fits /\ Configures /\ [Next]_vars => Configures'
<1> SUFFICES ASSUME Prompt /\ ~Faults /\ HostInv /\ Fits /\ Configures, [Next]_vars PROVE Configures'
  OBVIOUS
<1> USE Numbers DEF At, Goto, TypeOK, Places, Stages, Resetting, Retrying, Waiting,
         Polling, Behind, Buffer, Unsent, Shown, HostInv, program, mailbox, message,
         transfer, keyboard, Fits, Configures, Conf
<1>1. CASE UsbSoftReset
  BY <1>1 DEF UsbSoftReset
<1>2. CASE InitHost
  BY <1>2 DEF InitHost
<1>3. CASE InitAnswered
  BY <1>3 DEF InitAnswered
<1>4. CASE ResetBus
  BY <1>4 DEF ResetBus
<1>5. CASE BusAnswered
  BY <1>5 DEF BusAnswered
<1>6. CASE Detect
  BY <1>6 DEF Detect, Present
<1>7. CASE Inserted
  BY <1>7 DEF Inserted, Present
<1>8. CASE Send
  BY <1>8, WriteIs DEF Send
<1>9. CASE LookForMessage
  BY <1>9 DEF LookForMessage
<1>10. CASE Resend
  BY <1>10, WriteIs DEF Resend
<1>11. CASE ReadMessage
  BY <1>11 DEF ReadMessage
<1>12. CASE ClearMessage
  BY <1>12 DEF ClearMessage
<1>13. CASE CheckFirst
  BY <1>13 DEF CheckFirst
<1>14. CASE UsbGetRetryCnt
  BY <1>14 DEF UsbGetRetryCnt
<1>15. CASE RetryAnswered
  BY <1>15 DEF RetryAnswered
<1>16. CASE Poll
  BY <1>16, WriteIs DEF Poll
<1>17. CASE ShowKeys
  BY <1>17 DEF ShowKeys
<1>18. CASE LookForDevice
  BY <1>18 DEF LookForDevice, Present
<1>19. CASE PluggedInAgain
  BY <1>19 DEF PluggedInAgain, Present
<1>20. CASE ExecCommand
  BY <1>20 DEF ExecCommand, FreshKeyboard
<1>21. CASE ExecFirst
  BY <1>21 DEF ExecFirst, Post, Answers, OffGuard
<1>22. CASE ExecRest
  <2>1. ~Answers => plugged = FALSE \/ kb.addr = 0 \/ list = 1
    BY DEF Answers
  <2>2. step >= 6 => list # 1
    BY <1>22 DEF ExecRest
  <2>4. kb.configured => kb'.configured
    BY <1>22 DEF ExecRest
  <2>5. list = 6 => Conf'
    <3>1. CASE ~Answers
      <4>1. kb' = kb /\ plugged' = plugged
        BY <1>22, <3>1 DEF ExecRest
      <4> QED
        BY <2>1, <3>1, <4>1
    <3>2. CASE Answers
      <4>1. list = 6 => kb'.configured
        BY <1>22, <3>2 DEF ExecRest
      <4> QED
        BY <4>1
    <3> QED
      BY <3>1, <3>2
  <2>6. Conf /\ list # 1 => Conf'
    BY <1>22, <2>4 DEF ExecRest
  <2> QED
    BY <1>22, <2>2, <2>5, <2>6 DEF ExecRest, Post
<1>23. CASE ExecPoll
  BY <1>23 DEF ExecPoll, Post, Answers, OffGuard
<1>24. CASE Unplug
  BY <1>24 DEF Unplug, Post, Tell
<1>25. CASE PlugIn
  BY <1>25 DEF PlugIn, Post, Tell, FreshKeyboard
<1>26. CASE ChangeKeys
  BY <1>26 DEF ChangeKeys
<1>27. CASE UNCHANGED vars
  BY <1>27 DEF vars
<1> QED
  BY <1>1, <1>2, <1>3, <1>4, <1>5, <1>6, <1>7, <1>8, <1>9, <1>10, <1>11, <1>12, <1>13,
     <1>14, <1>15, <1>16, <1>17, <1>18, <1>19, <1>20, <1>21, <1>22, <1>23, <1>24, <1>25,
     <1>26, <1>27
      DEF Next, Program, Chip, Player

LEMMA InitInv == Init => PromptInv
<1>1. Init => TypeOK
  <2> SUFFICES ASSUME Init PROVE TypeOK
    OBVIOUS
  <2>1. NoKeys \in Reports /\ NoKeys \in [1 .. 3 -> Nat]
    BY HostAssumption DEF HostAssumption
  <2>2. step \in 0 .. PollStep /\ list \in 1 .. PollStep /\ tries \in 0 .. 7
    BY Numbers DEF Init
  <2>3. kb \in [addr : {0, 2}, configured : BOOLEAN, sent : Reports]
    BY <2>1 DEF Init, FreshKeyboard
  <2> QED
    BY <2>1, <2>2, <2>3 DEF Init, TypeOK, Places
<1>2. Init => Stages /\ Behind /\ Buffer /\ Unsent /\ Shown /\ Fits /\ Configures
  BY Numbers DEF Init, Stages, Resetting, Retrying, Waiting, Polling, Behind, Buffer,
                 Unsent, Shown, Fits, Configures, FreshKeyboard
<1> QED
  BY <1>1, <1>2 DEF PromptInv, HostInv

LEMMA HostStep == HostInv /\ [Next]_vars => HostInv'
BY TypeStep, OrderStep DEF HostInv

-----------------------------------------------------------------------------
\* For every set of reports, with any chip, whether it is slow or fails, and a
\* keyboard pulled and plugged in at any moment: registers, mailbox and memory keep
\* their types, the lists in the chip follow the program, and what is polled is in
\* memory. (main.c lines 302-637.)
THEOREM HostInvariant == Spec => []HostInv
<1>1. Init => HostInv
  BY InitInv DEF PromptInv
<1>2. HostInv /\ [Next]_vars => HostInv'
  BY HostStep
<1> QED
  BY <1>1, <1>2, PTL DEF Spec

\* The type invariant alone.
THEOREM HostTypeOK == Spec => []TypeOK
<1>1. HostInv => TypeOK
  BY DEF HostInv
<1> QED
  BY <1>1, HostInvariant, PTL

\* What the key register comes to show is what the keyboard has reported last, and
\* nothing that the enumeration or a keyboard used before has left in the memory of
\* the chip. (main.c lines 553-620.)
THEOREM ShowsWhatWasReported == Spec => ShowsReported
<1> DEFINE Step == keycode' # keycode /\ plugged /\ kb.addr # 0 => keycode' = key_bits(kb.sent)
<1>1. HostInv /\ [Next]_vars => [Step]_vars
  <2> SUFFICES ASSUME HostInv, Next, keycode' # keycode, kb.addr # 0
               PROVE  keycode' = key_bits(kb.sent)
    BY DEF vars
  <2>1. ShowKeys
    BY DEF Next, Program, Chip, Player, program, UsbSoftReset, InitHost, InitAnswered,
           ResetBus, BusAnswered, Detect, Inserted, Send, LookForMessage, Resend,
           ReadMessage, ClearMessage, CheckFirst, UsbGetRetryCnt, RetryAnswered, Poll,
           LookForDevice, PluggedInAgain, ExecCommand, ExecFirst, ExecRest, ExecPoll,
           Unplug, PlugIn, ChangeKeys
  <2>2. key_bits(words) = key_bits(kb.sent)
    BY <2>1 DEF ShowKeys, At, HostInv, Stages, Polling, Shown
  <2> QED
    BY <2>1, <2>2 DEF ShowKeys
<1>2. Spec => [][Step]_vars
  BY <1>1, HostInvariant, PTL DEF Spec
<1> QED
  BY <1>2 DEF ShowsReported

\* A chip that answers between two looks of the program, and does not fail, has each
\* request completed by the completion it waits for, and the keyboard that is polled is
\* configured. (main.c lines 380-508.)
THEOREM PollsAConfiguredKeyboard == Prompt /\ ~Faults => (Spec => []PollsConfigured)
<1> SUFFICES ASSUME Prompt, ~Faults PROVE Spec => []PollsConfigured
  OBVIOUS
<1>1. Init => PromptInv
  BY InitInv
<1>2. PromptInv /\ [Next]_vars => PromptInv'
  BY HostStep, FitsStep, ConfiguresStep DEF PromptInv
<1>3. PromptInv => PollsConfigured
  BY Numbers DEF PromptInv, Configures, Conf, PollsConfigured
<1> QED
  BY <1>1, <1>2, <1>3, PTL DEF Spec
=============================================================================
