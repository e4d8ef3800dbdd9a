-------------------------- MODULE Services_proofs ---------------------------
(***************************************************************************)
(* Theorems about the files, their names, the heap, the time of day and    *)
(* the caches that a program uses through the support package.  For every  *)
(* number of descriptors, devices, file systems and modes: the high water  *)
(* mark covers every open descriptor, and the table implements OpenFiles.  *)
(* The second needs the first: the search for an exclusive holder ends at  *)
(* the mark.  For names of every length a search finds the newest that the *)
(* name belongs to.  For every size of the heap, whoever asks for memory:  *)
(* blocks do not overlap, though an interrupt may take memory at any time; *)
(* and with stack checks on, stack and heap keep apart or the program      *)
(* stops.  For every rate of ticks the clock shows the time it was set to. *)
(* For caches and lines of every size, a flush reaches every line of its   *)
(* region, and an uncached block stays out of the cache.                   *)
(***************************************************************************)
EXTENDS FileTable, DeviceNames, Sbrk, TimeOfDay, Caches, SequenceTheorems, TLAPS

-----------------------------------------------------------------------------
(* FileTable: who works on which descriptor.                               *)

Working == pc \in {"locked", "open", "copy"} \/ (pc = "failed" /\ index # -1)

\* The descriptor that alt_open works on is the first free one but for its own
\* entry, is no standard stream, and is not held by anybody.
WorkingOK ==
    /\ pc = "ready" => index = -1
    /\ Working =>
        /\ index \in Fds /\ index > 2 /\ index <= alt_max_fd
        /\ alt_fd_list[index].dev # NoDev
        /\ alt_fd_list[index].bits \cap {"EXCL", "DEV"} =
             IF pc # "locked" /\ alt_fd_list[index].dev \in Devs THEN {"DEV"} ELSE {}
        /\ \A j \in Fds : j < index => alt_fd_list[j].dev # NoDev

\* Nobody holds the device that is being opened.
NotHeld ==
    pc \in {"open", "copy"} /\ alt_fd_list[index].dev \in Devs =>
        \A j \in Fds : j # index /\ alt_fd_list[j].dev = alt_fd_list[index].dev
                       => "EXCL" \notin alt_fd_list[j].bits

\* Only devices are searched for a holder; the redirection works on a device.
Redirecting ==
    /\ pc = "locked" => alt_fd_list[index].dev \in Devs
    /\ pc = "copy" => stream < 3 /\ alt_fd_list[index].dev \in Devs
                      /\ alt_fd_list[index].bits = {"DEV"}
    /\ stream < 3 /\ pc \in {"locked", "open"} => alt_fd_list[index].dev \in Devs
                      /\ alt_fd_list[index].bits \subseteq {"DEV"}

Standard == \A f \in 0 .. 2 : alt_fd_list[f].dev # NoDev

\* An entry that is free holds nothing of the file it was last.
Vacant == \A f \in Fds : alt_fd_list[f].dev = NoDev => alt_fd_list[f] = Empty

IInv == TypeOK /\ HighWater /\ Standard /\ WorkingOK /\ NotHeld /\ Redirecting /\ Vacant

-----------------------------------------------------------------------------
(* Every kind of step preserves the invariant.                             *)

LEMMA InitInv == Init => IInv
<1> SUFFICES ASSUME Init PROVE IInv
    OBVIOUS
<1> USE FileTableAssumption
<1>1. TypeOK
    BY DEF Init, TypeOK, Files, Fds, Empty, Settable, Drivers
<1>2. HighWater /\ Standard
    BY DEF Init, HighWater, Standard, Fds, Empty, Drivers
<1>3. WorkingOK /\ NotHeld /\ Redirecting
    BY DEF Init, WorkingOK, Working, NotHeld, Redirecting
<1>4. Vacant
    BY DEF Init, Vacant, Fds, Empty, Drivers
<1> QED
    BY <1>1, <1>2, <1>3, <1>4 DEF IInv

\* alt_open, up to the flags.
LEMMA OpenInv ==
    ASSUME NEW d \in Drivers \cup {NoDev},
           NEW acc \in {"RDONLY", "WRONLY", "RDWR"}, NEW bits \in SUBSET Settable,
           IInv, Open(d, acc, bits),
           stream < 3 => d \in Devs /\ bits = {}
    PROVE  IInv'
<1> USE FileTableAssumption DEF IInv
<1>1. CASE \E e \in {"ENODEV", "EMFILE"} : Fails(e)
  <2> PICK e \in {"ENODEV", "EMFILE"} : Fails(e)
      BY <1>1
  <2>1. UNCHANGED <<alt_fd_list, alt_max_fd, stream>> /\ pc' = "failed" /\ index' = -1 /\ status' = e
      BY DEF Open, Fails
  <2>2. TypeOK'
      BY <2>1 DEF TypeOK
  <2>3. (HighWater /\ Standard)'
      BY <2>1 DEF HighWater, Standard
  <2>4. (WorkingOK /\ NotHeld /\ Redirecting)'
      BY <2>1 DEF WorkingOK, Working, NotHeld, Redirecting
  <2>5. Vacant'
      BY <2>1 DEF Vacant
  <2> QED
      BY <2>2, <2>3, <2>4, <2>5
<1>2. CASE ~\E e \in {"ENODEV", "EMFILE"} : Fails(e)
  <2>1. PICK i \in Fds :
          /\ d # NoDev /\ alt_get_fd(i)
          /\ alt_fd_list' = [alt_fd_list EXCEPT ![i] = [dev |-> d, acc |-> acc, bits |-> bits]]
          /\ pc' = IF d \in Devs THEN "locked" ELSE "open"
          /\ UNCHANGED <<status, stream>>
      BY <1>2 DEF Open
  <2>2. /\ alt_fd_list[i].dev = NoDev /\ \A j \in Fds : j < i => alt_fd_list[j].dev # NoDev
        /\ index' = i /\ alt_max_fd' = IF i > alt_max_fd THEN i ELSE alt_max_fd
      BY <2>1 DEF alt_get_fd, FirstFree
  <2>3. i \in Nat /\ i < ALT_MAX_FD /\ i > 2
      BY <2>2 DEF Fds, Standard
  <2>4. alt_fd_list \in [Fds -> Files] /\ alt_max_fd \in -1 .. ALT_MAX_FD - 1
      BY DEF TypeOK
  <2>5. /\ alt_fd_list'[i] = [dev |-> d, acc |-> acc, bits |-> bits]
        /\ \A j \in Fds : j # i => alt_fd_list'[j] = alt_fd_list[j]
      BY <2>1, <2>4
  <2>6. TypeOK'
    <3>1. [dev |-> d, acc |-> acc, bits |-> bits] \in Files
        BY DEF Files
    <3> QED
        BY <2>1, <2>2, <2>3, <2>4, <3>1 DEF TypeOK, Fds
  <2>7. HighWater'
      BY <2>2, <2>3, <2>4, <2>5 DEF HighWater, Fds
  <2>8. Standard'
      BY <2>3, <2>5 DEF Standard, Fds
  <2>9. WorkingOK'
      BY <2>1, <2>2, <2>3, <2>4, <2>5 DEF WorkingOK, Working, Settable, Fds
  <2>10. NotHeld'
      BY <2>1, <2>2, <2>5 DEF NotHeld
  <2>11. Redirecting'
      BY <2>1, <2>2, <2>5 DEF Redirecting
  <2>12. Vacant'
      BY <2>1, <2>5 DEF Vacant
  <2> QED
      BY <2>6, <2>7, <2>8, <2>9, <2>10, <2>11, <2>12
<1> QED
    BY <1>1, <1>2

LEMMA LockedInv == IInv /\ alt_file_locked => IInv'
<1> SUFFICES ASSUME IInv, alt_file_locked PROVE IInv'
    OBVIOUS
<1> USE FileTableAssumption DEF IInv
<1>1. /\ index \in Fds /\ index > 2 /\ index <= alt_max_fd /\ alt_fd_list[index].dev # NoDev
      /\ alt_fd_list[index].bits \cap {"EXCL", "DEV"} = {}
      /\ \A j \in Fds : j < index => alt_fd_list[j].dev # NoDev
    BY DEF alt_file_locked, WorkingOK, Working
<1>2. alt_fd_list \in [Fds -> Files] /\ alt_max_fd \in -1 .. ALT_MAX_FD - 1
    BY DEF TypeOK
<1>3. /\ alt_fd_list' = [alt_fd_list EXCEPT ![index].bits = @ \cup {"DEV"}]
      /\ UNCHANGED <<alt_max_fd, index, stream>> /\ pc' \in {"failed", "open"}
      /\ status' \in {"EACCES", status} /\ pc = "locked"
      /\ pc' = "open" => ~LockedBefore(alt_max_fd, index)
    BY DEF alt_file_locked
<1>4. /\ \A j \in Fds : j # index => alt_fd_list'[j] = alt_fd_list[j]
      /\ alt_fd_list'[index] = [alt_fd_list[index] EXCEPT !.bits = @ \cup {"DEV"}]
    BY <1>1, <1>2, <1>3
<1>5. alt_fd_list[index] \in Files
    BY <1>1, <1>2
<1>6. /\ alt_fd_list'[index].dev = alt_fd_list[index].dev
      /\ alt_fd_list'[index].acc = alt_fd_list[index].acc
      /\ alt_fd_list'[index].bits = alt_fd_list[index].bits \cup {"DEV"}
    BY <1>4, <1>5 DEF Files
<1>7. alt_fd_list'[index] \in Files
    BY <1>4, <1>5 DEF Files
<1>8. TypeOK'
    BY <1>1, <1>2, <1>3, <1>4, <1>7 DEF TypeOK
<1>9. HighWater' /\ Standard'
    BY <1>1, <1>3, <1>4, <1>6 DEF HighWater, Standard, Fds
<1>10. alt_fd_list[index].dev \in Devs
    BY <1>1, <1>3 DEF Redirecting, WorkingOK
<1>11. WorkingOK' /\ Redirecting'
    BY <1>1, <1>3, <1>4, <1>6, <1>10 DEF WorkingOK, Working, Redirecting
<1>12. NotHeld'
    BY <1>1, <1>2, <1>3, <1>4, <1>6 DEF NotHeld, LockedBefore, HighWater, Fds, Standard
<1>13. Vacant'
    BY <1>1, <1>4, <1>6 DEF Vacant
<1> QED
    BY <1>8, <1>9, <1>11, <1>12, <1>13

LEMMA DriverOpensInv == IInv /\ DriverOpens => IInv'
<1> SUFFICES ASSUME IInv, DriverOpens PROVE IInv'
    OBVIOUS
<1> USE FileTableAssumption DEF IInv
<1>1. /\ pc = "open" /\ UNCHANGED <<alt_fd_list, alt_max_fd, stream>>
      /\ \/ pc' = "copy" /\ stream < 3 /\ UNCHANGED <<index, status>>
         \/ pc' = "ready" /\ index' = -1 /\ ~(stream < 3) /\ UNCHANGED status
         \/ pc' = "failed" /\ status' = "driver" /\ UNCHANGED index
    BY DEF DriverOpens
<1>2. TypeOK'
    BY <1>1 DEF TypeOK
<1>3. HighWater' /\ Standard'
    BY <1>1 DEF HighWater, Standard
<1>4. WorkingOK' /\ NotHeld'
    BY <1>1 DEF WorkingOK, Working, NotHeld
<1>5. Redirecting'
    <2>1. CASE pc' = "copy"
      <3>1. stream < 3 /\ alt_fd_list[index].dev \in Devs /\ alt_fd_list[index].bits \subseteq {"DEV"}
          BY <1>1, <2>1 DEF Redirecting
      <3>2. alt_fd_list[index].bits \cap {"EXCL", "DEV"} = {"DEV"}
          BY <1>1, <3>1 DEF WorkingOK, Working
      <3>3. alt_fd_list[index].bits = {"DEV"}
          BY <3>1, <3>2
      <3> QED
          BY <1>1, <2>1, <3>1, <3>3 DEF Redirecting
    <2> QED
        BY <1>1, <2>1 DEF Redirecting
<1>6. Vacant'
    BY <1>1 DEF Vacant
<1> QED
    BY <1>2, <1>3, <1>4, <1>5, <1>6

LEMMA OpenFailedInv == IInv /\ OpenFailed => IInv'
<1> SUFFICES ASSUME IInv, OpenFailed PROVE IInv'
    OBVIOUS
<1> USE FileTableAssumption DEF IInv
<1>1. /\ pc = "failed" /\ pc' = "ready" /\ index' = -1
      /\ alt_fd_list' = Released(alt_fd_list, index)
      /\ stream' \in 0 .. 3 /\ (stream = 3 => stream' = 3) /\ UNCHANGED <<alt_max_fd, status>>
    BY DEF OpenFailed, TypeOK
<1>2. alt_fd_list \in [Fds -> Files] /\ Empty \in Files
    BY DEF TypeOK, Files, Empty
<1>3. alt_fd_list' \in [Fds -> Files]
    BY <1>1, <1>2 DEF Released
<1>4. \A f \in Fds : alt_fd_list'[f] = alt_fd_list[f] \/ (f > 2 /\ alt_fd_list'[f] = Empty)
    BY <1>1, <1>2 DEF Released, Fds
<1>5. TypeOK'
    BY <1>1, <1>3 DEF TypeOK
<1>6. HighWater'
    BY <1>1, <1>4 DEF HighWater, Empty
<1>7. Standard'
    BY <1>4 DEF Standard, Fds
<1>8. WorkingOK' /\ NotHeld' /\ Redirecting'
    BY <1>1 DEF WorkingOK, Working, NotHeld, Redirecting
<1>9. Vacant'
    BY <1>4 DEF Vacant, Empty
<1> QED
    BY <1>5, <1>6, <1>7, <1>8, <1>9

LEMMA CopyInv == IInv /\ Copy => IInv'
<1> SUFFICES ASSUME IInv, Copy PROVE IInv'
    OBVIOUS
<1> USE FileTableAssumption DEF IInv
<1> DEFINE s == Turn[stream + 1]
<1>1. /\ pc = "copy" /\ pc' = "ready" /\ index' = -1 /\ stream' = stream + 1
      /\ alt_fd_list' = Released([alt_fd_list EXCEPT ![s] = alt_fd_list[index]], index)
      /\ UNCHANGED <<alt_max_fd, status>>
    BY DEF Copy
<1>2. stream \in 0 .. 2 /\ alt_fd_list[index].dev \in Devs
    BY <1>1 DEF Redirecting, TypeOK
<1>3. s \in 0 .. 2 /\ s \in Fds
    BY <1>2 DEF Turn, Fds
<1>4. index \in Fds /\ index > 2
    BY <1>1 DEF WorkingOK, Working
<1> HIDE DEF s
<1>5. alt_fd_list \in [Fds -> Files] /\ Empty \in Files /\ alt_fd_list[index] \in Files
    BY <1>4 DEF TypeOK, Files, Empty
<1>6. /\ alt_fd_list' \in [Fds -> Files]
      /\ alt_fd_list'[s] = alt_fd_list[index] /\ alt_fd_list'[index] = Empty
      /\ \A f \in Fds \ {s, index} : alt_fd_list'[f] = alt_fd_list[f]
    BY <1>1, <1>3, <1>4, <1>5 DEF Released
<1>7. TypeOK'
  <2>1. stream' \in 0 .. 3 /\ index' \in -1 .. ALT_MAX_FD - 1
      BY <1>1, <1>2
  <2>2. pc' = "ready" /\ UNCHANGED <<alt_max_fd, status>>
      BY <1>1
  <2> QED
      BY <2>1, <2>2, <1>6 DEF TypeOK
<1>8. HighWater'
  <2>1. UNCHANGED alt_max_fd
      BY <1>1
  <2> QED
      BY <2>1, <1>3, <1>4, <1>6 DEF HighWater, Empty, Fds
<1>9. Standard'
    BY <1>2, <1>3, <1>4, <1>6 DEF Standard, Fds
<1>10. WorkingOK' /\ NotHeld' /\ Redirecting'
    BY <1>1 DEF WorkingOK, Working, NotHeld, Redirecting
<1>11. Vacant'
    BY <1>2, <1>4, <1>6 DEF Vacant, Empty
<1> QED
    BY <1>7, <1>8, <1>9, <1>10, <1>11

\* What the program's other calls do: between them no descriptor is being opened.
LEMMA CallInv ==
    ASSUME NEW f \in Fds, NEW file \in Files, IInv, pc = "ready", index = -1,
           alt_fd_list[f].dev # NoDev,
           alt_fd_list' = [alt_fd_list EXCEPT ![f] = file],
           file.dev = alt_fd_list[f].dev \/ (f > 2 /\ file = Empty), Unchanged
    PROVE  IInv'
<1> USE FileTableAssumption DEF IInv
<1>1. UNCHANGED <<alt_max_fd, pc, index, status, stream>>
    BY DEF Unchanged
<1>2. alt_fd_list \in [Fds -> Files]
    BY DEF TypeOK
<1>3. alt_fd_list'[f] = file /\ \A g \in Fds : g # f => alt_fd_list'[g] = alt_fd_list[g]
    BY <1>2
<1>4. TypeOK'
    BY <1>1, <1>2 DEF TypeOK
<1>5. HighWater' /\ Standard'
    BY <1>1, <1>3 DEF HighWater, Standard, Fds, Empty
<1>6. WorkingOK' /\ NotHeld' /\ Redirecting'
    BY <1>1 DEF WorkingOK, Working, NotHeld, Redirecting
<1>7. Vacant'
    BY <1>3 DEF Vacant
<1> QED
    BY <1>4, <1>5, <1>6, <1>7

LEMMA StutterInv ==
    IInv /\ UNCHANGED <<alt_fd_list, alt_max_fd, pc, index, status, stream>> => IInv'
  BY DEF IInv, TypeOK, HighWater, Standard, WorkingOK, Working, NotHeld, Redirecting, Vacant

\* The calls that an open descriptor is passed to.
LEMMA CallsInv ==
    ASSUME NEW f \in Fds, IInv,
           \/ Close(f) \/ GetFlags(f) \/ SetFlags(f) \/ NoCommand(f)
           \/ alt_fd_lock(f) \/ alt_fd_unlock(f)
           \/ \E fn, allowed, otherwise : Driver(f, fn, allowed, otherwise)
    PROVE  IInv'
<1> USE FileTableAssumption
<1>1. pc = "ready" /\ index = -1 /\ alt_fd_list[f].dev # NoDev /\ Unchanged
    BY DEF Close, GetFlags, SetFlags, NoCommand, alt_fd_lock, alt_fd_unlock, Driver, Calls,
           IInv, WorkingOK
<1>2. /\ alt_fd_list \in [Fds -> Files] /\ alt_fd_list[f] \in Files /\ Empty \in Files
      /\ alt_fd_list = [alt_fd_list EXCEPT ![f] = alt_fd_list[f]]
    BY DEF IInv, TypeOK, Files, Empty
<1>3. CASE UNCHANGED alt_fd_list
    BY <1>1, <1>3, StutterInv DEF Unchanged
<1>4. CASE Close(f)
  <2>1. CASE f > 2
      BY <1>1, <1>2, <1>4, <2>1, CallInv DEF Close, Released
  <2> QED
      BY <1>3, <1>4, <2>1 DEF Close, Released
<1>5. CASE \E bits \in SUBSET (Settable \cup {"EXCL", "DEV"}) :
             alt_fd_list' = [alt_fd_list EXCEPT ![f].bits = bits]
  <2> PICK bits \in SUBSET (Settable \cup {"EXCL", "DEV"}) :
             alt_fd_list' = [alt_fd_list EXCEPT ![f].bits = bits]
      BY <1>5
  <2> DEFINE file == [alt_fd_list[f] EXCEPT !.bits = bits]
  <2>1. file \in Files /\ file.dev = alt_fd_list[f].dev
      BY <1>2 DEF Files
  <2>2. alt_fd_list' = [alt_fd_list EXCEPT ![f] = file]
      OBVIOUS
  <2> QED
      BY <1>1, <2>1, <2>2, CallInv
<1>6. alt_fd_list[f].bits \in SUBSET (Settable \cup {"EXCL", "DEV"})
    BY <1>2 DEF Files
<1>7. CASE SetFlags(f)
  <2>1. PICK bits \in Flags :
          alt_fd_list' = [alt_fd_list EXCEPT ![f].bits = (alt_fd_list[f].bits \ Settable) \cup bits]
      BY <1>7 DEF SetFlags
  <2>2. (alt_fd_list[f].bits \ Settable) \cup bits \in SUBSET (Settable \cup {"EXCL", "DEV"})
      BY <1>6
  <2> QED
      BY <1>5, <2>1, <2>2
<1>8. CASE alt_fd_lock(f)
  <2>1. UNCHANGED alt_fd_list
        \/ alt_fd_list' = [alt_fd_list EXCEPT ![f].bits = alt_fd_list[f].bits \cup {"EXCL"}]
      BY <1>8 DEF alt_fd_lock
  <2>2. alt_fd_list[f].bits \cup {"EXCL"} \in SUBSET (Settable \cup {"EXCL", "DEV"})
      BY <1>6
  <2> QED
      BY <1>3, <1>5, <2>1, <2>2
<1>9. CASE alt_fd_unlock(f)
  <2>1. alt_fd_list' = [alt_fd_list EXCEPT ![f].bits = alt_fd_list[f].bits \ {"EXCL"}]
      BY <1>9 DEF alt_fd_unlock
  <2>2. alt_fd_list[f].bits \ {"EXCL"} \in SUBSET (Settable \cup {"EXCL", "DEV"})
      BY <1>6
  <2> QED
      BY <1>5, <2>1, <2>2
<1> QED
    BY <1>3, <1>4, <1>7, <1>8, <1>9 DEF GetFlags, NoCommand, Driver

LEMMA OpensInv == IInv /\ (Redirect \/ OpenFile) => IInv'
<1> SUFFICES ASSUME IInv, Redirect \/ OpenFile PROVE IInv'
    OBVIOUS
<1> USE FileTableAssumption
<1>1. CASE Redirect
  <2>1. stream \in 0 .. 2
      BY <1>1 DEF Redirect, IInv, TypeOK
  <2>2. Mode[stream + 1] \in {"RDONLY", "WRONLY", "RDWR"}
      BY <2>1 DEF Mode
  <2>3. Console \in Drivers \cup {NoDev} /\ {} \in SUBSET Settable
      BY DEF Drivers
  <2> QED
      BY <1>1, <2>2, <2>3, OpenInv DEF Redirect
<1>2. CASE OpenFile
  <2>1. PICK d \in Drivers \cup {NoDev}, acc \in Modes, bits \in Flags : Open(d, acc, bits)
      BY <1>2 DEF OpenFile
  <2>2. acc \in {"RDONLY", "WRONLY", "RDWR"} /\ bits \in SUBSET Settable /\ ~(stream < 3)
      BY <1>2 DEF OpenFile
  <2> QED
      BY <2>1, <2>2, OpenInv
<1> QED
    BY <1>1, <1>2

LEMMA NextInv == IInv /\ [Next]_vars => IInv'
<1> SUFFICES ASSUME IInv, [Next]_vars PROVE IInv'
    OBVIOUS
<1>1. CASE Redirect \/ OpenFile
    BY <1>1, OpensInv
<1>2. CASE Copy
    BY <1>2, CopyInv
<1>3. CASE alt_file_locked
    BY <1>3, LockedInv
<1>4. CASE DriverOpens
    BY <1>4, DriverOpensInv
<1>5. CASE OpenFailed
    BY <1>5, OpenFailedInv
<1>6. CASE BadDescriptor \/ UNCHANGED vars
    BY <1>6, StutterInv DEF BadDescriptor, Unchanged, vars
<1>7. ASSUME NEW f \in Fds,
             \/ Close(f) \/ GetFlags(f) \/ SetFlags(f) \/ NoCommand(f)
             \/ alt_fd_lock(f) \/ alt_fd_unlock(f)
             \/ Read(f) \/ Write(f) \/ Lseek(f) \/ Fstat(f) \/ Isatty(f) \/ Ioctl(f)
      PROVE  IInv'
    BY <1>7, CallsInv DEF Read, Write, Lseek, Fstat, Isatty, Ioctl
<1> QED
    BY <1>1, <1>2, <1>3, <1>4, <1>5, <1>6, <1>7 DEF Next

LEMMA Invariance == Spec => []IInv
  BY InitInv, NextInv, PTL DEF Spec

\* For every size of the table: the searches that end at the high water mark miss
\* no open descriptor.
THEOREM HighWaterHolds == Spec => []HighWater
<1>1. IInv => HighWater
    BY DEF IInv
<1> QED
    BY <1>1, Invariance, PTL

THEOREM TypeCorrect == Spec => []TypeOK
<1>1. IInv => TypeOK
    BY DEF IInv
<1> QED
    BY <1>1, Invariance, PTL

-----------------------------------------------------------------------------
(* The table implements OpenFiles.                                         *)

LEMMA InitRefines == Init => Abstract!Init
<1> SUFFICES ASSUME Init PROVE Abstract!Init
    OBVIOUS
<1>1. Visible = [f \in Fds |-> IF f \in 0 .. 2 THEN [Empty EXCEPT !.dev = Null] ELSE Empty]
    BY DEF Init, Visible, Fds
<1> QED
    BY <1>1, FileTableAssumption
       DEF Init, Abstract!Init, Abstract!Closed, Abstract!Standard, Abstract!Ok, Empty, Ok

\* What is done to the descriptor that alt_open is working on does not show.
LEMMA OpenRefines ==
    ASSUME NEW d, NEW acc, NEW bits, IInv, Open(d, acc, bits)
    PROVE  UNCHANGED <<Visible, answer>>
<1>1. index = -1
    BY DEF Open, IInv, WorkingOK
<1>2. alt_fd_list \in [Fds -> Files] /\ UNCHANGED answer
    BY DEF IInv, TypeOK, Open
<1>3. CASE UNCHANGED alt_fd_list /\ index' = -1
    BY <1>1, <1>2, <1>3 DEF Visible
<1>4. ASSUME NEW i \in Fds, d # NoDev /\ alt_get_fd(i),
             alt_fd_list' = [alt_fd_list EXCEPT ![i] = [dev |-> d, acc |-> acc, bits |-> bits]]
      PROVE  UNCHANGED Visible
  <2>1. index' = i /\ alt_fd_list[i] = Empty
      BY <1>4 DEF alt_get_fd, FirstFree, IInv, Vacant
  <2>2. \A f \in Fds : f # i => alt_fd_list'[f] = alt_fd_list[f]
      BY <1>2, <1>4
  <2> QED
      BY <1>1, <2>1, <2>2 DEF Visible, Fds
<1> QED
    BY <1>2, <1>3, <1>4 DEF Open, Fails

LEMMA LockedRefines == IInv /\ alt_file_locked => UNCHANGED <<Visible, answer>>
<1> SUFFICES ASSUME IInv, alt_file_locked PROVE UNCHANGED <<Visible, answer>>
    OBVIOUS
<1>1. /\ UNCHANGED <<index, answer>>
      /\ alt_fd_list' = [alt_fd_list EXCEPT ![index].bits = @ \cup {"DEV"}]
    BY DEF alt_file_locked
<1>2. alt_fd_list \in [Fds -> Files]
    BY DEF IInv, TypeOK
<1>3. \A f \in Fds : f # index => alt_fd_list'[f] = alt_fd_list[f]
    BY <1>1, <1>2
<1> QED
    BY <1>1, <1>3 DEF Visible

LEMMA DriverOpensRefines ==
    IInv /\ DriverOpens => UNCHANGED <<Visible, answer>>
                           \/ \E f \in Fds : Abstract!Open(f, Visible'[f])
<1> SUFFICES ASSUME IInv, DriverOpens
             PROVE  UNCHANGED <<Visible, answer>> \/ \E f \in Fds : Abstract!Open(f, Visible'[f])
    OBVIOUS
<1>1. CASE UNCHANGED <<index, answer>>
    BY <1>1 DEF DriverOpens, Visible
<1>2. CASE index' = -1 /\ answer' = Ok
  <2> DEFINE file == alt_fd_list[index]
  <2>1. pc = "open" /\ UNCHANGED alt_fd_list
      BY DEF DriverOpens
  <2>2. /\ index \in Fds /\ file.dev # NoDev
        /\ file.bits \cap {"EXCL", "DEV"} = IF file.dev \in Devs THEN {"DEV"} ELSE {}
        /\ \A j \in Fds : j < index => alt_fd_list[j].dev # NoDev
      BY <2>1 DEF IInv, WorkingOK, Working
  <2>3. file \in Files
      BY <2>2 DEF IInv, TypeOK
  <2>4. Visible' = alt_fd_list
    <3>1. Visible' = [f \in Fds |-> alt_fd_list[f]]
        BY <1>2, <2>1 DEF Visible, Fds
    <3> QED
        BY <3>1 DEF IInv, TypeOK
  <2>5. /\ Visible[index] = Empty
        /\ \A j \in Fds : j # index => Visible[j] = alt_fd_list[j]
      BY <2>2 DEF Visible
  <2>6. Visible' = [Visible EXCEPT ![index] = file]
    <3>1. alt_fd_list = [f \in Fds |-> IF f = index THEN file ELSE Visible[f]]
        BY <2>5 DEF IInv, TypeOK
    <3> QED
        BY <2>4, <3>1 DEF Visible
  <2>7. file.dev \in Devs => ~Abstract!Held(file.dev)
      BY <2>1, <2>5 DEF IInv, NotHeld, Abstract!Held, Empty
  <2>8. ~Abstract!IsOpen(index) /\ \A g \in Fds : g < index => Abstract!IsOpen(g)
      BY <2>2, <2>5 DEF Abstract!IsOpen, Empty, Fds
  <2>9. Abstract!Open(index, file)
      BY <1>2, <2>2, <2>3, <2>6, <2>7, <2>8 DEF Abstract!Open, Abstract!AccessModes, Abstract!Ok, Ok, Files
  <2> QED
      BY <2>2, <2>4, <2>9
<1> QED
    BY <1>1, <1>2 DEF DriverOpens

LEMMA OpenFailedRefines == IInv /\ OpenFailed => Abstract!Refuse
<1> SUFFICES ASSUME IInv, OpenFailed PROVE Abstract!Refuse
    OBVIOUS
<1>1. /\ index' = -1 /\ answer' = <<status>> /\ pc = "failed"
      /\ alt_fd_list' = Released(alt_fd_list, index)
    BY DEF OpenFailed
<1>2. status \in {"none", "ENODEV", "EMFILE", "EACCES", "driver"}
    BY DEF IInv, TypeOK
<1>3. alt_fd_list \in [Fds -> Files] /\ index \in -1 .. ALT_MAX_FD - 1
    BY DEF IInv, TypeOK
<1>4. index # -1 => index > 2
    BY <1>1 DEF IInv, WorkingOK, Working
<1>5. \A f \in Fds : alt_fd_list'[f] = IF f = index THEN Empty ELSE alt_fd_list[f]
    BY <1>1, <1>3, <1>4 DEF Released, Fds
<1>6. UNCHANGED Visible
    BY <1>1, <1>5 DEF Visible, Fds
<1>7. answer' # <<"ok">> /\ answer'[1] # "called"
    BY <1>1, <1>2
<1> QED
    BY <1>6, <1>7 DEF Abstract!Refuse, Abstract!Ok

LEMMA CopyRefines == IInv /\ Copy => \E f \in Fds : Abstract!Redirect(f, Visible'[f])
<1> SUFFICES ASSUME IInv, Copy PROVE \E f \in Fds : Abstract!Redirect(f, Visible'[f])
    OBVIOUS
<1> USE FileTableAssumption
<1> DEFINE s == Turn[stream + 1]
           file == alt_fd_list[index]
<1>1. /\ pc = "copy" /\ index' = -1 /\ UNCHANGED answer
      /\ alt_fd_list' = Released([alt_fd_list EXCEPT ![s] = file], index)
    BY DEF Copy
<1>2. stream \in 0 .. 2 /\ file.dev \in Devs /\ file.bits = {"DEV"}
    BY <1>1 DEF IInv, Redirecting, TypeOK
<1>3. s \in 0 .. 2 /\ s \in Fds
    BY <1>2 DEF Turn, Fds
<1>4. index \in Fds /\ index > 2
    BY <1>1 DEF IInv, WorkingOK, Working
<1>5. alt_fd_list \in [Fds -> Files] /\ file \in Files
    BY <1>4 DEF IInv, TypeOK
<1> HIDE DEF s, file
<1>6. alt_fd_list' = [[alt_fd_list EXCEPT ![s] = file] EXCEPT ![index] = Empty]
    BY <1>1, <1>4 DEF Released
<1>7. Visible' = [f \in Fds |-> IF f = s THEN file ELSE IF f = index THEN Empty ELSE alt_fd_list[f]]
  <2>1. \A f \in Fds : alt_fd_list'[f] = IF f = index THEN Empty
                                          ELSE IF f = s THEN file ELSE alt_fd_list[f]
      BY <1>3, <1>4, <1>5, <1>6
  <2>2. s # index /\ \A f \in Fds : f # index'
      BY <1>1, <1>3, <1>4 DEF Fds
  <2> QED
      BY <2>1, <2>2 DEF Visible
<1>8. Visible' = [Visible EXCEPT ![s] = file]
    BY <1>3, <1>4, <1>7 DEF Visible
<1>9. ~Abstract!Held(file.dev)
    BY <1>1, <1>2 DEF IInv, NotHeld, Abstract!Held, Visible, Empty, file
<1>10. Visible'[s] = file
    BY <1>3, <1>7
<1>11. Abstract!Redirect(s, file)
    BY <1>1, <1>2, <1>3, <1>5, <1>8, <1>9
       DEF Abstract!Redirect, Abstract!Standard, Abstract!AccessModes, Files
<1> QED
    BY <1>3, <1>10, <1>11

LEMMA FdsAreNumbers == -1 \notin Fds /\ \A f \in Fds : f \in 0 .. 2 <=> ~(f > 2)
  BY FileTableAssumption DEF Fds

LEMMA FlagsAnswer ==
    \A a, b : <<"flags", a, b>>[1] = "flags" /\ <<"flags", a, b>> # <<"ok">>
  OBVIOUS

\* Between the calls the table is what the program sees.
LEMMA CallsRefine ==
    ASSUME NEW f \in Fds, IInv,
           \/ Close(f) \/ GetFlags(f) \/ SetFlags(f) \/ NoCommand(f)
           \/ alt_fd_lock(f) \/ alt_fd_unlock(f)
           \/ \E fn \in {"lseek", "fstat", "ioctl"}, otherwise \in
                 {"ENOTSUP", "character device", "terminal", "ENOTTY"} :
                 Driver(f, fn, TRUE, otherwise)
           \/ Read(f) \/ Write(f)
    PROVE  Abstract!Next
<1> USE FileTableAssumption
<1>1. index = -1 /\ alt_fd_list[f].dev # NoDev /\ index' = -1
    BY DEF Close, GetFlags, SetFlags, NoCommand, alt_fd_lock, alt_fd_unlock, Read, Write, Driver,
           Calls, Unchanged, IInv, WorkingOK
<1>2. IInv'
    BY CallsInv DEF Read, Write
<1>3. Visible = alt_fd_list /\ Visible' = alt_fd_list'
  <2>1. alt_fd_list \in [Fds -> Files] /\ alt_fd_list' \in [Fds -> Files]
      BY <1>2 DEF IInv, TypeOK
  <2>2. -1 \notin Fds
      BY FdsAreNumbers
  <2>3. Visible = [g \in Fds |-> alt_fd_list[g]]
      BY <1>1, <2>2 DEF Visible
  <2>4. Visible' = [g \in Fds |-> alt_fd_list'[g]]
      BY <1>1, <2>2 DEF Visible
  <2> QED
      BY <2>1, <2>3, <2>4
<1>4. Abstract!IsOpen(f)
    BY <1>1, <1>3 DEF Abstract!IsOpen
<1>5. CASE Close(f)
  <2>1. answer' \in {Abstract!Ok, <<"driver">>}
      BY <1>5 DEF Close, Abstract!Ok, Ok
  <2>2. alt_fd_list' = IF f > 2 THEN [alt_fd_list EXCEPT ![f] = Abstract!Closed] ELSE alt_fd_list
      BY <1>5 DEF Close, Released, Abstract!Closed, Empty
  <2>3. f \in Abstract!Standard <=> ~(f > 2)
      BY FdsAreNumbers DEF Abstract!Standard
  <2>4. Abstract!Close(f)
      BY <1>3, <1>4, <2>1, <2>2, <2>3 DEF Abstract!Close
  <2> QED
      BY <2>4 DEF Abstract!Next
<1>6. CASE GetFlags(f)
  <2> DEFINE a == alt_fd_list[f].acc
             b == alt_fd_list[f].bits \ {"EXCL", "DEV"}
  <2>1. UNCHANGED alt_fd_list /\ answer' = <<"flags", a, b>>
      BY <1>6 DEF GetFlags
  <2> HIDE DEF a, b
  <2>2. answer' # <<"ok">> /\ answer'[1] # "called"
    <3>1. <<"flags", a, b>>[1] = "flags" /\ <<"flags", a, b>> # <<"ok">>
        BY FlagsAnswer
    <3> QED
        BY <2>1, <3>1, Zenon
  <2>3. Abstract!Refuse
      BY <1>3, <2>1, <2>2 DEF Abstract!Refuse, Abstract!Ok
  <2> QED
      BY <2>3 DEF Abstract!Next
<1>13. CASE NoCommand(f)
  <2>1. Abstract!Refuse
      BY <1>3, <1>13 DEF NoCommand, Abstract!Refuse, Abstract!Ok
  <2> QED
      BY <2>1 DEF Abstract!Next
<1>7. CASE SetFlags(f)
  <2>1. Abstract!SetFlags(f)
      BY <1>3, <1>4, <1>7 DEF SetFlags, Abstract!SetFlags, Abstract!Settable, Settable, Abstract!Ok, Ok
  <2> QED
      BY <2>1 DEF Abstract!Next
<1>8. CASE alt_fd_lock(f)
  <2>1. CASE answer' = Ok /\ alt_fd_list' = [alt_fd_list EXCEPT ![f].bits = @ \cup {"EXCL"}]
    <3>1. Abstract!Exclusive(f)
        BY <1>3, <1>4, <1>8, <2>1 DEF alt_fd_lock, Abstract!Exclusive, Abstract!Ok, Ok
    <3> QED
        BY <3>1 DEF Abstract!Next
  <2>2. CASE answer' = <<"EACCES">> /\ UNCHANGED alt_fd_list
    <3>1. Abstract!Refuse
        BY <1>3, <2>2 DEF Abstract!Refuse, Abstract!Ok
    <3> QED
        BY <3>1 DEF Abstract!Next
  <2> QED
      BY <1>8, <2>1, <2>2 DEF alt_fd_lock
<1>9. CASE alt_fd_unlock(f)
  <2>1. Abstract!Exclusive(f)
      BY <1>3, <1>4, <1>9 DEF alt_fd_unlock, Abstract!Exclusive, Abstract!Ok, Ok
  <2> QED
      BY <2>1 DEF Abstract!Next
<1>10. ASSUME NEW fn \in {"read", "write", "lseek", "fstat", "ioctl"}, NEW allowed,
              NEW otherwise \in {"EACCES", "ENOTSUP", "character device", "terminal", "ENOTTY"},
              Driver(f, fn, allowed, otherwise),
              allowed /\ fn = "read" => alt_fd_list[f].acc # "WRONLY",
              allowed /\ fn = "write" => alt_fd_list[f].acc # "RDONLY"
       PROVE  Abstract!Next
  <2>1. CASE allowed /\ Has(alt_fd_list[f].dev, fn)
    <3>1. Abstract!Use(f, fn)
        BY <1>3, <1>4, <1>10, <2>1 DEF Driver, Abstract!Use
    <3> QED
        BY <3>1 DEF Abstract!Next
  <2>2. CASE ~(allowed /\ Has(alt_fd_list[f].dev, fn))
    <3>1. Abstract!Refuse
        BY <1>3, <1>10, <2>2 DEF Driver, Abstract!Refuse, Abstract!Ok
    <3> QED
        BY <3>1 DEF Abstract!Next
  <2> QED
      BY <2>1, <2>2
<1>11. CASE Read(f)
    BY <1>10, <1>11 DEF Read
<1>12. CASE Write(f)
    BY <1>10, <1>12 DEF Write
<1> QED
    BY <1>5, <1>6, <1>7, <1>8, <1>9, <1>10, <1>11, <1>12, <1>13

LEMMA NextRefines == IInv /\ [Next]_vars => [Abstract!Next]_<<Visible, answer>>
<1> SUFFICES ASSUME IInv, [Next]_vars PROVE [Abstract!Next]_<<Visible, answer>>
    OBVIOUS
<1>1. CASE Redirect \/ OpenFile
    BY <1>1, OpenRefines DEF Redirect, OpenFile
<1>2. CASE Copy
    BY <1>2, CopyRefines DEF Abstract!Next
<1>3. CASE alt_file_locked
    BY <1>3, LockedRefines
<1>4. CASE DriverOpens
    BY <1>4, DriverOpensRefines DEF Abstract!Next
<1>5. CASE OpenFailed
    BY <1>5, OpenFailedRefines DEF Abstract!Next
<1>6. CASE BadDescriptor
  <2>1. Abstract!Refuse
      BY <1>6 DEF BadDescriptor, Unchanged, Abstract!Refuse, Abstract!Ok, Visible
  <2> QED
      BY <2>1 DEF Abstract!Next
<1>7. CASE UNCHANGED vars
    BY <1>7 DEF vars, Visible
<1>8. ASSUME NEW f \in Fds,
             \/ Close(f) \/ GetFlags(f) \/ SetFlags(f) \/ NoCommand(f)
             \/ alt_fd_lock(f) \/ alt_fd_unlock(f)
             \/ Read(f) \/ Write(f) \/ Lseek(f) \/ Fstat(f) \/ Isatty(f) \/ Ioctl(f)
      PROVE  Abstract!Next
    BY <1>8, CallsRefine DEF Lseek, Fstat, Isatty, Ioctl
<1> QED
    BY <1>1, <1>2, <1>3, <1>4, <1>5, <1>6, <1>7, <1>8 DEF Next

\* For every table, device and mode: a failed open leaves no trace, a device that
\* is held is not opened, a call reaches what was opened.
THEOREM Refinement == Spec => ImplementsOpenFiles
  BY InitRefines, NextRefines, Invariance, PTL DEF Spec, ImplementsOpenFiles, Abstract!Spec

-----------------------------------------------------------------------------
(* The standard streams.  The redirection cannot fail if the console's     *)
(* driver accepts every open: the first descriptor that it asks for is     *)
(* free, and nobody holds a device yet.                                    *)

Taken(s) == /\ alt_fd_list[Turn[s + 1]].dev = Console
            /\ alt_fd_list[Turn[s + 1]].acc = Mode[s + 1]

Redirected == \A s \in 0 .. 2 : s < stream => Taken(s)

\* Until the last stream is redirected, no other descriptor is in use.
Quiet ==
    stream < 3 =>
        /\ pc # "failed"
        /\ \A f \in Fds : f > 2 /\ f # index => alt_fd_list[f].dev = NoDev
        /\ \A f \in Fds : "EXCL" \notin alt_fd_list[f].bits
        /\ pc # "ready" => /\ alt_fd_list[index].dev = Console
                           /\ alt_fd_list[index].acc = Mode[stream + 1]

LEMMA TurnsAre ==
    /\ \A s \in 0 .. 2 : Turn[s + 1] \in 0 .. 2 /\ Turn[s + 1] \in Fds
    /\ \A s, t \in 0 .. 2 : s # t => Turn[s + 1] # Turn[t + 1]
<1>1. \A s \in 0 .. 2 : Turn[s + 1] \in 0 .. 2
    BY DEF Turn
<1>2. 0 .. 2 \subseteq Fds
    BY FileTableAssumption DEF Fds
<1>3. \A s, t \in 0 .. 2 : s # t => Turn[s + 1] # Turn[t + 1]
    BY DEF Turn
<1> QED
    BY <1>1, <1>2, <1>3

\* What changes no device and no mode of 0, 1 and 2 leaves the streams alone.
LEMMA StreamsStay ==
    ASSUME Redirected, stream' = stream,
           \A f \in 0 .. 2 : /\ alt_fd_list'[f].dev = alt_fd_list[f].dev
                             /\ alt_fd_list'[f].acc = alt_fd_list[f].acc
    PROVE  Redirected'
<1>1. \A s \in 0 .. 2 : Turn[s + 1] \in 0 .. 2
    BY TurnsAre
<1> QED
    BY <1>1 DEF Redirected, Taken

\* An open puts its entry behind the standard streams.
LEMMA OpenStreams ==
    ASSUME NEW d, NEW acc, NEW bits, IInv, Redirected, Open(d, acc, bits)
    PROVE  Redirected'
<1>1. stream' = stream /\ alt_fd_list \in [Fds -> Files]
    BY DEF Open, IInv, TypeOK
<1>2. CASE UNCHANGED alt_fd_list
    BY <1>1, <1>2, StreamsStay
<1>3. ASSUME NEW i \in Fds, alt_get_fd(i),
             alt_fd_list' = [alt_fd_list EXCEPT ![i] = [dev |-> d, acc |-> acc, bits |-> bits]]
      PROVE  Redirected'
  <2>1. i \notin 0 .. 2
      BY <1>3 DEF alt_get_fd, FirstFree, IInv, Standard
  <2>2. \A f \in 0 .. 2 : alt_fd_list'[f] = alt_fd_list[f]
      BY <1>1, <1>3, <2>1, FileTableAssumption DEF Fds
  <2> QED
      BY <1>1, <2>2, StreamsStay
<1> QED
    BY <1>2, <1>3 DEF Open, Fails

LEMMA RedirectStreams ==
    ASSUME IInv, Redirected, Quiet, Redirect
    PROVE  Redirected' /\ Quiet'
<1> USE FileTableAssumption
<1> DEFINE file == [dev |-> Console, acc |-> Mode[stream + 1], bits |-> {}]
<1>1. Redirected'
    BY OpenStreams DEF Redirect
<1>2. /\ stream < 3 /\ pc = "ready" /\ index = -1 /\ stream' = stream
      /\ Open(Console, Mode[stream + 1], {})
    BY DEF Redirect, Open, IInv, WorkingOK
<1>3. 3 \in Fds /\ alt_fd_list[3].dev = NoDev
    BY <1>2 DEF Quiet, Fds
<1>4. PICK i \in Fds :
        /\ alt_get_fd(i) /\ alt_fd_list' = [alt_fd_list EXCEPT ![i] = file]
        /\ pc' = IF Console \in Devs THEN "locked" ELSE "open"
    BY <1>2, <1>3 DEF Open
<1>5. index' = i /\ pc' = "locked"
    BY <1>4 DEF alt_get_fd
<1>6. \A f \in Fds : alt_fd_list'[f] = IF f = i THEN file ELSE alt_fd_list[f]
    BY <1>4 DEF IInv, TypeOK
<1>7. \A f \in Fds : f > 2 /\ f # i => alt_fd_list'[f].dev = NoDev
  <2>1. \A f \in Fds : f # -1
      BY DEF Fds
  <2> QED
      BY <1>2, <1>6, <2>1 DEF Quiet
<1>8. \A f \in Fds : "EXCL" \notin alt_fd_list'[f].bits
    BY <1>2, <1>6 DEF Quiet
<1>9. alt_fd_list'[i].dev = Console /\ alt_fd_list'[i].acc = Mode[stream + 1]
    BY <1>6
<1> QED
    BY <1>1, <1>2, <1>5, <1>7, <1>8, <1>9 DEF Quiet

LEMMA LockedStreams ==
    ASSUME IInv, Redirected, Quiet, alt_file_locked
    PROVE  Redirected' /\ Quiet'
<1>1. /\ pc = "locked" /\ index' = index /\ stream' = stream
      /\ alt_fd_list' = [alt_fd_list EXCEPT ![index].bits = @ \cup {"DEV"}]
    BY DEF alt_file_locked
<1>2. index \in Fds /\ alt_fd_list \in [Fds -> Files]
    BY <1>1 DEF IInv, WorkingOK, Working, TypeOK
<1>3. \A f \in Fds : /\ alt_fd_list'[f].dev = alt_fd_list[f].dev
                     /\ alt_fd_list'[f].acc = alt_fd_list[f].acc
                     /\ alt_fd_list'[f].bits \subseteq alt_fd_list[f].bits \cup {"DEV"}
    BY <1>1, <1>2 DEF Files
<1>4. Redirected'
  <2>1. 0 .. 2 \subseteq Fds
      BY FileTableAssumption DEF Fds
  <2> QED
      BY <1>1, <1>3, <2>1, StreamsStay
<1>5. Quiet'
  <2> SUFFICES ASSUME stream < 3 PROVE Quiet'
      BY <1>1 DEF Quiet
  <2>1. \A f \in Fds : "EXCL" \notin alt_fd_list[f].bits
      BY DEF Quiet
  <2>2. pc' = "open"
      BY <2>1 DEF alt_file_locked, LockedBefore
  <2> QED
      BY <1>1, <1>2, <1>3, <2>1, <2>2 DEF Quiet
<1> QED
    BY <1>4, <1>5

LEMMA CopyStreams ==
    ASSUME IInv, Redirected, Quiet, Copy
    PROVE  Redirected' /\ Quiet'
<1> DEFINE s == Turn[stream + 1]
           file == alt_fd_list[index]
<1>1. /\ pc = "copy" /\ pc' = "ready" /\ index' = -1 /\ stream' = stream + 1
      /\ alt_fd_list' = Released([alt_fd_list EXCEPT ![s] = file], index)
    BY DEF Copy
<1>2. stream \in 0 .. 2 /\ file.bits = {"DEV"}
    BY <1>1 DEF IInv, Redirecting, TypeOK
<1>3. s \in 0 .. 2 /\ s \in Fds
    BY <1>2, TurnsAre
<1>4. index \in Fds /\ index > 2
    BY <1>1 DEF IInv, WorkingOK, Working
<1>5. file.dev = Console /\ file.acc = Mode[stream + 1]
    BY <1>1, <1>2 DEF Quiet
<1> HIDE DEF s, file
<1>6. \A f \in Fds : alt_fd_list'[f] = IF f = index THEN Empty
                                        ELSE IF f = s THEN file ELSE alt_fd_list[f]
    BY <1>1, <1>3, <1>4 DEF Released, IInv, TypeOK
<1>7. ASSUME NEW t \in 0 .. 2, t < stream'
      PROVE  Taken(t)'
  <2>1. Turn[t + 1] \in Fds /\ Turn[t + 1] # index
      BY <1>4, TurnsAre
  <2>2. CASE t = stream
      BY <1>5, <1>6, <2>1, <2>2 DEF Taken, s
  <2>3. CASE t < stream
    <3>1. Turn[t + 1] # s
        BY <1>2, <2>3, TurnsAre DEF s
    <3>2. Taken(t)
        BY <2>3 DEF Redirected
    <3> QED
        BY <1>6, <2>1, <3>1, <3>2 DEF Taken
  <2> QED
      BY <1>1, <1>2, <1>7, <2>2, <2>3
<1>8. \A f \in Fds : f > 2 => alt_fd_list'[f].dev = NoDev
  <2>1. \A f \in Fds : f > 2 => f # s
      BY <1>3
  <2> QED
      BY <1>2, <1>6, <2>1 DEF Quiet, Empty
<1>9. \A f \in Fds : "EXCL" \notin alt_fd_list'[f].bits
    BY <1>2, <1>6 DEF Quiet, Empty
<1> QED
    BY <1>1, <1>7, <1>8, <1>9 DEF Redirected, Quiet

\* Once all are redirected, a call changes other descriptors or only the flags.
LEMMA LaterStreams ==
    ASSUME NEW f \in Fds, IInv, Redirected,
           alt_fd_list' \in {alt_fd_list, Released(alt_fd_list, f)}
             \/ \E bits : alt_fd_list' = [alt_fd_list EXCEPT ![f].bits = bits],
           stream = 3, stream' = stream
    PROVE  Redirected' /\ Quiet'
<1>1. alt_fd_list \in [Fds -> Files] /\ 0 .. 2 \subseteq Fds
    BY FileTableAssumption DEF IInv, TypeOK, Fds
<1>2. \A g \in 0 .. 2 : /\ alt_fd_list'[g].dev = alt_fd_list[g].dev
                        /\ alt_fd_list'[g].acc = alt_fd_list[g].acc
  <2>1. CASE alt_fd_list' = Released(alt_fd_list, f)
    <3>1. f > 2 => \A g \in 0 .. 2 : g # f
        OBVIOUS
    <3> QED
        BY <1>1, <2>1, <3>1 DEF Released
  <2>2. ASSUME NEW bits, alt_fd_list' = [alt_fd_list EXCEPT ![f].bits = bits]
        PROVE  \A g \in 0 .. 2 : /\ alt_fd_list'[g].dev = alt_fd_list[g].dev
                                 /\ alt_fd_list'[g].acc = alt_fd_list[g].acc
      BY <1>1, <2>2 DEF Files
  <2> QED
      BY <2>1, <2>2
<1> QED
    BY <1>2, StreamsStay DEF Quiet

LEMMA StreamsNext ==
    ASSUME ~Has(Console, "open"), IInv, Redirected, Quiet, [Next]_vars
    PROVE  Redirected' /\ Quiet'
<1>1. CASE Redirect
    BY <1>1, RedirectStreams
<1>2. CASE OpenFile
  <2>1. PICK d \in Drivers \cup {NoDev}, acc \in Modes, bits \in Flags : Open(d, acc, bits)
      BY <1>2 DEF OpenFile
  <2>2. stream = 3 /\ stream' = 3
      BY <1>2, <2>1 DEF OpenFile, Open
  <2> QED
      BY <2>1, <2>2, OpenStreams DEF Quiet
<1>3. CASE Copy
    BY <1>3, CopyStreams
<1>4. CASE alt_file_locked
    BY <1>4, LockedStreams
<1>5. CASE DriverOpens
  <2>1. UNCHANGED <<alt_fd_list, stream>> /\ pc = "open"
      BY <1>5 DEF DriverOpens
  <2>2. Redirected'
      BY <2>1, StreamsStay
  <2>3. stream < 3 => pc' = "copy" /\ index' = index
      BY <1>5, <2>1 DEF DriverOpens, Quiet
  <2> QED
      BY <2>1, <2>2, <2>3 DEF Quiet
<1>6. CASE OpenFailed
  <2>1. pc = "failed" /\ stream = 3 /\ stream' = stream
      BY <1>6 DEF OpenFailed, Quiet, IInv, TypeOK
  <2>2. alt_fd_list' = Released(alt_fd_list, index)
      BY <1>6 DEF OpenFailed
  <2>3. CASE index \in Fds
      BY <2>1, <2>2, <2>3, LaterStreams
  <2>4. CASE index \notin Fds
    <3>1. index = -1
        BY <2>4, FileTableAssumption DEF IInv, TypeOK, Fds
    <3>2. alt_fd_list' = alt_fd_list
        BY <2>2, <3>1 DEF Released
    <3> QED
        BY <2>1, <3>2, StreamsStay DEF Quiet
  <2> QED
      BY <2>3, <2>4
<1>7. CASE BadDescriptor \/ UNCHANGED vars
  <2>1. UNCHANGED <<alt_fd_list, pc, index, stream>>
      BY <1>7 DEF BadDescriptor, Unchanged, vars
  <2> QED
      BY <2>1, StreamsStay DEF Quiet
<1>8. ASSUME NEW f \in Fds,
             \/ Close(f) \/ GetFlags(f) \/ SetFlags(f) \/ NoCommand(f)
             \/ alt_fd_lock(f) \/ alt_fd_unlock(f)
             \/ Read(f) \/ Write(f) \/ Lseek(f) \/ Fstat(f) \/ Isatty(f) \/ Ioctl(f)
      PROVE  Redirected' /\ Quiet'
  <2>1. stream = 3 /\ stream' = stream
      BY <1>8 DEF Close, GetFlags, SetFlags, NoCommand, alt_fd_lock, alt_fd_unlock, Read, Write,
                  Lseek, Fstat, Isatty, Ioctl, Driver, Calls, Unchanged
  <2>2. alt_fd_list' \in {alt_fd_list, Released(alt_fd_list, f)}
          \/ \E bits : alt_fd_list' = [alt_fd_list EXCEPT ![f].bits = bits]
      BY <1>8 DEF Close, GetFlags, SetFlags, NoCommand, alt_fd_lock, alt_fd_unlock, Read, Write,
                  Lseek, Fstat, Isatty, Ioctl, Driver
  <2> QED
      BY <2>1, <2>2, LaterStreams
<1> QED
    BY <1>1, <1>2, <1>3, <1>4, <1>5, <1>6, <1>7, <1>8 DEF Next

\* For every table, device and mode: what the program prints goes to the console
\* and what it reads comes from there, whatever it opens, locks and closes.
THEOREM StreamsHold == Spec => []StandardStreams
<1> DEFINE Inv == ~Has(Console, "open") => Redirected /\ Quiet
<1>1. ASSUME Init PROVE Inv
  <2>1. stream = 0 /\ pc = "ready" /\ index = -1
      BY <1>1 DEF Init
  <2>2. \A f \in Fds : /\ f > 2 => alt_fd_list[f].dev = NoDev
                       /\ alt_fd_list[f].bits = {}
      BY <1>1 DEF Init, Empty
  <2> QED
      BY <2>1, <2>2 DEF Redirected, Quiet
<1>2. IInv /\ Inv /\ [Next]_vars => Inv'
    BY StreamsNext DEF Has
<1>3. ASSUME Inv PROVE StandardStreams
  <2> SUFFICES ASSUME stream = 3, ~Has(Console, "open"), NEW f \in 0 .. 2
               PROVE  /\ alt_fd_list[f].dev = Console
                      /\ alt_fd_list[f].acc = IF f = 0 THEN "RDONLY" ELSE "WRONLY"
      BY DEF StandardStreams
  <2>1. Taken(0) /\ Taken(1) /\ Taken(2)
      BY <1>3 DEF Redirected
  <2> QED
      BY <2>1 DEF Taken, Turn, Mode
<1> QED
    BY <1>1, <1>2, <1>3, Invariance, PTL DEF Spec

-----------------------------------------------------------------------------
(* Sbrk: who is in the call.  Interrupts are off from the rounding of the heap's end *)
(* to the answer, so that at most one call is under way, and the end is    *)
(* still the one that it has read.                                         *)

SbrkTypeOK ==
    /\ heap_end \in Nat /\ sp \in Nat /\ depth \in Nat
    /\ et \in Nat /\ old_limit \in Nat
    /\ active \in {"main", "irq"} /\ pie \in BOOLEAN
    /\ prev \in [{"main", "irq"} -> Nat \cup {NoCall}]
    /\ \A b \in blocks : b[1] \in Nat /\ b[2] \in Nat

OneCall ==
    /\ pie => active = "main" /\ prev["main"] = NoCall
    /\ active = "irq" => prev["main"] = NoCall
    /\ active = "main" => prev["irq"] = NoCall
    /\ prev[active] # NoCall => prev[active] = heap_end

Blocks ==
    /\ \A b \in blocks : b[1] <= b[2] /\ b[2] <= heap_end
    /\ BlocksApart

HeapInv == SbrkTypeOK /\ OneCall /\ Blocks

\* Rounding up.
LEMMA AlignedUp ==
  ASSUME NEW a \in Nat
  PROVE  Aligned(a) \in Nat /\ a <= Aligned(a) /\ (a % 4 = 0 => Aligned(a) = a)
BY DEF Aligned

LEMMA HeapStep ==
  ASSUME HeapInv, [SbrkNext]_sbrkVars
  PROVE  HeapInv'
<1> USE SbrkAssumption
<1> USE DEF HeapInv
<1>0. NoCall \notin Nat
  BY DEF NoCall
<1>1. CASE sbrk
  <2>1. Aligned(heap_end) \in Nat /\ heap_end <= Aligned(heap_end)
    BY AlignedUp DEF SbrkTypeOK
  <2>2. SbrkTypeOK'
    BY <1>1, <2>1 DEF sbrk, SbrkTypeOK, stack
  <2>3. OneCall'
    BY <1>1 DEF sbrk, SbrkTypeOK, OneCall, stack
  <2>4. \A b \in blocks : b[2] <= Aligned(heap_end)
    BY <2>1 DEF Blocks, SbrkTypeOK
  <2>5. Blocks'
    BY <1>1, <2>4 DEF sbrk, Blocks, BlocksApart
  <2> QED
    BY <2>2, <2>3, <2>5
<1>2. ASSUME NEW incr \in Incrs, Refused(incr) PROVE HeapInv'
  <2>1. SbrkTypeOK'
    BY <1>2 DEF Refused, SbrkTypeOK, stack
  <2>2. OneCall'
    BY <1>2 DEF Refused, SbrkTypeOK, OneCall, stack
  <2>3. Blocks'
    BY <1>2 DEF Refused, Blocks, BlocksApart
  <2> QED
    BY <2>1, <2>2, <2>3
<1>3. ASSUME NEW incr \in Incrs, Extended(incr) PROVE HeapInv'
  <2> DEFINE new == <<prev[active], prev[active] + incr, active>>
  <2>1. /\ prev[active] = heap_end /\ heap_end \in Nat /\ incr \in Nat
        /\ heap_end' = heap_end + incr /\ blocks' = blocks \cup {new}
    BY <1>3 DEF Extended, OneCall, SbrkTypeOK
  <2>2. /\ heap_end' \in Nat /\ heap_end <= heap_end'
        /\ new[1] = heap_end /\ new[2] = heap_end'
    BY <2>1
  <2>3. SbrkTypeOK'
    BY <1>3, <2>1, <2>2 DEF Extended, SbrkTypeOK
  <2>4. OneCall'
    BY <1>3 DEF Extended, SbrkTypeOK, OneCall
  <2> HIDE DEF new
  <2>5. \A b \in blocks : b[2] <= heap_end' /\ b[2] <= new[1]
    BY <2>1, <2>2 DEF Blocks, SbrkTypeOK
  <2>6. \A b \in blocks' : b[1] <= b[2] /\ b[2] <= heap_end'
    BY <2>1, <2>2, <2>5 DEF Blocks
  <2>7. BlocksApart'
    BY <2>1, <2>5 DEF Blocks, BlocksApart
  <2> QED
    BY <2>3, <2>4, <2>6, <2>7 DEF Blocks
<1>4. ASSUME NEW n \in Frames, Push(n) \/ Pop(n) PROVE HeapInv'
  <2>1. sp' \in Nat
    BY <1>4 DEF Push, Pop, SbrkTypeOK
  <2>2. UNCHANGED <<heap_end, blocks, depth, et, old_limit, active, pie, prev>>
    BY <1>4 DEF Push, Pop
  <2> QED
    BY <2>1, <2>2 DEF SbrkTypeOK, OneCall, Blocks, BlocksApart
<1>5. ASSUME NEW n \in Frames, Entry(n) PROVE HeapInv'
  <2>1. sp' \in Nat /\ depth' \in Nat /\ et' \in Nat /\ old_limit' \in Nat
    BY <1>5 DEF Entry, SbrkTypeOK, ExceptionLimit
  <2>2. UNCHANGED <<heap_end, blocks, prev>> /\ active' = "irq" /\ pie' = FALSE /\ pie /\ active = "main"
    BY <1>5 DEF Entry
  <2> QED
    BY <2>1, <2>2 DEF SbrkTypeOK, OneCall, Blocks, BlocksApart
<1>6. CASE Exit
  <2>1. sp' \in Nat /\ depth' \in Nat /\ et' \in Nat /\ old_limit' \in Nat
    BY <1>6 DEF Exit, SbrkTypeOK
  <2>2. UNCHANGED <<heap_end, blocks, prev>> /\ active' = "main" /\ pie' = TRUE
        /\ active = "irq" /\ prev["irq"] = NoCall
    BY <1>6 DEF Exit
  <2> QED
    BY <2>1, <2>2 DEF SbrkTypeOK, OneCall, Blocks, BlocksApart
<1>7. CASE UNCHANGED sbrkVars
  BY <1>7 DEF sbrkVars, stack, SbrkTypeOK, OneCall, Blocks, BlocksApart
<1> QED
  BY <1>1, <1>2, <1>3, <1>4, <1>5, <1>6, <1>7 DEF SbrkNext

LEMMA HeapHolds == SbrkSpec => []HeapInv
<1>1. SbrkInit => HeapInv
  BY SbrkAssumption
  DEF SbrkInit, HeapInv, SbrkTypeOK, OneCall, Blocks, BlocksApart, NoCall
<1> QED
  BY <1>1, HeapStep, PTL DEF SbrkSpec

\* No byte is handed out twice, in every heap and for every sequence of calls, with
\* interrupts that take memory while the program does.
THEOREM BlocksDisjoint == SbrkSpec => []BlocksApart
<1>1. HeapInv => BlocksApart
  BY DEF HeapInv, Blocks
<1> QED
  BY <1>1, HeapHolds, PTL

-----------------------------------------------------------------------------
(* The limit.                                                              *)

\* The limit of the program's stack: an exception with a stack of its own
\* keeps it elsewhere.
ProgramLimit == IF active = "irq" /\ EXCEPTION_STACK THEN old_limit ELSE et

\* It never gets ahead of the heap.
LimitInv ==
    /\ ProgramLimit <= heap_end
    /\ ~EXCEPTION_STACK => old_limit = 0
    /\ heap_end >= HeapStart
    /\ ~EXCEPTION_STACK => OverflowIsReal

\* Blocks of whole words: the heap ends on a word, and need not be rounded.
WordIncrs == \A incr \in Incrs : incr % 4 = 0

\* With the checks on, the limit is the end of the heap, and the stack is above it.
CheckedInv ==
    /\ heap_end % 4 = 0 /\ heap_end <= HeapLimit
    /\ Running => ProgramLimit = heap_end /\ heap_end <= sp
    /\ active = "main" => old_limit = 0
    /\ active = "irq" /\ EXCEPTION_STACK => et = ExceptionLimit

LEMMA LimitStep ==
  ASSUME HeapInv, LimitInv, [SbrkNext]_sbrkVars
  PROVE  LimitInv'
<1> USE SbrkAssumption
<1> USE DEF LimitInv, ProgramLimit, OverflowIsReal, Running
<1>1. CASE sbrk
  <2>1. Aligned(heap_end) \in Nat /\ heap_end <= Aligned(heap_end)
    BY AlignedUp DEF HeapInv, SbrkTypeOK
  <2> QED
    BY <1>1, <2>1 DEF sbrk, stack, HeapInv, SbrkTypeOK
<1>2. ASSUME NEW incr \in Incrs, Refused(incr) PROVE LimitInv'
  BY <1>2 DEF Refused, stack
<1>3. ASSUME NEW incr \in Incrs, Extended(incr) PROVE LimitInv'
  <2>1. /\ prev[active] = heap_end /\ heap_end \in Nat /\ incr \in Nat
        /\ heap_end' = heap_end + incr
    BY <1>3 DEF Extended, OneCall, HeapInv, SbrkTypeOK
  <2>2. et \in Nat /\ old_limit \in Nat /\ sp \in Nat
    BY DEF HeapInv, SbrkTypeOK
  <2>3. /\ et' = IF OnHeap THEN heap_end' ELSE et
        /\ old_limit' = IF OldOnHeap THEN heap_end' ELSE old_limit
        /\ overflow' = IF OnHeap /\ sp <= heap_end' THEN "sbrk"
                       ELSE IF OldOnHeap /\ old_limit <= heap_end' THEN "sbrk in an exception"
                       ELSE "no"
        /\ UNCHANGED <<sp, active>>
    BY <1>3, <2>1 DEF Extended
  <2>4. OldOnHeap => EXCEPTION_STACK
    BY DEF OldOnHeap
  <2>5. ProgramLimit' <= heap_end'
    <3>1. (et <= heap_end => et' <= heap_end')
          /\ (old_limit <= heap_end => old_limit' <= heap_end')
      <4>1. et' \in {et, heap_end'} /\ old_limit' \in {old_limit, heap_end'}
        BY <2>3
      <4>2. heap_end <= heap_end'
        BY <2>1
      <4> QED
        BY <2>1, <2>2, <4>1, <4>2
    <3> QED
      BY <2>3, <3>1
  <2>6. ~EXCEPTION_STACK => old_limit' = 0
    BY <2>3, <2>4
  <2>7. heap_end' >= HeapStart
    BY <2>1
  <2>8. ASSUME ~EXCEPTION_STACK, overflow' # "no" PROVE sp' <= heap_end'
    BY <2>3, <2>4, <2>8
  <2> QED
    BY <2>5, <2>6, <2>7, <2>8
<1>4. ASSUME NEW n \in Frames, Push(n) \/ Pop(n) PROVE LimitInv'
  BY <1>4 DEF Push, Pop, HeapInv, SbrkTypeOK
<1>5. ASSUME NEW n \in Frames, Entry(n) PROVE LimitInv'
  BY <1>5 DEF Entry, HeapInv, SbrkTypeOK
<1>6. CASE Exit
  BY <1>6 DEF Exit, HeapInv, SbrkTypeOK
<1>7. CASE UNCHANGED sbrkVars
  BY <1>7 DEF sbrkVars, stack
<1> QED
  BY <1>1, <1>2, <1>3, <1>4, <1>5, <1>6, <1>7 DEF SbrkNext

LEMMA CheckedStep ==
  ASSUME STACK_CHECK, WordIncrs, HeapInv, LimitInv, CheckedInv, [SbrkNext]_sbrkVars
  PROVE  CheckedInv'
<1> USE SbrkAssumption
<1> USE DEF CheckedInv, ProgramLimit, Running
<1>1. CASE sbrk
  <2>1. Aligned(heap_end) = heap_end
    BY AlignedUp DEF HeapInv, SbrkTypeOK
  <2> QED
    BY <1>1, <2>1 DEF sbrk, stack
<1>2. ASSUME NEW incr \in Incrs, Refused(incr) PROVE CheckedInv'
  BY <1>2 DEF Refused, stack
<1>3. ASSUME NEW incr \in Incrs, Extended(incr) PROVE CheckedInv'
  <2>1. /\ prev[active] = heap_end /\ heap_end \in Nat /\ incr \in Nat
        /\ heap_end' = heap_end + incr /\ heap_end' <= HeapLimit
    BY <1>3 DEF Extended, OneCall, HeapInv, SbrkTypeOK
  <2>2. et \in Nat /\ old_limit \in Nat /\ sp \in Nat /\ heap_end > 0
    BY DEF HeapInv, SbrkTypeOK, LimitInv
  <2>3. /\ et' = IF OnHeap THEN heap_end' ELSE et
        /\ old_limit' = IF OldOnHeap THEN heap_end' ELSE old_limit
        /\ overflow' = IF OnHeap /\ sp <= heap_end' THEN "sbrk"
                       ELSE IF OldOnHeap /\ old_limit <= heap_end' THEN "sbrk in an exception"
                       ELSE "no"
        /\ UNCHANGED <<sp, active>> /\ Running
    BY <1>3, <2>1 DEF Extended
  <2>4. heap_end' % 4 = 0
    <3>1. incr % 4 = 0 /\ heap_end % 4 = 0
      BY DEF WordIncrs
    <3> QED
      BY <2>1, <3>1
  <2>5. OnHeap <=> et = heap_end
    BY <2>1 DEF OnHeap
  <2>6. OldOnHeap <=> EXCEPTION_STACK /\ old_limit = heap_end
    BY <2>1 DEF OldOnHeap
  <2>7. ASSUME active = "irq", EXCEPTION_STACK PROVE CheckedInv'
    <3>1. et = HeapLimit + 1 /\ old_limit = heap_end
      BY <2>3, <2>7 DEF ExceptionLimit
    <3>2. et # heap_end /\ old_limit <= heap_end'
      BY <2>1, <2>2, <3>1
    <3>3. ~OnHeap /\ OldOnHeap
      BY <2>5, <2>6, <2>7, <3>1, <3>2
    <3>4. overflow' # "no" /\ et' = et
      BY <2>3, <3>2, <3>3
    <3> QED
      BY <2>1, <2>3, <2>4, <2>7, <3>1, <3>4 DEF ExceptionLimit
  <2>8. ASSUME ~(active = "irq" /\ EXCEPTION_STACK) PROVE CheckedInv'
    <3>1. et = heap_end
      BY <2>3, <2>8
    <3>2. ~EXCEPTION_STACK => old_limit = 0
      BY DEF LimitInv
    <3>3. EXCEPTION_STACK => active = "main"
      BY <2>8 DEF HeapInv, SbrkTypeOK
    <3>4. old_limit = 0
      BY <3>2, <3>3
    <3>5. OnHeap /\ ~OldOnHeap
      BY <2>2, <2>5, <2>6, <3>1, <3>4
    <3>6. /\ et' = heap_end' /\ old_limit' = 0
          /\ overflow' = IF sp <= heap_end' THEN "sbrk" ELSE "no"
      BY <2>3, <3>4, <3>5
    <3>7. overflow' = "no" => heap_end' <= sp
      BY <2>1, <2>2, <3>6
    <3> QED
      BY <2>1, <2>3, <2>4, <2>8, <3>6, <3>7
  <2> QED
    BY <2>7, <2>8
<1>4. ASSUME NEW n \in Frames, Push(n) \/ Pop(n) PROVE CheckedInv'
  BY <1>4 DEF Push, Pop, HeapInv, SbrkTypeOK
<1>5. ASSUME NEW n \in Frames, Entry(n) PROVE CheckedInv'
  BY <1>5 DEF Entry, HeapInv, SbrkTypeOK
<1>6. CASE Exit
  BY <1>6 DEF Exit, HeapInv, SbrkTypeOK, LimitInv
<1>7. CASE UNCHANGED sbrkVars
  BY <1>7 DEF sbrkVars, stack
<1> QED
  BY <1>1, <1>2, <1>3, <1>4, <1>5, <1>6, <1>7 DEF SbrkNext

\* For every heap, with stack checks on, blocks of whole words and no stack for the
\* exceptions: blocks are apart from each other and from the stack, and the program is
\* stopped only when they have met.
THEOREM StackKeptApart ==
  STACK_CHECK /\ WordIncrs /\ ~EXCEPTION_STACK => (SbrkSpec => []StackApart)
<1> SUFFICES ASSUME STACK_CHECK, WordIncrs, ~EXCEPTION_STACK PROVE SbrkSpec => []StackApart
  OBVIOUS
<1>1. SbrkInit => LimitInv /\ CheckedInv
  BY SbrkAssumption
  DEF SbrkInit, LimitInv, CheckedInv, ProgramLimit, OverflowIsReal, Running
<1>2. HeapInv /\ LimitInv /\ [SbrkNext]_sbrkVars => LimitInv'
  BY LimitStep
<1>3. HeapInv /\ LimitInv /\ CheckedInv /\ [SbrkNext]_sbrkVars => CheckedInv'
  BY CheckedStep
<1>4. ASSUME HeapInv, LimitInv, CheckedInv PROVE StackApart
  <2>1. StackFree
    BY <1>4 DEF HeapInv, SbrkTypeOK, Blocks, CheckedInv, StackFree
  <2> QED
    BY <1>4, <2>1 DEF HeapInv, Blocks, LimitInv, StackApart
<1> QED
  BY <1>1, <1>2, <1>3, <1>4, HeapHolds, PTL DEF SbrkSpec

-----------------------------------------------------------------------------
(* The time of day.                                                        *)

\* The words hold the seconds and the microseconds that the routines compute, and a
\* tick is a whole number of microseconds.  The product that settimeofday takes in a
\* word fits as long as the clock has not run for more than M microseconds.
TimesFit ==
    /\ Rate * MicrosPerTick = ALT_US /\ MicrosPerTick \in Nat
    /\ M >= 4 * ALT_US
    /\ LastTick * MicrosPerTick < M
    /\ LastTick \div Rate < M \div 2
    /\ \A s \in Times : s + LastTick \div Rate < M \div 2

\* The seconds and the microseconds that the ticks make.
SecondsRun == nticks \div Rate
MicrosRun == (nticks * MicrosPerTick) % ALT_US

\* What a clock shows that was set to zero at reset is what has gone by; setting it
\* moves it by as much as it takes.
TimeInv ==
    /\ nticks \in 0 .. LastTick /\ tick_rate \in {0, Rate}
    /\ tick_rate = 0 => nticks = 0
    /\ alt_resettime.sec \in Int /\ alt_resettime.usec \in -(ALT_US - 1) .. ALT_US - 1
    /\ -(LastTick \div Rate) <= alt_resettime.sec
    /\ alt_resettime.sec + LastTick \div Rate < M \div 2
    /\ wall \in Nat
    /\ alt_resettime.sec * ALT_US + alt_resettime.usec + nticks * MicrosPerTick = wall

\* Division is unique.
LEMMA DivisionIs ==
  ASSUME NEW d \in Nat, d > 0, NEW x \in Int, NEW q \in Int, NEW y \in 0 .. d - 1, x = q * d + y
  PROVE  x % d = y /\ x \div d = q
<1> DEFINE p == x \div d
           z == x % d
<1>1. p \in Int /\ z \in 0 .. d - 1 /\ x = d * p + z
  OBVIOUS
<1> HIDE DEF p, z
<1>2. (q - p) * d = z - y
  BY <1>1
<1>3. q = p
  <2>1. CASE q - p >= 1
    <3>1. (q - p) * d >= d
      BY <1>1, <2>1
    <3> QED
      BY <1>1, <1>2, <3>1
  <2>2. CASE q - p <= -1
    <3>1. (q - p) * d <= -d
      BY <1>1, <2>2
    <3> QED
      BY <1>1, <1>2, <3>1
  <2> QED
    BY <1>1, <2>1, <2>2
<1>4. y = z
  BY <1>1, <1>3
<1> QED
  BY <1>3, <1>4 DEF p, z

\* A word is read as the number it was computed from.
LEMMA SignedIs ==
  ASSUME NEW m \in Nat, m = M, m > 1, NEW x \in Int, -(m \div 2) <= x, x < m \div 2
  PROVE  Signed(x) = x
<1> DEFINE h == m \div 2
<1>1. h \in Nat /\ 2 * h <= m /\ h <= m /\ h < m
  OBVIOUS
<1> HIDE DEF h
<1>0. -h <= x /\ x < h
  BY DEF h
<1>2. CASE x >= 0
  <2>1. x = 0 * m + x /\ x \in 0 .. m - 1 /\ 0 \in Int
    BY <1>0, <1>1, <1>2
  <2>2. x % m = x
    BY <2>1, DivisionIs
  <2>3. ~(x >= h)
    BY <1>0, <1>1
  <2> QED
    BY <2>2, <2>3 DEF Signed, h
<1>3. CASE x < 0
  <2>1. x = (-1) * m + (x + m) /\ x + m \in 0 .. m - 1 /\ -1 \in Int
    BY <1>0, <1>1, <1>3
  <2>2. x % m = x + m
    BY <2>1, DivisionIs
  <2>3. x + m >= h /\ (x + m) - m = x
    BY <1>0, <1>1
  <2> QED
    BY <2>2, <2>3 DEF Signed, h
<1> QED
  BY <1>2, <1>3

\* The constants as numbers.
LEMMA TimeNumbers ==
  ASSUME TimeAssumption, TimesFit
  PROVE  /\ ALT_US \in Nat /\ ALT_US >= 1 /\ Rate \in Nat /\ Rate >= 1
         /\ MicrosPerTick \in Nat /\ MicrosPerTick >= 1 /\ Rate * MicrosPerTick = ALT_US
         /\ M \in Nat /\ M >= 4 * ALT_US /\ M > 1 /\ LastTick \in Nat
         /\ LastTick \div Rate \in Nat /\ M \div 2 \in Nat /\ M \div 2 >= 2 * ALT_US
<1>1. ALT_US \in Nat /\ ALT_US >= 1 /\ Rate \in Nat /\ Rate >= 1 /\ M \in Nat /\ LastTick \in Nat
  BY DEF TimeAssumption
<1>2. MicrosPerTick \in Nat /\ Rate * MicrosPerTick = ALT_US /\ M >= 4 * ALT_US
  BY DEF TimesFit
<1>3. MicrosPerTick # 0
  <2>1. Rate * 0 = 0
    BY <1>1
  <2> QED
    BY <1>1, <1>2, <2>1
<1>4. MicrosPerTick >= 1
  BY <1>2, <1>3
<1>5. LastTick \div Rate \in Nat
  BY <1>1
<1>6. M \div 2 \in Nat /\ M \div 2 >= 2 * ALT_US /\ M > 1
  <2> DEFINE a == ALT_US
  <2>1. \A k \in Nat : M >= 4 * k => M \div 2 >= 2 * k
    BY <1>1
  <2> QED
    BY <1>1, <1>2, <2>1
<1> QED
  BY <1>1, <1>2, <1>4, <1>5, <1>6

\* The ticks are so many seconds, and so many microseconds below a second.
LEMMA TicksMake ==
  ASSUME TimeAssumption, TimesFit, nticks \in 0 .. LastTick
  PROVE  /\ SecondsRun \in 0 .. LastTick \div Rate /\ MicrosRun \in 0 .. ALT_US - 1
         /\ SecondsRun * ALT_US + MicrosRun = nticks * MicrosPerTick
         /\ ((nticks * MicrosPerTick) % M) % ALT_US = MicrosRun
<1> DEFINE n == nticks
           q == nticks \div Rate
           r == nticks % Rate
           m == MicrosPerTick
           top == LastTick \div Rate
           left == LastTick % Rate
<1>1. /\ ALT_US \in Nat /\ ALT_US >= 1 /\ Rate \in Nat /\ Rate >= 1 /\ m \in Nat /\ m >= 1
      /\ Rate * m = ALT_US /\ M \in Nat /\ M > 1 /\ LastTick \in Nat /\ top \in Nat
  BY TimeNumbers
<1>2. n \in Nat /\ n <= LastTick
  BY <1>1
<1>3. q \in Int /\ r \in 0 .. Rate - 1 /\ n = Rate * q + r
  BY <1>1, <1>2
<1>4. LastTick = Rate * top + left /\ left \in 0 .. Rate - 1
  BY <1>1
<1>5. LastTick * m < M
  BY DEF TimesFit
<1> HIDE DEF n, q, r, m, top, left
<1>6. q >= 0
  <2>1. CASE q <= -1
    <3>1. Rate * q <= -Rate
      BY <1>1, <1>3, <2>1
    <3> QED
      BY <1>1, <1>2, <1>3, <3>1
  <2> QED
    BY <1>3, <2>1
<1>7. q <= top
  <2>1. CASE q >= top + 1
    <3>1. Rate * q >= Rate * top + Rate
      <4>1. Rate * (top + 1) = Rate * top + Rate
        BY <1>1
      <4>2. Rate * q >= Rate * (top + 1)
        BY <1>1, <1>3, <2>1
      <4> QED
        BY <1>1, <1>3, <4>1, <4>2
    <3> QED
      BY <1>1, <1>2, <1>3, <1>4, <3>1
  <2> QED
    BY <1>1, <1>3, <2>1
<1>8. r * m \in 0 .. ALT_US - 1
  <2>1. r * m <= (Rate - 1) * m
    BY <1>1, <1>3
  <2>2. (Rate - 1) * m = ALT_US - m
    BY <1>1
  <2>3. r * m \in Nat
    BY <1>1, <1>3
  <2> QED
    BY <1>1, <2>1, <2>2, <2>3
<1>9. n * m = q * ALT_US + r * m
  <2>1. (Rate * q + r) * m = q * (Rate * m) + r * m
    BY <1>1, <1>3
  <2> QED
    BY <1>1, <1>3, <2>1
<1>10. n * m \in Nat /\ n * m < M
  <2>1. n * m <= LastTick * m
    BY <1>1, <1>2
  <2>2. n * m \in Nat /\ LastTick * m \in Nat
    BY <1>1, <1>2
  <2> QED
    BY <1>1, <1>5, <2>1, <2>2
<1>11. (n * m) % ALT_US = r * m
  BY <1>1, <1>3, <1>8, <1>9, <1>10, DivisionIs
<1>12. (n * m) % M = n * m
  <2>1. n * m = 0 * M + n * m /\ n * m \in 0 .. M - 1
    BY <1>1, <1>10
  <2> QED
    BY <1>1, <1>10, <2>1, DivisionIs
<1>13. SecondsRun = q /\ MicrosRun = (n * m) % ALT_US
  BY DEF SecondsRun, MicrosRun, n, q, m
<1> QED
  BY <1>1, <1>3, <1>6, <1>7, <1>8, <1>9, <1>11, <1>12, <1>13 DEF n, q, m, top

\* Whatever the time at reset, the clock shows it and the ticks, in two proper fields.
LEMMA ShowsTime ==
  ASSUME TimeAssumption, TimesFit, TimeInv, tick_rate = Rate
  PROVE  /\ alt_gettimeofday.sec * ALT_US + alt_gettimeofday.usec = wall
         /\ alt_gettimeofday.usec \in 0 .. ALT_US - 1
<1> DEFINE sec == alt_resettime.sec + SecondsRun
           usec == alt_resettime.usec + MicrosRun
<1>1. /\ ALT_US \in Nat /\ ALT_US >= 1 /\ M \in Nat /\ M > 1
      /\ LastTick \div Rate \in Nat /\ M \div 2 \in Nat /\ M \div 2 >= 2 * ALT_US
  BY TimeNumbers
<1>2. /\ SecondsRun \in 0 .. LastTick \div Rate /\ MicrosRun \in 0 .. ALT_US - 1
      /\ SecondsRun * ALT_US + MicrosRun = nticks * MicrosPerTick
  BY TicksMake DEF TimeInv
<1>3. /\ alt_resettime.sec \in Int /\ alt_resettime.usec \in -(ALT_US - 1) .. ALT_US - 1
      /\ -(LastTick \div Rate) <= alt_resettime.sec
      /\ alt_resettime.sec + LastTick \div Rate < M \div 2
      /\ LastTick \div Rate < M \div 2
      /\ wall \in Nat
      /\ alt_resettime.sec * ALT_US + alt_resettime.usec + nticks * MicrosPerTick = wall
  BY DEF TimeInv, TimesFit
<1>4. /\ sec \in Int /\ usec \in -(ALT_US - 1) .. 2 * ALT_US - 2
      /\ -(M \div 2) <= sec /\ sec < M \div 2
      /\ -(M \div 2) <= usec /\ usec < M \div 2
  BY <1>1, <1>2, <1>3
<1>5. sec * ALT_US + usec = wall
  <2>1. (alt_resettime.sec + SecondsRun) * ALT_US
          = alt_resettime.sec * ALT_US + SecondsRun * ALT_US
    BY <1>1, <1>2, <1>3
  <2>2. alt_resettime.sec * ALT_US \in Int /\ SecondsRun * ALT_US \in Int
    BY <1>1, <1>2, <1>3
  <2> QED
    BY <1>2, <1>3, <2>1, <2>2
<1>6. alt_gettimeofday = Carried(Borrowed([sec |-> Signed(sec), usec |-> Signed(usec)]))
  BY DEF alt_gettimeofday, SecondsRun, MicrosRun
<1> HIDE DEF sec, usec
<1>7. alt_gettimeofday = Carried(Borrowed([sec |-> sec, usec |-> usec]))
  BY <1>1, <1>4, <1>6, SignedIs
<1>8. CASE usec < 0
  <2>1. sec > 0
    <3>1. CASE sec <= 0
      <4>1. sec * ALT_US <= 0
        BY <1>1, <1>4, <3>1
      <4>2. sec * ALT_US \in Int
        BY <1>1, <1>4
      <4> QED
        BY <1>3, <1>4, <1>5, <1>8, <4>1, <4>2
    <3> QED
      BY <1>4, <3>1
  <2>2. alt_gettimeofday = [sec |-> sec - 1, usec |-> usec + ALT_US]
    BY <1>1, <1>4, <1>7, <1>8, <2>1 DEF Borrowed, Carried
  <2>3. (sec - 1) * ALT_US = sec * ALT_US - ALT_US /\ sec * ALT_US \in Int
    BY <1>1, <1>4
  <2> QED
    BY <1>1, <1>4, <1>5, <1>8, <2>2, <2>3
<1>9. CASE usec >= ALT_US
  <2>1. alt_gettimeofday = [sec |-> sec + 1, usec |-> usec - ALT_US]
    BY <1>1, <1>4, <1>7, <1>9 DEF Borrowed, Carried
  <2>2. (sec + 1) * ALT_US = sec * ALT_US + ALT_US /\ sec * ALT_US \in Int
    BY <1>1, <1>4
  <2> QED
    BY <1>1, <1>4, <1>5, <1>9, <2>1, <2>2
<1>10. CASE usec \in 0 .. ALT_US - 1
  <2>1. alt_gettimeofday = [sec |-> sec, usec |-> usec]
    BY <1>1, <1>4, <1>7, <1>10 DEF Borrowed, Carried
  <2> QED
    BY <1>5, <1>10, <2>1
<1> QED
  BY <1>1, <1>4, <1>8, <1>9, <1>10

\* The clock goes as fast as the ticks, and is set to the microsecond.
LEMMA TimeHolds ==
  ASSUME TimeAssumption, TimesFit, TimeInv, [TimeNext]_timeVars
  PROVE  TimeInv'
<1>1. /\ ALT_US \in Nat /\ ALT_US >= 1 /\ Rate \in Nat /\ Rate >= 1
      /\ MicrosPerTick \in Nat /\ M \in Nat /\ M > 1 /\ LastTick \in Nat
      /\ LastTick \div Rate \in Nat /\ M \div 2 \in Nat /\ M \div 2 >= 2 * ALT_US
      /\ MicrosPerTick' = MicrosPerTick
  BY TimeNumbers DEF MicrosPerTick
<1>2. /\ nticks \in 0 .. LastTick /\ tick_rate \in {0, Rate}
      /\ alt_resettime.sec \in Int /\ alt_resettime.usec \in -(ALT_US - 1) .. ALT_US - 1
      /\ wall \in Nat
      /\ alt_resettime.sec * ALT_US + alt_resettime.usec + nticks * MicrosPerTick = wall
  BY DEF TimeInv
<1>3. CASE alt_tick
  <2>1. /\ tick_rate # 0 /\ nticks < LastTick /\ nticks' = nticks + 1
        /\ wall' = wall + MicrosPerTick
        /\ tick_rate' = tick_rate /\ alt_resettime' = alt_resettime
    BY <1>3 DEF alt_tick
  <2>2. /\ (nticks + 1) * MicrosPerTick = nticks * MicrosPerTick + MicrosPerTick
        /\ nticks * MicrosPerTick \in Int /\ alt_resettime.sec * ALT_US \in Int
    BY <1>1, <1>2
  <2>3. (alt_resettime.sec * ALT_US + alt_resettime.usec + nticks * MicrosPerTick = wall)'
    <3> DEFINE p == alt_resettime.sec * ALT_US
               q == nticks * MicrosPerTick
               r == (nticks + 1) * MicrosPerTick
               u == alt_resettime.usec
    <3>1. /\ p \in Int /\ q \in Int /\ r = q + MicrosPerTick /\ u \in Int
          /\ p + u + q = wall /\ wall \in Int
      BY <1>1, <1>2, <2>2
    <3>2. p + u + r = wall + MicrosPerTick
      <4> HIDE DEF p, q, r, u
      <4> QED
        BY <1>1, <1>2, <3>1
    <3> QED
      BY <1>1, <2>1, <3>2
  <2>4. nticks' \in 0 .. LastTick /\ wall' \in Nat
    BY <1>1, <1>2, <2>1
  <2> QED
    BY <1>1, <2>1, <2>3, <2>4, <1>2 DEF TimeInv
<1>4. CASE alt_sysclk_init
  BY <1>1, <1>4 DEF alt_sysclk_init, TimeInv
<1>5. ASSUME NEW s \in Times, NEW u \in 0 .. ALT_US - 1, alt_settimeofday(s, u)
      PROVE  TimeInv'
  <2> DEFINE sec == s - SecondsRun
             usec == u - MicrosRun
  <2>1. /\ tick_rate = Rate /\ nticks' = nticks /\ tick_rate' = tick_rate
        /\ wall' = s * ALT_US + u
        /\ alt_resettime' = [sec  |-> Signed(s - nticks \div tick_rate),
                             usec |-> Signed(u - (((nticks * MicrosPerTick) % M) % ALT_US))]
    BY <1>2, <1>5 DEF alt_settimeofday
  <2>2. /\ SecondsRun \in 0 .. LastTick \div Rate /\ MicrosRun \in 0 .. ALT_US - 1
        /\ SecondsRun * ALT_US + MicrosRun = nticks * MicrosPerTick
        /\ ((nticks * MicrosPerTick) % M) % ALT_US = MicrosRun
    BY <1>2, TicksMake
  <2>3. s \in Nat /\ s + LastTick \div Rate < M \div 2 /\ LastTick \div Rate < M \div 2
    BY DEF TimeAssumption, TimesFit
  <2>4. /\ sec \in Int /\ -(LastTick \div Rate) <= sec /\ sec + LastTick \div Rate < M \div 2
        /\ -(M \div 2) <= sec /\ sec < M \div 2
        /\ usec \in -(ALT_US - 1) .. ALT_US - 1 /\ -(M \div 2) <= usec /\ usec < M \div 2
    BY <1>1, <2>2, <2>3
  <2>5. alt_resettime' = [sec |-> Signed(sec), usec |-> Signed(usec)]
    BY <2>1, <2>2 DEF SecondsRun
  <2>6. sec * ALT_US + usec + nticks * MicrosPerTick = s * ALT_US + u
    <3>1. (s - SecondsRun) * ALT_US = s * ALT_US - SecondsRun * ALT_US
      BY <1>1, <2>2, <2>3
    <3>2. s * ALT_US \in Int /\ SecondsRun * ALT_US \in Int
      BY <1>1, <2>2, <2>3
    <3> QED
      BY <2>2, <3>1, <3>2
  <2>7. wall' \in Nat
    <3>1. s * ALT_US \in Nat
      BY <1>1, <2>3
    <3> QED
      BY <2>1, <3>1
  <2> HIDE DEF sec, usec
  <2>8. alt_resettime'.sec = sec /\ alt_resettime'.usec = usec
    BY <1>1, <2>4, <2>5, SignedIs
  <2> QED
    BY <1>1, <1>2, <2>1, <2>4, <2>6, <2>7, <2>8 DEF TimeInv
<1>6. CASE UNCHANGED timeVars
  BY <1>1, <1>6 DEF timeVars, TimeInv
<1> QED
  BY <1>3, <1>4, <1>5, <1>6 DEF TimeNext

\* The clock is at zero at reset.
LEMMA TimeStart == ASSUME TimeAssumption, TimesFit, TimeInit PROVE TimeInv
<1>1. /\ ALT_US \in Nat /\ ALT_US >= 1 /\ MicrosPerTick \in Nat /\ LastTick \in Nat
      /\ LastTick \div Rate \in Nat /\ LastTick \div Rate < M \div 2 /\ M \div 2 \in Nat
  BY TimeNumbers DEF TimesFit
<1>2. /\ nticks = 0 /\ tick_rate = 0 /\ wall = 0
      /\ alt_resettime.sec = 0 /\ alt_resettime.usec = 0
  BY DEF TimeInit
<1>3. 0 * ALT_US = 0 /\ 0 * MicrosPerTick = 0
  BY <1>1
<1> QED
  BY <1>1, <1>2, <1>3 DEF TimeInv

\* gettimeofday shows the time that the clock was last set to and what has gone by since, to
\* the microsecond and in two proper fields, whatever the rate of the ticks and whenever the
\* clock is set.
THEOREM ClockIsRight ==
  ASSUME TimeAssumption, TimesFit
  PROVE  TimeSpec => []ClockRight
<1>1. TimeInv => ClockRight
  BY ShowsTime DEF ClockRight, TimeInv
<1> QED
  BY <1>1, TimeStart, TimeHolds, PTL DEF TimeSpec

\* What settimeofday sets is what gettimeofday returns right after it, as long as the clock
\* has run for less than M microseconds.
THEOREM SetIsGot ==
  ASSUME TimeAssumption, TimesFit
  PROVE  TimeSpec => SetThenGet
<1> DEFINE going == tick_rate = Rate
           right == alt_gettimeofday.sec * ALT_US + alt_gettimeofday.usec = wall
<1>1. TimeInv /\ going => right
  BY ShowsTime
<1>2. TimeInv /\ [TimeNext]_timeVars /\ alt_resettime' # alt_resettime => going'
  BY DEF TimeNext, alt_tick, alt_sysclk_init, alt_settimeofday, timeVars, TimeInv
<1> HIDE DEF going, right
<1>3. TimeSpec => [][alt_resettime' # alt_resettime => right']_timeVars
  BY <1>1, <1>2, TimeStart, TimeHolds, PTL DEF TimeSpec
<1> QED
  BY <1>3 DEF SetThenGet, right

-----------------------------------------------------------------------------
(* The caches.                                                             *)

DPlaces == DCACHE_SIZE \div LINE_SIZE
IPlaces == ICACHE_SIZE \div LINE_SIZE

\* The flushes of a region, and those that go to the end of one.
Regional == {"dflush", "discard", "malloc"}
Routines ==
    {NoFlush} \cup
    [op : Regional \cup {"dall", "iflush"}, start : Nat, end : Nat, i : Nat, region : SUBSET Line]

CachesTypeOK ==
    /\ dcache \in [0 .. DPlaces - 1 -> Line \cup {None}]
    /\ icache \in [0 .. IPlaces - 1 -> Line \cup {None}]
    /\ owner \in [Byte -> {"free", "cached", "uncached"}]
    /\ call \in Routines

\* Before the end of the loop there is a byte of every line that the caller means.
Reaches ==
    \A l \in call.region : LineOf(call.start) <= l /\ l * LINE_SIZE < call.end

\* The loop takes steps of a line.
Bounded ==
    /\ call.i >= call.start /\ call.i % LINE_SIZE = call.start % LINE_SIZE
    /\ call.op \in Regional => Reaches
    /\ call.op = "malloc" => call.start % LINE_SIZE = 0
    /\ call.op = "iflush" => Reaches \/ call.end = call.start + ICACHE_SIZE
    /\ call.op = "dall" => call.start = 0 /\ call.end = DCACHE_SIZE

\* Of the lines that the loop has passed, none that the caller means is in the cache; of
\* the instruction cache, none that has the place of a line passed.
Passed ==
    /\ call.op \in Regional =>
         \A l \in call.region : l < LineOf(call.i) => dcache[DPlace(l)] # l
    /\ call.op = "dall" =>
         \A l \in call.region : DPlace(l) < LineOf(call.i) => dcache[DPlace(l)] # l
    /\ call.op = "iflush" =>
         \A l \in call.region, j \in LineOf(call.start) .. LineOf(call.i) - 1 :
            IPlace(j) = IPlace(l) => icache[IPlace(l)] # l

\* Uncached are whole lines, for blocks are aligned, and none of them is in the cache but
\* those that alt_uncached_malloc is about to flush.
WholeLines ==
    \A b, c \in Byte : LineOf(b) = LineOf(c) /\ owner[b] = "uncached" => owner[c] = "uncached"

LinesOut ==
    \A b \in Byte :
        owner[b] = "uncached" /\ ~(call.op = "malloc" /\ LineOf(b) \in call.region) =>
            dcache[DPlace(LineOf(b))] # LineOf(b)

CachesInv == CachesTypeOK /\ Bounded /\ Passed /\ WholeLines /\ LinesOut

\* The sizes as numbers.
LEMMA CacheNumbers ==
  ASSUME CachesAssumption
  PROVE  /\ LINE_SIZE \in Nat /\ LINE_SIZE >= 1 /\ Lines \in Nat
         /\ DPlaces \in Nat /\ DPlaces >= 1 /\ DCACHE_SIZE \in Nat
         /\ IPlaces \in Nat /\ IPlaces >= 1 /\ ICACHE_SIZE \in Nat
         /\ DPlaces * LINE_SIZE = DCACHE_SIZE /\ IPlaces * LINE_SIZE = ICACHE_SIZE
         /\ \A l \in Line : l \in Nat /\ l # None
<1>1. /\ LINE_SIZE \in Nat /\ LINE_SIZE >= 1 /\ Lines \in Nat
      /\ DCACHE_SIZE \in Nat /\ ICACHE_SIZE \in Nat
      /\ DPlaces > 0 /\ IPlaces > 0
      /\ DCACHE_SIZE % LINE_SIZE = 0 /\ ICACHE_SIZE % LINE_SIZE = 0
  BY DEF CachesAssumption, DPlaces, IPlaces
<1>2. ASSUME NEW s \in Nat, s % LINE_SIZE = 0
      PROVE  s \div LINE_SIZE \in Nat /\ (s \div LINE_SIZE) * LINE_SIZE = s
  BY <1>1, <1>2
<1>3. /\ DPlaces \in Nat /\ DPlaces * LINE_SIZE = DCACHE_SIZE
      /\ IPlaces \in Nat /\ IPlaces * LINE_SIZE = ICACHE_SIZE
  BY <1>1, <1>2 DEF DPlaces, IPlaces
<1>4. \A l \in Line : l \in Nat /\ l # None
  BY <1>1 DEF Line, CachesAssumption
<1> QED
  BY <1>1, <1>3, <1>4

\* The bytes of a line.
LEMMA LineIs ==
  ASSUME CachesAssumption, NEW b \in Nat
  PROVE  /\ LineOf(b) \in Nat /\ LineOf(b) * LINE_SIZE <= b /\ b < LineOf(b) * LINE_SIZE + LINE_SIZE
         /\ b % LINE_SIZE \in 0 .. LINE_SIZE - 1 /\ b = LineOf(b) * LINE_SIZE + (b % LINE_SIZE)
         /\ LineOf(b) * LINE_SIZE \in Nat
<1>1. LINE_SIZE \in Nat /\ LINE_SIZE >= 1
  BY CacheNumbers
<1> DEFINE q == b \div LINE_SIZE
           r == b % LINE_SIZE
<1>2. q \in Int /\ r \in 0 .. LINE_SIZE - 1 /\ b = LINE_SIZE * q + r
  BY <1>1
<1> HIDE DEF q, r
<1>3. q >= 0
  <2>1. CASE q <= -1
    <3>1. LINE_SIZE * q <= -LINE_SIZE
      BY <1>1, <1>2, <2>1
    <3> QED
      BY <1>1, <1>2, <3>1
  <2> QED
    BY <1>2, <2>1
<1>4. LINE_SIZE * q = q * LINE_SIZE /\ q * LINE_SIZE \in Nat
  BY <1>1, <1>2, <1>3
<1> DEFINE p == q * LINE_SIZE
<1>5. p \in Nat /\ b = p + r
  BY <1>2, <1>4
<1> HIDE DEF p
<1>6. p <= b /\ b < p + LINE_SIZE
  BY <1>1, <1>2, <1>5
<1>7. LineOf(b) = q /\ b % LINE_SIZE = r /\ q \in Nat
  BY <1>2, <1>3 DEF LineOf, q, r
<1> QED
  BY <1>2, <1>5, <1>6, <1>7 DEF p

\* A line is known by any of its bytes.
LEMMA LineOfAt ==
  ASSUME CachesAssumption, NEW b \in Nat, NEW l \in Nat, l * LINE_SIZE <= b,
         b < l * LINE_SIZE + LINE_SIZE
  PROVE  LineOf(b) = l /\ b % LINE_SIZE = b - l * LINE_SIZE
<1>1. LINE_SIZE \in Nat /\ LINE_SIZE >= 1 /\ l * LINE_SIZE \in Nat
  BY CacheNumbers
<1> DEFINE y == b - l * LINE_SIZE
<1>2. y \in 0 .. LINE_SIZE - 1 /\ b = l * LINE_SIZE + y
  BY <1>1
<1> QED
  BY <1>1, <1>2, DivisionIs DEF LineOf

\* A line lies below the line of a byte if all of its bytes lie below it.
LEMMA LineBelow ==
  ASSUME CachesAssumption, NEW b \in Nat, NEW l \in Nat
  PROVE  l < LineOf(b) <=> l * LINE_SIZE + LINE_SIZE <= b
<1> DEFINE m == LineOf(b)
<1>0. LINE_SIZE \in Nat /\ LINE_SIZE >= 1 /\ m \in Nat /\ m * LINE_SIZE <= b
      /\ b < m * LINE_SIZE + LINE_SIZE /\ m * LINE_SIZE \in Nat
  BY CacheNumbers, LineIs
<1> HIDE DEF m
<1>a. l * LINE_SIZE \in Nat
  BY <1>0
<1>1. /\ LINE_SIZE \in Nat /\ LINE_SIZE >= 1 /\ m \in Nat /\ m * LINE_SIZE <= b
      /\ b < m * LINE_SIZE + LINE_SIZE /\ m * LINE_SIZE \in Nat /\ l * LINE_SIZE \in Nat
  BY <1>0, <1>a
<1>2. CASE l < m
  <2>1. (l + 1) * LINE_SIZE <= m * LINE_SIZE
    BY <1>1, <1>2
  <2>2. (l + 1) * LINE_SIZE = l * LINE_SIZE + LINE_SIZE
    BY <1>1
  <2> QED
    BY <1>1, <1>2, <2>1, <2>2 DEF m
<1>3. CASE l >= m
  <2>1. m * LINE_SIZE <= l * LINE_SIZE
    BY <1>1, <1>3
  <2> QED
    BY <1>1, <1>3, <2>1 DEF m
<1> QED
  BY <1>1, <1>2, <1>3

\* A later byte is on a later line, or on the same.
LEMMA LinesInOrder ==
  ASSUME CachesAssumption, NEW b \in Nat, NEW c \in Nat, b <= c
  PROVE  LineOf(b) <= LineOf(c)
<1> DEFINE k == LineOf(b)
           m == LineOf(c)
<1>1. k \in Nat /\ m \in Nat /\ LINE_SIZE \in Nat /\ LINE_SIZE >= 1
  BY LineIs, CacheNumbers
<1>2. CASE m < k
  <2>1. m * LINE_SIZE + LINE_SIZE <= b
    BY <1>1, <1>2, LineBelow
  <2>2. c < m * LINE_SIZE + LINE_SIZE /\ m * LINE_SIZE \in Nat
    BY LineIs
  <2> QED
    BY <1>1, <2>1, <2>2
<1> QED
  BY <1>1, <1>2

\* The loop goes from line to line.
LEMMA NextLine ==
  ASSUME CachesAssumption, NEW b \in Nat
  PROVE  LineOf(b + LINE_SIZE) = LineOf(b) + 1 /\ (b + LINE_SIZE) % LINE_SIZE = b % LINE_SIZE
<1> DEFINE m == LineOf(b)
           r == b % LINE_SIZE
<1>1. /\ LINE_SIZE \in Nat /\ LINE_SIZE >= 1 /\ m \in Nat /\ m * LINE_SIZE \in Nat
      /\ r \in 0 .. LINE_SIZE - 1 /\ b = m * LINE_SIZE + r
  BY CacheNumbers, LineIs
<1> HIDE DEF m, r
<1>2. (m + 1) * LINE_SIZE = m * LINE_SIZE + LINE_SIZE
  BY <1>1
<1>3. /\ (m + 1) * LINE_SIZE <= b + LINE_SIZE /\ b + LINE_SIZE < (m + 1) * LINE_SIZE + LINE_SIZE
      /\ b + LINE_SIZE \in Nat /\ m + 1 \in Nat
      /\ (b + LINE_SIZE) - (m + 1) * LINE_SIZE = r
  BY <1>1, <1>2
<1>4. LineOf(b + LINE_SIZE) = m + 1 /\ (b + LINE_SIZE) % LINE_SIZE = r
  BY <1>3, LineOfAt
<1> QED
  BY <1>4 DEF m, r

\* The bytes of memory lie on its lines.
LEMMA ByteIs ==
  ASSUME CachesAssumption, NEW b \in Byte
  PROVE  b \in Nat /\ LineOf(b) \in Line /\ LineOf(b) \in Nat
<1>1. LINE_SIZE \in Nat /\ LINE_SIZE >= 1 /\ Lines \in Nat /\ Lines * LINE_SIZE \in Nat
  BY CacheNumbers
<1>2. b \in Nat /\ b < Lines * LINE_SIZE
  BY <1>1 DEF Byte
<1> DEFINE m == LineOf(b)
<1>3. m \in Nat /\ m * LINE_SIZE <= b /\ m * LINE_SIZE \in Nat
  BY <1>2, LineIs
<1> HIDE DEF m
<1>4. m < Lines
  <2>1. CASE m >= Lines
    <3>1. m * LINE_SIZE >= Lines * LINE_SIZE
      BY <1>1, <1>3, <2>1
    <3> QED
      BY <1>1, <1>2, <1>3, <3>1
  <2> QED
    BY <1>1, <1>3, <2>1
<1> QED
  BY <1>1, <1>2, <1>3, <1>4 DEF Line, m

\* Every line has its place, and the first ones the places in order.
LEMMA PlaceIs ==
  ASSUME CachesAssumption, NEW l \in Nat
  PROVE  /\ DPlace(l) \in 0 .. DPlaces - 1 /\ IPlace(l) \in 0 .. IPlaces - 1
         /\ l < DPlaces => DPlace(l) = l
<1>1. DPlaces \in Nat /\ DPlaces >= 1 /\ IPlaces \in Nat /\ IPlaces >= 1
  BY CacheNumbers
<1>2. DPlace(l) = l % DPlaces /\ IPlace(l) = l % IPlaces
  BY DEF DPlace, IPlace, DPlaces, IPlaces
<1>3. l % DPlaces \in 0 .. DPlaces - 1 /\ l % IPlaces \in 0 .. IPlaces - 1
  BY <1>1
<1>4. ASSUME l < DPlaces PROVE l % DPlaces = l
  <2>1. l = 0 * DPlaces + l /\ l \in 0 .. DPlaces - 1 /\ DPlaces > 0
    BY <1>1, <1>4
  <2> QED
    BY <1>1, <2>1, DivisionIs
<1> QED
  BY <1>2, <1>3, <1>4

\* As many lines in a row as the instruction cache has places take every place.
LEMMA EveryPlace ==
  ASSUME CachesAssumption, NEW s \in Nat, NEW l \in Nat
  PROVE  \E j \in s .. s + IPlaces - 1 : IPlace(j) = IPlace(l)
<1> DEFINE n == IPlaces
           d == (l - s) \div n
           r == (l - s) % n
           e == l \div n
           t == l % n
<1>1. n \in Nat /\ n >= 1
  BY CacheNumbers
<1>2. /\ d \in Int /\ r \in 0 .. n - 1 /\ l - s = n * d + r
      /\ e \in Int /\ t \in 0 .. n - 1 /\ l = n * e + t
  BY <1>1
<1>3. IPlace(s + r) = (s + r) % n /\ IPlace(l) = t
  BY DEF IPlace, IPlaces
<1> HIDE DEF n, d, r, e, t
<1>4. s + r = (e - d) * n + t
  <2>1. (e - d) * n = n * e - n * d /\ n * e \in Int /\ n * d \in Int
    BY <1>1, <1>2
  <2> QED
    BY <1>1, <1>2, <2>1
<1>5. s + r \in Int /\ e - d \in Int /\ n > 0
  BY <1>1, <1>2
<1>6. (s + r) % n = t
  BY <1>1, <1>2, <1>4, <1>5, DivisionIs
<1>7. s + r \in s .. s + n - 1
  BY <1>1, <1>2
<1> QED
  BY <1>3, <1>6, <1>7 DEF n

\* What is in a place of the data cache changes; lines that are out stay out.
LEMMA StaysOut ==
  ASSUME CachesAssumption, CachesTypeOK, NEW p \in Nat, NEW x \in Line \cup {None},
         dcache' = [dcache EXCEPT ![DPlace(p)] = x]
  PROVE  /\ dcache' \in [0 .. DPlaces - 1 -> Line \cup {None}]
         /\ dcache'[DPlace(p)] = x
         /\ \A l \in Line : l # x /\ dcache[DPlace(l)] # l => dcache'[DPlace(l)] # l
<1>1. dcache \in [0 .. DPlaces - 1 -> Line \cup {None}] /\ DPlace(p) \in 0 .. DPlaces - 1
  BY PlaceIs DEF CachesTypeOK
<1>2. \A l \in Line : DPlace(l) \in 0 .. DPlaces - 1
  BY CacheNumbers, PlaceIs
<1> QED
  BY <1>1, <1>2

\* The same of the instruction cache.
LEMMA StaysOutI ==
  ASSUME CachesAssumption, CachesTypeOK, NEW p \in Nat, NEW x \in Line \cup {None},
         icache' = [icache EXCEPT ![IPlace(p)] = x]
  PROVE  /\ icache' \in [0 .. IPlaces - 1 -> Line \cup {None}]
         /\ icache'[IPlace(p)] = x
         /\ \A l \in Line : l # x /\ icache[IPlace(l)] # l => icache'[IPlace(l)] # l
<1>1. icache \in [0 .. IPlaces - 1 -> Line \cup {None}] /\ IPlace(p) \in 0 .. IPlaces - 1
  BY PlaceIs DEF CachesTypeOK
<1>2. \A l \in Line : IPlace(l) \in 0 .. IPlaces - 1
  BY CacheNumbers, PlaceIs
<1> QED
  BY <1>1, <1>2

\* A call of a routine, with its fields.
LEMMA CallIs ==
  ASSUME CachesTypeOK, CachesAssumption
  PROVE  /\ call.start \in Nat /\ call.end \in Nat /\ call.i \in Nat /\ call.region \subseteq Line
         /\ call.op \in Regional \cup {"dall", "iflush", "none"}
         /\ call.op # "none" => call \in [op : Regional \cup {"dall", "iflush"}, start : Nat,
                                          end : Nat, i : Nat, region : SUBSET Line]
         /\ call.op = "none" <=> call = NoFlush
         /\ LineOf(call.start) \in Nat /\ LineOf(call.i) \in Nat
         /\ \A l \in call.region : l \in Nat /\ l \in Line
<1>1. /\ call.start \in Nat /\ call.end \in Nat /\ call.i \in Nat /\ call.region \subseteq Line
      /\ call.op \in Regional \cup {"dall", "iflush", "none"}
      /\ call.op # "none" => call \in [op : Regional \cup {"dall", "iflush"}, start : Nat,
                                       end : Nat, i : Nat, region : SUBSET Line]
      /\ call.op = "none" <=> call = NoFlush
  BY DEF CachesTypeOK, Routines, NoFlush, Regional
<1>2. LineOf(call.start) \in Nat /\ LineOf(call.i) \in Nat
  BY <1>1, LineIs
<1>3. \A l \in call.region : l \in Nat /\ l \in Line
  BY <1>1, CacheNumbers
<1> QED
  BY <1>1, <1>2, <1>3

\* The program, or an interrupt in the middle of a routine, brings in a line that it may
\* use; nothing else changes but what is dirty.
LEMMA AccessHolds ==
  ASSUME CachesAssumption, CachesInv, NEW b \in Byte, owner[b] = "cached",
         LineOf(b) \notin call.region,
         dcache' = [dcache EXCEPT ![DPlace(LineOf(b))] = LineOf(b)],
         icache' = icache, owner' = owner, call' = call
  PROVE  CachesInv'
<1>0. CachesTypeOK /\ Bounded /\ Passed /\ WholeLines /\ LinesOut
  BY DEF CachesInv
<1>1. b \in Nat /\ LineOf(b) \in Line /\ LineOf(b) \in Nat
  BY ByteIs
<1>2. /\ dcache' \in [0 .. DPlaces - 1 -> Line \cup {None}]
      /\ \A l \in Line : l # LineOf(b) /\ dcache[DPlace(l)] # l => dcache'[DPlace(l)] # l
  BY <1>0, <1>1, StaysOut
<1>3. \A l \in call.region : l \in Line /\ l # LineOf(b)
  BY <1>0, CallIs
<1>4. Passed'
  BY <1>0, <1>2, <1>3 DEF Passed
<1>5. LinesOut'
  <2> SUFFICES ASSUME NEW c \in Byte, owner[c] = "uncached",
                      ~(call.op = "malloc" /\ LineOf(c) \in call.region)
               PROVE  dcache'[DPlace(LineOf(c))] # LineOf(c)
    BY DEF LinesOut
  <2>1. LineOf(c) # LineOf(b)
    <3>1. LineOf(c) = LineOf(b) => owner[b] = "uncached"
      BY <1>0 DEF WholeLines
    <3> QED
      BY <3>1
  <2>2. LineOf(c) \in Line /\ dcache[DPlace(LineOf(c))] # LineOf(c)
    BY <1>0, ByteIs DEF LinesOut
  <2> QED
    BY <1>2, <2>1, <2>2
<1>6. CachesTypeOK' /\ Bounded' /\ WholeLines'
  BY <1>0, <1>2 DEF CachesTypeOK, Bounded, Reaches, WholeLines
<1> QED
  BY <1>4, <1>5, <1>6 DEF CachesInv

\* An instruction is fetched.
LEMMA FetchHolds ==
  ASSUME CachesAssumption, CachesInv, NEW l \in Line, Fetch(l)
  PROVE  CachesInv'
<1>0. CachesTypeOK /\ Bounded /\ Passed /\ WholeLines /\ LinesOut
  BY DEF CachesInv
<1>1. /\ l \notin call.region /\ icache' = [icache EXCEPT ![IPlace(l)] = l]
      /\ dcache' = dcache /\ owner' = owner /\ call' = call /\ l \in Nat
  BY CacheNumbers DEF Fetch, MayTouch, heap
<1>2. /\ icache' \in [0 .. IPlaces - 1 -> Line \cup {None}]
      /\ \A k \in Line : k # l /\ icache[IPlace(k)] # k => icache'[IPlace(k)] # k
  BY <1>0, <1>1, StaysOutI
<1>3. \A k \in call.region : k \in Line /\ k # l
  BY <1>0, <1>1, CallIs
<1>4. Passed'
  BY <1>0, <1>1, <1>2, <1>3 DEF Passed
<1> QED
  BY <1>0, <1>1, <1>2, <1>4 DEF CachesInv, CachesTypeOK, Bounded, Reaches, WholeLines, LinesOut

\* A flush begins: nothing has been passed.
LEMMA BeginHolds ==
  ASSUME CachesAssumption, CachesInv, call = NoFlush,
         NEW op \in {"dflush", "discard", "dall", "iflush"}, NEW start \in Nat, NEW len \in Nat,
         NEW region \in SUBSET Line, Call(op, start, len, region),
         dcache' = dcache, icache' = icache, owner' = owner,
         op \in Regional \/ (op = "iflush" /\ len # ICACHE_SIZE) =>
            \A l \in region : LineOf(start) <= l /\ l * LINE_SIZE < start + len,
         op = "dall" => start = 0 /\ len = DCACHE_SIZE
  PROVE  CachesInv'
<1>0. CachesTypeOK /\ Bounded /\ Passed /\ WholeLines /\ LinesOut
  BY DEF CachesInv
<1>1. call' = [op |-> op, start |-> start, end |-> start + len, i |-> start, region |-> region]
  BY DEF Call
<1>2. /\ call'.op = op /\ call'.start = start /\ call'.end = start + len /\ call'.i = start
      /\ call'.region = region /\ call'.op # "malloc" /\ start + len \in Nat
      /\ call'.start <= call'.i
  BY <1>1
<1>3. CachesTypeOK'
  BY <1>0, <1>1, <1>2 DEF CachesTypeOK, Routines, Regional
<1>4. Bounded'
  <2>1. call'.op \in Regional \/ (call'.op = "iflush" /\ len # ICACHE_SIZE) => Reaches'
    BY <1>2 DEF Reaches, LineOf
  <2>2. len = ICACHE_SIZE => call'.end = call'.start + ICACHE_SIZE
    BY <1>2
  <2>3. DCACHE_SIZE \in Nat
    BY CacheNumbers
  <2> QED
    BY <1>2, <2>1, <2>2, <2>3 DEF Bounded
<1>5. Passed'
  <2>1. LineOf(start) \in Nat /\ \A l \in region : l \in Nat /\ DPlace(l) \in Nat
    <3>1. LineOf(start) \in Nat
      BY LineIs
    <3>2. \A l \in region : l \in Nat
      BY CacheNumbers
    <3>3. \A l \in region : DPlace(l) \in Nat
      BY <3>2, PlaceIs
    <3> QED
      BY <3>1, <3>2, <3>3
  <2>2. op \in Regional => \A l \in region : ~(l < LineOf(start))
    BY <2>1
  <2>3. op = "dall" => \A l \in region : ~(DPlace(l) < LineOf(start))
    <3>1. LineOf(0) = 0
      <4>1. 0 * LINE_SIZE = 0 /\ LINE_SIZE \in Nat /\ LINE_SIZE >= 1 /\ 0 \in Nat
        BY CacheNumbers
      <4> QED
        BY <4>1, LineOfAt
    <3> QED
      BY <2>1, <3>1
  <2>4. LineOf(start) .. LineOf(start) - 1 = {}
    BY <2>1
  <2> QED
    BY <1>2, <2>2, <2>3, <2>4 DEF Passed, LineOf
<1>6. WholeLines' /\ LinesOut'
  <2>1. call.op = "none"
    BY DEF NoFlush
  <2> QED
    BY <1>0, <2>1 DEF WholeLines, LinesOut, LineOf, DPlace
<1> QED
  BY <1>3, <1>4, <1>5, <1>6 DEF CachesInv

\* The lines that a region touches are lines of memory, between its first and its end.
LEMMA TouchedIs ==
  ASSUME CachesAssumption, NEW start \in Byte, NEW len \in Nat, start + len - 1 \in Byte
  PROVE  /\ Touched(start, len) \in SUBSET Line
         /\ \A l \in Touched(start, len) : LineOf(start) <= l /\ l * LINE_SIZE < start + len
<1>1. start \in Nat /\ start + len - 1 \in Nat
  BY ByteIs
<1>2. ASSUME NEW b \in start .. start + len - 1
      PROVE  /\ LineOf(b) \in Line /\ LineOf(start) <= LineOf(b)
             /\ LineOf(b) * LINE_SIZE < start + len
  <2>1. b \in Byte /\ b \in Nat /\ start <= b /\ b < start + len
    <3>1. Lines * LINE_SIZE \in Nat
      BY CacheNumbers
    <3> QED
      BY <1>1, <3>1 DEF Byte
  <2>2. LineOf(b) \in Line /\ LineOf(b) * LINE_SIZE <= b /\ LineOf(b) * LINE_SIZE \in Nat
    BY <2>1, ByteIs, LineIs
  <2>3. LineOf(start) <= LineOf(b)
    BY <1>1, <2>1, LinesInOrder
  <2> QED
    BY <1>1, <2>1, <2>2, <2>3
<1> QED
  BY <1>2 DEF Touched

LEMMA FlushesHold ==
  ASSUME CachesAssumption, CachesInv, Flushes
  PROVE  CachesInv'
<1>1. /\ call = NoFlush /\ dcache' = dcache /\ icache' = icache /\ owner' = owner
      /\ ICACHE_SIZE \in Nat /\ DCACHE_SIZE \in Nat
  BY CacheNumbers DEF Flushes, heap
<1>2. CASE alt_dcache_flush_all
  BY <1>1, <1>2, BeginHolds DEF alt_dcache_flush_all, Regional
<1>3. CASE alt_icache_flush_all
  BY <1>1, <1>3, BeginHolds DEF alt_icache_flush_all, Regional
<1>4. ASSUME NEW start \in Byte, NEW len \in Lengths, start + len - 1 \in Byte,
             \/ alt_dcache_flush(start, len)
             \/ alt_dcache_flush_no_writeback(start, len)
             \/ alt_icache_flush(start, len)
      PROVE  CachesInv'
  <2>1. len \in Nat /\ start \in Nat
    BY ByteIs DEF CachesAssumption
  <2>2. /\ Touched(start, len) \in SUBSET Line
        /\ \A l \in Touched(start, len) : LineOf(start) <= l /\ l * LINE_SIZE < start + len
    BY <1>4, <2>1, TouchedIs
  <2>3. CASE alt_dcache_flush(start, len)
    BY <1>1, <2>1, <2>2, <2>3, BeginHolds DEF alt_dcache_flush
  <2>4. CASE alt_dcache_flush_no_writeback(start, len)
    BY <1>1, <2>1, <2>2, <2>4, BeginHolds DEF alt_dcache_flush_no_writeback
  <2>5. CASE alt_icache_flush(start, len)
    <3>1. CASE len > ICACHE_SIZE
      <4>1. Call("iflush", start, ICACHE_SIZE, Touched(start, len))
        BY <2>5, <3>1 DEF alt_icache_flush
      <4> QED
        BY <1>1, <2>1, <2>2, <4>1, BeginHolds DEF Regional
    <3>2. CASE ~(len > ICACHE_SIZE)
      <4>1. Call("iflush", start, len, Touched(start, len))
        BY <2>5, <3>2 DEF alt_icache_flush
      <4> QED
        BY <1>1, <2>1, <2>2, <4>1, BeginHolds DEF Regional
    <3> QED
      BY <3>1, <3>2
  <2> QED
    BY <1>4, <2>3, <2>4, <2>5
<1> QED
  BY <1>2, <1>3, <1>4 DEF Flushes

\* A place is cleared.
LEMMA ClearedD ==
  ASSUME CachesAssumption, CachesTypeOK, NEW p \in Nat,
         dcache' = [dcache EXCEPT ![DPlace(p)] = None]
  PROVE  /\ dcache' \in [0 .. DPlaces - 1 -> Line \cup {None}]
         /\ \A l \in Line : dcache'[DPlace(p)] # l
         /\ \A l \in Line : dcache[DPlace(l)] # l => dcache'[DPlace(l)] # l
<1> DEFINE x == None
<1>1. x \in Line \cup {None} /\ \A l \in Line : l # x
  BY CacheNumbers
<1>2. dcache' = [dcache EXCEPT ![DPlace(p)] = x]
  OBVIOUS
<1> HIDE DEF x
<1>3. /\ dcache' \in [0 .. DPlaces - 1 -> Line \cup {None}]
      /\ dcache'[DPlace(p)] = x
      /\ \A l \in Line : l # x /\ dcache[DPlace(l)] # l => dcache'[DPlace(l)] # l
  BY <1>1, <1>2, StaysOut
<1> QED
  BY <1>1, <1>3

LEMMA ClearedI ==
  ASSUME CachesAssumption, CachesTypeOK, NEW p \in Nat,
         icache' = [icache EXCEPT ![IPlace(p)] = None]
  PROVE  /\ icache' \in [0 .. IPlaces - 1 -> Line \cup {None}]
         /\ \A l \in Line : icache'[IPlace(p)] # l
         /\ \A l \in Line : icache[IPlace(l)] # l => icache'[IPlace(l)] # l
<1> DEFINE x == None
<1>1. x \in Line \cup {None} /\ \A l \in Line : l # x
  BY CacheNumbers
<1>2. icache' = [icache EXCEPT ![IPlace(p)] = x]
  OBVIOUS
<1> HIDE DEF x
<1>3. /\ icache' \in [0 .. IPlaces - 1 -> Line \cup {None}]
      /\ icache'[IPlace(p)] = x
      /\ \A l \in Line : l # x /\ icache[IPlace(l)] # l => icache'[IPlace(l)] # l
  BY <1>1, <1>2, StaysOutI
<1> QED
  BY <1>1, <1>3

\* What flushda does to the data cache.
LEMMA FlushdaIs ==
  ASSUME CachesAssumption, CachesTypeOK, NEW b \in Nat, Flushda(b)
  PROVE  /\ dcache' \in [0 .. DPlaces - 1 -> Line \cup {None}]
         /\ \A l \in Line : dcache[DPlace(l)] # l => dcache'[DPlace(l)] # l
         /\ LineOf(b) \in Line => dcache'[DPlace(LineOf(b))] # LineOf(b)
<1>1. LineOf(b) \in Nat
  BY LineIs
<1>2. CASE dcache[DPlace(LineOf(b))] = LineOf(b)
  <2>1. dcache' = [dcache EXCEPT ![DPlace(LineOf(b))] = None]
    BY <1>2 DEF Flushda
  <2> QED
    BY <1>1, <2>1, ClearedD
<1>3. CASE dcache[DPlace(LineOf(b))] # LineOf(b)
  BY <1>3 DEF Flushda, CachesTypeOK
<1> QED
  BY <1>2, <1>3

\* One line more is flushed: what the caller means is out of the cache there, too.
LEMMA LineHolds ==
  ASSUME CachesAssumption, CachesInv, FlushLine
  PROVE  CachesInv'
<1> DEFINE m == LineOf(call.i)
<1>0. CachesTypeOK /\ Bounded /\ Passed /\ WholeLines /\ LinesOut
  BY DEF CachesInv
<1>1. /\ call.op \in Regional \cup {"dall", "iflush"} /\ More /\ owner' = owner
      /\ call' = [call EXCEPT !.i = call.i + LINE_SIZE]
  BY DEF FlushLine, heap, Regional
<1>2. /\ call.start \in Nat /\ call.end \in Nat /\ call.i \in Nat /\ call.region \subseteq Line
      /\ call \in [op : Regional \cup {"dall", "iflush"}, start : Nat, end : Nat, i : Nat,
                   region : SUBSET Line]
      /\ LineOf(call.start) \in Nat /\ m \in Nat
      /\ \A l \in call.region : l \in Nat /\ l \in Line
      /\ LINE_SIZE \in Nat /\ LINE_SIZE >= 1
  BY <1>0, <1>1, CallIs, CacheNumbers DEF Regional
<1>3. /\ call'.op = call.op /\ call'.start = call.start /\ call'.end = call.end
      /\ call'.i = call.i + LINE_SIZE /\ call'.region = call.region /\ call' \in Routines
  BY <1>1, <1>2 DEF Routines
<1>4. LineOf(call'.i) = m + 1 /\ call'.i % LINE_SIZE = call.i % LINE_SIZE
  BY <1>2, <1>3, NextLine
<1>5. Bounded'
  BY <1>0, <1>2, <1>3, <1>4 DEF Bounded, Reaches, LineOf
<1>6. /\ dcache' \in [0 .. DPlaces - 1 -> Line \cup {None}]
      /\ \A l \in Line : dcache[DPlace(l)] # l => dcache'[DPlace(l)] # l
  <2>1. CASE call.op \in Regional
    BY <1>0, <1>2, <2>1, FlushdaIs DEF FlushLine, Regional, Initda
  <2>2. CASE call.op = "dall"
    <3>1. dcache' = [dcache EXCEPT ![DPlace(m)] = None]
      BY <2>2 DEF FlushLine, Flushd
    <3> QED
      BY <1>0, <1>2, <3>1, ClearedD
  <2>3. CASE call.op = "iflush"
    BY <1>0, <2>3 DEF FlushLine, CachesTypeOK
  <2> QED
    BY <1>1, <2>1, <2>2, <2>3
<1>7. /\ icache' \in [0 .. IPlaces - 1 -> Line \cup {None}]
      /\ \A l \in Line : icache[IPlace(l)] # l => icache'[IPlace(l)] # l
  <2>1. CASE call.op = "iflush"
    <3>1. icache' = [icache EXCEPT ![IPlace(m)] = None]
      BY <2>1 DEF FlushLine, Flushi
    <3> QED
      BY <1>0, <1>2, <3>1, ClearedI
  <2>2. CASE call.op # "iflush"
    BY <1>0, <1>1, <2>2 DEF FlushLine, CachesTypeOK, Regional
  <2> QED
    BY <2>1, <2>2
<1>8. CachesTypeOK'
  BY <1>0, <1>1, <1>3, <1>6, <1>7 DEF CachesTypeOK
<1>9. LinesOut' /\ WholeLines'
  <2>1. \A b \in Byte : LineOf(b) \in Line
    BY ByteIs
  <2> QED
    BY <1>0, <1>1, <1>3, <1>6, <2>1 DEF LinesOut, WholeLines, LineOf, DPlace
<1>10. Passed'
  <2>1. CASE call.op \in Regional
    <3>1. m \in Line => dcache'[DPlace(m)] # m
      BY <1>0, <1>2, <2>1, FlushdaIs DEF FlushLine, Regional, Initda
    <3>2. \A l \in call.region : l < m + 1 => l < m \/ l = m
      BY <1>2
    <3>3. \A l \in call.region : l < m => dcache'[DPlace(l)] # l
      BY <1>0, <1>2, <1>6, <2>1 DEF Passed
    <3>4. \A l \in call.region : l < m + 1 => dcache'[DPlace(l)] # l
      BY <1>2, <3>1, <3>2, <3>3
    <3> HIDE DEF m
    <3> QED
      BY <1>3, <1>4, <2>1, <3>4 DEF Passed, Regional
  <2>2. CASE call.op = "dall"
    <3>1. dcache' = [dcache EXCEPT ![DPlace(m)] = None]
      BY <2>2 DEF FlushLine, Flushd
    <3>2. \A l \in Line : dcache'[DPlace(m)] # l
      BY <1>0, <1>2, <3>1, ClearedD
    <3>3. DPlace(m) = m
      <4>1. call.i < DCACHE_SIZE /\ DPlaces * LINE_SIZE = DCACHE_SIZE /\ DPlaces \in Nat
        BY <1>0, <1>1, <2>2, CacheNumbers DEF More, Bounded
      <4>2. m * LINE_SIZE <= call.i /\ m * LINE_SIZE \in Nat
        BY <1>2, LineIs
      <4>3. m < DPlaces
        <5> HIDE DEF m
        <5>1. CASE m >= DPlaces
          <6>1. m * LINE_SIZE >= DPlaces * LINE_SIZE
            BY <1>2, <4>1, <5>1
          <6> QED
            BY <1>2, <4>1, <4>2, <6>1
        <5> QED
          BY <1>2, <4>1, <5>1
      <4> QED
        BY <1>2, <4>3, PlaceIs
    <3>4. \A l \in call.region : DPlace(l) < m + 1 => DPlace(l) < m \/ DPlace(l) = m
      <4>1. \A l \in call.region : DPlace(l) \in 0 .. DPlaces - 1
        BY <1>2, PlaceIs
      <4>2. DPlaces \in Nat
        BY CacheNumbers
      <4> QED
        BY <1>2, <4>1, <4>2
    <3>5. \A l \in call.region : DPlace(l) < m => dcache'[DPlace(l)] # l
      BY <1>0, <1>2, <1>6, <2>2 DEF Passed
    <3>6. \A l \in call.region : DPlace(l) < m + 1 => dcache'[DPlace(l)] # l
      BY <1>2, <3>2, <3>3, <3>4, <3>5
    <3> HIDE DEF m
    <3> QED
      BY <1>3, <1>4, <2>2, <3>6 DEF Passed, Regional
  <2>3. CASE call.op = "iflush"
    <3>1. icache' = [icache EXCEPT ![IPlace(m)] = None]
      BY <2>3 DEF FlushLine, Flushi
    <3>2. \A l \in Line : icache'[IPlace(m)] # l
      BY <1>0, <1>2, <3>1, ClearedI
    <3>3. \A j \in LineOf(call.start) .. m : j \in LineOf(call.start) .. m - 1 \/ j = m
      BY <1>2
    <3>4. \A l \in call.region, j \in LineOf(call.start) .. m - 1 :
             IPlace(j) = IPlace(l) => icache'[IPlace(l)] # l
      BY <1>0, <1>2, <1>7, <2>3 DEF Passed
    <3>5. \A l \in call.region, j \in LineOf(call.start) .. m :
             IPlace(j) = IPlace(l) => icache'[IPlace(l)] # l
      BY <1>2, <3>2, <3>3, <3>4
    <3>6. (m + 1) - 1 = m /\ LineOf(call'.start) = LineOf(call.start)
      BY <1>2, <1>3
    <3> HIDE DEF m
    <3> QED
      BY <1>3, <1>4, <2>3, <3>5, <3>6 DEF Passed, Regional
  <2> QED
    BY <1>1, <2>1, <2>2, <2>3
<1> QED
  BY <1>5, <1>8, <1>9, <1>10 DEF CachesInv

\* When the loop ends it has passed every line that the caller means.
LEMMA LoopEnds ==
  ASSUME CachesAssumption, CachesInv, call # NoFlush, ~More
  PROVE  \A l \in call.region :
            IF call.op = "iflush" THEN icache[IPlace(l)] # l ELSE dcache[DPlace(l)] # l
<1> DEFINE m == LineOf(call.i)
<1>0. CachesTypeOK /\ Bounded /\ Passed
  BY DEF CachesInv
<1>1. /\ call.start \in Nat /\ call.end \in Nat /\ call.i \in Nat /\ call.region \subseteq Line
      /\ call.op \in Regional \cup {"dall", "iflush"}
      /\ LineOf(call.start) \in Nat /\ m \in Nat
      /\ \A l \in call.region : l \in Nat /\ l \in Line
      /\ LINE_SIZE \in Nat /\ LINE_SIZE >= 1
  BY <1>0, CallIs, CacheNumbers
<1>2. /\ call.i >= call.end /\ call.i % LINE_SIZE = call.start % LINE_SIZE
      /\ call.op # "dall" /\ call.start % LINE_SIZE # 0 => call.i >= call.end + LINE_SIZE
  BY <1>0, <1>1 DEF More, Bounded
<1>3. ASSUME Reaches, call.op # "dall", NEW l \in call.region PROVE l < m
  <2>1. l * LINE_SIZE < call.end /\ l \in Nat
    BY <1>1, <1>3 DEF Reaches
  <2>2. CASE call.start % LINE_SIZE = 0
    <3>1. call.i = m * LINE_SIZE
      <4>1. call.i = m * LINE_SIZE + (call.i % LINE_SIZE) /\ m * LINE_SIZE \in Nat
        BY <1>1, LineIs
      <4> QED
        BY <1>2, <2>2, <4>1
    <3>2. l * LINE_SIZE < m * LINE_SIZE
      <4>1. l * LINE_SIZE \in Nat
        BY <1>1, <2>1
      <4> QED
        BY <1>1, <1>2, <2>1, <3>1, <4>1
    <3> HIDE DEF m
    <3>3. CASE l >= m
      <4>1. l * LINE_SIZE >= m * LINE_SIZE
        BY <1>1, <2>1, <3>3
      <4>2. l * LINE_SIZE \in Nat /\ m * LINE_SIZE \in Nat
        BY <1>1, <2>1
      <4> QED
        BY <3>2, <4>1, <4>2
    <3> QED
      BY <1>1, <2>1, <3>3
  <2>3. CASE call.start % LINE_SIZE # 0
    <3>1. call.i >= call.end + LINE_SIZE
      BY <1>2, <1>3, <2>3
    <3>2. l * LINE_SIZE \in Nat
      BY <1>1, <2>1
    <3>3. l * LINE_SIZE + LINE_SIZE <= call.i
      BY <1>1, <2>1, <3>1, <3>2
    <3> QED
      BY <1>1, <2>1, <3>3, LineBelow
  <2> QED
    BY <2>2, <2>3
<1>4. CASE call.op \in Regional
  <2>1. Reaches /\ call.op # "dall" /\ call.op # "iflush"
    BY <1>0, <1>4 DEF Bounded, Regional
  <2> QED
    BY <1>0, <1>3, <1>4, <2>1 DEF Passed
<1>5. CASE call.op = "dall"
  <2>1. /\ call.i >= DPlaces * LINE_SIZE /\ DPlaces \in Nat /\ DPlaces >= 1
    BY <1>0, <1>2, <1>5, CacheNumbers DEF Bounded
  <2>2. \A l \in call.region : DPlace(l) \in 0 .. DPlaces - 1
    BY <1>1, PlaceIs
  <2>3. DPlaces - 1 < m
    <3> DEFINE p == DPlaces - 1
    <3>1. p \in Nat /\ p + 1 = DPlaces
      BY <2>1
    <3>2. p * LINE_SIZE + LINE_SIZE <= call.i
      <4> HIDE DEF p
      <4>1. (p + 1) * LINE_SIZE = p * LINE_SIZE + LINE_SIZE
        BY <1>1, <3>1
      <4> QED
        BY <2>1, <3>1, <4>1
    <3> QED
      BY <1>1, <3>1, <3>2, LineBelow
  <2>4. \A l \in call.region : DPlace(l) < m
    BY <1>1, <2>1, <2>2, <2>3
  <2> QED
    BY <1>0, <1>5, <2>4 DEF Passed
<1>6. CASE call.op = "iflush"
  <2>1. CASE Reaches
    <3>1. \A l \in call.region : l \in LineOf(call.start) .. m - 1
      BY <1>1, <1>3, <1>6, <2>1 DEF Reaches
    <3> QED
      BY <1>0, <1>6, <3>1 DEF Passed
  <2>2. CASE call.end = call.start + ICACHE_SIZE
    <3> DEFINE s == LineOf(call.start)
               e == s + IPlaces - 1
    <3>1. /\ IPlaces \in Nat /\ IPlaces >= 1 /\ IPlaces * LINE_SIZE = ICACHE_SIZE
          /\ s \in Nat /\ s * LINE_SIZE <= call.start /\ s * LINE_SIZE \in Nat /\ e \in Nat
          /\ ICACHE_SIZE \in Nat
      <4>1. /\ IPlaces \in Nat /\ IPlaces >= 1 /\ IPlaces * LINE_SIZE = ICACHE_SIZE
            /\ ICACHE_SIZE \in Nat
        BY CacheNumbers
      <4>2. s \in Nat /\ s * LINE_SIZE <= call.start /\ s * LINE_SIZE \in Nat
        BY <1>1, LineIs
      <4>3. e \in Nat
        <5> HIDE DEF s
        <5> QED
          BY <4>1, <4>2
      <4> QED
        BY <4>1, <4>2, <4>3
    <3>2. e * LINE_SIZE + LINE_SIZE <= call.i
      <4>1. (s + IPlaces - 1) * LINE_SIZE + LINE_SIZE = s * LINE_SIZE + IPlaces * LINE_SIZE
        <5> HIDE DEF s
        <5> QED
          BY <1>1, <3>1
      <4> HIDE DEF s
      <4> QED
        BY <1>1, <1>2, <2>2, <3>1, <4>1
    <3>3. e < m
      <4> HIDE DEF e
      <4> QED
        BY <1>1, <3>1, <3>2, LineBelow
    <3>4. \A j \in s .. s + IPlaces - 1 : j \in s .. m - 1
      <4> HIDE DEF s, m
      <4> QED
        BY <1>1, <3>1, <3>3
    <3>5. \A l \in call.region : \E j \in s .. s + IPlaces - 1 : IPlace(j) = IPlace(l)
      <4>1. s \in Nat /\ \A l \in call.region : l \in Nat
        BY <1>1
      <4> HIDE DEF s
      <4> QED
        BY <4>1, EveryPlace
    <3>6. \A l \in call.region : \E j \in s .. m - 1 : IPlace(j) = IPlace(l)
      BY <3>4, <3>5
    <3> QED
      BY <1>0, <1>6, <3>6 DEF Passed
  <2> QED
    BY <1>0, <1>6, <2>1, <2>2 DEF Bounded
<1> QED
  BY <1>1, <1>4, <1>5, <1>6 DEF Regional

\* A routine returns: an uncached block is out of the cache by then.
LEMMA ReturnHolds ==
  ASSUME CachesAssumption, CachesInv, FlushReturns \/ MallocReturns
  PROVE  CachesInv'
<1>0. CachesTypeOK /\ Bounded /\ Passed /\ WholeLines /\ LinesOut
  BY DEF CachesInv
<1>1. /\ ~More /\ call # NoFlush /\ call' = NoFlush
      /\ dcache' = dcache /\ icache' = icache /\ owner' = owner
  BY DEF FlushReturns, MallocReturns, heap, NoFlush
<1>2. CachesTypeOK'
  BY <1>0, <1>1 DEF CachesTypeOK, Routines
<1>3. Bounded' /\ Passed'
  BY <1>1 DEF Bounded, Passed, NoFlush, Regional
<1>4. WholeLines'
  BY <1>0, <1>1 DEF WholeLines, LineOf
<1>5. LinesOut'
  <2> SUFFICES ASSUME NEW b \in Byte, owner[b] = "uncached"
               PROVE  dcache[DPlace(LineOf(b))] # LineOf(b)
    BY <1>1 DEF LinesOut, LineOf, DPlace
  <2>1. CASE call.op = "malloc" /\ LineOf(b) \in call.region
    BY <1>1, <2>1, LoopEnds
  <2>2. CASE ~(call.op = "malloc" /\ LineOf(b) \in call.region)
    BY <1>0, <2>2 DEF LinesOut
  <2> QED
    BY <2>1, <2>2
<1> QED
  BY <1>2, <1>3, <1>4, <1>5 DEF CachesInv

\* Malloc and free of the library give and take bytes that are not uncached.
LEMMA OwnersHold ==
  ASSUME CachesAssumption, CachesInv, NEW B \in SUBSET Byte, NEW who \in {"free", "cached"},
         \A b \in B : owner[b] # "uncached",
         owner' = [b \in Byte |-> IF b \in B THEN who ELSE owner[b]],
         dcache' = dcache, icache' = icache, call' = call
  PROVE  CachesInv'
<1>0. CachesTypeOK /\ Bounded /\ Passed /\ WholeLines /\ LinesOut
  BY DEF CachesInv
<1>1. owner' \in [Byte -> {"free", "cached", "uncached"}]
  BY <1>0 DEF CachesTypeOK
<1>2. \A b \in Byte : owner'[b] = "uncached" <=> owner[b] = "uncached"
  OBVIOUS
<1>3. CachesTypeOK' /\ Bounded' /\ Passed'
  BY <1>0, <1>1 DEF CachesTypeOK, Bounded, Reaches, Passed
<1>4. WholeLines' /\ LinesOut'
  BY <1>0, <1>2 DEF WholeLines, LinesOut
<1> QED
  BY <1>3, <1>4 DEF CachesInv

\* A block that begins at a line takes whole lines, as many as hold its size.
LEMMA BlockIs ==
  ASSUME CachesAssumption, NEW l \in Nat, NEW size \in Nat
  PROVE  LET k == (size + LINE_SIZE - 1) \div LINE_SIZE
         IN  /\ k \in Nat /\ AlignedSize(size) = k * LINE_SIZE /\ AlignedSize(size) \in Nat
             /\ \A b \in Nat : b \in l * LINE_SIZE .. l * LINE_SIZE + AlignedSize(size) - 1
                                 <=> LineOf(b) \in l .. l + k - 1
             /\ \A m \in l .. l + k - 1 :
                   m * LINE_SIZE \in l * LINE_SIZE .. l * LINE_SIZE + size - 1
             /\ AlignedSize(size) >= size
<1> DEFINE n == LINE_SIZE
           k == (size + n - 1) \div n
           r == (size + n - 1) % n
<1>1. n \in Nat /\ n >= 1
  BY CacheNumbers
<1>2. k \in Int /\ r \in 0 .. n - 1 /\ size + n - 1 = n * k + r
  BY <1>1
<1>3. AlignedSize(size) = k * n
  BY DEF AlignedSize
<1>4. \A b \in Nat : LineOf(b) \in Nat /\ \A m \in Nat : m < LineOf(b) <=> m * n + n <= b
  BY LineIs, LineBelow
<1> HIDE DEF n, k, r
<1>5. k >= 0
  <2>1. CASE k <= -1
    <3>1. n * k <= -n
      BY <1>1, <1>2, <2>1
    <3> QED
      BY <1>1, <1>2, <3>1
  <2> QED
    BY <1>2, <2>1
<1>6. k \in Nat /\ k * n \in Nat /\ k * n >= size /\ n * k = k * n
  BY <1>1, <1>2, <1>5
<1>7. l * n \in Nat
  BY <1>1
<1>8. ASSUME NEW b \in Nat
      PROVE  b \in l * n .. l * n + k * n - 1 <=> LineOf(b) \in l .. l + k - 1
  <2> DEFINE m == LineOf(b)
  <2>1. m \in Nat
    BY <1>4
  <2>2. l <= m <=> l * n <= b
    <3>1. CASE l = 0
      BY <2>1, <3>1, <1>1
    <3>2. CASE l # 0
      <4>1. l - 1 \in Nat /\ (l - 1) * n + n = l * n
        BY <1>1, <3>2
      <4>2. l - 1 < m <=> (l - 1) * n + n <= b
        BY <1>4, <4>1
      <4> HIDE DEF m
      <4> QED
        BY <2>1, <4>1, <4>2
    <3> QED
      BY <3>1, <3>2
  <2>3. m < l + k <=> b < l * n + k * n
    <3>1. CASE l + k = 0
      <4>1. l = 0 /\ k = 0 /\ 0 * n = 0
        BY <1>1, <1>6, <3>1
      <4> HIDE DEF m
      <4> QED
        BY <2>1, <4>1
    <3>2. CASE l + k # 0
      <4> DEFINE j == l + k - 1
      <4>1. j \in Nat /\ j + 1 = l + k
        BY <1>6, <3>2
      <4>2. j * n + n = l * n + k * n
        <5>1. (l + k - 1) * n + n = l * n + k * n
          BY <1>1, <1>6
        <5> QED
          BY <5>1
      <4>3. j < m <=> j * n + n <= b
        BY <1>4, <4>1
      <4> HIDE DEF j, m
      <4> QED
        BY <1>6, <1>7, <2>1, <4>1, <4>2, <4>3
    <3> QED
      BY <3>1, <3>2
  <2> HIDE DEF m
  <2>4. b \in l * n .. l * n + k * n - 1 <=> l * n <= b /\ b < l * n + k * n
    BY <1>6, <1>7
  <2>5. m \in l .. l + k - 1 <=> l <= m /\ m < l + k
    BY <1>6, <2>1
  <2> QED
    BY <2>2, <2>3, <2>4, <2>5 DEF m
<1>9. ASSUME NEW m \in l .. l + k - 1 PROVE m * n \in l * n .. l * n + size - 1
  <2>1. m \in Nat /\ l <= m /\ m + 1 <= l + k
    BY <1>6
  <2>2. l * n <= m * n
    BY <1>1, <2>1
  <2>3. (m + 1) * n <= (l + k) * n
    BY <1>1, <1>6, <2>1
  <2>4. (m + 1) * n = m * n + n /\ (l + k) * n = l * n + k * n /\ m * n \in Nat
    BY <1>1, <1>6, <2>1
  <2>5. k * n + r = size + n - 1
    BY <1>2, <1>6
  <2> QED
    BY <1>1, <1>2, <1>6, <1>7, <2>2, <2>3, <2>4, <2>5
<1> QED
  BY <1>3, <1>6, <1>8, <1>9 DEF n, k

\* The lines of an aligned block are those that its size touches.
LEMMA BlockTouched ==
  ASSUME CachesAssumption, NEW l \in Nat, NEW size \in Nat, NEW b \in Nat,
         b \in l * LINE_SIZE .. l * LINE_SIZE + AlignedSize(size) - 1
  PROVE  LineOf(b) \in Touched(l * LINE_SIZE, size)
<1> DEFINE k == (size + LINE_SIZE - 1) \div LINE_SIZE
           m == LineOf(b)
           c == m * LINE_SIZE
<1>1. m \in l .. l + k - 1
  BY BlockIs
<1>2. c \in l * LINE_SIZE .. l * LINE_SIZE + size - 1
  <2> HIDE DEF k
  <2>1. k = (size + LINE_SIZE - 1) \div LINE_SIZE
    BY DEF k
  <2> HIDE DEF m
  <2> QED
    BY <1>1, <2>1, BlockIs
<1>3. m \in Nat /\ c \in Nat /\ LINE_SIZE \in Nat /\ LINE_SIZE >= 1
  BY LineIs, CacheNumbers
<1>4. LineOf(c) = m
  <2>1. c < m * LINE_SIZE + LINE_SIZE
    BY <1>3
  <2> HIDE DEF m
  <2> QED
    BY <1>3, <2>1, LineOfAt
<1> QED
  BY <1>2, <1>4 DEF Touched

\* A block becomes uncached, and is flushed from then on.
LEMMA UncachedHolds ==
  ASSUME CachesAssumption, CachesInv, NEW l \in Line, NEW size \in Sizes,
         alt_uncached_malloc(l, size)
  PROVE  CachesInv'
<1> DEFINE start == l * LINE_SIZE
           A == AlignedSize(size)
           block == start .. start + A - 1
           region == Touched(start, size)
           k == (size + LINE_SIZE - 1) \div LINE_SIZE
<1>0. CachesTypeOK /\ Bounded /\ Passed /\ WholeLines /\ LinesOut
  BY DEF CachesInv
<1>1. /\ call = NoFlush /\ \A b \in block : b \in Byte /\ owner[b] = "free"
      /\ owner' = [b \in Byte |-> IF b \in block THEN "uncached" ELSE owner[b]]
      /\ call' = [op |-> "malloc", start |-> start, end |-> start + A, i |-> start,
                  region |-> region]
      /\ dcache' = dcache /\ icache' = icache
  BY DEF alt_uncached_malloc, Given, Call
<1>2. /\ l \in Nat /\ size \in Nat /\ LINE_SIZE \in Nat /\ LINE_SIZE >= 1 /\ start \in Nat
  BY CacheNumbers DEF CachesAssumption
<1>3. A \in Nat /\ A >= size
  BY <1>2, BlockIs
<1>4. \A b \in Byte : b \in block => LineOf(b) \in region
  <2>1. \A b \in Byte : b \in Nat
    BY ByteIs
  <2> QED
    BY <1>2, <2>1, BlockTouched
<1>5. \A b, c \in Byte : LineOf(b) = LineOf(c) /\ b \in block => c \in block
  <2>1. \A b \in Byte : b \in Nat
    BY ByteIs
  <2>2. \A b \in Nat : b \in block <=> LineOf(b) \in l .. l + k - 1
    BY <1>2, BlockIs
  <2> HIDE DEF block, k
  <2> QED
    BY <2>1, <2>2
<1>6. start % LINE_SIZE = 0 /\ LineOf(start) = l
  <2>1. start <= start /\ start < l * LINE_SIZE + LINE_SIZE /\ start - l * LINE_SIZE = 0
    BY <1>2
  <2> QED
    BY <1>2, <2>1, LineOfAt
<1>7. region \in SUBSET Line /\ \A m \in region : LineOf(start) <= m /\ m * LINE_SIZE < start + A
  <2>1. ASSUME NEW b \in start .. start + size - 1
        PROVE  LineOf(b) \in Line /\ LineOf(start) <= LineOf(b) /\ LineOf(b) * LINE_SIZE < start + A
    <3> HIDE DEF start, A
    <3>1. b \in start .. start + A - 1 /\ b \in Nat /\ start <= b
      BY <1>2, <1>3, <2>1
    <3>2. b \in Byte
      BY <1>1, <3>1
    <3>3. LineOf(b) \in Line /\ LineOf(b) * LINE_SIZE <= b /\ LineOf(b) * LINE_SIZE \in Nat
      BY <3>1, <3>2, ByteIs, LineIs
    <3>4. LineOf(start) <= LineOf(b)
      BY <1>2, <3>1, LinesInOrder
    <3> QED
      BY <1>2, <1>3, <3>1, <3>3, <3>4
  <2> QED
    BY <2>1 DEF Touched
<1> HIDE DEF start, A, block, region, k
<1>8. /\ call'.op = "malloc" /\ call'.start = start /\ call'.end = start + A /\ call'.i = start
      /\ call'.region = region /\ start + A \in Nat /\ start <= start
  BY <1>1, <1>2, <1>3
<1>9. CachesTypeOK'
  <2>1. owner' \in [Byte -> {"free", "cached", "uncached"}]
    BY <1>0, <1>1 DEF CachesTypeOK
  <2>2. call' \in Routines
    BY <1>1, <1>2, <1>7, <1>8 DEF Routines, Regional
  <2> QED
    BY <1>0, <1>1, <2>1, <2>2 DEF CachesTypeOK
<1>10. Bounded'
  <2>1. Reaches'
    BY <1>7, <1>8 DEF Reaches, LineOf
  <2> QED
    BY <1>6, <1>8, <2>1 DEF Bounded
<1>11. Passed'
  <2>1. \A m \in region : m \in Nat
    BY <1>7, CacheNumbers
  <2>2. \A m \in region : ~(m < l)
    BY <1>2, <1>6, <1>7, <2>1
  <2>4. (LineOf(call.i))' = l
    BY <1>6, <1>8 DEF LineOf
  <2> QED
    BY <1>8, <2>2, <2>4 DEF Passed, Regional
<1>12. WholeLines'
  <2>1. \A b \in Byte : owner'[b] = "uncached" <=> b \in block \/ owner[b] = "uncached"
    BY <1>1
  <2> QED
    BY <1>0, <1>5, <2>1 DEF WholeLines, LineOf
<1>13. LinesOut'
  <2>1. \A b \in Byte : owner'[b] = "uncached" => b \in block \/ owner[b] = "uncached"
    BY <1>1
  <2>2. call.op # "malloc"
    BY <1>1 DEF NoFlush
  <2> QED
    BY <1>0, <1>1, <1>4, <1>8, <2>1, <2>2 DEF LinesOut, LineOf, DPlace
<1> QED
  BY <1>9, <1>10, <1>11, <1>12, <1>13 DEF CachesInv

\* It is given back as a whole.
LEMMA UncachedFreeHolds ==
  ASSUME CachesAssumption, CachesInv, NEW l \in Line, NEW size \in Sizes,
         alt_uncached_free(l, size)
  PROVE  CachesInv'
<1> DEFINE block == l * LINE_SIZE .. l * LINE_SIZE + AlignedSize(size) - 1
           k == (size + LINE_SIZE - 1) \div LINE_SIZE
<1>0. CachesTypeOK /\ Bounded /\ Passed /\ WholeLines /\ LinesOut
  BY DEF CachesInv
<1>1. /\ \A b \in block : b \in Byte
      /\ owner' = [b \in Byte |-> IF b \in block THEN "free" ELSE owner[b]]
      /\ call' = call /\ dcache' = dcache /\ icache' = icache
  BY DEF alt_uncached_free
<1>2. l \in Nat /\ size \in Nat
  BY CacheNumbers DEF CachesAssumption
<1>3. \A b, c \in Byte : LineOf(b) = LineOf(c) /\ c \in block => b \in block
  <2>1. \A b \in Byte : b \in Nat
    BY ByteIs
  <2>2. \A b \in Nat : b \in block <=> LineOf(b) \in l .. l + k - 1
    BY <1>2, BlockIs
  <2> HIDE DEF block, k
  <2> QED
    BY <2>1, <2>2
<1> HIDE DEF block, k
<1>4. \A b \in Byte : owner'[b] = "uncached" <=> b \notin block /\ owner[b] = "uncached"
  BY <1>1
<1>5. CachesTypeOK'
  <2>1. owner' \in [Byte -> {"free", "cached", "uncached"}]
    BY <1>0, <1>1 DEF CachesTypeOK
  <2> QED
    BY <1>0, <1>1, <2>1 DEF CachesTypeOK
<1>6. Bounded' /\ Passed'
  BY <1>0, <1>1 DEF Bounded, Reaches, Passed
<1>7. WholeLines'
  BY <1>0, <1>3, <1>4 DEF WholeLines, LineOf
<1>8. LinesOut'
  BY <1>0, <1>1, <1>4 DEF LinesOut, LineOf, DPlace
<1> QED
  BY <1>5, <1>6, <1>7, <1>8 DEF CachesInv

LEMMA BlocksHold ==
  ASSUME CachesAssumption, CachesInv, Heap
  PROVE  CachesInv'
<1>1. PICK size \in Sizes :
        \/ \E b \in Byte : Malloc(b, size) \/ Free(b, size)
        \/ \E l \in Line : alt_uncached_malloc(l, size) \/ alt_uncached_free(l, size)
  BY DEF Heap
<1>2. ASSUME NEW b \in Byte, Malloc(b, size) PROVE CachesInv'
  <2> DEFINE B == b .. b + size - 1
  <2>1. /\ \A c \in B : c \in Byte /\ owner[c] = "free"
        /\ owner' = [c \in Byte |-> IF c \in B THEN "cached" ELSE owner[c]]
        /\ dcache' = dcache /\ icache' = icache /\ call' = call
    BY <1>2 DEF Malloc, Given
  <2> HIDE DEF B
  <2>2. B \in SUBSET Byte /\ \A c \in B : owner[c] # "uncached"
    BY <2>1
  <2> QED
    BY <2>1, <2>2, OwnersHold
<1>3. ASSUME NEW b \in Byte, Free(b, size) PROVE CachesInv'
  <2> DEFINE B == b .. b + size - 1
  <2>1. /\ \A c \in B : c \in Byte /\ owner[c] = "cached"
        /\ owner' = [c \in Byte |-> IF c \in B THEN "free" ELSE owner[c]]
        /\ dcache' = dcache /\ icache' = icache /\ call' = call
    BY <1>3 DEF Free
  <2> HIDE DEF B
  <2>2. B \in SUBSET Byte /\ \A c \in B : owner[c] # "uncached"
    BY <2>1
  <2> QED
    BY <2>1, <2>2, OwnersHold
<1> QED
  BY <1>1, <1>2, <1>3, UncachedHolds, UncachedFreeHolds

LEMMA CachesStart == ASSUME CachesAssumption, CachesInit PROVE CachesInv
<1>1. /\ call = NoFlush /\ dcache = [p \in 0 .. DPlaces - 1 |-> None]
      /\ icache = [p \in 0 .. IPlaces - 1 |-> None]
      /\ owner = [b \in Byte |-> IF Sizes = {} THEN "cached" ELSE "free"]
  BY DEF CachesInit, DPlaces, IPlaces
<1>2. CachesTypeOK
  BY <1>1 DEF CachesTypeOK, Routines
<1>3. Bounded /\ Passed
  BY <1>1 DEF Bounded, Passed, NoFlush, Regional
<1>4. \A b \in Byte : owner[b] # "uncached"
  BY <1>1
<1> QED
  BY <1>2, <1>3, <1>4 DEF CachesInv, WholeLines, LinesOut

LEMMA CachesHold == ASSUME CachesAssumption, CachesInv, [CachesNext]_cacheVars PROVE CachesInv'
<1>1. ASSUME NEW b \in Byte, owner[b] = "cached", Load(b) \/ Store(b) PROVE CachesInv'
  <2>1. /\ LineOf(b) \notin call.region
        /\ dcache' = [dcache EXCEPT ![DPlace(LineOf(b))] = LineOf(b)]
        /\ icache' = icache /\ owner' = owner /\ call' = call
    BY <1>1 DEF Load, Store, MayTouch, DCached, heap
  <2> QED
    BY <1>1, <2>1, AccessHolds
<1>2. CASE UNCHANGED cacheVars
  BY <1>2 DEF cacheVars, CachesInv, CachesTypeOK, Bounded, Reaches, Passed, WholeLines, LinesOut
<1> QED
  BY <1>1, <1>2, FetchHolds, FlushesHold, LineHolds, ReturnHolds, BlocksHold DEF CachesNext

\* When a flush returns, no line of its region is left in the cache: for regions of every
\* alignment and length, caches and lines of every size, whatever interrupts load meanwhile.
THEOREM FlushIsComplete == ASSUME CachesAssumption PROVE CachesSpec => []Flushed
<1>1. CachesInv => Flushed
  BY LoopEnds DEF Flushed
<1> QED
  BY <1>1, CachesStart, CachesHold, PTL DEF CachesSpec

\* The lines of a block that was made uncached are not in the data cache, and do not come
\* back into it whatever the program loads and stores next to it: the block is whole lines.
THEOREM UncachedIsOut == ASSUME CachesAssumption PROVE CachesSpec => []UncachedStaysOut
<1>1. CachesInv => UncachedStaysOut
  BY DEF CachesInv, LinesOut, UncachedStaysOut
<1> QED
  BY <1>1, CachesStart, CachesHold, PTL DEF CachesSpec

\* Both together: what a routine has put out of a cache stays out for as long as it
\* was promised.
THEOREM NoneStays == ASSUME CachesAssumption PROVE CachesSpec => []NothingStays
  BY FlushIsComplete, UncachedIsOut, PTL DEF NothingStays

-----------------------------------------------------------------------------
(* DeviceNames: texts.                                                     *)

\* Bytes of a text, its end, and what is behind it.
LEMMA TextBytesAre ==
  ASSUME NEW t \in Texts, NEW b
  PROVE  /\ Len(t) \in Nat
         /\ \A i \in 0 .. Len(t) - 1 : t[i + 1] # NUL /\ ByteAt(t, b, i) = t[i + 1]
         /\ ByteAt(t, b, Len(t)) = NUL
<1>1. Len(t) \in Nat
  BY LenProperties DEF Texts
<1>2. ASSUME NEW i \in 0 .. Len(t) - 1 PROVE t[i + 1] # NUL
  <2>1. i + 1 \in 1 .. Len(t)
    BY <1>1
  <2>2. t[i + 1] \in STRING \ {NUL}
    BY <2>1, ElementOfSeq DEF Texts
  <2> QED
    BY <2>2
<1> QED
  BY <1>1, <1>2 DEF ByteAt

\* Texts are the same when they agree up to the end of one of them.
LEMMA ExactMatch ==
  ASSUME NEW t \in Texts, NEW n \in Texts, NEW b, NEW c
  PROVE  memcmp(t, b, n, c, Len(n) + 1) <=> t = n
<1>1. /\ Len(t) \in Nat /\ Len(n) \in Nat
      /\ \A i \in 0 .. Len(t) - 1 : t[i + 1] # NUL /\ ByteAt(t, b, i) = t[i + 1]
      /\ \A i \in 0 .. Len(n) - 1 : n[i + 1] # NUL /\ ByteAt(n, c, i) = n[i + 1]
      /\ ByteAt(t, b, Len(t)) = NUL /\ ByteAt(n, c, Len(n)) = NUL
  BY TextBytesAre
<1>2. ASSUME t = n PROVE memcmp(t, b, n, c, Len(n) + 1)
  <2> SUFFICES ASSUME NEW i \in 0 .. Len(n) PROVE ByteAt(t, b, i) = ByteAt(n, c, i)
    BY <1>1 DEF memcmp
  <2> QED
    BY <1>1, <1>2 DEF ByteAt
<1>3. ASSUME memcmp(t, b, n, c, Len(n) + 1) PROVE t = n
  <2>1. \A i \in 0 .. Len(n) : ByteAt(t, b, i) = ByteAt(n, c, i)
    BY <1>1, <1>3 DEF memcmp
  <2>2. ~(Len(t) < Len(n))
    <3> SUFFICES ASSUME Len(t) < Len(n) PROVE FALSE
      OBVIOUS
    <3>1. Len(t) \in 0 .. Len(n) /\ Len(t) \in 0 .. Len(n) - 1
      BY <1>1
    <3> QED
      BY <1>1, <2>1, <3>1
  <2>3. ~(Len(n) < Len(t))
    <3> SUFFICES ASSUME Len(n) < Len(t) PROVE FALSE
      OBVIOUS
    <3>1. Len(n) \in 0 .. Len(n) /\ Len(n) \in 0 .. Len(t) - 1
      BY <1>1
    <3> QED
      BY <1>1, <2>1, <3>1
  <2>4. Len(t) = Len(n)
    BY <1>1, <2>2, <2>3
  <2>5. ASSUME NEW i \in 1 .. Len(t) PROVE t[i] = n[i]
    <3>1. i - 1 \in 0 .. Len(n) /\ i - 1 \in 0 .. Len(n) - 1 /\ i - 1 \in 0 .. Len(t) - 1
          /\ (i - 1) + 1 = i
      BY <1>1, <2>4
    <3>2. ByteAt(t, b, i - 1) = ByteAt(n, c, i - 1)
      BY <2>1, <3>1
    <3>3. ByteAt(t, b, i - 1) = t[i] /\ ByteAt(n, c, i - 1) = n[i]
      BY <1>1, <3>1
    <3> QED
      BY <3>2, <3>3
  <2> QED
    BY <2>4, <2>5, SeqEqual DEF Texts
<1> QED
  BY <1>2, <1>3

LEMMA DeviceIs ==
  ASSUME NEW d, d.name \in Texts, name \in Texts, NEW b
  PROVE  IsDevice(d, b) <=> d.name = name
BY ExactMatch DEF IsDevice, strlen

\* The directory of a mount, and the names below it.
LEMMA UnderIs ==
  ASSUME NEW fs, fs.name \in Texts, fs.name # <<>>, name \in Texts, name \in FileNames, NEW b
  PROVE  IsUnder(fs, b) <=> name \in Below(fs.name)
<1> DEFINE t == fs.name
           L == MountLength(fs)
           dir == SubSeq(t, 1, L)
<1>1. /\ Len(t) \in Nat \ {0} /\ Len(name) \in Nat
      /\ \A i \in 0 .. Len(t) - 1 : t[i + 1] # NUL /\ ByteAt(t, b[1], i) = t[i + 1]
      /\ \A i \in 0 .. Len(name) - 1 : name[i + 1] # NUL /\ ByteAt(name, b[2], i) = name[i + 1]
      /\ ByteAt(name, b[2], Len(name)) = NUL
  <2>1. Len(t) # 0
    BY EmptySeq DEF Texts
  <2> QED
    <3>1. Len(t) \in Nat /\ Len(name) \in Nat
      BY TextBytesAre
    <3>2. /\ \A i \in 0 .. Len(t) - 1 : t[i + 1] # NUL /\ ByteAt(t, b[1], i) = t[i + 1]
          /\ \A i \in 0 .. Len(name) - 1 :
               name[i + 1] # NUL /\ ByteAt(name, b[2], i) = name[i + 1]
          /\ ByteAt(name, b[2], Len(name)) = NUL
      BY TextBytesAre
    <3> QED
      BY <2>1, <3>1, <3>2
<1>2. L \in 0 .. Len(t)
  <2>1. Len(t) \in Nat \ {0}
    BY <1>1
  <2>2. L = Len(t) \/ L = Len(t) - 1
    <3>1. CASE t[Len(t)] = "/"
      BY <3>1, <2>1 DEF MountLength, strlen
    <3>2. CASE t[Len(t)] # "/"
      BY <3>2, <2>1 DEF MountLength, strlen
    <3> QED
      BY <3>1, <3>2
  <2> HIDE DEF L
  <2> QED
    BY <2>1, <2>2
<1>3. t \in Seq(STRING \ {NUL}) /\ name \in Seq(STRING \ {NUL})
  BY DEF Texts
<1>4. dir = IF t[Len(t)] = "/" THEN SubSeq(t, 1, Len(t) - 1) ELSE t
  <2>1. CASE t[Len(t)] = "/"
    BY <1>1, <2>1 DEF MountLength, strlen
  <2>2. CASE t[Len(t)] # "/"
    <3>1. L = Len(t)
      BY <1>1, <2>2 DEF MountLength, strlen
    <3>2. SubSeq(t, 1, Len(t)) = t
      BY <1>1, <1>3, SubSeqFull
    <3> QED
      BY <2>2, <3>1, <3>2
  <2> QED
    BY <2>1, <2>2
<1>5. Len(dir) = L /\ \A i \in 1 .. L : dir[i] = t[i]
  BY <1>1, <1>2, <1>3, SubSeqProperties
<1>6. /\ dir \in Seq(STRING \ {NUL})
      /\ \A k \in 0 .. Len(name) : /\ SubSeq(name, 1, k) \in Seq(STRING \ {NUL})
                                   /\ Len(SubSeq(name, 1, k)) = k
                                   /\ \A i \in 1 .. k : SubSeq(name, 1, k)[i] = name[i]
  BY <1>1, <1>2, <1>3, SubSeqProperties
<1>7. name \in Below(t) <=> \E k \in 0 .. Len(name) :
                              SubSeq(name, 1, k) = dir /\ (k = Len(name) \/ name[k + 1] = "/")
  BY <1>4 DEF Below
<1> HIDE DEF L, dir
<1>8. IsUnder(fs, b) <=> /\ ByteAt(name, b[2], L) \in {"/", NUL}
                         /\ \A i \in 0 .. L - 1 : ByteAt(t, b[1], i) = ByteAt(name, b[2], i)
  BY DEF IsUnder, memcmp, L
<1>9. ASSUME IsUnder(fs, b) PROVE name \in Below(t)
  <2>1. ~(Len(name) < L)
    <3> SUFFICES ASSUME Len(name) < L PROVE FALSE
      OBVIOUS
    <3>1. Len(name) \in 0 .. L - 1 /\ Len(name) \in 0 .. Len(t) - 1
      BY <1>1, <1>2
    <3> QED
      BY <1>1, <1>8, <1>9, <3>1
  <2>2. L \in 0 .. Len(name)
    BY <1>1, <1>2, <2>1
  <2>3. ASSUME NEW i \in 1 .. L PROVE dir[i] = name[i]
    <3>1. i - 1 \in 0 .. L - 1 /\ i - 1 \in 0 .. Len(t) - 1 /\ i - 1 \in 0 .. Len(name) - 1
          /\ (i - 1) + 1 = i
      BY <1>1, <1>2, <2>2
    <3>2. ByteAt(t, b[1], i - 1) = ByteAt(name, b[2], i - 1)
      BY <1>8, <1>9, <3>1
    <3>3. ByteAt(t, b[1], i - 1) = t[i] /\ ByteAt(name, b[2], i - 1) = name[i]
      BY <1>1, <3>1
    <3> QED
      BY <1>5, <3>2, <3>3
  <2>4. SubSeq(name, 1, L) = dir
    <3>1. Len(SubSeq(name, 1, L)) = Len(dir)
      BY <1>5, <1>6, <2>2
    <3>2. \A i \in 1 .. Len(dir) : SubSeq(name, 1, L)[i] = dir[i]
      BY <1>5, <1>6, <2>2, <2>3
    <3>3. SubSeq(name, 1, L) \in Seq(STRING \ {NUL}) /\ dir \in Seq(STRING \ {NUL})
      BY <1>6, <2>2
    <3> HIDE DEF dir
    <3> QED
      BY <3>1, <3>2, <3>3, SeqEqual
  <2>5. L = Len(name) \/ name[L + 1] = "/"
    <3> SUFFICES ASSUME L # Len(name) PROVE name[L + 1] = "/"
      OBVIOUS
    <3>1. L \in 0 .. Len(name) - 1
      BY <1>1, <2>2
    <3> QED
      BY <1>1, <1>8, <1>9, <3>1
  <2> QED
    BY <1>7, <2>2, <2>4, <2>5
<1>10. ASSUME name \in Below(t) PROVE IsUnder(fs, b)
  <2>1. PICK k \in 0 .. Len(name) :
            SubSeq(name, 1, k) = dir /\ (k = Len(name) \/ name[k + 1] = "/")
    BY <1>7, <1>10
  <2>2. k = L
    BY <1>5, <1>6, <2>1
  <2>3. ByteAt(name, b[2], L) \in {"/", NUL}
    <3>1. CASE L = Len(name)
      BY <1>1, <3>1
    <3>2. CASE L # Len(name)
      <4>1. L \in 0 .. Len(name) - 1
        BY <1>1, <2>1, <2>2, <3>2
      <4> QED
        BY <1>1, <2>1, <2>2, <3>2, <4>1
    <3> QED
      BY <3>1, <3>2
  <2>4. ASSUME NEW i \in 0 .. L - 1 PROVE ByteAt(t, b[1], i) = ByteAt(name, b[2], i)
    <3>1. i + 1 \in 1 .. L /\ i \in 0 .. Len(t) - 1 /\ i \in 0 .. Len(name) - 1
      BY <1>1, <1>2, <2>1, <2>2
    <3>2. t[i + 1] = name[i + 1]
      BY <1>5, <1>6, <2>1, <2>2, <3>1
    <3> QED
      BY <1>1, <3>1, <3>2
  <2> QED
    BY <1>8, <2>3, <2>4
<1> QED
  BY <1>9, <1>10

-----------------------------------------------------------------------------
(* DeviceNames: the lists, and how far a search has come.                  *)

\* A list, the newest first; they are numbered from the last.
ListOK(l, n) ==
    /\ l \in Seq([name : n, number : Nat])
    /\ \A i \in 1 .. Len(l) : l[i].number = Len(l) - i

\* No entry in front of position i is the one.
NoneNamed(l, i) == i <= Len(l) + 1 /\ \A j \in 1 .. i - 1 : l[j].name # name
NoneAbove(l, i) == i <= Len(l) + 1 /\ \A j \in 1 .. i - 1 : name \notin Below(l[j].name)

Lists ==
    /\ ListOK(alt_dev_list, DeviceNameSet) /\ ListOK(alt_fs_list, MountNames)
    /\ ListOK(channels, DeviceNameSet)

Searching ==
    /\ list \in {"none", "devices", "mounts", "channels"} /\ at \in Nat \ {0}
    /\ list # "none" => name \in FileNames /\ result = <<"looking">>
    /\ list = "devices" => NoneNamed(alt_dev_list, at)
    /\ list = "mounts" => /\ NoneNamed(alt_dev_list, Len(alt_dev_list) + 1)
                          /\ NoneAbove(alt_fs_list, at)
    /\ list = "channels" => NoneNamed(channels, at) /\ wanted = name

OpenedIs == opened # NoEntry => opened \in Entries(channels) /\ opened.name = wanted

NamesInv == Lists /\ Searching /\ OpenedIs

LEMMA EntryIs ==
  ASSUME NEW l, NEW n, ListOK(l, n)
  PROVE  /\ Len(l) \in Nat /\ DOMAIN l = 1 .. Len(l)
         /\ \A i \in 1 .. Len(l) : l[i].name \in n /\ l[i].number = Len(l) - i
<1> DEFINE S == [name : n, number : Nat]
<1>1. l \in Seq(S) /\ \A i \in 1 .. Len(l) : l[i].number = Len(l) - i
  BY DEF ListOK
<1>2. ASSUME NEW i \in 1 .. Len(l) PROVE l[i].name \in n
  <2>1. l[i] \in S
    <3> HIDE DEF S
    <3> QED
      BY <1>1, ElementOfSeq
  <2> QED
    BY <2>1
<1>3. Len(l) \in Nat /\ DOMAIN l = 1 .. Len(l)
  <2> HIDE DEF S
  <2> QED
    BY <1>1, LenProperties
<1> QED
  BY <1>1, <1>2, <1>3

\* What is registered comes first, and nothing else changes.
LEMMA InsertHolds ==
  ASSUME NEW l, NEW n, ListOK(l, n), NEW e \in n
  PROVE  ListOK(alt_llist_insert(l, e), n) /\ Entries(l) \subseteq Entries(alt_llist_insert(l, e))
<1> DEFINE S == [name : n, number : Nat]
           first == <<Numbered(e, l)>>
           new == first \o l
<1>1. Len(l) \in Nat /\ l \in Seq(S) /\ DOMAIN l = 1 .. Len(l)
      /\ \A i \in 1 .. Len(l) : l[i].number = Len(l) - i
  BY LenProperties DEF ListOK
<1>2. Numbered(e, l) \in S /\ Numbered(e, l).number = Len(l)
  BY <1>1 DEF Numbered
<1>3. first \in Seq(S) /\ Len(first) = 1 /\ first[1] = Numbered(e, l)
  BY <1>2
<1>4. /\ new \in Seq(S) /\ Len(new) = Len(l) + 1
      /\ \A i \in 1 .. Len(l) + 1 : new[i] = IF i <= 1 THEN first[i] ELSE l[i - 1]
  <2>1. /\ first \o l \in Seq(S) /\ Len(first \o l) = Len(first) + Len(l)
        /\ \A i \in 1 .. Len(first) + Len(l) :
             (first \o l)[i] = IF i <= Len(first) THEN first[i] ELSE l[i - Len(first)]
    <3> HIDE DEF first, S
    <3> QED
      BY <1>1, <1>3, ConcatProperties
  <2>2. Len(first) + Len(l) = Len(l) + 1
    BY <1>1, <1>3
  <2> HIDE DEF first, S
  <2> QED
    BY <1>1, <1>3, <2>1, <2>2
<1>5. DOMAIN new = 1 .. Len(l) + 1
  BY <1>1, <1>4, LenProperties
<1>6. ASSUME NEW i \in 1 .. Len(new) PROVE new[i].number = Len(new) - i
  <2>1. CASE i = 1
    BY <1>1, <1>2, <1>3, <1>4, <2>1
  <2>2. CASE i # 1
    <3>1. i - 1 \in 1 .. Len(l) /\ ~(i <= 1)
      BY <1>1, <1>4, <2>2
    <3> QED
      BY <1>1, <1>4, <3>1
  <2> QED
    BY <2>1, <2>2
<1>7. ASSUME NEW i \in 1 .. Len(l) PROVE i + 1 \in DOMAIN new /\ new[i + 1] = l[i]
  <2>1. i + 1 \in 1 .. Len(l) + 1 /\ ~(i + 1 <= 1) /\ (i + 1) - 1 = i
    BY <1>1
  <2> QED
    BY <1>4, <1>5, <2>1
<1>8. alt_llist_insert(l, e) = new
  BY DEF alt_llist_insert
<1> HIDE DEF new
<1>9. ListOK(new, n)
  BY <1>4, <1>6 DEF ListOK
<1>10. Entries(l) \subseteq Entries(new)
  BY <1>1, <1>7 DEF Entries
<1> QED
  BY <1>8, <1>9, <1>10

\* The first that is found is the newest of all.
LEMMA FirstIsNewest ==
  ASSUME NEW l, NEW n, ListOK(l, n), NEW set \in SUBSET Entries(l), NEW i \in 1 .. Len(l),
         l[i] \in set, \A j \in 1 .. i - 1 : l[j] \notin set
  PROVE  Newest(set) = l[i]
<1>1. Len(l) \in Nat /\ DOMAIN l = 1 .. Len(l) /\ \A j \in 1 .. Len(l) : l[j].number = Len(l) - j
  BY EntryIs
<1>2. ASSUME NEW f \in set
      PROVE  \E j \in 1 .. Len(l) : f = l[j] /\ f.number = Len(l) - j /\ i <= j
  <2>1. PICK j \in 1 .. Len(l) : f = l[j]
    BY <1>1 DEF Entries
  <2>2. ~(j < i)
    <3> SUFFICES ASSUME j < i PROVE FALSE
      OBVIOUS
    <3>1. j \in 1 .. i - 1
      BY <1>1
    <3> QED
      BY <1>2, <2>1, <3>1
  <2> QED
    BY <1>1, <2>1, <2>2
<1>3. \A f \in set : f.number <= l[i].number
  BY <1>1, <1>2
<1>4. ASSUME NEW e \in set, \A f \in set : f.number <= e.number PROVE e = l[i]
  <2>1. PICK j \in 1 .. Len(l) : e = l[j] /\ e.number = Len(l) - j /\ i <= j
    BY <1>2, <1>4
  <2>2. Len(l) - i <= Len(l) - j
    BY <1>1, <1>4, <2>1
  <2>3. i = j
    BY <1>1, <2>1, <2>2
  <2> QED
    BY <2>1, <2>3
<1> QED
  BY <1>3, <1>4 DEF Newest

LEMMA NamedFirst ==
  ASSUME NEW l, NEW n, ListOK(l, n), at \in Nat \ {0}, at <= Len(l), NoneNamed(l, at),
         l[at].name = name
  PROVE  Named(l) # {} /\ Newest(Named(l)) = l[at]
<1>1. Len(l) \in Nat /\ DOMAIN l = 1 .. Len(l)
  BY EntryIs
<1>2. at \in 1 .. Len(l) /\ Named(l) \in SUBSET Entries(l)
  BY <1>1 DEF Named
<1>3. l[at] \in Named(l)
  BY <1>1, <1>2 DEF Named, Entries
<1>4. \A j \in 1 .. at - 1 : l[j] \notin Named(l)
  BY DEF Named, NoneNamed
<1> QED
  BY <1>2, <1>3, <1>4, FirstIsNewest

LEMMA NoneThere ==
  ASSUME NEW l, NEW n, ListOK(l, n), NEW i \in Nat, i > Len(l), NoneNamed(l, i)
  PROVE  Named(l) = {}
<1>1. Len(l) \in Nat /\ DOMAIN l = 1 .. Len(l)
  BY EntryIs
<1>2. \A j \in 1 .. Len(l) : j \in 1 .. i - 1
  BY <1>1
<1> QED
  BY <1>1, <1>2 DEF Named, NoneNamed, Entries

LEMMA MountFirst ==
  ASSUME ListOK(alt_fs_list, MountNames), at \in Nat \ {0}, at <= Len(alt_fs_list),
         NoneAbove(alt_fs_list, at), name \in Below(alt_fs_list[at].name)
  PROVE  Mounts # {} /\ Newest(Mounts) = alt_fs_list[at]
<1> DEFINE l == alt_fs_list
<1>1. Len(l) \in Nat /\ DOMAIN l = 1 .. Len(l)
  BY EntryIs
<1>2. at \in 1 .. Len(l) /\ Mounts \in SUBSET Entries(l)
  BY <1>1 DEF Mounts
<1>3. l[at] \in Mounts
  BY <1>1, <1>2 DEF Mounts, Entries
<1>4. \A j \in 1 .. at - 1 : l[j] \notin Mounts
  BY DEF Mounts, NoneAbove
<1> QED
  BY <1>2, <1>3, <1>4, FirstIsNewest

LEMMA NoMount ==
  ASSUME ListOK(alt_fs_list, MountNames), at \in Nat \ {0}, at > Len(alt_fs_list),
         NoneAbove(alt_fs_list, at)
  PROVE  Mounts = {}
<1> DEFINE l == alt_fs_list
<1>1. Len(l) \in Nat /\ DOMAIN l = 1 .. Len(l)
  BY EntryIs
<1>2. \A j \in 1 .. Len(l) : j \in 1 .. at - 1
  BY <1>1
<1> QED
  BY <1>1, <1>2 DEF Mounts, NoneAbove, Entries

-----------------------------------------------------------------------------
(* DeviceNames: the steps.                                                 *)

\* FindsOwner, of one step.
Finds ==
    /\ ~Idle /\ Idle' => result' = Owner
    /\ result'[1] \in Served =>
         result'[2] \in Entries(channels) /\ result'[2].name = wanted

LEMMA Answers ==
  ASSUME NEW e
  PROVE  /\ <<"EINVAL">>[1] \notin Served /\ <<"ENODEV">>[1] \notin Served
         /\ <<"ok">>[1] \notin Served /\ <<"looking">>[1] \notin Served
         /\ <<"ENOSYS">>[1] \notin Served /\ <<"declined">>[1] \notin Served
         /\ <<"device", e>>[1] \notin Served /\ <<"mount", e>>[1] \notin Served
  BY DEF Served, alt_dma_txchan, alt_dma_rxchan, alt_flash

\* Between two searches.
LEMMA IdleStep ==
  ASSUME NamesInv, Idle, UNCHANGED walk, Lists',
         Entries(channels) \subseteq Entries(channels'), UNCHANGED descriptor,
         result'[1] \notin Served
  PROVE  NamesInv' /\ Finds
<1>1. Searching'
  BY DEF NamesInv, Searching, Idle, walk
<1>2. OpenedIs'
  BY DEF NamesInv, OpenedIs, descriptor
<1> QED
  BY <1>1, <1>2 DEF NamesInv, Finds, Idle

LEMMA RegisterStep ==
  ASSUME NamesInv, NEW n,
         \/ alt_dev_reg(n) /\ n \in DeviceNameSet \cup {NoName}
         \/ alt_fs_reg(n) /\ n \in MountNames \cup {NoName}
         \/ channel_reg(n) /\ n \in DeviceNameSet \cup {NoName}
  PROVE  NamesInv' /\ Finds
<1>1. Idle /\ UNCHANGED walk /\ UNCHANGED descriptor
  BY DEF alt_dev_reg, alt_fs_reg, channel_reg
<1>2. result'[1] \notin Served
  <2>1. result' \in {<<"EINVAL">>, <<"ENODEV">>, <<"ok">>}
    BY DEF alt_dev_reg, alt_fs_reg, channel_reg
  <2> QED
    BY <2>1, Answers
<1>3. Lists' /\ Entries(channels) \subseteq Entries(channels')
  <2>1. CASE alt_dev_reg(n) /\ n \in DeviceNameSet \cup {NoName}
    <3>1. UNCHANGED <<alt_fs_list, channels>>
          /\ (alt_dev_list' = alt_dev_list
              \/ (n \in DeviceNameSet /\ alt_dev_list' = alt_llist_insert(alt_dev_list, n)))
      BY <2>1 DEF alt_dev_reg
    <3>2. ListOK(alt_dev_list', DeviceNameSet)
      BY <3>1, InsertHolds DEF NamesInv, Lists
    <3> QED
      BY <3>1, <3>2 DEF NamesInv, Lists
  <2>2. CASE alt_fs_reg(n) /\ n \in MountNames \cup {NoName}
    <3>1. UNCHANGED <<alt_dev_list, channels>>
          /\ (alt_fs_list' = alt_fs_list
              \/ (n \in MountNames /\ alt_fs_list' = alt_llist_insert(alt_fs_list, n)))
      BY <2>2 DEF alt_fs_reg
    <3>2. ListOK(alt_fs_list', MountNames)
      BY <3>1, InsertHolds DEF NamesInv, Lists
    <3> QED
      BY <3>1, <3>2 DEF NamesInv, Lists
  <2>3. CASE channel_reg(n) /\ n \in DeviceNameSet \cup {NoName}
    <3>1. UNCHANGED <<alt_dev_list, alt_fs_list>>
          /\ (channels' = channels
              \/ (n \in DeviceNameSet /\ channels' = alt_llist_insert(channels, n)))
      BY <2>3 DEF channel_reg
    <3>2. ListOK(channels', DeviceNameSet) /\ Entries(channels) \subseteq Entries(channels')
      BY <3>1, InsertHolds DEF NamesInv, Lists
    <3> QED
      BY <3>1, <3>2 DEF NamesInv, Lists
  <2> QED
    BY <2>1, <2>2, <2>3
<1> QED
  BY <1>1, <1>2, <1>3, IdleStep

LEMMA BeginStep ==
  ASSUME NamesInv, NEW n \in FileNames, Search(n) \/ channel_open(n)
  PROVE  NamesInv' /\ Finds
<1>1. /\ UNCHANGED names /\ name' = n /\ at' = 1 /\ result' = <<"looking">>
      /\ \/ list' = "devices" /\ UNCHANGED descriptor
         \/ list' = "channels" /\ opened' = NoEntry /\ wanted' = n
  BY DEF Search, channel_open
<1>2. Lists' /\ UNCHANGED <<alt_dev_list, alt_fs_list, channels>>
  BY <1>1 DEF NamesInv, Lists, names
<1>3. Len(alt_dev_list) \in Nat /\ Len(channels) \in Nat
  BY EntryIs DEF NamesInv, Lists
<1>4. NoneNamed(alt_dev_list, at)' /\ NoneNamed(channels, at)'
  BY <1>1, <1>2, <1>3 DEF NoneNamed
<1>5. Searching'
  BY <1>1, <1>4 DEF Searching
<1>6. OpenedIs'
  BY <1>1, <1>2 DEF NamesInv, OpenedIs, descriptor
<1>7. Finds
  BY <1>1, Answers DEF Finds, Idle
<1> QED
  BY <1>2, <1>5, <1>6, <1>7 DEF NamesInv

\* One entry is passed by.
LEMMA FurtherStep ==
  ASSUME NamesInv, ~Idle, NEW l, NEW i, Further(l, i), l \in {"devices", "mounts", "channels"},
         i \in Nat \ {0},
         l = "devices" => NoneNamed(alt_dev_list, i),
         l = "mounts" => /\ NoneNamed(alt_dev_list, Len(alt_dev_list) + 1)
                         /\ NoneAbove(alt_fs_list, i),
         l = "channels" => list = "channels" /\ NoneNamed(channels, i)
  PROVE  NamesInv' /\ Finds
<1>1. /\ list' = l /\ at' = i
      /\ UNCHANGED <<alt_dev_list, alt_fs_list, channels, name, result, opened, wanted>>
  BY DEF Further, names, descriptor
<1>2. Lists' /\ OpenedIs'
  BY <1>1 DEF NamesInv, Lists, OpenedIs
<1>3. /\ l = "devices" => NoneNamed(alt_dev_list, at)'
      /\ l = "mounts" => /\ NoneNamed(alt_dev_list, Len(alt_dev_list) + 1)'
                         /\ NoneAbove(alt_fs_list, at)'
      /\ l = "channels" => NoneNamed(channels, at)'
  BY <1>1 DEF NoneNamed, NoneAbove
<1>4. Searching'
  BY <1>1, <1>3 DEF NamesInv, Searching, Idle
<1>5. Finds
  BY <1>1, Answers DEF Finds, Idle, NamesInv, Searching
<1> QED
  BY <1>2, <1>4, <1>5 DEF NamesInv

\* The search has come to its end.
LEMMA FoundStep ==
  ASSUME NamesInv, ~Idle, NEW what, NEW e, Found(what, e), what \in {"device", "mount"},
         Owner = <<what, e>>, list = "channels" => e \in Entries(channels) /\ e.name = name
  PROVE  NamesInv' /\ Finds
<1>1. /\ result' = <<what, e>> /\ list' = "none"
      /\ opened' = IF list = "channels" THEN e ELSE opened
      /\ UNCHANGED <<alt_dev_list, alt_fs_list, channels, name, at, wanted>>
  BY DEF Found, names
<1>2. Lists' /\ Searching'
  BY <1>1 DEF NamesInv, Lists, Searching
<1>3. OpenedIs'
  BY <1>1 DEF NamesInv, OpenedIs, Searching
<1>4. Finds
  BY <1>1, Answers DEF Finds
<1> QED
  BY <1>2, <1>3, <1>4 DEF NamesInv

\* Names of lists and of files are texts.
LEMMA NamesAreTexts ==
  ASSUME DeviceNamesAssumption, NamesInv, ~Idle
  PROVE  /\ name \in FileNames /\ name \in Texts
         /\ \A i \in 1 .. Len(alt_dev_list) : alt_dev_list[i].name \in Texts
         /\ \A i \in 1 .. Len(channels) : channels[i].name \in Texts
         /\ \A i \in 1 .. Len(alt_fs_list) :
              alt_fs_list[i].name \in Texts /\ alt_fs_list[i].name # <<>>
<1>1. name \in FileNames
  BY DEF NamesInv, Searching, Idle
<1>2. /\ \A i \in 1 .. Len(alt_dev_list) : alt_dev_list[i].name \in DeviceNameSet
      /\ \A i \in 1 .. Len(channels) : channels[i].name \in DeviceNameSet
      /\ \A i \in 1 .. Len(alt_fs_list) : alt_fs_list[i].name \in MountNames
  BY EntryIs DEF NamesInv, Lists
<1> QED
  BY <1>1, <1>2 DEF DeviceNamesAssumption

\* One entry, of the list of devices or of channels.
LEMMA DeviceStep ==
  ASSUME DeviceNamesAssumption, NamesInv, InDevices \/ InChannels
  PROVE  NamesInv' /\ Finds
<1> DEFINE l == IF list = "devices" THEN alt_dev_list ELSE channels
<1>1. list \in {"devices", "channels"} /\ alt_find_dev(l)
  BY DEF InDevices, InChannels
<1>2. ~Idle /\ ListOK(l, DeviceNameSet) /\ at \in Nat \ {0} /\ NoneNamed(l, at)
  BY <1>1 DEF NamesInv, Lists, Searching, Idle
<1>3. Len(l) \in Nat /\ DOMAIN l = 1 .. Len(l)
  BY <1>2, EntryIs
<1>4. PICK beyond \in Chars \X Chars :
        IF IsDevice(l[at], beyond) THEN Found("device", l[at]) ELSE Further(list, at + 1)
  BY <1>1 DEF alt_find_dev
<1>5. at \in 1 .. Len(l)
  BY <1>1, <1>2, <1>3 DEF alt_find_dev
<1>6. IsDevice(l[at], beyond) <=> l[at].name = name
  BY <1>1, <1>2, <1>5, NamesAreTexts, DeviceIs
<1>7. CASE l[at].name = name
  <2>1. Named(l) # {} /\ Newest(Named(l)) = l[at]
    BY <1>2, <1>5, <1>7, NamedFirst
  <2>2. Owner = <<"device", l[at]>>
    BY <1>1, <2>1 DEF Owner
  <2>3. Found("device", l[at])
    BY <1>4, <1>6, <1>7
  <2>4. list = "channels" => l[at] \in Entries(channels) /\ l[at].name = name
    BY <1>3, <1>5, <1>7 DEF Entries
  <2> HIDE DEF l
  <2> QED
    BY <1>2, <2>2, <2>3, <2>4, FoundStep
<1>8. CASE l[at].name # name
  <2>1. Further(list, at + 1)
    BY <1>4, <1>6, <1>8
  <2>2. NoneNamed(l, at + 1)
    <3>1. \A j \in 1 .. (at + 1) - 1 : j \in 1 .. at - 1 \/ j = at
      BY <1>2
    <3>2. at + 1 <= Len(l) + 1
      BY <1>3, <1>5
    <3> QED
      BY <1>2, <1>8, <3>1, <3>2 DEF NoneNamed
  <2>3. /\ list = "devices" => NoneNamed(alt_dev_list, at + 1)
        /\ list = "channels" => NoneNamed(channels, at + 1)
    BY <2>2
  <2>4. at + 1 \in Nat \ {0}
    BY <1>2
  <2> QED
    BY <1>1, <1>2, <2>1, <2>3, <2>4, FurtherStep
<1> QED
  BY <1>7, <1>8

\* One mount.
LEMMA MountStep ==
  ASSUME DeviceNamesAssumption, NamesInv, alt_find_file
  PROVE  NamesInv' /\ Finds
<1> DEFINE l == alt_fs_list
<1>1. list = "mounts" /\ at <= Len(l)
  BY DEF alt_find_file
<1>2. /\ ~Idle /\ ListOK(l, MountNames) /\ at \in Nat \ {0} /\ NoneAbove(l, at)
      /\ NoneNamed(alt_dev_list, Len(alt_dev_list) + 1) /\ ListOK(alt_dev_list, DeviceNameSet)
  BY <1>1 DEF NamesInv, Lists, Searching, Idle
<1>3. Len(l) \in Nat /\ Len(alt_dev_list) \in Nat
  BY <1>2, EntryIs
<1>4. PICK beyond \in Chars \X Chars :
        IF IsUnder(l[at], beyond) THEN Found("mount", l[at]) ELSE Further("mounts", at + 1)
  BY DEF alt_find_file
<1>5. at \in 1 .. Len(l)
  BY <1>1, <1>2, <1>3
<1>6. IsUnder(l[at], beyond) <=> name \in Below(l[at].name)
  BY <1>2, <1>5, NamesAreTexts, UnderIs
<1>7. CASE name \in Below(l[at].name)
  <2>1. Mounts # {} /\ Newest(Mounts) = l[at]
    BY <1>1, <1>2, <1>7, MountFirst
  <2>2. Named(alt_dev_list) = {}
    <3>1. Len(alt_dev_list) + 1 > Len(alt_dev_list) /\ Len(alt_dev_list) + 1 \in Nat
      BY <1>3
    <3> QED
      BY <1>2, <3>1, NoneThere
  <2>3. Owner = <<"mount", l[at]>>
    BY <1>1, <2>1, <2>2 DEF Owner
  <2>4. Found("mount", l[at])
    BY <1>4, <1>6, <1>7
  <2> QED
    BY <1>1, <1>2, <2>3, <2>4, FoundStep
<1>8. CASE name \notin Below(l[at].name)
  <2>1. Further("mounts", at + 1)
    BY <1>4, <1>6, <1>8
  <2>2. NoneAbove(l, at + 1)
    <3>1. \A j \in 1 .. (at + 1) - 1 : j \in 1 .. at - 1 \/ j = at
      BY <1>2
    <3>2. at + 1 <= Len(l) + 1
      BY <1>3, <1>5
    <3> QED
      BY <1>2, <1>8, <3>1, <3>2 DEF NoneAbove
  <2>3. at + 1 \in Nat \ {0}
    BY <1>2
  <2> QED
    BY <1>2, <2>1, <2>2, <2>3, FurtherStep
<1> QED
  BY <1>7, <1>8

LEMMA NoDeviceStep ==
  ASSUME NamesInv, NoDevice
  PROVE  NamesInv' /\ Finds
<1>1. list = "devices" /\ at > Len(alt_dev_list) /\ Further("mounts", 1)
  BY DEF NoDevice
<1>2. /\ ~Idle /\ at \in Nat \ {0} /\ NoneNamed(alt_dev_list, at)
      /\ ListOK(alt_dev_list, DeviceNameSet) /\ ListOK(alt_fs_list, MountNames)
  BY <1>1 DEF NamesInv, Lists, Searching, Idle
<1>3. Len(alt_dev_list) \in Nat /\ Len(alt_fs_list) \in Nat
  BY <1>2, EntryIs
<1>4. at = Len(alt_dev_list) + 1
  BY <1>1, <1>2, <1>3 DEF NoneNamed
<1>5. NoneAbove(alt_fs_list, 1)
  BY <1>3 DEF NoneAbove
<1> QED
  BY <1>1, <1>2, <1>4, <1>5, FurtherStep

LEMMA NotFoundStep ==
  ASSUME NamesInv, NotFound
  PROVE  NamesInv' /\ Finds
<1>1. /\ result' = <<"ENODEV">> /\ list' = "none"
      /\ UNCHANGED <<alt_dev_list, alt_fs_list, channels, name, at, opened, wanted>>
  BY DEF NotFound, names, descriptor
<1>2. Lists' /\ Searching' /\ OpenedIs'
  BY <1>1 DEF NamesInv, Lists, Searching, OpenedIs
<1>3. at \in Nat \ {0}
  BY DEF NamesInv, Searching
<1>4. Owner = <<"ENODEV">>
  <2>1. CASE list = "mounts" /\ at > Len(alt_fs_list)
    <3>1. /\ NoneNamed(alt_dev_list, Len(alt_dev_list) + 1) /\ NoneAbove(alt_fs_list, at)
          /\ ListOK(alt_dev_list, DeviceNameSet) /\ ListOK(alt_fs_list, MountNames)
      BY <2>1 DEF NamesInv, Lists, Searching
    <3>2. Mounts = {}
      BY <1>3, <2>1, <3>1, NoMount
    <3>3. Len(alt_dev_list) \in Nat
      BY <3>1, EntryIs
    <3>4. Len(alt_dev_list) + 1 > Len(alt_dev_list) /\ Len(alt_dev_list) + 1 \in Nat
      BY <3>3
    <3>5. Named(alt_dev_list) = {}
      BY <3>1, <3>4, NoneThere
    <3> QED
      BY <2>1, <3>2, <3>5 DEF Owner
  <2>2. CASE list = "channels" /\ at > Len(channels)
    <3>1. NoneNamed(channels, at) /\ ListOK(channels, DeviceNameSet)
      BY <2>2 DEF NamesInv, Lists, Searching
    <3>2. Named(channels) = {}
      BY <1>3, <2>2, <3>1, NoneThere
    <3> QED
      BY <2>2, <3>2 DEF Owner
  <2> QED
    BY <2>1, <2>2 DEF NotFound
<1>5. Finds
  BY <1>1, <1>4, Answers DEF Finds
<1> QED
  BY <1>2, <1>5 DEF NamesInv

\* The calls that look for nothing.
LEMMA OtherStep ==
  ASSUME NamesInv,
         \/ Unsupported \/ DmaClose \/ alt_flash_open_dev
         \/ \E request \in Served : DmaRequest(request) \/ FlashRequest(request)
  PROVE  NamesInv' /\ Finds
<1>1. CASE \/ Unsupported \/ DmaClose
           \/ \E request \in Served :
                (DmaRequest(request) \/ FlashRequest(request)) /\ opened = NoEntry
  <2>1. Idle /\ UNCHANGED names /\ UNCHANGED walk /\ UNCHANGED descriptor
        /\ result' \in {<<"ENOSYS">>, <<"ok">>, <<"ENODEV">>}
    BY <1>1 DEF Unsupported, DmaClose, DmaRequest, FlashRequest, Answered
  <2>2. result'[1] \notin Served
    BY <2>1, Answers
  <2>3. Lists' /\ channels' = channels
    BY <2>1 DEF NamesInv, Lists, names
  <2> QED
    BY <2>1, <2>2, <2>3, IdleStep
<1>2. ASSUME NEW request \in Served, DmaRequest(request) \/ FlashRequest(request),
             opened # NoEntry
      PROVE  NamesInv' /\ Finds
  <2>1. Idle /\ UNCHANGED names /\ UNCHANGED walk /\ UNCHANGED descriptor
        /\ result' = <<request, opened>>
    BY <1>2 DEF DmaRequest, FlashRequest, Answered
  <2>2. Lists' /\ Searching' /\ OpenedIs'
    BY <2>1 DEF NamesInv, Lists, Searching, OpenedIs, names, walk, descriptor, Idle
  <2>3. result'[2] \in Entries(channels) /\ result'[2].name = wanted
    BY <1>2, <2>1 DEF NamesInv, OpenedIs
  <2> QED
    BY <2>1, <2>2, <2>3 DEF NamesInv, Finds
<1>3. CASE alt_flash_open_dev
  <2>1. Idle /\ UNCHANGED <<alt_dev_list, alt_fs_list, channels, name, list, at, wanted>>
        /\ opened' = NoEntry /\ result' = <<"declined">>
    BY <1>3 DEF alt_flash_open_dev, names, walk
  <2>2. Lists' /\ Searching' /\ OpenedIs'
    BY <2>1 DEF NamesInv, Lists, Searching, OpenedIs, Idle
  <2>3. Finds
    BY <2>1, Answers DEF Finds
  <2> QED
    BY <2>2, <2>3 DEF NamesInv
<1> QED
  BY <1>1, <1>2, <1>3

LEMMA NamesStep ==
  ASSUME DeviceNamesAssumption, NamesInv, NamesNext
  PROVE  NamesInv' /\ Finds
<1>1. \/ \E n : \/ alt_dev_reg(n) /\ n \in DeviceNameSet \cup {NoName}
                \/ alt_fs_reg(n) /\ n \in MountNames \cup {NoName}
                \/ channel_reg(n) /\ n \in DeviceNameSet \cup {NoName}
      \/ \E n \in FileNames : Search(n) \/ channel_open(n)
      \/ InDevices \/ InChannels \/ alt_find_file \/ NoDevice \/ NotFound
      \/ Unsupported \/ DmaClose \/ alt_flash_open_dev
      \/ \E request \in Served : DmaRequest(request) \/ FlashRequest(request)
  BY DEF NamesNext, FilesNext, ChannelsNext, ALT_LINK, ALT_UNLINK, ALT_RENAME, ALT_EXECVE
<1> QED
  BY <1>1, RegisterStep, BeginStep, DeviceStep, MountStep, NoDeviceStep, NotFoundStep, OtherStep

LEMMA NamesHold == ASSUME DeviceNamesAssumption PROVE NamesSpec => []NamesInv
<1>1. NamesInit => NamesInv
  <2> SUFFICES ASSUME NamesInit PROVE NamesInv
    OBVIOUS
  <2>1. \A n : ListOK(<<>>, n)
    <3> SUFFICES ASSUME NEW n PROVE ListOK(<<>>, n)
      OBVIOUS
    <3>1. <<>> \in Seq([name : n, number : Nat]) /\ Len(<<>>) = 0
      BY EmptySeq
    <3> QED
      BY <3>1 DEF ListOK
  <2>2. Lists
    BY <2>1 DEF NamesInit, Lists
  <2> QED
    BY <2>2 DEF NamesInit, NamesInv, Searching, OpenedIs
<1>2. NamesInv /\ [NamesNext]_nameVars => NamesInv'
  <2>1. CASE UNCHANGED nameVars
    BY <2>1 DEF nameVars, names, walk, descriptor, NamesInv, Lists, Searching, OpenedIs,
                NoneNamed, NoneAbove
  <2> QED
    BY <2>1, NamesStep
<1> QED
  BY <1>1, <1>2, PTL DEF NamesSpec

\* For texts of every length, lists of every length in every order and whatever lies
\* behind the texts in memory: a search ends with the newest of the devices, or of the
\* mounts, that the name belongs to, and the calls of a channel go to the one opened.
\* (alt_find_dev.c, alt_find_file.c, alt_open.c, alt_dma_txchan_open.c.)
THEOREM OwnerIsFound == ASSUME DeviceNamesAssumption PROVE NamesSpec => FindsOwner
<1>1. NamesInv /\ [NamesNext]_nameVars => [Finds]_nameVars
  BY NamesStep
<1> QED
  BY <1>1, NamesHold, PTL DEF NamesSpec, FindsOwner, Finds
=============================================================================
