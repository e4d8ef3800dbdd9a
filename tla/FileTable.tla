----------------------------- MODULE FileTable -----------------------------
(***************************************************************************)
(* The file descriptors of the board support package: alt_open and what it *)
(* calls, alt_close, alt_fcntl, alt_ioctl, the calls that pass to a driver,*)
(* and the redirection of the standard streams at the start.  One program, *)
(* no threads.                                                             *)
(***************************************************************************)
EXTENDS Integers

CONSTANTS
    ALT_MAX_FD,   \* descriptors, 32 in the system
    Devs,         \* alt_dev_list: /dev/null and, in the system, the JTAG UART
    FileSystems,  \* alt_fs_list, empty in the system
    Null,         \* alt_dev_null
    Console,      \* the device of the standard streams
    Provides,     \* the functions of every device and file system
    NoDev,        \* a null pointer
    Modes,        \* bound: the modes files are opened in
    Flags         \* bound: the other flags they are opened with or set to

Settable == {"APPEND", "NONBLOCK"}      \* ALT_FCNTL_FLAGS_MASK
Functions == {"open", "close", "read", "write", "lseek", "fstat", "ioctl"}

ASSUME FileTableAssumption ==
    /\ ALT_MAX_FD \in Nat /\ ALT_MAX_FD > 3
    /\ Null \in Devs /\ Console \in Devs
    /\ Devs \cap FileSystems = {} /\ NoDev \notin Devs \cup FileSystems
    /\ Provides \in [Devs \cup FileSystems -> SUBSET Functions]
    /\ Modes \subseteq {"RDONLY", "WRONLY", "RDWR"}
    /\ Flags \subseteq SUBSET Settable

VARIABLES
    alt_fd_list, alt_max_fd,
    pc,         \* "ready", or the place in alt_open and alt_io_redirect
    index,      \* the descriptor that alt_open is working on, or -1
    status,     \* what it has met with
    stream,     \* the standard streams that have had their turn to be redirected
    answer      \* of the last call

vars == <<alt_fd_list, alt_max_fd, pc, index, status, stream, answer>>

Fds == 0 .. ALT_MAX_FD - 1
Drivers == Devs \cup FileSystems
Empty == [dev |-> NoDev, acc |-> "RDONLY", bits |-> {}]
Has(d, fn) == fn \in Provides[d]
Ok == <<"ok">>

FirstFree(i) == /\ alt_fd_list[i].dev = NoDev
                /\ \A j \in Fds : j < i => alt_fd_list[j].dev # NoDev

\* Faulty form: the standard streams are given up as any other descriptor.
Released_All(list, i) == IF i >= 0 THEN [list EXCEPT ![i] = Empty] ELSE list

\* alt_release_fd: the standard streams are never given up.
Released(list, i) == IF i > 2 THEN [list EXCEPT ![i] = Empty] ELSE list

-----------------------------------------------------------------------------
(* alt_open.                                                               *)

Fails(error) ==
    /\ pc' = "failed" /\ index' = -1 /\ status' = error
    /\ UNCHANGED <<alt_fd_list, alt_max_fd>>

alt_get_fd(i) ==
    /\ FirstFree(i) /\ index' = i
    /\ alt_max_fd' = IF i > alt_max_fd THEN i ELSE alt_max_fd

\* d is the device or file system that the name stands for, if there is one.
Open(d, acc, bits) ==
    /\ pc = "ready"
    /\ \/ d = NoDev /\ Fails("ENODEV")
       \/ d # NoDev /\ (\A i \in Fds : alt_fd_list[i].dev # NoDev) /\ Fails("EMFILE")
       \/ \E i \in Fds :
            /\ d # NoDev /\ alt_get_fd(i)
            /\ alt_fd_list' = [alt_fd_list EXCEPT ![i] = [dev |-> d, acc |-> acc, bits |-> bits]]
            /\ pc' = IF d \in Devs THEN "locked" ELSE "open"
            /\ UNCHANGED status
    /\ UNCHANGED <<stream, answer>>

\* Another descriptor holds the device of i.
LockedBefore(last, i) ==
    \E j \in Fds : /\ j <= last /\ j # i /\ alt_fd_list[j].dev = alt_fd_list[i].dev
                   /\ "EXCL" \in alt_fd_list[j].bits

\* Faulty form: the search ends before the highest descriptor.
alt_file_locked_Short ==
    /\ pc = "locked"
    /\ alt_fd_list' = [alt_fd_list EXCEPT ![index].bits = @ \cup {"DEV"}]
    /\ IF LockedBefore(alt_max_fd - 1, index)
       THEN pc' = "failed" /\ status' = "EACCES"
       ELSE pc' = "open" /\ UNCHANGED status
    /\ UNCHANGED <<alt_max_fd, index, stream, answer>>

alt_file_locked ==
    /\ pc = "locked"
    /\ alt_fd_list' = [alt_fd_list EXCEPT ![index].bits = @ \cup {"DEV"}]
    /\ IF LockedBefore(alt_max_fd, index)
       THEN pc' = "failed" /\ status' = "EACCES"
       ELSE pc' = "open" /\ UNCHANGED status
    /\ UNCHANGED <<alt_max_fd, index, stream, answer>>

\* The driver's own open, if it has one, may fail.
DriverOpens ==
    /\ pc = "open"
    /\ \/ /\ pc' = IF stream < 3 THEN "copy" ELSE "ready"
          /\ index' = IF stream < 3 THEN index ELSE -1
          /\ answer' = IF stream < 3 THEN answer ELSE Ok
          /\ UNCHANGED status
       \/ /\ Has(alt_fd_list[index].dev, "open")
          /\ pc' = "failed" /\ status' = "driver"
          /\ UNCHANGED <<index, answer>>
    /\ UNCHANGED <<alt_fd_list, alt_max_fd, stream>>

OpenFailed ==
    /\ pc = "failed" /\ pc' = "ready"
    /\ alt_fd_list' = Released(alt_fd_list, index) /\ index' = -1
    /\ answer' = <<status>>
    /\ stream' = IF stream < 3 THEN stream + 1 ELSE stream
    /\ UNCHANGED <<alt_max_fd, status>>

-----------------------------------------------------------------------------
(* alt_io_redirect: standard output, input and error, in this order.       *)

Turn == <<1, 0, 2>>
Mode == <<"WRONLY", "RDONLY", "WRONLY">>

Redirect == stream < 3 /\ Open(Console, Mode[stream + 1], {})

\* What was opened is copied to the stream, and given back.
Copy ==
    /\ pc = "copy" /\ pc' = "ready"
    /\ alt_fd_list' = Released([alt_fd_list EXCEPT ![Turn[stream + 1]] = alt_fd_list[index]], index)
    /\ index' = -1 /\ stream' = stream + 1
    /\ UNCHANGED <<alt_max_fd, status, answer>>

-----------------------------------------------------------------------------
(* The calls of the program, of descriptors that it has open; of any other *)
(* than -1 the code would follow a null pointer.                           *)

Calls(f) == pc = "ready" /\ stream = 3 /\ f \in Fds /\ alt_fd_list[f].dev # NoDev
Unchanged == UNCHANGED <<alt_max_fd, pc, index, status, stream>>

OpenFile ==
    /\ stream = 3
    /\ \E d \in Drivers \cup {NoDev}, acc \in Modes, bits \in Flags : Open(d, acc, bits)

\* Every call but close is made of the -1 of an open that failed as well.
BadDescriptor ==
    /\ pc = "ready" /\ stream = 3
    /\ answer' = <<"EBADFD">>
    /\ UNCHANGED alt_fd_list /\ Unchanged

\* alt_close: the descriptor is given back, even if the driver says no.
Close(f) ==
    /\ Calls(f)
    /\ alt_fd_list' = Released(alt_fd_list, f)
    /\ answer' \in {Ok} \cup (IF Has(alt_fd_list[f].dev, "close") THEN {<<"driver">>} ELSE {})
    /\ Unchanged

\* alt_fcntl: F_GETFL, F_SETFL, or a command that it does not know.
GetFlags(f) ==
    /\ Calls(f)
    /\ answer' = <<"flags", alt_fd_list[f].acc, alt_fd_list[f].bits \ {"EXCL", "DEV"}>>
    /\ UNCHANGED alt_fd_list /\ Unchanged

SetFlags(f) ==
    /\ Calls(f)
    /\ \E bits \in Flags :
         alt_fd_list' = [alt_fd_list EXCEPT ![f].bits = (@ \ Settable) \cup bits]
    /\ answer' = Ok
    /\ Unchanged

NoCommand(f) ==
    /\ Calls(f) /\ answer' = <<"EINVAL">>
    /\ UNCHANGED alt_fd_list /\ Unchanged

\* alt_fd_lock: if no other descriptor below the highest has the device.
alt_fd_lock(f) ==
    /\ Calls(f) /\ "DEV" \in alt_fd_list[f].bits
    /\ IF \E i \in Fds : i < alt_max_fd /\ i # f /\ alt_fd_list[i].dev = alt_fd_list[f].dev
       THEN answer' = <<"EACCES">> /\ UNCHANGED alt_fd_list
       ELSE /\ alt_fd_list' = [alt_fd_list EXCEPT ![f].bits = @ \cup {"EXCL"}]
            /\ answer' = Ok
    /\ Unchanged

alt_fd_unlock(f) ==
    /\ Calls(f) /\ "DEV" \in alt_fd_list[f].bits
    /\ alt_fd_list' = [alt_fd_list EXCEPT ![f].bits = @ \ {"EXCL"}]
    /\ answer' = Ok
    /\ Unchanged

\* A call that the driver serves, if it has the function and the mode allows it.
Driver(f, fn, allowed, otherwise) ==
    /\ Calls(f)
    /\ answer' = IF allowed /\ Has(alt_fd_list[f].dev, fn)
                 THEN <<"called", alt_fd_list[f].dev, fn>> ELSE <<otherwise>>
    /\ UNCHANGED alt_fd_list /\ Unchanged

Read(f)   == Driver(f, "read", alt_fd_list[f].acc # "WRONLY", "EACCES")
Write(f)  == Driver(f, "write", alt_fd_list[f].acc # "RDONLY", "EACCES")
Lseek(f)  == Driver(f, "lseek", TRUE, "ENOTSUP")
Fstat(f)  == Driver(f, "fstat", TRUE, "character device")
Isatty(f) == Driver(f, "fstat", TRUE, "terminal")
Ioctl(f)  == Driver(f, "ioctl", TRUE, "ENOTTY")

\* alt_dev.c: the standard streams are /dev/null.
Init ==
    /\ alt_fd_list = [f \in Fds |-> IF f \in 0 .. 2 THEN [Empty EXCEPT !.dev = Null] ELSE Empty]
    /\ alt_max_fd = -1
    /\ pc = "ready" /\ index = -1 /\ status = "none" /\ stream = 0 /\ answer = Ok

Next ==
    \/ Redirect \/ Copy \/ OpenFile \/ alt_file_locked \/ DriverOpens \/ OpenFailed
    \/ BadDescriptor
    \/ \E f \in Fds :
         \/ Close(f) \/ GetFlags(f) \/ SetFlags(f) \/ NoCommand(f)
         \/ alt_fd_lock(f) \/ alt_fd_unlock(f)
         \/ Read(f) \/ Write(f) \/ Lseek(f) \/ Fstat(f) \/ Isatty(f) \/ Ioctl(f)

Spec == Init /\ [][Next]_vars

-----------------------------------------------------------------------------
Files == [dev : Drivers \cup {NoDev}, acc : {"RDONLY", "WRONLY", "RDWR"},
          bits : SUBSET (Settable \cup {"EXCL", "DEV"})]

TypeOK ==
    /\ alt_fd_list \in [Fds -> Files] /\ alt_max_fd \in -1 .. ALT_MAX_FD - 1
    /\ pc \in {"ready", "locked", "open", "copy", "failed"}
    /\ index \in -1 .. ALT_MAX_FD - 1
    /\ status \in {"none", "ENODEV", "EMFILE", "EACCES", "driver"}
    /\ stream \in 0 .. 3

\* "It indicates the highest file descriptor allocated": the searches that stop
\* there miss none.  (alt_get_fd.c, priv/alt_file.h.)
HighWater == \A f \in Fds : f > 2 /\ alt_fd_list[f].dev # NoDev => f <= alt_max_fd

\* Whatever the program opens, locks and closes, what it prints goes to the console
\* and what it reads comes from there.  (alt_release_fd.c, alt_io_redirect.c.)
StandardStreams ==
    stream = 3 /\ ~Has(Console, "open") =>
        \A f \in 0 .. 2 : /\ alt_fd_list[f].dev = Console
                          /\ alt_fd_list[f].acc = IF f = 0 THEN "RDONLY" ELSE "WRONLY"

\* The table is that of OpenFiles; a descriptor that alt_open is still working on
\* counts as free.
Visible == [f \in Fds |-> IF f = index THEN Empty ELSE alt_fd_list[f]]
Abstract == INSTANCE OpenFiles WITH files <- Visible
ImplementsOpenFiles == Abstract!Spec
=============================================================================
