----------------------------- MODULE OpenFiles -----------------------------
(***************************************************************************)
(* What the file calls of the board support package promise: a call opens  *)
(* a file or fails and leaves no trace; the three standard streams are     *)
(* never lost; a device held for exclusive access is not opened again; a   *)
(* call reaches the driver of the device that was opened, in the mode in   *)
(* which it was opened.                                                    *)
(***************************************************************************)
EXTENDS Integers

CONSTANTS
    Fds,        \* the descriptors
    Devs,       \* the devices; a file of anything else belongs to a file system
    NoDev       \* the device of a closed file

VARIABLES
    files,      \* the open file of every descriptor, or Closed
    answer      \* of the last call

AccessModes == {"RDONLY", "WRONLY", "RDWR"}
Settable == {"APPEND", "NONBLOCK"}
Standard == 0 .. 2
Ok == <<"ok">>
Closed == [dev |-> NoDev, acc |-> "RDONLY", bits |-> {}]
IsOpen(f) == files[f].dev # NoDev

Held(d) == \E f \in Fds : files[f].dev = d /\ "EXCL" \in files[f].bits

Init ==
    /\ \E d \in Devs : files = [f \in Fds |-> IF f \in Standard THEN [Closed EXCEPT !.dev = d]
                                                                ELSE Closed]
    /\ answer = Ok

\* The lowest descriptor that is free.
Open(f, file) ==
    /\ ~IsOpen(f) /\ \A g \in Fds : g < f => IsOpen(g)
    /\ file.dev # NoDev /\ file.acc \in AccessModes
    /\ file.bits \cap {"EXCL", "DEV"} = IF file.dev \in Devs THEN {"DEV"} ELSE {}
    /\ file.dev \in Devs => ~Held(file.dev)
    /\ files' = [files EXCEPT ![f] = file]
    /\ answer' = Ok

\* At the start a standard stream is given its device.
Redirect(f, file) ==
    /\ f \in Standard /\ file.dev \in Devs /\ file.acc \in AccessModes /\ file.bits = {"DEV"}
    /\ ~Held(file.dev)
    /\ files' = [files EXCEPT ![f] = file]
    /\ UNCHANGED answer

\* Whatever the driver says; the standard streams stay open.
Close(f) ==
    /\ IsOpen(f)
    /\ files' = IF f \in Standard THEN files ELSE [files EXCEPT ![f] = Closed]
    /\ answer' \in {Ok, <<"driver">>}

SetFlags(f) ==
    /\ IsOpen(f)
    /\ \E b \in SUBSET Settable :
         files' = [files EXCEPT ![f].bits = (@ \ Settable) \cup b]
    /\ answer' = Ok

Exclusive(f) ==
    /\ IsOpen(f) /\ "DEV" \in files[f].bits
    /\ \/ files' = [files EXCEPT ![f].bits = @ \cup {"EXCL"}]
       \/ files' = [files EXCEPT ![f].bits = @ \ {"EXCL"}]
    /\ answer' = Ok

\* A call of a function of the driver.
Use(f, fn) ==
    /\ IsOpen(f)
    /\ fn = "read" => files[f].acc # "WRONLY"
    /\ fn = "write" => files[f].acc # "RDONLY"
    /\ answer' = <<"called", files[f].dev, fn>>
    /\ UNCHANGED files

\* A call that the driver has no part in.
Refuse ==
    /\ answer' # Ok /\ answer'[1] # "called"
    /\ UNCHANGED files

Next ==
    \/ \E f \in Fds : Close(f) \/ SetFlags(f) \/ Exclusive(f)
    \/ \E f \in Fds, fn \in {"read", "write", "lseek", "fstat", "ioctl"} : Use(f, fn)
    \/ \E f \in Fds : Open(f, files'[f]) \/ Redirect(f, files'[f])
    \/ Refuse

Spec == Init /\ [][Next]_<<files, answer>>
=============================================================================
