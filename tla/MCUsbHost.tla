----------------------------- MODULE MCUsbHost -----------------------------
(***************************************************************************)
(* Instances of UsbHost: the reports of one or two of the players' keys.   *)
(* The safety run has two chips in one: the slow one of the cfg, whose     *)
(* completions come at any moment, and a prompt one.                       *)
(***************************************************************************)
EXTENDS UsbHost

A == <<\h0004, 0, 0>>
AandD == <<\h0704, 0, 0>>
Space == <<\h002C, 0, 0>>

OneKey   == {NoKeys, A}
TwoKeys  == {NoKeys, A, AandD}
SpaceKey == {NoKeys, Space}

VARIABLE chip    \* which of the two it is

PromptHost == INSTANCE UsbHost
    WITH Reports <- OneKey, Faults <- FALSE, Prompt <- TRUE, SlowHands <- FALSE,
         PortMessages <- TRUE

BothNext ==
    \/ chip = "slow" /\ Next /\ chip' = chip
    \/ chip = "prompt" /\ PromptHost!Next /\ chip' = chip

BothInit == Init /\ chip \in {"slow", "prompt"}
BothSpec == BothInit /\ [][BothNext]_<<vars, chip>>

\* The other runs have the chip of their cfg alone.
OneInit == Init /\ chip = "cfg"
OneSpec == OneInit /\ [][Next /\ chip' = chip]_<<vars, chip>> /\ Fairness

-----------------------------------------------------------------------------
\* Registers keep their types, and with a chip that answers between two looks of the
\* program, only a configured keyboard is polled: no completion is taken for that of
\* another request.
\* (main.c lines 380-508: every request waits for TDListDone, whoever caused it.)
PromptPollsConfigured == TypeOK /\ (chip = "prompt" => PollsConfigured)

\* What the player does arrives: a keyboard that stays is polled in the end, keys held
\* show in the register and stay there, keys that were reported and let go of leave it,
\* and without a keyboard the program waits for one.  (main.c lines 528-637.)
KeysFollow == Reaches /\ HeldKeysShow /\ ReleaseShows /\ WaitsForKeyboard
=============================================================================
