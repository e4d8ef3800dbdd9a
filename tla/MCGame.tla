------------------------------- MODULE MCGame -------------------------------
(* Small instances of the game: a board of four columns, on which blocks   *)
(* start in column 0 (SpawnShift = 3), a level that changes after one row, *)
(* and few sets of keys.                                                   *)
EXTENDS Game

BarOnly      == {0}
BarAndSquare == {0, 3}
BarAndT      == {0, 5}

AfterOneRow == <<1>>
TwoSpeeds   == <<2, 1>>
Fastest     == <<1, 1>>

NoGarbage  == {{}}
TopGarbage == {{}, {<<0, 0>>, <<2, 0>>}}

EveryKey   == {{}} \cup {{k} : k \in Keys} \cup {{"left", "rotate_left"}, {"down", "right"}}
TurnKeys   == {{}, {"rotate_left"}, {"rotate_right"}, {"hold"}}
FewKeys    == {{}, {"hold"}, {"left"}}
HoldKeys   == {{}, {"hold"}, {"left"}, {"right"}}

-----------------------------------------------------------------------------
(* The safety runs play one of three games, with the blocks and the keys   *)
(* of it: all of them at once are too many for TLC.                        *)

VARIABLE theme

Themes == {[pieces |-> {0}, keys |-> EveryKey],
           [pieces |-> {0, 5}, keys |-> TurnKeys],
           [pieces |-> {0, 3}, keys |-> HoldKeys]}

AllThree == {0, 3, 5}
AllKeys  == EveryKey \cup TurnKeys \cup HoldKeys

ThemeNext ==
    /\ UNCHANGED theme
    /\ \/ BetweenFrames
       \/ \E keys \in theme.keys : Frame(keys)
       \/ Reset /\ \E keys \in theme.keys : old_keys' = keys \cap EdgeKeys
    /\ block_idx' \in theme.pieces

\* The liveness run plays one game, whose clock and player are fair.
OneGame == [pieces |-> Pieces, keys |-> KeySets]

LiveInit == Init /\ theme = OneGame
LiveSpec ==
    /\ LiveInit
    /\ [][ThemeNext]_<<vars, theme>>
    /\ FrameClockRuns /\ KeysComeUp

ThemeInit == Init /\ theme \in Themes
ThemeSpec == ThemeInit /\ [][ThemeNext]_<<vars, theme>>
=============================================================================
