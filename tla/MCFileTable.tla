---------------------------- MODULE MCFileTable ----------------------------
(***************************************************************************)
(* The devices of the system, and a file system that it does not have; and *)
(* on its own the search for the device or file system that a name stands  *)
(* for (DeviceNames).  A behaviour is one of them, while the other stands  *)
(* still.                                                                  *)
(***************************************************************************)
EXTENDS FileTable, DeviceNames, TLC

CONSTANTS null, uart, zip

Functionality == null :> {"write"} @@ uart :> {"close", "read", "write", "ioctl"}
                 @@ zip :> {"open", "close", "read", "lseek", "fstat"}
Either == {{}, {"NONBLOCK"}}

\* Names that are a part of each other, with and without a slash at the end.
SomeDevices == {<<"a">>, <<"/", "a">>, <<"/", "a", "b">>}
SomeMounts  == {<<"/">>, <<"/", "a">>, <<"/", "a", "/">>, <<"/", "a", "b">>}
SomeFiles   == {<<>>, <<"a">>, <<"a", "b">>, <<"/">>, <<"/", "a">>, <<"/", "a", "b">>,
                <<"/", "a", "/", "b">>, <<"/", "b", "/", "a">>}

ASSUME NamesAssumption == DeviceNamesAssumption

VARIABLE part    \* which of them runs

PartsInit ==
    /\ part \in {"files", "names", "channels"} /\ Init /\ NamesInit
    /\ part # "channels" => kind = "tx"

PartsNext ==
    \/ part = "files" /\ Next /\ UNCHANGED <<nameVars, part>>
    \/ part = "names" /\ FilesNext /\ UNCHANGED <<vars, part>>
    \/ part = "channels" /\ ChannelsNext /\ UNCHANGED <<vars, part>>

\* The properties are those that FileTable and DeviceNames state.
PartsSpec == PartsInit /\ [][PartsNext]_<<vars, nameVars, part>>
=============================================================================
