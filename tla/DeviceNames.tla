---------------------------- MODULE DeviceNames -----------------------------
(***************************************************************************)
(* The lists of devices and file systems, and how alt_open finds the one   *)
(* that a file name belongs to: a device by its whole name, a file system  *)
(* by the directory on which it is mounted.  DMA channels and flash         *)
(* memories have lists of their own.  Names are texts in memory,           *)
(* compared byte by byte; what follows a text may be anything.             *)
(***************************************************************************)
EXTENDS Integers, Sequences, FiniteSets

CONSTANTS
    DeviceNameSet, MountNames,   \* names of devices and of file systems, not empty
    FileNames,                   \* what is looked for
    MaxEach,                     \* bound: devices, and file systems, registered
    MaxChannels                  \* bound: entries of the other lists

NUL == "nul"
Texts == Seq(STRING \ {NUL})

DeviceNamesAssumption ==
    /\ DeviceNameSet \cup MountNames \cup FileNames \subseteq Texts
    /\ <<>> \notin DeviceNameSet \cup MountNames
    /\ MaxEach \in Nat /\ MaxChannels \in Nat

VARIABLES
    alt_dev_list, alt_fs_list,   \* the lists: names, numbered as they come
    channels,    \* one more: of receive channels, transmit channels or flash memories
    name,        \* the file that is looked for
    list, at,    \* the walk: through "devices", then "mounts", or "channels"; its position
    kind,        \* what the channels are: "tx", "rx" or "flash"
    opened,      \* the channel that was opened last
    wanted,      \* history: the name it was opened by
    result       \* of the last call

names == <<alt_dev_list, alt_fs_list, channels, kind>>
walk == <<name, list, at>>
descriptor == <<opened, wanted>>
nameVars == <<names, walk, descriptor, result>>

NoName == <<"null">>      \* a null pointer
NoEntry == [name |-> NoName, number |-> 0]
Idle == list = "none"
Chars == {"/", "a", "b", NUL}

-----------------------------------------------------------------------------
(* Texts.                                                                  *)

\* The byte at offset i of a text that is followed by the given bytes.
ByteAt(text, beyond, i) ==
    IF i < Len(text) THEN text[i + 1] ELSE IF i = Len(text) THEN NUL ELSE beyond

strlen(text) == Len(text)

memcmp(t1, beyond1, t2, beyond2, len) ==
    \A i \in 0 .. len - 1 : ByteAt(t1, beyond1, i) = ByteAt(t2, beyond2, i)

-----------------------------------------------------------------------------
(* Registration, during the start: there is one thread.                    *)

Numbered(n, l) == [name |-> n, number |-> Len(l)]

\* As the first element of the list.
alt_llist_insert(l, n) == <<Numbered(n, l)>> \o l

alt_dev_reg(n) ==
    /\ Idle /\ Len(alt_dev_list) < MaxEach
    /\ IF n = NoName THEN result' = <<"EINVAL">> /\ UNCHANGED alt_dev_list
                     ELSE result' = <<"ok">> /\ alt_dev_list' = alt_llist_insert(alt_dev_list, n)
    /\ UNCHANGED <<alt_fs_list, channels, kind, walk, descriptor>>

alt_fs_reg(n) ==
    /\ Idle /\ Len(alt_fs_list) < MaxEach
    /\ IF n = NoName THEN result' = <<"ENODEV">> /\ UNCHANGED alt_fs_list
                     ELSE result' = <<"ok">> /\ alt_fs_list' = alt_llist_insert(alt_fs_list, n)
    /\ UNCHANGED <<alt_dev_list, channels, kind, walk, descriptor>>

\* alt_dma_rxchan_reg, alt_dma_txchan_reg, alt_flash_device_register.
channel_reg(n) ==
    /\ Idle /\ Len(channels) < MaxChannels
    /\ IF n = NoName THEN result' = <<"EINVAL">> /\ UNCHANGED channels
                     ELSE result' = <<"ok">> /\ channels' = alt_llist_insert(channels, n)
    /\ UNCHANGED <<alt_dev_list, alt_fs_list, kind, walk, descriptor>>

-----------------------------------------------------------------------------
(* The search.                                                             *)

Search(n) ==
    /\ Idle /\ name' = n /\ list' = "devices" /\ at' = 1
    /\ result' = <<"looking">> /\ UNCHANGED <<names, descriptor>>

\* alt_dma_rxchan_open, alt_dma_txchan_open, alt_flash_open_dev.
channel_open(n) ==
    /\ Idle /\ name' = n /\ list' = "channels" /\ at' = 1
    /\ result' = <<"looking">> /\ opened' = NoEntry /\ wanted' = n
    /\ UNCHANGED names

\* Faulty form: without the end of the text.
IsDevice_Prefix(dev, beyond) ==
    memcmp(dev.name, beyond[1], name, beyond[2], strlen(name))

\* Both texts, with the byte that ends them.
IsDevice(dev, beyond) ==
    memcmp(dev.name, beyond[1], name, beyond[2], strlen(name) + 1)

\* A slash at the end of the file system's name does not count.
MountLength(fs) ==
    strlen(fs.name) - IF fs.name[Len(fs.name)] = "/" THEN 1 ELSE 0

\* The byte behind the directory's name is read first, which may be behind
\* the end of a shorter file name.
IsUnder(fs, beyond) ==
    /\ ByteAt(name, beyond[2], MountLength(fs)) \in {"/", NUL}
    /\ memcmp(fs.name, beyond[1], name, beyond[2], MountLength(fs))

Found(what, entry) ==
    /\ result' = <<what, entry>> /\ list' = "none"
    /\ opened' = IF list = "channels" THEN entry ELSE opened
    /\ UNCHANGED <<names, name, at, wanted>>

Further(l, i) ==
    /\ list' = l /\ at' = i /\ UNCHANGED <<names, name, result, descriptor>>

alt_find_dev(llist) ==
    /\ at <= Len(llist)
    /\ \E beyond \in Chars \X Chars :
         IF IsDevice(llist[at], beyond) THEN Found("device", llist[at])
                                        ELSE Further(list, at + 1)

InDevices == list = "devices" /\ alt_find_dev(alt_dev_list)
InChannels == list = "channels" /\ alt_find_dev(channels)

\* No device has the name: it may be that of a file.
NoDevice == list = "devices" /\ at > Len(alt_dev_list) /\ Further("mounts", 1)

alt_find_file ==
    /\ list = "mounts" /\ at <= Len(alt_fs_list)
    /\ \E beyond \in Chars \X Chars :
         IF IsUnder(alt_fs_list[at], beyond) THEN Found("mount", alt_fs_list[at])
                                             ELSE Further("mounts", at + 1)

\* For a flash memory there is no error code, only no device.
NotFound ==
    /\ \/ list = "mounts" /\ at > Len(alt_fs_list)
       \/ list = "channels" /\ at > Len(channels)
    /\ result' = <<"ENODEV">> /\ list' = "none" /\ UNCHANGED <<names, name, at, descriptor>>

\* The other calls that take the name of a file look for nothing.
Unsupported == Idle /\ result' = <<"ENOSYS">> /\ UNCHANGED <<names, walk, descriptor>>
ALT_LINK    == Unsupported
ALT_UNLINK  == Unsupported
ALT_RENAME  == Unsupported
ALT_EXECVE  == Unsupported

-----------------------------------------------------------------------------
(* The calls of an open channel or flash memory go to its driver.          *)

alt_dma_txchan == {"send", "space", "ioctl"}
alt_dma_rxchan == {"prepare", "ioctl", "depth"}
alt_flash == {"lock", "write", "read", "get_info", "erase_block", "write_block", "close"}
Served == alt_dma_txchan \cup alt_dma_rxchan \cup alt_flash

Answered(call) ==
    /\ Idle /\ result' = IF opened = NoEntry THEN <<"ENODEV">> ELSE <<call, opened>>
    /\ UNCHANGED <<names, walk, descriptor>>

\* The depth is read from the channel, without a look whether there is one.
DmaRequest(call) ==
    /\ \/ kind = "tx" /\ call \in alt_dma_txchan
       \/ kind = "rx" /\ call \in alt_dma_rxchan
    /\ call = "depth" => opened # NoEntry
    /\ Answered(call)

\* So are these; a flash memory may be closed that was not found.
FlashRequest(call) ==
    /\ kind = "flash" /\ call \in alt_flash
    /\ IF opened # NoEntry THEN Answered(call)
       ELSE Idle /\ call = "close" /\ result' = <<"ok">> /\ UNCHANGED <<names, walk, descriptor>>

\* The driver of a DMA channel is not told, and the channel stays open.
DmaClose ==
    /\ Idle /\ kind # "flash" /\ result' = <<"ok">> /\ UNCHANGED <<names, walk, descriptor>>

\* The device's own open function may decline.
alt_flash_open_dev ==
    /\ Idle /\ kind = "flash" /\ result = <<"device", opened>>
    /\ opened' = NoEntry /\ result' = <<"declined">>
    /\ UNCHANGED <<names, walk, wanted>>

NamesInit ==
    /\ alt_dev_list = <<>> /\ alt_fs_list = <<>> /\ channels = <<>>
    /\ kind \in {"tx", "rx", "flash"} /\ opened = NoEntry /\ wanted = <<>>
    /\ name = <<>> /\ list = "none" /\ at = 1 /\ result = <<"ok">>

FilesNext ==
    \/ \E n \in DeviceNameSet \cup {NoName} : alt_dev_reg(n)
    \/ \E n \in MountNames \cup {NoName} : alt_fs_reg(n)
    \/ \E n \in FileNames : Search(n)
    \/ InDevices \/ NoDevice \/ alt_find_file \/ NotFound
    \/ ALT_LINK \/ ALT_UNLINK \/ ALT_RENAME \/ ALT_EXECVE

ChannelsNext ==
    \/ \E n \in DeviceNameSet \cup {NoName} : channel_reg(n)
    \/ \E n \in FileNames : channel_open(n)
    \/ InChannels \/ NotFound \/ alt_flash_open_dev
    \/ DmaClose \/ \E call \in Served : DmaRequest(call) \/ FlashRequest(call)

NamesNext == FilesNext \/ ChannelsNext

NamesSpec == NamesInit /\ [][NamesNext]_nameVars

-----------------------------------------------------------------------------
(* What belongs to what.                                                   *)

Entries(l) == {l[i] : i \in DOMAIN l}
Newest(set) == CHOOSE e \in set : \A f \in set : f.number <= e.number

\* The path of a mount ends in front of a last slash; below it are the names
\* that go on with a slash or not at all.
Below(path) ==
    LET dir == IF path[Len(path)] = "/" THEN SubSeq(path, 1, Len(path) - 1) ELSE path
    IN {n \in FileNames : \E k \in 0 .. Len(n) :
            SubSeq(n, 1, k) = dir /\ (k = Len(n) \/ n[k + 1] = "/")}

Named(l) == {e \in Entries(l) : e.name = name}
Mounts == {e \in Entries(alt_fs_list) : name \in Below(e.name)}

Owner == IF list = "channels"
           THEN IF Named(channels) # {} THEN <<"device", Newest(Named(channels))>>
                ELSE <<"ENODEV">>
         ELSE IF Named(alt_dev_list) # {} THEN <<"device", Newest(Named(alt_dev_list))>>
         ELSE IF Mounts # {} THEN <<"mount", Newest(Mounts)>>
         ELSE <<"ENODEV">>

\* A search ends with the device of exactly that name, or else, unless it was for
\* a channel or a flash memory, with a file system mounted on a directory above
\* the file, the newest of several, and fails if there is none; the bytes behind
\* the texts make no difference.  The calls of a channel go to the driver of the name
\* that it was opened by, and to none after an open that failed.
\* (alt_find_dev.c: "name must be an exact match"; alt_find_file.c.)
FindsOwner ==
    [][/\ ~Idle /\ Idle' => result' = Owner
       /\ result'[1] \in Served =>
            result'[2] \in Entries(channels) /\ result'[2].name = wanted]_nameVars
=============================================================================
