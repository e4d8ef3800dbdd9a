SPECIFICATION PartsSpec
CONSTANTS
    null = null
    uart = uart
    zip = zip
    NoDev = NoDev
    ALT_MAX_FD = 5
    Devs = {null, uart}
    FileSystems = {zip}
    Null = null
    Console = uart
    Provides <- Functionality
    Modes = {"RDWR"}
    Flags <- Either
    DeviceNameSet <- SomeDevices
    MountNames <- SomeMounts
    FileNames <- SomeFiles
    MaxEach = 2
    MaxChannels = 2
INVARIANTS StandardStreams
PROPERTIES ImplementsOpenFiles FindsOwner
