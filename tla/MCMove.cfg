CONSTANTS
    Names <- MCNames
    Fold <- MCFold
    Hash <- MCHash
    AmigaName <- MCSame
    HostName <- MCSame
    VolumeName = "DF0"
    OneChar <- MCOneChar
    Hidden = {".h"}
    Contents <- MCContents
    Capacity = 9
    InitHost <- MCInitHost
    InitVolume <- MCInitVolume
    MaxCalls = 2
SPECIFICATION Spec
INVARIANTS
    SuccessIsComplete
    CallsSucceed
PROPERTIES
    NothingIsLost
    CallsEnd
CHECK_DEADLOCK FALSE
