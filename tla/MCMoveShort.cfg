CONSTANTS
    Names <- MCNames
    Fold <- MCFold
    Hash <- MCHash
    AmigaName <- MCSame
    HostName <- MCSame
    VolumeName = "DF0"
    OneChar <- MCOneChar
    Hidden = {".h"}
    Contents <- MCContents
    Capacity = 5
    InitHost <- MCInitHost
    InitVolume <- MCInitVolume
    MaxCalls = 2
SPECIFICATION Spec
PROPERTY CutShortIsKept
CHECK_DEADLOCK FALSE
