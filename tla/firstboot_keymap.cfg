SPECIFICATION FSpec
CONSTANTS
    d1 = d1
    Unset = "unset"
    Keys <- MCKeys
    Values <- ThreeValues
    Default <- MCDefault
    Daemons <- NoDaemon
    Supervised <- NoDaemon
    LateInstall = FALSE
    MaxMtime = 3
    MaxHups = 0
    MaxFailures = 0
    MaxKills = 0
    Layouts <- ThreeLayouts
    First = "gb"
    Keyboard <- MCKeyboard
    Appearance <- NoKey
    LastPage = 2
    KeyboardAt = 1
    MaxCalls = 2
    MaxStarts = 2
    MaxOpens = 0
INVARIANT KeymapIsSelected
CHECK_DEADLOCK FALSE
