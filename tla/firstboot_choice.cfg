SPECIFICATION FSpec
CONSTANTS
    d1 = d1
    Unset = "unset"
    Keys <- MCKeys
    Values <- TwoValues
    Default <- MCDefault
    Daemons <- OneDaemon
    Supervised <- OneDaemon
    LateInstall = FALSE
    MaxMtime = 3
    MaxHups = 0
    MaxFailures = 0
    MaxKills = 0
    Layouts <- TwoLayouts
    First = "gb"
    Keyboard <- MCKeyboard
    Appearance <- NoKey
    LastPage = 1
    KeyboardAt = 0
    MaxCalls = 1
    MaxStarts = 2
    MaxOpens = 0
INVARIANT ChoiceNotOverridden
CHECK_DEADLOCK FALSE
