SPECIFICATION ProgramsSpec
CONSTANTS
    Airs <- MCAirs
    MaxShown = 2
    MaxScans = 2
    MaxAttempts = 2
    MaxInstalls = 1
    MaxChanges = 1
    MaxThreads = 3
    Windows = {w1, w2}
    MaxClicks = 3
    Checkers = {session, timer}
    Timer = timer
    Cooldown = 3
    MaxFailures = 2
    Size = 2
    Bytes = {0, 1, 200}
    MemsetInt = 456
INVARIANTS
    BackgroundTypeOK RowsRight FreshRows LabelTellsRows StatusTellsConnection
    CloseMeansOver BannerTells
    ToolsTypeOK StatusTells OneAtATime SavesWhatWasOffered RightResult
PROPERTIES
    ThreadsAnswer CloseComes ComesBack OnceUnlessRaced TellsInTheEnd
CHECK_DEADLOCK FALSE
