SPECIFICATION Spec
CONSTANTS
    k1 = k1  k2 = k2  v1 = v1  v2 = v2  d1 = d1  d2 = d2
    Unset = Unset
    Keys <- MCKeys
    Values <- MCValues
    Default <- MCDefault
    Daemons <- TwoDaemons
    Supervised <- OneDaemon
    LateInstall = FALSE
    MaxMtime = 2
    MaxHups = 1
    MaxFailures = 0
    MaxKills = 1
INVARIANTS TypeOK NoSilentMiss QuiescentInSync
CHECK_DEADLOCK FALSE
