SPECIFICATION FairSpec
CONSTANTS
    k1 = k1  k2 = k2  v1 = v1  v2 = v2  d1 = d1  d2 = d2
    Unset = Unset
    Keys <- MCKeys
    Values <- MCValues
    Default <- MCDefaults
    Daemons <- OneDaemon
    Supervised <- OneDaemon
    LateInstall = FALSE
    MaxMtime = 2
    MaxHups = 0
    MaxFailures = 0
    MaxKills = 0
PROPERTY ReappliesWhenChanged
CHECK_DEADLOCK FALSE
