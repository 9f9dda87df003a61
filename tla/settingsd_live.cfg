SPECIFICATION FairSpec
CONSTANTS
    k1 = k1  k2 = k2  v1 = v1  v2 = v2  d1 = d1  d2 = d2
    Unset = Unset
    Keys <- MCKeys
    Values <- MCValues
    Default <- MCDefault
    Daemons <- OneDaemon
    Supervised <- OneDaemon
    LateInstall = TRUE
    MaxMtime = 2
    MaxHups = 1
    MaxFailures = 1
    MaxKills = 1
PROPERTIES Converges SighupRepairs SigtermStops
CHECK_DEADLOCK FALSE
