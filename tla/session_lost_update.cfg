SPECIFICATION SSpec
CONSTANTS
    d1 = d1  d2 = d2
    Unset = unset
    NotSet = unset
    Unusable = {}
    Keys <- ProxyGroup
    Order <- ProxyOrder
    Values <- MCValues
    ValuesOf <- MCValuesOf
    Default <- MCDefault
    Daemons <- OneDaemon
    Supervised <- OneDaemon
    LateInstall = FALSE
    MaxMtime = 3
    MaxHups = 0
    MaxFailures = 0
    MaxKills = 0
PROPERTY OneKeyWritten
CHECK_DEADLOCK FALSE
