----------------------------- MODULE MCSession -----------------------------
(* Small instances of Session for TLC: groups of keys that share a target. *)
EXTENDS Session, TLC

CONSTANTS d1, d2

OneDaemon  == {d1}
TwoDaemons == {d1, d2}

Booleans == {On, Off}
MCValuesOf ==
    [k \in Keys |-> IF k = "proxy" THEN {"", "host"} ELSE Booleans]
MCValues == UNION {MCValuesOf[k] : k \in Keys}
MCDefault ==
    [k \in Keys |-> IF k = "proxy" THEN "" ELSE Off]

ProxyGroup   == {"proxy-enabled", "proxy"}
ProxyOrder   == <<"proxy-enabled", "proxy">>
ProgramGroup == {"proxy-enabled", "proxy", "night-light"}
ProgramOrder == <<"night-light", "proxy-enabled", "proxy">>
=============================================================================
