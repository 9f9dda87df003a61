------------------------- MODULE MCSettingsDaemon -------------------------
(* Small instances of SettingsDaemon for TLC.                              *)
EXTENDS SettingsDaemon, TLC

CONSTANTS k1, k2, v1, v2, d1, d2

MCKeys == {k1, k2}
MCValues == {v1, v2}
\* Every dispatched key has a shipped default; one without is the harder case.
MCDefault == (k1 :> v1) @@ (k2 :> Unset)
MCDefaults == (k1 :> v1) @@ (k2 :> v1)
OneDaemon == {d1}
TwoDaemons == {d1, d2}
=============================================================================
