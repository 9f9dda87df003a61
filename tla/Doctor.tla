------------------------------- MODULE Doctor -------------------------------
(***************************************************************************)
(* torrentos-doctor: a report of checks, one after the other, in a shell   *)
(* that ends the script as soon as a command fails (set -e).               *)
(*                                                                         *)
(* A check is a function of the script.  What it finds decides which       *)
(* commands it runs; the commands are named for what they say, "nofix"     *)
(* being the test for a fix to hint at where there is none, and "broken"   *)
(* one that should measure something and fails.                            *)
(***************************************************************************)
EXTENDS Integers, Sequences

VARIABLES
    quiet,    \* --quiet was given
    nvidia,   \* there is an NVIDIA card
    at,       \* the calls of the report made so far
    rest,     \* what the present check has still to run
    okCount,  \* check_wayland_env's ok_count
    warn, fail,  \* the counters; that of what passed is only printed
    running,  \* the script has not ended
    status    \* its exit status

vars == <<quiet, nvidia, at, rest, okCount, warn, fail, running, status>>

Commands == {"ok", "warn", "fail", "hint", "nofix", "count", "broken"}

---------------------------------------------------------------------------
(* What each check may run, one after the other.                           *)

\* check_service_active and every check of its shape.
OkOrWarn == {<<"ok">>, <<"warn", "hint">>}

\* check_disk_space and check_swap, which assign what df and free print.
OkOrBroken == OkOrWarn \cup {<<"broken">>}

\* check_writable, check_hyprlock, and check_nvidia_smi where there is a card.
OkOrFail == {<<"ok">>, <<"fail", "hint">>}

\* check_cmd and check_file, called without a fix.
OkOrNoFix == {<<"ok">>, <<"fail", "nofix">>}

\* Two or more findings behind each other: check_xdg_portal, check_pipewire.
Then(first, second) == {f \o s : f \in first, s \in second}

CheckSettingsFile == {<<"ok">>} \cup Then({<<"ok">>}, OkOrFail)

CheckFlatpak == {<<"warn", "hint">>} \cup Then({<<"ok">>}, OkOrWarn)

CheckGamemode == {<<"ok", "ok">>, <<"warn", "hint">>}

\* Both NVIDIA checks return at once where there is no card.
IfNvidia(outcomes) == IF nvidia THEN outcomes ELSE {<<>>}
CheckNvidia == IfNvidia(Then(OkOrFail, Then(OkOrWarn, OkOrWarn)))

\* One count for each of the three variables that is set.
CheckWaylandEnv ==
    {[i \in 1 .. n |-> "count"] \o (IF n = 3 THEN <<"ok">> ELSE <<"warn", "hint">>) :
        n \in 0 .. 3}

\* The calls at the end of the script.
Report ==
    [i \in 1 .. 10 |-> OkOrNoFix]
    \o <<OkOrNoFix, OkOrNoFix, OkOrFail, OkOrNoFix, OkOrNoFix, CheckSettingsFile>>
    \o [i \in 1 .. 10 |-> IF i \in {6, 7} THEN OkOrBroken ELSE OkOrWarn]
    \o <<CheckNvidia, IfNvidia(OkOrFail)>>
    \o <<CheckWaylandEnv, Then(OkOrWarn, OkOrWarn), Then(OkOrWarn, OkOrWarn), OkOrWarn>>
    \o <<OkOrWarn, OkOrFail, OkOrWarn>>
    \o <<CheckFlatpak, OkOrFail, CheckGamemode, OkOrWarn, OkOrFail, OkOrFail, OkOrFail>>

---------------------------------------------------------------------------
Init ==
    /\ quiet \in BOOLEAN /\ nvidia \in BOOLEAN
    /\ at = 0 /\ rest = <<>> /\ okCount = 0
    /\ warn = 0 /\ fail = 0
    /\ running = TRUE /\ status = 0

\* The next check looks at the system.
Call ==
    /\ running /\ rest = <<>> /\ at < Len(Report)
    /\ at' = at + 1
    /\ rest' \in Report[at + 1]
    /\ okCount' = 0
    /\ UNCHANGED <<quiet, nvidia, warn, fail, running, status>>

\* ok and hint end with the test whether they may print; (( ok_count++ )) is
\* the value before; warn and fail end with a printf.
Fails(command) ==
    \/ command \in {"ok", "hint"} /\ quiet
    \/ command \in {"nofix", "broken"}
    \/ command = "count" /\ okCount = 0

\* One command of a check; where it fails the script is over, with its status.
Run ==
    /\ running /\ rest # <<>>
    /\ warn' = warn + (IF Head(rest) = "warn" THEN 1 ELSE 0)
    /\ fail' = fail + (IF Head(rest) = "fail" THEN 1 ELSE 0)
    /\ okCount' = okCount + (IF Head(rest) = "count" THEN 1 ELSE 0)
    /\ running' = ~Fails(Head(rest))
    /\ status' = IF Fails(Head(rest)) THEN 1 ELSE 0
    /\ rest' = Tail(rest)
    /\ UNCHANGED <<quiet, nvidia, at>>

\* Mutant: a warning decides the status before a failure does.
SummaryWarnFirst ==
    /\ running /\ rest = <<>> /\ at = Len(Report)
    /\ running' = FALSE
    /\ status' = IF warn > 0 THEN 1 ELSE IF fail > 0 THEN 2 ELSE 0
    /\ UNCHANGED <<quiet, nvidia, at, rest, okCount, warn, fail>>

\* The summary, the suggestions of --fix, which print only, and the status.
Summary ==
    /\ running /\ rest = <<>> /\ at = Len(Report)
    /\ running' = FALSE
    /\ status' = IF fail > 0 THEN 2 ELSE IF warn > 0 THEN 1 ELSE 0
    /\ UNCHANGED <<quiet, nvidia, at, rest, okCount, warn, fail>>

Next == Call \/ Run \/ Summary

Spec == Init /\ [][Next]_vars

---------------------------------------------------------------------------
(* Properties.                                                             *)

DoctorTypeOK ==
    /\ quiet \in BOOLEAN /\ nvidia \in BOOLEAN /\ running \in BOOLEAN
    /\ at \in 0 .. Len(Report)
    /\ rest \in Seq(Commands)
    /\ okCount \in 0 .. 3
    /\ warn \in Nat /\ fail \in Nat
    /\ status \in 0 .. 2

\* Every check was called and came to its end.
Complete == at = Len(Report) /\ rest = <<>>

\* Where set -e ends the script early: at its first check under --quiet,
\* behind a failed check that has no fix, at the first session variable it
\* counts, or in a check that could not measure.
BrokenOff ==
    \/ quiet
    \/ fail > 0
    \/ okCount > 0
    \/ <<"broken">> \in Report[at]

\* The exit status against what was looked at.  0 is given for a whole report
\* without a warning or a failure only, 2 for a whole report with a failure,
\* and always for that.  1 is a whole report that has warnings and no failure,
\* or a script that was broken off in one of the four ways above and no other:
\* it does not tell "only warnings" from a report that was not finished.
StatusTells ==
    ~running =>
        /\ status = 0 => Complete /\ warn = 0 /\ fail = 0
        /\ status = 2 <=> Complete /\ fail > 0
        /\ status = 1 => IF Complete THEN fail = 0 /\ warn > 0 ELSE BrokenOff
=============================================================================
