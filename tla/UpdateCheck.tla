---------------------------- MODULE UpdateCheck ----------------------------
(***************************************************************************)
(* torrentos-update-check: looks for updates and notifies the user, but    *)
(* not again for six hours.                                                *)
(*                                                                         *)
(* The session starts the script once (hyprland.conf) and a timer of the   *)
(* user's systemd starts it again and again.  A stamp file tells them when *)
(* the user was last notified.  From the look at the stamp to the end the  *)
(* script takes no time that counts in hours.                              *)
(***************************************************************************)
EXTENDS Naturals

CONSTANTS
    Checkers,    \* who starts the script
    Timer,       \* the one of them that does so again and again
    Cooldown,    \* the hours (6)
    MaxFailures  \* bound: runs that fail or are killed

VARIABLES
    pc,        \* what each script is about to do
    pending,   \* there are updates
    age,       \* hours since the time in the stamp file, Cooldown if none
    quietFor,  \* hours since a notification was shown, Cooldown if none
    told,      \* auxiliary: one was shown that has the present updates
    stale,     \* auxiliary: the scripts that looked before they were there
    raced,     \* auxiliary: two scripts were between their looks and stamps
    failures   \* auxiliary: failures so far

vars == <<pc, pending, age, quietFor, told, stale, raced, failures>>

Steps == {"idle", "look", "throttle", "stamp", "send"}

CheckTypeOK ==
    /\ pc \in [Checkers -> Steps]
    /\ pending \in BOOLEAN /\ told \in BOOLEAN /\ raced \in BOOLEAN
    /\ stale \subseteq Checkers
    /\ age \in 0 .. Cooldown /\ quietFor \in 0 .. Cooldown
    /\ failures \in 0 .. MaxFailures

Init ==
    /\ pc = [c \in Checkers |-> "idle"]
    /\ pending = FALSE /\ told = FALSE /\ raced = FALSE
    /\ stale = {}
    /\ age = Cooldown /\ quietFor = Cooldown
    /\ failures = 0

---------------------------------------------------------------------------
At(c, step) == pc[c] = step
Goes(c, step) == pc' = [pc EXCEPT ![c] = step]

Starts(c) ==
    /\ At(c, "idle") /\ Goes(c, "look")
    /\ UNCHANGED <<pending, age, quietFor, told, stale, raced, failures>>

\* checkupdates and paru: without updates the script ends, the stamp as it is.
Looks(c) ==
    /\ At(c, "look")
    /\ Goes(c, IF pending THEN "throttle" ELSE "idle")
    /\ stale' = stale \ {c}
    /\ UNCHANGED <<pending, age, quietFor, told, raced, failures>>

\* Mutant: an hour too early.
ThrottlesLess(c) ==
    /\ At(c, "throttle")
    /\ Goes(c, IF age + 1 >= Cooldown THEN "stamp" ELSE "idle")
    /\ raced' = (raced \/ \E d \in Checkers \ {c} : At(d, "stamp"))
    /\ UNCHANGED <<pending, age, quietFor, told, stale, failures>>

\* Mutant: every look starts the silence anew.
ThrottlesAnew(c) ==
    /\ At(c, "throttle")
    /\ Goes(c, IF age >= Cooldown THEN "stamp" ELSE "idle")
    /\ age' = IF age >= Cooldown THEN age ELSE 0
    /\ raced' = (raced \/ \E d \in Checkers \ {c} : At(d, "stamp"))
    /\ UNCHANGED <<pending, quietFor, told, stale, failures>>

\* The time, the time in the stamp file, and the comparison.
Throttles(c) ==
    /\ At(c, "throttle")
    /\ Goes(c, IF age >= Cooldown THEN "stamp" ELSE "idle")
    /\ raced' = (raced \/ \E d \in Checkers \ {c} : At(d, "stamp"))
    /\ UNCHANGED <<pending, age, quietFor, told, stale, failures>>

Stamps(c) ==
    /\ At(c, "stamp") /\ Goes(c, "send")
    /\ age' = 0
    /\ UNCHANGED <<pending, quietFor, told, stale, raced, failures>>

Sends(c) ==
    /\ At(c, "send") /\ Goes(c, "idle")
    /\ quietFor' = 0
    /\ told' = (told \/ (pending /\ c \notin stale))
    /\ UNCHANGED <<pending, age, stale, raced, failures>>

\* notify-send fails, which the script ignores; the stamp cannot be written,
\* which ends it; the session ends and takes it along.
Fails(c) ==
    /\ ~At(c, "idle") /\ Goes(c, "idle")
    /\ failures < MaxFailures
    /\ failures' = failures + 1
    /\ UNCHANGED <<pending, age, quietFor, told, stale, raced>>

Script(c) == Looks(c) \/ Throttles(c) \/ Stamps(c) \/ Sends(c)

\* Time passes, for both clocks, up to the hours that matter.
Hour ==
    /\ \A c \in Checkers : pc[c] \in {"idle", "look", "throttle"}
    /\ age + quietFor < 2 * Cooldown
    /\ age' = IF age < Cooldown THEN age + 1 ELSE age
    /\ quietFor' = IF quietFor < Cooldown THEN quietFor + 1 ELSE quietFor
    /\ UNCHANGED <<pc, pending, told, stale, raced, failures>>

\* New packages appear; the user installs what there is.
Appear ==
    /\ ~pending /\ pending' = TRUE
    /\ told' = FALSE
    /\ stale' = Checkers
    /\ UNCHANGED <<pc, age, quietFor, raced, failures>>

Installed ==
    /\ pending /\ pending' = FALSE
    /\ UNCHANGED <<pc, age, quietFor, told, stale, raced, failures>>

Next ==
    \/ \E c \in Checkers : Starts(c) \/ Script(c) \/ Fails(c)
    \/ Hour \/ Appear \/ Installed

\* The timer fires again and again, a script that runs goes on, time passes.
Fairness ==
    /\ WF_vars(Hour) /\ WF_vars(Starts(Timer))
    /\ \A c \in Checkers : WF_vars(Script(c))

Spec == Init /\ [][Next]_vars /\ Fairness

---------------------------------------------------------------------------
(* Properties.                                                             *)

ShowsAgain == \E c \in Checkers : At(c, "send") /\ pc'[c] = "idle" /\ quietFor' = 0

\* "Only notify at most once per 6 hours", as the script says, unless two
\* scripts were between the look at the stamp and its renewal at a time: also
\* when they overlap elsewhere, fail or are killed.
OnceUnlessRaced == [][ShowsAgain => quietFor = Cooldown \/ raced]_vars

\* Updates that stay are told of, though a stamp may have been written for a
\* notification that was never shown.
TellsInTheEnd == pending ~> (told \/ ~pending)
=============================================================================
