-------------------------- MODULE SettingsDaemon --------------------------
(***************************************************************************)
(* torrentos-settingsd: the daemon that keeps the running session in step  *)
(* with ~/.config/torrentos/settings.toml                                  *)
(* (archiso/airootfs/usr/lib/torrentos/settingsd).                         *)
(*                                                                         *)
(* It polls the file's mtime, re-reads the file when the stamp moved and   *)
(* pushes the keys that changed through the applier, one call per key.     *)
(* SIGHUP forces a full pass, SIGTERM ends the loop.  A session runs more  *)
(* than one instance: hyprland.conf starts one with exec-once and systemd  *)
(* starts another from the user unit, so the model has a set of daemons    *)
(* that share the file and the session and nothing else.                   *)
(***************************************************************************)
EXTENDS Integers

CONSTANTS
    Keys,        \* dotted setting names
    Values,      \* the values a key can have
    Unset,       \* "this layer does not mention the key"
    Default,     \* Default[k]: what /etc/torrentos/default-settings.toml says
    Daemons,     \* the running copies of settingsd
    Supervised,  \* those started by systemd, with Restart=on-failure
    LateInstall, \* may the torrentos-settings package arrive after login?
    MaxMtime,    \* bound: stamps the file can carry
    MaxHups,     \* bound: SIGHUPs sent
    MaxFailures, \* bound: applier.apply calls that raise
    MaxKills     \* bound: daemons killed; below StartLimitBurst (3)

ASSUME DaemonAssumption ==
    /\ Unset \notin Values
    /\ Default \in [Keys -> Values \cup {Unset}]
    /\ Supervised \subseteq Daemons
    /\ LateInstall \in BOOLEAN
    /\ MaxMtime \in Nat /\ MaxHups \in Nat
    /\ MaxFailures \in Nat /\ MaxKills \in Nat

VARIABLES
    file,      \* the overrides in settings.toml (all Unset: empty or missing)
    mtime,     \* its modification stamp, 0 while the file does not exist
    torn,      \* a writer that truncates in place has not written yet
    live,      \* live[k]: the value the session was last given for k
    package,   \* how much of /usr/share/torrentos-settings is on the disk
    pc,        \* where each daemon is in main()
    onPath,    \* the library directory is on its sys.path
    applier,   \* it holds the applier module
    cur,       \* its current_flat
    todo,      \* the keys its pass has still to apply
    last,      \* its last_mtime
    reload,    \* its _reload_flag
    running,   \* its _running
    full,      \* auxiliary: it has begun a full pass since it started
    missed,    \* auxiliary: a write fell between a full pass's read and stamp
    hups, failures, kills  \* the bounded events so far

fileVars   == <<file, mtime, torn>>
budgetVars == <<hups, failures, kills>>
daemonVars == <<pc, onPath, applier, cur, todo, last, reload, running, full,
                missed>>
vars == <<fileVars, live, package, daemonVars, budgetVars>>

Settable == Values \cup {Unset}
Flats    == [Keys -> Settable]
Empty    == [k \in Keys |-> Unset]

\* _flatten(_deep_merge(defaults, user)) at this instant; a file that is
\* missing, empty or unparsable reads as {}.
MergedFlat ==
    [k \in Keys |-> IF file[k] = Unset THEN Default[k] ELSE file[k]]

\* The keys a full pass walks over.
AllKeys(flat) == {k \in Keys : flat[k] # Unset}

\* Mutant: a key counts as changed when it differs from its default.
ChangedFromDefault(old, new) == {k \in AllKeys(new) : Default[k] # new[k]}

\* The keys a changed-only pass walks over.
ChangedKeys(old, new) == {k \in AllKeys(new) : old[k] # new[k]}

\* pacman creates the package's directory before it has all its modules.
Packages == {"absent", "unpacking", "installed"}

Ended  == {"stopped", "killed"}
Labels == {"waiting", "importing", "read_all", "apply_all", "stamp",
           "sleep", "read_changed", "apply_changed"} \cup Ended

\* A full pass between reading the file and stamping it.
ReadNotStamped == {"apply_all", "stamp"}

TypeOK ==
    /\ file \in Flats
    /\ mtime \in Nat
    /\ torn \in BOOLEAN
    /\ live \in Flats
    /\ package \in Packages
    /\ pc \in [Daemons -> Labels]
    /\ onPath \in [Daemons -> BOOLEAN]
    /\ applier \in [Daemons -> BOOLEAN]
    /\ cur \in [Daemons -> Flats]
    /\ todo \in [Daemons -> SUBSET Keys]
    /\ last \in [Daemons -> Nat]
    /\ reload \in [Daemons -> BOOLEAN]
    /\ running \in [Daemons -> BOOLEAN]
    /\ full \in [Daemons -> BOOLEAN]
    /\ missed \in [Daemons -> BOOLEAN]
    /\ hups \in Nat /\ failures \in Nat /\ kills \in Nat

Init ==
    /\ \/ file = Empty /\ mtime = 0
       \/ file \in Flats /\ mtime = 1
    /\ torn = FALSE
    /\ live = Empty
    /\ package \in (IF LateInstall THEN Packages ELSE {"installed"})
    /\ pc = [d \in Daemons |-> "waiting"]
    /\ onPath = [d \in Daemons |-> package # "absent"]
    /\ applier = [d \in Daemons |-> FALSE]
    /\ cur = [d \in Daemons |-> Empty]
    /\ todo = [d \in Daemons |-> {}]
    /\ last = [d \in Daemons |-> 0]
    /\ reload = [d \in Daemons |-> FALSE]
    /\ running = [d \in Daemons |-> TRUE]
    /\ full = [d \in Daemons |-> FALSE]
    /\ missed = [d \in Daemons |-> FALSE]
    /\ hups = 0 /\ failures = 0 /\ kills = 0

---------------------------------------------------------------------------
(* The file's writers.                                                     *)

WriteFile(f) ==
    /\ file' = f
    /\ mtime' = mtime + 1
    /\ missed' = [d \in Daemons |-> missed[d] \/ pc[d] \in ReadNotStamped]
    /\ UNCHANGED <<live, package, onPath, pc, applier, cur, todo, last, reload,
                   running, full, budgetVars>>

\* Settings._save and the first-boot script put a whole new file in place by
\* a rename.
Replace(f) ==
    /\ mtime < MaxMtime
    /\ ~torn
    /\ WriteFile(f)
    /\ UNCHANGED torn

\* The wizard's write_text truncates the file and then writes it.
Truncate ==
    /\ mtime + 1 < MaxMtime
    /\ ~torn
    /\ torn' = TRUE
    /\ WriteFile(Empty)

Fill(f) ==
    /\ torn
    /\ torn' = FALSE
    /\ WriteFile(f)

\* A save by rename in between puts its own file in place; what the first
\* writer still writes goes with the old one.
Overtake(f) ==
    /\ mtime < MaxMtime
    /\ torn
    /\ torn' = FALSE
    /\ WriteFile(f)

\* The writer dies in between and leaves the empty file.
Abandon ==
    /\ torn
    /\ torn' = FALSE
    /\ UNCHANGED <<file, mtime, live, package, daemonVars, budgetVars>>

\* pacman installs the package that carries torrentos_settings.
Install ==
    /\ \/ package = "absent" /\ package' = "unpacking"
       \/ package = "unpacking" /\ package' = "installed"
    /\ UNCHANGED <<fileVars, live, daemonVars, budgetVars>>

---------------------------------------------------------------------------
(* Signals and the service manager.                                        *)

\* _handle_sighup
Sighup(d) ==
    /\ pc[d] \notin Ended
    /\ hups < MaxHups
    /\ hups' = hups + 1
    /\ reload' = [reload EXCEPT ![d] = TRUE]
    /\ UNCHANGED <<fileVars, live, package, onPath, pc, applier, cur, todo, last,
                   running, full, missed, failures, kills>>

\* _handle_sigterm
Sigterm(d) ==
    /\ pc[d] \notin Ended
    /\ running[d]
    /\ running' = [running EXCEPT ![d] = FALSE]
    /\ UNCHANGED <<fileVars, live, package, onPath, pc, applier, cur, todo, last,
                   reload, full, missed, budgetVars>>

\* The process dies: its memory is gone, the session keeps what it was given.
Kill(d) ==
    /\ pc[d] \notin Ended
    /\ kills < MaxKills
    /\ kills' = kills + 1
    /\ pc' = [pc EXCEPT ![d] = "killed"]
    /\ onPath' = [onPath EXCEPT ![d] = FALSE]
    /\ applier' = [applier EXCEPT ![d] = FALSE]
    /\ cur' = [cur EXCEPT ![d] = Empty]
    /\ todo' = [todo EXCEPT ![d] = {}]
    /\ last' = [last EXCEPT ![d] = 0]
    /\ reload' = [reload EXCEPT ![d] = FALSE]
    /\ running' = [running EXCEPT ![d] = TRUE]
    /\ full' = [full EXCEPT ![d] = FALSE]
    /\ missed' = [missed EXCEPT ![d] = FALSE]
    /\ UNCHANGED <<fileVars, live, package, hups, failures>>

\* Restart=on-failure.  The new process looks for the library directory once,
\* when it sets up sys.path.
Restart(d) ==
    /\ pc[d] = "killed"
    /\ d \in Supervised
    /\ pc' = [pc EXCEPT ![d] = "waiting"]
    /\ onPath' = [onPath EXCEPT ![d] = package # "absent"]
    /\ UNCHANGED <<fileVars, live, package, applier, cur, todo, last,
                   reload, running, full, missed, budgetVars>>

---------------------------------------------------------------------------
(* main()                                                                  *)

Goto(d, label) == pc' = [pc EXCEPT ![d] = label]

\* _wait_for_hyprland returns: Hyprland is up or the 60 s are over, or a
\* SIGTERM came first.
HyprlandReady(d) ==
    /\ pc[d] = "waiting"
    /\ Goto(d, IF running[d] THEN "importing" ELSE "stopped")
    /\ UNCHANGED <<fileVars, live, package, onPath, applier, cur, todo, last,
                   reload, running, full, missed, budgetVars>>

\* _import_applier finds the module.
CanImport(d) == onPath[d] /\ package = "installed"

\* The first _import_applier.
ImportApplier(d) ==
    /\ pc[d] = "importing"
    /\ applier' = [applier EXCEPT ![d] = CanImport(d)]
    /\ Goto(d, "read_all")
    /\ UNCHANGED <<fileVars, live, package, onPath, cur, todo, last, reload,
                   running, full, missed, budgetVars>>

\* Mutant: a forced pass applies only what changed.
ReadAllChanged(d) ==
    /\ pc[d] = "read_all"
    /\ cur' = [cur EXCEPT ![d] = MergedFlat]
    /\ todo' = [todo EXCEPT ![d] =
                   IF applier[d] THEN ChangedKeys(cur[d], MergedFlat) ELSE {}]
    /\ full' = [full EXCEPT ![d] = applier[d]]
    /\ missed' = [missed EXCEPT ![d] = FALSE]
    /\ Goto(d, "apply_all")
    /\ UNCHANGED <<fileVars, live, package, onPath, applier, last, reload,
                   running, budgetVars>>

\* current_flat = _merged_flat() of a full pass, at start or on SIGHUP; with
\* no applier the pass applies nothing.
ReadAll(d) ==
    /\ pc[d] = "read_all"
    /\ cur' = [cur EXCEPT ![d] = MergedFlat]
    /\ todo' = [todo EXCEPT ![d] =
                   IF applier[d] THEN AllKeys(MergedFlat) ELSE {}]
    /\ full' = [full EXCEPT ![d] = applier[d]]
    /\ missed' = [missed EXCEPT ![d] = FALSE]
    /\ Goto(d, "apply_all")
    /\ UNCHANGED <<fileVars, live, package, onPath, applier, last, reload,
                   running, budgetVars>>

Applying(d) == pc[d] \in {"apply_all", "apply_changed"}

\* One applier.apply(key, value) of the pass.
ApplyKey(d, k) ==
    /\ Applying(d)
    /\ k \in todo[d]
    /\ live' = [live EXCEPT ![k] = cur[d][k]]
    /\ todo' = [todo EXCEPT ![d] = @ \ {k}]
    /\ UNCHANGED <<fileVars, package, onPath, pc, applier, cur, last, reload,
                   running, full, missed, budgetVars>>

\* It raises: the exception is logged and the pass goes on.
ApplyFails(d, k) ==
    /\ Applying(d)
    /\ k \in todo[d]
    /\ failures < MaxFailures
    /\ failures' = failures + 1
    /\ todo' = [todo EXCEPT ![d] = @ \ {k}]
    /\ UNCHANGED <<fileVars, live, package, onPath, pc, applier, cur, last, reload,
                   running, full, missed, hups, kills>>

\* Mutant: every pass stamps the file when it is over.
PassDoneStamps(d) ==
    /\ Applying(d)
    /\ todo[d] = {}
    /\ Goto(d, "stamp")
    /\ UNCHANGED <<fileVars, live, package, onPath, applier, cur, todo, last,
                   reload, running, full, missed, budgetVars>>

\* The pass is over; a full one has still to stamp the file.
PassDone(d) ==
    /\ Applying(d)
    /\ todo[d] = {}
    /\ Goto(d, IF pc[d] = "apply_all" THEN "stamp" ELSE "sleep")
    /\ UNCHANGED <<fileVars, live, package, onPath, applier, cur, todo, last,
                   reload, running, full, missed, budgetVars>>

\* Mutant: a missing file is stamped -1.
StampMissing(d) ==
    /\ pc[d] = "stamp"
    /\ last' = [last EXCEPT ![d] = IF mtime = 0 THEN -1 ELSE mtime]
    /\ Goto(d, "sleep")
    /\ UNCHANGED <<fileVars, live, package, onPath, applier, cur, todo, reload,
                   running, full, missed, budgetVars>>

\* last_mtime = _mtime(USER_SETTINGS_PATH) behind a full pass.
StampFile(d) ==
    /\ pc[d] = "stamp"
    /\ last' = [last EXCEPT ![d] = mtime]
    /\ Goto(d, "sleep")
    /\ UNCHANGED <<fileVars, live, package, onPath, applier, cur, todo, reload,
                   running, full, missed, budgetVars>>

\* Mutant: _running is looked at only where the stamp has moved.
StopOnChange(d) ==
    /\ pc[d] = "sleep"
    /\ ~running[d] /\ last[d] # mtime
    /\ Goto(d, "stopped")
    /\ UNCHANGED <<fileVars, live, package, onPath, applier, cur, todo, last,
                   reload, running, full, missed, budgetVars>>

\* The loop is left when _running is seen false.
Stop(d) ==
    /\ pc[d] = "sleep"
    /\ ~running[d]
    /\ Goto(d, "stopped")
    /\ UNCHANGED <<fileVars, live, package, onPath, applier, cur, todo, last,
                   reload, running, full, missed, budgetVars>>

\* time.sleep is over: the import is retried, then the flag and then the
\* stamp are looked at.
Wake(d) ==
    /\ pc[d] = "sleep"
    /\ running[d]
    /\ applier' = [applier EXCEPT ![d] = @ \/ CanImport(d)]
    /\ \/ /\ reload[d]
          /\ reload' = [reload EXCEPT ![d] = FALSE]
          /\ Goto(d, "read_all")
          /\ UNCHANGED last
       \/ /\ ~reload[d]
          /\ last[d] # mtime
          /\ last' = [last EXCEPT ![d] = mtime]
          /\ Goto(d, "read_changed")
          /\ UNCHANGED reload
       \/ /\ ~reload[d]
          /\ last[d] = mtime
          /\ UNCHANGED <<pc, reload, last>>
    /\ UNCHANGED <<fileVars, live, package, onPath, cur, todo, running, full,
                   missed, budgetVars>>

\* new_flat = _merged_flat() of a changed-only pass.  current_flat takes it
\* when the pass ends; the loop reads current_flat nowhere in between.
ReadChanged(d) ==
    /\ pc[d] = "read_changed"
    /\ cur' = [cur EXCEPT ![d] = MergedFlat]
    /\ todo' = [todo EXCEPT ![d] =
                   IF applier[d] THEN ChangedKeys(cur[d], MergedFlat) ELSE {}]
    /\ missed' = [missed EXCEPT ![d] = FALSE]
    /\ Goto(d, "apply_changed")
    /\ UNCHANGED <<fileVars, live, package, onPath, applier, last, reload, running,
                   full, budgetVars>>

---------------------------------------------------------------------------
MainLoop(d) ==
    \/ HyprlandReady(d) \/ ImportApplier(d) \/ ReadAll(d)
    \/ \E k \in Keys : ApplyKey(d, k) \/ ApplyFails(d, k)
    \/ PassDone(d) \/ StampFile(d) \/ Stop(d) \/ Wake(d) \/ ReadChanged(d)

Writers ==
    \/ \E f \in Flats : Replace(f) \/ Overtake(f) \/ Fill(f)
    \/ Truncate \/ Abandon

Outside(d) == Sighup(d) \/ Sigterm(d) \/ Kill(d) \/ Restart(d)

Next ==
    \/ Writers
    \/ Install
    \/ \E d \in Daemons : MainLoop(d) \/ Outside(d)

\* The daemon's own steps are never put off for ever, and systemd does
\* restart a unit that failed.  Writers and signals owe nothing.
Fairness ==
    \A d \in Daemons : WF_vars(MainLoop(d)) /\ WF_vars(Restart(d))

Spec == Init /\ [][Next]_vars
FairSpec == Spec /\ Fairness

---------------------------------------------------------------------------
(* Properties.                                                             *)

\* The session runs what the file says, for every key that has a value.
InSync == \A k \in Keys : MergedFlat[k] # Unset => live[k] = MergedFlat[k]

\* A daemon that sleeps and sees no newer stamp on the file.
Idle(d) == pc[d] = "sleep" /\ last[d] = mtime

\* An idle daemon has read the file as it is now, unless the write fell in
\* the window between a full pass's _merged_flat() and its _mtime().  The
\* watch loop's own order (stamp first, then read) never loses a write.
NoSilentMiss ==
    \A d \in Daemons : Idle(d) /\ ~missed[d] => cur[d] = MergedFlat

Quiescent ==
    /\ failures = 0
    /\ \A d \in Daemons : Idle(d) /\ ~missed[d] /\ full[d]

\* However the copies of the daemon interleave, once all of them are idle
\* with nothing missed and no apply call having raised, the session runs
\* what the file says: an instance that pushes a stale value always has a
\* newer stamp to find.
QuiescentInSync == Daemons # {} /\ Quiescent => InSync

\* The last word of the file reaches the session; what can prevent it is an
\* apply call that raised, a write in the unguarded window, a daemon that
\* never made its full pass or one that ended.
Disturbed ==
    \/ failures > 0
    \/ \E d \in Daemons : missed[d] \/ ~full[d] \/ pc[d] \in Ended \/ ~running[d]
Converges == <>[](Disturbed \/ InSync)

\* SIGHUP repairs whatever went wrong before it: once no write and no
\* failure is left to come, a pending SIGHUP leads to a session in sync, or
\* to the end of the daemon that got it.
Settled == mtime >= MaxMtime /\ ~torn /\ failures = MaxFailures
SighupRepairs ==
    \A d \in Daemons :
        (reload[d] /\ Settled /\ CanImport(d)) ~>
            (InSync \/ pc[d] \in Ended \/ ~running[d])

\* SIGTERM ends the daemon from wherever its loop is.
SigtermStops ==
    \A d \in Daemons : ~running[d] ~> (pc[d] \in Ended)

\* "re-applies them whenever ~/.config/torrentos/settings.toml changes"
\* (settingsd:5-6), with no exception: the session comes to what the file says.
ReappliesWhenChanged == <>[](InSync \/ \E d \in Daemons : ~running[d])
============================================================================
