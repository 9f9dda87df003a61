------------------------------ MODULE Session ------------------------------
(***************************************************************************)
(* The settings subsystem as a whole: SettingsDaemon's daemons, the        *)
(* Settings app, the other programs that write settings.toml, and the      *)
(* session they all drive through the applier.                             *)
(*                                                                         *)
(* The app reads the user's file once, when it starts                      *)
(* (torrentos_settings/app.py), keeps its own copy of it and writes the    *)
(* whole copy back on every change (settings.py); its handlers then call   *)
(* the applier themselves (pages/), before the daemons have polled.        *)
(***************************************************************************)
EXTENDS SettingsDaemon, Applier, Sequences, Functions

CONSTANTS
    Order,     \* the keys in the order of default-settings.toml
    ValuesOf   \* ValuesOf[k]: the values key k takes

Nothing == "nothing"
App     == "app"
Actors  == Daemons \cup {App}

\* The proxy defaults are what the applier falls back to when it reads the
\* user's file for the other proxy key.
ASSUME SessionAssumption ==
    /\ Order \in Seq(Keys) /\ Range(Order) = Keys
    /\ Unset = NotSet
    /\ \A k \in Keys : ValuesOf[k] \subseteq Values
    /\ \A k \in Keys : Default[k] \in ValuesOf[k]
    /\ ProxyKeys \subseteq Keys =>
         Default["proxy-enabled"] = Off /\ Default["proxy"] = ""
    /\ Nothing \notin Keys /\ App \notin Daemons

VARIABLES
    open,     \* the Settings app runs
    mem,      \* its self.user
    call,     \* the key its handler has saved and not applied yet
    targets,  \* what the session shows
    between,  \* between[a]: the program actor a has killed and not started
    raced     \* auxiliary: another program wrote while a change was on its way

sessionVars == <<open, mem, call, targets, between, raced>>
allVars == <<vars, sessionVars>>

TypedFlats == {f \in Flats : \A k \in Keys : f[k] \in ValuesOf[k] \cup {Unset}}

SessionTypeOK ==
    /\ TypeOK
    /\ open \in BOOLEAN /\ raced \in BOOLEAN
    /\ mem \in Flats
    /\ call \in Keys \cup {Nothing}
    /\ between \in [Actors -> Keys \cup {Nothing}]
    /\ targets.programs \in [Keys \cap LaunchKeys -> Nat]

SInit ==
    /\ Init
    /\ file \in TypedFlats
    /\ open = FALSE /\ mem = Empty /\ call = Nothing
    /\ targets = Fresh(Keys)
    /\ between = [a \in Actors |-> Nothing]
    /\ raced = FALSE

---------------------------------------------------------------------------
(* Writers other than the app: the first-boot programs, an editor.         *)

\* The app has a call to make, or a daemon has not caught up with the file.
OnItsWay == call # Nothing \/ \E d \in Daemons : full[d] /\ (missed[d] \/ ~Idle(d))

OtherWrites ==
    /\ \/ \E f \in TypedFlats : Replace(f) /\ raced' = (raced \/ OnItsWay)
       \/ Truncate /\ raced' = (raced \/ OnItsWay)
       \/ \E f \in TypedFlats : Fill(f) /\ UNCHANGED raced
    /\ UNCHANGED <<open, mem, call, targets, between>>

---------------------------------------------------------------------------
(* The app.                                                                *)

\* Settings.__init__; a file caught empty by Truncate reads as {}.
AppOpen ==
    /\ ~open
    /\ open' = TRUE
    /\ mem' = file
    /\ UNCHANGED <<vars, call, targets, between, raced>>

AppClose ==
    /\ open
    /\ call = Nothing
    /\ open' = FALSE
    /\ mem' = Empty
    /\ UNCHANGED <<vars, call, targets, between, raced>>

Shown(f, k) == IF f[k] = Unset THEN Default[k] ELSE f[k]
Merged(f)   == [k \in Keys |-> Shown(f, k)]

\* The control of k can report v: a switch or a list reports what it did not
\* show before, the address row whatever is applied in it while the proxy
\* switch is on.
CanReport(k, v) ==
    IF k = "proxy" THEN Shown(mem, "proxy-enabled") = On ELSE Shown(mem, k) # v

\* A control is moved: set writes the whole copy back.
AppSet(k, v) ==
    /\ open /\ call = Nothing
    /\ CanReport(k, v)
    /\ mem' = [mem EXCEPT ![k] = v]
    /\ Replace(mem')
    /\ call' = k
    /\ UNCHANGED <<open, targets, between, raced>>

\* The handler's call.  The proxy handlers give apply_proxy both values from
\* the app's copy; every other one goes through apply(), which reads the file.
AppApply ==
    /\ call # Nothing
    /\ call \notin LaunchKeys
    /\ targets' = Apply(targets, call, Shown(mem, call),
                        IF call \in ProxyKeys THEN Merged(mem) ELSE file)
    /\ call' = Nothing
    /\ UNCHANGED <<vars, open, mem, between, raced>>

AppStops ==
    /\ call \in LaunchKeys
    /\ between[App] = Nothing
    /\ targets' = Stopped(targets, call)
    /\ between' = [between EXCEPT ![App] = call]
    /\ UNCHANGED <<vars, open, mem, call, raced>>

AppLaunches ==
    /\ between[App] # Nothing
    /\ targets' = IF Shown(mem, call) = On THEN Launched(targets, call)
                                           ELSE targets
    /\ between' = [between EXCEPT ![App] = Nothing]
    /\ call' = Nothing
    /\ UNCHANGED <<vars, open, mem, raced>>

---------------------------------------------------------------------------
(* The daemons.                                                            *)

\* The pass goes through the keys in order.
IsNext(d, k) ==
    /\ k \in todo[d]
    /\ \E i \in DOMAIN Order :
         /\ Order[i] = k
         /\ \A j \in 1 .. i - 1 : Order[j] \notin todo[d]

DaemonApplies(d, k) ==
    /\ IsNext(d, k)
    /\ k \notin LaunchKeys
    /\ ApplyKey(d, k)
    /\ targets' = Apply(targets, k, cur[d][k], file)
    /\ UNCHANGED <<open, mem, call, between, raced>>

DaemonStops(d, k) ==
    /\ Applying(d)
    /\ IsNext(d, k)
    /\ k \in LaunchKeys
    /\ between[d] = Nothing
    /\ targets' = Stopped(targets, k)
    /\ between' = [between EXCEPT ![d] = k]
    /\ UNCHANGED <<vars, open, mem, call, raced>>

DaemonLaunches(d, k) ==
    /\ between[d] = k
    /\ ApplyKey(d, k)
    /\ targets' = IF cur[d][k] = On THEN Launched(targets, k) ELSE targets
    /\ between' = [between EXCEPT ![d] = Nothing]
    /\ UNCHANGED <<open, mem, call, raced>>

\* Every step of the loop that applies nothing.  Signals and the death of a
\* daemon are SettingsDaemon's subject and left out here.
DaemonLoops(d) ==
    /\ \/ HyprlandReady(d) \/ ImportApplier(d) \/ ReadAll(d) \/ PassDone(d)
       \/ StampFile(d) \/ Wake(d) \/ ReadChanged(d)
    /\ UNCHANGED sessionVars

SNext ==
    \/ OtherWrites
    \/ AppOpen \/ AppClose
    \/ \E k \in Keys : \E v \in ValuesOf[k] : AppSet(k, v)
    \/ AppApply \/ AppStops \/ AppLaunches
    \/ \E d \in Daemons :
         \/ \E k \in Keys :
              DaemonApplies(d, k) \/ DaemonStops(d, k) \/ DaemonLaunches(d, k)
         \/ DaemonLoops(d)

SSpec == SInit /\ [][SNext]_allVars

---------------------------------------------------------------------------
(* Properties.                                                             *)

\* Every actor has done what it had to, and nothing is excused.
Quiet ==
    /\ Daemons # {} /\ Quiescent
    /\ call = Nothing /\ ~raced

\* However the app's own calls interleave with the daemons' passes, the proxy
\* ends up as the file has it, though each of the two keys is applied with
\* whatever the file says of the other at that moment.
ProxyShown ==
    (Quiet /\ ProxyKeys \subseteq Keys)
        => targets.shows["proxy"] = Proxy(Shown(file, "proxy-enabled"),
                                          Shown(file, "proxy"))

\* So do the programs: one that should run does, one that should not does
\* not, though killing and starting it are two steps.
ProgramsShown ==
    Quiet => \A k \in Keys \cap LaunchKeys :
                 targets.programs[k] > 0 <=> Shown(file, k) = On

\* Whoever uses the app changes the key of the control, and no other.
OneKeyWritten ==
    [][mem # mem' /\ file # file'
          => \E k \in Keys : \A j \in Keys \ {k} : file'[j] = file[j]]_allVars
=============================================================================
