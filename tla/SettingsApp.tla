---------------------------- MODULE SettingsApp ----------------------------
(***************************************************************************)
(* The Settings app from its controls down: the pages' handlers            *)
(* (torrentos_settings/pages), the settings store they write through       *)
(* (settings.py) and the applier they call, with every key the shipped     *)
(* defaults name.                                                          *)
(*                                                                         *)
(* A handler is a sequence of steps; other programs, the settings daemon   *)
(* and the end of the app may come between any two of them, and a save may *)
(* fail, which ends the handler where it stands.  SettingsDaemon and       *)
(* Session have the daemon step by step; here a pass of it is one step.    *)
(***************************************************************************)
EXTENDS Applier, Controls

CONSTANTS
    Keys,
    Order,      \* the keys as the daemon goes through them
    SectionOf,  \* the table of the file a key is in
    Default,    \* the shipped defaults
    Control,    \* the control that stands for a key, where there is one
    Tried,      \* bound: the values of a key anybody sets
    Again,      \* bound: the keys anybody sets first or after the first move
    MaxMoves,   \* bound: controls moved and other programs' writes
    MaxFails    \* bound: saves that fail

\* The pages' keys are in the file, those with handlers of their own are on
\* the pages, and the start files hold keys.
ASSUME AppAssumption ==
    /\ DOMAIN Control \subseteq Keys /\ Again \subseteq Keys
    /\ {"accent", "wallpaper", "night-light", "night-light-temp",
        "proxy-enabled"} \subseteq DOMAIN Control
    /\ MaxMoves \in Nat /\ MaxFails \in Nat

\* The wallpaper is a file row, the night light a switch, and spin buttons
\* have a range.
ASSUME ControlAssumption ==
    /\ Control["wallpaper"].kind = "file"
    /\ Control["night-light"].kind = "switch"
    /\ \A k \in DOMAIN Control : Control[k].kind = "spin" =>
          /\ Control[k].low \in Int /\ Control[k].high \in Int
          /\ Control[k].low <= Control[k].high

\* The daemon meets every key once, the theme before the high contrast.
ASSUME OrderAssumption ==
    /\ DOMAIN Order \subseteq Nat
    /\ \A i \in DOMAIN Order : Order[i] \in Keys
    /\ \A k \in Keys : \E i \in DOMAIN Order : Order[i] = k
    /\ \A i, j \in DOMAIN Order :
          /\ Order[i] = Order[j] => i = j
          /\ Order[i] = "theme" /\ Order[j] = "high-contrast" => i < j

\* What the applier falls back to is what is shipped.
ASSUME FallbackAssumption ==
    /\ {"theme", "high-contrast", "proxy"} \subseteq Keys
    /\ Default["theme"] = "dark"
    /\ Default["proxy-enabled"] = Off /\ Default["proxy"] = ""

\* The same for the number among the fallbacks.
ASSUME TempAssumption == Default["night-light-temp"] = 4000

\* A slot has the name of a key only where that key is the one to set it;
\* NotSet is none of the values.
ASSUME SlotAssumption ==
    /\ Keys \cap {"scheme", "gtk", "ini", "monitor", "temp"} = {}
    /\ \A k \in Keys : NotSet \notin Tried[k]
    /\ NotSet \notin {On, "light", ""}

VARIABLES
    open,     \* the app runs
    user,     \* its self.user: section -> key -> value
    widget,   \* what the controls show
    pending,  \* the steps its handler has still to do
    file,     \* the user's settings.toml
    targets,  \* what the session shows
    seen,     \* the file as the daemon has read and applied it last
    moves, fails,
    stale,    \* auxiliary: controls not redrawn since a save failed
    loose,    \* auxiliary: slots the next login may set to something else
    raced     \* auxiliary: a change met another one on its way

appVars == <<open, user, widget, pending>>
auxVars == <<stale, loose, raced>>
vars == <<appVars, file, targets, seen, moves, fails, auxVars>>

---------------------------------------------------------------------------
(* The store: nested tables.                                               *)

NoTables == [s \in {} |-> {}]
Has(u, k) == SectionOf[k] \in DOMAIN u /\ k \in DOMAIN u[SectionOf[k]]

\* Settings.get: the user's value, or the shipped one.
Get(u, k) == IF Has(u, k) THEN u[SectionOf[k]][k] ELSE Default[k]

\* The same without the tables: the overrides alone, and with the defaults.
Flat(u) ==
    [k \in UNION {DOMAIN u[s] : s \in DOMAIN u} |-> u[SectionOf[k]][k]]
Merged(u) == [k \in Keys |-> Get(u, k)]

\* Mutant: the section is started anew.
SetInAlone(u, k, v) ==
    [s \in DOMAIN u \cup {SectionOf[k]} |->
        IF s = SectionOf[k] THEN [j \in {k} |-> v] ELSE u[s]]

\* set: the key's table is made if there is none.
SetIn(u, k, v) ==
    LET s    == SectionOf[k]
        kept == IF s \in DOMAIN u THEN DOMAIN u[s] ELSE {}
    IN  [t \in DOMAIN u \cup {s} |->
            IF t = s THEN [j \in kept \cup {k} |-> IF j = k THEN v ELSE u[s][j]]
                     ELSE u[t]]

\* Mutant: the table goes with the key.
ResetInSection(u, k) == [s \in DOMAIN u \ {SectionOf[k]} |-> u[s]]

\* Mutant: a table left empty stays.
ResetInKeeps(u, k) ==
    LET s == SectionOf[k]
    IN  [t \in DOMAIN u |-> IF t = s THEN [j \in DOMAIN u[s] \ {k} |-> u[s][j]]
                                     ELSE u[t]]

\* reset, where the key's table exists: a table left empty goes too.
ResetIn(u, k) ==
    LET s == SectionOf[k]
        emptied == IF DOMAIN u[s] \subseteq {k} THEN {s} ELSE {}
    IN  [t \in DOMAIN u \ emptied |->
            IF t = s THEN [j \in DOMAIN u[s] \ {k} |-> u[s][j]] ELSE u[t]]

---------------------------------------------------------------------------
(* The session and the daemon.                                             *)

\* The places in Order of the keys that may set the slot s.
Drivers ==
    [s \in UNION {SlotsOf(k) : k \in Keys} |->
        {i \in DOMAIN Order : s \in SlotsOf(Order[i])}]

\* Mutant: the first of the keys has the slot.
Earlier(j, i) == j < i

\* Of the places j and i the daemon comes to j after i.
Later(j, i) == j > i

\* A pass of the daemon over the keys ks: every slot is left as the last of
\* the keys that set it has it; the programs are started anew.
Pass(t, ks, u) ==
    LET over == Flat(u)
        does(i, s) == /\ Order[i] \in ks
                      /\ s \in DOMAIN Effect(Order[i], Get(u, Order[i]), over)
        last(s) == {i \in Drivers[s] :
                      does(i, s) /\ \A j \in Drivers[s] : Later(j, i) => ~does(j, s)}
        set(s) == LET k == Order[CHOOSE i \in last(s) : TRUE]
                  IN  Effect(k, Get(u, k), over)[s]
    IN  [shows |-> [s \in DOMAIN t.shows |->
                       IF last(s) = {} THEN t.shows[s] ELSE set(s)],
         programs |-> [k \in DOMAIN t.programs |->
                          IF k \notin ks THEN t.programs[k]
                          ELSE IF Get(u, k) = On THEN 1 ELSE 0]]

\* A session as the daemon's first pass sets it up.
AtLogin(t, u) == Pass(t, Keys, u)

\* The slots left as a login would not set them once the keys ks have been
\* applied: whatever is applied last holds the monitor rule, and a theme
\* hides the high contrast that is on.
LooseAfter(ks, u) ==
    LET bright == "high-contrast" \notin ks /\ "theme" \in ks
                     /\ Get(u, "high-contrast") = On
    IN  (IF GtkKeys \cap ks = {} \/ bright THEN loose ELSE loose \ {"gtk"})
        \cup (IF bright THEN {"gtk"} ELSE {})
        \cup (IF MonitorKeys \cap ks = {} THEN {} ELSE {"monitor"})

\* The daemon has seen the file change, or has been told to look.
DaemonPass ==
    /\ file # seen
    /\ LET changed == {k \in Keys : Get(file, k) # Get(seen, k)}
       IN  /\ targets' = Pass(targets, changed, file)
           /\ loose' = LooseAfter(changed, file)
    /\ seen' = file
    /\ UNCHANGED <<appVars, file, moves, fails, stale, raced>>

\* The user logs out and in again.
Login ==
    /\ ~open
    /\ targets' = AtLogin(targets, file)
    /\ seen' = file
    /\ loose' = {} /\ raced' = FALSE
    /\ UNCHANGED <<appVars, file, moves, fails, stale>>

\* The bound on the steps that set a key.
MayMove(k) == moves < MaxMoves /\ (moves > 0 => k \in Again)

\* The first-boot programs or an editor: a key is set or taken out.  The
\* temperature reaches the night light only when that is started next.
OthersWrite(k) ==
    /\ MayMove(k)
    /\ \/ \E v \in Tried[k] : file' = SetIn(file, k, v)
       \/ Has(file, k) /\ file' = ResetIn(file, k)
    /\ moves' = moves + 1
    /\ loose' = IF k = "night-light-temp" THEN loose \cup {"temp"} ELSE loose
    /\ raced' = (raced \/ pending # <<>> \/ file # seen)
    /\ UNCHANGED <<appVars, targets, seen, fails, stale>>

---------------------------------------------------------------------------
(* The app: its start and its end, between any two steps of a handler.     *)

\* Settings() and the pages' constructors.
AppOpen ==
    /\ ~open
    /\ open' = TRUE
    /\ user' = file
    /\ widget' = [k \in DOMAIN Control |-> Display(Control[k], Get(file, k))]
    /\ UNCHANGED <<pending, file, targets, seen, moves, fails, auxVars>>

\* A change saved and not applied yet is one the daemon would apply, but for
\* the user who was faster than its polls: it finds the value it knew.
Unnoticed ==
    \E i \in DOMAIN pending :
        /\ pending[i].op = "apply"
        /\ \A u \in {file, seen} : Get(u, pending[i].key) = pending[i].val

\* The window is closed, or the app dies.
AppEnds ==
    /\ open
    /\ open' = FALSE
    /\ user' = NoTables
    /\ widget' = NoTables
    /\ pending' = <<>>
    /\ stale' = {}
    /\ loose' = IF \E i \in DOMAIN pending : pending[i].key = "night-light"
                THEN loose \cup {"temp"} ELSE loose
    /\ raced' = (raced \/ Unnoticed)
    /\ UNCHANGED <<file, targets, seen, moves, fails>>

---------------------------------------------------------------------------
(* The pages' handlers.                                                    *)

Step(op, k, v) == [op |-> op, key |-> k, val |-> v]

\* Mutant: the temperature is left to its own row.
HandlerAlone(k, v) == <<Step("set", k, v), Step("apply", k, v)>>

\* Most handlers save and apply.
SaveAndApply(k, v) == <<Step("set", k, v), Step("apply", k, v)>>

\* Swatches and the wallpaper's row are redrawn at the end.
SaveApplyShow(k, v) ==
    <<Step("set", k, v), Step("apply", k, v), Step("show", k, v)>>

\* The switch of the night light saves the temperature with it; a new
\* temperature restarts the light if it is on.
NightLightSteps(k, v) ==
    IF k = "night-light"
    THEN <<Step("set", k, v),
           Step("set", "night-light-temp", widget["night-light-temp"]),
           Step("apply", k, v)>>
    ELSE IF widget["night-light"] = On
    THEN <<Step("set", k, v), Step("apply", "night-light", On)>>
    ELSE <<Step("set", k, v)>>

\* What moving the control of k to v does.
Handler(k, v) ==
    CASE k \in {"night-light", "night-light-temp"} -> NightLightSteps(k, v)
      [] k \in {"accent", "wallpaper"}             -> SaveApplyShow(k, v)
      [] OTHER                                     -> SaveAndApply(k, v)

\* The address can be edited while the proxy switch is on.
Moved(k, v) ==
    /\ open /\ pending = <<>> /\ MayMove(k)
    /\ CanReport(Control[k], widget[k], v)
    /\ k = "proxy" => widget["proxy-enabled"] = On
    /\ widget' = IF k \in {"accent", "wallpaper"} THEN widget
                 ELSE [widget EXCEPT ![k] = v]
    /\ pending' = Handler(k, v)
    /\ moves' = moves + 1
    /\ UNCHANGED <<open, user, file, targets, seen, fails, auxVars>>

\* The button that restores the wallpaper.
WallpaperReset ==
    LET k == "wallpaper"
    IN  /\ open /\ pending = <<>> /\ MayMove(k)
        /\ pending' = <<Step("reset", k, Default[k]),
                        Step("apply", k, Default[k]), Step("show", k, Default[k])>>
        /\ moves' = moves + 1
        /\ UNCHANGED <<open, user, widget, file, targets, seen, fails, auxVars>>

Next1 == Head(pending)
Does(op) == pending # <<>> /\ Next1.op = op

\* reset returns early, and saves nothing, where the key has no table.
Changed == IF Next1.op = "set" THEN SetIn(user, Next1.key, Next1.val)
                               ELSE ResetIn(user, Next1.key)
Saving  == Does("set") \/ (Does("reset") /\ SectionOf[Next1.key] \in DOMAIN user)

\* The copy may be behind the file, or ahead of it behind a failed save:
\* writing it takes back another key's change before the daemon has seen it.
TakenBack ==
    \E k \in Keys \ {Next1.key} :
        Get(user, k) # Get(file, k) /\ Get(user, k) = Get(seen, k)

\* set and reset change the app's copy and write the whole of it.
Saves ==
    /\ Saving
    /\ user' = Changed
    /\ file' = Changed
    /\ pending' = Tail(pending)
    /\ raced' = (raced \/ TakenBack)
    /\ UNCHANGED <<open, widget, targets, seen, moves, fails, stale, loose>>

\* The copy keeps a change that could not be written, and the exception ends
\* the handler.  A later save writes the temperature with another key, and
\* nobody applies it.
SaveFails ==
    /\ Saving
    /\ fails < MaxFails
    /\ fails' = fails + 1
    /\ user' = Changed
    /\ pending' = <<>>
    /\ stale' = stale \cup ({Next1.key} \cap {"accent", "wallpaper"})
    /\ loose' = IF Next1.key \in {"night-light", "night-light-temp"}
                THEN loose \cup {"temp"} ELSE loose
    /\ raced' = (raced \/ Unnoticed)
    /\ UNCHANGED <<open, widget, file, targets, seen, moves>>

\* A reset that finds no table of the key saves nothing, whatever the file
\* has: the app's copy may be older, or ahead of it behind a failed save.
NothingToReset ==
    /\ Does("reset") /\ ~Saving
    /\ loose' = loose \cup {Next1.key}
    /\ pending' = Tail(pending)
    /\ UNCHANGED <<open, user, widget, file, targets, seen, moves, fails, stale, raced>>

\* The handlers of the proxy and the night light pass what the app holds;
\* high contrast looks into the file.
Applies ==
    /\ Does("apply")
    /\ LET k == Next1.key
           known == IF k \in GtkKeys THEN Flat(file) ELSE Merged(user)
       IN  /\ targets' = Carry(targets, k, Next1.val, known)
           /\ loose' = IF k = "night-light" THEN loose \ {"temp"}
                       ELSE LooseAfter({k}, file)
    /\ pending' = Tail(pending)
    /\ UNCHANGED <<open, user, widget, file, seen, moves, fails, stale, raced>>

Shows ==
    /\ Does("show")
    /\ widget' = [widget EXCEPT ![Next1.key] = Next1.val]
    /\ stale' = stale \ {Next1.key}
    /\ pending' = Tail(pending)
    /\ UNCHANGED <<open, user, file, targets, seen, moves, fails, loose, raced>>

---------------------------------------------------------------------------
\* The user's file at the start: nothing in it, or one key.
StartFiles ==
    {NoTables} \cup UNION {{SetIn(NoTables, k, v) : v \in Tried[k] \ {Default[k]}} :
                              k \in Again}

Init ==
    /\ open = FALSE /\ user = NoTables /\ widget = NoTables /\ pending = <<>>
    /\ file \in StartFiles
    /\ targets = AtLogin(Fresh(Keys), file)
    /\ seen = file
    /\ moves = 0 /\ fails = 0
    /\ stale = {} /\ loose = {} /\ raced = FALSE

Next ==
    \/ AppOpen \/ AppEnds
    \/ \E k \in DOMAIN Control : \E v \in Tried[k] : Moved(k, v)
    \/ WallpaperReset
    \/ Saves \/ SaveFails \/ NothingToReset \/ Applies \/ Shows
    \/ DaemonPass \/ Login
    \/ \E k \in Keys : OthersWrite(k)

Spec == Init /\ [][Next]_vars

---------------------------------------------------------------------------
(* Properties.                                                             *)

Store == INSTANCE Overrides WITH
    running <- open, held <- Flat(user), saved <- Flat(file)

\* Tables hold keys of theirs, and none is left behind empty.
IsStore(u) ==
    \A s \in DOMAIN u :
        /\ DOMAIN u[s] # {}
        /\ \A k \in DOMAIN u[s] : k \in Keys /\ SectionOf[k] = s

AppTypeOK ==
    /\ open \in BOOLEAN /\ raced \in BOOLEAN
    /\ IsStore(user) /\ IsStore(file) /\ IsStore(seen)
    /\ DOMAIN widget = IF open THEN DOMAIN Control ELSE {}
    /\ \A i \in DOMAIN pending : pending[i].key \in DOMAIN Control
    /\ ~open => user = NoTables /\ pending = <<>>
    /\ moves \in 0 .. MaxMoves /\ fails \in 0 .. MaxFails

\* Whatever the app, the others and the failing disk do, the nested tables
\* behave as one value per key: a change touches that key, and what is saved
\* is what the app holds.
StoreSpec == Store!Spec

\* Between handlers every control shows what the store has for its key, also
\* behind a save that failed, the swatches and the wallpaper's row apart.
ControlsTell ==
    (open /\ pending = <<>>) =>
        \A k \in DOMAIN Control \ stale :
            widget[k] = Display(Control[k], Get(user, k))

\* Nothing is on its way.
Quiet == pending = <<>> /\ file = seen /\ ~raced

\* What the user sees take effect is what the next login brings back: the
\* handlers, each with its own way to call the applier, leave the session as
\* a full pass over the file would, the slots that are loose apart.
LiveIsLogin ==
    Quiet => LET then == AtLogin(targets, file)
             IN  /\ \A s \in DOMAIN targets.shows \ loose :
                        targets.shows[s] = then.shows[s]
                 /\ targets.programs = then.programs

\* A login shows high contrast to whoever has it on, whatever the theme.
ContrastAtLogin ==
    [][Login /\ Get(file, "high-contrast") = On
          => targets'.shows["gtk"] = "HighContrast"]_vars

\* "Applies user settings at login" (settingsd:5): the one scale the user has
\* set is in force after a login.
Scales == {"ui-scale", "scale", "custom-scale"}
ScaleInForce ==
    [][Login => \A k \in Scales :
          (Has(file, k) /\ \A j \in Scales \ {k} : ~Has(file, j))
              => targets'.shows["monitor"].scale = Get(file, k)]_vars
=============================================================================
