# TorrentOS in TLA+

TorrentOS is an Arch-based desktop distribution: a settings daemon and a GTK
settings app, a first-boot wizard with a text twin, a set of desktop tools, and
a small i386 kernel with a shell ("the kernel" below). This directory holds the
TLA+ modules that model the parts with state and concurrency of their own, the
TLC configurations that check them, and proofs for the TLA+ proof system.

Paths in this file are relative to `src/`. Short names: *settingsd* is
`archiso/airootfs/usr/lib/torrentos/settingsd`, *settings.py*, *applier.py*,
*app.py*, *pages/* are under `packages/torrentos-settings/torrentos_settings/`,
*wizard* is `packages/torrentos-first-boot/torrentos-first-boot-wizard`,
*firstboot* is `archiso/airootfs/usr/local/bin/torrentos-firstboot`.

## Running it

    tlc -workers 2 -config settingsd_two.cfg MCSettingsDaemon
    tlapm FirstBootProofs.tla

`PROJECT.json` lists every run with its module, every property with a mutation of
the model that breaks it, the source lines each definition stands for, and the
theorems. Definitions whose comment starts with "Mutant:" are such mutations
and are used by no specification.

## 1. Inventory

| Component | State it keeps | Operations | Talks to | Hard behaviour |
|---|---|---|---|---|
| settingsd | `current_flat`, `last_mtime`, reload and running flags, the imported applier | full pass, changed-only pass, SIGHUP, SIGTERM, poll | reads settings.toml, calls the applier | two instances (hyprland.conf's `exec-once` and the systemd user unit); files changed between a read and a stamp; a late package; crashes |
| settings.py | a copy of the user's file | get, set, reset, save by rename | settings.toml | the copy is read once and written back whole; a save that fails leaves it ahead of the file; a reset that finds no table returns early |
| applier.py | none of its own; gsettings, Hyprland, NetworkManager, programs, user.conf | one function per key | everything it drives | several keys share a target; kill-then-start is two steps; some functions read the file again |
| settings app (app.py, window.py, pages/) | its store, widgets, rows filled in by threads | a handler per control: save, then apply, then redraw | settings.py, applier.py, nmcli, hyprctl | races with settingsd, which sees the same change on its next poll; handlers that end half-way; threads and timers that overlap |
| wizard | page, choices, threads | navigation, keyboard, timezone, WiFi, appearance, finish | localectl, nmcli, user.conf, settings.toml, marker | threads whose calls finish in any order and hand their results to the main loop; in-place write; death at any step |
| firstboot, live session | shell variables | the same questions in a terminal; a pre-written settings.toml | same files | a section that exists already; the same temporary file name as settings.py |
| kernel/vga.c | text memory, row, column, hardware cursor | putchar, clear | kernel/shell.c | wrap, scroll and backspace at the borders |
| kernel/keyboard.c | shift, caps | init, getchar | the controller's bytes | make and break codes in any order and at any time |
| kernel/shell.c, kernel.c | line buffer, position | line editor, commands, boot | both drivers | screen and buffer must tell the same line |
| kernel/string.c | none | strlen ... memcpy | kernel/shell.c | terminators, counts, bytes above 127 |
| torrentos-update-gui | windows, a handler per start, callbacks on the main loop | check, update, Update Now, close | pacman, VTE or a thread | a unique application: one process, whose arguments all windows share; repeated signal handlers |
| torrentos-doctor | counters | a report of checks | systemctl, pacman, ... | `set -e` within helpers |
| torrentos-screenshot | mode, last picture, timers, its own window | capture, Save As | grim, slurp, the compositor | timers that overlap; an uncaught error with the window hidden |
| torrentos-update-check | a stamp file | look, throttle, notify | checkupdates, notify-send | two ways of being started; a notification that is lost after the stamp |
| installers, scripts, build, CI | none to speak of | straight-line calls | archinstall, pacman, mkarchiso | failures of external programs |

How they interact: settings.toml is the meeting place. The app, the wizard, the
text program and the user's editor write it, each in its own way; the daemons
poll its modification time and push what changed through the applier; the app
calls the applier itself as well, so that each change reaches the session twice.
user.conf is written by the wizard, the text program and the applier.
The kernel shares nothing with the rest.

What makes each component correct:

* settingsd: no write is overlooked, idle daemons leave the session as the file
  says, SIGHUP repairs, SIGTERM ends.
* app and applier: the session ends up as the file says also for keys that share
  a target; controls show what the store has; the store is one value per key,
  however its tables are nested; what is in force is what the next login brings.
* threads: the rows, the label over them, the status and the button belong
  together, the list is not behind the air, and every thread answers.
* first boot: the marker means the choices are saved, other sections survive,
  keymap, user.conf and file agree in the end, an app opened in between included.
* kernel: what is seen on the screen is what Enter will run, nothing stale is
  ahead of the cursor, history is not rewritten, modifier keys do not stick;
  string functions write their count of bytes and no more.
* tools: a window tells how its own command ended, an exit status claims no more
  than was looked at, the tool's window is not in its pictures and comes back,
  a user is told of updates, and not again and again.

`PROJECT.json` lists every component with its status and every hazard at its line.

## 2. Modules

| Module | Models | Built on |
|---|---|---|
| `SettingsDaemon` | settingsd, the writers of settings.toml, systemd's restart | |
| `Applier` | applier.py as operators: every entry of DISPATCH, by the slots it sets | |
| `Controls` | the pages as tables: control, key, what it offers and shows; the shipped defaults in their order | |
| `Overrides` | abstract: what the store promises, one value per key | |
| `SettingsApp` | the app from its controls down, with all shipped keys: handlers step by step, the store's nested tables, failing saves, other writers, the daemon's passes and logins | `Applier`, `Controls`; implements `Overrides` |
| `Background` | the threads and timers of the app's pages and of the wizard's WiFi page, the callbacks they queue and the pages these fill | |
| `Session` | the app, the daemons, other writers and the targets together | `SettingsDaemon`, `Applier` |
| `FirstBoot` | wizard, text program, localectl threads, user.conf, the marker, beside the daemons and a settings app with its copy of the file | `SettingsDaemon` |
| `Vga`, `Keyboard` | the two drivers as operators | |
| `Console` | the kernel: boot, drivers, shell | `Vga`, `Keyboard` |
| `KernelString` | kernel/string.c, one round of a loop a step, on buffers with a neighbour | |
| `UpdateWindow` | torrentos-update-gui: the windows of one process and their commands | |
| `Doctor` | torrentos-doctor: what each check may run, under `set -e` | |
| `Screenshot` | torrentos-screenshot: timers, hiding and coming back | |
| `UpdateCheck` | torrentos-update-check, started by session and timer | |
| `MCPrograms` | for TLC: one of the programs that share nothing with the settings in each behaviour | `Background`, `UpdateWindow`, `Doctor`, `Screenshot`, `UpdateCheck`, `KernelString` |
| the other `MC...` | constants for TLC | the module they name |
| `ToolsProofs` | theorems about the doctor, the screenshot tool, the update checker, the string functions and all of `MCPrograms` | `MCPrograms`, `BackgroundProofs`, `UpdateWindowProofs` |
| the other `...Proofs` | theorems | the module they name; `FirstBootProofs` and `SessionProofs` also use `SettingsDaemonProofs` |

`Session` and `SettingsApp` look at the same handlers from two sides: `Session` has
the daemon's loop, its stamps and its window step by step and three keys;
`SettingsApp` has every key and every control, failing saves and logins, and takes a
pass of the daemon for one step. Both use the same `Applier`.

`SettingsDaemon` is the abstract specification of the settings subsystem: it lets
any writer write anything and any key be applied by itself, one value per key.
`Session` and `FirstBoot` refine it (same variables, more of them): each of their
steps is a step of `SettingsDaemon` or leaves its variables alone. That is proved
(`SessionImplementsDaemons`, `FirstBootImplementsDaemons`), and the invariants
proved of the daemons are used in the proofs about first boot. `Overrides` is the
abstract specification of the store; `SettingsApp` implements it under the mapping
that flattens the nested tables (`StoreSpec`, checked and proved).

### How state and actions correspond to the code

**SettingsDaemon.** `file` holds the overrides as a function from dotted key to
value; `MergedFlat` is `_flatten(_deep_merge(defaults, user))`. `pc` says where
`main()` is: `waiting` (`_wait_for_hyprland`), `importing`, `read_all`,
`apply_all`, `stamp` (the full pass at start and on SIGHUP), `sleep`,
`read_changed`, `apply_changed`. Each read of the file, each applier call and
each stamp is a step of its own, because everything else can happen between
them. A changed-only pass stamps first and reads second (settingsd:233-242), a
full pass the other way round (204-209, 227-231); the models keep both orders.
`Wake` is the end of the sleep: retry the import, then look at the flag and at the
stamp. `Truncate`, `Fill` and `Abandon` are the wizard's `write_text`, which
empties the file before it writes it, and the writer's death in between;
`Replace` is a save by rename, `Overtake` one that puts another file in the place of
the truncated one, so that what the writer still writes goes with the old file.

**Applier.** `Effect(k, v, user)` is DISPATCH: the slots a call sets and what it
sets them to. Most keys have a slot of their own; `gtk`, `monitor` and `proxy` are
shared. Night light and magnifier are killed and started. `ReadSetting` is
`_read_setting`, which looks into the user's file and not into the defaults.

**Session.** `AppSet` is a control's handler up to the save, `AppApply` (or `AppStops`
and `AppLaunches`) its call of the applier; the programs are killed and started in
two steps. The order of a pass is the order of the shipped defaults (`Order`).

**Controls, SettingsApp.** `Control[k]` is the row that stands for a key. `Moved` is
the user; it puts the steps of the page's handler (`Handler`) into `pending`, and
`Saves`, `SaveFails`, `NothingToReset`, `Applies` and `Shows` carry them out, one
each, with everything else in between. `user` is `Settings.user`, a function from
section to key to value, and `SetIn` and `ResetIn` are `set` and `reset` on it.
`DaemonPass` is `_apply_changed`, `Login` the full pass of a new session, both as the
composed effect of their keys in `Order` (`Pass`). `AppEnds` may fall anywhere, also
between a handler's steps.

**Background.** `scan[i].stage` is where the i-th scan's thread (and, in the app, the
two-second timer before it) is; `attempt[a]` the same for the wizard's connect
threads. `queue` is what `GLib.idle_add` holds; `MainLoop` runs its oldest callback
(`Populate`, `Status`, the label, the about page's rows) as one step. `Lists` is the
moment nmcli prints, `Networks` and `WizardNetworks` what the two programs make of
the lines. `Fails`, `ConnectDies` are exceptions in the threads. `OnInstallClicked`
is the dev-mode page's handler with its four ends.

**FirstBoot.** `step` is the stage of whichever setup program runs. `Select` is
`_on_row_selected`: one more localectl thread, user.conf rewritten.
`PersistReads`, `PersistTruncates`, `PersistWrites`, `Mark` are `_finish` taken
apart; `TuiAsks` ... `TuiMoves` are the text program. `Quit` is any end that
leaves no marker. `DaemonSetsLayout` is `apply_kb_layout`, which writes the keymap and
user.conf as the setup programs do. The settings app is there as well, since the wizard
opens it from its last page (wizard:795) before it writes (1019): `AppOpens` takes a
copy of the file, `AppSaves` changes one key of the copy and puts all of it in the
file's place, and for the layout `AppApplies` follows, unless the app ends first
(`AppCloses`). A keyboard section stands in the file as long as it has any key
(`HasKeyboard`); the text program looks for that and not for a layout (`TuiReads`).
`section` says how setup left it: it wrote one, it found one, or an app whose copy was
older than that has put the copy over it (`lost`). The marker does not say more than
that, and `MarkerMeansSaved` names the three cases.

**Console.** `wire` is what the keyboard has sent and the driver has not read;
`Press` and `Release` put a key's real make and break codes on it, which for some keys
depend on whether a shift key is down (`ShiftDown`): a grey key feigns the release of
shift when it goes down and its press when it goes up again. `PrintOne`
prints one character of `out`, `ReadByte` is one round of `keyboard_getchar` with
what `shell_run` does to the character. Commands put their text into `out`.
`screen` has the text memory by row and column, the position, and the hardware
cursor. Colours are left out.

**KernelString.** `first` and `second` are the arguments, `moved` is how far the pointers
are by now, `n` the count. A buffer has one cell more than its size, which belongs
to somebody else. Reference definitions (`Length`, `Order`, `Byte`) say without a loop
what comes out.

**UpdateWindow.** `win[w]` is what `UpdateWindow` keeps and shows, `stage` where its
command is, `handlers` how many child-exited handlers the terminal has by now,
`posted[w]` the `_finish` callbacks on the main loop. `vte` chooses between the
terminal widget and the thread (`HAS_VTE`). `primary` is how the process was started.

**Doctor.** Each check is the set of command sequences it may run; `Call` takes the
next check of `Report` and what it finds, `Run` one command, `Fails` is when `set -e`
ends the script there; `"broken"` is a measurement (df, free) that fails. `BrokenOff`
lists what a report that ended early has met. Status 1 is given for that and for a whole
report with only warnings, and `StatusTells` says so of each of the three statuses.

**Screenshot.** `due` counts timers that may run at any time, `held` those set as the
window was hidden, which run after the compositor has taken it away (`Settles`).
`Hides`, `Takes`, `Cancelled` and `Raises` are the ends of `_do_capture`.

**UpdateCheck.** `pc` is where each script is; `age` is the stamp, as hours since;
`quietFor` the same for the last notification that was shown.

Auxiliary variables, which no guard reads (the bound on `slips` apart), say why a property may not hold:
`missed` (a write fell between a full pass's read and its stamp), `full` (the
daemon has begun a pass with an applier), `raced` (another program wrote while a
change was on its way), `excused` (a setup program died with the file truncated,
or a save fell between its read and its write), `section` (how setup left the
keyboard section), `behind` (setup has written since the app read the file), `crossed`
(app and setup changed the layout at the same time), `meant` (what the app last saved
of the other keys), `origin` and `slips` (where
the line began, and how often a backspace was lost at the left edge), `stale` and
`loose` in `SettingsApp` (rows not redrawn, slots that need not be as a login would
set them), `source`, `since` and `overlap` in `Background` (what the rows were made of,
what the air was since the last scan was asked for, whether scans overlapped),
`crowded`, `late` and `raised` in `Screenshot` (captures overlapped, one was on its way
as the save dialog opened, `_do_capture` raised), `raced` and `stale` in `UpdateCheck`
(two scripts between look and stamp; scripts that looked before the updates came).
Where such a condition is itself against what the code says of itself, a run shows it,
or section 5 quotes it.

## 3. Runs

Passing runs:

| Run | Question | Size |
|---|---|---|
| `settingsd_two` | Do two daemons, with a SIGHUP, SIGTERMs and a crash, overlook a write or settle on a stale value? (`NoSilentMiss`, `QuiescentInSync`) | 2.7 million states |
| `settingsd_live` | Does the file's last word arrive, does SIGHUP repair what a late package or a failing call spoiled, does SIGTERM end the loop? | 120 thousand states |
| `session` | Do the proxy and a started program end up as the file says, when app, daemon and another writer act at once? | 600 thousand states |
| `firstboot` | What do marker, file, user.conf and other sections look like when setup is interrupted anywhere, and an app saves its copy at any time? | 7.9 million states |
| `console_edit` | Do screen and line buffer agree under wrapping, scrolling, rubbing out, every command and a reset, and can shift stick, also with keys that feign a shift? | 14 million states |
| `app` | With every shipped key and control: do controls, store, file and session belong together whatever fails or comes in between? | 116 thousand states |
| `programs` | One program at a time, with all that can overlap or fail in it: do rows, label, status and buttons of the threads' pages belong together (`Background`); do the update windows tell of their own commands; does the doctor's status claim more than was looked at; does the screenshot tool come back, and keep out of its pictures; is the silence between notifications kept and the user told in the end; do the string functions give the right result and leave their neighbour alone? | 82 thousand states |

In `programs` a behaviour belongs to one program (`runs`), and the others stay as they
are before they have done anything. The programs share no state, so that the run
looks at the sum of their state spaces and not at the product; nothing of any of them
is lost, since nothing one of them does can be seen by another.

Runs that show the code to differ from what it says of itself (see "findings" in
`PROJECT.json`):

| Run | What it shows |
|---|---|
| `settingsd_missed` | "re-applies them whenever ~/.config/torrentos/settings.toml changes": a write between a full pass's read and its stamp is never applied. |
| `session_lost_update` | "Persist a single key": the app writes its whole copy over what others have saved since it started. |
| `app_login` | "Applies user settings at login": the scale of the accessibility page does not survive a login, since the shipped display scale is applied after it. |
| `firstboot_keymap` | "Layout set to ...": two localectl threads may finish in the other order. |
| `firstboot_choice` | "Persist keyboard layout to settings.toml so settingsd doesn't override": any keyboard section that stands in the file keeps it from being saved, and the daemon's full pass puts the old layout back. |

### What `LiveIsLogin` leaves out

`LiveIsLogin` says that once everything is quiet the session shows, slot by slot,
what a full pass over the file would. The code has these exceptions, and each is in
the model, marked by `loose` or `raced`, never left out of it:

* the monitor rule belongs to whichever of its four keys was applied last, and a
  full pass ends with one the user may never have touched (`app_login`);
* a change of the theme while high contrast is on hides the contrast until the next
  login (applier.py:59-66, 153-159); that a login restores it is `ContrastAtLogin`;
* a wallpaper reset by an app whose copy has no appearance table returns early
  (settings.py:87-89) and the default is shown though the file has another;
* a new night-light temperature that was saved behind a failed save, or by another
  program, reaches the screen only when the night light is next started;
* a change reverted before the daemon's next poll is not seen by it; so an app that
  ended between the save and the call, or another program that wrote in between,
  may leave the session behind;
* a save writes the app's whole copy. Where that is behind the file, or ahead of it
  after a save that failed, it may take back another key's change that the daemon has
  not yet seen, in the same way (`TakenBack`).

### Bounds, and why they are enough

* *Keys and values*: two settings with two values tell "changed" from "unchanged" and a
  key with a shipped default from one without; the programs' run has three keys, because
  the interesting interactions are within groups of keys that share a target. Keys
  of different groups do not influence each other.
* *Daemons*: two, as a session has; one where the other actors are the subject.
  The proofs are for any number.
* `MaxMtime` bounds the writes. Two are enough to have one write in each window of a
  pass; `session` and `firstboot` have three, so that a truncate and a write by one
  program and a save by another fit.
* `app`: `Tried` has one value beside the shipped one for each of the 37 keys, both
  where keys share a slot or a handler reads another key, and one no control offers.
  `MaxMoves` is two, the one after the first by keys of `Again` (the three with
  special handlers or slots): keys of different slots do not influence each other,
  so that pairs of moves matter where a slot, a table or the night light is shared.
  `StartFiles` begins with an override already there. One save may fail.
* `programs`, threads: two scans and two attempts are needed for an overlap and for a
  late answer; `MaxThreads` lets three of these four begin in a behaviour, since scans
  and attempts meet only in the rows and on the queue; one change of the air tells an
  old list from a new one; `MaxShown` is two where the code has 20, so that the cut
  happens; the list has a hidden network, a name twice, a tie, and the network in use
  neither first nor strongest. Two update windows share what windows share, the process;
  their handlers, callbacks and stages are bounded by the code, since Update Now is
  offered once. The doctor has no bound. `MaxClicks` is three: two captures are needed
  for an overlap, the third lets one come in as another has ended. The update checkers
  are the two that start the script; `Cooldown` three in place of six hours lets checks
  fall before, at and after its end; `MaxFailures` is two, so that a retry may fail as
  well. Strings of two bytes are empty, end within the count, at it or behind it; of the
  three byte values one is above 127, where char is signed.
* `MaxHups`, `MaxFailures`, `MaxKills` are one: each disturbance is tested against
  every state of the rest. `MaxKills` stays below the unit's `StartLimitBurst=3`, so
  that `Restart` is always granted.
* `MaxStarts` is two: a setup program that died and the one that runs after it.
  `MaxCalls` bounds localectl calls on their way; `firstboot_keymap` has the two that an
  inversion needs, `firstboot` one. `MaxOpens` is one: an app with a copy of any age.
* *Screen*: two columns and three rows have every border and let a line of the
  bounded length wrap and scroll; `MaxCmd` lets the longest command in. The keys are one
  of each kind: a letter, a blank, the two that edit, a shift, an arrow and PrtSc, whose
  codes begin with 0xE0 and feign a shift. `MaxWire` bounds the bytes that may wait when
  a key moves: with zero a key's bytes, up to four, are read before the next key's, but
  at any pace against the printing (the proof is for any bound). `MaxSlips` the backspaces at the left edge.

Deadlock checking is off: with every bounded event used up the modelled programs may
rest for ever (a stopped daemon, a halted kernel, a user who does nothing).

### Fairness

`settingsd_live` and `settingsd_missed` use `WF(MainLoop(d))`, the
daemon's own loop is never put off for ever (it sleeps for a fixed time and every
call has a time limit or returns), and `WF(Restart(d))`, systemd does restart a unit
that failed. Writers, signals, pacman and crashes owe nothing.

The threads of `programs` have `WF` of each thread's own steps, of the timer that brings a button
back and of the main loop: GLib runs due timers and takes the oldest idle callback,
Python's threads are scheduled, and the programs they wait for end. The app's list
has a time limit of eight seconds (network.py:40); the wizard's `run` (wizard:203) has
none, so for it the fairness is an assumption about NetworkManager. No click is fair.

Its tools: the update windows have `WF(Finish(w))`, the main loop; a command owes nothing,
since pacman may wait for a password for ever. The screenshot tool has `WF` of the compositor
and of the timers; that slurp ends is an assumption about the user. The update
checker has `WF` of a running script, of the timer's next start and of time.

## 4. Proofs

All for arbitrary constants under the named `ASSUME`s of the modules, which TLC
evaluates in every run.

* **SettingsDaemonProofs.** `NoSilentMiss` and `QuiescentInSync` are not inductive.
  The invariant `IInv` adds: bookkeeping of a pass (`PassInv`: nothing is left to
  apply outside one, a stamp is never newer than the file); what a daemon knows at
  each point of the loop (`KnowInv`: after its read, or with the present stamp, its
  `cur` is the file, unless `missed`); and a cover argument (`CoverInv`): for every
  key some daemon either gave the session its value and still believes in it, or has
  the key on its list. The last is what makes two daemons safe: one that pushes a
  stale value still has a newer stamp to find. Theorems: `Inductive`, `TypeCorrect`,
  `WatchLosesNothing`, `DaemonsAgree`.
* **SessionProofs.** `SessionTypes`, and `SessionImplementsDaemons`: every step of
  `Session` is one of `SettingsDaemon` or a stutter.

  `ProgramsShown` and `ProxyShown` speak of one moment of rest;
  what is inductive follows a value rather than the file. `ProgramOK(k, v)`: once
  every daemon has read `v` for program `k` and has nothing left to do with it, and
  the app has no call on its way, the program runs exactly if `v` is on. A daemon
  that has read something else will read the file again, and so its own step cannot
  make this wrong. The steps keep it for the file's value, for the value in the app's
  copy (its next save may put that one back, unseen, between two polls) and, while a
  writer has truncated the file, for every value that it may still write. A daemon
  that has killed a program is about to start it by the value it has read
  (`ActorInv`). For the proxy a call reads the other key from the file, so `ReadInv`
  adds that in those two cases a daemon with a proxy key to apply has read the file
  as it is, or empty; the empty file is harmless because the shipped proxy defaults are
  the fallbacks of the applier (default-settings.toml:46-47, applier.py:346-347), which
  `SessionAssumption` states. Theorems: `ProgramsAreShown`, `ProxyIsShown`.
* **FirstBootProofs.** `FBInv` adds to the daemons' invariant: only layouts go by the
  name of layout (`LayoutInv`), what each stage has done to the file (`SavedInv`), that
  the app's copy is the file but for what setup has written since (`CopyInv`), what has
  become of the other sections (`KeptInv`), and again a cover argument for user.conf
  (`ConfInv`), where the app with a layout to apply is one more that may answer for it. Theorems: `FirstBootTypes`, `SavedWhenMarked`,
  `SectionsSurvive`, `LayoutArrives`, `FirstBootImplementsDaemons`.
* **ConsoleProofs.** Type correctness needs `AheadIsBlank` for the scrolled screen and
  the other way round; together they are inductive for any screen, keyboard, buffer
  and command set. `NoStuckShift` speaks of an empty wire; `ShiftInv` says where the
  flag will end once the bytes on the wire are read, and is kept by every press,
  release and read. It assumes of a keyboard only that a key which goes up while no shift
  key is down any more raises nothing, and takes back what its press may have raised
  (`ShiftAssumption`); with a shift key down codes may feign what they like. `SeenIsRun` needs to know where the cursor is and that the line
  is empty while a command runs (`SeenInv`); its steps are arithmetic on cell numbers,
  `row * Width + col`, where a scroll takes `Width` off every number. `HistoryKept`
  follows from what the drivers write (`StepKeeps`). Theorems: `Inductive`,
  `TypeCorrect`, `NothingAhead`, `ShiftDoesNotStick`, `HistoryStays`,
  `ScreenTellsLine`.
* **SettingsAppProofs.** `AppInv` says that tables hold keys of theirs, none of them
  empty, and that the steps left are the rest of a handler; with it `SetIn`
  and `ResetIn` change one key of the flattened store, and every step is a step of
  `Overrides` or a stutter (`AppImplementsStore`). `ControlsTell` is not inductive in
  the middle of a handler; `TellInv` says which keys the steps that are left will
  still settle. Theorems: `AppTypes`, `AppImplementsStore`, `ControlsAreRight`.

  `LiveIsLogin` speaks of a moment of rest; `LiveInv` of every moment, with `seen`,
  the file the daemon has last applied, in place of the file. `Course` says how far
  the handler under way is and that what it is about to apply is what the file has.
  `SlotInv`: a slot none of whose keys has changed since `seen` is as a login would
  set it from `seen`, or the handler is about to set it; so a step has to answer only
  for the slots of its own key. `MonitorInv` needs no key to be unchanged, since
  whatever sets the monitor's rule but a full pass makes it `loose`. `TempInv`: the
  night light burns as hot as the file says *now*, because the pass that starts it reads
  that key from the file. `ProgramInv`: programs run as `seen` says. A pass leaves a
  slot as the last of its keys does: the slots but the monitor have one key, or two
  (`PassOfOne`, `PassOfGtk`, `PassOfProxy`). The assumptions, all true of the shipped
  files: the order meets every key once, and the theme before the contrast; the
  applier's fallbacks are the shipped values; the controls are of the kinds the
  pages have (`OrderAssumption`, `FallbackAssumption`, `TempAssumption`,
  `ControlAssumption`, `SlotAssumption`). Theorems: `LiveIsLoginHolds`, `ContrastComesLast`.
* **BackgroundProofs.** `ScanInv`: each posted scan has one callback on the queue, in
  its thread's order behind its announcement, so that the last callback to run
  leaves the label as the rows are; `AttemptInv`: while the button is on no attempt
  is under way, so that at most one is and its answer is about the network
  connected; `FreshInv`: without an overlap at most one scan is under way and what
  it has read is not behind the air. Theorems: `BackgroundInductive`,
  `BackgroundTypes`, `LabelIsRight`, `StatusIsRight`, `ListIsFresh`.

  `RowsRight` needs that a finite set with a strict total order has a sequence in that
  order (`SequenceExists`): an element's place is the number of those before it, and
  that is a bijection. `Sorted` is a choice of such a sequence, so it is one, and
  cutting it leaves the best. The lists of the two programs are `Sorted` by rank and
  by place in nmcli's output; `Listed` says the rows are made so from their source,
  whichever scan that was. (`Sorted` is this module's own, because the library's
  `SetToSortSeq` rests on an operator only the model checker implements.) Theorem:
  `RowsAreRight`.
* **UpdateWindowProofs.** `CloseMeansOver` and `BannerTells` need to know what is still
  queued: `Agrees` says that all callbacks of a window are about its present command,
  that this is over, and that none is queued while Update Now is offered, so that a
  second start never meets an answer to the first, though its two handlers will
  answer twice. Theorems: `UpdateInductive`, `UpdateTypes`, `CloseIsOver`, `BannerIsRight`.
* **ToolsProofs.** *Doctor*: `StatusTells` could break in two ways: a script that ends in the last
  command of the last check, behind a failure, and one that ends early for no reason
  `BrokenOff` names. `DoctorInv` says why neither can be: under `--quiet` no check comes
  after the first, since both ends of `check_cmd` fail (`DoctorQuiet`), otherwise the
  last check has no test that may fail (`DoctorLast`), and in what a check has still to
  run the test for a missing fix stands only behind a failure, and a broken measurement
  only by itself (`DoctorRest`). The report is long, so its length, its ends and its entries are
  found piece by piece (`ReportIs`). Theorems: `DoctorInductive`, `StatusIsTrue`.

  *Screenshot*: each timer and each picture has a click of its own (`PictureCounts`); a
  capture without company that has hidden the window waits until it is gone
  (`PictureAlone`); none starts while the save dialog is open (`DialogAlone`).
  Theorems: `PictureInductive`, `WindowStaysOut`, `SavesTheOffered`.

  *Update checker*: the stamp is never older than the notification it stands for, and
  without a race a script that is past its look is the only one there (`QuietInv`).
  Theorem: `NotifiesOnce`.

  *String functions*: for each function what it has read or written up to the pointers,
  and that pointers and count add up (`StringInv`). `Length` and `Order` are minima
  of sets; that they are where a loop stops needs `Least`, the least number of a
  set of naturals. Theorems: `StringsInductive`, `StringsRight`.

  *All programs*: `ToolsInPrograms` carries these, `BackgroundInv` and the update windows'
  `AgreeInv` to `ProgramsSpec`: every invariant of the run `programs`, and
  `OnceUnlessRaced`. It assumes that the bounds are naturals, that strings are filled
  with bytes and that nmcli may list nothing (`ToolsAssumption`), and the shape of
  nmcli's lines (`BackgroundAssumption`).

Every invariant and every action property of the passing runs is proved. Model-checked
only: the liveness properties (`Converges`, `SighupRepairs`, `SigtermStops`,
`ThreadsAnswer`, `CloseComes`, `ComesBack`, `TellsInTheEnd`), which are out of this
prover's reach, and the runs that expect a violation.

The library's induction theorems take an operator, which the provers at hand cannot
instantiate; nothing here needs them but as `Least`, which is proved from the
well-foundedness of inclusion among finite sets and speaks of sets only. No theorem is
about a recursive definition.

## 5. What is left out, and why

* The resolution of file stamps: every write gets a stamp of its own.
* A rename with what precedes it is one step, and two programs never fill the same
  temporary file at once. In `FirstBoot` the app may save over a file the wizard has
  truncated (`Overtake`); in `Session` and `SettingsApp` nobody writes while another has
  truncated the file. user.conf is read and rewritten in one step.
* `localectl` calls that fail; programs (magnus, gammastep) that are not installed.
* The keyboard controller's buffer never overflows.
* The wizard's timezone page (the keyboard page's thread pattern once more), its
  browser and appearance pages; the app's sidebar and search, its hostname row, the
  users and AI pages, buttons that only start another program; key values'
  formats, TOML syntax, colours, texts.
* `Settings.subscribe` has no caller. `Settings()` on a file that is not TOML raises, and
  the app does not start: the models' files are whole or empty.
* In the tools: the doctor's repairs and suggestions under `--fix`, which change neither
  counters nor status; Reboot Now, and what becomes of the command of an update window
  that was closed while it ran; more than one screenshot window, Copy and Open; clocks
  that are set.
* Installers and build scripts: straight-line calls of other programs, with no state
  or concurrency of their own.
* boot.S and the linker script. `Console` takes `strcmp` as equality, which is what
  `RightResult` says of it.

Seen while reading, and covered by no property because nothing in the repository
says otherwise or because it is the toolkit's to decide:

* An app that was open before setup wrote settings.toml puts its older copy over it at
  its next save (settings.py:104-109), and the keyboard section may be gone behind the
  marker, so that setup never writes it again (`MarkerMeansSaved` excepts it, by `lost`).
* The wizard goes on writing into a file the app has replaced in the meantime
  (wizard:1076, settings.py:109): its choices are then nowhere.
* keyboard.c:69 says "Apply caps lock to letters". Line 70 makes a lower-case letter upper
  case and line 71, which tests the new value, makes it lower case again: caps lock
  leaves an unshifted letter as it is (`ApplyCaps`).
* A list whose stored value is not among its entries shows the first entry
  (`Display`), and choosing that entry does nothing.
* dev_mode.py:88-91 starts the installer without a terminal and never saves the key;
  what fails between lines 86 and 94 leaves the button off (`ThreadsAnswer`
  excepts it). The wizard's thread that dies leaves "Scanning" or the button off.
* Scans that overlap may end in any order, and the older list then stays
  (`FreshRows` excepts it).
* torrentos-screenshot:258 catches only a program's error status. A directory that
  cannot be made or a program that is missing raises with the window hidden, and
  it stays so (`ComesBack` excepts it).
* torrentos-screenshot:220-222 says "hide the settings window first so it does not appear
  in the screenshot (even when a delay was set)". Capture can be clicked again while a
  delay runs; the timer that finds the window just hidden by the other capture takes its
  picture at once, without the 200 ms the compositor needs (`OneAtATime` excepts it, by
  `crowded`).
* torrentos-update-gui:285 says "--check flag: show available updates without installing",
  but `_activate` looks at the arguments of the process that is there: a second start
  with `--check` installs if the first was for an update, and the other way round
  (`Launch`).
* torrentos-doctor:356 counts with `(( ok_count++ ))`, whose status is that of the value
  before. Under `set -e` the report of a session where one of the three variables is set
  ends there, with status 1, before the summary; `ok` and `hint` under `--quiet` (40,
  43), `check_cmd` and `check_file` without a fix (53, 83), and df or free that fail (109,
  342) end it in the same way, and with `--quiet` the first check always does. So status 1
  may mean "only warnings" or "not finished, behind a failure": `StatusTells` says so,
  and that 0 and 2 are given for whole reports alone.
* torrentos-update-check:62 says "only notify at most once per 6 hours"; the session's
  run (hyprland.conf:36) and the timer's may both read the stamp before either writes
  it (`OnceUnlessRaced` excepts it, by `raced`). Failures are bounded in the model: one that
  comes every time, as a stamp that cannot be written, is outside `TellsInTheEnd`.
* string.c:31 leaves the count as it was when it copies the terminator, so that strncpy
  writes one byte more than its count (`RightResult` allows for it). Nothing calls it.
* After Update Now the terminal has two child-exited handlers, and `_finish` runs twice;
  the second run changes nothing but that the timer it removes is gone.
* window.py sets its filter function (82) before `_search_text` exists (146); whether
  GTK calls it for rows appended in between was not tried.
* The hostname row (network.py:125-128) has no apply button; whether the signal its
  handler waits for is ever sent was not tried.

## 6. Plan

1. *Done*: the daemons, the store, the app, first boot, the kernel with its string
   functions, and the four tools, with their runs; the proofs listed above.
2. *Next*: a live session that is started again (torrentos-live-session:33); writers
   that overlap (one temporary name, settings.py:106 and firstboot:393); the wizard's
   timezone page; the installer.
3. *Proofs*: every safety property of the runs is proved. What is left is to relate
   `SettingsApp` and `Session` to each other: both use `Applier`, but that the pass
   `SettingsApp` takes as one step (`Pass`) is what `Session`'s daemon does key by key
   is not proved.
