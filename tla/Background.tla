----------------------------- MODULE Background -----------------------------
(***************************************************************************)
(* What the two GTK programs do outside their main loop: threads and       *)
(* timers that hand their results to it (GLib.idle_add), in the Settings   *)
(* app (pages/network.py, about.py, dev_mode.py) and on the WiFi page of   *)
(* the first-boot wizard.  A behaviour is one program's.                   *)
(*                                                                         *)
(* A line of nmcli's list is [ssid, signal, used]; the ssid of a hidden    *)
(* network is empty.                                                       *)
(***************************************************************************)
EXTENDS Integers, Sequences, FiniteSets

CONSTANTS
    Airs,         \* bound: the lists nmcli may print
    MaxShown,     \* rows of the Settings app's list: 20
    MaxScans,     \* bound: scans, the one at the start counted
    MaxAttempts,  \* bound: attempts to connect
    MaxInstalls,  \* bound: clicks on the dev-mode page's button
    MaxChanges    \* bound: changes of the air

\* One scan is under way from the start; a line of nmcli's is what it says.
ASSUME BackgroundAssumption ==
    /\ MaxScans \in Nat \ {0} /\ MaxAttempts \in Nat /\ MaxShown \in Nat
    /\ \A lines \in Airs :
          lines \in Seq([ssid : STRING, signal : Int, used : BOOLEAN])

VARIABLES
    program,    \* the program that runs: "settings" or "wizard"
    queue,      \* callbacks handed to its main loop, oldest first
    scan,       \* each scan's stage, and the lines it has read
    rows,       \* the networks listed
    label,      \* wizard: the scan's label; settings: "none" is a row
    selected,   \* wizard: the ssid of the selected row
    attempt,    \* wizard: each attempt's stage, ssid and outcome
    connect,    \* wizard: [enabled, told]: the button and the status under it
    info,       \* settings: the system rows of the about page
    install,    \* settings: the dev-mode page: [enabled, told, timer, clicks]
    air,        \* what nmcli would list
    connected,  \* the network NetworkManager has connected
    changes,
    source,     \* auxiliary: the lines the rows were made from
    since,      \* auxiliary: the lists there were since the last scan was asked for
    overlap     \* auxiliary: two scans were under way at a time

scanVars == <<scan, rows, label, selected, source, since, overlap>>
connVars == <<attempt, connect, connected>>
vars == <<program, queue, scanVars, connVars, info, install, air, changes>>

Scans    == 1 .. MaxScans
Attempts == 1 .. MaxAttempts
Nothing  == "nothing"

---------------------------------------------------------------------------
(* The lists.                                                              *)

\* The places of the first line of every name.
Firsts(lines) ==
    {i \in DOMAIN lines :
        /\ lines[i].ssid # ""
        /\ \A j \in 1 .. i - 1 : lines[j].ssid # lines[i].ssid}

\* What a sort yields: the elements of a set in the order its pairs give.
Sorted(S, order) ==
    CHOOSE s \in [1 .. Cardinality(S) -> S] :
        \A m, n \in DOMAIN s : m < n => <<s[m], s[n]>> \in order

\* nmcli's order.
AsListed(lines) == {p \in Firsts(lines) \X Firsts(lines) : p[1] < p[2]}

\* The one in use first, then by signal; the sort is stable.
ByRank(lines) ==
    {p \in Firsts(lines) \X Firsts(lines) :
        LET a == lines[p[1]]
            b == lines[p[2]]
        IN  \/ a.used /\ ~b.used
            \/ a.used = b.used /\ a.signal > b.signal
            \/ a.used = b.used /\ a.signal = b.signal /\ p[1] < p[2]}

\* Mutant: cut to length in nmcli's order.
NetworksUnsorted(lines) ==
    LET places == Sorted(Firsts(lines), AsListed(lines))
    IN  [n \in {m \in DOMAIN places : m <= MaxShown} |-> lines[places[n]]]

\* _get_wifi_networks: sorted, and cut to length.
Networks(lines) ==
    LET places == Sorted(Firsts(lines), ByRank(lines))
    IN  [n \in {m \in DOMAIN places : m <= MaxShown} |-> lines[places[n]]]

\* The wizard's list is as long as nmcli's, in its order.
WizardNetworks(lines) ==
    LET places == Sorted(Firsts(lines), AsListed(lines))
    IN  [n \in DOMAIN places |-> lines[places[n]]]

Listing(lines) ==
    IF program = "settings" THEN Networks(lines) ELSE WizardNetworks(lines)

---------------------------------------------------------------------------
(* Scans.                                                                  *)

UnderWay(i) == scan[i].stage \notin {"unborn", "shown", "died"}

Stage(i, s) == scan' = [scan EXCEPT ![i].stage = s]
Hand(callback) == queue' = Append(queue, callback)

\* The scan button: the Settings app rescans and lists two seconds later, the
\* wizard starts a thread at once.  NetworkPage, WiFiPage do so when made.
OnRescan ==
    \E i \in Scans :
        /\ scan[i].stage = "unborn" /\ \A j \in 1 .. i - 1 : scan[j].stage # "unborn"
        /\ Stage(i, IF program = "settings" THEN "timer" ELSE "announcing")
        /\ since' = {air}
        /\ overlap' = (overlap \/ \E j \in Scans : UnderWay(j))
        /\ UNCHANGED <<program, queue, rows, label, selected, source, connVars,
                       info, install, air, changes>>

scanOnly == <<program, rows, label, selected, source, since, overlap, connVars,
              info, install, air, changes>>

\* Mutant: the list read first is kept.
ReadOnce(i) == IF i > 1 THEN scan[1].lines ELSE air

\* What the thread reads is nmcli's list of the moment.
Read(i) == air

\* The timer of two seconds starts the thread.
TimerEnds(i) ==
    /\ scan[i].stage = "timer"
    /\ Stage(i, "listing")
    /\ UNCHANGED <<queue, scanOnly>>

Announces(i) ==
    /\ scan[i].stage = "announcing"
    /\ Stage(i, "rescanning")
    /\ Hand([do |-> "scanning"])
    /\ UNCHANGED scanOnly

\* run(["nmcli", ..., "rescan"]), whatever it returns.
Rescans(i) ==
    /\ scan[i].stage = "rescanning"
    /\ Stage(i, "listing")
    /\ UNCHANGED <<queue, scanOnly>>

\* The thread reads what nmcli prints.
Lists(i) ==
    /\ scan[i].stage = "listing"
    /\ scan' = [scan EXCEPT ![i] = [stage |-> "read", lines |-> Read(i)]]
    /\ UNCHANGED <<queue, scanOnly>>

\* Mutant: the exception is not caught.
FailsUncaught(i) ==
    /\ scan[i].stage \in {"rescanning", "listing"}
    /\ Stage(i, "died")
    /\ UNCHANGED <<queue, scanOnly>>

\* nmcli fails: the Settings app catches whatever goes wrong and has an empty
\* list; so has the wizard, which does not look at the return code, but its
\* thread ends where nmcli is missing or prints what is not text.
Fails(i) ==
    /\ \/ /\ scan[i].stage = "listing"
          /\ scan' = [scan EXCEPT ![i] = [stage |-> "read", lines |-> <<>>]]
       \/ /\ program = "wizard" /\ scan[i].stage \in {"rescanning", "listing"}
          /\ Stage(i, "died")
    /\ UNCHANGED <<queue, scanOnly>>

Posts(i) ==
    /\ scan[i].stage = "read"
    /\ Stage(i, "posted")
    /\ Hand([do |-> "populate", scan |-> i])
    /\ UNCHANGED scanOnly

ScanStep(i) ==
    TimerEnds(i) \/ Announces(i) \/ Rescans(i) \/ Lists(i) \/ Fails(i) \/ Posts(i)

---------------------------------------------------------------------------
(* The wizard connects.                                                    *)

SelectRow ==
    /\ program = "wizard"
    /\ \E n \in DOMAIN rows : selected' = rows[n].ssid
    /\ UNCHANGED <<program, queue, scan, rows, label, source, since, overlap,
                   connVars, info, install, air, changes>>

\* Mutant: the button stays as it is.
ConnectingOpen == [connect EXCEPT !.told = "Connecting"]

\* The button is off until the answer is in.
Connecting == [enabled |-> FALSE, told |-> "Connecting"]

OnConnect ==
    /\ program = "wizard" /\ connect.enabled
    /\ \/ /\ selected = Nothing
          /\ connect' = [connect EXCEPT !.told = "select a network first"]
          /\ UNCHANGED attempt
       \/ /\ selected # Nothing
          /\ connect' = Connecting
          /\ \E a \in Attempts :
                /\ attempt[a].stage = "unborn"
                /\ \A b \in 1 .. a - 1 : attempt[b].stage # "unborn"
                /\ attempt' = [attempt EXCEPT
                       ![a] = [stage |-> "running", ssid |-> selected, ok |-> FALSE]]
    /\ UNCHANGED <<program, queue, scanVars, connected, info, install, air, changes>>

attemptOnly == <<program, scanVars, connect, info, install, air, changes>>

\* nmcli connects, or does not and may leave no connection at all.
Connects(a) ==
    /\ attempt[a].stage = "running"
    /\ \/ /\ connected' = attempt[a].ssid
          /\ attempt' = [attempt EXCEPT ![a].stage = "ended", ![a].ok = TRUE]
       \/ /\ connected' \in {connected, Nothing}
          /\ attempt' = [attempt EXCEPT ![a].stage = "ended"]
    /\ UNCHANGED <<queue, attemptOnly>>

\* run raises: nobody tells the main loop.
ConnectDies(a) ==
    /\ attempt[a].stage = "running"
    /\ attempt' = [attempt EXCEPT ![a].stage = "died"]
    /\ UNCHANGED <<queue, connected, attemptOnly>>

Answers(a) ==
    /\ attempt[a].stage = "ended"
    /\ attempt' = [attempt EXCEPT ![a].stage = "posted"]
    /\ Hand([do |-> "status", attempt |-> a])
    /\ UNCHANGED <<connected, attemptOnly>>

AttemptStep(a) == Connects(a) \/ ConnectDies(a) \/ Answers(a)

---------------------------------------------------------------------------
(* The about and the dev-mode page.                                        *)

\* The thread has asked for kernel, desktop, processor and memory; what fails
\* has a fallback.
InfoRead ==
    /\ info = "reading"
    /\ info' = "posted"
    /\ Hand([do |-> "info"])
    /\ UNCHANGED <<program, scanVars, connVars, install, air, changes>>

installOnly == <<program, queue, scanVars, connVars, info, air, changes>>

\* _on_install_clicked: no installer; a terminal and the key saved; a terminal
\* and a save that fails; no terminal, and the installer without one.  The
\* button comes back three seconds after all but a failure.
OnInstallClicked ==
    /\ program = "settings" /\ install.enabled /\ install.clicks < MaxInstalls
    /\ \E told \in {"not found", "Enabled", "Installing", "in background"} :
          install' = [told    |-> told,
                      enabled |-> told = "not found",
                      timer   |-> told \in {"Enabled", "in background"},
                      clicks  |-> install.clicks + 1]
    /\ UNCHANGED installOnly

InstallTimer ==
    /\ install.timer
    /\ install' = [install EXCEPT !.enabled = TRUE, !.timer = FALSE]
    /\ UNCHANGED installOnly

---------------------------------------------------------------------------
(* The main loop.                                                          *)

\* Mutant: an empty list leaves the rows of the one before.
RowsLeft(lines) == IF lines = <<>> THEN rows ELSE Listing(lines)

\* The old rows go, whatever the new list has.
RowsOf(lines) == Listing(lines)

\* Mutant: the selection is kept by name.
SelectionKept == selected

\* The selection goes with the rows.
SelectionLeft == Nothing

\* _populate and _populate_wifi
Populate(i) ==
    LET lines == scan[i].lines
    IN  /\ rows' = RowsOf(lines)
        /\ label' = IF Listing(lines) = <<>> THEN "none" ELSE "found"
        /\ selected' = SelectionLeft
        /\ source' = lines
        /\ Stage(i, "shown")
        /\ UNCHANGED <<connect, attempt, info>>

\* _set_status
Status(a) ==
    [enabled |-> TRUE, told |-> IF attempt[a].ok THEN attempt[a].ssid ELSE "error"]

\* The oldest callback runs; nothing else of the program runs meanwhile.
MainLoop ==
    /\ queue # <<>>
    /\ queue' = Tail(queue)
    /\ LET callback == Head(queue)
       IN  \/ /\ callback.do = "scanning"
              /\ label' = "scanning"
              /\ UNCHANGED <<scan, rows, selected, source, attempt, connect, info>>
           \/ callback.do = "populate" /\ Populate(callback.scan)
           \/ /\ callback.do = "status"
              /\ connect' = Status(callback.attempt)
              /\ attempt' = [attempt EXCEPT ![callback.attempt].stage = "shown"]
              /\ UNCHANGED <<scan, rows, label, selected, source, info>>
           \/ /\ callback.do = "info"
              /\ info' = "shown"
              /\ UNCHANGED <<scan, rows, label, selected, source, attempt, connect>>
    /\ UNCHANGED <<program, since, overlap, connected, install, air, changes>>

---------------------------------------------------------------------------
(* The system.                                                             *)

\* Networks come and go.
AirChanges ==
    /\ changes < MaxChanges
    /\ changes' = changes + 1
    /\ air' \in Airs \ {air}
    /\ since' = since \cup {air'}
    /\ UNCHANGED <<program, queue, scan, rows, label, selected, source, overlap,
                   connVars, info, install>>

Init ==
    /\ program \in {"settings", "wizard"}
    /\ queue = <<>>
    /\ scan = [i \in Scans |->
                 [stage |-> IF i > 1 THEN "unborn"
                            ELSE IF program = "settings" THEN "listing"
                                 ELSE "announcing",
                  lines |-> <<>>]]
    /\ rows = <<>> /\ label = "loading" /\ selected = Nothing
    /\ attempt = [a \in Attempts |->
                    [stage |-> "unborn", ssid |-> Nothing, ok |-> FALSE]]
    /\ connect = [enabled |-> TRUE, told |-> ""]
    /\ info = IF program = "settings" THEN "reading" ELSE Nothing
    /\ install = [told |-> "", enabled |-> TRUE, timer |-> FALSE, clicks |-> 0]
    /\ air \in Airs
    /\ connected = Nothing
    /\ changes = 0
    /\ source = <<>> /\ since = {air} /\ overlap = FALSE

Next ==
    \/ OnRescan \/ \E i \in Scans : ScanStep(i)
    \/ SelectRow \/ OnConnect \/ \E a \in Attempts : AttemptStep(a)
    \/ InfoRead \/ OnInstallClicked \/ InstallTimer
    \/ MainLoop \/ AirChanges

\* Threads and timers go on, the programs they run end, and the main loop
\* takes the next callback; nobody has to click.
Fairness ==
    /\ \A i \in Scans : WF_vars(ScanStep(i))
    /\ \A a \in Attempts : WF_vars(AttemptStep(a))
    /\ WF_vars(InfoRead) /\ WF_vars(InstallTimer) /\ WF_vars(MainLoop)

Spec == Init /\ [][Next]_vars /\ Fairness

---------------------------------------------------------------------------
(* Properties.                                                             *)

BackgroundTypeOK ==
    /\ \A i \in Scans : scan[i].lines \in Airs \cup {<<>>}
    /\ \A n \in DOMAIN queue :
          \/ queue[n].do \in {"scanning", "info"}
          \/ queue[n].do = "populate" /\ scan[queue[n].scan].stage = "posted"
          \/ queue[n].do = "status" /\ attempt[queue[n].attempt].stage = "posted"
    /\ selected = Nothing \/ \E n \in DOMAIN rows : rows[n].ssid = selected
    /\ connect.enabled \in BOOLEAN /\ install.enabled \in BOOLEAN
    /\ since \subseteq Airs /\ air \in since

\* What the rows are for nmcli's lines, however they are made: each name once,
\* as nmcli's first line has it; in the Settings app in order, and nothing
\* left out that ranks above a row; in the wizard everything.
RowsRight ==
    LET ahead(a, b) == \/ a.used /\ ~b.used
                       \/ a.used = b.used /\ a.signal > b.signal
        firsts == {source[i] : i \in Firsts(source)}
        listed == {rows[n] : n \in DOMAIN rows}
        pairs  == {p \in (DOMAIN rows) \X (DOMAIN rows) : p[1] < p[2]}
    IN  /\ listed \subseteq firsts
        /\ \A p \in pairs : rows[p[1]].ssid # rows[p[2]].ssid
        /\ program = "wizard" => listed = firsts
        /\ program = "settings" =>
              /\ \A p \in pairs : ~ahead(rows[p[2]], rows[p[1]])
              /\ \A a \in firsts \ listed :
                    Len(rows) = MaxShown /\ \A b \in listed : ~ahead(a, b)

Died == \E i \in Scans : scan[i].stage = "died"

\* Once every scan asked for has been answered the list is one nmcli gave
\* after the last of them was asked for: it is not behind the air of that
\* moment (or nmcli failed).  Scans that overlap may end in any order, and the
\* older list win.
FreshRows ==
    (~Died /\ ~overlap /\ \A i \in Scans : ~UnderWay(i))
        => (source \in since \/ source = <<>>)

\* The label (the row, in the Settings app) that says there are no networks,
\* or how many, belongs to the rows below it, in whatever order the threads'
\* callbacks came; a thread that died may leave it at "Scanning".
LabelTellsRows ==
    (~Died /\ \A i \in Scans : ~UnderWay(i))
        => label = IF rows = <<>> THEN "none" ELSE "found"

\* When no attempt is under way and the page says it is connected to a
\* network, it is: an older attempt's answer never hides a newer one's.
StatusTellsConnection ==
    (\A a \in Attempts : attempt[a].stage \in {"unborn", "shown"})
        => connect.told \in {connected, "", "error", "select a network first"}

\* Every thread's work reaches the page: a scan ends in a list (only the
\* wizard's may die, when nmcli cannot be run or read), and the about page's
\* rows are filled in.  A button switched off for a thread or a timer comes
\* back, but for a thread that died and an installation whose handler failed.
ThreadsAnswer ==
    /\ \A i \in Scans :
          UnderWay(i) ~> \/ scan[i].stage = "shown"
                         \/ program = "wizard" /\ scan[i].stage = "died"
    /\ program = "settings" ~> info = "shown"
    /\ ~connect.enabled
          ~> (connect.enabled \/ \E a \in Attempts : attempt[a].stage = "died")
    /\ ~install.enabled ~> (install.enabled \/ install.told = "Installing")
=============================================================================
