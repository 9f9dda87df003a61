----------------------------- MODULE FirstBoot -----------------------------
(***************************************************************************)
(* The first login: the setup wizard (torrentos-first-boot-wizard) or, on  *)
(* a system without it, the text one (torrentos-firstboot), beside the     *)
(* settings daemon that watches the file they write and the settings app,  *)
(* which the wizard's last page offers to open.                            *)
(*                                                                         *)
(* Each runs until it has left a marker.  Either can be closed or die at   *)
(* any step, and the next login starts it again.  The wizard calls         *)
(* localectl from a thread of its own for every selection.  The app reads  *)
(* the file when it starts and writes its whole copy at every save.        *)
(***************************************************************************)
EXTENDS SettingsDaemon

CONSTANTS
    Layouts,    \* KEYBOARD_LAYOUTS
    First,      \* the layout in the first row of the list
    Keyboard,   \* the keys of the section [keyboard]
    Appearance, \* the keys of the section [appearance]
    LastPage,   \* the index of the Finish page
    KeyboardAt, \* the index of the keyboard page
    MaxCalls,   \* bound: localectl calls on their way
    MaxStarts,  \* bound: logins that start a setup program
    MaxOpens    \* bound: starts of the settings app

ASSUME FirstBootAssumption ==
    /\ Layouts \subseteq Values /\ First \in Layouts
    /\ Keyboard \subseteq Keys /\ Appearance \subseteq Keys
    /\ "layout" \in Keyboard /\ Keyboard \cap Appearance = {}
    /\ Default["layout"] \in Layouts
    /\ LastPage \in Nat /\ KeyboardAt \in 0 .. LastPage
    /\ MaxCalls \in Nat /\ MaxStarts \in Nat /\ MaxOpens \in Nat

VARIABLES
    program,  \* the setup program that runs
    step,     \* where it is
    page,     \* _idx
    selected, \* the layout the user has been told is set
    kept,     \* the new content it has composed for settings.toml
    calls,    \* calls[l]: the threads that are about to set keymap l
    keymap,   \* the system's keymap
    userConf, \* kb_layout in user.conf
    marker,   \* first-boot-done exists
    starts,   \* the bounded logins so far
    app,      \* the settings app: closed, idle, or about to apply a layout
    copy,     \* its copy of the file
    opens,    \* its bounded starts so far
    meant,    \* auxiliary: what the app has last written to the other keys
    excused,  \* auxiliary: a crash or an overtaken save has lost that
    section,  \* auxiliary: how setup left the keyboard section
    behind,   \* auxiliary: setup has written the file since the app read it
    crossed   \* auxiliary: app and setup changed the layout at the same time

wizardVars == <<program, step, page, selected, kept, starts>>
outputVars == <<calls, keymap, userConf, marker>>
appVars    == <<app, copy, opens>>
ghostVars  == <<meant, excused, section, behind, crossed>>
allVars    == <<vars, wizardVars, outputVars, appVars, ghostVars>>

\* The sections the wizard rewrites.
Managed   == Keyboard \cup Appearance
Unmanaged == Keys \ Managed

\* A section stands in the file as long as one of its keys does.
HasKeyboard(f) == \E k \in Keyboard : f[k] # Unset

\* "lost": the app has put a copy over it that is older than setup's file.
Sections == {"none", "written", "found", "lost"}

\* "pages": the wizard's main loop runs.  The others are stages of its
\* _finish and of the text program's script.
Steps == {"off", "pages", "compose", "write", "ask", "conf", "save", "move",
          "mark"}

FirstBootTypeOK ==
    /\ TypeOK
    /\ program \in {"none", "wizard", "tui"}
    /\ step \in Steps /\ (step = "off" <=> program = "none")
    /\ page \in 0 .. LastPage
    /\ selected \in Layouts
    /\ kept \in Flats
    /\ calls \in [Layouts -> Nat]
    /\ keymap \in Layouts /\ userConf \in Layouts \cup {Unset}
    /\ marker \in BOOLEAN /\ starts \in Nat
    /\ app \in {"closed", "idle", "apply"}
    /\ copy \in Flats /\ opens \in Nat
    /\ meant \in [Unmanaged -> Settable]
    /\ section \in Sections
    /\ excused \in BOOLEAN /\ behind \in BOOLEAN /\ crossed \in BOOLEAN

FInit ==
    /\ Init
    /\ program = "none" /\ step = "off" /\ page = 0
    /\ selected = First /\ kept = Empty
    /\ calls = [l \in Layouts |-> 0]
    /\ keymap = Default["layout"] /\ userConf = Unset
    /\ marker = FALSE /\ starts = 0
    /\ file["layout"] \in Layouts \cup {Unset}
    /\ \A k \in Keys \ {"layout"} : file[k] \notin Layouts
    /\ app = "closed" /\ copy = Empty /\ opens = 0
    /\ meant = [k \in Unmanaged |-> file[k]]
    /\ section = "none"
    /\ excused = FALSE /\ behind = FALSE /\ crossed = FALSE

---------------------------------------------------------------------------
(* The wizard.                                                             *)

\* _on_row_selected, which also every search and the list's first filling
\* cause: a thread is started, user.conf is written.
Select(l) ==
    /\ selected' = l
    /\ calls' = [calls EXCEPT ![l] = @ + 1]
    /\ userConf' = l

\* firstboot-autostart finds no marker, but the wizard.  The keyboard page
\* selects its first row while it is built; the handler fails at the status
\* line, which does not exist yet, behind all that Select stands for.
StartWizard ==
    /\ program = "none" /\ ~marker
    /\ starts < MaxStarts
    /\ calls[First] < MaxCalls
    /\ starts' = starts + 1
    /\ program' = "wizard" /\ step' = "pages" /\ page' = 0
    /\ Select(First)
    /\ crossed' = FALSE
    /\ UNCHANGED <<vars, kept, keymap, marker, appVars, meant, excused, section,
                   behind>>

PickLayout(l) ==
    /\ step = "pages" /\ page = KeyboardAt
    /\ \A m \in Layouts : calls[m] < MaxCalls
    /\ Select(l)
    /\ UNCHANGED <<vars, program, step, page, kept, starts, keymap, marker,
                   appVars, ghostVars>>

\* _go, but for the step behind the last page.
Go(direction) ==
    /\ step = "pages"
    /\ page + direction \in 0 .. LastPage
    /\ page' = page + direction
    /\ UNCHANGED <<vars, program, step, selected, kept, starts, outputVars,
                   appVars, ghostVars>>

\* One thread's localectl call returns.
CallReturns(l) ==
    /\ calls[l] > 0
    /\ calls' = [calls EXCEPT ![l] = @ - 1]
    /\ keymap' = l
    /\ UNCHANGED <<vars, wizardVars, userConf, marker, appVars, ghostVars>>

\* What _persist_settings makes of its own sections: the layout, four of the
\* appearance keys, and nothing of what else was there.
Choices ==
    {c \in [Managed -> Settable] :
        /\ c["layout"] = selected
        /\ \A k \in Keyboard \ {"layout"} : c[k] = Unset}

\* Mutant: the other sections are not taken over.
PersistReadsNothing ==
    /\ step = "pages" /\ page = LastPage
    /\ \E c \in Choices :
         kept' = [k \in Keys |-> IF k \in Managed THEN c[k] ELSE Unset]
    /\ step' = "compose"
    /\ UNCHANGED <<vars, program, page, selected, starts, outputVars, appVars,
                   ghostVars>>

\* _finish: _persist_settings reads the file and composes the new one from
\* the other sections and the pages' choices;
PersistReads ==
    /\ step = "pages" /\ page = LastPage
    /\ \E c \in Choices :
         kept' = [k \in Keys |-> IF k \in Managed THEN c[k] ELSE file[k]]
    /\ step' = "compose"
    /\ UNCHANGED <<vars, program, page, selected, starts, outputVars, appVars,
                   ghostVars>>

\* write_text truncates the file
PersistTruncates ==
    /\ step = "compose"
    /\ Truncate
    /\ step' = "write"
    /\ behind' = (app # "closed")
    /\ UNCHANGED <<program, page, selected, kept, starts, outputVars, appVars,
                   meant, excused, section, crossed>>

\* and writes it.  If the app has put another file in its place by now, what
\* is written goes with the old one.
PersistWrites ==
    /\ step = "write"
    /\ \/ /\ Fill(kept)
          /\ section' = "written"
          /\ behind' = (app # "closed")
       \/ ~torn /\ UNCHANGED <<vars, section, behind>>
    /\ step' = "mark"
    /\ UNCHANGED <<program, page, selected, kept, starts, outputVars, appVars,
                   meant, excused, crossed>>

\* The threads of a program that ends are gone, unless their localectl
\* already runs.
CallsLeft ==
    calls' \in {c \in [Layouts -> 0 .. MaxCalls] : \A l \in Layouts : c[l] <= calls[l]}

\* Mutant: the program puts the marker down and does not end.
MarkOnly ==
    /\ step = "mark"
    /\ marker' = TRUE
    /\ step' = "off"
    /\ UNCHANGED <<vars, program, page, selected, kept, starts, calls, keymap,
                   userConf, appVars, ghostVars>>

\* MARKER.touch() and quit, or the end of the script.
Mark ==
    /\ step = "mark"
    /\ marker' = TRUE
    /\ program' = "none" /\ step' = "off"
    /\ kept' = Empty
    /\ CallsLeft
    /\ UNCHANGED <<vars, page, selected, starts, keymap, userConf, appVars,
                   ghostVars>>

\* The window is closed, the session ends or the program dies.
Quit ==
    /\ program # "none"
    /\ program' = "none" /\ step' = "off"
    /\ IF torn THEN Abandon ELSE UNCHANGED vars
    /\ excused' = (excused \/ torn)
    /\ kept' = Empty
    /\ CallsLeft
    /\ UNCHANGED <<page, selected, starts, keymap, userConf, marker,
                   appVars, meant, section, behind, crossed>>

---------------------------------------------------------------------------
(* The text program.                                                       *)

StartTui ==
    /\ program = "none" /\ ~marker
    /\ starts < MaxStarts
    /\ starts' = starts + 1
    /\ program' = "tui" /\ step' = "ask"
    /\ crossed' = FALSE
    /\ UNCHANGED <<vars, page, selected, kept, outputVars, appVars, meant,
                   excused, section, behind>>

\* Step 2 of 5: the layout is asked for and set.
TuiAsks(l) ==
    /\ step = "ask"
    /\ selected' = l
    /\ keymap' = l
    /\ step' = "conf"
    /\ UNCHANGED <<vars, program, page, kept, starts, calls, userConf, marker,
                   appVars, ghostVars>>

\* user.conf is written anew.
TuiWritesConf ==
    /\ step = "conf"
    /\ userConf' = selected
    /\ step' = "save"
    /\ UNCHANGED <<vars, program, page, selected, kept, starts, calls, keymap,
                   marker, appVars, ghostVars>>

\* Mutant: grep takes any section for the keyboard's.
TuiFindsAny ==
    /\ step = "save"
    /\ \/ /\ file # Empty
          /\ step' = "mark"
          /\ section' = "found"
          /\ UNCHANGED kept
       \/ /\ file = Empty
          /\ kept' = [file EXCEPT !["layout"] = selected]
          /\ step' = "move"
          /\ UNCHANGED section
    /\ UNCHANGED <<vars, program, page, selected, starts, outputVars, appVars,
                   meant, excused, behind, crossed>>

\* grep looks for a keyboard section, whatever is in it; without one the
\* file is copied and a section with the layout put behind it.
TuiReads ==
    /\ step = "save"
    /\ \/ /\ HasKeyboard(file)
          /\ step' = "mark"
          /\ section' = "found"
          /\ UNCHANGED kept
       \/ /\ ~HasKeyboard(file)
          /\ kept' = [file EXCEPT !["layout"] = selected]
          /\ step' = "move"
          /\ UNCHANGED section
    /\ UNCHANGED <<vars, program, page, selected, starts, outputVars, appVars,
                   meant, excused, behind, crossed>>

TuiMoves ==
    /\ step = "move"
    /\ Replace(kept)
    /\ step' = "mark"
    /\ section' = "written"
    /\ behind' = (app # "closed")
    /\ UNCHANGED <<program, page, selected, kept, starts, outputVars, appVars,
                   meant, excused, crossed>>

---------------------------------------------------------------------------
(* The settings app.                                                       *)

\* Settings.__init__ reads the user's file, once.  The user opens the app,
\* from the wizard's last page or otherwise.
AppOpens ==
    /\ app = "closed" /\ opens < MaxOpens
    /\ app' = "idle" /\ copy' = file /\ opens' = opens + 1
    /\ behind' = FALSE
    /\ UNCHANGED <<vars, wizardVars, outputVars, meant, excused, section,
                   crossed>>

\* What the pages' controls put under a key; only the wallpaper can be reset.
Offers(k) ==
    CASE k = "layout"     -> Layouts
      [] k \in Appearance -> Settable \ Layouts
      [] OTHER            -> Values \ Layouts

\* set or reset: the copy is changed and put in place of the file by a
\* rename, whatever has become of that since.
AppSaves(k, v) ==
    /\ app = "idle"
    /\ copy' = [copy EXCEPT ![k] = v]
    /\ Replace(copy') \/ Overtake(copy')
    /\ app' = IF k = "layout" THEN "apply" ELSE "idle"
    /\ meant' = [j \in Unmanaged |-> copy'[j]]
    /\ excused' = (excused \/ step \in {"compose", "move"})
    /\ section' = IF behind \/ torn THEN "lost" ELSE section
    /\ behind' = FALSE
    /\ crossed' = (crossed \/ (k = "layout" /\ program # "none"))
    /\ UNCHANGED <<wizardVars, outputVars, opens>>

\* The keyboard page's handler goes on to apply_kb_layout.
AppApplies ==
    /\ app = "apply"
    /\ app' = "idle"
    /\ keymap' = copy["layout"] /\ userConf' = copy["layout"]
    /\ crossed' = (crossed \/ behind \/ program # "none")
    /\ UNCHANGED <<vars, wizardVars, calls, marker, copy, opens, meant, excused,
                   section, behind>>

\* The window is closed or the app dies, before the layout is applied too.
AppCloses ==
    /\ app # "closed"
    /\ app' = "closed" /\ copy' = Empty
    /\ crossed' = (crossed \/ app = "apply")
    /\ behind' = FALSE
    /\ UNCHANGED <<vars, wizardVars, outputVars, opens, meant, excused, section>>

---------------------------------------------------------------------------
(* The daemons.                                                            *)

\* apply_kb_layout sets the keymap and kb_layout in user.conf.
DaemonSetsLayout(d) ==
    /\ ApplyKey(d, "layout")
    /\ keymap' = cur[d]["layout"]
    /\ userConf' = cur[d]["layout"]
    /\ UNCHANGED <<wizardVars, calls, marker, appVars, ghostVars>>

DaemonLoops(d) ==
    /\ \/ HyprlandReady(d) \/ ImportApplier(d) \/ ReadAll(d) \/ PassDone(d)
       \/ StampFile(d) \/ Wake(d) \/ ReadChanged(d)
       \/ \E k \in Keys \ {"layout"} : ApplyKey(d, k)
    /\ UNCHANGED <<wizardVars, outputVars, appVars, ghostVars>>

---------------------------------------------------------------------------
Wizard ==
    \/ StartWizard
    \/ \E l \in Layouts : PickLayout(l) \/ CallReturns(l)
    \/ \E direction \in {-1, 1} : Go(direction)
    \/ PersistReads \/ PersistTruncates \/ PersistWrites \/ Mark \/ Quit

Tui ==
    \/ StartTui
    \/ \E l \in Layouts : TuiAsks(l)
    \/ TuiWritesConf \/ TuiReads \/ TuiMoves

App ==
    \/ AppOpens \/ AppApplies \/ AppCloses
    \/ \E k \in Keys : \E v \in Offers(k) : AppSaves(k, v)

FNext ==
    \/ Wizard
    \/ Tui
    \/ App
    \/ \E d \in Daemons : DaemonSetsLayout(d) \/ DaemonLoops(d)

FSpec == FInit /\ [][FNext]_allVars

---------------------------------------------------------------------------
(* Properties.                                                             *)

\* Whatever is closed, crashes and starts again: once the marker is there,
\* and no setup program will ever run again, the file is whole and has the
\* layout that setup wrote or the section it found, also after an app that
\* was opened since has saved.  An app whose copy is older than setup's file
\* may have taken it away again ("lost").
MarkerMeansSaved ==
    marker => /\ ~torn
              /\ \/ file["layout"] # Unset
                 \/ section = "found" /\ HasKeyboard(file)
                 \/ section = "lost"

\* When setup has written the layout and every daemon has seen the file,
\* user.conf has the layout the file has, though the wizard, the text
\* program, the daemons and the app write it at any time; unless app and
\* setup changed it at the same time, or the app died with its own change
\* not yet applied.
LayoutSettles ==
    (/\ marker /\ section = "written" /\ ~crossed
     /\ app # "apply" /\ Daemons # {} /\ Quiescent)
        => userConf = file["layout"]

\* The sections the setup programs do not manage survive them, but for a
\* program that dies between truncating and writing and for a save that
\* falls between its read and its write.
SectionsKept == ~torn /\ ~excused => \A k \in Unmanaged : file[k] = meant[k]

\* The keyboard page's status line: once the threads are done, with no daemon
\* and no app to interfere, the keymap is the layout the page says is set.
KeymapIsSelected ==
    (step = "pages" /\ Daemons = {} /\ opens = 0
     /\ \A l \in Layouts : calls[l] = 0)
        => keymap = selected

\* The text program's comment on its last step: the layout is put into
\* settings.toml so that the daemon does not override it.  Once setup is over
\* and the daemons have seen the file, user.conf has the user's choice, with
\* no app to change it.
ChoiceNotOverridden ==
    (marker /\ opens = 0 /\ Daemons # {} /\ Quiescent)
        => userConf = selected
=============================================================================
