---------------------------- MODULE UpdateWindow ----------------------------
(***************************************************************************)
(* torrentos-update-gui: windows that check for updates or install them.   *)
(*                                                                         *)
(* The program is a unique GTK application.  Started a second time it asks *)
(* the process that is already there to open another window.  A window     *)
(* runs a command in a terminal widget, or, where that is missing, in a    *)
(* thread; either tells the main loop (GLib.idle_add) when the command is  *)
(* over.                                                                   *)
(***************************************************************************)
EXTENDS Naturals, Sequences

CONSTANT Windows  \* bound: the windows that may be opened

VARIABLES
    vte,      \* the terminal widget is installed (HAS_VTE)
    primary,  \* the process: "none", or how it was started (its sys.argv)
    win,      \* what each window knows and shows
    posted    \* the _finish callbacks each window has on the main loop

updateVars == <<vte, primary, win, posted>>

Modes == {"update", "check"}

\* The banner's titles.
Titles == {"checking", "updating", "check complete", "check errors",
           "update complete", "update errors"}

\* The command of a window: about to be spawned, running, running with nobody
\* left to read its output, over.
Stages == {"starting", "running", "unread", "over"}

\* Auxiliary field: result (how the command ended).
Window ==
    [open      : BOOLEAN,
     checkOnly : BOOLEAN,
     command   : Modes,
     stage     : Stages,
     handlers  : Nat,      \* child-exited handlers connected
     pulsing   : BOOLEAN,  \* the timer of the progress bar
     title     : Titles,
     updateNow : BOOLEAN,  \* the button is visible
     close     : BOOLEAN,  \* the buttons are sensitive
     reboot    : BOOLEAN,
     result    : BOOLEAN]

UpdateTypeOK ==
    /\ vte \in BOOLEAN
    /\ primary \in Modes \cup {"none"}
    /\ win \in [Windows -> Window]
    /\ posted \in [Windows -> Seq(BOOLEAN)]

Unopened ==
    [open |-> FALSE, checkOnly |-> FALSE, command |-> "update",
     stage |-> "over", handlers |-> 0, pulsing |-> FALSE, title |-> "updating",
     updateNow |-> FALSE, close |-> FALSE, reboot |-> FALSE,
     result |-> FALSE]

UpdateInit ==
    /\ vte \in BOOLEAN
    /\ primary = "none"
    /\ win = [w \in Windows |-> Unopened]
    /\ posted = [w \in Windows |-> <<>>]

---------------------------------------------------------------------------
\* _start_update: every start connects a handler of its own.
Start(r, mode) ==
    [r EXCEPT !.command = mode, !.stage = "starting", !.pulsing = TRUE,
              !.handlers = IF vte THEN @ + 1 ELSE @]

\* UpdateWindow.__init__
NewWindow(checkOnly) ==
    Start([Unopened EXCEPT
               !.open = TRUE, !.checkOnly = checkOnly,
               !.title = IF checkOnly THEN "checking" ELSE "updating"],
          IF checkOnly THEN "check" ELSE "update")

\* The program is started, for an update or with --check.  _activate runs in
\* the process that is there, and looks at the arguments that one was given:
\* a window may install though it was asked to check.
Launch(w, asked) ==
    /\ win[w] = Unopened
    /\ primary' = IF primary = "none" THEN asked ELSE primary
    /\ win' = [win EXCEPT ![w] = NewWindow(primary' = "check")]
    /\ UNCHANGED <<vte, posted>>

\* A callback is queued n times; a window that was closed hears of nothing.
Post(w, n, success) ==
    posted' = [posted EXCEPT
                   ![w] = IF win[w].open THEN @ \o [i \in 1 .. n |-> success]
                                         ELSE @]

\* Mutant: the end of spawning is taken for the end of the command.
SpawnedIsOver(w) ==
    /\ win[w].stage = "starting"
    /\ win' = [win EXCEPT ![w].stage = "running"]
    /\ Post(w, 1, TRUE)
    /\ UNCHANGED <<vte, primary>>

Spawned(w) ==
    /\ win[w].stage = "starting"
    /\ win' = [win EXCEPT ![w].stage = "running"]
    /\ UNCHANGED <<vte, primary, posted>>

\* Mutant: it is left to child-exited, which never comes.
SpawnFailsSilently(w) ==
    /\ win[w].stage = "starting"
    /\ win' = [win EXCEPT ![w].stage = "over", ![w].result = FALSE]
    /\ UNCHANGED <<vte, primary, posted>>

\* _on_vte_spawned with an error; Popen raises in _run_cmd.
SpawnFails(w) ==
    /\ win[w].stage = "starting"
    /\ win' = [win EXCEPT ![w].stage = "over", ![w].result = FALSE]
    /\ Post(w, 1, FALSE)
    /\ UNCHANGED <<vte, primary>>

\* The command ends: _on_child_exited, once for every handler; the end of
\* _run_cmd.  The shell of CHECK_CMD always exits with 0 unless it is killed.
Exits(w, success) ==
    /\ win[w].stage = "running"
    /\ win' = [win EXCEPT ![w].stage = "over", ![w].result = success]
    /\ Post(w, IF vte THEN win[w].handlers ELSE 1, success)
    /\ UNCHANGED <<vte, primary>>

\* _run_cmd meets output it cannot decode: the thread gives up, the command
\* is still there.
ReadFails(w) ==
    /\ ~vte
    /\ win[w].stage = "running"
    /\ win' = [win EXCEPT ![w].stage = "unread", ![w].result = FALSE]
    /\ Post(w, 1, FALSE)
    /\ UNCHANGED <<vte, primary>>

\* What _finish puts into the window.
Finished(r, success) ==
    LET done == [r EXCEPT !.pulsing = FALSE, !.close = TRUE]
    IN  IF r.checkOnly
        THEN [done EXCEPT
                  !.title = IF success THEN "check complete" ELSE "check errors",
                  !.updateNow = @ \/ success]
        ELSE [done EXCEPT
                  !.title = IF success THEN "update complete" ELSE "update errors",
                  !.reboot = @ \/ success]

\* The main loop runs the oldest _finish of a window.
Finish(w) ==
    /\ posted[w] # <<>>
    /\ win' = [win EXCEPT ![w] = Finished(@, Head(posted[w]))]
    /\ posted' = [posted EXCEPT ![w] = Tail(@)]
    /\ UNCHANGED <<vte, primary>>

\* Mutant: the button stays, and Close with it.
UpdateNowAgain(w) ==
    /\ win[w].open /\ win[w].updateNow
    /\ win' = [win EXCEPT ![w] =
                   Start([@ EXCEPT !.checkOnly = FALSE, !.reboot = FALSE,
                                   !.title = "updating"],
                         "update")]
    /\ UNCHANGED <<vte, primary, posted>>

\* _run_update_now
UpdateNow(w) ==
    /\ win[w].open /\ win[w].updateNow
    /\ win' = [win EXCEPT ![w] =
                   Start([@ EXCEPT !.checkOnly = FALSE, !.updateNow = FALSE,
                                   !.close = FALSE, !.reboot = FALSE,
                                   !.title = "updating"],
                         "update")]
    /\ UNCHANGED <<vte, primary, posted>>

\* The window is closed, by Close or by its title bar, which is always there;
\* with the last of them the process ends.
Closes(w) ==
    /\ win[w].open
    /\ win' = [win EXCEPT ![w].open = FALSE]
    /\ posted' = [posted EXCEPT ![w] = <<>>]
    /\ primary' = IF \E u \in Windows \ {w} : win[u].open THEN primary ELSE "none"
    /\ UNCHANGED vte

\* The user starts the program, and clicks.
User ==
    \E w \in Windows :
        \/ \E asked \in Modes : Launch(w, asked)
        \/ UpdateNow(w)
        \/ Closes(w)

\* What the command does.
Command(w) ==
    \/ Spawned(w) \/ SpawnFails(w) \/ ReadFails(w)
    \/ \E success \in BOOLEAN : Exits(w, success)

UpdateNext ==
    \/ User
    \/ \E w \in Windows : Command(w) \/ Finish(w)

\* The main loop runs what is queued.  Users owe nothing, and neither does a
\* command: pacman may wait for a password for ever.
UpdateFairness == \A w \in Windows : WF_updateVars(Finish(w))

UpdateSpec == UpdateInit /\ [][UpdateNext]_updateVars /\ UpdateFairness

---------------------------------------------------------------------------
(* Properties.                                                             *)

\* A window offers to be closed, and stops its progress bar, only when its own
\* command is over: not while an answer to an earlier command of the window is
\* still queued that would be taken for one to this.  The command whose output
\* could not be read is the exception.
CloseMeansOver ==
    \A w \in Windows :
        (win[w].open /\ (win[w].close \/ ~win[w].pulsing))
            => win[w].stage \in {"over", "unread"}

\* What the banner says of an update is how the update of this window ended,
\* and the reboot is offered only after one that went well.
BannerTells ==
    \A w \in Windows :
        win[w].open =>
            /\ win[w].title = "update complete" \/ win[w].reboot
                 => /\ win[w].command = "update" /\ win[w].stage = "over"
                    /\ win[w].result
            /\ win[w].title \in {"update errors", "check errors"} => ~win[w].result

\* However a command ends, or if it cannot be started at all, its window can
\* be closed in the end.
CloseComes ==
    \A w \in Windows :
        (win[w].open /\ win[w].stage = "over") ~> (win[w].close \/ ~win[w].open)
=============================================================================
