----------------------------- MODULE Screenshot -----------------------------
(***************************************************************************)
(* torrentos-screenshot: a window that hides itself, waits until it is     *)
(* gone from the screen, has grim take a picture and comes back.           *)
(*                                                                         *)
(* Waiting is a GLib timer that runs _do_capture.  Nothing stops the user  *)
(* from clicking Capture again while one is set.  The compositor takes a   *)
(* hidden window off the screen within the 200 ms the code allows for it.  *)
(***************************************************************************)
EXTENDS Naturals

CONSTANT MaxClicks  \* bound: clicks on Capture

VARIABLES
    mode,      \* the radio button that is active, read when the timer runs
    visible,   \* get_visible()
    onScreen,  \* the compositor still shows the window
    due,       \* timers that may run
    held,      \* timers set as the window was hidden: it will be gone by then
    last,      \* the number of the last picture (_last_path), 0 before any
    dialog,    \* the picture the save dialog was opened for, 0 if closed
    spoiled,   \* auxiliary: a picture of the screen or of another window
               \* has the tool's window in it
    crowded,   \* auxiliary: Capture was clicked with a capture on its way
    late,      \* auxiliary: so was the save dialog opened
    raised,    \* auxiliary: _do_capture has raised
    clicks     \* auxiliary: clicks so far

vars == <<mode, visible, onScreen, due, held, last, dialog, spoiled, crowded,
          late, raised, clicks>>

Modes == {"region", "full", "window"}

ScreenshotTypeOK ==
    /\ mode \in Modes
    /\ visible \in BOOLEAN /\ onScreen \in BOOLEAN
    /\ due \in 0 .. MaxClicks /\ held \in 0 .. MaxClicks
    /\ last \in 0 .. MaxClicks /\ dialog \in 0 .. last
    /\ spoiled \in BOOLEAN /\ crowded \in BOOLEAN
    /\ late \in BOOLEAN /\ raised \in BOOLEAN
    /\ clicks \in 0 .. MaxClicks

Init ==
    /\ mode = "region"
    /\ visible = TRUE /\ onScreen = TRUE
    /\ due = 0 /\ held = 0
    /\ last = 0 /\ dialog = 0
    /\ spoiled = FALSE /\ crowded = FALSE /\ late = FALSE /\ raised = FALSE
    /\ clicks = 0

---------------------------------------------------------------------------
\* The save dialog is modal.
Usable == visible /\ dialog = 0

Choose(m) ==
    /\ Usable
    /\ mode' = m
    /\ UNCHANGED <<visible, onScreen, due, held, last, dialog, spoiled,
                   crowded, late, raised, clicks>>

\* Mutant: a button below the dialog can still be clicked.
OnCaptureAnyTime(delayed) ==
    /\ visible /\ clicks < MaxClicks
    /\ clicks' = clicks + 1
    /\ crowded' = (crowded \/ due + held > 0)
    /\ IF delayed THEN due' = due + 1 /\ UNCHANGED <<visible, held>>
                  ELSE visible' = FALSE /\ held' = held + 1 /\ UNCHANGED due
    /\ UNCHANGED <<mode, onScreen, last, dialog, spoiled, late, raised>>

\* _on_capture: with a delay the window stays.
OnCapture(delayed) ==
    /\ Usable /\ clicks < MaxClicks
    /\ clicks' = clicks + 1
    /\ crowded' = (crowded \/ due + held > 0)
    /\ IF delayed THEN due' = due + 1 /\ UNCHANGED <<visible, held>>
                  ELSE visible' = FALSE /\ held' = held + 1 /\ UNCHANGED due
    /\ UNCHANGED <<mode, onScreen, last, dialog, spoiled, late, raised>>

\* The hidden window is gone from the screen.
Settles ==
    /\ ~visible /\ onScreen
    /\ onScreen' = FALSE
    /\ due' = due + held /\ held' = 0
    /\ UNCHANGED <<mode, visible, last, dialog, spoiled, crowded, late,
                   raised, clicks>>

MustHide == mode \in {"full", "window"} /\ visible

\* Mutant: hidden, but not waited for.
HidesAtOnce ==
    /\ due > 0 /\ MustHide
    /\ visible' = FALSE
    /\ UNCHANGED <<mode, onScreen, due, held, last, dialog, spoiled, crowded,
                   late, raised, clicks>>

\* _do_capture finds the window in the way and sets another timer.
Hides ==
    /\ due > 0 /\ MustHide
    /\ visible' = FALSE
    /\ due' = due - 1 /\ held' = held + 1
    /\ UNCHANGED <<mode, onScreen, last, dialog, spoiled, crowded, late,
                   raised, clicks>>

\* set_visible(True); a timer set for a hiding before it is now one like others.
ComeBack ==
    /\ visible' = TRUE /\ onScreen' = TRUE
    /\ due' = due - 1 + held /\ held' = 0

\* _do_capture to its end: grim, preview, banner.  The main loop waits for it.
Takes ==
    /\ due > 0 /\ ~MustHide
    /\ last' = last + 1
    /\ spoiled' = (spoiled \/ (onScreen /\ mode # "region"))
    /\ ComeBack
    /\ UNCHANGED <<mode, dialog, crowded, late, raised, clicks>>

\* Mutant: the window is left hidden.
CancelledHidden ==
    /\ due > 0 /\ ~MustHide
    /\ due' = due - 1
    /\ UNCHANGED <<mode, visible, onScreen, held, last, dialog, spoiled,
                   crowded, late, raised, clicks>>

\* slurp, grim or hyprctl ends with an error: CalledProcessError.
Cancelled ==
    /\ due > 0 /\ ~MustHide
    /\ ComeBack
    /\ UNCHANGED <<mode, last, dialog, spoiled, crowded, late, raised, clicks>>

\* What _do_capture does not catch: the directory cannot be made, a program
\* cannot be started.  The timer is gone.
Raises ==
    /\ due > 0
    /\ due' = due - 1
    /\ raised' = TRUE
    /\ UNCHANGED <<mode, visible, onScreen, held, last, dialog, spoiled,
                   crowded, late, clicks>>

\* _on_save_as: the dialog proposes the name of the last picture.
OnSaveAs ==
    /\ Usable /\ last > 0
    /\ dialog' = last
    /\ late' = (due + held > 0)
    /\ UNCHANGED <<mode, visible, onScreen, due, held, last, spoiled, crowded,
                   raised, clicks>>

\* _save_as_done copies the picture that is the last by then, or nothing.
SaveAsDone ==
    /\ dialog > 0
    /\ dialog' = 0
    /\ UNCHANGED <<mode, visible, onScreen, due, held, last, spoiled, crowded,
                   late, raised, clicks>>

User ==
    \/ \E m \in Modes : Choose(m)
    \/ \E delayed \in BOOLEAN : OnCapture(delayed)
    \/ OnSaveAs \/ SaveAsDone

DoCapture == Hides \/ Takes \/ Cancelled \/ Raises

Next == User \/ Settles \/ DoCapture

\* The compositor and the timers do their part; the user owes nothing, but
\* drags a region or gives up on it.
Fairness == WF_vars(Settles) /\ WF_vars(DoCapture)

Spec == Init /\ [][Next]_vars /\ Fairness

---------------------------------------------------------------------------
(* Properties.                                                             *)

\* One capture at a time, its delay and its mode chosen at will, never has the
\* window in a picture that is not of a region.
OneAtATime == crowded \/ ~spoiled

\* What Save As copies is the picture whose name the dialog proposed, unless
\* a capture was on its way as it was opened.
SavesWhatWasOffered == dialog > 0 => dialog = last \/ late

\* The window comes back, however many captures overlap and fail, unless
\* _do_capture raised.
ComesBack == ~visible ~> (visible \/ raised)
=============================================================================
