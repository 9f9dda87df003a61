----------------------------- MODULE MCPrograms -----------------------------
(***************************************************************************)
(* The programs that share nothing with the settings or with each other,   *)
(* for TLC: in a behaviour one of them runs, and the others are as they    *)
(* are before they have done anything.                                     *)
(***************************************************************************)
EXTENDS Background, UpdateWindow

CONSTANTS Checkers, Timer, Cooldown, MaxFailures, MaxClicks,
          Size, Bytes, MemsetInt,
          MaxThreads  \* bound: the scans and attempts of a behaviour

\* What the tools' bounds are; the strings' bytes are what they fill with.
\* nmcli may list nothing.
ASSUME ToolsAssumption ==
    /\ <<>> \in Airs
    /\ MaxClicks \in Nat /\ MaxFailures \in Nat /\ Cooldown \in Nat
    /\ Size \in Nat \ {0} /\ MemsetInt \in Int
    /\ Bytes \subseteq 0 .. 255 /\ {0, MemsetInt % 256} \subseteq Bytes

VARIABLES
    runs,
    quiet, nvidia, at, rest, okCount, warn, fail, running, status,
    mode, visible, onScreen, due, held, last, dialog, spoiled, crowded, late,
    raised, clicks,
    pc, pending, age, quietFor, told, stale, raced, failures,
    fn, first, second, n, moved, phase, ret, first0, n0

DoctorTool  == INSTANCE Doctor
Pictures    == INSTANCE Screenshot
Checker     == INSTANCE UpdateCheck
Strings     == INSTANCE KernelString

\* Background: an empty list, and one with a hidden network, a name twice, the
\* one in use neither first nor strongest, a tie, and more names than MaxShown.
Line(ssid, signal, used) == [ssid |-> ssid, signal |-> signal, used |-> used]

MCAirs ==
    {<<>>,
     <<Line("", 99, FALSE), Line("cafe", 70, FALSE), Line("home", 60, TRUE),
       Line("work", 70, FALSE), Line("home", 90, FALSE)>>}

---------------------------------------------------------------------------
Programs == {"threads", "update-gui", "doctor", "screenshot", "update-check",
             "string.c"}
Runs(p) == runs = p

\* Background before the wizard has made its WiFi page.
NoPage ==
    /\ program = "wizard" /\ queue = <<>>
    /\ scan = [i \in Scans |-> [stage |-> "unborn", lines |-> <<>>]]
    /\ rows = <<>> /\ label = "none" /\ selected = Nothing
    /\ attempt = [a \in Attempts |-> [stage |-> "unborn", ssid |-> Nothing, ok |-> FALSE]]
    /\ connect = [enabled |-> TRUE, told |-> ""] /\ info = Nothing
    /\ install = [enabled |-> TRUE, told |-> "", timer |-> FALSE, clicks |-> 0]
    /\ air = <<>> /\ connected = Nothing /\ changes = 0
    /\ source = <<>> /\ since = {<<>>} /\ overlap = FALSE

\* No program has called a function of the kernel's library.
NoCall ==
    /\ fn = "strlen" /\ first = [k \in 0 .. Size |-> 0] /\ second = first
    /\ n = 0 /\ moved = 0 /\ phase = "loop" /\ ret = 0
    /\ first0 = first /\ n0 = 0

\* Of the threads of both kinds not all are started in one behaviour.
FewThreads ==
    Cardinality({i \in Scans : scan[i].stage # "unborn"})
        + Cardinality({a \in Attempts : attempt[a].stage # "unborn"})
    <= MaxThreads

ProgramsInit ==
    /\ runs \in Programs
    /\ IF Runs("threads") THEN Init ELSE NoPage
    /\ UpdateInit /\ (vte \/ Runs("update-gui"))
    /\ DoctorTool!Init /\ (Runs("doctor") \/ (~quiet /\ ~nvidia))
    /\ Pictures!Init
    /\ Checker!Init
    /\ IF Runs("string.c") THEN Strings!Init ELSE NoCall

\* Each program's own variables.
doctorVars  == <<quiet, nvidia, at, rest, okCount, warn, fail, running, status>>
pictureVars == <<mode, visible, onScreen, due, held, last, dialog, spoiled,
                 crowded, late, raised, clicks>>
checkerVars == <<pc, pending, age, quietFor, told, stale, raced, failures>>
stringsVars == <<fn, first, second, n, moved, phase, ret, first0, n0>>

ProgramsNext ==
    /\ UNCHANGED runs
    /\ \/ Runs("threads") /\ Next /\ FewThreads'
       \/ ~Runs("threads") /\ UNCHANGED vars
    /\ \/ Runs("update-gui") /\ UpdateNext
       \/ ~Runs("update-gui") /\ UNCHANGED updateVars
    /\ \/ Runs("doctor") /\ DoctorTool!Next
       \/ ~Runs("doctor") /\ UNCHANGED doctorVars
    /\ \/ Runs("screenshot") /\ Pictures!Next
       \/ ~Runs("screenshot") /\ UNCHANGED pictureVars
    /\ \/ Runs("update-check") /\ Checker!Next
       \/ ~Runs("update-check") /\ UNCHANGED checkerVars
    /\ \/ Runs("string.c") /\ Strings!Next
       \/ ~Runs("string.c") /\ UNCHANGED stringsVars

programsVars == <<runs, vars, updateVars, doctorVars, pictureVars, checkerVars,
                  stringsVars>>

\* Each program's own fairness; what could go on in a program that is not the
\* one that runs has to be left out.
ProgramsFairness ==
    /\ Fairness /\ UpdateFairness /\ Pictures!Fairness
    /\ WF_checkerVars(Runs("update-check") /\ Checker!Hour)
    /\ WF_checkerVars(Runs("update-check") /\ Checker!Starts(Timer))
    /\ \A c \in Checkers : WF_checkerVars(Checker!Script(c))

ProgramsSpec == ProgramsInit /\ [][ProgramsNext]_programsVars /\ ProgramsFairness

---------------------------------------------------------------------------
(* The properties of the programs whose modules are instances here.        *)

\* Every tool keeps its variables in their ranges, the strings' bytes, counters
\* and statuses among them.
ToolsTypeOK ==
    /\ UpdateTypeOK /\ DoctorTool!DoctorTypeOK /\ Pictures!ScreenshotTypeOK
    /\ Checker!CheckTypeOK /\ Strings!StringTypeOK

\* torrentos-doctor: the exit status claims no more than was looked at.
StatusTells == DoctorTool!StatusTells

\* torrentos-screenshot: one capture at a time never has the tool's window in
\* a picture of the screen or of another window.
OneAtATime == Pictures!OneAtATime

\* torrentos-screenshot: Save As copies the picture whose name it proposed.
SavesWhatWasOffered == Pictures!SavesWhatWasOffered

\* torrentos-screenshot: a window that was hidden comes back.
ComesBack == Pictures!ComesBack

\* torrentos-update-check: at most one notification in the hours of silence.
OnceUnlessRaced == Checker!OnceUnlessRaced

\* torrentos-update-check: the user is told of updates that stay.
TellsInTheEnd == Checker!TellsInTheEnd

\* kernel/string.c: results are right, and neighbours left alone.
RightResult == Strings!RightResult
=============================================================================
