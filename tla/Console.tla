------------------------------ MODULE Console ------------------------------
(***************************************************************************)
(* The kernel's console: the keyboard's bytes, the keyboard driver, the    *)
(* shell's line buffer (kernel/shell.c) and the screen, from kernel_main   *)
(* (kernel/kernel.c) on.  There are no interrupts: the kernel polls the    *)
(* controller, so a key can be pressed or released between any two of its  *)
(* steps and its bytes wait on the wire until the shell reads them.        *)
(*                                                                         *)
(* Output is a sequence still to be printed, one vga_putchar a step.       *)
(***************************************************************************)
EXTENDS Vga, Keyboard, FiniteSets

CONSTANTS
    Keys,        \* the keys of the keyboard
    Make, Break, \* the bytes a key sends when it goes down and up, by whether
                 \* a shift key is down with it
    MaxCmd,      \* MAX_CMD
    Prompt,      \* "torrentos > "
    Splash,      \* the boot text
    MagicNote,   \* what kernel_main adds for an unexpected boot magic
    Reports,     \* help, version, about: [the command -> what it prints]
    ClearCmd, RebootCmd, HaltCmd,
    RebootText, HaltText,
    UnknownHead, UnknownTail, \* what surrounds the text of an unknown command
    MaxWire,     \* bound: bytes that wait to be read when a key moves
    MaxSlips     \* bound: backspaces per line the screen could not follow

Printable == Glyphs \cup {Newline}
Typed     == Glyphs \cup {Newline, Backspace}

ASSUME ConsoleAssumption ==
    /\ MaxCmd \in Nat \ {0}
    /\ Make \in [Keys -> [BOOLEAN -> Seq(Bytes)]]
    /\ Break \in [Keys -> [BOOLEAN -> Seq(Bytes)]]
    /\ NoChar \notin Chars
    /\ Normal \in [TableCodes -> Typed \cup {NoChar}]
    /\ Shifted \in [TableCodes -> Typed \cup {NoChar}]
    /\ LowerOf \in [Letters -> Glyphs] /\ UpperOf \in [Letters -> Glyphs]
    /\ {Prompt, Splash, MagicNote, RebootText, HaltText, UnknownHead,
        UnknownTail} \subseteq Seq(Printable)
    /\ \A cmd \in DOMAIN Reports : Reports[cmd] \in Seq(Printable)
    /\ MaxWire \in Nat /\ MaxSlips \in Nat

\* Shift in the bytes of a key.  The grey keys raise or lower it for their own
\* sake: PrtSc pretends a shift and takes it back, an arrow pressed under a
\* shift key lowers it and raises it again when it goes up.
Raises(b)      == IsShift(b)
Lowers(b)      == IsRelease(b) /\ IsShift(b - 128)
RaisesShift(k) == \E d \in BOOLEAN : \E i \in DOMAIN Make[k][d] : Raises(Make[k][d][i])
ShiftKey(k)    == Make[k][FALSE] \in {<<LShift>>, <<RShift>>}
ShiftDown(ks)  == \E k \in ks : ShiftKey(k)

\* Of a keyboard that has no shift key down any more: a key that goes up
\* raises nothing, and takes back what its own press may have raised.
ASSUME ShiftAssumption ==
    \A k \in Keys :
        /\ \A i \in DOMAIN Break[k][FALSE] : ~Raises(Break[k][FALSE][i])
        /\ RaisesShift(k) => \E i \in DOMAIN Break[k][FALSE] : Lowers(Break[k][FALSE][i])

VARIABLES
    held,     \* the keys that are down
    wire,     \* bytes the keyboard has sent and nobody has read
    shift,    \* the driver's flags
    caps,
    screen,   \* text, position and hardware cursor
    line,     \* buf[0 .. pos - 1] of shell_run
    out,      \* what the kernel has still to print
    mode,     \* where the kernel is
    origin,   \* auxiliary: the cell where the input of this line began,
              \* counted from the top left cell, negative once scrolled off
    slips     \* auxiliary: backspaces of this line at the left edge

keyVars  == <<held, wire>>
flagVars == <<shift, caps>>
lineVars == <<line, origin, slips>>
vars == <<keyVars, flagVars, screen, lineVars, out, mode>>

Modes == {"splash", "shell", "resetting", "halted"}

TypeOK ==
    /\ held \subseteq Keys
    /\ wire \in Seq(Bytes)
    /\ shift \in BOOLEAN /\ caps \in BOOLEAN
    /\ screen \in Screens
    /\ line \in Seq(Glyphs) /\ Len(line) < MaxCmd
    /\ out \in Seq(Printable)
    /\ mode \in Modes
    /\ origin \in Int /\ slips \in Nat

\* What kernel_main prints up to its keyboard_init.
BootTexts == {Splash, Splash \o MagicNote}

\* Behind vga_init and the vga_clear of print_splash.
Init ==
    /\ held = {} /\ wire = <<>>
    /\ shift = FALSE /\ caps = FALSE
    /\ screen = [row |-> 0, col |-> 0, text |-> BlankText, cursor |-> 0]
    /\ line = <<>> /\ origin = 0 /\ slips = 0
    /\ out \in BootTexts
    /\ mode = "splash"

---------------------------------------------------------------------------
(* The keyboard.                                                           *)

Sends(bytes) ==
    /\ Len(wire) <= MaxWire
    /\ wire' = wire \o bytes

\* A key goes down; a key held down repeats.
Press(k) ==
    /\ Sends(Make[k][ShiftDown(held \ {k})])
    /\ held' = held \cup {k}
    /\ UNCHANGED <<flagVars, screen, lineVars, out, mode>>

Release(k) ==
    /\ k \in held
    /\ Sends(Break[k][ShiftDown(held \ {k})])
    /\ held' = held \ {k}
    /\ UNCHANGED <<flagVars, screen, lineVars, out, mode>>

---------------------------------------------------------------------------
(* The kernel.                                                             *)

\* One vga_putchar of vga_print.
PrintOne ==
    /\ out # <<>>
    /\ screen' = PutChar(screen, Head(out))
    /\ out' = Tail(out)
    /\ origin' = screen'.cursor
    /\ UNCHANGED <<keyVars, flagVars, line, slips, mode>>

\* keyboard_init drains what was typed over the splash; shell_run prompts.
KeyboardInit ==
    /\ mode = "splash" /\ out = <<>>
    /\ wire' = <<>>
    /\ shift' = FALSE /\ caps' = FALSE
    /\ mode' = "shell"
    /\ out' = Prompt
    /\ UNCHANGED <<held, screen, lineVars>>

\* The reset pulse of cmd_reboot: the firmware eats the pending bytes and
\* starts the kernel again.
Reset ==
    /\ mode = "resetting" /\ out = <<>>
    /\ wire' = <<>>
    /\ screen' = ClearScreen(screen)
    /\ line' = <<>> /\ origin' = 0 /\ slips' = 0
    /\ shift' = FALSE /\ caps' = FALSE
    /\ out' \in BootTexts
    /\ mode' = "splash"
    /\ UNCHANGED held

\* while (*cmd == ' ') cmd++;
Leading(s)    == {i \in 1 .. Len(s) : \A j \in 1 .. i : s[j] = Blank}
SkipSpaces(s) == SubSeq(s, Cardinality(Leading(s)) + 1, Len(s))

\* What the kernel does behind a command: it prints and goes on in mode m.
Proceed(s, text, m) ==
    /\ screen' = s
    /\ out' = text
    /\ mode' = m
    /\ line' = <<>> /\ origin' = s.cursor /\ slips' = 0

IsKnown(cmd) == cmd \in DOMAIN Reports \cup {<<>>, ClearCmd, RebootCmd, HaltCmd}

\* run_command, on the screen s; the shell then prompts.
RunCommand(cmd, s) ==
    \/ cmd = <<>> /\ Proceed(s, Prompt, "shell")
    \/ cmd \in DOMAIN Reports /\ Proceed(s, Reports[cmd] \o Prompt, "shell")
    \/ cmd = ClearCmd  /\ Proceed(ClearScreen(s), Prompt, "shell")
    \/ cmd = RebootCmd /\ Proceed(s, RebootText, "resetting")
    \/ cmd = HaltCmd   /\ Proceed(s, HaltText, "halted")
    \/ /\ ~IsKnown(cmd)
       /\ Proceed(s, UnknownHead \o cmd \o <<Newline>> \o UnknownTail \o Prompt,
                  "shell")

\* '\n' ends the line.
Enter == RunCommand(SkipSpaces(line), PutChar(screen, Newline))

\* Mutant: the driver is asked to erase even where the line is empty.
EraseAlways ==
    /\ screen.col = 0 /\ line # <<>> => slips < MaxSlips
    /\ line' = IF line = <<>> THEN line ELSE SubSeq(line, 1, Len(line) - 1)
    /\ screen' = PutChar(screen, Backspace)
    /\ slips' = IF screen.col = 0 /\ line # <<>> THEN slips + 1 ELSE slips
    /\ UNCHANGED <<out, mode, origin>>

\* '\b' takes the last character from the line and, unless it stands at the
\* end of the row above, from the screen.
Erase ==
    \/ line = <<>> /\ UNCHANGED <<screen, lineVars, out, mode>>
    \/ /\ line # <<>>
       /\ screen.col = 0 => slips < MaxSlips
       /\ line' = SubSeq(line, 1, Len(line) - 1)
       /\ screen' = PutChar(screen, Backspace)
       /\ slips' = IF screen.col = 0 THEN slips + 1 ELSE slips
       /\ UNCHANGED <<out, mode, origin>>

\* Mutant: the terminator's place is given away.
EchoFull(c) ==
    /\ line' = IF Len(line) < MaxCmd THEN Append(line, c) ELSE line
    /\ screen' = PutChar(screen, c)
    /\ origin' = IF Scrolls(screen, c) THEN origin - Width ELSE origin
    /\ UNCHANGED <<slips, out, mode>>

\* Any other character is kept and shown while there is room for it.
Echo(c) ==
    \/ /\ Len(line) < MaxCmd - 1
       /\ line' = Append(line, c)
       /\ screen' = PutChar(screen, c)
       /\ origin' = IF Scrolls(screen, c) THEN origin - Width ELSE origin
       /\ UNCHANGED <<slips, out, mode>>
    \/ /\ Len(line) = MaxCmd - 1
       /\ UNCHANGED <<screen, lineVars, out, mode>>

\* The shell waits for a key.
Reading == mode = "shell" /\ out = <<>>

\* One byte through keyboard_getchar and, if it is a character, shell_run.
ReadByte ==
    /\ Reading
    /\ wire # <<>>
    /\ LET sc == Head(wire)
           c  == CharOf(shift, caps, sc)
       IN  /\ shift' = ShiftAfter(shift, sc)
           /\ caps' = CapsAfter(caps, sc)
           /\ \/ c = NoChar /\ UNCHANGED <<screen, lineVars, out, mode>>
              \/ c = Newline /\ Enter
              \/ c = Backspace /\ Erase
              \/ c \in Glyphs /\ Echo(c)
    /\ wire' = Tail(wire)
    /\ UNCHANGED held

Next ==
    \/ \E k \in Keys : Press(k) \/ Release(k)
    \/ PrintOne
    \/ KeyboardInit
    \/ Reset
    \/ ReadByte

Spec == Init /\ [][Next]_vars

---------------------------------------------------------------------------
(* Properties.                                                             *)

Cell(n) == screen.text[n \div Width][n % Width]

\* What stands on the screen is what Enter will run: the cursor is as far
\* behind the start of the input as the line is long, and the cells between
\* them show the line, the part that scrolled off apart.  A backspace at the
\* left edge is the exception: the line loses a character the screen keeps.
SeenIsRun ==
    /\ screen.cursor = origin + Len(line) + slips
    /\ slips = 0 =>
         \A i \in 1 .. Len(line) :
             origin + i - 1 >= 0 => Cell(origin + i - 1) = line[i]

\* Nothing is left standing at or behind the cursor: rubbing out, wrapping,
\* scrolling and clearing leave no stale text where the next output goes.
AheadBlank(s) ==
    \A r \in Rows, c \in Cols :
        r > s.row \/ (r = s.row /\ c >= s.col) => s.text[r][c] = Blank
AheadIsBlank == AheadBlank(screen)

\* The rows above the cursor are never rewritten: they stay, move up by one
\* together, or are cleared by the clear command or a reset.
Clearing ==
    \/ mode = "resetting" /\ mode' = "splash"
    \/ SkipSpaces(line) = ClearCmd /\ line' = <<>>
AboveKept ==
    \/ \A r \in 0 .. screen.row - 1 : screen'.text[r] = screen.text[r]
    \/ /\ screen.row = Height - 1
       /\ \A r \in 1 .. screen.row - 1 : screen'.text[r - 1] = screen.text[r]
    \/ Clearing
HistoryKept == [][AboveKept]_vars

\* Shift does not stick: once the driver has read all there is, the flag is
\* up only if a key is down whose press raises it.
NoStuckShift ==
    shift /\ wire = <<>> => \E k \in held : RaisesShift(k)
=============================================================================
