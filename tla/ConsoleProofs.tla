--------------------------- MODULE ConsoleProofs ---------------------------
(***************************************************************************)
(* Proofs about Console, for any screen size, keyboard, command table and  *)
(* line length.                                                            *)
(***************************************************************************)
EXTENDS Console, SequenceTheorems, FiniteSetTheorems, TLAPS

\* The strengthening under which both invariants are inductive: neither
\* alone says enough about the screen a step starts from.
IInv == TypeOK /\ AheadIsBlank

\* s is a screen with nothing at or behind the cursor.
Clean(s) == s \in Screens /\ AheadBlank(s)

---------------------------------------------------------------------------
(* The VGA driver.                                                         *)

\* The hardware cursor does not matter to the text.
LEMMA CursorClean ==
    ASSUME NEW s, s.row \in Rows, s.col \in Cols, Clean(s)
    PROVE  Clean(UpdateCursor(s))
<1>1. s.row * Width + s.col \in Nat
  BY VgaAssumption DEF Rows, Cols
<1> QED BY <1>1 DEF Clean, UpdateCursor, Screens, AheadBlank

\* A scroll of a screen that is clean up to its row leaves a clean screen.
LEMMA ScrollClean ==
    ASSUME NEW s \in Screens,
           s.row = Height - 1, s.col = 0
    PROVE  Clean(Scroll(s))
<1> DEFINE T == [r \in Rows |-> IF r + 1 \in Rows THEN s.text[r + 1]
                                ELSE [c \in Cols |-> Blank]]
<1>1. T \in Texts
  <2>1. [c \in Cols |-> Blank] \in [Cols -> Glyphs]
    BY VgaAssumption
  <2> QED BY <2>1 DEF Texts, Screens
<1>2. Height - 1 \in Rows
  BY VgaAssumption DEF Rows
<1>3. Scroll(s) = [s EXCEPT !.text = T, !.row = Height - 1]
  BY DEF Scroll
<1>4. \A r \in Rows, c \in Cols : r >= Height - 1 => T[r][c] = Blank
  BY VgaAssumption DEF Rows
<1> HIDE DEF T
<1>5. Scroll(s) \in Screens
  BY <1>1, <1>2, <1>3 DEF Screens
<1>6. Scroll(s).text = T /\ Scroll(s).row = Height - 1
  BY <1>3 DEF Screens
<1>7. AheadBlank(Scroll(s))
  BY <1>4, <1>6, VgaAssumption DEF AheadBlank, Rows
<1> QED BY <1>5, <1>7 DEF Clean

\* Going to the next row from its start: below the row there is nothing.
LEMMA NextRowClean ==
    ASSUME NEW s \in Screens, s.col = 0,
           \A r \in Rows, c \in Cols : r > s.row => s.text[r][c] = Blank
    PROVE  Clean(NextRow(s))
<1>1. CASE s.row + 1 = Height
  <2>1. s.row = Height - 1
    BY <1>1, VgaAssumption DEF Screens, Rows
  <2> QED BY <1>1, <2>1, ScrollClean DEF NextRow
<1>2. CASE s.row + 1 # Height
  <2> DEFINE t == [s EXCEPT !.row = @ + 1]
  <2>1. NextRow(s) = t
    BY <1>2 DEF NextRow
  <2>2. s.row + 1 \in Rows
    BY <1>2, VgaAssumption DEF Screens, Rows
  <2>3. t \in Screens
    BY <2>2 DEF Screens
  <2>4. t.row = s.row + 1 /\ t.text = s.text
    BY DEF Screens
  <2>5. AheadBlank(t)
    BY <2>4, VgaAssumption DEF AheadBlank, Screens, Rows, Cols
  <2> QED BY <2>1, <2>3, <2>5 DEF Clean
<1> QED BY <1>1, <1>2

\* What a store into a cell does to the screen.
LEMMA SetCellScreen ==
    ASSUME NEW s \in Screens, NEW r \in Rows, NEW c \in Cols, NEW g \in Glyphs
    PROVE  /\ SetCell(s, r, c, g) \in Screens
           /\ SetCell(s, r, c, g).row = s.row
           /\ SetCell(s, r, c, g).col = s.col
           /\ SetCell(s, r, c, g).text[r][c] = g
           /\ \A q \in Rows, d \in Cols :
                 q # r \/ d # c => SetCell(s, r, c, g).text[q][d] = s.text[q][d]
<1> DEFINE T == [s.text EXCEPT ![r] = [s.text[r] EXCEPT ![c] = g]]
<1>1. s.text \in [Rows -> [Cols -> Glyphs]]
  BY DEF Screens, Texts
<1>2. T \in Texts
  BY <1>1 DEF Texts
<1>3. T[r][c] = g
  BY <1>1
<1>4. \A q \in Rows, d \in Cols : q # r \/ d # c => T[q][d] = s.text[q][d]
  BY <1>1
<1>5. SetCell(s, r, c, g) = [s EXCEPT !.text = T]
  BY DEF SetCell
<1> HIDE DEF T
<1> QED BY <1>2, <1>3, <1>4, <1>5 DEF Screens

\* '\b' keeps the screen clean.
LEMMA RuboutClean ==
    ASSUME NEW s, Clean(s)
    PROVE  Clean(Rubout(s))
<1> USE DEF Clean
<1>1. CASE s.col > 0
  <2> DEFINE t == SetCell(s, s.row, s.col - 1, Blank)
             u == [t EXCEPT !.col = @ - 1]
  <2>1. s.row \in Rows /\ s.col - 1 \in Cols /\ Blank \in Glyphs
    BY <1>1, VgaAssumption DEF Screens, Cols
  <2>2. /\ t \in Screens /\ t.row = s.row /\ t.col = s.col
        /\ t.text[s.row][s.col - 1] = Blank
        /\ \A q \in Rows, d \in Cols :
              q # s.row \/ d # s.col - 1 => t.text[q][d] = s.text[q][d]
    BY <2>1, SetCellScreen
  <2>3. Rubout(s) = u
    BY <1>1 DEF Rubout
  <2> HIDE DEF t
  <2>4. u \in Screens
    BY <2>1, <2>2 DEF Screens
  <2>5. u.row = s.row /\ u.col = s.col - 1 /\ u.text = t.text
    BY <2>2 DEF Screens
  <2> HIDE DEF u
  <2>6. AheadBlank(u)
    <3> SUFFICES ASSUME NEW r \in Rows, NEW c \in Cols,
                        r > s.row \/ (r = s.row /\ c >= s.col - 1)
                 PROVE  t.text[r][c] = Blank
      BY <2>5 DEF AheadBlank
    <3>1. CASE r = s.row /\ c = s.col - 1
      BY <3>1, <2>2
    <3>2. CASE ~(r = s.row /\ c = s.col - 1)
      <4>1. t.text[r][c] = s.text[r][c]
        BY <3>2, <2>2
      <4>2. r > s.row \/ (r = s.row /\ c >= s.col)
        BY <3>2 DEF Screens, Cols, Rows
      <4> QED BY <4>1, <4>2 DEF AheadBlank
    <3> QED BY <3>1, <3>2
  <2> QED BY <2>3, <2>4, <2>6
<1>2. CASE ~(s.col > 0)
  BY <1>2 DEF Rubout
<1> QED BY <1>1, <1>2

\* A stored character keeps the screen clean.
LEMMA StoreClean ==
    ASSUME NEW s, Clean(s), NEW g \in Glyphs
    PROVE  Clean(Store(s, g))
<1> USE DEF Clean
<1> DEFINE t == SetCell(s, s.row, s.col, g)
<1>1. s.row \in Rows /\ s.col \in Cols
  BY DEF Screens
<1>2. /\ t \in Screens /\ t.row = s.row /\ t.col = s.col
      /\ \A q \in Rows, d \in Cols :
            q # s.row \/ d # s.col => t.text[q][d] = s.text[q][d]
  BY <1>1, SetCellScreen
<1>3. \A q \in Rows, d \in Cols :
         q > s.row \/ (q = s.row /\ d > s.col) => t.text[q][d] = Blank
  <2> SUFFICES ASSUME NEW q \in Rows, NEW d \in Cols,
                      q > s.row \/ (q = s.row /\ d > s.col)
               PROVE  t.text[q][d] = Blank
    OBVIOUS
  <2>1. q # s.row \/ d # s.col
    BY <1>1 DEF Rows, Cols
  <2>2. t.text[q][d] = s.text[q][d]
    BY <1>2, <2>1
  <2>3. q > s.row \/ (q = s.row /\ d >= s.col)
    BY <1>1 DEF Rows, Cols
  <2> QED BY <2>2, <2>3 DEF AheadBlank
<1>4. Store(s, g) = IF s.col + 1 = Width THEN NextRow([t EXCEPT !.col = 0])
                                         ELSE [t EXCEPT !.col = @ + 1]
  BY DEF Store
<1> HIDE DEF t
<1>5. CASE s.col + 1 = Width
  <2> DEFINE u == [t EXCEPT !.col = 0]
  <2>1. 0 \in Cols
    BY VgaAssumption DEF Cols
  <2>2. u \in Screens /\ u.col = 0 /\ u.row = s.row /\ u.text = t.text
    BY <1>2, <2>1 DEF Screens
  <2> HIDE DEF u
  <2>3. \A r \in Rows, c \in Cols : r > u.row => u.text[r][c] = Blank
    BY <1>3, <2>2
  <2>4. Clean(NextRow(u))
    BY <2>2, <2>3, NextRowClean
  <2> QED BY <1>4, <1>5, <2>4 DEF u
<1>6. CASE s.col + 1 # Width
  <2> DEFINE u == [t EXCEPT !.col = @ + 1]
  <2>1. s.col + 1 \in Cols
    BY <1>1, <1>6, VgaAssumption DEF Cols
  <2>2. u \in Screens /\ u.col = s.col + 1 /\ u.row = s.row /\ u.text = t.text
    BY <1>2, <2>1 DEF Screens
  <2> HIDE DEF u
  <2>3. AheadBlank(u)
    BY <1>1, <1>3, <2>2 DEF AheadBlank, Rows, Cols
  <2> QED BY <1>4, <1>6, <2>2, <2>3 DEF u
<1> QED BY <1>5, <1>6

\* vga_putchar keeps the screen clean, for every character the kernel prints.
LEMMA PutCharClean ==
    ASSUME NEW s, Clean(s), NEW ch \in Glyphs \cup {Newline, Backspace}
    PROVE  Clean(PutChar(s, ch)) /\ PutChar(s, ch).cursor \in Nat
<1>1. ASSUME NEW t, Clean(t) PROVE Clean(UpdateCursor(t))
  BY <1>1, CursorClean DEF Clean, Screens
<1>2. CASE ch = Newline
  <2> DEFINE t == [s EXCEPT !.col = 0]
  <2>1. 0 \in Cols
    BY VgaAssumption DEF Cols
  <2>2. t \in Screens /\ t.col = 0 /\ t.row = s.row /\ t.text = s.text
    BY <2>1 DEF Clean, Screens
  <2>3. PutChar(s, ch) = UpdateCursor(NextRow(t))
    BY <1>2, VgaAssumption DEF PutChar
  <2> HIDE DEF t
  <2>4. \A r \in Rows, c \in Cols : r > t.row => t.text[r][c] = Blank
    BY <2>2 DEF Clean, AheadBlank
  <2>5. Clean(NextRow(t))
    BY <2>2, <2>4, NextRowClean
  <2> QED BY <1>1, <2>3, <2>5 DEF Clean, Screens
<1>3. CASE ch = Backspace
  <2>1. PutChar(s, ch) = UpdateCursor(Rubout(s))
    BY <1>3, VgaAssumption DEF PutChar
  <2> QED BY <1>1, <2>1, RuboutClean DEF Clean, Screens
<1>4. CASE ch \in Glyphs
  <2>1. PutChar(s, ch) = UpdateCursor(Store(s, ch))
    BY <1>4, VgaAssumption DEF PutChar
  <2> QED BY <1>1, <1>4, <2>1, StoreClean DEF Clean, Screens
<1> QED BY <1>2, <1>3, <1>4

\* So does vga_clear.
LEMMA ClearClean ==
    ASSUME NEW s \in Screens
    PROVE  Clean(ClearScreen(s)) /\ ClearScreen(s).cursor \in Nat
<1> DEFINE t == [s EXCEPT !.text = BlankText, !.row = 0, !.col = 0]
<1>1. BlankText \in Texts
  BY VgaAssumption DEF BlankText, Texts
<1>2. 0 \in Rows /\ 0 \in Cols
  BY VgaAssumption DEF Rows, Cols
<1>3. t \in Screens /\ t.text = BlankText
  BY <1>1, <1>2 DEF Screens
<1>4. ClearScreen(s) = UpdateCursor(t)
  BY DEF ClearScreen
<1> HIDE DEF t
<1>5. Clean(t)
  BY <1>3 DEF Clean, AheadBlank, BlankText
<1> QED BY <1>4, <1>5, CursorClean DEF Clean, Screens

---------------------------------------------------------------------------
(* The keyboard driver and the shell.                                      *)

\* keyboard_getchar returns a character that can be typed, or reads on.
LEMMA CharOfType ==
    ASSUME NEW s \in BOOLEAN, NEW k \in BOOLEAN, NEW sc \in Bytes
    PROVE  CharOf(s, k, sc) \in Typed \cup {NoChar}
<1>1. ASSUME NEW c \in Typed PROVE CapsUp(c) \in Typed
  BY <1>1, ConsoleAssumption DEF CapsUp, Typed
<1>2. ASSUME NEW c \in Typed PROVE CapsDown(c) \in Typed
  BY <1>2, ConsoleAssumption DEF CapsDown, Typed
<1>3. ASSUME NEW c \in Typed PROVE ApplyCaps(k, c) \in Typed
  BY <1>1, <1>2, <1>3 DEF ApplyCaps
<1> DEFINE c == IF s THEN Shifted[sc] ELSE Normal[sc]
<1>4. CASE sc \in TableCodes
  <2>1. c \in Typed \cup {NoChar}
    BY <1>4, ConsoleAssumption
  <2> QED BY <1>3, <2>1 DEF CharOf
<1>5. CASE sc \notin TableCodes
  BY <1>5 DEF CharOf
<1> QED BY <1>4, <1>5

\* The command behind the spaces is a piece of the line.
LEMMA SkipSpacesType ==
    ASSUME NEW s \in Seq(Glyphs)
    PROVE  SkipSpaces(s) \in Seq(Glyphs)
<1>1. Cardinality(Leading(s)) \in Nat
  <2>1. IsFiniteSet(1 .. Len(s))
    BY FS_Interval
  <2>2. IsFiniteSet(Leading(s))
    BY <2>1, FS_Subset DEF Leading
  <2> QED BY <2>2, FS_CardinalityType
<1> DEFINE n == Cardinality(Leading(s)) + 1
<1>2. n \in Int /\ n >= 1 /\ Len(s) \in Int
  BY <1>1
<1>3. SkipSpaces(s) = SubSeq(s, n, Len(s))
  BY DEF SkipSpaces
<1> HIDE DEF n
<1>4. \A i \in n .. Len(s) : s[i] \in Glyphs
  BY <1>2
<1> QED BY <1>2, <1>3, <1>4, SubSeqProperties
---------------------------------------------------------------------------
(* The steps.                                                              *)

\* What a command leaves behind is well-formed and clean.
LEMMA ProceedStep ==
    ASSUME NEW s, Clean(s), s.cursor \in Nat, NEW text \in Seq(Printable),
           NEW m \in Modes, MaxCmd \in Nat \ {0}, Proceed(s, text, m)
    PROVE  /\ Clean(screen)' /\ out' \in Seq(Printable) /\ mode' \in Modes
           /\ line' \in Seq(Glyphs) /\ Len(line') < MaxCmd
           /\ origin' \in Int /\ slips' \in Nat
<1>1. <<>> \in Seq(Glyphs) /\ Len(<<>>) = 0
  BY EmptySeq
<1>2. Clean(screen)'
  BY DEF Proceed, Clean, AheadBlank, Screens, Rows, Cols, Texts
<1> QED BY <1>1, <1>2 DEF Proceed

\* The initial state satisfies the invariant.
LEMMA InitIInv == ASSUME Init PROVE IInv
<1>1. BlankText \in Texts
  BY VgaAssumption DEF BlankText, Texts
<1>2. 0 \in Rows /\ 0 \in Cols
  BY VgaAssumption DEF Rows, Cols
<1>3. screen \in Screens /\ AheadIsBlank
  BY <1>1, <1>2 DEF Init, Screens, AheadIsBlank, AheadBlank, BlankText
<1>4. Splash \o MagicNote \in Seq(Printable)
  BY ConsoleAssumption
<1>5. out \in Seq(Printable)
  BY <1>4, ConsoleAssumption DEF Init, BootTexts
<1>6. wire \in Seq(Bytes) /\ line \in Seq(Glyphs) /\ Len(line) < MaxCmd
  BY ConsoleAssumption DEF Init
<1>7. mode \in Modes /\ origin \in Int /\ slips \in Nat
  BY DEF Init, Modes
<1>8. /\ held \subseteq Keys
      /\ shift \in BOOLEAN /\ caps \in BOOLEAN
  BY DEF Init
<1> QED BY <1>3, <1>5, <1>6, <1>7, <1>8 DEF IInv, TypeOK

\* Every step preserves the invariant.
LEMMA IInvStep ==
    ASSUME IInv, [Next]_vars
    PROVE  IInv'
<1> DEFINE ShellOK == /\ Clean(screen) /\ out \in Seq(Printable)
                      /\ mode \in Modes
                      /\ line \in Seq(Glyphs) /\ Len(line) < MaxCmd
                      /\ origin \in Int /\ slips \in Nat
           KeysOK  == /\ held \subseteq Keys /\ wire \in Seq(Bytes)
                      /\ shift \in BOOLEAN /\ caps \in BOOLEAN
<1>1. KeysOK /\ ShellOK
  BY DEF IInv, TypeOK, Clean, AheadIsBlank
<1>2. SUFFICES KeysOK' /\ ShellOK'
  BY <1>2 DEF IInv, TypeOK, Clean, AheadIsBlank
<1>3. ASSUME NEW k \in Keys, Press(k) PROVE KeysOK' /\ ShellOK'
  <2>1. wire' \in Seq(Bytes)
    <3>1. ShiftDown(held \ {k}) \in BOOLEAN
      BY Zenon DEF ShiftDown
    <3>2. Make[k][ShiftDown(held \ {k})] \in Seq(Bytes)
      BY <3>1, ConsoleAssumption
    <3> QED BY <1>1, <1>3, <3>2 DEF Press, Sends
  <2>2. KeysOK'
    BY <1>1, <1>3, <2>1 DEF Press, flagVars
  <2>3. ShellOK'
    BY <1>1, <1>3 DEF Press, lineVars, Clean, AheadBlank
  <2> QED BY <2>2, <2>3
<1>4. ASSUME NEW k \in Keys, Release(k) PROVE KeysOK' /\ ShellOK'
  <2>1. wire' \in Seq(Bytes)
    <3>1. ShiftDown(held \ {k}) \in BOOLEAN
      BY Zenon DEF ShiftDown
    <3>2. Break[k][ShiftDown(held \ {k})] \in Seq(Bytes)
      BY <3>1, ConsoleAssumption
    <3> QED BY <1>1, <1>4, <3>2 DEF Release, Sends
  <2>2. KeysOK'
    BY <1>1, <1>4, <2>1 DEF Release, flagVars
  <2>3. ShellOK'
    BY <1>1, <1>4 DEF Release, lineVars, Clean, AheadBlank
  <2> QED BY <2>2, <2>3
<1>5. CASE PrintOne
  <2>1. Head(out) \in Printable /\ Tail(out) \in Seq(Printable)
    BY <1>1, <1>5, HeadTailProperties DEF PrintOne
  <2>2. /\ Clean(PutChar(screen, Head(out)))
        /\ PutChar(screen, Head(out)).cursor \in Nat
    BY <1>1, <2>1, PutCharClean DEF Printable
  <2>3. Clean(screen)' /\ origin' \in Int
    BY <1>5, <2>2 DEF PrintOne, Clean, AheadBlank
  <2> QED BY <1>1, <1>5, <2>1, <2>3 DEF PrintOne, keyVars, flagVars
<1>6. CASE KeyboardInit
  <2>1. Prompt \in Seq(Printable)
    BY ConsoleAssumption
  <2>2. Clean(screen)'
    BY <1>1, <1>6 DEF KeyboardInit, Clean, AheadBlank
  <2>3. /\ wire' = <<>> /\ held' = held /\ out' = Prompt /\ mode' = "shell"
        /\ shift' = FALSE /\ caps' = FALSE
        /\ line' = line /\ origin' = origin /\ slips' = slips
    BY <1>6 DEF KeyboardInit, lineVars
  <2>4. <<>> \in Seq(Bytes) /\ "shell" \in Modes
    BY EmptySeq DEF Modes
  <2> QED BY <1>1, <2>1, <2>2, <2>3, <2>4
<1>7. CASE Reset
  <2>1. Splash \o MagicNote \in Seq(Printable) /\ Splash \in Seq(Printable)
    BY ConsoleAssumption
  <2>2. Clean(ClearScreen(screen))
    BY <1>1, ClearClean DEF Clean
  <2>3. Clean(screen)'
    BY <1>7, <2>2 DEF Reset, Clean, AheadBlank
  <2>4. <<>> \in Seq(Glyphs) /\ Len(<<>>) = 0 /\ <<>> \in Seq(Bytes)
    BY EmptySeq
  <2>5. out' \in Seq(Printable)
    BY <1>7, <2>1 DEF Reset, BootTexts
  <2>6. ShellOK'
    BY <1>7, <2>3, <2>4, <2>5, ConsoleAssumption DEF Reset, Modes
  <2>7. KeysOK'
    BY <1>1, <1>7, <2>4 DEF Reset
  <2> QED BY <2>6, <2>7
<1>8. CASE ReadByte
  <2> DEFINE sc == Head(wire)
             c == CharOf(shift, caps, sc)
  <2>1. sc \in Bytes /\ Tail(wire) \in Seq(Bytes)
    BY <1>1, <1>8, HeadTailProperties DEF ReadByte
  <2>2. c \in Typed \cup {NoChar}
    BY <1>1, <2>1, CharOfType
  <2>3. KeysOK'
    BY <1>1, <1>8, <2>1 DEF ReadByte, ShiftAfter, CapsAfter
  <2>4. /\ wire # <<>>
        /\ \/ c = NoChar /\ UNCHANGED <<screen, lineVars, out, mode>>
           \/ c = Newline /\ Enter
           \/ c = Backspace /\ Erase
           \/ c \in Glyphs /\ Echo(c)
    BY <1>8 DEF ReadByte
  <2> HIDE DEF c, sc
  <2>5. ASSUME UNCHANGED <<screen, lineVars, out, mode>> PROVE ShellOK'
    BY <1>1, <2>5 DEF lineVars, Clean, AheadBlank
  <2>6. ASSUME Enter PROVE ShellOK'
    <3> DEFINE cmd == SkipSpaces(line)
               s == PutChar(screen, Newline)
    <3>1. cmd \in Seq(Glyphs)
      BY <1>1, SkipSpacesType
    <3>2. Clean(s) /\ s.cursor \in Nat
      BY <1>1, PutCharClean
    <3>3. Clean(ClearScreen(s)) /\ ClearScreen(s).cursor \in Nat
      BY <3>2, ClearClean DEF Clean
    <3>4. RunCommand(cmd, s)
      BY <2>6 DEF Enter
    <3>5. \A text \in Seq(Printable), m \in Modes :
             Proceed(s, text, m) \/ Proceed(ClearScreen(s), text, m) => ShellOK'
      BY <3>2, <3>3, ProceedStep, ConsoleAssumption
    <3>6. {"shell", "resetting", "halted"} \subseteq Modes
      BY DEF Modes
    <3>7. Prompt \in Seq(Printable) /\ RebootText \in Seq(Printable)
          /\ HaltText \in Seq(Printable)
      BY ConsoleAssumption
    <3> HIDE DEF cmd, s, ShellOK
    <3>8. CASE cmd = <<>> /\ Proceed(s, Prompt, "shell")
      BY <3>5, <3>6, <3>7, <3>8
    <3>9. CASE cmd \in DOMAIN Reports
               /\ Proceed(s, Reports[cmd] \o Prompt, "shell")
      <4>1. Reports[cmd] \o Prompt \in Seq(Printable)
        BY <3>7, <3>9, ConsoleAssumption
      <4> QED BY <3>5, <3>6, <3>9, <4>1
    <3>10. CASE cmd = ClearCmd /\ Proceed(ClearScreen(s), Prompt, "shell")
      BY <3>5, <3>6, <3>7, <3>10
    <3>11. CASE cmd = RebootCmd /\ Proceed(s, RebootText, "resetting")
      BY <3>5, <3>6, <3>7, <3>11
    <3>12. CASE cmd = HaltCmd /\ Proceed(s, HaltText, "halted")
      BY <3>5, <3>6, <3>7, <3>12
    <3>13. CASE Proceed(s, UnknownHead \o cmd \o <<Newline>> \o UnknownTail
                             \o Prompt, "shell")
      <4> DEFINE a == UnknownHead \o cmd
                 b == a \o <<Newline>>
                 d == b \o UnknownTail
      <4>1. UnknownHead \in Seq(Printable) /\ UnknownTail \in Seq(Printable)
        BY ConsoleAssumption
      <4>2. cmd \in Seq(Printable) /\ <<Newline>> \in Seq(Printable)
        BY <3>1 DEF Printable
      <4>3. a \in Seq(Printable)
        BY <4>1, <4>2
      <4> HIDE DEF a
      <4>4. b \in Seq(Printable)
        BY <4>2, <4>3
      <4> HIDE DEF b
      <4>5. d \in Seq(Printable)
        BY <4>1, <4>4
      <4> HIDE DEF d
      <4>6. d \o Prompt \in Seq(Printable)
        BY <3>7, <4>5
      <4> QED BY <3>5, <3>6, <3>13, <4>6 DEF d, b, a
    <3> QED
      BY <3>4, <3>8, <3>9, <3>10, <3>11, <3>12, <3>13 DEF RunCommand
  <2>7. ASSUME Erase PROVE ShellOK'
    <3>1. CASE line = <<>> /\ UNCHANGED <<screen, lineVars, out, mode>>
      BY <2>5, <3>1
    <3>2. CASE ~(line = <<>> /\ UNCHANGED <<screen, lineVars, out, mode>>)
      <4>1. Len(line) \in Nat \ {0}
        BY <1>1, <2>7, <3>2, EmptySeq DEF Erase
      <4>2. /\ SubSeq(line, 1, Len(line) - 1) \in Seq(Glyphs)
            /\ Len(SubSeq(line, 1, Len(line) - 1)) < MaxCmd
        <5>1. \A i \in 1 .. Len(line) - 1 : line[i] \in Glyphs
          BY <1>1, <4>1
        <5>2. Len(line) - 1 \in Int
          BY <4>1
        <5>3. /\ SubSeq(line, 1, Len(line) - 1) \in Seq(Glyphs)
              /\ Len(SubSeq(line, 1, Len(line) - 1))
                   = IF 1 <= Len(line) - 1 THEN Len(line) - 1 - 1 + 1 ELSE 0
          BY <5>1, <5>2, SubSeqProperties
        <5> QED BY <1>1, <4>1, <5>3, ConsoleAssumption
      <4>3. Clean(PutChar(screen, Backspace))
        BY <1>1, PutCharClean
      <4>4. screen' = PutChar(screen, Backspace)
        BY <2>7, <3>2 DEF Erase
      <4>5. Clean(screen)'
        BY <4>3, <4>4 DEF Clean, AheadBlank
      <4>6. /\ line' = SubSeq(line, 1, Len(line) - 1)
            /\ slips' \in {slips, slips + 1}
            /\ UNCHANGED <<out, mode, origin>>
        BY <2>7, <3>2 DEF Erase
      <4> QED BY <1>1, <4>2, <4>5, <4>6
    <3> QED BY <3>1, <3>2
  <2>8. ASSUME c \in Glyphs, Echo(c) PROVE ShellOK'
    <3>1. CASE Len(line) = MaxCmd - 1 /\ UNCHANGED <<screen, lineVars, out, mode>>
      BY <2>5, <3>1
    <3>2. CASE ~(Len(line) = MaxCmd - 1
                 /\ UNCHANGED <<screen, lineVars, out, mode>>)
      <4>1. /\ Len(line) < MaxCmd - 1 /\ line' = Append(line, c)
            /\ screen' = PutChar(screen, c)
            /\ origin' = IF Scrolls(screen, c) THEN origin - Width ELSE origin
            /\ UNCHANGED <<slips, out, mode>>
        BY <2>8, <3>2 DEF Echo
      <4>2. line' \in Seq(Glyphs) /\ Len(line') < MaxCmd
        BY <1>1, <2>8, <4>1, ConsoleAssumption
      <4>3. Clean(PutChar(screen, c))
        BY <1>1, <2>8, PutCharClean
      <4>4. Clean(screen)'
        BY <4>1, <4>3 DEF Clean, AheadBlank
      <4>5. origin' \in Int
        BY <1>1, <4>1, VgaAssumption
      <4> QED BY <1>1, <4>1, <4>2, <4>4, <4>5
    <3> QED BY <3>1, <3>2
  <2> QED BY <2>3, <2>4, <2>5, <2>6, <2>7, <2>8
<1>9. CASE UNCHANGED vars
  BY <1>1, <1>9 DEF vars, keyVars, flagVars, lineVars, Clean, AheadBlank
<1> QED
  BY <1>3, <1>4, <1>5, <1>6, <1>7, <1>8, <1>9 DEF Next

---------------------------------------------------------------------------
\* The strengthened invariant holds in every reachable state.
THEOREM Inductive == Spec => []IInv
<1>1. Init => IInv
  BY InitIInv
<1>2. IInv /\ [Next]_vars => IInv'
  BY IInvStep
<1> QED BY <1>1, <1>2, PTL DEF Spec

\* Type correctness, with the two bounds C does not check: the line leaves
\* room for its terminator, and no store is off the screen.
THEOREM TypeCorrect == Spec => []TypeOK
<1>1. IInv => TypeOK
  BY DEF IInv
<1> QED BY <1>1, Inductive, PTL

\* Nothing is left standing at or behind the cursor.
THEOREM NothingAhead == Spec => []AheadIsBlank
<1>1. IInv => AheadIsBlank
  BY DEF IInv
<1> QED BY <1>1, Inductive, PTL
---------------------------------------------------------------------------
(* The shift flag.                                                         *)

\* The flag will be up when all of w has been read.
EndsUp(up, w) ==
    \/ \E i \in DOMAIN w :
          Raises(w[i]) /\ \A j \in DOMAIN w : j > i => ~Lowers(w[j])
    \/ up /\ \A i \in DOMAIN w : ~Lowers(w[i])

\* The strengthening of NoStuckShift: it looks ahead to the bytes that wait.
ShiftInv == EndsUp(shift, wire) => \E k \in held : RaisesShift(k)

\* Bytes that raise nothing leave the flag no higher.
LEMMA QuietBytes ==
    ASSUME NEW up, NEW w \in Seq(Bytes), NEW b \in Seq(Bytes),
           \A i \in DOMAIN b : ~Raises(b[i]), EndsUp(up, w \o b)
    PROVE  EndsUp(up, w) /\ \A i \in DOMAIN b : ~Lowers(b[i])
<1> DEFINE v == w \o b
<1>1. /\ DOMAIN v = 1 .. Len(w) + Len(b)
      /\ \A i \in DOMAIN w : i \in DOMAIN v /\ v[i] = w[i]
      /\ \A i \in DOMAIN b : Len(w) + i \in DOMAIN v /\ v[Len(w) + i] = b[i]
      /\ \A i \in DOMAIN v : i \in DOMAIN w
            \/ (i - Len(w) \in DOMAIN b /\ v[i] = b[i - Len(w)])
      /\ \A i \in DOMAIN w, j \in DOMAIN b : Len(w) + j > i
  OBVIOUS
<1> HIDE DEF v
<1>2. CASE \E i \in DOMAIN v :
             Raises(v[i]) /\ \A j \in DOMAIN v : j > i => ~Lowers(v[j])
  <2>1. PICK i \in DOMAIN v :
             Raises(v[i]) /\ \A j \in DOMAIN v : j > i => ~Lowers(v[j])
    BY <1>2
  <2>2. i \in DOMAIN w /\ v[i] = w[i]
    BY <1>1, <2>1
  <2>3. \A j \in DOMAIN w : j > i => ~Lowers(w[j])
    BY <1>1, <2>1
  <2>4. \A j \in DOMAIN b : ~Lowers(b[j])
    BY <1>1, <2>1, <2>2
  <2> QED BY <2>1, <2>2, <2>3, <2>4 DEF EndsUp
<1>3. CASE up /\ \A i \in DOMAIN v : ~Lowers(v[i])
  <2>1. \A i \in DOMAIN w : ~Lowers(w[i])
    BY <1>1, <1>3
  <2>2. \A i \in DOMAIN b : ~Lowers(b[i])
    BY <1>1, <1>3
  <2> QED BY <1>3, <2>1, <2>2 DEF EndsUp
<1> QED BY <1>2, <1>3 DEF EndsUp, v

\* Reading a byte changes nothing about where the flag ends up.
LEMMA ReadKeepsEnd ==
    ASSUME NEW up \in BOOLEAN, NEW w \in Seq(Bytes), w # <<>>,
           EndsUp(ShiftAfter(up, Head(w)), Tail(w))
    PROVE  EndsUp(up, w)
<1> DEFINE t == Tail(w)
<1>1. /\ 1 \in DOMAIN w /\ w[1] = Head(w)
      /\ \A i \in DOMAIN t : i + 1 \in DOMAIN w /\ w[i + 1] = t[i]
      /\ \A i \in DOMAIN w : i # 1 => i - 1 \in DOMAIN t /\ t[i - 1] = w[i]
      /\ DOMAIN t \subseteq Int /\ DOMAIN w \subseteq Int
      /\ \A i \in DOMAIN w : i >= 1
  OBVIOUS
<1> HIDE DEF t
<1>2. CASE \E i \in DOMAIN t :
             Raises(t[i]) /\ \A j \in DOMAIN t : j > i => ~Lowers(t[j])
  <2>1. PICK i \in DOMAIN t :
             Raises(t[i]) /\ \A j \in DOMAIN t : j > i => ~Lowers(t[j])
    BY <1>2
  <2>2. i + 1 \in DOMAIN w /\ Raises(w[i + 1])
    BY <1>1, <2>1
  <2>3. i >= 1
    <3>1. i \in 1 .. Len(t)
      BY DEF t
    <3> QED BY <3>1
  <2>4. ASSUME NEW j \in DOMAIN w, j > i + 1 PROVE ~Lowers(w[j])
    <3>1. j # 1 /\ j - 1 \in DOMAIN t /\ t[j - 1] = w[j] /\ j - 1 > i
      BY <1>1, <2>3, <2>4
    <3> QED BY <2>1, <3>1
  <2> QED BY <2>2, <2>4 DEF EndsUp
<1>3. CASE ShiftAfter(up, Head(w)) /\ \A i \in DOMAIN t : ~Lowers(t[i])
  <2>1. \A j \in DOMAIN w : j > 1 => ~Lowers(w[j])
    BY <1>1, <1>3
  <2>2. Head(w) \in Int
    <3>1. Head(w) \in Bytes
      BY HeadTailProperties
    <3> QED BY <3>1 DEF Bytes
  <2>3. ~Lowers(Head(w)) /\ (up \/ Raises(Head(w)))
    BY <1>3, <2>2
       DEF ShiftAfter, Lowers, Raises, IsRelease, IsShift, LShift, RShift
  <2>4. \A j \in DOMAIN w : ~Lowers(w[j])
    BY <1>1, <2>1, <2>3
  <2> QED BY <1>1, <2>1, <2>3, <2>4 DEF EndsUp
<1> QED BY <1>2, <1>3 DEF EndsUp, t

\* What a shift key sends raises.
LEMMA ShiftKeyRaises == ASSUME NEW k \in Keys, ShiftKey(k) PROVE RaisesShift(k)
<1>1. PICK c \in {LShift, RShift} : Make[k][FALSE] = <<c>>
  BY DEF ShiftKey
<1>2. 1 \in DOMAIN <<c>> /\ <<c>>[1] = c
  OBVIOUS
<1>3. Raises(c)
  BY DEF Raises, IsShift
<1> QED BY <1>1, <1>2, <1>3 DEF RaisesShift

\* Every step preserves the strengthening.
LEMMA ShiftStep ==
    ASSUME TypeOK, ShiftInv, [Next]_vars
    PROVE  ShiftInv'
<1> USE DEF ShiftInv
<1>1. held \subseteq Keys /\ wire \in Seq(Bytes) /\ shift \in BOOLEAN
  BY DEF TypeOK
<1>2. ASSUME wire' = <<>>, shift' = FALSE PROVE ShiftInv'
  BY <1>2 DEF EndsUp
<1>3. ASSUME UNCHANGED <<held, wire, shift>> PROVE ShiftInv'
  BY <1>3 DEF EndsUp
<1>4. ASSUME NEW k \in Keys, Press(k) PROVE ShiftInv'
  <2> DEFINE d == ShiftDown(held \ {k})
  <2>1. /\ wire' = wire \o Make[k][d] /\ held' = held \cup {k} /\ shift' = shift
        /\ d \in BOOLEAN
    BY <1>4, Zenon DEF Press, Sends, flagVars, ShiftDown
  <2> HIDE DEF d
  <2>2. CASE RaisesShift(k)
    BY <2>1, <2>2
  <2>3. CASE ~RaisesShift(k)
    <3>1. /\ Make[k][d] \in Seq(Bytes)
          /\ \A i \in DOMAIN Make[k][d] : ~Raises(Make[k][d][i])
      BY <2>1, <2>3, ConsoleAssumption DEF RaisesShift
    <3>2. EndsUp(shift', wire') => EndsUp(shift, wire)
      BY <1>1, <2>1, <3>1, QuietBytes
    <3> QED BY <2>1, <3>2
  <2> QED BY <2>2, <2>3
<1>5. ASSUME NEW k \in Keys, Release(k) PROVE ShiftInv'
  <2>1. held' = held \ {k} /\ shift' = shift
    BY <1>5 DEF Release, flagVars
  <2>2. CASE ShiftDown(held \ {k})
    <3>1. PICK j \in held \ {k} : ShiftKey(j)
      BY <2>2 DEF ShiftDown
    <3>2. RaisesShift(j)
      BY <1>1, <3>1, ShiftKeyRaises
    <3> QED BY <2>1, <3>1, <3>2
  <2>3. CASE ~ShiftDown(held \ {k})
    <3>1. ShiftDown(held \ {k}) = FALSE
      BY <2>3, Zenon DEF ShiftDown
    <3>2. wire' = wire \o Break[k][FALSE]
      BY <1>5, <3>1 DEF Release, Sends
    <3>3. /\ Break[k][FALSE] \in Seq(Bytes)
          /\ \A i \in DOMAIN Break[k][FALSE] : ~Raises(Break[k][FALSE][i])
      BY ConsoleAssumption, ShiftAssumption
    <3>4. EndsUp(shift', wire') => EndsUp(shift, wire) /\ ~RaisesShift(k)
      BY <1>1, <2>1, <3>2, <3>3, QuietBytes, ShiftAssumption
    <3> QED BY <2>1, <3>4
  <2> QED BY <2>2, <2>3
<1>6. CASE PrintOne
  BY <1>3, <1>6 DEF PrintOne, keyVars, flagVars
<1>7. CASE KeyboardInit
  BY <1>2, <1>7 DEF KeyboardInit
<1>8. CASE Reset
  BY <1>2, <1>8 DEF Reset
<1>9. CASE ReadByte
  <2>1. /\ wire # <<>> /\ wire' = Tail(wire) /\ held' = held
        /\ shift' = ShiftAfter(shift, Head(wire))
    BY <1>9 DEF ReadByte
  <2>2. EndsUp(shift', wire') => EndsUp(shift, wire)
    BY <1>1, <2>1, ReadKeepsEnd
  <2> QED BY <2>1, <2>2
<1>10. CASE UNCHANGED vars
  BY <1>3, <1>10 DEF vars, keyVars, flagVars
<1> QED BY <1>4, <1>5, <1>6, <1>7, <1>8, <1>9, <1>10 DEF Next

\* Shift does not stick, on any keyboard that meets ShiftAssumption and with any
\* number of bytes waiting: what is down decides, whatever order keys go up in.
THEOREM ShiftDoesNotStick == Spec => []NoStuckShift
<1>1. Init => ShiftInv
  BY DEF Init, ShiftInv, EndsUp
<1>2. TypeOK /\ ShiftInv /\ [Next]_vars => ShiftInv'
  BY ShiftStep
<1>3. ShiftInv => NoStuckShift
  BY DEF ShiftInv, EndsUp, NoStuckShift
<1> QED BY <1>1, <1>2, <1>3, TypeCorrect, PTL DEF Spec
---------------------------------------------------------------------------
(* The rows above the cursor.                                              *)

\* t has the rows that stand above the cursor of s, in place or moved up.
Keeps(s, t) ==
    \/ \A r \in 0 .. s.row - 1 : t.text[r] = s.text[r]
    \/ /\ s.row = Height - 1
       /\ \A r \in 1 .. s.row - 1 : t.text[r - 1] = s.text[r]

\* Going to the next row moves them, on a screen u that has them still.
LEMMA NextRowKeeps ==
    ASSUME NEW s \in Screens, NEW u \in Screens, u.row = s.row,
           \A r \in 0 .. s.row - 1 : u.text[r] = s.text[r]
    PROVE  Keeps(s, NextRow(u))
<1>1. s.row \in Int /\ s.row >= 0 /\ s.row <= Height - 1 /\ Height \in Nat
  BY VgaAssumption DEF Screens, Rows
<1>2. CASE u.row + 1 = Height
  <2> DEFINE T == [r \in Rows |-> IF r + 1 \in Rows THEN u.text[r + 1]
                                  ELSE [c \in Cols |-> Blank]]
  <2>1. NextRow(u).text = T
    BY <1>2 DEF NextRow, Scroll, Screens
  <2>2. ASSUME NEW r \in 1 .. s.row - 1 PROVE T[r - 1] = s.text[r]
    <3>1. r - 1 \in Rows /\ (r - 1) + 1 = r /\ r \in Rows
      BY <1>1 DEF Rows
    <3>2. T[r - 1] = u.text[r]
      BY <3>1
    <3> QED BY <1>1, <3>2
  <2> HIDE DEF T
  <2>3. s.row = Height - 1
    BY <1>1, <1>2
  <2> QED BY <2>1, <2>2, <2>3 DEF Keeps
<1>3. CASE u.row + 1 # Height
  <2>1. NextRow(u).text = u.text
    BY <1>3 DEF NextRow, Screens
  <2> QED BY <2>1 DEF Keeps
<1> QED BY <1>2, <1>3

\* A store into the cursor's own row leaves the rows above it alone.
LEMMA SetCellKeeps ==
    ASSUME NEW s \in Screens, NEW c \in Cols, NEW g \in Glyphs
    PROVE  /\ SetCell(s, s.row, c, g) \in Screens
           /\ SetCell(s, s.row, c, g).row = s.row
           /\ SetCell(s, s.row, c, g).col = s.col
           /\ \A r \in 0 .. s.row - 1 :
                 SetCell(s, s.row, c, g).text[r] = s.text[r]
<1>1. s.row \in Rows /\ s.text \in [Rows -> [Cols -> Glyphs]]
  BY DEF Screens, Texts
<1>2. /\ SetCell(s, s.row, c, g) \in Screens
      /\ SetCell(s, s.row, c, g).row = s.row
      /\ SetCell(s, s.row, c, g).col = s.col
  BY <1>1, SetCellScreen
<1>3. SetCell(s, s.row, c, g).text
        = [s.text EXCEPT ![s.row] = [s.text[s.row] EXCEPT ![c] = g]]
  BY DEF SetCell, Screens
<1>4. ASSUME NEW r \in 0 .. s.row - 1
      PROVE  SetCell(s, s.row, c, g).text[r] = s.text[r]
  <2>1. r \in Rows /\ r # s.row
    BY <1>1, VgaAssumption DEF Rows
  <2> QED BY <1>1, <1>3, <2>1
<1> QED BY <1>2, <1>4

\* vga_putchar keeps them, for every character the kernel prints.
LEMMA PutCharKeeps ==
    ASSUME NEW s \in Screens, NEW ch \in Glyphs \cup {Newline, Backspace}
    PROVE  Keeps(s, PutChar(s, ch))
<1>1. s.row \in Rows /\ s.col \in Cols /\ 0 \in Cols
  BY VgaAssumption DEF Screens, Cols
<1>2. ASSUME NEW t, Keeps(s, t), t.text = UpdateCursor(t).text
      PROVE  Keeps(s, UpdateCursor(t))
  BY <1>2 DEF Keeps
<1>3. ASSUME NEW t \in Screens PROVE t.text = UpdateCursor(t).text
  BY <1>3 DEF UpdateCursor, Screens
<1>4. ASSUME NEW u \in Screens PROVE NextRow(u).text = UpdateCursor(NextRow(u)).text
  <2>1. DOMAIN NextRow(u) = DOMAIN u
    BY DEF NextRow, Scroll
  <2> QED BY <2>1 DEF UpdateCursor, Screens, NextRow, Scroll
<1>5. CASE ch = Newline
  <2> DEFINE u == [s EXCEPT !.col = 0]
  <2>1. u \in Screens /\ u.row = s.row /\ u.text = s.text
    BY <1>1 DEF Screens
  <2>2. PutChar(s, ch) = UpdateCursor(NextRow(u))
    BY <1>5, VgaAssumption DEF PutChar
  <2> HIDE DEF u
  <2>3. Keeps(s, NextRow(u))
    BY <2>1, NextRowKeeps
  <2> QED BY <1>2, <1>4, <2>1, <2>2, <2>3
<1>6. CASE ch = Backspace
  <2>1. PutChar(s, ch) = UpdateCursor(Rubout(s))
    BY <1>6, VgaAssumption DEF PutChar
  <2>2. CASE s.col > 0
    <3> DEFINE t == SetCell(s, s.row, s.col - 1, Blank)
               u == [t EXCEPT !.col = @ - 1]
    <3>1. s.col - 1 \in Cols /\ Blank \in Glyphs
      BY <1>1, <2>2, VgaAssumption DEF Cols
    <3>2. /\ t \in Screens /\ t.col = s.col
          /\ \A r \in 0 .. s.row - 1 : t.text[r] = s.text[r]
      BY <3>1, SetCellKeeps
    <3>3. Rubout(s) = u
      BY <2>2 DEF Rubout
    <3> HIDE DEF t
    <3>4. u \in Screens /\ u.text = t.text
      BY <3>1, <3>2 DEF Screens
    <3> HIDE DEF u
    <3>5. Keeps(s, u)
      BY <3>2, <3>4 DEF Keeps
    <3> QED BY <1>2, <1>3, <2>1, <3>3, <3>4, <3>5
  <2>3. CASE ~(s.col > 0)
    <3>1. Rubout(s) = s
      BY <2>3 DEF Rubout
    <3>2. Keeps(s, s)
      BY DEF Keeps
    <3> QED BY <1>2, <1>3, <2>1, <3>1, <3>2
  <2> QED BY <2>2, <2>3
<1>7. CASE ch \in Glyphs
  <2> DEFINE t == SetCell(s, s.row, s.col, ch)
  <2>1. PutChar(s, ch) = UpdateCursor(Store(s, ch))
    BY <1>7, VgaAssumption DEF PutChar
  <2>2. /\ t \in Screens /\ t.row = s.row /\ t.col = s.col
        /\ \A r \in 0 .. s.row - 1 : t.text[r] = s.text[r]
    BY <1>1, <1>7, SetCellKeeps
  <2>3. Store(s, ch) = IF s.col + 1 = Width THEN NextRow([t EXCEPT !.col = 0])
                                            ELSE [t EXCEPT !.col = @ + 1]
    BY DEF Store
  <2> HIDE DEF t
  <2>4. CASE s.col + 1 = Width
    <3> DEFINE u == [t EXCEPT !.col = 0]
    <3>1. u \in Screens /\ u.row = s.row /\ u.text = t.text
      BY <1>1, <2>2 DEF Screens
    <3> HIDE DEF u
    <3>2. Keeps(s, NextRow(u))
      BY <2>2, <3>1, NextRowKeeps
    <3> QED BY <1>2, <1>4, <2>1, <2>3, <2>4, <3>1, <3>2 DEF u
  <2>5. CASE s.col + 1 # Width
    <3> DEFINE u == [t EXCEPT !.col = @ + 1]
    <3>1. s.col + 1 \in Cols
      BY <1>1, <2>5, VgaAssumption DEF Cols
    <3>2. u \in Screens /\ u.text = t.text
      BY <2>2, <3>1 DEF Screens
    <3> HIDE DEF u
    <3>3. Keeps(s, u)
      BY <2>2, <3>2 DEF Keeps
    <3> QED BY <1>2, <1>3, <2>1, <2>3, <2>5, <3>2, <3>3 DEF u
  <2> QED BY <2>4, <2>5
<1> QED BY <1>5, <1>6, <1>7

\* Every step keeps the rows above the cursor or clears the screen when told.
LEMMA StepKeeps ==
    ASSUME IInv, Next
    PROVE  AboveKept \/ UNCHANGED vars
<1>1. /\ screen \in Screens /\ wire \in Seq(Bytes) /\ out \in Seq(Printable)
      /\ shift \in BOOLEAN /\ caps \in BOOLEAN
  BY DEF IInv, TypeOK
<1>2. ASSUME screen' = screen PROVE AboveKept
  BY <1>2 DEF AboveKept
<1>3. ASSUME NEW s, screen' = s, Keeps(screen, s) PROVE AboveKept
  BY <1>3 DEF AboveKept, Keeps
<1>4. ASSUME NEW k \in Keys, Press(k) \/ Release(k) PROVE AboveKept
  BY <1>2, <1>4 DEF Press, Release
<1>5. CASE PrintOne
  <2>1. Head(out) \in Printable
    BY <1>1, <1>5, HeadTailProperties DEF PrintOne
  <2>2. Keeps(screen, PutChar(screen, Head(out)))
    BY <1>1, <2>1, PutCharKeeps DEF Printable
  <2> QED BY <1>3, <1>5, <2>2 DEF PrintOne
<1>6. CASE KeyboardInit
  BY <1>2, <1>6 DEF KeyboardInit
<1>7. CASE Reset
  BY <1>7 DEF Reset, AboveKept, Clearing
<1>8. CASE ReadByte
  <2> DEFINE c == CharOf(shift, caps, Head(wire))
  <2>1. \/ UNCHANGED <<screen, lineVars, out, mode>>
        \/ Enter
        \/ Erase
        \/ c \in Glyphs /\ Echo(c)
    BY <1>8 DEF ReadByte
  <2>2. CASE Enter
    <3> DEFINE s == PutChar(screen, Newline)
    <3>1. Keeps(screen, s)
      BY <1>1, PutCharKeeps
    <3>2. RunCommand(SkipSpaces(line), s)
      BY <2>2 DEF Enter
    <3> HIDE DEF s
    <3>3. screen' = s \/ (SkipSpaces(line) = ClearCmd /\ line' = <<>>)
      BY <3>2 DEF RunCommand, Proceed
    <3>4. CASE screen' = s
      BY <1>3, <3>1, <3>4
    <3>5. CASE SkipSpaces(line) = ClearCmd /\ line' = <<>>
      BY <3>5 DEF AboveKept, Clearing
    <3> QED BY <3>3, <3>4, <3>5
  <2>3. CASE Erase
    <3>1. screen' = screen \/ screen' = PutChar(screen, Backspace)
      BY <2>3 DEF Erase
    <3>2. Keeps(screen, PutChar(screen, Backspace))
      BY <1>1, PutCharKeeps
    <3> QED BY <1>2, <1>3, <3>1, <3>2
  <2>4. ASSUME c \in Glyphs, Echo(c) PROVE AboveKept
    <3>1. screen' = screen \/ screen' = PutChar(screen, c)
      BY <2>4 DEF Echo
    <3>2. Keeps(screen, PutChar(screen, c))
      BY <1>1, <2>4, PutCharKeeps
    <3> QED BY <1>2, <1>3, <3>1, <3>2
  <2> QED BY <1>2, <2>1, <2>2, <2>3, <2>4
<1> QED BY <1>4, <1>5, <1>6, <1>7, <1>8 DEF Next

\* The rows above the cursor are never rewritten, on a screen of any size:
\* what was printed stays or moves up until clear or a reset takes it away.
THEOREM HistoryStays == Spec => HistoryKept
<1>1. IInv /\ [Next]_vars => [AboveKept]_vars
  BY StepKeeps
<1> QED BY <1>1, Inductive, PTL DEF Spec, HistoryKept
---------------------------------------------------------------------------
(* The line and the screen.                                                *)

\* Products of integers, one step apart.
LEMMA Product ==
    ASSUME NEW w \in Nat, NEW a \in Int, NEW b \in Int, a + 1 <= b
    PROVE  a * w + w <= b * w
<1>1. (b - (a + 1)) * w >= 0
  OBVIOUS
<1>2. (b - (a + 1)) * w = b * w - (a * w + w)
  OBVIOUS
<1>3. a * w \in Int /\ b * w \in Int
  OBVIOUS
<1> QED BY <1>1, <1>2, <1>3

\* What division gives, the quotient in front.
LEMMA Division ==
    ASSUME NEW w \in Nat \ {0}, NEW n \in Int
    PROVE  /\ n \div w \in Int /\ n % w \in 0 .. w - 1
           /\ n = (n \div w) * w + (n % w)
<1>1. n % w \in 0 .. w - 1
  OBVIOUS
<1>2. n \div w \in Int
  OBVIOUS
<1>3. n = w * (n \div w) + (n % w)
  OBVIOUS
<1>4. w * (n \div w) = (n \div w) * w
  BY <1>2
<1> QED BY <1>1, <1>2, <1>3, <1>4

\* The number of a cell, counted from the top left one.
Num(r, c) == r * Width + c

\* The cell of number n on the screen s.
CellOf(s, n) == s.text[n \div Width][n % Width]

\* The hardware cursor is where the driver's position is.
Placed(s) == s \in Screens /\ s.cursor = Num(s.row, s.col)

\* The strengthening of SeenIsRun: while the kernel prints or is not in the
\* shell there is no input, and the cursor is where the next cell is written.
SeenInv ==
    /\ Placed(screen)
    /\ SeenIsRun
    /\ out # <<>> \/ mode # "shell" => line = <<>> /\ slips = 0

\* A cell's number says its row and its column.
LEMMA Coordinates ==
    ASSUME NEW r \in Int, NEW c \in Cols
    PROVE  /\ Num(r, c) \in Int
           /\ Num(r, c) \div Width = r /\ Num(r, c) % Width = c
<1> DEFINE q == Num(r, c) \div Width
           m == Num(r, c) % Width
<1>1. Width \in Nat \ {0} /\ c \in 0 .. Width - 1
  BY VgaAssumption DEF Cols
<1>2. Num(r, c) = r * Width + c /\ r * Width \in Int /\ Num(r, c) \in Int
  BY <1>1 DEF Num
<1>3. /\ q \in Int /\ m \in 0 .. Width - 1
      /\ Num(r, c) = q * Width + m /\ q * Width \in Int
  <2>1. Width \in Nat \ {0} /\ Num(r, c) \in Int
    BY <1>1, <1>2
  <2>2. q \in Int /\ m \in 0 .. Width - 1 /\ Num(r, c) = q * Width + m
    BY <2>1, Division
  <2>3. q * Width \in Int
    BY <2>1, <2>2
  <2> QED BY <2>2, <2>3
<1> HIDE DEF q, m
<1>4. ~(q + 1 <= r)
  <2>1. q + 1 <= r => q * Width + Width <= r * Width
    BY <1>1, <1>3, Product
  <2> QED BY <1>1, <1>2, <1>3, <2>1
<1>5. ~(r + 1 <= q)
  <2>1. r + 1 <= q => r * Width + Width <= q * Width
    BY <1>1, <1>3, Product
  <2> QED BY <1>1, <1>2, <1>3, <2>1
<1>6. q = r
  BY <1>3, <1>4, <1>5
<1>7. m = c
  BY <1>1, <1>2, <1>3, <1>6
<1> QED BY <1>2, <1>6, <1>7 DEF q, m

\* The cell after another one, the cell below it, and the order of cells.
LEMMA NumFacts ==
    ASSUME NEW r \in Int, NEW c \in Int
    PROVE  /\ Num(r, c) \in Int
           /\ Num(r, c + 1) = Num(r, c) + 1
           /\ Num(r + 1, c) = Num(r, c) + Width
           /\ r \in Nat /\ c \in Nat => Num(r, c) \in Nat
<1>1. Width \in Nat
  BY VgaAssumption
<1>2. r * Width \in Int /\ (r + 1) * Width = r * Width + Width
  BY <1>1
<1>3. r \in Nat => r * Width \in Nat
  BY <1>1
<1> QED BY <1>1, <1>2, <1>3 DEF Num

\* A cell in front of a position has its row and column in front of it.
LEMMA InFront ==
    ASSUME NEW r \in Nat, NEW c \in Cols, NEW n \in Nat, n < Num(r, c)
    PROVE  \E q \in Nat, m \in Cols :
              /\ n = Num(q, m) /\ n \div Width = q /\ n % Width = m
              /\ q < r \/ (q = r /\ m < c)
<1> DEFINE q == n \div Width
           m == n % Width
<1>1. Width \in Nat \ {0} /\ c \in 0 .. Width - 1
  BY VgaAssumption DEF Cols
<1>2. q \in Int /\ m \in 0 .. Width - 1 /\ n = q * Width + m
  BY <1>1, Division
<1>3. /\ q * Width \in Int /\ r * Width \in Int
      /\ Num(r, c) = r * Width + c
  BY <1>1, <1>2 DEF Num
<1> HIDE DEF q, m
<1>4. q >= 0
  <2>1. q + 1 <= 0 => q * Width + Width <= 0 * Width
    BY <1>1, <1>2, Product
  <2>2. 0 * Width = 0
    BY <1>1
  <2> QED BY <1>1, <1>2, <1>3, <2>1, <2>2
<1>5. ~(r + 1 <= q)
  <2>1. r + 1 <= q => r * Width + Width <= q * Width
    BY <1>1, <1>2, Product
  <2> QED BY <1>1, <1>2, <1>3, <2>1
<1>6. q < r \/ (q = r /\ m < c)
  BY <1>1, <1>2, <1>3, <1>5
<1>7. q \in Nat /\ m \in Cols
  BY <1>2, <1>4 DEF Cols
<1>8. n = Num(q, m)
  BY <1>2 DEF Num
<1>9. n \div Width = q /\ n % Width = m
  BY DEF q, m
<1> QED BY <1>6, <1>7, <1>8, <1>9

\* Sending the position to the hardware places the cursor.
LEMMA CursorPlaced ==
    ASSUME NEW s \in Screens
    PROVE  /\ Placed(UpdateCursor(s))
           /\ UpdateCursor(s).row = s.row /\ UpdateCursor(s).col = s.col
           /\ UpdateCursor(s).text = s.text
<1>1. Num(s.row, s.col) \in Nat
  BY NumFacts, VgaAssumption DEF Screens, Rows, Cols
<1>2. UpdateCursor(s) = [s EXCEPT !.cursor = Num(s.row, s.col)]
  BY DEF UpdateCursor, Num
<1> QED BY <1>1, <1>2 DEF Placed, Screens

\* Every character the kernel prints leaves the cursor placed, and so does
\* clearing the screen.
LEMMA PutCharPlaced ==
    ASSUME NEW s, Clean(s), NEW ch \in Glyphs \cup {Newline, Backspace}
    PROVE  Placed(PutChar(s, ch)) /\ Placed(ClearScreen(s))
<1>1. ASSUME ch = Newline PROVE Placed(PutChar(s, ch))
  <2> DEFINE t == [s EXCEPT !.col = 0]
  <2>1. 0 \in Cols
    BY VgaAssumption DEF Cols
  <2>2. t \in Screens /\ t.col = 0 /\ t.row = s.row /\ t.text = s.text
    BY <2>1 DEF Clean, Screens
  <2>3. PutChar(s, ch) = UpdateCursor(NextRow(t))
    BY <1>1, VgaAssumption DEF PutChar
  <2> HIDE DEF t
  <2>4. NextRow(t) \in Screens
    BY <2>2, NextRowClean DEF Clean, AheadBlank
  <2> QED BY <2>3, <2>4, CursorPlaced
<1>2. ASSUME ch = Backspace PROVE Placed(PutChar(s, ch))
  <2>1. PutChar(s, ch) = UpdateCursor(Rubout(s))
    BY <1>2, VgaAssumption DEF PutChar
  <2>2. Rubout(s) \in Screens
    BY RuboutClean DEF Clean
  <2> QED BY <2>1, <2>2, CursorPlaced
<1>3. ASSUME ch \in Glyphs PROVE Placed(PutChar(s, ch))
  <2>1. PutChar(s, ch) = UpdateCursor(Store(s, ch))
    BY <1>3, VgaAssumption DEF PutChar
  <2>2. Store(s, ch) \in Screens
    BY <1>3, StoreClean DEF Clean
  <2> QED BY <2>1, <2>2, CursorPlaced
<1>4. Placed(ClearScreen(s))
  <2> DEFINE t == [s EXCEPT !.text = BlankText, !.row = 0, !.col = 0]
  <2>1. BlankText \in Texts /\ 0 \in Rows /\ 0 \in Cols
    BY VgaAssumption DEF BlankText, Texts, Rows, Cols
  <2>2. t \in Screens
    BY <2>1 DEF Clean, Screens
  <2>3. ClearScreen(s) = UpdateCursor(t)
    BY DEF ClearScreen
  <2> HIDE DEF t
  <2> QED BY <2>2, <2>3, CursorPlaced
<1> QED BY <1>1, <1>2, <1>3, <1>4

\* A character typed moves the cursor on by one cell and the cells before it
\* with the screen when that scrolls, and stands behind them.
LEMMA EchoCells ==
    ASSUME NEW s, Clean(s), Placed(s), NEW g \in Glyphs,
           NEW d, d = IF Scrolls(s, g) THEN Width ELSE 0
    PROVE  LET t == PutChar(s, g)
           IN  /\ t.cursor = s.cursor + 1 - d
               /\ s.cursor - d >= 0 => CellOf(t, s.cursor - d) = g
               /\ \A n \in Int : n - d >= 0 /\ n < s.cursor
                     => CellOf(t, n - d) = CellOf(s, n)
<1> DEFINE t == PutChar(s, g)
           v == SetCell(s, s.row, s.col, g)
<1>1. /\ Width \in Nat \ {0} /\ Height \in Nat \ {0}
      /\ s.row \in Nat /\ s.row <= Height - 1 /\ s.row \in Rows
      /\ s.col \in Nat /\ s.col <= Width - 1 /\ s.col \in Cols
  BY VgaAssumption DEF Clean, Screens, Rows, Cols
<1>2. s.cursor = Num(s.row, s.col) /\ s.cursor \in Nat
  <2>1. s.row \in Int /\ s.col \in Int /\ s.row \in Nat /\ s.col \in Nat
    BY <1>1
  <2>2. Num(s.row, s.col) \in Nat
    BY <2>1, NumFacts
  <2> QED BY <2>2 DEF Placed
<1>3. /\ v \in Screens /\ v.row = s.row /\ v.col = s.col
      /\ v.text[s.row][s.col] = g
      /\ \A q \in Rows, m \in Cols :
            q # s.row \/ m # s.col => v.text[q][m] = s.text[q][m]
  <2>1. s \in Screens /\ s.row \in Rows /\ s.col \in Cols
    BY <1>1 DEF Clean
  <2> QED BY <2>1, SetCellScreen
<1>4. Placed(t)
  BY PutCharPlaced
<1>5. g \notin {Newline, Return, Backspace}
  BY VgaAssumption
<1>6. t = UpdateCursor(IF s.col + 1 = Width THEN NextRow([v EXCEPT !.col = 0])
                                            ELSE [v EXCEPT !.col = @ + 1])
  BY <1>5 DEF PutChar, Store
<1>7. Scrolls(s, g) <=> s.row + 1 = Height /\ s.col + 1 = Width
  BY <1>5 DEF Scrolls
<1>8. v.text[s.row][s.col] = CellOf(v, s.cursor)
  <2>1. s.row \in Int /\ s.col \in Cols
    BY <1>1
  <2>2. Num(s.row, s.col) \div Width = s.row /\ Num(s.row, s.col) % Width = s.col
    BY <2>1, Coordinates
  <2> QED BY <1>2, <2>2 DEF CellOf
<1>9. ASSUME NEW n \in Nat, n < s.cursor PROVE CellOf(v, n) = CellOf(s, n)
  <2>1. PICK q \in Nat, m \in Cols :
           /\ n = Num(q, m) /\ n \div Width = q /\ n % Width = m
           /\ q < s.row \/ (q = s.row /\ m < s.col)
    <3>1. s.row \in Nat /\ s.col \in Cols /\ n < Num(s.row, s.col)
      BY <1>1, <1>2, <1>9
    <3> QED BY <3>1, InFront
  <2>2. q \in Rows /\ (q # s.row \/ m # s.col)
    BY <1>1, <2>1 DEF Rows, Cols
  <2> QED BY <1>3, <2>1, <2>2 DEF CellOf
<1> HIDE DEF t, v
<1>10. CASE s.col + 1 # Width
  <2> DEFINE u == [v EXCEPT !.col = @ + 1]
  <2>1. s.col + 1 \in Cols
    BY <1>1, <1>10 DEF Cols
  <2>2. u \in Screens /\ u.row = s.row /\ u.col = s.col + 1 /\ u.text = v.text
    BY <1>3, <2>1 DEF Screens
  <2>3. t = UpdateCursor(u)
    BY <1>6, <1>10
  <2> HIDE DEF u
  <2>4. t.row = s.row /\ t.col = s.col + 1 /\ t.text = v.text
    BY <2>2, <2>3, CursorPlaced
  <2>5. t.cursor = s.cursor + 1 /\ d = 0
    <3>1. s.row \in Int /\ s.col \in Int
      BY <1>1
    <3>2. Num(s.row, s.col + 1) = Num(s.row, s.col) + 1
      BY <3>1, NumFacts
    <3> QED BY <1>1, <1>2, <1>4, <1>7, <1>10, <2>4, <3>2 DEF Placed
  <2>6. \A n \in Int : CellOf(t, n) = CellOf(v, n) /\ n - d = n
    BY <2>4, <2>5 DEF CellOf
  <2>7. s.cursor \in Int
    BY <1>1, <1>2
  <2> QED BY <1>3, <1>8, <1>9, <2>5, <2>6, <2>7 DEF t
<1>11. CASE s.col + 1 = Width /\ s.row + 1 # Height
  <2> DEFINE u == [v EXCEPT !.col = 0]
             x == [u EXCEPT !.row = @ + 1]
  <2>1. 0 \in Cols /\ s.row + 1 \in Rows
    BY <1>1, <1>11 DEF Rows, Cols
  <2>2. u \in Screens /\ u.row = s.row /\ u.col = 0 /\ u.text = v.text
    BY <1>3, <2>1 DEF Screens
  <2>3. t = UpdateCursor(NextRow(u))
    BY <1>6, <1>11
  <2> HIDE DEF u
  <2>4. NextRow(u) = x
    BY <1>11, <2>2 DEF NextRow
  <2>5. x \in Screens /\ x.row = s.row + 1 /\ x.col = 0 /\ x.text = v.text
    BY <2>1, <2>2 DEF Screens
  <2> HIDE DEF x
  <2>6. t.row = s.row + 1 /\ t.col = 0 /\ t.text = v.text
    BY <2>3, <2>4, <2>5, CursorPlaced
  <2>7. Num(s.row + 1, 0) = Num(s.row, s.col) + 1
    <3>1. Num(s.row + 1, 0) = s.row * Width + Width /\ s.row * Width \in Int
      BY <1>1 DEF Num
    <3> QED BY <1>1, <1>11, <3>1 DEF Num
  <2>8. t.cursor = s.cursor + 1 /\ d = 0
    BY <1>1, <1>2, <1>4, <1>7, <1>11, <2>6, <2>7 DEF Placed
  <2>9. \A n \in Int : CellOf(t, n) = CellOf(v, n) /\ n - d = n
    BY <2>6, <2>8 DEF CellOf
  <2>10. s.cursor \in Int
    BY <1>1, <1>2
  <2> QED BY <1>3, <1>8, <1>9, <2>8, <2>9, <2>10 DEF t
<1>12. CASE s.col + 1 = Width /\ s.row + 1 = Height
  <2> DEFINE u == [v EXCEPT !.col = 0]
             x == Scroll(u)
  <2>1. 0 \in Cols /\ d = Width
    BY <1>1, <1>7, <1>12 DEF Cols
  <2>2. u \in Screens /\ u.row = s.row /\ u.col = 0 /\ u.text = v.text
    BY <1>3, <2>1 DEF Screens
  <2>3. t = UpdateCursor(NextRow(u))
    BY <1>6, <1>12
  <2> HIDE DEF u
  <2>4. NextRow(u) = x
    BY <1>12, <2>2 DEF NextRow
  <2>5. x \in Screens
    BY <1>1, <1>12, <2>2, ScrollClean DEF Clean
  <2>6. /\ x.row = Height - 1 /\ x.col = 0
        /\ \A r \in Rows : r + 1 \in Rows => x.text[r] = v.text[r + 1]
    BY <2>2 DEF Scroll, Screens
  <2> HIDE DEF x
  <2>7. /\ t.row = s.row /\ t.col = 0
        /\ \A r \in Rows : r + 1 \in Rows => t.text[r] = v.text[r + 1]
    BY <1>1, <1>12, <2>3, <2>4, <2>5, <2>6, CursorPlaced
  <2>8. t.cursor = s.cursor + 1 - d
    <3>1. Num(s.row, s.col) = Num(s.row, 0) + s.col /\ Num(s.row, 0) \in Int
      <4>1. s.row * Width \in Int
        BY <1>1
      <4> QED BY <1>1, <4>1 DEF Num
    <3> QED BY <1>1, <1>2, <1>4, <1>12, <2>1, <2>7, <3>1 DEF Placed
  <2>9. ASSUME NEW n \in Nat, n - d >= 0, n <= s.cursor
        PROVE  CellOf(t, n - d) = CellOf(v, n)
    <3>1. n - d \in Nat /\ n - d < Num(s.row, s.col)
      BY <1>1, <1>2, <2>1, <2>9
    <3>2. PICK r \in Nat, c \in Cols :
             /\ n - d = Num(r, c)
             /\ (n - d) \div Width = r /\ (n - d) % Width = c
             /\ r < s.row \/ (r = s.row /\ c < s.col)
      <4>1. s.row \in Nat /\ s.col \in Cols
        BY <1>1
      <4> QED BY <3>1, <4>1, InFront
    <3>3. n = Num(r + 1, c) /\ r + 1 \in Int /\ c \in Int
      <4>1. c \in Int /\ r \in Int
        BY <1>1 DEF Cols
      <4>2. Num(r, c) \in Int /\ Num(r + 1, c) = Num(r, c) + Width
        BY <4>1, NumFacts
      <4> QED BY <1>1, <2>1, <3>2, <4>1, <4>2
    <3>4. n \div Width = r + 1 /\ n % Width = c
      BY <3>2, <3>3, Coordinates
    <3>5. r + 1 <= s.row
      <4>1. r # s.row
        <5>1. Num(s.row + 1, c) = Num(s.row, c) + Width /\ Num(s.row, c) \in Int
          <6>1. s.row \in Int /\ c \in Int
            BY <1>1, <3>3
          <6> QED BY <6>1, NumFacts
        <5>2. Num(s.row, s.col) = Num(s.row, 0) + s.col
              /\ Num(s.row, c) = Num(s.row, 0) + c /\ Num(s.row, 0) \in Int
          <6>1. s.row * Width \in Int
            BY <1>1
          <6> QED BY <1>1, <3>3, <6>1 DEF Num
        <5>3. c >= 0 /\ s.col <= Width - 1
          BY <1>1, <3>2 DEF Cols
        <5> QED BY <1>1, <1>2, <2>9, <3>3, <5>1, <5>2, <5>3
      <4> QED BY <1>1, <3>2, <4>1
    <3>6. r \in Rows /\ r + 1 \in Rows
      BY <1>1, <3>2, <3>5 DEF Rows
    <3> QED BY <2>7, <3>2, <3>4, <3>6 DEF CellOf
  <2>10. s.cursor \in Nat
    BY <1>1, <1>2 DEF Placed, Screens
  <2>11. s.cursor - d >= 0 => CellOf(t, s.cursor - d) = g
    BY <1>3, <1>8, <2>9, <2>10
  <2>12. ASSUME NEW n \in Int, n - d >= 0, n < s.cursor
         PROVE  CellOf(t, n - d) = CellOf(s, n)
    <3>1. n \in Nat /\ n <= s.cursor
      BY <1>1, <2>1, <2>10, <2>12
    <3> QED BY <1>9, <2>9, <2>12, <3>1
  <2> QED BY <2>8, <2>11, <2>12 DEF t
<1> QED BY <1>10, <1>11, <1>12

\* '\b' takes back one cell, or none at the left edge, and nothing else.
LEMMA EraseCells ==
    ASSUME NEW s, Clean(s), Placed(s)
    PROVE  LET t == PutChar(s, Backspace)
               d == IF s.col > 0 THEN 1 ELSE 0
           IN  /\ t.cursor = s.cursor - d
               /\ \A n \in Nat : n < s.cursor - d => CellOf(t, n) = CellOf(s, n)
<1> DEFINE t == PutChar(s, Backspace)
<1>1. /\ s \in Screens /\ s.row \in Nat /\ s.row \in Rows
      /\ s.col \in Nat /\ s.col \in Cols
  BY VgaAssumption DEF Clean, Screens, Rows, Cols
<1>2. s.cursor = Num(s.row, s.col) /\ s.cursor \in Nat
  BY <1>1 DEF Placed, Screens
<1>3. t = UpdateCursor(Rubout(s))
  BY VgaAssumption DEF PutChar
<1>4. Placed(t)
  BY PutCharPlaced
<1> HIDE DEF t
<1>5. CASE s.col > 0
  <2> DEFINE v == SetCell(s, s.row, s.col - 1, Blank)
             u == [v EXCEPT !.col = @ - 1]
  <2>1. s.col - 1 \in Cols /\ Blank \in Glyphs
    BY <1>1, <1>5, VgaAssumption DEF Cols
  <2>2. /\ v \in Screens /\ v.row = s.row /\ v.col = s.col
        /\ \A q \in Rows, m \in Cols :
              q # s.row \/ m # s.col - 1 => v.text[q][m] = s.text[q][m]
    BY <1>1, <2>1, SetCellScreen
  <2>3. Rubout(s) = u
    BY <1>5 DEF Rubout
  <2> HIDE DEF v
  <2>4. u \in Screens /\ u.row = s.row /\ u.col = s.col - 1 /\ u.text = v.text
    BY <2>1, <2>2 DEF Screens
  <2> HIDE DEF u
  <2>5. t.row = s.row /\ t.col = s.col - 1 /\ t.text = v.text
    BY <1>3, <2>3, <2>4, CursorPlaced
  <2>6. Num(s.row, s.col) = Num(s.row, s.col - 1) + 1
        /\ Num(s.row, s.col - 1) \in Int
    <3>1. s.row \in Int /\ s.col - 1 \in Int /\ (s.col - 1) + 1 = s.col
      BY <1>1
    <3> QED BY <3>1, NumFacts
  <2>7. t.cursor = Num(s.row, s.col - 1) /\ t.cursor = s.cursor - 1
    BY <1>2, <1>4, <2>5, <2>6 DEF Placed
  <2>8. ASSUME NEW n \in Nat, n < s.cursor - 1 PROVE CellOf(t, n) = CellOf(s, n)
    <3>1. PICK q \in Nat, m \in Cols :
             /\ n = Num(q, m) /\ n \div Width = q /\ n % Width = m
             /\ q < s.row \/ (q = s.row /\ m < s.col - 1)
      <4>1. n < Num(s.row, s.col - 1)
        BY <2>7, <2>8
      <4> QED BY <1>1, <2>1, <4>1, InFront
    <3>2. q \in Rows /\ (q # s.row \/ m # s.col - 1)
      BY <1>1, <3>1, VgaAssumption DEF Rows, Cols
    <3> QED BY <2>2, <2>5, <3>1, <3>2 DEF CellOf
  <2> QED BY <1>5, <2>7, <2>8 DEF t
<1>6. CASE ~(s.col > 0)
  <2>1. Rubout(s) = s
    BY <1>6 DEF Rubout
  <2>2. t.row = s.row /\ t.col = s.col /\ t.text = s.text
    BY <1>1, <1>3, <2>1, CursorPlaced
  <2>3. t.cursor = s.cursor
    BY <1>2, <1>4, <2>2 DEF Placed
  <2> QED BY <1>2, <1>6, <2>2, <2>3 DEF t, CellOf
<1> QED BY <1>5, <1>6

\* What a command leaves behind has no input, and its cursor placed.
LEMMA ProceedSeen ==
    ASSUME NEW s, Placed(s), NEW text, NEW m, Proceed(s, text, m)
    PROVE  /\ Placed(screen)' /\ screen'.cursor = origin'
           /\ line' = <<>> /\ slips' = 0
  BY DEF Proceed, Placed, Screens, Texts, Rows, Cols, Num

\* Every step preserves the strengthening.
LEMMA SeenStep ==
    ASSUME IInv, SeenInv, [Next]_vars
    PROVE  SeenInv'
<1> DEFINE Count == screen.cursor = origin + Len(line) + slips
           Shown == slips = 0 =>
                      \A i \in 1 .. Len(line) :
                         origin + i - 1 >= 0
                            => CellOf(screen, origin + i - 1) = line[i]
           Idle  == out # <<>> \/ mode # "shell" => line = <<>> /\ slips = 0
           Goal  == Placed(screen) /\ Count /\ Shown /\ Idle
<1>1. Goal
  BY DEF SeenInv, SeenIsRun, Cell, CellOf
<1>2. SUFFICES Goal'
  BY <1>2 DEF SeenInv, SeenIsRun, Cell, CellOf
<1>3. /\ Clean(screen) /\ screen.cursor \in Nat /\ out \in Seq(Printable)
      /\ wire \in Seq(Bytes) /\ shift \in BOOLEAN /\ caps \in BOOLEAN
      /\ line \in Seq(Glyphs) /\ origin \in Int /\ slips \in Nat
      /\ Len(line) \in Nat
  BY DEF IInv, TypeOK, Clean, AheadIsBlank, Screens
<1>4. ASSUME UNCHANGED <<screen, lineVars, out, mode>> PROVE Goal'
  BY <1>1, <1>4 DEF lineVars, Placed, CellOf, Screens, Texts, Rows, Cols, Num
<1>5. ASSUME line' = <<>>, slips' = 0, Placed(screen)', screen'.cursor = origin'
      PROVE  Goal'
  <2>1. Len(line') = 0 /\ screen'.cursor \in Nat
    BY <1>5 DEF Placed, Screens
  <2> QED BY <1>5, <2>1
<1>6. ASSUME NEW k \in Keys, Press(k) \/ Release(k) PROVE Goal'
  BY <1>4, <1>6 DEF Press, Release
<1>7. CASE PrintOne
  <2>1. Head(out) \in Printable
    BY <1>3, <1>7, HeadTailProperties DEF PrintOne
  <2>2. Placed(PutChar(screen, Head(out)))
    BY <1>3, <2>1, PutCharPlaced DEF Printable
  <2>3. Placed(screen)'
    BY <1>7, <2>2
       DEF PrintOne, Placed, Screens, Texts, Rows, Cols, Num
  <2>4. line' = <<>> /\ slips' = 0 /\ origin' = screen'.cursor
    BY <1>1, <1>7 DEF PrintOne
  <2> QED BY <1>5, <2>3, <2>4
<1>8. CASE KeyboardInit
  <2>1. line' = <<>> /\ slips' = 0 /\ screen' = screen /\ origin' = origin
    BY <1>1, <1>8 DEF KeyboardInit, lineVars
  <2>2. Len(line) = 0 /\ slips = 0
    BY <1>1, <1>8 DEF KeyboardInit
  <2>3. screen.cursor = origin
    BY <1>1, <1>3, <2>2
  <2>4. Placed(screen)'
    BY <1>1, <2>1 DEF Placed, Screens, Texts, Rows, Cols, Num
  <2> QED BY <1>5, <2>1, <2>3, <2>4
<1>9. CASE Reset
  <2>1. Placed(ClearScreen(screen))
    BY <1>3, VgaAssumption, PutCharPlaced
  <2>2. Placed(screen)'
    BY <1>9, <2>1 DEF Reset, Placed, Screens, Texts, Rows, Cols, Num
  <2>3. ClearScreen(screen).cursor = 0
    <3>1. Num(0, 0) = 0
      BY VgaAssumption DEF Num
    <3>2. ClearScreen(screen).row = 0 /\ ClearScreen(screen).col = 0
      BY <1>3 DEF ClearScreen, UpdateCursor, Clean, Screens
    <3> QED BY <2>1, <3>1, <3>2 DEF Placed
  <2> QED BY <1>5, <1>9, <2>2, <2>3 DEF Reset
<1>10. CASE ReadByte
  <2> DEFINE c == CharOf(shift, caps, Head(wire))
  <2>1. /\ mode = "shell" /\ out = <<>>
        /\ \/ UNCHANGED <<screen, lineVars, out, mode>>
           \/ Enter
           \/ Erase
           \/ c \in Glyphs /\ Echo(c)
    BY <1>10 DEF ReadByte, Reading
  <2>2. CASE Enter
    <3> DEFINE s == PutChar(screen, Newline)
    <3>1. Placed(s)
      BY <1>3, PutCharPlaced
    <3>2. Placed(ClearScreen(s))
      <4>1. Clean(s)
        BY <1>3, PutCharClean
      <4> QED BY <4>1, VgaAssumption, PutCharPlaced
    <3>3. RunCommand(SkipSpaces(line), s)
      BY <2>2 DEF Enter
    <3> HIDE DEF s
    <3>4. \E text, m : Proceed(s, text, m) \/ Proceed(ClearScreen(s), text, m)
      BY <3>3, Zenon DEF RunCommand
    <3>5. /\ Placed(screen)' /\ screen'.cursor = origin'
          /\ line' = <<>> /\ slips' = 0
      BY <3>1, <3>2, <3>4, ProceedSeen
    <3> QED BY <1>5, <3>5
  <2>3. ASSUME Erase, ~UNCHANGED <<screen, lineVars, out, mode>> PROVE Goal'
    <3> DEFINE t == PutChar(screen, Backspace)
               d == IF screen.col > 0 THEN 1 ELSE 0
    <3>1. /\ line # <<>> /\ line' = SubSeq(line, 1, Len(line) - 1)
          /\ screen' = t /\ slips' = slips + 1 - d
          /\ origin' = origin /\ out' = out /\ mode' = mode
      <4>1. screen.col = 0 <=> ~(screen.col > 0)
        BY <1>3 DEF Clean, Screens, Cols
      <4>2. slips + 1 - 1 = slips /\ slips + 1 - 0 = slips + 1
        BY <1>3
      <4> QED BY <2>3, <4>1, <4>2 DEF Erase
    <3>2. /\ t.cursor = screen.cursor - d
          /\ \A n \in Nat : n < screen.cursor - d => CellOf(t, n) = CellOf(screen, n)
      BY <1>1, <1>3, EraseCells
    <3>3. Placed(t)
      BY <1>3, PutCharPlaced
    <3>4. Placed(screen)'
      BY <3>1, <3>3 DEF Placed, Screens, Texts, Rows, Cols, Num
    <3>5. /\ Len(line) >= 1 /\ Len(line') = Len(line) - 1
          /\ \A i \in 1 .. Len(line') : i \in 1 .. Len(line) /\ line'[i] = line[i]
      <4>1. Len(line) >= 1
        BY <1>3, <3>1, EmptySeq
      <4>2. \A i \in 1 .. Len(line) - 1 : line[i] \in Glyphs
        BY <1>3, <4>1
      <4>3. Len(line) \in Nat /\ Len(line) - 1 \in Int /\ 1 \in Int
        BY <4>1, <1>3
      <4>4. /\ Len(SubSeq(line, 1, Len(line) - 1))
                = IF 1 <= Len(line) - 1 THEN Len(line) - 1 - 1 + 1 ELSE 0
            /\ \A i \in 1 .. Len(line) - 1 - 1 + 1 :
                  SubSeq(line, 1, Len(line) - 1)[i] = line[1 + i - 1]
        BY <4>2, <4>3, SubSeqProperties
      <4>5. Len(line') = Len(line) - 1
        <5>1. line' = SubSeq(line, 1, Len(line) - 1)
          BY <3>1
        <5>2. Len(SubSeq(line, 1, Len(line) - 1)) = Len(line) - 1
          <6> DEFINE n == Len(line)
                     m == Len(SubSeq(line, 1, Len(line) - 1))
          <6>1. n \in Nat /\ n >= 1 /\ m = IF 1 <= n - 1 THEN n - 1 - 1 + 1 ELSE 0
            BY <4>1, <4>3, <4>4
          <6> HIDE DEF n, m
          <6>2. m = n - 1
            BY <6>1
          <6> QED BY <6>2 DEF n, m
        <5> QED BY <5>1, <5>2
      <4> QED BY <1>3, <3>1, <4>1, <4>4, <4>5
    <3>6. d \in {0, 1}
      OBVIOUS
    <3> HIDE DEF t, d
    <3>7. Count'
      <4>1. screen.cursor = origin + Len(line) + slips
        BY <1>1
      <4>2. t.cursor = screen.cursor - d
        BY <3>2
      <4>3. screen'.cursor = t.cursor
        BY <3>1
      <4>4. Len(line') = Len(line) - 1 /\ slips' = slips + 1 - d /\ origin' = origin
        BY <3>1, <3>5
      <4>5. Len(line) \in Int /\ origin \in Int /\ slips \in Int /\ d \in Int
        BY <1>3, <3>6
      <4> QED BY <4>1, <4>2, <4>3, <4>4, <4>5
    <3>8. Shown'
      <4> SUFFICES ASSUME slips' = 0, NEW i \in 1 .. Len(line'), origin' + i - 1 >= 0
                   PROVE  CellOf(screen', origin' + i - 1) = line'[i]
        OBVIOUS
      <4>1. d = 1 /\ slips = 0
        BY <1>3, <3>1, <3>6
      <4>2. origin + i - 1 \in Nat /\ origin + i - 1 < screen.cursor - d
        BY <1>1, <1>3, <3>1, <3>5, <4>1
      <4>3. CellOf(screen', origin + i - 1) = CellOf(screen, origin + i - 1)
        BY <3>1, <3>2, <4>2
      <4>4. CellOf(screen, origin + i - 1) = line[i]
        BY <1>1, <3>5, <4>1, <4>2
      <4> QED BY <3>1, <3>5, <4>3, <4>4
    <3> QED BY <2>1, <3>1, <3>4, <3>7, <3>8
  <2>4. ASSUME c \in Glyphs, Echo(c), ~UNCHANGED <<screen, lineVars, out, mode>>
        PROVE  Goal'
    <3> DEFINE t == PutChar(screen, c)
               d == IF Scrolls(screen, c) THEN Width ELSE 0
    <3>1. /\ line' = Append(line, c) /\ screen' = t
          /\ slips' = slips /\ out' = out /\ mode' = mode
          /\ origin' = origin - d
      <4>1. origin - 0 = origin
        BY <1>3
      <4> QED BY <2>4, <4>1 DEF Echo
    <3>2. /\ t.cursor = screen.cursor + 1 - d
          /\ screen.cursor - d >= 0 => CellOf(t, screen.cursor - d) = c
          /\ \A n \in Int : n - d >= 0 /\ n < screen.cursor
                => CellOf(t, n - d) = CellOf(screen, n)
      BY <1>1, <1>3, <2>4, EchoCells
    <3>3. Placed(t)
      BY <1>3, <2>4, PutCharPlaced
    <3>4. Placed(screen)'
      BY <3>1, <3>3 DEF Placed, Screens, Texts, Rows, Cols, Num
    <3>5. d \in Nat
      BY VgaAssumption
    <3> HIDE DEF c, t, d
    <3>6. /\ Len(line') = Len(line) + 1 /\ line'[Len(line) + 1] = c
          /\ \A i \in 1 .. Len(line) : line'[i] = line[i]
      BY <1>3, <2>4, <3>1
    <3>7. Count'
      BY <1>1, <1>3, <3>1, <3>2, <3>5, <3>6
    <3>8. Shown'
      <4> SUFFICES ASSUME slips' = 0, NEW i \in 1 .. Len(line'), origin' + i - 1 >= 0
                   PROVE  CellOf(screen', origin' + i - 1) = line'[i]
        OBVIOUS
      <4> DEFINE n == origin + i - 1
      <4>1. slips = 0 /\ n \in Int /\ origin' + i - 1 = n - d /\ n - d >= 0
        BY <1>3, <3>1, <3>5, <3>6
      <4>2. screen.cursor = origin + Len(line)
        BY <1>1, <1>3, <4>1
      <4>3. CASE i = Len(line) + 1
        <5>1. n = screen.cursor
          BY <1>3, <4>2, <4>3
        <5> QED BY <3>1, <3>2, <3>6, <4>1, <4>3, <5>1
      <4>4. CASE i # Len(line) + 1
        <5>1. i \in 1 .. Len(line) /\ n < screen.cursor
          BY <1>3, <3>6, <4>2, <4>4
        <5>2. n >= 0
          BY <3>5, <4>1
        <5>3. CellOf(screen, n) = line[i]
          BY <1>1, <4>1, <5>1, <5>2
        <5>4. CellOf(t, n - d) = CellOf(screen, n)
          BY <3>2, <4>1, <5>1
        <5> QED BY <3>1, <3>6, <4>1, <5>1, <5>3, <5>4
      <4> QED BY <4>3, <4>4
    <3> QED BY <2>1, <3>1, <3>4, <3>7, <3>8
  <2> QED BY <1>4, <2>1, <2>2, <2>3, <2>4
<1>11. CASE UNCHANGED vars
  BY <1>4, <1>11 DEF vars
<1> QED BY <1>6, <1>7, <1>8, <1>9, <1>10, <1>11 DEF Next

\* What stands on the screen is what Enter will run, on a screen of any size
\* and for lines of any length: wrapping, scrolling and rubbing out keep the
\* two together but for the backspaces the screen could not follow.
THEOREM ScreenTellsLine == Spec => []SeenIsRun
<1>1. Init => SeenInv
  <2>1. ASSUME Init PROVE Clean(screen) /\ Num(0, 0) = 0
    BY <2>1, InitIInv, VgaAssumption DEF IInv, TypeOK, Clean, AheadIsBlank, Num
  <2>2. ASSUME Init PROVE Placed(screen)
    BY <2>1, <2>2 DEF Init, Clean, Placed
  <2>3. ASSUME Init PROVE SeenIsRun
    <3>1. /\ line = <<>> /\ Len(line) = 0 /\ origin = 0 /\ slips = 0
          /\ screen.cursor = 0
      BY <2>3 DEF Init
    <3> QED BY <3>1 DEF SeenIsRun
  <2>4. ASSUME Init PROVE line = <<>> /\ slips = 0
    BY <2>4 DEF Init
  <2> QED BY <2>2, <2>3, <2>4 DEF SeenInv
<1>2. IInv /\ SeenInv /\ [Next]_vars => SeenInv'
  BY SeenStep
<1>3. SeenInv => SeenIsRun
  BY DEF SeenInv
<1> QED BY <1>1, <1>2, <1>3, Inductive, PTL DEF Spec
=============================================================================
