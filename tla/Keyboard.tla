------------------------------ MODULE Keyboard ------------------------------
(***************************************************************************)
(* The kernel's PS/2 keyboard driver (kernel/keyboard.c): what one byte    *)
(* of scancode set 1 does to the shift and caps flags and which character, *)
(* if any, keyboard_getchar returns for it.                                *)
(***************************************************************************)
EXTENDS Integers, Sequences

CONSTANTS
    Letters,           \* the letters, each with its two cases:
    LowerOf, UpperOf,  \* LowerOf[l], UpperOf[l] are characters
    Normal, Shifted,   \* sc_normal, sc_shift: [TableCodes -> characters]
    NoChar             \* the tables' 0: a key without a character

LShift == 42     \* 0x2A
RShift == 54     \* 0x36
CapsLock == 58   \* 0x3A
TableCodes == 0 .. 57
Bytes == 0 .. 255

\* The tables' values: 0 or a character.
ASSUME KeyboardAssumption ==
    DOMAIN Normal = TableCodes /\ DOMAIN Shifted = TableCodes

IsRelease(sc) == sc >= 128
IsShift(code) == code \in {LShift, RShift}

\* Mutant: the release of the right shift key is not looked for.
ShiftAfterLeftOnly(shift, sc) ==
    CASE sc - 128 = LShift -> FALSE
      [] IsShift(sc)       -> TRUE
      [] OTHER             -> shift

\* shift behind the byte: a release code has bit 7 set.
ShiftAfter(shift, sc) ==
    CASE IsRelease(sc) /\ IsShift(sc - 128) -> FALSE
      [] IsShift(sc)                        -> TRUE
      [] OTHER                              -> shift

\* caps ^= 1
CapsAfter(caps, sc) == IF sc = CapsLock THEN ~caps ELSE caps

\* The two assignments under "apply caps lock to letters", one behind the
\* other: the second sees what the first has made of c.
CapsUp(c) ==
    IF \E l \in Letters : c = LowerOf[l]
    THEN UpperOf[CHOOSE l \in Letters : c = LowerOf[l]] ELSE c
CapsDown(c) ==
    IF \E l \in Letters : c = UpperOf[l]
    THEN LowerOf[CHOOSE l \in Letters : c = UpperOf[l]] ELSE c
ApplyCaps(caps, c) == IF caps THEN CapsDown(CapsUp(c)) ELSE c

\* The character keyboard_getchar returns on this byte, NoChar if it reads on.
\* The byte 0xE0 has bit 7 set, so the release test has already taken it.
CharOf(shift, caps, sc) ==
    IF IsRelease(sc) \/ IsShift(sc) \/ sc = CapsLock \/ sc \notin TableCodes
    THEN NoChar
    ELSE LET c == IF shift THEN Shifted[sc] ELSE Normal[sc]
         IN  IF c = NoChar THEN NoChar ELSE ApplyCaps(caps, c)
=============================================================================
