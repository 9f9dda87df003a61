----------------------------- MODULE MCConsole -----------------------------
(* Small instances of Console for TLC: a keyboard of a few keys with their *)
(* real scancodes, a screen of a few cells and short texts.                *)
EXTENDS Console, TLC

MCGlyphs == {" ", "a", "A", ">"}
MCLetters == {"letter"}
MCLower == "letter" :> "a"
MCUpper == "letter" :> "A"

\* Where PC keyboards have the keypad's star, which PrtSc types, there is an
\* "a" here.
Layout(letter) ==
    [sc \in TableCodes |->
        CASE sc = 14 -> "bs" [] sc = 28 -> "nl" [] sc = 30 -> letter
          [] sc = 55 -> "a"  [] sc = 57 -> " "  [] OTHER  -> "none"]
MCNormal  == Layout("a")
MCShifted == Layout("A")

\* Most keys send one byte, whatever else is down.
Plainly(code) == [d \in BOOLEAN |-> <<code>>]

\* PrtSc, between the bytes of a shift it pretends unless one is down, and an
\* arrow, which lowers the right shift while it is down.
MCMake ==
    [A |-> Plainly(30), Space |-> Plainly(57), Back |-> Plainly(14),
     Enter |-> Plainly(28), Right |-> Plainly(54),
     PrtSc |-> [d \in BOOLEAN |-> IF d THEN <<224, 55>> ELSE <<224, 42, 224, 55>>],
     Arrow |-> [d \in BOOLEAN |-> IF d THEN <<224, 182, 224, 75>> ELSE <<224, 75>>]]
MCBreak ==
    [A |-> Plainly(158), Space |-> Plainly(185), Back |-> Plainly(142),
     Enter |-> Plainly(156), Right |-> Plainly(182),
     PrtSc |-> [d \in BOOLEAN |-> IF d THEN <<224, 183>> ELSE <<224, 183, 224, 170>>],
     Arrow |-> [d \in BOOLEAN |-> IF d THEN <<224, 203, 224, 54>> ELSE <<224, 203>>]]

EditKeys == {"A", "Space", "Back", "Enter", "Right", "Arrow", "PrtSc"}

Sent(f, ks) == [k \in ks |-> f[k]]
EditMake  == Sent(MCMake, EditKeys)
EditBreak == Sent(MCBreak, EditKeys)

MCPrompt  == <<">">>
MCSplash  == <<"nl", ">">>
MCNote    == <<"a", "nl">>
MCReports == <<"a">> :> <<"A", "nl">>
MCClear   == <<"a", "a">>
MCHalt    == <<"a", "a", "a">>
MCReboot  == <<"a", "a", "a", "a">>
MCText    == <<"nl">>
=============================================================================
