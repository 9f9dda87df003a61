---------------------------- MODULE MCFirstBoot ----------------------------
(* Small instances of FirstBoot for TLC: a few layouts, one more key in    *)
(* the keyboard section and one key of another section, with one value.    *)
EXTENDS FirstBoot, TLC

CONSTANTS d1

TwoLayouts   == {"gb", "us"}
ThreeLayouts == {"gb", "us", "de"}
TwoValues    == TwoLayouts \cup {"2"}
ThreeValues  == ThreeLayouts \cup {"2"}

MCKeys     == {"layout", "numlock", "scale"}
MCKeyboard == {"layout", "numlock"}
MCDefault  == "layout" :> "us" @@ "numlock" :> "unset" @@ "scale" :> "unset"
NoKey      == {}
OneDaemon  == {d1}
NoDaemon   == {}
=============================================================================
