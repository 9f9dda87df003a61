------------------------------ MODULE Controls ------------------------------
(***************************************************************************)
(* The pages of the Settings app as tables: which control stands for which *)
(* key, what it offers and what it shows for a stored value.               *)
(* Numbers are integers: scales in hundredths, the pointer's sensitivity   *)
(* in tenths.  A key's section is left out of its name.                    *)
(***************************************************************************)
EXTENDS Integers, SequencesExt, TLC

LOCAL Yes == "true"
LOCAL No  == "false"

Switch          == [kind |-> "switch",   offers |-> {Yes, No}]
Combo(entries)  == [kind |-> "combo",    offers |-> entries]
Spin(low, high) == [kind |-> "spin",     low |-> low, high |-> high]
Swatches(hues)  == [kind |-> "swatches", offers |-> hues]
File            == [kind |-> "file"]
Entry           == [kind |-> "entry"]

\* The lists at the head of the pages' modules.
THEMES      == <<"dark", "light", "auto">>
ACCENTS     == {"#1E6FFF", "#5BC0EB", "#FF6B6B", "#5BEBA1", "#C678DD",
                "#FFB454", "#FF79C6", "#E8C97B"}
ICON_THEMES == <<"Papirus-Dark", "Papirus", "Papirus-Light", "Adwaita",
                 "hicolor">>
CURSOR_THEMES == <<"Bibata-Modern-Classic", "Adwaita", "default">>
SCALES      == <<100, 125, 150, 175, 200, 250, 300>>
RATES       == <<"auto", "60", "75", "90", "120", "144", "165", "240">>
KEYBOARD_LAYOUTS ==
    <<"gb", "us", "de", "fr", "es", "it", "pt", "nl", "se", "no", "dk", "fi",
      "pl", "ru", "tr", "br", "jp", "kr", "cn">>
SCALE_OPTIONS == <<100, 125, 150, 200>>
FILTERS     == <<"none", "protanopia", "deuteranopia", "tritanopia">>

AppearancePage ==
    "theme" :> Combo(THEMES)            @@ "accent" :> Swatches(ACCENTS) @@
    "font-size" :> Spin(9, 16)          @@ "animations" :> Switch @@
    "blur" :> Switch                    @@ "rounding" :> Spin(0, 24) @@
    "icon-theme" :> Combo(ICON_THEMES)  @@
    "cursor-theme" :> Combo(CURSOR_THEMES) @@ "wallpaper" :> File

DisplayPage ==
    "night-light" :> Switch             @@ "night-light-temp" :> Spin(2700, 6500) @@
    "scale" :> Combo(SCALES)            @@ "custom-scale" :> Spin(0, 400) @@
    "refresh-rate" :> Combo(RATES)      @@ "vrr" :> Switch @@
    "overscan" :> Spin(0, 50)

KeyboardPage ==
    "layout" :> Combo(KEYBOARD_LAYOUTS) @@ "repeat-delay" :> Spin(100, 1000) @@
    "repeat-rate" :> Spin(10, 100)      @@ "numlock" :> Switch @@
    "mouse-sensitivity" :> Spin(-10, 10) @@ "natural-scroll" :> Switch @@
    "tap-to-click" :> Switch

NetworkPage ==
    "proxy-enabled" :> Switch @@ "proxy" :> Entry

AccessibilityPage ==
    "ui-scale" :> Combo(SCALE_OPTIONS)  @@ "color-filter" :> Combo(FILTERS) @@
    [k \in {"high-contrast", "screen-reader", "magnifier", "sticky-keys",
            "slow-keys", "mouse-keys", "live-captions"} |-> Switch]

Pages ==
    AppearancePage @@ DisplayPage @@ KeyboardPage @@ NetworkPage
        @@ AccessibilityPage

\* What a control shows for the stored value v: a list that does not have it
\* its first entry, a spin button the nearest bound, the swatches no ring.
Display(c, v) ==
    CASE c.kind = "combo"    -> IF v \in Range(c.offers) THEN v ELSE Head(c.offers)
      [] c.kind = "spin"     -> IF v < c.low THEN c.low
                                ELSE IF v > c.high THEN c.high ELSE v
      [] c.kind = "swatches" -> IF v \in c.offers THEN v ELSE "no ring"
      [] OTHER               -> v

\* The user can make the control report v while it shows w: any entry or
\* value but the one shown, any swatch, any file, any text.
CanReport(c, w, v) ==
    CASE c.kind = "switch"   -> v \in c.offers /\ v # w
      [] c.kind = "combo"    -> v \in Range(c.offers) /\ v # w
      [] c.kind = "spin"     -> v \in c.low .. c.high /\ v # w
      [] c.kind = "swatches" -> v \in c.offers
      [] OTHER               -> TRUE

---------------------------------------------------------------------------
(* default-settings.toml: its keys in their order, and what it ships.      *)

ShippedTables == [
    appearance |-> <<
        <<"theme", "dark">>, <<"accent", "#1E6FFF">>,
        <<"wallpaper", "/usr/share/torrentos/branding/wallpaper.png">>,
        <<"icon-theme", "Papirus-Dark">>,
        <<"cursor-theme", "Bibata-Modern-Classic">>, <<"font-size", 11>>,
        <<"animations", Yes>>, <<"blur", Yes>>, <<"rounding", 12>> >>,
    accessibility |-> <<
        <<"high-contrast", No>>, <<"screen-reader", No>>, <<"magnifier", No>>,
        <<"ui-scale", 100>>, <<"sticky-keys", No>>, <<"slow-keys", No>>,
        <<"mouse-keys", No>>, <<"live-captions", No>>,
        <<"color-filter", "none">> >>,
    keyboard |-> <<
        <<"layout", "us">>, <<"repeat-delay", 300>>, <<"repeat-rate", 50>>,
        <<"numlock", Yes>>, <<"natural-scroll", Yes>>,
        <<"tap-to-click", Yes>>, <<"mouse-sensitivity", 0>> >>,
    display |-> <<
        <<"night-light", No>>, <<"night-light-temp", 4000>>, <<"scale", 100>>,
        <<"custom-scale", 0>>, <<"refresh-rate", "auto">>, <<"vrr", No>>,
        <<"overscan", 0>> >>,
    network   |-> << <<"proxy-enabled", No>>, <<"proxy", "">> >>,
    dev_mode  |-> << <<"dev-mode", No>> >>,
    ai        |-> << <<"ai", "off">> >>,
    telemetry |-> << <<"telemetry", No>> >> ]

TablesInFile ==
    <<"appearance", "accessibility", "keyboard", "display", "network",
      "dev_mode", "ai", "telemetry">>

\* The file as the daemon goes through it: key after key.
Flattened == FlattenSeq([i \in DOMAIN TablesInFile |->
    LET t == TablesInFile[i]
    IN  [j \in DOMAIN ShippedTables[t] |-> <<t>> \o ShippedTables[t][j]]])
ShippedOrder   == [i \in DOMAIN Flattened |-> Flattened[i][2]]
ShippedKeys    == Range(ShippedOrder)
EntryOf(k)     == Flattened[CHOOSE i \in DOMAIN Flattened : Flattened[i][2] = k]
ShippedSection == [k \in ShippedKeys |-> EntryOf(k)[1]]
ShippedDefault == [k \in ShippedKeys |-> EntryOf(k)[3]]
=============================================================================
