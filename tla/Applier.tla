------------------------------ MODULE Applier ------------------------------
(***************************************************************************)
(* The applier (torrentos_settings/applier.py) as operators on a session:  *)
(* what apply(key, value) does to the things the keys drive.               *)
(*                                                                         *)
(* A session is [shows, programs].  shows[s] is what stands in the slot s: *)
(* a gsetting, a Hyprland keyword, an entry of settings.ini or a file.     *)
(* Most keys have a slot of their own, of their own name; three slots are  *)
(* shared:                                                                 *)
(*   gtk      the gtk-theme gsetting         theme, high-contrast          *)
(*   monitor  Hyprland's monitor rule        ui-scale, scale, custom-scale,*)
(*                                           refresh-rate                  *)
(*   proxy    the org.gnome.system.proxy     proxy-enabled, proxy          *)
(*            settings                                                     *)
(* The night light and the magnifier are programs: they are killed and, if *)
(* the key is on, started again, so their effect takes two steps.          *)
(* A key's section is left out of its name; scales are in hundredths.      *)
(***************************************************************************)
EXTENDS Integers

CONSTANTS
    NotSet,    \* the user's file does not mention the key
    Unusable   \* accents that are not six digits, paths without a file

On  == "true"
Off == "false"

GtkKeys     == {"theme", "high-contrast"}
MonitorKeys == {"ui-scale", "scale", "custom-scale", "refresh-rate"}
ProxyKeys   == {"proxy-enabled", "proxy"}
LaunchKeys  == {"night-light", "magnifier"}

\* Keys whose entry in DISPATCH does nothing: stored for a backend to come,
\* for another program, or, as the temperature, for another key.
StoredKeys ==
    {"live-captions", "overscan", "night-light-temp",
     "dev-mode", "ai", "telemetry"}

\* _read_setting: the user's file only, with the caller's fallback.
ReadSetting(user, k, fallback) ==
    IF k \notin DOMAIN user \/ user[k] = NotSet THEN fallback ELSE user[k]

Own(k, v) == [s \in {k} |-> v]
NoEffect  == [s \in {} |-> Off]

---------------------------------------------------------------------------
(* One operator per section of the file: the slots a call sets.            *)

\* The name apply_theme and apply_high_contrast give to gtk-theme.
GtkTheme(theme) ==
    IF theme = "light" THEN "TorrentOS-Light" ELSE "TorrentOS-Dark"

\* apply_theme also sets the colour scheme and, in settings.ini, the theme;
\* an accent or a wallpaper that cannot be used is passed over.
AppearanceEffect(k, v) ==
    CASE k = "theme" ->
            [scheme |-> IF v \in {"dark", "light"} THEN v ELSE "default",
             gtk |-> GtkTheme(v), ini |-> GtkTheme(v)]
      [] k \in {"accent", "wallpaper"} /\ v \in Unusable -> NoEffect
      [] OTHER -> Own(k, v)

\* apply_high_contrast
ContrastTheme(enabled, user) ==
    IF enabled = On THEN "HighContrast"
    ELSE GtkTheme(ReadSetting(user, "theme", "dark"))

\* apply_ui_scale and apply_refresh_rate both set the whole monitor rule.
Scaled(scale)  == [monitor |-> [scale |-> scale, rate |-> "preferred"]]
Refreshed(hz)  == [monitor |-> [scale |-> 100, rate |-> hz]]

\* Of the colour filters only "grayscale" does anything.
AccessibilityEffect(k, v, user) ==
    CASE k = "high-contrast" -> [gtk |-> ContrastTheme(v, user)]
      [] k = "ui-scale"      -> Scaled(v)
      [] k = "color-filter"  -> Own(k, IF v = "grayscale" THEN On ELSE Off)
      [] OTHER               -> Own(k, v)

\* A custom scale of 0 and a rate of auto leave the rule as it is; the slot
\* temp is what the night light was last started with.
DisplayEffect(k, v, user) ==
    CASE k = "night-light"  ->
            [temp |-> IF v = On THEN ReadSetting(user, "night-light-temp", 4000)
                      ELSE NotSet]
      [] k = "scale"        -> Scaled(v)
      [] k = "custom-scale" -> IF v = 0 THEN NoEffect ELSE Scaled(v)
      [] k = "refresh-rate" -> IF v \in {"0", "auto"} THEN NoEffect
                               ELSE Refreshed(v)
      [] OTHER              -> Own(k, v)

\* The keyboard and pointer keywords, the layout in user.conf as well.
InputEffect(k, v) == Own(k, v)

\* apply_proxy: the address in manual mode, or mode none.
Proxy(enabled, address) ==
    IF enabled = On /\ address # "" THEN address ELSE "none"

\* Mutant: the other proxy key is taken from the shipped defaults.
ProxyAlone(k, v, user) ==
    [proxy |-> IF k = "proxy" THEN Proxy(Off, v) ELSE Proxy(v, "")]

\* Each of the two keys is applied with what the file says of the other.
ProxyEffect(k, v, user) ==
    [proxy |-> IF k = "proxy"
               THEN Proxy(ReadSetting(user, "proxy-enabled", Off), v)
               ELSE Proxy(v, ReadSetting(user, "proxy", ""))]

AppearanceKeys ==
    {"theme", "accent", "wallpaper", "font-size", "animations", "blur",
     "rounding", "icon-theme", "cursor-theme"}
AccessibilityKeys ==
    {"high-contrast", "screen-reader", "ui-scale", "sticky-keys", "slow-keys",
     "mouse-keys", "color-filter"}
DisplayKeys == {"night-light", "scale", "custom-scale", "refresh-rate", "vrr"}
InputKeys ==
    {"layout", "natural-scroll", "mouse-sensitivity", "repeat-delay",
     "repeat-rate", "tap-to-click", "numlock"}

\* DISPATCH, but for killing and starting the programs; user is the user's
\* file while the call runs.  An unknown key has no entry.
Effect(k, v, user) ==
    CASE k \in AppearanceKeys    -> AppearanceEffect(k, v)
      [] k \in AccessibilityKeys -> AccessibilityEffect(k, v, user)
      [] k \in DisplayKeys       -> DisplayEffect(k, v, user)
      [] k \in InputKeys         -> InputEffect(k, v)
      [] k \in ProxyKeys         -> ProxyEffect(k, v, user)
      [] OTHER                   -> NoEffect

---------------------------------------------------------------------------
(* apply(k, v) on the session t.                                           *)

\* The slots the call sets.
Apply(t, k, v, user) ==
    LET e == Effect(k, v, user)
    IN  [t EXCEPT !.shows = [s \in DOMAIN t.shows |->
                                IF s \in DOMAIN e THEN e[s] ELSE t.shows[s]]]

\* Mutant: an instance is taken away though none may run.
StoppedOne(t, k) == [t EXCEPT !.programs[k] = @ - 1]

\* Mutant: what runs is left running.
StoppedNone(t, k) == t

\* apply_night_light and apply_magnifier: pkill, then Popen.
Stopped(t, k)  == [t EXCEPT !.programs[k] = 0]
Launched(t, k) == [t EXCEPT !.programs[k] = @ + 1]

\* The whole call, where nobody looks at it half done.
Carry(t, k, v, user) ==
    LET s == Apply(t, k, v, user)
    IN  IF k \notin LaunchKeys THEN s
        ELSE IF v = On THEN Launched(Stopped(s, k), k) ELSE Stopped(s, k)

\* The slots the keys drive, beside the programs.
SlotsOf(k) ==
    CASE k = "theme"                        -> {"scheme", "gtk", "ini"}
      [] k = "high-contrast"                -> {"gtk"}
      [] k \in MonitorKeys                  -> {"monitor"}
      [] k \in ProxyKeys                    -> {"proxy"}
      [] k = "night-light"                  -> {"temp"}
      [] k \in StoredKeys \cup {"magnifier"} -> {}
      [] OTHER                              -> {k}

\* Before anything was applied: the session as its own files set it up.
Fresh(keys) ==
    [shows |-> [s \in UNION {SlotsOf(k) : k \in keys} |-> NotSet],
     programs |-> [k \in keys \cap LaunchKeys |-> 0]]
=============================================================================
