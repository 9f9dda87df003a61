--------------------------- MODULE MCSettingsApp ---------------------------
(* SettingsApp for TLC with every key of the shipped defaults: one value   *)
(* beside the shipped one, both where keys share a slot, and some that no  *)
(* control offers.                                                         *)
EXTENDS SettingsApp

MCTried ==
    [k \in ShippedKeys |->
        CASE k = "theme"            -> {"light"}
          [] k = "high-contrast"    -> {On, Off}
          [] k = "accent"           -> {"#FF6B6B", "#123456"}
          [] k = "wallpaper"        -> {"/home/user/sea.png", "/gone.png"}
          [] k = "icon-theme"       -> {"Adwaita"}
          [] k = "cursor-theme"     -> {"default"}
          [] k = "font-size"        -> {14}
          [] k = "rounding"         -> {6}
          [] k = "color-filter"     -> {"protanopia", "grayscale"}
          [] k = "layout"           -> {"gb"}
          [] k = "repeat-delay"     -> {250}
          [] k = "repeat-rate"      -> {60}
          [] k = "mouse-sensitivity" -> {-5}
          [] k = "night-light"      -> {On, Off}
          [] k = "night-light-temp" -> {3000, 9000}
          [] k \in {"ui-scale", "scale"} -> {100, 150}
          [] k = "custom-scale"     -> {0, 125}
          [] k = "refresh-rate"     -> {"auto", "144"}
          [] k = "overscan"         -> {10}
          [] k = "proxy-enabled"    -> {On, Off}
          [] k = "proxy"            -> {"", "host:8080"}
          [] k = "ai"               -> {"claude"}
          [] OTHER                  -> {On, Off} \ {ShippedDefault[k]}]
MCAgain == {"high-contrast", "night-light", "wallpaper"}
MCScaled == {"scale", "refresh-rate"}
MCUnusable == {"/gone.png"}
=============================================================================
