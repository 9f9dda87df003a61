----------------------------- MODULE Overrides -----------------------------
(***************************************************************************)
(* What the settings store (torrentos_settings/settings.py) promises the   *)
(* app, whatever it does with nested tables: a function from the keys the  *)
(* user has overridden to their values.                                    *)
(*                                                                         *)
(* The app reads the overrides once, changes them one key at a time, and   *)
(* what it saves is all it holds.  A save may fail; others may write too.  *)
(***************************************************************************)
VARIABLES
    running,   \* the app runs
    held,      \* the overrides the app knows
    saved      \* the overrides in the user's file

vars == <<running, held, saved>>

None == [k \in {} |-> {}]

\* f and g agree on every key but one.
OneKey(f, g) ==
    LET changed == {k \in DOMAIN f \cup DOMAIN g :
                       ~(k \in DOMAIN f /\ k \in DOMAIN g /\ f[k] = g[k])}
    IN  \A j, k \in changed : j = k

Init == ~running /\ held = None

Load ==
    /\ ~running /\ running'
    /\ held' = saved
    /\ UNCHANGED saved

\* set and reset, with a save that works or does not.
Change ==
    /\ running /\ running'
    /\ OneKey(held, held')
    /\ saved' = held' \/ saved' = saved

Others ==
    /\ OneKey(saved, saved')
    /\ UNCHANGED <<running, held>>

Stop ==
    /\ running /\ ~running'
    /\ held' = None
    /\ UNCHANGED saved

Next == Load \/ Change \/ Others \/ Stop

Spec == Init /\ [][Next]_vars
=============================================================================
