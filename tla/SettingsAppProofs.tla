------------------------- MODULE SettingsAppProofs -------------------------
(***************************************************************************)
(* Proofs about SettingsApp: its tables are well formed whatever fails and *)
(* whoever else writes, the store implements Overrides, the controls tell  *)
(* what the store has, and the session shows what a login would set up.    *)
(***************************************************************************)
EXTENDS SettingsApp, TLAPS

---------------------------------------------------------------------------
(* The tables.                                                             *)

\* A key held is found in its table, and the other way round.
LEMMA FlatDomain ==
    ASSUME NEW u, IsStore(u)
    PROVE  /\ DOMAIN Flat(u) = {k \in Keys : Has(u, k)}
           /\ \A k \in DOMAIN Flat(u) : Flat(u)[k] = u[SectionOf[k]][k]
BY DEF IsStore, Flat, Has

LEMMA SetKeepsStore ==
    ASSUME NEW u, IsStore(u), NEW k \in Keys, NEW v
    PROVE  /\ IsStore(SetIn(u, k, v))
           /\ \A j \in Keys : Has(SetIn(u, k, v), j) <=> Has(u, j) \/ j = k
           /\ \A j \in Keys \ {k} : Has(u, j) =>
                 SetIn(u, k, v)[SectionOf[j]][j] = u[SectionOf[j]][j]
BY DEF IsStore, SetIn, Has

LEMMA ResetKeepsStore ==
    ASSUME NEW u, IsStore(u), NEW k \in Keys, SectionOf[k] \in DOMAIN u
    PROVE  /\ IsStore(ResetIn(u, k))
           /\ \A j \in Keys : Has(ResetIn(u, k), j) <=> Has(u, j) /\ j # k
           /\ \A j \in Keys \ {k} : Has(u, j) =>
                 ResetIn(u, k)[SectionOf[j]][j] = u[SectionOf[j]][j]
BY DEF IsStore, ResetIn, Has

\* A set changes one override.
LEMMA SetIsOneKey ==
    ASSUME NEW u, IsStore(u), NEW k \in Keys, NEW v
    PROVE  Store!OneKey(Flat(u), Flat(SetIn(u, k, v)))
<1> DEFINE w == SetIn(u, k, v)
<1>1. IsStore(w)
  BY SetKeepsStore
<1>2. \A j \in Keys \ {k} : /\ Has(u, j) <=> Has(w, j)
                            /\ Has(u, j) => w[SectionOf[j]][j] = u[SectionOf[j]][j]
  BY SetKeepsStore
<1> HIDE DEF w
<1>3. Store!OneKey(Flat(u), Flat(w))
  BY <1>1, <1>2, FlatDomain DEF Store!OneKey
<1> QED
  BY <1>3 DEF w

\* So does a reset.
LEMMA ResetIsOneKey ==
    ASSUME NEW u, IsStore(u), NEW k \in Keys, SectionOf[k] \in DOMAIN u
    PROVE  Store!OneKey(Flat(u), Flat(ResetIn(u, k)))
<1> DEFINE w == ResetIn(u, k)
<1>1. IsStore(w)
  BY ResetKeepsStore
<1>2. \A j \in Keys \ {k} : /\ Has(u, j) <=> Has(w, j)
                            /\ Has(u, j) => w[SectionOf[j]][j] = u[SectionOf[j]][j]
  BY ResetKeepsStore
<1> HIDE DEF w
<1>3. Store!OneKey(Flat(u), Flat(w))
  BY <1>1, <1>2, FlatDomain DEF Store!OneKey
<1> QED
  BY <1>3 DEF w

LEMMA EmptyIsStore == IsStore(NoTables) /\ Flat(NoTables) = Store!None
BY DEF IsStore, NoTables, Flat, Store!None

LEMMA NothingChanged == ASSUME NEW f PROVE Store!OneKey(f, f)
BY DEF Store!OneKey

---------------------------------------------------------------------------
(* The handlers' steps.                                                    *)

\* A queue of steps for the pages' keys; no shape is assumed of the values.
IsHandler(p) ==
    \E S : p \in Seq(S) /\ \A step \in S : step.key \in DOMAIN Control

LEMMA ShortHandlers ==
    /\ IsHandler(<<>>)
    /\ \A a : a.key \in DOMAIN Control => IsHandler(<<a>>)
    /\ \A a, b : {a.key, b.key} \subseteq DOMAIN Control => IsHandler(<<a, b>>)
    /\ \A a, b, c : {a.key, b.key, c.key} \subseteq DOMAIN Control
                       => IsHandler(<<a, b, c>>)
<1>1. IsHandler(<<>>)
  <2> DEFINE q == <<>>
             S == {}
  <2>1. q \in Seq(S) /\ \A step \in S : step.key \in DOMAIN Control
    OBVIOUS
  <2> HIDE DEF q, S
  <2>2. IsHandler(q)
    BY <2>1 DEF IsHandler
  <2> QED BY <2>2 DEF q
<1>2. ASSUME NEW a, a.key \in DOMAIN Control
      PROVE  IsHandler(<<a>>)
  <2> DEFINE q == <<a>>
             S == {a}
  <2>1. q \in Seq(S) /\ \A step \in S : step.key \in DOMAIN Control
    BY <1>2
  <2> HIDE DEF q, S
  <2>2. IsHandler(q)
    BY <2>1 DEF IsHandler
  <2> QED BY <2>2 DEF q
<1>3. ASSUME NEW a, NEW b, {a.key, b.key} \subseteq DOMAIN Control
      PROVE  IsHandler(<<a, b>>)
  <2> DEFINE q == <<a, b>>
             S == {a, b}
  <2>1. q \in Seq(S) /\ \A step \in S : step.key \in DOMAIN Control
    BY <1>3
  <2> HIDE DEF q, S
  <2>2. IsHandler(q)
    BY <2>1 DEF IsHandler
  <2> QED BY <2>2 DEF q
<1>4. ASSUME NEW a, NEW b, NEW c, {a.key, b.key, c.key} \subseteq DOMAIN Control
      PROVE  IsHandler(<<a, b, c>>)
  <2> DEFINE q == <<a, b, c>>
             S == {a, b, c}
  <2>1. q \in Seq(S) /\ \A step \in S : step.key \in DOMAIN Control
    BY <1>4
  <2> HIDE DEF q, S
  <2>2. IsHandler(q)
    BY <2>1 DEF IsHandler
  <2> QED BY <2>2 DEF q
<1> QED BY <1>1, <1>2, <1>3, <1>4

\* The first step is for a page's key, and what is left is a queue again.
LEMMA HandlerRest ==
    ASSUME NEW p, IsHandler(p), p # <<>>
    PROVE  Head(p).key \in DOMAIN Control /\ IsHandler(Tail(p))
<1>1. PICK S : p \in Seq(S) /\ \A step \in S : step.key \in DOMAIN Control
  BY DEF IsHandler
<1>2. Head(p) \in S /\ Tail(p) \in Seq(S)
  BY <1>1
<1> QED BY <1>1, <1>2 DEF IsHandler

LEMMA HandlerKeys ==
    ASSUME NEW p, IsHandler(p)
    PROVE  \A i \in DOMAIN p : p[i].key \in DOMAIN Control
<1>1. PICK S : p \in Seq(S) /\ \A step \in S : step.key \in DOMAIN Control
  BY DEF IsHandler
<1>2. \A i \in DOMAIN p : p[i] \in S
  BY <1>1
<1> QED BY <1>1, <1>2

\* Every control's handler is one.
LEMMA HandlerIsHandler ==
    ASSUME NEW k \in DOMAIN Control, NEW v
    PROVE  IsHandler(Handler(k, v))
<1>1. \A op, x : /\ Step(op, k, x).key \in DOMAIN Control
                 /\ Step(op, "night-light", x).key \in DOMAIN Control
                 /\ Step(op, "night-light-temp", x).key \in DOMAIN Control
  BY AppAssumption DEF Step
<1>2. CASE k = "night-light"
  <2>1. Handler(k, v) = <<Step("set", k, v),
            Step("set", "night-light-temp", widget["night-light-temp"]),
            Step("apply", k, v)>>
    BY <1>2 DEF Handler, NightLightSteps, SaveApplyShow, SaveAndApply
  <2> QED BY <1>1, <2>1, ShortHandlers
<1>3. CASE k = "night-light-temp"
  <2>1. \/ Handler(k, v) = <<Step("set", k, v), Step("apply", "night-light", On)>>
        \/ Handler(k, v) = <<Step("set", k, v)>>
    BY <1>3 DEF Handler, NightLightSteps, SaveApplyShow, SaveAndApply
  <2> QED BY <1>1, <2>1, ShortHandlers
<1>4. CASE k \in {"accent", "wallpaper"}
  <2>1. Handler(k, v) = <<Step("set", k, v), Step("apply", k, v), Step("show", k, v)>>
    BY <1>4 DEF Handler, NightLightSteps, SaveApplyShow, SaveAndApply
  <2> QED BY <1>1, <2>1, ShortHandlers
<1>5. CASE k \notin {"night-light", "night-light-temp", "accent", "wallpaper"}
  <2>1. Handler(k, v) = <<Step("set", k, v), Step("apply", k, v)>>
    BY <1>5 DEF Handler, NightLightSteps, SaveApplyShow, SaveAndApply
  <2> QED BY <1>1, <2>1, ShortHandlers
<1> QED BY <1>2, <1>3, <1>4, <1>5

---------------------------------------------------------------------------
(* Types: the tables stay tables.                                          *)

AppInv == AppTypeOK /\ IsHandler(pending)

LEMMA AppInit == Init => AppInv
<1> SUFFICES ASSUME Init PROVE AppInv
  OBVIOUS
<1>1. IsStore(file)
  BY EmptyIsStore, SetKeepsStore, AppAssumption DEF Init, StartFiles
<1>2. DOMAIN widget = {} /\ pending = <<>> /\ IsStore(user)
  BY EmptyIsStore DEF Init, NoTables
<1>3. IsHandler(pending) /\ DOMAIN pending = {}
  BY <1>2, ShortHandlers
<1>4. ~open /\ ~raced /\ open \in BOOLEAN /\ raced \in BOOLEAN /\ seen = file
  BY DEF Init
<1>5. moves \in 0 .. MaxMoves /\ fails \in 0 .. MaxFails
  BY AppAssumption DEF Init
<1>6. user = NoTables
  BY DEF Init
<1> QED
  BY <1>1, <1>2, <1>3, <1>4, <1>5, <1>6 DEF AppInv, AppTypeOK

\* Every step keeps the tables tables and the handlers handlers.
LEMMA AppStep == AppInv /\ [Next]_vars => AppInv'
<1> SUFFICES ASSUME AppInv, [Next]_vars PROVE AppInv'
  OBVIOUS
<1> USE DEF AppInv, AppTypeOK
<1>0. IsHandler(pending') => \A i \in DOMAIN pending' : pending'[i].key \in DOMAIN Control
  BY HandlerKeys
<1>r. \/ Next1.key \in DOMAIN Control /\ IsHandler(Tail(pending)) /\ open
      \/ pending = <<>>
  BY HandlerRest DEF Next1
<1>1. CASE AppOpen
  <2>1. DOMAIN widget' = DOMAIN Control
    BY <1>1 DEF AppOpen
  <2> QED BY <1>0, <1>1, <2>1 DEF AppOpen, auxVars
<1>2. CASE AppEnds
  <2>1. user' = NoTables /\ widget' = NoTables /\ pending' = <<>> /\ open' = FALSE
    BY <1>2 DEF AppEnds
  <2>2. IsStore(user') /\ DOMAIN widget' = {} /\ IsHandler(pending')
    BY <2>1, EmptyIsStore, ShortHandlers DEF NoTables
  <2>3. raced' \in BOOLEAN
    BY <1>2 DEF AppEnds
  <2> QED BY <1>0, <1>2, <2>1, <2>2, <2>3 DEF AppEnds
<1>3. ASSUME NEW k \in DOMAIN Control, NEW v \in Tried[k], Moved(k, v)
      PROVE  AppInv'
  <2>1. IsHandler(pending')
    BY <1>3, HandlerIsHandler DEF Moved
  <2>2. DOMAIN widget' = DOMAIN widget
    BY <1>3 DEF Moved
  <2>3. moves' \in 0 .. MaxMoves
    BY <1>3, AppAssumption DEF Moved, MayMove
  <2> QED BY <1>0, <1>3, <2>1, <2>2, <2>3 DEF Moved, auxVars
<1>4. CASE WallpaperReset
  <2>1. \A op, x : Step(op, "wallpaper", x).key \in DOMAIN Control
    BY AppAssumption DEF Step
  <2>2. IsHandler(pending')
    BY <1>4, <2>1, ShortHandlers DEF WallpaperReset
  <2>3. moves' \in 0 .. MaxMoves
    BY <1>4, AppAssumption DEF WallpaperReset, MayMove
  <2> QED BY <1>0, <1>4, <2>2, <2>3 DEF WallpaperReset, auxVars
<1>5. CASE Saves \/ SaveFails
  <2>0. Saving
    BY <1>5 DEF Saves, SaveFails
  <2>1. pending # <<>> /\ Next1.key \in Keys
    BY <2>0, <1>r, AppAssumption DEF Saving, Does
  <2>2. IsStore(Changed)
    BY <2>0, <2>1, SetKeepsStore, ResetKeepsStore DEF Saving, Does, Changed
  <2>3. CASE Saves
    BY <1>0, <1>r, <2>1, <2>2, <2>3 DEF Saves, auxVars
  <2>4. CASE SaveFails
    <3>1. IsHandler(pending')
      BY <2>4, ShortHandlers DEF SaveFails
    <3>2. fails' \in 0 .. MaxFails
      BY <2>4, AppAssumption DEF SaveFails
    <3>3. raced' \in BOOLEAN
      BY <2>4 DEF SaveFails
    <3> QED BY <1>0, <1>r, <2>1, <2>2, <2>4, <3>1, <3>2, <3>3 DEF SaveFails
  <2> QED BY <1>5, <2>3, <2>4
<1>6. CASE NothingToReset
  BY <1>0, <1>6, <1>r DEF NothingToReset, Does
<1>7. CASE Applies
  BY <1>0, <1>7, <1>r DEF Applies, Does
<1>8. CASE Shows
  <2>1. DOMAIN widget' = DOMAIN widget
    BY <1>8 DEF Shows
  <2> QED BY <1>0, <1>8, <1>r, <2>1 DEF Shows, Does
<1>9. CASE DaemonPass
  BY <1>0, <1>9 DEF DaemonPass, appVars
<1>10. CASE Login
  BY <1>0, <1>10 DEF Login, appVars
<1>11. ASSUME NEW k \in Keys, OthersWrite(k) PROVE AppInv'
  <2>1. IsStore(file')
    BY <1>11, SetKeepsStore, ResetKeepsStore DEF OthersWrite, Has
  <2>2. moves' \in 0 .. MaxMoves
    BY <1>11, AppAssumption DEF OthersWrite, MayMove
  <2>3. raced' \in BOOLEAN
    BY <1>11 DEF OthersWrite
  <2> QED BY <1>0, <1>11, <2>1, <2>2, <2>3 DEF OthersWrite, appVars
<1>12. CASE UNCHANGED vars
  BY <1>12 DEF vars, appVars, auxVars
<1> QED
  BY <1>1, <1>2, <1>3, <1>4, <1>5, <1>6, <1>7, <1>8, <1>9, <1>10, <1>11, <1>12
  DEF Next

\* The app's tables hold only keys of theirs, none is left behind empty, and
\* a handler is only under way while the app runs: whatever fails.
THEOREM AppTypes == Spec => []AppTypeOK
<1>1. AppInv => AppTypeOK
  BY DEF AppInv
<1> QED BY <1>1, AppInit, AppStep, PTL DEF Spec

---------------------------------------------------------------------------
(* The store is one value per key.                                         *)

LEMMA StoreInit == Init => Store!Init
BY EmptyIsStore DEF Init, Store!Init

\* A save, and one that fails: the overrides held change by one key, and the
\* file has either all of them or what it had.
LEMMA SavesChange ==
    ASSUME AppInv, Saves \/ SaveFails
    PROVE  Store!Change
<1>1. Saving
  BY DEF Saves, SaveFails
<1>2. pending # <<>> /\ open /\ open'
  BY <1>1 DEF Saving, Does, Saves, SaveFails, AppInv, AppTypeOK
<1>3. Next1.key \in Keys
  BY <1>2, HandlerRest, AppAssumption DEF AppInv, Next1
<1>4. IsStore(user)
  BY DEF AppInv, AppTypeOK
<1>5. Store!OneKey(Flat(user), Flat(Changed))
  <2>1. CASE Next1.op = "set"
    BY <1>3, <1>4, <2>1, SetIsOneKey DEF Changed
  <2>2. CASE Next1.op # "set"
    BY <1>1, <1>3, <1>4, <2>2, ResetIsOneKey DEF Changed, Saving, Does
  <2> QED BY <2>1, <2>2
<1>6. user' = Changed /\ file' \in {Changed, file}
  BY DEF Saves, SaveFails
<1> QED BY <1>2, <1>5, <1>6 DEF Store!Change

\* Every step of the app and of the others is one of Overrides, or none.
LEMMA StoreStep == AppInv /\ [Next]_vars => [Store!Next]_(Store!vars)
<1> SUFFICES ASSUME AppInv, [Next]_vars PROVE [Store!Next]_(Store!vars)
  OBVIOUS
<1>1. CASE AppOpen
  BY <1>1 DEF AppOpen, Store!Next, Store!Load
<1>2. CASE AppEnds
  BY <1>2, EmptyIsStore DEF AppEnds, Store!Next, Store!Stop
<1>3. CASE Saves \/ SaveFails
  BY <1>3, SavesChange DEF Store!Next
<1>4. ASSUME NEW k \in Keys, OthersWrite(k) PROVE Store!Next
  <2>1. Store!OneKey(Flat(file), Flat(file'))
    <3>1. IsStore(file)
      BY DEF AppInv, AppTypeOK
    <3>2. CASE \E v \in Tried[k] : file' = SetIn(file, k, v)
      BY <3>1, <3>2, SetIsOneKey
    <3>3. CASE Has(file, k) /\ file' = ResetIn(file, k)
      BY <3>1, <3>3, ResetIsOneKey DEF Has
    <3> QED BY <1>4, <3>2, <3>3 DEF OthersWrite
  <2>2. UNCHANGED <<open, user>>
    BY <1>4 DEF OthersWrite, appVars
  <2> QED BY <2>1, <2>2 DEF Store!Next, Store!Others
<1>5. ASSUME UNCHANGED <<open, user, file>> PROVE UNCHANGED Store!vars
  BY <1>5 DEF Store!vars
<1>6. \/ AppOpen \/ AppEnds \/ Saves \/ SaveFails
      \/ \E k \in Keys : OthersWrite(k)
      \/ UNCHANGED <<open, user, file>>
  BY DEF Next, Moved, WallpaperReset, NothingToReset, Applies, Shows,
         DaemonPass, Login, vars, appVars
<1> QED BY <1>1, <1>2, <1>3, <1>4, <1>5, <1>6

\* Settings' nested tables implement Overrides: no sequence of moves, resets,
\* failed saves, restarts and others' writes changes two keys at once, loses
\* one, or saves anything but what the app holds.
THEOREM AppImplementsStore == Spec => StoreSpec
BY StoreInit, StoreStep, AppInit, AppStep, PTL DEF Spec, StoreSpec, Store!Spec

---------------------------------------------------------------------------
(* The controls tell what the store has.                                   *)

\* The store's value after a set and after a reset.
LEMMA GetAfterSet ==
    ASSUME NEW u, IsStore(u), NEW k \in Keys, NEW v, NEW j \in Keys
    PROVE  Get(SetIn(u, k, v), j) = IF j = k THEN v ELSE Get(u, j)
<1>1. CASE j = k
  BY <1>1 DEF Get, SetIn, Has
<1>2. CASE j # k
  BY <1>2, SetKeepsStore DEF Get
<1> QED BY <1>1, <1>2

LEMMA GetAfterReset ==
    ASSUME NEW u, IsStore(u), NEW k \in Keys, SectionOf[k] \in DOMAIN u,
           NEW j \in Keys
    PROVE  Get(ResetIn(u, k), j) = IF j = k THEN Default[k] ELSE Get(u, j)
BY ResetKeepsStore DEF Get

\* A control shows what it showed, and what it reports.
LEMMA DisplayTwice ==
    ASSUME NEW k \in DOMAIN Control, NEW v
    PROVE  /\ Display(Control[k], Display(Control[k], v)) = Display(Control[k], v)
           /\ \A w : CanReport(Control[k], w, v) => Display(Control[k], v) = v
<1>1. CASE Control[k].kind = "combo"
  BY <1>1 DEF Display, CanReport
<1>2. CASE Control[k].kind = "spin"
  BY <1>2, ControlAssumption DEF Display, CanReport
<1>3. CASE Control[k].kind = "swatches"
  BY <1>3 DEF Display, CanReport
<1>4. CASE Control[k].kind \notin {"combo", "spin", "swatches"}
  BY <1>4 DEF Display
<1> QED BY <1>1, <1>2, <1>3, <1>4

Slow == {"accent", "wallpaper"}
Settled(k) == widget[k] = Display(Control[k], Get(user, k))

\* All controls are settled, those in K apart.
SettledBut(K) == \A j \in DOMAIN Control \ (stale \cup K) : Settled(j)

\* What a handler under way has still to do, and what is settled meanwhile.
Idle    == /\ pending = <<>> \/ \E k, v : pending = <<Step("apply", k, v)>>
           /\ SettledBut({})
Storing == \E k \in DOMAIN Control \ Slow :
              /\ \/ pending = <<Step("set", k, widget[k])>>
                 \/ \E j, v : pending = <<Step("set", k, widget[k]), Step("apply", j, v)>>
              /\ SettledBut({k})
Warming == LET n == "night-light"
               t == "night-light-temp"
           IN  /\ \E v : pending = <<Step("set", n, widget[n]),
                                     Step("set", t, widget[t]), Step("apply", n, v)>>
               /\ SettledBut({n})
Picked  == \E k \in Slow, op \in {"set", "reset"} : \E v :
              /\ pending = <<Step(op, k, v), Step("apply", k, v), Step("show", k, v)>>
              /\ op = "reset" => k = "wallpaper" /\ v = Default[k]
              /\ Display(Control[k], v) = v
              /\ SettledBut({})
Drawing == \E k \in Slow : \E v :
              /\ \/ pending = <<Step("apply", k, v), Step("show", k, v)>>
                 \/ pending = <<Step("show", k, v)>>
              /\ Get(user, k) = v /\ Display(Control[k], v) = v
              /\ SettledBut({k})

TellInv ==
    open => /\ Idle \/ Storing \/ Warming \/ Picked \/ Drawing
            /\ \A k \in DOMAIN Control : Display(Control[k], widget[k]) = widget[k]

LEMMA SlowIsControl == Slow \subseteq DOMAIN Control
BY AppAssumption DEF Slow

LEMMA TellInit == Init => TellInv
BY DEF Init, TellInv

\* Moving a control of a handler that is done starts one of the handlers.
LEMMA TellMoved ==
    ASSUME AppInv, TellInv, NEW k \in DOMAIN Control, NEW v, Moved(k, v)
    PROVE  TellInv'
<1>1. open /\ pending = <<>> /\ UNCHANGED <<open, user, stale>>
  BY DEF Moved, auxVars
<1>2. SettledBut({}) /\ \A j \in DOMAIN Control : Display(Control[j], widget[j]) = widget[j]
  BY <1>1 DEF TellInv, Idle, Storing, Warming, Picked, Drawing
<1>3. Display(Control[k], v) = v
  BY DisplayTwice DEF Moved
<1>4. DOMAIN widget = DOMAIN Control
  BY <1>1 DEF AppInv, AppTypeOK
<1>5. CASE k \in Slow
  <2>1. pending' = <<Step("set", k, v), Step("apply", k, v), Step("show", k, v)>>
    BY <1>5 DEF Moved, Handler, NightLightSteps, SaveApplyShow, SaveAndApply, Slow
  <2>2. widget' = widget
    BY <1>5 DEF Moved, Slow
  <2>3. SettledBut({})'
    BY <1>1, <1>2, <2>2 DEF SettledBut, Settled
  <2>4. Picked'
    BY <1>3, <1>5, <2>1, <2>3 DEF Picked
  <2> QED BY <1>2, <2>2, <2>4 DEF TellInv
<1>6. CASE k \notin Slow
  <2>1. widget' = [widget EXCEPT ![k] = v]
    BY <1>6 DEF Moved, Slow
  <2>2. /\ widget'[k] = v
        /\ \A j \in DOMAIN Control \ {k} : widget'[j] = widget[j]
    BY <1>4, <2>1
  <2>3. SettledBut({k})'
    BY <1>1, <1>2, <2>2 DEF SettledBut, Settled
  <2>4. Storing' \/ Warming'
    <3>1. CASE k = "night-light"
      <4>1. pending' = <<Step("set", k, v),
                Step("set", "night-light-temp", widget["night-light-temp"]),
                Step("apply", k, v)>>
        BY <3>1 DEF Moved, Handler, NightLightSteps, SaveApplyShow, SaveAndApply
      <4>2. widget'["night-light-temp"] = widget["night-light-temp"]
        BY <2>2, <3>1, AppAssumption
      <4>3. Warming'
        BY <2>2, <2>3, <3>1, <4>1, <4>2 DEF Warming
      <4> QED BY <4>3
    <3>2. CASE k # "night-light"
      <4>1. \/ pending' = <<Step("set", k, v)>>
            \/ \E j, x : pending' = <<Step("set", k, v), Step("apply", j, x)>>
        <5>1. \/ Handler(k, v) = <<Step("set", k, v), Step("apply", "night-light", On)>>
              \/ Handler(k, v) = <<Step("set", k, v)>>
              \/ Handler(k, v) = <<Step("set", k, v), Step("apply", k, v)>>
          <6>1. CASE k = "night-light-temp"
            BY <6>1 DEF Handler, NightLightSteps, SaveApplyShow, SaveAndApply
          <6>2. CASE k # "night-light-temp"
            BY <1>6, <3>2, <6>2 DEF Handler, NightLightSteps, SaveApplyShow, SaveAndApply, Slow
          <6> QED BY <6>1, <6>2
        <5> QED BY <5>1 DEF Moved
      <4> QED BY <1>6, <2>2, <2>3, <4>1 DEF Storing
    <3> QED BY <3>1, <3>2
  <2>5. \A j \in DOMAIN Control : Display(Control[j], widget'[j]) = widget'[j]
    BY <1>2, <1>3, <2>2
  <2> QED BY <2>4, <2>5 DEF TellInv
<1> QED BY <1>5, <1>6

LEMMA TellReset ==
    ASSUME AppInv, TellInv, WallpaperReset
    PROVE  TellInv'
<1> DEFINE k == "wallpaper"
           v == Default[k]
<1>1. /\ open /\ pending = <<>> /\ UNCHANGED <<open, user, widget, stale>>
      /\ pending' = <<Step("reset", k, v), Step("apply", k, v), Step("show", k, v)>>
  BY DEF WallpaperReset, auxVars
<1>2. SettledBut({}) /\ \A j \in DOMAIN Control : Display(Control[j], widget[j]) = widget[j]
  BY <1>1 DEF TellInv, Idle, Storing, Warming, Picked, Drawing
<1>3. SettledBut({})'
  BY <1>1, <1>2 DEF SettledBut, Settled
<1>4. Display(Control[k], v) = v
  BY ControlAssumption DEF Display
<1>5. Picked'
  BY <1>1, <1>3, <1>4 DEF Picked, Slow
<1> QED BY <1>1, <1>2, <1>5 DEF TellInv

\* What a set or a reset leaves settled, saved or not.
LEMMA ChangedSettles ==
    ASSUME AppInv, Saving, user' = Changed, widget' = widget,
           stale \subseteq stale',
           NEW k \in DOMAIN Control, k = Next1.key,
           SettledBut({k})
    PROVE  /\ SettledBut({k})'
           /\ Next1.op = "set" => Get(user', k) = Next1.val
           /\ Next1.op = "reset" => Get(user', k) = Default[k]
<1>1. IsStore(user) /\ k \in Keys /\ DOMAIN Control \subseteq Keys
  BY AppAssumption DEF AppInv, AppTypeOK
<1>2. \A j \in Keys :
         Get(Changed, j) = IF j = k
                           THEN IF Next1.op = "set" THEN Next1.val ELSE Default[k]
                           ELSE Get(user, j)
  <2>1. CASE Next1.op = "set"
    BY <1>1, <2>1, GetAfterSet DEF Changed
  <2>2. CASE Next1.op # "set"
    BY <1>1, <2>2, GetAfterReset DEF Changed, Saving, Does
  <2> QED BY <2>1, <2>2
<1>3. \A j \in DOMAIN Control \ {k} : Get(user', j) = Get(user, j)
  BY <1>1, <1>2
<1>4. \A j \in DOMAIN Control \ (stale' \cup {k}) :
         widget'[j] = Display(Control[j], Get(user', j))
  BY <1>3 DEF SettledBut, Settled
<1>5. SettledBut({k})'
  BY <1>4 DEF SettledBut, Settled
<1> QED BY <1>1, <1>2, <1>5

\* The steps of a queue that matter below.
LEMMA Queues ==
    ASSUME NEW a, NEW b, NEW c
    PROVE  /\ <<a>> # <<>> /\ Head(<<a>>) = a /\ Tail(<<a>>) = <<>>
           /\ <<a, b>> # <<>> /\ Head(<<a, b>>) = a /\ Tail(<<a, b>>) = <<b>>
           /\ <<a, b, c>> # <<>> /\ Head(<<a, b, c>>) = a
           /\ Tail(<<a, b, c>>) = <<b, c>>
OBVIOUS

\* A change, saved or not, leaves a handler's rest or a settled app.
LEMMA TellSaves ==
    ASSUME AppInv, TellInv, Saves \/ SaveFails
    PROVE  TellInv'
<1>1. /\ Saving /\ open /\ open' = open /\ pending # <<>>
      /\ user' = Changed /\ widget' = widget
      /\ stale \subseteq stale'
      /\ \/ Saves /\ pending' = Tail(pending) /\ stale' = stale
         \/ SaveFails /\ pending' = <<>> /\ stale' = stale \cup ({Next1.key} \cap Slow)
  BY DEF Saves, SaveFails, Saving, Does, AppInv, AppTypeOK, auxVars, Slow
<1>2. \A j \in DOMAIN Control : Display(Control[j], widget'[j]) = widget'[j]
  BY <1>1 DEF TellInv
<1>3. Next1.op \in {"set", "reset"} /\ Next1 = Head(pending)
  BY <1>1 DEF Saving, Does, Next1
<1>4. CASE Idle
  <2>1. PICK k, v : pending = <<Step("apply", k, v)>>
    BY <1>1, <1>4 DEF Idle
  <2> QED BY <1>3, <2>1, Queues DEF Step
<1>5. CASE Storing
  <2>1. PICK k \in DOMAIN Control \ Slow :
          /\ \/ pending = <<Step("set", k, widget[k])>>
             \/ \E j, v : pending = <<Step("set", k, widget[k]), Step("apply", j, v)>>
          /\ SettledBut({k})
    BY <1>5 DEF Storing
  <2>2. /\ Next1 = Step("set", k, widget[k])
        /\ Tail(pending) = <<>> \/ \E j, v : Tail(pending) = <<Step("apply", j, v)>>
    <3>1. CASE pending = <<Step("set", k, widget[k])>>
      BY <1>3, <3>1, Queues
    <3>2. ASSUME NEW j, NEW v,
                 pending = <<Step("set", k, widget[k]), Step("apply", j, v)>>
          PROVE  /\ Next1 = Step("set", k, widget[k])
                 /\ Tail(pending) = <<Step("apply", j, v)>>
      BY <1>3, <3>2, Queues
    <3> QED BY <2>1, <3>1, <3>2
  <2>3. k = Next1.key /\ Next1.op = "set" /\ Next1.val = widget[k]
    BY <2>2 DEF Step
  <2>4. SettledBut({k})' /\ Get(user', k) = widget'[k]
    BY <1>1, <2>1, <2>3, ChangedSettles
  <2>5. SettledBut({})'
    BY <1>2, <2>4 DEF SettledBut, Settled
  <2>6. pending' = <<>> \/ \E j, v : pending' = <<Step("apply", j, v)>>
    BY <1>1, <2>2
  <2> QED BY <1>2, <2>5, <2>6 DEF TellInv, Idle
<1>6. CASE Warming
  <2> DEFINE n == "night-light"
             t == "night-light-temp"
  <2>1. PICK v : pending = <<Step("set", n, widget[n]), Step("set", t, widget[t]),
                             Step("apply", n, v)>>
    BY <1>6 DEF Warming
  <2>2. /\ Next1 = Step("set", n, widget[n])
        /\ Tail(pending) = <<Step("set", t, widget[t]), Step("apply", n, v)>>
    BY <1>3, <2>1, Queues
  <2>3. n = Next1.key /\ Next1.op = "set" /\ Next1.val = widget[n]
    BY <2>2 DEF Step
  <2>4. SettledBut({n})' /\ Get(user', n) = widget'[n]
    BY <1>1, <1>6, <2>3, ChangedSettles, AppAssumption DEF Warming
  <2>5. SettledBut({})' /\ SettledBut({t})'
    BY <1>2, <2>4 DEF SettledBut, Settled
  <2>6. t \in DOMAIN Control \ Slow
    BY AppAssumption DEF Slow
  <2>7. Idle' \/ Storing'
    BY <1>1, <2>2, <2>5, <2>6 DEF Idle, Storing
  <2> QED BY <1>2, <2>7 DEF TellInv
<1>7. CASE Picked
  <2>1. PICK k \in Slow, op \in {"set", "reset"} : \E v :
          /\ pending = <<Step(op, k, v), Step("apply", k, v), Step("show", k, v)>>
          /\ op = "reset" => k = "wallpaper" /\ v = Default[k]
          /\ Display(Control[k], v) = v
          /\ SettledBut({})
    BY <1>7 DEF Picked
  <2>2. PICK v :
          /\ pending = <<Step(op, k, v), Step("apply", k, v), Step("show", k, v)>>
          /\ op = "reset" => k = "wallpaper" /\ v = Default[k]
          /\ Display(Control[k], v) = v
          /\ SettledBut({})
    BY <2>1
  <2>3. /\ Next1 = Step(op, k, v)
        /\ Tail(pending) = <<Step("apply", k, v), Step("show", k, v)>>
    BY <1>3, <2>2, Queues
  <2>4. k = Next1.key /\ Next1.op = op /\ Next1.val = v
    BY <2>3 DEF Step
  <2>5. SettledBut({k})
    BY <2>2 DEF SettledBut
  <2>6. SettledBut({k})' /\ Get(user', k) = v
    BY <1>1, <2>2, <2>4, <2>5, ChangedSettles, SlowIsControl
  <2>7. CASE Saves /\ pending' = Tail(pending)
    <3>1. Drawing'
      BY <2>2, <2>3, <2>6, <2>7 DEF Drawing
    <3> QED BY <1>2, <3>1 DEF TellInv
  <2>8. CASE pending' = <<>> /\ stale' = stale \cup ({Next1.key} \cap Slow)
    <3>1. SettledBut({})'
      BY <2>4, <2>6, <2>8 DEF SettledBut
    <3> QED BY <1>2, <2>8, <3>1 DEF TellInv, Idle
  <2> QED BY <1>1, <2>7, <2>8
<1>8. CASE Drawing
  <2>1. PICK k \in Slow : \E v : \/ pending = <<Step("apply", k, v), Step("show", k, v)>>
                                 \/ pending = <<Step("show", k, v)>>
    BY <1>8 DEF Drawing
  <2> QED BY <1>3, <2>1, Queues DEF Step
<1> QED BY <1>1, <1>4, <1>5, <1>6, <1>7, <1>8 DEF TellInv

\* The steps after the saves, and a reset that saves nothing.
LEMMA TellOthers ==
    ASSUME AppInv, TellInv, NothingToReset \/ Applies \/ Shows
    PROVE  TellInv'
<1>1. /\ pending # <<>> /\ open /\ open' = open /\ Next1 = Head(pending)
      /\ pending' = Tail(pending) /\ UNCHANGED user
      /\ Next1.op \in {"reset", "apply", "show"}
  BY DEF NothingToReset, Applies, Shows, Does, AppInv, AppTypeOK, Next1
<1>2. /\ NothingToReset \/ Applies => UNCHANGED <<widget, stale>>
      /\ Next1.op = "reset" => NothingToReset
      /\ Next1.op = "apply" => Applies
      /\ Next1.op = "show" => Shows
  BY DEF NothingToReset, Applies, Shows, Does
<1>3. \A j \in DOMAIN Control : Display(Control[j], widget[j]) = widget[j]
  BY <1>1 DEF TellInv
<1>4. CASE Idle
  <2>1. PICK k, v : pending = <<Step("apply", k, v)>>
    BY <1>1, <1>4 DEF Idle
  <2>2. Next1.op = "apply" /\ pending' = <<>>
    BY <1>1, <2>1, Queues DEF Step
  <2>3. SettledBut({})'
    BY <1>1, <1>2, <1>4, <2>2 DEF Idle, SettledBut, Settled
  <2> QED BY <1>1, <1>2, <1>3, <2>2, <2>3 DEF TellInv, Idle
<1>5. CASE Storing
  <2>1. PICK k \in DOMAIN Control \ Slow :
          \/ pending = <<Step("set", k, widget[k])>>
          \/ \E j, v : pending = <<Step("set", k, widget[k]), Step("apply", j, v)>>
    BY <1>5 DEF Storing
  <2>2. Next1 = Step("set", k, widget[k])
    <3>1. CASE pending = <<Step("set", k, widget[k])>>
      BY <1>1, <3>1, Queues
    <3>2. ASSUME NEW j, NEW v,
                 pending = <<Step("set", k, widget[k]), Step("apply", j, v)>>
          PROVE  Next1 = Step("set", k, widget[k])
      BY <1>1, <3>2, Queues
    <3> QED BY <2>1, <3>1, <3>2
  <2> QED BY <1>1, <2>2 DEF Step
<1>6. CASE Warming
  <2> DEFINE n == "night-light"
             t == "night-light-temp"
  <2>1. PICK v : pending = <<Step("set", n, widget[n]), Step("set", t, widget[t]),
                             Step("apply", n, v)>>
    BY <1>6 DEF Warming
  <2> QED BY <1>1, <2>1, Queues DEF Step
<1>7. CASE Picked
  <2>1. PICK k \in Slow, op \in {"set", "reset"} : \E v :
          /\ pending = <<Step(op, k, v), Step("apply", k, v), Step("show", k, v)>>
          /\ op = "reset" => k = "wallpaper" /\ v = Default[k]
          /\ Display(Control[k], v) = v
          /\ SettledBut({})
    BY <1>7 DEF Picked
  <2>2. PICK v :
          /\ pending = <<Step(op, k, v), Step("apply", k, v), Step("show", k, v)>>
          /\ op = "reset" => k = "wallpaper" /\ v = Default[k]
          /\ Display(Control[k], v) = v
          /\ SettledBut({})
    BY <2>1
  <2>3. /\ Next1 = Step(op, k, v)
        /\ pending' = <<Step("apply", k, v), Step("show", k, v)>>
    BY <1>1, <2>2, Queues
  <2>4. Next1.op = op /\ Next1.key = k
    BY <2>3 DEF Step
  <2>5. op = "reset" /\ NothingToReset /\ k = "wallpaper" /\ v = Default[k]
    BY <1>1, <1>2, <2>2, <2>4
  <2>6. Get(user', k) = v
    BY <1>1, <2>4, <2>5 DEF NothingToReset, Saving, Does, Get, Has
  <2>7. SettledBut({k})'
    BY <1>1, <1>2, <2>2, <2>5 DEF SettledBut, Settled
  <2>8. Drawing'
    BY <2>2, <2>3, <2>6, <2>7 DEF Drawing
  <2> QED BY <1>2, <1>3, <2>5, <2>8 DEF TellInv
<1>8. CASE Drawing
  <2>1. PICK k \in Slow : \E v :
          /\ \/ pending = <<Step("apply", k, v), Step("show", k, v)>>
             \/ pending = <<Step("show", k, v)>>
          /\ Get(user, k) = v /\ Display(Control[k], v) = v
          /\ SettledBut({k})
    BY <1>8 DEF Drawing
  <2>2. PICK v :
          /\ \/ pending = <<Step("apply", k, v), Step("show", k, v)>>
             \/ pending = <<Step("show", k, v)>>
          /\ Get(user, k) = v /\ Display(Control[k], v) = v
          /\ SettledBut({k})
    BY <2>1
  <2>3. CASE pending = <<Step("apply", k, v), Step("show", k, v)>>
    <3>1. Next1.op = "apply" /\ pending' = <<Step("show", k, v)>>
      BY <1>1, <2>3, Queues DEF Step
    <3>2. SettledBut({k})'
      BY <1>1, <1>2, <2>2, <3>1 DEF SettledBut, Settled
    <3>3. Drawing'
      BY <1>1, <2>2, <3>1, <3>2 DEF Drawing
    <3> QED BY <1>2, <1>3, <3>1, <3>3 DEF TellInv
  <2>4. CASE pending = <<Step("show", k, v)>>
    <3>1. /\ Next1.op = "show" /\ Next1.key = k /\ Next1.val = v
          /\ pending' = <<>>
      BY <1>1, <2>4, Queues DEF Step
    <3>2. /\ widget' = [widget EXCEPT ![k] = v]
          /\ stale' = stale \ {k}
      BY <1>2, <3>1 DEF Shows
    <3>3. k \in DOMAIN widget
      BY <1>1, SlowIsControl DEF AppInv, AppTypeOK
    <3>4. /\ widget'[k] = v
          /\ \A j \in DOMAIN Control \ {k} : widget'[j] = widget[j]
      BY <3>2, <3>3
    <3>5. SettledBut({})'
      BY <1>1, <2>2, <3>2, <3>4 DEF SettledBut, Settled
    <3>6. \A j \in DOMAIN Control : Display(Control[j], widget'[j]) = widget'[j]
      BY <1>3, <2>2, <3>4
    <3> QED BY <3>1, <3>5, <3>6 DEF TellInv, Idle
  <2> QED BY <2>2, <2>3, <2>4
<1> QED BY <1>1, <1>4, <1>5, <1>6, <1>7, <1>8 DEF TellInv

LEMMA TellStep == AppInv /\ TellInv /\ [Next]_vars => TellInv'
<1> SUFFICES ASSUME AppInv, TellInv, [Next]_vars PROVE TellInv'
  OBVIOUS
<1>1. CASE AppOpen
  <2>1. /\ pending' = <<>> /\ user' = file
        /\ \A k \in DOMAIN Control : widget'[k] = Display(Control[k], Get(file, k))
    BY <1>1 DEF AppOpen, AppInv, AppTypeOK
  <2>2. SettledBut({})'
    BY <2>1 DEF SettledBut, Settled
  <2>3. \A k \in DOMAIN Control : Display(Control[k], widget'[k]) = widget'[k]
    BY <2>1, DisplayTwice
  <2> QED BY <2>1, <2>2, <2>3 DEF TellInv, Idle
<1>2. CASE AppEnds
  BY <1>2 DEF AppEnds, TellInv
<1>3. CASE UNCHANGED <<appVars, stale>>
  BY <1>3 DEF appVars, TellInv, Idle, Storing, Warming, Picked, Drawing,
              SettledBut, Settled
<1>4. \/ AppOpen \/ AppEnds
      \/ \E k \in DOMAIN Control : \E v \in Tried[k] : Moved(k, v)
      \/ WallpaperReset \/ Saves \/ SaveFails
      \/ NothingToReset \/ Applies \/ Shows
      \/ UNCHANGED <<appVars, stale>>
  BY DEF Next, DaemonPass, Login, OthersWrite, vars, auxVars
<1> QED
  BY <1>1, <1>2, <1>3, <1>4, TellMoved, TellReset, TellSaves, TellOthers

\* Between handlers no control shows anything but what the store has for its
\* key, however many handlers were cut short by saves that failed; a swatch
\* ring or a wallpaper row is behind until it is drawn again.
THEOREM ControlsAreRight == Spec => []ControlsTell
<1>1. AppInv /\ TellInv => ControlsTell
  BY DEF TellInv, ControlsTell, Idle, Storing, Warming, Picked, Drawing,
         SettledBut, Settled
<1> QED BY <1>1, AppInit, AppStep, TellInit, TellStep, PTL DEF Spec

---------------------------------------------------------------------------
(* A call of the applier, slot by slot.                                    *)

\* The keys a slot is set by.
DriversOf(s) == {k \in Keys : s \in SlotsOf(k)}
Slots == UNION {SlotsOf(k) : k \in Keys}
Shared == {"gtk", "monitor", "proxy", "temp"}

\* The sections' keys are apart, so each key has one entry.
LEMMA EffectBySection ==
    ASSUME NEW k, NEW v, NEW over
    PROVE  /\ k \in AppearanceKeys    => Effect(k, v, over) = AppearanceEffect(k, v)
           /\ k \in AccessibilityKeys => Effect(k, v, over) = AccessibilityEffect(k, v, over)
           /\ k \in DisplayKeys       => Effect(k, v, over) = DisplayEffect(k, v, over)
           /\ k \in InputKeys         => Effect(k, v, over) = InputEffect(k, v)
           /\ k \in ProxyKeys         => Effect(k, v, over) = ProxyEffect(k, v, over)
           /\ k \notin AppearanceKeys \cup AccessibilityKeys \cup DisplayKeys
                        \cup InputKeys \cup ProxyKeys => Effect(k, v, over) = NoEffect
BY DEF Effect, AppearanceKeys, AccessibilityKeys, DisplayKeys, InputKeys, ProxyKeys

\* And each key its slots.
LEMMA SlotsByKey ==
    ASSUME NEW k
    PROVE  /\ k = "theme" => SlotsOf(k) = {"scheme", "gtk", "ini"}
           /\ k = "high-contrast" => SlotsOf(k) = {"gtk"}
           /\ k \in MonitorKeys => SlotsOf(k) = {"monitor"}
           /\ k \in ProxyKeys => SlotsOf(k) = {"proxy"}
           /\ k = "night-light" => SlotsOf(k) = {"temp"}
           /\ k \in StoredKeys \cup {"magnifier"} => SlotsOf(k) = {}
           /\ k \notin {"theme", "high-contrast", "night-light", "magnifier"}
                     \cup MonitorKeys \cup ProxyKeys \cup StoredKeys => SlotsOf(k) = {k}
BY DEF SlotsOf, MonitorKeys, ProxyKeys, StoredKeys

\* A call sets none but the key's slots.
LEMMA EffectSlots ==
    ASSUME NEW k, NEW v, NEW over
    PROVE  DOMAIN Effect(k, v, over) \subseteq SlotsOf(k)
<1>1. CASE k \in AppearanceKeys
  <2>1. Effect(k, v, over) = AppearanceEffect(k, v)
    BY <1>1, EffectBySection
  <2>2. CASE k = "theme"
    BY <2>1, <2>2, SlotsByKey DEF AppearanceEffect
  <2>3. CASE k # "theme"
    <3>1. DOMAIN AppearanceEffect(k, v) \subseteq {k}
      BY <2>3 DEF AppearanceEffect, NoEffect, Own
    <3>2. SlotsOf(k) = {k}
      BY <1>1, <2>3, SlotsByKey DEF AppearanceKeys, MonitorKeys, ProxyKeys, StoredKeys
    <3> QED BY <2>1, <3>1, <3>2
  <2> QED BY <2>2, <2>3
<1>2. CASE k \in AccessibilityKeys
  <2>1. Effect(k, v, over) = AccessibilityEffect(k, v, over)
    BY <1>2, EffectBySection
  <2>2. CASE k = "high-contrast"
    BY <2>1, <2>2, SlotsByKey DEF AccessibilityEffect
  <2>3. CASE k = "ui-scale"
    BY <2>1, <2>3, SlotsByKey DEF AccessibilityEffect, Scaled, MonitorKeys
  <2>4. CASE k \notin {"high-contrast", "ui-scale"}
    <3>1. DOMAIN AccessibilityEffect(k, v, over) = {k}
      BY <2>4 DEF AccessibilityEffect, Own
    <3>2. SlotsOf(k) = {k}
      BY <1>2, <2>4, SlotsByKey DEF AccessibilityKeys, MonitorKeys, ProxyKeys, StoredKeys
    <3> QED BY <2>1, <3>1, <3>2
  <2> QED BY <2>2, <2>3, <2>4
<1>3. CASE k \in DisplayKeys
  <2>1. Effect(k, v, over) = DisplayEffect(k, v, over)
    BY <1>3, EffectBySection
  <2>2. CASE k = "night-light"
    BY <2>1, <2>2, SlotsByKey DEF DisplayEffect
  <2>3. CASE k = "vrr"
    <3>1. DisplayEffect(k, v, over) = Own(k, v)
      BY <2>3 DEF DisplayEffect
    <3>2. SlotsOf(k) = {k}
      BY <2>3, SlotsByKey DEF MonitorKeys, ProxyKeys, StoredKeys
    <3> QED BY <2>1, <3>1, <3>2 DEF Own
  <2>4. CASE k \in MonitorKeys
    <3>1. DisplayEffect(k, v, over) \in {Scaled(v), Refreshed(v), NoEffect}
      BY <1>3, <2>4 DEF DisplayEffect, MonitorKeys, DisplayKeys
    <3>2. SlotsOf(k) = {"monitor"}
      BY <2>4, SlotsByKey
    <3> QED BY <2>1, <3>1, <3>2 DEF Scaled, Refreshed, NoEffect
  <2> QED BY <1>3, <2>2, <2>3, <2>4 DEF DisplayKeys, MonitorKeys
<1>4. CASE k \in InputKeys
  <2>1. Effect(k, v, over) = Own(k, v)
    BY <1>4, EffectBySection DEF InputEffect
  <2>2. SlotsOf(k) = {k}
    BY <1>4, SlotsByKey DEF InputKeys, MonitorKeys, ProxyKeys, StoredKeys
  <2> QED BY <2>1, <2>2 DEF Own
<1>5. CASE k \in ProxyKeys
  <2>1. Effect(k, v, over) = ProxyEffect(k, v, over) /\ SlotsOf(k) = {"proxy"}
    BY <1>5, EffectBySection, SlotsByKey
  <2> QED BY <2>1 DEF ProxyEffect
<1>6. CASE k \notin AppearanceKeys \cup AccessibilityKeys \cup DisplayKeys
                      \cup InputKeys \cup ProxyKeys
  BY <1>6, EffectBySection DEF NoEffect
<1> QED BY <1>1, <1>2, <1>3, <1>4, <1>5, <1>6

\* Which keys stand behind which slot.
LEMMA SlotDrivers ==
    /\ DriversOf("gtk") = GtkKeys
    /\ DriversOf("proxy") = ProxyKeys
    /\ DriversOf("temp") = {"night-light"}
    /\ DriversOf("monitor") = Keys \cap MonitorKeys
    /\ \A s \in Slots \ Shared : \E k \in Keys : DriversOf(s) = {k}
<1>1. {"theme", "high-contrast", "proxy", "proxy-enabled", "night-light"} \subseteq Keys
  BY AppAssumption, FallbackAssumption
<1>2. \A k \in Keys : k \notin {"scheme", "gtk", "ini", "monitor", "temp"}
  BY SlotAssumption
<1>3. \A k \in Keys :
         /\ "gtk" \in SlotsOf(k) <=> k \in GtkKeys
         /\ "proxy" \in SlotsOf(k) <=> k \in ProxyKeys
         /\ "temp" \in SlotsOf(k) <=> k = "night-light"
         /\ "monitor" \in SlotsOf(k) <=> k \in MonitorKeys
  BY <1>2 DEF SlotsOf, GtkKeys, ProxyKeys, MonitorKeys, StoredKeys
<1>4. GtkKeys \subseteq Keys /\ ProxyKeys \subseteq Keys
  BY <1>1 DEF GtkKeys, ProxyKeys
<1>5. ASSUME NEW s \in Slots \ Shared
      PROVE  \E k \in Keys : DriversOf(s) = {k}
  <2>1. \A k \in Keys : s \in SlotsOf(k) =>
           \/ k = "theme" /\ s \in {"scheme", "ini"}
           \/ k # "theme" /\ s = k
    BY SlotsByKey DEF Shared
  <2>2. PICK k \in Keys : s \in SlotsOf(k)
    BY DEF Slots
  <2>3. DriversOf(s) = {k}
    BY <1>2, <2>1, <2>2 DEF DriversOf
  <2> QED BY <2>3
<1> QED BY <1>1, <1>3, <1>4, <1>5 DEF DriversOf

\* Only the keys that share what they set look at the rest of the file.
LEMMA EffectAlone ==
    ASSUME NEW k, k \notin ProxyKeys \cup {"high-contrast", "night-light"},
           NEW v, NEW over, NEW other
    PROVE  Effect(k, v, over) = Effect(k, v, other)
<1>1. CASE k \in AccessibilityKeys
  BY <1>1, EffectBySection DEF AccessibilityEffect
<1>2. CASE k \in DisplayKeys
  BY <1>2, EffectBySection DEF DisplayEffect
<1> QED BY <1>1, <1>2, EffectBySection

\* What is read of the overrides and of the whole, where the caller falls
\* back to what is shipped.
LEMMA ReadsAgree ==
    ASSUME NEW u, IsStore(u), NEW k \in Keys, NEW over \in {Flat(u), Merged(u)}
    PROVE  ReadSetting(over, k, Default[k]) =
              IF Get(u, k) = NotSet THEN Default[k] ELSE Get(u, k)
<1>1. CASE over = Merged(u)
  BY <1>1 DEF ReadSetting, Merged
<1>2. CASE over = Flat(u)
  <2>1. k \in DOMAIN over <=> Has(u, k)
    BY <1>2, FlatDomain
  <2>2. Has(u, k) => over[k] = u[SectionOf[k]][k]
    BY <1>2, <2>1, FlatDomain
  <2> QED BY <2>1, <2>2 DEF ReadSetting, Get
<1> QED BY <1>1, <1>2

\* What the keys set where they look at others, in terms of the store.
TempOf(v, u) == IF v # On THEN NotSet
                ELSE IF Get(u, "night-light-temp") = NotSet THEN 4000
                ELSE Get(u, "night-light-temp")
GtkOf(u) == IF Get(u, "high-contrast") = On THEN "HighContrast"
            ELSE GtkTheme(Get(u, "theme"))
ProxyOf(u) == Proxy(Get(u, "proxy-enabled"), Get(u, "proxy"))

LEMMA TempEffect ==
    ASSUME NEW u, IsStore(u), NEW over \in {Flat(u), Merged(u)}, NEW v
    PROVE  Effect("night-light", v, over) = [temp |-> TempOf(v, u)]
<1>1. ReadSetting(over, "night-light-temp", 4000) =
         IF Get(u, "night-light-temp") = NotSet THEN 4000
         ELSE Get(u, "night-light-temp")
  BY ReadsAgree, AppAssumption, TempAssumption
<1>2. Effect("night-light", v, over) = DisplayEffect("night-light", v, over)
  BY EffectBySection DEF DisplayKeys
<1>3. DisplayEffect("night-light", v, over) = [temp |-> TempOf(v, u)]
  BY <1>1 DEF DisplayEffect, TempOf
<1> QED BY <1>2, <1>3

LEMMA GtkEffect ==
    ASSUME NEW u, IsStore(u), NEW over \in {Flat(u), Merged(u)}, NEW v
    PROVE  /\ "gtk" \in DOMAIN Effect("theme", v, over)
           /\ Effect("theme", v, over)["gtk"] = GtkTheme(v)
           /\ v = Get(u, "high-contrast") =>
                 Effect("high-contrast", v, over) = [gtk |-> GtkOf(u)]
<1>1. Effect("theme", v, over) = AppearanceEffect("theme", v)
  BY EffectBySection DEF AppearanceKeys
<1>2. /\ "gtk" \in DOMAIN AppearanceEffect("theme", v)
      /\ AppearanceEffect("theme", v)["gtk"] = GtkTheme(v)
  BY DEF AppearanceEffect
<1>3. ASSUME v = Get(u, "high-contrast")
      PROVE  Effect("high-contrast", v, over) = [gtk |-> GtkOf(u)]
  <2>1. Effect("high-contrast", v, over) = AccessibilityEffect("high-contrast", v, over)
    BY EffectBySection DEF AccessibilityKeys
  <2>2. AccessibilityEffect("high-contrast", v, over) = [gtk |-> ContrastTheme(v, over)]
    BY DEF AccessibilityEffect
  <2>3. ReadSetting(over, "theme", "dark") =
           IF Get(u, "theme") = NotSet THEN "dark" ELSE Get(u, "theme")
    BY ReadsAgree, FallbackAssumption
  <2>4. NotSet # "light"
    BY SlotAssumption
  <2>5. ContrastTheme(v, over) = GtkOf(u)
    BY <1>3, <2>3, <2>4 DEF ContrastTheme, GtkOf, GtkTheme
  <2> QED BY <2>1, <2>2, <2>5
<1> QED BY <1>1, <1>2, <1>3

LEMMA ProxySlot ==
    ASSUME NEW u, IsStore(u), NEW over \in {Flat(u), Merged(u)},
           NEW k \in ProxyKeys, Get(u, "proxy") # NotSet
    PROVE  Effect(k, Get(u, k), over) = [proxy |-> ProxyOf(u)]
<1>1. Effect(k, Get(u, k), over) = ProxyEffect(k, Get(u, k), over)
  BY EffectBySection
<1>2. CASE k = "proxy"
  <2>1. ReadSetting(over, "proxy-enabled", Off) =
           IF Get(u, "proxy-enabled") = NotSet THEN Off ELSE Get(u, "proxy-enabled")
    BY ReadsAgree, AppAssumption, FallbackAssumption
  <2>2. NotSet # On
    BY SlotAssumption
  <2>3. Proxy(ReadSetting(over, "proxy-enabled", Off), Get(u, "proxy")) = ProxyOf(u)
    BY <2>1, <2>2 DEF ProxyOf, Proxy, Off, On
  <2> QED BY <1>1, <1>2, <2>3 DEF ProxyEffect
<1>3. CASE k = "proxy-enabled"
  <2>1. ReadSetting(over, "proxy", "") = Get(u, "proxy")
    BY ReadsAgree, FallbackAssumption
  <2>2. ProxyEffect(k, Get(u, k), over) = [proxy |-> ProxyOf(u)]
    BY <1>3, <2>1 DEF ProxyEffect, ProxyOf
  <2> QED BY <1>1, <2>2
<1> QED BY <1>2, <1>3 DEF ProxyKeys

---------------------------------------------------------------------------
(* A pass of the daemon, slot by slot.                                     *)

\* The key at i sets the slot s; the last of those that do.
Acts(i, s, ks, u) ==
    Order[i] \in ks /\ s \in DOMAIN Effect(Order[i], Get(u, Order[i]), Flat(u))
LastOf(s, ks, u) == {i \in Drivers[s] :
    Acts(i, s, ks, u) /\ \A j \in Drivers[s] : Later(j, i) => ~Acts(j, s, ks, u)}

\* A session whose slots and programs are those of the keys.
IsSession(t) ==
    /\ t = [shows |-> t.shows, programs |-> t.programs]
    /\ DOMAIN t.shows = Slots
    /\ t.programs \in [Keys \cap LaunchKeys -> {0, 1}]

LEMMA KnownSlots == {"gtk", "proxy", "temp"} \subseteq Slots
<1>1. "theme" \in Keys /\ "proxy" \in Keys /\ "night-light" \in Keys
  BY AppAssumption, FallbackAssumption
<1>2. /\ "gtk" \in SlotsOf("theme") /\ "temp" \in SlotsOf("night-light")
      /\ "proxy" \in SlotsOf("proxy")
  BY DEF SlotsOf, MonitorKeys, ProxyKeys, StoredKeys
<1> QED BY <1>1, <1>2 DEF Slots

LEMMA PassShows ==
    ASSUME NEW t, NEW ks, NEW u, NEW s \in Slots, IsSession(t)
    PROVE  Pass(t, ks, u).shows[s] =
              IF LastOf(s, ks, u) = {} THEN t.shows[s]
              ELSE LET k == Order[CHOOSE i \in LastOf(s, ks, u) : TRUE]
                   IN  Effect(k, Get(u, k), Flat(u))[s]
BY DEF Pass, LastOf, Acts, IsSession

LEMMA PassSets ==
    ASSUME NEW t, NEW ks, NEW u, NEW s \in Slots, IsSession(t),
           NEW p, LastOf(s, ks, u) = {p}
    PROVE  Pass(t, ks, u).shows[s] = Effect(Order[p], Get(u, Order[p]), Flat(u))[s]
<1>1. (CHOOSE i \in LastOf(s, ks, u) : TRUE) = p /\ LastOf(s, ks, u) # {}
  OBVIOUS
<1> QED BY <1>1, PassShows

LEMMA PassPrograms ==
    ASSUME NEW t, NEW ks, NEW u
    PROVE  Pass(t, ks, u).programs = [k \in DOMAIN t.programs |->
              IF k \notin ks THEN t.programs[k] ELSE IF Get(u, k) = On THEN 1 ELSE 0]
BY DEF Pass

LEMMA PassIsSession ==
    ASSUME NEW t, NEW ks, NEW u, IsSession(t)
    PROVE  IsSession(Pass(t, ks, u))
BY DEF Pass, IsSession

\* The slot's drivers are the places of the keys that set it.
LEMMA DriverPlaces ==
    ASSUME NEW s \in Slots
    PROVE  /\ Drivers[s] = {i \in DOMAIN Order : Order[i] \in DriversOf(s)}
           /\ Drivers[s] \subseteq Nat
BY OrderAssumption DEF Drivers, Slots, DriversOf

\* A pass leaves alone what it has no key for.
LEMMA PassLeaves ==
    ASSUME NEW t, NEW ks, NEW u, NEW s \in Slots, IsSession(t),
           DriversOf(s) \cap ks = {}
    PROVE  Pass(t, ks, u).shows[s] = t.shows[s]
<1>1. LastOf(s, ks, u) = {}
  BY DriverPlaces DEF LastOf, Acts, Later
<1> QED BY <1>1, PassShows

\* What a slot of one key is left with.
LEMMA PassOfOne ==
    ASSUME NEW t, NEW ks, NEW u, NEW s \in Slots, IsSession(t),
           NEW k \in Keys, DriversOf(s) = {k}, k \in ks
    PROVE  Pass(t, ks, u).shows[s] =
              IF s \in DOMAIN Effect(k, Get(u, k), Flat(u))
              THEN Effect(k, Get(u, k), Flat(u))[s] ELSE t.shows[s]
<1>1. PICK p \in DOMAIN Order : Order[p] = k
  BY OrderAssumption
<1>2. Drivers[s] = {p} /\ p \in Nat
  BY <1>1, DriverPlaces, OrderAssumption
<1>3. CASE s \in DOMAIN Effect(k, Get(u, k), Flat(u))
  <2>1. LastOf(s, ks, u) = {p}
    BY <1>1, <1>2, <1>3 DEF LastOf, Acts, Later
  <2> QED BY <1>1, <1>3, <2>1, PassSets
<1>4. CASE s \notin DOMAIN Effect(k, Get(u, k), Flat(u))
  <2>1. LastOf(s, ks, u) = {}
    BY <1>1, <1>2, <1>4 DEF LastOf, Acts, Later
  <2> QED BY <1>4, <2>1, PassShows
<1> QED BY <1>3, <1>4

\* The theme and the contrast: the contrast comes last.
LEMMA PassOfGtk ==
    ASSUME NEW t, NEW ks, NEW u, IsStore(u), IsSession(t)
    PROVE  /\ "high-contrast" \in ks => Pass(t, ks, u).shows["gtk"] = GtkOf(u)
           /\ "high-contrast" \notin ks /\ "theme" \in ks =>
                 Pass(t, ks, u).shows["gtk"] = GtkTheme(Get(u, "theme"))
<1>1. "gtk" \in Slots /\ DriversOf("gtk") = GtkKeys /\ "theme" \in Keys
         /\ "high-contrast" \in Keys
  BY SlotDrivers, KnownSlots, FallbackAssumption
<1>2. PICK a \in DOMAIN Order : Order[a] = "theme"
  BY <1>1, OrderAssumption
<1>3. PICK b \in DOMAIN Order : Order[b] = "high-contrast"
  BY <1>1, OrderAssumption
<1>4. a < b /\ a \in Nat /\ b \in Nat /\ Drivers["gtk"] = {a, b}
  BY <1>1, <1>2, <1>3, DriverPlaces, OrderAssumption DEF GtkKeys
<1>5. /\ Effect("high-contrast", Get(u, "high-contrast"), Flat(u)) = [gtk |-> GtkOf(u)]
      /\ "gtk" \in DOMAIN Effect("theme", Get(u, "theme"), Flat(u))
      /\ Effect("theme", Get(u, "theme"), Flat(u))["gtk"] = GtkTheme(Get(u, "theme"))
  BY GtkEffect
<1>6. CASE "high-contrast" \in ks
  <2>1. Acts(b, "gtk", ks, u)
    BY <1>3, <1>5, <1>6 DEF Acts
  <2>2. LastOf("gtk", ks, u) = {b}
    BY <1>4, <2>1 DEF LastOf, Later
  <2> QED BY <1>1, <1>3, <1>5, <1>6, <2>2, PassSets
<1>7. CASE "high-contrast" \notin ks /\ "theme" \in ks
  <2>1. Acts(a, "gtk", ks, u) /\ ~Acts(b, "gtk", ks, u)
    BY <1>2, <1>3, <1>5, <1>7 DEF Acts
  <2>2. LastOf("gtk", ks, u) = {a}
    BY <1>4, <2>1 DEF LastOf, Later
  <2> QED BY <1>1, <1>2, <1>5, <1>7, <2>2, PassSets
<1> QED BY <1>6, <1>7

\* Either proxy key sets what both say.
LEMMA PassOfProxy ==
    ASSUME NEW t, NEW ks, NEW u, IsStore(u), IsSession(t),
           ks \cap ProxyKeys # {}, Get(u, "proxy") # NotSet
    PROVE  Pass(t, ks, u).shows["proxy"] = ProxyOf(u)
<1>1. "proxy" \in Slots /\ DriversOf("proxy") = ProxyKeys /\ ProxyKeys \subseteq Keys
  BY SlotDrivers, KnownSlots, AppAssumption, FallbackAssumption DEF ProxyKeys
<1>2. PICK k \in ProxyKeys : k \in ks
  OBVIOUS
<1>3. PICK a \in DOMAIN Order : Order[a] = "proxy-enabled"
  BY <1>1, OrderAssumption DEF ProxyKeys
<1>4. PICK b \in DOMAIN Order : Order[b] = "proxy"
  BY <1>1, OrderAssumption DEF ProxyKeys
<1>5. a # b /\ a \in Nat /\ b \in Nat /\ Drivers["proxy"] = {a, b}
  BY <1>1, <1>3, <1>4, DriverPlaces, OrderAssumption DEF ProxyKeys
<1>6. \A j \in ProxyKeys : Effect(j, Get(u, j), Flat(u)) = [proxy |-> ProxyOf(u)]
  BY ProxySlot
<1>7. \A i \in {a, b} : Acts(i, "proxy", ks, u) <=> Order[i] \in ks
  BY <1>3, <1>4, <1>6 DEF Acts, ProxyKeys
<1>8. \E i \in {a, b} : Order[i] \in ks
  BY <1>2, <1>3, <1>4 DEF ProxyKeys
<1>9. LastOf("proxy", ks, u) # {} /\ LastOf("proxy", ks, u) \subseteq {a, b}
  BY <1>5, <1>7, <1>8 DEF LastOf, Later
<1>10. Order[CHOOSE i \in LastOf("proxy", ks, u) : TRUE] \in ProxyKeys
  <2>1. (CHOOSE i \in LastOf("proxy", ks, u) : TRUE) \in {a, b}
    BY <1>9
  <2> QED BY <1>3, <1>4, <2>1 DEF ProxyKeys
<1> DEFINE j == Order[CHOOSE i \in LastOf("proxy", ks, u) : TRUE]
<1>12. Pass(t, ks, u).shows["proxy"] = Effect(j, Get(u, j), Flat(u))["proxy"]
  BY <1>1, <1>9, PassShows
<1>13. Effect(j, Get(u, j), Flat(u)) = [proxy |-> ProxyOf(u)]
  BY <1>6, <1>10
<1> QED BY <1>12, <1>13

\* A pass over all keys does not depend on what it finds, and twice is once.
LEMMA LoginFrom ==
    ASSUME NEW t, NEW r, NEW u, NEW s \in Slots, IsSession(t), IsSession(r),
           t.shows[s] = r.shows[s]
    PROVE  AtLogin(t, u).shows[s] = AtLogin(r, u).shows[s]
BY PassShows DEF AtLogin

LEMMA LoginTwice ==
    ASSUME NEW t, NEW u, NEW s \in Slots, IsSession(t)
    PROVE  AtLogin(AtLogin(t, u), u).shows[s] = AtLogin(t, u).shows[s]
BY PassShows, PassIsSession DEF AtLogin

\* Nor on more of the file than the slot's keys.
LEMMA LoginSame ==
    ASSUME NEW t, NEW u, NEW w, NEW s \in Slots \ {"temp"}, IsSession(t),
           IsStore(u), IsStore(w), Get(u, "proxy") # NotSet,
           \A k \in DriversOf(s) : Get(u, k) = Get(w, k)
    PROVE  AtLogin(t, u).shows[s] = AtLogin(t, w).shows[s]
<1>1. CASE s = "gtk"
  <2>1. DriversOf(s) = GtkKeys /\ "high-contrast" \in Keys
    BY <1>1, SlotDrivers, FallbackAssumption
  <2>2. GtkOf(u) = GtkOf(w)
    BY <2>1 DEF GtkOf, GtkKeys
  <2> QED BY <1>1, <2>1, <2>2, PassOfGtk DEF AtLogin
<1>2. CASE s = "proxy"
  <2>1. DriversOf(s) = ProxyKeys /\ ProxyKeys \subseteq Keys
    BY <1>2, SlotDrivers, AppAssumption, FallbackAssumption DEF ProxyKeys
  <2>2. ProxyOf(u) = ProxyOf(w) /\ Get(w, "proxy") # NotSet /\ Keys \cap ProxyKeys # {}
    BY <2>1 DEF ProxyOf, ProxyKeys
  <2> QED BY <1>2, <2>2, PassOfProxy DEF AtLogin
<1>3. CASE s \notin {"gtk", "proxy"}
  <2>1. \A k \in DriversOf(s) : k \notin ProxyKeys \cup {"high-contrast", "night-light"}
    <3> SUFFICES ASSUME NEW k \in DriversOf(s),
                        k \in ProxyKeys \cup {"high-contrast", "night-light"}
                 PROVE  FALSE
      OBVIOUS
    <3>1. SlotsOf(k) \subseteq {"gtk", "proxy", "temp"} /\ s \in SlotsOf(k)
      BY SlotsByKey DEF DriversOf
    <3> QED BY <1>3, <3>1
  <2>2. \A k \in DriversOf(s) :
           Effect(k, Get(u, k), Flat(u)) = Effect(k, Get(w, k), Flat(w))
    BY <2>1, EffectAlone
  <2>3. LastOf(s, Keys, u) = LastOf(s, Keys, w)
    BY <2>2, DriverPlaces DEF LastOf, Acts, Later
  <2>4. CASE LastOf(s, Keys, u) = {}
    <3>1. Pass(t, Keys, u).shows[s] = t.shows[s]
      BY <2>4, PassShows
    <3>2. LastOf(s, Keys, w) = {}
      BY <2>3, <2>4
    <3>3. Pass(t, Keys, w).shows[s] = t.shows[s]
      BY <3>2, PassShows
    <3> QED BY <3>1, <3>3 DEF AtLogin
  <2>5. CASE LastOf(s, Keys, u) # {}
    <3> DEFINE k == Order[CHOOSE i \in LastOf(s, Keys, u) : TRUE]
    <3>1. k \in DriversOf(s)
      BY <2>5, DriverPlaces DEF LastOf, Later
    <3>2. Effect(k, Get(u, k), Flat(u)) = Effect(k, Get(w, k), Flat(w))
      BY <2>2, <3>1
    <3>3. Pass(t, Keys, u).shows[s] = Effect(k, Get(u, k), Flat(u))[s]
      BY <2>5, PassShows
    <3>4. Pass(t, Keys, w).shows[s] = Effect(k, Get(w, k), Flat(w))[s]
      BY <2>3, <2>5, PassShows
    <3> QED BY <3>2, <3>3, <3>4 DEF AtLogin
  <2> QED BY <2>4, <2>5
<1> QED BY <1>1, <1>2, <1>3

---------------------------------------------------------------------------
(* What is on its way.                                                     *)

\* The handlers that save and apply k, and the button of the wallpaper.
Ahead == \E k \in DOMAIN Control \ {"night-light", "night-light-temp"} : \E v :
            /\ pending = SaveAndApply(k, v) \/ pending = SaveApplyShow(k, v)
            /\ k = "proxy" => v # NotSet
Restoring == LET d == Default["wallpaper"]
             IN  pending = <<Step("reset", "wallpaper", d),
                             Step("apply", "wallpaper", d), Step("show", "wallpaper", d)>>

\* Those of the night light: its switch, the temperature of a light that is
\* on, or the second half of the switch's, and of one that is off.
Switching == \E v, x : pending = <<Step("set", "night-light", v),
                          Step("set", "night-light-temp", x), Step("apply", "night-light", v)>>
Tempering == \E v, x : /\ pending = <<Step("set", "night-light-temp", x),
                                      Step("apply", "night-light", v)>>
                       /\ Get(user, "night-light") = v
Unlit     == \E x : /\ pending = <<Step("set", "night-light-temp", x)>>
                    /\ Get(user, "night-light") # On

\* What is left when the key is saved.
Applying == \E k \in DOMAIN Control : \E v :
               /\ \/ pending = <<Step("apply", k, v)>>
                  \/ pending = <<Step("apply", k, v), Step("show", k, v)>>
               /\ \/ raced
                  \/ user = file /\ v = Get(file, k)
                  \/ k = "wallpaper" /\ k \in loose
Showing  == \E k, v : pending = <<Step("show", k, v)>>

Course ==
    \/ pending = <<>> \/ Ahead \/ Restoring
    \/ Switching \/ Tempering \/ Unlit \/ Applying \/ Showing

\* The next step of the handler under way.
LEMMA Steps ==
    /\ Ahead \/ Restoring \/ Switching \/ Tempering \/ Unlit =>
          pending # <<>> /\ Head(pending).op \in {"set", "reset"}
    /\ Applying => pending # <<>> /\ Head(pending).op = "apply"
    /\ Showing => pending # <<>> /\ Head(pending).op = "show"
<1>1. ASSUME Ahead PROVE pending # <<>> /\ Head(pending).op \in {"set", "reset"}
  <2>1. PICK k, v : pending = SaveAndApply(k, v) \/ pending = SaveApplyShow(k, v)
    BY <1>1 DEF Ahead
  <2>2. pending # <<>> /\ Head(pending) = Step("set", k, v)
    BY <2>1, Queues DEF SaveAndApply, SaveApplyShow
  <2> QED BY <2>2 DEF Step
<1>2. ASSUME Restoring PROVE pending # <<>> /\ Head(pending).op = "reset"
  <2>1. pending # <<>> /\ Head(pending) = Step("reset", "wallpaper", Default["wallpaper"])
    BY <1>2, Queues DEF Restoring
  <2> QED BY <2>1 DEF Step
<1>3. ASSUME Switching \/ Tempering \/ Unlit
      PROVE  pending # <<>> /\ Head(pending).op = "set"
  <2>1. pending # <<>> /\ \E k, v : Head(pending) = Step("set", k, v)
    BY <1>3, Queues DEF Switching, Tempering, Unlit
  <2> QED BY <2>1 DEF Step
<1>4. ASSUME Applying PROVE pending # <<>> /\ Head(pending).op = "apply"
  <2>1. pending # <<>> /\ \E k, v : Head(pending) = Step("apply", k, v)
    BY <1>4, Queues DEF Applying
  <2> QED BY <2>1 DEF Step
<1>5. ASSUME Showing PROVE pending # <<>> /\ Head(pending).op = "show"
  <2>1. pending # <<>> /\ \E k, v : Head(pending) = Step("show", k, v)
    BY <1>5, Queues DEF Showing
  <2> QED BY <2>1 DEF Step
<1> QED BY <1>1, <1>2, <1>3, <1>4, <1>5

\* A saved value that the applier is about to be told.
Due(k) == \E i \in DOMAIN pending :
    /\ pending[i].op = "apply" /\ pending[i].key = k
    /\ pending[i].val = Get(file, k) /\ user = file

\* A queue has one call of the applier at most, for the key it has saved, and
\* later no other.
LEMMA NothingDue == pending = <<>> \/ Showing \/ Unlit => \A k : ~Due(k)
<1>1. ASSUME pending = <<>> PROVE DOMAIN pending = {}
  BY <1>1
<1>2. ASSUME NEW op \in {"show", "set"}, NEW k, NEW v, pending = <<Step(op, k, v)>>
      PROVE  \A i \in DOMAIN pending : pending[i].op = op
  BY <1>2 DEF Step
<1> QED BY <1>1, <1>2 DEF Due, Showing, Unlit

LEMMA RestApplies ==
    ASSUME NEW q, NEW k, NEW v,
           q = <<Step("apply", k, v)>> \/ q = <<Step("apply", k, v), Step("show", k, v)>>
    PROVE  /\ 1 \in DOMAIN q /\ q[1].op = "apply" /\ q[1].key = k /\ q[1].val = v
           /\ \A i \in DOMAIN q : q[i].op = "apply" => q[i].key = k /\ q[i].val = v
<1>1. /\ 1 \in DOMAIN q /\ q[1] = Step("apply", k, v)
      /\ \A i \in DOMAIN q : i # 1 => q[i] = Step("show", k, v)
  BY DEF Step
<1> QED BY <1>1 DEF Step

LEMMA DueOfOne ==
    ASSUME NEW k, NEW v,
           pending = <<Step("apply", k, v)>>
              \/ pending = <<Step("apply", k, v), Step("show", k, v)>>
    PROVE  \A j : Due(j) <=> j = k /\ v = Get(file, k) /\ user = file
BY RestApplies DEF Due

---------------------------------------------------------------------------
(* What the session shows, all the time.                                   *)

Same(k)  == Get(file, k) = Get(seen, k)
Right(s) == targets.shows[s] = AtLogin(targets, seen).shows[s]

\* Where the daemon has nothing to do for a slot, the slot is as a login sets
\* it or the applier is about to.
SlotInv ==
    \A s \in Slots \ (loose \cup {"monitor", "temp"}) :
        (\A k \in DriversOf(s) : Same(k)) =>
            Right(s) \/ \E k \in DriversOf(s) : Due(k)
MonitorInv == "monitor" \in Slots \ loose => Right("monitor")

\* The night light burns as hot as the file says, which is what the app holds.
TempInv ==
    "temp" \notin loose =>
        /\ open => Get(user, "night-light-temp") = Get(file, "night-light-temp")
        /\ Same("night-light") =>
              \/ targets.shows["temp"] = TempOf(Get(seen, "night-light"), file)
              \/ Due("night-light")
ProgramInv ==
    \A k \in Keys \cap LaunchKeys : Same(k) =>
        \/ targets.programs[k] = IF Get(seen, k) = On THEN 1 ELSE 0
        \/ Due(k)

ShownInv == ~raced => SlotInv /\ MonitorInv /\ TempInv /\ ProgramInv

Told == /\ stale \subseteq Slow
        /\ Get(user, "proxy") # NotSet /\ Get(file, "proxy") # NotSet
        /\ Get(seen, "proxy") # NotSet

LiveInv == IsSession(targets) /\ Told /\ Course /\ ShownInv

LEMMA ShownNow ==
    ASSUME AppInv, LiveInv
    PROVE  LiveIsLogin
<1> SUFFICES ASSUME Quiet
             PROVE  /\ \A s \in DOMAIN targets.shows \ loose :
                          targets.shows[s] = AtLogin(targets, file).shows[s]
                    /\ targets.programs = AtLogin(targets, file).programs
  BY DEF LiveIsLogin
<1>1. /\ file = seen /\ (\A k : ~Due(k)) /\ (\A k : Same(k))
      /\ SlotInv /\ MonitorInv /\ TempInv /\ ProgramInv
  BY NothingDue DEF Quiet, LiveInv, ShownInv, Same
<1>2. IsSession(targets) /\ IsStore(seen)
  BY DEF LiveInv, AppInv, AppTypeOK
<1>3. ASSUME NEW s \in Slots \ loose
      PROVE  Right(s)
  <2>1. CASE s \notin {"monitor", "temp"}
    BY <1>1, <1>3, <2>1 DEF SlotInv
  <2>2. CASE s = "monitor"
    BY <1>1, <1>3, <2>2 DEF MonitorInv
  <2>3. CASE s = "temp"
    <3>1. targets.shows["temp"] = TempOf(Get(seen, "night-light"), file)
      BY <1>1, <1>3, <2>3 DEF TempInv
    <3>2. Effect("night-light", Get(seen, "night-light"), Flat(seen)) =
             [temp |-> TempOf(Get(seen, "night-light"), seen)]
      BY <1>2, TempEffect
    <3>3. "night-light" \in Keys /\ DriversOf("temp") = {"night-light"}
      BY SlotDrivers, AppAssumption
    <3>4. AtLogin(targets, seen).shows["temp"] = TempOf(Get(seen, "night-light"), seen)
      BY <1>2, <1>3, <2>3, <3>2, <3>3, PassOfOne DEF AtLogin
    <3> QED BY <1>1, <2>3, <3>1, <3>4 DEF Right
  <2> QED BY <2>1, <2>2, <2>3
<1>4. targets.programs = AtLogin(targets, file).programs
  <2>1. \A k \in Keys \cap LaunchKeys :
           targets.programs[k] = IF Get(file, k) = On THEN 1 ELSE 0
    BY <1>1 DEF ProgramInv
  <2>2. AtLogin(targets, file).programs = [k \in DOMAIN targets.programs |->
           IF k \notin Keys THEN targets.programs[k] ELSE IF Get(file, k) = On THEN 1 ELSE 0]
    BY PassPrograms DEF AtLogin
  <2>3. DOMAIN targets.programs = Keys \cap LaunchKeys
    BY <1>2 DEF IsSession
  <2>4. \A k \in DOMAIN targets.programs :
           targets.programs[k] = AtLogin(targets, file).programs[k]
    BY <2>1, <2>2, <2>3
  <2>5. targets.programs = [k \in DOMAIN targets.programs |-> targets.programs[k]]
    BY <1>2 DEF IsSession
  <2> QED BY <2>2, <2>4, <2>5
<1> QED BY <1>1, <1>2, <1>3, <1>4 DEF Right, IsSession

---------------------------------------------------------------------------
(* The steps.                                                              *)

\* The session and what it is set by are as they were.
LEMMA ShownStill ==
    ASSUME ShownInv, UNCHANGED <<file, seen, targets>>,
           raced => raced', loose \subseteq loose',
           ~raced' => \A k : Due(k) /\ Same(k) => Due(k)',
           ~raced' /\ open' /\ "temp" \notin loose' =>
              Get(user, "night-light-temp")' = Get(file, "night-light-temp")
    PROVE  ShownInv'
<1> SUFFICES ASSUME ~raced'
             PROVE  SlotInv' /\ MonitorInv' /\ TempInv' /\ ProgramInv'
  BY DEF ShownInv
<1>1. SlotInv /\ MonitorInv /\ TempInv /\ ProgramInv
  BY DEF ShownInv
<1>2. /\ \A k : (Same(k)' <=> Same(k)) /\ (Due(k) /\ Same(k) => Due(k)')
      /\ \A s : Right(s)' <=> Right(s)
  BY DEF Same, Right
<1>3. SlotInv'
  <2> SUFFICES ASSUME NEW s \in Slots \ (loose' \cup {"monitor", "temp"}),
                      \A k \in DriversOf(s) : Same(k)
               PROVE  Right(s) \/ \E k \in DriversOf(s) : Due(k)'
    BY <1>2 DEF SlotInv
  <2> QED BY <1>1, <1>2 DEF SlotInv
<1>4. MonitorInv'
  BY <1>1, <1>2 DEF MonitorInv
<1>5. TempInv'
  BY <1>1, <1>2 DEF TempInv
<1>6. ProgramInv'
  BY <1>1, <1>2 DEF ProgramInv
<1> QED BY <1>3, <1>4, <1>5, <1>6

\* With nothing due, nothing is lost.
LEMMA ShownRest ==
    ASSUME ShownInv, UNCHANGED <<file, seen, targets, raced, loose>>,
           \A k : ~Due(k),
           open => open /\ user' = user
    PROVE  open' = open => ShownInv'
<1>1. ~raced /\ open /\ "temp" \notin loose =>
         Get(user, "night-light-temp") = Get(file, "night-light-temp")
  BY DEF ShownInv, TempInv
<1> QED BY <1>1, ShownStill

LEMMA LiveOpens ==
    ASSUME AppInv, LiveInv, AppOpen
    PROVE  LiveInv'
<1>1. /\ pending = <<>> /\ pending' = <<>> /\ user' = file
      /\ UNCHANGED <<file, targets, seen, stale, loose, raced>>
  BY DEF AppOpen, AppInv, AppTypeOK, auxVars
<1>2. ShownInv'
  BY <1>1, NothingDue, ShownStill DEF LiveInv
<1> QED BY <1>1, <1>2 DEF LiveInv, Told, Course

\* A change that has been saved and not applied is raced, or one the daemon
\* has still to see.
LEMMA DueUnnoticed == ASSUME NEW k, Due(k), Same(k) PROVE Unnoticed
BY DEF Due, Same, Unnoticed

LEMMA LiveEnds ==
    ASSUME AppInv, LiveInv, AppEnds
    PROVE  LiveInv'
<1>1. /\ ~open' /\ user' = NoTables /\ pending' = <<>> /\ stale' = {}
      /\ UNCHANGED <<file, targets, seen>> /\ loose \subseteq loose'
      /\ raced' = (raced \/ Unnoticed)
  BY DEF AppEnds
<1>2. ShownInv'
  BY <1>1, DueUnnoticed, ShownStill DEF LiveInv
<1>3. Get(user', "proxy") # NotSet
  BY <1>1, FallbackAssumption, SlotAssumption DEF Get, Has, NoTables
<1> QED BY <1>1, <1>2, <1>3 DEF LiveInv, Told, Course, Slow

\* The switch of the night light shows what the app holds.
LEMMA SwitchTells ==
    ASSUME AppInv, TellInv, LiveInv, open, pending = <<>>
    PROVE  widget["night-light"] = Get(user, "night-light")
<1>1. "night-light" \in DOMAIN Control \ stale
  BY AppAssumption DEF LiveInv, Told, Slow
<1>2. SettledBut({})
  BY DEF TellInv, Idle, Storing, Warming, Picked, Drawing
<1> QED BY <1>1, <1>2, ControlAssumption DEF SettledBut, Settled, Display

LEMMA LiveMoves ==
    ASSUME AppInv, TellInv, LiveInv,
           NEW k \in DOMAIN Control, NEW v \in Tried[k], Moved(k, v)
    PROVE  LiveInv'
<1>1. /\ open /\ pending = <<>> /\ pending' = Handler(k, v)
      /\ UNCHANGED <<open, user, file, targets, seen, stale, loose, raced>>
  BY DEF Moved, auxVars
<1>2. v # NotSet
  BY AppAssumption, SlotAssumption
<1>3. Course'
  <2>1. CASE k = "night-light"
    <3>1. pending' = <<Step("set", "night-light", v),
              Step("set", "night-light-temp", widget["night-light-temp"]),
              Step("apply", "night-light", v)>>
      BY <1>1, <2>1 DEF Handler, NightLightSteps, SaveApplyShow, SaveAndApply
    <3> QED BY <3>1 DEF Course, Switching
  <2>2. CASE k = "night-light-temp"
    <3>1. IF widget["night-light"] = On
          THEN pending' = <<Step("set", k, v), Step("apply", "night-light", On)>>
          ELSE pending' = <<Step("set", k, v)>>
      BY <1>1, <2>2 DEF Handler, NightLightSteps, SaveApplyShow, SaveAndApply
    <3>2. widget["night-light"] = Get(user', "night-light")
      BY <1>1, SwitchTells
    <3> QED BY <2>2, <3>1, <3>2 DEF Course, Tempering, Unlit
  <2>3. CASE k \notin {"night-light", "night-light-temp"}
    <3>1. pending' = SaveAndApply(k, v) \/ pending' = SaveApplyShow(k, v)
      BY <1>1, <2>3 DEF Handler
    <3>2. Ahead'
      BY <1>2, <2>3, <3>1 DEF Ahead, SaveAndApply, SaveApplyShow
    <3> QED BY <3>2 DEF Course
  <2> QED BY <2>1, <2>2, <2>3
<1>4. ShownInv'
  BY <1>1, NothingDue, ShownRest DEF LiveInv
<1> QED BY <1>1, <1>3, <1>4 DEF LiveInv, Told

LEMMA LiveRestores ==
    ASSUME AppInv, LiveInv, WallpaperReset
    PROVE  LiveInv'
<1>1. /\ open /\ pending = <<>>
      /\ UNCHANGED <<open, user, file, targets, seen, stale, loose, raced>>
  BY DEF WallpaperReset, auxVars
<1>2. Course'
  BY DEF WallpaperReset, Course, Restoring
<1>3. ShownInv'
  BY <1>1, NothingDue, ShownRest DEF LiveInv
<1> QED BY <1>1, <1>2, <1>3 DEF LiveInv, Told

LEMMA LiveShows ==
    ASSUME AppInv, LiveInv, Shows
    PROVE  LiveInv'
<1>1. /\ open /\ UNCHANGED <<open, user, file, targets, seen, loose, raced>>
      /\ stale' \subseteq stale /\ pending' = Tail(pending)
      /\ pending # <<>> /\ Head(pending).op = "show"
  BY DEF Shows, Does, Next1, AppInv, AppTypeOK
<1>2. Showing
  BY <1>1, Steps DEF LiveInv, Course
<1>3. pending' = <<>>
  BY <1>1, <1>2, Queues DEF Showing
<1>4. ShownInv'
  BY <1>1, <1>2, NothingDue, ShownRest DEF LiveInv
<1> QED BY <1>1, <1>3, <1>4 DEF LiveInv, Told, Course

\* A reset that saves nothing leaves the wallpaper loose.
LEMMA LiveResets ==
    ASSUME AppInv, LiveInv, NothingToReset
    PROVE  LiveInv'
<1> DEFINE w == "wallpaper"
           d == Default["wallpaper"]
<1>1. /\ open /\ UNCHANGED <<open, user, file, targets, seen, stale, raced>>
      /\ pending' = Tail(pending) /\ loose' = loose \cup {Next1.key}
      /\ pending # <<>> /\ Head(pending).op = "reset" /\ Next1 = Head(pending)
  BY DEF NothingToReset, Does, Next1, AppInv, AppTypeOK
<1>2. Restoring
  <2>1. ~Switching /\ ~Tempering /\ ~Unlit /\ ~Ahead
    <3>1. ASSUME Switching \/ Tempering \/ Unlit \/ Ahead
          PROVE  \E k, v : Head(pending) = Step("set", k, v)
      BY <3>1, Queues DEF Switching, Tempering, Unlit, Ahead, SaveAndApply, SaveApplyShow
    <3> QED BY <1>1, <3>1 DEF Step
  <2> QED BY <1>1, <2>1, Steps DEF LiveInv, Course
<1>3. /\ Next1 = Step("reset", w, d)
      /\ pending' = <<Step("apply", w, d), Step("show", w, d)>>
  BY <1>1, <1>2, Queues DEF Restoring
<1>4. w \in loose' /\ w \in DOMAIN Control
  BY <1>1, <1>3, AppAssumption DEF Step
<1>5. Course'
  BY <1>3, <1>4 DEF Course, Applying
<1>6. \A k : Due(k) => Due(k)'
  <2>1. /\ DOMAIN pending = 1 .. 3 /\ pending[1] = Step("reset", w, d)
        /\ pending[2] = Step("apply", w, d) /\ pending[3] = Step("show", w, d)
    BY <1>2 DEF Restoring
  <2>2. \A k : Due(k) => k = w /\ d = Get(file, w) /\ user = file
    BY <2>1 DEF Due, Step
  <2>3. /\ 1 \in DOMAIN pending' /\ pending'[1] = Step("apply", w, d)
    BY <1>3
  <2>4. pending'[1].op = "apply" /\ pending'[1].key = w /\ pending'[1].val = d
    BY <2>3 DEF Step
  <2>5. ASSUME NEW k, Due(k) PROVE Due(k)'
    <3>1. k = w /\ d = Get(file, w) /\ user = file
      BY <2>2, <2>5
    <3>2. d = Get(file', k) /\ user' = file'
      BY <1>1, <3>1
    <3> QED BY <2>3, <2>4, <3>1, <3>2 DEF Due
  <2> QED BY <2>5
<1>7. ~raced' /\ open' /\ "temp" \notin loose' =>
         Get(user, "night-light-temp")' = Get(file, "night-light-temp")
  BY <1>1 DEF LiveInv, ShownInv, TempInv
<1>8. ShownInv'
  BY <1>1, <1>6, <1>7, ShownStill DEF LiveInv
<1> QED BY <1>1, <1>5, <1>8 DEF LiveInv, Told

\* What a set or a reset makes of the store, in every key.
LEMMA AfterSaving ==
    ASSUME AppInv, LiveInv, Saving
    PROVE  /\ open /\ pending # <<>> /\ Next1 = Head(pending)
           /\ Next1.key \in DOMAIN Control /\ Next1.key \in Keys
           /\ IsStore(Changed)
           /\ \A j \in Keys : j # Next1.key => Get(Changed, j) = Get(user, j)
           /\ Next1.op = "set" => Get(Changed, Next1.key) = Next1.val
           /\ Next1.op # "set" => Get(Changed, Next1.key) = Default[Next1.key]
           /\ Get(Changed, "proxy") # NotSet
           /\ Ahead \/ Restoring \/ Switching \/ Tempering \/ Unlit
<1>1. /\ open /\ pending # <<>> /\ Next1 = Head(pending)
      /\ Next1.op \in {"set", "reset"}
  BY DEF Saving, Does, Next1, AppInv, AppTypeOK
<1>2. Next1.key \in DOMAIN Control /\ Next1.key \in Keys
  BY <1>1, HandlerRest, AppAssumption DEF AppInv
<1>3. IsStore(user)
  BY DEF AppInv, AppTypeOK
<1>4. /\ IsStore(Changed)
      /\ \A j \in Keys : j # Next1.key => Get(Changed, j) = Get(user, j)
      /\ Next1.op = "set" => Get(Changed, Next1.key) = Next1.val
      /\ Next1.op # "set" => Get(Changed, Next1.key) = Default[Next1.key]
  <2>1. CASE Next1.op = "set"
    BY <1>2, <1>3, <2>1, SetKeepsStore, GetAfterSet DEF Changed
  <2>2. CASE Next1.op # "set"
    <3>1. SectionOf[Next1.key] \in DOMAIN user /\ Changed = ResetIn(user, Next1.key)
      BY <2>2 DEF Saving, Does, Changed
    <3> QED BY <1>2, <1>3, <2>2, <3>1, ResetKeepsStore, GetAfterReset
  <2> QED BY <2>1, <2>2
<1>5. Ahead \/ Restoring \/ Switching \/ Tempering \/ Unlit
  BY <1>1, Steps DEF LiveInv, Course
<1>6. Get(Changed, "proxy") # NotSet
  <2>1. "proxy" \in Keys /\ Default["proxy"] # NotSet /\ Get(user, "proxy") # NotSet
    BY FallbackAssumption, SlotAssumption DEF LiveInv, Told
  <2>2. CASE Next1.key # "proxy"
    BY <1>4, <2>1, <2>2
  <2>3. CASE Next1.key = "proxy" /\ Next1.op = "set"
    <3>1. ~Restoring /\ ~Switching /\ ~Tempering /\ ~Unlit
      <4>1. ASSUME Restoring \/ Switching \/ Tempering \/ Unlit
            PROVE  \E op, v : \E k \in {"wallpaper", "night-light", "night-light-temp"} :
                      Head(pending) = Step(op, k, v)
        BY <4>1, Queues DEF Restoring, Switching, Tempering, Unlit
      <4> QED BY <1>1, <2>3, <4>1 DEF Step
    <3>2. PICK k, v : /\ pending = SaveAndApply(k, v) \/ pending = SaveApplyShow(k, v)
                      /\ k = "proxy" => v # NotSet
      BY <1>5, <3>1 DEF Ahead
    <3>3. Next1 = Step("set", k, v)
      BY <1>1, <3>2, Queues DEF SaveAndApply, SaveApplyShow
    <3> QED BY <1>4, <2>3, <3>2, <3>3 DEF Step
  <2>4. CASE Next1.key = "proxy" /\ Next1.op # "set"
    BY <1>4, <2>1, <2>4
  <2> QED BY <2>2, <2>3, <2>4
<1> QED BY <1>1, <1>2, <1>4, <1>5, <1>6

LEMMA StepOps ==
    ASSUME NEW op, NEW k, NEW v
    PROVE  /\ Step(op, k, v).op = op /\ Step(op, k, v).key = k /\ Step(op, k, v).val = v
           /\ op = "set" => Step(op, k, v) # Step("reset", k, v)
BY DEF Step

LEMMA LiveFails ==
    ASSUME AppInv, LiveInv, SaveFails
    PROVE  LiveInv'
<1>1. /\ Saving /\ user' = Changed /\ pending' = <<>>
      /\ UNCHANGED <<open, file, targets, seen>>
      /\ stale' = stale \cup ({Next1.key} \cap Slow)
      /\ loose \subseteq loose'
      /\ Next1.key = "night-light-temp" => "temp" \in loose'
      /\ raced' = (raced \/ Unnoticed)
  BY DEF SaveFails, Slow
<1>2. ASSUME ~raced', "temp" \notin loose'
      PROVE  Get(user', "night-light-temp") = Get(file', "night-light-temp")
  <2>1. Get(user, "night-light-temp") = Get(file, "night-light-temp")
    BY <1>1, <1>2, AfterSaving DEF LiveInv, ShownInv, TempInv
  <2>2. Get(Changed, "night-light-temp") = Get(user, "night-light-temp")
    BY <1>1, <1>2, AfterSaving, AppAssumption
  <2> QED BY <1>1, <2>1, <2>2
<1>3. ShownInv'
  BY <1>1, <1>2, DueUnnoticed, ShownStill DEF LiveInv
<1>4. Told'
  BY <1>1, AfterSaving DEF LiveInv, Told, Slow
<1> QED BY <1>1, <1>3, <1>4 DEF LiveInv, Course

\* The key that has just been saved is due, but for the temperature of a light
\* that is off; what was due still is.
LEMMA SavedIsDue ==
    ASSUME AppInv, LiveInv, Saves
    PROVE  /\ Course'
           /\ \A k : k = Next1.key /\ k # "night-light-temp" => Due(k)'
           /\ Next1.key = "night-light-temp" =>
                 Due("night-light")' \/ Get(user, "night-light") # On
           /\ \A k : Due(k) => Due(k)'
<1>1. /\ Saving /\ user' = Changed /\ file' = Changed
      /\ pending' = Tail(pending)
  BY DEF Saves
<1>2. /\ pending # <<>> /\ Next1 = Head(pending)
      /\ Next1.op = "set" => Get(Changed, Next1.key) = Next1.val
      /\ Next1.op # "set" => Get(Changed, Next1.key) = Default[Next1.key]
      /\ \A j \in Keys : j # Next1.key => Get(Changed, j) = Get(user, j)
      /\ Next1.key \in DOMAIN Control
      /\ Ahead \/ Restoring \/ Switching \/ Tempering \/ Unlit
  BY <1>1, AfterSaving
<1>3. CASE Ahead \/ Restoring
  <2>1. \E k, v : /\ \/ pending = SaveAndApply(k, v)
                     \/ pending = SaveApplyShow(k, v)
                     \/ pending = <<Step("reset", k, v), Step("apply", k, v), Step("show", k, v)>>
                           /\ v = Default[k]
                  /\ k # "night-light-temp"
    BY <1>3 DEF Ahead, Restoring
  <2>2. PICK k, v :
           /\ \/ pending = SaveAndApply(k, v) \/ pending = SaveApplyShow(k, v)
              \/ pending = <<Step("reset", k, v), Step("apply", k, v), Step("show", k, v)>>
                    /\ v = Default[k]
           /\ k # "night-light-temp"
    BY <2>1
  <2>3. /\ Next1 \in {Step("set", k, v), Step("reset", k, v)}
        /\ Next1 = Step("reset", k, v) => v = Default[k]
        /\ \/ pending' = <<Step("apply", k, v)>>
           \/ pending' = <<Step("apply", k, v), Step("show", k, v)>>
    <3>1. CASE pending = SaveAndApply(k, v)
      BY <1>1, <1>2, <3>1, Queues, StepOps DEF SaveAndApply
    <3>2. CASE pending = SaveApplyShow(k, v)
      BY <1>1, <1>2, <3>2, Queues, StepOps DEF SaveApplyShow
    <3>3. CASE pending = <<Step("reset", k, v), Step("apply", k, v), Step("show", k, v)>>
                  /\ v = Default[k]
      BY <1>1, <1>2, <3>3, Queues
    <3> QED BY <2>2, <3>1, <3>2, <3>3
  <2>4. Next1.key = k /\ Get(Changed, k) = v
    BY <1>2, <2>3 DEF Step
  <2>5. Course'
    BY <1>1, <1>2, <2>3, <2>4 DEF Course, Applying
  <2>6. Due(k)'
    <3>1. /\ 1 \in DOMAIN pending' /\ pending'[1].op = "apply"
          /\ pending'[1].key = k /\ pending'[1].val = v
      BY <2>3, RestApplies
    <3> QED BY <1>1, <2>4, <3>1 DEF Due
  <2>7. \A j : Due(j) => j = k
    <3>1. \A i \in DOMAIN pending : pending[i].key = k
      <4>1. CASE pending = SaveAndApply(k, v)
        BY <4>1 DEF Step, SaveAndApply
      <4>2. CASE pending = SaveApplyShow(k, v)
        BY <4>2 DEF Step, SaveApplyShow
      <4>3. CASE pending = <<Step("reset", k, v), Step("apply", k, v), Step("show", k, v)>>
        BY <4>3 DEF Step
      <4> QED BY <2>2, <4>1, <4>2, <4>3
    <3> QED BY <3>1 DEF Due
  <2> QED BY <2>2, <2>4, <2>5, <2>6, <2>7
<1>4. CASE Switching
  <2> DEFINE n == "night-light"
             t == "night-light-temp"
  <2>1. PICK v, x : pending = <<Step("set", n, v), Step("set", t, x), Step("apply", n, v)>>
    BY <1>4 DEF Switching
  <2>2. Next1 = Step("set", n, v) /\ pending' = <<Step("set", t, x), Step("apply", n, v)>>
    BY <1>1, <1>2, <2>1, Queues
  <2>3. Next1.key = n /\ Get(Changed, n) = v
    BY <1>2, <2>2 DEF Step
  <2>4. Course'
    BY <1>1, <2>2, <2>3 DEF Course, Tempering
  <2>5. Due(n)'
    <3>1. 2 \in DOMAIN pending' /\ pending'[2] = Step("apply", n, v)
      BY <2>2
    <3>2. pending'[2].op = "apply" /\ pending'[2].key = n /\ pending'[2].val = v
      BY <3>1 DEF Step
    <3> QED BY <1>1, <2>3, <3>1, <3>2 DEF Due
  <2>6. \A j : Due(j) => j = n
    BY <2>1 DEF Due, Step
  <2> QED BY <2>3, <2>4, <2>5, <2>6
<1>5. CASE Tempering
  <2> DEFINE n == "night-light"
             t == "night-light-temp"
  <2>1. PICK v, x : /\ pending = <<Step("set", t, x), Step("apply", n, v)>>
                    /\ Get(user, n) = v
    BY <1>5 DEF Tempering
  <2>2. Next1 = Step("set", t, x) /\ pending' = <<Step("apply", n, v)>>
    BY <1>1, <1>2, <2>1, Queues
  <2>3. Next1.key = t /\ Get(Changed, n) = v /\ n \in DOMAIN Control
    BY <1>2, <2>1, <2>2, AppAssumption DEF Step
  <2>4. Course'
    BY <1>1, <2>2, <2>3 DEF Course, Applying
  <2>5. Due(n)'
    <3>1. /\ 1 \in DOMAIN pending' /\ pending'[1].op = "apply"
          /\ pending'[1].key = n /\ pending'[1].val = v
      BY <2>2, RestApplies
    <3> QED BY <1>1, <2>3, <3>1 DEF Due
  <2>6. \A j : Due(j) => j = n
    BY <2>1 DEF Due, Step
  <2> QED BY <2>3, <2>4, <2>5, <2>6
<1>6. CASE Unlit
  <2>1. PICK x : pending = <<Step("set", "night-light-temp", x)>>
    BY <1>6 DEF Unlit
  <2>2. Next1 = Step("set", "night-light-temp", x) /\ pending' = <<>>
    BY <1>1, <1>2, <2>1, Queues
  <2> QED BY <1>6, <2>2, NothingDue DEF Course, Unlit, Step
<1> QED BY <1>2, <1>3, <1>4, <1>5, <1>6

LEMMA LiveSaves ==
    ASSUME AppInv, LiveInv, Saves
    PROVE  LiveInv'
<1>1. /\ Saving /\ user' = Changed /\ file' = Changed
      /\ UNCHANGED <<open, targets, seen, stale, loose>>
      /\ raced' = (raced \/ TakenBack)
  BY DEF Saves
<1>2. Told'
  BY <1>1, AfterSaving DEF LiveInv, Told
<1>3. ASSUME ~raced'
      PROVE  SlotInv' /\ MonitorInv' /\ TempInv' /\ ProgramInv'
  <2>0. /\ \A k : k = Next1.key /\ k # "night-light-temp" => Due(k)'
        /\ Next1.key = "night-light-temp" =>
              Due("night-light")' \/ Get(user, "night-light") # On
        /\ \A k : Due(k) => Due(k)'
    BY SavedIsDue
  <2>1. SlotInv /\ MonitorInv /\ TempInv /\ ProgramInv
    BY <1>1, <1>3 DEF LiveInv, ShownInv
  <2>2. \A j \in Keys \ {Next1.key} : Same(j)' => Same(j)
    BY <1>1, <1>3, AfterSaving DEF TakenBack, Same
  <2>3. \A s : Right(s)' <=> Right(s)
    BY <1>1 DEF Right
  <2>4. SlotInv'
    <3> SUFFICES ASSUME NEW s \in Slots \ (loose \cup {"monitor", "temp"}),
                        \A k \in DriversOf(s) : Same(k)'
                 PROVE  Right(s) \/ \E k \in DriversOf(s) : Due(k)'
      BY <1>1, <2>3 DEF SlotInv
    <3>1. CASE Next1.key \in DriversOf(s)
      <4>1. Next1.key # "night-light-temp"
        BY <3>1, SlotsByKey DEF DriversOf, StoredKeys
      <4> QED BY <2>0, <3>1, <4>1
    <3>2. CASE Next1.key \notin DriversOf(s)
      <4>1. \A k \in DriversOf(s) : Same(k)
        BY <2>2, <3>2 DEF DriversOf
      <4> QED BY <2>0, <2>1, <4>1 DEF SlotInv
    <3> QED BY <3>1, <3>2
  <2>5. MonitorInv'
    BY <1>1, <2>1, <2>3 DEF MonitorInv
  <2>6. ProgramInv'
    <3> SUFFICES ASSUME NEW k \in Keys \cap LaunchKeys, Same(k)'
                 PROVE  \/ targets.programs[k] = IF Get(seen, k) = On THEN 1 ELSE 0
                        \/ Due(k)'
      BY <1>1 DEF ProgramInv
    <3>1. k # "night-light-temp"
      BY DEF LaunchKeys
    <3> QED BY <2>0, <2>1, <2>2, <3>1 DEF ProgramInv
  <2>7. TempInv'
    <3> DEFINE n == "night-light"
               t == "night-light-temp"
    <3> SUFFICES ASSUME "temp" \notin loose, Same(n)'
                 PROVE  \/ targets.shows["temp"] = TempOf(Get(seen, n), Changed)
                        \/ Due(n)'
      BY <1>1 DEF TempInv
    <3>1. n \in Keys /\ t \in Keys /\ open
      BY <1>1, AppAssumption, AfterSaving
    <3>2. Same(n) => targets.shows["temp"] = TempOf(Get(seen, n), file) \/ Due(n)'
      BY <2>0, <2>1 DEF TempInv
    <3>3. CASE Next1.key = n
      BY <2>0, <3>3
    <3>4. CASE Next1.key = t
      <4>1. CASE Get(user, n) # On
        <5>1. Get(Changed, n) = Get(user, n) /\ Get(seen, n) # On
          BY <1>1, <3>1, <3>4, <4>1, AfterSaving DEF Same
        <5>2. Same(n)
          BY <2>2, <3>1, <3>4
        <5> QED BY <3>2, <5>1, <5>2 DEF TempOf
      <4> QED BY <2>0, <3>4, <4>1
    <3>5. CASE Next1.key \notin {n, t}
      <4>1. Get(Changed, t) = Get(file, t)
        BY <1>1, <2>1, <3>1, <3>5, AfterSaving DEF TempInv
      <4>2. Same(n)
        BY <2>2, <3>1, <3>5
      <4> QED BY <3>2, <4>1, <4>2 DEF TempOf
    <3> QED BY <3>3, <3>4, <3>5
  <2> QED BY <2>4, <2>5, <2>6, <2>7
<1>4. ShownInv'
  BY <1>3 DEF ShownInv
<1> QED BY <1>1, <1>2, <1>4, SavedIsDue DEF LiveInv

\* Another program's write meets nothing on its way, or is raced.
LEMMA LiveOthers ==
    ASSUME AppInv, LiveInv, NEW k \in Keys, OthersWrite(k)
    PROVE  LiveInv'
<1>1. /\ \/ \E v \in Tried[k] : file' = SetIn(file, k, v)
         \/ Has(file, k) /\ file' = ResetIn(file, k)
      /\ UNCHANGED <<open, user, pending, targets, seen, stale>>
      /\ raced' = (raced \/ pending # <<>> \/ file # seen)
      /\ loose \subseteq loose'
      /\ k = "night-light-temp" => "temp" \in loose'
  BY DEF OthersWrite, appVars
<1>2. /\ \A j \in Keys : j # k => Get(file', j) = Get(file, j)
      /\ Get(file', k) \in Tried[k] \/ Get(file', k) = Default[k]
  <2>1. IsStore(file)
    BY DEF AppInv, AppTypeOK
  <2>2. ASSUME NEW v \in Tried[k], file' = SetIn(file, k, v)
        PROVE  <1>2!1 /\ Get(file', k) = v
    BY <2>1, <2>2, GetAfterSet
  <2>3. ASSUME Has(file, k), file' = ResetIn(file, k)
        PROVE  <1>2!1 /\ Get(file', k) = Default[k]
    BY <2>1, <2>3, GetAfterReset DEF Has
  <2> QED BY <1>1, <2>2, <2>3
<1>3. Told'
  <2>1. "proxy" \in Keys /\ NotSet \notin Tried[k] /\ Default["proxy"] # NotSet
    BY FallbackAssumption, SlotAssumption
  <2>2. Get(file', "proxy") # NotSet
    BY <1>2, <2>1 DEF LiveInv, Told
  <2> QED BY <1>1, <2>2 DEF LiveInv, Told
<1>4. Course'
  <2>1. CASE pending = <<>>
    BY <1>1, <2>1 DEF Course
  <2>2. CASE pending # <<>>
    <3>1. Ahead \/ Restoring \/ Switching \/ Tempering \/ Unlit \/ Applying \/ Showing
      BY <2>2 DEF LiveInv, Course
    <3>2. CASE Applying
      <4>1. raced' /\ pending' = pending
        BY <1>1, <2>2
      <4>2. PICK j, v : /\ j \in DOMAIN Control
                        /\ \/ pending = <<Step("apply", j, v)>>
                           \/ pending = <<Step("apply", j, v), Step("show", j, v)>>
        BY <3>2 DEF Applying
      <4> QED BY <4>1, <4>2 DEF Course, Applying
    <3>3. CASE Ahead \/ Restoring \/ Showing
      BY <1>1, <3>3 DEF Course, Ahead, Restoring, Showing, SaveAndApply, SaveApplyShow
    <3>4. CASE Switching \/ Tempering \/ Unlit
      BY <1>1, <3>4 DEF Course, Switching, Tempering, Unlit
    <3> QED BY <3>1, <3>2, <3>3, <3>4
  <2> QED BY <2>1, <2>2
<1>5. ASSUME ~raced'
      PROVE  SlotInv' /\ MonitorInv' /\ TempInv' /\ ProgramInv'
  <2>1. ~raced /\ pending = <<>> /\ file = seen
    BY <1>1, <1>5
  <2>2. /\ SlotInv /\ MonitorInv /\ TempInv /\ ProgramInv
        /\ \A j : Same(j) /\ ~Due(j)
    BY <2>1, NothingDue DEF LiveInv, ShownInv, Same
  <2>3. \A s : Right(s)' <=> Right(s)
    BY <1>1 DEF Right
  <2>4. SlotInv'
    <3>1. \A s \in Slots \ (loose \cup {"monitor", "temp"}) : Right(s)
      BY <2>2 DEF SlotInv
    <3> QED BY <1>1, <2>3, <3>1 DEF SlotInv
  <2>5. MonitorInv'
    <3>1. "monitor" \in Slots \ loose => Right("monitor")
      BY <2>2 DEF MonitorInv
    <3> QED BY <1>1, <2>3, <3>1 DEF MonitorInv
  <2>6. ProgramInv'
    BY <1>1, <2>2 DEF ProgramInv
  <2>7. TempInv'
    <3> DEFINE t == "night-light-temp"
    <3>1. ASSUME "temp" \notin loose'
          PROVE  /\ open' => Get(user', t) = Get(file', t)
                 /\ targets'.shows["temp"] = TempOf(Get(seen', "night-light"), file')
      <4>0. t \in Keys /\ t # k
        BY <1>1, <3>1, AppAssumption
      <4>1. Get(file', t) = Get(file, t) /\ "temp" \notin loose
        BY <1>1, <1>2, <3>1, <4>0
      <4>2. /\ open => Get(user, t) = Get(file, t)
            /\ targets.shows["temp"] = TempOf(Get(seen, "night-light"), file)
        BY <2>2, <4>1 DEF TempInv
      <4> QED BY <1>1, <4>1, <4>2 DEF TempOf
    <3> QED BY <3>1 DEF TempInv
  <2> QED BY <2>4, <2>5, <2>6, <2>7
<1>6. ShownInv'
  BY <1>5 DEF ShownInv
<1> QED BY <1>1, <1>3, <1>4, <1>6 DEF LiveInv

\* A session that a login has just set up.
LEMMA LoginSets ==
    ASSUME NEW t, NEW u, IsSession(t), IsStore(u), NEW r, r = AtLogin(t, u)
    PROVE  /\ IsSession(r)
           /\ \A s \in Slots : r.shows[s] = AtLogin(r, u).shows[s]
           /\ r.shows["temp"] = TempOf(Get(u, "night-light"), u)
           /\ \A k \in Keys \cap LaunchKeys :
                 r.programs[k] = IF Get(u, k) = On THEN 1 ELSE 0
<1>1. IsSession(r)
  BY PassIsSession DEF AtLogin
<1>2. \A s \in Slots : r.shows[s] = AtLogin(r, u).shows[s]
  BY LoginTwice
<1>3. r.shows["temp"] = TempOf(Get(u, "night-light"), u)
  <2>1. "night-light" \in Keys /\ "temp" \in Slots /\ DriversOf("temp") = {"night-light"}
    BY AppAssumption, KnownSlots, SlotDrivers
  <2>2. Effect("night-light", Get(u, "night-light"), Flat(u)) =
           [temp |-> TempOf(Get(u, "night-light"), u)]
    BY TempEffect
  <2> QED BY <2>1, <2>2, PassOfOne DEF AtLogin
<1>4. \A k \in Keys \cap LaunchKeys :
         r.programs[k] = IF Get(u, k) = On THEN 1 ELSE 0
  <2>1. r.programs = [k \in DOMAIN t.programs |->
           IF k \notin Keys THEN t.programs[k] ELSE IF Get(u, k) = On THEN 1 ELSE 0]
    BY PassPrograms DEF AtLogin
  <2> QED BY <2>1 DEF IsSession
<1> QED BY <1>1, <1>2, <1>3, <1>4

LEMMA LiveInit == Init => LiveInv
<1> SUFFICES ASSUME Init PROVE LiveInv
  OBVIOUS
<1>1. /\ ~open /\ user = NoTables /\ pending = <<>> /\ seen = file
      /\ targets = AtLogin(Fresh(Keys), file) /\ stale = {}
      /\ file \in StartFiles
  BY DEF Init
<1>2. IsStore(file)
  BY AppInit DEF AppInv, AppTypeOK
<1>3. IsSession(Fresh(Keys))
  BY DEF IsSession, Fresh, Slots
<1>4. /\ IsSession(targets)
      /\ \A s \in Slots : targets.shows[s] = AtLogin(targets, file).shows[s]
      /\ targets.shows["temp"] = TempOf(Get(file, "night-light"), file)
      /\ \A k \in Keys \cap LaunchKeys :
            targets.programs[k] = IF Get(file, k) = On THEN 1 ELSE 0
  BY <1>1, <1>2, <1>3, LoginSets
<1>5. \A s \in Slots : Right(s)
  BY <1>1, <1>4 DEF Right
<1>6. ShownInv
  BY <1>1, <1>4, <1>5 DEF ShownInv, SlotInv, MonitorInv, TempInv, ProgramInv
<1>7. Get(NoTables, "proxy") = Default["proxy"] /\ Default["proxy"] # NotSet
  BY FallbackAssumption, SlotAssumption DEF Get, Has, NoTables
<1>8. Get(file, "proxy") # NotSet
  <2>1. CASE file = NoTables
    BY <1>7, <2>1
  <2>2. ASSUME NEW k \in Again, NEW v \in Tried[k], file = SetIn(NoTables, k, v)
        PROVE  Get(file, "proxy") # NotSet
    <3>1. k \in Keys /\ "proxy" \in Keys /\ v # NotSet
      BY AppAssumption, FallbackAssumption, SlotAssumption
    <3>2. Get(file, "proxy") = IF "proxy" = k THEN v ELSE Get(NoTables, "proxy")
      BY <2>2, <3>1, EmptyIsStore, GetAfterSet
    <3> QED BY <1>7, <3>1, <3>2
  <2> QED BY <1>1, <2>1, <2>2 DEF StartFiles
<1> QED BY <1>1, <1>4, <1>6, <1>7, <1>8 DEF LiveInv, Told, Course

LEMMA LiveLogin ==
    ASSUME AppInv, LiveInv, Login
    PROVE  LiveInv'
<1>1. /\ ~open /\ ~open' /\ pending = <<>> /\ pending' = <<>>
      /\ targets' = AtLogin(targets, file) /\ seen' = file /\ file' = file
      /\ UNCHANGED <<user, stale>>
  BY DEF Login, appVars, AppInv, AppTypeOK
<1>2. /\ IsSession(targets')
      /\ \A s \in Slots : targets'.shows[s] = AtLogin(targets', seen').shows[s]
      /\ targets'.shows["temp"] = TempOf(Get(seen', "night-light"), file')
      /\ \A k \in Keys \cap LaunchKeys :
            targets'.programs[k] = IF Get(seen', k) = On THEN 1 ELSE 0
  BY <1>1, LoginSets DEF AppInv, AppTypeOK, LiveInv
<1>3. \A s \in Slots : Right(s)'
  BY <1>2 DEF Right
<1>4. SlotInv' /\ MonitorInv'
  BY <1>3 DEF SlotInv, MonitorInv
<1>5. TempInv'
  BY <1>1, <1>2 DEF TempInv
<1>6. ProgramInv'
  BY <1>2 DEF ProgramInv
<1> QED BY <1>1, <1>2, <1>4, <1>5, <1>6 DEF LiveInv, ShownInv, Told, Course

\* What a call leaves of the session.
LEMMA CarrySets ==
    ASSUME NEW t, IsSession(t), NEW k \in Keys, NEW v, NEW over, NEW r,
           r = Carry(t, k, v, over)
    PROVE  /\ IsSession(r)
           /\ \A s \in Slots : r.shows[s] =
                 IF s \in DOMAIN Effect(k, v, over) THEN Effect(k, v, over)[s]
                 ELSE t.shows[s]
           /\ \A j \in Keys \cap LaunchKeys : r.programs[j] =
                 IF j # k THEN t.programs[j] ELSE IF v = On THEN 1 ELSE 0
<1> DEFINE e == Effect(k, v, over)
           shows == [s \in DOMAIN t.shows |-> IF s \in DOMAIN e THEN e[s] ELSE t.shows[s]]
           a == Apply(t, k, v, over)
           on == IF v = On THEN 1 ELSE 0
<1>1. /\ t = [shows |-> t.shows, programs |-> t.programs]
      /\ DOMAIN t.shows = Slots /\ t.programs \in [Keys \cap LaunchKeys -> {0, 1}]
  BY DEF IsSession
<1>2. a = [shows |-> shows, programs |-> t.programs]
  BY <1>1 DEF Apply
<1>3. DOMAIN shows = Slots
  BY <1>1
<1>4. r = [shows |-> shows, programs |->
              IF k \in LaunchKeys THEN [t.programs EXCEPT ![k] = on] ELSE t.programs]
  <2>1. CASE k \notin LaunchKeys
    BY <1>2, <2>1 DEF Carry
  <2>2. CASE k \in LaunchKeys
    <3>1. Stopped(a, k) = [shows |-> shows, programs |-> [t.programs EXCEPT ![k] = 0]]
      BY <1>2 DEF Stopped
    <3>2. Launched(Stopped(a, k), k) =
             [shows |-> shows, programs |-> [t.programs EXCEPT ![k] = 1]]
      <4>1. k \in DOMAIN t.programs
        BY <1>1, <2>2
      <4> HIDE DEF shows
      <4>2. [t.programs EXCEPT ![k] = 0][k] + 1 = 1
        BY <4>1
      <4>3. Launched(Stopped(a, k), k) = [shows |-> shows, programs |->
               [[t.programs EXCEPT ![k] = 0] EXCEPT ![k] = @ + 1]]
        BY <3>1 DEF Launched
      <4>4. [[t.programs EXCEPT ![k] = 0] EXCEPT ![k] = @ + 1] = [t.programs EXCEPT ![k] = 1]
        BY <4>1, <4>2
      <4> QED BY <4>3, <4>4
    <3> QED BY <2>2, <3>1, <3>2 DEF Carry
  <2> QED BY <2>1, <2>2
<1>5. r.shows = shows /\ r.programs = IF k \in LaunchKeys
         THEN [t.programs EXCEPT ![k] = on] ELSE t.programs
  BY <1>4
<1>6. r.programs \in [Keys \cap LaunchKeys -> {0, 1}]
  BY <1>1, <1>5
<1>7. \A j \in Keys \cap LaunchKeys : r.programs[j] =
         IF j # k THEN t.programs[j] ELSE on
  BY <1>1, <1>5
<1> QED BY <1>1, <1>3, <1>4, <1>5, <1>6, <1>7 DEF IsSession

\* Only the theme and the contrast take a slot off the loose ones.
LEMMA StaysLoose ==
    ASSUME NEW ks, NEW u
    PROVE  /\ loose \ {"gtk"} \subseteq LooseAfter(ks, u)
           /\ GtkKeys \cap ks = {} => loose \subseteq LooseAfter(ks, u)
           /\ MonitorKeys \cap ks # {} => "monitor" \in LooseAfter(ks, u)
           /\ "high-contrast" \notin ks /\ "theme" \in ks
                 /\ Get(u, "high-contrast") = On => "gtk" \in LooseAfter(ks, u)
BY DEF LooseAfter

\* What a call with the file's own value for k sets is what a login sets.
LEMMA CallIsLogin ==
    ASSUME IsStore(file), IsStore(seen), NEW t, IsSession(t), NEW k \in Keys,
           NEW over \in {Flat(file), Merged(file)},
           NEW s \in Slots \ {"monitor", "temp"}, k \in DriversOf(s),
           \A j \in DriversOf(s) : Same(j),
           s \notin LooseAfter({k}, file),
           Get(file, "proxy") # NotSet, Get(seen, "proxy") # NotSet,
           s \in DOMAIN Effect(k, Get(file, k), over) =>
              t.shows[s] = Effect(k, Get(file, k), over)[s]
    PROVE  t.shows[s] = AtLogin(t, seen).shows[s]
<1>1. CASE s = "gtk"
  <2>1. DriversOf(s) = GtkKeys /\ "high-contrast" \in Keys
    BY <1>1, SlotDrivers, FallbackAssumption
  <2>2. GtkOf(file) = GtkOf(seen)
    BY <2>1 DEF GtkOf, GtkKeys, Same
  <2>3. AtLogin(t, seen).shows["gtk"] = GtkOf(seen)
    BY <2>1, PassOfGtk DEF AtLogin
  <2>4. CASE k = "high-contrast"
    <3>1. Effect(k, Get(file, k), over) = [gtk |-> GtkOf(file)]
      BY <2>4, GtkEffect
    <3> QED BY <1>1, <2>2, <2>3, <3>1
  <2>5. CASE k = "theme"
    <3>1. Get(file, "high-contrast") # On
      BY <1>1, <2>5, StaysLoose
    <3>2. s \in DOMAIN Effect(k, Get(file, k), over)
      BY <1>1, <2>5, GtkEffect
    <3>3. Effect(k, Get(file, k), over)[s] = GtkOf(file)
      BY <1>1, <2>5, <3>1, GtkEffect DEF GtkOf
    <3> QED BY <1>1, <2>2, <2>3, <3>2, <3>3
  <2> QED BY <2>1, <2>4, <2>5 DEF GtkKeys
<1>2. CASE s = "proxy"
  <2>1. DriversOf(s) = ProxyKeys /\ ProxyKeys \cap Keys # {}
    BY <1>2, SlotDrivers, FallbackAssumption DEF ProxyKeys
  <2>2. ProxyOf(file) = ProxyOf(seen)
    BY <2>1 DEF ProxyOf, ProxyKeys, Same
  <2>3. AtLogin(t, seen).shows["proxy"] = ProxyOf(seen)
    BY <2>1, PassOfProxy DEF AtLogin
  <2>4. Effect(k, Get(file, k), over) = [proxy |-> ProxyOf(file)]
    BY <2>1, ProxySlot
  <2> QED BY <1>2, <2>2, <2>3, <2>4
<1>3. CASE s \notin {"gtk", "proxy"}
  <2>1. DriversOf(s) = {k}
    BY <1>3, SlotDrivers DEF Shared
  <2>2. k \notin ProxyKeys \cup {"high-contrast", "night-light"}
    <3>1. s \in SlotsOf(k)
      BY DEF DriversOf
    <3> QED BY <1>3, <3>1, SlotsByKey
  <2>3. /\ Get(file, k) = Get(seen, k)
        /\ Effect(k, Get(file, k), over) = Effect(k, Get(seen, k), Flat(seen))
    BY <2>2, EffectAlone DEF Same
  <2>4. AtLogin(t, seen).shows[s] =
           IF s \in DOMAIN Effect(k, Get(seen, k), Flat(seen))
           THEN Effect(k, Get(seen, k), Flat(seen))[s] ELSE t.shows[s]
    BY <2>1, PassOfOne DEF AtLogin
  <2> QED BY <2>3, <2>4
<1> QED BY <1>1, <1>2, <1>3

LEMMA LiveApplies ==
    ASSUME AppInv, LiveInv, Applies
    PROVE  LiveInv'
<1>1. /\ open /\ pending # <<>> /\ Next1 = Head(pending) /\ Next1.op = "apply"
      /\ UNCHANGED <<open, user, file, seen, stale, raced>>
      /\ pending' = Tail(pending)
      /\ targets' = Carry(targets, Next1.key, Next1.val,
            IF Next1.key \in GtkKeys THEN Flat(file) ELSE Merged(user))
      /\ loose' = IF Next1.key = "night-light" THEN loose \ {"temp"}
                  ELSE LooseAfter({Next1.key}, file)
  BY DEF Applies, Does, Next1, AppInv, AppTypeOK
<1>2. Applying
  BY <1>1, Steps DEF LiveInv, Course
<1>3. PICK k, v :
         /\ k \in DOMAIN Control
         /\ \/ pending = <<Step("apply", k, v)>>
            \/ pending = <<Step("apply", k, v), Step("show", k, v)>>
         /\ \/ raced
            \/ user = file /\ v = Get(file, k)
            \/ k = "wallpaper" /\ k \in loose
  BY <1>2 DEF Applying
<1>4. /\ Next1 = Step("apply", k, v)
      /\ pending' = <<>> \/ pending' = <<Step("show", k, v)>>
  <2>1. CASE pending = <<Step("apply", k, v)>>
    BY <1>1, <2>1, Queues
  <2>2. CASE pending = <<Step("apply", k, v), Step("show", k, v)>>
    BY <1>1, <2>2, Queues
  <2> QED BY <1>3, <2>1, <2>2
<1>5. Next1.key = k /\ Next1.val = v
  BY <1>4, StepOps
<1>6. k \in Keys
  BY <1>3, AppAssumption
<1> DEFINE over == IF k \in GtkKeys THEN Flat(file) ELSE Merged(user)
           e == Effect(k, v, over)
<1>7. /\ targets' = Carry(targets, k, v, over)
      /\ k = "night-light" => loose' = loose \ {"temp"}
      /\ k # "night-light" => loose' = LooseAfter({k}, file)
  BY <1>1, <1>5
<1>8. /\ IsSession(targets) /\ IsStore(file) /\ IsStore(seen)
      /\ Get(file, "proxy") # NotSet /\ Get(seen, "proxy") # NotSet
  BY DEF AppInv, AppTypeOK, LiveInv, Told
<1> HIDE DEF over
<1>9. /\ IsSession(targets')
      /\ \A s \in Slots : targets'.shows[s] =
            IF s \in DOMAIN e THEN e[s] ELSE targets.shows[s]
      /\ \A j \in Keys \cap LaunchKeys : targets'.programs[j] =
            IF j # k THEN targets.programs[j] ELSE IF v = On THEN 1 ELSE 0
  BY <1>6, <1>7, <1>8, CarrySets
<1>10. \A s : s \notin SlotsOf(k) => s \notin DOMAIN e
  BY EffectSlots
<1>11. Course'
  BY <1>4 DEF Course, Showing
<1>12. \A j : Due(j) => j = k /\ v = Get(file, k) /\ user = file
  BY <1>3, DueOfOne
<1>13. ASSUME ~raced'
       PROVE  SlotInv' /\ MonitorInv' /\ TempInv' /\ ProgramInv'
  <2>1. /\ SlotInv /\ MonitorInv /\ TempInv /\ ProgramInv
        /\ \/ user = file /\ v = Get(file, k)
           \/ k = "wallpaper" /\ k \in loose
    BY <1>1, <1>3, <1>13 DEF LiveInv, ShownInv
  <2>2. user = file => over \in {Flat(file), Merged(file)}
    BY DEF over
  <2>3. /\ loose \ {"gtk", "temp"} \subseteq loose'
        /\ k # "night-light" => loose \ {"gtk"} \subseteq loose'
        /\ k \notin GtkKeys => loose \ {"temp"} \subseteq loose'
        /\ k \in MonitorKeys => "monitor" \in loose'
    BY <1>7, StaysLoose DEF MonitorKeys
  <2>4. \A j : Same(j)' <=> Same(j)
    BY <1>1 DEF Same
  <2>5. ASSUME NEW s \in Slots, s \notin SlotsOf(k), Right(s)
        PROVE  targets'.shows[s] = AtLogin(targets', seen').shows[s]
    <3>1. targets'.shows[s] = targets.shows[s]
      BY <1>9, <1>10, <2>5
    <3>2. AtLogin(targets', seen).shows[s] = AtLogin(targets, seen).shows[s]
      BY <1>8, <1>9, <3>1, LoginFrom
    <3> QED BY <1>1, <2>5, <3>1, <3>2 DEF Right
  <2>6. SlotInv'
    <3> SUFFICES ASSUME NEW s \in Slots \ (loose' \cup {"monitor", "temp"}),
                        \A j \in DriversOf(s) : Same(j)
                 PROVE  targets'.shows[s] = AtLogin(targets', seen').shows[s]
      BY <2>4 DEF SlotInv, Right
    <3>1. CASE k \notin DriversOf(s)
      <4>1. s \notin SlotsOf(k)
        BY <1>6, <3>1 DEF DriversOf
      <4>2. s \notin loose
        <5>1. CASE s = "gtk"
          BY <2>3, <3>1, <5>1, SlotDrivers
        <5>2. CASE s # "gtk"
          BY <2>3, <5>2
        <5> QED BY <5>1, <5>2
      <4>3. Right(s)
        BY <1>12, <2>1, <3>1, <4>2 DEF SlotInv
      <4> QED BY <2>5, <4>1, <4>3
    <3>2. CASE k \in DriversOf(s)
      <4>1. s \in SlotsOf(k)
        BY <3>2 DEF DriversOf
      <4>2. k # "night-light"
        BY <4>1, SlotsByKey
      <4>3. k # "wallpaper" \/ k \notin loose
        <5>1. ASSUME k = "wallpaper" PROVE s = "wallpaper"
          BY <4>1, <5>1, SlotsByKey DEF MonitorKeys, ProxyKeys, StoredKeys
        <5> QED BY <2>3, <5>1
      <4>4. user = file /\ v = Get(file, k)
        BY <2>1, <4>3
      <4>5. s \notin LooseAfter({k}, file)
        BY <1>7, <4>2
      <4>6. s \in DOMAIN Effect(k, Get(file, k), over) =>
               targets'.shows[s] = Effect(k, Get(file, k), over)[s]
        BY <1>9, <4>4
      <4>7. targets'.shows[s] = AtLogin(targets', seen).shows[s]
        BY <1>6, <1>8, <1>9, <2>2, <3>2, <4>4, <4>5, <4>6, CallIsLogin
      <4> QED BY <1>1, <4>7
    <3> QED BY <3>1, <3>2
  <2>7. MonitorInv'
    <3> SUFFICES ASSUME "monitor" \in Slots \ loose'
                 PROVE  targets'.shows["monitor"] = AtLogin(targets', seen').shows["monitor"]
      BY DEF MonitorInv, Right
    <3>1. "monitor" \notin loose /\ k \notin MonitorKeys
      BY <2>3
    <3>2. "monitor" \notin SlotsOf(k)
      <4>1. k \in Keys \cap MonitorKeys <=> "monitor" \in SlotsOf(k)
        BY <1>6, SlotDrivers DEF DriversOf
      <4> QED BY <3>1, <4>1
    <3> QED BY <2>1, <2>5, <3>1, <3>2 DEF MonitorInv
  <2>8. TempInv'
    <3> DEFINE n == "night-light"
    <3>1. CASE k = n
      <4>1. user = file /\ v = Get(file, n) /\ "temp" \in Slots
        BY <2>1, <3>1, KnownSlots
      <4>2. e = [temp |-> TempOf(Get(file, n), file)]
        BY <1>8, <2>2, <3>1, <4>1, TempEffect
      <4>3. targets'.shows["temp"] = TempOf(Get(file, n), file)
        BY <1>9, <4>1, <4>2
      <4>4. Same(n) => targets'.shows["temp"] = TempOf(Get(seen', n), file')
        BY <1>1, <4>3 DEF Same
      <4> QED BY <1>1, <2>4, <4>1, <4>4 DEF TempInv
    <3>2. CASE k # n
      <4>1. "temp" \notin SlotsOf(k) /\ "temp" \in Slots
        BY <1>6, <3>2, SlotDrivers, KnownSlots DEF DriversOf
      <4>2. targets'.shows["temp"] = targets.shows["temp"]
        BY <1>9, <1>10, <4>1
      <4>3. ~Due(n)
        BY <1>12, <3>2
      <4>4. "temp" \notin loose' =>
               /\ open => Get(user, "night-light-temp") = Get(file, "night-light-temp")
               /\ Same(n) => targets'.shows["temp"] = TempOf(Get(seen, n), file)
        BY <2>1, <2>3, <3>2, <4>2, <4>3 DEF TempInv
      <4> QED BY <1>1, <2>4, <4>4 DEF TempInv
    <3> QED BY <3>1, <3>2
  <2>9. ProgramInv'
    <3> SUFFICES ASSUME NEW j \in Keys \cap LaunchKeys, Same(j)
                 PROVE  targets'.programs[j] = IF Get(seen', j) = On THEN 1 ELSE 0
      BY <2>4 DEF ProgramInv
    <3>1. CASE j = k
      <4>1. v = Get(file, j)
        BY <2>1, <3>1 DEF LaunchKeys
      <4> QED BY <1>1, <1>9, <3>1, <4>1 DEF Same
    <3>2. CASE j # k
      BY <1>1, <1>9, <1>12, <2>1, <3>2 DEF ProgramInv
    <3> QED BY <3>1, <3>2
  <2> QED BY <2>6, <2>7, <2>8, <2>9
<1>14. ShownInv'
  BY <1>13 DEF ShownInv
<1> QED BY <1>1, <1>8, <1>9, <1>11, <1>14 DEF LiveInv, Told

LEMMA LivePass ==
    ASSUME AppInv, LiveInv, DaemonPass
    PROVE  LiveInv'
<1> DEFINE changed == {k \in Keys : ~Same(k)}
<1>1. /\ targets' = Pass(targets, changed, file)
      /\ loose' = LooseAfter(changed, file)
      /\ seen' = file
      /\ UNCHANGED <<open, user, pending, file, stale, raced>>
  BY DEF DaemonPass, Same, appVars
<1>2. /\ IsSession(targets) /\ IsStore(file) /\ IsStore(seen)
      /\ Get(file, "proxy") # NotSet /\ Get(seen, "proxy") # NotSet
  BY DEF AppInv, AppTypeOK, LiveInv, Told
<1>3. IsSession(targets')
  BY <1>1, <1>2, PassIsSession
<1>4. \A k \in Keys : k \notin changed => Get(file, k) = Get(seen, k)
  BY DEF Same
<1> HIDE DEF changed
<1>5. Course'
  <2>1. "wallpaper" \in loose => "wallpaper" \in loose'
    BY <1>1, StaysLoose
  <2>2. CASE Applying
    <3>1. PICK k, v :
             /\ k \in DOMAIN Control
             /\ \/ pending = <<Step("apply", k, v)>>
                \/ pending = <<Step("apply", k, v), Step("show", k, v)>>
             /\ \/ raced
                \/ user = file /\ v = Get(file, k)
                \/ k = "wallpaper" /\ k \in loose
      BY <2>2 DEF Applying
    <3>2. \/ raced'
          \/ user' = file' /\ v = Get(file', k)
          \/ k = "wallpaper" /\ k \in loose'
      BY <1>1, <2>1, <3>1
    <3> QED BY <1>1, <3>1, <3>2 DEF Course, Applying
  <2>3. CASE pending = <<>> \/ Ahead \/ Restoring \/ Showing
    BY <1>1, <2>3 DEF Course, Ahead, Restoring, Showing, SaveAndApply, SaveApplyShow
  <2>4. CASE Switching \/ Tempering \/ Unlit
    BY <1>1, <2>4 DEF Course, Switching, Tempering, Unlit
  <2> QED BY <2>2, <2>3, <2>4 DEF LiveInv, Course
<1>6. \A k : Due(k)' <=> Due(k)
  BY <1>1 DEF Due
<1>7. ASSUME ~raced'
      PROVE  SlotInv' /\ MonitorInv' /\ TempInv' /\ ProgramInv'
  <2>1. SlotInv /\ MonitorInv /\ TempInv /\ ProgramInv
    BY <1>1, <1>7 DEF LiveInv, ShownInv
  <2>2. ASSUME NEW s \in Slots \ {"temp"}, DriversOf(s) \cap changed = {}, Right(s)
        PROVE  targets'.shows[s] = AtLogin(targets', seen').shows[s]
    <3>1. targets'.shows[s] = targets.shows[s]
      BY <1>1, <1>2, <2>2, PassLeaves
    <3>2. AtLogin(targets', file).shows[s] = AtLogin(targets, file).shows[s]
      BY <1>2, <1>3, <3>1, LoginFrom
    <3>3. \A k \in DriversOf(s) : Get(seen, k) = Get(file, k)
      BY <1>4, <2>2 DEF DriversOf
    <3>4. AtLogin(targets, seen).shows[s] = AtLogin(targets, file).shows[s]
      BY <1>2, <3>3, LoginSame
    <3> QED BY <1>1, <2>2, <3>1, <3>2, <3>4 DEF Right
  <2>3. SlotInv'
    <3> SUFFICES ASSUME NEW s \in Slots \ (loose' \cup {"monitor", "temp"}),
                        \A k \in DriversOf(s) : ~Due(k)
                 PROVE  targets'.shows[s] = AtLogin(targets', seen').shows[s]
      BY <1>6 DEF SlotInv, Right
    <3>1. CASE DriversOf(s) \cap changed = {}
      <4>1. s \notin loose
        <5>1. CASE s = "gtk"
          BY <1>1, <3>1, <5>1, SlotDrivers, StaysLoose
        <5>2. CASE s # "gtk"
          BY <1>1, <5>2, StaysLoose
        <5> QED BY <5>1, <5>2
      <4>2. \A k \in DriversOf(s) : Same(k)
        BY <1>4, <3>1 DEF DriversOf, Same
      <4> QED BY <2>1, <2>2, <3>1, <4>1, <4>2 DEF SlotInv
    <3>2. CASE DriversOf(s) \cap changed # {}
      <4>1. CASE s = "gtk"
        <5>1. DriversOf(s) = GtkKeys /\ "high-contrast" \in Keys
          BY <4>1, SlotDrivers, FallbackAssumption
        <5>2. AtLogin(targets', file).shows["gtk"] = GtkOf(file)
          BY <1>2, <1>3, <5>1, PassOfGtk DEF AtLogin
        <5>3. targets'.shows["gtk"] = GtkOf(file)
          <6>1. CASE "high-contrast" \in changed
            BY <1>1, <1>2, <6>1, PassOfGtk
          <6>2. CASE "high-contrast" \notin changed
            <7>1. "theme" \in changed
              BY <3>2, <5>1, <6>2 DEF GtkKeys
            <7>2. Get(file, "high-contrast") # On
              BY <1>1, <4>1, <6>2, <7>1, StaysLoose
            <7>3. targets'.shows["gtk"] = GtkTheme(Get(file, "theme"))
              BY <1>1, <1>2, <6>2, <7>1, PassOfGtk
            <7> QED BY <7>2, <7>3 DEF GtkOf
          <6> QED BY <6>1, <6>2
        <5> QED BY <1>1, <4>1, <5>2, <5>3
      <4>2. CASE s = "proxy"
        <5>1. DriversOf(s) = ProxyKeys /\ Keys \cap ProxyKeys # {}
          BY <4>2, SlotDrivers, FallbackAssumption DEF ProxyKeys
        <5>2. targets'.shows["proxy"] = ProxyOf(file)
          BY <1>1, <1>2, <3>2, <5>1, PassOfProxy
        <5>3. AtLogin(targets', file).shows["proxy"] = ProxyOf(file)
          BY <1>2, <1>3, <5>1, PassOfProxy DEF AtLogin
        <5> QED BY <1>1, <4>2, <5>2, <5>3
      <4>3. CASE s \notin {"gtk", "proxy"}
        <5>1. PICK k \in Keys : DriversOf(s) = {k}
          BY <4>3, SlotDrivers DEF Shared
        <5> DEFINE e == Effect(k, Get(file, k), Flat(file))
        <5>2. k \in changed
          BY <3>2, <5>1
        <5>3. targets'.shows[s] = IF s \in DOMAIN e THEN e[s] ELSE targets.shows[s]
          BY <1>1, <1>2, <5>1, <5>2, PassOfOne
        <5>4. AtLogin(targets', file).shows[s] =
                 IF s \in DOMAIN e THEN e[s] ELSE targets'.shows[s]
          BY <1>3, <5>1, PassOfOne DEF AtLogin
        <5> HIDE DEF e
        <5> QED BY <1>1, <5>3, <5>4
      <4> QED BY <4>1, <4>2, <4>3
    <3> QED BY <3>1, <3>2
  <2>4. MonitorInv'
    <3> SUFFICES ASSUME "monitor" \in Slots \ loose'
                 PROVE  targets'.shows["monitor"] = AtLogin(targets', seen').shows["monitor"]
      BY DEF MonitorInv, Right
    <3>1. "monitor" \notin loose /\ MonitorKeys \cap changed = {}
      BY <1>1, StaysLoose
    <3>2. DriversOf("monitor") \cap changed = {}
      BY <3>1, SlotDrivers
    <3> QED BY <2>1, <2>2, <3>1, <3>2 DEF MonitorInv
  <2>5. TempInv'
    <3> DEFINE n == "night-light"
    <3> SUFFICES ASSUME "temp" \notin loose'
                 PROVE  /\ open => Get(user, "night-light-temp") = Get(file, "night-light-temp")
                        /\ \/ targets'.shows["temp"] = TempOf(Get(file, n), file)
                           \/ Due(n)
      BY <1>1, <1>6 DEF TempInv
    <3>1. /\ "temp" \notin loose /\ "temp" \in Slots /\ n \in Keys
          /\ DriversOf("temp") = {n}
      BY <1>1, StaysLoose, KnownSlots, AppAssumption, SlotDrivers
    <3>2. CASE n \in changed
      <4>1. Effect(n, Get(file, n), Flat(file)) = [temp |-> TempOf(Get(file, n), file)]
        BY <1>2, TempEffect
      <4>2. targets'.shows["temp"] = TempOf(Get(file, n), file)
        BY <1>1, <1>2, <3>1, <3>2, <4>1, PassOfOne
      <4> QED BY <2>1, <3>1, <4>2 DEF TempInv
    <3>3. CASE n \notin changed
      <4>1. targets'.shows["temp"] = targets.shows["temp"]
        BY <1>1, <1>2, <3>1, <3>3, PassLeaves
      <4>2. Get(file, n) = Get(seen, n)
        BY <1>4, <3>1, <3>3
      <4> QED BY <2>1, <3>1, <4>1, <4>2 DEF TempInv, Same
    <3> QED BY <3>2, <3>3
  <2>6. ProgramInv'
    <3> SUFFICES ASSUME NEW k \in Keys \cap LaunchKeys, ~Due(k)
                 PROVE  targets'.programs[k] = IF Get(file, k) = On THEN 1 ELSE 0
      BY <1>1, <1>6 DEF ProgramInv
    <3>1. targets'.programs[k] =
             IF k \notin changed THEN targets.programs[k]
             ELSE IF Get(file, k) = On THEN 1 ELSE 0
      <4>1. targets'.programs = [j \in DOMAIN targets.programs |->
               IF j \notin changed THEN targets.programs[j]
               ELSE IF Get(file, j) = On THEN 1 ELSE 0]
        BY <1>1, PassPrograms
      <4> QED BY <1>2, <4>1 DEF IsSession
    <3> QED BY <1>4, <2>1, <3>1 DEF ProgramInv, Same
  <2> QED BY <2>3, <2>4, <2>5, <2>6
<1>8. ShownInv'
  BY <1>7 DEF ShownInv
<1> QED BY <1>1, <1>2, <1>3, <1>5, <1>8 DEF LiveInv, Told

LEMMA LiveStep == AppInv /\ TellInv /\ LiveInv /\ [Next]_vars => LiveInv'
<1> SUFFICES ASSUME AppInv, TellInv, LiveInv, [Next]_vars PROVE LiveInv'
  OBVIOUS
<1>1. CASE AppOpen \/ AppEnds
  BY <1>1, LiveOpens, LiveEnds
<1>2. CASE \E k \in DOMAIN Control : \E v \in Tried[k] : Moved(k, v)
  BY <1>2, LiveMoves
<1>3. CASE WallpaperReset \/ Saves \/ SaveFails
  BY <1>3, LiveRestores, LiveSaves, LiveFails
<1>4. CASE NothingToReset \/ Applies \/ Shows
  BY <1>4, LiveResets, LiveApplies, LiveShows
<1>5. CASE DaemonPass \/ Login
  BY <1>5, LivePass, LiveLogin
<1>6. CASE \E k \in Keys : OthersWrite(k)
  BY <1>6, LiveOthers
<1>7. CASE UNCHANGED vars
  <2>1. UNCHANGED <<open, user, pending, file, targets, seen, stale, loose, raced>>
    BY <1>7 DEF vars, appVars, auxVars
  <2>2. Course'
    <3>1. CASE pending = <<>> \/ Ahead \/ Restoring \/ Showing
      BY <2>1, <3>1 DEF Course, Ahead, Restoring, Showing, SaveAndApply, SaveApplyShow
    <3>2. CASE Switching \/ Tempering \/ Unlit
      BY <2>1, <3>2 DEF Course, Switching, Tempering, Unlit
    <3>3. CASE Applying
      BY <2>1, <3>3 DEF Course, Applying
    <3> QED BY <3>1, <3>2, <3>3 DEF LiveInv, Course
  <2>3. ~raced /\ open /\ "temp" \notin loose =>
           Get(user, "night-light-temp") = Get(file, "night-light-temp")
    BY DEF LiveInv, ShownInv, TempInv
  <2>4. \A k : Due(k) => Due(k)'
    BY <2>1 DEF Due
  <2>5. ShownInv'
    BY <2>1, <2>3, <2>4, ShownStill DEF LiveInv
  <2> QED BY <2>1, <2>2, <2>5 DEF LiveInv, Told
<1> QED BY <1>1, <1>2, <1>3, <1>4, <1>5, <1>6, <1>7 DEF Next

\* What takes effect while the user moves the controls is what a login brings
\* back, for every set of keys, order, control and value.
THEOREM LiveIsLoginHolds == Spec => []LiveIsLogin
<1>1. AppInv /\ LiveInv => LiveIsLogin
  BY ShownNow
<1> QED BY <1>1, AppInit, AppStep, TellInit, TellStep, LiveInit, LiveStep, PTL DEF Spec

\* The pass of a login comes to the high contrast after the theme.
THEOREM ContrastComesLast == Spec => ContrastAtLogin
<1>1. AppInv /\ LiveInv /\ [Next]_vars =>
         [Login /\ Get(file, "high-contrast") = On
             => targets'.shows["gtk"] = "HighContrast"]_vars
  <2> SUFFICES ASSUME AppInv, LiveInv, Login, Get(file, "high-contrast") = On
               PROVE  targets'.shows["gtk"] = "HighContrast"
    OBVIOUS
  <2>1. IsSession(targets) /\ IsStore(file) /\ targets' = Pass(targets, Keys, file)
    BY DEF LiveInv, AppInv, AppTypeOK, Login, AtLogin
  <2>2. "high-contrast" \in Keys
    BY FallbackAssumption
  <2>3. targets'.shows["gtk"] = GtkOf(file)
    BY <2>1, <2>2, PassOfGtk
  <2> QED BY <2>3 DEF GtkOf
<1> QED BY <1>1, AppInit, AppStep, TellInit, TellStep, LiveInit, LiveStep, PTL
        DEF Spec, ContrastAtLogin
=============================================================================
