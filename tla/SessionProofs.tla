--------------------------- MODULE SessionProofs ---------------------------
(***************************************************************************)
(* Proofs about Session, for any keys, values, daemons and bounds: its     *)
(* types, that the daemons in it do nothing SettingsDaemon does not allow, *)
(* so that what is proved of that specification holds here, and that the   *)
(* session shows what the file says.                                       *)
(***************************************************************************)
EXTENDS Session, SettingsDaemonProofs

\* The session's targets are a record; no other shape is assumed of them.
Fields    == {"shows", "programs"}
TargetsOK(t) ==
    /\ t = [x \in Fields |-> t[x]]
    /\ t.programs \in [Keys \cap LaunchKeys -> Nat]

SessionInv == SessionTypeOK /\ TargetsOK(targets)

\* No call of the applier changes what the record is made of.
LEMMA ApplyOK ==
    ASSUME NEW t, TargetsOK(t), NEW k, NEW v, NEW user
    PROVE  TargetsOK(Apply(t, k, v, user))
<1>1. ASSUME NEW x PROVE TargetsOK([t EXCEPT !.shows = x])
  BY DEF TargetsOK, Fields
<1> QED BY <1>1 DEF Apply

\* Counting up or resetting one entry keeps a function into Nat one.
LEMMA CountOK ==
    ASSUME NEW S, NEW P \in [S -> Nat], NEW k
    PROVE  /\ [P EXCEPT ![k] = 0] \in [S -> Nat]
           /\ [P EXCEPT ![k] = P[k] + 1] \in [S -> Nat]
<1>1. ASSUME NEW n, k \in S => n \in Nat
      PROVE  [P EXCEPT ![k] = n] \in [S -> Nat]
  <2> DEFINE Q == [P EXCEPT ![k] = n]
  <2>1. Q = [x \in S |-> IF x = k THEN n ELSE P[x]]
    OBVIOUS
  <2>2. \A x \in S : (IF x = k THEN n ELSE P[x]) \in Nat
    BY <1>1
  <2> QED BY <2>1, <2>2
<1>2. k \in S => P[k] + 1 \in Nat
  OBVIOUS
<1> QED BY <1>1, <1>2

\* Nor does killing or starting a program change it.
LEMMA ProgramsOK ==
    ASSUME NEW t, TargetsOK(t), NEW k
    PROVE  TargetsOK(Stopped(t, k)) /\ TargetsOK(Launched(t, k))
<1> DEFINE P == t.programs
<1>1. /\ [P EXCEPT ![k] = 0] \in [Keys \cap LaunchKeys -> Nat]
      /\ [P EXCEPT ![k] = P[k] + 1] \in [Keys \cap LaunchKeys -> Nat]
  BY CountOK DEF TargetsOK
<1>2. ASSUME NEW p \in [Keys \cap LaunchKeys -> Nat]
      PROVE  TargetsOK([t EXCEPT !.programs = p])
  BY DEF TargetsOK, Fields
<1>3. /\ TargetsOK([t EXCEPT !.programs = [P EXCEPT ![k] = 0]])
      /\ TargetsOK([t EXCEPT !.programs = [P EXCEPT ![k] = P[k] + 1]])
  BY <1>1, <1>2
<1> QED BY <1>3 DEF Stopped, Launched

\* Every step is a step of SettingsDaemon or leaves its variables alone.
LEMMA SessionStepsOfDaemon ==
    ASSUME SessionTypeOK, [SNext]_allVars
    PROVE  [Next]_vars
<1>1. CASE UNCHANGED allVars
  BY <1>1 DEF allVars
<1>2. CASE OtherWrites
  BY <1>2 DEF OtherWrites, TypedFlats, Next, Writers
<1>3. CASE AppOpen \/ AppClose \/ AppApply \/ AppStops \/ AppLaunches
  BY <1>3 DEF AppOpen, AppClose, AppApply, AppStops, AppLaunches
<1>4. ASSUME NEW k \in Keys, NEW v \in ValuesOf[k], AppSet(k, v) PROVE Next
  <2>1. v \in Settable
    BY SessionAssumption DEF Settable
  <2>2. mem' \in Flats
    BY <1>4, <2>1 DEF AppSet, SessionTypeOK, Flats
  <2>3. Replace(mem')
    BY <1>4 DEF AppSet
  <2> QED BY <2>2, <2>3 DEF Next, Writers
<1>5. ASSUME NEW d \in Daemons, NEW k \in Keys,
             DaemonApplies(d, k) \/ DaemonLaunches(d, k)
      PROVE  Next
  BY <1>5 DEF DaemonApplies, DaemonLaunches, Next, MainLoop
<1>6. ASSUME NEW d \in Daemons, NEW k \in Keys, DaemonStops(d, k)
      PROVE  UNCHANGED vars
  BY <1>6 DEF DaemonStops
<1>7. ASSUME NEW d \in Daemons, DaemonLoops(d) PROVE Next
  BY <1>7 DEF DaemonLoops, Next, MainLoop
<1> QED
  BY <1>1, <1>2, <1>3, <1>4, <1>5, <1>6, <1>7 DEF SNext

\* Every step preserves the types.
LEMMA SessionStep ==
    ASSUME SessionInv, [SNext]_allVars
    PROVE  SessionInv'
<1> USE DEF SessionInv, SessionTypeOK, sessionVars
<1>1. TypeOK'
  BY SessionStepsOfDaemon, TypeStep
<1>2. ASSUME TargetsOK(targets)', open' \in BOOLEAN, raced' \in BOOLEAN,
             mem' \in Flats, call' \in Keys \cup {Nothing},
             between' \in [Actors -> Keys \cup {Nothing}]
      PROVE  SessionInv'
  BY <1>1, <1>2 DEF TargetsOK
<1>3. CASE UNCHANGED allVars
  BY <1>2, <1>3 DEF allVars
<1>4. CASE OtherWrites
  BY <1>2, <1>4 DEF OtherWrites, OnItsWay
<1>5. CASE AppOpen
  BY <1>2, <1>5 DEF AppOpen, TypeOK
<1>6. CASE AppClose
  <2>1. Empty \in Flats
    BY DEF Empty, Flats, Settable
  <2> QED BY <1>2, <1>6, <2>1 DEF AppClose
<1>7. ASSUME NEW k \in Keys, NEW v \in ValuesOf[k], AppSet(k, v)
      PROVE  SessionInv'
  <2>1. mem' \in Flats
    BY <1>7, SessionAssumption DEF AppSet, Flats, Settable
  <2> QED BY <1>2, <1>7, <2>1 DEF AppSet
<1>8. CASE AppApply
  BY <1>2, <1>8, ApplyOK DEF AppApply
<1>9. CASE AppStops
  BY <1>2, <1>9, ProgramsOK DEF AppStops
<1>10. CASE AppLaunches
  BY <1>2, <1>10, ProgramsOK DEF AppLaunches
<1>11. ASSUME NEW d \in Daemons, NEW k \in Keys, DaemonApplies(d, k)
       PROVE  SessionInv'
  BY <1>2, <1>11, ApplyOK DEF DaemonApplies
<1>12. ASSUME NEW d \in Daemons, NEW k \in Keys,
              DaemonStops(d, k) \/ DaemonLaunches(d, k)
       PROVE  SessionInv'
  BY <1>2, <1>12, ProgramsOK DEF DaemonStops, DaemonLaunches
<1>13. ASSUME NEW d \in Daemons, DaemonLoops(d) PROVE SessionInv'
  BY <1>2, <1>13 DEF DaemonLoops
<1> QED
  BY <1>3, <1>4, <1>5, <1>6, <1>7, <1>8, <1>9, <1>10, <1>11, <1>12, <1>13
     DEF SNext

\* The types hold in every reachable state.
THEOREM SessionInductive == SSpec => []SessionInv
<1>1. SInit => SessionInv
  <2> SUFFICES ASSUME SInit PROVE SessionInv
    OBVIOUS
  <2>1. TypeOK
    BY InitIInv DEF SInit, IInv
  <2>2. Empty \in Flats
    BY DEF Empty, Flats, Settable
  <2>3. TargetsOK(targets)
    BY DEF SInit, Fresh, TargetsOK, Fields
  <2> QED BY <2>1, <2>2, <2>3 DEF SInit, SessionInv, SessionTypeOK, TargetsOK
<1>2. SessionInv /\ [SNext]_allVars => SessionInv'
  BY SessionStep
<1> QED BY <1>1, <1>2, PTL DEF SSpec

\* Type correctness of the app, its calls and what the session shows.
THEOREM SessionTypes == SSpec => []SessionTypeOK
<1>1. SessionInv => SessionTypeOK
  BY DEF SessionInv
<1> QED BY <1>1, SessionInductive, PTL

\* The app's saves, its own calls and the programs' two steps leave the
\* daemons what SettingsDaemon says they are.
THEOREM SessionImplementsDaemons == SSpec => Spec
<1>1. SInit => Init
  BY DEF SInit
<1>2. SessionInv /\ [SNext]_allVars => [Next]_vars
  BY SessionStepsOfDaemon DEF SessionInv
<1> QED BY <1>1, <1>2, SessionInductive, PTL DEF SSpec, Spec

---------------------------------------------------------------------------
(***************************************************************************)
(* What the session shows: for any number of daemons, whatever the app     *)
(* does beside them, the programs and the proxy end up as the file has     *)
(* them.                                                                   *)
(*                                                                         *)
(* The argument follows a value v rather than the file: whenever every     *)
(* daemon has read v and has nothing left to do with it, and the app has   *)
(* no call to make, the session shows v.  A daemon that has read anything  *)
(* else will read the file again.  This is kept for the file's value, for  *)
(* the app's copy, which the next save may put back into the file, and,    *)
(* while a writer has truncated the file, for every value it may bring.    *)
(***************************************************************************)

\* What the actors are about to do.
ActorInv ==
    /\ \A d \in Daemons :
          between[d] # Nothing => between[d] \in LaunchKeys \cap todo[d]
    /\ between[App] # Nothing => call = between[App] /\ call \in LaunchKeys
    /\ call # Nothing => open
    /\ call # Nothing /\ ~raced => mem = file
    /\ torn => file = Empty
    /\ torn /\ ~raced => call = Nothing

\* Everybody who has still to do with program k has killed it for v, which
\* does not start it again.
ProgramDone(k, v) ==
    /\ \A d \in Daemons :
          /\ full[d] /\ cur[d][k] = v
          /\ k \in todo[d] => v # On /\ between[d] = k
    /\ call = k => v # On /\ between[App] = k /\ Shown(mem, k) = v
ProgramOK(k, v) == ProgramDone(k, v) => (targets.programs[k] > 0 <=> v = On)

ProgramsFor(k) ==
    /\ ProgramOK(k, Shown(file, k))
    /\ open => ProgramOK(k, Shown(mem, k))
    /\ torn => \A v : ProgramOK(k, v)
ProgramInv ==
    Daemons # {} /\ ~raced => \A k \in Keys \cap LaunchKeys : ProgramsFor(k)

\* The same of the two proxy keys; there is no step in between.
Enabled(f) == Shown(f, "proxy-enabled")
Address(f) == Shown(f, "proxy")
ProxyDone(v, w) ==
    /\ \A d \in Daemons :
          /\ full[d] /\ cur[d]["proxy-enabled"] = v /\ cur[d]["proxy"] = w
          /\ todo[d] \cap ProxyKeys = {}
    /\ call \notin ProxyKeys
ProxyOK(v, w) == ProxyDone(v, w) => targets.shows["proxy"] = Proxy(v, w)

ProxyFor ==
    /\ ProxyOK(Enabled(file), Address(file))
    /\ open => ProxyOK(Enabled(mem), Address(mem))
    /\ torn => \A v, w : ProxyOK(v, w)

\* While the file may still become what a daemon has not read, a daemon that
\* has a proxy key to apply has read the file as it is, or empty.
HasRead(d, f) == cur[d]["proxy-enabled"] = Enabled(f) /\ cur[d]["proxy"] = Address(f)
SameProxy(f, g) == Enabled(f) = Enabled(g) /\ Address(f) = Address(g)
ReadInv ==
    torn \/ (open /\ ~SameProxy(mem, file)) =>
        \A d \in Daemons :
            full[d] /\ todo[d] \cap ProxyKeys # {}
                => HasRead(d, file) \/ HasRead(d, Empty)

SlotInv == "proxy" \in DOMAIN targets.shows
ProxyInv ==
    ProxyKeys \subseteq Keys =>
        /\ SlotInv
        /\ Daemons # {} /\ ~raced => ProxyFor /\ ReadInv

\* What the steps lean on: the types and what SettingsDaemonProofs knows of
\* each daemon.
Base == SessionInv /\ IInv

---------------------------------------------------------------------------
(* The steps of a daemon.                                                  *)

\* The merged view is what the controls would show, and has every key.
LEMMA MergedShown ==
    ASSUME file \in Flats, NEW k \in Keys
    PROVE  MergedFlat[k] = Shown(file, k) /\ MergedFlat[k] # Unset
<1>1. Default[k] \in Values
  BY SessionAssumption
<1> QED BY <1>1, DaemonAssumption DEF MergedFlat, Shown

\* A step that applies nothing leaves what the other daemons know alone, and
\* reads the file if it changes what its own daemon knows.
LEMMA LoopFacts ==
    ASSUME TypeOK, PassInv, NEW d \in Daemons, DaemonLoops(d)
    PROVE  /\ UNCHANGED <<file, torn>> /\ UNCHANGED sessionVars
           /\ \A e \in Daemons : e # d =>
                 cur'[e] = cur[e] /\ todo'[e] = todo[e] /\ full'[e] = full[e]
           /\ \/ cur'[d] = cur[d] /\ todo'[d] = todo[d] /\ full'[d] = full[d]
              \/ /\ todo[d] = {} /\ cur'[d] = MergedFlat
                 /\ \/ ~full'[d]
                    \/ todo'[d] = AllKeys(MergedFlat)
                    \/ full[d] /\ todo'[d] = ChangedKeys(cur[d], MergedFlat)
<1> DEFINE Reads ==
             \/ cur'[d] = cur[d] /\ todo'[d] = todo[d] /\ full'[d] = full[d]
             \/ /\ todo[d] = {} /\ cur'[d] = MergedFlat
                /\ \/ ~full'[d]
                   \/ todo'[d] = AllKeys(MergedFlat)
                   \/ full[d] /\ todo'[d] = ChangedKeys(cur[d], MergedFlat)
           Goal == /\ UNCHANGED <<file, torn>>
                   /\ \A e \in Daemons : e # d =>
                        cur'[e] = cur[e] /\ todo'[e] = todo[e] /\ full'[e] = full[e]
                   /\ Reads
<1>1. ASSUME UNCHANGED <<file, torn, cur, todo, full>> PROVE Goal
  BY <1>1
<1>2. ASSUME \/ HyprlandReady(d) \/ ImportApplier(d) \/ PassDone(d)
             \/ StampFile(d) \/ Wake(d)
      PROVE  Goal
  <2>1. UNCHANGED <<file, torn, cur, todo, full>>
    BY <1>2
       DEF HyprlandReady, ImportApplier, PassDone, StampFile, Wake, fileVars
  <2> QED BY <1>1, <2>1
<1>3. ASSUME NEW S, todo[d] = {}, UNCHANGED <<file, torn>>,
             cur' = [cur EXCEPT ![d] = MergedFlat],
             todo' = [todo EXCEPT ![d] = S]
      PROVE  /\ cur'[d] = MergedFlat /\ todo'[d] = S
             /\ \A e \in Daemons : e # d =>
                   cur'[e] = cur[e] /\ todo'[e] = todo[e]
  <2>1. DOMAIN cur = Daemons /\ DOMAIN todo = Daemons
    BY DEF TypeOK
  <2> QED BY <1>3, <2>1
<1>4. ASSUME ReadAll(d) PROVE Goal
  <2>1. todo[d] = {}
    BY <1>4 DEF ReadAll, PassInv
  <2>2. /\ cur' = [cur EXCEPT ![d] = MergedFlat]
        /\ todo' = [todo EXCEPT ![d] = IF applier[d] THEN AllKeys(MergedFlat)
                                       ELSE {}]
        /\ full' = [full EXCEPT ![d] = applier[d]]
        /\ UNCHANGED <<file, torn>>
    BY <1>4 DEF ReadAll, fileVars
  <2>3. /\ cur'[d] = MergedFlat
        /\ todo'[d] = IF applier[d] THEN AllKeys(MergedFlat) ELSE {}
        /\ \A e \in Daemons : e # d =>
              cur'[e] = cur[e] /\ todo'[e] = todo[e]
    BY <1>3, <2>1, <2>2
  <2>4. full'[d] = applier[d] /\ \A e \in Daemons : e # d => full'[e] = full[e]
    BY <2>2 DEF TypeOK
  <2> QED BY <2>1, <2>2, <2>3, <2>4
<1>6. ASSUME ReadChanged(d) PROVE Goal
  <2>1. todo[d] = {} /\ (full[d] => applier[d])
    BY <1>6 DEF ReadChanged, PassInv
  <2>2. /\ cur' = [cur EXCEPT ![d] = MergedFlat]
        /\ todo' = [todo EXCEPT ![d] = IF applier[d]
                                       THEN ChangedKeys(cur[d], MergedFlat)
                                       ELSE {}]
        /\ UNCHANGED <<file, torn, full>>
    BY <1>6 DEF ReadChanged, fileVars
  <2>3. /\ cur'[d] = MergedFlat
        /\ todo'[d] = IF applier[d] THEN ChangedKeys(cur[d], MergedFlat) ELSE {}
        /\ \A e \in Daemons : e # d =>
              cur'[e] = cur[e] /\ todo'[e] = todo[e]
    BY <1>3, <2>1, <2>2
  <2> QED BY <2>1, <2>2, <2>3
<1>5. UNCHANGED sessionVars
  BY DEF DaemonLoops
<1> QED BY <1>2, <1>4, <1>5, <1>6 DEF DaemonLoops

\* An apply call takes one key off its daemon's list.
LEMMA ApplyFacts ==
    ASSUME TypeOK, NEW d \in Daemons, NEW k \in Keys, ApplyKey(d, k)
    PROVE  /\ UNCHANGED <<file, torn, cur, full>> /\ k \in todo[d]
           /\ todo' = [todo EXCEPT ![d] = todo[d] \ {k}]
BY DEF ApplyKey, fileVars

---------------------------------------------------------------------------
(* The actors.                                                             *)

\* Every step preserves what is said of the actors.
LEMMA ActorStep ==
    ASSUME Base, ActorInv, [SNext]_allVars
    PROVE  ActorInv'
<1>1. /\ TypeOK /\ PassInv /\ SessionTypeOK
      /\ todo \in [Daemons -> SUBSET Keys]
      /\ between \in [Actors -> Keys \cup {Nothing}]
      /\ App \in Actors /\ Daemons \subseteq Actors /\ App \notin Daemons
      /\ Nothing \notin Keys /\ call \in Keys \cup {Nothing}
  BY SessionAssumption DEF Base, SessionInv, SessionTypeOK, IInv, TypeOK, Actors
<1>2. ASSUME UNCHANGED <<todo, between, call, open, raced, mem, file, torn>>
      PROVE  ActorInv'
  BY <1>2 DEF ActorInv, Empty
<1>3. CASE UNCHANGED allVars
  BY <1>2, <1>3
     DEF allVars, vars, sessionVars, daemonVars, fileVars
<1>4. CASE OtherWrites
  <2>1. UNCHANGED <<todo, between, call, open, mem>>
    BY <1>4 DEF OtherWrites, Replace, Truncate, Fill, WriteFile
  <2>2. CASE \E f \in TypedFlats : Replace(f) /\ raced' = (raced \/ OnItsWay)
    <3>1. ~torn /\ torn' = torn /\ (raced' \/ call = Nothing)
      BY <2>2 DEF Replace, OnItsWay
    <3> QED BY <2>1, <3>1 DEF ActorInv
  <2>3. CASE Truncate /\ raced' = (raced \/ OnItsWay)
    <3>1. file' = Empty /\ (raced' \/ call = Nothing)
      BY <2>3 DEF Truncate, WriteFile, OnItsWay
    <3> QED BY <2>1, <3>1 DEF ActorInv, Empty
  <2>4. CASE \E f \in TypedFlats : Fill(f) /\ UNCHANGED raced
    BY <2>1, <2>4 DEF ActorInv, Fill
  <2> QED BY <1>4, <2>2, <2>3, <2>4 DEF OtherWrites
<1>5. CASE AppOpen
  BY <1>5 DEF AppOpen, ActorInv, vars, daemonVars, fileVars, Empty
<1>6. CASE AppClose
  BY <1>6 DEF AppClose, ActorInv, vars, daemonVars, fileVars, Empty
<1>7. ASSUME NEW k \in Keys, NEW v \in ValuesOf[k], AppSet(k, v) PROVE ActorInv'
  BY <1>7 DEF AppSet, Replace, WriteFile, ActorInv
<1>8. CASE AppApply
  BY <1>8 DEF AppApply, ActorInv, vars, daemonVars, fileVars, Empty
<1>9. CASE AppStops
  <2>1. between' = [between EXCEPT ![App] = call] /\ call \in LaunchKeys
    BY <1>9 DEF AppStops
  <2>2. between'[App] = call /\ \A d \in Daemons : between'[d] = between[d]
    BY <1>1, <2>1
  <2>3. UNCHANGED <<todo, call, open, raced, mem, file, torn>>
    BY <1>9 DEF AppStops, vars, daemonVars, fileVars
  <2> QED BY <2>1, <2>2, <2>3 DEF ActorInv, Empty
<1>10. CASE AppLaunches
  <2>1. between' = [between EXCEPT ![App] = Nothing] /\ call' = Nothing
    BY <1>10 DEF AppLaunches
  <2>2. between'[App] = Nothing /\ \A d \in Daemons : between'[d] = between[d]
    BY <1>1, <2>1
  <2>3. UNCHANGED <<todo, open, raced, mem, file, torn>>
    BY <1>10 DEF AppLaunches, vars, daemonVars, fileVars
  <2> QED BY <2>1, <2>2, <2>3 DEF ActorInv, Empty
<1>11. ASSUME NEW d \in Daemons, NEW k \in Keys, DaemonApplies(d, k)
       PROVE  ActorInv'
  <2>1. /\ UNCHANGED <<file, torn>> /\ k \notin LaunchKeys
        /\ todo' = [todo EXCEPT ![d] = todo[d] \ {k}]
        /\ UNCHANGED <<between, call, open, raced, mem>>
    BY <1>1, <1>11, ApplyFacts DEF DaemonApplies
  <2>2. \A e \in Daemons : LaunchKeys \cap todo[e] \subseteq todo'[e]
    BY <1>1, <2>1
  <2> QED BY <2>1, <2>2 DEF ActorInv, Empty
<1>12. ASSUME NEW d \in Daemons, NEW k \in Keys, DaemonStops(d, k)
       PROVE  ActorInv'
  <2>1. /\ k \in todo[d] /\ k \in LaunchKeys
        /\ between' = [between EXCEPT ![d] = k]
        /\ UNCHANGED <<todo, call, open, raced, mem, file, torn>>
    BY <1>12 DEF DaemonStops, IsNext, vars, daemonVars, fileVars
  <2>2. /\ between'[d] = k /\ between'[App] = between[App]
        /\ \A e \in Daemons : e # d => between'[e] = between[e]
    BY <1>1, <2>1
  <2> QED BY <2>1, <2>2 DEF ActorInv, Empty
<1>13. ASSUME NEW d \in Daemons, NEW k \in Keys, DaemonLaunches(d, k)
       PROVE  ActorInv'
  <2>1. /\ UNCHANGED <<file, torn>> /\ between[d] = k
        /\ todo' = [todo EXCEPT ![d] = todo[d] \ {k}]
        /\ between' = [between EXCEPT ![d] = Nothing]
        /\ UNCHANGED <<call, open, raced, mem>>
    BY <1>1, <1>13, ApplyFacts DEF DaemonLaunches
  <2>2. /\ between'[d] = Nothing /\ between'[App] = between[App]
        /\ \A e \in Daemons : e # d =>
              between'[e] = between[e] /\ todo'[e] = todo[e]
    BY <1>1, <2>1
  <2> QED BY <2>1, <2>2 DEF ActorInv, Empty
<1>14. ASSUME NEW d \in Daemons, DaemonLoops(d) PROVE ActorInv'
  <2>1. /\ UNCHANGED <<file, torn>> /\ UNCHANGED sessionVars
        /\ \A e \in Daemons : e # d => todo'[e] = todo[e]
        /\ todo'[d] = todo[d] \/ todo[d] = {}
    BY <1>1, <1>14, LoopFacts
  <2>2. \A e \in Daemons : LaunchKeys \cap todo[e] \subseteq todo'[e]
    BY <2>1
  <2> QED BY <2>1, <2>2 DEF ActorInv, sessionVars, Empty
<1> QED
  BY <1>3, <1>4, <1>5, <1>6, <1>7, <1>8, <1>9, <1>10, <1>11, <1>12, <1>13,
     <1>14 DEF SNext
---------------------------------------------------------------------------
(* The programs.                                                           *)

\* What counting does to the programs: k's count is set, the others stay.
LEMMA CountFacts ==
    ASSUME NEW t, TargetsOK(t), NEW k \in Keys \cap LaunchKeys
    PROVE  /\ Stopped(t, k).programs[k] = 0
           /\ Launched(t, k).programs[k] = t.programs[k] + 1
           /\ t.programs[k] \in Nat
           /\ \A j \in Keys \cap LaunchKeys : j # k =>
                 /\ Stopped(t, k).programs[j] = t.programs[j]
                 /\ Launched(t, k).programs[j] = t.programs[j]
           /\ Stopped(t, k).shows = t.shows /\ Launched(t, k).shows = t.shows
BY DEF TargetsOK, Fields, Stopped, Launched

\* No other call of the applier has to do with them.
LEMMA ApplyPrograms ==
    ASSUME NEW t, TargetsOK(t), NEW k, NEW v, NEW user
    PROVE  Apply(t, k, v, user).programs = t.programs
BY DEF TargetsOK, Fields, Apply

\* The steps of the daemons, and the app's own up to its last, keep what
\* holds of every value.
LEMMA ProgramCalm ==
    ASSUME Base, ActorInv, NEW j \in Keys \cap LaunchKeys, NEW v,
           ProgramOK(j, v),
           \/ AppApply \/ AppStops
           \/ \E d \in Daemons :
                 \/ \E k \in Keys : \/ DaemonApplies(d, k) \/ DaemonStops(d, k)
                                    \/ DaemonLaunches(d, k)
                 \/ DaemonLoops(d)
    PROVE  ProgramOK(j, v)'
<1>1. /\ TypeOK /\ PassInv /\ TargetsOK(targets) /\ file \in Flats
      /\ todo \in [Daemons -> SUBSET Keys] /\ cur \in [Daemons -> Flats]
      /\ between \in [Actors -> Keys \cup {Nothing}]
      /\ App \in Actors /\ Daemons \subseteq Actors /\ App \notin Daemons
      /\ Nothing \notin Keys /\ call \in Keys \cup {Nothing}
  BY SessionAssumption
     DEF Base, SessionInv, SessionTypeOK, IInv, TypeOK, Actors
<1>2. CASE AppApply
  <2>1. call # j /\ call' = Nothing /\ targets'.programs = targets.programs
    BY <1>1, <1>2, ApplyPrograms DEF AppApply
  <2>2. UNCHANGED <<cur, todo, full, mem, between>>
    BY <1>2 DEF AppApply, vars, daemonVars
  <2> QED BY <1>1, <2>1, <2>2 DEF ProgramOK, ProgramDone
<1>3. CASE AppStops
  <2>1. /\ call \in Keys \cap LaunchKeys /\ targets' = Stopped(targets, call)
        /\ between' = [between EXCEPT ![App] = call] /\ call' = call
    BY <1>1, <1>3, SessionAssumption DEF AppStops, LaunchKeys, Nothing
  <2>2. UNCHANGED <<cur, todo, full, mem>>
    BY <1>3 DEF AppStops, vars, daemonVars
  <2>3. \A d \in Daemons : between'[d] = between[d]
    BY <1>1, <2>1
  <2>4. CASE j = call
    BY <1>1, <2>1, <2>4, CountFacts DEF ProgramOK, ProgramDone
  <2>5. CASE j # call
    <3>1. targets'.programs[j] = targets.programs[j]
      BY <1>1, <2>1, <2>5, CountFacts
    <3> QED BY <2>1, <2>2, <2>3, <2>5, <3>1 DEF ProgramOK, ProgramDone
  <2> QED BY <2>4, <2>5
<1>4. ASSUME NEW d \in Daemons, NEW k \in Keys, DaemonApplies(d, k)
      PROVE  ProgramOK(j, v)'
  <2>1. /\ UNCHANGED <<cur, full, between, call, mem>> /\ k # j
        /\ todo' = [todo EXCEPT ![d] = todo[d] \ {k}]
        /\ targets'.programs = targets.programs
    BY <1>1, <1>4, ApplyFacts, ApplyPrograms DEF DaemonApplies
  <2>2. \A e \in Daemons : j \in todo'[e] <=> j \in todo[e]
    BY <1>1, <2>1
  <2> QED BY <2>1, <2>2 DEF ProgramOK, ProgramDone
<1>5. ASSUME NEW d \in Daemons, NEW k \in Keys, DaemonStops(d, k)
      PROVE  ProgramOK(j, v)'
  <2>1. /\ k \in todo[d] /\ k \in Keys \cap LaunchKeys
        /\ targets' = Stopped(targets, k)
        /\ between' = [between EXCEPT ![d] = k]
        /\ UNCHANGED <<cur, todo, full, mem, call>>
    BY <1>5 DEF DaemonStops, IsNext, vars, daemonVars
  <2>2. CASE j = k
    BY <1>1, <2>1, <2>2, CountFacts DEF ProgramOK, ProgramDone
  <2>3. CASE j # k
    <3>1. targets'.programs[j] = targets.programs[j]
      BY <1>1, <2>1, <2>3, CountFacts
    <3>2. /\ between'[App] = between[App] /\ between[d] = Nothing
          /\ \A e \in Daemons : e # d => between'[e] = between[e]
      BY <1>1, <1>5, <2>1 DEF DaemonStops
    <3>3. between'[d] = k
      BY <1>1, <2>1
    <3>4. ProgramDone(j, v)' => ProgramDone(j, v)
      BY <2>1, <2>3, <3>2, <3>3 DEF ProgramDone
    <3> QED BY <3>1, <3>4 DEF ProgramOK
  <2> QED BY <2>2, <2>3
<1>6. ASSUME NEW d \in Daemons, NEW k \in Keys, DaemonLaunches(d, k)
      PROVE  ProgramOK(j, v)'
  <2>1. /\ UNCHANGED <<cur, full, call, mem>> /\ between[d] = k
        /\ todo' = [todo EXCEPT ![d] = todo[d] \ {k}]
        /\ between' = [between EXCEPT ![d] = Nothing]
        /\ targets' = IF cur[d][k] = On THEN Launched(targets, k) ELSE targets
    BY <1>1, <1>6, ApplyFacts DEF DaemonLaunches
  <2>2. k \in Keys \cap LaunchKeys
    BY <1>1, <2>1 DEF ActorInv
  <2>3. /\ between'[App] = between[App] /\ between'[d] = Nothing
        /\ \A e \in Daemons : e # d =>
              between'[e] = between[e] /\ todo'[e] = todo[e]
        /\ todo'[d] = todo[d] \ {k}
    BY <1>1, <2>1
  <2>4. CASE j # k
    <3>1. targets'.programs[j] = targets.programs[j]
      BY <1>1, <2>1, <2>2, <2>4, CountFacts
    <3>2. ProgramDone(j, v)' => ProgramDone(j, v)
      BY <1>1, <2>1, <2>3, <2>4 DEF ProgramDone
    <3> QED BY <3>1, <3>2 DEF ProgramOK
  <2>5. CASE j = k
    <3> SUFFICES ASSUME ProgramDone(j, v)'
                 PROVE  targets'.programs[j] > 0 <=> v = On
      BY DEF ProgramOK
    <3>1. cur[d][j] = v
      BY <2>1 DEF ProgramDone
    <3>2. CASE v = On
      <4>1. targets'.programs[j] = targets.programs[j] + 1
            /\ targets.programs[j] \in Nat
        BY <1>1, <2>1, <2>2, <2>5, <3>1, <3>2, CountFacts
      <4> QED BY <3>2, <4>1
    <3>3. CASE v # On
      <4>1. targets' = targets
        BY <2>1, <2>5, <3>1, <3>3
      <4>2. ProgramDone(j, v)
        BY <1>1, <2>1, <2>3, <2>5, <3>3 DEF ProgramDone
      <4> QED BY <4>1, <4>2 DEF ProgramOK
    <3> QED BY <3>2, <3>3
  <2> QED BY <2>4, <2>5
<1>7. ASSUME NEW d \in Daemons, DaemonLoops(d) PROVE ProgramOK(j, v)'
  <2>1. /\ UNCHANGED <<file, torn>> /\ UNCHANGED sessionVars
        /\ \A e \in Daemons : e # d =>
              cur'[e] = cur[e] /\ todo'[e] = todo[e] /\ full'[e] = full[e]
        /\ \/ cur'[d] = cur[d] /\ todo'[d] = todo[d] /\ full'[d] = full[d]
           \/ /\ todo[d] = {} /\ cur'[d] = MergedFlat
              /\ \/ ~full'[d]
                 \/ todo'[d] = AllKeys(MergedFlat)
                 \/ full[d] /\ todo'[d] = ChangedKeys(cur[d], MergedFlat)
    BY <1>1, <1>7, LoopFacts
  <2>2. UNCHANGED <<targets, between, call, mem>>
    BY <2>1 DEF sessionVars
  <2>3. CASE cur'[d] = cur[d] /\ todo'[d] = todo[d] /\ full'[d] = full[d]
    <3>1. ProgramDone(j, v)' => ProgramDone(j, v)
      BY <2>1, <2>2, <2>3 DEF ProgramDone
    <3> QED BY <2>2, <3>1 DEF ProgramOK
  <2>4. CASE /\ todo[d] = {} /\ cur'[d] = MergedFlat
             /\ \/ ~full'[d]
                \/ todo'[d] = AllKeys(MergedFlat)
                \/ full[d] /\ todo'[d] = ChangedKeys(cur[d], MergedFlat)
    <3> SUFFICES ASSUME ProgramDone(j, v)' PROVE ProgramDone(j, v)
      BY <2>2 DEF ProgramOK
    <3>1. between[d] = Nothing
      BY <1>1, <2>4 DEF ActorInv
    <3>2. full'[d] /\ MergedFlat[j] = v /\ j \notin todo'[d]
      BY <1>1, <2>2, <2>4, <3>1 DEF ProgramDone
    <3>3. j \in AllKeys(MergedFlat)
      BY <1>1, MergedShown DEF AllKeys
    <3>4. full[d] /\ cur[d][j] = v
      BY <2>4, <3>2, <3>3 DEF ChangedKeys
    <3> QED BY <2>1, <2>2, <2>4, <3>4 DEF ProgramDone
  <2> QED BY <2>1, <2>3, <2>4
<1> QED BY <1>2, <1>3, <1>4, <1>5, <1>6, <1>7

\* The steps of ProgramCalm and UNCHANGED leave the file, the app's copy and
\* what the excuses speak of alone.
LEMMA CalmFrame ==
    ASSUME Base,
           \/ AppApply \/ AppStops \/ AppLaunches
           \/ \E d \in Daemons :
                 \/ \E k \in Keys : \/ DaemonApplies(d, k) \/ DaemonStops(d, k)
                                    \/ DaemonLaunches(d, k)
                 \/ DaemonLoops(d)
    PROVE  UNCHANGED <<file, torn, mem, open, raced>>
<1>1. TypeOK /\ PassInv
  BY DEF Base, SessionInv, SessionTypeOK, IInv
<1>2. CASE AppApply \/ AppStops \/ AppLaunches
  BY <1>2 DEF AppApply, AppStops, AppLaunches, vars, fileVars
<1>3. ASSUME NEW d \in Daemons, NEW k \in Keys,
             DaemonApplies(d, k) \/ DaemonLaunches(d, k)
      PROVE  UNCHANGED <<file, torn, mem, open, raced>>
  BY <1>1, <1>3, ApplyFacts DEF DaemonApplies, DaemonLaunches
<1>4. ASSUME NEW d \in Daemons, NEW k \in Keys, DaemonStops(d, k)
      PROVE  UNCHANGED <<file, torn, mem, open, raced>>
  BY <1>4 DEF DaemonStops, vars, fileVars
<1>5. ASSUME NEW d \in Daemons, DaemonLoops(d)
      PROVE  UNCHANGED <<file, torn, mem, open, raced>>
  <2>1. UNCHANGED <<file, torn>> /\ UNCHANGED sessionVars
    BY <1>1, <1>5, LoopFacts
  <2> QED BY <2>1 DEF sessionVars
<1> QED BY <1>2, <1>3, <1>4, <1>5

\* Another program writes, unexcused, only where the daemons have caught up.
LEMMA CaughtUp ==
    ASSUME Base, Replace(file') \/ Truncate, raced' = (raced \/ OnItsWay), ~raced'
    PROVE  /\ ~raced /\ call = Nothing
           /\ \A d \in Daemons : full[d] =>
                 todo[d] = {} /\ cur[d] = MergedFlat
<1>1. ~raced /\ call = Nothing /\ \A d \in Daemons : full[d] => ~missed[d] /\ Idle(d)
  BY DEF OnItsWay
<1>2. ASSUME NEW d \in Daemons, full[d] PROVE todo[d] = {} /\ cur[d] = MergedFlat
  <2>1. ~missed[d] /\ pc[d] = "sleep" /\ last[d] = mtime
    BY <1>1, <1>2 DEF Idle
  <2>2. cur[d] = MergedFlat
    BY <2>1 DEF Base, IInv, KnowInv, Knows
  <2>3. todo[d] = {}
    BY <2>1 DEF Base, IInv, PassInv
  <2> QED BY <2>2, <2>3
<1> QED BY <1>1, <1>2

\* Every step keeps the programs right for the values that matter.
LEMMA ProgramStep ==
    ASSUME Base, ActorInv, ProgramInv, [SNext]_allVars
    PROVE  ProgramInv'
<1> SUFFICES ASSUME Daemons # {}, ~raced', NEW j \in Keys \cap LaunchKeys
             PROVE  ProgramsFor(j)'
  BY DEF ProgramInv
<1>1. /\ TypeOK /\ PassInv /\ TargetsOK(targets) /\ file \in Flats
      /\ between \in [Actors -> Keys \cup {Nothing}]
      /\ App \in Actors /\ Daemons \subseteq Actors /\ App \notin Daemons
      /\ Nothing \notin Keys /\ call \in Keys \cup {Nothing}
      /\ mem \in Flats
  BY SessionAssumption
     DEF Base, SessionInv, SessionTypeOK, IInv, TypeOK, Actors
<1>2. ASSUME UNCHANGED <<file, torn, mem, open, raced>>,
             \A v : ProgramOK(j, v) => ProgramOK(j, v)'
      PROVE  ProgramsFor(j)'
  <2>1. ProgramsFor(j)
    BY <1>2 DEF ProgramInv
  <2>2. Shown(file, j)' = Shown(file, j) /\ Shown(mem, j)' = Shown(mem, j)
    BY <1>2 DEF Shown
  <2> QED BY <1>2, <2>1, <2>2 DEF ProgramsFor
<1>3. ASSUME UNCHANGED <<cur, todo, full, targets, between, call>>, call = Nothing,
             NEW v, ProgramOK(j, v)
      PROVE  ProgramOK(j, v)'
  BY <1>1, <1>3 DEF ProgramOK, ProgramDone
<1>4. CASE UNCHANGED allVars
  <2>1. UNCHANGED <<file, torn, mem, open, raced>>
        /\ UNCHANGED <<cur, todo, full, targets, between, call>>
    BY <1>4 DEF allVars, vars, sessionVars, daemonVars, fileVars
  <2>2. \A v : ProgramOK(j, v) => ProgramOK(j, v)'
    BY <2>1 DEF ProgramOK, ProgramDone
  <2> QED BY <1>2, <2>1, <2>2
<1>5. CASE \/ AppApply \/ AppStops
           \/ \E d \in Daemons :
                 \/ \E k \in Keys : \/ DaemonApplies(d, k) \/ DaemonStops(d, k)
                                    \/ DaemonLaunches(d, k)
                 \/ DaemonLoops(d)
  <2>1. UNCHANGED <<file, torn, mem, open, raced>>
    BY <1>5, CalmFrame
  <2>2. \A v : ProgramOK(j, v) => ProgramOK(j, v)'
    BY <1>5, ProgramCalm
  <2> QED BY <1>2, <2>1, <2>2
<1>6. CASE AppLaunches
  <2>1. UNCHANGED <<file, torn, mem, open, raced>>
    BY <1>6, CalmFrame
  <2>2. /\ call = between[App] /\ call \in Keys \cap LaunchKeys
        /\ call' = Nothing /\ ~torn /\ mem = file /\ open
    <3>1. between[App] # Nothing /\ call' = Nothing
      BY <1>6 DEF AppLaunches
    <3> QED BY <1>1, <2>1, <3>1 DEF ActorInv
  <2>3. /\ targets' = IF Shown(mem, call) = On THEN Launched(targets, call)
                                               ELSE targets
        /\ between' = [between EXCEPT ![App] = Nothing]
        /\ UNCHANGED <<cur, todo, full>>
    BY <1>6 DEF AppLaunches, vars, daemonVars
  <2>4. \A d \in Daemons : between'[d] = between[d]
    BY <1>1, <2>3
  <2>5. ProgramOK(j, Shown(file, j))
    BY <2>1 DEF ProgramInv, ProgramsFor
  <2> DEFINE v == Shown(file, j)
  <2>6. ProgramOK(j, v)'
    <3>1. UNCHANGED v
      BY <2>1 DEF Shown
    <3> HIDE DEF v
    <3>2. CASE j # call
      <4>1. targets'.programs[j] = targets.programs[j]
        BY <1>1, <2>2, <2>3, <3>2, CountFacts
      <4>2. ProgramDone(j, v)' => ProgramDone(j, v)
        BY <2>3, <2>4, <3>1, <3>2 DEF ProgramDone
      <4> QED BY <2>5, <3>1, <4>1, <4>2 DEF ProgramOK, v
    <3>3. CASE j = call /\ v = On
      <4>1. targets'.programs[j] = targets.programs[j] + 1
            /\ targets.programs[j] \in Nat
        BY <1>1, <2>2, <2>3, <3>3, CountFacts DEF v
      <4> QED BY <3>1, <3>3, <4>1 DEF ProgramOK
    <3>4. CASE j = call /\ v # On
      <4>1. targets' = targets
        BY <2>2, <2>3, <3>4 DEF v
      <4>2. Shown(mem, j) = v
        BY <2>2 DEF v
      <4>3. ProgramDone(j, v)' => ProgramDone(j, v)
        BY <2>2, <2>3, <2>4, <3>1, <3>4, <4>2 DEF ProgramDone
      <4> QED BY <2>5, <3>1, <4>1, <4>3 DEF ProgramOK, v
    <3> QED BY <3>2, <3>3, <3>4
  <2>7. Shown(mem, j)' = v' /\ Shown(file, j)' = v'
    BY <2>1, <2>2
  <2> HIDE DEF v
  <2>8. ~torn'
    BY <2>1, <2>2
  <2> QED BY <2>6, <2>7, <2>8 DEF ProgramsFor
<1>7. CASE AppOpen
  <2>1. /\ ~open /\ call = Nothing /\ open' /\ mem' = file
        /\ UNCHANGED <<cur, todo, full, targets, between, call, file, torn, raced>>
    BY <1>7
       DEF AppOpen, ActorInv, vars, daemonVars, fileVars
  <2>2. ProgramsFor(j)
    BY <2>1 DEF ProgramInv
  <2>3. Shown(file, j)' = Shown(file, j) /\ Shown(mem, j)' = Shown(file, j)
    BY <2>1 DEF Shown
  <2> QED BY <1>3, <2>1, <2>2, <2>3 DEF ProgramsFor
<1>8. CASE AppClose
  <2>1. /\ call = Nothing /\ ~open'
        /\ UNCHANGED <<cur, todo, full, targets, between, call, file, torn, raced>>
    BY <1>8 DEF AppClose, vars, daemonVars, fileVars
  <2>2. ProgramsFor(j)
    BY <2>1 DEF ProgramInv
  <2>3. Shown(file, j)' = Shown(file, j)
    BY <2>1 DEF Shown
  <2> QED BY <1>3, <2>1, <2>2, <2>3 DEF ProgramsFor
<1>9. ASSUME NEW k \in Keys, NEW v \in ValuesOf[k], AppSet(k, v)
      PROVE  ProgramsFor(j)'
  <2>1. /\ open /\ call = Nothing /\ call' = k /\ ~torn' /\ open'
        /\ mem' = [mem EXCEPT ![k] = v] /\ file' = mem'
        /\ UNCHANGED <<cur, todo, full, targets, between, raced>>
    BY <1>9 DEF AppSet, Replace, WriteFile
  <2>2. Shown(file, j)' = Shown(mem, j)'
    BY <2>1
  <2>3. CASE j = k
    <3>1. between'[App] # k
      BY <1>1, <2>1 DEF ActorInv
    <3>2. \A u : ~ProgramDone(j, u)'
      BY <2>1, <2>3, <3>1 DEF ProgramDone
    <3> QED BY <2>1, <3>2 DEF ProgramsFor, ProgramOK
  <2>4. CASE j # k
    <3>1. Shown(mem, j)' = Shown(mem, j)
      BY <1>1, <2>1, <2>4 DEF Shown, Flats
    <3>2. ProgramOK(j, Shown(mem, j))
      BY <2>1 DEF ProgramInv, ProgramsFor
    <3> DEFINE u == Shown(mem, j)
    <3>3. u' = u
      BY <3>1
    <3> HIDE DEF u
    <3>4. ProgramDone(j, u)' => ProgramDone(j, u)
      BY <1>1, <2>1, <2>4, <3>3 DEF ProgramDone
    <3>5. ProgramOK(j, u)'
      BY <2>1, <3>2, <3>3, <3>4 DEF ProgramOK, u
    <3> QED BY <2>1, <2>2, <3>5 DEF ProgramsFor, u
  <2> QED BY <2>3, <2>4
<1>10. CASE OtherWrites
  <2>1. UNCHANGED <<cur, todo, full, targets, between, call, mem, open>>
    BY <1>10 DEF OtherWrites, Replace, Truncate, Fill, WriteFile
  <2>2. Shown(mem, j)' = Shown(mem, j)
    BY <2>1 DEF Shown
  <2>3. ASSUME Replace(file') \/ Truncate, raced' = (raced \/ OnItsWay)
        PROVE  ProgramsFor(j)'
    <3>1. /\ ~raced /\ call = Nothing
          /\ \A d \in Daemons : full[d] => todo[d] = {} /\ cur[d] = MergedFlat
      BY <2>3, CaughtUp
    <3>2. ProgramsFor(j)
      BY <3>1 DEF ProgramInv
    <3>3. ASSUME NEW v PROVE ProgramOK(j, v)'
      <4>1. CASE v = Shown(file, j)
        BY <1>3, <2>1, <3>1, <3>2, <4>1 DEF ProgramsFor
      <4>2. CASE v # Shown(file, j)
        <5>1. PICK d \in Daemons : TRUE
          OBVIOUS
        <5>2. full[d] => cur[d][j] # v
          BY <1>1, <3>1, <4>2, MergedShown
        <5> QED BY <2>1, <5>2 DEF ProgramOK, ProgramDone
      <4> QED BY <4>1, <4>2
    <3> QED BY <3>3 DEF ProgramsFor
  <2>4. ASSUME torn, ~torn', raced' = raced PROVE ProgramsFor(j)'
    <3>1. call = Nothing /\ \A v : ProgramOK(j, v)
      BY <2>4 DEF ActorInv, ProgramInv, ProgramsFor
    <3>2. \A v : ProgramOK(j, v)'
      BY <1>3, <2>1, <3>1
    <3> QED BY <2>4, <3>2 DEF ProgramsFor
  <2>5. \/ (Replace(file') \/ Truncate) /\ raced' = (raced \/ OnItsWay)
        \/ torn /\ ~torn' /\ raced' = raced
    BY <1>10 DEF OtherWrites, Replace, Fill, WriteFile
  <2> QED BY <2>3, <2>4, <2>5
<1> QED
  BY <1>4, <1>5, <1>6, <1>7, <1>8, <1>9, <1>10 DEF SNext
---------------------------------------------------------------------------
(* The proxy.                                                              *)

\* What a call of the applier does to the proxy.
LEMMA ApplyProxy ==
    ASSUME NEW t, TargetsOK(t), "proxy" \in DOMAIN t.shows,
           NEW k, NEW v, NEW user
    PROVE  /\ "proxy" \in DOMAIN Apply(t, k, v, user).shows
           /\ k \notin ProxyKeys =>
                 Apply(t, k, v, user).shows["proxy"] = t.shows["proxy"]
           /\ k \in ProxyKeys =>
                 Apply(t, k, v, user).shows["proxy"]
                     = ProxyEffect(k, v, user).proxy
<1> DEFINE e == Effect(k, v, user)
<1>1. Apply(t, k, v, user).shows
        = [s \in DOMAIN t.shows |-> IF s \in DOMAIN e THEN e[s] ELSE t.shows[s]]
  BY DEF TargetsOK, Fields, Apply
<1>2. ASSUME k \in ProxyKeys PROVE e = ProxyEffect(k, v, user)
  BY <1>2
     DEF Effect, ProxyKeys, AppearanceKeys, AccessibilityKeys, DisplayKeys,
         InputKeys
<1>3. "proxy" \in DOMAIN ProxyEffect(k, v, user)
      /\ ProxyEffect(k, v, user)["proxy"] = ProxyEffect(k, v, user).proxy
  BY DEF ProxyEffect
<1>4. ASSUME k \notin ProxyKeys PROVE "proxy" \notin DOMAIN e
  <2>1. k # "proxy"
    BY <1>4 DEF ProxyKeys
  <2>2. "proxy" \notin DOMAIN Own(k, v) /\ "proxy" \notin DOMAIN NoEffect
        /\ \A u : "proxy" \notin DOMAIN Own(k, u)
    BY <2>1 DEF Own, NoEffect
  <2>3. "proxy" \notin DOMAIN AppearanceEffect(k, v)
    BY <2>2 DEF AppearanceEffect
  <2>4. "proxy" \notin DOMAIN AccessibilityEffect(k, v, user)
    BY <2>2 DEF AccessibilityEffect, Scaled
  <2>5. "proxy" \notin DOMAIN DisplayEffect(k, v, user)
    BY <2>2 DEF DisplayEffect, Scaled, Refreshed
  <2>6. "proxy" \notin DOMAIN InputEffect(k, v)
    BY <2>2 DEF InputEffect
  <2> QED BY <1>4, <2>2, <2>3, <2>4, <2>5, <2>6 DEF Effect
<1> HIDE DEF e
<1> QED BY <1>1, <1>2, <1>3, <1>4

\* The other key comes from the user's file, and from nowhere else is the
\* default: Off, and no address.
LEMMA ProxyRead ==
    ASSUME NEW f \in Flats, ProxyKeys \subseteq Keys, NEW v
    PROVE  /\ ProxyEffect("proxy-enabled", v, f).proxy = Proxy(v, Address(f))
           /\ ProxyEffect("proxy", v, f).proxy = Proxy(Enabled(f), v)
           /\ Enabled(Empty) = Off /\ Address(Empty) = ""
           /\ Proxy(Off, v) = "none" /\ Proxy(v, "") = "none"
<1>1. /\ Default["proxy-enabled"] = Off /\ Default["proxy"] = "" /\ Unset = NotSet
      /\ "proxy-enabled" \in Keys /\ "proxy" \in Keys
  BY SessionAssumption DEF ProxyKeys
<1>2. DOMAIN f = Keys
  BY DEF Flats
<1>3. /\ ReadSetting(f, "proxy", "") = Address(f)
      /\ ReadSetting(f, "proxy-enabled", Off) = Enabled(f)
  BY <1>1, <1>2 DEF ReadSetting, Address, Enabled, Shown
<1>4. Enabled(Empty) = Off /\ Address(Empty) = ""
  BY <1>1 DEF Enabled, Address, Shown, Empty
<1>5. Proxy(Off, v) = "none" /\ Proxy(v, "") = "none"
  BY DEF Proxy, On, Off
<1> QED BY <1>3, <1>4, <1>5 DEF ProxyEffect

\* The same of what a call with the app's own values does.
LEMMA ProxyMerged ==
    ASSUME NEW f \in Flats, ProxyKeys \subseteq Keys, NEW k \in ProxyKeys
    PROVE  ProxyEffect(k, Shown(f, k), Merged(f)).proxy
             = Proxy(Enabled(f), Address(f))
<1>1. "proxy-enabled" \in Keys /\ "proxy" \in Keys /\ Unset = NotSet
  BY SessionAssumption DEF ProxyKeys
<1>2. \A j \in Keys : Shown(f, j) # NotSet
  <2>1. \A j \in Keys : Default[j] \in Values
    BY SessionAssumption
  <2> QED BY <1>1, <2>1, DaemonAssumption DEF Shown
<1>3. /\ ReadSetting(Merged(f), "proxy", "") = Address(f)
      /\ ReadSetting(Merged(f), "proxy-enabled", Off) = Enabled(f)
  BY <1>1, <1>2 DEF ReadSetting, Merged, Address, Enabled
<1>4. k = "proxy" \/ k = "proxy-enabled"
  BY DEF ProxyKeys
<1> QED BY <1>3, <1>4 DEF ProxyEffect, Address, Enabled

\* A daemon's step that has nothing to do with the proxy: its list stays as
\* far as the two keys go, or it reads the file.
SameList(d) ==
    /\ cur'[d] = cur[d] /\ full'[d] = full[d]
    /\ todo'[d] \cap ProxyKeys = todo[d] \cap ProxyKeys
Rereads(d) ==
    /\ todo[d] = {} /\ cur'[d] = MergedFlat
    /\ \/ ~full'[d]
       \/ todo'[d] = AllKeys(MergedFlat)
       \/ full[d] /\ todo'[d] = ChangedKeys(cur[d], MergedFlat)

\* The steps that do not apply a proxy key and do not touch the file or the
\* app's copy.
Calm ==
    \/ AppStops \/ AppLaunches
    \/ AppApply /\ call \notin ProxyKeys
    \/ \E d \in Daemons :
          \/ \E k \in Keys : \/ DaemonApplies(d, k) /\ k \notin ProxyKeys
                             \/ DaemonStops(d, k) \/ DaemonLaunches(d, k)
          \/ DaemonLoops(d)

\* Such a step does not change the proxy, and leaves every daemon's list as
\* it is or reads the file.
LEMMA ProxyFrame ==
    ASSUME Base, ActorInv, SlotInv, Calm
    PROVE  /\ SlotInv' /\ targets'.shows["proxy"] = targets.shows["proxy"]
           /\ call' \in ProxyKeys <=> call \in ProxyKeys
           /\ \A d \in Daemons : SameList(d) \/ Rereads(d)
<1>1. /\ TypeOK /\ PassInv /\ TargetsOK(targets)
      /\ todo \in [Daemons -> SUBSET Keys]
      /\ App \in Actors /\ Daemons \subseteq Actors /\ App \notin Daemons
      /\ Nothing \notin ProxyKeys /\ LaunchKeys \cap ProxyKeys = {}
      /\ call \in Keys \cup {Nothing} /\ Nothing \notin Keys
  BY SessionAssumption
     DEF Base, SessionInv, SessionTypeOK, IInv, TypeOK, Actors, Nothing,
         ProxyKeys, LaunchKeys
<1> DEFINE Goal == /\ SlotInv'
                   /\ targets'.shows["proxy"] = targets.shows["proxy"]
                   /\ call' \in ProxyKeys <=> call \in ProxyKeys
                   /\ \A d \in Daemons : SameList(d) \/ Rereads(d)
<1>2. ASSUME UNCHANGED <<cur, todo, full>>,
             call' = call \/ (call \notin ProxyKeys /\ call' = Nothing),
             \/ targets'.shows = targets.shows
             \/ \E k, v, u : k \notin ProxyKeys /\ targets' = Apply(targets, k, v, u)
      PROVE  Goal
  <2>1. /\ call' \in ProxyKeys <=> call \in ProxyKeys
        /\ \A d \in Daemons : SameList(d)
    BY <1>1, <1>2 DEF SameList
  <2>2. SlotInv' /\ targets'.shows["proxy"] = targets.shows["proxy"]
    BY <1>1, <1>2, ApplyProxy DEF SlotInv
  <2> QED BY <2>1, <2>2
<1>3. CASE AppStops
  <2>1. call \in Keys \cap LaunchKeys /\ targets' = Stopped(targets, call)
        /\ UNCHANGED <<cur, todo, full, call>>
    BY <1>1, <1>3 DEF AppStops, vars, daemonVars, LaunchKeys, Nothing
  <2>2. targets'.shows = targets.shows
    BY <1>1, <2>1, CountFacts
  <2> QED BY <1>2, <2>1, <2>2
<1>4. CASE AppLaunches
  <2>1. call \in Keys \cap LaunchKeys /\ call' = Nothing
        /\ UNCHANGED <<cur, todo, full>>
        /\ targets' \in {targets, Launched(targets, call)}
    BY <1>1, <1>4
       DEF AppLaunches, ActorInv, vars, daemonVars, LaunchKeys, Nothing
  <2>2. targets'.shows = targets.shows
    BY <1>1, <2>1, CountFacts
  <2>3. call \notin ProxyKeys
    BY <1>1, <2>1
  <2> QED BY <1>2, <2>1, <2>2, <2>3
<1>5. CASE AppApply /\ call \notin ProxyKeys
  <2>1. call' = Nothing /\ UNCHANGED <<cur, todo, full>>
        /\ \E v, u : targets' = Apply(targets, call, v, u)
    BY <1>5 DEF AppApply, vars, daemonVars
  <2> QED BY <1>2, <1>5, <2>1
<1>6. ASSUME NEW d \in Daemons, NEW k \in Keys, k \notin ProxyKeys,
             UNCHANGED <<cur, full, call>>,
             todo' = [todo EXCEPT ![d] = todo[d] \ {k}]
      PROVE  /\ call' \in ProxyKeys <=> call \in ProxyKeys
             /\ \A e \in Daemons : SameList(e)
  <2>1. todo'[d] = todo[d] \ {k}
        /\ \A e \in Daemons : e # d => todo'[e] = todo[e]
    BY <1>1, <1>6
  <2> QED BY <1>6, <2>1 DEF SameList
<1>7. ASSUME NEW d \in Daemons, NEW k \in Keys, DaemonApplies(d, k),
             k \notin ProxyKeys
      PROVE  Goal
  <2>1. /\ UNCHANGED <<cur, full, call>>
        /\ todo' = [todo EXCEPT ![d] = todo[d] \ {k}]
        /\ targets' = Apply(targets, k, cur[d][k], file)
    BY <1>1, <1>7, ApplyFacts DEF DaemonApplies
  <2>2. SlotInv' /\ targets'.shows["proxy"] = targets.shows["proxy"]
    BY <1>1, <1>7, <2>1, ApplyProxy DEF SlotInv
  <2> QED BY <1>6, <1>7, <2>1, <2>2
<1>8. ASSUME NEW d \in Daemons, NEW k \in Keys, DaemonStops(d, k) PROVE Goal
  <2>1. k \in Keys \cap LaunchKeys /\ targets' = Stopped(targets, k)
        /\ UNCHANGED <<cur, todo, full, call>>
    BY <1>8 DEF DaemonStops, vars, daemonVars
  <2>2. targets'.shows = targets.shows
    BY <1>1, <2>1, CountFacts
  <2> QED BY <1>2, <2>1, <2>2
<1>9. ASSUME NEW d \in Daemons, NEW k \in Keys, DaemonLaunches(d, k) PROVE Goal
  <2>1. /\ UNCHANGED <<cur, full, call>> /\ between[d] = k
        /\ todo' = [todo EXCEPT ![d] = todo[d] \ {k}]
        /\ targets' \in {targets, Launched(targets, k)}
    BY <1>1, <1>9, ApplyFacts DEF DaemonLaunches
  <2>2. k \in Keys \cap LaunchKeys
    BY <1>1, <2>1 DEF ActorInv
  <2>3. targets'.shows = targets.shows /\ k \notin ProxyKeys
    BY <1>1, <2>1, <2>2, CountFacts
  <2> QED BY <1>6, <2>1, <2>3 DEF SlotInv
<1>10. ASSUME NEW d \in Daemons, DaemonLoops(d) PROVE Goal
  <2>1. /\ UNCHANGED sessionVars
        /\ \A e \in Daemons : e # d =>
              cur'[e] = cur[e] /\ todo'[e] = todo[e] /\ full'[e] = full[e]
        /\ \/ cur'[d] = cur[d] /\ todo'[d] = todo[d] /\ full'[d] = full[d]
           \/ Rereads(d)
    BY <1>1, <1>10, LoopFacts DEF Rereads
  <2>2. \A e \in Daemons : SameList(e) \/ Rereads(e)
    BY <2>1 DEF SameList
  <2> QED BY <2>1, <2>2 DEF sessionVars, SlotInv
<1> QED
  BY <1>3, <1>4, <1>5, <1>7, <1>8, <1>9, <1>10 DEF Calm

\* They keep what holds of every pair of values, and what was read.
LEMMA ProxyCalm ==
    ASSUME Base, ActorInv, SlotInv, Calm, ProxyKeys \subseteq Keys
    PROVE  /\ SlotInv'
           /\ ReadInv => ReadInv'
           /\ \A v, w : ProxyOK(v, w) => ProxyOK(v, w)'
<1>1. /\ SlotInv' /\ targets'.shows["proxy"] = targets.shows["proxy"]
      /\ call' \in ProxyKeys <=> call \in ProxyKeys
      /\ \A d \in Daemons : SameList(d) \/ Rereads(d)
  BY ProxyFrame
<1>2. UNCHANGED <<file, torn, mem, open, raced>>
  BY CalmFrame DEF Calm
<1>3. /\ MergedFlat["proxy-enabled"] = Enabled(file)
      /\ MergedFlat["proxy"] = Address(file)
      /\ ProxyKeys \subseteq AllKeys(MergedFlat)
  <2>1. \A k \in ProxyKeys : MergedFlat[k] = Shown(file, k) /\ MergedFlat[k] # Unset
    BY MergedShown DEF Base, IInv, TypeOK
  <2>2. "proxy-enabled" \in ProxyKeys /\ "proxy" \in ProxyKeys
    BY DEF ProxyKeys
  <2> QED BY <2>1, <2>2 DEF AllKeys, Enabled, Address
<1>4. ReadInv => ReadInv'
  <2> SUFFICES ASSUME ReadInv, (torn \/ (open /\ ~SameProxy(mem, file)))',
                      NEW d \in Daemons, full'[d], todo'[d] \cap ProxyKeys # {}
               PROVE  HasRead(d, file)' \/ HasRead(d, Empty)'
    BY DEF ReadInv
  <2>1. torn \/ (open /\ ~SameProxy(mem, file))
    BY <1>2 DEF SameProxy, Enabled, Address, Shown
  <2>2. HasRead(d, file)' <=> /\ cur'[d]["proxy-enabled"] = Enabled(file)
                              /\ cur'[d]["proxy"] = Address(file)
    BY <1>2 DEF HasRead, Enabled, Address, Shown
  <2>3. HasRead(d, Empty)' <=> /\ cur'[d]["proxy-enabled"] = Enabled(Empty)
                               /\ cur'[d]["proxy"] = Address(Empty)
    BY DEF HasRead, Enabled, Address, Shown, Empty
  <2>4. CASE SameList(d)
    <3>1. HasRead(d, file) \/ HasRead(d, Empty)
      BY <2>1, <2>4 DEF ReadInv, SameList
    <3> QED BY <2>2, <2>3, <2>4, <3>1 DEF SameList, HasRead
  <2>5. CASE Rereads(d)
    BY <1>3, <2>2, <2>5 DEF Rereads
  <2> QED BY <1>1, <2>4, <2>5
<1>5. ASSUME NEW v, NEW w, ProxyOK(v, w) PROVE ProxyOK(v, w)'
  <2>1. ASSUME ProxyDone(v, w)' PROVE ProxyDone(v, w)
    <3>1. call \notin ProxyKeys
      BY <1>1, <2>1 DEF ProxyDone
    <3>2. ASSUME NEW d \in Daemons
          PROVE  /\ full[d]
                 /\ cur[d]["proxy-enabled"] = v /\ cur[d]["proxy"] = w
                 /\ todo[d] \cap ProxyKeys = {}
      <4>1. /\ full'[d]
            /\ cur'[d]["proxy-enabled"] = v /\ cur'[d]["proxy"] = w
            /\ todo'[d] \cap ProxyKeys = {}
        BY <2>1 DEF ProxyDone
      <4>2. CASE SameList(d)
        BY <4>1, <4>2 DEF SameList
      <4>3. CASE Rereads(d)
        <5>1. "proxy-enabled" \in ProxyKeys /\ "proxy" \in ProxyKeys
          BY DEF ProxyKeys
        <5>2. full[d] /\ todo'[d] = ChangedKeys(cur[d], MergedFlat)
          BY <1>3, <4>1, <4>3, <5>1 DEF Rereads
        <5>3. \A k \in ProxyKeys : cur[d][k] = MergedFlat[k]
          BY <1>3, <4>1, <5>2 DEF ChangedKeys
        <5> QED BY <4>1, <4>3, <5>1, <5>2, <5>3 DEF Rereads
      <4> QED BY <1>1, <4>2, <4>3
    <3> QED BY <3>1, <3>2 DEF ProxyDone
  <2> QED BY <1>1, <1>5, <2>1 DEF ProxyOK
<1> QED BY <1>1, <1>4, <1>5

\* Every step keeps the proxy right for the values that matter.
LEMMA ProxyStep ==
    ASSUME Base, ActorInv, ProxyInv, [SNext]_allVars
    PROVE  ProxyInv'
<1> SUFFICES ASSUME ProxyKeys \subseteq Keys PROVE ProxyInv'
  BY DEF ProxyInv
<1> DEFINE Right == Daemons # {} /\ ~raced => ProxyFor /\ ReadInv
<1>1. /\ TypeOK /\ PassInv /\ TargetsOK(targets) /\ file \in Flats
      /\ todo \in [Daemons -> SUBSET Keys]
      /\ Nothing \notin ProxyKeys /\ SlotInv /\ Right /\ mem \in Flats
      /\ "proxy-enabled" \in ProxyKeys /\ "proxy" \in ProxyKeys
  BY DEF Base, SessionInv, SessionTypeOK, IInv, TypeOK, Nothing, ProxyKeys,
         ProxyInv
<1>2. SUFFICES SlotInv' /\ Right'
  BY DEF ProxyInv
<1>3. ASSUME UNCHANGED <<file, torn, mem, open, raced>>, SlotInv',
             ReadInv => ReadInv',
             \A v, w : ProxyOK(v, w) => ProxyOK(v, w)'
      PROVE  SlotInv' /\ Right'
  <2>1. /\ Enabled(file)' = Enabled(file) /\ Address(file)' = Address(file)
        /\ Enabled(mem)' = Enabled(mem) /\ Address(mem)' = Address(mem)
    BY <1>3 DEF Enabled, Address, Shown
  <2> QED BY <1>1, <1>3, <2>1 DEF ProxyFor
<1>4. ASSUME UNCHANGED <<cur, todo, full, targets>>,
             call' \notin ProxyKeys => call \notin ProxyKeys
      PROVE  SlotInv' /\ \A v, w : ProxyOK(v, w) => ProxyOK(v, w)'
  BY <1>1, <1>4 DEF SlotInv, ProxyOK, ProxyDone
<1>5. CASE UNCHANGED allVars
  <2>1. UNCHANGED <<file, torn, mem, open, raced>>
        /\ UNCHANGED <<cur, todo, full, targets, call>>
    BY <1>5 DEF allVars, vars, sessionVars, daemonVars, fileVars
  <2>2. ReadInv => ReadInv'
    BY <2>1
       DEF ReadInv, HasRead, SameProxy, Enabled, Address, Shown, Empty
  <2> QED BY <1>3, <1>4, <2>1, <2>2
<1>6. CASE Calm
  <2>1. UNCHANGED <<file, torn, mem, open, raced>>
    BY <1>6, CalmFrame DEF Calm
  <2>2. SlotInv' /\ (ReadInv => ReadInv')
    BY <1>1, <1>6, ProxyCalm
  <2>3. \A v, w : ProxyOK(v, w) => ProxyOK(v, w)'
    BY <1>1, <1>6, ProxyCalm
  <2> HIDE DEF Right
  <2> QED BY <1>3, <2>1, <2>2, <2>3
<1>7. CASE AppApply /\ call \in ProxyKeys
  <2>1. /\ targets' = Apply(targets, call, Shown(mem, call), Merged(mem))
        /\ UNCHANGED <<cur, todo, full, file, torn, mem, open, raced>>
    BY <1>7 DEF AppApply, vars, daemonVars, fileVars
  <2>2. SlotInv' /\ targets'.shows["proxy"] = Proxy(Enabled(mem), Address(mem))
    BY <1>1, <1>7, <2>1, ApplyProxy, ProxyMerged DEF SlotInv
  <2>3. ASSUME ~raced PROVE ~torn /\ mem = file
    BY <1>1, <1>7, <2>3 DEF ActorInv
  <2>4. ProxyOK(Enabled(mem), Address(mem))'
    <3>1. Enabled(mem)' = Enabled(mem) /\ Address(mem)' = Address(mem)
      BY <2>1 DEF Enabled, Address, Shown
    <3> QED BY <2>2, <3>1 DEF ProxyOK
  <2>5. ASSUME ~raced PROVE ProxyFor' /\ ReadInv'
    <3>1. /\ Enabled(mem)' = Enabled(file)' /\ Address(mem)' = Address(file)'
          /\ ~torn'
      BY <2>1, <2>3, <2>5
    <3> QED BY <2>4, <3>1 DEF ProxyFor, ReadInv, SameProxy
  <2> QED BY <2>1, <2>2, <2>5
<1>8. ASSUME NEW d \in Daemons, NEW k \in ProxyKeys, DaemonApplies(d, k)
      PROVE  SlotInv' /\ Right'
  <2>1. /\ k \in todo[d] /\ targets' = Apply(targets, k, cur[d][k], file)
        /\ todo' = [todo EXCEPT ![d] = todo[d] \ {k}]
        /\ UNCHANGED <<file, torn, cur, full, mem, open, raced, call>>
    BY <1>1, <1>8, ApplyFacts DEF DaemonApplies
  <2>2. SlotInv' /\ targets'.shows["proxy"] = ProxyEffect(k, cur[d][k], file).proxy
    BY <1>1, <2>1, ApplyProxy DEF SlotInv
  <2>3. ReadInv => ReadInv'
    <3>1. \A e \in Daemons : todo'[e] \subseteq todo[e]
      BY <1>1, <2>1
    <3> QED BY <2>1, <3>1
            DEF ReadInv, HasRead, SameProxy, Enabled, Address, Shown, Empty
  <2>4. ASSUME NEW v, NEW w, ProxyDone(v, w)',
               \/ v = Enabled(file) /\ w = Address(file)
               \/ ReadInv /\ (torn \/ (open /\ ~SameProxy(mem, file)))
        PROVE  targets'.shows["proxy"] = Proxy(v, w)
    <3>1. full[d] /\ cur[d]["proxy-enabled"] = v /\ cur[d]["proxy"] = w
      BY <2>1, <2>4 DEF ProxyDone
    <3>2. ProxyEffect(k, cur[d][k], file).proxy
            = IF k = "proxy" THEN Proxy(Enabled(file), w)
                             ELSE Proxy(v, Address(file))
      <4>1. k = "proxy" \/ k = "proxy-enabled"
        BY DEF ProxyKeys
      <4>2. CASE k = "proxy"
        BY <1>1, <3>1, <4>2, ProxyRead
      <4>3. CASE k = "proxy-enabled"
        BY <1>1, <3>1, <4>3, ProxyRead
      <4> QED BY <4>1, <4>2, <4>3
    <3>3. \/ v = Enabled(file) /\ w = Address(file)
          \/ v = Off /\ w = ""
      BY <1>1, <2>1, <2>4, <3>1, ProxyRead DEF ReadInv, HasRead
    <3> QED BY <1>1, <2>2, <3>2, <3>3, ProxyRead
  <2>5. /\ Enabled(file)' = Enabled(file) /\ Address(file)' = Address(file)
        /\ Enabled(mem)' = Enabled(mem) /\ Address(mem)' = Address(mem)
    BY <2>1 DEF Enabled, Address, Shown
  <2>6. ASSUME ReadInv PROVE ProxyFor'
    <3>1. ProxyOK(Enabled(file), Address(file))'
      BY <2>4, <2>5 DEF ProxyOK
    <3>2. ASSUME open PROVE ProxyOK(Enabled(mem), Address(mem))'
      BY <2>4, <2>5, <2>6, <3>1, <3>2 DEF ProxyOK, SameProxy
    <3>3. ASSUME torn PROVE \A v, w : ProxyOK(v, w)'
      BY <2>4, <2>6, <3>3 DEF ProxyOK
    <3> QED BY <2>1, <3>1, <3>2, <3>3 DEF ProxyFor
  <2> QED BY <1>1, <2>1, <2>2, <2>3, <2>6
<1>9. CASE AppOpen
  <2>1. /\ ~open /\ open' /\ mem' = file /\ call' = call
        /\ UNCHANGED <<cur, todo, full, targets, file, torn, raced>>
    BY <1>9 DEF AppOpen, vars, daemonVars, fileVars
  <2>2. /\ Enabled(file)' = Enabled(file) /\ Address(file)' = Address(file)
        /\ Enabled(mem)' = Enabled(file) /\ Address(mem)' = Address(file)
    BY <2>1 DEF Enabled, Address, Shown
  <2>3. ReadInv => ReadInv'
    BY <2>1, <2>2 DEF ReadInv, HasRead, SameProxy, Enabled, Address, Shown, Empty
  <2>4. ProxyFor => ProxyFor'
    BY <1>4, <2>1, <2>2 DEF ProxyFor
  <2> QED BY <1>1, <1>4, <2>1, <2>3, <2>4
<1>10. CASE AppClose
  <2>1. /\ ~open' /\ call' = call
        /\ UNCHANGED <<cur, todo, full, targets, file, torn, raced>>
    BY <1>10 DEF AppClose, vars, daemonVars, fileVars
  <2>2. Enabled(file)' = Enabled(file) /\ Address(file)' = Address(file)
    BY <2>1 DEF Enabled, Address, Shown
  <2>3. ReadInv => ReadInv'
    BY <2>1, <2>2 DEF ReadInv, HasRead, SameProxy, Enabled, Address, Shown, Empty
  <2>4. ProxyFor => ProxyFor'
    BY <1>4, <2>1, <2>2 DEF ProxyFor
  <2> QED BY <1>1, <1>4, <2>1, <2>3, <2>4
<1>11. ASSUME NEW k \in Keys, NEW v \in ValuesOf[k], AppSet(k, v)
       PROVE  SlotInv' /\ Right'
  <2>1. /\ open /\ call = Nothing /\ call' = k /\ ~torn' /\ open'
        /\ mem' = [mem EXCEPT ![k] = v] /\ file' = mem'
        /\ UNCHANGED <<cur, todo, full, targets, raced>>
    BY <1>11 DEF AppSet, Replace, WriteFile
  <2>2. SlotInv' /\ \A x, y : ProxyOK(x, y) => ProxyOK(x, y)'
    BY <1>1, <1>4, <2>1
  <2>3. ReadInv'
    BY <2>1 DEF ReadInv, SameProxy, Enabled, Address
  <2>4. CASE k \in ProxyKeys
    <3>1. \A x, y : ProxyOK(x, y)'
      BY <2>1, <2>4 DEF ProxyOK, ProxyDone
    <3> QED BY <2>2, <2>3, <3>1 DEF ProxyFor
  <2>5. CASE k \notin ProxyKeys
    <3>1. mem'["proxy"] = mem["proxy"]
          /\ mem'["proxy-enabled"] = mem["proxy-enabled"]
      BY <1>1, <2>1, <2>5 DEF Flats
    <3>2. /\ Enabled(mem)' = Enabled(mem) /\ Address(mem)' = Address(mem)
          /\ Enabled(file)' = Enabled(mem) /\ Address(file)' = Address(mem)
      BY <2>1, <3>1 DEF Enabled, Address, Shown
    <3> QED BY <1>1, <2>1, <2>2, <2>3, <3>2 DEF ProxyFor
  <2> QED BY <2>4, <2>5
<1>12. CASE OtherWrites
  <2>1. UNCHANGED <<cur, todo, full, targets, call, mem, open>>
    BY <1>12 DEF OtherWrites, Replace, Truncate, Fill, WriteFile
  <2>2. SlotInv' /\ \A v, w : ProxyOK(v, w) => ProxyOK(v, w)'
    BY <1>4, <2>1
  <2>3. ASSUME Replace(file') \/ Truncate, raced' = (raced \/ OnItsWay),
               Daemons # {}, ~raced'
        PROVE  ProxyFor' /\ ReadInv'
    <3>1. /\ ~raced /\ call = Nothing
          /\ \A d \in Daemons : full[d] => todo[d] = {} /\ cur[d] = MergedFlat
      BY <2>3, CaughtUp
    <3>2. ASSUME NEW v, NEW w PROVE ProxyOK(v, w)'
      <4>1. CASE v = Enabled(file) /\ w = Address(file)
        BY <1>1, <2>2, <2>3, <3>1, <4>1 DEF ProxyFor
      <4>2. CASE v # Enabled(file) \/ w # Address(file)
        <5>1. PICK d \in Daemons : TRUE
          BY <2>3
        <5>2. /\ MergedFlat["proxy-enabled"] = Enabled(file)
              /\ MergedFlat["proxy"] = Address(file)
          BY <1>1, MergedShown DEF Enabled, Address
        <5>3. ~(/\ full[d] /\ cur[d]["proxy-enabled"] = v
                /\ cur[d]["proxy"] = w)
          BY <3>1, <4>2, <5>2
        <5> QED BY <2>1, <5>3 DEF ProxyOK, ProxyDone
      <4> QED BY <4>1, <4>2
    <3>3. ReadInv'
      BY <2>1, <3>1 DEF ReadInv
    <3> QED BY <3>2, <3>3 DEF ProxyFor
  <2>4. ASSUME torn, ~torn', raced' = raced, Daemons # {}, ~raced'
        PROVE  ProxyFor' /\ ReadInv'
    <3>1. /\ ReadInv /\ file = Empty
          /\ \A v, w : ProxyOK(v, w)
      BY <1>1, <2>4 DEF ActorInv, ProxyFor
    <3>2. ASSUME NEW d \in Daemons, full'[d], todo'[d] \cap ProxyKeys # {}
          PROVE  HasRead(d, Empty)'
      <4>1. HasRead(d, Empty)
        BY <2>1, <2>4, <3>1, <3>2 DEF ReadInv
      <4> QED BY <2>1, <4>1 DEF HasRead, Enabled, Address, Shown, Empty
    <3> QED BY <2>2, <2>4, <3>1, <3>2 DEF ProxyFor, ReadInv
  <2>5. \/ (Replace(file') \/ Truncate) /\ raced' = (raced \/ OnItsWay)
        \/ torn /\ ~torn' /\ raced' = raced
    BY <1>12 DEF OtherWrites, Replace, Fill, WriteFile
  <2> QED BY <2>2, <2>3, <2>4, <2>5
<1> QED
  BY <1>5, <1>6, <1>7, <1>8, <1>9, <1>10, <1>11, <1>12 DEF SNext, Calm

---------------------------------------------------------------------------
(* The theorems.                                                           *)

\* Before anything was applied no daemon has begun its full pass.
LEMMA InitShown ==
    ASSUME SInit
    PROVE  ActorInv /\ ProgramInv /\ ProxyInv
<1>1. /\ Init /\ open = FALSE /\ call = Nothing /\ torn = FALSE
      /\ targets = Fresh(Keys)
      /\ \A a \in Actors : between[a] = Nothing
      /\ \A d \in Daemons : full[d] = FALSE
  BY DEF SInit, Init
<1>2. ActorInv
  BY <1>1 DEF ActorInv, Actors
<1>3. ASSUME Daemons # {}
      PROVE  /\ \A k, v : ProgramOK(k, v)
             /\ \A v, w : ProxyOK(v, w)
  <2>1. PICK d \in Daemons : TRUE
    BY <1>3
  <2> QED BY <1>1, <2>1 DEF ProgramOK, ProgramDone, ProxyOK, ProxyDone
<1>4. ProgramInv
  BY <1>3 DEF ProgramInv, ProgramsFor
<1>5. ASSUME ProxyKeys \subseteq Keys PROVE SlotInv
  <2>1. "proxy" \in Keys /\ SlotsOf("proxy") = {"proxy"}
    BY <1>5 DEF ProxyKeys, SlotsOf, MonitorKeys, StoredKeys
  <2>2. DOMAIN targets.shows = UNION {SlotsOf(k) : k \in Keys}
    BY <1>1 DEF Fresh
  <2> QED BY <2>1, <2>2 DEF SlotInv
<1>6. ReadInv
  BY <1>1 DEF ReadInv
<1>7. ProxyInv
  BY <1>3, <1>5, <1>6 DEF ProxyInv, ProxyFor
<1> QED BY <1>2, <1>4, <1>7

\* What the steps lean on holds in every reachable state.
LEMMA ShownInductive == SSpec => [](Base /\ ActorInv /\ ProgramInv /\ ProxyInv)
<1>1. SInit => ActorInv /\ ProgramInv /\ ProxyInv
  BY InitShown
<1>2. Base /\ ActorInv /\ ProgramInv /\ ProxyInv /\ [SNext]_allVars
        => ActorInv' /\ ProgramInv' /\ ProxyInv'
  BY ActorStep, ProgramStep, ProxyStep
<1>3. SSpec => []Base
  BY SessionInductive, SessionImplementsDaemons, Inductive, PTL DEF Base
<1> QED BY <1>1, <1>2, <1>3, PTL DEF SSpec

\* A session at rest, in which every daemon has read the file as it is.
LEMMA AtRest ==
    ASSUME Base, Quiet
    PROVE  /\ call = Nothing /\ ~raced /\ Daemons # {} /\ file \in Flats
           /\ \A d \in Daemons :
                 full[d] /\ todo[d] = {} /\ cur[d] = MergedFlat
<1>1. /\ call = Nothing /\ ~raced /\ Daemons # {} /\ file \in Flats
      /\ \A d \in Daemons : Idle(d) /\ ~missed[d] /\ full[d]
  BY DEF Quiet, Quiescent, Base, IInv, TypeOK
<1>2. ASSUME NEW d \in Daemons PROVE todo[d] = {} /\ cur[d] = MergedFlat
  <2>1. ~missed[d] /\ pc[d] = "sleep" /\ last[d] = mtime
    BY <1>1, <1>2 DEF Idle
  <2>2. cur[d] = MergedFlat
    BY <2>1 DEF Base, IInv, KnowInv, Knows
  <2>3. todo[d] = {}
    BY <2>1 DEF Base, IInv, PassInv
  <2> QED BY <2>2, <2>3
<1> QED BY <1>1, <1>2

\* For any number of daemons, any keys and however the app's calls and the
\* daemons' passes interleave between killing a program and starting it: in a
\* session at rest the night light and the magnifier run exactly if the file
\* has them on (apply_night_light and apply_magnifier in applier.py).
THEOREM ProgramsAreShown == SSpec => []ProgramsShown
<1>1. Base /\ ActorInv /\ ProgramInv /\ ProxyInv => ProgramsShown
  <2> SUFFICES ASSUME Base, ProgramInv, Quiet, NEW k \in Keys \cap LaunchKeys
               PROVE  targets.programs[k] > 0 <=> Shown(file, k) = On
    BY DEF ProgramsShown
  <2>1. /\ call = Nothing /\ ~raced /\ Daemons # {} /\ file \in Flats
        /\ \A d \in Daemons :
              full[d] /\ todo[d] = {} /\ cur[d] = MergedFlat
    BY AtRest
  <2>2. ProgramOK(k, Shown(file, k))
    BY <2>1 DEF ProgramInv, ProgramsFor
  <2>3. MergedFlat[k] = Shown(file, k) /\ call # k
    BY <2>1, MergedShown, SessionAssumption
  <2>4. ProgramDone(k, Shown(file, k))
    BY <2>1, <2>3 DEF ProgramDone
  <2> QED BY <2>2, <2>4 DEF ProgramOK
<1> QED BY <1>1, ShownInductive, PTL

\* Nor is the proxy left with the switch or the address of another moment,
\* though apply_proxy is called for each of the two keys by itself and reads
\* the other from the user's file, which a writer may just have truncated.
THEOREM ProxyIsShown == SSpec => []ProxyShown
<1>1. Base /\ ActorInv /\ ProgramInv /\ ProxyInv => ProxyShown
  <2> SUFFICES ASSUME Base, ProxyInv, Quiet, ProxyKeys \subseteq Keys
               PROVE  targets.shows["proxy"]
                        = Proxy(Shown(file, "proxy-enabled"),
                                Shown(file, "proxy"))
    BY DEF ProxyShown
  <2>1. /\ call = Nothing /\ ~raced /\ Daemons # {} /\ file \in Flats
        /\ \A d \in Daemons :
              full[d] /\ todo[d] = {} /\ cur[d] = MergedFlat
    BY AtRest
  <2>2. ProxyOK(Enabled(file), Address(file))
    BY <2>1 DEF ProxyInv, ProxyFor
  <2>3. /\ MergedFlat["proxy-enabled"] = Enabled(file)
        /\ MergedFlat["proxy"] = Address(file)
    BY <2>1, MergedShown DEF ProxyKeys, Enabled, Address
  <2>4. call \notin ProxyKeys
    BY <2>1 DEF ProxyKeys, Nothing
  <2>5. ProxyDone(Enabled(file), Address(file))
    BY <2>1, <2>3, <2>4 DEF ProxyDone
  <2> QED BY <2>2, <2>5 DEF ProxyOK, Enabled, Address
<1> QED BY <1>1, ShownInductive, PTL
=============================================================================
