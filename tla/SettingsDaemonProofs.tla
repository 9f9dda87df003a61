----------------------- MODULE SettingsDaemonProofs -----------------------
(***************************************************************************)
(* Proofs about SettingsDaemon, for any set of daemons, keys and values    *)
(* and any bounds.                                                         *)
(***************************************************************************)
EXTENDS SettingsDaemon, TLAPS

\* Bookkeeping of one daemon's pass that the other parts lean on.
PassInv ==
    \A d \in Daemons :
        /\ pc[d] \notin {"apply_all", "apply_changed"} => todo[d] = {}
        /\ full[d] => applier[d]
        /\ pc[d] \in {"waiting", "importing"} \cup {"killed"} => ~full[d]
        /\ last[d] <= mtime

\* What a daemon knows of the file, at each point of the loop.
Knows(d) ==
    \/ pc[d] \in ReadNotStamped
    \/ pc[d] \in {"sleep", "apply_changed"} /\ last[d] = mtime
KnowInv ==
    \A d \in Daemons : Knows(d) /\ ~missed[d] => cur[d] = MergedFlat

\* Some daemon answers for what the session runs under key k: it gave the
\* value itself and still believes in it, or is about to give another.
Covered(k) ==
    \E d \in Daemons : k \in todo[d] \/ cur[d][k] \in {live[k], Unset}
CoverInv ==
    Daemons # {} /\ failures = 0 /\ (\A d \in Daemons : full[d])
        => \A k \in Keys : Covered(k)

\* The strengthening under which NoSilentMiss and QuiescentInSync are
\* inductive.
IInv == TypeOK /\ PassInv /\ KnowInv /\ CoverInv

\* The merged view is a flat dictionary.
LEMMA MergedFlatType ==
    ASSUME file \in Flats
    PROVE  MergedFlat \in Flats
BY DaemonAssumption DEF MergedFlat, Flats, Settable

---------------------------------------------------------------------------
\* The initial state satisfies the invariant.
LEMMA InitIInv == ASSUME Init PROVE IInv
<1>1. Empty \in Flats
  BY DEF Empty, Flats, Settable
<1>2. TypeOK
  <2>1. package \in Packages
    BY DEF Init, Packages
  <2>2. pc \in [Daemons -> Labels]
    BY DEF Init, Labels
  <2>3. /\ file \in Flats /\ live \in Flats
        /\ cur \in [Daemons -> Flats] /\ todo \in [Daemons -> SUBSET Keys]
    BY <1>1 DEF Init
  <2>4. mtime \in Nat /\ last \in [Daemons -> Nat]
    BY DEF Init
  <2>5. /\ onPath \in [Daemons -> BOOLEAN] /\ applier \in [Daemons -> BOOLEAN]
        /\ reload \in [Daemons -> BOOLEAN] /\ running \in [Daemons -> BOOLEAN]
        /\ full \in [Daemons -> BOOLEAN] /\ missed \in [Daemons -> BOOLEAN]
    BY DEF Init
  <2> QED BY <2>1, <2>2, <2>3, <2>4, <2>5 DEF Init, TypeOK
<1>3. PassInv /\ KnowInv
  BY DEF Init, PassInv, KnowInv, Knows, ReadNotStamped
<1>4. CoverInv
  BY DEF Init, CoverInv
<1> QED BY <1>2, <1>3, <1>4 DEF IInv

\* Every step preserves the types.
LEMMA TypeStep ==
    ASSUME TypeOK, [Next]_vars
    PROVE  TypeOK'
<1> USE DEF TypeOK, Labels, Ended, Packages, fileVars, daemonVars, budgetVars
<1>1. MergedFlat \in Flats
  BY MergedFlatType
<1>2. Empty \in Flats
  BY DEF Empty, Flats, Settable
<1>3. ASSUME NEW f \in Flats, WriteFile(f), torn' \in BOOLEAN PROVE TypeOK'
  BY <1>3 DEF WriteFile, ReadNotStamped
<1>4. ASSUME NEW f \in Flats, Replace(f) \/ Overtake(f) PROVE TypeOK'
  BY <1>3, <1>4 DEF Replace, Overtake
<1>5. CASE Truncate
  BY <1>2, <1>3, <1>5 DEF Truncate
<1>6. ASSUME NEW f \in Flats, Fill(f) PROVE TypeOK'
  BY <1>3, <1>6 DEF Fill
<1>7. CASE Install \/ Abandon
  BY <1>7 DEF Install, Abandon
<1>8. ASSUME NEW d \in Daemons, MainLoop(d) PROVE TypeOK'
  <2>1. CASE HyprlandReady(d)
    BY <2>1 DEF HyprlandReady, Goto
  <2>2. CASE ImportApplier(d)
    BY <2>2 DEF ImportApplier, Goto, CanImport
  <2>3. CASE ReadAll(d)
    BY <1>1, <2>3 DEF ReadAll, Goto, AllKeys
  <2>4. ASSUME NEW k \in Keys, ApplyKey(d, k) PROVE TypeOK'
    <3>1. cur[d][k] \in Settable
      BY DEF Flats
    <3>2. live' \in Flats
      BY <2>4, <3>1 DEF ApplyKey, Flats
    <3> QED BY <2>4, <3>2 DEF ApplyKey
  <2>5. ASSUME NEW k \in Keys, ApplyFails(d, k) PROVE TypeOK'
    BY <2>5 DEF ApplyFails
  <2>6. CASE PassDone(d)
    BY <2>6 DEF PassDone, Goto
  <2>7. CASE StampFile(d)
    BY <2>7 DEF StampFile, Goto
  <2>8. CASE Stop(d)
    BY <2>8 DEF Stop, Goto
  <2>9. CASE Wake(d)
    <3>1. applier' \in [Daemons -> BOOLEAN]
      BY <2>9 DEF Wake, CanImport
    <3>2. pc' \in [Daemons -> Labels]
      BY <2>9 DEF Wake, Goto
    <3>3. last' \in [Daemons -> Nat]
      BY <2>9 DEF Wake
    <3>4. reload' \in [Daemons -> BOOLEAN]
      BY <2>9 DEF Wake
    <3> QED BY <2>9, <3>1, <3>2, <3>3, <3>4 DEF Wake
  <2>10. CASE ReadChanged(d)
    BY <1>1, <2>10 DEF ReadChanged, Goto, ChangedKeys, AllKeys
  <2> QED
    BY <1>8, <2>1, <2>2, <2>3, <2>4, <2>5, <2>6, <2>7, <2>8, <2>9, <2>10
       DEF MainLoop
<1>9. ASSUME NEW d \in Daemons, Outside(d) PROVE TypeOK'
  <2>1. CASE Sighup(d)
    BY <2>1 DEF Sighup
  <2>2. CASE Sigterm(d)
    BY <2>2 DEF Sigterm
  <2>3. CASE Kill(d)
    BY <1>2, <2>3 DEF Kill
  <2>4. CASE Restart(d)
    BY <2>4 DEF Restart
  <2> QED BY <1>9, <2>1, <2>2, <2>3, <2>4 DEF Outside
<1>10. CASE UNCHANGED vars
  BY <1>10 DEF vars
<1> QED
  BY <1>4, <1>5, <1>6, <1>7, <1>8, <1>9, <1>10 DEF Next, Writers
---------------------------------------------------------------------------
\* Every step preserves the bookkeeping.
LEMMA PassStep ==
    ASSUME TypeOK, PassInv, [Next]_vars
    PROVE  PassInv'
<1> USE DEF PassInv, fileVars, daemonVars, budgetVars
<1> USE DEF TypeOK
<1>1. ASSUME NEW f, WriteFile(f) PROVE PassInv'
  BY <1>1 DEF WriteFile
<1>2. CASE Writers
  BY <1>1, <1>2 DEF Writers, Replace, Overtake, Truncate, Fill, Abandon
<1>3. CASE Install
  BY <1>3 DEF Install
<1>4. ASSUME NEW d \in Daemons, MainLoop(d) PROVE PassInv'
  <2>1. CASE HyprlandReady(d)
    BY <2>1 DEF HyprlandReady, Goto
  <2>2. CASE ImportApplier(d)
    BY <2>2 DEF ImportApplier, Goto
  <2>3. CASE ReadAll(d)
    BY <2>3 DEF ReadAll, Goto
  <2>4. ASSUME NEW k \in Keys, ApplyKey(d, k) \/ ApplyFails(d, k)
        PROVE  PassInv'
    BY <2>4 DEF ApplyKey, ApplyFails, Applying
  <2>5. CASE PassDone(d)
    BY <2>5 DEF PassDone, Goto, Applying
  <2>6. CASE StampFile(d)
    BY <2>6 DEF StampFile, Goto
  <2>7. CASE Stop(d)
    BY <2>7 DEF Stop, Goto
  <2>8. CASE Wake(d)
    <3>1. \A c \in Daemons : applier[c] => applier'[c]
      BY <2>8 DEF Wake
    <3>2. \A c \in Daemons : last'[c] <= mtime'
      BY <2>8 DEF Wake
    <3>3. \A c \in Daemons : \/ pc'[c] = pc[c]
                             \/ pc[c] = "sleep" /\ pc'[c] \in {"read_all", "read_changed"}
      BY <2>8 DEF Wake, Goto
    <3>4. UNCHANGED <<todo, full>>
      BY <2>8 DEF Wake
    <3> QED BY <3>1, <3>2, <3>3, <3>4
  <2>9. CASE ReadChanged(d)
    BY <2>9 DEF ReadChanged, Goto
  <2> QED
    BY <1>4, <2>1, <2>2, <2>3, <2>4, <2>5, <2>6, <2>7, <2>8, <2>9
       DEF MainLoop
<1>5. ASSUME NEW d \in Daemons, Outside(d) PROVE PassInv'
  <2>1. CASE Sighup(d) \/ Sigterm(d)
    BY <2>1 DEF Sighup, Sigterm
  <2>2. CASE Kill(d)
    BY <2>2 DEF Kill
  <2>3. CASE Restart(d)
    BY <2>3 DEF Restart
  <2> QED BY <1>5, <2>1, <2>2, <2>3 DEF Outside
<1>6. CASE UNCHANGED vars
  BY <1>6 DEF vars
<1> QED
  BY <1>2, <1>3, <1>4, <1>5, <1>6 DEF Next

\* A step that leaves the file, cur and missed alone and makes no daemon
\* start to know the file preserves KnowInv.
LEMMA KnowFrame ==
    ASSUME KnowInv, UNCHANGED <<file, cur, missed>>,
           \A d \in Daemons : Knows(d)' => Knows(d)
    PROVE  KnowInv'
BY DEF KnowInv, MergedFlat

\* Every step preserves what the daemons know.
LEMMA KnowStep ==
    ASSUME TypeOK, PassInv, KnowInv, [Next]_vars
    PROVE  KnowInv'
<1> USE DEF fileVars, daemonVars, budgetVars
<1>1. ASSUME NEW f, WriteFile(f) PROVE KnowInv'
  <2> SUFFICES ASSUME NEW d \in Daemons, Knows(d)', ~missed'[d] PROVE FALSE
    BY DEF KnowInv
  <2>1. pc[d] \notin ReadNotStamped
    BY <1>1 DEF WriteFile
  <2>2. last[d] = mtime + 1
    BY <1>1, <2>1 DEF WriteFile, Knows
  <2>3. last[d] <= mtime /\ mtime \in Nat /\ last[d] \in Nat
    BY DEF PassInv, TypeOK
  <2> QED BY <2>2, <2>3
<1>2. CASE Writers
  <2>1. CASE Abandon
    BY <2>1, KnowFrame DEF Abandon, Knows
  <2> QED BY <1>1, <1>2, <2>1 DEF Writers, Replace, Overtake, Truncate, Fill
<1>3. CASE Install
  BY <1>3, KnowFrame DEF Install, Knows
<1>4. ASSUME NEW d \in Daemons, MainLoop(d) PROVE KnowInv'
  <2> USE DEF TypeOK
  <2>1. CASE HyprlandReady(d) \/ ImportApplier(d)
    BY <2>1, KnowFrame DEF HyprlandReady, ImportApplier, Goto, Knows, ReadNotStamped
  <2>2. CASE ReadAll(d)
    BY <2>2 DEF ReadAll, Goto, KnowInv, Knows, MergedFlat
  <2>3. ASSUME NEW k \in Keys, ApplyKey(d, k) \/ ApplyFails(d, k)
        PROVE  KnowInv'
    BY <2>3, KnowFrame DEF ApplyKey, ApplyFails, Knows
  <2>4. CASE PassDone(d)
    BY <2>4, KnowFrame DEF PassDone, Goto, Applying, Knows, ReadNotStamped
  <2>5. CASE StampFile(d)
    BY <2>5, KnowFrame DEF StampFile, Goto, Knows, ReadNotStamped
  <2>6. CASE Stop(d)
    BY <2>6, KnowFrame DEF Stop, Goto, Knows, ReadNotStamped
  <2>7. CASE Wake(d)
    <3>1. UNCHANGED <<file, mtime, cur, missed>>
      BY <2>7 DEF Wake
    <3>2. ASSUME NEW c \in Daemons, Knows(c)' PROVE Knows(c)
      <4>1. CASE c # d
        BY <2>7, <3>2, <4>1 DEF Wake, Goto, Knows
      <4>2. CASE c = d
        BY <2>7, <3>2, <4>2 DEF Wake, Goto, Knows, ReadNotStamped
      <4> QED BY <4>1, <4>2
    <3> QED BY <3>1, <3>2, KnowFrame
  <2>8. CASE ReadChanged(d)
    BY <2>8 DEF ReadChanged, Goto, KnowInv, Knows, MergedFlat, ReadNotStamped
  <2> QED
    BY <1>4, <2>1, <2>2, <2>3, <2>4, <2>5, <2>6, <2>7, <2>8 DEF MainLoop
<1>5. ASSUME NEW d \in Daemons, Outside(d) PROVE KnowInv'
  <2> USE DEF TypeOK
  <2>1. CASE Sighup(d) \/ Sigterm(d)
    BY <2>1, KnowFrame DEF Sighup, Sigterm, Knows
  <2>2. CASE Kill(d)
    BY <2>2 DEF Kill, KnowInv, Knows, MergedFlat, ReadNotStamped
  <2>3. CASE Restart(d)
    BY <2>3, KnowFrame DEF Restart, Knows, ReadNotStamped
  <2> QED BY <1>5, <2>1, <2>2, <2>3 DEF Outside
<1>6. CASE UNCHANGED vars
  BY <1>6, KnowFrame DEF vars, Knows
<1> QED
  BY <1>2, <1>3, <1>4, <1>5, <1>6 DEF Next

---------------------------------------------------------------------------
\* A step that changes none of the variables CoverInv reads preserves it.
LEMMA CoverFrame ==
    ASSUME CoverInv, UNCHANGED <<live, cur, todo, full, failures>>
    PROVE  CoverInv'
BY DEF CoverInv, Covered

\* A step after which some daemon has no full pass behind it preserves it.
LEMMA CoverVacuous ==
    ASSUME NEW d \in Daemons, ~full'[d]
    PROVE  CoverInv'
BY DEF CoverInv

\* Every step leaves each key covered.
LEMMA CoverStep ==
    ASSUME TypeOK, PassInv, CoverInv, [Next]_vars
    PROVE  CoverInv'
<1> USE DEF fileVars, daemonVars, budgetVars
<1>1. CASE Writers \/ Install
  BY <1>1, CoverFrame DEF Writers, Replace, Overtake, Truncate, Fill,
                                Abandon, WriteFile, Install
<1>2. ASSUME NEW d \in Daemons, MainLoop(d) PROVE CoverInv'
  <2> USE DEF TypeOK
  <2>1. CASE HyprlandReady(d) \/ ImportApplier(d) \/ PassDone(d)
             \/ StampFile(d) \/ Stop(d) \/ Wake(d)
    BY <2>1, CoverFrame
       DEF HyprlandReady, ImportApplier, PassDone, StampFile, Stop, Wake
  <2>2. CASE ReadAll(d)
    <3>1. CASE ~applier[d]
      BY <2>2, <3>1, CoverVacuous DEF ReadAll
    <3>2. CASE applier[d]
      <4> SUFFICES ASSUME NEW k \in Keys PROVE Covered(k)'
        BY DEF CoverInv
      <4>1. MergedFlat[k] # Unset => k \in todo'[d]
        BY <2>2, <3>2 DEF ReadAll, AllKeys
      <4>2. cur'[d][k] = MergedFlat[k]
        BY <2>2 DEF ReadAll
      <4> QED BY <4>1, <4>2 DEF Covered
    <3> QED BY <3>1, <3>2
  <2>3. ASSUME NEW j \in Keys, ApplyKey(d, j) PROVE CoverInv'
    <3> SUFFICES ASSUME Daemons # {}, failures' = 0,
                        \A c \in Daemons : full'[c], NEW k \in Keys
                 PROVE  Covered(k)'
      BY DEF CoverInv
    <3>1. PICK c \in Daemons : k \in todo[c] \/ cur[c][k] \in {live[k], Unset}
      BY <2>3 DEF CoverInv, Covered, ApplyKey
    <3>2. CASE k = j
      <4>1. live'[k] = cur'[d][k]
        BY <2>3, <3>2 DEF ApplyKey, Flats
      <4> QED BY <4>1 DEF Covered
    <3>3. CASE k # j
      <4>1. live'[k] = live[k] /\ cur' = cur
        BY <2>3, <3>3 DEF ApplyKey, Flats
      <4>2. k \in todo[c] => k \in todo'[c]
        BY <2>3, <3>3 DEF ApplyKey
      <4> QED BY <3>1, <4>1, <4>2 DEF Covered
    <3> QED BY <3>2, <3>3
  <2>4. ASSUME NEW k \in Keys, ApplyFails(d, k) PROVE CoverInv'
    <3>1. failures' # 0
      BY <2>4 DEF ApplyFails
    <3> QED BY <3>1 DEF CoverInv
  <2>5. CASE ReadChanged(d)
    <3> SUFFICES ASSUME Daemons # {}, failures' = 0,
                        \A c \in Daemons : full'[c], NEW k \in Keys
                 PROVE  Covered(k)'
      BY DEF CoverInv
    <3>1. PICK c \in Daemons : k \in todo[c] \/ cur[c][k] \in {live[k], Unset}
      BY <2>5 DEF CoverInv, Covered, ReadChanged
    <3>2. CASE c # d
      <4>1. todo'[c] = todo[c] /\ cur'[c] = cur[c] /\ live' = live
        BY <2>5, <3>2 DEF ReadChanged
      <4> QED BY <3>1, <4>1 DEF Covered
    <3>3. CASE c = d
      <4>1. applier[d] /\ todo[d] = {} /\ live' = live
        BY <2>5 DEF PassInv, ReadChanged
      <4>2. cur[d][k] \in {live[k], Unset}
        BY <3>1, <3>3, <4>1
      <4>3. cur'[d][k] = MergedFlat[k]
        BY <2>5 DEF ReadChanged
      <4>4. todo'[d] = ChangedKeys(cur[d], MergedFlat)
        BY <2>5, <4>1 DEF ReadChanged
      <4>5. CASE MergedFlat[k] \in {live[k], Unset}
        BY <4>1, <4>3, <4>5 DEF Covered
      <4>6. CASE MergedFlat[k] \notin {live[k], Unset} /\ cur[d][k] # MergedFlat[k]
        <5>1. k \in todo'[d]
          BY <4>4, <4>6 DEF ChangedKeys, AllKeys
        <5> QED BY <5>1 DEF Covered
      <4> QED BY <4>2, <4>5, <4>6
    <3> QED BY <3>2, <3>3
  <2> QED
    BY <1>2, <2>1, <2>2, <2>3, <2>4, <2>5 DEF MainLoop
<1>3. ASSUME NEW d \in Daemons, Outside(d) PROVE CoverInv'
  <2>1. CASE Sighup(d) \/ Sigterm(d) \/ Restart(d)
    BY <2>1, CoverFrame DEF Sighup, Sigterm, Restart
  <2>2. CASE Kill(d)
    BY <2>2, CoverVacuous DEF Kill, TypeOK
  <2> QED BY <1>3, <2>1, <2>2 DEF Outside
<1>4. CASE UNCHANGED vars
  BY <1>4, CoverFrame DEF vars
<1> QED
  BY <1>1, <1>2, <1>3, <1>4 DEF Next

---------------------------------------------------------------------------
\* The invariant implies what the runs check.
LEMMA IInvImplies ==
    ASSUME IInv
    PROVE  NoSilentMiss /\ QuiescentInSync
<1>1. NoSilentMiss
  BY DEF IInv, KnowInv, Knows, NoSilentMiss, Idle
<1>2. QuiescentInSync
  <2> SUFFICES ASSUME Daemons # {}, Quiescent, NEW k \in Keys,
                      MergedFlat[k] # Unset
               PROVE  live[k] = MergedFlat[k]
    BY DEF QuiescentInSync, InSync
  <2>1. PICK d \in Daemons : k \in todo[d] \/ cur[d][k] \in {live[k], Unset}
    BY DEF IInv, CoverInv, Covered, Quiescent
  <2>2. todo[d] = {}
    BY DEF IInv, PassInv, Quiescent, Idle
  <2>3. cur[d] = MergedFlat
    BY <1>1 DEF NoSilentMiss, Quiescent
  <2> QED BY <2>1, <2>2, <2>3
<1> QED BY <1>1, <1>2

\* The inductive invariant holds in every reachable state.
THEOREM Inductive == Spec => []IInv
<1>1. Init => IInv
  BY InitIInv
<1>2. IInv /\ [Next]_vars => IInv'
  BY TypeStep, PassStep, KnowStep, CoverStep DEF IInv
<1> QED BY <1>1, <1>2, PTL DEF Spec

\* Type correctness of the daemons, the file and the session.
THEOREM TypeCorrect == Spec => []TypeOK
<1>1. IInv => TypeOK
  BY DEF IInv
<1> QED BY <1>1, Inductive, PTL

\* The watch loop loses no write: only the window between a full pass's read
\* of the file and its stamp can hide one.
THEOREM WatchLosesNothing == Spec => []NoSilentMiss
<1>1. IInv => NoSilentMiss
  BY IInvImplies
<1> QED BY <1>1, Inductive, PTL

\* Any number of daemons, however they interleave, leave the session in sync
\* with the file when they come to rest undisturbed.
THEOREM DaemonsAgree == Spec => []QuiescentInSync
<1>1. IInv => QuiescentInSync
  BY IInvImplies
<1> QED BY <1>1, Inductive, PTL
============================================================================
