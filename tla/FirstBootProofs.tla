-------------------------- MODULE FirstBootProofs --------------------------
(***************************************************************************)
(* Proofs about FirstBoot, for any layouts, keys, values, daemons, pages   *)
(* and bounds.  Every step of FirstBoot is a step of SettingsDaemon or     *)
(* leaves its variables alone, so what is proved of the daemons is used    *)
(* here as it stands.                                                      *)
(***************************************************************************)
EXTENDS FirstBoot, SettingsDaemonProofs

\* Stages between composing the new file and putting it in place.
Composed == {"compose", "write", "move"}

\* Whatever is applied under the key "layout" is a layout.
LayoutInv ==
    /\ file["layout"] \in Layouts \cup {Unset}
    /\ kept["layout"] \in Layouts \cup {Unset}
    /\ copy["layout"] \in Layouts \cup {Unset}
    /\ app = "apply" => copy["layout"] \in Layouts
    /\ \A d \in Daemons : "layout" \in todo[d] => cur[d]["layout"] \in Layouts

\* The app's copy is the file until a setup program writes that.
CopyInv == app # "closed" /\ ~behind => copy = file

\* What stands in the file once it has been written or left alone.
Left ==
    /\ section # "none"
    /\ section = "written" => file["layout"] # Unset
    /\ section = "found" => HasKeyboard(file)

\* What each stage has done to the file.
SavedInv ==
    /\ torn => step = "write"
    /\ step = "write" /\ ~torn => section = "lost"
    /\ marker => program = "none"
    /\ step \in Composed => kept["layout"] = selected
    /\ step = "mark" \/ marker => Left
    /\ step = "mark" /\ section = "written" /\ ~crossed =>
         file["layout"] = selected

\* What has become of the other sections.
KeptInv ==
    /\ SectionsKept
    /\ (step \in {"compose", "move"} \/ torn) /\ ~excused =>
         \A k \in Unmanaged : kept[k] = meant[k]

\* user.conf has the choice, or somebody answers for what it has: a daemon
\* that wrote it and still believes in it, or is about to write another
\* layout, or the app on its way to apply its own.
Chosen == marker \/ step \in Composed \cup {"pages", "save", "mark"}
Target == IF marker THEN file["layout"] ELSE selected
Answers(d) == "layout" \in todo[d] \/ cur[d]["layout"] = userConf
ConfInv ==
    (/\ Chosen /\ ~crossed
     /\ (marker => section = "written")
     /\ \A d \in Daemons : full[d])
        => \/ userConf = Target \/ app = "apply"
           \/ \E d \in Daemons : Answers(d)

\* The strengthening under which MarkerMeansSaved, SectionsKept and
\* LayoutSettles are inductive.
FBInv ==
    /\ FirstBootTypeOK /\ IInv /\ LayoutInv /\ CopyInv /\ SavedInv
    /\ KeptInv /\ ConfInv

\* A layout is a value and no layer leaves it out.
LEMMA LayoutFacts ==
    /\ "layout" \in Keys /\ "layout" \notin Unmanaged
    /\ Unset \notin Values /\ Unset \notin Layouts /\ Layouts \subseteq Values
    /\ "layout" \in Keyboard /\ Keyboard \cap Appearance = {}
    /\ Managed \subseteq Keys /\ Unmanaged \subseteq Keys
    /\ Default["layout"] \in Layouts
BY FirstBootAssumption, DaemonAssumption DEF Managed, Unmanaged

\* The merged view has a layout if the file's is one.
LEMMA MergedLayout ==
    ASSUME file["layout"] \in Layouts \cup {Unset}
    PROVE  /\ MergedFlat["layout"] \in Layouts
           /\ file["layout"] # Unset => MergedFlat["layout"] = file["layout"]
BY LayoutFacts DEF MergedFlat

\* What the wizard composes: its own choices, the rest as the file has it.
LEMMA Composes ==
    ASSUME FirstBootTypeOK, PersistReads
    PROVE  /\ kept' \in Flats /\ kept'["layout"] = selected
           /\ \A k \in Unmanaged : kept'[k] = file[k]
<1>1. PICK c \in Choices :
         kept' = [k \in Keys |-> IF k \in Managed THEN c[k] ELSE file[k]]
  BY DEF PersistReads
<1>2. c \in [Managed -> Settable] /\ c["layout"] = selected
  BY DEF Choices
<1>3. \A k \in Keys : file[k] \in Settable
  BY DEF FirstBootTypeOK, TypeOK, Flats
<1>4. "layout" \in Managed
  BY LayoutFacts DEF Managed
<1> QED BY <1>1, <1>2, <1>3, <1>4, LayoutFacts DEF Flats, Unmanaged

\* What the text program composes: the file and the layout.
LEMMA Appends ==
    ASSUME FirstBootTypeOK, TuiReads, ~HasKeyboard(file)
    PROVE  /\ kept' \in Flats /\ kept'["layout"] = selected
           /\ \A k \in Unmanaged : kept'[k] = file[k]
<1>1. file \in Flats /\ selected \in Settable
  BY LayoutFacts DEF FirstBootTypeOK, TypeOK, Settable
<1>2. kept' = [file EXCEPT !["layout"] = selected]
  BY DEF TuiReads
<1> QED BY <1>1, <1>2, LayoutFacts DEF Flats

\* A save of the app: what is in its copy, one key changed, and so in the
\* file.  No control takes a key of the keyboard section away.
LEMMA Saves ==
    ASSUME FirstBootTypeOK, NEW k \in Keys, NEW v \in Offers(k), AppSaves(k, v)
    PROVE  /\ copy' \in Flats /\ file' = copy' /\ torn' = FALSE
           /\ copy'[k] = v /\ \A j \in Keys \ {k} : copy'[j] = copy[j]
           /\ k \in Keyboard => v # Unset
           /\ k = "layout" => v \in Layouts
           /\ UNCHANGED <<cur, todo, full, last, pc>>
<1>1. v \in Settable
  BY LayoutFacts DEF Offers, Settable
<1>2. k \in Keyboard => v # Unset
  BY LayoutFacts DEF Offers
<1>3. k = "layout" => v \in Layouts
  BY LayoutFacts DEF Offers
<1>4. copy' = [copy EXCEPT ![k] = v] /\ copy \in Flats
  BY DEF AppSaves, FirstBootTypeOK
<1>5. /\ copy' \in Flats /\ copy'[k] = v
      /\ \A j \in Keys \ {k} : copy'[j] = copy[j]
  BY <1>1, <1>4 DEF Flats
<1>6. torn \in BOOLEAN
  BY DEF FirstBootTypeOK, TypeOK
<1>7. /\ file' = copy' /\ torn' = FALSE
      /\ UNCHANGED <<cur, todo, full, last, pc>>
  BY <1>6 DEF AppSaves, Replace, Overtake, WriteFile
<1> QED BY <1>2, <1>3, <1>5, <1>7

---------------------------------------------------------------------------
\* A step of the setup programs is a step of the file's writers or leaves
\* the daemons' world alone.
LEMMA StepsOfDaemon ==
    ASSUME FirstBootTypeOK, [FNext]_allVars
    PROVE  [Next]_vars
<1>1. CASE UNCHANGED allVars
  BY <1>1 DEF allVars
<1>2. CASE Wizard
  <2>1. CASE PersistTruncates
    BY <2>1 DEF PersistTruncates, Next, Writers
  <2>2. CASE PersistWrites
    <3>1. kept \in Flats /\ (Fill(kept) \/ UNCHANGED vars)
      BY <2>2 DEF FirstBootTypeOK, PersistWrites
    <3> QED BY <3>1 DEF Next, Writers
  <2>3. CASE Quit
    BY <2>3 DEF Quit, Next, Writers
  <2> QED
    BY <1>2, <2>1, <2>2, <2>3
       DEF Wizard, StartWizard, PickLayout, CallReturns, Go, PersistReads, Mark
<1>3. CASE Tui
  <2>1. CASE TuiMoves
    <3>1. kept \in Flats /\ Replace(kept)
      BY <2>1 DEF FirstBootTypeOK, TuiMoves
    <3> QED BY <3>1 DEF Next, Writers
  <2> QED
    BY <1>3, <2>1 DEF Tui, StartTui, TuiAsks, TuiWritesConf, TuiReads
<1>4. CASE App
  <2>1. ASSUME NEW k \in Keys, NEW v \in Offers(k), AppSaves(k, v) PROVE Next
    <3>1. copy' \in Flats
      BY <2>1, Saves
    <3> QED BY <2>1, <3>1 DEF AppSaves, Next, Writers
  <2> QED BY <1>4, <2>1 DEF App, AppOpens, AppApplies, AppCloses
<1>5. ASSUME NEW d \in Daemons, DaemonSetsLayout(d) PROVE Next
  BY <1>5, LayoutFacts DEF DaemonSetsLayout, Next, MainLoop
<1>6. ASSUME NEW d \in Daemons, DaemonLoops(d) PROVE Next
  BY <1>6 DEF DaemonLoops, Next, MainLoop
<1> QED
  BY <1>1, <1>2, <1>3, <1>4, <1>5, <1>6 DEF FNext

\* The daemons' invariant is preserved by every step.
LEMMA DaemonPart ==
    ASSUME FirstBootTypeOK, IInv, [FNext]_allVars
    PROVE  IInv'
BY StepsOfDaemon, TypeStep, PassStep, KnowStep, CoverStep DEF IInv

---------------------------------------------------------------------------
\* Every step preserves the types of the setup programs' own variables.
LEMMA OwnTypes ==
    ASSUME FirstBootTypeOK, LayoutInv, [FNext]_allVars
    PROVE  FirstBootTypeOK'
<1> USE DEF FirstBootTypeOK, Steps, Sections, wizardVars, outputVars, appVars,
            ghostVars
<1>1. TypeOK'
  BY StepsOfDaemon, TypeStep
<1>2. CASE UNCHANGED allVars
  BY <1>1, <1>2 DEF allVars
<1>3. First \in Layouts /\ MaxCalls \in Nat /\ LastPage \in Nat
  BY FirstBootAssumption
<1>4. CallsLeft => calls' \in [Layouts -> Nat]
  BY <1>3 DEF CallsLeft
<1>10. Empty \in Flats
  BY DEF Empty, Flats, Settable
<1>5. CASE Wizard
  <2>1. CASE StartWizard
    <3>1. starts' \in Nat /\ page' \in 0 .. LastPage
      BY <1>3, <2>1 DEF StartWizard
    <3>2. calls' \in [Layouts -> Nat]
      BY <1>3, <2>1 DEF StartWizard, Select
    <3>3. selected' \in Layouts /\ userConf' \in Layouts
      BY <1>3, <2>1 DEF StartWizard, Select
    <3> QED BY <1>1, <2>1, <3>1, <3>2, <3>3 DEF StartWizard
  <2>2. ASSUME NEW l \in Layouts, PickLayout(l) PROVE FirstBootTypeOK'
    BY <1>1, <2>2 DEF PickLayout, Select
  <2>3. ASSUME NEW l \in Layouts, CallReturns(l) PROVE FirstBootTypeOK'
    BY <1>1, <2>3 DEF CallReturns
  <2>4. ASSUME NEW direction \in {-1, 1}, Go(direction)
        PROVE  FirstBootTypeOK'
    BY <1>1, <2>4 DEF Go
  <2>5. CASE PersistReads
    <3>1. kept' \in Flats
      BY <2>5, Composes
    <3> QED BY <1>1, <2>5, <3>1 DEF PersistReads
  <2>6. CASE PersistTruncates
    BY <1>1, <2>6 DEF PersistTruncates
  <2>7. CASE PersistWrites
    BY <1>1, <2>7 DEF PersistWrites
  <2>8. CASE Mark
    BY <1>1, <1>4, <1>10, <2>8 DEF Mark
  <2>9. CASE Quit
    <3>1. torn \in BOOLEAN
      BY DEF TypeOK
    <3> QED BY <1>1, <1>4, <1>10, <2>9, <3>1 DEF Quit
  <2> QED
    BY <1>5, <2>1, <2>2, <2>3, <2>4, <2>5, <2>6, <2>7, <2>8, <2>9 DEF Wizard
<1>6. CASE Tui
  <2>1. CASE StartTui
    <3>1. starts' \in Nat
      BY <2>1 DEF StartTui
    <3> QED BY <1>1, <2>1, <3>1 DEF StartTui
  <2>2. ASSUME NEW l \in Layouts, TuiAsks(l) PROVE FirstBootTypeOK'
    BY <1>1, <2>2 DEF TuiAsks
  <2>3. CASE TuiWritesConf
    BY <1>1, <2>3 DEF TuiWritesConf
  <2>4. CASE TuiReads
    <3>1. kept' \in Flats
      BY <2>4, Appends DEF TuiReads
    <3> QED BY <1>1, <2>4, <3>1 DEF TuiReads
  <2>5. CASE TuiMoves
    BY <1>1, <2>5 DEF TuiMoves
  <2> QED BY <1>6, <2>1, <2>2, <2>3, <2>4, <2>5 DEF Tui
<1>7. CASE App
  <2>1. CASE AppOpens
    <3>1. opens' \in Nat
      BY <2>1 DEF AppOpens
    <3>2. copy' \in Flats
      BY <2>1 DEF AppOpens, TypeOK
    <3> QED BY <1>1, <2>1, <3>1, <3>2 DEF AppOpens
  <2>2. CASE AppApplies
    BY <1>1, <2>2 DEF AppApplies, LayoutInv
  <2>3. CASE AppCloses
    BY <1>1, <1>10, <2>3 DEF AppCloses
  <2>4. ASSUME NEW k \in Keys, NEW v \in Offers(k), AppSaves(k, v)
        PROVE  FirstBootTypeOK'
    <3>1. copy' \in Flats
      BY <2>4, Saves
    <3>2. meant' \in [Unmanaged -> Settable]
      BY <2>4, <3>1, LayoutFacts DEF AppSaves, Flats
    <3>3. app' \in {"closed", "idle", "apply"} /\ section' \in Sections
      BY <2>4 DEF AppSaves
    <3> QED BY <1>1, <2>4, <3>1, <3>2, <3>3 DEF AppSaves
  <2> QED BY <1>7, <2>1, <2>2, <2>3, <2>4 DEF App
<1>8. ASSUME NEW d \in Daemons, DaemonSetsLayout(d) PROVE FirstBootTypeOK'
  <2>1. cur[d]["layout"] \in Layouts
    BY <1>8 DEF DaemonSetsLayout, ApplyKey, LayoutInv
  <2> QED BY <1>1, <1>8, <2>1 DEF DaemonSetsLayout
<1>9. ASSUME NEW d \in Daemons, DaemonLoops(d) PROVE FirstBootTypeOK'
  BY <1>1, <1>9 DEF DaemonLoops
<1> QED
  BY <1>2, <1>5, <1>6, <1>7, <1>8, <1>9 DEF FNext

\* Only layouts are put down under the key "layout", by whomever.
LEMMA LayoutStep ==
    ASSUME FirstBootTypeOK, LayoutInv, [FNext]_allVars
    PROVE  LayoutInv'
<1> USE LayoutFacts
        DEF fileVars, daemonVars, wizardVars, outputVars, appVars, ghostVars
<1>1. ASSUME UNCHANGED <<file, cur, todo, app, copy>>,
             kept'["layout"] \in Layouts \cup {Unset}
      PROVE  LayoutInv'
  BY <1>1 DEF LayoutInv
<1>2. ASSUME NEW f, f["layout"] \in Layouts \cup {Unset}, WriteFile(f),
             UNCHANGED <<kept, app, copy>>
      PROVE  LayoutInv'
  BY <1>2 DEF LayoutInv, WriteFile
<1>10. Empty["layout"] = Unset
  BY DEF Empty
<1>3. CASE UNCHANGED allVars
  BY <1>1, <1>3 DEF LayoutInv, allVars, vars
<1>4. CASE Wizard
  <2>1. CASE PersistReads
    <3>1. kept'["layout"] = selected
      BY <2>1, Composes
    <3> QED BY <1>1, <2>1, <3>1 DEF PersistReads, vars, FirstBootTypeOK
  <2>2. CASE PersistTruncates
    BY <1>2, <2>2 DEF PersistTruncates, Truncate, Empty
  <2>3. CASE PersistWrites
    BY <1>1, <1>2, <2>3 DEF PersistWrites, Fill, LayoutInv, vars
  <2>4. CASE Quit \/ Mark
    BY <1>1, <1>10, <2>4 DEF Quit, Mark, Abandon, vars, LayoutInv
  <2> QED
    BY <1>1, <1>4, <2>1, <2>2, <2>3, <2>4
       DEF Wizard, StartWizard, PickLayout, CallReturns, Go, vars, LayoutInv
<1>5. CASE Tui
  <2>1. CASE TuiReads
    <3>1. kept'["layout"] \in Layouts \cup {Unset}
      BY <2>1, Appends DEF TuiReads, LayoutInv, FirstBootTypeOK
    <3> QED BY <1>1, <2>1, <3>1 DEF TuiReads, vars
  <2>2. CASE TuiMoves
    BY <1>2, <2>2 DEF TuiMoves, Replace, LayoutInv
  <2> QED
    BY <1>1, <1>5, <2>1, <2>2
       DEF Tui, StartTui, TuiAsks, TuiWritesConf, vars, LayoutInv
<1>6. CASE App
  <2>1. CASE AppOpens
    BY <2>1 DEF AppOpens, LayoutInv, vars
  <2>2. CASE AppApplies
    BY <2>2 DEF AppApplies, LayoutInv, vars
  <2>3. CASE AppCloses
    BY <1>10, <2>3 DEF AppCloses, LayoutInv, vars
  <2>4. ASSUME NEW k \in Keys, NEW v \in Offers(k), AppSaves(k, v)
        PROVE  LayoutInv'
    <3>1. /\ copy'["layout"] \in Layouts \cup {Unset}
          /\ k = "layout" => copy'["layout"] \in Layouts
      BY <2>4, Saves DEF LayoutInv
    <3>2. file' = copy' /\ UNCHANGED <<cur, todo>>
      BY <2>4, Saves
    <3>3. UNCHANGED kept /\ (app' = "apply" => k = "layout")
      BY <2>4 DEF AppSaves
    <3> QED BY <3>1, <3>2, <3>3 DEF LayoutInv
  <2> QED BY <1>6, <2>1, <2>2, <2>3, <2>4 DEF App
<1>7. ASSUME NEW d \in Daemons, NEW k \in Keys, ApplyKey(d, k),
             UNCHANGED <<kept, app, copy>>
      PROVE  LayoutInv'
  <2>1. cur' = cur /\ file' = file /\ \A c \in Daemons : todo'[c] \subseteq todo[c]
    BY <1>7 DEF ApplyKey, FirstBootTypeOK, TypeOK
  <2> QED BY <1>7, <2>1 DEF LayoutInv
<1>8. ASSUME NEW d \in Daemons, DaemonSetsLayout(d) PROVE LayoutInv'
  BY <1>7, <1>8 DEF DaemonSetsLayout
<1>9. ASSUME NEW d \in Daemons, DaemonLoops(d) PROVE LayoutInv'
  <2>1. CASE ReadAll(d) \/ ReadChanged(d)
    <3>1. MergedFlat["layout"] \in Layouts
      BY MergedLayout DEF LayoutInv
    <3>2. UNCHANGED <<file, kept, app, copy>>
      BY <1>9, <2>1 DEF DaemonLoops, ReadAll, ReadChanged
    <3>3. cur' = [cur EXCEPT ![d] = MergedFlat]
      BY <2>1 DEF ReadAll, ReadChanged
    <3>4. \A c \in Daemons : c # d => todo'[c] = todo[c]
      BY <2>1 DEF ReadAll, ReadChanged, FirstBootTypeOK, TypeOK
    <3> QED
      BY <3>1, <3>2, <3>3, <3>4 DEF LayoutInv, FirstBootTypeOK, TypeOK
  <2>2. ASSUME NEW k \in Keys \ {"layout"}, ApplyKey(d, k) PROVE LayoutInv'
    BY <1>7, <1>9, <2>2 DEF DaemonLoops
  <2> QED
    BY <1>1, <1>9, <2>1, <2>2
       DEF DaemonLoops, HyprlandReady, ImportApplier, PassDone, StampFile, Wake,
           LayoutInv
<1> QED
  BY <1>3, <1>4, <1>5, <1>6, <1>8, <1>9 DEF FNext

---------------------------------------------------------------------------
\* The daemons' own steps leave the file and the setup program alone.
LEMMA DaemonFrame ==
    ASSUME NEW d \in Daemons, DaemonSetsLayout(d) \/ DaemonLoops(d)
    PROVE  UNCHANGED <<file, torn, program, step, selected, kept, marker,
                       appVars, ghostVars>>
BY DEF DaemonSetsLayout, DaemonLoops, ApplyKey, HyprlandReady, ImportApplier,
       ReadAll, PassDone, StampFile, Wake, ReadChanged, fileVars, wizardVars,
       outputVars, ghostVars

\* Whoever writes the file but the app makes its copy one that is behind.
LEMMA CopyStep ==
    ASSUME FirstBootTypeOK, CopyInv, [FNext]_allVars
    PROVE  CopyInv'
<1> USE DEF CopyInv, fileVars, wizardVars, outputVars, appVars, ghostVars
<1>1. ASSUME UNCHANGED <<file, app, copy, behind>> PROVE CopyInv'
  BY <1>1
<1>2. CASE UNCHANGED allVars
  BY <1>1, <1>2 DEF allVars, vars
<1>3. CASE Wizard
  <2>1. CASE PersistTruncates
    BY <2>1 DEF PersistTruncates
  <2>2. CASE PersistWrites
    BY <1>1, <2>2 DEF PersistWrites, vars
  <2> QED
    BY <1>1, <1>3, <2>1, <2>2
       DEF Wizard, StartWizard, PickLayout, CallReturns, Go, PersistReads, Mark,
           Quit, Abandon, vars
<1>4. CASE Tui
  <2>1. CASE TuiMoves
    BY <2>1 DEF TuiMoves
  <2> QED
    BY <1>1, <1>4, <2>1 DEF Tui, StartTui, TuiAsks, TuiWritesConf, TuiReads, vars
<1>5. CASE App
  <2>1. ASSUME NEW k \in Keys, NEW v \in Offers(k), AppSaves(k, v)
        PROVE  CopyInv'
    BY <2>1, Saves
  <2> QED BY <1>5, <2>1 DEF App, AppOpens, AppApplies, AppCloses, vars
<1>6. ASSUME NEW d \in Daemons, DaemonSetsLayout(d) \/ DaemonLoops(d)
      PROVE  CopyInv'
  BY <1>1, <1>6, DaemonFrame
<1> QED
  BY <1>2, <1>3, <1>4, <1>5, <1>6 DEF FNext

\* What a save of the app leaves of the keyboard section: what was there, if
\* its copy was not behind.
LEMMA SaveLeaves ==
    ASSUME FirstBootTypeOK, CopyInv, Left,
           NEW k \in Keys, NEW v \in Offers(k), AppSaves(k, v)
    PROVE  /\ Left'
           /\ section' = "written" =>
                section = "written" /\ (k = "layout" \/ file'["layout"] = file["layout"])
<1>1. CASE behind \/ torn
  BY <1>1 DEF AppSaves, Left
<1>2. CASE ~behind /\ ~torn
  <2>1. copy = file /\ section' = section
    BY <1>2 DEF CopyInv, AppSaves
  <2>2. \A j \in Keys \ {k} : file'[j] = file[j]
    BY <2>1, Saves
  <2>3. file'[k] = v /\ (k \in Keyboard => v # Unset)
    BY Saves
  <2>4. k = "layout" => file'["layout"] # Unset
    BY <2>3, LayoutFacts
  <2>5. k # "layout" => file'["layout"] = file["layout"]
    BY <2>2, LayoutFacts
  <2>6. HasKeyboard(file) => HasKeyboard(file')
    <3> SUFFICES ASSUME NEW j \in Keyboard, file[j] # Unset
                 PROVE  \E i \in Keyboard : file'[i] # Unset
      BY DEF HasKeyboard
    <3>1. j \in Keys
      BY FirstBootAssumption, LayoutFacts DEF Managed
    <3>2. file'[j] # Unset
      BY <2>2, <2>3, <3>1
    <3> QED BY <3>2
  <2>7. HasKeyboard(file)' <=> HasKeyboard(file')
    BY DEF HasKeyboard
  <2> QED BY <2>1, <2>4, <2>5, <2>6, <2>7 DEF Left
<1> QED BY <1>1, <1>2

\* The stages follow one another as SavedInv says.
LEMMA SavedStep ==
    ASSUME FirstBootTypeOK, CopyInv, SavedInv, [FNext]_allVars
    PROVE  SavedInv'
<1> USE DEF fileVars, wizardVars, outputVars, appVars, ghostVars, Composed
<1>1. (program = "none" <=> step = "off") /\ torn \in BOOLEAN
  BY DEF FirstBootTypeOK, TypeOK
<1>2. ASSUME UNCHANGED <<file, torn, program, step, selected, kept, marker,
                         section, crossed>>
      PROVE  SavedInv'
  BY <1>2 DEF SavedInv, Left, HasKeyboard
<1>10. ASSUME UNCHANGED <<file, torn, section>>, marker' = marker,
              program' = "none" => ~torn,
              step' \notin {"write", "mark"}, ~torn,
              marker' => program' = "none",
              step' \in {"compose", "move"} => kept'["layout"] = selected'
       PROVE  SavedInv'
  BY <1>10 DEF SavedInv, Left, HasKeyboard
<1>3. CASE UNCHANGED allVars
  BY <1>2, <1>3 DEF allVars, vars
<1>4. CASE Wizard
  <2>1. CASE StartWizard
    BY <1>1, <1>10, <2>1 DEF StartWizard, SavedInv, Select, vars
  <2>2. ASSUME NEW l \in Layouts, PickLayout(l) PROVE SavedInv'
    BY <1>1, <1>10, <2>2 DEF PickLayout, SavedInv, Select, vars
  <2>3. ASSUME NEW l \in Layouts, CallReturns(l) PROVE SavedInv'
    BY <1>2, <2>3 DEF CallReturns, vars
  <2>4. ASSUME NEW direction \in {-1, 1}, Go(direction) PROVE SavedInv'
    BY <1>2, <2>4 DEF Go, vars
  <2>5. CASE PersistReads
    <3>1. kept'["layout"] = selected
      BY <2>5, Composes
    <3> QED BY <1>1, <1>10, <2>5, <3>1 DEF PersistReads, SavedInv, vars
  <2>6. CASE PersistTruncates
    BY <1>1, <2>6 DEF PersistTruncates, Truncate, SavedInv
  <2>7. CASE PersistWrites
    <3>1. CASE Fill(kept) /\ section' = "written"
      <4>1. file' = kept /\ torn' = FALSE
        BY <3>1 DEF Fill, WriteFile
      <4>2. kept["layout"] = selected /\ selected # Unset
        BY <2>7, LayoutFacts DEF PersistWrites, SavedInv, FirstBootTypeOK
      <4> QED
        BY <1>1, <2>7, <3>1, <4>1, <4>2 DEF PersistWrites, SavedInv, Left
    <3>2. CASE ~torn /\ UNCHANGED <<vars, section, behind>>
      <4>1. section = "lost" /\ program # "none" /\ ~marker
        BY <1>1, <2>7, <3>2 DEF PersistWrites, SavedInv
      <4> QED
        BY <1>1, <2>7, <3>2, <4>1 DEF PersistWrites, SavedInv, Left, vars
    <3> QED BY <2>7, <3>1, <3>2 DEF PersistWrites
  <2>8. CASE Mark
    <3>1. ~torn /\ Left
      BY <2>8 DEF Mark, SavedInv
    <3> QED BY <1>1, <2>8, <3>1 DEF Mark, SavedInv, Left, HasKeyboard, vars
  <2>9. CASE Quit
    <3>1. file' = file /\ torn' = FALSE
      BY <1>1, <2>9 DEF Quit, Abandon, vars
    <3>2. ~marker
      BY <2>9 DEF Quit, SavedInv
    <3> QED BY <2>9, <3>1, <3>2 DEF Quit, SavedInv
  <2> QED
    BY <1>4, <2>1, <2>2, <2>3, <2>4, <2>5, <2>6, <2>7, <2>8, <2>9 DEF Wizard
<1>5. CASE Tui
  <2>1. CASE StartTui
    BY <1>1, <1>10, <2>1 DEF StartTui, SavedInv, vars
  <2>2. ASSUME NEW l \in Layouts, TuiAsks(l) PROVE SavedInv'
    BY <1>1, <1>10, <2>2 DEF TuiAsks, SavedInv, vars
  <2>3. CASE TuiWritesConf
    BY <1>1, <1>10, <2>3 DEF TuiWritesConf, SavedInv, vars
  <2>4. CASE TuiReads
    <3>1. ~torn /\ ~marker
      BY <1>1, <2>4 DEF TuiReads, SavedInv
    <3>2. CASE HasKeyboard(file)
      BY <1>1, <2>4, <3>1, <3>2
         DEF TuiReads, SavedInv, Left, HasKeyboard, vars
    <3>3. CASE ~HasKeyboard(file)
      <4>1. kept'["layout"] = selected /\ step' = "move"
        BY <2>4, <3>3, Appends DEF TuiReads
      <4> QED BY <1>1, <1>10, <2>4, <3>1, <3>3, <4>1 DEF TuiReads, vars
    <3> QED BY <3>2, <3>3
  <2>5. CASE TuiMoves
    <3>1. file' = kept /\ torn' = torn
      BY <2>5 DEF TuiMoves, Replace, WriteFile
    <3>2. kept["layout"] = selected /\ selected # Unset /\ ~torn
      BY <2>5, LayoutFacts DEF TuiMoves, SavedInv, FirstBootTypeOK
    <3> QED BY <1>1, <2>5, <3>1, <3>2 DEF TuiMoves, SavedInv, Left
  <2> QED BY <1>5, <2>1, <2>2, <2>3, <2>4, <2>5 DEF Tui
<1>6. CASE App
  <2>1. ASSUME NEW k \in Keys, NEW v \in Offers(k), AppSaves(k, v)
        PROVE  SavedInv'
    <3>1. torn' = FALSE /\ UNCHANGED <<program, step, selected, kept, marker>>
      BY <2>1, Saves DEF AppSaves
    <3>2. step = "write" => section' = "lost"
      BY <1>1, <2>1 DEF AppSaves, SavedInv
    <3>3. step = "mark" \/ marker => Left'
      BY <2>1, SaveLeaves DEF SavedInv
    <3>4. ASSUME step = "mark", section' = "written", ~crossed'
          PROVE  file'["layout"] = selected
      <4>1. k # "layout" /\ ~crossed
        BY <1>1, <2>1, <3>4 DEF AppSaves
      <4>2. section = "written" /\ file'["layout"] = file["layout"]
        BY <2>1, <3>4, <4>1, SaveLeaves DEF SavedInv
      <4> QED BY <3>4, <4>1, <4>2 DEF SavedInv
    <3> QED BY <3>1, <3>2, <3>3, <3>4 DEF SavedInv
  <2>2. CASE AppOpens
    BY <1>2, <2>2 DEF AppOpens, vars
  <2>3. CASE AppApplies \/ AppCloses
    <3>1. UNCHANGED <<file, torn, program, step, selected, kept, marker, section>>
          /\ (crossed => crossed')
      BY <2>3 DEF AppApplies, AppCloses, vars
    <3> QED BY <3>1 DEF SavedInv, Left, HasKeyboard
  <2> QED BY <1>6, <2>1, <2>2, <2>3 DEF App
<1>7. ASSUME NEW d \in Daemons, DaemonSetsLayout(d) \/ DaemonLoops(d)
      PROVE  SavedInv'
  BY <1>2, <1>7, DaemonFrame
<1> QED
  BY <1>3, <1>4, <1>5, <1>6, <1>7 DEF FNext

\* The other sections are carried over.
LEMMA KeptStep ==
    ASSUME FirstBootTypeOK, SavedInv, KeptInv, [FNext]_allVars
    PROVE  KeptInv'
<1> USE DEF fileVars, wizardVars, outputVars, appVars, ghostVars, Composed
<1>1. (program = "none" <=> step = "off") /\ torn \in BOOLEAN
  BY DEF FirstBootTypeOK, TypeOK
<1>2. ASSUME UNCHANGED <<file, torn, kept, meant, excused>>,
             step' \in {"compose", "move"} => step \in {"compose", "move"}
      PROVE  KeptInv'
  BY <1>2 DEF KeptInv, SectionsKept
<1>3. CASE UNCHANGED allVars
  BY <1>2, <1>3 DEF allVars, vars
<1>4. CASE Wizard
  <2>1. CASE PersistReads
    <3>1. ~torn
      BY <2>1 DEF PersistReads, SavedInv
    <3>2. \A k \in Unmanaged : kept'[k] = file[k]
      BY <2>1, Composes
    <3> QED
      BY <2>1, <3>1, <3>2 DEF PersistReads, KeptInv, SectionsKept, vars
  <2>2. CASE PersistTruncates
    BY <2>2 DEF PersistTruncates, Truncate, KeptInv, SectionsKept
  <2>3. CASE PersistWrites
    BY <2>3 DEF PersistWrites, Fill, WriteFile, KeptInv, SectionsKept, vars
  <2>4. CASE Quit
    <3>1. file' = file /\ torn' = FALSE
      BY <1>1, <2>4 DEF Quit, Abandon, vars
    <3>2. ~excused' => ~torn /\ ~excused
      BY <2>4 DEF Quit
    <3> QED BY <2>4, <3>1, <3>2 DEF Quit, KeptInv, SectionsKept
  <2>5. CASE Mark
    <3>1. ~torn
      BY <2>5 DEF Mark, SavedInv
    <3> QED BY <2>5, <3>1 DEF Mark, vars, KeptInv, SectionsKept
  <2> QED
    BY <1>2, <1>4, <2>1, <2>2, <2>3, <2>4, <2>5
       DEF Wizard, StartWizard, PickLayout, CallReturns, Go, vars
<1>5. CASE Tui
  <2>1. CASE TuiReads
    <3>1. ~torn
      BY <2>1 DEF TuiReads, SavedInv
    <3>2. step' = "move" => \A k \in Unmanaged : kept'[k] = file[k]
      BY <2>1, Appends DEF TuiReads
    <3>3. step' \in {"move", "mark"}
      BY <2>1 DEF TuiReads
    <3> QED
      BY <2>1, <3>1, <3>2, <3>3 DEF TuiReads, KeptInv, SectionsKept, vars
  <2>2. CASE TuiMoves
    BY <2>2 DEF TuiMoves, Replace, WriteFile, KeptInv, SectionsKept
  <2> QED
    BY <1>2, <1>5, <2>1, <2>2 DEF Tui, StartTui, TuiAsks, TuiWritesConf, vars
<1>6. CASE App
  <2>1. ASSUME NEW k \in Keys, NEW v \in Offers(k), AppSaves(k, v)
        PROVE  KeptInv'
    <3>1. file' = copy' /\ torn' = FALSE
      BY <2>1, Saves
    <3>2. \A j \in Unmanaged : meant'[j] = copy'[j]
      BY <2>1 DEF AppSaves
    <3>3. ~excused' => step' \notin {"compose", "move"}
      BY <2>1 DEF AppSaves
    <3> QED BY <3>1, <3>2, <3>3 DEF KeptInv, SectionsKept
  <2> QED
    BY <1>2, <1>6, <2>1 DEF App, AppOpens, AppApplies, AppCloses, vars
<1>7. ASSUME NEW d \in Daemons, DaemonSetsLayout(d) \/ DaemonLoops(d)
      PROVE  KeptInv'
  BY <1>2, <1>7, DaemonFrame
<1> QED
  BY <1>3, <1>4, <1>5, <1>6, <1>7 DEF FNext

\* user.conf has the choice or is answered for, whoever writes it.
LEMMA ConfStep ==
    ASSUME FirstBootTypeOK, PassInv, LayoutInv, CopyInv, SavedInv, ConfInv,
           [FNext]_allVars
    PROVE  ConfInv'
<1> USE DEF fileVars, daemonVars, wizardVars, outputVars, appVars, ghostVars,
            Composed
<1>1. program = "none" <=> step = "off"
  BY DEF FirstBootTypeOK
<1>2. ASSUME UNCHANGED <<cur, todo, full, userConf, crossed, app, marker>>,
             Chosen' => Chosen,
             marker => UNCHANGED <<section, file>>,
             ~marker => UNCHANGED selected
      PROVE  ConfInv'
  BY <1>2 DEF ConfInv, Answers, Target
<1>3. ASSUME userConf' = selected', ~marker' PROVE ConfInv'
  BY <1>3 DEF ConfInv, Target
<1>4. CASE UNCHANGED allVars
  BY <1>2, <1>4 DEF allVars, vars, Chosen
<1>5. CASE Wizard
  <2>1. CASE StartWizard
    BY <1>3, <2>1 DEF StartWizard, Select
  <2>2. ASSUME NEW l \in Layouts, PickLayout(l) PROVE ConfInv'
    <3>1. ~marker
      BY <1>1, <2>2 DEF PickLayout, SavedInv
    <3> QED BY <1>3, <2>2, <3>1 DEF PickLayout, Select
  <2>3. ASSUME NEW l \in Layouts, CallReturns(l) PROVE ConfInv'
    BY <1>2, <2>3 DEF CallReturns, vars, Chosen
  <2>4. ASSUME NEW direction \in {-1, 1}, Go(direction) PROVE ConfInv'
    BY <1>2, <2>4 DEF Go, vars, Chosen
  <2>5. CASE PersistReads
    BY <1>2, <2>5 DEF PersistReads, vars, Chosen
  <2>6. CASE PersistTruncates
    <3>1. ~marker
      BY <1>1, <2>6 DEF PersistTruncates, SavedInv
    <3> QED BY <1>2, <2>6, <3>1 DEF PersistTruncates, Truncate, WriteFile, Chosen
  <2>7. CASE PersistWrites
    <3>1. ~marker
      BY <1>1, <2>7 DEF PersistWrites, SavedInv
    <3>2. UNCHANGED <<cur, todo, full>>
      BY <2>7 DEF PersistWrites, Fill, WriteFile, vars
    <3> QED BY <1>2, <2>7, <3>1, <3>2 DEF PersistWrites, Chosen
  <2>8. CASE Mark
    <3>1. ~marker
      BY <1>1, <2>8 DEF Mark, SavedInv
    <3>2. section = "written" /\ ~crossed => file["layout"] = selected
      BY <2>8 DEF Mark, SavedInv
    <3>3. UNCHANGED <<cur, todo, full, userConf, crossed, app, section, file>>
      BY <2>8 DEF Mark, vars
    <3> QED BY <2>8, <3>1, <3>2, <3>3 DEF Mark, ConfInv, Chosen, Target, Answers
  <2>9. CASE Quit
    BY <1>1, <2>9 DEF Quit, SavedInv, ConfInv, Chosen
  <2> QED
    BY <1>5, <2>1, <2>2, <2>3, <2>4, <2>5, <2>6, <2>7, <2>8, <2>9 DEF Wizard
<1>6. CASE Tui
  <2>1. CASE StartTui
    BY <2>1 DEF StartTui, ConfInv, Chosen
  <2>2. ASSUME NEW l \in Layouts, TuiAsks(l) PROVE ConfInv'
    BY <1>1, <2>2 DEF TuiAsks, SavedInv, ConfInv, Chosen
  <2>3. CASE TuiWritesConf
    <3>1. ~marker
      BY <1>1, <2>3 DEF TuiWritesConf, SavedInv
    <3> QED BY <1>3, <2>3, <3>1 DEF TuiWritesConf
  <2>4. CASE TuiReads
    <3>1. ~marker
      BY <1>1, <2>4 DEF TuiReads, SavedInv
    <3> QED BY <1>2, <2>4, <3>1 DEF TuiReads, vars, Chosen
  <2>5. CASE TuiMoves
    <3>1. ~marker
      BY <1>1, <2>5 DEF TuiMoves, SavedInv
    <3> QED BY <1>2, <2>5, <3>1 DEF TuiMoves, Replace, WriteFile, Chosen
  <2> QED BY <1>6, <2>1, <2>2, <2>3, <2>4, <2>5 DEF Tui
<1>7. CASE App
  <2>1. CASE AppOpens
    <3>1. Target' = Target /\ Chosen' = Chosen
      BY <2>1 DEF AppOpens, vars, Target, Chosen
    <3>2. app = "closed"
      BY <2>1 DEF AppOpens
    <3> QED BY <2>1, <3>1, <3>2 DEF AppOpens, vars, ConfInv, Answers
  <2>2. ASSUME NEW k \in Keys, NEW v \in Offers(k), AppSaves(k, v)
        PROVE  ConfInv'
    <3>1. UNCHANGED <<step, selected, marker, userConf, cur, todo, full>>
      BY <2>2, Saves DEF AppSaves
    <3>2. CASE k = "layout"
      BY <2>2, <3>2 DEF AppSaves, ConfInv
    <3>3. CASE k # "layout"
      <4>1. app = "idle" /\ app' = "idle" /\ crossed' = crossed
        BY <2>2, <3>3 DEF AppSaves, FirstBootTypeOK
      <4>2. marker /\ section' = "written" =>
              section = "written" /\ file'["layout"] = file["layout"]
        BY <2>2, <3>3, SaveLeaves DEF SavedInv
      <4> QED BY <3>1, <4>1, <4>2 DEF ConfInv, Chosen, Target, Answers
    <3> QED BY <3>2, <3>3
  <2>3. CASE AppApplies
    <3>1. CASE behind \/ program # "none"
      BY <2>3, <3>1 DEF AppApplies, ConfInv
    <3>2. CASE ~behind /\ program = "none"
      <4>1. marker' = marker /\ step' = step /\ file' = file
        BY <2>3 DEF AppApplies, vars
      <4>2. Chosen' => marker
        BY <1>1, <3>2, <4>1 DEF Chosen
      <4>3. userConf' = file["layout"]
        BY <2>3, <3>2 DEF AppApplies, CopyInv
      <4> QED BY <4>1, <4>2, <4>3 DEF ConfInv, Target
    <3> QED BY <3>1, <3>2
  <2>4. CASE AppCloses
    <3>1. CASE app = "apply"
      BY <2>4, <3>1 DEF AppCloses, ConfInv
    <3>2. CASE app # "apply"
      <4>1. Target' = Target /\ Chosen' = Chosen
        BY <2>4 DEF AppCloses, vars, Target, Chosen
      <4>2. UNCHANGED <<cur, todo, full, userConf, marker, section>>
        BY <2>4 DEF AppCloses, vars
      <4>3. crossed' => crossed
        BY <2>4, <3>2 DEF AppCloses
      <4>4. ~crossed' => ~crossed
        BY <2>4, <3>2 DEF AppCloses, FirstBootTypeOK
      <4> QED BY <3>2, <4>1, <4>2, <4>4 DEF ConfInv, Answers
    <3> QED BY <3>1, <3>2
  <2> QED BY <1>7, <2>1, <2>2, <2>3, <2>4 DEF App
<1>8. ASSUME NEW d \in Daemons, DaemonSetsLayout(d) PROVE ConfInv'
  <2>1. cur'[d]["layout"] = userConf'
    BY <1>8 DEF DaemonSetsLayout, ApplyKey
  <2> QED BY <2>1 DEF ConfInv, Answers
<1>9. ASSUME NEW d \in Daemons, DaemonLoops(d) PROVE ConfInv'
  <2> USE DEF FirstBootTypeOK, TypeOK
  <2>1. UNCHANGED <<file, userConf, selected, step, marker, section, crossed, app>>
    BY <1>9, DaemonFrame DEF DaemonLoops
  <2>10. Target' = Target /\ Chosen' = Chosen
    BY <2>1 DEF Target, Chosen
  <2>2. CASE HyprlandReady(d) \/ ImportApplier(d) \/ PassDone(d)
             \/ StampFile(d) \/ Wake(d)
    <3>1. UNCHANGED <<cur, todo>> /\ (\A c \in Daemons : full'[c] => full[c])
      BY <2>2 DEF HyprlandReady, ImportApplier, PassDone, StampFile, Wake
    <3> QED BY <2>1, <2>10, <3>1 DEF ConfInv, Answers
  <2>3. ASSUME NEW k \in Keys \ {"layout"}, ApplyKey(d, k) PROVE ConfInv'
    <3>1. \A c \in Daemons : Answers(c) => Answers(c)'
      BY <2>1, <2>3 DEF ApplyKey, Answers
    <3>2. full' = full
      BY <2>3 DEF ApplyKey
    <3> QED BY <2>1, <2>10, <3>1, <3>2 DEF ConfInv
  <2>4. MergedFlat["layout"] \in Layouts /\ Unset \notin Layouts
    BY MergedLayout, LayoutFacts DEF LayoutInv
  <2>5. CASE ReadAll(d)
    <3>1. CASE applier[d]
      <4>1. "layout" \in todo'[d]
        BY <2>4, <2>5, <3>1, LayoutFacts DEF ReadAll, AllKeys
      <4> QED BY <4>1 DEF ConfInv, Answers
    <3>2. CASE ~applier[d]
      BY <2>1, <2>10, <2>5, <3>2 DEF ReadAll, ConfInv
    <3> QED BY <3>1, <3>2
  <2>6. CASE ReadChanged(d)
    <3> SUFFICES ASSUME Chosen, ~crossed, marker => section = "written",
                        \A c \in Daemons : full[c],
                        userConf # Target, app # "apply"
                 PROVE  \E c \in Daemons : Answers(c)'
      BY <2>1, <2>10, <2>6 DEF ReadChanged, ConfInv
    <3>1. PICK c \in Daemons : Answers(c)
      BY DEF ConfInv
    <3>2. CASE c # d
      BY <2>1, <2>6, <3>1, <3>2 DEF ReadChanged, Answers
    <3>3. CASE c = d
      <4>1. applier[d] /\ todo[d] = {}
        BY <2>6 DEF PassInv, ReadChanged
      <4>2. cur[d]["layout"] = userConf
        BY <3>1, <3>3, <4>1 DEF Answers
      <4>3. /\ cur'[d]["layout"] = MergedFlat["layout"]
            /\ todo'[d] = ChangedKeys(cur[d], MergedFlat)
        BY <2>6, <4>1 DEF ReadChanged
      <4>4. MergedFlat["layout"] # userConf => "layout" \in todo'[d]
        BY <2>4, <4>2, <4>3, LayoutFacts DEF ChangedKeys, AllKeys
      <4> QED BY <2>1, <4>3, <4>4 DEF Answers
    <3> QED BY <3>2, <3>3
  <2> QED BY <1>9, <2>2, <2>3, <2>5, <2>6 DEF DaemonLoops
<1> QED
  BY <1>4, <1>5, <1>6, <1>7, <1>8, <1>9 DEF FNext

---------------------------------------------------------------------------
\* The initial state satisfies the invariant.
LEMMA InitFBInv == ASSUME FInit PROVE FBInv
<1> USE LayoutFacts, FirstBootAssumption DEF FInit
<1>1. IInv
  BY InitIInv
<1>2. Empty \in Flats
  BY DEF Empty, Flats, Settable
<1>3. file \in Flats
  BY <1>1 DEF IInv, TypeOK
<1>4. meant \in [Unmanaged -> Settable]
  BY <1>3 DEF Flats
<1>5. FirstBootTypeOK
  <2>1. page \in 0 .. LastPage /\ starts \in Nat
    OBVIOUS
  <2>2. calls \in [Layouts -> Nat]
    OBVIOUS
  <2>3. step \in Steps /\ (step = "off" <=> program = "none")
        /\ program \in {"none", "wizard", "tui"}
    BY DEF Steps
  <2>4. /\ selected \in Layouts /\ keymap \in Layouts
        /\ kept \in Flats /\ userConf \in Layouts \cup {Unset}
    BY <1>2
  <2> QED
    BY <1>1, <1>2, <1>4, <2>1, <2>2, <2>3, <2>4
       DEF FirstBootTypeOK, IInv, Sections
<1>6. LayoutInv /\ CopyInv /\ SavedInv /\ KeptInv
  BY DEF Init, Empty, LayoutInv, CopyInv, SavedInv, KeptInv, SectionsKept,
         Composed
<1>7. ConfInv
  BY DEF ConfInv, Chosen, Composed
<1> QED BY <1>1, <1>5, <1>6, <1>7 DEF FBInv

\* The invariant implies what the run checks.
LEMMA FBInvImplies ==
    ASSUME FBInv
    PROVE  MarkerMeansSaved /\ SectionsKept /\ LayoutSettles
<1>1. MarkerMeansSaved
  <2> SUFFICES ASSUME marker
               PROVE  /\ ~torn
                      /\ \/ file["layout"] # Unset
                         \/ section = "found" /\ HasKeyboard(file)
                         \/ section = "lost"
    BY DEF MarkerMeansSaved
  <2>1. ~torn
    BY DEF FBInv, FirstBootTypeOK, SavedInv
  <2>2. Left /\ section \in Sections
    BY DEF FBInv, FirstBootTypeOK, SavedInv
  <2> QED BY <2>1, <2>2 DEF Left, Sections
<1>2. SectionsKept
  BY DEF FBInv, KeptInv
<1>3. LayoutSettles
  <2> SUFFICES ASSUME marker, section = "written", ~crossed, app # "apply",
                      Quiescent
               PROVE  userConf = file["layout"]
    BY DEF LayoutSettles
  <2>1. file["layout"] # Unset
    BY DEF FBInv, SavedInv, Left
  <2>2. CASE userConf = Target
    BY <2>2 DEF Target
  <2>3. CASE userConf # Target
    <3>1. PICK d \in Daemons : Answers(d)
      BY <2>3 DEF FBInv, ConfInv, Chosen, Quiescent
    <3>2. todo[d] = {}
      BY DEF FBInv, IInv, PassInv, Quiescent, Idle
    <3>3. cur[d] = MergedFlat
      BY IInvImplies DEF FBInv, NoSilentMiss, Quiescent
    <3>4. MergedFlat["layout"] = file["layout"]
      BY <2>1, MergedLayout DEF FBInv, LayoutInv
    <3> QED BY <3>1, <3>2, <3>3, <3>4 DEF Answers
  <2> QED BY <2>2, <2>3
<1> QED BY <1>1, <1>2, <1>3

\* The inductive invariant holds in every reachable state.
THEOREM FirstBootInductive == FSpec => []FBInv
<1>1. FInit => FBInv
  BY InitFBInv
<1>2. FBInv /\ [FNext]_allVars => FBInv'
  BY DaemonPart, OwnTypes, LayoutStep, CopyStep, SavedStep, KeptStep,
     ConfStep DEF FBInv, IInv
<1> QED BY <1>1, <1>2, PTL DEF FSpec

\* Type correctness of the setup programs beside the daemons.
THEOREM FirstBootTypes == FSpec => []FirstBootTypeOK
<1>1. FBInv => FirstBootTypeOK
  BY DEF FBInv
<1> QED BY <1>1, FirstBootInductive, PTL

\* Closed, killed and started again at any step, a setup program that has
\* left its marker has left a whole file with the layout it wrote or the
\* section it found, and no save of the app takes that away but one whose copy
\* is older than setup's file.
THEOREM SavedWhenMarked == FSpec => []MarkerMeansSaved
<1>1. FBInv => MarkerMeansSaved
  BY FBInvImplies
<1> QED BY <1>1, FirstBootInductive, PTL

\* What other programs saved in sections of their own survives setup, the
\* two named losses apart.
THEOREM SectionsSurvive == FSpec => []SectionsKept
<1>1. FBInv => SectionsKept
  BY FBInvImplies
<1> QED BY <1>1, FirstBootInductive, PTL

\* With any number of daemons and the app writing user.conf as well, it ends
\* up with the layout the file has, if setup wrote one and the app did not
\* change the layout at the same time.
THEOREM LayoutArrives == FSpec => []LayoutSettles
<1>1. FBInv => LayoutSettles
  BY FBInvImplies
<1> QED BY <1>1, FirstBootInductive, PTL

\* Setup beside the daemons is one of the histories SettingsDaemon allows, so
\* whatever is proved of that specification holds here.
THEOREM FirstBootImplementsDaemons == FSpec => Spec
<1>1. FInit => Init
  BY DEF FInit
<1>2. FBInv /\ [FNext]_allVars => [Next]_vars
  BY StepsOfDaemon DEF FBInv
<1> QED BY <1>1, <1>2, FirstBootInductive, PTL DEF FSpec, Spec
============================================================================
