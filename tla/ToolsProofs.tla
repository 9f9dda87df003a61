---------------------------- MODULE ToolsProofs ----------------------------
(***************************************************************************)
(* Proofs about the programs that are instances in MCPrograms: the doctor, *)
(* the screenshot tool, the update checker and the kernel's string         *)
(* functions, for any bounds, starters and buffers; and about all          *)
(* programs as MCPrograms runs them.                                       *)
(***************************************************************************)
EXTENDS MCPrograms, BackgroundProofs, UpdateWindowProofs,
        FiniteSetTheorems, WellFoundedInduction, TLAPS

LEMMA Bounds == MaxClicks \in Nat /\ MaxFailures \in Nat /\ Cooldown \in Nat
BY ToolsAssumption

LEMMA Sizes ==
    /\ Size \in Nat /\ Size > 0 /\ Bytes \subseteq 0 .. 255
    /\ 0 \in Bytes /\ MemsetInt % 256 \in Bytes
<1>1. Size \in Nat \ {0} /\ Bytes \subseteq 0 .. 255 /\ {0, MemsetInt % 256} \subseteq Bytes
  BY ToolsAssumption, Zenon
<1>2. Size > 0
  <2>1. Size \in Nat \ {0}
    BY <1>1, Zenon
  <2> QED BY <2>1
<1> QED BY <1>1, <1>2, Zenon

---------------------------------------------------------------------------
(* torrentos-screenshot.                                                   *)

\* Every timer and every picture has a click of its own.
PictureCounts == last + due + held <= clicks

\* A single capture that has hidden the window waits until it is gone.
PictureAlone ==
    crowded \/ /\ ~spoiled /\ due + held <= 1
               /\ ~visible /\ onScreen => held > 0

\* While the dialog is open no capture starts.
DialogAlone == dialog > 0 /\ ~late => due + held = 0 /\ dialog = last

PictureInv ==
    Pictures!ScreenshotTypeOK /\ PictureCounts /\ PictureAlone /\ DialogAlone

LEMMA PictureInit == Pictures!Init => PictureInv
<1> SUFFICES ASSUME Pictures!Init PROVE PictureInv
  OBVIOUS
<1> USE Bounds DEF Pictures!Init
<1>1. Pictures!ScreenshotTypeOK
  <2>1. mode \in Pictures!Modes
    BY DEF Pictures!Modes
  <2>2. 0 \in 0 .. MaxClicks /\ 0 \in 0 .. 0
    OBVIOUS
  <2> QED BY <2>1, <2>2, Zenon DEF Pictures!ScreenshotTypeOK
<1>2. PictureCounts
  BY DEF PictureCounts
<1>3. PictureAlone
  BY DEF PictureAlone
<1>4. DialogAlone
  BY DEF DialogAlone
<1> QED BY <1>1, <1>2, <1>3, <1>4 DEF PictureInv

LEMMA PictureStep == PictureInv /\ [Pictures!Next]_(Pictures!vars) => PictureInv'
<1> SUFFICES ASSUME PictureInv, [Pictures!Next]_(Pictures!vars) PROVE PictureInv'
  OBVIOUS
<1> USE Bounds DEF PictureInv, Pictures!ScreenshotTypeOK
<1>1. ASSUME NEW m \in Pictures!Modes, Pictures!Choose(m) PROVE PictureInv'
  <2> USE <1>1 DEF Pictures!Choose
  <2>1. Pictures!ScreenshotTypeOK'
    <3>1. /\ mode' \in Pictures!Modes
          /\ due' \in 0 .. MaxClicks /\ held' \in 0 .. MaxClicks
          /\ last' \in 0 .. MaxClicks /\ dialog' \in 0 .. last'
          /\ clicks' \in 0 .. MaxClicks
      BY DEF PictureCounts
    <3>2. /\ visible' \in BOOLEAN /\ onScreen' \in BOOLEAN
          /\ spoiled' \in BOOLEAN /\ crowded' \in BOOLEAN
          /\ late' \in BOOLEAN /\ raised' \in BOOLEAN
      BY Zenon
    <3> QED BY <3>1, <3>2
  <2>2. PictureCounts'
    BY DEF PictureCounts
  <2>3. PictureAlone'
    BY DEF PictureAlone
  <2>4. DialogAlone'
    BY DEF DialogAlone
  <2> QED BY <2>1, <2>2, <2>3, <2>4
<1>2. ASSUME NEW delayed \in BOOLEAN, Pictures!OnCapture(delayed) PROVE PictureInv'
  <2>1. /\ clicks < MaxClicks /\ clicks' = clicks + 1
        /\ \/ due' = due + 1 /\ held' = held
           \/ due' = due /\ held' = held + 1
        /\ last' = last /\ dialog' = dialog /\ mode' = mode
    BY <1>2, Zenon DEF Pictures!OnCapture
  <2>2. /\ visible' \in BOOLEAN /\ onScreen' \in BOOLEAN
        /\ spoiled' \in BOOLEAN /\ crowded' \in BOOLEAN
        /\ late' \in BOOLEAN /\ raised' \in BOOLEAN
    BY <1>2, Zenon DEF Pictures!OnCapture
  <2>3. Pictures!ScreenshotTypeOK' /\ PictureCounts'
    BY <2>1, <2>2 DEF PictureCounts
  <2>4. PictureAlone'
    <3>1. CASE crowded \/ due + held > 0
      BY <1>2, <3>1, Zenon DEF Pictures!OnCapture, PictureAlone
    <3>2. CASE ~crowded /\ ~(due + held > 0)
      <4>1. due = 0 /\ held = 0
        BY <3>2
      <4>2. due' + held' <= 1
        BY <2>1, <4>1
      <4>3. ~spoiled' /\ visible /\ onScreen' = onScreen
        BY <1>2, <3>2, Zenon DEF Pictures!OnCapture, Pictures!Usable, PictureAlone
      <4>4. ~visible' => held' = held + 1
        BY <1>2, <4>3, Zenon DEF Pictures!OnCapture
      <4> QED BY <4>1, <4>2, <4>3, <4>4 DEF PictureAlone
    <3> QED BY <3>1, <3>2
  <2>5. DialogAlone'
    BY <1>2, <2>1 DEF Pictures!OnCapture, Pictures!Usable, DialogAlone
  <2> QED BY <2>3, <2>4, <2>5
<1>3. CASE Pictures!OnSaveAs
  <2> USE <1>3 DEF Pictures!OnSaveAs, Pictures!Usable
  <2>1. Pictures!ScreenshotTypeOK'
    <3>1. /\ mode' \in Pictures!Modes
          /\ due' \in 0 .. MaxClicks /\ held' \in 0 .. MaxClicks
          /\ last' \in 0 .. MaxClicks /\ dialog' \in 0 .. last'
          /\ clicks' \in 0 .. MaxClicks
      BY DEF PictureCounts
    <3>2. (due + held > 0) \in BOOLEAN
      OBVIOUS
    <3>3. /\ visible' \in BOOLEAN /\ onScreen' \in BOOLEAN
          /\ spoiled' \in BOOLEAN /\ crowded' \in BOOLEAN
          /\ late' \in BOOLEAN /\ raised' \in BOOLEAN
      BY <3>2, Zenon
    <3> QED BY <3>1, <3>3
  <2>2. PictureCounts'
    BY DEF PictureCounts
  <2>3. PictureAlone'
    BY DEF PictureAlone
  <2>4. DialogAlone'
    <3>1. dialog' = last' /\ due' = due /\ held' = held
      OBVIOUS
    <3>2. ~late' => ~(due + held > 0)
      BY Zenon
    <3>3. ~(due + held > 0) => due' + held' = 0
      BY <3>1
    <3> QED BY <3>1, <3>2, <3>3, Zenon DEF DialogAlone
  <2> QED BY <2>1, <2>2, <2>3, <2>4
<1>4. CASE Pictures!SaveAsDone
  <2> USE <1>4 DEF Pictures!SaveAsDone
  <2>1. Pictures!ScreenshotTypeOK'
    <3>1. /\ mode' \in Pictures!Modes
          /\ due' \in 0 .. MaxClicks /\ held' \in 0 .. MaxClicks
          /\ last' \in 0 .. MaxClicks /\ dialog' \in 0 .. last'
          /\ clicks' \in 0 .. MaxClicks
      BY DEF PictureCounts
    <3>2. /\ visible' \in BOOLEAN /\ onScreen' \in BOOLEAN
          /\ spoiled' \in BOOLEAN /\ crowded' \in BOOLEAN
          /\ late' \in BOOLEAN /\ raised' \in BOOLEAN
      BY Zenon
    <3> QED BY <3>1, <3>2
  <2>2. PictureCounts'
    BY DEF PictureCounts
  <2>3. PictureAlone'
    BY DEF PictureAlone
  <2>4. DialogAlone'
    BY DEF DialogAlone
  <2> QED BY <2>1, <2>2, <2>3, <2>4
<1>5. CASE Pictures!Settles
  <2> USE <1>5 DEF Pictures!Settles
  <2>1. Pictures!ScreenshotTypeOK'
    <3>1. /\ mode' \in Pictures!Modes
          /\ due' \in 0 .. MaxClicks /\ held' \in 0 .. MaxClicks
          /\ last' \in 0 .. MaxClicks /\ dialog' \in 0 .. last'
          /\ clicks' \in 0 .. MaxClicks
      BY DEF PictureCounts
    <3>2. /\ visible' \in BOOLEAN /\ onScreen' \in BOOLEAN
          /\ spoiled' \in BOOLEAN /\ crowded' \in BOOLEAN
          /\ late' \in BOOLEAN /\ raised' \in BOOLEAN
      BY Zenon
    <3> QED BY <3>1, <3>2
  <2>2. PictureCounts'
    BY DEF PictureCounts
  <2>3. PictureAlone'
    BY DEF PictureAlone
  <2>4. DialogAlone'
    BY DEF DialogAlone
  <2> QED BY <2>1, <2>2, <2>3, <2>4
<1>6. CASE Pictures!Hides
  <2> USE <1>6 DEF Pictures!Hides, Pictures!MustHide
  <2>1. Pictures!ScreenshotTypeOK'
    <3>1. /\ mode' \in Pictures!Modes
          /\ due' \in 0 .. MaxClicks /\ held' \in 0 .. MaxClicks
          /\ last' \in 0 .. MaxClicks /\ dialog' \in 0 .. last'
          /\ clicks' \in 0 .. MaxClicks
      BY DEF PictureCounts
    <3>2. /\ visible' \in BOOLEAN /\ onScreen' \in BOOLEAN
          /\ spoiled' \in BOOLEAN /\ crowded' \in BOOLEAN
          /\ late' \in BOOLEAN /\ raised' \in BOOLEAN
      BY Zenon
    <3> QED BY <3>1, <3>2
  <2>2. PictureCounts'
    BY DEF PictureCounts
  <2>3. PictureAlone'
    BY DEF PictureAlone
  <2>4. DialogAlone'
    BY DEF DialogAlone
  <2> QED BY <2>1, <2>2, <2>3, <2>4
<1>7. CASE Pictures!Takes
  <2> USE <1>7 DEF Pictures!Takes, Pictures!MustHide, Pictures!ComeBack, Pictures!Modes
  <2>1. Pictures!ScreenshotTypeOK'
    <3>1. /\ mode' \in Pictures!Modes
          /\ due' \in 0 .. MaxClicks /\ held' \in 0 .. MaxClicks
          /\ last' \in 0 .. MaxClicks /\ dialog' \in 0 .. last'
          /\ clicks' \in 0 .. MaxClicks
      BY DEF PictureCounts
    <3>2. /\ visible' \in BOOLEAN /\ onScreen' \in BOOLEAN
          /\ spoiled' \in BOOLEAN /\ crowded' \in BOOLEAN
          /\ late' \in BOOLEAN /\ raised' \in BOOLEAN
      BY Zenon
    <3> QED BY <3>1, <3>2
  <2>2. PictureCounts'
    BY DEF PictureCounts
  <2>3. PictureAlone'
    BY DEF PictureAlone
  <2>4. DialogAlone'
    BY DEF DialogAlone
  <2> QED BY <2>1, <2>2, <2>3, <2>4
<1>8. CASE Pictures!Cancelled
  <2> USE <1>8 DEF Pictures!Cancelled, Pictures!ComeBack
  <2>1. Pictures!ScreenshotTypeOK'
    <3>1. /\ mode' \in Pictures!Modes
          /\ due' \in 0 .. MaxClicks /\ held' \in 0 .. MaxClicks
          /\ last' \in 0 .. MaxClicks /\ dialog' \in 0 .. last'
          /\ clicks' \in 0 .. MaxClicks
      BY DEF PictureCounts
    <3>2. /\ visible' \in BOOLEAN /\ onScreen' \in BOOLEAN
          /\ spoiled' \in BOOLEAN /\ crowded' \in BOOLEAN
          /\ late' \in BOOLEAN /\ raised' \in BOOLEAN
      BY Zenon
    <3> QED BY <3>1, <3>2
  <2>2. PictureCounts'
    BY DEF PictureCounts
  <2>3. PictureAlone'
    BY DEF PictureAlone
  <2>4. DialogAlone'
    BY DEF DialogAlone
  <2> QED BY <2>1, <2>2, <2>3, <2>4
<1>9. CASE Pictures!Raises
  <2> USE <1>9 DEF Pictures!Raises
  <2>1. Pictures!ScreenshotTypeOK'
    <3>1. /\ mode' \in Pictures!Modes
          /\ due' \in 0 .. MaxClicks /\ held' \in 0 .. MaxClicks
          /\ last' \in 0 .. MaxClicks /\ dialog' \in 0 .. last'
          /\ clicks' \in 0 .. MaxClicks
      BY DEF PictureCounts
    <3>2. /\ visible' \in BOOLEAN /\ onScreen' \in BOOLEAN
          /\ spoiled' \in BOOLEAN /\ crowded' \in BOOLEAN
          /\ late' \in BOOLEAN /\ raised' \in BOOLEAN
      BY Zenon
    <3> QED BY <3>1, <3>2
  <2>2. PictureCounts'
    BY DEF PictureCounts
  <2>3. PictureAlone'
    BY DEF PictureAlone
  <2>4. DialogAlone'
    BY DEF DialogAlone
  <2> QED BY <2>1, <2>2, <2>3, <2>4
<1>10. CASE UNCHANGED Pictures!vars
  <2> USE <1>10 DEF Pictures!vars
  <2>1. Pictures!ScreenshotTypeOK'
    <3>1. /\ mode' \in Pictures!Modes
          /\ due' \in 0 .. MaxClicks /\ held' \in 0 .. MaxClicks
          /\ last' \in 0 .. MaxClicks /\ dialog' \in 0 .. last'
          /\ clicks' \in 0 .. MaxClicks
      BY DEF PictureCounts
    <3>2. /\ visible' \in BOOLEAN /\ onScreen' \in BOOLEAN
          /\ spoiled' \in BOOLEAN /\ crowded' \in BOOLEAN
          /\ late' \in BOOLEAN /\ raised' \in BOOLEAN
      BY Zenon
    <3> QED BY <3>1, <3>2
  <2>2. PictureCounts'
    BY DEF PictureCounts
  <2>3. PictureAlone'
    BY DEF PictureAlone
  <2>4. DialogAlone'
    BY DEF DialogAlone
  <2> QED BY <2>1, <2>2, <2>3, <2>4
<1> QED BY <1>1, <1>2, <1>3, <1>4, <1>5, <1>6, <1>7, <1>8, <1>9, <1>10
        DEF Pictures!Next, Pictures!User, Pictures!DoCapture

\* PictureInv holds in every state of the screenshot tool.
THEOREM PictureInductive == Pictures!Spec => []PictureInv
BY PictureInit, PictureStep, PTL DEF Pictures!Spec

LEMMA PictureKeeps == PictureInv => OneAtATime /\ SavesWhatWasOffered
BY DEF PictureInv, PictureAlone, DialogAlone, OneAtATime, Pictures!OneAtATime,
   SavesWhatWasOffered, Pictures!SavesWhatWasOffered

\* However long the delay, whatever mode is chosen before the timer runs: one
\* capture at a time keeps the tool's window out of the picture.
THEOREM WindowStaysOut == Pictures!Spec => []OneAtATime
BY PictureKeeps, PictureInductive, PTL

\* Save As copies the picture whose name the dialog proposed.
THEOREM SavesTheOffered == Pictures!Spec => []SavesWhatWasOffered
BY PictureKeeps, PictureInductive, PTL

---------------------------------------------------------------------------
(* torrentos-update-check.                                                 *)

Notifies(c) == pc[c] \in {"stamp", "send"}

\* The stamp is not older than the notification it stands for, and new while
\* one is being sent; a script past its look at the stamp is alone there, and
\* the silence is over.
QuietInv ==
    /\ age <= quietFor
    /\ \A c \in Checkers : pc[c] = "send" => age = 0
    /\ \A c \in Checkers : Notifies(c) => raced \/ quietFor = Cooldown
    /\ \A c, d \in Checkers : c # d /\ Notifies(c) /\ Notifies(d) =>
          raced \/ Cooldown = 0

CheckInv == Checker!CheckTypeOK /\ QuietInv

LEMMA CheckInit == Checker!Init => CheckInv
<1> SUFFICES ASSUME Checker!Init PROVE CheckInv
  OBVIOUS
<1>1. 0 \in 0 .. MaxFailures /\ Cooldown \in 0 .. Cooldown /\ Cooldown <= Cooldown
  BY Bounds
<1>2. Checker!CheckTypeOK
  BY <1>1, Zenon DEF Checker!Init, Checker!CheckTypeOK, Checker!Steps
<1>3. QuietInv
  BY <1>1 DEF Checker!Init, QuietInv, Notifies
<1> QED BY <1>2, <1>3 DEF CheckInv

LEMMA CheckStep == CheckInv /\ [Checker!Next]_(Checker!vars) => CheckInv'
<1> SUFFICES ASSUME CheckInv, [Checker!Next]_(Checker!vars) PROVE CheckInv'
  OBVIOUS
<1> USE Bounds DEF CheckInv, Checker!CheckTypeOK, Checker!Steps, QuietInv, Notifies,
        Checker!At, Checker!Goes
<1>1. ASSUME NEW c \in Checkers, Checker!Starts(c) PROVE CheckInv'
  BY <1>1 DEF Checker!Starts
<1>2. ASSUME NEW c \in Checkers, Checker!Looks(c) PROVE CheckInv'
  BY <1>2 DEF Checker!Looks
<1>3. ASSUME NEW c \in Checkers, Checker!Throttles(c) PROVE CheckInv'
  <2> DEFINE Goal == IF age >= Cooldown THEN "stamp" ELSE "idle"
  <2>1. /\ pc' = [pc EXCEPT ![c] = Goal] /\ age' = age /\ quietFor' = quietFor
        /\ stale' = stale /\ failures' = failures
    BY <1>3, Zenon DEF Checker!Throttles
  <2>2. pending' \in BOOLEAN /\ told' \in BOOLEAN /\ raced' \in BOOLEAN
    BY <1>3, Zenon DEF Checker!Throttles
  <2>3. Goal \in {"stamp", "idle"} /\ (Goal = "stamp" => age = Cooldown)
    OBVIOUS
  <2> HIDE DEF Goal
  <2>4. Checker!CheckTypeOK'
    BY <2>1, <2>2, <2>3
  <2>5. raced => raced'
    BY <1>3, Zenon DEF Checker!Throttles
  <2>6. ~raced' => \A d \in Checkers \ {c} : pc[d] # "stamp"
    BY <1>3, Zenon DEF Checker!Throttles
  <2>7. \A d \in Checkers : pc[d] = "send" => age = 0
    OBVIOUS
  <2>8. QuietInv'
    BY <2>1, <2>3, <2>5, <2>6, <2>7
  <2> QED BY <2>4, <2>8
<1>4. ASSUME NEW c \in Checkers, Checker!Stamps(c) PROVE CheckInv'
  BY <1>4 DEF Checker!Stamps
<1>5. ASSUME NEW c \in Checkers, Checker!Sends(c) PROVE CheckInv'
  BY <1>5 DEF Checker!Sends
<1>6. ASSUME NEW c \in Checkers, Checker!Fails(c) PROVE CheckInv'
  BY <1>6 DEF Checker!Fails
<1>7. CASE Checker!Hour
  BY <1>7 DEF Checker!Hour
<1>8. CASE Checker!Appear \/ Checker!Installed
  BY <1>8 DEF Checker!Appear, Checker!Installed
<1>9. CASE UNCHANGED Checker!vars
  BY <1>9 DEF Checker!vars
<1> QED BY <1>1, <1>2, <1>3, <1>4, <1>5, <1>6, <1>7, <1>8, <1>9
        DEF Checker!Next, Checker!Script

LEMMA SilenceKept ==
    CheckInv /\ [Checker!Next]_(Checker!vars) =>
        [Checker!ShowsAgain => quietFor = Cooldown \/ raced]_(Checker!vars)
BY DEF CheckInv, QuietInv, Notifies, Checker!ShowsAgain, Checker!At

\* "Only notify at most once per 6 hours": for any number of starters and any
\* silence, but for two scripts past the look at the stamp at a time.
THEOREM NotifiesOnce == Checker!Spec => OnceUnlessRaced
BY SilenceKept, CheckInit, CheckStep, PTL
   DEF Checker!Spec, OnceUnlessRaced, Checker!OnceUnlessRaced

---------------------------------------------------------------------------
(* Least numbers, and the library's Min.                                   *)

\* A set of naturals has a least element: the intervals below its elements are
\* finite sets, among which inclusion is well-founded.
LEMMA Least == ASSUME NEW S \in SUBSET Nat, S # {} PROVE \E m \in S : \A k \in S : m <= k
<1> DEFINE T == {0 .. k : k \in S}
<1>1. T \subseteq FiniteSubsetsOf(Nat) /\ T # {}
  <2>1. \A k \in Nat : IsFiniteSet(0 .. k)
    BY FS_Interval
  <2>2. \A k \in Nat : 0 .. k \subseteq Nat
    OBVIOUS
  <2>3. \A k \in S : 0 .. k \in FiniteSubsetsOf(Nat)
    BY <2>1, <2>2 DEF FiniteSubsetsOf
  <2> QED BY <2>3
<1>2. IsWellFoundedOn(StrictSubsetOrdering(Nat), FiniteSubsetsOf(Nat))
  BY FS_StrictSubsetOrderingWellFounded
<1>3. PICK x \in T : \A y \in T : ~(<<y, x>> \in StrictSubsetOrdering(Nat))
  <2> HIDE DEF T
  <2> QED BY <1>1, <1>2, WFMin
<1>4. PICK m \in S : x = 0 .. m
  BY <1>3
<1>5. ASSUME NEW k \in S, k < m PROVE FALSE
  <2>1. 0 .. k \in T /\ 0 .. k \subseteq x /\ m \in x /\ m \notin 0 .. k
    BY <1>4, <1>5
  <2>2. x \subseteq Nat /\ 0 .. k \subseteq Nat
    BY <1>4
  <2>3. <<0 .. k, x>> \in StrictSubsetOrdering(Nat)
    <3>1. <<0 .. k, x>> \in (SUBSET Nat) \X (SUBSET Nat)
      BY <2>2
    <3> QED BY <2>1, <3>1 DEF StrictSubsetOrdering
  <2> QED BY <1>3, <2>1, <2>3
<1> QED BY <1>4, <1>5

\* The library's Min of a set of integers that has a least element.
LEMMA MinIs == ASSUME NEW S \in SUBSET Int, NEW m \in S, \A k \in S : m <= k
               PROVE  Strings!Min(S) = m
<1>1. \E x \in S : \A y \in S : x <= y
  OBVIOUS
<1>2. /\ Strings!Min(S) \in S
      /\ \A y \in S : Strings!Min(S) <= y
  BY <1>1 DEF Strings!Min
<1>3. Strings!Min(S) \in Int /\ m \in Int /\ m <= Strings!Min(S)
  BY <1>2
<1> QED BY <1>2, <1>3

LEMMA MinPair == ASSUME NEW a \in Int, NEW b \in Int
                 PROVE  Strings!Min({a, b}) \in {a, b} /\ Strings!Min({a, b}) <= a
                        /\ Strings!Min({a, b}) <= b
<1>1. CASE a <= b
  <2>1. Strings!Min({a, b}) = a
    BY <1>1, MinIs
  <2> QED BY <1>1, <2>1
<1>2. CASE b <= a
  <2>1. Strings!Min({a, b}) = b
    BY <1>2, MinIs
  <2> QED BY <1>2, <2>1
<1> QED BY <1>1, <1>2

LEMMA MinTriple == ASSUME NEW a \in Int, NEW b \in Int, NEW c \in Int
                   PROVE  /\ Strings!Min({a, b, c}) \in {a, b, c}
                          /\ Strings!Min({a, b, c}) <= a
                          /\ Strings!Min({a, b, c}) <= b
                          /\ Strings!Min({a, b, c}) <= c
<1>1. \E m \in {a, b, c} : \A k \in {a, b, c} : m <= k
  OBVIOUS
<1>2. PICK m \in {a, b, c} : \A k \in {a, b, c} : m <= k
  BY <1>1
<1>3. Strings!Min({a, b, c}) = m
  BY <1>2, MinIs
<1> QED BY <1>2, <1>3

\* A string's length is the place of its first zero.
LEMMA FirstZero ==
    ASSUME NEW s, Strings!Terminated(s)
    PROVE  /\ Strings!Length(s) \in 0 .. Size - 1
           /\ s[Strings!Length(s)] = 0
           /\ \A k \in 0 .. Size : s[k] = 0 => Strings!Length(s) <= k
<1> DEFINE Zeros == {k \in Strings!Cells : s[k] = 0}
<1>1. PICK z \in 0 .. Size - 1 : s[z] = 0
  BY DEF Strings!Terminated
<1>2. z \in Zeros /\ Zeros \in SUBSET Nat
  BY <1>1, Sizes DEF Strings!Cells
<1>3. PICK m \in Zeros : \A k \in Zeros : m <= k
  <2> HIDE DEF Zeros
  <2> QED BY <1>2, Least
<1>4. Strings!Length(s) = m
  <2>1. Strings!Min(Zeros) = m
    <3> HIDE DEF Zeros
    <3> QED BY <1>2, <1>3, MinIs
  <2> QED BY <2>1 DEF Strings!Length
<1> QED BY <1>2, <1>3, <1>4, Sizes DEF Strings!Cells

\* Where the bytes before a zero are none.
LEMMA LengthIs ==
    ASSUME NEW s, NEW z \in 0 .. Size, s[z] = 0, \A k \in 0 .. z - 1 : s[k] # 0
    PROVE  Strings!Length(s) = z
<1> DEFINE Zeros == {k \in Strings!Cells : s[k] = 0}
<1>1. z \in Zeros /\ Zeros \in SUBSET Int
  BY Sizes DEF Strings!Cells
<1>2. \A k \in Zeros : z <= k
  BY Sizes DEF Strings!Cells
<1>3. Strings!Min(Zeros) = z
  <2> HIDE DEF Zeros
  <2> QED BY <1>1, <1>2, MinIs
<1> QED BY <1>3 DEF Strings!Length

---------------------------------------------------------------------------
(* torrentos-doctor.                                                       *)

\* The commands that fail, if at all, only under --quiet or while counting.
Plain == {"ok", "warn", "fail", "hint", "count"}

\* Every other command stands where these two have it.
Outcomes == Seq(Plain) \cup {<<"fail", "nofix">>, <<"broken">>}

LEMMA OutcomesAre ==
    /\ DoctorTool!OkOrWarn \subseteq Seq(Plain)
    /\ DoctorTool!OkOrFail \subseteq Seq(Plain)
    /\ DoctorTool!OkOrNoFix \subseteq Outcomes
    /\ DoctorTool!OkOrBroken \subseteq Outcomes
    /\ {<<>>} \subseteq Seq(Plain)
    /\ {<<"ok">>} \subseteq Seq(Plain)
    /\ {<<"warn", "hint">>} \subseteq Seq(Plain)
    /\ DoctorTool!CheckGamemode \subseteq Seq(Plain)
<1>1. DoctorTool!OkOrWarn \subseteq Seq(Plain)
  BY DEF DoctorTool!OkOrWarn, Plain
<1>2. DoctorTool!OkOrNoFix \subseteq Outcomes
  BY DEF DoctorTool!OkOrNoFix, Outcomes, Plain
<1>3. DoctorTool!OkOrBroken \subseteq Outcomes
  BY <1>1, Zenon DEF DoctorTool!OkOrBroken, Outcomes
<1> QED
  BY <1>1, <1>2, <1>3
     DEF DoctorTool!OkOrFail, DoctorTool!CheckGamemode, Plain

Cat(s, t) == s \o t

LEMMA Joined ==
    ASSUME NEW C, NEW s \in Seq(C), NEW t \in Seq(C)
    PROVE  /\ Cat(s, t) \in Seq(C) /\ Len(Cat(s, t)) = Len(s) + Len(t)
           /\ \A k \in 1 .. Len(s) : Cat(s, t)[k] = s[k]
           /\ \A k \in 1 .. Len(t) : Cat(s, t)[Len(s) + k] = t[k]
BY DEF Cat

\* A sequence over C of length k.
Long(C, s, k) == s \in Seq(C) /\ Len(s) = k

LEMMA LongCat ==
    ASSUME NEW C, NEW s, NEW t, NEW i \in Nat, NEW k \in Nat,
           Long(C, s, i), Long(C, t, k)
    PROVE  Long(C, Cat(s, t), i + k)
<1>1. s \in Seq(C) /\ t \in Seq(C) /\ Len(s) = i /\ Len(t) = k
  BY DEF Long
<1>2. Cat(s, t) \in Seq(C) /\ Len(Cat(s, t)) = Len(s) + Len(t)
  BY <1>1, Joined
<1> QED BY <1>1, <1>2 DEF Long

LEMMA CatFirst ==
    ASSUME NEW C, NEW s, NEW t, NEW i \in Nat, NEW k \in Nat, i > 0,
           Long(C, s, i), Long(C, t, k)
    PROVE  Cat(s, t)[1] = s[1]
BY DEF Long, Cat

LEMMA CatLast ==
    ASSUME NEW C, NEW s, NEW t, NEW i \in Nat, NEW k \in Nat, k > 0,
           Long(C, s, i), Long(C, t, k)
    PROVE  Cat(s, t)[i + k] = t[k]
BY DEF Long, Cat

LEMMA ThenIs ==
    ASSUME NEW a \in SUBSET Seq(Plain), NEW b \in SUBSET Seq(Plain)
    PROVE  DoctorTool!Then(a, b) \subseteq Seq(Plain)
<1>1. ASSUME NEW z \in DoctorTool!Then(a, b) PROVE z \in Seq(Plain)
  <2>1. PICK x \in a, y \in b : z = x \o y
    BY <1>1 DEF DoctorTool!Then
  <2>2. x \in Seq(Plain) /\ y \in Seq(Plain)
    OBVIOUS
  <2> QED BY <2>1, <2>2
<1> QED BY <1>1

LEMMA ChecksAre ==
    /\ DoctorTool!CheckSettingsFile \subseteq Seq(Plain)
    /\ DoctorTool!CheckFlatpak \subseteq Seq(Plain)
    /\ DoctorTool!CheckNvidia \subseteq Seq(Plain)
    /\ DoctorTool!IfNvidia(DoctorTool!OkOrFail) \subseteq Seq(Plain)
    /\ DoctorTool!CheckWaylandEnv \subseteq Seq(Plain)
    /\ DoctorTool!Then(DoctorTool!OkOrWarn, DoctorTool!OkOrWarn)
         \subseteq Seq(Plain)
<1>1. DoctorTool!CheckSettingsFile \subseteq Seq(Plain)
  BY OutcomesAre, ThenIs DEF DoctorTool!CheckSettingsFile
<1>2. DoctorTool!CheckFlatpak \subseteq Seq(Plain)
  BY OutcomesAre, ThenIs DEF DoctorTool!CheckFlatpak
<1>3. DoctorTool!Then(DoctorTool!OkOrWarn, DoctorTool!OkOrWarn)
         \subseteq Seq(Plain)
  BY OutcomesAre, ThenIs
<1>4. DoctorTool!CheckNvidia \subseteq Seq(Plain)
  BY <1>3, OutcomesAre, ThenIs DEF DoctorTool!CheckNvidia, DoctorTool!IfNvidia
<1>5. DoctorTool!IfNvidia(DoctorTool!OkOrFail) \subseteq Seq(Plain)
  BY OutcomesAre DEF DoctorTool!IfNvidia
<1>6. DoctorTool!CheckWaylandEnv \subseteq Seq(Plain)
  <2>1. \A k \in 0 .. 3 : [i \in 1 .. k |-> "count"] \in Seq(Plain)
    BY DEF Plain
  <2>2. <<"ok">> \in Seq(Plain) /\ <<"warn", "hint">> \in Seq(Plain)
    BY OutcomesAre
  <2>3. \A s, t \in Seq(Plain) : s \o t \in Seq(Plain)
    OBVIOUS
  <2> QED BY <2>1, <2>2, <2>3 DEF DoctorTool!CheckWaylandEnv
<1> QED BY <1>1, <1>2, <1>3, <1>4, <1>5, <1>6

\* A report is 42 checks, the first one without a fix, the last one with one.
LEMMA ReportIs ==
    /\ Len(DoctorTool!Report) = 42
    /\ DoctorTool!Report[1] = DoctorTool!OkOrNoFix
    /\ DoctorTool!Report[42] = DoctorTool!OkOrFail
    /\ \A k \in 1 .. 42 : DoctorTool!Report[k] \subseteq Outcomes
<1> DEFINE C == SUBSET Outcomes
           A1 == [i \in 1 .. 10 |-> DoctorTool!OkOrNoFix]
           A2 == <<DoctorTool!OkOrNoFix, DoctorTool!OkOrNoFix, DoctorTool!OkOrFail,
                   DoctorTool!OkOrNoFix, DoctorTool!OkOrNoFix, DoctorTool!CheckSettingsFile>>
           A3 == [i \in 1 .. 10 |-> IF i \in {6, 7} THEN DoctorTool!OkOrBroken
                                ELSE DoctorTool!OkOrWarn]
           A4 == <<DoctorTool!CheckNvidia, DoctorTool!IfNvidia(DoctorTool!OkOrFail)>>
           A5 == <<DoctorTool!CheckWaylandEnv,
                   DoctorTool!Then(DoctorTool!OkOrWarn, DoctorTool!OkOrWarn),
                   DoctorTool!Then(DoctorTool!OkOrWarn, DoctorTool!OkOrWarn),
                   DoctorTool!OkOrWarn>>
           A6 == <<DoctorTool!OkOrWarn, DoctorTool!OkOrFail, DoctorTool!OkOrWarn>>
           A7 == <<DoctorTool!CheckFlatpak, DoctorTool!OkOrFail, DoctorTool!CheckGamemode,
                   DoctorTool!OkOrWarn, DoctorTool!OkOrFail, DoctorTool!OkOrFail,
                   DoctorTool!OkOrFail>>
<1>20. Seq(Plain) \subseteq Outcomes
  BY DEF Outcomes
<1>21. \A s \in SUBSET Seq(Plain) : s \in C
  BY <1>20
<1>1. Long(C, A1, 10) /\ A1[1] = DoctorTool!OkOrNoFix
  BY <1>21, OutcomesAre DEF Long
<1>2. Long(C, A2, 6)
  BY <1>21, OutcomesAre, ChecksAre DEF Long
<1>3. Long(C, A3, 10)
  BY <1>21, OutcomesAre DEF Long
<1>4. Long(C, A4, 2)
  BY <1>21, ChecksAre DEF Long
<1>5. Long(C, A5, 4)
  BY <1>21, OutcomesAre, ChecksAre DEF Long
<1>6. Long(C, A6, 3)
  BY <1>21, OutcomesAre DEF Long
<1>7. Long(C, A7, 7) /\ A7[7] = DoctorTool!OkOrFail
  BY <1>21, OutcomesAre, ChecksAre DEF Long
<1> DEFINE R2 == Cat(A1, A2)
           R3 == Cat(R2, A3)
           R4 == Cat(R3, A4)
           R5 == Cat(R4, A5)
           R6 == Cat(R5, A6)
<1>8. DoctorTool!Report = Cat(R6, A7)
  BY Zenon DEF DoctorTool!Report, Cat
<1> HIDE DEF A1, A2, A3, A4, A5, A6, A7, C
<1> USE DEF R2, R3, R4, R5, R6
<1>9. Long(C, R2, 10 + 6) /\ R2[1] = A1[1]
  BY <1>1, <1>2, LongCat, CatFirst
<1> HIDE DEF R2
<1>10. Long(C, R3, 16 + 10) /\ R3[1] = R2[1]
  BY <1>3, <1>9, LongCat, CatFirst, 10 + 6 = 16
<1> HIDE DEF R3
<1>11. Long(C, R4, 26 + 2) /\ R4[1] = R3[1]
  BY <1>4, <1>10, LongCat, CatFirst, 16 + 10 = 26
<1> HIDE DEF R4
<1>12. Long(C, R5, 28 + 4) /\ R5[1] = R4[1]
  BY <1>5, <1>11, LongCat, CatFirst, 26 + 2 = 28
<1> HIDE DEF R5
<1>13. Long(C, R6, 32 + 3) /\ R6[1] = R5[1]
  BY <1>6, <1>12, LongCat, CatFirst, 28 + 4 = 32
<1> HIDE DEF R6
<1>14. /\ Long(C, DoctorTool!Report, 35 + 7)
       /\ DoctorTool!Report[1] = R6[1] /\ DoctorTool!Report[35 + 7] = A7[7]
  BY <1>7, <1>8, <1>13, LongCat, CatFirst, CatLast, 32 + 3 = 35
<1>15. 35 + 7 = 42
  OBVIOUS
<1>16. \A k \in 1 .. 42 : DoctorTool!Report[k] \in C
  <2>1. \A s \in Seq(C) : \A k \in 1 .. Len(s) : s[k] \in C
    OBVIOUS
  <2>2. DoctorTool!Report \in Seq(C) /\ Len(DoctorTool!Report) = 42
    BY <1>14, <1>15 DEF Long
  <2> QED BY <2>1, <2>2
<1>17. DoctorTool!Report[1] = DoctorTool!OkOrNoFix
  BY <1>1, <1>9, <1>10, <1>11, <1>12, <1>13, <1>14
<1> QED BY <1>7, <1>14, <1>15, <1>16, <1>17 DEF C, Long

\* Only what is looked for depends on the card, and the card stays.
LEMMA ReportSame ==
    ASSUME nvidia' = nvidia
    PROVE  DoctorTool!Report' = DoctorTool!Report /\ Len(DoctorTool!Report)' = 42
<1>1. DoctorTool!Report' = DoctorTool!Report
  BY Zenon DEF DoctorTool!Report, DoctorTool!CheckNvidia, DoctorTool!IfNvidia
<1> QED BY <1>1, ReportIs

DoctorRanges ==
    /\ quiet \in BOOLEAN /\ nvidia \in BOOLEAN /\ running \in BOOLEAN
    /\ at \in 0 .. 42 /\ rest \in Seq(DoctorTool!Commands)
    /\ okCount \in 0 .. 1 /\ warn \in Nat /\ fail \in Nat /\ status \in 0 .. 2

\* The first variable that is set ends the script.
DoctorCounts == running => okCount = 0 /\ status = 0

\* With --quiet no check comes after the first.
DoctorQuiet ==
    running /\ quiet =>
        \/ at = 0 /\ rest = <<>>
        \/ at = 1 /\ rest \in {<<"ok">>, <<"fail", "nofix">>, <<"nofix">>}

\* The last check does not end with a test that may fail, --quiet apart.
DoctorLast ==
    running /\ at = 42 => rest \in {<<>>, <<"ok">>, <<"fail", "hint">>, <<"hint">>}

\* Only after a failure is a fix looked for that is not there, and only where
\* the check measures can it break.
DoctorRest ==
    running =>
        \/ rest \in Seq(Plain)
        \/ rest = <<"fail", "nofix">>
        \/ rest = <<"nofix">> /\ fail > 0
        \/ rest = <<"broken">> /\ <<"broken">> \in DoctorTool!Report[at]

DoctorInv ==
    /\ DoctorRanges /\ DoctorCounts /\ DoctorQuiet /\ DoctorLast /\ DoctorRest
    /\ StatusTells

LEMMA DoctorInit == DoctorTool!Init => DoctorInv
<1> SUFFICES ASSUME DoctorTool!Init PROVE DoctorInv
  OBVIOUS
<1>1. /\ quiet \in BOOLEAN /\ nvidia \in BOOLEAN /\ at = 0 /\ rest = <<>>
      /\ okCount = 0 /\ warn = 0 /\ fail = 0 /\ running = TRUE /\ status = 0
  BY Zenon DEF DoctorTool!Init
<1>2. DoctorRanges
  <2>1. at \in 0 .. 42 /\ okCount \in 0 .. 1 /\ warn \in Nat /\ fail \in Nat
        /\ status \in 0 .. 2 /\ rest \in Seq(DoctorTool!Commands)
    BY <1>1
  <2> QED BY <1>1, <2>1, Zenon DEF DoctorRanges
<1>3. DoctorCounts /\ DoctorQuiet /\ DoctorLast
  BY <1>1 DEF DoctorCounts, DoctorQuiet, DoctorLast
<1>4. StatusTells
  BY <1>1, Zenon DEF StatusTells, DoctorTool!StatusTells
<1>5. DoctorRest
  BY <1>1 DEF DoctorRest
<1> QED BY <1>2, <1>3, <1>4, <1>5 DEF DoctorInv

LEMMA CallStep == ASSUME DoctorInv, DoctorTool!Call PROVE DoctorInv'
<1>1. /\ running /\ rest = <<>> /\ at < 42 /\ at' = at + 1
      /\ rest' \in DoctorTool!Report[at + 1] /\ okCount' = 0
      /\ quiet' = quiet /\ nvidia' = nvidia /\ warn' = warn /\ fail' = fail
      /\ running' = running /\ status' = status
  BY ReportIs DEF DoctorTool!Call
<1>2. at \in 0 .. 41 /\ running' = TRUE
  BY <1>1 DEF DoctorInv, DoctorRanges
<1>3. rest' \in Outcomes /\ rest' \in Seq(DoctorTool!Commands)
  <2>1. at + 1 \in 1 .. 42
    BY <1>2
  <2>2. DoctorTool!Report[at + 1] \subseteq Outcomes
    BY <2>1, ReportIs
  <2>3. Outcomes \subseteq Seq(DoctorTool!Commands)
    <3>1. \A s \in Seq(Plain) : s \in Seq(DoctorTool!Commands)
      BY DEF Plain, DoctorTool!Commands
    <3>2. /\ <<"fail", "nofix">> \in Seq(DoctorTool!Commands)
          /\ <<"broken">> \in Seq(DoctorTool!Commands)
      BY DEF DoctorTool!Commands
    <3> QED BY <3>1, <3>2 DEF Outcomes
  <2> QED BY <1>1, <2>2, <2>3
<1>4. DoctorRanges'
  BY <1>1, <1>2, <1>3 DEF DoctorInv, DoctorRanges
<1>5. DoctorCounts'
  BY <1>1 DEF DoctorInv, DoctorCounts
<1>6. DoctorQuiet'
  <2>1. quiet => at = 0
    BY <1>1 DEF DoctorInv, DoctorQuiet
  <2>2. quiet => rest' \in DoctorTool!OkOrNoFix /\ at' = 1
    BY <1>1, <2>1, ReportIs
  <2> QED BY <1>1, <2>2 DEF DoctorQuiet, DoctorTool!OkOrNoFix
<1>7. DoctorLast'
  <2>1. at' = 42 => rest' \in DoctorTool!OkOrFail
    BY <1>1, ReportIs
  <2> QED BY <2>1 DEF DoctorLast, DoctorTool!OkOrFail
<1>8. StatusTells'
  BY <1>2 DEF StatusTells, DoctorTool!StatusTells
<1>9. DoctorRest'
  <2>1. DoctorTool!Report'[at'] = DoctorTool!Report[at + 1]
    BY <1>1, ReportSame
  <2>2. rest' \in Seq(Plain) \/ rest' = <<"fail", "nofix">> \/ rest' = <<"broken">>
    BY <1>3 DEF Outcomes
  <2> QED BY <1>1, <2>1, <2>2 DEF DoctorRest
<1> QED BY <1>4, <1>5, <1>6, <1>7, <1>8, <1>9 DEF DoctorInv

LEMMA RunStep == ASSUME DoctorInv, DoctorTool!Run PROVE DoctorInv'
<1> DEFINE c == Head(rest)
<1>1. /\ running /\ rest # <<>> /\ rest' = Tail(rest)
      /\ warn' = warn + (IF c = "warn" THEN 1 ELSE 0)
      /\ fail' = fail + (IF c = "fail" THEN 1 ELSE 0)
      /\ okCount' = okCount + (IF c = "count" THEN 1 ELSE 0)
      /\ quiet' = quiet /\ nvidia' = nvidia /\ at' = at
  BY DEF DoctorTool!Run
<1>2. running' = ~DoctorTool!Fails(c) /\ status' = (IF DoctorTool!Fails(c) THEN 1 ELSE 0)
  BY Zenon DEF DoctorTool!Run
<1>3. okCount = 0 /\ rest \in Seq(DoctorTool!Commands) /\ warn \in Nat /\ fail \in Nat
      /\ quiet \in BOOLEAN
  BY <1>1 DEF DoctorInv, DoctorRanges, DoctorCounts
<1>4. DoctorTool!Fails(c) <=>
        (c \in {"ok", "hint"} /\ quiet) \/ c \in {"nofix", "count", "broken"}
  BY <1>3 DEF DoctorTool!Fails
<1>5. running' \in BOOLEAN /\ (running' <=> ~DoctorTool!Fails(c))
  BY <1>2, Zenon
<1>6. DoctorRanges'
  <2>1. rest' \in Seq(DoctorTool!Commands)
    BY <1>1, <1>3
  <2>2. warn' \in Nat /\ fail' \in Nat /\ okCount' \in 0 .. 1
    BY <1>1, <1>3
  <2>3. status' \in 0 .. 2
    BY <1>2
  <2> QED BY <1>1, <1>5, <2>1, <2>2, <2>3, Zenon DEF DoctorInv, DoctorRanges
<1>7. DoctorCounts'
  <2>1. running' => c # "count" /\ status' = 0
    BY <1>2, <1>4, <1>5
  <2> QED BY <1>1, <1>3, <2>1 DEF DoctorCounts
<1>8. DoctorQuiet'
  <2> SUFFICES ASSUME running', quiet'
               PROVE  at' = 1 /\ rest' \in {<<"ok">>, <<"fail", "nofix">>, <<"nofix">>}
    BY DEF DoctorQuiet
  <2>1. c \notin {"ok", "nofix"}
    BY <1>1, <1>4, <1>5
  <2>2. at = 1 /\ rest \in {<<"ok">>, <<"fail", "nofix">>, <<"nofix">>}
    BY <1>1 DEF DoctorInv, DoctorQuiet
  <2>3. rest = <<"fail", "nofix">>
    BY <2>1, <2>2
  <2> QED BY <1>1, <2>2, <2>3
<1>9. DoctorLast'
  <2>1. ASSUME at = 42 PROVE rest \in {<<"ok">>, <<"fail", "hint">>, <<"hint">>}
    BY <1>1, <2>1 DEF DoctorInv, DoctorLast
  <2>2. \A s \in {<<"ok">>, <<"fail", "hint">>, <<"hint">>} :
            Tail(s) \in {<<>>, <<"hint">>}
    <3>1. Tail(<<"ok">>) = <<>> /\ Tail(<<"hint">>) = <<>>
      OBVIOUS
    <3>2. Tail(<<"fail", "hint">>) = <<"hint">>
      OBVIOUS
    <3> QED BY <3>1, <3>2
  <2> QED BY <1>1, <2>1, <2>2 DEF DoctorLast
<1>10. StatusTells'
  <2>1. DoctorTool!Complete' => at' = 42
    BY <1>1, ReportSame DEF DoctorTool!Complete
  <2> SUFFICES ASSUME ~running'
               PROVE  status' = 1 /\ ~DoctorTool!Complete' /\ DoctorTool!BrokenOff'
    BY DEF StatusTells, DoctorTool!StatusTells
  <2>2. DoctorTool!Fails(c) /\ status' = 1
    BY <1>2, <1>5
  <2>3. ASSUME at' = 42 PROVE FALSE
    <3>1. rest \in {<<"ok">>, <<"fail", "hint">>, <<"hint">>}
      BY <1>1, <2>3 DEF DoctorInv, DoctorLast
    <3>2. c \in {"ok", "fail", "hint"}
      BY <3>1
    <3>3. quiet
      BY <1>4, <2>2, <3>2
    <3>4. at \in {0, 1}
      BY <1>1, <3>3 DEF DoctorInv, DoctorQuiet
    <3> QED BY <1>1, <2>3, <3>4
  <2>4. DoctorTool!BrokenOff'
    <3>1. CASE c \in {"ok", "hint"} /\ quiet
      BY <1>1, <3>1, Zenon DEF DoctorTool!BrokenOff
    <3>2. CASE c = "count"
      <4>1. okCount' > 0
        BY <1>1, <1>3, <3>2
      <4> QED BY <4>1, Zenon DEF DoctorTool!BrokenOff
    <3>3. CASE c = "nofix"
      <4>1. fail > 0
        BY <1>1, <3>3 DEF DoctorInv, DoctorRest, Plain
      <4>2. fail' > 0
        BY <1>1, <1>3, <3>3, <4>1
      <4> QED BY <4>2, Zenon DEF DoctorTool!BrokenOff
    <3>4. CASE c = "broken"
      <4>1. <<"broken">> \in DoctorTool!Report[at]
        BY <1>1, <3>4 DEF DoctorInv, DoctorRest, Plain
      <4>2. DoctorTool!Report'[at'] = DoctorTool!Report[at]
        BY <1>1, ReportSame
      <4> QED BY <4>1, <4>2, Zenon DEF DoctorTool!BrokenOff
    <3> QED BY <1>4, <2>2, <3>1, <3>2, <3>3, <3>4
  <2> QED BY <2>1, <2>2, <2>3, <2>4
<1>11. DoctorRest'
  <2> SUFFICES ASSUME running'
               PROVE  \/ rest' \in Seq(Plain)
                      \/ rest' = <<"nofix">> /\ fail' > 0
    BY DEF DoctorRest
  <2>1. c \notin {"nofix", "broken"}
    BY <1>4, <1>5
  <2>2. rest \in Seq(Plain) \/ rest = <<"fail", "nofix">>
    BY <1>1, <2>1 DEF DoctorInv, DoctorRest
  <2>3. CASE rest \in Seq(Plain)
    BY <1>1, <2>3
  <2>4. CASE rest = <<"fail", "nofix">>
    <3>1. fail' > 0
      BY <1>1, <1>3, <2>4
    <3>2. rest' = <<"nofix">>
      BY <1>1, <2>4
    <3> QED BY <3>1, <3>2
  <2> QED BY <2>2, <2>3, <2>4
<1> QED BY <1>6, <1>7, <1>8, <1>9, <1>10, <1>11 DEF DoctorInv

LEMMA SummaryStep == ASSUME DoctorInv, DoctorTool!Summary PROVE DoctorInv'
<1>1. /\ rest = <<>> /\ at = 42 /\ running' = FALSE
      /\ status' = (IF fail > 0 THEN 2 ELSE IF warn > 0 THEN 1 ELSE 0)
      /\ quiet' = quiet /\ nvidia' = nvidia /\ at' = at /\ rest' = rest
      /\ okCount' = okCount /\ warn' = warn /\ fail' = fail
  BY ReportIs DEF DoctorTool!Summary
<1>2. DoctorRanges' /\ DoctorCounts' /\ DoctorQuiet' /\ DoctorLast'
  <2>1. status' \in 0 .. 2
    BY <1>1
  <2> QED BY <1>1, <2>1, Zenon DEF DoctorInv, DoctorRanges, DoctorCounts, DoctorQuiet, DoctorLast
<1>3. StatusTells'
  <2>1. DoctorTool!Complete'
    BY <1>1, ReportSame DEF DoctorTool!Complete
  <2>2. warn \in Nat /\ fail \in Nat
    BY DEF DoctorInv, DoctorRanges
  <2> QED BY <1>1, <2>1, <2>2 DEF StatusTells, DoctorTool!StatusTells
<1>4. DoctorRest'
  BY <1>1 DEF DoctorRest
<1> QED BY <1>2, <1>3, <1>4 DEF DoctorInv

LEMMA DoctorStep == DoctorInv /\ [DoctorTool!Next]_(DoctorTool!vars) => DoctorInv'
<1>1. ASSUME DoctorInv, UNCHANGED DoctorTool!vars PROVE DoctorInv'
  <2>1. /\ quiet' = quiet /\ nvidia' = nvidia /\ at' = at /\ rest' = rest
        /\ okCount' = okCount /\ warn' = warn /\ fail' = fail
        /\ running' = running /\ status' = status
    BY <1>1, Zenon DEF DoctorTool!vars
  <2>2. DoctorRanges' /\ DoctorCounts' /\ DoctorQuiet' /\ DoctorLast'
    BY <1>1, <2>1, Zenon
       DEF DoctorInv, DoctorRanges, DoctorCounts, DoctorQuiet, DoctorLast
  <2>3. DoctorTool!Complete' <=> DoctorTool!Complete
    BY <2>1, ReportIs, ReportSame DEF DoctorTool!Complete
  <2>5. DoctorTool!Report' = DoctorTool!Report
    BY <2>1, ReportSame
  <2>6. DoctorTool!BrokenOff' <=> DoctorTool!BrokenOff
    BY <2>1, <2>5, Zenon DEF DoctorTool!BrokenOff
  <2>4. StatusTells'
    BY <1>1, <2>1, <2>3, <2>6, Zenon DEF DoctorInv, StatusTells, DoctorTool!StatusTells
  <2>7. DoctorRest'
    BY <1>1, <2>1, <2>5, Zenon DEF DoctorInv, DoctorRest
  <2> QED BY <2>2, <2>4, <2>7 DEF DoctorInv
<1> QED BY <1>1, CallStep, RunStep, SummaryStep DEF DoctorTool!Next

\* DoctorInv holds in every state of a run of the script.
THEOREM DoctorInductive == DoctorTool!Spec => []DoctorInv
BY DoctorInit, DoctorStep, PTL DEF DoctorTool!Spec

\* Whatever the checks find and wherever set -e ends the script: status 0 is a
\* whole report in which all is well, 2 a whole report with a failure and the
\* only status of one, and 1 has no cause but warnings alone and the four ways
\* of being broken off.
THEOREM StatusIsTrue == DoctorTool!Spec => []StatusTells
BY DoctorInductive, PTL DEF DoctorInv

---------------------------------------------------------------------------
(* kernel/string.c.                                                        *)

StringTypes ==
    /\ fn \in Strings!Functions /\ phase \in {"loop", "pad", "done"}
    /\ first \in [0 .. Size -> 0 .. 255] /\ second \in [0 .. Size -> 0 .. 255]
    /\ first0 \in [0 .. Size -> 0 .. 255]
    /\ n \in 0 .. Size /\ n0 \in 0 .. Size
    /\ moved \in 0 .. Size + 1 /\ ret \in Int

Alike(k) == first[k] # 0 /\ first[k] = second[k]

\* strlen, strcmp and strncmp: the pointers have passed no zero, nor a byte in
\* which the strings differ, and so are still in the buffer.
Reads ==
    fn \in {"strlen", "strcmp", "strncmp"} =>
        /\ first = first0 /\ Strings!Terminated(first) /\ phase # "pad"
        /\ moved < Size
        /\ \A k \in 0 .. moved - 1 : first[k] # 0

Compares ==
    fn \in {"strcmp", "strncmp"} =>
        /\ Strings!Terminated(second)
        /\ \A k \in 0 .. moved - 1 : Alike(k)
        /\ fn = "strncmp" => n + moved = n0

\* What they return.
Returns ==
    phase = "done" =>
        /\ fn = "strlen" => first[moved] = 0 /\ ret = moved
        /\ fn = "strcmp" => ~Alike(moved) /\ ret = first[moved] - second[moved]
        /\ fn = "strncmp" =>
             \/ n = 0 /\ ret = 0
             \/ n > 0 /\ ~Alike(moved) /\ ret = first[moved] - second[moved]

\* Behind the pointers the buffer is as it was.
Untouched == \A k \in moved .. Size : first[k] = first0[k]

Strcpied ==
    fn = "strcpy" =>
        /\ Strings!Terminated(second) /\ Untouched /\ phase # "pad"
        /\ \A k \in 0 .. moved - 1 : first[k] = second[k]
        /\ IF phase = "loop"
           THEN moved < Size /\ \A k \in 0 .. moved - 1 : second[k] # 0
           ELSE /\ moved \in 1 .. Size /\ second[moved - 1] = 0
                /\ \A k \in 0 .. moved - 2 : second[k] # 0

\* strncpy has copied the string up to a zero before byte z, and padded; the
\* zero itself was not counted.
Padded(z) ==
    /\ z < moved /\ n + moved = n0 + 1
    /\ second[z] = 0 /\ \A k \in 0 .. z - 1 : second[k] # 0 /\ first[k] = second[k]
    /\ \A k \in z .. moved - 1 : first[k] = 0

Strncpied ==
    fn = "strncpy" =>
        /\ Strings!Terminated(second) /\ Untouched
        /\ phase = "done" => n = 0
        /\ \/ /\ n + moved = n0 /\ (phase # "loop" => n = 0)
              /\ \A k \in 0 .. moved - 1 : second[k] # 0 /\ first[k] = second[k]
           \/ phase # "loop" /\ \E z \in 0 .. n0 - 1 : Padded(z)

Filling(k) == IF fn = "memset" THEN MemsetInt % 256 ELSE second[k]

Filled ==
    fn \in {"memset", "memcpy"} =>
        /\ Untouched /\ n + moved = n0 /\ phase # "pad"
        /\ phase = "done" => n = 0
        /\ \A k \in 0 .. moved - 1 : first[k] = Filling(k)

StringInv ==
    StringTypes /\ Reads /\ Compares /\ Returns /\ Strcpied /\ Strncpied /\ Filled

LEMMA StringsInit == Strings!Init => StringInv
<1> SUFFICES ASSUME Strings!Init PROVE StringInv
  OBVIOUS
<1> USE Sizes DEF Strings!Init, Strings!Buffer, Strings!Cells
<1>1. StringTypes
  <2>1. first \in [0 .. Size -> Bytes] /\ second \in [0 .. Size -> Bytes]
    BY Zenon
  <2>2. first \in [0 .. Size -> 0 .. 255] /\ second \in [0 .. Size -> 0 .. 255]
    BY <2>1
  <2>3. n \in 0 .. Size /\ n0 = n /\ first0 = first /\ fn \in Strings!Functions
        /\ phase = "loop" /\ moved = 0 /\ ret = 0
    BY Zenon
  <2> QED BY <2>2, <2>3 DEF StringTypes
<1>2. Reads /\ Compares
  BY DEF Reads, Compares, Strings!Legal
<1>3. Returns /\ Strcpied /\ Strncpied /\ Filled
  BY DEF Returns, Strcpied, Strncpied, Filled, Untouched, Strings!Legal
<1> QED BY <1>1, <1>2, <1>3 DEF StringInv

\* A pointer into a string that has passed no zero, and is at none, may go on.
LEMMA GoesOn ==
    ASSUME NEW s, NEW m \in 0 .. Size - 1, Strings!Terminated(s),
           \A k \in 0 .. m - 1 : s[k] # 0, s[m] # 0
    PROVE  m + 1 < Size /\ \A k \in 0 .. (m + 1) - 1 : s[k] # 0
<1>1. PICK z \in 0 .. Size - 1 : s[z] = 0
  BY DEF Strings!Terminated
<1> QED BY <1>1, Sizes

LEMMA Difference ==
    ASSUME NEW f \in [0 .. Size -> 0 .. 255], NEW g \in [0 .. Size -> 0 .. 255],
           NEW k \in 0 .. Size
    PROVE  f[k] - g[k] \in Int
<1>1. f[k] \in 0 .. 255 /\ g[k] \in 0 .. 255
  OBVIOUS
<1>2. \A a, b \in 0 .. 255 : a - b \in Int
  OBVIOUS
<1> QED BY <1>1, <1>2, Zenon

LEMMA ReadersStep ==
    ASSUME StringInv, Strings!Strlen \/ Strings!Strcmp \/ Strings!Strncmp
    PROVE  StringInv'
<1> USE Sizes DEF StringInv
<1>1. /\ fn \in {"strlen", "strcmp", "strncmp"} /\ phase = "loop"
      /\ fn' = fn /\ first' = first /\ second' = second /\ first0' = first0 /\ n0' = n0
  BY Zenon DEF Strings!Strlen, Strings!Strcmp, Strings!Strncmp, Strings!Unread
<1>2. moved < Size /\ moved \in 0 .. Size - 1
  BY <1>1 DEF Reads, StringTypes
<1>3. \/ /\ moved' = moved + 1 /\ phase' = phase /\ ret' = ret
         /\ first[moved] # 0 /\ (fn # "strlen" => Alike(moved))
         /\ IF fn = "strncmp" THEN n # 0 /\ n' = n - 1 ELSE n' = n
      \/ /\ moved' = moved /\ phase' = "done" /\ n' = n
         /\ fn = "strlen" => first[moved] = 0 /\ ret' = moved
         /\ fn = "strcmp" => ~Alike(moved) /\ ret' = first[moved] - second[moved]
         /\ fn = "strncmp" =>
              \/ n = 0 /\ ret' = 0
              \/ n # 0 /\ ~Alike(moved) /\ ret' = first[moved] - second[moved]
  <2>1. CASE Strings!Strlen
    BY <2>1, Zenon DEF Strings!Strlen, Strings!Advance, Strings!Return, Alike
  <2>2. CASE Strings!Strcmp
    BY <2>2, Zenon DEF Strings!Strcmp, Strings!Advance, Strings!Return, Strings!Alike,
       Alike
  <2>3. CASE Strings!Strncmp
    <3>1. CASE n # 0 /\ Alike(moved)
      BY <2>3, <3>1, Zenon DEF Strings!Strncmp, Strings!Advance, Strings!Alike, Alike
    <3>2. CASE n = 0
      <4>1. moved' = moved /\ phase' = "done" /\ n' = n /\ ret' = 0
        BY <2>3, <3>2 DEF Strings!Strncmp, Strings!Return
      <4> QED BY <2>3, <3>2, <4>1, Zenon DEF Strings!Strncmp
    <3>3. CASE n # 0 /\ ~Alike(moved)
      <4>1. moved' = moved /\ phase' = "done" /\ n' = n
            /\ ret' = first[moved] - second[moved]
        BY <2>3, <3>3 DEF Strings!Strncmp, Strings!Return, Strings!Alike, Alike
      <4> QED BY <2>3, <3>3, <4>1, Zenon DEF Strings!Strncmp
    <3> QED BY <3>1, <3>2, <3>3
  <2> QED BY <2>1, <2>2, <2>3
<1>4. StringTypes'
  <2>1. first[moved] - second[moved] \in Int
    <3>1. /\ first \in [0 .. Size -> 0 .. 255] /\ second \in [0 .. Size -> 0 .. 255]
          /\ moved \in 0 .. Size
      BY <1>2 DEF StringTypes
    <3> QED BY <3>1, Difference
  <2>2. ret' \in Int
    BY <1>1, <1>2, <1>3, <2>1 DEF StringTypes
  <2>3. n' \in 0 .. Size
    BY <1>3 DEF StringTypes
  <2>4. moved' \in 0 .. Size + 1 /\ phase' \in {"loop", "pad", "done"}
    BY <1>2, <1>3 DEF StringTypes
  <2> QED BY <1>1, <2>2, <2>3, <2>4, Zenon DEF StringTypes
<1>5. Reads'
  <2>1. CASE moved' = moved
    BY <1>1, <1>2, <1>3, <2>1 DEF Reads, Strings!Terminated
  <2>2. CASE moved' = moved + 1 /\ first[moved] # 0
    <3>1. moved + 1 < Size /\ \A k \in 0 .. (moved + 1) - 1 : first[k] # 0
      BY <1>1, <1>2, <2>2, GoesOn DEF Reads
    <3> QED BY <1>1, <1>3, <2>2, <3>1 DEF Reads, Strings!Terminated
  <2> QED BY <1>3, <2>1, <2>2
<1>6. Compares'
  <2> SUFFICES ASSUME fn' \in {"strcmp", "strncmp"}
               PROVE  /\ Strings!Terminated(second)'
                      /\ \A k \in 0 .. moved' - 1 : Alike(k)'
                      /\ fn' = "strncmp" => n' + moved' = n0'
    BY DEF Compares
  <2>1. /\ Strings!Terminated(second)
        /\ \A k \in 0 .. moved - 1 : Alike(k)
        /\ fn = "strncmp" => n + moved = n0
    BY <1>1 DEF Compares
  <2>2. Strings!Terminated(second)'
    BY <1>1, <2>1 DEF Strings!Terminated
  <2>3. \A k : Alike(k)' = Alike(k)
    BY <1>1, Zenon DEF Alike
  <2>4. \A k \in 0 .. moved' - 1 : Alike(k)
    BY <1>1, <1>2, <1>3, <2>1
  <2>5. ASSUME fn' = "strncmp" PROVE n' + moved' = n0'
    <3>1. \/ moved' = moved + 1 /\ n' = n - 1
          \/ moved' = moved /\ n' = n
      BY <1>1, <1>3, <2>5, Zenon
    <3>2. n \in Int /\ moved \in Int /\ n + moved = n0 /\ n0' = n0
      BY <1>1, <2>1, <2>5 DEF StringTypes
    <3> QED BY <3>1, <3>2
  <2> QED BY <2>2, <2>3, <2>4, <2>5
<1>7. Returns'
  BY <1>1, <1>2, <1>3 DEF Returns, Alike, StringTypes
<1>8. Strcpied' /\ Strncpied' /\ Filled'
  BY <1>1 DEF Strcpied, Strncpied, Filled
<1> QED BY <1>4, <1>5, <1>6, <1>7, <1>8

\* A written byte: those before it stay, and it is the one that was meant.
LEMMA Writes ==
    ASSUME StringTypes, NEW byte \in 0 .. 255, Strings!Write(byte), moved <= Size
    PROVE  /\ moved' = moved + 1 /\ first' \in [0 .. Size -> 0 .. 255]
           /\ first'[moved] = byte
           /\ \A k \in 0 .. Size : k # moved => first'[k] = first[k]
BY Sizes DEF StringTypes, Strings!Write

LEMMA StrcpyStep == ASSUME StringInv, Strings!Strcpy PROVE StringInv'
<1> USE Sizes DEF StringInv
<1>1. /\ fn = "strcpy" /\ phase = "loop" /\ Strings!Write(second[moved])
      /\ phase' = (IF second[moved] = 0 THEN "done" ELSE phase)
      /\ fn' = fn /\ second' = second /\ first0' = first0 /\ n0' = n0 /\ n' = n
      /\ ret' = ret
  BY Zenon DEF Strings!Strcpy, Strings!Unread
<1>2. moved < Size /\ moved \in 0 .. Size - 1 /\ second[moved] \in 0 .. 255
  BY <1>1 DEF Strcpied, StringTypes
<1>3. /\ moved' = moved + 1 /\ first' \in [0 .. Size -> 0 .. 255]
      /\ first'[moved] = second[moved]
      /\ \A k \in 0 .. Size : k # moved => first'[k] = first[k]
  <2>1. StringTypes /\ moved <= Size
    BY <1>2
  <2> QED BY <1>1, <1>2, <2>1, Writes
<1>4. StringTypes'
  BY <1>1, <1>2, <1>3 DEF StringTypes
<1>5. Strcpied'
  <2>1. Strings!Terminated(second)' /\ phase' # "pad"
    BY <1>1 DEF Strcpied, Strings!Terminated
  <2>2. Untouched' /\ \A k \in 0 .. moved' - 1 : first'[k] = second'[k]
    BY <1>1, <1>2, <1>3 DEF Strcpied, Untouched
  <2>3. CASE second[moved] = 0
    BY <1>1, <1>2, <1>3, <2>1, <2>2, <2>3 DEF Strcpied
  <2>4. CASE second[moved] # 0
    <3>1. moved + 1 < Size /\ \A k \in 0 .. (moved + 1) - 1 : second[k] # 0
      BY <1>1, <1>2, <2>4, GoesOn DEF Strcpied
    <3> QED BY <1>1, <1>3, <2>1, <2>2, <2>4, <3>1 DEF Strcpied
  <2> QED BY <2>3, <2>4
<1>6. Reads' /\ Compares' /\ Returns' /\ Strncpied' /\ Filled'
  BY <1>1 DEF Reads, Compares, Returns, Strncpied, Filled
<1> QED BY <1>4, <1>5, <1>6

LEMMA FillStep == ASSUME StringInv, Strings!Memset \/ Strings!Memcpy PROVE StringInv'
<1> USE Sizes DEF StringInv
<1> DEFINE byte == Filling(moved)
<1>1. /\ fn \in {"memset", "memcpy"} /\ phase = "loop" /\ Strings!Fills(byte)
      /\ fn' = fn /\ second' = second /\ first0' = first0 /\ n0' = n0
      /\ ret' = ret
  BY Zenon DEF Strings!Memset, Strings!Memcpy, Strings!Fills, Strings!Unread, Filling
<1>2. CASE n = 0
  <2>1. phase' = "done" /\ first' = first /\ moved' = moved /\ n' = n
    BY <1>1, <1>2, Zenon DEF Strings!Fills
  <2>2. StringTypes'
    BY <1>1, <2>1 DEF StringTypes
  <2>3. Filled'
    <3>1. \A k \in 0 .. moved - 1 : Filling(k)' = Filling(k)
      BY <1>1, Zenon DEF Filling
    <3> QED BY <1>1, <1>2, <2>1, <3>1 DEF Filled, Untouched
  <2> QED BY <1>1, <2>2, <2>3 DEF Reads, Compares, Returns, Strcpied, Strncpied
<1>3. CASE n # 0
  <2>1. Strings!Write(byte) /\ n' = n - 1 /\ phase' = phase
    BY <1>1, <1>3, Zenon DEF Strings!Fills
  <2>2. moved < Size /\ moved \in 0 .. Size - 1
    BY <1>1, <1>3 DEF Filled, StringTypes
  <2>3. byte \in 0 .. 255
    <3>1. second[moved] \in 0 .. 255
      BY <2>2 DEF StringTypes
    <3>2. MemsetInt % 256 \in 0 .. 255
      BY Zenon
    <3> QED BY <3>1, <3>2, Zenon DEF Filling
  <2>4. /\ moved' = moved + 1 /\ first' \in [0 .. Size -> 0 .. 255]
        /\ first'[moved] = byte
        /\ \A k \in 0 .. Size : k # moved => first'[k] = first[k]
    <3> HIDE DEF byte
    <3>1. StringTypes /\ moved <= Size
      BY <2>2
    <3> QED BY <2>1, <2>3, <3>1, Writes
  <2>5. StringTypes'
    BY <1>1, <1>3, <2>1, <2>2, <2>4 DEF StringTypes
  <2>6. Filled'
    <3>1. \A k \in 0 .. moved : Filling(k)' = Filling(k)
      BY <1>1, Zenon DEF Filling
    <3>2. \A k \in 0 .. moved' - 1 : first'[k] = Filling(k)'
      BY <1>1, <2>2, <2>4, <3>1 DEF Filled
    <3>3. Untouched'
      BY <1>1, <2>2, <2>4 DEF Filled, Untouched
    <3> QED BY <1>1, <2>1, <2>2, <2>4, <3>2, <3>3 DEF Filled, StringTypes
  <2> QED BY <1>1, <2>5, <2>6 DEF Reads, Compares, Returns, Strcpied, Strncpied
<1> QED BY <1>2, <1>3

\* What strncpy's steps leave alone: all that is about another function.
LEMMA OnlyStrncpy ==
    ASSUME fn = "strncpy", fn' = fn, StringTypes', Strncpied' PROVE StringInv'
BY DEF StringInv, Reads, Compares, Returns, Strcpied, Filled

LEMMA CopyStep == ASSUME StringInv, Strings!StrncpyCopies PROVE StringInv'
<1> USE Sizes DEF StringInv
<1>1. /\ fn = "strncpy" /\ phase = "loop"
      /\ fn' = fn /\ second' = second /\ first0' = first0 /\ n0' = n0
      /\ ret' = ret
  BY Zenon DEF Strings!StrncpyCopies, Strings!Unread
<1>2. /\ n + moved = n0 /\ moved \in 0 .. Size
      /\ \A k \in 0 .. moved - 1 : second[k] # 0 /\ first[k] = second[k]
      /\ \A k \in moved .. Size : first[k] = first0[k]
  BY <1>1 DEF Strncpied, Untouched, StringTypes
<1>3. Strings!Terminated(second)'
  BY <1>1 DEF Strncpied, Strings!Terminated
<1>4. CASE n = 0
  <2>1. phase' = "pad" /\ first' = first /\ moved' = moved /\ n' = n
    BY <1>4, Zenon DEF Strings!StrncpyCopies
  <2>2. StringTypes'
    BY <1>1, <2>1 DEF StringTypes
  <2>3. Strncpied'
    BY <1>1, <1>2, <1>4, <1>3, <2>1 DEF Strncpied, Untouched
  <2> QED BY <1>1, <2>2, <2>3, OnlyStrncpy
<1>5. CASE n # 0
  <2>1. /\ Strings!Write(second[moved])
        /\ phase' = (IF second[moved] = 0 THEN "pad" ELSE phase)
        /\ n' = (IF second[moved] = 0 THEN n ELSE n - 1)
    BY <1>5, Zenon DEF Strings!StrncpyCopies
  <2>2. n \in 1 .. Size /\ moved \in 0 .. n0 - 1 /\ moved <= Size - 1
    BY <1>2, <1>5 DEF StringTypes
  <2>3. /\ moved' = moved + 1 /\ first' \in [0 .. Size -> 0 .. 255]
        /\ first'[moved] = second[moved]
        /\ \A k \in 0 .. Size : k # moved => first'[k] = first[k]
    <3>1. StringTypes /\ moved <= Size /\ second[moved] \in 0 .. 255
      BY <2>2 DEF StringTypes
    <3> QED BY <2>1, <3>1, Writes
  <2>4. phase' \in {"loop", "pad"} /\ n' \in 0 .. Size
    BY <1>1, <2>1, <2>2
  <2>5. StringTypes'
    BY <1>1, <2>2, <2>3, <2>4 DEF StringTypes
  <2>6. Untouched'
    BY <1>1, <1>2, <2>2, <2>3 DEF Untouched
  <2>7. \A k \in 0 .. moved - 1 : second'[k] # 0 /\ first'[k] = second'[k]
    BY <1>1, <1>2, <2>2, <2>3
  <2>8. CASE second[moved] = 0
    <3>1. phase' = "pad" /\ n' = n
      BY <2>1, <2>8
    <3>2. PICK z \in 0 .. n0 - 1 : z = moved
      BY <2>2
    <3>3. Padded(z)'
      <4>1. z < moved' /\ n' + moved' = n0' + 1
        BY <1>1, <1>2, <2>2, <2>3, <3>1, <3>2
      <4>2. \A k \in z .. moved' - 1 : first'[k] = 0
        BY <2>2, <2>3, <2>8, <3>2
      <4> QED BY <1>1, <2>7, <2>8, <3>2, <4>1, <4>2 DEF Padded
    <3>4. \E y \in 0 .. n0' - 1 : Padded(y)'
      BY <1>1, <3>2, <3>3
    <3> QED BY <1>1, <1>3, <2>5, <2>6, <3>1, <3>4, OnlyStrncpy DEF Strncpied
  <2>9. CASE second[moved] # 0
    <3>1. phase' = "loop" /\ n' = n - 1
      BY <1>1, <2>1, <2>9
    <3>2. n' + moved' = n0'
      BY <1>1, <1>2, <2>2, <2>3, <3>1
    <3>3. \A k \in 0 .. moved' - 1 : second'[k] # 0 /\ first'[k] = second'[k]
      BY <1>1, <2>2, <2>3, <2>7, <2>9
    <3> QED BY <1>1, <1>3, <2>5, <2>6, <3>1, <3>2, <3>3, OnlyStrncpy DEF Strncpied
  <2> QED BY <2>8, <2>9
<1> QED BY <1>4, <1>5

LEMMA PadStep == ASSUME StringInv, Strings!StrncpyPads PROVE StringInv'
<1> USE Sizes DEF StringInv
<1>1. /\ fn = "strncpy" /\ phase = "pad" /\ Strings!Fills(0)
      /\ fn' = fn /\ second' = second /\ first0' = first0 /\ n0' = n0
      /\ ret' = ret
  BY Zenon DEF Strings!StrncpyPads, Strings!Fills, Strings!Unread
<1>2. Strings!Terminated(second)'
  BY <1>1 DEF Strncpied, Strings!Terminated
<1>3. CASE n = 0
  <2>1. phase' = "done" /\ first' = first /\ moved' = moved /\ n' = n
    BY <1>1, <1>3, Zenon DEF Strings!Fills
  <2>2. StringTypes'
    BY <1>1, <2>1 DEF StringTypes
  <2>3. \A z : Padded(z)' = Padded(z)
    BY <1>1, <2>1, Zenon DEF Padded
  <2>4. Untouched' = Untouched
    BY <1>1, <2>1, Zenon DEF Untouched
  <2>5. Strncpied'
    BY <1>1, <1>3, <1>2, <2>1, <2>3, <2>4 DEF Strncpied
  <2> QED BY <1>1, <2>2, <2>5, OnlyStrncpy
<1>4. CASE n # 0
  <2>1. Strings!Write(0) /\ n' = n - 1 /\ phase' = phase
    BY <1>1, <1>4, Zenon DEF Strings!Fills
  <2>2. PICK z \in 0 .. n0 - 1 : Padded(z)
    BY <1>1, <1>4 DEF Strncpied
  <2>3. n \in 1 .. Size /\ moved \in 0 .. Size /\ moved <= n0 /\ n + moved = n0 + 1
    BY <1>4, <2>2 DEF StringTypes, Padded
  <2>4. /\ moved' = moved + 1 /\ first' \in [0 .. Size -> 0 .. 255]
        /\ first'[moved] = 0
        /\ \A k \in 0 .. Size : k # moved => first'[k] = first[k]
    <3>1. StringTypes /\ moved <= Size /\ 0 \in 0 .. 255
      BY <2>3
    <3> QED BY <2>1, <3>1, Writes
  <2>5. StringTypes'
    BY <1>1, <2>1, <2>3, <2>4 DEF StringTypes
  <2>6. Untouched'
    <3>1. Untouched
      BY <1>1 DEF Strncpied
    <3> QED BY <1>1, <2>3, <2>4, <3>1 DEF Untouched
  <2>7. Padded(z)'
    <3>1. z < moved' /\ n' + moved' = n0' + 1
      BY <1>1, <2>1, <2>2, <2>3, <2>4 DEF Padded
    <3>2. second'[z] = 0 /\ \A k \in 0 .. z - 1 : second'[k] # 0
      BY <1>1, <2>2 DEF Padded
    <3>3. \A k \in 0 .. z - 1 : first'[k] = second'[k]
      BY <1>1, <2>2, <2>3, <2>4 DEF Padded
    <3>4. \A k \in z .. moved' - 1 : first'[k] = 0
      BY <2>2, <2>3, <2>4 DEF Padded
    <3> QED BY <3>1, <3>2, <3>3, <3>4 DEF Padded
  <2>8. \E y \in 0 .. n0' - 1 : Padded(y)'
    BY <1>1, <2>2, <2>7
  <2> QED BY <1>1, <1>2, <2>1, <2>5, <2>6, <2>8, OnlyStrncpy DEF Strncpied
<1> QED BY <1>3, <1>4

LEMMA StringsStep == StringInv /\ [Strings!Next]_(Strings!vars) => StringInv'
<1>1. ASSUME StringInv, UNCHANGED Strings!vars PROVE StringInv'
  <2>1. /\ fn' = fn /\ first' = first /\ second' = second /\ first0' = first0
        /\ n' = n /\ n0' = n0 /\ moved' = moved /\ phase' = phase /\ ret' = ret
    BY <1>1, Zenon DEF Strings!vars
  <2>2. StringTypes' = StringTypes /\ (\A k : Filling(k)' = Filling(k))
    BY <2>1, Zenon DEF StringTypes, Filling
  <2>3. Untouched' = Untouched /\ (\A k : Alike(k)' = Alike(k) /\ Padded(k)' = Padded(k))
    BY <2>1, Zenon DEF Untouched, Alike, Padded
  <2>4. Reads' = Reads
    BY <2>1, Zenon DEF Reads, Strings!Terminated
  <2>5. (Compares <=> Compares') /\ (Returns <=> Returns')
    BY <2>1, <2>3, Zenon DEF Compares, Returns, Alike, Strings!Terminated
  <2>6. (Strcpied <=> Strcpied') /\ (Strncpied <=> Strncpied') /\ (Filled <=> Filled')
    BY <2>1, <2>2, <2>3, Zenon DEF Strcpied, Strncpied, Filled, Padded, Untouched,
       Filling, Strings!Terminated
  <2> QED BY <1>1, <2>2, <2>4, <2>5, <2>6, Zenon DEF StringInv
<1> QED BY <1>1, ReadersStep, StrcpyStep, CopyStep, PadStep, FillStep DEF Strings!Next

\* StringInv holds in every state of a call.
THEOREM StringsInductive == Strings!Spec => []StringInv
BY StringsInit, StringsStep, PTL DEF Strings!Spec

LEMMA LengthRight ==
    ASSUME StringInv, phase = "done", fn = "strlen" PROVE ret = Strings!Length(first)
<1>1. moved \in 0 .. Size /\ first[moved] = 0 /\ ret = moved
      /\ \A k \in 0 .. moved - 1 : first[k] # 0
  BY Sizes DEF StringInv, StringTypes, Reads, Returns
<1> QED BY <1>1, LengthIs

\* The last byte that may be compared.
LastCompared ==
    IF fn = "strncmp"
    THEN Strings!Min({Strings!Length(first), Strings!Length(second), n0 - 1})
    ELSE Strings!Min({Strings!Length(first), Strings!Length(second)})

LEMMA LastIs ==
    ASSUME StringInv, fn \in {"strcmp", "strncmp"}
    PROVE  /\ LastCompared \in Int
           /\ LastCompared <= Strings!Length(first)
           /\ LastCompared <= Strings!Length(second)
           /\ fn = "strncmp" => LastCompared <= n0 - 1
           /\ \/ LastCompared = Strings!Length(first)
              \/ LastCompared = Strings!Length(second)
              \/ fn = "strncmp" /\ LastCompared = n0 - 1
<1>1. Strings!Terminated(first) /\ Strings!Terminated(second) /\ n0 - 1 \in Int
  BY DEF StringInv, StringTypes, Reads, Compares
<1>2. Strings!Length(first) \in Int /\ Strings!Length(second) \in Int
  BY <1>1, FirstZero
<1>3. CASE fn = "strncmp"
  BY <1>1, <1>2, <1>3, MinTriple DEF LastCompared
<1>4. CASE fn = "strcmp"
  BY <1>2, <1>4, MinPair DEF LastCompared
<1> QED BY <1>3, <1>4

LEMMA OrderRight ==
    ASSUME StringInv, phase = "done", fn \in {"strcmp", "strncmp"}
    PROVE  Strings!Sign(ret) = Strings!Order
<1>1. /\ \A k \in 0 .. moved - 1 : Alike(k)
      /\ moved \in 0 .. Size - 1 /\ n \in Nat /\ n0 \in Nat
      /\ first[moved] \in 0 .. 255 /\ second[moved] \in 0 .. 255
      /\ fn = "strncmp" => n + moved = n0
  BY Sizes DEF StringInv, StringTypes, Reads, Compares
<1>2. /\ Strings!Terminated(first) /\ Strings!Terminated(second)
  BY DEF StringInv, Reads, Compares
<1>3. moved <= Strings!Length(first) /\ moved <= Strings!Length(second)
  <2>1. /\ Strings!Length(first) \in 0 .. Size - 1 /\ first[Strings!Length(first)] = 0
        /\ Strings!Length(second) \in 0 .. Size - 1 /\ second[Strings!Length(second)] = 0
    BY <1>2, FirstZero
  <2>2. \A k \in 0 .. moved - 1 : first[k] # 0 /\ second[k] # 0
    BY <1>1 DEF Alike
  <2> QED BY <1>1, <2>1, <2>2
<1> DEFINE Differ == {k \in 0 .. LastCompared : first[k] # second[k]}
<1>4. Strings!Order = (IF Differ = {} THEN 0
                       ELSE IF first[Strings!Min(Differ)] < second[Strings!Min(Differ)]
                            THEN -1 ELSE 1)
  BY Zenon DEF Strings!Order, Strings!Compared, LastCompared
<1>5. LastCompared \in Int
  BY LastIs
<1>6. CASE fn = "strncmp" /\ n = 0 /\ ret = 0
  <2>1. LastCompared <= moved - 1
    BY <1>1, <1>5, <1>6, LastIs
  <2>2. Differ = {}
    BY <1>1, <1>5, <2>1 DEF Alike
  <2>3. Strings!Order = 0
    BY <1>4, <2>2, Zenon
  <2> QED BY <1>6, <2>3 DEF Strings!Sign
<1>7. CASE (fn = "strncmp" => n > 0) /\ ~Alike(moved) /\ ret = first[moved] - second[moved]
  <2>1. CASE first[moved] = second[moved]
    <3>1. first[moved] = 0 /\ second[moved] = 0
      BY <1>7, <2>1 DEF Alike
    <3>2. Strings!Length(first) <= moved
      <4>1. \A k \in 0 .. Size : first[k] = 0 => Strings!Length(first) <= k
        BY <1>2, FirstZero
      <4>2. moved \in 0 .. Size
        BY <1>1, Sizes
      <4> QED BY <3>1, <4>1, <4>2
    <3>3. LastCompared <= moved
      <4>1. Strings!Length(first) \in Int
        BY <1>2, FirstZero
      <4> QED BY <1>1, <1>5, <3>2, <4>1, LastIs
    <3>4. Differ = {}
      BY <1>1, <1>5, <2>1, <3>3 DEF Alike
    <3>5. Strings!Order = 0
      BY <1>4, <3>4, Zenon
    <3>6. ret = 0
      BY <1>1, <1>7, <2>1
    <3> QED BY <3>5, <3>6 DEF Strings!Sign
  <2>2. CASE first[moved] # second[moved]
    <3>1. moved <= LastCompared
      <4>1. Strings!Length(first) \in Int /\ Strings!Length(second) \in Int
        BY <1>2, FirstZero
      <4> QED BY <1>1, <1>3, <1>5, <1>7, <4>1, LastIs
    <3>2. moved \in Differ /\ Differ \in SUBSET Int
      BY <1>1, <1>5, <2>2, <3>1
    <3>3. \A k \in Differ : moved <= k
      BY <1>1, <1>5 DEF Alike
    <3>4. Strings!Min(Differ) = moved
      <4> HIDE DEF Differ
      <4> QED BY <3>2, <3>3, MinIs
    <3>5. Strings!Order = (IF first[moved] < second[moved] THEN -1 ELSE 1)
      <4> HIDE DEF Differ
      <4> QED BY <1>4, <3>2, <3>4
    <3>6. \A a, b \in 0 .. 255 : a # b =>
             Strings!Sign(a - b) = (IF a < b THEN -1 ELSE 1)
      BY DEF Strings!Sign
    <3> QED BY <1>1, <1>7, <2>2, <3>5, <3>6
  <2> QED BY <2>1, <2>2
<1>8. \/ fn = "strncmp" /\ n = 0 /\ ret = 0
      \/ (fn = "strncmp" => n > 0) /\ ~Alike(moved) /\ ret = first[moved] - second[moved]
  BY DEF StringInv, Returns
<1> QED BY <1>6, <1>7, <1>8

\* Every byte of the caller's buffer, and the byte behind it.
BytesRight ==
    /\ phase = "done" => \A k \in 0 .. Size - 1 :
           first[k] = Strings!Byte(k) \/ (fn = "strncpy" /\ k = n0 /\ first[k] = 0)
    /\ first[Size] = first0[Size]
         \/ (fn = "strncpy" /\ n0 = Size /\ first[Size] = 0)

LEMMA ReadersBytes ==
    ASSUME StringInv, fn \in {"strlen", "strcmp", "strncmp"} PROVE BytesRight
<1>1. first = first0
  BY DEF StringInv, Reads
<1>2. \A k : Strings!Byte(k) = first0[k]
  BY DEF Strings!Byte
<1> QED BY <1>1, <1>2 DEF BytesRight

LEMMA StrcpyBytes == ASSUME StringInv, fn = "strcpy" PROVE BytesRight
<1> USE Sizes
<1>1. /\ moved \in 0 .. Size
      /\ \A k \in moved .. Size : first[k] = first0[k]
      /\ \A k \in 0 .. moved - 1 : first[k] = second[k]
  BY DEF StringInv, StringTypes, Strcpied, Untouched
<1>2. ASSUME phase = "done" PROVE \A k \in 0 .. Size - 1 : first[k] = Strings!Byte(k)
  <2>1. moved \in 1 .. Size /\ second[moved - 1] = 0
        /\ \A k \in 0 .. moved - 2 : second[k] # 0
    BY <1>2 DEF StringInv, Strcpied
  <2>2. moved - 1 \in 0 .. Size /\ \A k \in 0 .. (moved - 1) - 1 : second[k] # 0
    BY <2>1
  <2>3. Strings!Length(second) = moved - 1
    BY <2>1, <2>2, LengthIs
  <2> QED BY <1>1, <2>1, <2>3 DEF Strings!Byte
<1> QED BY <1>1, <1>2 DEF BytesRight

LEMMA FillBytes == ASSUME StringInv, fn \in {"memset", "memcpy"} PROVE BytesRight
<1> USE Sizes
<1>1. /\ moved \in 0 .. Size /\ n + moved = n0 /\ n \in Nat /\ n0 \in 0 .. Size
      /\ \A k \in moved .. Size : first[k] = first0[k]
      /\ \A k \in 0 .. moved - 1 : first[k] = Filling(k)
  BY DEF StringInv, StringTypes, Filled, Untouched
<1>2. ASSUME phase = "done" PROVE \A k \in 0 .. Size - 1 : first[k] = Strings!Byte(k)
  <2>1. moved = n0
    BY <1>1, <1>2 DEF StringInv, Filled
  <2> QED BY <1>1, <2>1 DEF Strings!Byte, Filling
<1> QED BY <1>1, <1>2 DEF BytesRight

LEMMA StrncpyBytes == ASSUME StringInv, fn = "strncpy" PROVE BytesRight
<1> USE Sizes
<1>1. /\ n \in Nat /\ n0 \in 0 .. Size /\ moved \in 0 .. Size + 1
      /\ \A k \in moved .. Size : first[k] = first0[k]
      /\ phase = "done" => n = 0
  BY DEF StringInv, StringTypes, Strncpied, Untouched
<1>2. CASE /\ n + moved = n0
           /\ \A k \in 0 .. moved - 1 : second[k] # 0 /\ first[k] = second[k]
  <2>1. first[Size] = first0[Size]
    BY <1>1, <1>2
  <2>2. ASSUME phase = "done" PROVE \A k \in 0 .. Size - 1 : first[k] = Strings!Byte(k)
    <3>1. moved = n0
      BY <1>1, <1>2, <2>2
    <3>2. /\ Strings!Length(second) \in 0 .. Size - 1
          /\ second[Strings!Length(second)] = 0
      BY FirstZero DEF StringInv, Strncpied
    <3>3. n0 <= Strings!Length(second)
      BY <1>1, <1>2, <3>1, <3>2
    <3> QED BY <1>1, <1>2, <3>1, <3>2, <3>3 DEF Strings!Byte
  <2> QED BY <2>1, <2>2 DEF BytesRight
<1>3. ASSUME NEW z \in 0 .. n0 - 1, Padded(z) PROVE BytesRight
  <2>1. /\ n + moved = n0 + 1 /\ z \in 0 .. Size
        /\ second[z] = 0 /\ \A k \in 0 .. z - 1 : second[k] # 0 /\ first[k] = second[k]
        /\ \A k \in z .. moved - 1 : first[k] = 0
    BY <1>1, <1>3 DEF Padded
  <2>2. Strings!Length(second) = z
    BY <2>1, LengthIs
  <2>3. first[Size] = first0[Size] \/ (n0 = Size /\ first[Size] = 0)
    BY <1>1, <1>3, <2>1
  <2>4. ASSUME phase = "done"
        PROVE  \A k \in 0 .. Size - 1 :
                   first[k] = Strings!Byte(k) \/ (k = n0 /\ first[k] = 0)
    <3>1. moved = n0 + 1
      BY <1>1, <2>1, <2>4
    <3> QED BY <1>1, <1>3, <2>1, <2>2, <3>1 DEF Strings!Byte
  <2> QED BY <2>3, <2>4 DEF BytesRight
<1> QED BY <1>2, <1>3 DEF StringInv, Strncpied

LEMMA StringsKeep == StringInv => RightResult
<1>1. StringInv => BytesRight
  <2>1. StringInv => fn \in Strings!Functions
    BY DEF StringInv, StringTypes
  <2> QED BY <2>1, ReadersBytes, StrcpyBytes, FillBytes, StrncpyBytes DEF Strings!Functions
<1> QED BY <1>1, LengthRight, OrderRight DEF BytesRight, RightResult, Strings!RightResult

\* Lengths, orders and every byte of the caller's buffer are right, for buffers
\* of any size: no function but strncpy touches the byte behind it.
THEOREM StringsRight == Strings!Spec => []RightResult
BY StringsKeep, StringsInductive, PTL

\* The caller's other buffer stays, and what is returned is an index or the
\* difference of two bytes.
Passed ==
    /\ second \in Strings!Buffer /\ first0 \in Strings!Buffer
    /\ phase # "done" \/ fn \notin {"strlen", "strcmp", "strncmp"} => ret = 0

LEMMA PassedInit == Strings!Init => Passed
BY Zenon DEF Strings!Init, Passed

LEMMA PassedStep == Passed /\ [Strings!Next]_(Strings!vars) => Passed'
<1> SUFFICES ASSUME Passed, [Strings!Next]_(Strings!vars) PROVE Passed'
  OBVIOUS
<1>1. second' = second /\ first0' = first0 /\ fn' = fn
  BY Zenon DEF Strings!Next, Strings!vars, Strings!Strlen, Strings!Strcmp, Strings!Strncmp,
     Strings!Strcpy, Strings!StrncpyCopies, Strings!StrncpyPads, Strings!Memset,
     Strings!Memcpy, Strings!Fills, Strings!Unread
<1>2. \/ fn \in {"strlen", "strcmp", "strncmp"} /\ phase' = "done"
      \/ ret' = ret /\ phase' = phase
      \/ ret' = ret /\ fn \in {"strcpy", "strncpy", "memset", "memcpy"}
  BY Zenon DEF Strings!Next, Strings!vars, Strings!Strlen, Strings!Strcmp, Strings!Strncmp,
     Strings!Strcpy, Strings!StrncpyCopies, Strings!StrncpyPads, Strings!Memset,
     Strings!Memcpy, Strings!Fills, Strings!Advance, Strings!Return
<1> QED BY <1>1, <1>2 DEF Passed

LEMMA StringsTypes == StringInv /\ Passed => Strings!StringTypeOK
<1> SUFFICES ASSUME StringInv, Passed PROVE Strings!StringTypeOK
  OBVIOUS
<1> USE Sizes
<1>1. /\ fn \in Strings!Functions /\ phase \in {"loop", "pad", "done"}
      /\ first \in [0 .. Size -> 0 .. 255] /\ second \in [0 .. Size -> 0 .. 255]
      /\ n \in 0 .. Size /\ n0 \in 0 .. Size /\ moved \in 0 .. Size + 1
  BY DEF StringInv, StringTypes
<1>2. ret \in -255 .. 255 \/ ret \in 0 .. Size
  <2>1. CASE ret = 0
    BY <2>1
  <2>2. CASE fn = "strlen" /\ phase = "done"
    BY <2>2 DEF StringInv, Reads, Returns, StringTypes
  <2>3. CASE fn \in {"strcmp", "strncmp"} /\ phase = "done" /\ ret # 0
    <3>1. moved \in 0 .. Size /\ ret = first[moved] - second[moved]
      BY <1>1, <2>3 DEF StringInv, Reads, Returns
    <3>2. first[moved] \in 0 .. 255 /\ second[moved] \in 0 .. 255
      BY <1>1, <3>1
    <3>3. \A a, b \in 0 .. 255 : a - b \in -255 .. 255
      OBVIOUS
    <3>4. first[moved] - second[moved] \in -255 .. 255
      BY <3>2, <3>3, Zenon
    <3> QED BY <3>1, <3>4, Zenon
  <2> QED BY <2>1, <2>2, <2>3 DEF Passed
<1>3. moved \in Strings!Cells \cup {Size + 1}
  BY <1>1 DEF Strings!Cells
<1>4. second \in Strings!Buffer /\ first0 \in Strings!Buffer
  BY DEF Passed
<1> QED BY <1>1, <1>2, <1>3, <1>4, Zenon DEF Strings!StringTypeOK, Strings!Cells

LEMMA DoctorTypes == DoctorInv => DoctorTool!DoctorTypeOK
BY ReportIs DEF DoctorInv, DoctorRanges, DoctorTool!DoctorTypeOK

---------------------------------------------------------------------------
(* As MCPrograms runs them: in a behaviour one runs, and the others wait.   *)

LEMMA EachStep ==
    [ProgramsNext]_programsVars =>
        /\ [UpdateNext]_updateVars
        /\ [DoctorTool!Next]_(DoctorTool!vars)
        /\ [Pictures!Next]_(Pictures!vars)
        /\ [Checker!Next]_(Checker!vars)
        /\ [Strings!Next]_(Strings!vars)
BY Zenon DEF ProgramsNext, programsVars, doctorVars, pictureVars, checkerVars, stringsVars,
   DoctorTool!vars, Pictures!vars, Checker!vars, Strings!vars

\* A buffer of zeros is one a caller may pass to strlen.
LEMMA NoCallIsACall == NoCall => Strings!Init
<1> SUFFICES ASSUME NoCall PROVE Strings!Init
  OBVIOUS
<1>1. first = [k \in Strings!Cells |-> 0] /\ second = first
  BY DEF NoCall, Strings!Cells
<1>2. first \in Strings!Buffer
  BY <1>1, Sizes, Zenon DEF Strings!Buffer
<1>3. Strings!Terminated(first)
  <2>1. 0 \in 0 .. Size - 1 /\ 0 \in 0 .. Size
    BY Sizes
  <2>2. first[0] = 0
    BY <1>1, <2>1 DEF Strings!Cells
  <2> QED BY <2>1, <2>2 DEF Strings!Terminated
<1>4. 0 \in 0 .. Size
  BY Sizes
<1> QED BY <1>1, <1>2, <1>3, <1>4, Zenon
        DEF NoCall, Strings!Init, Strings!Functions, Strings!Legal, Strings!Unused

\* The pages with threads run, or have not been made.
Threads == IF Runs("threads") THEN BackgroundInv /\ Listed ELSE NoPage

LEMMA ThreadsInit == ProgramsInit => Threads
BY BackgroundInit, NoneListed, Zenon DEF ProgramsInit, Threads, Init

LEMMA ThreadsStep == Threads /\ [ProgramsNext]_programsVars => Threads'
<1> SUFFICES ASSUME Threads, [ProgramsNext]_programsVars PROVE Threads'
  OBVIOUS
<1>1. runs' = runs /\ (Runs("threads")' <=> Runs("threads"))
  BY Zenon DEF ProgramsNext, programsVars, Runs
<1>2. CASE Runs("threads")
  <2>1. [Next]_vars
    BY <1>2, Zenon DEF ProgramsNext, programsVars
  <2> QED BY <1>1, <1>2, <2>1, BackgroundNext, ListedNext, Zenon DEF Threads
<1>3. CASE ~Runs("threads")
  <2>1. UNCHANGED vars
    BY <1>3, Zenon DEF ProgramsNext, programsVars
  <2>2. NoPage'
    BY <1>3, <2>1, Zenon DEF Threads, NoPage, vars, scanVars, connVars
  <2> QED BY <1>1, <1>3, <2>2, Zenon DEF Threads
<1> QED BY <1>2, <1>3

LEMMA NoPageIsRight ==
    NoPage => /\ BackgroundTypeOK /\ RowsRight /\ FreshRows
              /\ LabelTellsRows /\ StatusTellsConnection
<1> SUFFICES ASSUME NoPage
             PROVE  /\ BackgroundTypeOK /\ RowsRight /\ FreshRows
                    /\ LabelTellsRows /\ StatusTellsConnection
  OBVIOUS
<1>1. /\ program = "wizard" /\ queue = <<>> /\ source = <<>> /\ rows = <<>>
      /\ label = "none" /\ selected = Nothing /\ air = <<>> /\ since = {<<>>}
      /\ connect = [enabled |-> TRUE, told |-> ""] /\ install.enabled = TRUE
      /\ \A i \in Scans : scan[i].lines = <<>>
  BY DEF NoPage
<1>2. RowsRight
  BY <1>1, NoneListed, ListedRight
<1>3. <<>> \in Airs
  BY ToolsAssumption
<1>4. BackgroundTypeOK
  <2>1. DOMAIN queue = {}
    <3>1. queue = <<>>
      BY <1>1
    <3> QED BY <3>1
  <2>2. connect.enabled = TRUE
    BY <1>1
  <2>3. \A i \in Scans : scan[i].lines \in Airs \cup {<<>>}
    BY <1>1, Zenon
  <2>4. since \subseteq Airs /\ air \in since
    BY <1>1, <1>3, Zenon
  <2>5. connect.enabled \in BOOLEAN /\ install.enabled \in BOOLEAN
    BY <1>1, <2>2, Zenon
  <2> QED BY <1>1, <2>1, <2>3, <2>4, <2>5, Zenon DEF BackgroundTypeOK
<1>5. FreshRows /\ LabelTellsRows /\ StatusTellsConnection
  BY <1>1 DEF FreshRows, LabelTellsRows, StatusTellsConnection
<1> QED BY <1>2, <1>4, <1>5

LEMMA ThreadsKeep ==
    Threads => /\ BackgroundTypeOK /\ RowsRight /\ FreshRows
               /\ LabelTellsRows /\ StatusTellsConnection
BY BackgroundKeeps, ListedRight, NoPageIsRight, Zenon DEF Threads

\* Every invariant of the composition that is model-checked, and the silence
\* between notifications, hold in it for any constants.
THEOREM ToolsInPrograms ==
    ProgramsSpec =>
        /\ []/\ ToolsTypeOK /\ BackgroundTypeOK
             /\ RowsRight /\ FreshRows /\ LabelTellsRows /\ StatusTellsConnection
             /\ CloseMeansOver /\ BannerTells /\ StatusTells
             /\ OneAtATime /\ SavesWhatWasOffered /\ RightResult
        /\ OnceUnlessRaced
<1> DEFINE ToolsInv == /\ UpdateTypeOK /\ AgreeInv /\ DoctorInv /\ PictureInv
                       /\ CheckInv /\ StringInv /\ Passed
<1>1. ProgramsInit => ToolsInv
  BY InitAgrees, DoctorInit, PictureInit, CheckInit, StringsInit, PassedInit,
     NoCallIsACall, Zenon DEF ProgramsInit
<1>2. ToolsInv /\ [ProgramsNext]_programsVars => ToolsInv'
  BY EachStep, UpdateStep, DoctorStep, PictureStep, CheckStep, StringsStep, PassedStep, Zenon
<1>3. CheckInv /\ [ProgramsNext]_programsVars =>
          [Checker!ShowsAgain => quietFor = Cooldown \/ raced]_(Checker!vars)
  BY EachStep, SilenceKept, Zenon
<1>4. ToolsInv => ToolsTypeOK
  BY DoctorTypes, StringsTypes, Zenon DEF ToolsTypeOK, PictureInv, CheckInv
<1>5. ToolsInv => /\ CloseMeansOver /\ BannerTells /\ StatusTells
                  /\ OneAtATime /\ SavesWhatWasOffered /\ RightResult
  BY AgreeCloses, AgreeTells, PictureKeeps, StringsKeep, Zenon DEF DoctorInv
<1> HIDE DEF ToolsInv
<1>6. ToolsInv => CheckInv
  BY DEF ToolsInv
<1> QED BY <1>1, <1>2, <1>3, <1>4, <1>5, <1>6, ThreadsInit, ThreadsStep, ThreadsKeep, PTL
        DEF ProgramsSpec, OnceUnlessRaced, Checker!OnceUnlessRaced
=============================================================================
