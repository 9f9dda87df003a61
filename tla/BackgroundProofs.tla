-------------------------- MODULE BackgroundProofs --------------------------
(***************************************************************************)
(* Proofs about Background: the types, the label of the scans, the status  *)
(* of the connection and the rows, for any lists, scans and attempts.      *)
(***************************************************************************)
EXTENDS Background, FiniteSetTheorems, TLAPS

\* What threads hand to the main loop.
Callbacks ==
    [do : {"scanning", "info"}] \cup [do : {"populate"}, scan : Scans]
        \cup [do : {"status"}, attempt : Attempts]

Pending(n, kind) == n \in DOMAIN queue /\ queue[n].do = kind

---------------------------------------------------------------------------
(* The queue.                                                              *)

\* A callback is handed over behind all others.
LEMMA HandedLast ==
    ASSUME NEW q \in Seq(Callbacks), NEW c \in Callbacks,
           NEW r, r = Append(q, c)
    PROVE  /\ r \in Seq(Callbacks)
           /\ Len(q) + 1 \in DOMAIN r /\ r[Len(q) + 1] = c
           /\ \A n \in DOMAIN q : n \in DOMAIN r /\ r[n] = q[n] /\ n < Len(q) + 1
           /\ \A n \in DOMAIN r : n \in DOMAIN q \/ n = Len(q) + 1
OBVIOUS

\* The main loop takes the first.
LEMMA FirstTaken ==
    ASSUME NEW q \in Seq(Callbacks), q # <<>>, NEW r, r = Tail(q)
    PROVE  /\ r \in Seq(Callbacks)
           /\ Head(q) \in Callbacks /\ 1 \in DOMAIN q /\ Head(q) = q[1]
           /\ \A n \in DOMAIN r :
                 /\ n \in Nat /\ n + 1 \in DOMAIN q /\ n + 1 # 1
                 /\ r[n] = q[n + 1]
           /\ \A n \in DOMAIN q : n > 1 => n - 1 \in DOMAIN r /\ r[n - 1] = q[n]
           /\ DOMAIN q \subseteq Nat
OBVIOUS

---------------------------------------------------------------------------
(* The scans.                                                              *)

ScanShape ==
    /\ queue \in Seq(Callbacks)
    /\ DOMAIN scan = Scans
    /\ \A i \in Scans : DOMAIN scan[i] = {"stage", "lines"}

\* A scan that has posted its list waits for the main loop, once.
OnceHanded ==
    /\ \A n : Pending(n, "populate") => scan[queue[n].scan].stage = "posted"
    /\ \A m, n : Pending(m, "populate") /\ Pending(n, "populate")
                    /\ queue[m].scan = queue[n].scan => m = n

\* Who has said it is scanning has still to hand its list over, or has done
\* so behind the word that it is scanning, or has died.
Owing == {"rescanning", "listing", "read", "died"}
ScanningEnds ==
    \A n : Pending(n, "scanning") =>
        \/ \E i \in Scans : scan[i].stage \in Owing
        \/ \E m : Pending(m, "populate") /\ m > n

Right == label = IF rows = <<>> THEN "none" ELSE "found"
LabelOrScan == Right \/ \E i \in Scans : UnderWay(i) \/ scan[i].stage = "died"

ScanInv == ScanShape /\ OnceHanded /\ ScanningEnds /\ LabelOrScan

LEMMA ScanInit == Init => ScanInv
<1> SUFFICES ASSUME Init PROVE ScanInv
  OBVIOUS
<1>0. queue = <<>>
  BY DEF Init
<1>1. DOMAIN queue = {} /\ queue \in Seq(Callbacks)
  BY <1>0
<1>2. scan = [i \in Scans |->
                [stage |-> IF i > 1 THEN "unborn"
                           ELSE IF program = "settings" THEN "listing"
                                ELSE "announcing",
                 lines |-> <<>>]]
  BY DEF Init
<1>3. ScanShape
  BY <1>1, <1>2 DEF ScanShape
<1>4. 1 \in Scans /\ ~(1 > 1)
  BY BackgroundAssumption DEF Scans
<1>5. scan[1].stage \in {"listing", "announcing"}
  BY <1>2, <1>4
<1>6. LabelOrScan
  BY <1>4, <1>5 DEF LabelOrScan, UnderWay
<1> QED BY <1>1, <1>3, <1>6 DEF ScanInv, OnceHanded, ScanningEnds, Pending

\* A step of a scan that hands nothing over.
LEMMA ScanMoves ==
    ASSUME ScanInv, queue' = queue, rows' = rows, label' = label,
           NEW i \in Scans, ScanShape',
           scan[i].stage # "posted",
           scan'[i].stage # "unborn", scan'[i].stage # "shown",
           scan[i].stage \in Owing => scan'[i].stage \in Owing,
           \A j \in Scans \ {i} : scan'[j] = scan[j]
    PROVE  ScanInv'
<1>1. OnceHanded'
  <2>1. \A n : Pending(n, "populate") =>
            scan'[queue[n].scan].stage = scan[queue[n].scan].stage
    <3> SUFFICES ASSUME NEW n, Pending(n, "populate")
                 PROVE  scan'[queue[n].scan].stage = scan[queue[n].scan].stage
      OBVIOUS
    <3>1. queue[n].scan \in Scans
      BY DEF ScanInv, ScanShape, Callbacks, Pending
    <3>2. queue[n].scan # i
      BY DEF ScanInv, OnceHanded
    <3> QED BY <3>1, <3>2
  <2> QED BY <2>1 DEF ScanInv, OnceHanded, Pending
<1>2. ScanningEnds'
  BY DEF ScanInv, ScanningEnds, Pending
<1>3. LabelOrScan'
  BY DEF LabelOrScan, UnderWay
<1> QED BY <1>1, <1>2, <1>3 DEF ScanInv

\* A callback that is not a scan's is handed over.
LEMMA OthersHand ==
    ASSUME ScanInv, UNCHANGED <<scan, rows, label>>,
           NEW c \in Callbacks, c.do \in {"status", "info"},
           queue' = Append(queue, c)
    PROVE  ScanInv'
<1>1. /\ queue' \in Seq(Callbacks)
      /\ \A n \in DOMAIN queue : n \in DOMAIN queue' /\ queue'[n] = queue[n]
      /\ \A n \in DOMAIN queue' : n \in DOMAIN queue \/ queue'[n] = c
  BY HandedLast DEF ScanInv, ScanShape
<1>2. \A n : /\ Pending(n, "populate")' <=> Pending(n, "populate")
             /\ Pending(n, "scanning")' <=> Pending(n, "scanning")
             /\ Pending(n, "populate") => queue'[n] = queue[n]
  BY <1>1 DEF Pending
<1>3. ScanShape'
  BY <1>1 DEF ScanInv, ScanShape
<1>4. OnceHanded'
  BY <1>2 DEF ScanInv, OnceHanded
<1>5. ScanningEnds'
  BY <1>2 DEF ScanInv, ScanningEnds
<1>6. LabelOrScan'
  BY DEF ScanInv, LabelOrScan, Right, UnderWay
<1> QED BY <1>3, <1>4, <1>5, <1>6 DEF ScanInv

\* A scan's stage changes, and no other scan.
LEMMA StageSet ==
    ASSUME ScanShape, NEW i \in Scans, NEW s, Stage(i, s)
    PROVE  /\ DOMAIN scan' = Scans
           /\ \A j \in Scans : DOMAIN scan'[j] = {"stage", "lines"}
           /\ scan'[i].stage = s
           /\ \A j \in Scans \ {i} : scan'[j] = scan[j]
           /\ \A j \in Scans : scan'[j].lines = scan[j].lines
BY DEF ScanShape, Stage

\* A scan tells that it is scanning.
LEMMA ScanAnnounces ==
    ASSUME ScanInv, NEW i \in Scans, Announces(i)
    PROVE  ScanInv'
<1> DEFINE c == [do |-> "scanning"]
<1>1. c \in Callbacks /\ c.do = "scanning" /\ queue' = Append(queue, c)
  BY DEF Announces, Hand, Callbacks
<1> HIDE DEF c
<1>2. /\ queue' \in Seq(Callbacks)
      /\ \A n \in DOMAIN queue : n \in DOMAIN queue' /\ queue'[n] = queue[n]
      /\ \A n \in DOMAIN queue' : n \in DOMAIN queue \/ queue'[n] = c
  BY <1>1, HandedLast DEF ScanInv, ScanShape
<1>3. \A n : Pending(n, "populate")' <=> Pending(n, "populate")
  BY <1>1, <1>2 DEF Pending
<1>4. /\ scan[i].stage = "announcing" /\ scan'[i].stage = "rescanning"
      /\ \A j \in Scans \ {i} : scan'[j] = scan[j]
      /\ DOMAIN scan' = Scans
      /\ \A j \in Scans : DOMAIN scan'[j] = {"stage", "lines"}
  BY StageSet DEF Announces, ScanInv
<1>5. ScanShape'
  BY <1>2, <1>4 DEF ScanShape
<1>6. \A n : Pending(n, "populate") =>
          queue'[n] = queue[n] /\ scan'[queue[n].scan].stage = "posted"
  <2> SUFFICES ASSUME NEW n, Pending(n, "populate")
               PROVE  queue'[n] = queue[n] /\ scan'[queue[n].scan].stage = "posted"
    OBVIOUS
  <2>1. queue[n].scan \in Scans /\ scan[queue[n].scan].stage = "posted"
    BY DEF Pending, ScanInv, ScanShape, Callbacks, OnceHanded
  <2> QED BY <1>2, <1>4, <2>1 DEF Pending
<1>7. OnceHanded'
  BY <1>3, <1>6 DEF ScanInv, OnceHanded
<1>8. ScanningEnds'
  BY <1>4 DEF ScanningEnds, Owing
<1>9. LabelOrScan'
  BY <1>4 DEF LabelOrScan, UnderWay
<1> QED BY <1>5, <1>7, <1>8, <1>9 DEF ScanInv

\* A scan hands its list over.
LEMMA ScanPosts ==
    ASSUME ScanInv, NEW i \in Scans, Posts(i)
    PROVE  ScanInv'
<1> DEFINE c == [do |-> "populate", scan |-> i]
<1>1. /\ c \in Callbacks /\ c.do = "populate" /\ c.scan = i
      /\ queue' = Append(queue, c)
  BY DEF Posts, Hand, Callbacks
<1> HIDE DEF c
<1>2. /\ queue' \in Seq(Callbacks)
      /\ Len(queue) + 1 \in DOMAIN queue' /\ queue'[Len(queue) + 1] = c
      /\ \A n \in DOMAIN queue :
            n \in DOMAIN queue' /\ queue'[n] = queue[n] /\ n < Len(queue) + 1
      /\ \A n \in DOMAIN queue' : n \in DOMAIN queue \/ n = Len(queue) + 1
  BY <1>1, HandedLast DEF ScanInv, ScanShape
<1>3. /\ scan[i].stage = "read" /\ scan'[i].stage = "posted"
      /\ \A j \in Scans \ {i} : scan'[j] = scan[j]
      /\ DOMAIN scan' = Scans
      /\ \A j \in Scans : DOMAIN scan'[j] = {"stage", "lines"}
  BY StageSet DEF Posts, ScanInv
<1>4. ScanShape'
  BY <1>2, <1>3 DEF ScanShape
<1>5. \A n : Pending(n, "populate") =>
          /\ queue[n].scan \in Scans \ {i}
          /\ scan'[queue[n].scan].stage = "posted"
  <2> SUFFICES ASSUME NEW n, Pending(n, "populate")
               PROVE  /\ queue[n].scan \in Scans \ {i}
                      /\ scan'[queue[n].scan].stage = "posted"
    OBVIOUS
  <2>1. queue[n].scan \in Scans /\ scan[queue[n].scan].stage = "posted"
    BY DEF Pending, ScanInv, ScanShape, Callbacks, OnceHanded
  <2> QED BY <1>3, <2>1
<1>6. \A n : Pending(n, "populate")' =>
          \/ Pending(n, "populate") /\ queue'[n] = queue[n]
          \/ n = Len(queue) + 1 /\ queue'[n].scan = i
  BY <1>1, <1>2 DEF Pending
<1>7. OnceHanded'
  <2>1. \A n : Pending(n, "populate")' => scan'[queue'[n].scan].stage = "posted"
    BY <1>3, <1>5, <1>6
  <2>2. \A m, n : Pending(m, "populate")' /\ Pending(n, "populate")'
                    /\ queue'[m].scan = queue'[n].scan => m = n
    BY <1>5, <1>6 DEF ScanInv, OnceHanded
  <2> QED BY <2>1, <2>2 DEF OnceHanded
<1>8. ScanningEnds'
  <2> SUFFICES ASSUME NEW n, Pending(n, "scanning")'
               PROVE  \/ \E j \in Scans : scan'[j].stage \in Owing
                      \/ \E m : Pending(m, "populate")' /\ m > n
    BY DEF ScanningEnds, Owing
  <2>1. Pending(n, "scanning") /\ n < Len(queue) + 1
    BY <1>1, <1>2 DEF Pending
  <2>2. PICK last : last = Len(queue) + 1
    OBVIOUS
  <2>5. Pending(last, "populate")'
    BY <1>1, <1>2, <2>2 DEF Pending
  <2>3. queue \in Seq(Callbacks)
    BY DEF ScanInv, ScanShape
  <2>4. Len(queue) + 1 > n
    BY <2>1, <2>3 DEF Pending
  <2> QED BY <2>2, <2>4, <2>5
<1>9. LabelOrScan'
  BY <1>3 DEF LabelOrScan, UnderWay
<1> QED BY <1>4, <1>7, <1>8, <1>9 DEF ScanInv

\* What the queue is behind the callback that has run.
LEMMA LoopQueue ==
    ASSUME queue \in Seq(Callbacks), queue # <<>>, queue' = Tail(queue)
    PROVE  /\ queue' \in Seq(Callbacks)
           /\ Head(queue) \in Callbacks /\ Pending(1, Head(queue).do)
           /\ queue[1] = Head(queue)
           /\ \A n, kind : Pending(n, kind)' =>
                 /\ n \in Nat /\ n + 1 # 1
                 /\ Pending(n + 1, kind) /\ queue'[n] = queue[n + 1]
           /\ \A n, kind : Pending(n, kind) /\ n > 1 => Pending(n - 1, kind)'
           /\ \A n, kind : Pending(n, kind) => n \in Nat
<1> DEFINE r == queue'
<1>1. /\ r \in Seq(Callbacks)
      /\ Head(queue) \in Callbacks /\ 1 \in DOMAIN queue /\ Head(queue) = queue[1]
      /\ \A n \in DOMAIN r :
            /\ n \in Nat /\ n + 1 \in DOMAIN queue /\ n + 1 # 1
            /\ r[n] = queue[n + 1]
      /\ \A n \in DOMAIN queue :
            n > 1 => n - 1 \in DOMAIN r /\ r[n - 1] = queue[n]
      /\ DOMAIN queue \subseteq Nat
  BY FirstTaken
<1> QED BY <1>1 DEF Pending

\* Any callback but a list: the scans are left alone.
LEMMA ScanLoopOther ==
    ASSUME ScanInv, MainLoop, Head(queue).do # "populate"
    PROVE  ScanInv'
<1>1. /\ queue \in Seq(Callbacks) /\ queue # <<>> /\ queue' = Tail(queue)
      /\ scan' = scan
  BY DEF ScanInv, ScanShape, MainLoop
<1>2. /\ queue' \in Seq(Callbacks)
      /\ Head(queue) \in Callbacks /\ Pending(1, Head(queue).do)
      /\ \A n, kind : Pending(n, kind)' =>
            /\ n \in Nat /\ n + 1 # 1
            /\ Pending(n + 1, kind) /\ queue'[n] = queue[n + 1]
      /\ \A n, kind : Pending(n, kind) /\ n > 1 => Pending(n - 1, kind)'
      /\ \A n, kind : Pending(n, kind) => n \in Nat
  BY <1>1, LoopQueue
<1>3. ScanShape'
  BY <1>1, <1>2 DEF ScanInv, ScanShape
<1>4. OnceHanded'
  <2>1. ASSUME NEW n, Pending(n, "populate")'
        PROVE  scan'[queue'[n].scan].stage = "posted"
    <3>1. Pending(n + 1, "populate") /\ queue'[n] = queue[n + 1]
      BY <1>2, <2>1
    <3> QED BY <1>1, <3>1 DEF ScanInv, OnceHanded
  <2>2. ASSUME NEW m, NEW n, Pending(m, "populate")', Pending(n, "populate")',
               queue'[m].scan = queue'[n].scan
        PROVE  m = n
    <3>1. /\ Pending(m + 1, "populate") /\ queue'[m] = queue[m + 1]
          /\ Pending(n + 1, "populate") /\ queue'[n] = queue[n + 1]
          /\ m \in Nat /\ n \in Nat
      BY <1>2, <2>2
    <3>2. m + 1 = n + 1
      BY <2>2, <3>1 DEF ScanInv, OnceHanded
    <3> QED BY <3>1, <3>2
  <2> QED BY <2>1, <2>2 DEF OnceHanded
<1>5. ScanningEnds'
  <2> SUFFICES ASSUME NEW n, Pending(n, "scanning")'
               PROVE  \/ \E j \in Scans : scan'[j].stage \in Owing
                      \/ \E m : Pending(m, "populate")' /\ m > n
    BY DEF ScanningEnds, Owing
  <2>1. Pending(n + 1, "scanning") /\ n \in Nat
    BY <1>2
  <2>2. CASE \E j \in Scans : scan[j].stage \in Owing
    BY <1>1, <2>2
  <2>3. ASSUME NEW m, Pending(m, "populate"), m > n + 1
        PROVE  \E k : Pending(k, "populate")' /\ k > n
    <3>1. m \in Nat /\ m > 1 /\ m - 1 > n
      BY <1>2, <2>1, <2>3
    <3>2. Pending(m - 1, "populate")'
      BY <1>2, <2>3, <3>1
    <3> QED BY <3>1, <3>2
  <2> QED BY <2>1, <2>2, <2>3 DEF ScanInv, ScanningEnds
<1>6. LabelOrScan'
  <2>1. CASE Head(queue).do = "scanning"
    <3>1. Pending(1, "scanning")
      BY <1>2, <2>1
    <3>2. \/ \E i \in Scans : scan[i].stage \in Owing
          \/ \E m : Pending(m, "populate")
      BY <3>1 DEF ScanInv, ScanningEnds
    <3>3. \A m : Pending(m, "populate") =>
              queue[m].scan \in Scans /\ scan[queue[m].scan].stage = "posted"
      BY <1>1 DEF Pending, ScanInv, OnceHanded, Callbacks
    <3> QED BY <1>1, <3>2, <3>3 DEF LabelOrScan, UnderWay, Owing
  <2>2. CASE Head(queue).do # "scanning"
    <3>1. rows' = rows /\ label' = label
      BY <2>2 DEF MainLoop
    <3> QED BY <1>1, <3>1 DEF ScanInv, LabelOrScan, Right, UnderWay
  <2> QED BY <2>1, <2>2
<1> QED BY <1>3, <1>4, <1>5, <1>6 DEF ScanInv

\* A list is shown.
LEMMA ScanLoopShows ==
    ASSUME ScanInv, MainLoop, Head(queue).do = "populate"
    PROVE  ScanInv'
<1>1. queue \in Seq(Callbacks) /\ queue # <<>> /\ queue' = Tail(queue)
  BY DEF ScanInv, ScanShape, MainLoop
<1>2. /\ queue' \in Seq(Callbacks)
      /\ Head(queue) \in Callbacks /\ Pending(1, "populate")
      /\ queue[1] = Head(queue)
      /\ \A n, kind : Pending(n, kind)' =>
            /\ n \in Nat /\ n + 1 # 1
            /\ Pending(n + 1, kind) /\ queue'[n] = queue[n + 1]
      /\ \A n, kind : Pending(n, kind) /\ n > 1 => Pending(n - 1, kind)'
      /\ \A n, kind : Pending(n, kind) => n \in Nat
  BY <1>1, LoopQueue
<1>3. PICK i : i = Head(queue).scan
  OBVIOUS
<1>4. i \in Scans /\ Populate(i)
  BY <1>2, <1>3 DEF MainLoop, Callbacks
<1>5. scan[i].stage = "posted"
  BY <1>2, <1>3 DEF ScanInv, OnceHanded
<1>6. /\ scan'[i].stage = "shown"
      /\ \A j \in Scans \ {i} : scan'[j] = scan[j]
      /\ DOMAIN scan' = Scans
      /\ \A j \in Scans : DOMAIN scan'[j] = {"stage", "lines"}
  BY <1>4, StageSet DEF Populate, ScanInv
<1>7. ScanShape'
  BY <1>2, <1>6 DEF ScanShape
<1>8. OnceHanded'
  <2>1. ASSUME NEW n, Pending(n, "populate")'
        PROVE  scan'[queue'[n].scan].stage = "posted"
    <3>1. /\ Pending(n + 1, "populate") /\ n + 1 # 1
          /\ queue'[n].scan = queue[n + 1].scan
      BY <1>2, <2>1
    <3>2. queue[n + 1].scan # i
      BY <1>2, <1>3, <3>1 DEF ScanInv, OnceHanded
    <3>3. /\ queue[n + 1].scan \in Scans
          /\ scan[queue[n + 1].scan].stage = "posted"
      BY <1>1, <3>1 DEF ScanInv, OnceHanded, Pending, Callbacks
    <3> QED BY <1>6, <3>1, <3>2, <3>3
  <2>2. ASSUME NEW m, NEW n, Pending(m, "populate")', Pending(n, "populate")',
               queue'[m].scan = queue'[n].scan
        PROVE  m = n
    <3>1. /\ Pending(m + 1, "populate") /\ queue'[m] = queue[m + 1]
          /\ Pending(n + 1, "populate") /\ queue'[n] = queue[n + 1]
          /\ m \in Nat /\ n \in Nat
      BY <1>2, <2>2
    <3>2. m + 1 = n + 1
      BY <2>2, <3>1 DEF ScanInv, OnceHanded
    <3> QED BY <3>1, <3>2
  <2> QED BY <2>1, <2>2 DEF OnceHanded
<1>9. ScanningEnds'
  <2> SUFFICES ASSUME NEW n, Pending(n, "scanning")'
               PROVE  \/ \E j \in Scans : scan'[j].stage \in Owing
                      \/ \E m : Pending(m, "populate")' /\ m > n
    BY DEF ScanningEnds, Owing
  <2>1. Pending(n + 1, "scanning") /\ n \in Nat
    BY <1>2
  <2>2. ASSUME NEW j \in Scans, scan[j].stage \in Owing
        PROVE  scan'[j].stage \in Owing
    <3>1. j # i
      BY <1>5, <2>2 DEF Owing
    <3> QED BY <1>6, <2>2, <3>1
  <2>3. ASSUME NEW m, Pending(m, "populate"), m > n + 1
        PROVE  \E k : Pending(k, "populate")' /\ k > n
    <3>1. m \in Nat /\ m > 1 /\ m - 1 > n
      BY <1>2, <2>1, <2>3
    <3>2. Pending(m - 1, "populate")'
      BY <1>2, <2>3, <3>1
    <3> QED BY <3>1, <3>2
  <2> QED BY <2>1, <2>2, <2>3 DEF ScanInv, ScanningEnds
<1>10. Right'
  BY <1>4 DEF Populate, Right, RowsOf
<1> QED BY <1>7, <1>8, <1>9, <1>10 DEF ScanInv, LabelOrScan

\* Steps that touch neither scans nor queue.
LEMMA ScanStutter ==
    ASSUME ScanInv, UNCHANGED <<queue, scan, rows, label>>
    PROVE  ScanInv'
BY DEF ScanInv, ScanShape, OnceHanded, ScanningEnds, LabelOrScan, Right, Owing,
       UnderWay, Pending

\* A step of a scan's own.
LEMMA ScanOwnStep ==
    ASSUME ScanInv, NEW i \in Scans, ScanStep(i)
    PROVE  ScanInv'
<1> DEFINE Quietly(s) ==
      /\ queue' = queue /\ rows' = rows /\ label' = label
      /\ scan[i].stage # "posted"
      /\ s \notin {"unborn", "shown"}
      /\ scan[i].stage \in Owing => s \in Owing
<1>0. ScanShape /\ queue \in Seq(Callbacks)
  BY DEF ScanInv, ScanShape
<1>1. ASSUME NEW s, Quietly(s), Stage(i, s) PROVE ScanInv'
  <2>1. /\ DOMAIN scan' = Scans
        /\ \A j \in Scans : DOMAIN scan'[j] = {"stage", "lines"}
        /\ scan'[i].stage = s
        /\ \A j \in Scans \ {i} : scan'[j] = scan[j]
    BY <1>0, <1>1, StageSet
  <2>2. ScanShape'
    BY <1>0, <1>1, <2>1 DEF ScanShape
  <2> QED BY <1>1, <2>1, <2>2, ScanMoves
<1>2. ASSUME NEW s, NEW lines, Quietly(s),
             scan' = [scan EXCEPT ![i] = [stage |-> s, lines |-> lines]]
      PROVE  ScanInv'
  <2>1. /\ DOMAIN scan' = Scans
        /\ \A j \in Scans : DOMAIN scan'[j] = {"stage", "lines"}
        /\ scan'[i].stage = s
        /\ \A j \in Scans \ {i} : scan'[j] = scan[j]
    BY <1>0, <1>2 DEF ScanShape
  <2>2. ScanShape'
    BY <1>0, <1>2, <2>1 DEF ScanShape
  <2> QED BY <1>2, <2>1, <2>2, ScanMoves
<1>3. CASE TimerEnds(i)
  <2>1. Quietly("listing") /\ Stage(i, "listing")
    BY <1>3 DEF TimerEnds, scanOnly, Owing
  <2> QED BY <1>1, <2>1
<1>4. CASE Announces(i)
  BY <1>4, ScanAnnounces
<1>5. CASE Rescans(i)
  <2>1. Quietly("listing") /\ Stage(i, "listing")
    BY <1>5 DEF Rescans, scanOnly, Owing
  <2> QED BY <1>1, <2>1
<1>6. CASE Lists(i)
  <2>1. /\ Quietly("read")
        /\ scan' = [scan EXCEPT ![i] = [stage |-> "read", lines |-> Read(i)]]
    BY <1>6 DEF Lists, scanOnly, Owing
  <2> QED BY <1>2, <2>1
<1>7. CASE Fails(i)
  <2>1. Quietly("read") /\ Quietly("died")
    BY <1>7 DEF Fails, scanOnly, Owing
  <2>2. \/ scan' = [scan EXCEPT ![i] = [stage |-> "read", lines |-> <<>>]]
        \/ Stage(i, "died")
    BY <1>7 DEF Fails
  <2> QED BY <1>1, <1>2, <2>1, <2>2
<1>8. CASE Posts(i)
  BY <1>8, ScanPosts
<1> QED BY <1>3, <1>4, <1>5, <1>6, <1>7, <1>8 DEF ScanStep

LEMMA ScanNext == ScanInv /\ [Next]_vars => ScanInv'
<1> SUFFICES ASSUME ScanInv, [Next]_vars PROVE ScanInv'
  OBVIOUS
<1>1. CASE OnRescan
  <2>1. PICK i \in Scans :
          /\ scan[i].stage = "unborn"
          /\ Stage(i, IF program = "settings" THEN "timer" ELSE "announcing")
          /\ queue' = queue /\ rows' = rows /\ label' = label
    BY <1>1 DEF OnRescan
  <2>2. PICK s \in {"timer", "announcing"} : Stage(i, s)
    BY <2>1
  <2>3. /\ DOMAIN scan' = Scans
        /\ \A j \in Scans : DOMAIN scan'[j] = {"stage", "lines"}
        /\ scan'[i].stage = s
        /\ \A j \in Scans \ {i} : scan'[j] = scan[j]
    BY <2>2, StageSet DEF ScanInv
  <2>4. ScanShape'
    BY <2>1, <2>3 DEF ScanInv, ScanShape
  <2> QED BY <2>1, <2>3, <2>4, ScanMoves DEF Owing
<1>2. ASSUME NEW i \in Scans, ScanStep(i) PROVE ScanInv'
  BY <1>2, ScanOwnStep
<1>3. ASSUME NEW a \in Attempts, AttemptStep(a) PROVE ScanInv'
  <2>1. CASE Connects(a) \/ ConnectDies(a)
    BY <2>1, ScanStutter DEF Connects, ConnectDies, attemptOnly, scanVars
  <2>2. CASE Answers(a)
    <3>1. /\ [do |-> "status", attempt |-> a] \in Callbacks
          /\ queue' = Append(queue, [do |-> "status", attempt |-> a])
          /\ UNCHANGED <<scan, rows, label>>
      BY <2>2 DEF Answers, Hand, Callbacks, attemptOnly, scanVars
    <3> QED BY <3>1, OthersHand
  <2> QED BY <1>3, <2>1, <2>2 DEF AttemptStep
<1>4. CASE InfoRead
  <2>1. /\ [do |-> "info"] \in Callbacks
        /\ queue' = Append(queue, [do |-> "info"])
        /\ UNCHANGED <<scan, rows, label>>
    BY <1>4 DEF InfoRead, Hand, Callbacks, scanVars
  <2> QED BY <2>1, OthersHand
<1>5. CASE MainLoop
  BY <1>5, ScanLoopShows, ScanLoopOther
<1>6. CASE SelectRow \/ OnConnect \/ OnInstallClicked \/ InstallTimer
              \/ AirChanges \/ UNCHANGED vars
  BY <1>6, ScanStutter DEF SelectRow, OnConnect, OnInstallClicked, InstallTimer,
     AirChanges, installOnly, scanVars, vars
<1> QED BY <1>1, <1>2, <1>3, <1>4, <1>5, <1>6 DEF Next

---------------------------------------------------------------------------
(* The attempts to connect.                                                *)

AttemptStages == {"unborn", "running", "ended", "posted", "shown", "died"}
AttemptShape ==
    /\ queue \in Seq(Callbacks)
    /\ DOMAIN attempt = Attempts
    /\ \A a \in Attempts : /\ DOMAIN attempt[a] = {"stage", "ssid", "ok"}
                           /\ attempt[a].stage \in AttemptStages
    /\ DOMAIN connect = {"enabled", "told"}
    /\ connect.enabled \in BOOLEAN

\* One attempt at most has not been answered, and it keeps the button off.
Open(a) == attempt[a].stage \in {"running", "ended", "posted", "died"}
OneOpen ==
    /\ \A a, b \in Attempts : Open(a) /\ Open(b) => a = b
    /\ \A a \in Attempts : Open(a) => ~connect.enabled

\* Its answer waits for the main loop, once.
OnceAnswered ==
    /\ \A n : Pending(n, "status") => attempt[queue[n].attempt].stage = "posted"
    /\ \A m, n : Pending(m, "status") /\ Pending(n, "status") => m = n

\* What an answer is going to say is so.
AnswerTrue ==
    \A a \in Attempts :
        /\ attempt[a].stage = "running" => attempt[a].ok = FALSE
        /\ attempt[a].stage \in {"ended", "posted"} /\ attempt[a].ok
              => attempt[a].ssid = connected

AttemptInv ==
    /\ AttemptShape /\ OneOpen /\ OnceAnswered /\ AnswerTrue
    /\ StatusTellsConnection

LEMMA AttemptInit == Init => AttemptInv
<1> SUFFICES ASSUME Init PROVE AttemptInv
  OBVIOUS
<1>0. queue = <<>>
  BY DEF Init
<1>1. DOMAIN queue = {} /\ queue \in Seq(Callbacks)
  BY <1>0
<1>2. /\ attempt = [a \in Attempts |->
                      [stage |-> "unborn", ssid |-> Nothing, ok |-> FALSE]]
      /\ connect = [enabled |-> TRUE, told |-> ""]
  BY DEF Init
<1>3. AttemptShape
  BY <1>1, <1>2 DEF AttemptShape, AttemptStages
<1>4. \A a \in Attempts : attempt[a].stage = "unborn"
  BY <1>2
<1> QED BY <1>1, <1>2, <1>3, <1>4
    DEF AttemptInv, OneOpen, OnceAnswered, AnswerTrue, Open, Pending,
        StatusTellsConnection

\* Steps that touch neither attempts nor queue.
LEMMA AttemptStutter ==
    ASSUME AttemptInv, UNCHANGED <<queue, connVars>>
    PROVE  AttemptInv'
BY DEF AttemptInv, AttemptShape, OneOpen, OnceAnswered, AnswerTrue, Open,
       Pending, StatusTellsConnection, connVars

\* The attempts stay, and the queue has the same answers at the same places
\* or one further on.
LEMMA AttemptQueue ==
    ASSUME AttemptInv, UNCHANGED connVars, queue' \in Seq(Callbacks),
           \/ \A n : Pending(n, "status")' =>
                 Pending(n, "status") /\ queue'[n] = queue[n]
           \/ \A n : Pending(n, "status")' =>
                 /\ n \in Nat
                 /\ Pending(n + 1, "status") /\ queue'[n] = queue[n + 1]
    PROVE  AttemptInv'
<1>1. AttemptShape' /\ OneOpen' /\ AnswerTrue' /\ StatusTellsConnection'
  BY DEF AttemptInv, AttemptShape, OneOpen, AnswerTrue, Open,
         StatusTellsConnection, connVars
<1>2. OnceAnswered'
  <2>1. CASE \A n : Pending(n, "status")' =>
                Pending(n, "status") /\ queue'[n] = queue[n]
    BY <2>1 DEF AttemptInv, OnceAnswered, connVars
  <2>2. CASE \A n : Pending(n, "status")' =>
                /\ n \in Nat
                /\ Pending(n + 1, "status") /\ queue'[n] = queue[n + 1]
    <3>1. ASSUME NEW n, Pending(n, "status")'
          PROVE  attempt'[queue'[n].attempt].stage = "posted"
      <4>1. Pending(n + 1, "status") /\ queue'[n] = queue[n + 1]
        BY <2>2, <3>1
      <4> QED BY <4>1 DEF AttemptInv, OnceAnswered, connVars
    <3>2. ASSUME NEW m, NEW n, Pending(m, "status")', Pending(n, "status")'
          PROVE  m = n
      <4>1. /\ Pending(m + 1, "status") /\ Pending(n + 1, "status")
            /\ m \in Nat /\ n \in Nat
        BY <2>2, <3>2
      <4>2. m + 1 = n + 1
        BY <4>1 DEF AttemptInv, OnceAnswered
      <4> QED BY <4>1, <4>2
    <3> QED BY <3>1, <3>2 DEF OnceAnswered
  <2> QED BY <2>1, <2>2
<1> QED BY <1>1, <1>2 DEF AttemptInv

\* A callback that is not an answer is handed over.
LEMMA AttemptOthersHand ==
    ASSUME AttemptInv, UNCHANGED connVars,
           NEW c \in Callbacks, c.do # "status", queue' = Append(queue, c)
    PROVE  AttemptInv'
<1>1. /\ queue' \in Seq(Callbacks)
      /\ \A n \in DOMAIN queue : n \in DOMAIN queue' /\ queue'[n] = queue[n]
      /\ \A n \in DOMAIN queue' : n \in DOMAIN queue \/ queue'[n] = c
  BY HandedLast DEF AttemptInv, AttemptShape
<1>2. \A n : Pending(n, "status")' => Pending(n, "status") /\ queue'[n] = queue[n]
  BY <1>1 DEF Pending
<1> QED BY <1>1, <1>2, AttemptQueue

\* Nobody's attempt is open while the button is on.
LEMMA OnMeansNone ==
    ASSUME AttemptInv, connect.enabled
    PROVE  \A a \in Attempts : attempt[a].stage \in {"unborn", "shown"}
BY DEF AttemptInv, AttemptShape, OneOpen, Open, AttemptStages

LEMMA AttemptStarts ==
    ASSUME AttemptInv, OnConnect
    PROVE  AttemptInv'
<1>1. /\ connect.enabled /\ queue' = queue /\ connected' = connected
      /\ DOMAIN connect = {"enabled", "told"}
  BY DEF OnConnect, AttemptInv, AttemptShape
<1>2. \A a \in Attempts : attempt[a].stage \in {"unborn", "shown"}
  BY <1>1, OnMeansNone
<1>3. CASE /\ connect' = [connect EXCEPT !.told = "select a network first"]
           /\ UNCHANGED attempt
  <2>1. /\ DOMAIN connect' = {"enabled", "told"}
        /\ connect'.enabled = connect.enabled
        /\ connect'.told = "select a network first"
    BY <1>1, <1>3
  <2> QED BY <1>1, <1>3, <2>1
      DEF AttemptInv, AttemptShape, OneOpen, OnceAnswered, AnswerTrue, Open,
          Pending, StatusTellsConnection
<1>4. ASSUME NEW a \in Attempts,
             connect' = Connecting,
             attempt' = [attempt EXCEPT
               ![a] = [stage |-> "running", ssid |-> selected, ok |-> FALSE]]
      PROVE  AttemptInv'
  <2>1. /\ DOMAIN attempt' = Attempts
        /\ DOMAIN attempt'[a] = {"stage", "ssid", "ok"}
        /\ attempt'[a].stage = "running" /\ attempt'[a].ok = FALSE
        /\ \A b \in Attempts \ {a} : attempt'[b] = attempt[b]
        /\ \A b \in Attempts : attempt'[b].stage \in {"unborn", "shown", "running"}
    BY <1>2, <1>4 DEF AttemptInv, AttemptShape
  <2>2. /\ DOMAIN connect' = {"enabled", "told"}
        /\ connect'.enabled = FALSE
    BY <1>4 DEF Connecting
  <2>3. AttemptShape'
    BY <1>1, <2>1, <2>2 DEF AttemptInv, AttemptShape, AttemptStages
  <2>4. OneOpen'
    BY <1>2, <2>1, <2>2 DEF OneOpen, Open
  <2>5. \A n : Pending(n, "status") => FALSE
    BY <1>2 DEF AttemptInv, AttemptShape, OnceAnswered, Pending, Callbacks
  <2>6. OnceAnswered'
    BY <1>1, <2>5 DEF OnceAnswered, Pending
  <2>7. AnswerTrue'
    BY <1>2, <2>1 DEF AnswerTrue
  <2>8. StatusTellsConnection'
    BY <2>1 DEF StatusTellsConnection
  <2> QED BY <2>3, <2>4, <2>6, <2>7, <2>8 DEF AttemptInv
<1> QED BY <1>3, <1>4 DEF OnConnect

LEMMA AttemptEnds ==
    ASSUME AttemptInv, NEW a \in Attempts, Connects(a) \/ ConnectDies(a)
    PROVE  AttemptInv'
<1>1. /\ attempt[a].stage = "running" /\ queue' = queue /\ connect' = connect
      /\ attempt[a].ok = FALSE
      /\ DOMAIN attempt = Attempts /\ DOMAIN attempt[a] = {"stage", "ssid", "ok"}
  BY DEF Connects, ConnectDies, attemptOnly, AttemptInv, AnswerTrue, AttemptShape
<1>2. /\ DOMAIN attempt' = Attempts
      /\ DOMAIN attempt'[a] = {"stage", "ssid", "ok"}
      /\ attempt'[a].stage \in {"ended", "died"}
      /\ attempt'[a].ok => attempt'[a].ssid = connected'
      /\ \A b \in Attempts \ {a} : attempt'[b] = attempt[b]
  <2>1. CASE /\ connected' = attempt[a].ssid
             /\ attempt' = [attempt EXCEPT ![a].stage = "ended", ![a].ok = TRUE]
    BY <1>1, <2>1
  <2>2. CASE attempt' = [attempt EXCEPT ![a].stage = "ended"]
    BY <1>1, <2>2
  <2>3. CASE attempt' = [attempt EXCEPT ![a].stage = "died"]
    BY <1>1, <2>3
  <2> QED BY <2>1, <2>2, <2>3 DEF Connects, ConnectDies
<1>3. \A b \in Attempts \ {a} : attempt[b].stage \in {"unborn", "shown"}
  BY <1>1 DEF AttemptInv, AttemptShape, OneOpen, Open, AttemptStages
<1>4. AttemptShape'
  BY <1>1, <1>2 DEF AttemptInv, AttemptShape, AttemptStages
<1>5. OneOpen'
  BY <1>1, <1>2, <1>3 DEF AttemptInv, OneOpen, Open
<1>6. \A n : Pending(n, "status") => FALSE
  BY <1>1, <1>3 DEF AttemptInv, AttemptShape, OnceAnswered, Pending, Callbacks
<1>7. OnceAnswered'
  BY <1>1, <1>6 DEF OnceAnswered, Pending
<1>8. AnswerTrue'
  BY <1>2, <1>3 DEF AnswerTrue
<1>9. StatusTellsConnection'
  BY <1>2 DEF StatusTellsConnection
<1> QED BY <1>4, <1>5, <1>7, <1>8, <1>9 DEF AttemptInv

LEMMA AttemptAnswers ==
    ASSUME AttemptInv, NEW a \in Attempts, Answers(a)
    PROVE  AttemptInv'
<1> DEFINE c == [do |-> "status", attempt |-> a]
<1>1. /\ c \in Callbacks /\ c.do = "status" /\ c.attempt = a
      /\ queue' = Append(queue, c)
  BY DEF Answers, Hand, Callbacks
<1> HIDE DEF c
<1>2. /\ queue' \in Seq(Callbacks)
      /\ Len(queue) + 1 \in DOMAIN queue' /\ queue'[Len(queue) + 1] = c
      /\ \A n \in DOMAIN queue : n \in DOMAIN queue' /\ queue'[n] = queue[n]
      /\ \A n \in DOMAIN queue' : n \in DOMAIN queue \/ n = Len(queue) + 1
  BY <1>1, HandedLast DEF AttemptInv, AttemptShape
<1>3. /\ attempt[a].stage = "ended" /\ connect' = connect /\ connected' = connected
      /\ attempt' = [attempt EXCEPT ![a].stage = "posted"]
      /\ DOMAIN attempt = Attempts /\ DOMAIN attempt[a] = {"stage", "ssid", "ok"}
  BY DEF Answers, attemptOnly, AttemptInv, AttemptShape
<1>4. /\ DOMAIN attempt' = Attempts
      /\ DOMAIN attempt'[a] = {"stage", "ssid", "ok"}
      /\ attempt'[a].stage = "posted"
      /\ attempt'[a].ok = attempt[a].ok /\ attempt'[a].ssid = attempt[a].ssid
      /\ \A b \in Attempts \ {a} : attempt'[b] = attempt[b]
  BY <1>3
<1>5. \A b \in Attempts \ {a} : attempt[b].stage \in {"unborn", "shown"}
  BY <1>3 DEF AttemptInv, AttemptShape, OneOpen, Open, AttemptStages
<1>6. AttemptShape'
  BY <1>2, <1>3, <1>4 DEF AttemptInv, AttemptShape, AttemptStages
<1>7. OneOpen'
  BY <1>3, <1>4, <1>5 DEF AttemptInv, OneOpen, Open
<1>8. \A n : Pending(n, "status") => FALSE
  BY <1>3, <1>5 DEF AttemptInv, AttemptShape, OnceAnswered, Pending, Callbacks
<1>9. OnceAnswered'
  <2>1. ASSUME NEW n, Pending(n, "status")'
        PROVE  n = Len(queue) + 1 /\ queue'[n] = c
    <3>1. n \in DOMAIN queue => Pending(n, "status")
      BY <1>2, <2>1 DEF Pending
    <3>2. n \in DOMAIN queue'
      BY <2>1 DEF Pending
    <3> QED BY <1>2, <1>8, <3>1, <3>2
  <2> QED BY <1>1, <1>4, <2>1 DEF OnceAnswered
<1>10. AnswerTrue'
  BY <1>3, <1>4, <1>5 DEF AttemptInv, AnswerTrue
<1>11. StatusTellsConnection'
  BY <1>4 DEF StatusTellsConnection
<1> QED BY <1>6, <1>7, <1>9, <1>10, <1>11 DEF AttemptInv

\* An answer is shown.
LEMMA AttemptShown ==
    ASSUME AttemptInv, MainLoop, Head(queue).do = "status"
    PROVE  AttemptInv'
<1>1. queue \in Seq(Callbacks) /\ queue # <<>> /\ queue' = Tail(queue)
  BY DEF AttemptInv, AttemptShape, MainLoop
<1>2. /\ queue' \in Seq(Callbacks)
      /\ Head(queue) \in Callbacks /\ Pending(1, "status")
      /\ queue[1] = Head(queue)
      /\ \A n, kind : Pending(n, kind)' =>
            /\ n \in Nat /\ n + 1 # 1
            /\ Pending(n + 1, kind) /\ queue'[n] = queue[n + 1]
  BY <1>1, LoopQueue
<1>3. PICK a : a = Head(queue).attempt
  OBVIOUS
<1>4. /\ a \in Attempts
      /\ connect' = Status(a)
      /\ attempt' = [attempt EXCEPT ![a].stage = "shown"]
      /\ connected' = connected
  BY <1>2, <1>3 DEF MainLoop, Callbacks
<1>5. /\ attempt[a].stage = "posted"
      /\ DOMAIN attempt = Attempts /\ DOMAIN attempt[a] = {"stage", "ssid", "ok"}
  BY <1>2, <1>3, <1>4 DEF AttemptInv, AttemptShape, OnceAnswered
<1>6. \A b \in Attempts \ {a} : attempt[b].stage \in {"unborn", "shown"}
  BY <1>4, <1>5 DEF AttemptInv, AttemptShape, OneOpen, Open, AttemptStages
<1>7. /\ DOMAIN attempt' = Attempts
      /\ DOMAIN attempt'[a] = {"stage", "ssid", "ok"}
      /\ attempt'[a].stage = "shown"
      /\ \A b \in Attempts \ {a} : attempt'[b] = attempt[b]
  BY <1>4, <1>5
<1>8. \A b \in Attempts : attempt'[b].stage \in {"unborn", "shown"}
  BY <1>6, <1>7
<1>9. /\ DOMAIN connect' = {"enabled", "told"} /\ connect'.enabled = TRUE
      /\ connect'.told = IF attempt[a].ok THEN attempt[a].ssid ELSE "error"
  BY <1>4 DEF Status
<1>10. AttemptShape'
  <2>1. \A b \in Attempts : DOMAIN attempt'[b] = {"stage", "ssid", "ok"}
    BY <1>7 DEF AttemptInv, AttemptShape
  <2>2. \A b \in Attempts : attempt'[b].stage \in AttemptStages
    BY <1>8 DEF AttemptStages
  <2>3. connect'.enabled \in BOOLEAN
    BY <1>9
  <2> QED BY <1>2, <1>7, <1>9, <2>1, <2>2, <2>3 DEF AttemptShape
<1>11. OneOpen' /\ AnswerTrue'
  BY <1>8 DEF OneOpen, Open, AnswerTrue
<1>12. OnceAnswered'
  <2>1. ASSUME NEW n, Pending(n, "status")' PROVE FALSE
    <3>1. Pending(n + 1, "status") /\ n + 1 # 1
      BY <1>2, <2>1
    <3> QED BY <1>2, <3>1 DEF AttemptInv, OnceAnswered
  <2> QED BY <2>1 DEF OnceAnswered
<1>13. StatusTellsConnection'
  BY <1>4, <1>5, <1>9 DEF AttemptInv, AnswerTrue, StatusTellsConnection
<1> QED BY <1>10, <1>11, <1>12, <1>13 DEF AttemptInv

LEMMA AttemptNext == AttemptInv /\ [Next]_vars => AttemptInv'
<1> SUFFICES ASSUME AttemptInv, [Next]_vars PROVE AttemptInv'
  OBVIOUS
<1>1. ASSUME NEW i \in Scans, ScanStep(i) PROVE AttemptInv'
  <2>1. CASE TimerEnds(i) \/ Rescans(i) \/ Lists(i) \/ Fails(i)
    BY <2>1, AttemptStutter
    DEF TimerEnds, Rescans, Lists, Fails, scanOnly, connVars
  <2>2. ASSUME NEW c \in Callbacks, c.do # "status", Hand(c), UNCHANGED scanOnly
        PROVE  AttemptInv'
    BY <2>2, AttemptOthersHand DEF Hand, scanOnly, connVars
  <2>3. CASE Announces(i)
    BY <2>2, <2>3 DEF Announces, Callbacks
  <2>4. CASE Posts(i)
    BY <2>2, <2>4 DEF Posts, Callbacks
  <2> QED BY <1>1, <2>1, <2>3, <2>4 DEF ScanStep
<1>2. ASSUME NEW a \in Attempts, AttemptStep(a) PROVE AttemptInv'
  BY <1>2, AttemptEnds, AttemptAnswers DEF AttemptStep
<1>3. CASE InfoRead
  <2>1. /\ [do |-> "info"] \in Callbacks
        /\ queue' = Append(queue, [do |-> "info"])
        /\ UNCHANGED connVars
    BY <1>3 DEF InfoRead, Hand, Callbacks
  <2> QED BY <2>1, AttemptOthersHand
<1>4. CASE MainLoop
  <2>1. CASE Head(queue).do = "status"
    BY <1>4, <2>1, AttemptShown
  <2>2. CASE Head(queue).do # "status"
    <3>1. queue \in Seq(Callbacks) /\ queue # <<>> /\ queue' = Tail(queue)
      BY <1>4 DEF AttemptInv, AttemptShape, MainLoop
    <3>2. UNCHANGED connVars
      BY <1>4, <2>2 DEF MainLoop, Populate, connVars
    <3> QED BY <3>1, <3>2, LoopQueue, AttemptQueue
  <2> QED BY <2>1, <2>2
<1>5. CASE OnConnect
  BY <1>5, AttemptStarts
<1>6. CASE OnRescan \/ SelectRow \/ OnInstallClicked \/ InstallTimer
              \/ AirChanges \/ UNCHANGED vars
  <2>1. UNCHANGED <<queue, connVars>>
    BY <1>6 DEF OnRescan, SelectRow, OnInstallClicked, InstallTimer,
       AirChanges, installOnly, vars
  <2> QED BY <2>1, AttemptStutter
<1> QED BY <1>1, <1>2, <1>3, <1>4, <1>5, <1>6 DEF Next

---------------------------------------------------------------------------
(* Fresh lists.                                                            *)

Fresh(lines) == lines \in since \/ lines = <<>>

FreshInv ==
    /\ DOMAIN scan = Scans
    /\ \A i \in Scans : DOMAIN scan[i] = {"stage", "lines"}
    /\ air \in since
    /\ ~overlap =>
         /\ \A i, j \in Scans : UnderWay(i) /\ UnderWay(j) => i = j
         /\ \A i \in Scans :
               scan[i].stage \in {"read", "posted"} => Fresh(scan[i].lines)
         /\ ~Died /\ (\A i \in Scans : ~UnderWay(i)) => Fresh(source)

LEMMA FreshInit == Init => FreshInv
<1> SUFFICES ASSUME Init PROVE FreshInv
  OBVIOUS
<1>1. scan = [i \in Scans |->
                [stage |-> IF i > 1 THEN "unborn"
                           ELSE IF program = "settings" THEN "listing"
                                ELSE "announcing",
                 lines |-> <<>>]]
  BY DEF Init
<1>2. 1 \in Scans /\ ~(1 > 1) /\ \A i \in Scans : i = 1 \/ i > 1
  BY BackgroundAssumption DEF Scans
<1>3. /\ DOMAIN scan = Scans
      /\ \A i \in Scans : DOMAIN scan[i] = {"stage", "lines"}
      /\ scan[1].stage \in {"listing", "announcing"}
      /\ \A i \in Scans \ {1} : scan[i].stage = "unborn"
  BY <1>1, <1>2
<1>4. air \in since
  BY DEF Init
<1> QED BY <1>2, <1>3, <1>4 DEF FreshInv, UnderWay

\* A scan goes on.
LEMMA FreshMoves ==
    ASSUME FreshInv, NEW i \in Scans, UnderWay(i),
           DOMAIN scan' = Scans,
           \A j \in Scans : DOMAIN scan'[j] = {"stage", "lines"},
           \A j \in Scans \ {i} : scan'[j] = scan[j],
           scan'[i].stage \notin {"unborn", "shown"},
           scan'[i].stage \in {"read", "posted"} => Fresh(scan'[i].lines),
           UNCHANGED <<program, since, air, overlap, source>>
    PROVE  FreshInv'
<1>1. Died' \/ UnderWay(i)'
  BY DEF Died, UnderWay
<1>2. \A j \in Scans : UnderWay(j)' => UnderWay(j)
  BY DEF UnderWay
<1>3. ASSUME ~overlap', NEW j \in Scans, scan'[j].stage \in {"read", "posted"}
      PROVE  Fresh(scan[j].lines)'
  BY <1>3 DEF FreshInv, Fresh
<1> QED BY <1>1, <1>2, <1>3 DEF FreshInv

LEMMA FreshOwnStep ==
    ASSUME FreshInv, NEW i \in Scans, ScanStep(i)
    PROVE  FreshInv'
<1>0. /\ DOMAIN scan = Scans
      /\ \A j \in Scans : DOMAIN scan[j] = {"stage", "lines"}
      /\ UNCHANGED <<program, since, air, overlap, source>>
      /\ UnderWay(i)
  BY DEF FreshInv, ScanStep, TimerEnds, Announces, Rescans, Lists, Fails, Posts,
     scanOnly, UnderWay
<1>1. ASSUME NEW s, Stage(i, s), s \in {"listing", "rescanning", "died", "posted"},
             s = "posted" => scan[i].stage = "read"
      PROVE  FreshInv'
  <2>1. /\ DOMAIN scan' = Scans
        /\ \A j \in Scans : DOMAIN scan'[j] = {"stage", "lines"}
        /\ \A j \in Scans \ {i} : scan'[j] = scan[j]
        /\ scan'[i].stage = s /\ scan'[i].lines = scan[i].lines
    BY <1>0, <1>1 DEF Stage
  <2>2. CASE overlap
    BY <1>0, <2>1, <2>2 DEF FreshInv
  <2>3. CASE ~overlap
    <3>1. scan'[i].stage \in {"read", "posted"} => Fresh(scan'[i].lines)
      BY <1>1, <2>1, <2>3 DEF FreshInv
    <3> QED BY <1>0, <1>1, <2>1, <3>1, FreshMoves
  <2> QED BY <2>2, <2>3
<1>2. ASSUME NEW lines, Fresh(lines),
             scan' = [scan EXCEPT ![i] = [stage |-> "read", lines |-> lines]]
      PROVE  FreshInv'
  <2>1. /\ DOMAIN scan' = Scans
        /\ \A j \in Scans : DOMAIN scan'[j] = {"stage", "lines"}
        /\ \A j \in Scans \ {i} : scan'[j] = scan[j]
        /\ scan'[i].stage = "read" /\ scan'[i].lines = lines
    BY <1>0, <1>2
  <2> QED BY <1>0, <1>2, <2>1, FreshMoves
<1>3. CASE TimerEnds(i) \/ Announces(i) \/ Rescans(i) \/ Posts(i)
  BY <1>1, <1>3 DEF TimerEnds, Announces, Rescans, Posts
<1>4. CASE Lists(i)
  BY <1>2, <1>4 DEF Lists, Read, Fresh, FreshInv
<1>5. CASE Fails(i)
  BY <1>1, <1>2, <1>5 DEF Fails, Fresh
<1> QED BY <1>3, <1>4, <1>5 DEF ScanStep

LEMMA FreshNext == FreshInv /\ ScanInv /\ [Next]_vars => FreshInv'
<1> SUFFICES ASSUME FreshInv, ScanInv, [Next]_vars PROVE FreshInv'
  OBVIOUS
<1>1. CASE OnRescan
  <2>1. PICK i \in Scans, s \in {"timer", "announcing"} :
          /\ Stage(i, s) /\ since' = {air} /\ air' = air
          /\ overlap' = (overlap \/ \E j \in Scans : UnderWay(j))
    BY <1>1 DEF OnRescan
  <2>2. /\ DOMAIN scan' = Scans
        /\ \A j \in Scans : DOMAIN scan'[j] = {"stage", "lines"}
        /\ scan'[i].stage = s
        /\ \A j \in Scans \ {i} : scan'[j] = scan[j]
    BY <2>1, StageSet DEF ScanInv
  <2>3. UnderWay(i)' /\ scan'[i].stage \notin {"read", "posted"}
    BY <2>2 DEF UnderWay
  <2>4. ~overlap' => \A j \in Scans \ {i} :
            ~UnderWay(j)' /\ scan'[j].stage \notin {"read", "posted"}
    BY <2>1, <2>2 DEF UnderWay
  <2> QED BY <2>1, <2>2, <2>3, <2>4 DEF FreshInv
<1>2. ASSUME NEW i \in Scans, ScanStep(i) PROVE FreshInv'
  BY <1>2, FreshOwnStep
<1>3. CASE MainLoop
  <2>0. UNCHANGED <<program, since, air, overlap>>
    BY <1>3 DEF MainLoop
  <2>1. CASE Head(queue).do = "populate"
    <3>1. PICK i : i = Head(queue).scan
      OBVIOUS
    <3>2. /\ queue \in Seq(Callbacks) /\ queue # <<>> /\ queue' = Tail(queue)
          /\ Populate(i)
      BY <1>3, <2>1, <3>1 DEF MainLoop, ScanInv, ScanShape
    <3>3. i \in Scans /\ scan[i].stage = "posted"
      BY <2>1, <3>1, <3>2, LoopQueue DEF Callbacks, ScanInv, OnceHanded
    <3>4. source' = scan[i].lines
      BY <3>2 DEF Populate
    <3>5. /\ DOMAIN scan' = Scans
          /\ \A j \in Scans : DOMAIN scan'[j] = {"stage", "lines"}
          /\ scan'[i].stage = "shown"
          /\ \A j \in Scans \ {i} : scan'[j] = scan[j]
      BY <3>2, <3>3, StageSet DEF Populate, ScanInv
    <3>6. ~overlap => Fresh(source')
      BY <3>3, <3>4 DEF FreshInv
    <3>7. \A j \in Scans : UnderWay(j)' => j # i /\ UnderWay(j)
      BY <3>5 DEF UnderWay
    <3>8. ASSUME ~overlap', NEW j \in Scans, scan'[j].stage \in {"read", "posted"}
          PROVE  Fresh(scan[j].lines)'
      BY <2>0, <3>5, <3>8 DEF FreshInv, Fresh
    <3>9. ~overlap' => Fresh(source)'
      BY <2>0, <3>6 DEF Fresh
    <3> QED BY <2>0, <3>5, <3>7, <3>8, <3>9 DEF FreshInv
  <2>2. CASE Head(queue).do # "populate"
    <3>1. UNCHANGED <<scan, source>>
      BY <1>3, <2>2 DEF MainLoop
    <3> QED BY <2>0, <3>1 DEF FreshInv, Fresh, UnderWay, Died
  <2> QED BY <2>1, <2>2
<1>4. CASE AirChanges
  <2>1. /\ UNCHANGED <<program, scan, overlap, source>>
        /\ air' \in since' /\ since \subseteq since'
    BY <1>4 DEF AirChanges
  <2>2. \A lines : Fresh(lines) => Fresh(lines)'
    BY <2>1 DEF Fresh
  <2> QED BY <2>1, <2>2 DEF FreshInv, UnderWay, Died, Fresh
<1>5. ASSUME UNCHANGED <<program, scan, since, air, overlap, source>>
      PROVE  FreshInv'
  BY <1>5 DEF FreshInv, UnderWay, Died, Fresh
<1>6. ASSUME NEW a \in Attempts, AttemptStep(a) PROVE FreshInv'
  BY <1>5, <1>6 DEF AttemptStep, Connects, ConnectDies, Answers, attemptOnly, scanVars
<1>7. CASE SelectRow \/ OnConnect \/ InfoRead \/ OnInstallClicked
              \/ InstallTimer \/ UNCHANGED vars
  BY <1>5, <1>7 DEF SelectRow, OnConnect, InfoRead, OnInstallClicked,
     InstallTimer, installOnly, vars, scanVars
<1> QED BY <1>1, <1>2, <1>3, <1>4, <1>6, <1>7 DEF Next

---------------------------------------------------------------------------
(* The types that are left, and the theorems.                              *)

TypesLeft ==
    /\ DOMAIN scan = Scans
    /\ \A i \in Scans : /\ DOMAIN scan[i] = {"stage", "lines"}
                        /\ scan[i].lines \in Airs \cup {<<>>}
    /\ selected = Nothing \/ \E n \in DOMAIN rows : rows[n].ssid = selected
    /\ DOMAIN install = {"told", "enabled", "timer", "clicks"}
    /\ install.enabled \in BOOLEAN
    /\ since \subseteq Airs /\ air \in since

LEMMA TypesLeftInit == Init => TypesLeft
<1> SUFFICES ASSUME Init PROVE TypesLeft
  OBVIOUS
<1>1. scan = [i \in Scans |->
                [stage |-> IF i > 1 THEN "unborn"
                           ELSE IF program = "settings" THEN "listing"
                                ELSE "announcing",
                 lines |-> <<>>]]
  BY DEF Init
<1>2. DOMAIN scan = Scans
      /\ \A i \in Scans : DOMAIN scan[i] = {"stage", "lines"} /\ scan[i].lines = <<>>
  BY <1>1
<1>3. install = [told |-> "", enabled |-> TRUE, timer |-> FALSE, clicks |-> 0]
  BY DEF Init
<1>4. DOMAIN install = {"told", "enabled", "timer", "clicks"} /\ install.enabled = TRUE
  BY <1>3
<1>5. selected = Nothing /\ since = {air} /\ air \in Airs
  BY DEF Init
<1> QED BY <1>2, <1>4, <1>5 DEF TypesLeft

LEMMA TypesLeftNext == TypesLeft /\ [Next]_vars => TypesLeft'
<1> SUFFICES ASSUME TypesLeft, [Next]_vars PROVE TypesLeft'
  OBVIOUS
<1> DEFINE Lines == /\ DOMAIN scan = Scans
                    /\ \A i \in Scans : /\ DOMAIN scan[i] = {"stage", "lines"}
                                        /\ scan[i].lines \in Airs \cup {<<>>}
           Rest == /\ selected = Nothing \/ \E n \in DOMAIN rows : rows[n].ssid = selected
                   /\ DOMAIN install = {"told", "enabled", "timer", "clicks"}
                   /\ install.enabled \in BOOLEAN
                   /\ since \subseteq Airs /\ air \in since
<1>0. Lines /\ Rest /\ air \in Airs
  BY DEF TypesLeft
<1>1. ASSUME NEW i \in Scans, NEW s, Stage(i, s) PROVE Lines'
  BY <1>0, <1>1 DEF Stage
<1>2. ASSUME NEW i \in Scans, NEW lines \in Airs \cup {<<>>},
             scan' = [scan EXCEPT ![i] = [stage |-> "read", lines |-> lines]]
      PROVE  Lines'
  BY <1>0, <1>2
<1>3. ASSUME UNCHANGED <<selected, rows, install, since, air>> PROVE Rest'
  BY <1>0, <1>3
<1>4. CASE OnRescan
  <2>1. Lines'
    BY <1>1, <1>4 DEF OnRescan
  <2>2. Rest'
    BY <1>0, <1>4 DEF OnRescan
  <2> QED BY <2>1, <2>2 DEF TypesLeft
<1>5. ASSUME NEW i \in Scans, ScanStep(i) PROVE TypesLeft'
  <2>1. Rest'
    BY <1>3, <1>5 DEF ScanStep, TimerEnds, Announces, Rescans, Lists, Fails,
       Posts, scanOnly
  <2>2. Lines'
    <3>1. CASE TimerEnds(i) \/ Announces(i) \/ Rescans(i) \/ Posts(i)
      BY <1>1, <3>1 DEF TimerEnds, Announces, Rescans, Posts
    <3>2. CASE Lists(i)
      BY <1>0, <1>2, <3>2 DEF Lists, Read
    <3>3. CASE Fails(i)
      BY <1>1, <1>2, <3>3 DEF Fails
    <3> QED BY <1>5, <3>1, <3>2, <3>3 DEF ScanStep
  <2> QED BY <2>1, <2>2 DEF TypesLeft
<1>6. CASE MainLoop
  <2>1. CASE scan' = scan /\ UNCHANGED <<rows, selected>>
    <3>1. Rest'
      BY <1>3, <1>6, <2>1 DEF MainLoop
    <3> QED BY <1>0, <2>1, <3>1 DEF TypesLeft
  <2>2. CASE Populate(Head(queue).scan)
    <3>1. Rest'
      BY <1>0, <1>6, <2>2 DEF MainLoop, Populate, SelectionLeft
    <3>2. PICK i : Stage(i, "shown")
      BY <2>2 DEF Populate
    <3>3. Lines'
      BY <1>0, <3>2 DEF Stage
    <3> QED BY <3>1, <3>3 DEF TypesLeft
  <2> QED BY <1>6, <2>1, <2>2 DEF MainLoop
<1>7. CASE SelectRow
  <2>1. Rest'
    BY <1>0, <1>7 DEF SelectRow
  <2>2. scan' = scan
    BY <1>7 DEF SelectRow
  <2> QED BY <1>0, <2>1, <2>2 DEF TypesLeft
<1>8. CASE OnInstallClicked \/ InstallTimer
  <2>1. DOMAIN install' = {"told", "enabled", "timer", "clicks"}
        /\ install'.enabled \in BOOLEAN
    <3>1. CASE OnInstallClicked
      <4>1. PICK told :
              install' = [told    |-> told,
                          enabled |-> told = "not found",
                          timer   |-> told \in {"Enabled", "in background"},
                          clicks  |-> install.clicks + 1]
        BY <3>1 DEF OnInstallClicked
      <4>2. (told = "not found") \in BOOLEAN
        OBVIOUS
      <4>3. PICK enabled \in BOOLEAN : enabled = (told = "not found")
        BY <4>2
      <4>4. PICK timer : timer = (told \in {"Enabled", "in background"})
        OBVIOUS
      <4>5. install' = [told |-> told, enabled |-> enabled, timer |-> timer,
                        clicks |-> install.clicks + 1]
        BY <4>1, <4>3, <4>4, Zenon
      <4> QED BY <4>5
    <3>2. CASE InstallTimer
      BY <1>0, <3>2 DEF InstallTimer
    <3> QED BY <1>8, <3>1, <3>2
  <2>2. UNCHANGED <<scan, selected, rows, since, air>>
    BY <1>8 DEF OnInstallClicked, InstallTimer, installOnly, scanVars
  <2> QED BY <1>0, <2>1, <2>2 DEF TypesLeft
<1>9. CASE AirChanges
  <2>1. UNCHANGED <<scan, selected, rows, install>>
    BY <1>9 DEF AirChanges
  <2>2. since' \subseteq Airs /\ air' \in since'
    BY <1>0, <1>9 DEF AirChanges
  <2> QED BY <1>0, <2>1, <2>2 DEF TypesLeft
<1>10. ASSUME UNCHANGED <<scan, selected, rows, install, since, air>>
       PROVE  TypesLeft'
  BY <1>0, <1>10 DEF TypesLeft
<1>11. ASSUME NEW a \in Attempts, AttemptStep(a) PROVE TypesLeft'
  BY <1>10, <1>11 DEF AttemptStep, Connects, ConnectDies, Answers, attemptOnly, scanVars
<1>12. CASE OnConnect \/ InfoRead \/ UNCHANGED vars
  BY <1>10, <1>12 DEF OnConnect, InfoRead, vars, scanVars
<1> QED BY <1>4, <1>5, <1>6, <1>7, <1>8, <1>9, <1>11, <1>12 DEF Next

\* The invariant of the threads and the main loop: one answer or list of each
\* is on its way, and what is on its way is what the page owes the user.
BackgroundInv == ScanInv /\ AttemptInv /\ FreshInv /\ TypesLeft

LEMMA BackgroundInit == Init => BackgroundInv
BY ScanInit, AttemptInit, FreshInit, TypesLeftInit DEF BackgroundInv

LEMMA BackgroundNext == BackgroundInv /\ [Next]_vars => BackgroundInv'
BY ScanNext, AttemptNext, FreshNext, TypesLeftNext DEF BackgroundInv

\* BackgroundInv holds in every reachable state.
THEOREM BackgroundInductive == Spec => []BackgroundInv
BY BackgroundInit, BackgroundNext, PTL DEF Spec

LEMMA BackgroundKeeps ==
    BackgroundInv => /\ BackgroundTypeOK /\ LabelTellsRows
                     /\ StatusTellsConnection /\ FreshRows
<1>1. BackgroundInv => BackgroundTypeOK
  <2> SUFFICES ASSUME BackgroundInv PROVE BackgroundTypeOK
    OBVIOUS
  <2>1. ASSUME NEW n \in DOMAIN queue
        PROVE  \/ queue[n].do \in {"scanning", "info"}
               \/ /\ queue[n].do = "populate"
                  /\ scan[queue[n].scan].stage = "posted"
               \/ /\ queue[n].do = "status"
                  /\ attempt[queue[n].attempt].stage = "posted"
    <3>1. queue[n] \in Callbacks
      BY DEF BackgroundInv, ScanInv, ScanShape
    <3>2. queue[n].do \in {"scanning", "info", "populate", "status"}
      BY <3>1 DEF Callbacks
    <3>3. \A kind : queue[n].do = kind => Pending(n, kind)
      BY DEF Pending
    <3> QED BY <3>2, <3>3
        DEF BackgroundInv, ScanInv, OnceHanded, AttemptInv, OnceAnswered
  <2> QED BY <2>1
      DEF BackgroundInv, BackgroundTypeOK, TypesLeft, AttemptInv, AttemptShape
<1>2. BackgroundInv => LabelTellsRows
  BY DEF BackgroundInv, ScanInv, LabelOrScan, Right, LabelTellsRows, Died
<1>3. BackgroundInv => StatusTellsConnection
  BY DEF BackgroundInv, AttemptInv
<1>4. BackgroundInv => FreshRows
  BY DEF BackgroundInv, FreshInv, Fresh, FreshRows
<1> QED BY <1>1, <1>2, <1>3, <1>4, Zenon

\* What is in the queue is a callback of a thread that has posted it and not
\* been answered; lists, rows and buttons are of their types.
THEOREM BackgroundTypes == Spec => []BackgroundTypeOK
BY BackgroundKeeps, BackgroundInductive, PTL

\* For any number of scans, however they overlap: once all are answered the
\* label tells what the rows are.
THEOREM LabelIsRight == Spec => []LabelTellsRows
BY BackgroundKeeps, BackgroundInductive, PTL

\* For any number of attempts: once all are answered the page tells the
\* connection there is.
THEOREM StatusIsRight == Spec => []StatusTellsConnection
BY BackgroundKeeps, BackgroundInductive, PTL

\* For any number of scans that did not overlap: once all are answered, the
\* list is one nmcli gave after the last was asked for.
THEOREM ListIsFresh == Spec => []FreshRows
BY BackgroundKeeps, BackgroundInductive, PTL

---------------------------------------------------------------------------
(* The rows.                                                               *)

\* A strict order of a finite set, each two of whose elements it orders, has a
\* sequence in that order: an element's place is the number of those before it.
StrictOrder(S, order) ==
    /\ order \subseteq S \X S
    /\ \A i \in S : <<i, i>> \notin order
    /\ \A i, j, k \in S : <<i, j>> \in order /\ <<j, k>> \in order => <<i, k>> \in order
    /\ \A i, j \in S : i # j => <<i, j>> \in order \/ <<j, i>> \in order

LEMMA SequenceExists ==
    ASSUME NEW S, IsFiniteSet(S), NEW order, StrictOrder(S, order)
    PROVE  \E s \in [1 .. Cardinality(S) -> S] :
               \A m, n \in DOMAIN s : m < n => <<s[m], s[n]>> \in order
<1> USE DEF StrictOrder
<1> DEFINE Before(j) == {i \in S : <<i, j>> \in order}
           place == [j \in S |-> Cardinality(Before(j)) + 1]
           N == Cardinality(S)
<1>1. N \in Nat
  BY FS_CardinalityType
<1>2. ASSUME NEW j \in S
      PROVE  IsFiniteSet(Before(j)) /\ Cardinality(Before(j)) \in 0 .. N - 1
  <2>1. Before(j) \in SUBSET S /\ j \notin Before(j)
    OBVIOUS
  <2> HIDE DEF Before
  <2>2. IsFiniteSet(Before(j)) /\ Cardinality(Before(j)) <= N
        /\ (N = Cardinality(Before(j)) => S = Before(j))
    BY <2>1, FS_Subset
  <2>3. Cardinality(Before(j)) \in Nat
    BY <2>2, FS_CardinalityType
  <2> QED BY <1>1, <2>1, <2>2, <2>3
<1>3. ASSUME NEW i \in S, NEW j \in S, <<i, j>> \in order
      PROVE  Cardinality(Before(i)) < Cardinality(Before(j))
  <2>1. Before(i) \in SUBSET Before(j) /\ i \in Before(j) /\ i \notin Before(i)
    BY <1>3
  <2>2. IsFiniteSet(Before(j)) /\ IsFiniteSet(Before(i))
        /\ Cardinality(Before(i)) \in Nat /\ Cardinality(Before(j)) \in Nat
    BY <1>2
  <2> HIDE DEF Before
  <2>3. Cardinality(Before(i)) <= Cardinality(Before(j))
        /\ (Cardinality(Before(j)) = Cardinality(Before(i)) => Before(j) = Before(i))
    BY <2>1, <2>2, FS_Subset
  <2> QED BY <2>1, <2>2, <2>3
<1>4. place \in [S -> 1 .. N]
  <2> HIDE DEF Before, N
  <2>1. \A j \in S : Cardinality(Before(j)) \in 0 .. N - 1
    BY <1>2
  <2>2. \A k \in 0 .. N - 1 : k + 1 \in 1 .. N
    BY <1>1
  <2> QED BY <2>1, <2>2
<1>5. ASSUME NEW i \in S, NEW j \in S, <<i, j>> \in order PROVE place[i] < place[j]
  <2> HIDE DEF Before, N
  <2>1. \A k \in S : Cardinality(Before(k)) \in 0 .. N - 1
    BY <1>2
  <2>2. Cardinality(Before(i)) < Cardinality(Before(j))
    BY <1>3, <1>5
  <2> QED BY <2>1, <2>2
<1> HIDE DEF place
<1>6. place \in Injection(S, 1 .. N)
  <2>1. ASSUME NEW i \in S, NEW j \in S, place[i] = place[j] PROVE i = j
    <3>1. place[i] \in 1 .. N /\ place[j] \in 1 .. N
      BY <1>4
    <3>2. CASE i # j
      <4>1. place[i] < place[j] \/ place[j] < place[i]
        BY <1>5, <3>2
      <4> QED BY <2>1, <3>1, <4>1
    <3> QED BY <3>2
  <2> QED BY <1>4, <2>1 DEF Injection, IsInjective
<1>7. place \in Surjection(S, 1 .. N)
  <2>1. IsFiniteSet(1 .. N) /\ Cardinality(1 .. N) = N
    BY <1>1, FS_Interval
  <2> QED BY <1>6, <2>1, FS_Injection
<1>8. \A n \in 1 .. N : \E i \in S : place[i] = n
  BY <1>7 DEF Surjection
<1> DEFINE s == [n \in 1 .. N |-> CHOOSE i \in S : place[i] = n]
<1>9. \A n \in 1 .. N : s[n] \in S /\ place[s[n]] = n
  BY <1>8
<1>10. s \in [1 .. N -> S] /\ DOMAIN s = 1 .. N
  BY <1>9
<1>11. ASSUME NEW m \in 1 .. N, NEW n \in 1 .. N, m < n
       PROVE  <<s[m], s[n]>> \in order
  <2>1. s[m] \in S /\ s[n] \in S /\ place[s[m]] = m /\ place[s[n]] = n
    BY <1>9
  <2> HIDE DEF s
  <2>2. s[m] # s[n]
    BY <1>11, <2>1
  <2>3. ~(<<s[n], s[m]>> \in order)
    <3>1. CASE <<s[n], s[m]>> \in order
      <4>1. n < m
        BY <1>5, <2>1, <3>1
      <4> QED BY <1>11, <4>1
    <3> QED BY <3>1
  <2> QED BY <2>1, <2>2, <2>3
<1> HIDE DEF s, N
<1> QED BY <1>10, <1>11 DEF N

\* The sequence that Sorted chooses has every element once, in order.
LEMMA SortedRight ==
    ASSUME NEW S, IsFiniteSet(S), NEW order, StrictOrder(S, order)
    PROVE  /\ Cardinality(S) \in Nat
           /\ Sorted(S, order) \in [1 .. Cardinality(S) -> S]
           /\ \A m, n \in 1 .. Cardinality(S) :
                 m < n => <<Sorted(S, order)[m], Sorted(S, order)[n]>> \in order
           /\ \A i \in S : \E n \in 1 .. Cardinality(S) : Sorted(S, order)[n] = i
<1> DEFINE s == Sorted(S, order)
           N == Cardinality(S)
<1>1. /\ s \in [1 .. N -> S]
      /\ \A m, n \in DOMAIN s : m < n => <<s[m], s[n]>> \in order
  BY SequenceExists DEF Sorted
<1> HIDE DEF s
<1>2. N \in Nat
  BY FS_CardinalityType
<1>3. s \in Injection(1 .. N, S)
  <2>1. ASSUME NEW m \in 1 .. N, NEW n \in 1 .. N, s[m] = s[n] PROVE m = n
    <3>1. s[m] \in S /\ s[n] \in S /\ DOMAIN s = 1 .. N
      BY <1>1
    <3>2. ~(m < n) /\ ~(n < m)
      BY <1>1, <2>1, <3>1 DEF StrictOrder
    <3> QED BY <1>2, <3>2
  <2> QED BY <1>1, <2>1 DEF Injection, IsInjective
<1>4. s \in Surjection(1 .. N, S)
  <2>1. IsFiniteSet(1 .. N) /\ Cardinality(1 .. N) = N
    BY <1>2, FS_Interval
  <2> QED BY <1>3, <2>1, FS_Injection
<1>5. \A i \in S : \E n \in 1 .. N : s[n] = i
  BY <1>4 DEF Surjection
<1> QED BY <1>1, <1>2, <1>5 DEF s

\* A line of nmcli's list.
LineShape == [ssid : STRING, signal : Int, used : BOOLEAN]

LEMMA AirsAre == \A lines \in Airs \cup {<<>>} : lines \in Seq(LineShape)
<1>1. \A lines \in Airs : lines \in Seq(LineShape)
  BY BackgroundAssumption, Zenon DEF LineShape
<1>2. <<>> \in Seq(LineShape)
  OBVIOUS
<1> QED BY <1>1, <1>2

LEMMA FirstsAre ==
    ASSUME NEW lines \in Seq(LineShape)
    PROVE  /\ IsFiniteSet(Firsts(lines))
           /\ Firsts(lines) \subseteq 1 .. Len(lines)
           /\ \A i \in Firsts(lines) : lines[i] \in LineShape
           /\ \A i, j \in Firsts(lines) : i # j => lines[i].ssid # lines[j].ssid
<1>1. Firsts(lines) \subseteq 1 .. Len(lines) /\ Len(lines) \in Nat
  <2>1. DOMAIN lines = 1 .. Len(lines) /\ Len(lines) \in Nat
    OBVIOUS
  <2> QED BY <2>1, Zenon DEF Firsts
<1>2. IsFiniteSet(1 .. Len(lines))
  BY <1>1, FS_Interval
<1>3. IsFiniteSet(Firsts(lines))
  BY <1>1, <1>2, FS_Subset
<1>4. \A i \in Firsts(lines) : lines[i] \in LineShape
  BY <1>1
<1>5. ASSUME NEW i \in Firsts(lines), NEW j \in Firsts(lines), i # j
      PROVE  lines[i].ssid # lines[j].ssid
  <2>1. i \in Int /\ j \in Int /\ (i < j \/ j < i)
    BY <1>1, <1>5
  <2>2. CASE i < j
    <3>1. i \in 1 .. j - 1
      BY <1>1, <2>1, <2>2
    <3> QED BY <3>1 DEF Firsts
  <2>3. CASE j < i
    <3>1. j \in 1 .. i - 1
      BY <1>1, <2>1, <2>3
    <3> QED BY <3>1 DEF Firsts
  <2> QED BY <2>1, <2>2, <2>3
<1> QED BY <1>1, <1>3, <1>4, <1>5

LEMMA AsListedStrict ==
    ASSUME NEW lines \in Seq(LineShape)
    PROVE  StrictOrder(Firsts(lines), AsListed(lines))
<1>1. \A i \in Firsts(lines) : i \in Int
  BY FirstsAre
<1> QED BY <1>1 DEF StrictOrder, AsListed

\* a is listed before b because it is used, or stronger.
Ahead(a, b) == \/ a.used /\ ~b.used
               \/ a.used = b.used /\ a.signal > b.signal

LEMMA AheadStrict ==
    ASSUME NEW a \in LineShape, NEW b \in LineShape, NEW c \in LineShape
    PROVE  /\ Ahead(a, b) => ~Ahead(b, a)
           /\ ~Ahead(b, a) /\ ~Ahead(c, b) => ~Ahead(c, a)
           /\ Ahead(a, b) /\ ~Ahead(c, b) => Ahead(a, c)
           /\ ~Ahead(b, a) /\ Ahead(b, c) => Ahead(a, c)
           /\ ~Ahead(a, b) /\ ~Ahead(b, a) <=> a.used = b.used /\ a.signal = b.signal
<1>1. a.used \in BOOLEAN /\ b.used \in BOOLEAN /\ c.used \in BOOLEAN
  BY DEF LineShape
<1>2. a.signal \in Int /\ b.signal \in Int /\ c.signal \in Int
  BY DEF LineShape
<1> QED BY <1>1, <1>2 DEF Ahead

LEMMA RankIs ==
    ASSUME NEW lines \in Seq(LineShape), NEW i \in Firsts(lines), NEW j \in Firsts(lines)
    PROVE  <<i, j>> \in ByRank(lines) <=>
               \/ Ahead(lines[i], lines[j])
               \/ ~Ahead(lines[j], lines[i]) /\ i < j
<1>1. lines[i] \in LineShape /\ lines[j] \in LineShape
  BY FirstsAre
<1>2. <<i, j>> \in ByRank(lines) <=>
          \/ Ahead(lines[i], lines[j])
          \/ /\ lines[i].used = lines[j].used /\ lines[i].signal = lines[j].signal
             /\ i < j
  BY DEF ByRank, Ahead
<1> QED BY <1>1, <1>2, AheadStrict

LEMMA ByRankStrict ==
    ASSUME NEW lines \in Seq(LineShape)
    PROVE  StrictOrder(Firsts(lines), ByRank(lines))
<1>1. \A i \in Firsts(lines) : i \in Int /\ lines[i] \in LineShape
  BY FirstsAre
<1>2. ByRank(lines) \subseteq Firsts(lines) \X Firsts(lines)
  BY DEF ByRank
<1>3. \A i \in Firsts(lines) : <<i, i>> \notin ByRank(lines)
  BY <1>1, AheadStrict, RankIs
<1>4. ASSUME NEW i \in Firsts(lines), NEW j \in Firsts(lines), NEW k \in Firsts(lines),
             <<i, j>> \in ByRank(lines), <<j, k>> \in ByRank(lines)
      PROVE  <<i, k>> \in ByRank(lines)
  <2>1. Ahead(lines[i], lines[j]) \/ (~Ahead(lines[j], lines[i]) /\ i < j)
    BY <1>4, RankIs
  <2>2. Ahead(lines[j], lines[k]) \/ (~Ahead(lines[k], lines[j]) /\ j < k)
    BY <1>4, RankIs
  <2>3. Ahead(lines[i], lines[k]) \/ (~Ahead(lines[k], lines[i]) /\ i < k)
    BY <1>1, <2>1, <2>2, AheadStrict
  <2> QED BY <2>3, RankIs
<1>5. ASSUME NEW i \in Firsts(lines), NEW j \in Firsts(lines), i # j
      PROVE  <<i, j>> \in ByRank(lines) \/ <<j, i>> \in ByRank(lines)
  <2>1. i < j \/ j < i
    BY <1>1, <1>5
  <2> QED BY <2>1, RankIs
<1> QED BY <1>2, <1>3, <1>4, <1>5 DEF StrictOrder

\* The list has places of the set, in order and all but what comes last.
ListOf(list, lines, F, N, order, c) ==
    /\ DOMAIN list = 1 .. c /\ Len(list) = c
    /\ \A n \in 1 .. c : \E i \in F : list[n] = lines[i]
    /\ \A m, n \in 1 .. c : m < n =>
          \E i, j \in F : list[m] = lines[i] /\ list[n] = lines[j] /\ <<i, j>> \in order
    /\ \A i \in F : (\A n \in 1 .. c : list[n] # lines[i]) =>
          /\ c < N
          /\ \A n \in 1 .. c : \E j \in F : list[n] = lines[j] /\ <<j, i>> \in order

\* A list made from the first places of a sorted sequence.
LEMMA ListIs ==
    ASSUME NEW lines \in Seq(LineShape), NEW order, NEW F, F = Firsts(lines),
           StrictOrder(F, order), NEW N, N = Cardinality(F), NEW s, s = Sorted(F, order),
           NEW c \in 0 .. N, NEW list, list = [n \in 1 .. c |-> lines[s[n]]]
    PROVE  ListOf(list, lines, F, N, order, c)
<1>1. /\ N \in Nat /\ s \in [1 .. N -> F]
      /\ \A m, n \in 1 .. N : m < n => <<s[m], s[n]>> \in order
      /\ \A i \in F : \E n \in 1 .. N : s[n] = i
  BY FirstsAre, SortedRight
<1>2. DOMAIN list = 1 .. c /\ Len(list) = c
  BY <1>1
<1>3. \A n \in 1 .. c : n \in 1 .. N /\ s[n] \in F /\ list[n] = lines[s[n]]
  <2> SUFFICES ASSUME NEW n \in 1 .. c
               PROVE  n \in 1 .. N /\ s[n] \in F /\ list[n] = lines[s[n]]
    OBVIOUS
  <2>1. n \in 1 .. N
    <3>1. N \in Nat
      BY <1>1
    <3> QED BY ONLY <3>1, c \in 0 .. N, n \in 1 .. c
  <2>2. s[n] \in F
    <3>1. s \in [1 .. N -> F]
      BY <1>1
    <3> QED BY ONLY <2>1, <3>1
  <2>3. list[n] = lines[s[n]]
    BY ONLY list = [m \in 1 .. c |-> lines[s[m]]], n \in 1 .. c
  <2> QED BY <2>1, <2>2, <2>3
<1>4. \A m, n \in 1 .. c : m < n => <<s[m], s[n]>> \in order
  BY <1>1, <1>3
<1>5. ASSUME NEW i \in F, \A n \in 1 .. c : list[n] # lines[i]
      PROVE  c < N /\ \A n \in 1 .. c : <<s[n], i>> \in order
  <2>1. PICK k \in 1 .. N : s[k] = i
    BY <1>1
  <2>2. k > c
    BY <1>1, <1>3, <1>5, <2>1
  <2> QED BY <1>1, <1>3, <2>1, <2>2
<1> QED BY <1>2, <1>3, <1>4, <1>5 DEF ListOf

LEMMA PairsAre ==
    ASSUME NEW D, NEW p \in {q \in D \X D : q[1] < q[2]}
    PROVE  p[1] \in D /\ p[2] \in D /\ p[1] < p[2]
OBVIOUS

LEMMA SettingsRows ==
    ASSUME program = "settings", source \in Seq(LineShape), rows = Networks(source)
    PROVE  RowsRight
<1> DEFINE F == Firsts(source)
           N == Cardinality(F)
           order == ByRank(source)
           s == Sorted(F, order)
           c == IF MaxShown < N THEN MaxShown ELSE N
<1>1. StrictOrder(F, order)
  BY ByRankStrict
<1>2. N \in Nat /\ DOMAIN s = 1 .. N /\ MaxShown \in Nat
  BY <1>1, SortedRight, FirstsAre, BackgroundAssumption
<1>3. c \in 0 .. N /\ {m \in DOMAIN s : m <= MaxShown} = 1 .. c
      /\ (c < N => c = MaxShown)
  <2> HIDE DEF N, s
  <2> QED BY <1>2
<1>4. rows = [n \in 1 .. c |-> source[s[n]]]
  <2>1. rows = [n \in {m \in DOMAIN s : m <= MaxShown} |-> source[s[n]]]
    BY DEF Networks
  <2> HIDE DEF s, c
  <2> QED BY <1>3, <2>1
<1>5. ListOf(rows, source, F, N, order, c)
  <2>1. F = Firsts(source) /\ N = Cardinality(F) /\ s = Sorted(F, order)
    OBVIOUS
  <2> HIDE DEF F, N, s, order, c
  <2> QED BY <1>1, <1>3, <1>4, <2>1, ListIs
<1>6. /\ \A i \in F : source[i] \in LineShape /\ i \in Int
      /\ \A i, j \in F : i # j => source[i].ssid # source[j].ssid
  BY FirstsAre
<1>7. \A i, j \in F : <<i, j>> \in order => i # j /\ ~Ahead(source[j], source[i])
  <2>1. ASSUME NEW i \in F, NEW j \in F, <<i, j>> \in order
        PROVE  i # j /\ ~Ahead(source[j], source[i])
    <3>1. i # j
      BY <1>1, <2>1 DEF StrictOrder
    <3>2. Ahead(source[i], source[j]) \/ ~Ahead(source[j], source[i])
      BY <2>1, RankIs
    <3> QED BY <1>6, <3>1, <3>2, AheadStrict
  <2> QED BY <2>1
<1> HIDE DEF F, N, order, s, c
<1> DEFINE firsts == {source[i] : i \in F}
           listed == {rows[n] : n \in DOMAIN rows}
           pairs  == {p \in (DOMAIN rows) \X (DOMAIN rows) : p[1] < p[2]}
<1>8. listed \subseteq firsts
  BY <1>5 DEF ListOf
<1>9. \A m, n \in 1 .. c : m < n => /\ rows[m].ssid # rows[n].ssid
                                     /\ ~Ahead(rows[n], rows[m])
  <2>1. ASSUME NEW m \in 1 .. c, NEW n \in 1 .. c, m < n
        PROVE  rows[m].ssid # rows[n].ssid /\ ~Ahead(rows[n], rows[m])
    <3>1. \A k, l \in 1 .. c : k < l => \E i, j \in F :
              rows[k] = source[i] /\ rows[l] = source[j] /\ <<i, j>> \in order
      BY <1>5, Zenon DEF ListOf
    <3>2. \E i, j \in F :
              rows[m] = source[i] /\ rows[n] = source[j] /\ <<i, j>> \in order
      BY <2>1, <3>1
    <3>3. PICK i, j \in F :
              rows[m] = source[i] /\ rows[n] = source[j] /\ <<i, j>> \in order
      BY <3>2
    <3> QED BY <1>6, <1>7, <3>3
  <2> QED BY <2>1
<1>10. \A p \in pairs : /\ rows[p[1]].ssid # rows[p[2]].ssid
                        /\ ~Ahead(rows[p[2]], rows[p[1]])
  BY <1>5, <1>9, PairsAre DEF ListOf
<1>11. ASSUME NEW a \in firsts \ listed
       PROVE  Len(rows) = MaxShown /\ \A b \in listed : ~Ahead(a, b)
  <2>1. PICK i \in F : a = source[i]
    BY <1>11
  <2>2. \A n \in 1 .. c : rows[n] # source[i]
    BY <1>5, <1>11, <2>1 DEF ListOf
  <2>3. c < N /\ \A n \in 1 .. c : \E j \in F : rows[n] = source[j] /\ <<j, i>> \in order
    BY <1>5, <2>2 DEF ListOf
  <2>4. Len(rows) = MaxShown
    BY <1>3, <1>5, <2>3 DEF ListOf
  <2>5. \A n \in 1 .. c : ~Ahead(a, rows[n])
    BY <1>7, <2>1, <2>3
  <2>6. \A b \in listed : ~Ahead(a, b)
    BY <1>5, <2>5 DEF ListOf
  <2> QED BY <2>4, <2>6
<1> HIDE DEF firsts, listed, pairs
<1> QED BY <1>8, <1>10, <1>11, Zenon DEF RowsRight, Ahead, firsts, listed, pairs, F

LEMMA WizardRows ==
    ASSUME program = "wizard", source \in Seq(LineShape), rows = WizardNetworks(source)
    PROVE  RowsRight
<1> DEFINE F == Firsts(source)
           N == Cardinality(F)
           order == AsListed(source)
           s == Sorted(F, order)
<1>1. StrictOrder(F, order)
  BY AsListedStrict
<1>2. N \in Nat /\ DOMAIN s = 1 .. N /\ N \in 0 .. N
  BY <1>1, SortedRight, FirstsAre
<1>3. rows = [n \in 1 .. N |-> source[s[n]]]
  BY <1>2 DEF WizardNetworks
<1>4. ListOf(rows, source, F, N, order, N)
  <2>1. F = Firsts(source) /\ N = Cardinality(F) /\ s = Sorted(F, order)
    OBVIOUS
  <2> HIDE DEF F, N, s, order
  <2> QED BY <1>1, <1>2, <1>3, <2>1, ListIs
<1>5. /\ \A i, j \in F : i # j => source[i].ssid # source[j].ssid
      /\ \A i, j \in F : <<i, j>> \in order => i # j
  BY <1>1, FirstsAre DEF StrictOrder
<1>6. ~(N < N)
  BY <1>2
<1> HIDE DEF F, N, order, s
<1> DEFINE firsts == {source[i] : i \in F}
           listed == {rows[n] : n \in DOMAIN rows}
           pairs  == {p \in (DOMAIN rows) \X (DOMAIN rows) : p[1] < p[2]}
<1>7. listed = firsts
  <2>1. DOMAIN rows = 1 .. N /\ \A n \in 1 .. N : \E i \in F : rows[n] = source[i]
    BY <1>4, Zenon DEF ListOf
  <2>2. \A i \in F : \E n \in 1 .. N : rows[n] = source[i]
    BY <1>4, <1>6, Zenon DEF ListOf
  <2> QED BY <2>1, <2>2
<1>8. \A p \in pairs : rows[p[1]].ssid # rows[p[2]].ssid
  <2>1. ASSUME NEW m \in 1 .. N, NEW n \in 1 .. N, m < n
        PROVE  rows[m].ssid # rows[n].ssid
    <3>1. \A k, l \in 1 .. N : k < l => \E i, j \in F :
              rows[k] = source[i] /\ rows[l] = source[j] /\ <<i, j>> \in order
      BY <1>4, Zenon DEF ListOf
    <3>2. \E i, j \in F :
              rows[m] = source[i] /\ rows[n] = source[j] /\ <<i, j>> \in order
      BY <2>1, <3>1
    <3>3. PICK i, j \in F :
              rows[m] = source[i] /\ rows[n] = source[j] /\ <<i, j>> \in order
      BY <3>2
    <3> QED BY <1>5, <3>3
  <2> QED BY <1>4, <2>1, PairsAre DEF ListOf
<1>9. program # "settings"
  OBVIOUS
<1> HIDE DEF firsts, listed, pairs
<1> QED BY <1>7, <1>8, <1>9, Zenon DEF RowsRight, firsts, listed, pairs, F

\* The rows are always those of the lines they were made from.
Listed ==
    /\ program \in {"settings", "wizard"}
    /\ source \in Seq(LineShape)
    /\ rows = Listing(source)

LEMMA ListedRight == Listed => RowsRight
BY SettingsRows, WizardRows DEF Listed, Listing

\* Before the first scan has ended.
LEMMA NoneListed ==
    ASSUME program \in {"settings", "wizard"}, source = <<>>, rows = <<>> PROVE Listed
<1>1. program \in {"settings", "wizard"} /\ source = <<>> /\ rows = <<>>
  OBVIOUS
<1>2. source \in Seq(LineShape) /\ Firsts(source) = {}
  BY <1>1 DEF Firsts
<1>3. Cardinality(Firsts(source)) = 0
  BY <1>2, FS_EmptySet
<1>4. \A order : StrictOrder(Firsts(source), order) => DOMAIN Sorted(Firsts(source), order) = {}
  <2>1. ASSUME NEW order, StrictOrder(Firsts(source), order)
        PROVE  DOMAIN Sorted(Firsts(source), order) = {}
    <3>1. Sorted(Firsts(source), order) \in [1 .. 0 -> Firsts(source)]
      BY <1>2, <1>3, <2>1, FirstsAre, SortedRight
    <3> QED BY <3>1
  <2> QED BY <2>1
<1>5. DOMAIN Sorted(Firsts(source), ByRank(source)) = {}
      /\ DOMAIN Sorted(Firsts(source), AsListed(source)) = {}
  BY <1>2, <1>4, AsListedStrict, ByRankStrict
<1>6. Networks(source) = <<>> /\ WizardNetworks(source) = <<>>
  BY <1>5 DEF Networks, WizardNetworks
<1> QED BY <1>1, <1>2, <1>6 DEF Listed, Listing

LEMMA ListedNext == Listed /\ BackgroundInv /\ [Next]_vars => Listed'
<1> SUFFICES ASSUME Listed, BackgroundInv, [Next]_vars PROVE Listed'
  OBVIOUS
<1>1. program' = program
  BY Zenon DEF Next, vars, OnRescan, ScanStep, TimerEnds, Announces, Rescans, Lists, Fails,
     Posts, scanOnly, SelectRow, OnConnect, AttemptStep, Connects, ConnectDies, Answers,
     attemptOnly, InfoRead, OnInstallClicked, InstallTimer, installOnly, MainLoop,
     AirChanges
<1>2. ASSUME UNCHANGED <<rows, source>> PROVE Listed'
  BY <1>1, <1>2, Zenon DEF Listed, Listing, Networks, WizardNetworks
<1>3. \/ UNCHANGED <<rows, source>>
      \/ /\ queue # <<>> /\ Head(queue).do = "populate"
         /\ Populate(Head(queue).scan)
  BY Zenon DEF Next, vars, scanVars, OnRescan, ScanStep, TimerEnds, Announces, Rescans,
     Lists, Fails, Posts, scanOnly, SelectRow, OnConnect, AttemptStep, Connects,
     ConnectDies, Answers, attemptOnly, InfoRead, OnInstallClicked, InstallTimer,
     installOnly, MainLoop, AirChanges
<1>4. CASE queue # <<>> /\ Head(queue).do = "populate" /\ Populate(Head(queue).scan)
  <2>1. Head(queue).scan \in Scans
    <3>1. queue \in Seq(Callbacks)
      BY DEF BackgroundInv, ScanInv, ScanShape
    <3>2. Head(queue) \in Callbacks
      BY <1>4, <3>1
    <3> QED BY <1>4, <3>2 DEF Callbacks
  <2>2. PICK i \in Scans : i = Head(queue).scan
    BY <2>1
  <2>3. rows' = Listing(scan[i].lines) /\ source' = scan[i].lines
    BY <1>4, <2>2 DEF Populate, RowsOf
  <2>4. source' \in Seq(LineShape)
    BY <2>3, AirsAre DEF BackgroundInv, TypesLeft
  <2>5. rows' = Listing(source)'
    BY <1>1, <2>3, Zenon DEF Listing, Networks, WizardNetworks
  <2> QED BY <1>1, <2>4, <2>5 DEF Listed
<1> QED BY <1>2, <1>3, <1>4

\* For lists of any length, with any names twice, hidden or tied, and in
\* whatever order the scans end: the rows are the right ones for the list.
THEOREM RowsAreRight == Spec => []RowsRight
<1>1. Init => Listed
  BY NoneListed DEF Init
<1>2. Listed /\ BackgroundInv /\ [Next]_vars => Listed'
  BY ListedNext
<1> QED BY ListedRight, <1>1, <1>2, BackgroundInductive, PTL DEF Spec
=============================================================================
