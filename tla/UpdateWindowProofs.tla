------------------------- MODULE UpdateWindowProofs -------------------------
(***************************************************************************)
(* Proofs about UpdateWindow, for any number of windows, with and without  *)
(* the terminal widget.                                                    *)
(***************************************************************************)
EXTENDS UpdateWindow, TLAPS

Over == {"over", "unread"}

\* What a window shows agrees with its command and with the callbacks it has
\* still to run: those belong to the present command, and as long as the user
\* may start another there are none.
Agrees(r, q) ==
    /\ ~r.open => q = <<>>
    /\ q # <<>> => r.stage \in Over /\ \A i \in DOMAIN q : q[i] = r.result
    /\ r.command = "check" <=> r.checkOnly
    /\ r.checkOnly => r.handlers <= 1 /\ Len(q) <= 1
    /\ r.updateNow => r.checkOnly /\ q = <<>> /\ r.stage \in Over
    /\ r.close \/ (r.open /\ ~r.pulsing) => r.stage \in Over
    /\ r.title = "update complete" \/ r.reboot
         => ~r.checkOnly /\ r.stage = "over" /\ r.result
    /\ r.title \in {"update errors", "check errors"}
         => r.stage \in Over /\ ~r.result
    /\ r.stage = "unread" => ~r.result
AgreeInv == \A w \in Windows : Agrees(win[w], posted[w])

---------------------------------------------------------------------------
\* With nothing queued.
Settled(r) ==
    /\ r.command = "check" <=> r.checkOnly
    /\ r.checkOnly => r.handlers <= 1
    /\ r.updateNow => r.checkOnly /\ r.stage \in Over
    /\ r.close \/ (r.open /\ ~r.pulsing) => r.stage \in Over
    /\ r.title = "update complete" \/ r.reboot
         => ~r.checkOnly /\ r.stage = "over" /\ r.result
    /\ r.title \in {"update errors", "check errors"}
         => r.stage \in Over /\ ~r.result
    /\ r.stage = "unread" => ~r.result

LEMMA SettledAgrees ==
    ASSUME NEW r
    PROVE  Settled(r) <=> Agrees(r, <<>>)
<1>1. Len(<<>>) = 0 /\ DOMAIN <<>> = {}
  OBVIOUS
<1> QED BY <1>1 DEF Settled, Agrees

\* A step changes one window.
LEMMA OneWindow ==
    ASSUME UpdateTypeOK, AgreeInv, NEW w \in Windows,
           NEW r \in Window, NEW q \in Seq(BOOLEAN),
           win' = [win EXCEPT ![w] = r], posted' = [posted EXCEPT ![w] = q],
           vte' = vte, primary' \in Modes \cup {"none"}, Agrees(r, q)
    PROVE  UpdateTypeOK' /\ AgreeInv'
<1>1. win' \in [Windows -> Window] /\ posted' \in [Windows -> Seq(BOOLEAN)]
  BY DEF UpdateTypeOK
<1>2. ASSUME NEW u \in Windows PROVE Agrees(win'[u], posted'[u])
  <2>1. CASE u = w
    BY <2>1 DEF UpdateTypeOK
  <2>2. CASE u # w
    BY <2>2 DEF UpdateTypeOK, AgreeInv
  <2> QED BY <2>1, <2>2
<1> QED BY <1>1, <1>2 DEF UpdateTypeOK, AgreeInv

\* What starting a command makes of a window.
LEMMA StartFacts ==
    ASSUME vte \in BOOLEAN, NEW r \in Window, NEW mode \in Modes
    PROVE  LET s == Start(r, mode)
           IN  /\ s \in Window
               /\ s.command = mode /\ s.stage = "starting" /\ s.pulsing = TRUE
               /\ s.handlers = r.handlers \/ s.handlers = r.handlers + 1
               /\ s.open = r.open /\ s.checkOnly = r.checkOnly
               /\ s.title = r.title /\ s.updateNow = r.updateNow
               /\ s.close = r.close /\ s.reboot = r.reboot
               /\ s.result = r.result
<1> DEFINE h == IF vte THEN r.handlers + 1 ELSE r.handlers
<1>1. h \in Nat /\ (h = r.handlers \/ h = r.handlers + 1)
  BY DEF Window
<1>2. Start(r, mode) = [r EXCEPT !.command = mode, !.stage = "starting",
                                 !.pulsing = TRUE, !.handlers = h]
  BY DEF Start
<1> HIDE DEF h
<1>3. Start(r, mode) \in Window
  BY <1>1, <1>2 DEF Window, Stages
<1> QED BY <1>1, <1>2, <1>3 DEF Window

\* The initial state agrees.
LEMMA InitAgrees == ASSUME UpdateInit PROVE UpdateTypeOK /\ AgreeInv
<1>1. Unopened \in Window
  BY DEF Unopened, Window, Modes, Titles, Stages
<1>2. Agrees(Unopened, <<>>)
  <2>1. Settled(Unopened)
    BY DEF Unopened, Settled, Over
  <2> QED BY <2>1, SettledAgrees
<1> QED BY <1>1, <1>2 DEF UpdateInit, UpdateTypeOK, AgreeInv

\* Every step preserves the types and the agreement.
LEMMA UpdateStep ==
    ASSUME UpdateTypeOK, AgreeInv, [UpdateNext]_updateVars
    PROVE  UpdateTypeOK' /\ AgreeInv'
<1> USE DEF UpdateTypeOK
<1>1. CASE UNCHANGED updateVars
  BY <1>1 DEF updateVars, AgreeInv, Agrees
<1>2. ASSUME NEW w \in Windows, NEW asked \in Modes, Launch(w, asked)
      PROVE  UpdateTypeOK' /\ AgreeInv'
  <2> DEFINE c == primary' = "check"
             b == [Unopened EXCEPT
                       !.open = TRUE, !.checkOnly = c,
                       !.title = IF c THEN "checking" ELSE "updating"]
             m == IF c THEN "check" ELSE "update"
             r == Start(b, m)
  <2>1. /\ win[w] = Unopened /\ win' = [win EXCEPT ![w] = r]
        /\ posted' = [posted EXCEPT ![w] = <<>>] /\ vte' = vte
        /\ primary' \in Modes \cup {"none"} /\ posted[w] = <<>>
    <3>1. Agrees(win[w], posted[w]) /\ ~win[w].open
      <4>1. win[w] = Unopened
        BY <1>2 DEF Launch
      <4>2. ~Unopened.open
        BY DEF Unopened
      <4> QED BY <4>1, <4>2 DEF AgreeInv
    <3>2. posted[w] = <<>>
      BY <3>1 DEF Agrees
    <3> QED BY <1>2, <3>2 DEF Launch, NewWindow
  <2>2. /\ b \in Window /\ b.checkOnly = c /\ b.handlers = 0
        /\ b.updateNow = FALSE /\ b.close = FALSE /\ b.reboot = FALSE
        /\ b.title \in {"checking", "updating"} /\ b.open = TRUE
    BY DEF Unopened, Window, Modes, Titles, Stages
  <2>3. m \in Modes /\ (m = "check" <=> c)
    BY DEF Modes
  <2> HIDE DEF b, m, c
  <2>4. /\ r \in Window /\ r.command = m /\ r.stage = "starting"
        /\ r.pulsing = TRUE /\ (r.handlers = 0 \/ r.handlers = 1)
        /\ r.open = TRUE /\ r.checkOnly = c /\ r.title = b.title
        /\ r.updateNow = FALSE /\ r.close = FALSE /\ r.reboot = FALSE
    <3>1. vte \in BOOLEAN
      OBVIOUS
    <3>2. /\ r \in Window /\ r.command = m /\ r.stage = "starting"
          /\ r.pulsing = TRUE
          /\ r.handlers = b.handlers \/ r.handlers = b.handlers + 1
          /\ r.open = b.open /\ r.checkOnly = b.checkOnly
          /\ r.title = b.title /\ r.updateNow = b.updateNow
          /\ r.close = b.close /\ r.reboot = b.reboot
      BY <2>2, <2>3, <3>1, StartFacts
    <3> HIDE DEF r
    <3> QED BY <2>2, <3>2
  <2>7. c \in BOOLEAN
    BY DEF c
  <2> HIDE DEF r
  <2>5. Settled(r)
    <3>1. r.command = "check" <=> r.checkOnly
      <4>1. CASE c = TRUE
        BY <2>3, <2>4, <4>1
      <4>2. CASE c = FALSE
        BY <2>3, <2>4, <4>2
      <4> QED BY <2>7, <4>1, <4>2
    <3>2. r.title \notin {"update complete", "update errors", "check errors"}
      BY <2>2, <2>4
    <3>3. r.handlers <= 1
      BY <2>4
    <3> QED BY <2>4, <3>1, <3>2, <3>3 DEF Settled
  <2>6. Agrees(r, <<>>) /\ <<>> \in Seq(BOOLEAN)
    BY <2>5, SettledAgrees
  <2> QED BY <2>1, <2>4, <2>6, OneWindow
<1>3. ASSUME NEW w \in Windows, UpdateNow(w)
      PROVE  UpdateTypeOK' /\ AgreeInv'
  <2> DEFINE b == [win[w] EXCEPT
                       !.checkOnly = FALSE, !.updateNow = FALSE,
                       !.close = FALSE, !.reboot = FALSE,
                       !.title = "updating"]
             r == Start(b, "update")
  <2>1. /\ win[w].updateNow /\ win' = [win EXCEPT ![w] = r]
        /\ posted' = [posted EXCEPT ![w] = <<>>] /\ vte' = vte
        /\ primary' = primary
    <3>1. win[w].updateNow /\ posted[w] = <<>>
      BY <1>3 DEF UpdateNow, AgreeInv, Agrees
    <3> QED BY <1>3, <3>1 DEF UpdateNow
  <2>2. /\ b \in Window /\ b.checkOnly = FALSE /\ b.updateNow = FALSE
        /\ b.close = FALSE /\ b.reboot = FALSE /\ b.title = "updating"
    BY DEF Window, Titles
  <2>3. "update" \in Modes
    BY DEF Modes
  <2> HIDE DEF b
  <2>4. /\ r \in Window /\ r.command = "update" /\ r.stage = "starting"
        /\ r.pulsing = TRUE /\ r.checkOnly = FALSE /\ r.updateNow = FALSE
        /\ r.close = FALSE /\ r.reboot = FALSE /\ r.title = "updating"
    BY <2>2, <2>3, StartFacts
  <2> HIDE DEF r
  <2>5. Settled(r)
    BY <2>4 DEF Settled, Over
  <2>6. Agrees(r, <<>>) /\ <<>> \in Seq(BOOLEAN)
    BY <2>5, SettledAgrees
  <2> QED BY <2>1, <2>4, <2>6, OneWindow
<1>4. ASSUME NEW w \in Windows, Closes(w) PROVE UpdateTypeOK' /\ AgreeInv'
  <2> DEFINE r == [win[w] EXCEPT !.open = FALSE]
  <2>1. /\ win' = [win EXCEPT ![w] = r] /\ posted' = [posted EXCEPT ![w] = <<>>]
        /\ vte' = vte /\ primary' \in Modes \cup {"none"}
    BY <1>4 DEF Closes
  <2>2. /\ r \in Window /\ r.open = FALSE
        /\ r.checkOnly = win[w].checkOnly
        /\ r.command = win[w].command
        /\ r.stage = win[w].stage
        /\ r.handlers = win[w].handlers
        /\ r.updateNow = win[w].updateNow
        /\ r.close = win[w].close
        /\ r.reboot = win[w].reboot
        /\ r.title = win[w].title
        /\ r.result = win[w].result
        /\ r.pulsing = win[w].pulsing
    BY DEF Window
  <2>3. Agrees(win[w], posted[w])
    BY DEF AgreeInv
  <2> HIDE DEF r
  <2>4. Settled(r)
    BY <2>2, <2>3 DEF Agrees, Settled, Over
  <2>5. Agrees(r, <<>>) /\ <<>> \in Seq(BOOLEAN)
    BY <2>4, SettledAgrees
  <2> QED BY <2>1, <2>2, <2>5, OneWindow
<1>5. ASSUME NEW w \in Windows, Spawned(w) PROVE UpdateTypeOK' /\ AgreeInv'
  <2> DEFINE r == [win[w] EXCEPT !.stage = "running"]
  <2>1. /\ win[w].stage = "starting" /\ win' = [win EXCEPT ![w] = r]
        /\ posted' = [posted EXCEPT ![w] = posted[w]]
        /\ vte' = vte /\ primary' = primary
    BY <1>5 DEF Spawned
  <2>2. /\ r \in Window /\ r.stage = "running"
        /\ r.open = win[w].open
        /\ r.checkOnly = win[w].checkOnly
        /\ r.command = win[w].command
        /\ r.handlers = win[w].handlers
        /\ r.updateNow = win[w].updateNow
        /\ r.close = win[w].close
        /\ r.reboot = win[w].reboot
        /\ r.title = win[w].title
        /\ r.result = win[w].result
        /\ r.pulsing = win[w].pulsing
    BY DEF Window, Stages
  <2>3. Agrees(win[w], posted[w])
    BY DEF AgreeInv
  <2> HIDE DEF r
  <2>4. Agrees(r, posted[w])
    BY <2>1, <2>2, <2>3 DEF Agrees, Over
  <2> QED BY <2>1, <2>2, <2>4, OneWindow
<1>6. ASSUME NEW w \in Windows, NEW s \in Over, NEW success \in BOOLEAN,
             NEW n \in Nat, win[w].stage \in {"starting", "running"},
             s = "unread" => ~success, win[w].checkOnly => n <= 1,
             win' = [win EXCEPT ![w].stage = s, ![w].result = success],
             Post(w, n, success), UNCHANGED <<vte, primary>>
      PROVE  UpdateTypeOK' /\ AgreeInv'
  <2> DEFINE r == [win[w] EXCEPT !.stage = s, !.result = success]
             q == IF win[w].open THEN posted[w] \o [i \in 1 .. n |-> success]
                                 ELSE posted[w]
  <2>1. /\ win' = [win EXCEPT ![w] = r] /\ posted' = [posted EXCEPT ![w] = q]
        /\ vte' = vte /\ primary' = primary
    BY <1>6 DEF Post
  <2>2. /\ r \in Window /\ r.stage = s /\ r.result = success
        /\ r.open = win[w].open
        /\ r.checkOnly = win[w].checkOnly
        /\ r.command = win[w].command
        /\ r.handlers = win[w].handlers
        /\ r.updateNow = win[w].updateNow
        /\ r.close = win[w].close
        /\ r.reboot = win[w].reboot
        /\ r.title = win[w].title
        /\ r.pulsing = win[w].pulsing
    BY <1>6 DEF Window, Stages, Over
  <2>3. Agrees(win[w], posted[w])
    BY DEF AgreeInv
  <2>4. posted[w] = <<>>
    BY <1>6, <2>3 DEF Agrees, Over
  <2>5. /\ q \in Seq(BOOLEAN) /\ \A i \in DOMAIN q : q[i] = success
        /\ Len(q) <= n /\ (~win[w].open => q = <<>>)
    <3>1. [i \in 1 .. n |-> success] \in Seq(BOOLEAN)
      OBVIOUS
    <3>2. \/ ~win[w].open /\ q = <<>>
          \/ win[w].open /\ q = [i \in 1 .. n |-> success]
      BY <2>4, <3>1
    <3> HIDE DEF q
    <3>3. CASE q = <<>>
      BY <1>6, <3>3
    <3>4. CASE win[w].open /\ q = [i \in 1 .. n |-> success]
      BY <1>6, <3>1, <3>4
    <3> QED BY <3>2, <3>3, <3>4
  <2> HIDE DEF r, q
  <2>6. Agrees(r, q)
    <3>1. /\ win[w].command = "check" <=> win[w].checkOnly
          /\ win[w].checkOnly => win[w].handlers <= 1
          /\ ~win[w].updateNow /\ ~win[w].close
          /\ win[w].open => win[w].pulsing
          /\ win[w].title \notin {"update complete", "update errors",
                                  "check errors"}
          /\ ~win[w].reboot
      BY <1>6, <2>3 DEF Agrees, Over
    <3>2. win[w].checkOnly => Len(q) <= 1
      BY <1>6, <2>5
    <3>3. s \in Over
      BY <1>6
    <3> QED BY <1>6, <2>2, <2>5, <3>1, <3>2, <3>3 DEF Agrees
  <2> QED BY <2>1, <2>2, <2>5, <2>6, OneWindow
<1>7. ASSUME NEW w \in Windows, SpawnFails(w) \/ ReadFails(w)
      PROVE  UpdateTypeOK' /\ AgreeInv'
  <2>1. /\ win[w].stage \in {"starting", "running"}
        /\ \E s \in Over :
              win' = [win EXCEPT ![w].stage = s, ![w].result = FALSE]
        /\ Post(w, 1, FALSE) /\ UNCHANGED <<vte, primary>>
    BY <1>7 DEF SpawnFails, ReadFails, Over
  <2>2. PICK s \in Over : win' = [win EXCEPT ![w].stage = s, ![w].result = FALSE]
    BY <2>1
  <2>3. FALSE \in BOOLEAN /\ 1 \in Nat /\ (s = "unread" => ~FALSE) /\ 1 <= 1
    OBVIOUS
  <2> QED BY <1>6, <2>1, <2>2, <2>3
<1>8. ASSUME NEW w \in Windows, NEW success \in BOOLEAN, Exits(w, success)
      PROVE  UpdateTypeOK' /\ AgreeInv'
  <2> DEFINE n == IF vte THEN win[w].handlers ELSE 1
  <2>1. n \in Nat /\ (win[w].checkOnly => n <= 1)
    <3>1. Agrees(win[w], posted[w]) /\ win[w].handlers \in Nat
      BY DEF Window, AgreeInv
    <3>2. win[w].checkOnly => win[w].handlers <= 1
      BY <3>1 DEF Agrees
    <3> QED BY <3>1, <3>2
  <2>2. /\ win[w].stage = "running"
        /\ win' = [win EXCEPT ![w].stage = "over", ![w].result = success]
        /\ Post(w, n, success) /\ UNCHANGED <<vte, primary>>
    BY <1>8 DEF Exits
  <2> HIDE DEF n
  <2> QED BY <1>6, <2>1, <2>2 DEF Over
<1>9. ASSUME NEW w \in Windows, Finish(w) PROVE UpdateTypeOK' /\ AgreeInv'
  <2> DEFINE s == Head(posted[w])
             r == Finished(win[w], s)
             q == Tail(posted[w])
  <2>1. /\ posted[w] # <<>> /\ win' = [win EXCEPT ![w] = r]
        /\ posted' = [posted EXCEPT ![w] = q] /\ vte' = vte /\ primary' = primary
    BY <1>9 DEF Finish
  <2>2. Agrees(win[w], posted[w])
    BY DEF AgreeInv
  <2>3. /\ s = win[w].result /\ q \in Seq(BOOLEAN) /\ Len(q) = Len(posted[w]) - 1
        /\ \A i \in DOMAIN q : q[i] = win[w].result
        /\ Len(posted[w]) <= 1 => q = <<>>
    <3>1. /\ \A i \in DOMAIN posted[w] : posted[w][i] = win[w].result
          /\ posted[w] \in Seq(BOOLEAN)
      BY <2>1, <2>2 DEF Agrees
    <3>2. /\ q \in Seq(BOOLEAN) /\ Len(q) = Len(posted[w]) - 1
          /\ \A i \in 1 .. Len(q) : q[i] = posted[w][i + 1]
      BY <2>1, <3>1
    <3>3. Len(posted[w]) <= 1 => q = <<>>
      BY <3>1, <3>2, <2>1
    <3>4. s = win[w].result
      BY <2>1, <3>1
    <3>5. \A i \in DOMAIN q : q[i] = win[w].result
      BY <2>1, <3>1, <3>2
    <3> QED BY <3>2, <3>3, <3>4, <3>5
  <2>4. win[w].open /\ win[w].stage \in Over
    BY <2>1, <2>2 DEF Agrees
  <2>5. /\ r \in Window /\ r.pulsing = FALSE /\ r.close = TRUE
        /\ r.open = win[w].open /\ r.checkOnly = win[w].checkOnly
        /\ r.command = win[w].command /\ r.stage = win[w].stage
        /\ r.handlers = win[w].handlers /\ r.result = win[w].result
        /\ r.title = IF win[w].checkOnly
                     THEN IF s THEN "check complete" ELSE "check errors"
                     ELSE IF s THEN "update complete" ELSE "update errors"
        /\ r.updateNow = (win[w].updateNow \/ (win[w].checkOnly /\ s))
        /\ r.reboot = (win[w].reboot \/ (~win[w].checkOnly /\ s))
    <3>1. s \in BOOLEAN /\ win[w] \in Window
      BY <2>3 DEF Window
    <3>2. CASE win[w].checkOnly
      BY <3>1, <3>2 DEF Finished, Window, Titles
    <3>3. CASE ~win[w].checkOnly
      BY <3>1, <3>3 DEF Finished, Window, Titles
    <3> QED BY <3>2, <3>3
  <2> HIDE DEF r, q, s
  <2>6. Agrees(r, q)
    <3>1. /\ win[w].command = "check" <=> win[w].checkOnly
          /\ win[w].checkOnly =>
                 win[w].handlers <= 1 /\ Len(posted[w]) <= 1
          /\ ~win[w].updateNow
          /\ win[w].reboot => ~win[w].checkOnly /\ win[w].stage = "over"
                               /\ win[w].result
          /\ win[w].stage = "unread" => ~win[w].result
      BY <2>1, <2>2 DEF Agrees
    <3>2. /\ win[w].checkOnly => q = <<>> /\ Len(q) <= 1
          /\ s \in BOOLEAN /\ win[w].checkOnly \in BOOLEAN
      <4>1. win[w].checkOnly => q = <<>>
        BY <2>3, <3>1
      <4>2. Len(<<>>) = 0
        OBVIOUS
      <4> QED BY <2>3, <4>1, <4>2 DEF Window
    <3>3. CASE win[w].checkOnly
      BY <2>3, <2>4, <2>5, <3>1, <3>2, <3>3 DEF Agrees, Over
    <3>4. CASE ~win[w].checkOnly
      BY <2>3, <2>4, <2>5, <3>1, <3>2, <3>4 DEF Agrees, Over
    <3> QED BY <3>3, <3>4
  <2> QED BY <2>1, <2>3, <2>5, <2>6, OneWindow
<1> QED
  BY <1>1, <1>2, <1>3, <1>4, <1>5, <1>7, <1>8, <1>9 DEF UpdateNext, User, Command

\* Types and agreement hold in every reachable state.
THEOREM UpdateInductive == UpdateSpec => [](UpdateTypeOK /\ AgreeInv)
<1>1. UpdateInit => UpdateTypeOK /\ AgreeInv
  BY InitAgrees
<1>2. UpdateTypeOK /\ AgreeInv /\ [UpdateNext]_updateVars => UpdateTypeOK' /\ AgreeInv'
  BY UpdateStep
<1> QED BY <1>1, <1>2, PTL DEF UpdateSpec

\* Type correctness of the windows and the callbacks they have queued.
THEOREM UpdateTypes == UpdateSpec => []UpdateTypeOK
BY UpdateInductive, PTL

LEMMA AgreeCloses == AgreeInv => CloseMeansOver
BY DEF AgreeInv, Agrees, CloseMeansOver, Over

LEMMA AgreeTells == UpdateTypeOK /\ AgreeInv => BannerTells
<1> SUFFICES ASSUME UpdateTypeOK, AgreeInv, NEW w \in Windows
             PROVE  /\ win[w].title = "update complete" \/ win[w].reboot
                         => /\ win[w].command = "update"
                            /\ win[w].stage = "over" /\ win[w].result
                    /\ win[w].title \in {"update errors", "check errors"}
                         => ~win[w].result
  BY DEF BannerTells
<1>1. Agrees(win[w], posted[w]) /\ win[w].command \in Modes
  BY DEF AgreeInv, UpdateTypeOK, Window
<1> QED BY <1>1 DEF Agrees, Modes

\* For any number of windows: one offers to be closed only when its command is
\* over, though every start connects one more handler, so that one exit is
\* told several times (_start_update, _on_child_exited).
THEOREM CloseIsOver == UpdateSpec => []CloseMeansOver
BY AgreeCloses, UpdateInductive, PTL

\* Nor do the banner and the reboot button ever speak of another command than
\* the window's last (_finish).
THEOREM BannerIsRight == UpdateSpec => []BannerTells
BY AgreeTells, UpdateInductive, PTL
=============================================================================
