--------------------------- MODULE WindowTouch_proof ---------------------------
(***************************************************************************)
(* Proofs about WindowTouch and the WindowTransition it extends, for any   *)
(* visibilities, either behaviour of the engine, and a queue of any size.  *)
(***************************************************************************)
EXTENDS WindowTouch, TLAPS

(* What every operator on the state of the window preserves. *)
OneRuns(s) ==
  /\ s.unknown = 0
  /\ s.anim # "none" => s.alive /\ s.animRunning /\ s.status = "starting"

Good(s) == s \in WindowStates /\ OneRuns(s)

(* What the app knows, or will know from the last message of the queue. *)
Heard ==
  ~cut /\ ~ended =>
    /\ queue = << >> => appPressed = pressing
    /\ queue # << >> => (queue[Len(queue)] = "pressed") = pressing

IInv == TypeOK /\ OneRuns(win) /\ Heard

-----------------------------------------------------------------------------
(* The operators on the state of the window *)

LEMMA Destroyed ==
  ASSUME NEW s, Good(s)
  PROVE  /\ Good(DestroySurface(s))
         /\ DestroySurface(s).anim = s.anim /\ DestroySurface(s).alive = s.alive
BY ZenonT(30) DEF Good, OneRuns, DestroySurface, WindowStates

LEMMA RemovedNow ==
  ASSUME NEW s, Good(s)
  PROVE  /\ Good(RemoveImmediately(s))
         /\ RemoveImmediately(s).anim = s.anim /\ RemoveImmediately(s).alive = s.alive
<1> DEFINE marked == [s EXCEPT !.removed = TRUE]
<1>1. Good(marked) /\ marked.anim = s.anim /\ marked.alive = s.alive
  BY DEF Good, OneRuns, WindowStates
<1> HIDE DEF marked
<1>2. /\ Good(DestroySurface(marked))
      /\ DestroySurface(marked).anim = s.anim /\ DestroySurface(marked).alive = s.alive
  BY <1>1, Destroyed
<1>3. RemoveImmediately(s) \in {s, DestroySurface(marked)}
  BY DEF RemoveImmediately, marked
<1>4. QED
  BY <1>2, <1>3

LEMMA RemovedOrWaits ==
  ASSUME NEW s, Good(s)
  PROVE  /\ Good(RemoveIfPossible(s))
         /\ RemoveIfPossible(s).anim = s.anim /\ RemoveIfPossible(s).alive = s.alive
<1> DEFINE flagged == [s EXCEPT !.allowRemoving = TRUE]
<1>1. Good(flagged) /\ flagged.anim = s.anim /\ flagged.alive = s.alive
  BY DEF Good, OneRuns, WindowStates
<1> HIDE DEF flagged
<1>2. /\ Good(RemoveImmediately(flagged))
      /\ RemoveImmediately(flagged).anim = s.anim /\ RemoveImmediately(flagged).alive = s.alive
  BY <1>1, RemovedNow
<1>3. RemoveIfPossible(s) \in {flagged, RemoveImmediately(flagged)}
  BY DEF RemoveIfPossible, flagged
<1>4. QED
  BY <1>1, <1>2, <1>3

LEMMA Dispatched ==
  ASSUME NEW s, Good(s), NEW call \in {"show", "hide"}
  PROVE  /\ Good(DispatchAppVisibility(s, call))
         /\ DispatchAppVisibility(s, call).anim = s.anim
         /\ DispatchAppVisibility(s, call).alive = s.alive
<1>1. Append(s.out, call) \in Seq({"show", "hide"})
  BY DEF Good, WindowStates
<1>2. QED
  BY <1>1 DEF Good, OneRuns, DispatchAppVisibility, WindowStates

LEMMA Finished ==
  ASSUME NEW s, Good(s), s.anim = "none"
  PROVE  /\ Good(OnAnimationFinished(s))
         /\ OnAnimationFinished(s).anim = "none" /\ OnAnimationFinished(s).alive = s.alive
<1> DEFINE over == [s EXCEPT !.animRunning = FALSE, !.status = "finished"]
           known == IF s.visibility # "visible" THEN DispatchAppVisibility(over, "hide") ELSE over
<1>1. Good(over) /\ over.anim = "none" /\ over.alive = s.alive
  BY DEF Good, OneRuns, WindowStates
<1> HIDE DEF over
<1>2. Good(known) /\ known.anim = "none" /\ known.alive = s.alive
  BY <1>1, Dispatched
<1> HIDE DEF known
<1>3. OnAnimationFinished(s) \in {known, RemoveIfPossible(known)}
  BY DEF OnAnimationFinished, known, over
<1>4. QED
  BY <1>2, <1>3, RemovedOrWaits

(* Whatever ran, and whether or not it reports its end, nothing runs after this. *)
LEMMA Stopped ==
  ASSUME NEW s, Good(s), NEW reports
  PROVE  /\ Good(StopRunning(s, reports))
         /\ StopRunning(s, reports).anim = "none" /\ StopRunning(s, reports).alive = s.alive
<1> DEFINE stopped == [s EXCEPT !.anim = "none"]
<1>1. Good(stopped) /\ stopped.anim = "none" /\ stopped.alive = s.alive
  BY DEF Good, OneRuns, WindowStates
<1>2. CancelAnimation(s, reports) \in {stopped, OnAnimationFinished(stopped)}
  BY DEF CancelAnimation
<1> HIDE DEF stopped
<1>3. /\ Good(CancelAnimation(s, reports))
      /\ CancelAnimation(s, reports).anim = "none" /\ CancelAnimation(s, reports).alive = s.alive
  BY <1>1, <1>2, Finished
<1>4. CASE s.animRunning
  BY <1>3, <1>4 DEF StopRunning
<1>5. CASE ~s.animRunning
  <2>1. s.anim = "none"
    BY <1>5 DEF Good, OneRuns
  <2>2. QED
    BY <1>5, <2>1 DEF StopRunning
<1>6. QED
  BY <1>4, <1>5

LEMMA Started ==
  ASSUME NEW s, Good(s), s.anim = "none", s.alive, NEW a \in Animations
  PROVE  Good(StartAnimation(s, a)) /\ StartAnimation(s, a).alive = s.alive
BY DEF Good, OneRuns, StartAnimation, WindowStates, Animations

LEMMA Sent ==
  ASSUME NEW s, Good(s), s.alive, NEW v \in {"visible", "hold", "gone"}, NEW reports
  PROVE  Good(SendAppVisibilityToClients(s, v, reports))
<1> DEFINE stopped == StopRunning(s, reports)
           now == [stopped EXCEPT !.visibility = v]
<1>1. Good(stopped) /\ stopped.anim = "none" /\ stopped.alive
  BY Stopped
<1>2. now = [StopRunning(s, reports) EXCEPT !.visibility = v]
  OBVIOUS
<1> HIDE DEF stopped
<1>3. Good(now) /\ now.anim = "none" /\ now.alive
  BY <1>1 DEF Good, OneRuns, WindowStates
<1>4. SendAppVisibilityToClients(s, v, reports) \in
        {s, now, DispatchAppVisibility(now, "show"), StartAnimation(now, "exit")}
  BY <1>2 DEF SendAppVisibilityToClients
<1> HIDE DEF now
<1>5. QED
  BY <1>3, <1>4, Dispatched, Started DEF Animations

LEMMA Applied ==
  ASSUME NEW s, Good(s), s.alive, NEW buffer, NEW reports
  PROVE  Good(ApplyTransaction(s, buffer, reports))
<1> DEFINE unwaiting == [s EXCEPT !.frameWaiting = FALSE]
           stopped == StopRunning(unwaiting, reports)
           begun == IF s.frameWaiting THEN StartAnimation(stopped, "enter") ELSE s
           shows == buffer = "new"
           next == [begun EXCEPT !.shown = shows]
<1>1. Good(unwaiting) /\ unwaiting.alive
  BY DEF Good, OneRuns, WindowStates
<1>2. ApplyTransaction(s, buffer, reports) \in {s, begun, next}
  BY DEF ApplyTransaction
<1> HIDE DEF unwaiting
<1>3. Good(stopped) /\ stopped.anim = "none" /\ stopped.alive
  BY <1>1, Stopped
<1> HIDE DEF stopped
<1>4. Good(begun)
  BY <1>3, Started DEF Animations
<1>5. shows \in BOOLEAN
  OBVIOUS
<1> HIDE DEF begun, shows
<1>6. Good(next)
  BY <1>4, <1>5 DEF Good, OneRuns, WindowStates
<1>7. QED
  BY <1>2, <1>4, <1>6

LEMMA DeletedGood ==
  ASSUME NEW s, Good(s)
  PROVE  Good(Deleted(s))
<1>1. s.anim # "none" => s.status # "finished"
  BY DEF Good, OneRuns
<1>2. s.unknown = 0
  BY DEF Good, OneRuns
<1> DEFINE a == IF s.status # "finished" THEN "none" ELSE s.anim
<1>3. a = "none"
  BY <1>1
<1>4. Deleted(s) = [s EXCEPT !.alive = FALSE, !.shown = FALSE, !.anim = "none"]
  BY <1>3 DEF Deleted
<1>5. QED
  BY <1>2, <1>4 DEF Good, OneRuns, WindowStates

-----------------------------------------------------------------------------
(* Steps *)

LEMMA BecomesTyped ==
  ASSUME TransitionTypeOK, NEW s, Good(s), Becomes(s)
  PROVE  /\ win' \in WindowStates /\ OneRuns(win)' /\ win'.out = << >> /\ win'.alive = s.alive
         /\ told' \in {"show", "hide"} /\ toApp' \in Seq({"show", "hide"})
<1>1. win' = [s EXCEPT !.out = << >>]
  BY DEF Becomes
<1>2. /\ win' \in WindowStates /\ win'.out = << >> /\ win'.alive = s.alive
      /\ win'.unknown = s.unknown /\ win'.anim = s.anim /\ win'.animRunning = s.animRunning
      /\ win'.status = s.status
  <2>1. << >> \in Seq({"show", "hide"}) /\ s \in WindowStates
    BY DEF Good
  <2>2. win' \in WindowStates
    BY <1>1, <2>1 DEF WindowStates
  <2>3. QED
    BY <1>1, <2>1, <2>2 DEF WindowStates
<1>3. OneRuns(win)'
  BY <1>2 DEF Good, OneRuns
<1>4. s.out \in Seq({"show", "hide"})
  BY DEF Good, WindowStates
<1>5. told' \in {"show", "hide"}
  BY <1>4 DEF Becomes, TransitionTypeOK
<1>6. toApp' \in Seq({"show", "hide"})
  BY <1>4 DEF Becomes, TransitionTypeOK
<1>7. QED
  BY <1>2, <1>3, <1>5, <1>6

LEMMA AgedTyped ==
  ASSUME NEW frames \in Seq({"new", "old"}), NEW s
  PROVE  Aged(frames, s) \in Seq({"new", "old"})
BY DEF Aged

LEMMA TransitionStep ==
  ASSUME TransitionTypeOK, OneRuns(win), TransitionNext
  PROVE  TransitionTypeOK' /\ OneRuns(win)' /\ (ended => ended')
<1> USE DEF tokenVars, appVars
<1>1. Good(win)
  BY DEF Good, TransitionTypeOK
<1>2. ASSUME NEW s, Good(s), Becomes(s)
      PROVE  /\ win' \in WindowStates /\ OneRuns(win)' /\ win'.out = << >>
             /\ told' \in {"show", "hide"} /\ toApp' \in Seq({"show", "hide"})
  BY <1>2, BecomesTyped
<1>3. ASSUME UNCHANGED <<win, told, toApp>>
      PROVE  /\ win' \in WindowStates /\ OneRuns(win)' /\ win'.out = << >>
             /\ told' \in {"show", "hide"} /\ toApp' \in Seq({"show", "hide"})
  BY <1>3 DEF TransitionTypeOK, OneRuns
<1>4. ASSUME NEW v \in Visibilities, UpdateTokenVisibility(v)
      PROVE  TransitionTypeOK' /\ OneRuns(win)' /\ (ended => ended')
  <2>1. tokenVisibility' \in {"visible", "hold", "gone", "removed"} /\ updates' \in 0 .. MaxUpdates
    BY <1>4, TransitionAssumption DEF UpdateTokenVisibility, TransitionTypeOK
  <2>2. CASE win.alive
    <3>1. PICK reports \in Reports :
            /\ Becomes(SendAppVisibilityToClients(win, v, reports))
            /\ toServer' = Aged(toServer, SendAppVisibilityToClients(win, v, reports))
      BY <1>4, <2>2 DEF UpdateTokenVisibility
    <3>2. Good(SendAppVisibilityToClients(win, v, reports))
      BY <1>1, <2>2, Sent, TransitionAssumption
    <3>3. toServer' \in Seq({"new", "old"})
      BY <3>1, AgedTyped DEF TransitionTypeOK
    <3>4. QED
      BY <1>2, <1>4, <2>1, <3>1, <3>2, <3>3 DEF UpdateTokenVisibility, TransitionTypeOK
  <2>3. CASE ~win.alive
    BY <1>3, <1>4, <2>1, <2>3 DEF UpdateTokenVisibility, TransitionTypeOK
  <2>4. QED
    BY <2>2, <2>3
<1>5. CASE RemoveWindowToken
  <2>1. Good(RemoveIfPossible(win)) /\ toServer' \in Seq({"new", "old"})
    BY <1>1, <1>5, RemovedOrWaits, AgedTyped DEF RemoveWindowToken, TransitionTypeOK
  <2>2. QED
    BY <1>2, <1>5, <2>1 DEF RemoveWindowToken, TransitionTypeOK
<1>6. CASE AppEnds
  <2>1. CASE win.alive
    <3>1. Good(RemoveIfPossible(win)) /\ toServer' \in Seq({"new", "old"})
      BY <1>1, <1>6, <2>1, RemovedOrWaits, AgedTyped DEF AppEnds, TransitionTypeOK
    <3>2. QED
      BY <1>2, <1>6, <2>1, <3>1 DEF AppEnds, TransitionTypeOK
  <2>2. CASE ~win.alive
    <3>1. /\ toApp' = << >> /\ UNCHANGED <<win, told, toServer, tokenVars>>
          /\ ended' = TRUE /\ appVisible' = FALSE /\ appSurface' = FALSE /\ calling' = FALSE
      BY <1>6, <2>2 DEF AppEnds
    <3>2. toApp' \in Seq({"show", "hide"})
      BY <3>1
    <3>3. QED
      BY <3>1, <3>2 DEF TransitionTypeOK, OneRuns, tokenVars
  <2>3. QED
    BY <2>1, <2>2
<1>7. CASE HandleTransaction
  <2>1. Tail(toServer) \in Seq({"new", "old"})
    BY <1>7 DEF HandleTransaction, TransitionTypeOK
  <2>2. CASE win.alive
    <3>1. PICK reports \in Reports :
            /\ Becomes(ApplyTransaction(win, Head(toServer), reports))
            /\ toServer' = Aged(Tail(toServer), ApplyTransaction(win, Head(toServer), reports))
      BY <1>7, <2>2 DEF HandleTransaction
    <3>2. Good(ApplyTransaction(win, Head(toServer), reports))
      BY <1>1, <2>2, Applied
    <3>3. toServer' \in Seq({"new", "old"})
      BY <2>1, <3>1, AgedTyped
    <3>4. QED
      BY <1>2, <1>7, <3>1, <3>2, <3>3 DEF HandleTransaction, TransitionTypeOK
  <2>3. CASE ~win.alive
    BY <1>3, <1>7, <2>1, <2>3 DEF HandleTransaction, TransitionTypeOK
  <2>4. QED
    BY <2>2, <2>3
<1>8. CASE AnimationEnds
  <2> DEFINE stopped == [win EXCEPT !.anim = "none"]
  <2>1. Good(stopped) /\ stopped.anim = "none"
    BY <1>1 DEF Good, OneRuns, WindowStates
  <2>2. Becomes(OnAnimationFinished(stopped)) /\ toServer' = Aged(toServer, OnAnimationFinished(stopped))
    BY <1>8 DEF AnimationEnds
  <2> HIDE DEF stopped
  <2>3. Good(OnAnimationFinished(stopped)) /\ toServer' \in Seq({"new", "old"})
    BY <2>1, <2>2, Finished, AgedTyped DEF TransitionTypeOK
  <2>4. QED
    BY <1>2, <1>8, <2>2, <2>3 DEF AnimationEnds, TransitionTypeOK
<1>9. CASE Cleanup
  <2>1. Good(Deleted(win))
    BY <1>1, DeletedGood
  <2>2. QED
    BY <1>2, <1>9, <2>1 DEF Cleanup, TransitionTypeOK
<1>10. CASE Relayout
  <2> DEFINE v == IF appVisible THEN "visible" ELSE "gone"
  <2>1. PICK made \in BOOLEAN :
          /\ Becomes(IF win.alive THEN [DestroySurface(win) EXCEPT !.hasSurface = made, !.visibility = v]
                     ELSE win)
          /\ appSurface' = made
    BY <1>10 DEF Relayout
  <2> DEFINE s == [DestroySurface(win) EXCEPT !.hasSurface = made, !.visibility = v]
  <2>2. Good(s)
    <3>1. Good(DestroySurface(win)) /\ v \in {"visible", "hold", "gone"}
      BY <1>1, Destroyed
    <3>2. QED
      BY <3>1 DEF Good, OneRuns, WindowStates
  <2>3. Becomes(s) \/ Becomes(win)
    BY <2>1
  <2>4. toServer' \in Seq({"new", "old"})
    BY <1>10 DEF Relayout, TransitionTypeOK
  <2> HIDE DEF s
  <2>5. QED
    BY <1>1, <1>2, <1>10, <2>1, <2>2, <2>3, <2>4 DEF Relayout, TransitionTypeOK
<1>11. CASE SetVisible
  <2>1. Tail(toApp) \in Seq({"show", "hide"})
    BY <1>11 DEF SetVisible, TransitionTypeOK
  <2>2. QED
    BY <1>11, <2>1 DEF SetVisible, TransitionTypeOK, OneRuns
<1>12. CASE HandleOnFrame
  <2>1. toServer' \in Seq({"new", "old"})
    BY SMTT(30), <1>12 DEF HandleOnFrame, TransitionTypeOK
  <2>2. QED
    BY <1>12, <2>1 DEF HandleOnFrame, TransitionTypeOK, OneRuns
<1>13. QED
  BY <1>4, <1>5, <1>6, <1>7, <1>8, <1>9, <1>10, <1>11, <1>12 DEF TransitionNext

LEMMA TransitionUnchanged ==
  ASSUME TransitionTypeOK, OneRuns(win), UNCHANGED transitionVars
  PROVE  TransitionTypeOK' /\ OneRuns(win)' /\ (ended => ended')
BY DEF transitionVars, tokenVars, appVars, TransitionTypeOK, OneRuns

LEMMA InitInv == Init => IInv
<1> SUFFICES ASSUME Init PROVE IInv
  OBVIOUS
<1>1. win \in WindowStates /\ win.out = << >>
  <2>1. << >> \in Seq({"show", "hide"}) /\ 0 \in Nat
    OBVIOUS
  <2>2. QED
    BY <2>1 DEF Init, TransitionInit, WindowStates, Animations
<1>2. TypeOK
  <2>1. << >> \in Seq({"show", "hide"}) /\ << >> \in Seq({"new", "old"})
        /\ << >> \in Seq({"pressed", "released"}) /\ Len(<< >>) <= QueueSize /\ 0 \in 0 .. MaxUpdates
    BY TransitionAssumption, QueueAssumption
  <2>2. TransitionTypeOK
    BY <1>1, <2>1 DEF Init, TransitionInit, TransitionTypeOK
  <2>3. QED
    BY <2>1, <2>2 DEF Init, TypeOK
<1>3. OneRuns(win) /\ Heard
  BY DEF Init, TransitionInit, OneRuns, Heard
<1>4. QED
  BY <1>2, <1>3 DEF IInv

LEMMA NextInv == IInv /\ [Next]_vars => IInv'
<1> SUFFICES ASSUME IInv, [Next]_vars PROVE IInv'
  OBVIOUS
<1> USE QueueAssumption
<1>1. TransitionTypeOK' /\ OneRuns(win)' /\ (ended => ended')
  BY TransitionStep, TransitionUnchanged DEF IInv, TypeOK, Next, vars
<1>2. CASE TouchFollows
  <2>1. pressing' \in BOOLEAN /\ cut' \in BOOLEAN /\ appPressed' \in BOOLEAN
    BY <1>1, <1>2, Zenon DEF TouchFollows, IInv, TypeOK, TransitionTypeOK
  <2>2. queue' \in Seq({"pressed", "released"}) /\ Len(queue') <= QueueSize
    BY <1>2 DEF TouchFollows, IInv, TypeOK
  <2>3. Heard'
    BY <1>1, <1>2 DEF TouchFollows, IInv, TypeOK, Heard
  <2>4. QED
    BY <1>1, <2>1, <2>2, <2>3 DEF IInv, TypeOK
<1>3. ASSUME NEW state \in {"pressed", "released"}, SendInputEvent(state), UNCHANGED transitionVars,
             appPressed' = appPressed, pressing' = (state = "pressed")
      PROVE  IInv'
  <2> DEFINE sent == InputEnabled /\ ~win.removed /\ ~ended /\ Len(queue) < QueueSize
  <2>1. queue' = (IF sent THEN Append(queue, state) ELSE queue) /\ cut' = ~sent
    BY <1>3 DEF SendInputEvent
  <2>2. CASE sent
    BY <1>1, <1>3, <2>1, <2>2 DEF IInv, TypeOK, Heard
  <2>3. CASE ~sent
    BY <1>1, <1>3, <2>1, <2>3 DEF IInv, TypeOK, Heard
  <2>4. QED
    BY <2>2, <2>3
<1>4. CASE Pressed /\ UNCHANGED transitionVars
  BY <1>3, <1>4 DEF Pressed
<1>5. CASE Pressing /\ UNCHANGED transitionVars
  BY <1>3, <1>5 DEF Pressing
<1>6. CASE Released /\ UNCHANGED transitionVars
  BY <1>3, <1>6 DEF Released
<1>7. CASE Defocused /\ UNCHANGED transitionVars
  <2>1. pressing = FALSE /\ pressing' = FALSE
    BY <1>7, Zenon DEF Defocused, IInv, TypeOK
  <2>2. QED
    BY <1>3, <1>7, <2>1 DEF Defocused
<1>8. CASE HandleEvent /\ UNCHANGED transitionVars
  BY <1>1, <1>8 DEF HandleEvent, IndevRead, IInv, TypeOK, Heard, transitionVars, appVars
<1>9. CASE UNCHANGED vars
  BY <1>1, <1>9 DEF vars, touchVars, transitionVars, appVars, IInv, TypeOK, Heard
<1>10. QED
  BY <1>2, <1>4, <1>5, <1>6, <1>7, <1>8, <1>9 DEF Next, TouchStep

LEMMA InvAlways == Spec => []IInv
<1>1. QED
  BY InitInv, NextInv, PTL DEF Spec

(* The window, its animation, its queue and what is on its way keep their types. *)
THEOREM TypeCorrect == Spec => []TypeOK
<1>1. IInv => TypeOK
  BY DEF IInv
<1>2. QED
  BY <1>1, InvAlways, PTL

(* One animation at a time, and none of a deleted window, whatever the engine reports. *)
THEOREM OneAnimationAlways == Spec => []OneAnimation
<1>1. IInv => OneAnimation
  BY DEF IInv, OneAnimation, OneRuns
<1>2. QED
  BY <1>1, InvAlways, PTL

(* What the app takes its window to be is what LVGL last reported, for any queue. *)
THEOREM TouchAlwaysAgrees == Spec => []TouchAgrees
<1>1. IInv => TouchAgrees
  BY DEF IInv, TouchAgrees, Heard
<1>2. QED
  BY <1>1, InvAlways, PTL

-----------------------------------------------------------------------------
(* Hiding and removal *)

(***************************************************************************)
(* A hidden window whose app still knows it as shown: no animation is left *)
(* to tell the app when it ends.                                           *)
(***************************************************************************)
Unaware == win.visibility = "gone" /\ win.anim = "none" /\ win.alive /\ ~ended /\ told = "show"

(* What was told last is the last call on its way, or what the app has made of it. *)
ToldIsLast ==
  ~ended => told = (IF toApp # << >> THEN toApp[Len(toApp)] ELSE IF appVisible THEN "show" ELSE "hide")

(* Such an app has been hidden, or will be, before it hears that it is shown. *)
HiddenBefore == Unaware => calling \/ ~appVisible \/ \E i \in 1 .. Len(toApp) : toApp[i] = "hide"

(* A removal is done, or the animation it waits for is taken to be running. *)
Waits(s) == s.allowRemoving => s.removed \/ s.animRunning

TellInv == IInv /\ ToldIsLast /\ HiddenBefore /\ Waits(win)

(* What HideIsTold comes to in every state: else a call is on its way, or relayout shows the window again. *)
HideComes == Unaware => toApp # << >> \/ (calling /\ appVisible)

(* What RemovalGoesOn comes to: else the window is removed, and deleted by the task that is posted. *)
RemovalComes == win.allowRemoving /\ win.alive => win.removed \/ win.anim # "none" \/ Stuck

LEMMA RemovalWaits ==
  ASSUME NEW s, s \in WindowStates
  PROVE  LET r == RemoveIfPossible(s) IN
         Waits(r) /\ r.visibility = s.visibility /\ r.anim = s.anim /\ r.alive = s.alive /\ r.out = s.out
<1> DEFINE flagged == [s EXCEPT !.allowRemoving = TRUE]
           marked == [flagged EXCEPT !.removed = TRUE]
           r == RemoveIfPossible(s)
<1>1. /\ flagged \in WindowStates /\ flagged.visibility = s.visibility /\ flagged.anim = s.anim
      /\ flagged.alive = s.alive /\ flagged.out = s.out /\ flagged.animRunning = s.animRunning
  BY DEF WindowStates
<1>2. r = IF s.animRunning THEN flagged ELSE RemoveImmediately(flagged)
  BY DEF RemoveIfPossible
<1>3. RemoveImmediately(flagged) = IF flagged.removed THEN flagged ELSE DestroySurface(marked)
  BY DEF RemoveImmediately
<1> HIDE DEF flagged, r
<1>4. /\ marked \in WindowStates /\ marked.visibility = s.visibility /\ marked.anim = s.anim
      /\ marked.alive = s.alive /\ marked.out = s.out /\ marked.removed = TRUE
  BY <1>1 DEF WindowStates
<1> HIDE DEF marked
<1>5. LET d == DestroySurface(marked) IN
      d.visibility = s.visibility /\ d.anim = s.anim /\ d.alive = s.alive /\ d.out = s.out /\ d.removed = TRUE
  BY <1>4 DEF DestroySurface, WindowStates
<1>6. r.visibility = s.visibility /\ r.anim = s.anim /\ r.alive = s.alive /\ r.out = s.out
  BY <1>1, <1>2, <1>3, <1>5
<1>7. Waits(r)
  BY <1>1, <1>2, <1>3, <1>5 DEF Waits
<1>8. QED
  BY <1>6, <1>7 DEF r

(* The end of an animation goes on with the removal that waits, and tells an app of a window not shown. *)
LEMMA EndIsTold ==
  ASSUME NEW s, s \in WindowStates
  PROVE  LET r == OnAnimationFinished(s) IN
         /\ Waits(r) /\ r.visibility = s.visibility /\ r.anim = s.anim /\ r.alive = s.alive
         /\ r.out = IF s.visibility # "visible" THEN Append(s.out, "hide") ELSE s.out
<1> DEFINE over == [s EXCEPT !.animRunning = FALSE, !.status = "finished"]
           known == IF s.visibility # "visible" THEN DispatchAppVisibility(over, "hide") ELSE over
           r == OnAnimationFinished(s)
<1>1. /\ over \in WindowStates /\ over.visibility = s.visibility /\ over.anim = s.anim
      /\ over.alive = s.alive /\ over.out = s.out /\ over.allowRemoving = s.allowRemoving
  BY DEF WindowStates
<1>2. r = IF s.allowRemoving THEN RemoveIfPossible(known) ELSE known
  BY DEF OnAnimationFinished
<1> HIDE DEF over, r
<1>3. Append(over.out, "hide") \in Seq({"show", "hide"})
  BY <1>1 DEF WindowStates
<1>4. LET d == DispatchAppVisibility(over, "hide") IN
      /\ d \in WindowStates /\ d.visibility = s.visibility /\ d.anim = s.anim
      /\ d.alive = s.alive /\ d.allowRemoving = s.allowRemoving /\ d.out = Append(s.out, "hide")
  <2> DEFINE more == Append(over.out, "hide")
             d == [over EXCEPT !.out = more]
  <2>1. DispatchAppVisibility(over, "hide") = d
    BY DEF DispatchAppVisibility
  <2>2. more \in Seq({"show", "hide"}) /\ more = Append(s.out, "hide")
    BY <1>1, <1>3
  <2> HIDE DEF more
  <2>3. d \in WindowStates
    BY <1>1, <2>2 DEF WindowStates
  <2>4. /\ d.visibility = over.visibility /\ d.anim = over.anim /\ d.alive = over.alive
        /\ d.allowRemoving = over.allowRemoving /\ d.out = more
    BY <1>1 DEF WindowStates
  <2> HIDE DEF d
  <2>5. QED
    BY <1>1, <2>1, <2>2, <2>3, <2>4
<1>5. /\ known \in WindowStates /\ known.visibility = s.visibility /\ known.anim = s.anim
      /\ known.alive = s.alive /\ known.allowRemoving = s.allowRemoving
      /\ known.out = IF s.visibility # "visible" THEN Append(s.out, "hide") ELSE s.out
  BY <1>1, <1>4
<1> HIDE DEF known
<1>6. LET q == RemoveIfPossible(known) IN
      /\ Waits(q) /\ q.visibility = known.visibility /\ q.anim = known.anim /\ q.alive = known.alive
      /\ q.out = known.out
  BY <1>5, RemovalWaits
<1>7. ~s.allowRemoving => Waits(known)
  BY <1>5 DEF Waits
<1>8. QED
  BY <1>2, <1>5, <1>6, <1>7 DEF r

LEMMA StoppedWaits ==
  ASSUME NEW s, s \in WindowStates, Waits(s), NEW reports
  PROVE  Waits(StopRunning(s, reports))
<1> DEFINE stopped == [s EXCEPT !.anim = "none"]
<1>1. stopped \in WindowStates /\ Waits(stopped)
  BY DEF WindowStates, Waits
<1>2. StopRunning(s, reports) \in {s, stopped, OnAnimationFinished(stopped)}
  BY DEF StopRunning, CancelAnimation
<1> HIDE DEF stopped
<1>3. QED
  BY <1>1, <1>2, EndIsTold

(***************************************************************************)
(* What a handler may do to a window: it goes without telling the app only *)
(* if it had gone so before.                                               *)
(***************************************************************************)
Tells(s) ==
  s.visibility = "gone" /\ s.anim = "none" /\ s.alive =>
    \/ s.out # << >> /\ s.out[Len(s.out)] = "hide"
    \/ win.visibility = "gone" /\ win.anim = "none" /\ win.alive /\ s.out = << >>

LEMMA SentTells ==
  ASSUME TransitionTypeOK, OneRuns(win), Waits(win), win.alive,
         NEW v \in {"visible", "hold", "gone"}, NEW reports
  PROVE  LET s == SendAppVisibilityToClients(win, v, reports) IN Waits(s) /\ Tells(s)
<1> DEFINE stopped == StopRunning(win, reports)
           now == [stopped EXCEPT !.visibility = v]
           s == SendAppVisibilityToClients(win, v, reports)
<1>1. win \in WindowStates /\ win.out = << >> /\ Good(win)
  BY DEF TransitionTypeOK, Good
<1>2. Good(stopped) /\ Waits(stopped)
  BY <1>1, Stopped, StoppedWaits DEF Good
<1>3. now = [StopRunning(win, reports) EXCEPT !.visibility = v]
  OBVIOUS
<1> HIDE DEF stopped
<1>4. now \in WindowStates /\ now.visibility = v /\ Waits(now)
  BY <1>2 DEF Good, WindowStates, Waits
<1>5. \/ s = win /\ win.visibility = "gone"
      \/ s = DispatchAppVisibility(now, "show") /\ v = "visible"
      \/ s = StartAnimation(now, "exit")
      \/ s = now /\ v # "gone"
  BY <1>3 DEF SendAppVisibilityToClients
<1> HIDE DEF now, s
<1>6. /\ Waits(DispatchAppVisibility(now, "show"))
      /\ DispatchAppVisibility(now, "show").visibility = v
  BY <1>4 DEF DispatchAppVisibility, WindowStates, Waits
<1>7. Waits(StartAnimation(now, "exit")) /\ StartAnimation(now, "exit").anim = "exit"
  BY <1>4 DEF StartAnimation, WindowStates, Waits
<1>8. Waits(s)
  BY <1>4, <1>5, <1>6, <1>7
<1>9. Tells(s)
  BY <1>1, <1>4, <1>5, <1>6, <1>7 DEF Tells
<1>10. QED
  BY <1>8, <1>9 DEF s

LEMMA AppliedTells ==
  ASSUME TransitionTypeOK, OneRuns(win), Waits(win), NEW buffer, NEW reports
  PROVE  LET s == ApplyTransaction(win, buffer, reports) IN Waits(s) /\ Tells(s)
<1> DEFINE unwaiting == [win EXCEPT !.frameWaiting = FALSE]
           stopped == StopRunning(unwaiting, reports)
           begun == IF win.frameWaiting THEN StartAnimation(stopped, "enter") ELSE win
           shows == buffer = "new"
           next == [begun EXCEPT !.shown = shows]
           s == ApplyTransaction(win, buffer, reports)
<1>1. win \in WindowStates /\ win.out = << >>
  BY DEF TransitionTypeOK
<1>2. Good(unwaiting) /\ Waits(unwaiting)
  BY <1>1 DEF Good, OneRuns, WindowStates, Waits
<1>3. s \in {win, begun, next}
  BY DEF ApplyTransaction
<1> HIDE DEF unwaiting, s
<1>4. Good(stopped) /\ Waits(stopped)
  BY <1>2, Stopped, StoppedWaits DEF Good
<1> HIDE DEF stopped
<1>5. /\ StartAnimation(stopped, "enter").anim = "enter" /\ Waits(StartAnimation(stopped, "enter"))
      /\ DOMAIN StartAnimation(stopped, "enter") = DOMAIN win
  BY <1>1, <1>4 DEF StartAnimation, Good, WindowStates, Waits
<1>6. Waits(begun) /\ (begun = win \/ begun.anim = "enter") /\ DOMAIN begun = DOMAIN win
  BY <1>5
<1> HIDE DEF begun, shows
<1>7. /\ next.visibility = begun.visibility /\ next.anim = begun.anim /\ next.alive = begun.alive
      /\ next.out = begun.out /\ Waits(next)
  BY <1>1, <1>6 DEF WindowStates, Waits
<1> HIDE DEF next
<1>8. Waits(s)
  BY <1>3, <1>6, <1>7
<1>9. Tells(s)
  BY <1>1, <1>3, <1>6, <1>7 DEF Tells
<1>10. QED
  BY <1>8, <1>9 DEF s

(* What the app is told by a handler that leaves its own state alone. *)
LEMMA BecomesTold ==
  ASSUME TransitionTypeOK, ToldIsLast, HiddenBefore, NEW s, s \in WindowStates, Becomes(s),
         Waits(s), Tells(s), UNCHANGED <<appVisible, calling, ended>>
  PROVE  ToldIsLast' /\ HiddenBefore' /\ Waits(win)'
<1> DEFINE out == s.out
<1>1. /\ win' = [s EXCEPT !.out = << >>]
      /\ toApp' = IF ended THEN << >> ELSE toApp \o out
      /\ told' = IF out = << >> THEN told ELSE out[Len(out)]
  BY DEF Becomes
<1>2. /\ win'.visibility = s.visibility /\ win'.anim = s.anim /\ win'.alive = s.alive
      /\ win'.allowRemoving = s.allowRemoving /\ win'.removed = s.removed /\ win'.animRunning = s.animRunning
  BY <1>1 DEF WindowStates
<1>3. out \in Seq({"show", "hide"}) /\ toApp \in Seq({"show", "hide"})
  BY DEF WindowStates, TransitionTypeOK
<1>4. Waits(win)'
  BY <1>2 DEF Waits
<1>5. Tells(s) = (s.visibility = "gone" /\ s.anim = "none" /\ s.alive =>
                    \/ out # << >> /\ out[Len(out)] = "hide"
                    \/ win.visibility = "gone" /\ win.anim = "none" /\ win.alive /\ out = << >>)
  BY DEF Tells
<1> HIDE DEF out
<1>6. ToldIsLast'
  <2>1. CASE out = << >>
    BY <1>1, <1>3, <2>1 DEF ToldIsLast
  <2>2. CASE out # << >>
    <3>1. ~ended => toApp' # << >> /\ toApp'[Len(toApp')] = out[Len(out)]
      BY <1>1, <1>3, <2>2
    <3>2. QED
      BY <1>1, <2>2, <3>1 DEF ToldIsLast
  <2>3. QED
    BY <2>1, <2>2
<1>7. HiddenBefore'
  <2> SUFFICES ASSUME Unaware'
               PROVE  calling' \/ ~appVisible' \/ \E i \in 1 .. Len(toApp') : toApp'[i] = "hide"
    BY DEF HiddenBefore
  <2>1. /\ s.visibility = "gone" /\ s.anim = "none" /\ s.alive /\ ~ended /\ told' = "show"
    BY <1>2 DEF Unaware
  <2>2. out = << >> /\ Unaware
    BY <1>1, <1>5, <2>1 DEF Unaware
  <2>3. toApp' = toApp
    BY <1>1, <1>3, <2>1, <2>2
  <2>4. QED
    BY <2>2, <2>3 DEF HiddenBefore
<1>8. QED
  BY <1>4, <1>6, <1>7

LEMMA TransitionTells ==
  ASSUME TransitionTypeOK, OneRuns(win), ToldIsLast, HiddenBefore, Waits(win), TransitionNext
  PROVE  ToldIsLast' /\ HiddenBefore' /\ Waits(win)'
<1> DEFINE Goal == ToldIsLast' /\ HiddenBefore' /\ Waits(win)'
<1>1. win \in WindowStates /\ win.out = << >> /\ toApp \in Seq({"show", "hide"})
  BY DEF TransitionTypeOK
<1>2. Waits(win) /\ Tells(win)
  BY <1>1 DEF Tells
<1>3. ASSUME UNCHANGED <<win, told, toApp>>, UNCHANGED appVars PROVE Goal
  BY <1>3 DEF ToldIsLast, HiddenBefore, Unaware, Waits, appVars
<1>4. ASSUME NEW s, s \in WindowStates, Becomes(s), Waits(s), Tells(s), UNCHANGED appVars PROVE Goal
  BY <1>4, BecomesTold DEF appVars
<1>5. ASSUME NEW s, s \in WindowStates, Waits(s), Becomes(s), ended' PROVE Goal
  <2>1. ToldIsLast' /\ HiddenBefore'
    BY <1>5 DEF ToldIsLast, HiddenBefore, Unaware
  <2>2. win' = [s EXCEPT !.out = << >>]
    BY <1>5 DEF Becomes
  <2>3. Waits(win)'
    BY <1>5, <2>2 DEF Waits, WindowStates
  <2>4. QED
    BY <2>1, <2>3
<1>6. PICK gone : /\ gone = RemoveIfPossible(win)
                   /\ gone \in WindowStates /\ Waits(gone) /\ Tells(gone)
  <2>1. Good(win)
    BY <1>1 DEF Good
  <2>2. QED
    BY <1>1, <2>1, RemovalWaits, RemovedOrWaits DEF Tells, Good
<1> SUFFICES Goal
  OBVIOUS
<1> HIDE DEF Goal
<1>7. ASSUME NEW v \in Visibilities, UpdateTokenVisibility(v) PROVE Goal
  <2>1. UNCHANGED appVars
    BY <1>7 DEF UpdateTokenVisibility
  <2>2. CASE win.alive
    <3>1. PICK reports \in Reports : Becomes(SendAppVisibilityToClients(win, v, reports))
      BY <1>7, <2>2 DEF UpdateTokenVisibility
    <3>2. Good(SendAppVisibilityToClients(win, v, reports))
      BY <1>1, <2>2, Sent, TransitionAssumption DEF Good
    <3>3. v \in {"visible", "hold", "gone"}
      BY TransitionAssumption
    <3>4. LET s == SendAppVisibilityToClients(win, v, reports) IN Waits(s) /\ Tells(s)
      BY <1>2, <2>2, <3>3, SentTells
    <3>5. QED
      BY <1>4, <2>1, <3>1, <3>2, <3>4 DEF Good
  <2>3. CASE ~win.alive
    BY <1>3, <1>7, <2>1, <2>3 DEF UpdateTokenVisibility
  <2>4. QED
    BY <2>2, <2>3
<1>8. CASE RemoveWindowToken
  <2>1. Becomes(gone) /\ UNCHANGED appVars
    BY <1>6, <1>8 DEF RemoveWindowToken
  <2>2. QED
    BY <1>4, <1>6, <2>1
<1>9. CASE AppEnds
  <2>1. CASE win.alive
    <3>1. Becomes(gone) /\ ended'
      BY <1>6, <1>9, <2>1 DEF AppEnds
    <3>2. QED
      BY <1>5, <1>6, <3>1
  <2>2. CASE ~win.alive
    <3>1. win' = win /\ ended'
      BY <1>9, <2>2 DEF AppEnds
    <3>2. QED
      BY <1>2, <3>1 DEF Goal, ToldIsLast, HiddenBefore, Unaware, Waits
  <2>3. QED
    BY <2>1, <2>2
<1>10. CASE HandleTransaction
  <2>1. UNCHANGED appVars
    BY <1>10 DEF HandleTransaction
  <2>2. CASE win.alive
    <3>1. PICK reports \in Reports : Becomes(ApplyTransaction(win, Head(toServer), reports))
      BY <1>10, <2>2 DEF HandleTransaction
    <3>2. PICK s : s = ApplyTransaction(win, Head(toServer), reports)
      OBVIOUS
    <3>3. Good(win) /\ Good(s)
      BY <1>1, <2>2, <3>2, Applied DEF Good
    <3>4. Waits(s) /\ Tells(s)
      BY <1>2, <3>2, AppliedTells
    <3>5. s \in WindowStates /\ Becomes(s)
      BY <3>1, <3>2, <3>3 DEF Good
    <3>6. QED
      BY <1>4, <2>1, <3>4, <3>5
  <2>3. CASE ~win.alive
    <3>1. UNCHANGED <<win, told, toApp>>
      BY <1>10, <2>3 DEF HandleTransaction
    <3>2. QED
      BY <1>3, <2>1, <3>1
  <2>4. QED
    BY <2>2, <2>3
<1>11. CASE AnimationEnds
  <2> DEFINE stopped == [win EXCEPT !.anim = "none"]
             s == OnAnimationFinished(stopped)
  <2>1. Becomes(s) /\ UNCHANGED appVars
    BY <1>11 DEF AnimationEnds
  <2>2. /\ stopped \in WindowStates /\ stopped.visibility = win.visibility /\ stopped.out = << >>
        /\ stopped.anim = "none" /\ Good(stopped)
    BY <1>1 DEF WindowStates, Good, OneRuns
  <2> HIDE DEF stopped
  <2>3. Waits(s) /\ s.visibility = win.visibility
        /\ s.out = IF win.visibility # "visible" THEN Append(<< >>, "hide") ELSE << >>
    BY <2>2, EndIsTold
  <2>4. s \in WindowStates
    BY <2>2, Finished DEF Good
  <2> HIDE DEF s
  <2>5. Tells(s)
    BY <2>3 DEF Tells
  <2>6. QED
    BY <1>4, <2>1, <2>3, <2>4, <2>5
<1>12. CASE Cleanup
  <2>1. Becomes(Deleted(win)) /\ UNCHANGED appVars
    BY <1>12 DEF Cleanup
  <2>2. Deleted(win) \in WindowStates
    BY <1>1, DeletedGood DEF Good
  <2>3. ~Deleted(win).alive /\ Waits(Deleted(win))
    BY <1>1, <1>2 DEF Deleted, Waits, WindowStates
  <2>4. QED
    <3>1. Tells(Deleted(win))
      BY <2>3 DEF Tells
    <3>2. QED
      BY <1>4, <2>1, <2>2, <2>3, <3>1
<1>13. CASE Relayout
  <2> DEFINE v == IF appVisible THEN "visible" ELSE "gone"
             made == appSurface'
             s == [DestroySurface(win) EXCEPT !.hasSurface = made, !.visibility = v]
  <2>1. /\ Becomes(IF win.alive THEN s ELSE win) /\ made \in BOOLEAN
        /\ calling' = FALSE /\ appVisible' = appVisible /\ ended' = ended
    BY <1>13 DEF Relayout
  <2>2. /\ Good(DestroySurface(win)) /\ v \in {"visible", "hold", "gone"}
        /\ DestroySurface(win).out = << >> /\ Waits(DestroySurface(win))
    <3>1. Good(DestroySurface(win))
      <4>1. Good(win)
        BY <1>1 DEF Good
      <4>2. QED
        BY <4>1, Destroyed
    <3>2. DestroySurface(win).out = << >>
      BY <1>1 DEF DestroySurface, WindowStates
    <3>3. Waits(DestroySurface(win))
      BY <1>1, <1>2 DEF DestroySurface, WindowStates, Waits
    <3>4. QED
      BY <3>1, <3>2, <3>3
  <2>3. s \in WindowStates /\ s.out = << >> /\ Waits(s) /\ s.visibility = v
    BY <2>1, <2>2 DEF Good, WindowStates, Waits
  <2> HIDE DEF s
  <2>4. /\ told' = told /\ toApp' = (IF ended THEN << >> ELSE toApp) /\ Waits(win)'
        /\ win'.alive => win'.visibility = v
    <3>1. CASE win.alive
      <4>1. Becomes(s)
        BY <2>1, <3>1
      <4>2. win' = [s EXCEPT !.out = << >>]
        BY <4>1 DEF Becomes
      <4>3. Waits(win)' /\ win'.visibility = v
        BY <2>3, <4>2 DEF Waits, WindowStates
      <4>4. toApp \o << >> = toApp
        BY <1>1
      <4>5. QED
        BY <2>1, <2>3, <4>1, <4>3, <4>4 DEF Becomes
    <3>2. CASE ~win.alive
      <4>1. Becomes(win)
        BY <2>1, <3>2
      <4>2. win' = [win EXCEPT !.out = << >>]
        BY <4>1 DEF Becomes
      <4>3. Waits(win)' /\ ~win'.alive
        BY <1>1, <1>2, <3>2, <4>2 DEF Waits, WindowStates
      <4>4. toApp \o << >> = toApp
        BY <1>1
      <4>5. QED
        BY <1>1, <2>1, <4>1, <4>3, <4>4 DEF Becomes
    <3>3. QED
      BY <3>1, <3>2
  <2>5. ToldIsLast'
    BY <2>1, <2>4 DEF ToldIsLast
  <2>6. HiddenBefore'
    BY <2>1, <2>4 DEF HiddenBefore, Unaware
  <2>7. QED
    BY <2>4, <2>5, <2>6 DEF Goal
<1>14. CASE SetVisible
  <2>1. /\ ~ended /\ ~calling /\ toApp # << >> /\ toApp' = Tail(toApp)
        /\ appVisible' = (Head(toApp) = "show") /\ calling' = (appVisible' # appVisible)
        /\ win' = win /\ told' = told /\ ended' = ended
    BY <1>14 DEF SetVisible
  <2>2. /\ Head(toApp) = toApp[1] /\ Head(toApp) \in {"show", "hide"}
        /\ Len(toApp) \in Nat \ {0} /\ Len(Tail(toApp)) = Len(toApp) - 1
        /\ \A i \in 1 .. Len(toApp) - 1 : Tail(toApp)[i] = toApp[i + 1]
        /\ (Tail(toApp) # << >>) <=> (Len(toApp) # 1)
    <3>1. toApp \in Seq({"show", "hide"}) /\ toApp # << >>
      BY <1>1, <2>1
    <3>2. Tail(toApp) \in Seq({"show", "hide"}) /\ Len(toApp) \in Nat \ {0}
          /\ Len(Tail(toApp)) = Len(toApp) - 1
      BY <3>1
    <3>3. (Tail(toApp) # << >>) <=> (Len(Tail(toApp)) # 0)
      BY <3>2
    <3>4. QED
      BY <3>1, <3>2, <3>3
  <2>3. ToldIsLast'
    <3>1. CASE Len(toApp) = 1
      BY <2>1, <2>2, <3>1 DEF ToldIsLast
    <3>2. CASE Len(toApp) # 1
      <4>1. Tail(toApp)[Len(Tail(toApp))] = toApp[Len(toApp)]
        BY <2>2, <3>2
      <4>2. QED
        BY <2>1, <2>2, <3>2, <4>1 DEF ToldIsLast
    <3>3. QED
      BY <3>1, <3>2
  <2>4. HiddenBefore'
    <3> SUFFICES ASSUME Unaware'
                 PROVE  calling' \/ ~appVisible' \/ \E i \in 1 .. Len(toApp') : toApp'[i] = "hide"
      BY DEF HiddenBefore
    <3>1. Unaware
      BY <2>1 DEF Unaware
    <3>2. ~appVisible \/ \E i \in 1 .. Len(toApp) : toApp[i] = "hide"
      BY <2>1, <3>1 DEF HiddenBefore
    <3>3. CASE ~appVisible
      BY <2>1, <3>3
    <3>4. CASE Head(toApp) = "hide"
      BY <2>1, <3>4
    <3>5. ASSUME NEW i \in 1 .. Len(toApp), toApp[i] = "hide", Head(toApp) # "hide"
          PROVE  \E j \in 1 .. Len(toApp') : toApp'[j] = "hide"
      <4>1. i - 1 \in 1 .. Len(Tail(toApp)) /\ Tail(toApp)[i - 1] = toApp[i]
        BY <2>2, <3>5
      <4>2. QED
        BY <2>1, <3>5, <4>1
    <3>6. QED
      BY <3>2, <3>3, <3>4, <3>5
  <2>5. QED
    BY <1>2, <2>1, <2>3, <2>4 DEF Goal, Waits
<1>15. CASE HandleOnFrame
  <2>1. /\ UNCHANGED <<win, told, appVisible, ended, toApp>> /\ (calling => calling')
    BY <1>15 DEF HandleOnFrame
  <2>2. QED
    BY <1>2, <2>1 DEF Goal, ToldIsLast, HiddenBefore, Unaware, Waits
<1>16. QED
  BY <1>7, <1>8, <1>9, <1>10, <1>11, <1>12, <1>13, <1>14, <1>15 DEF TransitionNext

LEMMA TellAlways == Spec => []TellInv
<1>1. Init => TellInv
  BY InitInv DEF Init, TransitionInit, TellInv, ToldIsLast, HiddenBefore, Unaware, Waits
<1>2. TellInv /\ [Next]_vars => TellInv'
  <2> SUFFICES ASSUME TellInv, [Next]_vars PROVE TellInv'
    OBVIOUS
  <2>1. IInv'
    BY NextInv DEF TellInv
  <2>2. TransitionNext \/ UNCHANGED transitionVars
    BY DEF Next, vars
  <2>3. CASE TransitionNext
    BY <2>1, <2>3, TransitionTells DEF TellInv, IInv, TypeOK
  <2>4. CASE UNCHANGED transitionVars
    BY <2>1, <2>4 DEF TellInv, ToldIsLast, HiddenBefore, Unaware, Waits, transitionVars, appVars
  <2>5. QED
    BY <2>2, <2>3, <2>4
<1>3. QED
  BY <1>1, <1>2, PTL DEF Spec

(***************************************************************************)
(* A hidden window whose app still knows it as shown has an animation that *)
(* tells the app when it ends; or a call is on its way to the app; or the  *)
(* app calls relayout, which shows the window again.  No order of hiding,  *)
(* showing, frames and removal leaves it with nothing to come.             *)
(***************************************************************************)
THEOREM HideAlwaysComes == Spec => []HideComes
<1>1. TellInv => HideComes
  <2> SUFFICES ASSUME TellInv, Unaware, toApp = << >> PROVE calling /\ appVisible
    BY DEF HideComes
  <2>1. appVisible
    BY DEF TellInv, ToldIsLast, Unaware
  <2>2. \A i \in 1 .. Len(toApp) : FALSE
    OBVIOUS
  <2>3. QED
    BY <2>1, <2>2 DEF TellInv, HiddenBefore
<1>2. QED
  BY <1>1, TellAlways, PTL

(***************************************************************************)
(* WindowState::removeIfPossible leaves a window that is removed, or one   *)
(* whose animation will remove it; unless anim_remove has taken that       *)
(* animation away without a report.                                        *)
(***************************************************************************)
THEOREM RemovalAlwaysComes == Spec => []RemovalComes
<1>1. TellInv => RemovalComes
  BY DEF TellInv, RemovalComes, Waits, Stuck
<1>2. QED
  BY <1>1, TellAlways, PTL
=============================================================================
