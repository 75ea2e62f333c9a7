--------------------------- MODULE WindowTransition ---------------------------
(***************************************************************************)
(* One window with CONFIG_ENABLE_TRANSITION_ANIMATION: server/WindowState  *)
(* and server/WindowAnimator.cpp.  A window that is hidden leaves with an  *)
(* animation and its app is told only when that has ended; the first frame *)
(* of a surface comes in with another; a removal waits for either.  The    *)
(* animation runs in an engine of its own and can be overtaken by a new    *)
(* visibility, a frame, a removal, or the death of the app.                *)
(*                                                                         *)
(* Everything on the server runs in one thread, so a handler is one step;  *)
(* it is composed of operators on the state of the window.  Windows that   *)
(* do not have WINDOW_TRANSITION_ENABLE are those of WindowSession and     *)
(* WindowLifecycle.                                                        *)
(***************************************************************************)
EXTENDS Integers, Sequences

CONSTANTS Reports,      \* whether anim_remove reports the end of what it removes: either may be
          Visibilities, \* what updateWindowTokenVisibility is called with
          MaxUpdates,   \* bound: changes of the token's visibility
          MaxPending    \* bound: transactions on their way

ASSUME TransitionAssumption ==
  /\ Reports # {} /\ Reports \subseteq BOOLEAN
  /\ Visibilities \subseteq {"visible", "hold", "gone"}
  /\ MaxUpdates \in Nat /\ MaxPending \in Nat \ {0}

VARIABLES
  tokenVisibility, \* WindowToken::mClientVisibility, "removed" without a token
  updates,         \* changes of it so far
  win,             \* the WindowState with its WindowAnimator and what the engine runs for it
  told,            \* history: what the app was told last
  appVisible,      \* BaseWindow::mAppVisible
  appSurface,      \* BaseWindow::mSurfaceControl is there
  calling,         \* the app waits for relayout
  ended,           \* the app has removed the window, or died
  toApp,           \* calls of dispatchAppVisibility on their way
  toServer         \* transactions on their way: "new" ones name a buffer the server knows
tokenVars == <<tokenVisibility, updates>>
appVars == <<appVisible, appSurface, calling, ended>>
transitionVars == <<tokenVars, win, told, appVars, toApp, toServer>>

Animations == {"enter", "exit"}

(* mVisibility to WS_REMOVED, the animator's, and the engine's; out are the calls to the app. *)
WindowStates ==
  [visibility : {"visible", "hold", "gone"}, animRunning : BOOLEAN, frameWaiting : BOOLEAN,
   hasSurface : BOOLEAN, shown : BOOLEAN, allowRemoving : BOOLEAN, removed : BOOLEAN, alive : BOOLEAN,
   status : {"finished", "starting"}, anim : Animations \cup {"none"}, unknown : Nat,
   out : Seq({"show", "hide"})]

TransitionTypeOK ==
  /\ tokenVisibility \in {"visible", "hold", "gone", "removed"} /\ updates \in 0 .. MaxUpdates
  /\ win \in WindowStates /\ win.out = << >>
  /\ told \in {"show", "hide"}
  /\ appVisible \in BOOLEAN /\ appSurface \in BOOLEAN /\ calling \in BOOLEAN /\ ended \in BOOLEAN
  /\ toApp \in Seq({"show", "hide"}) /\ toServer \in Seq({"new", "old"})

(* attachIWindow has added the window as visible; its token is not. *)
TransitionInit ==
  /\ tokenVisibility = "gone" /\ updates = 0
  /\ win = [visibility |-> "visible", animRunning |-> FALSE, frameWaiting |-> TRUE,
            hasSurface |-> FALSE, shown |-> FALSE, allowRemoving |-> FALSE, removed |-> FALSE,
            alive |-> TRUE, status |-> "finished", anim |-> "none", unknown |-> 0, out |-> << >>]
  /\ told = "hide"
  /\ appVisible = FALSE /\ appSurface = FALSE /\ calling = FALSE /\ ended = FALSE
  /\ toApp = << >> /\ toServer = << >>

-----------------------------------------------------------------------------
(* WindowState and WindowAnimator, as operators on the state s of the window *)

DispatchAppVisibility(s, call) == [s EXCEPT !.out = Append(@, call)]

DestroySurface(s) ==
  IF s.hasSurface THEN [s EXCEPT !.hasSurface = FALSE, !.shown = FALSE, !.frameWaiting = TRUE] ELSE s

RemoveImmediately(s) == IF s.removed THEN s ELSE DestroySurface([s EXCEPT !.removed = TRUE])

(* The removal waits for the animation. *)
RemoveIfPossible(s) ==
  IF s.animRunning THEN [s EXCEPT !.allowRemoving = TRUE]
  ELSE RemoveImmediately([s EXCEPT !.allowRemoving = TRUE])

(***************************************************************************)
(* The end of an animation does not tell the app (what HideIsTold would    *)
(* show), or forgets the removal that waits (what RemovalGoesOn would).    *)
(***************************************************************************)
OnAnimationFinishedUntold(s) ==
  LET over == [s EXCEPT !.animRunning = FALSE, !.status = "finished"]
  IN IF s.allowRemoving THEN RemoveIfPossible(over) ELSE over

OnAnimationFinishedOnly(s) ==
  LET over == [s EXCEPT !.animRunning = FALSE, !.status = "finished"]
  IN IF s.visibility # "visible" THEN DispatchAppVisibility(over, "hide") ELSE over

(* The engine's callback, and onAnimationFinished. *)
OnAnimationFinished(s) ==
  LET over == [s EXCEPT !.animRunning = FALSE, !.status = "finished"]
      known == IF s.visibility # "visible" THEN DispatchAppVisibility(over, "hide") ELSE over
  IN IF s.allowRemoving THEN RemoveIfPossible(known) ELSE known

(* anim_remove of what is running, if anything is. *)
CancelAnimation(s, reports) ==
  LET stopped == [s EXCEPT !.anim = "none"]
  IN IF reports /\ s.anim # "none" THEN OnAnimationFinished(stopped) ELSE stopped

(* mAnimId is about one animation: another that still runs can no longer be removed. *)
StartAnimation(s, a) ==
  [s EXCEPT !.animRunning = TRUE, !.status = "starting", !.anim = a,
            !.unknown = IF s.anim = "none" THEN @ ELSE @ + 1]

StopRunning(s, reports) == IF s.animRunning THEN CancelAnimation(s, reports) ELSE s

(* sendAppVisibilityToClients; a window on hold is told nothing. *)
SendAppVisibilityToClients(s, v, reports) ==
  LET now == [StopRunning(s, reports) EXCEPT !.visibility = v]
  IN CASE s.visibility = "gone" /\ v = "gone"     -> s
       [] v = "visible"                           -> DispatchAppVisibility(now, "show")
       [] v = "gone" /\ s.visibility # "gone"     -> StartAnimation(now, "exit")
       [] OTHER                                   -> now

(* The first frame comes over the animation that runs: what OneAnimation would show. *)
ApplyTransactionOver(s, buffer, reports) ==
  LET begun == IF s.frameWaiting THEN StartAnimation([s EXCEPT !.frameWaiting = FALSE], "enter") ELSE s
  IN CASE ~s.hasSurface                              -> s
       [] s.hasSurface /\ begun.animRunning /\ buffer # "new" -> begun
       [] OTHER                                      -> [begun EXCEPT !.shown = buffer = "new"]

(* applyTransaction: the first frame starts an animation, a frame it cannot show is dropped. *)
ApplyTransaction(s, buffer, reports) ==
  LET begun == IF s.frameWaiting
               THEN StartAnimation(StopRunning([s EXCEPT !.frameWaiting = FALSE], reports), "enter")
               ELSE s
  IN CASE ~s.hasSurface                              -> s
       [] s.hasSurface /\ begun.animRunning /\ buffer # "new" -> begun
       [] OTHER                                      -> [begun EXCEPT !.shown = buffer = "new"]

(* The destructors of WindowNode and WindowAnimator, which stops listening before it cancels. *)
Deleted(s) ==
  [s EXCEPT !.alive = FALSE, !.shown = FALSE,
            !.anim = IF s.status # "finished" THEN "none" ELSE @]

-----------------------------------------------------------------------------
(* Steps *)

(* What a handler has done: its calls leave, and what it destroyed makes frames old. *)
Becomes(s) ==
  /\ win' = [s EXCEPT !.out = << >>]
  /\ toApp' = IF ended' THEN << >> ELSE toApp \o s.out
  /\ told' = IF s.out = << >> THEN told ELSE s.out[Len(s.out)]

Aged(frames, s) ==
  IF win.hasSurface /\ ~s.hasSurface THEN [n \in DOMAIN frames |-> "old"] ELSE frames

UpdateTokenVisibility(v) ==
  /\ updates < MaxUpdates /\ v # tokenVisibility /\ tokenVisibility # "removed"
  /\ tokenVisibility' = v /\ updates' = updates + 1
  /\ UNCHANGED appVars
  /\ IF win.alive
     THEN \E reports \in Reports :
            LET s == SendAppVisibilityToClients(win, v, reports) IN
            /\ Becomes(s)
            /\ toServer' = Aged(toServer, s)
     ELSE UNCHANGED <<win, told, toApp, toServer>>

RemoveWindowToken ==
  /\ tokenVisibility # "removed" /\ win.alive
  /\ tokenVisibility' = "removed"
  /\ UNCHANGED <<updates, appVars>>
  /\ LET s == RemoveIfPossible(win) IN Becomes(s) /\ toServer' = Aged(toServer, s)

(* removeWindow, or the death of the app: nothing of the app is left but what it has sent. *)
AppEnds ==
  /\ ~ended /\ ended' = TRUE
  /\ IF win.alive
     THEN LET s == RemoveIfPossible(win) IN Becomes(s) /\ toServer' = Aged(toServer, s)
     ELSE toApp' = << >> /\ UNCHANGED <<win, told, toServer>>
  /\ appVisible' = FALSE /\ appSurface' = FALSE /\ calling' = FALSE
  /\ UNCHANGED tokenVars

HandleTransaction ==
  /\ toServer # << >>
  /\ UNCHANGED <<tokenVars, appVars>>
  /\ IF win.alive
     THEN \E reports \in Reports :
            LET s == ApplyTransaction(win, Head(toServer), reports) IN
            /\ Becomes(s)
            /\ toServer' = Aged(Tail(toServer), s)
     ELSE toServer' = Tail(toServer) /\ UNCHANGED <<win, told, toApp>>

(* The engine has come to the end of the animation. *)
AnimationEnds ==
  /\ win.anim # "none"
  /\ UNCHANGED <<tokenVars, appVars>>
  /\ LET s == OnAnimationFinished([win EXCEPT !.anim = "none"])
     IN Becomes(s) /\ toServer' = Aged(toServer, s)

(* The task of postWindowRemoveCleanup. *)
Cleanup ==
  /\ win.removed /\ win.alive
  /\ UNCHANGED <<tokenVars, appVars, toServer>>
  /\ Becomes(Deleted(win))

(* relayout, and its return to the app; a window that is gone gives the app no surface. *)
Relayout ==
  /\ calling /\ calling' = FALSE
  /\ UNCHANGED <<tokenVars, appVisible, ended>>
  /\ \E made \in BOOLEAN :
       LET s == [DestroySurface(win) EXCEPT !.hasSurface = made,
                                            !.visibility = IF appVisible THEN "visible" ELSE "gone"] IN
       /\ made => appVisible /\ win.alive
       /\ Becomes(IF win.alive THEN s ELSE win)
       /\ appSurface' = made
       /\ toServer' = [n \in DOMAIN toServer |-> "old"]

(* dispatchAppVisibility in the app: setVisible, up to its call of relayout. *)
SetVisible ==
  /\ ~ended /\ ~calling /\ toApp # << >>
  /\ toApp' = Tail(toApp)
  /\ appVisible' = (Head(toApp) = "show")
  /\ calling' = (appVisible' # appVisible)
  /\ UNCHANGED <<tokenVars, win, told, appSurface, ended, toServer>>

(* handleOnFrame: a frame drawn, or a surface asked for. *)
HandleOnFrame ==
  /\ ~ended /\ ~calling /\ appVisible
  /\ IF appSurface
     THEN /\ Len(toServer) < MaxPending
          /\ toServer' = Append(toServer, "new") /\ UNCHANGED calling
     ELSE calling' = TRUE /\ UNCHANGED toServer
  /\ UNCHANGED <<tokenVars, win, told, appVisible, appSurface, ended, toApp>>

TransitionNext ==
  \/ \E v \in Visibilities : UpdateTokenVisibility(v)
  \/ RemoveWindowToken \/ AppEnds
  \/ HandleTransaction \/ AnimationEnds \/ Cleanup \/ Relayout
  \/ SetVisible \/ HandleOnFrame

(* Calls arrive, the looper runs its tasks, and an animation comes to its end. *)
TransitionFairness ==
  /\ WF_transitionVars(HandleTransaction) /\ WF_transitionVars(AnimationEnds)
  /\ WF_transitionVars(Cleanup)
  /\ WF_transitionVars(Relayout) /\ WF_transitionVars(SetVisible)

-----------------------------------------------------------------------------
(* Properties *)

(***************************************************************************)
(* At most one animation runs for the window, and it is the one mAnimId is *)
(* about: it can be removed, and a removal of the window waits for it or   *)
(* stops it; none reports its end to a WindowState that is deleted.        *)
(***************************************************************************)
OneAnimation ==
  /\ win.unknown = 0
  /\ win.anim # "none" => win.alive /\ win.animRunning /\ win.status = "starting"

(* The animation was removed for a visibility without one, and its end was not reported. *)
Stuck == win.animRunning /\ win.anim = "none"

(***************************************************************************)
(* An app whose window has been made to go is told so, when the animation  *)
(* is over at the latest, or its token is shown or held meanwhile, which   *)
(* takes the animation away; whatever frame or removal comes in the way.   *)
(***************************************************************************)
HideIsTold ==
  (win.visibility = "gone" /\ told = "show") ~>
    (win.visibility # "gone" \/ told = "hide" \/ ended \/ ~win.alive)

(***************************************************************************)
(* A window that is to be removed is deleted, also if it is leaving or     *)
(* coming in; unless the animation it waits for was removed for a token    *)
(* that is shown or held again, and the engine did not report that (see    *)
(* README, "Where the code falls short").                                  *)
(***************************************************************************)
RemovalGoesOn == win.allowRemoving ~> (~win.alive \/ Stuck)
=============================================================================
