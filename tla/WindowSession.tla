---------------------------- MODULE WindowSession ----------------------------
(***************************************************************************)
(* Who is visible and who is woken by VSYNC: the windows of one token, as  *)
(* the server (server/WindowToken.cpp, server/WindowState.cpp) and the     *)
(* apps (app/BaseWindow.cpp) see it.                                       *)
(*                                                                         *)
(* The server changes the visibility of the token and tells the windows    *)
(* with the one-way call dispatchAppVisibility; the app answers with the   *)
(* two-way call relayout, which changes the server's visibility of the     *)
(* window again.  The app asks for frames with the one-way call            *)
(* requestVsync and remembers what it asked for, so as not to ask twice;   *)
(* the server counts the request down, sends onFrame, and stops its timer  *)
(* when no visible window asks for anything.                               *)
(*                                                                         *)
(* One-way calls to one object arrive in order; relayout may overtake the  *)
(* requests still on their way.  The windows were attached before their    *)
(* token was first shown and are not removed (SurfaceBuffers removes).     *)
(* The transition animation is off, as it is by default.                   *)
(***************************************************************************)
EXTENDS VsyncRequests, Sequences

CONSTANTS Windows,      \* the windows of the token
          Listeners,    \* those whose UI may listen for VSYNC (LVGL's vsync events)
          Visibilities, \* what updateWindowTokenVisibility is called with
          MaxUpdates,   \* bound: changes of the token's visibility
          MaxPending    \* bound: calls to a window, or from one, before the next is made

ASSUME ListenersAssumption == Listeners \subseteq Windows
ASSUME VisibilitiesAssumption == Visibilities \subseteq {"visible", "hold", "gone"}
ASSUME BoundAssumption == MaxUpdates \in Nat /\ MaxPending \in Nat \ {0}

VARIABLES
  \* server
  tokenVisibility, \* WindowToken::mClientVisibility
  visibility,      \* WindowState::mVisibility
  srvReq,          \* WindowState::mVsyncRequest
  vsyncEnabled,    \* RootContainer::mVsyncEnabled
  updates,         \* changes of tokenVisibility so far
  \* apps
  appVisible,      \* BaseWindow::mAppVisible
  appReq,          \* BaseWindow::mVsyncRequest
  hasSurface,      \* mSurfaceControl is there, and valid
  vsyncEvents,     \* UIDriverProxy::mVsyncEnabled: LVGL listens for VSYNC
  calling,         \* the method that is in its call of relayout
  answer,          \* what relayout returned, "none" while the server has not handled it
  \* one-way calls on their way
  toApp,           \* dispatchAppVisibility(true | false) and onFrame
  toServer         \* requestVsync

srvVars == <<tokenVisibility, visibility, srvReq, vsyncEnabled, updates>>
appVars == <<appVisible, appReq, hasSurface, vsyncEvents, calling, answer>>
vars == <<srvVars, appVars, toApp, toServer>>

TypeOK ==
  /\ tokenVisibility \in {"visible", "hold", "gone"}
  /\ visibility \in [Windows -> {"visible", "hold", "gone"}]
  /\ srvReq \in [Windows -> VsyncRequest] /\ appReq \in [Windows -> VsyncRequest]
  /\ vsyncEnabled \in BOOLEAN
  /\ updates \in 0 .. MaxUpdates
  /\ appVisible \in [Windows -> BOOLEAN]
  /\ hasSurface \in [Windows -> BOOLEAN]
  /\ vsyncEvents \in [Windows -> BOOLEAN]
  /\ calling \in [Windows -> {"none", "setVisible", "onFrame"}]
  /\ answer \in [Windows -> {"none", "surface", "failed"}]
  /\ toApp \in [Windows -> Seq({"show", "hide", "frame"})]
  /\ toServer \in [Windows -> Seq(VsyncRequest)]

(* attachIWindow has added each window as visible; its token is not yet. *)
Init ==
  /\ tokenVisibility = "gone" /\ vsyncEnabled = FALSE /\ updates = 0
  /\ visibility = [w \in Windows |-> "visible"]
  /\ srvReq = [w \in Windows |-> None] /\ appReq = [w \in Windows |-> None]
  /\ appVisible = [w \in Windows |-> FALSE]
  /\ hasSurface = [w \in Windows |-> FALSE]
  /\ vsyncEvents = [w \in Windows |-> FALSE]
  /\ calling = [w \in Windows |-> "none"]
  /\ answer = [w \in Windows |-> "none"]
  /\ toApp = [w \in Windows |-> << >>]
  /\ toServer = [w \in Windows |-> << >>]

-----------------------------------------------------------------------------
(* Server *)

(* RootContainer::enableVsync: the timer whose callback is responseVsync. *)
EnableVsync(enable) == vsyncEnabled' = enable

(***************************************************************************)
(* WindowState::sendAppVisibilityToClients(v): a window that is gone is    *)
(* not told to go again; the others get the new visibility, a request that *)
(* goes with it, and the call that tells the app.                          *)
(***************************************************************************)
Told(v) == {w \in Windows : ~(visibility[w] = "gone" /\ v = "gone")}
RequestWith(v, req) ==
  CASE v # "visible" -> None
    [] v = "visible" /\ req = None -> Single
    [] OTHER -> req
CallFor(v) == CASE v = "visible" -> <<"show">> [] v = "gone" -> <<"hide">> [] OTHER -> << >>

(* A window is told only what the server thinks is new: what ShownWithToken would show. *)
UpdateWhenDifferent(v) ==
  LET told == {w \in Windows : visibility[w] # v} IN
  /\ updates < MaxUpdates /\ v # tokenVisibility
  /\ tokenVisibility' = v
  /\ updates' = updates + 1
  /\ visibility' = [w \in Windows |-> IF w \in told THEN v ELSE visibility[w]]
  /\ srvReq' = [w \in Windows |-> IF w \in told THEN RequestWith(v, srvReq[w]) ELSE srvReq[w]]
  /\ toApp' = [w \in Windows |-> IF w \in told THEN toApp[w] \o CallFor(v) ELSE toApp[w]]
  /\ EnableVsync(vsyncEnabled \/ told # {})
  /\ UNCHANGED <<appVars, toServer>>

(***************************************************************************)
(* updateWindowTokenVisibility, WindowToken::setClientVisibility.  Even a  *)
(* request that is withdrawn starts the timer.                             *)
(***************************************************************************)
UpdateTokenVisibility(v) ==
  /\ updates < MaxUpdates /\ v # tokenVisibility
  /\ tokenVisibility' = v
  /\ updates' = updates + 1
  /\ visibility' = [w \in Windows |-> IF w \in Told(v) THEN v ELSE visibility[w]]
  /\ srvReq' = [w \in Windows |-> IF w \in Told(v) THEN RequestWith(v, srvReq[w]) ELSE srvReq[w]]
  /\ toApp' = [w \in Windows |-> IF w \in Told(v) THEN toApp[w] \o CallFor(v) ELSE toApp[w]]
  /\ EnableVsync(vsyncEnabled \/ Told(v) # {})
  /\ UNCHANGED <<appVars, toServer>>

(* A request does not start the timer: what FramesArrive would show. *)
ScheduleWithoutTimer(w) ==
  /\ toServer[w] # << >>
  /\ toServer' = [toServer EXCEPT ![w] = Tail(@)]
  /\ srvReq' = [srvReq EXCEPT ![w] = Head(toServer[w])]
  /\ UNCHANGED <<tokenVisibility, visibility, vsyncEnabled, updates, appVars, toApp>>

(* The request is served whether or not the window is still visible. *)
ScheduleVsync(w) ==
  /\ toServer[w] # << >>
  /\ toServer' = [toServer EXCEPT ![w] = Tail(@)]
  /\ srvReq' = [srvReq EXCEPT ![w] = Head(toServer[w])]
  /\ EnableVsync(TRUE)
  /\ UNCHANGED <<tokenVisibility, visibility, updates, appVars, toApp>>

(* WindowState::onVsync for each of the windows woken. *)
OnVsync(woken) ==
  /\ \A w \in woken : Len(toApp[w]) < MaxPending
  /\ srvReq' = [w \in Windows |-> IF w \in woken THEN NextVsyncState(srvReq[w]) ELSE srvReq[w]]
  /\ toApp' = [w \in Windows |-> IF w \in woken THEN Append(toApp[w], "frame") ELSE toApp[w]]

Shown == {w \in Windows : visibility[w] # "gone"}

(***************************************************************************)
(* responseVsync: every visible window that has asked for a frame is sent  *)
(* one; the timer stops when none of them wants another.                   *)
(***************************************************************************)
ResponseVsync ==
  /\ vsyncEnabled
  /\ OnVsync({w \in Shown : srvReq[w] # None})
  /\ EnableVsync(\E w \in Shown : srvReq'[w] # None)
  /\ UNCHANGED <<tokenVisibility, visibility, updates, appVars, toServer>>

(* relayout: the visibility is the app's from here on; a surface may fail. *)
Relayout(w) ==
  /\ calling[w] # "none" /\ answer[w] = "none"
  /\ visibility' = [visibility EXCEPT ![w] = IF appVisible[w] THEN "visible" ELSE "gone"]
  /\ \E a \in (IF appVisible[w] THEN {"surface", "failed"} ELSE {"failed"}) :
       answer' = [answer EXCEPT ![w] = a]
  /\ UNCHANGED <<tokenVisibility, srvReq, vsyncEnabled, updates, toApp, toServer,
                 appVisible, appReq, hasSurface, vsyncEvents, calling>>

-----------------------------------------------------------------------------
(* App *)

Idle(w) == calling[w] = "none"
Received(w, call) == Idle(w) /\ toApp[w] # << >> /\ Head(toApp[w]) = call
            /\ toApp' = [toApp EXCEPT ![w] = Tail(@)]

(***************************************************************************)
(* BaseWindow::scheduleVsync(freq), the window remembering req so far: a   *)
(* hidden window does not ask, and none asks for what it asked for before. *)
(***************************************************************************)
Request(w, freq, req, listening) ==
  LET new == IF listening THEN Periodic ELSE freq IN
  IF appVisible'[w] /\ new # req
  THEN /\ appReq' = [appReq EXCEPT ![w] = new]
       /\ toServer' = [toServer EXCEPT ![w] = Append(@, new)]
  ELSE /\ appReq' = [appReq EXCEPT ![w] = req]
       /\ UNCHANGED toServer

(***************************************************************************)
(* dispatchAppVisibility: setVisible, up to its call of relayout.  A       *)
(* window that appears is invalidated first, and LVGL may ask for a frame  *)
(* (LV_EVENT_REFR_REQUEST) before the server has handled relayout.         *)
(***************************************************************************)
SetVisible(w, v) ==
  /\ Received(w, IF v THEN "show" ELSE "hide")
  /\ v # appVisible[w]
  /\ appVisible' = [appVisible EXCEPT ![w] = v]
  /\ calling' = [calling EXCEPT ![w] = "setVisible"]
  /\ \/ UNCHANGED <<appReq, toServer>>
     \/ \E freq \in {SingleSuppress, Periodic} : v /\ Request(w, freq, appReq[w], vsyncEvents[w])
  /\ UNCHANGED <<srvVars, hasSurface, vsyncEvents, answer>>

SetVisibleAlready(w) ==
  /\ Received(w, IF appVisible[w] THEN "show" ELSE "hide")
  /\ UNCHANGED <<srvVars, appVars, toServer>>

(***************************************************************************)
(* setVisible forgets to withdraw the request of a hidden window (what     *)
(* NoLostWakeup would show), or to ask for the first frame of a shown one  *)
(* (what PeriodicIsWanted would show).                                     *)
(***************************************************************************)
HideKeepsRequest(w) ==
  /\ calling[w] # "none" /\ answer[w] # "none"
  /\ calling' = [calling EXCEPT ![w] = "none"]
  /\ answer' = [answer EXCEPT ![w] = "none"]
  /\ hasSurface' = [hasSurface EXCEPT ![w] = answer[w] = "surface"]
  /\ UNCHANGED appVisible
  /\ IF calling[w] = "setVisible" /\ appVisible[w]
     THEN Request(w, Single, appReq[w], vsyncEvents[w])
     ELSE UNCHANGED <<appReq, toServer>>
  /\ UNCHANGED <<srvVars, vsyncEvents, toApp>>

ShowAsksNothing(w) ==
  /\ calling[w] # "none" /\ answer[w] # "none"
  /\ calling' = [calling EXCEPT ![w] = "none"]
  /\ answer' = [answer EXCEPT ![w] = "none"]
  /\ hasSurface' = [hasSurface EXCEPT ![w] = answer[w] = "surface"]
  /\ appReq' = IF appVisible[w] THEN appReq ELSE [appReq EXCEPT ![w] = None]
  /\ UNCHANGED <<srvVars, appVisible, vsyncEvents, toApp, toServer>>

(* relayout has returned: the rest of setVisible, or of handleOnFrame. *)
RelayoutReturns(w) ==
  /\ calling[w] # "none" /\ answer[w] # "none"
  /\ calling' = [calling EXCEPT ![w] = "none"]
  /\ answer' = [answer EXCEPT ![w] = "none"]
  /\ hasSurface' = [hasSurface EXCEPT ![w] = answer[w] = "surface"]
  /\ UNCHANGED appVisible
  /\ \/ calling[w] = "onFrame" /\ UNCHANGED <<appReq, toServer>>
     \/ /\ calling[w] = "setVisible" /\ ~appVisible[w]
        /\ appReq' = [appReq EXCEPT ![w] = None]
        /\ UNCHANGED toServer
     \/ /\ calling[w] = "setVisible" /\ appVisible[w]
        /\ Request(w, Single, appReq[w], vsyncEvents[w])
  /\ UNCHANGED <<srvVars, vsyncEvents, toApp>>

(* onFrame with nothing to do, a frame drawn, or nothing drawn. *)
OnFrame(w) ==
  /\ Received(w, "frame")
  /\ ~appVisible[w] \/ hasSurface[w]
  /\ appReq' = [appReq EXCEPT ![w] = NextVsyncState(@)]
  /\ UNCHANGED <<srvVars, appVisible, hasSurface, vsyncEvents, calling, answer, toServer>>

(* onFrame with no buffer to draw into: try again at the next frame. *)
OnFrameNoBuffer(w) ==
  /\ Received(w, "frame")
  /\ appVisible[w] /\ hasSurface[w]
  /\ Len(toServer[w]) < MaxPending
  /\ UNCHANGED appVisible
  /\ LET req == NextVsyncState(appReq[w]) IN
     IF req # Periodic THEN Request(w, SingleSuppress, req, vsyncEvents[w])
     ELSE UNCHANGED <<appReq, toServer>>
  /\ UNCHANGED <<srvVars, hasSurface, vsyncEvents, calling, answer>>

(* onFrame without a surface: ask for one. *)
OnFrameNoSurface(w) ==
  /\ Received(w, "frame")
  /\ appVisible[w] /\ ~hasSurface[w]
  /\ appReq' = [appReq EXCEPT ![w] = NextVsyncState(@)]
  /\ calling' = [calling EXCEPT ![w] = "onFrame"]
  /\ UNCHANGED <<srvVars, appVisible, hasSurface, vsyncEvents, answer, toServer>>

(* UIDriverProxy::onInvalidate, for a change on the screen or an animation. *)
OnInvalidate(w) ==
  /\ Idle(w) /\ Len(toServer[w]) < MaxPending
  /\ UNCHANGED appVisible
  /\ \E freq \in {SingleSuppress, Periodic} : Request(w, freq, appReq[w], vsyncEvents[w])
  /\ UNCHANGED <<srvVars, hasSurface, vsyncEvents, calling, answer, toApp>>

(* UIDriverProxy::onFBVsyncRequest: LVGL starts or stops to listen. *)
OnFBVsyncRequest(w) ==
  /\ w \in Listeners
  /\ Idle(w) /\ Len(toServer[w]) < MaxPending
  /\ vsyncEvents' = [vsyncEvents EXCEPT ![w] = ~@]
  /\ UNCHANGED appVisible
  /\ Request(w, IF vsyncEvents'[w] THEN Periodic ELSE SingleSuppress, appReq[w], vsyncEvents'[w])
  /\ UNCHANGED <<srvVars, hasSurface, calling, answer, toApp>>

HandleCall(w) ==
  \/ \E v \in BOOLEAN : SetVisible(w, v)
  \/ SetVisibleAlready(w)
  \/ OnFrame(w) \/ OnFrameNoBuffer(w) \/ OnFrameNoSurface(w)

Next ==
  \/ \E v \in Visibilities : UpdateTokenVisibility(v)
  \/ ResponseVsync
  \/ \E w \in Windows :
       \/ ScheduleVsync(w) \/ Relayout(w) \/ RelayoutReturns(w)
       \/ HandleCall(w) \/ OnInvalidate(w) \/ OnFBVsyncRequest(w)

Spec == Init /\ [][Next]_vars

(* Every call is handled in the end, and the timer runs while it is enabled. *)
Fairness ==
  /\ WF_vars(ResponseVsync)
  /\ \A w \in Windows :
       /\ WF_vars(ScheduleVsync(w)) /\ WF_vars(Relayout(w)) /\ WF_vars(RelayoutReturns(w))
       /\ WF_vars(HandleCall(w))

FairSpec == Spec /\ Fairness

-----------------------------------------------------------------------------
(* Properties *)

(* Nothing is on its way between the server and the app of w. *)
Settled(w) == toApp[w] = << >> /\ toServer[w] = << >> /\ calling[w] = "none"

(***************************************************************************)
(* No wake-up is lost.  A visible window that has asked for frames, and    *)
(* will not ask again until it gets one, is known to the server to be      *)
(* visible and to have asked for at least as much, and the timer runs.     *)
(* Both sides count the request down on their own, and both withdraw it    *)
(* when the window is hidden, at different times.                          *)
(*                                                                         *)
(* The timer is left out for a window whose UI listens for VSYNC: the code *)
(* can leave such a window visible and without frames (see README, "Where  *)
(* the code falls short").                                                 *)
(***************************************************************************)
NoLostWakeup ==
  \A w \in Windows :
    Settled(w) /\ appVisible[w] /\ appReq[w] # None
      => /\ srvReq[w] >= appReq[w] /\ visibility[w] # "gone"
         /\ vsyncEnabled \/ vsyncEvents[w]

(***************************************************************************)
(* The server does not wake an app for every frame when the app does not   *)
(* want that any more, whatever requests were on their way while the       *)
(* window was hidden and shown again.                                      *)
(***************************************************************************)
PeriodicIsWanted ==
  \A w \in Windows :
    Settled(w) /\ visibility[w] # "gone" /\ srvReq[w] = Periodic => appReq[w] = Periodic

(***************************************************************************)
(* A token that is visible has visible windows, on both sides, once every  *)
(* call has arrived, however often it was hidden and shown before.         *)
(***************************************************************************)
ShownWithToken ==
  \A w \in Windows :
    Settled(w) /\ tokenVisibility = "visible" => appVisible[w] /\ visibility[w] = "visible"

(***************************************************************************)
(* A window that has asked for a frame is sent one, or is hidden, or its   *)
(* UI begins to listen for VSYNC.                                          *)
(***************************************************************************)
FramesArrive ==
  \A w \in Windows :
    appVisible[w] /\ appReq[w] # None
      ~> \/ ~appVisible[w] \/ vsyncEvents[w]
         \/ toApp[w] # << >> /\ Head(toApp[w]) = "frame"

(***************************************************************************)
(* aidl/os/wm/IWindowManager.aidl:68 "Change the visibility of a window by *)
(* token": a token that is gone has no window the app believes visible,    *)
(* once every call has arrived.                                            *)
(***************************************************************************)
HiddenWithToken ==
  \A w \in Windows : Settled(w) /\ tokenVisibility = "gone" => ~appVisible[w]
=============================================================================
