----------------------------- MODULE FrameRequests -----------------------------
(***************************************************************************)
(* When the frames of DirectRender come: the app draws in onFrame only,    *)
(* and the server sends onFrame to a window that has asked for it.         *)
(*                                                                         *)
(* LVGL has no refresh timer of its own here (_disp_init deletes it): it   *)
(* tells BaseWindow that something is to be drawn, once for an area, and   *)
(* BaseWindow asks the server (scheduleVsync).  The request is counted     *)
(* down by every frame, so whoever leaves something undone in a frame has  *)
(* to ask again, or the window stands still.                               *)
(*                                                                         *)
(* Each action is one of DirectRender and what it does to the request.     *)
(* WindowSession has the calls that carry requests and frames, and shows   *)
(* that a window that asks is sent a frame (FramesArrive); here a frame    *)
(* may come at any time, and does if there is a request.  A window whose   *)
(* UI listens for VSYNC is left out, as it is there.                       *)
(***************************************************************************)
EXTENDS DirectRender, VsyncRequests

VARIABLES
  request, \* BaseWindow::mVsyncRequest
  late     \* history: handleOnFrame has made the surface, and no frame has come since

requests == <<request, late>>

RequestsInit == PictureInit /\ request = None /\ late = FALSE

-----------------------------------------------------------------------------
(* BaseWindow::scheduleVsync(freq); a hidden window does not ask. *)
ScheduleVsync(freq) == request' = IF appVisible' THEN freq ELSE request

(* UIDriverProxy::onInvalidate; an animation of the UI asks for every frame. *)
OnInvalidate == \E freq \in {SingleSuppress, Periodic} : ScheduleVsync(freq)

(***************************************************************************)
(* LV_EVENT_REFR_REQUEST: LVGL asks for what is newly dirty.  Whether it   *)
(* does for an area that is dirty already is its own matter.               *)
(***************************************************************************)
RefrRequest == OnInvalidate \/ (dirty' = dirty /\ UNCHANGED request)

Changes ==
  /\ \E lo, hi \in Regions : lo <= hi /\ UiChanges(lo .. hi)
  /\ RefrRequest /\ UNCHANGED late

Shows(visible) ==
  /\ SetVisible(visible) /\ UpdateVisibility(visible) /\ Repaint({})
  /\ RefrRequest /\ UNCHANGED late

(* The end of setVisible; handleOnFrame asks for nothing when it has made a surface. *)
Relayouted ==
  /\ Returns
  /\ late' = (calling = "onFrame" /\ appSurface' \in Surfaces)
  /\ \/ calling = "onFrame" /\ UNCHANGED request
     \/ calling = "setVisible" /\ ~appVisible /\ request' = None
     \/ calling = "setVisible" /\ appVisible /\ ScheduleVsync(Single)

(* onFrame, first of all *)
Counted == request' = NextVsyncState(request)

FrameMakesSurface ==
  /\ FrameWithoutSurface /\ Repaint({}) /\ UNCHANGED <<uiVars, pixels, crops, screen>>
  /\ Counted /\ UNCHANGED late

(* onFrame of a hidden window, or of one with a surface that is not valid. *)
FrameSkipped ==
  /\ Idle /\ (~appVisible \/ appSurface = Invalid)
  /\ Counted /\ UNCHANGED <<allVars, late>>

(* A frame that finds no buffer asks for nothing: what FrameIsAsked would show. *)
CountedOnly == Counted

(* A frame that finds no buffer asks for another. *)
CountedOrAsked ==
  IF CanDequeue(Synced) \/ request = Periodic THEN Counted ELSE ScheduleVsync(SingleSuppress)

FrameDraws ==
  /\ FrameBegin /\ UNCHANGED picture
  /\ CountedOrAsked /\ late' = FALSE

Draws == Draw /\ UNCHANGED requests
Applying == Apply /\ UNCHANGED requests
Rendering == ServerRender /\ UNCHANGED requests
Removing ==
  /\ Remove \/ RemoveCleanup
  /\ Repaint({}) /\ UNCHANGED <<uiVars, pixels, crops, screen>>
  /\ UNCHANGED requests

RequestsNext ==
  \/ Changes \/ (\E visible \in BOOLEAN : Shows(visible)) \/ Relayouted
  \/ FrameMakesSurface \/ FrameSkipped \/ FrameDraws \/ Draws
  \/ Applying \/ Removing \/ Rendering

everything == <<allVars, requests>>

RequestsSpec == RequestsInit /\ [][RequestsNext]_everything

(***************************************************************************)
(* Each process has one loop, which goes on: the app ends its calls and    *)
(* what it draws, the server applies what it was sent and draws what is    *)
(* dirty.  A frame comes only if one is requested, and need only come to a *)
(* window whose surface the server has.                                    *)
(***************************************************************************)
RequestsFairSpec ==
  /\ RequestsSpec
  /\ WF_everything(Relayouted \/ Draws \/ (Attached /\ request # None /\ FrameDraws))
  /\ WF_everything(Applying \/ Rendering)

-----------------------------------------------------------------------------
(* Properties *)

(***************************************************************************)
(* The surface was made in the last frame asked for, and no other has      *)
(* come: relayout made no surface in setVisible, the single request of     *)
(* setVisible has brought the frame that did, and handleOnFrame returns    *)
(* without asking again.  The window is blank until its UI asks (see       *)
(* README, "Where the code falls short").                                  *)
(***************************************************************************)
NeverAsked == late /\ request = None

(***************************************************************************)
(* A window that needs a frame has asked for it: when there is something   *)
(* to draw, and when it has no free buffer, since the key of a released    *)
(* one is read by the next frame only.  The request counts down with every *)
(* frame, drawn or not, and a single one is used up by the frame it brings.*)
(***************************************************************************)
FrameIsAsked ==
  Idle /\ appVisible /\ appSurface \in Surfaces /\ request = None =>
    \/ NeverAsked
    \/ dirty = {} /\ \E k \in DOMAIN producer.state : producer.state[k] = "FREE"

(***************************************************************************)
(* What the app would draw comes to the screen, if the window stays        *)
(* visible with its surface and somebody asks for the first frame of it.   *)
(***************************************************************************)
PictureArrives ==
  <>[](Attached /\ appVisible /\ ~NeverAsked) => <>[](screen = ui)
=============================================================================
