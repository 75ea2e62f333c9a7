----------------------------- MODULE WindowTouch -----------------------------
(***************************************************************************)
(* A touch on the window of WindowTransition, from LVGL's events on the    *)
(* server (server/lvgl/lv_mainwnd.c, server/WindowNode.cpp) through the    *)
(* queue of the window's InputDispatcher to LVGL in the app                *)
(* (app/InputMonitor.cpp, app/LVGLDriverProxy.cpp).  Visibility, animation *)
(* and removal go on meanwhile: they open and close the window's input and *)
(* delete it, and an app that waits for relayout reads nothing.            *)
(*                                                                         *)
(* A message is the state it reports; points, which the app clamps to its  *)
(* display, are left out.  LVGL decides which events a window gets and in  *)
(* which order, so they come as they may.                                  *)
(***************************************************************************)
EXTENDS WindowTransition

CONSTANT QueueSize \* messages the queue holds, mq_maxmsg

ASSUME QueueAssumption == QueueSize \in Nat \ {0}

VARIABLES
  pressing,   \* the widget is the object pressed, for LVGL on the server
  queue,      \* messages sent and not received
  appPressed, \* LVGLDriverProxy::mLastEventState
  cut         \* history: the last event of the window was not sent to the app
touchVars == <<pressing, queue, appPressed, cut>>
vars == <<transitionVars, touchVars>>

TypeOK ==
  /\ TransitionTypeOK
  /\ pressing \in BOOLEAN /\ appPressed \in BOOLEAN /\ cut \in BOOLEAN
  /\ queue \in Seq({"pressed", "released"}) /\ Len(queue) <= QueueSize

Init ==
  /\ TransitionInit
  /\ pressing = FALSE /\ queue = << >> /\ appPressed = FALSE /\ cut = FALSE

-----------------------------------------------------------------------------
(* Server *)

(* WindowState::setVisibility: the callback and CLICKABLE come and go with it. *)
InputEnabled == win.visibility = "visible"

Clickable == win.alive /\ win.shown /\ InputEnabled

(* send_input_event to sendMessage: a closed input or queue, or a full one, drops the event. *)
SendInputEvent(state) ==
  LET sent == InputEnabled /\ ~win.removed /\ ~ended /\ Len(queue) < QueueSize IN
  /\ queue' = IF sent THEN Append(queue, state) ELSE queue
  /\ cut' = ~sent

(* LV_EVENT_PRESSED, then LV_EVENT_PRESSING whenever the device is read. *)
Pressed ==
  /\ ~pressing /\ Clickable /\ pressing' = TRUE
  /\ SendInputEvent("pressed")
  /\ UNCHANGED appPressed

Pressing ==
  /\ pressing /\ win.alive
  /\ SendInputEvent("pressed")
  /\ UNCHANGED <<pressing, appPressed>>

(* A touch that leaves the window is not reported: what TouchAgrees would show. *)
ReleasedInside ==
  /\ pressing /\ pressing' = FALSE
  /\ \/ SendInputEvent("released")
     \/ UNCHANGED <<queue, cut>>
  /\ UNCHANGED appPressed

(* LV_EVENT_RELEASED, LEAVE and PRESS_LOST. *)
Released ==
  /\ pressing /\ pressing' = FALSE
  /\ SendInputEvent("released")
  /\ UNCHANGED appPressed

(* LV_EVENT_DEFOCUSED: a touch elsewhere. *)
Defocused ==
  /\ ~pressing /\ win.alive
  /\ SendInputEvent("released")
  /\ UNCHANGED <<pressing, appPressed>>

-----------------------------------------------------------------------------
(* App *)

(* What the reading of some messages leaves in mLastEventState: _indev_read takes one after the other. *)
IndevRead(messages) == messages[Len(messages)] = "pressed"

(* The poll of the monitor: handleEvent, which reads until the queue is empty. *)
HandleEvent ==
  /\ queue # << >> /\ ~calling /\ ~ended
  /\ appPressed' = IndevRead(queue)
  /\ queue' = << >>
  /\ UNCHANGED <<pressing, cut>>

-----------------------------------------------------------------------------

(* A deleted widget is pressed no longer; an app that has ended reads nothing. *)
TouchFollows ==
  /\ pressing' = (pressing /\ win'.alive)
  /\ cut' = (cut \/ (pressing /\ ~win'.alive))
  /\ queue' = IF ended' THEN << >> ELSE queue
  /\ appPressed' = (appPressed /\ ~ended')

TouchStep == Pressed \/ Pressing \/ Released \/ Defocused \/ HandleEvent

Next ==
  \/ TransitionNext /\ TouchFollows
  \/ TouchStep /\ UNCHANGED transitionVars

Spec == Init /\ [][Next]_vars /\ TransitionFairness

-----------------------------------------------------------------------------

(***************************************************************************)
(* An app that has received everything takes its window to be pressed      *)
(* exactly as long as it is, although the window may be shown, hidden and  *)
(* animated in the middle of a touch, and the touch may end by leaving it; *)
(* unless the last event was cut off by a closed input or a full queue:    *)
(* then the app is left with what it knew (see README).                    *)
(***************************************************************************)
TouchAgrees == queue = << >> /\ ~cut /\ ~ended => appPressed = pressing
=============================================================================
