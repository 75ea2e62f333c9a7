---------------------------- MODULE GestureDetector ----------------------------
(***************************************************************************)
(* How the server takes swipes from the edge of the screen out of the      *)
(* touches, and what it reports when the screen is off                     *)
(* (server/GestureDetector.h, include/wm/GestureDetectorState.h).  LVGL    *)
(* calls recognizeGesture for every sample of the touch device; a result   *)
(* that is not zero keeps the sample from the windows                      *)
(* (WindowManagerService::responseInput, RootContainer::readInput).        *)
(*                                                                         *)
(* The byte of swipe_*, trigger_* and screen_off bits is the set of those  *)
(* that are 1.  The last three variables only record the touch, for the    *)
(* properties; no action looks at them.                                    *)
(***************************************************************************)
EXTENDS Integers, FiniteSets

CONSTANTS Width, Height, \* of the display: setDisplayInfo
          Edge,          \* GESTURE_DETECTOR_TRIGGER_DISTANCE
          Far            \* GESTURE_DETECTOR_INVALID_DISTANCE

ASSUME SizeAssumption ==
  /\ {Width, Height, Edge, Far} \subseteq Nat
  /\ Edge < Width /\ Edge < Height /\ Far > 0

Points == [x : 0 .. Width - 1, y : 0 .. Height - 1]
XSwipe == {"swipe_left", "swipe_right"}
YSwipe == {"swipe_up", "swipe_down"}
Triggers == {"trigger_x", "trigger_y"}
Flags == XSwipe \cup YSwipe \cup Triggers \cup {"screen_off"}

VARIABLES
  screenOn,  \* mIsScreenOn
  lastState, \* mLastInputState
  swipe,     \* mSwipe
  origin,    \* mPressedX, mPressedY
  last,      \* mLastX, mLastY
  ret,       \* what recognizeGesture returned last
  \* the touch so far
  touch,     \* "none"; "plain"; or "odd": it began where the last one ended, or the screen was off
  start,     \* its first point
  withheld   \* its first sample was kept from the windows

detector == <<lastState, swipe, origin, last, ret>>
record == <<touch, start, withheld>>
vars == <<screenOn, detector, record>>

TypeOK ==
  /\ screenOn \in BOOLEAN
  /\ lastState \in {"PRESSED", "RELEASED"}
  /\ swipe \subseteq Flags /\ ret \subseteq Flags
  /\ origin \in Points /\ last \in Points /\ start \in Points
  /\ touch \in {"none", "plain", "odd"}
  /\ withheld \in BOOLEAN

Corner == [x |-> 0, y |-> 0]

Init ==
  /\ screenOn \in BOOLEAN
  /\ lastState = "RELEASED" /\ swipe = {} /\ ret = {}
  /\ origin = Corner /\ last = Corner
  /\ touch = "none" /\ start = Corner /\ withheld = FALSE

-----------------------------------------------------------------------------
(* recognizeGesture *)

(* The edge a touch begins at; the first that fits, in this order. *)
DirectionOf(p) ==
  IF      p.y <= Edge          THEN {"swipe_down"}
  ELSE IF p.y >= Height - Edge THEN {"swipe_up"}
  ELSE IF p.x <= Edge          THEN {"swipe_right"}
  ELSE IF p.x >= Width - Edge  THEN {"swipe_left"}
  ELSE {}

(* What a finger that has moved to p has triggered. *)
Triggered(p) ==
  IF \/ "swipe_left" \in swipe /\ origin.x - p.x >= Far
     \/ "swipe_right" \in swipe /\ p.x - origin.x >= Far
  THEN {"trigger_x"}
  ELSE {t \in {"trigger_y"} : \/ "swipe_up" \in swipe /\ origin.y - p.y >= Far
                              \/ "swipe_down" \in swipe /\ p.y - origin.y >= Far}

(***************************************************************************)
(* Two mistakes: a trigger is never taken back (what ReleaseVerdict would  *)
(* show), or a finger that is not far enough ends the swipe (WholeTouch).  *)
(***************************************************************************)
MovingKeepsTrigger(p) == swipe' = swipe \cup Triggered(p)
MovingEndsSwipe(p) == swipe' = IF Triggered(p) # {} THEN swipe \cup Triggered(p) ELSE {}

(* The trigger goes when the finger comes back. *)
Moving(p) == swipe' = IF Triggered(p) # {} THEN swipe \cup Triggered(p) ELSE swipe \ Triggers

(* The touch, as the properties look at it, when its next sample is p. *)
Recorded(p) ==
  /\ touch' = IF ~screenOn \/ touch = "odd" \/ (touch = "none" /\ p = last) THEN "odd" ELSE "plain"
  /\ start' = IF touch = "none" THEN p ELSE start
  /\ withheld' = IF touch = "none" THEN ret' # {} ELSE withheld

PressedScreenOff(p) ==
  /\ ~screenOn
  /\ swipe' = swipe \cup {"screen_off"} /\ ret' = swipe'
  /\ lastState' = "PRESSED" /\ last' = p
  /\ Recorded(p)
  /\ UNCHANGED <<screenOn, origin>>

(* A sample at the last point is looked at no further. *)
PressedSamePoint(p) ==
  /\ screenOn /\ p = last
  /\ ret' = swipe
  /\ Recorded(p)
  /\ UNCHANGED <<screenOn, lastState, swipe, origin, last>>

(* A touch that begins has its direction from its first point. *)
PressedFirst(p) ==
  /\ screenOn /\ p # last /\ lastState = "RELEASED"
  /\ origin' = p
  /\ swipe' = swipe \cup DirectionOf(p)
  /\ ret' = IF swipe' \cap (XSwipe \cup YSwipe) = {} THEN {} ELSE swipe'
  /\ lastState' = "PRESSED" /\ last' = p
  /\ Recorded(p)
  /\ UNCHANGED screenOn

PressedAgain(p) ==
  /\ screenOn /\ p # last /\ lastState = "PRESSED"
  /\ Moving(p) /\ ret' = swipe'
  /\ lastState' = "PRESSED" /\ last' = p
  /\ Recorded(p)
  /\ UNCHANGED <<screenOn, origin>>

(* The flags of one touch stay for the next: what OneDirection would show. *)
ReleasedKeepsSwipe(p) ==
  /\ ret' = swipe
  /\ lastState' = "RELEASED" /\ last' = p
  /\ touch' = "none" /\ start' = Corner /\ withheld' = FALSE
  /\ UNCHANGED <<screenOn, origin, swipe>>

Released(p) ==
  /\ IF swipe \cap (XSwipe \cup YSwipe \cup {"screen_off"}) = {}
     THEN ret' = {} /\ UNCHANGED swipe
     ELSE ret' = swipe /\ swipe' = {}
  /\ lastState' = "RELEASED" /\ last' = p
  /\ touch' = "none" /\ start' = Corner /\ withheld' = FALSE
  /\ UNCHANGED <<screenOn, origin>>

(* The poll of persist.brightness.target *)
ScreenSwitched ==
  /\ screenOn' = ~screenOn
  /\ UNCHANGED <<detector, record>>

Next ==
  \/ \E p \in Points :
       \/ PressedScreenOff(p) \/ PressedSamePoint(p) \/ PressedFirst(p) \/ PressedAgain(p)
       \/ Released(p)
  \/ ScreenSwitched

Spec == Init /\ [][Next]_vars

-----------------------------------------------------------------------------
(* Properties *)

(***************************************************************************)
(* A touch swipes in one direction, and in none while no finger is down:   *)
(* the flags are only cleared by a release, and only if it finds a flag it *)
(* knows, so one left over would turn the next touch into a swipe.         *)
(***************************************************************************)
OneDirection ==
  /\ Cardinality(swipe \cap (XSwipe \cup YSwipe)) <= 1
  /\ lastState = "RELEASED" => swipe = {}

(***************************************************************************)
(* What a release reports depends on where the touch began and where it    *)
(* ended, and on nothing between: the direction of the edge it began at,   *)
(* and the trigger if it ended far enough from it, however often it went   *)
(* there and came back.                                                    *)
(***************************************************************************)
Verdict(from, to) ==
  CASE from.y <= Edge ->
         {"swipe_down"} \cup {t \in {"trigger_y"} : to.y >= from.y + Far}
    [] from.y > Edge /\ from.y >= Height - Edge ->
         {"swipe_up"} \cup {t \in {"trigger_y"} : to.y <= from.y - Far}
    [] from.y > Edge /\ from.y < Height - Edge /\ from.x <= Edge ->
         {"swipe_right"} \cup {t \in {"trigger_x"} : to.x >= from.x + Far}
    [] from.y > Edge /\ from.y < Height - Edge /\ from.x > Edge /\ from.x >= Width - Edge ->
         {"swipe_left"} \cup {t \in {"trigger_x"} : to.x <= from.x - Far}
    [] OTHER -> {}

ReleaseVerdict == [][touch = "plain" /\ touch' = "none" => ret' = Verdict(start, last)]_vars

(***************************************************************************)
(* A touch goes to the windows as a whole or not at all: a window that     *)
(* sees a press sees the release.  Not so for a touch that is odd: see     *)
(* README, "Where the code falls short".                                   *)
(***************************************************************************)
WholeTouch ==
  [][touch = "plain" /\ touch' # "odd" /\ screenOn' = screenOn
       => (ret' # {}) = withheld]_vars
=============================================================================
