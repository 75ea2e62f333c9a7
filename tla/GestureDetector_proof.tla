------------------------ MODULE GestureDetector_proof ------------------------
(***************************************************************************)
(* Proofs about GestureDetector, for a display of any size and any         *)
(* distances.  The detector keeps flags and the point a touch began at;    *)
(* the invariant says what the flags are at every sample of a plain touch: *)
(* the verdict for its first point and the point it has reached.           *)
(***************************************************************************)
EXTENDS GestureDetector, FiniteSetTheorems, TLAPS

Directions == XSwipe \cup YSwipe

(* At most one direction, and a trigger only with one. *)
FlagsInv ==
  /\ swipe \cap Directions = {} \/ \E d \in Directions : swipe \cap Directions = {d}
  /\ swipe \cap Triggers # {} => swipe \cap Directions # {}

(* Between touches nothing is left. *)
RestInv ==
  /\ lastState = "RELEASED" => swipe = {}
  /\ touch = "none" => lastState = "RELEASED"

PlainInv ==
  touch = "plain" =>
    /\ lastState = "PRESSED" /\ origin = start
    /\ swipe = Verdict(start, last)
    /\ withheld = (Verdict(start, last) # {})

IndInv == TypeOK /\ FlagsInv /\ RestInv /\ PlainInv

-----------------------------------------------------------------------------
(* The five places a touch may begin at. *)
AtTop(p) == p.y <= Edge
AtBottom(p) == p.y > Edge /\ p.y >= Height - Edge
AtLeft(p) == p.y > Edge /\ p.y < Height - Edge /\ p.x <= Edge
AtRight(p) == p.y > Edge /\ p.y < Height - Edge /\ p.x > Edge /\ p.x >= Width - Edge
Inside(p) == p.y > Edge /\ p.y < Height - Edge /\ p.x > Edge /\ p.x < Width - Edge

LEMMA SizesAreIntegers ==
  /\ Width \in Int /\ Height \in Int /\ Edge \in Int /\ Far \in Int /\ Far > 0
  /\ \A p \in Points : p.x \in Int /\ p.y \in Int
BY SizeAssumption DEF Points

LEMMA FivePlaces ==
  ASSUME NEW p \in Points
  PROVE  AtTop(p) \/ AtBottom(p) \/ AtLeft(p) \/ AtRight(p) \/ Inside(p)
BY SizesAreIntegers DEF AtTop, AtBottom, AtLeft, AtRight, Inside

(* The verdict, and the direction at once, for each of them. *)
LEMMA VerdictAtTop ==
  ASSUME NEW p \in Points, NEW q, AtTop(p)
  PROVE  /\ Verdict(p, q) = IF q.y >= p.y + Far THEN {"swipe_down", "trigger_y"} ELSE {"swipe_down"}
         /\ DirectionOf(p) = {"swipe_down"}
<1>1. Verdict(p, q) = {"swipe_down"} \cup {t \in {"trigger_y"} : q.y >= p.y + Far}
  BY SizesAreIntegers DEF Verdict, AtTop
<1>2. DirectionOf(p) = {"swipe_down"}
  BY SizesAreIntegers DEF DirectionOf, AtTop
<1>3. QED BY <1>1, <1>2

LEMMA VerdictAtBottom ==
  ASSUME NEW p \in Points, NEW q, AtBottom(p)
  PROVE  /\ Verdict(p, q) = IF q.y <= p.y - Far THEN {"swipe_up", "trigger_y"} ELSE {"swipe_up"}
         /\ DirectionOf(p) = {"swipe_up"}
<1>1. Verdict(p, q) = {"swipe_up"} \cup {t \in {"trigger_y"} : q.y <= p.y - Far}
  BY SizesAreIntegers DEF Verdict, AtBottom
<1>2. DirectionOf(p) = {"swipe_up"}
  BY SizesAreIntegers DEF DirectionOf, AtBottom
<1>3. QED BY <1>1, <1>2

LEMMA VerdictAtLeft ==
  ASSUME NEW p \in Points, NEW q, AtLeft(p)
  PROVE  /\ Verdict(p, q) = IF q.x >= p.x + Far THEN {"swipe_right", "trigger_x"} ELSE {"swipe_right"}
         /\ DirectionOf(p) = {"swipe_right"}
<1>1. Verdict(p, q) = {"swipe_right"} \cup {t \in {"trigger_x"} : q.x >= p.x + Far}
  BY SizesAreIntegers DEF Verdict, AtLeft
<1>2. DirectionOf(p) = {"swipe_right"}
  BY SizesAreIntegers DEF DirectionOf, AtLeft
<1>3. QED BY <1>1, <1>2

LEMMA VerdictAtRight ==
  ASSUME NEW p \in Points, NEW q, AtRight(p)
  PROVE  /\ Verdict(p, q) = IF q.x <= p.x - Far THEN {"swipe_left", "trigger_x"} ELSE {"swipe_left"}
         /\ DirectionOf(p) = {"swipe_left"}
<1>1. Verdict(p, q) = {"swipe_left"} \cup {t \in {"trigger_x"} : q.x <= p.x - Far}
  BY SizesAreIntegers DEF Verdict, AtRight
<1>2. DirectionOf(p) = {"swipe_left"}
  BY SizesAreIntegers DEF DirectionOf, AtRight
<1>3. QED BY <1>1, <1>2

LEMMA VerdictInside ==
  ASSUME NEW p \in Points, NEW q, Inside(p)
  PROVE  Verdict(p, q) = {} /\ DirectionOf(p) = {}
<1>1. Verdict(p, q) = {}
  BY SizesAreIntegers DEF Verdict, Inside
<1>2. DirectionOf(p) = {}
  BY SizesAreIntegers DEF DirectionOf, Inside
<1>3. QED BY <1>1, <1>2

-----------------------------------------------------------------------------
(* A touch that has not moved has triggered nothing. *)
LEMMA VerdictAtOnce ==
  ASSUME NEW p \in Points
  PROVE  /\ Verdict(p, p) = DirectionOf(p)
         /\ DirectionOf(p) = {} \/ \E d \in Directions : DirectionOf(p) = {d}
<1>1. ~(p.y >= p.y + Far) /\ ~(p.y <= p.y - Far) /\ ~(p.x >= p.x + Far) /\ ~(p.x <= p.x - Far)
  BY SizesAreIntegers
<1>2. Verdict(p, p) = DirectionOf(p)
  BY <1>1, FivePlaces, VerdictAtTop, VerdictAtBottom, VerdictAtLeft, VerdictAtRight, VerdictInside
<1>3. DirectionOf(p) \in {{}, {"swipe_down"}, {"swipe_up"}, {"swipe_right"}, {"swipe_left"}}
  BY FivePlaces, VerdictAtTop, VerdictAtBottom, VerdictAtLeft, VerdictAtRight, VerdictInside
<1>4. QED BY <1>2, <1>3 DEF Directions, XSwipe, YSwipe

(***************************************************************************)
(* The flags after a move depend on the flags before only through the      *)
(* direction, which the first point has given.                             *)
(***************************************************************************)
LEMMA VerdictMoves ==
  ASSUME NEW p \in Points, TypeOK, origin = start, swipe = Verdict(start, last), Moving(p)
  PROVE  swipe' = Verdict(start, p)
<1>1. start \in Points /\ origin = start
  BY DEF TypeOK
<1>2. CASE AtTop(start)
  <2>1. swipe = {"swipe_down", "trigger_y"} \/ swipe = {"swipe_down"}
    BY <1>1, <1>2, VerdictAtTop
  <2>2. p.y - start.y >= Far <=> p.y >= start.y + Far
    BY <1>1, SizesAreIntegers
  <2>3. Triggered(p) = IF p.y >= start.y + Far THEN {"trigger_y"} ELSE {}
    BY <1>1, <2>1, <2>2 DEF Triggered
  <2>4. QED BY <1>1, <1>2, <2>1, <2>3, VerdictAtTop DEF Moving, Triggers
<1>3. CASE AtBottom(start)
  <2>1. swipe = {"swipe_up", "trigger_y"} \/ swipe = {"swipe_up"}
    BY <1>1, <1>3, VerdictAtBottom
  <2>2. start.y - p.y >= Far <=> p.y <= start.y - Far
    BY <1>1, SizesAreIntegers
  <2>3. Triggered(p) = IF p.y <= start.y - Far THEN {"trigger_y"} ELSE {}
    BY <1>1, <2>1, <2>2 DEF Triggered
  <2>4. QED BY <1>1, <1>3, <2>1, <2>3, VerdictAtBottom DEF Moving, Triggers
<1>4. CASE AtLeft(start)
  <2>1. swipe = {"swipe_right", "trigger_x"} \/ swipe = {"swipe_right"}
    BY <1>1, <1>4, VerdictAtLeft
  <2>2. p.x - start.x >= Far <=> p.x >= start.x + Far
    BY <1>1, SizesAreIntegers
  <2>3. Triggered(p) = IF p.x >= start.x + Far THEN {"trigger_x"} ELSE {}
    BY <1>1, <2>1, <2>2 DEF Triggered
  <2>4. QED BY <1>1, <1>4, <2>1, <2>3, VerdictAtLeft DEF Moving, Triggers
<1>5. CASE AtRight(start)
  <2>1. swipe = {"swipe_left", "trigger_x"} \/ swipe = {"swipe_left"}
    BY <1>1, <1>5, VerdictAtRight
  <2>2. start.x - p.x >= Far <=> p.x <= start.x - Far
    BY <1>1, SizesAreIntegers
  <2>3. Triggered(p) = IF p.x <= start.x - Far THEN {"trigger_x"} ELSE {}
    BY <1>1, <2>1, <2>2 DEF Triggered
  <2>4. QED BY <1>1, <1>5, <2>1, <2>3, VerdictAtRight DEF Moving, Triggers
<1>6. CASE Inside(start)
  <2>1. swipe = {}
    BY <1>1, <1>6, VerdictInside
  <2>2. Triggered(p) = {}
    BY <2>1 DEF Triggered
  <2>3. QED BY <1>1, <1>6, <2>1, <2>2, VerdictInside DEF Moving
<1>7. QED BY <1>1, <1>2, <1>3, <1>4, <1>5, <1>6, FivePlaces

(* Moving changes triggers only, and adds one only to a swipe. *)
LEMMA MovingKeepsFlags ==
  ASSUME NEW p \in Points, TypeOK, FlagsInv, Moving(p)
  PROVE  FlagsInv' /\ swipe' \subseteq Flags
<1>1. Triggered(p) \subseteq Triggers
  BY DEF Triggered, Triggers
<1>2. Triggered(p) # {} => swipe \cap Directions # {}
  BY DEF Triggered, Directions, XSwipe, YSwipe
<1>3. Triggers \cap Directions = {} /\ Triggers \subseteq Flags
  BY DEF Triggers, Directions, XSwipe, YSwipe, Flags
<1>4. swipe' \cap Directions = swipe \cap Directions
  BY <1>1, <1>3 DEF Moving
<1>5. swipe' \cap Triggers # {} => Triggered(p) # {}
  BY DEF Moving
<1>6. FlagsInv'
  BY <1>2, <1>4, <1>5 DEF FlagsInv
<1>7. swipe' \subseteq Flags
  BY <1>1, <1>3 DEF Moving, TypeOK
<1>8. QED BY <1>6, <1>7

-----------------------------------------------------------------------------
LEMMA CornerIsPoint == Corner \in Points
<1>1. Width \in Nat /\ Height \in Nat /\ Width > 0 /\ Height > 0
  BY SizeAssumption
<1>2. QED BY <1>1 DEF Corner, Points

LEMMA InitIndInv == Init => IndInv
<1> SUFFICES ASSUME Init PROVE IndInv
  OBVIOUS
<1>1. TypeOK
  BY CornerIsPoint DEF Init, TypeOK
<1>2. FlagsInv /\ RestInv /\ PlainInv
  BY DEF Init, FlagsInv, RestInv, PlainInv
<1>3. QED BY <1>1, <1>2 DEF IndInv

LEMMA ScreenOffIndInv ==
  ASSUME IndInv, NEW p \in Points, PressedScreenOff(p)
  PROVE  IndInv'
<1> USE DEF PressedScreenOff, Recorded
<1>1. TypeOK'
  BY DEF IndInv, TypeOK, Flags
<1>2. FlagsInv'
  BY DEF IndInv, FlagsInv, Directions, Triggers, XSwipe, YSwipe
<1>3. RestInv' /\ PlainInv'
  BY DEF RestInv, PlainInv
<1>4. QED BY <1>1, <1>2, <1>3 DEF IndInv

LEMMA SamePointIndInv ==
  ASSUME IndInv, NEW p \in Points, PressedSamePoint(p)
  PROVE  IndInv'
<1> USE DEF PressedSamePoint, Recorded
<1>1. TypeOK'
  BY DEF IndInv, TypeOK
<1>2. FlagsInv'
  BY DEF IndInv, FlagsInv
<1>3. RestInv'
  BY DEF IndInv, RestInv
<1>4. PlainInv'
  <2> SUFFICES ASSUME touch' = "plain" PROVE PlainInv'
    BY DEF PlainInv
  <2>1. touch = "plain"
    BY DEF IndInv, TypeOK
  <2>2. start' = start /\ withheld' = withheld
    BY <2>1
  <2>3. QED BY <2>1, <2>2 DEF IndInv, PlainInv, Verdict
<1>5. QED BY <1>1, <1>2, <1>3, <1>4 DEF IndInv

LEMMA FirstIndInv ==
  ASSUME IndInv, NEW p \in Points, PressedFirst(p)
  PROVE  IndInv'
<1> USE DEF PressedFirst
<1>1. swipe' = DirectionOf(p) /\ ret' = swipe'
  <2>1. swipe' = DirectionOf(p)
    BY DEF IndInv, RestInv
  <2>2. DirectionOf(p) \subseteq Directions
    BY VerdictAtOnce
  <2>3. QED BY <2>1, <2>2 DEF Directions
<1>2. swipe' \subseteq Directions /\ Directions \subseteq Flags /\ Directions \cap Triggers = {}
  BY <1>1, VerdictAtOnce DEF Flags, Directions, Triggers, XSwipe, YSwipe
<1>3. TypeOK'
  BY <1>1, <1>2 DEF IndInv, TypeOK, Recorded
<1>4. FlagsInv'
  BY <1>1, <1>2, VerdictAtOnce DEF FlagsInv
<1>5. touch' = "plain" => touch = "none"
  BY DEF IndInv, PlainInv, Recorded, TypeOK
<1>6. RestInv'
  BY DEF RestInv, Recorded
<1>7. PlainInv'
  <2> SUFFICES ASSUME touch' = "plain"
               PROVE  /\ origin' = start' /\ swipe' = Verdict(start', last')
                      /\ withheld' = (Verdict(start', last') # {})
    BY DEF PlainInv
  <2>1. start' = p /\ last' = p /\ origin' = p /\ withheld' = (ret' # {})
    BY <1>5 DEF Recorded
  <2>2. QED BY <1>1, <2>1, VerdictAtOnce
<1>8. QED BY <1>3, <1>4, <1>6, <1>7 DEF IndInv

(* The verdict says a direction or not by the first point alone. *)
LEMMA DirectionStays ==
  ASSUME NEW p \in Points, NEW q \in Points, NEW r \in Points
  PROVE  Verdict(p, q) = {} <=> Verdict(p, r) = {}
<1>1. CASE AtTop(p)
  BY <1>1, VerdictAtTop
<1>2. CASE AtBottom(p)
  BY <1>2, VerdictAtBottom
<1>3. CASE AtLeft(p)
  BY <1>3, VerdictAtLeft
<1>4. CASE AtRight(p)
  BY <1>4, VerdictAtRight
<1>5. CASE Inside(p)
  BY <1>5, VerdictInside
<1>6. QED BY <1>1, <1>2, <1>3, <1>4, <1>5, FivePlaces

LEMMA AgainIndInv ==
  ASSUME IndInv, NEW p \in Points, PressedAgain(p)
  PROVE  IndInv'
<1>1. FlagsInv' /\ swipe' \subseteq Flags
  BY MovingKeepsFlags DEF IndInv, PressedAgain
<1>2. TypeOK'
  BY <1>1 DEF IndInv, TypeOK, PressedAgain, Recorded
<1>3. RestInv'
  BY DEF RestInv, PressedAgain, Recorded
<1>4. PlainInv'
  <2> SUFFICES ASSUME touch' = "plain"
               PROVE  /\ lastState' = "PRESSED" /\ origin' = start' /\ swipe' = Verdict(start', last')
                      /\ withheld' = (Verdict(start', last') # {})
    BY DEF PlainInv
  <2>1. touch = "plain"
    BY DEF IndInv, RestInv, TypeOK, PressedAgain, Recorded
  <2>2. /\ origin = start /\ swipe = Verdict(start, last)
        /\ withheld = (Verdict(start, last) # {})
    BY <2>1 DEF IndInv, PlainInv
  <2>3. start' = start /\ withheld' = withheld /\ last' = p /\ origin' = origin /\ lastState' = "PRESSED"
    BY <2>1 DEF PressedAgain, Recorded
  <2>4. swipe' = Verdict(start, p)
    BY <2>2, VerdictMoves DEF IndInv, PressedAgain
  <2>5. (Verdict(start, last) # {}) = (Verdict(start, p) # {})
    BY DirectionStays DEF IndInv, TypeOK
  <2>6. QED BY <2>2, <2>3, <2>4, <2>5
<1>5. QED BY <1>1, <1>2, <1>3, <1>4 DEF IndInv

(* A release leaves no flag, whether it finds one it knows or none. *)
LEMMA ReleasedIndInv ==
  ASSUME IndInv, NEW p \in Points, Released(p)
  PROVE  IndInv' /\ ret' = swipe
<1>1. swipe' = {} /\ ret' = swipe
  <2>1. CASE swipe \cap (Directions \cup {"screen_off"}) = {}
    <3>1. swipe \cap Triggers = {}
      BY <2>1 DEF IndInv, FlagsInv
    <3>2. swipe = {}
      BY <2>1, <3>1 DEF IndInv, TypeOK, Flags, Directions
    <3>3. QED BY <2>1, <3>2 DEF Released, Directions
  <2>2. CASE swipe \cap (Directions \cup {"screen_off"}) # {}
    BY <2>2 DEF Released, Directions
  <2>3. QED BY <2>1, <2>2
<1>2. TypeOK'
  BY <1>1, CornerIsPoint DEF IndInv, TypeOK, Released
<1>3. FlagsInv' /\ RestInv' /\ PlainInv'
  BY <1>1 DEF FlagsInv, RestInv, PlainInv, Released
<1>4. QED BY <1>1, <1>2, <1>3 DEF IndInv

LEMMA NextIndInv == IndInv /\ [Next]_vars => IndInv'
<1> SUFFICES ASSUME IndInv, [Next]_vars PROVE IndInv'
  OBVIOUS
<1>1. CASE \E p \in Points : PressedScreenOff(p)
  BY <1>1, ScreenOffIndInv
<1>2. CASE \E p \in Points : PressedSamePoint(p)
  BY <1>2, SamePointIndInv
<1>3. CASE \E p \in Points : PressedFirst(p)
  BY <1>3, FirstIndInv
<1>4. CASE \E p \in Points : PressedAgain(p)
  BY <1>4, AgainIndInv
<1>5. CASE \E p \in Points : Released(p)
  BY <1>5, ReleasedIndInv
<1>6. CASE ScreenSwitched
  BY <1>6 DEF ScreenSwitched, detector, record, IndInv, TypeOK, FlagsInv, RestInv, PlainInv
<1>7. CASE UNCHANGED vars
  BY <1>7 DEF vars, detector, record, IndInv, TypeOK, FlagsInv, RestInv, PlainInv
<1>8. QED BY <1>1, <1>2, <1>3, <1>4, <1>5, <1>6, <1>7 DEF Next

(* The invariant holds throughout, from which the theorems below follow. *)
THEOREM Invariance == Spec => []IndInv
BY InitIndInv, NextIndInv, PTL DEF Spec

-----------------------------------------------------------------------------
(* Type correctness of the detector's members (server/GestureDetector.h). *)
THEOREM TypeCorrect == Spec => []TypeOK
<1>1. IndInv => TypeOK
  BY DEF IndInv
<1>2. QED BY <1>1, Invariance, PTL

(***************************************************************************)
(* No touch is a swipe in two directions, and no flag of one touch is left *)
(* for the next, although only a release that finds a flag it knows clears *)
(* them (recognizeGesture, the branch of INPUT_RELEASED).                  *)
(***************************************************************************)
THEOREM OneDirectionAlways == Spec => []OneDirection
<1>1. IndInv => OneDirection
  <2> SUFFICES ASSUME IndInv PROVE OneDirection
    OBVIOUS
  <2>1. Cardinality(swipe \cap Directions) <= 1
    <3>1. CASE swipe \cap Directions = {}
      BY <3>1, FS_EmptySet
    <3>2. CASE \E d \in Directions : swipe \cap Directions = {d}
      <4>1. PICK d \in Directions : swipe \cap Directions = {d}
        BY <3>2
      <4>2. Cardinality({d}) = 1
        BY FS_Singleton
      <4>3. QED BY <4>1, <4>2
    <3>3. QED BY <3>1, <3>2 DEF IndInv, FlagsInv
  <2>2. QED BY <2>1 DEF OneDirection, IndInv, RestInv, Directions
<1>2. QED BY <1>1, Invariance, PTL

(***************************************************************************)
(* A release reports what the first and the last point of its touch say,   *)
(* for every touch that is plain, of any length.                           *)
(***************************************************************************)
THEOREM VerdictOnRelease == Spec => ReleaseVerdict
<1>1. IndInv /\ [Next]_vars => [touch = "plain" /\ touch' = "none" => ret' = Verdict(start, last)]_vars
  <2> SUFFICES ASSUME IndInv, Next, touch = "plain", touch' = "none"
               PROVE  ret' = Verdict(start, last)
    BY DEF vars
  <2>1. PICK p \in Points : Released(p)
    BY DEF Next, PressedScreenOff, PressedSamePoint, PressedFirst, PressedAgain, Recorded,
           ScreenSwitched, record
  <2>2. ret' = swipe
    BY <2>1, ReleasedIndInv
  <2>3. QED BY <2>2 DEF IndInv, PlainInv
<1>2. QED BY <1>1, Invariance, PTL DEF Spec, ReleaseVerdict

(***************************************************************************)
(* Every sample of a plain touch, its release included, is kept from the   *)
(* windows if its first one was, and given to them if that was.            *)
(***************************************************************************)
THEOREM TouchGoesWhole == Spec => WholeTouch
<1>1. IndInv /\ [Next]_vars =>
        [touch = "plain" /\ touch' # "odd" /\ screenOn' = screenOn => (ret' # {}) = withheld]_vars
  <2> SUFFICES ASSUME IndInv, Next, touch = "plain", touch' # "odd", screenOn' = screenOn
               PROVE  (ret' # {}) = withheld
    BY DEF vars
  <2>1. /\ lastState = "PRESSED" /\ swipe = Verdict(start, last) /\ start \in Points /\ last \in Points
        /\ withheld = (Verdict(start, last) # {})
    BY DEF IndInv, PlainInv, TypeOK
  <2>2. CASE \E p \in Points : PressedSamePoint(p)
    BY <2>1, <2>2 DEF PressedSamePoint
  <2>3. CASE \E p \in Points : PressedAgain(p)
    <3>1. PICK p \in Points : PressedAgain(p)
      BY <2>3
    <3>2. swipe' = Verdict(start, p)
      BY <3>1, VerdictMoves DEF IndInv, PlainInv, PressedAgain
    <3>3. Verdict(start, last) = {} <=> Verdict(start, p) = {}
      BY <2>1, DirectionStays
    <3>4. QED BY <2>1, <3>1, <3>2, <3>3 DEF PressedAgain
  <2>4. CASE \E p \in Points : Released(p)
    BY <2>1, <2>4, ReleasedIndInv
  <2>5. QED
    BY <2>1, <2>2, <2>3, <2>4 DEF Next, PressedScreenOff, PressedFirst, Recorded, ScreenSwitched
<1>2. QED BY <1>1, Invariance, PTL DEF Spec, WholeTouch
=============================================================================
