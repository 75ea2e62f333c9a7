----------------------------- MODULE DirectRender -----------------------------
(***************************************************************************)
(* What is in the buffers: the picture of a window from LVGL in the app to *)
(* LVGL in the server, in the direct render mode (the default).  Each      *)
(* action is one of SurfaceBuffers and what it does to the picture.        *)
(*                                                                         *)
(* App (app/LVGLDriverProxy.cpp): LVGL redraws only the areas that have    *)
(* changed, so the rest of a buffer is first copied from the buffer drawn  *)
(* before; the transaction carries the area that is new.  A new surface,   *)
(* or a change of nearly everything, is drawn whole.                       *)
(*                                                                         *)
(* Server (server/lvgl/lv_mainwnd.c): a new buffer makes that area dirty,  *)
(* and LVGL copies the dirty areas from the buffer shown to the screen; a  *)
(* window with no buffer is hidden.                                        *)
(*                                                                         *)
(* An area is a set of regions, which lie in a row; a picture gives the    *)
(* version of each.                                                        *)
(***************************************************************************)
EXTENDS SurfaceBuffers, FiniteSets

CONSTANTS RegionCount, \* regions of the window
          MaxVersion   \* bound: versions of a region

ASSUME RegionAssumption == RegionCount \in Nat \ {0} /\ MaxVersion \in Nat \ {0}

Regions == 1 .. RegionCount
Version == 0 .. MaxVersion
Blank == 0     \* a region never drawn, or where the window does not show
Blanks == [r \in Regions |-> Blank]

VARIABLES
  \* app: LVGL and LVGLDriverProxy
  ui,           \* the picture LVGL would draw
  dirty,        \* the areas that LVGL knows to have changed
  invalidation, \* LVGL takes changes for dirty areas
  hasItem,      \* mBufferItem is there
  prev,         \* mPrevBuffer
  allDirty,     \* mAllAreaDirty
  \* shared memory
  pixels,       \* the picture in each buffer
  crops,        \* mBufferCrop of the transactions on their way
  \* server: LVGL
  srvDirty,     \* the area of the window to be drawn again
  screen        \* what is on the screen

uiVars == <<ui, dirty, invalidation, hasItem, prev, allDirty>>
picture == <<uiVars, pixels, crops, srvDirty, screen>>

PictureOK ==
  /\ ui \in [Regions -> Version \ {Blank}]
  /\ dirty \subseteq Regions /\ srvDirty \subseteq Regions
  /\ invalidation \in BOOLEAN /\ hasItem \in BOOLEAN /\ allDirty \in BOOLEAN
  /\ prev \in Keys \cup {NoKey}
  /\ pixels \in [Keys -> [Regions -> Version]]
  /\ crops \in Seq(SUBSET Regions) /\ Len(crops) = Len(sent)
  /\ screen \in [Regions -> Version]

PictureInit ==
  /\ Init
  /\ ui = [r \in Regions |-> 1] /\ dirty = {}
  /\ invalidation = TRUE /\ hasItem = FALSE /\ prev = NoKey /\ allDirty = TRUE
  /\ pixels = [k \in Keys |-> Blanks] /\ crops = << >>
  /\ srvDirty = {} /\ screen = Blanks

-----------------------------------------------------------------------------
(* App *)

(* The smallest area around a: an lv_area_t, a Rect. *)
Box(a) == {r \in Regions : \E lo, hi \in a : lo <= r /\ r <= hi}

(* updateDirtyArea: the first change of a surface, or three quarters of it. *)
TakenWhole(a) == ~hasItem \/ 4 * Cardinality(a) >= 3 * RegionCount

(* The UI changes in an area; LVGL notes it, unless the window is hidden. *)
UiChanges(a) ==
  /\ Idle /\ \A r \in a : ui[r] < MaxVersion
  /\ ui' = [r \in Regions |-> IF r \in a THEN ui[r] + 1 ELSE ui[r]]
  /\ dirty' = IF ~invalidation THEN dirty ELSE IF TakenWhole(a) THEN Regions ELSE dirty \cup a
  /\ allDirty' = (allDirty \/ (invalidation /\ TakenWhole(a)))
  /\ UNCHANGED <<invalidation, hasItem, prev, pixels, crops, srvDirty, screen>>
  /\ UNCHANGED vars

(* LVGL never hears of changes again: what FrameRequests!PictureArrives would show. *)
UpdateVisibilityOnce(visible) ==
  /\ invalidation' = (invalidation /\ visible)
  /\ dirty' = IF visible THEN Regions ELSE dirty
  /\ allDirty' = (allDirty \/ visible)
  /\ UNCHANGED <<ui, hasItem, prev, pixels, crops, screen>>

(* updateVisibility: a window that appears is drawn whole. *)
UpdateVisibility(visible) ==
  /\ invalidation' = visible
  /\ dirty' = IF visible THEN Regions ELSE dirty
  /\ allDirty' = (allDirty \/ visible)
  /\ UNCHANGED <<ui, hasItem, prev, pixels, crops, screen>>

(* resetBuffer, from setSurfaceControl *)
ResetBuffer ==
  /\ hasItem' = FALSE /\ prev' = NoKey
  /\ UNCHANGED <<ui, dirty, invalidation, allDirty, pixels, crops, srvDirty, screen>>

(* onRenderStart: what the buffer holds before the dirty areas are drawn. *)
Base == IF prev # NoKey /\ ~allDirty THEN pixels[prev] ELSE pixels[drawing]

(* SurfaceTransaction::setBufferCrop *)
SetBufferCrop(a) == crops' = Append(crops, a)

(* drawFrame, with something to draw *)
Drawn ==
  /\ dirty # {}
  /\ pixels' = [pixels EXCEPT ![drawing] = [r \in Regions |-> IF r \in dirty THEN ui[r] ELSE Base[r]]]
  /\ SetBufferCrop(Box(dirty))
  /\ dirty' = {} /\ prev' = drawing /\ hasItem' = TRUE /\ allDirty' = FALSE
  /\ UNCHANGED <<ui, invalidation, srvDirty, screen>>

(* A buffer with nothing drawn into it counts as the last: what NewestIsWhole would show. *)
NothingDrawnIsPrev ==
  /\ dirty = {}
  /\ hasItem' = TRUE /\ allDirty' = FALSE /\ prev' = drawing
  /\ UNCHANGED <<ui, dirty, invalidation, pixels, crops, srvDirty, screen>>

(* drawFrame, with nothing to draw; the frame is cancelled. *)
NothingDrawn ==
  /\ dirty = {}
  /\ hasItem' = TRUE /\ allDirty' = FALSE
  /\ UNCHANGED <<ui, dirty, invalidation, prev, pixels, crops, srvDirty, screen>>

-----------------------------------------------------------------------------
(* Server *)

(* Only the last area is drawn again: what ScreenIsUi would show. *)
RepaintLast(a) ==
  srvDirty' = IF shown' = shown THEN srvDirty
              ELSE IF NoKey \in {shown, shown'} THEN Regions ELSE a

(***************************************************************************)
(* lv_mainwnd_update_buffer, with the area a: a window that hides or comes *)
(* back is drawn whole.                                                    *)
(***************************************************************************)
Repaint(a) ==
  srvDirty' = IF shown' = shown THEN srvDirty
              ELSE IF NoKey \in {shown, shown'} THEN Regions ELSE srvDirty \cup a

ApplyPicture ==
  /\ Repaint(Head(crops)) /\ crops' = Tail(crops)
  /\ UNCHANGED <<uiVars, pixels, screen>>

(* LVGL draws: draw_buffer for the window. *)
ServerRender ==
  /\ srvDirty # {}
  /\ srvDirty' = {}
  /\ screen' = [r \in Regions |-> IF r \notin srvDirty THEN screen[r]
                                  ELSE IF shown = NoKey THEN Blank ELSE pixels[shown][r]]
  /\ UNCHANGED <<uiVars, pixels, crops>>
  /\ UNCHANGED vars

-----------------------------------------------------------------------------
Draw == (FrameSend /\ Drawn) \/ (FrameCancel /\ NothingDrawn)
Apply == ApplyTransaction /\ ApplyPicture
Returns == RelayoutReturns /\ ResetBuffer

PictureNext ==
  \/ \E lo, hi \in Regions : lo <= hi /\ UiChanges(lo .. hi)
  \/ \E visible \in BOOLEAN : SetVisible(visible) /\ UpdateVisibility(visible) /\ Repaint({})
  \/ FrameWithoutSurface /\ Repaint({}) /\ UNCHANGED <<uiVars, pixels, crops, screen>>
  \/ Returns
  \/ FrameBegin /\ UNCHANGED picture
  \/ Draw
  \/ Apply
  \/ (Remove \/ RemoveCleanup) /\ Repaint({}) /\ UNCHANGED <<uiVars, pixels, crops, screen>>
  \/ ServerRender

allVars == <<vars, picture>>

PictureSpec == PictureInit /\ [][PictureNext]_allVars

-----------------------------------------------------------------------------
(* Properties *)

(***************************************************************************)
(* The buffer drawn last is up to date but for what is still dirty, though *)
(* only the dirty areas were ever drawn into it: the rest has come through *)
(* a chain of copies from buffer to buffer, across frames with nothing to  *)
(* draw and changes made while the window was hidden.                      *)
(***************************************************************************)
NewestIsWhole ==
  prev # NoKey /\ calling = "none" /\ drawing = NoKey
    => \A r \in Regions : invalidation /\ r \notin dirty => pixels[prev][r] = ui[r]

(***************************************************************************)
(* When everything has been drawn, sent, applied and drawn again, what is  *)
(* on the screen is what the app would draw, although the server repaints  *)
(* only the area it was told of.                                           *)
(***************************************************************************)
ScreenIsUi ==
  (/\ Attached /\ appVisible /\ Idle /\ shown # NoKey
   /\ dirty = {} /\ sent = << >> /\ srvDirty = {}) => screen = ui

(* A buffer is never drawn into from the time it is sent until it is no longer shown. *)
DrawnUnseen ==
  [][\A k \in Keys : pixels'[k] # pixels[k] => k # shown /\ k \notin Range(sent)]_allVars

(* While the window is on the screen, no part of it goes back to an older picture. *)
NeverOlder ==
  [][\A r \in Regions : screen[r] # Blank /\ screen'[r] # Blank => screen'[r] >= screen[r]]_allVars
=============================================================================
