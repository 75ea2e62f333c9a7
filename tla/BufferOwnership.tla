--------------------------- MODULE BufferOwnership ---------------------------
(***************************************************************************)
(* What a window's surface promises about its buffers, without queues,     *)
(* messages or processes: every buffer of the current surface is in one    *)
(* pair of hands, and passes from hand to hand in one direction only.      *)
(*                                                                         *)
(*   free       the app may take it for its next frame                     *)
(*   drawing    the app is drawing into it                                 *)
(*   sent       it holds a finished frame on its way to the server         *)
(*   shown      the server composes the screen from it                     *)
(*   returning  the server is done with it, the app has not noticed yet    *)
(*   none       it is of no surface, or of one that is no longer           *)
(*                                                                         *)
(* SurfaceBuffers implements it.                                           *)
(***************************************************************************)
EXTENDS Naturals

CONSTANTS Surfaces,    \* the surfaces a window has one after the other, 1 .. n
          Buffers,     \* the buffers of all of them
          SurfaceOf(_) \* the surface a buffer is of

VARIABLES surface, \* the window's surface, 0 for none
          holder   \* where each buffer is
ownershipVars == <<surface, holder>>

Place == {"none", "free", "drawing", "sent", "shown", "returning"}

FreshHolders(s) == [b \in Buffers |-> IF SurfaceOf(b) = s THEN "free" ELSE "none"]

Init == surface = 0 /\ holder = FreshHolders(0)

(***************************************************************************)
(* The hands a buffer may pass between.  The app notices a returned buffer *)
(* when it starts a frame and may draw into it at once.                    *)
(***************************************************************************)
Passes == {<<"free", "drawing">>, <<"drawing", "free">>, <<"drawing", "sent">>,
           <<"sent", "shown">>, <<"shown", "returning">>,
           <<"returning", "free">>, <<"returning", "drawing">>}

(***************************************************************************)
(* Buffers pass on.  A frame appears in the same step in which the one     *)
(* before it is given back: the screen never goes without, and never shows *)
(* two.  The app draws one frame at a time.                                *)
(***************************************************************************)
PassOn ==
  /\ surface' = surface
  /\ holder' \in [Buffers -> Place]
  /\ \A b \in Buffers : holder'[b] # holder[b] => <<holder[b], holder'[b]>> \in Passes
  /\ \A b \in Buffers : holder[b] = "shown" =>
       (holder'[b] = "returning" <=> \E c \in Buffers : holder[c] = "sent" /\ holder'[c] = "shown")
  /\ \A p \in {"shown", "drawing"}, b, c \in Buffers :
       holder'[b] = p /\ holder'[c] = p => b = c

(* A new surface, never an earlier one, with all its buffers free. *)
Create(s) ==
  /\ \A b \in Buffers : holder[b] # "none" => SurfaceOf(b) < s
  /\ surface < s
  /\ surface' = s
  /\ holder' = FreshHolders(s)

Drop == surface' = 0 /\ holder' = FreshHolders(0)

Next == PassOn \/ Drop \/ \E s \in Surfaces : Create(s)

Spec == Init /\ [][Next]_ownershipVars
=============================================================================
