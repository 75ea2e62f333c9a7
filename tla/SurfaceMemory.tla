----------------------------- MODULE SurfaceMemory -----------------------------
(***************************************************************************)
(* The shared memory of one window's surfaces, by name: the buffers and    *)
(* the ring of released keys that the server creates with a surface and    *)
(* the app opens (common/SurfaceControl.cpp), from the relayout that makes *)
(* them to whoever unlinks them.  A name is made by the server, but either *)
(* side may unlink it; both do so on paths of their own, creation and      *)
(* opening can fail half-way, the window may be removed between the answer *)
(* of relayout and the opening of what it names, and the app may die at    *)
(* any point.                                                              *)
(*                                                                         *)
(* Buffers are known by name (CONFIG_ENABLE_BUFFER_QUEUE_BY_NAME, as by    *)
(* default) and genUniquePath gives different names; what is in them is in *)
(* SurfaceBuffers.  The transition animation is off, as it is by default.  *)
(***************************************************************************)
EXTENDS Integers

CONSTANTS BufferCount, \* 2, or 3 with CONFIG_ENABLE_WINDOW_TRIPLE_BUFFER
          MaxSurfaces  \* bound: surfaces made

ASSUME MemoryAssumption == BufferCount \in {2, 3} /\ MaxSurfaces \in Nat

Ring == 0 \* a surface has the buffers 1 .. BufferCount and the ring
Names == (1 .. MaxSurfaces) \X (0 .. BufferCount)

VARIABLES
  shm,        \* the names that exist
  created,    \* surfaces made so far
  srv,        \* WindowState::mSurfaceControl
  inMap,      \* the window is in mWindowMap
  removed,    \* WS_REMOVED: its cleanup task is posted
  app,        \* BaseWindow::mSurfaceControl
  appVisible, \* BaseWindow::mAppVisible
  call,       \* what the app is doing: it waits for relayout or removeWindow
  returned,   \* that call has returned
  reply,      \* the SurfaceControl that came with it
  life        \* of the app's window: "running", "removed" or its process "dead"
serverVars == <<created, srv, inMap, removed>>
appVars == <<app, appVisible, call, returned, reply, life>>
vars == <<shm, serverVars, appVars>>

(* mBufferIds, a prefix of the buffers named for a surface, and whether its ring is mapped. *)
Surfaces == [surface : 0 .. MaxSurfaces, ids : 0 .. BufferCount, ring : BOOLEAN]
NoSurface == [surface |-> 0, ids |-> 0, ring |-> FALSE]

IsValid(sc) == sc.ids > 0
BuffersOf(sc) == {<<sc.surface, i>> : i \in 1 .. sc.ids}
RingOf(sc) == IF sc.ring THEN {<<sc.surface, Ring>>} ELSE {}

TypeOK ==
  /\ shm \subseteq Names /\ created \in 0 .. MaxSurfaces
  /\ srv \in Surfaces /\ app \in Surfaces /\ reply \in Surfaces
  /\ inMap \in BOOLEAN /\ removed \in BOOLEAN /\ appVisible \in BOOLEAN /\ returned \in BOOLEAN
  /\ call \in {"none", "setVisible", "onFrame", "removeWindow"}
  /\ life \in {"running", "removed", "dead"}

(* attachIWindow has added the window. *)
Init ==
  /\ shm = {} /\ created = 0 /\ srv = NoSurface /\ inMap = TRUE /\ removed = FALSE
  /\ app = NoSurface /\ appVisible = FALSE
  /\ call = "none" /\ returned = FALSE /\ reply = NoSurface /\ life = "running"

-----------------------------------------------------------------------------
(* common/SurfaceControl.cpp *)

(* What uninitSurfaceBuffer unlinks: only what this side has open. *)
UninitSurfaceBuffer(sc) == BuffersOf(sc) \cup RingOf(sc)

(***************************************************************************)
(* A creation that failed leaves the buffers it had made: what NamesMatch  *)
(* would show.                                                             *)
(***************************************************************************)
InitSurfaceBufferLeaking(s) ==
  {[sc |-> [surface |-> s, ids |-> IF n < 2 THEN 0 ELSE n, ring |-> ring],
    made |-> {<<s, i>> : i \in 1 .. n} \cup (IF ring THEN {<<s, Ring>>} ELSE {})]
     : n \in 0 .. BufferCount, ring \in BOOLEAN}

(***************************************************************************)
(* initSurfaceBuffer on the server: the surface it may come to and the     *)
(* names it leaves.  It makes n of the buffers before it fails, and does   *)
(* with those if they are two; it does without the ring if that fails.     *)
(***************************************************************************)
InitSurfaceBuffer(s) ==
  {[sc |-> sc, made |-> BuffersOf(sc) \cup RingOf(sc)]
     : sc \in [surface : {s}, ids : {0} \cup 2 .. BufferCount, ring : BOOLEAN]
              \ [surface : {s}, ids : {0}, ring : {TRUE}]}

(* initSharedBuffer in the app, which opens what it finds, up to the first that fails. *)
Opened(sc) ==
  {o \in [surface : {sc.surface}, ids : 0 .. sc.ids, ring : BOOLEAN] :
     BuffersOf(o) \subseteq shm /\ (o.ring => IsValid(o) /\ RingOf(o) \subseteq shm)}

(* What the app gets of a surface: names and keys, nothing that is open; no ring without buffers. *)
CopyFrom(sc) == [sc EXCEPT !.ring = FALSE]
Parcelled(sc) == IF IsValid(sc) THEN CopyFrom(sc) ELSE NoSurface

(***************************************************************************)
(* FakeFmq::create unlinks the ring when it cannot map it, in the app as   *)
(* on the server.                                                          *)
(***************************************************************************)
LostRing(o) == IF IsValid(o) /\ ~o.ring THEN {{}, {<<o.surface, Ring>>}} ELSE {{}}

-----------------------------------------------------------------------------
(* The server: WindowManagerService and WindowState *)

(* A window that is hidden keeps its surface on the server: what HiddenFreesMemory would show. *)
DestroySurfaceControlIfShown ==
  IF appVisible \/ removed THEN [sc |-> NoSurface, freed |-> UninitSurfaceBuffer(srv)]
  ELSE [sc |-> srv, freed |-> {}]

(* A surface that is dropped without uninitSurfaceBuffer: what CrashFreesMemory would show. *)
DestroySurfaceControlUnfreed == [sc |-> NoSurface, freed |-> RingOf(srv)]

DestroySurfaceControl == [sc |-> NoSurface, freed |-> UninitSurfaceBuffer(srv)]

(* relayout; the answer carries the names of a valid surface, and no surface with an error. *)
Relayout ==
  /\ call \in {"setVisible", "onFrame"} /\ ~returned
  /\ returned' = TRUE
  /\ UNCHANGED <<inMap, removed, app, appVisible, call, life>>
  /\ \/ /\ ~inMap
        /\ reply' = NoSurface /\ UNCHANGED <<shm, created, srv>>
     \/ /\ inMap /\ ~appVisible
        /\ shm' = shm \ DestroySurfaceControl.freed
        /\ srv' = DestroySurfaceControl.sc /\ reply' = NoSurface
        /\ UNCHANGED created
     \/ /\ inMap /\ appVisible
        /\ created' = created + 1
        /\ \E new \in InitSurfaceBuffer(created') :
             /\ shm' = (shm \ DestroySurfaceControl.freed) \cup new.made
             /\ srv' = IF IsValid(new.sc) THEN new.sc ELSE NoSurface
             /\ reply' = Parcelled(srv')

(* removeImmediately, which posts the cleanup. *)
RemoveImmediately ==
  /\ inMap /\ ~removed
  /\ removed' = TRUE
  /\ shm' = shm \ DestroySurfaceControl.freed
  /\ srv' = DestroySurfaceControl.sc
  /\ UNCHANGED <<created, inMap>>

RemoveWindow ==
  /\ call = "removeWindow" /\ ~returned
  /\ returned' = TRUE
  /\ RemoveImmediately \/ ((~inMap \/ removed) /\ UNCHANGED <<shm, serverVars>>)
  /\ UNCHANGED <<app, appVisible, call, reply, life>>

RemoveWindowToken == RemoveImmediately /\ UNCHANGED appVars

BinderDied == life = "dead" /\ RemoveImmediately /\ UNCHANGED appVars

(***************************************************************************)
(* The task of postWindowRemoveCleanup: a surface made since the removal   *)
(* goes with the WindowState, and only its ring is unlinked.               *)
(***************************************************************************)
Cleanup ==
  /\ removed /\ inMap
  /\ inMap' = FALSE /\ srv' = NoSurface
  /\ shm' = shm \ RingOf(srv)
  /\ UNCHANGED <<created, removed, appVars>>

-----------------------------------------------------------------------------
(* The app: BaseWindow and WindowManager *)

(* The call of setVisible, for dispatchAppVisibility. *)
SetVisible ==
  /\ life = "running" /\ call = "none" /\ created < MaxSurfaces
  /\ appVisible' = ~appVisible
  /\ call' = "setVisible" /\ returned' = FALSE
  /\ UNCHANGED <<shm, serverVars, app, reply, life>>

(* handleOnFrame without a surface; one that is not valid keeps it from asking for another. *)
OnFrame ==
  /\ life = "running" /\ call = "none" /\ created < MaxSurfaces
  /\ appVisible /\ app = NoSurface
  /\ call' = "onFrame" /\ returned' = FALSE
  /\ UNCHANGED <<shm, serverVars, app, appVisible, reply, life>>

(***************************************************************************)
(* setSurfaceControl, at the return of relayout: the old surface's names   *)
(* are unlinked, the new one's opened.  setVisible drops a surface of      *)
(* which nothing could be opened; handleOnFrame keeps it.                  *)
(***************************************************************************)
SetSurfaceControl ==
  /\ life = "running" /\ call \in {"setVisible", "onFrame"} /\ returned
  /\ call' = "none"
  /\ \E o \in Opened(reply) : \E lost \in LostRing(o) :
       /\ shm' = shm \ (UninitSurfaceBuffer(app) \cup lost)
       /\ app' = IF call = "setVisible" /\ ~IsValid(o) THEN NoSurface ELSE o
  /\ UNCHANGED <<serverVars, appVisible, returned, reply, life>>

CallRemoveWindow ==
  /\ life = "running" /\ call = "none"
  /\ call' = "removeWindow" /\ returned' = FALSE
  /\ UNCHANGED <<shm, serverVars, app, appVisible, reply, life>>

(* doDie, at the return of removeWindow. *)
DoDie ==
  /\ life = "running" /\ call = "removeWindow" /\ returned
  /\ life' = "removed" /\ call' = "none"
  /\ shm' = shm \ UninitSurfaceBuffer(app) /\ app' = NoSurface
  /\ UNCHANGED <<serverVars, appVisible, returned, reply>>

(* The app's process ends: its files are closed, and no name is unlinked. *)
AppDies ==
  /\ life # "dead"
  /\ life' = "dead" /\ call' = "none" /\ app' = NoSurface
  /\ UNCHANGED <<shm, serverVars, appVisible, returned, reply>>

Next ==
  \/ Relayout \/ RemoveWindow \/ RemoveWindowToken \/ BinderDied \/ Cleanup
  \/ SetVisible \/ OnFrame \/ SetSurfaceControl \/ CallRemoveWindow \/ DoDie \/ AppDies

Spec == Init /\ [][Next]_vars

(* The binder driver tells the server of the death. *)
FairSpec == Spec /\ WF_vars(BinderDied)

-----------------------------------------------------------------------------
(* Properties *)

(***************************************************************************)
(* The names that exist while the server has the window are those of its   *)
(* present surface: no surface that was replaced, and no creation that     *)
(* failed half-way, leaves any; and, while the app has not removed the     *)
(* window, no buffer of the present surface is unlinked, however late the  *)
(* app lets go of an older one.  The ring's name may be gone early: the    *)
(* app unlinks it when it cannot map it.                                   *)
(***************************************************************************)
NamesMatch ==
  inMap => /\ shm \subseteq BuffersOf(srv) \cup RingOf(srv)
           /\ life = "running" => BuffersOf(srv) \subseteq shm

(***************************************************************************)
(* A window that is hidden holds no shared memory: once setVisible has     *)
(* returned the app has nothing open, whatever it could open of the        *)
(* surface, and the server has unlinked every name.                        *)
(***************************************************************************)
HiddenFreesMemory ==
  (life = "running" /\ ~appVisible /\ call = "none") => (app = NoSurface /\ (inMap => shm = {}))

(***************************************************************************)
(* When an app dies the names of its surface are unlinked, wherever the    *)
(* death came between relayout and the opening of what it names; unless    *)
(* the window was removed before, and its surface made since.              *)
(***************************************************************************)
CrashFreesMemory == (life = "dead" /\ inMap /\ ~removed) ~> (shm = {})
=============================================================================
