-------------------------- MODULE SurfaceMemory_proof --------------------------
(***************************************************************************)
(* What TLAPS proves of SurfaceMemory, for two buffers or three and any    *)
(* number of surfaces: its types, that the names that exist are those of   *)
(* the window's present surface, and that a hidden window holds none.      *)
(*                                                                         *)
(* NamesMatch rests on the numbers of the surfaces: between the answer of  *)
(* relayout and the opening of what it names the app still holds a surface *)
(* that is older than the server's (OlderSurface), so that what it unlinks *)
(* then is nobody's.  HiddenFreesMemory rests on what the answer was for a *)
(* window that is hidden (HiddenSurface).                                  *)
(***************************************************************************)
EXTENDS SurfaceMemory, TLAPS

Relayouting == call \in {"setVisible", "onFrame"}

(* No surface is newer than the last one made, and there is room for the one that is asked for. *)
Counted ==
  /\ srv.surface <= created /\ app.surface <= created /\ reply.surface <= created
  /\ Relayouting /\ ~returned => created < MaxSurfaces

OlderSurface == inMap /\ Relayouting /\ returned => srv = NoSurface \/ app.surface < srv.surface

(* A window is asked for a frame's surface only while it is visible. *)
HiddenSurface ==
  life = "running" /\ ~appVisible =>
    /\ call # "onFrame"
    /\ call = "setVisible" /\ returned => reply = NoSurface /\ (inMap => srv = NoSurface)
    /\ call = "none" => app = NoSurface /\ (inMap => srv = NoSurface)

(* What has buffers or a ring has a number. *)
Numbered(sc) == sc.surface = 0 => sc = NoSurface

IInv ==
  /\ TypeOK /\ Counted /\ OlderSurface /\ HiddenSurface /\ NamesMatch
  /\ Numbered(srv) /\ Numbered(app) /\ Numbered(reply)

-----------------------------------------------------------------------------
(* Surfaces *)

LEMMA NothingOfNoSurface ==
  /\ NoSurface \in Surfaces /\ ~IsValid(NoSurface)
  /\ BuffersOf(NoSurface) = {} /\ RingOf(NoSurface) = {} /\ UninitSurfaceBuffer(NoSurface) = {}
BY MemoryAssumption DEF NoSurface, Surfaces, IsValid, BuffersOf, RingOf, UninitSurfaceBuffer

(* The names of a surface, typed; those of two surfaces are different. *)
LEMMA NamesTyped ==
  ASSUME NEW sc \in Surfaces, Numbered(sc)
  PROVE  BuffersOf(sc) \subseteq Names /\ RingOf(sc) \subseteq Names
BY MemoryAssumption DEF Surfaces, Numbered, NoSurface, BuffersOf, RingOf, Names, Ring

LEMMA NamesApart ==
  ASSUME NEW sc \in Surfaces, NEW other \in Surfaces, sc.surface # other.surface
  PROVE  BuffersOf(sc) \cap UninitSurfaceBuffer(other) = {}
BY DEF BuffersOf, RingOf, UninitSurfaceBuffer

(* A buffer is not a ring. *)
LEMMA BuffersAreNoRing ==
  ASSUME NEW sc \in Surfaces, NEW n
  PROVE  <<n, Ring>> \notin BuffersOf(sc)
BY DEF BuffersOf, Ring, Surfaces

LEMMA MadeTyped ==
  ASSUME NEW s \in 1 .. MaxSurfaces, NEW new \in InitSurfaceBuffer(s)
  PROVE  /\ new.sc \in Surfaces /\ new.sc.surface = s
         /\ new.made = BuffersOf(new.sc) \cup RingOf(new.sc)
         /\ ~IsValid(new.sc) => new.made = {}
<1>1. PICK sc \in [surface : {s}, ids : {0} \cup 2 .. BufferCount, ring : BOOLEAN]
                  \ [surface : {s}, ids : {0}, ring : {TRUE}] :
        new = [sc |-> sc, made |-> BuffersOf(sc) \cup RingOf(sc)]
  BY DEF InitSurfaceBuffer
<1>2. sc \in Surfaces /\ sc.surface = s
  BY <1>1, MemoryAssumption DEF Surfaces
<1>3. ~IsValid(sc) => sc.ids = 0 /\ ~sc.ring
  <2> SUFFICES ASSUME ~IsValid(sc) PROVE sc.ids = 0 /\ ~sc.ring
    OBVIOUS
  <2>1. sc.ids = 0
    BY <1>1, MemoryAssumption DEF IsValid
  <2>2. sc = [surface |-> sc.surface, ids |-> sc.ids, ring |-> sc.ring] /\ sc.surface = s /\ sc.ring \in BOOLEAN
    BY <1>1
  <2>3. sc.ring = TRUE => sc \in [surface : {s}, ids : {0}, ring : {TRUE}]
    BY <2>1, <2>2
  <2>4. QED
    BY <1>1, <2>1, <2>2, <2>3
<1>4. ~IsValid(sc) => BuffersOf(sc) = {} /\ RingOf(sc) = {}
  BY <1>3 DEF BuffersOf, RingOf
<1>5. QED
  BY <1>1, <1>2, <1>4

LEMMA ParcelledTyped ==
  ASSUME NEW sc \in Surfaces, Numbered(sc)
  PROVE  /\ Parcelled(sc) \in Surfaces /\ Numbered(Parcelled(sc))
         /\ Parcelled(sc).surface \in {0, sc.surface}
BY NothingOfNoSurface DEF Parcelled, CopyFrom, Surfaces, Numbered, NoSurface, IsValid

LEMMA OpenedTyped ==
  ASSUME NEW sc \in Surfaces, Numbered(sc), NEW o \in Opened(sc)
  PROVE  /\ o \in Surfaces /\ Numbered(o) /\ o.surface = sc.surface
         /\ sc = NoSurface => o = NoSurface
<1>1. o \in [surface : {sc.surface}, ids : 0 .. sc.ids, ring : BOOLEAN] /\ (o.ring => IsValid(o))
  BY DEF Opened
<1>2. o \in Surfaces /\ o.surface = sc.surface
  <2>1. sc.surface \in 0 .. MaxSurfaces /\ sc.ids \in 0 .. BufferCount
    BY DEF Surfaces
  <2>2. 0 .. sc.ids \subseteq 0 .. BufferCount
    BY <2>1, MemoryAssumption
  <2>3. QED
    BY <1>1, <2>1, <2>2 DEF Surfaces
<1>3. sc = NoSurface => o = NoSurface
  BY <1>1 DEF NoSurface, IsValid
<1>4. QED
  BY <1>2, <1>3 DEF Numbered

-----------------------------------------------------------------------------
(* The invariant *)

LEMMA InitIInv == Init => IInv
<1> SUFFICES ASSUME Init PROVE IInv
  OBVIOUS
<1>1. TypeOK
  <2>1. 0 \in 0 .. MaxSurfaces
    BY MemoryAssumption
  <2>2. QED
    BY <2>1, NothingOfNoSurface, Zenon DEF Init, TypeOK
<1>2. Counted
  BY MemoryAssumption DEF Init, Counted, Relayouting, NoSurface
<1>3. NamesMatch
  BY NothingOfNoSurface DEF Init, NamesMatch
<1>4. OlderSurface /\ HiddenSurface /\ Numbered(srv) /\ Numbered(app) /\ Numbered(reply)
  BY DEF Init, OlderSurface, HiddenSurface, Relayouting, Numbered
<1>5. QED
  BY <1>1, <1>2, <1>3, <1>4 DEF IInv

(* The server lets go of the surface: its names are gone, and no other's. *)
LEMMA Destroyed ==
  ASSUME IInv, inMap
  PROVE  /\ DestroySurfaceControl.sc = NoSurface
         /\ shm \ DestroySurfaceControl.freed = {}
BY DEF DestroySurfaceControl, UninitSurfaceBuffer, IInv, NamesMatch

LEMMA RemoveKeepsIInv ==
  ASSUME IInv, RemoveImmediately,
         UNCHANGED <<app, appVisible, reply>>,
         \/ UNCHANGED <<call, returned, life>>
         \/ call = "removeWindow" /\ returned' = TRUE /\ UNCHANGED <<call, life>>
  PROVE  IInv'
<1>1. srv' = NoSurface /\ shm' = {} /\ created' = created /\ inMap' = inMap /\ removed' = TRUE
  BY Destroyed DEF RemoveImmediately
<1>2. TypeOK'
  BY <1>1, NothingOfNoSurface DEF IInv, TypeOK
<1>3. Counted'
  BY <1>1 DEF IInv, TypeOK, Counted, Relayouting, NoSurface
<1>4. OlderSurface' /\ HiddenSurface'
  BY <1>1 DEF IInv, OlderSurface, HiddenSurface, Relayouting
<1>5. NamesMatch'
  BY <1>1, NothingOfNoSurface DEF NamesMatch
<1>6. Numbered(srv)' /\ Numbered(app)' /\ Numbered(reply)'
  BY <1>1 DEF IInv, Numbered
<1>7. QED
  BY <1>2, <1>3, <1>4, <1>5, <1>6 DEF IInv

LEMMA RelayoutKeepsIInv ==
  ASSUME IInv, Relayout
  PROVE  IInv'
<1> USE DEF IInv
<1>0. Relayouting /\ ~returned /\ returned' = TRUE /\ UNCHANGED <<inMap, removed, app, appVisible, call, life>>
  BY DEF Relayout, Relayouting
<1>1. CASE ~inMap /\ reply' = NoSurface /\ UNCHANGED <<shm, created, srv>>
  <2>1. TypeOK'
    BY <1>0, <1>1, NothingOfNoSurface DEF TypeOK
  <2>2. Counted'
    BY <1>0, <1>1 DEF Counted, TypeOK, Relayouting, NoSurface
  <2>3. OlderSurface' /\ HiddenSurface' /\ NamesMatch' /\ Numbered(srv)' /\ Numbered(app)' /\ Numbered(reply)'
    BY <1>0, <1>1 DEF OlderSurface, HiddenSurface, NamesMatch, Numbered, Relayouting
  <2>4. QED
    BY <2>1, <2>2, <2>3
<1>2. CASE /\ inMap /\ ~appVisible
           /\ shm' = shm \ DestroySurfaceControl.freed
           /\ srv' = DestroySurfaceControl.sc /\ reply' = NoSurface
           /\ UNCHANGED created
  <2>0. shm' = {} /\ srv' = NoSurface
    BY <1>2, Destroyed
  <2>1. TypeOK'
    BY <1>0, <1>2, <2>0, NothingOfNoSurface DEF TypeOK
  <2>2. Counted'
    BY <1>0, <1>2, <2>0 DEF Counted, TypeOK, Relayouting, NoSurface
  <2>3. OlderSurface' /\ HiddenSurface'
    BY <1>0, <1>2, <2>0 DEF OlderSurface, HiddenSurface, Relayouting
  <2>4. NamesMatch' /\ Numbered(srv)' /\ Numbered(app)' /\ Numbered(reply)'
    BY <1>0, <1>2, <2>0, NothingOfNoSurface DEF NamesMatch, Numbered
  <2>5. QED
    BY <2>1, <2>2, <2>3, <2>4
<1>3. CASE /\ inMap /\ appVisible
           /\ created' = created + 1
           /\ \E new \in InitSurfaceBuffer(created') :
                /\ shm' = (shm \ DestroySurfaceControl.freed) \cup new.made
                /\ srv' = IF IsValid(new.sc) THEN new.sc ELSE NoSurface
                /\ reply' = Parcelled(srv')
  <2>1. created \in Nat /\ created' \in 1 .. MaxSurfaces /\ app.surface \in Nat /\ app.surface < created'
    BY <1>0, <1>3, MemoryAssumption DEF TypeOK, Counted, Surfaces
  <2>2. PICK new \in InitSurfaceBuffer(created') :
             /\ shm' = new.made
             /\ srv' = IF IsValid(new.sc) THEN new.sc ELSE NoSurface
             /\ reply' = Parcelled(srv')
    BY <1>3, Destroyed
  <2>3. /\ new.sc \in Surfaces /\ new.sc.surface = created'
        /\ new.made = BuffersOf(new.sc) \cup RingOf(new.sc)
        /\ ~IsValid(new.sc) => new.made = {}
    BY <2>1, MadeTyped
  <2>4. /\ srv' \in Surfaces /\ Numbered(srv)' /\ srv'.surface \in {0, created'}
        /\ shm' = BuffersOf(srv') \cup RingOf(srv')
        /\ srv' = NoSurface \/ srv'.surface = created'
    <3>1. CASE IsValid(new.sc)
      BY <2>1, <2>2, <2>3, <3>1 DEF Numbered
    <3>2. CASE ~IsValid(new.sc)
      BY <2>2, <2>3, <3>2, NothingOfNoSurface DEF Numbered, NoSurface
    <3>3. QED
      BY <3>1, <3>2
  <2>5. reply' \in Surfaces /\ Numbered(reply)' /\ reply'.surface \in {0, created'}
    <3>1. Numbered(srv')
      BY <2>4 DEF Numbered
    <3>2. Parcelled(srv') \in Surfaces /\ Numbered(Parcelled(srv')) /\ Parcelled(srv').surface \in {0, srv'.surface}
      BY <2>4, <3>1, ParcelledTyped
    <3>3. QED
      BY <2>2, <2>4, <3>2 DEF Numbered
  <2>6. TypeOK'
    <3>1. shm' \subseteq Names
      <4>1. Numbered(srv')
        BY <2>4 DEF Numbered
      <4>2. QED
        BY <2>4, <4>1, NamesTyped
    <3>2. created' \in 0 .. MaxSurfaces
      BY <2>1
    <3>3. QED
      BY <1>0, <2>4, <2>5, <3>1, <3>2 DEF TypeOK
  <2>7. Counted'
    BY <1>0, <2>1, <2>4, <2>5 DEF Counted
  <2>8. OlderSurface' /\ HiddenSurface'
    BY <1>0, <1>3, <2>1, <2>4 DEF OlderSurface, HiddenSurface
  <2>9. NamesMatch' /\ Numbered(app)'
    BY <1>0, <2>4 DEF NamesMatch, Numbered
  <2>10. QED
    BY <2>4, <2>5, <2>6, <2>7, <2>8, <2>9
<1>4. QED
  BY <1>1, <1>2, <1>3 DEF Relayout

LEMMA CleanupKeepsIInv ==
  ASSUME IInv, Cleanup
  PROVE  IInv'
<1> USE DEF IInv
<1>1. /\ ~inMap' /\ srv' = NoSurface /\ shm' \subseteq shm
      /\ UNCHANGED <<created, removed, app, appVisible, call, returned, reply, life>>
  BY DEF Cleanup, appVars
<1>2. TypeOK'
  BY <1>1, NothingOfNoSurface DEF TypeOK, Cleanup
<1>3. Counted'
  BY <1>1 DEF Counted, TypeOK, Relayouting, NoSurface
<1>4. OlderSurface' /\ HiddenSurface' /\ NamesMatch' /\ Numbered(srv)' /\ Numbered(app)' /\ Numbered(reply)'
  BY <1>1 DEF OlderSurface, HiddenSurface, NamesMatch, Numbered, Relayouting
<1>5. QED
  BY <1>2, <1>3, <1>4

LEMMA SetSurfaceKeepsIInv ==
  ASSUME IInv, SetSurfaceControl
  PROVE  IInv'
<1> USE DEF IInv
<1>0. /\ life = "running" /\ Relayouting /\ returned /\ call' = "none"
      /\ UNCHANGED <<created, srv, inMap, removed, appVisible, returned, reply, life>>
  BY DEF SetSurfaceControl, Relayouting, serverVars
<1>1. PICK o \in Opened(reply) : \E lost \in LostRing(o) :
        /\ shm' = shm \ (UninitSurfaceBuffer(app) \cup lost)
        /\ app' = IF call = "setVisible" /\ ~IsValid(o) THEN NoSurface ELSE o
  BY DEF SetSurfaceControl
<1>2. PICK lost \in LostRing(o) :
        /\ shm' = shm \ (UninitSurfaceBuffer(app) \cup lost)
        /\ app' = IF call = "setVisible" /\ ~IsValid(o) THEN NoSurface ELSE o
  BY <1>1
<1>3. o \in Surfaces /\ Numbered(o) /\ o.surface = reply.surface /\ (reply = NoSurface => o = NoSurface)
  BY OpenedTyped DEF TypeOK
<1>4. app' \in Surfaces /\ Numbered(app)' /\ app'.surface \in {0, reply.surface}
      /\ (reply = NoSurface => app' = NoSurface)
  <2>1. CASE app' = o
    BY <1>3, <2>1 DEF Numbered
  <2>2. CASE app' = NoSurface
    BY <2>2, NothingOfNoSurface DEF Numbered, NoSurface
  <2>3. QED
    BY <1>2, <2>1, <2>2
<1>5. lost = {} \/ lost = {<<o.surface, Ring>>}
  BY DEF LostRing
<1>6. TypeOK'
  BY <1>0, <1>2, <1>4 DEF TypeOK
<1>7. Counted'
  BY <1>0, <1>4 DEF Counted, TypeOK, Relayouting
<1>8. OlderSurface' /\ HiddenSurface' /\ Numbered(srv)' /\ Numbered(reply)'
  BY <1>0, <1>4 DEF OlderSurface, HiddenSurface, Numbered, Relayouting
<1>9. NamesMatch'
  <2> SUFFICES ASSUME inMap PROVE shm' \subseteq BuffersOf(srv) \cup RingOf(srv) /\ BuffersOf(srv) \subseteq shm'
    BY <1>0 DEF NamesMatch, BuffersOf, RingOf
  <2>1. shm \subseteq BuffersOf(srv) \cup RingOf(srv) /\ BuffersOf(srv) \subseteq shm
    BY <1>0 DEF NamesMatch
  <2>2. BuffersOf(srv) \cap UninitSurfaceBuffer(app) = {}
    <3>1. CASE srv = NoSurface
      BY <3>1, NothingOfNoSurface
    <3>2. CASE app.surface < srv.surface
      <4>1. app.surface # srv.surface /\ srv \in Surfaces /\ app \in Surfaces
        BY <3>2 DEF TypeOK, Surfaces
      <4>2. QED
        BY <4>1, NamesApart
    <3>3. QED
      BY <1>0, <3>1, <3>2 DEF OlderSurface
  <2>3. BuffersOf(srv) \cap lost = {}
    BY <1>5, BuffersAreNoRing DEF TypeOK
  <2>4. QED
    BY <1>2, <2>1, <2>2, <2>3
<1>10. QED
  BY <1>4, <1>6, <1>7, <1>8, <1>9

LEMMA DoDieKeepsIInv ==
  ASSUME IInv, DoDie
  PROVE  IInv'
<1> USE DEF IInv
<1>1. /\ life' = "removed" /\ call' = "none" /\ app' = NoSurface /\ shm' \subseteq shm
      /\ UNCHANGED <<created, srv, inMap, removed, appVisible, returned, reply>>
  BY DEF DoDie, serverVars
<1>2. TypeOK'
  BY <1>1, NothingOfNoSurface DEF TypeOK
<1>3. Counted'
  BY <1>1 DEF Counted, TypeOK, Relayouting, NoSurface
<1>4. OlderSurface' /\ HiddenSurface' /\ Numbered(srv)' /\ Numbered(app)' /\ Numbered(reply)'
  BY <1>1 DEF OlderSurface, HiddenSurface, Numbered, Relayouting
<1>5. NamesMatch'
  BY <1>1 DEF NamesMatch, BuffersOf, RingOf
<1>6. QED
  BY <1>2, <1>3, <1>4, <1>5

LEMMA AppDiesKeepsIInv ==
  ASSUME IInv, AppDies
  PROVE  IInv'
<1> USE DEF IInv
<1>1. /\ life' = "dead" /\ call' = "none" /\ app' = NoSurface
      /\ UNCHANGED <<shm, created, srv, inMap, removed, appVisible, returned, reply>>
  BY DEF AppDies, serverVars
<1>2. TypeOK'
  BY <1>1, NothingOfNoSurface DEF TypeOK
<1>3. Counted'
  BY <1>1 DEF Counted, TypeOK, Relayouting, NoSurface
<1>4. OlderSurface' /\ HiddenSurface' /\ Numbered(srv)' /\ Numbered(app)' /\ Numbered(reply)'
  BY <1>1 DEF OlderSurface, HiddenSurface, Numbered, Relayouting
<1>5. NamesMatch'
  BY <1>1 DEF NamesMatch, BuffersOf, RingOf
<1>6. QED
  BY <1>2, <1>3, <1>4, <1>5

(* The calls of the app, which change nothing but what it waits for. *)
LEMMA CallKeepsIInv ==
  ASSUME IInv, SetVisible \/ OnFrame \/ CallRemoveWindow
  PROVE  IInv'
<1> USE DEF IInv
<1>1. /\ UNCHANGED <<shm, created, srv, inMap, removed, app, reply, life>>
      /\ life = "running" /\ call = "none" /\ ~returned'
      /\ call' \in {"setVisible", "onFrame", "removeWindow"} /\ appVisible' \in BOOLEAN
      /\ call' # "removeWindow" => created < MaxSurfaces
      /\ call' = "onFrame" => appVisible'
  BY DEF SetVisible, OnFrame, CallRemoveWindow, serverVars, TypeOK
<1>2. returned' = FALSE
  BY <1>1 DEF SetVisible, OnFrame, CallRemoveWindow
<1>3. TypeOK'
  BY <1>1, <1>2 DEF TypeOK
<1>4. Counted'
  BY <1>1 DEF Counted, Relayouting
<1>5. OlderSurface' /\ HiddenSurface' /\ Numbered(srv)' /\ Numbered(app)' /\ Numbered(reply)'
  BY <1>1 DEF OlderSurface, HiddenSurface, Numbered
<1>6. NamesMatch'
  BY <1>1 DEF NamesMatch, BuffersOf, RingOf
<1>7. QED
  BY <1>3, <1>4, <1>5, <1>6

LEMMA RemovedAlready ==
  ASSUME IInv, RemoveWindow, UNCHANGED <<shm, serverVars>>
  PROVE  IInv'
<1> USE DEF IInv
<1>1. /\ UNCHANGED <<shm, created, srv, inMap, removed, app, appVisible, call, reply, life>>
      /\ call = "removeWindow" /\ returned' = TRUE
  BY DEF RemoveWindow, serverVars
<1>2. TypeOK' /\ Counted' /\ OlderSurface' /\ HiddenSurface'
  BY <1>1 DEF TypeOK, Counted, OlderSurface, HiddenSurface, Relayouting
<1>3. NamesMatch' /\ Numbered(srv)' /\ Numbered(app)' /\ Numbered(reply)'
  BY <1>1 DEF NamesMatch, BuffersOf, RingOf, Numbered
<1>4. QED
  BY <1>2, <1>3

LEMMA NextIInv == IInv /\ [Next]_vars => IInv'
<1> SUFFICES ASSUME IInv, [Next]_vars PROVE IInv'
  OBVIOUS
<1>1. CASE Relayout
  BY <1>1, RelayoutKeepsIInv
<1>2. CASE RemoveWindow
  <2>1. CASE RemoveImmediately
    BY <1>2, <2>1, RemoveKeepsIInv DEF RemoveWindow
  <2>2. CASE UNCHANGED <<shm, serverVars>>
    BY <1>2, <2>2, RemovedAlready
  <2>3. QED
    BY <1>2, <2>1, <2>2 DEF RemoveWindow
<1>3. CASE RemoveWindowToken
  BY <1>3, RemoveKeepsIInv DEF RemoveWindowToken, appVars
<1>4. CASE BinderDied
  BY <1>4, RemoveKeepsIInv DEF BinderDied, appVars
<1>5. CASE Cleanup
  BY <1>5, CleanupKeepsIInv
<1>6. CASE SetVisible \/ OnFrame \/ CallRemoveWindow
  BY <1>6, CallKeepsIInv
<1>7. CASE SetSurfaceControl
  BY <1>7, SetSurfaceKeepsIInv
<1>8. CASE DoDie
  BY <1>8, DoDieKeepsIInv
<1>9. CASE AppDies
  BY <1>9, AppDiesKeepsIInv
<1>10. CASE UNCHANGED vars
  BY <1>10 DEF vars, serverVars, appVars, IInv, TypeOK, Counted, OlderSurface, HiddenSurface, NamesMatch,
               Numbered, Relayouting, BuffersOf, RingOf
<1>11. QED
  BY <1>1, <1>2, <1>3, <1>4, <1>5, <1>6, <1>7, <1>8, <1>9, <1>10 DEF Next

-----------------------------------------------------------------------------
(* The theorems *)

LEMMA InvAlways == Spec => []IInv
BY InitIInv, NextIInv, PTL DEF Spec

(* The names, the surfaces at both ends and the calls keep their types. *)
THEOREM TypeCorrect == Spec => []TypeOK
<1>1. IInv => TypeOK
  BY DEF IInv
<1>2. QED
  BY <1>1, InvAlways, PTL

(***************************************************************************)
(* While the server has the window, the names that exist are those of its  *)
(* present surface, whatever could be made of the earlier ones; and as     *)
(* long as the app keeps the window, all its buffers are among them.       *)
(***************************************************************************)
THEOREM NamesAlwaysMatch == Spec => []NamesMatch
<1>1. IInv => NamesMatch
  BY DEF IInv
<1>2. QED
  BY <1>1, InvAlways, PTL

(***************************************************************************)
(* A window that is hidden holds no shared memory on either side, whatever *)
(* the app could open of its surface.                                      *)
(***************************************************************************)
THEOREM HiddenAlwaysFrees == Spec => []HiddenFreesMemory
<1>1. IInv => HiddenFreesMemory
  <2> SUFFICES ASSUME IInv, life = "running", ~appVisible, call = "none"
               PROVE  app = NoSurface /\ (inMap => shm = {})
    BY DEF HiddenFreesMemory
  <2>1. app = NoSurface /\ (inMap => srv = NoSurface)
    BY DEF IInv, HiddenSurface
  <2>2. QED
    BY <2>1, NothingOfNoSurface DEF IInv, NamesMatch
<1>2. QED
  BY <1>1, InvAlways, PTL

(***************************************************************************)
(* What CrashFreesMemory comes to: WindowDeathRecipient, whenever it runs, *)
(* unlinks every name there is, those of a surface whose reply the app     *)
(* never took included; so does any other removal.                         *)
(***************************************************************************)
THEOREM RemovalFreesMemory == Spec => [][RemoveImmediately => shm' = {}]_vars
<1>1. IInv /\ [Next]_vars => [RemoveImmediately => shm' = {}]_vars
  <2> SUFFICES ASSUME IInv, RemoveImmediately PROVE shm' = {}
    OBVIOUS
  <2>1. inMap /\ shm' = shm \ DestroySurfaceControl.freed
    BY DEF RemoveImmediately
  <2>2. QED
    BY <2>1, Destroyed
<1>2. QED
  BY <1>1, InvAlways, PTL DEF Spec
=============================================================================
