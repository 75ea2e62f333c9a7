---------------------------- MODULE SurfaceBuffers ----------------------------
(***************************************************************************)
(* The buffers of one window between the app that draws into them and the  *)
(* server that shows them.                                                 *)
(*                                                                         *)
(* App (app/BaseWindow.cpp, one thread): onFrame reads one released key    *)
(* from the ring, takes a free buffer, draws, and sends the key of the     *)
(* finished frame in a transaction.  setVisible, and onFrame when there is *)
(* no surface, call relayout on the server and adopt what it returns.      *)
(*                                                                         *)
(* Server (server/WindowState.cpp, server/WindowNode.cpp, one thread):     *)
(* applyTransaction shows the buffer it names and releases the one shown   *)
(* before, writing its key to the ring.  relayout drops the old surface    *)
(* and makes a new one; the window may be removed at any time.             *)
(*                                                                         *)
(* Each end has a BufferQueue over the same keys (BufferSlots).  The ring  *)
(* is the FIFO that FakeFmq is shown to be, as long as no key is written   *)
(* to it twice (RingHoldsKeyOnce).  applyTransaction is a one-way binder   *)
(* call: transactions arrive in order, but relayout, a two-way call, may   *)
(* overtake those on their way.                                            *)
(*                                                                         *)
(* Not modelled here: when frames come (see FrameRequests), the            *)
(* transition animation (off by default), an app that cannot open the      *)
(* shared memory of a live surface, and the bufferReleased call that       *)
(* stands in for the ring when the server could not create it.             *)
(***************************************************************************)
EXTENDS BufferSlots

CONSTANTS BufferCount, \* buffers of a surface: 2, or 3 with triple buffering
          MaxSurfaces  \* bound: surfaces the server makes successfully

ASSUME CountAssumption == BufferCount \in Nat /\ BufferCount >= 2
ASSUME BoundAssumption == MaxSurfaces \in Nat \ {0}

Surfaces == 1 .. MaxSurfaces
Keys == 1 .. MaxSurfaces * BufferCount

(* The keys of surface s, in the order of its mBufferIds. *)
IdsOf(s) == [i \in 1 .. BufferCount |-> (s - 1) * BufferCount + i]
SurfaceOf(k) == (k - 1) \div BufferCount + 1

NoIds == << >>
NoKey == 0     \* a null BufferItem pointer
NoSurface == 0 \* a null mSurfaceControl, or on the server one that is not valid
Invalid == -1  \* an mSurfaceControl of the app that is not valid

VARIABLES
  \* app: BaseWindow
  appVisible, \* mAppVisible
  appSurface, \* mSurfaceControl
  producer,   \* its BufferProducer
  drawing,    \* the buffer handleOnFrame is drawing into
  calling,    \* which method waits for relayout to return: "none", "setVisible", "onFrame"
  reply,      \* the surface that relayout returns
  \* server: WindowState and WindowNode
  srvSurface, \* mSurfaceControl
  consumer,   \* its BufferConsumer
  shown,      \* WindowNode::mBuffer
  removed,    \* WS_REMOVED
  inMap,      \* the window is in mWindowMap
  named,      \* the surface whose buffers can be opened by name
  created,    \* surfaces made so far
  \* between them
  ring,       \* the keys in the FakeFmq of the newest surface, oldest first
  sent        \* the buffer keys of the transactions on their way

appVars == <<appVisible, appSurface, producer, drawing, calling, reply>>
srvVars == <<srvSurface, consumer, shown, removed, inMap, named, created>>
vars == <<appVars, srvVars, ring, sent>>

TypeOK ==
  /\ appVisible \in BOOLEAN
  /\ appSurface \in Surfaces \cup {NoSurface, Invalid}
  /\ producer \in QueueType(DOMAIN producer.state)
  /\ DOMAIN producer.state = IF appSurface \in Surfaces THEN Range(IdsOf(appSurface)) ELSE {}
  /\ drawing \in Keys \cup {NoKey}
  /\ calling \in {"none", "setVisible", "onFrame"}
  /\ reply \in Surfaces \cup {NoSurface}
  /\ srvSurface \in Surfaces \cup {NoSurface}
  /\ consumer \in QueueType(DOMAIN consumer.state)
  /\ DOMAIN consumer.state = IF srvSurface \in Surfaces THEN Range(IdsOf(srvSurface)) ELSE {}
  /\ shown \in Keys \cup {NoKey}
  /\ removed \in BOOLEAN /\ inMap \in BOOLEAN
  /\ named \in Surfaces \cup {NoSurface}
  /\ created \in 0 .. MaxSurfaces
  /\ ring \in Seq(Keys) /\ sent \in Seq(Keys)

(* attachIWindow has added the window; it has no surface yet. *)
Init ==
  /\ appVisible = FALSE /\ appSurface = NoSurface /\ producer = NewQueue(NoIds)
  /\ drawing = NoKey /\ calling = "none" /\ reply = NoSurface
  /\ srvSurface = NoSurface /\ consumer = NewQueue(NoIds) /\ shown = NoKey
  /\ removed = FALSE /\ inMap = TRUE /\ named = NoSurface /\ created = 0
  /\ ring = NoIds /\ sent = << >>

-----------------------------------------------------------------------------
(* Server *)

(***************************************************************************)
(* WindowState::releaseBuffer of the buffer shown so far, with queue c: it *)
(* is freed and, if the queue agrees, its key is written to the ring.      *)
(***************************************************************************)
Released(c) == IF shown # NoKey THEN ToState(c, shown, "FREE") ELSE c
Returned(c) == IF shown # NoKey /\ CanMove(c, shown, "FREE") THEN Append(ring, shown) ELSE ring

(* A release that the app is never told of: what BuffersComeBack would show. *)
UpdateBufferSilently(item, c) ==
  /\ shown' = item
  /\ consumer' = Released(c)
  /\ UNCHANGED ring

(* The new buffer is released, not the old: what DirectRender!DrawnUnseen would show. *)
UpdateBufferReleasesNew(item, c) ==
  /\ shown' = item
  /\ consumer' = IF item # NoKey THEN ToState(c, item, "FREE") ELSE c
  /\ ring' = IF item # NoKey THEN Append(ring, item) ELSE ring

(* WindowNode::updateBuffer(item) *)
UpdateBuffer(item, c) ==
  /\ shown' = item
  /\ consumer' = Released(c)
  /\ ring' = Returned(c)

(* uninitSurfaceBuffer, and the consumer that goes with the surface. *)
UninitSurfaceBuffer ==
  srvSurface' = NoSurface /\ named' = NoSurface /\ consumer' = NewQueue(NoIds)

(* The node keeps its pointer into the queue: what ShownIsCurrent would show. *)
DestroySurfaceOnly ==
  /\ UninitSurfaceBuffer
  /\ UNCHANGED <<shown, ring>>

(* WindowState::destroySurfaceControl: the last release, then the names go. *)
DestroySurface ==
  /\ shown' = NoKey
  /\ ring' = Returned(consumer)
  /\ UninitSurfaceBuffer

(* FakeFmq::create, by either end: the ring holds every key. *)
FilledRing(s) == IdsOf(s)

(* WindowState::createSurfaceControl *)
CreateSurface ==
  /\ created < MaxSurfaces
  /\ created' = created + 1
  /\ srvSurface' = created + 1 /\ named' = created + 1
  /\ consumer' = NewQueue(IdsOf(created + 1))
  /\ ring' = FilledRing(created + 1)
  /\ shown' = NoKey

(***************************************************************************)
(* WindowManagerService::relayout.  Making the surface may fail, and at    *)
(* the bound it does.                                                      *)
(***************************************************************************)
Relayout(visible) ==
  /\ IF ~inMap THEN UNCHANGED <<srvSurface, consumer, shown, ring, named, created>>
     ELSE \/ visible /\ CreateSurface
          \/ DestroySurface /\ UNCHANGED created
  /\ reply' = IF inMap THEN srvSurface' ELSE NoSurface
  /\ UNCHANGED <<removed, inMap, sent>>

(* WindowManagerService::applyTransaction: the next transaction, Head(sent). *)
Arrives == sent # << >> /\ sent' = Tail(sent)

(***************************************************************************)
(* A transaction the server cannot apply is answered with its key: what    *)
(* RefillErasesNothing would show.                                         *)
(***************************************************************************)
ApplyOrReturn ==
  /\ Arrives
  /\ LET k == Head(sent) IN
     IF srvSurface # NoSurface /\ CanSync(consumer, k, "QUEUED")
     THEN UpdateBuffer(k, SyncState(consumer, k, "QUEUED"))
     ELSE ring' = Append(ring, k) /\ UNCHANGED <<consumer, shown>>
  /\ UNCHANGED <<appVars, srvSurface, removed, inMap, named, created>>

(***************************************************************************)
(* WindowState::applyTransaction: without a valid surface nothing happens; *)
(* a key that is not FREE in the consumer, or of no buffer of it, becomes  *)
(* a null buffer and clears the window.                                    *)
(***************************************************************************)
ApplyTransaction ==
  /\ Arrives
  /\ LET k == Head(sent) IN
     \/ /\ srvSurface = NoSurface
        /\ UNCHANGED <<consumer, shown, ring>>
     \/ /\ srvSurface # NoSurface /\ CanSync(consumer, k, "QUEUED")
        /\ UpdateBuffer(k, SyncState(consumer, k, "QUEUED"))
     \/ /\ srvSurface # NoSurface /\ ~CanSync(consumer, k, "QUEUED")
        /\ UpdateBuffer(NoKey, consumer)
  /\ UNCHANGED <<appVars, srvSurface, removed, inMap, named, created>>

(* WindowState::removeImmediately, for its token, its app or a dead app. *)
Remove ==
  /\ inMap /\ ~removed
  /\ removed' = TRUE
  /\ DestroySurface
  /\ UNCHANGED <<appVars, inMap, created, sent>>

(***************************************************************************)
(* The task postWindowRemoveCleanup posts.  A relayout may have made one   *)
(* more surface meanwhile: ~WindowNode releases what it shows, without a   *)
(* client to tell; its ring goes with it, but not the names of its         *)
(* buffers, which only destroySurfaceControl unlinks.                      *)
(***************************************************************************)
RemoveCleanup ==
  /\ inMap /\ removed
  /\ inMap' = FALSE
  /\ srvSurface' = NoSurface /\ consumer' = NewQueue(NoIds) /\ shown' = NoKey
  /\ ring' = IF appSurface = created THEN ring ELSE NoIds
  /\ UNCHANGED <<appVars, removed, named, created, sent>>

-----------------------------------------------------------------------------
(* App *)

(* A transaction overtakes those sent before it: what DirectRender!NeverOlder would show. *)
SendsAhead(k) == sent' = <<k>> \o sent

(* SurfaceTransaction::apply, with the buffer k. *)
Sends(k) == sent' = Append(sent, k)

Idle == calling = "none" /\ drawing = NoKey

(* setVisible, up to its call of relayout. *)
SetVisible(visible) ==
  /\ Idle /\ visible # appVisible
  /\ appVisible' = visible
  /\ calling' = "setVisible"
  /\ Relayout(visible)
  /\ UNCHANGED <<appSurface, producer, drawing>>

(* handleOnFrame with no surface, up to its call of relayout. *)
FrameWithoutSurface ==
  /\ Idle /\ appVisible /\ appSurface = NoSurface
  /\ calling' = "onFrame"
  /\ Relayout(TRUE)
  /\ UNCHANGED <<appVisible, appSurface, producer, drawing>>

(***************************************************************************)
(* setSurfaceControl with a surface whose names can be opened: its ring is *)
(* filled once more, and updateOrCreateBufferQueue makes a producer.  If   *)
(* the whole window is gone, the buffers may still open, but the ring does *)
(* not.                                                                    *)
(***************************************************************************)
OpenSurface ==
  /\ reply # NoSurface /\ reply = named
  /\ appSurface' = reply
  /\ producer' = NewQueue(IdsOf(reply))
  /\ ring' = IF reply = srvSurface THEN FilledRing(reply) ELSE ring

(***************************************************************************)
(* relayout failed, or made no surface, or the server has dropped it since *)
(* and its names are gone (initSurfaceBuffer leaves no buffer ids): a      *)
(* surface that is not valid is forgotten by setVisible and kept by        *)
(* handleOnFrame.                                                          *)
(***************************************************************************)
NoSurfaceToOpen ==
  /\ reply = NoSurface \/ reply # named
  /\ appSurface' = IF reply # NoSurface /\ calling = "onFrame" THEN Invalid ELSE NoSurface
  /\ producer' = NewQueue(NoIds)
  /\ UNCHANGED ring

(* relayoutWindow has its answer; the surface so far is let go. *)
RelayoutReturns ==
  /\ calling # "none"
  /\ calling' = "none" /\ reply' = NoSurface
  /\ OpenSurface \/ NoSurfaceToOpen
  /\ UNCHANGED <<appVisible, drawing, srvVars, sent>>

(* BaseWindow::bufferReleased for the key that the ring gives, if any. *)
Synced == IF ring # << >> THEN SyncState(producer, Head(ring), "FREE") ELSE producer

(* The ring is read but not moved on: what RingHoldsKeyOnce would show. *)
FrameBeginPeeking ==
  /\ Idle /\ appVisible /\ appSurface \in Surfaces
  /\ CanDequeue(Synced)
  /\ drawing' = Head(Synced.free)
  /\ producer' = ToState(Synced, Head(Synced.free), "DEQUEUED")
  /\ UNCHANGED <<appVisible, appSurface, calling, reply, srvVars, ring, sent>>

(* handleOnFrame, up to drawFrame; it returns early if no buffer is free. *)
FrameBegin ==
  /\ Idle /\ appVisible /\ appSurface \in Surfaces
  /\ \/ /\ CanDequeue(Synced)
        /\ drawing' = Head(Synced.free)
        /\ producer' = ToState(Synced, Head(Synced.free), "DEQUEUED")
     \/ /\ ~CanDequeue(Synced)
        /\ producer' = Synced
        /\ UNCHANGED drawing
  /\ ring' = IF ring # << >> THEN Tail(ring) ELSE ring
  /\ UNCHANGED <<appVisible, appSurface, calling, reply, srvVars, sent>>

(***************************************************************************)
(* A frame that was not drawn leaves its buffer dequeued (what             *)
(* EveryBufferInOnePlace would show), or queued as if it had been sent     *)
(* (what ImplementsOwnership would show).                                  *)
(***************************************************************************)
FrameAbandon ==
  /\ drawing # NoKey
  /\ drawing' = NoKey
  /\ UNCHANGED <<producer, appVisible, appSurface, calling, reply, srvVars, ring, sent>>

FrameQueueUnsent ==
  /\ drawing # NoKey
  /\ producer' = ToState(producer, drawing, "QUEUED")
  /\ drawing' = NoKey
  /\ UNCHANGED <<appVisible, appSurface, calling, reply, srvVars, ring, sent>>

(* The rest of handleOnFrame: nothing was drawn, or the frame is sent. *)
FrameCancel ==
  /\ drawing # NoKey
  /\ producer' = ToState(producer, drawing, "FREE")
  /\ drawing' = NoKey
  /\ UNCHANGED <<appVisible, appSurface, calling, reply, srvVars, ring, sent>>

FrameSend ==
  /\ drawing # NoKey
  /\ producer' = ToState(producer, drawing, "QUEUED")
  /\ Sends(drawing)
  /\ drawing' = NoKey
  /\ UNCHANGED <<appVisible, appSurface, calling, reply, srvVars, ring>>

Next ==
  \/ \E visible \in BOOLEAN : SetVisible(visible)
  \/ FrameWithoutSurface \/ RelayoutReturns
  \/ FrameBegin \/ FrameCancel \/ FrameSend
  \/ ApplyTransaction \/ Remove \/ RemoveCleanup

Spec == Init /\ [][Next]_vars

(* The app draws on the surface that the server shows. *)
Attached == srvSurface # NoSurface /\ appSurface = srvSurface

(* An app with no free buffer, and with time to wait for one. *)
Starved ==
  /\ Attached /\ appVisible /\ Idle
  /\ \A k \in DOMAIN producer.state : producer.state[k] # "FREE"

(***************************************************************************)
(* Both processes keep running, and the server handles what it was sent.   *)
(* Frames come to an app that has no free buffer: it always has a request  *)
(* for one (FrameRequests!FrameIsAsked).  No others need to come.          *)
(***************************************************************************)
Fairness ==
  /\ WF_vars(RelayoutReturns)
  /\ WF_vars(Starved /\ FrameBegin)
  /\ WF_vars(FrameCancel \/ FrameSend)
  /\ WF_vars(ApplyTransaction)

FairSpec == Spec /\ Fairness

-----------------------------------------------------------------------------
(* Properties *)

(***************************************************************************)
(* Every buffer of an attached surface is in exactly one place.  The app's *)
(* queue knows three of its own (free, drawing, queued); a queued buffer   *)
(* is in a transaction, or shown, or in the ring, and in one of them only. *)
(* Both processes keep their own states and tell each other by messages;   *)
(* a buffer in two places is drawn into while it is shown, and a buffer in *)
(* none is lost.  The first keys in the ring are there from the start,     *)
(* for free buffers, and must all be read before their buffers are sent.   *)
(***************************************************************************)
PlacesOf(k) ==
  {p \in {"sent", "shown", "ring"} :
     \/ p = "sent" /\ k \in Range(sent)
     \/ p = "shown" /\ k = shown
     \/ p = "ring" /\ k \in Range(ring)}

EveryBufferInOnePlace ==
  Attached => \A k \in Range(IdsOf(srvSurface)) :
    CASE producer.state[k] = "FREE"     -> PlacesOf(k) \subseteq {"ring"} /\ k # drawing
      [] producer.state[k] = "DEQUEUED" -> PlacesOf(k) = {} /\ k = drawing
      [] producer.state[k] = "QUEUED"   -> k # drawing /\ \E p \in {"sent", "shown", "ring"} :
                                                            PlacesOf(k) = {p}
      [] OTHER -> FALSE

(***************************************************************************)
(* The server never keeps a pointer to a buffer of a surface that is gone: *)
(* what the node shows is a buffer of the present surface, QUEUED in the   *)
(* present consumer, and nothing else is.                                  *)
(***************************************************************************)
ShownIsCurrent ==
  /\ shown # NoKey => shown \in DOMAIN consumer.state
  /\ \A k \in DOMAIN consumer.state : consumer.state[k] = (IF k = shown THEN "QUEUED" ELSE "FREE")

(***************************************************************************)
(* A key is never written to the ring while it is in it, so the ring,      *)
(* whose write() does not look, is never overrun (FakeFmq!WriteFlag).      *)
(***************************************************************************)
RingHoldsKeyOnce ==
  /\ IsInjective(ring)
  /\ \A i \in 1 .. Len(ring) : SurfaceOf(ring[i]) = created

(***************************************************************************)
(* The app fills a ring that the server has already filled and may already *)
(* write to; it erases no key that the server has put there.               *)
(***************************************************************************)
RefillErasesNothing ==
  [][calling # "none" /\ calling' = "none" => ring' = ring]_vars

(***************************************************************************)
(* The two queues, the ring and the transactions implement BufferOwnership.*)
(* In particular a transaction that was overtaken by a relayout never      *)
(* blanks a frame of the new surface: it comes before the first of them.   *)
(***************************************************************************)
HolderOf(k) ==
  IF SurfaceOf(k) # srvSurface THEN "none"
  ELSE IF appSurface # srvSurface THEN "free"
  ELSE CASE producer.state[k] = "FREE"     -> "free"
         [] producer.state[k] = "DEQUEUED" -> "drawing"
         [] OTHER -> IF k \in Range(sent) THEN "sent" ELSE IF k = shown THEN "shown" ELSE "returning"

Ownership == INSTANCE BufferOwnership WITH
  Buffers <- Keys, surface <- srvSurface, holder <- [k \in Keys |-> HolderOf(k)]
ImplementsOwnership == Ownership!Spec

(***************************************************************************)
(* An app that finds no free buffer finds one later, unless the window is  *)
(* hidden or its surface goes: with two buffers the app depends on the     *)
(* server showing the second to get the first back.                        *)
(***************************************************************************)
BuffersComeBack == Starved ~> ~Starved
=============================================================================
