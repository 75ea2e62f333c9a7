----------------------------- MODULE BufferQueue -----------------------------
(***************************************************************************)
(* One BufferQueue object under every order of calls its interface allows: *)
(* a BufferProducer in the app (app/BufferProducer.cpp) or a               *)
(* BufferConsumer in the server (server/BufferConsumer.cpp).  The callers  *)
(* hold BufferItem pointers and may pass any of them to queueBuffer,       *)
(* releaseBuffer or cancelBuffer, and any key to the sync calls, whose     *)
(* keys come from the other process.  The one discipline assumed of a      *)
(* caller is that of BaseWindow::handleOnFrame: it queues only a buffer    *)
(* that dequeueBuffer gave it and that it has neither queued nor cancelled.*)
(*                                                                         *)
(* update() is modelled as the constructor uses it, on an empty queue: the *)
(* one other caller, BaseWindow::updateOrCreateBufferQueue, passes the     *)
(* surface the queue was made from, for which it returns at once.          *)
(***************************************************************************)
EXTENDS BufferSlots

CONSTANTS BufferIds,  \* mBufferIds: the keys of the surface's buffers, in order
          ForeignKeys \* keys that name no buffer of this surface

(* The keys are drawn at random one by one; the model takes them distinct. *)
ASSUME BufferIdsAssumption ==
  /\ BufferIds \in Seq(Range(BufferIds))
  /\ IsInjective(BufferIds)
  /\ ForeignKeys \cap Range(BufferIds) = {}

BufferKeys == Range(BufferIds)
Role == {"producer", "consumer"}

VARIABLES role,   \* which subclass the object is of; never changes
          members \* the members of BufferQueue
queueVars == <<role, members>>

QueueOK == role \in Role /\ members \in QueueType(BufferKeys)

QueueInit == role \in Role /\ members = NewQueue(BufferIds)

-----------------------------------------------------------------------------
(* BufferProducer *)

DequeueBuffer ==
  /\ role = "producer" /\ CanDequeue(members)
  /\ members' = ToState(members, Head(members.free), "DEQUEUED")
  /\ UNCHANGED role

(* The caller's mistake: queueing a buffer it has cancelled or never dequeued. *)
QueueAnyBuffer(k) ==
  /\ role = "producer"
  /\ members' = ToState(members, k, "QUEUED")
  /\ UNCHANGED role

QueueBuffer(k) ==
  /\ role = "producer" /\ members.state[k] = "DEQUEUED"
  /\ members' = ToState(members, k, "QUEUED")
  /\ UNCHANGED role

SyncFreeState(k) ==
  /\ role = "producer"
  /\ members' = SyncState(members, k, "FREE")
  /\ UNCHANGED role

-----------------------------------------------------------------------------
(* BufferConsumer *)

AcquireBuffer ==
  /\ role = "consumer" /\ CanAcquire(members)
  /\ members' = ToState(members, Head(members.data), "ACQUIRED")
  /\ UNCHANGED role

ReleaseBuffer(k) ==
  /\ role = "consumer"
  /\ members' = ToState(members, k, "FREE")
  /\ UNCHANGED role

SyncQueuedState(k) ==
  /\ role = "consumer"
  /\ members' = SyncState(members, k, "QUEUED")
  /\ UNCHANGED role

-----------------------------------------------------------------------------
(* Both *)

CancelBuffer(k) ==
  /\ members' = ToState(members, k, "FREE")
  /\ UNCHANGED role

QueueNext ==
  \/ DequeueBuffer
  \/ AcquireBuffer
  \/ \E k \in BufferKeys : QueueBuffer(k) \/ ReleaseBuffer(k) \/ CancelBuffer(k)
  \/ \E k \in BufferKeys \cup ForeignKeys : SyncFreeState(k) \/ SyncQueuedState(k)

QueueSpec == QueueInit /\ [][QueueNext]_queueVars

-----------------------------------------------------------------------------
(* Properties *)

(***************************************************************************)
(* The two lists and the states say the same thing: a buffer is on the     *)
(* free list exactly once when it is FREE, on the data list exactly once   *)
(* when it is QUEUED or ACQUIRED, and on no list while it is DEQUEUED.     *)
(* toState keeps the lists and the state apart, and dequeueBuffer trusts   *)
(* the list; a buffer on two lists would be drawn and shown at once, and   *)
(* one on none would be lost.                                              *)
(***************************************************************************)
SlotsMatchStates == SlotsAgree(members)

(***************************************************************************)
(* At most one buffer is ACQUIRED, and it is the oldest on the data list:  *)
(* acquireBuffer leaves the buffer at the front of the list and refuses to *)
(* look past it, so the consumer shows frames one at a time and in the     *)
(* order they were queued.                                                 *)
(***************************************************************************)
AcquiredIsOldest == AcquiredFirst(members)

(***************************************************************************)
(* The life cycles toState documents (common/BufferQueue.cpp:125-128):     *)
(*   PRODUCER: FREE <-> DEQUEUED -> QUEUED -> FREE                         *)
(*   CONSUMER: FREE <-> QUEUED -> ACQUIRED -> FREE                         *)
(* toState itself accepts the union of the two; which one an object keeps  *)
(* to follows from the calls its subclass offers, in any order, and from   *)
(* the states those calls start from.                                      *)
(***************************************************************************)
Cycle(r) ==
  IF r = "producer"
  THEN {<<"FREE", "DEQUEUED">>, <<"DEQUEUED", "FREE">>,
        <<"DEQUEUED", "QUEUED">>, <<"QUEUED", "FREE">>}
  ELSE {<<"FREE", "QUEUED">>, <<"QUEUED", "FREE">>,
        <<"QUEUED", "ACQUIRED">>, <<"ACQUIRED", "FREE">>}

KeepsCycle ==
  [][\A k \in BufferKeys :
       members'.state[k] # members.state[k]
         => <<members.state[k], members'.state[k]>> \in Cycle(role)]_queueVars
=============================================================================
