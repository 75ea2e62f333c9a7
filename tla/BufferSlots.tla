----------------------------- MODULE BufferSlots -----------------------------
(***************************************************************************)
(* The state a BufferQueue object keeps (common/BufferQueue.cpp) and what  *)
(* its one mutator, toState, does to it.  The same class serves the app's  *)
(* BufferProducer and the server's BufferConsumer, so this is written as   *)
(* operators on a record: both ends of a surface use them.                 *)
(*                                                                         *)
(*   state   mBuffers: the state of every buffer, by key                   *)
(*   free    mFreeSlot, a list of keys                                     *)
(*   data    mDataSlot, a list of keys                                     *)
(*                                                                         *)
(* The mapped memory, the file descriptor and mUserData of a BufferItem    *)
(* are not part of it: nothing here branches on them.                      *)
(***************************************************************************)
EXTENDS Sequences, Integers, Functions

BufferState == {"FREE", "DEQUEUED", "QUEUED", "ACQUIRED"}

(* A queue over the buffers in keys. *)
QueueType(keys) == [state : [keys -> BufferState],
                    free  : Seq(keys),
                    data  : Seq(keys)]

(* The constructor: every buffer id is mapped, FREE, in the order given.   *)
NewQueue(ids) == [state |-> [k \in Range(ids) |-> "FREE"],
                  free  |-> ids,
                  data  |-> << >>]

(***************************************************************************)
(* std::list::remove(k).  It erases every occurrence; a slot never holds a *)
(* key twice (BufferQueue!SlotsMatchStates), so erasing the one there is   *)
(* comes to the same, which MCBufferQueue checks against SelectSeq.        *)
(***************************************************************************)
Without(slot, k) ==
  LET i == CHOOSE j \in 1 .. Len(slot) : slot[j] = k
  IN  [j \in 1 .. Len(slot) - 1 |-> IF j < i THEN slot[j] ELSE slot[j + 1]]

(* toState returns true. *)
CanMove(q, k, to) ==
  \/ q.state[k] = "FREE" /\ to \in {"DEQUEUED", "QUEUED"} /\ k \in Range(q.free)
  \/ q.state[k] = "DEQUEUED" /\ to = "QUEUED" /\ k \notin Range(q.data)
  \/ q.state[k] = "DEQUEUED" /\ to = "FREE" /\ k \notin Range(q.free)
  \/ q.state[k] = "QUEUED" /\ to = "ACQUIRED"
  \/ q.state[k] \in {"QUEUED", "ACQUIRED"} /\ to = "FREE" /\ k \in Range(q.data)

(***************************************************************************)
(* A mistake toState could make, which SlotsMatchStates would show: a      *)
(* buffer released without having been acquired stays on the data list.    *)
(***************************************************************************)
MovedKeepsData(q, k, to) ==
  [state |-> [q.state EXCEPT ![k] = to],
   free  |-> IF to = "FREE" THEN Append(q.free, k)
             ELSE IF q.state[k] = "FREE" THEN Without(q.free, k) ELSE q.free,
   data  |-> IF to = "QUEUED" THEN Append(q.data, k)
             ELSE IF to = "FREE" /\ q.state[k] = "ACQUIRED"
                  THEN Without(q.data, k) ELSE q.data]

(* What a toState that returns true leaves behind. *)
Moved(q, k, to) ==
  [state |-> [q.state EXCEPT ![k] = to],
   free  |-> IF to = "FREE" THEN Append(q.free, k)
             ELSE IF q.state[k] = "FREE" THEN Without(q.free, k) ELSE q.free,
   data  |-> IF to = "QUEUED" THEN Append(q.data, k)
             ELSE IF to = "FREE" /\ q.state[k] # "DEQUEUED"
                  THEN Without(q.data, k) ELSE q.data]

ToState(q, k, to) == IF CanMove(q, k, to) THEN Moved(q, k, to) ELSE q

(***************************************************************************)
(* syncState: the other end has changed the state of key to by; a key that *)
(* is not of this queue, or not in the state by follows from, is ignored.  *)
(***************************************************************************)
CanSync(q, key, by) ==
  /\ key \in DOMAIN q.state
  /\ \/ q.state[key] = "QUEUED" /\ by = "FREE"
     \/ q.state[key] = "FREE" /\ by = "QUEUED"
  /\ CanMove(q, key, by)

SyncState(q, key, by) == IF CanSync(q, key, by) THEN Moved(q, key, by) ELSE q

(* dequeueBuffer and acquireBuffer look at the front of a slot only. *)
CanDequeue(q) == q.free # << >> /\ CanMove(q, Head(q.free), "DEQUEUED")
CanAcquire(q) == q.data # << >> /\ CanMove(q, Head(q.data), "ACQUIRED")

-----------------------------------------------------------------------------
(***************************************************************************)
(* What makes a queue well formed: the two lists and the states say the    *)
(* same thing.  A buffer is on the free list exactly once when it is FREE, *)
(* on the data list exactly once when it is QUEUED or ACQUIRED, and on     *)
(* neither while it is DEQUEUED.                                           *)
(***************************************************************************)
SlotsAgree(q) ==
  /\ IsInjective(q.free)
  /\ IsInjective(q.data)
  /\ \A k \in DOMAIN q.state :
       /\ k \in Range(q.free) <=> q.state[k] = "FREE"
       /\ k \in Range(q.data) <=> q.state[k] \in {"QUEUED", "ACQUIRED"}

(* Only the oldest buffer of the data list may be ACQUIRED. *)
AcquiredFirst(q) ==
  \A i \in 1 .. Len(q.data) : q.state[q.data[i]] = "ACQUIRED" => i = 1
=============================================================================
