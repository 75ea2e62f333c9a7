------------------------------- MODULE FakeFmq -------------------------------
(***************************************************************************)
(* The ring in shared memory through which the server hands the keys of    *)
(* released buffers back to the app (include/wm/FakeFmq.h).  One process   *)
(* writes and one reads, without a lock; each keeps its own position and   *)
(* nobody checks whether the ring is full.  A slot that holds 0 ends the   *)
(* ring.                                                                   *)
(*                                                                         *)
(* write() is two stores to the shared memory and read() one load; each is *)
(* an action, since the processes may run on different processors.  The    *)
(* reader is taken to see the two stores in program order, which plain     *)
(* stores do not promise (see README, "Where the code falls short").       *)
(***************************************************************************)
EXTENDS Integers, Sequences, Functions

CONSTANTS RingIds \* mBufferIds: the data the ring is created with

ASSUME RingIdsAssumption ==
  /\ RingIds \in Seq(Range(RingIds)) /\ RingIds # << >>
  /\ IsInjective(RingIds)
  /\ Range(RingIds) \subseteq Int \ {0}

RingKeys == Range(RingIds)
Caps == Len(RingIds) + 1 \* mCaps
Slots == 0 .. Caps - 1

VARIABLES queue,    \* mQueue, the shared memory
          writePos, \* the writer's mWritePos
          pending,  \* the key of a write() that is between its two stores, or 0
          readPos,  \* the reader's mReadPos
          got       \* the key the last read() gave, 0 when it returned false
ringVars == <<queue, writePos, pending, readPos, got>>

(* (pos + 1) % mCaps *)
Following(pos) == IF pos + 1 = Caps THEN 0 ELSE pos + 1

(***************************************************************************)
(* The keys the reader would find, oldest first: from its position up to   *)
(* the writer's.                                                           *)
(***************************************************************************)
UnreadCount == IF writePos >= readPos THEN writePos - readPos ELSE writePos - readPos + Caps
At(i) == IF readPos + i < Caps THEN readPos + i ELSE readPos + i - Caps
Unread == [i \in 1 .. UnreadCount |-> queue[At(i - 1)]]

RingOK ==
  /\ queue \in [Slots -> RingKeys \cup {0}]
  /\ writePos \in Slots /\ readPos \in Slots
  /\ pending \in RingKeys \cup {0}
  /\ got \in RingKeys \cup {0}

(* After create() in both processes: every key is in the ring. *)
RingInit ==
  /\ queue = [i \in Slots |-> IF i < Len(RingIds) THEN RingIds[i + 1] ELSE 0]
  /\ writePos = Caps - 1
  /\ readPos = 0
  /\ pending = 0 /\ got = 0

-----------------------------------------------------------------------------
(***************************************************************************)
(* write(&key).  The server writes the key of a buffer it stops showing,   *)
(* which the app does not have back yet: that key is not in the ring.      *)
(* SurfaceBuffers checks that this is so; nothing else bounds the ring.    *)
(***************************************************************************)
WriteFlag(k) ==
  /\ pending = 0 /\ k \notin Range(Unread)
  /\ queue' = [queue EXCEPT ![Following(writePos)] = 0]
  /\ pending' = k
  /\ UNCHANGED <<writePos, readPos, got>>

WriteItem ==
  /\ pending # 0
  /\ queue' = [queue EXCEPT ![writePos] = pending]
  /\ writePos' = Following(writePos)
  /\ pending' = 0
  /\ UNCHANGED <<readPos, got>>

(* A read that stays where it is: a mistake ImplementsFifo would show. *)
ReadAgain ==
  /\ queue[readPos] # 0
  /\ got' = queue[readPos]
  /\ UNCHANGED <<queue, writePos, pending, readPos>>

(* read(): an item, or the 0 that ends the ring. *)
Read ==
  /\ queue[readPos] # 0
  /\ got' = queue[readPos]
  /\ readPos' = Following(readPos)
  /\ UNCHANGED <<queue, writePos, pending>>

ReadNothing ==
  /\ queue[readPos] = 0
  /\ got' = 0
  /\ UNCHANGED <<queue, writePos, pending, readPos>>

RingNext ==
  \/ \E k \in RingKeys : WriteFlag(k)
  \/ WriteItem
  \/ Read \/ ReadNothing

RingSpec == RingInit /\ [][RingNext]_ringVars

-----------------------------------------------------------------------------
(* Properties *)

(***************************************************************************)
(* The shape the reader relies on: everything between its position and the *)
(* writer's is a key, no key twice, and the slot where the writer stands   *)
(* is 0 and so ends the ring, also between the two stores of a write.  The *)
(* ring is never so full that writing the flag would erase an unread key.  *)
(***************************************************************************)
RingShape ==
  /\ \A i \in 1 .. UnreadCount : Unread[i] # 0
  /\ IsInjective(Unread)
  /\ queue[writePos] = 0
  /\ pending # 0 =>
       /\ queue[Following(writePos)] = 0
       /\ pending \notin Range(Unread)
       /\ Following(writePos) # readPos

(***************************************************************************)
(* The ring is a queue: no key is lost, read twice or read out of order,   *)
(* and read() finds nothing only when nothing is there, however the two    *)
(* processes interleave.                                                   *)
(***************************************************************************)
Fifo == INSTANCE KeyFifo WITH Ids <- RingIds, items <- Unread
ImplementsFifo == Fifo!Spec
=============================================================================
