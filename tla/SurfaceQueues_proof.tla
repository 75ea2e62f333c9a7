------------------------- MODULE SurfaceQueues_proof -------------------------
(***************************************************************************)
(* Proofs about the two queues that go with a surface: BufferQueue, the    *)
(* buffers as one process sees them, and FakeFmq, the ring of the keys     *)
(* that come back; for any number of buffers.                              *)
(*                                                                         *)
(* BufferQueue: the lemmas say what the list operations do to a list       *)
(* without duplicates; MovedKeepsSlots says that a toState that succeeds   *)
(* keeps a queue well formed, and every action of BufferQueue is such a    *)
(* toState or nothing.                                                     *)
(*                                                                         *)
(* FakeFmq: the ring keeps its shape and implements KeyFifo.  The two      *)
(* facts that matter are that a ring one slot longer than the number of    *)
(* keys has room for every key not in it (RoomForKey), and what each store *)
(* and load does to the sequence of unread keys (AfterFlag, AfterItem,     *)
(* AfterRead).                                                             *)
(***************************************************************************)
EXTENDS BufferQueue, FakeFmq, SequenceTheorems, FiniteSetTheorems, TLAPS

-----------------------------------------------------------------------------
(* BufferSlots and BufferQueue *)

(* A list of the elements of S without duplicates loses exactly k. *)
LEMMA WithoutProperties ==
  ASSUME NEW S, NEW s \in Seq(S), IsInjective(s), NEW k \in Range(s)
  PROVE  /\ Without(s, k) \in Seq(S)
         /\ IsInjective(Without(s, k))
         /\ Range(Without(s, k)) = Range(s) \ {k}
         /\ \A j \in 1 .. Len(Without(s, k)) :
              \E i \in 1 .. Len(s) : j <= i /\ Without(s, k)[j] = s[i]
<1> DEFINE i == CHOOSE j \in 1 .. Len(s) : s[j] = k
           t == [j \in 1 .. Len(s) - 1 |-> IF j < i THEN s[j] ELSE s[j + 1]]
<1>1. /\ Len(s) \in Nat
      /\ s \in [1 .. Len(s) -> S]
      /\ DOMAIN s = 1 .. Len(s)
  BY LenProperties
<1>2. i \in 1 .. Len(s) /\ s[i] = k
  <2>1. \E j \in 1 .. Len(s) : s[j] = k
    BY <1>1 DEF Range
  <2>2. QED BY <2>1
<1>3. \A j \in 1 .. Len(s) : s[j] = k => j = i
  BY <1>1, <1>2 DEF IsInjective
<1>4. Without(s, k) = t
  BY DEF Without
<1>5. t \in Seq(S)
  <2>1. \A j \in 1 .. Len(s) - 1 : (IF j < i THEN s[j] ELSE s[j + 1]) \in S
    BY <1>1, <1>2
  <2>2. Len(s) - 1 \in Nat
    BY <1>1, <1>2
  <2> HIDE DEF i
  <2>3. QED BY <2>1, <2>2, IsASeq
<1>6. Len(t) = Len(s) - 1 /\ DOMAIN t = 1 .. Len(s) - 1
  <2>1. DOMAIN t = 1 .. Len(s) - 1
    OBVIOUS
  <2>2. Len(t) \in Nat /\ DOMAIN t = 1 .. Len(t)
    BY <1>5, LenProperties
  <2>3. QED BY <1>1, <1>2, <2>1, <2>2
<1> HIDE DEF i
<1>7. IsInjective(t)
  <2> SUFFICES ASSUME NEW a \in 1 .. Len(s) - 1, NEW b \in 1 .. Len(s) - 1, t[a] = t[b]
               PROVE  a = b
    BY <1>6 DEF IsInjective
  <2> DEFINE up(x) == IF x < i THEN x ELSE x + 1
  <2>1. up(a) \in 1 .. Len(s) /\ up(b) \in 1 .. Len(s) /\ s[up(a)] = s[up(b)]
    BY <1>1, <1>2
  <2>2. up(a) = up(b)
    BY <2>1, <1>1 DEF IsInjective
  <2>3. QED BY <2>2, <1>1, <1>2
<1>8. Range(t) = Range(s) \ {k}
  <2>1. ASSUME NEW x \in Range(t) PROVE x \in Range(s) /\ x # k
    <3>1. PICK j \in 1 .. Len(s) - 1 : x = t[j]
      BY <1>6 DEF Range
    <3>2. CASE j < i
      BY <3>1, <3>2, <1>1, <1>2, <1>3 DEF Range
    <3>3. CASE ~(j < i)
      <4>1. x = s[j + 1] /\ j + 1 \in 1 .. Len(s) /\ j + 1 # i
        BY <3>1, <3>3, <1>1, <1>2
      <4>2. QED BY <4>1, <1>1, <1>3 DEF Range
    <3>4. QED BY <3>2, <3>3
  <2>2. ASSUME NEW x \in Range(s), x # k PROVE x \in Range(t)
    <3>1. PICK j \in 1 .. Len(s) : x = s[j]
      BY <1>1 DEF Range
    <3>2. j # i
      BY <3>1, <2>2, <1>2
    <3>3. CASE j < i
      <4>1. j \in 1 .. Len(s) - 1 /\ t[j] = x
        BY <3>1, <3>3, <1>1, <1>2
      <4>2. QED BY <4>1, <1>6 DEF Range
    <3>4. CASE j > i
      <4>1. j - 1 \in 1 .. Len(s) - 1 /\ t[j - 1] = x
        BY <3>1, <3>4, <1>1, <1>2
      <4>2. QED BY <4>1, <1>6 DEF Range
    <3>5. QED BY <3>2, <3>3, <3>4, <1>1, <1>2
  <2>3. QED BY <2>1, <2>2
<1>9. \A j \in 1 .. Len(t) : \E m \in 1 .. Len(s) : j <= m /\ t[j] = s[m]
  <2> SUFFICES ASSUME NEW j \in 1 .. Len(s) - 1
               PROVE  \E m \in 1 .. Len(s) : j <= m /\ t[j] = s[m]
    BY <1>6
  <2>1. CASE j < i
    BY <2>1, <1>1, <1>2
  <2>2. CASE ~(j < i)
    <3>1. j + 1 \in 1 .. Len(s) /\ j <= j + 1 /\ t[j] = s[j + 1]
      BY <2>2, <1>1, <1>2
    <3>2. QED BY <3>1
  <2>3. QED BY <2>1, <2>2
<1>10. QED BY <1>4, <1>5, <1>7, <1>8, <1>9

(* A list without duplicates takes a new element at its end. *)
LEMMA AppendNew ==
  ASSUME NEW S, NEW s \in Seq(S), IsInjective(s), NEW k \in S, k \notin Range(s)
  PROVE  /\ Append(s, k) \in Seq(S)
         /\ IsInjective(Append(s, k))
         /\ Range(Append(s, k)) = Range(s) \cup {k}
<1>1. /\ Len(s) \in Nat
      /\ DOMAIN s = 1 .. Len(s)
  BY LenProperties
<1>2. /\ Append(s, k) \in Seq(S)
      /\ Len(Append(s, k)) = Len(s) + 1
      /\ \A i \in 1 .. Len(s) : Append(s, k)[i] = s[i]
      /\ Append(s, k)[Len(s) + 1] = k
  BY AppendProperties
<1>3. DOMAIN Append(s, k) = 1 .. Len(s) + 1
  BY <1>2, LenProperties
<1>4. IsInjective(Append(s, k))
  <2>1. \A i \in 1 .. Len(s) : s[i] # k
    BY <1>1 DEF Range
  <2>2. QED BY <1>1, <1>2, <1>3, <2>1 DEF IsInjective
<1>5. Range(Append(s, k)) = Range(s) \cup {k}
  BY <1>1, <1>2, <1>3 DEF Range
<1>6. QED BY <1>2, <1>4, <1>5

(* A toState that succeeds keeps a queue well formed. *)
LEMMA MovedKeepsSlots ==
  ASSUME NEW K, NEW r \in QueueType(K), SlotsAgree(r),
         NEW k \in K, NEW to \in BufferState, CanMove(r, k, to)
  PROVE  /\ Moved(r, k, to) \in QueueType(K)
         /\ SlotsAgree(Moved(r, k, to))
<1> DEFINE n == Moved(r, k, to)
<1>1. /\ r.state \in [K -> BufferState] /\ r.free \in Seq(K) /\ r.data \in Seq(K)
      /\ DOMAIN r.state = K
  BY DEF QueueType
<1>2. /\ IsInjective(r.free) /\ IsInjective(r.data)
      /\ \A x \in K : /\ x \in Range(r.free) <=> r.state[x] = "FREE"
                      /\ x \in Range(r.data) <=> r.state[x] \in {"QUEUED", "ACQUIRED"}
  BY <1>1 DEF SlotsAgree
<1>3. /\ n.state = [r.state EXCEPT ![k] = to]
      /\ n.state \in [K -> BufferState]
      /\ n.state[k] = to
      /\ \A x \in K \ {k} : n.state[x] = r.state[x]
      /\ DOMAIN n.state = K
  BY <1>1 DEF Moved
<1>3a. n = [state |-> n.state, free |-> n.free, data |-> n.data]
  BY DEF Moved
<1>3b. /\ n.free = IF to = "FREE" THEN Append(r.free, k)
                   ELSE IF r.state[k] = "FREE" THEN Without(r.free, k) ELSE r.free
       /\ n.data = IF to = "QUEUED" THEN Append(r.data, k)
                  ELSE IF to = "FREE" /\ r.state[k] # "DEQUEUED"
                       THEN Without(r.data, k) ELSE r.data
  BY DEF Moved
<1> HIDE DEF n
(* The free list gains k when it becomes FREE and loses it when it was. *)
<1>4. /\ n.free \in Seq(K) /\ IsInjective(n.free)
      /\ to = "FREE" => Range(n.free) = Range(r.free) \cup {k}
      /\ to # "FREE" => Range(n.free) = Range(r.free) \ {k}
  <2>1. CASE to = "FREE"
    <3>1. k \notin Range(r.free)
      BY <1>2, <2>1 DEF CanMove
    <3>2. n.free = Append(r.free, k)
      BY <2>1, <1>3b
    <3>3. QED BY <1>1, <1>2, <2>1, <3>1, <3>2, AppendNew
  <2>2. CASE to # "FREE" /\ r.state[k] = "FREE"
    <3>1. n.free = Without(r.free, k)
      BY <2>2, <1>3b
    <3>2. k \in Range(r.free)
      BY <1>2, <2>2
    <3>3. QED BY <1>1, <1>2, <2>2, <3>1, <3>2, WithoutProperties
  <2>3. CASE to # "FREE" /\ r.state[k] # "FREE"
    <3>1. n.free = r.free /\ k \notin Range(r.free)
      BY <1>2, <2>3, <1>3b
    <3>2. QED BY <1>1, <1>2, <2>3, <3>1
  <2>4. QED BY <2>1, <2>2, <2>3
(* The data list gains k when it becomes QUEUED and loses it when FREE. *)
<1>5. /\ n.data \in Seq(K) /\ IsInjective(n.data)
      /\ to = "QUEUED" => Range(n.data) = Range(r.data) \cup {k}
      /\ to = "FREE" => Range(n.data) = Range(r.data) \ {k}
      /\ to \notin {"QUEUED", "FREE"} => Range(n.data) = Range(r.data)
  <2>1. CASE to = "QUEUED"
    <3>1. k \notin Range(r.data)
      BY <1>2, <2>1 DEF CanMove
    <3>2. n.data = Append(r.data, k)
      BY <2>1, <1>3b
    <3>3. QED BY <1>1, <1>2, <2>1, <3>1, <3>2, AppendNew
  <2>2. CASE to = "FREE" /\ r.state[k] # "DEQUEUED"
    <3>1. n.data = Without(r.data, k)
      BY <2>2, <1>3b
    <3>2. k \in Range(r.data)
      BY <1>2, <2>2 DEF CanMove
    <3>3. QED BY <1>1, <1>2, <2>2, <3>1, <3>2, WithoutProperties
  <2>3. CASE to = "FREE" /\ r.state[k] = "DEQUEUED"
    <3>1. n.data = r.data /\ k \notin Range(r.data)
      BY <1>2, <2>3, <1>3b
    <3>2. QED BY <1>1, <1>2, <2>3, <3>1
  <2>4. CASE to \notin {"QUEUED", "FREE"}
    <3>1. n.data = r.data
      BY <2>4, <1>3b
    <3>2. QED BY <1>1, <1>2, <2>4, <3>1
  <2>5. QED BY <2>1, <2>2, <2>3, <2>4
<1>6. n \in QueueType(K)
  BY <1>3, <1>3a, <1>4, <1>5 DEF QueueType
<1>7. ASSUME NEW x \in K
      PROVE  x \in Range(n.free) <=> n.state[x] = "FREE"
  <2>1. CASE x = k
    BY <1>3, <1>4, <2>1
  <2>2. CASE x # k
    BY <1>2, <1>3, <1>4, <2>2
  <2>3. QED BY <2>1, <2>2
<1>8. ASSUME NEW x \in K
      PROVE  x \in Range(n.data) <=> n.state[x] \in {"QUEUED", "ACQUIRED"}
  <2>1. CASE x = k
    <3>1. CASE to \in {"QUEUED", "FREE"}
      BY <1>3, <1>5, <2>1, <3>1
    <3>2. CASE to = "DEQUEUED"
      <4>1. r.state[k] = "FREE"
        BY <3>2 DEF CanMove
      <4>2. k \notin Range(r.data)
        BY <1>2, <4>1
      <4>3. n.state[k] = "DEQUEUED" /\ k \notin Range(n.data)
        BY <1>3, <1>5, <3>2, <4>2
      <4>4. QED BY <2>1, <4>3
    <3>3. CASE to = "ACQUIRED"
      <4>1. r.state[k] = "QUEUED"
        BY <3>3 DEF CanMove
      <4>2. k \in Range(r.data)
        BY <1>2, <4>1
      <4>3. n.state[k] = "ACQUIRED" /\ k \in Range(n.data)
        BY <1>3, <1>5, <3>3, <4>2
      <4>4. QED BY <2>1, <4>3
    <3>4. QED BY <3>1, <3>2, <3>3 DEF BufferState
  <2>2. CASE x # k
    <3>1. x \in Range(n.data) <=> x \in Range(r.data)
      BY <1>5, <2>2
    <3>2. n.state[x] = r.state[x]
      BY <1>3, <2>2
    <3>3. x \in Range(r.data) <=> r.state[x] \in {"QUEUED", "ACQUIRED"}
      BY <1>2
    <3>4. QED BY <3>1, <3>2, <3>3
  <2>3. QED BY <2>1, <2>2
<1>9. SlotsAgree(n)
  BY <1>3, <1>4, <1>5, <1>7, <1>8 DEF SlotsAgree
<1>10. QED BY <1>6, <1>9 DEF n

(* Hence so do toState and syncState, whether they succeed or not. *)
LEMMA ToStateKeepsSlots ==
  ASSUME NEW K, NEW r \in QueueType(K), SlotsAgree(r), NEW k \in K, NEW to \in BufferState
  PROVE  ToState(r, k, to) \in QueueType(K) /\ SlotsAgree(ToState(r, k, to))
BY MovedKeepsSlots DEF ToState

LEMMA SyncStateKeepsSlots ==
  ASSUME NEW K, NEW r \in QueueType(K), SlotsAgree(r), NEW k, NEW by \in BufferState
  PROVE  SyncState(r, k, by) \in QueueType(K) /\ SlotsAgree(SyncState(r, k, by))
<1>1. DOMAIN r.state = K
  BY DEF QueueType
<1>2. QED BY <1>1, MovedKeepsSlots DEF SyncState, CanSync

(* A fresh queue is well formed. *)
LEMMA NewQueueSlots ==
  ASSUME NEW ids, ids \in Seq(Range(ids)), IsInjective(ids)
  PROVE  NewQueue(ids) \in QueueType(Range(ids)) /\ SlotsAgree(NewQueue(ids))
<1>1. << >> \in Seq(Range(ids)) /\ Range(<< >>) = {} /\ IsInjective(<< >>)
  BY EmptySeq DEF Range, IsInjective
<1>2. QED BY <1>1 DEF NewQueue, QueueType, SlotsAgree, BufferState

(* A toState that succeeds leaves at most the oldest buffer ACQUIRED, if   *)
(* it acquires no other.                                                   *)
LEMMA MovedKeepsOldest ==
  ASSUME NEW K, NEW r \in QueueType(K), SlotsAgree(r), AcquiredFirst(r),
         NEW k \in K, NEW to \in BufferState, CanMove(r, k, to),
         to = "ACQUIRED" => k = r.data[1]
  PROVE  AcquiredFirst(Moved(r, k, to))
<1> DEFINE n == Moved(r, k, to)
<1>1. /\ r.state \in [K -> BufferState] /\ r.data \in Seq(K)
      /\ DOMAIN r.state = K
      /\ Len(r.data) \in Nat /\ DOMAIN r.data = 1 .. Len(r.data)
      /\ \A i \in 1 .. Len(r.data) : r.data[i] \in K
  <2>1. /\ r.state \in [K -> BufferState] /\ r.data \in Seq(K) /\ DOMAIN r.state = K
    BY DEF QueueType
  <2>2. QED BY <2>1, LenProperties
<1>2. /\ IsInjective(r.data)
      /\ \A x \in K : x \in Range(r.data) <=> r.state[x] \in {"QUEUED", "ACQUIRED"}
  BY <1>1 DEF SlotsAgree
<1>3. /\ n.state[k] = to
      /\ \A x \in K \ {k} : n.state[x] = r.state[x]
  BY <1>1 DEF Moved
<1>4. CASE to = "QUEUED"
  <2>1. n.data = Append(r.data, k)
    BY <1>4 DEF Moved
  <2> HIDE DEF n
  <2>2. /\ Len(n.data) = Len(r.data) + 1
        /\ \A i \in 1 .. Len(r.data) : n.data[i] = r.data[i]
        /\ n.data[Len(r.data) + 1] = k
    BY <1>1, <2>1, AppendProperties
  <2>3. k \notin Range(r.data)
    BY <1>2, <1>4 DEF CanMove
  <2>4. \A i \in 1 .. Len(r.data) : n.state[n.data[i]] = r.state[r.data[i]]
    BY SMTT(30), <1>1, <1>3, <2>2, <2>3 DEF Range
  <2>5. QED BY SMTT(30), <1>1, <1>3, <1>4, <2>2, <2>4 DEF AcquiredFirst, n
<1>5. CASE to = "FREE" /\ r.state[k] # "DEQUEUED"
  <2>1. n.data = Without(r.data, k)
    BY <1>5 DEF Moved
  <2> HIDE DEF n
  <2>2. k \in Range(r.data)
    BY <1>2, <1>5 DEF CanMove
  <2>3. /\ n.data \in Seq(K)
        /\ Range(n.data) = Range(r.data) \ {k}
        /\ \A j \in 1 .. Len(n.data) : \E i \in 1 .. Len(r.data) : j <= i /\ n.data[j] = r.data[i]
    BY <1>1, <1>2, <2>1, <2>2, WithoutProperties
  <2>4. /\ Len(n.data) \in Nat /\ DOMAIN n.data = 1 .. Len(n.data)
    BY <2>3, LenProperties
  <2>5. SUFFICES ASSUME NEW j \in 1 .. Len(n.data), n.state[n.data[j]] = "ACQUIRED"
                 PROVE  j = 1
    BY DEF AcquiredFirst, n
  <2>6. PICK i \in 1 .. Len(r.data) : j <= i /\ n.data[j] = r.data[i]
    BY <2>3
  <2>7. n.data[j] # k
    BY <2>3, <2>4 DEF Range
  <2>8. r.state[r.data[i]] = "ACQUIRED"
    BY <1>1, <1>3, <2>5, <2>6, <2>7
  <2>9. i = 1
    BY <2>8 DEF AcquiredFirst
  <2>10. QED BY <2>4, <2>6, <2>9
<1>6. CASE (to = "FREE" /\ r.state[k] = "DEQUEUED") \/ to = "DEQUEUED"
  <2>1. n.data = r.data
    BY <1>6 DEF Moved
  <2> HIDE DEF n
  <2>2. \A i \in 1 .. Len(r.data) : n.state[n.data[i]] = "ACQUIRED" => r.state[r.data[i]] = "ACQUIRED"
    BY <1>1, <1>3, <1>6, <2>1
  <2>3. QED BY <2>1, <2>2 DEF AcquiredFirst, n
<1>7. CASE to = "ACQUIRED"
  <2>1. n.data = r.data
    BY <1>7 DEF Moved
  <2> HIDE DEF n
  <2>2. r.state[k] = "QUEUED"
    BY <1>7 DEF CanMove
  <2>3. 1 \in 1 .. Len(r.data)
    BY <1>1, <1>2, <2>2 DEF Range
  <2>4. \A i \in 1 .. Len(r.data) : r.data[i] = k => i = 1
    BY <1>1, <1>2, <1>7, <2>3 DEF IsInjective
  <2>5. QED BY <1>1, <1>3, <2>1, <2>4 DEF AcquiredFirst, n
<1>8. QED BY <1>4, <1>5, <1>6, <1>7 DEF BufferState

-----------------------------------------------------------------------------
(***************************************************************************)
(* The inductive invariant.  A producer never acquires and a consumer      *)
(* never dequeues; without that, an ACQUIRED buffer of a producer could    *)
(* sit anywhere on its list and toState could leave the documented cycle.  *)
(***************************************************************************)
RoleStates == \A k \in BufferKeys : members.state[k] # (IF role = "producer" THEN "ACQUIRED" ELSE "DEQUEUED")

QueueInv == QueueOK /\ SlotsMatchStates /\ AcquiredIsOldest /\ RoleStates

(* A step of the object is a toState that succeeded, or changed nothing.   *)
LEMMA StepIsMove ==
  ASSUME QueueInv, [QueueNext]_queueVars
  PROVE  \/ UNCHANGED queueVars
         \/ /\ role' = role
            /\ \E k \in BufferKeys, to \in BufferState :
                 /\ CanMove(members, k, to)
                 /\ members' = Moved(members, k, to)
                 /\ <<members.state[k], to>> \in Cycle(role)
                 /\ to = "ACQUIRED" => role = "consumer" /\ k = members.data[1]
                 /\ to = "DEQUEUED" => role = "producer"
<1> USE DEF BufferState
<1>1. /\ role \in Role /\ members.free \in Seq(BufferKeys) /\ members.data \in Seq(BufferKeys)
      /\ DOMAIN members.state = BufferKeys /\ \A k \in BufferKeys : members.state[k] \in BufferState
  BY DEF QueueInv, QueueOK, QueueType
<1>2. CASE DequeueBuffer
  <2>1. Head(members.free) \in BufferKeys /\ CanMove(members, Head(members.free), "DEQUEUED")
    BY <1>1, <1>2, HeadTailProperties DEF DequeueBuffer, CanDequeue
  <2>2. members.state[Head(members.free)] = "FREE"
    BY <2>1 DEF CanMove
  <2>3. QED BY <1>2, <2>1, <2>2 DEF DequeueBuffer, ToState, Cycle
<1>3. CASE AcquireBuffer
  <2>1. /\ Head(members.data) \in BufferKeys /\ Head(members.data) = members.data[1]
        /\ CanMove(members, Head(members.data), "ACQUIRED")
    BY <1>1, <1>3, HeadTailProperties DEF AcquireBuffer, CanAcquire
  <2>2. members.state[Head(members.data)] = "QUEUED"
    BY <2>1 DEF CanMove
  <2>3. QED BY <1>3, <2>1, <2>2 DEF AcquireBuffer, ToState, Cycle
<1>4. ASSUME NEW k \in BufferKeys, QueueBuffer(k)
      PROVE  \/ UNCHANGED queueVars
             \/ role' = role /\ role = "producer" /\ CanMove(members, k, "QUEUED")
                /\ members' = Moved(members, k, "QUEUED") /\ members.state[k] = "DEQUEUED"
  BY <1>4 DEF QueueBuffer, ToState, queueVars
<1>5. ASSUME NEW k \in BufferKeys, ReleaseBuffer(k) \/ CancelBuffer(k)
      PROVE  \/ UNCHANGED queueVars
             \/ role' = role /\ CanMove(members, k, "FREE") /\ members' = Moved(members, k, "FREE")
  BY <1>5 DEF ReleaseBuffer, CancelBuffer, ToState, queueVars
<1>6. ASSUME NEW k, SyncFreeState(k)
      PROVE  \/ UNCHANGED queueVars
             \/ role' = role /\ k \in BufferKeys /\ CanMove(members, k, "FREE") /\ members' = Moved(members, k, "FREE")
  BY <1>1, <1>6 DEF SyncFreeState, SyncState, CanSync, queueVars
<1>7. ASSUME NEW k, SyncQueuedState(k)
      PROVE  \/ UNCHANGED queueVars
             \/ /\ role' = role /\ role = "consumer" /\ k \in BufferKeys
                /\ CanMove(members, k, "QUEUED") /\ members' = Moved(members, k, "QUEUED") /\ members.state[k] = "FREE"
  BY <1>1, <1>7 DEF SyncQueuedState, SyncState, CanSync, queueVars
<1>8. ASSUME NEW k \in BufferKeys, CanMove(members, k, "FREE")
      PROVE  <<members.state[k], "FREE">> \in Cycle(role)
  <2>1. members.state[k] \in {"DEQUEUED", "QUEUED", "ACQUIRED"}
    BY <1>8 DEF CanMove
  <2>2. QED BY <1>1, <2>1 DEF QueueInv, RoleStates, Cycle, Role
<1>9. ASSUME NEW k \in BufferKeys, role = "producer", members.state[k] = "DEQUEUED"
      PROVE  <<members.state[k], "QUEUED">> \in Cycle(role)
  BY <1>9 DEF Cycle
<1>10. ASSUME NEW k \in BufferKeys, role = "consumer", members.state[k] = "FREE"
       PROVE  <<members.state[k], "QUEUED">> \in Cycle(role)
  BY <1>10 DEF Cycle
<1>11. CASE UNCHANGED queueVars
  BY <1>11
<1>12. QED BY <1>2, <1>3, <1>4, <1>5, <1>6, <1>7, <1>8, <1>9, <1>10, <1>11 DEF QueueNext

LEMMA QueueInitHolds == QueueInit => QueueInv
<1> SUFFICES ASSUME QueueInit PROVE QueueInv
  OBVIOUS
<1>1. members \in QueueType(BufferKeys) /\ SlotsAgree(members)
  BY BufferIdsAssumption, NewQueueSlots DEF QueueInit, BufferKeys
<1>2. members.data = << >> /\ \A k \in BufferKeys : members.state[k] = "FREE"
  BY DEF QueueInit, NewQueue, BufferKeys
<1>3. QED BY <1>1, <1>2, EmptySeq
          DEF QueueInit, QueueInv, QueueOK, SlotsMatchStates, AcquiredIsOldest, AcquiredFirst, RoleStates

LEMMA QueueNextKeeps == QueueInv /\ [QueueNext]_queueVars => QueueInv'
<1> SUFFICES ASSUME QueueInv, [QueueNext]_queueVars PROVE QueueInv'
  OBVIOUS
<1>1. CASE UNCHANGED queueVars
  BY <1>1 DEF QueueInv, QueueOK, SlotsMatchStates, AcquiredIsOldest, RoleStates, queueVars
<1>2. ASSUME role' = role, NEW k \in BufferKeys, NEW to \in BufferState,
             CanMove(members, k, to), members' = Moved(members, k, to),
             to = "ACQUIRED" => role = "consumer" /\ k = members.data[1],
             to = "DEQUEUED" => role = "producer"
      PROVE  QueueInv'
  <2>1. QueueOK' /\ SlotsMatchStates'
    BY <1>2, MovedKeepsSlots DEF QueueInv, QueueOK, SlotsMatchStates
  <2>2. AcquiredIsOldest'
    BY <1>2, MovedKeepsOldest DEF QueueInv, QueueOK, SlotsMatchStates, AcquiredIsOldest
  <2>3. RoleStates'
    <3>1. \A x \in BufferKeys : members'.state[x] = IF x = k THEN to ELSE members.state[x]
      BY <1>2 DEF Moved, QueueInv, QueueOK, QueueType
    <3>2. QED BY <1>2, <3>1 DEF QueueInv, RoleStates
  <2>4. QED BY <2>1, <2>2, <2>3 DEF QueueInv
<1>3. QED BY <1>1, <1>2, StepIsMove

THEOREM QueueInvariance == QueueSpec => []QueueInv
BY QueueInitHolds, QueueNextKeeps, PTL DEF QueueSpec

(* The members of a queue keep their types: every slot holds only keys of  *)
(* buffers of this surface, whatever keys the other process sends.         *)
THEOREM MembersTyped == QueueSpec => []QueueOK
<1>1. QueueInv => QueueOK
  BY DEF QueueInv
<1>2. QED BY <1>1, QueueInvariance, PTL

(* The lists and the states of a queue agree, for any number of buffers    *)
(* and any order of calls.                                                 *)
THEOREM SlotsAlwaysMatch == QueueSpec => []SlotsMatchStates
<1>1. QueueInv => SlotsMatchStates
  BY DEF QueueInv
<1>2. QED BY <1>1, QueueInvariance, PTL

(* A consumer holds at most one ACQUIRED buffer, the oldest queued one.    *)
THEOREM AcquiresInOrder == QueueSpec => []AcquiredIsOldest
<1>1. QueueInv => AcquiredIsOldest
  BY DEF QueueInv
<1>2. QED BY <1>1, QueueInvariance, PTL

(* Every change of a buffer's state is an edge of the cycle documented for *)
(* the object's role.                                                      *)
THEOREM CycleKept == QueueSpec => KeepsCycle
<1> DEFINE Edge == \A k \in BufferKeys : members'.state[k] # members.state[k]
                                     => <<members.state[k], members'.state[k]>> \in Cycle(role)
<1>1. QueueInv /\ [QueueNext]_queueVars => [Edge]_queueVars
  <2> SUFFICES ASSUME QueueInv, [QueueNext]_queueVars, ~UNCHANGED queueVars PROVE Edge
    OBVIOUS
  <2>1. PICK k \in BufferKeys, to \in BufferState :
          /\ members' = Moved(members, k, to)
          /\ <<members.state[k], to>> \in Cycle(role)
    BY StepIsMove
  <2>2. \A x \in BufferKeys : members'.state[x] = IF x = k THEN to ELSE members.state[x]
    BY <2>1 DEF Moved, QueueInv, QueueOK, QueueType
  <2>3. QED BY <2>1, <2>2
<1>2. QED BY <1>1, QueueInvariance, PTL DEF QueueSpec, KeepsCycle

-----------------------------------------------------------------------------
(* FakeFmq *)

LEMMA CapsType == Caps \in Nat /\ Caps >= 2 /\ Len(RingIds) \in Nat /\ DOMAIN RingIds = 1 .. Len(RingIds)
                  /\ \A i \in 1 .. Len(RingIds) : RingIds[i] \in RingKeys /\ RingIds[i] \in Int /\ RingIds[i] # 0
<1>1. Len(RingIds) \in Nat /\ DOMAIN RingIds = 1 .. Len(RingIds)
  BY RingIdsAssumption, LenProperties
<1>2. Len(RingIds) # 0
  BY RingIdsAssumption, EmptySeq
<1>3. \A i \in 1 .. Len(RingIds) : RingIds[i] \in RingKeys
  BY <1>1 DEF RingKeys, Range
<1>4. QED BY <1>1, <1>2, <1>3, RingIdsAssumption DEF Caps, RingKeys

LEMMA KeyIsNotZero == \A k \in RingKeys : k # 0
BY RingIdsAssumption DEF RingKeys

RingInv == RingOK /\ RingShape

(* The sequence of unread keys, slot by slot. *)
LEMMA UnreadType ==
  ASSUME RingInv
  PROVE  /\ UnreadCount \in 0 .. Caps - 1
         /\ \A i \in 0 .. UnreadCount - 1 : At(i) \in Slots /\ At(i) # writePos
         /\ Unread \in Seq(RingKeys) /\ Len(Unread) = UnreadCount
         /\ DOMAIN Unread = 1 .. UnreadCount
         /\ \A i \in 1 .. UnreadCount : Unread[i] = queue[At(i - 1)] /\ Unread[i] \in RingKeys
<1>1. UnreadCount \in 0 .. Caps - 1
  BY CapsType DEF RingInv, RingOK, UnreadCount, Slots
<1>2. \A i \in 0 .. UnreadCount - 1 : At(i) \in Slots /\ At(i) # writePos
  BY CapsType DEF RingInv, RingOK, UnreadCount, Slots, At
<1>3. \A i \in 1 .. UnreadCount : Unread[i] = queue[At(i - 1)]
  BY <1>1 DEF Unread
<1>4. \A i \in 1 .. UnreadCount : Unread[i] \in RingKeys
  <2> SUFFICES ASSUME NEW i \in 1 .. UnreadCount PROVE Unread[i] \in RingKeys
    OBVIOUS
  <2>1. At(i - 1) \in Slots
    BY <1>1, <1>2
  <2>2. Unread[i] # 0
    BY DEF RingInv, RingShape
  <2>3. QED BY <1>3, <2>1, <2>2 DEF RingInv, RingOK
<1>5. Unread \in Seq(RingKeys)
  <2>1. \A i \in 1 .. UnreadCount : queue[At(i - 1)] \in RingKeys
    BY <1>3, <1>4
  <2>2. QED BY <1>1, <2>1, IsASeq DEF Unread
<1>6. DOMAIN Unread = 1 .. UnreadCount
  BY DEF Unread
<1>7. Len(Unread) = UnreadCount
  BY <1>1, <1>5, <1>6, LenProperties
<1>8. QED BY <1>1, <1>2, <1>3, <1>4, <1>5, <1>6, <1>7

(* A key that is not in the ring leaves two slots unused: there are fewer  *)
(* unread keys than keys, and one slot more than keys.                     *)
LEMMA RoomForKey ==
  ASSUME RingInv, NEW k \in RingKeys, k \notin Range(Unread)
  PROVE  UnreadCount <= Caps - 2
<1>1. IsFiniteSet(RingKeys) /\ Cardinality(RingKeys) \in Nat /\ Cardinality(RingKeys) <= Len(RingIds)
  <2>1. RingIds \in Surjection(1 .. Len(RingIds), RingKeys)
    BY CapsType, RingIdsAssumption, LenProperties DEF Surjection, RingKeys, Range
  <2>2. IsFiniteSet(1 .. Len(RingIds)) /\ Cardinality(1 .. Len(RingIds)) = Len(RingIds)
    BY SMTT(30), CapsType, FS_Interval
  <2>3. IsFiniteSet(RingKeys) /\ Cardinality(RingKeys) <= Len(RingIds)
    BY <2>1, <2>2, FS_Surjection
  <2>4. QED BY <2>3, FS_CardinalityType
<1>2. IsFiniteSet(RingKeys \ {k}) /\ Cardinality(RingKeys \ {k}) = Cardinality(RingKeys) - 1
  BY <1>1, FS_RemoveElement
<1>3. Unread \in Injection(1 .. UnreadCount, RingKeys \ {k})
  <2>1. \A i \in 1 .. UnreadCount : Unread[i] \in RingKeys \ {k}
    BY UnreadType DEF Range
  <2>2. Unread \in [1 .. UnreadCount -> RingKeys \ {k}]
    BY <2>1 DEF Unread
  <2>3. IsInjective(Unread)
    BY DEF RingInv, RingShape
  <2>4. QED BY <2>2, <2>3 DEF Injection
<1>4. Cardinality(1 .. UnreadCount) = UnreadCount
  BY UnreadType, FS_Interval
<1>5. UnreadCount <= Cardinality(RingKeys) - 1
  BY <1>2, <1>3, <1>4, FS_Injection
<1>6. QED BY <1>1, <1>5, CapsType, UnreadType DEF Caps

(* Storing the flag erases no unread key. *)
LEMMA AfterFlag ==
  ASSUME RingInv, NEW k \in RingKeys, WriteFlag(k)
  PROVE  Unread' = Unread /\ RingShape'
<1>1. UnreadCount <= Caps - 2
  BY RoomForKey DEF WriteFlag
<1>2. UnreadCount' = UnreadCount /\ \A i : At(i)' = At(i)
  BY DEF WriteFlag, UnreadCount, At
<1>3. \A i \in 0 .. UnreadCount - 1 : At(i) # Following(writePos)
  BY <1>1, CapsType DEF RingInv, RingOK, UnreadCount, Slots, At, Following
<1>4. Following(writePos) \in Slots /\ Following(writePos) # writePos /\ Following(writePos) # readPos
  BY <1>1, CapsType DEF RingInv, RingOK, UnreadCount, Slots, Following
<1>5. /\ \A s \in Slots \ {Following(writePos)} : queue'[s] = queue[s]
      /\ queue'[Following(writePos)] = 0
  BY <1>4 DEF WriteFlag, RingInv, RingOK
<1>6. Unread' = Unread
  <2>1. \A i \in 1 .. UnreadCount : queue'[At(i - 1)] = queue[At(i - 1)]
    BY <1>3, <1>5, UnreadType
  <2>2. Unread' = [i \in 1 .. UnreadCount |-> queue'[At(i - 1)]]
    BY <1>2 DEF Unread
  <2>3. QED BY <2>1, <2>2 DEF Unread
<1>7. writePos' = writePos /\ readPos' = readPos /\ pending' = k /\ Following(writePos)' = Following(writePos)
  BY DEF WriteFlag, Following
<1>8. queue'[writePos'] = 0
  BY <1>4, <1>5, <1>7 DEF RingInv, RingShape, RingOK
<1>9. k \notin Range(Unread')
  BY <1>6 DEF WriteFlag
<1>10. QED BY <1>2, <1>4, <1>5, <1>6, <1>7, <1>8, <1>9 DEF RingInv, RingShape

(* Storing the item adds it at the end. *)
LEMMA AfterItem ==
  ASSUME RingInv, WriteItem
  PROVE  /\ pending \in RingKeys /\ pending \notin Range(Unread)
         /\ Unread' = Append(Unread, pending)
         /\ RingShape'
<1>1. /\ pending \in RingKeys /\ pending \notin Range(Unread)
      /\ queue[Following(writePos)] = 0 /\ Following(writePos) # readPos
  BY DEF RingInv, RingOK, RingShape, WriteItem
<1>2. /\ writePos' = Following(writePos) /\ readPos' = readPos /\ pending' = 0
      /\ Following(writePos) \in Slots /\ Following(writePos) # writePos
  BY CapsType DEF WriteItem, RingInv, RingOK, Slots, Following
<1>3. /\ queue'[writePos] = pending
      /\ \A s \in Slots \ {writePos} : queue'[s] = queue[s]
  BY DEF WriteItem, RingInv, RingOK
<1>4. UnreadCount' = UnreadCount + 1
  BY <1>1, <1>2, CapsType DEF RingInv, RingOK, UnreadCount, Slots, Following
<1>5. \A i : At(i)' = At(i)
  BY <1>2 DEF At
<1>6. At(UnreadCount) = writePos
  BY CapsType DEF RingInv, RingOK, UnreadCount, Slots, At
<1>7. Unread' = [i \in 1 .. UnreadCount + 1 |-> queue'[At(i - 1)]]
  BY <1>4, <1>5 DEF Unread
<1>8. \A i \in 1 .. UnreadCount : queue'[At(i - 1)] = Unread[i]
  BY <1>3, UnreadType
<1>9. queue'[At(UnreadCount)] = pending
  BY <1>3, <1>6
<1>10. Unread' = Append(Unread, pending)
  <2>1. Append(Unread, pending) \in Seq(RingKeys) /\ Len(Append(Unread, pending)) = UnreadCount + 1
    BY <1>1, UnreadType, AppendProperties
  <2>2. \A i \in 1 .. UnreadCount + 1 : Append(Unread, pending)[i] = queue'[At(i - 1)]
    BY <1>1, <1>8, <1>9, UnreadType, AppendProperties
  <2>3. Append(Unread, pending) = [i \in 1 .. UnreadCount + 1 |-> Append(Unread, pending)[i]]
    BY <2>1, LenProperties
  <2>4. QED BY <1>7, <2>2, <2>3
<1>11. \A i \in 1 .. UnreadCount' : Unread'[i] # 0
  BY <1>1, <1>4, <1>10, UnreadType, AppendProperties, KeyIsNotZero
<1>12. IsInjective(Unread')
  <2>1. /\ Len(Append(Unread, pending)) = UnreadCount + 1
        /\ DOMAIN Append(Unread, pending) = 1 .. UnreadCount + 1
        /\ \A i \in 1 .. UnreadCount : Append(Unread, pending)[i] = Unread[i]
        /\ Append(Unread, pending)[UnreadCount + 1] = pending
    BY <1>1, UnreadType, AppendProperties, LenProperties
  <2>2. \A i \in 1 .. UnreadCount : Unread[i] # pending
    BY <1>1, UnreadType DEF Range
  <2>3. IsInjective(Append(Unread, pending))
    BY <2>1, <2>2, UnreadType DEF IsInjective, RingInv, RingShape
  <2>4. QED BY <1>10, <2>3
<1>13. queue'[writePos'] = 0
  BY <1>1, <1>2, <1>3
<1>14. QED BY <1>1, <1>2, <1>10, <1>11, <1>12, <1>13 DEF RingShape

(* Reading takes the oldest key. *)
LEMMA AfterRead ==
  ASSUME RingInv, Read
  PROVE  /\ Unread # << >> /\ got' = Head(Unread) /\ got' \in RingKeys
         /\ Unread' = Tail(Unread)
         /\ RingShape'
<1>1. readPos # writePos
  BY DEF Read, RingInv, RingShape
<1>2. /\ readPos' = Following(readPos) /\ Following(readPos) \in Slots
      /\ queue' = queue /\ writePos' = writePos /\ pending' = pending
      /\ Following(writePos)' = Following(writePos)
  BY CapsType DEF Read, RingInv, RingOK, Slots, Following
<1>3. UnreadCount >= 1 /\ UnreadCount' = UnreadCount - 1 /\ UnreadCount \in Nat
  BY <1>1, <1>2, CapsType DEF RingInv, RingOK, UnreadCount, Slots, Following
<1>4. \A i \in 0 .. UnreadCount - 1 : At(i)' = At(i + 1)
  BY <1>1, <1>2, <1>3, CapsType DEF RingInv, RingOK, UnreadCount, Slots, Following, At
<1>5. At(0) = readPos
  BY CapsType DEF At, RingInv, RingOK, Slots
<1>6. Unread[1] = queue[readPos]
  BY <1>3, <1>5, UnreadType
<1>7. Unread # << >> /\ Head(Unread) = Unread[1] /\ Unread[1] \in RingKeys
  BY <1>3, UnreadType, EmptySeq, HeadTailProperties
<1>8. Unread' = [i \in 1 .. UnreadCount - 1 |-> Unread[i + 1]]
  <2>1. Unread' = [i \in 1 .. UnreadCount - 1 |-> queue[At(i - 1)']]
    BY <1>2, <1>3 DEF Unread
  <2>2. \A i \in 1 .. UnreadCount - 1 : queue[At(i - 1)'] = Unread[i + 1]
    <3> SUFFICES ASSUME NEW i \in 1 .. UnreadCount - 1 PROVE queue[At(i - 1)'] = Unread[i + 1]
      OBVIOUS
    <3>1. At(i - 1)' = At(i)
      BY <1>3, <1>4
    <3>2. Unread[i + 1] = queue[At(i)]
      BY <1>3, UnreadType
    <3>3. QED BY <3>1, <3>2
  <2>3. QED BY <2>1, <2>2
<1>9. Unread' = Tail(Unread)
  <2>1. /\ Tail(Unread) \in Seq(RingKeys) /\ Len(Tail(Unread)) = UnreadCount - 1
        /\ \A i \in 1 .. UnreadCount - 1 : Tail(Unread)[i] = Unread[i + 1]
    BY <1>3, <1>7, UnreadType, HeadTailProperties
  <2>2. Tail(Unread) = [i \in 1 .. UnreadCount - 1 |-> Tail(Unread)[i]]
    BY <1>3, <2>1, LenProperties
  <2>3. QED BY <1>8, <2>1, <2>2
<1>10. \A i \in 1 .. UnreadCount' : Unread'[i] # 0
  BY <1>3, <1>8, UnreadType, KeyIsNotZero
<1>11. /\ DOMAIN Unread' = 1 .. UnreadCount - 1
       /\ \A i \in 1 .. UnreadCount - 1 : Unread'[i] = Unread[i + 1] /\ i + 1 \in 1 .. UnreadCount
  BY <1>3, <1>8
<1>12. /\ IsInjective(Unread')
       /\ pending # 0 => pending \notin Range(Unread')
  <2>1. IsInjective(Unread) /\ (pending # 0 => pending \notin Range(Unread))
        /\ DOMAIN Unread = 1 .. UnreadCount
    BY UnreadType DEF RingInv, RingShape
  <2>2. ASSUME NEW a \in 1 .. UnreadCount - 1, NEW b \in 1 .. UnreadCount - 1,
               Unread'[a] = Unread'[b]
        PROVE  a = b
    <3>1. a + 1 = b + 1
      BY <1>11, <2>1, <2>2 DEF IsInjective
    <3>2. QED BY <1>3, <3>1
  <2>3. \A x \in Range(Unread') : x \in Range(Unread)
    BY <1>11, <2>1 DEF Range
  <2>4. QED BY <1>11, <2>1, <2>2, <2>3 DEF IsInjective
<1>13. pending # 0 => Following(writePos) # Following(readPos)
  BY <1>1, CapsType DEF RingInv, RingOK, Slots, Following
<1>14. QED BY <1>2, <1>6, <1>7, <1>9, <1>10, <1>11, <1>12, <1>13 DEF Read, RingInv, RingShape

LEMMA RingInitHolds == RingInit => RingInv
<1> SUFFICES ASSUME RingInit PROVE RingInv
  OBVIOUS
<1>1. RingOK
  BY CapsType DEF RingInit, RingOK, Slots, Caps
<1>2. UnreadCount = Caps - 1 /\ \A i \in 1 .. Caps - 1 : At(i - 1) = i - 1
  BY CapsType DEF RingInit, UnreadCount, At
<1>3. Unread = [i \in 1 .. Caps - 1 |-> RingIds[i]]
  <2>1. Unread = [i \in 1 .. Caps - 1 |-> queue[At(i - 1)]]
    BY <1>2 DEF Unread
  <2>2. \A i \in 1 .. Caps - 1 : queue[At(i - 1)] = RingIds[i]
    BY <1>2, CapsType DEF RingInit, Slots, Caps
  <2>3. QED BY <2>1, <2>2
<1>4. Unread = RingIds
  BY <1>3, CapsType, RingIdsAssumption, LenProperties DEF Caps
<1>5. queue[writePos] = 0
  BY CapsType DEF RingInit, Slots, Caps
<1>6. QED BY <1>1, <1>2, <1>4, <1>5, CapsType, RingIdsAssumption DEF RingInit, RingInv, RingShape, Caps

LEMMA RingNextKeeps == RingInv /\ [RingNext]_ringVars => RingInv'
<1> SUFFICES ASSUME RingInv, [RingNext]_ringVars PROVE RingInv'
  OBVIOUS
<1>1. RingOK'
  <2>1. \A p \in Slots : Following(p) \in Slots
    BY CapsType DEF Slots, Following
  <2>2. ASSUME NEW k \in RingKeys, WriteFlag(k) PROVE RingOK'
    BY <2>1, <2>2 DEF WriteFlag, RingInv, RingOK
  <2>3. CASE WriteItem
    BY <2>1, <2>3 DEF WriteItem, RingInv, RingOK
  <2>4. CASE Read
    BY <2>1, <2>4 DEF Read, RingInv, RingOK
  <2>5. CASE ReadNothing \/ UNCHANGED ringVars
    BY <2>5 DEF ReadNothing, ringVars, RingInv, RingOK
  <2>6. QED BY <2>2, <2>3, <2>4, <2>5 DEF RingNext
<1>2. RingShape'
  <2>1. CASE ReadNothing \/ UNCHANGED ringVars
    <3>1. Unread' = Unread /\ UnreadCount' = UnreadCount
      BY <2>1 DEF ReadNothing, ringVars, Unread, UnreadCount, At
    <3>2. QED BY <2>1, <3>1 DEF ReadNothing, ringVars, RingInv, RingShape, Following
  <2>2. QED BY <2>1, AfterFlag, AfterItem, AfterRead DEF RingNext
<1>3. QED BY <1>1, <1>2 DEF RingInv

THEOREM RingInvariance == RingSpec => []RingInv
BY RingInitHolds, RingNextKeeps, PTL DEF RingSpec

(* The positions stay in the ring and its slots hold keys of the surface.  *)
THEOREM RingTyped == RingSpec => []RingOK
<1>1. RingInv => RingOK
  BY DEF RingInv
<1>2. QED BY <1>1, RingInvariance, PTL

(* With one slot more than there are keys, the ring is never overrun,      *)
(* although write() does not check, and always ends in a 0.                *)
THEOREM RingKeepsShape == RingSpec => []RingShape
<1>1. RingInv => RingShape
  BY DEF RingInv
<1>2. QED BY <1>1, RingInvariance, PTL

(* Two processes that each do single loads and stores on the ring see a    *)
(* FIFO queue of keys, for any number of buffers.                          *)
THEOREM RingIsFifo == RingSpec => ImplementsFifo
<1>1. RingInit => Fifo!Init
  <2> SUFFICES ASSUME RingInit PROVE Fifo!Init
    OBVIOUS
  <2>1. UnreadCount = Caps - 1 /\ \A i \in 1 .. Caps - 1 : At(i - 1) = i - 1
    BY CapsType DEF RingInit, UnreadCount, At
  <2>2. \A i \in 1 .. Caps - 1 : queue[At(i - 1)] = RingIds[i]
    BY <2>1, CapsType DEF RingInit, Slots, Caps
  <2>3. Unread = [i \in 1 .. Caps - 1 |-> RingIds[i]]
    BY <2>1, <2>2 DEF Unread
  <2>4. Unread = RingIds
    BY <2>3, CapsType, RingIdsAssumption, LenProperties DEF Caps
  <2>5. QED BY <2>4 DEF RingInit, Fifo!Init
<1>2. RingInv /\ [RingNext]_ringVars => [Fifo!Next]_(Fifo!fifoVars)
  <2> SUFFICES ASSUME RingInv, [RingNext]_ringVars PROVE [Fifo!Next]_(Fifo!fifoVars)
    OBVIOUS
  <2>1. ASSUME NEW k \in RingKeys, WriteFlag(k) PROVE UNCHANGED Fifo!fifoVars
    BY <2>1, AfterFlag DEF WriteFlag, Fifo!fifoVars
  <2>2. CASE WriteItem
    <3>1. pending \in Fifo!Range(RingIds) /\ pending \notin Fifo!Range(Unread)
      BY <2>2, AfterItem DEF RingKeys, Range, Fifo!Range
    <3>2. QED BY <2>2, <3>1, AfterItem DEF WriteItem, Fifo!Next, Fifo!Put
  <2>3. CASE Read
    BY <2>3, AfterRead DEF Fifo!Next, Fifo!Get
  <2>4. CASE ReadNothing
    <3>1. readPos = writePos
      <4>1. UnreadCount = 0
        <5> SUFFICES ASSUME UnreadCount # 0 PROVE FALSE
          OBVIOUS
        <5>1. 1 \in 1 .. UnreadCount /\ At(0) = readPos
          BY UnreadType, CapsType DEF At, RingInv, RingOK, Slots
        <5>2. Unread[1] = queue[readPos] /\ Unread[1] \in RingKeys
          BY <5>1, UnreadType
        <5>3. QED BY <2>4, <5>2, KeyIsNotZero DEF ReadNothing
      <4>2. QED BY <4>1, CapsType DEF UnreadCount, RingInv, RingOK, Slots
    <3>2. Unread = << >>
      BY <3>1, UnreadType, EmptySeq, CapsType DEF UnreadCount, RingInv, RingOK, Slots
    <3>3. Unread' = Unread
      BY <2>4 DEF ReadNothing, Unread, UnreadCount, At
    <3>4. QED BY <2>4, <3>2, <3>3 DEF ReadNothing, Fifo!Next, Fifo!GetNothing
  <2>5. CASE UNCHANGED ringVars
    BY <2>5 DEF ringVars, Fifo!fifoVars, Unread, UnreadCount, At
  <2>6. QED BY <2>1, <2>2, <2>3, <2>4, <2>5 DEF RingNext
<1>3. QED BY <1>1, <1>2, RingInvariance, PTL DEF RingSpec, Fifo!Spec, ImplementsFifo
=============================================================================
