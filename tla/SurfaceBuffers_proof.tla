------------------------- MODULE SurfaceBuffers_proof -------------------------
(***************************************************************************)
(* Proofs about SurfaceBuffers, DirectRender and FrameRequests, for any    *)
(* number of buffers, surfaces, regions and versions.                      *)
(*                                                                         *)
(* SurfaceBuffers.  IInv is the inductive invariant.  What makes it hold   *)
(* together is StaleFirst: the keys at the front of the ring that are      *)
(* there from the start are the first of the free list, in the same order, *)
(* and dequeueBuffer takes from that list, so no buffer is taken before    *)
(* its first key is read.  The other half is SentOK: transactions come in  *)
(* the order of their surfaces, so those a relayout has overtaken come     *)
(* before the first of the new surface, and clear nothing.                 *)
(*                                                                         *)
(* DirectRender.  PictureInv adds what is in the buffers.  A frame is the  *)
(* one before it but for its crop (CropsOK), the buffer drawn last is the  *)
(* last on its way (PrevIsLast) and shows the UI but for what is dirty     *)
(* (PrevIsWhole), and no frame on its way is older than the one before it  *)
(* (Rising).                                                               *)
(*                                                                         *)
(* FrameRequests.  RequestsInv adds what the app has asked for (AskedOK):  *)
(* whatever is dirty, the request lasts until it is drawn.                 *)
(***************************************************************************)
EXTENDS FrameRequests, SurfaceQueues_proof

-----------------------------------------------------------------------------
(* The invariant *)

(* The app has a surface to draw on, and no call is on its way. *)
Drawing == calling = "none" /\ appSurface \in Surfaces

(* The surface and the names that the server has are those made last. *)
ServerOK ==
  /\ srvSurface # NoSurface => srvSurface = created /\ named = created /\ inMap
  /\ named \in {NoSurface, created}
  /\ ShownIsCurrent

(***************************************************************************)
(* What a call of relayout leaves open.  The surface in its reply is the   *)
(* newest; frames of older ones may still be on their way.                 *)
(***************************************************************************)
CallsOK ==
  /\ calling = "none" =>
       /\ reply = NoSurface
       /\ appSurface \in Surfaces => appSurface = created
       /\ srvSurface # NoSurface => appSurface = srvSurface
  /\ calling # "none" =>
       /\ drawing = NoKey
       /\ reply \in {NoSurface, created}
       /\ reply # NoSurface => /\ appSurface # reply
                               /\ \A i \in 1 .. Len(sent) : SurfaceOf(sent[i]) < reply
                               /\ reply = named => ring = IF srvSurface = NoSurface THEN NoIds ELSE IdsOf(reply)
       /\ srvSurface # NoSurface => reply = srvSurface /\ shown = NoKey

(* The app holds one buffer at most, and acquires none. *)
ProducerOK ==
  /\ \A k \in DOMAIN producer.state :
       producer.state[k] # "ACQUIRED" /\ (producer.state[k] = "DEQUEUED" <=> k = drawing)
  /\ drawing # NoKey => drawing \in DOMAIN producer.state

(* Transactions arrive in the order of their surfaces. *)
SentOK ==
  /\ \A i \in 1 .. Len(sent) : SurfaceOf(sent[i]) <= created
  /\ \A i, j \in 1 .. Len(sent) : i < j => SurfaceOf(sent[i]) <= SurfaceOf(sent[j])
  /\ shown # NoKey => \A i \in 1 .. Len(sent) : SurfaceOf(sent[i]) = srvSurface

(* No buffer of the surface is in two transactions. *)
SentOnce ==
  Attached => \A i, j \in 1 .. Len(sent) : SurfaceOf(sent[i]) = srvSurface /\ i # j => sent[i] # sent[j]

(***************************************************************************)
(* The keys that are in the ring from the start come first, in the order   *)
(* of the free list; those behind them have been released by the server.   *)
(***************************************************************************)
StaleFirst ==
  Drawing => \E n \in 0 .. Len(ring) :
    /\ n <= Len(producer.free)
    /\ \A i \in 1 .. n : ring[i] = producer.free[i]
    /\ \A i \in n + 1 .. Len(ring) : producer.state[ring[i]] = "QUEUED"

Surface(s) == Range(IdsOf(s))

(* Where a buffer of the app's surface is, seen from its state in the app. *)
InPlace(k) ==
  LET state == producer.state[k] IN
  /\ state \in {"FREE", "DEQUEUED", "QUEUED"}
  /\ state = "FREE" => k \notin Range(sent) /\ k # shown /\ k # drawing
  /\ state = "DEQUEUED" => k \notin Range(sent) /\ k # shown /\ k \notin Range(ring) /\ k = drawing
  /\ state = "QUEUED" => /\ k # drawing
                         /\ Attached => k \in Range(sent) \/ k = shown \/ k \in Range(ring)
                         /\ k \in Range(sent) => k # shown /\ k \notin Range(ring)
                         /\ k = shown => k \notin Range(ring)

AllInPlace == Drawing => \A k \in Surface(appSurface) : InPlace(k)

(* The inductive invariant of SurfaceBuffers. *)
IInv ==
  /\ TypeOK
  /\ SlotsAgree(producer) /\ SlotsAgree(consumer)
  /\ ServerOK /\ CallsOK /\ ProducerOK /\ SentOK /\ SentOnce /\ StaleFirst
  /\ RingHoldsKeyOnce /\ AllInPlace

-----------------------------------------------------------------------------
(* Keys and the surfaces they are of *)

(* The quotient, as the solvers use it. *)
LEMMA Division ==
  ASSUME NEW a \in Nat, NEW b \in Nat \ {0}
  PROVE  a \div b \in Nat /\ (a \div b) * b <= a /\ a < (a \div b) * b + b
OBVIOUS

LEMMA DivisionIsUnique ==
  ASSUME NEW a \in Nat, NEW b \in Nat \ {0}, NEW q \in Nat, q * b <= a, a < q * b + b
  PROVE  a \div b = q
OBVIOUS

(* The keys of a surface, in order. *)
LEMMA IdsTyped ==
  ASSUME NEW s \in Surfaces
  PROVE  /\ IdsOf(s) \in Seq(Keys) /\ IsInjective(IdsOf(s)) /\ Len(IdsOf(s)) = BufferCount
         /\ Range(IdsOf(s)) \subseteq Keys
<1> DEFINE B == BufferCount
<1>1. B \in Nat \ {0} /\ MaxSurfaces \in Nat /\ s \in Nat \ {0} /\ s <= MaxSurfaces
  BY CountAssumption, BoundAssumption DEF Surfaces
<1> HIDE DEF B
<1>2. (s - 1) * B \in Nat /\ (s - 1) * B + B = s * B /\ s * B <= MaxSurfaces * B /\ MaxSurfaces * B \in Nat
  <2>1. s - 1 \in Nat /\ MaxSurfaces - s \in Nat
    BY <1>1
  <2>2. (s - 1) * B \in Nat /\ (MaxSurfaces - s) * B \in Nat
    BY <1>1, <2>1
  <2>3. QED
    BY <1>1, <2>1, <2>2
<1>3. \A i \in 1 .. B : (s - 1) * B + i \in Keys
  <2>1. Keys = 1 .. MaxSurfaces * B
    BY DEF Keys, B
  <2>2. QED
    BY <1>1, <1>2, <2>1
<1>4. IdsOf(s) = [i \in 1 .. B |-> (s - 1) * B + i]
  BY DEF IdsOf, B
<1>5. IdsOf(s) \in Seq(Keys)
  <2>1. IdsOf(s) \in [1 .. B -> Keys]
    BY <1>3, <1>4
  <2>2. QED
    BY <1>1, <2>1
<1>6. Len(IdsOf(s)) = B
  BY <1>1, <1>4
<1>7. IsInjective(IdsOf(s))
  BY <1>1, <1>2, <1>4 DEF IsInjective
<1>8. Range(IdsOf(s)) \subseteq Keys
  BY <1>3, <1>4 DEF Range
<1>9. QED
  BY <1>5, <1>6, <1>7, <1>8 DEF B

(* Every key belongs to one surface, from which its number is got back. *)
LEMMA KeysOfSurface ==
  ASSUME NEW k \in Keys
  PROVE  /\ SurfaceOf(k) \in Surfaces
         /\ \A s \in Surfaces : k \in Range(IdsOf(s)) <=> SurfaceOf(k) = s
<1> DEFINE B == BufferCount
           q == (k - 1) \div B
<1>1. B \in Nat \ {0} /\ MaxSurfaces \in Nat /\ k \in Nat /\ k - 1 \in Nat /\ k <= MaxSurfaces * B
  BY CountAssumption, BoundAssumption DEF Keys
<1>2. q \in Nat /\ q * B <= k - 1 /\ k - 1 < q * B + B
  <2> HIDE DEF B
  <2>1. QED
    BY <1>1, Division
<1>3. SurfaceOf(k) = q + 1
  BY DEF SurfaceOf
<1> HIDE DEF B, q
<1>4. q + 1 <= MaxSurfaces
  <2>1. SUFFICES ASSUME q - MaxSurfaces \in Nat PROVE FALSE
    BY <1>1, <1>2
  <2>2. (q - MaxSurfaces) * B \in Nat
    BY <1>1, <2>1
  <2>3. MaxSurfaces * B <= q * B
    BY <1>1, <1>2, <2>1, <2>2
  <2> DEFINE low == q * B
             all == MaxSurfaces * B
  <2>4. low \in Nat /\ all \in Nat /\ all <= low /\ low <= k - 1 /\ k <= all /\ k \in Int
    BY <1>1, <1>2, <2>3
  <2> HIDE DEF low, all
  <2>5. QED
    BY <2>4
<1>5. SurfaceOf(k) \in Surfaces
  BY <1>1, <1>2, <1>3, <1>4 DEF Surfaces
<1>6. ASSUME NEW s \in Surfaces PROVE k \in Range(IdsOf(s)) <=> SurfaceOf(k) = s
  <2>1. s - 1 \in Nat /\ s \in Nat
    BY BoundAssumption DEF Surfaces
  <2>2. IdsOf(s) = [i \in 1 .. B |-> (s - 1) * B + i]
    BY DEF IdsOf, B
  <2>3. CASE k \in Range(IdsOf(s))
    <3>1. PICK i \in 1 .. B : k = (s - 1) * B + i
      BY <2>2, <2>3 DEF Range
    <3>2. (s - 1) * B \in Nat
      BY <1>1, <2>1
    <3>3. (s - 1) * B <= k - 1 /\ k - 1 < (s - 1) * B + B
      BY <1>1, <3>1, <3>2
    <3>4. q = s - 1
      BY <1>1, <2>1, <3>3, DivisionIsUnique DEF q
    <3>5. QED
      BY <1>2, <1>3, <2>1, <2>3, <3>4
  <2>4. CASE SurfaceOf(k) = s
    <3>1. q = s - 1
      BY <1>2, <1>3, <2>1, <2>4
    <3> DEFINE before == (s - 1) * B
               i == k - before
    <3>2. before \in Nat /\ before <= k - 1 /\ k - 1 < before + B /\ B \in Nat /\ k \in Int
      BY <1>1, <1>2, <2>1, <3>1
    <3> HIDE DEF before
    <3>3. i \in 1 .. B /\ k = before + i
      BY <3>2
    <3> HIDE DEF i
    <3>4. i \in DOMAIN IdsOf(s) /\ IdsOf(s)[i] = k
      BY <2>2, <3>3 DEF before
    <3>5. QED
      BY <2>4, <3>4 DEF Range
  <2>5. QED
    BY <2>3, <2>4
<1>7. QED
  BY <1>5, <1>6

-----------------------------------------------------------------------------
(* Sequences *)

(* What Tail, Append and the empty list leave in a list. *)
LEMMA TailOf ==
  ASSUME NEW S, NEW s \in Seq(S), s # << >>
  PROVE  /\ Tail(s) \in Seq(S) /\ Len(Tail(s)) = Len(s) - 1 /\ Len(s) \in Nat \ {0}
         /\ Head(s) = s[1] /\ Head(s) \in S
         /\ \A i \in 1 .. Len(s) - 1 : Tail(s)[i] = s[i + 1]
         /\ Range(s) = Range(Tail(s)) \cup {Head(s)}
         /\ IsInjective(s) => IsInjective(Tail(s)) /\ Head(s) \notin Range(Tail(s))
<1>1. /\ Tail(s) \in Seq(S) /\ Len(Tail(s)) = Len(s) - 1 /\ Len(s) \in Nat \ {0}
      /\ Head(s) = s[1] /\ Head(s) \in S
      /\ \A i \in 1 .. Len(s) - 1 : Tail(s)[i] = s[i + 1]
  OBVIOUS
<1>2. DOMAIN s = 1 .. Len(s) /\ DOMAIN Tail(s) = 1 .. Len(s) - 1
  BY <1>1
<1>3. \A i \in 2 .. Len(s) : i - 1 \in 1 .. Len(s) - 1 /\ s[i] = Tail(s)[i - 1]
  BY <1>1
<1>4. ASSUME NEW x PROVE x \in Range(s) <=> x \in Range(Tail(s)) \cup {Head(s)}
  <2>1. x \in Range(s) <=> \E i \in 1 .. Len(s) : s[i] = x
    BY <1>2 DEF Range
  <2>2. x \in Range(Tail(s)) <=> \E i \in 1 .. Len(s) - 1 : Tail(s)[i] = x
    BY <1>2 DEF Range
  <2> HIDE DEF Range
  <2>3. ASSUME NEW i \in 1 .. Len(s), s[i] = x PROVE x \in Range(Tail(s)) \cup {Head(s)}
    <3>1. i = 1 \/ i \in 2 .. Len(s)
      BY <1>1
    <3>2. QED
      BY <1>1, <1>3, <2>2, <2>3, <3>1
  <2>4. ASSUME NEW i \in 1 .. Len(s) - 1, Tail(s)[i] = x PROVE x \in Range(s)
    <3>1. i + 1 \in 1 .. Len(s) /\ s[i + 1] = x
      BY <1>1, <2>4
    <3>2. QED
      BY <2>1, <3>1
  <2>5. Head(s) \in Range(s)
    BY <1>1, <1>2 DEF Range
  <2>6. QED
    BY <2>1, <2>2, <2>3, <2>4, <2>5
<1>5. ASSUME IsInjective(s)
      PROVE  IsInjective(Tail(s)) /\ Head(s) \notin Range(Tail(s))
  <2>1. \A i, j \in 1 .. Len(s) : s[i] = s[j] => i = j
    BY <1>2, <1>5 DEF IsInjective
  <2>2. \A i \in 1 .. Len(s) - 1 : i + 1 \in 1 .. Len(s) /\ i + 1 # 1
    BY <1>1
  <2>3. \A i, j \in 1 .. Len(s) - 1 : Tail(s)[i] = Tail(s)[j] => i = j
    BY <1>1, <2>1, <2>2
  <2>4. \A i \in 1 .. Len(s) - 1 : Tail(s)[i] # Head(s)
    BY <1>1, <2>1, <2>2
  <2>5. QED
    BY <1>2, <2>3, <2>4 DEF IsInjective, Range
<1>6. QED
  BY <1>1, <1>4, <1>5

LEMMA AppendTo ==
  ASSUME NEW S, NEW s \in Seq(S), NEW k \in S
  PROVE  /\ Append(s, k) \in Seq(S) /\ Len(Append(s, k)) = Len(s) + 1 /\ Len(s) \in Nat
         /\ \A i \in 1 .. Len(s) : Append(s, k)[i] = s[i]
         /\ Append(s, k)[Len(s) + 1] = k
         /\ Range(Append(s, k)) = Range(s) \cup {k}
<1>1. /\ Append(s, k) \in Seq(S) /\ Len(Append(s, k)) = Len(s) + 1 /\ Len(s) \in Nat
      /\ \A i \in 1 .. Len(s) : Append(s, k)[i] = s[i]
      /\ Append(s, k)[Len(s) + 1] = k
  OBVIOUS
<1>2. DOMAIN s = 1 .. Len(s) /\ DOMAIN Append(s, k) = 1 .. Len(s) + 1
  BY <1>1
<1>3. Range(Append(s, k)) = Range(s) \cup {k}
  <2>1. \A i \in 1 .. Len(s) + 1 : i \in 1 .. Len(s) \/ i = Len(s) + 1
    BY <1>1
  <2>2. \A i \in 1 .. Len(s) : i \in 1 .. Len(s) + 1
    BY <1>1
  <2>3. Len(s) + 1 \in 1 .. Len(s) + 1
    BY <1>1
  <2>4. QED
    BY <1>1, <1>2, <2>1, <2>2, <2>3 DEF Range
<1>4. QED
  BY <1>1, <1>3

LEMMA NoneIn == Range(<< >>) = {} /\ IsInjective(<< >>) /\ Len(<< >>) = 0 /\ \A S : << >> \in Seq(S)
BY DEF Range, IsInjective

LEMMA RangeOf ==
  ASSUME NEW S, NEW s \in Seq(S)
  PROVE  /\ DOMAIN s = 1 .. Len(s) /\ Len(s) \in Nat /\ Range(s) \subseteq S
         /\ \A x : x \in Range(s) <=> \E i \in 1 .. Len(s) : s[i] = x
         /\ \A i \in 1 .. Len(s) : s[i] \in Range(s) /\ s[i] \in S
<1>1. DOMAIN s = 1 .. Len(s) /\ Len(s) \in Nat /\ \A i \in 1 .. Len(s) : s[i] \in S
  OBVIOUS
<1>2. QED
  BY <1>1 DEF Range

(* What the types say of the two queues and of what is between them. *)
LEMMA QueuesTyped ==
  ASSUME TypeOK
  PROVE  /\ producer \in QueueType(DOMAIN producer.state) /\ consumer \in QueueType(DOMAIN consumer.state)
         /\ DOMAIN producer.state = IF appSurface \in Surfaces THEN Surface(appSurface) ELSE {}
         /\ DOMAIN consumer.state = IF srvSurface \in Surfaces THEN Surface(srvSurface) ELSE {}
         /\ ring \in Seq(Keys) /\ sent \in Seq(Keys)
         /\ drawing \in Keys \cup {NoKey} /\ shown \in Keys \cup {NoKey}
         /\ created \in Nat /\ created \in 0 .. MaxSurfaces /\ MaxSurfaces \in Nat \ {0}
         /\ appSurface \in Surfaces \cup {NoSurface, Invalid} /\ srvSurface \in Surfaces \cup {NoSurface}
         /\ reply \in Surfaces \cup {NoSurface} /\ named \in Surfaces \cup {NoSurface}
         /\ calling \in {"none", "setVisible", "onFrame"}
<1>1. created \in 0 .. MaxSurfaces
  BY Zenon DEF TypeOK
<1>2. MaxSurfaces \in Nat \ {0} /\ created \in Nat
  BY <1>1, BoundAssumption
<1>3. QED
  BY <1>1, <1>2, Zenon DEF TypeOK, Surface

(* No key and no surface is 0 or -1. *)
LEMMA Zeros ==
  /\ NoKey \notin Keys /\ NoSurface \notin Surfaces /\ Invalid \notin Surfaces /\ Invalid # NoSurface
  /\ \A s \in Surfaces : s \in Nat /\ s # 0
BY BoundAssumption DEF NoKey, NoSurface, Invalid, Keys, Surfaces

(***************************************************************************)
(* A surface the app draws on and the server shows is the newest, no call  *)
(* is on its way, and both queues are over its keys.                       *)
(***************************************************************************)
LEMMA WhenAttached ==
  ASSUME IInv, Attached
  PROVE  /\ Drawing /\ srvSurface = created /\ appSurface = created /\ created \in Surfaces
         /\ calling = "none" /\ named = created /\ inMap
         /\ DOMAIN producer.state = Surface(created) /\ DOMAIN consumer.state = Surface(created)
         /\ Surface(created) \subseteq Keys /\ NoKey \notin Surface(created)
         /\ \A k \in Keys : k \in Surface(created) <=> SurfaceOf(k) = created
<1>1. srvSurface \in Surfaces /\ appSurface = srvSurface
  BY QueuesTyped DEF IInv, Attached
<1>2. calling = "none"
  BY DEF IInv, CallsOK, Attached
<1>3. srvSurface = created /\ named = created /\ inMap
  BY DEF IInv, ServerOK, Attached
<1>4. DOMAIN producer.state = Surface(created) /\ DOMAIN consumer.state = Surface(created)
  BY <1>1, <1>3, QueuesTyped DEF IInv
<1>5. Surface(created) \subseteq Keys /\ NoKey \notin Surface(created)
  BY <1>1, <1>3, IdsTyped, Zeros DEF Surface
<1>6. \A k \in Keys : k \in Surface(created) <=> SurfaceOf(k) = created
  BY <1>1, <1>3, KeysOfSurface DEF Surface
<1>7. QED
  BY <1>1, <1>2, <1>3, <1>4, <1>5, <1>6 DEF Drawing

(* The surface the app draws on is the newest, and every buffer of it in its place. *)
LEMMA WhenDrawing ==
  ASSUME IInv, Drawing
  PROVE  /\ calling = "none" /\ appSurface = created /\ created \in Surfaces
         /\ DOMAIN producer.state = Surface(created) /\ producer \in QueueType(Surface(created))
         /\ Surface(created) \subseteq Keys /\ NoKey \notin Surface(created)
         /\ \A k \in Keys : k \in Surface(created) <=> SurfaceOf(k) = created
         /\ \A k \in Surface(created) : InPlace(k)
<1>1. calling = "none" /\ appSurface \in Surfaces
  BY DEF Drawing
<1>2. appSurface = created
  BY <1>1 DEF IInv, CallsOK
<1>3. DOMAIN producer.state = Surface(created) /\ producer \in QueueType(Surface(created))
  BY <1>1, <1>2, QueuesTyped DEF IInv
<1>4. Surface(created) \subseteq Keys /\ NoKey \notin Surface(created)
  BY <1>1, <1>2, IdsTyped, Zeros DEF Surface
<1>5. \A k \in Keys : k \in Surface(created) <=> SurfaceOf(k) = created
  BY <1>1, <1>2, KeysOfSurface DEF Surface
<1>6. \A k \in Surface(created) : InPlace(k)
  BY <1>2 DEF IInv, AllInPlace
<1>7. QED
  BY <1>1, <1>2, <1>3, <1>4, <1>5, <1>6

(* The server shows something only on a surface that the app draws on. *)
LEMMA ShownAttached ==
  ASSUME IInv, shown # NoKey
  PROVE  Attached
<1>1. srvSurface \in Surfaces
  BY QueuesTyped DEF IInv, ServerOK, ShownIsCurrent
<1>2. srvSurface # NoSurface
  BY <1>1, Zeros
<1>3. calling = "none"
  BY <1>2 DEF IInv, CallsOK
<1>4. QED
  BY <1>2, <1>3 DEF IInv, CallsOK, Attached

(* The key that is being drawn into is of the newest surface. *)
LEMMA DrawnIsNew ==
  ASSUME IInv, drawing # NoKey
  PROVE  /\ Drawing /\ calling = "none" /\ appSurface = created /\ created \in Surfaces
         /\ drawing \in DOMAIN producer.state /\ DOMAIN producer.state = Surface(created)
         /\ SurfaceOf(drawing) = created /\ producer.state[drawing] = "DEQUEUED"
<1>1. calling = "none"
  BY DEF IInv, CallsOK
<1>2. drawing \in DOMAIN producer.state /\ producer.state[drawing] = "DEQUEUED"
  BY DEF IInv, ProducerOK
<1>3. appSurface \in Surfaces /\ DOMAIN producer.state = Surface(appSurface)
  BY <1>2, QueuesTyped DEF IInv
<1>4. appSurface = created
  BY <1>1, <1>3 DEF IInv, CallsOK
<1>5. drawing \in Keys
  BY QueuesTyped DEF IInv
<1>6. QED
  BY <1>1, <1>2, <1>3, <1>4, <1>5, KeysOfSurface DEF Surface, Drawing

(* A buffer in its place is in one place. *)
LEMMA PlacesAgree ==
  ASSUME IInv
  PROVE  EveryBufferInOnePlace
<1> SUFFICES ASSUME Attached, NEW k \in Surface(srvSurface)
             PROVE  CASE producer.state[k] = "FREE"     -> PlacesOf(k) \subseteq {"ring"} /\ k # drawing
                      [] producer.state[k] = "DEQUEUED" -> PlacesOf(k) = {} /\ k = drawing
                      [] producer.state[k] = "QUEUED"   -> k # drawing /\ \E p \in {"sent", "shown", "ring"} :
                                                            PlacesOf(k) = {p}
                      [] OTHER -> FALSE
  BY DEF EveryBufferInOnePlace, Surface
<1>1. InPlace(k)
  BY WhenAttached, WhenDrawing
<1>2. /\ PlacesOf(k) \subseteq {"sent", "shown", "ring"}
      /\ "sent" \in PlacesOf(k) <=> k \in Range(sent)
      /\ "shown" \in PlacesOf(k) <=> k = shown
      /\ "ring" \in PlacesOf(k) <=> k \in Range(ring)
  BY DEF PlacesOf
<1> HIDE DEF PlacesOf
<1>3. CASE producer.state[k] = "FREE"
  BY <1>1, <1>2, <1>3 DEF InPlace
<1>4. CASE producer.state[k] = "DEQUEUED"
  BY <1>1, <1>2, <1>4 DEF InPlace
<1>5. CASE producer.state[k] = "QUEUED"
  <2>1. k # drawing
    BY <1>1, <1>5 DEF InPlace
  <2>2. \E p \in {"sent", "shown", "ring"} : PlacesOf(k) = {p}
    <3>1. CASE k \in Range(sent)
      <4>1. PlacesOf(k) = {"sent"}
        BY <1>1, <1>2, <1>5, <3>1 DEF InPlace
      <4>2. QED
        BY <4>1
    <3>2. CASE k = shown
      <4>1. PlacesOf(k) = {"shown"}
        BY <1>1, <1>2, <1>5, <3>2 DEF InPlace
      <4>2. QED
        BY <4>1
    <3>3. CASE k \in Range(ring)
      <4>1. PlacesOf(k) = {"ring"}
        BY <1>1, <1>2, <1>5, <3>3 DEF InPlace
      <4>2. QED
        BY <4>1
    <3>4. QED
      BY <1>1, <1>5, <3>1, <3>2, <3>3 DEF InPlace
  <2>3. QED
    BY <1>5, <2>1, <2>2
<1>6. QED
  BY <1>1, <1>3, <1>4, <1>5 DEF InPlace

-----------------------------------------------------------------------------
(* What the steps do to a queue *)

(* std::list::remove of the first of a list without duplicates. *)
LEMMA WithoutHead ==
  ASSUME NEW S, NEW s \in Seq(S), s # << >>, IsInjective(s)
  PROVE  Without(s, Head(s)) = Tail(s)
<1>1. /\ Len(s) \in Nat \ {0} /\ Head(s) = s[1] /\ DOMAIN s = 1 .. Len(s)
      /\ \A j \in 1 .. Len(s) - 1 : Tail(s)[j] = s[j + 1]
      /\ Tail(s) = [j \in 1 .. Len(s) - 1 |-> Tail(s)[j]]
  <2>1. /\ Tail(s) \in Seq(S) /\ Len(Tail(s)) = Len(s) - 1 /\ Len(s) \in Nat \ {0} /\ Head(s) = s[1]
        /\ \A j \in 1 .. Len(s) - 1 : Tail(s)[j] = s[j + 1]
    BY TailOf
  <2> DEFINE t == Tail(s)
  <2>2. t \in [1 .. Len(t) -> S] /\ DOMAIN s = 1 .. Len(s)
    BY <2>1, LenProperties
  <2> HIDE DEF t
  <2>3. t = [j \in 1 .. Len(t) |-> t[j]]
    BY <2>2
  <2>4. QED
    BY <2>1, <2>2, <2>3 DEF t
<1> DEFINE i == CHOOSE j \in 1 .. Len(s) : s[j] = Head(s)
<1>2. i \in 1 .. Len(s) /\ s[i] = s[1]
  <2>1. \E j \in 1 .. Len(s) : s[j] = Head(s)
    BY <1>1
  <2>2. QED
    BY <1>1, <2>1
<1>3. i = 1
  BY <1>1, <1>2 DEF IsInjective
<1>4. Without(s, Head(s)) = [j \in 1 .. Len(s) - 1 |-> IF j < i THEN s[j] ELSE s[j + 1]]
  BY DEF Without
<1> HIDE DEF i
<1>5. \A j \in 1 .. Len(s) - 1 : ~(j < i)
  BY <1>1, <1>3
<1>6. QED
  BY <1>1, <1>4, <1>5

(* bufferReleased: a key that comes back makes its buffer free, if it was queued. *)
LEMMA KeyComesBack ==
  ASSUME NEW K, NEW q \in QueueType(K), SlotsAgree(q), NEW k
  PROVE  LET p == SyncState(q, k, "FREE") IN
         /\ p \in QueueType(K) /\ SlotsAgree(p)
         /\ k \in K /\ q.state[k] = "QUEUED" =>
              p.free = Append(q.free, k) /\ p.state = [q.state EXCEPT ![k] = "FREE"]
         /\ ~(k \in K /\ q.state[k] = "QUEUED") => p = q
<1>1. DOMAIN q.state = K
  BY DEF QueueType
<1>2. k \in K /\ q.state[k] = "QUEUED" => CanSync(q, k, "FREE")
  BY <1>1 DEF SlotsAgree, CanSync, CanMove
<1>3. ~(k \in K /\ q.state[k] = "QUEUED") => ~CanSync(q, k, "FREE")
  BY <1>1 DEF CanSync
<1>4. "FREE" \in BufferState
  BY DEF BufferState
<1>5. QED
  BY <1>2, <1>3, <1>4, SyncStateKeepsSlots DEF SyncState, Moved

(* dequeueBuffer *)
LEMMA HeadIsTaken ==
  ASSUME NEW K, NEW q \in QueueType(K), SlotsAgree(q)
  PROVE  LET k == Head(q.free)
             p == ToState(q, k, "DEQUEUED") IN
         /\ CanDequeue(q) <=> q.free # << >>
         /\ q.free # << >> =>
              /\ k \in K /\ q.state[k] = "FREE"
              /\ p \in QueueType(K) /\ SlotsAgree(p)
              /\ p.free = Tail(q.free) /\ p.state = [q.state EXCEPT ![k] = "DEQUEUED"]
<1>1. DOMAIN q.state = K /\ q.free \in Seq(K) /\ IsInjective(q.free)
  BY DEF QueueType, SlotsAgree
<1>2. ASSUME q.free # << >>
      PROVE  /\ Head(q.free) \in K /\ q.state[Head(q.free)] = "FREE"
             /\ CanMove(q, Head(q.free), "DEQUEUED")
  <2>1. Head(q.free) \in K /\ Head(q.free) \in Range(q.free)
    BY <1>1, <1>2, TailOf
  <2>2. QED
    BY <1>1, <2>1 DEF SlotsAgree, CanMove
<1>3. "DEQUEUED" \in BufferState
  BY DEF BufferState
<1>4. ASSUME q.free # << >>
      PROVE  /\ ToState(q, Head(q.free), "DEQUEUED").free = Tail(q.free)
             /\ ToState(q, Head(q.free), "DEQUEUED").state = [q.state EXCEPT ![Head(q.free)] = "DEQUEUED"]
  <2>1. Without(q.free, Head(q.free)) = Tail(q.free)
    BY <1>1, <1>4, WithoutHead
  <2>2. QED
    BY <1>2, <1>4, <2>1 DEF ToState, Moved
<1>5. QED
  BY <1>2, <1>3, <1>4, ToStateKeepsSlots DEF CanDequeue

(* cancelBuffer and queueBuffer *)
LEMMA DrawnIsPut ==
  ASSUME NEW K, NEW q \in QueueType(K), SlotsAgree(q), NEW k \in K, q.state[k] = "DEQUEUED",
         NEW to \in {"FREE", "QUEUED"}, NEW p, p = ToState(q, k, to)
  PROVE  /\ p \in QueueType(K) /\ SlotsAgree(p)
         /\ \A x \in K : p.state[x] = IF x = k THEN to ELSE q.state[x]
         /\ to = "FREE" => p.free = Append(q.free, k)
         /\ to = "QUEUED" => p.free = q.free
<1>1. DOMAIN q.state = K
  BY DEF QueueType
<1>2. CanMove(q, k, to)
  BY <1>1 DEF SlotsAgree, CanMove
<1>3. to \in BufferState
  BY DEF BufferState
<1>4. p \in QueueType(K) /\ SlotsAgree(p)
  BY <1>3, ToStateKeepsSlots
<1>5. p = Moved(q, k, to)
  BY <1>2 DEF ToState
<1>6. p.state = [q.state EXCEPT ![k] = to]
  BY <1>5 DEF Moved
<1>7. \A x \in K : p.state[x] = IF x = k THEN to ELSE q.state[x]
  BY <1>1, <1>6
<1>8. /\ to = "FREE" => p.free = Append(q.free, k)
      /\ to = "QUEUED" => p.free = q.free
  BY <1>5 DEF Moved
<1>9. QED
  BY <1>4, <1>7, <1>8

(* The consumer's side of a frame that arrives, and of one that is replaced. *)
LEMMA FrameIsTakenIfFree ==
  ASSUME NEW K, NEW q \in QueueType(K), SlotsAgree(q), NEW k
  PROVE  CanSync(q, k, "QUEUED") <=> k \in K /\ q.state[k] = "FREE"
<1>1. DOMAIN q.state = K
  BY DEF QueueType
<1>2. QED
  BY <1>1 DEF SlotsAgree, CanSync, CanMove

(* syncQueuedState, when the buffer is free. *)
LEMMA FrameIsQueued ==
  ASSUME NEW K, NEW q \in QueueType(K), SlotsAgree(q), NEW k, CanSync(q, k, "QUEUED"),
         NEW p, p = SyncState(q, k, "QUEUED")
  PROVE  /\ p \in QueueType(K) /\ SlotsAgree(p)
         /\ \A x \in K : p.state[x] = IF x = k THEN "QUEUED" ELSE q.state[x]
<1>1. p.state = [q.state EXCEPT ![k] = "QUEUED"] /\ DOMAIN q.state = K
  BY DEF SyncState, Moved, QueueType
<1>2. "QUEUED" \in BufferState
  BY DEF BufferState
<1>3. QED
  BY <1>1, <1>2, SyncStateKeepsSlots

(* releaseBuffer of the buffer shown so far. *)
LEMMA FrameIsFreed ==
  ASSUME NEW K, NEW q \in QueueType(K), SlotsAgree(q), NEW k \in K, q.state[k] = "QUEUED",
         NEW p, p = ToState(q, k, "FREE")
  PROVE  /\ CanMove(q, k, "FREE")
         /\ p \in QueueType(K) /\ SlotsAgree(p)
         /\ \A x \in K : p.state[x] = IF x = k THEN "FREE" ELSE q.state[x]
<1>1. DOMAIN q.state = K
  BY DEF QueueType
<1>2. CanMove(q, k, "FREE")
  BY <1>1 DEF SlotsAgree, CanMove
<1>3. p.state = [q.state EXCEPT ![k] = "FREE"]
  BY <1>2 DEF ToState, Moved
<1>4. "FREE" \in BufferState
  BY DEF BufferState
<1>5. QED
  BY <1>1, <1>2, <1>3, <1>4, ToStateKeepsSlots

(* A queue without buffers and one over a new surface. *)
LEMMA Fresh ==
  /\ NewQueue(NoIds) \in QueueType({}) /\ SlotsAgree(NewQueue(NoIds)) /\ DOMAIN NewQueue(NoIds).state = {}
  /\ NewQueue(NoIds).free = << >>
  /\ \A s \in Surfaces : LET q == NewQueue(IdsOf(s)) IN
       /\ q \in QueueType(Surface(s)) /\ SlotsAgree(q) /\ DOMAIN q.state = Surface(s)
       /\ q.free = IdsOf(s) /\ \A k \in Surface(s) : q.state[k] = "FREE"
<1>1. NoIds \in Seq(Range(NoIds)) /\ Range(NoIds) = {} /\ IsInjective(NoIds)
  BY NoneIn DEF NoIds
<1>2. ASSUME NEW s \in Surfaces
      PROVE  LET q == NewQueue(IdsOf(s)) IN
             /\ q \in QueueType(Surface(s)) /\ SlotsAgree(q) /\ DOMAIN q.state = Surface(s)
             /\ q.free = IdsOf(s) /\ \A k \in Surface(s) : q.state[k] = "FREE"
  <2>1. IdsOf(s) \in Seq(Keys) /\ IsInjective(IdsOf(s))
    BY IdsTyped
  <2>2. IdsOf(s) \in Seq(Range(IdsOf(s)))
    BY <2>1, RangeOf, IsASeq
  <2>3. QED
    BY <2>1, <2>2, NewQueueSlots DEF NewQueue, Surface
<1>3. QED
  BY <1>1, <1>2, NewQueueSlots DEF NewQueue, NoIds

-----------------------------------------------------------------------------
(* The app *)

(***************************************************************************)
(* What handleOnFrame finds: the key it reads is of the newest surface,    *)
(* and while keys are in the ring from the start, the first of them is     *)
(* that of the first free buffer, so that reading it changes nothing.      *)
(***************************************************************************)
LEMMA FrameBegins ==
  ASSUME IInv, FrameBegin
  PROVE  LET K == Surface(created)
             h == Head(ring)
             p == Synced
             back == ring # << >> /\ h \in K /\ producer.state[h] = "QUEUED" IN
         /\ calling = "none" /\ drawing = NoKey /\ appSurface = created /\ created \in Surfaces
         /\ producer \in QueueType(K) /\ SlotsAgree(producer)
         /\ producer' \in QueueType(K) /\ SlotsAgree(producer')
         /\ ring # << >> => h \in K
         /\ back => p.free = Append(producer.free, h) /\ p.state = [producer.state EXCEPT ![h] = "FREE"]
         /\ ~back => p = producer
         /\ p \in QueueType(K) /\ SlotsAgree(p)
         /\ p.free = << >> => drawing' = NoKey /\ producer' = p
         /\ p.free # << >> =>
              /\ drawing' = Head(p.free) /\ drawing' \in K /\ p.state[drawing'] = "FREE"
              /\ producer'.free = Tail(p.free)
              /\ producer'.state = [p.state EXCEPT ![drawing'] = "DEQUEUED"]
<1> DEFINE K == Surface(created)
           h == Head(ring)
           p == Synced
           back == ring # << >> /\ h \in K /\ producer.state[h] = "QUEUED"
<1>1. calling = "none" /\ drawing = NoKey /\ appSurface \in Surfaces
  BY DEF FrameBegin, Idle
<1>2. appSurface = created /\ created \in Surfaces
  BY <1>1 DEF IInv, CallsOK
<1>3. producer \in QueueType(K) /\ SlotsAgree(producer)
  BY <1>1, <1>2, QueuesTyped DEF IInv
<1>4. ring # << >> => h \in K
  <2>1. ASSUME ring # << >> PROVE h \in K
    <3>1. ring \in Seq(Keys)
      BY QueuesTyped DEF IInv
    <3>2. h = ring[1] /\ h \in Keys /\ 1 \in 1 .. Len(ring)
      BY <2>1, <3>1, TailOf
    <3>3. SurfaceOf(h) = created
      BY <3>2 DEF IInv, RingHoldsKeyOnce
    <3>4. QED
      BY <1>2, <3>2, <3>3, KeysOfSurface DEF Surface
  <2>2. QED
    BY <2>1
<1>5. /\ back => p.free = Append(producer.free, h) /\ p.state = [producer.state EXCEPT ![h] = "FREE"]
      /\ ~back => p = producer
      /\ p \in QueueType(K) /\ SlotsAgree(p)
  <2> HIDE DEF K, h
  <2>1. p = IF ring # << >> THEN SyncState(producer, h, "FREE") ELSE producer
    BY DEF Synced, h
  <2>2. QED
    BY <1>3, <2>1, KeyComesBack
<1>6. \/ /\ CanDequeue(p) /\ drawing' = Head(p.free)
         /\ producer' = ToState(p, Head(p.free), "DEQUEUED")
      \/ ~CanDequeue(p) /\ producer' = p /\ drawing' = drawing
  BY DEF FrameBegin
<1> HIDE DEF K, h, p
<1>7. /\ p.free = << >> => drawing' = NoKey /\ producer' = p
      /\ p.free # << >> =>
           /\ drawing' = Head(p.free) /\ drawing' \in K /\ p.state[drawing'] = "FREE"
           /\ producer'.free = Tail(p.free)
           /\ producer'.state = [p.state EXCEPT ![drawing'] = "DEQUEUED"]
           /\ producer' \in QueueType(K) /\ SlotsAgree(producer')
  <2>1. p \in QueueType(K) /\ SlotsAgree(p)
    BY <1>5
  <2>2. CanDequeue(p) <=> p.free # << >>
    BY <2>1, HeadIsTaken
  <2>3. CASE p.free = << >>
    BY <1>1, <1>6, <2>2, <2>3
  <2>4. CASE p.free # << >>
    <3>1. drawing' = Head(p.free) /\ producer' = ToState(p, Head(p.free), "DEQUEUED")
      BY <1>6, <2>2, <2>4
    <3>2. QED
      BY <2>1, <2>4, <3>1, HeadIsTaken
  <2>5. QED
    BY <2>3, <2>4
<1>8. producer' \in QueueType(K) /\ SlotsAgree(producer')
  BY <1>5, <1>7
<1>9. QED
  BY <1>1, <1>2, <1>3, <1>4, <1>5, <1>7, <1>8 DEF K, h, p

(* The states, one by one. *)
LEMMA FrameStates ==
  ASSUME IInv, FrameBegin
  PROVE  LET h == Head(ring)
             p == Synced
             d == drawing' IN
         /\ \A k \in Surface(created) :
              /\ p.state[k] = IF ring # << >> /\ k = h /\ producer.state[k] = "QUEUED"
                              THEN "FREE" ELSE producer.state[k]
              /\ producer'.state[k] = IF k = d THEN "DEQUEUED" ELSE p.state[k]
              /\ k = d => p.state[k] = "FREE"
         /\ d # NoKey => d \in Surface(created) /\ p.state[d] = "FREE"
<1> DEFINE K == Surface(created)
           h == Head(ring)
           p == Synced
           d == drawing'
<1>1. /\ created \in Surfaces
      /\ producer \in QueueType(K) /\ producer' \in QueueType(K)
      /\ ring # << >> => h \in K
      /\ p \in QueueType(K)
      /\ ring # << >> /\ h \in K /\ producer.state[h] = "QUEUED" => p.state = [producer.state EXCEPT ![h] = "FREE"]
      /\ ~(ring # << >> /\ h \in K /\ producer.state[h] = "QUEUED") => p = producer
      /\ p.free = << >> => d = NoKey /\ producer' = p
      /\ p.free # << >> => d \in K /\ p.state[d] = "FREE" /\ producer'.state = [p.state EXCEPT ![d] = "DEQUEUED"]
  BY FrameBegins
<1>2. NoKey \notin K
  BY <1>1, IdsTyped, Zeros DEF Surface
<1> HIDE DEF K, h, p, d
<1>3. DOMAIN producer.state = K /\ DOMAIN p.state = K
  BY <1>1 DEF QueueType
<1>4. \A k \in K : p.state[k] = IF ring # << >> /\ k = h /\ producer.state[k] = "QUEUED"
                                THEN "FREE" ELSE producer.state[k]
  BY <1>1, <1>3
<1>5. d # NoKey => d \in K /\ p.state[d] = "FREE"
  BY <1>1
<1>6. \A k \in K : producer'.state[k] = IF k = d THEN "DEQUEUED" ELSE p.state[k]
  BY <1>1, <1>2, <1>3
<1>7. QED
  BY <1>2, <1>4, <1>5, <1>6 DEF K, h, p, d

(* The keys the server has yet to show, and what it shows, are not touched. *)
LEMMA ServerUntouched ==
  ASSUME IInv, UNCHANGED <<srvVars, sent>>, UNCHANGED <<appSurface, calling, reply>>
  PROVE  /\ ServerOK' /\ SentOK' /\ SentOnce' /\ SlotsAgree(consumer)' /\ (Attached' <=> Attached)
         /\ DOMAIN consumer.state' = DOMAIN consumer.state
<1>1. UNCHANGED <<srvSurface, consumer, shown, removed, inMap, named, created, sent>>
  BY DEF srvVars
<1>2. Attached' <=> Attached
  BY <1>1 DEF Attached
<1>3. ServerOK'
  BY <1>1 DEF IInv, ServerOK, ShownIsCurrent
<1>4. SentOK' /\ SentOnce'
  BY <1>1, <1>2 DEF IInv, SentOK, SentOnce
<1>5. QED
  BY <1>1, <1>2, <1>3, <1>4 DEF IInv

(***************************************************************************)
(* The first half of a frame: a key is read from the ring and a buffer is  *)
(* taken.  The buffer taken has no key in the ring, since the first of the *)
(* free list is the first of the keys that were there from the start.      *)
(***************************************************************************)
LEMMA FrameBeginKeeps ==
  ASSUME IInv, FrameBegin
  PROVE  IInv'
<1> DEFINE K == Surface(created)
           h == Head(ring)
           p == Synced
           d == drawing'
<1>1. /\ calling = "none" /\ drawing = NoKey /\ appSurface = created /\ created \in Surfaces
      /\ producer \in QueueType(K) /\ SlotsAgree(producer)
      /\ producer' \in QueueType(K) /\ SlotsAgree(producer')
      /\ ring # << >> => h \in K
      /\ p \in QueueType(K) /\ SlotsAgree(p)
  BY FrameBegins
<1>2. /\ ring # << >> /\ producer.state[h] = "QUEUED" =>
           p.free = Append(producer.free, h) /\ p.state = [producer.state EXCEPT ![h] = "FREE"]
      /\ ~(ring # << >> /\ producer.state[h] = "QUEUED") => p = producer
  BY <1>1, FrameBegins
<1>3. /\ p.free = << >> => d = NoKey /\ producer' = p
      /\ p.free # << >> =>
           /\ d = Head(p.free) /\ d \in K /\ p.state[d] = "FREE"
           /\ producer'.free = Tail(p.free)
           /\ producer'.state = [p.state EXCEPT ![d] = "DEQUEUED"]
  BY FrameBegins
<1>4. /\ UNCHANGED <<appVisible, appSurface, calling, reply, srvVars, sent>>
      /\ ring' = IF ring # << >> THEN Tail(ring) ELSE ring
  BY DEF FrameBegin
<1>5. UNCHANGED <<srvSurface, consumer, shown, removed, inMap, named, created>>
  BY <1>4 DEF srvVars
<1>6. ring \in Seq(Keys) /\ sent \in Seq(Keys) /\ NoKey \notin K /\ K \subseteq Keys
  BY <1>1, QueuesTyped, IdsTyped, Zeros DEF IInv, Surface
<1>7. /\ ring' \in Seq(Keys) /\ Range(ring') \subseteq Range(ring)
      /\ ring # << >> => h \in Range(ring) /\ h \notin Range(ring') /\ Range(ring) = Range(ring') \cup {h}
      /\ IsInjective(ring')
  <2>1. IsInjective(ring)
    BY DEF IInv, RingHoldsKeyOnce
  <2>2. CASE ring = << >>
    BY <1>4, <1>6, <2>1, <2>2
  <2>3. CASE ring # << >>
    <3>1. ring' = Tail(ring)
      BY <1>4, <2>3
    <3>2. QED
      BY <1>6, <2>1, <2>3, <3>1, TailOf
  <2>4. QED
    BY <2>2, <2>3
<1> HIDE DEF h, p, K, d
<1>8. /\ DOMAIN producer.state = K /\ DOMAIN producer'.state = K /\ DOMAIN p.state = K
      /\ p.free \in Seq(K) /\ producer.free \in Seq(K) /\ producer'.free \in Seq(K)
  BY <1>1 DEF QueueType
<1>9. Drawing
  BY <1>1 DEF Drawing
<1>10. /\ \A k \in K : p.state[k] = IF ring # << >> /\ k = h /\ producer.state[k] = "QUEUED"
                                      THEN "FREE" ELSE producer.state[k]
       /\ \A k \in K : producer'.state[k] = IF k = d THEN "DEQUEUED" ELSE p.state[k]
       /\ d # NoKey => d \in K /\ p.state[d] = "FREE"
  BY FrameStates DEF K, h, p, d
<1>11. TypeOK'
  <2>1. producer' \in QueueType(DOMAIN producer'.state)
    BY <1>1, <1>8
  <2>2. DOMAIN producer'.state = IF appSurface' \in Surfaces THEN Surface(appSurface') ELSE {}
    BY <1>1, <1>4, <1>8 DEF K
  <2>3. drawing' \in Keys \cup {NoKey}
    BY <1>6, <1>10 DEF d
  <2>4. QED
    BY <1>4, <1>5, <1>7, <2>1, <2>2, <2>3 DEF IInv, TypeOK, Surface
<1>12. ServerOK' /\ SentOK' /\ SentOnce' /\ SlotsAgree(consumer)' /\ (Attached' <=> Attached)
  BY <1>4, ServerUntouched
<1>13. CallsOK'
  BY <1>1, <1>4, <1>5 DEF IInv, CallsOK
<1>14. ProducerOK'
  <2>1. \A k \in K : producer.state[k] # "ACQUIRED" /\ producer.state[k] # "DEQUEUED"
    BY <1>1, <1>6, <1>8 DEF IInv, ProducerOK
  <2>2. \A k \in K : p.state[k] # "ACQUIRED" /\ p.state[k] # "DEQUEUED"
    BY <1>10, <2>1
  <2>3. QED
    BY <1>8, <1>10, <2>2 DEF ProducerOK, d
<1>15. RingHoldsKeyOnce'
  <2>1. \A k \in Range(ring) : SurfaceOf(k) = created
    BY <1>6, RangeOf DEF IInv, RingHoldsKeyOnce
  <2>2. \A i \in 1 .. Len(ring') : ring'[i] \in Range(ring)
    BY <1>7, RangeOf
  <2>3. QED
    BY <1>5, <1>7, <2>1, <2>2 DEF RingHoldsKeyOnce
<1>16. d # NoKey /\ d # h => d \notin Range(ring)
  (* A free key that is in the ring is behind others that are. *)
  <2>1. PICK n \in 0 .. Len(ring) :
          /\ n <= Len(producer.free)
          /\ \A i \in 1 .. n : ring[i] = producer.free[i]
          /\ \A i \in n + 1 .. Len(ring) : producer.state[ring[i]] = "QUEUED"
    BY <1>9 DEF IInv, StaleFirst
  <2>2. SUFFICES ASSUME d # NoKey, d # h, d \in Range(ring) PROVE FALSE
    OBVIOUS
  <2>3. PICK i \in 1 .. Len(ring) : ring[i] = d
    BY <1>6, <2>2, RangeOf
  <2>4. ring # << >> /\ Len(ring) \in Nat /\ h = ring[1]
    BY <1>6, <2>3, TailOf DEF h
  <2>5. producer.state[d] = "FREE"
    BY <1>10, <2>2
  <2>6. i <= n /\ n >= 1
    BY <2>1, <2>3, <2>4, <2>5
  <2>7. h = producer.free[1] /\ producer.free # << >>
    BY <1>8, <2>1, <2>4, <2>6
  <2>8. producer.state[h] = "FREE"
    <3>1. h \in Range(producer.free) /\ h \in K
      BY <1>8, <2>7, TailOf
    <3>2. QED
      BY <1>1, <1>8, <3>1 DEF SlotsAgree
  <2>9. p = producer /\ d = Head(p.free)
    BY <1>2, <1>3, <2>2, <2>8
  <2>10. d = h
    BY <1>8, <2>7, <2>9, TailOf
  <2>11. QED
    BY <2>2, <2>10
<1>17. AllInPlace'
  <2> SUFFICES ASSUME NEW k \in K PROVE InPlace(k)'
    BY <1>1, <1>4 DEF AllInPlace, K
  <2>1. InPlace(k) /\ k # NoKey
    BY <1>6, <1>9, WhenDrawing DEF K
  <2>2. CASE k = d
    <3>1. p.state[d] = "FREE" /\ d # NoKey
      BY <1>10, <2>1, <2>2
    <3>2. d \notin Range(ring')
      <4>1. CASE ring = << >>
        BY <1>4, <4>1, NoneIn
      <4>2. CASE ring # << >> /\ d = h
        BY <1>7, <4>2
      <4>3. CASE d # h
        BY <1>7, <1>16, <3>1, <4>3
      <4>4. QED
        BY <4>1, <4>2, <4>3
    <3>3. d \notin Range(sent) /\ d # shown
      <4>1. CASE producer.state[k] = "FREE"
        BY <2>1, <2>2, <4>1 DEF InPlace
      <4>2. CASE producer.state[k] # "FREE"
        <5>1. ring # << >> /\ k = h /\ producer.state[k] = "QUEUED"
          BY <1>10, <2>2, <3>1, <4>2
        <5>2. k \in Range(ring)
          BY <1>7, <5>1
        <5>3. QED
          BY <2>1, <2>2, <5>1, <5>2 DEF InPlace
      <4>3. QED
        BY <4>1, <4>2
    <3>4. producer'.state[k] = "DEQUEUED"
      BY <1>10, <2>2
    <3>5. QED
      BY <1>4, <1>5, <2>2, <3>2, <3>3, <3>4 DEF InPlace, d
  <2>3. CASE k # d /\ ring # << >> /\ k = h
    <3>1. k \in Range(ring) /\ k \notin Range(ring')
      BY <1>7, <2>3
    <3>2. k \notin Range(sent) /\ k # shown /\ producer'.state[k] = "FREE"
      BY <1>10, <2>1, <2>3, <3>1 DEF InPlace
    <3>3. QED
      BY <1>4, <1>5, <2>3, <3>2 DEF InPlace, d
  <2>4. CASE k # d /\ ~(ring # << >> /\ k = h)
    <3>1. producer'.state[k] = producer.state[k] /\ producer.state[k] # "DEQUEUED"
      BY <1>1, <1>10, <2>1, <2>4 DEF InPlace
    <3>2. k \in Range(ring') <=> k \in Range(ring)
      BY <1>4, <1>7, <2>4
    <3>3. QED
      BY <1>1, <1>4, <1>5, <1>12, <2>1, <2>4, <3>1, <3>2 DEF InPlace, d
  <2>5. QED
    BY <2>2, <2>3, <2>4
<1>18. StaleFirst'
  <2> SUFFICES \E n \in 0 .. Len(ring') :
                 /\ n <= Len(producer'.free)
                 /\ \A i \in 1 .. n : ring'[i] = producer'.free[i]
                 /\ \A i \in n + 1 .. Len(ring') : producer'.state[ring'[i]] = "QUEUED"
    BY DEF StaleFirst
  <2>1. PICK n \in 0 .. Len(ring) :
          /\ n <= Len(producer.free)
          /\ \A i \in 1 .. n : ring[i] = producer.free[i]
          /\ \A i \in n + 1 .. Len(ring) : producer.state[ring[i]] = "QUEUED"
    BY <1>9 DEF IInv, StaleFirst
  <2>2. CASE ring = << >>
    <3>1. Len(ring') = 0 /\ Len(producer'.free) \in Nat
      BY <1>4, <1>8, <2>2
    <3>2. QED
      BY <3>1
  <2>3. CASE ring # << >>
    <3>1. /\ ring' = Tail(ring) /\ Len(ring) \in Nat \ {0} /\ Len(ring') = Len(ring) - 1 /\ h = ring[1]
          /\ \A i \in 1 .. Len(ring) - 1 : ring'[i] = ring[i + 1]
      BY <1>4, <1>6, <2>3, TailOf DEF h
    <3>2. \A i \in 1 .. Len(ring') : ring'[i] \in K /\ ring'[i] # h /\ ring'[i] # d
      <4>1. ASSUME NEW i \in 1 .. Len(ring') PROVE ring'[i] \in K /\ ring'[i] # h /\ ring'[i] # d
        <5>1. ring'[i] \in Range(ring') /\ ring'[i] \in Keys
          BY <1>7, RangeOf
        <5>2. ring'[i] # h /\ ring'[i] \in Range(ring)
          BY <1>7, <2>3, <5>1
        <5>3. SurfaceOf(ring'[i]) = created
          BY <1>5, <1>15 DEF RingHoldsKeyOnce
        <5>4. ring'[i] \in K
          BY <1>1, <5>1, <5>3, KeysOfSurface DEF Surface, K
        <5>5. ring'[i] # d
          BY <1>6, <1>16, <5>2, <5>4
        <5>6. QED
          BY <5>2, <5>4, <5>5
      <4>2. QED
        BY <4>1
    <3>3. \A i \in 1 .. Len(ring') : producer'.state[ring'[i]] = producer.state[ring[i + 1]]
      BY <1>10, <3>1, <3>2
    <3>4. CASE n = 0
      <4>1. \A i \in 1 .. Len(ring') : producer'.state[ring'[i]] = "QUEUED"
        <5>1. \A j \in 1 .. Len(ring) : producer.state[ring[j]] = "QUEUED"
          BY <2>1, <3>4
        <5>2. \A i \in 1 .. Len(ring') : i + 1 \in 1 .. Len(ring)
          BY <3>1
        <5>3. QED
          BY <3>3, <5>1, <5>2
      <4>2. 0 \in 0 .. Len(ring') /\ Len(producer'.free) \in Nat
        BY <1>8, <3>1
      <4>3. QED
        BY <4>1, <4>2
    <3>5. CASE n > 0
      <4>1. h = producer.free[1] /\ producer.free # << >>
        BY <1>8, <2>1, <3>1, <3>5
      <4>2. producer.state[h] = "FREE"
        <5>1. h \in Range(producer.free) /\ h \in K
          BY <1>8, <4>1, TailOf
        <5>2. QED
          BY <1>1, <1>8, <5>1 DEF SlotsAgree
      <4>3. p = producer /\ producer'.free = Tail(producer.free)
        BY <1>2, <1>3, <4>1, <4>2
      <4>4. /\ Len(producer'.free) = Len(producer.free) - 1 /\ Len(producer.free) \in Nat
            /\ \A i \in 1 .. Len(producer.free) - 1 : producer'.free[i] = producer.free[i + 1]
        BY <1>8, <4>1, <4>3, TailOf
      <4>5. n - 1 \in 0 .. Len(ring') /\ n - 1 <= Len(producer'.free)
        BY <2>1, <3>1, <3>5, <4>4
      <4>6. \A i \in 1 .. n - 1 : ring'[i] = producer'.free[i]
        BY <2>1, <3>1, <4>4
      <4>7. \A i \in (n - 1) + 1 .. Len(ring') : producer'.state[ring'[i]] = "QUEUED"
        BY <2>1, <3>1, <3>3, <3>5
      <4>8. QED
        BY <4>5, <4>6, <4>7
    <3>6. QED
      BY <2>1, <3>4, <3>5
  <2>4. QED
    BY <2>2, <2>3
<1>19. QED
  BY <1>1, <1>11, <1>12, <1>13, <1>14, <1>15, <1>17, <1>18 DEF IInv

(* What cancelBuffer and queueBuffer have in common. *)
LEMMA FrameEnds ==
  ASSUME IInv, drawing # NoKey, NEW to \in {"FREE", "QUEUED"},
         producer' = ToState(producer, drawing, to), drawing' = NoKey, sent' \in Seq(Keys),
         UNCHANGED <<appVisible, appSurface, calling, reply, srvVars, ring>>
  PROVE  LET K == Surface(created) IN
         /\ TypeOK' /\ SlotsAgree(producer)' /\ SlotsAgree(consumer)'
         /\ ServerOK' /\ CallsOK' /\ ProducerOK' /\ RingHoldsKeyOnce' /\ (Attached' <=> Attached)
         /\ DOMAIN producer.state = K /\ K \subseteq Keys /\ producer.free \in Seq(K)
         /\ drawing \in K /\ producer.state[drawing] = "DEQUEUED" /\ SurfaceOf(drawing) = created
         /\ \A k \in K : producer'.state[k] = IF k = drawing THEN to ELSE producer.state[k]
         /\ to = "FREE" => producer'.free = Append(producer.free, drawing)
         /\ to = "QUEUED" => producer'.free = producer.free
<1> DEFINE K == Surface(created)
<1>1. /\ calling = "none" /\ appSurface = created /\ created \in Surfaces
      /\ drawing \in K /\ DOMAIN producer.state = K
      /\ SurfaceOf(drawing) = created /\ producer.state[drawing] = "DEQUEUED"
  BY DrawnIsNew
<1>2. producer \in QueueType(K) /\ SlotsAgree(producer)
  BY <1>1, QueuesTyped DEF IInv
<1>3. K \subseteq Keys /\ NoKey \notin K
  BY <1>1, IdsTyped, Zeros DEF Surface
<1>4. UNCHANGED <<srvSurface, consumer, shown, removed, inMap, named, created>>
  BY DEF srvVars
<1> HIDE DEF K
<1>5. /\ producer' \in QueueType(K) /\ SlotsAgree(producer')
      /\ \A k \in K : producer'.state[k] = IF k = drawing THEN to ELSE producer.state[k]
      /\ to = "FREE" => producer'.free = Append(producer.free, drawing)
      /\ to = "QUEUED" => producer'.free = producer.free
  BY <1>1, <1>2, DrawnIsPut
<1>6. DOMAIN producer'.state = K /\ producer.free \in Seq(K)
  BY <1>2, <1>5 DEF QueueType
<1>7. \A k \in K : producer'.state[k] = IF k = drawing THEN to ELSE producer.state[k]
  BY <1>5
<1>8. TypeOK'
  <2>1. producer' \in QueueType(DOMAIN producer'.state)
    BY <1>5, <1>6
  <2>2. DOMAIN producer'.state = IF appSurface' \in Surfaces THEN Surface(appSurface') ELSE {}
    BY <1>1, <1>6 DEF K
  <2>3. drawing' \in Keys \cup {NoKey}
    OBVIOUS
  <2>4. QED
    BY <1>4, <2>1, <2>2, <2>3 DEF IInv, TypeOK, Surface
<1>9. Attached' <=> Attached
  BY <1>4 DEF Attached
<1>10. ServerOK' /\ RingHoldsKeyOnce' /\ SlotsAgree(consumer)'
  BY <1>4 DEF IInv, ServerOK, ShownIsCurrent, RingHoldsKeyOnce
<1>11. CallsOK'
  BY <1>1, <1>4 DEF IInv, CallsOK
<1>12. ProducerOK'
  <2>1. \A k \in K : producer.state[k] # "ACQUIRED" /\ (producer.state[k] = "DEQUEUED" <=> k = drawing)
    BY <1>1 DEF IInv, ProducerOK
  <2>2. \A k \in K : producer'.state[k] # "ACQUIRED" /\ (producer'.state[k] = "DEQUEUED" <=> k = drawing')
    BY <1>3, <1>7, <2>1
  <2>3. QED
    BY <1>6, <2>2 DEF ProducerOK
<1>13. QED
  BY <1>1, <1>3, <1>5, <1>6, <1>7, <1>8, <1>9, <1>10, <1>11, <1>12 DEF K

(* The drawn buffer goes back to the free list or into a transaction. *)
LEMMA FrameEndKeepsPlaces ==
  ASSUME IInv, drawing # NoKey, NEW to \in {"FREE", "QUEUED"},
         producer' = ToState(producer, drawing, to), drawing' = NoKey, sent' \in Seq(Keys),
         UNCHANGED <<appVisible, appSurface, calling, reply, srvVars, ring>>,
         \A k \in Keys : k \in Range(sent') <=> k \in Range(sent) \/ (to = "QUEUED" /\ k = drawing)
  PROVE  AllInPlace' /\ StaleFirst'
<1> DEFINE K == Surface(created)
<1>1. /\ Attached' <=> Attached
      /\ DOMAIN producer.state = K /\ K \subseteq Keys /\ producer.free \in Seq(K)
      /\ drawing \in K /\ producer.state[drawing] = "DEQUEUED"
      /\ \A k \in K : producer'.state[k] = IF k = drawing THEN to ELSE producer.state[k]
      /\ to = "FREE" => producer'.free = Append(producer.free, drawing)
      /\ to = "QUEUED" => producer'.free = producer.free
  BY FrameEnds
<1>2. UNCHANGED <<srvSurface, shown, created>>
  BY DEF srvVars
<1>3. Drawing /\ Drawing' /\ appSurface = created /\ created \in Surfaces
  BY DrawnIsNew DEF Drawing
<1> HIDE DEF K
<1>4. ASSUME NEW k \in K PROVE InPlace(k)'
  <2>1. InPlace(k)
    BY <1>3, WhenDrawing DEF K
  <2>2. k # NoKey
    BY <1>1, <1>4, Zeros
  <2>3. CASE k = drawing
    <3>1. k \notin Range(sent) /\ k # shown /\ k \notin Range(ring)
      BY <1>1, <2>1, <2>3 DEF InPlace
    <3>2. producer'.state[k] = to
      BY <1>1, <2>3
    <3>3. CASE to = "FREE"
      <4>1. k \notin Range(sent')
        BY <1>1, <3>1, <3>3
      <4>2. QED
        BY <1>2, <2>2, <3>1, <3>2, <3>3, <4>1 DEF InPlace
    <3>4. CASE to = "QUEUED"
      <4>1. k \in Range(sent')
        BY <1>1, <2>3, <3>4
      <4>2. QED
        BY <1>2, <2>2, <3>1, <3>2, <3>4, <4>1 DEF InPlace
    <3>5. QED
      BY <3>3, <3>4
  <2>4. CASE k # drawing
    <3>1. producer'.state[k] = producer.state[k] /\ (k \in Range(sent') <=> k \in Range(sent))
      BY <1>1, <1>4, <2>4
    <3>2. producer.state[k] # "DEQUEUED"
      BY <2>1, <2>4 DEF InPlace
    <3>3. QED
      BY <1>1, <1>2, <2>1, <2>2, <3>1, <3>2 DEF InPlace
  <2>5. QED
    BY <2>3, <2>4
<1>5. AllInPlace'
  BY <1>3, <1>4 DEF AllInPlace, K
<1>6. \E n \in 0 .. Len(ring) :
        /\ n <= Len(producer'.free)
        /\ \A i \in 1 .. n : ring[i] = producer'.free[i]
        /\ \A i \in n + 1 .. Len(ring) : producer'.state[ring[i]] = "QUEUED"
  <2>1. PICK n \in 0 .. Len(ring) :
          /\ n <= Len(producer.free)
          /\ \A i \in 1 .. n : ring[i] = producer.free[i]
          /\ \A i \in n + 1 .. Len(ring) : producer.state[ring[i]] = "QUEUED"
    BY <1>3 DEF IInv, StaleFirst
  <2>2. ring \in Seq(Keys)
    BY QueuesTyped DEF IInv
  <2>3. \A i \in 1 .. Len(ring) : ring[i] \in K
    <3>1. \A i \in 1 .. Len(ring) : ring[i] \in Keys /\ SurfaceOf(ring[i]) = created
      BY <2>2, RangeOf DEF IInv, RingHoldsKeyOnce
    <3>2. QED
      BY <1>3, <3>1, KeysOfSurface DEF K, Surface
  <2>4. \A i \in n + 1 .. Len(ring) : producer'.state[ring[i]] = "QUEUED"
    <3>1. ASSUME NEW i \in n + 1 .. Len(ring) PROVE producer'.state[ring[i]] = "QUEUED"
      <4>1. i \in 1 .. Len(ring) /\ producer.state[ring[i]] = "QUEUED"
        BY <2>1, <2>2
      <4>2. ring[i] \in K /\ ring[i] # drawing
        BY <1>1, <2>3, <4>1
      <4>3. QED
        BY <1>1, <4>1, <4>2
    <3>2. QED
      BY <3>1
  <2>5. n <= Len(producer'.free) /\ \A i \in 1 .. n : ring[i] = producer'.free[i]
    <3>1. CASE to = "FREE"
      <4>1. /\ Len(producer'.free) = Len(producer.free) + 1 /\ Len(producer.free) \in Nat
            /\ \A i \in 1 .. Len(producer.free) : producer'.free[i] = producer.free[i]
        <5>1. /\ producer'.free = Append(producer.free, drawing)
              /\ producer.free \in Seq(K) /\ drawing \in K
          BY <1>1, <3>1
        <5>2. QED
          BY <5>1, AppendTo
      <4>2. n \in Int
        BY <2>2
      <4>3. QED
        BY <2>1, <4>1, <4>2
    <3>2. CASE to = "QUEUED"
      BY <1>1, <2>1, <3>2
    <3>3. QED
      BY <3>1, <3>2
  <2>6. QED
    BY <2>1, <2>4, <2>5
<1>7. StaleFirst'
  BY <1>6 DEF StaleFirst
<1>8. QED
  BY <1>5, <1>7

(* A frame that is not drawn. *)
LEMMA FrameCancelKeeps ==
  ASSUME IInv, FrameCancel
  PROVE  IInv'
<1>1. /\ drawing # NoKey /\ producer' = ToState(producer, drawing, "FREE") /\ drawing' = NoKey
      /\ UNCHANGED <<appVisible, appSurface, calling, reply, srvVars, ring, sent>>
  BY DEF FrameCancel
<1>2. sent \in Seq(Keys)
  BY QueuesTyped DEF IInv
<1>3. /\ TypeOK' /\ SlotsAgree(producer)' /\ SlotsAgree(consumer)' /\ ServerOK' /\ CallsOK'
      /\ ProducerOK' /\ RingHoldsKeyOnce' /\ (Attached' <=> Attached)
  BY <1>1, <1>2, FrameEnds
<1>4. AllInPlace' /\ StaleFirst'
  BY <1>1, <1>2, FrameEndKeepsPlaces
<1>5. SentOK' /\ SentOnce'
  BY <1>1, <1>3 DEF IInv, SentOK, SentOnce, srvVars
<1>6. QED
  BY <1>3, <1>4, <1>5 DEF IInv

(* A frame that is sent. *)
LEMMA FrameSendKeeps ==
  ASSUME IInv, FrameSend
  PROVE  IInv'
<1>1. /\ drawing # NoKey /\ producer' = ToState(producer, drawing, "QUEUED") /\ drawing' = NoKey
      /\ sent' = Append(sent, drawing)
      /\ UNCHANGED <<appVisible, appSurface, calling, reply, srvVars, ring>>
  BY DEF FrameSend, Sends
<1>2. sent \in Seq(Keys) /\ drawing \in Keys /\ SurfaceOf(drawing) = created /\ created \in Nat
  BY <1>1, DrawnIsNew, QueuesTyped DEF IInv
<1>3. /\ sent' \in Seq(Keys) /\ Len(sent') = Len(sent) + 1 /\ Len(sent) \in Nat
      /\ \A i \in 1 .. Len(sent) : sent'[i] = sent[i]
      /\ sent'[Len(sent) + 1] = drawing
      /\ Range(sent') = Range(sent) \cup {drawing}
  BY <1>1, <1>2, AppendTo
<1>4. /\ TypeOK' /\ SlotsAgree(producer)' /\ SlotsAgree(consumer)' /\ ServerOK' /\ CallsOK'
      /\ ProducerOK' /\ RingHoldsKeyOnce' /\ (Attached' <=> Attached)
      /\ drawing \in Surface(created) /\ producer.state[drawing] = "DEQUEUED"
  BY <1>1, <1>3, FrameEnds
<1>5. AllInPlace' /\ StaleFirst'
  BY <1>1, <1>3, FrameEndKeepsPlaces
<1>6. UNCHANGED <<srvSurface, shown, created>>
  BY <1>1 DEF srvVars
<1>7. \A i \in 1 .. Len(sent') : i \in 1 .. Len(sent) \/ i = Len(sent) + 1
  BY <1>3
<1>8. \A i \in 1 .. Len(sent) : SurfaceOf(sent[i]) \in Nat
  BY <1>2, RangeOf, KeysOfSurface, Zeros
<1>9. SentOK'
  <2>1. \A i \in 1 .. Len(sent') : SurfaceOf(sent'[i]) <= created'
    BY <1>2, <1>3, <1>6, <1>7 DEF IInv, SentOK
  <2>2. ASSUME NEW i \in 1 .. Len(sent'), NEW j \in 1 .. Len(sent'), i < j
        PROVE  SurfaceOf(sent'[i]) <= SurfaceOf(sent'[j])
    <3>1. i \in 1 .. Len(sent)
      BY <1>3, <2>2
    <3>2. CASE j = Len(sent) + 1
      BY <1>2, <1>3, <3>1, <3>2 DEF IInv, SentOK
    <3>3. CASE j \in 1 .. Len(sent)
      BY <1>3, <2>2, <3>1, <3>3 DEF IInv, SentOK
    <3>4. QED
      BY <1>7, <3>2, <3>3
  <2>3. ASSUME shown' # NoKey, NEW i \in 1 .. Len(sent') PROVE SurfaceOf(sent'[i]) = srvSurface'
    <3>1. srvSurface = created
      BY <1>6, <2>3, ShownAttached, WhenAttached
    <3>2. QED
      BY <1>2, <1>3, <1>6, <1>7, <2>3, <3>1 DEF IInv, SentOK
  <2>4. QED
    BY <2>1, <2>2, <2>3 DEF SentOK
<1>10. SentOnce'
  <2> SUFFICES ASSUME Attached, NEW i \in 1 .. Len(sent'), NEW j \in 1 .. Len(sent'),
                      SurfaceOf(sent'[i]) = srvSurface, i # j
               PROVE  sent'[i] # sent'[j]
    BY <1>4, <1>6 DEF SentOnce
  <2>1. drawing \notin Range(sent)
    <3>1. InPlace(drawing)
      BY <1>1, <1>4, DrawnIsNew, WhenDrawing
    <3>2. QED
      BY <1>4, <3>1 DEF InPlace
  <2>2. \A x \in 1 .. Len(sent) : sent[x] # drawing
    BY <1>2, <2>1, RangeOf
  <2>3. CASE i \in 1 .. Len(sent) /\ j \in 1 .. Len(sent)
    BY <1>3, <2>3 DEF IInv, SentOnce
  <2>4. CASE i = Len(sent) + 1 \/ j = Len(sent) + 1
    BY <1>3, <1>7, <2>2, <2>4
  <2>5. QED
    BY <1>7, <2>3, <2>4
<1>11. QED
  BY <1>4, <1>5, <1>9, <1>10 DEF IInv

-----------------------------------------------------------------------------
(* The server *)

(* The buffer that is shown is the server's to release, and the app waits for its key. *)
LEMMA ShownIsReturned ==
  ASSUME IInv, NEW c, shown # NoKey => CanMove(c, shown, "FREE")
  PROVE  LET r == Returned(c) IN
         /\ r \in Seq(Keys) /\ IsInjective(r)
         /\ \A i \in 1 .. Len(r) : SurfaceOf(r[i]) = created
         /\ shown = NoKey => r = ring
         /\ shown # NoKey => /\ r = Append(ring, shown)
                             /\ producer.state[shown] = "QUEUED" /\ shown \in Surface(created)
                             /\ shown \notin Range(sent) /\ shown \notin Range(ring)
<1>1. ring \in Seq(Keys) /\ IsInjective(ring) /\ \A i \in 1 .. Len(ring) : SurfaceOf(ring[i]) = created
  BY QueuesTyped DEF IInv, RingHoldsKeyOnce
<1>2. CASE shown = NoKey
  BY <1>1, <1>2 DEF Returned
<1>3. CASE shown # NoKey
  <2>1. Attached
    BY <1>3, ShownAttached
  <2>2. /\ srvSurface = created /\ DOMAIN consumer.state = Surface(created)
        /\ \A k \in Keys : k \in Surface(created) <=> SurfaceOf(k) = created
        /\ Surface(created) \subseteq Keys
    BY <2>1, WhenAttached
  <2>3. shown \in Surface(created)
    BY <1>3, <2>2 DEF IInv, ServerOK, ShownIsCurrent
  <2>4. InPlace(shown)
    BY <2>1, <2>3, WhenAttached, WhenDrawing
  <2>5. producer.state[shown] = "QUEUED" /\ shown \notin Range(sent) /\ shown \notin Range(ring)
    BY <2>4 DEF InPlace
  <2> DEFINE r == Returned(c)
  <2>6. r = Append(ring, shown)
    BY <1>3 DEF Returned
  <2> HIDE DEF r
  <2>7. r \in Seq(Keys) /\ IsInjective(r) /\ Range(r) = Range(ring) \cup {shown}
    BY <1>1, <2>2, <2>3, <2>5, <2>6, AppendNew
  <2>8. \A k \in Range(r) : SurfaceOf(k) = created
    <3>1. \A k \in Range(ring) : SurfaceOf(k) = created
      BY <1>1, RangeOf
    <3>2. QED
      BY <2>2, <2>3, <2>7, <3>1
  <2>9. \A i \in 1 .. Len(r) : SurfaceOf(r[i]) = created
    BY <2>7, <2>8, RangeOf
  <2>10. QED
    BY <1>3, <2>3, <2>5, <2>6, <2>7, <2>9 DEF r
<1>4. QED
  BY <1>2, <1>3

(* The oldest transaction is taken from those on their way. *)
LEMMA SentArrives ==
  ASSUME IInv, Arrives
  PROVE  /\ sent' \in Seq(Keys) /\ Head(sent) \in Keys
         /\ SurfaceOf(Head(sent)) \in Surfaces /\ SurfaceOf(Head(sent)) <= created
         /\ Head(sent) \in Range(sent) /\ Range(sent) = Range(sent') \cup {Head(sent)}
         /\ \A i \in 1 .. Len(sent') : /\ SurfaceOf(sent'[i]) <= created
                                       /\ SurfaceOf(Head(sent)) <= SurfaceOf(sent'[i])
                                       /\ shown # NoKey => SurfaceOf(sent'[i]) = srvSurface
                                       /\ SurfaceOf(sent'[i]) \in Surfaces
         /\ shown # NoKey => SurfaceOf(Head(sent)) = srvSurface
         /\ \A i, j \in 1 .. Len(sent') : i < j => SurfaceOf(sent'[i]) <= SurfaceOf(sent'[j])
         /\ Attached => \A i, j \in 1 .. Len(sent') :
              SurfaceOf(sent'[i]) = srvSurface /\ i # j => sent'[i] # sent'[j]
         /\ Attached /\ SurfaceOf(Head(sent)) = srvSurface => Head(sent) \notin Range(sent')
         /\ calling # "none" /\ reply # NoSurface =>
              /\ SurfaceOf(Head(sent)) < reply
              /\ \A i \in 1 .. Len(sent') : SurfaceOf(sent'[i]) < reply
<1>1. sent \in Seq(Keys) /\ sent # << >> /\ sent' = Tail(sent)
  BY QueuesTyped DEF IInv, Arrives
<1>2. /\ sent' \in Seq(Keys) /\ Len(sent') = Len(sent) - 1 /\ Len(sent) \in Nat \ {0}
      /\ Head(sent) = sent[1] /\ Head(sent) \in Keys
      /\ \A i \in 1 .. Len(sent) - 1 : sent'[i] = sent[i + 1]
      /\ Range(sent) = Range(sent') \cup {Head(sent)}
  BY <1>1, TailOf
<1>3. 1 \in 1 .. Len(sent) /\ \A i \in 1 .. Len(sent') : i \in Nat \ {0} /\ i + 1 \in 1 .. Len(sent) /\ sent'[i] = sent[i + 1]
  BY <1>2
<1>4. \A i \in 1 .. Len(sent') : sent'[i] \in Keys
  BY <1>2, RangeOf
<1>5. SurfaceOf(Head(sent)) \in Surfaces /\ \A i \in 1 .. Len(sent') : SurfaceOf(sent'[i]) \in Surfaces
  BY <1>2, <1>4, KeysOfSurface
<1>6. /\ SurfaceOf(Head(sent)) <= created
      /\ \A i \in 1 .. Len(sent') : SurfaceOf(sent'[i]) <= created
  BY <1>2, <1>3 DEF IInv, SentOK
<1>7. /\ \A i \in 1 .. Len(sent') : SurfaceOf(Head(sent)) <= SurfaceOf(sent'[i])
      /\ \A i, j \in 1 .. Len(sent') : i < j => SurfaceOf(sent'[i]) <= SurfaceOf(sent'[j])
  <2>1. \A i, j \in 1 .. Len(sent) : i < j => SurfaceOf(sent[i]) <= SurfaceOf(sent[j])
    BY DEF IInv, SentOK
  <2>2. \A i \in 1 .. Len(sent') : 1 < i + 1
    BY <1>3
  <2>3. \A i, j \in 1 .. Len(sent') : i < j => i + 1 < j + 1
    BY <1>3
  <2>4. QED
    BY <1>2, <1>3, <2>1, <2>2, <2>3
<1>8. shown # NoKey => /\ SurfaceOf(Head(sent)) = srvSurface
                       /\ \A i \in 1 .. Len(sent') : SurfaceOf(sent'[i]) = srvSurface
  BY <1>2, <1>3 DEF IInv, SentOK
<1>9. ASSUME Attached
      PROVE  /\ \A i, j \in 1 .. Len(sent') :
                  SurfaceOf(sent'[i]) = srvSurface /\ i # j => sent'[i] # sent'[j]
             /\ SurfaceOf(Head(sent)) = srvSurface => Head(sent) \notin Range(sent')
  <2>1. \A i, j \in 1 .. Len(sent) : SurfaceOf(sent[i]) = srvSurface /\ i # j => sent[i] # sent[j]
    BY <1>9 DEF IInv, SentOnce
  <2>2. \A i, j \in 1 .. Len(sent') : i # j => i + 1 # j + 1
    BY <1>3
  <2>3. \A i \in 1 .. Len(sent') : 1 # i + 1
    BY <1>3
  <2>4. SurfaceOf(Head(sent)) = srvSurface => \A i \in 1 .. Len(sent') : sent'[i] # Head(sent)
    BY <1>2, <1>3, <2>1, <2>3
  <2>5. \A x : x \in Range(sent') <=> \E i \in 1 .. Len(sent') : sent'[i] = x
    BY <1>2, RangeOf
  <2>6. QED
    BY <1>3, <2>1, <2>2, <2>4, <2>5
<1>10. calling # "none" /\ reply # NoSurface =>
         /\ SurfaceOf(Head(sent)) < reply
         /\ \A i \in 1 .. Len(sent') : SurfaceOf(sent'[i]) < reply
  BY <1>2, <1>3 DEF IInv, CallsOK
<1>11. QED
  BY <1>2, <1>5, <1>6, <1>7, <1>8, <1>9, <1>10

(* A transaction for a surface that is gone changes nothing on the server. *)
LEMMA StaleArrives ==
  ASSUME IInv, Arrives, UNCHANGED <<appVars, srvVars, ring>>,
         Attached => Head(sent) \notin Surface(srvSurface)
  PROVE  IInv'
<1>1. /\ UNCHANGED <<appVisible, appSurface, producer, drawing, calling, reply>>
      /\ UNCHANGED <<srvSurface, consumer, shown, removed, inMap, named, created, ring>>
  BY DEF appVars, srvVars
<1>2. /\ sent' \in Seq(Keys)
      /\ Range(sent) = Range(sent') \cup {Head(sent)}
  BY SentArrives
<1>3. TypeOK'
  BY <1>1, <1>2 DEF IInv, TypeOK
<1>4. Attached' <=> Attached
  BY <1>1 DEF Attached
<1>5. SlotsAgree(producer)' /\ SlotsAgree(consumer)' /\ RingHoldsKeyOnce' /\ ServerOK' /\ ProducerOK'
  BY <1>1 DEF IInv, RingHoldsKeyOnce, ServerOK, ShownIsCurrent, ProducerOK
<1>6. CallsOK'
  <2>1. calling # "none" /\ reply # NoSurface =>
          \A i \in 1 .. Len(sent') : SurfaceOf(sent'[i]) < reply
    BY SentArrives
  <2>2. QED
    BY <1>1, <2>1 DEF IInv, CallsOK
<1>7. SentOK'
  BY <1>1, SentArrives DEF SentOK
<1>8. SentOnce'
  BY <1>1, <1>4, SentArrives DEF SentOnce
<1>9. StaleFirst'
  BY <1>1 DEF IInv, StaleFirst, Drawing
<1>10. AllInPlace'
  <2> SUFFICES ASSUME Drawing, NEW k \in Surface(created) PROVE InPlace(k)'
    BY <1>1, WhenDrawing DEF AllInPlace, Drawing
  <2>1. InPlace(k)
    BY WhenDrawing
  <2>2. /\ k \in Range(sent') => k \in Range(sent)
        /\ Attached => (k \in Range(sent') <=> k \in Range(sent))
    BY <1>2, WhenAttached
  <2>3. QED
    BY <1>1, <1>4, <2>1, <2>2 DEF InPlace
<1>11. QED
  BY <1>3, <1>5, <1>6, <1>7, <1>8, <1>9, <1>10 DEF IInv

(* A frame of the present surface is the only one that the server takes. *)
LEMMA WhatIsTaken ==
  ASSUME IInv, Arrives, srvSurface # NoSurface
  PROVE  LET k == Head(sent) IN
         /\ CanSync(consumer, k, "QUEUED") <=> SurfaceOf(k) = srvSurface
         /\ SurfaceOf(k) = srvSurface =>
              /\ Attached /\ k \in Surface(created) /\ producer.state[k] = "QUEUED" /\ k # shown
              /\ k \notin Range(ring)
<1> DEFINE k == Head(sent)
<1>1. /\ k \in Keys /\ k \in Range(sent) /\ SurfaceOf(k) \in Surfaces
      /\ calling # "none" => SurfaceOf(k) < srvSurface
  <2>1. calling # "none" => reply = srvSurface
    BY DEF IInv, CallsOK
  <2>2. QED
    BY <2>1, SentArrives
<1>2. srvSurface = created /\ srvSurface \in Surfaces /\ srvSurface \in Nat
  BY QueuesTyped, Zeros DEF IInv, ServerOK
<1>3. DOMAIN consumer.state = Surface(created) /\ consumer \in QueueType(Surface(created)) /\ SlotsAgree(consumer)
  BY <1>2, QueuesTyped DEF IInv
<1> HIDE DEF k
<1>4. k \in Surface(created) <=> SurfaceOf(k) = srvSurface
  BY <1>1, <1>2, KeysOfSurface DEF Surface
<1>5. ASSUME SurfaceOf(k) = srvSurface
      PROVE  /\ Attached /\ k \in Surface(created) /\ producer.state[k] = "QUEUED" /\ k # shown
             /\ k \notin Range(ring)
  <2>1. calling = "none"
    BY <1>1, <1>2, <1>5
  <2>2. Attached
    BY <2>1 DEF IInv, CallsOK, Attached
  <2>3. InPlace(k)
    BY <1>4, <1>5, <2>2, WhenAttached, WhenDrawing
  <2>4. QED
    BY <1>1, <1>4, <1>5, <2>2, <2>3 DEF InPlace
<1>6. CanSync(consumer, k, "QUEUED") <=> k \in Surface(created) /\ consumer.state[k] = "FREE"
  BY <1>3, FrameIsTakenIfFree
<1>7. SurfaceOf(k) = srvSurface => consumer.state[k] = "FREE"
  BY <1>3, <1>5 DEF IInv, ServerOK, ShownIsCurrent
<1>8. QED
  BY <1>4, <1>5, <1>6, <1>7 DEF k

(* It is shown, and the one before is released: the two queues of the server. *)
LEMMA ConsumerTakes ==
  ASSUME IInv, Arrives, srvSurface # NoSurface, SurfaceOf(Head(sent)) = srvSurface
  PROVE  LET k == Head(sent)
             c == SyncState(consumer, k, "QUEUED")
             r == Released(c) IN
         /\ shown # NoKey => CanMove(c, shown, "FREE")
         /\ r \in QueueType(Surface(created)) /\ SlotsAgree(r)
         /\ \A x \in Surface(created) : r.state[x] = IF x = k THEN "QUEUED" ELSE "FREE"
<1> DEFINE k == Head(sent)
           c == SyncState(consumer, k, "QUEUED")
           r == Released(c)
           K == Surface(created)
<1>1. CanSync(consumer, k, "QUEUED") /\ Attached /\ k \in K /\ k # shown
  BY WhatIsTaken
<1>2. DOMAIN consumer.state = K
  BY <1>1, WhenAttached
<1>3. consumer \in QueueType(K) /\ SlotsAgree(consumer)
  BY <1>2, QueuesTyped DEF IInv
<1>4. /\ shown # NoKey => shown \in K
      /\ \A x \in K : consumer.state[x] = (IF x = shown THEN "QUEUED" ELSE "FREE")
  BY <1>2 DEF IInv, ServerOK, ShownIsCurrent
<1>5. NoKey \notin K
  BY <1>1, WhenAttached
<1> HIDE DEF K, k
<1>6. /\ c \in QueueType(K) /\ SlotsAgree(c) 
      /\ \A x \in K : c.state[x] = IF x = k THEN "QUEUED" ELSE consumer.state[x]
  <2>1. c = SyncState(consumer, k, "QUEUED")
    OBVIOUS
  <2> HIDE DEF c
  <2>2. QED
    BY <1>1, <1>3, <2>1, FrameIsQueued
<1>7. r = IF shown # NoKey THEN ToState(c, shown, "FREE") ELSE c
  BY DEF Released
<1> HIDE DEF c, r
<1>8. \A x \in K : c.state[x] = IF x = k \/ x = shown THEN "QUEUED" ELSE "FREE"
  BY <1>2, <1>4, <1>6
<1>9. CASE shown = NoKey
  BY <1>5, <1>6, <1>7, <1>8, <1>9 DEF K, k, c, r
<1>10. CASE shown # NoKey
  <2>1. c.state[shown] = "QUEUED" /\ shown \in K
    BY <1>4, <1>8, <1>10
  <2>2. /\ CanMove(c, shown, "FREE") /\ r \in QueueType(K) /\ SlotsAgree(r)
        /\ \A x \in K : r.state[x] = IF x = shown THEN "FREE" ELSE c.state[x]
    <3>1. r = ToState(c, shown, "FREE")
      BY <1>7, <1>10
    <3>2. QED
      BY <1>6, <2>1, <3>1, FrameIsFreed
  <2>3. \A x \in K : r.state[x] = IF x = k THEN "QUEUED" ELSE "FREE"
    BY <1>1, <1>8, <2>2
  <2>4. QED
    BY <2>2, <2>3 DEF K, k, c, r
<1>11. QED
  BY <1>9, <1>10

(***************************************************************************)
(* A frame of the present surface arrives: it is shown, and the key of the *)
(* one before it goes to the ring.                                         *)
(***************************************************************************)
LEMMA FrameArrivesKeeps ==
  ASSUME IInv, Arrives, srvSurface # NoSurface, SurfaceOf(Head(sent)) = srvSurface,
         UpdateBuffer(Head(sent), SyncState(consumer, Head(sent), "QUEUED")),
         UNCHANGED <<appVars, srvSurface, removed, inMap, named, created>>
  PROVE  IInv'
<1> DEFINE K == Surface(created)
           k == Head(sent)
           c == SyncState(consumer, k, "QUEUED")
<1>1. /\ UNCHANGED <<appVisible, appSurface, producer, drawing, calling, reply>>
      /\ UNCHANGED <<srvSurface, removed, inMap, named, created>>
  BY DEF appVars
<1>2. shown' = k /\ consumer' = Released(c) /\ ring' = Returned(c)
  BY DEF UpdateBuffer
<1>3. Attached /\ k \in K /\ producer.state[k] = "QUEUED" /\ k # shown /\ k \notin Range(ring)
  BY WhatIsTaken
<1>4. /\ calling = "none" /\ srvSurface = created /\ created \in Surfaces /\ DOMAIN producer.state = K
      /\ K \subseteq Keys /\ NoKey \notin K
  BY <1>3, WhenAttached
<1>5. /\ shown # NoKey => CanMove(c, shown, "FREE")
      /\ consumer' \in QueueType(K) /\ SlotsAgree(consumer')
      /\ \A x \in K : consumer'.state[x] = IF x = k THEN "QUEUED" ELSE "FREE"
  <2>1. /\ shown # NoKey => CanMove(c, shown, "FREE")
        /\ Released(c) \in QueueType(K) /\ SlotsAgree(Released(c))
        /\ \A x \in K : Released(c).state[x] = IF x = k THEN "QUEUED" ELSE "FREE"
    BY ConsumerTakes
  <2> HIDE DEF K, k, c
  <2>2. SlotsAgree(consumer')
    BY <1>2, <2>1, Zenon
  <2>3. QED
    BY <1>2, <2>1, <2>2
<1>6. /\ sent' \in Seq(Keys)
      /\ k \in Range(sent) /\ Range(sent) = Range(sent') \cup {k} /\ k \notin Range(sent')
  BY <1>3, SentArrives
<1>7. /\ ring' \in Seq(Keys) /\ IsInjective(ring')
      /\ \A i \in 1 .. Len(ring') : SurfaceOf(ring'[i]) = created
      /\ shown = NoKey => ring' = ring
      /\ shown # NoKey => /\ ring' = Append(ring, shown)
                          /\ producer.state[shown] = "QUEUED" /\ shown \in K
                          /\ shown \notin Range(sent) /\ shown \notin Range(ring)
  <2> HIDE DEF c
  <2>1. QED
    BY <1>2, <1>5, ShownIsReturned
<1> HIDE DEF K, k, c
<1>8. DOMAIN consumer'.state = K
  BY <1>5 DEF QueueType
<1>9. ring \in Seq(Keys) /\ Range(ring') = IF shown = NoKey THEN Range(ring) ELSE Range(ring) \cup {shown}
  <2>1. ring \in Seq(Keys)
    BY QueuesTyped DEF IInv
  <2>2. CASE shown = NoKey
    BY <1>7, <2>1, <2>2
  <2>3. CASE shown # NoKey
    <3>1. ring' = Append(ring, shown) /\ shown \in Keys
      BY <1>4, <1>7, <2>3
    <3>2. QED
      BY <2>1, <2>3, <3>1, AppendTo
  <2>4. QED
    BY <2>2, <2>3
<1>10. TypeOK'
  <2>1. consumer' \in QueueType(DOMAIN consumer'.state)
    BY <1>5, <1>8
  <2>2. DOMAIN consumer'.state = IF srvSurface' \in Surfaces THEN Surface(srvSurface') ELSE {}
    BY <1>1, <1>4, <1>8 DEF K
  <2>3. shown' \in Keys \cup {NoKey}
    BY <1>2, <1>3, <1>4
  <2>4. QED
    BY <1>1, <1>6, <1>7, <2>1, <2>2, <2>3 DEF IInv, TypeOK, Surface
<1>11. Attached' <=> Attached
  BY <1>1 DEF Attached
<1>12. SlotsAgree(producer)' /\ SlotsAgree(consumer)' /\ ProducerOK'
  BY <1>1, <1>5 DEF IInv, ProducerOK
<1>13. RingHoldsKeyOnce'
  BY <1>1, <1>7 DEF RingHoldsKeyOnce
<1>14. ServerOK'
  <2>1. ShownIsCurrent'
    BY <1>2, <1>3, <1>5, <1>8 DEF ShownIsCurrent
  <2>2. QED
    BY <1>1, <2>1 DEF IInv, ServerOK
<1>15. CallsOK'
  BY <1>1, <1>4 DEF IInv, CallsOK
<1>16. SentOK'
  <2>1. \A i \in 1 .. Len(sent') : SurfaceOf(sent'[i]) = srvSurface
    <3>1. \A i \in 1 .. Len(sent') : /\ SurfaceOf(sent'[i]) \in Nat /\ SurfaceOf(sent'[i]) <= created
                                     /\ created <= SurfaceOf(sent'[i])
      BY <1>4, SentArrives, Zeros
    <3>2. created \in Nat
      BY <1>4, Zeros
    <3>3. QED
      BY <1>4, <3>1, <3>2
  <2>2. QED
    BY <1>1, <2>1, SentArrives DEF SentOK
<1>17. SentOnce'
  BY <1>1, <1>11, SentArrives DEF SentOnce
<1>18. StaleFirst'
  <2>1. PICK n \in 0 .. Len(ring) :
          /\ n <= Len(producer.free)
          /\ \A i \in 1 .. n : ring[i] = producer.free[i]
          /\ \A i \in n + 1 .. Len(ring) : producer.state[ring[i]] = "QUEUED"
    BY <1>3, WhenAttached DEF IInv, StaleFirst
  <2>2. CASE shown = NoKey
    BY <1>1, <1>7, <2>1, <2>2 DEF StaleFirst, Drawing
  <2>3. CASE shown # NoKey
    <3>1. /\ Len(ring') = Len(ring) + 1 /\ Len(ring) \in Nat
          /\ \A i \in 1 .. Len(ring) : ring'[i] = ring[i]
          /\ ring'[Len(ring) + 1] = shown
      BY <1>4, <1>7, <1>9, <2>3, AppendTo
    <3>2. n \in 0 .. Len(ring') /\ n \in Nat
      BY <2>1, <3>1
    <3>3. \A i \in 1 .. n : ring'[i] = producer.free[i]
      BY <2>1, <3>1
    <3>4. \A i \in n + 1 .. Len(ring') : producer.state[ring'[i]] = "QUEUED"
      <4>1. \A i \in n + 1 .. Len(ring') : i = Len(ring) + 1 \/ (i \in 1 .. Len(ring) /\ i \in n + 1 .. Len(ring))
        BY <3>1, <3>2
      <4>2. QED
        BY <1>7, <2>1, <2>3, <3>1, <4>1
    <3>5. QED
      BY <1>1, <2>1, <3>2, <3>3, <3>4 DEF StaleFirst, Drawing
  <2>4. QED
    BY <2>2, <2>3
<1>19. AllInPlace'
  <2> SUFFICES ASSUME NEW x \in K PROVE InPlace(x)'
    BY <1>1, <1>3, WhenAttached DEF AllInPlace, K
  <2>1. InPlace(x) /\ x # NoKey
    BY <1>3, <1>4, WhenAttached, WhenDrawing DEF K
  <2>2. CASE x = k
    <3>1. x # drawing
      BY <1>3, <2>1, <2>2 DEF InPlace
    <3>2. x \notin Range(ring')
      BY <1>3, <1>9, <2>2
    <3>3. QED
      BY <1>1, <1>2, <1>3, <1>6, <2>2, <3>1, <3>2 DEF InPlace
  <2>3. CASE x = shown /\ x # k
    <3>1. producer.state[x] = "QUEUED" /\ x \notin Range(sent) /\ x \in Range(ring')
      BY <1>7, <1>9, <2>1, <2>3
    <3>2. x \notin Range(sent') /\ x # drawing
      BY <1>6, <2>1, <3>1 DEF InPlace
    <3>3. QED
      BY <1>1, <1>2, <2>3, <3>1, <3>2 DEF InPlace
  <2>4. CASE x # shown /\ x # k
    <3>1. /\ x \in Range(ring') <=> x \in Range(ring)
          /\ x \in Range(sent') <=> x \in Range(sent)
      BY <1>6, <1>9, <2>4
    <3>2. QED
      BY <1>1, <1>2, <1>11, <2>1, <2>4, <3>1 DEF InPlace
  <2>5. QED
    BY <2>2, <2>3, <2>4
<1>20. QED
  BY <1>10, <1>12, <1>13, <1>14, <1>15, <1>16, <1>17, <1>18, <1>19 DEF IInv

(* With nothing shown, a clearing transaction clears nothing. *)
LEMMA ApplyTransactionKeeps ==
  ASSUME IInv, ApplyTransaction
  PROVE  IInv'
<1> DEFINE k == Head(sent)
<1>1. Arrives /\ UNCHANGED <<appVars, srvSurface, removed, inMap, named, created>>
  BY DEF ApplyTransaction
<1>2. CASE srvSurface = NoSurface /\ UNCHANGED <<consumer, shown, ring>>
  <2>1. UNCHANGED <<appVars, srvVars, ring>>
    BY <1>1, <1>2 DEF srvVars
  <2>2. ~Attached
    BY <1>2 DEF Attached
  <2>3. QED
    BY <1>1, <2>1, <2>2, StaleArrives
<1>3. CASE /\ srvSurface # NoSurface /\ CanSync(consumer, k, "QUEUED")
           /\ UpdateBuffer(k, SyncState(consumer, k, "QUEUED"))
  <2>1. SurfaceOf(k) = srvSurface
    BY <1>1, <1>3, WhatIsTaken
  <2>2. QED
    BY <1>1, <1>3, <2>1, FrameArrivesKeeps
<1>4. CASE srvSurface # NoSurface /\ ~CanSync(consumer, k, "QUEUED") /\ UpdateBuffer(NoKey, consumer)
  <2>1. SurfaceOf(k) # srvSurface /\ k \in Keys
    BY <1>1, <1>4, WhatIsTaken, SentArrives
  <2>2. shown = NoKey
    BY <1>1, <2>1, SentArrives
  <2>3. UNCHANGED <<appVars, srvVars, ring>>
    BY <1>1, <1>4, <2>2 DEF UpdateBuffer, Released, Returned, srvVars
  <2>4. Attached => k \notin Surface(srvSurface)
    BY <2>1, WhenAttached
  <2>5. QED
    BY <1>1, <2>3, <2>4, StaleArrives
<1>5. QED
  BY <1>2, <1>3, <1>4 DEF ApplyTransaction

(***************************************************************************)
(* The server has no surface any more: what the app still draws and sends  *)
(* is bound to nothing, until it asks for a surface again.                 *)
(***************************************************************************)
LEMMA SurfaceGone ==
  ASSUME IInv, srvSurface' = NoSurface, consumer' = NewQueue(NoIds), shown' = NoKey,
         named' \in {NoSurface, created}, ring' \in Seq(Keys),
         IsInjective(ring'), \A i \in 1 .. Len(ring') : SurfaceOf(ring'[i]) = created,
         UNCHANGED <<appSurface, producer, drawing, created, sent>>,
         appVisible' \in BOOLEAN, removed' \in BOOLEAN, inMap' \in BOOLEAN,
         calling' \in {"none", "setVisible", "onFrame"}, reply' \in Surfaces \cup {NoSurface},
         CallsOK', StaleFirst', AllInPlace'
  PROVE  IInv'
<1>1. /\ NewQueue(NoIds) \in QueueType({}) /\ SlotsAgree(NewQueue(NoIds)) /\ DOMAIN NewQueue(NoIds).state = {}
  BY Fresh
<1>2. NoSurface \notin Surfaces
  BY Zeros
<1>3. ~Attached'
  BY DEF Attached
<1>4. named' \in Surfaces \cup {NoSurface}
  <2>1. created \in Nat /\ created <= MaxSurfaces /\ MaxSurfaces \in Nat
    BY QueuesTyped DEF IInv
  <2>2. QED
    BY <2>1 DEF Surfaces, NoSurface
<1>5. TypeOK'
  BY <1>1, <1>2, <1>4 DEF IInv, TypeOK
<1>6. SlotsAgree(producer)' /\ SlotsAgree(consumer)' /\ ProducerOK'
  BY <1>1 DEF IInv, ProducerOK
<1>7. RingHoldsKeyOnce'
  BY DEF RingHoldsKeyOnce
<1>8. ServerOK'
  BY <1>1 DEF ServerOK, ShownIsCurrent
<1>9. SentOK'
  BY DEF IInv, SentOK
<1>10. SentOnce'
  BY <1>3 DEF SentOnce
<1>11. QED
  BY <1>5, <1>6, <1>7, <1>8, <1>9, <1>10 DEF IInv

(* The app goes on with the buffers it has, and with the keys still in the ring. *)
LEMMA AppGoesOn ==
  ASSUME IInv, srvSurface' = NoSurface, shown' = NoKey, ring' \in Seq(Keys),
         UNCHANGED <<appSurface, producer, drawing, calling, created, sent>>,
         Drawing => \/ ring' = ring
                    \/ shown # NoKey /\ ring' = Append(ring, shown) /\ producer.state[shown] = "QUEUED"
                       /\ shown \in Keys /\ shown \notin Range(sent)
  PROVE  StaleFirst' /\ AllInPlace'
<1>1. CASE ~Drawing
  BY <1>1 DEF StaleFirst, AllInPlace, Drawing
<1>2. CASE Drawing
  <2>1. Drawing' /\ ~Attached' /\ ring \in Seq(Keys)
    BY <1>2, QueuesTyped DEF Drawing, Attached, IInv
  <2>2. PICK n \in 0 .. Len(ring) :
          /\ n <= Len(producer.free)
          /\ \A i \in 1 .. n : ring[i] = producer.free[i]
          /\ \A i \in n + 1 .. Len(ring) : producer.state[ring[i]] = "QUEUED"
    BY <1>2 DEF IInv, StaleFirst
  <2>3. CASE ring' = ring
    <3>1. StaleFirst'
      BY <2>2, <2>3 DEF StaleFirst
    <3>2. AllInPlace'
      <4> SUFFICES ASSUME NEW k \in Surface(created) PROVE InPlace(k)'
        BY <1>2, WhenDrawing DEF AllInPlace
      <4>1. InPlace(k) /\ k # NoKey
        BY <1>2, WhenDrawing
      <4>2. QED
        BY <2>1, <2>3, <4>1 DEF InPlace
    <3>3. QED
      BY <3>1, <3>2
  <2>4. CASE shown # NoKey /\ ring' = Append(ring, shown) /\ producer.state[shown] = "QUEUED"
             /\ shown \in Keys /\ shown \notin Range(sent)
    <3>1. /\ Len(ring') = Len(ring) + 1 /\ Len(ring) \in Nat
          /\ \A i \in 1 .. Len(ring) : ring'[i] = ring[i]
          /\ ring'[Len(ring) + 1] = shown
          /\ Range(ring') = Range(ring) \cup {shown}
      BY <2>1, <2>4, AppendTo
    <3>2. StaleFirst'
      <4>1. n \in 0 .. Len(ring') /\ n \in Nat
        BY <2>2, <3>1
      <4>2. \A i \in 1 .. n : ring'[i] = producer.free[i]
        BY <2>2, <3>1
      <4>3. \A i \in n + 1 .. Len(ring') : i = Len(ring) + 1 \/ (i \in 1 .. Len(ring) /\ i \in n + 1 .. Len(ring))
        BY <3>1, <4>1
      <4>4. \A i \in n + 1 .. Len(ring') : producer.state[ring'[i]] = "QUEUED"
        BY <2>2, <2>4, <3>1, <4>3
      <4>5. QED
        BY <2>2, <4>1, <4>2, <4>4 DEF StaleFirst
    <3>3. AllInPlace'
      <4> SUFFICES ASSUME NEW k \in Surface(created) PROVE InPlace(k)'
        BY <1>2, WhenDrawing DEF AllInPlace
      <4>1. InPlace(k) /\ k # NoKey
        BY <1>2, WhenDrawing
      <4>2. CASE k = shown
        BY <2>1, <2>4, <4>1, <4>2 DEF InPlace
      <4>3. CASE k # shown
        <5>1. k \in Range(ring') <=> k \in Range(ring)
          BY <3>1, <4>3
        <5>2. QED
          BY <2>1, <4>1, <5>1 DEF InPlace
      <4>4. QED
        BY <4>2, <4>3
    <3>4. QED
      BY <3>2, <3>3
  <2>5. QED
    BY <1>2, <2>3, <2>4
<1>3. QED
  BY <1>1, <1>2

(* destroySurfaceControl: the last release still finds its buffer. *)
LEMMA LastRelease ==
  ASSUME IInv, DestroySurface
  PROVE  /\ srvSurface' = NoSurface /\ named' = NoSurface /\ consumer' = NewQueue(NoIds) /\ shown' = NoKey
         /\ ring' \in Seq(Keys) /\ IsInjective(ring')
         /\ \A i \in 1 .. Len(ring') : SurfaceOf(ring'[i]) = created
         /\ shown = NoKey => ring' = ring
         /\ shown # NoKey => /\ ring' = Append(ring, shown) /\ shown \in Surface(created)
                             /\ producer.state[shown] = "QUEUED" /\ shown \notin Range(sent)
<1>1. shown # NoKey => CanMove(consumer, shown, "FREE")
  <2>1. SUFFICES ASSUME shown # NoKey PROVE CanMove(consumer, shown, "FREE")
    OBVIOUS
  <2>2. shown \in DOMAIN consumer.state /\ consumer.state[shown] = "QUEUED"
    BY <2>1 DEF IInv, ServerOK, ShownIsCurrent
  <2>3. QED
    BY <2>2 DEF IInv, SlotsAgree, CanMove
<1>2. ring' = Returned(consumer)
  BY DEF DestroySurface
<1>3. QED
  BY <1>1, <1>2, ShownIsReturned DEF DestroySurface, UninitSurfaceBuffer

(***************************************************************************)
(* relayout, while the app waits for it.                                   *)
(***************************************************************************)
LEMMA RelayoutKeeps ==
  ASSUME IInv, Idle, NEW visible, Relayout(visible), calling' \in {"setVisible", "onFrame"},
         appVisible' \in BOOLEAN, UNCHANGED <<appSurface, producer, drawing>>
  PROVE  IInv'
<1>1. calling = "none" /\ drawing = NoKey /\ calling' # "none"
  BY DEF Idle
<1>2. UNCHANGED <<removed, inMap, sent>> /\ reply' = IF inMap THEN srvSurface' ELSE NoSurface
  BY DEF Relayout
<1>3. removed \in BOOLEAN /\ inMap \in BOOLEAN
  BY Zenon DEF IInv, TypeOK
<1>4. CASE inMap /\ DestroySurface /\ UNCHANGED created
  <2>1. /\ srvSurface' = NoSurface /\ named' = NoSurface /\ consumer' = NewQueue(NoIds) /\ shown' = NoKey
        /\ ring' \in Seq(Keys) /\ IsInjective(ring')
        /\ \A i \in 1 .. Len(ring') : SurfaceOf(ring'[i]) = created
    BY <1>4, LastRelease
  <2>2. reply' = NoSurface /\ created' = created
    BY <1>2, <1>4, <2>1
  <2>3. CallsOK' /\ StaleFirst' /\ AllInPlace'
    BY <1>1, <2>1, <2>2 DEF CallsOK, StaleFirst, AllInPlace, Drawing
  <2>4. reply' \in Surfaces \cup {NoSurface}
    BY <2>2
  <2>5. QED
    BY <1>1, <1>2, <1>3, <2>1, <2>2, <2>3, <2>4, SurfaceGone
<1>5. CASE ~inMap /\ UNCHANGED <<srvSurface, consumer, shown, ring, named, created>>
  <2>1. srvSurface = NoSurface
    BY <1>5 DEF IInv, ServerOK
  <2>2. reply' = NoSurface
    BY <1>2, <1>5
  <2>3. ~Attached /\ ~Attached'
    BY <1>5, <2>1 DEF Attached
  <2>4. TypeOK'
    BY <1>2, <1>5, <2>2 DEF IInv, TypeOK
  <2>5. SlotsAgree(producer)' /\ SlotsAgree(consumer)' /\ ProducerOK' /\ RingHoldsKeyOnce' /\ SentOK'
    BY <1>2, <1>5 DEF IInv, ProducerOK, RingHoldsKeyOnce, SentOK
  <2>6. ServerOK'
    BY <1>2, <1>5 DEF IInv, ServerOK, ShownIsCurrent
  <2>7. CallsOK'
    BY <1>1, <1>5, <2>1, <2>2 DEF CallsOK
  <2>8. SentOnce' /\ StaleFirst' /\ AllInPlace'
    BY <1>1, <2>3 DEF SentOnce, StaleFirst, AllInPlace, Drawing
  <2>9. QED
    BY <2>4, <2>5, <2>6, <2>7, <2>8 DEF IInv
<1>6. CASE inMap /\ CreateSurface
  <2> DEFINE s == created + 1
  <2>1. /\ created \in Nat /\ s \in Surfaces /\ s \in Nat /\ s # NoSurface /\ created < s /\ s <= MaxSurfaces
    BY <1>6, QueuesTyped DEF IInv, CreateSurface, Surfaces, NoSurface
  <2>2. /\ created' = s /\ srvSurface' = s /\ named' = s /\ reply' = s /\ shown' = NoKey
        /\ consumer' = NewQueue(IdsOf(s)) /\ ring' = IdsOf(s)
    BY <1>2, <1>6 DEF CreateSurface, FilledRing
  <2> HIDE DEF s
  <2>3. /\ consumer' \in QueueType(Surface(s)) /\ SlotsAgree(consumer') /\ DOMAIN consumer'.state = Surface(s)
        /\ \A k \in Surface(s) : consumer'.state[k] = "FREE"
    <3>1. LET q == NewQueue(IdsOf(s)) IN
          /\ q \in QueueType(Surface(s)) /\ SlotsAgree(q) /\ DOMAIN q.state = Surface(s)
          /\ \A k \in Surface(s) : q.state[k] = "FREE"
      BY <2>1, Fresh
    <3>2. SlotsAgree(consumer')
      BY <2>2, <3>1, Zenon
    <3>3. QED
      BY <2>2, <3>1, <3>2
  <2>4. ring' \in Seq(Keys) /\ IsInjective(ring') /\ Range(IdsOf(s)) \subseteq Keys /\ NoKey \notin Surface(s)
    BY <2>1, <2>2, IdsTyped, Zeros DEF Surface
  <2>5. \A i \in 1 .. Len(ring') : SurfaceOf(ring'[i]) = s
    <3>1. \A i \in 1 .. Len(ring') : ring'[i] \in Range(ring') /\ ring'[i] \in Keys
      BY <2>4, RangeOf
    <3>2. QED
      BY <2>1, <2>2, <3>1, KeysOfSurface
  <2>6. appSurface # s
    BY <1>1, <2>1 DEF IInv, CallsOK
  <2>7. ~Attached'
    BY <2>2, <2>6 DEF Attached
  <2>8. TypeOK'
    <3>1. created' \in 0 .. MaxSurfaces
      BY <2>1, <2>2, BoundAssumption
    <3>2. consumer' \in QueueType(DOMAIN consumer'.state)
      BY <2>3
    <3>3. DOMAIN consumer'.state = IF srvSurface' \in Surfaces THEN Surface(srvSurface') ELSE {}
      BY <2>1, <2>2, <2>3
    <3>4. QED
      BY <1>2, <2>1, <2>2, <2>4, <3>1, <3>2, <3>3 DEF IInv, TypeOK, Surface
  <2>9. SlotsAgree(producer)' /\ SlotsAgree(consumer)' /\ ProducerOK'
    BY <2>3 DEF IInv, ProducerOK
  <2>10. RingHoldsKeyOnce'
    BY <2>2, <2>4, <2>5 DEF RingHoldsKeyOnce
  <2>11. ServerOK'
    <3>1. ShownIsCurrent'
      BY <2>2, <2>3, <2>4 DEF ShownIsCurrent
    <3>2. QED
      BY <1>2, <1>6, <2>2, <3>1 DEF ServerOK
  <2>12. \A i \in 1 .. Len(sent) : SurfaceOf(sent[i]) \in Nat /\ SurfaceOf(sent[i]) <= created
    <3>1. sent \in Seq(Keys)
      BY QueuesTyped DEF IInv
    <3>2. QED
      BY <3>1, RangeOf, KeysOfSurface, Zeros DEF IInv, SentOK
  <2>13. CallsOK'
    <3>1. \A i \in 1 .. Len(sent) : SurfaceOf(sent[i]) < s
      BY <2>1, <2>12
    <3>2. QED
      BY <1>1, <1>2, <2>1, <2>2, <2>6, <3>1 DEF CallsOK
  <2>14. SentOK'
    <3>1. \A i \in 1 .. Len(sent) : SurfaceOf(sent[i]) <= s
      BY <2>1, <2>12
    <3>2. QED
      BY <1>2, <2>2, <3>1 DEF IInv, SentOK
  <2>15. SentOnce' /\ StaleFirst' /\ AllInPlace'
    BY <1>1, <2>7 DEF SentOnce, StaleFirst, AllInPlace, Drawing
  <2>16. QED
    BY <2>8, <2>9, <2>10, <2>11, <2>13, <2>14, <2>15 DEF IInv
<1>7. QED
  BY <1>4, <1>5, <1>6 DEF Relayout

(* The steps that call relayout. *)
LEMMA SetVisibleKeeps ==
  ASSUME IInv, NEW visible \in BOOLEAN, SetVisible(visible)
  PROVE  IInv'
BY RelayoutKeeps DEF SetVisible

LEMMA FrameWithoutSurfaceKeeps ==
  ASSUME IInv, FrameWithoutSurface
  PROVE  IInv'
<1>1. appVisible \in BOOLEAN
  BY Zenon DEF IInv, TypeOK
<1>2. QED
  BY <1>1, RelayoutKeeps DEF FrameWithoutSurface

(* The server lets the window go, and cleans up. *)
LEMMA RemoveKeeps ==
  ASSUME IInv, Remove
  PROVE  IInv'
<1>1. /\ srvSurface' = NoSurface /\ named' = NoSurface /\ consumer' = NewQueue(NoIds) /\ shown' = NoKey
      /\ ring' \in Seq(Keys) /\ IsInjective(ring')
      /\ \A i \in 1 .. Len(ring') : SurfaceOf(ring'[i]) = created
      /\ shown = NoKey => ring' = ring
      /\ shown # NoKey => /\ ring' = Append(ring, shown) /\ shown \in Surface(created)
                          /\ producer.state[shown] = "QUEUED" /\ shown \notin Range(sent)
  BY LastRelease DEF Remove
<1>2. /\ UNCHANGED <<appVisible, appSurface, producer, drawing, calling, reply, inMap, created, sent>>
      /\ removed' = TRUE
  BY DEF Remove, appVars
<1>3. appVisible \in BOOLEAN /\ inMap \in BOOLEAN
  BY Zenon DEF IInv, TypeOK
<1>4. calling \in {"none", "setVisible", "onFrame"} /\ reply \in Surfaces \cup {NoSurface}
  BY QueuesTyped DEF IInv
<1>5. CallsOK'
  BY <1>1, <1>2 DEF IInv, CallsOK
<1>6. Drawing => Surface(created) \subseteq Keys
  BY WhenDrawing
<1>7. StaleFirst' /\ AllInPlace'
  BY <1>1, <1>2, <1>6, AppGoesOn
<1>8. QED
  BY <1>1, <1>2, <1>3, <1>4, <1>5, <1>7, SurfaceGone

LEMMA RemoveCleanupKeeps ==
  ASSUME IInv, RemoveCleanup
  PROVE  IInv'
<1>1. /\ UNCHANGED <<appVisible, appSurface, producer, drawing, calling, reply, removed, named, created, sent>>
      /\ srvSurface' = NoSurface /\ consumer' = NewQueue(NoIds) /\ shown' = NoKey /\ inMap' = FALSE
      /\ ring' = IF appSurface = created THEN ring ELSE NoIds
  BY DEF RemoveCleanup, appVars
<1>2. appVisible \in BOOLEAN /\ removed \in BOOLEAN
  BY Zenon DEF IInv, TypeOK
<1>3. calling \in {"none", "setVisible", "onFrame"} /\ reply \in Surfaces \cup {NoSurface} /\ ring \in Seq(Keys)
  BY QueuesTyped DEF IInv
<1>4. CallsOK'
  BY <1>1 DEF IInv, CallsOK
<1>5. named \in {NoSurface, created}
  BY DEF IInv, ServerOK
<1>6. /\ ring' \in Seq(Keys) /\ IsInjective(ring')
      /\ \A i \in 1 .. Len(ring') : SurfaceOf(ring'[i]) = created
  <2>1. CASE appSurface = created
    BY <1>1, <1>3, <2>1 DEF IInv, RingHoldsKeyOnce
  <2>2. CASE appSurface # created
    BY <1>1, <2>2, NoneIn DEF NoIds
  <2>3. QED
    BY <2>1, <2>2
<1>7. Drawing => ring' = ring
  BY <1>1, WhenDrawing
<1>8. StaleFirst' /\ AllInPlace'
  BY <1>1, <1>6, <1>7, AppGoesOn
<1>9. QED
  BY <1>1, <1>2, <1>3, <1>4, <1>5, <1>6, <1>8, SurfaceGone

(***************************************************************************)
(* relayout returns.  A surface the server still has is opened with every  *)
(* key in the ring, as the server has left it; any other surface leaves    *)
(* the ring alone.                                                         *)
(***************************************************************************)
LEMMA RingIsLeft ==
  ASSUME IInv, RelayoutReturns
  PROVE  ring' = ring
<1>1. CASE OpenSurface
  <2>1. CASE reply = srvSurface
    <3>1. srvSurface # NoSurface /\ calling # "none" /\ reply = named
      BY <1>1, <2>1 DEF OpenSurface, RelayoutReturns
    <3>2. ring = IdsOf(reply)
      BY <2>1, <3>1 DEF IInv, CallsOK
    <3>3. QED
      BY <1>1, <2>1, <3>2 DEF OpenSurface, FilledRing
  <2>2. CASE reply # srvSurface
    BY <1>1, <2>2 DEF OpenSurface
  <2>3. QED
    BY <2>1, <2>2
<1>2. CASE NoSurfaceToOpen
  BY <1>2 DEF NoSurfaceToOpen
<1>3. QED
  BY <1>1, <1>2 DEF RelayoutReturns

(* The app takes up the surface in the reply, or none. *)
LEMMA RelayoutReturnsKeeps ==
  ASSUME IInv, RelayoutReturns
  PROVE  IInv'
<1>1. /\ calling # "none" /\ calling' = "none" /\ reply' = NoSurface
      /\ UNCHANGED <<appVisible, drawing, sent>>
      /\ UNCHANGED <<srvSurface, consumer, shown, removed, inMap, named, created>>
  BY DEF RelayoutReturns, srvVars
<1>2. ring' = ring /\ ring \in Seq(Keys) /\ sent \in Seq(Keys)
  BY RingIsLeft, QueuesTyped DEF IInv
<1>3. drawing = NoKey /\ reply \in {NoSurface, created}
  BY <1>1 DEF IInv, CallsOK
<1>4. SlotsAgree(consumer)' /\ RingHoldsKeyOnce' /\ ServerOK' /\ SentOK'
  BY <1>1, <1>2 DEF IInv, RingHoldsKeyOnce, ServerOK, ShownIsCurrent, SentOK
<1>5. NoSurface \notin Surfaces /\ Invalid \notin Surfaces
  BY Zeros
<1>6. CASE NoSurfaceToOpen
  <2>1. srvSurface = NoSurface
    BY <1>1, <1>6 DEF NoSurfaceToOpen, IInv, CallsOK, ServerOK
  <2>2. appSurface' \in {NoSurface, Invalid} /\ producer' = NewQueue(NoIds)
    BY <1>6 DEF NoSurfaceToOpen
  <2>3. producer' \in QueueType({}) /\ SlotsAgree(producer') /\ DOMAIN producer'.state = {}
    <3>1. NewQueue(NoIds) \in QueueType({}) /\ SlotsAgree(NewQueue(NoIds)) /\ DOMAIN NewQueue(NoIds).state = {}
      BY Fresh
    <3>2. SlotsAgree(producer')
      BY <2>2, <3>1, Zenon
    <3>3. QED
      BY <2>2, <3>1, <3>2
  <2>4. ~Attached'
    BY <1>1, <2>1 DEF Attached
  <2>5. TypeOK'
    BY <1>1, <1>2, <1>5, <2>2, <2>3 DEF IInv, TypeOK
  <2>6. CallsOK'
    BY <1>1, <1>5, <2>1, <2>2 DEF CallsOK
  <2>7. ProducerOK'
    BY <1>1, <1>3, <2>3 DEF ProducerOK
  <2>8. SentOnce' /\ StaleFirst' /\ AllInPlace'
    BY <1>5, <2>2, <2>4 DEF SentOnce, StaleFirst, AllInPlace, Drawing
  <2>9. QED
    BY <1>4, <2>3, <2>5, <2>6, <2>7, <2>8 DEF IInv
<1>7. CASE OpenSurface
  <2>1. reply = created /\ created # NoSurface /\ appSurface' = created /\ producer' = NewQueue(IdsOf(created))
    BY <1>3, <1>7 DEF OpenSurface
  <2>2. created \in Surfaces
    BY <2>1, QueuesTyped DEF IInv
  <2>3. /\ producer' \in QueueType(Surface(created)) /\ SlotsAgree(producer')
        /\ DOMAIN producer'.state = Surface(created) /\ producer'.free = IdsOf(created)
        /\ \A k \in Surface(created) : producer'.state[k] = "FREE"
    <3>1. LET q == NewQueue(IdsOf(created)) IN
          /\ q \in QueueType(Surface(created)) /\ SlotsAgree(q) /\ DOMAIN q.state = Surface(created)
          /\ q.free = IdsOf(created) /\ \A k \in Surface(created) : q.state[k] = "FREE"
      BY <2>2, Fresh
    <3>2. SlotsAgree(producer')
      BY <2>1, <3>1, Zenon
    <3>3. QED
      BY <2>1, <3>1, <3>2
  <2>4. Surface(created) \subseteq Keys /\ NoKey \notin Surface(created) /\ Len(IdsOf(created)) \in Nat
    BY <2>2, IdsTyped, Zeros, CountAssumption DEF Surface
  <2>5. TypeOK'
    <3>1. producer' \in QueueType(DOMAIN producer'.state)
      BY <2>3
    <3>2. DOMAIN producer'.state = IF appSurface' \in Surfaces THEN Surface(appSurface') ELSE {}
      BY <2>1, <2>2, <2>3
    <3>3. QED
      BY <1>1, <1>2, <2>1, <2>2, <3>1, <3>2 DEF IInv, TypeOK, Surface
  <2>6. srvSurface # NoSurface => srvSurface = created
    BY DEF IInv, ServerOK
  <2>7. CallsOK'
    BY <1>1, <2>1, <2>6 DEF CallsOK
  <2>8. ProducerOK'
    BY <1>1, <1>3, <2>3, <2>4 DEF ProducerOK
  <2>9. /\ ring = IF srvSurface = NoSurface THEN NoIds ELSE IdsOf(created)
        /\ shown = NoKey
        /\ \A i \in 1 .. Len(sent) : SurfaceOf(sent[i]) # created
    <3>1. reply # NoSurface /\ reply = named
      BY <1>7 DEF OpenSurface
    <3>2. /\ ring = IF srvSurface = NoSurface THEN NoIds ELSE IdsOf(created)
          /\ \A i \in 1 .. Len(sent) : SurfaceOf(sent[i]) < created
      BY <1>1, <2>1, <3>1 DEF IInv, CallsOK
    <3>3. created \in Nat /\ \A i \in 1 .. Len(sent) : SurfaceOf(sent[i]) \in Nat
      BY <1>2, <2>2, RangeOf, KeysOfSurface, Zeros
    <3>4. shown = NoKey
      BY <1>1, ShownAttached, WhenAttached
    <3>5. QED
      BY <3>2, <3>3, <3>4
  <2>10. SentOnce'
    <3>1. Attached' => srvSurface = created
      BY <1>1, <2>1 DEF Attached
    <3>2. QED
      BY <1>1, <2>9, <3>1 DEF SentOnce
  <2>11. StaleFirst'
    <3>1. /\ Len(ring) \in Nat /\ Len(ring) <= Len(producer'.free)
          /\ \A i \in 1 .. Len(ring) : ring[i] = producer'.free[i]
      <4>1. CASE srvSurface = NoSurface
        BY <2>3, <2>4, <2>9, <4>1, NoneIn DEF NoIds
      <4>2. CASE srvSurface # NoSurface
        BY <2>3, <2>4, <2>9, <4>2
      <4>3. QED
        BY <4>1, <4>2
    <3> DEFINE n == Len(ring)
    <3>2. n \in 0 .. n /\ \A i \in n + 1 .. n : FALSE
      BY <3>1
    <3>3. n <= Len(producer'.free) /\ \A i \in 1 .. n : ring[i] = producer'.free[i]
      BY <3>1
    <3> HIDE DEF n
    <3>4. n = Len(ring)
      BY DEF n
    <3>5. QED
      BY <1>2, <3>2, <3>3, <3>4 DEF StaleFirst
  <2>12. AllInPlace'
    <3> SUFFICES ASSUME NEW k \in Surface(created) PROVE InPlace(k)'
      BY <2>1 DEF AllInPlace
    <3>1. k \notin Range(sent)
      <4>1. SurfaceOf(k) = created
        BY <2>2, <2>4, KeysOfSurface DEF Surface
      <4>2. QED
        BY <1>2, <2>9, <4>1, RangeOf
    <3>2. k # shown /\ k # drawing
      BY <1>3, <2>4, <2>9
    <3>3. QED
      BY <1>1, <2>3, <3>1, <3>2 DEF InPlace
  <2>13. QED
    BY <1>4, <2>3, <2>5, <2>7, <2>8, <2>10, <2>11, <2>12 DEF IInv
<1>8. QED
  BY <1>6, <1>7 DEF RelayoutReturns

-----------------------------------------------------------------------------
(* Init and every step of SurfaceBuffers. *)
LEMMA InitHolds == Init => IInv
<1> SUFFICES ASSUME Init PROVE IInv
  OBVIOUS
<1>1. /\ appVisible = FALSE /\ appSurface = NoSurface /\ producer = NewQueue(NoIds)
      /\ drawing = NoKey /\ calling = "none" /\ reply = NoSurface
      /\ srvSurface = NoSurface /\ consumer = NewQueue(NoIds) /\ shown = NoKey
      /\ removed = FALSE /\ inMap = TRUE /\ named = NoSurface /\ created = 0
      /\ ring = << >> /\ sent = << >>
  BY DEF Init, NoIds
<1>2. NewQueue(NoIds) \in QueueType({}) /\ SlotsAgree(NewQueue(NoIds)) /\ DOMAIN NewQueue(NoIds).state = {}
  BY Fresh
<1>3. NoSurface \notin Surfaces /\ ~Attached /\ ~Drawing
  BY <1>1, Zeros DEF Attached, Drawing
<1>4. IsInjective(<< >>) /\ Len(<< >>) = 0 /\ << >> \in Seq(Keys)
  BY NoneIn
<1>5. TypeOK
  <2>1. created \in 0 .. MaxSurfaces
    BY <1>1, BoundAssumption
  <2>2. QED
    BY <1>1, <1>2, <1>3, <1>4, <2>1 DEF TypeOK
<1>6. SlotsAgree(producer) /\ SlotsAgree(consumer)
  BY <1>1, <1>2, Zenon
<1>7. ServerOK /\ CallsOK /\ ProducerOK
  BY <1>1, <1>2, <1>3 DEF ServerOK, ShownIsCurrent, CallsOK, ProducerOK
<1>8. SentOK /\ RingHoldsKeyOnce
  BY <1>1, <1>4 DEF SentOK, RingHoldsKeyOnce
<1>9. SentOnce /\ StaleFirst /\ AllInPlace
  BY <1>3 DEF SentOnce, StaleFirst, AllInPlace
<1>10. QED
  BY <1>5, <1>6, <1>7, <1>8, <1>9 DEF IInv

LEMMA StutterKeeps ==
  ASSUME IInv, UNCHANGED vars
  PROVE  IInv'
<1>1. /\ UNCHANGED <<appVisible, appSurface, producer, drawing, calling, reply>>
      /\ UNCHANGED <<srvSurface, consumer, shown, removed, inMap, named, created, ring, sent>>
  BY DEF vars, appVars, srvVars
<1>2. (Attached' <=> Attached) /\ (Drawing' <=> Drawing)
  BY <1>1 DEF Attached, Drawing
<1>3. TypeOK' /\ SlotsAgree(producer)' /\ SlotsAgree(consumer)' /\ ServerOK' /\ CallsOK' /\ ProducerOK'
  BY <1>1 DEF IInv, TypeOK, ServerOK, ShownIsCurrent, CallsOK, ProducerOK
<1>4. SentOK' /\ SentOnce' /\ StaleFirst' /\ RingHoldsKeyOnce' /\ AllInPlace'
  BY <1>1, <1>2 DEF IInv, SentOK, SentOnce, StaleFirst, RingHoldsKeyOnce, AllInPlace, InPlace
<1>5. QED
  BY <1>3, <1>4 DEF IInv

LEMMA NextKeeps == IInv /\ [Next]_vars => IInv'
<1> SUFFICES ASSUME IInv, [Next]_vars PROVE IInv'
  OBVIOUS
<1>1. ASSUME NEW visible \in BOOLEAN, SetVisible(visible) PROVE IInv'
  BY <1>1, SetVisibleKeeps
<1>2. CASE FrameWithoutSurface
  BY <1>2, FrameWithoutSurfaceKeeps
<1>3. CASE RelayoutReturns
  BY <1>3, RelayoutReturnsKeeps
<1>4. CASE FrameBegin
  BY <1>4, FrameBeginKeeps
<1>5. CASE FrameCancel
  BY <1>5, FrameCancelKeeps
<1>6. CASE FrameSend
  BY <1>6, FrameSendKeeps
<1>7. CASE ApplyTransaction
  BY <1>7, ApplyTransactionKeeps
<1>8. CASE Remove
  BY <1>8, RemoveKeeps
<1>9. CASE RemoveCleanup
  BY <1>9, RemoveCleanupKeeps
<1>10. CASE UNCHANGED vars
  BY <1>10, StutterKeeps
<1>11. QED
  BY <1>1, <1>2, <1>3, <1>4, <1>5, <1>6, <1>7, <1>8, <1>9, <1>10 DEF Next

(* IInv holds in every state that SurfaceBuffers reaches. *)
THEOREM Invariance == Spec => []IInv
<1>1. QED
  BY InitHolds, NextKeeps, PTL DEF Spec

(***************************************************************************)
(* The states of both processes, of the ring and of the transactions       *)
(* between them keep their types, for any number of buffers and surfaces.  *)
(***************************************************************************)
THEOREM TypeCorrect == Spec => []TypeOK
<1>1. IInv => TypeOK
  BY DEF IInv
<1>2. QED
  BY <1>1, Invariance, PTL

(***************************************************************************)
(* Every buffer of a surface that both processes have is in one place:     *)
(* free, being drawn, in a transaction, shown or in the ring.  No buffer   *)
(* is drawn into while it is shown, and none is lost, whatever relayouts   *)
(* and removals cross the transactions on their way.                       *)
(***************************************************************************)
THEOREM OnePlaceEach == Spec => []EveryBufferInOnePlace
<1>1. IInv => EveryBufferInOnePlace
  BY PlacesAgree
<1>2. QED
  BY <1>1, Invariance, PTL

(***************************************************************************)
(* WindowNode never keeps a buffer of a consumer that relayout or a        *)
(* removal has replaced.                                                   *)
(***************************************************************************)
THEOREM ShownStaysCurrent == Spec => []ShownIsCurrent
<1>1. IInv => ShownIsCurrent
  BY DEF IInv, ServerOK
<1>2. QED
  BY <1>1, Invariance, PTL

(***************************************************************************)
(* WindowState::releaseBuffer writes no key to the ring that is in it,     *)
(* which is all that keeps write() from overrunning it.                    *)
(***************************************************************************)
THEOREM KeysAreInTheRingOnce == Spec => []RingHoldsKeyOnce
<1>1. IInv => RingHoldsKeyOnce
  BY DEF IInv
<1>2. QED
  BY <1>1, Invariance, PTL

(***************************************************************************)
(* FakeFmq::create in the app, which fills the ring once more, erases no   *)
(* key that the server has released.                                       *)
(***************************************************************************)
THEOREM RefillIsHarmless == Spec => RefillErasesNothing
<1>1. IInv /\ [Next]_vars => [calling # "none" /\ calling' = "none" => ring' = ring]_vars
  <2> SUFFICES ASSUME IInv, Next, calling # "none", calling' = "none" PROVE ring' = ring
    OBVIOUS
  <2>1. RelayoutReturns
    BY DEF Next, SetVisible, FrameWithoutSurface, FrameBegin, FrameCancel, FrameSend, ApplyTransaction,
           Remove, RemoveCleanup, appVars
  <2>2. QED
    BY <2>1, RingIsLeft
<1>2. QED
  BY <1>1, Invariance, PTL DEF Spec, RefillErasesNothing

(***************************************************************************)
(* What BuffersComeBack comes to in every state: an app that has no free   *)
(* buffer either gets one with the next key it reads, or has a frame on    *)
(* its way, with which the server gives back the one it shows.  There are  *)
(* two buffers at least, so not every one of them is shown.                *)
(***************************************************************************)
StarvedIsServed == Starved => IF ring # << >> THEN CanDequeue(Synced) ELSE sent # << >>

LEMMA KeyFreesBuffer ==
  ASSUME NEW K, NEW q \in QueueType(K), SlotsAgree(q), NEW k \in K, q.state[k] = "QUEUED"
  PROVE  CanDequeue(SyncState(q, k, "FREE"))
<1>1. PICK p : p = SyncState(q, k, "FREE")
  OBVIOUS
<1>2. DOMAIN q.state = K /\ CanSync(q, k, "FREE") /\ "FREE" \in BufferState
  BY DEF QueueType, SlotsAgree, CanSync, CanMove, BufferState
<1>3. p = Moved(q, k, "FREE")
  BY <1>1, <1>2 DEF SyncState
<1>4. p \in QueueType(K) /\ SlotsAgree(p)
  BY <1>1, <1>2, SyncStateKeepsSlots
<1>5. p.free = Append(q.free, k)
  BY <1>3 DEF Moved
<1>6. p.free # << >>
  BY <1>5 DEF QueueType
<1>7. QED
  BY <1>1, <1>4, <1>6, HeadIsTaken

LEMMA RingServes ==
  ASSUME IInv, Starved, ring # << >>
  PROVE  CanDequeue(Synced)
<1> DEFINE K == Surface(created)
           h == Head(ring)
<1>1. Attached /\ drawing = NoKey /\ \A k \in DOMAIN producer.state : producer.state[k] # "FREE"
  BY DEF Starved, Idle
<1>2. Drawing
  BY <1>1, WhenAttached
<1>3. /\ DOMAIN producer.state = K /\ producer \in QueueType(K)
      /\ \A k \in Keys : k \in K <=> SurfaceOf(k) = created
      /\ \A k \in K : InPlace(k)
  BY <1>2, WhenDrawing
<1>4. SlotsAgree(producer) /\ ring \in Seq(Keys)
  BY QueuesTyped DEF IInv
<1>5. h \in Keys /\ SurfaceOf(h) = created
  BY <1>4, TailOf DEF IInv, RingHoldsKeyOnce
<1>6. h \in K /\ producer.state[h] = "QUEUED"
  BY <1>1, <1>3, <1>5, WhenAttached DEF InPlace
<1>7. producer \in QueueType(K) /\ SlotsAgree(producer)
  BY <1>3, <1>4
<1>8. Synced = SyncState(producer, h, "FREE")
  BY DEF Synced
<1> HIDE DEF K, h
<1>9. QED
  BY <1>6, <1>7, <1>8, KeyFreesBuffer

(* A surface has another buffer than k. *)
LEMMA AnotherBuffer ==
  ASSUME created \in Surfaces, NEW k
  PROVE  \E other \in Surface(created) : other # k
<1>1. IsInjective(IdsOf(created)) /\ IdsOf(created) \in Seq(Keys) /\ Len(IdsOf(created)) >= 2
  BY IdsTyped, CountAssumption
<1>2. 1 \in DOMAIN IdsOf(created) /\ 2 \in DOMAIN IdsOf(created)
  BY <1>1
<1>3. IdsOf(created)[1] # IdsOf(created)[2]
  BY <1>1, <1>2 DEF IsInjective
<1>4. IdsOf(created)[1] \in Surface(created) /\ IdsOf(created)[2] \in Surface(created)
  BY <1>2 DEF Surface, Range
<1>5. QED
  BY <1>3, <1>4

(***************************************************************************)
(* BaseWindow::handleOnFrame never waits for a buffer that nobody is about *)
(* to give back.                                                           *)
(***************************************************************************)
THEOREM StarvedAlwaysServed == Spec => []StarvedIsServed
<1>1. ASSUME IInv, Starved, ring = << >> PROVE sent # << >>
  <2>1. PICK k \in Surface(created) : k # shown
    BY <1>1, WhenAttached, AnotherBuffer DEF Starved
  <2>2. InPlace(k) /\ producer.state[k] # "FREE" /\ k # NoKey
    BY <1>1, WhenAttached, WhenDrawing DEF Starved
  <2>3. drawing = NoKey
    BY <1>1 DEF Starved, Idle
  <2>4. k \in Range(sent) \/ k \in Range(ring)
    BY <1>1, <2>1, <2>2, <2>3 DEF InPlace, Starved
  <2>5. QED
    BY <1>1, <2>4, NoneIn
<1>2. IInv => StarvedIsServed
  BY <1>1, RingServes DEF StarvedIsServed
<1>3. QED
  BY <1>2, Invariance, PTL

-----------------------------------------------------------------------------
(* BufferOwnership *)

(* What BufferOwnership sees of the buffers. *)
Holders == [k \in Keys |-> HolderOf(k)]

(* Where a buffer is, by what the app says of it. *)
LEMMA HolderIs ==
  ASSUME IInv, Attached, NEW k \in Surface(created)
  PROVE  /\ k \in Keys /\ k # NoKey /\ SurfaceOf(k) = srvSurface /\ InPlace(k)
         /\ HolderOf(k) = CASE producer.state[k] = "FREE"     -> "free"
                            [] producer.state[k] = "DEQUEUED" -> "drawing"
                            [] OTHER -> IF k \in Range(sent) THEN "sent"
                                        ELSE IF k = shown THEN "shown" ELSE "returning"
<1>1. k \in Keys /\ SurfaceOf(k) = srvSurface /\ srvSurface = created /\ NoKey \notin Surface(created)
  BY WhenAttached
<1>2. InPlace(k)
  BY WhenAttached, WhenDrawing
<1>3. QED
  BY <1>1, <1>2 DEF HolderOf, Attached

(* What is of another surface, or of one the app does not draw on, is in nobody's hands. *)
LEMMA HeldNowhere ==
  ASSUME IInv, NEW k \in Keys
  PROVE  /\ Attached /\ k \notin Surface(created) => HolderOf(k) = "none"
         /\ ~Attached => HolderOf(k) = IF SurfaceOf(k) = srvSurface THEN "free" ELSE "none"
<1>1. SurfaceOf(k) \in Surfaces /\ NoSurface \notin Surfaces
  BY KeysOfSurface, Zeros
<1>2. CASE Attached
  <2>1. k \notin Surface(created) => SurfaceOf(k) # srvSurface
    BY <1>2, WhenAttached
  <2>2. QED
    BY <1>2, <2>1 DEF HolderOf
<1>3. CASE ~Attached
  BY <1>1, <1>3 DEF HolderOf, Attached
<1>4. QED
  BY <1>2, <1>3

(* A buffer that is drawn, sent or shown is held by that hand alone. *)
OneHand ==
  /\ Holders \in [Keys -> Ownership!Place]
  /\ \A p \in {"shown", "drawing"}, b, c \in Keys : Holders[b] = p /\ Holders[c] = p => b = c

(* The invariant gives it, in a state and in the next. *)
LEMMA HeldOnce == IInv => OneHand
<1> SUFFICES ASSUME IInv PROVE OneHand
  OBVIOUS
<1>1. \A k \in Keys : HolderOf(k) \in Ownership!Place
  BY DEF HolderOf, Ownership!Place
<1>2. ASSUME NEW k \in Keys
      PROVE  /\ HolderOf(k) = "shown" => k = shown
             /\ HolderOf(k) = "drawing" => k = drawing
  <2>1. CASE Attached /\ k \in Surface(created)
    <3>1. InPlace(k)
      BY <2>1, HolderIs
    <3>2. CASE producer.state[k] = "FREE"
      BY <2>1, <3>2, HolderIs
    <3>3. CASE producer.state[k] = "DEQUEUED"
      BY <2>1, <3>1, <3>3, HolderIs DEF InPlace
    <3>4. CASE producer.state[k] = "QUEUED"
      <4>1. HolderOf(k) = IF k \in Range(sent) THEN "sent" ELSE IF k = shown THEN "shown" ELSE "returning"
        BY <2>1, <3>4, HolderIs
      <4>2. QED
        BY <4>1
    <3>5. QED
      BY <3>1, <3>2, <3>3, <3>4 DEF InPlace
  <2>2. CASE ~(Attached /\ k \in Surface(created))
    BY <2>2, HeldNowhere
  <2>3. QED
    BY <2>1, <2>2
<1>3. QED
  BY <1>1, <1>2 DEF Holders, OneHand

LEMMA HeldOnceNext == IInv' => OneHand'
BY HeldOnce, PTL

(* A step that leaves the surface and moves its buffers one hand on. *)
LEMMA StepPassesOn ==
  ASSUME IInv, IInv', srvSurface' = srvSurface,
         \A k \in Keys : HolderOf(k)' # HolderOf(k) => <<HolderOf(k), HolderOf(k)'>> \in Ownership!Passes,
         \A b \in Keys : HolderOf(b) = "shown" =>
           (HolderOf(b)' = "returning" <=> \E c \in Keys : HolderOf(c) = "sent" /\ HolderOf(c)' = "shown")
  PROVE  Ownership!PassOn
<1> DEFINE h == Holders
<1>1. \A k \in Keys : h[k] = HolderOf(k) /\ h'[k] = HolderOf(k)'
  BY DEF Holders
<1>2. OneHand'
  BY HeldOnceNext
<1>3. QED
  BY <1>1, <1>2 DEF Ownership!PassOn, Holders, OneHand

(* The app's own moves: what is sent or shown stays so. *)
AppPasses == {<<"free", "drawing">>, <<"drawing", "free">>, <<"drawing", "sent">>,
              <<"returning", "free">>, <<"returning", "drawing">>}

(* A buffer that changes hands in the app. *)
LEMMA AppPassesOn ==
  ASSUME IInv, IInv', Attached, UNCHANGED <<srvSurface, appSurface>>,
         \A k \in Surface(created) : HolderOf(k)' # HolderOf(k) => <<HolderOf(k), HolderOf(k)'>> \in AppPasses
  PROVE  Ownership!PassOn
<1>1. ASSUME NEW k \in Keys, k \notin Surface(created) PROVE HolderOf(k)' = HolderOf(k)
  <2>1. SurfaceOf(k) # srvSurface
    BY <1>1, WhenAttached
  <2>2. QED
    BY <2>1 DEF HolderOf
<1>2. \A k \in Keys : HolderOf(k)' # HolderOf(k) => <<HolderOf(k), HolderOf(k)'>> \in AppPasses
  BY <1>1
<1>3. \A k \in Keys : HolderOf(k)' # HolderOf(k) => <<HolderOf(k), HolderOf(k)'>> \in Ownership!Passes
  BY <1>2 DEF AppPasses, Ownership!Passes
<1>4. \A b \in Keys : HolderOf(b) = "shown" => HolderOf(b)' # "returning"
  BY <1>2 DEF AppPasses
<1>5. \A c \in Keys : HolderOf(c) = "sent" => HolderOf(c)' # "shown"
  BY <1>2 DEF AppPasses
<1>6. QED
  BY <1>3, <1>4, <1>5, StepPassesOn

(* Buffers of a surface the app does not draw on stay where they are. *)
LEMMA DetachedStays ==
  ASSUME IInv, ~Attached, UNCHANGED <<srvSurface, appSurface>>
  PROVE  UNCHANGED <<srvSurface, Holders>>
<1>1. ASSUME NEW k \in Keys PROVE HolderOf(k)' = HolderOf(k)
  <2>1. SurfaceOf(k) # NoSurface
    BY KeysOfSurface, Zeros
  <2>2. QED
    BY <2>1 DEF HolderOf, Attached
<1>2. QED
  BY <1>1 DEF Holders

(* A surface that goes takes its buffers from all hands. *)
LEMMA StepDrops ==
  ASSUME srvSurface' = NoSurface
  PROVE  Ownership!Drop
<1>1. ASSUME NEW k \in Keys PROVE HolderOf(k)' = "none" /\ SurfaceOf(k) # 0
  <2>1. SurfaceOf(k) # NoSurface
    BY KeysOfSurface, Zeros
  <2>2. QED
    BY <2>1 DEF HolderOf, NoSurface
<1>2. QED
  BY <1>1 DEF Ownership!Drop, Ownership!FreshHolders, NoSurface

-----------------------------------------------------------------------------
(* The steps, one by one *)

(* The steps of SurfaceBuffers, seen as steps of BufferOwnership. *)
LEMMA RelayoutOwns ==
  ASSUME IInv, Idle, NEW visible, Relayout(visible), UNCHANGED appSurface
  PROVE  Ownership!Next
<1>1. CASE inMap /\ DestroySurface
  BY <1>1, StepDrops DEF DestroySurface, UninitSurfaceBuffer, Ownership!Next
<1>2. CASE ~inMap /\ UNCHANGED srvSurface
  <2>1. srvSurface' = NoSurface
    BY <1>2 DEF IInv, ServerOK
  <2>2. QED
    BY <2>1, StepDrops DEF Ownership!Next
<1>3. CASE CreateSurface
  <2> DEFINE s == created + 1
  <2>1. created \in Nat /\ s \in Surfaces /\ s \in Nat /\ created < s /\ s # NoSurface
    BY <1>3, QueuesTyped DEF IInv, CreateSurface, Surfaces, NoSurface
  <2>2. srvSurface' = s
    BY <1>3 DEF CreateSurface
  <2> HIDE DEF s
  <2>3. srvSurface \in {NoSurface, created} /\ appSurface # s
    BY <2>1 DEF IInv, ServerOK, CallsOK, Idle
  <2>4. \A k \in Keys : HolderOf(k)' = IF SurfaceOf(k) = s THEN "free" ELSE "none"
    BY <2>2, <2>3 DEF HolderOf
  <2>5. \A k \in Keys : HolderOf(k) # "none" => SurfaceOf(k) = srvSurface
    BY DEF HolderOf
  <2>6. srvSurface < s
    BY <2>1, <2>3 DEF NoSurface
  <2>7. Ownership!Create(s)
    <3>1. \A k \in Keys : HolderOf(k) # "none" => SurfaceOf(k) < s
      BY <2>5, <2>6
    <3>2. QED
      BY <2>2, <2>4, <2>6, <3>1 DEF Ownership!Create, Ownership!FreshHolders
  <2>8. QED
    BY <2>1, <2>7 DEF Ownership!Next
<1>4. QED
  BY <1>1, <1>2, <1>3 DEF Relayout

LEMMA RelayoutReturnsOwns ==
  ASSUME IInv, IInv', RelayoutReturns
  PROVE  [Ownership!Next]_(Ownership!ownershipVars)
<1>1. srvSurface' = srvSurface /\ calling # "none"
  BY DEF RelayoutReturns, srvVars
<1>2. CASE srvSurface = NoSurface
  BY <1>1, <1>2, StepDrops DEF Ownership!Next
<1>3. CASE srvSurface # NoSurface
  <2>1. reply = srvSurface /\ appSurface # srvSurface /\ named = srvSurface /\ srvSurface \in Surfaces
    BY <1>1, <1>3, QueuesTyped DEF IInv, CallsOK, ServerOK
  <2>2. appSurface' = srvSurface /\ producer' = NewQueue(IdsOf(srvSurface))
    BY <1>3, <2>1 DEF RelayoutReturns, OpenSurface, NoSurfaceToOpen
  <2>3. \A k \in Surface(srvSurface) : producer'.state[k] = "FREE"
    BY <2>1, <2>2, Fresh
  <2>4. ASSUME NEW k \in Keys PROVE HolderOf(k)' = HolderOf(k)
    <3>1. k \in Surface(srvSurface) <=> SurfaceOf(k) = srvSurface
      BY <2>1, KeysOfSurface DEF Surface
    <3>2. CASE SurfaceOf(k) = srvSurface
      <4>1. producer'.state[k] = "FREE"
        BY <2>3, <3>1, <3>2
      <4>2. HolderOf(k)' = "free"
        BY <1>1, <3>2, <4>1 DEF HolderOf
      <4>3. HolderOf(k) = "free"
        BY <2>1, <3>2 DEF HolderOf
      <4>4. QED
        BY <4>2, <4>3
    <3>3. CASE SurfaceOf(k) # srvSurface
      BY <1>1, <3>3 DEF HolderOf
    <3>4. QED
      BY <3>2, <3>3
  <2>5. QED
    BY <1>1, <2>4 DEF Ownership!ownershipVars
<1>4. QED
  BY <1>2, <1>3

LEMMA FrameBeginOwns ==
  ASSUME IInv, IInv', FrameBegin
  PROVE  [Ownership!Next]_(Ownership!ownershipVars)
<1> DEFINE K == Surface(created)
           h == Head(ring)
           p == Synced
           d == drawing'
<1>1. UNCHANGED <<appSurface, srvSurface, shown, sent, created>>
  BY DEF FrameBegin, srvVars
<1>2. CASE ~Attached
  BY <1>1, <1>2, DetachedStays DEF Ownership!ownershipVars, Holders
<1>3. CASE Attached
  <2>1. ASSUME NEW k \in K
        PROVE  HolderOf(k)' # HolderOf(k) => <<HolderOf(k), HolderOf(k)'>> \in AppPasses
    <3>1. /\ k # NoKey /\ SurfaceOf(k) = srvSurface /\ InPlace(k) /\ k \in Keys
          /\ HolderOf(k) = CASE producer.state[k] = "FREE"     -> "free"
                             [] producer.state[k] = "DEQUEUED" -> "drawing"
                             [] OTHER -> IF k \in Range(sent) THEN "sent"
                                         ELSE IF k = shown THEN "shown" ELSE "returning"
      BY <1>3, HolderIs
    <3>2. HolderOf(k)' = CASE producer'.state[k] = "FREE"     -> "free"
                           [] producer'.state[k] = "DEQUEUED" -> "drawing"
                           [] OTHER -> IF k \in Range(sent) THEN "sent"
                                       ELSE IF k = shown THEN "shown" ELSE "returning"
      BY <1>1, <1>3, <3>1 DEF HolderOf, Attached
    <3>3. /\ producer'.state[k] = IF k = d THEN "DEQUEUED" ELSE p.state[k]
          /\ p.state[k] = IF ring # << >> /\ k = h /\ producer.state[k] = "QUEUED" THEN "FREE" ELSE producer.state[k]
          /\ k = d => p.state[k] = "FREE"
      BY <3>1, FrameStates
    <3>4. ring # << >> => h \in Range(ring)
      <4>1. ring \in Seq(Keys)
        BY QueuesTyped DEF IInv
      <4>2. QED
        BY <4>1, TailOf
    <3> HIDE DEF K, h, p, d
    <3>5. producer.state[k] # "DEQUEUED"
      <4>1. drawing = NoKey
        BY DEF FrameBegin, Idle
      <4>2. QED
        BY <3>1, <4>1 DEF InPlace
    <3>6. ring # << >> /\ k = h /\ producer.state[k] = "QUEUED" => HolderOf(k) = "returning"
      BY <3>1, <3>4 DEF InPlace
    <3>7. CASE k = d
      <4>1. HolderOf(k)' = "drawing"
        BY <3>2, <3>3, <3>7
      <4>2. HolderOf(k) \in {"free", "returning"}
        BY <3>1, <3>3, <3>6, <3>7
      <4>3. QED
        BY <4>1, <4>2 DEF AppPasses
    <3>8. CASE k # d /\ ring # << >> /\ k = h /\ producer.state[k] = "QUEUED"
      <4>1. HolderOf(k)' = "free"
        BY <3>2, <3>3, <3>8
      <4>2. QED
        BY <3>6, <3>8, <4>1 DEF AppPasses
    <3>9. CASE k # d /\ ~(ring # << >> /\ k = h /\ producer.state[k] = "QUEUED")
      BY <3>1, <3>2, <3>3, <3>9
    <3>10. QED
      BY <3>7, <3>8, <3>9
  <2>2. QED
    BY <1>1, <1>3, <2>1, AppPassesOn DEF Ownership!Next
<1>4. QED
  BY <1>2, <1>3

LEMMA FrameEndOwns ==
  ASSUME IInv, IInv', FrameCancel \/ FrameSend
  PROVE  [Ownership!Next]_(Ownership!ownershipVars)
<1>1. PICK to \in {"FREE", "QUEUED"} :
        /\ drawing # NoKey /\ producer' = ToState(producer, drawing, to) /\ drawing' = NoKey
        /\ UNCHANGED <<appVisible, appSurface, calling, reply, srvVars, ring>>
        /\ to = "FREE" => sent' = sent
        /\ to = "QUEUED" => sent' = Append(sent, drawing)
  BY DEF FrameCancel, FrameSend, Sends
<1>2. UNCHANGED <<appSurface, srvSurface, shown, created>>
  BY <1>1 DEF srvVars
<1>3. CASE ~Attached
  BY <1>2, <1>3, DetachedStays DEF Ownership!ownershipVars, Holders
<1>4. CASE Attached
  <2>1. sent' \in Seq(Keys) /\ sent \in Seq(Keys) /\ drawing \in Keys
    BY <1>1, QueuesTyped, AppendTo DEF IInv
  <2>2. /\ drawing \in Surface(created) /\ producer.state[drawing] = "DEQUEUED"
        /\ \A k \in Surface(created) : producer'.state[k] = IF k = drawing THEN to ELSE producer.state[k]
    BY <1>1, <2>1, FrameEnds
  <2>3. Range(sent') = IF to = "QUEUED" THEN Range(sent) \cup {drawing} ELSE Range(sent)
    <3>1. CASE to = "FREE"
      BY <1>1, <3>1
    <3>2. CASE to = "QUEUED"
      <4>1. sent' = Append(sent, drawing)
        BY <1>1, <3>2
      <4>2. Range(sent') = Range(sent) \cup {drawing}
        BY <2>1, <4>1, AppendTo
      <4>3. QED
        BY <3>2, <4>2
    <3>3. QED
      BY <3>1, <3>2
  <2>4. ASSUME NEW k \in Surface(created)
        PROVE  HolderOf(k)' # HolderOf(k) => <<HolderOf(k), HolderOf(k)'>> \in AppPasses
    <3>1. /\ SurfaceOf(k) = srvSurface /\ InPlace(k) /\ k \in Keys
          /\ HolderOf(k) = CASE producer.state[k] = "FREE"     -> "free"
                             [] producer.state[k] = "DEQUEUED" -> "drawing"
                             [] OTHER -> IF k \in Range(sent) THEN "sent"
                                         ELSE IF k = shown THEN "shown" ELSE "returning"
      BY <1>4, HolderIs
    <3>2. HolderOf(k)' = CASE producer'.state[k] = "FREE"     -> "free"
                           [] producer'.state[k] = "DEQUEUED" -> "drawing"
                           [] OTHER -> IF k \in Range(sent') THEN "sent"
                                       ELSE IF k = shown THEN "shown" ELSE "returning"
      BY <1>2, <1>4, <3>1 DEF HolderOf, Attached
    <3>3. CASE k = drawing
      <4>1. HolderOf(k) = "drawing" /\ producer'.state[k] = to
        BY <2>2, <3>1, <3>3
      <4>2. CASE to = "FREE"
        <5>1. HolderOf(k)' = "free"
          BY <3>2, <4>1, <4>2
        <5>2. QED
          BY <4>1, <5>1 DEF AppPasses
      <4>3. CASE to = "QUEUED"
        <5>1. HolderOf(k)' = "sent"
          BY <2>3, <3>2, <3>3, <4>1, <4>3
        <5>2. QED
          BY <4>1, <5>1 DEF AppPasses
      <4>4. QED
        BY <4>2, <4>3
    <3>4. CASE k # drawing
      BY <2>2, <2>3, <3>1, <3>2, <3>4
    <3>5. QED
      BY <3>3, <3>4
  <2>5. QED
    BY <1>2, <1>4, <2>4, AppPassesOn DEF Ownership!Next
<1>5. QED
  BY <1>3, <1>4

LEMMA ApplyTransactionOwns ==
  ASSUME IInv, IInv', ApplyTransaction
  PROVE  [Ownership!Next]_(Ownership!ownershipVars)
<1> DEFINE k == Head(sent)
<1>1. Arrives /\ UNCHANGED <<appSurface, producer, srvSurface, created, drawing>>
  BY DEF ApplyTransaction, appVars
<1>2. CASE srvSurface = NoSurface
  <2>1. srvSurface' = NoSurface
    BY <1>1, <1>2
  <2>2. QED
    BY <2>1, StepDrops DEF Ownership!Next
<1>3. CASE ~Attached
  BY <1>1, <1>3, DetachedStays DEF Ownership!ownershipVars, Holders
<1>4. CASE Attached /\ SurfaceOf(k) # srvSurface
  <2>1. srvSurface # NoSurface /\ ~CanSync(consumer, k, "QUEUED")
    BY <1>1, <1>4, WhatIsTaken DEF Attached
  <2>2. shown = NoKey
    BY <1>1, <1>4, SentArrives
  <2>3. shown' = shown
    BY <2>1, <2>2 DEF ApplyTransaction, UpdateBuffer
  <2>4. \A x \in Surface(created) : x \in Range(sent') <=> x \in Range(sent)
    BY <1>1, <1>4, SentArrives, WhenAttached
  <2>5. ASSUME NEW x \in Keys PROVE HolderOf(x)' = HolderOf(x)
    <3>1. CASE x \in Surface(created)
      <4>1. x \in Range(sent') <=> x \in Range(sent)
        BY <2>4, <3>1
      <4>2. QED
        BY <1>1, <2>3, <4>1 DEF HolderOf
    <3>2. CASE x \notin Surface(created)
      <4>1. SurfaceOf(x) # srvSurface
        BY <1>4, <3>2, WhenAttached
      <4>2. QED
        BY <1>1, <4>1 DEF HolderOf
    <3>3. QED
      BY <3>1, <3>2
  <2>6. QED
    BY <1>1, <2>5 DEF Ownership!ownershipVars
<1>5. CASE Attached /\ SurfaceOf(k) = srvSurface
  <2>1. PICK y \in Keys : y = k
    BY <1>1, SentArrives
  <2>2. /\ CanSync(consumer, y, "QUEUED") /\ srvSurface # NoSurface
        /\ y \in Surface(created) /\ producer.state[y] = "QUEUED" /\ y # shown
    BY <1>1, <1>5, <2>1, WhatIsTaken DEF Attached
  <2>3. shown' = y
    BY <2>1, <2>2 DEF ApplyTransaction, UpdateBuffer
  <2>4. y \in Range(sent) /\ Range(sent) = Range(sent') \cup {y} /\ y \notin Range(sent')
    BY <1>1, <1>5, <2>1, SentArrives
  <2> HIDE DEF k
  <2>5. ASSUME NEW x \in Surface(created)
        PROVE  /\ x = y => HolderOf(x) = "sent" /\ HolderOf(x)' = "shown"
               /\ x # y /\ x = shown => HolderOf(x) = "shown" /\ HolderOf(x)' = "returning"
               /\ x # y /\ x # shown => HolderOf(x)' = HolderOf(x) /\ HolderOf(x) # "shown"
    <3>1. /\ SurfaceOf(x) = srvSurface /\ InPlace(x) /\ x \in Keys
          /\ HolderOf(x) = CASE producer.state[x] = "FREE"     -> "free"
                             [] producer.state[x] = "DEQUEUED" -> "drawing"
                             [] OTHER -> IF x \in Range(sent) THEN "sent"
                                         ELSE IF x = shown THEN "shown" ELSE "returning"
      BY <1>5, HolderIs
    <3>2. HolderOf(x)' = CASE producer.state[x] = "FREE"     -> "free"
                           [] producer.state[x] = "DEQUEUED" -> "drawing"
                           [] OTHER -> IF x \in Range(sent') THEN "sent"
                                       ELSE IF x = y THEN "shown" ELSE "returning"
      BY <1>1, <1>5, <2>3, <3>1 DEF HolderOf, Attached
    <3>3. CASE x = y
      BY <2>2, <2>4, <3>1, <3>2, <3>3
    <3>4. CASE x # y /\ x = shown
      <4>1. producer.state[x] = "QUEUED" /\ x \notin Range(sent)
        BY <3>1, <3>4 DEF InPlace
      <4>2. x \notin Range(sent')
        BY <2>4, <4>1
      <4>3. QED
        BY <3>1, <3>2, <3>4, <4>1, <4>2
    <3>5. CASE x # y /\ x # shown
      <4>1. x \in Range(sent') <=> x \in Range(sent)
        BY <2>4, <3>5
      <4>2. CASE producer.state[x] = "FREE"
        BY <3>1, <3>2, <3>5, <4>2
      <4>3. CASE producer.state[x] = "DEQUEUED"
        BY <3>1, <3>2, <3>5, <4>3
      <4>4. CASE producer.state[x] = "QUEUED"
        BY <3>1, <3>2, <3>5, <4>1, <4>4
      <4>5. QED
        BY <3>1, <4>2, <4>3, <4>4 DEF InPlace
    <3>6. QED
      BY <3>3, <3>4, <3>5
  <2>6. ASSUME NEW x \in Keys, x \notin Surface(created) PROVE HolderOf(x)' = HolderOf(x) /\ HolderOf(x) = "none"
    <3>1. SurfaceOf(x) # srvSurface
      BY <1>5, <2>6, WhenAttached
    <3>2. QED
      BY <1>1, <3>1 DEF HolderOf
  <2>7. \A x \in Keys : HolderOf(x)' # HolderOf(x) => <<HolderOf(x), HolderOf(x)'>> \in Ownership!Passes
    BY <2>5, <2>6 DEF Ownership!Passes
  <2>8. \A x \in Keys : HolderOf(x) = "shown" => HolderOf(x)' = "returning"
    BY <2>5, <2>6
  <2>9. HolderOf(y) = "sent" /\ HolderOf(y)' = "shown"
    BY <2>2, <2>5
  <2>10. Ownership!PassOn
    BY <1>1, <2>7, <2>8, <2>9, StepPassesOn
  <2>11. QED
    BY <2>10 DEF Ownership!Next
<1>6. QED
  BY <1>2, <1>3, <1>4, <1>5

(* Every step is a step of BufferOwnership or changes nothing of it. *)
LEMMA NextOwns ==
  ASSUME IInv, IInv', [Next]_vars
  PROVE  [Ownership!Next]_(Ownership!ownershipVars)
<1>1. ASSUME NEW visible \in BOOLEAN, SetVisible(visible) PROVE Ownership!Next
  BY <1>1, RelayoutOwns DEF SetVisible
<1>2. CASE FrameWithoutSurface
  BY <1>2, RelayoutOwns DEF FrameWithoutSurface
<1>3. CASE RelayoutReturns
  BY <1>3, RelayoutReturnsOwns
<1>4. CASE FrameBegin
  BY <1>4, FrameBeginOwns
<1>5. CASE FrameCancel \/ FrameSend
  BY <1>5, FrameEndOwns
<1>6. CASE ApplyTransaction
  BY <1>6, ApplyTransactionOwns
<1>7. CASE Remove \/ RemoveCleanup
  <2>1. srvSurface' = NoSurface
    BY <1>7 DEF Remove, RemoveCleanup, DestroySurface, UninitSurfaceBuffer
  <2>2. QED
    BY <2>1, StepDrops DEF Ownership!Next
<1>8. CASE UNCHANGED vars
  BY <1>8 DEF vars, appVars, srvVars, Ownership!ownershipVars, HolderOf
<1>9. QED
  BY <1>1, <1>2, <1>3, <1>4, <1>5, <1>6, <1>7, <1>8 DEF Next

(***************************************************************************)
(* The two buffer queues, the ring and the transactions implement          *)
(* BufferOwnership: a buffer goes from hand to hand in one order, and a    *)
(* frame that was overtaken by a relayout never blanks one of the new      *)
(* surface.                                                                *)
(***************************************************************************)
THEOREM BuffersAreOwned == Spec => ImplementsOwnership
<1>1. Init => Ownership!Init
  <2> SUFFICES ASSUME Init PROVE Ownership!Init
    OBVIOUS
  <2>1. srvSurface = 0
    BY DEF Init, NoSurface
  <2>2. \A k \in Keys : SurfaceOf(k) # 0
    BY KeysOfSurface, Zeros
  <2>3. QED
    BY <2>1, <2>2 DEF Ownership!Init, Ownership!FreshHolders, HolderOf
<1>2. IInv /\ IInv' /\ [Next]_vars => [Ownership!Next]_(Ownership!ownershipVars)
  BY NextOwns
<1>3. QED
  BY <1>1, <1>2, Invariance, PTL DEF Spec, ImplementsOwnership, Ownership!Spec

-----------------------------------------------------------------------------
(* What LVGL has yet to draw. *)
UiOK ==
  /\ appVisible => invalidation
  /\ drawing # NoKey => appVisible
  /\ appVisible /\ (calling # "none" \/ prev = NoKey) => dirty = Regions
  /\ calling = "none" /\ appSurface \notin Surfaces => prev = NoKey
  /\ allDirty /\ prev # NoKey => dirty = Regions

(* The buffer drawn last, at any time. *)
PrevIsWhole ==
  prev # NoKey /\ invalidation => \A r \in Regions : r \notin dirty => pixels[prev][r] = ui[r]

(* The screen, but for the area to be drawn again. *)
ScreenIsShown ==
  \A r \in Regions : r \notin srvDirty => screen[r] = IF shown = NoKey THEN Blank ELSE pixels[shown][r]

(* The buffers on their way to the screen of the present surface. *)
OnItsWay(i) == i \in 1 .. Len(sent) /\ SurfaceOf(sent[i]) = srvSurface

(* A frame is its predecessor but for its crop. *)
CropsOK ==
  Attached => \A i \in 1 .. Len(sent) : OnItsWay(i) =>
    \A r \in Regions : r \notin crops[i] =>
      /\ OnItsWay(i - 1) => pixels[sent[i]][r] = pixels[sent[i - 1]][r]
      /\ i = 1 /\ shown # NoKey => pixels[sent[i]][r] = pixels[shown][r]

(* The buffer drawn last is the last on its way. *)
PrevIsLast ==
  Attached =>
    IF prev = NoKey THEN shown = NoKey /\ \A i \in 1 .. Len(sent) : ~OnItsWay(i)
    ELSE /\ SurfaceOf(prev) = srvSurface
         /\ IF sent = << >> THEN shown = prev ELSE sent[Len(sent)] = prev

(* No buffer is ahead of the UI, and none on its way is behind those before it. *)
Rising ==
  /\ \A r \in Regions : screen[r] <= ui[r] /\ \A k \in Keys : pixels[k][r] <= ui[r]
  /\ shown # NoKey => \A r \in Regions : screen[r] <= pixels[shown][r]
  /\ Attached => \A i \in 1 .. Len(sent) : OnItsWay(i) => \A r \in Regions :
       /\ screen[r] <= pixels[sent[i]][r]
       /\ shown # NoKey => pixels[shown][r] <= pixels[sent[i]][r]
       /\ \A j \in 1 .. i : OnItsWay(j) => pixels[sent[j]][r] <= pixels[sent[i]][r]

(* The inductive invariant of DirectRender. *)
PictureInv ==
  /\ IInv /\ PictureOK
  /\ UiOK /\ PrevIsWhole /\ ScreenIsShown /\ CropsOK /\ PrevIsLast /\ Rising

(* The versions of the regions are numbers. *)
LEMMA PictureTyped ==
  ASSUME PictureOK
  PROVE  /\ ui \in [Regions -> Version] /\ \A r \in Regions : ui[r] \in Nat /\ ui[r] # Blank
         /\ \A k \in Keys : pixels[k] \in [Regions -> Version] /\ \A r \in Regions : pixels[k][r] \in Nat
         /\ \A r \in Regions : screen[r] \in Nat
         /\ crops \in Seq(SUBSET Regions) /\ Len(crops) = Len(sent)
         /\ Version \subseteq Nat /\ Blank = 0
<1>1. Version \subseteq Nat
  BY RegionAssumption DEF Version
<1>2. QED
  BY <1>1 DEF PictureOK, Blank

(* The buffer that is being drawn into is neither shown nor on its way. *)
LEMMA DrawnIsUnseen ==
  ASSUME IInv, drawing # NoKey
  PROVE  /\ drawing \in Keys /\ drawing # shown /\ drawing \notin Range(sent)
         /\ Attached => SurfaceOf(drawing) = srvSurface
<1>1. Drawing /\ drawing \in Surface(created) /\ SurfaceOf(drawing) = created /\ producer.state[drawing] = "DEQUEUED"
  BY DrawnIsNew
<1>2. InPlace(drawing) /\ Surface(created) \subseteq Keys
  BY <1>1, WhenDrawing
<1>3. QED
  BY <1>1, <1>2, WhenAttached DEF InPlace

(* A step of DirectRender is one of SurfaceBuffers, or leaves it alone. *)
LEMMA StepKeepsBuffers ==
  ASSUME IInv, [PictureNext]_allVars
  PROVE  IInv' /\ [Next]_vars
<1>1. [Next]_vars
  BY DEF PictureNext, allVars, UiChanges, Returns, Draw, Apply, ServerRender, Next
<1>2. QED
  BY <1>1, NextKeeps

(***************************************************************************)
(* The server drops its surface, or makes another: nothing is on its way   *)
(* to the screen.                                                          *)
(***************************************************************************)
LEMMA NothingOnItsWay ==
  ASSUME PictureInv, shown' = NoKey, ~Attached', Repaint({}), UNCHANGED <<ui, sent, pixels, crops, screen>>
  PROVE  ScreenIsShown' /\ CropsOK' /\ PrevIsLast' /\ Rising' /\ srvDirty' \subseteq Regions
<1>1. srvDirty' = IF shown = NoKey THEN srvDirty ELSE Regions
  BY DEF Repaint
<1>2. srvDirty' \subseteq Regions
  BY <1>1 DEF PictureInv, PictureOK
<1>3. ScreenIsShown'
  BY <1>1 DEF PictureInv, ScreenIsShown
<1>4. CropsOK' /\ PrevIsLast'
  BY DEF CropsOK, PrevIsLast
<1>5. Rising'
  BY DEF PictureInv, Rising
<1>6. QED
  BY <1>2, <1>3, <1>4, <1>5

(* A relayout leaves nothing shown, and the app without the new surface. *)
LEMMA RelayoutLeavesNothing ==
  ASSUME IInv, IInv', NEW visible, Relayout(visible), calling' # "none"
  PROVE  shown' = NoKey /\ ~Attached' /\ sent' = sent
<1>1. ~Attached'
  BY DEF IInv, CallsOK, Attached
<1>2. shown' = NoKey
  <2>1. CASE inMap
    BY <2>1 DEF Relayout, CreateSurface, DestroySurface
  <2>2. CASE ~inMap
    <3>1. shown = NoKey
      BY <2>2, ShownAttached, WhenAttached
    <3>2. QED
      BY <2>2, <3>1 DEF Relayout
  <2>3. QED
    BY <2>1, <2>2
<1>3. QED
  BY <1>1, <1>2 DEF Relayout

(* setVisible and updateVisibility. *)
LEMMA SetVisiblePicture ==
  ASSUME PictureInv, IInv', NEW visible \in BOOLEAN,
         SetVisible(visible), UpdateVisibility(visible), Repaint({})
  PROVE  PictureInv'
<1>1. /\ calling' = "setVisible" /\ calling = "none" /\ drawing = NoKey /\ drawing' = NoKey
      /\ appVisible' = visible /\ Relayout(visible)
  BY DEF SetVisible, Idle
<1>2. /\ invalidation' = visible /\ allDirty' = (allDirty \/ visible)
      /\ dirty' = IF visible THEN Regions ELSE dirty
      /\ UNCHANGED <<ui, hasItem, prev, pixels, crops, screen>>
  BY DEF UpdateVisibility
<1>3. shown' = NoKey /\ ~Attached' /\ sent' = sent
  BY <1>1, RelayoutLeavesNothing DEF PictureInv
<1>4. ScreenIsShown' /\ CropsOK' /\ PrevIsLast' /\ Rising' /\ srvDirty' \subseteq Regions
  BY <1>2, <1>3, NothingOnItsWay
<1>5. PictureOK'
  <2>1. allDirty \in BOOLEAN /\ hasItem \in BOOLEAN
    BY Zenon DEF PictureInv, PictureOK
  <2>2. allDirty' \in BOOLEAN /\ invalidation' \in BOOLEAN
    BY <1>2, <2>1, Zenon
  <2>3. QED
    BY <1>2, <1>3, <1>4, <2>1, <2>2 DEF PictureInv, PictureOK
<1>6. UiOK'
  <2>1. allDirty' /\ prev' # NoKey => dirty' = Regions
    BY <1>2 DEF PictureInv, UiOK
  <2>2. QED
    BY <1>1, <1>2, <2>1 DEF UiOK
<1>7. PrevIsWhole'
  BY <1>2 DEF PrevIsWhole
<1>8. QED
  BY <1>4, <1>5, <1>6, <1>7 DEF PictureInv

(* A frame that asks for a surface. *)
LEMMA FrameWithoutSurfacePicture ==
  ASSUME PictureInv, IInv', FrameWithoutSurface, Repaint({}), UNCHANGED <<uiVars, pixels, crops, screen>>
  PROVE  PictureInv'
<1>1. /\ calling' = "onFrame" /\ calling = "none" /\ drawing = NoKey /\ drawing' = NoKey
      /\ appVisible /\ appVisible' = appVisible /\ appSurface = NoSurface /\ Relayout(TRUE)
  BY DEF FrameWithoutSurface, Idle
<1>2. UNCHANGED <<ui, dirty, invalidation, hasItem, prev, allDirty, pixels, crops, screen>>
  BY DEF uiVars
<1>3. shown' = NoKey /\ ~Attached' /\ sent' = sent
  BY <1>1, RelayoutLeavesNothing DEF PictureInv
<1>4. ScreenIsShown' /\ CropsOK' /\ PrevIsLast' /\ Rising' /\ srvDirty' \subseteq Regions
  BY <1>2, <1>3, NothingOnItsWay
<1>5. PictureOK'
  BY <1>2, <1>3, <1>4 DEF PictureInv, PictureOK
<1>6. UiOK'
  <2>1. prev = NoKey
    BY <1>1, Zeros DEF PictureInv, UiOK
  <2>2. dirty = Regions
    BY <1>1, <2>1 DEF PictureInv, UiOK
  <2>3. QED
    BY <1>1, <1>2, <2>1, <2>2 DEF PictureInv, UiOK
<1>7. PrevIsWhole'
  BY <1>2 DEF PictureInv, PrevIsWhole
<1>8. QED
  BY <1>4, <1>5, <1>6, <1>7 DEF PictureInv

(* The server lets the window go. *)
LEMMA RemovePicture ==
  ASSUME PictureInv, IInv', Remove \/ RemoveCleanup, Repaint({}), UNCHANGED <<uiVars, pixels, crops, screen>>
  PROVE  PictureInv'
<1>1. /\ shown' = NoKey /\ srvSurface' = NoSurface
      /\ UNCHANGED <<appVisible, appSurface, drawing, calling, sent>>
  BY DEF Remove, RemoveCleanup, DestroySurface, UninitSurfaceBuffer, appVars
<1>2. UNCHANGED <<ui, dirty, invalidation, hasItem, prev, allDirty, pixels, crops, screen>>
  BY DEF uiVars
<1>3. ~Attached'
  BY <1>1 DEF Attached
<1>4. ScreenIsShown' /\ CropsOK' /\ PrevIsLast' /\ Rising' /\ srvDirty' \subseteq Regions
  BY <1>1, <1>2, <1>3, NothingOnItsWay
<1>5. PictureOK'
  BY <1>1, <1>2, <1>4 DEF PictureInv, PictureOK
<1>6. UiOK' /\ PrevIsWhole'
  BY <1>1, <1>2 DEF PictureInv, UiOK, PrevIsWhole
<1>7. QED
  BY <1>4, <1>5, <1>6 DEF PictureInv

(* A new surface: none of its buffers has been sent. *)
LEMMA ReturnsPicture ==
  ASSUME PictureInv, IInv', Returns
  PROVE  PictureInv'
<1>1. /\ calling # "none" /\ calling' = "none"
      /\ UNCHANGED <<appVisible, drawing, srvSurface, shown, sent>>
      /\ hasItem' = FALSE /\ prev' = NoKey
      /\ UNCHANGED <<ui, dirty, invalidation, allDirty, pixels, crops, srvDirty, screen>>
  BY DEF Returns, RelayoutReturns, ResetBuffer, srvVars
<1>2. PictureOK'
  BY <1>1 DEF PictureInv, PictureOK
<1>3. UiOK'
  <2>1. appVisible => dirty = Regions
    BY <1>1 DEF PictureInv, UiOK
  <2>2. QED
    BY <1>1, <2>1 DEF PictureInv, UiOK
<1>4. PrevIsWhole' /\ ScreenIsShown'
  BY <1>1 DEF PictureInv, PrevIsWhole, ScreenIsShown
<1>5. ASSUME Attached' PROVE shown = NoKey /\ \A i \in 1 .. Len(sent) : SurfaceOf(sent[i]) # srvSurface
  <2>1. srvSurface # NoSurface
    BY <1>1, <1>5 DEF Attached
  <2>2. reply = srvSurface /\ reply # NoSurface /\ shown = NoKey
    BY <1>1, <2>1 DEF PictureInv, IInv, CallsOK
  <2>3. \A i \in 1 .. Len(sent) : SurfaceOf(sent[i]) < reply
    BY <1>1, <2>2 DEF PictureInv, IInv, CallsOK
  <2>4. sent \in Seq(Keys) /\ srvSurface \in Surfaces
    BY <2>1, QueuesTyped DEF PictureInv, IInv
  <2>5. srvSurface \in Nat /\ \A i \in 1 .. Len(sent) : SurfaceOf(sent[i]) \in Nat
    BY <2>4, RangeOf, KeysOfSurface, Zeros
  <2>6. QED
    BY <2>2, <2>3, <2>5
<1>6. CropsOK' /\ PrevIsLast'
  BY <1>1, <1>5 DEF CropsOK, PrevIsLast, OnItsWay
<1>7. Rising'
  BY <1>1, <1>5 DEF PictureInv, Rising, OnItsWay
<1>8. QED
  BY <1>2, <1>3, <1>4, <1>6, <1>7 DEF PictureInv


(***************************************************************************)
(* The UI changes, or the app takes a buffer, or finds nothing to draw:    *)
(* the buffers and the screen stay as they are.                            *)
(***************************************************************************)
LEMMA ScreenUntouched ==
  ASSUME PictureInv,
         UNCHANGED <<appSurface, srvSurface, shown, sent, prev, pixels, crops, srvDirty, screen>>,
         \A r \in Regions : ui'[r] \in Nat /\ ui[r] <= ui'[r]
  PROVE  ScreenIsShown' /\ CropsOK' /\ PrevIsLast' /\ Rising'
<1>1. Attached' <=> Attached
  BY DEF Attached
<1>2. ScreenIsShown' /\ CropsOK' /\ PrevIsLast'
  BY <1>1 DEF PictureInv, ScreenIsShown, CropsOK, PrevIsLast, OnItsWay
<1>3. Rising'
  <2>1. \A r \in Regions : /\ screen[r] \in Nat /\ ui[r] \in Nat /\ screen[r] <= ui[r]
                           /\ \A k \in Keys : pixels[k][r] \in Nat /\ pixels[k][r] <= ui[r]
    BY PictureTyped DEF PictureInv, Rising
  <2>2. \A r \in Regions : screen[r] <= ui'[r] /\ \A k \in Keys : pixels[k][r] <= ui'[r]
    BY <2>1
  <2>3. QED
    BY <1>1, <2>2 DEF PictureInv, Rising, OnItsWay
<1>4. QED
  BY <1>2, <1>3

(* The UI changes in an area. *)
LEMMA UiChangesPicture ==
  ASSUME PictureInv, IInv', NEW a \in SUBSET Regions, UiChanges(a)
  PROVE  PictureInv'
<1>1. /\ UNCHANGED <<appVisible, appSurface, drawing, calling, srvSurface, shown, sent>>
      /\ UNCHANGED <<invalidation, hasItem, prev, pixels, crops, srvDirty, screen>>
      /\ ui' = [r \in Regions |-> IF r \in a THEN ui[r] + 1 ELSE ui[r]]
      /\ dirty' = IF ~invalidation THEN dirty ELSE IF TakenWhole(a) THEN Regions ELSE dirty \cup a
      /\ allDirty' = (allDirty \/ (invalidation /\ TakenWhole(a)))
      /\ \A r \in a : ui[r] < MaxVersion
  BY DEF UiChanges, vars, appVars, srvVars
<1>2. \A r \in Regions : ui[r] \in Nat /\ ui[r] # 0 /\ ui[r] \in Version
  BY PictureTyped DEF PictureInv, PictureOK
<1>3. \A r \in Regions : ui'[r] \in Version \ {Blank} /\ ui'[r] \in Nat /\ ui[r] <= ui'[r]
  BY <1>1, <1>2, RegionAssumption DEF Version, Blank
<1>4. ScreenIsShown' /\ CropsOK' /\ PrevIsLast' /\ Rising'
  BY <1>1, <1>3, ScreenUntouched
<1>5. dirty \subseteq Regions
  BY DEF PictureInv, PictureOK
<1>6. PictureOK'
  <2>1. ui' \in [Regions -> Version \ {Blank}]
    BY <1>1, <1>3
  <2>2. dirty' \subseteq Regions
    BY <1>1, <1>5
  <2>3. allDirty \in BOOLEAN /\ invalidation \in BOOLEAN /\ hasItem \in BOOLEAN
    BY Zenon DEF PictureInv, PictureOK
  <2>4. allDirty' \in BOOLEAN
    BY <1>1, <2>3, Zenon
  <2>5. QED
    BY <1>1, <2>1, <2>2, <2>3, <2>4 DEF PictureInv, PictureOK
<1>7. UiOK'
  <2>1. dirty = Regions => dirty' = Regions
    BY <1>1
  <2>2. allDirty' => allDirty \/ dirty' = Regions
    BY <1>1
  <2>3. QED
    BY <1>1, <2>1, <2>2 DEF PictureInv, UiOK
<1>8. PrevIsWhole'
  <2> SUFFICES ASSUME prev # NoKey, invalidation, NEW r \in Regions, r \notin dirty'
               PROVE  pixels[prev][r] = ui'[r]
    BY <1>1 DEF PrevIsWhole
  <2>1. r \notin dirty /\ r \notin a
    BY <1>1, <1>5
  <2>2. QED
    BY <1>1, <2>1 DEF PictureInv, PrevIsWhole
<1>9. QED
  BY <1>4, <1>6, <1>7, <1>8 DEF PictureInv

(* A buffer is taken. *)
LEMMA FrameBeginPicture ==
  ASSUME PictureInv, IInv', FrameBegin, UNCHANGED picture
  PROVE  PictureInv'
<1>1. /\ UNCHANGED <<appVisible, appSurface, calling, srvSurface, shown, sent>> /\ appVisible
  BY DEF FrameBegin, srvVars
<1>2. UNCHANGED <<ui, dirty, invalidation, hasItem, prev, allDirty, pixels, crops, srvDirty, screen>>
  BY DEF picture, uiVars
<1>3. ScreenIsShown' /\ CropsOK' /\ PrevIsLast' /\ Rising'
  <2>1. \A r \in Regions : ui'[r] \in Nat /\ ui[r] <= ui'[r]
    BY <1>2, PictureTyped DEF PictureInv
  <2>2. QED
    BY <1>1, <1>2, <2>1, ScreenUntouched
<1>4. PictureOK' /\ UiOK' /\ PrevIsWhole'
  BY <1>1, <1>2 DEF PictureInv, PictureOK, UiOK, PrevIsWhole
<1>5. QED
  BY <1>3, <1>4 DEF PictureInv

(* There was nothing to draw. *)
LEMMA FrameCancelPicture ==
  ASSUME PictureInv, IInv', FrameCancel, NothingDrawn
  PROVE  PictureInv'
<1>1. /\ UNCHANGED <<appVisible, appSurface, calling, srvSurface, shown, sent>>
      /\ drawing' = NoKey
  BY DEF FrameCancel, srvVars
<1>2. /\ UNCHANGED <<ui, dirty, invalidation, prev, pixels, crops, srvDirty, screen>>
      /\ hasItem' = TRUE /\ allDirty' = FALSE
  BY DEF NothingDrawn
<1>3. ScreenIsShown' /\ CropsOK' /\ PrevIsLast' /\ Rising'
  <2>1. \A r \in Regions : ui'[r] \in Nat /\ ui[r] <= ui'[r]
    BY <1>2, PictureTyped DEF PictureInv
  <2>2. QED
    BY <1>1, <1>2, <2>1, ScreenUntouched
<1>4. PictureOK' /\ UiOK' /\ PrevIsWhole'
  BY <1>1, <1>2 DEF PictureInv, PictureOK, UiOK, PrevIsWhole
<1>5. QED
  BY <1>3, <1>4 DEF PictureInv

(***************************************************************************)
(* A frame is drawn: the areas that changed, on a copy of the buffer drawn *)
(* before, make the whole picture.                                         *)
(***************************************************************************)
LEMMA FrameIsWhole ==
  ASSUME PictureInv, drawing # NoKey, Drawn
  PROVE  /\ \A r \in Regions : pixels'[drawing][r] = ui[r]
         /\ \A k \in Keys : k # drawing => pixels'[k] = pixels[k]
         /\ pixels' \in [Keys -> [Regions -> Version]]
<1>1. drawing \in Keys /\ pixels \in [Keys -> [Regions -> Version]]
  BY DrawnIsUnseen DEF PictureInv, PictureOK
<1>2. pixels' = [pixels EXCEPT ![drawing] = [r \in Regions |-> IF r \in dirty THEN ui[r] ELSE Base[r]]]
  BY DEF Drawn
<1>3. /\ pixels'[drawing] = [r \in Regions |-> IF r \in dirty THEN ui[r] ELSE Base[r]]
      /\ \A k \in Keys : k # drawing => pixels'[k] = pixels[k]
  BY <1>1, <1>2
<1>4. appVisible /\ invalidation
  BY DEF PictureInv, UiOK
<1>5. \A r \in Regions : r \notin dirty => Base[r] = ui[r]
  <2>1. CASE prev # NoKey /\ ~allDirty
    BY <1>4, <2>1 DEF PictureInv, PrevIsWhole, Base
  <2>2. CASE prev = NoKey \/ allDirty
    BY <1>4, <2>2 DEF PictureInv, UiOK
  <2>3. QED
    BY <2>1, <2>2
<1>6. \A r \in Regions : pixels'[drawing][r] = ui[r]
  BY <1>3, <1>5
<1>7. pixels'[drawing] \in [Regions -> Version]
  <2>1. \A r \in Regions : pixels'[drawing][r] \in Version
    BY <1>6 DEF PictureInv, PictureOK
  <2>2. QED
    BY <1>3, <2>1
<1>8. pixels' \in [Keys -> [Regions -> Version]]
  BY <1>1, <1>2, <1>3, <1>7
<1>9. QED
  BY <1>3, <1>6, <1>8

(* The crop of a frame covers what was drawn. *)
LEMMA DirtyIsInItsBox ==
  ASSUME dirty \subseteq Regions
  PROVE  dirty \subseteq Box(dirty) /\ Box(dirty) \subseteq Regions
<1>1. \A r \in Regions : r <= r
  BY RegionAssumption DEF Regions
<1>2. QED
  BY <1>1 DEF Box

(* A frame is drawn and sent: it is the newest and the last on its way. *)
LEMMA FrameSendPicture ==
  ASSUME PictureInv, IInv', FrameSend, Drawn
  PROVE  PictureInv'
<1> PICK n, d : n = Len(sent) /\ d = drawing
  OBVIOUS
<1>1. /\ UNCHANGED <<appVisible, appSurface, calling, srvSurface, shown>>
      /\ d # NoKey /\ drawing' = NoKey /\ sent' = Append(sent, d)
  BY DEF FrameSend, srvVars, Sends
<1>2. /\ UNCHANGED <<ui, invalidation, srvDirty, screen>>
      /\ crops' = Append(crops, Box(dirty))
      /\ dirty' = {} /\ prev' = d /\ hasItem' = TRUE /\ allDirty' = FALSE
  BY DEF Drawn, SetBufferCrop
<1>3. /\ d \in Keys /\ d # shown /\ d \notin Range(sent) /\ calling = "none" /\ appVisible /\ invalidation
      /\ appSurface \in Surfaces /\ (Attached => SurfaceOf(d) = srvSurface) /\ (Attached' <=> Attached)
  BY <1>1, DrawnIsUnseen, DrawnIsNew DEF PictureInv, UiOK, Drawing, Attached
<1>4. /\ \A r \in Regions : pixels'[d][r] = ui[r]
      /\ \A k \in Keys : k # d => pixels'[k] = pixels[k]
      /\ pixels' \in [Keys -> [Regions -> Version]]
  BY <1>1, FrameIsWhole
<1>5. sent \in Seq(Keys) /\ n \in Nat /\ \A i \in 1 .. n : sent[i] \in Keys /\ sent[i] # d
  BY <1>3, QueuesTyped, RangeOf DEF PictureInv, IInv
<1>6. /\ Len(sent') = n + 1 /\ sent'[n + 1] = d /\ sent' # << >>
      /\ \A i \in 1 .. n : sent'[i] = sent[i]
  BY <1>1, <1>3, <1>5, AppendTo
<1>7. dirty \subseteq Box(dirty) /\ Box(dirty) \subseteq Regions
  BY DirtyIsInItsBox DEF PictureInv, PictureOK
<1>8. /\ crops' \in Seq(SUBSET Regions) /\ Len(crops') = n + 1 /\ crops'[n + 1] = Box(dirty)
      /\ \A i \in 1 .. n : crops'[i] = crops[i]
  <2>1. crops \in Seq(SUBSET Regions) /\ Len(crops) = n
    BY DEF PictureInv, PictureOK
  <2>2. QED
    BY <1>2, <1>7, <2>1, AppendTo
<1>9. shown # NoKey => shown \in Keys /\ pixels'[shown] = pixels[shown]
  BY <1>3, <1>4, QueuesTyped DEF PictureInv, IInv
<1>10. /\ \A i \in 1 .. n : OnItsWay(i)' <=> OnItsWay(i)
       /\ OnItsWay(n + 1)' <=> SurfaceOf(d) = srvSurface
       /\ \A i : OnItsWay(i) => i \in 1 .. n
  BY <1>1, <1>5, <1>6 DEF OnItsWay
<1>11. \A i \in 1 .. n : pixels'[sent'[i]] = pixels[sent[i]]
  BY <1>4, <1>5, <1>6
<1>12. pixels'[sent'[n + 1]] = pixels'[d]
  BY <1>6
<1>13. PictureOK'
  BY <1>1, <1>2, <1>3, <1>4, <1>6, <1>8 DEF PictureInv, PictureOK
<1>14. UiOK'
  BY <1>1, <1>2, <1>3 DEF UiOK
<1>15. PrevIsWhole'
  BY <1>2, <1>4 DEF PrevIsWhole
<1>16. ScreenIsShown'
  BY <1>1, <1>2, <1>9 DEF PictureInv, ScreenIsShown
<1>17. PrevIsLast'
  BY <1>1, <1>2, <1>3, <1>6 DEF PrevIsLast
<1>18. ASSUME Attached, NEW r \in Regions, r \notin Box(dirty)
       PROVE  /\ OnItsWay(n) => pixels[sent[n]][r] = ui[r]
              /\ n = 0 /\ shown # NoKey => pixels[shown][r] = ui[r]
  <2>1. prev # NoKey => pixels[prev][r] = ui[r]
    BY <1>3, <1>7, <1>18 DEF PictureInv, PrevIsWhole
  <2>2. CASE n = 0
    <3>1. sent = << >> /\ ~OnItsWay(n)
      <4>1. Len(sent) = 0
        BY <2>2
      <4>2. sent = << >>
        BY <1>5, <4>1, EmptySeq
      <4>3. ~(n \in 1 .. Len(sent))
        BY <2>2
      <4>4. QED
        BY <4>2, <4>3 DEF OnItsWay
    <3>2. shown # NoKey => prev # NoKey /\ shown = prev
      BY <1>18, <3>1 DEF PictureInv, PrevIsLast
    <3>3. QED
      BY <2>1, <3>1, <3>2
  <2>3. CASE n # 0
    <3>1. sent # << >> /\ n \in 1 .. n
      BY <1>5, <2>3
    <3>2. OnItsWay(n) => prev # NoKey /\ sent[n] = prev
      BY <1>18, <3>1 DEF PictureInv, PrevIsLast
    <3>3. QED
      BY <2>1, <2>3, <3>2
  <2>4. QED
    BY <2>2, <2>3
<1>19. CropsOK'
  <2> SUFFICES ASSUME Attached', NEW i \in 1 .. Len(sent'), OnItsWay(i)', NEW r \in Regions, r \notin crops'[i]
               PROVE  /\ OnItsWay(i - 1)' => pixels'[sent'[i]][r] = pixels'[sent'[i - 1]][r]
                      /\ i = 1 /\ shown' # NoKey => pixels'[sent'[i]][r] = pixels'[shown'][r]
    BY Zenon DEF CropsOK
  <2>0. Attached /\ shown' = shown /\ i \in 1 .. n + 1
    BY <1>1, <1>3, <1>6
  <2>1. CASE i \in 1 .. n
    <3>1. OnItsWay(i) /\ r \notin crops[i] /\ (OnItsWay(i - 1)' => OnItsWay(i - 1) /\ i - 1 \in 1 .. n)
      <4>1. OnItsWay(i - 1)' => i - 1 \in 1 .. n
        BY <1>5, <1>6, <2>1 DEF OnItsWay
      <4>2. QED
        BY <1>5, <1>8, <1>10, <2>1, <4>1
    <3>2. /\ OnItsWay(i - 1) => pixels[sent[i]][r] = pixels[sent[i - 1]][r]
          /\ i = 1 /\ shown # NoKey => pixels[sent[i]][r] = pixels[shown][r]
      BY <2>0, <2>1, <3>1 DEF PictureInv, CropsOK
    <3>3. QED
      BY <1>9, <1>11, <2>0, <2>1, <3>1, <3>2
  <2>2. CASE i = n + 1
    <3>1. i - 1 = n /\ (OnItsWay(n)' => OnItsWay(n) /\ n \in 1 .. n) /\ (i = 1 => n = 0)
      <4>1. OnItsWay(n)' => n \in 1 .. n
        BY <1>5, <1>6 DEF OnItsWay
      <4>2. QED
        BY <1>5, <1>10, <2>2, <4>1
    <3>2. /\ OnItsWay(n) => pixels[sent[n]][r] = ui[r]
          /\ n = 0 /\ shown # NoKey => pixels[shown][r] = ui[r]
      BY <1>8, <1>18, <2>0, <2>2
    <3>3. pixels'[sent'[i]][r] = ui[r]
      BY <1>4, <1>12, <2>2
    <3>4. OnItsWay(n)' => pixels'[sent'[n]] = pixels[sent[n]]
      BY <1>11, <3>1
    <3>5. QED
      BY <1>9, <2>0, <3>1, <3>2, <3>3, <3>4
  <2>3. QED
    BY <1>5, <2>0, <2>1, <2>2
<1>20. Rising'
  <2>1. \A r \in Regions : /\ ui[r] \in Nat /\ screen[r] \in Nat /\ screen[r] <= ui[r]
                           /\ \A k \in Keys : pixels[k][r] \in Nat /\ pixels[k][r] <= ui[r]
    BY PictureTyped DEF PictureInv, Rising
  <2>2. \A r \in Regions : \A k \in Keys : pixels'[k][r] <= ui[r]
    BY <1>4, <2>1
  <2>3. shown # NoKey => \A r \in Regions : screen[r] <= pixels'[shown][r] /\ pixels'[shown][r] <= ui[r]
    BY <1>9, <2>2 DEF PictureInv, Rising
  <2>4. ASSUME Attached, NEW i \in 1 .. n + 1, OnItsWay(i)', NEW r \in Regions
        PROVE  /\ screen[r] <= pixels'[sent'[i]][r]
               /\ shown # NoKey => pixels'[shown][r] <= pixels'[sent'[i]][r]
               /\ \A j \in 1 .. i : OnItsWay(j)' => pixels'[sent'[j]][r] <= pixels'[sent'[i]][r]
    <3>1. CASE i \in 1 .. n
      <4>1. OnItsWay(i)
        BY <1>10, <2>4, <3>1
      <4>2. /\ screen[r] <= pixels[sent[i]][r]
            /\ shown # NoKey => pixels[shown][r] <= pixels[sent[i]][r]
            /\ \A j \in 1 .. i : OnItsWay(j) => pixels[sent[j]][r] <= pixels[sent[i]][r]
        BY <2>4, <3>1, <4>1 DEF PictureInv, Rising
      <4>3. \A j \in 1 .. i : j \in 1 .. n
        BY <1>5, <3>1
      <4>4. QED
        BY <1>9, <1>10, <1>11, <3>1, <4>2, <4>3
    <3>2. CASE i = n + 1
      <4>1. pixels'[sent'[i]][r] = ui[r]
        BY <1>4, <1>12, <3>2
      <4>2. \A j \in 1 .. i : sent'[j] \in Keys
        BY <1>3, <1>5, <1>6, <3>2
      <4>3. \A j \in 1 .. i : pixels'[sent'[j]][r] <= ui[r]
        BY <2>2, <4>2
      <4>4. QED
        BY <2>1, <2>3, <4>1, <4>3
    <3>3. QED
      BY <1>5, <2>4, <3>1, <3>2
  <2>5. QED
    BY <1>1, <1>2, <1>3, <1>6, <2>1, <2>2, <2>3, <2>4 DEF Rising
<1>21. QED
  BY <1>13, <1>14, <1>15, <1>16, <1>17, <1>19, <1>20 DEF PictureInv

(***************************************************************************)
(* A transaction is applied: its buffer is shown, or it is of a surface    *)
(* that is gone, and nothing was shown.                                    *)
(***************************************************************************)
LEMMA WhatIsApplied ==
  ASSUME IInv, ApplyTransaction
  PROVE  LET k == Head(sent) IN
         /\ sent # << >> /\ sent' = Tail(sent)
         /\ UNCHANGED <<appVisible, appSurface, drawing, calling, srvSurface>>
         /\ \/ Attached /\ SurfaceOf(k) = srvSurface /\ shown' = k /\ k # shown /\ k \in Keys /\ k # NoKey
            \/ shown' = shown /\ (Attached => shown = NoKey /\ SurfaceOf(k) # srvSurface)
<1> DEFINE k == Head(sent)
<1>1. Arrives /\ UNCHANGED <<appVars, srvSurface, removed, inMap, named, created>>
  BY DEF ApplyTransaction
<1>2. sent # << >> /\ sent' = Tail(sent) /\ UNCHANGED <<appVisible, appSurface, drawing, calling, srvSurface>>
  BY <1>1 DEF Arrives, appVars
<1>3. CASE srvSurface = NoSurface /\ UNCHANGED <<consumer, shown, ring>>
  BY <1>2, <1>3 DEF Attached
<1>4. CASE /\ srvSurface # NoSurface /\ CanSync(consumer, k, "QUEUED")
           /\ UpdateBuffer(k, SyncState(consumer, k, "QUEUED"))
  <2>1. SurfaceOf(k) = srvSurface /\ Attached /\ k # shown /\ shown' = k
    BY <1>1, <1>4, WhatIsTaken DEF UpdateBuffer
  <2>2. k \in Keys /\ k # NoKey
    BY <1>1, SentArrives, Zeros
  <2>3. QED
    BY <1>2, <2>1, <2>2
<1>5. CASE srvSurface # NoSurface /\ ~CanSync(consumer, k, "QUEUED") /\ UpdateBuffer(NoKey, consumer)
  <2>1. SurfaceOf(k) # srvSurface
    BY <1>1, <1>5, WhatIsTaken
  <2>2. shown = NoKey /\ shown' = NoKey
    BY <1>1, <1>5, <2>1, SentArrives DEF UpdateBuffer
  <2>3. QED
    BY <1>2, <2>1, <2>2
<1>6. QED
  BY <1>3, <1>4, <1>5 DEF ApplyTransaction

(* A transaction is applied, and its crop is to be drawn again. *)
LEMMA ApplyPictureKeeps ==
  ASSUME PictureInv, IInv', Apply
  PROVE  PictureInv'
<1> PICK n, k : n = Len(sent) /\ k = Head(sent)
  OBVIOUS
<1>1. /\ UNCHANGED <<ui, dirty, invalidation, hasItem, prev, allDirty, pixels, screen>>
      /\ crops' = Tail(crops) /\ Repaint(Head(crops))
  BY DEF Apply, ApplyPicture, uiVars
<1>2. /\ sent # << >> /\ sent' = Tail(sent)
      /\ UNCHANGED <<appVisible, appSurface, drawing, calling, srvSurface>>
      /\ \/ Attached /\ SurfaceOf(k) = srvSurface /\ shown' = k /\ k # shown /\ k \in Keys /\ k # NoKey
         \/ shown' = shown /\ (Attached => shown = NoKey /\ SurfaceOf(k) # srvSurface)
  BY WhatIsApplied DEF PictureInv, Apply
<1>3. Attached' <=> Attached
  BY <1>2 DEF Attached
<1>4. /\ sent \in Seq(Keys) /\ n \in Nat \ {0} /\ sent[1] = k
      /\ Len(sent') = n - 1 /\ \A i \in 1 .. n - 1 : sent'[i] = sent[i + 1]
  BY <1>2, QueuesTyped, TailOf DEF PictureInv, IInv
<1>5. /\ crops' \in Seq(SUBSET Regions) /\ Len(crops') = n - 1 /\ Head(crops) = crops[1]
      /\ Head(crops) \subseteq Regions /\ \A i \in 1 .. n - 1 : crops'[i] = crops[i + 1]
  <2>1. crops \in Seq(SUBSET Regions) /\ Len(crops) = n
    BY DEF PictureInv, PictureOK
  <2>2. crops # << >>
    BY <1>4, <2>1, NoneIn
  <2>3. /\ Tail(crops) \in Seq(SUBSET Regions) /\ Len(Tail(crops)) = n - 1 /\ Head(crops) = crops[1]
        /\ Head(crops) \in SUBSET Regions /\ \A i \in 1 .. n - 1 : Tail(crops)[i] = crops[i + 1]
    BY <2>1, <2>2, TailOf
  <2>4. QED
    BY <1>1, <2>3
<1>6. /\ \A i \in 1 .. n - 1 : OnItsWay(i)' <=> OnItsWay(i + 1)
      /\ OnItsWay(1) <=> SurfaceOf(k) = srvSurface
      /\ ~OnItsWay(0) /\ ~OnItsWay(0)'
  BY <1>2, <1>4 DEF OnItsWay
<1>7. \A i \in 1 .. n - 1 : pixels'[sent'[i]] = pixels[sent[i + 1]]
  BY <1>1, <1>4
<1>8. PictureOK'
  <2>1. srvDirty' \subseteq Regions
    BY <1>1, <1>5 DEF Repaint, PictureInv, PictureOK
  <2>2. QED
    BY <1>1, <1>4, <1>5, <2>1 DEF PictureInv, PictureOK
<1>9. UiOK' /\ PrevIsWhole'
  BY <1>1, <1>2 DEF PictureInv, UiOK, PrevIsWhole
<1>10. ScreenIsShown'
  <2>1. CASE shown' = shown
    BY <1>1, <2>1 DEF Repaint, PictureInv, ScreenIsShown
  <2>2. CASE Attached /\ SurfaceOf(k) = srvSurface /\ shown' = k /\ k # shown /\ k # NoKey
    <3> SUFFICES ASSUME NEW r \in Regions, r \notin srvDirty' PROVE screen[r] = pixels[k][r]
      BY <1>1, <2>2 DEF ScreenIsShown
    <3>1. shown # NoKey /\ r \notin srvDirty /\ r \notin crops[1]
      BY <1>1, <1>5, <2>2 DEF Repaint
    <3>2. screen[r] = pixels[shown][r]
      BY <3>1 DEF PictureInv, ScreenIsShown
    <3>3. OnItsWay(1) /\ 1 \in 1 .. n
      BY <1>4, <1>6, <2>2
    <3>4. pixels[sent[1]][r] = pixels[shown][r]
      BY <2>2, <3>1, <3>3 DEF PictureInv, CropsOK
    <3>5. QED
      BY <1>4, <3>2, <3>4
  <2>3. QED
    BY <1>2, <2>1, <2>2
<1>11. CropsOK'
  <2> SUFFICES ASSUME Attached', NEW i \in 1 .. Len(sent'), OnItsWay(i)', NEW r \in Regions, r \notin crops'[i]
               PROVE  /\ OnItsWay(i - 1)' => pixels'[sent'[i]][r] = pixels'[sent'[i - 1]][r]
                      /\ i = 1 /\ shown' # NoKey => pixels'[sent'[i]][r] = pixels'[shown'][r]
    BY Zenon DEF CropsOK
  <2>1. /\ i \in 1 .. n - 1 /\ i + 1 \in 1 .. Len(sent) /\ Attached /\ OnItsWay(i + 1)
        /\ r \notin crops[i + 1] /\ (i + 1) - 1 = i
    BY <1>3, <1>4, <1>5, <1>6
  <2>2. OnItsWay(i) => pixels[sent[i + 1]][r] = pixels[sent[i]][r]
    BY <2>1 DEF PictureInv, CropsOK
  <2>3. ASSUME OnItsWay(i - 1)' PROVE pixels'[sent'[i]][r] = pixels'[sent'[i - 1]][r]
    <3>1. i - 1 \in 1 .. n - 1 /\ (i - 1) + 1 = i
      BY <1>4, <2>1, <2>3 DEF OnItsWay
    <3>2. OnItsWay(i)
      BY <1>6, <2>3, <3>1
    <3>3. pixels'[sent'[i - 1]] = pixels[sent[i]]
      BY <1>7, <3>1
    <3>4. QED
      BY <1>7, <2>1, <2>2, <3>2, <3>3
  <2>4. ASSUME i = 1, shown' # NoKey PROVE pixels'[sent'[i]][r] = pixels'[shown'][r]
    <3>1. SurfaceOf(k) = srvSurface /\ shown' = k
      BY <1>2, <2>1, <2>4
    <3>2. QED
      BY <1>1, <1>4, <1>6, <1>7, <2>1, <2>2, <2>4, <3>1
  <2>5. QED
    BY <2>3, <2>4
<1>12. PrevIsLast'
  <2> SUFFICES ASSUME Attached
               PROVE  IF prev = NoKey THEN shown' = NoKey /\ \A i \in 1 .. Len(sent') : ~OnItsWay(i)'
                      ELSE /\ SurfaceOf(prev) = srvSurface
                           /\ IF sent' = << >> THEN shown' = prev ELSE sent'[Len(sent')] = prev
    BY <1>1, <1>2, <1>3 DEF PrevIsLast
  <2>1. IF prev = NoKey THEN shown = NoKey /\ \A i \in 1 .. Len(sent) : ~OnItsWay(i)
        ELSE SurfaceOf(prev) = srvSurface /\ sent[Len(sent)] = prev
    BY <1>2 DEF PictureInv, PrevIsLast
  <2>2. CASE prev = NoKey
    <3>1. SurfaceOf(k) # srvSurface
      BY <1>4, <1>6, <2>1, <2>2
    <3>2. \A i \in 1 .. n - 1 : i + 1 \in 1 .. n
      BY <1>4
    <3>3. QED
      BY <1>2, <1>4, <1>6, <2>1, <2>2, <3>1, <3>2
  <2>3. CASE prev # NoKey /\ n = 1
    <3>1. Len(sent') = 0 /\ sent' \in Seq(Keys)
      BY <1>2, <1>4, <2>3, TailOf
    <3>2. sent' = << >>
      BY <3>1, EmptySeq
    <3>3. SurfaceOf(k) = srvSurface /\ k = prev
      BY <1>4, <2>1, <2>3
    <3>4. QED
      BY <1>2, <2>1, <2>3, <3>2, <3>3
  <2>4. CASE prev # NoKey /\ n # 1
    <3>1. n - 1 \in 1 .. n - 1 /\ (n - 1) + 1 = n /\ Len(sent') = n - 1 /\ n - 1 # 0
      BY <1>4, <2>4
    <3>2. sent' # << >>
      BY <3>1, NoneIn
    <3>3. sent'[n - 1] = sent[n]
      BY <1>4, <3>1
    <3>4. QED
      BY <2>1, <2>4, <3>1, <3>2, <3>3
  <2>5. QED
    BY <2>2, <2>3, <2>4
<1>13. Rising'
  <2>1. \A r \in Regions : screen[r] <= ui[r] /\ \A x \in Keys : pixels[x][r] <= ui[r]
    BY DEF PictureInv, Rising
  <2>2. ASSUME NEW i \in 1 .. n, Attached, OnItsWay(i), NEW r \in Regions
        PROVE  /\ screen[r] <= pixels[sent[i]][r]
               /\ shown # NoKey => pixels[shown][r] <= pixels[sent[i]][r]
               /\ \A j \in 1 .. i : OnItsWay(j) => pixels[sent[j]][r] <= pixels[sent[i]][r]
    BY <2>2 DEF PictureInv, Rising
  <2>3. shown' # NoKey => \A r \in Regions : screen[r] <= pixels[shown'][r]
    <3>1. CASE shown' = shown
      BY <3>1 DEF PictureInv, Rising
    <3>2. CASE Attached /\ SurfaceOf(k) = srvSurface /\ shown' = k
      <4>1. OnItsWay(1) /\ 1 \in 1 .. n
        BY <1>4, <1>6, <3>2
      <4>2. QED
        BY <1>4, <2>2, <3>2, <4>1
    <3>3. QED
      BY <1>2, <3>1, <3>2
  <2>4. ASSUME Attached', NEW i \in 1 .. Len(sent'), OnItsWay(i)', NEW r \in Regions
        PROVE  /\ screen[r] <= pixels'[sent'[i]][r]
               /\ shown' # NoKey => pixels'[shown'][r] <= pixels'[sent'[i]][r]
               /\ \A j \in 1 .. i : OnItsWay(j)' => pixels'[sent'[j]][r] <= pixels'[sent'[i]][r]
    <3>1. /\ i \in 1 .. n - 1 /\ i + 1 \in 1 .. n /\ Attached /\ OnItsWay(i + 1)
          /\ 1 \in 1 .. i + 1
      BY <1>3, <1>4, <1>6, <2>4
    <3>2. /\ screen[r] <= pixels[sent[i + 1]][r]
          /\ shown # NoKey => pixels[shown][r] <= pixels[sent[i + 1]][r]
          /\ \A j \in 1 .. i + 1 : OnItsWay(j) => pixels[sent[j]][r] <= pixels[sent[i + 1]][r]
      BY <2>2, <3>1
    <3>3. shown' # NoKey => pixels'[shown'][r] <= pixels'[sent'[i]][r]
      <4>1. CASE shown' = shown
        BY <1>1, <1>7, <3>1, <3>2, <4>1
      <4>2. CASE SurfaceOf(k) = srvSurface /\ shown' = k
        <5>1. pixels[sent[1]][r] <= pixels[sent[i + 1]][r]
          BY <1>6, <3>1, <3>2, <4>2
        <5>2. QED
          BY <1>1, <1>4, <1>7, <3>1, <4>2, <5>1
      <4>3. QED
        BY <1>2, <4>1, <4>2
    <3>4. ASSUME NEW j \in 1 .. i, OnItsWay(j)' PROVE pixels'[sent'[j]][r] <= pixels'[sent'[i]][r]
      <4>1. j \in 1 .. n - 1 /\ j + 1 \in 1 .. i + 1
        BY <1>4, <3>1
      <4>2. OnItsWay(j + 1)
        BY <1>6, <3>4, <4>1
      <4>3. pixels[sent[j + 1]][r] <= pixels[sent[i + 1]][r]
        BY <3>2, <4>1, <4>2
      <4>4. QED
        BY <1>7, <3>1, <4>1, <4>3
    <3>5. QED
      BY <1>7, <3>1, <3>2, <3>3, <3>4
  <2>5. QED
    BY <1>1, <2>1, <2>3, <2>4 DEF Rising
<1>14. QED
  BY <1>8, <1>9, <1>10, <1>11, <1>12, <1>13 DEF PictureInv

(***************************************************************************)
(* The server draws what is to be drawn again, and the screen shows the    *)
(* buffer shown.                                                           *)
(***************************************************************************)
LEMMA ServerRenderPicture ==
  ASSUME PictureInv, IInv', ServerRender
  PROVE  PictureInv'
<1>1. /\ UNCHANGED <<appVisible, appSurface, drawing, calling, srvSurface, shown, sent>>
      /\ UNCHANGED <<ui, dirty, invalidation, hasItem, prev, allDirty, pixels, crops>>
      /\ srvDirty' = {}
      /\ screen' = [r \in Regions |-> IF r \notin srvDirty THEN screen[r]
                                      ELSE IF shown = NoKey THEN Blank ELSE pixels[shown][r]]
  BY DEF ServerRender, vars, appVars, srvVars, uiVars
<1>2. \A r \in Regions : screen'[r] = IF shown = NoKey THEN Blank ELSE pixels[shown][r]
  BY <1>1 DEF PictureInv, ScreenIsShown
<1>3. shown # NoKey => shown \in Keys /\ Attached
  BY QueuesTyped, ShownAttached DEF PictureInv, IInv
<1>4. /\ \A r \in Regions : ui[r] \in Nat
      /\ \A k \in Keys : pixels[k] \in [Regions -> Version] /\ \A r \in Regions : pixels[k][r] \in Nat
      /\ Blank = 0
  BY PictureTyped DEF PictureInv
<1>5. (Attached' <=> Attached) /\ \A i : OnItsWay(i)' <=> OnItsWay(i)
  BY <1>1 DEF Attached, OnItsWay
<1>6. PictureOK'
  <2>1. Blank \in Version
    BY RegionAssumption DEF Blank, Version
  <2>2. \A r \in Regions : screen'[r] \in Version
    BY <1>2, <1>3, <1>4, <2>1
  <2>3. screen' \in [Regions -> Version]
    BY <1>1, <2>2
  <2>4. QED
    BY <1>1, <2>3 DEF PictureInv, PictureOK
<1>7. UiOK' /\ PrevIsWhole'
  BY <1>1 DEF PictureInv, UiOK, PrevIsWhole
<1>8. ScreenIsShown'
  BY <1>1, <1>2 DEF ScreenIsShown
<1>9. CropsOK' /\ PrevIsLast'
  BY <1>1, <1>5 DEF PictureInv, CropsOK, PrevIsLast
<1>10. Rising'
  <2>1. \A r \in Regions : screen'[r] <= ui[r] /\ (shown # NoKey => screen'[r] <= pixels[shown][r])
    BY <1>2, <1>3, <1>4 DEF PictureInv, Rising
  <2>2. ASSUME Attached, NEW i \in 1 .. Len(sent), OnItsWay(i), NEW r \in Regions
        PROVE  screen'[r] <= pixels[sent[i]][r]
    <3>1. CASE shown = NoKey
      <4>1. sent[i] \in Keys
        BY <2>2, QueuesTyped, RangeOf DEF PictureInv, IInv
      <4>2. QED
        BY <1>2, <1>4, <3>1, <4>1
    <3>2. CASE shown # NoKey
      BY <1>2, <2>2, <3>2 DEF PictureInv, Rising
    <3>3. QED
      BY <3>1, <3>2
  <2>3. QED
    BY <1>1, <1>5, <2>1, <2>2 DEF PictureInv, Rising
<1>11. QED
  BY <1>6, <1>7, <1>8, <1>9, <1>10 DEF PictureInv

(* Nothing changes. *)
LEMMA PictureStutters ==
  ASSUME PictureInv, IInv', UNCHANGED allVars
  PROVE  PictureInv'
<1>1. /\ UNCHANGED <<appVisible, appSurface, drawing, calling, srvSurface, shown, sent>>
      /\ UNCHANGED <<ui, dirty, invalidation, hasItem, prev, allDirty, pixels, crops, srvDirty, screen>>
  BY DEF allVars, vars, appVars, srvVars, picture, uiVars
<1>2. ScreenIsShown' /\ CropsOK' /\ PrevIsLast' /\ Rising'
  <2>1. \A r \in Regions : ui'[r] \in Nat /\ ui[r] <= ui'[r]
    BY <1>1, PictureTyped DEF PictureInv
  <2>2. QED
    BY <1>1, <2>1, ScreenUntouched
<1>3. PictureOK' /\ UiOK' /\ PrevIsWhole'
  BY <1>1 DEF PictureInv, PictureOK, UiOK, PrevIsWhole
<1>4. QED
  BY <1>2, <1>3 DEF PictureInv

(* Before the window is shown, all is blank. *)
LEMMA PictureInitHolds == PictureInit => PictureInv
<1> SUFFICES ASSUME PictureInit PROVE PictureInv
  OBVIOUS
<1>1. IInv
  BY InitHolds DEF PictureInit
<1>2. /\ appVisible = FALSE /\ appSurface = NoSurface /\ drawing = NoKey /\ srvSurface = NoSurface
      /\ shown = NoKey /\ sent = << >>
  BY DEF PictureInit, Init, NoIds
<1>3. /\ ui = [r \in Regions |-> 1] /\ dirty = {}
      /\ invalidation = TRUE /\ hasItem = FALSE /\ prev = NoKey /\ allDirty = TRUE
      /\ pixels = [k \in Keys |-> Blanks] /\ crops = << >>
      /\ srvDirty = {} /\ screen = Blanks
  BY DEF PictureInit
<1>4. 1 \in Version \ {Blank} /\ 0 \in Version /\ Blank = 0 /\ Blanks \in [Regions -> Version]
  BY RegionAssumption DEF Version, Blank, Blanks
<1>5. << >> \in Seq(SUBSET Regions) /\ Len(<< >>) = 0
  BY NoneIn
<1>6. PictureOK
  <2>1. ui \in [Regions -> Version \ {Blank}] /\ screen \in [Regions -> Version]
    BY <1>3, <1>4
  <2>2. pixels \in [Keys -> [Regions -> Version]]
    BY <1>3, <1>4
  <2>3. crops \in Seq(SUBSET Regions) /\ Len(crops) = Len(sent)
    BY <1>2, <1>3, <1>5
  <2>4. QED
    BY <1>3, <2>1, <2>2, <2>3 DEF PictureOK
<1>7. ~Attached
  BY <1>2 DEF Attached
<1>8. UiOK /\ PrevIsWhole /\ CropsOK /\ PrevIsLast
  BY <1>2, <1>3, <1>7 DEF UiOK, PrevIsWhole, CropsOK, PrevIsLast
<1>9. ScreenIsShown
  BY <1>2, <1>3 DEF ScreenIsShown, Blanks
<1>10. Rising
  BY <1>2, <1>3, <1>7 DEF Rising, Blanks, Blank
<1>11. QED
  BY <1>1, <1>6, <1>8, <1>9, <1>10 DEF PictureInv

(* Every step of DirectRender. *)
LEMMA PictureNextKeeps == PictureInv /\ [PictureNext]_allVars => PictureInv'
<1> SUFFICES ASSUME PictureInv, [PictureNext]_allVars PROVE PictureInv'
  OBVIOUS
<1>1. IInv'
  BY StepKeepsBuffers DEF PictureInv
<1>2. ASSUME NEW lo \in Regions, NEW hi \in Regions, lo <= hi, UiChanges(lo .. hi) PROVE PictureInv'
  <2>1. lo .. hi \in SUBSET Regions
    BY RegionAssumption DEF Regions
  <2>2. QED
    BY <1>1, <1>2, <2>1, UiChangesPicture
<1>3. ASSUME NEW visible \in BOOLEAN, SetVisible(visible), UpdateVisibility(visible), Repaint({})
      PROVE  PictureInv'
  BY <1>1, <1>3, SetVisiblePicture
<1>4. CASE FrameWithoutSurface /\ Repaint({}) /\ UNCHANGED <<uiVars, pixels, crops, screen>>
  BY <1>1, <1>4, FrameWithoutSurfacePicture
<1>5. CASE Returns
  BY <1>1, <1>5, ReturnsPicture
<1>6. CASE FrameBegin /\ UNCHANGED picture
  BY <1>1, <1>6, FrameBeginPicture
<1>7. CASE Draw
  BY <1>1, <1>7, FrameSendPicture, FrameCancelPicture DEF Draw
<1>8. CASE Apply
  BY <1>1, <1>8, ApplyPictureKeeps
<1>9. CASE (Remove \/ RemoveCleanup) /\ Repaint({}) /\ UNCHANGED <<uiVars, pixels, crops, screen>>
  BY <1>1, <1>9, RemovePicture
<1>10. CASE ServerRender
  BY <1>1, <1>10, ServerRenderPicture
<1>11. CASE UNCHANGED allVars
  BY <1>1, <1>11, PictureStutters
<1>12. QED
  BY <1>2, <1>3, <1>4, <1>5, <1>6, <1>7, <1>8, <1>9, <1>10, <1>11 DEF PictureNext

(* PictureInv holds in every state that DirectRender reaches. *)
THEOREM PictureInvariance == PictureSpec => []PictureInv
<1>1. QED
  BY PictureInitHolds, PictureNextKeeps, PTL DEF PictureSpec

(***************************************************************************)
(* The pictures, the areas and the crops keep their types, and every       *)
(* transaction on its way has the crop that was set for it.                *)
(***************************************************************************)
THEOREM PicturesTyped == PictureSpec => []PictureOK
<1>1. PictureInv => PictureOK
  BY DEF PictureInv
<1>2. QED
  BY <1>1, PictureInvariance, PTL

(***************************************************************************)
(* The buffer that onRenderStart copies from is up to date but for the     *)
(* areas still dirty, after any number of frames, drawn and cancelled, and *)
(* of changes made while the window was hidden.                            *)
(***************************************************************************)
THEOREM NewestPictureIsWhole == PictureSpec => []NewestIsWhole
<1>1. PictureInv => NewestIsWhole
  BY DEF PictureInv, PrevIsWhole, NewestIsWhole
<1>2. QED
  BY <1>1, PictureInvariance, PTL

LEMMA WholeIsShown == PictureInv => ScreenIsUi
<1> SUFFICES ASSUME PictureInv, Attached, appVisible, Idle, shown # NoKey, dirty = {}, sent = << >>, srvDirty = {}
             PROVE  screen = ui
  BY DEF ScreenIsUi
<1>1. prev = shown /\ invalidation
  BY DEF PictureInv, PrevIsLast, UiOK
<1>2. \A r \in Regions : screen[r] = ui[r]
  BY <1>1 DEF PictureInv, PrevIsWhole, ScreenIsShown
<1>3. screen \in [Regions -> Version] /\ ui \in [Regions -> Version]
  BY DEF PictureInv, PictureOK
<1>4. QED
  BY <1>2, <1>3

(***************************************************************************)
(* When no area is dirty, no transaction is on its way and the server has  *)
(* drawn, the screen shows what the app would draw, although lv_mainwnd    *)
(* repaints only the areas of the transactions.                            *)
(***************************************************************************)
THEOREM ScreenShowsUi == PictureSpec => []ScreenIsUi
<1>1. QED
  BY WholeIsShown, PictureInvariance, PTL

(***************************************************************************)
(* What PictureArrives comes to in every state: as long as the screen is   *)
(* not what the app would draw, the app draws, or has something to draw, a *)
(* frame is on its way, or the server has something to draw.  With         *)
(* StarvedIsServed, and with FrameIsAsked for the frames of the app, one   *)
(* of the two always has a step to take.                                   *)
(***************************************************************************)
PictureComes ==
  Attached /\ appVisible /\ screen # ui =>
    drawing # NoKey \/ dirty # {} \/ sent # << >> \/ srvDirty # {}

THEOREM PictureAlwaysComes == PictureSpec => []PictureComes
<1>1. PictureInv => PictureComes
  <2> SUFFICES ASSUME PictureInv, Attached, appVisible, drawing = NoKey, dirty = {}, sent = << >>, srvDirty = {}
               PROVE  screen = ui
    BY DEF PictureComes
  <2>1. 1 \in Regions
    BY RegionAssumption DEF Regions
  <2>2. prev # NoKey
    BY <2>1 DEF PictureInv, UiOK
  <2>3. shown # NoKey
    BY <2>2 DEF PictureInv, PrevIsLast
  <2>4. Idle
    BY WhenAttached DEF PictureInv, Idle
  <2>5. QED
    BY <2>3, <2>4, WholeIsShown DEF ScreenIsUi
<1>2. QED
  BY <1>1, PictureInvariance, PTL

(***************************************************************************)
(* drawFrame never draws into a buffer that the server shows or that is on *)
(* its way there.                                                          *)
(***************************************************************************)
THEOREM DrawnIntoUnseen == PictureSpec => DrawnUnseen
<1>1. PictureInv /\ [PictureNext]_allVars
        => [\A k \in Keys : pixels'[k] # pixels[k] => k # shown /\ k \notin Range(sent)]_allVars
  <2> SUFFICES ASSUME PictureInv, PictureNext, NEW k \in Keys, pixels'[k] # pixels[k]
               PROVE  k # shown /\ k \notin Range(sent)
    OBVIOUS
  <2>1. FrameSend /\ Drawn
    BY DEF PictureNext, UiChanges, UpdateVisibility, Returns, ResetBuffer, picture, Draw, NothingDrawn,
           Apply, ApplyPicture, ServerRender
  <2>2. drawing # NoKey
    BY <2>1 DEF FrameSend
  <2>3. k = drawing
    BY <2>1, <2>2, FrameIsWhole
  <2>4. QED
    BY <2>2, <2>3, DrawnIsUnseen DEF PictureInv
<1>2. QED
  BY <1>1, PictureInvariance, PTL DEF PictureSpec, DrawnUnseen

(***************************************************************************)
(* draw_buffer never puts an older version of a region on the screen while *)
(* the window is there.                                                    *)
(***************************************************************************)
THEOREM ScreenNeverGoesBack == PictureSpec => NeverOlder
<1>1. PictureInv /\ [PictureNext]_allVars
        => [\A r \in Regions : screen[r] # Blank /\ screen'[r] # Blank => screen'[r] >= screen[r]]_allVars
  <2> SUFFICES ASSUME PictureInv, PictureNext, NEW r \in Regions, screen[r] # Blank, screen'[r] # Blank
               PROVE  screen'[r] >= screen[r]
    OBVIOUS
  <2>1. CASE screen' = screen
    BY <2>1, PictureTyped DEF PictureInv
  <2>2. CASE ServerRender
    <3>1. screen'[r] = screen[r] \/ (shown # NoKey /\ screen'[r] = pixels[shown][r])
      BY <2>2 DEF ServerRender
    <3>2. CASE screen'[r] = screen[r]
      BY <3>2, PictureTyped DEF PictureInv
    <3>3. CASE shown # NoKey /\ screen'[r] = pixels[shown][r]
      BY <3>3, PictureTyped, QueuesTyped DEF PictureInv, Rising, IInv
    <3>4. QED
      BY <3>1, <3>2, <3>3
  <2>3. QED
    BY <2>1, <2>2 DEF PictureNext, UiChanges, UpdateVisibility, Returns, ResetBuffer, picture, Draw, Drawn,
           NothingDrawn, Apply, ApplyPicture
<1>2. QED
  BY <1>1, PictureInvariance, PTL DEF PictureSpec, NeverOlder

(***************************************************************************)
(* DirectRender only adds to SurfaceBuffers: what is proved of the buffers *)
(* holds of the buffers with pictures.                                     *)
(***************************************************************************)
THEOREM PicturesKeepBuffers == PictureSpec => Spec
<1>1. PictureInit => Init
  BY DEF PictureInit
<1>2. [PictureNext]_allVars => [Next]_vars
  BY DEF PictureNext, allVars, UiChanges, Returns, Draw, Apply, ServerRender, Next
<1>3. QED
  BY <1>1, <1>2, PTL DEF PictureSpec, Spec
-----------------------------------------------------------------------------
(* FrameRequests *)

(* A step of FrameRequests is one of DirectRender, or leaves it alone. *)
LEMMA StepKeepsPictures == [RequestsNext]_everything => [PictureNext]_allVars
BY DEF RequestsNext, everything, Changes, Shows, Relayouted, FrameMakesSurface, FrameSkipped, FrameDraws,
       Draws, Applying, Rendering, Removing, PictureNext

(***************************************************************************)
(* FrameRequests only adds requests to DirectRender: what is proved of the *)
(* pictures and of the buffers holds of the window that asks for frames.   *)
(***************************************************************************)
THEOREM RequestsKeepPictures == RequestsSpec => PictureSpec
<1>1. RequestsInit => PictureInit
  BY DEF RequestsInit
<1>2. QED
  BY <1>1, StepKeepsPictures, PTL DEF RequestsSpec, PictureSpec

NoneFree == \A k \in DOMAIN producer.state : producer.state[k] # "FREE"

(***************************************************************************)
(* What the app has asked for while it can draw.  If it has drawn on the   *)
(* surface before, what is dirty now became so after the last frame, and   *)
(* LVGL has asked for two frames at least; one of them brings the next.    *)
(* If it has not, all buffers are free, so the first frame cannot be the   *)
(* one that leaves none.                                                   *)
(***************************************************************************)
AskedOK ==
  Drawing /\ appVisible =>
    /\ hasItem /\ dirty # {} => request # None /\ (drawing = NoKey => request # Single)
    /\ ~hasItem => \A k \in DOMAIN producer.state : producer.state[k] = "FREE" \/ k = drawing
    /\ drawing = NoKey /\ (NoneFree \/ (~hasItem /\ ~late)) => request # None

(* The inductive invariant of FrameRequests. *)
RequestsInv == PictureInv /\ request \in VsyncRequest /\ late \in BOOLEAN /\ AskedOK

(* nextVsyncState and scheduleVsync *)
LEMMA RequestsTyped ==
  ASSUME request \in VsyncRequest
  PROVE  /\ NextVsyncState(request) \in VsyncRequest
         /\ request = SingleSuppress => NextVsyncState(request) = Single
         /\ request = Periodic => NextVsyncState(request) = Periodic
         /\ None # Single /\ {None, Single, SingleSuppress, Periodic} \subseteq VsyncRequest
         /\ SingleSuppress \notin {None, Single} /\ Periodic \notin {None, Single}
BY DEF VsyncRequest, NextVsyncState, None, Single, SingleSuppress, Periodic

(* The UI changes, and LVGL asks for what is newly dirty. *)
LEMMA ChangesAsked ==
  ASSUME RequestsInv, Changes
  PROVE  request' \in VsyncRequest /\ late' \in BOOLEAN /\ AskedOK'
<1>1. /\ UNCHANGED <<calling, appSurface, appVisible, drawing, producer, hasItem, late>>
      /\ drawing = NoKey
  BY DEF Changes, UiChanges, vars, appVars, Idle
<1>2. OnInvalidate \/ (dirty' = dirty /\ request' = request)
  BY DEF Changes, RefrRequest
<1>3. CASE OnInvalidate
  <2>1. PICK freq \in {SingleSuppress, Periodic} : request' = IF appVisible' THEN freq ELSE request
    BY <1>3 DEF OnInvalidate, ScheduleVsync
  <2>2. request' \in VsyncRequest /\ (appVisible' => request' # None /\ request' # Single)
    BY <2>1, RequestsTyped DEF RequestsInv
  <2>3. QED
    BY <1>1, <2>2 DEF RequestsInv, AskedOK, Drawing
<1>4. CASE dirty' = dirty /\ request' = request
  BY <1>1, <1>4 DEF RequestsInv, AskedOK, Drawing, NoneFree
<1>5. QED
  BY <1>2, <1>3, <1>4

(* setVisible, up to its relayout *)
LEMMA ShowsAsked ==
  ASSUME RequestsInv, NEW visible \in BOOLEAN, Shows(visible)
  PROVE  request' \in VsyncRequest /\ late' \in BOOLEAN /\ AskedOK'
<1>1. calling' = "setVisible" /\ late' = late
  BY DEF Shows, SetVisible
<1>2. request' \in VsyncRequest
  BY RequestsTyped DEF RequestsInv, Shows, RefrRequest, OnInvalidate, ScheduleVsync
<1>3. QED
  BY <1>1, <1>2 DEF RequestsInv, AskedOK, Drawing

(* A new surface: all of its buffers are free, and setVisible asks for a frame. *)
LEMMA RelayoutedAsked ==
  ASSUME RequestsInv, IInv', Relayouted
  PROVE  request' \in VsyncRequest /\ late' \in BOOLEAN /\ AskedOK'
<1>1. /\ calling # "none" /\ (OpenSurface \/ NoSurfaceToOpen)
      /\ UNCHANGED <<appVisible, drawing>> /\ hasItem' = FALSE
      /\ late' = (calling = "onFrame" /\ appSurface' \in Surfaces)
  BY DEF Relayouted, Returns, RelayoutReturns, ResetBuffer
<1>2. /\ request' \in VsyncRequest
      /\ appVisible /\ ~late' /\ appSurface' \in Surfaces => request' # None
  BY <1>1, RequestsTyped DEF RequestsInv, Relayouted, ScheduleVsync
<1>3. ASSUME Drawing'
      PROVE  /\ \A k \in DOMAIN producer'.state : producer'.state[k] = "FREE"
             /\ \E k \in DOMAIN producer'.state : TRUE
  <2>1. appSurface' \in Surfaces
    BY <1>3 DEF Drawing
  <2>2. producer' = NewQueue(IdsOf(appSurface'))
    BY <1>1, <2>1, Zeros DEF OpenSurface, NoSurfaceToOpen
  <2>3. DOMAIN producer'.state = Surface(appSurface') /\ \A k \in Surface(appSurface') : producer'.state[k] = "FREE"
    BY <2>1, <2>2, Fresh
  <2>4. PICK s \in Surfaces : s = appSurface'
    BY <2>1
  <2>5. 1 \in DOMAIN IdsOf(s)
    BY <2>4, IdsTyped, CountAssumption
  <2>6. IdsOf(s)[1] \in Surface(s)
    BY <2>5 DEF Surface, Range
  <2>7. QED
    BY <2>3, <2>4, <2>6
<1>4. AskedOK'
  <2> SUFFICES ASSUME Drawing', appVisible' PROVE AskedOK'
    BY DEF AskedOK
  <2>1. ~NoneFree'
    BY <1>3 DEF NoneFree
  <2>2. ~late' => request' # None
    BY <1>1, <1>2 DEF Drawing
  <2>3. QED
    BY <1>1, <1>3, <2>1, <2>2 DEF AskedOK
<1>5. QED
  BY <1>1, <1>2, <1>4

(* A frame is counted; one that finds no buffer asks for another. *)
LEMMA FrameDrawsAsked ==
  ASSUME RequestsInv, IInv', FrameDraws
  PROVE  request' \in VsyncRequest /\ late' \in BOOLEAN /\ AskedOK'
<1>1. /\ FrameBegin /\ late' = FALSE
      /\ UNCHANGED <<calling, appSurface, appVisible, hasItem, dirty>>
      /\ appVisible /\ appSurface \in Surfaces /\ calling = "none" /\ drawing = NoKey
  BY DEF FrameDraws, FrameBegin, Idle, picture, uiVars
<1>2. Drawing /\ IInv
  BY <1>1 DEF RequestsInv, PictureInv, Drawing
<1>3. PICK K : K = Surface(created)
  OBVIOUS
<1>4. DOMAIN producer.state = K /\ DOMAIN producer'.state = K /\ NoKey \notin K
  <2>1. DOMAIN producer.state = Surface(appSurface) /\ appSurface = created /\ NoKey \notin K
    BY <1>2, <1>3, WhenDrawing
  <2>2. DOMAIN producer'.state = Surface(appSurface')
    BY <1>1 DEF IInv, TypeOK, Surface
  <2>3. QED
    BY <1>1, <1>3, <2>1, <2>2
<1>5. /\ CanDequeue(Synced) => drawing' # NoKey
      /\ ~CanDequeue(Synced) => drawing' = NoKey
  <2>1. PICK p : p = Synced
    OBVIOUS
  <2>2. /\ p \in QueueType(K) /\ SlotsAgree(p)
        /\ p.free = << >> => drawing' = NoKey
        /\ p.free # << >> => drawing' \in K
    BY <1>1, <1>2, <1>3, <2>1, FrameBegins
  <2>3. CanDequeue(p) <=> p.free # << >>
    BY <2>2, HeadIsTaken
  <2>4. QED
    BY <1>4, <2>1, <2>2, <2>3
<1>6. \A k \in K : producer.state[k] = "FREE" => producer'.state[k] = "FREE" \/ k = drawing'
  BY <1>1, <1>2, <1>3, FrameStates
<1>7. ~hasItem => \A k \in DOMAIN producer'.state : producer'.state[k] = "FREE" \/ k = drawing'
  BY <1>1, <1>2, <1>4, <1>6 DEF RequestsInv, AskedOK
<1>8. hasItem /\ dirty # {} => request # None /\ request # Single
  BY <1>1, <1>2 DEF RequestsInv, AskedOK
<1>9. CASE CanDequeue(Synced)
  <2>1. request' = NextVsyncState(request)
    BY <1>9 DEF FrameDraws, CountedOrAsked, Counted
  <2>2. request' \in VsyncRequest
    BY <2>1, RequestsTyped DEF RequestsInv
  <2>3. request # None /\ request # Single => request' # None
    BY <2>1, RequestsTyped DEF RequestsInv, VsyncRequest
  <2>4. drawing' # NoKey
    BY <1>5, <1>9
  <2>5. AskedOK'
    BY <1>1, <1>7, <1>8, <2>3, <2>4 DEF AskedOK
  <2>6. QED
    BY <1>1, <2>2, <2>5
<1>10. CASE ~CanDequeue(Synced)
  <2>1. request' \in {SingleSuppress, Periodic}
    BY <1>1, <1>10, RequestsTyped DEF RequestsInv, FrameDraws, CountedOrAsked, Counted, ScheduleVsync
  <2>2. request' \in VsyncRequest /\ request' # None /\ request' # Single
    BY <2>1, RequestsTyped DEF RequestsInv
  <2>3. AskedOK'
    BY <1>1, <1>7, <2>2 DEF AskedOK
  <2>4. QED
    BY <1>1, <2>2, <2>3
<1>11. QED
  BY <1>9, <1>10

(***************************************************************************)
(* The frame is drawn or cancelled.  If it is cancelled its buffer is free *)
(* again; the first on a surface leaves another buffer free; before any    *)
(* other, two frames were asked for.                                       *)
(***************************************************************************)
LEMMA DrawsAsked ==
  ASSUME RequestsInv, Draws
  PROVE  request' \in VsyncRequest /\ late' \in BOOLEAN /\ AskedOK'
<1>1. /\ UNCHANGED <<request, late, calling, appSurface, appVisible>>
      /\ drawing # NoKey /\ drawing' = NoKey /\ hasItem' = TRUE /\ dirty' = {}
  BY DEF Draws, Draw, FrameSend, FrameCancel, Drawn, NothingDrawn, requests
<1>2. Drawing /\ IInv /\ IInv'
  <2>1. [PictureNext]_allVars
    BY StepKeepsPictures DEF RequestsNext
  <2>2. IInv
    BY DEF RequestsInv, PictureInv
  <2>3. QED
    BY <1>1, <2>1, <2>2, StepKeepsBuffers, DrawnIsNew
<1>3. PICK K : K = Surface(created)
  OBVIOUS
<1>4. DOMAIN producer.state = K /\ DOMAIN producer'.state = K /\ drawing \in K /\ created \in Surfaces
  <2>1. DOMAIN producer.state = Surface(appSurface) /\ appSurface = created /\ created \in Surfaces
        /\ drawing \in DOMAIN producer.state
    BY <1>1, <1>2, WhenDrawing, DrawnIsNew
  <2>2. DOMAIN producer'.state = Surface(appSurface')
    BY <1>1, <1>2, <2>1 DEF IInv, TypeOK, Surface
  <2>3. QED
    BY <1>1, <1>3, <2>1, <2>2
<1>5. PICK to \in {"FREE", "QUEUED"} :
        /\ producer' = ToState(producer, drawing, to)
        /\ to = "QUEUED" => dirty # {}
  BY DEF Draws, Draw, FrameSend, FrameCancel, Drawn
<1>6. \A k \in K : producer'.state[k] = IF k = drawing THEN to ELSE producer.state[k]
  <2>1. producer \in QueueType(K) /\ SlotsAgree(producer) /\ producer.state[drawing] = "DEQUEUED"
    BY <1>1, <1>2, <1>3, WhenDrawing, DrawnIsNew DEF IInv
  <2>2. QED
    BY <1>4, <1>5, <2>1, DrawnIsPut
<1>7. ASSUME appVisible, NoneFree' PROVE request # None
  <2>1. to = "QUEUED"
    BY <1>4, <1>5, <1>6, <1>7 DEF NoneFree
  <2>2. PICK other \in K : other # drawing
    BY <1>3, <1>4, AnotherBuffer
  <2>3. producer.state[other] # "FREE"
    BY <1>4, <1>6, <1>7, <2>2 DEF NoneFree
  <2>4. hasItem /\ dirty # {}
    BY <1>2, <1>4, <1>5, <1>7, <2>1, <2>2, <2>3 DEF RequestsInv, AskedOK
  <2>5. QED
    BY <1>2, <1>7, <2>4 DEF RequestsInv, AskedOK
<1>8. QED
  BY <1>1, <1>7 DEF RequestsInv, AskedOK

(* Steps that ask for nothing and leave the app as it is. *)
LEMMA StillAsked ==
  ASSUME RequestsInv, UNCHANGED <<appVars, uiVars, late>>, request' \in VsyncRequest,
         Drawing /\ appVisible => request' = request
  PROVE  request' \in VsyncRequest /\ late' \in BOOLEAN /\ AskedOK'
BY DEF RequestsInv, AskedOK, Drawing, NoneFree, appVars, uiVars

(* Every step of FrameRequests. *)
LEMMA RequestsNextKeeps == RequestsInv /\ [RequestsNext]_everything => RequestsInv'
<1>1. ASSUME RequestsInv, [RequestsNext]_everything PROVE PictureInv' /\ IInv'
  <2>1. PictureInv'
    BY <1>1, StepKeepsPictures, PictureNextKeeps DEF RequestsInv
  <2>2. QED
    BY <2>1 DEF PictureInv
<1> SUFFICES ASSUME RequestsInv, [RequestsNext]_everything, IInv'
             PROVE  request' \in VsyncRequest /\ late' \in BOOLEAN /\ AskedOK'
  BY <1>1 DEF RequestsInv
<1>2. CASE Changes
  BY <1>2, ChangesAsked
<1>3. ASSUME NEW visible \in BOOLEAN, Shows(visible)
      PROVE  request' \in VsyncRequest /\ late' \in BOOLEAN /\ AskedOK'
  BY <1>3, ShowsAsked
<1>4. CASE Relayouted
  BY <1>4, RelayoutedAsked
<1>5. CASE FrameMakesSurface
  <2>1. calling' = "onFrame" /\ late' = late /\ request' = NextVsyncState(request)
    BY <1>5 DEF FrameMakesSurface, FrameWithoutSurface, Counted
  <2>2. QED
    BY <2>1, RequestsTyped DEF RequestsInv, AskedOK, Drawing
<1>6. CASE FrameSkipped
  <2>1. UNCHANGED <<appVars, uiVars, late>> /\ request' = NextVsyncState(request)
    BY <1>6 DEF FrameSkipped, Counted, allVars, vars, picture
  <2>2. ~(Drawing /\ appVisible)
    BY <1>6, Zeros DEF FrameSkipped, Drawing
  <2>3. request' \in VsyncRequest
    BY <2>1, RequestsTyped DEF RequestsInv
  <2>4. QED
    BY <2>1, <2>2, <2>3, StillAsked
<1>7. CASE FrameDraws
  BY <1>7, FrameDrawsAsked
<1>8. CASE Draws
  BY <1>8, DrawsAsked
<1>9. CASE Applying \/ Rendering \/ Removing \/ UNCHANGED everything
  <2>1. UNCHANGED <<appVars, uiVars, late, request>>
    BY <1>9 DEF Applying, Apply, ApplyTransaction, ApplyPicture, Rendering, ServerRender, Removing, Remove,
                 RemoveCleanup, requests, everything, allVars, vars, picture
  <2>2. request' \in VsyncRequest /\ UNCHANGED <<appVars, uiVars, late>>
    BY <2>1 DEF RequestsInv
  <2>3. QED
    BY <2>1, <2>2, StillAsked
<1>10. QED
  BY <1>2, <1>3, <1>4, <1>5, <1>6, <1>7, <1>8, <1>9 DEF RequestsNext

(***************************************************************************)
(* A window that has something to draw, or no buffer to draw into, has     *)
(* asked for a frame, whatever frames have come in between, unless its     *)
(* surface was made in the last frame it asked for (NeverAsked).           *)
(***************************************************************************)
THEOREM FrameIsAlwaysAsked == RequestsSpec => []FrameIsAsked
<1>1. RequestsInit => RequestsInv
  <2> SUFFICES ASSUME RequestsInit PROVE RequestsInv
    OBVIOUS
  <2>1. PictureInv /\ appVisible = FALSE /\ request = None /\ late = FALSE
    BY PictureInitHolds DEF RequestsInit, PictureInit, Init
  <2>2. QED
    BY <2>1 DEF RequestsInv, AskedOK, VsyncRequest
<1>2. RequestsInv => FrameIsAsked
  <2> SUFFICES ASSUME RequestsInv, Idle, appVisible, appSurface \in Surfaces, request = None, ~late
               PROVE  dirty = {} /\ \E k \in DOMAIN producer.state : producer.state[k] = "FREE"
    BY DEF FrameIsAsked, NeverAsked
  <2>1. Drawing /\ drawing = NoKey
    BY DEF Idle, Drawing
  <2>2. hasItem /\ dirty = {} /\ ~NoneFree
    BY <2>1 DEF RequestsInv, AskedOK
  <2>3. QED
    BY <2>2 DEF NoneFree
<1>3. QED
  BY <1>1, <1>2, RequestsNextKeeps, PTL DEF RequestsSpec
=============================================================================
