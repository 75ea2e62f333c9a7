------------------------- MODULE InputChannels_proof -------------------------
(***************************************************************************)
(* What TLAPS proves of InputChannels, for any channels, names, capacity   *)
(* and queues: its types, which say that no queue outgrows its capacity;   *)
(* that no queue keeps its name when both ends have let it go; and that    *)
(* each channel receives its own messages in order and loses none but to   *)
(* its own full queue.                                                     *)
(*                                                                         *)
(* The names rest on HalfOpen: when the server has closed a channel the    *)
(* app still has open, the name is free, and stays so as long as the       *)
(* channel uses it. So a channel that opens gets a queue of its own        *)
(* (OneChannel), and what it has received followed by what is in its queue *)
(* (Stream) grows only by what is sent to it.                              *)
(***************************************************************************)
EXTENDS InputChannels, FiniteSetTheorems, TLAPS

EndsAreQueues ==
  /\ \A c \in Channels : srvEnd[c] \in 0 .. Len(queues) /\ appEnd[c] \in 0 .. Len(queues)
  /\ \A n \in Names : named[n] \in 0 .. Len(queues)

HalfOpen ==
  \A c \in Channels : srvEnd[c] = Closed /\ appEnd[c] # Closed =>
    \A n \in Names : n = name[c] => named[n] = Closed

IInv == TypeOK /\ EndsAreQueues /\ HalfOpen /\ NoNameIsLeft

-----------------------------------------------------------------------------
(* Messages and queues *)

LEMMA SetToSeqTyped ==
  ASSUME NEW S, IsFiniteSet(S)
  PROVE  SetToSeq(S) \in Seq(S)
<1>1. Cardinality(S) \in Nat /\ ExistsBijection(1 .. Cardinality(S), S)
  BY FS_CardinalityType
<1>2. \E f \in [1 .. Cardinality(S) -> S] : IsInjective(f)
  BY <1>1 DEF ExistsBijection, Bijection, Injection
<1>3. SetToSeq(S) \in [1 .. Cardinality(S) -> S]
  BY <1>2, Zenon DEF SetToSeq
<1>4. QED
  BY <1>1, <1>3

LEMMA QueuesTyped ==
  ASSUME TypeOK
  PROVE  /\ Len(queues) \in Nat /\ DOMAIN queues = 1 .. Len(queues)
         /\ \A q \in 1 .. Len(queues) : queues[q] \in Seq(Message)
<1>1. queues \in Seq(Seq(Message))
  BY Zenon DEF TypeOK
<1> DEFINE content == Seq(Message)
<1>2. queues \in Seq(content)
  BY <1>1
<1> HIDE DEF content
<1>3. /\ Len(queues) \in Nat /\ DOMAIN queues = 1 .. Len(queues)
      /\ \A q \in 1 .. Len(queues) : queues[q] \in content
  BY <1>2
<1>4. QED
  BY <1>3 DEF content

LEMMA CountsTyped ==
  ASSUME TypeOK, NEW cs \in SUBSET Channels, \A c \in cs : sent[c] < MaxSent
  PROVE  \A c \in cs : sent[c] + 1 \in 1 .. MaxSent
<1>1. sent \in [Channels -> 0 .. MaxSent]
  BY Zenon DEF TypeOK
<1>2. QED
  BY <1>1, CapacityAssumption

LEMMA MessagesTyped ==
  ASSUME TypeOK, NEW cs \in SUBSET Channels, \A c \in cs : sent[c] < MaxSent
  PROVE  Messages(cs) \in Seq(Message)
<1> DEFINE M == {[to |-> c, number |-> sent[c] + 1] : c \in cs}
           f == [c \in cs |-> [to |-> c, number |-> sent[c] + 1]]
<1>1. IsFiniteSet(cs)
  <2>1. IsFiniteSet(Channels)
    BY KindsAssumption DEF Channels
  <2>2. QED
    BY <2>1, FS_Subset
<1>2. f \in Surjection(cs, M)
  BY DEF Surjection
<1>3. IsFiniteSet(M)
  <2> HIDE DEF f, M
  <2>1. QED
    BY <1>1, <1>2, FS_Surjection
<1>4. M \subseteq Message
  BY CountsTyped DEF Message
<1>5. SetToSeq(M) \in Seq(M)
  <2> HIDE DEF M
  <2>1. QED
    BY <1>3, SetToSeqTyped
<1>6. QED
  <2> HIDE DEF M
  <2>1. SetToSeq(M) \in Seq(Message)
    BY <1>4, <1>5
  <2>2. QED
    BY <2>1 DEF Messages, M

LEMMA QueuedTyped ==
  ASSUME TypeOK, NEW q \in DOMAIN queues, NEW cs \in SUBSET Channels, \A c \in cs : sent[c] < MaxSent
  PROVE  Queued(q, cs) \in Seq(Message) /\ Len(Queued(q, cs)) <= Capacity
<1> DEFINE here == {c \in cs : srvEnd[c] = q}
           all == queues[q] \o Messages(here)
           m == IF Len(all) < Capacity THEN Len(all) ELSE Capacity
<1>1. Messages(here) \in Seq(Message)
  BY MessagesTyped
<1>2. all \in Seq(Message) /\ Len(all) \in Nat
  BY <1>1, QueuesTyped
<1>3. m \in 0 .. Len(all) /\ m <= Capacity
  BY <1>2, CapacityAssumption
<1>4. Queued(q, cs) = SubSeq(all, 1, m)
  BY Zenon DEF Queued
<1> HIDE DEF all, m
<1>5. QED
  BY <1>2, <1>3, <1>4

LEMMA SendTyped ==
  ASSUME TypeOK, NEW cs \in SUBSET Channels, Send(cs)
  PROVE  /\ queues' \in Seq(Seq(Message)) /\ Len(queues') = Len(queues)
         /\ \A q \in DOMAIN queues' : Len(queues'[q]) <= Capacity
         /\ sent' \in [Channels -> 0 .. MaxSent]
         /\ dropped' \in [Channels -> SUBSET (1 .. MaxSent)]
<1>1. \A c \in cs : sent[c] < MaxSent
  BY DEF Send
<1>2. \A q \in DOMAIN queues : Queued(q, cs) \in Seq(Message) /\ Len(Queued(q, cs)) <= Capacity
  BY <1>1, QueuedTyped
<1>3. queues' = [q \in DOMAIN queues |-> Queued(q, cs)]
  BY Zenon DEF Send
<1>4. Len(queues) \in Nat /\ DOMAIN queues = 1 .. Len(queues)
  BY QueuesTyped
<1>5. /\ sent' = [c \in Channels |-> IF c \in cs THEN sent[c] + 1 ELSE sent[c]]
      /\ sent \in [Channels -> 0 .. MaxSent]
  BY Zenon DEF Send, TypeOK
<1>6. \A c \in cs : sent[c] + 1 \in 1 .. MaxSent
  BY <1>1, CountsTyped
<1>7. dropped' \in [Channels -> SUBSET (1 .. MaxSent)]
  <2> DEFINE full(c) == /\ c \in cs /\ [to |-> c, number |-> sent[c] + 1] \notin Range(queues'[srvEnd[c]])
                        /\ Len(queues[srvEnd[c]]) = Capacity
  <2>1. /\ dropped' = [c \in Channels |-> IF full(c) THEN dropped[c] \cup {sent[c] + 1} ELSE dropped[c]]
        /\ dropped \in [Channels -> SUBSET (1 .. MaxSent)]
    BY Zenon DEF Send, TypeOK
  <2>2. \A c : full(c) => c \in cs
    OBVIOUS
  <2> HIDE DEF full
  <2>3. QED
    BY <1>6, <2>1, <2>2
<1>8. sent' \in [Channels -> 0 .. MaxSent]
  BY <1>5, <1>6, CapacityAssumption
<1>9. QED
  BY <1>2, <1>3, <1>4, <1>7, <1>8

-----------------------------------------------------------------------------
(* Steps *)

(* The parts of TypeOK about queues, about what has which, and the history. *)
QueuesOK ==
  /\ queues \in Seq(Seq(Message)) /\ Len(queues) <= MaxQueues
  /\ \A q \in DOMAIN queues : Len(queues[q]) <= Capacity

EndsOK ==
  /\ named \in [Names -> Queues \cup {Closed}]
  /\ name \in [Channels -> Names \cup {""}]
  /\ srvEnd \in [Channels -> Queues \cup {Closed}]
  /\ appEnd \in [Channels -> Queues \cup {Closed}]
  /\ orphans \subseteq Monitors

HistoryOK ==
  /\ since \in [Channels -> 0 .. MaxSent] /\ sent \in [Channels -> 0 .. MaxSent]
  /\ dropped \in [Channels -> SUBSET (1 .. MaxSent)]
  /\ got \in [Channels -> Seq(Message)]

LEMMA TypeParts == TypeOK <=> QueuesOK /\ EndsOK /\ HistoryOK
BY Zenon DEF TypeOK, QueuesOK, EndsOK, HistoryOK

LEMMA Created ==
  ASSUME TypeOK, EndsAreQueues, NEW c \in Channels, NEW n \in Names, Create(c, n), orphans' = orphans
  PROVE  QueuesOK' /\ EndsOK' /\ EndsAreQueues'
<1> DEFINE q == IF named[n] # Closed THEN named[n] ELSE Len(queues) + 1
<1>1. /\ Len(queues) \in Nat /\ DOMAIN queues = 1 .. Len(queues)
      /\ named[n] \in 0 .. Len(queues) /\ Len(queues) <= MaxQueues /\ MaxQueues \in Nat
  BY QueuesTyped, CapacityAssumption DEF EndsAreQueues, TypeOK
<1>2. << >> \in Seq(Message) /\ Len(<< >>) <= Capacity
  BY CapacityAssumption
<1>3. QueuesOK' /\ Len(queues') >= Len(queues) /\ q \in 1 .. Len(queues') /\ Len(queues') \in Nat
  <2>1. CASE named[n] # Closed
    <3>1. queues' = queues /\ q = named[n]
      BY <2>1 DEF Create
    <3>2. QED
      BY <1>1, <2>1, <3>1, TypeParts DEF QueuesOK, Closed
  <2>2. CASE named[n] = Closed
    <3>1. queues' = Append(queues, << >>) /\ q = Len(queues) + 1 /\ q <= MaxQueues
      BY <2>2 DEF Create
    <3>2. queues \in Seq(Seq(Message)) /\ \A r \in DOMAIN queues : Len(queues[r]) <= Capacity
      BY TypeParts DEF QueuesOK
    <3>3. queues' \in Seq(Seq(Message)) /\ Len(queues') = Len(queues) + 1
      BY <1>2, <3>1, <3>2
    <3>4. \A r \in DOMAIN queues' : Len(queues'[r]) <= Capacity
      BY <1>1, <1>2, <3>1, <3>2, <3>3
    <3>5. QED
      BY <1>1, <3>1, <3>3, <3>4 DEF QueuesOK
  <2>3. QED
    BY <2>1, <2>2
<1>4. q \in Queues
  <2>1. Len(queues') <= MaxQueues
    BY <1>3, Zenon DEF QueuesOK
  <2> HIDE DEF q
  <2>2. QED
    BY <1>1, <1>3, <2>1 DEF Queues
<1>5. EndsOK /\ MaxQueues \in Nat
  BY TypeParts, CapacityAssumption
<1> HIDE DEF q
<1>6. /\ named' = [named EXCEPT ![n] = q] /\ name' = [name EXCEPT ![c] = n]
      /\ srvEnd' = [srvEnd EXCEPT ![c] = q] /\ appEnd' = [appEnd EXCEPT ![c] = q]
  BY DEF Create, q
<1>7. EndsOK'
  BY <1>4, <1>5, <1>6 DEF EndsOK
<1>8. EndsAreQueues'
  <2>1. \A e \in 0 .. Len(queues) : e \in 0 .. Len(queues')
    BY <1>1, <1>3
  <2>2. q \in 0 .. Len(queues')
    BY <1>1, <1>3
  <2> DEFINE old == 0 .. Len(queues)
             new == 0 .. Len(queues')
  <2>3. /\ \A d \in Channels : srvEnd[d] \in old /\ appEnd[d] \in old
        /\ \A m \in Names : named[m] \in old
    BY DEF EndsAreQueues
  <2> HIDE DEF old, new
  <2>4. /\ \A d \in Channels : srvEnd'[d] \in new /\ appEnd'[d] \in new
        /\ \A m \in Names : named'[m] \in new
    <3>1. old \subseteq new /\ q \in new
      BY <2>1, <2>2 DEF old, new
    <3>2. QED
      BY <1>5, <1>6, <2>3, <3>1 DEF EndsOK
  <2>5. QED
    BY <2>4 DEF EndsAreQueues, new
<1>9. QED
  BY <1>3, <1>7, <1>8

(* A step that makes no queue, keeps what is in them, and may close ends and free names. *)
LEMMA Closes ==
  ASSUME TypeOK, EndsAreQueues, UNCHANGED <<queues, name>>, orphans' \subseteq Monitors,
         NEW c \in Channels,
         named' = [named EXCEPT ![name[c]] = Closed] \/ named' = named,
         srvEnd' = [srvEnd EXCEPT ![c] = Closed] \/ srvEnd' = srvEnd,
         appEnd' = [appEnd EXCEPT ![c] = Closed] \/ appEnd' = appEnd
  PROVE  QueuesOK' /\ EndsOK' /\ EndsAreQueues'
<1>1. QueuesOK /\ EndsOK
  BY TypeParts
<1>2. QueuesOK'
  BY <1>1 DEF QueuesOK
<1>3. EndsOK'
  BY <1>1 DEF EndsOK
<1>4. EndsAreQueues'
  <2>1. Len(queues) \in Nat
    BY QueuesTyped
  <2> DEFINE ends0 == 0 .. Len(queues)
  <2>2. /\ \A d \in Channels : srvEnd[d] \in ends0 /\ appEnd[d] \in ends0
        /\ \A m \in Names : named[m] \in ends0
    BY DEF EndsAreQueues
  <2>3. Closed \in ends0 /\ 0 .. Len(queues') = ends0
    BY <2>1 DEF Closed
  <2> HIDE DEF ends0
  <2>4. /\ \A d \in Channels : srvEnd'[d] \in ends0 /\ appEnd'[d] \in ends0
        /\ \A m \in Names : named'[m] \in ends0
    BY <1>1, <2>2, <2>3 DEF EndsOK
  <2>5. QED
    BY <2>3, <2>4 DEF EndsAreQueues
<1>5. QED
  BY <1>2, <1>3, <1>4

LEMMA NextTyped ==
  ASSUME TypeOK, EndsAreQueues, [Next]_vars
  PROVE  TypeOK' /\ EndsAreQueues'
<1>1. QueuesOK /\ EndsOK /\ HistoryOK
  BY TypeParts
<1>2. ASSUME QueuesOK', EndsOK', EndsAreQueues', HistoryOK'
      PROVE  TypeOK' /\ EndsAreQueues'
  BY <1>2, Zenon DEF TypeOK, QueuesOK, EndsOK, HistoryOK
<1>3. ASSUME NEW cs \in SUBSET Channels, Send(cs),
             UNCHANGED <<named, name, srvEnd, appEnd, orphans, since, got>>
      PROVE  TypeOK' /\ EndsAreQueues'
  <2>1. /\ queues' \in Seq(Seq(Message)) /\ Len(queues') = Len(queues)
        /\ \A q \in DOMAIN queues' : Len(queues'[q]) <= Capacity
        /\ sent' \in [Channels -> 0 .. MaxSent]
        /\ dropped' \in [Channels -> SUBSET (1 .. MaxSent)]
    BY <1>3, SendTyped
  <2>2. QueuesOK' /\ HistoryOK'
    BY <1>1, <1>3, <2>1, Zenon DEF QueuesOK, HistoryOK
  <2>3. EndsOK' /\ EndsAreQueues'
    BY <1>1, <1>3, <2>1, Zenon DEF EndsOK, EndsAreQueues
  <2>4. QED
    BY <1>2, <2>2, <2>3
<1>4. ASSUME NEW c \in Channels, NEW n \in Names, MonitorInput(c, n)
      PROVE  TypeOK' /\ EndsAreQueues'
  <2>1. QueuesOK' /\ EndsOK' /\ EndsAreQueues'
    BY <1>4, Created DEF MonitorInput
  <2>2. << >> \in Seq(Message)
    OBVIOUS
  <2>3. HistoryOK'
    BY <1>1, <1>4, <2>2 DEF MonitorInput, HistoryOK
  <2>4. QED
    BY <1>2, <2>1, <2>3
<1>5. CASE ResponseInput
  <2>1. {c \in Monitors : srvEnd[c] # Closed} \subseteq Channels
    BY DEF Channels
  <2>2. QED
    BY <1>3, <1>5, <2>1 DEF ResponseInput
<1>6. ASSUME NEW c \in Channels, SendInputMessage(c)
      PROVE  TypeOK' /\ EndsAreQueues'
  BY <1>3, <1>6 DEF SendInputMessage
<1>7. ASSUME NEW c \in Channels, ReleaseInput(c) \/ WindowGoes(c) \/ Stop(c) \/ AppDies(c)
      PROVE  TypeOK' /\ EndsAreQueues'
  <2>1. /\ UNCHANGED <<queues, name, since, sent, dropped, got>> /\ orphans' \subseteq Monitors
        /\ named' = [named EXCEPT ![name[c]] = Closed] \/ named' = named
        /\ srvEnd' = [srvEnd EXCEPT ![c] = Closed] \/ srvEnd' = srvEnd
        /\ appEnd' = [appEnd EXCEPT ![c] = Closed] \/ appEnd' = appEnd
    BY <1>1, <1>7 DEF ReleaseInput, WindowGoes, Stop, AppDies, Unlink, EndsOK
  <2>2. QueuesOK' /\ EndsOK' /\ EndsAreQueues'
    BY <2>1, Closes
  <2>3. HistoryOK'
    BY <1>1, <2>1 DEF HistoryOK
  <2>4. QED
    BY <1>2, <2>2, <2>3
<1>8. ASSUME NEW c \in Channels, ReceiveMessage(c)
      PROVE  TypeOK' /\ EndsAreQueues'
  <2> DEFINE q == appEnd[c]
  <2>1. /\ Len(queues) \in Nat /\ DOMAIN queues = 1 .. Len(queues)
        /\ \A r \in 1 .. Len(queues) : queues[r] \in Seq(Message)
    BY QueuesTyped
  <2>2. q \in 1 .. Len(queues) /\ queues[q] # << >>
    BY <1>8, <2>1 DEF ReceiveMessage, EndsAreQueues, Closed
  <2>3. queues[q] \in Seq(Message) /\ queues' = [queues EXCEPT ![q] = Tail(queues[q])]
    BY <1>8, <2>1, <2>2 DEF ReceiveMessage
  <2>4. /\ Head(queues[q]) \in Message /\ Tail(queues[q]) \in Seq(Message)
        /\ Len(Tail(queues[q])) < Len(queues[q]) /\ Len(queues[q]) \in Nat
    BY <2>2, <2>3
  <2>5. got' = [got EXCEPT ![c] = Append(got[c], Head(queues[q]))]
    BY <1>8 DEF ReceiveMessage
  <2> HIDE DEF q
  <2>6. HistoryOK'
    <3>1. Append(got[c], Head(queues[q])) \in Seq(Message)
      BY <1>1, <2>4 DEF HistoryOK
    <3>2. got' \in [Channels -> Seq(Message)]
      BY <1>1, <2>5, <3>1 DEF HistoryOK
    <3>3. QED
      BY <1>1, <1>8, <3>2, Zenon DEF ReceiveMessage, HistoryOK
  <2>7. Len(queues') = Len(queues)
    BY <2>1, <2>3
  <2>8. QueuesOK'
    <3>1. \A r \in 1 .. Len(queues) : Len(queues[r]) <= Capacity
      BY <1>1, <2>1 DEF QueuesOK
    <3>2. \A r \in 1 .. Len(queues) : queues'[r] \in Seq(Message) /\ Len(queues'[r]) <= Capacity
      BY <2>1, <2>2, <2>3, <2>4, <3>1, CapacityAssumption
    <3>3. DOMAIN queues' = 1 .. Len(queues)
      BY <2>1, <2>3
    <3>4. queues' = [r \in 1 .. Len(queues) |-> queues'[r]]
      BY <2>1, <2>3
    <3>5. queues' \in Seq(Seq(Message))
      BY <2>1, <3>2, <3>4
    <3>6. QED
      BY <1>1, <2>7, <3>2, <3>3, <3>5, Zenon DEF QueuesOK
  <2>9. EndsOK' /\ EndsAreQueues'
    BY <1>1, <1>8, <2>7, Zenon DEF ReceiveMessage, EndsOK, EndsAreQueues
  <2>10. QED
    BY <1>2, <2>6, <2>8, <2>9
<1>9. CASE UNCHANGED vars
  BY <1>1, <1>2, <1>9, Zenon DEF vars, ends, QueuesOK, EndsOK, HistoryOK, EndsAreQueues
<1>10. QED
  BY <1>4, <1>5, <1>6, <1>7, <1>8, <1>9 DEF Next

LEMMA NamesKept ==
  ASSUME TypeOK, EndsAreQueues, HalfOpen, NoNameIsLeft, [Next]_vars
  PROVE  HalfOpen' /\ NoNameIsLeft'
<1>1. EndsOK
  BY TypeParts
<1>2. ASSUME UNCHANGED <<named, name, srvEnd, appEnd>>
      PROVE  HalfOpen' /\ NoNameIsLeft'
  BY <1>2, Zenon DEF HalfOpen, NoNameIsLeft, Used
<1>3. ASSUME NEW c \in Channels, NEW n \in Names, MonitorInput(c, n)
      PROVE  HalfOpen' /\ NoNameIsLeft'
  <2>1. PICK q : /\ named' = [named EXCEPT ![n] = q] /\ name' = [name EXCEPT ![c] = n]
                 /\ srvEnd' = [srvEnd EXCEPT ![c] = q] /\ appEnd' = [appEnd EXCEPT ![c] = q]
                 /\ q = IF named[n] # Closed THEN named[n] ELSE Len(queues) + 1
    BY <1>3 DEF MonitorInput, Create
  <2>2. q # Closed
    BY <2>1, QueuesTyped DEF Closed
  <2>3. srvEnd[c] = Closed /\ appEnd[c] = Closed /\ ~Used(n)
    BY <1>3 DEF MonitorInput
  <2>4. HalfOpen'
    BY <1>1, <2>1, <2>2, <2>3 DEF EndsOK, HalfOpen, Used
  <2>5. ASSUME NEW m \in Names, named'[m] # Closed
        PROVE  \E d \in Channels : name'[d] = m /\ (srvEnd'[d] # Closed \/ appEnd'[d] # Closed)
    <3>1. CASE m = n
      BY <1>1, <2>1, <2>2, <3>1 DEF EndsOK
    <3>2. CASE m # n
      <4>1. PICK d \in Channels : name[d] = m /\ (srvEnd[d] # Closed \/ appEnd[d] # Closed)
        BY <1>1, <2>1, <2>5, <3>2 DEF EndsOK, NoNameIsLeft, Used
      <4>2. d # c
        BY <2>3, <4>1
      <4>3. QED
        BY <1>1, <2>1, <4>1, <4>2 DEF EndsOK
    <3>3. QED
      BY <3>1, <3>2
  <2>6. QED
    BY <2>4, <2>5 DEF NoNameIsLeft, Used
<1>4. ASSUME NEW c \in Channels, UNCHANGED name, named' = [named EXCEPT ![name[c]] = Closed],
             \/ srvEnd' = [srvEnd EXCEPT ![c] = Closed] /\ UNCHANGED appEnd
             \/ appEnd' = [appEnd EXCEPT ![c] = Closed] /\ UNCHANGED srvEnd
      PROVE  HalfOpen' /\ NoNameIsLeft'
  <2>1. HalfOpen'
    BY <1>1, <1>4 DEF EndsOK, HalfOpen
  <2>2. ASSUME NEW m \in Names, named'[m] # Closed
        PROVE  \E d \in Channels : name'[d] = m /\ (srvEnd'[d] # Closed \/ appEnd'[d] # Closed)
    <3>1. m # name[c] /\ named[m] # Closed
      BY <1>1, <1>4, <2>2 DEF EndsOK
    <3>2. PICK d \in Channels : name[d] = m /\ (srvEnd[d] # Closed \/ appEnd[d] # Closed)
      BY <3>1 DEF NoNameIsLeft, Used
    <3>3. QED
      BY <1>1, <1>4, <3>1, <3>2 DEF EndsOK
  <2>3. QED
    BY <2>1, <2>2 DEF NoNameIsLeft, Used
<1>5. ASSUME NEW c \in Channels, AppDies(c)
      PROVE  HalfOpen' /\ NoNameIsLeft'
  <2>1. /\ UNCHANGED <<named, name, srvEnd>> /\ appEnd' = [appEnd EXCEPT ![c] = Closed]
        /\ appEnd[c] # Closed
    BY <1>5 DEF AppDies
  <2>2. HalfOpen'
    BY <1>1, <2>1 DEF EndsOK, HalfOpen
  <2>3. ASSUME NEW m \in Names, named[m] # Closed
        PROVE  \E d \in Channels : name[d] = m /\ (srvEnd[d] # Closed \/ appEnd'[d] # Closed)
    <3>1. PICK d \in Channels : name[d] = m /\ (srvEnd[d] # Closed \/ appEnd[d] # Closed)
      BY <2>3 DEF NoNameIsLeft, Used
    <3>2. CASE d = c
      BY <2>1, <2>3, <3>1, <3>2 DEF HalfOpen
    <3>3. CASE d # c
      BY <1>1, <2>1, <3>1, <3>3 DEF EndsOK
    <3>4. QED
      BY <3>2, <3>3
  <2>4. QED
    BY <2>1, <2>2, <2>3 DEF NoNameIsLeft, Used
<1>6. CASE ResponseInput
  BY <1>2, <1>6 DEF ResponseInput
<1>7. ASSUME NEW c \in Channels, SendInputMessage(c) \/ ReceiveMessage(c)
      PROVE  HalfOpen' /\ NoNameIsLeft'
  BY <1>2, <1>7 DEF SendInputMessage, ReceiveMessage
<1>8. ASSUME NEW c \in Channels, ReleaseInput(c) \/ WindowGoes(c) \/ Stop(c)
      PROVE  HalfOpen' /\ NoNameIsLeft'
  BY <1>4, <1>8 DEF ReleaseInput, WindowGoes, Stop, Unlink
<1>9. CASE UNCHANGED vars
  BY <1>2, <1>9 DEF vars, ends
<1>10. QED
  BY <1>3, <1>5, <1>6, <1>7, <1>8, <1>9 DEF Next

-----------------------------------------------------------------------------
(* What a channel has been sent and not yet lost *)

(* A queue that is open is that of one channel, and the same at both its ends. *)
OneChannel ==
  \A c, d \in Channels : c # d =>
    /\ srvEnd[c] # Closed => srvEnd[c] # srvEnd[d] /\ srvEnd[c] # appEnd[d]
    /\ appEnd[c] # Closed => appEnd[c] # appEnd[d]
SameQueue == \A c \in Channels : Open(c) => srvEnd[c] = appEnd[c]

(* What the app has received since it opened the channel, and will yet. *)
Stream(c) == IF appEnd[c] = Closed THEN got[c] ELSE got[c] \o queues[appEnd[c]]

(* Messages of c in the order of their numbers, after the number first and up to last. *)
Proper(s, c, first, last) ==
  /\ \A i \in 1 .. Len(s) : s[i].to = c /\ first < s[i].number /\ s[i].number <= last
  /\ \A i, j \in 1 .. Len(s) : i < j => s[i].number < s[j].number

Complete(c) ==
  Open(c) => \A i \in since[c] + 1 .. sent[c] :
               i \in dropped[c] \/ [to |-> c, number |-> i] \in Range(Stream(c))

Flows(c) == since[c] <= sent[c] /\ Proper(Stream(c), c, since[c], sent[c]) /\ Complete(c)

FlowInv == IInv /\ OneChannel /\ SameQueue /\ \A c \in Channels : Flows(c)

LEMMA PrefixProper ==
  ASSUME NEW a \in Seq(Message), NEW b \in Seq(Message), NEW c, NEW first, NEW last,
         Proper(a \o b, c, first, last)
  PROVE  Proper(a, c, first, last)
<1> DEFINE s == a \o b
<1>1. /\ Len(a) \in Nat /\ Len(s) >= Len(a) /\ Len(s) \in Nat
      /\ \A i \in 1 .. Len(a) : s[i] = a[i]
  OBVIOUS
<1>2. Proper(s, c, first, last)
  OBVIOUS
<1> HIDE DEF s
<1>3. \A i \in 1 .. Len(a) : i \in 1 .. Len(s)
  BY <1>1
<1>4. QED
  BY <1>1, <1>2, <1>3 DEF Proper

LEMMA AppendProper ==
  ASSUME NEW s \in Seq(Message), NEW c \in Channels, NEW first \in Nat, NEW last \in Nat, first <= last,
         Proper(s, c, first, last), NEW m \in Message, m = [to |-> c, number |-> last + 1]
  PROVE  Proper(Append(s, m), c, first, last + 1)
<1> DEFINE more == Append(s, m)
<1>1. /\ Len(s) \in Nat /\ Len(more) = Len(s) + 1 /\ more[Len(s) + 1] = m
      /\ \A i \in 1 .. Len(s) : more[i] = s[i] /\ s[i] \in Message
  OBVIOUS
<1>2. m.to = c /\ m.number = last + 1
  OBVIOUS
<1>3. \A i \in 1 .. Len(s) : s[i].number \in Nat
  BY <1>1, CapacityAssumption DEF Message
<1> HIDE DEF more
<1>4. ASSUME NEW i \in 1 .. Len(more)
      PROVE  more[i].to = c /\ first < more[i].number /\ more[i].number <= last + 1
  <2>1. CASE i \in 1 .. Len(s)
    BY <1>1, <1>3, <2>1 DEF Proper
  <2>2. CASE i = Len(s) + 1
    BY <1>1, <1>2, <2>2
  <2>3. QED
    BY <1>1, <2>1, <2>2
<1>5. ASSUME NEW i \in 1 .. Len(more), NEW j \in 1 .. Len(more), i < j
      PROVE  more[i].number < more[j].number
  <2>1. i \in 1 .. Len(s) /\ more[i] = s[i]
    BY <1>1, <1>5
  <2>2. CASE j \in 1 .. Len(s)
    BY <1>1, <1>5, <2>1, <2>2 DEF Proper
  <2>3. CASE j = Len(s) + 1
    BY <1>1, <1>2, <1>3, <2>1, <2>3 DEF Proper
  <2>4. QED
    BY <1>1, <2>2, <2>3
<1>6. QED
  BY <1>4, <1>5 DEF Proper, more

(* What the two parts of a concatenation contribute to it. *)
LEMMA Concatenated ==
  ASSUME NEW g \in Seq(Message), NEW r \in Seq(Message)
  PROVE  /\ Len(g) \in Nat /\ Len(r) \in Nat /\ g \o r \in Seq(Message)
         /\ DOMAIN (g \o r) = 1 .. Len(g) + Len(r) /\ DOMAIN g = 1 .. Len(g) /\ DOMAIN r = 1 .. Len(r)
         /\ \A k \in 1 .. Len(g) : (g \o r)[k] = g[k]
         /\ \A k \in 1 .. Len(r) : (g \o r)[Len(g) + k] = r[k]
<1> HIDE DEF Message
<1>1. QED
  OBVIOUS

LEMMA ConcatenatedOneMore ==
  ASSUME NEW g \in Seq(Message), NEW r \in Seq(Message), NEW m \in Message
  PROVE  g \o Append(r, m) = Append(g \o r, m)
<1> HIDE DEF Message
<1>1. QED
  OBVIOUS

LEMMA Numbered ==
  ASSUME NEW s \in Seq(Message)
  PROVE  DOMAIN s = 1 .. Len(s) /\ Len(s) \in Nat /\ \A i \in 1 .. Len(s) : s[i].number \in Nat
<1>1. \A i \in 1 .. Len(s) : s[i] \in Message
  OBVIOUS
<1>2. \A m \in Message : m.number \in Nat
  BY CapacityAssumption DEF Message
<1>3. QED
  BY <1>1, <1>2

(* The queue of an end that is open holds what fits. *)
LEMMA QueueFits ==
  ASSUME TypeOK, EndsAreQueues, NEW x \in Channels, appEnd[x] # Closed
  PROVE  /\ appEnd[x] \in DOMAIN queues
         /\ Len(queues[appEnd[x]]) <= Capacity
         /\ Capacity \in Nat \ {0}
<1>1. appEnd[x] \in DOMAIN queues
  <2>1. appEnd[x] \in 0 .. Len(queues)
    BY Zenon DEF EndsAreQueues
  <2>2. DOMAIN queues = 1 .. Len(queues) /\ Len(queues) \in Nat
    BY QueuesTyped
  <2>3. QED
    BY <2>1, <2>2 DEF Closed
<1>2. \A q \in DOMAIN queues : Len(queues[q]) <= Capacity
  BY Zenon DEF TypeOK
<1>3. QED
  BY <1>1, <1>2, CapacityAssumption

(* Everything of a queue can be told from what was received and what is in it. *)
LEMMA StreamTyped ==
  ASSUME IInv, NEW c \in Channels
  PROVE  /\ got[c] \in Seq(Message) /\ Stream(c) \in Seq(Message)
         /\ appEnd[c] # Closed => appEnd[c] \in DOMAIN queues /\ queues[appEnd[c]] \in Seq(Message)
<1>1. got \in [Channels -> Seq(Message)]
  BY TypeParts DEF IInv, HistoryOK
<1>2. appEnd[c] # Closed => appEnd[c] \in DOMAIN queues /\ queues[appEnd[c]] \in Seq(Message)
  BY QueuesTyped DEF IInv, EndsAreQueues, Closed
<1>3. QED
  BY <1>1, <1>2 DEF Stream

LEMMA FlowKept ==
  ASSUME NEW x \in Channels, Flows(x), UNCHANGED <<since[x], sent[x], dropped[x]>>,
         Stream(x)' = Stream(x), Open(x)' => Open(x)
  PROVE  Flows(x)'
BY DEF Flows, Complete, Proper

(* A channel that is opened has a queue to itself. *)
LEMMA MonitorFlows ==
  ASSUME FlowInv, NEW c \in Channels, NEW n \in Names, MonitorInput(c, n)
  PROVE  OneChannel' /\ SameQueue' /\ \A x \in Channels : Flows(x)'
<1> DEFINE q == Len(queues) + 1
<1>1. IInv /\ TypeOK /\ EndsAreQueues /\ NoNameIsLeft /\ EndsOK /\ HistoryOK
  BY TypeParts DEF FlowInv, IInv
<1>2. named[n] = Closed
  BY <1>1 DEF MonitorInput, NoNameIsLeft
<1>3. /\ queues' = Append(queues, << >>)
      /\ srvEnd' = [srvEnd EXCEPT ![c] = q] /\ appEnd' = [appEnd EXCEPT ![c] = q]
      /\ since' = [since EXCEPT ![c] = sent[c]] /\ got' = [got EXCEPT ![c] = << >>]
      /\ UNCHANGED <<sent, dropped>>
  BY <1>2 DEF MonitorInput, Create
<1>4. /\ Len(queues) \in Nat /\ queues'[q] = << >> /\ q # Closed
      /\ \A r \in 1 .. Len(queues) : queues'[r] = queues[r]
  BY <1>1, <1>3, QueuesTyped DEF Closed
<1>5. \A x \in Channels : srvEnd[x] # q /\ appEnd[x] # q
  BY <1>1, <1>4 DEF EndsAreQueues
<1>6. /\ srvEnd'[c] = q /\ appEnd'[c] = q
      /\ \A x \in Channels \ {c} : srvEnd'[x] = srvEnd[x] /\ appEnd'[x] = appEnd[x]
  BY <1>1, <1>3 DEF EndsOK
<1> HIDE DEF q
<1>7. OneChannel' /\ SameQueue'
  BY <1>5, <1>6 DEF FlowInv, OneChannel, SameQueue, Open
<1>8. ASSUME NEW x \in Channels, x # c
      PROVE  Flows(x)'
  <2>1. UNCHANGED <<appEnd[x], srvEnd[x], since[x], sent[x], dropped[x], got[x]>>
    BY <1>1, <1>3, <1>6, <1>8 DEF HistoryOK
  <2>2. appEnd[x] # Closed => appEnd[x] \in 1 .. Len(queues)
    BY <1>1, <1>4 DEF EndsAreQueues, Closed
  <2>3. Stream(x)' = Stream(x)
    BY <1>4, <2>1, <2>2 DEF Stream
  <2>4. QED
    BY <2>1, <2>3, FlowKept DEF FlowInv, Open
<1>9. Flows(c)'
  <2>1. since'[c] = sent[c] /\ sent'[c] = sent[c] /\ got'[c] = << >> /\ sent[c] \in Nat
    BY <1>1, <1>3, CapacityAssumption DEF HistoryOK
  <2>2. Stream(c)' = << >>
    BY <1>4, <1>6, <2>1 DEF Stream
  <2>3. Proper(Stream(c)', c, since'[c], sent'[c])
    BY <2>2 DEF Proper
  <2>4. Complete(c)'
    BY <2>1 DEF Complete
  <2>5. QED
    BY <2>1, <2>3, <2>4 DEF Flows
<1>10. QED
  BY <1>7, <1>8, <1>9

(* The messages of a loop over the channels, of which a queue is meant for one at most. *)
LEMMA MessagesOfOne ==
  ASSUME NEW c \in Channels
  PROVE  Messages({c}) = <<[to |-> c, number |-> sent[c] + 1]>> /\ Messages({}) = << >>
<1> DEFINE m == [to |-> c, number |-> sent[c] + 1]
<1>1. \A S : IsFiniteSet(S) => SetToSeq(S) \in [1 .. Cardinality(S) -> S]
  <2> SUFFICES ASSUME NEW S, IsFiniteSet(S) PROVE SetToSeq(S) \in [1 .. Cardinality(S) -> S]
    OBVIOUS
  <2>1. Cardinality(S) \in Nat /\ ExistsBijection(1 .. Cardinality(S), S)
    BY FS_CardinalityType
  <2>2. \E f \in [1 .. Cardinality(S) -> S] : IsInjective(f)
    BY <2>1 DEF ExistsBijection, Bijection, Injection
  <2>3. QED
    BY <2>2, Zenon DEF SetToSeq
<1>2. IsFiniteSet({m}) /\ Cardinality({m}) = 1 /\ IsFiniteSet({}) /\ Cardinality({}) = 0
  BY FS_Singleton, FS_EmptySet
<1>3. SetToSeq({m}) \in [1 .. 1 -> {m}] /\ SetToSeq({}) \in [1 .. 0 -> {}]
  BY <1>1, <1>2
<1>4. Messages({c}) = SetToSeq({m}) /\ Messages({}) = SetToSeq({})
  <2>1. {[to |-> d, number |-> sent[d] + 1] : d \in {c}} = {m}
    OBVIOUS
  <2>2. {[to |-> d, number |-> sent[d] + 1] : d \in {}} = {}
    OBVIOUS
  <2> HIDE DEF m
  <2>3. QED
    BY <2>1, <2>2, Zenon DEF Messages
<1> HIDE DEF m
<1>5. SetToSeq({m}) = <<m>> /\ SetToSeq({}) = << >>
  BY <1>3
<1>6. QED
  BY <1>4, <1>5 DEF m

(***************************************************************************)
(* The queue an app reads is sent what is for the app's channel, if it is  *)
(* not full, and nothing else.                                             *)
(***************************************************************************)
LEMMA QueuedForOne ==
  ASSUME FlowInv, NEW cs \in SUBSET Channels, \A c \in cs : srvEnd[c] # Closed /\ sent[c] < MaxSent,
         NEW x \in Channels, appEnd[x] # Closed
  PROVE  LET q == appEnd[x] IN
         /\ x \in cs /\ Len(queues[q]) < Capacity
              => Queued(q, cs) = Append(queues[q], [to |-> x, number |-> sent[x] + 1])
         /\ ~(x \in cs /\ Len(queues[q]) < Capacity) => Queued(q, cs) = queues[q]
<1> DEFINE q == appEnd[x]
           here == {c \in cs : srvEnd[c] = q}
           m == [to |-> x, number |-> sent[x] + 1]
           all == queues[q] \o Messages(here)
           n == IF Len(all) < Capacity THEN Len(all) ELSE Capacity
<1>1. IInv /\ TypeOK /\ queues[q] \in Seq(Message) /\ q \in DOMAIN queues
  BY StreamTyped DEF FlowInv, IInv
<1>2. Len(queues[q]) <= Capacity /\ Len(queues[q]) \in Nat /\ Capacity \in Nat \ {0}
  <2>1. Len(queues[q]) <= Capacity /\ Capacity \in Nat \ {0}
    BY <1>1, QueueFits DEF IInv
  <2>2. Len(queues[q]) \in Nat
    BY <1>1
  <2>3. QED
    BY <2>1, <2>2
<1>3. here = IF x \in cs THEN {x} ELSE {}
  BY DEF FlowInv, OneChannel, SameQueue, Open
<1>4. Queued(q, cs) = SubSeq(all, 1, n)
  BY Zenon DEF Queued
<1>5. CASE x \in cs
  <2>1. m \in Message
    BY <1>1, <1>5, CountsTyped DEF Message
  <2>2. Messages(here) = <<m>>
    BY <1>3, <1>5, MessagesOfOne
  <2> HIDE DEF q, m, here
  <2>3. all = Append(queues[q], m)
    BY <1>1, <2>1, <2>2
  <2>4. /\ all \in Seq(Message) /\ Len(all) = Len(queues[q]) + 1
        /\ \A i \in 1 .. Len(queues[q]) : all[i] = queues[q][i]
    BY <1>1, <2>1, <2>3
  <2>5. CASE Len(queues[q]) < Capacity
    <3>1. n = Len(all)
      BY <1>2, <2>4, <2>5
    <3> HIDE DEF all, n
    <3>2. SubSeq(all, 1, n) = all
      BY <2>4, <3>1
    <3>3. QED
      BY <1>4, <1>5, <2>3, <2>5, <3>2 DEF q, m
  <2>6. CASE ~(Len(queues[q]) < Capacity)
    <3>1. n = Len(queues[q])
      BY <1>2, <2>4, <2>6
    <3> HIDE DEF all, n
    <3>2. SubSeq(all, 1, n) = queues[q]
      BY <1>1, <2>4, <3>1
    <3>3. QED
      BY <1>4, <1>5, <2>6, <3>2 DEF q, m
  <2>7. QED
    BY <2>5, <2>6
<1>6. CASE x \notin cs
  <2>1. Messages(here) = << >>
    BY <1>3, <1>6, MessagesOfOne
  <2> HIDE DEF q, here
  <2>2. all = queues[q]
    BY <1>1, <2>1
  <2>3. n = Len(queues[q])
    BY <1>2, <2>2
  <2> HIDE DEF all, n
  <2>4. SubSeq(all, 1, n) = queues[q]
    BY <1>1, <2>2, <2>3
  <2>5. QED
    BY <1>4, <1>6, <2>4 DEF q
<1>7. QED
  BY <1>5, <1>6

LEMMA SendFlows ==
  ASSUME FlowInv, NEW cs \in SUBSET Channels, Send(cs), \A c \in cs : srvEnd[c] # Closed,
         UNCHANGED <<srvEnd, appEnd, since, got>>, NEW x \in Channels
  PROVE  Flows(x)'
<1> DEFINE m == [to |-> x, number |-> sent[x] + 1]
<1>1. /\ IInv /\ TypeOK /\ EndsAreQueues /\ HistoryOK /\ Flows(x)
      /\ \A c \in cs : sent[c] < MaxSent
  BY TypeParts DEF FlowInv, IInv, Send
<1>2. /\ since[x] \in Nat /\ sent[x] \in Nat /\ since[x] <= sent[x]
      /\ got[x] \in Seq(Message) /\ Stream(x) \in Seq(Message)
  BY <1>1, StreamTyped, CapacityAssumption DEF HistoryOK, Flows
<1>3. sent'[x] = (IF x \in cs THEN sent[x] + 1 ELSE sent[x])
  BY DEF Send
<1>4. queues' = [q \in DOMAIN queues |-> Queued(q, cs)]
  BY Zenon DEF Send
<1>5. x \in cs => m \in Message
  BY <1>1, CountsTyped DEF Message
<1>6. dropped[x] \subseteq dropped'[x]
  BY DEF Send
<1>7. since[x] <= sent'[x] /\ sent'[x] \in Nat
  BY <1>2, <1>3
<1>8. CASE appEnd[x] = Closed
  <2>1. Stream(x)' = Stream(x) /\ ~Open(x)'
    BY <1>8 DEF Stream, Open
  <2>2. \A i \in 1 .. Len(Stream(x)) : Stream(x)[i].number \in Nat
    BY <1>2, Numbered
  <2>3. Proper(Stream(x), x, since[x], sent[x])
    BY <1>1 DEF Flows
  <2>4. \A k \in Nat : k <= sent[x] => k <= sent'[x]
    BY <1>2, <1>3
  <2>5. Proper(Stream(x), x, since[x], sent'[x])
    BY <2>2, <2>3, <2>4 DEF Proper
  <2>6. QED
    BY <1>7, <2>1, <2>5 DEF Flows, Complete
<1>9. CASE appEnd[x] # Closed
  <2> DEFINE q == appEnd[x]
  <2>1. /\ q \in DOMAIN queues /\ queues[q] \in Seq(Message) /\ queues'[q] = Queued(q, cs)
        /\ Len(queues[q]) \in Nat /\ Len(queues[q]) <= Capacity /\ Capacity \in Nat
    <3>1. q \in DOMAIN queues /\ queues[q] \in Seq(Message)
      BY <1>1, <1>9, StreamTyped
    <3>2. queues'[q] = Queued(q, cs)
      BY <1>4, <3>1, Zenon
    <3>3. Len(queues[q]) <= Capacity /\ Capacity \in Nat
      BY <1>1, <1>9, QueueFits
    <3>4. Len(queues[q]) \in Nat
      BY <3>1
    <3>5. QED
      BY <3>1, <3>2, <3>3, <3>4
  <2>2. Stream(x) = got[x] \o queues[q] /\ Stream(x)' = got[x] \o queues'[q]
    BY <1>9 DEF Stream
  <2>3. CASE x \in cs /\ Len(queues[q]) < Capacity
    <3>1. queues'[q] = Append(queues[q], m)
      BY <1>1, <1>9, <2>1, <2>3, QueuedForOne
    <3> HIDE DEF m, q
    <3>2. Stream(x)' = Append(Stream(x), m)
      <4>1. got[x] \o Append(queues[q], m) = Append(got[x] \o queues[q], m)
        BY <1>2, <1>5, <2>1, <2>3, ConcatenatedOneMore
      <4>2. QED
        BY <2>2, <3>1, <4>1
    <3>3. Proper(Stream(x)', x, since[x], sent'[x])
      BY <1>1, <1>2, <1>3, <1>5, <2>3, <3>2, AppendProper DEF Flows, m
    <3>4. Range(Stream(x)) \cup {m} \subseteq Range(Stream(x)')
      <4> DEFINE s == Stream(x)
                 t == Stream(x)'
      <4>1. /\ s \in Seq(Message) /\ DOMAIN s = 1 .. Len(s) /\ Len(s) \in Nat
            /\ DOMAIN t = 1 .. Len(s) + 1 /\ t[Len(s) + 1] = m
            /\ \A i \in 1 .. Len(s) : t[i] = s[i]
        BY <1>2, <1>5, <2>3, <3>2
      <4> HIDE DEF s, t
      <4>2. QED
        BY <4>1 DEF Range, s, t
    <3>5. Complete(x)'
      <4> SUFFICES ASSUME Open(x), NEW i \in since[x] + 1 .. sent'[x], i \notin dropped'[x]
                   PROVE  [to |-> x, number |-> i] \in Range(Stream(x)')
        BY DEF Complete, Open
      <4>1. CASE i \in since[x] + 1 .. sent[x]
        <5>1. [to |-> x, number |-> i] \in Range(Stream(x))
          BY <1>1, <1>6, <4>1 DEF Flows, Complete
        <5>2. QED
          BY <3>4, <5>1
      <4>2. CASE i = sent[x] + 1
        BY <3>4, <4>2 DEF m
      <4>3. QED
        BY <1>2, <1>3, <4>1, <4>2
    <3>6. QED
      BY <1>7, <3>3, <3>5 DEF Flows
  <2>4. CASE ~(x \in cs /\ Len(queues[q]) < Capacity)
    <3>1. queues'[q] = queues[q]
      BY <1>1, <1>9, <2>1, <2>4, QueuedForOne
    <3>2. Stream(x)' = Stream(x)
      BY <2>2, <3>1
    <3>3. Proper(Stream(x), x, since[x], sent[x]) /\ Complete(x)
      BY <1>1 DEF Flows
    <3>4. Proper(Stream(x), x, since[x], sent'[x])
      <4>1. \A i \in 1 .. Len(Stream(x)) : Stream(x)[i].number \in Nat
        BY <1>2, Numbered
      <4>2. \A k \in Nat : k <= sent[x] => k <= sent'[x]
        BY <1>2, <1>3
      <4>3. QED
        BY <3>3, <4>1, <4>2 DEF Proper
    <3>5. CASE x \notin cs
      BY <1>3, <1>6, <1>7, <3>2, <3>3, <3>5 DEF Flows, Complete, Open
    <3>6. CASE x \in cs
      <4>1. Open(x) => m \in Range(Stream(x)) \/ sent[x] + 1 \in dropped'[x]
        <5> SUFFICES ASSUME Open(x), m \notin Range(Stream(x)) PROVE sent[x] + 1 \in dropped'[x]
          OBVIOUS
        <5>1. srvEnd[x] = q
          BY DEF FlowInv, SameQueue
        <5>2. m \notin Range(queues[q])
          <6> DEFINE g == got[x]
                     r == queues[q]
                     s == g \o r
          <6>1. /\ Len(g) \in Nat /\ Len(r) \in Nat /\ DOMAIN s = 1 .. Len(g) + Len(r) /\ DOMAIN r = 1 .. Len(r)
                /\ \A i \in 1 .. Len(r) : s[Len(g) + i] = r[i]
            BY <1>2, <2>1, Concatenated
          <6>2. m \notin Range(s)
            BY <2>2
          <6> HIDE DEF g, r, s
          <6>3. \A i \in 1 .. Len(r) : Len(g) + i \in DOMAIN s
            BY <6>1
          <6>4. m \notin Range(r)
            BY <6>1, <6>2, <6>3 DEF Range
          <6>5. QED
            BY <6>4 DEF r
        <5>3. Len(queues[q]) = Capacity
          BY <2>1, <2>4, <3>6
        <5>4. dropped'[x] = dropped[x] \cup {sent[x] + 1}
          BY <3>1, <3>6, <5>1, <5>2, <5>3, Zenon DEF Send
        <5>5. QED
          BY <5>4
      <4>2. Complete(x)'
        <5> SUFFICES ASSUME Open(x), NEW i \in since[x] + 1 .. sent'[x], i \notin dropped'[x]
                     PROVE  [to |-> x, number |-> i] \in Range(Stream(x))
          BY <3>2 DEF Complete, Open
        <5>1. CASE i \in since[x] + 1 .. sent[x]
          BY <1>6, <3>3, <5>1 DEF Complete
        <5>2. CASE i = sent[x] + 1
          BY <4>1, <5>2
        <5>3. QED
          BY <1>2, <1>3, <5>1, <5>2
      <4>3. QED
        BY <1>7, <3>2, <3>4, <4>2 DEF Flows
    <3>7. QED
      BY <3>5, <3>6
  <2>5. QED
    BY <2>3, <2>4
<1>10. QED
  BY <1>8, <1>9

LEMMA ReceiveFlows ==
  ASSUME FlowInv, NEW c \in Channels, ReceiveMessage(c), NEW x \in Channels
  PROVE  Flows(x)'
<1>1. IInv /\ TypeOK /\ HistoryOK /\ Flows(x)
  BY TypeParts DEF FlowInv, IInv
<1> DEFINE q == appEnd[c]
<1>2. /\ q # Closed /\ q \in DOMAIN queues /\ queues[q] \in Seq(Message) /\ queues[q] # << >>
      /\ got[c] \in Seq(Message)
  BY <1>1, StreamTyped DEF ReceiveMessage
<1>3. /\ queues' = [queues EXCEPT ![q] = Tail(queues[q])]
      /\ got' = [got EXCEPT ![c] = Append(got[c], Head(queues[q]))]
      /\ UNCHANGED <<srvEnd, appEnd, since, sent, dropped>>
  BY <1>2 DEF ReceiveMessage
<1>4. Stream(x)' = Stream(x)
  <2>1. CASE x = c
    <3>1. got'[c] = Append(got[c], Head(queues[q])) /\ queues'[q] = Tail(queues[q])
      BY <1>1, <1>2, <1>3 DEF HistoryOK
    <3> DEFINE g == got[c]
               r == queues[q]
    <3>2. Append(g, Head(r)) \o Tail(r) = g \o r
      <4>1. g \in Seq(Message) /\ r \in Seq(Message) /\ r # << >>
        BY <1>2
      <4> HIDE DEF g, r
      <4>2. QED
        BY <4>1
    <3>3. Stream(c) = g \o r /\ Stream(c)' = got'[c] \o queues'[q]
      BY <1>2, <1>3 DEF Stream
    <3>4. QED
      BY <2>1, <3>1, <3>2, <3>3
  <2>2. CASE x # c
    <3>1. got'[x] = got[x]
      BY <1>1, <1>3, <2>2 DEF HistoryOK
    <3>2. appEnd[x] # Closed => queues'[appEnd[x]] = queues[appEnd[x]]
      BY <1>1, <1>2, <1>3, <2>2, StreamTyped DEF FlowInv, OneChannel
    <3>3. QED
      BY <1>3, <3>1, <3>2 DEF Stream
  <2>3. QED
    BY <2>1, <2>2
<1>5. QED
  BY <1>1, <1>3, <1>4, FlowKept DEF Open

(* What an app has received when it closes its end is the beginning of the stream. *)
LEMMA ClosedFlows ==
  ASSUME FlowInv, UNCHANGED <<queues, since, sent, dropped, got>>, NEW c \in Channels,
         srvEnd' = [srvEnd EXCEPT ![c] = Closed] \/ srvEnd' = srvEnd,
         appEnd' = [appEnd EXCEPT ![c] = Closed] \/ appEnd' = appEnd
  PROVE  OneChannel' /\ SameQueue' /\ \A x \in Channels : Flows(x)'
<1>1. IInv /\ EndsOK
  BY TypeParts DEF FlowInv, IInv
<1>2. \A x \in Channels : srvEnd'[x] \in {srvEnd[x], Closed} /\ appEnd'[x] \in {appEnd[x], Closed}
  BY <1>1 DEF EndsOK
<1>3. OneChannel' /\ SameQueue'
  <2>1. OneChannel /\ SameQueue
    BY DEF FlowInv
  <2>2. OneChannel'
    BY <1>2, <2>1 DEF OneChannel
  <2>3. SameQueue'
    BY <1>2, <2>1 DEF SameQueue, Open
  <2>4. QED
    BY <2>2, <2>3
<1>4. ASSUME NEW x \in Channels
      PROVE  Flows(x)'
  <2>1. Flows(x) /\ got[x] \in Seq(Message)
    BY <1>1, StreamTyped DEF FlowInv
  <2>2. CASE appEnd'[x] = appEnd[x]
    <3>1. Stream(x)' = Stream(x) /\ (Open(x)' => Open(x))
      BY <1>2, <2>2 DEF Stream, Open
    <3>2. QED
      BY <2>1, <3>1, FlowKept
  <2>3. CASE appEnd'[x] # appEnd[x]
    <3>1. appEnd'[x] = Closed /\ appEnd[x] # Closed
      BY <1>2, <2>3
    <3>2. Stream(x)' = got[x] /\ Stream(x) = got[x] \o queues[appEnd[x]] /\ ~Open(x)'
      BY <3>1 DEF Stream, Open
    <3>3. Proper(got[x], x, since[x], sent[x])
      BY <1>1, <2>1, <3>1, <3>2, StreamTyped, PrefixProper DEF Flows
    <3>4. QED
      BY <2>1, <3>2, <3>3 DEF Flows, Complete
  <2>4. QED
    BY <2>2, <2>3
<1>5. QED
  BY <1>3, <1>4

LEMMA NextFlows ==
  ASSUME FlowInv, [Next]_vars
  PROVE  OneChannel' /\ SameQueue' /\ \A x \in Channels : Flows(x)'
<1>1. ASSUME UNCHANGED <<srvEnd, appEnd>>
      PROVE  OneChannel' /\ SameQueue'
  BY <1>1 DEF FlowInv, OneChannel, SameQueue, Open
<1>2. ASSUME NEW c \in Channels, NEW n \in Names, MonitorInput(c, n)
      PROVE  OneChannel' /\ SameQueue' /\ \A x \in Channels : Flows(x)'
  BY <1>2, MonitorFlows
<1>3. CASE ResponseInput
  <2>1. {c \in Monitors : srvEnd[c] # Closed} \in SUBSET Channels
    BY DEF Channels
  <2>2. QED
    BY <1>1, <1>3, <2>1, SendFlows DEF ResponseInput
<1>4. ASSUME NEW c \in Channels, SendInputMessage(c)
      PROVE  OneChannel' /\ SameQueue' /\ \A x \in Channels : Flows(x)'
  BY <1>1, <1>4, SendFlows DEF SendInputMessage
<1>5. ASSUME NEW c \in Channels, ReceiveMessage(c)
      PROVE  OneChannel' /\ SameQueue' /\ \A x \in Channels : Flows(x)'
  BY <1>1, <1>5, ReceiveFlows DEF ReceiveMessage
<1>6. ASSUME NEW c \in Channels, ReleaseInput(c) \/ WindowGoes(c) \/ Stop(c) \/ AppDies(c)
      PROVE  OneChannel' /\ SameQueue' /\ \A x \in Channels : Flows(x)'
  BY <1>6, ClosedFlows DEF ReleaseInput, WindowGoes, Stop, AppDies
<1>7. CASE UNCHANGED vars
  <2>1. UNCHANGED <<queues, srvEnd, appEnd, since, sent, dropped, got>>
    BY <1>7 DEF vars, ends
  <2>2. \A x \in Channels : Stream(x)' = Stream(x) /\ (Open(x)' => Open(x))
    BY <2>1 DEF Stream, Open
  <2>3. QED
    BY <1>1, <2>1, <2>2, FlowKept DEF FlowInv
<1>8. QED
  BY <1>2, <1>3, <1>4, <1>5, <1>6, <1>7 DEF Next

-----------------------------------------------------------------------------

LEMMA InitInv == Init => IInv
<1> SUFFICES ASSUME Init PROVE IInv
  OBVIOUS
<1>1. /\ << >> \in Seq(Seq(Message)) /\ Len(<< >>) = 0 /\ DOMAIN << >> = {} /\ 0 \in 0 .. MaxSent
      /\ << >> \in Seq(Message) /\ Len(<< >>) <= MaxQueues /\ Closed \in 0 .. 0
  BY CapacityAssumption DEF Closed
<1>2. QueuesOK /\ HistoryOK
  BY <1>1 DEF Init, QueuesOK, HistoryOK
<1>3. EndsOK /\ EndsAreQueues
  BY <1>1 DEF Init, EndsOK, EndsAreQueues
<1>4. HalfOpen /\ NoNameIsLeft
  BY DEF Init, HalfOpen, NoNameIsLeft
<1>5. QED
  BY <1>2, <1>3, <1>4, TypeParts DEF IInv

LEMMA InvAlways == Spec => []IInv
<1>1. IInv /\ [Next]_vars => IInv'
  BY NextTyped, NamesKept DEF IInv
<1>2. QED
  BY <1>1, InitInv, PTL DEF Spec

(* What is open is a queue, and no queue outgrows its capacity. *)
THEOREM TypeCorrect == Spec => []TypeOK
<1>1. IInv => TypeOK
  BY DEF IInv
<1>2. QED
  BY <1>1, InvAlways, PTL

(***************************************************************************)
(* The name of a queue goes with the last end of it, in whichever order    *)
(* the ends are closed, for any number of channels, apps that die and      *)
(* names used again.                                                       *)
(***************************************************************************)
THEOREM NamesAreFreed == Spec => []NoNameIsLeft
<1>1. IInv => NoNameIsLeft
  BY DEF IInv
<1>2. QED
  BY <1>1, InvAlways, PTL

LEMMA FlowAlways == Spec => []FlowInv
<1>1. Init => FlowInv
  <2> SUFFICES ASSUME Init PROVE FlowInv
    OBVIOUS
  <2>1. OneChannel /\ SameQueue
    BY DEF Init, OneChannel, SameQueue, Open
  <2>2. ASSUME NEW c \in Channels PROVE Flows(c)
    <3>1. since[c] = 0 /\ sent[c] = 0 /\ Stream(c) = << >> /\ ~Open(c)
      BY DEF Init, Stream, Open
    <3>2. QED
      BY <3>1 DEF Flows, Proper, Complete
  <2>3. QED
    BY <2>1, <2>2, InitInv DEF FlowInv
<1>2. FlowInv /\ [Next]_vars => FlowInv'
  BY NextTyped, NamesKept, NextFlows DEF FlowInv, IInv
<1>3. QED
  BY <1>1, <1>2, PTL DEF Spec

(***************************************************************************)
(* Every channel receives its own messages, each once and in order, and    *)
(* none from before it was opened, for any number of channels that open    *)
(* and close under names used again, and queues of any size.               *)
(***************************************************************************)
THEOREM AlwaysInOrder == Spec => []InOrder
<1>1. FlowInv => InOrder
  <2> SUFFICES ASSUME FlowInv, NEW c \in Channels
               PROVE  /\ \A i \in DOMAIN got[c] : got[c][i].to = c /\ got[c][i].number > since[c]
                      /\ \A i, j \in DOMAIN got[c] : i < j => got[c][i].number < got[c][j].number
    BY DEF InOrder
  <2>1. IInv /\ TypeOK /\ got[c] \in Seq(Message) /\ Flows(c) /\ since \in [Channels -> 0 .. MaxSent]
    BY StreamTyped DEF FlowInv, IInv, TypeOK
  <2>2. Proper(got[c], c, since[c], sent[c])
    <3>1. CASE appEnd[c] = Closed
      BY <2>1, <3>1 DEF Flows, Stream
    <3>2. CASE appEnd[c] # Closed
      BY <2>1, <3>2, StreamTyped, PrefixProper DEF Flows, Stream
    <3>3. QED
      BY <3>1, <3>2
  <2>3. /\ DOMAIN got[c] = 1 .. Len(got[c]) /\ since[c] \in Nat
        /\ \A i \in 1 .. Len(got[c]) : got[c][i].number \in Nat
    <3>1. since[c] \in 0 .. MaxSent
      BY <2>1, Zenon
    <3>2. since[c] \in Nat
      BY <3>1, CapacityAssumption
    <3>3. QED
      BY <2>1, <3>2, Numbered
  <2>4. QED
    BY <2>2, <2>3 DEF Proper
<1>2. QED
  BY <1>1, FlowAlways, PTL

(***************************************************************************)
(* What was sent to an open channel is received or in its queue, or found  *)
(* its own queue full, whatever other channels read or leave, for any      *)
(* number of them and queues of any size.                                  *)
(***************************************************************************)
THEOREM NothingIsEverLost == Spec => []NothingIsLost
<1>1. FlowInv => NothingIsLost
  <2> SUFFICES ASSUME FlowInv, NEW c \in Channels, Open(c), NEW i \in since[c] + 1 .. sent[c],
                      i \notin dropped[c]
               PROVE  [to |-> c, number |-> i] \in Range(got[c]) \cup Range(queues[appEnd[c]])
    BY DEF NothingIsLost
  <2> DEFINE g == got[c]
             r == queues[appEnd[c]]
             s == g \o r
  <2>1. g \in Seq(Message) /\ r \in Seq(Message) /\ Stream(c) = s
    BY StreamTyped DEF FlowInv, Open, Stream
  <2>2. [to |-> c, number |-> i] \in Range(s)
    BY <2>1 DEF FlowInv, Flows, Complete
  <2>3. /\ Len(g) \in Nat /\ Len(r) \in Nat /\ DOMAIN s = 1 .. Len(g) + Len(r)
        /\ DOMAIN g = 1 .. Len(g) /\ DOMAIN r = 1 .. Len(r)
        /\ \A k \in 1 .. Len(g) + Len(r) : s[k] = IF k <= Len(g) THEN g[k] ELSE r[k - Len(g)]
    <3>1. /\ Len(g) \in Nat /\ Len(r) \in Nat /\ DOMAIN s = 1 .. Len(g) + Len(r)
          /\ DOMAIN g = 1 .. Len(g) /\ DOMAIN r = 1 .. Len(r)
          /\ \A k \in 1 .. Len(g) : s[k] = g[k]
          /\ \A k \in 1 .. Len(r) : s[Len(g) + k] = r[k]
      BY <2>1, Concatenated
    <3> HIDE DEF g, r, s
    <3>2. QED
      BY <3>1
  <2> HIDE DEF g, r, s
  <2>4. Range(s) \subseteq Range(g) \cup Range(r)
    <3>1. ASSUME NEW k \in 1 .. Len(g) + Len(r) PROVE s[k] \in Range(g) \cup Range(r)
      <4>1. CASE k <= Len(g)
        <5>1. k \in DOMAIN g /\ s[k] = g[k]
          BY <2>3, <4>1
        <5>2. QED
          BY <5>1 DEF Range
      <4>2. CASE ~(k <= Len(g))
        <5>1. k - Len(g) \in DOMAIN r /\ s[k] = r[k - Len(g)]
          BY <2>3, <4>2
        <5>2. QED
          BY <5>1 DEF Range
      <4>3. QED
        BY <4>1, <4>2
    <3>2. QED
      BY <2>3, <3>1 DEF Range
  <2>5. QED
    BY <2>2, <2>4 DEF g, r
<1>2. QED
  BY <1>1, FlowAlways, PTL
=============================================================================
