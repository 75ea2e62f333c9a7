----------------------------- MODULE InputChannels -----------------------------
(***************************************************************************)
(* How input reaches the apps: an InputDispatcher in the server and an     *)
(* InputMonitor in an app at the two ends of a POSIX message queue         *)
(* (common/InputChannel.cpp, server/InputDispatcher.cpp,                   *)
(* app/InputMonitor.cpp).  There are two kinds:                            *)
(*                                                                         *)
(*   a monitor of the app's own, which is sent every sample of the touch   *)
(*   device (WindowManagerService::monitorInput, releaseInput,             *)
(*   responseInput) under a name the app chooses;                          *)
(*   the channel of a window, which is sent what LVGL finds to be for the  *)
(*   window (WindowState::sendInputMessage), under a random name.          *)
(*                                                                         *)
(* A queue is opened by name, and made if it is not there; either end      *)
(* closes it and takes the name away.  The queue is not blocking: what     *)
(* does not fit is dropped.  An app that dies closes its end and no more:  *)
(* the server takes its windows away but keeps its monitors.               *)
(*                                                                         *)
(* A queue keeps what is in it as long as an end of it is open; queues are *)
(* numbered as they are made.  An app is taken to give no two of its open  *)
(* monitors the same name: they would share a queue (see README, "Where    *)
(* the code falls short").                                                 *)
(***************************************************************************)
EXTENDS Integers, Sequences, SequencesExt, FiniteSets

CONSTANTS Monitors,    \* channels that monitorInput opens, by the token of the InputMonitor
          WindowInputs,\* channels that addWindow opens
          Names,       \* of queues
          Capacity,    \* MAX_MSG
          MaxSent,     \* bound: messages sent to a channel
          MaxQueues    \* bound: queues made

ASSUME CapacityAssumption == Capacity \in Nat \ {0} /\ MaxSent \in Nat /\ MaxQueues \in Nat
ASSUME KindsAssumption ==
  /\ Monitors \cap WindowInputs = {} /\ IsFiniteSet(Monitors \cup WindowInputs)

Channels == Monitors \cup WindowInputs
Closed == 0 \* mEventFd = -1, or no queue of a name
Queues == 1 .. MaxQueues

VARIABLES
  queues,  \* what is in the queues made so far
  named,   \* the queue of each name
  name,    \* mEventName of each channel
  srvEnd,  \* the queue its InputDispatcher has open
  appEnd,  \* the queue its InputMonitor has open
  orphans, \* monitors whose app has died
  \* for the properties
  since,   \* messages sent to the channel before it was opened last
  sent,    \* messages sent to it altogether
  dropped, \* those that found the queue full
  got      \* what its InputMonitor has received since it was opened last

ends == <<queues, named, name, srvEnd, appEnd, orphans>>
vars == <<ends, since, sent, dropped, got>>

Message == [to : Channels, number : 1 .. MaxSent]

TypeOK ==
  /\ queues \in Seq(Seq(Message)) /\ Len(queues) <= MaxQueues
  /\ \A q \in DOMAIN queues : Len(queues[q]) <= Capacity
  /\ named \in [Names -> Queues \cup {Closed}]
  /\ name \in [Channels -> Names \cup {""}]
  /\ srvEnd \in [Channels -> Queues \cup {Closed}]
  /\ appEnd \in [Channels -> Queues \cup {Closed}]
  /\ orphans \subseteq Monitors
  /\ since \in [Channels -> 0 .. MaxSent] /\ sent \in [Channels -> 0 .. MaxSent]
  /\ dropped \in [Channels -> SUBSET (1 .. MaxSent)]
  /\ got \in [Channels -> Seq(Message)]

Init ==
  /\ queues = << >> /\ named = [n \in Names |-> Closed]
  /\ name = [c \in Channels |-> ""]
  /\ srvEnd = [c \in Channels |-> Closed] /\ appEnd = [c \in Channels |-> Closed]
  /\ orphans = {}
  /\ since = [c \in Channels |-> 0] /\ sent = [c \in Channels |-> 0]
  /\ dropped = [c \in Channels |-> {}] /\ got = [c \in Channels |-> << >>]

-----------------------------------------------------------------------------
(* InputChannel::create and release *)

Used(n) == \E c \in Channels : name[c] = n /\ (srvEnd[c] # Closed \/ appEnd[c] # Closed)

(* mq_open by the server for c, whose descriptor the app is given a copy of. *)
Create(c, n) ==
  LET q == IF named[n] # Closed THEN named[n] ELSE Len(queues) + 1 IN
  /\ q <= MaxQueues
  /\ queues' = IF named[n] # Closed THEN queues ELSE Append(queues, << >>)
  /\ named' = [named EXCEPT ![n] = q]
  /\ name' = [name EXCEPT ![c] = n]
  /\ srvEnd' = [srvEnd EXCEPT ![c] = q] /\ appEnd' = [appEnd EXCEPT ![c] = q]

(* release() leaves the name: what NoNameIsLeft and InOrder would show. *)
UnlinkNothing(c) == named' = named

(* mq_unlink, whichever queue has the name by now. *)
Unlink(c) == named' = [named EXCEPT ![name[c]] = Closed]

-----------------------------------------------------------------------------
(* Server *)

(***************************************************************************)
(* InputDispatcher::sendMessage, for each of the channels cs: a message    *)
(* that does not fit is dropped.  mInputMonitorMap has an order of its own.*)
(***************************************************************************)
Messages(cs) == SetToSeq({[to |-> c, number |-> sent[c] + 1] : c \in cs})

Queued(q, cs) ==
  LET all == queues[q] \o Messages({c \in cs : srvEnd[c] = q})
  IN  SubSeq(all, 1, IF Len(all) < Capacity THEN Len(all) ELSE Capacity)

(* The loop ends at a queue that is full: what NothingIsLost would show. *)
SendUntilFull(cs) ==
  /\ cs # {} /\ \A c \in cs : sent[c] < MaxSent
  /\ sent' = [c \in Channels |-> IF c \in cs THEN sent[c] + 1 ELSE sent[c]]
  /\ queues' = IF \A c \in cs : Len(queues[srvEnd[c]]) < Capacity
               THEN [q \in DOMAIN queues |-> Queued(q, cs)] ELSE queues
  /\ dropped' = [c \in Channels |->
                   IF c \in cs /\ Len(queues[srvEnd[c]]) = Capacity
                   THEN dropped[c] \cup {sent[c] + 1} ELSE dropped[c]]

Send(cs) ==
  /\ cs # {} /\ \A c \in cs : sent[c] < MaxSent
  /\ sent' = [c \in Channels |-> IF c \in cs THEN sent[c] + 1 ELSE sent[c]]
  /\ queues' = [q \in DOMAIN queues |-> Queued(q, cs)]
  /\ dropped' = [c \in Channels |->
                   IF c \in cs /\ [to |-> c, number |-> sent[c] + 1] \notin Range(queues'[srvEnd[c]])
                              /\ Len(queues[srvEnd[c]]) = Capacity
                   THEN dropped[c] \cup {sent[c] + 1} ELSE dropped[c]]

(* monitorInput, called by WindowManager::monitorInput; addWindow for a window. *)
MonitorInput(c, n) ==
  /\ srvEnd[c] = Closed /\ appEnd[c] = Closed
  /\ ~Used(n)
  /\ Create(c, n)
  /\ since' = [since EXCEPT ![c] = sent[c]]
  /\ got' = [got EXCEPT ![c] = << >>]
  /\ UNCHANGED <<orphans, sent, dropped>>

ResponseInput ==
  /\ Send({c \in Monitors : srvEnd[c] # Closed})
  /\ UNCHANGED <<named, name, srvEnd, appEnd, orphans, since, got>>

SendInputMessage(c) ==
  /\ c \in WindowInputs /\ srvEnd[c] # Closed
  /\ Send({c})
  /\ UNCHANGED <<named, name, srvEnd, appEnd, orphans, since, got>>

(* releaseInput, from ~InputMonitor; ~InputDispatcher releases the channel. *)
ReleaseInput(c) ==
  /\ c \in Monitors \ orphans /\ srvEnd[c] # Closed /\ appEnd[c] = Closed
  /\ srvEnd' = [srvEnd EXCEPT ![c] = Closed]
  /\ Unlink(c)
  /\ UNCHANGED <<queues, name, appEnd, orphans, since, sent, dropped, got>>

(* removeImmediately releases the dispatcher of a window, at any time. *)
WindowGoes(c) ==
  /\ c \in WindowInputs /\ srvEnd[c] # Closed
  /\ srvEnd' = [srvEnd EXCEPT ![c] = Closed]
  /\ Unlink(c)
  /\ UNCHANGED <<queues, name, appEnd, orphans, since, sent, dropped, got>>

-----------------------------------------------------------------------------
(* App *)

ReceiveMessage(c) ==
  /\ appEnd[c] # Closed /\ queues[appEnd[c]] # << >>
  /\ got' = [got EXCEPT ![c] = Append(@, Head(queues[appEnd[c]]))]
  /\ queues' = [queues EXCEPT ![appEnd[c]] = Tail(@)]
  /\ UNCHANGED <<named, name, srvEnd, appEnd, orphans, since, sent, dropped>>

(* InputMonitor::stop, from its destructor *)
Stop(c) ==
  /\ appEnd[c] # Closed
  /\ appEnd' = [appEnd EXCEPT ![c] = Closed]
  /\ Unlink(c)
  /\ UNCHANGED <<queues, name, srvEnd, orphans, since, sent, dropped, got>>

AppDies(c) ==
  /\ appEnd[c] # Closed
  /\ appEnd' = [appEnd EXCEPT ![c] = Closed]
  /\ orphans' = IF c \in Monitors THEN orphans \cup {c} ELSE orphans
  /\ UNCHANGED <<queues, named, name, srvEnd, since, sent, dropped, got>>

Next ==
  \/ ResponseInput
  \/ \E c \in Channels :
       \/ \E n \in Names : MonitorInput(c, n)
       \/ SendInputMessage(c) \/ ReleaseInput(c) \/ WindowGoes(c)
       \/ ReceiveMessage(c) \/ Stop(c) \/ AppDies(c)

Spec == Init /\ [][Next]_vars

-----------------------------------------------------------------------------
(* Properties *)

Open(c) == appEnd[c] # Closed /\ srvEnd[c] # Closed

(***************************************************************************)
(* A channel receives its own messages, each once, in the order they were  *)
(* sent, and none from before it was opened, although its name may have    *)
(* been that of another channel's queue.                                   *)
(***************************************************************************)
InOrder ==
  \A c \in Channels :
    /\ \A i \in DOMAIN got[c] : got[c][i].to = c /\ got[c][i].number > since[c]
    /\ \A i, j \in DOMAIN got[c] : i < j => got[c][i].number < got[c][j].number

(***************************************************************************)
(* What was sent to an open channel has been received, or will be, or      *)
(* found its own queue full: a monitor that does not read costs the others *)
(* nothing.                                                                *)
(***************************************************************************)
NothingIsLost ==
  \A c \in Channels : Open(c) =>
    \A i \in since[c] + 1 .. sent[c] :
      \/ i \in dropped[c]
      \/ [to |-> c, number |-> i] \in Range(got[c]) \cup Range(queues[appEnd[c]])

(* No queue keeps its name when both ends have let it go. *)
NoNameIsLeft == \A n \in Names : named[n] # Closed => Used(n)
=============================================================================
