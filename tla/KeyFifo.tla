------------------------------- MODULE KeyFifo -------------------------------
(***************************************************************************)
(* What the two ends of a surface expect of the queue of released buffers: *)
(* keys come out in the order they went in, each once, and a read finds    *)
(* nothing only when nothing is there.  FakeFmq implements it.             *)
(***************************************************************************)
EXTENDS Sequences, Functions

CONSTANTS Ids \* the keys of the surface's buffers, all in the queue at first

VARIABLES items, \* the keys written and not yet read, oldest first
          got    \* what the last read returned; 0 for no item
fifoVars == <<items, got>>

Init == items = Ids /\ got = 0

Put(k) ==
  /\ k \notin Range(items)
  /\ items' = Append(items, k)
  /\ UNCHANGED got

Get ==
  /\ items # << >>
  /\ got' = Head(items)
  /\ items' = Tail(items)

GetNothing == items = << >> /\ got' = 0 /\ UNCHANGED items

Next == (\E k \in Range(Ids) : Put(k)) \/ Get \/ GetNothing

Spec == Init /\ [][Next]_fifoVars
=============================================================================
