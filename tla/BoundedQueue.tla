---------------------------- MODULE BoundedQueue ----------------------------
(***************************************************************************)
(* What a FreeRTOS queue promises its users: a sequence of at most         *)
(* uxLength items, put in at either end and taken out at the front.        *)
(***************************************************************************)
EXTENDS Sequences, Naturals

CONSTANTS Queue, uxLength, Item

VARIABLE items

Init == items = [q \in Queue |-> <<>>]

SendToBack(q, item) ==
  /\ Len(items[q]) < uxLength[q]
  /\ items' = [items EXCEPT ![q] = Append(@, item)]

SendToFront(q, item) ==
  /\ Len(items[q]) < uxLength[q]
  /\ items' = [items EXCEPT ![q] = <<item>> \o @]

Receive(q) ==
  /\ items[q] # <<>>
  /\ items' = [items EXCEPT ![q] = Tail(@)]

Next == \E q \in Queue :
          Receive(q) \/ \E item \in Item : SendToBack(q, item) \/ SendToFront(q, item)

Spec == Init /\ [][Next]_items
=============================================================================
