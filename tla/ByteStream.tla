----------------------------- MODULE ByteStream -----------------------------
(***************************************************************************)
(* What a connection promises its two tasks: the bytes read are the bytes  *)
(* sent, each once and in order, and none before it was sent.              *)
(***************************************************************************)
EXTENDS Integers, Sequences

CONSTANT Total
VARIABLES sent, read    \* the bytes handed over, as their number; the bytes returned

Init == sent = 0 /\ read = <<>>

Send == /\ sent' \in sent + 1..Total
        /\ UNCHANGED read

Receive == /\ \E n \in Len(read) + 1..sent : read' = [k \in 1..n |-> k]
           /\ UNCHANGED sent

Next == Send \/ Receive

Spec == Init /\ [][Next]_<<sent, read>>
=============================================================================
