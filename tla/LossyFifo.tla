----------------------------- MODULE LossyFifo -----------------------------
(***************************************************************************)
(* What a network device owes the packets it is given: it may lose some,   *)
(* but those that leave do so in the order in which they came.             *)
(***************************************************************************)
EXTENDS Naturals, Sequences, Selection

CONSTANT Item

VARIABLE queue   \* accepted and neither delivered nor lost, oldest first

Init == queue = <<>>

Accept(x) == queue' = Append(queue, x)

(* The items at some positions leave, delivered or lost; the others keep   *)
(* their order.                                                            *)
Kept(gone) == Selected(queue, (1 .. Len(queue)) \ gone)

Leave == \E gone \in SUBSET (1 .. Len(queue)) : queue' = Kept(gone)

Next == Leave \/ (\E x \in Item : Accept(x))

Spec == Init /\ [][Next]_queue
=============================================================================
