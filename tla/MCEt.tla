-------------------------------- MODULE MCEt --------------------------------
(* Small instances of Et: packets of one, two and three buffers, one whose  *)
(* chain ends in an empty buffer and one whose chain begins with one; two   *)
(* frames that fit a buffer, and one that spans two.                        *)
EXTENDS Et

CONSTANTS one, other, two, three, tail, f, h, g

MCDescs == [p \in Pkt |-> IF p = two THEN 2 ELSE IF p = three THEN 3 ELSE 1]
MCTailEmpty == [p \in Pkt |-> p = tail]
MCHeadEmpty == [p \in Pkt |-> p = one]

(* A bound on the work at hand: packets not yet freed and receive buffers   *)
(* not yet taken.  Only a new packet or a new frame adds to it.             *)
MaxLoad == 3
LightLoad ==
  Cardinality(live) + Cardinality({i \in RxSlot : rxbuf[i] # NoData}) <= MaxLoad

(* From the last request on, which most often opens the interface again,    *)
(* fewer packets are enough: the first two requests see them all.           *)
MaxLate == 2
LateLoad == requests = MaxRequests => Cardinality(live) <= MaxLate
=============================================================================
