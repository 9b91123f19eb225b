------------------------------ MODULE EtProofs ------------------------------
(***************************************************************************)
(* Proofs about Et and the rings of HndDma, for every ring size, number of *)
(* receive buffers, packet shape and number of requests and errors.        *)
(***************************************************************************)
EXTENDS Et, TLAPS

-----------------------------------------------------------------------------
(***************************************************************************)
(* Ring arithmetic.  Everything below measures slots by their distance     *)
(* from the first descriptor in use and never looks inside Dist.           *)
(***************************************************************************)
LEMMA DistType ==
  ASSUME NEW n \in Nat, NEW a \in 0 .. n - 1, NEW b \in 0 .. n - 1
  PROVE  Dist(a, b, n) \in 0 .. n - 1 /\ Dist(a, a, n) = 0
BY DEF Dist

LEMMA DistInjective ==
  ASSUME NEW n \in Nat, NEW a \in 0 .. n - 1, NEW b \in 0 .. n - 1, NEW c \in 0 .. n - 1,
         Dist(a, b, n) = Dist(a, c, n)
  PROVE  b = c
BY DEF Dist

(* Measured from b instead of a.                                           *)
LEMMA DistShift ==
  ASSUME NEW n \in Nat, NEW a \in 0 .. n - 1, NEW b \in 0 .. n - 1, NEW c \in 0 .. n - 1
  PROVE  Dist(b, c, n) = IF Dist(a, b, n) <= Dist(a, c, n)
                         THEN Dist(a, c, n) - Dist(a, b, n)
                         ELSE (Dist(a, c, n) - Dist(a, b, n)) + n
BY DEF Dist

LEMMA DistPlus ==
  ASSUME NEW n \in Nat, NEW a \in 0 .. n - 1, NEW b \in 0 .. n - 1, NEW k \in 0 .. n - 1
  PROVE  /\ Plus(b, k, n) \in 0 .. n - 1
         /\ Dist(a, Plus(b, k, n), n) = IF Dist(a, b, n) + k < n
                                        THEN Dist(a, b, n) + k
                                        ELSE (Dist(a, b, n) + k) - n
BY DEF Plus, Dist

(* The same facts, for the two rings.                                      *)
LEMMA TxDist ==
  /\ \A a, b \in TxSlot : NTXDACTIVE(a, b) \in 0 .. NTXD - 1
  /\ \A a \in TxSlot : NTXDACTIVE(a, a) = 0
  /\ \A a, b, c \in TxSlot : NTXDACTIVE(a, b) = NTXDACTIVE(a, c) => b = c
BY RingAssumption, DistType, DistInjective DEF TxSlot, NTXDACTIVE

LEMMA TxShift ==
  ASSUME NEW a \in TxSlot, NEW b \in TxSlot, NEW c \in TxSlot
  PROVE  NTXDACTIVE(b, c) = IF NTXDACTIVE(a, b) <= NTXDACTIVE(a, c)
                            THEN NTXDACTIVE(a, c) - NTXDACTIVE(a, b)
                            ELSE (NTXDACTIVE(a, c) - NTXDACTIVE(a, b)) + NTXD
BY RingAssumption, DistShift DEF TxSlot, NTXDACTIVE

LEMMA TxPlus ==
  ASSUME NEW a \in TxSlot, NEW b \in TxSlot, NEW k \in 0 .. NTXD - 1
  PROVE  /\ Plus(b, k, NTXD) \in TxSlot
         /\ NTXDACTIVE(a, Plus(b, k, NTXD)) =
              IF NTXDACTIVE(a, b) + k < NTXD THEN NTXDACTIVE(a, b) + k
                                             ELSE (NTXDACTIVE(a, b) + k) - NTXD
BY RingAssumption, DistPlus DEF TxSlot, NTXDACTIVE

LEMMA TxPrev ==
  ASSUME NEW a \in TxSlot, NEW b \in TxSlot
  PROVE  /\ PREVTXD(b) \in TxSlot
         /\ NTXDACTIVE(a, PREVTXD(b)) =
              IF NTXDACTIVE(a, b) = 0 THEN NTXD - 1 ELSE NTXDACTIVE(a, b) - 1
BY RingAssumption DEF TxSlot, NTXDACTIVE, Dist, PREVTXD

LEMMA RxDist ==
  /\ \A a, b \in RxSlot : NRXDACTIVE(a, b) \in 0 .. NRXD - 1
  /\ \A a \in RxSlot : NRXDACTIVE(a, a) = 0
  /\ \A a, b, c \in RxSlot : NRXDACTIVE(a, b) = NRXDACTIVE(a, c) => b = c
BY RingAssumption, DistType, DistInjective DEF RxSlot, NRXDACTIVE

LEMMA RxShift ==
  ASSUME NEW a \in RxSlot, NEW b \in RxSlot, NEW c \in RxSlot
  PROVE  NRXDACTIVE(b, c) = IF NRXDACTIVE(a, b) <= NRXDACTIVE(a, c)
                            THEN NRXDACTIVE(a, c) - NRXDACTIVE(a, b)
                            ELSE (NRXDACTIVE(a, c) - NRXDACTIVE(a, b)) + NRXD
BY RingAssumption, DistShift DEF RxSlot, NRXDACTIVE

LEMMA RxPlus ==
  ASSUME NEW a \in RxSlot, NEW b \in RxSlot, NEW k \in 0 .. NRXD - 1
  PROVE  /\ Plus(b, k, NRXD) \in RxSlot
         /\ NRXDACTIVE(a, Plus(b, k, NRXD)) =
              IF NRXDACTIVE(a, b) + k < NRXD THEN NRXDACTIVE(a, b) + k
                                             ELSE (NRXDACTIVE(a, b) + k) - NRXD
BY RingAssumption, DistPlus DEF RxSlot, NRXDACTIVE

-----------------------------------------------------------------------------
(***************************************************************************)
(* The parts of the invariant that are about the transmit ring.            *)
(***************************************************************************)

(* The running engine stops at txout and is behind txin.                   *)
TxEngine ==
  dmaon => /\ txptr = txout
           /\ NTXDACTIVE(txin, txcurr) <= NTXDACTIVE(txin, txout)

TxTypes ==
  /\ txin \in TxSlot /\ txout \in TxSlot /\ txcurr \in TxSlot /\ txptr \in TxSlot
  /\ txavail \in 0 .. NTXD - 1
  /\ txp \in [TxSlot -> Pkt \cup {NoPkt}]
  /\ txd \in [TxSlot -> Desc]
  /\ onwire \in Desc
  /\ live \subseteq Pkt

LEMMA SlotZero == 0 \in TxSlot /\ 0 \in RxSlot /\ NTXD \in Nat /\ NRXD \in Nat
BY RingAssumption DEF TxSlot, RxSlot

LEMMA AvailType ==
  ASSUME NEW in \in TxSlot, NEW out \in TxSlot
  PROVE  Avail(in, out) \in 0 .. NTXD - 1
BY TxDist, SlotZero DEF Avail

LEMMA NoDescType == NoDesc \in Desc
BY SlotZero DEF NoDesc, Desc

(* Whatever the running engine has still to fetch is active and, as every  *)
(* active descriptor leads to a pointer to its packet, live.               *)
LEMMA FetchesOwned ==
  ASSUME TxTypes, TxRingSound, PacketsOwned, TxEngine
  PROVE  FetchesLive
<1> SUFFICES ASSUME dmaon, NEW i \in TxSlot, InEngine(i)
             PROVE  TxActive(i) /\ txd[i].pkt \in live
  BY DEF FetchesLive
<1>1. TxActive(i)
  <2>1. txptr = txout /\ NTXDACTIVE(txin, txcurr) <= NTXDACTIVE(txin, txout)
    BY DEF TxEngine
  <2>2. NTXDACTIVE(txcurr, i) = IF NTXDACTIVE(txin, txcurr) <= NTXDACTIVE(txin, i)
                                THEN NTXDACTIVE(txin, i) - NTXDACTIVE(txin, txcurr)
                                ELSE (NTXDACTIVE(txin, i) - NTXDACTIVE(txin, txcurr)) + NTXD
    BY TxShift DEF TxTypes
  <2>3. NTXDACTIVE(txcurr, txout) = NTXDACTIVE(txin, txout) - NTXDACTIVE(txin, txcurr)
    BY <2>1, TxShift DEF TxTypes
  <2>4. /\ NTXDACTIVE(txin, i) \in 0 .. NTXD - 1
        /\ NTXDACTIVE(txin, txcurr) \in 0 .. NTXD - 1
        /\ NTXDACTIVE(txin, txout) \in 0 .. NTXD - 1
    BY TxDist DEF TxTypes
  <2> QED
    BY <2>1, <2>2, <2>3, <2>4, SlotZero DEF InEngine, TxActive
<1>2. PICK j \in TxSlot : EndsAt(i, j)
  BY <1>1 DEF TxRingSound
<1>3. txd[i].pkt \in Pkt /\ txp[j] = txd[i].pkt
  BY <1>1, <1>2 DEF TxRingSound, EndsAt
<1>4. txp[j] \in InRing
  BY <1>3, PacketAssumption DEF InRing
<1> QED
  BY <1>1, <1>3, <1>4 DEF PacketsOwned

-----------------------------------------------------------------------------
(***************************************************************************)
(* Reclaiming.  Descriptors up to in are taken, at most up to txout.       *)
(***************************************************************************)
LEMMA TakeToRing ==
  ASSUME TxTypes, TxRingSound, NEW in \in TxSlot, TakeTo(in),
         NTXDACTIVE(txin, in) <= NTXDACTIVE(txin, txout)
  PROVE  /\ TxRingSound'
         /\ txp' \in [TxSlot -> Pkt \cup {NoPkt}] /\ txd' \in [TxSlot -> Desc]
         /\ txin' = in /\ txavail' = Avail(in, txout) /\ txout' = txout
         /\ \A i \in TxSlot : txp'[i] = IF NTXDACTIVE(txin, in) <= NTXDACTIVE(txin, i)
                                        THEN txp[i] ELSE NoPkt
<1> DEFINE D(i) == NTXDACTIVE(txin, i)
<1>1. /\ \A i \in TxSlot : D(i) \in 0 .. NTXD - 1
      /\ \A i, j \in TxSlot : D(i) = D(j) => i = j
  BY TxDist DEF TxTypes
<1>2. \A i \in TxSlot : NTXDACTIVE(in, i) = IF D(in) <= D(i) THEN D(i) - D(in)
                                            ELSE (D(i) - D(in)) + NTXD
  BY TxShift DEF TxTypes
<1>3. txin' = in /\ txavail' = Avail(in, txout) /\ txout' = txout
  BY DEF TakeTo
<1>4. \A i \in TxSlot : /\ D(in) <= D(i) => txp'[i] = txp[i] /\ txd'[i] = txd[i]
                        /\ D(i) < D(in) => txp'[i] = NoPkt /\ txd'[i] = NoDesc
  BY <1>1, SlotZero DEF TakeTo
<1>5. txp' \in [TxSlot -> Pkt \cup {NoPkt}] /\ txd' \in [TxSlot -> Desc]
  BY NoDescType DEF TakeTo, TxTypes
<1>6. \A i \in TxSlot : TxActive(i)' <=> TxActive(i) /\ D(in) <= D(i)
  <2> SUFFICES ASSUME NEW i \in TxSlot
               PROVE  TxActive(i)' <=> TxActive(i) /\ D(in) <= D(i)
    OBVIOUS
  <2>1. TxActive(i)' <=> NTXDACTIVE(in, i) < NTXDACTIVE(in, txout)
    BY <1>3 DEF TxActive
  <2>2. txout \in TxSlot /\ D(in) <= D(txout)
    BY DEF TxTypes
  <2> QED
    BY <1>1, <1>2, <2>1, <2>2, SlotZero DEF TxActive
<1>7. ASSUME NEW i \in TxSlot, txp'[i] # NoPkt PROVE TxActive(i)'
  <2>1. D(in) <= D(i) /\ txp[i] # NoPkt
    BY <1>1, <1>4, <1>7, SlotZero
  <2> QED
    BY <2>1, <1>6 DEF TxRingSound
<1>8. ASSUME NEW i \in TxSlot, TxActive(i)'
      PROVE  txd'[i].pkt \in Pkt /\ \E j \in TxSlot : TxActive(j)' /\ EndsAt(i, j)'
  <2>1. TxActive(i) /\ D(in) <= D(i)
    BY <1>6, <1>8
  <2>2. PICK j \in TxSlot : TxActive(j) /\ EndsAt(i, j)
    BY <2>1 DEF TxRingSound
  <2>3. D(i) <= D(j)
    BY <2>2 DEF EndsAt
  <2>4. D(in) <= D(j)
    BY <2>1, <2>3, <1>1, SlotZero
  <2>5. TxActive(j)'
    BY <2>2, <2>4, <1>6
  <2>6. txp'[j] = txd'[i].pkt
    BY <2>1, <2>2, <2>4, <1>4 DEF EndsAt
  <2>7. NTXDACTIVE(in, i) = D(i) - D(in) /\ NTXDACTIVE(in, j) = D(j) - D(in)
    BY <1>2, <2>1, <2>4
  <2>8. ASSUME NEW k \in TxSlot, NTXDACTIVE(in, i) <= NTXDACTIVE(in, k),
               NTXDACTIVE(in, k) < NTXDACTIVE(in, j)
        PROVE  txp'[k] = NoPkt
    <3>1. CASE D(in) <= D(k)
      <4>1. NTXDACTIVE(in, k) = D(k) - D(in)
        BY <3>1, <1>2
      <4>2. D(i) <= D(k) /\ D(k) < D(j)
        BY <2>7, <2>8, <4>1, <1>1, SlotZero
      <4>3. txp[k] = NoPkt
        BY <4>2, <2>2 DEF EndsAt
      <4> QED
        BY <4>3, <3>1, <1>4
    <3>2. CASE ~(D(in) <= D(k))
      BY <3>2, <1>1, <1>4, SlotZero
    <3> QED
      BY <3>1, <3>2
  <2>9. NTXDACTIVE(in, i) <= NTXDACTIVE(in, j)
    BY <2>3, <2>7, <1>1, SlotZero
  <2>10. EndsAt(i, j)'
    BY <2>6, <2>8, <2>9, <1>3 DEF EndsAt
  <2>11. txd'[i].pkt \in Pkt
    BY <2>1, <1>4 DEF TxRingSound
  <2> QED
    BY <2>5, <2>10, <2>11
<1>9. TxRingSound'
  BY <1>7, <1>8 DEF TxRingSound
<1>10. \A i \in TxSlot : txp'[i] = IF D(in) <= D(i) THEN txp[i] ELSE NoPkt
  BY <1>1, <1>4, SlotZero
<1> QED
  BY <1>3, <1>5, <1>9, <1>10

(* The first descriptor that carries a packet is where the packet of txin  *)
(* ends.                                                                   *)
LEMMA FirstFound ==
  ASSUME TxTypes, TxRingSound, NEW end \in TxSlot, Carrying(end) # {}
  PROVE  /\ First(end) \in Carrying(end)
         /\ \A j \in Carrying(end) :
              NTXDACTIVE(txin, First(end)) <= NTXDACTIVE(txin, j)
<1> DEFINE D(i) == NTXDACTIVE(txin, i)
<1>1. /\ \A i \in TxSlot : D(i) \in 0 .. NTXD - 1
      /\ D(txin) = 0 /\ txin \in TxSlot
  BY TxDist DEF TxTypes
<1>2. \A i \in Carrying(end) : i \in TxSlot /\ D(i) < D(end) /\ txp[i] # NoPkt
  BY DEF Carrying, Reclaimable
<1>3. PICK i \in Carrying(end) : TRUE
  OBVIOUS
<1>4. TxActive(i)
  BY <1>2, <1>3 DEF TxRingSound
<1>5. TxActive(txin)
  <2>1. D(i) < D(txout) /\ txout \in TxSlot
    BY <1>4 DEF TxActive, TxTypes
  <2> QED
    BY <2>1, <1>1, <1>2, SlotZero DEF TxActive
<1>6. PICK j \in TxSlot : EndsAt(txin, j)
  BY <1>1, <1>5 DEF TxRingSound
<1>7. txp[j] # NoPkt
  BY <1>1, <1>5, <1>6, PacketAssumption DEF TxRingSound, EndsAt
<1>8. \A k \in Carrying(end) : D(j) <= D(k)
  <2> SUFFICES ASSUME NEW k \in Carrying(end), ~(D(j) <= D(k)) PROVE FALSE
    OBVIOUS
  <2>1. D(txin) <= D(k) /\ D(k) < D(j)
    BY <1>1, <1>2, SlotZero
  <2> QED
    BY <2>1, <1>2, <1>6 DEF EndsAt
<1>9. j \in Carrying(end)
  <2>1. D(j) < D(end)
    BY <1>1, <1>2, <1>3, <1>8, SlotZero
  <2> QED
    BY <2>1, <1>7 DEF Carrying, Reclaimable
<1> QED
  BY <1>8, <1>9 DEF First

TxInv == TxTypes /\ TxRingSound /\ TxavailSound /\ PacketsOwned /\ TxEngine

(* What txreclaim needs of its limit: it is not beyond txout, and not      *)
(* beyond where a running engine is.                                       *)
GoodEnd(end) ==
  /\ end \in TxSlot
  /\ NTXDACTIVE(txin, end) <= NTXDACTIVE(txin, txout)
  /\ dmaon => NTXDACTIVE(txin, end) <= NTXDACTIVE(txin, txcurr)

LEMMA TakeToInv ==
  ASSUME TxInv, NEW end, GoodEnd(end), NEW in \in TxSlot, TakeTo(in), live' \subseteq live,
         NTXDACTIVE(txin, in) <= NTXDACTIVE(txin, end)
  PROVE  TxTypes' /\ TxRingSound' /\ TxavailSound' /\ TxEngine'
<1> DEFINE D(i) == NTXDACTIVE(txin, i)
<1>1. \A i \in TxSlot : D(i) \in 0 .. NTXD - 1
  BY TxDist DEF TxTypes, TxInv
<1>2. end \in TxSlot /\ txout \in TxSlot /\ txcurr \in TxSlot /\ D(end) <= D(txout)
  BY DEF GoodEnd, TxInv, TxTypes
<1>3. D(in) <= D(txout)
  BY <1>1, <1>2, SlotZero
<1>4. /\ TxRingSound'
      /\ txp' \in [TxSlot -> Pkt \cup {NoPkt}] /\ txd' \in [TxSlot -> Desc]
      /\ txin' = in /\ txavail' = Avail(in, txout) /\ txout' = txout
  BY <1>3, TakeToRing DEF TxInv
<1>5. TxTypes'
  <2>1. txavail' \in 0 .. NTXD - 1
    BY <1>2, <1>4, AvailType
  <2>2. UNCHANGED <<txcurr, txptr, onwire>>
    BY DEF TakeTo
  <2> QED
    BY <1>4, <2>1, <2>2 DEF TxTypes, TxInv
<1>6. TxEngine'
  <2> SUFFICES ASSUME dmaon'
               PROVE  txptr' = txout' /\ NTXDACTIVE(in, txcurr') <= NTXDACTIVE(in, txout')
    BY <1>4 DEF TxEngine
  <2>1. dmaon /\ txcurr' = txcurr /\ txptr' = txptr
    BY DEF TakeTo
  <2>2. D(in) <= D(txcurr) /\ D(txcurr) <= D(txout) /\ txptr = txout
    BY <1>1, <1>2, <2>1, SlotZero DEF GoodEnd, TxInv, TxEngine
  <2>3. /\ NTXDACTIVE(in, txcurr) = D(txcurr) - D(in)
        /\ NTXDACTIVE(in, txout) = D(txout) - D(in)
    BY <1>2, <1>3, <2>2, TxShift DEF TxInv, TxTypes
  <2> QED
    BY <1>1, <1>2, <1>4, <2>1, <2>2, <2>3, SlotZero
<1> QED
  BY <1>4, <1>5, <1>6 DEF TxavailSound

LEMMA ReclaimOne ==
  ASSUME TxInv, NEW end, GoodEnd(end), getnexttxp(end), UNCHANGED txq
  PROVE  TxInv'
<1> DEFINE D(i) == NTXDACTIVE(txin, i)
           f == First(end)
<1>1. \A i \in TxSlot : D(i) \in 0 .. NTXD - 1
  BY TxDist DEF TxTypes, TxInv
<1>2. \A i, j \in TxSlot : D(i) = D(j) => i = j
  BY TxDist DEF TxTypes, TxInv
<1>3. /\ f \in Carrying(end)
      /\ \A j \in Carrying(end) : D(f) <= D(j)
  BY FirstFound DEF getnexttxp, TxInv, GoodEnd
<1>4. f \in TxSlot /\ D(f) < D(end) /\ txp[f] # NoPkt /\ end \in TxSlot
  BY <1>3 DEF Carrying, Reclaimable, GoodEnd
<1>5. NEXTTXD(f) \in TxSlot /\ D(NEXTTXD(f)) = D(f) + 1
  <2>1. 1 \in 0 .. NTXD - 1
    BY RingAssumption
  <2>2. txin \in TxSlot /\ D(f) + 1 < NTXD
    BY <1>1, <1>4, SlotZero DEF TxInv, TxTypes
  <2> QED
    BY <2>1, <2>2, <1>4, TxPlus DEF NEXTTXD
<1>6. D(NEXTTXD(f)) <= D(end)
  BY <1>1, <1>4, <1>5, SlotZero
<1>7. TakeTo(NEXTTXD(f)) /\ live' = live \ {txp[f]}
  BY DEF getnexttxp
<1>8. TxTypes' /\ TxRingSound' /\ TxavailSound' /\ TxEngine'
  BY <1>5, <1>6, <1>7, TakeToInv
<1>9. D(NEXTTXD(f)) <= D(txout)
  BY <1>1, <1>4, <1>5, <1>6, SlotZero DEF GoodEnd, TxInv, TxTypes
<1>10. \A i \in TxSlot : txp'[i] = IF D(NEXTTXD(f)) <= D(i) THEN txp[i] ELSE NoPkt
  BY <1>5, <1>7, <1>9, TakeToRing DEF TxInv
<1>11. \A i \in TxSlot : txp'[i] = IF i = f THEN NoPkt ELSE txp[i]
  <2> SUFFICES ASSUME NEW i \in TxSlot PROVE txp'[i] = IF i = f THEN NoPkt ELSE txp[i]
    OBVIOUS
  <2>1. CASE D(i) > D(f)
    BY <2>1, <1>1, <1>4, <1>5, <1>10, SlotZero
  <2>2. CASE D(i) = D(f)
    <3>1. i = f
      BY <2>2, <1>2, <1>4
    <3>2. ~(D(NEXTTXD(f)) <= D(i))
      BY <2>2, <1>1, <1>4, <1>5, SlotZero
    <3> QED
      BY <3>1, <3>2, <1>10
  <2>3. CASE D(i) < D(f)
    <3>1. i # f /\ ~(D(NEXTTXD(f)) <= D(i)) /\ D(i) < D(end) /\ ~(D(f) <= D(i))
      BY <2>3, <1>1, <1>4, <1>5, SlotZero
    <3>2. txp[i] = NoPkt
      BY <3>1, <1>3 DEF Carrying, Reclaimable
    <3> QED
      BY <3>1, <3>2, <1>10
  <2> QED
    BY <2>1, <2>2, <2>3, <1>1, <1>4, SlotZero
<1>12. \A i, j \in TxSlot : txp[i] = txp[j] /\ txp[i] # NoPkt => i = j
  BY DEF TxInv, PacketsOwned
<1>13. InRing' = InRing \ {txp[f]}
  BY <1>4, <1>11, <1>12 DEF InRing
<1>14. txp[f] \in InRing
  BY <1>4 DEF InRing
<1>15. PacketsOwned'
  BY <1>7, <1>11, <1>12, <1>13, <1>14 DEF PacketsOwned, TxInv
<1> QED
  BY <1>8, <1>15 DEF TxInv

LEMMA ReclaimEnd ==
  ASSUME TxInv, NEW end, GoodEnd(end), getnexttxp_null(end), UNCHANGED txq
  PROVE  TxInv' /\ txin' = end /\ UNCHANGED <<txout, txcurr, txptr, onwire, rxvars, dmaon>>
<1> DEFINE D(i) == NTXDACTIVE(txin, i)
<1>1. \A i \in TxSlot : D(i) \in 0 .. NTXD - 1
  BY TxDist DEF TxTypes, TxInv
<1>2. end \in TxSlot /\ txout \in TxSlot /\ D(end) <= D(txout)
  BY DEF GoodEnd, TxInv, TxTypes
<1>3. ~Bogus(end)
  BY <1>2, SlotZero DEF Bogus, NTXDACTIVE, Dist, TxSlot
<1>4. Carrying(end) = {} /\ TakeTo(end) /\ live' = live
  BY <1>3 DEF getnexttxp_null
<1>5. TxTypes' /\ TxRingSound' /\ TxavailSound' /\ TxEngine'
  <2>1. D(end) <= D(end)
    BY <1>1, <1>2, SlotZero
  <2> QED
    BY <1>2, <1>4, <2>1, TakeToInv
<1>6. \A i \in TxSlot : txp'[i] = IF D(end) <= D(i) THEN txp[i] ELSE NoPkt
  BY <1>2, <1>4, TakeToRing DEF TxInv
<1>7. \A i \in TxSlot : txp'[i] = txp[i]
  <2> SUFFICES ASSUME NEW i \in TxSlot, ~(D(end) <= D(i)) PROVE txp[i] = NoPkt
    BY <1>6
  <2>1. D(i) < D(end)
    BY <1>1, <1>2, SlotZero
  <2> QED
    BY <2>1, <1>4 DEF Carrying, Reclaimable
<1>8. InRing' = InRing
  BY <1>7 DEF InRing
<1>9. PacketsOwned'
  BY <1>4, <1>7, <1>8 DEF PacketsOwned, TxInv
<1> QED
  BY <1>4, <1>5, <1>9 DEF TxInv, TakeTo

-----------------------------------------------------------------------------
(***************************************************************************)
(* Posting.  The queue txq: what Append, Tail and Head do to its members.  *)
(***************************************************************************)
LEMMA QueueAppend ==
  ASSUME NEW s \in Seq(Pkt), NEW p \in Pkt, p \notin ToSet(s), IsInjective(s)
  PROVE  /\ Append(s, p) \in Seq(Pkt)
         /\ ToSet(Append(s, p)) = ToSet(s) \cup {p}
         /\ IsInjective(Append(s, p))
BY DEF ToSet, IsInjective

LEMMA QueueTail ==
  ASSUME NEW s \in Seq(Pkt), s # <<>>, IsInjective(s)
  PROVE  /\ Tail(s) \in Seq(Pkt) /\ Head(s) \in Pkt
         /\ ToSet(s) = ToSet(Tail(s)) \cup {Head(s)}
         /\ Head(s) \notin ToSet(Tail(s))
         /\ IsInjective(Tail(s))
<1>1. Tail(s) \in Seq(Pkt) /\ Head(s) \in Pkt /\ Head(s) = s[1] /\ Len(s) \in Nat \ {0}
  OBVIOUS
<1>2. \A i \in 1 .. Len(s) - 1 : Tail(s)[i] = s[i + 1]
  OBVIOUS
<1>3. DOMAIN Tail(s) = 1 .. Len(s) - 1 /\ DOMAIN s = 1 .. Len(s)
  OBVIOUS
<1>4. IsInjective(Tail(s))
  BY <1>1, <1>2, <1>3 DEF IsInjective
<1>5. Head(s) \notin ToSet(Tail(s))
  BY <1>1, <1>2, <1>3 DEF ToSet, IsInjective
<1>6. ASSUME NEW x \in ToSet(s) PROVE x \in ToSet(Tail(s)) \cup {Head(s)}
  <2>1. PICK i \in 1 .. Len(s) : x = s[i]
    BY <1>3 DEF ToSet
  <2>2. CASE i = 1
    BY <2>1, <2>2, <1>1
  <2>3. CASE i # 1
    <3>1. i - 1 \in 1 .. Len(s) - 1 /\ Tail(s)[i - 1] = s[i]
      BY <2>3, <1>1, <1>2
    <3> QED
      BY <2>1, <3>1, <1>3 DEF ToSet
  <2> QED
    BY <2>2, <2>3
<1>7. ASSUME NEW x \in ToSet(Tail(s)) \cup {Head(s)} PROVE x \in ToSet(s)
  <2>1. CASE x = Head(s)
    BY <2>1, <1>1, <1>3 DEF ToSet
  <2>2. CASE x \in ToSet(Tail(s))
    <3>1. PICK i \in 1 .. Len(s) - 1 : x = Tail(s)[i]
      BY <2>2, <1>3 DEF ToSet
    <3>2. i + 1 \in 1 .. Len(s) /\ x = s[i + 1]
      BY <3>1, <1>1, <1>2
    <3> QED
      BY <3>2, <1>3 DEF ToSet
  <2> QED
    BY <1>7, <2>1, <2>2
<1> QED
  BY <1>1, <1>4, <1>5, <1>6, <1>7

(* What dma32_txfast posts lies between the old and the new txout.         *)
LEMMA PostedRing ==
  ASSUME TxInv, NEW p \in Pkt, p \notin InRing, dma32_txfast(p)
  PROVE  /\ TxTypes' /\ TxRingSound' /\ TxavailSound' /\ TxEngine'
         /\ InRing' = InRing \cup {p}
         /\ \A i, j \in TxSlot : txp'[i] = txp'[j] /\ txp'[i] # NoPkt => i = j
<1> DEFINE D(i) == NTXDACTIVE(txin, i)
           out == Plus(txout, Descs[p], NTXD)
<1>1. \A i \in TxSlot : D(i) \in 0 .. NTXD - 1
  BY TxDist DEF TxTypes, TxInv
<1>2. \A i, j \in TxSlot : D(i) = D(j) => i = j
  BY TxDist DEF TxTypes, TxInv
<1>3. txin \in TxSlot /\ txout \in TxSlot /\ txcurr \in TxSlot
  BY DEF TxInv, TxTypes
<1>4. Descs[p] \in 1 .. NTXD - 1 /\ NTXD \in Nat
  BY PacketAssumption, SlotZero
<1>5. D(txout) + Descs[p] < NTXD
  <2>1. Descs[p] <= Wanted(p) /\ Wanted(p) \in Nat
    BY <1>4 DEF Wanted
  <2>2. Wanted(p) <= (NTXD - D(txout)) - 1
    BY <1>1, <1>3, <1>4, <2>1 DEF dma32_txfast, OutOfTxd, Avail
  <2> QED
    BY <1>1, <1>3, <1>4, <2>1, <2>2
<1>6. out \in TxSlot /\ D(out) = D(txout) + Descs[p]
  BY <1>3, <1>4, <1>5, TxPlus
<1> PICK last \in TxSlot : last = PREVTXD(out)
  BY <1>6, TxPrev
<1>7. D(last) = D(out) - 1
  <2>1. D(out) # 0
    BY <1>1, <1>3, <1>4, <1>6
  <2> QED
    BY <1>3, <1>6, <2>1, TxPrev
<1>8. /\ txin' = txin /\ txout' = out /\ txptr' = out /\ txavail' = Avail(txin, out)
      /\ txcurr' = txcurr /\ onwire' = onwire /\ dmaon' = dmaon /\ live' = live
  BY DEF dma32_txfast
<1>9. \A i \in TxSlot : txp'[i] = IF i = last THEN p ELSE txp[i]
  BY <1>7 DEF dma32_txfast, TxInv, TxTypes
<1>10. \A i \in TxSlot :
         NTXDACTIVE(txout, i) = IF D(txout) <= D(i) THEN D(i) - D(txout)
                                ELSE (D(i) - D(txout)) + NTXD
  BY <1>3, TxShift
<1>11. \A i \in TxSlot : TxActive(i)' <=> D(i) < D(out)
  BY <1>8 DEF TxActive
<1>12. \A i \in TxSlot :
         NTXDACTIVE(txout, i) + 1 <= Descs[p] <=> D(txout) <= D(i) /\ D(i) < D(out)
  BY <1>1, <1>3, <1>4, <1>5, <1>6, <1>10
<1>13. \A i \in TxSlot :
         /\ D(i) < D(txout) => txd'[i] = txd[i]
         /\ D(txout) <= D(i) /\ D(i) < D(out) => txd'[i].pkt = p
  <2>1. \A i \in TxSlot :
          txd'[i] = LET k == NTXDACTIVE(txout, i) + 1
                    IN  IF k <= Descs[p]
                        THEN [pkt |-> p, buf |-> k, sof |-> SofBuf(p, k), eof |-> EofBuf(p, k)]
                        ELSE txd[i]
    BY DEF dma32_txfast, dma32_dd_upd
  <2>2. \A i \in TxSlot : IF D(txout) <= D(i) /\ D(i) < D(out)
                          THEN txd'[i].pkt = p ELSE txd'[i] = txd[i]
    <3> SUFFICES ASSUME NEW i \in TxSlot
                 PROVE  IF D(txout) <= D(i) /\ D(i) < D(out)
                        THEN txd'[i].pkt = p ELSE txd'[i] = txd[i]
      OBVIOUS
    <3>1. CASE NTXDACTIVE(txout, i) + 1 <= Descs[p]
      <4>1. D(txout) <= D(i) /\ D(i) < D(out)
        BY <3>1, <1>12
      <4>2. \E k, b, e : txd'[i] = [pkt |-> p, buf |-> k, sof |-> b, eof |-> e]
        BY <2>1, <3>1, Zenon
      <4>3. txd'[i].pkt = p
        BY <4>2
      <4> QED
        BY <4>1, <4>3
    <3>2. CASE ~(NTXDACTIVE(txout, i) + 1 <= Descs[p])
      <4>1. ~(D(txout) <= D(i) /\ D(i) < D(out))
        BY <3>2, <1>12
      <4>2. txd'[i] = txd[i]
        BY <2>1, <3>2
      <4> QED
        BY <4>1, <4>2
    <3> QED
      BY <3>1, <3>2
  <2> QED
    BY <2>2, <1>1, <1>3, <1>6, SlotZero
<1>14. TxTypes'
  <2>1. \A i \in TxSlot : NTXDACTIVE(txout, i) + 1 \in 0 .. NTXD
    BY <1>3, <1>4, TxDist
  <2>2. txd' \in [TxSlot -> Desc]
    BY <2>1 DEF dma32_txfast, dma32_dd_upd, SofBuf, EofBuf, Desc, TxInv, TxTypes
  <2>3. txp' \in [TxSlot -> Pkt \cup {NoPkt}]
    BY DEF dma32_txfast, TxInv, TxTypes
  <2> QED
    BY <1>3, <1>6, <1>8, <2>2, <2>3, AvailType DEF TxInv, TxTypes
<1>15. \A i \in TxSlot : txp[i] # NoPkt => D(i) < D(txout)
  BY DEF TxInv, TxRingSound, TxActive
<1>16. ASSUME NEW i \in TxSlot, txp'[i] # NoPkt PROVE TxActive(i)'
  <2>1. CASE i = last
    BY <2>1, <1>1, <1>6, <1>7, <1>11
  <2>2. CASE i # last
    BY <2>2, <1>1, <1>3, <1>4, <1>6, <1>9, <1>11, <1>15, <1>16
  <2> QED
    BY <2>1, <2>2
<1>17. ASSUME NEW i \in TxSlot, TxActive(i)'
       PROVE  txd'[i].pkt \in Pkt /\ \E j \in TxSlot : TxActive(j)' /\ EndsAt(i, j)'
  <2>1. CASE D(i) < D(txout)
    <3>1. TxActive(i) /\ txd'[i] = txd[i]
      BY <2>1, <1>13 DEF TxActive
    <3>2. PICK j \in TxSlot : TxActive(j) /\ EndsAt(i, j)
      BY <3>1 DEF TxInv, TxRingSound
    <3>3. D(j) < D(txout) /\ D(j) < D(out) /\ j # last
      BY <3>2, <1>1, <1>3, <1>4, <1>6, <1>7 DEF TxActive
    <3>4. \A k \in TxSlot : D(k) < D(j) => k # last
      BY <3>3, <1>1, <1>3, <1>4, <1>6, <1>7
    <3>5. EndsAt(i, j)'
      BY <3>1, <3>2, <3>3, <3>4, <1>8, <1>9 DEF EndsAt
    <3>6. txd'[i].pkt \in Pkt
      BY <3>1 DEF TxInv, TxRingSound
    <3> QED
      BY <3>3, <3>5, <3>6, <1>11
  <2>2. CASE ~(D(i) < D(txout))
    <3>1. D(txout) <= D(i) /\ D(i) < D(out) /\ txd'[i].pkt = p
      BY <2>2, <1>1, <1>3, <1>11, <1>13, <1>17
    <3>2. D(i) <= D(last) /\ TxActive(last)' /\ txp'[last] = p
      BY <3>1, <1>1, <1>6, <1>7, <1>9, <1>11
    <3>3. ASSUME NEW k \in TxSlot, D(i) <= D(k), D(k) < D(last) PROVE txp'[k] = NoPkt
      <4>1. k # last /\ ~(D(k) < D(txout))
        BY <3>1, <3>3, <1>1, <1>3, <1>7
      <4> QED
        BY <4>1, <1>9, <1>15
    <3>4. EndsAt(i, last)'
      BY <3>1, <3>2, <3>3, <1>8 DEF EndsAt
    <3> QED
      BY <3>1, <3>2, <3>4, <1>7
  <2> QED
    BY <2>1, <2>2
<1>18. TxRingSound'
  BY <1>16, <1>17 DEF TxRingSound
<1>19. TxavailSound'
  BY <1>8 DEF TxavailSound
<1>20. TxEngine'
  <2> SUFFICES ASSUME dmaon PROVE NTXDACTIVE(txin, txcurr) <= NTXDACTIVE(txin, out)
    BY <1>8 DEF TxEngine
  <2>1. D(txcurr) <= D(txout)
    BY DEF TxInv, TxEngine
  <2> QED
    BY <2>1, <1>1, <1>3, <1>4, <1>6
<1>21. txp[last] = NoPkt
  BY <1>1, <1>3, <1>4, <1>6, <1>7, <1>15
<1>22. InRing' = InRing \cup {p}
  <2>1. \A x : x \in InRing' => x \in InRing \cup {p}
    BY <1>9 DEF InRing
  <2>2. \A x : x \in InRing => x \in InRing'
    BY <1>9, <1>21 DEF InRing
  <2>3. p \in InRing'
    BY <1>7, <1>9, PacketAssumption DEF InRing
  <2> QED
    BY <2>1, <2>2, <2>3
<1>23. \A i \in TxSlot : txp[i] # p
  BY PacketAssumption DEF InRing
<1>24. \A i, j \in TxSlot : txp'[i] = txp'[j] /\ txp'[i] # NoPkt => i = j
  BY <1>9, <1>23 DEF TxInv, PacketsOwned
<1> QED
  BY <1>14, <1>18, <1>19, <1>20, <1>22, <1>24

(* What a failing dma32_txfast leaves behind lies from txout on.           *)
LEMMA HalfWrittenBehind ==
  ASSUME TxInv, NEW p \in Pkt, HalfWritten(p)
  PROVE  /\ txd' \in [TxSlot -> Desc]
         /\ \A i \in TxSlot : TxActive(i) => txd'[i] = txd[i]
<1>1. txin \in TxSlot /\ txout \in TxSlot /\ NTXD \in Nat
  BY SlotZero DEF TxInv, TxTypes
<1>2. \A i \in TxSlot : NTXDACTIVE(txout, i) + 1 \in 1 .. NTXD
  BY <1>1, TxDist
<1>3. txd' \in [TxSlot -> Desc]
  BY <1>2 DEF HalfWritten, SofBuf, Desc, TxInv, TxTypes
<1>4. ASSUME NEW i \in TxSlot, TxActive(i) PROVE txd'[i] = txd[i]
  <2>1. /\ NTXDACTIVE(txin, i) \in 0 .. NTXD - 1 /\ NTXDACTIVE(txin, txout) \in 0 .. NTXD - 1
        /\ NTXDACTIVE(txin, i) < NTXDACTIVE(txin, txout)
    BY <1>1, <1>4, TxDist DEF TxActive
  <2>2. NTXDACTIVE(txout, i) = (NTXDACTIVE(txin, i) - NTXDACTIVE(txin, txout)) + NTXD
    BY <1>1, <2>1, TxShift
  <2>3. ~(NTXDACTIVE(txout, i) + 1 <= Avail(txin, txout))
    BY <1>1, <2>1, <2>2 DEF Avail
  <2> QED
    BY <2>3 DEF HalfWritten
<1> QED
  BY <1>3, <1>4

(* et_sendnext takes the packet from the head of txq, posts it or frees it. *)
LEMMA SendKeeps ==
  ASSUME TxInv, txq \in Seq(Pkt), txq # <<>>, txq' = Tail(txq),
         dma32_txfast(Head(txq)) \/ outoftxd(Head(txq))
  PROVE  TxInv' /\ txq' \in Seq(Pkt)
<1> PICK p \in Pkt : p = Head(txq)
  BY QueueTail DEF TxInv, PacketsOwned
<1>1. /\ Tail(txq) \in Seq(Pkt)
      /\ ToSet(txq) = ToSet(Tail(txq)) \cup {p} /\ p \notin ToSet(Tail(txq))
      /\ IsInjective(Tail(txq))
  BY QueueTail DEF TxInv, PacketsOwned
<1>2. p \notin InRing /\ live = ToSet(txq) \cup InRing /\ ToSet(txq) \cap InRing = {}
  BY <1>1 DEF TxInv, PacketsOwned
<1>3. CASE dma32_txfast(p)
  <2>1. /\ TxTypes' /\ TxRingSound' /\ TxavailSound' /\ TxEngine'
        /\ InRing' = InRing \cup {p}
        /\ \A i, j \in TxSlot : txp'[i] = txp'[j] /\ txp'[i] # NoPkt => i = j
    BY <1>2, <1>3, PostedRing
  <2>2. live' = live
    BY <1>3 DEF dma32_txfast
  <2>3. PacketsOwned'
    BY <1>1, <1>2, <2>1, <2>2 DEF PacketsOwned
  <2> QED
    BY <1>1, <2>1, <2>3 DEF TxInv
<1>4. CASE outoftxd(p)
  <2>1. /\ UNCHANGED <<txin, txout, txp, txcurr, txptr, onwire, dmaon>>
        /\ txavail' = 0 /\ live' = live \ {p} /\ HalfWritten(p)
    BY <1>4 DEF outoftxd
  <2>8. /\ txd' \in [TxSlot -> Desc]
        /\ \A i \in TxSlot : TxActive(i) => txd'[i] = txd[i]
    BY <2>1, HalfWrittenBehind
  <2>2. txin # txout
    <3>1. Wanted(p) <= NTXD - 1 /\ Wanted(p) \in Nat
      BY PacketAssumption, SlotZero DEF Wanted
    <3>2. ~(Wanted(p) <= NTXD - 1) \/ NTXDACTIVE(txin, txout) # 0
      BY <1>4, <3>1, SlotZero DEF outoftxd, OutOfTxd, Avail
    <3> QED
      BY <3>1, <3>2, TxDist DEF TxInv, TxTypes
  <2>3. InRing' = InRing
    BY <2>1 DEF InRing
  <2>4. PacketsOwned'
    BY <1>1, <1>2, <2>1, <2>3 DEF PacketsOwned, TxInv
  <2>5. TxTypes'
    BY <2>1, <2>8, SlotZero, RingAssumption DEF TxTypes, TxInv
  <2>6. TxRingSound' /\ TxEngine'
    BY <2>1, <2>8 DEF TxRingSound, TxActive, EndsAt, TxEngine, TxInv
  <2>7. TxavailSound'
    BY <2>1, <2>2 DEF TxavailSound
  <2> QED
    BY <1>1, <2>4, <2>5, <2>6, <2>7 DEF TxInv
<1> QED
  BY <1>3, <1>4

(* A packet is new to the driver when the stack hands it over.             *)
LEMMA StartKeeps ==
  ASSUME TxInv, txq \in Seq(Pkt), NEW p \in Pkt, p \notin live,
         live' = live \cup {p}, txq' = Append(txq, p), UNCHANGED <<txvars, dmaon>>
  PROVE  TxInv' /\ txq' \in Seq(Pkt)
<1> USE DEF txvars
<1>1. p \notin ToSet(txq) /\ p \notin InRing /\ IsInjective(txq)
  BY DEF TxInv, PacketsOwned
<1>2. /\ txq' \in Seq(Pkt) /\ ToSet(txq') = ToSet(txq) \cup {p} /\ IsInjective(txq')
  BY <1>1, QueueAppend
<1>3. InRing' = InRing
  BY DEF InRing
<1>4. PacketsOwned'
  BY <1>1, <1>2, <1>3 DEF PacketsOwned, TxInv
<1>5. TxTypes' /\ TxRingSound' /\ TxavailSound' /\ TxEngine'
  BY DEF TxTypes, TxRingSound, TxActive, EndsAt, TxavailSound, TxEngine, TxInv
<1> QED
  BY <1>2, <1>4, <1>5 DEF TxInv

LEMMA FlushKeeps ==
  ASSUME TxInv, live' = live \ ToSet(txq), txq' = <<>>, UNCHANGED <<txvars, dmaon>>
  PROVE  TxInv' /\ txq' \in Seq(Pkt)
<1> USE DEF txvars
<1>1. ToSet(txq') = {} /\ IsInjective(txq') /\ txq' \in Seq(Pkt)
  BY DEF ToSet, IsInjective
<1>2. InRing' = InRing
  BY DEF InRing
<1>3. PacketsOwned'
  BY <1>1, <1>2 DEF PacketsOwned, TxInv
<1>4. TxTypes' /\ TxRingSound' /\ TxavailSound' /\ TxEngine'
  BY DEF TxTypes, TxRingSound, TxActive, EndsAt, TxavailSound, TxEngine, TxInv
<1> QED
  BY <1>1, <1>3, <1>4 DEF TxInv

(* What leaves the ring and its packets alone, with the engine off or as   *)
(* it was.                                                                 *)
LEMMA TxFrame ==
  ASSUME TxInv, UNCHANGED <<txvars, live, txq>>, dmaon' => dmaon
  PROVE  TxInv'
<1> USE DEF txvars
<1>1. InRing' = InRing
  BY DEF InRing
<1>2. PacketsOwned'
  BY <1>1 DEF PacketsOwned, TxInv
<1> QED
  BY <1>2 DEF TxTypes, TxRingSound, TxActive, EndsAt, TxavailSound, TxEngine, TxInv

(* The engine goes on by one descriptor.                                   *)
LEMMA FetchKeeps ==
  ASSUME TxInv, TxFetch, UNCHANGED txq
  PROVE  TxInv'
<1> DEFINE D(i) == NTXDACTIVE(txin, i)
<1>1. /\ UNCHANGED <<txin, txout, txavail, txp, txd, txptr, dmaon, live>>
      /\ dmaon /\ txcurr # txptr /\ txcurr' = NEXTTXD(txcurr)
  BY DEF TxFetch
<1>2. txin \in TxSlot /\ txout \in TxSlot /\ txcurr \in TxSlot
  BY DEF TxInv, TxTypes
<1>3. txptr = txout /\ D(txcurr) <= D(txout) /\ D(txcurr) # D(txout)
  BY <1>1, <1>2, TxDist DEF TxInv, TxEngine
<1>4. D(txcurr) \in 0 .. NTXD - 1 /\ D(txout) \in 0 .. NTXD - 1 /\ NTXD \in Nat
  BY <1>2, TxDist, SlotZero
<1>5. NEXTTXD(txcurr) \in TxSlot /\ D(NEXTTXD(txcurr)) = D(txcurr) + 1
  <2>1. 1 \in 0 .. NTXD - 1 /\ D(txcurr) + 1 < NTXD
    BY <1>3, <1>4, RingAssumption
  <2> QED
    BY <1>2, <2>1, TxPlus DEF NEXTTXD
<1>6. onwire' \in Desc
  <2>1. [pkt |-> NoPkt, buf |-> NTXD, sof |-> FALSE, eof |-> FALSE] \in Desc
    BY <1>4 DEF Desc
  <2>2. txd[txcurr] \in Desc
    BY <1>2 DEF TxInv, TxTypes
  <2> QED
    BY <2>1, <2>2, NoDescType DEF TxFetch
<1>7. TxTypes'
  BY <1>1, <1>5, <1>6 DEF TxInv, TxTypes
<1>8. InRing' = InRing
  BY <1>1 DEF InRing
<1>9. PacketsOwned'
  BY <1>1, <1>8 DEF PacketsOwned, TxInv
<1>10. TxRingSound' /\ TxavailSound'
  BY <1>1 DEF TxRingSound, TxActive, EndsAt, TxavailSound, TxInv
<1>11. TxEngine'
  BY <1>1, <1>3, <1>4, <1>5 DEF TxEngine
<1> QED
  BY <1>7, <1>9, <1>10, <1>11 DEF TxInv

-----------------------------------------------------------------------------
(***************************************************************************)
(* The receive ring.                                                       *)
(***************************************************************************)
RxTypes ==
  /\ rxin \in RxSlot /\ rxout \in RxSlot /\ rxcurr \in RxSlot /\ rxptr \in RxSlot
  /\ rxp \in [RxSlot -> BOOLEAN]
  /\ rxbuf \in [RxSlot -> Data]
  /\ skiplen \in 0 .. 1

RxInv == RxTypes /\ RxRingSound

LEMMA NoDataType == NoData \in Data
BY DEF NoData, Data

LEMMA RxFrame ==
  ASSUME RxInv, UNCHANGED rxvars, dmaon' => dmaon
  PROVE  RxInv'
BY DEF RxInv, RxTypes, RxRingSound, RxActive, rxvars

(* Buffers are posted behind rxout.                                        *)
LEMMA FillKeeps ==
  ASSUME RxInv, NEW m, _dma_rxfill(m),
         dmaon' => NRXDACTIVE(rxin, rxcurr) <= NRXDACTIVE(rxin, rxout)
  PROVE  RxInv'
<1> DEFINE D(i) == NRXDACTIVE(rxin, i)
           out == Plus(rxout, m, NRXD)
<1>1. \A i \in RxSlot : D(i) \in 0 .. NRXD - 1
  BY RxDist DEF RxInv, RxTypes
<1>2. rxin \in RxSlot /\ rxout \in RxSlot /\ rxcurr \in RxSlot /\ NRXD \in Nat
  BY SlotZero DEF RxInv, RxTypes
<1>3. m \in 0 .. NRXD - 1 /\ D(rxout) + m <= NRXPOST /\ NRXPOST < NRXD
  <2>1. D(rxout) <= NRXPOST /\ m \in 0 .. NRXPOST - D(rxout)
    BY DEF RxInv, RxRingSound, _dma_rxfill, Lacking
  <2> QED
    BY <1>1, <1>2, <2>1, RingAssumption
<1>4. out \in RxSlot /\ D(out) = D(rxout) + m
  <2>1. D(rxout) + m < NRXD
    BY <1>1, <1>2, <1>3, RingAssumption
  <2> QED
    BY <1>2, <1>3, <2>1, RxPlus
<1>5. /\ rxout' = out /\ rxptr' = out /\ UNCHANGED <<rxin, rxcurr, skiplen>>
  BY DEF _dma_rxfill
<1>6. \A i \in RxSlot : NRXDACTIVE(rxout, i) = IF D(rxout) <= D(i) THEN D(i) - D(rxout)
                                               ELSE (D(i) - D(rxout)) + NRXD
  BY <1>2, RxShift
<1>7. \A i \in RxSlot :
        NRXDACTIVE(rxout, i) < m <=> D(rxout) <= D(i) /\ D(i) < D(out)
  <2> SUFFICES ASSUME NEW i \in RxSlot
               PROVE  NRXDACTIVE(rxout, i) < m <=> D(rxout) <= D(i) /\ D(i) < D(out)
    OBVIOUS
  <2>1. D(rxout) + m < NRXD
    BY <1>1, <1>2, <1>3, RingAssumption
  <2> QED
    BY <1>1, <1>2, <1>3, <1>4, <1>6, <2>1
<1>8. \A i \in RxSlot : rxp[i] <=> D(i) < D(rxout)
  BY DEF RxInv, RxRingSound, RxActive
<1>9. \A i \in RxSlot : rxp'[i] <=> rxp[i] \/ NRXDACTIVE(rxout, i) < m
  BY DEF _dma_rxfill
<1>10. \A i \in RxSlot : rxp'[i] <=> D(i) < D(out)
  <2> SUFFICES ASSUME NEW i \in RxSlot PROVE rxp'[i] <=> D(i) < D(out)
    OBVIOUS
  <2>1. rxp'[i] <=> D(i) < D(rxout) \/ (D(rxout) <= D(i) /\ D(i) < D(out))
    BY <1>7, <1>8, <1>9
  <2>2. (D(i) < D(rxout) \/ (D(rxout) <= D(i) /\ D(i) < D(out))) <=> D(i) < D(out)
    BY <1>1, <1>2, <1>3, <1>4
  <2> QED
    BY <2>1, <2>2
<1>11. rxp' \in [RxSlot -> BOOLEAN]
  BY Zenon DEF _dma_rxfill
<1>12. rxbuf' \in [RxSlot -> Data]
  BY NoDataType DEF _dma_rxfill, RxInv, RxTypes
<1>13. RxTypes'
  BY <1>2, <1>4, <1>5, <1>11, <1>12 DEF RxInv, RxTypes
<1>14. D(out) <= NRXPOST /\ (dmaon' => D(rxcurr) <= D(out))
  BY <1>1, <1>2, <1>3, <1>4, RingAssumption
<1>15. RxRingSound'
  BY <1>5, <1>10, <1>14 DEF RxRingSound, RxActive
<1> QED
  BY <1>13, <1>15 DEF RxInv

(* A buffer is taken off, but not the one a running engine is at.          *)
LEMMA TakeKeeps ==
  ASSUME RxInv, NEW forceall, getnextrxp(forceall), UNCHANGED dmaon, skiplen' \in 0 .. 1,
         ~(forceall /\ dmaon)
  PROVE  RxInv'
<1> DEFINE D(i) == NRXDACTIVE(rxin, i)
           in == NEXTRXD(rxin)
<1>1. /\ \A i \in RxSlot : D(i) \in 0 .. NRXD - 1
      /\ D(rxin) = 0
      /\ \A i, j \in RxSlot : D(i) = D(j) => i = j
  BY RxDist DEF RxInv, RxTypes
<1>2. rxin \in RxSlot /\ rxout \in RxSlot /\ rxcurr \in RxSlot /\ NRXD \in Nat
      /\ NRXD >= 2 /\ NRXPOST \in Nat
  BY RingAssumption DEF RxInv, RxTypes
<1>3. /\ rxin' = in /\ UNCHANGED <<rxout, rxcurr, rxptr>>
      /\ rxin # rxout /\ (dmaon => rxin # rxcurr)
  BY DEF getnextrxp, RxEmpty
<1>4. in \in RxSlot /\ D(in) = 1
  <2>1. 1 \in 0 .. NRXD - 1 /\ D(rxin) + 1 < NRXD /\ D(rxin) + 1 = 1
    BY <1>1, <1>2
  <2>2. in \in RxSlot /\ D(in) = D(rxin) + 1
    BY <1>2, <2>1, RxPlus DEF NEXTRXD
  <2> QED
    BY <2>1, <2>2
<1>5. \A i \in RxSlot : NRXDACTIVE(in, i) = IF D(in) <= D(i) THEN D(i) - D(in)
                                            ELSE (D(i) - D(in)) + NRXD
  BY <1>2, <1>4, RxShift
<1>6. \A i \in RxSlot : NRXDACTIVE(in, i) = IF i = rxin THEN NRXD - 1 ELSE D(i) - 1
  BY <1>1, <1>2, <1>4, <1>5
<1>7. \A i \in RxSlot : rxp'[i] <=> i # rxin /\ D(i) < D(rxout)
  BY <1>2 DEF getnextrxp, RxInv, RxTypes, RxRingSound, RxActive
<1>8. \A i \in RxSlot : rxp'[i] <=> NRXDACTIVE(in, i) < NRXDACTIVE(in, rxout)
  <2> SUFFICES ASSUME NEW i \in RxSlot
               PROVE  rxp'[i] <=> NRXDACTIVE(in, i) < NRXDACTIVE(in, rxout)
    OBVIOUS
  <2>1. NRXDACTIVE(in, rxout) = D(rxout) - 1
    BY <1>2, <1>3, <1>6
  <2>2. CASE i = rxin
    <3>1. ~(NRXD - 1 < D(rxout) - 1)
      BY <1>1, <1>2
    <3> QED
      BY <2>1, <2>2, <3>1, <1>6, <1>7
  <2>3. CASE i # rxin
    <3>1. D(i) < D(rxout) <=> D(i) - 1 < D(rxout) - 1
      BY <1>1, <1>2
    <3> QED
      BY <2>1, <2>3, <3>1, <1>6, <1>7
  <2> QED
    BY <2>2, <2>3
<1>9. rxp' \in [RxSlot -> BOOLEAN] /\ rxbuf' \in [RxSlot -> Data]
  <2>1. rxp' \in [RxSlot -> BOOLEAN]
    BY DEF getnextrxp, RxInv, RxTypes
  <2>2. rxbuf' \in [RxSlot -> Data]
    BY NoDataType DEF getnextrxp, RxInv, RxTypes
  <2> QED
    BY <2>1, <2>2
<1>10. RxTypes'
  BY <1>3, <1>4, <1>9 DEF RxInv, RxTypes
<1>11. NRXDACTIVE(in, rxout) <= NRXPOST
  <2>1. D(rxout) <= NRXPOST
    BY DEF RxInv, RxRingSound
  <2> QED
    BY <1>1, <1>2, <1>3, <1>6, <2>1
<1>12. dmaon => NRXDACTIVE(in, rxcurr) <= NRXDACTIVE(in, rxout) /\ rxptr = rxout
  <2>1. dmaon => D(rxcurr) <= D(rxout) /\ rxptr = rxout
    BY DEF RxInv, RxRingSound
  <2> QED
    BY <1>1, <1>2, <1>3, <1>6, <2>1
<1>13. RxRingSound'
  BY <1>3, <1>8, <1>11, <1>12 DEF RxRingSound, RxActive
<1> QED
  BY <1>10, <1>13 DEF RxInv

(* The engine stores a frame into buffers it has been given.               *)
LEMMA StoreKeeps ==
  ASSUME RxInv, NEW f \in Frame, RxStore(f)
  PROVE  RxInv'
<1> DEFINE D(i) == NRXDACTIVE(rxin, i)
           cur == Plus(rxcurr, Span(f), NRXD)
<1>1. \A i \in RxSlot : D(i) \in 0 .. NRXD - 1
  BY RxDist DEF RxInv, RxTypes
<1>2. rxin \in RxSlot /\ rxout \in RxSlot /\ rxcurr \in RxSlot /\ NRXD \in Nat
  BY SlotZero DEF RxInv, RxTypes
<1>3. /\ UNCHANGED <<rxin, rxout, rxp, rxptr, skiplen, dmaon>>
      /\ dmaon /\ Span(f) <= NRXDACTIVE(rxcurr, rxptr) /\ rxcurr' = cur
  BY DEF RxStore, Room
<1>4. D(rxcurr) <= D(rxout) /\ rxptr = rxout
  BY <1>3 DEF RxInv, RxRingSound
<1>5. NRXDACTIVE(rxcurr, rxout) = D(rxout) - D(rxcurr)
  BY <1>2, <1>4, RxShift
<1>6. Span(f) \in 1 .. 2
  BY DEF Span
<1>7. Span(f) \in 0 .. NRXD - 1 /\ D(rxcurr) + Span(f) <= D(rxout)
  BY <1>1, <1>2, <1>3, <1>4, <1>5, <1>6
<1>8. cur \in RxSlot /\ D(cur) <= D(rxout)
  <2>1. D(rxcurr) + Span(f) < NRXD
    BY <1>1, <1>2, <1>6, <1>7
  <2>2. cur \in RxSlot /\ D(cur) = D(rxcurr) + Span(f)
    BY <1>2, <1>7, <2>1, RxPlus
  <2> QED
    BY <1>7, <2>2
<1>9. rxbuf' \in [RxSlot -> Data]
  <2>1. \A i \in RxSlot : NRXDACTIVE(rxcurr, i) \in 0 .. NRXD - 1
    BY <1>2, RxDist
  <2>2. \A i \in RxSlot : NRXDACTIVE(rxcurr, i) < Span(f) =>
                            NRXDACTIVE(rxcurr, i) + 1 \in 0 .. 2
    BY <1>2, <1>6, <2>1
  <2> QED
    BY <2>2 DEF RxStore, Data, RxInv, RxTypes
<1>10. RxTypes'
  BY <1>3, <1>8, <1>9 DEF RxInv, RxTypes
<1>11. RxRingSound'
  BY <1>3, <1>4, <1>8 DEF RxInv, RxRingSound, RxActive
<1> QED
  BY <1>10, <1>11 DEF RxInv

-----------------------------------------------------------------------------
(***************************************************************************)
(* Control.  The rings are only reclaimed as a whole while the engines are *)
(* off; they are off between ChipReset and ChipInitDone and, if at all,    *)
(* while the interface is down; and the rings are empty when they are      *)
(* initialized.                                                            *)
(***************************************************************************)
InReset == {"txreclaim", "rxreclaim", "chipinit", "rxpost"}

LockTypes ==
  /\ pc \in Label /\ ret \in Label /\ intron \in BOOLEAN
  /\ processed \in 0 .. RXBND

EtTypes ==
  /\ dmaon \in BOOLEAN
  /\ LockTypes
  /\ up \in BOOLEAN /\ txq \in Seq(Pkt) /\ stopped \in BOOLEAN /\ killing \in BOOLEAN
  /\ events \subseteq Event /\ resched \in BOOLEAN /\ tasklet \in BOOLEAN
  /\ chstatus \subseteq Status /\ intstatus \subseteq Status
  /\ chmask \in BOOLEAN /\ intmask \in BOOLEAN
  /\ errors \in Nat /\ requests \in Nat /\ reinit \subseteq {"up", "down"}

Returns ==
  /\ pc \in InReset \cup {"reset"} =>
       ret \in {"startq", "free", "sendq", "flush"} /\ (ret = "flush" => ~up)
  /\ pc \in {"chipinit", "rxpost"} => ret # "flush"
  /\ pc = "send" => ret \in {"free", "clear"}
  /\ pc = "flush" => ~up
  /\ pc = "rx" => processed < RXBND
  /\ pc \in {"rx", "rxfill", "tx", "txdone", "errors"} => up

Engines ==
  /\ pc \in InReset => ~dmaon /\ txcurr = 0 /\ txptr = 0 /\ rxcurr = 0
  /\ up /\ pc \notin InReset \cup {"reset"} => dmaon
  /\ pc \in {"rxreclaim", "chipinit", "rxpost"} => txin = txout
  /\ pc \in {"chipinit", "rxpost"} => rxin = rxout
  /\ pc = "rxpost" => txin = 0 /\ rxin = 0

Control == EtTypes /\ Returns /\ Engines

IInv == TxInv /\ RxInv /\ Control

LEMMA IInvTypes == IInv => TypeOK
BY DEF IInv, TxInv, TxTypes, RxInv, RxTypes, Control, EtTypes, LockTypes, TypeOK

LEMMA GotoType ==
  ASSUME LockTypes, NEW l \in Label, Goto(l)
  PROVE  LockTypes'
<1>1. "free" \in Label /\ 0 \in 0 .. RXBND
  BY EtAssumption DEF Label
<1>2. CASE l = "free"
  BY <1>1, <1>2 DEF LockTypes, Goto
<1>3. CASE l # "free"
  BY <1>3 DEF LockTypes, Goto
<1> QED
  BY <1>2, <1>3

LEMMA CallType ==
  ASSUME LockTypes, NEW l \in Label, NEW on \in BOOLEAN, et_init(l, on)
  PROVE  LockTypes'
<1>1. "reset" \in Label
  BY DEF Label
<1> QED
  BY <1>1 DEF LockTypes, et_init

LEMMA ConvertType ==
  ASSUME NEW st, NEW more \in {{}, {"NEW"}}
  PROVE  Convert(st) \cup more \subseteq Event
BY DEF Convert, Event

(* What touches neither the rings nor txq.                                 *)
LEMMA Quiet ==
  ASSUME IInv, UNCHANGED <<dmavars, txq>>
  PROVE  TxInv' /\ RxInv'
BY TxFrame, RxFrame DEF IInv, dmavars

LEMMA InitHolds == Init => IInv
<1> SUFFICES ASSUME Init PROVE IInv
  OBVIOUS
<1>1. \A i \in TxSlot : txp[i] = NoPkt /\ ~TxActive(i)
  <2>1. NTXDACTIVE(txin, txout) = 0
    BY TxDist, SlotZero DEF Init
  <2>2. \A i \in TxSlot : NTXDACTIVE(txin, i) \in 0 .. NTXD - 1
    BY TxDist, SlotZero DEF Init
  <2> QED
    BY <2>1, <2>2, SlotZero DEF Init, TxActive
<1>2. TxRingSound
  BY <1>1 DEF TxRingSound
<1>3. PacketsOwned
  <2>1. ToSet(txq) = {} /\ IsInjective(txq)
    BY DEF Init, ToSet, IsInjective
  <2>2. InRing = {}
    BY <1>1 DEF InRing
  <2> QED
    BY <1>1, <2>1, <2>2 DEF PacketsOwned, Init
<1>4. TxTypes
  BY SlotZero, RingAssumption, NoDescType DEF TxTypes, Init
<1>5. TxavailSound
  <2>1. NTXDACTIVE(0, 0) = 0
    BY TxDist, SlotZero
  <2> QED
    BY <2>1, SlotZero DEF Init, TxavailSound, Avail
<1>6. TxInv
  BY <1>2, <1>3, <1>4, <1>5 DEF TxInv, TxEngine, Init
<1>7. \A i \in RxSlot : ~rxp[i] /\ ~RxActive(i)
  <2>1. NRXDACTIVE(rxin, rxout) = 0
    BY RxDist, SlotZero DEF Init
  <2>2. \A i \in RxSlot : NRXDACTIVE(rxin, i) \in 0 .. NRXD - 1
    BY RxDist, SlotZero DEF Init
  <2> QED
    BY <2>1, <2>2, SlotZero DEF Init, RxActive
<1>8. RxInv
  <2>1. NRXDACTIVE(rxin, rxout) <= NRXPOST
    BY RxDist, SlotZero, RingAssumption DEF Init
  <2>2. RxTypes
    BY SlotZero, NoDataType DEF RxTypes, Init
  <2> QED
    BY <1>7, <2>1, <2>2 DEF RxInv, RxRingSound, Init
<1>9. Control
  <2>1. LockTypes
    <3>1. pc \in Label /\ ret \in Label
      BY DEF Label, Init
    <3>2. processed = 0 /\ intron \in BOOLEAN
      BY DEF Init
    <3>3. 0 \in 0 .. RXBND
      BY EtAssumption
    <3> QED
      BY <3>1, <3>2, <3>3 DEF LockTypes
  <2>2. EtTypes
    <3>1. txq \in Seq(Pkt)
      BY DEF Init
    <3>2. /\ dmaon \in BOOLEAN /\ up \in BOOLEAN /\ stopped \in BOOLEAN /\ killing \in BOOLEAN
          /\ resched \in BOOLEAN /\ tasklet \in BOOLEAN /\ chmask \in BOOLEAN
          /\ intmask \in BOOLEAN
      BY DEF Init
    <3>3. /\ events \subseteq Event /\ chstatus \subseteq Status /\ intstatus \subseteq Status
          /\ reinit \subseteq {"up", "down"} /\ errors \in Nat /\ requests \in Nat
      BY DEF Init
    <3> QED
      BY <2>1, <3>1, <3>2, <3>3 DEF EtTypes
  <2>3. Returns /\ Engines
    BY DEF Returns, Engines, InReset, Init
  <2> QED
    BY <2>2, <2>3 DEF Control
<1> QED
  BY <1>6, <1>8, <1>9 DEF IInv

(***************************************************************************)
(* The actions that move the control only.                                 *)
(***************************************************************************)
LEMMA IsrKeeps ==
  ASSUME IInv, et_isr
  PROVE  IInv'
<1>1. TxInv' /\ RxInv'
  BY Quiet DEF et_isr, netvars
<1>2. events' \subseteq Event
  BY ConvertType DEF et_isr, chipgetintrevents
<1>3. EtTypes'
  BY <1>2 DEF et_isr, chipgetintrevents, chipintrsoff, IInv, Control, EtTypes, dmavars,
              LockTypes, lockvars, netvars, counters
<1>4. Returns' /\ Engines'
  BY DEF et_isr, IInv, Control, Returns, Engines, dmavars, txvars, rxvars, lockvars, netvars
<1> QED
  BY <1>1, <1>3, <1>4 DEF IInv, Control

LEMMA DpcKeeps ==
  ASSUME IInv, et_dpc
  PROVE  IInv'
<1>1. TxInv' /\ RxInv'
  BY Quiet DEF et_dpc, netvars
<1>2. events' \subseteq Event
  BY ConvertType DEF et_dpc, chipgetintrevents, IInv, Control, EtTypes
<1>3. chstatus' \subseteq Status /\ intstatus' \subseteq Status
  BY DEF et_dpc, chipgetintrevents, IInv, Control, EtTypes
<1>4. LockTypes'
  BY EtAssumption DEF et_dpc, IInv, Control, EtTypes, LockTypes, Label, lockvars
<1>5. EtTypes'
  BY <1>2, <1>3, <1>4 DEF et_dpc, IInv, Control, EtTypes, dmavars, netvars, counters
<1>6. Returns' /\ Engines'
  BY EtAssumption DEF et_dpc, IInv, Control, Returns, Engines, InReset, dmavars, txvars, rxvars,
     lockvars, netvars
<1> QED
  BY <1>1, <1>5, <1>6 DEF IInv, Control

(* The steps of the lock holder and the requests that change no ring.      *)
LEMMA MoveKeeps ==
  ASSUME IInv, et_sendnext_done \/ DpcNoRx \/ DpcTx \/ DpcSend
  PROVE  IInv'
<1>1. TxInv' /\ RxInv'
  BY Quiet DEF et_sendnext_done, DpcNoRx, DpcTx, DpcSend, netvars
<1>2. /\ UNCHANGED <<dmavars, up, txq, killing, intrvars, counters>>
  BY DEF et_sendnext_done, DpcNoRx, DpcTx, DpcSend, netvars
<1>3. stopped' \in BOOLEAN
  BY DEF et_sendnext_done, DpcNoRx, DpcTx, DpcSend, netvars, FlowControl, IInv, Control, EtTypes
<1>4. LockTypes'
  <2>1. LockTypes /\ ret \in Label /\ {"tx", "txdone", "errors", "clear", "send"} \subseteq Label
    BY DEF IInv, Control, EtTypes, LockTypes, Label
  <2>2. CASE et_sendnext_done \/ DpcNoRx \/ DpcTx
    BY <2>1, <2>2, GotoType DEF et_sendnext_done, DpcNoRx, DpcTx
  <2>3. CASE DpcSend
    BY <2>1, <2>3, GotoType DEF DpcSend, LockTypes
  <2> QED
    BY <2>2, <2>3
<1>5. EtTypes'
  BY <1>2, <1>3, <1>4 DEF IInv, Control, EtTypes, dmavars, intrvars, counters
<1>6. Returns' /\ Engines'
  BY <1>2 DEF et_sendnext_done, DpcNoRx, DpcTx, DpcSend, Goto, IInv, Control, Returns, Engines,
     InReset, dmavars, txvars, rxvars
<1> QED
  BY <1>1, <1>5, <1>6 DEF IInv, Control

LEMMA EventKeeps ==
  ASSUME IInv, DpcErrors \/ DpcClear \/ DpcEnd \/ DpcIntrsOn \/ et_reset_done
  PROVE  IInv'
<1>1. TxInv' /\ RxInv'
  BY Quiet DEF DpcErrors, DpcClear, DpcEnd, DpcIntrsOn, et_reset_done, netvars
<1>2. UNCHANGED <<dmavars, netvars, intstatus, counters>>
  BY DEF DpcErrors, DpcClear, DpcEnd, DpcIntrsOn, et_reset_done
<1>3. /\ chstatus' \subseteq Status /\ events' \subseteq Event
      /\ resched' \in BOOLEAN /\ tasklet' \in BOOLEAN
      /\ chmask' \in BOOLEAN /\ intmask' \in BOOLEAN
  BY DEF DpcErrors, DpcClear, DpcEnd, DpcIntrsOn, et_reset_done, IInv, Control, EtTypes
<1>4. LockTypes'
  <2>1. LockTypes /\ {"sendq", "end", "intrson", "free", "flush", "chipinit"} \subseteq Label
    BY DEF IInv, Control, EtTypes, Label
  <2>2. CASE DpcErrors
    BY <2>1, <2>2, GotoType, CallType DEF DpcErrors
  <2>3. CASE DpcClear \/ DpcEnd \/ DpcIntrsOn \/ et_reset_done
    BY <2>1, <2>3, GotoType DEF DpcClear, DpcEnd, DpcIntrsOn, et_reset_done
  <2> QED
    BY <2>2, <2>3
<1>5. EtTypes'
  BY <1>2, <1>3, <1>4 DEF IInv, Control, EtTypes, dmavars, netvars, counters
<1>6. Returns'
  BY <1>2 DEF DpcErrors, DpcClear, DpcEnd, DpcIntrsOn, et_reset_done, et_init, Goto, IInv, Control, Returns,
     InReset, netvars
<1>7. Engines'
  <2>1. CASE DpcErrors \/ DpcClear \/ DpcEnd \/ DpcIntrsOn
    BY <1>2, <2>1 DEF DpcErrors, DpcClear, DpcEnd, DpcIntrsOn, et_init, Goto, IInv, Control, Engines,
       InReset, dmavars, txvars, rxvars, netvars
  <2>2. CASE et_reset_done
    BY <1>2, <2>2 DEF et_reset_done, RxEmpty, Goto, IInv, Control, Returns, Engines,
       InReset, dmavars, txvars, rxvars, netvars
  <2> QED
    BY <2>1, <2>2
<1> QED
  BY <1>1, <1>5, <1>6, <1>7 DEF IInv, Control

LEMMA RequestKeeps ==
  ASSUME IInv, et_up \/ et_down \/ Reinit \/ netif_start_queue \/ ET_FLAG_DOWN \/ tasklet_kill
  PROVE  IInv'
<1>1. TxInv' /\ RxInv'
  BY Quiet DEF et_up, et_down, Reinit, netif_start_queue, ET_FLAG_DOWN, tasklet_kill, netvars
<1>2. UNCHANGED <<dmavars, txq, events, resched, tasklet, chstatus, intstatus, errors>>
  BY DEF et_up, et_down, Reinit, netif_start_queue, ET_FLAG_DOWN, tasklet_kill, netvars, intrvars,
     counters
<1>3. /\ up' \in BOOLEAN /\ stopped' \in BOOLEAN /\ killing' \in BOOLEAN
      /\ chmask' \in BOOLEAN /\ intmask' \in BOOLEAN
  BY DEF et_up, et_down, Reinit, netif_start_queue, ET_FLAG_DOWN, tasklet_kill, chipintrsoff,
     netvars, intrvars, IInv, Control, EtTypes
<1>4. requests' \in Nat /\ reinit' \subseteq {"up", "down"}
  <2>1. requests \in Nat /\ reinit \subseteq {"up", "down"}
    BY DEF IInv, Control, EtTypes
  <2>2. requests' = requests + 1 \/ requests' = requests
    BY DEF et_up, et_down, Reinit, netif_start_queue, ET_FLAG_DOWN, tasklet_kill, Request,
       counters
  <2>3. reinit' = reinit \/ reinit' = reinit \cup {IF up THEN "up" ELSE "down"}
    BY DEF et_up, et_down, Reinit, netif_start_queue, ET_FLAG_DOWN, tasklet_kill, counters
  <2>4. requests' \in Nat
    BY <2>1, <2>2
  <2>5. reinit' \subseteq {"up", "down"}
    BY <2>1, <2>3
  <2> QED
    BY <2>4, <2>5
<1>5. LockTypes'
  <2>1. LockTypes /\ {"free", "startq", "flush", "down"} \subseteq Label
    BY DEF IInv, Control, EtTypes, Label
  <2>2. CASE et_up \/ Reinit \/ ET_FLAG_DOWN
    BY <2>1, <2>2, CallType DEF et_up, Reinit, ET_FLAG_DOWN
  <2>3. CASE et_down \/ netif_start_queue
    BY <2>1, <2>3, GotoType DEF et_down, netif_start_queue
  <2>4. CASE tasklet_kill
    BY <2>1, <2>4 DEF tasklet_kill, lockvars, LockTypes
  <2> QED
    BY <2>2, <2>3, <2>4
<1>6. EtTypes'
  BY <1>2, <1>3, <1>4, <1>5 DEF IInv, Control, EtTypes, dmavars
<1>7. Returns' /\ Engines'
  BY <1>2 DEF et_up, et_down, Reinit, netif_start_queue, ET_FLAG_DOWN, tasklet_kill, Request,
     et_init, Goto, lockvars, netvars, IInv, Control, Returns, Engines, InReset, dmavars,
     txvars, rxvars
<1> QED
  BY <1>1, <1>6, <1>7 DEF IInv, Control

(***************************************************************************)
(* Reset and initialization.                                               *)
(***************************************************************************)
LEMMA ResetKeeps ==
  ASSUME IInv, ChipReset
  PROVE  IInv'
<1>1. /\ UNCHANGED <<txin, txout, txavail, txp, txd, rxin, rxout, rxp, rxbuf, skiplen, live>>
      /\ dmaon' = FALSE /\ txcurr' = 0 /\ txptr' = 0 /\ rxcurr' = 0 /\ rxptr' = 0
      /\ onwire' = NoDesc /\ pc = "reset" /\ Goto("txreclaim")
  BY DEF ChipReset, dma_reset
<1>2. UNCHANGED <<netvars, events, resched, tasklet, chmask, counters>>
  BY DEF ChipReset
<1>3. TxTypes'
  BY <1>1, SlotZero, NoDescType DEF IInv, TxInv, TxTypes
<1>4. InRing' = InRing
  BY <1>1 DEF InRing
<1>5. PacketsOwned'
  BY <1>1, <1>2, <1>4 DEF IInv, TxInv, PacketsOwned, netvars
<1>6. TxInv'
  BY <1>1, <1>3, <1>5 DEF IInv, TxInv, TxRingSound, TxActive, EndsAt, TxavailSound, TxEngine
<1>7. RxInv'
  BY <1>1, SlotZero DEF IInv, RxInv, RxTypes, RxRingSound, RxActive
<1>8. LockTypes'
  <2>1. LockTypes /\ "txreclaim" \in Label
    BY DEF IInv, Control, EtTypes, Label
  <2> QED
    BY <1>1, <2>1, GotoType
<1>9. EtTypes'
  BY <1>1, <1>2, <1>8 DEF ChipReset, IInv, Control, EtTypes, netvars, counters
<1>10. Returns' /\ Engines'
  BY <1>1, <1>2 DEF IInv, Control, Returns, Engines, InReset, Goto, netvars
<1> QED
  BY <1>6, <1>7, <1>9, <1>10 DEF IInv, Control

(* Of a reset, or of the completed packets.                                *)
LEMMA TxReclaimKeeps ==
  ASSUME IInv, \/ TxReclaim(TRUE, "txreclaim", "rxreclaim")
               \/ TxReclaim(FALSE, "txdone", "errors")
  PROVE  IInv'
<1> PICK forceall \in BOOLEAN, here \in {"txreclaim", "txdone"},
         next \in {"rxreclaim", "errors"} :
      /\ TxReclaim(forceall, here, next)
      /\ (forceall <=> here = "txreclaim") /\ (here = "txreclaim" <=> next = "rxreclaim")
  OBVIOUS
<1> DEFINE end == TxEnd(forceall)
<1>1. /\ pc = here
      /\ UNCHANGED <<netvars, events, resched, tasklet, chmask, intstatus, intmask, counters>>
      /\ \/ getnexttxp(end) /\ UNCHANGED <<lockvars, chstatus>>
         \/ getnexttxp_null(end) /\ chstatus' = chstatus \ {"XI"} /\ Goto(next)
  BY DEF TxReclaim
<1>2. here = "txreclaim" => ~dmaon
  BY <1>1 DEF IInv, Control, Engines, InReset
<1>3. here = "txdone" => dmaon
  BY <1>1 DEF IInv, Control, Engines, Returns, InReset
<1>4. GoodEnd(end)
  <2>1. /\ txout \in TxSlot /\ txcurr \in TxSlot
        /\ NTXDACTIVE(txin, txout) \in 0 .. NTXD - 1
        /\ NTXDACTIVE(txin, txcurr) \in 0 .. NTXD - 1
    BY TxDist DEF IInv, TxInv, TxTypes
  <2>2. dmaon => NTXDACTIVE(txin, txcurr) <= NTXDACTIVE(txin, txout)
    BY DEF IInv, TxInv, TxEngine
  <2>3. CASE here = "txreclaim"
    BY <1>2, <2>1, <2>3, SlotZero DEF GoodEnd, TxEnd
  <2>4. CASE here = "txdone"
    BY <1>3, <2>1, <2>2, <2>4, SlotZero DEF GoodEnd, TxEnd
  <2> QED
    BY <2>3, <2>4
<1>5. /\ UNCHANGED <<txout, txcurr, txptr, onwire, rxvars, dmaon>>
  <2>1. ASSUME getnexttxp(end) PROVE UNCHANGED <<txout, txcurr, txptr, onwire, rxvars, dmaon>>
    BY <2>1 DEF getnexttxp, TakeTo
  <2>2. ASSUME getnexttxp_null(end)
        PROVE  UNCHANGED <<txout, txcurr, txptr, onwire, rxvars, dmaon>>
    BY <2>2 DEF getnexttxp_null, TakeTo, dmavars, txvars
  <2> QED
    BY <1>1, <2>1, <2>2
<1>6. TxInv'
  BY <1>1, <1>4, ReclaimOne, ReclaimEnd DEF IInv, netvars
<1>7. RxInv'
  BY <1>5, RxFrame DEF IInv
<1>8. LockTypes'
  <2>1. LockTypes /\ next \in Label
    BY DEF IInv, Control, EtTypes, Label
  <2> QED
    BY <1>1, <2>1, GotoType DEF LockTypes, lockvars
<1>9. EtTypes'
  BY <1>1, <1>5, <1>8 DEF IInv, Control, EtTypes, netvars, counters
<1>10. Returns'
  BY <1>1 DEF IInv, Control, Returns, InReset, Goto, netvars, lockvars
<1>11. Engines'
  <2>1. CASE UNCHANGED lockvars
    BY <1>1, <1>5, <2>1 DEF IInv, Control, Engines, InReset, netvars, lockvars, rxvars
  <2>2. CASE getnexttxp_null(end) /\ Goto(next)
    <3>1. txin' = end
      BY <1>1, <1>4, <2>2, ReclaimEnd DEF IInv, netvars
    <3>2. CASE here = "txreclaim"
      BY <1>1, <1>2, <1>5, <2>2, <3>1, <3>2
         DEF TxEnd, IInv, Control, Engines, InReset, netvars, rxvars, Goto
    <3>3. CASE here = "txdone"
      BY <1>1, <1>3, <1>5, <2>2, <3>3
         DEF IInv, Control, Engines, InReset, netvars, rxvars, Goto
    <3> QED
      BY <3>2, <3>3
  <2> QED
    BY <1>1, <2>1, <2>2
<1> QED
  BY <1>6, <1>7, <1>9, <1>10, <1>11 DEF IInv, Control

LEMMA RxReclaimKeeps ==
  ASSUME IInv, RxReclaim
  PROVE  IInv'
<1>1. /\ getnextrxp(TRUE) /\ pc = "rxreclaim"
      /\ UNCHANGED <<txvars, skiplen, dmaon, live, lockvars, netvars, intrvars, counters>>
  BY DEF RxReclaim
<1>2. ~dmaon
  BY <1>1 DEF IInv, Control, Engines, InReset
<1>3. RxInv'
  BY <1>1, <1>2, TakeKeeps DEF IInv, RxInv, RxTypes
<1>4. TxInv'
  BY <1>1, TxFrame DEF IInv, netvars
<1>5. UNCHANGED <<rxcurr, rxptr, rxout>>
  BY <1>1 DEF getnextrxp
<1>6. EtTypes'
  BY <1>1 DEF IInv, Control, EtTypes, LockTypes, lockvars, netvars, intrvars, counters
<1>7. Returns' /\ Engines'
  BY <1>1, <1>2, <1>5 DEF IInv, Control, Returns, Engines, InReset, lockvars, netvars, txvars
<1> QED
  BY <1>3, <1>4, <1>6, <1>7 DEF IInv, Control

(* dma_init finds both rings empty, so no packet pointer is left behind.   *)
LEMMA ChipInitKeeps ==
  ASSUME IInv, ChipInit
  PROVE  IInv'
<1>1. /\ txin' = 0 /\ txout' = 0 /\ txavail' = NTXD - 1 /\ rxin' = 0 /\ rxout' = 0
      /\ txd' = [i \in TxSlot |-> NoDesc]
      /\ UNCHANGED <<txp, txcurr, txptr, onwire, rxp, rxbuf, rxcurr, rxptr, skiplen, dmaon,
                     live, netvars, intrvars, counters>>
      /\ pc = "chipinit" /\ Goto("rxpost")
  BY DEF ChipInit, dma_init
<1>2. txin = txout /\ rxin = rxout /\ ~dmaon
  BY <1>1 DEF IInv, Control, Engines, InReset
<1>3. \A i \in TxSlot : txp[i] = NoPkt
  <2>1. NTXDACTIVE(txin, txout) = 0 /\ \A i \in TxSlot : NTXDACTIVE(txin, i) \in 0 .. NTXD - 1
    BY <1>2, TxDist DEF IInv, TxInv, TxTypes
  <2> QED
    BY <2>1, SlotZero DEF IInv, TxInv, TxRingSound, TxActive
<1>4. NTXDACTIVE(0, 0) = 0 /\ \A i \in TxSlot : NTXDACTIVE(0, i) \in 0 .. NTXD - 1
  BY TxDist, SlotZero
<1>5. TxRingSound'
  BY <1>1, <1>3, <1>4, SlotZero DEF TxRingSound, TxActive
<1>6. TxavailSound'
  BY <1>1, <1>4, SlotZero DEF TxavailSound, Avail
<1>7. TxTypes'
  BY <1>1, SlotZero, NoDescType, RingAssumption DEF IInv, TxInv, TxTypes
<1>8. InRing' = InRing
  BY <1>1 DEF InRing
<1>9. TxInv'
  BY <1>1, <1>2, <1>5, <1>6, <1>7, <1>8 DEF IInv, TxInv, PacketsOwned, TxEngine, netvars
<1>10. \A i \in RxSlot : ~rxp[i]
  <2>1. NRXDACTIVE(rxin, rxout) = 0 /\ \A i \in RxSlot : NRXDACTIVE(rxin, i) \in 0 .. NRXD - 1
    BY <1>2, RxDist DEF IInv, RxInv, RxTypes
  <2> QED
    BY <2>1, SlotZero DEF IInv, RxInv, RxRingSound, RxActive
<1>11. NRXDACTIVE(0, 0) = 0 /\ \A i \in RxSlot : NRXDACTIVE(0, i) \in 0 .. NRXD - 1
  BY RxDist, SlotZero
<1>12. RxRingSound'
  BY <1>1, <1>2, <1>10, <1>11, SlotZero, RingAssumption DEF RxRingSound, RxActive
<1>13. RxInv'
  BY <1>1, <1>12, SlotZero DEF IInv, RxInv, RxTypes
<1>14. LockTypes'
  <2>1. LockTypes /\ "rxpost" \in Label
    BY DEF IInv, Control, EtTypes, Label
  <2> QED
    BY <1>1, <2>1, GotoType
<1>15. EtTypes'
  BY <1>1, <1>14 DEF IInv, Control, EtTypes, netvars, intrvars, counters
<1>16. Returns' /\ Engines'
  BY <1>1, <1>2 DEF IInv, Control, Returns, Engines, InReset, netvars, Goto
<1> QED
  BY <1>9, <1>13, <1>15, <1>16 DEF IInv, Control

(* The engines are turned on at the start of empty rings.                  *)
LEMMA ChipInitDoneKeeps ==
  ASSUME IInv, ChipInitDone
  PROVE  IInv'
<1> PICK m : _dma_rxfill(m)
  BY DEF ChipInitDone
<1>1. /\ pc = "rxpost" /\ dmaon' = TRUE /\ Goto(ret)
      /\ UNCHANGED <<netvars, events, resched, tasklet, chstatus, intstatus, counters>>
  BY DEF ChipInitDone
<1>2. UNCHANGED <<txvars, rxin, rxcurr, skiplen, live>>
  BY DEF _dma_rxfill
<1>3. /\ txin = 0 /\ txout = 0 /\ rxin = 0 /\ rxout = 0 /\ txcurr = 0 /\ txptr = 0 /\ rxcurr = 0
  BY <1>1 DEF IInv, Control, Engines, InReset
<1>4. NRXDACTIVE(rxin, rxcurr) = 0 /\ NRXDACTIVE(rxin, rxout) = 0
  BY <1>3, RxDist, SlotZero
<1>5. RxInv'
  <2>1. NRXDACTIVE(rxin, rxcurr) <= NRXDACTIVE(rxin, rxout)
    BY <1>4
  <2> QED
    BY <2>1, FillKeeps DEF IInv
<1>6. NTXDACTIVE(txin, txcurr) = 0 /\ NTXDACTIVE(txin, txout) = 0
  BY <1>3, TxDist, SlotZero
<1>7. TxEngine'
  BY <1>2, <1>3, <1>6 DEF TxEngine, txvars
<1>8. InRing' = InRing
  BY <1>2 DEF InRing, txvars
<1>9. TxInv'
  BY <1>1, <1>2, <1>7, <1>8 DEF IInv, TxInv, TxTypes, TxRingSound, TxActive, EndsAt,
     TxavailSound, PacketsOwned, txvars, netvars
<1>10. LockTypes'
  <2>1. LockTypes /\ ret \in Label
    BY DEF IInv, Control, EtTypes, LockTypes
  <2> QED
    BY <1>1, <2>1, GotoType
<1>11. chmask' \in BOOLEAN /\ intmask' \in BOOLEAN
  BY DEF ChipInitDone, chipintrson, IInv, Control, EtTypes
<1>12. EtTypes'
  BY <1>1, <1>10, <1>11 DEF IInv, Control, EtTypes, netvars, counters
<1>13. ret \in {"startq", "free", "sendq"}
  BY <1>1 DEF IInv, Control, Returns, InReset
<1>14. Returns' /\ Engines'
  BY <1>1, <1>13 DEF Returns, Engines, InReset, Goto
<1> QED
  BY <1>5, <1>9, <1>12, <1>14 DEF IInv, Control

(***************************************************************************)
(* Transmit, receive, and the chip.                                        *)
(***************************************************************************)
LEMMA StartStep ==
  ASSUME IInv, NEW p \in Pkt, et_start(p)
  PROVE  IInv'
<1>1. /\ pc = "free" /\ p \notin live /\ live' = live \cup {p} /\ txq' = Append(txq, p)
      /\ pc' = "send" /\ ret' = "free"
      /\ UNCHANGED <<txvars, rxvars, dmaon, intron, processed, up, stopped, killing,
                     intrvars, counters>>
  BY DEF et_start
<1>2. TxInv' /\ txq' \in Seq(Pkt)
  BY <1>1, StartKeeps DEF IInv, Control, EtTypes
<1>3. RxInv'
  BY <1>1, RxFrame DEF IInv
<1>4. LockTypes'
  BY <1>1 DEF IInv, Control, EtTypes, LockTypes, Label
<1>5. EtTypes'
  BY <1>1, <1>2, <1>4 DEF IInv, Control, EtTypes, intrvars, counters
<1>6. Returns' /\ Engines'
  BY <1>1 DEF IInv, Control, Returns, Engines, InReset, txvars, rxvars
<1> QED
  BY <1>2, <1>3, <1>5, <1>6 DEF IInv, Control

LEMMA SendStep ==
  ASSUME IInv, et_sendnext
  PROVE  IInv'
<1>1. /\ pc = "send" /\ txq # <<>> /\ txq' = Tail(txq)
      /\ dma32_txfast(Head(txq)) \/ outoftxd(Head(txq))
      /\ UNCHANGED <<lockvars, up, stopped, killing, intrvars, counters>>
  BY DEF et_sendnext
<1>2. TxInv' /\ txq' \in Seq(Pkt)
  BY <1>1, SendKeeps DEF IInv, Control, EtTypes
<1>3. UNCHANGED <<rxvars, dmaon>>
  BY <1>1 DEF dma32_txfast, outoftxd
<1>4. RxInv'
  BY <1>3, RxFrame DEF IInv
<1>5. EtTypes'
  BY <1>1, <1>2, <1>3 DEF IInv, Control, EtTypes, LockTypes, lockvars, intrvars, counters
<1>6. Returns' /\ Engines'
  BY <1>1, <1>3 DEF IInv, Control, Returns, Engines, InReset, lockvars
<1> QED
  BY <1>2, <1>4, <1>5, <1>6 DEF IInv, Control

LEMMA FlushStep ==
  ASSUME IInv, FlushTxq
  PROVE  IInv'
<1>1. /\ pc = "flush" /\ live' = live \ ToSet(txq) /\ txq' = <<>> /\ killing' = TRUE
      /\ Goto("free")
      /\ UNCHANGED <<txvars, rxvars, dmaon, up, stopped, intrvars, counters>>
  BY DEF FlushTxq
<1>2. TxInv' /\ txq' \in Seq(Pkt)
  BY <1>1, FlushKeeps DEF IInv
<1>3. RxInv'
  BY <1>1, RxFrame DEF IInv
<1>4. LockTypes'
  <2>1. LockTypes /\ "free" \in Label
    BY DEF IInv, Control, EtTypes, Label
  <2> QED
    BY <1>1, <2>1, GotoType
<1>5. EtTypes'
  BY <1>1, <1>2, <1>4 DEF IInv, Control, EtTypes, intrvars, counters
<1>6. Returns' /\ Engines'
  BY <1>1 DEF IInv, Control, Returns, Engines, InReset, Goto, txvars, rxvars
<1> QED
  BY <1>2, <1>3, <1>5, <1>6 DEF IInv, Control

LEMMA FillStep ==
  ASSUME IInv, DpcRxFill
  PROVE  IInv'
<1> PICK m : _dma_rxfill(m)
  BY DEF DpcRxFill
<1>1. /\ pc = "rxfill" /\ Goto("tx")
      /\ UNCHANGED <<dmaon, netvars, intrvars, counters>>
      /\ UNCHANGED <<txvars, rxin, rxcurr, skiplen, live>>
  BY DEF DpcRxFill, _dma_rxfill
<1>2. RxInv'
  BY <1>1, FillKeeps DEF IInv, RxInv, RxRingSound
<1>3. TxInv'
  BY <1>1, TxFrame DEF IInv, netvars
<1>4. LockTypes'
  <2>1. LockTypes /\ "tx" \in Label
    BY DEF IInv, Control, EtTypes, Label
  <2> QED
    BY <1>1, <2>1, GotoType
<1>5. EtTypes'
  BY <1>1, <1>4 DEF IInv, Control, EtTypes, netvars, intrvars, counters
<1>6. Returns' /\ Engines'
  BY <1>1 DEF IInv, Control, Returns, Engines, InReset, Goto, netvars
<1> QED
  BY <1>2, <1>3, <1>5, <1>6 DEF IInv, Control

LEMMA RxStep ==
  ASSUME IInv, DpcRx
  PROVE  IInv'
<1>1. /\ pc = "rx"
      /\ UNCHANGED <<netvars, events, tasklet, chmask, intstatus, intmask, counters>>
  BY DEF DpcRx
<1>2. processed < RXBND /\ processed \in 0 .. RXBND /\ up /\ RXBND \in Nat
  BY <1>1, EtAssumption DEF IInv, Control, Returns, EtTypes, LockTypes
<1>3. UNCHANGED <<txvars, dmaon, live>>
  BY DEF DpcRx, _dma_rx_skip, _dma_rx, _dma_rx_null
<1>4. TxInv'
  BY <1>1, <1>3, TxFrame DEF IInv, netvars
<1>5. CASE _dma_rx_skip /\ UNCHANGED <<lockvars, chstatus, resched>>
  <2>1. getnextrxp(FALSE) /\ skiplen' \in 0 .. 1
    <3>1. skiplen \in 0 .. 1 /\ (skiplen' = 1 \/ (skiplen > 0 /\ skiplen' = skiplen - 1))
      BY <1>5 DEF _dma_rx_skip, IInv, RxInv, RxTypes
    <3>2. skiplen' \in 0 .. 1
      BY <3>1
    <3> QED
      BY <1>5, <3>2 DEF _dma_rx_skip
  <2>2. RxInv'
    BY <1>3, <2>1, TakeKeeps DEF IInv
  <2>3. EtTypes'
    BY <1>1, <1>3, <1>5 DEF IInv, Control, EtTypes, LockTypes, lockvars, netvars, counters
  <2>4. Returns' /\ Engines'
    BY <1>1, <1>3, <1>5 DEF IInv, Control, Returns, Engines, InReset, lockvars, netvars
  <2> QED
    BY <1>4, <2>2, <2>3, <2>4 DEF IInv, Control
<1>6. CASE /\ _dma_rx /\ Bound /\ processed' = processed + 1
           /\ pc' = (IF processed + 1 >= RXBND THEN "rxfill" ELSE "rx")
           /\ UNCHANGED <<ret, intron, chstatus>>
  <2>1. getnextrxp(FALSE) /\ skiplen' \in 0 .. 1
    BY <1>6 DEF _dma_rx, IInv, RxInv, RxTypes
  <2>2. RxInv'
    BY <1>3, <2>1, TakeKeeps DEF IInv
  <2>3. LockTypes'
    <3>1. pc' \in Label
      BY <1>6 DEF Label
    <3>2. processed' \in 0 .. RXBND
      BY <1>2, <1>6
    <3> QED
      BY <1>6, <3>1, <3>2 DEF IInv, Control, EtTypes, LockTypes
  <2>4. resched' \in BOOLEAN
    BY <1>6, Zenon DEF Bound
  <2>5. EtTypes'
    BY <1>1, <1>3, <1>6, <2>3, <2>4 DEF IInv, Control, EtTypes, netvars, counters
  <2>6. Returns'
    BY <1>1, <1>2, <1>6 DEF Returns, InReset, netvars
  <2>7. Engines'
    BY <1>1, <1>2, <1>3, <1>6 DEF IInv, Control, Engines, InReset, netvars
  <2> QED
    BY <1>4, <2>2, <2>5, <2>6, <2>7 DEF IInv, Control
<1>7. CASE _dma_rx_null /\ chstatus' = chstatus \ {"RI"} /\ Goto("rxfill") /\ UNCHANGED resched
  <2>1. /\ UNCHANGED <<rxin, rxout, rxp, rxbuf, rxcurr, rxptr>> /\ skiplen' = 0
    BY <1>7 DEF _dma_rx_null
  <2>2. RxInv'
    BY <1>3, <2>1 DEF IInv, RxInv, RxTypes, RxRingSound, RxActive
  <2>3. LockTypes'
    <3>1. LockTypes /\ "rxfill" \in Label
      BY DEF IInv, Control, EtTypes, Label
    <3> QED
      BY <1>7, <3>1, GotoType
  <2>4. EtTypes'
    BY <1>1, <1>3, <1>7, <2>3 DEF IInv, Control, EtTypes, netvars, counters
  <2>5. Returns' /\ Engines'
    BY <1>1, <1>2, <1>3, <1>7 DEF IInv, Control, Returns, Engines, InReset, Goto, netvars
  <2> QED
    BY <1>4, <2>2, <2>4, <2>5 DEF IInv, Control
<1> QED
  BY <1>5, <1>6, <1>7 DEF DpcRx

LEMMA ChipStep ==
  ASSUME IInv, ChipTx \/ (\E f \in Frame : ChipRx(f)) \/ (\E e \in Errors : ChipError(e))
  PROVE  IInv'
<1>1. /\ UNCHANGED <<lockvars, netvars, events, resched, tasklet, chstatus, chmask, intmask,
                     requests, reinit, dmaon>>
      /\ dmaon
  BY DEF ChipTx, ChipRx, ChipError, Raise, TxFetch, RxStore, counters, dmavars
<1>2. TxInv' /\ RxInv'
  <2>1. CASE ChipTx
    BY <2>1, FetchKeeps, RxFrame DEF ChipTx, TxFetch, IInv, netvars
  <2>2. ASSUME NEW f \in Frame, ChipRx(f) PROVE TxInv' /\ RxInv'
    BY <2>2, StoreKeeps, TxFrame DEF ChipRx, RxStore, IInv, netvars
  <2>3. ASSUME NEW e \in Errors, ChipError(e) PROVE TxInv' /\ RxInv'
    BY <2>3, Quiet DEF ChipError, netvars
  <2> QED
    BY <2>1, <2>2, <2>3
<1>3. intstatus' \subseteq Status
  <2>1. PICK st \in SUBSET Status : intstatus' = intstatus \cup st
    <3>1. {} \in SUBSET Status /\ {"XI"} \in SUBSET Status /\ {"RI"} \in SUBSET Status
          /\ \A e \in Errors : {e} \in SUBSET Status
      BY DEF Status, Errors
    <3>2. CASE ChipTx
      BY <3>1, <3>2 DEF ChipTx, Raise
    <3>3. CASE \E f \in Frame : ChipRx(f)
      BY <3>1, <3>3 DEF ChipRx, Raise
    <3>4. CASE \E e \in Errors : ChipError(e)
      BY <3>1, <3>4 DEF ChipError, Raise
    <3> QED
      BY <3>2, <3>3, <3>4
  <2> QED
    BY <2>1 DEF IInv, Control, EtTypes
<1>4. errors' \in Nat
  <2>1. errors \in Nat /\ (errors' = errors \/ errors' = errors + 1)
    BY DEF ChipTx, ChipRx, ChipError, counters, IInv, Control, EtTypes
  <2> QED
    BY <2>1
<1>5. EtTypes'
  BY <1>1, <1>3, <1>4 DEF IInv, Control, EtTypes, LockTypes, lockvars, netvars
<1>6. pc \notin InReset
  BY <1>1 DEF IInv, Control, Engines
<1>7. Returns' /\ Engines'
  BY <1>1, <1>6 DEF IInv, Control, Returns, Engines, InReset, lockvars, netvars
<1> QED
  BY <1>2, <1>5, <1>7 DEF IInv, Control

LEMMA StutterKeeps ==
  ASSUME IInv, UNCHANGED vars
  PROVE  IInv'
<1>1. TxInv' /\ RxInv'
  BY Quiet DEF vars, netvars
<1>2. Control'
  BY DEF IInv, Control, EtTypes, LockTypes, Returns, Engines, vars, dmavars, txvars, rxvars,
     lockvars, netvars, intrvars, counters
<1> QED
  BY <1>1, <1>2 DEF IInv

LEMMA NextKeeps == IInv /\ [Next]_vars => IInv'
<1> SUFFICES ASSUME IInv, [Next]_vars PROVE IInv'
  OBVIOUS
<1>1. CASE Step
  BY <1>1, ResetKeeps, TxReclaimKeeps, RxReclaimKeeps, EventKeeps, ChipInitKeeps,
     ChipInitDoneKeeps, SendStep, MoveKeeps, RxStep, FillStep, RequestKeeps, FlushStep DEF Step
<1>2. CASE Next /\ ~Step
  BY <1>2, IsrKeeps, DpcKeeps, RequestKeeps, StartStep, ChipStep DEF Next
<1> QED
  BY <1>1, <1>2, StutterKeeps

-----------------------------------------------------------------------------
\* The driver's variables keep their types: no ring index leaves its ring and
\* the count of free descriptors stays within it, for every ring size.
THEOREM TypeCorrect == Spec => []TypeOK
BY InitHolds, NextKeeps, IInvTypes, PTL DEF Spec

\* dma32_txfast finds the descriptors it posts free, and dma32_getnexttxp never
\* cuts a packet in two.
THEOREM TxRingKept == Spec => []TxRingSound
<1>1. IInv => TxRingSound
  BY DEF IInv, TxInv
<1> QED
  BY InitHolds, NextKeeps, <1>1, PTL DEF Spec

\* txavail, by which et_sendnext decides whether to go on, is never too large,
\* and 0 in error only while a completion will correct it.
THEOREM TxavailKept == Spec => []TxavailSound
<1>1. IInv => TxavailSound
  BY DEF IInv, TxInv
<1> QED
  BY InitHolds, NextKeeps, <1>1, PTL DEF Spec

\* Every packet the stack handed over is in exactly one place until it is freed.
THEOREM PacketsKept == Spec => []PacketsOwned
<1>1. IInv => PacketsOwned
  BY DEF IInv, TxInv
<1> QED
  BY InitHolds, NextKeeps, <1>1, PTL DEF Spec

\* The engine never fetches from a packet that has been freed.
THEOREM FetchesSafe == Spec => []FetchesLive
<1>1. IInv => FetchesLive
  BY FetchesOwned DEF IInv, TxInv
<1> QED
  BY InitHolds, NextKeeps, <1>1, PTL DEF Spec

\* The receive ring holds at most nrxpost buffers, all between rxin and rxout,
\* and the engine stores into no other.
THEOREM RxRingKept == Spec => []RxRingSound
<1>1. IInv => RxRingSound
  BY DEF IInv, RxInv
<1> QED
  BY InitHolds, NextKeeps, <1>1, PTL DEF Spec

-----------------------------------------------------------------------------
(***************************************************************************)
(* et_isr and et_dpc.  HandOver says how things stand between the two; it  *)
(* holds because et_dpc clears what it was told of, bit by bit, on its way *)
(* to the lines that turn interrupts on, unless it will run again.  Of the *)
(* two masks only the copy decides whether et_isr acts.                    *)
(***************************************************************************)
InInit == pc \in InReset \cup {"reset"}

(* Nobody, or somebody who does not care, holds the lock.                  *)
AtRest == pc \in {"free", "down", "startq"} \/ (pc = "send" /\ ret = "free")

InDpc ==
  \/ pc \in {"rx", "rxfill", "tx", "txdone", "errors", "sendq", "clear", "end"}
  \/ pc = "send" /\ ret = "clear"
  \/ InInit /\ ret = "sendq"

IntrOff == ~chmask

Told(bit, event) == bit \in chstatus => event \in events
ToldErrors == Told("RU", "ERROR") /\ Told("RO", "ERROR")
RxAgain == "RI" \in chstatus => resched

Waiting == tasklet /\ IntrOff /\ (resched \/ (Told("XI", "TX") /\ Told("RI", "RX") /\ ToldErrors))
Idle == ~tasklet /\ chmask /\ events = {} /\ ~resched /\ chstatus = {}
Armed == Idle /\ intmask

(* The driver has been attached, and its copy of the mask with it, but the *)
(* chip has never run.                                                     *)
Fresh == Idle /\ intstatus = {} /\ ~dmaon

WhileDown ==
  /\ ~up => IntrOff \/ Fresh
  /\ ~up /\ tasklet => killing \/ pc = "flush" \/ (InInit /\ ret = "flush")
  /\ killing => ~up

WhileInit ==
  /\ InInit => ret \in {"startq", "sendq", "flush"} /\ (intron <=> ret = "startq")
  /\ InInit /\ ret = "startq" => up /\ (IntrOff \/ Fresh) /\ ~tasklet
  /\ InInit /\ ret # "flush" => up
  /\ pc \in InReset => chstatus = {}
  /\ pc \in {"chipinit", "rxpost"} => events = {} /\ ~resched
  /\ pc = "startq" => up

WhileDpc ==
  /\ InDpc => up /\ IntrOff /\ ~tasklet
  /\ pc = "rx" => Told("XI", "TX") /\ Told("RI", "RX") /\ ToldErrors
  /\ pc \in {"rxfill", "tx", "txdone"} => Told("XI", "TX") /\ ToldErrors /\ RxAgain
  /\ pc = "errors" => "XI" \notin chstatus /\ ToldErrors /\ RxAgain
  /\ pc \in {"sendq", "clear", "end"} \/ (pc = "send" /\ ret = "clear") =>
       chstatus \subseteq {"RI"} /\ RxAgain
  /\ pc = "end" => events = {}
  /\ pc = "intrson" => up /\ (Waiting \/ Idle)

HandInv ==
  reinit = {} => /\ up /\ AtRest => Waiting \/ Armed
                 /\ WhileDown /\ WhileInit /\ WhileDpc

LEMMA HandImplies == IInv /\ HandInv => HandOver
<1> SUFFICES ASSUME IInv, HandInv, up, reinit = {}
             PROVE  /\ chmask => events = {} /\ ~resched /\ chstatus = {}
                    /\ pc = "free" => (chmask <=> ~tasklet) /\ (intmask \/ tasklet)
  BY DEF HandOver
<1>1. CASE AtRest
  BY <1>1 DEF HandInv, Waiting, Armed, Idle, IntrOff
<1>2. CASE ~AtRest
  <2>1. InDpc \/ (InInit /\ ret = "startq") \/ pc = "intrson"
    BY <1>2 DEF IInv, Control, EtTypes, LockTypes, Label, Returns, InDpc, AtRest, InInit,
                InReset, HandInv, WhileInit
  <2>2. (IntrOff \/ Idle) /\ pc # "free"
    BY <1>2, <2>1 DEF HandInv, WhileInit, WhileDpc, AtRest, Waiting, Fresh
  <2> QED
    BY <2>2 DEF IntrOff, Idle
<1> QED
  BY <1>1, <1>2

LEMMA HandInit == Init => HandInv
BY DEF Init, HandInv, AtRest, WhileDown, WhileInit, WhileDpc, InInit, InDpc, IntrOff, InReset,
       Fresh, Idle

(* What HandInv speaks of.                                                 *)
handvars == <<pc, ret, intron, up, killing, events, resched, tasklet, chstatus, chmask,
              intmask, reinit>>

LEMMA HandFrame ==
  ASSUME HandInv, UNCHANGED handvars, Fresh => Fresh'
  PROVE  HandInv'
<1> USE DEF handvars
<1>1. (Waiting' <=> Waiting) /\ (Idle' <=> Idle) /\ (Armed' <=> Armed)
  BY DEF Waiting, Idle, Armed, IntrOff, Told, ToldErrors
<1>2. WhileDown'
       \/ ~WhileDown
  BY DEF WhileDown, InInit, IntrOff
<1>3. WhileInit' \/ ~WhileInit
  BY DEF WhileInit, InInit, IntrOff
<1>4. WhileDpc' \/ ~WhileDpc
  BY <1>1 DEF WhileDpc, InDpc, InInit, IntrOff, Told, ToldErrors, RxAgain
<1> QED
  BY <1>1, <1>2, <1>3, <1>4 DEF HandInv, AtRest

LEMMA HandIsr ==
  ASSUME IInv, HandInv, et_isr
  PROVE  HandInv'
<1>1. UNCHANGED <<pc, ret, intron, up, killing, resched, reinit>>
  BY DEF et_isr, lockvars, netvars, counters
<1> SUFFICES ASSUME reinit = {} PROVE HandInv'
  BY <1>1 DEF HandInv
<1>2. Idle /\ (AtRest \/ pc = "intrson")
  <2>1. AtRest \/ InDpc \/ (InInit /\ ret = "startq") \/ pc = "intrson"
    BY DEF et_isr, IInv, Control, EtTypes, LockTypes, Label, Returns, InDpc, AtRest, InInit,
           InReset, HandInv, WhileInit
  <2> QED
    BY <2>1 DEF et_isr, HandInv, WhileInit, WhileDpc, Waiting, Armed, Fresh, IntrOff
<1>3. Waiting'
  BY <1>2 DEF et_isr, chipgetintrevents, chipintrsoff, Idle, Waiting, IntrOff, Told, ToldErrors,
              Convert, Errors
<1> QED
  BY <1>1, <1>2, <1>3 DEF et_isr, HandInv, AtRest, WhileDown, WhileInit, WhileDpc,
     InInit, InDpc, InReset

LEMMA HandDpc ==
  ASSUME IInv, HandInv, et_dpc
  PROVE  HandInv'
<1>1. /\ UNCHANGED <<ret, intron, up, killing, reinit, chmask, intmask>>
      /\ pc = "free" /\ tasklet /\ ~tasklet'
  BY DEF et_dpc, lockvars, netvars, counters
<1> SUFFICES ASSUME reinit = {} PROVE HandInv'
  BY <1>1 DEF HandInv
<1>2. CASE ~up
  BY <1>1, <1>2 DEF et_dpc, lockvars, HandInv, AtRest, WhileDown, WhileInit, WhileDpc, InInit,
     InDpc, InReset, IntrOff, Fresh, Idle
<1>3. CASE up
  <2>1. Waiting
    BY <1>1, <1>3 DEF HandInv, AtRest, Armed, Idle
  <2>2. pc' = "rx" /\ IntrOff'
    BY <1>1, <1>3, <2>1 DEF et_dpc, Waiting, IntrOff
  <2>3. (Told("XI", "TX") /\ Told("RI", "RX") /\ ToldErrors)'
    <3>1. CASE resched
      BY <1>3, <3>1 DEF et_dpc, chipgetintrevents, Told, ToldErrors, Convert, Errors
    <3>2. CASE ~resched
      BY <1>3, <2>1, <3>2 DEF et_dpc, Waiting, Told, ToldErrors
    <3> QED
      BY <3>1, <3>2
  <2> QED
    BY <1>1, <1>3, <2>2, <2>3 DEF HandInv, AtRest, WhileDown, WhileInit, WhileDpc, InInit,
       InDpc, InReset
<1> QED
  BY <1>2, <1>3

(* Reset and initialization.                                               *)
LEMMA HandReset ==
  ASSUME IInv, HandInv, ChipReset \/ et_reset_done \/ ChipInit \/ ChipInitDone
  PROVE  HandInv'
<1>1. UNCHANGED <<up, killing, reinit, tasklet>>
  BY DEF ChipReset, et_reset_done, ChipInit, ChipInitDone, netvars, intrvars, counters
<1> SUFFICES ASSUME reinit = {} PROVE HandInv'
  BY <1>1 DEF HandInv
<1>2. CASE ChipReset \/ ChipInit
  BY <1>1, <1>2 DEF ChipReset, ChipInit, dma_reset, dma_init, Goto, intrvars, HandInv, AtRest,
     WhileDown, WhileInit, WhileDpc, InInit, InDpc, InReset, IntrOff, Fresh, Idle
<1>3. CASE et_reset_done
  BY <1>1, <1>3 DEF et_reset_done, Goto, IInv, Control, Returns, HandInv, AtRest, WhileDown,
     WhileInit, WhileDpc, InInit, InDpc, InReset, IntrOff, Fresh, Idle, dmavars
<1>4. CASE ChipInitDone
  <2>1. /\ pc = "rxpost" /\ pc' = ret /\ ret \in {"startq", "sendq"}
        /\ UNCHANGED <<events, resched, chstatus>>
        /\ events = {} /\ ~resched /\ chstatus = {} /\ up /\ ~tasklet
        /\ ret' = ret /\ intron' = intron
    BY <1>4 DEF ChipInitDone, Goto, IInv, Control, Returns, HandInv, WhileInit, WhileDpc, InInit,
       InDpc, InReset
  <2>2. CASE ret = "startq"
    <3>1. chmask' /\ intmask'
      BY <1>4, <2>1, <2>2 DEF ChipInitDone, chipintrson, HandInv, WhileInit, InInit, InReset
    <3>2. Armed'
      BY <1>1, <2>1, <3>1 DEF Armed, Idle
    <3> QED
      BY <1>1, <2>1, <2>2, <3>2 DEF HandInv, AtRest, WhileDown, WhileInit, WhileDpc, InInit,
         InDpc, InReset
  <2>3. CASE ret = "sendq"
    <3>1. IntrOff /\ UNCHANGED <<chmask, intmask>>
      BY <1>4, <2>1, <2>3 DEF ChipInitDone, HandInv, WhileInit, WhileDpc, InInit, InDpc, InReset
    <3> QED
      BY <1>1, <2>1, <2>3, <3>1 DEF HandInv, AtRest, WhileDown, WhileInit, WhileDpc, InInit,
         InDpc, InReset, IntrOff, RxAgain
  <2> QED
    BY <2>1, <2>2, <2>3
<1> QED
  BY <1>2, <1>3, <1>4

LEMMA HandReclaim ==
  ASSUME IInv, HandInv,
         \/ TxReclaim(TRUE, "txreclaim", "rxreclaim")
         \/ TxReclaim(FALSE, "txdone", "errors")
  PROVE  HandInv'
<1>1. /\ UNCHANGED <<up, killing, reinit, tasklet, events, resched, chmask, intmask>>
      /\ UNCHANGED <<pc, ret, intron, chstatus>>
           \/ /\ chstatus' = chstatus \ {"XI"}
              /\ \/ pc = "txreclaim" /\ Goto("rxreclaim")
                 \/ pc = "txdone" /\ Goto("errors")
  BY DEF TxReclaim, lockvars, netvars, counters
<1>5. UNCHANGED <<intstatus, dmaon>>
  BY DEF TxReclaim, getnexttxp, getnexttxp_null, TakeTo, dmavars
<1>2. CASE UNCHANGED <<pc, ret, intron, chstatus>>
  <2>1. Fresh => Fresh'
    BY <1>1, <1>2, <1>5 DEF Fresh, Idle
  <2> QED
    BY <1>1, <1>2, <2>1, HandFrame DEF handvars
<1>3. CASE pc = "txreclaim" /\ Goto("rxreclaim") /\ chstatus' = chstatus \ {"XI"}
  BY <1>1, <1>3, <1>5 DEF Goto, HandInv, AtRest, WhileDown, WhileInit, WhileDpc, InInit, InDpc,
     InReset, IntrOff, Fresh, Idle
<1>4. CASE pc = "txdone" /\ Goto("errors") /\ chstatus' = chstatus \ {"XI"}
  BY <1>1, <1>4 DEF Goto, HandInv, AtRest, WhileDown, WhileInit, WhileDpc, InInit, InDpc, InReset,
     IntrOff, Told, ToldErrors, RxAgain
<1> QED
  BY <1>1, <1>2, <1>3, <1>4

(* et_sendnext, called by et_start or by et_dpc.                           *)
LEMMA HandSend ==
  ASSUME IInv, HandInv, et_sendnext_done \/ DpcSend \/ (\E p \in Pkt : et_start(p))
  PROVE  HandInv'
<1>1. /\ UNCHANGED <<up, killing, reinit, events, resched, tasklet, chstatus, chmask, intmask>>
      /\ \/ pc = "send" /\ Goto(ret)
         \/ pc = "sendq" /\ pc' = "send" /\ ret' = "clear" /\ intron' = intron
         \/ pc = "sendq" /\ Goto("clear")
         \/ pc = "free" /\ pc' = "send" /\ ret' = "free" /\ intron' = intron
  BY DEF et_sendnext_done, DpcSend, et_start, netvars, intrvars, counters
<1>2. UNCHANGED <<intstatus, dmaon>>
  BY DEF et_sendnext_done, DpcSend, et_start, intrvars, dmavars
<1> QED
  BY <1>1, <1>2 DEF Goto, IInv, Control, Returns, HandInv, AtRest, Waiting, Armed, Idle, Fresh,
     WhileDown, WhileInit, WhileDpc, InInit, InDpc, InReset, IntrOff, Told, ToldErrors, RxAgain

LEMMA HandRx ==
  ASSUME IInv, HandInv, DpcRx \/ DpcNoRx \/ DpcRxFill
  PROVE  HandInv'
<1>1. /\ UNCHANGED <<up, killing, reinit, events, tasklet, chmask, intmask, ret, intron>>
      /\ pc \in {"rx", "rxfill"}
  BY DEF DpcRx, DpcNoRx, DpcRxFill, Goto, lockvars, netvars, intrvars, counters
<1> SUFFICES ASSUME reinit = {} PROVE HandInv'
  BY <1>1 DEF HandInv
<1>2. CASE DpcRx /\ UNCHANGED <<pc, chstatus, resched>>
  <2>1. Fresh => Fresh'
    BY <1>1, <1>2 DEF Fresh, Idle, DpcRx, _dma_rx_skip, _dma_rx, _dma_rx_null
  <2> QED
    BY <1>1, <1>2, <2>1, HandFrame DEF handvars
<1>3. CASE DpcRx /\ ~UNCHANGED <<pc, chstatus, resched>>
  <2>1. /\ pc = "rx"
        /\ \/ pc' = "rxfill" /\ resched' /\ chstatus' = chstatus
           \/ pc' = "rxfill" /\ resched' = resched /\ chstatus' = chstatus \ {"RI"}
           \/ pc' = "rx" /\ chstatus' = chstatus
    BY <1>3 DEF DpcRx, Bound, Goto, lockvars
  <2> QED
    BY <1>1, <2>1 DEF HandInv, AtRest, WhileDown, WhileInit, WhileDpc, InInit, InDpc, InReset,
       IntrOff, Told, ToldErrors, RxAgain
<1>4. CASE DpcNoRx
  BY <1>1, <1>4 DEF DpcNoRx, Goto, intrvars, HandInv, AtRest, WhileDown, WhileInit, WhileDpc,
     InInit, InDpc, InReset, IntrOff, Told, ToldErrors, RxAgain
<1>5. CASE DpcRxFill
  BY <1>1, <1>5 DEF DpcRxFill, Goto, intrvars, HandInv, AtRest, WhileDown, WhileInit, WhileDpc,
     InInit, InDpc, InReset, IntrOff, Told, ToldErrors, RxAgain
<1> QED
  BY <1>2, <1>3, <1>4, <1>5

LEMMA HandEnd ==
  ASSUME IInv, HandInv, DpcTx \/ DpcErrors \/ DpcClear \/ DpcEnd \/ DpcIntrsOn
  PROVE  HandInv'
<1>1. UNCHANGED <<up, killing, reinit, resched>>
  BY DEF DpcTx, DpcErrors, DpcClear, DpcEnd, DpcIntrsOn, netvars, intrvars, counters
<1> SUFFICES ASSUME reinit = {} PROVE HandInv'
  BY <1>1 DEF HandInv
<1>2. CASE DpcTx
  BY <1>1, <1>2 DEF DpcTx, Goto, intrvars, HandInv, AtRest, WhileDown, WhileInit, WhileDpc,
     InInit, InDpc, InReset, IntrOff, Told, ToldErrors, RxAgain
<1>3. CASE DpcErrors
  <2>1. chstatus \subseteq Status
    BY DEF IInv, Control, EtTypes
  <2>2. /\ pc = "errors" /\ UNCHANGED <<events, tasklet, chmask, intmask>>
        /\ pc' = "sendq" \/ (pc' = "reset" /\ ret' = "sendq" /\ ~intron')
    BY <1>3 DEF DpcErrors, et_init, Goto
  <2>3. chstatus' = chstatus \ Errors
    BY <1>3 DEF DpcErrors, HandInv, WhileDpc, Told, ToldErrors, Errors
  <2>4. chstatus' \subseteq {"RI"} /\ RxAgain' /\ up /\ IntrOff' /\ ~tasklet'
    BY <1>1, <2>1, <2>2, <2>3 DEF HandInv, WhileDpc, InDpc, RxAgain, IntrOff, Status, Errors
  <2> QED
    BY <1>1, <2>2, <2>4 DEF HandInv, AtRest, WhileDown, WhileInit, WhileDpc, InInit, InDpc,
       InReset
<1>4. CASE DpcClear
  BY <1>1, <1>4 DEF DpcClear, Goto, HandInv, AtRest, WhileDown, WhileInit, WhileDpc, InInit,
     InDpc, InReset, IntrOff, RxAgain
<1>5. CASE DpcEnd
  <2>1. /\ pc = "end" /\ UNCHANGED <<events, chstatus>>
        /\ events = {} /\ chstatus \subseteq {"RI"} /\ RxAgain /\ up /\ IntrOff /\ ~tasklet
    BY <1>5 DEF DpcEnd, HandInv, WhileDpc, InDpc
  <2>2. CASE resched
    <3>1. pc' = "free" /\ Waiting'
      BY <1>1, <1>5, <2>1, <2>2 DEF DpcEnd, Goto, IntrOff, Waiting
    <3> QED
      BY <1>1, <2>1, <3>1 DEF HandInv, AtRest, WhileDown, WhileInit, WhileDpc, InInit, InDpc,
         InReset
  <2>3. CASE ~resched
    <3>1. pc' = "intrson" /\ Idle'
      BY <1>1, <1>5, <2>1, <2>3 DEF DpcEnd, Goto, RxAgain, Idle
    <3> QED
      BY <1>1, <2>1, <3>1 DEF HandInv, AtRest, WhileDown, WhileInit, WhileDpc, InInit, InDpc,
         InReset
  <2> QED
    BY <2>2, <2>3
<1>6. CASE DpcIntrsOn
  <2>1. /\ pc = "intrson" /\ pc' = "free" /\ up /\ (Waiting \/ Idle)
        /\ UNCHANGED <<events, chstatus, tasklet, chmask>>
    BY <1>6 DEF DpcIntrsOn, Goto, HandInv, WhileDpc
  <2>3. chmask => intmask'
    <3>1. intmask' \in {TRUE, chmask}
      BY <1>6 DEF DpcIntrsOn
    <3> QED
      BY <3>1, Zenon
  <2>2. (Waiting \/ Armed)'
    BY <1>1, <2>1, <2>3 DEF Waiting, Armed, Idle, IntrOff, Told, ToldErrors
  <2> QED
    BY <1>1, <2>1, <2>2 DEF HandInv, AtRest, WhileDown, WhileInit, WhileDpc, InInit, InDpc,
       InReset
<1> QED
  BY <1>2, <1>3, <1>4, <1>5, <1>6

(* An interface is opened when the tasklet has been waited for.            *)
LEMMA HandRequest ==
  ASSUME IInv, HandInv,
         et_up \/ et_down \/ netif_start_queue \/ ET_FLAG_DOWN \/ FlushTxq \/ tasklet_kill
  PROVE  HandInv'
<1>1. UNCHANGED <<reinit, events, resched, tasklet, chstatus>>
  BY DEF et_up, et_down, netif_start_queue, ET_FLAG_DOWN, FlushTxq, tasklet_kill, intrvars,
     counters
<1>7. UNCHANGED <<intstatus, dmaon>>
  BY DEF et_up, et_down, netif_start_queue, ET_FLAG_DOWN, FlushTxq, tasklet_kill, intrvars,
     dmavars
<1> USE <1>7 DEF Fresh, Idle
<1>2. CASE et_up
  BY <1>1, <1>2 DEF et_up, Request, et_init, intrvars, HandInv, AtRest, WhileDown, WhileInit,
     WhileDpc, InInit, InDpc, InReset, IntrOff
<1>3. CASE et_down \/ netif_start_queue
  BY <1>1, <1>3 DEF et_down, netif_start_queue, Request, Goto, intrvars, HandInv, AtRest,
     Waiting, Armed, WhileDown, WhileInit, WhileDpc, InInit, InDpc, InReset, IntrOff, Told,
     ToldErrors
<1>4. CASE ET_FLAG_DOWN
  BY <1>1, <1>4 DEF ET_FLAG_DOWN, chipintrsoff, et_init, HandInv, AtRest, WhileDown, WhileInit,
     WhileDpc, InInit, InDpc, InReset, IntrOff
<1>5. CASE FlushTxq
  BY <1>1, <1>5 DEF FlushTxq, Goto, intrvars, IInv, Control, Returns, HandInv, AtRest, WhileDown,
     WhileInit, WhileDpc, InInit, InDpc, InReset, IntrOff
<1>6. CASE tasklet_kill
  BY <1>1, <1>6 DEF tasklet_kill, lockvars, intrvars, HandInv, AtRest, Waiting, Armed, WhileDown,
     WhileInit, WhileDpc, InInit, InDpc, InReset, IntrOff, Told, ToldErrors
<1> QED
  BY <1>2, <1>3, <1>4, <1>5, <1>6

LEMMA HandNext == IInv /\ HandInv /\ [Next]_vars => HandInv'
<1> SUFFICES ASSUME IInv, HandInv, [Next]_vars PROVE HandInv'
  OBVIOUS
<1>1. CASE RxReclaim \/ et_sendnext \/ ChipTx \/ (\E f \in Frame : ChipRx(f))
             \/ (\E e \in Errors : ChipError(e)) \/ UNCHANGED vars
  <2>1. UNCHANGED handvars
    BY <1>1 DEF RxReclaim, et_sendnext, ChipTx, ChipRx, ChipError, Raise, handvars, vars,
       lockvars, netvars, intrvars, counters
  <2>2. UNCHANGED <<intstatus, dmaon>> \/ dmaon
    BY <1>1 DEF RxReclaim, et_sendnext, dma32_txfast, outoftxd, ChipTx, TxFetch, ChipRx, RxStore,
       ChipError, vars, intrvars, dmavars
  <2>3. Fresh => Fresh'
    BY <2>1, <2>2 DEF Fresh, Idle, handvars
  <2> QED
    BY <2>1, <2>3, HandFrame
<1>2. CASE Reinit
  BY <1>2 DEF Reinit, HandInv
<1>3. CASE Step
  BY <1>1, <1>3, HandReset, HandReclaim, HandSend, HandRx, HandEnd, HandRequest DEF Step
<1>4. CASE Next /\ ~Step
  BY <1>1, <1>2, <1>4, HandIsr, HandDpc, HandSend, HandRequest DEF Next
<1> QED
  BY <1>1, <1>3, <1>4

\* The assertions of et_isr hold unless an administrator re-initializes the
\* interface: it never acts while events or a rescheduled et_dpc wait, and
\* whenever the lock is free, et_dpc is due or both masks let an interrupt in,
\* also when et_isr was called between the two writes that turn interrupts on.
THEOREM HandsOver == Spec => []HandOver
BY InitHolds, NextKeeps, HandInit, HandNext, HandImplies, PTL DEF Spec

-----------------------------------------------------------------------------
(***************************************************************************)
(* An interface that is down.  Closing it takes the holder of the lock     *)
(* from et_down through a reset that does not initialize the chip to the   *)
(* flush of txq; nobody else does anything meanwhile.                      *)
(***************************************************************************)
DownInv ==
  /\ pc = "down" => stopped
  /\ ~up /\ "down" \notin reinit =>
       /\ pc \in {"free", "down", "flush"} \/ (InInit /\ ret = "flush")
       /\ stopped /\ ~intmask
       /\ ~InInit => ~dmaon /\ txin = txout /\ rxin = rxout
       /\ pc \in {"free", "down"} => txq = <<>>

(* An empty ring carries no packet.                                        *)
LEMMA EmptyRing ==
  ASSUME TxInv, txin = txout
  PROVE  InRing = {}
<1>1. NTXDACTIVE(txin, txout) = 0 /\ \A i \in TxSlot : NTXDACTIVE(txin, i) \in 0 .. NTXD - 1
  BY TxDist DEF TxInv, TxTypes
<1>2. \A i \in TxSlot : txp[i] = NoPkt
  BY <1>1, SlotZero DEF TxInv, TxRingSound, TxActive
<1> QED
  BY <1>2 DEF InRing

LEMMA DownImplies == IInv /\ DownInv => DownIsQuiet
<1> SUFFICES ASSUME IInv, DownInv, ~up, pc = "free", "down" \notin reinit
             PROVE  /\ live = {} /\ txin = txout /\ rxin = rxout
                    /\ ~dmaon /\ ~intmask /\ stopped
  BY DEF DownIsQuiet
<1>1. txin = txout /\ rxin = rxout /\ ~dmaon /\ ~intmask /\ stopped /\ txq = <<>>
  BY DEF DownInv, InInit, InReset
<1>2. ToSet(txq) = {}
  BY <1>1 DEF ToSet
<1>3. InRing = {}
  BY <1>1, EmptyRing DEF IInv
<1> QED
  BY <1>1, <1>2, <1>3 DEF IInv, TxInv, PacketsOwned

LEMMA DownInit == Init => DownInv
BY DEF Init, DownInv, InInit, InReset

(* What is done while the interface is up, or by the chip, which is off    *)
(* while it is down.                                                       *)
LEMMA DownElse ==
  ASSUME IInv, DownInv, UNCHANGED <<up, reinit>>,
         pc' = "down" => pc = "down" /\ UNCHANGED stopped,
         up \/ "down" \in reinit
  PROVE  DownInv'
BY DEF DownInv

LEMMA DownFrame ==
  ASSUME DownInv, UNCHANGED <<pc, ret, up, reinit, stopped, intmask, dmaon, txin, txout, rxin,
                              rxout, txq>>
  PROVE  DownInv'
BY DEF DownInv, InInit

LEMMA DownReset ==
  ASSUME IInv, DownInv,
         \/ ChipReset \/ TxReclaim(TRUE, "txreclaim", "rxreclaim") \/ RxReclaim
         \/ et_reset_done \/ ChipInit \/ ChipInitDone
  PROVE  DownInv'
<1>1. UNCHANGED <<up, stopped, txq, reinit>> /\ InInit
  BY DEF ChipReset, TxReclaim, RxReclaim, et_reset_done, ChipInit, ChipInitDone, netvars, counters,
     InInit, InReset
<1>2. ret # "down"
  BY <1>1 DEF IInv, Control, Returns, InInit
<1>3. pc' # "down"
  BY <1>1, <1>2 DEF ChipReset, TxReclaim, RxReclaim, et_reset_done, ChipInit, ChipInitDone, Goto,
     lockvars, InInit, InReset
<1>4. CASE up \/ "down" \in reinit
  BY <1>1, <1>3, <1>4, DownElse
<1>5. CASE ~up /\ "down" \notin reinit
  <2>1. ret = "flush" /\ stopped /\ ~intmask
    BY <1>1, <1>5 DEF DownInv, InInit, InReset
  <2>2. pc \notin {"chipinit", "rxpost"}
    BY <2>1 DEF IInv, Control, Returns
  <2>3. CASE ChipReset
    BY <1>1, <2>1, <2>3 DEF ChipReset, Goto, DownInv, InInit, InReset
  <2>4. CASE TxReclaim(TRUE, "txreclaim", "rxreclaim")
    BY <1>1, <2>1, <2>4 DEF TxReclaim, Goto, lockvars, DownInv, InInit, InReset
  <2>5. CASE RxReclaim
    BY <1>1, <2>1, <2>5 DEF RxReclaim, lockvars, intrvars, DownInv, InInit, InReset
  <2>6. CASE et_reset_done
    <3>1. ~dmaon /\ txin = txout /\ rxin = rxout
      BY <2>6 DEF et_reset_done, RxEmpty, IInv, Control, Engines, InReset
    <3> QED
      BY <1>1, <2>1, <2>6, <3>1 DEF et_reset_done, Goto, DownInv, InInit, InReset, dmavars,
         txvars, rxvars
  <2> QED
    BY <2>2, <2>3, <2>4, <2>5, <2>6 DEF ChipInit, ChipInitDone
<1> QED
  BY <1>4, <1>5

LEMMA DownDpc ==
  ASSUME IInv, DownInv,
         \/ et_sendnext \/ et_sendnext_done \/ DpcRx \/ DpcNoRx \/ DpcRxFill \/ DpcTx
         \/ TxReclaim(FALSE, "txdone", "errors")
         \/ DpcErrors \/ DpcSend \/ DpcClear \/ DpcEnd \/ DpcIntrsOn
         \/ netif_start_queue
  PROVE  DownInv'
<1>1. UNCHANGED <<up, reinit>>
  BY DEF et_sendnext, et_sendnext_done, DpcRx, DpcNoRx, DpcRxFill, DpcTx, TxReclaim, DpcErrors,
     DpcSend, DpcClear, DpcEnd, DpcIntrsOn, netif_start_queue, netvars, counters
<1>2. pc \in {"send", "rx", "rxfill", "tx", "txdone", "errors", "sendq", "clear", "end",
            "intrson", "startq"}
  BY DEF et_sendnext, et_sendnext_done, DpcRx, DpcNoRx, DpcRxFill, DpcTx, TxReclaim, DpcErrors,
     DpcSend, DpcClear, DpcEnd, DpcIntrsOn, netif_start_queue
<1>3. up \/ "down" \in reinit
  BY <1>2 DEF DownInv, InInit, InReset
<1>4. pc = "send" => ret # "down"
  BY DEF IInv, Control, Returns
<1>5. pc' # "down"
  BY <1>2, <1>4 DEF et_sendnext, et_sendnext_done, DpcRx, DpcNoRx, DpcRxFill, DpcTx, TxReclaim,
     DpcErrors, DpcSend, DpcClear, DpcEnd, DpcIntrsOn, netif_start_queue, Goto, et_init, lockvars
<1> QED
  BY <1>1, <1>3, <1>5, DownElse

LEMMA DownRequest ==
  ASSUME IInv, DownInv,
         et_up \/ et_down \/ Reinit \/ ET_FLAG_DOWN \/ FlushTxq \/ tasklet_kill
  PROVE  DownInv'
<1>1. CASE et_up
  BY <1>1 DEF et_up, et_init, DownInv
<1>2. CASE et_down
  BY <1>2 DEF et_down, Request, Goto, DownInv, InInit, InReset, dmavars, txvars, rxvars, intrvars
<1>3. CASE Reinit
  BY <1>3 DEF Reinit, et_init, netvars, DownInv
<1>4. CASE ET_FLAG_DOWN
  BY <1>4 DEF ET_FLAG_DOWN, et_init, chipintrsoff, DownInv, InInit, InReset
<1>5. CASE FlushTxq
  BY <1>5 DEF FlushTxq, Goto, DownInv, InInit, InReset, txvars, rxvars, intrvars, counters
<1>6. CASE tasklet_kill
  BY <1>6, DownFrame DEF tasklet_kill, lockvars, dmavars, txvars, rxvars, intrvars, counters
<1> QED
  BY <1>1, <1>2, <1>3, <1>4, <1>5, <1>6

LEMMA DownOther ==
  ASSUME IInv, DownInv,
         \/ et_isr \/ et_dpc \/ (\E p \in Pkt : et_start(p))
         \/ ChipTx \/ (\E f \in Frame : ChipRx(f)) \/ (\E e \in Errors : ChipError(e))
         \/ UNCHANGED vars
  PROVE  DownInv'
<1>1. CASE UNCHANGED vars
  BY <1>1, DownFrame DEF vars, dmavars, txvars, rxvars, lockvars, netvars, intrvars, counters
<1>2. CASE et_isr
  BY <1>2, DownElse DEF et_isr, lockvars, netvars, counters
<1>3. CASE et_dpc
  <2>1. CASE ~up
    BY <1>3, <2>1, DownFrame DEF et_dpc, dmavars, txvars, rxvars, lockvars, netvars, counters
  <2>2. CASE up
    BY <1>3, <2>2, DownElse DEF et_dpc, netvars, counters
  <2> QED
    BY <2>1, <2>2
<1>4. CASE \E p \in Pkt : et_start(p)
  BY <1>4, DownElse DEF et_start, counters, DownInv
<1>5. CASE ChipTx \/ (\E f \in Frame : ChipRx(f)) \/ (\E e \in Errors : ChipError(e))
  <2>1. /\ UNCHANGED <<pc, ret, up, reinit, stopped, intmask, dmaon, txin, txout, rxin, rxout, txq>>
    BY <1>5 DEF ChipTx, ChipRx, ChipError, Raise, TxFetch, RxStore, lockvars, netvars, counters,
       dmavars, txvars, rxvars
  <2> QED
    BY <2>1, DownFrame
<1> QED
  BY <1>1, <1>2, <1>3, <1>4, <1>5

LEMMA DownNext == IInv /\ DownInv /\ [Next]_vars => DownInv'
<1> SUFFICES ASSUME IInv, DownInv, [Next]_vars PROVE DownInv'
  OBVIOUS
<1>1. CASE Step
  <2>1. CASE \/ ChipReset \/ TxReclaim(TRUE, "txreclaim", "rxreclaim") \/ RxReclaim
             \/ et_reset_done \/ ChipInit \/ ChipInitDone
    BY <2>1, DownReset
  <2>2. CASE \/ et_sendnext \/ et_sendnext_done \/ DpcRx \/ DpcNoRx \/ DpcRxFill \/ DpcTx
             \/ TxReclaim(FALSE, "txdone", "errors")
             \/ DpcErrors \/ DpcSend \/ DpcClear \/ DpcEnd \/ DpcIntrsOn
             \/ netif_start_queue
    BY <2>2, DownDpc
  <2> QED
    BY <1>1, <2>1, <2>2, DownRequest DEF Step
<1>2. CASE Next /\ ~Step
  BY <1>2, DownRequest, DownOther DEF Next
<1> QED
  BY <1>1, <1>2, DownOther

\* et_down leaves nothing behind: until the interface is opened again it owns no
\* packet and no buffer, and neither the engines nor the interrupt are on,
\* unless an ioctl re-initialized it while it was down.
THEOREM DownQuiet == Spec => []DownIsQuiet
BY InitHolds, NextKeeps, DownInit, DownNext, DownImplies, PTL DEF Spec

-----------------------------------------------------------------------------
(***************************************************************************)
(* The backlog.  et_sendnext stops when txq is empty or there is no free   *)
(* descriptor, and then the ring is not empty (TxavailSound); nothing is   *)
(* reclaimed between there and the release of the lock.  et_up finds txq   *)
(* empty, which is what et_down left.                                      *)
(***************************************************************************)
Starting == pc = "startq" \/ (InInit /\ ret = "startq")

Covered == txq # <<>> => txin # txout \/ tasklet

BackInv ==
  up /\ reinit = {} =>
     /\ pc \in {"free", "clear", "end", "intrson"} => Covered
     /\ pc \notin {"send", "down"} /\ ~Starting => (stopped => txq # <<>>)
     /\ Starting => txq = <<>>

LEMMA BackImplies == BackInv => BacklogHasWaker
BY DEF BackInv, Covered, Starting, InInit, InReset, BacklogHasWaker

LEMMA BackInit == Init => BackInv
BY DEF Init, BackInv

LEMMA BackFrame ==
  ASSUME BackInv, UNCHANGED <<pc, ret, up, reinit, stopped, txin, txout, txq>>,
         tasklet => tasklet'
  PROVE  BackInv'
BY DEF BackInv, Covered, Starting, InInit

(* When et_sendnext gives up, there is something on the ring.              *)
LEMMA NoneFree ==
  ASSUME IInv, txavail = 0
  PROVE  txin # txout
<1>1. txin = txout => Avail(txin, txout) = NTXD - 1
  BY TxDist, SlotZero DEF Avail, IInv, TxInv, TxTypes
<1>2. NTXD - 1 # 0
  BY RingAssumption
<1> QED
  BY <1>1, <1>2 DEF IInv, TxInv, TxavailSound

LEMMA SendDoneBack ==
  ASSUME IInv, BackInv, et_sendnext_done
  PROVE  BackInv'
<1>1. /\ UNCHANGED <<txin, txout, up, txq, reinit, tasklet>>
      /\ pc = "send" /\ (txavail = 0 \/ txq = <<>>) /\ Goto(ret) /\ FlowControl
  BY DEF et_sendnext_done, dmavars, txvars, intrvars, counters
<1>2. Covered'
  BY <1>1, NoneFree DEF Covered
<1>3. stopped' => txq # <<>>
  <2> SUFFICES ASSUME txq = <<>> PROVE ~stopped'
    OBVIOUS
  <2>1. Len(txq) = 0
    OBVIOUS
  <2>2. ~(0 > DATAHIWAT) /\ 0 < DATAHIWAT \div 2
    BY EtAssumption
  <2> QED
    BY <1>1, <2>1, <2>2 DEF FlowControl
<1>4. pc' \in {"free", "clear"}
  BY <1>1 DEF Goto, IInv, Control, Returns
<1> QED
  BY <1>1, <1>2, <1>3, <1>4 DEF BackInv, Starting, InInit, InReset

(* The steps of the lock holder that leave txq alone: where they lead.     *)
LEMMA MoveBack ==
  ASSUME IInv, HandInv, BackInv,
         \/ ChipReset \/ TxReclaim(TRUE, "txreclaim", "rxreclaim") \/ RxReclaim
         \/ et_reset_done \/ ChipInit \/ ChipInitDone
         \/ DpcRx \/ DpcNoRx \/ DpcRxFill \/ DpcTx \/ TxReclaim(FALSE, "txdone", "errors")
         \/ DpcErrors
  PROVE  BackInv'
<1>1. UNCHANGED <<up, txq, stopped, reinit>>
  BY DEF ChipReset, TxReclaim, RxReclaim, et_reset_done, ChipInit, ChipInitDone, DpcRx, DpcNoRx,
     DpcRxFill, DpcTx, DpcErrors, netvars, counters
<1> SUFFICES ASSUME up, reinit = {} PROVE BackInv'
  BY <1>1 DEF BackInv
<1>2. InInit => ret \in {"startq", "sendq"}
  BY DEF HandInv, WhileInit, IInv, Control, Returns, InInit
<1>3. CASE InInit
  <2>1. /\ ret' = ret
        /\ pc' \in InReset \/ pc' = ret
    BY <1>2, <1>3 DEF ChipReset, TxReclaim, RxReclaim, et_reset_done, ChipInit, ChipInitDone,
       DpcRx, DpcNoRx, DpcRxFill, DpcTx, DpcErrors, Goto, lockvars, InInit, InReset
  <2>2. CASE ret = "startq"
    BY <1>1, <1>3, <2>1, <2>2 DEF BackInv, Starting, InInit, InReset
  <2>3. CASE ret = "sendq"
    BY <1>1, <1>3, <2>1, <2>3 DEF BackInv, Starting, InInit, InReset
  <2> QED
    BY <1>2, <1>3, <2>2, <2>3
<1>4. CASE ~InInit
  <2>1. /\ pc \in {"rx", "rxfill", "tx", "txdone", "errors"}
        /\ \/ pc' \in {"rx", "rxfill", "tx", "txdone", "errors", "sendq"}
           \/ pc' = "reset" /\ ret' = "sendq"
    BY <1>4 DEF ChipReset, TxReclaim, RxReclaim, et_reset_done, ChipInit, ChipInitDone,
       DpcRx, DpcNoRx, DpcRxFill, DpcTx, DpcErrors, Goto, et_init, lockvars, InInit, InReset
  <2> QED
    BY <1>1, <2>1 DEF BackInv, Starting, InInit, InReset
<1> QED
  BY <1>3, <1>4

LEMMA EndBack ==
  ASSUME IInv, BackInv,
         et_sendnext \/ DpcSend \/ DpcClear \/ DpcEnd \/ DpcIntrsOn \/ (\E p \in Pkt : et_start(p))
  PROVE  BackInv'
<1>1. CASE et_sendnext
  BY <1>1 DEF et_sendnext, lockvars, counters, BackInv, Starting, InInit, InReset
<1>2. CASE DpcSend
  BY <1>2 DEF DpcSend, Goto, netvars, counters, BackInv, Covered, Starting, InInit, InReset
<1>3. CASE DpcClear
  BY <1>3 DEF DpcClear, Goto, dmavars, txvars, netvars, counters, BackInv, Covered, Starting,
     InInit, InReset
<1>4. CASE DpcEnd \/ DpcIntrsOn
  BY <1>4 DEF DpcEnd, DpcIntrsOn, Goto, dmavars, txvars, netvars, counters, BackInv, Covered, Starting,
     InInit, InReset
<1>5. CASE \E p \in Pkt : et_start(p)
  BY <1>5 DEF et_start, counters, BackInv, Starting, InInit, InReset
<1> QED
  BY <1>1, <1>2, <1>3, <1>4, <1>5

LEMMA RequestBack ==
  ASSUME IInv, DownInv, BackInv,
         \/ et_up \/ netif_start_queue \/ et_down \/ Reinit \/ ET_FLAG_DOWN \/ FlushTxq
         \/ tasklet_kill
  PROVE  BackInv'
<1>1. CASE et_up
  BY <1>1 DEF et_up, Request, et_init, DownInv, BackInv, Starting, InInit, InReset
<1>2. CASE netif_start_queue
  BY <1>2 DEF netif_start_queue, Goto, counters, BackInv, Covered, Starting, InInit, InReset
<1>3. CASE et_down
  BY <1>3 DEF et_down, Goto, BackInv, Starting, InInit, InReset
<1>4. CASE Reinit
  BY <1>4 DEF Reinit, BackInv
<1>5. CASE ET_FLAG_DOWN
  BY <1>5 DEF ET_FLAG_DOWN, BackInv
<1>6. CASE FlushTxq
  BY <1>6 DEF FlushTxq, IInv, Control, Returns, BackInv
<1>7. CASE tasklet_kill
  BY <1>7, BackFrame DEF tasklet_kill, lockvars, dmavars, txvars, intrvars, counters
<1> QED
  BY <1>1, <1>2, <1>3, <1>4, <1>5, <1>6, <1>7

LEMMA OtherBack ==
  ASSUME IInv, BackInv,
         \/ et_isr \/ et_dpc
         \/ ChipTx \/ (\E f \in Frame : ChipRx(f)) \/ (\E e \in Errors : ChipError(e))
         \/ UNCHANGED vars
  PROVE  BackInv'
<1>1. CASE UNCHANGED vars
  BY <1>1, BackFrame DEF vars, dmavars, txvars, lockvars, netvars, intrvars, counters
<1>2. CASE et_isr
  BY <1>2, BackFrame DEF et_isr, dmavars, txvars, lockvars, netvars, counters
<1>3. CASE et_dpc
  BY <1>3 DEF et_dpc, netvars, counters, BackInv, Starting, InInit, InReset
<1>4. CASE ChipTx \/ (\E f \in Frame : ChipRx(f)) \/ (\E e \in Errors : ChipError(e))
  <2>1. UNCHANGED <<pc, ret, up, reinit, stopped, txin, txout, txq, tasklet>>
    BY <1>4 DEF ChipTx, ChipRx, ChipError, Raise, TxFetch, RxStore, lockvars, netvars, counters,
       dmavars, txvars
  <2> QED
    BY <2>1, BackFrame
<1> QED
  BY <1>1, <1>2, <1>3, <1>4

LEMMA BackNext == IInv /\ HandInv /\ DownInv /\ BackInv /\ [Next]_vars => BackInv'
<1> SUFFICES ASSUME IInv, HandInv, DownInv, BackInv, [Next]_vars PROVE BackInv'
  OBVIOUS
<1>1. CASE Step
  BY <1>1, SendDoneBack, MoveBack, EndBack, RequestBack DEF Step
<1>2. CASE Next /\ ~Step
  BY <1>2, EndBack, RequestBack, OtherBack DEF Next
<1> QED
  BY <1>1, <1>2, OtherBack

\* Whenever the lock is released, packets that wait in txq have a completion or
\* the tasklet to wait for, and the stack is stopped only if some do.
THEOREM BacklogWoken == Spec => []BacklogHasWaker
BY InitHolds, NextKeeps, HandInit, HandNext, DownInit, DownNext, BackInit, BackNext, BackImplies,
   PTL DEF Spec
=============================================================================
