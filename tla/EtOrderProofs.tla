--------------------------- MODULE EtOrderProofs ---------------------------
(***************************************************************************)
(* The order of packets and frames: what waits in the rings of Et is sent, *)
(* or handed to the stack, oldest first, whole and unmixed, for every ring *)
(* size and packet shape.                                                  *)
(***************************************************************************)
EXTENDS EtProofs, SelectionProofs

-----------------------------------------------------------------------------
(***************************************************************************)
(* Descriptors.  Those of a packet follow one another on the ring; the     *)
(* last, which has the eof flag, also has the pointer to the packet, and   *)
(* the first has the sof flag, unless the chain began with an empty        *)
(* buffer.  What is said here is said of the descriptors between txin and  *)
(* txout only: beyond lie the remains of chains that ran out of them.      *)
(***************************************************************************)
Described(i) ==
  /\ txd[i].pkt \in Pkt /\ txd[i].buf \in 1 .. Descs[txd[i].pkt]
  /\ txd[i].sof <=> (txd[i].buf = 1 /\ ~HeadEmpty[txd[i].pkt])
  /\ txd[i].eof <=> txd[i].buf = Descs[txd[i].pkt]
  /\ txp[i] = IF txd[i].eof THEN txd[i].pkt ELSE NoPkt

Followed(i) ==
  /\ NEXTTXD(i) = txout => txd[i].eof
  /\ NEXTTXD(i) # txout =>
       IF txd[i].eof THEN txd[NEXTTXD(i)].buf = 1
                     ELSE /\ txd[NEXTTXD(i)].pkt = txd[i].pkt
                          /\ txd[NEXTTXD(i)].buf = txd[i].buf + 1

(* Between two frames, or in the middle of the one being fetched.          *)
Whole == Continues \/ HeadEmpty[txd[txcurr].pkt]

Fetching ==
  IF ~dmaon \/ txcurr = txout THEN onwire = NoDesc ELSE Whole

Descriptors == \A i \in TxSlot : TxActive(i) => Described(i) /\ Followed(i)

WireInv == Descriptors /\ Fetching

(***************************************************************************)
(* Receive buffers.  Those of a giant frame follow one another, and        *)
(* _dma_rx, which skips both, is never left in between.                    *)
(***************************************************************************)
Arrived(i) == NRXDACTIVE(rxin, i) < NRXDACTIVE(rxin, rxcurr)

Stored(i) ==
  /\ rxbuf[i].frame \in Frame /\ rxbuf[i].part \in 1 .. 2
  /\ LET second == rxbuf[i].part = 1 /\ rxbuf[i].frame \in Giant
     IN  IF NEXTRXD(i) = rxcurr THEN ~second
         ELSE rxbuf[NEXTRXD(i)].part = IF second THEN 2 ELSE 1

RxStored == \A i \in RxSlot : Arrived(i) => Stored(i)
RxPlace  == IF rxin = rxcurr THEN skiplen = 0 ELSE rxbuf[rxin].part = skiplen + 1

RxData == dmaon => RxStored /\ RxPlace

-----------------------------------------------------------------------------
(* Windows of a ring.                                                      *)
RingOf(T, ring, N) == \A i \in 0 .. N - 1 : ring[i] \in T

LEMMA WindowPlace ==
  ASSUME NEW N \in Nat, NEW from \in 0 .. N - 1, NEW k \in 1 .. N - 1
  PROVE  Plus(from, k - 1, N) \in 0 .. N - 1 /\ Dist(from, Plus(from, k - 1, N), N) = k - 1
<1>1. PICK j \in 0 .. N - 1 : j = k - 1
  OBVIOUS
<1>2. Dist(from, from, N) = 0
  BY DistType
<1>3. /\ Plus(from, j, N) \in 0 .. N - 1
      /\ Dist(from, Plus(from, j, N), N) = IF Dist(from, from, N) + j < N
                                           THEN Dist(from, from, N) + j
                                           ELSE (Dist(from, from, N) + j) - N
  BY DistPlus
<1> QED BY <1>1, <1>2, <1>3

LEMMA WindowType ==
  ASSUME NEW T, NEW N \in Nat, NEW ring, RingOf(T, ring, N),
         NEW from \in 0 .. N - 1, NEW n \in 0 .. N - 1
  PROVE  Window(ring, from, n, N) \in Seq(T) /\ Len(Window(ring, from, n, N)) = n
<1>1. \A k \in 1 .. n : ring[Plus(from, k - 1, N)] \in T
  BY WindowPlace DEF RingOf
<1>2. Window(ring, from, n, N) \in [1 .. n -> T]
  BY <1>1 DEF Window
<1>3. n \in Nat /\ Window(ring, from, n, N) \in Seq(T)
  BY <1>2
<1>4. DOMAIN Window(ring, from, n, N) = 1 .. n
  BY <1>2
<1> QED BY <1>3, <1>4, LenProperties

(* A window of length l, cut at mid.                                       *)
Cut(T, N, ring, from, mid, to, m, n, l) ==
  /\ N \in Nat /\ RingOf(T, ring, N)
  /\ from \in 0 .. N - 1 /\ mid \in 0 .. N - 1 /\ to \in 0 .. N - 1
  /\ m = Dist(from, mid, N) /\ n = Dist(mid, to, N) /\ l = Dist(from, to, N) /\ m <= l

Glued(w, a, b) == w = a \o b

LEMMA WindowConcat ==
  ASSUME NEW T, NEW N \in Nat, NEW ring,
         NEW from \in 0 .. N - 1, NEW mid \in 0 .. N - 1, NEW to \in 0 .. N - 1,
         NEW m \in 0 .. N - 1, NEW n \in 0 .. N - 1, NEW l \in 0 .. N - 1,
         Cut(T, N, ring, from, mid, to, m, n, l)
  PROVE  /\ Glued(Window(ring, from, l, N), Window(ring, from, m, N), Window(ring, mid, n, N))
         /\ Window(ring, from, m, N) \in Seq(T) /\ Window(ring, mid, n, N) \in Seq(T)
<1>0. /\ N \in Nat /\ RingOf(T, ring, N)
      /\ from \in 0 .. N - 1 /\ mid \in 0 .. N - 1 /\ to \in 0 .. N - 1
  BY DEF Cut
<1>1. m \in 0 .. N - 1 /\ n \in 0 .. N - 1
  BY <1>0, DistType DEF Cut
<1>2. l \in 0 .. N - 1 /\ l = m + n
  BY <1>0 DEF Cut, Dist
<1>3. mid = Plus(from, m, N)
  BY <1>0 DEF Cut, Dist, Plus
<1> DEFINE a == Window(ring, from, m, N)
           b == Window(ring, mid, n, N)
           w == Window(ring, from, l, N)
<1>4. a \in Seq(T) /\ Len(a) = m
  BY <1>0, <1>1, <1>2, WindowType
<1>5. b \in Seq(T) /\ Len(b) = n
  BY <1>0, <1>1, <1>2, WindowType
<1>6. w \in Seq(T) /\ Len(w) = l
  BY <1>0, <1>1, <1>2, WindowType
<1>7. /\ \A k \in 1 .. m : a[k] = ring[Plus(from, k - 1, N)]
      /\ \A k \in 1 .. n : b[k] = ring[Plus(mid, k - 1, N)]
      /\ \A k \in 1 .. l : w[k] = ring[Plus(from, k - 1, N)]
  BY DEF Window
<1> HIDE DEF a, b, w
<1>8. /\ a \o b \in Seq(T) /\ Len(a \o b) = Len(a) + Len(b)
      /\ \A k \in 1 .. Len(a) + Len(b) : (a \o b)[k] = IF k <= Len(a) THEN a[k] ELSE b[k - Len(a)]
  BY <1>4, <1>5, ConcatProperties
<1>9. ASSUME NEW k \in 1 .. Len(w) PROVE w[k] = (a \o b)[k]
  <2>0. k \in 1 .. l /\ k \in 1 .. Len(a) + Len(b) /\ k \in Int
    BY <1>2, <1>4, <1>5, <1>6
  <2>1. CASE k <= m
    <3>1. k \in 1 .. m
      BY <2>0, <2>1
    <3> QED BY <2>0, <2>1, <3>1, <1>4, <1>7, <1>8
  <2>2. CASE ~(k <= m)
    <3>1. PICK j \in 1 .. n : j = k - m
      BY <2>0, <2>2, <1>0, <1>1, <1>2
    <3>2. Plus(mid, j - 1, N) = Plus(from, k - 1, N)
      BY <1>0, <1>1, <1>2, <1>3, <2>0, <3>1 DEF Plus
    <3>3. b[j] = ring[Plus(mid, j - 1, N)] /\ w[k] = ring[Plus(from, k - 1, N)]
      BY <3>1, <2>0, <1>7
    <3>4. (a \o b)[k] = b[j]
      BY <2>0, <2>2, <3>1, <1>4, <1>8
    <3> QED BY <3>2, <3>3, <3>4
  <2> QED BY <2>1, <2>2
<1>10. w = a \o b
  <2>1. Len(w) = Len(a \o b)
    BY <1>2, <1>4, <1>5, <1>6, <1>8
  <2> QED BY <2>1, <1>6, <1>8, <1>9, SeqEqual
<1>11. Glued(w, a, b)
  BY <1>10 DEF Glued
<1> QED BY <1>4, <1>5, <1>11 DEF a, b, w

Agree(ring, other, from, n, N) ==
  \A i \in 0 .. N - 1 : Dist(from, i, N) < n => ring[i] = other[i]

LEMMA WindowSame ==
  ASSUME NEW N \in Nat, NEW ring, NEW other, NEW from \in 0 .. N - 1, NEW n \in 0 .. N - 1,
         Agree(ring, other, from, n, N)
  PROVE  Window(ring, from, n, N) = Window(other, from, n, N)
<1>1. \A k \in 1 .. n : ring[Plus(from, k - 1, N)] = other[Plus(from, k - 1, N)]
  <2> SUFFICES ASSUME NEW k \in 1 .. n
               PROVE  ring[Plus(from, k - 1, N)] = other[Plus(from, k - 1, N)]
    OBVIOUS
  <2>1. k \in 1 .. N - 1 /\ k - 1 < n
    OBVIOUS
  <2>2. /\ Plus(from, k - 1, N) \in 0 .. N - 1
        /\ Dist(from, Plus(from, k - 1, N), N) = k - 1
    BY <2>1, WindowPlace
  <2> QED BY <2>1, <2>2 DEF Agree
<1> QED BY <1>1 DEF Window

(* A sequence that ends in its only member of S.                           *)
EndsIn(T, s, S, n) ==
  /\ s \in Seq(T) /\ n \in Nat \ {0} /\ Len(s) = n
  /\ s[n] \in S /\ \A k \in 1 .. n - 1 : s[k] \notin S

LEMMA FilteredLast ==
  ASSUME NEW T, NEW s, NEW S, NEW n, EndsIn(T, s, S, n)
  PROVE  Filtered(s, S) = <<s[n]>>
<1>0. /\ s \in Seq(T) /\ n \in Nat \ {0} /\ Len(s) = n
      /\ s[n] \in S /\ \A k \in 1 .. n - 1 : s[k] \notin S
  BY DEF EndsIn
<1> DEFINE a == SubSeq(s, 1, n - 1)
<1>1. /\ n - 1 \in Int /\ 1 \in 1 .. Len(s) /\ n \in 1 .. Len(s)
      /\ \A i \in 1 .. n - 1 : s[i] \in T
  BY <1>0, ElementOfSeq
<1>2. /\ a \in Seq(T) /\ Len(a) = n - 1
      /\ \A i \in 1 .. n - 1 : a[i] = s[i]
  <2>1. /\ SubSeq(s, 1, n - 1) \in Seq(T)
        /\ Len(SubSeq(s, 1, n - 1)) = IF 1 <= n - 1 THEN ((n - 1) - 1) + 1 ELSE 0
        /\ \A i \in 1 .. ((n - 1) - 1) + 1 : SubSeq(s, 1, n - 1)[i] = s[(1 + i) - 1]
    BY <1>0, <1>1, SubSeqProperties
  <2> QED BY <1>0, <2>1
<1>3. s = a \o <<s[n]>>
  <2>1. SubSeq(s, 1, n) = SubSeq(s, 1, n - 1) \o <<s[n]>>
    BY <1>0, <1>1, SubSeqRecursiveSecond
  <2> QED BY <1>0, <2>1, SubSeqFull
<1>4. PICK b \in Seq(T) : b = <<s[n]>>
  <2>1. s[n] \in T
    BY <1>0, <1>1, ElementOfSeq
  <2>2. <<s[n]>> \in Seq(T)
    BY <2>1
  <2> QED BY <2>2
<1> HIDE DEF a
<1>5. Filtered(a, S) = <<>>
  BY <1>0, <1>2, FilteredNone
<1>6. Filtered(b, S) = b
  <2>1. Len(b) = 1 /\ b[1] = s[n]
    BY <1>0, <1>4
  <2>2. \A i \in 1 .. Len(b) : b[i] \in S
    BY <1>0, <2>1
  <2> QED BY <2>2, FilteredAll
<1>7. Filtered(a \o b, S) = Filtered(a, S) \o Filtered(b, S)
  BY <1>0, <1>2, FilteredConcat
<1>8. <<>> \o b = b
  BY ConcatEmptySeq
<1> QED BY <1>3, <1>4, <1>5, <1>6, <1>7, <1>8

-----------------------------------------------------------------------------
(* What the routines of the transmit ring do, in terms of distances.       *)

LEMMA PostedFacts ==
  ASSUME TxInv, NEW p \in Pkt, dma32_txfast(p), NEW d, d = Descs[p]
  PROVE  /\ d \in 1 .. NTXD - 1 /\ NTXDACTIVE(txin, txout) + d < NTXD
         /\ txout' \in TxSlot /\ NTXDACTIVE(txin, txout') = NTXDACTIVE(txin, txout) + d
         /\ UNCHANGED <<txin, txcurr, onwire, dmaon>>
         /\ \A i \in TxSlot : txp'[i] = IF NTXDACTIVE(txin, i) = NTXDACTIVE(txin, txout') - 1
                                        THEN p ELSE txp[i]
         /\ \A i \in TxSlot : NTXDACTIVE(txin, i) < NTXDACTIVE(txin, txout) => txd'[i] = txd[i]
         /\ \A i \in TxSlot :
              NTXDACTIVE(txin, txout) <= NTXDACTIVE(txin, i)
                /\ NTXDACTIVE(txin, i) < NTXDACTIVE(txin, txout') =>
              /\ txd'[i].pkt = p
              /\ txd'[i].buf = (NTXDACTIVE(txin, i) - NTXDACTIVE(txin, txout)) + 1
              /\ txd'[i].sof <=> (txd'[i].buf = 1 /\ ~HeadEmpty[p])
              /\ txd'[i].eof <=> txd'[i].buf = d
<1> DEFINE D(i) == NTXDACTIVE(txin, i)
           out == Plus(txout, Descs[p], NTXD)
<1>1. \A i \in TxSlot : D(i) \in 0 .. NTXD - 1
  BY TxDist DEF TxTypes, TxInv
<1>2. \A i, j \in TxSlot : D(i) = D(j) => i = j
  BY TxDist DEF TxTypes, TxInv
<1>3. txin \in TxSlot /\ txout \in TxSlot /\ txcurr \in TxSlot
  BY DEF TxInv, TxTypes
<1>4. d \in 1 .. NTXD - 1 /\ NTXD \in Nat
  BY PacketAssumption, SlotZero
<1>5. D(txout) + d < NTXD
  <2>1. d <= Wanted(p) /\ Wanted(p) \in Nat
    BY <1>4 DEF Wanted
  <2>2. Wanted(p) <= (NTXD - D(txout)) - 1
    BY <1>1, <1>3, <1>4, <2>1 DEF dma32_txfast, OutOfTxd, Avail
  <2> QED
    BY <1>1, <1>3, <1>4, <2>1, <2>2
<1>6. out \in TxSlot /\ D(out) = D(txout) + d
  BY <1>3, <1>4, <1>5, TxPlus
<1> PICK last \in TxSlot : last = PREVTXD(out)
  BY <1>6, TxPrev
<1>7. D(last) = D(out) - 1
  <2>1. D(out) # 0
    BY <1>1, <1>3, <1>4, <1>6
  <2> QED
    BY <1>3, <1>6, <2>1, TxPrev
<1>8. txout' = out /\ UNCHANGED <<txin, txcurr, onwire, dmaon>>
  BY DEF dma32_txfast
<1>9. \A i \in TxSlot : txp'[i] = IF D(i) = D(out) - 1 THEN p ELSE txp[i]
  <2>1. \A i \in TxSlot : txp'[i] = IF i = last THEN p ELSE txp[i]
    BY <1>7 DEF dma32_txfast, TxInv, TxTypes
  <2> QED BY <2>1, <1>2, <1>7
<1>10. \A i \in TxSlot :
         NTXDACTIVE(txout, i) = IF D(txout) <= D(i) THEN D(i) - D(txout)
                                ELSE (D(i) - D(txout)) + NTXD
  BY <1>3, TxShift
<1>11. \A i \in TxSlot :
         txd'[i] = LET k == NTXDACTIVE(txout, i) + 1
                   IN  IF k <= d
                       THEN [pkt |-> p, buf |-> k, sof |-> SofBuf(p, k), eof |-> (k = d)]
                       ELSE txd[i]
  BY DEF dma32_txfast, dma32_dd_upd, EofBuf
<1>12. ASSUME NEW i \in TxSlot, D(i) < D(txout) PROVE txd'[i] = txd[i]
  <2>1. ~(NTXDACTIVE(txout, i) + 1 <= d)
    BY <1>12, <1>1, <1>3, <1>4, <1>5, <1>10
  <2> QED BY <2>1, <1>11
<1>13. ASSUME NEW i \in TxSlot, D(txout) <= D(i), D(i) < D(out)
       PROVE  /\ txd'[i].pkt = p /\ txd'[i].buf = (D(i) - D(txout)) + 1
              /\ txd'[i].sof <=> (txd'[i].buf = 1 /\ ~HeadEmpty[p])
              /\ txd'[i].eof <=> txd'[i].buf = d
  <2>1. NTXDACTIVE(txout, i) = D(i) - D(txout) /\ NTXDACTIVE(txout, i) + 1 <= d
    BY <1>13, <1>1, <1>3, <1>4, <1>6, <1>10
  <2>2. PICK k : k = NTXDACTIVE(txout, i) + 1
    OBVIOUS
  <2>3. txd'[i] = [pkt |-> p, buf |-> k, sof |-> SofBuf(p, k), eof |-> (k = d)]
    BY <2>1, <2>2, <1>11, Zenon
  <2>4. txd'[i].pkt = p /\ txd'[i].buf = k /\ txd'[i].sof = SofBuf(p, k) /\ txd'[i].eof = (k = d)
    <3>1. PICK e, b : e = (k = d) /\ b = SofBuf(p, k)
      OBVIOUS
    <3>2. txd'[i] = [pkt |-> p, buf |-> k, sof |-> b, eof |-> e]
      BY <2>3, <3>1, Zenon
    <3>3. txd'[i].pkt = p /\ txd'[i].buf = k /\ txd'[i].sof = b /\ txd'[i].eof = e
      BY <3>2
    <3> QED BY <3>1, <3>3, Zenon
  <2>5. txd'[i].eof <=> txd'[i].buf = d
    BY <2>4, Zenon
  <2>6. txd'[i].sof <=> (txd'[i].buf = 1 /\ ~HeadEmpty[p])
    BY <2>4, Zenon DEF SofBuf
  <2> QED BY <2>1, <2>2, <2>4, <2>5, <2>6
<1> HIDE DEF out
<1> QED
  BY <1>4, <1>5, <1>6, <1>8, <1>9, <1>12, <1>13

(* chiptxreclaim takes descriptors behind a running engine, or none.       *)
LEMMA TakenFacts ==
  ASSUME IInv, \/ TxReclaim(TRUE, "txreclaim", "rxreclaim")
               \/ TxReclaim(FALSE, "txdone", "errors")
  PROVE  /\ UNCHANGED <<txout, txcurr, txptr, onwire, rxvars, dmaon, txq>>
         /\ \/ UNCHANGED <<txin, txp, txd>>
            \/ \E in \in TxSlot : /\ TakeTo(in)
                                  /\ NTXDACTIVE(txin, in) <= NTXDACTIVE(txin, txout)
                                  /\ dmaon => NTXDACTIVE(txin, in) <= NTXDACTIVE(txin, txcurr)
<1> PICK forceall \in BOOLEAN, here \in {"txreclaim", "txdone"},
         next \in {"rxreclaim", "errors"} :
      /\ TxReclaim(forceall, here, next)
      /\ (forceall <=> here = "txreclaim") /\ (here = "txreclaim" <=> next = "rxreclaim")
  OBVIOUS
<1> DEFINE end == TxEnd(forceall)
           D(i) == NTXDACTIVE(txin, i)
<1>1. pc = here /\ UNCHANGED netvars /\ (getnexttxp(end) \/ getnexttxp_null(end))
  BY DEF TxReclaim
<1>2. (here = "txreclaim" => ~dmaon) /\ (here = "txdone" => dmaon)
  BY <1>1 DEF IInv, Control, Engines, Returns, InReset
<1>3. /\ txin \in TxSlot /\ txout \in TxSlot /\ txcurr \in TxSlot
      /\ \A i \in TxSlot : D(i) \in 0 .. NTXD - 1
      /\ dmaon => D(txcurr) <= D(txout)
  BY TxDist DEF IInv, TxInv, TxTypes, TxEngine
<1>4. end \in TxSlot /\ D(end) <= D(txout) /\ (dmaon => D(end) <= D(txcurr))
  <2>1. CASE here = "txreclaim"
    BY <1>2, <1>3, <2>1, SlotZero DEF TxEnd
  <2>2. CASE here = "txdone"
    BY <1>2, <1>3, <2>2, SlotZero DEF TxEnd
  <2> QED
    BY <2>1, <2>2
<1>5. CASE getnexttxp(end)
  <2> DEFINE f == First(end)
  <2>1. TakeTo(NEXTTXD(f)) /\ Carrying(end) # {}
    BY <1>5 DEF getnexttxp
  <2>2. f \in TxSlot /\ D(f) < D(end)
    BY <2>1, <1>4, FirstFound DEF IInv, TxInv, Carrying, Reclaimable
  <2>3. 1 \in 0 .. NTXD - 1 /\ D(f) + 1 < NTXD
    BY <2>2, <1>3, <1>4, RingAssumption
  <2>4. NEXTTXD(f) \in TxSlot /\ D(NEXTTXD(f)) = D(f) + 1
    BY <1>3, <2>2, <2>3, TxPlus DEF NEXTTXD
  <2> HIDE DEF f
  <2>5. D(NEXTTXD(f)) <= D(txout) /\ (dmaon => D(NEXTTXD(f)) <= D(txcurr))
    BY <1>3, <1>4, <2>2, <2>4, SlotZero
  <2>6. UNCHANGED <<txout, txcurr, txptr, onwire, rxvars, dmaon>>
    BY <2>1 DEF TakeTo
  <2> QED
    BY <1>1, <2>1, <2>4, <2>5, <2>6 DEF netvars
<1>6. CASE getnexttxp_null(end)
  BY <1>1, <1>4, <1>6 DEF getnexttxp_null, netvars, TakeTo, dmavars, txvars
<1> QED
  BY <1>1, <1>5, <1>6

-----------------------------------------------------------------------------
(***************************************************************************)
(* The packets on the ring that the engine has not passed.                 *)
(***************************************************************************)
Slots == Pkt \cup {NoPkt}

TxRing == Filtered(Window(txp, txcurr, NTXDACTIVE(txcurr, txout), NTXD), Pkt)

LEMMA QueueIs == TxQueue = (IF dmaon THEN TxRing ELSE <<>>) \o txq
BY DEF TxQueue, TxRing

LEMMA PktsOf ==
  ASSUME TxTypes
  PROVE  RingOf(Slots, txp, NTXD)
BY DEF TxTypes, RingOf, Slots, TxSlot

LEMMA TxRingType ==
  ASSUME TxTypes, EtTypes
  PROVE  TxRing \in Seq(Slots) /\ txq \in Seq(Slots)
<1>1. NTXDACTIVE(txcurr, txout) \in 0 .. NTXD - 1 /\ txcurr \in 0 .. NTXD - 1 /\ NTXD \in Nat
  BY TxDist, SlotZero DEF TxTypes, TxSlot
<1>2. Window(txp, txcurr, NTXDACTIVE(txcurr, txout), NTXD) \in Seq(Slots)
  BY <1>1, PktsOf, WindowType
<1>3. TxRing \in Seq(Slots)
  BY <1>2, FilteredType DEF TxRing
<1>4. txq \in Seq(Slots)
  BY SeqMonotonic DEF EtTypes, Slots
<1> QED
  BY <1>3, <1>4

(* Measured from a running engine.                                         *)
LEMMA FromEngine ==
  ASSUME TxInv, dmaon
  PROVE  /\ NTXDACTIVE(txcurr, txout) = NTXDACTIVE(txin, txout) - NTXDACTIVE(txin, txcurr)
         /\ NTXDACTIVE(txcurr, txout) \in 0 .. NTXD - 1
         /\ \A i \in TxSlot : NTXDACTIVE(txcurr, i) < NTXDACTIVE(txcurr, txout) =>
              /\ NTXDACTIVE(txin, txcurr) <= NTXDACTIVE(txin, i)
              /\ NTXDACTIVE(txin, i) < NTXDACTIVE(txin, txout)
<1> DEFINE D(i) == NTXDACTIVE(txin, i)
<1>1. /\ txin \in TxSlot /\ txout \in TxSlot /\ txcurr \in TxSlot /\ NTXD \in Nat
      /\ \A i \in TxSlot : D(i) \in 0 .. NTXD - 1
      /\ D(txcurr) <= D(txout)
  BY TxDist, SlotZero DEF TxInv, TxTypes, TxEngine
<1>2. \A i \in TxSlot : NTXDACTIVE(txcurr, i) = IF D(txcurr) <= D(i) THEN D(i) - D(txcurr)
                                                ELSE (D(i) - D(txcurr)) + NTXD
  BY <1>1, TxShift
<1> QED
  BY <1>1, <1>2

LEMMA FetchRing ==
  ASSUME IInv, TxFetch
  PROVE  /\ dmaon /\ dmaon' /\ txcurr # txout
         /\ TxRing' \in Seq(Slots)
         /\ TxRing = Filtered(<<txp[txcurr]>>, Pkt) \o TxRing'
<1>1. /\ txin \in TxSlot /\ txout \in TxSlot /\ txcurr \in TxSlot /\ NTXD \in Nat
      /\ txp[txcurr] \in Slots /\ dmaon /\ txcurr # txout /\ TxTypes
      /\ 1 \in 0 .. NTXD - 1
  BY SlotZero, RingAssumption DEF IInv, TxInv, TxTypes, TxEngine, TxFetch, Slots
<1>2. UNCHANGED <<txp, txout, dmaon>> /\ txcurr' = Plus(txcurr, 1, NTXD)
  BY DEF TxFetch, NEXTTXD
<1> PICK from \in 0 .. NTXD - 1, mid \in 0 .. NTXD - 1, to \in 0 .. NTXD - 1, ring \in {txp} :
      from = txcurr /\ mid = txcurr' /\ to = txout /\ ring = txp
  <2>1. txcurr' \in TxSlot
    BY <1>1, <1>2, TxPlus
  <2> QED BY <1>1, <2>1 DEF TxSlot
<1> PICK m \in 0 .. NTXD - 1, n \in 0 .. NTXD - 1, l \in 0 .. NTXD - 1 :
      m = Dist(from, mid, NTXD) /\ n = Dist(mid, to, NTXD) /\ l = Dist(from, to, NTXD)
  BY <1>1, DistType
<1>3. m = 1 /\ m <= l
  BY <1>1, <1>2 DEF Dist, Plus
<1>4. RingOf(Slots, ring, NTXD)
  BY <1>1, PktsOf
<1> DEFINE a == Window(ring, from, m, NTXD)
           b == Window(ring, mid, n, NTXD)
<1>5. Window(ring, from, l, NTXD) = a \o b /\ a \in Seq(Slots) /\ b \in Seq(Slots)
  <2>1. Cut(Slots, NTXD, ring, from, mid, to, m, n, l)
    BY <1>1, <1>3, <1>4 DEF Cut
  <2> HIDE DEF a, b
  <2>2. /\ Glued(Window(ring, from, l, NTXD), Window(ring, from, m, NTXD), Window(ring, mid, n, NTXD))
        /\ Window(ring, from, m, NTXD) \in Seq(Slots) /\ Window(ring, mid, n, NTXD) \in Seq(Slots)
    BY <2>1, <1>1, WindowConcat
  <2> QED BY <2>2 DEF a, b, Glued
<1>7. a = <<txp[txcurr]>>
  <2>1. Plus(from, 1 - 1, NTXD) = from
    BY <1>1 DEF Plus
  <2> QED BY <2>1, <1>3 DEF Window
<1>8. TxRing' = Filtered(b, Pkt) /\ TxRing = Filtered(Window(ring, from, l, NTXD), Pkt)
  BY <1>2 DEF TxRing, NTXDACTIVE
<1> HIDE DEF a, b
<1>9. Filtered(a \o b, Pkt) = Filtered(a, Pkt) \o Filtered(b, Pkt)
  BY <1>5, FilteredConcat
<1>10. Filtered(b, Pkt) \in Seq(Slots)
  BY <1>5, FilteredType
<1> QED
  BY <1>1, <1>2, <1>5, <1>7, <1>8, <1>9, <1>10

LEMMA PostRing ==
  ASSUME IInv, dmaon, NEW p \in Pkt, dma32_txfast(p)
  PROVE  dmaon' /\ TxRing' = TxRing \o <<p>>
<1> DEFINE D(i) == NTXDACTIVE(txin, i)
           E(i) == NTXDACTIVE(txcurr, i)
<1>1. /\ txin \in TxSlot /\ txout \in TxSlot /\ txcurr \in TxSlot /\ NTXD \in Nat
      /\ TxInv /\ TxTypes
      /\ \A i \in TxSlot : D(i) \in 0 .. NTXD - 1
  BY SlotZero, TxDist DEF IInv, TxInv, TxTypes
<1> PICK d : d = Descs[p]
  OBVIOUS
<1>2. /\ d \in 1 .. NTXD - 1 /\ D(txout) + d < NTXD
      /\ txout' \in TxSlot /\ D(txout') = D(txout) + d
      /\ UNCHANGED <<txin, txcurr, onwire, dmaon>>
      /\ \A i \in TxSlot : txp'[i] = IF D(i) = D(txout') - 1 THEN p ELSE txp[i]
  BY <1>1, PostedFacts
<1>3. /\ E(txout) = D(txout) - D(txcurr) /\ E(txout) \in 0 .. NTXD - 1
      /\ \A i \in TxSlot : E(i) < E(txout) => D(txcurr) <= D(i) /\ D(i) < D(txout)
      /\ D(txcurr) <= D(txout)
  BY <1>1, FromEngine DEF TxInv, TxEngine
<1> PICK from \in 0 .. NTXD - 1, mid \in 0 .. NTXD - 1, to \in 0 .. NTXD - 1,
         ring \in {txp'}, old \in {txp} :
      from = txcurr /\ mid = txout /\ to = txout' /\ ring = txp' /\ old = txp
  BY <1>1, <1>2 DEF TxSlot
<1> PICK m \in 0 .. NTXD - 1, n \in 0 .. NTXD - 1, l \in 0 .. NTXD - 1 :
      m = Dist(from, mid, NTXD) /\ n = Dist(mid, to, NTXD) /\ l = Dist(from, to, NTXD)
  BY <1>1, DistType
<1>4. m <= l /\ n = d /\ m = E(txout)
  <2>1. E(txout') = IF D(txcurr) <= D(txout') THEN D(txout') - D(txcurr)
                    ELSE (D(txout') - D(txcurr)) + NTXD
    BY <1>1, <1>2, TxShift
  <2>2. NTXDACTIVE(txout, txout') = IF D(txout) <= D(txout') THEN D(txout') - D(txout)
                    ELSE (D(txout') - D(txout)) + NTXD
    BY <1>1, <1>2, TxShift
  <2>3. E(txout) <= E(txout') /\ NTXDACTIVE(txout, txout') = d
    BY <2>1, <2>2, <1>1, <1>2, <1>3
  <2> QED BY <2>3, <1>3 DEF NTXDACTIVE
<1>5. RingOf(Slots, ring, NTXD)
  <2>1. RingOf(Slots, txp, NTXD)
    BY <1>1, PktsOf
  <2> QED BY <2>1, <1>2 DEF RingOf, TxSlot, Slots
<1> DEFINE a == Window(ring, from, m, NTXD)
           b == Window(ring, mid, n, NTXD)
<1>6. Window(ring, from, l, NTXD) = a \o b /\ a \in Seq(Slots) /\ b \in Seq(Slots)
  <2>1. Cut(Slots, NTXD, ring, from, mid, to, m, n, l)
    BY <1>1, <1>4, <1>5 DEF Cut
  <2> HIDE DEF a, b
  <2>2. /\ Glued(Window(ring, from, l, NTXD), Window(ring, from, m, NTXD), Window(ring, mid, n, NTXD))
        /\ Window(ring, from, m, NTXD) \in Seq(Slots) /\ Window(ring, mid, n, NTXD) \in Seq(Slots)
    BY <2>1, <1>1, WindowConcat
  <2> QED BY <2>2 DEF a, b, Glued
<1>7. b \in Seq(Slots) /\ Len(b) = n
  BY <1>1, <1>5, WindowType
<1>8. a = Window(old, from, m, NTXD)
  <2>1. Agree(ring, old, from, m, NTXD)
    <3> SUFFICES ASSUME NEW i \in TxSlot, E(i) < E(txout) PROVE txp'[i] = txp[i]
      BY <1>4 DEF TxSlot, NTXDACTIVE, Agree
    <3>1. D(i) < D(txout) /\ D(i) # D(txout') - 1
      BY <1>1, <1>2, <1>3, <1>4
    <3> QED BY <3>1, <1>2
  <2> QED BY <2>1, <1>1, <1>4, WindowSame
<1>9. Filtered(b, Pkt) = <<p>>
  <2>1. ASSUME NEW k \in 1 .. d PROVE b[k] = IF k = d THEN p ELSE NoPkt
    <3> PICK j \in TxSlot : j = Plus(txout, k - 1, NTXD) /\ NTXDACTIVE(txout, j) = k - 1
      <4>1. k \in 1 .. NTXD - 1
        BY <1>1, <1>2
      <4>2. Plus(mid, k - 1, NTXD) \in 0 .. NTXD - 1 /\ Dist(mid, Plus(mid, k - 1, NTXD), NTXD) = k - 1
        BY <1>1, <4>1, WindowPlace
      <4> QED BY <4>2 DEF TxSlot, NTXDACTIVE
    <3>1. b[k] = txp'[j]
      BY <1>4 DEF Window
    <3>2. D(j) = D(txout) + (k - 1)
      <4>1. NTXDACTIVE(txout, j) = IF D(txout) <= D(j) THEN D(j) - D(txout)
                                   ELSE (D(j) - D(txout)) + NTXD
        BY <1>1, TxShift
      <4> QED BY <4>1, <1>1, <1>2
    <3>3. k = d <=> D(j) = D(txout') - 1
      BY <3>2, <1>1, <1>2
    <3>4. txp[j] = NoPkt
      <4>1. ~(D(j) < D(txout))
        BY <3>2, <1>1, <1>2
      <4> QED BY <4>1, <1>1 DEF TxInv, TxRingSound, TxActive
    <3> QED BY <3>1, <3>3, <3>4, <1>2
  <2> HIDE DEF b
  <2>2. \A k \in 1 .. d - 1 : b[k] \notin Pkt
    BY <2>1, <1>2, PacketAssumption
  <2>3. b[d] = p /\ d \in Nat \ {0}
    BY <2>1, <1>2
  <2>4. EndsIn(Slots, b, Pkt, d)
    BY <2>2, <2>3, <1>4, <1>6, <1>7 DEF EndsIn
  <2> QED BY <2>3, <2>4, FilteredLast
<1>10. /\ TxRing' = Filtered(Window(ring, from, l, NTXD), Pkt)
       /\ TxRing = Filtered(Window(old, from, m, NTXD), Pkt)
  BY <1>2 DEF TxRing, NTXDACTIVE
<1> HIDE DEF a, b
<1>11. Filtered(a \o b, Pkt) = Filtered(a, Pkt) \o Filtered(b, Pkt)
  BY <1>6, FilteredConcat
<1> QED
  BY <1>2, <1>6, <1>8, <1>9, <1>10, <1>11

LEMMA TakeRing ==
  ASSUME IInv, NEW in \in TxSlot, TakeTo(in), dmaon,
         NTXDACTIVE(txin, in) <= NTXDACTIVE(txin, txcurr)
  PROVE  TxRing' = TxRing
<1> DEFINE D(i) == NTXDACTIVE(txin, i)
<1> PICK n : n = NTXDACTIVE(txcurr, txout)
  OBVIOUS
<1>1. /\ txin \in TxSlot /\ txout \in TxSlot /\ txcurr \in TxSlot /\ NTXD \in Nat /\ TxInv
      /\ \A i \in TxSlot : D(i) \in 0 .. NTXD - 1
      /\ n \in 0 .. NTXD - 1
      /\ \A i \in TxSlot : NTXDACTIVE(txcurr, i) < n => D(txcurr) <= D(i)
  BY SlotZero, TxDist, FromEngine DEF IInv, TxInv, TxTypes
<1>2. /\ UNCHANGED <<txcurr, txout>>
      /\ \A i \in TxSlot : txp'[i] = IF D(i) < D(in) THEN NoPkt ELSE txp[i]
  BY DEF TakeTo
<1> PICK from \in 0 .. NTXD - 1, ring \in {txp'}, old \in {txp} : from = txcurr /\ ring = txp' /\ old = txp
  BY <1>1 DEF TxSlot
<1>3. Agree(ring, old, from, n, NTXD)
  <2> SUFFICES ASSUME NEW i \in TxSlot, NTXDACTIVE(txcurr, i) < n PROVE txp'[i] = txp[i]
    BY DEF TxSlot, NTXDACTIVE, Agree
  <2>1. ~(D(i) < D(in))
    BY <1>1
  <2> QED BY <2>1, <1>2
<1>4. Window(ring, from, n, NTXD) = Window(old, from, n, NTXD)
  BY <1>1, <1>3, WindowSame
<1> QED
  BY <1>2, <1>4 DEF TxRing

-----------------------------------------------------------------------------
(***************************************************************************)
(* Every step of Et is a step of LossyFifo, or leaves the queue alone.     *)
(***************************************************************************)
FifoStep == TxFifo!Next \/ TxQueue' = TxQueue

(* What is on the ring, nothing when the engine is off.                    *)
OnRing == IF dmaon THEN TxRing ELSE <<>>

LEMMA OnRingType ==
  ASSUME IInv
  PROVE  OnRing \in Seq(Slots) /\ txq \in Seq(Slots) /\ TxQueue = OnRing \o txq
<1>1. TxRing \in Seq(Slots) /\ txq \in Seq(Slots)
  BY TxRingType DEF IInv, TxInv, Control
<1>2. OnRing \in Seq(Slots)
  BY <1>1 DEF OnRing
<1> QED
  BY <1>1, <1>2, QueueIs DEF OnRing

LEMMA Leaves ==
  ASSUME NEW T, NEW a, NEW b, NEW c, Without(T, a, b, c, TxQueue, TxQueue')
  PROVE  FifoStep
<1>1. PICK q, r : q = TxQueue /\ r = TxQueue'
  OBVIOUS
<1>2. Without(T, a, b, c, q, r)
  BY <1>1
<1>3. Loses(q, r)
  BY <1>2, LosesMiddle
<1>4. \E gone \in SUBSET (1 .. Len(TxQueue)) :
        TxQueue' = Selected(TxQueue, (1 .. Len(TxQueue)) \ gone)
  BY <1>1, <1>3 DEF Loses
<1>5. ASSUME NEW gone
      PROVE  TxFifo!Kept(gone) = Selected(TxQueue, (1 .. Len(TxQueue)) \ gone)
  BY DEF TxFifo!Kept, TxFifo!Selected, Selected
<1>6. TxFifo!Leave
  BY <1>4, <1>5 DEF TxFifo!Leave
<1> QED
  BY <1>6 DEF FifoStep, TxFifo!Next

LEMMA StartFifo ==
  ASSUME IInv, NEW p \in Pkt, et_start(p)
  PROVE  FifoStep
<1>1. UNCHANGED <<txvars, dmaon>> /\ txq' = Append(txq, p)
  BY DEF et_start
<1>2. OnRing' = OnRing
  BY <1>1 DEF OnRing, TxRing, txvars
<1>3. /\ OnRing \in Seq(Slots) /\ txq \in Seq(Slots) /\ TxQueue = OnRing \o txq
      /\ TxQueue' = OnRing' \o txq' /\ p \in Slots
  <2>1. TxQueue' = OnRing' \o txq'
    BY DEF TxQueue, OnRing, TxRing
  <2>2. p \in Slots
    BY DEF Slots
  <2> QED BY <2>1, <2>2, OnRingType
<1>4. OnRing \o Append(txq, p) = Append(OnRing \o txq, p)
  BY <1>3, AppendToConcat
<1>5. TxFifo!Accept(p)
  BY <1>1, <1>2, <1>3, <1>4 DEF TxFifo!Accept
<1> QED
  BY <1>5 DEF FifoStep, TxFifo!Next

LEMMA QueueNext == TxQueue' = OnRing' \o txq'
BY DEF TxQueue, OnRing, TxRing

LEMMA RingAlone ==
  ASSUME UNCHANGED <<txp, txcurr, txout, dmaon>>
  PROVE  OnRing' = OnRing
BY DEF OnRing, TxRing

LEMMA EmptySlots == <<>> \in Seq(Slots)
BY EmptySeq

(* chipreset, and chiptx without descriptors; et_down flushes txq.         *)
LEMMA ResetFifo ==
  ASSUME IInv, ChipReset
  PROVE  FifoStep
<1>1. ~dmaon' /\ txq' = txq
  BY DEF ChipReset, dma_reset, netvars
<1>2. PICK r \in Seq(Slots), q \in Seq(Slots), e \in Seq(Slots) :
        r = OnRing /\ q = txq /\ e = <<>> /\ TxQueue = r \o q
  BY OnRingType, EmptySlots
<1>3. TxQueue' = e \o q
  BY <1>1, <1>2, QueueNext DEF OnRing
<1>4. e \o (r \o q) = r \o q
  <2>1. PICK w \in Seq(Slots) : w = r \o q
    BY ConcatProperties
  <2> QED BY <2>1, <1>2, ConcatEmptySeq
<1>5. Without(Slots, e, r, q, TxQueue, TxQueue')
  BY <1>2, <1>3, <1>4 DEF Without
<1> QED
  BY <1>5, Leaves

LEMMA FlushFifo ==
  ASSUME IInv, FlushTxq
  PROVE  FifoStep
<1>1. UNCHANGED <<txp, txcurr, txout, dmaon>> /\ txq' = <<>>
  BY DEF FlushTxq, txvars
<1>2. PICK r \in Seq(Slots), q \in Seq(Slots), e \in Seq(Slots) :
        r = OnRing /\ q = txq /\ e = <<>> /\ TxQueue = r \o q
  BY OnRingType, EmptySlots
<1>3. TxQueue' = r \o e
  BY <1>1, <1>2, RingAlone, QueueNext
<1>4. q \o e = q
  BY <1>2, ConcatEmptySeq
<1>5. Without(Slots, r, q, e, TxQueue, TxQueue')
  BY <1>2, <1>3, <1>4 DEF Without
<1> QED
  BY <1>5, Leaves

LEMMA SendFifo ==
  ASSUME IInv, et_sendnext
  PROVE  FifoStep
<1>1. /\ txq # <<>> /\ txq' = Tail(txq)
      /\ dma32_txfast(Head(txq)) \/ outoftxd(Head(txq))
  BY DEF et_sendnext
<1>2. PICK r \in Seq(Slots), q \in Seq(Slots) : r = OnRing /\ q = txq /\ TxQueue = r \o q
  BY OnRingType
<1>3. PICK p \in Pkt : p = Head(txq)
  BY <1>1, HeadAndTail DEF IInv, Control, EtTypes
<1>4. PICK h \in Seq(Slots), t \in Seq(Slots) : h = <<p>> /\ t = txq' /\ q = h \o t
  <2>1. <<Head(q)>> \in Seq(Slots) /\ Tail(q) \in Seq(Slots) /\ q = <<Head(q)>> \o Tail(q)
    BY <1>1, <1>2, HeadAndTail
  <2> QED BY <2>1, <1>1, <1>2, <1>3
<1>5. CASE OnRing' = OnRing
  <2>1. TxQueue' = r \o t
    BY <1>2, <1>4, <1>5, QueueNext
  <2>2. Without(Slots, r, h, t, TxQueue, TxQueue')
    BY <1>2, <1>4, <2>1 DEF Without
  <2> QED BY <2>2, Leaves
<1>6. CASE dmaon /\ dma32_txfast(p)
  <2>1. dmaon' /\ TxRing' = TxRing \o <<p>>
    BY <1>6, PostRing
  <2>2. TxQueue' = (r \o h) \o t
    BY <1>2, <1>4, <1>6, <2>1, QueueNext DEF OnRing
  <2>3. (r \o h) \o t = r \o (h \o t)
    BY ConcatAssociative
  <2>4. TxQueue' = TxQueue
    BY <1>2, <1>4, <2>2, <2>3
  <2> QED BY <2>4 DEF FifoStep
<1>7. OnRing' = OnRing \/ (dmaon /\ dma32_txfast(p))
  <2>1. CASE outoftxd(p)
    <3>1. UNCHANGED <<txp, txcurr, txout, dmaon>>
      BY <2>1 DEF outoftxd
    <3> QED BY <3>1, RingAlone
  <2>2. CASE ~dmaon /\ dma32_txfast(p)
    BY <2>2 DEF dma32_txfast, OnRing
  <2> QED BY <2>1, <2>2, <1>1, <1>3
<1> QED
  BY <1>5, <1>6, <1>7

(* The engine passes a descriptor, which may be the last of a packet.      *)
LEMMA FetchFifo ==
  ASSUME IInv, ChipTx
  PROVE  FifoStep
<1>1. TxFetch /\ txq' = txq
  BY DEF ChipTx, netvars
<1>2. /\ dmaon /\ dmaon' /\ TxRing' \in Seq(Slots)
      /\ TxRing = Filtered(<<txp[txcurr]>>, Pkt) \o TxRing'
  BY <1>1, FetchRing
<1>3. PICK q \in Seq(Slots), e \in Seq(Slots) : q = txq /\ e = <<>>
  BY OnRingType, EmptySlots
<1>4. PICK f \in Seq(Slots) : f = Filtered(<<txp[txcurr]>>, Pkt)
  <2>1. txp[txcurr] \in Slots
    BY DEF IInv, TxInv, TxTypes, Slots
  <2>2. <<txp[txcurr]>> \in Seq(Slots)
    BY <2>1
  <2> QED BY <2>2, FilteredType
<1>5. PICK r \in Seq(Slots) : r = TxRing'
  BY <1>2
<1>6. PICK w \in Seq(Slots) : w = r \o q
  BY ConcatProperties
<1>7. TxQueue = (f \o r) \o q /\ TxQueue' = w
  BY <1>1, <1>2, <1>3, <1>4, <1>5, <1>6, QueueNext, OnRingType DEF OnRing
<1>8. (f \o r) \o q = f \o w
  BY <1>6, ConcatAssociative
<1>9. PICK fw \in Seq(Slots) : fw = f \o w
  BY ConcatProperties
<1>10. e \o fw = fw /\ e \o w = w
  BY <1>3, ConcatEmptySeq
<1>11. Without(Slots, e, f, w, TxQueue, TxQueue')
  BY <1>7, <1>8, <1>9, <1>10 DEF Without
<1> QED
  BY <1>11, Leaves

(* The steps that touch the transmit ring or txq.                          *)
TxEvent ==
  \/ ChipReset \/ TxReclaim(TRUE, "txreclaim", "rxreclaim") \/ TxReclaim(FALSE, "txdone", "errors")
  \/ ChipInit \/ ChipInitDone \/ et_sendnext \/ FlushTxq
  \/ (\E p \in Pkt : et_start(p)) \/ ChipTx

LEMMA OtherTx ==
  ASSUME [Next]_vars, ~TxEvent
  PROVE  UNCHANGED <<txvars, dmaon, txq>>
<1>1. CASE RxReclaim \/ et_reset_done \/ et_sendnext_done
  BY <1>1 DEF RxReclaim, et_reset_done, et_sendnext_done, netvars, dmavars
<1>2. CASE DpcRx
  BY <1>2 DEF DpcRx, _dma_rx, _dma_rx_skip, _dma_rx_null, netvars
<1>3. CASE DpcRxFill
  BY <1>3 DEF DpcRxFill, _dma_rxfill, netvars
<1>4. CASE DpcNoRx \/ DpcTx \/ DpcErrors \/ DpcSend \/ DpcClear \/ DpcEnd
           \/ DpcIntrsOn
  BY <1>4 DEF DpcNoRx, DpcTx, DpcErrors, DpcSend, DpcClear, DpcEnd, DpcIntrsOn, netvars, dmavars
<1>5. CASE netif_start_queue \/ ET_FLAG_DOWN \/ et_isr \/ et_dpc \/ tasklet_kill
  BY <1>5 DEF netif_start_queue, ET_FLAG_DOWN, et_isr, et_dpc, tasklet_kill, netvars, dmavars
<1>6. CASE et_up \/ et_down \/ Reinit
  BY <1>6 DEF et_up, et_down, Reinit, netvars, dmavars
<1>7. CASE (\E f \in Frame : ChipRx(f)) \/ (\E e \in Errors : ChipError(e))
  BY <1>7 DEF ChipRx, ChipError, RxStore, netvars, dmavars
<1>8. CASE UNCHANGED vars
  BY <1>8 DEF vars, netvars, dmavars
<1> QED
  BY <1>1, <1>2, <1>3, <1>4, <1>5, <1>6, <1>7, <1>8 DEF Next, Step, TxEvent

LEMMA ReclaimFifo ==
  ASSUME IInv, \/ TxReclaim(TRUE, "txreclaim", "rxreclaim")
               \/ TxReclaim(FALSE, "txdone", "errors")
  PROVE  FifoStep
<1>1. UNCHANGED <<txout, txcurr, dmaon, txq>>
  BY TakenFacts
<1>2. CASE UNCHANGED txp \/ ~dmaon
  <2>1. OnRing' = OnRing
    BY <1>1, <1>2 DEF OnRing, TxRing
  <2> QED BY <1>1, <2>1, QueueNext, OnRingType DEF FifoStep
<1>3. CASE dmaon /\ ~UNCHANGED txp
  <2>1. PICK in \in TxSlot : TakeTo(in) /\ NTXDACTIVE(txin, in) <= NTXDACTIVE(txin, txcurr)
    BY <1>3, TakenFacts
  <2>2. TxRing' = TxRing
    BY <1>3, <2>1, TakeRing
  <2> QED BY <1>1, <1>3, <2>2, QueueNext, OnRingType DEF FifoStep, OnRing
<1> QED
  BY <1>2, <1>3

LEMMA InitFifo ==
  ASSUME IInv, ChipInit \/ ChipInitDone
  PROVE  FifoStep
<1>1. ~dmaon /\ txq' = txq
  BY DEF IInv, Control, Engines, InReset, ChipInit, ChipInitDone, netvars
<1>2. OnRing' = <<>>
  <2>1. CASE ChipInit
    BY <1>1, <2>1 DEF ChipInit, dma_init, OnRing
  <2>2. CASE ChipInitDone
    <3>1. UNCHANGED txvars /\ txcurr = 0 /\ txout = 0
      BY <2>2 DEF ChipInitDone, _dma_rxfill, IInv, Control, Engines, InReset
    <3>2. PICK w : w = Window(txp', txcurr', NTXDACTIVE(txcurr', txout'), NTXD)
      OBVIOUS
    <3>3. w = <<>>
      <4>1. NTXDACTIVE(0, 0) = 0
        BY SlotZero, TxDist
      <4> QED BY <3>1, <3>2, <4>1 DEF Window, txvars
    <3>4. Filtered(w, Pkt) = <<>>
      <4>1. w \in Seq(Slots) /\ \A i \in 1 .. Len(w) : w[i] \notin Pkt
        BY <3>3, EmptySlots
      <4> QED BY <4>1, FilteredNone
    <3> QED BY <3>2, <3>4 DEF OnRing, TxRing
  <2> QED BY <2>1, <2>2
<1>3. OnRing = <<>>
  BY <1>1 DEF OnRing
<1> QED
  BY <1>1, <1>2, <1>3, QueueNext, OnRingType DEF FifoStep

LEMMA FifoNext == IInv /\ [Next]_vars => FifoStep
<1> SUFFICES ASSUME IInv, [Next]_vars PROVE FifoStep
  OBVIOUS
<1>1. CASE ~TxEvent
  <2>1. UNCHANGED <<txp, txcurr, txout, dmaon, txq>>
    BY <1>1, OtherTx DEF txvars
  <2> QED BY <2>1, RingAlone, QueueNext, OnRingType DEF FifoStep
<1>2. CASE TxEvent
  BY <1>2, ResetFifo, ReclaimFifo, InitFifo, SendFifo, FlushFifo, StartFifo, FetchFifo
  DEF TxEvent
<1> QED
  BY <1>1, <1>2

LEMMA FifoInit == Init => TxFifo!Init
<1> SUFFICES ASSUME Init PROVE TxQueue = <<>>
  BY DEF TxFifo!Init
<1>1. OnRing = <<>> /\ txq = <<>>
  BY DEF Init, OnRing
<1>2. <<>> \o <<>> = <<>>
  BY EmptySlots, ConcatEmptySeq
<1> QED
  BY <1>1, <1>2, QueueIs DEF OnRing

\* The driver implements LossyFifo: packets wait in the order in which the stack
\* handed them over, from et_start through txq and the ring to the wire; a failed
\* dma32_txfast, a reset or et_down may lose some, none overtakes another.
THEOREM OrderKept == Spec => TransmitsInOrder
<1>1. IInv /\ [Next]_vars => [TxFifo!Next]_TxQueue
  BY FifoNext DEF FifoStep
<1> QED
  BY InitHolds, NextKeeps, FifoInit, <1>1, PTL DEF Spec, TransmitsInOrder, TxFifo!Spec

-----------------------------------------------------------------------------
(***************************************************************************)
(* WireInv is inductive.                                                   *)
(***************************************************************************)
LEMMA TxNext ==
  ASSUME NEW a \in TxSlot, NEW i \in TxSlot, NEW o \in TxSlot,
         NTXDACTIVE(a, i) < NTXDACTIVE(a, o)
  PROVE  NEXTTXD(i) \in TxSlot /\ NTXDACTIVE(a, NEXTTXD(i)) = NTXDACTIVE(a, i) + 1
<1>1. /\ NTXDACTIVE(a, i) \in 0 .. NTXD - 1 /\ NTXDACTIVE(a, o) \in 0 .. NTXD - 1
      /\ 1 \in 0 .. NTXD - 1 /\ NTXD \in Nat
  BY TxDist, RingAssumption
<1>2. NEXTTXD(i) \in TxSlot /\
      NTXDACTIVE(a, NEXTTXD(i)) = IF NTXDACTIVE(a, i) + 1 < NTXD THEN NTXDACTIVE(a, i) + 1
                                  ELSE (NTXDACTIVE(a, i) + 1) - NTXD
  BY <1>1, TxPlus DEF NEXTTXD
<1> QED
  BY <1>1, <1>2

(* The descriptor the engine is at, and the one after an active one.       *)
LEMMA CurrActive ==
  ASSUME IInv, dmaon, txcurr # txout
  PROVE  txcurr \in TxSlot /\ TxActive(txcurr)
<1>1. /\ txin \in TxSlot /\ txcurr \in TxSlot /\ txout \in TxSlot
      /\ NTXDACTIVE(txin, txcurr) <= NTXDACTIVE(txin, txout)
  BY DEF IInv, TxInv, TxTypes, TxEngine
<1>2. /\ NTXDACTIVE(txin, txcurr) # NTXDACTIVE(txin, txout)
      /\ NTXDACTIVE(txin, txcurr) \in 0 .. NTXD - 1 /\ NTXDACTIVE(txin, txout) \in 0 .. NTXD - 1
  BY <1>1, TxDist
<1> QED
  BY <1>1, <1>2, SlotZero DEF TxActive

LEMMA NextActive ==
  ASSUME IInv, NEW i \in TxSlot, TxActive(i), NEXTTXD(i) # txout
  PROVE  NEXTTXD(i) \in TxSlot /\ TxActive(NEXTTXD(i))
<1>1. txin \in TxSlot /\ txout \in TxSlot /\ NTXD \in Nat
  BY SlotZero DEF IInv, TxInv, TxTypes
<1>2. /\ NTXDACTIVE(txin, i) \in 0 .. NTXD - 1 /\ NTXDACTIVE(txin, txout) \in 0 .. NTXD - 1
      /\ NTXDACTIVE(txin, i) < NTXDACTIVE(txin, txout)
  BY <1>1, TxDist DEF TxActive
<1>3. NEXTTXD(i) \in TxSlot /\ NTXDACTIVE(txin, NEXTTXD(i)) = NTXDACTIVE(txin, i) + 1
  BY <1>1, <1>2, TxNext
<1>4. NTXDACTIVE(txin, NEXTTXD(i)) # NTXDACTIVE(txin, txout)
  BY <1>1, <1>3, TxDist
<1> QED
  BY <1>1, <1>2, <1>3, <1>4 DEF TxActive

LEMMA WireFrame ==
  ASSUME WireInv, UNCHANGED <<txin, txout, txp, txd, txcurr, onwire, dmaon>>
  PROVE  WireInv'
BY DEF WireInv, Descriptors, Fetching, Whole, Continues, TxActive, Described, Followed

LEMMA WireReset ==
  ASSUME WireInv, ChipReset
  PROVE  WireInv'
<1>1. ~dmaon' /\ onwire' = NoDesc /\ UNCHANGED <<txin, txout, txp, txd>>
  BY DEF ChipReset, dma_reset
<1> QED
  BY <1>1 DEF WireInv, Descriptors, Fetching, Whole, Continues, TxActive, Described, Followed

LEMMA WireStart ==
  ASSUME IInv, WireInv, ChipInit \/ ChipInitDone
  PROVE  WireInv'
<1>1. ~dmaon
  BY DEF IInv, Control, Engines, InReset, ChipInit, ChipInitDone
<1>2. onwire = NoDesc /\ onwire' = NoDesc
  BY <1>1 DEF WireInv, Descriptors, Fetching, ChipInit, ChipInitDone, dma_init, _dma_rxfill, txvars
<1>3. txin' = txout' /\ txin' \in TxSlot /\ (~dmaon' \/ txcurr' = txout')
  <2>1. CASE ChipInit
    BY <1>1, <2>1, SlotZero DEF ChipInit, dma_init
  <2>2. CASE ChipInitDone
    BY <2>2, SlotZero DEF ChipInitDone, _dma_rxfill, txvars, IInv, Control, Engines, InReset
  <2> QED BY <2>1, <2>2
<1>4. Descriptors'
  <2>1. ASSUME NEW i \in TxSlot PROVE ~TxActive(i)'
    <3>1. PICK t \in TxSlot : t = txin'
      BY <1>3
    <3>2. NTXDACTIVE(t, i) \in 0 .. NTXD - 1 /\ NTXDACTIVE(t, t) = 0
      BY TxDist
    <3>3. ~(NTXDACTIVE(t, i) < NTXDACTIVE(t, t))
      BY <3>2, SlotZero
    <3> QED BY <3>1, <3>3, <1>3 DEF TxActive
  <2> QED BY <2>1 DEF Descriptors
<1> QED
  BY <1>2, <1>3, <1>4 DEF WireInv, Descriptors, Fetching

LEMMA WireTake ==
  ASSUME IInv, WireInv, \/ TxReclaim(TRUE, "txreclaim", "rxreclaim")
                        \/ TxReclaim(FALSE, "txdone", "errors")
  PROVE  WireInv'
<1> DEFINE D(i) == NTXDACTIVE(txin, i)
<1>1. UNCHANGED <<txout, txcurr, onwire, dmaon>>
  BY TakenFacts
<1>2. CASE UNCHANGED <<txin, txp, txd>>
  BY <1>1, <1>2, WireFrame
<1>3. CASE ~UNCHANGED <<txin, txp, txd>>
  <2>1. PICK in \in TxSlot : /\ TakeTo(in) /\ D(in) <= D(txout)
                             /\ dmaon => D(in) <= D(txcurr)
    BY <1>3, TakenFacts
  <2>2. /\ txin' = in
        /\ \A i \in TxSlot : D(i) >= D(in) => txd'[i] = txd[i] /\ txp'[i] = txp[i]
    <3>1. /\ txin' = in
          /\ \A i \in TxSlot : /\ txd'[i] = IF D(i) < D(in) THEN NoDesc ELSE txd[i]
                               /\ txp'[i] = IF D(i) < D(in) THEN NoPkt ELSE txp[i]
      BY <2>1 DEF TakeTo
    <3>2. \A i \in TxSlot : D(i) \in Int /\ D(in) \in Int
      BY TxDist DEF IInv, TxInv, TxTypes
    <3> QED BY <3>1, <3>2
  <2>3. /\ txin \in TxSlot /\ txout \in TxSlot /\ txcurr \in TxSlot /\ NTXD \in Nat
        /\ \A i \in TxSlot : D(i) \in 0 .. NTXD - 1
        /\ dmaon => D(txcurr) <= D(txout)
    BY TxDist, SlotZero DEF IInv, TxInv, TxTypes, TxEngine
  <2>4. ASSUME NEW i \in TxSlot, TxActive(i)' PROVE Described(i)' /\ Followed(i)'
    <3>1. D(i) < D(txout) /\ D(i) >= D(in)
      <4>1. NTXDACTIVE(in, i) < NTXDACTIVE(in, txout)
        BY <2>2, <2>4, <1>1 DEF TxActive
      <4>2. /\ NTXDACTIVE(in, i) = IF D(in) <= D(i) THEN D(i) - D(in) ELSE (D(i) - D(in)) + NTXD
            /\ NTXDACTIVE(in, txout) = IF D(in) <= D(txout) THEN D(txout) - D(in)
                                       ELSE (D(txout) - D(in)) + NTXD
        BY <2>3, TxShift
      <4> QED BY <4>1, <4>2, <2>1, <2>3
    <3>2. Described(i) /\ Followed(i)
      BY <3>1 DEF WireInv, Descriptors, TxActive
    <3>3. NEXTTXD(i) \in TxSlot /\ D(NEXTTXD(i)) = D(i) + 1
      BY <2>3, <3>1, TxNext
    <3>4. D(NEXTTXD(i)) >= D(in)
      BY <2>3, <3>1, <3>3
    <3> PICK j \in TxSlot : j = NEXTTXD(i)
      BY <3>3
    <3>5. txd'[i] = txd[i] /\ txp'[i] = txp[i] /\ txd'[j] = txd[j]
      BY <2>2, <3>1, <3>4
    <3> QED BY <3>2, <3>5, <1>1 DEF Described, Followed
  <2>5. Fetching'
    <3>1. dmaon /\ txcurr # txout => txd'[txcurr] = txd[txcurr]
      BY <2>1, <2>2, <2>3
    <3> QED BY <3>1, <1>1 DEF WireInv, Descriptors, Fetching, Whole, Continues
  <2> QED BY <2>4, <2>5 DEF WireInv, Descriptors
<1> QED
  BY <1>2, <1>3

(* What a chain that ran out of descriptors leaves behind changes nothing. *)
LEMMA WireBehind ==
  ASSUME IInv, WireInv, UNCHANGED <<txin, txout, txp, txcurr, onwire, dmaon>>,
         \A i \in TxSlot : TxActive(i) => txd'[i] = txd[i]
  PROVE  WireInv'
<1>1. ASSUME NEW i \in TxSlot, TxActive(i) PROVE Described(i)' /\ Followed(i)'
  <2>1. Described(i) /\ Followed(i) /\ txd'[i] = txd[i]
    BY <1>1 DEF WireInv, Descriptors
  <2>2. NEXTTXD(i) # txout => NEXTTXD(i) \in TxSlot /\ TxActive(NEXTTXD(i))
    BY <1>1, NextActive
  <2>3. NEXTTXD(i) # txout => txd'[NEXTTXD(i)] = txd[NEXTTXD(i)]
    BY <2>2
  <2> QED BY <2>1, <2>3 DEF Described, Followed
<1>2. Descriptors'
  BY <1>1 DEF Descriptors, TxActive
<1>3. Fetching'
  <2>1. dmaon /\ txcurr # txout => txd'[txcurr] = txd[txcurr]
    BY CurrActive
  <2> QED BY <2>1 DEF WireInv, Fetching, Whole, Continues
<1> QED
  BY <1>2, <1>3 DEF WireInv

LEMMA WireFetch ==
  ASSUME IInv, WireInv, ChipTx
  PROVE  WireInv'
<1>1. /\ dmaon /\ txcurr # txout /\ txcurr \in TxSlot /\ TxActive(txcurr)
      /\ UNCHANGED <<txin, txout, txp, txd, dmaon>> /\ txcurr' = NEXTTXD(txcurr)
  <2>1. dmaon /\ txcurr # txptr /\ UNCHANGED <<txin, txout, txp, txd, dmaon>>
        /\ txcurr' = NEXTTXD(txcurr)
    BY DEF ChipTx, TxFetch
  <2>2. txcurr # txout
    BY <2>1 DEF IInv, TxInv, TxEngine
  <2> QED BY <2>1, <2>2, CurrActive
<1>2. Described(txcurr) /\ Followed(txcurr) /\ Whole
  BY <1>1 DEF WireInv, Descriptors, Fetching
<1>3. Descriptors'
  BY <1>1 DEF WireInv, Descriptors, TxActive, Described, Followed
<1>4. txcurr' # txout => Described(txcurr')
  <2>1. txcurr' # txout => txcurr' \in TxSlot /\ TxActive(txcurr')
    BY <1>1, NextActive
  <2> QED BY <2>1 DEF WireInv, Descriptors
<1>5. Fetching'
  <2>1. CASE txd[txcurr].eof
    <3>1. onwire' = NoDesc
      BY <2>1 DEF ChipTx, TxFetch
    <3>2. txcurr' # txout => txd[txcurr'].buf = 1
      BY <1>1, <1>2, <2>1 DEF Followed
    <3>3. txcurr' # txout => txd[txcurr'].sof \/ HeadEmpty[txd[txcurr'].pkt]
      BY <1>4, <3>2 DEF Described
    <3> QED BY <1>1, <3>1, <3>2, <3>3 DEF Fetching, Whole, Continues
  <2>2. CASE ~txd[txcurr].eof
    <3>1. txcurr' # txout
      BY <1>1, <1>2, <2>2 DEF Followed
    <3>2. txd[txcurr'].pkt = txd[txcurr].pkt /\ txd[txcurr'].buf = txd[txcurr].buf + 1
      BY <1>1, <1>2, <2>2, <3>1 DEF Followed
    <3>3. CASE HeadEmpty[txd[txcurr].pkt]
      BY <1>1, <3>1, <3>2, <3>3 DEF Fetching, Whole
    <3>4. CASE Continues
      <4>1. onwire' = txd[txcurr] /\ onwire'.pkt \in Pkt
        BY <1>2, <2>2, <3>4 DEF ChipTx, TxFetch, Described
      <4>2. onwire' # NoDesc
        BY <4>1, PacketAssumption DEF NoDesc
      <4>3. ~txd[txcurr'].sof
        <5>1. txd[txcurr'].buf # 1
          BY <1>2, <3>2, PacketAssumption DEF Described
        <5> QED BY <1>4, <3>1, <5>1 DEF Described
      <4> QED BY <1>1, <3>1, <3>2, <4>1, <4>2, <4>3 DEF Fetching, Whole, Continues
    <3> QED BY <1>2, <3>3, <3>4 DEF Whole
  <2> QED BY <2>1, <2>2
<1> QED
  BY <1>3, <1>5 DEF WireInv

LEMMA WirePost ==
  ASSUME IInv, WireInv, NEW p \in Pkt, dma32_txfast(p)
  PROVE  WireInv'
<1> DEFINE D(i) == NTXDACTIVE(txin, i)
<1> PICK d : d = Descs[p]
  OBVIOUS
<1>1. /\ txin \in TxSlot /\ txout \in TxSlot /\ txcurr \in TxSlot /\ NTXD \in Nat
      /\ \A i \in TxSlot : D(i) \in 0 .. NTXD - 1
      /\ \A i, j \in TxSlot : D(i) = D(j) => i = j
      /\ \A i \in TxSlot : txp[i] # NoPkt => D(i) < D(txout)
      /\ dmaon => D(txcurr) <= D(txout)
  BY SlotZero, TxDist DEF IInv, TxInv, TxTypes, TxEngine, TxRingSound, TxActive
<1>2. /\ d \in 1 .. NTXD - 1 /\ D(txout) + d < NTXD
      /\ txout' \in TxSlot /\ D(txout') = D(txout) + d
      /\ UNCHANGED <<txin, txcurr, onwire, dmaon>>
      /\ \A i \in TxSlot : txp'[i] = IF D(i) = D(txout') - 1 THEN p ELSE txp[i]
      /\ \A i \in TxSlot : D(i) < D(txout) => txd'[i] = txd[i]
  BY PostedFacts DEF IInv
<1>3. ASSUME NEW i \in TxSlot, D(txout) <= D(i), D(i) < D(txout')
      PROVE  /\ txd'[i].pkt = p /\ txd'[i].buf = (D(i) - D(txout)) + 1
             /\ txd'[i].sof <=> (txd'[i].buf = 1 /\ ~HeadEmpty[p])
             /\ txd'[i].eof <=> txd'[i].buf = d
  BY <1>3, PostedFacts DEF IInv
<1>4. ASSUME NEW i \in TxSlot, D(i) < D(txout) PROVE Described(i)' /\ Followed(i)'
  <2>1. Described(i) /\ Followed(i)
    BY <1>4 DEF WireInv, Descriptors, TxActive
  <2>2. txd'[i] = txd[i] /\ txp'[i] = txp[i]
    <3>1. D(i) # D(txout') - 1
      BY <1>1, <1>2, <1>4
    <3> QED BY <3>1, <1>2, <1>4
  <2>3. NEXTTXD(i) \in TxSlot /\ D(NEXTTXD(i)) = D(i) + 1
    BY <1>1, <1>4, TxNext
  <2> PICK j \in TxSlot : j = NEXTTXD(i)
    BY <2>3
  <2>4. j # txout'
    BY <1>1, <1>2, <1>4, <2>3
  <2>5. CASE j = txout
    <3>1. txd'[j].buf = 1
      BY <1>1, <1>2, <1>3, <2>5
    <3> QED BY <2>1, <2>2, <2>4, <2>5, <3>1 DEF Described, Followed
  <2>6. CASE j # txout
    <3>1. D(j) < D(txout)
      BY <1>1, <1>4, <2>3, <2>6
    <3>2. txd'[j] = txd[j]
      BY <3>1, <1>2
    <3> QED BY <2>1, <2>2, <2>4, <2>6, <3>2 DEF Described, Followed
  <2> QED BY <2>5, <2>6
<1>5. ASSUME NEW i \in TxSlot, D(txout) <= D(i), D(i) < D(txout')
      PROVE  Described(i)' /\ Followed(i)'
  <2>1. /\ txd'[i].pkt = p /\ txd'[i].buf = (D(i) - D(txout)) + 1
        /\ txd'[i].sof <=> (txd'[i].buf = 1 /\ ~HeadEmpty[p])
        /\ txd'[i].eof <=> txd'[i].buf = d
    BY <1>3, <1>5
  <2>2. txd'[i].buf \in 1 .. d /\ (txd'[i].buf = d <=> D(i) = D(txout') - 1)
    BY <2>1, <1>1, <1>2, <1>5
  <2>3. txp'[i] = IF txd'[i].eof THEN txd'[i].pkt ELSE NoPkt
    <3>1. txp[i] = NoPkt
      BY <1>1, <1>5
    <3> QED BY <2>1, <2>2, <3>1, <1>2
  <2>4. NEXTTXD(i) \in TxSlot /\ D(NEXTTXD(i)) = D(i) + 1
    BY <1>1, <1>2, <1>5, TxNext
  <2> PICK j \in TxSlot : j = NEXTTXD(i)
    BY <2>4
  <2>5. Described(i)'
    BY <2>1, <2>2, <2>3 DEF Described
  <2>6. CASE j = txout'
    <3>1. txd'[i].eof
      BY <2>1, <2>2, <2>4, <2>6, <1>1, <1>2
    <3> QED BY <2>5, <2>6, <3>1 DEF Followed
  <2>7. CASE j # txout'
    <3>1. D(txout) <= D(j) /\ D(j) < D(txout')
      BY <1>1, <1>2, <1>5, <2>4, <2>7
    <3>2. txd'[j].pkt = p /\ txd'[j].buf = (D(j) - D(txout)) + 1
      BY <3>1, <1>3
    <3>3. ~txd'[i].eof
      BY <2>1, <2>2, <2>4, <3>1, <1>1, <1>2
    <3>4. txd'[j].pkt = txd'[i].pkt /\ txd'[j].buf = txd'[i].buf + 1
      BY <2>1, <2>4, <3>2, <1>1
    <3> QED BY <2>5, <2>7, <3>3, <3>4 DEF Followed
  <2> QED BY <2>6, <2>7
<1>6. Descriptors'
  <2>1. ASSUME NEW i \in TxSlot, TxActive(i)' PROVE D(i) < D(txout')
    BY <2>1, <1>2 DEF TxActive
  <2>2. ASSUME NEW i \in TxSlot PROVE D(i) < D(txout) \/ D(txout) <= D(i)
    BY <1>1
  <2> QED BY <2>1, <2>2, <1>4, <1>5 DEF Descriptors
<1>7. Fetching'
  <2>1. CASE ~dmaon
    BY <2>1, <1>2 DEF WireInv, Descriptors, Fetching
  <2>2. CASE dmaon /\ txcurr = txout
    <3>1. /\ txd'[txcurr].buf = 1 /\ txcurr # txout'
          /\ txd'[txcurr].sof \/ HeadEmpty[txd'[txcurr].pkt]
      BY <2>2, <1>1, <1>2, <1>3
    <3>2. onwire = NoDesc
      BY <2>2 DEF WireInv, Descriptors, Fetching
    <3> QED BY <2>2, <3>1, <3>2, <1>2 DEF Fetching, Whole, Continues
  <2>3. CASE dmaon /\ txcurr # txout
    <3>1. D(txcurr) < D(txout)
      BY <2>3, <1>1
    <3>2. txd'[txcurr] = txd[txcurr] /\ txcurr # txout'
      BY <3>1, <1>1, <1>2
    <3>3. Whole
      BY <2>3 DEF WireInv, Descriptors, Fetching
    <3> QED BY <2>3, <3>2, <3>3, <1>2 DEF Fetching, Whole, Continues
  <2> QED BY <2>1, <2>2, <2>3
<1> QED
  BY <1>6, <1>7 DEF WireInv, Descriptors

LEMMA WireNext == IInv /\ WireInv /\ [Next]_vars => WireInv'
<1> SUFFICES ASSUME IInv, WireInv, [Next]_vars PROVE WireInv'
  OBVIOUS
<1>1. CASE ~TxEvent \/ FlushTxq \/ \E p \in Pkt : et_start(p)
  <2>1. UNCHANGED <<txvars, dmaon>>
    BY <1>1, OtherTx DEF FlushTxq, et_start
  <2> QED BY <2>1, WireFrame DEF txvars
<1>2. CASE et_sendnext
  <2>1. PICK p \in Pkt : dma32_txfast(p) \/ outoftxd(p)
    <3>1. txq # <<>> /\ txq \in Seq(Pkt) /\ (dma32_txfast(Head(txq)) \/ outoftxd(Head(txq)))
      BY <1>2 DEF et_sendnext, IInv, Control, EtTypes
    <3> QED BY <3>1, HeadAndTail
  <2>2. CASE outoftxd(p)
    <3>1. UNCHANGED <<txin, txout, txp, txcurr, onwire, dmaon>> /\ HalfWritten(p)
      BY <2>2 DEF outoftxd
    <3>2. \A i \in TxSlot : TxActive(i) => txd'[i] = txd[i]
      BY <3>1, HalfWrittenBehind DEF IInv
    <3> QED BY <3>1, <3>2, WireBehind
  <2> QED BY <2>1, <2>2, WirePost
<1> QED
  BY <1>1, <1>2, WireReset, WireTake, WireStart, WireFetch DEF TxEvent

LEMMA WireInit == Init => WireInv
<1> SUFFICES ASSUME Init PROVE WireInv
  OBVIOUS
<1>1. /\ txin = 0 /\ txout = 0 /\ txcurr = 0 /\ onwire = NoDesc
      /\ NTXDACTIVE(0, 0) = 0 /\ \A i \in TxSlot : NTXDACTIVE(0, i) \in 0 .. NTXD - 1
  BY SlotZero, TxDist DEF Init
<1>2. \A i \in TxSlot : ~TxActive(i)
  BY <1>1, SlotZero DEF TxActive
<1> QED
  BY <1>1, <1>2 DEF WireInv, Descriptors, Fetching

(* The step that sends a frame.                                            *)
LEMMA SendsOldest ==
  ASSUME IInv, WireInv, ChipTx, Sends
  PROVE  /\ Whole
         /\ txd[txcurr].buf = Descs[txd[txcurr].pkt]
         /\ TxQueue # <<>> /\ txd[txcurr].pkt = Head(TxQueue)
         /\ TxQueue' = Tail(TxQueue)
<1>1. TxFetch /\ txq' = txq
  BY DEF ChipTx, netvars
<1>2. /\ dmaon /\ dmaon' /\ txcurr # txout /\ TxRing' \in Seq(Slots)
      /\ TxRing = Filtered(<<txp[txcurr]>>, Pkt) \o TxRing'
  BY <1>1, FetchRing
<1>3. Described(txcurr)
  <2>1. txcurr \in TxSlot /\ TxActive(txcurr)
    BY <1>2, CurrActive
  <2> QED BY <2>1 DEF WireInv, Descriptors
<1>4. PICK p \in Pkt : p = txd[txcurr].pkt /\ txp[txcurr] = p /\ txd[txcurr].buf = Descs[p]
  BY <1>3 DEF Described, Sends
<1>5. Whole
  BY <1>2 DEF WireInv, Descriptors, Fetching
<1>6. p \in Slots /\ Filtered(<<p>>, Pkt) = <<p>>
  <2>1. p \in Slots
    BY DEF Slots
  <2> QED BY <2>1, FilteredOne
<1>7. PICK h \in Seq(Slots), r \in Seq(Slots), q \in Seq(Slots) : h = <<p>> /\ r = TxRing' /\ q = txq
  <2>1. <<p>> \in Seq(Slots)
    BY <1>6
  <2> QED BY <2>1, <1>2, OnRingType
<1>8. PICK t \in Seq(Slots) : t = r \o q
  BY ConcatProperties
<1>9. TxQueue = (h \o r) \o q /\ TxQueue' = t
  BY <1>1, <1>2, <1>4, <1>6, <1>7, <1>8, QueueNext, OnRingType DEF OnRing
<1>10. (h \o r) \o q = h \o t
  BY <1>8, ConcatAssociative
<1>11. PICK s : s = TxQueue /\ s = <<p>> \o t
  BY <1>7, <1>9, <1>10
<1>12. s # <<>> /\ Head(s) = p /\ Tail(s) = t
  BY <1>6, <1>11, ConsHead
<1> QED
  BY <1>4, <1>5, <1>9, <1>11, <1>12

\* What the engine sends is the oldest packet that waits, with all its buffers in
\* order and none of another packet, whatever chains that ran out of descriptors
\* have left beyond txout; it is one frame from flag to flag, unless the chain
\* began with an empty buffer.  Only a reset of the chip moves the engine
\* otherwise.
THEOREM WireOrder == Spec => WireGetsOldest
<1> DEFINE A == txcurr' # txcurr /\ Sends =>
                  \/ /\ Continues \/ HeadEmpty[txd[txcurr].pkt]
                     /\ txd[txcurr].buf = Descs[txd[txcurr].pkt]
                     /\ TxQueue # <<>> /\ txd[txcurr].pkt = Head(TxQueue)
                     /\ TxQueue' = Tail(TxQueue)
                  \/ pc = "reset"
<1>1. ASSUME IInv, WireInv, [Next]_vars PROVE A
  <2> SUFFICES ASSUME txcurr' # txcurr, Sends, pc # "reset" PROVE A
    OBVIOUS
  <2>1. ChipTx
    <3>1. CASE ~TxEvent \/ FlushTxq \/ \E p \in Pkt : et_start(p)
      BY <1>1, <3>1, OtherTx DEF FlushTxq, et_start, txvars
    <3>2. CASE et_sendnext
      BY <3>2 DEF et_sendnext, dma32_txfast, outoftxd
    <3>3. CASE ChipInit \/ ChipInitDone
      BY <3>3 DEF ChipInit, ChipInitDone, dma_init, _dma_rxfill, txvars
    <3>4. CASE TxReclaim(TRUE, "txreclaim", "rxreclaim") \/ TxReclaim(FALSE, "txdone", "errors")
      BY <1>1, <3>4, TakenFacts
    <3> QED BY <3>1, <3>2, <3>3, <3>4 DEF TxEvent, ChipReset
  <2> QED BY <1>1, <2>1, SendsOldest DEF Whole
<1>2. IInv /\ WireInv /\ [Next]_vars => [A]_vars
  BY <1>1
<1> HIDE DEF A
<1>3. Spec => []IInv
  BY InitHolds, NextKeeps, PTL DEF Spec
<1>4. Spec => []WireInv
  BY <1>3, WireInit, WireNext, PTL DEF Spec
<1>5. Spec => [][A]_vars
  BY <1>2, <1>3, <1>4, PTL DEF Spec
<1> QED
  BY <1>5 DEF A, WireGetsOldest

-----------------------------------------------------------------------------
(***************************************************************************)
(* Receive.  While _dma_rx is in the middle of a giant frame the event it  *)
(* works on stays reported, so that it is not left there: a status bit is  *)
(* forgotten only after the loop, or by a reset.                           *)
(***************************************************************************)
RxOver ==
  \/ pc \in {"reset", "txreclaim", "rxreclaim", "rxfill", "tx", "txdone", "errors", "sendq", "clear"}
  \/ pc = "send" /\ ret = "clear"

RxLoop ==
  /\ "RX" \in events => RxOver \/ "RI" \in chstatus
  /\ pc # "rx" => skiplen = 0
  /\ pc = "rx" /\ skiplen = 1 => "RX" \in events

LEMMA ConvertRx == ASSUME NEW st PROVE "RX" \in Convert(st) <=> "RI" \in st
BY DEF Convert

LEMMA LoopFrame ==
  ASSUME RxLoop, UNCHANGED <<pc, ret, events, chstatus, skiplen>>
  PROVE  RxLoop'
BY DEF RxLoop, RxOver

LEMMA LoopIsr ==
  ASSUME IInv, RxLoop, et_isr
  PROVE  RxLoop'
<1>1. /\ events' = Convert(chstatus \cup intstatus) \cup (IF intstatus = {} THEN {} ELSE {"NEW"})
      /\ chstatus' = chstatus \cup intstatus /\ UNCHANGED <<pc, ret, skiplen>>
  BY DEF et_isr, chipgetintrevents, dmavars, rxvars, lockvars
<1>2. "RX" \in events' <=> "RI" \in chstatus'
  BY <1>1, ConvertRx
<1>3. pc = "rx" /\ skiplen = 1 => "RI" \in chstatus'
  BY <1>1 DEF RxLoop, RxOver
<1> QED
  BY <1>1, <1>2, <1>3 DEF RxLoop

LEMMA LoopDpc ==
  ASSUME IInv, RxLoop, et_dpc
  PROVE  RxLoop'
<1>1. pc = "free" /\ skiplen = 0 /\ skiplen' = 0 /\ ~RxOver
  BY DEF et_dpc, RxLoop, dmavars, rxvars, RxOver
<1>2. CASE UNCHANGED <<events, chstatus>>
  BY <1>1, <1>2 DEF RxLoop
<1>3. CASE chipgetintrevents(intstatus)
  <2>1. "RX" \in events' <=> "RI" \in chstatus'
    BY <1>3, ConvertRx DEF chipgetintrevents
  <2> QED BY <1>1, <2>1 DEF RxLoop
<1> QED
  BY <1>2, <1>3 DEF et_dpc

LEMMA LoopRx ==
  ASSUME IInv, RxLoop, DpcRx
  PROVE  RxLoop'
<1>1. pc = "rx" /\ "RX" \in events /\ events' = events /\ "RI" \in chstatus
  BY DEF DpcRx, RxLoop, RxOver
<1>2. CASE _dma_rx_skip /\ UNCHANGED <<lockvars, chstatus>>
  BY <1>1, <1>2 DEF RxLoop, lockvars
<1>3. CASE _dma_rx /\ UNCHANGED chstatus
  BY <1>1, <1>3 DEF RxLoop, _dma_rx
<1>4. CASE _dma_rx_null /\ pc' = "rxfill"
  BY <1>1, <1>4 DEF RxLoop, _dma_rx_null, RxOver
<1> QED
  BY <1>2, <1>3, <1>4 DEF DpcRx, Goto

LEMMA LoopMove ==
  ASSUME IInv, RxLoop,
         \/ DpcNoRx \/ DpcRxFill \/ DpcTx \/ DpcErrors \/ DpcSend \/ DpcClear \/ DpcEnd
         \/ DpcIntrsOn \/ et_sendnext_done
  PROVE  RxLoop'
<1>1. skiplen' = skiplen
  BY DEF DpcNoRx, DpcRxFill, _dma_rxfill, DpcTx, DpcErrors, DpcSend, DpcClear, DpcEnd, DpcIntrsOn,
     et_sendnext_done, dmavars, rxvars
<1>2. pc' # "rx" /\ skiplen = 0
  <2>1. CASE DpcNoRx
    BY <2>1 DEF DpcNoRx, Goto, RxLoop, IInv, RxInv, RxTypes
  <2>2. CASE ~DpcNoRx
    BY <2>2 DEF RxLoop, DpcRxFill, DpcTx, DpcErrors, DpcSend, DpcClear, DpcEnd, DpcIntrsOn,
       et_sendnext_done, Goto, et_init, IInv, Control, Returns
  <2> QED BY <2>1, <2>2
<1>3. "RX" \in events' => RxOver' \/ "RI" \in chstatus'
  <2>1. CASE DpcNoRx \/ DpcRxFill \/ DpcTx \/ DpcErrors \/ DpcSend
    BY <2>1 DEF DpcNoRx, DpcRxFill, DpcTx, DpcErrors, DpcSend, Goto, et_init, RxOver, intrvars
  <2>2. CASE DpcClear
    BY <2>2 DEF DpcClear
  <2>3. CASE DpcEnd \/ DpcIntrsOn
    BY <2>3 DEF DpcEnd, DpcIntrsOn, RxLoop, RxOver
  <2>4. CASE et_sendnext_done
    BY <2>4 DEF et_sendnext_done, Goto, RxLoop, RxOver, intrvars, IInv, Control, Returns
  <2> QED BY <2>1, <2>2, <2>3, <2>4
<1> QED
  BY <1>1, <1>2, <1>3 DEF RxLoop

LEMMA LoopReset ==
  ASSUME IInv, RxLoop,
         \/ ChipReset \/ TxReclaim(TRUE, "txreclaim", "rxreclaim")
         \/ TxReclaim(FALSE, "txdone", "errors") \/ RxReclaim \/ et_reset_done
         \/ ChipInit \/ ChipInitDone
  PROVE  RxLoop'
<1>1. skiplen' = skiplen
  <2>1. CASE TxReclaim(TRUE, "txreclaim", "rxreclaim") \/ TxReclaim(FALSE, "txdone", "errors")
    BY <2>1, TakenFacts DEF rxvars
  <2>2. CASE ChipReset \/ RxReclaim \/ et_reset_done \/ ChipInit \/ ChipInitDone
    BY <2>2 DEF ChipReset, dma_reset, RxReclaim, et_reset_done, ChipInit, ChipInitDone,
       dma_init, _dma_rxfill, dmavars, rxvars
  <2> QED BY <2>1, <2>2
<1>2. pc # "rx" /\ pc' # "rx"
  BY DEF ChipReset, TxReclaim, RxReclaim, et_reset_done, ChipInit, ChipInitDone, Goto, lockvars,
     IInv, Control, Returns, InReset
<1>3. "RX" \in events' => RxOver' \/ "RI" \in chstatus'
  <2>1. CASE ChipReset \/ RxReclaim
    BY <2>1 DEF ChipReset, RxReclaim, Goto, RxOver, lockvars
  <2>2. CASE TxReclaim(TRUE, "txreclaim", "rxreclaim") \/ TxReclaim(FALSE, "txdone", "errors")
    BY <2>2 DEF TxReclaim, Goto, RxOver, lockvars
  <2>3. CASE et_reset_done
    BY <2>3 DEF et_reset_done
  <2>4. CASE ChipInit \/ ChipInitDone
    BY <2>4 DEF ChipInit, ChipInitDone, RxLoop, RxOver, intrvars
  <2> QED BY <2>1, <2>2, <2>3, <2>4
<1> QED
  BY <1>1, <1>2, <1>3 DEF RxLoop

LEMMA LoopOther ==
  ASSUME IInv, RxLoop,
         \/ et_sendnext \/ netif_start_queue \/ ET_FLAG_DOWN \/ FlushTxq \/ tasklet_kill
         \/ (\E p \in Pkt : et_start(p)) \/ et_up \/ et_down \/ Reinit
         \/ ChipTx \/ (\E f \in Frame : ChipRx(f)) \/ (\E e \in Errors : ChipError(e))
         \/ UNCHANGED vars
  PROVE  RxLoop'
<1>1. UNCHANGED <<events, chstatus, skiplen>>
  BY DEF et_sendnext, dma32_txfast, outoftxd, netif_start_queue, ET_FLAG_DOWN, FlushTxq,
     tasklet_kill, et_start, et_up, et_down, Reinit, ChipTx, TxFetch, ChipRx, RxStore, ChipError,
     Raise, vars, dmavars, rxvars, intrvars
<1>2. CASE UNCHANGED <<pc, ret>>
  BY <1>1, <1>2, LoopFrame
<1>3. CASE \/ netif_start_queue \/ ET_FLAG_DOWN \/ FlushTxq
           \/ (\E p \in Pkt : et_start(p)) \/ et_up \/ et_down \/ Reinit
  <2>1. pc \in {"startq", "down", "flush", "free"} /\ pc' # "rx"
    BY <1>3 DEF netif_start_queue, ET_FLAG_DOWN, FlushTxq, et_start, et_up, et_down, Reinit,
       Request, Goto, et_init
  <2>2. "RX" \in events => "RI" \in chstatus
    BY <2>1 DEF RxLoop, RxOver
  <2>3. skiplen = 0
    BY <2>1 DEF RxLoop
  <2> QED BY <1>1, <2>1, <2>2, <2>3 DEF RxLoop
<1> QED
  BY <1>2, <1>3 DEF et_sendnext, tasklet_kill, ChipTx, ChipRx, ChipError, vars, lockvars

LEMMA LoopNext == IInv /\ RxLoop /\ [Next]_vars => RxLoop'
<1> SUFFICES ASSUME IInv, RxLoop, [Next]_vars PROVE RxLoop'
  OBVIOUS
<1>1. CASE Step
  BY <1>1, LoopRx, LoopMove, LoopReset, LoopOther DEF Step
<1>2. CASE Next /\ ~Step
  BY <1>2, LoopIsr, LoopDpc, LoopOther DEF Next
<1> QED
  BY <1>1, <1>2, LoopOther

LEMMA LoopInit == Init => RxLoop
BY DEF Init, RxLoop

-----------------------------------------------------------------------------
(***************************************************************************)
(* RxData is inductive.  Distances are from rxin.                          *)
(***************************************************************************)
LEMMA RxNext ==
  ASSUME NEW a \in RxSlot, NEW i \in RxSlot, NEW o \in RxSlot,
         NRXDACTIVE(a, i) < NRXDACTIVE(a, o)
  PROVE  NEXTRXD(i) \in RxSlot /\ NRXDACTIVE(a, NEXTRXD(i)) = NRXDACTIVE(a, i) + 1
<1>1. /\ NRXDACTIVE(a, i) \in 0 .. NRXD - 1 /\ NRXDACTIVE(a, o) \in 0 .. NRXD - 1
      /\ 1 \in 0 .. NRXD - 1 /\ NRXD \in Nat
  BY RxDist, RingAssumption
<1>2. NEXTRXD(i) \in RxSlot /\
      NRXDACTIVE(a, NEXTRXD(i)) = IF NRXDACTIVE(a, i) + 1 < NRXD THEN NRXDACTIVE(a, i) + 1
                                  ELSE (NRXDACTIVE(a, i) + 1) - NRXD
  BY <1>1, RxPlus DEF NEXTRXD
<1> QED
  BY <1>1, <1>2

LEMMA RxFacts ==
  ASSUME IInv
  PROVE  /\ rxin \in RxSlot /\ rxout \in RxSlot /\ rxcurr \in RxSlot /\ NRXD \in Nat
         /\ \A i \in RxSlot : NRXDACTIVE(rxin, i) \in 0 .. NRXD - 1
         /\ \A i, j \in RxSlot : NRXDACTIVE(rxin, i) = NRXDACTIVE(rxin, j) => i = j
         /\ NRXDACTIVE(rxin, rxin) = 0
         /\ dmaon => rxptr = rxout /\ NRXDACTIVE(rxin, rxcurr) <= NRXDACTIVE(rxin, rxout)
         /\ rxbuf \in [RxSlot -> Data]
BY SlotZero, RxDist DEF IInv, RxInv, RxTypes, RxRingSound

LEMMA DataFrame ==
  ASSUME RxData, UNCHANGED <<rxin, rxcurr, rxbuf, skiplen, dmaon>>
  PROVE  RxData'
BY DEF RxData, RxStored, RxPlace, Arrived, Stored

(* chiprxfill writes behind the engine.                                    *)
LEMMA DataFill ==
  ASSUME IInv, RxData, NEW m, _dma_rxfill(m), UNCHANGED dmaon
  PROVE  RxData'
<1> DEFINE R(i) == NRXDACTIVE(rxin, i)
<1> SUFFICES ASSUME dmaon PROVE RxStored' /\ RxPlace'
  BY DEF RxData
<1>1. /\ rxin \in RxSlot /\ rxout \in RxSlot /\ rxcurr \in RxSlot /\ NRXD \in Nat
      /\ \A i \in RxSlot : R(i) \in 0 .. NRXD - 1
      /\ \A i, j \in RxSlot : R(i) = R(j) => i = j
      /\ R(rxin) = 0 /\ R(rxcurr) <= R(rxout)
  BY RxFacts
<1>2. /\ UNCHANGED <<rxin, rxcurr, skiplen>> /\ m \in 0 .. Lacking
      /\ \A i \in RxSlot : rxbuf'[i] = IF NRXDACTIVE(rxout, i) < m THEN NoData ELSE rxbuf[i]
  BY DEF _dma_rxfill
<1>3. m \in Nat /\ m + R(rxout) <= NRXD - 1
  BY <1>1, <1>2, RingAssumption DEF Lacking
<1>4. ASSUME NEW i \in RxSlot, R(i) < R(rxcurr) PROVE rxbuf'[i] = rxbuf[i]
  <2>1. NRXDACTIVE(rxout, i) = IF R(rxout) <= R(i) THEN R(i) - R(rxout) ELSE (R(i) - R(rxout)) + NRXD
    BY <1>1, RxShift
  <2>2. ~(NRXDACTIVE(rxout, i) < m)
    BY <1>1, <1>3, <1>4, <2>1
  <2> QED BY <2>2, <1>2
<1>5. RxStored'
  <2> SUFFICES ASSUME NEW i \in RxSlot, R(i) < R(rxcurr) PROVE Stored(i)'
    BY <1>2 DEF RxStored, Arrived
  <2>1. Stored(i)
    BY DEF RxData, RxStored, Arrived
  <2>2. NEXTRXD(i) \in RxSlot /\ R(NEXTRXD(i)) = R(i) + 1
    BY <1>1, RxNext
  <2> PICK j \in RxSlot : j = NEXTRXD(i)
    BY <2>2
  <2>3. j # rxcurr => rxbuf'[j] = rxbuf[j]
    BY <1>1, <1>4, <2>2
  <2> QED BY <1>2, <1>4, <2>1, <2>3 DEF Stored
<1>6. RxPlace'
  <2>1. rxin # rxcurr => rxbuf'[rxin] = rxbuf[rxin]
    BY <1>1, <1>4
  <2> QED BY <1>2, <2>1 DEF RxData, RxPlace
<1> QED
  BY <1>5, <1>6

(* A frame is stored behind those that have arrived.                       *)
LEMMA DataStore ==
  ASSUME IInv, RxData, NEW f \in Frame, RxStore(f)
  PROVE  RxData'
<1> DEFINE R(i) == NRXDACTIVE(rxin, i)
           s == Span(f)
<1>0. dmaon /\ s \in 1 .. 2 /\ (s = 2 <=> f \in Giant)
  BY DEF RxStore, Span
<1>1. /\ rxin \in RxSlot /\ rxout \in RxSlot /\ rxcurr \in RxSlot /\ NRXD \in Nat
      /\ \A i \in RxSlot : R(i) \in 0 .. NRXD - 1
      /\ \A i, j \in RxSlot : R(i) = R(j) => i = j
      /\ R(rxin) = 0 /\ R(rxcurr) <= R(rxout) /\ rxptr = rxout
  BY <1>0, RxFacts
<1>2. /\ UNCHANGED <<rxin, skiplen, dmaon>> /\ s <= NRXDACTIVE(rxcurr, rxptr)
      /\ rxcurr' = Plus(rxcurr, s, NRXD)
      /\ \A i \in RxSlot : rxbuf'[i] = IF NRXDACTIVE(rxcurr, i) < s
                                       THEN [frame |-> f, part |-> NRXDACTIVE(rxcurr, i) + 1]
                                       ELSE rxbuf[i]
  BY DEF RxStore, Room
<1> HIDE DEF s
<1>3. \A i \in RxSlot : NRXDACTIVE(rxcurr, i) = IF R(rxcurr) <= R(i) THEN R(i) - R(rxcurr)
                                                ELSE (R(i) - R(rxcurr)) + NRXD
  BY <1>1, RxShift
<1>4. R(rxcurr) + s <= R(rxout)
  BY <1>0, <1>1, <1>2, <1>3
<1>5. rxcurr' \in RxSlot /\ R(rxcurr') = R(rxcurr) + s
  <2>1. s \in 0 .. NRXD - 1
    BY <1>0, <1>1, <1>4
  <2>2. /\ Plus(rxcurr, s, NRXD) \in RxSlot
        /\ R(Plus(rxcurr, s, NRXD)) = IF R(rxcurr) + s < NRXD THEN R(rxcurr) + s
                                      ELSE (R(rxcurr) + s) - NRXD
    BY <1>1, <2>1, RxPlus
  <2> QED BY <1>0, <1>1, <1>2, <1>4, <2>2
<1>6. ASSUME NEW i \in RxSlot, R(i) < R(rxcurr) PROVE rxbuf'[i] = rxbuf[i]
  <2>1. ~(NRXDACTIVE(rxcurr, i) < s)
    BY <1>0, <1>1, <1>3, <1>4, <1>6
  <2> QED BY <2>1, <1>2
<1>7. ASSUME NEW i \in RxSlot, R(rxcurr) <= R(i), R(i) < R(rxcurr')
      PROVE  rxbuf'[i].frame = f /\ rxbuf'[i].part = (R(i) - R(rxcurr)) + 1
  <2>1. NRXDACTIVE(rxcurr, i) = R(i) - R(rxcurr) /\ NRXDACTIVE(rxcurr, i) < s
    BY <1>0, <1>1, <1>3, <1>5, <1>7
  <2>2. rxbuf'[i] = [frame |-> f, part |-> NRXDACTIVE(rxcurr, i) + 1]
    BY <2>1, <1>2
  <2>3. rxbuf'[i].frame = f /\ rxbuf'[i].part = NRXDACTIVE(rxcurr, i) + 1
    BY <2>2
  <2> QED BY <2>1, <2>3
<1>8. ASSUME NEW i \in RxSlot, R(i) < R(rxcurr) PROVE Stored(i)'
  <2>1. Stored(i)
    BY <1>0, <1>8 DEF RxData, RxStored, Arrived
  <2>2. NEXTRXD(i) \in RxSlot /\ R(NEXTRXD(i)) = R(i) + 1
    BY <1>1, <1>8, RxNext
  <2> PICK j \in RxSlot : j = NEXTRXD(i)
    BY <2>2
  <2>3. j # rxcurr'
    BY <1>0, <1>1, <1>5, <1>8, <2>2
  <2>4. rxbuf'[i] = rxbuf[i]
    BY <1>6, <1>8
  <2>5. CASE j = rxcurr
    <3>1. rxbuf'[j].part = 1
      BY <1>0, <1>1, <1>5, <1>7, <2>5
    <3> QED BY <2>1, <2>3, <2>4, <2>5, <3>1 DEF Stored
  <2>6. CASE j # rxcurr
    <3>1. rxbuf'[j] = rxbuf[j]
      BY <1>1, <1>6, <1>8, <2>2, <2>6
    <3> QED BY <2>1, <2>3, <2>4, <2>6, <3>1 DEF Stored
  <2> QED BY <2>5, <2>6
<1>9. ASSUME NEW i \in RxSlot, R(rxcurr) <= R(i), R(i) < R(rxcurr') PROVE Stored(i)'
  <2>1. rxbuf'[i].frame = f /\ rxbuf'[i].part = (R(i) - R(rxcurr)) + 1
    BY <1>7, <1>9
  <2>2. rxbuf'[i].part \in 1 .. 2
    BY <2>1, <1>0, <1>1, <1>5, <1>9
  <2>3. NEXTRXD(i) \in RxSlot /\ R(NEXTRXD(i)) = R(i) + 1
    BY <1>1, <1>5, <1>9, RxNext
  <2> PICK j \in RxSlot : j = NEXTRXD(i)
    BY <2>3
  <2>4. CASE rxbuf'[i].part = 1 /\ f \in Giant
    <3>1. R(rxcurr) <= R(j) /\ R(j) < R(rxcurr')
      BY <2>1, <2>3, <2>4, <1>0, <1>1, <1>5, <1>9
    <3>2. rxbuf'[j].part = 2 /\ j # rxcurr'
      BY <3>1, <1>7, <2>1, <2>3, <2>4, <1>1, <1>9
    <3> QED BY <2>1, <2>2, <2>4, <3>2 DEF Stored
  <2>5. CASE ~(rxbuf'[i].part = 1 /\ f \in Giant)
    <3>1. j = rxcurr'
      <4>1. R(j) = R(rxcurr')
        BY <2>1, <2>2, <2>3, <2>5, <1>0, <1>1, <1>5, <1>9
      <4> QED BY <4>1, <1>1, <1>5
    <3> QED BY <2>1, <2>2, <2>5, <3>1 DEF Stored
  <2> QED BY <2>4, <2>5
<1>10. RxStored'
  <2>1. ASSUME NEW i \in RxSlot, Arrived(i)' PROVE R(i) < R(rxcurr')
    BY <2>1, <1>2 DEF Arrived
  <2>2. ASSUME NEW i \in RxSlot PROVE R(i) < R(rxcurr) \/ R(rxcurr) <= R(i)
    BY <1>1
  <2> QED BY <2>1, <2>2, <1>8, <1>9 DEF RxStored
<1>11. RxPlace'
  <2>0. rxin # rxcurr'
    BY <1>0, <1>1, <1>5
  <2>1. CASE rxin = rxcurr
    <3>1. rxbuf'[rxin].part = 1
      BY <2>1, <1>0, <1>1, <1>5, <1>7
    <3> QED BY <2>0, <2>1, <3>1, <1>0, <1>2 DEF RxData, RxPlace
  <2>2. CASE rxin # rxcurr
    <3>1. rxbuf'[rxin] = rxbuf[rxin]
      BY <2>2, <1>1, <1>6
    <3> QED BY <2>0, <2>2, <3>1, <1>0, <1>2 DEF RxData, RxPlace
  <2> QED BY <2>1, <2>2
<1> QED
  BY <1>2, <1>10, <1>11 DEF RxData

(* _dma_rx takes a buffer, the first part of a frame or what it skips.     *)
LEMMA DataTake ==
  ASSUME IInv, RxData, dmaon, dmaon', getnextrxp(FALSE),
         skiplen' = IF skiplen = 1 THEN 0
                    ELSE IF Oversize /\ rxbuf[rxin].part = 1 THEN 1 ELSE 0
  PROVE  RxData'
<1> DEFINE R(i) == NRXDACTIVE(rxin, i)
<1>1. /\ rxin \in RxSlot /\ rxout \in RxSlot /\ rxcurr \in RxSlot /\ NRXD \in Nat
      /\ \A i \in RxSlot : R(i) \in 0 .. NRXD - 1
      /\ \A i, j \in RxSlot : R(i) = R(j) => i = j
      /\ R(rxin) = 0 /\ rxbuf \in [RxSlot -> Data] /\ skiplen \in 0 .. 1
  BY RxFacts DEF IInv, RxInv, RxTypes
<1>2. /\ rxin # rxcurr /\ rxcurr' = rxcurr /\ rxin' = NEXTRXD(rxin)
      /\ \A i \in RxSlot : i # rxin => rxbuf'[i] = rxbuf[i]
  BY <1>1 DEF getnextrxp, RxEmpty
<1>3. R(rxin) < R(rxcurr)
  BY <1>1, <1>2
<1>4. rxin' \in RxSlot /\ R(rxin') = 1
  BY <1>1, <1>2, <1>3, RxNext
<1>5. Stored(rxin) /\ rxbuf[rxin].part = skiplen + 1
  BY <1>1, <1>2, <1>3 DEF RxData, RxStored, RxPlace, Arrived
<1>6. RxStored'
  <2> SUFFICES ASSUME NEW i \in RxSlot, Arrived(i)' PROVE Stored(i)'
    BY DEF RxStored
  <2>1. R(i) < R(rxcurr) /\ i # rxin
    <3>1. NRXDACTIVE(rxin', i) < NRXDACTIVE(rxin', rxcurr)
      BY <1>2 DEF Arrived
    <3>2. \A k \in RxSlot : NRXDACTIVE(rxin', k) = IF R(rxin') <= R(k) THEN R(k) - R(rxin')
                                                   ELSE (R(k) - R(rxin')) + NRXD
      BY <1>1, <1>4, RxShift
    <3> QED BY <3>1, <3>2, <1>1, <1>3, <1>4
  <2>2. Stored(i)
    BY <2>1 DEF RxData, RxStored, Arrived
  <2>3. NEXTRXD(i) \in RxSlot /\ R(NEXTRXD(i)) = R(i) + 1
    BY <1>1, <2>1, RxNext
  <2> PICK j \in RxSlot : j = NEXTRXD(i)
    BY <2>3
  <2>4. j # rxin
    BY <1>1, <2>3
  <2> QED BY <1>2, <2>1, <2>2, <2>4 DEF Stored
<1>7. RxPlace'
  <2>1. rxin' # rxin
    BY <1>1, <1>4
  <2>2. rxbuf'[rxin'] = rxbuf[rxin']
    BY <1>2, <1>4, <2>1
  <2>3. CASE rxin' = rxcurr
    <3>1. ~(rxbuf[rxin].part = 1 /\ rxbuf[rxin].frame \in Giant)
      BY <1>2, <1>5, <2>3 DEF Stored
    <3>2. skiplen' = 0
      BY <3>1 DEF Oversize
    <3> QED BY <2>3, <3>2, <1>2 DEF RxPlace
  <2>4. CASE rxin' # rxcurr
    <3>1. rxbuf[rxin'].part = IF rxbuf[rxin].part = 1 /\ rxbuf[rxin].frame \in Giant THEN 2 ELSE 1
      BY <1>2, <1>5, <2>4 DEF Stored
    <3>2. rxbuf[rxin'].part = skiplen' + 1
      BY <3>1, <1>1, <1>5 DEF Oversize
    <3> QED BY <2>2, <2>4, <3>2, <1>2 DEF RxPlace
  <2> QED BY <2>3, <2>4
<1> QED
  BY <1>6, <1>7 DEF RxData

LEMMA DataRx ==
  ASSUME IInv, RxData, DpcRx
  PROVE  RxData'
<1>1. dmaon /\ dmaon' /\ skiplen \in 0 .. 1
  <2>1. dmaon /\ skiplen \in 0 .. 1
    BY DEF DpcRx, IInv, Control, Engines, Returns, InReset, RxInv, RxTypes
  <2> QED BY <2>1 DEF DpcRx, _dma_rx, _dma_rx_skip, _dma_rx_null
<1>2. CASE _dma_rx_skip
  BY <1>1, <1>2, DataTake DEF _dma_rx_skip
<1>3. CASE _dma_rx
  BY <1>1, <1>3, DataTake DEF _dma_rx
<1>4. CASE _dma_rx_null
  <2>1. UNCHANGED <<rxin, rxcurr, rxbuf>> /\ skiplen' = 0 /\ RxEmpty(FALSE)
    BY <1>4 DEF _dma_rx_null
  <2>2. rxin = rxcurr
    <3>1. /\ rxcurr \in RxSlot /\ rxin \in RxSlot
          /\ NRXDACTIVE(rxin, rxcurr) \in 0 .. NRXD - 1 /\ NRXDACTIVE(rxin, rxin) = 0
          /\ NRXDACTIVE(rxin, rxcurr) <= NRXDACTIVE(rxin, rxout)
          /\ NRXDACTIVE(rxin, rxcurr) = NRXDACTIVE(rxin, rxin) => rxcurr = rxin
      BY <1>1, RxFacts
    <3> QED BY <2>1, <3>1, SlotZero DEF RxEmpty
  <2> QED BY <1>1, <2>1, <2>2 DEF RxData, RxStored, RxPlace, Arrived, Stored
<1> QED
  BY <1>2, <1>3, <1>4 DEF DpcRx

(* The steps that touch the receive ring.                                  *)
RxEvent ==
  \/ ChipReset \/ RxReclaim \/ ChipInit \/ ChipInitDone \/ DpcRx \/ DpcRxFill
  \/ \E f \in Frame : ChipRx(f)

LEMMA OtherRx ==
  ASSUME IInv, [Next]_vars, ~RxEvent
  PROVE  UNCHANGED <<rxvars, dmaon>>
<1>1. CASE TxReclaim(TRUE, "txreclaim", "rxreclaim") \/ TxReclaim(FALSE, "txdone", "errors")
  BY <1>1, TakenFacts
<1>2. CASE et_sendnext \/ FlushTxq \/ (\E p \in Pkt : et_start(p)) \/ ChipTx
  BY <1>2 DEF et_sendnext, dma32_txfast, outoftxd, FlushTxq, et_start, ChipTx, TxFetch
<1>3. CASE et_reset_done \/ et_sendnext_done \/ DpcNoRx \/ DpcTx \/ DpcErrors \/ DpcSend
           \/ DpcClear \/ DpcEnd \/ DpcIntrsOn
  BY <1>3 DEF et_reset_done, et_sendnext_done, DpcNoRx, DpcTx, DpcErrors, DpcSend, DpcClear,
     DpcEnd, DpcIntrsOn, dmavars
<1>4. CASE netif_start_queue \/ ET_FLAG_DOWN \/ et_isr \/ et_dpc \/ tasklet_kill
  BY <1>4 DEF netif_start_queue, ET_FLAG_DOWN, et_isr, et_dpc, tasklet_kill, dmavars
<1>5. CASE et_up \/ et_down \/ Reinit \/ (\E e \in Errors : ChipError(e)) \/ UNCHANGED vars
  BY <1>5 DEF et_up, et_down, Reinit, ChipError, vars, dmavars
<1> QED
  BY <1>1, <1>2, <1>3, <1>4, <1>5 DEF Next, Step, RxEvent

LEMMA DataNext == IInv /\ RxLoop /\ RxData /\ [Next]_vars => RxData'
<1> SUFFICES ASSUME IInv, RxLoop, RxData, [Next]_vars PROVE RxData'
  OBVIOUS
<1>1. CASE ~RxEvent
  BY <1>1, OtherRx, DataFrame DEF rxvars
<1>2. CASE ChipReset \/ RxReclaim \/ ChipInit
  <2>1. ~dmaon'
    BY <1>2 DEF ChipReset, dma_reset, RxReclaim, ChipInit, dma_init, IInv, Control, Engines,
       InReset
  <2> QED BY <2>1 DEF RxData
<1>3. CASE ChipInitDone
  <2>1. rxin' = 0 /\ rxcurr' = 0 /\ skiplen' = 0
    BY <1>3 DEF ChipInitDone, _dma_rxfill, RxLoop, IInv, Control, Engines, InReset
  <2>2. \A i \in RxSlot : ~Arrived(i)'
    <3>1. \A i \in RxSlot : NRXDACTIVE(0, i) \in 0 .. NRXD - 1
      BY SlotZero, RxDist
    <3>2. NRXDACTIVE(0, 0) = 0
      BY SlotZero, RxDist
    <3> QED BY <2>1, <3>1, <3>2, SlotZero DEF Arrived
  <2> QED BY <2>1, <2>2 DEF RxData, RxStored, RxPlace
<1>4. CASE DpcRxFill
  BY <1>4, DataFill DEF DpcRxFill
<1>5. CASE \E f \in Frame : ChipRx(f)
  BY <1>5, DataStore DEF ChipRx
<1> QED
  BY <1>1, <1>2, <1>3, <1>4, <1>5, DataRx DEF RxEvent

LEMMA DataInit == Init => RxData
BY DEF Init, RxData

-----------------------------------------------------------------------------
(***************************************************************************)
(* The frames et_dpc has still to take.                                    *)
(***************************************************************************)
LEMMA RxHead ==
  ASSUME IInv, dmaon, dmaon', getnextrxp(FALSE)
  PROVE  /\ rxbuf[rxin] \in Data /\ RxQueue' \in Seq(Data)
         /\ RxQueue = Filtered(<<rxbuf[rxin]>>, Proper) \o RxQueue'
<1>1. /\ rxin \in RxSlot /\ rxcurr \in RxSlot /\ NRXD \in Nat /\ 1 \in 0 .. NRXD - 1
      /\ rxbuf \in [RxSlot -> Data] /\ rxbuf[rxin] \in Data
  BY RxFacts, RingAssumption
<1>2. /\ rxin # rxcurr /\ rxcurr' = rxcurr /\ rxin' = Plus(rxin, 1, NRXD)
      /\ \A i \in RxSlot : i # rxin => rxbuf'[i] = rxbuf[i]
  BY <1>1 DEF getnextrxp, RxEmpty, NEXTRXD
<1> PICK from \in 0 .. NRXD - 1, mid \in 0 .. NRXD - 1, to \in 0 .. NRXD - 1,
         ring \in {rxbuf}, new \in {rxbuf'} :
      from = rxin /\ mid = rxin' /\ to = rxcurr /\ ring = rxbuf /\ new = rxbuf'
  <2>1. rxin' \in RxSlot
    BY <1>1, <1>2, RxPlus
  <2> QED BY <1>1, <2>1 DEF RxSlot
<1> PICK m \in 0 .. NRXD - 1, n \in 0 .. NRXD - 1, l \in 0 .. NRXD - 1 :
      m = Dist(from, mid, NRXD) /\ n = Dist(mid, to, NRXD) /\ l = Dist(from, to, NRXD)
  BY <1>1, DistType
<1>3. m = 1 /\ m <= l /\ l = 1 + n
  BY <1>1, <1>2 DEF Dist, Plus
<1>4. RingOf(Data, ring, NRXD)
  BY <1>1 DEF RingOf, RxSlot
<1> DEFINE a == Window(ring, from, m, NRXD)
           b == Window(ring, mid, n, NRXD)
<1>5. Window(ring, from, l, NRXD) = a \o b /\ a \in Seq(Data) /\ b \in Seq(Data)
  <2>1. Cut(Data, NRXD, ring, from, mid, to, m, n, l)
    BY <1>1, <1>3, <1>4 DEF Cut
  <2> HIDE DEF a, b
  <2>2. /\ Glued(Window(ring, from, l, NRXD), Window(ring, from, m, NRXD), Window(ring, mid, n, NRXD))
        /\ Window(ring, from, m, NRXD) \in Seq(Data) /\ Window(ring, mid, n, NRXD) \in Seq(Data)
    BY <2>1, <1>1, WindowConcat
  <2> QED BY <2>2 DEF a, b, Glued
<1>6. a = <<rxbuf[rxin]>>
  <2>1. Plus(from, 1 - 1, NRXD) = from
    BY <1>1 DEF Plus
  <2> QED BY <2>1, <1>3 DEF Window
<1>7. Window(new, mid, n, NRXD) = b
  <2>1. Agree(new, ring, mid, n, NRXD)
    <3> SUFFICES ASSUME NEW i \in 0 .. NRXD - 1, Dist(mid, i, NRXD) < n
                 PROVE  new[i] = ring[i]
      BY DEF Agree
    <3>1. i # from
      BY <1>1, <1>2, <1>3 DEF Dist, Plus
    <3> QED BY <3>1, <1>2 DEF RxSlot
  <2> QED BY <2>1, <1>1, WindowSame
<1>8. RxQueue' = Filtered(b, Proper) /\ RxQueue = Filtered(Window(ring, from, l, NRXD), Proper)
  BY <1>2, <1>7 DEF RxQueue, NRXDACTIVE
<1> HIDE DEF a, b
<1>9. Filtered(a \o b, Proper) = Filtered(a, Proper) \o Filtered(b, Proper)
  BY <1>5, FilteredConcat
<1>10. Filtered(b, Proper) \in Seq(Data)
  BY <1>5, FilteredType
<1> QED
  BY <1>1, <1>5, <1>6, <1>8, <1>9, <1>10

LEMMA TakesOldest ==
  ASSUME IInv, RxData, DpcRx, rxin' # rxin
  PROVE  IF processed' = processed
         THEN RxQueue' = RxQueue
         ELSE /\ RxQueue # <<>> /\ rxbuf[rxin] = Head(RxQueue)
              /\ RxQueue' = Tail(RxQueue)
<1>1. /\ dmaon /\ dmaon' /\ skiplen \in 0 .. 1 /\ processed \in Nat
      /\ getnextrxp(FALSE) /\ (_dma_rx_skip \/ _dma_rx)
  <2>1. dmaon /\ skiplen \in 0 .. 1 /\ processed \in Nat
    BY EtAssumption DEF DpcRx, IInv, Control, Engines, Returns, InReset, RxInv, RxTypes, EtTypes,
       LockTypes
  <2>2. _dma_rx_skip \/ _dma_rx
    BY DEF DpcRx, _dma_rx_null
  <2> QED BY <2>1, <2>2 DEF _dma_rx, _dma_rx_skip
<1>2. PICK x \in Data : x = rxbuf[rxin] /\ x.part = skiplen + 1 /\ x.frame \in Frame
  <2>1. rxin # rxcurr /\ rxin \in RxSlot /\ rxcurr \in RxSlot
    BY <1>1, RxFacts DEF getnextrxp, RxEmpty
  <2>2. /\ NRXDACTIVE(rxin, rxin) = 0 /\ NRXDACTIVE(rxin, rxcurr) \in 0 .. NRXD - 1
        /\ NRXDACTIVE(rxin, rxcurr) # NRXDACTIVE(rxin, rxin)
    BY <2>1, RxDist
  <2>3. Arrived(rxin)
    BY <2>2, SlotZero DEF Arrived
  <2>4. rxbuf[rxin].frame \in Frame /\ rxbuf[rxin].part = skiplen + 1
    BY <1>1, <2>1, <2>3 DEF RxData, RxStored, RxPlace, Stored
  <2> QED BY <2>4, <1>1, RxHead
<1>3. PICK t \in Seq(Data) : t = RxQueue' /\ RxQueue = Filtered(<<x>>, Proper) \o t
  BY <1>1, <1>2, RxHead
<1>4. x \in Proper <=> x.part = 1 /\ x.frame \notin Giant
  BY <1>2 DEF Proper, Data
<1>5. CASE _dma_rx_skip /\ UNCHANGED processed
  <2>1. x \notin Proper
    BY <1>1, <1>2, <1>4, <1>5 DEF _dma_rx_skip, Oversize
  <2>2. Filtered(<<x>>, Proper) = <<>>
    BY <2>1, FilteredOne
  <2>3. <<>> \o t = t
    BY ConcatEmptySeq
  <2> QED BY <1>3, <1>5, <2>2, <2>3
<1>6. CASE _dma_rx /\ processed' = processed + 1
  <2>1. x \in Proper
    BY <1>1, <1>2, <1>4, <1>6 DEF _dma_rx, Oversize
  <2>2. Filtered(<<x>>, Proper) = <<x>>
    BY <2>1, FilteredOne
  <2>3. PICK s : s = RxQueue /\ s = <<x>> \o t
    BY <1>3, <2>2
  <2>4. s # <<>> /\ Head(s) = x /\ Tail(s) = t
    BY <2>3, ConsHead
  <2>5. processed' # processed
    BY <1>1, <1>6
  <2> QED BY <1>2, <1>3, <2>3, <2>4, <2>5
<1>7. (_dma_rx_skip /\ UNCHANGED processed) \/ (_dma_rx /\ processed' = processed + 1)
  <2>1. ~_dma_rx_null
    BY DEF _dma_rx_null
  <2> QED BY <2>1 DEF DpcRx, lockvars
<1> QED
  BY <1>5, <1>6, <1>7

\* et_dpc hands the stack the frames that arrived whole in one buffer, oldest
\* first, and no piece of a giant one; what _dma_rx skips is never a good frame.
THEOREM StackOrder == Spec => StackGetsOldest
<1> DEFINE A == pc = "rx" /\ rxin' # rxin =>
                  IF processed' = processed
                  THEN RxQueue' = RxQueue
                  ELSE /\ RxQueue # <<>> /\ rxbuf[rxin] = Head(RxQueue)
                       /\ RxQueue' = Tail(RxQueue)
<1>1. ASSUME IInv, RxData, [Next]_vars PROVE A
  <2> SUFFICES ASSUME pc = "rx", rxin' # rxin PROVE A
    OBVIOUS
  <2>1. DpcRx
    <3>1. CASE ~RxEvent
      BY <1>1, <3>1, OtherRx DEF rxvars
    <3>2. CASE \E f \in Frame : ChipRx(f)
      BY <3>2 DEF ChipRx, RxStore
    <3>3. CASE ChipReset \/ RxReclaim \/ ChipInit \/ ChipInitDone \/ DpcRxFill
      BY <3>3 DEF ChipReset, RxReclaim, ChipInit, ChipInitDone, DpcRxFill
    <3> QED BY <3>1, <3>2, <3>3 DEF RxEvent
  <2> QED BY <1>1, <2>1, TakesOldest
<1>2. IInv /\ RxData /\ [Next]_vars => [A]_vars
  BY <1>1
<1> HIDE DEF A
<1>3. Spec => []IInv
  BY InitHolds, NextKeeps, PTL DEF Spec
<1>4. Spec => []RxLoop
  BY <1>3, LoopInit, LoopNext, PTL DEF Spec
<1>5. Spec => []RxData
  BY <1>3, <1>4, DataInit, DataNext, PTL DEF Spec
<1>6. Spec => [][A]_vars
  BY <1>2, <1>3, <1>5, PTL DEF Spec
<1> QED
  BY <1>6 DEF A, StackGetsOldest
=============================================================================
