------------------------------- MODULE HndDma -------------------------------
(***************************************************************************)
(* The descriptor rings of shared/hnddma.c (the 32-bit engine, the only    *)
(* one the router builds) and the DMA engine that works on them.  The      *)
(* module declares the state and one action per routine; a driver, Et, is  *)
(* composed with it.                                                       *)
(*                                                                         *)
(* A transmit packet is a chain of buffers.  Of a chain three things       *)
(* matter to the ring: how many descriptors it takes (Descs, its non-empty *)
(* buffers), whether its last buffer is empty (TailEmpty) and whether its  *)
(* first one is (HeadEmpty).  Empty buffers take no descriptor, but the    *)
(* test for a free one comes first; the end-of-frame flag has to be added  *)
(* afterwards when the last buffer is empty; and the start-of-frame flag   *)
(* is given to the first buffer only, so that nobody gets it when that one *)
(* is empty.  (et itself hands over single buffers: Descs[p] = 1.  Chains  *)
(* are what hnddma.c offers to any driver.)                                *)
(*                                                                         *)
(* The engine is external: it fetches from its current descriptor up to    *)
(* the one the driver wrote last to its pointer register.                  *)
(***************************************************************************)
EXTENDS Integers

CONSTANTS
  NTXD, NRXD,    \* ring sizes, powers of two
  NRXPOST,       \* receive buffers to keep posted
  Pkt,           \* transmit packets
  Descs,         \* descriptors a packet takes
  TailEmpty,     \* whether its chain ends in an empty buffer
  HeadEmpty,     \* whether its chain begins with an empty buffer
  Frame,         \* frames that arrive
  Giant,         \* those that are longer than a buffer, and span two
  NoPkt          \* the null pointer

TxSlot == 0 .. NTXD - 1
RxSlot == 0 .. NRXD - 1

ASSUME RingAssumption ==
  /\ NTXD \in Nat /\ NTXD >= 2
  /\ NRXD \in Nat /\ NRXD >= 2
  /\ NRXPOST \in 1 .. NRXD - 1

ASSUME PacketAssumption ==
  /\ Descs \in [Pkt -> 1 .. NTXD - 1]
  /\ TailEmpty \in [Pkt -> BOOLEAN]
  /\ HeadEmpty \in [Pkt -> BOOLEAN]
  /\ \A p \in Pkt : TailEmpty[p] => Descs[p] < NTXD - 1
  /\ NoPkt \notin Pkt /\ NoPkt \notin Frame
  /\ Giant \subseteq Frame

VARIABLES
  txin, txout,     \* first descriptor to reclaim, next one to post
  txavail,         \* free descriptors as the driver is told
  txp,             \* packet of the descriptor that ends it, else NoPkt
  txd,             \* transmit descriptors: buffer of a packet, its flags
  txcurr, txptr,   \* engine: descriptor it is at, and where it stops
  onwire,          \* engine: the last buffer fetched of an unfinished frame
  rxin, rxout,     \* first descriptor to take, next one to fill
  rxp,             \* whether a buffer is posted
  rxbuf,           \* what is in it: part of a frame
  rxcurr, rxptr,   \* engine
  skiplen,         \* buffers of a giant frame _dma_rx has still to drop
  dmaon,           \* both engines and the MAC enabled
  live             \* transmit packets the driver owns and must free once

txvars == <<txin, txout, txavail, txp, txd, txcurr, txptr, onwire>>
rxvars == <<rxin, rxout, rxp, rxbuf, rxcurr, rxptr, skiplen>>
dmavars == <<txvars, rxvars, dmaon, live>>

-----------------------------------------------------------------------------
(* Index arithmetic.  The code masks with n - 1.                           *)

\* Mutant: the index wraps one step late.
Plus_late(i, k, n) == IF i + k <= n THEN i + k ELSE (i + k) - n

Plus(i, k, n) == IF i + k < n THEN i + k ELSE (i + k) - n

Dist(h, t, n) == IF h <= t THEN t - h ELSE (t - h) + n

NEXTTXD(i) == Plus(i, 1, NTXD)
NEXTRXD(i) == Plus(i, 1, NRXD)
PREVTXD(i) == IF i = 0 THEN NTXD - 1 ELSE i - 1

NTXDACTIVE(h, t) == Dist(h, t, NTXD)
NRXDACTIVE(h, t) == Dist(h, t, NRXD)

TxActive(i) == NTXDACTIVE(txin, i) < NTXDACTIVE(txin, txout)
RxActive(i) == NRXDACTIVE(rxin, i) < NRXDACTIVE(rxin, rxout)

Avail(in, out) == (NTXD - NTXDACTIVE(in, out)) - 1

NoDesc == [pkt |-> NoPkt, buf |-> 0, sof |-> FALSE, eof |-> FALSE]
NoData == [frame |-> NoPkt, part |-> 0]

-----------------------------------------------------------------------------
(* Transmit.                                                               *)

(* dma32_txfast walks the chain before it changes txout: it needs a free   *)
(* descriptor for every buffer, even for the empty one at the end.         *)
Wanted(p) == Descs[p] + (IF TailEmpty[p] THEN 1 ELSE 0)

\* Mutant: the descriptor that tells a full ring from an empty one is used too.
OutOfTxd_late(p) == Wanted(p) > Avail(txin, txout) + 1

OutOfTxd(p) == Wanted(p) > Avail(txin, txout)

\* Mutant: the flag is only set when the last buffer is not empty.
EofBuf_unfixed(p, k) == k = Descs[p] /\ ~TailEmpty[p]

(* The flag goes with the last buffer, or is added to the last descriptor. *)
EofBuf(p, k) == k = Descs[p]

SofBuf(p, k) == k = 1 /\ ~HeadEmpty[p]

dma32_dd_upd(p) ==
  txd' = [i \in TxSlot |->
            LET k == NTXDACTIVE(txout, i) + 1
            IN  IF k <= Descs[p]
                THEN [pkt |-> p, buf |-> k, sof |-> SofBuf(p, k), eof |-> EofBuf(p, k)]
                ELSE txd[i]]

(* The walk ends halfway: every free descriptor has been written, and none *)
(* of them is for the buffer that ends the chain.                          *)
HalfWritten(p) ==
  txd' = [i \in TxSlot |->
            LET k == NTXDACTIVE(txout, i) + 1
            IN  IF k <= Avail(txin, txout)
                THEN [pkt |-> p, buf |-> k, sof |-> SofBuf(p, k), eof |-> FALSE]
                ELSE txd[i]]

(* Success: the packet is remembered at its last descriptor only.          *)
dma32_txfast(p) ==
  /\ ~OutOfTxd(p)
  /\ dma32_dd_upd(p)
  /\ LET out == Plus(txout, Descs[p], NTXD)
     IN  /\ txp' = [txp EXCEPT ![PREVTXD(out)] = p]
         /\ txout' = out
         /\ txptr' = out
         /\ txavail' = Avail(txin, out)
  /\ UNCHANGED <<txin, txcurr, onwire, rxvars, dmaon, live>>

(***************************************************************************)
(* Failure: the descriptors written so far are not taken back.  They lie   *)
(* beyond txout, and hold the addresses of a packet that is freed here.    *)
(***************************************************************************)
\* Mutant: the packet of a failed send is not freed.
outoftxd_kept(p) ==
  /\ OutOfTxd(p)
  /\ HalfWritten(p)
  /\ txavail' = 0
  /\ UNCHANGED <<txin, txout, txp, txcurr, txptr, onwire, rxvars, dmaon, live>>

outoftxd(p) ==
  /\ OutOfTxd(p)
  /\ HalfWritten(p)
  /\ txavail' = 0
  /\ live' = live \ {p}
  /\ UNCHANGED <<txin, txout, txp, txcurr, txptr, onwire, rxvars, dmaon>>

(* dma32_getnexttxp takes descriptors off the ring up to and including the *)
(* first that carries a packet, or up to end.                              *)
Reclaimable(end) ==
  {i \in TxSlot : NTXDACTIVE(txin, i) < NTXDACTIVE(txin, end)}

Carrying(end) == {i \in Reclaimable(end) : txp[i] # NoPkt}

First(end) ==
  CHOOSE i \in Carrying(end) :
    \A j \in Carrying(end) : NTXDACTIVE(txin, i) <= NTXDACTIVE(txin, j)

Bogus(end) == txin = 0 /\ end > txout

\* Mutant: the free descriptors are not counted again.
TakeTo_stale(in) ==
  /\ txin' = in
  /\ txd' = [i \in TxSlot |-> IF NTXDACTIVE(txin, i) < NTXDACTIVE(txin, in)
                              THEN NoDesc ELSE txd[i]]
  /\ txp' = [i \in TxSlot |-> IF NTXDACTIVE(txin, i) < NTXDACTIVE(txin, in)
                              THEN NoPkt ELSE txp[i]]
  /\ UNCHANGED <<txavail, txout, txcurr, txptr, onwire, rxvars, dmaon>>

TakeTo(in) ==
  /\ txin' = in
  /\ txavail' = Avail(in, txout)
  /\ txd' = [i \in TxSlot |-> IF NTXDACTIVE(txin, i) < NTXDACTIVE(txin, in)
                              THEN NoDesc ELSE txd[i]]
  /\ txp' = [i \in TxSlot |-> IF NTXDACTIVE(txin, i) < NTXDACTIVE(txin, in)
                              THEN NoPkt ELSE txp[i]]
  /\ UNCHANGED <<txout, txcurr, txptr, onwire, rxvars, dmaon>>

(* One turn of dma32_txreclaim's loop that returns a packet, and frees it. *)
getnexttxp(end) ==
  /\ ~Bogus(end) /\ Carrying(end) # {}
  /\ TakeTo(NEXTTXD(First(end)))
  /\ live' = live \ {txp[First(end)]}

(* The turn that ends the loop.                                            *)
getnexttxp_null(end) ==
  \/ Bogus(end) /\ UNCHANGED dmavars
  \/ /\ ~Bogus(end) /\ Carrying(end) = {}
     /\ TakeTo(end)
     /\ UNCHANGED live

\* Mutant: a packet is taken although the engine is still at its descriptor.
TxEnd_busy(forceall) ==
  IF forceall \/ txcurr = txptr THEN txout ELSE NEXTTXD(txcurr)

TxEnd(forceall) == IF forceall THEN txout ELSE txcurr

-----------------------------------------------------------------------------
(* Receive.                                                                *)

\* Mutant: the fill counts from the ring size, not from nrxpost.
Lacking_ring == NRXD - NRXDACTIVE(rxin, rxout)

Lacking == NRXPOST - NRXDACTIVE(rxin, rxout)

(* m buffers are posted: all that are lacking, or fewer when PKTGET fails. *)
_dma_rxfill(m) ==
  /\ m \in 0 .. Lacking
  /\ rxout' = Plus(rxout, m, NRXD)
  /\ rxptr' = Plus(rxout, m, NRXD)
  /\ rxp' = [i \in RxSlot |-> rxp[i] \/ NRXDACTIVE(rxout, i) < m]
  /\ rxbuf' = [i \in RxSlot |-> IF NRXDACTIVE(rxout, i) < m THEN NoData
                                                           ELSE rxbuf[i]]
  /\ UNCHANGED <<txvars, rxin, rxcurr, skiplen, live>>

RxEmpty(forceall) == rxin = rxout \/ (~forceall /\ rxin = rxcurr)

(* dma32_getnextrxp.                                                       *)
getnextrxp(forceall) ==
  /\ ~RxEmpty(forceall)
  /\ rxp' = [rxp EXCEPT ![rxin] = FALSE]
  /\ rxbuf' = [rxbuf EXCEPT ![rxin] = NoData]
  /\ rxin' = NEXTRXD(rxin)
  /\ UNCHANGED <<rxout, rxcurr, rxptr>>

(* One turn of _dma_rx: a buffer of a giant frame is dropped ...           *)
Oversize == rxbuf[rxin].frame \in Giant

\* Mutant: only the first buffer of a giant frame is dropped.
_dma_rx_skip_first ==
  /\ getnextrxp(FALSE)
  /\ skiplen > 0 \/ (Oversize /\ rxbuf[rxin].part = 1)
  /\ skiplen' = 0
  /\ UNCHANGED <<txvars, dmaon, live>>

_dma_rx_skip ==
  /\ getnextrxp(FALSE)
  /\ \/ skiplen > 0 /\ skiplen' = skiplen - 1
     \/ skiplen = 0 /\ Oversize /\ rxbuf[rxin].part = 1 /\ skiplen' = 1
  /\ UNCHANGED <<txvars, dmaon, live>>

(* ... or a frame is returned.  Whatever else a buffer holds is taken for  *)
(* the start of a frame.                                                   *)
_dma_rx ==
  /\ getnextrxp(FALSE)
  /\ skiplen = 0 /\ ~(Oversize /\ rxbuf[rxin].part = 1)
  /\ UNCHANGED <<txvars, dmaon, live, skiplen>>

(* ... or there is none; skiplen is a local variable.                      *)
_dma_rx_null ==
  /\ RxEmpty(FALSE)
  /\ skiplen' = 0
  /\ UNCHANGED <<txvars, rxin, rxout, rxp, rxbuf, rxcurr, rxptr, dmaon, live>>

-----------------------------------------------------------------------------
(* Both.                                                                   *)

(***************************************************************************)
(* dma32_txreset and dma32_rxreset of chipreset, and the core reset that   *)
(* follows: the engines stop and forget where they were.                   *)
(***************************************************************************)
dma_reset ==
  /\ dmaon' = FALSE
  /\ txcurr' = 0 /\ txptr' = 0 /\ rxcurr' = 0 /\ rxptr' = 0
  /\ onwire' = NoDesc
  /\ UNCHANGED <<txin, txout, txavail, txp, txd, rxin, rxout, rxp, rxbuf,
                 skiplen, live>>

(* dma32_txinit and _dma_rxinit: empty rings; the packet pointers are not  *)
(* cleared.  The engines are on, but idle until the driver turns the MAC   *)
(* on, and dmaon stands for both.                                          *)
dma_init ==
  /\ txin' = 0 /\ txout' = 0
  /\ txavail' = NTXD - 1
  /\ txd' = [i \in TxSlot |-> NoDesc]
  /\ rxin' = 0 /\ rxout' = 0
  /\ UNCHANGED <<txp, txcurr, txptr, onwire, rxp, rxbuf, rxcurr, rxptr,
                 skiplen, dmaon, live>>

-----------------------------------------------------------------------------
(* The engines.                                                            *)

(* The buffer fetched next continues the frame, or begins one, or does     *)
(* neither; a frame begins with the buffer that has the sof flag and goes  *)
(* out with the one that has the eof flag.                                 *)
Continues ==
  IF onwire = NoDesc
  THEN txd[txcurr].buf = 1 /\ txd[txcurr].sof
  ELSE /\ txd[txcurr].pkt = onwire.pkt
       /\ txd[txcurr].buf = onwire.buf + 1
       /\ ~txd[txcurr].sof

TxFetch ==
  /\ dmaon /\ txcurr # txptr
  /\ onwire' = IF txd[txcurr].eof THEN NoDesc
               ELSE IF Continues THEN txd[txcurr]
               ELSE [pkt |-> NoPkt, buf |-> NTXD, sof |-> FALSE, eof |-> FALSE]
  /\ txcurr' = NEXTTXD(txcurr)
  /\ UNCHANGED <<txin, txout, txavail, txp, txd, txptr, rxvars, dmaon, live>>

Room == NRXDACTIVE(rxcurr, rxptr)

Span(f) == IF f \in Giant THEN 2 ELSE 1

(* A frame arrives; one that finds too few descriptors is not stored.  It  *)
(* is stored as a whole: _dma_rx reads the length of a frame as soon as    *)
(* the engine is past its first buffer, so it relies on that.              *)
RxStore(f) ==
  /\ dmaon /\ Span(f) <= Room
  /\ rxbuf' = [i \in RxSlot |->
                 IF NRXDACTIVE(rxcurr, i) < Span(f)
                 THEN [frame |-> f, part |-> NRXDACTIVE(rxcurr, i) + 1]
                 ELSE rxbuf[i]]
  /\ rxcurr' = Plus(rxcurr, Span(f), NRXD)
  /\ UNCHANGED <<txvars, rxin, rxout, rxp, rxptr, skiplen, dmaon, live>>
=============================================================================
