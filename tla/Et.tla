--------------------------------- MODULE Et ---------------------------------
(***************************************************************************)
(* The Ethernet driver of the router, et/sys/{et_linux,etc,etc47xx}.c, on  *)
(* the rings of HndDma.                                                    *)
(*                                                                         *)
(* One processor.  ET_LOCK is spin_lock_bh: whoever holds it keeps the     *)
(* tasklet et_dpc away, but not the interrupt et_isr, which takes no lock. *)
(* pc says where the holder of the lock is ("free": nobody holds it), ret  *)
(* where a routine it is in returns to.  et_isr is one action: nothing     *)
(* interrupts it.  The interrupt line is shared, so et_isr may be called   *)
(* whenever its own mask copy lets it see a status bit.                    *)
(*                                                                         *)
(* Requests of the administrator (open, close, ioctl, multicast list) are  *)
(* serialized by the kernel's rtnl semaphore.                              *)
(***************************************************************************)
EXTENDS HndDma, Sequences, SequencesExt, Selection

CONSTANTS
  RXBND,          \* frames one call of et_dpc takes
  DATAHIWAT,      \* length of txq above which the stack is stopped
  MaxErrors,      \* bound on the errors the chip reports
  MaxRequests     \* bound on open, close and re-initialization

ASSUME EtAssumption ==
  /\ RXBND \in Nat \ {0}
  /\ DATAHIWAT \in Nat /\ DATAHIWAT >= 2
  /\ MaxErrors \in Nat /\ MaxRequests \in Nat

VARIABLES
  pc, ret,       \* the holder of ET_LOCK
  intron,        \* ET_INIT_INTRON of the et_init it is in
  processed,     \* local variable of et_dpc
  up,            \* etc->up
  txq, stopped,  \* et->txq; netif_queue_stopped
  events,        \* et->events
  resched,       \* et->resched
  tasklet,       \* et->tasklet is scheduled
  killing,       \* et_down waits in tasklet_kill
  chstatus,      \* ch->intstatus: seen and not yet dealt with
  chmask,        \* ch->intmask is DEF_INTMASK, not 0
  intstatus,     \* chip: status register
  intmask,       \* chip: mask register is DEF_INTMASK, not 0
  errors, requests,  \* counters, for the bounds
  reinit         \* kinds of interface, "up" or "down", that a request has
                 \* re-initialized

lockvars == <<pc, ret, intron, processed>>
netvars  == <<up, txq, stopped, killing>>
intrvars == <<events, resched, tasklet, chstatus, chmask, intstatus, intmask>>
counters == <<errors, requests, reinit>>
vars     == <<dmavars, lockvars, netvars, intrvars, counters>>

(* I_XI, I_RI, I_RU; RO stands for the errors that call for a reset.       *)
Status == {"XI", "RI", "RU", "RO"}
Errors == {"RU", "RO"}
Event  == {"NEW", "TX", "RX", "ERROR"}

(* The holder goes on at l; if it releases the lock, its locals are gone.  *)
Goto(l) ==
  /\ pc' = l
  /\ IF l = "free" THEN ret' = "free" /\ intron' = FALSE /\ processed' = 0
                   ELSE UNCHANGED <<ret, intron, processed>>

-----------------------------------------------------------------------------
(* Interrupts.                                                             *)

Convert(st) ==
  {e \in {"TX", "RX", "ERROR"} :
     \/ e = "TX" /\ "XI" \in st
     \/ e = "RX" /\ "RI" \in st
     \/ e = "ERROR" /\ st \cap Errors # {}}

(* chipgetintrevents, st being the status bits it looks at.                *)
chipgetintrevents(st) ==
  /\ intstatus' = intstatus \ st
  /\ chstatus' = chstatus \cup st
  /\ events' = Convert(chstatus \cup st) \cup (IF st = {} THEN {} ELSE {"NEW"})

(* The register first, then the copy: an et_isr in between leaves things   *)
(* as one before.                                                          *)
chipintrsoff == chmask' = FALSE /\ intmask' = FALSE

(* The copy first, then the register: one step only where et_intrson holds *)
(* off the interrupt; et_dpc does not (DpcEnd, DpcIntrsOn).                *)
chipintrson == chmask' = TRUE /\ intmask' = TRUE

(* While the driver is down, or for somebody else's interrupt, nothing.    *)
et_isr ==
  /\ up
  /\ chmask /\ intstatus # {}
  /\ chipgetintrevents(intstatus)
  /\ chipintrsoff
  /\ tasklet' = TRUE
  /\ UNCHANGED <<dmavars, lockvars, netvars, resched, counters>>

-----------------------------------------------------------------------------
(* Reset and initialization: et_reset, etc_reset, etc_init, chipinit.      *)

et_init(back, on) ==
  /\ pc' = "reset"
  /\ ret' = back
  /\ intron' = on
  /\ UNCHANGED processed

(* The core reset clears the chip's registers, not the driver's mask copy. *)
ChipReset ==
  /\ pc = "reset"
  /\ Goto("txreclaim")
  /\ dma_reset
  /\ intstatus' = {} /\ intmask' = FALSE /\ chstatus' = {}
  /\ UNCHANGED <<netvars, events, resched, tasklet, chmask, counters>>

(* chiptxreclaim, of all or of the completed packets.                      *)
TxReclaim(forceall, here, next) ==
  /\ pc = here
  /\ \/ /\ getnexttxp(TxEnd(forceall))
        /\ UNCHANGED <<lockvars, chstatus>>
     \/ /\ getnexttxp_null(TxEnd(forceall))
        /\ chstatus' = chstatus \ {"XI"}
        /\ Goto(next)
  /\ UNCHANGED <<netvars, events, resched, tasklet, chmask, intstatus, intmask,
                 counters>>

(* chiprxreclaim, and the end of et_reset, which forgets what an interrupt *)
(* may have left for et_dpc.                                               *)
RxReclaim ==
  /\ pc = "rxreclaim"
  /\ getnextrxp(TRUE)
  /\ UNCHANGED <<txvars, skiplen, dmaon, live, lockvars, netvars, intrvars,
                 counters>>

et_reset_done ==
  /\ pc = "rxreclaim" /\ RxEmpty(TRUE)
  /\ chstatus' = chstatus \ {"RI"}
  /\ events' = {} /\ resched' = FALSE
  /\ Goto(IF ret = "flush" THEN "flush" ELSE "chipinit")
  /\ UNCHANGED <<dmavars, netvars, tasklet, chmask, intstatus, intmask, counters>>

ChipInit ==
  /\ pc = "chipinit"
  /\ dma_init
  /\ Goto("rxpost")
  /\ UNCHANGED <<netvars, intrvars, counters>>

ChipInitDone ==
  /\ pc = "rxpost"
  /\ \E m \in 0 .. Lacking : _dma_rxfill(m)
  /\ IF intron THEN chipintrson ELSE UNCHANGED <<chmask, intmask>>
  /\ dmaon' = TRUE
  /\ Goto(ret)
  /\ UNCHANGED <<netvars, events, resched, tasklet, chstatus, intstatus, counters>>

-----------------------------------------------------------------------------
(* Transmit.                                                               *)

(* The stack hands over a packet, unless it has been stopped.              *)
et_start(p) ==
  /\ pc = "free" /\ ~stopped
  /\ p \notin live
  /\ live' = live \cup {p}
  /\ txq' = Append(txq, p)
  /\ pc' = "send" /\ ret' = "free"
  /\ UNCHANGED <<txvars, rxvars, dmaon, intron, processed, up, stopped, killing,
                 intrvars, counters>>

(* et_sendnext: a turn of its loop; chiptx ignores the result.             *)
\* Mutant: a packet for which there are no descriptors goes back to the queue.
et_sendnext_requeue ==
  /\ pc = "send" /\ txavail > 0 /\ txq # <<>>
  /\ \/ dma32_txfast(Head(txq)) /\ txq' = Tail(txq)
     \/ /\ OutOfTxd(Head(txq))
        /\ HalfWritten(Head(txq))
        /\ txavail' = 0
        /\ txq' = Append(Tail(txq), Head(txq))
        /\ UNCHANGED <<txin, txout, txp, txcurr, txptr, onwire, rxvars, dmaon, live>>
  /\ UNCHANGED <<lockvars, up, stopped, killing, intrvars, counters>>

et_sendnext ==
  /\ pc = "send" /\ txavail > 0 /\ txq # <<>>
  /\ txq' = Tail(txq)
  /\ dma32_txfast(Head(txq)) \/ outoftxd(Head(txq))
  /\ UNCHANGED <<lockvars, up, stopped, killing, intrvars, counters>>

\* Mutant: the stack is woken only when the queue was not stopped.
FlowControl_swapped ==
  stopped' = IF Len(txq) > DATAHIWAT THEN TRUE
             ELSE IF ~stopped /\ Len(txq) < DATAHIWAT \div 2 THEN FALSE
             ELSE stopped

FlowControl ==
  stopped' = IF Len(txq) > DATAHIWAT THEN TRUE
             ELSE IF Len(txq) < DATAHIWAT \div 2 THEN FALSE
             ELSE stopped

et_sendnext_done ==
  /\ pc = "send" /\ (txavail = 0 \/ txq = <<>>)
  /\ FlowControl
  /\ Goto(ret)
  /\ UNCHANGED <<dmavars, up, txq, killing, intrvars, counters>>

-----------------------------------------------------------------------------
(* et_dpc.                                                                 *)

et_dpc ==
  /\ pc = "free" /\ tasklet
  /\ tasklet' = FALSE
  /\ \/ /\ ~up
        /\ UNCHANGED <<lockvars, events, resched, chstatus, intstatus>>
     \/ /\ up
        /\ pc' = "rx" /\ processed' = 0
        /\ UNCHANGED <<ret, intron>>
        /\ resched' = FALSE
        /\ IF resched THEN chipgetintrevents(intstatus)
                      ELSE UNCHANGED <<events, chstatus, intstatus>>
  /\ UNCHANGED <<dmavars, netvars, chmask, intmask, counters>>

\* Mutant: the loop does not notice that it stopped at its bound.
Bound_missed == UNCHANGED resched

Bound == resched' = (resched \/ processed + 1 >= RXBND)

DpcRx ==
  /\ pc = "rx" /\ "RX" \in events
  /\ \/ /\ _dma_rx_skip
        /\ UNCHANGED <<lockvars, chstatus, resched>>
     \/ /\ _dma_rx
        /\ Bound
        /\ processed' = processed + 1
        /\ pc' = IF processed + 1 >= RXBND THEN "rxfill" ELSE "rx"
        /\ UNCHANGED <<ret, intron, chstatus>>
     \/ /\ _dma_rx_null
        /\ chstatus' = chstatus \ {"RI"}
        /\ Goto("rxfill")
        /\ UNCHANGED resched
  /\ UNCHANGED <<netvars, events, tasklet, chmask, intstatus, intmask, counters>>

DpcNoRx ==
  /\ pc = "rx" /\ "RX" \notin events
  /\ Goto("tx")
  /\ UNCHANGED <<dmavars, netvars, intrvars, counters>>

DpcRxFill ==
  /\ pc = "rxfill"
  /\ \E m \in 0 .. Lacking : _dma_rxfill(m)
  /\ Goto("tx")
  /\ UNCHANGED <<dmaon, netvars, intrvars, counters>>

DpcTx ==
  /\ pc = "tx"
  /\ Goto(IF "TX" \in events THEN "txdone" ELSE "errors")
  /\ UNCHANGED <<dmavars, netvars, intrvars, counters>>

(* chiperrors: a lack of receive descriptors alone is no reason to reset.  *)
DpcErrors ==
  /\ pc = "errors"
  /\ IF "ERROR" \in events
     THEN /\ chstatus' = chstatus \ Errors
          /\ IF chstatus \cap (Errors \ {"RU"}) # {}
             THEN et_init("sendq", FALSE)
             ELSE Goto("sendq")
     ELSE Goto("sendq") /\ UNCHANGED chstatus
  /\ UNCHANGED <<dmavars, netvars, events, resched, tasklet, chmask, intstatus, intmask,
                 counters>>

\* Mutant: the queue is left to the next et_start.
DpcSend_none ==
  /\ pc = "sendq"
  /\ Goto("clear")
  /\ UNCHANGED <<dmavars, netvars, intrvars, counters>>

DpcSend ==
  /\ pc = "sendq"
  /\ IF txq # <<>> THEN pc' = "send" /\ ret' = "clear" /\ UNCHANGED <<intron, processed>>
                   ELSE Goto("clear")
  /\ UNCHANGED <<dmavars, netvars, intrvars, counters>>

DpcClear ==
  /\ pc = "clear"
  /\ events' = {}
  /\ Goto("end")
  /\ UNCHANGED <<dmavars, netvars, resched, tasklet, chstatus, chmask, intstatus, intmask,
                 counters>>

\* Mutant: interrupts are turned on although the tasklet will run again.
DpcEnd_on ==
  /\ pc = "end"
  /\ tasklet' = (tasklet \/ resched)
  /\ chmask' = TRUE
  /\ Goto("intrson")
  /\ UNCHANGED <<dmavars, netvars, events, resched, chstatus, intstatus, intmask, counters>>

(* The tasklet is scheduled again, or interrupts are turned on: the copy   *)
(* of the mask ...                                                         *)
DpcEnd ==
  /\ pc = "end"
  /\ IF resched
     THEN tasklet' = TRUE /\ UNCHANGED chmask /\ Goto("free")
     ELSE chmask' = TRUE /\ UNCHANGED tasklet /\ Goto("intrson")
  /\ UNCHANGED <<dmavars, netvars, events, resched, chstatus, intstatus, intmask, counters>>

(* ... and then the register.  The line is shared, so et_isr may have been *)
(* called in between and have cleared both; what is written is the value   *)
(* of the line before, or the copy read again, as the compiler likes.      *)
DpcIntrsOn ==
  /\ pc = "intrson"
  /\ intmask' \in {TRUE, chmask}
  /\ Goto("free")
  /\ UNCHANGED <<dmavars, netvars, events, resched, tasklet, chstatus, chmask, intstatus,
                 counters>>

-----------------------------------------------------------------------------
(* Requests.                                                               *)

Request == pc = "free" /\ ~killing /\ requests < MaxRequests /\ requests' = requests + 1

(* et_open, or the ioctl ETCUP.                                            *)
et_up ==
  /\ Request /\ ~up
  /\ up' = TRUE
  /\ et_init("startq", TRUE)
  /\ UNCHANGED <<dmavars, txq, stopped, killing, intrvars, errors, reinit>>

netif_start_queue ==
  /\ pc = "startq"
  /\ stopped' = FALSE
  /\ Goto("free")
  /\ UNCHANGED <<dmavars, up, txq, killing, intrvars, counters>>

(* et_set_multicast_list, or one of the ioctls ETCLOOP, ETCPROMISC, ETCQOS *)
(* and ETCSPEED, which do not ask whether the interface is up.             *)
Reinit ==
  /\ Request
  /\ reinit' = reinit \cup {IF up THEN "up" ELSE "down"}
  /\ et_init("free", TRUE)
  /\ UNCHANGED <<dmavars, netvars, intrvars, errors>>

(* et_close, or the ioctl ETCDOWN.  The lock is held from here on ...      *)
et_down ==
  /\ Request
  /\ stopped' = TRUE
  /\ Goto("down")
  /\ UNCHANGED <<dmavars, up, txq, killing, intrvars, errors, reinit>>

ET_FLAG_DOWN ==
  /\ pc = "down"
  /\ chipintrsoff
  /\ up' = FALSE
  /\ et_init("flush", FALSE)
  /\ UNCHANGED <<dmavars, txq, stopped, killing, events, resched, tasklet, chstatus,
                 intstatus, counters>>

(* ... until txq is flushed; tasklet_kill waits without it.                *)
\* Mutant: the packets of txq are dropped without being freed.
FlushTxq_leak ==
  /\ pc = "flush"
  /\ txq' = <<>>
  /\ killing' = TRUE
  /\ Goto("free")
  /\ UNCHANGED <<dmavars, up, stopped, intrvars, counters>>

FlushTxq ==
  /\ pc = "flush"
  /\ live' = live \ ToSet(txq)
  /\ txq' = <<>>
  /\ killing' = TRUE
  /\ Goto("free")
  /\ UNCHANGED <<txvars, rxvars, dmaon, up, stopped, intrvars, counters>>

tasklet_kill ==
  /\ pc = "free" /\ killing /\ ~tasklet
  /\ killing' = FALSE
  /\ UNCHANGED <<dmavars, lockvars, up, txq, stopped, intrvars, counters>>

-----------------------------------------------------------------------------
(* The chip.                                                               *)

Raise(st) ==
  /\ intstatus' = intstatus \cup st
  /\ UNCHANGED <<events, resched, tasklet, chstatus, chmask, intmask>>

ChipTx ==
  /\ TxFetch
  /\ Raise(IF txd[txcurr].eof THEN {"XI"} ELSE {})
  /\ UNCHANGED <<lockvars, netvars, counters>>

ChipRx(f) ==
  /\ RxStore(f)
  /\ Raise({"RI"})
  /\ UNCHANGED <<lockvars, netvars, counters>>

(* RU: a frame found no descriptor.                                        *)
ChipError(e) ==
  /\ dmaon /\ errors < MaxErrors
  /\ e = "RU" => rxcurr = rxptr
  /\ errors' = errors + 1
  /\ Raise({e})
  /\ UNCHANGED <<dmavars, lockvars, netvars, requests, reinit>>

-----------------------------------------------------------------------------
Init ==
  /\ txin = 0 /\ txout = 0 /\ txavail = NTXD - 1
  /\ txp = [i \in TxSlot |-> NoPkt]
  /\ txd = [i \in TxSlot |-> NoDesc]
  /\ txcurr = 0 /\ txptr = 0 /\ onwire = NoDesc
  /\ rxin = 0 /\ rxout = 0
  /\ rxp = [i \in RxSlot |-> FALSE]
  /\ rxbuf = [i \in RxSlot |-> NoData]
  /\ rxcurr = 0 /\ rxptr = 0 /\ skiplen = 0
  /\ dmaon = FALSE /\ live = {}
  /\ pc = "free" /\ ret = "free" /\ intron = FALSE /\ processed = 0
  /\ up = FALSE /\ txq = <<>> /\ stopped = TRUE /\ killing = FALSE
  /\ events = {} /\ resched = FALSE /\ tasklet = FALSE
  /\ chstatus = {} /\ chmask = TRUE /\ intstatus = {} /\ intmask = FALSE
  /\ errors = 0 /\ requests = 0 /\ reinit = {}

(* What the holder of the lock does.                                       *)
Step ==
  \/ ChipReset
  \/ TxReclaim(TRUE, "txreclaim", "rxreclaim")
  \/ RxReclaim \/ et_reset_done \/ ChipInit \/ ChipInitDone
  \/ et_sendnext \/ et_sendnext_done
  \/ DpcRx \/ DpcNoRx \/ DpcRxFill \/ DpcTx
  \/ TxReclaim(FALSE, "txdone", "errors")
  \/ DpcErrors \/ DpcSend \/ DpcClear \/ DpcEnd \/ DpcIntrsOn
  \/ netif_start_queue \/ ET_FLAG_DOWN \/ FlushTxq

Next ==
  \/ Step
  \/ et_isr \/ et_dpc \/ tasklet_kill
  \/ \E p \in Pkt : et_start(p)
  \/ et_up \/ et_down \/ Reinit
  \/ ChipTx
  \/ \E f \in Frame : ChipRx(f)
  \/ \E e \in Errors : ChipError(e)

Spec == Init /\ [][Next]_vars

(***************************************************************************)
(* The chip works on; the line is level-triggered; whoever holds the lock  *)
(* goes on; and a scheduled tasklet runs when the lock is released with    *)
(* spin_unlock_bh, however often the lock is taken again.  Nobody takes it *)
(* while tasklet_kill waits, except et_dpc.                                *)
(***************************************************************************)
Fairness ==
  /\ WF_vars(Step)
  /\ WF_vars(ChipTx)
  /\ WF_vars(intmask /\ et_isr)
  /\ SF_vars(et_dpc)
  /\ WF_vars(tasklet_kill)

FairSpec == Spec /\ Fairness

-----------------------------------------------------------------------------
(* Properties.                                                             *)

Label == {"free", "reset", "txreclaim", "rxreclaim", "chipinit", "rxpost", "send",
          "rx", "rxfill", "tx", "txdone", "errors", "sendq", "clear", "end",
          "intrson", "startq", "down", "flush"}

Desc == [pkt : Pkt \cup {NoPkt}, buf : 0 .. NTXD, sof : BOOLEAN, eof : BOOLEAN]
Data == [frame : Frame \cup {NoPkt}, part : 0 .. 2]

\* Every variable keeps its shape, and every index stays inside its ring.
TypeOK ==
  /\ txin \in TxSlot /\ txout \in TxSlot /\ txcurr \in TxSlot /\ txptr \in TxSlot
  /\ txavail \in 0 .. NTXD - 1
  /\ txp \in [TxSlot -> Pkt \cup {NoPkt}]
  /\ txd \in [TxSlot -> Desc]
  /\ onwire \in Desc
  /\ rxin \in RxSlot /\ rxout \in RxSlot /\ rxcurr \in RxSlot /\ rxptr \in RxSlot
  /\ rxp \in [RxSlot -> BOOLEAN]
  /\ rxbuf \in [RxSlot -> Data]
  /\ skiplen \in 0 .. 1
  /\ dmaon \in BOOLEAN /\ live \subseteq Pkt
  /\ pc \in Label /\ ret \in Label /\ intron \in BOOLEAN
  /\ processed \in 0 .. RXBND
  /\ up \in BOOLEAN /\ txq \in Seq(Pkt) /\ stopped \in BOOLEAN /\ killing \in BOOLEAN
  /\ events \subseteq Event /\ resched \in BOOLEAN /\ tasklet \in BOOLEAN
  /\ chstatus \subseteq Status /\ intstatus \subseteq Status
  /\ chmask \in BOOLEAN /\ intmask \in BOOLEAN
  /\ errors \in Nat /\ requests \in Nat /\ reinit \subseteq {"up", "down"}

(* j is the descriptor that ends the packet of descriptor i.               *)
EndsAt(i, j) ==
  /\ NTXDACTIVE(txin, i) <= NTXDACTIVE(txin, j)
  /\ txp[j] = txd[i].pkt
  /\ \A k \in TxSlot :
       NTXDACTIVE(txin, i) <= NTXDACTIVE(txin, k)
         /\ NTXDACTIVE(txin, k) < NTXDACTIVE(txin, j) => txp[k] = NoPkt

\* A packet pointer is only found between txin and txout, so that the next
\* descriptors are free (the ASSERT in dma32_txfast), and every descriptor in
\* between belongs to a packet whose end is still to be reclaimed: taking
\* descriptors up to the next pointer never cuts a packet in two.
TxRingSound ==
  /\ \A i \in TxSlot : txp[i] # NoPkt => TxActive(i)
  /\ \A i \in TxSlot : TxActive(i) =>
       txd[i].pkt \in Pkt /\ \E j \in TxSlot : TxActive(j) /\ EndsAt(i, j)

InEngine(i) == NTXDACTIVE(txcurr, i) < NTXDACTIVE(txcurr, txptr)

\* Whatever the running engine has still to fetch is a buffer of a packet that
\* has not been freed, although packets are reclaimed, dropped for lack of
\* descriptors, and freed by a reset while others are in flight.
FetchesLive ==
  dmaon => \A i \in TxSlot : InEngine(i) => TxActive(i) /\ txd[i].pkt \in live

InRing == {txp[i] : i \in TxSlot} \ {NoPkt}

\* A packet the stack handed over is in txq or in the ring, in one place only,
\* until it is freed: none is freed twice and none is leaked by a failed send,
\* a reset or a close.
PacketsOwned ==
  /\ live = ToSet(txq) \cup InRing
  /\ ToSet(txq) \cap InRing = {}
  /\ IsInjective(txq)
  /\ \A i, j \in TxSlot : txp[i] = txp[j] /\ txp[i] # NoPkt => i = j

\* The driver is never told of a descriptor that is not free, and it is told
\* that there are none only while a packet is on the ring whose completion
\* will correct that (dma32_txfast sets txavail to 0 when it fails).
TxavailSound ==
  txavail = Avail(txin, txout) \/ (txavail = 0 /\ txin # txout)

\* Exactly the descriptors between rxin and rxout have a buffer (the ASSERTs in
\* _dma_rxfill and dma32_getnextrxp), never more than nrxpost of them, and the
\* engine stores only into those.
RxRingSound ==
  /\ \A i \in RxSlot : rxp[i] <=> RxActive(i)
  /\ NRXDACTIVE(rxin, rxout) <= NRXPOST
  /\ dmaon => /\ NRXDACTIVE(rxin, rxcurr) <= NRXDACTIVE(rxin, rxout)
              /\ rxptr = rxout

\* Packets that wait in txq will be sent: when nobody holds the lock, either
\* something is on the ring whose completion runs the queue again, or the
\* tasklet is due; and the stack has been stopped only if packets wait.
BacklogHasWaker ==
  (up /\ pc = "free" /\ reinit = {}) =>
     /\ txq # <<>> => txin # txout \/ tasklet
     /\ stopped => txq # <<>>

\* et_isr and et_dpc hand over to each other: while et_isr may act, nothing an
\* interrupt has reported is left to do (the two assertions of et_isr), and
\* otherwise et_dpc is running or due; and whenever the lock is free, the chip
\* may interrupt or et_dpc is due.  The register may be on while et_dpc is due,
\* when et_isr came between the two writes that turn interrupts on: et_isr then
\* takes the interrupt for somebody else's.  (Not so once an administrator has
\* re-initialized the interface, which turns interrupts on while et_dpc is due.)
HandOver ==
  (up /\ reinit = {}) =>
     /\ chmask => events = {} /\ ~resched /\ chstatus = {}
     /\ pc = "free" => (chmask <=> ~tasklet) /\ (intmask \/ tasklet)

\* Unless an ioctl has re-initialized it, an interface that is down owns no packet
\* and no receive buffer, its engines and its interrupt are off: what dma_detach
\* asserts and frees memory upon.
DownIsQuiet ==
  (~up /\ pc = "free" /\ "down" \notin reinit) =>
     /\ live = {} /\ txin = txout /\ rxin = rxout
     /\ ~dmaon /\ ~intmask /\ stopped

(* n entries of a ring of the given size, from one on.                     *)
Window(ring, from, n, size) == [k \in 1 .. n |-> ring[Plus(from, k - 1, size)]]

(* What is accepted and not yet on the wire: in the ring, then in txq.     *)
TxQueue ==
  (IF dmaon THEN Filtered(Window(txp, txcurr, NTXDACTIVE(txcurr, txout), NTXD), Pkt)
            ELSE <<>>) \o txq

TxFifo == INSTANCE LossyFifo WITH Item <- Pkt, queue <- TxQueue

\* The packets the stack handed over wait in that order, in txq and then in the
\* ring; some are lost (no descriptors, reset, close), none overtakes another.
TransmitsInOrder == TxFifo!Spec

Sends == dmaon /\ txcurr # txptr /\ txd[txcurr].eof

\* What goes out on the wire is the oldest waiting packet, with all its buffers
\* and none of another packet, also when its chain ended in an empty buffer or
\* another chain ran out of descriptors halfway and left its buffers behind.  It
\* goes out as one frame, from the start-of-frame to the end-of-frame flag,
\* unless its chain began with an empty buffer: then no descriptor has the first.
WireGetsOldest ==
  [][txcurr' # txcurr /\ Sends =>
       \/ /\ Continues \/ HeadEmpty[txd[txcurr].pkt]
          /\ txd[txcurr].buf = Descs[txd[txcurr].pkt]
          /\ TxQueue # <<>> /\ txd[txcurr].pkt = Head(TxQueue)
          /\ TxQueue' = Tail(TxQueue)
       \/ pc = "reset"]_vars

(* What has arrived and fits a buffer, oldest first.                       *)
Proper == [frame : Frame \ Giant, part : {1}]

RxQueue ==
  IF dmaon THEN Filtered(Window(rxbuf, rxin, NRXDACTIVE(rxin, rxcurr), NRXD), Proper)
           ELSE <<>>

\* et_dpc hands the stack the oldest frame that fits a buffer, and never a
\* piece of a longer one, which _dma_rx skips; skipping loses no good frame.
StackGetsOldest ==
  [][pc = "rx" /\ rxin' # rxin =>
       IF processed' = processed
       THEN RxQueue' = RxQueue
       ELSE /\ RxQueue # <<>> /\ rxbuf[rxin] = Head(RxQueue)
            /\ RxQueue' = Tail(RxQueue)]_vars

\* A packet the driver owns is freed in the end: it is sent and reclaimed, or
\* dropped; also one that waited in txq for descriptors.
PacketsFreed ==
  \A p \in Pkt : []<>(p \notin live \/ reinit # {})

\* A received frame does not stay in the ring: while there are frames, et_dpc
\* goes on taking them, although it takes only RXBND at a time.
FramesTaken ==
  \/ []<>(~dmaon \/ rxin = rxcurr \/ reinit # {})
  \/ []<><<rxin' # rxin>>_vars
=============================================================================
