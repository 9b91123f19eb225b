----------------------------- MODULE TimerQueue -----------------------------
(***************************************************************************)
(* The timers of the user library, router/shared/linux_timer.c: any number *)
(* of timers on the one interval timer of a Unix process.  The queue keeps *)
(* for each timer the time after the one before it; the interval timer     *)
(* runs for the first.  The process's main program and the callbacks,      *)
(* which alarm_handler runs inside the SIGALRM handler, share the queue    *)
(* and the free list.  block_timer keeps the handler out of part of the    *)
(* code only, and does not stop the clock: an alarm that goes off meanwhile *)
(* is delivered later.                                                     *)
(*                                                                         *)
(* Time is counted in units of g_granularity.  The clients are those of    *)
(* the repository, upnp and bcmgpio: they set a timer that is not on the   *)
(* queue, they delete a timer once, and a callback may delete its own.     *)
(***************************************************************************)
EXTENDS Integers, Sequences, SequencesExt

CONSTANTS
  Timer,      \* the event structures that init_event_queue allocates
  Time,       \* times a client may ask for; 0 means: disarm
  MaxCalls,   \* bound: calls of the main program
  Nobody

ASSUME TimerAssumption ==
  /\ Time \subseteq Nat
  /\ MaxCalls \in Nat
  /\ Nobody \notin Timer
  /\ IsFiniteSet(Timer)

VARIABLES
  event_queue,      \* armed timers
  event_freelist,   \* structures not in use
  it_value,         \* time of expiry, after the timer before it on the queue
  it_interval,      \* period, or 0
  cancelled, deleted,  \* timers with TFLAG_CANCELLED, with TFLAG_DELETED
  itimer,           \* what is left of ITIMER_REAL; 0 when off
  alarm,            \* is SIGALRM pending?
  pc, event, after, \* main program: place, its timer, where timer_cancel returns
  next,             \* ... and event->next while it links event to the free list
  handler,          \* place in alarm_handler
  owned,            \* timers created and not deleted
  due,              \* time left, as asked for, of the timers on the queue
  calls

lists == <<event_queue, event_freelist>>
times == <<it_value, it_interval>>
flags == <<cancelled, deleted>>
clock == <<itimer, alarm>>
main  == <<pc, event, after, next>>
vars  == <<lists, times, flags, clock, main, handler, owned, due, calls>>

-----------------------------------------------------------------------------
\* Mutant: a time is taken as it is.
timerroundup_none(t) == t

(* A time below the granularity becomes one unit.                          *)
timerroundup(t) == IF t = 0 THEN 1 ELSE t

(* When the k-th timer of queue q expires.                                 *)
Expiry(q, val, k) ==
  LET sum[i \in 0 .. Len(q)] == IF i = 0 THEN 0 ELSE sum[i - 1] + val[q[i]]
  IN  sum[k]

(* The march down the list: how many timers expire before or with time v.  *)
Ahead(q, val, v) == Cardinality({k \in 1 .. Len(q) : Expiry(q, val, k) <= v})

(* Link timer t at its place, and make what follows relative to it.        *)
Link(q, val, t, v) ==
  LET k    == Ahead(q, val, v)
      rest == v - Expiry(q, val, k)
  IN  /\ event_queue' = InsertAt(q, k + 1, t)
      /\ it_value' = [u \in Timer |->
                        IF u = t THEN rest
                        ELSE IF k < Len(q) /\ u = q[k + 1] THEN val[u] - rest
                        ELSE val[u]]

Place(s, t) == CHOOSE i \in DOMAIN s : s[i] = t

Armed == ToSet(event_queue)
Free  == ToSet(event_freelist)

(* The places of the main program at which SIGALRM is blocked.             *)
Blocked == pc \in {"insert", "issue", "remove", "reissue"}

Call ==
  /\ pc = "run" /\ handler = "no"
  /\ calls < MaxCalls
  /\ calls' = calls + 1

(* The main program does not run while the handler does.                   *)
At(l) == pc = l /\ handler = "no"

-----------------------------------------------------------------------------
(* timer_create takes the first free structure, without blocking.  Without *)
(* one the assertion fails.                                                *)
timer_create ==
  /\ Call
  /\ owned # Timer
  /\ IF event_freelist = <<>>
     THEN pc' = "dead" /\ UNCHANGED event
     ELSE pc' = "pop" /\ event' = Head(event_freelist)
  /\ UNCHANGED <<lists, times, flags, clock, after, next, handler, owned, due>>

(* What is before it on the list by now, put there by a callback, is lost. *)
Pop ==
  /\ At("pop")
  /\ pc' = "run"
  /\ cancelled' = cancelled \ {event}
  /\ deleted' = deleted \ {event}
  /\ event_freelist' = SubSeq(event_freelist, Place(event_freelist, event) + 1,
                              Len(event_freelist))
  /\ owned' = owned \cup {event}
  /\ UNCHANGED <<event_queue, times, clock, event, after, next, handler, due, calls>>

(* timer_settime writes the times before it blocks SIGALRM.                *)
timer_settime(t, value, period) ==
  /\ Call
  /\ t \in owned \ Armed
  /\ it_value' = [it_value EXCEPT ![t] = value]
  /\ it_interval' = [it_interval EXCEPT ![t] = period]
  /\ event' = t
  /\ after' = "run"
  /\ pc' = IF value # 0 THEN "set"
           ELSE IF t \in cancelled THEN "run" ELSE "cancel"
  /\ UNCHANGED <<lists, flags, clock, next, handler, owned, due>>

block_timer ==
  /\ \/ At("set") /\ pc' = "insert"
     \/ At("cancel") /\ pc' = "remove"
  /\ UNCHANGED <<lists, times, flags, clock, event, after, next, handler, owned, due, calls>>

(* The first timer's time becomes what is left of it.                      *)
Current ==
  IF itimer > 0 /\ event_queue # <<>> /\ itimer <= it_value[Head(event_queue)]
  THEN [it_value EXCEPT ![Head(event_queue)] = itimer]
  ELSE it_value

\* Mutant: the interval timer is left alone.
FrontAfter_ignored(q) == "run"

(* The interval timer is set anew if the timer ended up in front.          *)
FrontAfter(q) == IF Head(q) = event THEN "issue" ELSE "run"

Insert ==
  /\ At("insert")
  /\ Link(event_queue, Current, event, timerroundup(it_value[event]))
  /\ cancelled' = cancelled \ {event}
  /\ due' = [due EXCEPT ![event] = timerroundup(it_value[event])]
  /\ pc' = FrontAfter(event_queue')
  /\ UNCHANGED <<event_freelist, it_interval, deleted, clock, event, after, next, handler, owned, calls>>

(* setitimer for the first timer of the queue.                             *)
SetItimer ==
  /\ itimer' = timerroundup(it_value[Head(event_queue)])
  /\ it_value' = [it_value EXCEPT ![Head(event_queue)] = timerroundup(@)]

Issue ==
  /\ At("issue")
  /\ SetItimer
  /\ pc' = "run"
  /\ UNCHANGED <<lists, it_interval, flags, alarm, event, after, next, handler, owned, due, calls>>

-----------------------------------------------------------------------------
(* timer_cancel, alone or for timer_delete.                                *)
timer_cancel(t) ==
  /\ Call
  /\ t \in owned
  /\ event' = t
  /\ after' = "run"
  /\ pc' = IF t \in cancelled THEN "run" ELSE "cancel"
  /\ UNCHANGED <<lists, times, flags, clock, next, handler, owned, due>>

timer_delete(t) ==
  /\ Call
  /\ t \in owned
  /\ event' = t
  /\ after' = "free"
  /\ pc' = IF t \in cancelled THEN "free" ELSE "cancel"
  /\ UNCHANGED <<lists, times, flags, clock, next, handler, owned, due>>

\* Mutant: the two times are subtracted the other way round.
Passed_swapped == itimer - it_value[event]

(* What is added to the second timer when the first one goes: the first    *)
(* one's time less what is left of it, which is the time passed so far.    *)
Passed == it_value[event] - itimer

Unlink ==
  /\ At("remove")
  /\ cancelled' = cancelled \cup {event}
  /\ due' = [due EXCEPT ![event] = 0]
  /\ \/ /\ event \notin Armed
        /\ pc' = after
        /\ UNCHANGED <<event_queue, it_value>>
     \/ /\ event \in Armed
        /\ event_queue' = RemoveAt(event_queue, Place(event_queue, event))
        /\ it_value' = IF event = Head(event_queue) /\ Len(event_queue) > 1
                       THEN [it_value EXCEPT ![event] = Passed,
                                             ![event_queue[2]] = @ + Passed]
                       ELSE it_value
        /\ pc' = "reissue"
  /\ UNCHANGED <<event_freelist, it_interval, deleted, clock, event, after, next, handler, owned, calls>>

(* The first timer starts over, whichever one was removed.                 *)
Reissue ==
  /\ At("reissue")
  /\ \/ event_queue # <<>> /\ SetItimer
     \/ event_queue = <<>> /\ itimer' = 0 /\ UNCHANGED it_value
  /\ pc' = after
  /\ UNCHANGED <<lists, it_interval, flags, alarm, event, after, next, handler, owned, due, calls>>

(* event->next = event_freelist, then event_freelist = event, unblocked.   *)
FreeNext ==
  /\ At("free")
  /\ deleted' = deleted \cup {event}
  /\ next' = event_freelist
  /\ pc' = "link"
  /\ UNCHANGED <<lists, times, cancelled, clock, event, after, handler, owned, due, calls>>

FreeLink ==
  /\ At("link")
  /\ event_freelist' = <<event>> \o next
  /\ owned' = owned \ {event}
  /\ next' = <<>>
  /\ pc' = "run"
  /\ UNCHANGED <<event_queue, times, flags, clock, event, after, handler, due, calls>>

-----------------------------------------------------------------------------
(* alarm_handler.                                                          *)

Deliver ==
  /\ alarm /\ handler = "no"
  /\ ~Blocked /\ pc # "dead"
  /\ alarm' = FALSE
  /\ handler' = "loop"
  /\ UNCHANGED <<lists, times, flags, itimer, main, owned, due, calls>>

(* The callback of timer t calls timer_delete, unless the main program is  *)
(* in the middle of doing that.                                            *)
CallbackDeletes(t) ==
  /\ pc # "run" => event # t
  /\ cancelled' = cancelled \cup {t}
  /\ deleted' = deleted \cup {t}
  /\ event_freelist' = <<t>> \o event_freelist
  /\ owned' = owned \ {t}

\* Mutant: the flag that the callback has set is not looked at.
Recurring_always(t) == it_interval[t] # 0

Recurring(t) == it_interval[t] # 0 /\ t \notin cancelled'

(* Take the first timer off, run its callback, and put it back if it       *)
(* recurs.  The loop goes on while the next one has expired too.           *)
Expire ==
  /\ handler = "loop" /\ event_queue # <<>>
  /\ LET t == Head(event_queue)
         q == Tail(event_queue)
     IN /\ \/ CallbackDeletes(t)
           \/ UNCHANGED <<event_freelist, flags, owned>>
        /\ \/ /\ Recurring(t)
              /\ Link(q, it_value, t, timerroundup(it_interval[t]))
              /\ due' = [due EXCEPT ![t] = timerroundup(it_interval[t])]
           \/ /\ ~Recurring(t)
              /\ event_queue' = q
              /\ due' = [due EXCEPT ![t] = 0]
              /\ UNCHANGED it_value
  /\ handler' = IF event_queue' # <<>> /\ it_value'[Head(event_queue')] = 0
                THEN "loop" ELSE "reissue"
  /\ UNCHANGED <<it_interval, clock, main, calls>>

(* With an empty queue the handler reads through a null pointer.           *)
Segv ==
  /\ handler = "loop" /\ event_queue = <<>>
  /\ handler' = "no"
  /\ pc' = "dead"
  /\ UNCHANGED <<lists, times, flags, clock, event, after, next, owned, due, calls>>

\* Mutant: the interval timer is not set again.
HandlerReissue_none ==
  /\ handler = "reissue"
  /\ handler' = "no"
  /\ UNCHANGED <<lists, times, flags, clock, main, owned, due, calls>>

HandlerReissue ==
  /\ handler = "reissue"
  /\ \/ event_queue # <<>> /\ SetItimer
     \/ event_queue = <<>> /\ UNCHANGED <<itimer, it_value>>
  /\ handler' = "no"
  /\ UNCHANGED <<lists, it_interval, flags, alarm, main, owned, due, calls>>

alarm_handler == Deliver \/ Expire \/ Segv \/ HandlerReissue

(* A unit of time passes; the interval timer goes off when it runs out.    *)
Tick ==
  /\ pc # "dead"
  /\ itimer > 0
  /\ itimer' = itimer - 1
  /\ alarm' = (alarm \/ itimer = 1)
  /\ due' = [t \in Timer |-> IF due[t] = 0 THEN 0 ELSE due[t] - 1]
  /\ UNCHANGED <<lists, times, flags, main, handler, owned, calls>>

-----------------------------------------------------------------------------
(* init_event_queue.                                                       *)
Init ==
  /\ event_queue = <<>>
  /\ event_freelist = SetToSeq(Timer)
  /\ it_value = [t \in Timer |-> 0]
  /\ it_interval = [t \in Timer |-> 0]
  /\ cancelled = {} /\ deleted = {}
  /\ itimer = 0 /\ alarm = FALSE
  /\ pc = "run" /\ event = Nobody /\ after = "run" /\ next = <<>>
  /\ handler = "no"
  /\ owned = {}
  /\ due = [t \in Timer |-> 0]
  /\ calls = 0

Library ==
  \/ Pop \/ block_timer \/ Insert \/ Issue \/ Unlink \/ Reissue
  \/ FreeNext \/ FreeLink

Next ==
  \/ timer_create
  \/ \E t \in Timer, value, period \in Time : timer_settime(t, value, period)
  \/ \E t \in Timer : timer_cancel(t) \/ timer_delete(t)
  \/ Library \/ alarm_handler \/ Tick

Spec == Init /\ [][Next]_vars

(* The process is scheduled and time passes.                               *)
FairSpec == Spec /\ WF_vars(Library) /\ WF_vars(alarm_handler) /\ WF_vars(Tick)

-----------------------------------------------------------------------------
(* Properties.                                                             *)

\* The variables of the timer library keep their types: no time is negative.
TypeOK ==
  /\ event_queue \in Seq(Timer)
  /\ event_freelist \in Seq(Timer)
  /\ it_value \in [Timer -> Nat]
  /\ it_interval \in [Timer -> Nat]
  /\ cancelled \subseteq Timer /\ deleted \subseteq Timer
  /\ itimer \in Nat /\ alarm \in BOOLEAN
  /\ pc \in {"run", "pop", "set", "insert", "issue", "cancel", "remove",
             "reissue", "free", "link", "dead"}
  /\ event \in Timer \cup {Nobody}
  /\ after \in {"run", "free"}
  /\ next \in Seq(Timer)
  /\ handler \in {"no", "loop", "reissue"}
  /\ owned \subseteq Timer
  /\ due \in [Timer -> Nat]
  /\ calls \in 0 .. MaxCalls

\* Although main program and callbacks share the structures and their next
\* pointers, the queue never loops back on itself (check_event_queue), and no
\* structure is on the queue and free: a timer on it belongs to a client and is
\* not cancelled.
QueueSound ==
  /\ IsInjective(event_queue) /\ IsInjective(event_freelist)
  /\ Armed \cap Free = {}
  /\ Armed \subseteq owned
  /\ Armed \cap cancelled = {}

\* Whenever the handler could run, a timer that waits is waited for: the
\* interval timer is on, or its alarm is pending, and it is not set for later
\* than the first timer ("ERROR timer expires later than top event").
AlarmSet ==
  ~Blocked /\ handler = "no" /\ pc # "dead" /\ event_queue # <<>> =>
     /\ itimer > 0 \/ alarm
     /\ itimer <= it_value[Head(event_queue)]

\* A timer that is set gets its callback or is cancelled, unless the process
\* dies: the alarm is never lost for good, whatever is set, cancelled and
\* deleted around it.
Called(t) == handler = "loop" /\ event_queue # <<>> /\ Head(event_queue) = t

Expires ==
  \A t \in Timer : (t \in Armed) ~> (Called(t) \/ t \notin Armed \/ pc = "dead")

\* "add any remainder to the next timer in the list": with no alarm pending, no
\* timer is going to expire before the time it was set for.
PlannedInTime ==
  pc = "run" /\ handler = "no" /\ ~alarm =>
     \A k \in DOMAIN event_queue :
        due[event_queue[k]] <= itimer + Expiry(event_queue, it_value, k)
                                      - Expiry(event_queue, it_value, 1)
=============================================================================
