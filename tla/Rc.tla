--------------------------------- MODULE Rc ---------------------------------
(***************************************************************************)
(* rc, the router's process 1: the state machine of main_loop, its signal  *)
(* handler rc_signal, service_handle, and the processes that ask it for    *)
(* something: the rc command, httpd's restart and the lease renewal and    *)
(* release of httpd, which pass a request in the variable rc_service and   *)
(* then send SIGUSR1.                                                      *)
(*                                                                         *)
(* A signal is handled before the next step of main_loop, so sending it    *)
(* and running the handler is one action, which may fall between any two   *)
(* steps of the loop.  What start_lan, start_services and the others do is *)
(* abstracted to the parts of the system that are up.                      *)
(***************************************************************************)
EXTENDS Naturals, Sequences

CONSTANTS
  NoConsole,    \* did console_init fail?
  MaxSignals,   \* bound: signals of the rc command, httpd and the watchdog
  MaxNotes      \* bound: lease requests of httpd

ASSUME RcAssumption ==
  NoConsole \in BOOLEAN /\ MaxSignals \in Nat /\ MaxNotes \in Nat

None == "none"

(* The requests rc_signal records for the signals it is installed for.     *)
RequestOf(sig) ==
  IF sig = "SIGHUP" THEN "RESTART"
  ELSE IF sig = "SIGUSR2" THEN "START"
  ELSE IF sig = "SIGINT" THEN "STOP"
  ELSE IF sig = "SIGALRM" THEN "TIMER" ELSE "SERVICE"

Request  == {"RESTART", "STOP", "START", "TIMER", "SERVICE"}
Part     == {"lan", "services", "wan", "misc"}
StartSeq == <<"lan", "services", "wan", "misc">>
\* Mutant: the interfaces go down before what runs on them.
StopSeq_lanFirst == <<"lan", "misc", "services", "wan">>

StopSeq  == <<"misc", "services", "wan", "lan">>
Lease    == {"wan_connect", "wan_disconnect"}

VARIABLES
  state, signalled,   \* rc's two globals
  pc, idx,            \* where main_loop is, and in which start or stop call
  service,            \* service_handle's local
  shell,              \* is the console's shell alive?
  up,                 \* the parts of the system that are up
  rc_service,         \* the nvram variable
  note,               \* the request for which httpd has yet to send SIGUSR1
  signals, notes,
  loaded,             \* signalled, as read for state = signalled
  owed,               \* the request recorded last and not begun since
  missed,             \* was it recorded after that read, before the assignment?
  goal                \* the parts that the requests begun so far ask for

loop == <<pc, idx, loaded, service, up>>
clients == <<rc_service, note, signals, notes>>
history == <<owed, missed, goal>>
vars == <<loop, state, signalled, shell, clients, history>>

-----------------------------------------------------------------------------
(* Signals.                                                                *)

\* Mutant: a signal is recorded whatever rc is doing.
rc_signal_busy(sig) ==
  /\ signalled' = RequestOf(sig)
  /\ owed' = RequestOf(sig)
  /\ missed' = (pc = "store")

(* Only an idle rc takes note of a signal, and of the latest one only.     *)
rc_signal(sig) ==
  IF state = "IDLE"
  THEN signalled' = RequestOf(sig) /\ owed' = RequestOf(sig) /\ missed' = (pc = "store")
  ELSE UNCHANGED <<signalled, owed, missed>>

(* Any handler ends sigsuspend, and the console's select.                  *)
Wake == pc' = IF pc \in {"asleep", "select"} THEN "test" ELSE pc

(* rc restart, stop and start, and sys_restart of httpd.  (Nothing in this  *)
(* build sends SIGALRM: do_timer returns before it would set the alarm.)   *)
Commands == {"SIGHUP", "SIGINT", "SIGUSR2"}

Command(sig) ==
  /\ pc # "dead"
  /\ signals < MaxSignals
  /\ signals' = signals + 1
  /\ rc_signal(sig)
  /\ Wake
  /\ UNCHANGED <<state, idx, loaded, service, up, shell, rc_service, note, notes, goal>>

(* sys_renew and sys_release of httpd: set the variable, ...               *)
SetService(r) ==
  /\ "services" \in up /\ pc # "dead"
  /\ note = None
  /\ notes < MaxNotes
  /\ notes' = notes + 1
  /\ rc_service' = r
  /\ note' = r
  /\ UNCHANGED <<loop, state, signalled, shell, signals, history>>

(* ... then send the signal.                                               *)
NotifyRc ==
  /\ note # None /\ pc # "dead"
  /\ note' = None
  /\ rc_signal("SIGUSR1")
  /\ Wake
  /\ UNCHANGED <<state, idx, loaded, service, up, shell, rc_service, signals, notes, goal>>

(* SIGCHLD: reap only collects the child; the shell may be the one.        *)
reap ==
  /\ pc # "dead"
  /\ shell' \in {shell, FALSE}
  /\ Wake
  /\ UNCHANGED <<state, signalled, idx, loaded, service, up, clients, history>>

(* SIGTERM, from sys_reboot, the watchdog or the reset button: every        *)
(* process is killed and the machine reboots.                              *)
fatal_signal ==
  /\ pc' = "dead"
  /\ up' = {} /\ note' = None /\ shell' = FALSE
  /\ UNCHANGED <<state, signalled, idx, loaded, rc_service, notes, history>>

Reboot ==
  /\ pc # "dead"
  /\ signals < MaxSignals
  /\ signals' = signals + 1
  /\ fatal_signal
  /\ UNCHANGED service

-----------------------------------------------------------------------------
(* main_loop.                                                              *)

(* The case of the switch that a state enters.                             *)
\* Mutant: RESTART is refused by leaving the switch with the state unchanged.
CaseOf_refuse(s) ==
  IF s = "SERVICE" THEN "service"
  ELSE IF s = "STOP" THEN "stop"
  ELSE IF s = "START" THEN "start"
  ELSE IF s = "TIMER" THEN "timer"
  ELSE IF s = "RESTART" THEN "switch" ELSE "test"

CaseOf(s) ==
  IF s = "SERVICE" THEN "service"
  ELSE IF s \in {"RESTART", "STOP"} THEN "stop"
  ELSE IF s = "START" THEN "start"
  ELSE IF s = "TIMER" THEN "timer" ELSE "test"

Switch ==
  /\ pc = "switch"
  /\ pc' = CaseOf(state)
  /\ idx' = 1
  /\ UNCHANGED <<state, signalled, loaded, service, up, shell, clients, history>>

(* stop_misc, stop_services, stop_wan, stop_lan.  stop_services kills httpd *)
(* wherever it is.  STOP ends here, RESTART goes on with START.            *)
\* Mutant: the last of the stop calls is followed by the start calls.
Stop_fallThrough ==
  /\ pc = "stop"
  /\ up' = up \ {StopSeq[idx]}
  /\ note' = IF StopSeq[idx] = "services" THEN None ELSE note
  /\ \/ idx < Len(StopSeq) /\ idx' = idx + 1 /\ pc' = pc
     \/ idx = Len(StopSeq) /\ idx' = 1 /\ pc' = "start"
  /\ UNCHANGED <<state, signalled, loaded, service, shell, rc_service, signals, notes, history>>

Stop ==
  /\ pc = "stop"
  /\ up' = up \ {StopSeq[idx]}
  /\ note' = IF StopSeq[idx] = "services" THEN None ELSE note
  /\ \/ idx < Len(StopSeq) /\ idx' = idx + 1 /\ UNCHANGED <<pc, state>>
     \/ /\ idx = Len(StopSeq) /\ state = "STOP"
        /\ state' = "IDLE" /\ pc' = "switch" /\ UNCHANGED idx
     \/ /\ idx = Len(StopSeq) /\ state # "STOP"
        /\ idx' = 1 /\ pc' = "start" /\ UNCHANGED state
  /\ UNCHANGED <<signalled, loaded, service, shell, rc_service, signals, notes, history>>

(* start_lan, start_services, start_wan, start_misc.                       *)
\* Mutant: the loop over the start calls runs one past the last.
Start_onePast ==
  /\ pc = "start"
  /\ up' = up \cup {StartSeq[IF idx > 4 THEN 4 ELSE idx]}
  /\ \/ idx <= Len(StartSeq) /\ idx' = idx + 1 /\ pc' = pc
     \/ idx > Len(StartSeq) /\ idx' = idx /\ pc' = "timer"
  /\ UNCHANGED <<state, signalled, loaded, service, shell, clients, history>>

Start ==
  /\ pc = "start"
  /\ up' = up \cup {StartSeq[idx]}
  /\ \/ idx < Len(StartSeq) /\ idx' = idx + 1 /\ UNCHANGED pc
     \/ idx = Len(StartSeq) /\ pc' = "timer" /\ UNCHANGED idx
  /\ UNCHANGED <<state, signalled, loaded, service, shell, clients, history>>

(* do_timer sets the time zone; then rc is idle.                           *)
Timer ==
  /\ pc = "timer"
  /\ state' = "IDLE"
  /\ pc' = "test"
  /\ UNCHANGED <<signalled, idx, loaded, service, up, shell, clients, history>>

(***************************************************************************)
(* service_handle reads rc_service.  Without a value it sends itself a     *)
(* SIGHUP, which rc_signal ignores because the state is SERVICE, and reads *)
(* through the null pointer: SIGSEGV, hence fatal_signal.                  *)
(***************************************************************************)
ReadService ==
  /\ pc = "service"
  /\ service' = rc_service
  /\ \/ /\ rc_service # None
        /\ pc' = "serve"
        /\ goal' = IF rc_service = "wan_connect" THEN goal \cup {"wan"} ELSE goal \ {"wan"}
        /\ UNCHANGED <<state, signalled, idx, loaded, up, shell, rc_service, note, notes, owed, missed>>
     \/ rc_service = None /\ fatal_signal
  /\ UNCHANGED signals

(* The WAN client is told: udhcpc by a signal, pppd by stop and start.      *)
Serve ==
  /\ pc = "serve"
  /\ up' = IF service = "wan_connect" THEN up \cup {"wan"} ELSE up \ {"wan"}
  /\ pc' = "unset"
  /\ UNCHANGED <<state, signalled, idx, loaded, service, shell, clients, history>>

UnsetService ==
  /\ pc = "unset"
  /\ rc_service' = None
  /\ pc' = "served"
  /\ UNCHANGED <<state, signalled, idx, loaded, service, up, shell, note, signals, notes, history>>

Served ==
  /\ pc = "served"
  /\ state' = "IDLE"
  /\ pc' = "switch"
  /\ UNCHANGED <<signalled, idx, loaded, service, up, shell, clients, history>>

(***************************************************************************)
(* The wait: while nothing is signalled, offer a shell on the console, or  *)
(* sleep until a signal.  The test and the sleep are two steps.  The       *)
(* compiler may keep what the test has read for state = signalled, since   *)
(* signalled is not volatile, or read it again.                            *)
(***************************************************************************)
TestSignalled ==
  /\ pc = "test"
  /\ \/ /\ signalled # None
        /\ loaded' = signalled
        /\ pc' \in {"take", "store"}
     \/ /\ signalled = None
        /\ pc' = IF ~NoConsole /\ ~shell THEN "console" ELSE "suspend"
        /\ UNCHANGED loaded
  /\ UNCHANGED <<state, signalled, idx, service, up, shell, clients, history>>

Sleep ==
  /\ \/ pc = "suspend" /\ pc' = "asleep"
     \/ pc = "console" /\ pc' = "select"
  /\ UNCHANGED <<state, signalled, idx, loaded, service, up, shell, clients, history>>

(* run_shell forks a shell, if fork can.                                   *)
ConsoleInput ==
  /\ pc = "select"
  /\ shell' \in BOOLEAN
  /\ pc' = "test"
  /\ UNCHANGED <<state, signalled, idx, loaded, service, up, clients, history>>

(***************************************************************************)
(* state = signalled is a load and a store, with signals unblocked; only   *)
(* after the store is rc busy.  Then signalled = -1.                       *)
(***************************************************************************)
LoadSignalled ==
  /\ pc = "take"
  /\ loaded' = signalled
  /\ pc' = "store"
  /\ UNCHANGED <<state, signalled, idx, service, up, shell, clients, history>>

TakeState ==
  /\ pc = "store"
  /\ state' = loaded /\ loaded' = None
  /\ pc' = "taken"
  /\ owed' = IF owed = loaded THEN None ELSE owed
  /\ goal' = IF loaded = "STOP" THEN {}
             ELSE IF loaded \in {"START", "RESTART"} THEN Part ELSE goal
  /\ UNCHANGED <<signalled, idx, service, up, shell, clients, missed>>

ClearSignalled ==
  /\ pc = "taken"
  /\ signalled' = None
  /\ pc' = "switch"
  /\ UNCHANGED <<state, idx, loaded, service, up, shell, clients, history>>

-----------------------------------------------------------------------------
Init ==
  /\ state = "START" /\ signalled = None
  /\ pc = "switch" /\ idx = 1
  /\ service = None
  /\ shell = FALSE
  /\ up = {}
  /\ rc_service = None
  /\ note = None
  /\ signals = 0 /\ notes = 0
  /\ loaded = None
  /\ owed = None /\ missed = FALSE /\ goal = Part

(* The next boot: rc_service was never committed to flash.                 *)
Boot ==
  /\ pc = "dead"
  /\ state' = "START" /\ signalled' = None
  /\ pc' = "switch" /\ idx' = 1
  /\ service' = None /\ rc_service' = None
  /\ loaded' = None
  /\ owed' = None /\ missed' = FALSE /\ goal' = Part
  /\ UNCHANGED <<up, shell, note, signals, notes>>

main_loop ==
  \/ Switch \/ Stop \/ Start \/ Timer \/ ReadService \/ Serve \/ UnsetService
  \/ Served \/ TestSignalled \/ Sleep \/ LoadSignalled \/ TakeState \/ ClearSignalled

Next ==
  \/ main_loop
  \/ \E sig \in Commands : Command(sig)
  \/ \E r \in Lease : SetService(r)
  \/ NotifyRc \/ reap \/ ConsoleInput \/ Reboot \/ Boot

Spec == Init /\ [][Next]_vars

(* Process 1 is scheduled, its start and stop calls return, and the machine *)
(* comes up again.                                                         *)
FairSpec == Spec /\ WF_vars(main_loop) /\ WF_vars(Boot)

-----------------------------------------------------------------------------
(* Properties.                                                             *)

Waiting == {"test", "suspend", "asleep", "console", "select"}

\* The variables of main_loop, its handler and its clients keep their types.
TypeOK ==
  /\ state \in Request \cup {"IDLE"}
  /\ signalled \in Request \cup {None}
  /\ pc \in Waiting \cup {"switch", "stop", "start", "timer", "service", "serve",
                          "unset", "served", "take", "store", "taken", "dead"}
  /\ idx \in 1 .. 4
  /\ service \in Lease \cup {None}
  /\ shell \in BOOLEAN
  /\ up \subseteq Part
  /\ rc_service \in Lease \cup {None}
  /\ note \in Lease \cup {None}
  /\ signals \in 0 .. MaxSignals
  /\ notes \in 0 .. MaxNotes
  /\ loaded \in Request \cup {None}
  /\ owed \in Request \cup {None}
  /\ missed \in BOOLEAN
  /\ goal \subseteq Part

\* A request that rc_signal recorded is begun, or a later one takes its place,
\* unless it arrived inside the statement state = signalled, after signalled was
\* read: no other throws a request away, in particular not signalled = -1.
RecordedKept == owed # None /\ ~missed => signalled = owed

\* Nothing runs on a network that is down, whatever signals arrive while parts
\* are started and stopped: a lease request cannot bring the WAN up after a STOP.
LayersSound ==
  /\ up # {} => "lan" \in up
  /\ "misc" \in up => "services" \in up

\* When main_loop waits, the parts that are up are the ones that the requests
\* it has begun ask for: none of them ran in part or ran into the next.
SettledAsAsked == pc \in Waiting => up = goal

\* Whatever it is asked to do, rc becomes idle again.
ReturnsToIdle == (state # "IDLE") ~> (state = "IDLE")

\* "Wait for user input or state change": main_loop does not sleep on when the
\* state change has been signalled.
WakesForStateChange == pc \in {"asleep", "select"} => signalled = None

\* "Renew lease", "Release lease": a lease request of httpd does not take the
\* machine down.
LeaseRequestSafe == pc = "dead" => signals > 0
=============================================================================
