------------------------------ MODULE RcProofs ------------------------------
(***************************************************************************)
(* Proofs about Rc, for any number of signals and lease requests, with and *)
(* without a console.                                                      *)
(***************************************************************************)
EXTENDS Rc, TLAPS

USE RcAssumption DEF None, clients, history

(* Between the wait and the end of a case, main_loop is busy and the        *)
(* handler records nothing.                                                *)
Busy == {"stop", "start", "timer", "service", "serve", "unset", "served"}

LoopInv ==
  /\ pc \in Waiting \cup {"take", "store"} => state = "IDLE"
  /\ pc = "take" => signalled # None
  /\ pc = "store" => /\ loaded # None /\ signalled # None
                     /\ ~missed => owed \in {loaded, None}
  /\ pc = "taken" => state # "IDLE" /\ signalled # None /\ (~missed => owed = None)
  /\ pc \in Busy => state # "IDLE" /\ signalled = None
  /\ pc = "switch" => state = "IDLE" \/ signalled = None
  /\ pc = "stop" => state \in {"STOP", "RESTART"}
  /\ pc \in {"start", "timer"} => state # "SERVICE"
  /\ pc \in {"service", "serve", "unset", "served"} => state = "SERVICE"

(* How far the stop and start calls have come.                             *)
StopInv ==
  pc = "stop" => /\ idx >= 2 => "misc" \notin up
                 /\ idx >= 3 => "services" \notin up
                 /\ idx >= 4 => "wan" \notin up

StartInv ==
  pc = "start" => /\ idx >= 2 => "lan" \in up
                  /\ idx >= 3 => "services" \in up

(* Whoever asks for a lease runs on the LAN, and it stays up until the      *)
(* request is served or forgotten.                                         *)
LeaseInv ==
  /\ note # None => "services" \in up
  /\ pc # "dead" /\ (signalled = "SERVICE" \/ state = "SERVICE") => "lan" \in up
  /\ pc = "store" /\ loaded = "SERVICE" => "lan" \in up

IInv ==
  TypeOK /\ LoopInv /\ StopInv /\ StartInv /\ LeaseInv /\ RecordedKept /\ LayersSound

-----------------------------------------------------------------------------
LEMMA IInvInit == Init => IInv
<1> SUFFICES ASSUME Init PROVE IInv
  OBVIOUS
<1>1. up \subseteq Part /\ goal \subseteq Part /\ shell \in BOOLEAN /\ missed \in BOOLEAN
  BY Zenon DEF Init
<1>2. TypeOK
  BY <1>1 DEF Init, TypeOK, Request
<1>3. LoopInv /\ StopInv /\ StartInv
  BY DEF Init, LoopInv, StopInv, StartInv, Waiting, Busy
<1>4. LeaseInv /\ RecordedKept /\ LayersSound
  BY DEF Init, LeaseInv, RecordedKept, LayersSound
<1> QED
  BY <1>2, <1>3, <1>4 DEF IInv

(* A signal that rc_signal handles, SIGUSR1 from a process on the LAN.     *)
LEMMA SignalStep ==
  ASSUME IInv, NEW sig, sig \in Commands \/ (sig = "SIGUSR1" /\ "lan" \in up),
         pc # "dead", rc_signal(sig), Wake,
         UNCHANGED <<state, idx, loaded, service, up, shell, rc_service, goal>>,
         note' \in {note, None},
         signals' \in 0 .. MaxSignals, notes' \in 0 .. MaxNotes
  PROVE  IInv'
<1> USE DEF IInv
<1>0. RequestOf(sig) \in Request
  BY DEF RequestOf, Request
<1>1. RequestOf(sig) = "SERVICE" => "lan" \in up
  BY DEF RequestOf, Commands
<1>2. TypeOK'
  BY <1>0 DEF rc_signal, Wake, TypeOK, Waiting
<1>3. LoopInv'
  <2> LoopInv /\ signalled \in Request \cup {None} /\ "IDLE" \notin Request
    BY DEF TypeOK, Request
  <2>0. RequestOf(sig) # None
    BY <1>0 DEF Request
  <2>1. CASE state = "IDLE"
    BY <2>0, <2>1 DEF rc_signal, Wake, LoopInv, Waiting, Busy
  <2>2. CASE state # "IDLE"
    BY <2>2 DEF rc_signal, Wake, LoopInv, Waiting, Busy
  <2> QED
    BY <2>1, <2>2
<1>4. StopInv' /\ StartInv' /\ LayersSound'
  BY DEF Wake, StopInv, StartInv, LayersSound
<1>5. LeaseInv'
  BY <1>1 DEF rc_signal, Wake, LeaseInv
<1>6. RecordedKept'
  BY DEF rc_signal, RecordedKept
<1> QED
  BY <1>2, <1>3, <1>4, <1>5, <1>6

(* The steps of main_loop.                                                 *)
LEMMA LoopStep ==
  ASSUME IInv, main_loop
  PROVE  IInv'
<1> USE DEF IInv
<1>0. /\ TypeOK /\ LoopInv /\ StopInv /\ StartInv /\ LeaseInv
      /\ RecordedKept /\ LayersSound
  OBVIOUS
<1>s. /\ Len(StopSeq) = 4 /\ Len(StartSeq) = 4
      /\ StopSeq[1] = "misc" /\ StopSeq[2] = "services" /\ StopSeq[3] = "wan"
      /\ StopSeq[4] = "lan"
      /\ StartSeq[1] = "lan" /\ StartSeq[2] = "services" /\ StartSeq[3] = "wan"
      /\ StartSeq[4] = "misc"
  BY DEF StopSeq, StartSeq
<1>i. idx \in 1 .. 4 /\ idx \in {1, 2, 3, 4} /\ state \in Request \cup {"IDLE"}
  BY <1>0 DEF TypeOK
<1>1. CASE Switch
  <2>0. pc' \in Busy \cup {"test"} /\ pc = "switch"
    BY <1>1, <1>i DEF Switch, CaseOf, Busy, Request
  <2>1. TypeOK'
    BY <1>0, <1>1, <1>i DEF Switch, CaseOf, TypeOK, Waiting
  <2>2. LoopInv'
    BY <1>0, <1>1, <1>i, <2>0 DEF Switch, CaseOf, LoopInv, Waiting, Busy, Request
  <2>3. StopInv' /\ StartInv' /\ LayersSound' /\ RecordedKept'
    BY <1>0, <1>1 DEF Switch, StopInv, StartInv, LayersSound, RecordedKept
  <2>4. LeaseInv'
    BY <1>0, <1>1, <2>0 DEF Switch, LeaseInv, Busy
  <2> QED
    BY <2>1, <2>2, <2>3, <2>4
<1>2. CASE Stop
  <2>1. /\ pc' \in {"stop", "switch", "start"} /\ idx' \in 1 .. 4
        /\ state' \in Request \cup {"IDLE"} /\ up' \subseteq Part
        /\ note' \in Lease \cup {None}
    BY <1>0, <1>2, <1>i, <1>s DEF Stop, TypeOK, Request
  <2>2. TypeOK'
    BY <1>0, <1>2, <2>1 DEF Stop, TypeOK
  <2>3. LoopInv'
    BY <1>0, <1>2, <1>s DEF Stop, LoopInv, Waiting, Busy
  <2>4. RecordedKept'
    BY <1>0, <1>2 DEF Stop, RecordedKept
  <2>5. StartInv'
    BY <1>2, <1>s, <1>i DEF Stop, StartInv
  <2>6. CASE idx = 1
    BY <1>0, <1>2, <1>s, <2>2, <2>3, <2>4, <2>5, <2>6
       DEF Stop, StopInv, LayersSound, LeaseInv, LoopInv, Busy
  <2>7. CASE idx = 2
    BY <1>0, <1>2, <1>s, <2>2, <2>3, <2>4, <2>5, <2>7
       DEF Stop, StopInv, LayersSound, LeaseInv, LoopInv, Busy
  <2>8. CASE idx = 3
    BY <1>0, <1>2, <1>s, <2>2, <2>3, <2>4, <2>5, <2>8
       DEF Stop, StopInv, LayersSound, LeaseInv, LoopInv, Busy
  <2>9. CASE idx = 4
    <3>1. up' = {}
      <4>1. up' = up \ {"lan"} /\ up \subseteq Part
        BY <1>0, <1>2, <1>s, <2>9 DEF Stop, TypeOK
      <4>2. "misc" \notin up /\ "services" \notin up /\ "wan" \notin up
        BY <1>0, <1>2, <2>9 DEF Stop, StopInv
      <4> QED
        BY <4>1, <4>2 DEF Part
    <3>2. note' = None
      BY <1>0, <1>2, <1>s, <2>9 DEF Stop, StopInv, LeaseInv
    <3> QED
      BY <1>0, <1>2, <1>s, <2>2, <2>3, <2>4, <2>5, <2>9, <3>1, <3>2
         DEF Stop, StopInv, LayersSound, LeaseInv, LoopInv, Busy
  <2> QED
    BY <1>i, <2>6, <2>7, <2>8, <2>9
<1>3. CASE Start
  <2>0. StartSeq[idx] \in Part
    BY <1>i, <1>s DEF Part
  <2>1. pc' \in {"start", "timer"} /\ idx' \in 1 .. 4 /\ up' \subseteq Part
    <3>1. pc' \in {"start", "timer"} /\ idx' \in 1 .. 4
      BY <1>3, <1>i, <1>s DEF Start
    <3>2. up' = up \cup {StartSeq[idx]} /\ up \subseteq Part
      BY <1>0, <1>3 DEF Start, TypeOK
    <3> QED
      BY <2>0, <3>1, <3>2
  <2>2. TypeOK'
    BY <1>0, <1>3, <2>1 DEF Start, TypeOK
  <2>3. LoopInv'
    BY <1>0, <1>3 DEF Start, LoopInv, Waiting, Busy
  <2>4. RecordedKept' /\ StopInv' /\ LeaseInv'
    BY <1>0, <1>3 DEF Start, RecordedKept, StopInv, LeaseInv
  <2>5. StartInv' /\ LayersSound'
    BY <1>0, <1>3, <1>s, <1>i DEF Start, StartInv, LayersSound
  <2> QED
    BY <2>2, <2>3, <2>4, <2>5
<1>4. CASE Timer
  BY <1>0, <1>4 DEF Timer, TypeOK, LoopInv, StopInv, StartInv, LeaseInv,
     RecordedKept, LayersSound, Waiting, Busy
<1>5. CASE ReadService
  <2>1. CASE rc_service # None
    BY <1>0, <1>5, <2>1 DEF ReadService, TypeOK, LoopInv, StopInv, StartInv,
       LeaseInv, RecordedKept, LayersSound, Waiting, Busy, Part
  <2>2. CASE rc_service = None
    BY <1>0, <1>5, <2>2 DEF ReadService, fatal_signal, TypeOK, LoopInv, StopInv,
       StartInv, LeaseInv, RecordedKept, LayersSound, Waiting, Busy
  <2> QED
    BY <2>1, <2>2
<1>6. CASE Serve
  <2>1. up' \subseteq Part
    BY <1>0, <1>6 DEF Serve, TypeOK, Part
  <2>2. TypeOK'
    BY <1>0, <1>6, <2>1 DEF Serve, TypeOK
  <2>3. LoopInv' /\ StopInv' /\ StartInv' /\ RecordedKept'
    BY <1>0, <1>6 DEF Serve, LoopInv, StopInv, StartInv, RecordedKept, Waiting, Busy
  <2>4. state = "SERVICE"
    BY <1>0, <1>6 DEF Serve, LoopInv
  <2>5. "lan" \in up
    BY <1>0, <1>6, <2>4 DEF Serve, LeaseInv
  <2>6. LeaseInv' /\ LayersSound'
    BY <1>0, <1>6, <2>5 DEF Serve, LeaseInv, LayersSound
  <2> QED
    BY <2>2, <2>3, <2>6
<1>7. CASE UnsetService
  BY <1>0, <1>7 DEF UnsetService, TypeOK, LoopInv, StopInv, StartInv, LeaseInv,
     RecordedKept, LayersSound, Waiting, Busy
<1>8. CASE Served
  BY <1>0, <1>8 DEF Served, TypeOK, LoopInv, StopInv, StartInv, LeaseInv,
     RecordedKept, LayersSound, Waiting, Busy
<1>9. CASE TestSignalled
  BY <1>0, <1>9 DEF TestSignalled, TypeOK, LoopInv, StopInv, StartInv, LeaseInv,
     RecordedKept, LayersSound, Waiting, Busy
<1>10. CASE Sleep
  BY <1>0, <1>10 DEF Sleep, TypeOK, LoopInv, StopInv, StartInv, LeaseInv,
     RecordedKept, LayersSound, Waiting, Busy
<1>11. CASE LoadSignalled
  BY <1>0, <1>11 DEF LoadSignalled, TypeOK, LoopInv, StopInv, StartInv, LeaseInv,
     RecordedKept, LayersSound, Waiting, Busy
<1>12. CASE TakeState
  <2>1. pc = "store" /\ pc' = "taken" /\ state' = loaded /\ loaded \in Request /\ "IDLE" \notin Request
    BY <1>0, <1>12 DEF TakeState, TypeOK, LoopInv, Request
  <2>2. TypeOK'
    BY <1>0, <1>12, <2>1 DEF TakeState, TypeOK, Part
  <2>3. LoopInv'
    BY <1>0, <1>12, <2>1 DEF TakeState, LoopInv, Waiting, Busy
  <2>4. StopInv' /\ StartInv' /\ LeaseInv' /\ LayersSound'
    BY <1>0, <1>12, <2>1 DEF TakeState, StopInv, StartInv, LeaseInv, LayersSound
  <2>5. RecordedKept'
    BY <1>0, <1>12, <2>1 DEF TakeState, LoopInv, RecordedKept
  <2> QED
    BY <2>2, <2>3, <2>4, <2>5
<1>13. CASE ClearSignalled
  BY <1>0, <1>13 DEF ClearSignalled, TypeOK, LoopInv, StopInv, StartInv, LeaseInv,
     RecordedKept, LayersSound, Waiting, Busy
<1> QED
  BY <1>1, <1>2, <1>3, <1>4, <1>5, <1>6, <1>7, <1>8, <1>9, <1>10, <1>11, <1>12, <1>13
     DEF main_loop

(* The other processes, the console and the reboot.                        *)
LEMMA OtherStep ==
  ASSUME IInv, (\E r \in Lease : SetService(r)) \/ reap \/ ConsoleInput \/ Reboot \/ Boot
  PROVE  IInv'
<1>0. /\ TypeOK /\ LoopInv /\ StopInv /\ StartInv /\ LeaseInv
      /\ RecordedKept /\ LayersSound
  BY DEF IInv
<1> USE DEF IInv, LoopInv, StopInv, StartInv, LeaseInv, RecordedKept, LayersSound
<1>1. ASSUME NEW r \in Lease, SetService(r) PROVE IInv'
  <2>1. TypeOK'
    BY <1>0, <1>1 DEF SetService, loop, TypeOK
  <2> QED
    BY <1>0, <1>1, <2>1 DEF SetService, loop
<1>2. CASE reap
  <2>1. TypeOK'
    BY <1>0, <1>2 DEF reap, Wake, TypeOK, Waiting
  <2> QED
    BY <1>0, <1>2, <2>1 DEF reap, Wake, Waiting, Busy
<1>3. CASE ConsoleInput
  BY <1>0, <1>3 DEF ConsoleInput, TypeOK, Waiting, Busy
<1>4. CASE Reboot
  <2>0. up' \subseteq Part /\ shell' \in BOOLEAN
    BY <1>4, Zenon DEF Reboot, fatal_signal
  <2>1. TypeOK'
    BY <1>0, <1>4, <2>0 DEF Reboot, fatal_signal, TypeOK
  <2> QED
    BY <1>0, <1>4, <2>1 DEF Reboot, fatal_signal, Waiting, Busy
<1>5. CASE Boot
  <2>0. missed' \in BOOLEAN
    BY <1>5, Zenon DEF Boot
  <2>1. TypeOK'
    BY <1>0, <1>5, <2>0 DEF Boot, TypeOK, Request, Part
  <2> QED
    BY <1>0, <1>5, <2>1 DEF Boot, Waiting, Busy
<1> QED
  BY <1>1, <1>2, <1>3, <1>4, <1>5

LEMMA IInvNext == IInv /\ [Next]_vars => IInv'
<1> SUFFICES ASSUME IInv, [Next]_vars PROVE IInv'
  OBVIOUS
<1>0. TypeOK /\ LeaseInv /\ LayersSound
  BY DEF IInv
<1>1. CASE main_loop
  BY <1>1, LoopStep
<1>2. ASSUME NEW sig \in Commands, Command(sig) PROVE IInv'
  <2>1. signals' \in 0 .. MaxSignals /\ notes' \in 0 .. MaxNotes
    BY <1>0, <1>2 DEF Command, TypeOK
  <2> QED
    BY <1>2, <2>1, SignalStep DEF Command
<1>3. CASE NotifyRc
  <2>1. "lan" \in up
    BY <1>0, <1>3 DEF NotifyRc, LeaseInv, LayersSound
  <2>2. signals' \in 0 .. MaxSignals /\ notes' \in 0 .. MaxNotes
    BY <1>0, <1>3 DEF NotifyRc, TypeOK
  <2> QED
    BY <1>3, <2>1, <2>2, SignalStep DEF NotifyRc
<1>4. CASE (\E r \in Lease : SetService(r)) \/ reap \/ ConsoleInput \/ Reboot \/ Boot
  BY <1>4, OtherStep
<1>5. CASE UNCHANGED vars
  BY <1>5 DEF vars, loop, IInv, TypeOK, LoopInv, StopInv, StartInv, LeaseInv,
     RecordedKept, LayersSound
<1> QED
  BY <1>1, <1>2, <1>3, <1>4, <1>5 DEF Next

\* A request that rc_signal recorded is thrown away unserved only if it arrived
\* between the load and the store of state = signalled: otherwise main_loop begins
\* it, or rc_signal replaced it by a later one.
THEOREM RequestsKept == Spec => []RecordedKept
<1>1. IInv => RecordedKept
  BY DEF IInv
<1> QED
  BY <1>1, IInvInit, IInvNext, PTL DEF Spec

\* Whatever signals arrive while parts are started and stopped, nothing runs on
\* a LAN that is down; in particular no lease request outlives a STOP.
THEOREM LayersKept == Spec => []LayersSound
<1>1. IInv => LayersSound
  BY DEF IInv
<1> QED
  BY <1>1, IInvInit, IInvNext, PTL DEF Spec

\* The variables of main_loop, its handler and its clients keep their types, for
\* any number of signals and lease requests.
THEOREM TypeCorrect == Spec => []TypeOK
<1>1. IInv => TypeOK
  BY DEF IInv
<1> QED
  BY <1>1, IInvInit, IInvNext, PTL DEF Spec

-----------------------------------------------------------------------------
(* What the request in hand asks for, at every place of main_loop.         *)
AskedInv ==
  /\ pc \in Waiting \cup {"take", "store", "timer", "service", "unset", "served"} => up = goal
  /\ pc \in {"taken", "switch"} =>
       \/ state = "STOP" /\ goal = {}
       \/ state \in {"START", "RESTART"} /\ goal = Part
       \/ state \notin {"STOP", "START", "RESTART"} /\ up = goal
  /\ pc = "stop" => goal = (IF state = "STOP" THEN {} ELSE Part)
  /\ pc = "start" => goal = Part /\ (idx >= 4 => "wan" \in up)
  /\ pc = "serve" =>
       goal = (IF service = "wan_connect" THEN up \cup {"wan"} ELSE up \ {"wan"})

LEMMA AskedInit == Init => AskedInv
BY DEF Init, AskedInv, Waiting

LEMMA AskedLoop ==
  ASSUME IInv, AskedInv, main_loop
  PROVE  AskedInv'
<1>s. /\ Len(StopSeq) = 4 /\ Len(StartSeq) = 4
      /\ StopSeq[4] = "lan" /\ StartSeq[3] = "wan" /\ StartSeq[4] = "misc"
  BY DEF StopSeq, StartSeq
<1>i. idx \in {1, 2, 3, 4} /\ up \subseteq Part
  BY DEF IInv, TypeOK
<1>1. CASE Switch
  BY <1>1 DEF Switch, CaseOf, AskedInv, Waiting, IInv, LoopInv, TypeOK, Request
<1>2. CASE Stop /\ pc' # "switch"
  BY <1>2, <1>s, <1>i DEF Stop, AskedInv, Waiting
<1>3. CASE Stop /\ pc' = "switch"
  <2>1. idx = 4 /\ pc = "stop" /\ state = "STOP" /\ state' = "IDLE" /\ up' = up \ {"lan"}
    BY <1>3, <1>s, <1>i DEF Stop
  <2>2. "misc" \notin up /\ "services" \notin up /\ "wan" \notin up
    BY <2>1 DEF IInv, StopInv
  <2>3. up' = {}
    BY <1>i, <2>1, <2>2 DEF Part
  <2> QED
    BY <1>3, <2>1, <2>3 DEF Stop, AskedInv, Waiting
<1>4. CASE Start /\ pc' # "timer"
  BY <1>4, <1>s, <1>i DEF Start, AskedInv, Waiting
<1>5. CASE Start /\ pc' = "timer"
  <2>1. idx = 4 /\ pc = "start" /\ up' = up \cup {"misc"}
    BY <1>5, <1>s, <1>i DEF Start
  <2>2. "lan" \in up /\ "services" \in up /\ "wan" \in up /\ goal = Part
    BY <2>1 DEF IInv, StartInv, AskedInv
  <2>3. up' = Part
    BY <1>i, <2>1, <2>2 DEF Part
  <2> QED
    BY <1>5, <2>2, <2>3 DEF Start, AskedInv, Waiting
<1>6. CASE Timer \/ UnsetService \/ Served \/ TestSignalled \/ Sleep
  BY <1>6 DEF Timer, UnsetService, Served, TestSignalled, Sleep, AskedInv, Waiting
<1>7. CASE ReadService \/ Serve
  BY <1>7 DEF ReadService, Serve, fatal_signal, AskedInv, Waiting
<1>8. CASE LoadSignalled \/ TakeState \/ ClearSignalled
  BY <1>8 DEF LoadSignalled, TakeState, ClearSignalled, AskedInv, Waiting, IInv, LoopInv
<1> QED
  BY <1>1, <1>2, <1>3, <1>4, <1>5, <1>6, <1>7, <1>8 DEF main_loop

LEMMA AskedNext == IInv /\ AskedInv /\ [Next]_vars => AskedInv'
<1> SUFFICES ASSUME IInv, AskedInv, [Next]_vars PROVE AskedInv'
  OBVIOUS
<1>1. CASE main_loop
  BY <1>1, AskedLoop
<1>2. CASE (\E sig \in Commands : Command(sig)) \/ NotifyRc \/ reap \/ ConsoleInput
  <2>1. /\ UNCHANGED <<state, idx, loaded, service, up, goal>>
        /\ pc' = pc \/ (pc \in Waiting /\ pc' = "test")
    BY <1>2 DEF Command, NotifyRc, reap, ConsoleInput, Wake, Waiting
  <2> QED
    BY <2>1 DEF AskedInv, Waiting
<1>3. CASE (\E r \in Lease : SetService(r)) \/ UNCHANGED vars
  BY <1>3 DEF SetService, vars, loop, AskedInv
<1>4. CASE Reboot \/ Boot
  BY <1>4 DEF Reboot, fatal_signal, Boot, AskedInv, Waiting
<1> QED
  BY <1>1, <1>2, <1>3, <1>4 DEF Next

\* However signals interleave with the start and stop calls, a waiting main_loop
\* has brought up exactly the parts that the requests it began ask for.
THEOREM SettledKept == Spec => []SettledAsAsked
<1>1. AskedInv => SettledAsAsked
  BY DEF AskedInv, SettledAsAsked
<1> QED
  BY <1>1, IInvInit, IInvNext, AskedInit, AskedNext, PTL DEF Spec
=============================================================================
