---------------------------- MODULE BridgeProofs ----------------------------
(***************************************************************************)
(* Proofs about the bridge process, for any number of handles, processes,  *)
(* endpoints and queued events.                                            *)
(*                                                                         *)
(* SupInv is the supervisor's half of the inductive invariant: an          *)
(* operation under way has a worker (else terminate_worker would clear     *)
(* another one's bookkeeping).  ScanInv is the scan's: what StaleOnlyWith- *)
(* Event says of a finished scan, said of the endpoints a running scan has *)
(* already looked at.                                                      *)
(***************************************************************************)
EXTENDS Bridge, TLAPS

\* The operation under way is about a worker.
BusyHasWorker == pc \in Busy => worker_pid[cur] # NoPid

SupInv ==
    /\ SupTypeOK /\ BusyHasWorker
    /\ EveryWorkerSupervised /\ OrphanNeverStarts

\* No event is queued and the watch is in use: the scan's result counts.
Quiet == consumer_event_fd /\ ~ignored /\ queue = 0 /\ ~overflow

\* The endpoints the result is about, and the result.
Scanned == IF scanning THEN Endpoints \ todo
           ELSE IF consumer_scan_valid THEN Endpoints ELSE {}
Result == IF scanning THEN mask ELSE cached_consumer_mask

\* A descriptor that is neither reported lost nor closed has its watches, and
\* without an event on its way a result is right up to what was missed, the
\* opens still under way included, and to the closes still to be reported.
ResultFresh ==
    /\ consumer_event_fd /\ ~ignored => watched
    /\ scanning => mask \cap todo = {}
    /\ Quiet => \A e \in Scanned :
          /\ e \in opening \cup (visible \ Result) => e \in missed
          /\ e \in Result \ visible => e \in closing

ScanInv == ScanTypeOK /\ ResultFresh
-----------------------------------------------------------------------------
(***************************************************************************)
(* Supervision.                                                            *)
(***************************************************************************)

\* _exit keeps the types.
LEMMA ExitType ==
    ASSUME SupTypeOK, NEW p \in Pids, NEW b \in {"", "F"}, Exit(p, b),
           UNCHANGED <<mainVars, stop_requested, slotVars>>
    PROVE  SupTypeOK'
<1>1. CASE orphan[p]
  <2>1. Free({p})
    BY <1>1 DEF Exit
  <2>2. proc' \in [Pids -> Running \cup {"zombie", "free"}]
    BY <2>1 DEF Free, SupTypeOK
  <2>3. /\ stop' \in [Pids -> BOOLEAN] /\ killed' \in [Pids -> BOOLEAN]
        /\ orphan' \in [Pids -> BOOLEAN]
    BY <2>1 DEF Free, SupTypeOK
  <2>4. status' \in [Pids -> {"", "R", "F"}]
    BY <2>1 DEF Free, SupTypeOK
  <2> QED
    BY <2>2, <2>3, <2>4 DEF SupTypeOK, mainVars, slotVars
<1>2. CASE ~orphan[p]
  <2>1. proc' \in [Pids -> Running \cup {"zombie", "free"}]
    BY <1>2 DEF Exit, SupTypeOK
  <2>2. /\ stop' \in [Pids -> BOOLEAN] /\ killed' \in [Pids -> BOOLEAN]
        /\ orphan' \in [Pids -> BOOLEAN]
    BY <1>2 DEF Exit, SupTypeOK
  <2>3. status' \in [Pids -> {"", "R", "F"}]
    BY <1>2 DEF Exit, SupTypeOK
  <2> QED
    BY <2>1, <2>2, <2>3 DEF SupTypeOK, mainVars, slotVars
<1> QED
  BY <1>1, <1>2

\* It removes a process or makes it a zombie, and touches no other.
LEMMA ExitEffect ==
    ASSUME SupTypeOK, NEW p \in Pids, NEW b \in {"", "F"}, Exit(p, b),
           proc[p] # "free", NEW q \in Pids
    PROVE  /\ proc'[q] # "free" => proc[q] # "free" /\ orphan'[q] = orphan[q]
           /\ proc'[q] \in {"media", "streaming"} =>
                 proc'[q] = proc[q] /\ killed'[q] = killed[q]
<1>1. CASE orphan[p]
  <2>1. Free({p})
    BY <1>1 DEF Exit
  <2>2. CASE q = p
    BY <2>1, <2>2 DEF Free
  <2>3. CASE q # p
    <3>1. proc'[q] = proc[q]
      BY <2>1, <2>3 DEF Free
    <3>2. orphan'[q] = orphan[q] /\ killed'[q] = killed[q]
      BY <2>1, <2>3 DEF Free, SupTypeOK
    <3> QED
      BY <3>1, <3>2
  <2> QED
    BY <2>2, <2>3
<1>2. CASE ~orphan[p]
  BY <1>2 DEF Exit, SupTypeOK
<1> QED
  BY <1>1, <1>2

\* The steps of a worker: no orphan gets to the camera.
LEMMA WorkersPreserve ==
    ASSUME SupInv, Workers
    PROVE  SupInv'
<1>1. PICK p \in Pids : WorkerStep(p)
  BY DEF Workers
<1>2. /\ SupTypeOK /\ EveryWorkerSupervised /\ OrphanNeverStarts
      /\ UNCHANGED <<mainVars, stop_requested, slotVars>>
  BY DEF Workers, SupInv
<1>3. BusyHasWorker'
  BY <1>2 DEF SupInv, BusyHasWorker, mainVars, slotVars
<1>4. ASSUME NEW b \in {"", "F"}, Exit(p, b), proc[p] # "free" PROVE SupInv'
  <2>1. SupTypeOK'
    BY <1>2, <1>4, ExitType
  <2>2. \A q \in Pids :
           /\ proc'[q] # "free" => proc[q] # "free" /\ orphan'[q] = orphan[q]
           /\ proc'[q] \in {"media", "streaming"} =>
                 proc'[q] = proc[q] /\ killed'[q] = killed[q]
    BY <1>2, <1>4, ExitEffect
  <2>3. EveryWorkerSupervised'
    BY <1>2, <2>2 DEF EveryWorkerSupervised, mainVars, slotVars
  <2>4. OrphanNeverStarts'
    BY <1>2, <2>2 DEF OrphanNeverStarts
  <2> QED
    BY <1>3, <2>1, <2>3, <2>4 DEF SupInv
<1>5. ASSUME NEW to \in Running, proc[p] \in Running,
             proc' = [proc EXCEPT ![p] = to],
             to \in {"media", "streaming"} => ~orphan[p],
             status' \in [Pids -> {"", "R", "F"}],
             UNCHANGED <<stop, killed, orphan>>
      PROVE  SupInv'
  <2>1. SupTypeOK'
    BY <1>2, <1>5 DEF SupTypeOK, mainVars, slotVars
  <2>2. EveryWorkerSupervised'
    BY <1>2, <1>5 DEF SupTypeOK, EveryWorkerSupervised, mainVars, slotVars,
                      Running
  <2>3. OrphanNeverStarts'
    BY <1>2, <1>5 DEF SupTypeOK, OrphanNeverStarts
  <2> QED
    BY <1>3, <2>1, <2>2, <2>3 DEF SupInv
<1>6. CASE ArmParentDeath(p)
  BY <1>2, <1>5, <1>6 DEF ArmParentDeath, Advance, Running, SupTypeOK
<1>7. CASE CheckParent(p)
  <2>1. CASE ~orphan[p] /\ Advance(p, "armed", "media")
    BY <1>2, <1>5, <2>1 DEF Advance, Running, SupTypeOK
  <2> QED
    BY <1>4, <1>7, <2>1 DEF CheckParent
<1>8. CASE MediaStart(p)
  <2>1. CASE /\ ~orphan[p]
             /\ proc' = [proc EXCEPT ![p] = "streaming"]
             /\ status' = [status EXCEPT ![p] = "R"]
             /\ UNCHANGED <<stop, killed, orphan>>
    <3>1. status' \in [Pids -> {"", "R", "F"}] /\ proc[p] \in Running
      BY <1>2, <1>8, <2>1 DEF MediaStart, SupTypeOK, Running
    <3> QED
      BY <1>5, <2>1, <3>1 DEF Running
  <2> QED
    BY <1>4, <1>8, <2>1 DEF MediaStart
<1>9. CASE LeavePollLoop(p) \/ WorkerEnds(p) \/ Die(p)
  BY <1>4, <1>9 DEF LeavePollLoop, WorkerEnds, Die, Running
<1> QED
  BY <1>1, <1>6, <1>7, <1>8, <1>9 DEF WorkerStep

\* waitpid takes nothing but a process that ended.
LEMMA CollectPreserves ==
    ASSUME SupTypeOK, OrphanNeverStarts, NEW s \in Slots, Collect(s)
    PROVE  /\ proc' \in [Pids -> Running \cup {"zombie", "free"}]
           /\ stop' \in [Pids -> BOOLEAN] /\ killed' \in [Pids -> BOOLEAN]
           /\ orphan' \in [Pids -> BOOLEAN]
           /\ status' \in [Pids -> {"", "R", "F"}]
           /\ OrphanNeverStarts'
           /\ \A p \in Pids : proc'[p] # "free" =>
                 proc'[p] = proc[p] /\ orphan'[p] = orphan[p]
           /\ \A p \in Pids : proc[p] = "zombie" /\ worker_pid[s] = p =>
                 proc'[p] = "free"
<1> DEFINE P == {p \in Pids : p = worker_pid[s] /\ proc[p] = "zombie"}
<1>1. Free(P)
  BY DEF Collect
<1> HIDE DEF P
<1>2. \A p \in Pids : p \in P <=> p = worker_pid[s] /\ proc[p] = "zombie"
  BY DEF P
<1> QED
  BY <1>1, <1>2 DEF Free, SupTypeOK, OrphanNeverStarts, Running

\* backend_stop names the slot it is about and loses no worker.
LEMMA StopKeepsBooks ==
    ASSUME SupTypeOK, NEW s \in Slots, NEW why \in {"stop", "shutdown"},
           handle[s], pc \notin Busy, backend_stop(s, why)
    PROVE  /\ pc' \in Labels /\ cur' \in Slots /\ failed' \in BOOLEAN
           /\ op' \in {"none", "start", "stop", "shutdown"}
           /\ handle' \in [Slots -> BOOLEAN] /\ worker_pid' = worker_pid
           /\ pc' \in Busy => worker_pid[cur'] # NoPid
           /\ \A r \in Slots : handle[r] /\ worker_pid[r] # NoPid => handle'[r]
BY DEF SupTypeOK, backend_stop, Labels, Busy

\* So it preserves the invariant, with or without a waitpid before it.
LEMMA StopPreserves ==
    ASSUME SupInv, NEW s \in Slots, NEW why \in {"stop", "shutdown"},
           handle[s], pc \notin Busy, backend_stop(s, why),
           UNCHANGED stop_requested,
           UNCHANGED procVars \/ Collect(s)
    PROVE  SupInv'
<1>1. /\ SupTypeOK /\ OrphanNeverStarts /\ EveryWorkerSupervised
      /\ NoPid \notin Pids
  BY SupervisorAssumption DEF SupInv
<1>2. /\ pc' \in Labels /\ cur' \in Slots /\ failed' \in BOOLEAN
      /\ op' \in {"none", "start", "stop", "shutdown"}
      /\ handle' \in [Slots -> BOOLEAN] /\ worker_pid' = worker_pid
      /\ pc' \in Busy => worker_pid[cur'] # NoPid
      /\ \A r \in Slots : handle[r] /\ worker_pid[r] # NoPid => handle'[r]
  BY <1>1, StopKeepsBooks
<1>3. /\ proc' \in [Pids -> Running \cup {"zombie", "free"}]
      /\ stop' \in [Pids -> BOOLEAN] /\ killed' \in [Pids -> BOOLEAN]
      /\ orphan' \in [Pids -> BOOLEAN]
      /\ status' \in [Pids -> {"", "R", "F"}]
      /\ OrphanNeverStarts'
      /\ \A p \in Pids : proc'[p] # "free" =>
            proc'[p] = proc[p] /\ orphan'[p] = orphan[p]
  <2>1. CASE Collect(s)
    BY <1>1, <2>1, CollectPreserves
  <2>2. CASE UNCHANGED procVars
    BY <1>1, <2>2 DEF procVars, SupTypeOK, OrphanNeverStarts
  <2> QED
    BY <2>1, <2>2
<1>4. SupTypeOK' /\ BusyHasWorker'
  BY <1>1, <1>2, <1>3 DEF SupTypeOK, BusyHasWorker
<1>5. EveryWorkerSupervised'
  <2> SUFFICES ASSUME NEW p \in Pids, proc'[p] # "free", ~orphan'[p]
               PROVE  \E r \in Slots : worker_pid'[r] = p /\ handle'[r]
    BY DEF EveryWorkerSupervised
  <2>1. PICK r \in Slots : worker_pid[r] = p /\ handle[r]
    BY <1>1, <1>3 DEF EveryWorkerSupervised
  <2> QED
    BY <1>1, <1>2, <2>1
<1> QED
  BY <1>3, <1>4, <1>5 DEF SupInv

\* The operations the controller calls.
LEMMA ControllerPreserves ==
    ASSUME SupInv, Controller
    PROVE  SupInv'
<1>0. NoPid \notin Pids
  BY SupervisorAssumption
<1>1. PICK s \in Slots : backend_start(s) \/ backend_poll(s) \/ StopStream(s)
  BY DEF Controller
<1>2. pc = "loop"
  BY <1>1 DEF backend_start, backend_poll, StopStream
<1> USE DEF SupInv
<1>3. CASE backend_start(s)
  <2>1. PICK p \in Pids :
           /\ proc[p] = "free"
           /\ proc' = [proc EXCEPT ![p] = "forked"]
           /\ stop' = [stop EXCEPT ![p] = stop_requested]
           /\ worker_pid' = [worker_pid EXCEPT ![s] = p]
    BY <1>3 DEF backend_start
  <2>2. /\ pc' = "ready" /\ cur' = s /\ worker_pid[s] = NoPid
        /\ UNCHANGED <<op, failed, stop_requested, handle, killed, orphan,
                       status>>
    BY <1>3 DEF backend_start
  <2>3. SupTypeOK' /\ BusyHasWorker'
    BY <1>0, <2>1, <2>2 DEF SupTypeOK, BusyHasWorker, Labels, Running
  <2>4. EveryWorkerSupervised'
    <3> SUFFICES ASSUME NEW q \in Pids, proc'[q] # "free", ~orphan'[q]
                 PROVE  \E r \in Slots :
                           worker_pid'[r] = q /\ (handle'[r] \/ cur' = r)
      BY <2>2 DEF EveryWorkerSupervised, Busy
    <3>1. CASE q = p
      BY <2>1, <2>2, <3>1 DEF SupTypeOK
    <3>2. CASE q # p
      <4>1. PICK r \in Slots : worker_pid[r] = q /\ handle[r]
        BY <1>2, <2>1, <2>2, <3>2 DEF EveryWorkerSupervised, Busy, SupTypeOK
      <4> QED
        BY <1>0, <2>1, <2>2, <4>1 DEF SupTypeOK
    <3> QED
      BY <3>1, <3>2
  <2>5. OrphanNeverStarts'
    BY <2>1, <2>2 DEF OrphanNeverStarts, SupTypeOK
  <2> QED
    BY <2>3, <2>4, <2>5
<1>4. CASE StopStream(s)
  <2>1. handle[s] /\ backend_stop(s, "stop")
        /\ UNCHANGED <<stop_requested, procVars>>
    BY <1>4 DEF StopStream
  <2>2. SupInv'
    BY <1>2, <2>1, StopPreserves DEF Busy, procVars
  <2> QED
    BY <2>2
<1>5. CASE backend_poll(s)
  <2>1. handle[s] /\ Collect(s) /\ UNCHANGED stop_requested
    BY <1>5 DEF backend_poll
  <2>2. CASE backend_stop(s, "stop")
    BY <1>2, <2>1, <2>2, CollectPreserves, StopPreserves DEF Busy, SupTypeOK
  <2>3. CASE UNCHANGED <<mainVars, slotVars>>
    BY <1>0, <1>2, <2>1, <2>3, CollectPreserves DEF Busy, mainVars, slotVars,
       SupTypeOK, BusyHasWorker, EveryWorkerSupervised
  <2> QED
    BY <1>5, <2>2, <2>3 DEF backend_poll
<1> QED
  BY <1>1, <1>3, <1>4, <1>5

\* The steps of an operation under way and the end of main().
LEMMA BridgeStepPreserves ==
    ASSUME SupInv, BridgeStep
    PROVE  SupInv'
<1>0. NoPid \notin Pids
  BY SupervisorAssumption
<1> USE DEF SupInv
<1>1. CASE wait_for_worker_ready
  <2>1. pc = "ready" /\ UNCHANGED stop_requested
    BY <1>1 DEF wait_for_worker_ready
  <2>2. CASE /\ pc' = "loop" /\ handle' = [handle EXCEPT ![cur] = TRUE]
             /\ UNCHANGED <<cur, op, failed, worker_pid, procVars>>
    BY <2>1, <2>2 DEF procVars, Busy, Labels, SupTypeOK, BusyHasWorker,
       EveryWorkerSupervised, OrphanNeverStarts
  <2>3. CASE StartFails /\ Collect(cur)
    BY <2>1, <2>3, CollectPreserves DEF StartFails, slotVars, Busy, Labels,
       SupTypeOK, BusyHasWorker, EveryWorkerSupervised
  <2>4. CASE StartFails /\ UNCHANGED procVars
    BY <2>1, <2>4 DEF StartFails, slotVars, procVars, Busy, Labels,
       SupTypeOK, BusyHasWorker, EveryWorkerSupervised, OrphanNeverStarts
  <2> QED
    BY <1>1, <2>2, <2>3, <2>4 DEF wait_for_worker_ready
<1>2. CASE SendSigterm
  BY <1>2 DEF SendSigterm, slotVars, Cur, Busy, Labels, SupTypeOK,
     BusyHasWorker, EveryWorkerSupervised, OrphanNeverStarts
<1>3. CASE reap_timeout
  BY <1>3 DEF reap_timeout, slotVars, Cur, Busy, Labels, SupTypeOK,
     BusyHasWorker, EveryWorkerSupervised, OrphanNeverStarts
<1>4. CASE Reaped
  <2>1. /\ pc \in Busy /\ cur \in Slots /\ worker_pid[cur] \in Pids
        /\ proc[worker_pid[cur]] \notin Running
        /\ Collect(cur) /\ cur' = cur /\ stop_requested' = stop_requested
    BY <1>4 DEF Reaped, Cur, Busy, SupTypeOK, BusyHasWorker
  <2>2. /\ pc' \in {"loop", "shutdown"} /\ op' = "none" /\ failed' = FALSE
        /\ worker_pid' = [worker_pid EXCEPT ![cur] = NoPid]
        /\ \E b \in BOOLEAN : handle' = [handle EXCEPT ![cur] = b]
    BY <1>4 DEF Reaped, SupTypeOK
  <2>3. SupTypeOK' /\ BusyHasWorker' /\ OrphanNeverStarts'
    BY <2>1, <2>2, CollectPreserves DEF SupTypeOK, BusyHasWorker, Labels, Busy
  <2>4. EveryWorkerSupervised'
    <3> SUFFICES ASSUME NEW p \in Pids, proc'[p] # "free", ~orphan'[p]
                 PROVE  \E s \in Slots : worker_pid'[s] = p /\ handle'[s]
      BY DEF EveryWorkerSupervised
    <3>1. proc[p] # "free" /\ ~orphan[p] /\ p # worker_pid[cur]
      BY <2>1, CollectPreserves DEF SupTypeOK
    <3>2. PICK s \in Slots : worker_pid[s] = p /\ s # cur /\ handle[s]
      BY <3>1 DEF EveryWorkerSupervised
    <3> QED
      BY <2>2, <3>2 DEF SupTypeOK
  <2> QED
    BY <2>3, <2>4
<1>5. CASE LeaveLoop
  BY <1>5 DEF LeaveLoop, slotVars, procVars, Busy, Labels, SupTypeOK,
     BusyHasWorker, EveryWorkerSupervised, OrphanNeverStarts
<1>6. CASE Shutdown
  <2>1. pc = "shutdown" /\ UNCHANGED <<stop_requested, procVars>>
    BY <1>6 DEF Shutdown
  <2>2. ASSUME NEW s \in Slots, handle[s], backend_stop(s, "shutdown")
        PROVE  SupInv'
    BY <2>1, <2>2, StopPreserves DEF Busy
  <2>3. CASE pc' = "exited" /\ UNCHANGED <<cur, op, failed, slotVars>>
    BY <2>1, <2>3 DEF slotVars, procVars, Busy, Labels, SupTypeOK,
       BusyHasWorker, EveryWorkerSupervised, OrphanNeverStarts
  <2> QED
    BY <1>6, <2>2, <2>3 DEF Shutdown
<1> QED
  BY <1>1, <1>2, <1>3, <1>4, <1>5, <1>6 DEF BridgeStep

\* The service manager, and the death of the bridge at any moment.
LEMMA ServicePreserves ==
    ASSUME SupInv, ServiceStop \/ Crash \/ ServiceStart
    PROVE  SupInv'
<1> USE DEF SupInv
<1>1. CASE ServiceStop
  BY <1>1 DEF ServiceStop, mainVars, slotVars, SupTypeOK, BusyHasWorker,
     EveryWorkerSupervised, OrphanNeverStarts
<1>2. CASE Crash
  <2>1. SupTypeOK'
    <3>1. proc' \in [Pids -> Running \cup {"zombie", "free"}]
      BY <1>2 DEF Crash, SupTypeOK
    <3>2. killed' \in [Pids -> BOOLEAN] /\ orphan' \in [Pids -> BOOLEAN]
      <4>1. \A p \in Pids : (proc[p] \in Running) \in BOOLEAN
        BY SMT
      <4>2. orphan' \in [Pids -> BOOLEAN]
        BY <1>2, <4>1, Zenon DEF Crash
      <4> QED
        BY <1>2, <4>2 DEF Crash, SupTypeOK
    <3>3. /\ handle' \in [Slots -> BOOLEAN]
          /\ worker_pid' \in [Slots -> Pids \cup {NoPid}]
          /\ status' \in [Pids -> {"", "R", "F"}]
      BY <1>2 DEF Crash
    <3> QED
      BY <1>2, <3>1, <3>2, <3>3 DEF Crash, SupTypeOK, Labels
  <2>2. EveryWorkerSupervised' /\ BusyHasWorker'
    BY <1>2 DEF Crash, EveryWorkerSupervised, BusyHasWorker, Busy, Running
  <2>3. OrphanNeverStarts'
    <3> SUFFICES ASSUME NEW p \in Pids, proc'[p] \in {"media", "streaming"}
                 PROVE  killed'[p]
      BY DEF OrphanNeverStarts
    <3>1. proc[p] \in {"media", "streaming"}
      BY <1>2 DEF Crash, Running
    <3>2. killed[p] \/ ~orphan[p]
      BY <3>1 DEF OrphanNeverStarts
    <3> QED
      BY <1>2, <3>1, <3>2 DEF Crash, Running
  <2> QED
    BY <2>1, <2>2, <2>3
<1>3. CASE ServiceStart
  BY <1>3 DEF ServiceStart, slotVars, procVars, SupTypeOK, BusyHasWorker,
     EveryWorkerSupervised, OrphanNeverStarts, Labels, Busy, Down
<1> QED
  BY <1>1, <1>2, <1>3
-----------------------------------------------------------------------------
(***************************************************************************)
(* The consumer scan.                                                      *)
(***************************************************************************)

\* A change that is reported leaves no quiet behind if there is a watch.
LEMMA NotifyEndsQuiet ==
    ASSUME ScanTypeOK, Notify
    PROVE  /\ queue' \in 0..QueueMax /\ overflow' \in BOOLEAN
           /\ ignored' = ignored
           /\ watched => queue' # 0
BY ScanAssumption DEF ScanTypeOK, Notify

\* Applications and the kernel.
LEMMA EnvironmentPreserves ==
    ASSUME ScanInv, ScanEnvironment
    PROVE  ScanInv'
<1> USE DEF ScanInv, contextVars, passVars, eventVars, kernelVars
<1>1. ASSUME NEW e \in Endpoints, OpenReported(e) PROVE ScanInv'
  BY <1>1, NotifyEndsQuiet DEF OpenReported, ScanTypeOK, ResultFresh, Quiet
<1>2. ASSUME NEW e \in Endpoints, OpenInstalled(e) PROVE ScanInv'
  BY <1>2 DEF OpenInstalled, ScanTypeOK, ResultFresh, Quiet, Scanned, Result
<1>3. ASSUME NEW e \in Endpoints, Close(e) PROVE ScanInv'
  BY <1>3 DEF Close, ScanTypeOK, ResultFresh, Quiet, Scanned, Result
<1>4. ASSUME NEW e \in Endpoints, CloseReported(e) PROVE ScanInv'
  BY <1>4, NotifyEndsQuiet DEF CloseReported, ScanTypeOK, ResultFresh, Quiet
<1>5. CASE OtherEvent
  BY <1>5, NotifyEndsQuiet DEF OtherEvent, ScanTypeOK, ResultFresh, Quiet
<1>6. CASE WatchLost
  BY <1>6 DEF WatchLost, ScanTypeOK, ResultFresh, Quiet
<1>7. CASE TimePasses
  BY <1>7, ScanAssumption DEF TimePasses, ScanTypeOK, ResultFresh, Quiet,
     Scanned, Result
<1> QED
  BY <1>1, <1>2, <1>3, <1>4, <1>5, <1>6, <1>7 DEF ScanEnvironment, Consumers

\* consumer_mask.
LEMMA MaskPreserves ==
    ASSUME ScanInv, ConsumerMask
    PROVE  ScanInv'
<1> USE DEF ScanInv, contextVars, passVars, eventVars, kernelVars
<1>0. \A idle \in BOOLEAN : Interval(idle) \in 0..IdleScan
  BY ScanAssumption DEF Interval
<1>1. ASSUME NEW idle \in BOOLEAN, consumer_mask(idle) PROVE ScanInv'
  <2>1. ScanTypeOK'
    <3>1. /\ queue' \in 0..QueueMax /\ next_scan' \in 0..IdleScan
          /\ todo' \subseteq Endpoints /\ mask' \subseteq Endpoints
          /\ missed' \subseteq Endpoints
      BY <1>0, <1>1, ScanAssumption DEF consumer_mask, drain_consumer_events,
         ScanTypeOK
    <3>2. /\ overflow' \in BOOLEAN /\ ignored' \in BOOLEAN
          /\ consumer_event_fd' \in BOOLEAN /\ consumer_scan_valid' \in BOOLEAN
          /\ scanning' \in BOOLEAN
      BY <1>1, Zenon DEF consumer_mask, drain_consumer_events, WatchAlive,
         ScanTypeOK
    <3> QED
      BY <1>1, <3>1, <3>2 DEF consumer_mask, ScanTypeOK
  <2>2. ResultFresh'
    BY <1>1 DEF consumer_mask, drain_consumer_events, ScanTypeOK, WatchAlive,
       Changed, ResultFresh, Quiet, Scanned, Result
  <2> QED
    BY <2>1, <2>2
<1>2. ASSUME NEW idle \in BOOLEAN, consumer_mask_polled(idle) PROVE ScanInv'
  BY <1>0, <1>2 DEF consumer_mask_polled, ScanTypeOK, ResultFresh, Quiet
<1>3. ASSUME NEW e \in Endpoints, process_uses_endpoint(e) PROVE ScanInv'
  <2>1. ScanTypeOK'
    BY <1>3 DEF process_uses_endpoint, ScanTypeOK
  <2>2. ASSUME Quiet', NEW d \in Endpoints \ todo'
        PROVE  /\ d \in opening' \cup (visible' \ mask') => d \in missed'
               /\ d \in mask' \ visible' => d \in closing'
    <3>1. Quiet /\ scanning /\ Scanned = Endpoints \ todo /\ Result = mask
      BY <1>3, <2>2 DEF process_uses_endpoint, Quiet, Scanned, Result
    <3>2. CASE d = e
      BY <1>3, <3>1, <3>2 DEF process_uses_endpoint, ResultFresh
    <3>3. CASE d # e
      BY <1>3, <2>2, <3>1, <3>3 DEF process_uses_endpoint, ResultFresh
    <3> QED
      BY <3>2, <3>3
  <2>3. ResultFresh'
    BY <1>3, <2>2 DEF Quiet, process_uses_endpoint, ResultFresh, Scanned, Result
  <2> QED
    BY <2>1, <2>3
<1>4. CASE ScanDone
  BY <1>4 DEF ScanDone, ScanTypeOK, ResultFresh, Quiet, Scanned, Result
<1>5. CASE ScanFailed
  BY <1>5 DEF ScanFailed, ScanTypeOK, ResultFresh, Quiet, Scanned, Result
<1> QED
  BY <1>1, <1>2, <1>3, <1>4, <1>5 DEF ConsumerMask

\* A new process trusts nothing its predecessor found.
LEMMA ContextPreserves ==
    ASSUME ScanInv, initialize_context
    PROVE  ScanInv'
<1>1. ScanTypeOK'
  <2>1. queue' \in 0..QueueMax /\ next_scan' \in 0..IdleScan
    BY ScanAssumption DEF initialize_context
  <2>2. watched' \in BOOLEAN /\ consumer_event_fd' \in BOOLEAN
    BY Zenon DEF initialize_context
  <2> QED
    BY <2>1, <2>2 DEF ScanInv, initialize_context, ScanTypeOK
<1>2. ResultFresh'
  BY DEF initialize_context, ResultFresh, Scanned
<1> QED
  BY <1>1, <1>2 DEF ScanInv
-----------------------------------------------------------------------------
\* Both halves hold at the start.
LEMMA Initially == Init => SupInv /\ ScanInv
<1> SUFFICES ASSUME Init PROVE SupInv /\ ScanInv
  OBVIOUS
<1>1. SupInv
  BY DEF Init, SupInit, SupInv, SupTypeOK, BusyHasWorker, Busy, Labels,
     EveryWorkerSupervised, OrphanNeverStarts
<1>2. ScanInv
  <2>1. ScanTypeOK
    <3>1. queue \in 0..QueueMax /\ next_scan \in 0..IdleScan
      BY ScanAssumption DEF Init, ScanInit
    <3>2. watched \in BOOLEAN /\ consumer_event_fd \in BOOLEAN
      BY Zenon DEF Init, ScanInit
    <3> QED
      BY <3>1, <3>2 DEF Init, ScanInit, ScanTypeOK
  <2>2. ResultFresh
    BY DEF Init, ScanInit, ResultFresh, Scanned
  <2> QED
    BY <2>1, <2>2 DEF ScanInv
<1> QED
  BY <1>1, <1>2

\* Both halves are preserved: the two components share the thread and change
\* nothing of one another.
LEMMA Inductive == SupInv /\ ScanInv /\ [Next]_vars => SupInv' /\ ScanInv'
<1> SUFFICES ASSUME SupInv, ScanInv, [Next]_vars PROVE SupInv' /\ ScanInv'
  OBVIOUS
<1>1. UNCHANGED supVars => SupInv'
  <2> SUFFICES ASSUME UNCHANGED supVars PROVE SupInv'
    OBVIOUS
  <2>1. SupTypeOK' /\ BusyHasWorker'
    BY DEF supVars, mainVars, slotVars, procVars, SupInv, SupTypeOK,
       BusyHasWorker
  <2>2. EveryWorkerSupervised' /\ OrphanNeverStarts'
    BY DEF supVars, mainVars, slotVars, procVars, SupInv,
       EveryWorkerSupervised, OrphanNeverStarts
  <2> QED
    BY <2>1, <2>2 DEF SupInv
<1>2. UNCHANGED scanVars => ScanInv'
  BY DEF scanVars, kernelVars, eventVars, contextVars, passVars, ScanInv,
     ScanTypeOK, ResultFresh, Quiet, Scanned, Result
<1>3. CASE UNCHANGED vars
  BY <1>1, <1>2, <1>3 DEF vars
<1>4. CASE Operate
  BY <1>2, <1>4, ControllerPreserves DEF Operate
<1>5. CASE Proceed
  BY <1>2, <1>5, BridgeStepPreserves DEF Proceed
<1>6. CASE Reconcile
  BY <1>1, <1>6, MaskPreserves DEF Reconcile
<1>7. CASE Environment
  BY <1>1, <1>2, <1>7, WorkersPreserve, ServicePreserves,
     EnvironmentPreserves DEF Environment
<1>8. CASE StartService
  BY <1>8, ServicePreserves, ContextPreserves DEF StartService
<1> QED
  BY <1>3, <1>4, <1>5, <1>6, <1>7, <1>8 DEF Next

\* The variables of both components keep their types; among them the queue
\* stays within its limit and the fallback interval within IdleScan.
THEOREM TypeCorrect == Spec => []TypeOK
<1>1. SupInv /\ ScanInv => TypeOK
  BY DEF SupInv, ScanInv, TypeOK
<1> QED
  BY Initially, Inductive, <1>1, PTL DEF Spec

\* backend_start, backend_poll, backend_stop and terminate_worker lose track
\* of no worker, for any number of handles and processes.
THEOREM NoWorkerLost == Spec => []EveryWorkerSupervised
<1>1. SupInv => EveryWorkerSupervised
  BY DEF SupInv
<1> QED
  BY Initially, Inductive, <1>1, PTL DEF Spec

\* configure_worker_parent_death leaves no window, whenever the bridge dies
\* and however many workers it has.
THEOREM NoOrphanStarts == Spec => []OrphanNeverStarts
<1>1. SupInv => OrphanNeverStarts
  BY DEF SupInv
<1> QED
  BY Initially, Inductive, <1>1, PTL DEF Spec

\* consumer_mask relies on a cached mask only while an event that corrects it
\* is sure to come, for any number of endpoints and any queue length.
THEOREM MaskIsFresh == Spec => []StaleOnlyWithEvent
<1>1. ScanInv => StaleOnlyWithEvent
  BY DEF ScanInv, ScanTypeOK, ResultFresh, Quiet, Scanned, Result,
     StaleOnlyWithEvent
<1> QED
  BY Initially, Inductive, <1>1, PTL DEF Spec
=============================================================================
