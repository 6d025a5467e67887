------------------------------- MODULE Bridge -------------------------------
(***************************************************************************)
(* The bridge process: worker supervision and the consumer scan share the  *)
(* one thread of main(), so no event is read while a worker is being       *)
(* started or terminated, and both die and restart together.               *)
(***************************************************************************)
EXTENDS WorkerSupervisor, ConsumerScan

vars == <<supVars, scanVars>>

TypeOK == SupTypeOK /\ ScanTypeOK

Init == SupInit /\ ScanInit

\* One step of camera_controller_tick that calls a backend operation.
Operate == ~scanning /\ Controller /\ UNCHANGED scanVars

\* A step of an operation that is under way, or the end of main().
Proceed == ~scanning /\ BridgeStep /\ UNCHANGED scanVars

\* camera_controller_tick asks for the consumer mask.
Reconcile == pc = "loop" /\ ConsumerMask /\ UNCHANGED supVars

Environment ==
    \/ (Workers \/ ServiceStop \/ Crash) /\ UNCHANGED scanVars
    \/ ScanEnvironment /\ UNCHANGED supVars

\* A new process, with a new inotify descriptor.
StartService == ServiceStart /\ initialize_context

Next == Operate \/ Proceed \/ Reconcile \/ Environment \/ StartService

Spec == Init /\ [][Next]_vars

(***************************************************************************)
(* Fairness.  The bridge's thread goes on whenever it can.  Every tick     *)
(* polls each handle, asks for the mask and tests stop_requested, so none  *)
(* of these is put off for ever by the others (strong fairness: each is    *)
(* disabled while another one runs).  A worker gets through prctl and      *)
(* getppid, leaves its poll loop when told to and dies of SIGKILL in the   *)
(* end; nothing is assumed of media_backend_start, which may hang.  The    *)
(* kernel finishes the opens and closes it reports, and time passes.       *)
(***************************************************************************)
Fairness ==
    /\ WF_vars(Proceed)
    /\ SF_vars(LeaveLoop /\ ~scanning /\ UNCHANGED scanVars)
    /\ \A s \in Slots :
          SF_vars(backend_poll(s) /\ ~scanning /\ UNCHANGED scanVars)
    /\ SF_vars(Reconcile)
    /\ \A p \in Pids : WF_vars(
          (ArmParentDeath(p) \/ CheckParent(p) \/ LeavePollLoop(p) \/ Die(p))
          /\ UNCHANGED <<mainVars, stop_requested, slotVars, scanVars>>)
    /\ \A e \in Endpoints :
          WF_vars((OpenInstalled(e) \/ CloseReported(e)) /\ UNCHANGED supVars)
    /\ WF_vars(TimePasses /\ UNCHANGED supVars)

FairSpec == Spec /\ Fairness
-----------------------------------------------------------------------------
(***************************************************************************)
(* Safety.                                                                 *)
(***************************************************************************)

\* Every worker of the running bridge, dead or alive, is named by a handle
\* the controller holds or by the operation under way (terminate_worker and
\* the error returns of backend_start): none is left behind unsupervised or
\* as a zombie, through a start that fails, times out or loses its worker, a
\* worker that ignores SIGTERM, and a shutdown in the middle of any of these.
EveryWorkerSupervised ==
    \A p \in Pids : proc[p] # "free" /\ ~orphan[p] =>
        \E s \in Slots : /\ worker_pid[s] = p
                         /\ handle[s] \/ (pc \in Busy /\ cur = s)

\* A worker whose bridge is gone never reaches the camera unless SIGKILL is
\* on its way: configure_worker_parent_death leaves no window between fork,
\* prctl and getppid, whenever the bridge dies.
OrphanNeverStarts ==
    \A p \in Pids :
        orphan[p] /\ proc[p] \in {"media", "streaming"} => killed[p]

\* With the watch in use, a cached mask that differs from the truth always
\* has the event on its way that will correct it: an open or close to be
\* read, or a close to be reported.  The one exception is a consumer whose
\* open was reported but not yet in /proc when it was scanned, or a scan that
\* failed (drain_consumer_events, consumer_mask).
StaleOnlyWithEvent ==
    (pc \notin Down /\ consumer_event_fd /\ consumer_scan_valid /\ ~scanning
       /\ ~ignored /\ queue = 0 /\ ~overflow) =>
    /\ visible \ cached_consumer_mask \subseteq missed
    /\ cached_consumer_mask \ visible \subseteq closing
-----------------------------------------------------------------------------
(***************************************************************************)
(* Liveness.                                                               *)
(***************************************************************************)

\* backend_start, backend_stop and backend_free return, even if the worker
\* hangs in media_backend_start or in a driver call until SIGKILL works, and
\* therefore a stop of the service ends the process.
OperationsReturn ==
    /\ pc \in Busy ~> pc \notin Busy
    /\ stop_requested ~> pc \in Down

\* A worker that ended is collected, and an orphan is gone sooner or later.
WorkersCollected ==
    \A p \in Pids : (proc[p] = "zombie" \/ orphan[p]) ~> proc[p] = "free"

\* While the service runs on, the cached mask comes to agree with an endpoint
\* whose consumer stays, or stays away, whether events work or the watch was
\* lost and the scan is repeated; an open the scan came too early for is the
\* exception StaleOnlyWithEvent names.
MaskConverges ==
    \A e \in Endpoints :
        /\ <>[](~stop_requested /\ pc \notin Down /\ e \in visible \ missed)
              => <>[](e \in cached_consumer_mask)
        /\ <>[](~stop_requested /\ pc \notin Down
                  /\ e \notin visible \cup opening)
              => <>[](e \notin cached_consumer_mask)
=============================================================================
