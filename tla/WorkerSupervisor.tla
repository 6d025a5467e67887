-------------------------- MODULE WorkerSupervisor --------------------------
(***************************************************************************)
(* The supervision of media workers by cbridge/surface-camera-bridge.c:    *)
(* the backend_* operations it hands to the camera controller and the      *)
(* process worker_process runs in.                                         *)
(*                                                                         *)
(* The bridge is one thread; pc is its position.  Its caller, the camera   *)
(* controller, is modelled by what it may call: backend_start into an      *)
(* empty slot, backend_poll and backend_stop on a handle, and backend_stop *)
(* followed by backend_free after a poll that failed (CameraController has *)
(* the rules by which it chooses).  Workers, the kernel and systemd run at *)
(* the same time.  A timeout may expire whenever the awaited event has not *)
(* been seen; a process that was sent SIGKILL takes no further step of its *)
(* own but may need any time to die (an ioctl it sits in has to return).   *)
(***************************************************************************)
EXTENDS Naturals, FiniteSets

CONSTANTS
    Slots,       \* the handles the controller keeps: fillers and a capture
    Pids,        \* process identifiers, reused after a reap
    NoPid,       \* worker_pid = 0
    TermRefused  \* may kill(SIGTERM) fail with an error other than ESRCH?

ASSUME SupervisorAssumption ==
    /\ IsFiniteSet(Slots) /\ IsFiniteSet(Pids) /\ NoPid \notin Pids
    /\ TermRefused \in BOOLEAN

VARIABLES
    pc,             \* position of the bridge's thread
    cur,            \* the slot the present backend operation is about
    op,             \* who waits for terminate_worker
    failed,         \* terminate_worker's flag
    stop_requested, \* the bridge's stop_requested
    handle,         \* per slot: the controller holds a LiveBackendHandle
    worker_pid,     \* per slot: live_handle->worker_pid
    proc,           \* per process: how far worker_process is
    stop,           \* per process: its own copy of stop_requested
    killed,         \* per process: SIGKILL was sent
    orphan,         \* per process: the bridge that forked it is gone
    status          \* per process: the byte in its status pipe

mainVars == <<pc, cur, op, failed>>
slotVars == <<handle, worker_pid>>
procVars == <<proc, stop, killed, orphan, status>>
supVars == <<mainVars, stop_requested, slotVars, procVars>>

\* "loop" is main()'s loop, where the controller may call an operation, and
\* "shutdown" camera_controller_shutdown; "exited" and "dead" are a bridge
\* that returned from main and one that was killed.
Labels == {"loop", "ready", "sigterm", "reap_term", "reap_kill", "reap_wait",
           "shutdown", "exited", "dead"}
Busy == {"ready", "sigterm", "reap_term", "reap_kill", "reap_wait"}
Down == {"exited", "dead"}

\* A process is "forked" until prctl, "armed" until it compared getppid(),
\* in "media" while GStreamer and the pipeline start, and "streaming" in its
\* poll loop.
Running == {"forked", "armed", "media", "streaming"}

SupTypeOK ==
    /\ pc \in Labels /\ cur \in Slots /\ op \in {"none", "start", "stop", "shutdown"}
    /\ failed \in BOOLEAN /\ stop_requested \in BOOLEAN
    /\ handle \in [Slots -> BOOLEAN]
    /\ worker_pid \in [Slots -> Pids \cup {NoPid}]
    /\ proc \in [Pids -> Running \cup {"zombie", "free"}]
    /\ stop \in [Pids -> BOOLEAN] /\ killed \in [Pids -> BOOLEAN]
    /\ orphan \in [Pids -> BOOLEAN]
    /\ status \in [Pids -> {"", "R", "F"}]

SupInit ==
    /\ pc = "loop" /\ cur \in Slots /\ op = "none" /\ failed = FALSE
    /\ stop_requested = FALSE
    /\ handle = [s \in Slots |-> FALSE]
    /\ worker_pid = [s \in Slots |-> NoPid]
    /\ proc = [p \in Pids |-> "free"]
    /\ stop = [p \in Pids |-> FALSE] /\ killed = [p \in Pids |-> FALSE]
    /\ orphan = [p \in Pids |-> FALSE] /\ status = [p \in Pids |-> ""]
-----------------------------------------------------------------------------
(***************************************************************************)
(* The worker process.                                                     *)
(***************************************************************************)

\* The processes of P leave the process table.
Free(P) ==
    /\ proc' = [p \in Pids |-> IF p \in P THEN "free" ELSE proc[p]]
    /\ stop' = [p \in Pids |-> p \notin P /\ stop[p]]
    /\ killed' = [p \in Pids |-> p \notin P /\ killed[p]]
    /\ orphan' = [p \in Pids |-> p \notin P /\ orphan[p]]
    /\ status' = [p \in Pids |-> IF p \in P THEN "" ELSE status[p]]

\* _exit, with the status byte b written first ("" writes none).  The parent
\* has to reap the process; init reaps an orphan.
Exit(p, b) ==
    IF orphan[p] THEN Free({p})
    ELSE /\ proc' = [proc EXCEPT ![p] = "zombie"]
         /\ status' = [status EXCEPT ![p] = IF b = "" THEN @ ELSE b]
         /\ stop' = [stop EXCEPT ![p] = FALSE]
         /\ killed' = [killed EXCEPT ![p] = FALSE]
         /\ UNCHANGED orphan

Advance(p, from, to) ==
    /\ proc[p] = from /\ ~killed[p]
    /\ proc' = [proc EXCEPT ![p] = to]
    /\ UNCHANGED <<stop, killed, orphan, status>>

\* configure_worker_parent_death, first half: from here on the death of the
\* bridge sends this process SIGKILL.
ArmParentDeath(p) == Advance(p, "forked", "armed")

\* Mutant: the worker trusts PR_SET_PDEATHSIG alone.
CheckParentNever(p) == Advance(p, "armed", "media")

\* Its second half: getppid() finds out about a bridge that died before
\* prctl.  setpgid and media_backend_new may fail as well.
CheckParent(p) ==
    \/ ~orphan[p] /\ Advance(p, "armed", "media")
    \/ proc[p] = "armed" /\ ~killed[p] /\ Exit(p, "F")

\* media_backend_start: the pipeline reaches PLAYING and the byte 'R' is
\* written (an orphan's write raises SIGPIPE), or 'F' is.
MediaStart(p) ==
    /\ proc[p] = "media" /\ ~killed[p]
    /\ \/ /\ ~orphan[p]
          /\ proc' = [proc EXCEPT ![p] = "streaming"]
          /\ status' = [status EXCEPT ![p] = "R"]
          /\ UNCHANGED <<stop, killed, orphan>>
       \/ Exit(p, "F")

\* The poll loop ends on stop_requested or at the end of the pipeline.
LeavePollLoop(p) ==
    /\ proc[p] = "streaming" /\ ~killed[p] /\ stop[p]
    /\ Exit(p, "")

\* The pipeline ends, or the process dies of a fault in GStreamer or
\* libcamera, wherever it is.
WorkerEnds(p) == proc[p] \in Running /\ ~killed[p] /\ Exit(p, "")

\* SIGKILL takes effect.
Die(p) == proc[p] \in Running /\ killed[p] /\ Exit(p, "")

WorkerStep(p) ==
    \/ ArmParentDeath(p) \/ CheckParent(p) \/ MediaStart(p)
    \/ LeavePollLoop(p) \/ WorkerEnds(p) \/ Die(p)

Workers ==
    /\ \E p \in Pids : WorkerStep(p)
    /\ UNCHANGED <<mainVars, stop_requested, slotVars>>
-----------------------------------------------------------------------------
(***************************************************************************)
(* The bridge's operations.                                                *)
(***************************************************************************)

\* backend_start up to wait_for_worker_ready: the status pipe, the fork and
\* the handle.  The child inherits the value of stop_requested.  The kernel
\* hands out process identifiers in a cycle, so none a handle still names.
backend_start(s) ==
    /\ pc = "loop" /\ ~handle[s] /\ worker_pid[s] = NoPid
    /\ \E p \in Pids :
          /\ proc[p] = "free" /\ \A r \in Slots : worker_pid[r] # p
          /\ proc' = [proc EXCEPT ![p] = "forked"]
          /\ stop' = [stop EXCEPT ![p] = stop_requested]
          /\ worker_pid' = [worker_pid EXCEPT ![s] = p]
    /\ pc' = "ready" /\ cur' = s
    /\ UNCHANGED <<op, failed, stop_requested, handle, killed, orphan, status>>

Cur == worker_pid[cur]

\* waitpid on the worker of slot s: it collects a process that ended.
Collect(s) == Free({p \in Pids : p = worker_pid[s] /\ proc[p] = "zombie"})

\* Mutant: a failed start gives the handle up without terminate_worker.
StartFailsUnreaped ==
    /\ pc' = "loop" /\ worker_pid' = [worker_pid EXCEPT ![cur] = NoPid]
    /\ UNCHANGED <<cur, op, failed, handle>>

\* The error return of wait_for_worker_ready: backend_start terminates the
\* worker and frees the handle.
StartFails ==
    /\ pc' = "sigterm" /\ op' = "start" /\ failed' = FALSE
    /\ UNCHANGED <<cur, slotVars>>

\* wait_for_worker_ready: the byte 'R' is read; or poll reports nothing and
\* waitpid, a moment later, collects a worker that ended; or another byte or
\* the hang-up is read, or the 10 seconds are over, which is tested before
\* the pipe and so may overlook a byte that has just come.
wait_for_worker_ready ==
    /\ pc = "ready"
    /\ \/ /\ status[Cur] = "R"
          /\ pc' = "loop" /\ handle' = [handle EXCEPT ![cur] = TRUE]
          /\ UNCHANGED <<cur, op, failed, worker_pid, procVars>>
       \/ StartFails /\ Collect(cur)
       \/ StartFails /\ UNCHANGED procVars
    /\ UNCHANGED stop_requested

\* stop_handle calls backend_stop, whose work is terminate_worker.  A handle
\* whose worker is accounted for (worker_pid = 0) is freed at once.
backend_stop(s, why) ==
    /\ cur' = s
    /\ IF worker_pid[s] = NoPid
       THEN /\ handle' = [handle EXCEPT ![s] = FALSE]
            /\ UNCHANGED <<pc, op, failed>>
       ELSE /\ pc' = "sigterm" /\ op' = why /\ failed' = FALSE
            /\ UNCHANGED handle
    /\ UNCHANGED worker_pid

\* Mutant: kill(pid, 0) instead of waitpid, which a zombie answers as well.
AliveByKill(s) == \E p \in Pids : worker_pid[s] = p /\ proc[p] # "free"

\* waitpid(WNOHANG) would return 0.
Alive(s) == worker_pid[s] # NoPid /\ proc[worker_pid[s]] \in Running

\* backend_poll of a worker that still runs changes nothing.  Otherwise
\* waitpid collects the worker, or a former poll did, and the controller
\* stops the handle; but waitpid leaves an errno of EINTR alone that the
\* signal behind stop_requested put there, and the death goes unreported.
backend_poll(s) ==
    /\ pc = "loop" /\ handle[s]
    /\ ~Alive(s)
    /\ Collect(s)
    /\ \/ backend_stop(s, "stop")
       \/ /\ stop_requested
          /\ \E p \in Pids : p = worker_pid[s] /\ proc[p] = "zombie"
          /\ UNCHANGED <<mainVars, slotVars>>
    /\ UNCHANGED stop_requested

\* The controller stops a stream for its own reasons.
StopStream(s) ==
    /\ pc = "loop" /\ handle[s]
    /\ backend_stop(s, "stop")
    /\ UNCHANGED <<stop_requested, procVars>>

\* terminate_worker: SIGTERM to the worker's group (ESRCH is no error).
SendSigterm ==
    /\ pc = "sigterm" /\ pc' = "reap_term"
    /\ \/ /\ stop' = [stop EXCEPT ![Cur] = @ \/ proc[Cur] \in Running]
          /\ UNCHANGED failed
       \/ TermRefused /\ failed' = TRUE /\ UNCHANGED stop
    /\ UNCHANGED <<cur, op, stop_requested, slotVars, proc, killed, orphan,
                   status>>

\* Mutant: a worker that ignores SIGTERM is waited for without SIGKILL.
reap_timeout_no_kill ==
    /\ pc = "reap_term" /\ proc[Cur] \in Running
    /\ pc' = "reap_wait"
    /\ UNCHANGED <<cur, op, failed, stop_requested, slotVars, procVars>>

\* reap_worker returns 1: SIGKILL after the first wait, and after the second
\* a waitpid without a limit.
reap_timeout ==
    /\ pc \in {"reap_term", "reap_kill"} /\ proc[Cur] \in Running
    /\ IF pc = "reap_term"
       THEN pc' = "reap_kill" /\ killed' = [killed EXCEPT ![Cur] = TRUE]
       ELSE pc' = "reap_wait" /\ UNCHANGED killed
    /\ UNCHANGED <<cur, op, failed, stop_requested, slotVars, proc, stop,
                   orphan, status>>

\* waitpid collects the worker, or reports that there is none (ECHILD);
\* terminate_worker clears worker_pid and its caller goes on: backend_start
\* frees the handle, stop_handle only if terminate_worker had no error.
Reaped ==
    /\ pc \in {"reap_term", "reap_kill", "reap_wait"}
    /\ proc[Cur] \notin Running
    /\ Collect(cur)
    /\ worker_pid' = [worker_pid EXCEPT ![cur] = NoPid]
    /\ handle' = [handle EXCEPT ![cur] = op # "start" /\ failed]
    /\ pc' = IF op = "shutdown" THEN "shutdown" ELSE "loop"
    /\ op' = "none" /\ failed' = FALSE
    /\ UNCHANGED <<cur, stop_requested>>

\* main() leaves its loop.
LeaveLoop ==
    /\ pc = "loop" /\ stop_requested
    /\ pc' = "shutdown"
    /\ UNCHANGED <<cur, op, failed, stop_requested, slotVars, procVars>>

\* camera_controller_shutdown and camera_controller_free stop every handle
\* that is left; then main returns.
Shutdown ==
    /\ pc = "shutdown"
    /\ \/ \E s \in Slots : handle[s] /\ backend_stop(s, "shutdown")
       \/ /\ \A s \in Slots : ~handle[s]
          /\ pc' = "exited"
          /\ UNCHANGED <<cur, op, failed, slotVars>>
    /\ UNCHANGED <<stop_requested, procVars>>

Controller ==
    \E s \in Slots : backend_start(s) \/ backend_poll(s) \/ StopStream(s)
BridgeStep ==
    \/ wait_for_worker_ready \/ SendSigterm \/ reap_timeout \/ Reaped
    \/ LeaveLoop \/ Shutdown
-----------------------------------------------------------------------------
(***************************************************************************)
(* systemd and the fate of the bridge process.                             *)
(***************************************************************************)

\* systemctl stop: SIGTERM to every process of the control group.
ServiceStop ==
    /\ pc \notin Down /\ ~stop_requested
    /\ stop_requested' = TRUE
    /\ stop' = [p \in Pids |-> stop[p] \/ proc[p] \in Running]
    /\ UNCHANGED <<mainVars, slotVars, proc, killed, orphan, status>>

\* The bridge is killed: its workers that armed PR_SET_PDEATHSIG are too, and
\* init takes over what is left.
Crash ==
    /\ pc \notin Down
    /\ pc' = "dead"
    /\ proc' = [p \in Pids |-> IF proc[p] \in Running THEN proc[p] ELSE "free"]
    /\ killed' = [p \in Pids |->
          killed[p] \/ (~orphan[p] /\ proc[p] \in Running \ {"forked"})]
    /\ orphan' = [p \in Pids |-> proc[p] \in Running]
    /\ status' = [p \in Pids |-> ""]
    /\ handle' = [s \in Slots |-> FALSE]
    /\ worker_pid' = [s \in Slots |-> NoPid]
    /\ op' = "none" /\ failed' = FALSE /\ stop_requested' = FALSE
    /\ UNCHANGED <<cur, stop>>

\* Restart=on-failure, or a new start of the service.
ServiceStart ==
    /\ pc \in Down /\ pc' = "loop"
    /\ stop_requested' = FALSE
    /\ UNCHANGED <<cur, op, failed, slotVars, procVars>>
=============================================================================
