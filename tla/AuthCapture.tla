---------------------------- MODULE AuthCapture -----------------------------
(***************************************************************************)
(* The authentication helper cbridge/auth-capture-helper.c: each process   *)
(* takes a lock, forks a worker that captures frames into a pipe, and      *)
(* supervises it for three seconds, forwarding the frames to its caller.   *)
(*                                                                         *)
(* sup is the position of a supervisor and worker that of its worker.  The *)
(* lock belongs to the open file the two share (flock).  A frame is        *)
(* written in FrameParts pieces; pipe, held and out are the pieces in the  *)
(* worker's pipe, in the supervisor's buffer and with the caller.  Time is *)
(* abstract: late says that the deadline has passed.  The variables of a   *)
(* process that is gone are back at their initial values, except its exit  *)
(* status and the frames of a success, which are the caller's now.         *)
(***************************************************************************)
EXTENDS IrCapture, Sequences, FiniteSets

CONSTANTS
    Requested,   \* frames asked for (5 by default)
    FrameParts,  \* pieces of a frame
    PipeSize     \* pieces a pipe holds

ASSUME HelperAssumption ==
    {Requested, FrameParts, PipeSize} \subseteq Nat \ {0}

VARIABLES
    sup, status,             \* per supervisor: position, exit status
    worker_done, pipe_eof,   \* its variables
    late,
    worker, worker_status,   \* per worker: position, exit status
    stop_requested,          \* its stop_requested
    frames, part,            \* frames written, next piece of the present one
    pipe, held, out,
    reading                  \* the caller has not closed its end

supVars == <<sup, status, worker_done, pipe_eof, late>>
workerVars == <<worker, worker_status, stop_requested, frames, part>>
dataVars == <<pipe, held, out, reading>>
vars == <<supVars, workerVars, dataVars, captureVars>>

Watching == {"check", "poll", "forward"}
Alive == {"forked", "starting", "capture", "write", "stop"}
Codes == {"none", "success", "failure", "busy", "timeout"}
Pieces == SeqNums \X (1..FrameParts)

TypeOK ==
    /\ CaptureTypeOK
    /\ sup \in [Helpers -> Watching \cup {"idle", "killed"}]
    /\ worker \in [Helpers -> Alive \cup {"none", "zombie"}]
    /\ status \in [Helpers -> Codes] /\ worker_status \in [Helpers -> Codes]
    /\ \A f \in {worker_done, pipe_eof, late, stop_requested, reading} :
          f \in [Helpers -> BOOLEAN]
    /\ frames \in [Helpers -> 0..Requested]
    /\ part \in [Helpers -> 1..FrameParts]
    /\ \A h \in Helpers :
          /\ pipe[h] \in Seq(Pieces) /\ Len(pipe[h]) <= PipeSize
          /\ held[h] \in Seq(Pieces) /\ Len(held[h]) <= PipeSize
          /\ out[h] \in Seq(Pieces)

Init ==
    /\ CaptureInit
    /\ sup = [h \in Helpers |-> "idle"]
    /\ worker = [h \in Helpers |-> "none"]
    /\ status = [h \in Helpers |-> "none"] /\ worker_status = status
    /\ worker_done = [h \in Helpers |-> FALSE]
    /\ pipe_eof = worker_done /\ late = worker_done
    /\ stop_requested = worker_done
    /\ frames = [h \in Helpers |-> 0] /\ part = [h \in Helpers |-> 1]
    /\ pipe = [h \in Helpers |-> << >>] /\ held = pipe /\ out = pipe
    /\ reading = [h \in Helpers |-> TRUE]

Set(f, h, v) == [f EXCEPT ![h] = v]
-----------------------------------------------------------------------------
(***************************************************************************)
(* The worker.                                                             *)
(***************************************************************************)

\* install_worker_signals.
WorkerForked(h) ==
    /\ worker[h] = "forked" /\ worker' = Set(worker, h, "starting")
    /\ UNCHANGED <<supVars, worker_status, stop_requested, frames, part,
                   dataVars, captureVars>>

\* ir_capture_open and ir_capture_start.
WorkerStarts(h) ==
    /\ worker[h] = "starting" /\ worker' = Set(worker, h, "capture")
    /\ ir_capture_start(h)
    /\ UNCHANGED <<supVars, worker_status, stop_requested, frames, part,
                   dataVars>>

\* The worker is gone, and with it its ends of pipe and lock.  It waits for
\* its supervisor's waitpid if there is one.
Exit(h, code) ==
    /\ IF sup[h] \in Watching
       THEN /\ worker' = Set(worker, h, "zombie")
            /\ worker_status' = Set(worker_status, h, code)
       ELSE worker' = Set(worker, h, "none") /\ UNCHANGED worker_status
    /\ stop_requested' = Set(stop_requested, h, FALSE)
    /\ frames' = Set(frames, h, 0) /\ part' = Set(part, h, 1)
    /\ UNCHANGED <<supVars, dataVars>>

WorkerStartFails(h) ==
    worker[h] = "starting" /\ Exit(h, "failure") /\ UNCHANGED captureVars

\* Mutant: the loop looks only at the number of frames.
StopSeenNever(h) == FALSE

\* The loop's test of stop_requested.
StopSeen(h) == stop_requested[h]

LoopOver(h) == StopSeen(h) \/ frames[h] = Requested

\* One turn of worker_main's loop up to the first piece of a frame.  A frame
\* may turn out stale.
Capture(h) ==
    /\ worker[h] = "capture" /\ ~LoopOver(h)
    /\ \/ NextTimeout(h) /\ UNCHANGED worker
       \/ /\ \E b \in Buffers, requeued \in BOOLEAN :
                NextDiscarded(h, b, requeued)
          /\ UNCHANGED worker
       \/ /\ \E b \in Buffers : NextFrame(h, b)
          /\ \E next \in {"write", "stop"} : worker' = Set(worker, h, next)
       \/ /\ \/ NextFails(h)
             \/ \E b \in Buffers, requeued \in BOOLEAN :
                   NextRejected(h, b, requeued)
          /\ worker' = Set(worker, h, "stop")
    /\ UNCHANGED <<supVars, worker_status, stop_requested, frames, part,
                   dataVars>>

LeaveLoop(h) ==
    /\ worker[h] = "capture" /\ LoopOver(h)
    /\ worker' = Set(worker, h, "stop")
    /\ UNCHANGED <<supVars, worker_status, stop_requested, frames, part,
                   dataVars, captureVars>>

\* The supervisor's end of the pipe is open.
ReadEnd(h) == sup[h] \in Watching

\* write_frame puts a piece into the pipe; a full pipe blocks it.
WriteFrame(h) ==
    /\ worker[h] = "write" /\ ReadEnd(h) /\ Len(pipe[h]) < PipeSize
    /\ pipe' = [pipe EXCEPT ![h] = Append(@, <<last[h], part[h]>>)]
    /\ IF part[h] < FrameParts
       THEN /\ part' = [part EXCEPT ![h] = @ + 1]
            /\ UNCHANGED <<worker, frames>>
       ELSE /\ part' = Set(part, h, 1)
            /\ frames' = [frames EXCEPT ![h] = @ + 1]
            /\ worker' = Set(worker, h, "capture")
    /\ UNCHANGED <<supVars, worker_status, stop_requested, held, out, reading,
                   captureVars>>

\* write_all fails: EPIPE, or stop_requested, which the supervisor requests
\* together with closing its end.
WriteFails(h) ==
    /\ worker[h] = "write" /\ ~ReadEnd(h)
    /\ worker' = Set(worker, h, "stop")
    /\ stop_requested' = Set(stop_requested, h, TRUE)
    /\ UNCHANGED <<supVars, worker_status, frames, part, dataVars,
                   captureVars>>

\* The exit status: VIDIOC_STREAMOFF may fail.
WorkerStops(h) ==
    /\ worker[h] = "stop" /\ ir_capture_close(h)
    /\ \E code \in {"success", "failure"} :
          /\ code = "success" => frames[h] = Requested
          /\ Exit(h, code)

\* Everything but waiting for the camera.
WorkerStep(h) ==
    \/ WorkerForked(h) \/ WorkerStarts(h) \/ WorkerStartFails(h)
    \/ LeaveLoop(h) \/ WriteFrame(h) \/ WriteFails(h) \/ WorkerStops(h)
-----------------------------------------------------------------------------
(***************************************************************************)
(* The supervisor.                                                         *)
(***************************************************************************)

\* Mutant: the worker gives up the inherited lock.
HoldsLockAlone(h) == sup[h] \in Watching

\* flock: the lock is held as long as one of the two has the file open.
HoldsLock(h) == sup[h] \in Watching \/ worker[h] \in Alive

\* open_auth_lock finds the lock taken.
Busy == \E g \in Helpers : HoldsLock(g)

\* main of a new process: it returns without a worker, because the lock is
\* taken or because open, fstat, pipe or fork failed; or it forks one.
Invoke(h) ==
    /\ sup[h] \in {"idle", "killed"} /\ worker[h] \notin Alive
    /\ \/ /\ sup' = Set(sup, h, "idle") /\ worker' = Set(worker, h, "none")
          /\ \/ Busy /\ status' = Set(status, h, "busy")
             \/ status' = Set(status, h, "failure")
       \/ /\ ~Busy
          /\ sup' = Set(sup, h, "check") /\ worker' = Set(worker, h, "forked")
          /\ status' = Set(status, h, "none")
    /\ out' = Set(out, h, << >>)
    /\ UNCHANGED <<worker_done, pipe_eof, late, worker_status, stop_requested,
                   frames, part, pipe, held, reading, captureVars>>

\* The supervisor is gone, after it sent its worker SIGTERM or not.  SIGTERM
\* kills a worker that has no handler yet.
Return(h, how, code, sigterm) ==
    /\ sup' = Set(sup, h, how) /\ status' = Set(status, h, code)
    /\ worker_done' = Set(worker_done, h, FALSE)
    /\ pipe_eof' = Set(pipe_eof, h, FALSE) /\ late' = Set(late, h, FALSE)
    /\ IF worker[h] = "zombie" \/ (worker[h] = "forked" /\ sigterm)
       THEN worker' = Set(worker, h, "none") /\ UNCHANGED stop_requested
       ELSE /\ stop_requested' = [stop_requested EXCEPT ![h] = @ \/ sigterm]
            /\ UNCHANGED worker
    /\ worker_status' = Set(worker_status, h, "none")
    /\ pipe' = Set(pipe, h, << >>) /\ held' = Set(held, h, << >>)
    /\ reading' = Set(reading, h, TRUE)
    /\ out' = IF code = "success" THEN out ELSE Set(out, h, << >>)
    /\ UNCHANGED <<frames, part, captureVars>>

LoopDone(h) == worker_done[h] /\ pipe_eof[h]

\* Both ends seen: the worker's exit status is the supervisor's.
Finish(h) ==
    /\ sup[h] = "check" /\ LoopDone(h)
    /\ Return(h, "idle", IF worker_status[h] = "success" THEN "success"
                                                        ELSE "failure", FALSE)

\* The head of the loop: waitpid(WNOHANG), then the deadline.
Timeout(h) ==
    /\ sup[h] = "check" /\ ~LoopDone(h) /\ late[h]
    /\ Return(h, "idle", "timeout", TRUE)

Check(h) ==
    /\ sup[h] = "check" /\ ~LoopDone(h) /\ ~late[h]
    /\ sup' = Set(sup, h, "poll")
    /\ worker_done' = [worker_done EXCEPT ![h] = @ \/ worker[h] = "zombie"]
    /\ UNCHANGED <<status, pipe_eof, late, workerVars, dataVars, captureVars>>

\* poll and read: nothing yet or the end of the file, data, or an error.
Poll(h) ==
    /\ sup[h] = "poll" /\ pipe[h] = << >>
    /\ sup' = Set(sup, h, "check")
    /\ pipe_eof' = Set(pipe_eof, h, worker[h] \notin Alive)
    /\ UNCHANGED <<status, worker_done, late, workerVars, dataVars,
                   captureVars>>

Read(h) ==
    /\ sup[h] = "poll" /\ pipe[h] # << >>
    /\ sup' = Set(sup, h, "forward")
    /\ held' = Set(held, h, pipe[h]) /\ pipe' = Set(pipe, h, << >>)
    /\ UNCHANGED <<status, worker_done, pipe_eof, late, workerVars, out,
                   reading, captureVars>>

PollFails(h) == sup[h] = "poll" /\ Return(h, "idle", "failure", TRUE)

\* Mutant: a short write counts as complete.
UnwrittenForgotten(h) == << >>

\* What is left of the bytes read after one more piece of them is written.
Unwritten(h) == Tail(held[h])

\* forward_bytes: the caller takes a piece of what was read.  A write may be
\* short anywhere, so the loop goes on from there, or fails there.
Forward(h) ==
    /\ sup[h] = "forward" /\ held[h] # << >> /\ reading[h]
    /\ out' = [out EXCEPT ![h] = Append(@, Head(held[h]))]
    /\ held' = Set(held, h, Unwritten(h))
    /\ sup' = Set(sup, h, IF Unwritten(h) = << >> THEN "check" ELSE "forward")
    /\ UNCHANGED <<status, worker_done, pipe_eof, late, workerVars, pipe,
                   reading, captureVars>>

\* forward_bytes fails: the caller is gone, or not ready at the deadline.
ForwardFails(h) ==
    /\ sup[h] = "forward"
    /\ ~reading[h] \/ late[h]
    /\ Return(h, "idle", "failure", TRUE)

SupervisorStep(h) ==
    \/ Finish(h) \/ Timeout(h) \/ Check(h) \/ Poll(h) \/ Read(h)
    \/ PollFails(h) \/ Forward(h) \/ ForwardFails(h)
-----------------------------------------------------------------------------
(***************************************************************************)
(* The environment: time and the caller (external).                        *)
(***************************************************************************)

DeadlinePasses(h) ==
    /\ sup[h] \in Watching /\ ~late[h] /\ late' = Set(late, h, TRUE)
    /\ UNCHANGED <<sup, status, worker_done, pipe_eof, workerVars, dataVars,
                   captureVars>>

CallerCloses(h) ==
    /\ sup[h] \in Watching /\ reading[h]
    /\ reading' = Set(reading, h, FALSE)
    /\ UNCHANGED <<supVars, workerVars, pipe, held, out, captureVars>>

\* The caller's SIGTERM or SIGKILL ends the supervisor, not the worker.
CallerKills(h) == sup[h] \in Watching /\ Return(h, "killed", "none", FALSE)

Wait(h) == DiscardWaitOver(h) /\ UNCHANGED <<supVars, workerVars, dataVars>>

Next ==
    \E h \in Helpers :
        \/ Invoke(h) \/ WorkerStep(h) \/ Capture(h) \/ SupervisorStep(h)
        \/ DeadlinePasses(h) \/ CallerCloses(h) \/ CallerKills(h) \/ Wait(h)

Spec == Init /\ [][Next]_vars

(***************************************************************************)
(* Fairness: both processes go on when they can, the deadline comes, and   *)
(* the driver returns from STREAMON and STREAMOFF.  Nothing is assumed     *)
(* about what the camera delivers: the worker may find nothing for ever.   *)
(* That Forward is fair is an assumption about the caller: it reads, or    *)
(* closes its end.                                                         *)
(***************************************************************************)
Fairness ==
    \A h \in Helpers :
        /\ WF_vars(WorkerStep(h)) /\ WF_vars(SupervisorStep(h))
        /\ WF_vars(DeadlinePasses(h))

FairSpec == Spec /\ Fairness
-----------------------------------------------------------------------------
(***************************************************************************)
(* Properties.                                                             *)
(***************************************************************************)

\* At most one worker uses the camera, although a supervisor that timed out,
\* failed or was killed leaves its worker behind and its caller starts the
\* next attempt (the lock shared by supervise_worker and its worker).
ExclusiveCapture ==
    \A g, h \in Helpers : worker[g] \in Alive /\ worker[h] \in Alive => g = h

\* What the caller got is the beginning of a series of whole frames with
\* advancing sequence numbers, and exactly Requested of them if the helper
\* reports success: neither short writes nor a worker that ends with data in
\* the pipe lose or repeat a piece.
SuccessMeansFrames ==
    \A h \in Helpers :
        /\ \A i \in 1..Len(out[h]) :
              /\ out[h][i][2] = ((i - 1) % FrameParts) + 1
              /\ i > 1 => IF out[h][i][2] > 1
                          THEN out[h][i][1] = out[h][i - 1][1]
                          ELSE Advances(out[h][i - 1][1], out[h][i][1])
        /\ status[h] = "success" => Len(out[h]) = Requested * FrameParts

\* The worker never goes on with fewer buffers than it started with: a
\* buffer that could not be given back ends the capture, in discard mode too,
\* so the stream does not starve unnoticed (ir_capture_next).
BuffersReturned ==
    \A h \in Helpers :
        worker[h] \in {"capture", "write"} => queued[h] = BufferCount

\* Every invocation returns to its caller, and when it has, its worker ends
\* and gives up camera and lock, wherever the signal and the closed pipe
\* meet it.
HelperEnds ==
    \A h \in Helpers :
        /\ sup[h] \in Watching ~> sup[h] \notin Watching
        /\ (sup[h] = "idle" /\ worker[h] \in Alive) ~> worker[h] \notin Alive
=============================================================================
