------------------------- MODULE AuthCaptureProofs --------------------------
(***************************************************************************)
(* Proofs about the authentication helper, for any number of invocations,  *)
(* buffers and frames.  Two helpers never have a live worker at the same   *)
(* time because the lock outlives the supervisor: holding the lock is      *)
(* exclusive (Exclusive), only Invoke can make a helper hold it, and a     *)
(* live worker holds it.  A success means all the frames because nothing   *)
(* is lost between the worker and the caller: what is with the caller, in  *)
(* the buffer and in the pipe, put together, is what the worker has        *)
(* written (Stream), and its length is the worker's progress.              *)
(***************************************************************************)
EXTENDS AuthCapture, SequenceTheorems, TLAPS

\* The types the argument needs.
LockTypes ==
    /\ sup \in [Helpers -> Watching \cup {"idle", "killed"}]
    /\ worker \in [Helpers -> Alive \cup {"none", "zombie"}]
    /\ queued \in [Helpers -> Int]

\* At most one helper, with its worker or alone, holds the lock.
Exclusive ==
    \A g, h \in Helpers : HoldsLock(g) /\ HoldsLock(h) => g = h

\* The inductive invariant.
IInv == LockTypes /\ Exclusive /\ BuffersReturned

\* A step of h by which no helper comes to hold the lock, and after which a
\* worker that goes on capturing has all its buffers.
Keeps(h) ==
    /\ LockTypes'
    /\ \A g \in Helpers : HoldsLock(g)' => HoldsLock(g)
    /\ \A g \in Helpers : worker'[g] \in {"capture", "write"} =>
          queued'[g] = BufferCount

\* Keeps is enough for the invariant.
LEMMA KeepsInvariant ==
    ASSUME IInv, NEW h \in Helpers, Keeps(h)
    PROVE  IInv'
BY DEF IInv, Keeps, Exclusive, BuffersReturned

\* The worker's steps other than waiting for the camera.
LEMMA WorkerStepKeeps ==
    ASSUME IInv, NEW h \in Helpers, WorkerStep(h)
    PROVE  Keeps(h)
<1> USE DEF IInv, LockTypes, BuffersReturned, Keeps, HoldsLock, Watching,
            Alive, Set
<1>1. CASE WorkerForked(h)
  BY <1>1 DEF WorkerForked, supVars, captureVars
<1>2. CASE WorkerStarts(h)
  <2>1. BufferCount \in Int
    BY CaptureAssumption
  <2> QED
    BY <1>2, <2>1 DEF WorkerStarts, ir_capture_start, supVars
<1>3. CASE WorkerStartFails(h)
  BY <1>3 DEF WorkerStartFails, Exit, supVars, captureVars
<1>4. CASE LeaveLoop(h)
  BY <1>4 DEF LeaveLoop, supVars, captureVars
<1>5. CASE WriteFrame(h)
  BY <1>5 DEF WriteFrame, supVars, captureVars
<1>6. CASE WriteFails(h)
  BY <1>6 DEF WriteFails, supVars, captureVars
<1>7. CASE WorkerStops(h)
  <2>1. PICK code \in {"success", "failure"} : Exit(h, code)
    BY <1>7 DEF WorkerStops
  <2> QED
    BY <1>7, <2>1 DEF WorkerStops, ir_capture_close, Exit, supVars
<1> QED
  BY <1>1, <1>2, <1>3, <1>4, <1>5, <1>6, <1>7 DEF WorkerStep

\* A turn of the capture loop: a buffer that is not given back ends it.
LEMMA CaptureKeeps ==
    ASSUME IInv, NEW h \in Helpers, Capture(h)
    PROVE  Keeps(h)
<1> USE DEF IInv, LockTypes, BuffersReturned, Keeps, HoldsLock, Watching,
            Alive, Set
<1>0. sup' = sup /\ worker[h] = "capture"
  BY DEF Capture, supVars
<1>1. CASE NextTimeout(h) /\ UNCHANGED worker
  BY <1>0, <1>1 DEF NextTimeout, captureVars
<1>2. ASSUME NEW b \in Buffers, NEW requeued \in BOOLEAN,
             NextDiscarded(h, b, requeued), UNCHANGED worker
      PROVE  Keeps(h)
  BY <1>0, <1>2 DEF NextDiscarded, Discard, Requeue
<1>3. ASSUME NEW b \in Buffers, NextFrame(h, b),
             NEW next \in {"write", "stop"}, worker' = Set(worker, h, next)
      PROVE  Keeps(h)
  BY <1>0, <1>3 DEF NextFrame
<1>4. CASE NextFails(h) /\ worker' = Set(worker, h, "stop")
  BY <1>0, <1>4 DEF NextFails, captureVars
<1>5. ASSUME NEW b \in Buffers, NEW requeued \in BOOLEAN,
             NextRejected(h, b, requeued), worker' = Set(worker, h, "stop")
      PROVE  Keeps(h)
  BY <1>0, <1>5 DEF NextRejected, Requeue
<1> QED
  BY <1>1, <1>2, <1>3, <1>4, <1>5 DEF Capture

\* A supervisor that goes away, for whatever reason, holds the lock at most
\* through the worker it leaves behind.
LEMMA ReturnKeeps ==
    ASSUME IInv, NEW h \in Helpers, NEW how \in {"idle", "killed"},
           NEW code, NEW sigterm \in BOOLEAN,
           Return(h, how, code, sigterm)
    PROVE  Keeps(h)
BY DEF IInv, LockTypes, BuffersReturned, Keeps, HoldsLock, Watching, Alive,
       Set, Return, captureVars

\* The supervisor's steps.
LEMMA SupervisorStepKeeps ==
    ASSUME IInv, NEW h \in Helpers, SupervisorStep(h)
    PROVE  Keeps(h)
<1>1. CASE Check(h) \/ Poll(h) \/ Read(h) \/ Forward(h)
  BY <1>1 DEF Check, Poll, Read, Forward, IInv, LockTypes, BuffersReturned,
              Keeps, HoldsLock, Watching, Alive, Set, workerVars, captureVars
<1>2. CASE Finish(h)
  BY <1>2, ReturnKeeps DEF Finish
<1>3. CASE Timeout(h)
  BY <1>3, ReturnKeeps DEF Timeout
<1>4. CASE PollFails(h)
  BY <1>4, ReturnKeeps DEF PollFails
<1>5. CASE ForwardFails(h)
  BY <1>5, ReturnKeeps DEF ForwardFails
<1> QED
  BY <1>1, <1>2, <1>3, <1>4, <1>5 DEF SupervisorStep

\* Time and the caller.
LEMMA EnvironmentKeeps ==
    ASSUME IInv, NEW h \in Helpers,
           DeadlinePasses(h) \/ CallerCloses(h) \/ CallerKills(h) \/ Wait(h)
    PROVE  Keeps(h)
<1> USE DEF IInv, LockTypes, BuffersReturned, Keeps, HoldsLock
<1>1. CASE DeadlinePasses(h)
  BY <1>1 DEF DeadlinePasses, workerVars, captureVars
<1>2. CASE CallerCloses(h)
  BY <1>2 DEF CallerCloses, supVars, workerVars, captureVars
<1>3. CASE CallerKills(h)
  BY <1>3, ReturnKeeps DEF CallerKills
<1>4. CASE Wait(h)
  BY <1>4 DEF Wait, DiscardWaitOver, supVars, workerVars
<1> QED
  BY <1>1, <1>2, <1>3, <1>4

\* The only step by which a helper comes to hold the lock.
LEMMA InvokeInvariant ==
    ASSUME IInv, NEW h \in Helpers, Invoke(h)
    PROVE  IInv'
<1> USE DEF LockTypes, Watching, Alive, Set
<1>1. queued' = queued
  BY DEF Invoke, captureVars
<1>2. CASE /\ sup' = Set(sup, h, "idle") /\ worker' = Set(worker, h, "none")
  <2>1. Keeps(h)
    BY <1>1, <1>2 DEF IInv, BuffersReturned, Keeps, HoldsLock
  <2> QED
    BY <2>1, KeepsInvariant
<1>3. CASE /\ ~Busy
           /\ sup' = Set(sup, h, "check") /\ worker' = Set(worker, h, "forked")
  <2>1. LockTypes'
    BY <1>1, <1>3 DEF IInv
  <2>2. \A g \in Helpers : HoldsLock(g)' => g = h
    BY <1>3 DEF IInv, Busy, HoldsLock
  <2>3. Exclusive'
    BY <2>2 DEF Exclusive
  <2>4. BuffersReturned'
    BY <1>1, <1>3 DEF IInv, BuffersReturned
  <2> QED
    BY <2>1, <2>3, <2>4 DEF IInv
<1> QED
  BY <1>2, <1>3 DEF Invoke

\* The invariant is inductive.
LEMMA Inductive == IInv /\ [Next]_vars => IInv'
<1> SUFFICES ASSUME IInv, [Next]_vars PROVE IInv'
  OBVIOUS
<1>1. CASE UNCHANGED vars
  BY <1>1 DEF vars, supVars, workerVars, captureVars, IInv, LockTypes,
              Exclusive, HoldsLock, BuffersReturned
<1>2. ASSUME NEW h \in Helpers,
             \/ Invoke(h) \/ WorkerStep(h) \/ Capture(h) \/ SupervisorStep(h)
             \/ DeadlinePasses(h) \/ CallerCloses(h) \/ CallerKills(h)
             \/ Wait(h)
      PROVE  IInv'
  BY <1>2, InvokeInvariant, KeepsInvariant, WorkerStepKeeps, CaptureKeeps,
     SupervisorStepKeeps, EnvironmentKeeps
<1> QED
  BY <1>1, <1>2 DEF Next

\* The invariant holds at the start.
LEMMA Initially == Init => IInv
<1> SUFFICES ASSUME Init PROVE IInv
  OBVIOUS
<1> QED
  BY DEF Init, CaptureInit, IInv, LockTypes, Exclusive, HoldsLock,
         BuffersReturned, Watching, Alive

\* At most one worker uses the camera, for any number of helpers, although
\* supervise_worker can time out, fail or be killed and leave its worker
\* behind.
THEOREM CaptureIsExclusive == Spec => []ExclusiveCapture
<1>1. IInv => ExclusiveCapture
  BY DEF IInv, Exclusive, HoldsLock, ExclusiveCapture
<1> QED
  BY Initially, Inductive, <1>1, PTL DEF Spec

\* worker_main goes on only with every buffer back at the driver, for any
\* number of buffers and any discard limit (ir_capture_next).
THEOREM NoBufferLost == Spec => []BuffersReturned
<1>1. IInv => BuffersReturned
  BY DEF IInv
<1> QED
  BY Initially, Inductive, <1>1, PTL DEF Spec
-----------------------------------------------------------------------------
\* TypeOK, one function at a time.
Types ==
    /\ queued \in [Helpers -> 0..BufferCount]
    /\ last \in [Helpers -> SeqNums \cup {NoFrame}]
    /\ discards \in [Helpers -> 0..MaxDiscards]
    /\ waited \in [Helpers -> BOOLEAN]
    /\ sup \in [Helpers -> Watching \cup {"idle", "killed"}]
    /\ worker \in [Helpers -> Alive \cup {"none", "zombie"}]
    /\ status \in [Helpers -> Codes]
    /\ worker_status \in [Helpers -> Codes]
    /\ worker_done \in [Helpers -> BOOLEAN]
    /\ pipe_eof \in [Helpers -> BOOLEAN]
    /\ late \in [Helpers -> BOOLEAN]
    /\ stop_requested \in [Helpers -> BOOLEAN]
    /\ reading \in [Helpers -> BOOLEAN]
    /\ frames \in [Helpers -> 0..Requested]
    /\ part \in [Helpers -> 1..FrameParts]
    /\ pipe \in [Helpers -> Seq(Pieces)]
    /\ held \in [Helpers -> Seq(Pieces)]
    /\ out \in [Helpers -> Seq(Pieces)]

\* A worker that writes has a frame, and it is not one too many.
Writing(h) ==
    worker[h] = "write" => last[h] \in SeqNums /\ frames[h] < Requested

\* The pipe is never fuller than it can be, nor the buffer it is read into.
Bounded(h) == Len(pipe[h]) <= PipeSize /\ Len(held[h]) <= PipeSize

TypeInv == Types /\ \A h \in Helpers : Writing(h) /\ Bounded(h)

\* Everything the worker of h has written, in order.
Stream(h) == out[h] \o held[h] \o pipe[h]

\* Pieces of frames in order, with advancing sequence numbers.
InOrder(s) ==
    \A i \in 1..Len(s) :
        /\ s[i][2] = ((i - 1) % FrameParts) + 1
        /\ i > 1 => IF s[i][2] > 1 THEN s[i][1] = s[i - 1][1]
                                   ELSE Advances(s[i - 1][1], s[i][1])

\* The worker has a capture object.
Capturing == {"capture", "write", "stop"}

\* The processes of h: who is gone has left nothing behind but a success.
Lifetime(h) ==
    /\ worker[h] \notin Capturing => frames[h] = 0 /\ part[h] = 1
    /\ sup[h] \in Watching => worker[h] # "none" /\ status[h] = "none"
    /\ sup[h] \notin Watching =>
          /\ worker[h] # "zombie" /\ ~worker_done[h] /\ ~pipe_eof[h]
          /\ held[h] = << >> /\ pipe[h] = << >>
          /\ status[h] # "success" => out[h] = << >>
    /\ sup[h] # "forward" => held[h] = << >>
    /\ worker_done[h] => worker[h] = "zombie"
    /\ pipe_eof[h] => worker[h] = "zombie" /\ pipe[h] = << >>

\* How far the worker of a running supervisor is.
Progress(h) ==
    LET s == Stream(h) IN
    sup[h] \in Watching =>
        /\ worker[h] \in {"forked", "starting"} => s = << >>
        /\ worker[h] \in Capturing =>
              Len(s) = frames[h] * FrameParts + (part[h] - 1)
        /\ worker[h] \in {"capture", "stop"} => part[h] = 1
        /\ worker[h] = "capture" /\ s # << >> => last[h] = s[Len(s)][1]
        /\ worker[h] = "write" /\ s # << >> =>
              IF part[h] > 1 THEN last[h] = s[Len(s)][1]
                             ELSE Advances(s[Len(s)][1], last[h])
        /\ worker[h] = "zombie" /\ worker_status[h] = "success" =>
              Len(s) = Requested * FrameParts

\* The invariant of the frames.
FrameInv(h) ==
    /\ Lifetime(h) /\ Progress(h) /\ InOrder(Stream(h))
    /\ status[h] = "success" => Len(out[h]) = Requested * FrameParts

\* It implies the type invariant of the specification.
LEMMA TypeInvTypeOK == TypeInv => TypeOK
BY DEF TypeInv, Types, Bounded, TypeOK, CaptureTypeOK

\* The types at the start.
LEMMA TypeInitially == Init => TypeInv
<1> SUFFICES ASSUME Init PROVE TypeInv
  OBVIOUS
<1>1. 0 \in 0..BufferCount /\ 0 \in 0..MaxDiscards /\ 0 \in 0..Requested
      /\ 1 \in 1..FrameParts /\ PipeSize >= 0
  BY CaptureAssumption, HelperAssumption
<1>2. << >> \in Seq(Pieces) /\ Len(<< >>) = 0
  OBVIOUS
<1>3. Types
  BY <1>1, <1>2 DEF Init, CaptureInit, Types, Watching, Alive, Codes
<1>4. \A h \in Helpers : Writing(h) /\ Bounded(h)
  BY <1>1, <1>2 DEF Init, Writing, Bounded
<1> QED
  BY <1>3, <1>4 DEF TypeInv

\* The types, and what a worker that writes has, after a step of h.
Typed(h) == Types' /\ Writing(h)' /\ Bounded(h)'

\* A worker that exits, into its supervisor's waitpid or for good.
LEMMA ExitTyped ==
    ASSUME TypeInv, NEW h \in Helpers, NEW code \in Codes, Exit(h, code)
    PROVE  /\ worker' \in [Helpers -> Alive \cup {"none", "zombie"}]
           /\ worker_status' \in [Helpers -> Codes]
           /\ worker'[h] \in {"none", "zombie"}
           /\ stop_requested' \in [Helpers -> BOOLEAN]
           /\ frames' \in [Helpers -> 0..Requested]
           /\ part' \in [Helpers -> 1..FrameParts]
<1>1. /\ worker \in [Helpers -> Alive \cup {"none", "zombie"}]
      /\ worker_status \in [Helpers -> Codes]
      /\ stop_requested \in [Helpers -> BOOLEAN]
      /\ frames \in [Helpers -> 0..Requested]
      /\ part \in [Helpers -> 1..FrameParts]
  BY DEF TypeInv, Types
<1>2. 0 \in 0..Requested /\ 1 \in 1..FrameParts
  BY HelperAssumption
<1>3. PICK w \in {"none", "zombie"} : worker' = [worker EXCEPT ![h] = w]
  BY DEF Exit, Set
<1>4. PICK c \in Codes : worker_status' = [worker_status EXCEPT ![h] = c]
  <2>1. worker_status = [worker_status EXCEPT ![h] = worker_status[h]]
    BY <1>1
  <2> QED
    BY <1>1, <2>1 DEF Exit, Set
<1>5. /\ stop_requested' \in [Helpers -> BOOLEAN]
      /\ frames' \in [Helpers -> 0..Requested]
      /\ part' \in [Helpers -> 1..FrameParts]
  BY <1>1, <1>2 DEF Exit, Set
<1>6. /\ worker' \in [Helpers -> Alive \cup {"none", "zombie"}]
      /\ worker'[h] \in {"none", "zombie"}
  BY <1>1, <1>3
<1> QED
  BY <1>1, <1>4, <1>5, <1>6

\* The worker's steps: only write_frame puts pieces into the pipe, while it
\* is not full, and counts a frame at its last piece.
LEMMA WorkerStepTyped ==
    ASSUME TypeInv, NEW h \in Helpers, WorkerStep(h)
    PROVE  Typed(h)
<1> USE DEF TypeInv, Types, Typed, Writing, Bounded, Watching, Alive, Codes,
       Set
<1>0. /\ BufferCount \in 0..BufferCount /\ 0 \in 0..BufferCount
      /\ 0 \in 0..MaxDiscards /\ 0 \in 0..Requested /\ 1 \in 1..FrameParts
  BY CaptureAssumption, HelperAssumption
<1>1. CASE WorkerForked(h)
  BY <1>1 DEF WorkerForked, supVars, dataVars, captureVars
<1>2. CASE WorkerStarts(h)
  BY <1>0, <1>2 DEF WorkerStarts, ir_capture_start, supVars, dataVars
<1>3. CASE WorkerStartFails(h)
  BY <1>3, ExitTyped
     DEF WorkerStartFails, Exit, supVars, dataVars, captureVars
<1>4. CASE LeaveLoop(h)
  BY <1>4 DEF LeaveLoop, supVars, dataVars, captureVars
<1>5. CASE WriteFrame(h)
  <2>1. /\ last[h] \in SeqNums /\ part[h] \in 1..FrameParts
        /\ frames[h] \in 0..Requested /\ frames[h] < Requested
        /\ pipe[h] \in Seq(Pieces) /\ Len(pipe[h]) < PipeSize
    BY <1>5 DEF WriteFrame
  <2>2. <<last[h], part[h]>> \in Pieces
    BY <2>1 DEF Pieces
  <2>3. /\ Append(pipe[h], <<last[h], part[h]>>) \in Seq(Pieces)
        /\ Len(Append(pipe[h], <<last[h], part[h]>>)) <= PipeSize
    BY <2>1, <2>2, HelperAssumption
  <2>4. pipe' \in [Helpers -> Seq(Pieces)] /\ Len(pipe'[h]) <= PipeSize
    BY <1>5, <2>3 DEF WriteFrame
  <2>5. /\ part[h] < FrameParts => part[h] + 1 \in 1..FrameParts
        /\ frames[h] + 1 \in 0..Requested
    BY <2>1, HelperAssumption
  <2>6. /\ part' \in [Helpers -> 1..FrameParts]
        /\ frames' \in [Helpers -> 0..Requested]
        /\ worker' \in [Helpers -> Alive \cup {"none", "zombie"}]
    <3>1. CASE part[h] < FrameParts
      BY <1>5, <2>5, <3>1 DEF WriteFrame
    <3>2. CASE ~(part[h] < FrameParts)
      <4>1. /\ part' = [part EXCEPT ![h] = 1]
            /\ frames' = [frames EXCEPT ![h] = frames[h] + 1]
            /\ worker' = [worker EXCEPT ![h] = "capture"]
        BY <1>5, <3>2 DEF WriteFrame
      <4> QED
        BY <1>0, <2>5, <4>1
    <3> QED
      BY <3>1, <3>2
  <2>7. Writing(h)'
    BY <1>5 DEF WriteFrame, captureVars
  <2> QED
    BY <1>5, <2>4, <2>6, <2>7 DEF WriteFrame, supVars, captureVars
<1>6. CASE WriteFails(h)
  BY <1>6 DEF WriteFails, supVars, dataVars, captureVars
<1>7. CASE WorkerStops(h)
  <2>1. PICK code \in {"success", "failure"} : Exit(h, code)
    BY <1>7 DEF WorkerStops
  <2>2. /\ queued' \in [Helpers -> 0..BufferCount]
        /\ last' \in [Helpers -> SeqNums \cup {NoFrame}]
        /\ discards' \in [Helpers -> 0..MaxDiscards]
        /\ waited' \in [Helpers -> BOOLEAN]
    BY <1>0, <1>7 DEF WorkerStops, ir_capture_close
  <2> QED
    BY <2>1, <2>2, ExitTyped DEF Exit, supVars, dataVars
<1> QED
  BY <1>1, <1>2, <1>3, <1>4, <1>5, <1>6, <1>7 DEF WorkerStep

\* A turn of the capture loop: the limit of discards and the frames asked for
\* bound the counters (ir_capture_next, worker_main).
LEMMA CaptureTyped ==
    ASSUME TypeInv, NEW h \in Helpers, Capture(h)
    PROVE  Typed(h)
<1> USE DEF TypeInv, Types, Typed, Writing, Bounded, Alive, Set
<1>0. /\ worker[h] = "capture" /\ frames[h] # Requested
      /\ UNCHANGED <<supVars, worker_status, stop_requested, frames, part,
                     dataVars>>
  BY DEF Capture, LoopOver
<1>1. frames[h] < Requested /\ 0 \in 0..MaxDiscards
  BY <1>0, HelperAssumption, CaptureAssumption
<1>2. CASE NextTimeout(h) /\ UNCHANGED worker
  BY <1>0, <1>2 DEF NextTimeout, captureVars, supVars, dataVars
<1>3. ASSUME NEW b \in Buffers, NEW requeued \in BOOLEAN,
             NextDiscarded(h, b, requeued), UNCHANGED worker
      PROVE  Typed(h)
  <2>1. requeued /\ discards[h] < MaxDiscards
    BY <1>3, CaptureAssumption
       DEF NextDiscarded, Discard, discard_limit_reached
  <2>2. discards' \in [Helpers -> 0..MaxDiscards]
    BY <1>3, <2>1, CaptureAssumption DEF NextDiscarded
  <2>3. queued' \in [Helpers -> 0..BufferCount]
    BY <1>3, <2>1 DEF NextDiscarded, Requeue
  <2> QED
    BY <1>0, <1>3, <2>2, <2>3 DEF NextDiscarded, supVars, dataVars
<1>4. ASSUME NEW b \in Buffers, NextFrame(h, b),
             NEW next \in {"write", "stop"}, worker' = Set(worker, h, next)
      PROVE  Typed(h)
  <2>1. b.seq \in SeqNums
    BY DEF Buffers
  <2> QED
    BY <1>0, <1>1, <1>4, <2>1 DEF NextFrame, supVars, dataVars
<1>5. CASE NextFails(h) /\ worker' = Set(worker, h, "stop")
  BY <1>0, <1>5 DEF NextFails, captureVars, supVars, dataVars
<1>6. ASSUME NEW b \in Buffers, NEW requeued \in BOOLEAN,
             NextRejected(h, b, requeued), worker' = Set(worker, h, "stop")
      PROVE  Typed(h)
  <2>1. queued' \in [Helpers -> 0..BufferCount]
    <3>1. queued[h] \in 0..BufferCount /\ queued[h] > 0
      BY <1>6 DEF NextRejected
    <3>2. (IF requeued THEN queued[h] ELSE queued[h] - 1) \in 0..BufferCount
      BY <3>1, CaptureAssumption
    <3> QED
      BY <1>6, <3>2 DEF NextRejected, Requeue
  <2> QED
    BY <1>0, <1>6, <2>1 DEF NextRejected, supVars, dataVars
<1> QED
  BY <1>2, <1>3, <1>4, <1>5, <1>6 DEF Capture

\* A supervisor that goes away.
LEMMA ReturnTyped ==
    ASSUME TypeInv, NEW h \in Helpers, NEW how \in {"idle", "killed"},
           NEW code \in Codes, NEW sigterm \in BOOLEAN,
           Return(h, how, code, sigterm)
    PROVE  Typed(h)
<1> USE DEF TypeInv, Types, Typed, Writing, Bounded, Set
<1>1. << >> \in Seq(Pieces) /\ Len(<< >>) = 0 /\ PipeSize >= 0
  BY HelperAssumption
<1>2. /\ pipe' \in [Helpers -> Seq(Pieces)] /\ Len(pipe'[h]) <= PipeSize
      /\ held' \in [Helpers -> Seq(Pieces)] /\ Len(held'[h]) <= PipeSize
      /\ out' \in [Helpers -> Seq(Pieces)]
  BY <1>1 DEF Return
<1>3. /\ sup' \in [Helpers -> Watching \cup {"idle", "killed"}]
      /\ worker' \in [Helpers -> Alive \cup {"none", "zombie"}]
      /\ status' \in [Helpers -> Codes]
      /\ worker_status' \in [Helpers -> Codes]
  BY DEF Return, Codes
<1>4. /\ worker_done' \in [Helpers -> BOOLEAN]
      /\ pipe_eof' \in [Helpers -> BOOLEAN]
      /\ late' \in [Helpers -> BOOLEAN]
      /\ reading' \in [Helpers -> BOOLEAN]
  BY DEF Return
<1>5. stop_requested' \in [Helpers -> BOOLEAN]
  <2>1. (stop_requested[h] \/ sigterm) \in BOOLEAN
    OBVIOUS
  <2> QED
    BY <2>1, Zenon DEF Return
<1>6. Writing(h)'
  BY DEF Return, captureVars
<1> QED
  BY <1>2, <1>3, <1>4, <1>5, <1>6 DEF Return, captureVars

\* The supervisor's steps.
LEMMA SupervisorStepTyped ==
    ASSUME TypeInv, NEW h \in Helpers, SupervisorStep(h)
    PROVE  Typed(h)
<1> USE DEF Codes
<1>1. CASE Check(h)
  <2>1. worker_done' \in [Helpers -> BOOLEAN]
    <3>1. (worker_done[h] \/ worker[h] = "zombie") \in BOOLEAN
      OBVIOUS
    <3> QED
      BY <1>1, <3>1, Zenon DEF Check, TypeInv, Types
  <2> QED
    BY <1>1, <2>1
       DEF Check, TypeInv, Types, Typed, Writing, Bounded, Set, Watching,
           workerVars, dataVars, captureVars
<1>2. CASE Poll(h)
  <2>1. pipe_eof' \in [Helpers -> BOOLEAN]
    <3>1. (worker[h] \notin Alive) \in BOOLEAN
      OBVIOUS
    <3> QED
      BY <1>2, <3>1, Zenon DEF Poll, TypeInv, Types, Set
  <2> QED
    BY <1>2, <2>1
       DEF Poll, TypeInv, Types, Typed, Writing, Bounded, Set, Watching,
           workerVars, dataVars, captureVars
<1>3. CASE Read(h)
  <2>1. << >> \in Seq(Pieces) /\ Len(<< >>) = 0 /\ PipeSize >= 0
    BY HelperAssumption
  <2> QED
    BY <1>3, <2>1
       DEF Read, TypeInv, Types, Typed, Writing, Bounded, Set, Watching,
           workerVars, captureVars
<1>4. CASE Forward(h)
  <2>1. /\ out[h] \in Seq(Pieces) /\ held[h] \in Seq(Pieces)
        /\ held[h] # << >> /\ Len(held[h]) <= PipeSize /\ PipeSize \in Nat
    BY <1>4, HelperAssumption DEF Forward, TypeInv, Types, Bounded
  <2>2. /\ Append(out[h], Head(held[h])) \in Seq(Pieces)
        /\ Tail(held[h]) \in Seq(Pieces) /\ Len(Tail(held[h])) <= PipeSize
    BY <2>1
  <2>3. /\ out' \in [Helpers -> Seq(Pieces)]
        /\ held' \in [Helpers -> Seq(Pieces)] /\ Len(held'[h]) <= PipeSize
        /\ sup' \in [Helpers -> Watching \cup {"idle", "killed"}]
    BY <1>4, <2>2
       DEF Forward, Unwritten, TypeInv, Types, Set, Watching
  <2> QED
    BY <1>4, <2>3
       DEF Forward, TypeInv, Types, Typed, Writing, Bounded, workerVars,
           captureVars
<1>5. CASE Finish(h)
  BY <1>5, ReturnTyped DEF Finish
<1>6. CASE Timeout(h)
  BY <1>6, ReturnTyped DEF Timeout
<1>7. CASE PollFails(h)
  BY <1>7, ReturnTyped DEF PollFails
<1>8. CASE ForwardFails(h)
  BY <1>8, ReturnTyped DEF ForwardFails
<1> QED
  BY <1>1, <1>2, <1>3, <1>4, <1>5, <1>6, <1>7, <1>8 DEF SupervisorStep

\* A new process, time and the caller.
LEMMA OtherTyped ==
    ASSUME TypeInv, NEW h \in Helpers,
           \/ Invoke(h) \/ DeadlinePasses(h) \/ CallerCloses(h)
           \/ CallerKills(h) \/ Wait(h)
    PROVE  Typed(h)
<1> USE DEF TypeInv, Types, Typed, Writing, Bounded, Codes, Set
<1>1. CASE Invoke(h)
  <2>1. << >> \in Seq(Pieces)
    OBVIOUS
  <2> QED
    BY <1>1, <2>1 DEF Invoke, Watching, Alive, captureVars
<1>2. CASE DeadlinePasses(h)
  BY <1>2 DEF DeadlinePasses, workerVars, dataVars, captureVars
<1>3. CASE CallerCloses(h)
  BY <1>3 DEF CallerCloses, supVars, workerVars, captureVars
<1>4. CASE CallerKills(h)
  BY <1>4, ReturnTyped DEF CallerKills
<1>5. CASE Wait(h)
  BY <1>5 DEF Wait, DiscardWaitOver, supVars, workerVars, dataVars
<1> QED
  BY <1>1, <1>2, <1>3, <1>4, <1>5

\* The values of g the invariant of the frames speaks about.
Same(g) ==
    /\ sup'[g] = sup[g] /\ status'[g] = status[g]
    /\ worker_done'[g] = worker_done[g] /\ pipe_eof'[g] = pipe_eof[g]
    /\ worker'[g] = worker[g] /\ worker_status'[g] = worker_status[g]
    /\ frames'[g] = frames[g] /\ part'[g] = part[g] /\ last'[g] = last[g]
    /\ pipe'[g] = pipe[g] /\ held'[g] = held[g] /\ out'[g] = out[g]

\* A step of one helper.
StepOf(h) ==
    \/ Invoke(h) \/ WorkerStep(h) \/ Capture(h) \/ SupervisorStep(h)
    \/ DeadlinePasses(h) \/ CallerCloses(h) \/ CallerKills(h) \/ Wait(h)

\* An untouched helper keeps its part of the invariants.
LEMMA SameKeeps ==
    ASSUME NEW g \in Helpers, Same(g)
    PROVE  /\ Writing(g) => Writing(g)'
           /\ Bounded(g) => Bounded(g)'
           /\ FrameInv(g) => FrameInv(g)'
<1>1. Stream(g)' = Stream(g)
  BY DEF Same, Stream
<1>2. Lifetime(g) => Lifetime(g)'
  BY DEF Same, Lifetime
<1>3. Progress(g) => Progress(g)'
  BY <1>1 DEF Same, Progress
<1>4. InOrder(Stream(g)) => InOrder(Stream(g))'
  BY <1>1 DEF InOrder
<1>5. FrameInv(g) => FrameInv(g)'
  BY <1>2, <1>3, <1>4 DEF Same, FrameInv
<1> QED
  BY <1>5 DEF Same, Writing, Bounded

\* A step of one helper touches no other.
LEMMA OthersSame ==
    ASSUME TypeInv, NEW h \in Helpers, StepOf(h), NEW g \in Helpers, g # h
    PROVE  Same(g)
<1> USE DEF TypeInv, Types, Same, Set
<1>1. CASE Invoke(h)
  BY <1>1 DEF Invoke, captureVars
<1>2. CASE WorkerStep(h)
  <2>1. CASE WorkerForked(h)
    BY <2>1 DEF WorkerForked, supVars, dataVars, captureVars
  <2>2. CASE WorkerStarts(h)
    BY <2>2 DEF WorkerStarts, ir_capture_start, supVars, dataVars
  <2>3. CASE WorkerStartFails(h)
    BY <2>3 DEF WorkerStartFails, Exit, supVars, dataVars, captureVars
  <2>4. CASE LeaveLoop(h)
    BY <2>4 DEF LeaveLoop, supVars, dataVars, captureVars
  <2>5. CASE WriteFrame(h)
    BY <2>5 DEF WriteFrame, supVars, captureVars
  <2>6. CASE WriteFails(h)
    BY <2>6 DEF WriteFails, supVars, dataVars, captureVars
  <2>7. CASE WorkerStops(h)
    BY <2>7 DEF WorkerStops, ir_capture_close, Exit, supVars, dataVars
  <2> QED
    BY <1>2, <2>1, <2>2, <2>3, <2>4, <2>5, <2>6, <2>7 DEF WorkerStep
<1>3. CASE Capture(h)
  <2>1. /\ UNCHANGED <<supVars, worker_status, frames, part, dataVars>>
        /\ worker'[g] = worker[g] /\ last'[g] = last[g]
    BY <1>3 DEF Capture, NextTimeout, NextDiscarded, NextFrame, NextFails,
                NextRejected, captureVars
  <2> QED
    BY <2>1 DEF supVars, dataVars
<1>4. ASSUME NEW how, NEW code, NEW sigterm, Return(h, how, code, sigterm)
      PROVE  Same(g)
  BY <1>4 DEF Return, captureVars
<1>5. CASE SupervisorStep(h)
  <2>1. CASE Check(h) \/ Poll(h)
    BY <2>1 DEF Check, Poll, workerVars, dataVars, captureVars
  <2>2. CASE Read(h)
    BY <2>2 DEF Read, workerVars, captureVars
  <2>3. CASE Forward(h)
    BY <2>3 DEF Forward, workerVars, captureVars
  <2>4. CASE Finish(h) \/ Timeout(h) \/ PollFails(h) \/ ForwardFails(h)
    BY <1>4, <2>4 DEF Finish, Timeout, PollFails, ForwardFails
  <2> QED
    BY <1>5, <2>1, <2>2, <2>3, <2>4 DEF SupervisorStep
<1>6. CASE DeadlinePasses(h) \/ CallerCloses(h) \/ CallerKills(h) \/ Wait(h)
  BY <1>4, <1>6 DEF DeadlinePasses, CallerCloses, CallerKills, Wait,
     DiscardWaitOver, supVars, workerVars, dataVars, captureVars
<1> QED
  BY <1>1, <1>2, <1>3, <1>5, <1>6 DEF StepOf

\* The types are inductive with Writing and Bounded.
LEMMA TypeStep == TypeInv /\ [Next]_vars => TypeInv'
<1> SUFFICES ASSUME TypeInv, [Next]_vars PROVE TypeInv'
  OBVIOUS
<1>1. CASE UNCHANGED vars
  BY <1>1 DEF vars, supVars, workerVars, dataVars, captureVars, TypeInv,
              Types, Writing, Bounded
<1>2. ASSUME NEW h \in Helpers, StepOf(h)
      PROVE  TypeInv'
  <2>1. Typed(h)
    BY <1>2, WorkerStepTyped, CaptureTyped, SupervisorStepTyped, OtherTyped
       DEF StepOf
  <2>2. \A g \in Helpers : g # h => Writing(g)' /\ Bounded(g)'
    BY <1>2, OthersSame, SameKeeps DEF TypeInv
  <2> QED
    BY <2>1, <2>2 DEF Typed, TypeInv
<1> QED
  BY <1>1, <1>2 DEF Next, StepOf

\* The types hold for any number of helpers, frames and pieces; in particular
\* the pipe and the supervisor's buffer stay within PipeSize, the discards
\* within their limit, and no worker counts more frames than asked for.
THEOREM TypeCorrect == Spec => []TypeOK
BY TypeInitially, TypeStep, TypeInvTypeOK, PTL DEF Spec
-----------------------------------------------------------------------------
\* Dividing the number of pieces of k frames and r more.
LEMMA RemainderOfPiece ==
    ASSUME NEW k \in Nat, NEW F \in Nat \ {0}, NEW r \in 0..(F - 1)
    PROVE  /\ (k * F + r) % F = r
           /\ k * F \in Nat /\ (k + 1) * F = k * F + F
<1>1. k * F \in Nat /\ (k + 1) * F = k * F + F
  OBVIOUS
<1>2. k * F + r \in Nat
  BY <1>1
<1>3. (k * F + r) % F = r
  BY <1>2
<1> QED
  BY <1>1, <1>3

\* The next piece of the frame, or the first of an advancing one, continues
\* an ordered series.
LEMMA AppendInOrder ==
    ASSUME NEW s \in Seq(Pieces), InOrder(s), NEW p \in Pieces,
           p[2] = (Len(s) % FrameParts) + 1,
           s # << >> => IF p[2] > 1 THEN p[1] = s[Len(s)][1]
                                    ELSE Advances(s[Len(s)][1], p[1])
    PROVE  InOrder(Append(s, p))
<1> DEFINE t == Append(s, p)
<1>1. /\ Len(t) = Len(s) + 1 /\ Len(s) \in Nat /\ t[Len(s) + 1] = p
      /\ \A i \in 1..Len(s) : t[i] = s[i]
      /\ Len(s) > 0 => s # << >>
  OBVIOUS
<1> HIDE DEF t
<1> SUFFICES ASSUME NEW i \in 1..(Len(s) + 1)
             PROVE  /\ t[i][2] = ((i - 1) % FrameParts) + 1
                    /\ i > 1 => IF t[i][2] > 1
                                THEN t[i][1] = t[i - 1][1]
                                ELSE Advances(t[i - 1][1], t[i][1])
  BY <1>1 DEF InOrder, t
<1>2. CASE i <= Len(s)
  <2>1. t[i] = s[i] /\ (i > 1 => t[i - 1] = s[i - 1]) /\ i \in 1..Len(s)
    BY <1>1, <1>2
  <2> QED
    BY <2>1 DEF InOrder
<1>3. CASE i = Len(s) + 1
  <2>1. /\ t[i] = p /\ i - 1 = Len(s)
        /\ i > 1 => t[i - 1] = s[Len(s)] /\ s # << >>
    BY <1>1, <1>3
  <2> QED
    BY <2>1
<1> QED
  BY <1>1, <1>2, <1>3

\* The beginning of an ordered series is ordered.
LEMMA PrefixInOrder ==
    ASSUME NEW s \in Seq(Pieces), NEW t \in Seq(Pieces), InOrder(s \o t)
    PROVE  InOrder(s)
<1> DEFINE u == s \o t
<1>1. /\ Len(u) = Len(s) + Len(t) /\ Len(s) \in Nat /\ Len(t) \in Nat
      /\ \A i \in 1..Len(s) : u[i] = s[i]
  OBVIOUS
<1> HIDE DEF u
<1>2. InOrder(u)
  BY DEF u
<1> SUFFICES ASSUME NEW i \in 1..Len(s)
             PROVE  /\ s[i][2] = ((i - 1) % FrameParts) + 1
                    /\ i > 1 => IF s[i][2] > 1
                                THEN s[i][1] = s[i - 1][1]
                                ELSE Advances(s[i - 1][1], s[i][1])
  BY DEF InOrder
<1>3. i \in 1..Len(u) /\ u[i] = s[i] /\ (i > 1 => u[i - 1] = s[i - 1])
  BY <1>1
<1> QED
  BY <1>2, <1>3 DEF InOrder

\* A piece at the end of the pipe is at the end of the series.
LEMMA ConcatAppend ==
    \A a, b, c \in Seq(Pieces) : \A p \in Pieces :
        a \o b \o Append(c, p) = Append(a \o b \o c, p)
OBVIOUS

\* A piece moved from the front of one sequence to the end of another leaves
\* their concatenation as it was.
LEMMA ConcatMove ==
    \A a, b, c \in Seq(Pieces) :
        b # << >> => Append(a, Head(b)) \o Tail(b) \o c = a \o b \o c
<1> SUFFICES ASSUME NEW a \in Seq(Pieces), NEW b \in Seq(Pieces),
                    NEW c \in Seq(Pieces), b # << >>
             PROVE  Append(a, Head(b)) \o Tail(b) \o c = a \o b \o c
  OBVIOUS
<1>1. Append(a, Head(b)) \o Tail(b) = a \o b
  OBVIOUS
<1> QED
  BY <1>1

\* The series and its parts are sequences of pieces.
LEMMA StreamType ==
    ASSUME TypeInv, NEW h \in Helpers
    PROVE  /\ Stream(h) \in Seq(Pieces) /\ out[h] \in Seq(Pieces)
           /\ held[h] \in Seq(Pieces) /\ pipe[h] \in Seq(Pieces)
           /\ InOrder(Stream(h)) => InOrder(out[h])
<1>1. /\ out[h] \in Seq(Pieces) /\ held[h] \in Seq(Pieces)
      /\ pipe[h] \in Seq(Pieces)
  BY DEF TypeInv, Types
<1>2. /\ out[h] \o held[h] \in Seq(Pieces)
      /\ Stream(h) = (out[h] \o held[h]) \o pipe[h]
      /\ Stream(h) \in Seq(Pieces)
  BY <1>1 DEF Stream
<1> QED
  BY <1>1, <1>2, PrefixInOrder

\* A supervisor that goes away leaves only complete frames behind, and
\* nothing unless it reports success (supervise_worker).
LEMMA ReturnFrames ==
    ASSUME TypeInv, NEW h \in Helpers, FrameInv(h),
           NEW how \in {"idle", "killed"}, NEW code, NEW sigterm \in BOOLEAN,
           code = "success" => Len(out[h]) = Requested * FrameParts,
           Return(h, how, code, sigterm)
    PROVE  FrameInv(h)'
<1>1. /\ sup'[h] \notin Watching /\ status'[h] = code
      /\ ~worker_done'[h] /\ ~pipe_eof'[h]
      /\ pipe'[h] = << >> /\ held'[h] = << >>
      /\ out'[h] = IF code = "success" THEN out[h] ELSE << >>
      /\ frames'[h] = frames[h] /\ part'[h] = part[h]
  BY DEF Return, Set, TypeInv, Types, Watching
<1>2. worker'[h] # "zombie"
      /\ (worker'[h] \in Capturing <=> worker[h] \in Capturing)
  BY DEF Return, Set, TypeInv, Types, Capturing
<1>3. Lifetime(h)'
  BY <1>1, <1>2 DEF Lifetime, FrameInv, Watching
<1>4. Progress(h)'
  BY <1>1 DEF Progress
<1>5. Stream(h)' = out'[h]
  BY <1>1, StreamType DEF Stream
<1>6. InOrder(Stream(h))'
  <2>1. InOrder(out[h]) /\ InOrder(<< >>)
    BY StreamType DEF FrameInv, InOrder
  <2> QED
    BY <1>1, <1>5, <2>1 DEF InOrder
<1>7. (status[h] = "success" => Len(out[h]) = Requested * FrameParts)'
  BY <1>1
<1> QED
  BY <1>3, <1>4, <1>6, <1>7 DEF FrameInv

\* The supervisor moves pieces along and loses none; it reports success after
\* the worker's exit status and the end of the pipe, when nothing is on its
\* way.
LEMMA SupervisorFrames ==
    ASSUME TypeInv, NEW h \in Helpers, FrameInv(h), SupervisorStep(h)
    PROVE  FrameInv(h)'
<1> USE DEF TypeInv, Types, Set
<1>0. /\ out[h] \in Seq(Pieces) /\ held[h] \in Seq(Pieces)
      /\ pipe[h] \in Seq(Pieces)
      /\ Stream(h) \in Seq(Pieces)
  BY StreamType
<1>9. /\ Lifetime(h) /\ Progress(h) /\ InOrder(Stream(h))
      /\ status[h] = "success" => Len(out[h]) = Requested * FrameParts
  BY DEF FrameInv
<1>1. CASE Finish(h)
  <2>1. worker[h] = "zombie" /\ pipe[h] = << >> /\ held[h] = << >>
        /\ sup[h] \in Watching
    BY <1>1, <1>9 DEF Finish, LoopDone, Lifetime, Watching
  <2>2. Stream(h) = out[h]
    BY <1>0, <2>1 DEF Stream
  <2>3. worker_status[h] = "success" => Len(out[h]) = Requested * FrameParts
    BY <1>9, <2>1, <2>2 DEF Progress
  <2> QED
    BY <1>1, <2>3, ReturnFrames DEF Finish
<1>2. CASE Timeout(h) \/ PollFails(h) \/ ForwardFails(h)
  BY <1>2, ReturnFrames DEF Timeout, PollFails, ForwardFails
<1>3. CASE Check(h) \/ Poll(h)
  <2>1. /\ sup[h] \in Watching \ {"forward"}
        /\ sup'[h] \in Watching \ {"forward"}
        /\ status'[h] = status[h]
        /\ worker'[h] = worker[h] /\ worker_status'[h] = worker_status[h]
        /\ frames'[h] = frames[h] /\ part'[h] = part[h] /\ last'[h] = last[h]
        /\ pipe'[h] = pipe[h] /\ held'[h] = held[h] /\ out'[h] = out[h]
    BY <1>3 DEF Check, Poll, workerVars, dataVars, captureVars, Watching
  <2>2. worker_done'[h] => worker[h] = "zombie"
    BY <1>3, <1>9 DEF Check, Poll, Lifetime
  <2>3. pipe_eof'[h] => worker[h] = "zombie" /\ pipe[h] = << >>
    BY <1>3, <1>9 DEF Check, Poll, Lifetime, Watching, Alive
  <2>4. Lifetime(h)'
    BY <1>9, <2>1, <2>2, <2>3 DEF Lifetime
  <2>5. Stream(h)' = Stream(h)
    BY <2>1 DEF Stream
  <2>6. Progress(h)'
    BY <1>9, <2>1, <2>5 DEF Progress
  <2> QED
    BY <1>9, <2>1, <2>4, <2>5, <2>6 DEF FrameInv, InOrder
<1>4. CASE Read(h) \/ Forward(h)
  <2>1. /\ sup[h] \in Watching /\ sup'[h] \in Watching
        /\ status'[h] = status[h]
        /\ worker'[h] = worker[h] /\ worker_status'[h] = worker_status[h]
        /\ worker_done'[h] = worker_done[h] /\ pipe_eof'[h] = pipe_eof[h]
        /\ frames'[h] = frames[h] /\ part'[h] = part[h] /\ last'[h] = last[h]
    BY <1>4 DEF Read, Forward, workerVars, captureVars, Watching
  <2>2. Stream(h)' = Stream(h)
    <3>1. CASE Read(h)
      <4>1. /\ held[h] = << >> /\ held'[h] = pipe[h] /\ pipe'[h] = << >>
            /\ out'[h] = out[h]
        BY <1>9, <3>1 DEF Read, Lifetime
      <4> QED
        BY <1>0, <4>1 DEF Stream
    <3>2. CASE Forward(h)
      <4>1. /\ held[h] # << >> /\ held'[h] = Tail(held[h])
            /\ pipe'[h] = pipe[h] /\ out'[h] = Append(out[h], Head(held[h]))
        BY <3>2 DEF Forward, Unwritten, TypeInv, Types, Set
      <4>2. Append(out[h], Head(held[h])) \o Tail(held[h]) \o pipe[h]
               = out[h] \o held[h] \o pipe[h]
        BY <1>0, <4>1, ConcatMove
      <4> QED
        BY <4>1, <4>2, Zenon DEF Stream
    <3> QED
      BY <1>4, <3>1, <3>2
  <2>3. Lifetime(h)'
    <3>1. (sup[h] # "forward" => held[h] = << >>)'
      BY <1>4 DEF Read, Forward
    <3>2. pipe_eof[h] => pipe'[h] = << >>
      BY <1>4, <1>9 DEF Read, Forward, Lifetime
    <3> QED
      BY <1>9, <2>1, <3>1, <3>2 DEF Lifetime
  <2>4. Progress(h)'
    BY <1>9, <2>1, <2>2 DEF Progress
  <2>5. status'[h] # "success"
    BY <1>9, <2>1 DEF Lifetime
  <2> QED
    BY <1>9, <2>2, <2>3, <2>4, <2>5 DEF FrameInv, InOrder
<1> QED
  BY <1>1, <1>2, <1>3, <1>4 DEF SupervisorStep

\* A new process starts with nothing.
LEMMA InvokeFrames ==
    ASSUME TypeInv, NEW h \in Helpers, FrameInv(h), Invoke(h)
    PROVE  FrameInv(h)'
<1>1. /\ Lifetime(h) /\ sup[h] \notin Watching /\ worker[h] \notin Alive
  BY DEF FrameInv, Invoke, Watching
<1>2. /\ worker_done'[h] = worker_done[h] /\ pipe_eof'[h] = pipe_eof[h]
      /\ frames'[h] = frames[h] /\ part'[h] = part[h]
      /\ pipe'[h] = pipe[h] /\ held'[h] = held[h] /\ out'[h] = << >>
  BY DEF Invoke, TypeInv, Types, Set
<1>3. worker[h] \notin Capturing
  BY <1>1 DEF Capturing, Alive
<1>4. /\ frames'[h] = 0 /\ part'[h] = 1 /\ ~worker_done'[h] /\ ~pipe_eof'[h]
      /\ held'[h] = << >> /\ pipe'[h] = << >>
  BY <1>1, <1>2, <1>3 DEF Lifetime
<1>5. /\ \/ sup'[h] = "idle" /\ worker'[h] = "none"
         \/ sup'[h] = "check" /\ worker'[h] = "forked" /\ status'[h] = "none"
      /\ status'[h] # "success"
  BY DEF Invoke, TypeInv, Types, Set
<1>6. Lifetime(h)'
  BY <1>2, <1>4, <1>5 DEF Lifetime, Watching, Capturing
<1>7. Stream(h)' = << >>
  BY <1>2, <1>4 DEF Stream
<1>8. Progress(h)'
  BY <1>5, <1>7 DEF Progress, Watching, Capturing
<1> QED
  BY <1>5, <1>6, <1>7, <1>8 DEF FrameInv, InOrder

\* A worker that exits with success has written every frame (worker_main).
LEMMA ExitFrames ==
    ASSUME TypeInv, NEW h \in Helpers, FrameInv(h), NEW code, Exit(h, code),
           worker[h] \in Alive,
           code = "success" => worker[h] = "stop" /\ frames[h] = Requested
    PROVE  FrameInv(h)'
<1>1. /\ Lifetime(h) /\ Progress(h) /\ InOrder(Stream(h))
      /\ status[h] = "success" => Len(out[h]) = Requested * FrameParts
  BY DEF FrameInv
<1>2. /\ sup'[h] = sup[h] /\ status'[h] = status[h]
      /\ worker_done'[h] = worker_done[h] /\ pipe_eof'[h] = pipe_eof[h]
      /\ pipe'[h] = pipe[h] /\ held'[h] = held[h] /\ out'[h] = out[h]
      /\ frames'[h] = 0 /\ part'[h] = 1
  BY DEF Exit, TypeInv, Types, Set, supVars, dataVars
<1>3. /\ sup[h] \in Watching =>
            worker'[h] = "zombie" /\ worker_status'[h] = code
      /\ sup[h] \notin Watching => worker'[h] = "none"
  BY DEF Exit, TypeInv, Types, Set
<1>4. ~worker_done[h] /\ ~pipe_eof[h]
  BY <1>1 DEF Lifetime, Alive
<1>5. Lifetime(h)'
  BY <1>1, <1>2, <1>3, <1>4 DEF Lifetime
<1>6. Stream(h)' = Stream(h)
  BY <1>2 DEF Stream
<1>7. Progress(h)'
  <2>1. sup[h] \in Watching /\ code = "success" =>
           Len(Stream(h)) = Requested * FrameParts
    <3> SUFFICES ASSUME sup[h] \in Watching, code = "success"
                 PROVE  Len(Stream(h)) = Requested * FrameParts
      OBVIOUS
    <3>1. Len(Stream(h)) = Requested * FrameParts + (1 - 1)
      BY <1>1 DEF Progress, Capturing
    <3>2. Requested * FrameParts \in Nat
      BY HelperAssumption
    <3> QED
      BY <3>1, <3>2
  <2> QED
    BY <1>2, <1>3, <1>6, <2>1 DEF Progress, Capturing
<1> QED
  BY <1>1, <1>2, <1>5, <1>6, <1>7 DEF FrameInv, InOrder

\* A piece written to the pipe (write_frame).
LEMMA WriteFrames ==
    ASSUME TypeInv, NEW h \in Helpers, FrameInv(h), WriteFrame(h)
    PROVE  FrameInv(h)'
<1> DEFINE s == Stream(h)
           p == <<last[h], part[h]>>
<1>1. /\ Lifetime(h) /\ Progress(h) /\ InOrder(s) /\ Writing(h)
      /\ worker[h] = "write" /\ sup[h] \in Watching
  BY DEF FrameInv, WriteFrame, ReadEnd, TypeInv
<1>2. /\ sup'[h] = sup[h] /\ status'[h] = status[h] /\ last'[h] = last[h]
      /\ worker_done'[h] = worker_done[h] /\ pipe_eof'[h] = pipe_eof[h]
      /\ held'[h] = held[h] /\ out'[h] = out[h]
      /\ pipe'[h] = Append(pipe[h], p)
      /\ IF part[h] < FrameParts
         THEN /\ part'[h] = part[h] + 1 /\ frames'[h] = frames[h]
              /\ worker'[h] = "write"
         ELSE /\ part'[h] = 1 /\ frames'[h] = frames[h] + 1
              /\ worker'[h] = "capture"
  BY DEF WriteFrame, TypeInv, Types, Set, supVars, captureVars
<1>3. /\ last[h] \in SeqNums /\ frames[h] \in Nat /\ FrameParts \in Nat \ {0}
      /\ part[h] \in 1..FrameParts
  BY <1>1, HelperAssumption DEF Writing, TypeInv, Types
<1>4. p \in Pieces /\ p[1] = last[h] /\ p[2] = part[h]
  BY <1>3 DEF Pieces
<1>5. /\ s \in Seq(Pieces) /\ out[h] \in Seq(Pieces)
      /\ held[h] \in Seq(Pieces) /\ pipe[h] \in Seq(Pieces)
  BY StreamType
<1> HIDE DEF p
<1>6. Stream(h)' = Append(s, p)
  <2>1. out[h] \o held[h] \o Append(pipe[h], p)
           = Append(out[h] \o held[h] \o pipe[h], p)
    BY <1>4, <1>5, ConcatAppend
  <2> QED
    BY <1>2, <2>1 DEF Stream
<1>7. /\ Len(s) = frames[h] * FrameParts + (part[h] - 1)
      /\ s # << >> => IF part[h] > 1 THEN last[h] = s[Len(s)][1]
                                     ELSE Advances(s[Len(s)][1], last[h])
  BY <1>1 DEF Progress, Capturing
<1> HIDE DEF s
<1> DEFINE m == frames[h] * FrameParts
<1>8. /\ Len(s) % FrameParts = part[h] - 1
      /\ m \in Nat /\ (frames[h] + 1) * FrameParts = m + FrameParts
  <2>1. part[h] - 1 \in 0..(FrameParts - 1)
    BY <1>3
  <2>2. /\ (m + (part[h] - 1)) % FrameParts = part[h] - 1
        /\ m \in Nat /\ (frames[h] + 1) * FrameParts = m + FrameParts
    BY <1>3, <2>1, RemainderOfPiece, Zenon
  <2> QED
    BY <1>7, <2>2, Zenon
<1>9. InOrder(Append(s, p))
  <2>1. p[2] = (Len(s) % FrameParts) + 1
    BY <1>3, <1>4, <1>8
  <2> QED
    BY <1>1, <1>4, <1>5, <1>7, <2>1, AppendInOrder DEF s
<1>10. /\ Len(Append(s, p)) = Len(s) + 1
       /\ Append(s, p)[Len(s) + 1] = p
       /\ Append(s, p) # << >>
  BY <1>4, <1>5, AppendProperties
<1>11. Lifetime(h)'
  BY <1>1, <1>2 DEF Lifetime, Capturing
<1>12. Len(s) + 1 = frames'[h] * FrameParts + (part'[h] - 1)
  <2>1. Len(s) = m + (part[h] - 1)
    BY <1>7, Zenon
  <2>2. CASE part[h] < FrameParts
    <3>1. frames'[h] * FrameParts = m /\ part'[h] = part[h] + 1
      BY <1>2, <2>2, Zenon
    <3> HIDE DEF m, s
    <3>2. m + (part[h] - 1) + 1 = m + (part'[h] - 1)
      BY <1>3, <1>8, <3>1
    <3> QED
      BY <2>1, <3>1, <3>2, Zenon
  <2>3. CASE ~(part[h] < FrameParts)
    <3>1. frames'[h] * FrameParts = m + FrameParts /\ part'[h] = 1
      BY <1>2, <1>8, <2>3, Zenon
    <3> HIDE DEF m, s
    <3>2. m + (part[h] - 1) + 1 = m + FrameParts + (1 - 1)
      BY <1>3, <1>8, <2>3
    <3> QED
      BY <2>1, <3>1, <3>2, Zenon
  <2> QED
    BY <2>2, <2>3
<1>13. Progress(h)'
  BY <1>2, <1>3, <1>4, <1>6, <1>10, <1>12 DEF Progress, Capturing
<1>14. status[h] # "success"
  BY <1>1 DEF Lifetime
<1> QED
  BY <1>2, <1>6, <1>9, <1>11, <1>13, <1>14 DEF FrameInv, InOrder

\* A frame the worker goes on with advances (ir_capture_next).
LEMMA CaptureFrames ==
    ASSUME TypeInv, NEW h \in Helpers, FrameInv(h), Capture(h)
    PROVE  FrameInv(h)'
<1>1. /\ worker[h] = "capture"
      /\ sup' = sup /\ status' = status /\ worker_done' = worker_done
      /\ pipe_eof' = pipe_eof /\ worker_status' = worker_status
      /\ frames' = frames /\ part' = part
      /\ pipe' = pipe /\ held' = held /\ out' = out
  BY DEF Capture, supVars, dataVars
<1>2. /\ Lifetime(h) /\ Progress(h) /\ InOrder(Stream(h))
      /\ status[h] = "success" => Len(out[h]) = Requested * FrameParts
  BY DEF FrameInv
<1>3. Stream(h)' = Stream(h)
  BY <1>1 DEF Stream
<1>4. \/ worker'[h] = "capture" /\ last'[h] = last[h]
      \/ worker'[h] = "stop"
      \/ worker'[h] = "write" /\ Advances(last[h], last'[h])
  <2>1. CASE UNCHANGED <<worker, last>>
    BY <1>1, <2>1
  <2>2. CASE worker' = Set(worker, h, "stop")
    BY <2>2 DEF Set, TypeInv, Types
  <2>3. ASSUME NEW b \in Buffers, NextFrame(h, b),
               worker' = Set(worker, h, "write")
        PROVE  worker'[h] = "write" /\ Advances(last[h], last'[h])
    <3>1. Advances(last[h], b.seq) /\ last'[h] = b.seq
      BY <2>3 DEF NextFrame, Valid, TypeInv, Types
    <3> QED
      BY <2>3, <3>1 DEF Set, TypeInv, Types
  <2> QED
    BY <2>1, <2>2, <2>3
       DEF Capture, NextTimeout, NextDiscarded, captureVars
<1>5. Lifetime(h)'
  BY <1>1, <1>2, <1>4 DEF Lifetime, Capturing
<1>6. Progress(h)'
  <2> SUFFICES ASSUME sup[h] \in Watching PROVE Progress(h)'
    BY <1>1 DEF Progress
  <2>1. /\ part[h] = 1
        /\ Len(Stream(h)) = frames[h] * FrameParts + (part[h] - 1)
        /\ Stream(h) # << >> => last[h] = Stream(h)[Len(Stream(h))][1]
    BY <1>1, <1>2 DEF Progress, Capturing
  <2> QED
    BY <1>1, <1>3, <1>4, <2>1 DEF Progress, Capturing
<1> QED
  BY <1>1, <1>2, <1>3, <1>5, <1>6 DEF FrameInv, InOrder

\* The worker's steps.
LEMMA WorkerFrames ==
    ASSUME TypeInv, NEW h \in Helpers, FrameInv(h), WorkerStep(h)
    PROVE  FrameInv(h)'
<1>0. /\ Lifetime(h) /\ Progress(h) /\ InOrder(Stream(h))
      /\ status[h] = "success" => Len(out[h]) = Requested * FrameParts
  BY DEF FrameInv
<1>1. CASE WriteFrame(h)
  BY <1>1, WriteFrames
<1>2. CASE WorkerStartFails(h)
  BY <1>2, ExitFrames DEF WorkerStartFails, Alive
<1>3. CASE WorkerStops(h)
  <2>1. PICK code \in {"success", "failure"} :
           (code = "success" => frames[h] = Requested) /\ Exit(h, code)
    BY <1>3 DEF WorkerStops
  <2> QED
    BY <1>3, <2>1, ExitFrames DEF WorkerStops, Alive
<1>4. CASE WorkerForked(h) \/ WorkerStarts(h) \/ LeaveLoop(h) \/ WriteFails(h)
  <2>1. /\ sup'[h] = sup[h] /\ status'[h] = status[h]
        /\ worker_done'[h] = worker_done[h] /\ pipe_eof'[h] = pipe_eof[h]
        /\ worker_status'[h] = worker_status[h]
        /\ frames'[h] = frames[h] /\ part'[h] = part[h]
        /\ pipe'[h] = pipe[h] /\ held'[h] = held[h] /\ out'[h] = out[h]
    BY <1>4 DEF WorkerForked, WorkerStarts, LeaveLoop, WriteFails, supVars,
                dataVars
  <2>2. \/ worker[h] = "forked" /\ worker'[h] = "starting"
        \/ worker[h] = "starting" /\ worker'[h] = "capture"
        \/ worker[h] = "capture" /\ worker'[h] = "stop"
        \/ worker[h] = "write" /\ worker'[h] = "stop" /\ sup[h] \notin Watching
    BY <1>4 DEF WorkerForked, WorkerStarts, LeaveLoop, WriteFails, ReadEnd,
                TypeInv, Types, Set
  <2>3. Stream(h)' = Stream(h)
    BY <2>1 DEF Stream
  <2>4. Lifetime(h)'
    BY <1>0, <2>1, <2>2 DEF Lifetime, Capturing
  <2>5. Progress(h)'
    <3>1. worker[h] = "starting" /\ sup[h] \in Watching =>
             Stream(h) = << >> /\ Len(Stream(h)) = 0 * FrameParts + (1 - 1)
                /\ frames[h] = 0 /\ part[h] = 1
      BY <1>0, HelperAssumption DEF Progress, Lifetime, Capturing
    <3> QED
      BY <1>0, <2>1, <2>2, <2>3, <3>1 DEF Progress, Capturing
  <2> QED
    BY <1>0, <2>1, <2>3, <2>4, <2>5 DEF FrameInv, InOrder
<1> QED
  BY <1>1, <1>2, <1>3, <1>4 DEF WorkerStep

\* The invariant of the frames is inductive, given the types.
LEMMA FramesStep ==
    TypeInv /\ (\A h \in Helpers : FrameInv(h)) /\ [Next]_vars
       => \A h \in Helpers : FrameInv(h)'
<1> SUFFICES ASSUME TypeInv, \A h \in Helpers : FrameInv(h), [Next]_vars,
                    NEW g \in Helpers
             PROVE  FrameInv(g)'
  OBVIOUS
<1>1. CASE UNCHANGED vars
  <2>1. Same(g)
    BY <1>1 DEF vars, supVars, workerVars, dataVars, captureVars, Same
  <2> QED
    BY <2>1, SameKeeps
<1>2. ASSUME NEW h \in Helpers, StepOf(h), h # g
      PROVE  FrameInv(g)'
  BY <1>2, OthersSame, SameKeeps
<1>3. CASE StepOf(g)
  <2>1. CASE DeadlinePasses(g) \/ CallerCloses(g) \/ Wait(g)
    <3>1. Same(g)
      BY <2>1 DEF DeadlinePasses, CallerCloses, Wait, DiscardWaitOver, Same,
                  supVars, workerVars, dataVars, captureVars
    <3> QED
      BY <3>1, SameKeeps
  <2>2. CASE CallerKills(g)
    BY <2>2, ReturnFrames DEF CallerKills
  <2> QED
    BY <1>3, <2>1, <2>2, InvokeFrames, WorkerFrames, CaptureFrames,
       SupervisorFrames DEF StepOf
<1> QED
  BY <1>1, <1>2, <1>3 DEF Next, StepOf

\* It holds at the start.
LEMMA FramesInitially == Init => \A h \in Helpers : FrameInv(h)
<1> SUFFICES ASSUME Init, NEW h \in Helpers PROVE FrameInv(h)
  OBVIOUS
<1>1. /\ sup[h] = "idle" /\ worker[h] = "none" /\ status[h] = "none"
      /\ worker_done[h] = FALSE /\ pipe_eof[h] = FALSE
      /\ frames[h] = 0 /\ part[h] = 1
      /\ pipe[h] = << >> /\ held[h] = << >> /\ out[h] = << >>
  BY DEF Init
<1>2. Lifetime(h) /\ Progress(h)
  BY <1>1 DEF Lifetime, Progress, Watching, Capturing
<1>3. Stream(h) = << >>
  BY <1>1 DEF Stream
<1> QED
  BY <1>1, <1>2, <1>3 DEF FrameInv, InOrder

\* What the caller of the helper gets is a beginning of whole frames with
\* advancing sequence numbers, and all Requested frames when the helper
\* reports success, for any frame and pipe size and however worker,
\* supervisor and caller interleave (supervise_worker, forward_bytes,
\* write_frame).
THEOREM FramesDelivered == Spec => []SuccessMeansFrames
<1> DEFINE Inv == TypeInv /\ \A h \in Helpers : FrameInv(h)
<1>1. Init => Inv
  BY TypeInitially, FramesInitially
<1>2. Inv /\ [Next]_vars => Inv'
  BY TypeStep, FramesStep
<1>3. Inv => SuccessMeansFrames
  <2> SUFFICES ASSUME Inv, NEW h \in Helpers
               PROVE  /\ InOrder(out[h])
                      /\ status[h] = "success" =>
                            Len(out[h]) = Requested * FrameParts
    BY DEF SuccessMeansFrames, InOrder
  <2> QED
    BY StreamType DEF FrameInv
<1> QED
  BY <1>1, <1>2, <1>3, PTL DEF Spec
=============================================================================
