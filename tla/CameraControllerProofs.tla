----------------------- MODULE CameraControllerProofs -----------------------
(***************************************************************************)
(* Proofs about the bridge controller, for every debounce, grace and retry *)
(* period.  Each C function gets one lemma, read as a Hoare triple: from a *)
(* sane controller that meets the precondition, every controller the       *)
(* function may leave behind is sane and meets the postcondition.          *)
(***************************************************************************)
EXTENDS CameraController, TLAPS

-----------------------------------------------------------------------------
(***************************************************************************)
(* The inductive invariant.  Sane holds even in the middle of a tick; the  *)
(* agreement of state, active and capture (Coherent) only between ticks.   *)
(***************************************************************************)
Accounted(c) ==
    \A k \in Cameras :
        /\ c.captureWorkers[k] = IF c.capture = k THEN 1 ELSE 0
        /\ c.fillerWorkers[k] = IF c.filler[k] THEN 1 ELSE 0

EndpointFree(c) == \A k \in Cameras : ~(c.filler[k] /\ c.capture = k)

Sane(c) ==
    /\ c \in Controller
    /\ Accounted(c)
    /\ EndpointFree(c)
    /\ c.wpRunning = ~c.wpStopped

Coherent(c) ==
    /\ c.state \in {IDLE, STREAMING, RETRY_WAIT}
    /\ c.capture = c.active
    /\ c.state = STREAMING => c.active # NoCamera
    /\ c.state = IDLE => c.active = NoCamera

IInv ==
    /\ Sane(ctl)
    /\ phase = "loop" => Coherent(ctl)
    /\ consumers \in SUBSET Cameras
    /\ healthy \in BOOLEAN
    /\ phase \in {"loop", "exited"}

\* What the filler and WirePlumber helpers leave alone.
SameRole(c, d) ==
    /\ d.capture = c.capture
    /\ d.active = c.active
    /\ d.state = c.state
    /\ d.candidate = c.candidate
    /\ d.candidateAge = c.candidateAge
    /\ d.captureWait = c.captureWait
    /\ d.idleAge = c.idleAge
    /\ d.opened = c.opened
-----------------------------------------------------------------------------
(***************************************************************************)
(* Retry bookkeeping.                                                      *)
(***************************************************************************)

\* The backoff stays within its cap and the exponent within its range.
LEMMA DelayType ==
    ASSUME NEW e \in 0..(MaxShift + 1)
    PROVE  /\ retry_delay_ms(e) \in 0..RetryMax
           /\ next_exponent(e) \in 0..(MaxShift + 1)
BY TimingAssumption DEF retry_delay_ms, next_exponent

\* Rescheduling a filler touches nothing but its own timer.
LEMMA ScheduleFiller ==
    ASSUME NEW c, Sane(c), NEW k \in Cameras
    PROVE  LET d == schedule_filler_retry(c, k)
           IN  Sane(d) /\ SameRole(c, d) /\ d.filler = c.filler /\ d.wpStopped = c.wpStopped
BY DelayType DEF schedule_filler_retry, Sane, Accounted, EndpointFree, Controller, SameRole

\* Neither does forgetting a filler's backoff.
LEMMA ClearFiller ==
    ASSUME NEW c, Sane(c), NEW k \in Cameras
    PROVE  LET d == clear_filler_retry(c, k)
           IN  Sane(d) /\ SameRole(c, d) /\ d.filler = c.filler /\ d.wpStopped = c.wpStopped
<1>1. 0 \in 0..RetryMax /\ 0 \in 0..(MaxShift + 1)
  BY TimingAssumption
<1> QED BY <1>1 DEF clear_filler_retry, Sane, Accounted, EndpointFree, Controller, SameRole

\* Rescheduling a capture keeps every handle and role.
LEMMA ScheduleCapture ==
    ASSUME NEW c, Sane(c), NEW k \in Cameras
    PROVE  LET d == schedule_capture_retry(c, k)
           IN  /\ Sane(d) /\ d.capture = c.capture /\ d.active = c.active
               /\ d.opened = c.opened
               /\ d.state = c.state /\ d.filler = c.filler /\ d.wpStopped = c.wpStopped
BY DelayType DEF schedule_capture_retry, Sane, Accounted, EndpointFree, Controller

\* Forgetting a capture's backoff keeps every handle and role.
LEMMA ClearCapture ==
    ASSUME NEW c, Sane(c), NEW k \in Cameras
    PROVE  LET d == clear_capture_retry(c, k)
           IN  /\ Sane(d) /\ d.capture = c.capture /\ d.active = c.active
               /\ d.opened = c.opened
               /\ d.state = c.state /\ d.filler = c.filler /\ d.wpStopped = c.wpStopped
<1>1. 0 \in 0..RetryMax /\ 0 \in 0..(MaxShift + 1)
  BY TimingAssumption
<1> QED BY <1>1 DEF clear_capture_retry, Sane, Accounted, EndpointFree, Controller

\* The failure exits only change the state.
LEMMA RetryWaitSane ==
    ASSUME NEW c, Sane(c)
    PROVE  /\ Sane(RetryWait(c)) /\ RetryWait(c).state = RETRY_WAIT
           /\ RetryWait(c).capture = c.capture /\ RetryWait(c).active = c.active
           /\ RetryWait(c).opened = c.opened
BY DEF RetryWait, Sane, Accounted, EndpointFree, Controller, ControllerState
-----------------------------------------------------------------------------
(***************************************************************************)
(* Handles.                                                                *)
(***************************************************************************)

\* stop_handle on a filler, whether it succeeds or fails, keeps the accounts.
LEMMA StopFiller ==
    ASSUME NEW c, Sane(c), NEW k \in Cameras, NEW ok \in BOOLEAN,
           NEW d \in stop_filler(c, ok, k)
    PROVE  Sane(d) /\ SameRole(c, d) /\ d.wpStopped = c.wpStopped
<1>1. CASE d = c
  BY <1>1 DEF SameRole
<1>2. CASE c.filler[k] /\ d = [c EXCEPT !.filler[k] = FALSE, !.fillerWorkers[k] = @ - 1]
  <2>1. c.fillerWorkers[k] = 1 /\ c.fillerWorkers[k] - 1 \in Nat
    BY <1>2 DEF Sane, Accounted
  <2>2. d \in Controller
    BY <1>2, <2>1 DEF Sane, Controller
  <2>3. Accounted(d)
    BY <1>2, <2>1 DEF Sane, Accounted, Controller
  <2>4. EndpointFree(d)
    BY <1>2 DEF Sane, EndpointFree, Controller
  <2>5. d.wpRunning = ~d.wpStopped /\ SameRole(c, d) /\ d.wpStopped = c.wpStopped
    BY <1>2 DEF Sane, Controller, SameRole
  <2> QED BY <2>2, <2>3, <2>4, <2>5 DEF Sane
<1> QED BY <1>1, <1>2 DEF stop_filler, Failing

\* A filler is only started where no capture is held, so the endpoint stays
\* with one producer.
LEMMA StartFiller ==
    ASSUME NEW c, Sane(c), NEW k \in Cameras, NEW ok \in BOOLEAN, c.capture # k,
           NEW d \in start_filler(c, ok, k)
    PROVE  Sane(d) /\ SameRole(c, d) /\ d.wpStopped = c.wpStopped
<1> DEFINE e == [c EXCEPT !.filler[k] = TRUE, !.fillerWorkers[k] = @ + 1]
<1>1. CASE d = c
  BY <1>1 DEF SameRole
<1>2. CASE d = schedule_filler_retry(c, k)
  BY <1>2, ScheduleFiller
<1>3. CASE ~c.filler[k] /\ d = clear_filler_retry(e, k)
  <2>1. c.fillerWorkers[k] = 0 /\ c.fillerWorkers[k] + 1 \in Nat
    BY <1>3 DEF Sane, Accounted
  <2>2. e \in Controller
    BY <1>3, <2>1 DEF Sane, Controller
  <2>3. Accounted(e)
    BY <1>3, <2>1 DEF Sane, Accounted, Controller
  <2>4. EndpointFree(e)
    BY <1>3 DEF Sane, EndpointFree, Controller
  <2>5. e.wpRunning = ~e.wpStopped /\ SameRole(c, e) /\ e.wpStopped = c.wpStopped
    BY DEF Sane, Controller, SameRole
  <2>6. Sane(e)
    BY <2>2, <2>3, <2>4, <2>5 DEF Sane
  <2> HIDE DEF e
  <2> QED BY <1>3, <2>5, <2>6, ClearFiller DEF SameRole
<1> QED BY <1>1, <1>2, <1>3 DEF start_filler, Failing

\* A dead filler is stopped if that succeeds, and rescheduled either way.
LEMMA PollFiller ==
    ASSUME NEW c, Sane(c), NEW k \in Cameras, NEW ok \in BOOLEAN,
           NEW d \in poll_filler(c, ok, k)
    PROVE  Sane(d) /\ SameRole(c, d)
<1>1. CASE d = c
  BY <1>1 DEF SameRole
<1>2. CASE \E e \in stop_filler(c, ok, k) : d = schedule_filler_retry(e, k)
  BY <1>2, StopFiller, ScheduleFiller DEF SameRole
<1> QED BY <1>1, <1>2 DEF poll_filler

\* Restoring WirePlumber clears the flag together with starting the service.
LEMMA Restore ==
    ASSUME NEW c, Sane(c), NEW ok \in BOOLEAN, NEW d \in restore_wireplumber(c, ok)
    PROVE  Sane(d) /\ SameRole(c, d) /\ d.filler = c.filler
<1>1. CASE d = c
  BY <1>1 DEF SameRole
<1>2. CASE d = [c EXCEPT !.wpStopped = FALSE, !.wpRunning = TRUE]
  <2>1. d \in Controller /\ SameRole(c, d) /\ d.filler = c.filler
    BY <1>2 DEF Sane, Controller, SameRole
  <2>2. Accounted(d) /\ EndpointFree(d)
    BY <1>2 DEF Sane, Accounted, EndpointFree, Controller
  <2>3. d.wpRunning = ~d.wpStopped
    BY <1>2 DEF Sane, Controller
  <2> QED BY <2>1, <2>2, <2>3 DEF Sane
<1> QED BY <1>1, <1>2 DEF restore_wireplumber, Failing

\* Stopping the capture handle ends its worker or keeps both.
LEMMA StopCaptureHandle ==
    ASSUME NEW c, Sane(c), NEW ok \in BOOLEAN, NEW d \in stop_capture_handle(c, ok)
    PROVE  /\ Sane(d) /\ d.capture \in {c.capture, NoCamera}
           /\ d.active = c.active /\ d.state = c.state /\ d.opened = c.opened
<1>1. CASE d = c
  BY <1>1
<1>2. CASE /\ c.capture # NoCamera
           /\ d = [c EXCEPT !.capture = NoCamera, !.captureWorkers[c.capture] = @ - 1]
  <2>1. c.capture \in Cameras
    BY <1>2 DEF Sane, Controller, CameraKey
  <2>2. c.captureWorkers[c.capture] = 1 /\ c.captureWorkers[c.capture] - 1 \in Nat
    BY <2>1 DEF Sane, Accounted
  <2>3. d \in Controller
    BY <1>2, <2>1, <2>2 DEF Sane, Controller, CameraKey
  <2>4. Accounted(d)
    BY <1>2, <2>1, <2>2 DEF Sane, Accounted, Controller, NoCamera, Cameras
  <2>5. EndpointFree(d)
    BY <1>2 DEF Sane, EndpointFree, Controller, NoCamera, Cameras
  <2>6. /\ d.wpRunning = ~d.wpStopped /\ d.capture = NoCamera
        /\ d.active = c.active /\ d.state = c.state /\ d.opened = c.opened
    BY <1>2 DEF Sane, Controller
  <2> QED BY <2>3, <2>4, <2>5, <2>6 DEF Sane
<1> QED BY <1>1, <1>2 DEF stop_capture_handle, Failing

\* stop_capture adds a backoff when the stop failed.
LEMMA StopCapture ==
    ASSUME NEW c, Sane(c), NEW k \in Cameras, NEW ok \in BOOLEAN,
           NEW d \in stop_capture(c, ok, k)
    PROVE  /\ Sane(d) /\ d.capture \in {c.capture, NoCamera}
           /\ d.active = c.active /\ d.state = c.state /\ d.opened = c.opened
BY StopCaptureHandle, ScheduleCapture DEF stop_capture
-----------------------------------------------------------------------------
(***************************************************************************)
(* Starting a capture.  All of these run with no capture held and none     *)
(* started before in the same tick.                                        *)
(***************************************************************************)
Unowned(c) ==
    Sane(c) /\ c.capture = NoCamera /\ c.active = NoCamera /\ c.opened = NoCamera

Outcome(d, k) ==
    Sane(d) /\ Coherent(d) /\ d.active \in {NoCamera, k} /\ d.opened \in {NoCamera, k}

\* CAMERA_NONE is not a camera.
LEMMA NoCameraNotCamera == NoCamera \notin Cameras
BY DEF NoCamera, Cameras

\* A controller in RETRY_WAIT is coherent if active names the handle.
LEMMA RetryWaitCoherent ==
    ASSUME NEW c, Sane(c), c.capture = c.active
    PROVE  /\ Sane(RetryWait(c)) /\ Coherent(RetryWait(c))
           /\ RetryWait(c).active = c.active /\ RetryWait(c).opened = c.opened
BY RetryWaitSane DEF Coherent, RETRY_WAIT, IDLE, STREAMING

\* Every failure exit leaves the controller waiting, with nothing held.
LEMMA CaptureStartFailed ==
    ASSUME NEW c, Unowned(c), NEW k \in Cameras, NEW ok \in BOOLEAN, NEW restore \in BOOLEAN,
           NEW d \in capture_start_failed(c, ok, k, restore)
    PROVE  Outcome(d, k)
<1> DEFINE s == schedule_capture_retry(c, k)
<1>1. Unowned(s)
  BY ScheduleCapture DEF Unowned
<1> HIDE DEF s
<1>2. PICK e \in (IF restore THEN restore_wireplumber(s, ok) ELSE {s}) :
        d \in {RetryWait(f) : f \in start_filler(e, ok, k)}
  BY DEF capture_start_failed, s
<1>3. Unowned(e)
  BY <1>1, <1>2, Restore DEF Unowned, SameRole
<1>4. PICK f \in start_filler(e, ok, k) : d = RetryWait(f)
  BY <1>2
<1>5. Unowned(f)
  BY <1>3, <1>4, StartFiller, NoCameraNotCamera DEF Unowned, SameRole
<1> QED BY <1>4, <1>5, RetryWaitCoherent DEF Outcome, Unowned

\* Stopping WirePlumber records the ownership it takes.
LEMMA WirePlumberStop ==
    ASSUME NEW c, Unowned(c), ~c.wpStopped, NEW d \in wireplumber_stop(c)
    PROVE  Unowned(d) /\ d.filler = c.filler
<1>1. c.wpRunning = TRUE
  BY DEF Unowned, Sane, Controller
<1>2. CASE d = [c EXCEPT !.wpStopped = FALSE]
  BY <1>1, <1>2 DEF Unowned, Sane, Accounted, EndpointFree, Controller
<1>3. CASE d = [c EXCEPT !.wpStopped = TRUE, !.wpRunning = FALSE]
  BY <1>3 DEF Unowned, Sane, Accounted, EndpointFree, Controller
<1> QED BY <1>2, <1>3 DEF wireplumber_stop

\* A started capture is the only producer of its endpoint.
LEMMA CaptureStarted ==
    ASSUME NEW c, Unowned(c), NEW k \in Cameras, ~c.filler[k]
    PROVE  Outcome(capture_started(c, k), k)
<1> DEFINE e == [c EXCEPT !.capture = k, !.captureWorkers[k] = @ + 1, !.opened = k,
                          !.active = k, !.pending = NoCamera, !.state = STREAMING]
<1>1. c.captureWorkers[k] = 0 /\ c.captureWorkers[k] + 1 \in Nat
  BY NoCameraNotCamera DEF Unowned, Sane, Accounted
<1>2. e \in Controller
  BY <1>1 DEF Unowned, Sane, Controller, ControllerState, CameraKey
<1>3. Accounted(e)
  BY <1>1, NoCameraNotCamera DEF Unowned, Sane, Accounted, Controller
<1>4. EndpointFree(e)
  BY DEF Unowned, Sane, EndpointFree, Controller
<1>5. e.wpRunning = ~e.wpStopped
  BY DEF Unowned, Sane, Controller
<1>6. e.capture = k /\ e.active = k /\ e.state = STREAMING /\ e.opened = k
  BY DEF Unowned, Sane, Controller
<1>7. Sane(e)
  BY <1>2, <1>3, <1>4, <1>5 DEF Sane
<1>8. capture_started(c, k) = clear_capture_retry(e, k)
  BY DEF capture_started
<1> HIDE DEF e
<1> QED
  BY <1>6, <1>7, <1>8, ClearCapture, NoCameraNotCamera
     DEF Outcome, Coherent, IDLE, STREAMING

\* The last two calls of start_capture.
LEMMA OpenCapture ==
    ASSUME NEW c, Unowned(c), NEW k \in Cameras, ~c.filler[k], NEW ok \in BOOLEAN,
           NEW d \in open_capture(c, ok, k)
    PROVE  Outcome(d, k)
BY CaptureStarted, CaptureStartFailed DEF open_capture

\* From the WirePlumber hand-over to the end of start_capture.
LEMMA TakeWirePlumber ==
    ASSUME NEW c, Unowned(c), NEW k \in Cameras, ~c.filler[k], NEW ok \in BOOLEAN,
           NEW d \in take_wireplumber(c, ok, k)
    PROVE  Outcome(d, k)
<1>1. CASE d \in capture_start_failed(c, ok, k, FALSE)
  BY <1>1, CaptureStartFailed
<1>2. CASE ~c.wpStopped /\ \E e \in wireplumber_stop(c) : d \in open_capture(e, ok, k)
  BY <1>2, WirePlumberStop, OpenCapture
<1> QED BY <1>1, <1>2 DEF take_wireplumber

\* start_capture captures its camera or leaves nothing held.
LEMMA StartCapture ==
    ASSUME NEW c, Unowned(c), NEW k \in Cameras, NEW ok \in BOOLEAN,
           NEW d \in start_capture(c, ok, k)
    PROVE  Outcome(d, k)
<1> DEFINE b == [c EXCEPT !.state = STARTING]
<1>1. Unowned(b)
  BY DEF Unowned, Sane, Accounted, EndpointFree, Controller, ControllerState
<1> HIDE DEF b
<1>2. PICK e \in stop_filler(b, ok, k) :
        d \in (IF e.filler[k]
               THEN {RetryWait(schedule_capture_retry(e, k))}
               ELSE UNION {take_wireplumber(f, ok, k) : f \in restore_wireplumber(e, ok)})
  BY DEF start_capture, b
<1>3. Unowned(e)
  BY <1>1, <1>2, StopFiller DEF Unowned, SameRole
<1>4. CASE e.filler[k]
  BY <1>2, <1>3, <1>4, ScheduleCapture, RetryWaitCoherent DEF Unowned, Outcome
<1>5. CASE ~e.filler[k]
  <2>1. PICK f \in restore_wireplumber(e, ok) : d \in take_wireplumber(f, ok, k)
    BY <1>2, <1>5
  <2>2. Unowned(f) /\ ~f.filler[k]
    BY <1>3, <1>5, <2>1, Restore DEF Unowned, SameRole
  <2> QED BY <2>1, <2>2, TakeWirePlumber
<1> QED BY <1>4, <1>5
-----------------------------------------------------------------------------
(***************************************************************************)
(* Moving the capture.                                                     *)
(***************************************************************************)

\* With nothing held the target is entered, or nothing is held still.
LEMMA EnterTarget ==
    ASSUME NEW c, Unowned(c), NEW t \in CameraKey, NEW ok \in BOOLEAN,
           NEW d \in enter_target(c, ok, t)
    PROVE  Outcome(d, t)
<1>1. CASE t = NoCamera
  <2>1. d = [c EXCEPT !.pending = NoCamera, !.state = IDLE]
    BY <1>1 DEF enter_target
  <2>2. /\ Sane(d) /\ d.active = NoCamera /\ d.capture = NoCamera /\ d.state = IDLE
        /\ d.opened = NoCamera
    BY <2>1 DEF Unowned, Sane, Accounted, EndpointFree, Controller, ControllerState, CameraKey
  <2> QED BY <2>2 DEF Outcome, Coherent, IDLE, STREAMING
<1>2. CASE t # NoCamera
  BY <1>2, StartCapture DEF enter_target, CameraKey
<1> QED BY <1>1, <1>2

\* Once the old capture is gone its endpoint is free for a filler.
LEMMA LeaveOld ==
    ASSUME NEW c, Sane(c), c.capture = NoCamera, c.opened = NoCamera, NEW old \in Cameras, NEW t \in CameraKey,
           NEW ok \in BOOLEAN, NEW d \in leave_old(c, ok, old, t)
    PROVE  Outcome(d, t)
<1> DEFINE a == [c EXCEPT !.active = NoCamera]
           freed == clear_capture_retry(a, old)
           retry == IF t = NoCamera THEN old ELSE t
<1>1. Unowned(a)
  BY DEF Unowned, Sane, Accounted, EndpointFree, Controller, CameraKey
<1> HIDE DEF a
<1>2. Unowned(freed)
  BY <1>1, ClearCapture DEF Unowned
<1> HIDE DEF freed
<1>3. retry \in Cameras
  BY DEF CameraKey
<1> HIDE DEF retry
<1>4. PICK e \in UNION {restore_wireplumber(f, ok) : f \in start_filler(freed, ok, old)} :
        d \in (IF e.wpStopped THEN {RetryWait(schedule_capture_retry(e, retry))}
               ELSE enter_target(e, ok, t))
  BY DEF leave_old, freed, a, retry
<1>5. PICK f \in start_filler(freed, ok, old) : e \in restore_wireplumber(f, ok)
  BY <1>4
<1>6. Unowned(f)
  BY <1>2, <1>5, StartFiller, NoCameraNotCamera DEF Unowned, SameRole
<1>7. Unowned(e)
  BY <1>5, <1>6, Restore DEF Unowned, SameRole
<1>8. CASE d = RetryWait(schedule_capture_retry(e, retry))
  BY <1>3, <1>7, <1>8, ScheduleCapture, RetryWaitCoherent DEF Unowned, Outcome
<1>9. CASE d \in enter_target(e, ok, t)
  BY <1>7, <1>9, EnterTarget
<1> QED BY <1>4, <1>8, <1>9

\* transition ends with the old capture, the target or nothing.
LEMMA Transition ==
    ASSUME NEW c, Sane(c), c.capture = c.active, c.opened = NoCamera, NEW t \in CameraKey,
           NEW ok \in BOOLEAN, NEW d \in transition(c, ok, t)
    PROVE  /\ Sane(d) /\ Coherent(d) /\ d.active \in {c.active, NoCamera, t}
           /\ d.opened \in {NoCamera, t}
<1> DEFINE b == [c EXCEPT !.state = STOPPING, !.pending = t]
           retry == IF t = NoCamera THEN c.active ELSE t
<1>1. Sane(b) /\ b.capture = c.capture /\ b.active = c.active /\ b.opened = NoCamera
  BY DEF Sane, Accounted, EndpointFree, Controller, ControllerState
<1>2. c.active \in CameraKey
  BY DEF Sane, Controller
<1> HIDE DEF b
<1>3. CASE c.active = NoCamera
  <2>1. d \in enter_target(b, ok, t) /\ Unowned(b)
    BY <1>1, <1>3 DEF transition, b, Unowned
  <2> QED BY <2>1, EnterTarget DEF Outcome
<1>4. CASE c.active # NoCamera
  <2>1. c.active \in Cameras /\ retry \in Cameras
    BY <1>2, <1>4 DEF CameraKey
  <2> HIDE DEF retry
  <2>2. PICK e \in stop_capture(b, ok, retry) :
          d \in (IF e.capture # NoCamera THEN {RetryWait(e)} ELSE leave_old(e, ok, c.active, t))
    BY <1>4 DEF transition, b, retry
  <2>3. /\ Sane(e) /\ e.capture \in {c.active, NoCamera} /\ e.active = c.active
        /\ e.opened = NoCamera
    BY <1>1, <2>1, <2>2, StopCapture
  <2>4. CASE e.capture # NoCamera
    BY <2>2, <2>3, <2>4, RetryWaitCoherent
  <2>5. CASE e.capture = NoCamera
    BY <2>1, <2>2, <2>3, <2>5, LeaveOld DEF Outcome
  <2> QED BY <2>4, <2>5
<1> QED BY <1>3, <1>4

\* After a failed capture the controller keeps the handle it could not stop,
\* or holds nothing.
LEMMA CaptureFailed ==
    ASSUME NEW c, Sane(c), c.capture = c.active, c.active # NoCamera, c.opened = NoCamera,
           NEW ok \in BOOLEAN, NEW d \in capture_failed(c, ok)
    PROVE  /\ Sane(d) /\ Coherent(d) /\ d.active \in {c.active, NoCamera}
           /\ d.opened = NoCamera
<1>1. c.active \in Cameras
  BY DEF Sane, Controller, CameraKey
<1>2. PICK e \in stop_capture(c, ok, c.active) :
        d \in (IF e.capture # NoCamera THEN {RetryWait(e)}
               ELSE {RetryWait(schedule_capture_retry(g, c.active)) :
                       g \in UNION {restore_wireplumber(f, ok) :
                         f \in start_filler([e EXCEPT !.active = NoCamera], ok, c.active)}})
  BY DEF capture_failed
<1>3. /\ Sane(e) /\ e.capture \in {c.active, NoCamera} /\ e.active = c.active
      /\ e.opened = NoCamera
  BY <1>1, <1>2, StopCapture
<1>4. CASE e.capture # NoCamera
  BY <1>2, <1>3, <1>4, RetryWaitCoherent
<1>5. CASE e.capture = NoCamera
  <2> DEFINE a == [e EXCEPT !.active = NoCamera]
  <2>1. Unowned(a)
    BY <1>3, <1>5 DEF Unowned, Sane, Accounted, EndpointFree, Controller, CameraKey
  <2> HIDE DEF a
  <2>2. PICK g \in UNION {restore_wireplumber(f, ok) : f \in start_filler(a, ok, c.active)} :
          d = RetryWait(schedule_capture_retry(g, c.active))
    BY <1>2, <1>5 DEF a
  <2>3. PICK f \in start_filler(a, ok, c.active) : g \in restore_wireplumber(f, ok)
    BY <2>2
  <2>4. Unowned(f)
    BY <1>1, <2>1, <2>3, StartFiller, NoCameraNotCamera DEF Unowned, SameRole
  <2>5. Unowned(g)
    BY <2>3, <2>4, Restore DEF Unowned, SameRole
  <2> QED BY <1>1, <2>2, <2>5, ScheduleCapture, RetryWaitCoherent DEF Unowned
<1> QED BY <1>4, <1>5
-----------------------------------------------------------------------------
(***************************************************************************)
(* A tick.                                                                 *)
(***************************************************************************)

\* When a tick may give the capture to camera k: an application has it open,
\* none has the active one open, and debounce and backoff are over.
MayOpen(c, k, m) ==
    /\ k \in m /\ c.active \notin m
    /\ c.captureWait[k] = 0
    /\ c.candidate = k /\ c.candidateAge >= OpenDebounce

\* When it may start a worker for k: as before, or in place of the worker of k
\* that it could not stop.
MayStart(c, k, m) ==
    /\ k \in m
    /\ c.captureWait[k] = 0
    /\ \/ c.candidate = k /\ c.candidateAge >= OpenDebounce
       \/ c.active = k /\ c.state = RETRY_WAIT

TickPost(c, d, m) ==
    /\ Sane(d) /\ Coherent(d)
    /\ d.active \in {c.active, NoCamera} \/ MayOpen(c, d.active, m)
    /\ d.opened = NoCamera \/ MayStart(c, d.opened, m)

\* The filler loop never feeds the endpoint of the held capture.
LEMMA ServiceFiller ==
    ASSUME NEW c, Sane(c), c.capture = c.active, NEW k \in Cameras, NEW ok \in BOOLEAN,
           NEW d \in service_filler(c, ok, k)
    PROVE  Sane(d) /\ SameRole(c, d)
<1>1. PICK e \in poll_filler(c, ok, k) :
        d \in (IF k = e.active THEN {e} ELSE start_filler(e, ok, k))
  BY DEF service_filler
<1>2. Sane(e) /\ SameRole(c, e)
  BY <1>1, PollFiller
<1>3. CASE k = e.active
  BY <1>1, <1>2, <1>3
<1>4. CASE k # e.active
  <2>1. e.capture # k /\ d \in start_filler(e, ok, k)
    BY <1>1, <1>2, <1>4 DEF SameRole
  <2>2. Sane(d) /\ SameRole(e, d)
    BY <1>2, <2>1, StartFiller
  <2> QED BY <1>2, <2>2 DEF SameRole
<1> QED BY <1>3, <1>4

\* The loop of camera_controller_tick over both cameras.
LEMMA ServiceFillers ==
    ASSUME NEW c, Sane(c), c.capture = c.active, NEW ok \in BOOLEAN,
           NEW d \in service_fillers(c, ok)
    PROVE  Sane(d) /\ SameRole(c, d)
<1>1. PICK e \in service_filler(c, ok, "front") : d \in service_filler(e, ok, "rear")
  BY DEF service_fillers
<1>2. "front" \in Cameras /\ "rear" \in Cameras
  BY DEF Cameras
<1>3. Sane(e) /\ SameRole(c, e)
  BY <1>1, <1>2, ServiceFiller
<1>4. Sane(d) /\ SameRole(e, d)
  BY <1>1, <1>2, <1>3, ServiceFiller DEF SameRole
<1> QED BY <1>3, <1>4 DEF SameRole

\* The branch of the tick without a requested camera only ever closes.
LEMMA TickUnrequested ==
    ASSUME NEW c, Sane(c), Coherent(c), c.opened = NoCamera, NEW ok \in BOOLEAN,
           NEW d \in tick_unrequested(c, ok)
    PROVE  /\ Sane(d) /\ Coherent(d) /\ d.active \in {c.active, NoCamera}
           /\ d.opened = NoCamera
<1> DEFINE b == [c EXCEPT !.candidate = NoCamera]
           e == [b EXCEPT !.idleAge = IF @ = Unset THEN 0 ELSE @]
           z == [b EXCEPT !.idleAge = Unset,
                          !.state = IF @ = RETRY_WAIT /\ b.pending # NoCamera THEN @ ELSE IDLE]
<1>1. 0 \in Unset..CloseGrace /\ Unset \in Unset..CloseGrace
  BY TimingAssumption DEF Unset
<1>2. /\ Sane(b) /\ b.capture = c.capture /\ b.active = c.active /\ b.state = c.state
      /\ b.opened = NoCamera
  BY DEF Sane, Accounted, EndpointFree, Controller, CameraKey
<1>3. d \in (IF b.active = NoCamera THEN {z}
             ELSE IF e.idleAge >= CloseGrace /\ e.state \in {STREAMING, RETRY_WAIT}
                  THEN transition(e, ok, NoCamera) ELSE {e})
  BY DEF tick_unrequested
<1> HIDE DEF b
<1>4. CASE b.active = NoCamera
  <2>1. Sane(z) /\ z.capture = b.capture /\ z.active = b.active /\ z.opened = NoCamera
    BY <1>1, <1>2 DEF Sane, Accounted, EndpointFree, Controller, ControllerState
  <2>2. z.state \in {IDLE, RETRY_WAIT}
    BY <1>2 DEF Sane, Controller
  <2> HIDE DEF z
  <2> QED BY <1>2, <1>3, <1>4, <2>1, <2>2 DEF Coherent, IDLE, RETRY_WAIT, STREAMING
<1>5. CASE b.active # NoCamera
  <2>1. /\ Sane(e) /\ e.capture = b.capture /\ e.active = b.active /\ e.state = b.state
        /\ e.opened = NoCamera
    BY <1>1, <1>2 DEF Sane, Accounted, EndpointFree, Controller
  <2>2. NoCamera \in CameraKey
    BY DEF CameraKey
  <2> HIDE DEF e
  <2>3. CASE d = e
    BY <1>2, <2>1, <2>3 DEF Coherent
  <2>4. CASE d \in transition(e, ok, NoCamera)
    <3>1. e.capture = e.active
      BY <1>2, <2>1 DEF Coherent
    <3> QED BY <1>2, <2>1, <2>2, <2>4, <3>1, Transition
  <2> QED BY <1>3, <1>5, <2>3, <2>4
<1> QED BY <1>4, <1>5

\* requested_camera prefers the active camera and answers from the mask.
LEMMA RequestedCamera ==
    ASSUME NEW c, Sane(c), NEW m \in SUBSET Cameras
    PROVE  LET r == requested_camera(c, m)
           IN  /\ r \in CameraKey
               /\ r # NoCamera => r \in m
               /\ c.active \in m => r = c.active
<1>1. c.active \in CameraKey
  BY DEF Sane, Controller
<1> QED BY <1>1, NoCameraNotCamera DEF requested_camera, CameraKey, Cameras

\* The branch with a requested camera opens it only when it may.
LEMMA TickRequested ==
    ASSUME NEW c, Sane(c), Coherent(c), c.opened = NoCamera,
           NEW m \in SUBSET Cameras, NEW r \in m,
           c.active \in m => r = c.active,
           NEW ok \in BOOLEAN, NEW d \in tick_requested(c, ok, r)
    PROVE  TickPost(c, d, m)
<1> DEFINE e == [c EXCEPT !.idleAge = Unset, !.candidate = r,
                          !.candidateAge = IF c.candidate = r THEN @ ELSE 0]
<1>1. r \in Cameras /\ r \in CameraKey
  BY DEF CameraKey
<1>2. Unset \in Unset..CloseGrace /\ 0 \in 0..OpenDebounce
  BY TimingAssumption DEF Unset
<1>3. /\ Sane(e) /\ e.capture = c.capture /\ e.active = c.active /\ e.state = c.state
      /\ e.captureWait = c.captureWait /\ e.opened = NoCamera
      /\ e.candidateAge = IF c.candidate = r THEN c.candidateAge ELSE 0
  BY <1>1, <1>2 DEF Sane, Accounted, EndpointFree, Controller
<1>4. d \in (IF \/ r = e.active /\ e.state = STREAMING
                \/ e.captureWait[r] > 0
                \/ r # e.active /\ e.candidateAge < OpenDebounce
             THEN {e} ELSE transition(e, ok, r))
  BY DEF tick_requested
<1> HIDE DEF e
<1>5. CASE d = e
  BY <1>3, <1>5 DEF TickPost, Coherent
<1>6. CASE /\ d \in transition(e, ok, r) /\ ~(e.captureWait[r] > 0)
           /\ r = e.active => e.state # STREAMING
           /\ r = e.active \/ ~(e.candidateAge < OpenDebounce)
  <2>1. /\ Sane(d) /\ Coherent(d) /\ d.active \in {c.active, NoCamera, r}
        /\ d.opened \in {NoCamera, r}
    <3>1. e.capture = e.active
      BY <1>3 DEF Coherent
    <3> QED BY <1>1, <1>3, <1>6, <3>1, Transition
  <2>2. /\ c.captureWait[r] \in 0..RetryMax /\ c.candidateAge \in 0..OpenDebounce
        /\ c.captureWait[r] = 0
    <3>1. c.captureWait[r] \in 0..RetryMax /\ c.candidateAge \in 0..OpenDebounce
      BY <1>1 DEF Sane, Controller
    <3> QED BY <1>3, <1>6, <3>1, TimingAssumption
  <2>3. CASE r = c.active
    <3>1. c.state = RETRY_WAIT
      BY <1>1, <1>3, <1>6, <2>3, NoCameraNotCamera DEF Coherent
    <3>2. MayStart(c, r, m)
      BY <2>2, <2>3, <3>1 DEF MayStart
    <3> QED BY <2>1, <2>3, <3>2 DEF TickPost
  <2>4. CASE r # c.active
    <3>1. c.candidate = r /\ c.candidateAge >= OpenDebounce
      BY <1>3, <1>6, <2>2, <2>4, TimingAssumption
    <3>2. MayOpen(c, r, m) /\ MayStart(c, r, m)
      BY <2>2, <2>4, <3>1 DEF MayOpen, MayStart
    <3> QED BY <2>1, <3>2 DEF TickPost
  <2> QED BY <2>3, <2>4
<1> QED BY <1>4, <1>5, <1>6

\* A tick begins with nothing started; all else is as the last one left it.
SameButOpened(c, d) ==
    /\ d.capture = c.capture /\ d.active = c.active /\ d.state = c.state
    /\ d.candidate = c.candidate /\ d.candidateAge = c.candidateAge
    /\ d.captureWait = c.captureWait /\ d.idleAge = c.idleAge
    /\ d.opened = NoCamera

\* Forgetting what the last tick started changes nothing else.
LEMMA TickBegins ==
    ASSUME NEW c, Sane(c), Coherent(c)
    PROVE  LET b == [c EXCEPT !.opened = NoCamera]
           IN  Sane(b) /\ Coherent(b) /\ SameButOpened(c, b)
BY DEF Sane, Accounted, EndpointFree, Controller, CameraKey, Coherent, SameButOpened

\* A whole tick keeps the controller sane and coherent, and moves the capture
\* only where it may.
LEMMA TickSane ==
    ASSUME NEW c, Sane(c), Coherent(c), NEW m \in SUBSET Cameras, NEW ok \in BOOLEAN,
           NEW d \in camera_controller_tick(c, ok, m)
    PROVE  TickPost(c, d, m)
<1> DEFINE b == [c EXCEPT !.opened = NoCamera]
<1>0. Sane(b) /\ Coherent(b) /\ SameButOpened(c, b)
  BY TickBegins
<1>1. PICK e \in service_fillers(b, ok) : d \in tick_capture(e, ok, m)
  BY DEF camera_controller_tick
<1> HIDE DEF b
<1>2. Sane(e) /\ SameButOpened(c, e)
  BY <1>0, <1>1, ServiceFillers DEF Coherent, SameRole, SameButOpened
<1>3. Coherent(e)
  BY <1>0, <1>2 DEF Coherent, SameButOpened
<1>4. CASE e.state = STREAMING /\ d \in capture_failed(e, ok)
  <2>1. Sane(d) /\ Coherent(d) /\ d.active \in {e.active, NoCamera} /\ d.opened = NoCamera
    BY <1>2, <1>3, <1>4, CaptureFailed DEF Coherent, SameButOpened
  <2> QED BY <1>2, <2>1 DEF TickPost, SameButOpened
<1>5. CASE d \in tick_consumers(e, ok, m)
  <2> DEFINE r == requested_camera(e, m)
  <2>1. r \in CameraKey /\ (r # NoCamera => r \in m) /\ (e.active \in m => r = e.active)
    BY <1>2, RequestedCamera
  <2>2. d \in (IF r = NoCamera THEN tick_unrequested(e, ok) ELSE tick_requested(e, ok, r))
    BY <1>5 DEF tick_consumers
  <2> HIDE DEF r
  <2>3. CASE r = NoCamera
    <3>1. Sane(d) /\ Coherent(d) /\ d.active \in {e.active, NoCamera} /\ d.opened = NoCamera
      BY <1>2, <1>3, <2>2, <2>3, TickUnrequested DEF SameButOpened
    <3> QED BY <1>2, <3>1 DEF TickPost, SameButOpened
  <2>4. CASE r # NoCamera
    <3>1. TickPost(e, d, m)
      BY <1>2, <1>3, <2>1, <2>2, <2>4, TickRequested DEF SameButOpened
    <3> QED BY <1>2, <3>1 DEF TickPost, MayOpen, MayStart, SameButOpened
  <2> QED BY <2>3, <2>4
<1> QED BY <1>1, <1>4, <1>5 DEF tick_capture

\* Shutdown, whatever fails in it, still accounts for what it leaves.
LEMMA Shutdown ==
    ASSUME NEW c, Sane(c), NEW ok \in BOOLEAN, NEW d \in camera_controller_shutdown(c, ok)
    PROVE  Sane(d) /\ d.capture \in {c.capture, NoCamera}
<1>1. "front" \in Cameras /\ "rear" \in Cameras
  BY DEF Cameras
<1>2. PICK g \in UNION {restore_wireplumber(f, ok) :
                f \in UNION {stop_filler(e, ok, "rear") :
                  e \in UNION {stop_filler(b, ok, "front") : b \in stop_capture_handle(c, ok)}}} :
        d = [g EXCEPT !.active = NoCamera, !.state = IDLE]
  BY DEF camera_controller_shutdown
<1>3. PICK f \in UNION {stop_filler(e, ok, "rear") :
                  e \in UNION {stop_filler(b, ok, "front") : b \in stop_capture_handle(c, ok)}} :
        g \in restore_wireplumber(f, ok)
  BY <1>2
<1>4. PICK e \in UNION {stop_filler(b, ok, "front") : b \in stop_capture_handle(c, ok)} :
        f \in stop_filler(e, ok, "rear")
  BY <1>3
<1>5. PICK b \in stop_capture_handle(c, ok) : e \in stop_filler(b, ok, "front")
  BY <1>4
<1>6. Sane(e) /\ e.capture \in {c.capture, NoCamera}
  BY <1>1, <1>5, StopCaptureHandle, StopFiller DEF SameRole
<1>7. Sane(f) /\ f.capture = e.capture
  BY <1>1, <1>4, <1>6, StopFiller DEF SameRole
<1>8. Sane(g) /\ g.capture = f.capture
  BY <1>3, <1>7, Restore DEF SameRole
<1> QED
  BY <1>2, <1>6, <1>7, <1>8
     DEF Sane, Accounted, EndpointFree, Controller, ControllerState, CameraKey
-----------------------------------------------------------------------------
(***************************************************************************)
(* The service.                                                            *)
(***************************************************************************)

\* camera_controller_new leaves an idle controller, with or without fillers.
LEMMA InitIInv == Init => IInv
<1> SUFFICES ASSUME Init PROVE IInv
  OBVIOUS
<1>1. /\ "front" \in Cameras /\ "rear" \in Cameras
      /\ 0 \in 0..RetryMax /\ 0 \in 0..(MaxShift + 1) /\ 0 \in 0..OpenDebounce
      /\ Unset \in Unset..CloseGrace
  BY TimingAssumption DEF Cameras, Unset
<1>2. Blank \in Controller
  BY <1>1 DEF Blank, Controller, ControllerState, CameraKey
<1>3. Accounted(Blank) /\ EndpointFree(Blank)
  BY NoCameraNotCamera DEF Blank, Accounted, EndpointFree
<1>4. Unowned(Blank) /\ Blank.state = IDLE
  BY <1>2, <1>3 DEF Sane, Unowned, Blank
<1>5. PICK c \in start_filler(Blank, healthy, "front") : ctl \in start_filler(c, healthy, "rear")
  BY DEF Init, camera_controller_new
<1>6. healthy \in BOOLEAN
  BY DEF Init
<1>7. Unowned(c) /\ c.state = IDLE
  BY <1>1, <1>4, <1>5, <1>6, StartFiller, NoCameraNotCamera DEF Unowned, SameRole
<1>8. Unowned(ctl) /\ ctl.state = IDLE
  BY <1>1, <1>5, <1>6, <1>7, StartFiller, NoCameraNotCamera DEF Unowned, SameRole
<1> QED BY <1>6, <1>8 DEF Init, IInv, Unowned, Coherent, IDLE, STREAMING

\* The passage of time moves no handle.
LEMMA ElapseSane ==
    ASSUME IInv, Elapse
    PROVE  /\ Sane(ctl') /\ Coherent(ctl') /\ ctl'.opened = NoCamera
           /\ ctl'.capture = ctl.capture /\ ctl'.active = ctl.active
<1>1. /\ ctl.candidateAge \in 0..OpenDebounce /\ ctl.idleAge \in Unset..CloseGrace
      /\ ctl.captureWait \in [Cameras -> 0..RetryMax]
      /\ ctl.fillerWait \in [Cameras -> 0..RetryMax]
  BY DEF IInv, Sane, Controller
<1>2. /\ Older(ctl.candidateAge, OpenDebounce) \in 0..OpenDebounce
      /\ (IF ctl.idleAge = Unset THEN Unset ELSE Older(ctl.idleAge, CloseGrace)) \in Unset..CloseGrace
  BY <1>1, TimingAssumption DEF Older, Unset
<1>3. /\ [k \in Cameras |-> Sooner(ctl.captureWait[k])] \in [Cameras -> 0..RetryMax]
      /\ [k \in Cameras |-> Sooner(ctl.fillerWait[k])] \in [Cameras -> 0..RetryMax]
  BY <1>1, TimingAssumption DEF Sooner
<1>4. /\ Sane(ctl') /\ ctl'.capture = ctl.capture /\ ctl'.active = ctl.active
      /\ ctl'.state = ctl.state /\ ctl'.opened = NoCamera
  BY <1>2, <1>3 DEF Elapse, IInv, Sane, Accounted, EndpointFree, Controller, CameraKey
<1> QED BY <1>4 DEF Elapse, IInv, Coherent

\* Every action preserves the invariant.
LEMMA NextIInv == IInv /\ [Next]_vars => IInv'
<1> SUFFICES ASSUME IInv, [Next]_vars PROVE IInv'
  OBVIOUS
<1>1. CASE Tick
  BY <1>1, TickSane DEF Tick, IInv, TickPost
<1>2. CASE Exit
  <2>1. PICK c \in camera_controller_shutdown(ctl, healthy) :
          ctl' \in camera_controller_shutdown(c, healthy)
    BY <1>2 DEF Exit
  <2>2. Sane(ctl')
    BY <2>1, Shutdown DEF IInv
  <2> QED BY <1>2, <2>2 DEF Exit, IInv
<1>3. CASE ConsumersChange
  BY <1>3 DEF ConsumersChange, IInv
<1>4. CASE Heal
  BY <1>4 DEF Heal, IInv
<1>5. CASE Elapse
  <2>1. Sane(ctl') /\ Coherent(ctl')
    BY <1>5, ElapseSane
  <2> QED BY <1>5, <2>1 DEF Elapse, IInv
<1>6. CASE UNCHANGED vars
  BY <1>6 DEF vars, IInv
<1> QED BY <1>1, <1>2, <1>3, <1>4, <1>5, <1>6 DEF Next

\* The invariant implies what the runs check.
LEMMA IInvImplies ==
    IInv => TypeOK /\ WorkersAccounted /\ SingleProducer /\ StateCoherent /\ WirePlumberAccounted
<1> SUFFICES ASSUME IInv
             PROVE  TypeOK /\ WorkersAccounted /\ SingleProducer /\ StateCoherent /\ WirePlumberAccounted
  OBVIOUS
<1>1. TypeOK
  BY DEF IInv, Sane, TypeOK
<1>2. WorkersAccounted
  BY DEF IInv, Sane, Accounted, WorkersAccounted
<1>3. SingleProducer
  <2>1. \A k \in Cameras : ctl.captureWorkers[k] + ctl.fillerWorkers[k] <= 1
    BY <1>2 DEF IInv, Sane, EndpointFree, WorkersAccounted
  <2>2. ctl.captureWorkers["front"] + ctl.captureWorkers["rear"] <= 1
    BY <1>2 DEF WorkersAccounted, Cameras
  <2> QED BY <2>1, <2>2 DEF SingleProducer
<1>4. StateCoherent
  BY DEF IInv, Coherent, StateCoherent
<1>5. WirePlumberAccounted
  BY DEF IInv, Sane, WirePlumberAccounted
<1> QED BY <1>1, <1>2, <1>3, <1>4, <1>5

\* The inductive invariant holds throughout.
THEOREM Invariance == Spec => []IInv
<1>1. Init => IInv
  BY InitIInv
<1>2. IInv /\ [Next]_vars => IInv'
  BY NextIInv
<1> QED BY <1>1, <1>2, PTL DEF Spec

\* The controller's fields stay within their types whatever the ops answer.
THEOREM TypeCorrect == Spec => []TypeOK
BY Invariance, IInvImplies, PTL

\* No worker process is ever orphaned by a lost handle.
THEOREM NoOrphanedWorker == Spec => []WorkersAccounted
BY Invariance, IInvImplies, PTL

\* Each loopback has at most one producer, the sensors at most one owner.
THEOREM ExclusiveProducer == Spec => []SingleProducer
BY Invariance, IInvImplies, PTL

\* state, active and the capture handle agree between ticks.
THEOREM CoherentState == Spec => []StateCoherent
BY Invariance, IInvImplies, PTL

\* The controller always knows whether it owes WirePlumber a start.
THEOREM WirePlumberNotForgotten == Spec => []WirePlumberAccounted
BY Invariance, IInvImplies, PTL
-----------------------------------------------------------------------------
(***************************************************************************)
(* What a step may never do.                                               *)
(***************************************************************************)

\* How any step may move the capture.
LEMMA StepMoves ==
    ASSUME IInv, [Next]_vars
    PROVE  \/ ctl'.capture \in {ctl.capture, NoCamera}
           \/ phase = "loop" /\ MayOpen(ctl, ctl'.capture, consumers)
<1>1. CASE Tick
  <2>1. TickPost(ctl, ctl', consumers) /\ ctl.capture = ctl.active /\ phase = "loop"
    BY <1>1, TickSane DEF Tick, IInv, Coherent
  <2> QED BY <2>1 DEF TickPost, Coherent
<1>2. CASE Exit
  <2>1. PICK c \in camera_controller_shutdown(ctl, healthy) :
          ctl' \in camera_controller_shutdown(c, healthy)
    BY <1>2 DEF Exit
  <2>2. c.capture \in {ctl.capture, NoCamera} /\ Sane(c)
    BY <2>1, Shutdown DEF IInv
  <2> QED BY <2>1, <2>2, Shutdown DEF IInv
<1>3. CASE ConsumersChange \/ Heal \/ UNCHANGED vars
  BY <1>3 DEF ConsumersChange, Heal, vars
<1>4. CASE Elapse
  BY <1>4, ElapseSane
<1> QED BY <1>1, <1>2, <1>3, <1>4 DEF Next

\* A capture worker is started only for a camera that an application holds open,
\* after its backoff, and after the debounce period unless it takes the place of
\* a worker of the same camera that could not be stopped before.
THEOREM DebouncedOpen == Spec => OpensOnlyForSteadyConsumer
<1> DEFINE Step == \A k \in Cameras : Started(k) =>
              /\ k \in consumers
              /\ ctl.captureWait[k] = 0
              /\ \/ ctl.candidate = k /\ ctl.candidateAge >= OpenDebounce
                 \/ ctl.active = k /\ ctl.state = RETRY_WAIT
<1>1. IInv /\ [Next]_vars => [Step]_vars
  <2> SUFFICES ASSUME IInv, [Next]_vars, NEW k \in Cameras, Started(k)
               PROVE  MayStart(ctl, k, consumers)
    BY DEF MayStart
  <2>1. Tick
    <3>1. ~Elapse
      BY ElapseSane, NoCameraNotCamera DEF Started
    <3>2. ~Exit
      BY DEF Exit, Started
    <3> QED BY <3>1, <3>2 DEF Next, ConsumersChange, Heal, vars, Started
  <2>2. TickPost(ctl, ctl', consumers)
    BY <2>1, TickSane DEF Tick, IInv
  <2> QED BY <2>2, NoCameraNotCamera DEF TickPost, Started
<1> QED BY <1>1, Invariance, PTL DEF Spec, OpensOnlyForSteadyConsumer

\* A camera whose endpoint is open never loses the capture to the other one.
THEOREM HeldCamera == Spec => HeldCameraNotStolen
<1> DEFINE Step == phase' = "loop" /\ ctl.active \in consumers
                     => ctl'.active \in {ctl.active, NoCamera}
<1>1. IInv /\ IInv' /\ [Next]_vars => [Step]_vars
  <2> SUFFICES ASSUME IInv, IInv', [Next]_vars, phase' = "loop", ctl.active \in consumers
               PROVE  ctl'.active \in {ctl.active, NoCamera}
    OBVIOUS
  <2>1. phase = "loop"
    BY DEF Next, Tick, Exit, ConsumersChange, Heal, Elapse, vars
  <2>2. ctl.capture = ctl.active /\ ctl'.capture = ctl'.active
    BY <2>1 DEF IInv, Coherent
  <2> QED BY <2>2, StepMoves DEF MayOpen
<1> QED BY <1>1, Invariance, PTL DEF Spec, HeldCameraNotStolen

\* The two ways in which a tick without a failure may end a running capture.
MayEnd(c, m) ==
    /\ c.active \notin m
    /\ \/ m = {} /\ c.idleAge >= CloseGrace
       \/ c.candidate \in m /\ c.candidateAge >= OpenDebounce

\* Without a consumer a running capture ends after the grace period only.
LEMMA UnrequestedEnds ==
    ASSUME NEW c, Sane(c), c.active # NoCamera,
           NEW d \in tick_unrequested(c, TRUE), d.capture # c.capture
    PROVE  c.idleAge >= CloseGrace
<1> DEFINE b == [c EXCEPT !.candidate = NoCamera]
           e == [b EXCEPT !.idleAge = IF @ = Unset THEN 0 ELSE @]
<1>1. c \in Controller
  BY DEF Sane
<1>2. /\ b.active = c.active /\ e.capture = c.capture
      /\ e.idleAge = IF c.idleAge = Unset THEN 0 ELSE c.idleAge
  BY <1>1 DEF Controller
<1>3. c.idleAge \in Unset..CloseGrace
  BY <1>1 DEF Controller
<1>4. ~(e.idleAge >= CloseGrace) => d = e
  BY <1>2 DEF tick_unrequested
<1> HIDE DEF b, e
<1> QED BY <1>2, <1>3, <1>4, TimingAssumption DEF Unset

\* For a requested camera it ends only if that is another one, debounced.
LEMMA RequestedEnds ==
    ASSUME NEW c, Sane(c), c.state = STREAMING, NEW r \in Cameras,
           NEW d \in tick_requested(c, TRUE, r), d.capture # c.capture
    PROVE  r # c.active /\ c.candidate = r /\ c.candidateAge >= OpenDebounce
<1> DEFINE e == [c EXCEPT !.idleAge = Unset, !.candidate = r,
                          !.candidateAge = IF c.candidate = r THEN @ ELSE 0]
<1>1. c \in Controller
  BY DEF Sane
<1>2. /\ e.capture = c.capture /\ e.active = c.active /\ e.state = c.state
      /\ e.candidateAge = IF c.candidate = r THEN c.candidateAge ELSE 0
  BY <1>1 DEF Controller
<1>3. c.candidateAge \in 0..OpenDebounce
  BY <1>1 DEF Controller
<1>4. /\ r = e.active /\ e.state = STREAMING => d = e
      /\ r # e.active /\ e.candidateAge < OpenDebounce => d = e
  BY DEF tick_requested
<1> HIDE DEF e
<1> QED BY <1>2, <1>3, <1>4, TimingAssumption

\* The whole tick: with every op succeeding, poll_capture ends nothing and the
\* filler loop touches neither the roles nor the timers.
LEMMA HealthyTick ==
    ASSUME NEW c, Sane(c), Coherent(c), c.state = STREAMING,
           NEW m \in SUBSET Cameras,
           NEW d \in camera_controller_tick(c, TRUE, m), d.capture # c.capture
    PROVE  MayEnd(c, m)
<1> DEFINE b == [c EXCEPT !.opened = NoCamera]
<1>0. Sane(b) /\ Coherent(b) /\ SameButOpened(c, b)
  BY TickBegins
<1>1. PICK e \in service_fillers(b, TRUE) : d \in tick_capture(e, TRUE, m)
  BY DEF camera_controller_tick
<1> HIDE DEF b
<1>2. Sane(e) /\ SameButOpened(c, e)
  BY <1>0, <1>1, ServiceFillers DEF Coherent, SameRole, SameButOpened
<1>3. d \in tick_consumers(e, TRUE, m)
  BY <1>1 DEF tick_capture
<1>4. e.active # NoCamera /\ e.state = STREAMING /\ d.capture # e.capture
  BY <1>2 DEF SameButOpened, Coherent
<1> DEFINE r == requested_camera(e, m)
<1>5. /\ r # NoCamera => r \in m
      /\ e.active \in m => r = e.active
  BY <1>2, RequestedCamera
<1>6. r = NoCamera => m = {}
  BY <1>4 DEF requested_camera, Cameras, NoCamera
<1>7. d \in IF r = NoCamera THEN tick_unrequested(e, TRUE)
           ELSE tick_requested(e, TRUE, r)
  BY <1>3 DEF tick_consumers
<1> HIDE DEF r
<1>8. CASE r = NoCamera
  BY <1>2, <1>4, <1>6, <1>7, <1>8, UnrequestedEnds DEF MayEnd, SameButOpened
<1>9. CASE r # NoCamera
  <2>1. r \in Cameras
    BY <1>5, <1>9
  <2>2. r # e.active /\ e.candidate = r /\ e.candidateAge >= OpenDebounce
    BY <1>2, <1>4, <1>7, <1>9, <2>1, RequestedEnds
  <2> QED BY <1>2, <1>5, <1>9, <2>2 DEF MayEnd, SameButOpened
<1> QED BY <1>8, <1>9

\* When nothing fails a running capture ends only for want of consumers, after
\* the close grace period, or for a debounced consumer of the other camera
\* while nobody has the active one open.
THEOREM HealthyCapture == Spec => HealthyCaptureKept
<1> DEFINE Step == (healthy /\ phase' = "loop" /\ ctl.state = STREAMING
                    /\ ctl'.captureWorkers[ctl.active] = 0)
                     => /\ ctl.active \notin consumers
                        /\ \/ consumers = {} /\ ctl.idleAge >= CloseGrace
                           \/ /\ ctl.candidate \in consumers
                              /\ ctl.candidateAge >= OpenDebounce
<1>1. IInv /\ IInv' /\ [Next]_vars => [Step]_vars
  <2> SUFFICES ASSUME IInv, IInv', [Next]_vars, healthy, phase' = "loop",
                      ctl.state = STREAMING,
                      ctl'.captureWorkers[ctl.active] = 0
               PROVE  MayEnd(ctl, consumers)
    BY DEF MayEnd
  <2>1. phase = "loop"
    BY DEF Next, Tick, Exit, ConsumersChange, Heal, Elapse, vars
  <2>2. ctl.capture = ctl.active /\ ctl.active \in Cameras /\ Coherent(ctl)
    BY <2>1 DEF IInv, Coherent, Sane, Controller, CameraKey
  <2>3. ctl'.capture # ctl.capture
    BY <2>2 DEF IInv, Sane, Accounted
  <2>4. Tick
    <3>1. ~Elapse
      BY <2>3, ElapseSane DEF IInv
    <3>2. ~Exit
      BY DEF Exit
    <3> QED BY <2>3, <3>1, <3>2 DEF Next, ConsumersChange, Heal, vars
  <2>5. ctl' \in camera_controller_tick(ctl, TRUE, consumers)
    BY <2>4 DEF Tick, IInv
  <2> QED BY <2>2, <2>3, <2>5, HealthyTick DEF IInv
<1> QED BY <1>1, Invariance, PTL DEF Spec, HealthyCaptureKept
=============================================================================
