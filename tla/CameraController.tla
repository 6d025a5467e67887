-------------------------- MODULE CameraController --------------------------
(***************************************************************************)
(* The state machine of the RGB camera bridge, cbridge/controller.c.       *)
(*                                                                         *)
(* One controller owns two v4l2loopback endpoints, front and rear.  An     *)
(* endpoint is fed either by a filler worker or by the one physical        *)
(* capture.  The bridge's main loop calls camera_controller_tick; every    *)
(* call the tick makes into its ControllerOps may fail.                    *)
(*                                                                         *)
(* A C function that calls the fallible ops is an operator that maps a     *)
(* controller to the SET of controllers it may leave behind, one member    *)
(* for each combination of results.  Sequential composition is then a      *)
(* UNION over the intermediate controllers, and a return code is read off  *)
(* the state (stop_handle succeeded iff the handle is gone).               *)
(*                                                                         *)
(* Timestamps are kept relative to now_ms: candidateAge and idleAge are    *)
(* how long ago candidate_since and idle_since were taken (saturating at   *)
(* the only bound they are compared with), captureWait and fillerWait how  *)
(* far in the future the retry deadlines lie.                              *)
(***************************************************************************)
EXTENDS Integers, FiniteSets

CONSTANTS
    OpenDebounce,   \* OPEN_DEBOUNCE_MS
    CloseGrace,     \* CLOSE_GRACE_MS
    RetryBase,      \* RETRY_BASE_MS
    RetryMax,       \* RETRY_MAX_MS
    MaxShift        \* the largest shift of retry_delay_ms, 4 in the code

ASSUME TimingAssumption ==
    /\ OpenDebounce \in Nat \ {0}
    /\ CloseGrace \in Nat \ {0}
    /\ RetryBase \in Nat \ {0}
    /\ RetryMax \in Nat \ {0}
    /\ MaxShift \in Nat

Cameras == {"front", "rear"}
NoCamera == "none"
CameraKey == Cameras \cup {NoCamera}

IDLE == "IDLE"
STARTING == "STARTING"
STREAMING == "STREAMING"
STOPPING == "STOPPING"
RETRY_WAIT == "RETRY_WAIT"
ControllerState == {IDLE, STARTING, STREAMING, STOPPING, RETRY_WAIT}

Unset == -1     \* the value 0 of idle_since

VARIABLES
    ctl,        \* struct CameraController and the outside world it acts on
    consumers,  \* the endpoints some application holds open
    healthy,    \* TRUE once every op succeeds and every worker stays alive
    phase       \* whether main() is still in its loop

vars == <<ctl, consumers, healthy, phase>>

(***************************************************************************)
(* The controller, and two things outside it that its ops change: how many *)
(* capture and filler worker processes run for each camera, and whether    *)
(* the WirePlumber service runs.  opened is a history variable, the camera *)
(* for which the tick that just ended started a capture worker.            *)
(***************************************************************************)
Controller ==
    [state : ControllerState,
     active : CameraKey, candidate : CameraKey, pending : CameraKey,
     candidateAge : 0..OpenDebounce,
     idleAge : Unset..CloseGrace,
     captureWait : [Cameras -> 0..RetryMax],
     fillerWait : [Cameras -> 0..RetryMax],
     captureExp : [Cameras -> 0..(MaxShift + 1)],
     fillerExp : [Cameras -> 0..(MaxShift + 1)],
     capture : CameraKey,               \* the camera the handle captures
     filler : [Cameras -> BOOLEAN],     \* whether there is a filler handle
     wpStopped : BOOLEAN,               \* wireplumber_stopped
     captureWorkers : [Cameras -> Nat],
     fillerWorkers : [Cameras -> Nat],
     wpRunning : BOOLEAN,
     opened : CameraKey]                \* history: what this tick started
-----------------------------------------------------------------------------
(***************************************************************************)
(* Retry bookkeeping.                                                      *)
(***************************************************************************)
\* Mutant: the shift is not clamped.
unclamped_retry_delay_ms(exponent) == RetryBase * 2^exponent

retry_delay_ms(exponent) ==
    LET shift == IF exponent > MaxShift THEN MaxShift ELSE exponent
        delay == RetryBase * 2^shift
    IN  IF delay \in 0..RetryMax THEN delay ELSE RetryMax

next_exponent(exponent) ==
    IF exponent < MaxShift + 1 THEN exponent + 1 ELSE exponent

schedule_capture_retry(c, camera) ==
    [c EXCEPT !.captureWait[camera] = retry_delay_ms(c.captureExp[camera]),
              !.captureExp[camera] = next_exponent(@)]

schedule_filler_retry(c, camera) ==
    [c EXCEPT !.fillerWait[camera] = retry_delay_ms(c.fillerExp[camera]),
              !.fillerExp[camera] = next_exponent(@)]

clear_capture_retry(c, camera) ==
    [c EXCEPT !.captureWait[camera] = 0, !.captureExp[camera] = 0]

clear_filler_retry(c, camera) ==
    [c EXCEPT !.fillerWait[camera] = 0, !.fillerExp[camera] = 0]

RetryWait(c) == [c EXCEPT !.state = RETRY_WAIT]
-----------------------------------------------------------------------------
(***************************************************************************)
(* Handles.  "ok" is TRUE when no op may fail any more.                    *)
(***************************************************************************)
Failing(ok, c) == IF ok THEN {} ELSE {c}

stop_filler(c, ok, camera) ==
    IF ~c.filler[camera] THEN {c}
    ELSE Failing(ok, c) \cup
         {[c EXCEPT !.filler[camera] = FALSE, !.fillerWorkers[camera] = @ - 1]}

\* Mutant: the handle is cleared although the stop failed.
stop_capture_handle_forgetting(c, ok) ==
    IF c.capture = NoCamera THEN {c}
    ELSE Failing(ok, [c EXCEPT !.capture = NoCamera]) \cup
         {[c EXCEPT !.capture = NoCamera, !.captureWorkers[c.capture] = @ - 1]}

stop_capture_handle(c, ok) ==
    IF c.capture = NoCamera THEN {c}
    ELSE Failing(ok, c) \cup
         {[c EXCEPT !.capture = NoCamera, !.captureWorkers[c.capture] = @ - 1]}

\* A failing query_format only selects the YUYV fallback.
start_filler(c, ok, camera) ==
    IF c.filler[camera] \/ c.fillerWait[camera] > 0 THEN {c}
    ELSE Failing(ok, schedule_filler_retry(c, camera)) \cup
         {clear_filler_retry([c EXCEPT !.filler[camera] = TRUE,
                                       !.fillerWorkers[camera] = @ + 1], camera)}

\* A filler whose stop fails keeps its handle; the retry is scheduled anyway.
poll_filler(c, ok, camera) ==
    IF ~c.filler[camera] \/ ok THEN {c}
    ELSE {c} \cup {schedule_filler_retry(d, camera) : d \in stop_filler(c, ok, camera)}

restore_wireplumber(c, ok) ==
    IF ~c.wpStopped THEN {c}
    ELSE Failing(ok, c) \cup {[c EXCEPT !.wpStopped = FALSE, !.wpRunning = TRUE]}

\* retry_camera is never CAMERA_NONE: both callers pass a camera.
stop_capture(c, ok, retry_camera) ==
    {IF d.capture = NoCamera THEN d ELSE schedule_capture_retry(d, retry_camera) :
        d \in stop_capture_handle(c, ok)}
-----------------------------------------------------------------------------
(***************************************************************************)
(* Starting a capture.                                                     *)
(***************************************************************************)

\* The failure exits of start_capture after the filler is stopped: back off,
\* hand WirePlumber back when this attempt took it, and refill the endpoint.
capture_start_failed(c, ok, camera, restore) ==
    UNION {{RetryWait(f) : f \in start_filler(d, ok, camera)} :
        d \in IF restore
              THEN restore_wireplumber(schedule_capture_retry(c, camera), ok)
              ELSE {schedule_capture_retry(c, camera)}}

\* WIREPLUMBER_STOPPED, WIREPLUMBER_ALREADY_INACTIVE; the service that is not
\* running cannot be stopped by this call.
wireplumber_stop(c) ==
    {[c EXCEPT !.wpStopped = FALSE]} \cup
    (IF c.wpRunning
     THEN {[c EXCEPT !.wpStopped = TRUE, !.wpRunning = FALSE]} ELSE {})

capture_started(c, camera) ==
    clear_capture_retry(
        [c EXCEPT !.capture = camera, !.captureWorkers[camera] = @ + 1,
                  !.opened = camera,
                  !.active = camera, !.pending = NoCamera, !.state = STREAMING],
        camera)

\* query_format and backend_start fail with the same consequences.
open_capture(c, ok, camera) ==
    {capture_started(c, camera)} \cup
    (IF ok THEN {} ELSE capture_start_failed(c, ok, camera, TRUE))

\* Mutant: WirePlumber is stopped again although its restore failed.
take_wireplumber_twice(c, ok, camera) ==
    (IF ok THEN {} ELSE capture_start_failed(c, ok, camera, FALSE)) \cup
    UNION {open_capture(d, ok, camera) : d \in wireplumber_stop(c)}

take_wireplumber(c, ok, camera) ==
    IF c.wpStopped      \* restore_wireplumber failed
    THEN capture_start_failed(c, ok, camera, FALSE)
    ELSE (IF ok THEN {} ELSE capture_start_failed(c, ok, camera, FALSE)) \cup
         UNION {open_capture(d, ok, camera) : d \in wireplumber_stop(c)}

\* Mutant: the result of stop_filler is ignored.
start_capture_beside_filler(c, ok, camera) ==
    UNION {UNION {take_wireplumber(e, ok, camera) : e \in restore_wireplumber(d, ok)} :
        d \in stop_filler([c EXCEPT !.state = STARTING], ok, camera)}

start_capture(c, ok, camera) ==
    UNION {IF d.filler[camera]
           THEN {RetryWait(schedule_capture_retry(d, camera))}
           ELSE UNION {take_wireplumber(e, ok, camera) : e \in restore_wireplumber(d, ok)} :
        d \in stop_filler([c EXCEPT !.state = STARTING], ok, camera)}
-----------------------------------------------------------------------------
(***************************************************************************)
(* Moving the capture to another camera, or to none.                       *)
(***************************************************************************)
\* Mutant: the active camera gets no preference.
requested_camera_rear_first(c, mask) ==
    IF "rear" \in mask THEN "rear"
    ELSE IF "front" \in mask THEN "front"
    ELSE NoCamera

requested_camera(c, mask) ==
    IF c.active # NoCamera /\ c.active \in mask THEN c.active
    ELSE IF "rear" \in mask THEN "rear"
    ELSE IF "front" \in mask THEN "front"
    ELSE NoCamera

\* The tail of transition once no capture is held.
enter_target(c, ok, target) ==
    IF target = NoCamera
    THEN {[c EXCEPT !.pending = NoCamera, !.state = IDLE]}
    ELSE start_capture(c, ok, target)

\* The old capture is stopped: refill its endpoint and give WirePlumber back.
leave_old(c, ok, old, target) ==
    LET retry == IF target = NoCamera THEN old ELSE target
        freed == clear_capture_retry([c EXCEPT !.active = NoCamera], old)
    IN  UNION {IF d.wpStopped THEN {RetryWait(schedule_capture_retry(d, retry))}
               ELSE enter_target(d, ok, target) :
            d \in UNION {restore_wireplumber(f, ok) : f \in start_filler(freed, ok, old)}}

transition(c, ok, target) ==
    LET old == c.active
        begun == [c EXCEPT !.state = STOPPING, !.pending = target]
    IN  IF old = NoCamera THEN enter_target(begun, ok, target)
        ELSE UNION {IF d.capture # NoCamera THEN {RetryWait(d)}
                    ELSE leave_old(d, ok, old, target) :
                d \in stop_capture(begun, ok, IF target = NoCamera THEN old ELSE target)}

\* Mutant: active is cleared before the result of the stop is known.
capture_failed_inactive(c, ok) ==
    UNION {{RetryWait(schedule_capture_retry(e, c.active)) :
                e \in restore_wireplumber([d EXCEPT !.active = NoCamera], ok)} :
            d \in stop_capture(c, ok, c.active)}

capture_failed(c, ok) ==
    LET failed == c.active
    IN  UNION {IF d.capture # NoCamera THEN {RetryWait(d)}
               ELSE {RetryWait(schedule_capture_retry(e, failed)) :
                        e \in UNION {restore_wireplumber(f, ok) :
                            f \in start_filler([d EXCEPT !.active = NoCamera], ok, failed)}} :
            d \in stop_capture(c, ok, failed)}
-----------------------------------------------------------------------------
(***************************************************************************)
(* camera_controller_tick.                                                 *)
(***************************************************************************)

\* Mutant: a filler that failed to start is not started again.
service_filler_once(c, ok, camera) == poll_filler(c, ok, camera)

\* The loop over the cameras; the active camera's endpoint gets no filler.
service_filler(c, ok, camera) ==
    UNION {IF camera = d.active THEN {d} ELSE start_filler(d, ok, camera) :
        d \in poll_filler(c, ok, camera)}

service_fillers(c, ok) ==
    UNION {service_filler(d, ok, "rear") : d \in service_filler(c, ok, "front")}

\* Mutant: no close grace.
tick_unrequested_at_once(c, ok) ==
    LET d == [c EXCEPT !.candidate = NoCamera]
    IN  IF d.active = NoCamera
        THEN {[d EXCEPT !.idleAge = Unset, !.state = IDLE]}
        ELSE transition(d, ok, NoCamera)

\* Mutant: a capture whose stop failed is not stopped again.
tick_unrequested_streaming(c, ok) ==
    LET d == [c EXCEPT !.candidate = NoCamera]
        e == [d EXCEPT !.idleAge = IF @ = Unset THEN 0 ELSE @]
    IN  IF d.active = NoCamera
        THEN {[d EXCEPT !.idleAge = Unset,
                        !.state = IF @ = RETRY_WAIT /\ d.pending # NoCamera THEN @ ELSE IDLE]}
        ELSE IF e.idleAge >= CloseGrace /\ e.state = STREAMING
             THEN transition(e, ok, NoCamera)
             ELSE {e}

tick_unrequested(c, ok) ==
    LET d == [c EXCEPT !.candidate = NoCamera]
        e == [d EXCEPT !.idleAge = IF @ = Unset THEN 0 ELSE @]
    IN  IF d.active = NoCamera
        THEN {[d EXCEPT !.idleAge = Unset,
                        !.state = IF @ = RETRY_WAIT /\ d.pending # NoCamera THEN @ ELSE IDLE]}
        ELSE IF e.idleAge >= CloseGrace /\ e.state \in {STREAMING, RETRY_WAIT}
             THEN transition(e, ok, NoCamera)
             ELSE {e}

\* Mutant: the open is not debounced.
tick_requested_at_once(c, ok, requested) ==
    LET d == [c EXCEPT !.idleAge = Unset, !.candidate = requested, !.candidateAge = 0]
    IN  IF \/ requested = d.active /\ d.state = STREAMING
           \/ d.captureWait[requested] > 0
        THEN {d}
        ELSE transition(d, ok, requested)

\* Mutant: the active camera is taken for a streaming one.
tick_requested_active(c, ok, requested) ==
    LET d == [c EXCEPT !.idleAge = Unset,
                       !.candidate = requested,
                       !.candidateAge = IF c.candidate = requested THEN @ ELSE 0]
    IN  IF \/ requested = d.active
           \/ d.captureWait[requested] > 0
           \/ d.candidateAge < OpenDebounce
        THEN {d}
        ELSE transition(d, ok, requested)

tick_requested(c, ok, requested) ==
    LET d == [c EXCEPT !.idleAge = Unset,
                       !.candidate = requested,
                       !.candidateAge = IF c.candidate = requested THEN @ ELSE 0]
    IN  IF \/ requested = d.active /\ d.state = STREAMING
           \/ d.captureWait[requested] > 0
           \/ requested # d.active /\ d.candidateAge < OpenDebounce
        THEN {d}
        ELSE transition(d, ok, requested)

tick_consumers(c, ok, mask) ==
    LET requested == requested_camera(c, mask)
    IN  IF requested = NoCamera THEN tick_unrequested(c, ok)
        ELSE tick_requested(c, ok, requested)

\* The capture is polled only while STREAMING; a failed poll ends the tick.
tick_capture(c, ok, mask) ==
    tick_consumers(c, ok, mask) \cup
    (IF c.capture # NoCamera /\ c.state = STREAMING /\ ~ok
     THEN capture_failed(c, ok) ELSE {})

camera_controller_tick(c, ok, mask) ==
    UNION {tick_capture(d, ok, mask) :
        d \in service_fillers([c EXCEPT !.opened = NoCamera], ok)}

camera_controller_shutdown(c, ok) ==
    {[g EXCEPT !.active = NoCamera, !.state = IDLE] :
        g \in UNION {restore_wireplumber(f, ok) :
            f \in UNION {stop_filler(e, ok, "rear") :
                e \in UNION {stop_filler(d, ok, "front") :
                    d \in stop_capture_handle(c, ok)}}}}
-----------------------------------------------------------------------------
(***************************************************************************)
(* The service: main() creates the controller, ticks it until a signal     *)
(* arrives, shuts it down and frees it (which shuts it down again).        *)
(***************************************************************************)
Blank ==
    [state |-> IDLE, active |-> NoCamera, candidate |-> NoCamera, pending |-> NoCamera,
     candidateAge |-> 0, idleAge |-> Unset,
     captureWait |-> [k \in Cameras |-> 0], fillerWait |-> [k \in Cameras |-> 0],
     captureExp |-> [k \in Cameras |-> 0], fillerExp |-> [k \in Cameras |-> 0],
     capture |-> NoCamera, filler |-> [k \in Cameras |-> FALSE], wpStopped |-> FALSE,
     captureWorkers |-> [k \in Cameras |-> 0], fillerWorkers |-> [k \in Cameras |-> 0],
     wpRunning |-> TRUE, opened |-> NoCamera]

camera_controller_new(ok) ==
    UNION {start_filler(c, ok, "rear") : c \in start_filler(Blank, ok, "front")}

Init ==
    /\ healthy = FALSE
    /\ ctl \in camera_controller_new(healthy)
    /\ consumers = {}
    /\ phase = "loop"

Tick ==
    /\ phase = "loop"
    /\ ctl' \in camera_controller_tick(ctl, healthy, consumers)
    /\ UNCHANGED <<consumers, healthy, phase>>

Exit ==
    /\ phase = "loop"
    /\ phase' = "exited"
    /\ ctl' \in UNION {camera_controller_shutdown(c, healthy) :
                    c \in camera_controller_shutdown(ctl, healthy)}
    /\ UNCHANGED <<consumers, healthy>>

\* Applications open and close endpoints at any time.
ConsumersChange ==
    /\ consumers' \in SUBSET Cameras
    /\ UNCHANGED <<ctl, healthy, phase>>

Heal ==
    /\ ~healthy
    /\ healthy' = TRUE
    /\ UNCHANGED <<ctl, consumers, phase>>

Older(age, bound) == IF age < bound THEN age + 1 ELSE age
Sooner(wait) == IF wait > 0 THEN wait - 1 ELSE 0

\* One unit of time passes between two ticks.
Elapse ==
    /\ phase = "loop"
    /\ ctl' = [ctl EXCEPT
                 !.opened = NoCamera,
                 !.candidateAge = Older(@, OpenDebounce),
                 !.idleAge = IF @ = Unset THEN Unset ELSE Older(@, CloseGrace),
                 !.captureWait = [k \in Cameras |-> Sooner(ctl.captureWait[k])],
                 !.fillerWait = [k \in Cameras |-> Sooner(ctl.fillerWait[k])]]
    /\ UNCHANGED <<consumers, healthy, phase>>

Next == Tick \/ Exit \/ ConsumersChange \/ Heal \/ Elapse

Spec == Init /\ [][Next]_vars

(***************************************************************************)
(* main() polls every POLL_INTERVAL_MS, so ticks and time both recur.      *)
(***************************************************************************)
FairSpec == Spec /\ WF_vars(Tick) /\ WF_vars(Elapse)
-----------------------------------------------------------------------------
(***************************************************************************)
(* Safety.                                                                 *)
(***************************************************************************)

\* The struct holds what its C declarations allow.
TypeOK ==
    /\ ctl \in Controller
    /\ consumers \in SUBSET Cameras
    /\ healthy \in BOOLEAN
    /\ phase \in {"loop", "exited"}

\* Every worker process that backend_start created and backend_stop has not
\* ended is reachable through exactly one handle of the controller: no path
\* through a failed stop, a failed start or a retry overwrites a handle.
WorkersAccounted ==
    \A k \in Cameras :
        /\ ctl.captureWorkers[k] = IF ctl.capture = k THEN 1 ELSE 0
        /\ ctl.fillerWorkers[k] = IF ctl.filler[k] THEN 1 ELSE 0

\* An endpoint has at most one producer and the sensors at most one owner:
\* whatever fails, start_capture never runs beside a worker that start_filler
\* or an earlier start_capture left writing to the same loopback.
SingleProducer ==
    /\ \A k \in Cameras : ctl.captureWorkers[k] + ctl.fillerWorkers[k] <= 1
    /\ ctl.captureWorkers["front"] + ctl.captureWorkers["rear"] <= 1

\* Between two ticks the transient states are gone and the state tells the
\* truth about the handle: active names the camera of the capture handle even
\* after a stop that failed, STREAMING has one, IDLE has none.
StateCoherent ==
    phase = "loop" =>
        /\ ctl.state \in {IDLE, STREAMING, RETRY_WAIT}
        /\ ctl.capture = ctl.active
        /\ ctl.state = STREAMING => ctl.active # NoCamera
        /\ ctl.state = IDLE => ctl.active = NoCamera

\* wireplumber_stopped never forgets a service the controller stopped, in
\* particular not when start_capture stops it again after a failed restore.
WirePlumberAccounted == ctl.wpRunning = ~ctl.wpStopped

(***************************************************************************)
(* What a step may never do.                                               *)
(***************************************************************************)

\* A tick starts a worker that captures camera k.
Started(k) == ctl' # ctl /\ phase' = "loop" /\ ctl'.opened = k

\* A tick starts a capture worker only for a camera some application has open
\* now and whose retry deadline has passed, and only after the camera was the
\* candidate for the whole debounce period.  The one start that is not debounced
\* replaces a worker whose stop had failed: the camera is still active, so its
\* returning consumer gets a new worker as soon as the old one is stopped.
OpensOnlyForSteadyConsumer ==
    [][\A k \in Cameras : Started(k) =>
         /\ k \in consumers
         /\ ctl.captureWait[k] = 0
         /\ \/ ctl.candidate = k /\ ctl.candidateAge >= OpenDebounce
            \/ ctl.active = k /\ ctl.state = RETRY_WAIT]_vars

\* While the endpoint of the active camera stays open, no tick hands the
\* capture to the other camera, not even through a failed stop and its retry.
HeldCameraNotStolen ==
    [][phase' = "loop" /\ ctl.active \in consumers
         => ctl'.active \in {ctl.active, NoCamera}]_vars

\* When nothing fails a running capture ends only after the close grace period
\* without any consumer, or for a debounced consumer of the other camera.
HealthyCaptureKept ==
    [][(healthy /\ phase' = "loop" /\ ctl.state = STREAMING
        /\ ctl'.captureWorkers[ctl.active] = 0)
         => /\ ctl.active \notin consumers
            /\ \/ consumers = {} /\ ctl.idleAge >= CloseGrace
               \/ ctl.candidate \in consumers /\ ctl.candidateAge >= OpenDebounce]_vars
-----------------------------------------------------------------------------
(***************************************************************************)
(* Liveness, once the ops stop failing and the consumers settle.           *)
(***************************************************************************)
Settled(mask) == healthy /\ phase = "loop" /\ consumers = mask

\* The only open endpoint ends up with its physical capture, whatever stop,
\* start, format or WirePlumber failures preceded.
ConsumerServed ==
    \A k \in Cameras :
        <>[]Settled({k}) => <>[](ctl.state = STREAMING /\ ctl.capture = k)

\* With no consumer the sensors are released, also when the stop had failed.
CameraReleased ==
    <>[]Settled({}) => <>[](ctl.capture = NoCamera)

\* Both loopbacks are kept alive: from some time on each endpoint has exactly
\* one producer, however applications keep opening and closing them.
EndpointsFed ==
    <>[](healthy /\ phase = "loop") =>
        <>[](\A k \in Cameras : ctl.captureWorkers[k] + ctl.fillerWorkers[k] = 1)
-----------------------------------------------------------------------------
(***************************************************************************)
(* A statement of the documentation that the code does not meet.           *)
(***************************************************************************)

\* docs/back-camera.md: if both RGB endpoints are opened, the rear request
\* wins.  requested_camera keeps an active front camera.
RearRequestWins ==
    <>[]Settled(Cameras) => <>[](ctl.capture = "rear")

=============================================================================
