# TLA+ models of the SP7 IPU4 camera stack

The repository makes the cameras of a Surface Pro 7 usable: an out-of-tree port
of Intel's IPU4P kernel driver (`linux-6.19.8/drivers/media/pci/intel`), and a
user-space bridge (`cbridge/`) that feeds v4l2loopback endpoints from the
physical cameras on demand. This directory models the parts of it whose
correctness depends on interleavings, failures and timeouts.

Paths below are relative to the repository root; `K/` stands for
`linux-6.19.8/drivers/media/pci/intel/`.

## Inventory

| Component | State | Operations | What makes it hard | What must hold |
|---|---|---|---|---|
| RGB camera controller (`cbridge/controller.c`) | `struct CameraController`: state, active/candidate/pending camera, debounce and grace timestamps, retry deadlines and exponents, capture and filler handles, `wireplumber_stopped` | `camera_controller_new`, `_tick`, `_shutdown`, `_free` | every op may fail in the middle of a transition; time, consumers and retries interact | one producer per endpoint, no orphaned worker, no camera stolen, eventual service |
| Bridge process (`cbridge/surface-camera-bridge.c`) | worker processes, consumer mask cache, inotify watch | main loop, `backend_*` ops, `terminate_worker`, `consumer_mask` | the bridge or a worker dies between any two steps; workers that hang or ignore SIGTERM; inotify events late, lost or overflowing while /proc is scanned | every worker supervised and collected, none left with the camera, operations end, the consumer mask converges |
| ISYS capture queue (`K/ipu-isys-queue.c`) | per queue `incoming` and `active` lists, vb2 buffer states | `buf_queue`, `start_streaming`, `stop_streaming`, `ipu_isys_queue_buf_ready`, `verify_stream_start` | application threads, ISR thread and firmware share the lists; the start is verified and retried while frames arrive | each buffer completed once, in the right vb2 state, none stranded |
| ISYS stream life cycle (`K/ipu-isys-video.c`) | `struct ipu_isys_pipeline`, stream handles, `reset_needed` | `video_open/release`, `start_stream_firmware`, `stop_…`, `close_…`, `set_streaming` | each of five firmware commands can be unsendable, refused, late or unanswered; rollback steps fail too | no DMA into returned memory, no half-started pipeline, no stale stream, bounded calls |
| ISYS device (`video_open`, `video_release`, `K/ipu-isys.c`, `K/ipu4/ipu4p-css/libintel-ipu4p.c`) | `video_opened`, `reset_needed`, firmware context, power references, `recovery_mutex` | open, release, `ipu_isys_force_power_cycle`, its sysfs trigger | several openers interleave with a recovery that runs without `isys->mutex`; every step of an open can fail | references balanced, firmware up for an open node, no power cut under an open node, lost firmware marked until the power was cut |
| ISYS responses (`K/ipu-isys.c`) | `pipes[]`, completions, message pool | `isys_isr_one`, `ipu_get/put_fw_msg_buf`, `ipu_isys_force_power_cycle` | late and mismatched answers | a response is applied to the stream it belongs to |
| FWCOM (`K/ipu-fw-com.c`) | token rings in shared memory | `ipu_send_get/put_token`, `ipu_recv_get/put_token` | index wrap, full/empty | FIFO, nothing lost |
| CSI-2 receiver (`K/ipu-isys-csi2.c`) | stream counts, latched errors | `s_stream`, error reporting | shared by virtual channels | counts match streams |
| Buttress (`K/ipu-buttress.c`) | IPC channels, `auth_mutex`, power state | authentication, IPC send, interrupts, power up/down | waits time out and the answers they gave up arrive in the next attempt | leftovers of failed attempts do not spoil the later ones for ever; the mutex is released |
| PSYS (`K/ipu-psys.c`, `K/ipu4/`) | kernel command queues | not used by the raw capture path | – | – |
| MMU, DMA, bus, CPD, trace | page tables, probe-time data | – | sequential | – |
| CSS host libraries (`K/ipu4/ipu4p-css`) | vendored Intel code | command send, response read | – | – |
| IR service and auth helper (`cbridge/ir-*.c`, `auth-capture-helper.c`) | capture object with its buffers, sequence and discard limits; supervisor, worker, pipe, lock | `ir_capture_*`, `worker_main`, `supervise_worker` | a supervisor that times out or is killed leaves its worker behind; exit, end of file, signal and short writes in any order | one capture at a time, whole frames or an error, no buffer lost, everything ends |
| Sensor `ov5693`, ipu3/ipu6/ivsc, scripts, docs | – | – | – | – |

The controller ticks in the bridge's main loop and starts worker processes;
a capture worker opens an ISYS node and issues QBUF, STREAMON and STREAMOFF;
the ISYS driver sends commands to the ISYS firmware through the CSS library and
FWCOM rings; firmware responses come back through the ISR thread, which
completes buffers and wakes the callers. The first open of a node authenticates
the firmware through the Buttress and its security engine (CSE) and starts it;
an open after a failure first cycles the power. The authentication helper
captures from the IR node, which belongs to the same ISYS device, for a caller
(`scripts/ir/sp7_ir_protocol.py`) that may kill and restart it at any time.

`PROJECT.json` lists the hazards at their source lines, the map from definitions
to source lines, and the mutants.

## Modules

| Module | Models |
|---|---|
| `CameraController` | `controller.c` completely, `main()` of the bridge as its environment |
| `CameraControllerProofs` | its inductive invariant and theorems |
| `IsysStream` | the capture path of one ISYS pipeline with one capture node |
| `IsysStreamProofs` | its inductive invariant and the theorems about buffers and calls |
| `IsysStreamFirmwareProofs` | types, fed queue and DMA: the theorems about the conversation with the firmware |
| `TokenQueue` | what a FWCOM queue promises: a bounded FIFO with get and release |
| `FwCom` | the FWCOM rings, shown to implement `TokenQueue` |
| `FwComProofs` | the proof of that refinement, and the types |
| `WorkerSupervisor` | the bridge's worker processes: `backend_*`, `worker_process`, `terminate_worker`; crash and restart of the service |
| `ConsumerScan` | `consumer_mask`: inotify watch, /proc scan, cache, fallback polling |
| `Bridge` | the composition of the two in the one thread of `main()` |
| `BridgeProofs` | its inductive invariant and theorems |
| `Buttress` | `ipu_buttress_authenticate`, the CSE channel and its interrupts |
| `IsysDevice` | `video_open`, `video_release`, recovery and firmware context, on top of `Buttress` |
| `IsysDeviceProofs` | its inductive invariant and theorems |
| `IrCapture` | the capture object of `ir-v4l2.c` |
| `AuthCapture` | the authentication helper, on top of `IrCapture` |
| `AuthCaptureProofs` | its inductive invariant and theorems |
| `MC*` | instances for TLC |

Definitions whose comment begins with *Mutant* are not part of the models. Each
is a small, plausible mistake in the definition that follows it, kept to show
that the property named with it in `PROJECT.json` can fail.

### CameraController

A C function that calls fallible ops is an operator from a controller record to
the *set* of records it can leave behind; sequencing is a `UNION`. The record
also contains the outside world the ops act on: the number of worker processes
per camera and kind, and whether WirePlumber runs. `Tick` is one
`camera_controller_tick`, `Exit` is shutdown followed by free, `Elapse` is the
passage of one time unit, `ConsumersChange` an application opening or closing an
endpoint, and `Heal` the moment after which no op fails any more (only the
liveness properties need it). The record's `opened` is a history field: the
camera for which the present tick started a capture worker, so that a worker
replaced by another within one tick is seen.

Timestamps are relative to now: ages saturate at the bound they are compared
with, retry deadlines count down. Since the code compares timestamps only with
those constants, this loses nothing. `query_format`'s value is abstracted, its
failure is kept. A tick is atomic: the bridge is single-threaded, and consumers
that change during a tick are seen by the next scan. WirePlumber is modelled
through the `ControllerOps` interface, whose stop and start can fail; the
bridge's own implementation of these two ops never does.

### IsysStream

`pc` is the position of the thread that holds `av->mutex`; a step ends where the
code releases a spinlock, sends a command or sleeps, so that the ISR
(`isys_isr_one`), the firmware (`FirmwareStep`, `FirmwareFrame`) and other
application threads (`QBuf` links a buffer before it waits for the mutex)
interleave there. Waits for completions may succeed when the completion is
there and may fail whenever it is not yet there or `ip->error` is set; every
response overwrites `error`, as in the code. A command can be refused (`Refuses`),
cannot be sent when the queue is full or for no reason at all, and stays queued
when the firmware is silent. `caller` tells STREAMON, deferred start and
STREAMOFF apart; `sub` tells the five loops that submit buffers apart.
`own` is the vb2 view of a buffer. `mine` is a history variable: the firmware
stream was opened by the present owner of the handle.

Frames carry a clean/corrupt flag. A corrupt frame may have the STR2MMIO error,
which is parked during verification, or another one, which is completed.

The firmware is external: it executes commands in order, accepts those legal in
its stream state, and writes frames only to buffers it was given while the
stream is started and the sensor streams.

Abstractions: lists are sets (no property depends on order); the response
handler is atomic; media requests (no request ops are registered) and interlaced
capture (no interlaced sensor) are left out; a failed `prepare_streaming` or
format check, which changes nothing, is a stuttering step. Two branches are
left out because one pipeline with a CSI-2 receiver and a progressive sensor
does not reach them: `verify_stream_start` returning at once without receiver or
sensor (`K/ipu-isys-queue.c:667`), the skipped `s_stream(1)` of a receiver that
waits for further virtual channels (`K/ipu-isys-video.c:2381`). A sub-device
whose disable fails, which the code passes over (`K/ipu-isys-video.c:2322`), is
off in the model.

### FwCom and TokenQueue

The rings keep read and write indexes and slots. The refinement mapping takes
the abstract queue to the slots between the indexes. `Limit` bounds the tokens a
caller keeps in flight.

### WorkerSupervisor, ConsumerScan, Bridge

`WorkerSupervisor` implements the ops that `CameraController` assumes, whose
choices of ops are here free: a start into an empty slot, a poll or a stop of a
handle. `pc` is the position of the bridge's thread, `proc` that of each worker:
before `prctl`, before `getppid`, starting its pipeline, streaming, zombie. A
worker sent SIGKILL takes no more steps but may need any time to die. `Crash`
kills the bridge between any two steps; the kernel then kills the workers that
had armed `PR_SET_PDEATHSIG`, and the others become orphans with their positions
kept. SIGTERM to the control group sets `stop_requested` of every process.
Process identifiers are reused after a reap, but not while a handle names one
(the kernel allocates them in a cycle).

In `ConsumerScan` the kernel reports an open before /proc shows the descriptor
and a close after it stopped showing it; the scan takes one step per endpoint.
`missed` records the consumers whose open a scan came too early to see.
The clock counts down to the next fallback scan in units of 200 ms.

`Bridge` lets the two take turns: no event is read while a worker is being
started or terminated, and a scan is not interrupted by an operation.

### Buttress and IsysDevice

One thread at a time authenticates. Each wait can time out although the CSE
still owes the acknowledgement or the answer, and the driver takes back a
command that is still in the doorbell, so stale acknowledgements and answers
reach a later command. `Buttress` has a specification of its own
(`ButtressSpec`: threads call `ipu_buttress_authenticate` whenever they like),
and its actions are part of `IsysDevice`. Both are in secure mode; without it
`ipu_buttress_authenticate` returns at once.

`AuthRecovers` is about what the leftovers of failed attempts do to the later
ones. An acknowledgement of a command that was given up completes the wait of
the next one, whose own answer then comes an attempt too late, and so on. The
property says that this ends: if from some moment on the CSE executes what it is
given, the driver's waits expire only when the CSE owes nothing (`Works`), and
attempts go on, then attempts succeed again and again. Before that moment
everything may fail.

In `IsysDevice` each thread uses a node of its own. A step ends where
`isys->mutex` is given up or the thread sleeps. `wedged` is the hardware's own
state; `reset_needed` is what the driver believes. Two history variables name
the ways in which the two part: `overtaken` (a failure is marked while a power
cycle is past its cut, and the cycle's end clears the mark) and `unreported`
(see *Observations*). A power cut clears both. Of the references `video_open`
takes, the model has the runtime-PM reference of the ISYS, the count of open
nodes and the three mutexes. Those on the IOMMU (`ipu_isys_force_power_cycle`),
the psys IOMMU (`ipu_buttress_authenticate`) and the media pipeline are taken
and put in straight-line code and are not modelled; `RefsBalanced` says nothing
of them.

### IrCapture and AuthCapture

A dequeued buffer is a sequence number, the driver's error flag and a fault
class; `ir_capture_next` accepts, discards or rejects it, and gives it back or
fails to. Sequence numbers wrap at `SeqMod`, as the code's unsigned difference
does. A process is modelled from its `main` to its exit; supervisor and worker
interleave, and the lock belongs to the open file they share. Frames travel in
pieces from the worker's pipe to the supervisor's buffer to the caller, who may
close its end or kill the supervisor at any time and start the next attempt.
`Forward` is one turn of the loop of `forward_bytes`: a write may be short after
any piece, and the loop may go on or fail there. What the caller of a failed
attempt got is checked until the failure and then forgotten.

## Runs

| Run | Bounds | Shows |
|---|---|---|
| `controller` | debounce 1, grace 2, retry 1 (clamped from the first repetition on) | type, accounting, exclusivity, coherence, WirePlumber; debounced open, no stealing, healthy capture kept; service, release and feeding after failures end |
| `controller_rear` (violation) | all periods 1 | the rear request does not win over an active front camera |
| `isys_safety` | 2 buffers, 1 bounce, 2 command and 1 response slots, start, stop and close refusable at will (open and capture when out of order), memory available, 1 waiting QBUF | ownership, vb2 context, quiet pipeline, DMA, nothing stranded on incoming, verified start |
| `isys_liveness` | 1 buffer, 1 command slot, every command refusable, memory may run out | every call returns |
| `isys_stale` (violation) | 1 buffer, 2 command and response slots | a timed-out open is answered later and adopted by the next start |
| `fwcom_fifo` | ring for 2 tokens, 2 messages, 2 in flight | both rings are FIFOs |
| `fwcom_full` (violation) | as above, 3 in flight | the full test of the send side is wrong |
| `bridge` | 1 slot, 1 process, 1 endpoint, queue of 1 event, idle interval of 2 | supervision, orphans, cache freshness; operations end, workers are collected, the mask converges |
| `device` | 2 threads, 1 retry each of command and authentication, 1 command at the CSE | references and locks, firmware context, lost firmware stays marked |
| `device_cut` (violation) | as `device` | the power is cut under a node that is being opened |
| `auth` | 1 thread, 1 retry of a command, 2 commands at the CSE | authentication recovers from leftovers; `auth_mutex` is released |
| `auth_capture` | 2 helper processes, 2 buffers, sequence numbers modulo 3, 1 discard, 2 frames of 2 pieces, pipe of 2 pieces | exclusive capture, whole frames, buffers, termination |

Why the bounds are enough. Two buffers suffice to have one on each of two lists,
or one at the firmware while another is parked; one bounce exercises both the
retry and the exhausted branch; two command slots let a late command of an
abandoned stream precede the first of the next. One QBUF waits for the mutex
while another thread has it; more of them are in the theorems. The controller's
periods keep the order debounce < grace; retries that grow are left to the
theorems, since the liveness check cannot afford them. Two cameras are all there
are. Three ring slots wrap after two messages. One worker slot is enough because
handles interact only by the one thread they share; an orphan that lives on
beside the workers of the next bridge needs a second process, which the liveness
check cannot afford and the theorems of `BridgeProofs` include. A queue of one
event overflows with the second; the two interval lengths differ. Two openers
suffice for every race of an open with an open, a release or a recovery; one
retry reaches both the retried and the exhausted branch. One thread suffices for
`auth`, since `auth_mutex` admits one; two commands at the CSE let the leftovers
of one attempt meet both commands of the next. Two helper processes stand for a
worker left behind and the next attempt; a frame in pieces can straddle two
reads, and two frames wrap the sequence. The safety theorems below hold for all
values.

Fairness. `FairSpec` of the controller makes ticks and time recur: `main()`
polls every 200 ms. `FairSpec` of IsysStream lets the thread that holds the
mutex continue (its waits are timed, its sleeps finite) and lets a waiting QBUF
get the mutex; nothing is asked of firmware, sensor or application.
`CallsReturn` assumes `FastFrames = FALSE`: no frame completes within a pass of
`stream_capture_refeed`. Without it a stream of corrupt frames that fills
incoming as fast as it is emptied would keep that loop busy; a frame takes tens
of milliseconds, a pass microseconds. `FairSpec` of Bridge lets the thread of
`main()` go on, and each of the things a tick does recur (strong fairness: one
is disabled while another runs); a worker gets through `prctl` and `getppid`,
leaves its poll loop when told to and dies of SIGKILL in the end; an open or
close that the kernel has begun is finished; time passes. Nothing is assumed of
`media_backend_start`, of consumers or of the service manager. `ButtressSpec`
lets the thread that holds `auth_mutex` go on, since all its waits have
timeouts; nothing is assumed of the CSE except as the antecedent of
`AuthRecovers`. `FairSpec` of AuthCapture lets both processes go on and the
deadline come, which includes that the driver returns from STREAMON and
STREAMOFF; nothing is assumed of what the camera delivers. Forwarding is fair
because the caller reads or closes its end; a caller that does neither is an
observation below.

## Findings

1. `docs/back-camera.md:151` says that the rear request wins if both endpoints
   are open. `requested_camera` (`controller.c:263`) keeps the active camera.
2. A STREAM_OPEN that times out (`K/ipu-isys-video.c:1795`) releases its handle
   without CLOSE and without `reset_needed`. Its late answer completes the open
   of the next STREAMON, whose own OPEN is refused; the stream runs with the
   configuration of the failed start. `tests/task29-stream-lifecycle-static.sh`
   states that a later STREAMON cannot reuse a stale pipeline.
3. `ipu_send_get_token` (`K/ipu-fw-com.c:407`) passes `wr + 1` unwrapped to
   `num_free`, grants a token when the ring is full, and publication then makes
   the ring look empty. Its caller (`ipu-fw-psys.c`) is not built with `FW_LIB`.
4. `video_open` defers a recovery "while streams are open"
   (`K/ipu-isys-video.c:276`), and the manual trigger is "rejected while a video
   or stream handle is open"
   (`reports/WINDOWS-RECEIVER-INIT-DIFF-20260914.md:184`). Both look at
   `video_opened` only on entry; `ipu_isys_force_power_cycle` tests
   `reset_needed` again but not `video_opened` (`K/ipu-isys.c:61`), so a thread
   that was already past its own test opens its node before the power is cut.

## Observations

What the models make visible beyond the findings. None contradicts a statement of
the repository in a way a run of this project refutes; the properties name them
as their exceptions.

- `ipu_fw_isys_init` closes a firmware that does not get ready and drops the
  result (`libintel-ipu4p.c:146`). A release that times out there leaves
  `reset_needed` clear, though "a timed-out firmware release leaves the ISYS
  context unusable" (`K/ipu-isys.c:64`), and the next open skips the power cycle
  (`unreported`).
- A stream or a firmware that is lost while a power cycle is past its cut, which
  takes the race of finding 4, is marked and forgotten at the cycle's end
  (`overtaken`).
- A capture whose stop failed stays active. When its consumer returns, the tick
  stops the old worker and starts a new one at once: `controller.c:404` debounces
  only a change of camera. `OpensOnlyForSteadyConsumer` names this start.
- Every response overwrites `ip->error`. A frame that arrives between a refused
  STREAM_STOP and the test of the error makes the stop look accepted; the driver
  then closes a stream that still runs. No buffer is endangered by it (see
  *Proofs*).
- inotify reports an open before /proc shows it; a scan in that window misses the
  consumer until the next event (`missed`). A failed scan of /proc is cached as
  "no consumer" in the same way. The fallback interval is computed from the mask
  before the scan, so the first scan after a consumer came still schedules the
  next one after a second.
- `terminate_worker` may take two timeouts and an unlimited `waitpid`, during
  which the bridge's one thread does nothing else. `backend_poll` judges
  `errno` without setting it, so a death that coincides with a signal is
  reported by the next poll only.
- `forward_bytes` writes up to 64 KiB to a blocking descriptor; a caller that
  neither reads nor closes holds the supervisor past its three seconds. A
  supervisor that is killed sends its worker no signal; if the camera delivers
  nothing, the worker keeps polling and keeps the lock. `HelperEnds` therefore
  speaks of supervisors that return.

## Proofs

Assumptions: `TimingAssumption` (positive periods), `IsysAssumption` (finite
buffers, natural bounds), `SupervisorAssumption`, `ScanAssumption`,
`ButtressAssumption`, `DeviceAssumption` and `CaptureAssumption` (finite sets, a
null value outside them, positive bounds) and `FwComAssumption` (a ring of
positive size, a null token outside `Msgs`); TLC evaluates all of them. Two
theorems have a hypothesis of their own. `SendRefines` needs `Limit <=
QueueSize`: a caller that keeps more tokens in flight than the ring holds is
finding 3, which `fwcom_full` shows. `FeedKeepsUp` needs `~NoMem` (`isys_safety`
has it, `isys_liveness` has not): after a failed `ipu_get_fw_msg_buf` the driver
leaves the buffer on incoming until the next QBUF, on purpose. Both are
instances the passing runs check.

*CameraControllerProofs.* `Sane` (type, workers match handles, no endpoint has
filler and capture, `wireplumber_stopped` tells the truth) holds even inside a
tick; `Coherent` (state, active and handle agree) only between ticks. Each C
function has one lemma of the form "from a sane controller with this
precondition every result is sane and has this postcondition"; the induction
step composes them as the code composes the functions. The action properties
`DebouncedOpen` and `HeldCamera` follow from the same lemmas, whose
postconditions say which camera a step may start or leave. `DebouncedOpen` is
about starts and not about net counts: `opened` is cleared at the head of a tick
(`TickBegins`) and every function says what it may set it to, up to the two
branches that reach `transition` (`MayStart`). `HealthyCapture`
adds what the code does when every op succeeds: the filler loop leaves the roles
and the timers alone (`SameRole`), and of the two branches of the tick only the
expired grace period and the debounced other camera reach `transition`.

*IsysStreamProofs.* `OwnedOnce` is not inductive: taking a buffer overwrites the
list in hand, which loses a buffer unless the list is empty there; releasing a
handle twice or flushing a list that another owner fills must be excluded by
where the thread stands. `IInv` therefore adds, label by label, which vb2 call
runs (`Calls`), what vb2 owns (`Context`), what is in hand (`InHand`), how far
the pipeline is up (`Pipeline`), who has the handle (`Ownership`) and what a
verification has seen (`Verified`). One lemma per action shows that it is
preserved.

*IsysStreamFirmwareProofs* builds on that invariant. `TypeOK` needs that a bounce
and the refeed after it have a retry left (`Counts`). `NothingStranded` becomes
inductive as `Fed`, which says for each label how many buffers of incoming may
lack a waiting QBUF. `DmaOnlyWhileActive` holds whichever commands the firmware
refuses; the run allows itself three of the five. It is the consequence of `DInv`,
an invariant of the device while it is not marked for a reset:

- a buffer in flight (on the command queue, at the firmware or on the response
  queue) is in exactly one of these places and active (`Once`, `Live`), so the
  response that takes it off active was its last mention;
- nothing is in flight before STREAM_START and after the close (`DrainedAt`), and
  until `ip->streaming` is set only the start buffer is (`Alone`);
- `Closing` follows the STREAM_CLOSE through command queue, response queue and
  completion, up to: if the driver sees it complete without an error, nothing is
  in flight.

The last point is the delicate one, because `isys_isr_one` overwrites `ip->error`
with every response: a frame that follows a refused close clears the error, and
the wait succeeds. What saves the buffers is that a regular stop has stopped the
sensor before it closes (`Silent`), and that an unwinding, which closes first, has
only the start buffer in flight, so the frame that clears the error was the last.

*BridgeProofs.* The invariant has a half per component; a step of one leaves the
other unchanged. `SupInv` adds to `EveryWorkerSupervised` that an operation under
way has a worker, without which `terminate_worker` would clear the entry of a
slot that names none and the reaped process could be another one's. `ScanInv`
says of a running scan what `StaleOnlyWithEvent` says of a finished one, about
the endpoints already looked at; opens that have been reported but are not yet in
/proc must be among `missed`, since they become visible without a further event.

*IsysDeviceProofs.* `RefsBalanced` is proved first, with the cardinality facts
about the threads at a set of positions; it turns `video_opened` and the locks
into statements about where threads are. `Alone` (the first opener and the last
closer are alone) gives `OpenHasFirmware`. `FailureRemembered` is not inductive:
the end of a power cycle clears `reset_needed`. `CutHeals` says why this is right:
from the cut on, while the cycle runs, hardware is wedged again only through one
of the two holes. It needs `recovery_mutex`, which keeps a second cycle out, and
that every mark made in that time is recorded. That there is no third hole is
what `FailureKept` shows.

The types follow from these with the counters and the contents of the CSE channel
(`ChannelTypes`).

*AuthCaptureProofs.* Holding the lock is exclusive; every step but `Invoke` can
only give it up, and a live worker holds it. `FramesDelivered` looks at one
sequence per helper: what the caller got, followed by what the supervisor holds,
followed by what is in the pipe (`Stream`). Reads and writes only move the borders
inside it, piece by piece (`ConcatMove`), and the worker appends to it, so that `FrameInv` can say of the whole
what `SuccessMeansFrames` says of its beginning: the pieces are in order, and their
number is the worker's progress. With the end of file seen only after the worker
ended, a success then has every piece.

*FwComProofs.* The mapping takes a ring to the slots between its indexes
(`Contents`). Lemmas say what moving the read or the write index by one modulo the
ring size does to it, when it is empty and when it is full; with `RecvInv` and
`SendInv` (a token being handled means the ring is not empty; the token the driver
has filled and not published is in the write slot, and fits within `Limit`) each step of `FwCom` is a step of `TokenQueue` or a stutter.

Only model-checked: the liveness properties (`ConsumerServed`, `CameraReleased`,
`EndpointsFed`, `CallsReturn`, `OperationsReturn`, `WorkersCollected`,
`MaskConverges`, `AuthRecovers`, `AuthEnds`, `HelperEnds`), because fairness is
out of reach of the prover, and the four violations. Every invariant and every
action property of a passing run has its theorem.

## Not modelled

- ISYS: pipelines with several capture nodes (start and stop of one against
  another, flush of the others' buffers); the windows in which `start_streaming`
  has given up `av->mutex` and vb2 has not yet set its streaming flag; a sensor
  that survives a power cycle switched on; the message pool beyond its
  exhaustion; `isys->stream_opened`; PCI function-level reset and system suspend;
  the CSI-2 stream counts. `IsysStream` has open and power cycle as single steps,
  `IsysDevice` interleaves them but has no streams.
- Buttress: non-secure mode, the IPC reset at probe, power-state polling, the ISH channel, TSC
  synchronisation and frequency control.
- IR: graph discovery and format negotiation (sequences of ioctls without shared
  state), the RAW10 decoder (a pixel loop; a frame is accepted or rejected), and
  the loop of `ir-camera-bridge.c`.
- Bridge: SIGKILL refused by the kernel, the values of `query_format`.
- PSYS, MMU and DMA mapping, PCI core, package loader, sensor and the drivers of
  other IPUs: not on the raw capture path, sequential at probe, or upstream code.
- The CSS host libraries are vendored Intel code in two copies and most of the
  repository's lines. They are modelled only as the driver uses them, which is
  why the share of all lines that the map covers stays small.

## Plan

1. Done: `CameraController`, `IsysStream`, `FwCom`/`TokenQueue`; `Bridge` with its
   two components; `IsysDevice` with `Buttress`; `AuthCapture` with `IrCapture`.
   Every safety property of a passing run is proved for all constants, and so is
   the refinement of `TokenQueue`.
2. Proofs that remain worth having: the step invariants liveness rests on (that
   the thread of `IsysStream` which holds the mutex always has a step, that every
   path through the labels gets shorter or uses up a retry), stated as safety.
3. Models that remain worth having: liveness of opens and recoveries (the three
   mutexes of `IsysDevice`), the multi-queue pipeline, the firmware message
   pool, the CSI-2 stream counts, the loop of the IR service.
