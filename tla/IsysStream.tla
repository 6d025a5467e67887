----------------------------- MODULE IsysStream -----------------------------
(***************************************************************************)
(* The capture path of the IPU4P input system (ISYS) for one pipeline with *)
(* one capture node: the videobuf2 callbacks of ipu-isys-queue.c, the      *)
(* firmware stream life cycle of ipu-isys-video.c and the response handler *)
(* of ipu-isys.c.                                                          *)
(*                                                                         *)
(* Four parties interleave: the threads of the application (QBUF, STREAMON *)
(* and STREAMOFF; av->mutex lets one of them at a time past the first list *)
(* operation), the interrupt handler isys_isr_one, the firmware and the    *)
(* sensor.  pc is the position of the thread that holds av->mutex.  A step *)
(* ends where the code gives up a spinlock, sends a command or sleeps.     *)
(*                                                                         *)
(* Lists are sets: no property depends on their order.  The media-request  *)
(* path is left out because the driver registers no request operations,    *)
(* and interlaced short packets because the sensors are progressive.       *)
(***************************************************************************)
EXTENDS Naturals, Sequences, FiniteSets

CONSTANTS
    Bufs,        \* the vb2 buffers of the capture node
    NoBuf,       \* "no buffer" in a command or a response
    MaxRetry,    \* sensor bounces of verify_stream_start (30 in the code)
    CmdSlots,    \* capacity of the firmware command queue
    RespSlots,   \* capacity of the firmware response queue
    MaxWaiters,  \* QBUF calls that may wait for av->mutex at once
    Refuses,     \* the commands the firmware may answer with an error
    NoMem,       \* may ipu_get_fw_msg_buf run out of memory?
    FastFrames   \* may a frame complete while stream_capture_refeed runs?

Acks == {"open", "start", "stop", "close"}
Commands == Acks \cup {"capture"}

ASSUME IsysAssumption ==
    /\ IsFiniteSet(Bufs) /\ NoBuf \notin Bufs
    /\ MaxRetry \in Nat /\ CmdSlots \in Nat /\ RespSlots \in Nat
    /\ MaxWaiters \in Nat
    /\ Refuses \subseteq Commands
    /\ NoMem \in BOOLEAN /\ FastFrames \in BOOLEAN

VARIABLES
    \* videobuf2
    opened,       \* the node is open (video_opened, firmware initialised)
    own,          \* per buffer: "app", "queued" in vb2, or "driver"
    vq,           \* the vb2 queue: "off", "starting" (callback runs), "on"
    waiters,      \* buf_queue calls between list_add and mutex_lock
    \* struct ipu_isys_queue and the buffer list on the stack
    incoming, active, bl,
    \* struct ipu_isys_pipeline
    attached,     \* nr_streaming = 1 and aq on ip->queues
    streaming, error, completions, verify_active,
    clean,        \* frames_done differs from frames_done_before_start
    \* struct ipu_isys, the sub-devices and the sensor
    handle,       \* pipes[stream_handle] = ip and stream_opened counted
    reset_needed, subdevs,
    sensor,       \* s_stream(1) was called and not undone
    \* the thread that holds av->mutex
    pc, caller, sub, msg, retry,
    \* firmware (external)
    cmds, resps,
    fw,           \* the firmware stream: "closed", "open", "started"
    mine,         \* the stream was opened by the present owner of handle
    held          \* buffers the firmware may write

bufVars == <<own, incoming, active, bl>>
vbVars == <<opened, vq, waiters>>
ackVars == <<error, completions>>
verVars == <<verify_active, clean, retry>>
hwVars == <<handle, reset_needed, subdevs, sensor>>
runVars == <<attached, streaming>>
callVars == <<caller, sub, msg>>
fwVars == <<cmds, resps, fw, mine, held>>
vars == <<bufVars, vbVars, ackVars, verVars, hwVars, runVars, pc, callVars,
          fwVars>>

Labels == {"idle", "subdevs", "fw_open", "open_wait", "fw_start",
           "start_send", "start_wait", "out_close", "out_close_wait",
           "sensor_on", "take", "activate", "send", "verify", "verify_wait",
           "bounce", "verify_end", "fw_stop", "stop_wait", "fw_close",
           "close_wait", "sensor_off", "subdevs_off", "stopped", "requeue",
           "return"}

TypeOK ==
    /\ own \in [Bufs -> {"app", "queued", "driver"}]
    /\ opened \in BOOLEAN /\ vq \in {"off", "starting", "on"}
    /\ waiters \in 0..MaxWaiters
    /\ incoming \subseteq Bufs /\ active \subseteq Bufs /\ bl \subseteq Bufs
    /\ attached \in BOOLEAN /\ streaming \in BOOLEAN
    /\ error \in BOOLEAN /\ completions \subseteq Acks
    /\ verify_active \in BOOLEAN /\ clean \in BOOLEAN
    /\ handle \in BOOLEAN /\ reset_needed \in BOOLEAN
    /\ subdevs \in BOOLEAN /\ sensor \in BOOLEAN
    /\ pc \in Labels
    /\ caller \in {"start", "qbuf", "stop"}
    /\ sub \in {"feed", "refeed", "final", "fail", "qbuf"}
    /\ msg \in Bufs \cup {NoBuf}
    /\ retry \in 0..MaxRetry
    /\ cmds \in Seq([type : Commands, buf : Bufs \cup {NoBuf}, old : BOOLEAN])
    /\ resps \in Seq([type : Commands \cup {"pin"}, buf : Bufs \cup {NoBuf},
                      err : BOOLEAN])
    /\ fw \in {"closed", "open", "started"}
    /\ mine \in BOOLEAN /\ held \subseteq Bufs

Init ==
    /\ own = [b \in Bufs |-> "app"] /\ waiters = 0
    /\ opened = FALSE /\ vq = "off"
    /\ incoming = {} /\ active = {} /\ bl = {}
    /\ attached = FALSE /\ streaming = FALSE
    /\ error = FALSE /\ completions = {}
    /\ verify_active = FALSE /\ clean = FALSE /\ retry = 0
    /\ handle = FALSE /\ reset_needed = FALSE
    /\ subdevs = FALSE /\ sensor = FALSE
    /\ pc = "idle" /\ caller = "start" /\ sub = "feed" /\ msg = NoBuf
    /\ cmds = << >> /\ resps = << >> /\ fw = "closed"
    /\ mine = FALSE /\ held = {}
-----------------------------------------------------------------------------
(***************************************************************************)
(* Helpers shared by the callbacks.                                        *)
(***************************************************************************)

\* vb2_buffer_done on every buffer of S.
buffer_done(S, state) ==
    own' = [b \in Bufs |-> IF b \in S THEN state ELSE own[b]]

\* ipu_fw_isys_simple_cmd and ipu_fw_isys_complex_cmd.  The send may fail,
\* and does when the firmware has not made room in the command queue.
SendOk(type, b) ==
    /\ Len(cmds) < CmdSlots
    /\ cmds' = Append(cmds, [type |-> type, buf |-> b, old |-> FALSE])
    /\ UNCHANGED <<resps, fw, mine, held>>
SendFails == UNCHANGED fwVars

reinit_completion(c) ==
    /\ completions' = completions \ {c}
    /\ UNCHANGED error

\* Mutant: wait_for_completion, which does not time out.
WaitFailsUntimed(c) == c \in completions /\ error

\* wait_for_completion_timeout and the test of ip->error after it.  The
\* wait may expire at any moment before the interrupt handler completes it.
WaitOk(c) == c \in completions /\ ~error
WaitFails(c) == c \notin completions \/ error

\* put_stream_opened and put_stream_handle.  What the firmware still has of
\* the stream now belongs to nobody.
release_streaming_firmware ==
    /\ handle' = FALSE
    /\ mine' = FALSE
    /\ cmds' = [i \in DOMAIN cmds |-> [cmds[i] EXCEPT !.old = TRUE]]
    /\ UNCHANGED <<resps, fw, held>>

\* Mutant: the stream is given up without mark_stream_reset_needed.
AbandonUnmarked ==
    /\ UNCHANGED reset_needed
    /\ release_streaming_firmware

\* mark_stream_reset_needed followed by the release.
AbandonStream ==
    /\ reset_needed' = TRUE
    /\ release_streaming_firmware

\* set_streaming(1) is being undone, as opposed to a set_streaming(0).
Unwinding == caller # "stop" /\ ~streaming

At(label) == pc = label
Goto(label) == pc' = label
-----------------------------------------------------------------------------
(***************************************************************************)
(* The videobuf2 entry points.                                             *)
(***************************************************************************)

\* The firmware as ipu_fw_isys_init, a device close or a power cycle leaves it.
FreshFirmware ==
    /\ cmds' = << >> /\ resps' = << >>
    /\ fw' = "closed" /\ mine' = FALSE /\ held' = {}

\* video_open.  A pending reset is served first: ipu_isys_force_power_cycle
\* clears it once the power island has gone down and come up.  The open may
\* still fail afterwards, in ipu_fw_isys_init or before it.
video_open ==
    /\ ~opened
    /\ reset_needed' = FALSE
    /\ opened' \in BOOLEAN
    /\ FreshFirmware
    /\ UNCHANGED <<bufVars, vq, waiters, ackVars, verVars, handle, subdevs,
                   sensor, runVars, pc, callVars>>

\* video_release of the last file handle, after vb2 stopped the queue and
\* freed its buffers.  The firmware is closed unless a reset is pending.
video_release ==
    /\ opened /\ At("idle") /\ vq = "off" /\ waiters = 0
    /\ opened' = FALSE
    /\ buffer_done(Bufs, "app")
    /\ \/ ~reset_needed /\ FreshFirmware /\ UNCHANGED reset_needed
       \/ reset_needed' = TRUE /\ UNCHANGED fwVars
    /\ UNCHANGED <<incoming, active, bl, vq, waiters, ackVars, verVars,
                   handle, subdevs, sensor, runVars, pc, callVars>>

\* VIDIOC_QBUF.  Before STREAMON vb2 keeps the buffer; afterwards __buf_queue
\* links it on incoming, gives up av->mutex and takes pipe_av->mutex.
QBuf(b) ==
    /\ At("idle") /\ opened /\ own[b] = "app"
    /\ \/ /\ vq = "off"
          /\ buffer_done({b}, "queued")
          /\ UNCHANGED <<incoming, waiters>>
       \/ /\ vq = "on" /\ waiters < MaxWaiters
          /\ buffer_done({b}, "driver")
          /\ incoming' = incoming \cup {b}
          /\ waiters' = waiters + 1
    /\ UNCHANGED <<active, bl, opened, vq, ackVars, verVars, hwVars, runVars,
                   pc, callVars, fwVars>>

\* ipu_isys_stream_start up to the first step of set_streaming(1).
StreamStart(b, who) ==
    /\ bl' = {b}
    /\ caller' = who
    /\ clean' = FALSE
    /\ Goto("subdevs")
    /\ UNCHANGED <<sub, msg, verify_active, retry>>

\* The part of __buf_queue that runs once it holds the mutex.
buf_queue ==
    /\ At("idle") /\ waiters > 0
    /\ waiters' = waiters - 1
    /\ \/ /\ ~attached \/ incoming = {}
          /\ UNCHANGED <<incoming, bl, pc, callVars, verVars>>
       \/ /\ attached /\ ~streaming
          /\ \E b \in incoming :
                /\ incoming' = incoming \ {b}
                /\ StreamStart(b, "qbuf")
       \/ /\ attached /\ streaming /\ incoming # {}
          /\ caller' = "qbuf" /\ sub' = "qbuf"
          /\ Goto("take")
          /\ UNCHANGED <<incoming, bl, msg, verVars>>
    /\ UNCHANGED <<own, active, opened, vq, ackVars, hwVars, runVars, fwVars>>

\* VIDIOC_STREAMON: vb2 hands every queued buffer to the driver and calls
\* start_streaming, which postpones the stream when it has no buffer.  A
\* STREAMON that fails in prepare_streaming or in the format check gives
\* the buffers back at once and leaves this state as it was.
start_streaming ==
    LET given == {b \in Bufs : own[b] = "queued"}
        pending == incoming \cup given
    IN  /\ At("idle") /\ opened /\ vq = "off"
        /\ buffer_done(given, "driver")
        /\ attached' = TRUE
        /\ \/ /\ pending = {}
              /\ vq' = "on"
              /\ UNCHANGED <<incoming, bl, pc, callVars, verVars>>
           \/ /\ vq' = "starting"
              /\ \E b \in pending :
                    /\ incoming' = pending \ {b}
                    /\ StreamStart(b, "start")
        /\ UNCHANGED <<active, opened, waiters, ackVars, hwVars, streaming,
                       fwVars>>

\* VIDIOC_STREAMOFF.
stop_streaming ==
    /\ At("idle") /\ vq = "on"
    /\ caller' = "stop"
    /\ Goto(IF attached /\ streaming THEN "fw_stop" ELSE "stopped")
    /\ UNCHANGED <<bufVars, vbVars, ackVars, verVars, hwVars, runVars, sub,
                   msg, fwVars>>
-----------------------------------------------------------------------------
(***************************************************************************)
(* ipu_isys_video_set_streaming(1).                                        *)
(***************************************************************************)

\* The internal sub-devices; a failure has undone the ones already on.
SubdevsOn ==
    /\ At("subdevs")
    /\ \/ subdevs' = TRUE /\ Goto("fw_open")
       \/ subdevs' = FALSE /\ Goto("requeue")
    /\ UNCHANGED <<bufVars, vbVars, ackVars, verVars, runVars, callVars,
                   handle, reset_needed, sensor, fwVars>>

\* start_stream_firmware: configuration, handle and STREAM_OPEN.
FwOpen ==
    /\ At("fw_open")
    /\ \/ /\ handle' = TRUE
          /\ reinit_completion("open")
          /\ SendOk("open", NoBuf)
          /\ Goto("open_wait")
       \/ /\ SendFails
          /\ Goto("subdevs_off")
          /\ UNCHANGED <<handle, ackVars>>
    /\ UNCHANGED <<bufVars, vbVars, verVars, runVars, callVars,
                   reset_needed, subdevs, sensor>>

OpenWait ==
    /\ At("open_wait")
    /\ \/ /\ WaitOk("open")
          /\ Goto("fw_start")
          /\ UNCHANGED <<handle, fwVars>>
       \/ /\ WaitFails("open")
          /\ release_streaming_firmware
          /\ Goto("subdevs_off")
    /\ UNCHANGED <<bufVars, vbVars, ackVars, verVars, runVars, callVars,
                   reset_needed, subdevs, sensor>>

\* The start buffer goes on the active list before the command is sent.
FwStart ==
    /\ At("fw_start")
    /\ \/ \E b \in bl :
             /\ msg' = b
             /\ active' = active \cup {b}
             /\ bl' = bl \ {b}
             /\ reinit_completion("start")
             /\ Goto("start_send")
       \/ /\ NoMem
          /\ Goto("out_close")
          /\ UNCHANGED <<msg, active, bl, ackVars>>
    /\ UNCHANGED <<own, incoming, vbVars, verVars, hwVars, runVars, caller,
                   sub, fwVars>>

StartSend ==
    /\ At("start_send")
    /\ \/ SendOk("start", msg) /\ Goto("start_wait")
       \/ SendFails /\ Goto("out_close")
    /\ UNCHANGED <<bufVars, vbVars, ackVars, verVars, hwVars, runVars,
                   callVars>>

StartWait ==
    /\ At("start_wait")
    /\ \/ WaitOk("start") /\ Goto("sensor_on")
       \/ WaitFails("start") /\ Goto("out_close")
    /\ UNCHANGED <<bufVars, vbVars, ackVars, verVars, hwVars, runVars,
                   callVars, fwVars>>

\* STREAM_CLOSE of a stream that did not start, and close_streaming_firmware.
CloseSend(from, wait, after) ==
    /\ At(from)
    /\ reinit_completion("close")
    /\ \/ /\ SendOk("close", NoBuf)
          /\ Goto(wait)
          /\ UNCHANGED <<handle, reset_needed>>
       \/ AbandonStream /\ Goto(after)
    /\ UNCHANGED <<bufVars, vbVars, verVars, runVars, callVars, subdevs,
                   sensor>>

CloseWaited(wait, after) ==
    /\ At(wait)
    /\ Goto(after)
    /\ \/ /\ WaitOk("close")
          /\ release_streaming_firmware
          /\ UNCHANGED reset_needed
       \/ WaitFails("close") /\ AbandonStream
    /\ UNCHANGED <<bufVars, vbVars, ackVars, verVars, runVars, callVars,
                   subdevs, sensor>>

OutClose == CloseSend("out_close", "out_close_wait", "subdevs_off")
OutCloseWait == CloseWaited("out_close_wait", "subdevs_off")

\* The receiver check, s_stream(1) and the second receiver check; on success
\* ipu_isys_stream_start sets ip->streaming and starts to feed buffers.
\* ("SKIP s_stream(1)" is for a receiver that waits for further virtual
\* channels; with one pipeline remote_streams equals stream_count.)
SensorOn ==
    /\ At("sensor_on")
    /\ \/ /\ sensor' \in BOOLEAN
          /\ Goto("fw_stop")
          /\ UNCHANGED <<streaming, sub>>
       \/ /\ sensor' = TRUE
          /\ streaming' = TRUE
          /\ sub' = "feed"
          /\ Goto("take")
    /\ UNCHANGED <<bufVars, vbVars, ackVars, verVars, attached, caller, msg,
                   handle, reset_needed, subdevs, fwVars>>
-----------------------------------------------------------------------------
(***************************************************************************)
(* STREAM_CAPTURE: take a buffer off incoming, link it on active, send it. *)
(* sub says which loop runs: the feed of ipu_isys_stream_start, the refeed *)
(* after a bounce, the refeed that ends a successful ("final") or failed   *)
(* ("fail") verification, or the single submission of __buf_queue.         *)
(***************************************************************************)

\* The call returns 0 to vb2, which counts a finished start as streaming.
Succeed ==
    /\ Goto("idle")
    /\ vq' = IF caller = "start" THEN "on" ELSE vq

\* buffer_list_get found incoming empty.
NoData ==
    CASE sub = "feed" -> Goto("verify") /\ UNCHANGED <<vq, retry>>
      [] sub = "refeed" -> /\ Goto("verify_wait")
                           /\ retry' = retry + 1
                           /\ UNCHANGED vq
      [] sub \in {"final", "qbuf"} -> Succeed /\ UNCHANGED retry
      [] sub = "fail" -> Goto("fw_stop") /\ UNCHANGED <<vq, retry>>

\* Where a failed submission goes.
SubmitFailed ==
    /\ Goto(CASE sub = "refeed" -> "verify_end"
              [] sub = "qbuf" -> "idle"
              [] OTHER -> "fw_stop")
    /\ sub' = IF sub = "refeed" THEN "fail" ELSE sub

buffer_list_get ==
    /\ At("take")
    /\ \/ /\ incoming = {}
          /\ NoData
          /\ UNCHANGED <<incoming, bl, sub>>
       \/ /\ \E b \in incoming :
                incoming' = incoming \ {b} /\ bl' = {b}
          /\ Goto("activate")
          /\ UNCHANGED <<vq, retry, sub>>
       \/ /\ NoMem
          /\ \E b \in incoming :
                IF sub = "feed"
                THEN incoming' = incoming \ {b} /\ bl' = {b}
                ELSE UNCHANGED <<incoming, bl>>
          /\ SubmitFailed
          /\ UNCHANGED <<vq, retry>>
    /\ UNCHANGED <<own, active, opened, waiters, ackVars, verify_active,
                   clean, hwVars, runVars, caller, msg, fwVars>>

\* The buffer is active before the firmware can give it back.
CaptureActivate ==
    /\ At("activate")
    /\ \E b \in bl :
          /\ msg' = b
          /\ active' = active \cup {b}
          /\ bl' = bl \ {b}
    /\ Goto("send")
    /\ UNCHANGED <<own, incoming, vbVars, ackVars, verVars, hwVars, runVars,
                   caller, sub, fwVars>>

\* A running stream returns the rejected buffer with an error if it is
\* still active (buffer_list_active_error); the others leave it to the
\* rollback.
CaptureSend ==
    /\ At("send")
    /\ \/ /\ SendOk("capture", msg)
          /\ Goto(IF sub = "qbuf" THEN "idle" ELSE "take")
          /\ UNCHANGED <<own, active, sub>>
       \/ /\ SendFails
          /\ SubmitFailed
          /\ IF sub = "qbuf"
             THEN /\ buffer_done(active \cap {msg}, "app")
                  /\ active' = active \ {msg}
             ELSE UNCHANGED <<own, active>>
    /\ UNCHANGED <<incoming, bl, vbVars, ackVars, verVars, hwVars, runVars,
                   caller, msg>>

\* verify_stream_start: a stream counts as started only once the firmware
\* has delivered a frame without an error.  (Its early success without CSI-2
\* receiver or external sensor, or for interlaced capture, does not occur here.)
Verify ==
    /\ At("verify")
    /\ \/ clean /\ Succeed /\ UNCHANGED <<verify_active, retry>>
       \/ /\ ~clean
          /\ verify_active' = TRUE
          /\ retry' = 0
          /\ Goto("verify_wait")
          /\ UNCHANGED vq
    /\ UNCHANGED <<bufVars, opened, waiters, ackVars, clean, hwVars, runVars,
                   callVars, fwVars>>

\* Mutant: the sensor is bounced once too often.
VerifyWaitUnbounded ==
    /\ At("verify_wait")
    /\ \/ clean /\ sub' = "final" /\ Goto("verify_end")
       \/ ~clean /\ Goto("bounce") /\ UNCHANGED sub
    /\ UNCHANGED <<bufVars, vbVars, ackVars, verVars, hwVars, runVars,
                   caller, msg, fwVars>>

\* Mutant: exhausted retries count as a start.
VerifyWaitLenient ==
    /\ At("verify_wait")
    /\ \/ (clean \/ retry = MaxRetry) /\ sub' = "final" /\ Goto("verify_end")
       \/ ~clean /\ retry < MaxRetry /\ Goto("bounce") /\ UNCHANGED sub
    /\ UNCHANGED <<bufVars, vbVars, ackVars, verVars, hwVars, runVars,
                   caller, msg, fwVars>>

VerifyWait ==
    /\ At("verify_wait")
    /\ \/ clean /\ sub' = "final" /\ Goto("verify_end")
       \/ ~clean /\ retry = MaxRetry /\ sub' = "fail" /\ Goto("verify_end")
       \/ ~clean /\ retry < MaxRetry /\ Goto("bounce") /\ UNCHANGED sub
    /\ UNCHANGED <<bufVars, vbVars, ackVars, verVars, hwVars, runVars,
                   caller, msg, fwVars>>

\* s_stream(0) and s_stream(1) of the sensor; either may fail.
Bounce ==
    /\ At("bounce")
    /\ \/ sub' = "refeed" /\ Goto("take")
       \/ sub' = "fail" /\ Goto("verify_end")
    /\ UNCHANGED <<bufVars, vbVars, ackVars, verVars, hwVars, runVars,
                   caller, msg, fwVars>>

VerifyEnd ==
    /\ At("verify_end")
    /\ verify_active' = FALSE
    /\ Goto("take")
    /\ UNCHANGED <<bufVars, vbVars, ackVars, clean, retry, hwVars, runVars,
                   callVars, fwVars>>
-----------------------------------------------------------------------------
(***************************************************************************)
(* Stopping: set_streaming(0) from STREAMOFF or from a failed start, and   *)
(* the unwinding of set_streaming(1), which closes before it stops the     *)
(* sensor.                                                                 *)
(***************************************************************************)

\* stop_streaming_firmware.
FwStop ==
    /\ At("fw_stop")
    /\ reinit_completion("stop")
    /\ \/ /\ SendOk("stop", NoBuf)
          /\ Goto("stop_wait")
          /\ UNCHANGED <<handle, reset_needed>>
       \/ AbandonStream /\ Goto("sensor_off")
    /\ UNCHANGED <<bufVars, vbVars, verVars, runVars, callVars, subdevs,
                   sensor>>

StopWait ==
    /\ At("stop_wait")
    /\ \/ /\ WaitOk("stop")
          /\ Goto(IF Unwinding THEN "fw_close" ELSE "sensor_off")
          /\ UNCHANGED <<handle, reset_needed, fwVars>>
       \/ /\ WaitFails("stop")
          /\ AbandonStream
          /\ Goto("sensor_off")
    /\ UNCHANGED <<bufVars, vbVars, ackVars, verVars, runVars, callVars,
                   subdevs, sensor>>

\* close_streaming_firmware.
AfterClose == IF Unwinding THEN "sensor_off" ELSE "stopped"
FwClose == CloseSend("fw_close", "close_wait", AfterClose)
CloseWait == CloseWaited("close_wait", AfterClose)

\* stop_external_sensor; the unwinding skips a sensor it did not start.
SensorOff ==
    /\ At("sensor_off")
    /\ Goto("subdevs_off")
    /\ \/ sensor' = FALSE /\ UNCHANGED reset_needed
       \/ (sensor \/ ~Unwinding) /\ reset_needed' = TRUE /\ UNCHANGED sensor
    /\ UNCHANGED <<bufVars, vbVars, ackVars, verVars, runVars, callVars,
                   handle, subdevs, fwVars>>

\* The sub-devices of the ISYS are switched off.  A disable that fails is
\* passed over and so not told apart here from one that succeeds.
SubdevsOff ==
    /\ At("subdevs_off")
    /\ subdevs' = FALSE
    /\ Goto(CASE Unwinding -> "requeue"
              [] ~Unwinding /\ handle -> "fw_close"
              [] OTHER -> "stopped")
    /\ UNCHANGED <<bufVars, vbVars, ackVars, verVars, runVars, callVars,
                   handle, reset_needed, sensor, fwVars>>

\* Mutant: a failed start leaves the software pipeline streaming.
StoppedStreaming ==
    /\ At("stopped")
    /\ IF caller = "stop"
       THEN streaming' = FALSE /\ attached' = FALSE /\ Goto("return")
       ELSE UNCHANGED runVars /\ Goto("requeue")
    /\ UNCHANGED <<bufVars, vbVars, ackVars, verVars, hwVars, callVars,
                   fwVars>>

\* The software pipeline after a set_streaming(0), whatever it returned.
Stopped ==
    /\ At("stopped")
    /\ streaming' = FALSE
    /\ IF caller = "stop"
       THEN attached' = FALSE /\ Goto("return")
       ELSE UNCHANGED attached /\ Goto("requeue")
    /\ UNCHANGED <<bufVars, vbVars, ackVars, verVars, hwVars, callVars,
                   fwVars>>

\* Mutant: the buffers given back with an error stay linked on incoming.
RequeueLinked ==
    /\ At("requeue")
    /\ bl' = {} /\ active' = {}
    /\ incoming' = incoming \cup bl
    /\ IF caller = "start"
       THEN buffer_done(active, "queued") /\ Goto("return")
       ELSE buffer_done(bl \cup active, "app") /\ Goto("idle")
    /\ UNCHANGED <<vbVars, ackVars, verVars, hwVars, runVars, callVars,
                   fwVars>>

\* Mutant: a deferred start returns its buffers as QUEUED too.
RequeueQueued ==
    /\ At("requeue")
    /\ bl' = {} /\ active' = {}
    /\ buffer_done(bl \cup active, "queued")
    /\ Goto(IF caller = "start" THEN "return" ELSE "idle")
    /\ UNCHANGED <<incoming, vbVars, ackVars, verVars, hwVars, runVars,
                   callVars, fwVars>>

\* The end of a failed ipu_isys_stream_start: the list in hand, then
\* flush_firmware_streamon_fail.  A start callback returns the buffers to
\* vb2 as QUEUED, a deferred start gives them to the application as ERROR.
Requeue ==
    /\ At("requeue")
    /\ bl' = {} /\ active' = {}
    /\ IF caller = "start"
       THEN /\ incoming' = incoming \cup bl
            /\ buffer_done(active, "queued")
            /\ Goto("return")
       ELSE /\ buffer_done(bl \cup active, "app")
            /\ Goto("idle")
            /\ UNCHANGED incoming
    /\ UNCHANGED <<vbVars, ackVars, verVars, hwVars, runVars, callVars,
                   fwVars>>

\* return_buffers and the end of the vb2 call: a failed STREAMON detaches
\* the queue and leaves its buffers queued, a STREAMOFF dequeues all.
return_buffers ==
    /\ At("return")
    /\ incoming' = {} /\ active' = {}
    /\ reset_needed' = (reset_needed \/ active # {})
    /\ vq' = "off"
    /\ attached' = FALSE
    /\ IF caller = "start"
       THEN buffer_done(incoming \cup active, "queued")
       ELSE buffer_done(incoming \cup active
                          \cup {b \in Bufs : own[b] = "queued"}, "app")
    /\ Goto("idle")
    /\ UNCHANGED <<bl, opened, waiters, ackVars, verVars, handle, subdevs,
                   sensor, streaming, callVars, fwVars>>
-----------------------------------------------------------------------------
(***************************************************************************)
(* The interrupt handler and the firmware.                                 *)
(***************************************************************************)

\* Mutant: a corrupt frame is parked whether or not a start verifies.
buf_ready_parking(r) ==
    \/ /\ r.buf \notin active
       /\ UNCHANGED <<own, active, incoming>>
    \/ /\ r.buf \in active
       /\ active' = active \ {r.buf}
       /\ IF r.err
          THEN incoming' = incoming \cup {r.buf} /\ UNCHANGED own
          ELSE buffer_done({r.buf}, "app") /\ UNCHANGED incoming

\* ipu_isys_queue_buf_ready: the buffer is looked up by its address on the
\* active list.  Under verification a frame with the STR2MMIO error is
\* parked; a frame with another error is completed like a clean one.
ipu_isys_queue_buf_ready(r) ==
    \/ /\ r.buf \notin active
       /\ UNCHANGED <<own, active, incoming>>
    \/ /\ r.buf \in active
       /\ active' = active \ {r.buf}
       /\ \/ /\ r.err /\ verify_active
             /\ incoming' = incoming \cup {r.buf}
             /\ UNCHANGED own
          \/ /\ buffer_done({r.buf}, "app")
             /\ UNCHANGED incoming

\* isys_isr_one: one response.  Every response overwrites ip->error.
isys_isr_one ==
    /\ resps # << >>
    /\ resps' = Tail(resps)
    /\ LET r == Head(resps)
       IN  \/ /\ ~handle
              /\ UNCHANGED <<own, active, incoming, clean, ackVars>>
           \/ /\ handle
              /\ error' = r.err
              /\ completions' = completions \cup ({r.type} \cap Acks)
              /\ IF r.type = "pin"
                 THEN /\ clean' = (clean \/ ~r.err)
                      /\ ipu_isys_queue_buf_ready(r)
                 ELSE UNCHANGED <<own, active, incoming, clean>>
    /\ UNCHANGED <<bl, vbVars, verify_active, retry, hwVars, runVars, pc,
                   callVars, cmds, fw, mine, held>>

Respond(type, b, err) ==
    resps' = Append(resps, [type |-> type, buf |-> b, err |-> err])

\* The states in which the firmware can carry out a command, and the next.
Legal(type) ==
    CASE type = "open" -> fw = "closed"
      [] type = "start" -> fw = "open"
      [] type \in {"capture", "stop"} -> fw = "started"
      [] type = "close" -> fw # "closed"
After(type) ==
    CASE type \in {"open", "stop"} -> "open"
      [] type \in {"start", "capture"} -> "started"
      [] type = "close" -> "closed"

\* The firmware takes the oldest command, carries it out or refuses it, and
\* answers; a silent firmware is one that has not taken the step yet.
FirmwareStep ==
    /\ cmds # << >> /\ Len(resps) < RespSlots
    /\ cmds' = Tail(cmds)
    /\ LET c == Head(cmds)
       IN  \/ /\ Legal(c.type)
              /\ fw' = After(c.type)
              /\ mine' = IF c.type = "open" THEN ~c.old ELSE mine
              /\ held' = IF c.type = "close" THEN {}
                         ELSE held \cup ({c.buf} \ {NoBuf})
              /\ Respond(c.type, NoBuf, FALSE)
           \/ /\ ~Legal(c.type) \/ c.type \in Refuses
              /\ Respond(c.type, NoBuf, TRUE)
              /\ UNCHANGED <<fw, mine, held>>
    /\ UNCHANGED <<bufVars, vbVars, ackVars, verVars, hwVars, runVars, pc,
                   callVars>>

\* A frame, clean or corrupt, has been written to a held buffer.
FirmwareFrame(b, err) ==
    /\ fw = "started" /\ sensor /\ b \in held
    /\ FastFrames \/ pc \notin {"take", "activate", "send"}
    /\ Len(resps) < RespSlots
    /\ held' = held \ {b}
    /\ Respond("pin", b, err)
    /\ UNCHANGED <<bufVars, vbVars, ackVars, verVars, hwVars, runVars, pc,
                   callVars, cmds, fw, mine>>
-----------------------------------------------------------------------------
\* The thread that holds av->mutex.
Holder ==
    \/ SubdevsOn \/ FwOpen \/ OpenWait \/ FwStart \/ StartSend \/ StartWait
    \/ OutClose \/ OutCloseWait \/ SensorOn
    \/ buffer_list_get \/ CaptureActivate \/ CaptureSend
    \/ Verify \/ VerifyWait \/ Bounce \/ VerifyEnd
    \/ FwStop \/ StopWait \/ FwClose \/ CloseWait
    \/ SensorOff \/ SubdevsOff \/ Stopped \/ Requeue \/ return_buffers

Next ==
    \/ video_open \/ video_release
    \/ \E b \in Bufs : QBuf(b)
    \/ buf_queue
    \/ start_streaming
    \/ stop_streaming
    \/ Holder
    \/ isys_isr_one
    \/ FirmwareStep
    \/ \E b \in Bufs, err \in BOOLEAN : FirmwareFrame(b, err)

Spec == Init /\ [][Next]_vars

\* A thread that holds the mutex keeps running: its waits are timed, its
\* sleeps are finite.  A buf_queue call gets the mutex when it is free.
\* Nothing is asked of the firmware, the sensor or the application.
FairSpec == Spec /\ WF_vars(Holder) /\ WF_vars(buf_queue)
-----------------------------------------------------------------------------
(***************************************************************************)
(* Properties.                                                             *)
(***************************************************************************)

\* Every buffer vb2 has given to the driver is on exactly one of incoming,
\* active and the list in hand, and no other buffer is on any: a buffer is
\* completed exactly once, and a later QBUF never links a linked node
\* (the comment in ipu_isys_buffer_list_queue).
OwnedOnce ==
    /\ \A b \in Bufs :
          own[b] = "driver" <=> b \in incoming \cup active \cup bl
    /\ incoming \cap active = {}
    /\ incoming \cap bl = {}
    /\ active \cap bl = {}

\* The state a failed or stopped stream returns its buffers with fits the
\* vb2 context: while the queue streams vb2 has no buffer that it believes
\* still waits for STREAMON, and while it is off the driver owns none.
ReturnedInContext ==
    /\ vq = "on" => \A b \in Bufs : own[b] # "queued"
    /\ vq = "off" => \A b \in Bufs : own[b] # "driver"

\* Between calls the software pipeline, the stream handle and the
\* sub-devices are all on or all off, and they are off unless the queue
\* streams: "a failed start must never leave the software pipeline
\* streaming", nor the sub-devices, which "the next open sees".
QuietWhenStopped ==
    pc = "idle" =>
        /\ streaming = handle /\ streaming = subdevs
        /\ streaming => attached /\ sensor
        /\ attached <=> vq = "on"
        /\ ~verify_active

\* A buffer the firmware may still write, or will when it reaches a command
\* on its way, is active, or the driver knows that ISYS needs a power cycle:
\* no failed start, timeout or stop returns memory that is still a DMA
\* target without marking the device.
FirmwareMayWrite(b) ==
    b \in held \/ \E i \in DOMAIN cmds : cmds[i].buf = b
DmaOnlyWhileActive ==
    \A b \in Bufs : FirmwareMayWrite(b) => b \in active \/ reset_needed

\* Between calls of a streaming queue no buffer is left behind on incoming
\* without a QBUF call that is about to feed it: what verification parked
\* has gone back to the firmware.
NothingStranded ==
    pc = "idle" /\ streaming => Cardinality(incoming) <= waiters

\* A start returns success only if the firmware delivered a clean frame
\* after it began.
StartIsVerified ==
    [][pc # "idle" /\ pc' = "idle" /\ streaming' /\ sub # "qbuf"
         => clean]_vars

\* Whatever the firmware and the sensor do, every call returns: no silent
\* firmware can keep av->mutex for ever.
CallsReturn == pc # "idle" ~> pc = "idle"

\* What tests/task29-stream-lifecycle-static.sh says of a failed start: a
\* later STREAMON cannot reuse a stale pipeline.  A stream that runs without
\* a pending reset runs on the firmware stream its own STREAM_OPEN set up.
NoStaleStream == streaming /\ handle /\ ~reset_needed => mine
=============================================================================
