-------------------------- MODULE IsysStreamProofs --------------------------
(***************************************************************************)
(* Proofs about IsysStream, for any number of buffers, retries, command    *)
(* and response slots.                                                     *)
(*                                                                         *)
(* OwnedOnce and the other invariants are not inductive: whether the list  *)
(* in hand may be overwritten, or a handle be released twice, depends on   *)
(* where the thread that holds av->mutex stands.  The conjuncts from Calls *)
(* to Verified record, label by label, what that thread has and has not    *)
(* done; with them every action preserves IInv.                            *)
(***************************************************************************)
EXTENDS IsysStream, TLAPS

Starting == {"subdevs", "fw_open", "open_wait", "fw_start", "start_send",
             "start_wait", "out_close", "out_close_wait", "sensor_on"}
Submitting == {"take", "activate", "send"}
Feeding == Submitting \cup {"verify", "verify_wait", "bounce", "verify_end"}
Stopping == {"fw_stop", "stop_wait", "fw_close", "close_wait", "sensor_off",
             "subdevs_off", "stopped"}

\* The variables the invariants speak of have their types.
Typed ==
    /\ own \in [Bufs -> {"app", "queued", "driver"}]
    /\ vq \in {"off", "starting", "on"}
    /\ incoming \subseteq Bufs /\ active \subseteq Bufs /\ bl \subseteq Bufs
    /\ pc \in Labels
    /\ caller \in {"start", "qbuf", "stop"}
    /\ sub \in {"feed", "refeed", "final", "fail", "qbuf"}

Flags ==
    /\ attached \in BOOLEAN /\ streaming \in BOOLEAN
    /\ verify_active \in BOOLEAN /\ handle \in BOOLEAN
    /\ subdevs \in BOOLEAN /\ sensor \in BOOLEAN

\* Which vb2 call the thread serves.
Calls ==
    /\ pc = "idle" => vq # "starting"
    /\ pc # "idle" => vq = IF caller = "start" THEN "starting" ELSE "on"
    /\ caller = "stop" => pc \in Stopping \cup {"idle", "return"}
    /\ pc = "return" => caller # "qbuf"
    /\ pc \in Submitting /\ sub = "qbuf" => caller = "qbuf"
    /\ pc = "verify_end" => sub # "qbuf"

\* vb2 has buffers of its own only while the queue is off or a failed start
\* is giving them back; the driver has some only while the queue is not off.
Context ==
    /\ vq = "on" \/ (vq = "starting" /\ pc # "return")
         => \A b \in Bufs : own[b] # "queued"
    /\ vq = "off" => \A b \in Bufs : own[b] # "driver"

\* The list in hand holds at most one buffer, and none where it is reused.
InHand ==
    /\ \A x, y \in bl : x = y
    /\ pc \in {"idle", "start_send", "start_wait", "sensor_on", "take",
               "send", "verify", "verify_wait", "bounce", "verify_end",
               "return"} => bl = {}
    /\ caller = "stop" => bl = {}

\* How far the software pipeline is up.
Pipeline ==
    /\ pc \in Starting \cup {"requeue", "return"} => ~streaming
    /\ pc \in Feeding => streaming
    /\ caller = "stop" /\ pc \in Stopping \ {"stopped"} => streaming
    /\ pc = "idle" => (attached <=> vq = "on")
    /\ pc # "idle" => (attached <=> ~(pc = "return" /\ caller = "stop"))
    /\ pc \in Feeding => sensor
    /\ verify_active => \/ pc \in {"verify_wait", "bounce", "verify_end"}
                        \/ pc \in Submitting /\ sub = "refeed"

\* Who has the stream handle and whether the sub-devices stream.
Ownership ==
    /\ pc \in {"subdevs", "fw_open", "stopped", "requeue", "return"} => ~handle
    /\ pc \in (Starting \ {"subdevs", "fw_open"}) \cup Feeding
                \cup {"fw_stop", "stop_wait", "fw_close", "close_wait"}
         => handle
    /\ pc \in {"sensor_off", "subdevs_off"} /\ Unwinding => ~handle
    /\ pc \in {"subdevs", "stopped", "requeue", "return"} => ~subdevs
    /\ pc \in (Starting \ {"subdevs"}) \cup Feeding
                \cup {"fw_stop", "stop_wait", "sensor_off", "subdevs_off"}
         => subdevs
    /\ pc \in {"fw_close", "close_wait"} => (subdevs <=> Unwinding)
    /\ pc = "idle" => streaming = handle /\ streaming = subdevs
    /\ pc = "idle" /\ streaming => attached /\ sensor

\* A verification that ended well has seen a clean frame.
Verified ==
    pc \in Submitting \cup {"verify_end"} /\ sub = "final" => clean

IInv == /\ Typed
        /\ Flags
        /\ OwnedOnce
        /\ Calls
        /\ Context
        /\ InHand
        /\ Pipeline
        /\ Ownership
        /\ Verified
-----------------------------------------------------------------------------
\* Opening the node, with or without a power cycle, touches no stream state.
LEMMA video_open_keeps ==
    ASSUME IInv, video_open
    PROVE  IInv'
BY DEF IInv, Typed, Flags, OwnedOnce, Calls, Context, InHand, Pipeline,
       Ownership, Verified, video_open, FreshFirmware, bufVars, ackVars,
       verVars, runVars, callVars, Starting, Submitting, Feeding, Stopping,
       Labels, Unwinding

\* The release finds the queue off, so no driver list holds a buffer.
LEMMA video_release_keeps ==
    ASSUME IInv, video_release
    PROVE  IInv'
<1>1. Typed'
  BY DEF IInv, Typed, video_release, buffer_done, At, FreshFirmware, ackVars,
         verVars, runVars, callVars, fwVars, Labels
<1>2. Flags'
  BY DEF IInv, Flags, video_release, buffer_done, At, FreshFirmware, ackVars,
         verVars, runVars, callVars, fwVars, Labels
<1>3. OwnedOnce'
  BY DEF IInv, Typed, OwnedOnce, Calls, InHand, Context, video_release,
         buffer_done, At, FreshFirmware, ackVars, verVars, runVars, callVars,
         fwVars, Labels, Submitting, Stopping
<1>4. Calls'
  BY DEF IInv, Typed, Flags, Calls, Pipeline, video_release, buffer_done, At,
         FreshFirmware, ackVars, verVars, runVars, callVars, fwVars, Labels,
         Submitting, Stopping, Starting, Feeding
<1>5. Context'
  BY DEF IInv, Typed, OwnedOnce, Calls, InHand, Context, video_release,
         buffer_done, At, FreshFirmware, ackVars, verVars, runVars, callVars,
         fwVars, Labels, Submitting, Stopping
<1>6. InHand'
  BY DEF IInv, Typed, Flags, Calls, InHand, Pipeline, video_release,
         buffer_done, At, FreshFirmware, ackVars, verVars, runVars, callVars,
         fwVars, Labels, Submitting, Stopping, Starting, Feeding
<1>7. Pipeline'
  BY DEF IInv, Typed, Flags, Calls, Pipeline, InHand, video_release,
         buffer_done, At, FreshFirmware, ackVars, verVars, runVars, callVars,
         fwVars, Labels, Submitting, Stopping, Starting, Feeding
<1>8. Ownership'
  BY DEF IInv, Typed, Flags, Calls, Pipeline, Ownership, video_release,
         buffer_done, At, FreshFirmware, ackVars, verVars, runVars, callVars,
         fwVars, Labels, Submitting, Stopping, Starting, Feeding, Unwinding
<1>9. Verified'
  BY DEF IInv, Typed, Verified, video_release, buffer_done, At, FreshFirmware,
         ackVars, verVars, runVars, callVars, fwVars, Labels, Submitting
<1>10. QED
  BY <1>1, <1>2, <1>3, <1>4, <1>5, <1>6, <1>7, <1>8, <1>9
     DEF IInv

\* A queued buffer moves from the application to vb2 or to incoming.
LEMMA QBuf_keeps ==
    ASSUME NEW b \in Bufs, IInv, QBuf(b)
    PROVE  IInv'
BY DEF IInv, Typed, Flags, OwnedOnce, Calls, Context, InHand, Pipeline,
       Ownership, Verified, QBuf, buffer_done, At, ackVars, verVars, hwVars,
       runVars, callVars, fwVars, Starting, Submitting, Feeding, Stopping,
       Labels, Unwinding

\* The locked half of __buf_queue starts a deferred stream or a submission.
LEMMA buf_queue_keeps ==
    ASSUME IInv, buf_queue
    PROVE  IInv'
BY DEF IInv, Typed, Flags, OwnedOnce, Calls, Context, InHand, Pipeline,
       Ownership, Verified, buf_queue, At, Goto, StreamStart, ackVars,
       verVars, hwVars, runVars, callVars, fwVars, Starting, Submitting,
       Feeding, Stopping, Labels, Unwinding

\* STREAMON hands the queued buffers over and begins the start.
LEMMA start_streaming_keeps ==
    ASSUME IInv, start_streaming
    PROVE  IInv'
BY DEF IInv, Typed, Flags, OwnedOnce, Calls, Context, InHand, Pipeline,
       Ownership, Verified, start_streaming, buffer_done, At, StreamStart,
       Goto, ackVars, verVars, hwVars, callVars, fwVars, Starting, Submitting,
       Feeding, Stopping, Labels, Unwinding

\* STREAMOFF begins the stop of a streaming or postponed queue.
LEMMA stop_streaming_keeps ==
    ASSUME IInv, stop_streaming
    PROVE  IInv'
BY DEF IInv, Typed, Flags, OwnedOnce, Calls, Context, InHand, Pipeline,
       Ownership, Verified, stop_streaming, At, Goto, bufVars, vbVars,
       ackVars, verVars, hwVars, runVars, fwVars, Starting, Submitting,
       Feeding, Stopping, Labels, Unwinding

\* The sub-devices start, or have been undone, before any firmware command.
LEMMA SubdevsOn_keeps ==
    ASSUME IInv, SubdevsOn
    PROVE  IInv'
BY DEF IInv, Typed, Flags, OwnedOnce, Calls, Context, InHand, Pipeline,
       Ownership, Verified, SubdevsOn, At, Goto, bufVars, vbVars, ackVars,
       verVars, runVars, callVars, fwVars, Starting, Submitting, Feeding,
       Stopping, Labels, Unwinding

\* STREAM_OPEN is sent with a handle, or the handle is given back.
LEMMA FwOpen_keeps ==
    ASSUME IInv, FwOpen
    PROVE  IInv'
<1>1. Typed'
  BY DEF IInv, Typed, FwOpen, SendOk, SendFails, fwVars, reinit_completion,
         At, Goto, bufVars, vbVars, ackVars, verVars, runVars, callVars,
         Labels
<1>2. Flags'
  BY DEF IInv, Flags, FwOpen, SendOk, SendFails, fwVars, reinit_completion,
         At, Goto, bufVars, vbVars, ackVars, verVars, runVars, callVars,
         Labels
<1>3. OwnedOnce'
  BY DEF IInv, Typed, OwnedOnce, Calls, InHand, Context, FwOpen, SendOk,
         SendFails, fwVars, reinit_completion, At, Goto, bufVars, vbVars,
         ackVars, verVars, runVars, callVars, Labels, Submitting, Stopping
<1>4. Calls'
  BY DEF IInv, Typed, Flags, Calls, Pipeline, FwOpen, SendOk, SendFails,
         fwVars, reinit_completion, At, Goto, bufVars, vbVars, ackVars,
         verVars, runVars, callVars, Labels, Submitting, Stopping, Starting,
         Feeding
<1>5. Context'
  BY DEF IInv, Typed, OwnedOnce, Calls, InHand, Context, FwOpen, SendOk,
         SendFails, fwVars, reinit_completion, At, Goto, bufVars, vbVars,
         ackVars, verVars, runVars, callVars, Labels, Submitting, Stopping
<1>6. InHand'
  BY DEF IInv, Typed, Flags, Calls, InHand, Pipeline, FwOpen, SendOk,
         SendFails, fwVars, reinit_completion, At, Goto, bufVars, vbVars,
         ackVars, verVars, runVars, callVars, Labels, Submitting, Stopping,
         Starting, Feeding
<1>7. Pipeline'
  BY DEF IInv, Typed, Flags, Calls, Pipeline, InHand, FwOpen, SendOk,
         SendFails, fwVars, reinit_completion, At, Goto, bufVars, vbVars,
         ackVars, verVars, runVars, callVars, Labels, Submitting, Stopping,
         Starting, Feeding
<1>8. Ownership'
  <2>1. caller' # "stop" /\ ~streaming' /\ ~streaming
    BY DEF IInv, Calls, Pipeline, FwOpen, At, runVars, callVars, Starting,
           Stopping
  <2>2. subdevs'
    BY DEF IInv, Ownership, FwOpen, At, Starting
  <2>3. \/ handle' /\ pc' = "open_wait"
        \/ ~handle' /\ pc' = "subdevs_off"
    BY DEF IInv, Ownership, FwOpen, At, Goto
  <2>4. QED
    BY <2>1, <2>2, <2>3 DEF Ownership, Starting, Submitting, Feeding,
       Unwinding
<1>9. Verified'
  BY DEF IInv, Typed, Verified, FwOpen, SendOk, SendFails, fwVars,
         reinit_completion, At, Goto, bufVars, vbVars, ackVars, verVars,
         runVars, callVars, Labels, Submitting
<1>10. QED
  BY <1>1, <1>2, <1>3, <1>4, <1>5, <1>6, <1>7, <1>8, <1>9
     DEF IInv

\* An open that fails or times out gives its handle back.
LEMMA OpenWait_keeps ==
    ASSUME IInv, OpenWait
    PROVE  IInv'
BY DEF IInv, Typed, Flags, OwnedOnce, Calls, Context, InHand, Pipeline,
       Ownership, Verified, OpenWait, release_streaming_firmware, At, Goto,
       bufVars, vbVars, ackVars, verVars, runVars, callVars, fwVars, Starting,
       Submitting, Feeding, Stopping, Labels, Unwinding

\* The start buffer moves from the list in hand to active.
LEMMA FwStart_keeps ==
    ASSUME IInv, FwStart
    PROVE  IInv'
<1>1. Typed'
  BY DEF IInv, Typed, FwStart, reinit_completion, At, Goto, vbVars, ackVars,
         verVars, hwVars, runVars, fwVars, Labels
<1>2. Flags'
  BY DEF IInv, Flags, FwStart, reinit_completion, At, Goto, vbVars, ackVars,
         verVars, hwVars, runVars, fwVars, Labels
<1>3. OwnedOnce'
  BY DEF IInv, Typed, OwnedOnce, Calls, InHand, Context, FwStart,
         reinit_completion, At, Goto, vbVars, ackVars, verVars, hwVars,
         runVars, fwVars, Labels, Submitting, Stopping
<1>4. Calls'
  BY DEF IInv, Typed, Flags, Calls, Pipeline, FwStart, reinit_completion, At,
         Goto, vbVars, ackVars, verVars, hwVars, runVars, fwVars, Labels,
         Submitting, Stopping, Starting, Feeding
<1>5. Context'
  BY DEF IInv, Typed, OwnedOnce, Calls, InHand, Context, FwStart,
         reinit_completion, At, Goto, vbVars, ackVars, verVars, hwVars,
         runVars, fwVars, Labels, Submitting, Stopping
<1>6. InHand'
  BY DEF IInv, Typed, Flags, Calls, InHand, Pipeline, FwStart,
         reinit_completion, At, Goto, vbVars, ackVars, verVars, hwVars,
         runVars, fwVars, Labels, Submitting, Stopping, Starting, Feeding
<1>7. Pipeline'
  BY DEF IInv, Typed, Flags, Calls, Pipeline, InHand, FwStart,
         reinit_completion, At, Goto, vbVars, ackVars, verVars, hwVars,
         runVars, fwVars, Labels, Submitting, Stopping, Starting, Feeding
<1>8. Ownership'
  BY DEF IInv, Typed, Flags, Calls, Pipeline, Ownership, FwStart,
         reinit_completion, At, Goto, vbVars, ackVars, verVars, hwVars,
         runVars, fwVars, Labels, Submitting, Stopping, Starting, Feeding,
         Unwinding
<1>9. Verified'
  BY DEF IInv, Typed, Verified, FwStart, reinit_completion, At, Goto, vbVars,
         ackVars, verVars, hwVars, runVars, fwVars, Labels, Submitting
<1>10. QED
  BY <1>1, <1>2, <1>3, <1>4, <1>5, <1>6, <1>7, <1>8, <1>9
     DEF IInv

\* A start command that cannot be sent leads to the close.
LEMMA StartSend_keeps ==
    ASSUME IInv, StartSend
    PROVE  IInv'
BY DEF IInv, Typed, Flags, OwnedOnce, Calls, Context, InHand, Pipeline,
       Ownership, Verified, StartSend, SendOk, SendFails, fwVars, At, Goto,
       bufVars, vbVars, ackVars, verVars, hwVars, runVars, callVars, Starting,
       Submitting, Feeding, Stopping, Labels, Unwinding

\* A start that is refused or times out leads to the close.
LEMMA StartWait_keeps ==
    ASSUME IInv, StartWait
    PROVE  IInv'
BY DEF IInv, Typed, Flags, OwnedOnce, Calls, Context, InHand, Pipeline,
       Ownership, Verified, StartWait, At, Goto, bufVars, vbVars, ackVars,
       verVars, hwVars, runVars, callVars, fwVars, Starting, Submitting,
       Feeding, Stopping, Labels, Unwinding

\* The close of a stream that did not start.
LEMMA OutClose_keeps ==
    ASSUME IInv, OutClose
    PROVE  IInv'
BY DEF IInv, Typed, Flags, OwnedOnce, Calls, Context, InHand, Pipeline,
       Ownership, Verified, OutClose, CloseSend, SendOk, reinit_completion,
       AbandonStream, release_streaming_firmware, At, Goto, bufVars, vbVars,
       verVars, runVars, callVars, Starting, Submitting, Feeding, Stopping,
       Labels, Unwinding

\* The end of that close gives the handle back, marked or not.
LEMMA OutCloseWait_keeps ==
    ASSUME IInv, OutCloseWait
    PROVE  IInv'
BY DEF IInv, Typed, Flags, OwnedOnce, Calls, Context, InHand, Pipeline,
       Ownership, Verified, OutCloseWait, CloseWaited,
       release_streaming_firmware, AbandonStream, At, Goto, bufVars, vbVars,
       ackVars, verVars, runVars, callVars, Starting, Submitting, Feeding,
       Stopping, Labels, Unwinding

\* The sensor starts and streaming is set, or the unwinding begins.
LEMMA SensorOn_keeps ==
    ASSUME IInv, SensorOn
    PROVE  IInv'
BY DEF IInv, Typed, Flags, OwnedOnce, Calls, Context, InHand, Pipeline,
       Ownership, Verified, SensorOn, At, Goto, bufVars, vbVars, ackVars,
       verVars, fwVars, Starting, Submitting, Feeding, Stopping, Labels,
       Unwinding

\* One buffer moves from incoming to the list in hand, or the loop ends.
LEMMA buffer_list_get_keeps ==
    ASSUME IInv, buffer_list_get
    PROVE  IInv'
<1>1. Typed'
  BY DEF IInv, Typed, buffer_list_get, At, Goto, NoData, Succeed,
         SubmitFailed, ackVars, hwVars, runVars, fwVars, Labels
<1>2. Flags'
  BY DEF IInv, Flags, buffer_list_get, At, Goto, NoData, Succeed,
         SubmitFailed, ackVars, hwVars, runVars, fwVars, Labels
<1>3. OwnedOnce'
  BY DEF IInv, Typed, OwnedOnce, Calls, InHand, Context, buffer_list_get, At,
         Goto, NoData, Succeed, SubmitFailed, ackVars, hwVars, runVars,
         fwVars, Labels, Submitting, Stopping
<1>4. Calls'
  BY DEF IInv, Typed, Flags, Calls, Pipeline, buffer_list_get, At, Goto,
         NoData, Succeed, SubmitFailed, ackVars, hwVars, runVars, fwVars,
         Labels, Submitting, Stopping, Starting, Feeding
<1>5. Context'
  BY DEF IInv, Typed, OwnedOnce, Calls, InHand, Context, buffer_list_get, At,
         Goto, NoData, Succeed, SubmitFailed, ackVars, hwVars, runVars,
         fwVars, Labels, Submitting, Stopping
<1>6. InHand'
  BY DEF IInv, Typed, Flags, Calls, InHand, Pipeline, buffer_list_get, At,
         Goto, NoData, Succeed, SubmitFailed, ackVars, hwVars, runVars,
         fwVars, Labels, Submitting, Stopping, Starting, Feeding
<1>7. Pipeline'
  BY DEF IInv, Typed, Flags, Calls, Pipeline, InHand, buffer_list_get, At,
         Goto, NoData, Succeed, SubmitFailed, ackVars, hwVars, runVars,
         fwVars, Labels, Submitting, Stopping, Starting, Feeding
<1>8. Ownership'
  BY DEF IInv, Typed, Flags, Calls, Pipeline, Ownership, buffer_list_get, At,
         Goto, NoData, Succeed, SubmitFailed, ackVars, hwVars, runVars,
         fwVars, Labels, Submitting, Stopping, Starting, Feeding, Unwinding
<1>9. Verified'
  BY DEF IInv, Typed, Verified, buffer_list_get, At, Goto, NoData, Succeed,
         SubmitFailed, ackVars, hwVars, runVars, fwVars, Labels, Submitting
<1>10. QED
  BY <1>1, <1>2, <1>3, <1>4, <1>5, <1>6, <1>7, <1>8, <1>9
     DEF IInv

\* The buffer in hand becomes active before it is sent.
LEMMA CaptureActivate_keeps ==
    ASSUME IInv, CaptureActivate
    PROVE  IInv'
BY DEF IInv, Typed, Flags, OwnedOnce, Calls, Context, InHand, Pipeline,
       Ownership, Verified, CaptureActivate, At, Goto, vbVars, ackVars,
       verVars, hwVars, runVars, fwVars, Starting, Submitting, Feeding,
       Stopping, Labels, Unwinding

\* A rejected buffer of a running stream is completed only if still active.
LEMMA CaptureSend_keeps ==
    ASSUME IInv, CaptureSend
    PROVE  IInv'
BY DEF IInv, Typed, Flags, OwnedOnce, Calls, Context, InHand, Pipeline,
       Ownership, Verified, CaptureSend, buffer_done, SendOk, SendFails,
       fwVars, At, Goto, SubmitFailed, vbVars, ackVars, verVars, hwVars,
       runVars, Starting, Submitting, Feeding, Stopping, Labels, Unwinding

\* Verification begins only for a stream without a clean frame.
LEMMA Verify_keeps ==
    ASSUME IInv, Verify
    PROVE  IInv'
<1>1. Typed'
  BY DEF IInv, Typed, Verify, At, Goto, Succeed, bufVars, ackVars, hwVars,
         runVars, callVars, fwVars, Labels
<1>2. Flags'
  BY DEF IInv, Flags, Verify, At, Goto, Succeed, bufVars, ackVars, hwVars,
         runVars, callVars, fwVars, Labels
<1>3. OwnedOnce'
  BY DEF IInv, Typed, OwnedOnce, Calls, InHand, Context, Verify, At, Goto,
         Succeed, bufVars, ackVars, hwVars, runVars, callVars, fwVars, Labels,
         Submitting, Stopping
<1>4. Calls'
  BY DEF IInv, Typed, Flags, Calls, Pipeline, Verify, At, Goto, Succeed,
         bufVars, ackVars, hwVars, runVars, callVars, fwVars, Labels,
         Submitting, Stopping, Starting, Feeding
<1>5. Context'
  BY DEF IInv, Typed, OwnedOnce, Calls, InHand, Context, Verify, At, Goto,
         Succeed, bufVars, ackVars, hwVars, runVars, callVars, fwVars, Labels,
         Submitting, Stopping
<1>6. InHand'
  BY DEF IInv, Typed, Flags, Calls, InHand, Pipeline, Verify, At, Goto,
         Succeed, bufVars, ackVars, hwVars, runVars, callVars, fwVars, Labels,
         Submitting, Stopping, Starting, Feeding
<1>7. Pipeline'
  BY DEF IInv, Typed, Flags, Calls, Pipeline, InHand, Verify, At, Goto,
         Succeed, bufVars, ackVars, hwVars, runVars, callVars, fwVars, Labels,
         Submitting, Stopping, Starting, Feeding
<1>8. Ownership'
  BY DEF IInv, Typed, Flags, Calls, Pipeline, Ownership, Verify, At, Goto,
         Succeed, bufVars, ackVars, hwVars, runVars, callVars, fwVars, Labels,
         Submitting, Stopping, Starting, Feeding, Unwinding
<1>9. Verified'
  BY DEF IInv, Typed, Verified, Verify, At, Goto, Succeed, bufVars, ackVars,
         hwVars, runVars, callVars, fwVars, Labels, Submitting
<1>10. QED
  BY <1>1, <1>2, <1>3, <1>4, <1>5, <1>6, <1>7, <1>8, <1>9
     DEF IInv

\* Only a clean frame makes the verification end well.
LEMMA VerifyWait_keeps ==
    ASSUME IInv, VerifyWait
    PROVE  IInv'
BY DEF IInv, Typed, Flags, OwnedOnce, Calls, Context, InHand, Pipeline,
       Ownership, Verified, VerifyWait, At, Goto, bufVars, vbVars, ackVars,
       verVars, hwVars, runVars, fwVars, Starting, Submitting, Feeding,
       Stopping, Labels, Unwinding

\* A sensor bounce ends in a refeed or in a failed start.
LEMMA Bounce_keeps ==
    ASSUME IInv, Bounce
    PROVE  IInv'
BY DEF IInv, Typed, Flags, OwnedOnce, Calls, Context, InHand, Pipeline,
       Ownership, Verified, Bounce, At, Goto, bufVars, vbVars, ackVars,
       verVars, hwVars, runVars, fwVars, Starting, Submitting, Feeding,
       Stopping, Labels, Unwinding

\* Parking is switched off before the last refeed.
LEMMA VerifyEnd_keeps ==
    ASSUME IInv, VerifyEnd
    PROVE  IInv'
<1>1. Typed'
  BY DEF IInv, Typed, VerifyEnd, At, Goto, bufVars, vbVars, ackVars, hwVars,
         runVars, callVars, fwVars, Labels
<1>2. Flags'
  BY DEF IInv, Flags, VerifyEnd, At, Goto, bufVars, vbVars, ackVars, hwVars,
         runVars, callVars, fwVars, Labels
<1>3. OwnedOnce'
  BY DEF IInv, Typed, OwnedOnce, Calls, InHand, Context, VerifyEnd, At, Goto,
         bufVars, vbVars, ackVars, hwVars, runVars, callVars, fwVars, Labels,
         Submitting, Stopping
<1>4. Calls'
  BY DEF IInv, Typed, Flags, Calls, Pipeline, VerifyEnd, At, Goto, bufVars,
         vbVars, ackVars, hwVars, runVars, callVars, fwVars, Labels,
         Submitting, Stopping, Starting, Feeding
<1>5. Context'
  BY DEF IInv, Typed, OwnedOnce, Calls, InHand, Context, VerifyEnd, At, Goto,
         bufVars, vbVars, ackVars, hwVars, runVars, callVars, fwVars, Labels,
         Submitting, Stopping
<1>6. InHand'
  BY DEF IInv, Typed, Flags, Calls, InHand, Pipeline, VerifyEnd, At, Goto,
         bufVars, vbVars, ackVars, hwVars, runVars, callVars, fwVars, Labels,
         Submitting, Stopping, Starting, Feeding
<1>7. Pipeline'
  BY DEF IInv, Typed, Flags, Calls, Pipeline, InHand, VerifyEnd, At, Goto,
         bufVars, vbVars, ackVars, hwVars, runVars, callVars, fwVars, Labels,
         Submitting, Stopping, Starting, Feeding
<1>8. Ownership'
  BY DEF IInv, Typed, Flags, Calls, Pipeline, Ownership, VerifyEnd, At, Goto,
         bufVars, vbVars, ackVars, hwVars, runVars, callVars, fwVars, Labels,
         Submitting, Stopping, Starting, Feeding, Unwinding
<1>9. Verified'
  BY DEF IInv, Typed, Verified, VerifyEnd, At, Goto, bufVars, vbVars, ackVars,
         hwVars, runVars, callVars, fwVars, Labels, Submitting
<1>10. QED
  BY <1>1, <1>2, <1>3, <1>4, <1>5, <1>6, <1>7, <1>8, <1>9
     DEF IInv

\* STREAM_STOP is sent, or the stream is abandoned.
LEMMA FwStop_keeps ==
    ASSUME IInv, FwStop
    PROVE  IInv'
<1>1. Typed'
  BY DEF IInv, Typed, FwStop, SendOk, reinit_completion, AbandonStream,
         release_streaming_firmware, At, Goto, bufVars, vbVars, verVars,
         runVars, callVars, Labels
<1>2. Flags'
  BY DEF IInv, Flags, FwStop, SendOk, reinit_completion, AbandonStream,
         release_streaming_firmware, At, Goto, bufVars, vbVars, verVars,
         runVars, callVars, Labels
<1>3. OwnedOnce'
  BY DEF IInv, Typed, OwnedOnce, Calls, InHand, Context, FwStop, SendOk,
         reinit_completion, AbandonStream, release_streaming_firmware, At,
         Goto, bufVars, vbVars, verVars, runVars, callVars, Labels,
         Submitting, Stopping
<1>4. Calls'
  BY DEF IInv, Typed, Flags, Calls, Pipeline, FwStop, SendOk,
         reinit_completion, AbandonStream, release_streaming_firmware, At,
         Goto, bufVars, vbVars, verVars, runVars, callVars, Labels,
         Submitting, Stopping, Starting, Feeding
<1>5. Context'
  BY DEF IInv, Typed, OwnedOnce, Calls, InHand, Context, FwStop, SendOk,
         reinit_completion, AbandonStream, release_streaming_firmware, At,
         Goto, bufVars, vbVars, verVars, runVars, callVars, Labels,
         Submitting, Stopping
<1>6. InHand'
  BY DEF IInv, Typed, Flags, Calls, InHand, Pipeline, FwStop, SendOk,
         reinit_completion, AbandonStream, release_streaming_firmware, At,
         Goto, bufVars, vbVars, verVars, runVars, callVars, Labels,
         Submitting, Stopping, Starting, Feeding
<1>7. Pipeline'
  BY DEF IInv, Typed, Flags, Calls, Pipeline, InHand, FwStop, SendOk,
         reinit_completion, AbandonStream, release_streaming_firmware, At,
         Goto, bufVars, vbVars, verVars, runVars, callVars, Labels,
         Submitting, Stopping, Starting, Feeding
<1>8. Ownership'
  BY DEF IInv, Typed, Flags, Calls, Pipeline, Ownership, FwStop, SendOk,
         reinit_completion, AbandonStream, release_streaming_firmware, At,
         Goto, bufVars, vbVars, verVars, runVars, callVars, Labels,
         Submitting, Stopping, Starting, Feeding, Unwinding
<1>9. Verified'
  BY DEF IInv, Typed, Verified, FwStop, SendOk, reinit_completion,
         AbandonStream, release_streaming_firmware, At, Goto, bufVars, vbVars,
         verVars, runVars, callVars, Labels, Submitting
<1>10. QED
  BY <1>1, <1>2, <1>3, <1>4, <1>5, <1>6, <1>7, <1>8, <1>9
     DEF IInv

\* A stop that fails or times out abandons the stream.
LEMMA StopWait_keeps ==
    ASSUME IInv, StopWait
    PROVE  IInv'
<1>1. Typed'
  BY DEF IInv, Typed, StopWait, AbandonStream, release_streaming_firmware,
         Unwinding, At, Goto, bufVars, vbVars, ackVars, verVars, runVars,
         callVars, fwVars, Labels
<1>2. Flags'
  BY DEF IInv, Flags, StopWait, AbandonStream, release_streaming_firmware,
         Unwinding, At, Goto, bufVars, vbVars, ackVars, verVars, runVars,
         callVars, fwVars, Labels
<1>3. OwnedOnce'
  BY DEF IInv, Typed, OwnedOnce, Calls, InHand, Context, StopWait,
         AbandonStream, release_streaming_firmware, Unwinding, At, Goto,
         bufVars, vbVars, ackVars, verVars, runVars, callVars, fwVars, Labels,
         Submitting, Stopping
<1>4. Calls'
  BY DEF IInv, Typed, Flags, Calls, Pipeline, StopWait, AbandonStream,
         release_streaming_firmware, Unwinding, At, Goto, bufVars, vbVars,
         ackVars, verVars, runVars, callVars, fwVars, Labels, Submitting,
         Stopping, Starting, Feeding
<1>5. Context'
  BY DEF IInv, Typed, OwnedOnce, Calls, InHand, Context, StopWait,
         AbandonStream, release_streaming_firmware, Unwinding, At, Goto,
         bufVars, vbVars, ackVars, verVars, runVars, callVars, fwVars, Labels,
         Submitting, Stopping
<1>6. InHand'
  BY DEF IInv, Typed, Flags, Calls, InHand, Pipeline, StopWait, AbandonStream,
         release_streaming_firmware, Unwinding, At, Goto, bufVars, vbVars,
         ackVars, verVars, runVars, callVars, fwVars, Labels, Submitting,
         Stopping, Starting, Feeding
<1>7. Pipeline'
  BY DEF IInv, Typed, Flags, Calls, Pipeline, InHand, StopWait, AbandonStream,
         release_streaming_firmware, Unwinding, At, Goto, bufVars, vbVars,
         ackVars, verVars, runVars, callVars, fwVars, Labels, Submitting,
         Stopping, Starting, Feeding
<1>8. Ownership'
  BY DEF IInv, Typed, Flags, Calls, Pipeline, Ownership, StopWait,
         AbandonStream, release_streaming_firmware, At, Goto, bufVars, vbVars,
         ackVars, verVars, runVars, callVars, fwVars, Labels, Submitting,
         Stopping, Starting, Feeding, Unwinding
<1>9. Verified'
  BY DEF IInv, Typed, Verified, StopWait, AbandonStream,
         release_streaming_firmware, Unwinding, At, Goto, bufVars, vbVars,
         ackVars, verVars, runVars, callVars, fwVars, Labels, Submitting
<1>10. QED
  BY <1>1, <1>2, <1>3, <1>4, <1>5, <1>6, <1>7, <1>8, <1>9
     DEF IInv

\* STREAM_CLOSE is sent, or the stream is abandoned.
LEMMA FwClose_keeps ==
    ASSUME IInv, FwClose
    PROVE  IInv'
<1>1. Typed'
  BY DEF IInv, Typed, FwClose, CloseSend, SendOk, reinit_completion,
         AbandonStream, release_streaming_firmware, At, Goto, bufVars, vbVars,
         verVars, runVars, callVars, AfterClose, Unwinding, Labels
<1>2. Flags'
  BY DEF IInv, Flags, FwClose, CloseSend, SendOk, reinit_completion,
         AbandonStream, release_streaming_firmware, At, Goto, bufVars, vbVars,
         verVars, runVars, callVars, AfterClose, Unwinding, Labels
<1>3. OwnedOnce'
  BY DEF IInv, Typed, OwnedOnce, Calls, InHand, Context, FwClose, CloseSend,
         SendOk, reinit_completion, AbandonStream, release_streaming_firmware,
         At, Goto, bufVars, vbVars, verVars, runVars, callVars, AfterClose,
         Unwinding, Labels, Submitting, Stopping
<1>4. Calls'
  BY DEF IInv, Typed, Flags, Calls, Pipeline, FwClose, CloseSend, SendOk,
         reinit_completion, AbandonStream, release_streaming_firmware, At,
         Goto, bufVars, vbVars, verVars, runVars, callVars, AfterClose,
         Unwinding, Labels, Submitting, Stopping, Starting, Feeding
<1>5. Context'
  BY DEF IInv, Typed, OwnedOnce, Calls, InHand, Context, FwClose, CloseSend,
         SendOk, reinit_completion, AbandonStream, release_streaming_firmware,
         At, Goto, bufVars, vbVars, verVars, runVars, callVars, AfterClose,
         Unwinding, Labels, Submitting, Stopping
<1>6. InHand'
  BY DEF IInv, Typed, Flags, Calls, InHand, Pipeline, FwClose, CloseSend,
         SendOk, reinit_completion, AbandonStream, release_streaming_firmware,
         At, Goto, bufVars, vbVars, verVars, runVars, callVars, AfterClose,
         Unwinding, Labels, Submitting, Stopping, Starting, Feeding
<1>7. Pipeline'
  BY DEF IInv, Typed, Flags, Calls, Pipeline, InHand, FwClose, CloseSend,
         SendOk, reinit_completion, AbandonStream, release_streaming_firmware,
         At, Goto, bufVars, vbVars, verVars, runVars, callVars, AfterClose,
         Unwinding, Labels, Submitting, Stopping, Starting, Feeding
<1>8. Ownership'
  BY DEF IInv, Typed, Flags, Calls, Pipeline, Ownership, FwClose, CloseSend,
         SendOk, reinit_completion, AbandonStream, release_streaming_firmware,
         At, Goto, bufVars, vbVars, verVars, runVars, callVars, AfterClose,
         Labels, Submitting, Stopping, Starting, Feeding, Unwinding
<1>9. Verified'
  BY DEF IInv, Typed, Verified, FwClose, CloseSend, SendOk, reinit_completion,
         AbandonStream, release_streaming_firmware, At, Goto, bufVars, vbVars,
         verVars, runVars, callVars, AfterClose, Unwinding, Labels, Submitting
<1>10. QED
  BY <1>1, <1>2, <1>3, <1>4, <1>5, <1>6, <1>7, <1>8, <1>9
     DEF IInv

\* The close gives the handle back whatever its result.
LEMMA CloseWait_keeps ==
    ASSUME IInv, CloseWait
    PROVE  IInv'
<1>1. Typed'
  BY DEF IInv, Typed, CloseWait, CloseWaited, release_streaming_firmware,
         AbandonStream, At, Goto, bufVars, vbVars, ackVars, verVars, runVars,
         callVars, AfterClose, Unwinding, Labels
<1>2. Flags'
  BY DEF IInv, Flags, CloseWait, CloseWaited, release_streaming_firmware,
         AbandonStream, At, Goto, bufVars, vbVars, ackVars, verVars, runVars,
         callVars, AfterClose, Unwinding, Labels
<1>3. OwnedOnce'
  BY DEF IInv, Typed, OwnedOnce, Calls, InHand, Context, CloseWait,
         CloseWaited, release_streaming_firmware, AbandonStream, At, Goto,
         bufVars, vbVars, ackVars, verVars, runVars, callVars, AfterClose,
         Unwinding, Labels, Submitting, Stopping
<1>4. Calls'
  BY DEF IInv, Typed, Flags, Calls, Pipeline, CloseWait, CloseWaited,
         release_streaming_firmware, AbandonStream, At, Goto, bufVars, vbVars,
         ackVars, verVars, runVars, callVars, AfterClose, Unwinding, Labels,
         Submitting, Stopping, Starting, Feeding
<1>5. Context'
  BY DEF IInv, Typed, OwnedOnce, Calls, InHand, Context, CloseWait,
         CloseWaited, release_streaming_firmware, AbandonStream, At, Goto,
         bufVars, vbVars, ackVars, verVars, runVars, callVars, AfterClose,
         Unwinding, Labels, Submitting, Stopping
<1>6. InHand'
  BY DEF IInv, Typed, Flags, Calls, InHand, Pipeline, CloseWait, CloseWaited,
         release_streaming_firmware, AbandonStream, At, Goto, bufVars, vbVars,
         ackVars, verVars, runVars, callVars, AfterClose, Unwinding, Labels,
         Submitting, Stopping, Starting, Feeding
<1>7. Pipeline'
  BY DEF IInv, Typed, Flags, Calls, Pipeline, InHand, CloseWait, CloseWaited,
         release_streaming_firmware, AbandonStream, At, Goto, bufVars, vbVars,
         ackVars, verVars, runVars, callVars, AfterClose, Unwinding, Labels,
         Submitting, Stopping, Starting, Feeding
<1>8. Ownership'
  BY DEF IInv, Typed, Flags, Calls, Pipeline, Ownership, CloseWait,
         CloseWaited, release_streaming_firmware, AbandonStream, At, Goto,
         bufVars, vbVars, ackVars, verVars, runVars, callVars, AfterClose,
         Labels, Submitting, Stopping, Starting, Feeding, Unwinding
<1>9. Verified'
  BY DEF IInv, Typed, Verified, CloseWait, CloseWaited,
         release_streaming_firmware, AbandonStream, At, Goto, bufVars, vbVars,
         ackVars, verVars, runVars, callVars, AfterClose, Unwinding, Labels,
         Submitting
<1>10. QED
  BY <1>1, <1>2, <1>3, <1>4, <1>5, <1>6, <1>7, <1>8, <1>9
     DEF IInv

\* The sensor stops, or the device is marked for a reset.
LEMMA SensorOff_keeps ==
    ASSUME IInv, SensorOff
    PROVE  IInv'
<1>1. Typed'
  BY DEF IInv, Typed, SensorOff, Unwinding, At, Goto, bufVars, vbVars,
         ackVars, verVars, runVars, callVars, fwVars, Labels
<1>2. Flags'
  BY DEF IInv, Flags, SensorOff, Unwinding, At, Goto, bufVars, vbVars,
         ackVars, verVars, runVars, callVars, fwVars, Labels
<1>3. OwnedOnce'
  BY DEF IInv, Typed, OwnedOnce, Calls, InHand, Context, SensorOff, Unwinding,
         At, Goto, bufVars, vbVars, ackVars, verVars, runVars, callVars,
         fwVars, Labels, Submitting, Stopping
<1>4. Calls'
  BY DEF IInv, Typed, Flags, Calls, Pipeline, SensorOff, Unwinding, At, Goto,
         bufVars, vbVars, ackVars, verVars, runVars, callVars, fwVars, Labels,
         Submitting, Stopping, Starting, Feeding
<1>5. Context'
  BY DEF IInv, Typed, OwnedOnce, Calls, InHand, Context, SensorOff, Unwinding,
         At, Goto, bufVars, vbVars, ackVars, verVars, runVars, callVars,
         fwVars, Labels, Submitting, Stopping
<1>6. InHand'
  BY DEF IInv, Typed, Flags, Calls, InHand, Pipeline, SensorOff, Unwinding,
         At, Goto, bufVars, vbVars, ackVars, verVars, runVars, callVars,
         fwVars, Labels, Submitting, Stopping, Starting, Feeding
<1>7. Pipeline'
  BY DEF IInv, Typed, Flags, Calls, Pipeline, InHand, SensorOff, Unwinding,
         At, Goto, bufVars, vbVars, ackVars, verVars, runVars, callVars,
         fwVars, Labels, Submitting, Stopping, Starting, Feeding
<1>8. Ownership'
  BY DEF IInv, Typed, Flags, Calls, Pipeline, Ownership, SensorOff, At, Goto,
         bufVars, vbVars, ackVars, verVars, runVars, callVars, fwVars, Labels,
         Submitting, Stopping, Starting, Feeding, Unwinding
<1>9. Verified'
  BY DEF IInv, Typed, Verified, SensorOff, Unwinding, At, Goto, bufVars,
         vbVars, ackVars, verVars, runVars, callVars, fwVars, Labels,
         Submitting
<1>10. QED
  BY <1>1, <1>2, <1>3, <1>4, <1>5, <1>6, <1>7, <1>8, <1>9
     DEF IInv

\* The sub-devices stop on every path out of streaming.
LEMMA SubdevsOff_keeps ==
    ASSUME IInv, SubdevsOff
    PROVE  IInv'
<1>1. Typed'
  BY DEF IInv, Typed, SubdevsOff, Unwinding, At, Goto, bufVars, vbVars,
         ackVars, verVars, runVars, callVars, fwVars, Labels
<1>2. Flags'
  BY DEF IInv, Flags, SubdevsOff, Unwinding, At, Goto, bufVars, vbVars,
         ackVars, verVars, runVars, callVars, fwVars, Labels
<1>3. OwnedOnce'
  BY DEF IInv, Typed, OwnedOnce, Calls, InHand, Context, SubdevsOff,
         Unwinding, At, Goto, bufVars, vbVars, ackVars, verVars, runVars,
         callVars, fwVars, Labels, Submitting, Stopping
<1>4. Calls'
  BY DEF IInv, Typed, Flags, Calls, Pipeline, SubdevsOff, Unwinding, At, Goto,
         bufVars, vbVars, ackVars, verVars, runVars, callVars, fwVars, Labels,
         Submitting, Stopping, Starting, Feeding
<1>5. Context'
  BY DEF IInv, Typed, OwnedOnce, Calls, InHand, Context, SubdevsOff,
         Unwinding, At, Goto, bufVars, vbVars, ackVars, verVars, runVars,
         callVars, fwVars, Labels, Submitting, Stopping
<1>6. InHand'
  BY DEF IInv, Typed, Flags, Calls, InHand, Pipeline, SubdevsOff, Unwinding,
         At, Goto, bufVars, vbVars, ackVars, verVars, runVars, callVars,
         fwVars, Labels, Submitting, Stopping, Starting, Feeding
<1>7. Pipeline'
  BY DEF IInv, Typed, Flags, Calls, Pipeline, InHand, SubdevsOff, Unwinding,
         At, Goto, bufVars, vbVars, ackVars, verVars, runVars, callVars,
         fwVars, Labels, Submitting, Stopping, Starting, Feeding
<1>8. Ownership'
  BY DEF IInv, Typed, Flags, Calls, Pipeline, Ownership, SubdevsOff, At, Goto,
         bufVars, vbVars, ackVars, verVars, runVars, callVars, fwVars, Labels,
         Submitting, Stopping, Starting, Feeding, Unwinding
<1>9. Verified'
  BY DEF IInv, Typed, Verified, SubdevsOff, Unwinding, At, Goto, bufVars,
         vbVars, ackVars, verVars, runVars, callVars, fwVars, Labels,
         Submitting
<1>10. QED
  BY <1>1, <1>2, <1>3, <1>4, <1>5, <1>6, <1>7, <1>8, <1>9
     DEF IInv

\* The software pipeline is not streaming after a stop or a failed start.
LEMMA Stopped_keeps ==
    ASSUME IInv, Stopped
    PROVE  IInv'
<1>1. Typed'
  BY DEF IInv, Typed, Stopped, At, Goto, bufVars, vbVars, ackVars, verVars,
         hwVars, callVars, fwVars, Labels
<1>2. Flags'
  BY DEF IInv, Flags, Stopped, At, Goto, bufVars, vbVars, ackVars, verVars,
         hwVars, callVars, fwVars, Labels
<1>3. OwnedOnce'
  BY DEF IInv, Typed, OwnedOnce, Calls, InHand, Context, Stopped, At, Goto,
         bufVars, vbVars, ackVars, verVars, hwVars, callVars, fwVars, Labels,
         Submitting, Stopping
<1>4. Calls'
  BY DEF IInv, Typed, Flags, Calls, Pipeline, Stopped, At, Goto, bufVars,
         vbVars, ackVars, verVars, hwVars, callVars, fwVars, Labels,
         Submitting, Stopping, Starting, Feeding
<1>5. Context'
  BY DEF IInv, Typed, OwnedOnce, Calls, InHand, Context, Stopped, At, Goto,
         bufVars, vbVars, ackVars, verVars, hwVars, callVars, fwVars, Labels,
         Submitting, Stopping
<1>6. InHand'
  BY DEF IInv, Typed, Flags, Calls, InHand, Pipeline, Stopped, At, Goto,
         bufVars, vbVars, ackVars, verVars, hwVars, callVars, fwVars, Labels,
         Submitting, Stopping, Starting, Feeding
<1>7. Pipeline'
  BY DEF IInv, Typed, Flags, Calls, Pipeline, InHand, Stopped, At, Goto,
         bufVars, vbVars, ackVars, verVars, hwVars, callVars, fwVars, Labels,
         Submitting, Stopping, Starting, Feeding
<1>8. Ownership'
  BY DEF IInv, Typed, Flags, Calls, Pipeline, Ownership, Stopped, At, Goto,
         bufVars, vbVars, ackVars, verVars, hwVars, callVars, fwVars, Labels,
         Submitting, Stopping, Starting, Feeding, Unwinding
<1>9. Verified'
  BY DEF IInv, Typed, Verified, Stopped, At, Goto, bufVars, vbVars, ackVars,
         verVars, hwVars, callVars, fwVars, Labels, Submitting
<1>10. QED
  BY <1>1, <1>2, <1>3, <1>4, <1>5, <1>6, <1>7, <1>8, <1>9
     DEF IInv

\* A failed start gives back the list in hand and the active buffers.
LEMMA Requeue_keeps ==
    ASSUME IInv, Requeue
    PROVE  IInv'
BY DEF IInv, Typed, Flags, OwnedOnce, Calls, Context, InHand, Pipeline,
       Ownership, Verified, Requeue, buffer_done, At, Goto, vbVars, ackVars,
       verVars, hwVars, runVars, callVars, fwVars, Starting, Submitting,
       Feeding, Stopping, Labels, Unwinding

\* The end of STREAMOFF or of a failed STREAMON empties both lists.
LEMMA return_buffers_keeps ==
    ASSUME IInv, return_buffers
    PROVE  IInv'
<1>1. Typed'
  BY DEF IInv, Typed, return_buffers, buffer_done, At, Goto, ackVars, verVars,
         callVars, fwVars, Labels
<1>2. Flags'
  BY DEF IInv, Flags, return_buffers, buffer_done, At, Goto, ackVars, verVars,
         callVars, fwVars, Labels
<1>3. OwnedOnce'
  BY DEF IInv, Typed, OwnedOnce, Calls, InHand, Context, return_buffers,
         buffer_done, At, Goto, ackVars, verVars, callVars, fwVars, Labels,
         Submitting, Stopping
<1>4. Calls'
  BY DEF IInv, Typed, Flags, Calls, Pipeline, return_buffers, buffer_done, At,
         Goto, ackVars, verVars, callVars, fwVars, Labels, Submitting,
         Stopping, Starting, Feeding
<1>5. Context'
  BY DEF IInv, Typed, OwnedOnce, Calls, InHand, Context, return_buffers,
         buffer_done, At, Goto, ackVars, verVars, callVars, fwVars, Labels,
         Submitting, Stopping
<1>6. InHand'
  BY DEF IInv, Typed, Flags, Calls, InHand, Pipeline, return_buffers,
         buffer_done, At, Goto, ackVars, verVars, callVars, fwVars, Labels,
         Submitting, Stopping, Starting, Feeding
<1>7. Pipeline'
  BY DEF IInv, Typed, Flags, Calls, Pipeline, InHand, return_buffers,
         buffer_done, At, Goto, ackVars, verVars, callVars, fwVars, Labels,
         Submitting, Stopping, Starting, Feeding
<1>8. Ownership'
  BY DEF IInv, Typed, Flags, Calls, Pipeline, Ownership, return_buffers,
         buffer_done, At, Goto, ackVars, verVars, callVars, fwVars, Labels,
         Submitting, Stopping, Starting, Feeding, Unwinding
<1>9. Verified'
  BY DEF IInv, Typed, Verified, return_buffers, buffer_done, At, Goto,
         ackVars, verVars, callVars, fwVars, Labels, Submitting
<1>10. QED
  BY <1>1, <1>2, <1>3, <1>4, <1>5, <1>6, <1>7, <1>8, <1>9
     DEF IInv

\* A response completes, parks or ignores a buffer, at any label.
LEMMA isys_isr_one_keeps ==
    ASSUME IInv, isys_isr_one
    PROVE  IInv'
BY DEF IInv, Typed, Flags, OwnedOnce, Calls, Context, InHand, Pipeline,
       Ownership, Verified, isys_isr_one, ipu_isys_queue_buf_ready,
       buffer_done, vbVars, ackVars, hwVars, runVars, callVars, Starting,
       Submitting, Feeding, Stopping, Labels, Unwinding

\* The firmware's own steps touch no driver state.
LEMMA FirmwareStep_keeps ==
    ASSUME IInv, FirmwareStep
    PROVE  IInv'
BY DEF IInv, Typed, Flags, OwnedOnce, Calls, Context, InHand, Pipeline,
       Ownership, Verified, FirmwareStep, Respond, bufVars, vbVars, ackVars,
       verVars, hwVars, runVars, callVars, Starting, Submitting, Feeding,
       Stopping, Labels, Unwinding

\* A finished frame touches no driver state before its response.
LEMMA FirmwareFrame_keeps ==
    ASSUME NEW b \in Bufs, NEW err \in BOOLEAN, IInv, FirmwareFrame(b, err)
    PROVE  IInv'
BY DEF IInv, Typed, Flags, OwnedOnce, Calls, Context, InHand, Pipeline,
       Ownership, Verified, FirmwareFrame, Respond, bufVars, vbVars, ackVars,
       verVars, hwVars, runVars, callVars, Starting, Submitting, Feeding,
       Stopping, Labels, Unwinding
-----------------------------------------------------------------------------
\* A closed, idle node satisfies the invariant.
LEMMA Init_establishes == Init => IInv
BY DEF Init, IInv, Typed, Flags, OwnedOnce, Calls, Context, InHand, Pipeline,
       Ownership, Verified, Starting, Submitting, Feeding, Stopping, Labels,
       Unwinding

\* A stuttering step changes nothing.
LEMMA Stutter_keeps ==
    ASSUME IInv, UNCHANGED vars
    PROVE  IInv'
BY DEF vars, bufVars, vbVars, ackVars, verVars, hwVars, runVars, callVars,
       fwVars, IInv, Typed, Flags, OwnedOnce, Calls, Context, InHand,
       Pipeline, Ownership, Verified, Unwinding

\* Every step of the thread that holds av->mutex preserves the invariant.
LEMMA Holder_keeps ==
    ASSUME IInv, Holder
    PROVE  IInv'
<1>1. CASE SubdevsOn \/ FwOpen \/ OpenWait \/ FwStart \/ StartSend
             \/ StartWait \/ OutClose \/ OutCloseWait \/ SensorOn
  BY <1>1, SubdevsOn_keeps, FwOpen_keeps, OpenWait_keeps, FwStart_keeps,
     StartSend_keeps, StartWait_keeps, OutClose_keeps, OutCloseWait_keeps,
     SensorOn_keeps
<1>2. CASE buffer_list_get \/ CaptureActivate \/ CaptureSend
             \/ Verify \/ VerifyWait \/ Bounce \/ VerifyEnd
  BY <1>2, buffer_list_get_keeps, CaptureActivate_keeps, CaptureSend_keeps,
     Verify_keeps, VerifyWait_keeps, Bounce_keeps, VerifyEnd_keeps
<1>3. CASE FwStop \/ StopWait \/ FwClose \/ CloseWait \/ SensorOff
             \/ SubdevsOff \/ Stopped \/ Requeue \/ return_buffers
  BY <1>3, FwStop_keeps, StopWait_keeps, FwClose_keeps, CloseWait_keeps,
     SensorOff_keeps, SubdevsOff_keeps, Stopped_keeps, Requeue_keeps,
     return_buffers_keeps
<1>4. QED
  BY <1>1, <1>2, <1>3 DEF Holder

\* The inductive invariant: every step of the application, the driver, the
\* interrupt handler and the firmware preserves it.
THEOREM Invariance == Spec => []IInv
<1>1. ASSUME IInv, [Next]_vars
      PROVE  IInv'
  <2>1. CASE Holder
    BY <1>1, <2>1, Holder_keeps
  <2>2. CASE video_open \/ video_release \/ buf_queue \/ start_streaming
               \/ stop_streaming \/ isys_isr_one \/ FirmwareStep
    BY <1>1, <2>2, video_open_keeps, video_release_keeps, buf_queue_keeps,
       start_streaming_keeps, stop_streaming_keeps, isys_isr_one_keeps,
       FirmwareStep_keeps
  <2>3. ASSUME NEW b \in Bufs, QBuf(b)
        PROVE  IInv'
    BY <1>1, <2>3, QBuf_keeps
  <2>4. ASSUME NEW b \in Bufs, NEW err \in BOOLEAN, FirmwareFrame(b, err)
        PROVE  IInv'
    BY <1>1, <2>4, FirmwareFrame_keeps
  <2>5. CASE UNCHANGED vars
    BY <1>1, <2>5, Stutter_keeps
  <2>6. QED
    BY <1>1, <2>1, <2>2, <2>3, <2>4, <2>5 DEF Next
<1>2. QED
  BY <1>1, Init_establishes, PTL DEF Spec

\* A buffer of the driver is linked exactly once and no other buffer is, so
\* each is completed exactly once (ipu_isys_buffer_list_queue,
\* return_buffers, ipu_isys_queue_buf_ready).
THEOREM BufferAccounting == Spec => []OwnedOnce
<1>1. IInv => OwnedOnce
  BY DEF IInv
<1>2. QED
  BY <1>1, Invariance, PTL

\* QUEUED and ERROR fit the vb2 context the buffers are returned in.
THEOREM ContextOfReturn == Spec => []ReturnedInContext
<1>1. IInv => ReturnedInContext
  BY DEF IInv, Context, ReturnedInContext
<1>2. QED
  BY <1>1, Invariance, PTL

\* Between calls pipeline, handle and sub-devices are all on or all off.
THEOREM QuietBetweenCalls == Spec => []QuietWhenStopped
<1>1. IInv => QuietWhenStopped
  BY DEF IInv, Pipeline, Ownership, QuietWhenStopped, Submitting
<1>2. QED
  BY <1>1, Invariance, PTL

\* No start returns success without a clean frame (verify_stream_start).
THEOREM VerifiedStart == Spec => StartIsVerified
<1> DEFINE P == pc # "idle" /\ pc' = "idle" /\ streaming' /\ sub # "qbuf"
                  => clean
<1>1. ASSUME IInv, Next, pc # "idle", pc' = "idle", streaming', sub # "qbuf"
      PROVE  clean
  <2>1. Holder
    <3>1. ~video_open
      BY <1>1 DEF video_open
    <3>2. \A b \in Bufs, err \in BOOLEAN : ~FirmwareFrame(b, err)
      BY <1>1 DEF FirmwareFrame
    <3>3. ~isys_isr_one /\ ~FirmwareStep
      BY <1>1 DEF isys_isr_one, FirmwareStep
    <3>4. QED
      BY <1>1, <3>1, <3>2, <3>3
         DEF Next, At, QBuf, buf_queue, start_streaming, stop_streaming,
             video_release
  <2>2. buffer_list_get \/ CaptureSend \/ Verify \/ Requeue \/ return_buffers
    BY <1>1, <2>1
       DEF Holder, At, Goto, SubdevsOn, FwOpen, OpenWait, FwStart, StartSend,
           StartWait, OutClose, OutCloseWait, CloseSend, CloseWaited,
           SensorOn, CaptureActivate, VerifyWait, Bounce, VerifyEnd, FwStop,
           StopWait, FwClose, CloseWait, AfterClose, SensorOff, SubdevsOff,
           Stopped
  <2>3. CASE buffer_list_get
    BY <1>1, <2>3
       DEF IInv, Typed, Verified, Submitting, buffer_list_get, At, Goto,
           NoData, Succeed, SubmitFailed
  <2>4. CASE CaptureSend
    BY <1>1, <2>4
       DEF IInv, Typed, CaptureSend, At, Goto, SubmitFailed
  <2>5. CASE Verify
    BY <1>1, <2>5 DEF Verify, At, Goto
  <2>6. CASE Requeue \/ return_buffers
    BY <1>1, <2>6
       DEF IInv, Pipeline, Requeue, return_buffers, At, runVars
  <2>7. QED
    BY <2>2, <2>3, <2>4, <2>5, <2>6
<1>2. IInv /\ [Next]_vars => [P]_vars
  BY <1>1
<1>3. QED
  BY <1>2, Invariance, PTL DEF Spec, StartIsVerified
=============================================================================
