---------------------- MODULE IsysStreamFirmwareProofs ----------------------
(***************************************************************************)
(* Proofs about the driver's conversation with the firmware in IsysStream: *)
(* type correctness, what stays on incoming, and that no buffer is given   *)
(* back while it is a DMA target.  They hold for any number of buffers,    *)
(* retries, command and response slots, whatever commands the firmware     *)
(* refuses.  IInv of IsysStreamProofs supplies the control state.          *)
(*                                                                         *)
(* DmaOnlyWhileActive looks at the firmware's buffers and at the command   *)
(* queue alone.  It is inductive only with the rest of a buffer's way: it  *)
(* is at most once on command queue, firmware and response queue together, *)
(* so that the interrupt which takes it off active was its last mention;   *)
(* and a STREAM_CLOSE that the driver saw acknowledged without an error    *)
(* left nothing on the way.  The latter is delicate because every response *)
(* overwrites ip->error: a frame that follows a refused close clears it.   *)
(***************************************************************************)
EXTENDS IsysStreamProofs, FiniteSetTheorems

\* The elements of the two queues.
Command == [type : Commands, buf : Bufs \cup {NoBuf}, old : BOOLEAN]
Response == [type : Commands \cup {"pin"}, buf : Bufs \cup {NoBuf},
             err : BOOLEAN]

\* The flags the handshake with the firmware is made of.
Handshake ==
    /\ opened \in BOOLEAN /\ error \in BOOLEAN /\ clean \in BOOLEAN
    /\ reset_needed \in BOOLEAN /\ mine \in BOOLEAN
    /\ completions \subseteq Acks
    /\ msg \in Bufs \cup {NoBuf}
    /\ fw \in {"closed", "open", "started"}
    /\ held \subseteq Bufs

\* The counters.  A bounce, and the refeed after it, leave one retry.
Counts ==
    /\ waiters \in 0..MaxWaiters
    /\ retry \in 0..MaxRetry
    /\ pc = "bounce" => retry < MaxRetry
    /\ pc \in Submitting /\ sub = "refeed" => retry < MaxRetry
    /\ pc = "verify_end" => sub \in {"final", "fail"}

Queues ==
    /\ cmds \in Seq(Command)
    /\ resps \in Seq(Response)
-----------------------------------------------------------------------------
\* What the interrupt handler and the firmware take is well formed.
LEMMA HeadTypes ==
    ASSUME Queues
    PROVE  /\ resps # << >> => Head(resps).err \in BOOLEAN
           /\ cmds # << >> => /\ Head(cmds).type \in Commands
                              /\ Head(cmds).buf \in Bufs \cup {NoBuf}
<1>1. resps # << >> => Head(resps) \in Response
  BY DEF Queues
<1>2. cmds # << >> => Head(cmds) \in Command
  BY DEF Queues
<1>3. QED
  BY <1>1, <1>2 DEF Response, Command

\* Every step keeps the types of the flags, of the completions and of msg.
LEMMA HandshakeStep ==
    ASSUME IInv, Handshake, Queues, [Next]_vars
    PROVE  Handshake'
<1> USE DEF Next, vars, Holder, At, Goto, bufVars, vbVars, ackVars, verVars,
            hwVars, runVars, callVars, fwVars, video_open, FreshFirmware,
            video_release, QBuf, buf_queue, StreamStart, start_streaming,
            stop_streaming, SubdevsOn, FwOpen, reinit_completion, SendOk,
            SendFails, OpenWait, release_streaming_firmware, FwStart,
            StartSend, StartWait, OutClose, OutCloseWait, CloseSend,
            CloseWaited, AbandonStream, SensorOn, buffer_list_get, NoData,
            Succeed, SubmitFailed, CaptureActivate, CaptureSend, Verify,
            VerifyWait, Bounce, VerifyEnd, FwStop, StopWait, FwClose,
            CloseWait, AfterClose, SensorOff, SubdevsOff, Stopped, Requeue,
            return_buffers, isys_isr_one, FirmwareStep, FirmwareFrame
<1>1. opened' \in BOOLEAN
  BY DEF Handshake
<1>2. error' \in BOOLEAN
  BY HeadTypes DEF Handshake
<1>3. clean' \in BOOLEAN
  BY DEF Handshake
<1>4. reset_needed' \in BOOLEAN
  BY DEF Handshake
<1>5. mine' \in BOOLEAN
  BY DEF Handshake
<1>6. completions' \subseteq Acks
  BY DEF Handshake
<1>7. msg' \in Bufs \cup {NoBuf}
  BY DEF Handshake, IInv, Typed
<1>8. fw' \in {"closed", "open", "started"}
  BY HeadTypes DEF Handshake, After, Commands, Acks
<1>9. held' \subseteq Bufs
  BY HeadTypes DEF Handshake
<1>10. QED
  BY <1>1, <1>2, <1>3, <1>4, <1>5, <1>6, <1>7, <1>8, <1>9 DEF Handshake

\* The waiters stay within their bound, and so do the sensor bounces.
LEMMA CountsStep ==
    ASSUME IInv, Counts, [Next]_vars
    PROVE  Counts'
<1> USE DEF Next, vars, Holder, At, Goto, bufVars, vbVars, ackVars, verVars,
            hwVars, runVars, callVars, fwVars, video_open, FreshFirmware,
            video_release, QBuf, buf_queue, StreamStart, start_streaming,
            stop_streaming, SubdevsOn, FwOpen, reinit_completion, SendOk,
            SendFails, OpenWait, release_streaming_firmware, FwStart,
            StartSend, StartWait, OutClose, OutCloseWait, CloseSend,
            CloseWaited, AbandonStream, SensorOn, buffer_list_get, NoData,
            Succeed, SubmitFailed, CaptureActivate, CaptureSend, Verify,
            VerifyWait, Bounce, VerifyEnd, FwStop, StopWait, FwClose,
            CloseWait, AfterClose, SensorOff, SubdevsOff, Stopped, Requeue,
            return_buffers, isys_isr_one, FirmwareStep, FirmwareFrame
<1>1. \/ waiters' = waiters
      \/ waiters < MaxWaiters /\ waiters' = waiters + 1
      \/ waiters > 0 /\ waiters' = waiters - 1
  OBVIOUS
<1>2. \/ retry' = retry
      \/ retry' = 0
      \/ At("take") /\ sub = "refeed" /\ retry' = retry + 1
  BY DEF IInv, Typed
<1>3. pc' = "bounce" => \/ pc = "bounce" /\ retry' = retry
                        \/ retry < MaxRetry /\ retry' = retry
  BY DEF IInv, Typed
<1>4. pc' \in Submitting /\ sub' = "refeed" =>
        \/ pc \in Submitting /\ sub = "refeed" /\ retry' = retry
        \/ pc = "bounce" /\ retry' = retry
  BY DEF Submitting, IInv, Typed, Counts
<1>a. pc' = "verify_end" => sub' \in {"final", "fail"}
  BY DEF IInv, Typed, Counts
<1> HIDE DEF Next, vars, Holder
<1>5. waiters' \in 0..MaxWaiters
  BY <1>1, IsysAssumption DEF Counts
<1>6. retry' \in 0..MaxRetry
  BY <1>2, IsysAssumption DEF Counts, Submitting
<1>7. QED
  BY <1>3, <1>4, <1>5, <1>6, <1>a DEF Counts

\* What a step may do to the two queues and to the firmware.
LEMMA FirmwareMoves ==
    ASSUME [Next]_vars
    PROVE  \/ FreshFirmware
           \/ UNCHANGED fwVars
           \/ release_streaming_firmware
           \/ \E type \in Commands, b \in {NoBuf, msg} : SendOk(type, b)
           \/ isys_isr_one
           \/ FirmwareStep
           \/ \E b \in Bufs, err \in BOOLEAN : FirmwareFrame(b, err)
BY DEF Next, vars, Holder, fwVars, Commands, Acks, video_open, video_release,
      QBuf, buf_queue, StreamStart, start_streaming, stop_streaming,
      SubdevsOn, FwOpen, SendFails, OpenWait, FwStart, StartSend, StartWait,
      OutClose, OutCloseWait, CloseSend, CloseWaited, AbandonStream, SensorOn,
      buffer_list_get, CaptureActivate,
      CaptureSend, Verify, VerifyWait, Bounce, VerifyEnd, FwStop, StopWait,
      FwClose, CloseWait, SensorOff, SubdevsOff, Stopped, Requeue,
      return_buffers

\* The queues stay sequences of commands and of responses.
LEMMA QueuesStep ==
    ASSUME Handshake, Queues, [Next]_vars
    PROVE  Queues'
<1>1. CASE FreshFirmware
  BY <1>1 DEF Queues, FreshFirmware
<1>2. CASE UNCHANGED fwVars
  BY <1>2 DEF Queues, fwVars
<1>3. CASE release_streaming_firmware
  <2>1. cmds' = [i \in 1..Len(cmds) |-> [cmds[i] EXCEPT !.old = TRUE]]
    BY <1>3 DEF Queues, release_streaming_firmware
  <2>2. \A i \in 1..Len(cmds) : [cmds[i] EXCEPT !.old = TRUE] \in Command
    <3>1. \A i \in 1..Len(cmds) : cmds[i] \in Command
      BY DEF Queues
    <3>2. \A c \in Command : [c EXCEPT !.old = TRUE] \in Command
      BY DEF Command
    <3>3. QED
      BY <3>1, <3>2
  <2>3. cmds' \in Seq(Command)
    BY <2>1, <2>2 DEF Queues
  <2>4. QED
    BY <2>3, <1>3 DEF Queues, release_streaming_firmware
<1>4. ASSUME NEW type \in Commands, NEW b \in {NoBuf, msg}, SendOk(type, b)
      PROVE  Queues'
  <2>1. [type |-> type, buf |-> b, old |-> FALSE] \in Command
    BY DEF Command, Handshake
  <2>2. QED
    BY <1>4, <2>1 DEF Queues, SendOk
<1>5. CASE isys_isr_one
  BY <1>5 DEF Queues, isys_isr_one
<1>6. CASE FirmwareStep
  <2>1. Tail(cmds) \in Seq(Command) /\ Head(cmds) \in Command
    BY <1>6 DEF Queues, FirmwareStep
  <2>2. PICK err \in BOOLEAN : Respond(Head(cmds).type, NoBuf, err)
    BY <1>6 DEF FirmwareStep
  <2>3. [type |-> Head(cmds).type, buf |-> NoBuf, err |-> err] \in Response
    BY <2>1 DEF Command, Response
  <2>4. resps' \in Seq(Response)
    BY <2>2, <2>3 DEF Respond, Queues
  <2>5. QED
    BY <1>6, <2>1, <2>4 DEF Queues, FirmwareStep
<1>7. ASSUME NEW b \in Bufs, NEW err \in BOOLEAN, FirmwareFrame(b, err)
      PROVE  Queues'
  <2>1. [type |-> "pin", buf |-> b, err |-> err] \in Response
    BY DEF Response
  <2>2. QED
    BY <1>7, <2>1 DEF Queues, FirmwareFrame, Respond
<1>8. QED
  BY <1>1, <1>2, <1>3, <1>4, <1>5, <1>6, <1>7, FirmwareMoves
-----------------------------------------------------------------------------
\* While the node is not open no call is under way.
Closed == ~opened => pc = "idle" /\ vq = "off" /\ waiters = 0

\* The last release finds no call under way; only an open lets one begin.
LEMMA ClosedStep ==
    ASSUME IInv, Closed, Counts, [Next]_vars
    PROVE  Closed'
<1> USE DEF Next, vars, Holder, At, Goto, bufVars, vbVars, ackVars, verVars,
            hwVars, runVars, callVars, fwVars, video_open, FreshFirmware,
            video_release, QBuf, buf_queue, StreamStart, start_streaming,
            stop_streaming, SubdevsOn, FwOpen, reinit_completion, SendOk,
            SendFails, OpenWait, release_streaming_firmware, FwStart,
            StartSend, StartWait, OutClose, OutCloseWait, CloseSend,
            CloseWaited, AbandonStream, SensorOn, buffer_list_get, NoData,
            Succeed, SubmitFailed, CaptureActivate, CaptureSend, Verify,
            VerifyWait, Bounce, VerifyEnd, FwStop, StopWait, FwClose,
            CloseWait, AfterClose, SensorOff, SubdevsOff, Stopped, Requeue,
            return_buffers, isys_isr_one, FirmwareStep, FirmwareFrame
<1>1. video_open \/ video_release \/ opened' = opened
  OBVIOUS
<1>2. ASSUME ~opened, pc = "idle", vq = "off", waiters = 0
      PROVE  UNCHANGED <<pc, vq, waiters>>
  <2>1. ~(waiters > 0)
    BY <1>2
  <2>2. QED
    BY <1>2, <2>1
<1> HIDE DEF Next, vars, Holder
<1>3. CASE video_open
  BY <1>3, <1>2 DEF Closed
<1>4. CASE video_release
  BY <1>4 DEF Closed
<1>5. CASE opened' = opened
  BY <1>5, <1>2 DEF Closed
<1>6. QED
  BY <1>1, <1>3, <1>4, <1>5
-----------------------------------------------------------------------------
\* How many buffers may be left on incoming where the thread stands.
Fed ==
    /\ pc = "idle" /\ streaming => Cardinality(incoming) <= waiters
    /\ pc = "take" /\ sub = "qbuf" => Cardinality(incoming) <= waiters + 1
    /\ pc \in {"activate", "send"} /\ sub = "qbuf"
         => Cardinality(incoming) <= waiters
    /\ pc = "verify" => incoming = {}

\* How the size of incoming changes with one buffer.
LEMMA Counting ==
    ASSUME IInv
    PROVE  /\ Cardinality(incoming) \in Nat
           /\ \A b \in Bufs :
                Cardinality(incoming \cup {b}) <= Cardinality(incoming) + 1
           /\ \A b \in incoming :
                Cardinality(incoming \ {b}) = Cardinality(incoming) - 1
           /\ Cardinality({}) = 0
<1>1. IsFiniteSet(incoming)
  BY IsysAssumption, FS_Subset DEF IInv, Typed
<1>2. Cardinality(incoming) \in Nat
  BY <1>1, FS_CardinalityType
<1>3. \A b \in Bufs :
         Cardinality(incoming \cup {b}) <= Cardinality(incoming) + 1
  <2>1. ASSUME NEW b \in Bufs
        PROVE  Cardinality(incoming \cup {b}) <= Cardinality(incoming) + 1
    <3>1. Cardinality(incoming \cup {b}) =
             IF b \in incoming THEN Cardinality(incoming)
             ELSE Cardinality(incoming) + 1
      BY <1>1, FS_AddElement, Zenon
    <3>2. QED
      BY <1>2, <3>1
  <2>2. QED
    BY <2>1
<1>4. \A b \in incoming :
         Cardinality(incoming \ {b}) = Cardinality(incoming) - 1
  BY <1>1, FS_RemoveElement
<1>5. QED
  BY <1>2, <1>3, <1>4, FS_EmptySet

\* Every step keeps Fed when no allocation fails: a QBUF comes with its own
\* waiter, a submission takes one buffer, and a loop ends on an empty list.
LEMMA FedStep ==
    ASSUME ~NoMem, IInv, Counts, Fed, [Next]_vars
    PROVE  Fed'
<1> DEFINE Aside == /\ UNCHANGED <<pc, sub, streaming, waiters>>
                    /\ ~verify_active => UNCHANGED incoming
<1>1. \/ Aside
      \/ \E b \in Bufs : QBuf(b)
      \/ buf_queue \/ start_streaming \/ stop_streaming \/ Holder
  BY DEF Next, vars, bufVars, vbVars, ackVars, verVars, hwVars, runVars,
         callVars, fwVars, video_open, video_release, isys_isr_one,
         ipu_isys_queue_buf_ready, FirmwareStep, FirmwareFrame
<1>2. waiters \in Nat
  BY IsysAssumption DEF Counts
<1>3. /\ pc = "idle" => ~verify_active
      /\ pc = "verify" => ~verify_active
      /\ pc \in Submitting /\ sub # "refeed" => ~verify_active
      /\ pc = "idle" /\ streaming => attached /\ vq = "on"
  BY DEF IInv, Pipeline, Ownership, Submitting
<1>4. CASE Aside
  BY <1>3, <1>4 DEF Fed, Submitting
<1>5. ASSUME NEW b \in Bufs, QBuf(b)
      PROVE  Fed'
  <2>1. /\ pc = "idle" /\ pc' = pc /\ streaming' = streaming
        /\ \/ vq = "off"
           \/ incoming' = incoming \cup {b} /\ waiters' = waiters + 1
    BY <1>5 DEF QBuf, At, runVars
  <2>2. Cardinality(incoming \cup {b}) <= Cardinality(incoming) + 1
    BY Counting
  <2>3. /\ Cardinality(incoming) \in Nat
        /\ Cardinality(incoming \cup {b}) \in Nat
    BY Counting, IsysAssumption, FS_Subset, FS_CardinalityType,
       FS_AddElement, Zenon DEF IInv, Typed
  <2>4. CASE vq = "off"
    BY <1>3, <2>1, <2>4 DEF Fed
  <2>5. CASE incoming' = incoming \cup {b} /\ waiters' = waiters + 1
    <3>1. Cardinality(incoming') <= Cardinality(incoming) + 1
      BY <2>2, <2>5, Zenon
    <3>2. Cardinality(incoming') \in Nat
      BY <2>3, <2>5, Zenon
    <3>3. QED
      BY <1>2, <2>1, <2>3, <2>5, <3>1, <3>2 DEF Fed
  <2>6. QED
    BY <2>1, <2>4, <2>5
<1>6. CASE buf_queue
  <2>1. /\ pc = "idle" /\ waiters > 0 /\ waiters' = waiters - 1
        /\ streaming' = streaming
        /\ \/ pc' = pc /\ (~attached \/ incoming = {}) /\ incoming' = incoming
           \/ pc' = "subdevs"
           \/ pc' = "take" /\ streaming /\ incoming' = incoming
    BY <1>6 DEF buf_queue, At, Goto, StreamStart, runVars
  <2>2. QED
    BY <1>2, <1>3, <2>1, Counting DEF Fed
<1>7. CASE start_streaming \/ stop_streaming
  <2>1. /\ streaming' = streaming
        /\ \/ pc = "idle" /\ pc' = pc /\ vq = "off"
           \/ pc' \in {"subdevs", "fw_stop", "stopped"}
    BY <1>7 DEF start_streaming, stop_streaming, StreamStart, At, Goto, runVars
  <2>2. QED
    BY <1>3, <2>1 DEF Fed
<1>8. CASE Holder
  <2>1. CASE buffer_list_get
    <3>1. /\ pc = "take" /\ waiters' = waiters /\ sub' = sub
          /\ \/ incoming = {} /\ incoming' = {} /\ pc' # "take"
             \/ /\ pc' = "activate"
                /\ \E b \in incoming : incoming' = incoming \ {b}
      BY <2>1
         DEF buffer_list_get, At, Goto, NoData, Succeed, IInv, Typed
    <3>2. QED
      BY <1>2, <3>1, Counting DEF Fed
  <2>2. CASE CaptureActivate \/ CaptureSend \/ Verify
    <3>1. /\ waiters' = waiters /\ incoming' = incoming
          /\ \/ pc = "activate" /\ pc' = "send" /\ sub' = sub
             \/ pc = "send" /\ sub = "qbuf" /\ pc' = "idle"
             \/ pc = "send" /\ sub # "qbuf" /\ sub' # "qbuf"
                 /\ pc' \in {"take", "verify_end", "fw_stop"}
             \/ pc = "verify" /\ pc' \in {"idle", "verify_wait"}
      BY <2>2
         DEF CaptureActivate, CaptureSend, Verify, At, Goto, Succeed,
             SubmitFailed, vbVars, bufVars
    <3>2. QED
      BY <1>2, <3>1, Counting DEF Fed
  <2>3. CASE VerifyEnd \/ SensorOn \/ Bounce
    <3>1. \/ pc' = "take" /\ sub' # "qbuf"
          \/ pc' \in {"fw_stop", "verify_end"}
      BY <2>3 DEF VerifyEnd, SensorOn, Bounce, At, Goto, callVars, Counts
    <3>2. QED
      BY <3>1 DEF Fed
  <2>4. CASE Requeue \/ return_buffers
    <3>1. ~streaming' /\ pc' \in {"idle", "return"}
      BY <2>4 DEF Requeue, return_buffers, At, Goto, runVars, IInv, Pipeline
    <3>2. QED
      BY <3>1 DEF Fed
  <2>5. CASE \/ SubdevsOn \/ FwOpen \/ OpenWait \/ FwStart \/ StartSend
             \/ StartWait \/ OutClose \/ OutCloseWait \/ VerifyWait
             \/ FwStop \/ StopWait \/ FwClose \/ CloseWait \/ SensorOff
             \/ SubdevsOff \/ Stopped
    <3>1. pc' \notin {"idle", "take", "activate", "send", "verify"}
      BY <2>5
         DEF SubdevsOn, FwOpen, OpenWait, FwStart, StartSend, StartWait,
             OutClose, OutCloseWait, CloseSend, CloseWaited, VerifyWait,
             FwStop, StopWait, FwClose, CloseWait, AfterClose, SensorOff,
             SubdevsOff, Stopped, Goto
    <3>2. QED
      BY <3>1 DEF Fed
  <2>6. QED
    BY <1>8, <2>1, <2>2, <2>3, <2>4, <2>5 DEF Holder
<1>9. QED
  BY <1>1, <1>4, <1>5, <1>6, <1>7, <1>8
-----------------------------------------------------------------------------
\* What the proofs need to know of a queue s: whether a buffer, or a message
\* of type t, is on it, and that no buffer is on it twice.
Carries(s, b) == \E i \in DOMAIN s : s[i].buf = b
Lacks(s, t) == \A i \in DOMAIN s : s[i].type # t
Distinct(s) ==
    \A i, j \in DOMAIN s : s[i].buf = s[j].buf /\ s[i].buf # NoBuf => i = j

\* The three under Append.
LEMMA Appending ==
    ASSUME NEW R, NEW s \in Seq(R), NEW e \in R
    PROVE  /\ \A b : Carries(Append(s, e), b) <=> Carries(s, b) \/ e.buf = b
           /\ \A t : Lacks(Append(s, e), t) <=> Lacks(s, t) /\ e.type # t
           /\ Distinct(s) /\ (e.buf = NoBuf \/ ~Carries(s, e.buf))
                => Distinct(Append(s, e))
<1>1. /\ DOMAIN s = 1..Len(s) /\ Len(s) \in Nat
      /\ DOMAIN Append(s, e) = 1..(Len(s) + 1)
      /\ \A i \in 1..Len(s) : Append(s, e)[i] = s[i]
      /\ Append(s, e)[Len(s) + 1] = e
  OBVIOUS
<1>2. \A i \in 1..(Len(s) + 1) : i \in 1..Len(s) \/ i = Len(s) + 1
  BY <1>1
<1>3. Len(s) + 1 \in 1..(Len(s) + 1) /\ 1..Len(s) \subseteq 1..(Len(s) + 1)
  BY <1>1
<1>4. ASSUME NEW b
      PROVE  Carries(Append(s, e), b) <=> Carries(s, b) \/ e.buf = b
  BY <1>1, <1>2, <1>3 DEF Carries
<1>5. ASSUME NEW t
      PROVE  Lacks(Append(s, e), t) <=> Lacks(s, t) /\ e.type # t
  BY <1>1, <1>2, <1>3 DEF Lacks
<1>6. ASSUME Distinct(s), e.buf = NoBuf \/ ~Carries(s, e.buf)
      PROVE  Distinct(Append(s, e))
  BY <1>1, <1>2, <1>3, <1>6 DEF Distinct, Carries
<1>7. QED
  BY <1>4, <1>5, <1>6

\* The three under Head and Tail.
LEMMA Taking ==
    ASSUME NEW R, NEW s \in Seq(R), s # << >>
    PROVE  /\ \A b : Carries(s, b) <=> Head(s).buf = b \/ Carries(Tail(s), b)
           /\ \A t : Lacks(s, t) <=> Head(s).type # t /\ Lacks(Tail(s), t)
           /\ Distinct(s) =>
                /\ Distinct(Tail(s))
                /\ Head(s).buf # NoBuf => ~Carries(Tail(s), Head(s).buf)
<1>1. /\ DOMAIN s = 1..Len(s) /\ Len(s) \in Nat /\ Len(s) > 0
      /\ DOMAIN Tail(s) = 1..(Len(s) - 1)
      /\ \A i \in 1..(Len(s) - 1) : Tail(s)[i] = s[i + 1]
      /\ Head(s) = s[1]
  OBVIOUS
<1>2. ASSUME NEW i \in 1..Len(s), i # 1
      PROVE  \E k \in 1..(Len(s) - 1) : Tail(s)[k] = s[i]
  <2>1. i - 1 \in 1..(Len(s) - 1) /\ (i - 1) + 1 = i
    BY <1>1, <1>2
  <2>2. Tail(s)[i - 1] = s[i]
    BY <1>1, <2>1
  <2>3. QED
    BY <2>1, <2>2
<1>3. /\ 1 \in 1..Len(s)
      /\ \A i \in 1..(Len(s) - 1) : i + 1 \in 1..Len(s) /\ i + 1 # 1
      /\ \A i, j \in 1..(Len(s) - 1) : i + 1 = j + 1 => i = j
  BY <1>1
<1>a. \A i \in DOMAIN s :
         s[i] = Head(s) \/ \E k \in DOMAIN Tail(s) : Tail(s)[k] = s[i]
  BY <1>1, <1>2
<1>b. \A k \in DOMAIN Tail(s) : \E i \in DOMAIN s : s[i] = Tail(s)[k]
  BY <1>1, <1>3
<1>c. \E i \in DOMAIN s : s[i] = Head(s)
  BY <1>1, <1>3
<1>4. ASSUME NEW b
      PROVE  Carries(s, b) <=> Head(s).buf = b \/ Carries(Tail(s), b)
  BY <1>a, <1>b, <1>c, Zenon DEF Carries
<1>5. ASSUME NEW t
      PROVE  Lacks(s, t) <=> Head(s).type # t /\ Lacks(Tail(s), t)
  BY <1>a, <1>b, <1>c, Zenon DEF Lacks
<1>6. ASSUME Distinct(s)
      PROVE  /\ Distinct(Tail(s))
             /\ Head(s).buf # NoBuf => ~Carries(Tail(s), Head(s).buf)
  <2>1. Distinct(Tail(s))
    BY <1>1, <1>3, <1>6 DEF Distinct
  <2>2. ASSUME Head(s).buf # NoBuf, NEW k \in DOMAIN Tail(s)
        PROVE  Tail(s)[k].buf # Head(s).buf
    BY <1>1, <1>3, <1>6, <2>2 DEF Distinct
  <2>3. QED
    BY <2>1, <2>2 DEF Carries
<1>7. QED
  BY <1>4, <1>5, <1>6
-----------------------------------------------------------------------------
\* A buffer on its way to the firmware, in it, or on its way back.
InFlight(b) == b \in held \/ Carries(cmds, b) \/ Carries(resps, b)

\* A buffer in flight is in one place only.
Once ==
    /\ Distinct(cmds)
    /\ Distinct(resps)
    /\ \A b \in Bufs : /\ ~(b \in held /\ Carries(cmds, b))
                       /\ ~(b \in held /\ Carries(resps, b))
                       /\ ~(Carries(cmds, b) /\ Carries(resps, b))

\* A step of the firmware queues that puts no new buffer in flight.
NoneAdded == Once' /\ \A b \in Bufs : InFlight(b)' => InFlight(b)

\* A step that leaves the firmware alone puts nothing in flight.
LEMMA Untouched ==
    ASSUME Once, UNCHANGED fwVars
    PROVE  NoneAdded
BY DEF NoneAdded, Once, InFlight, fwVars

\* After a firmware start nothing is in flight.
LEMMA Emptied ==
    ASSUME FreshFirmware
    PROVE  Once' /\ \A b \in Bufs : ~InFlight(b)'
BY DEF FreshFirmware, Once, InFlight, Carries, Distinct

\* Giving the stream up only changes whom the commands belong to.
LEMMA Released ==
    ASSUME Queues, Once, release_streaming_firmware
    PROVE  /\ NoneAdded
           /\ \A t : Lacks(cmds, t) => Lacks(cmds', t)
           /\ cmds = << >> => cmds' = << >>
<1>1. /\ DOMAIN cmds' = DOMAIN cmds
      /\ \A i \in DOMAIN cmds : /\ cmds'[i].buf = cmds[i].buf
                                /\ cmds'[i].type = cmds[i].type
  <2>1. \A c \in Command : /\ [c EXCEPT !.old = TRUE].buf = c.buf
                           /\ [c EXCEPT !.old = TRUE].type = c.type
    BY DEF Command
  <2>2. \A i \in DOMAIN cmds : cmds[i] \in Command
    BY DEF Queues
  <2>3. cmds' = [i \in DOMAIN cmds |-> [cmds[i] EXCEPT !.old = TRUE]]
    BY DEF release_streaming_firmware
  <2>4. QED
    BY <2>1, <2>2, <2>3
<1>2. \A b : Carries(cmds', b) <=> Carries(cmds, b)
  BY <1>1 DEF Carries
<1>3. Distinct(cmds) => Distinct(cmds')
  BY <1>1 DEF Distinct
<1>4. UNCHANGED <<resps, held>>
  BY DEF release_streaming_firmware
<1>5. NoneAdded
  BY <1>2, <1>3, <1>4 DEF NoneAdded, Once, InFlight
<1>6. cmds = << >> => cmds' = << >>
  BY DEF release_streaming_firmware
<1>7. QED
  BY <1>1, <1>5, <1>6 DEF Lacks

\* A command adds its own buffer, if that was not in flight.
LEMMA Sent ==
    ASSUME Handshake, Queues, Once, NEW type \in Commands,
           NEW b \in Bufs \cup {NoBuf}, b = NoBuf \/ ~InFlight(b),
           SendOk(type, b)
    PROVE  /\ Once'
           /\ \A d \in Bufs : InFlight(d)' => InFlight(d) \/ d = b
           /\ \A t : Lacks(cmds', t) <=> Lacks(cmds, t) /\ type # t
           /\ resps' = resps
<1> DEFINE c == [type |-> type, buf |-> b, old |-> FALSE]
<1>1. c \in Command /\ c.buf = b /\ c.type = type
  BY DEF Command
<1>2. cmds' = Append(cmds, c) /\ UNCHANGED <<resps, held>>
  BY DEF SendOk
<1> HIDE DEF c
<1>3. \A d : Carries(cmds', d) <=> Carries(cmds, d) \/ b = d
  BY <1>1, <1>2, Appending, Zenon DEF Queues
<1>4. \A t : Lacks(cmds', t) <=> Lacks(cmds, t) /\ type # t
  BY <1>1, <1>2, Appending, Zenon DEF Queues
<1>5. Distinct(cmds')
  BY <1>1, <1>2, Appending, Zenon DEF Queues, Once, InFlight
<1>6. Once'
  BY <1>2, <1>3, <1>5, IsysAssumption DEF Once, InFlight
<1>7. QED
  BY <1>2, <1>3, <1>4, <1>6 DEF InFlight

\* The firmware moves a buffer from the command queue into its hands.
LEMMA Stepped ==
    ASSUME Handshake, Queues, Once, FirmwareStep
    PROVE  /\ NoneAdded
           /\ \A t : Lacks(cmds, t) => Lacks(cmds', t)
           /\ \A t : Lacks(resps', t)
                       <=> Lacks(resps, t) /\ Head(cmds).type # t
<1>1. /\ cmds # << >> /\ cmds' = Tail(cmds)
      /\ Head(cmds) \in Command
      /\ held' \subseteq held \cup ({Head(cmds).buf} \ {NoBuf})
  <2>1. cmds # << >> /\ cmds' = Tail(cmds)
    BY DEF FirmwareStep
  <2>2. Head(cmds) \in Command
    BY <2>1 DEF Queues
  <2>3. held' \subseteq held \cup ({Head(cmds).buf} \ {NoBuf})
    BY DEF FirmwareStep
  <2>4. QED
    BY <2>1, <2>2, <2>3
<1>2. PICK err \in BOOLEAN : Respond(Head(cmds).type, NoBuf, err)
  BY DEF FirmwareStep
<1> DEFINE r == [type |-> Head(cmds).type, buf |-> NoBuf, err |-> err]
<1>3. r \in Response /\ r.buf = NoBuf /\ r.type = Head(cmds).type
  BY <1>1 DEF Response, Command
<1>4. resps' = Append(resps, r)
  BY <1>2 DEF Respond
<1> HIDE DEF r
<1>5. /\ \A b : Carries(cmds, b) <=> Head(cmds).buf = b \/ Carries(cmds', b)
      /\ \A t : Lacks(cmds, t) => Lacks(cmds', t)
      /\ Distinct(cmds')
      /\ Head(cmds).buf # NoBuf => ~Carries(cmds', Head(cmds).buf)
  BY <1>1, Taking, Zenon DEF Queues, Once
<1>6. /\ \A b \in Bufs : Carries(resps', b) <=> Carries(resps, b)
      /\ Distinct(resps')
      /\ \A t : Lacks(resps', t)
                   <=> Lacks(resps, t) /\ Head(cmds).type # t
  <2>1. \A b : Carries(resps', b) <=> Carries(resps, b) \/ NoBuf = b
    BY <1>3, <1>4, Appending, Zenon DEF Queues
  <2>2. QED
    BY <1>3, <1>4, <2>1, Appending, IsysAssumption, Zenon DEF Queues, Once
<1>7. Once'
  BY <1>1, <1>5, <1>6 DEF Once
<1>8. \A b \in Bufs : InFlight(b)' => InFlight(b)
  BY <1>1, <1>5, <1>6 DEF InFlight
<1>9. QED
  BY <1>5, <1>6, <1>7, <1>8 DEF NoneAdded

\* A frame moves a buffer from the firmware to the response queue.
LEMMA Framed ==
    ASSUME Handshake, Queues, Once, NEW b \in Bufs, NEW err \in BOOLEAN,
           FirmwareFrame(b, err)
    PROVE  /\ NoneAdded
           /\ \A t : Lacks(resps', t) <=> Lacks(resps, t) /\ "pin" # t
<1> DEFINE r == [type |-> "pin", buf |-> b, err |-> err]
<1>1. r \in Response /\ r.buf = b /\ r.type = "pin"
  BY DEF Response
<1>2. /\ resps' = Append(resps, r) /\ UNCHANGED cmds
      /\ b \in held /\ held' = held \ {b}
  BY DEF FirmwareFrame, Respond
<1> HIDE DEF r
<1>3. /\ \A d : Carries(resps', d) <=> Carries(resps, d) \/ b = d
      /\ \A t : Lacks(resps', t) <=> Lacks(resps, t) /\ "pin" # t
  BY <1>1, <1>2, Appending, Zenon DEF Queues
<1>4. Distinct(resps')
  BY <1>1, <1>2, Appending, Zenon DEF Queues, Once
<1>5. Once'
  BY <1>2, <1>3, <1>4 DEF Once
<1>6. QED
  BY <1>2, <1>3, <1>5 DEF NoneAdded, InFlight

\* The interrupt handler takes the last mention of a buffer.
LEMMA Received ==
    ASSUME Handshake, Queues, Once, isys_isr_one
    PROVE  /\ NoneAdded
           /\ \A t : Lacks(resps, t)
                       <=> Head(resps).type # t /\ Lacks(resps', t)
           /\ \A b \in Bufs : Head(resps).buf = b => ~InFlight(b)'
<1>1. /\ resps # << >> /\ resps' = Tail(resps)
      /\ UNCHANGED <<cmds, held>>
  BY DEF isys_isr_one
<1>2. /\ \A b : Carries(resps, b) <=> Head(resps).buf = b \/ Carries(resps', b)
      /\ \A t : Lacks(resps, t) <=> Head(resps).type # t /\ Lacks(resps', t)
      /\ Distinct(resps')
      /\ Head(resps).buf # NoBuf => ~Carries(resps', Head(resps).buf)
  BY <1>1, Taking, Zenon DEF Queues, Once
<1>3. Once'
  BY <1>1, <1>2 DEF Once
<1>4. \A b \in Bufs : InFlight(b)' => InFlight(b)
  BY <1>1, <1>2 DEF InFlight
<1>5. ASSUME NEW b \in Bufs, Head(resps).buf = b
      PROVE  ~InFlight(b)'
  BY <1>1, <1>2, <1>5, IsysAssumption DEF InFlight, Once
<1>6. QED
  BY <1>2, <1>3, <1>4, <1>5 DEF NoneAdded
-----------------------------------------------------------------------------
\* Nothing is in flight; nothing but the start buffer is.
Drained == \A b \in Bufs : ~InFlight(b)
Solo == \A b \in Bufs : InFlight(b) => b = msg

\* A buffer in flight is on the active list.
Live == \A b \in Bufs : InFlight(b) => b \in active

\* The buffer about to be sent is active and was not sent before.
Fresh == pc \in {"send", "start_send"} =>
            msg \in active /\ \A b \in Bufs : InFlight(b) => b # msg

\* Where nothing is in flight: before STREAM_START is sent and after the
\* stream was closed.  A stop that is not an unwinding keeps its handle
\* until then (or the device is marked).
DrainedAt ==
    /\ pc \in {"subdevs", "fw_open", "open_wait", "fw_start", "start_send",
               "stopped", "requeue", "return"} => Drained
    /\ pc = "idle" /\ ~streaming => Drained
    /\ pc \in {"sensor_off", "subdevs_off"} =>
          IF Unwinding THEN Drained ELSE handle

\* Until ip->streaming is set only the start buffer has been sent.
Alone ==
    /\ pc \in {"start_wait", "sensor_on", "out_close", "out_close_wait"}
         => Solo
    /\ pc \in {"fw_stop", "stop_wait", "fw_close", "close_wait"} /\ Unwinding
         => Solo

\* A stop that is not an unwinding closes only after the sensor stopped.
Silent ==
    pc \in {"subdevs_off", "fw_close", "close_wait"} /\ ~Unwinding => ~sensor

Course == Once /\ Live /\ Fresh /\ DrainedAt /\ Alone /\ Silent

\* The labels at which STREAM_CLOSE has been sent and not yet concluded.
Waiting == {"close_wait", "out_close_wait"}

\* Elsewhere no STREAM_CLOSE and no answer to one is on a queue.
NoClose == pc \notin Waiting => Lacks(cmds, "close") /\ Lacks(resps, "close")

\* The close at position j is the only one on queue s.
OnlyClose(s, j) ==
    s[j].type = "close" /\ \A i \in DOMAIN s : s[i].type = "close" => i = j

\* The close is the last command; or it was answered, refused or with nothing
\* left in the firmware, and only frames follow the answer; or the answer was
\* seen, and then either nothing is in flight or the error is still set.
CloseSent ==
    /\ cmds # << >> /\ OnlyClose(cmds, Len(cmds))
    /\ Lacks(resps, "close") /\ "close" \notin completions

CloseAnswered ==
    /\ cmds = << >> /\ "close" \notin completions
    /\ \E j \in DOMAIN resps :
          /\ OnlyClose(resps, j)
          /\ \A i \in DOMAIN resps : i > j => resps[i].type = "pin"
          /\ j < Len(resps) => Solo
          /\ resps[j].err \/ (held = {} /\ j = Len(resps))

CloseSeen ==
    /\ cmds = << >> /\ "close" \in completions /\ Lacks(resps, "close")
    /\ \/ Drained
       \/ /\ error
          /\ \A i \in DOMAIN resps : resps[i].type = "pin"
          /\ resps = << >> \/ Solo

Closing == pc \in Waiting => CloseSent \/ CloseAnswered \/ CloseSeen

\* The invariant of a device that is not marked for a reset.
DInv == ~reset_needed => Course /\ NoClose /\ Closing
-----------------------------------------------------------------------------
\* The entry points of vb2 send nothing.
LEMMA Calls_keep ==
    ASSUME IInv, Course, NoClose, UNCHANGED fwVars, pc = "idle",
           \/ \E b \in Bufs : QBuf(b)
           \/ buf_queue \/ start_streaming \/ stop_streaming
    PROVE  Course' /\ NoClose' /\ Closing'
<1>1. NoneAdded
  BY Untouched DEF Course
<1>2. /\ active' = active /\ streaming' = streaming
      /\ pc' \in {"idle", "subdevs", "take", "fw_stop", "stopped"}
      /\ pc' \in {"subdevs", "stopped"} => ~streaming
      /\ pc' = "fw_stop" => caller' = "stop"
  BY DEF QBuf, buf_queue, start_streaming, stop_streaming, StreamStart,
         At, Goto, runVars, bufVars, IInv, Pipeline, Ownership, Calls, callVars
<1>3. /\ Live' /\ DrainedAt'
  BY <1>1, <1>2 DEF NoneAdded, Course, Live, DrainedAt, Drained
<1>4. Fresh' /\ Silent'
  BY <1>2 DEF Fresh, Silent
<1>5. Alone'
  BY <1>2 DEF Alone, Unwinding
<1>6. NoClose' /\ Closing'
  BY <1>2 DEF NoClose, Closing, Waiting, fwVars
<1>7. QED
  BY <1>1, <1>3, <1>4, <1>5, <1>6 DEF Course, NoneAdded

\* The loops that feed buffers and the verification send nothing.
LEMMA Feeding_keeps ==
    ASSUME IInv, Course, NoClose, UNCHANGED fwVars,
           \/ SensorOn \/ buffer_list_get \/ Verify \/ VerifyWait \/ Bounce
           \/ VerifyEnd
    PROVE  Course' /\ NoClose' /\ Closing'
<1>1. NoneAdded
  BY Untouched DEF Course
<1>2. /\ active' = active /\ msg' = msg
      /\ pc \notin Waiting
      /\ pc' \in {"take", "activate", "verify", "verify_wait", "bounce",
                  "verify_end", "fw_stop", "idle"}
      /\ streaming' \/ (pc = "sensor_on" /\ pc' = "fw_stop")
  BY DEF SensorOn, buffer_list_get, Verify, VerifyWait, Bounce, VerifyEnd,
         At, Goto, NoData, Succeed, SubmitFailed, runVars, bufVars, callVars,
         Waiting, IInv, Typed, Pipeline, Feeding, Submitting
<1>3. Live' /\ Fresh' /\ Silent' /\ DrainedAt'
  BY <1>1, <1>2
     DEF NoneAdded, Course, Live, Fresh, Silent, DrainedAt, Drained
<1>4. Alone'
  BY <1>1, <1>2 DEF NoneAdded, Course, Alone, Unwinding, Solo
<1>5. NoClose' /\ Closing'
  BY <1>2 DEF NoClose, Closing, Waiting, fwVars
<1>6. QED
  BY <1>1, <1>3, <1>4, <1>5 DEF Course, NoneAdded

\* A buffer from the list in hand is not active, so it is not in flight.
LEMMA Activation_keeps ==
    ASSUME IInv, Course, NoClose, UNCHANGED fwVars,
           FwStart \/ CaptureActivate
    PROVE  Course' /\ NoClose' /\ Closing'
<1>1. NoneAdded
  BY Untouched DEF Course
<1>2. \/ /\ pc = "fw_start" /\ pc' = "out_close" /\ active' = active
      \/ /\ \/ pc = "fw_start" /\ pc' = "start_send"
            \/ pc = "activate" /\ pc' = "send"
         /\ \E b \in bl : msg' = b /\ active' = active \cup {b}
  BY DEF FwStart, CaptureActivate, At, Goto
<1>3. \A b \in bl : b \notin active
  BY DEF IInv, OwnedOnce
<1>4. Live' /\ Fresh' /\ Silent' /\ DrainedAt'
  BY <1>1, <1>2, <1>3
     DEF NoneAdded, Course, Live, Fresh, Silent, DrainedAt, Drained
<1>5. Alone'
  BY <1>1, <1>2 DEF NoneAdded, Course, Alone, Solo, DrainedAt, Drained
<1>6. NoClose' /\ Closing'
  BY <1>2 DEF NoClose, Closing, Waiting, fwVars
<1>7. QED
  BY <1>1, <1>4, <1>5, <1>6 DEF Course, NoneAdded

\* Unwinding reaches the return of the buffers with nothing in flight.
LEMMA Unwinding_keeps ==
    ASSUME IInv, Course, NoClose, UNCHANGED fwVars, ~reset_needed',
           \/ SubdevsOn \/ StartWait \/ SensorOff \/ SubdevsOff \/ Stopped
           \/ Requeue \/ return_buffers
    PROVE  Course' /\ NoClose' /\ Closing'
<1>1. NoneAdded
  BY Untouched DEF Course
<1>2. msg' = msg /\ caller' = caller
  BY DEF SubdevsOn, StartWait, SensorOff, SubdevsOff, Stopped, Requeue,
         return_buffers, callVars
<1>3. \/ /\ pc = "subdevs" /\ pc' \in {"fw_open", "requeue"}
         /\ active' = active
      \/ /\ pc = "start_wait" /\ pc' \in {"sensor_on", "out_close"}
         /\ active' = active
      \/ /\ pc = "sensor_off" /\ pc' = "subdevs_off" /\ active' = active
         /\ Unwinding' = Unwinding /\ handle' = handle
         /\ ~sensor' \/ Unwinding
      \/ /\ pc = "subdevs_off" /\ active' = active
         /\ Unwinding' = Unwinding /\ handle' = handle /\ sensor' = sensor
         /\ \/ Unwinding /\ pc' = "requeue"
            \/ ~Unwinding /\ handle /\ pc' = "fw_close"
            \/ ~Unwinding /\ ~handle
      \/ /\ pc = "stopped" /\ pc' \in {"return", "requeue"}
      \/ /\ pc \in {"requeue", "return"} /\ pc' \in {"return", "idle"}
  BY DEF SubdevsOn, StartWait, SensorOff, SubdevsOff, Stopped, Requeue,
         return_buffers, At, Goto, bufVars, runVars, callVars, hwVars,
         Unwinding, IInv, Flags
<1>4. Live' /\ Fresh' /\ Silent'
  BY <1>1, <1>3
     DEF NoneAdded, Course, Live, Fresh, Silent, DrainedAt, Drained
<1>5. DrainedAt'
  BY <1>1, <1>3 DEF NoneAdded, Course, DrainedAt, Drained
<1>6. Alone'
  BY <1>1, <1>2, <1>3 DEF NoneAdded, Course, Alone, Solo, DrainedAt
<1>7. NoClose' /\ Closing'
  BY <1>3 DEF NoClose, Closing, Waiting, fwVars, Course, DrainedAt
<1>8. QED
  BY <1>1, <1>4, <1>5, <1>6, <1>7 DEF Course, NoneAdded

\* STREAM_OPEN, STREAM_START, STREAM_CAPTURE and STREAM_STOP.
LEMMA Sending_keeps ==
    ASSUME IInv, Handshake, Queues, Course, NoClose, ~reset_needed',
           \/ FwOpen \/ StartSend \/ CaptureSend \/ FwStop
    PROVE  Course' /\ NoClose' /\ Closing'
<1>1. CASE UNCHANGED fwVars /\ (FwOpen \/ StartSend \/ CaptureSend)
  <2>1. NoneAdded
    BY <1>1, Untouched DEF Course
  <2>2. msg' = msg /\ caller' = caller /\ streaming' = streaming
    BY <1>1 DEF FwOpen, StartSend, CaptureSend, callVars, runVars
  <2>3. \/ /\ pc = "fw_open" /\ pc' \in {"open_wait", "subdevs_off"}
           /\ active' = active
        \/ /\ pc = "start_send" /\ pc' \in {"start_wait", "out_close"}
           /\ active' = active
        \/ /\ pc = "send" /\ pc' \in {"idle", "take", "verify_end", "fw_stop"}
           /\ active' = active \/ active' = active \ {msg}
    BY <1>1 DEF FwOpen, StartSend, CaptureSend, SubmitFailed, At, Goto,
                bufVars
  <2>4. /\ pc = "fw_open" => Unwinding'
        /\ pc = "send" => streaming /\ ~Unwinding'
    BY <2>2 DEF IInv, Calls, Pipeline, Unwinding, Starting, Feeding,
                Submitting, Stopping
  <2>5. Live' /\ Fresh' /\ Silent'
    BY <2>1, <2>3, <2>4
       DEF NoneAdded, Course, Live, Fresh, Silent, DrainedAt, Drained
  <2>6. DrainedAt' /\ Alone'
    BY <2>1, <2>2, <2>3, <2>4
       DEF NoneAdded, Course, DrainedAt, Drained, Alone, Solo
  <2>7. NoClose' /\ Closing'
    BY <1>1, <2>3 DEF NoClose, Closing, Waiting, fwVars
  <2>8. QED
    BY <2>1, <2>5, <2>6, <2>7 DEF Course, NoneAdded
<1>2. CASE \/ FwOpen /\ SendOk("open", NoBuf)
           \/ FwStop /\ SendOk("stop", NoBuf)
  <2>1. PICK type \in {"open", "stop"} : SendOk(type, NoBuf)
    BY <1>2
  <2>2. /\ Once' /\ \A b \in Bufs : InFlight(b)' => InFlight(b)
        /\ Lacks(cmds, "close") => Lacks(cmds', "close")
        /\ resps' = resps
    BY <2>1, Sent, IsysAssumption DEF Course, Commands, Acks
  <2>3. /\ msg' = msg /\ active' = active /\ Unwinding' = Unwinding
        /\ \/ pc = "fw_open" /\ pc' \in {"open_wait", "subdevs_off"}
           \/ pc = "fw_stop" /\ pc' \in {"stop_wait", "sensor_off"}
    BY <1>2 DEF FwOpen, FwStop, callVars, runVars, bufVars, Unwinding, At,
                Goto
  <2>4. /\ pc = "fw_open" => pc' = "open_wait" \/ Unwinding
        /\ pc = "fw_stop" => pc' = "stop_wait"
    BY <1>2, <2>3 DEF IInv, Calls, Pipeline, Unwinding, Starting, Stopping,
                FwOpen, FwStop, AbandonStream, Goto, At
  <2>5. Live' /\ Fresh' /\ Silent'
    BY <2>2, <2>3, <2>4 DEF Course, Live, Fresh, Silent
  <2>6. DrainedAt' /\ Alone'
    BY <2>2, <2>3, <2>4 DEF Course, DrainedAt, Drained, Alone, Solo
  <2>7. NoClose' /\ Closing'
    BY <2>2, <2>3, <2>4 DEF NoClose, Closing, Waiting
  <2>8. QED
    BY <2>2, <2>5, <2>6, <2>7 DEF Course
<1>3. CASE \/ StartSend /\ SendOk("start", msg)
           \/ CaptureSend /\ SendOk("capture", msg)
  <2>1. PICK type \in {"start", "capture"} : SendOk(type, msg)
    BY <1>3
  <2>2. /\ pc \in {"send", "start_send"} /\ msg' = msg
        /\ streaming' = streaming
        /\ pc = "send" => pc' \in {"idle", "take", "verify_end", "fw_stop"}
        /\ pc = "start_send" => pc' \in {"start_wait", "out_close"}
    BY <1>3 DEF StartSend, CaptureSend, SubmitFailed, callVars, runVars, At,
                Goto
  <2>3. active' = active
    BY <1>3, <2>1
       DEF StartSend, CaptureSend, bufVars, SendOk, SendFails, fwVars, Queues
  <2>4. msg \in Bufs /\ ~InFlight(msg)
    BY <2>2 DEF Course, Fresh, IInv, Typed
  <2>5. /\ Once' /\ \A b \in Bufs : InFlight(b)' => InFlight(b) \/ b = msg
        /\ Lacks(cmds, "close") => Lacks(cmds', "close")
        /\ resps' = resps
    BY <2>1, <2>4, Sent DEF Course, Commands, Acks
  <2>6. pc = "send" => streaming
    BY DEF IInv, Pipeline, Feeding, Submitting
  <2>7. Live' /\ Fresh' /\ Silent'
    BY <2>2, <2>3, <2>5 DEF Course, Live, Fresh, Silent
  <2>8. DrainedAt' /\ Alone'
    BY <2>2, <2>5, <2>6
       DEF Course, DrainedAt, Drained, Alone, Solo, Unwinding
  <2>9. NoClose' /\ Closing'
    BY <2>2, <2>5 DEF NoClose, Closing, Waiting
  <2>10. QED
    BY <2>5, <2>7, <2>8, <2>9 DEF Course
<1>4. QED
  BY <1>1, <1>2, <1>3
     DEF FwOpen, StartSend, CaptureSend, FwStop, SendFails, AbandonStream

\* The waits for STREAM_OPEN and STREAM_STOP.
LEMMA Waits_keep ==
    ASSUME IInv, Handshake, Queues, Course, NoClose, ~reset_needed',
           OpenWait \/ StopWait
    PROVE  Course' /\ NoClose' /\ Closing'
<1>1. /\ msg' = msg /\ active' = active /\ Unwinding' = Unwinding
      /\ \/ /\ pc = "open_wait" /\ pc' \in {"fw_start", "subdevs_off"}
            /\ UNCHANGED fwVars \/ release_streaming_firmware
         \/ /\ pc = "stop_wait" /\ UNCHANGED <<fwVars, handle>>
            /\ pc' = IF Unwinding THEN "fw_close" ELSE "sensor_off"
  BY DEF OpenWait, StopWait, AbandonStream, At, Goto, callVars, runVars,
         bufVars, Unwinding
<1>2. /\ NoneAdded
      /\ \A t : Lacks(cmds, t) => Lacks(cmds', t)
      /\ resps' = resps
  BY <1>1, Untouched, Released
     DEF Course, fwVars, release_streaming_firmware
<1>3. /\ pc = "open_wait" => Unwinding
      /\ pc = "stop_wait" => handle
  BY DEF IInv, Calls, Pipeline, Ownership, Unwinding, Starting, Stopping
<1>4. Live' /\ Fresh' /\ Silent'
  BY <1>1, <1>2, <1>3 DEF NoneAdded, Course, Live, Fresh, Silent
<1>5. DrainedAt' /\ Alone'
  BY <1>1, <1>2, <1>3
     DEF NoneAdded, Course, DrainedAt, Drained, Alone, Solo
<1>6. NoClose' /\ Closing'
  BY <1>1, <1>2 DEF NoClose, Closing, Waiting
<1>7. QED
  BY <1>2, <1>4, <1>5, <1>6 DEF Course, NoneAdded

\* A STREAM_CLOSE is the only one when it is sent.
LEMMA CloseSend_keeps ==
    ASSUME IInv, Handshake, Queues, Course, NoClose, ~reset_needed',
           OutClose \/ FwClose
    PROVE  Course' /\ NoClose' /\ Closing'
<1>1. /\ SendOk("close", NoBuf) /\ msg' = msg /\ active' = active
      /\ Unwinding' = Unwinding /\ sensor' = sensor
      /\ \/ pc = "out_close" /\ pc' = "out_close_wait"
         \/ pc = "fw_close" /\ pc' = "close_wait"
      /\ "close" \notin completions'
  BY DEF OutClose, FwClose, CloseSend, AbandonStream, reinit_completion, At,
         Goto, callVars, runVars, bufVars, Unwinding
<1>2. /\ Once' /\ \A b \in Bufs : InFlight(b)' => InFlight(b)
      /\ resps' = resps
  BY <1>1, Sent, IsysAssumption DEF Course, Commands, Acks
<1>3. Lacks(cmds, "close") /\ Lacks(resps, "close")
  BY <1>1 DEF NoClose, Waiting
<1>4. CloseSent'
  <2> DEFINE c == [type |-> "close", buf |-> NoBuf, old |-> FALSE]
  <2>1. c \in Command /\ c.type = "close" /\ cmds' = Append(cmds, c)
    BY <1>1 DEF SendOk, Command, Commands, Acks
  <2> HIDE DEF c
  <2>2. /\ Len(cmds') = Len(cmds) + 1 /\ Len(cmds) \in Nat
        /\ DOMAIN cmds' = 1..(Len(cmds) + 1)
        /\ cmds'[Len(cmds) + 1] = c
        /\ \A i \in 1..Len(cmds) : cmds'[i] = cmds[i] /\ i \in DOMAIN cmds
    BY <2>1 DEF Queues
  <2>3. OnlyClose(cmds', Len(cmds'))
    BY <1>3, <2>1, <2>2 DEF OnlyClose, Lacks
  <2>4. cmds' # << >>
    BY <2>2
  <2>5. QED
    BY <1>1, <1>2, <1>3, <2>3, <2>4 DEF CloseSent
<1>5. Live' /\ Fresh' /\ Silent'
  BY <1>1, <1>2 DEF Course, Live, Fresh, Silent
<1>6. DrainedAt' /\ Alone'
  BY <1>1, <1>2 DEF Course, DrainedAt, Alone, Solo
<1>7. NoClose' /\ Closing'
  BY <1>1, <1>4 DEF NoClose, Closing, Waiting
<1>8. QED
  BY <1>2, <1>5, <1>6, <1>7 DEF Course

\* A close acknowledged without an error has drained the stream.
LEMMA CloseWaited_keeps ==
    ASSUME IInv, Handshake, Queues, Course, Closing, ~reset_needed',
           OutCloseWait \/ CloseWait
    PROVE  Course' /\ NoClose' /\ Closing'
<1>1. /\ WaitOk("close") /\ release_streaming_firmware
      /\ msg' = msg /\ active' = active /\ Unwinding' = Unwinding
      /\ \/ pc = "out_close_wait" /\ pc' = "subdevs_off"
         \/ /\ pc = "close_wait"
            /\ pc' = IF Unwinding THEN "sensor_off" ELSE "stopped"
  BY DEF OutCloseWait, CloseWait, CloseWaited, AfterClose, AbandonStream, At,
         Goto, callVars, runVars, bufVars, Unwinding
<1>2. Drained /\ Lacks(resps, "close") /\ cmds = << >>
  BY <1>1 DEF Closing, Waiting, CloseSent, CloseAnswered, CloseSeen, WaitOk
<1>3. NoneAdded /\ cmds' = << >> /\ resps' = resps
  BY <1>1, <1>2, Released DEF Course, release_streaming_firmware
<1>4. pc = "out_close_wait" => Unwinding
  BY DEF IInv, Calls, Pipeline, Unwinding, Starting, Stopping
<1>5. Drained'
  BY <1>2, <1>3 DEF NoneAdded, Drained
<1>6. Live' /\ Fresh' /\ Silent' /\ DrainedAt' /\ Alone'
  BY <1>1, <1>4, <1>5
     DEF Live, Fresh, Silent, DrainedAt, Alone, Drained
<1>7. NoClose' /\ Closing'
  BY <1>1, <1>2, <1>3 DEF NoClose, Closing, Waiting, Lacks
<1>8. QED
  BY <1>3, <1>6, <1>7 DEF Course, NoneAdded
-----------------------------------------------------------------------------
\* Only a frame response names a buffer, and each does.
Pins == \A i \in DOMAIN resps : resps[i].type = "pin" => resps[i].buf \in Bufs

\* Frames name a buffer, the answers to commands name none.
LEMMA PinsStep ==
    ASSUME Queues, Pins, [Next]_vars
    PROVE  Pins'
<1>1. CASE resps' = << >>
  BY <1>1 DEF Pins
<1>2. CASE resps' = resps
  BY <1>2 DEF Pins
<1>3. ASSUME NEW r \in Response, resps' = Append(resps, r),
             r.type = "pin" => r.buf \in Bufs
      PROVE  Pins'
  <2>1. /\ DOMAIN resps = 1..Len(resps)
        /\ DOMAIN resps' = 1..(Len(resps) + 1)
        /\ \A i \in 1..(Len(resps) + 1) :
              \/ i \in 1..Len(resps) /\ resps'[i] = resps[i]
              \/ resps'[i] = r
    BY <1>3 DEF Queues
  <2>2. QED
    BY <1>3, <2>1 DEF Pins
<1>4. CASE isys_isr_one
  <2>1. resps # << >> /\ resps' = Tail(resps)
    BY <1>4 DEF isys_isr_one
  <2>2. \A i \in DOMAIN resps' : /\ i + 1 \in DOMAIN resps
                                /\ resps'[i] = resps[i + 1]
    BY <2>1 DEF Queues
  <2>3. QED
    BY <2>2 DEF Pins
<1>5. CASE FirmwareStep
  <2>1. cmds # << >> /\ Head(cmds).type \in Commands
    BY <1>5, HeadTypes DEF FirmwareStep
  <2>2. PICK err \in BOOLEAN : Respond(Head(cmds).type, NoBuf, err)
    BY <1>5 DEF FirmwareStep
  <2> DEFINE r == [type |-> Head(cmds).type, buf |-> NoBuf, err |-> err]
  <2>3. r \in Response /\ r.type # "pin"
    BY <2>1 DEF Response, Commands, Acks
  <2>4. resps' = Append(resps, r)
    BY <2>2 DEF Respond
  <2> HIDE DEF r
  <2>5. QED
    BY <1>3, <2>3, <2>4
<1>6. ASSUME NEW b \in Bufs, NEW err \in BOOLEAN, FirmwareFrame(b, err)
      PROVE  Pins'
  <2> DEFINE r == [type |-> "pin", buf |-> b, err |-> err]
  <2>1. r \in Response /\ r.buf \in Bufs /\ resps' = Append(resps, r)
    BY <1>6 DEF Response, FirmwareFrame, Respond
  <2> HIDE DEF r
  <2>2. QED
    BY <1>3, <2>1
<1>7. QED
  BY <1>1, <1>2, <1>4, <1>5, <1>6, FirmwareMoves
     DEF FreshFirmware, fwVars, release_streaming_firmware, SendOk

\* A step beside the thread may take a buffer off active on its last mention.
LEMMA Course_beside ==
    ASSUME Course, NoneAdded,
           UNCHANGED <<pc, msg, caller, streaming, sensor, handle>>,
           \/ active' = active
           \/ \E d \in Bufs : /\ active' = active \ {d}
                              /\ InFlight(d) /\ ~InFlight(d)'
    PROVE  Course'
<1>1. Unwinding' = Unwinding
  BY DEF Unwinding
<1>2. Live' /\ Fresh'
  BY DEF NoneAdded, Course, Live, Fresh
<1>3. Silent' /\ DrainedAt' /\ Alone'
  BY <1>1 DEF NoneAdded, Course, Silent, DrainedAt, Drained, Alone, Solo
<1>4. QED
  BY <1>2, <1>3 DEF Course, NoneAdded

\* The interrupt handler is such a step.
LEMMA isys_isr_one_keeps_course ==
    ASSUME IInv, Handshake, Queues, Course, isys_isr_one
    PROVE  Course'
<1>1. /\ NoneAdded
      /\ \A b \in Bufs : Head(resps).buf = b => ~InFlight(b)'
  BY Received DEF Course
<1>2. UNCHANGED <<pc, msg, caller, streaming, sensor, handle>>
  BY DEF isys_isr_one, callVars, runVars, hwVars
<1>3. \/ active' = active
      \/ active' = active \ {Head(resps).buf} /\ Head(resps).buf \in active
  BY DEF isys_isr_one, ipu_isys_queue_buf_ready
<1>4. \A b : Head(resps).buf = b => Carries(resps, b)
  BY Taking DEF isys_isr_one, Queues
<1>5. \/ active' = active
      \/ \E d \in Bufs : active' = active \ {d} /\ InFlight(d) /\ ~InFlight(d)'
  BY <1>1, <1>3, <1>4 DEF InFlight, IInv, Typed
<1>6. QED
  BY <1>1, <1>2, <1>5, Course_beside

\* The firmware is such a step.
LEMMA Firmware_keeps_course ==
    ASSUME Handshake, Queues, Course,
           \/ FirmwareStep
           \/ \E b \in Bufs, err \in BOOLEAN : FirmwareFrame(b, err)
    PROVE  Course'
<1>1. NoneAdded
  BY Stepped, Framed DEF Course
<1>2. UNCHANGED <<pc, msg, caller, streaming, sensor, handle, active>>
  BY DEF FirmwareStep, FirmwareFrame, callVars, runVars, hwVars, bufVars
<1>3. QED
  BY <1>1, <1>2, Course_beside

\* Neither invents a STREAM_CLOSE.
LEMMA NoClose_beside ==
    ASSUME IInv, Handshake, Queues, Course, NoClose, pc \notin Waiting,
           \/ isys_isr_one \/ FirmwareStep
           \/ \E b \in Bufs, err \in BOOLEAN : FirmwareFrame(b, err)
    PROVE  NoClose' /\ Closing'
<1>1. pc' = pc
  BY DEF isys_isr_one, FirmwareStep, FirmwareFrame
<1>2. Lacks(cmds, "close") /\ Lacks(resps, "close")
  BY DEF NoClose
<1>3. CASE isys_isr_one
  BY <1>1, <1>2, <1>3, Received
     DEF Course, NoClose, Closing, isys_isr_one
<1>4. CASE FirmwareStep
  <2>1. Head(cmds).type # "close"
    BY <1>2, <1>4, Taking DEF FirmwareStep, Queues
  <2>2. QED
    BY <1>1, <1>2, <1>4, <2>1, Stepped DEF Course, NoClose, Closing
<1>5. ASSUME NEW b \in Bufs, NEW err \in BOOLEAN, FirmwareFrame(b, err)
      PROVE  NoClose' /\ Closing'
  <2>1. Lacks(resps', "close") /\ cmds' = cmds
    BY <1>2, <1>5, Framed DEF Course, FirmwareFrame
  <2>2. QED
    BY <1>1, <1>2, <2>1 DEF NoClose, Closing
<1>6. QED
  BY <1>3, <1>4, <1>5

\* The firmware answers the close after every other command.
LEMMA FirmwareStep_keeps_closing ==
    ASSUME Handshake, Queues, Course, Closing, pc \in Waiting, FirmwareStep
    PROVE  Closing'
<1>1. cmds # << >> /\ cmds' = Tail(cmds) /\ UNCHANGED completions
  BY DEF FirmwareStep, ackVars
<1>2. CloseSent
  BY <1>1 DEF Closing, CloseAnswered, CloseSeen
<1>3. /\ DOMAIN cmds = 1..Len(cmds) /\ Len(cmds) \in Nat /\ Len(cmds) > 0
      /\ Len(cmds') = Len(cmds) - 1 /\ DOMAIN cmds' = 1..(Len(cmds) - 1)
      /\ \A i \in 1..(Len(cmds) - 1) : cmds'[i] = cmds[i + 1]
      /\ Head(cmds) = cmds[1] /\ Head(cmds) \in Command
  BY <1>1 DEF Queues
<1>4. CASE Len(cmds) = 1
  <2>1. cmds' = << >> /\ Head(cmds).type = "close"
    BY <1>1, <1>2, <1>3, <1>4 DEF CloseSent, OnlyClose, Queues
  <2>2. PICK err \in BOOLEAN : /\ Respond("close", NoBuf, err)
                               /\ err \/ held' = {}
    BY <2>1 DEF FirmwareStep
  <2> DEFINE r == [type |-> "close", buf |-> NoBuf, err |-> err]
  <2>3. /\ r \in Response /\ r.type = "close" /\ r.err = err
        /\ resps' = Append(resps, r)
    BY <2>2 DEF Response, Commands, Acks, Respond
  <2> HIDE DEF r
  <2>4. /\ Len(resps) \in Nat /\ Len(resps') = Len(resps) + 1
        /\ DOMAIN resps' = 1..(Len(resps) + 1)
        /\ resps'[Len(resps) + 1] = r
        /\ \A i \in 1..Len(resps) : resps'[i] = resps[i] /\ i \in DOMAIN resps
    BY <2>3 DEF Queues
  <2>5. OnlyClose(resps', Len(resps'))
    BY <1>2, <2>3, <2>4 DEF CloseSent, OnlyClose, Lacks
  <2>6. /\ Len(resps') \in DOMAIN resps'
        /\ \A i \in DOMAIN resps' : ~(i > Len(resps'))
        /\ ~(Len(resps') < Len(resps'))
    BY <2>4
  <2>7. resps'[Len(resps')].err \/ held' = {}
    BY <2>2, <2>3, <2>4
  <2>8. CloseAnswered'
    BY <1>1, <1>2, <2>1, <2>5, <2>6, <2>7 DEF CloseSent, CloseAnswered
  <2>9. QED
    BY <2>8 DEF Closing
<1>5. CASE Len(cmds) # 1
  <2>1. Head(cmds).type # "close"
    BY <1>2, <1>3, <1>5 DEF CloseSent, OnlyClose
  <2>2. cmds' # << >>
    BY <1>3, <1>5
  <2>3. OnlyClose(cmds', Len(cmds'))
    <3>1. cmds'[Len(cmds')].type = "close"
      BY <1>2, <1>3, <1>5 DEF CloseSent, OnlyClose
    <3>2. ASSUME NEW i \in DOMAIN cmds', cmds'[i].type = "close"
          PROVE  i = Len(cmds')
      BY <1>2, <1>3, <3>2 DEF CloseSent, OnlyClose
    <3>3. QED
      BY <3>1, <3>2 DEF OnlyClose
  <2>4. Lacks(resps', "close")
    BY <1>2, <2>1, Stepped DEF CloseSent, Course
  <2>5. CloseSent'
    BY <1>1, <1>2, <2>2, <2>3, <2>4 DEF CloseSent
  <2>6. QED
    BY <2>5 DEF Closing
<1>6. QED
  BY <1>4, <1>5

\* A frame behind a refused close: the sensor still runs, so this is an
\* unwinding and the frame is that of the start buffer.
LEMMA FirmwareFrame_keeps_closing ==
    ASSUME Handshake, Queues, Course, Closing, pc \in Waiting,
           NEW b \in Bufs, NEW err \in BOOLEAN, FirmwareFrame(b, err)
    PROVE  Closing'
<1> DEFINE r == [type |-> "pin", buf |-> b, err |-> err]
<1>1. /\ r \in Response /\ r.type = "pin" /\ resps' = Append(resps, r)
      /\ b \in held /\ sensor /\ held' \subseteq held
      /\ UNCHANGED <<cmds, completions, error, msg>>
  BY DEF Response, FirmwareFrame, Respond, ackVars, callVars
<1> HIDE DEF r
<1>2. /\ Len(resps) \in Nat /\ Len(resps') = Len(resps) + 1
      /\ DOMAIN resps = 1..Len(resps)
      /\ DOMAIN resps' = 1..(Len(resps) + 1)
      /\ resps'[Len(resps) + 1] = r
      /\ \A i \in 1..Len(resps) : resps'[i] = resps[i]
  BY <1>1 DEF Queues
<1>3. Solo'
  <2>1. Solo
    BY <1>1 DEF Course, Silent, Alone, Waiting
  <2>2. QED
    BY <1>1, <2>1, Framed DEF Course, NoneAdded, Solo
<1>4. Lacks(resps, "close") => Lacks(resps', "close")
  BY Framed DEF Course
<1>5. CASE CloseSent
  BY <1>1, <1>4, <1>5 DEF CloseSent, Closing
<1>6. CASE CloseAnswered
  <2>1. PICK j \in DOMAIN resps :
            /\ OnlyClose(resps, j)
            /\ \A i \in DOMAIN resps : i > j => resps[i].type = "pin"
            /\ resps[j].err \/ (held = {} /\ j = Len(resps))
    BY <1>6 DEF CloseAnswered
  <2>2. j \in DOMAIN resps' /\ resps'[j].err
    BY <1>1, <1>2, <2>1
  <2>3. OnlyClose(resps', j)
    BY <1>1, <1>2, <2>1 DEF OnlyClose
  <2>4. \A i \in DOMAIN resps' : i > j => resps'[i].type = "pin"
    BY <1>1, <1>2, <2>1
  <2>5. CloseAnswered'
    BY <1>1, <1>3, <1>6, <2>2, <2>3, <2>4 DEF CloseAnswered
  <2>6. QED
    BY <2>5 DEF Closing
<1>7. CASE CloseSeen
  <2>1. ~Drained
    BY <1>1 DEF Drained, InFlight
  <2>2. \A i \in DOMAIN resps' : resps'[i].type = "pin"
    BY <1>1, <1>2, <1>7, <2>1 DEF CloseSeen
  <2>3. CloseSeen'
    BY <1>1, <1>3, <1>4, <1>7, <2>1, <2>2 DEF CloseSeen
  <2>4. QED
    BY <2>3 DEF Closing
<1>8. QED
  BY <1>5, <1>6, <1>7 DEF Closing

\* The frame that clears the error of a refused close was the only one, so
\* the stream is drained when the error is gone.
LEMMA isys_isr_one_keeps_closing ==
    ASSUME IInv, Handshake, Queues, Pins, Course, Closing, pc \in Waiting,
           isys_isr_one
    PROVE  Closing'
<1>1. handle
  BY DEF IInv, Ownership, Waiting, Starting, Feeding
<1>2. /\ resps # << >> /\ resps' = Tail(resps)
      /\ error' = Head(resps).err
      /\ completions' = completions \cup ({Head(resps).type} \cap Acks)
      /\ UNCHANGED <<cmds, held, msg>>
  BY <1>1 DEF isys_isr_one, callVars
<1>3. /\ Len(resps) \in Nat /\ Len(resps) > 0 /\ Len(resps') = Len(resps) - 1
      /\ DOMAIN resps = 1..Len(resps)
      /\ DOMAIN resps' = 1..(Len(resps) - 1)
      /\ Head(resps) = resps[1]
      /\ \A i \in 1..(Len(resps) - 1) : resps'[i] = resps[i + 1]
  BY <1>2 DEF Queues
<1>4. /\ NoneAdded
      /\ \A t : Lacks(resps, t) <=> Head(resps).type # t /\ Lacks(resps', t)
      /\ \A b \in Bufs : Head(resps).buf = b => ~InFlight(b)'
  BY Received DEF Course
<1>5. /\ Solo => Solo'
      /\ Drained => Drained'
  BY <1>2, <1>4 DEF NoneAdded, Solo, Drained
<1>6. CASE CloseSent
  BY <1>2, <1>4, <1>6 DEF CloseSent, Closing
<1>7. CASE CloseAnswered
  <2>1. PICK j \in DOMAIN resps :
            /\ OnlyClose(resps, j)
            /\ \A i \in DOMAIN resps : i > j => resps[i].type = "pin"
            /\ j < Len(resps) => Solo
            /\ resps[j].err \/ (held = {} /\ j = Len(resps))
    BY <1>7 DEF CloseAnswered
  <2>2. CASE j = 1
    <3>1. "close" \in completions' /\ cmds' = << >>
      BY <1>2, <1>3, <1>7, <2>1, <2>2 DEF CloseAnswered, OnlyClose, Acks
    <3>2. \A i \in DOMAIN resps' : resps'[i].type = "pin"
      BY <1>3, <2>1, <2>2
    <3>3. Lacks(resps', "close")
      BY <3>2 DEF Lacks
    <3>4. resps' = << >> \/ Solo'
      BY <1>2, <1>3, <1>5, <2>1, <2>2 DEF Queues
    <3>5. error' \/ Drained'
      <4>1. CASE resps[j].err
        BY <1>2, <1>3, <2>2, <4>1
      <4>2. CASE held = {} /\ j = Len(resps)
        <5>1. DOMAIN resps' = {} /\ DOMAIN cmds' = {} /\ held' = {}
          <6>1. \A i \in DOMAIN resps' : FALSE
            <7>1. Len(resps) = 1
              BY <2>2, <4>2
            <7>2. DOMAIN resps' = 1..0
              BY <1>3, <7>1
            <7>3. QED
              BY <7>2
          <6>2. \A i \in DOMAIN cmds' : FALSE
            BY <3>1
          <6>3. QED
            BY <1>2, <4>2, <6>1, <6>2
        <5>2. QED
          BY <5>1 DEF Drained, InFlight, Carries
      <4>3. QED
        BY <2>1, <4>1, <4>2
    <3>6. CloseSeen'
      BY <3>1, <3>2, <3>3, <3>4, <3>5 DEF CloseSeen
    <3>7. QED
      BY <3>6 DEF Closing
  <2>3. CASE j # 1
    <3>1. j - 1 \in DOMAIN resps' /\ resps'[j - 1] = resps[j]
      BY <1>3, <2>3
    <3>2. OnlyClose(resps', j - 1)
      BY <1>3, <2>1, <2>3, <3>1 DEF OnlyClose
    <3>3. \A i \in DOMAIN resps' : i > j - 1 => resps'[i].type = "pin"
      <4>1. ASSUME NEW i \in DOMAIN resps', i > j - 1
            PROVE  resps'[i].type = "pin"
        <5>1. i + 1 \in DOMAIN resps /\ i + 1 > j
          BY <1>3, <4>1
        <5>2. resps[i + 1].type = "pin"
          BY <2>1, <5>1
        <5>3. QED
          BY <1>3, <5>2
      <4>2. QED
        BY <4>1
    <3>4. /\ j - 1 < Len(resps') => Solo'
          /\ resps'[j - 1].err \/ (held' = {} /\ j - 1 = Len(resps'))
      BY <1>2, <1>3, <1>5, <2>1, <3>1
    <3>5. Head(resps).type # "close"
      BY <1>3, <2>1, <2>3 DEF OnlyClose
    <3>6. cmds' = << >> /\ "close" \notin completions'
      BY <1>2, <1>7, <3>5 DEF CloseAnswered
    <3>7. CloseAnswered'
      BY <3>1, <3>2, <3>3, <3>4, <3>6 DEF CloseAnswered
    <3>8. QED
      BY <3>7 DEF Closing
  <2>4. QED
    BY <2>2, <2>3
<1>8. CASE CloseSeen
  <2>1. /\ cmds' = << >> /\ "close" \in completions'
        /\ Lacks(resps', "close")
    BY <1>2, <1>4, <1>8 DEF CloseSeen
  <2>2. Drained'
    <3>1. CASE Drained
      BY <1>5, <3>1
    <3>2. CASE Solo /\ Head(resps).type = "pin"
      <4>1. PICK b \in Bufs : Head(resps).buf = b
        BY <1>3, <3>2 DEF Pins
      <4>2. InFlight(b)
        BY <1>2, <4>1, Taking DEF InFlight, Queues
      <4>3. b = msg /\ ~InFlight(b)'
        BY <1>4, <3>2, <4>1, <4>2 DEF Solo
      <4>4. QED
        BY <1>4, <3>2, <4>3 DEF NoneAdded, Solo, Drained
    <3>3. QED
      BY <1>2, <1>3, <1>8, <3>1, <3>2 DEF CloseSeen
  <2>3. QED
    BY <2>1, <2>2 DEF CloseSeen, Closing
<1>9. QED
  BY <1>6, <1>7, <1>8 DEF Closing
-----------------------------------------------------------------------------
\* The inductive invariant of the handshake, relative to IInv.
HInv == Handshake /\ Counts /\ Queues /\ Closed

\* The handshake state is well formed in every reachable state.
THEOREM Handshakes == Spec => []HInv
<1>1. Init => HInv
  <2>1. Init => Handshake /\ Closed
    BY DEF Init, Handshake, Closed
  <2>2. Init => Counts
    BY IsysAssumption DEF Init, Counts, Submitting
  <2>3. Init => Queues
    BY DEF Init, Queues
  <2>4. QED
    BY <2>1, <2>2, <2>3 DEF HInv
<1>2. IInv /\ HInv /\ [Next]_vars => HInv'
  BY HandshakeStep, CountsStep, QueuesStep, ClosedStep DEF HInv
<1>3. QED
  BY <1>1, <1>2, Invariance, PTL DEF Spec

\* Every variable keeps its type; in particular verify_stream_start bounces
\* the sensor at most MaxRetry times.
THEOREM TypeCorrect == Spec => []TypeOK
<1>1. IInv /\ HInv => TypeOK
  BY DEF IInv, Typed, Flags, HInv, Handshake, Counts, Queues, Command,
         Response, TypeOK
<1>2. QED
  BY <1>1, Invariance, Handshakes, PTL

\* Unless ipu_get_fw_msg_buf runs out of memory, a streaming queue between
\* calls has on incoming only buffers whose QBUF call is about to feed them:
\* stream_capture_refeed returns what buf_ready parked.
THEOREM FeedKeepsUp ==
    ASSUME ~NoMem
    PROVE  Spec => []NothingStranded
<1>1. Init => Fed
  BY DEF Init, Fed
<1>2. IInv /\ HInv /\ Fed /\ [Next]_vars => Fed'
  BY FedStep DEF HInv
<1>3. Fed => NothingStranded
  BY DEF Fed, NothingStranded
<1>4. QED
  BY <1>1, <1>2, <1>3, Invariance, Handshakes, PTL DEF Spec

\* Every step keeps the invariant, or marks the device.
LEMMA DInvStep ==
    ASSUME IInv, HInv, Pins, DInv, [Next]_vars
    PROVE  DInv'
<1> USE DEF HInv
<1>1. CASE video_open \/ video_release
  <2>1. SUFFICES ASSUME ~reset_needed'
                 PROVE  Course' /\ NoClose' /\ Closing'
    BY DEF DInv
  <2>2. FreshFirmware /\ pc' = "idle"
    BY <1>1, <2>1 DEF video_open, video_release, At, Closed
  <2>3. Once' /\ Drained'
    BY <2>2, Emptied DEF Drained
  <2>4. Live' /\ Fresh' /\ DrainedAt' /\ Alone' /\ Silent'
    BY <2>2, <2>3 DEF Live, Fresh, DrainedAt, Alone, Silent, Drained
  <2>5. NoClose' /\ Closing'
    BY <2>2 DEF NoClose, Closing, Waiting, Lacks, FreshFirmware
  <2>6. QED
    BY <2>3, <2>4, <2>5 DEF Course
<1>2. CASE ~video_open /\ ~video_release
  <2>1. SUFFICES ASSUME ~reset_needed'
                 PROVE  Course' /\ NoClose' /\ Closing'
    BY DEF DInv
  <2>2. ~reset_needed
    BY <1>2, <2>1
       DEF Next, vars, Holder, hwVars, QBuf, buf_queue, start_streaming,
           stop_streaming, SubdevsOn, FwOpen, OpenWait, FwStart, StartSend,
           StartWait, OutClose, OutCloseWait, CloseSend, CloseWaited,
           AbandonStream, SensorOn, buffer_list_get, CaptureActivate,
           CaptureSend, Verify, VerifyWait, Bounce, VerifyEnd, FwStop,
           StopWait, FwClose, CloseWait, SensorOff, SubdevsOff, Stopped,
           Requeue, return_buffers, isys_isr_one, FirmwareStep, FirmwareFrame
  <2>3. Course /\ NoClose /\ Closing
    BY <2>2 DEF DInv
  <2>4. CASE \/ \E b \in Bufs : QBuf(b)
             \/ buf_queue \/ start_streaming \/ stop_streaming
    BY <2>3, <2>4, Calls_keep
       DEF QBuf, buf_queue, start_streaming, stop_streaming, At
  <2>5. CASE Holder
    <3>1. CASE \/ SensorOn \/ buffer_list_get \/ Verify \/ VerifyWait
               \/ Bounce \/ VerifyEnd
      <4>1. UNCHANGED fwVars
        BY <3>1 DEF SensorOn, buffer_list_get, Verify, VerifyWait, Bounce,
                    VerifyEnd
      <4>2. QED
        BY <2>3, <3>1, <4>1, Feeding_keeps
    <3>2. CASE FwStart \/ CaptureActivate
      <4>1. UNCHANGED fwVars
        BY <3>2 DEF FwStart, CaptureActivate
      <4>2. QED
        BY <2>3, <3>2, <4>1, Activation_keeps
    <3>3. CASE \/ SubdevsOn \/ StartWait \/ SensorOff \/ SubdevsOff
               \/ Stopped \/ Requeue \/ return_buffers
      <4>1. UNCHANGED fwVars
        BY <3>3 DEF SubdevsOn, StartWait, SensorOff, SubdevsOff, Stopped,
                    Requeue, return_buffers
      <4>2. QED
        BY <2>1, <2>3, <3>3, <4>1, Unwinding_keeps
    <3>4. CASE FwOpen \/ StartSend \/ CaptureSend \/ FwStop
      BY <2>1, <2>3, <3>4, Sending_keeps
    <3>5. CASE OpenWait \/ StopWait
      BY <2>1, <2>3, <3>5, Waits_keep
    <3>6. CASE OutClose \/ FwClose
      BY <2>1, <2>3, <3>6, CloseSend_keeps
    <3>7. CASE OutCloseWait \/ CloseWait
      BY <2>1, <2>3, <3>7, CloseWaited_keeps
    <3>8. QED
      BY <2>5, <3>1, <3>2, <3>3, <3>4, <3>5, <3>6, <3>7 DEF Holder
  <2>6. CASE \/ isys_isr_one \/ FirmwareStep
             \/ \E b \in Bufs, err \in BOOLEAN : FirmwareFrame(b, err)
    <3>1. Course'
      BY <2>3, <2>6, isys_isr_one_keeps_course, Firmware_keeps_course
    <3>2. CASE pc \notin Waiting
      BY <2>3, <2>6, <3>1, <3>2, NoClose_beside
    <3>3. CASE pc \in Waiting
      <4>1. pc' = pc
        BY <2>6 DEF isys_isr_one, FirmwareStep, FirmwareFrame
      <4>2. Closing'
        BY <2>3, <2>6, <3>3, isys_isr_one_keeps_closing,
           FirmwareStep_keeps_closing, FirmwareFrame_keeps_closing
      <4>3. QED
        BY <3>1, <3>3, <4>1, <4>2 DEF NoClose
    <3>4. QED
      BY <3>2, <3>3
  <2>7. CASE UNCHANGED vars
    <3>1. /\ UNCHANGED fwVars
          /\ UNCHANGED <<pc, msg, caller, streaming, sensor, handle, active,
                         completions, error, cmds, resps, held>>
      BY <2>7 DEF vars, fwVars, callVars, runVars, hwVars, bufVars, ackVars
    <3>2. Course'
      BY <2>3, <3>1, Untouched, Course_beside DEF Course
    <3>3. NoClose'
      BY <2>3, <3>1 DEF NoClose
    <3>4. Solo' = Solo /\ Drained' = Drained
      BY <3>1 DEF Solo, Drained, InFlight
    <3>5. Closing'
      BY <2>3, <3>1, <3>4
         DEF Closing, CloseSent, CloseAnswered, CloseSeen, OnlyClose
    <3>6. QED
      BY <3>2, <3>3, <3>5
  <2>8. QED
    BY <1>2, <2>4, <2>5, <2>6, <2>7 DEF Next
<1>3. QED
  BY <1>1, <1>2

\* No failed start, timeout or stop gives back memory that is still a DMA
\* target without mark_stream_reset_needed (flush_firmware_streamon_fail,
\* return_buffers, buffer_list_active_error, ipu_isys_queue_buf_ready).
THEOREM DmaConfined == Spec => []DmaOnlyWhileActive
<1>1. Init => Pins /\ DInv
  <2>1. ASSUME Init PROVE Pins
    BY <2>1 DEF Init, Pins
  <2>2. ASSUME Init PROVE Course /\ NoClose /\ Closing
    <3>1. /\ DOMAIN cmds = {} /\ DOMAIN resps = {} /\ held = {}
          /\ pc = "idle"
      BY <2>2 DEF Init
    <3>2. QED
      BY <3>1
         DEF Course, Once, Distinct, Live, Fresh, DrainedAt, Drained, Alone,
             Silent, InFlight, Carries, NoClose, Closing, Waiting, Lacks
  <2>3. QED
    BY <2>1, <2>2 DEF DInv
<1>2. IInv /\ HInv /\ Pins /\ DInv /\ [Next]_vars => Pins' /\ DInv'
  BY PinsStep, DInvStep DEF HInv
<1>3. HInv /\ DInv => DmaOnlyWhileActive
  BY DEF HInv, Handshake, DInv, Course, Live, InFlight, Carries,
         DmaOnlyWhileActive, FirmwareMayWrite
<1>4. QED
  BY <1>1, <1>2, <1>3, Invariance, Handshakes, PTL DEF Spec
=============================================================================
