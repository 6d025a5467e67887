----------------------------- MODULE IrCapture ------------------------------
(***************************************************************************)
(* The IR capture object of cbridge/ir-v4l2.c, in the mode the             *)
(* authentication helper uses (discard_error_buffers).  One object per     *)
(* helper process; its operations are parts of the worker's actions.       *)
(*                                                                         *)
(* A dequeued buffer is described by what ir_capture_next tells apart: its *)
(* sequence number, the driver's error flag, and whether something else is *)
(* wrong with it (plane metadata, timestamp, header) or even with its      *)
(* index, in which case it cannot be given back.                           *)
(***************************************************************************)
EXTENDS Naturals, Integers

CONSTANTS
    Helpers,      \* processes of the authentication helper
    BufferCount,  \* buffers of a capture
    SeqMod,       \* sequence numbers are below SeqMod (2^32 in the code)
    MaxDiscards,  \* IR_CAPTURE_MAX_CONSECUTIVE_DISCARDS (5 in the code)
    NoFrame       \* have_sequence = false

ASSUME CaptureAssumption ==
    /\ BufferCount \in Nat \ {0} /\ SeqMod \in Nat \ {0, 1}
    /\ MaxDiscards \in Nat /\ NoFrame \notin 0..(SeqMod - 1)

VARIABLES
    queued,   \* buffers that are with the driver
    last,     \* last_sequence, NoFrame before the first frame
    discards, \* consecutive_discards
    waited    \* the anchor is set and IR_CAPTURE_MAX_DISCARD_WAIT_NS ago

captureVars == <<queued, last, discards, waited>>

SeqNums == 0..(SeqMod - 1)
Faults == {"none", "other", "index"}
Buffers == [seq : SeqNums, error_flag : BOOLEAN, fault : Faults]

CaptureTypeOK ==
    /\ queued \in [Helpers -> 0..BufferCount]
    /\ last \in [Helpers -> SeqNums \cup {NoFrame}]
    /\ discards \in [Helpers -> 0..MaxDiscards]
    /\ waited \in [Helpers -> BOOLEAN]

CaptureInit ==
    /\ queued = [h \in Helpers |-> 0]
    /\ last = [h \in Helpers |-> NoFrame]
    /\ discards = [h \in Helpers |-> 0]
    /\ waited = [h \in Helpers |-> FALSE]
-----------------------------------------------------------------------------
\* A new object has queued all its buffers and streams.
ir_capture_start(h) ==
    /\ queued' = [queued EXCEPT ![h] = BufferCount]
    /\ last' = [last EXCEPT ![h] = NoFrame]
    /\ discards' = [discards EXCEPT ![h] = 0]
    /\ waited' = [waited EXCEPT ![h] = FALSE]

\* STREAMOFF, at the latest in ir_capture_close, returns every buffer.
ir_capture_close(h) ==
    /\ queued' = [queued EXCEPT ![h] = 0]
    /\ last' = [last EXCEPT ![h] = NoFrame]
    /\ discards' = [discards EXCEPT ![h] = 0]
    /\ waited' = [waited EXCEPT ![h] = FALSE]

\* Time: two seconds since the first discard after the last valid frame.
DiscardWaitOver(h) ==
    /\ discards[h] > 0 /\ ~waited[h]
    /\ waited' = [waited EXCEPT ![h] = TRUE]
    /\ UNCHANGED <<queued, last, discards>>

\* Mutant: one discard too many.
discard_limit_late(h) == discards[h] > MaxDiscards \/ waited[h]

discard_limit_reached(h) == discards[h] >= MaxDiscards \/ waited[h]

\* Unsigned subtraction: forward by less than half the range.
Advances(old, new) ==
    old # NoFrame => (new - old) % SeqMod \in 1..((SeqMod - 1) \div 2)

Valid(h, b) == ~b.error_flag /\ b.fault = "none" /\ Advances(last[h], b.seq)

\* Mutant: VIDIOC_QBUF may have failed.
DiscardUnqueued(h, b, requeued) ==
    b.error_flag /\ b.fault = "none" /\ ~discard_limit_reached(h)

\* The error flag is the only reason, the buffer is back with the driver and
\* the limits permit to go on.
Discard(h, b, requeued) ==
    b.error_flag /\ b.fault = "none" /\ requeued /\ ~discard_limit_reached(h)

\* The buffer is dequeued, judged, and given back unless its index is wrong
\* or VIDIOC_QBUF fails.
Requeue(h, requeued) ==
    queued' = [queued EXCEPT ![h] = IF requeued THEN @ ELSE @ - 1]

\* ir_capture_next returns 1.
NextFrame(h, b) ==
    /\ Valid(h, b) /\ queued[h] > 0
    /\ last' = [last EXCEPT ![h] = b.seq]
    /\ discards' = [discards EXCEPT ![h] = 0]
    /\ waited' = [waited EXCEPT ![h] = FALSE]
    /\ UNCHANGED queued

\* ir_capture_next returns IR_CAPTURE_RESULT_DISCARDED.
NextDiscarded(h, b, requeued) ==
    /\ queued[h] > 0 /\ Discard(h, b, requeued)
    /\ discards' = [discards EXCEPT ![h] = @ + 1]
    /\ Requeue(h, requeued)
    /\ UNCHANGED <<last, waited>>

\* ir_capture_next returns -1 for a buffer: rejected, or valid and not taken
\* back by the driver.
NextRejected(h, b, requeued) ==
    /\ queued[h] > 0
    /\ b.fault = "index" => ~requeued
    /\ ~(Valid(h, b) /\ requeued) /\ ~Discard(h, b, requeued)
    /\ Requeue(h, requeued)
    /\ UNCHANGED <<last, discards, waited>>

\* ir_capture_next without a buffer returns 0: poll timed out or was
\* interrupted, or there was nothing to dequeue (handle_capture_timeout).
NextTimeout(h) == ~discard_limit_reached(h) /\ UNCHANGED captureVars

\* The same returns -1: the discards lasted too long, or poll or
\* VIDIOC_DQBUF failed.
NextFails(h) == UNCHANGED captureVars
=============================================================================
