----------------------------- MODULE TokenQueue -----------------------------
(***************************************************************************)
(* What a FWCOM queue promises its two ends: a first-in first-out queue of *)
(* at most QueueSize tokens ("tokens per queue" in ipu-fw-com.h), none of  *)
(* which is lost or repeated.  The receiver looks at the oldest token and  *)
(* releases it later.                                                      *)
(***************************************************************************)
EXTENDS Naturals, Sequences

CONSTANTS QueueSize, Msgs, None

VARIABLES queue, taken

Init == queue = << >> /\ taken = None

Put(m) ==
    /\ Len(queue) < QueueSize
    /\ queue' = Append(queue, m)
    /\ UNCHANGED taken

Get ==
    /\ queue # << >> /\ taken = None
    /\ taken' = Head(queue)
    /\ UNCHANGED queue

Release ==
    /\ taken # None
    /\ queue' = Tail(queue)
    /\ taken' = None

Next == (\E m \in Msgs : Put(m)) \/ Get \/ Release

Spec == Init /\ [][Next]_<<queue, taken>>
=============================================================================
