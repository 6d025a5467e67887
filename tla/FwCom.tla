------------------------------- MODULE FwCom --------------------------------
(***************************************************************************)
(* The FWCOM layer of ipu-fw-com.c: rings of tokens shared by the driver   *)
(* and the firmware, with the read and write indexes in ISP memory.  The   *)
(* driver writes the input ring and reads the output ring; the firmware,   *)
(* which is external, does the opposite and is assumed to respect both     *)
(* rings.  A ring has one slot more than the QueueSize tokens it is meant  *)
(* for.                                                                    *)
(***************************************************************************)
EXTENDS Naturals, Sequences

CONSTANTS
    QueueSize,  \* tokens per queue
    Msgs, None,
    Limit       \* tokens a caller of ipu_send_get_token keeps in flight

ASSUME FwComAssumption ==
    /\ QueueSize \in Nat \ {0}
    /\ Limit \in Nat
    /\ None \notin Msgs

VARIABLES
    input,   \* struct ipu_fw_sys_queue of the send direction
    output,  \* and of the receive direction
    token,   \* the driver has a send token and has filled it
    fwTaken, \* the token the firmware works on
    taken    \* the token ipu_recv_get_token returned

vars == <<input, output, token, fwTaken, taken>>

Size == QueueSize + 1
Index == 0..(Size - 1)
Ring == [slots : [Index -> Msgs \cup {None}], wr : Index, rd : Index]

TypeOK ==
    /\ input \in Ring /\ output \in Ring
    /\ token \in BOOLEAN
    /\ fwTaken \in Msgs \cup {None} /\ taken \in Msgs \cup {None}

num_messages(wr, rd, size) == (IF wr < rd THEN wr + size ELSE wr) - rd

num_free(wr, rd, size) == size - num_messages(wr, rd, size)

\* Mutant: the index wraps one slot too late.
inc_index_late(index) == IF index + 1 > Size THEN 0 ELSE index + 1

inc_index(index) == IF index + 1 >= Size THEN 0 ELSE index + 1

\* The tokens between the read and the write index, oldest first.
Contents(q) ==
    [i \in 1..num_messages(q.wr, q.rd, Size) |->
        q.slots[(q.rd + i - 1) % Size]]

ipu_sys_queue_init ==
    [slots |-> [i \in Index |-> None], wr |-> 0, rd |-> 0]

Init ==
    /\ input = ipu_sys_queue_init /\ output = ipu_sys_queue_init
    /\ token = FALSE /\ fwTaken = None /\ taken = None
-----------------------------------------------------------------------------
(***************************************************************************)
(* The driver.                                                             *)
(***************************************************************************)

\* Mutant: the token is the slot after the write index.
ipu_send_get_token_next(m) ==
    /\ ~token
    /\ Len(Contents(input)) < Limit
    /\ num_free(input.wr + 1, input.rd, Size) > 0
    /\ input' = [input EXCEPT !.slots[inc_index(input.wr)] = m]
    /\ token' = TRUE
    /\ UNCHANGED <<output, fwTaken, taken>>

\* ipu_send_get_token: the indexes are read and the ring tested for a free
\* slot; the caller fills the token it gets.
ipu_send_get_token(m) ==
    /\ ~token
    /\ Len(Contents(input)) < Limit
    /\ num_free(input.wr + 1, input.rd, Size) > 0
    /\ input' = [input EXCEPT !.slots[input.wr] = m]
    /\ token' = TRUE
    /\ UNCHANGED <<output, fwTaken, taken>>

ipu_send_put_token ==
    /\ token
    /\ input' = [input EXCEPT !.wr = inc_index(input.wr)]
    /\ token' = FALSE
    /\ UNCHANGED <<output, fwTaken, taken>>

\* Mutant: the ring is not tested for a message.
ipu_recv_get_token_untested ==
    /\ taken = None
    /\ taken' = output.slots[output.rd]
    /\ UNCHANGED <<input, output, token, fwTaken>>

ipu_recv_get_token ==
    /\ taken = None
    /\ num_messages(output.wr, output.rd, Size) > 0
    /\ taken' = output.slots[output.rd]
    /\ UNCHANGED <<input, output, token, fwTaken>>

ipu_recv_put_token ==
    /\ taken # None
    /\ output' = [output EXCEPT !.rd = inc_index(output.rd)]
    /\ taken' = None
    /\ UNCHANGED <<input, token, fwTaken>>
-----------------------------------------------------------------------------
(***************************************************************************)
(* The firmware.                                                           *)
(***************************************************************************)
FwGet ==
    /\ fwTaken = None /\ input.wr # input.rd
    /\ fwTaken' = input.slots[input.rd]
    /\ UNCHANGED <<input, output, token, taken>>

FwRelease ==
    /\ fwTaken # None
    /\ input' = [input EXCEPT !.rd = inc_index(input.rd)]
    /\ fwTaken' = None
    /\ UNCHANGED <<output, token, taken>>

FwPut(m) ==
    /\ inc_index(output.wr) # output.rd
    /\ output' = [output EXCEPT !.slots[output.wr] = m,
                                !.wr = inc_index(output.wr)]
    /\ UNCHANGED <<input, token, fwTaken, taken>>

Next ==
    \/ \E m \in Msgs : ipu_send_get_token(m) \/ FwPut(m)
    \/ ipu_send_put_token \/ ipu_recv_get_token \/ ipu_recv_put_token
    \/ FwGet \/ FwRelease

Spec == Init /\ [][Next]_vars
-----------------------------------------------------------------------------
(***************************************************************************)
(* Properties.                                                             *)
(***************************************************************************)
SendQueue == INSTANCE TokenQueue WITH queue <- Contents(input),
                                      taken <- fwTaken
RecvQueue == INSTANCE TokenQueue WITH queue <- Contents(output),
                                      taken <- taken

\* The receive ring implements the token queue: across every wrap of the
\* indexes ipu_recv_get_token returns the firmware's messages in order, each
\* once, and ipu_recv_put_token frees exactly the slot it returned.
RecvIsFifo == RecvQueue!Spec

\* The send ring implements the token queue: ipu_send_get_token never hands
\* out a slot the firmware has not read, and no message disappears.
SendIsFifo == SendQueue!Spec
=============================================================================
