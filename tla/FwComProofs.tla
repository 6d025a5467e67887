---------------------------- MODULE FwComProofs -----------------------------
(***************************************************************************)
(* The rings of FWCOM implement TokenQueue, for every queue size and every *)
(* set of messages.  Contents, the mapping, reads the slots between the    *)
(* indexes modulo the size; the first part shows what moving an index or   *)
(* filling a slot does to it across a wrap.  The second shows that every   *)
(* step of the driver or the firmware is a step of the queue.              *)
(***************************************************************************)
EXTENDS FwCom, TLAPS

\* The index a, which is less than twice the size, stands for.
Wrap(a) == IF a < Size THEN a ELSE a - Size

\* Contents computes it with a remainder.
LEMMA WrapIsMod ==
    ASSUME NEW a \in Nat, a < 2 * Size
    PROVE  a % Size = Wrap(a) /\ Wrap(a) \in Index
<1>1. Size \in Nat /\ Size > 0
  BY FwComAssumption DEF Size
<1>2. CASE a < Size
  BY <1>1, <1>2 DEF Wrap, Index
<1>3. CASE a >= Size
  <2>1. a - Size \in 0..(Size - 1)
    BY <1>1, <1>3
  <2> QED
    BY <1>1, <1>3, <2>1 DEF Wrap, Index
<1> QED
  BY <1>1, <1>2, <1>3

\* Contents as a sequence: its length is num_messages, never above QueueSize,
\* and its elements are those of the slots from the read index on.
LEMMA ContentsShape ==
    ASSUME NEW q \in Ring
    PROVE  /\ Contents(q) \in Seq(Msgs \cup {None})
           /\ Len(Contents(q)) = num_messages(q.wr, q.rd, Size)
           /\ num_messages(q.wr, q.rd, Size) \in 0..QueueSize
           /\ \A i \in 1..num_messages(q.wr, q.rd, Size) :
                 /\ Wrap(q.rd + i - 1) \in Index
                 /\ Contents(q)[i] = q.slots[Wrap(q.rd + i - 1)]
<1> DEFINE n == num_messages(q.wr, q.rd, Size)
<1>1. /\ QueueSize \in Nat /\ Size = QueueSize + 1
      /\ q.wr \in Index /\ q.rd \in Index
      /\ q.slots \in [Index -> Msgs \cup {None}]
  BY FwComAssumption DEF Size, Ring
<1>2. n \in 0..QueueSize
  BY <1>1 DEF num_messages, Index
<1>3. ASSUME NEW i \in 1..n
      PROVE  /\ (q.rd + i - 1) % Size = Wrap(q.rd + i - 1)
             /\ Wrap(q.rd + i - 1) \in Index
  <2>1. q.rd + i - 1 \in Nat /\ q.rd + i - 1 < 2 * Size
    BY <1>1, <1>2 DEF Index
  <2> QED
    BY <2>1, WrapIsMod
<1> HIDE DEF n
<1>4. Contents(q) = [i \in 1..n |-> q.slots[(q.rd + i - 1) % Size]]
  BY DEF Contents, n
<1>5. \A i \in 1..n : q.slots[(q.rd + i - 1) % Size] \in Msgs \cup {None}
  BY <1>1, <1>3
<1>6. Contents(q) \in Seq(Msgs \cup {None}) /\ Len(Contents(q)) = n
  BY <1>2, <1>4, <1>5
<1> QED
  BY <1>2, <1>3, <1>4, <1>6 DEF n

\* A sequence with the length and the elements of a ring is its contents.
LEMMA ContentsEqual ==
    ASSUME NEW q \in Ring, NEW s \in Seq(Msgs \cup {None}),
           Len(s) = num_messages(q.wr, q.rd, Size),
           \A i \in 1..num_messages(q.wr, q.rd, Size) :
              s[i] = q.slots[Wrap(q.rd + i - 1)]
    PROVE  Contents(q) = s
<1> DEFINE n == num_messages(q.wr, q.rd, Size)
<1> HIDE DEF n
<1>1. Contents(q) \in Seq(Msgs \cup {None}) /\ Len(Contents(q)) = n
      /\ \A i \in 1..n : Contents(q)[i] = s[i]
  BY ContentsShape DEF n
<1> QED
  BY <1>1 DEF n

\* inc_index stays in the ring.
LEMMA NextIndex ==
    ASSUME NEW i \in Index
    PROVE  /\ inc_index(i) \in Index
           /\ inc_index(i) = Wrap(i + 1)
BY FwComAssumption DEF inc_index, Wrap, Index, Size

\* Filling the slot at the write index (ipu_send_get_token) leaves the
\* contents alone, even in a full ring: that slot is outside.
LEMMA FillKeepsContents ==
    ASSUME NEW q \in Ring, NEW m \in Msgs
    PROVE  /\ [q EXCEPT !.slots[q.wr] = m] \in Ring
           /\ Contents([q EXCEPT !.slots[q.wr] = m]) = Contents(q)
<1> DEFINE r == [q EXCEPT !.slots[q.wr] = m]
           n == num_messages(q.wr, q.rd, Size)
<1>1. /\ r \in Ring /\ r.wr = q.wr /\ r.rd = q.rd
      /\ q.wr \in Index /\ q.rd \in Index
      /\ q.slots \in [Index -> Msgs \cup {None}]
      /\ \A j \in Index : j # q.wr => r.slots[j] = q.slots[j]
  BY DEF Ring
<1>2. QueueSize \in Nat
  BY FwComAssumption
<1>3. \A i \in 1..n : Wrap(q.rd + i - 1) # q.wr
  BY <1>1, <1>2 DEF Wrap, num_messages, Index, Size
<1> HIDE DEF r
<1>4. \A i \in 1..n : Contents(q)[i] = r.slots[Wrap(q.rd + i - 1)]
  BY <1>1, <1>3, ContentsShape
<1>5. Contents(q) \in Seq(Msgs \cup {None}) /\ Len(Contents(q)) = n
  BY ContentsShape
<1>6. Contents(r) = Contents(q)
  BY <1>1, <1>4, <1>5, ContentsEqual
<1> QED
  BY <1>1, <1>6 DEF r

\* Advancing the write index of a ring that is not full (ipu_send_put_token)
\* appends what its slot holds.
LEMMA AdvanceWrite ==
    ASSUME NEW q \in Ring, inc_index(q.wr) # q.rd
    PROVE  /\ [q EXCEPT !.wr = inc_index(q.wr)] \in Ring
           /\ Contents([q EXCEPT !.wr = inc_index(q.wr)])
                 = Append(Contents(q), q.slots[q.wr])
           /\ Len(Contents(q)) < QueueSize
<1> DEFINE r == [q EXCEPT !.wr = inc_index(q.wr)]
           n == num_messages(q.wr, q.rd, Size)
           s == Append(Contents(q), q.slots[q.wr])
<1>1. /\ r \in Ring /\ r.wr = inc_index(q.wr) /\ r.rd = q.rd
      /\ r.slots = q.slots /\ q.wr \in Index /\ q.rd \in Index
      /\ q.slots[q.wr] \in Msgs \cup {None}
  BY NextIndex DEF Ring
<1>2. QueueSize \in Nat
  BY FwComAssumption
<1>3. /\ num_messages(r.wr, r.rd, Size) = n + 1 /\ Wrap(q.rd + n) = q.wr
      /\ n \in Nat /\ n < QueueSize
  BY <1>1, <1>2 DEF Wrap, num_messages, Index, Size, inc_index
<1>4. /\ Contents(q) \in Seq(Msgs \cup {None}) /\ Len(Contents(q)) = n
      /\ \A i \in 1..n : Contents(q)[i] = q.slots[Wrap(q.rd + i - 1)]
  BY ContentsShape
<1> HIDE DEF r, n
<1>5. /\ s \in Seq(Msgs \cup {None}) /\ Len(s) = n + 1
      /\ s[n + 1] = q.slots[q.wr] /\ \A i \in 1..n : s[i] = Contents(q)[i]
  BY <1>1, <1>4
<1> HIDE DEF s
<1>6. q.rd + (n + 1) - 1 = q.rd + n
  BY <1>1, <1>3 DEF Index
<1>7. \A i \in 1..(n + 1) : s[i] = r.slots[Wrap(q.rd + i - 1)]
  BY <1>1, <1>3, <1>4, <1>5, <1>6
<1>8. Contents(r) = s
  BY <1>1, <1>3, <1>5, <1>7, ContentsEqual
<1> QED
  BY <1>1, <1>3, <1>4, <1>8 DEF r, s

\* Advancing the read index of a ring that is not empty (ipu_recv_put_token)
\* removes the oldest token, the one its slot holds.
LEMMA AdvanceRead ==
    ASSUME NEW q \in Ring, q.wr # q.rd
    PROVE  /\ [q EXCEPT !.rd = inc_index(q.rd)] \in Ring
           /\ Contents([q EXCEPT !.rd = inc_index(q.rd)]) = Tail(Contents(q))
           /\ Contents(q) # << >> /\ Head(Contents(q)) = q.slots[q.rd]
<1> DEFINE r == [q EXCEPT !.rd = inc_index(q.rd)]
           n == num_messages(q.wr, q.rd, Size)
           s == Tail(Contents(q))
<1>1. /\ r \in Ring /\ r.rd = inc_index(q.rd) /\ r.wr = q.wr
      /\ r.slots = q.slots /\ q.wr \in Index /\ q.rd \in Index
  BY NextIndex DEF Ring
<1>2. QueueSize \in Nat
  BY FwComAssumption
<1>3. /\ num_messages(r.wr, r.rd, Size) = n - 1 /\ Wrap(q.rd) = q.rd
      /\ n \in Nat /\ n > 0
  BY <1>1, <1>2 DEF Wrap, num_messages, Index, Size, inc_index
<1>4. \A i \in 1..(n - 1) : Wrap(r.rd + i - 1) = Wrap(q.rd + (i + 1) - 1)
  BY <1>1, <1>2 DEF Wrap, num_messages, Index, Size, inc_index
<1>5. /\ Contents(q) \in Seq(Msgs \cup {None}) /\ Len(Contents(q)) = n
      /\ \A i \in 1..n : Contents(q)[i] = q.slots[Wrap(q.rd + i - 1)]
  BY ContentsShape
<1> HIDE DEF r, n
<1>6. /\ s \in Seq(Msgs \cup {None}) /\ Len(s) = n - 1 /\ Contents(q) # << >>
      /\ \A i \in 1..(n - 1) : s[i] = Contents(q)[i + 1]
      /\ Head(Contents(q)) = Contents(q)[1]
  BY <1>3, <1>5
<1> HIDE DEF s
<1>7. \A i \in 1..(n - 1) : s[i] = r.slots[Wrap(r.rd + i - 1)]
  BY <1>1, <1>3, <1>4, <1>5, <1>6
<1>8. Contents(r) = s
  BY <1>1, <1>3, <1>6, <1>7, ContentsEqual
<1>9. Contents(q)[1] = q.slots[q.rd]
  <2>1. q.rd + 1 - 1 = q.rd /\ 1 \in 1..n
    BY <1>1, <1>3 DEF Index
  <2> QED
    BY <1>3, <1>5, <2>1
<1> QED
  BY <1>1, <1>6, <1>8, <1>9 DEF r, s

\* The indexes are equal in an empty ring, and only there.
LEMMA EmptyRing ==
    ASSUME NEW q \in Ring
    PROVE  (q.wr = q.rd) <=> (Contents(q) = << >>)
<1>1. QueueSize \in Nat /\ q.wr \in Index /\ q.rd \in Index
  BY FwComAssumption DEF Ring
<1>2. (q.wr = q.rd) <=> num_messages(q.wr, q.rd, Size) = 0
  BY <1>1 DEF num_messages, Index, Size
<1> QED
  BY <1>2, ContentsShape

\* With fewer than QueueSize tokens the write index has not come round to
\* the read index.
LEMMA FullRing ==
    ASSUME NEW q \in Ring, Len(Contents(q)) < QueueSize
    PROVE  inc_index(q.wr) # q.rd
<1>1. QueueSize \in Nat /\ q.wr \in Index /\ q.rd \in Index
  BY FwComAssumption DEF Ring
<1>2. num_messages(q.wr, q.rd, Size) < QueueSize
  BY ContentsShape
<1> QED
  BY <1>1, <1>2 DEF num_messages, Index, Size, inc_index
-----------------------------------------------------------------------------
\* The token ipu_recv_get_token returned is still in the ring.
RecvInv == TypeOK /\ (taken # None => output.wr # output.rd)

\* So is the one the firmware works on, and the token the driver has filled
\* fits: the firmware only makes room after ipu_send_get_token.
SendInv ==
    /\ TypeOK
    /\ fwTaken # None => input.wr # input.rd
    /\ token => input.slots[input.wr] \in Msgs /\ Len(Contents(input)) < Limit

\* Both rings start empty.
LEMMA TypeInitially == Init => TypeOK
<1>1. 0 \in Index
  BY FwComAssumption DEF Index, Size
<1>2. ipu_sys_queue_init \in Ring
  BY <1>1 DEF Ring, ipu_sys_queue_init
<1> QED
  BY <1>2 DEF Init, TypeOK

\* The types are inductive on their own.
LEMMA TypeStep == TypeOK /\ [Next]_vars => TypeOK'
<1> SUFFICES ASSUME TypeOK, [Next]_vars PROVE TypeOK'
  OBVIOUS
<1> USE DEF TypeOK
<1>0. ASSUME NEW q \in Ring
      PROVE  /\ q.wr \in Index /\ q.rd \in Index
             /\ q.slots \in [Index -> Msgs \cup {None}]
  BY <1>0 DEF Ring
<1>1. ASSUME NEW m \in Msgs, ipu_send_get_token(m) PROVE TypeOK'
  BY <1>1, FillKeepsContents DEF ipu_send_get_token
<1>2. ASSUME NEW m \in Msgs, FwPut(m) PROVE TypeOK'
  BY <1>0, <1>2, NextIndex DEF FwPut, Ring
<1>3. CASE ipu_send_put_token
  BY <1>0, <1>3, NextIndex DEF ipu_send_put_token, Ring
<1>4. CASE ipu_recv_get_token
  BY <1>0, <1>4 DEF ipu_recv_get_token
<1>5. CASE ipu_recv_put_token
  BY <1>0, <1>5, NextIndex DEF ipu_recv_put_token, Ring
<1>6. CASE FwGet
  BY <1>0, <1>6 DEF FwGet
<1>7. CASE FwRelease
  BY <1>0, <1>7, NextIndex DEF FwRelease, Ring
<1>8. CASE UNCHANGED vars
  BY <1>8 DEF vars
<1> QED
  BY <1>1, <1>2, <1>3, <1>4, <1>5, <1>6, <1>7, <1>8 DEF Next

\* The indexes stay in the ring and the slots hold messages, for every
\* queue size and however full the callers drive the ring.
THEOREM TypeCorrect == Spec => []TypeOK
BY TypeInitially, TypeStep, PTL DEF Spec

\* The firmware fills a slot and advances the index in one step (FwPut).
LEMMA PutRing ==
    ASSUME NEW q \in Ring, NEW m \in Msgs, inc_index(q.wr) # q.rd
    PROVE  /\ Contents([q EXCEPT !.slots[q.wr] = m, !.wr = inc_index(q.wr)])
                 = Append(Contents(q), m)
           /\ Len(Contents(q)) < QueueSize
<1> DEFINE r == [q EXCEPT !.slots[q.wr] = m]
<1>1. r \in Ring /\ Contents(r) = Contents(q)
  BY FillKeepsContents
<1>2. r.wr = q.wr /\ r.rd = q.rd /\ r.slots[r.wr] = m
      /\ [r EXCEPT !.wr = inc_index(r.wr)]
            = [q EXCEPT !.slots[q.wr] = m, !.wr = inc_index(q.wr)]
  BY DEF Ring
<1> HIDE DEF r
<1> QED
  BY <1>1, <1>2, AdvanceWrite

\* What each step does to the receive ring.
LEMMA RecvStep ==
    RecvInv /\ [Next]_vars =>
        RecvInv' /\ [RecvQueue!Next]_<<Contents(output), taken>>
<1> SUFFICES ASSUME RecvInv, [Next]_vars
             PROVE  /\ (taken # None => output.wr # output.rd)'
                    /\ [RecvQueue!Next]_<<Contents(output), taken>>
  BY TypeStep DEF RecvInv
<1>0. /\ output \in Ring /\ output' \in Ring
      /\ taken # None => output.wr # output.rd
  BY TypeStep DEF RecvInv, TypeOK
<1>1. ASSUME NEW m \in Msgs, FwPut(m)
      PROVE  (taken # None => output.wr # output.rd)' /\ RecvQueue!Next
  <2>1. /\ Contents(output') = Append(Contents(output), m) /\ taken' = taken
        /\ Len(Contents(output)) < QueueSize
    BY <1>0, <1>1, PutRing DEF FwPut
  <2>2. output'.wr = inc_index(output.wr) /\ output'.rd = output.rd
    BY <1>0, <1>1 DEF FwPut, Ring
  <2>3. output'.wr # output'.rd
    BY <1>1, <2>2 DEF FwPut
  <2> QED
    BY <2>1, <2>3 DEF RecvQueue!Next, RecvQueue!Put
<1>2. CASE ipu_recv_get_token
  <2>1. output' = output /\ taken' = output.slots[output.rd] /\ taken = None
    BY <1>2 DEF ipu_recv_get_token
  <2>2. output.wr # output.rd
    BY <1>0, <1>2, FwComAssumption
       DEF ipu_recv_get_token, num_messages, Ring, Index, Size
  <2>3. /\ Contents(output) # << >>
        /\ Head(Contents(output)) = output.slots[output.rd]
    BY <1>0, <2>2, AdvanceRead
  <2> QED
    BY <2>1, <2>2, <2>3 DEF RecvQueue!Next, RecvQueue!Get
<1>3. CASE ipu_recv_put_token
  <2>1. taken # None /\ taken' = None
        /\ output' = [output EXCEPT !.rd = inc_index(output.rd)]
    BY <1>3 DEF ipu_recv_put_token
  <2>2. Contents(output') = Tail(Contents(output))
    BY <1>0, <2>1, AdvanceRead
  <2> QED
    BY <2>1, <2>2 DEF RecvQueue!Next, RecvQueue!Release
<1>4. CASE UNCHANGED <<output, taken>>
  BY <1>0, <1>4
<1> QED
  BY <1>1, <1>2, <1>3, <1>4
     DEF Next, ipu_send_get_token, ipu_send_put_token, FwGet, FwRelease, vars

\* The receive ring is a first-in first-out queue of at most QueueSize
\* tokens, for every size: ipu_recv_get_token returns the oldest message and
\* ipu_recv_put_token frees its slot, across every wrap of the indexes.
THEOREM ReceiveRefines == Spec => RecvIsFifo
<1>1. Init => RecvInv /\ RecvQueue!Init
  <2> SUFFICES ASSUME Init PROVE RecvInv /\ RecvQueue!Init
    OBVIOUS
  <2>1. TypeOK /\ output \in Ring
    BY TypeInitially DEF TypeOK
  <2>2. output.wr = output.rd /\ taken = None
    BY DEF Init, ipu_sys_queue_init
  <2> QED
    BY <2>1, <2>2, EmptyRing DEF RecvInv, RecvQueue!Init
<1> QED
  BY <1>1, RecvStep, PTL DEF Spec, RecvIsFifo, RecvQueue!Spec

\* What each step does to the send ring, when no caller keeps more than
\* QueueSize tokens in flight.
LEMMA SendStep ==
    ASSUME Limit <= QueueSize
    PROVE  SendInv /\ [Next]_vars =>
               SendInv' /\ [SendQueue!Next]_<<Contents(input), fwTaken>>
<1> SUFFICES ASSUME SendInv, [Next]_vars
             PROVE  SendInv' /\ [SendQueue!Next]_<<Contents(input), fwTaken>>
  OBVIOUS
<1>0. /\ TypeOK /\ TypeOK' /\ input \in Ring /\ input' \in Ring
      /\ fwTaken # None => input.wr # input.rd
      /\ token => /\ input.slots[input.wr] \in Msgs
                  /\ Len(Contents(input)) < Limit
  BY TypeStep DEF SendInv, TypeOK
<1>1. ASSUME NEW m \in Msgs, ipu_send_get_token(m)
      PROVE  SendInv' /\ UNCHANGED <<Contents(input), fwTaken>>
  <2>1. Contents(input') = Contents(input) /\ fwTaken' = fwTaken
        /\ Len(Contents(input)) < Limit
    BY <1>0, <1>1, FillKeepsContents DEF ipu_send_get_token
  <2>2. /\ input'.wr = input.wr /\ input'.rd = input.rd
        /\ input'.slots[input.wr] = m
    BY <1>0, <1>1 DEF ipu_send_get_token, Ring
  <2> QED
    BY <1>0, <2>1, <2>2 DEF SendInv
<1>2. CASE ipu_send_put_token
  <2>1. /\ input' = [input EXCEPT !.wr = inc_index(input.wr)]
        /\ token /\ token' = FALSE /\ fwTaken' = fwTaken
    BY <1>2 DEF ipu_send_put_token
  <2>2. Len(Contents(input)) < QueueSize
    <3>1. Len(Contents(input)) \in Nat
      BY <1>0, ContentsShape
    <3> QED
      BY <1>0, <2>1, <3>1, FwComAssumption
  <2>3. inc_index(input.wr) # input.rd
    BY <1>0, <2>2, FullRing
  <2>4. Contents(input') = Append(Contents(input), input.slots[input.wr])
    BY <1>0, <2>1, <2>3, AdvanceWrite
  <2>5. input'.wr = inc_index(input.wr) /\ input'.rd = input.rd
    BY <1>0, <2>1 DEF Ring
  <2> QED
    BY <1>0, <2>1, <2>2, <2>3, <2>4, <2>5
       DEF SendInv, SendQueue!Next, SendQueue!Put
<1>3. CASE FwGet
  <2>1. input' = input /\ token' = token /\ fwTaken = None
        /\ fwTaken' = input.slots[input.rd] /\ input.wr # input.rd
    BY <1>3 DEF FwGet
  <2>2. /\ Contents(input) # << >>
        /\ Head(Contents(input)) = input.slots[input.rd]
    BY <1>0, <2>1, AdvanceRead
  <2> QED
    BY <1>0, <2>1, <2>2 DEF SendInv, SendQueue!Next, SendQueue!Get
<1>4. CASE FwRelease
  <2>1. fwTaken # None /\ fwTaken' = None /\ token' = token
        /\ input' = [input EXCEPT !.rd = inc_index(input.rd)]
    BY <1>4 DEF FwRelease
  <2>2. /\ Contents(input') = Tail(Contents(input))
        /\ Contents(input) \in Seq(Msgs \cup {None}) /\ Contents(input) # << >>
    BY <1>0, <2>1, AdvanceRead, ContentsShape
  <2>3. input'.wr = input.wr /\ input'.slots = input.slots
    BY <1>0, <2>1 DEF Ring
  <2>4. /\ Len(Contents(input')) < Len(Contents(input))
        /\ Len(Contents(input)) \in Nat
        /\ Len(Contents(input')) \in Nat
    BY <2>2
  <2>5. Len(Contents(input)) < Limit => Len(Contents(input')) < Limit
    BY <2>4, FwComAssumption
  <2>6. SendInv'
    BY <1>0, <2>1, <2>3, <2>5 DEF SendInv
  <2> QED
    BY <2>1, <2>2, <2>6 DEF SendQueue!Next, SendQueue!Release
<1>5. CASE UNCHANGED <<input, token, fwTaken>>
  BY <1>0, <1>5 DEF SendInv
<1> QED
  BY <1>1, <1>2, <1>3, <1>4, <1>5
     DEF Next, FwPut, ipu_recv_get_token, ipu_recv_put_token, vars

\* The send ring is such a queue too, provided its callers keep at most
\* QueueSize tokens in flight: the test in ipu_send_get_token alone does not
\* make it one (see the run fwcom_full).
THEOREM SendRefines ==
    ASSUME Limit <= QueueSize
    PROVE  Spec => SendIsFifo
<1>1. Init => SendInv /\ SendQueue!Init
  <2> SUFFICES ASSUME Init PROVE SendInv /\ SendQueue!Init
    OBVIOUS
  <2>1. TypeOK /\ input \in Ring
    BY TypeInitially DEF TypeOK
  <2>2. input.wr = input.rd /\ fwTaken = None /\ token = FALSE
    BY DEF Init, ipu_sys_queue_init
  <2> QED
    BY <2>1, <2>2, EmptyRing DEF SendInv, SendQueue!Init
<1> QED
  BY <1>1, SendStep, PTL DEF Spec, SendIsFifo, SendQueue!Spec
=============================================================================
