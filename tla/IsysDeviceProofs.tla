-------------------------- MODULE IsysDeviceProofs --------------------------
(***************************************************************************)
(* Proofs about opening, closing and recovering the ISYS device, for any   *)
(* number of threads, retries and commands in flight.                      *)
(*                                                                         *)
(* The references come first: RefsBalanced counts the threads between      *)
(* taking and returning, and gives what the others need to know of         *)
(* video_opened and of the locks.  The rest of the inductive invariant     *)
(* says how the hardware's state and the driver's idea of it can part.     *)
(***************************************************************************)
EXTENDS IsysDevice, FiniteSetTheorems, TLAPS

Holding == {"count", "init", "open", "close", "put"}
Counted == {"init", "open"}
Locking == {"init", "close"}
PowerLabels == {"power_off", "power_on", "recovered"}

\* The threads at one of the positions P.
At(P) == {t \in Threads : pc[t] \in P}

Types ==
    /\ pc \in [Threads -> Labels] /\ job \in [Threads -> {"open", "sysfs"}]
    /\ mutex \in Threads \cup {None} /\ recovery \in Threads \cup {None}
    /\ auth \in Threads \cup {None}
    /\ reset_needed \in BOOLEAN /\ fwcom \in BOOLEAN
    /\ wedged \in BOOLEAN /\ overtaken \in BOOLEAN /\ unreported \in BOOLEAN

\* The first opener and the last closer are alone with the firmware context.
Alone ==
    \A t, u \in Threads :
        /\ pc[t] = "init" /\ pc[u] \in Counted => t = u
        /\ pc[t] = "close" => pc[u] \notin Counted

\* The power cut has healed the hardware, so a thread that is about to clear
\* reset_needed finds it wedged again only through one of the two holes.
CutHeals == CycleRuns /\ wedged => overtaken \/ unreported

Rest == Alone /\ OpenHasFirmware /\ FailureRemembered /\ CutHeals

\* The inductive invariant.
IInv == Types /\ RefsBalanced /\ Rest
-----------------------------------------------------------------------------
(***************************************************************************)
(* Counting.                                                               *)
(***************************************************************************)

\* How a step of one thread changes the number of threads at P.
LEMMA Counting ==
    ASSUME Types, NEW t \in Threads, NEW l \in Labels, Goto(t, l), NEW P
    PROVE  /\ Cardinality(At(P)) \in Nat
           /\ (pc[t] \in P <=> l \in P) =>
                 Cardinality(At(P)') = Cardinality(At(P))
           /\ pc[t] \notin P /\ l \in P =>
                 Cardinality(At(P)') = Cardinality(At(P)) + 1
           /\ pc[t] \in P /\ l \notin P =>
                 Cardinality(At(P)') = Cardinality(At(P)) - 1
<1>1. IsFiniteSet(At(P))
  BY DeviceAssumption, FS_Subset DEF At
<1>2. \A u \in Threads : pc'[u] = IF u = t THEN l ELSE pc[u]
  BY DEF Goto, Types
<1>3. CASE l \in P
  <2>1. At(P)' = At(P) \cup {t}
    BY <1>2, <1>3 DEF At
  <2>2. t \in At(P) <=> pc[t] \in P
    BY DEF At
  <2> QED
    BY <1>1, <1>3, <2>1, <2>2, FS_AddElement, FS_CardinalityType
<1>4. CASE l \notin P
  <2>1. At(P)' = At(P) \ {t}
    BY <1>2, <1>4 DEF At
  <2>2. t \in At(P) <=> pc[t] \in P
    BY DEF At
  <2> QED
    BY <1>1, <1>4, <2>1, <2>2, FS_RemoveElement, FS_CardinalityType
<1> QED
  BY <1>3, <1>4

\* What the count of open nodes tells.
LEMMA CountMeans ==
    ASSUME Types, RefsBalanced
    PROVE  /\ video_opened \in Nat /\ usage \in Nat
           /\ \A t \in Threads : pc[t] \in Counted => video_opened > 0
           /\ video_opened > 0 => \E t \in Threads : pc[t] \in Counted
           /\ video_opened = 1 => \A t, u \in Threads :
                 pc[t] \in Counted /\ pc[u] \in Counted => t = u
<1>1. IsFiniteSet(At(Counted)) /\ IsFiniteSet(At(Holding))
  BY DeviceAssumption, FS_Subset DEF At
<1>2. /\ video_opened = Cardinality(At(Counted))
      /\ usage = Cardinality(At(Holding))
  BY DEF RefsBalanced, At, Counted, Holding
<1>3. video_opened \in Nat /\ usage \in Nat
  BY <1>1, <1>2, FS_CardinalityType
<1>4. video_opened = 0 <=> At(Counted) = {}
  BY <1>1, <1>2, FS_EmptySet
<1>5. ASSUME video_opened = 1, NEW t \in Threads, NEW u \in Threads,
             pc[t] \in Counted, pc[u] \in Counted, t # u
      PROVE  FALSE
  <2>0. t \in At(Counted)
    BY <1>5 DEF At
  <2>1. /\ IsFiniteSet(At(Counted) \ {t})
        /\ Cardinality(At(Counted) \ {t}) = 1 - 1
    <3> DEFINE S == At(Counted)
    <3>1. IsFiniteSet(S) /\ t \in S /\ Cardinality(S) = 1
      BY <1>1, <1>2, <1>5, <2>0
    <3> HIDE DEF S
    <3>2. IsFiniteSet(S \ {t}) /\ Cardinality(S \ {t}) = 1 - 1
      BY <3>1, FS_RemoveElement
    <3> QED
      BY <3>2 DEF S
  <2>2. At(Counted) \ {t} = {}
    BY <2>1, FS_EmptySet
  <2> QED
    BY <1>5, <2>2 DEF At
<1> QED
  BY <1>3, <1>4, <1>5 DEF At

\* A thread that changes the counts and locks along with its position keeps
\* the books balanced.
LEMMA BooksKept ==
    ASSUME Types, RefsBalanced, NEW t \in Threads, NEW l \in Labels,
           Goto(t, l),
           usage' = IF pc[t] \in Holding
                    THEN IF l \in Holding THEN usage ELSE usage - 1
                    ELSE IF l \in Holding THEN usage + 1 ELSE usage,
           video_opened' =
              IF pc[t] \in Counted
              THEN IF l \in Counted THEN video_opened ELSE video_opened - 1
              ELSE IF l \in Counted THEN video_opened + 1 ELSE video_opened,
           \A u \in Threads : mutex' = u <=>
              IF u = t THEN l \in Locking ELSE mutex = u,
           \A u \in Threads : recovery' = u <=>
              IF u = t THEN l \in PowerLabels ELSE recovery = u,
           \A u \in Threads : auth' = u <=>
              IF u = t THEN l = "authenticate" ELSE auth = u
    PROVE  RefsBalanced'
<1>1. /\ video_opened = Cardinality(At(Counted))
      /\ usage = Cardinality(At(Holding))
  BY DEF RefsBalanced, At, Counted, Holding
<1>2. video_opened' = Cardinality(At(Counted)')
  BY <1>1, Counting
<1>3. usage' = Cardinality(At(Holding)')
  BY <1>1, Counting
<1>4. \A u \in Threads : pc'[u] = IF u = t THEN l ELSE pc[u]
  BY DEF Goto, Types
<1>5. \A u \in Threads :
         /\ mutex' = u <=> pc'[u] \in Locking
         /\ recovery' = u <=> pc'[u] \in PowerLabels
         /\ auth' = u <=> pc'[u] = "authenticate"
  BY <1>4 DEF RefsBalanced, Locking, PowerLabels
<1> QED
  BY <1>2, <1>3, <1>5 DEF RefsBalanced, At, Counted, Holding, Locking,
                          PowerLabels
-----------------------------------------------------------------------------
(***************************************************************************)
(* The actions.                                                            *)
(***************************************************************************)

\* The Buttress and the CSE change no state of the device.
LEMMA ButtressPreserves ==
    ASSUME IInv, ButtressStep
    PROVE  IInv'
<1>1. auth' = auth
  BY DEF ButtressStep, AuthStep, CseStep, AuthBegin, IpcSend, IpcAcked,
     IpcSendAgain, IpcAnswered, SetupDone, CseTake, IsrSent, CseExecute,
     IsrAnswer, authVars
<1>3. UNCHANGED deviceVars
  BY DEF ButtressStep
<1> USE <1>1, <1>3 DEF deviceVars, threadVars, lockVars, hwVars, IInv
<1>4. Types'
  BY DEF Types
<1>5. RefsBalanced'
  BY DEF RefsBalanced
<1>6. (Alone /\ OpenHasFirmware)'
  BY DEF Rest, Alone, OpenHasFirmware
<1>7. (FailureRemembered /\ CutHeals)'
  BY DEF Rest, FailureRemembered, CutHeals, CycleRuns
<1> QED
  BY <1>4, <1>5, <1>6, <1>7 DEF Rest

\* A move of one thread that neither opens nor closes a node and leaves the
\* hardware alone: the conditions under which it may enter the positions the
\* invariant speaks of.
LEMMA QuietMove ==
    ASSUME IInv, NEW t \in Threads, NEW l \in Labels, Goto(t, l),
           Types', RefsBalanced',
           UNCHANGED <<fwcom, hwVars>>,
           reset_needed => reset_needed',
           pc[t] \notin {"init", "open", "close"},
           l \notin {"init", "open", "close"},
           l \in {"power_on", "recovered"} =>
              pc[t] \in {"power_on", "recovered"}
    PROVE  IInv'
<1>1. \A u \in Threads : pc'[u] = IF u = t THEN l ELSE pc[u]
  BY DEF Goto, IInv, Types
<1>2. Types /\ RefsBalanced /\ Rest
  BY DEF IInv
<1>3. Alone' /\ OpenHasFirmware'
  BY <1>1, <1>2 DEF Rest, Alone, OpenHasFirmware, Counted
<1>4. CycleRuns' => CycleRuns
  BY <1>1 DEF CycleRuns
<1>5. FailureRemembered' /\ CutHeals'
  BY <1>2, <1>4 DEF Rest, FailureRemembered, CutHeals, hwVars
<1> QED
  BY <1>3, <1>5 DEF IInv, Rest

\* video_open and the sysfs trigger.
LEMMA EntryPreserves ==
    ASSUME IInv, NEW t \in Threads, video_open(t) \/ force_power_cycle_store(t)
    PROVE  IInv'
<1>1. CASE video_open(t)
  <2>1. PICK l \in {"recover", "auth"} :
           /\ Goto(t, l) /\ pc[t] = "closed"
           /\ l = "recover" => video_opened = 0
    BY <1>1 DEF video_open, RecoveryAllowed
  <2>2. UNCHANGED <<job, lockVars, reset_needed, video_opened, usage, fwcom,
                    hwVars, auth>>
    BY <1>1 DEF video_open, buttressVars, authVars
  <2>3. Types'
    BY <2>1, <2>2 DEF IInv, Types, Goto, Labels, lockVars, hwVars
  <2>4. RefsBalanced'
    <3>1. \A u \in Threads :
             /\ mutex' = u <=> IF u = t THEN l \in Locking ELSE mutex = u
             /\ recovery' = u <=>
                   IF u = t THEN l \in PowerLabels ELSE recovery = u
             /\ auth' = u <=> IF u = t THEN l = "authenticate" ELSE auth = u
      BY <2>1, <2>2 DEF IInv, RefsBalanced, lockVars, Locking, PowerLabels
    <3>2. /\ usage' = IF pc[t] \in Holding
                   THEN IF l \in Holding THEN usage ELSE usage - 1
                   ELSE IF l \in Holding THEN usage + 1 ELSE usage
          /\ pc[t] \notin Counted /\ l \notin Counted
          /\ video_opened' = video_opened /\ l \in Labels
      BY <2>1, <2>2 DEF Holding, Counted, Labels
    <3> QED
      BY <2>1, <2>2, <3>1, <3>2, BooksKept DEF IInv
  <2> QED
    BY <2>1, <2>2, <2>3, <2>4, QuietMove DEF Labels
<1>2. CASE force_power_cycle_store(t)
  <2>1. /\ Goto(t, "recover") /\ pc[t] = "closed" /\ video_opened = 0
        /\ reset_needed' = TRUE /\ job' = [job EXCEPT ![t] = "sysfs"]
        /\ UNCHANGED <<lockVars, video_opened, usage, fwcom, hwVars, auth>>
    BY <1>2 DEF force_power_cycle_store, RecoveryAllowed, buttressVars,
       authVars
  <2>2. Types'
    BY <2>1 DEF IInv, Types, Goto, Labels, lockVars, hwVars
  <2>3. RefsBalanced'
    <3>1. \A u \in Threads :
             /\ mutex' = u <=> IF u = t THEN "recover" \in Locking ELSE mutex = u
             /\ recovery' = u <=>
                   IF u = t THEN "recover" \in PowerLabels ELSE recovery = u
             /\ auth' = u <=> IF u = t THEN "recover" = "authenticate" ELSE auth = u
      BY <2>1 DEF IInv, RefsBalanced, lockVars, Locking, PowerLabels
    <3>2. /\ usage' = IF pc[t] \in Holding
                   THEN IF "recover" \in Holding THEN usage ELSE usage - 1
                   ELSE IF "recover" \in Holding THEN usage + 1 ELSE usage
          /\ pc[t] \notin Counted /\ "recover" \notin Counted
          /\ video_opened' = video_opened /\ "recover" \in Labels
      BY <2>1 DEF Holding, Counted, Labels
    <3> QED
      BY <2>1, <3>1, <3>2, BooksKept DEF IInv
  <2> QED
    BY <2>1, <2>2, <2>3, QuietMove DEF Labels
<1> QED
  BY <1>1, <1>2

\* CycleDone goes to "auth" or back to the caller of the sysfs trigger.
LEMMA CycleDoneGoes ==
    ASSUME Types, NEW t \in Threads, CycleDone(t)
    PROVE  /\ \E l \in {"auth", "closed"} : Goto(t, l)
           /\ job' \in [Threads -> {"open", "sysfs"}]
BY DEF CycleDone, Types

\* The power cycle up to its last step, without the cut itself.
LEMMA CyclePreserves ==
    ASSUME IInv, NEW t \in Threads,
           CycleBegin(t) \/ PowerOn(t) \/ CycleFails(t)
    PROVE  IInv'
<1>0. None \notin Threads
  BY ButtressAssumption
<1>1. CASE CycleBegin(t)
  <2>1. /\ pc[t] = "recover" /\ recovery = None /\ mutex = None
        /\ UNCHANGED <<mutex, reset_needed, video_opened, usage, fwcom,
                       hwVars, auth>>
    BY <1>1 DEF CycleBegin, buttressVars, authVars
  <2>2. PICK l \in {"power_off", "auth", "closed"} :
           /\ Goto(t, l)
           /\ recovery' = IF l = "power_off" THEN t ELSE None
           /\ job' \in [Threads -> {"open", "sysfs"}]
    BY <1>1, <2>1, CycleDoneGoes DEF CycleBegin, IInv, Types
  <2>3. Types'
    BY <2>1, <2>2 DEF IInv, Types, Goto, Labels, hwVars
  <2>4. RefsBalanced'
    <3>1. \A u \in Threads :
             /\ mutex' = u <=> IF u = t THEN l \in Locking ELSE mutex = u
             /\ recovery' = u <=>
                   IF u = t THEN l \in PowerLabels ELSE recovery = u
             /\ auth' = u <=> IF u = t THEN l = "authenticate" ELSE auth = u
      BY <1>0, <2>1, <2>2 DEF IInv, RefsBalanced, lockVars, Locking, PowerLabels
    <3>2. /\ usage' = IF pc[t] \in Holding
                   THEN IF l \in Holding THEN usage ELSE usage - 1
                   ELSE IF l \in Holding THEN usage + 1 ELSE usage
          /\ pc[t] \notin Counted /\ l \notin Counted
          /\ video_opened' = video_opened /\ l \in Labels
      BY <1>0, <2>1, <2>2 DEF Holding, Counted, Labels
    <3> QED
      BY <1>0, <2>1, <2>2, <3>1, <3>2, BooksKept DEF IInv
  <2> QED
    BY <2>1, <2>2, <2>3, <2>4, QuietMove DEF Labels
<1>2. CASE PowerOn(t)
  <2>1. /\ pc[t] = "power_on" /\ Goto(t, "recovered")
        /\ UNCHANGED <<job, lockVars, reset_needed, video_opened, usage,
                       fwcom, hwVars, auth>>
    BY <1>2 DEF PowerOn, buttressVars, authVars
  <2>2. Types'
    BY <2>1 DEF IInv, Types, Goto, Labels, lockVars, hwVars
  <2>3. RefsBalanced'
    <3>1. \A u \in Threads :
             /\ mutex' = u <=> IF u = t THEN "recovered" \in Locking ELSE mutex = u
             /\ recovery' = u <=>
                   IF u = t THEN "recovered" \in PowerLabels ELSE recovery = u
             /\ auth' = u <=> IF u = t THEN "recovered" = "authenticate" ELSE auth = u
      BY <2>1 DEF IInv, RefsBalanced, lockVars, Locking, PowerLabels
    <3>2. /\ usage' = IF pc[t] \in Holding
                   THEN IF "recovered" \in Holding THEN usage ELSE usage - 1
                   ELSE IF "recovered" \in Holding THEN usage + 1 ELSE usage
          /\ pc[t] \notin Counted /\ "recovered" \notin Counted
          /\ video_opened' = video_opened /\ "recovered" \in Labels
      BY <2>1 DEF Holding, Counted, Labels
    <3> QED
      BY <2>1, <3>1, <3>2, BooksKept DEF IInv
  <2> QED
    BY <2>1, <2>2, <2>3, QuietMove DEF Labels
<1>3. CASE CycleFails(t)
  <2>1. /\ pc[t] \in {"power_off", "power_on"} /\ Goto(t, "closed")
        /\ recovery' = None /\ job' = [job EXCEPT ![t] = "open"]
        /\ UNCHANGED <<mutex, reset_needed, video_opened, usage, fwcom,
                       hwVars, auth>>
    BY <1>3 DEF CycleFails, buttressVars, authVars
  <2>2. recovery = t
    BY <2>1 DEF IInv, RefsBalanced
  <2>3. Types'
    BY <2>1 DEF IInv, Types, Goto, Labels, hwVars
  <2>4. RefsBalanced'
    <3>1. \A u \in Threads :
             /\ mutex' = u <=> IF u = t THEN "closed" \in Locking ELSE mutex = u
             /\ recovery' = u <=>
                   IF u = t THEN "closed" \in PowerLabels ELSE recovery = u
             /\ auth' = u <=> IF u = t THEN "closed" = "authenticate" ELSE auth = u
      BY <1>0, <2>1, <2>2 DEF IInv, RefsBalanced, lockVars, Locking, PowerLabels
    <3>2. /\ usage' = IF pc[t] \in Holding
                   THEN IF "closed" \in Holding THEN usage ELSE usage - 1
                   ELSE IF "closed" \in Holding THEN usage + 1 ELSE usage
          /\ pc[t] \notin Counted /\ "closed" \notin Counted
          /\ video_opened' = video_opened /\ "closed" \in Labels
      BY <1>0, <2>1, <2>2 DEF Holding, Counted, Labels
    <3> QED
      BY <1>0, <2>1, <2>2, <3>1, <3>2, BooksKept DEF IInv
  <2> QED
    BY <2>1, <2>3, <2>4, QuietMove DEF Labels
<1> QED
  BY <1>1, <1>2, <1>3

\* The power cut heals the hardware.
LEMMA PowerOffPreserves ==
    ASSUME IInv, NEW t \in Threads, PowerOff(t)
    PROVE  IInv'
<1>1. /\ pc[t] = "power_off" /\ Goto(t, "power_on")
      /\ wedged' = FALSE /\ overtaken' = FALSE /\ unreported' = FALSE
      /\ UNCHANGED <<job, lockVars, reset_needed, video_opened, usage, fwcom,
                     auth>>
  BY DEF PowerOff, buttressVars, authVars
<1>2. Types'
  BY <1>1 DEF IInv, Types, Goto, Labels, lockVars
<1>3. RefsBalanced'
  <2>1. \A u \in Threads :
           /\ mutex' = u <=> IF u = t THEN "power_on" \in Locking ELSE mutex = u
           /\ recovery' = u <=>
                 IF u = t THEN "power_on" \in PowerLabels ELSE recovery = u
           /\ auth' = u <=> IF u = t THEN "power_on" = "authenticate" ELSE auth = u
    BY <1>1 DEF IInv, RefsBalanced, lockVars, Locking, PowerLabels
  <2>2. /\ usage' = IF pc[t] \in Holding
                 THEN IF "power_on" \in Holding THEN usage ELSE usage - 1
                 ELSE IF "power_on" \in Holding THEN usage + 1 ELSE usage
        /\ pc[t] \notin Counted /\ "power_on" \notin Counted
        /\ video_opened' = video_opened /\ "power_on" \in Labels
    BY <1>1 DEF Holding, Counted, Labels
  <2> QED
    BY <1>1, <2>1, <2>2, BooksKept DEF IInv
<1>4. \A u \in Threads : pc'[u] = IF u = t THEN "power_on" ELSE pc[u]
  BY <1>1 DEF Goto, IInv, Types
<1>5. Alone' /\ OpenHasFirmware'
  BY <1>1, <1>4 DEF IInv, Rest, Alone, OpenHasFirmware, Counted
<1>6. FailureRemembered' /\ CutHeals'
  BY <1>1 DEF FailureRemembered, CutHeals
<1> QED
  BY <1>2, <1>3, <1>5, <1>6 DEF IInv, Rest

\* The end of the cycle: recovery_mutex leaves no other thread in it, and what
\* was marked since the cut is forgotten with the rest.
LEMMA CycleEndPreserves ==
    ASSUME IInv, NEW t \in Threads, CycleEnd(t)
    PROVE  IInv'
<1>0. None \notin Threads
  BY ButtressAssumption
<1>1. /\ pc[t] = "recovered" /\ mutex = None /\ recovery' = None
      /\ CycleDone(t) /\ reset_needed' = FALSE
      /\ UNCHANGED <<mutex, video_opened, usage, fwcom, hwVars, auth>>
  BY DEF CycleEnd, buttressVars, authVars
<1>2. PICK l \in {"auth", "closed"} : Goto(t, l)
  BY <1>1, CycleDoneGoes DEF IInv
<1>3. /\ recovery = t
      /\ \A u \in Threads : u # t => pc[u] \notin PowerLabels
  BY <1>1 DEF IInv, RefsBalanced, PowerLabels
<1>5. Types'
  BY <1>1, <1>2, CycleDoneGoes DEF IInv, Types, Goto, Labels, hwVars
<1>6. RefsBalanced'
  <2>1. \A u \in Threads :
           /\ mutex' = u <=> IF u = t THEN l \in Locking ELSE mutex = u
           /\ recovery' = u <=>
                 IF u = t THEN l \in PowerLabels ELSE recovery = u
           /\ auth' = u <=> IF u = t THEN l = "authenticate" ELSE auth = u
    BY <1>0, <1>1, <1>2, <1>3 DEF IInv, RefsBalanced, Locking, PowerLabels
  <2>2. /\ pc[t] \notin Counted /\ l \notin Counted /\ l \in Labels
        /\ pc[t] \notin Holding /\ l \notin Holding
        /\ video_opened' = video_opened /\ usage' = usage
    BY <1>1, <1>2 DEF Holding, Counted, Labels
  <2> QED
    BY <1>2, <2>1, <2>2, BooksKept DEF IInv
<1>7. \A u \in Threads : pc'[u] = IF u = t THEN l ELSE pc[u]
  BY <1>2 DEF Goto, IInv, Types
<1>8. Alone' /\ OpenHasFirmware'
  BY <1>1, <1>7 DEF IInv, Rest, Alone, OpenHasFirmware, Counted
<1>9. FailureRemembered'
  <2>1. CycleRuns
    BY <1>1 DEF CycleRuns
  <2> QED
    BY <1>1, <2>1 DEF IInv, Rest, CutHeals, FailureRemembered, hwVars
<1>10. CutHeals'
  <2>1. \A u \in Threads : pc'[u] \notin PowerLabels
    BY <1>3, <1>7 DEF PowerLabels
  <2> QED
    BY <2>1 DEF CutHeals, CycleRuns, PowerLabels
<1> QED
  BY <1>5, <1>6, <1>8, <1>9, <1>10 DEF IInv, Rest

\* Authentication and the power reference.
LEMMA ApproachPreserves ==
    ASSUME IInv, NEW t \in Threads,
           AuthEnter(t) \/ AuthLeave(t) \/ Resume(t) \/ PmPut(t)
    PROVE  IInv'
<1>0. None \notin Threads
  BY ButtressAssumption
<1>1. CASE AuthEnter(t)
  <2>1. /\ pc[t] = "auth" /\ Goto(t, "authenticate")
        /\ auth = None /\ auth' = t
        /\ UNCHANGED <<job, lockVars, reset_needed, video_opened, usage,
                       fwcom, hwVars>>
    BY <1>1 DEF AuthEnter, AuthLock
  <2>2. Types'
    BY <2>1 DEF IInv, Types, Goto, Labels, lockVars, hwVars
  <2>3. RefsBalanced'
    <3>1. \A u \in Threads :
             /\ mutex' = u <=> IF u = t THEN "authenticate" \in Locking ELSE mutex = u
             /\ recovery' = u <=>
                   IF u = t THEN "authenticate" \in PowerLabels ELSE recovery = u
             /\ auth' = u <=> IF u = t THEN "authenticate" = "authenticate" ELSE auth = u
      BY <1>0, <2>1 DEF IInv, RefsBalanced, lockVars, Locking, PowerLabels
    <3>2. /\ usage' = IF pc[t] \in Holding
                   THEN IF "authenticate" \in Holding THEN usage ELSE usage - 1
                   ELSE IF "authenticate" \in Holding THEN usage + 1 ELSE usage
          /\ pc[t] \notin Counted /\ "authenticate" \notin Counted
          /\ video_opened' = video_opened /\ "authenticate" \in Labels
      BY <1>0, <2>1 DEF Holding, Counted, Labels
    <3> QED
      BY <1>0, <2>1, <3>1, <3>2, BooksKept DEF IInv
  <2> QED
    BY <2>1, <2>2, <2>3, QuietMove DEF Labels
<1>2. CASE AuthLeave(t)
  <2>1. /\ pc[t] = "authenticate" /\ auth = t /\ auth' = None
        /\ UNCHANGED <<job, lockVars, reset_needed, video_opened, usage,
                       fwcom, hwVars>>
    BY <1>2 DEF AuthLeave, AuthReturn
  <2>2. PICK l \in {"resume", "auth", "closed"} :
           Goto(t, l)
    BY <1>2 DEF AuthLeave
  <2>3. Types'
    BY <2>1, <2>2 DEF IInv, Types, Goto, Labels, lockVars, hwVars
  <2>4. RefsBalanced'
    <3>1. \A u \in Threads :
             /\ mutex' = u <=> IF u = t THEN l \in Locking ELSE mutex = u
             /\ recovery' = u <=>
                   IF u = t THEN l \in PowerLabels ELSE recovery = u
             /\ auth' = u <=> IF u = t THEN l = "authenticate" ELSE auth = u
      BY <1>0, <2>1, <2>2 DEF IInv, RefsBalanced, lockVars, Locking, PowerLabels
    <3>2. /\ usage' = IF pc[t] \in Holding
                   THEN IF l \in Holding THEN usage ELSE usage - 1
                   ELSE IF l \in Holding THEN usage + 1 ELSE usage
          /\ pc[t] \notin Counted /\ l \notin Counted
          /\ video_opened' = video_opened /\ l \in Labels
      BY <1>0, <2>1, <2>2 DEF Holding, Counted, Labels
    <3> QED
      BY <1>0, <2>1, <2>2, <3>1, <3>2, BooksKept DEF IInv
  <2> QED
    BY <2>1, <2>2, <2>3, <2>4, QuietMove DEF Labels
<1>3. CASE Resume(t)
  <2>1. /\ pc[t] = "resume"
        /\ UNCHANGED <<job, lockVars, reset_needed, video_opened, fwcom,
                       hwVars, auth>>
    BY <1>3 DEF Resume, buttressVars, authVars
  <2>2. PICK l \in {"count", "put", "closed"} :
           Goto(t, l) /\ usage' = IF l = "closed" THEN usage ELSE usage + 1
    BY <1>3 DEF Resume
  <2>3. Types'
    BY <2>1, <2>2 DEF IInv, Types, Goto, Labels, lockVars, hwVars
  <2>4. RefsBalanced'
    <3>1. \A u \in Threads :
             /\ mutex' = u <=> IF u = t THEN l \in Locking ELSE mutex = u
             /\ recovery' = u <=>
                   IF u = t THEN l \in PowerLabels ELSE recovery = u
             /\ auth' = u <=> IF u = t THEN l = "authenticate" ELSE auth = u
      BY <2>1, <2>2 DEF IInv, RefsBalanced, lockVars, Locking, PowerLabels
    <3>2. /\ usage' = IF pc[t] \in Holding
                   THEN IF l \in Holding THEN usage ELSE usage - 1
                   ELSE IF l \in Holding THEN usage + 1 ELSE usage
          /\ pc[t] \notin Counted /\ l \notin Counted
          /\ video_opened' = video_opened /\ l \in Labels
      BY <2>1, <2>2 DEF Holding, Counted, Labels
    <3> QED
      BY <2>1, <2>2, <3>1, <3>2, BooksKept DEF IInv
  <2> QED
    BY <2>1, <2>2, <2>3, <2>4, QuietMove DEF Labels
<1>4. CASE PmPut(t)
  <2>1. /\ pc[t] = "put" /\ Goto(t, "closed") /\ usage' = usage - 1
        /\ UNCHANGED <<job, lockVars, reset_needed, video_opened, fwcom,
                       hwVars, auth>>
    BY <1>4 DEF PmPut, buttressVars, authVars
  <2>2. Types'
    BY <2>1 DEF IInv, Types, Goto, Labels, lockVars, hwVars
  <2>3. RefsBalanced'
    <3>1. \A u \in Threads :
             /\ mutex' = u <=> IF u = t THEN "closed" \in Locking ELSE mutex = u
             /\ recovery' = u <=>
                   IF u = t THEN "closed" \in PowerLabels ELSE recovery = u
             /\ auth' = u <=> IF u = t THEN "closed" = "authenticate" ELSE auth = u
      BY <2>1 DEF IInv, RefsBalanced, lockVars, Locking, PowerLabels
    <3>2. /\ usage' = IF pc[t] \in Holding
                   THEN IF "closed" \in Holding THEN usage ELSE usage - 1
                   ELSE IF "closed" \in Holding THEN usage + 1 ELSE usage
          /\ pc[t] \notin Counted /\ "closed" \notin Counted
          /\ video_opened' = video_opened /\ "closed" \in Labels
      BY <2>1 DEF Holding, Counted, Labels
    <3> QED
      BY <2>1, <3>1, <3>2, BooksKept DEF IInv
  <2> QED
    BY <2>1, <2>2, <2>3, QuietMove DEF Labels
<1> QED
  BY <1>1, <1>2, <1>3, <1>4

\* video_opened++, the beginning of the first opener's firmware start.
LEMMA CountOpenPreserves ==
    ASSUME IInv, NEW t \in Threads, CountOpen(t)
    PROVE  IInv'
<1>0. None \notin Threads
  BY ButtressAssumption
<1>1. /\ pc[t] = "count" /\ mutex = None
      /\ video_opened' = video_opened + 1
      /\ UNCHANGED <<job, recovery, reset_needed, usage, hwVars, auth>>
  BY DEF CountOpen, buttressVars, authVars
<1>2. PICK l \in Counted :
         /\ Goto(t, l)
         /\ l = "open" => video_opened > 0 /\ UNCHANGED <<mutex, fwcom>>
         /\ l = "init" => ~(video_opened > 0) /\ mutex' = t /\ fwcom' = FALSE
  BY DEF CountOpen, HoldForInit, Counted
<1>3. /\ video_opened \in Nat
      /\ \A u \in Threads : pc[u] \in Counted => video_opened > 0
      /\ video_opened > 0 => \E u \in Threads : pc[u] \in Counted
  BY CountMeans DEF IInv
<1>4. \A u \in Threads : pc[u] \notin Locking
  BY <1>0, <1>1 DEF IInv, RefsBalanced, Locking
<1>5. \A u \in Threads : pc'[u] = IF u = t THEN l ELSE pc[u]
  BY <1>2 DEF Goto, IInv, Types
<1>6. Types'
  BY <1>1, <1>2 DEF IInv, Types, Goto, Labels, Counted, hwVars
<1>7. RefsBalanced'
  <2>1. \A u \in Threads :
           /\ mutex' = u <=> IF u = t THEN l \in Locking ELSE mutex = u
           /\ recovery' = u <=>
                 IF u = t THEN l \in PowerLabels ELSE recovery = u
           /\ auth' = u <=> IF u = t THEN l = "authenticate" ELSE auth = u
    BY <1>0, <1>1, <1>2 DEF IInv, RefsBalanced, Locking, PowerLabels, Counted
  <2>2. /\ pc[t] \notin Counted /\ l \in Counted /\ l \in Labels
        /\ pc[t] \in Holding /\ l \in Holding
    BY <1>1, <1>2 DEF Holding, Counted, Labels
  <2> QED
    BY <1>1, <1>2, <2>1, <2>2, BooksKept DEF IInv
<1>8. Alone'
  <2>1. l = "init" => \A u \in Threads : pc[u] \notin Counted
    BY <1>2, <1>3
  <2> QED
    BY <1>2, <1>4, <1>5, <2>1 DEF Alone, Locking, Counted
<1>9. OpenHasFirmware'
  <2>1. CASE l = "open"
    <3>1. \E u \in Threads : pc[u] = "open"
      BY <1>2, <1>3, <1>4, <2>1 DEF Counted, Locking
    <3>2. fwcom
      BY <3>1 DEF IInv, Rest, OpenHasFirmware
    <3> QED
      BY <1>2, <2>1, <3>2 DEF OpenHasFirmware
  <2>2. CASE l = "init"
    <3>1. \A u \in Threads : pc[u] \notin Counted
      BY <1>2, <1>3, <2>2
    <3> QED
      BY <1>5, <2>2, <3>1 DEF OpenHasFirmware, Counted
  <2> QED
    BY <2>1, <2>2 DEF Counted
<1>10. CycleRuns' => CycleRuns
  BY <1>2, <1>5 DEF CycleRuns, Counted
<1>11. FailureRemembered' /\ CutHeals'
  BY <1>1, <1>10 DEF IInv, Rest, FailureRemembered, CutHeals, hwVars
<1> QED
  BY <1>6, <1>7, <1>8, <1>9, <1>11 DEF IInv, Rest

\* Firmware start, the first opener alone with the context.
LEMMA FirmwareInitPreserves ==
    ASSUME IInv, NEW t \in Threads, ipu_fw_isys_init(t)
    PROVE  IInv'
<1>0. None \notin Threads
  BY ButtressAssumption
<1>1. /\ pc[t] = "init" /\ mutex' = None
      /\ UNCHANGED <<job, recovery, reset_needed, usage, overtaken, auth>>
  BY DEF ipu_fw_isys_init, buttressVars, authVars
<1>2. PICK l \in {"open", "put"} :
         /\ Goto(t, l) /\ fwcom' \in BOOLEAN
         /\ l = "open" => fwcom' /\ video_opened' = video_opened
         /\ l = "put" => video_opened' = video_opened - 1
         /\ \/ UNCHANGED <<wedged, unreported>>
            \/ wedged' = TRUE /\ unreported' = TRUE
  BY DEF ipu_fw_isys_init, Uncount
<1>3. \A u \in Threads : pc'[u] = IF u = t THEN l ELSE pc[u]
  BY <1>2 DEF Goto, IInv, Types
<1>4. /\ mutex = t /\ \A u \in Threads : u # t => pc[u] \notin Locking
      /\ \A u \in Threads : u # t => pc[u] \notin Counted
      /\ video_opened \in Nat
  BY <1>0, <1>1, CountMeans DEF IInv, RefsBalanced, Locking, Rest, Alone
<1>5. Types'
  BY <1>1, <1>2 DEF IInv, Types, Goto, Labels
<1>6. RefsBalanced'
  <2>1. \A u \in Threads :
           /\ mutex' = u <=> IF u = t THEN l \in Locking ELSE mutex = u
           /\ recovery' = u <=>
                 IF u = t THEN l \in PowerLabels ELSE recovery = u
           /\ auth' = u <=> IF u = t THEN l = "authenticate" ELSE auth = u
    BY <1>0, <1>1, <1>2, <1>4 DEF IInv, RefsBalanced, Locking, PowerLabels
  <2>2. /\ pc[t] \in Counted /\ (l \in Counted <=> l = "open")
        /\ pc[t] \in Holding /\ l \in Holding /\ l \in Labels
    BY <1>1, <1>2 DEF Holding, Counted, Labels
  <2> QED
    BY <1>1, <1>2, <2>1, <2>2, BooksKept DEF IInv
<1>7. Alone' /\ OpenHasFirmware'
  BY <1>2, <1>3, <1>4 DEF Alone, OpenHasFirmware, Counted, Locking
<1>8. CycleRuns' => CycleRuns
  BY <1>2, <1>3 DEF CycleRuns
<1>9. FailureRemembered' /\ CutHeals'
  BY <1>1, <1>2, <1>8 DEF IInv, Rest, FailureRemembered, CutHeals
<1> QED
  BY <1>5, <1>6, <1>7, <1>9 DEF IInv, Rest

\* A stream is lost while its node is open: the driver takes note.
LEMMA MarkPreserves ==
    ASSUME IInv, NEW t \in Threads, mark_stream_reset_needed(t)
    PROVE  IInv'
<1>1. /\ pc[t] = "open" /\ mutex = None
      /\ reset_needed' = TRUE /\ wedged' = TRUE
      /\ overtaken' = (overtaken \/ CycleRuns)
      /\ UNCHANGED <<pc, job, mutex, recovery, video_opened, usage, fwcom,
                     unreported, auth>>
  BY DEF mark_stream_reset_needed, threadVars, lockVars, buttressVars,
     authVars
<1>2. overtaken' \in BOOLEAN /\ (CycleRuns => overtaken')
  BY <1>1, Zenon
<1>3. Types'
  BY <1>1, <1>2 DEF IInv, Types
<1>4. RefsBalanced'
  BY <1>1 DEF IInv, RefsBalanced
<1>5. Alone' /\ OpenHasFirmware'
  BY <1>1 DEF IInv, Rest, Alone, OpenHasFirmware
<1>6. FailureRemembered' /\ CutHeals'
  BY <1>1, <1>2 DEF FailureRemembered, CutHeals, CycleRuns
<1> QED
  BY <1>3, <1>4, <1>5, <1>6 DEF IInv, Rest

\* A node is closed; the last one goes on to close the firmware.
LEMMA ReleasePreserves ==
    ASSUME IInv, NEW t \in Threads, video_release(t)
    PROVE  IInv'
<1>0. None \notin Threads
  BY ButtressAssumption
<1>1. /\ pc[t] = "open" /\ mutex = None
      /\ video_opened' = video_opened - 1
      /\ UNCHANGED <<job, recovery, reset_needed, usage, fwcom, wedged,
                     overtaken, unreported, auth>>
  BY DEF video_release, hwVars, buttressVars, authVars
<1>2. PICK l \in {"close", "put"} :
         /\ Goto(t, l)
         /\ l = "close" => video_opened = 1 /\ mutex' = t
         /\ l = "put" => mutex' = mutex
  BY DEF video_release
<1>3. \A u \in Threads : pc'[u] = IF u = t THEN l ELSE pc[u]
  BY <1>2 DEF Goto, IInv, Types
<1>4. /\ video_opened \in Nat /\ video_opened > 0
      /\ video_opened = 1 =>
            \A u \in Threads : pc[u] \in Counted => u = t
  BY <1>1, CountMeans DEF IInv, Counted
<1>5. \A u \in Threads : pc[u] \notin Locking
  BY <1>0, <1>1 DEF IInv, RefsBalanced, Locking
<1>6. Types'
  BY <1>1, <1>2 DEF IInv, Types, Goto, Labels
<1>7. RefsBalanced'
  <2>1. \A u \in Threads :
           /\ mutex' = u <=> IF u = t THEN l \in Locking ELSE mutex = u
           /\ recovery' = u <=>
                 IF u = t THEN l \in PowerLabels ELSE recovery = u
           /\ auth' = u <=> IF u = t THEN l = "authenticate" ELSE auth = u
    BY <1>0, <1>1, <1>2 DEF IInv, RefsBalanced, Locking, PowerLabels
  <2>2. /\ pc[t] \in Counted /\ l \notin Counted
        /\ pc[t] \in Holding /\ l \in Holding /\ l \in Labels
    BY <1>1, <1>2 DEF Holding, Counted, Labels
  <2> QED
    BY <1>1, <1>2, <2>1, <2>2, BooksKept DEF IInv
<1>8. Alone'
  BY <1>2, <1>3, <1>4, <1>5 DEF Alone, Counted, Locking
<1>9. OpenHasFirmware'
  BY <1>1, <1>2, <1>3 DEF IInv, Rest, OpenHasFirmware
<1>10. CycleRuns' => CycleRuns
  BY <1>2, <1>3 DEF CycleRuns
<1>11. FailureRemembered' /\ CutHeals'
  BY <1>1, <1>10 DEF IInv, Rest, FailureRemembered, CutHeals
<1> QED
  BY <1>6, <1>7, <1>8, <1>9, <1>11 DEF IInv, Rest

\* The firmware is closed, or its release times out.
LEMMA FirmwareClosePreserves ==
    ASSUME IInv, NEW t \in Threads, ipu_fw_isys_close(t)
    PROVE  IInv'
<1>0. None \notin Threads
  BY ButtressAssumption
<1>1. /\ pc[t] = "close" /\ mutex' = None /\ Goto(t, "put")
      /\ UNCHANGED <<job, recovery, video_opened, usage, unreported, auth>>
      /\ \/ fwcom' = FALSE /\ UNCHANGED <<reset_needed, wedged, overtaken>>
         \/ /\ reset_needed' = TRUE /\ wedged' = TRUE
            /\ overtaken' = (overtaken \/ CycleRuns) /\ UNCHANGED fwcom
  BY DEF ipu_fw_isys_close, MarkTimeout, buttressVars, authVars
<1>2. \A u \in Threads : pc'[u] = IF u = t THEN "put" ELSE pc[u]
  BY <1>1 DEF Goto, IInv, Types
<1>3. /\ mutex = t /\ \A u \in Threads : u # t => pc[u] \notin Locking
      /\ \A u \in Threads : pc[u] \notin Counted
  BY <1>1 DEF IInv, RefsBalanced, Locking, Rest, Alone
<1>4. Types'
  <2>1. overtaken' \in BOOLEAN
    BY <1>1, Zenon DEF IInv, Types
  <2> QED
    BY <1>1, <2>1 DEF IInv, Types, Goto, Labels
<1>5. RefsBalanced'
  <2>1. \A u \in Threads :
           /\ mutex' = u <=> IF u = t THEN "put" \in Locking ELSE mutex = u
           /\ recovery' = u <=>
                 IF u = t THEN "put" \in PowerLabels ELSE recovery = u
           /\ auth' = u <=> IF u = t THEN "put" = "authenticate" ELSE auth = u
    BY <1>0, <1>1, <1>3 DEF IInv, RefsBalanced, Locking, PowerLabels
  <2>2. /\ pc[t] \notin Counted /\ "put" \notin Counted
        /\ pc[t] \in Holding /\ "put" \in Holding /\ "put" \in Labels
    BY <1>1 DEF Holding, Counted, Labels
  <2> QED
    BY <1>1, <2>1, <2>2, BooksKept DEF IInv
<1>6. Alone' /\ OpenHasFirmware'
  BY <1>2, <1>3 DEF Alone, OpenHasFirmware, Counted, Locking
<1>7. CycleRuns' => CycleRuns
  BY <1>2 DEF CycleRuns
<1>8. FailureRemembered' /\ CutHeals'
  <2>1. CASE UNCHANGED <<reset_needed, wedged, overtaken>>
    BY <1>1, <1>7, <2>1 DEF IInv, Rest, FailureRemembered, CutHeals
  <2>2. CASE reset_needed' = TRUE /\ overtaken' = (overtaken \/ CycleRuns)
    <3>1. CycleRuns' => overtaken'
      BY <1>7, <2>2, Zenon
    <3> QED
      BY <2>2, <3>1 DEF FailureRemembered, CutHeals
  <2> QED
    BY <1>1, <2>1, <2>2
<1> QED
  BY <1>4, <1>5, <1>6, <1>8 DEF IInv, Rest
-----------------------------------------------------------------------------
\* The invariant holds at the start.
LEMMA Initially == Init => IInv
<1> SUFFICES ASSUME Init PROVE IInv
  OBVIOUS
<1>1. Types
  BY DEF Init, ButtressInit, Types, Labels
<1>2. RefsBalanced
  <2>1. /\ {t \in Threads : pc[t] \in Holding} = {}
        /\ {t \in Threads : pc[t] \in Counted} = {}
    BY DEF Init, Holding, Counted
  <2>2. /\ usage = Cardinality({t \in Threads : pc[t] \in Holding})
        /\ video_opened = Cardinality({t \in Threads : pc[t] \in Counted})
    BY <2>1, FS_EmptySet DEF Init
  <2> QED
    BY <2>2, ButtressAssumption DEF Init, ButtressInit, RefsBalanced, Holding,
       Counted
<1>3. Rest
  BY DEF Init, Rest, Alone, OpenHasFirmware, FailureRemembered, CutHeals
<1> QED
  BY <1>1, <1>2, <1>3 DEF IInv

\* The invariant is inductive.
LEMMA Inductive == IInv /\ [Next]_vars => IInv'
<1> SUFFICES ASSUME IInv, [Next]_vars PROVE IInv'
  OBVIOUS
<1>1. CASE UNCHANGED vars
  <2> USE <1>1 DEF vars, deviceVars, threadVars, lockVars, hwVars,
                   buttressVars, authVars, IInv
  <2>1. Types' /\ RefsBalanced'
    BY DEF Types, RefsBalanced
  <2>2. (Alone /\ OpenHasFirmware)'
    BY DEF Rest, Alone, OpenHasFirmware
  <2>3. (FailureRemembered /\ CutHeals)'
    BY DEF Rest, FailureRemembered, CutHeals, CycleRuns
  <2> QED
    BY <2>1, <2>2, <2>3 DEF Rest
<1>2. CASE ButtressStep
  BY <1>2, ButtressPreserves
<1>3. ASSUME NEW t \in Threads,
             \/ video_open(t) \/ force_power_cycle_store(t) \/ Proceed(t)
             \/ mark_stream_reset_needed(t) \/ video_release(t)
      PROVE  IInv'
  BY <1>3, EntryPreserves, CyclePreserves, PowerOffPreserves,
     CycleEndPreserves, ApproachPreserves, CountOpenPreserves,
     FirmwareInitPreserves, MarkPreserves, ReleasePreserves,
     FirmwareClosePreserves DEF Proceed, Cycle
<1> QED
  BY <1>1, <1>2, <1>3 DEF Next

\* Every return path of video_open, video_release and the power cycle gives
\* back its references and locks, for any number of threads.
THEOREM ReferencesBalanced == Spec => []RefsBalanced
<1>1. IInv => RefsBalanced
  BY DEF IInv
<1> QED
  BY Initially, Inductive, <1>1, PTL DEF Spec

\* An open node has its firmware context, whichever thread made it.
THEOREM FirmwareForOpenNodes == Spec => []OpenHasFirmware
<1>1. IInv => OpenHasFirmware
  BY DEF IInv, Rest
<1> QED
  BY Initially, Inductive, <1>1, PTL DEF Spec

\* Lost firmware stays marked until the power has been cut, for any number of
\* threads and whatever fails; the driver forgets it through the two holes the
\* property names and no other.
THEOREM FailureKept == Spec => []FailureRemembered
<1>1. IInv => FailureRemembered
  BY DEF IInv, Rest
<1> QED
  BY Initially, Inductive, <1>1, PTL DEF Spec
-----------------------------------------------------------------------------
(***************************************************************************)
(* The rest of the type invariant: the channel to the CSE and the retries, *)
(* inductive on their own.                                                 *)
(***************************************************************************)

\* Positions, flags and registers.
Words ==
    /\ step \in Steps /\ cmd \in Commands
    /\ send_complete \in BOOLEAN /\ received \in Answers \cup {""}
    /\ doorbell \in Commands \cup {""}
    /\ security_ctl \in {"none", "setup_done", "auth_done", "failed"}

\* Retries and acknowledgements.
Counters ==
    /\ send_retry \in 0..SendRetry /\ acks \in 0..CseDepth
    /\ retries \in [Threads -> 0..AuthRetries]

\* Commands and answers.
InFlight ==
    /\ taken \in Seq(Commands) /\ Len(taken) <= CseDepth
    /\ answers \in Seq(Answers) /\ Len(answers) <= CseDepth

\* All of them.
ChannelTypes == Words /\ Counters /\ InFlight

\* The channel and the CSE: what is in flight is bounded by CseDepth, and a
\* command is sent again only while retries are left.
LEMMA ButtressTyped ==
    ASSUME ChannelTypes, ButtressStep
    PROVE  ChannelTypes'
<1>1. Words /\ Counters /\ InFlight
  BY DEF ChannelTypes
<1>2. AuthStep \/ CseStep
  BY DEF ButtressStep
<1>3. Words'
  <2>1. answers # << >> => Head(answers) \in Answers
    BY <1>1 DEF InFlight
  <2>2. CASE AuthStep
    BY <1>1, <2>2 DEF AuthStep, AuthBegin, IpcSend, IpcAcked, IpcSendAgain,
       IpcAnswered, SetupDone, Words, ipcVars, cseVars, Steps, Commands
  <2>3. CASE CseStep
    BY <1>1, <2>1, <2>3 DEF CseStep, CseTake, IsrSent, CseExecute, IsrAnswer,
       Words, authVars, ipcVars
  <2> QED
    BY <1>2, <2>2, <2>3
<1>4. Counters'
  <2>1. SendRetry \in Nat /\ CseDepth \in Nat
    BY ButtressAssumption
  <2>2. retries' = retries
    BY DEF ButtressStep, deviceVars, threadVars
  <2>3. send_retry' \in 0..SendRetry
    <3>1. \/ send_retry' = send_retry \/ send_retry' = SendRetry
          \/ send_retry > 0 /\ send_retry' = send_retry - 1
      <4>1. AuthBegin \/ IpcAcked \/ SetupDone => send_retry' = SendRetry
        BY DEF AuthBegin, IpcAcked, SetupDone
      <4>2. IpcSend \/ IpcAnswered => send_retry' = send_retry
        BY DEF IpcSend, IpcAnswered
      <4>3. IpcSendAgain => send_retry > 0 /\ send_retry' = send_retry - 1
        BY DEF IpcSendAgain, RetriesLeft
      <4>4. CseStep => send_retry' = send_retry
        BY DEF CseStep, CseTake, IsrSent, CseExecute, IsrAnswer, authVars
      <4> QED
        BY <1>2, <4>1, <4>2, <4>3, <4>4 DEF AuthStep
    <3> QED
      BY <1>1, <2>1, <3>1 DEF Counters
  <2>4. acks' \in 0..CseDepth
    <3>1. \/ acks' = acks
          \/ acks < CseDepth /\ acks' = acks + 1
          \/ acks > 0 /\ acks' = acks - 1
      <4>1. AuthStep => acks' = acks
        BY DEF AuthStep, AuthBegin, IpcSend, IpcAcked, IpcSendAgain,
           IpcAnswered, SetupDone, cseVars
      <4>2. CseTake => acks < CseDepth /\ acks' = acks + 1
        BY DEF CseTake
      <4>3. IsrSent => acks > 0 /\ acks' = acks - 1
        BY DEF IsrSent
      <4>4. CseExecute \/ IsrAnswer => acks' = acks
        BY DEF CseExecute, IsrAnswer
      <4> QED
        BY <1>2, <4>1, <4>2, <4>3, <4>4 DEF CseStep
    <3> QED
      BY <1>1, <2>1, <3>1 DEF Counters
  <2> QED
    BY <1>1, <2>2, <2>3, <2>4 DEF Counters
<1>5. InFlight'
  <2>1. CseDepth \in Nat /\ taken \in Seq(Commands) /\ answers \in Seq(Answers)
        /\ Len(taken) <= CseDepth /\ Len(answers) <= CseDepth
    BY <1>1, ButtressAssumption DEF InFlight
  <2>2. CASE UNCHANGED <<taken, answers>>
    BY <1>1, <2>2 DEF InFlight
  <2>3. CASE CseTake
    <3>1. doorbell \in Commands /\ Len(taken) < CseDepth
          /\ taken' = Append(taken, doorbell) /\ answers' = answers
      BY <1>1, <2>3 DEF CseTake, Words
    <3>2. /\ Append(taken, doorbell) \in Seq(Commands)
          /\ Len(Append(taken, doorbell)) <= CseDepth
      BY <2>1, <3>1
    <3> QED
      BY <2>1, <3>1, <3>2 DEF InFlight
  <2>4. CASE CseExecute
    <3>1. PICK a \in {Head(taken), "nack"} : answers' = Append(answers, a)
      BY <2>4 DEF CseExecute
    <3>2. taken # << >> /\ taken' = Tail(taken) /\ Len(answers) < CseDepth
      BY <2>4 DEF CseExecute
    <3>3. /\ Tail(taken) \in Seq(Commands) /\ Len(Tail(taken)) <= CseDepth
          /\ Head(taken) \in Commands
      BY <2>1, <3>2
    <3>4. a \in Answers
      BY <3>1, <3>3 DEF Answers
    <3>5. /\ Append(answers, a) \in Seq(Answers)
          /\ Len(Append(answers, a)) <= CseDepth
      BY <2>1, <3>2, <3>4
    <3> QED
      BY <3>1, <3>2, <3>3, <3>5 DEF InFlight
  <2>5. CASE IsrAnswer
    <3>1. answers # << >> /\ answers' = Tail(answers) /\ taken' = taken
      BY <2>5 DEF IsrAnswer
    <3>2. /\ Tail(answers) \in Seq(Answers) /\ Len(Tail(answers)) <= CseDepth
      BY <2>1, <3>1
    <3> QED
      BY <2>1, <3>1, <3>2 DEF InFlight
  <2>6. UNCHANGED <<taken, answers>> \/ CseTake \/ CseExecute \/ IsrAnswer
    BY <1>2 DEF AuthStep, AuthBegin, IpcSend, IpcAcked, IpcSendAgain,
       IpcAnswered, SetupDone, CseStep, IsrSent, cseVars
  <2> QED
    BY <2>2, <2>3, <2>4, <2>5, <2>6
<1> QED
  BY <1>3, <1>4, <1>5 DEF ChannelTypes

\* Of the device's steps only those into and out of authentication change
\* them: video_open counts its retries down to 0 and no further.
LEMMA ChannelTyped == ChannelTypes /\ [Next]_vars => ChannelTypes'
<1> SUFFICES ASSUME ChannelTypes, [Next]_vars PROVE ChannelTypes'
  OBVIOUS
<1>0. SendRetry \in Nat /\ AuthRetries \in Nat
  BY ButtressAssumption, DeviceAssumption
<1>1. CASE ButtressStep
  BY <1>1, ButtressTyped
<1>2. CASE retries' = retries /\ UNCHANGED buttressVars
  BY <1>2 DEF ChannelTypes, Words, Counters, InFlight, buttressVars, authVars,
              ipcVars, cseVars
<1>3. ASSUME NEW t \in Threads, AuthEnter(t)
      PROVE  ChannelTypes'
  BY <1>3 DEF AuthEnter, AuthLock, ChannelTypes, Words, Counters, InFlight,
              ipcVars, cseVars, Steps
<1>4. ASSUME NEW t \in Threads, AuthLeave(t)
      PROVE  ChannelTypes'
  <2>1. retries' \in [Threads -> 0..AuthRetries]
    <3>1. retries \in [Threads -> 0..AuthRetries]
      BY DEF ChannelTypes, Counters
    <3>2. /\ retries[t] > 0 => retries[t] - 1 \in 0..AuthRetries
          /\ AuthRetries \in 0..AuthRetries
      BY <1>0, <3>1
    <3>3. PICK n \in 0..AuthRetries : retries' = [retries EXCEPT ![t] = n]
      BY <1>4, <3>2 DEF AuthLeave
    <3> QED
      BY <3>1, <3>3
  <2>2. /\ step' = "begin" /\ cmd' = "boot_load" /\ send_retry' = SendRetry
        /\ UNCHANGED <<ipcVars, doorbell, cseVars>>
    BY <1>4 DEF AuthLeave, AuthReturn
  <2>3. Words' /\ InFlight'
    BY <2>2 DEF ChannelTypes, Words, InFlight, ipcVars, cseVars, Steps,
                Commands
  <2>4. send_retry' \in 0..SendRetry /\ acks' \in 0..CseDepth
    BY <1>0, <2>2 DEF ChannelTypes, Counters, cseVars
  <2> QED
    BY <2>1, <2>3, <2>4 DEF ChannelTypes, Counters
<1>5. ASSUME NEW t \in Threads,
             \/ video_open(t) \/ force_power_cycle_store(t) \/ Cycle(t)
             \/ Resume(t) \/ CountOpen(t)
             \/ ipu_fw_isys_init(t) \/ PmPut(t) \/ ipu_fw_isys_close(t) \/ mark_stream_reset_needed(t)
             \/ video_release(t)
      PROVE  ChannelTypes'
  <2>1. retries' = retries /\ UNCHANGED buttressVars
    BY <1>5 DEF video_open, force_power_cycle_store, Cycle, CycleBegin,
       PowerOff, PowerOn, CycleFails, CycleEnd, Resume, CountOpen,
       ipu_fw_isys_init, PmPut, ipu_fw_isys_close, mark_stream_reset_needed,
       video_release, threadVars
  <2> QED
    BY <1>2, <2>1
<1>6. CASE UNCHANGED vars
  BY <1>2, <1>6 DEF vars, deviceVars, threadVars
<1> QED
  BY <1>1, <1>3, <1>4, <1>5, <1>6 DEF Next, Proceed

\* The types hold for any number of threads, retries and commands in flight;
\* in particular neither count goes below zero or above the number of threads.
THEOREM TypeCorrect == Spec => []TypeOK
<1>1. Init => ChannelTypes
  <2>1. SendRetry \in 0..SendRetry /\ 0 \in 0..CseDepth /\ CseDepth >= 0
        /\ AuthRetries \in 0..AuthRetries
    BY ButtressAssumption, DeviceAssumption
  <2>2. << >> \in Seq(Commands) /\ << >> \in Seq(Answers) /\ Len(<< >>) = 0
    OBVIOUS
  <2>3. Init => Words
    BY DEF Init, ButtressInit, Words, Steps, Commands
  <2>4. Init => Counters
    BY <2>1 DEF Init, ButtressInit, Counters
  <2>5. Init => InFlight
    BY <2>1, <2>2 DEF Init, ButtressInit, InFlight
  <2> QED
    BY <2>3, <2>4, <2>5 DEF ChannelTypes
<1>2. IInv /\ ChannelTypes => TypeOK
  <2> SUFFICES ASSUME IInv, ChannelTypes PROVE TypeOK
    OBVIOUS
  <2>1. /\ video_opened = Cardinality(At(Counted))
        /\ usage = Cardinality(At(Holding))
    BY DEF IInv, RefsBalanced, At, Counted, Holding
  <2>2. ASSUME NEW P
        PROVE  Cardinality(At(P)) \in 0..Cardinality(Threads)
    <3>1. At(P) \subseteq Threads
      BY DEF At
    <3>2. /\ IsFiniteSet(At(P)) /\ Cardinality(At(P)) <= Cardinality(Threads)
      BY <3>1, DeviceAssumption, FS_Subset
    <3> QED
      BY <3>2, DeviceAssumption, FS_CardinalityType
  <2> QED
    BY <2>1, <2>2 DEF IInv, Types, ChannelTypes, Words, Counters, InFlight,
                      TypeOK, ButtressTypeOK
<1> QED
  BY Initially, Inductive, ChannelTyped, <1>1, <1>2, PTL DEF Spec
=============================================================================
