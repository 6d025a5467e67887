----------------------------- MODULE IsysDevice -----------------------------
(***************************************************************************)
(* Opening, closing and recovering the ISYS device: video_open and         *)
(* video_release of ipu-isys-video.c, the power cycle of ipu-isys.c and    *)
(* the firmware context functions of libintel-ipu4p.c, for threads that    *)
(* each use a video node of their own (the RGB worker and the IR service). *)
(*                                                                         *)
(* A step ends where a thread gives up isys->mutex or sleeps; mutex is     *)
(* that lock while it is held across a sleep, and recovery is              *)
(* recovery_mutex.  wedged is a property of the hardware: a firmware       *)
(* release timed out or a stream was lost, and only a power cycle brings   *)
(* the firmware back.  overtaken and unreported are history variables, the *)
(* two ways in which the driver loses track of that: a failure marked      *)
(* while a power cycle is past its cut, whose end clears the mark, and a   *)
(* release that times out inside ipu_fw_isys_init and is not marked.       *)
(* The references video_open also takes on the IOMMU, the psys firmware    *)
(* and the media pipeline are not modelled.                                *)
(***************************************************************************)
EXTENDS Buttress, FiniteSets

CONSTANTS
    AuthRetries, \* retries of video_open (3 in the code)
    PowerFails   \* may runtime power management report errors?

ASSUME DeviceAssumption ==
    IsFiniteSet(Threads) /\ AuthRetries \in Nat /\ PowerFails \in BOOLEAN

VARIABLES
    pc,            \* per thread: its position
    retries,       \* per thread: retries video_open has left
    job,           \* per thread: what the power cycle is for
    mutex, recovery,
    reset_needed, video_opened,
    usage,         \* runtime PM usage count of the ISYS device
    fwcom,         \* isys->fwcom is not NULL
    wedged, overtaken, unreported

threadVars == <<pc, retries, job>>
lockVars == <<mutex, recovery>>
hwVars == <<wedged, overtaken, unreported>>
deviceVars == <<threadVars, lockVars, reset_needed, video_opened, usage,
                fwcom, hwVars>>
vars == <<deviceVars, buttressVars>>

Labels == {"closed", "recover", "power_off", "power_on", "recovered", "auth",
           "authenticate", "resume", "count", "init", "open", "close", "put"}

TypeOK ==
    /\ ButtressTypeOK
    /\ pc \in [Threads -> Labels]
    /\ retries \in [Threads -> 0..AuthRetries]
    /\ job \in [Threads -> {"open", "sysfs"}]
    /\ mutex \in Threads \cup {None} /\ recovery \in Threads \cup {None}
    /\ reset_needed \in BOOLEAN /\ fwcom \in BOOLEAN
    /\ video_opened \in 0..Cardinality(Threads)
    /\ usage \in 0..Cardinality(Threads)
    /\ wedged \in BOOLEAN /\ overtaken \in BOOLEAN /\ unreported \in BOOLEAN

Init ==
    /\ ButtressInit
    /\ pc = [t \in Threads |-> "closed"]
    /\ retries = [t \in Threads |-> AuthRetries]
    /\ job = [t \in Threads |-> "open"]
    /\ mutex = None /\ recovery = None
    /\ reset_needed = FALSE /\ video_opened = 0 /\ usage = 0 /\ fwcom = FALSE
    /\ wedged = FALSE /\ overtaken = FALSE /\ unreported = FALSE
-----------------------------------------------------------------------------
Goto(t, label) == pc' = [pc EXCEPT ![t] = label]

\* Recovery is refused (-EBUSY) while a node is open somewhere.
RecoveryAllowed == video_opened = 0

\* video_open's test of reset_needed: the power cycle comes first.
video_open(t) ==
    /\ pc[t] = "closed" /\ mutex = None
    /\ reset_needed => RecoveryAllowed
    /\ Goto(t, IF reset_needed THEN "recover" ELSE "auth")
    /\ UNCHANGED <<retries, job, lockVars, reset_needed, video_opened, usage,
                   fwcom, hwVars, buttressVars>>

\* The manual trigger, refused while a node is open.
force_power_cycle_store(t) ==
    /\ pc[t] = "closed" /\ mutex = None /\ RecoveryAllowed
    /\ reset_needed' = TRUE
    /\ Goto(t, "recover") /\ job' = [job EXCEPT ![t] = "sysfs"]
    /\ UNCHANGED <<retries, lockVars, video_opened, usage, fwcom, hwVars,
                   buttressVars>>
-----------------------------------------------------------------------------
(***************************************************************************)
(* ipu_isys_force_power_cycle.                                             *)
(***************************************************************************)

\* Where its caller goes on after success.
CycleDone(t) ==
    /\ Goto(t, IF job[t] = "open" THEN "auth" ELSE "closed")
    /\ job' = [job EXCEPT ![t] = "open"]

\* Under both mutexes: another thread may have done the work already.
CycleBegin(t) ==
    /\ pc[t] = "recover" /\ recovery = None /\ mutex = None
    /\ IF reset_needed
       THEN Goto(t, "power_off") /\ recovery' = t /\ UNCHANGED job
       ELSE CycleDone(t) /\ UNCHANGED recovery
    /\ UNCHANGED <<retries, mutex, reset_needed, video_opened, usage,
                   fwcom, hwVars, buttressVars>>

\* pm_runtime_resume_and_get and pm_runtime_force_suspend of the MMU: the
\* power island goes down whoever uses it.
PowerOff(t) ==
    /\ pc[t] = "power_off" /\ Goto(t, "power_on")
    /\ wedged' = FALSE /\ overtaken' = FALSE /\ unreported' = FALSE
    /\ UNCHANGED <<retries, job, lockVars, reset_needed, video_opened, usage,
                   fwcom, buttressVars>>

\* pm_runtime_force_resume.
PowerOn(t) ==
    /\ pc[t] = "power_on" /\ Goto(t, "recovered")
    /\ UNCHANGED <<retries, job, lockVars, reset_needed, video_opened, usage,
                   fwcom, hwVars, buttressVars>>

\* Either of them fails: reset_needed stays set.
CycleFails(t) ==
    /\ PowerFails /\ pc[t] \in {"power_off", "power_on"}
    /\ Goto(t, "closed") /\ recovery' = None
    /\ job' = [job EXCEPT ![t] = "open"]
    /\ UNCHANGED <<retries, mutex, reset_needed, video_opened, usage,
                   fwcom, hwVars, buttressVars>>

\* The end of the cycle clears reset_needed, also when it was set anew for a
\* stream that was lost since the power came back.
CycleEnd(t) ==
    /\ pc[t] = "recovered" /\ mutex = None
    /\ CycleDone(t) /\ recovery' = None
    /\ reset_needed' = FALSE
    /\ UNCHANGED <<retries, mutex, video_opened, usage, fwcom, hwVars,
                   buttressVars>>

-----------------------------------------------------------------------------
(***************************************************************************)
(* The rest of video_open.                                                 *)
(***************************************************************************)

\* ipu_buttress_authenticate, and what video_open makes of its result.
AuthEnter(t) ==
    /\ pc[t] = "auth" /\ AuthLock(t) /\ Goto(t, "authenticate")
    /\ UNCHANGED <<retries, job, lockVars, reset_needed, video_opened, usage,
                   fwcom, hwVars>>

AuthLeave(t) ==
    /\ pc[t] = "authenticate" /\ auth = t /\ AuthReturn
    /\ \/ /\ AuthPassed /\ Goto(t, "resume")
          /\ retries' = [retries EXCEPT ![t] = AuthRetries]
       \/ /\ AuthFailed /\ retries[t] > 0
          /\ Goto(t, "auth")
          /\ retries' = [retries EXCEPT ![t] = @ - 1]
       \/ /\ AuthFailed /\ retries[t] = 0 /\ Goto(t, "closed")
          /\ retries' = [retries EXCEPT ![t] = AuthRetries]
    /\ UNCHANGED <<job, lockVars, reset_needed, video_opened, usage, fwcom,
                   hwVars>>

\* pm_runtime_get_sync, v4l2_fh_open and v4l2_pipeline_pm_get.
Resume(t) ==
    /\ pc[t] = "resume"
    /\ \/ Goto(t, "count") /\ usage' = usage + 1
       \/ PowerFails /\ Goto(t, "closed") /\ UNCHANGED usage
       \/ Goto(t, "put") /\ usage' = usage + 1
    /\ UNCHANGED <<retries, job, lockVars, reset_needed, video_opened, fwcom,
                   hwVars, buttressVars>>

\* Mutant: the first opener lets go of isys->mutex before the firmware is up.
HoldForInitNot(t) == None

\* The first opener keeps isys->mutex until the firmware is up.
HoldForInit(t) == t

\* video_opened++.  A later opener is done.  The first one sets up the
\* firmware and deletes a context that a failed shutdown left.
CountOpen(t) ==
    /\ pc[t] = "count" /\ mutex = None
    /\ video_opened' = video_opened + 1
    /\ IF video_opened > 0
       THEN Goto(t, "open") /\ UNCHANGED <<mutex, fwcom>>
       ELSE Goto(t, "init") /\ mutex' = HoldForInit(t) /\ fwcom' = FALSE
    /\ UNCHANGED <<retries, job, recovery, reset_needed, usage, hwVars,
                   buttressVars>>

\* Mutant: a failed ipu_fw_isys_init leaves video_opened counted.
UncountForgotten == video_opened

\* out_lib_init: video_opened--.
Uncount == video_opened - 1

\* ipu_fw_isys_init: the context is up; or it cannot be created, or does not
\* get ready and is closed again, in which case a release that times out
\* leaves the context behind and reset_needed as it was.
ipu_fw_isys_init(t) ==
    /\ pc[t] = "init" /\ mutex' = None
    /\ \/ /\ fwcom' = TRUE /\ Goto(t, "open")
          /\ UNCHANGED <<video_opened, wedged, unreported>>
       \/ /\ fwcom' = FALSE /\ video_opened' = Uncount /\ Goto(t, "put")
          /\ UNCHANGED <<wedged, unreported>>
       \/ /\ fwcom' = TRUE /\ video_opened' = Uncount /\ Goto(t, "put")
          /\ wedged' = TRUE /\ unreported' = TRUE
    /\ UNCHANGED <<retries, job, recovery, reset_needed, usage, overtaken,
                   buttressVars>>

\* The error path's and video_release's last step: pm_runtime_put.
PmPut(t) ==
    /\ pc[t] = "put" /\ Goto(t, "closed") /\ usage' = usage - 1
    /\ UNCHANGED <<retries, job, lockVars, reset_needed, video_opened, fwcom,
                   hwVars, buttressVars>>
-----------------------------------------------------------------------------
(***************************************************************************)
(* An open node.                                                           *)
(***************************************************************************)

\* A power cycle is between its cut and its end: what is marked now is
\* cleared with the rest.
CycleRuns == \E u \in Threads : pc[u] \in {"power_on", "recovered"}

\* mark_stream_reset_needed: a stream command got no answer.
mark_stream_reset_needed(t) ==
    /\ pc[t] = "open" /\ mutex = None
    /\ reset_needed' = TRUE /\ wedged' = TRUE
    /\ overtaken' = (overtaken \/ CycleRuns)
    /\ UNCHANGED <<threadVars, lockVars, video_opened, usage, fwcom,
                   unreported, buttressVars>>

\* video_release: the last one closes the firmware, unless it is lost.
video_release(t) ==
    /\ pc[t] = "open" /\ mutex = None
    /\ video_opened' = video_opened - 1
    /\ IF video_opened = 1 /\ ~reset_needed
       THEN Goto(t, "close") /\ mutex' = t
       ELSE Goto(t, "put") /\ UNCHANGED mutex
    /\ UNCHANGED <<retries, job, recovery, reset_needed, usage, fwcom, hwVars,
                   buttressVars>>

\* Mutant: a release that timed out is only logged.
MarkTimeoutNot == reset_needed

\* A release that timed out makes the device need a power cycle.
MarkTimeout == TRUE

\* ipu_fw_isys_close.
ipu_fw_isys_close(t) ==
    /\ pc[t] = "close" /\ mutex' = None /\ Goto(t, "put")
    /\ \/ fwcom' = FALSE /\ UNCHANGED <<reset_needed, wedged, overtaken>>
       \/ /\ reset_needed' = MarkTimeout /\ wedged' = TRUE
          /\ overtaken' = (overtaken \/ CycleRuns) /\ UNCHANGED fwcom
    /\ UNCHANGED <<retries, job, recovery, video_opened, usage, unreported,
                   buttressVars>>
-----------------------------------------------------------------------------
ButtressStep == (AuthStep \/ CseStep) /\ UNCHANGED deviceVars

Cycle(t) ==
    CycleBegin(t) \/ PowerOff(t) \/ PowerOn(t) \/ CycleFails(t) \/ CycleEnd(t)
Proceed(t) ==
    \/ Cycle(t) \/ AuthEnter(t) \/ AuthLeave(t) \/ Resume(t)
    \/ CountOpen(t) \/ ipu_fw_isys_init(t) \/ PmPut(t) \/ ipu_fw_isys_close(t)

Next ==
    \/ ButtressStep
    \/ \E t \in Threads :
          \/ video_open(t) \/ force_power_cycle_store(t) \/ Proceed(t)
          \/ mark_stream_reset_needed(t) \/ video_release(t)

Spec == Init /\ [][Next]_vars
-----------------------------------------------------------------------------
(***************************************************************************)
(* Properties.                                                             *)
(***************************************************************************)

\* Every return path of video_open, video_release and
\* ipu_isys_force_power_cycle gives back what it took: the power reference,
\* the count of open nodes and the three mutexes belong to exactly the threads
\* between taking and returning them, so no failure locks the others out.
\* (Not counted: the IOMMU's, psys' and pipeline's references.)
RefsBalanced ==
    /\ usage = Cardinality(
          {t \in Threads : pc[t] \in {"count", "init", "open", "close", "put"}})
    /\ video_opened =
          Cardinality({t \in Threads : pc[t] \in {"init", "open"}})
    /\ \A t \in Threads :
          /\ mutex = t <=> pc[t] \in {"init", "close"}
          /\ recovery = t <=> pc[t] \in {"power_off", "power_on", "recovered"}
          /\ auth = t <=> pc[t] = "authenticate"

\* A node that is open has a firmware context, whoever created it: video_open
\* reports "already open" only after the first opener's firmware is up, and
\* the context goes only with the last node.
OpenHasFirmware == \A t \in Threads : pc[t] = "open" => fwcom

\* A firmware or a stream that was lost stays marked until the power has been
\* cut, through every interleaving of opens, releases, recoveries and
\* recoveries that fail, so an open that finds reset_needed clear finds working
\* hardware.  The driver has the holes overtaken and unreported and no other.
FailureRemembered == wedged => reset_needed \/ overtaken \/ unreported
-----------------------------------------------------------------------------
(***************************************************************************)
(* What the driver says of itself and does not keep.                       *)
(***************************************************************************)

\* "isys recovery deferred while streams are open" (video_open), and the manual
\* trigger "is rejected while a video or stream handle is open": no node is
\* open while the power of the ISYS is down.
PowerCutOnlyWhenUnused ==
    \A t \in Threads : pc[t] = "power_on" => video_opened = 0
=============================================================================
