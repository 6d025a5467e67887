------------------------------ MODULE Buttress ------------------------------
(***************************************************************************)
(* Firmware authentication, ipu_buttress_authenticate of ipu-buttress.c:   *)
(* two commands to the security engine (CSE) over a doorbell, each one     *)
(* acknowledged and answered by interrupt, and a status register that says *)
(* what became of them.  auth_mutex admits one thread at a time, the auth  *)
(* thread; step is its position.                                           *)
(*                                                                         *)
(* Every wait may time out before what it waits for, so acknowledgements   *)
(* and answers of an attempt that was given up arrive in a later one.  The *)
(* CSE (external) executes what it took in the order it took it and, once  *)
(* it has authenticated the firmware, keeps it authenticated.              *)
(***************************************************************************)
EXTENDS Naturals, Sequences

CONSTANTS
    Threads,     \* threads in the driver
    None,        \* no thread
    SendRetry,   \* BUTTRESS_IPC_CMD_SEND_RETRY (1 in the code)
    CseDepth     \* commands the CSE may have in hand

ASSUME ButtressAssumption ==
    /\ None \notin Threads
    /\ SendRetry \in Nat /\ CseDepth \in Nat \ {0}

VARIABLES
    auth,           \* the thread that holds auth_mutex
    step, cmd,      \* its position and the command it is about
    send_retry,     \* retry of ipu_buttress_ipc_send_bulk
    send_complete,
    received,       \* recv_data if recv_complete is set, "" if it is not
    doorbell,       \* the command in db0_out, "" when it is clear
    taken,          \* commands the CSE took and has not executed
    acks,           \* acknowledgements it owes
    answers,        \* answers it owes
    security_ctl    \* BUTTRESS_REG_SECURITY_CTL

authVars == <<auth, step, cmd, send_retry>>
ipcVars == <<send_complete, received>>
cseVars == <<taken, acks, answers, security_ctl>>
buttressVars == <<authVars, ipcVars, doorbell, cseVars>>

Commands == {"boot_load", "auth_run"}
Answers == Commands \cup {"nack"}
Steps == {"begin", "send", "wait_ack", "wait_answer", "poll"}

ButtressTypeOK ==
    /\ auth \in Threads \cup {None} /\ step \in Steps /\ cmd \in Commands
    /\ send_retry \in 0..SendRetry
    /\ send_complete \in BOOLEAN /\ received \in Answers \cup {""}
    /\ doorbell \in Commands \cup {""}
    /\ taken \in Seq(Commands) /\ Len(taken) <= CseDepth
    /\ acks \in 0..CseDepth
    /\ answers \in Seq(Answers) /\ Len(answers) <= CseDepth
    /\ security_ctl \in {"none", "setup_done", "auth_done", "failed"}

ButtressInit ==
    /\ auth = None /\ step = "begin" /\ cmd = "boot_load"
    /\ send_retry = SendRetry
    /\ send_complete = FALSE /\ received = "" /\ doorbell = ""
    /\ taken = << >> /\ acks = 0 /\ answers = << >>
    /\ security_ctl = "none"
-----------------------------------------------------------------------------
(***************************************************************************)
(* The auth thread.                                                        *)
(***************************************************************************)

\* ipu_buttress_authenticate in secure mode takes auth_mutex.
AuthLock(t) ==
    /\ auth = None /\ auth' = t /\ step' = "begin"
    /\ UNCHANGED <<cmd, send_retry, ipcVars, doorbell, cseVars>>

\* Mutant: the status bits are compared under a wrong mask.
ipu4_buttress_auth_done_never == FALSE

\* The firmware is authenticated already.
ipu4_buttress_auth_done == security_ctl = "auth_done"

\* The psys MMU is powered and BOOT_LOAD is to be sent.
AuthBegin ==
    /\ auth # None /\ step = "begin" /\ ~ipu4_buttress_auth_done
    /\ step' = "send" /\ cmd' = "boot_load" /\ send_retry' = SendRetry
    /\ UNCHANGED <<auth, ipcVars, doorbell, cseVars>>

\* ipu_buttress_ipc_send_bulk: forget former completions, ring the doorbell.
IpcSend ==
    /\ auth # None /\ step = "send" /\ step' = "wait_ack"
    /\ send_complete' = FALSE /\ received' = ""
    /\ doorbell' = cmd
    /\ UNCHANGED <<auth, cmd, send_retry, cseVars>>

IpcAcked ==
    /\ auth # None /\ step = "wait_ack" /\ send_complete
    /\ step' = "wait_answer" /\ send_retry' = SendRetry
    /\ send_complete' = FALSE
    /\ UNCHANGED <<auth, cmd, received, doorbell, cseVars>>

\* Mutant: one retry too many.
RetriesLeftLate == send_retry >= 0

RetriesLeft == send_retry > 0

\* No acknowledgement in time: take the command back and send it once more.
IpcSendAgain ==
    /\ auth # None /\ step = "wait_ack" /\ ~send_complete /\ RetriesLeft
    /\ send_retry' = send_retry - 1
    /\ doorbell' = "" /\ step' = "send"
    /\ UNCHANGED <<auth, cmd, ipcVars, cseVars>>

\* The expected answer came: on to the status register.
IpcAnswered ==
    /\ auth # None /\ step = "wait_answer" /\ received = cmd
    /\ step' = "poll" /\ received' = ""
    /\ UNCHANGED <<auth, cmd, send_retry, send_complete, doorbell, cseVars>>

\* FW_SETUP_DONE and the boot loader's magic number: send AUTHENTICATE_RUN.
SetupDone ==
    /\ auth # None /\ step = "poll" /\ cmd = "boot_load"
    /\ security_ctl = "setup_done"
    /\ step' = "send" /\ cmd' = "auth_run" /\ send_retry' = SendRetry
    /\ UNCHANGED <<auth, ipcVars, doorbell, cseVars>>

\* ipu_buttress_authenticate returns 0: the register says so, at once or
\* after AUTHENTICATE_RUN.
AuthPassed ==
    \/ step = "begin" /\ ipu4_buttress_auth_done
    \/ step = "poll" /\ cmd = "auth_run" /\ security_ctl = "auth_done"

\* Mutant: the answer is waited for without a timeout.
AuthFailedUntimed ==
    \/ step \in {"begin", "send"}
    \/ step = "wait_ack" /\ ~send_complete /\ ~RetriesLeft
    \/ step = "wait_answer" /\ received \notin {"", cmd}
    \/ step = "poll" /\ (cmd = "boot_load" \/ security_ctl # "auth_done")

\* It returns an error: power-up of the psys MMU, validity of the channel,
\* missing acknowledgement or answer, NACK, unexpected answer, failed or
\* timed-out status, missing magic number.
AuthFailed ==
    \/ step \in {"begin", "send"}
    \/ step = "wait_ack" /\ ~send_complete /\ ~RetriesLeft
    \/ step = "wait_answer" /\ received # cmd
    \/ step = "poll" /\ (cmd = "boot_load" \/ security_ctl # "auth_done")

\* auth_mutex is released.
AuthReturn ==
    /\ auth' = None /\ step' = "begin"
    /\ cmd' = "boot_load" /\ send_retry' = SendRetry
    /\ UNCHANGED <<ipcVars, doorbell, cseVars>>

AuthStep ==
    \/ AuthBegin \/ IpcSend \/ IpcAcked \/ IpcSendAgain \/ IpcAnswered
    \/ SetupDone
-----------------------------------------------------------------------------
(***************************************************************************)
(* The CSE (external) and ipu_buttress_isr.                                *)
(***************************************************************************)

CseTake ==
    /\ doorbell # "" /\ Len(taken) < CseDepth /\ acks < CseDepth
    /\ taken' = Append(taken, doorbell) /\ acks' = acks + 1
    /\ doorbell' = ""
    /\ UNCHANGED <<authVars, ipcVars, answers, security_ctl>>

\* BUTTRESS_ISR_IPC_EXEC_DONE_BY_CSE.
IsrSent ==
    /\ acks > 0 /\ acks' = acks - 1
    /\ send_complete' = TRUE
    /\ UNCHANGED <<authVars, received, doorbell, taken, answers, security_ctl>>

CseExecute ==
    /\ taken # << >> /\ Len(answers) < CseDepth
    /\ taken' = Tail(taken)
    /\ \E a \in {Head(taken), "nack"} : answers' = Append(answers, a)
    /\ \/ /\ security_ctl # "auth_done"
          /\ security_ctl' = IF Head(taken) = "boot_load" THEN "setup_done"
                             ELSE IF security_ctl = "setup_done"
                                  THEN "auth_done" ELSE security_ctl
       \/ security_ctl # "auth_done" /\ security_ctl' = "failed"
       \/ security_ctl = "auth_done" /\ UNCHANGED security_ctl
    /\ UNCHANGED <<authVars, ipcVars, doorbell, acks>>

\* BUTTRESS_ISR_IPC_FROM_CSE_IS_WAITING.
IsrAnswer ==
    /\ answers # << >> /\ answers' = Tail(answers)
    /\ received' = Head(answers)
    /\ UNCHANGED <<authVars, send_complete, doorbell, taken, acks,
                   security_ctl>>

CseStep == CseTake \/ IsrSent \/ CseExecute \/ IsrAnswer
-----------------------------------------------------------------------------
(***************************************************************************)
(* Authentication by itself: threads call it whenever they like, as        *)
(* video_open, the psys driver and the debugfs trigger do.                 *)
(***************************************************************************)
AuthEnd == auth # None /\ (AuthPassed \/ AuthFailed) /\ AuthReturn

ButtressNext ==
    (\E t \in Threads : AuthLock(t)) \/ AuthStep \/ AuthEnd \/ CseStep

\* The auth thread runs on: all its waits have timeouts.
ButtressSpec ==
    /\ ButtressInit /\ [][ButtressNext]_buttressVars
    /\ WF_buttressVars(AuthStep \/ AuthEnd)
-----------------------------------------------------------------------------
(***************************************************************************)
(* Properties.                                                             *)
(***************************************************************************)

\* The CSE still has something to do for the driver or to tell it.
CseBusy ==
    doorbell # "" \/ taken # << >> \/ acks > 0 \/ answers # << >>

\* The auth thread was told that its command failed.
Refused ==
    \/ step = "wait_answer" /\ received \notin {"", cmd}
    \/ step = "poll" /\ security_ctl = "failed"

\* A wait for the CSE expires: for an acknowledgement, an answer or the status.
Expires ==
    \/ IpcSendAgain
    \/ /\ AuthEnd /\ ~AuthPassed /\ ~Refused
       /\ \/ step \in {"wait_ack", "wait_answer"}
          \/ step = "poll" /\ ~(cmd = "boot_load" /\ security_ctl = "setup_done")

\* An attempt ends for a reason other than the CSE: the power-up of the psys
\* MMU, the validity of the channel, the boot loader's magic number.
Hindered ==
    AuthEnd /\ ~AuthPassed
    /\ \/ step \in {"begin", "send"}
       \/ step = "poll" /\ cmd = "boot_load" /\ security_ctl = "setup_done"

\* The platform works: nothing hinders an attempt, the CSE does what it is told
\* and does it before the driver's waits expire.
Works ==
    /\ ~Hindered
    /\ Expires => ~CseBusy
    /\ CseExecute =>
          /\ answers' = Append(answers, Head(taken))
          /\ security_ctl' = "failed" =>
                security_ctl = "failed" /\ Head(taken) = "auth_run"

\* Once the platform works, authentication succeeds again, whatever failed
\* before: the acknowledgements and answers of commands that were given up
\* may spoil some attempts, each of which leaves new ones behind, but they run
\* out; and so for every later open.
AuthRecovers ==
    <>[][Works]_buttressVars /\ []<>(auth # None)
        => []<><<AuthEnd /\ AuthPassed>>_buttressVars

\* auth_mutex is always released, also when the CSE is silent.
AuthEnds == auth # None ~> auth = None
=============================================================================
