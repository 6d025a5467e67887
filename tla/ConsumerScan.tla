---------------------------- MODULE ConsumerScan ----------------------------
(***************************************************************************)
(* How cbridge/surface-camera-bridge.c finds out which camera endpoints    *)
(* have a consumer: inotify events on the loopback devices trigger a scan  *)
(* of /proc/<pid>/fd whose result is cached; when the watch is lost the    *)
(* scan is repeated at an interval instead.                                *)
(*                                                                         *)
(* The kernel reports an open before the descriptor can be seen in /proc   *)
(* and a close after it cannot be seen any more, so an open and a close    *)
(* are two steps each, and the scan looks at one endpoint after the other. *)
(* Which processes count (own user, not the service's control group) does  *)
(* not change while a descriptor is open: an endpoint is in visible when a *)
(* process that counts holds it, and the opens and closes of the others,   *)
(* the bridge's own workers among them, are events that change no truth.   *)
(***************************************************************************)
EXTENDS Naturals, FiniteSets

CONSTANTS
    Endpoints,   \* the loopback devices
    QueueMax,    \* events the inotify queue holds (max_queued_events)
    IdleScan,    \* IDLE_CONSUMER_SCAN_MS in units of ACTIVE_CONSUMER_SCAN_MS
    ScanFails    \* may opendir("/proc") fail?

ASSUME ScanAssumption ==
    /\ IsFiniteSet(Endpoints)
    /\ QueueMax \in Nat \ {0} /\ IdleScan \in Nat \ {0}
    /\ ScanFails \in BOOLEAN

VARIABLES
    \* the consumers and the kernel's inotify queue (external)
    opening,     \* endpoints with an open reported but not yet in /proc
    visible,     \* endpoints /proc shows a consumer of
    closing,     \* endpoints with a close not yet reported
    watched,     \* the inotify watches exist
    queue,       \* events to read
    overflow,    \* IN_Q_OVERFLOW is among them
    ignored,     \* IN_IGNORED, IN_DELETE_SELF or IN_MOVE_SELF is
    \* struct LiveContext
    consumer_event_fd,   \* it is open
    consumer_scan_valid,
    cached_consumer_mask,
    next_scan,           \* time units until next_consumer_scan_ms
    \* scan_consumer_mask
    todo, mask, scanning,
    missed       \* endpoints whose open the last scan came too early to see

kernelVars == <<opening, visible, closing, watched>>
eventVars == <<queue, overflow, ignored>>
contextVars == <<consumer_event_fd, consumer_scan_valid,
                 cached_consumer_mask, next_scan>>
passVars == <<todo, mask, scanning, missed>>
scanVars == <<kernelVars, eventVars, contextVars, passVars>>

ScanTypeOK ==
    /\ opening \subseteq Endpoints /\ visible \subseteq Endpoints
    /\ closing \subseteq Endpoints /\ watched \in BOOLEAN
    /\ queue \in 0..QueueMax
    /\ overflow \in BOOLEAN /\ ignored \in BOOLEAN
    /\ consumer_event_fd \in BOOLEAN /\ consumer_scan_valid \in BOOLEAN
    /\ cached_consumer_mask \subseteq Endpoints
    /\ next_scan \in 0..IdleScan
    /\ todo \subseteq Endpoints /\ mask \subseteq Endpoints
    /\ scanning \in BOOLEAN /\ missed \subseteq Endpoints

\* The service starts while no application has an endpoint open; inotify may
\* be unavailable.
ScanInit ==
    /\ opening = {} /\ visible = {} /\ closing = {}
    /\ queue = 0 /\ overflow = FALSE /\ ignored = FALSE
    /\ consumer_event_fd \in BOOLEAN /\ watched = consumer_event_fd
    /\ consumer_scan_valid = FALSE /\ cached_consumer_mask = {}
    /\ next_scan = 0
    /\ todo = {} /\ mask = {} /\ scanning = FALSE /\ missed = {}

\* initialize_context of a new bridge process.
initialize_context ==
    /\ consumer_event_fd' \in BOOLEAN /\ watched' = consumer_event_fd'
    /\ queue' = 0 /\ overflow' = FALSE /\ ignored' = FALSE
    /\ consumer_scan_valid' = FALSE /\ cached_consumer_mask' = {}
    /\ next_scan' = 0
    /\ todo' = {} /\ mask' = {} /\ scanning' = FALSE /\ missed' = {}
    /\ UNCHANGED <<opening, visible, closing>>
-----------------------------------------------------------------------------
(***************************************************************************)
(* Applications and the kernel (external).                                 *)
(***************************************************************************)

\* One more event; the queue keeps room for the overflow notice only.
Notify ==
    /\ queue' = IF watched /\ queue < QueueMax THEN queue + 1 ELSE queue
    /\ overflow' = (overflow \/ (watched /\ queue = QueueMax))
    /\ UNCHANGED ignored

OpenReported(e) ==
    /\ e \notin opening \cup visible \cup closing
    /\ opening' = opening \cup {e} /\ Notify
    /\ UNCHANGED <<visible, closing, watched, contextVars, passVars>>

OpenInstalled(e) ==
    /\ e \in opening
    /\ opening' = opening \ {e} /\ visible' = visible \cup {e}
    /\ UNCHANGED <<closing, watched, eventVars, contextVars, passVars>>

Close(e) ==
    /\ e \in visible
    /\ visible' = visible \ {e} /\ closing' = closing \cup {e}
    /\ UNCHANGED <<opening, watched, eventVars, contextVars, passVars>>

CloseReported(e) ==
    /\ e \in closing
    /\ closing' = closing \ {e} /\ Notify
    /\ UNCHANGED <<opening, visible, watched, contextVars, passVars>>

\* A process that does not count opens or closes an endpoint.
OtherEvent ==
    /\ watched /\ Notify
    /\ UNCHANGED <<kernelVars, contextVars, passVars>>

\* A device node is removed or renamed.  The notice finds room in the queue.
WatchLost ==
    /\ watched /\ watched' = FALSE
    /\ ignored' = TRUE
    /\ UNCHANGED <<opening, visible, closing, queue, overflow, contextVars,
                   passVars>>

\* ACTIVE_CONSUMER_SCAN_MS pass.
TimePasses ==
    /\ next_scan > 0 /\ next_scan' = next_scan - 1
    /\ UNCHANGED <<kernelVars, eventVars, consumer_event_fd,
                   consumer_scan_valid, cached_consumer_mask, passVars>>

Consumers == \E e \in Endpoints :
    OpenReported(e) \/ OpenInstalled(e) \/ Close(e) \/ CloseReported(e)
-----------------------------------------------------------------------------
(***************************************************************************)
(* The bridge's thread.                                                    *)
(***************************************************************************)

\* What drain_consumer_events returns.
Changed == queue > 0 \/ overflow

\* drain_consumer_events: the descriptor survives if no notice says that a
\* watch has gone.
WatchAlive == ~ignored

\* drain_consumer_events empties the queue.
drain_consumer_events == queue' = 0 /\ overflow' = FALSE /\ ignored' = FALSE

\* Mutant: the interval is one unit too long.
IntervalLate(idle) == IdleScan + 1

\* The distance of the next scan in fallback mode, from what was known before
\* this one; idle is camera_controller_state = CONTROLLER_IDLE.
Interval(idle) == IF idle /\ cached_consumer_mask = {} THEN IdleScan ELSE 1

\* consumer_mask up to its decision: drain the events, close the descriptor
\* when the watch is lost, and return the cached mask or begin a scan.
consumer_mask(idle) ==
    /\ ~scanning /\ consumer_event_fd
    /\ drain_consumer_events
    /\ consumer_event_fd' = WatchAlive
    /\ \/ /\ WatchAlive /\ consumer_scan_valid /\ ~Changed
          /\ UNCHANGED <<consumer_scan_valid, next_scan, passVars>>
       \/ /\ ~(WatchAlive /\ consumer_scan_valid /\ ~Changed)
          /\ scanning' = TRUE /\ todo' = Endpoints
          /\ mask' = {} /\ missed' = {}
          /\ consumer_scan_valid' = (consumer_scan_valid /\ WatchAlive)
          /\ next_scan' = IF WatchAlive THEN next_scan ELSE Interval(idle)
    /\ UNCHANGED <<kernelVars, cached_consumer_mask>>

\* Mutant: a mask found once stays valid.
ScanDueOnce == ~consumer_scan_valid

ScanDue == ~consumer_scan_valid \/ next_scan = 0

\* consumer_mask in fallback mode: a scan when the interval is over.
consumer_mask_polled(idle) ==
    /\ ~scanning /\ ~consumer_event_fd
    /\ ScanDue
    /\ scanning' = TRUE /\ todo' = Endpoints
    /\ mask' = {} /\ missed' = {}
    /\ next_scan' = Interval(idle)
    /\ UNCHANGED <<kernelVars, eventVars, consumer_event_fd,
                   consumer_scan_valid, cached_consumer_mask>>

\* process_uses_endpoint over all processes, for one endpoint.
process_uses_endpoint(e) ==
    /\ scanning /\ e \in todo
    /\ todo' = todo \ {e}
    /\ mask' = IF e \in visible THEN mask \cup {e} ELSE mask
    /\ missed' = IF e \in opening THEN missed \cup {e} ELSE missed
    /\ UNCHANGED <<kernelVars, eventVars, contextVars, scanning>>

\* Mutant: the events are drained after the scan.
ScanDoneDrains ==
    /\ scanning /\ todo = {}
    /\ scanning' = FALSE /\ mask' = {} /\ drain_consumer_events
    /\ cached_consumer_mask' = mask /\ consumer_scan_valid' = TRUE
    /\ UNCHANGED <<kernelVars, consumer_event_fd, next_scan, todo, missed>>

\* The result is cached.
ScanDone ==
    /\ scanning /\ todo = {}
    /\ scanning' = FALSE /\ mask' = {}
    /\ cached_consumer_mask' = mask /\ consumer_scan_valid' = TRUE
    /\ UNCHANGED <<kernelVars, eventVars, consumer_event_fd, next_scan, todo,
                   missed>>

\* opendir("/proc") fails: the mask is 0, and is cached like any other.
ScanFailed ==
    /\ ScanFails /\ scanning /\ todo = Endpoints
    /\ scanning' = FALSE /\ todo' = {} /\ missed' = Endpoints
    /\ cached_consumer_mask' = {} /\ consumer_scan_valid' = TRUE
    /\ UNCHANGED <<kernelVars, eventVars, consumer_event_fd, next_scan, mask>>

ConsumerMask ==
    \/ \E idle \in BOOLEAN : consumer_mask(idle) \/ consumer_mask_polled(idle)
    \/ \E e \in Endpoints : process_uses_endpoint(e)
    \/ ScanDone \/ ScanFailed

ScanEnvironment == Consumers \/ OtherEvent \/ WatchLost \/ TimePasses
=============================================================================
