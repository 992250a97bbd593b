---------------------------- MODULE ScanControl -----------------------------
(***************************************************************************)
(* The agent's scan loop and the scan-control verbs an operator sends it:  *)
(* scan-now, scan-target, scan-pause, scan-resume, scan-cancel.            *)
(*                                                                         *)
(* The loop of main.rs collects, queues the payload, syncs, then waits for *)
(* the interval.  The verbs reach the agent only inside sync_once          *)
(* (comms.rs) and act through the flags of discovery/status.rs, which the  *)
(* source walk checks once per entry.  The HTTP poll of the waiting loop   *)
(* asks for a route the controller does not register and always reads      *)
(* "no command", so it is not a way in.                                    *)
(***************************************************************************)
EXTENDS Naturals, Sequences

CONSTANTS
    Verbs,          \* the verbs the operator uses
    NEntries,       \* entries the source walk meets in a scan
    MaxVerbs,       \* verbs the operator posts in a behaviour
    MaxFaults       \* failed syncs and agent restarts in a behaviour

AllVerbs == {"scan-now", "scan-target", "scan-pause", "scan-resume", "scan-cancel"}

ASSUME ScanAssumption ==
    /\ Verbs \subseteq AllVerbs
    /\ NEntries \in Nat \ {0}
    /\ MaxVerbs \in Nat
    /\ MaxFaults \in Nat

VARIABLES
    phase,          \* where the loop is: "start", "scan", "upload" (the sync has
                    \* drained no verb yet), "sync" or "wait"
    walked,         \* entries of the current (or last) scan processed so far
    cancel,         \* SCAN_CANCEL
    pause,          \* SCAN_PAUSE
    override,       \* is a SCAN_ROOT_OVERRIDE set?
    requested,      \* scan_requested of the current sync
    pending,        \* verbs queued in agent_commands, oldest first
    drained,        \* how many of them the current sync has read from the table
    posted,         \* verbs posted so far
    targets,        \* history: scan-target verbs the agent has applied
    narrowed,       \* history: scans that used an override
    faults

flags == <<cancel, pause, override>>
vars  == <<phase, walked, cancel, pause, override, requested, pending, drained,
           posted, targets, narrowed, faults>>

Fault == faults < MaxFaults /\ faults' = faults + 1

Init ==
    /\ phase = "start" /\ walked = 0
    /\ cancel = FALSE /\ pause = FALSE /\ override = FALSE
    /\ requested = FALSE
    /\ pending = <<>> /\ drained = 0 /\ posted = 0
    /\ targets = 0 /\ narrowed = 0 /\ faults = 0

\* The operator queues a verb (POST /api/agents/{id}/commands), at any time.
PostVerb(v) ==
    /\ posted < MaxVerbs
    /\ posted' = posted + 1
    /\ pending' = Append(pending, v)
    /\ UNCHANGED <<phase, walked, flags, requested, drained, targets, narrowed,
                   faults>>

-----------------------------------------------------------------------------
(* collect                                                                 *)

StartScan_KeepsOverride ==
    /\ phase = "start"
    /\ phase' = "scan"
    /\ walked' = 0
    /\ narrowed' = narrowed + (IF override THEN 1 ELSE 0)
    /\ UNCHANGED <<flags, requested, pending, drained, posted, targets, faults>>

\* The override, if there is one, replaces the roots of this scan and is taken.
StartScan ==
    /\ phase = "start"
    /\ phase' = "scan"
    /\ walked' = 0
    /\ narrowed' = narrowed + (IF override THEN 1 ELSE 0)
    /\ override' = FALSE
    /\ UNCHANGED <<cancel, pause, requested, pending, drained, posted, targets,
                   faults>>

\* scan_checkpoint lets the walk go on with the next entry.
WalkEntry ==
    /\ phase = "scan" /\ walked < NEntries
    /\ ~pause /\ ~cancel
    /\ walked' = walked + 1
    /\ UNCHANGED <<phase, flags, requested, pending, drained, posted, targets,
                   narrowed, faults>>

\* scan_checkpoint sleeps and looks again.
PausedPoll ==
    /\ phase = "scan" /\ walked < NEntries
    /\ pause /\ ~cancel
    /\ UNCHANGED vars

\* The walk is over, or scan_checkpoint aborts it; the stages that follow check
\* no flag.  Whatever was found is queued for upload.
FinishScan ==
    /\ phase = "scan"
    /\ walked = NEntries \/ cancel
    /\ phase' = "upload"
    /\ requested' = FALSE
    /\ UNCHANGED <<walked, flags, pending, drained, posted, targets, narrowed,
                   faults>>

-----------------------------------------------------------------------------
(* sync_once                                                               *)

Apply_ScanNowOnlyRequests(v) ==
    /\ cancel' = CASE v = "scan-target" -> FALSE
                   [] v = "scan-cancel" -> TRUE
                   [] OTHER -> cancel
    /\ pause' = CASE v \in {"scan-target", "scan-resume"} -> FALSE
                  [] v = "scan-pause" -> TRUE
                  [] OTHER -> pause
    /\ override' = (override \/ v = "scan-target")
    /\ targets' = targets + (IF v = "scan-target" THEN 1 ELSE 0)

\* What a verb does to the flags: the match of sync_once.  clear_cancel clears
\* both flags.
Apply(v) ==
    /\ cancel' = CASE v \in {"scan-now", "scan-target"} -> FALSE
                   [] v = "scan-cancel" -> TRUE
                   [] OTHER -> cancel
    /\ pause' = CASE v \in {"scan-now", "scan-target", "scan-resume"} -> FALSE
                  [] v = "scan-pause" -> TRUE
                  [] OTHER -> pause
    /\ override' = (override \/ v = "scan-target")
    /\ targets' = targets + (IF v = "scan-target" THEN 1 ELSE 0)

\* After each payload of the stream the controller reads the queued verbs.  A verb
\* that is posted after the last payload waits for the next sync.
DrainVerbs ==
    /\ phase \in {"upload", "sync"} /\ drained = 0
    /\ phase' = "sync"
    /\ drained' = Len(pending)
    /\ UNCHANGED <<walked, flags, requested, pending, posted, targets, narrowed,
                   faults>>

ReceiveVerb_AnyTime ==
    /\ phase \in {"scan", "sync"} /\ pending # <<>>
    /\ Apply(Head(pending))
    /\ requested' = (requested \/ Head(pending) \in {"scan-now", "scan-target"})
    /\ pending' = Tail(pending)
    /\ drained' = IF drained = 0 THEN 0 ELSE drained - 1
    /\ UNCHANGED <<phase, walked, posted, narrowed, faults>>

\* The agent reads the next verb of the stream; it is marked delivered.
ReceiveVerb ==
    /\ phase = "sync" /\ drained > 0
    /\ Apply(Head(pending))
    /\ requested' = (requested \/ Head(pending) \in {"scan-now", "scan-target"})
    /\ pending' = Tail(pending)
    /\ drained' = drained - 1
    /\ UNCHANGED <<phase, walked, posted, narrowed, faults>>

\* A sync that does not end well: the flags keep what the verbs did, scan_requested
\* is forgotten.
Deferred ==
    /\ Fault
    /\ phase' = "wait"
    /\ requested' = FALSE
    /\ drained' = 0
    /\ UNCHANGED <<walked, posted, narrowed>>

\* The verb is read and acted upon, but the controller fails to mark it
\* delivered: the sync ends in an error and the verb will be sent again.
ReceiveUnmarked ==
    /\ phase = "sync" /\ drained > 0
    /\ Apply(Head(pending))
    /\ Deferred
    /\ UNCHANGED pending

\* Verbs are marked delivered, but the connection breaks before the agent reads
\* them.
LoseVerbs ==
    /\ phase = "sync"
    /\ \E k \in 1..drained : pending' = SubSeq(pending, k + 1, Len(pending))
    /\ Deferred
    /\ UNCHANGED <<flags, targets>>

\* The stream is at its end and the reports are acknowledged.  A requested scan
\* starts at once, otherwise the loop waits for the interval.
SyncDone ==
    /\ phase = "sync" /\ drained = 0
    /\ phase' = IF requested THEN "start" ELSE "wait"
    /\ UNCHANGED <<walked, flags, requested, pending, drained, posted, targets,
                   narrowed, faults>>

\* "sync deferred": connect, register, stream or report fails.
SyncDeferred ==
    /\ phase \in {"upload", "sync"}
    /\ Deferred
    /\ UNCHANGED <<flags, pending, targets>>

IntervalElapsed ==
    /\ phase = "wait"
    /\ phase' = "start"
    /\ UNCHANGED <<walked, flags, requested, pending, drained, posted, targets,
                   narrowed, faults>>

\* collect or the queue fails and the process exits, or the host restarts: the
\* statics are initialised again.
AgentRestarts ==
    /\ Fault
    /\ phase' = "start" /\ walked' = 0
    /\ cancel' = FALSE /\ pause' = FALSE /\ override' = FALSE
    /\ requested' = FALSE /\ drained' = 0
    /\ UNCHANGED <<pending, posted, targets, narrowed>>

-----------------------------------------------------------------------------
Loop ==
    \/ StartScan \/ WalkEntry \/ PausedPoll \/ FinishScan
    \/ DrainVerbs \/ ReceiveVerb \/ SyncDone \/ IntervalElapsed

Next ==
    \/ \E v \in Verbs : PostVerb(v)
    \/ Loop
    \/ ReceiveUnmarked \/ LoseVerbs \/ SyncDeferred \/ AgentRestarts

Spec == Init /\ [][Next]_vars

\* The loop is one thread that the operating system schedules.
FairSpec == Spec /\ WF_vars(Loop)

-----------------------------------------------------------------------------
(* Properties.                                                             *)

\* Every variable keeps the type the Rust statics and locals give it.
TypeOK ==
    /\ phase \in {"start", "scan", "upload", "sync", "wait"}
    /\ walked \in 0..NEntries
    /\ cancel \in BOOLEAN /\ pause \in BOOLEAN /\ override \in BOOLEAN
    /\ requested \in BOOLEAN
    /\ pending \in Seq(Verbs) /\ drained \in 0..Len(pending)
    /\ posted \in 0..MaxVerbs
    /\ targets \in Nat /\ narrowed \in Nat
    /\ faults \in 0..MaxFaults

\* A scan that has ended has processed every entry or none: a verb never takes
\* effect in the middle of a walk.  A cancelled scan is therefore an empty one,
\* where status.rs:11 speaks of a scan in progress and of partial results.
AllOrNothing == phase # "scan" => walked \in {0, NEntries}

\* A scan-target verb narrows at most one scan (take_scan_root_override).
OverrideIsOneShot == narrowed <= targets

\* When failures have stopped and the agent is not paused, a scan-now that is the last
\* verb queued is followed by a scan, begun after the agent has read it, of every
\* entry below its roots, whatever cancels and pauses are queued before it.  The
\* exception is a sync that reads a scan-pause and leaves the scan-now, posted after
\* its last payload, to the next one: the scan before that one waits for ever.
ScanNowRunsFully ==
    (/\ faults = MaxFaults /\ posted = MaxVerbs /\ ~pause
     /\ pending # <<>> /\ pending[Len(pending)] = "scan-now"
     /\ \A i \in 1..drained : pending[i] = "scan-pause" => drained = Len(pending))
        ~> (phase = "scan" /\ pending = <<>> /\ walked = NEntries)

\* status.rs says that request_cancel stops the in-progress scan early: a
\* scan-cancel queued while a scan runs ends that scan.
CancelEndsTheScan ==
    (phase = "scan" /\ pending # <<>> /\ pending[Len(pending)] = "scan-cancel")
        ~> phase # "scan"
=============================================================================
