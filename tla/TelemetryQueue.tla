--------------------------- MODULE TelemetryQueue ---------------------------
(***************************************************************************)
(* From the files of a host to the controller's tables: the incremental    *)
(* source scan with its scan_state cache, the agent's offline queue        *)
(* (telemetry_queue in SQLite), and the upload of sync_once.               *)
(*                                                                         *)
(* A file is its current content, a version number; 0 is "no such file".   *)
(* A finding is the pair of a file and the version it was found in.        *)
(* scan_state and telemetry_queue survive a crash of the agent; what a     *)
(* scan has found so far does not.                                         *)
(*                                                                         *)
(* The scan-control verbs that the controller sends in a sync (ScanControl *)
(* models their delivery) hold the scans that follow, or narrow the next   *)
(* one to a path.                                                          *)
(***************************************************************************)
EXTENDS Naturals, Sequences, FiniteSets

CONSTANTS
    Files,          \* the source files under the scan roots
    BatchLimit,     \* payloads read by pending_payloads (256 in the code)
    MaxVersion,     \* highest content version of a file
    MaxVerbs,       \* scan-control verbs read in a behaviour
    MaxFaults,      \* failed syncs in a behaviour
    MaxCrashes      \* crashes of the agent in a behaviour

ASSUME QueueAssumption ==
    /\ BatchLimit \in Nat \ {0}
    /\ MaxVersion \in Nat \ {0}
    /\ MaxVerbs \in Nat /\ MaxFaults \in Nat /\ MaxCrashes \in Nat

VARIABLES
    disk,           \* the version of each file, 0 when it does not exist
    cache,          \* scan_state: the version recorded, 0 when there is no row
    fresh,          \* is the row younger than max_cache_age?
    hold,           \* SCAN_CANCEL and SCAN_PAUSE: "cancel" when the first is set,
                    \* else "pause" when the second is, else "none"
    roots,          \* the files below the roots of the next scan
    phase,          \* where the agent's loop is
    todo,           \* files the current walk has still to meet
    seen,           \* current_paths of the current walk
    found,          \* findings collected by the current scan, in memory
    outq,           \* telemetry_queue: payloads, oldest first
    sending,        \* payloads taken by the current sync (a prefix of outq)
    uploaded,       \* of these, how many the controller has committed
    stored,         \* findings the controller has ever committed
    ever,           \* history: findings that were ever in telemetry_queue
    verbs, faults, crashes

vars == <<disk, cache, fresh, hold, roots, phase, todo, seen, found, outq, sending,
          uploaded, stored, ever, verbs, faults, crashes>>
host == <<disk>>
state == <<cache, fresh>>
scan == <<todo, seen, found>>
sync == <<sending, uploaded>>
control == <<hold, roots>>
bounds == <<verbs, faults, crashes>>

Versions == 1..MaxVersion
Finding  == Files \X Versions
Holds    == {"none", "cancel", "pause"}
Verbs    == {"scan-now", "scan-target", "scan-pause", "scan-resume", "scan-cancel"}
Phases   == {"start", "walk", "report", "sync", "delete", "wait"}

Smaller(m, n) == IF m <= n THEN m ELSE n

Init ==
    /\ disk \in [Files -> 0..1]
    /\ cache = [f \in Files |-> 0] /\ fresh = [f \in Files |-> FALSE]
    /\ hold = "none" /\ roots = Files
    /\ phase = "start"
    /\ todo = {} /\ seen = {} /\ found = {}
    /\ outq = <<>> /\ sending = 0 /\ uploaded = 0
    /\ stored = {} /\ ever = {}
    /\ verbs = 0 /\ faults = 0 /\ crashes = 0

-----------------------------------------------------------------------------
(* The host.                                                               *)

\* The content of a file changes, also back to what it was before.
Edit(f) ==
    /\ \E v \in Versions \ {disk[f]} : disk' = [disk EXCEPT ![f] = v]
    /\ UNCHANGED <<state, control, phase, scan, outq, sync, stored, ever, bounds>>

Remove(f) ==
    /\ disk[f] # 0
    /\ disk' = [disk EXCEPT ![f] = 0]
    /\ UNCHANGED <<state, control, phase, scan, outq, sync, stored, ever, bounds>>

\* The row of a file grows older than max_cache_age_hours.
CacheExpires(f) ==
    /\ fresh[f]
    /\ fresh' = [fresh EXCEPT ![f] = FALSE]
    /\ UNCHANGED <<host, cache, control, phase, scan, outq, sync, stored, ever, bounds>>

-----------------------------------------------------------------------------
(* The scan.                                                               *)

\* A targeted scan walks the files below its path, a full one all of them.  The target
\* is taken: the scan after this one is full again.
StartScan ==
    /\ phase = "start"
    /\ phase' = "walk"
    /\ todo' = roots /\ roots' = Files
    /\ seen' = {} /\ found' = {}
    /\ UNCHANGED <<host, state, hold, outq, sync, stored, ever, bounds>>

UnchangedAndFresh_IgnoresHash(f) == cache[f] # 0 /\ fresh[f]
UnchangedAndFresh_IgnoresAge(f) == cache[f] = disk[f]

\* The content hash is the one recorded, and the record is young enough.
UnchangedAndFresh(f) == cache[f] = disk[f] /\ fresh[f]

\* One file: skipped, or recorded in scan_state and then parsed.  scan_checkpoint lets
\* the walk go on only when nothing holds it.
ScanFile(f) ==
    /\ phase = "walk" /\ f \in todo /\ hold = "none"
    /\ todo' = todo \ {f}
    /\ IF disk[f] = 0
         THEN UNCHANGED <<state, seen, found>>
         ELSE /\ seen' = seen \cup {f}
              /\ IF UnchangedAndFresh(f)
                   THEN UNCHANGED <<state, found>>
                   ELSE /\ cache' = [cache EXCEPT ![f] = disk[f]]
                        /\ fresh' = [fresh EXCEPT ![f] = TRUE]
                        /\ found' = found \cup {<<f, disk[f]>>}
    /\ UNCHANGED <<host, control, phase, outq, sync, stored, ever, bounds>>

\* purge_stale_scan_state: every row of a file the walk has not met is dropped.
PurgeStale ==
    /\ cache' = [f \in Files |-> IF f \in seen THEN cache[f] ELSE 0]
    /\ fresh' = [f \in Files |-> f \in seen /\ fresh[f]]

\* The walk ends when it has met every file, or at once when SCAN_CANCEL is set.
EndWalk ==
    /\ phase = "walk"
    /\ todo = {} \/ hold = "cancel"
    /\ PurgeStale
    /\ phase' = "report"
    /\ todo' = {}
    /\ UNCHANGED <<host, control, seen, found, outq, sync, stored, ever, bounds>>

\* The reports are written, then enqueue_payload commits the payload.
EnqueuePayload ==
    /\ phase = "report"
    /\ outq' = Append(outq, found)
    /\ ever' = ever \cup found
    /\ found' = {}
    /\ phase' = "sync"
    /\ sending' = Smaller(BatchLimit, Len(outq) + 1)
    /\ uploaded' = 0
    /\ UNCHANGED <<host, state, control, todo, seen, stored, bounds>>

-----------------------------------------------------------------------------
(* sync_once.                                                              *)

\* The controller commits the next payload of the stream (InsertTelemetry); one
\* that it has already is committed again without effect.
Upload ==
    /\ phase = "sync" /\ uploaded < sending
    /\ stored' = stored \cup outq[uploaded + 1]
    /\ uploaded' = uploaded + 1
    /\ UNCHANGED <<host, state, control, phase, scan, outq, sending, ever, bounds>>

\* A verb comes back after a payload of the stream.  scan-now and scan-target clear both
\* flags, scan-resume only SCAN_PAUSE; SCAN_CANCEL stays set for the scans that follow.
ReceiveVerb(v) ==
    /\ phase = "sync" /\ uploaded > 0
    /\ verbs < MaxVerbs /\ verbs' = verbs + 1
    /\ hold' = CASE v \in {"scan-now", "scan-target"} -> "none"
                 [] v = "scan-cancel" -> "cancel"
                 [] v = "scan-pause" -> IF hold = "cancel" THEN "cancel" ELSE "pause"
                 [] v = "scan-resume" -> IF hold = "cancel" THEN "cancel" ELSE "none"
    /\ roots' \in IF v = "scan-target" THEN SUBSET Files ELSE {roots}
    /\ UNCHANGED <<host, state, phase, scan, outq, sync, stored, ever, faults, crashes>>

StreamEnds_BeforeUpload ==
    /\ phase = "sync"
    /\ phase' = "delete"
    /\ UNCHANGED <<host, state, control, scan, outq, sync, stored, ever, bounds>>

\* The stream has ended without error and the reports are acknowledged.
StreamEnds ==
    /\ phase = "sync" /\ uploaded = sending
    /\ phase' = "delete"
    /\ UNCHANGED <<host, state, control, scan, outq, sync, stored, ever, bounds>>

\* delete_payload, one payload after the other.
DeletePayload ==
    /\ phase = "delete" /\ sending > 0
    /\ outq' = Tail(outq)
    /\ sending' = sending - 1
    /\ UNCHANGED <<host, state, control, phase, scan, uploaded, stored, ever, bounds>>

SyncDone ==
    /\ phase = "delete" /\ sending = 0
    /\ phase' = "wait"
    /\ UNCHANGED <<host, state, control, scan, outq, sync, stored, ever, bounds>>

\* An error anywhere before the deletions: the queue keeps every payload.
SyncDeferred ==
    /\ phase = "sync"
    /\ faults < MaxFaults /\ faults' = faults + 1
    /\ phase' = "wait"
    /\ UNCHANGED <<host, state, control, scan, outq, sync, stored, ever, verbs, crashes>>

NextLoop ==
    /\ phase = "wait"
    /\ phase' = "start"
    /\ sending' = 0 /\ uploaded' = 0
    /\ UNCHANGED <<host, state, control, scan, outq, stored, ever, bounds>>

\* The agent stops anywhere (collect and the report writers return errors that
\* end the process) and is started again, its flags cleared.
Crash ==
    /\ crashes < MaxCrashes /\ crashes' = crashes + 1
    /\ phase' = "start"
    /\ hold' = "none" /\ roots' = Files
    /\ todo' = {} /\ seen' = {} /\ found' = {}
    /\ sending' = 0 /\ uploaded' = 0
    /\ UNCHANGED <<host, state, outq, stored, ever, verbs, faults>>

-----------------------------------------------------------------------------
Loop ==
    \/ StartScan \/ (\E f \in Files : ScanFile(f)) \/ EndWalk \/ EnqueuePayload
    \/ Upload \/ StreamEnds \/ DeletePayload \/ SyncDone \/ NextLoop

Next ==
    \/ \E f \in Files : Edit(f) \/ Remove(f) \/ CacheExpires(f)
    \/ Loop
    \/ \E v \in Verbs : ReceiveVerb(v)
    \/ SyncDeferred
    \/ Crash

Spec == Init /\ [][Next]_vars

\* The loop is scheduled (one that waits in scan_checkpoint has no step to take), and
\* cache rows grow old.
FairSpec ==
    /\ Spec /\ WF_vars(Loop)
    /\ \A f \in Files : WF_vars(CacheExpires(f))

-----------------------------------------------------------------------------
(* Properties.                                                             *)

\* Every variable keeps its shape.
TypeOK ==
    /\ disk \in [Files -> 0..MaxVersion]
    /\ cache \in [Files -> 0..MaxVersion]
    /\ fresh \in [Files -> BOOLEAN]
    /\ hold \in Holds /\ roots \in SUBSET Files
    /\ phase \in Phases
    /\ todo \in SUBSET Files /\ seen \in SUBSET Files
    /\ found \in SUBSET Finding
    /\ outq \in Seq(SUBSET Finding)
    /\ sending \in 0..Len(outq)
    /\ uploaded \in 0..BatchLimit
    /\ stored \in SUBSET Finding /\ ever \in SUBSET Finding
    /\ verbs \in Nat /\ faults \in Nat /\ crashes \in Nat

Queued == UNION {outq[i] : i \in 1..Len(outq)}

\* A finding that was committed to the offline queue is still there or has been
\* committed by the controller, whatever fails or crashes in between: a payload
\* is deleted only after the upload of all of them was acknowledged.
NothingQueuedIsLost == ever \subseteq stored \cup Queued

\* A file the next scan would skip has its finding on the controller, in the queue, or
\* in the scan that is running, whatever targeted scans, cancelled scans and failed
\* syncs there are (source.rs:347: "coverage stays complete").  The claim stops at a
\* crash in the middle of a scan: scan_state is committed before the payload is queued.
CoverageIsComplete ==
    crashes = 0 =>
        \A f \in Files :
            (disk[f] # 0 /\ UnchangedAndFresh(f)) =>
                <<f, disk[f]>> \in stored \cup Queued \cup found

\* Every content that stays on disk reaches the controller, crashes included (the cache
\* row expires and the file is parsed again), unless the agent reads a scan-pause or a
\* scan-cancel.  Either ends the incremental scan until a verb takes it back: the
\* cancelled scans upload nothing, and the paused agent does not even sync.
ContentIsReported ==
    \A f \in Files : \A v \in Versions :
        (disk[f] = v /\ hold = "none")
            ~> (<<f, v>> \in stored \/ disk[f] # v \/ hold # "none")
=============================================================================
