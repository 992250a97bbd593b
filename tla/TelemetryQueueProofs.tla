------------------------ MODULE TelemetryQueueProofs ------------------------
(***************************************************************************)
(* Proofs about the incremental scan and the offline queue, for any files, *)
(* any batch limit and any number of edits, failed syncs and crashes.      *)
(***************************************************************************)
EXTENDS TelemetryQueue, TLAPS

\* A sync takes at most a batch, uploads from the front, and deletes only what the
\* controller has committed.
SyncIsInOrder ==
    /\ sending <= BatchLimit
    /\ phase = "sync" => /\ uploaded <= sending
                         /\ \A i \in 1..uploaded : outq[i] \subseteq stored
    /\ phase = "delete" => \A i \in 1..sending : outq[i] \subseteq stored

\* Findings are in memory only between the walk and the enqueue.
FoundIsTransient == phase \notin {"walk", "report"} => found = {}

\* Until a crash, what scan_state knows and trusts has been found and is not lost.
CacheIsBacked ==
    crashes = 0 =>
        \A f \in Files : cache[f] # 0 /\ fresh[f] =>
            <<f, cache[f]>> \in stored \cup Queued \cup found

IndInv ==
    TypeOK /\ SyncIsInOrder /\ FoundIsTransient /\ NothingQueuedIsLost /\ CacheIsBacked

-----------------------------------------------------------------------------
(* The queue                                                               *)

\* A finding is queued when a payload of the queue holds it.
LEMMA QueuedMember ==
  ASSUME NEW x
  PROVE  /\ x \in Queued <=> \E i \in 1..Len(outq) : x \in outq[i]
         /\ x \in Queued' <=> \E i \in 1..Len(outq') : x \in outq'[i]
  BY DEF Queued

\* A payload appended to the queue joins what is queued and displaces nothing.
LEMMA AppendKeeps ==
  ASSUME outq \in Seq(SUBSET Finding), NEW payload \in SUBSET Finding,
         outq' = Append(outq, payload)
  PROVE  Queued \cup payload \subseteq Queued'
  <1>1. Len(outq') = Len(outq) + 1 /\ Len(outq) \in Nat
    OBVIOUS
  <1>2. \A i \in 1..Len(outq) : outq'[i] = outq[i]
    OBVIOUS
  <1>3. outq'[Len(outq) + 1] = payload
    OBVIOUS
  <1>4. ASSUME NEW x \in Queued PROVE x \in Queued'
    <2>1. PICK i \in 1..Len(outq) : x \in outq[i]
      BY <1>4, QueuedMember
    <2>2. i \in 1..Len(outq') /\ x \in outq'[i]
      BY <1>1, <1>2, <2>1
    <2> QED
      BY <2>2, QueuedMember
  <1>5. ASSUME NEW x \in payload PROVE x \in Queued'
    <2>1. Len(outq) + 1 \in 1..Len(outq')
      BY <1>1
    <2> QED
      BY <1>3, <2>1, QueuedMember
  <1> QED
    BY <1>4, <1>5

\* Deleting the first payload loses nothing that is not in it.
LEMMA TailKeeps ==
  ASSUME outq \in Seq(SUBSET Finding), Len(outq) > 0, outq' = Tail(outq)
  PROVE  /\ Len(outq') = Len(outq) - 1
         /\ \A i \in 1..Len(outq') : outq'[i] = outq[i + 1]
         /\ Queued \subseteq outq[1] \cup Queued'
  <1>1. outq # <<>> /\ Len(outq) \in Nat
    OBVIOUS
  <1>2. Len(outq') = Len(outq) - 1 /\ \A i \in 1..Len(outq') : outq'[i] = outq[i + 1]
    BY <1>1
  <1>3. ASSUME NEW x \in Queued, x \notin outq[1] PROVE x \in Queued'
    <2>1. PICK i \in 1..Len(outq) : x \in outq[i]
      BY <1>3, QueuedMember
    <2>2. i # 1
      BY <1>3, <2>1
    <2>3. i - 1 \in 1..Len(outq') /\ outq'[i - 1] = outq[i]
      BY <1>1, <1>2, <2>1, <2>2
    <2> QED
      BY <2>1, <2>3, QueuedMember
  <1> QED
    BY <1>2, <1>3

-----------------------------------------------------------------------------
(* The steps                                                               *)

\* The inductive invariant holds at the start.
LEMMA InitInv == Init => IndInv
  <1> SUFFICES ASSUME Init PROVE IndInv
    OBVIOUS
  <1> USE QueueAssumption DEF Init
  <1>1. TypeOK
    BY DEF TypeOK, Phases, Holds
  <1>2. SyncIsInOrder /\ FoundIsTransient
    BY DEF SyncIsInOrder, FoundIsTransient
  <1>3. NothingQueuedIsLost /\ CacheIsBacked
    BY DEF NothingQueuedIsLost, CacheIsBacked
  <1> QED
    BY <1>1, <1>2, <1>3 DEF IndInv

\* A step that leaves the queue, the cache and the sync alone and keeps the phase, or
\* leaves it for one without obligations, preserves the invariant.
LEMMA QuietInv ==
  ASSUME IndInv, TypeOK',
         UNCHANGED <<cache, outq, sync, stored, ever, found, crashes>>,
         \A f \in Files : fresh'[f] => fresh[f],
         phase' = phase \/ (phase' \in {"start", "wait"} /\ found = {})
  PROVE  IndInv'
  <1> USE DEF IndInv, sync
  <1>1. SyncIsInOrder'
    BY DEF SyncIsInOrder
  <1>2. FoundIsTransient'
    BY DEF FoundIsTransient
  <1>3. Queued' = Queued
    BY DEF Queued
  <1>4. NothingQueuedIsLost'
    BY <1>3 DEF NothingQueuedIsLost
  <1>5. CacheIsBacked'
    BY <1>3 DEF CacheIsBacked
  <1> QED
    BY <1>1, <1>2, <1>4, <1>5

\* What the host does to its files disturbs nothing.
LEMMA HostInv ==
  ASSUME IndInv, NEW f \in Files, Edit(f) \/ Remove(f) \/ CacheExpires(f)
  PROVE  IndInv'
  <1>1. TypeOK'
    <2> USE QueueAssumption
            DEF IndInv, TypeOK, Versions, state, scan, sync, bounds, host, control
    <2>1. CASE Edit(f)
      BY <2>1 DEF Edit
    <2>2. CASE Remove(f)
      BY <2>2 DEF Remove
    <2>3. CASE CacheExpires(f)
      BY <2>3 DEF CacheExpires
    <2> QED
      BY <2>1, <2>2, <2>3
  <1>2. /\ UNCHANGED <<cache, outq, sync, stored, ever, found, crashes, phase>>
        /\ \A g \in Files : fresh'[g] => fresh[g]
    BY DEF Edit, Remove, CacheExpires, state, scan, sync, bounds, host, control, IndInv,
              TypeOK
  <1> QED
    BY <1>1, <1>2, QuietInv

\* StartScan begins with nothing in memory.
LEMMA StartScanInv ==
  ASSUME IndInv, StartScan
  PROVE  IndInv'
  <1> USE QueueAssumption DEF IndInv, StartScan, host, state, sync, bounds
  <1>1. TypeOK'
    BY DEF TypeOK, Phases
  <1>2. found = {} /\ found' = {}
    BY DEF FoundIsTransient
  <1>3. SyncIsInOrder' /\ FoundIsTransient'
    BY <1>2 DEF SyncIsInOrder, FoundIsTransient
  <1>4. Queued' = Queued
    BY DEF Queued
  <1>5. NothingQueuedIsLost' /\ CacheIsBacked'
    BY <1>2, <1>4 DEF NothingQueuedIsLost, CacheIsBacked
  <1> QED
    BY <1>1, <1>3, <1>5

\* ScanFile records a file in scan_state together with its finding in memory.
LEMMA ScanFileInv ==
  ASSUME IndInv, NEW f \in Files, ScanFile(f)
  PROVE  IndInv'
  <1> USE QueueAssumption DEF IndInv, ScanFile, host, sync, bounds, control
  <1>1. Queued' = Queued
    BY DEF Queued
  <1>2. CASE UNCHANGED <<cache, fresh, found>>
    <2>1. TypeOK'
      BY <1>2 DEF TypeOK, state
    <2> QED
      BY <1>2, <2>1, QuietInv
  <1>3. CASE /\ disk[f] # 0
             /\ cache' = [cache EXCEPT ![f] = disk[f]]
             /\ fresh' = [fresh EXCEPT ![f] = TRUE]
             /\ found' = found \cup {<<f, disk[f]>>}
    <2>1. <<f, disk[f]>> \in Finding
      BY <1>3 DEF TypeOK, Finding, Versions
    <2>2. TypeOK'
      BY <1>3, <2>1 DEF TypeOK
    <2>3. SyncIsInOrder' /\ FoundIsTransient'
      BY DEF SyncIsInOrder, FoundIsTransient
    <2>4. NothingQueuedIsLost'
      BY <1>1 DEF NothingQueuedIsLost
    <2>5. CacheIsBacked'
      BY <1>1, <1>3 DEF CacheIsBacked, TypeOK
    <2> QED
      BY <2>2, <2>3, <2>4, <2>5
  <1> QED
    BY <1>2, <1>3 DEF state

\* Purging rows of scan_state takes nothing for granted.
LEMMA EndWalkInv ==
  ASSUME IndInv, EndWalk
  PROVE  IndInv'
  <1> USE QueueAssumption DEF IndInv, EndWalk, PurgeStale, host, sync, bounds, control
  <1>1. TypeOK'
    <2>1. fresh' \in [Files -> BOOLEAN]
      BY Zenon DEF TypeOK
    <2> QED
      BY <2>1 DEF TypeOK, Phases
  <1>2. SyncIsInOrder' /\ FoundIsTransient'
    BY DEF SyncIsInOrder, FoundIsTransient
  <1>3. Queued' = Queued
    BY DEF Queued
  <1>4. NothingQueuedIsLost'
    BY <1>3 DEF NothingQueuedIsLost
  <1>5. \A f \in Files : cache'[f] # 0 /\ fresh'[f] => fresh[f] /\ cache'[f] = cache[f]
    BY DEF TypeOK
  <1>6. CacheIsBacked'
    BY <1>3, <1>5 DEF CacheIsBacked
  <1> QED
    BY <1>1, <1>2, <1>4, <1>6

\* EnqueuePayload moves the findings from memory to the queue.
LEMMA EnqueueInv ==
  ASSUME IndInv, EnqueuePayload
  PROVE  IndInv'
  <1> USE QueueAssumption DEF IndInv, EnqueuePayload, host, state, bounds, control
  <1>1. outq \in Seq(SUBSET Finding) /\ found \in SUBSET Finding
    BY DEF TypeOK
  <1>2. outq' \in Seq(SUBSET Finding) /\ Len(outq') = Len(outq) + 1 /\ Len(outq) \in Nat
    BY <1>1
  <1>3. sending' \in 0..Len(outq') /\ sending' <= BatchLimit
    BY <1>2 DEF Smaller
  <1>4. TypeOK'
    BY <1>2, <1>3 DEF TypeOK, Phases
  <1>5. SyncIsInOrder' /\ FoundIsTransient'
    BY <1>3 DEF SyncIsInOrder, FoundIsTransient
  <1>6. Queued \cup found \subseteq Queued'
    BY <1>1, AppendKeeps
  <1>7. NothingQueuedIsLost' /\ CacheIsBacked'
    BY <1>6 DEF NothingQueuedIsLost, CacheIsBacked
  <1> QED
    BY <1>4, <1>5, <1>7

\* Upload adds the next payload to what the controller has committed.
LEMMA UploadInv ==
  ASSUME IndInv, Upload
  PROVE  IndInv'
  <1> USE QueueAssumption DEF IndInv, Upload, host, state, scan, bounds, control
  <1>1. uploaded + 1 \in 1..Len(outq) /\ outq[uploaded + 1] \in SUBSET Finding
    BY DEF TypeOK
  <1>2. TypeOK'
    BY <1>1 DEF TypeOK, SyncIsInOrder
  <1>3. SyncIsInOrder'
    BY <1>1 DEF SyncIsInOrder, TypeOK
  <1>4. FoundIsTransient'
    BY DEF FoundIsTransient
  <1>5. Queued' = Queued
    BY DEF Queued
  <1>6. NothingQueuedIsLost' /\ CacheIsBacked'
    BY <1>5 DEF NothingQueuedIsLost, CacheIsBacked
  <1> QED
    BY <1>2, <1>3, <1>4, <1>6

\* The stream ends only when every payload taken was uploaded.
LEMMA StreamEndsInv ==
  ASSUME IndInv, StreamEnds
  PROVE  IndInv'
  <1> USE QueueAssumption DEF IndInv, StreamEnds, host, state, scan, sync, bounds, control
  <1>1. TypeOK'
    BY DEF TypeOK, Phases
  <1>2. SyncIsInOrder' /\ FoundIsTransient'
    BY DEF SyncIsInOrder, FoundIsTransient
  <1>3. Queued' = Queued
    BY DEF Queued
  <1>4. NothingQueuedIsLost' /\ CacheIsBacked'
    BY <1>3 DEF NothingQueuedIsLost, CacheIsBacked
  <1> QED
    BY <1>1, <1>2, <1>4

\* A verb changes flags, which no table depends on.
LEMMA VerbInv ==
  ASSUME IndInv, NEW v \in Verbs, ReceiveVerb(v)
  PROVE  IndInv'
  <1>1. hold' \in Holds
    BY Zenon DEF ReceiveVerb, Verbs, Holds
  <1>2. roots' \in SUBSET Files
    BY DEF ReceiveVerb, IndInv, TypeOK
  <1>3. /\ UNCHANGED <<disk, cache, fresh, phase, todo, seen, found, outq, sending,
                        uploaded, stored, ever, faults, crashes>>
        /\ verbs' = verbs + 1
    BY Zenon DEF ReceiveVerb, host, state, scan, sync
  <1>4. TypeOK'
    BY <1>1, <1>2, <1>3 DEF IndInv, TypeOK
  <1>5. UNCHANGED <<cache, outq, sync, stored, ever, found, crashes>>
    BY <1>3 DEF sync
  <1> QED
    BY <1>3, <1>4, <1>5, QuietInv

\* DeletePayload deletes what the controller has committed.
LEMMA DeleteInv ==
  ASSUME IndInv, DeletePayload
  PROVE  IndInv'
  <1> USE QueueAssumption DEF IndInv, DeletePayload, host, state, scan, bounds, control
  <1>1. outq \in Seq(SUBSET Finding) /\ Len(outq) > 0 /\ sending \in 1..Len(outq)
    BY DEF TypeOK
  <1>2. /\ Len(outq') = Len(outq) - 1
        /\ \A i \in 1..Len(outq') : outq'[i] = outq[i + 1]
        /\ Queued \subseteq outq[1] \cup Queued'
    BY <1>1, TailKeeps
  <1>3. outq' \in Seq(SUBSET Finding)
    BY <1>1
  <1>4. sending' \in 0..Len(outq')
    BY <1>1, <1>2
  <1>5. TypeOK'
    BY <1>3, <1>4 DEF TypeOK
  <1>6. outq[1] \subseteq stored
    BY <1>1 DEF SyncIsInOrder
  <1>7. SyncIsInOrder' /\ FoundIsTransient'
    BY <1>1, <1>2 DEF SyncIsInOrder, FoundIsTransient
  <1>8. NothingQueuedIsLost' /\ CacheIsBacked'
    BY <1>2, <1>6 DEF NothingQueuedIsLost, CacheIsBacked
  <1> QED
    BY <1>5, <1>7, <1>8

\* The end of a sync, a failed one and the next round of the loop touch no table.
LEMMA RoundInv ==
  ASSUME IndInv, SyncDone \/ SyncDeferred \/ NextLoop
  PROVE  IndInv'
  <1> USE QueueAssumption DEF IndInv, host, state, scan, sync, bounds, control
  <1>1. found = {}
    BY DEF SyncDone, SyncDeferred, NextLoop, FoundIsTransient
  <1>2. CASE SyncDone
    <2>1. TypeOK'
      BY <1>2 DEF SyncDone, TypeOK, Phases
    <2> QED
      BY <1>1, <1>2, <2>1, QuietInv DEF SyncDone
  <1>3. CASE SyncDeferred
    <2>1. TypeOK'
      BY <1>3 DEF SyncDeferred, TypeOK, Phases
    <2> QED
      BY <1>1, <1>3, <2>1, QuietInv DEF SyncDeferred
  <1>4. CASE NextLoop
    <2> USE <1>4 DEF NextLoop
    <2>1. TypeOK'
      BY DEF TypeOK, Phases
    <2>2. SyncIsInOrder' /\ FoundIsTransient'
      BY <1>1 DEF SyncIsInOrder, FoundIsTransient
    <2>3. Queued' = Queued
      BY DEF Queued
    <2>4. NothingQueuedIsLost' /\ CacheIsBacked'
      BY <2>3 DEF NothingQueuedIsLost, CacheIsBacked
    <2> QED
      BY <2>1, <2>2, <2>4
  <1> QED
    BY <1>2, <1>3, <1>4

\* A crash forgets what was in memory and touches no table.
LEMMA CrashInv ==
  ASSUME IndInv, Crash
  PROVE  IndInv'
  <1> USE QueueAssumption DEF IndInv, Crash, host, state
  <1>1. TypeOK'
    BY DEF TypeOK, Phases, Holds
  <1>2. SyncIsInOrder' /\ FoundIsTransient'
    BY DEF SyncIsInOrder, FoundIsTransient
  <1>3. Queued' = Queued
    BY DEF Queued
  <1>4. crashes' # 0
    BY DEF TypeOK
  <1>5. NothingQueuedIsLost' /\ CacheIsBacked'
    BY <1>3, <1>4 DEF NothingQueuedIsLost, CacheIsBacked
  <1> QED
    BY <1>1, <1>2, <1>5

\* Every step preserves the inductive invariant.
LEMMA NextInv == IndInv /\ [Next]_vars => IndInv'
  <1> SUFFICES ASSUME IndInv, [Next]_vars PROVE IndInv'
    OBVIOUS
  <1>1. CASE Next
    BY <1>1, HostInv, StartScanInv, ScanFileInv, EndWalkInv, EnqueueInv, UploadInv,
       StreamEndsInv, VerbInv, DeleteInv, RoundInv, CrashInv
       DEF Next, Loop
  <1>2. CASE UNCHANGED vars
    <2>1. TypeOK'
      BY <1>2 DEF IndInv, TypeOK, vars
    <2> QED
      BY <1>2, <2>1, QuietInv DEF vars, sync
  <1> QED
    BY <1>1, <1>2

\* The invariant holds throughout.
LEMMA Invariance == Spec => []IndInv
  BY InitInv, NextInv, PTL DEF Spec

-----------------------------------------------------------------------------
\* Every variable keeps its shape; in particular a sync never counts past the queue.
THEOREM TypeCorrect == Spec => []TypeOK
  BY Invariance, PTL DEF IndInv

\* A finding that was ever in telemetry_queue is still there or was committed by the
\* controller, whatever fails and crashes (enqueue_payload, sync_once, delete_payload).
THEOREM QueueLosesNothing == Spec => []NothingQueuedIsLost
  BY Invariance, PTL DEF IndInv

\* Until a crash, a file the next scan would skip has its finding on the controller, in
\* the queue or in the scan that is running, whatever targeted scans, cancelled scans and
\* failed syncs there were (the incremental scan of source.rs).
THEOREM CoverageComplete == Spec => []CoverageIsComplete
  <1>1. IndInv => CoverageIsComplete
    BY DEF IndInv, CacheIsBacked, CoverageIsComplete, UnchangedAndFresh
  <1> QED
    BY <1>1, Invariance, PTL
=============================================================================
