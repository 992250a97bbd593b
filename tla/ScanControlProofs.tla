------------------------- MODULE ScanControlProofs --------------------------
(***************************************************************************)
(* Proofs about the scan loop and the scan-control verbs, for any verbs,   *)
(* any number of entries, of verbs posted and of faults.                   *)
(***************************************************************************)
EXTENDS ScanControl, TLAPS

\* A scan that runs with SCAN_CANCEL set began with it set and has processed nothing:
\* no verb arrives during the walk.
CancelPrecedesScan == phase = "scan" /\ cancel => walked = 0

\* Every scan-target verb applied has narrowed a scan, waits as the override, or has
\* been replaced by another or forgotten in a restart.
OverrideIsEarned == narrowed <= targets /\ (override => narrowed < targets)

\* The two halves of the type invariant
FlagsOK ==
    cancel \in BOOLEAN /\ pause \in BOOLEAN /\ override \in BOOLEAN /\ requested \in BOOLEAN

CountersOK ==
    /\ phase \in {"start", "scan", "upload", "sync", "wait"}
    /\ walked \in 0..NEntries
    /\ pending \in Seq(Verbs) /\ drained \in 0..Len(pending)
    /\ posted \in 0..MaxVerbs
    /\ targets \in Nat /\ narrowed \in Nat
    /\ faults \in 0..MaxFaults

IndInv == TypeOK /\ CancelPrecedesScan /\ AllOrNothing /\ OverrideIsEarned

-----------------------------------------------------------------------------
\* A fault is counted up to its bound.
LEMMA FaultCounted ==
  ASSUME faults \in 0..MaxFaults, Fault
  PROVE  faults' \in 0..MaxFaults
  BY ScanAssumption DEF Fault

\* Every verb leaves the flags Booleans and pays for the override it sets.
LEMMA ApplyFlags ==
  ASSUME TypeOK, OverrideIsEarned, NEW v, Apply(v), narrowed' = narrowed
  PROVE  /\ cancel' \in BOOLEAN /\ pause' \in BOOLEAN /\ override' \in BOOLEAN
         /\ targets' \in Nat
         /\ OverrideIsEarned'
  <1>1. cancel' \in BOOLEAN
    BY Zenon DEF TypeOK, Apply
  <1>2. pause' \in BOOLEAN
    BY Zenon DEF TypeOK, Apply
  <1>3. override' \in BOOLEAN
    BY Zenon DEF Apply
  <1>4. CASE v = "scan-target"
    BY <1>1, <1>2, <1>3, <1>4 DEF TypeOK, OverrideIsEarned, Apply
  <1>5. CASE v # "scan-target"
    <2>1. targets' = targets
      BY <1>5 DEF Apply, TypeOK
    <2>2. override' => override
      BY <1>5 DEF Apply
    <2> QED
      BY <1>1, <1>2, <1>3, <2>1, <2>2 DEF TypeOK, OverrideIsEarned
  <1> QED
    BY <1>4, <1>5

\* The verbs left when a sync has taken the oldest k are verbs of the operator.
LEMMA PendingType ==
  ASSUME TypeOK, NEW k \in 1..drained
  PROVE  /\ SubSeq(pending, k + 1, Len(pending)) \in Seq(Verbs)
         /\ Tail(pending) \in Seq(Verbs)
         /\ Len(Tail(pending)) = Len(pending) - 1
  <1>1. pending # <<>>
    BY DEF TypeOK
  <1>2. Tail(pending) \in Seq(Verbs) /\ Len(Tail(pending)) = Len(pending) - 1
    BY <1>1 DEF TypeOK
  <1>3. SubSeq(pending, k + 1, Len(pending)) \in Seq(Verbs)
    BY DEF TypeOK
  <1> QED
    BY <1>2, <1>3

\* A verb more in the queue.
LEMMA PostedType ==
  ASSUME TypeOK, NEW v \in Verbs
  PROVE  Append(pending, v) \in Seq(Verbs) /\ Len(Append(pending, v)) = Len(pending) + 1
  BY DEF TypeOK

\* The inductive invariant holds at the start.
LEMMA InitInv == Init => IndInv
  <1> SUFFICES ASSUME Init PROVE IndInv
    OBVIOUS
  <1>1. FlagsOK
    BY Zenon DEF Init, FlagsOK
  <1>2. CountersOK
    BY ScanAssumption DEF Init, CountersOK
  <1>3. TypeOK
    BY <1>1, <1>2, Zenon DEF TypeOK, FlagsOK, CountersOK
  <1> QED
    BY <1>3, ScanAssumption
       DEF Init, IndInv, CancelPrecedesScan, AllOrNothing, OverrideIsEarned

\* Every step preserves the inductive invariant.
LEMMA NextInv == IndInv /\ [Next]_vars => IndInv'
  <1> SUFFICES ASSUME IndInv, [Next]_vars PROVE IndInv'
    OBVIOUS
  <1> USE ScanAssumption DEF IndInv, flags
  <1>1. ASSUME NEW v \in Verbs, PostVerb(v) PROVE IndInv'
    <2>1. FlagsOK'
      BY <1>1, Zenon DEF PostVerb, TypeOK, FlagsOK
    <2>2. CountersOK'
      BY <1>1, PostedType DEF PostVerb, TypeOK, CountersOK
    <2>3. TypeOK'
      BY <2>1, <2>2, Zenon DEF TypeOK, FlagsOK, CountersOK
    <2> QED
      BY <1>1, <2>3 DEF PostVerb, CancelPrecedesScan, AllOrNothing, OverrideIsEarned
  <1>2. CASE StartScan
    <2>1. TypeOK'
      <3>1. FlagsOK'
        BY <1>2, Zenon DEF StartScan, TypeOK, FlagsOK
      <3>2. CountersOK'
        BY <1>2 DEF StartScan, TypeOK, CountersOK
      <3> QED
        BY <3>1, <3>2, Zenon DEF TypeOK, FlagsOK, CountersOK
    <2>2. OverrideIsEarned'
      BY <1>2 DEF StartScan, OverrideIsEarned, TypeOK
    <2> QED
      BY <1>2, <2>1, <2>2 DEF StartScan, CancelPrecedesScan, AllOrNothing
  <1>3. CASE WalkEntry
    BY <1>3 DEF WalkEntry, TypeOK, CancelPrecedesScan, AllOrNothing, OverrideIsEarned
  <1>4. CASE PausedPoll
    BY <1>4 DEF PausedPoll, vars, TypeOK, CancelPrecedesScan, AllOrNothing, OverrideIsEarned
  <1>5. CASE FinishScan
    BY <1>5 DEF FinishScan, TypeOK, CancelPrecedesScan, AllOrNothing, OverrideIsEarned
  <1>6. CASE ReceiveVerb
    <2>1. OverrideIsEarned' /\ TypeOK'
      <3>1. /\ cancel' \in BOOLEAN /\ pause' \in BOOLEAN /\ override' \in BOOLEAN
            /\ targets' \in Nat /\ OverrideIsEarned'
        BY <1>6, ApplyFlags DEF ReceiveVerb
      <3>2. FlagsOK'
        <4>1. requested' \in BOOLEAN
          BY <1>6, Zenon DEF ReceiveVerb, TypeOK
        <4> QED
          BY <3>1, <4>1, Zenon DEF FlagsOK
      <3>3. 1 \in 1..drained
        BY <1>6 DEF ReceiveVerb, TypeOK
      <3>4. pending' \in Seq(Verbs) /\ drained' \in 0..Len(pending')
        BY <1>6, <3>3, PendingType DEF ReceiveVerb, TypeOK
      <3>5. CountersOK'
        BY <1>6, <3>1, <3>4 DEF ReceiveVerb, TypeOK, CountersOK
      <3> QED
        BY <3>1, <3>2, <3>5, Zenon DEF TypeOK, FlagsOK, CountersOK
    <2> QED
      BY <1>6, <2>1 DEF ReceiveVerb, CancelPrecedesScan, AllOrNothing
  <1>7. CASE ReceiveUnmarked
    <2>1. OverrideIsEarned' /\ TypeOK'
      <3>1. /\ cancel' \in BOOLEAN /\ pause' \in BOOLEAN /\ override' \in BOOLEAN
            /\ targets' \in Nat /\ OverrideIsEarned'
        BY <1>7, ApplyFlags DEF ReceiveUnmarked, Deferred
      <3>2. FlagsOK'
        BY <1>7, <3>1, Zenon DEF ReceiveUnmarked, Deferred, FlagsOK
      <3>3. CountersOK'
        BY <1>7, <3>1, FaultCounted DEF ReceiveUnmarked, Deferred, TypeOK, CountersOK
      <3> QED
        BY <3>1, <3>2, <3>3, Zenon DEF TypeOK, FlagsOK, CountersOK
    <2> QED
      BY <1>7, <2>1 DEF ReceiveUnmarked, Deferred, CancelPrecedesScan, AllOrNothing
  <1>8. CASE LoseVerbs
    <2>1. FlagsOK'
      BY <1>8, Zenon DEF LoseVerbs, Deferred, TypeOK, FlagsOK
    <2>2. CountersOK'
      <3>1. pending' \in Seq(Verbs)
        BY <1>8, PendingType DEF LoseVerbs
      <3>2. drained' \in 0..Len(pending')
        BY <1>8, <3>1 DEF LoseVerbs, Deferred
      <3> QED
        BY <1>8, <3>1, <3>2, FaultCounted DEF LoseVerbs, Deferred, TypeOK, CountersOK
    <2>3. TypeOK'
      BY <2>1, <2>2, Zenon DEF TypeOK, FlagsOK, CountersOK
    <2> QED
      BY <1>8, <2>3
         DEF LoseVerbs, Deferred, TypeOK, CancelPrecedesScan, AllOrNothing, OverrideIsEarned
  <1>9. CASE SyncDone
    BY <1>9 DEF SyncDone, TypeOK, CancelPrecedesScan, AllOrNothing, OverrideIsEarned
  <1>10. CASE SyncDeferred
    <2>1. FlagsOK'
      BY <1>10, Zenon DEF SyncDeferred, Deferred, TypeOK, FlagsOK
    <2>2. CountersOK'
      BY <1>10, FaultCounted DEF SyncDeferred, Deferred, TypeOK, CountersOK
    <2>3. TypeOK'
      BY <2>1, <2>2, Zenon DEF TypeOK, FlagsOK, CountersOK
    <2> QED
      BY <1>10, <2>3
         DEF SyncDeferred, Deferred, TypeOK, CancelPrecedesScan, AllOrNothing, OverrideIsEarned
  <1>11. CASE IntervalElapsed
    BY <1>11 DEF IntervalElapsed, TypeOK, CancelPrecedesScan, AllOrNothing, OverrideIsEarned
  <1>12. CASE AgentRestarts
    <2>1. FlagsOK'
      BY <1>12, Zenon DEF AgentRestarts, TypeOK, FlagsOK
    <2>2. CountersOK'
      BY <1>12, FaultCounted DEF AgentRestarts, TypeOK, CountersOK
    <2>3. TypeOK'
      BY <2>1, <2>2, Zenon DEF TypeOK, FlagsOK, CountersOK
    <2> QED
      BY <1>12, <2>3
         DEF AgentRestarts, TypeOK, CancelPrecedesScan, AllOrNothing, OverrideIsEarned
  <1>13. CASE UNCHANGED vars
    BY <1>13 DEF vars, TypeOK, CancelPrecedesScan, AllOrNothing, OverrideIsEarned
  <1>14. CASE DrainVerbs
    <2>1. FlagsOK'
      BY <1>14, Zenon DEF DrainVerbs, TypeOK, FlagsOK
    <2>2. CountersOK'
      BY <1>14 DEF DrainVerbs, TypeOK, CountersOK
    <2>3. TypeOK'
      BY <2>1, <2>2, Zenon DEF TypeOK, FlagsOK, CountersOK
    <2> QED
      BY <1>14, <2>3
         DEF DrainVerbs, CancelPrecedesScan, AllOrNothing, OverrideIsEarned, TypeOK
  <1> QED
    BY <1>1, <1>2, <1>3, <1>4, <1>5, <1>6, <1>7, <1>8, <1>9, <1>10, <1>11, <1>12, <1>13,
       <1>14
       DEF Next, Loop

\* The invariant holds throughout.
LEMMA Invariance == Spec => []IndInv
  BY InitInv, NextInv, PTL DEF Spec

-----------------------------------------------------------------------------
\* Every variable keeps the type its Rust static or local has.
THEOREM TypeCorrect == Spec => []TypeOK
  BY Invariance, PTL DEF IndInv

\* A scan that has ended has processed every entry or none, whatever verbs and faults
\* there were (scan_checkpoint, sync_once).
THEOREM ScansAreWhole == Spec => []AllOrNothing
  BY Invariance, PTL DEF IndInv

\* No scan-target verb narrows two scans (take_scan_root_override).
THEOREM OverrideOnce == Spec => []OverrideIsOneShot
  <1>1. IndInv => OverrideIsOneShot
    BY DEF IndInv, TypeOK, OverrideIsEarned, OverrideIsOneShot
  <1> QED
    BY <1>1, Invariance, PTL
=============================================================================
