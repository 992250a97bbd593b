-------------------------- MODULE FindingLifecycle --------------------------
(***************************************************************************)
(* The life of a finding in the controller's tables (store/store.go):      *)
(* telemetry inserts or refreshes it, an operator closes it, telemetry     *)
(* reopens it, retention purges it.                                        *)
(*                                                                         *)
(* A finding is identified by (asset_ref, algorithm, policy_rule_id), here *)
(* a key.  Agents queue their payloads offline and send a payload again    *)
(* when a sync breaks, so payloads arrive late, repeatedly and in any      *)
(* order (TelemetryQueue).  InsertTelemetry locks the row of a finding     *)
(* with its upsert and is one step; UpdateFindingStatus reads the row      *)
(* without a lock and is two.  The broadcasts are in EventHub.             *)
(***************************************************************************)
EXTENDS Naturals, Sequences, FiniteSets

CONSTANTS
    Hosts,
    Keys,           \* (asset_ref, algorithm, policy_rule_id)
    Ops,            \* status requests in progress at the same time
    NoRecord,       \* no row, no request
    MaxScans,       \* scans in a behaviour
    BulkUpdateMax,  \* bulkUpdateMax
    MaxUpdates,     \* findings in the status requests of a behaviour
    MaxRetentions   \* retention purges in a behaviour

Statuses == {"open", "accepted_risk", "false_positive", "remediated"}
Closed   == {"remediated", "accepted_risk"}

\* finding_id: a uuid drawn by the scan that found it
Ids == (1 .. MaxScans) \X Keys

FindingRow   == [id : Ids, host : Hosts, status : Statuses, tel : 1 .. MaxScans, reopens : Nat]

ASSUME LifecycleAssumption ==
    /\ MaxScans \in Nat /\ MaxUpdates \in Nat /\ MaxRetentions \in Nat /\ BulkUpdateMax \in Nat
    /\ NoRecord \notin Statuses /\ NoRecord \notin FindingRow

VARIABLES
    scan,           \* the scans so far: host and keys found
    queued,         \* scans whose payload an agent may still send
    telemetry,      \* telemetry_payloads: scan numbers, oldest first
    row,            \* crypto_findings
    events,         \* finding_lifecycle_events of each finding_id, as committed
    op,             \* status requests: the findings left, the status read of the first
    verdict,        \* history: the status an operator last gave to the finding
    updates, retentions

lifecycleVars == <<scan, queued, telemetry, row, events, op, verdict,
          updates, retentions>>

\* A finding of a request and the status it asks for, valid or not
Items == [id : Ids, to : Statuses \cup {"closed"}]

Event == [type : {"status_change", "reopened"}, from : Statuses, to : Statuses]

InTable(s) == \E i \in 1 .. Len(telemetry) : telemetry[i] = s

LifecycleInit ==
    /\ scan = <<>> /\ queued = {} /\ telemetry = <<>>
    /\ row = [k \in Keys |-> NoRecord]
    /\ events = [id \in Ids |-> <<>>]
    /\ op = [o \in Ops |-> NoRecord]
    /\ verdict = [k \in Keys |-> NoRecord]
    /\ updates = 0 /\ retentions = 0

-----------------------------------------------------------------------------
(* The agents                                                              *)

\* A scan of a host finds some of the keys and its payload is queued.
Scan(h, found) ==
    /\ Len(scan) < MaxScans
    /\ scan' = Append(scan, [host |-> h, found |-> found])
    /\ queued' = queued \cup {Len(scan) + 1}
    /\ UNCHANGED <<telemetry, row, events, op, verdict, updates,
                   retentions>>

\* The sync that sent the payload is acknowledged.
Acked(s) ==
    /\ s \in queued /\ InTable(s)
    /\ queued' = queued \ {s}
    /\ UNCHANGED <<scan, telemetry, row, events, op, verdict, updates,
                   retentions>>

-----------------------------------------------------------------------------
(* InsertTelemetry                                                         *)

\* The upsert and the auto-reopen, for one finding of payload s
NewRow(s, k) == [id |-> <<s, k>>, host |-> scan[s].host, status |-> "open", tel |-> s, reopens |-> 0]

\* every status but open is reopened
Merged_Always(s, k) ==
    IF row[k] = NoRecord THEN NewRow(s, k)
    ELSE IF row[k].status = "open" THEN [row[k] EXCEPT !.tel = s]
    ELSE [row[k] EXCEPT !.status = "open", !.reopens = @ + 1]

Merged(s, k) ==
    IF row[k] = NoRecord THEN NewRow(s, k)
    ELSE CASE row[k].status = "open"   -> [row[k] EXCEPT !.tel = s]
           [] row[k].status \in Closed -> [row[k] EXCEPT !.status = "open", !.reopens = @ + 1]
           [] OTHER                    -> row[k]

Reopened(s) == {k \in scan[s].found : row[k] # NoRecord /\ row[k].status \in Closed}

InsertTelemetry_NoEvent(s) ==
    /\ s \in queued
    /\ telemetry' = IF InTable(s) THEN telemetry ELSE Append(telemetry, s)
    /\ row' = [k \in Keys |-> IF k \in scan[s].found THEN Merged(s, k) ELSE row[k]]
    /\ UNCHANGED <<scan, queued, events, op, verdict, updates, retentions>>

\* A payload that is in the table already is merged once more.
InsertTelemetry(s) ==
    /\ s \in queued
    /\ telemetry' = IF InTable(s) THEN telemetry ELSE Append(telemetry, s)
    /\ row' = [k \in Keys |-> IF k \in scan[s].found THEN Merged(s, k) ELSE row[k]]
    /\ events' = [id \in Ids |->
                    IF \E k \in Reopened(s) : row[k].id = id
                      THEN Append(events[id], [type |-> "reopened",
                             from |-> row[id[2]].status, to |-> "open"])
                      ELSE events[id]]
    /\ UNCHANGED <<scan, queued, op, verdict, updates, retentions>>

-----------------------------------------------------------------------------
(* Requests of operators                                                   *)

\* The items of a request are handled one by one; one that fails does not stop the rest.
Request(o, items) ==
    /\ op[o] = NoRecord /\ updates + Len(items) <= MaxUpdates
    /\ \A i \in 1 .. Len(items) : \E k \in Keys : row[k] # NoRecord /\ row[k].id = items[i].id
    /\ updates' = updates + Len(items)
    /\ op' = [op EXCEPT ![o] = [todo |-> items, from |-> NoRecord]]
    /\ UNCHANGED <<scan, queued, telemetry, row, events, verdict, retentions>>

\* PUT /api/findings/{id}/status
FindingStatus(o, item) == Request(o, <<item>>)

\* POST /api/findings/bulk-update, at most bulkUpdateMax findings
BulkUpdateFindings(o, items) == Len(items) <= BulkUpdateMax /\ Request(o, items)

NextItem(o) == IF Len(op[o].todo) = 1 THEN NoRecord
                                      ELSE [todo |-> Tail(op[o].todo), from |-> NoRecord]

\* any status will do
ReadStatus_Unvalidated(o) ==
    /\ op[o] # NoRecord /\ op[o].from = NoRecord
    /\ LET item == Head(op[o].todo)
           r == row[item.id[2]]
       IN  op' = [op EXCEPT ![o] = IF r # NoRecord /\ r.id = item.id
                                     THEN [@ EXCEPT !.from = r.status] ELSE NextItem(o)]
    /\ UNCHANGED <<scan, queued, telemetry, row, events, verdict, updates, retentions>>

\* UpdateFindingStatus refuses a status that is none of the four, and a finding that is
\* gone; of another it reads the status.
ReadStatus(o) ==
    /\ op[o] # NoRecord /\ op[o].from = NoRecord
    /\ LET item == Head(op[o].todo)
           r == row[item.id[2]]
       IN  op' = [op EXCEPT ![o] = IF item.to \in Statuses /\ r # NoRecord /\ r.id = item.id
                                     THEN [@ EXCEPT !.from = r.status] ELSE NextItem(o)]
    /\ UNCHANGED <<scan, queued, telemetry, row, events, verdict, updates, retentions>>

\* The row may have been purged by now: the event is recorded all the same.
WriteStatus(o) ==
    /\ op[o] # NoRecord /\ op[o].from # NoRecord
    /\ LET id == Head(op[o].todo).id
           k  == id[2]
           to == Head(op[o].todo).to
       IN  /\ events' = [events EXCEPT ![id] = Append(@,
                           [type |-> "status_change", from |-> op[o].from, to |-> to])]
           /\ IF row[k] # NoRecord /\ row[k].id = id
                THEN /\ row' = [row EXCEPT ![k].status = to]
                     /\ verdict' = [verdict EXCEPT ![k] = to]
                ELSE UNCHANGED <<row, verdict>>
    /\ op' = [op EXCEPT ![o] = NextItem(o)]
    /\ UNCHANGED <<scan, queued, telemetry, updates, retentions>>

-----------------------------------------------------------------------------
\* PurgeOldTelemetry: the n oldest payloads go, and with them (ON DELETE CASCADE)
\* the findings whose telemetry_id names one of them.  A finding is never older
\* than that payload, so the purge by updated_at removes no other.
PurgeFindings(n) ==
    /\ n <= Len(telemetry)
    /\ retentions < MaxRetentions /\ retentions' = retentions + 1
    /\ LET old == {telemetry[i] : i \in 1 .. n} IN
       /\ row' = [k \in Keys |->
                    IF row[k] # NoRecord /\ row[k].tel \in old THEN NoRecord ELSE row[k]]
       /\ verdict' = [k \in Keys |-> IF row'[k] = NoRecord THEN NoRecord ELSE verdict[k]]
    /\ telemetry' = SubSeq(telemetry, n + 1, Len(telemetry))
    /\ UNCHANGED <<scan, queued, events, op, updates>>

-----------------------------------------------------------------------------
LifecycleNext ==
    \/ \E h \in Hosts, found \in SUBSET Keys : Scan(h, found)
    \/ \E s \in queued : InsertTelemetry(s) \/ Acked(s)
    \/ \E o \in Ops :
         \/ \E i \in Items : FindingStatus(o, i)
         \/ \E i, j \in Items : BulkUpdateFindings(o, <<i, j>>)
         \/ ReadStatus(o) \/ WriteStatus(o)
    \/ \E n \in 1 .. MaxScans : PurgeFindings(n)

LifecycleSpec == LifecycleInit /\ [][LifecycleNext]_lifecycleVars

-----------------------------------------------------------------------------
(* Properties                                                              *)

\* Type invariant of the tables, with the foreign key telemetry_id: a finding in the table
\* has its payload there, although payloads are purged beside inserts that come late.
LifecycleTypeOK ==
    /\ queued \subseteq 1 .. Len(scan) /\ Len(scan) <= MaxScans
    /\ telemetry \in Seq(1 .. MaxScans)
    /\ \A k \in Keys : row[k] # NoRecord =>
         row[k] \in FindingRow /\ row[k].id[2] = k /\ InTable(row[k].tel)
    /\ \A id \in Ids : events[id] \in Seq(Event)

\* Every change of status leaves its event, in one transaction: the status of a
\* finding is the one its last committed event gave it, although requests that
\* overlap record stale from_status values, and reopen_count is the number of its
\* reopened events.  Events outlive a purged row, so a payload sent again after a purge
\* gives the finding a history that is not its own.
StatusIsExplained ==
    \A k \in Keys : retentions = 0 /\ row[k] # NoRecord =>
        LET e == events[row[k].id] IN
        /\ row[k].status = IF e = <<>> THEN "open" ELSE e[Len(e)].to
        /\ row[k].reopens = Cardinality({i \in 1 .. Len(e) : e[i].type = "reopened"})

\* A finding an operator has judged a false positive stays one until an operator says
\* otherwise or retention removes it, whatever is uploaded late or twice.
FalsePositiveSticks ==
    \A k \in Keys : verdict[k] = "false_positive" =>
        row[k] # NoRecord /\ row[k].status = "false_positive"
=============================================================================
