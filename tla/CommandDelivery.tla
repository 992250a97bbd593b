--------------------------- MODULE CommandDelivery --------------------------
(***************************************************************************)
(* How a command travels from the operator's POST to one managed host and  *)
(* how its result travels back.                                            *)
(*                                                                         *)
(* Two kinds of command share the path:                                    *)
(*   - migration commands wait in the controller's memory                  *)
(*     (Orchestrator.queues) and are recorded in migration_transactions;   *)
(*   - scan-control commands wait in the agent_commands table.             *)
(* Both are handed to the agent by the StreamTelemetry handler, after each *)
(* telemetry payload the agent uploads; the agent applies them while it    *)
(* reads the stream, and reports when the stream has ended                 *)
(* (ReportMigrationStatus).                                                *)
(*                                                                         *)
(* A session is one connection of the agent, with the handler goroutine    *)
(* that serves it.  The agent uses one at a time, but the handler of a     *)
(* connection that broke may still be running when the agent is back on    *)
(* the next one.  Every table row and queue is keyed by the host, so one   *)
(* host is modelled.                                                       *)
(***************************************************************************)
EXTENDS Naturals, Sequences

CONSTANTS
    MigCmds,        \* migration commands (uuids drawn by BuildCommand)
    ScanCmds,       \* scan-control commands (uuids drawn by agentEnqueueCommand)
    Sessions,       \* agent connections that may exist at the same time
    None,           \* no session, no command
    HalfOpen,       \* may a handler run on after its peer is gone?
    MaxPayloads,    \* telemetry payloads sent on one stream
    MaxFaults       \* failures (database, network, crash) in a behaviour

ASSUME DeliveryAssumption ==
    /\ MigCmds \cap ScanCmds = {}
    /\ None \notin Sessions
    /\ HalfOpen \in BOOLEAN
    /\ MaxPayloads \in Nat \ {0}
    /\ MaxFaults \in Nat

Cmds == MigCmds \cup ScanCmds

VARIABLES
    queue,          \* Orchestrator.queues[host]: in memory, oldest first
    rows,           \* migration_transactions.state
    acmds,          \* agent_commands.status
    post,           \* progress of the operator's request for each command
    pc,             \* where each session's handler is
    left,           \* payloads the session's stream still has to read
    batch,          \* migration commands its Drain returned, not yet sent
    abatch,         \* scan-control commands DrainAgentCommands returned
    cur,            \* the scan-control command being marked delivered
    wire,           \* commands sent on the session, not yet read by the agent
    inbox,          \* status reports sent on the session, not yet processed
    conn,           \* the session the agent is using
    waits,          \* what blocks the agent's only loop for ever: "no", the next
                    \* scan ("scan"), or a command it runs ("run")
    reports,        \* status reports the agent has built in this sync
    accepted,       \* history: migration commands in the order of Enqueue
    execs,          \* history: what MutationEngine.execute did, in order
    faults          \* failures so far

srvVars  == <<queue, rows, acmds, post>>
sessVars == <<pc, left, batch, abatch, cur, wire, inbox>>
agtVars  == <<conn, waits, reports>>
hisVars  == <<accepted, execs, faults>>
vars     == <<queue, rows, acmds, post, pc, left, batch, abatch, cur, wire,
              inbox, conn, waits, reports, accepted, execs, faults>>

Results   == {"Succeeded", "Failed"}
RowStates == {"none", "Pending"} \cup Results
CmdStates == {"none", "queued", "delivered", "executing", "completed"}
Stages    == {"idle", "recv", "drain", "insert", "send", "asend", "mark",
              "eof", "err", "report"}
Report    == [cmd : MigCmds, state : Results] \cup [cmd : ScanCmds, state : {"Applying"}]

Live(s) == conn = s

\* A handler whose peer is gone gets an error from its next call (the stream's
\* context is cancelled), unless the connection is only half open.
Runs(s) == Live(s) \/ HalfOpen

Fault == faults < MaxFaults /\ faults' = faults + 1

\* The agent can no longer take a step by itself: a paused scan waits for a verb
\* that only a sync brings, a command without a time limit does not return.
Stuck == waits = "run" \/ (conn = None /\ waits = "scan")

-----------------------------------------------------------------------------
(* The store's single-statement operations.                                *)

\* INSERT ... ON CONFLICT (command_id) DO NOTHING
InsertMigrationCommand(c) ==
    rows' = [rows EXCEPT ![c] = IF @ = "none" THEN "Pending" ELSE @]

InsertTelemetry_CompletesNothing == UNCHANGED acmds

InsertTelemetry_CompletesDelivered ==
    acmds' = [c \in ScanCmds |->
                 IF acmds[c] \in {"delivered", "executing"} THEN "completed"
                 ELSE acmds[c]]

\* The executing scan-control commands of the host are completed by any payload.
InsertTelemetry ==
    acmds' = [c \in ScanCmds |->
                 IF acmds[c] = "executing" THEN "completed" ELSE acmds[c]]

MarkAgentCommandDelivered(c) ==
    acmds' = [acmds EXCEPT ![c] = "delivered"]

UpdateMigrationStatus_AlwaysSucceeded(r) ==
    rows' = IF r.cmd \in MigCmds /\ rows[r.cmd] # "none"
              THEN [rows EXCEPT ![r.cmd] = "Succeeded"] ELSE rows

UpdateMigrationStatus_SuccessOnly(r) ==
    rows' = IF r.state = "Succeeded" /\ rows[r.cmd] # "none"
              THEN [rows EXCEPT ![r.cmd] = r.state] ELSE rows

\* The state is overwritten whatever it was; a command without a row is left
\* alone.
UpdateMigrationStatus(r) ==
    rows' = IF r.cmd \in MigCmds /\ rows[r.cmd] # "none"
              THEN [rows EXCEPT ![r.cmd] = r.state] ELSE rows

\* The second UPDATE of the same method.  Only scan-control commands are reported
\* as Applying.
UpdateCommandStatus(r) ==
    acmds' = IF r.cmd \in ScanCmds /\ acmds[r.cmd] # "none"
               THEN [acmds EXCEPT ![r.cmd] = "executing"] ELSE acmds

-----------------------------------------------------------------------------
(* The operator's requests.                                                *)

EnqueueMigration_Prepends(c) ==
    /\ post[c] = "new"
    /\ post' = [post EXCEPT ![c] = "enqueued"]
    /\ queue' = <<c>> \o queue
    /\ accepted' = Append(accepted, c)
    /\ UNCHANGED <<rows, acmds, sessVars, agtVars, execs, faults>>

\* POST /api/migrations, or applying an LLM suggestion: first the in-memory
\* queue ...
EnqueueMigration(c) ==
    /\ post[c] = "new"
    /\ post' = [post EXCEPT ![c] = "enqueued"]
    /\ queue' = Append(queue, c)
    /\ accepted' = Append(accepted, c)
    /\ UNCHANGED <<rows, acmds, sessVars, agtVars, execs, faults>>

\* ... then the row.
PersistMigration(c) ==
    /\ post[c] = "enqueued"
    /\ post' = [post EXCEPT ![c] = "done"]
    /\ InsertMigrationCommand(c)
    /\ UNCHANGED <<queue, acmds, sessVars, agtVars, hisVars>>

\* The insert fails: the operator gets an error, the command stays queued.
PersistFails(c) ==
    /\ post[c] = "enqueued"
    /\ post' = [post EXCEPT ![c] = "done"]
    /\ Fault
    /\ UNCHANGED <<queue, rows, acmds, sessVars, agtVars, accepted, execs>>

\* POST /api/agents/{id}/commands
EnqueueAgentCommand(c) ==
    /\ post[c] = "new"
    /\ post' = [post EXCEPT ![c] = "done"]
    /\ acmds' = [acmds EXCEPT ![c] = "queued"]
    /\ UNCHANGED <<queue, rows, sessVars, agtVars, hisVars>>

-----------------------------------------------------------------------------
(* StreamTelemetry, one payload after the other.                           *)

RecvPayload(s) ==
    /\ Runs(s) /\ pc[s] = "recv" /\ left[s] > 0
    /\ left' = [left EXCEPT ![s] = @ - 1]
    /\ InsertTelemetry
    /\ pc' = [pc EXCEPT ![s] = "drain"]
    /\ UNCHANGED <<queue, rows, post, batch, abatch, cur, wire, inbox,
                   agtVars, hisVars>>

Drain_KeepsQueue(s) ==
    /\ UNCHANGED queue
    /\ batch' = [batch EXCEPT ![s] = queue]

Drain_TakesHead(s) ==
    /\ queue' = <<>>
    /\ batch' = [batch EXCEPT ![s] = IF queue = <<>> THEN <<>> ELSE <<Head(queue)>>]

\* Orchestrator.Drain returns the whole queue and deletes it, under the lock.
Drain(s) ==
    /\ queue' = <<>>
    /\ batch' = [batch EXCEPT ![s] = queue]

DrainQueue(s) ==
    /\ Runs(s) /\ pc[s] = "drain"
    /\ Drain(s)
    /\ pc' = [pc EXCEPT ![s] = "insert"]
    /\ UNCHANGED <<rows, acmds, post, left, abatch, cur, wire, inbox,
                   agtVars, hisVars>>

InsertCommand_Skipped(s) ==
    /\ Runs(s) /\ pc[s] = "insert" /\ batch[s] # <<>>
    /\ pc' = [pc EXCEPT ![s] = "send"]
    /\ UNCHANGED <<srvVars, left, batch, abatch, cur, wire, inbox,
                   agtVars, hisVars>>

\* The row is inserted (again) before the command leaves the controller.
InsertCommand(s) ==
    /\ Runs(s) /\ pc[s] = "insert" /\ batch[s] # <<>>
    /\ InsertMigrationCommand(Head(batch[s]))
    /\ pc' = [pc EXCEPT ![s] = "send"]
    /\ UNCHANGED <<queue, acmds, post, left, batch, abatch, cur, wire, inbox,
                   agtVars, hisVars>>

\* stream.Send succeeds when the message is buffered: on a half-open
\* connection it goes nowhere.
Send(s, c) ==
    wire' = IF Live(s) THEN [wire EXCEPT ![s] = Append(@, c)] ELSE wire

SendCommand(s) ==
    /\ Runs(s) /\ pc[s] = "send"
    /\ Send(s, Head(batch[s]))
    /\ batch' = [batch EXCEPT ![s] = Tail(@)]
    /\ pc' = [pc EXCEPT ![s] = "insert"]
    /\ UNCHANGED <<srvVars, left, abatch, cur, inbox, agtVars, hisVars>>

\* The queued commands are read once; queued_at orders them, and the order in
\* which they are sent is left open here.
DrainAgentCommands(s) ==
    /\ Runs(s) /\ pc[s] = "insert" /\ batch[s] = <<>>
    /\ abatch' = [abatch EXCEPT ![s] = {c \in ScanCmds : acmds[c] = "queued"}]
    /\ pc' = [pc EXCEPT ![s] = "asend"]
    /\ UNCHANGED <<srvVars, left, batch, cur, wire, inbox, agtVars, hisVars>>

SendAgentCommand(s) ==
    /\ Runs(s) /\ pc[s] = "asend"
    /\ \E c \in abatch[s] :
           /\ Send(s, c)
           /\ cur' = [cur EXCEPT ![s] = c]
           /\ abatch' = [abatch EXCEPT ![s] = @ \ {c}]
    /\ pc' = [pc EXCEPT ![s] = "mark"]
    /\ UNCHANGED <<srvVars, left, batch, inbox, agtVars, hisVars>>

MarkDelivered(s) ==
    /\ Runs(s) /\ pc[s] = "mark"
    /\ MarkAgentCommandDelivered(cur[s])
    /\ cur' = [cur EXCEPT ![s] = None]
    /\ pc' = [pc EXCEPT ![s] = "asend"]
    /\ UNCHANGED <<queue, rows, post, left, batch, abatch, wire, inbox,
                   agtVars, hisVars>>

NextPayload(s) ==
    /\ Runs(s) /\ pc[s] = "asend" /\ abatch[s] = {}
    /\ pc' = [pc EXCEPT ![s] = "recv"]
    /\ UNCHANGED <<srvVars, left, batch, abatch, cur, wire, inbox,
                   agtVars, hisVars>>

\* io.EOF: every payload of the stream has been processed.
EndOfStream(s) ==
    /\ Runs(s) /\ pc[s] = "recv" /\ left[s] = 0
    /\ pc' = [pc EXCEPT ![s] = IF Live(s) THEN "eof" ELSE "idle"]
    /\ UNCHANGED <<srvVars, left, batch, abatch, cur, wire, inbox,
                   agtVars, hisVars>>

\* ReportMigrationStatus: one report.  The second UPDATE may fail alone: its error
\* is dropped.
ProcessReport(s) ==
    /\ Runs(s) /\ pc[s] = "report" /\ inbox[s] # <<>>
    /\ UpdateMigrationStatus(Head(inbox[s]))
    /\ \/ UpdateCommandStatus(Head(inbox[s])) /\ UNCHANGED faults
       \/ Fault /\ UNCHANGED acmds
    /\ inbox' = [inbox EXCEPT ![s] = Tail(@)]
    /\ UNCHANGED <<queue, post, pc, left, batch, abatch, cur, wire,
                   agtVars, accepted, execs>>

\* A report handler whose client is gone ends when its inbox is empty.
ReportsDone(s) ==
    /\ ~Live(s) /\ pc[s] = "report" /\ inbox[s] = <<>>
    /\ pc' = [pc EXCEPT ![s] = "idle"]
    /\ UNCHANGED <<srvVars, left, batch, abatch, cur, wire, inbox,
                   agtVars, hisVars>>

\* A call of the handler fails and it returns the error: what it had drained
\* and not sent, and the reports it had not read, are gone.  Noticing that the
\* peer has left is not a fault of its own.
HandlerFails(s) ==
    /\ pc[s] \notin {"idle", "eof", "err"}
    /\ IF Live(s) THEN Fault ELSE UNCHANGED faults
    /\ pc' = [pc EXCEPT ![s] = IF Live(s) THEN "err" ELSE "idle"]
    /\ batch' = [batch EXCEPT ![s] = <<>>]
    /\ abatch' = [abatch EXCEPT ![s] = {}]
    /\ cur' = [cur EXCEPT ![s] = None]
    /\ inbox' = [inbox EXCEPT ![s] = <<>>]
    /\ UNCHANGED <<srvVars, left, wire, agtVars, accepted, execs>>

-----------------------------------------------------------------------------
(* The agent: sync_once.                                                   *)

\* Register and open the stream with the pending payloads: at least the one
\* the main loop has just queued, after a scan that did not wait.
OpenStream(s, n) ==
    /\ conn = None /\ waits = "no" /\ pc[s] = "idle"
    /\ conn' = s
    /\ reports' = <<>>
    /\ pc' = [pc EXCEPT ![s] = "recv"]
    /\ left' = [left EXCEPT ![s] = n]
    /\ wire' = [wire EXCEPT ![s] = <<>>]
    /\ UNCHANGED <<srvVars, batch, abatch, cur, inbox, waits, hisVars>>

\* The agent reads one command and acts on it at once.  What a migration does
\* to the host is the subject of MutationEngine; what a scan-control verb does
\* to the agent is the subject of ScanControl: a scan-pause makes the next scan
\* wait, any other verb ends that.
Receive ==
    /\ conn # None /\ waits # "run" /\ wire[conn] # <<>>
    /\ LET c == Head(wire[conn]) IN
         \/ /\ c \in ScanCmds
            /\ reports' = Append(reports, [cmd |-> c, state |-> "Applying"])
            /\ waits' \in {"no", "scan"}
            /\ UNCHANGED execs
         \/ /\ c \in MigCmds
            /\ \E r \in Results :
                 /\ execs' = Append(execs, [cmd |-> c, state |-> r])
                 /\ reports' = Append(reports, [cmd |-> c, state |-> r])
            /\ UNCHANGED waits
    /\ wire' = [wire EXCEPT ![conn] = Tail(@)]
    /\ UNCHANGED <<srvVars, pc, left, batch, abatch, cur, inbox, conn,
                   accepted, faults>>

\* The validate or reload command of a migration does not return (run has no
\* time limit): the agent is still at this command.
RunHangs ==
    /\ conn # None /\ waits # "run" /\ wire[conn] # <<>>
    /\ Head(wire[conn]) \in MigCmds
    /\ Fault
    /\ waits' = "run"
    /\ UNCHANGED <<srvVars, sessVars, conn, reports, accepted, execs>>

\* The stream ended without error: report, or finish when there is nothing to
\* report.
StreamEnds ==
    /\ conn # None /\ waits # "run" /\ pc[conn] = "eof" /\ wire[conn] = <<>>
    /\ IF reports = <<>>
         THEN /\ conn' = None
              /\ pc' = [pc EXCEPT ![conn] = "idle"]
              /\ UNCHANGED inbox
         ELSE /\ pc' = [pc EXCEPT ![conn] = "report"]
              /\ inbox' = [inbox EXCEPT ![conn] = reports]
              /\ UNCHANGED conn
    /\ UNCHANGED <<srvVars, left, batch, abatch, cur, wire, waits, reports, hisVars>>

\* The acknowledgement of the reports: the sync is complete.
ReportAcked ==
    /\ conn # None /\ pc[conn] = "report" /\ inbox[conn] = <<>>
    /\ conn' = None
    /\ reports' = <<>>
    /\ pc' = [pc EXCEPT ![conn] = "idle"]
    /\ UNCHANGED <<srvVars, left, batch, abatch, cur, wire, inbox, waits, hisVars>>

\* The agent gives up the sync: it read the handler's error (and whatever of
\* the wire it had not read is dropped with the connection).
SyncDeferred ==
    /\ conn # None /\ waits # "run" /\ pc[conn] = "err"
    /\ conn' = None
    /\ reports' = <<>>
    /\ wire' = [wire EXCEPT ![conn] = <<>>]
    /\ pc' = [pc EXCEPT ![conn] = "idle"]
    /\ UNCHANGED <<srvVars, left, batch, abatch, cur, inbox, waits, hisVars>>

\* The connection breaks or the agent restarts in the middle of a sync: the
\* commands in flight and the reports not sent are gone, the handler stays.
\* A restart also ends whatever the agent waited for.
SyncBreaks ==
    /\ conn # None
    /\ Fault
    /\ conn' = None
    /\ waits' \in {"no", waits} \ {"run"}
    /\ reports' = <<>>
    /\ wire' = [wire EXCEPT ![conn] = <<>>]
    /\ pc' = [pc EXCEPT ![conn] = IF @ \in {"eof", "err"} THEN "idle" ELSE @]
    /\ UNCHANGED <<srvVars, left, batch, abatch, cur, inbox, accepted, execs>>

\* Somebody restarts an agent that is stuck: what it waited for lived in memory.
AgentRestarts ==
    /\ Stuck
    /\ conn' = None
    /\ waits' = "no"
    /\ reports' = <<>>
    /\ wire' = [s \in Sessions |-> IF Live(s) THEN <<>> ELSE wire[s]]
    /\ pc' = [s \in Sessions |->
                 IF Live(s) /\ pc[s] \in {"eof", "err"} THEN "idle" ELSE pc[s]]
    /\ UNCHANGED <<srvVars, left, batch, abatch, cur, inbox, hisVars>>

\* The controller stops: its memory is lost, the database is not.
ServerRestarts ==
    /\ Fault
    /\ queue' = <<>>
    /\ post' = [c \in Cmds |-> IF post[c] = "enqueued" THEN "done" ELSE post[c]]
    /\ pc' = [s \in Sessions |-> IF Live(s) THEN "err" ELSE "idle"]
    /\ batch' = [s \in Sessions |-> <<>>]
    /\ abatch' = [s \in Sessions |-> {}]
    /\ inbox' = [s \in Sessions |-> <<>>]
    /\ cur' = [s \in Sessions |-> None]
    /\ UNCHANGED <<rows, acmds, left, wire, agtVars, accepted, execs>>

-----------------------------------------------------------------------------
Init ==
    /\ queue = <<>>
    /\ rows = [c \in MigCmds |-> "none"]
    /\ acmds = [c \in ScanCmds |-> "none"]
    /\ post = [c \in Cmds |-> "new"]
    /\ pc = [s \in Sessions |-> "idle"]
    /\ left = [s \in Sessions |-> 0]
    /\ batch = [s \in Sessions |-> <<>>]
    /\ abatch = [s \in Sessions |-> {}]
    /\ cur = [s \in Sessions |-> None]
    /\ wire = [s \in Sessions |-> <<>>]
    /\ inbox = [s \in Sessions |-> <<>>]
    /\ conn = None
    /\ waits = "no"
    /\ reports = <<>>
    /\ accepted = <<>>
    /\ execs = <<>>
    /\ faults = 0

Handler(s) ==
    \/ RecvPayload(s) \/ DrainQueue(s) \/ InsertCommand(s) \/ SendCommand(s)
    \/ DrainAgentCommands(s) \/ SendAgentCommand(s) \/ MarkDelivered(s)
    \/ NextPayload(s) \/ EndOfStream(s) \/ ProcessReport(s) \/ ReportsDone(s)

Agent ==
    \/ \E s \in Sessions, n \in 1..MaxPayloads : OpenStream(s, n)
    \/ Receive \/ StreamEnds \/ ReportAcked \/ SyncDeferred

Operator ==
    \/ \E c \in MigCmds :
           EnqueueMigration(c) \/ PersistMigration(c) \/ PersistFails(c)
    \/ \E c \in ScanCmds : EnqueueAgentCommand(c)

Next ==
    \/ Operator
    \/ \E s \in Sessions : Handler(s) \/ HandlerFails(s)
    \/ Agent
    \/ RunHangs \/ SyncBreaks \/ AgentRestarts
    \/ ServerRestarts

Spec == Init /\ [][Next]_vars

\* The controller's goroutines and the agent's loop are scheduled, while the loop
\* does not wait for a verb or a command (Stuck); a handler whose peer is gone
\* finds out.  Nothing obliges an operator to act or a failure to happen.
Fairness ==
    /\ WF_vars(Agent)
    /\ \A s \in Sessions :
           WF_vars(Handler(s)) /\ WF_vars(~Live(s) /\ HandlerFails(s))

FairSpec == Spec /\ Fairness

-----------------------------------------------------------------------------
(* Properties.                                                             *)

\* Every variable keeps the shape the Go and Rust types give it.
TypeOK ==
    /\ queue \in Seq(MigCmds)
    /\ rows \in [MigCmds -> RowStates]
    /\ acmds \in [ScanCmds -> CmdStates]
    /\ post \in [Cmds -> {"new", "enqueued", "done"}]
    /\ pc \in [Sessions -> Stages]
    /\ left \in [Sessions -> Nat]
    /\ batch \in [Sessions -> Seq(MigCmds)]
    /\ abatch \in [Sessions -> SUBSET ScanCmds]
    /\ cur \in [Sessions -> ScanCmds \cup {None}]
    /\ wire \in [Sessions -> Seq(Cmds)]
    /\ inbox \in [Sessions -> Seq(Report)]
    /\ conn \in Sessions \cup {None}
    /\ waits \in {"no", "scan", "run"}
    /\ reports \in Seq(Report)
    /\ accepted \in Seq(MigCmds)
    /\ execs \in Seq([cmd : MigCmds, state : Results])
    /\ faults \in Nat

In(c, q) == \E i \in 1..Len(q) : q[i] = c

\* No migration command is executed twice on the host, whatever breaks and
\* even when the handler of a dead connection runs beside the new one
\* (Orchestrator.Drain removes what it hands out).
AtMostOnce ==
    \A i, j \in 1..Len(execs) : execs[i].cmd = execs[j].cmd => i = j

\* The host is never changed by a command the controller has no row for, even
\* when the insert of the operator's request failed (StreamTelemetry inserts
\* the row again before it sends).
ExecutedIsRecorded ==
    \A i \in 1..Len(execs) : rows[execs[i].cmd] # "none"

\* A row shows Succeeded or Failed only when the agent really obtained that
\* result for that command.
RecordIsTruthful ==
    \A c \in MigCmds : rows[c] \in Results =>
        In([cmd |-> c, state |-> rows[c]], execs)

\* As long as nothing has failed, every accepted command is still waiting, in
\* a handler, on the wire, or executed: the hand-over itself loses nothing.
NoSilentLoss ==
    faults = 0 =>
        \A i \in 1..Len(accepted) :
            LET c == accepted[i] IN
            \/ In(c, queue)
            \/ \E s \in Sessions : In(c, batch[s]) \/ In(c, wire[s])
            \/ \E k \in 1..Len(execs) : execs[k].cmd = c

\* The whole path is a lossy first-in first-out channel with an exact record.
Channel == INSTANCE CommandChannel
             WITH Cmds <- MigCmds, done <- execs, record <- rows
ChannelSpec == Channel!Spec

\* A scan-control command shown as completed is shown in an earlier status again
\* only by the handler of a connection that is gone, which marks or reports it
\* late (MarkAgentCommandDelivered and UpdateMigrationStatus overwrite any status).
CompletedStays ==
    [][\A c \in ScanCmds : acmds[c] = "completed" =>
           \/ acmds'[c] = "completed"
           \/ \E s \in Sessions : ~Live(s) /\ (MarkDelivered(s) \/ ProcessReport(s))]_vars

\* Once failures have stopped, a migration command waiting in the queue
\* reaches a terminal state in migration_transactions, unless the agent's loop
\* is stuck.
QueuedIsSettled ==
    \A c \in MigCmds :
        (faults = MaxFaults /\ In(c, queue)) ~> (rows[c] \in Results \/ Stuck)

\* Once failures have stopped, a queued scan-control command is delivered,
\* reported and completed, unless the agent's loop is stuck: a scan-pause that is
\* obeyed is never completed.
ScanCommandCompletes ==
    \A c \in ScanCmds :
        (faults = MaxFaults /\ acmds[c] = "queued") ~> (acmds[c] = "completed" \/ Stuck)
=============================================================================
