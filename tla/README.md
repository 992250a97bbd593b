# TLA+ models of Janus CryptoBOM

Janus CryptoBOM is a controller in Go (`src/server`) and an agent in Rust
(`src/agent`). Agents scan their hosts for cryptography, queue what they find and
upload it; the controller stores the findings, lets operators triage them, plans the
migration in waves, and sends signed commands that change a service's configuration
on a host. This directory models the parts of it in which order, overlap and failure
decide whether the result is right, checks the models with TLC on small instances,
and proves the central results with TLAPS for every value of the constants.

## 1. The system

| Part | State it keeps | Operations | What is hard about it |
|---|---|---|---|
| Command path: `orchestrator.go`, `grpcserver/server.go`, `comms.rs`, tables in `store.go` | per-host queue in memory; `migration_transactions`, `agent_commands`; stream handlers | enqueue, persist, drain, insert, send, mark delivered, report, complete | queue in memory and row in the database; handler of a dead connection beside the new one; restarts; late reports |
| Agent loop and scan control: `main.rs`, `discovery/status.rs`, `comms.rs` | cancel, pause and root-override statics; position in the loop | five verbs, walk, sync, wait | verbs arrive only in the sync, flags are read in the scan |
| Incremental scan and offline queue: `source.rs`, `storage.rs`, `comms.rs` | `scan_state` cache, `telemetry_queue` in SQLite | walk, cache, enqueue, upload, delete | crash between cache write and enqueue; partial scans purge cache rows; resend |
| Migration engine: `mutation.rs` | configuration file, loaded configuration, backups | read, check, patch, back up, write, validate, reload, verify, roll back | failing file-system calls, crash, administrator editing |
| Wave planner: `waveplan/planner.go`, `agility_waves.go`, `store.go` | `wave_plans` | create, change status, delete | read, check and write without a transaction |
| Wave graph: `waveplan/graph.go` | none | order, cycles, activatable | agreement with the planner, ties |
| Finding lifecycle: `store.go`, `lifecycle.go` | `crypto_findings`, `telemetry_payloads`, `finding_lifecycle_events` | ingest, auto-reopen, single and bulk status requests, purge | payloads late and twice, requests without a lock |
| Audit chain: `store.go` | `audit_logs` | append, verify, purge | appends at the same time, purge beside them |
| Command signing: `config.go`, `main.go`, `hsm/*.go`, `orchestrator.go` | objects on a token, software key store, the orchestrator's key material | start, find, generate, import, publish, sign; `hsm keygen`, `hsm rm` | a token call that fails once; a tool on the same token; restarts |
| Alerts: `grpcserver/server.go`, `notify.go`, `main.go` | webhooks, circuit breaker, goroutines, wait group | dispatch, retry, skip, drain | drain at shutdown, breaker shared by dispatches |
| Operator sessions and tickets: `auth.go`, `auth_password.go`, `ws_ticket.go` | overrides in the database, cutoffs and tickets in memory | log in, change password, check, redeem, restart | commit and cache in two steps, restart between them |
| Agent identity and registry: `agentauth.go`, `agent_auth.go`, `cli_agent.go`, `UpsertAgent` | credentials, assets, connection sessions | enrol, disable, check, register, heartbeat | four statements without a transaction |
| WebSocket hub: `ws/hub.go` | client set, two channels, one lock | register, broadcast, ping, drop | slow clients, a writer waiting for the lock |
| LLM analysis: `llm/service.go`, `llm/budget.go`, `llm_analysis.go`, `llm_batch.go` | jobs, batch counters, budget, provenance | start, run, fail, cancel, drain | contexts cancelled between two stages |
| LLM remediation: `remediation_validate.go`, `autoremediation.go`, `llm_remediation.go` | suggestions, the governor's budget, commands issued | validate, review, apply, decide | what was read is applied later |
| Policy engine: `policy/engine.go`, `osv.go`, `policy_crud.go` | profiles in memory and on disk, active profile, advisory cache | create, update, delete, switch, assess, restart | memory first, file afterwards |
| Fleet configuration: `server.go`, `store.go` | fleet row, profiles, mappings | fetch, save, map, delete | the masked key comes back |
| Agility: `agility/*.go`, `agility_waves.go` | `agility_metrics` | score, exercise, negotiate, store | rows written one by one, past midnight |
| Windows adapters, certificate manager, scan contract, parsers, tenants | see `PROJECT.json` | | not modelled |

How they interact: an operator's request (`httpapi`) puts a command in the
orchestrator's queue or in `agent_commands`. The agent's loop scans
(*TelemetryQueue*), then syncs; the sync uploads the queued payloads, and after each
payload the controller's handler stores it (*FindingLifecycle*) and sends whatever
commands wait for the host (*CommandDelivery*). The agent acts on a command while it
reads the stream: a migration goes to the migration engine (*MutationEngine*), a verb
sets flags for the next scan (*ScanControl*). Reports travel back when the stream has
ended. Before a command is queued it is signed (*CommandSigning*); some commands come
from an approved or an automatic remediation (*LlmRemediation*), which an analysis job
(*LlmJobs*) proposed. The handler that stores a payload assesses it
(*PolicyProfiles*), starts the alerts (*AlertDispatch*) and broadcasts to the dashboards
(*EventHub*), whose tickets come from an operator's session (*OperatorSessions*). An agent
registers before it streams (*AgentIdentity*) and scans with the configuration it
fetches (*FleetConfig*). Wave plans (*WavePlan*, *WaveGraph*), exercises
(*AgilityExercise*) and the audit log (*AuditChain*) meet the others only in the database.

What makes each modelled part correct is stated with its runs in section 3; the
hazards, each at its line, are in `PROJECT.json`.

## 2. The modules

A name `Def_Variant` just before `Def` is a deliberately broken form of `Def`, with
which the property it is paired with in `PROJECT.json` is violated. No specification
uses it. Bounds on unbounded things are constants named `Max...`. `MC...` modules
add symmetry sets and values of constants; two of them also put components side by
side.

**MCServices** and **MCGovernance** are sums. The controller's services below share
neither variables nor locks: they meet in tables that only one of them writes. A
behaviour of the controller is then an interleaving of behaviours of its services, and
an invariant of one service holds in it exactly if it holds of that service alone.
The variable `focus`, chosen at the start, names the service that runs, and the
others keep one initial state, so TLC explores the sum of the state spaces and not
their product. MCServices holds AuditChain, FindingLifecycle, CommandSigning,
AlertDispatch, OperatorSessions, EventHub and AgentIdentity; MCGovernance holds LlmJobs,
LlmRemediation, AgilityExercise, PolicyProfiles, FleetConfig and, on an agent's host,
MutationEngine. Their actions are listed
one by one, so that each has to occur.

**CommandChannel** is abstract: what the operator is promised. Commands are accepted;
some of them are executed, each once and in the order of acceptance; the record of a
command goes from none to Pending to the result that was obtained, and stays.

**CommandDelivery** models one host. `queue` is `Orchestrator.queues[host]`, `rows`
and `acmds` the two tables, `post` the request of the operator, which first enqueues
and then inserts the row. A *session* is one connection with the handler goroutine
that serves it: `pc`, `left`, `batch`, `abatch`, `cur` are the locals of
`StreamTelemetry` and `ReportMigrationStatus`, `wire` and `inbox` the two directions
of the connection. `conn` and `reports` are the agent's side, `sync_once`. Each call
to the database and each send is an action. Failures: a database call fails
(`PersistFails`, `HandlerFails`; the second statement of a report may fail alone, since
`UpdateMigrationStatus` drops its error), the connection breaks or the agent restarts
(`SyncBreaks`), the controller restarts (`ServerRestarts`). With `HalfOpen`, the
handler of a broken connection may go on for as long as it likes beside the next one.
`waits` is what blocks the agent's only loop for ever: the next scan, after a scan-pause
(`Receive` leaves open which verb it was), or the command of a migration that does not
return (`RunHangs`). The agent is then `Stuck`, and nothing but a restart by somebody
(`AgentRestarts`, without fairness) helps.
`RegisterAgent`, signatures, tenants and the verification of a command are left out;
a command the agent refuses is reported as failed, which `Receive` includes.

**ScanControl** is the loop of `main.rs`: `phase`, the statics of `status.rs`
(`cancel`, `pause`, `override`) and the verbs in the order of `queued_at`. A sync reads the
table once after each payload: `DrainVerbs` fixes how many verbs it takes (`drained`), and
what is posted after its last payload waits for the next one. The waiting
loop also polls over HTTP, but the controller has no such route and the agent reads
"no command", so nothing enters there. Stages after the source walk check no flag and
are part of `FinishScan`.

**TelemetryQueue** models the incremental scan. A file is a version number; `cache`
and `fresh` are the row in `scan_state` and its age against `max_cache_age`; `found`
is what the scan has in memory; `outq` is `telemetry_queue`, of which a sync sends at
most `BatchLimit` payloads and deletes them when the stream and the reports have been
acknowledged. The verbs that come back in a sync set `hold`, the cancel and pause flags,
and `roots`: a targeted scan walks a part of the files, a cancelled one none and a paused one
waits, in this scan and in every later one until a verb takes the flag back. The contents
of findings and the encryption at rest are left out.

**MutationEngine** is `execute_inner` for the services with a configuration file. A
content is the *set* of changes in it: patches of commands and edits of the
administrator. `file`, `running` and `backup` are the file, what the service has
loaded, and the backup of each command. One action per step; each file-system call
may fail, before or after its rename, and the agent may die between any two.

**WavePlan** splits an update and a delete at the read of the table; the create is
one action, because the dependencies it looked up could as well be deleted just after
it. `completed` and `overlapped` are history. It also has the parts of `BuildGraph` that
need no loop: nodes, edges, unknown references and what is activatable. **WaveGraph**
extends it with the rest of `BuildGraph`: Kahn's loop with its sorted queue and the cyclic
rest, evaluated on every table requests can produce. `KahnRound` is one turn of the loop,
`Kahn` what as many turns as there are plans make of `KahnStart`. The queue is sorted before
each turn, so it is a set and its head the smallest element.

**FindingLifecycle** has the three tables. Scans are numbered; a queued scan's payload
may be ingested at any time, any number of times, until it is acknowledged.
`InsertTelemetry` is one step (the upsert locks the row, one transaction). A status
request is a list of findings with the status for each, one for `findingStatus` and up to
`BulkUpdateMax` for `bulkUpdateFindings`; each is read and later written, and a request
that fails on one goes on with the next. Purges delete the oldest payloads and cascade.

**AuditChain** models `InsertAuditLog` call by call under the advisory lock. The hash
is taken to be injective: a hash is the sequence of the entries that went into it.

**CommandSigning** follows `main` from the resolved settings (`deploy`) through its
refusals to `stage = "serving"`: `OpenBackend`, the HMAC key (`FindMac`, `ImportMac`), the
ML-DSA pair (`NoPair`, `SoftPair`, `FilePair`, or `FindPair` and `GeneratePair` on a
token), its public key, and the certificate. `token` survives restarts, `softStore` does
not; `published` collects the public keys that agents could have pinned. `ToolKeygen` and
`ToolRemove` are `janus-server hsm`, in a process of its own on the same token.
`IssueCommand` is `Sign`. A pair is a number and a signature the number of its key.
`pkcs11_windows.go` does through another binding what `pkcs11_cgo.go` does.

**AlertDispatch** has the goroutines that a payload with critical findings starts
(`dispatch`, one for webhooks, one for notifications), the wait group, the breaker of each
URL and the drain: `BeginDraining`, `GracefulStop`, `WaitWebhooks` with its deadline
(`GraceExpires`), `ShutdownHTTP`. `SendEvent` is one event with its attempts.

**OperatorSessions** splits login and password change at their database calls: the check,
the token, `SetCredentialOverride`, `Revoke`. `cutoffs` is the in-memory revocation cache,
which a start seeds from `overrides` if it can read them. Time is counted in half seconds
because `iat` and the cutoffs are truncated to seconds. The controller stamps tokens and the
database stamps changes: `skew` is the difference of their clocks, behind or ahead, fixed
at the start. Tickets are consumed by deletion.

**EventHub** has the channels, the hub goroutine between `TakeRegister` and `Register`,
the read lock held by broadcasts and pings, and a Go `RWMutex`, in which a waiting writer
keeps new readers out. A write to a peer that has stopped reading is not enabled. The event of a
tenant goes to the whole fleet when the lookup of the tenant fails (`hostTenant`, in
`StartCast`). That a broadcast writes only to clients of its tenant is the filter `Addressed`
itself, and so no property.

**AgentIdentity** has one action per statement of `UpsertAgent`, so that registrations of
one host overlap and break off between them. Admission is the check of
`agent_auth.go` on the claimed identity, its status, its timestamp and its token; in the
shared mode the identity is whatever the agent says. `ResolveTenant` reads the credential,
and falls back to `default` when it cannot.

**SlidingWindow** is `budget.go` as operators: the events still in the window and whether
another fits. The limiter's list of times is a set of events, each a time and whose it is,
so that two events of one moment are two. **LlmJobs** and **LlmRemediation** both use it. LlmJobs runs each job in
stages (read, budget, provider, verdict, provenance, status), any of which may fail or find
its context cancelled; `batch` is `batchState`. **LlmRemediation** checks a candidate patch
(`ValidateRemediation` and `patch_target.go`, with paths reduced to root and kind of
file), stores the suggestion, and lets the governor decide in the same request while
operators review and apply what they have read.

**PolicyAssessment** is the engine's `Assess` as operators, in the engine's order, with the
duplicate check that decides which rule speaks for an algorithm: `Candidates` are the findings
it tries to append, `AppendAll` appends them one after the other; `cnsa` stands for the version
containing that word. **PolicyProfiles** has the
map in memory, the files, and the requests that change first one and then the other. The
files are numbered in the order in which `Glob` names them and each holds some version, not
always the one of its name: `Shipped` is what the repository has in them. A start reads them
all, the last file of a version wins, and the last one named after the built-in profile is made
active. `createPolicy` prints its file itself (`Printed`: two decimals, no escaping), the
other requests marshal theirs. `unsure` are the versions to which something happened that a
start may not undo. `assessed` is the last payload with its findings.

**FleetConfig** has the forms of operators: fetched with the key masked, edited or not, and
saved with a read of the stored key before the write. `typed` says that the operator has changed
the key field of the form; one that was left alone holds the mask, or nothing when there was
no key to show.

**AgilityExercise** computes scorecards, the exercise report and the negotiation report from
one page of the findings (the handler asks for 5000 and gets `PageLimit`, the most severe first),
then stores one row for each day and host with a finding on the page. Fractions are
multiples of 1/`Unit`, where `Unit` is a constant that every division in question divides
(`AgilityAssumption`), so that nothing is rounded; the code computes in floating point.

## 3. The runs

| Run | Instance | Properties | What it shows |
|---|---|---|---|
| DeliveryHalfOpen | 2 migrations, 1 scan command, 2 sessions, 2 payloads each, 2 failures, half-open | `AtMostOnce`, `ExecutedIsRecorded`, `RecordIsTruthful`, `NoSilentLoss`, `CompletedStays`, refinement `ChannelSpec` | the path implements CommandChannel although handlers of dead connections run on |
| DeliveryLive | 1 migration, 1 scan command, peers noticed | `QueuedIsSettled`, `ScanCommandCompletes` | what waits after the last failure is settled, unless the agent's loop is stuck |
| ScanControl | all verbs, 3 of them, 2 failures, 2 entries | `AllOrNothing`, `OverrideIsOneShot`, `ScanNowRunsFully` | verbs act on whole scans; a last scan-now is obeyed |
| ScanControlPause | pause and cancel | `CancelEndsTheScan`, violated | a paused scan never reads the cancel |
| TelemetryQueue | 1 file, 2 versions, 3 verbs, 2 failures, 1 crash | `NothingQueuedIsLost`, `CoverageIsComplete`, `ContentIsReported` | a committed payload is not lost; without a crash no file is skipped unreported; content that stays is reported in the end, unless a cancel or a pause is in force |
| MutationPartial | 1 command, 1 failing call | `NoPartialMigration`, violated | a failed write can leave the patch in place |
| WavePlan | 3 plans, 2 requests | `ActivationIsSafe`, `CompletedIsKept`, `GraphIsSound` | the planner and the graph agree on every reachable table |
| WavePlanRace | 1 plan, 2 requests | `CompletedIsPermanent`, violated | overlapping requests cancel a completed wave |
| HubStalled | 1 dashboard, 1 broadcast | `BroadcastReturns`, violated | a peer that stops reading holds the broadcaster for good |
| Services | see below | twelve invariants | seven services of the controller |
| Governance | see below | eleven invariants | five services that decide what is done about findings, and the migration engine |
| RemediationApproval | as Governance | `HumanApproves`, violated | the governor applies a suggestion that nobody has reviewed |

`GraphIsSound` is the conjunction of `DependenciesAreAcyclic`, `GraphIsOrdered` (no
cycle is reported; the order holds every wave once, after its dependencies, ties by `plan_id`), `ActivatableIsHonest` (the
graph and the planner agree on what may be activated) and `SkippedIsSurfaced`.

**Services** checks, by service:

* *audit*: `UnpurgedChainVerifies`, `LinksSurvivePurge`, `AlterationIsDetected`: the chain
  never forks, keeps its links over purges, and shows the change of any row before the last
  ones: newest rows that are deleted leave no trace.
* *findings*: `StatusIsExplained`: the status of a finding is the one its last event gave
  it, and `reopen_count` the number of its reopenings, although overlapping requests record
  stale values; `FalsePositiveSticks` against late and repeated payloads.
* *signing*: `CommandsAreSigned`: every signature verifies under the key or certificate the
  command carries (`SignedByCarriedKey`), and a command has all the signatures the settings
  ask for or none (`SigningFailsClosed`): `Sign` answers a signing error with no signature, and the
  command is queued all the same, for the agent to refuse. `FingerprintIsStable`: with a key that
  persists, every start publishes the same key. The verification and the stability do not
  hold after a tool has changed the token, or the lookup of the pair has failed once
  (`tampered`): `EnsureMLDSAKey` then makes a second pair under the same label.
* *alerts*: `AlertsAreSettled`: a clean drain means that every dispatch has ended and none
  can begin (`CleanDrainIsComplete`); a webhook is skipped only after `BreakerLimit`
  failures in a row (`BreakerNeedsFailures`).
* *sessions*: `SessionsFollowPasswords`: after an answered change no older token is admitted
  (`OldSessionsEnd`), and no newer one refused (`NewSessionsWork`), over restarts. Older and newer
  is by the controller's clock, up to the second the stamps are cut to and to the difference of
  the clocks, which runs a second behind, exact and a second ahead. The first half excepts
  two overlapping changes of one password and a start that could not read the table.
* *hub*: `HubServesConnections`: when the hub has nothing to take from its channels, every connected
  dashboard is a client, and the socket of every one that has gone is closed.
* *agents*: `RegistryIsConsistent`: an asset is in the tenant of its enrolment or in the one
  it was moved to (`AssetIsInItsTenant`), and has at most one open session, the newest
  (`OneOpenSession`), the latter without overlapping registrations.
* `ServicesTypeOK` is the type invariant of the service that runs. It contains the foreign
  key of findings to their payloads, which purge and ingest could break together.

**Governance** checks:

* *llm*: `JobsAreAccountedFor`: results have their provenance and completed jobs their
  results (`ResultHasProvenance`), the counters of a batch add up and say "done" exactly when
  its last unit has returned (`BatchAddsUp`), no window has more calls of analysis jobs than the
  budget (`CallBudget`); the window slides in the run. `llmProxy` and `llmTestConnection` call
  the provider past the limiter.
* *remediation*: `RemediationIsGoverned`: a command is issued only for a validated patch,
  after an approval that was read or a decision of an enabled governor, without any approval
  (`IssuedWithAuthority`; see RemediationApproval), within the governor's budget
  (`AutoBudget`). Commands of both kinds occur in the run, in both of the governor's windows.
* *agility*: `ExerciseIsConsistent`: a row holds what an exercise of its day computed
  (`MetricIsOfItsDay`), the fleet's estimate lies between those of its best and worst host
  (`EstimateIsBetween`), and no fleet is graded better than D (`GradeIsCapped`, what
  `GUIDE.md:561` says of deployments whose services nobody has counted: two dimensions fail).
* *policy*: `ProfilesArePersistent`: a restart brings back what is in memory of every version that
  nothing happened to (`RestartKeepsProfiles`), and the active one is always defined
  (`ActiveIsDefined`). What can happen to a version: its write or removal fails, two requests
  overlap, a request for another version takes its file, a file of another name holds it, as the
  two shipped ones do, or `createPolicy` prints it so that it reads differently.
* *assessment*: `AssessmentIsMonotone`: a stricter profile loses no finding, no
  finding is reported twice, and assessing the result again adds nothing.
* *fleet*: `FleetKeyIsKept`: the stored key is the one typed last, though forms send its
  mask back; except when the key could not be read, two saves overlapped, or a form with an
  empty key field was saved untouched over a key that was typed since.
* *engine*, with 2 commands, 2 edits, 2 failing calls and 1 crash: `UndoIsPossible`,
  `SuccessSticks`, `QuietEditsKept`, `FailedIsUndone`: a patch is in place only with a
  backup; success and the administrator's quiet edits are kept.
* `GovernanceTypeOK`, with the foreign key of mappings to profiles.

The exceptions are history variables (`tampered`, `overlapped`, `unseeded`, `misread`,
`crowded`, `undisturbed`, `unsettled`, `unsure`); each is set by exactly the events named here, and
each is needed: without it the property is violated.

The type invariants of CommandDelivery, ScanControl, TelemetryQueue and WavePlan are not
among the listed properties of the runs: they are proved (section 4).

Why the bounds are enough: two sessions are the smallest number with an old handler
beside a new one, and a third would be a second old one, which shares nothing with
the first but what the first already reaches. Two migrations show order, two failures
show a failure during the recovery from another. One file is enough for the queue: files have
no state in common but the walk, which a cancel, a target or a crash ends before or after any
of them, and the two invariants are proved for any number. Two versions are a change between
scans, three verbs a cancel taken back and given again. Two commands in the engine show a
later one damaging an earlier one. Three plans give a chain and a diamond's half,
and all tie-breaks of the sorted queue. Two requests are what a race needs. Three appends
make one wait while two are in progress. In Services: two starts and one failing token call show a
pair made twice; two payloads and a `BreakerLimit` of two make two dispatches share the
breaker; two password changes and one restart put a restart between commit and cache;
two connections of different tenants and one broadcaster show a client leaving during
a broadcast (more broadcasters only take the same read lock); two calls on one
host make registrations overlap. Two updates of findings are one bulk request or two
overlapping ones. In Governance: two findings make a batch, with a budget of one call, so
that one of them is refused; two suggestions compete for one automatic application an
hour, over two of them; two hosts let midnight fall between their rows, with pages that one of them
fills alone; two savers and the files `custom-enterprise.yaml`, `custom.yaml`,
`nist-pqc-2026.1.yaml` and `nist-pqc-2026.yaml`, two of them shipped, show versions in files of
other names; three saves of the fleet are a key typed,
a mask sent back, and a second key.

Fairness: the agent's loop is one thread, so `WF_vars(Loop)` says only that the
operating system schedules it. In CommandDelivery the agent and each handler are
scheduled, and a handler whose peer is gone gets an error from its cancelled context;
operators and failures have no fairness. In EventHub the hub's loop and each broadcast are
scheduled. In TelemetryQueue the agent's loop is
scheduled and cache rows age, because time passes. No fairness makes a wait end that the code
does not end: a paused walk and a stuck agent have no step to take, so the liveness properties
except them (`Stuck`, `hold`). Liveness properties are stated for
the time after the last failure where retries are otherwise unbounded.

`CHECK_DEADLOCK FALSE` is set where a behaviour ends because its entries, commands,
plans or scans are used up, and in the two sums, where the counted faults, requests and
clock ticks of a service run out or the controller has stopped for good; the loops of the
agent and the command path run with deadlock checking on.

### Disagreements with the documentation

* **ScanControlPause.** `scan_checkpoint` waits while paused; the verbs that could end
  the wait are read only by the sync after the scan. `status.rs:11` says a cancel
  stops the scan in progress.
* **MutationPartial.** If the write of the configuration fails after its rename (the
  sync of the directory), `execute_inner` returns without the rollback that later
  steps do. `SECURITY.md:126` says no partial migration is left.
* **HubStalled.** `Broadcast` writes to each client in turn under the read lock, without a
  deadline. `hub.go:81` says "Non-blocking — slow clients are skipped." The specification
  assumes that goroutines which can go on are scheduled, and nothing of the peers.
* **WavePlanRace.** `UpdateWavePlan` overwrites the row whatever its status is by then.
  `GUIDE.md:622` says a completed wave is permanent.
* **RemediationApproval.** `maybeAutoApply` enqueues the command of a suggestion right after it was
  stored when the governor allows it. `remediation.go:18` says "human_approval_required is always true
  and there is NO automated application path", and `ARCHITECTURE.md:432` and `:458` and
  `GUIDE.md:583` promise a human approval.

Words that the code contradicts, where a property states what the code does instead and names
the exception:

* `status.rs:11` and `source.rs:320` promise partial results of a scan that is cancelled. No flag can
  change while a scan runs, so a scan that sees the cancel has walked nothing (`AllOrNothing`).
* `store.go:2622`, `:2658` and `SECURITY.md:124` say that `VerifyAuditChain` detects the deletion of any
  row. The newest rows can be deleted without a trace, nothing counts them (`AlterationIsDetected`
  is about rows before one that remains).
* `GUIDE.md:320` says that a password change invalidates the user's existing tokens. Four kinds of
  token survive, among them those made before it by as much as the clock of the database is behind
  (`OldSessionsEnd`); with that clock ahead, tokens made just after it are refused
  (`NewSessionsWork`).
* `policy_crud.go:21` says that `writePolicyFile` "persists a profile", and the handlers answer so. Not
  every change lasts: a start reads the shipped
  `nist-pqc-2026.yaml` after the `nist-pqc-2026.1.yaml` that an update of that version writes, and
  `custom-enterprise`, which is in `custom.yaml`, comes back after its deletion; `createPolicy`
  rounds the confidence to two decimals and writes quotation marks that make the file unreadable
  (`server.go:1365`). These are exceptions of `RestartKeepsProfiles`.
* `agility_waves.go:14` computes scorecards "for all hosts", `scorecard.go:62` from "all findings for the
  host". The limit of 5000 becomes 50 in `FindingsPaginated` (`store.go:2123`), so that a host without
  a finding on that page is missing and the others are scored by a fragment.
* `hub.go:131` counts the "currently connected" clients. A client whose departure is taken from its
  channel before its arrival (`hub.go:208`) stays registered for good, its socket closed.
* `patch_target.go:11` pre-checks the file of a command. It checks the path in the patch, while
  the command names the finding's `asset_ref` (`llm_remediation.go:166`).

Observed while modelling, and visible in the models, without a run of their own:
the cancel flag stays set for every later scan until a scan-now or scan-target clears
it (`comms.rs:262`); a sync that reads a scan-pause leaves a scan-now, posted after its last payload,
to a next sync that never comes; a fleet form that was opened before there was a key, or for a host
whose profile has none, erases the key when it is saved untouched (`server.go:1216`); `llmProxy` and
`llmTestConnection` pass the call budget (`server.go:1564`); the profile name decides about CNSA
by containing the word (`engine.go:181`); a crash between the
commit of `scan_state` and the enqueue hides findings until the cache row expires
(`source.rs:347`, hence `crashes = 0` in `CoverageIsComplete`); targeted and cancelled
scans purge cache rows of files they did not visit (`source.rs:629`), which costs a
rescan and no finding; the checksum of a migration is compared once, before the
backup; a deleted dependency no longer blocks (`planner.go:130`); a late or repeated
payload reopens a finding (`store.go:1346`); the timeline is ordered by the start of
transactions (`store.go:2308`); a retention purge makes `VerifyAuditChain` fail at
the first remaining row (`store.go:2935`).

In the services: a client whose write failed stays in the hub's set until its reader ends
(`hub.go:98`). `GracefulStop` has no deadline of its own (`main.go:374`), so an open stream
can hold the drain up. `main` asks any backend that can manage command keys before it looks
at `JANUS_COMMAND_SIG_KEY_FILE` (`main.go:259`), and the software backend, the default, can:
its pair is new at each start although a key file is configured, where
`docs/TROUBLESHOOTING.md:82` offers the key file for a stable fingerprint. It works with
`JANUS_HSM_MODE=disabled`, hence the condition in `FingerprintIsStable`. An unknown `JANUS_HSM_MODE` means software; the command line tool
trims the master key otherwise than the controller.
The first registration that cannot read its credential leaves the asset in
`default` for good (`server.go:159`); a heartbeat needs no authentication. An automatic
remediation budget of 0 means no limit, and a maintenance window that cannot be read
means any time. Saving a configuration profile with the mask of its key erases the key
(`server.go:1717`), where the fleet's own key is kept. The active policy is not persisted; advisories stay in the
cache until a restart (`osv.go`). ML-DSA contains "DSA" for the engine's substring test
(`engine.go:262`), for which the agent has an exception (`source.rs:440`). `auto_purge` is
stored but only the retention request purges (`server.go:1509`); nothing calls
`ExceptionSuppresses` (`store.go:2550`).

## 4. The proofs

Eight modules hold the theorems and lemmas. They assume only the named assumptions on the
constants, which TLC evaluates in the runs: that bounds are natural numbers, that a limit or
a window is not zero where the code fixes it, that the value for "absent" is none of the
values it stands beside, that payloads and advisories have the fields the code reads
(`AssessmentAssumption`), that plans are numbered in the order of their ids
(`GraphAssumption`), that `Unit` is fine enough for every number of findings a page may hold of a
host (`AgilityAssumption`), that a shipped file which holds a version holds a profile, and, where
something is
counted, that a set is finite. Every invariant that a passing run checks is the subject of a
theorem, and so are the refinement and the action properties. Every theorem is
about the specification that the runs check (`Spec`, or a component's `...Spec`, whose
actions Services and Governance take while `focus` names it), for every value of the
constants. None of the properties below is inductive by itself; what has to be added, and
why, is the content of the proof.

**CommandDeliveryProofs.** `TypeCorrect`, `ExecutedAtMostOnce` (`AtMostOnce`),
`ExecutionsAreRecorded` (`ExecutedIsRecorded`), `RecordsAreTruthful` (`RecordIsTruthful`),
for any commands, sessions, payloads and failures, half-open connections included.
`AtMostOnce` looks only at what was executed and says nothing of the copies still on their
way, so the inductive invariant `SafeInv` adds `OnePlace`: a migration is in at most one of
the queue, the batch of one handler, the wire of one session and the executions, and
nowhere before its request. `SentIsRecorded` (a command has its row before `Send`) and
`ReportsAreTrue` (a report held by the agent or by a handler is one of the executions)
carry the other two properties across the steps between the handler and the agent. Types
need `SendHasCommand`: a handler about to send has a command to send. The argument for
`OnePlace` has one lemma for all steps that lose commands or leave them where they are
(`LossOnePlace`, which covers every failure) and one for each step that moves one (enqueue,
drain, the two sends, receive). The records rest on `Gains`: what a single step can add to
rows, wires, executions and reports, one lemma per group of actions.

`Refinement` is `Spec => ChannelSpec`: the whole path implements CommandChannel. A step of
`Receive` is the channel's `Execute`, which asks for a command later in the order of
acceptance than every one executed before. That is not visible at the agent, so `ChannelInv`
adds `InOrder`: what was executed, the wire and the batch of the live session, and the
queue follow each other in the order of `accepted`, and each of them is in that order
itself. Only the live session matters: what a dead handler holds is never received.
`NothingLost` (`NoSilentLoss`) comes from the same invariant, with the stages of the
handlers (`HandlerStages`): a handler holds commands only between its drain and its send,
and until something fails no handler runs without its peer.

`CompletionStays` is the action property `CompletedStays`, half-open handlers included: their late
marks and reports are the one exception that the property names, and the proof is that there is no
other. Three statements overwrite a status: the operator's insert, the mark after a send and
the update from a report. `ScanCmdInv` says what each of them can meet: a status or a handler
comes only after the request (`StatusIsRequested`), a report that a dead handler still holds is about a
command that was marked before (`LateIsMarked`), what the live handler has drained was not executed
yet (`DrainedIsOpen`), what the agent was told in this sync is delivered, or about to be marked
(`ToldIsOpen`), and what is reported is reported once (`ReportedIsOpen`).

**AuditChainProofs.** `TypeCorrect`, `ChainNeverForks` (`UnpurgedChainVerifies`),
`PurgeKeepsLinks` (`LinksSurvivePurge`) and `AlterationsAreDetected`
(`AlterationIsDetected`), for any number of appends, purges and failures.
`UnpurgedChainVerifies` does not say what an append about to insert has read. `IndInv` adds
`PrevIsLast` (what it read is still the hash of the last row, because the lock keeps other
appends out and a purge that removes the last row removes all), `HasEntry`, `StartsEmpty`,
and splits `Verify` into `HashesMatch` and `LinksSurvivePurge`, which, unlike `Verify`,
survive a purge. The detection of copies, deletions and swaps rests on `HashLengths`: hashes
grow by one entry from row to row, so that no row can stand in another's place.

**WavePlanProofs.** `TypeCorrect`, `Acyclicity` (`DependenciesAreAcyclic`),
`ActivationSafety` (`ActivationIsSafe`), `CompletionSafety` (`CompletedIsKept`),
`ActivatableHonesty` and `SkippedSurfaced`, for any plans and requests. A request checks what
it reads and writes later, so `IndInv` says of every request between the two that, while
updates and deletes have not overlapped, there is no other (`OneWriteAtATime`) and what it
checked is still true (`ReadStillHolds`).

`GraphSoundness` (`GraphIsSound`) adds the result of Kahn's loop, for any number of plans. The
loop's invariant `Sound(k, n)` says after n turns: n plans are taken, closed under
dependencies; the queue is exactly what can be taken next; the degree of a plan is the number
of its dependencies that are not taken; and each plan taken was the smallest that could be
(`StartSound`, `RoundSound`). That a plan can be taken as long as one is left (`SomeReady`) is
acyclicity, which is `DependenciesAreAcyclic` applied to the plans that are left: this is where
the loop depends on the requests. After as many turns as there are plans all are taken.

**ScanControlProofs.** `TypeCorrect`, `ScansAreWhole` (`AllOrNothing`), `OverrideOnce`
(`OverrideIsOneShot`). A scan is whole because the cancel flag cannot change while it runs:
`CancelPrecedesScan` says that a scan which sees the flag has walked nothing.
`OverrideIsEarned` counts an override that is set as one that was not used yet.

**TelemetryQueueProofs.** `TypeCorrect`, `QueueLosesNothing` (`NothingQueuedIsLost`),
`CoverageComplete` (`CoverageIsComplete`). The sync deletes from the front of the queue what
it has sent, so `SyncIsInOrder` says that the payloads it has sent are the front and are
stored. `CacheIsBacked` extends the coverage to rows of the cache that are not the current
version of their file: an edit may bring the cached version back.

**Induction** makes induction over data available: the library's theorems take a predicate as
a parameter, which the provers here cannot instantiate, so the predicate is a *set* and an
induction is the least element of the set of numbers where it fails (`LeastNatural`,
`InductionUpTo`, `InductionOnParts`). From it: a function that is defined round by round
exists and has its equations (`IteratesExist`); what `FlattenSeq` contains
(`FlattenMembers`); type, bounds and divisibility of `SumFunction` (`SumType`, `SumBounds`,
`SumDivides`, `SumOfTwo`); `Min` and `Max` of a finite set (`MinMax`); exact means
(`MeanIsExact`).

**ServicesProofs**, one invariant per service:

* *hub*: `ConnectionsAreServed` (`HubServesConnections`). A connection is on its way while it waits
  in a channel or run holds it before the lock: `ReadingIsServed` and `OverIsClosed` say so of
  arrivals and departures, `OnlyOverLeaves` that no connection is closed before its read loop
  has ended, which is why a departure that is taken first loses nobody who is still there.
* *agents*: `RegistryConsistency` (`RegistryIsConsistent`). Between the statements of a
  registration: `AloneAtHost` (no other registration of a host that is not `crowded`) and
  `ClosedBeforeOpen` (before the statement that opens a session, all others are closed).
* *findings*: `StatusesAreExplained` (`StatusIsExplained`), `FalsePositivesStick`
  (`FalsePositiveSticks`). `EventsHaveRows`, `RowIsBacked` (the foreign key) and
  `ReadIsThere` (a request that has read a finding names one that was stored) relate the
  three tables; `RowsExplained` is the status and the count together. The first theorem
  stops at the first purge, as its property does: events outlive a purged row.
* *signing*: `CommandsCarryTheirKey` (`CommandsAreSigned`), `FingerprintStability`
  (`FingerprintIsStable`). `SignerFits` and `KeyFits` say at each stage of the start where
  the signer's key comes from, `OnePair` that an untouched token has one pair, and
  `PublishedStays` that what was published is still there to be found.
* *alerts*: `AlertsSettle` (`AlertsAreSettled`). The counter of the wait group is the number
  of dispatches that have not ended (`DispatchesFit`), the breaker's counter never exceeds the
  failures at the end of the URL's results (`BreakersFit`), and after `GracefulStop` there is
  no handler left (`DrainFits`).
* *sessions*: `PasswordsEndSessions` (`SessionsFollowPasswords`), for any skew in either direction:
  tokens carry the controller's time and stamps the database's, and the property compares both by
  the controller's. The cutoff in memory lies between the answered change and the time of the last
  change in the table (`TimesAgree`, `AnswersRevoke`), where a change between commit and cache is a handler of its own
  (`SavesAgree`, `OneAtATime`).

**GovernanceProofs**, likewise:

* *fleet*: `FleetKeyStays` (`FleetKeyIsKept`). While nothing is unsettled there is one save at
  a time (`OneSave`), and the key that it carries over, or the empty one it leaves, is the stored
  one (`Carried`).
* *policy*: `ProfilesPersist` (`ProfilesArePersistent`), `PolicyTypeCorrect`, for any files, shipped
  contents and names, of which several may hold one version. `SettledAgree` compares the map with what a
  start would read, version by version, where nothing happened and no request is under way;
  `PendingAgree` says what a request has still to do: the map is as it left it, no other request and
  no other file is about the version, and its own file will read the same.
* *assessment*: `AssessmentHolds` (`AssessmentIsMonotone`), for payloads with any number of
  components, algorithms and observations. `AppendAll` keeps what is there, appends only
  candidates, has every candidate's key in the end and no new key twice; from that, assessing
  a result again changes nothing. A stricter profile is a fact about each rule: what it appends for
  an algorithm, the stricter one appends something for, perhaps under another rule. The profiles
  compared with must be of the stored kind and the answers of OSV finite: `AssessedFits`,
  `OsvFits`.
* *agility*: `ExercisesConsistent` (`ExerciseIsConsistent`) with its part
  `MetricsKeepTheirDay`. `StoredLater`: what a request has still to store was measured on the
  day that it remembers. `ReportInv`: a report in progress was computed from some of the findings of
  hosts that have one, so that every share is exact and the fleet's means lie between the hosts'
  extremes (`ScorecardFacts`). The handlers count no services (`agility_waves.go`), so coverage and
  maturity are 0, two of four dimensions fail (`HalfIsPassed`) and half of the points is a D
  (`NoMoreThanD`).
* *llm*: `JobsAddUp` (`JobsAreAccountedFor`). The counters are the sizes of the sets of units
  that wait and that run (`CountsFit`); the jobs of a finding are numbered from one
  (`JobsFit`), so that a new one is new; `ResultsFit` says what each stage has left behind.
* *remediation*: `RemediationGoverned` (`RemediationIsGoverned`). A command is justified by
  what happened before: `RunsAuthorized` (an authorized run was admitted and has its grant),
  `AppliersFit` (a request holds a row that passed the checks), `CommandsFit` (an autonomous
  command belongs to a run that is over, so there is no second).
* Both budgets rest on `BudgetFits`: the limiter has not forgotten an event that is younger
  than the window. `BudgetSpends` shows that one more event then keeps the limit in every
  window, and `BudgetAges` and `BudgetRefuses` that time and refusals do no harm.
* *engine*: `TypeCorrect`, `UndoAlwaysPossible`, `SuccessIsPermanent`, `QuietEditsSurvive` and
  `FailureIsUndone`, for any commands, edits, failing calls and crashes. `IndInv` says at each
  step of `execute_inner` what the file, the backup and the content that was read have in
  common: what was read contains the patches of succeeded commands and the quiet edits, and not
  the current patch; from the backup on, the backup is what was read. Without it nothing is known
  of what a rollback writes back.

**The sums.** `ServicesCompose` and `GovernanceComposes` prove what section 2 says of them: a
behaviour of the sum is, for each service at once, a behaviour of that service's own
specification, because a step of one is a stutter of the others, and `focus` does not change.
`ServicesHold`, `GovernanceHolds`, `ServicesTypeCorrect` and `GovernanceTypeCorrect` carry the
theorems over to the specification the two runs check.

Only model-checked: liveness (`QueuedIsSettled`, `ScanCommandCompletes`, `ScanNowRunsFully`,
`ContentIsReported`), because fairness and ENABLED are out of the proof system's reach.

## 5. What is left out

### Not modelled

The reasons are in `PROJECT.json`: discovery parsers, report formatting, message types,
metrics, the simulator, the web interface, packaging (data or presentation without
control); the certificate manager and the agent's verification of a command (cryptography
whose outcome the models take as given); single-statement reads and writes of tenants,
exceptions and rules; the scan contract (bounds on single values). The Windows adapters of the
migration engine are one sequence of registry writes with a rollback that drops its errors
(`mutation.rs:454`); what could be checked of them is what MutationEngine checks of files.

Of modelled parts: roles, the login rate limit and password hashing; the HTTP form of the agent's
check, which is the gRPC one; prompts and wire formats of the LLM providers; TLS set-up and
schema migrations at the start; control packs of the policy engine; assignment and
comments of findings.

The wall clock enters only where a property depends on it (tokens, tickets, budgets, days):
the 300 s age limit of a command against a scan interval of 900 s (`mutation.rs:207`) is a hazard
without a property. So is the order of the lifecycle timeline (`store.go:2308`), which is by the start of transactions:
the model's events are in the order of their commits.

### Where to go on

Parts that would repay a model of their own: the agent's check of a command's age against its
scan interval, with a clock; the HTTP form of the agent's authentication, once the two forms
differ; and the Windows adapters, with the errors that their rollback drops.
