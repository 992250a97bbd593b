------------------------------ MODULE LlmJobs ------------------------------
(***************************************************************************)
(* LLM analysis jobs: single requests and batches (httpapi/llm_analysis.go,*)
(* llm_batch.go), the pipeline that runs a job (llm/service.go,            *)
(* remediation.go) and the request budget.  The stages of a job are        *)
(* separate steps, since each is a call to the database or the provider    *)
(* that can fail, is interleaved with those of other jobs, and may find    *)
(* its context cancelled by a client that left or a controller that        *)
(* drains.  A job is named by its finding and its number.                  *)
(***************************************************************************)
EXTENDS SlidingWindow

CONSTANTS
    Subjects,       \* findings
    LlmModes,       \* capability modes the controller may be configured with
    MaxRuns,        \* jobs per finding
    MaxConcurrent,  \* concurrent units of a batch
    CallLimit, CallWindow,      \* JANUS_LLM_MAX_REQUESTS_PER_MINUTE, a minute
    MaxLlmNow

ASSUME LlmAssumption ==
    /\ LlmModes \subseteq {"disabled", "analysis_only", "suggest_remediation"}
    /\ IsFiniteSet(Subjects) /\ MaxRuns \in Nat /\ MaxConcurrent \in Nat \ {0} /\ CallLimit \in Nat
    /\ CallWindow \in Nat \ {0} /\ MaxLlmNow \in Nat

JobIds == Subjects \X (1 .. MaxRuns)

VARIABLES
    llmMode,        \* Service.mode
    job,            \* llm_analysis_jobs: kind and status
    worker,         \* where the goroutine of each job is
    inBatch,        \* jobs that belong to the batch
    batch,          \* batchState, or NoBatch
    cancelled,      \* jobs whose context is cancelled
    provenance,     \* jobs with a row of llm_provenance
    outcome,        \* the verdict or suggestion row of each job
    callEvents,     \* the limiter
    calls,          \* history: the provider calls
    llmNow, llmDraining

llmVars == <<llmMode, job, worker, inBatch, batch, cancelled, provenance, outcome, callEvents,
             calls, llmNow, llmDraining>>

NoJob == [kind |-> "none", status |-> "none"]
NoBatch == [total |-> 0, queued |-> 0, running |-> 0, completed |-> 0, failed |-> 0,
            skipped |-> 0, refused |-> 0]

LlmInit ==
    /\ llmMode \in LlmModes
    /\ job = [j \in JobIds |-> NoJob] /\ worker = [j \in JobIds |-> "none"]
    /\ inBatch = {} /\ batch = NoBatch /\ cancelled = {}
    /\ provenance = {} /\ outcome = [j \in JobIds |-> "none"]
    /\ callEvents = {} /\ calls = {} /\ llmNow = 0 /\ llmDraining = FALSE

-----------------------------------------------------------------------------
(* Submitting jobs                                                         *)

NextRun(f) == Cardinality({n \in 1 .. MaxRuns : job[<<f, n>>] # NoJob}) + 1

\* SubmitAnalysisJob; only the remediation kind needs a mode of its own.
MaySubmit(kind) ==
    /\ llmMode # "disabled"
    /\ kind = "remediation" => llmMode = "suggest_remediation"

Queued(kind) == [kind |-> kind, status |-> "queued"]

\* llmAnalyze: the request runs its own job.  A finding that cannot be resolved leaves
\* it queued.
SubmitOne(f, kind) ==
    /\ ~ llmDraining /\ MaySubmit(kind) /\ NextRun(f) <= MaxRuns
    /\ LET j == <<f, NextRun(f)>> IN
       /\ job' = [job EXCEPT ![j] = Queued(kind)]
       /\ \E resolved \in BOOLEAN :
            worker' = [worker EXCEPT ![j] = IF resolved THEN "ready" ELSE "over"]
    /\ UNCHANGED <<llmMode, inBatch, batch, cancelled, provenance, outcome, callEvents, calls,
                   llmNow, llmDraining>>

HasVerdict(f) ==
    \E n \in 1 .. MaxRuns : outcome[<<f, n>>] = "verdict"

\* llmAnalyzeBatch: the findings without a verdict, or all of them with force, get a
\* job each, except those whose row cannot be written.
SubmitBatch(selected, force, kind) ==
    /\ ~ llmDraining /\ llmMode # "disabled" /\ inBatch = {} /\ batch = NoBatch
    /\ selected # {} /\ \A f \in selected : NextRun(f) <= MaxRuns
    /\ \E refused \in SUBSET selected :
         LET wanted == {f \in selected : force \/ ~ HasVerdict(f)}
             made   == {<<f, NextRun(f)>> : f \in wanted \ refused}
         IN  /\ refused \subseteq wanted /\ (MaySubmit(kind) \/ refused = wanted)
             /\ inBatch' = made
             /\ job' = [j \in JobIds |-> IF j \in made THEN Queued(kind) ELSE job[j]]
             /\ worker' = [j \in JobIds |-> IF j \in made THEN "unit" ELSE worker[j]]
             /\ batch' = [total |-> Cardinality(made), queued |-> Cardinality(made), running |-> 0,
                          completed |-> 0, failed |-> Cardinality(refused),
                          skipped |-> Cardinality(selected \ wanted), refused |-> Cardinality(refused)]
    /\ UNCHANGED <<llmMode, cancelled, provenance, outcome, callEvents, calls, llmNow, llmDraining>>

\* A unit starts when the semaphore lets it.
StartUnit(j) ==
    /\ worker[j] = "unit" /\ batch.running < MaxConcurrent
    /\ worker' = [worker EXCEPT ![j] = "ready"]
    /\ batch' = [batch EXCEPT !.queued = @ - 1, !.running = @ + 1]
    /\ UNCHANGED <<llmMode, job, inBatch, cancelled, provenance, outcome, callEvents, calls,
                   llmNow, llmDraining>>

-----------------------------------------------------------------------------
(* AnalyzeFinding and GenerateRemediation                                  *)

kept == <<llmMode, inBatch, cancelled, llmNow, llmDraining>>

\* the counter of the failed units is forgotten
Ends_Uncounted(j, ok) ==
    /\ worker' = [worker EXCEPT ![j] = "over"]
    /\ batch' = IF j \in inBatch /\ ok
                  THEN [batch EXCEPT !.running = @ - 1, !.completed = @ + 1] ELSE batch

\* The goroutine returns, and the batch counts its unit.
Ends(j, ok) ==
    /\ worker' = [worker EXCEPT ![j] = "over"]
    /\ batch' = IF j \notin inBatch THEN batch
                ELSE IF ok THEN [batch EXCEPT !.running = @ - 1, !.completed = @ + 1]
                           ELSE [batch EXCEPT !.running = @ - 1, !.failed = @ + 1]

Goes(j, place) == worker' = [worker EXCEPT ![j] = place] /\ UNCHANGED batch

\* UpdateAnalysisJob, its error ignored: with a cancelled context the row stays.
Marks(j, status) ==
    \/ j \notin cancelled /\ job' = [job EXCEPT ![j].status = status]
    \/ UNCHANGED job

FailJob(j) == Marks(j, "failed") /\ Ends(j, FALSE)

MarkRunning(j) ==
    /\ worker[j] = "ready"
    /\ \/ j \notin cancelled /\ job' = [job EXCEPT ![j].status = "running"] /\ Goes(j, "asking")
       \/ Ends(j, FALSE) /\ UNCHANGED job
    /\ UNCHANGED <<kept, provenance, outcome, callEvents, calls>>

\* The budget is spent before the call.
AskProvider(j) ==
    /\ worker[j] = "asking"
    /\ callEvents' = AfterRequest(callEvents, CallLimit, CallWindow, j, llmNow)
    /\ IF Allows(callEvents, CallLimit, CallWindow, llmNow)
         THEN calls' = calls \cup {Event(j, llmNow)} /\ Goes(j, "asked") /\ UNCHANGED job
         ELSE UNCHANGED calls /\ FailJob(j)
    /\ UNCHANGED <<kept, provenance, outcome>>

\* An error or a malformed envelope fails the job; content that is not JSON is an
\* abstention, or a suggestion without a patch, and valid.
Answers == {"error", "invalid", "valid", "unparsable"}

ProviderAnswers(j, a) ==
    /\ worker[j] = "asked" /\ (j \in cancelled => a = "error")
    /\ IF a = "error" THEN FailJob(j)
       ELSE /\ Goes(j, IF a = "invalid" THEN "invalid" ELSE "valid")
            /\ UNCHANGED job
    /\ UNCHANGED <<kept, provenance, outcome, callEvents, calls>>

RecordProvenance(j) ==
    /\ worker[j] \in {"invalid", "valid"}
    /\ \/ /\ j \notin cancelled /\ provenance' = provenance \cup {j} /\ UNCHANGED job
          /\ Goes(j, IF worker[j] = "valid" THEN "recorded" ELSE "rejected")
       \/ Ends(j, FALSE) /\ UNCHANGED <<provenance, job>>
    /\ UNCHANGED <<kept, outcome, callEvents, calls>>

\* ValidateVerdict, ValidateSuggestion
RejectAnswer(j) ==
    /\ worker[j] = "rejected" /\ FailJob(j)
    /\ UNCHANGED <<kept, provenance, outcome, callEvents, calls>>

\* A batch makes verdicts of all its jobs.
ResultOf(j) == IF job[j].kind = "remediation" /\ j \notin inBatch THEN "suggestion" ELSE "verdict"

Persist(j) ==
    /\ worker[j] = "recorded"
    /\ \/ j \notin cancelled /\ outcome' = [outcome EXCEPT ![j] = ResultOf(j)] /\ Goes(j, "persisted")
       \/ Ends(j, FALSE) /\ UNCHANGED outcome
    /\ UNCHANGED <<kept, job, provenance, callEvents, calls>>

Complete(j) ==
    /\ worker[j] = "persisted" /\ Marks(j, "completed") /\ Ends(j, TRUE)
    /\ UNCHANGED <<kept, provenance, outcome, callEvents, calls>>

-----------------------------------------------------------------------------
(* Cancellation and time                                                   *)

ClientLeaves(j) ==
    /\ worker[j] \notin {"none", "over", "unit"} /\ j \notin inBatch \cup cancelled
    /\ cancelled' = cancelled \cup {j}
    /\ UNCHANGED <<llmMode, job, worker, inBatch, batch, provenance, outcome, callEvents, calls,
                   llmNow, llmDraining>>

\* BeginDraining cancels shutdownCtx; drainGuard refuses new requests.
ShutdownCancels ==
    /\ ~ llmDraining /\ llmDraining' = TRUE
    /\ cancelled' = cancelled \cup inBatch
    /\ UNCHANGED <<llmMode, job, worker, inBatch, batch, provenance, outcome, callEvents, calls,
                   llmNow>>

LlmTick ==
    /\ llmNow < MaxLlmNow /\ llmNow' = llmNow + 1
    /\ UNCHANGED <<llmMode, job, worker, inBatch, batch, cancelled, provenance, outcome,
                   callEvents, calls, llmDraining>>

-----------------------------------------------------------------------------
LlmNext ==
    \/ \E f \in Subjects, kind \in {"triage", "remediation"} : SubmitOne(f, kind)
    \/ \E selected \in SUBSET Subjects, force \in BOOLEAN, kind \in {"triage", "remediation"} :
         SubmitBatch(selected, force, kind)
    \/ \E j \in JobIds :
         \/ StartUnit(j) \/ MarkRunning(j) \/ AskProvider(j) \/ RecordProvenance(j)
         \/ RejectAnswer(j) \/ Persist(j) \/ Complete(j) \/ ClientLeaves(j)
         \/ \E a \in Answers : ProviderAnswers(j, a)
    \/ ShutdownCancels \/ LlmTick

LlmSpec == LlmInit /\ [][LlmNext]_llmVars

-----------------------------------------------------------------------------
(* Properties                                                              *)

\* Type invariant of the jobs.
LlmTypeOK ==
    /\ \A j \in JobIds :
         /\ job[j].status \in {"none", "queued", "running", "failed", "completed"}
         /\ worker[j] \in {"none", "unit", "ready", "asking", "asked", "invalid", "valid",
                           "recorded", "rejected", "persisted", "over"}
         /\ outcome[j] \in {"none", "verdict", "suggestion"}
    /\ batch.running <= MaxConcurrent

\* Whatever fails or is cancelled on the way, a verdict or suggestion has its provenance
\* record, and a job is completed only if it has a result.
ResultHasProvenance ==
    \A j \in JobIds :
        /\ outcome[j] # "none" => j \in provenance
        /\ job[j].status = "completed" => outcome[j] # "none"

\* The counters of a batch account for every job of it at any time, so that "done"
\* (nothing queued, nothing running) is reported exactly when its last unit has returned.
BatchAddsUp ==
    /\ batch.queued + batch.running + batch.completed + (batch.failed - batch.refused) = batch.total
    /\ batch.queued = 0 /\ batch.running = 0 <=> \A j \in inBatch : worker[j] = "over"

\* No minute sees more provider calls of analysis jobs than the budget, however many jobs and
\* batches ask.  The calls of llmProxy (httpapi/server.go:1564-1607) and of
\* llmTestConnection do not pass the limiter and are not counted.
CallBudget == CallLimit > 0 => WithinLimit(calls, CallLimit, CallWindow)

\* What an operator can rely on about the jobs: their results, their counts, their cost.
JobsAreAccountedFor == ResultHasProvenance /\ BatchAddsUp /\ CallBudget
=============================================================================
