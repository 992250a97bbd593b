-------------------------- MODULE LlmRemediation --------------------------
(***************************************************************************)
(* Remediation suggestions of the LLM: the checks on a candidate patch     *)
(* (llm/remediation_validate.go, patch_target.go), the review and the      *)
(* manual application (httpapi/llm_remediation.go), and the governor that  *)
(* applies suggestions on its own (llm/autoremediation.go).  A suggestion  *)
(* is stored when its job ends; the governor decides in that same request, *)
(* while operators review, read and apply.  Time runs in half hours.       *)
(***************************************************************************)
EXTENDS SlidingWindow, Sequences

CONSTANTS
    Suggestions,    \* suggestion ids
    Appliers,       \* requests to apply a suggestion
    Proposals,      \* what the provider may propose
    Governors,      \* configurations of the governor
    NoPatch,
    MaxRemNow, MaxReviews

ASSUME RemediationAssumption ==
    /\ MaxRemNow \in Nat /\ MaxReviews \in Nat
    /\ \A g \in Governors : g.maxPerHour \in Int /\ g.minConfidence \in Int

AutoHour == 2       \* half hours
NotReviewed == ""
NoRow == [type |-> "none", confidence |-> 0, review |-> NotReviewed, asset |-> "none",
          status |-> "none", patch |-> NoPatch]

VARIABLES
    governor,       \* GovernorConfig
    autoEvents,     \* the governor's budget
    suggestion,     \* llm_suggestions
    autoRun,        \* what maybeAutoApply has decided about a new suggestion
    applier,        \* the suggestion each apply request has read
    hostKnown,      \* suggestions whose finding, with its host, is still found
    issued,         \* commands put in the orchestrator's queue, in order
    granted,        \* history: what the governor said yes to
    remNow, reviews

remediationVars == <<governor, autoEvents, suggestion, autoRun, applier, hostKnown, issued,
                     granted, remNow, reviews>>

RemediationInit ==
    /\ governor \in Governors /\ autoEvents = {}
    /\ suggestion = [s \in Suggestions |-> NoRow] /\ autoRun = [s \in Suggestions |-> "none"]
    /\ applier = [c \in Appliers |-> [at |-> "idle", row |-> NoRow, id |-> NoRow]]
    /\ hostKnown = Suggestions /\ issued = <<>> /\ granted = {} /\ remNow = 0 /\ reviews = 0

-----------------------------------------------------------------------------
(* Patches: a sequence of files, each with an old and a new path           *)

\* checkPatchPath, after patchHeaderPath
PathIsSafe(path) == path.root \in {"null", "relative"}

\* ValidatePatch
PatchIsValid(p) ==
    \/ p = NoPatch
    \/ /\ ~ p.big /\ ~ p.nul /\ p.hunk
       /\ \A i \in 1 .. Len(p.files) : PathIsSafe(p.files[i].old) /\ PathIsSafe(p.files[i].new)

\* PatchTargetPath: the new path of the first file that is not deleted
PatchTargetPath(p) ==
    LET kept == SelectSeq(p.files, LAMBDA f : f.new.root # "null")
    IN  IF kept = <<>> THEN "none" ELSE kept[1].new.file

\* The extensions and names of agentAllowedExtensions and agentAllowedNoExtNames.
AgentWillApplyPatch(p) == PatchTargetPath(p) \in {"config", "sshd_config"}

-----------------------------------------------------------------------------
(* Generating a suggestion                                                 *)

RecommendationTypes == {"config_change", "dependency_upgrade", "api_refactor",
                        "compensating_control", "binary_not_supported"}

\* ValidateSuggestion, confidence in tenths
SuggestionIsValid(a) ==
    /\ a.type \in RecommendationTypes /\ a.confidence \in 0 .. 10
    /\ a.patch # NoPatch => ~ a.patch.big

\* A patch that fails the check is not surfaced: the suggestion is stored without it.
Checked(a) ==
    [type |-> a.type, confidence |-> a.confidence, review |-> NotReviewed, asset |-> a.asset,
     status |-> IF PatchIsValid(a.patch) THEN "passed" ELSE "failed",
     patch |-> IF PatchIsValid(a.patch) THEN a.patch ELSE NoPatch]

\* GenerateRemediation from the provider's answer to the stored suggestion.
GenerateRemediation(s, a) ==
    /\ suggestion[s] = NoRow /\ SuggestionIsValid(a)
    /\ suggestion' = [suggestion EXCEPT ![s] = Checked(a)]
    /\ autoRun' = [autoRun EXCEPT ![s] = "new"]
    /\ UNCHANGED <<governor, granted, autoEvents, applier, hostKnown, issued, remNow, reviews>>

-----------------------------------------------------------------------------
(* The governor                                                            *)

\* parseHourRanges: parts that are not a range of hours are skipped.
AllowedHours(window) ==
    SelectSeq(window, LAMBDA r : r.lo \in 0 .. 23 /\ r.hi \in 0 .. 23 /\ r.lo <= r.hi)

WithinWindow ==
    LET hour  == (remNow \div AutoHour) % 24
        hours == AllowedHours(governor.window)
    IN  \/ Len(hours) = 0
        \/ \E i \in 1 .. Len(hours) : hour \in hours[i].lo .. hours[i].hi

\* Every control of Authorize but the budget.
Admissible(row) ==
    /\ governor.enabled
    /\ row.status = "passed" /\ row.patch # NoPatch
    /\ row.type \in governor.types /\ row.confidence >= governor.minConfidence
    /\ AgentWillApplyPatch(row.patch) /\ WithinWindow

\* Authorize: the budget is asked last, so a refusal costs nothing.  The decision is
\* made on the suggestion the request holds, which is as it was stored.
Authorize(s) ==
    /\ autoRun[s] = "new"
    /\ LET own == [suggestion[s] EXCEPT !.review = NotReviewed]
           ok  == Admissible(own) /\ Allows(autoEvents, governor.maxPerHour, AutoHour, remNow)
       IN  /\ autoRun' = [autoRun EXCEPT ![s] = IF ok THEN "authorized" ELSE "over"]
           /\ autoEvents' = IF Admissible(own)
                              THEN AfterRequest(autoEvents, governor.maxPerHour, AutoHour, s, remNow)
                              ELSE autoEvents
           /\ granted' = IF ok THEN granted \cup {Event(s, remNow)} ELSE granted
    /\ UNCHANGED <<governor, suggestion, applier, hostKnown, issued, remNow, reviews>>

-----------------------------------------------------------------------------
(* enqueueSuggestionCommand                                                *)

Actionable(row, mode) ==
    /\ mode = "manual" => row.review = "approved"
    /\ row.status = "passed" /\ row.patch # NoPatch /\ AgentWillApplyPatch(row.patch)

\* The command targets the file of the finding, and the patch's own target only when
\* the finding names none.
Command(s, row, mode, dryRun) ==
    [id |-> s, mode |-> mode, patch |-> row.patch, dryRun |-> dryRun, at |-> remNow,
     file |-> IF row.asset = "none" THEN PatchTargetPath(row.patch) ELSE row.asset]

\* Queued in memory, then inserted; a failing insert leaves the command queued and the
\* request answers with an error.
Enqueue(s, row, mode, dryRun) ==
    issued' = IF Actionable(row, mode) /\ s \in hostKnown
                THEN Append(issued, Command(s, row, mode, dryRun)) ELSE issued

\* autoApplyRemediation; a refusal is logged and the suggestion stands.
AutoApply(s) ==
    /\ autoRun[s] = "authorized" /\ autoRun' = [autoRun EXCEPT ![s] = "over"]
    /\ Enqueue(s, [suggestion[s] EXCEPT !.review = NotReviewed], "autonomous", governor.dryRunOnly)
    /\ UNCHANGED <<governor, granted, autoEvents, suggestion, applier, hostKnown, remNow, reviews>>

-----------------------------------------------------------------------------
(* Operators                                                               *)

\* SetSuggestionReview: the last decision wins.
ReviewSuggestion(s, decision) ==
    /\ suggestion[s] # NoRow /\ reviews < MaxReviews /\ reviews' = reviews + 1
    /\ suggestion' = [suggestion EXCEPT ![s].review = decision]
    /\ UNCHANGED <<governor, granted, autoEvents, autoRun, applier, hostKnown, issued, remNow>>

\* applySuggestion reads the suggestion ...
ReadSuggestion(c, s) ==
    /\ applier[c].at = "idle" /\ suggestion[s] # NoRow
    /\ applier' = [applier EXCEPT ![c] = [at |-> "read", row |-> suggestion[s], id |-> s]]
    /\ UNCHANGED <<governor, granted, autoEvents, suggestion, autoRun, hostKnown, issued, remNow, reviews>>

\* Requests without a body, and with dry_run set or not
Bodies == {"none", "dry", "live"}

\* ... and applies what it read, a dry run unless the body says otherwise.
ApplySuggestion(c, body) ==
    /\ applier[c].at = "read"
    /\ applier' = [applier EXCEPT ![c].at = "over"]
    /\ Enqueue(applier[c].id, applier[c].row, "manual", body # "live")
    /\ UNCHANGED <<governor, granted, autoEvents, suggestion, autoRun, hostKnown, remNow, reviews>>

-----------------------------------------------------------------------------
\* Retention removes the finding, or its host is not known.
FindingGoes(s) ==
    /\ s \in hostKnown /\ suggestion[s] # NoRow /\ hostKnown' = hostKnown \ {s}
    /\ UNCHANGED <<governor, granted, autoEvents, suggestion, autoRun, applier, issued, remNow, reviews>>

RemediationTick ==
    /\ remNow < MaxRemNow /\ remNow' = remNow + 1
    /\ UNCHANGED <<governor, granted, autoEvents, suggestion, autoRun, applier, hostKnown, issued, reviews>>

RemediationNext ==
    \/ \E s \in Suggestions :
         \/ \E a \in Proposals : GenerateRemediation(s, a)
         \/ \E d \in {"approved", "rejected"} : ReviewSuggestion(s, d)
         \/ \E c \in Appliers : ReadSuggestion(c, s)
         \/ Authorize(s) \/ AutoApply(s) \/ FindingGoes(s)
    \/ \E c \in Appliers, body \in Bodies : ApplySuggestion(c, body)
    \/ RemediationTick

RemediationSpec == RemediationInit /\ [][RemediationNext]_remediationVars

-----------------------------------------------------------------------------
(* Properties                                                              *)

\* Type invariant.
RemediationTypeOK ==
    /\ \A s \in Suggestions :
         /\ suggestion[s] # NoRow =>
              suggestion[s].review \in {NotReviewed, "approved", "rejected"} /\
              suggestion[s].status \in {"passed", "failed"}
         /\ autoRun[s] \in {"none", "new", "authorized", "over"}
    /\ \A c \in Appliers : applier[c].at \in {"idle", "read", "over"}
    /\ remNow \in 0 .. MaxRemNow /\ reviews \in 0 .. MaxReviews

\* Whichever way a command was issued, and whatever was reviewed or removed meanwhile:
\* its patch passed the deterministic check and names a target of a type the agent
\* accepts; a manual one was applied by a request that read an approval; an autonomous
\* one was admitted by an enabled governor and changes a host only if it may apply live.
\* An autonomous one has no approval, against the documents: HumanApproves.  The target that
\* is checked is the patch's; the file of the command is the finding's and may be another.
IssuedWithAuthority ==
    \A i \in 1 .. Len(issued) :
        LET cmd == issued[i] IN
        /\ cmd.patch # NoPatch /\ PatchIsValid(cmd.patch)
        /\ PatchTargetPath(cmd.patch) \in {"config", "sshd_config"}
        /\ cmd.mode = "manual" =>
             \E c \in Appliers : applier[c].id = cmd.id /\ applier[c].row.review = "approved"
        /\ cmd.mode = "autonomous" =>
             /\ governor.enabled /\ (~ cmd.dryRun => ~ governor.dryRunOnly)
             /\ suggestion[cmd.id].type \in governor.types
             /\ suggestion[cmd.id].confidence >= governor.minConfidence

\* No hour sees more authorisations than the budget, whatever the number of suggestions
\* generated at once, and no autonomous command is issued without one of its own.
AutoBudget ==
    governor.maxPerHour > 0 =>
        /\ WithinLimit(granted, governor.maxPerHour, AutoHour)
        /\ \A i \in 1 .. Len(issued) :
             issued[i].mode = "autonomous" =>
               /\ \E e \in granted : e.by = issued[i].id
               /\ \A k \in 1 .. Len(issued) :
                    issued[k].mode = "autonomous" /\ issued[k].id = issued[i].id => k = i

\* What ARCHITECTURE.md:432 and the comment of GenerateRemediation say: a suggestion is
\* applied only with a human approval, and there is no automated application path.  The
\* governor of maybeAutoApply is such a path.
HumanApproves ==
    \A i \in 1 .. Len(issued) :
        \E c \in Appliers :
            applier[c].id = issued[i].id /\ applier[c].row.review = "approved"

\* No command about a suggestion leaves without authority, and no hour sees too many.
RemediationIsGoverned == IssuedWithAuthority /\ AutoBudget
=============================================================================
