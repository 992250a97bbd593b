--------------------------- MODULE MCGovernance -----------------------------
(***************************************************************************)
(* What operators decide about the fleet, and what the agents do about it, *)
(* side by side: analysis by the LLM, remediation, agility exercises,      *)
(* policies, configuration, and the migration engine of one host.  A sum   *)
(* of independent components, as in MCServices.                            *)
(***************************************************************************)
EXTENDS LlmJobs, LlmRemediation, AgilityExercise, PolicyProfiles, FleetConfig,
        MutationEngine, TLC

VARIABLE focus

-----------------------------------------------------------------------------
(* Values of the constants                                                 *)

\* A good proposal, whose finding is in another file than its patch, and one that fails each
\* kind of check
MCProposals ==
    LET rel(f) == [root |-> "relative", file |-> f]
        patch(f) == [big |-> FALSE, nul |-> FALSE, hunk |-> TRUE,
                     files |-> <<[old |-> rel(f), new |-> rel(f)]>>]
        good == [type |-> "config_change", confidence |-> 9, patch |-> patch("config"),
                 asset |-> "source"]
    IN  {good, [good EXCEPT !.confidence = 5], [good EXCEPT !.patch = NoPatch],
         [good EXCEPT !.type = "api_refactor", !.patch = patch("source"), !.asset = "none"],
         [good EXCEPT !.patch.files =
            <<[old |-> rel("sshd_config"), new |-> [root |-> "null", file |-> "none"]],
              [old |-> rel("config"), new |-> [root |-> "parent", file |-> "config"]]>>]}

\* A governor that simulates, one that is off, and one that applies in two windows
MCGovernors ==
    LET base == [enabled |-> TRUE, dryRunOnly |-> TRUE, minConfidence |-> 9,
                 types |-> {"config_change"}, maxPerHour |-> 1, window |-> <<>>]
    IN  {base, [base EXCEPT !.enabled = FALSE],
         [base EXCEPT !.dryRunOnly = FALSE,
                      !.window = <<[lo |-> 1, hi |-> 1], [lo |-> 5, hi |-> 2]>>]}

\* Hosts with nothing found, three algorithms, and duplicates; one page holds three findings
MCFindingSets ==
    LET found(i, a, r, s, v) == [id |-> i, alg |-> a, asset |-> r, source |-> s, severity |-> v]
    IN  {{},
         {found(1, "rsa", "x", FALSE, 4), found(2, "dsa", "y", FALSE, 3),
          found(3, "ecc", "z", FALSE, 3)},
         {found(1, "rsa", "x", TRUE, 5), found(2, "rsa", "x", FALSE, 4),
          found(3, "rsa", "y", FALSE, 3), found(4, "ecc", "z", FALSE, 3)}}
MCTargetLists == {{"KYBER", "ML-KEM-768"}}

\* custom-enterprise.yaml, custom.yaml, nist-pqc-2026.1.yaml, nist-pqc-2026.yaml: the second
\* and the last are shipped, and hold the versions that the first and the third are named for.
MCFileOf == [v \in Versions |->
               CASE v = "custom-enterprise" -> 1
                 [] v = "custom" -> 2
                 [] v = "nist-pqc-2026.1" -> 3
                 [] v = "nist-pqc-2026" -> 4]
MCShipped == <<NoFile,
               [version |-> "custom-enterprise",
                profile |-> [bits |-> 2048, hybrid |-> FALSE, confidence |-> 0, cnsa |-> FALSE]],
               NoFile,
               [version |-> BuiltIn, profile |-> NistProfile]>>

\* One that survives printing, one that is rounded, and one with a quotation mark
MCPlain == [bits |-> 4096, hybrid |-> TRUE, confidence |-> 200, cnsa |-> TRUE]
MCQuoted == {[MCPlain EXCEPT !.bits = 2048]}
MCSettings == {MCPlain, [MCPlain EXCEPT !.confidence = 205]} \cup MCQuoted
MCAdvisories == {[id |-> "v1", score |-> 89, crypto |-> TRUE]}

\* A payload that meets every rule of the assessment
MCPayloads ==
    LET alg(n, f, r, b, c, s) == [name |-> n, family |-> f, role |-> r, bits |-> b,
                                  curve |-> "P-256", confidence |-> 100 * c, status |-> s]
        net(e, clear, tls, g) == [endpoint |-> e, cleartext |-> clear, tls |-> tls,
                                  cipher |-> "c", group |-> g, hybrid |-> FALSE,
                                  signature |-> "ECDSA"]
        comp(ref, v, algs) == [ref |-> ref, name |-> "openssl", version |-> v, algs |-> algs]
    IN  {[components |->
            <<comp("c1", <<3, 0, 9>>, <<alg("RSA", "RSA", "signature", 3072, 8, "verify"),
                                        alg("RSA", "RSA", "signature", 3072, 3, "sign"),
                                        alg("SHA-1", "SHA", "hash", 0, 9, "parse")>>),
              comp("c2", <<>>, <<alg("ECDSA", "ECC", "cert-signature", 0, 5, ""),
                                 alg("ECDH", "ECC", "key-exchange", 0, 0, "negotiate"),
                                 alg("AES-128", "AES", "symmetric", 128, 4, ""),
                                 alg("SHA-256", "SHA", "hash", 0, 1, "test-only")>>)>>,
          network |-> <<net("n1", FALSE, "TLS1.2", "X25519"), net("n2", TRUE, "", "")>>,
          findings |-> <<Finding(4, "c2", "ECDSA", "JANUS-PQC-001")>>]}

\* Commands of the engine are interchangeable, and so are the administrator's edits and the
\* requests about policies.
MCSymmetry == Permutations(Cmds) \cup Permutations(Edits) \cup Permutations(Savers)

-----------------------------------------------------------------------------
(* The sum                                                                 *)

\* A service that does not run has one configuration, whichever.
MCInit ==
    /\ focus \in {"llm", "remediation", "agility", "policy", "assessment", "fleet", "engine"}
    /\ focus = "llm" \/ llmMode = "disabled"
    /\ focus = "remediation" \/ governor = (CHOOSE g \in Governors : TRUE)
    /\ focus = "agility" \/ hostFindings = [h \in ScoredHosts |-> {}]
    /\ LlmInit /\ RemediationInit /\ AgilityInit /\ PolicyInit /\ FleetInit /\ Init

\* Only this service takes the step.  The policy engine has two runs of its own: the life of
\* the profiles and their files, and assessments with the profiles in memory as they change.
In(service, step) ==
    /\ focus = service /\ step /\ UNCHANGED focus
    /\ IF focus = "llm" THEN TRUE ELSE UNCHANGED llmVars
    /\ IF focus = "remediation" THEN TRUE ELSE UNCHANGED remediationVars
    /\ IF focus = "agility" THEN TRUE ELSE UNCHANGED agilityVars
    /\ IF focus \in {"policy", "assessment"} THEN TRUE ELSE UNCHANGED policyVars
    /\ IF focus = "fleet" THEN TRUE ELSE UNCHANGED fleetVars
    /\ IF focus = "engine" THEN TRUE ELSE UNCHANGED vars

MCNext ==
    \/ In("llm", \E f \in Subjects, kind \in {"triage", "remediation"} : SubmitOne(f, kind))
    \/ In("llm", \E selected \in SUBSET Subjects, force \in BOOLEAN, 
             kind \in {"triage", "remediation"} :
         SubmitBatch(selected, force, kind))
    \/ In("llm", \E j \in JobIds : StartUnit(j))
    \/ In("llm", \E j \in JobIds : MarkRunning(j))
    \/ In("llm", \E j \in JobIds : AskProvider(j))
    \/ In("llm", \E j \in JobIds : RecordProvenance(j))
    \/ In("llm", \E j \in JobIds : RejectAnswer(j))
    \/ In("llm", \E j \in JobIds : Persist(j))
    \/ In("llm", \E j \in JobIds : Complete(j))
    \/ In("llm", \E j \in JobIds : ClientLeaves(j))
    \/ In("llm", \E j \in JobIds, a \in Answers : ProviderAnswers(j, a))
    \/ In("llm", ShutdownCancels)
    \/ In("llm", LlmTick)
    \/ In("remediation", \E s \in Suggestions, a \in Proposals : GenerateRemediation(s, a))
    \/ In("remediation", \E s \in Suggestions, d \in {"approved", "rejected"} :
         ReviewSuggestion(s, d))
    \/ In("remediation", \E s \in Suggestions, c \in Appliers : ReadSuggestion(c, s))
    \/ In("remediation", \E c \in Appliers, body \in Bodies :
         ApplySuggestion(c, body))
    \/ In("remediation", \E s \in Suggestions : Authorize(s))
    \/ In("remediation", \E s \in Suggestions : AutoApply(s))
    \/ In("remediation", \E s \in Suggestions : FindingGoes(s))
    \/ In("remediation", RemediationTick)
    \/ In("agility", \E e \in Exercises, requested \in TargetLists, page \in FindingsPaginated :
         StartExercise(e, requested, page))
    \/ In("agility", \E e \in Exercises, h \in ScoredHosts, ok \in BOOLEAN :
         StoreMetrics(e, h, ok))
    \/ In("agility", \E e \in Exercises : AnswerExercise(e))
    \/ In("agility", \E h \in ScoredHosts, fs \in FindingSets : FindingsShift(h, fs))
    \/ In("agility", DayPasses)
    \/ In("policy", \E r \in Savers, v \in Versions, p \in Settings, how \in {"printing", "writing"} :
         SaveProfile(r, v, p, how))
    \/ In("policy", \E r \in Savers, v \in Versions : RemoveProfile(r, v))
    \/ In("policy", \E r \in Savers : WriteFile(r))
    \/ In("policy", \E r \in Savers, cut \in BOOLEAN : WriteFails(r, cut))
    \/ In("policy", \E r \in Savers : RemoveFile(r))
    \/ In("policy", \E r \in Savers : RemoveFails(r))
    \/ In("policy", \E v \in Versions : SetActiveProfile(v))
    \/ In("policy", RestartEngine)
    \/ In("assessment", \E r \in Savers, v \in Versions, p \in Settings : SaveProfile(r, v, p, "writing"))
    \/ In("assessment", \E r \in Savers, v \in Versions : RemoveProfile(r, v))
    \/ In("assessment", \E v \in Versions : SetActiveProfile(v))
    \/ In("assessment", \E v \in AgentVersions : ConfigureAgent(v))
    \/ In("assessment", RestartEngine)
    \/ In("assessment", \E payload \in Payloads, readable, online \in BOOLEAN :
         AssessTelemetry(payload, readable, online))
    \/ In("assessment", \E p \in Packages, a \in Advisories : AdvisoryPublished(p, a))
    \/ In("fleet", \E o \in Operators, h \in ConfigHosts : OpenForm(o, h))
    \/ In("fleet", \E o \in Operators, key \in LlmKeys \cup {Empty, Mask}, s \in FleetSettings :
         SubmitForm(o, key, s))
    \/ In("fleet", \E o \in Operators, ok \in BOOLEAN : KeepKey(o, ok))
    \/ In("fleet", \E o \in Operators, ok \in BOOLEAN : UpdateFleetConfig(o, ok))
    \/ In("fleet", \E p \in ConfigProfiles, key \in LlmKeys \cup {Empty, Mask},
             s \in FleetSettings :
         SaveConfigProfile(p, key, s))
    \/ In("fleet", \E p \in ConfigProfiles : DeleteConfigProfile(p))
    \/ In("fleet", \E h \in ConfigHosts, p \in ConfigProfiles \cup {Empty} :
         MapAgentToProfile(h, p))
    \/ In("engine", \E c \in Cmds : Issue(c))
    \/ In("engine", \E e \in Edits : AdminEdits(e))
    \/ In("engine", ServiceReloads)
    \/ In("engine", \E c \in Cmds : Refuse(c))
    \/ In("engine", \E c \in Cmds : DetectDrift(c))
    \/ In("engine", \E c \in Cmds : AcceptDryRun(c))
    \/ In("engine", \E c \in Cmds : ReadConfig(c))
    \/ In("engine", WriteBackup)
    \/ In("engine", WriteConfig)
    \/ In("engine", Validate)
    \/ In("engine", Reload)
    \/ In("engine", VerifyPostMigration)
    \/ In("engine", Rollback)
    \/ In("engine", ReloadRestored)
    \/ In("engine", Crash)

MCSpec ==
    MCInit /\ [][MCNext]_
      <<llmVars, remediationVars, agilityVars, policyVars, fleetVars, vars, focus>>

\* The type invariant of the component that runs.
GovernanceTypeOK ==
    CASE focus = "llm"         -> LlmTypeOK
      [] focus = "remediation" -> RemediationTypeOK
      [] focus = "agility"     -> AgilityTypeOK
      [] focus \in {"policy", "assessment"} -> PolicyTypeOK
      [] focus = "fleet"       -> FleetTypeOK
      [] focus = "engine"      -> TypeOK
=============================================================================
