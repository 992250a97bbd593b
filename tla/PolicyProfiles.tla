-------------------------- MODULE PolicyProfiles --------------------------
(***************************************************************************)
(* The policy profiles of the controller: the engine's map in memory, the  *)
(* files under policies/ that the next start reads in the order of their   *)
(* names, the requests that change both one after the other                *)
(* (httpapi/policy_crud.go, createPolicy), the switch of the active        *)
(* profile, the version configured for an agent, and the assessment of     *)
(* incoming payloads with whichever profile applies.                       *)
(*                                                                         *)
(* A file is its place in the order of Glob; the repository ships files    *)
(* whose names are not those of the versions they hold.                    *)
(***************************************************************************)
EXTENDS PolicyAssessment, FiniteSets

CONSTANTS
    Versions,       \* version strings, with the built-in one
    NFiles,         \* names of files that occur under policies/
    FileOf,         \* the file a request writes for a version: its name in lower case
    NistFiles,      \* the names with "nist-pqc-2026" in them
    Shipped,        \* what the repository has in the files
    Settings,       \* contents a request may give a profile
    Quoted,         \* those with a quotation mark in a string
    AgentVersions,  \* versions configured for the agent
    Savers,         \* requests that save or delete a profile
    Payloads,       \* telemetry
    Packages, Advisories,   \* packages and OSV records
    MaxSaves, MaxWriteErrors, MaxEngineStarts

BuiltIn == "nist-pqc-2026.1"
NoVersion == ""
NoProfile == [bits |-> -1, hybrid |-> FALSE, confidence |-> 0, cnsa |-> FALSE]
NistProfile == [bits |-> 3072, hybrid |-> TRUE, confidence |-> 0, cnsa |-> FALSE]
Files == 1 .. NFiles
NoFile == [version |-> NoVersion, profile |-> NoProfile]    \* missing, or not to be read

\* The file createPolicy prints: the confidence with two decimals, and no readable file
\* when a string has a quotation mark of its own.
Rounded(p) == [p EXCEPT !.confidence = ((@ + 5) \div 10) * 10]
Printed(v, p) == IF p \in Quoted THEN NoFile ELSE [version |-> v, profile |-> Rounded(p)]
Survives(p) == p \notin Quoted /\ Rounded(p) = p

\* What a profile in memory or in a file may be.
Contents == Settings \cup {Rounded(p) : p \in Settings} \cup {Shipped[f].profile : f \in Files}
            \cup {NistProfile, NoProfile}

\* What a payload is made of.  The agents' own findings have one of the five severities.
AlgorithmRecords == [name : STRING, family : STRING, role : STRING, bits : Nat, curve : STRING,
                     confidence : Nat, status : STRING]
ComponentRecords == [ref : STRING, name : Packages, version : Seq(Nat), algs : Seq(AlgorithmRecords)]
ObservationRecords == [endpoint : STRING, cleartext : BOOLEAN, tls : STRING, cipher : STRING,
                       group : STRING, hybrid : BOOLEAN, signature : STRING]
FindingRecords == [severity : 1 .. 5, asset : STRING, alg : STRING, rule : STRING]
PayloadRecords == [components : Seq(ComponentRecords), network : Seq(ObservationRecords),
                   findings : Seq(FindingRecords)]
ProfileRecords == [bits : Nat, hybrid : BOOLEAN, confidence : Int, cnsa : BOOLEAN]
AdvisoryRecords == [id : STRING, score : Int, crypto : BOOLEAN]

ASSUME AssessmentAssumption ==
    /\ Payloads \subseteq PayloadRecords
    /\ Advisories \subseteq AdvisoryRecords /\ IsFiniteSet(Advisories)
    /\ Settings \subseteq ProfileRecords

\* A version is not empty (the handlers answer 400); NoProfile stands for a missing entry.
ASSUME PolicyAssumption ==
    /\ BuiltIn \in Versions /\ NoVersion \notin Versions
    /\ NFiles \in Nat /\ FileOf \in [Versions -> Files] /\ NistFiles \subseteq Files
    /\ Shipped \in [Files -> [version : Versions \cup {NoVersion}, profile : ProfileRecords \cup {NoProfile}]]
    /\ \A f \in Files : Shipped[f].version # NoVersion => Shipped[f].profile # NoProfile
    /\ MaxSaves \in Nat /\ MaxWriteErrors \in Nat /\ MaxEngineStarts \in Nat

VARIABLES
    profiles,       \* Engine.profiles
    active,         \* Engine.active
    policyFiles,    \* policies/*.yaml
    saver,          \* the requests in progress
    agentPolicy,    \* policy_version of the agent's scan configuration
    osvCache,       \* OSVClient.cache: for each package no answer or one
    osvKnown,       \* what api.osv.dev answers
    assessed,       \* the payload that the last step assessed, with its findings
    unsure,         \* history: versions that something was done to since the start, after
                    \* which the next start is not known to bring back what is in memory
    saves, writeErrors, engineStarts

policyVars == <<profiles, active, policyFiles, saver, agentPolicy, osvCache, osvKnown, assessed,
                unsure, saves, writeErrors, engineStarts>>

NoSave == [at |-> "idle", version |-> NoVersion, profile |-> NoProfile]
NoPayload == [components |-> << >>, network |-> << >>, findings |-> << >>]
NotAssessed == [payload |-> NoPayload, profile |-> NoProfile,
                osv |-> [p \in Packages |-> {}], findings |-> << >>]

\* LoadEngine: the built-in profile, the readable files over it one after the other; the
\* last one that is named after the built-in profile is made active.
LoadedProfiles(files) ==
    [v \in Versions |->
       LET named == {f \in Files : files[f].version = v}
       IN  IF named # {} THEN files[Max(named)].profile
           ELSE IF v = BuiltIn THEN NistProfile ELSE NoProfile]

ActiveAtStart(files) ==
    LET named == {f \in NistFiles : files[f].version # NoVersion}
    IN  IF named # {} THEN files[Max(named)].version ELSE BuiltIn

PolicyInit ==
    /\ policyFiles = Shipped
    /\ profiles = LoadedProfiles(Shipped) /\ active = ActiveAtStart(Shipped)
    /\ saver = [r \in Savers |-> NoSave] /\ agentPolicy = NoVersion
    /\ osvCache = [p \in Packages |-> {}] /\ osvKnown = [p \in Packages |-> {}]
    /\ assessed = NotAssessed /\ unsure = {} /\ saves = 0 /\ writeErrors = 0 /\ engineStarts = 0

Defined(v) == profiles[v] # NoProfile
Busy(v) == \E r \in Savers : saver[r].at # "idle" /\ saver[r].version = v
\* A file that no request about v writes holds v too.
Elsewhere(v) == \E f \in Files \ {FileOf[v]} : policyFiles[f].version = v

\* The other version whose file a request about v takes
Displaced(v) == {policyFiles[FileOf[v]].version} \ {v, NoVersion}

-----------------------------------------------------------------------------
(* Saving and deleting: memory first, then the file of the version's name  *)

\* createPolicy ("printing"); PUT /api/policies/{version} and importPolicy ("writing")
SaveProfile(r, v, p, how) ==
    /\ saver[r] = NoSave /\ saves < MaxSaves /\ saves' = saves + 1
    /\ profiles' = [profiles EXCEPT ![v] = p]
    /\ saver' = [saver EXCEPT ![r] = [at |-> how, version |-> v, profile |-> p]]
    /\ unsure' = IF Busy(v) \/ Elsewhere(v) \/ (how = "printing" /\ ~ Survives(p))
                   THEN unsure \cup {v} ELSE unsure
    /\ assessed' = NotAssessed
    /\ UNCHANGED <<active, policyFiles, agentPolicy, osvCache, osvKnown, writeErrors,
                   engineStarts>>

\* The request is over; its version's file becomes what it is given, whatever it held.
EndSave(r, file) ==
    /\ saver' = [saver EXCEPT ![r] = NoSave]
    /\ policyFiles' = [policyFiles EXCEPT ![FileOf[saver[r].version]] = file]
    /\ assessed' = NotAssessed
    /\ UNCHANGED <<profiles, active, agentPolicy, osvCache, osvKnown, saves, engineStarts>>

\* writePolicyFile, or createPolicy's own writing
WriteFile(r) ==
    /\ saver[r].at \in {"printing", "writing"}
    /\ EndSave(r, IF saver[r].at = "printing" THEN Printed(saver[r].version, saver[r].profile)
                  ELSE [version |-> saver[r].version, profile |-> saver[r].profile])
    /\ unsure' = unsure \cup Displaced(saver[r].version)
    /\ UNCHANGED writeErrors

\* A failing write is answered with an error and the profile stays in memory; the file is
\* the old one, or os.WriteFile had cut it short already.
WriteFails(r, cut) ==
    /\ saver[r].at \in {"printing", "writing"}
    /\ writeErrors < MaxWriteErrors /\ writeErrors' = writeErrors + 1
    /\ EndSave(r, IF cut THEN NoFile ELSE policyFiles[FileOf[saver[r].version]])
    /\ unsure' = unsure \cup {saver[r].version}
                  \cup (IF cut THEN Displaced(saver[r].version) ELSE {})

\* RemoveProfile's checks
Removable(v) == Defined(v) /\ v # active

RemoveProfile(r, v) ==
    /\ saver[r] = NoSave /\ saves < MaxSaves /\ saves' = saves + 1 /\ Removable(v)
    /\ profiles' = [profiles EXCEPT ![v] = NoProfile]
    /\ saver' = [saver EXCEPT ![r] = [at |-> "removing", version |-> v, profile |-> NoProfile]]
    /\ unsure' = IF Busy(v) \/ Elsewhere(v) \/ v = BuiltIn THEN unsure \cup {v} ELSE unsure
    /\ assessed' = NotAssessed
    /\ UNCHANGED <<active, policyFiles, agentPolicy, osvCache, osvKnown, writeErrors,
                   engineStarts>>

\* the handler answers without removing the file
RemoveFile_Kept(r) ==
    /\ saver[r].at = "removing" /\ EndSave(r, policyFiles[FileOf[saver[r].version]])
    /\ UNCHANGED <<unsure, writeErrors>>

\* os.Remove of the file with the version's name, which the version need not be in
RemoveFile(r) ==
    /\ saver[r].at = "removing" /\ EndSave(r, NoFile)
    /\ unsure' = unsure \cup Displaced(saver[r].version)
    /\ UNCHANGED writeErrors

\* The error of os.Remove is dropped.
RemoveFails(r) ==
    /\ saver[r].at = "removing"
    /\ writeErrors < MaxWriteErrors /\ writeErrors' = writeErrors + 1
    /\ EndSave(r, policyFiles[FileOf[saver[r].version]])
    /\ unsure' = unsure \cup {saver[r].version}

-----------------------------------------------------------------------------
SetActiveProfile(v) ==
    /\ Defined(v) /\ v # active /\ active' = v
    /\ assessed' = NotAssessed
    /\ UNCHANGED <<profiles, policyFiles, saver, agentPolicy, osvCache, osvKnown, unsure,
                   saves, writeErrors, engineStarts>>

\* agentConfig: any string is stored as the agent's version.
ConfigureAgent(v) ==
    /\ agentPolicy # v /\ agentPolicy' = v
    /\ assessed' = NotAssessed
    /\ UNCHANGED <<profiles, active, policyFiles, saver, osvCache, osvKnown, unsure,
                   saves, writeErrors, engineStarts>>

\* The active profile is not kept over a restart; requests in progress are lost.
RestartEngine ==
    /\ engineStarts < MaxEngineStarts /\ engineStarts' = engineStarts + 1
    /\ profiles' = LoadedProfiles(policyFiles) /\ active' = ActiveAtStart(policyFiles)
    /\ saver' = [r \in Savers |-> NoSave] /\ osvCache' = [p \in Packages |-> {}]
    /\ unsure' = {} /\ assessed' = NotAssessed
    /\ UNCHANGED <<policyFiles, agentPolicy, osvKnown, saves, writeErrors>>

-----------------------------------------------------------------------------
(* Assessing telemetry                                                     *)

\* GetAgentScanConfig and AssessWithVersion: the agent's version if it is configured,
\* can be read and exists, else the active one.
ProfileFor(readable) ==
    IF readable /\ agentPolicy \in Versions /\ profiles[agentPolicy] # NoProfile
      THEN profiles[agentPolicy] ELSE profiles[active]

\* QueryPackage: what was answered once is kept; a failing query is not.
Answer(p, online) ==
    IF osvCache[p] # {} THEN UNION osvCache[p] ELSE IF online THEN osvKnown[p] ELSE {}

AssessTelemetry(payload, readable, online) ==
    LET osv  == [p \in Packages |-> Answer(p, online)]
        used == {c.name : c \in {d \in ToSet(payload.components) : d.version # << >>}}
    IN  /\ assessed' = [payload |-> payload, profile |-> ProfileFor(readable), osv |-> osv,
                        findings |-> Assess(payload, ProfileFor(readable), osv)]
        /\ osvCache' = [p \in Packages |->
                          IF p \in used /\ online THEN {osv[p]} ELSE osvCache[p]]
        /\ UNCHANGED <<profiles, active, policyFiles, saver, agentPolicy, osvKnown, unsure, saves,
                       writeErrors, engineStarts>>

AdvisoryPublished(p, a) ==
    /\ a \notin osvKnown[p] /\ osvKnown' = [osvKnown EXCEPT ![p] = @ \cup {a}]
    /\ assessed' = NotAssessed
    /\ UNCHANGED <<profiles, active, policyFiles, saver, agentPolicy, osvCache, unsure,
                   saves, writeErrors, engineStarts>>

-----------------------------------------------------------------------------
PolicyNext ==
    \/ \E r \in Savers, v \in Versions :
         \/ \E p \in Settings, how \in {"printing", "writing"} : SaveProfile(r, v, p, how)
         \/ RemoveProfile(r, v)
    \/ \E r \in Savers : WriteFile(r) \/ RemoveFile(r) \/ RemoveFails(r)
    \/ \E r \in Savers, cut \in BOOLEAN : WriteFails(r, cut)
    \/ \E v \in Versions : SetActiveProfile(v)
    \/ \E v \in AgentVersions : ConfigureAgent(v)
    \/ RestartEngine
    \/ \E payload \in Payloads, readable, online \in BOOLEAN :
         AssessTelemetry(payload, readable, online)
    \/ \E p \in Packages, a \in Advisories : AdvisoryPublished(p, a)

PolicySpec == PolicyInit /\ [][PolicyNext]_policyVars

-----------------------------------------------------------------------------
(* Properties                                                              *)

\* Type invariant.
PolicyTypeOK ==
    /\ active \in Versions /\ \A v \in Versions : profiles[v] \in Contents
    /\ \A r \in Savers : saver[r].at \in {"idle", "printing", "writing", "removing"}
    /\ \A i \in 1 .. Len(assessed.findings) : assessed.findings[i].severity \in 1 .. 5

\* Whatever is switched, deleted and restarted, there is an active profile to assess
\* with, so that a payload is never assessed with the zero profile.
ActiveIsDefined == Defined(active) /\ (assessed # NotAssessed => assessed.profile # NoProfile)

\* Of every version that no request is changing, a restart brings back exactly what is in
\* memory, deleted versions included, unless since the last start one of these happened to
\* it: its write or removal failed; two requests about it overlapped; a request for another
\* version took its file; a file of another name holds it too, as the shipped files do;
\* createPolicy printed it in a way that reads differently; or it is the built-in one and
\* was deleted.
RestartKeepsProfiles ==
    \A v \in Versions \ unsure : ~ Busy(v) => LoadedProfiles(policyFiles)[v] = profiles[v]

\* p asks for at least as much as q.
Stricter(p, q) ==
    /\ p # NoProfile /\ p.bits >= q.bits /\ (q.hybrid => p.hybrid) /\ (q.cnsa => p.cnsa)
    /\ Threshold(p) <= Threshold(q)

\* A stricter profile finds something about every algorithm and asset that the one used
\* complained about, no key is reported twice that the agent did not itself report twice,
\* and assessing the result again, as when an agent uploads what it was told, adds nothing.
AssessmentIsMonotone ==
    LET found == assessed.findings
        again == Assess([assessed.payload EXCEPT !.findings = found], assessed.profile, assessed.osv)
    IN  assessed # NotAssessed =>
          /\ \A i, k \in 1 .. Len(found) :
               i < k /\ k > Len(assessed.payload.findings) => ~ SameKey(found[i], found[k])
          /\ again = found
          /\ \A v \in Versions :
               Stricter(profiles[v], assessed.profile) =>
                 LET other == Assess(assessed.payload, profiles[v], assessed.osv)
                 IN  \A i \in 1 .. Len(found) : \E k \in 1 .. Len(other) :
                       other[k].asset = found[i].asset /\ other[k].alg = found[i].alg

\* What is in memory of a version that nothing happened to is what the next start brings
\* back, and whatever is switched, deleted and restarted the active profile is defined.
ProfilesArePersistent == RestartKeepsProfiles /\ ActiveIsDefined
=============================================================================
