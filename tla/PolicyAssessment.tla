------------------------- MODULE PolicyAssessment -------------------------
(***************************************************************************)
(* What the policy engine finds in a payload (policy/engine.go, osv.go):   *)
(* the rules on algorithms, network observations and vulnerable packages,  *)
(* in the order in which the engine appends them, without the texts.       *)
(* Confidence is in thousandths.  An algorithm's name stands for every spelling *)
(* with the same matches in the engine's substring tests.                  *)
(***************************************************************************)
EXTENDS Integers, SequencesExt

Info == 1
Medium == 3
High == 4
Critical == 5

\* A finding and its key: the asset, the algorithm and the rule.
Finding(severity, asset, alg, rule) ==
    [severity |-> severity, asset |-> asset, alg |-> alg, rule |-> rule]

SameKey(f, g) == f.asset = g.asset /\ f.alg = g.alg /\ f.rule = g.rule

AppendFinding_Always(found, f) == Append(found, f)

\* appendFinding, hasFinding: the first finding of a key stays.
AppendFinding(found, f) ==
    IF \E i \in 1 .. Len(found) : SameKey(found[i], f) THEN found ELSE Append(found, f)

-----------------------------------------------------------------------------
(* Algorithms                                                              *)

PublicKeyRoles == {"kem", "key-exchange", "signature", "cert-public-key", "cert-signature"}
SignatureRoles == {"signature", "cert-public-key", "cert-signature"}

\* The names in which strings.Contains finds RSA, ECDSA, ECDH, ECDHE, DH or DSA, and the
\* families with one of theirs.  "DSA" is also part of ML-DSA and SLH-DSA.
ClassicalPublicKey(alg) ==
    \/ alg.name \in {"RSA", "ECDSA", "ECDH", "DH", "DSA", "ML-DSA", "SLH-DSA"}
    \/ alg.family \in {"RSA", "ECC", "DIFFIE-HELLMAN", "DSA"}

\* adjustSeverityForIntent
AdjustSeverityForIntent(base, alg) ==
    CASE alg.status \in {"verify", "parse"} -> IF base >= 2 THEN base - 2 ELSE Info
      [] alg.status = "negotiate" -> IF base >= 1 THEN base - 1 ELSE Info
      [] OTHER -> base

\* A profile without a threshold has the default one.
Threshold(profile) == IF profile.confidence <= 0 THEN 400 ELSE profile.confidence

Considered(alg, profile) ==
    /\ ~ (alg.confidence > 0 /\ alg.confidence < Threshold(profile))
    /\ alg.status # "test-only"

\* The rule for a classical public-key algorithm and its severity.
PublicKeyRule(alg, profile) ==
    CASE alg.role \notin SignatureRoles -> <<"JANUS-PQC-007", High>>
      [] alg.role \in SignatureRoles /\ alg.name = "RSA" /\ alg.bits > 0 /\ alg.bits < profile.bits
           -> <<"JANUS-PQC-002", Critical>>
      [] OTHER -> <<"JANUS-PQC-001", High>>

\* assessAlgorithm: at most one finding of one algorithm
AssessAlgorithm(asset, alg, profile) ==
    LET rule == PublicKeyRule(alg, profile)
        at(base) == AdjustSeverityForIntent(base, alg)
    IN  CASE ~ Considered(alg, profile) -> << >>
          [] Considered(alg, profile) /\ alg.role \in PublicKeyRoles /\ ClassicalPublicKey(alg) ->
               <<Finding(at(rule[2]), asset, alg.name, rule[1])>>
          [] OTHER ->
               (IF alg.name \in {"MD5", "SHA-1"}
                  THEN <<Finding(at(High), asset, alg.name, "JANUS-CLASSICAL-003")>> ELSE << >>)
               \o (IF alg.name = "AES-128" /\ alg.role = "symmetric"
                     THEN <<Finding(at(Medium), asset, alg.name, "JANUS-PQC-004")>> ELSE << >>)

\* assessCNSA looks neither at the confidence nor at the status.
AssessCNSA(asset, alg) ==
    (IF (alg.name = "ECDSA" \/ alg.name = "ECC") /\ alg.curve = "P-256"
       THEN <<Finding(High, asset, alg.name, "JANUS-CNSA-001")>> ELSE << >>)
    \o (IF alg.name = "SHA-256" /\ alg.role = "hash"
          THEN <<Finding(Medium, asset, alg.name, "JANUS-CNSA-002")>> ELSE << >>)
    \o (IF alg.name = "AES-128" /\ alg.role = "symmetric"
          THEN <<Finding(High, asset, alg.name, "JANUS-CNSA-003")>> ELSE << >>)

-----------------------------------------------------------------------------
(* Network observations                                                    *)

AssessNetwork(obs, profile) ==
    IF obs.cleartext THEN <<Finding(Critical, obs.endpoint, "cleartext", "JANUS-NET-001")>>
    ELSE (IF obs.tls \in {"", "TLS1.0", "TLS1.1", "TLS1.2"}
            THEN <<Finding(High, obs.endpoint, obs.cipher, "JANUS-NET-002")>> ELSE << >>)
         \o (IF profile.hybrid /\ ~ obs.hybrid /\ obs.group # "X25519MLKEM768"
               THEN <<Finding(Critical, obs.endpoint, obs.group, "JANUS-PQC-005")>> ELSE << >>)
         \o (IF obs.signature \in {"RSA", "ECDSA"}
               THEN <<Finding(High, obs.endpoint, obs.signature, "JANUS-PQC-006")>> ELSE << >>)

-----------------------------------------------------------------------------
(* Vulnerable packages                                                     *)

\* localAdvisories: the versions below the last component are affected.
LocalAdvisories ==
    << <<"CVE-2023-48795", "golang.org/x/crypto", 4, <<0, 17, 0>> >>,
       <<"CVE-2024-24789", "golang.org/x/crypto", 3, <<0, 21, 0>> >>,
       <<"CVE-2023-3446", "openssl", 3, <<3, 0, 10>> >>,
       <<"CVE-2024-22369", "node-forge", 5, <<1, 3, 1>> >> >>

\* compareVersions on the first three numbers; a part that is not a number counts as 0.
OlderThan(v, w) ==
    \E i \in 1 .. 3 : v[i] < w[i] /\ \A k \in 1 .. i - 1 : v[k] = w[k]

\* OSVSeverityToJanus: a CVSS score in tenths, or the default without one
SeverityOfScore(score) ==
    CASE score >= 90 -> Critical [] score \in 70 .. 89 -> High [] score \in 40 .. 69 -> Medium
      [] score \in 0 .. 39 -> 2 [] OTHER -> Medium

\* assessComponentVulnerabilities; the OSV answer holds the records that
\* FilterCryptoRelevant keeps.
AssessVulnerabilities(component, osv) ==
    LET affects(adv) == component.name = adv[2] /\ OlderThan(component.version, adv[4])
        local(adv) == IF affects(adv) THEN <<Finding(adv[3], component.ref, adv[1], adv[1])>> ELSE << >>
        live == SetToSeq({v \in osv : v.crypto})
    IN  IF component.version = << >> THEN << >>
        ELSE FlattenSeq([i \in 1 .. Len(LocalAdvisories) |-> local(LocalAdvisories[i])])
             \o [i \in 1 .. Len(live) |->
                   Finding(SeverityOfScore(live[i].score), component.ref, live[i].id, live[i].id)]

-----------------------------------------------------------------------------
(* A payload                                                               *)

\* The findings of one component's algorithms, in their order
AlgorithmFindings(c, profile) ==
    FlattenSeq([i \in 1 .. Len(c.algs) |-> AssessAlgorithm(c.ref, c.algs[i], profile)])

CNSAFindings(c) == FlattenSeq([i \in 1 .. Len(c.algs) |-> AssessCNSA(c.ref, c.algs[i])])

\* assessWithProfile: every finding it tries to append, in order; osv gives the answer for
\* each package.
Candidates(payload, profile, osv) ==
    LET cs == payload.components
        ns == payload.network
    IN  FlattenSeq([i \in 1 .. Len(cs) |-> AlgorithmFindings(cs[i], profile)
                                           \o AssessVulnerabilities(cs[i], osv[cs[i].name])])
        \o FlattenSeq([i \in 1 .. Len(ns) |-> AssessNetwork(ns[i], profile)])
        \o (IF profile.cnsa THEN FlattenSeq([i \in 1 .. Len(cs) |-> CNSAFindings(cs[i])]) ELSE << >>)

\* One after the other, each against what is there by then.
AppendAll(found, candidates) ==
    LET appended[n \in 0 .. Len(candidates)] ==
            IF n = 0 THEN found ELSE AppendFinding(appended[n - 1], candidates[n])
    IN  appended[Len(candidates)]

\* What assessWithProfile makes of the payload's findings.
Assess(payload, profile, osv) == AppendAll(payload.findings, Candidates(payload, profile, osv))
=============================================================================
