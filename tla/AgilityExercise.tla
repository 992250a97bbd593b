-------------------------- MODULE AgilityExercise --------------------------
(***************************************************************************)
(* Crypto-agility scorecards and dry-run exercises (internal/agility and   *)
(* httpapi/agility_waves.go).  A request reads the findings once, but no   *)
(* more than a page of them, computes the scorecards, the exercise report  *)
(* and the negotiation report from what it read, and then stores one       *)
(* metrics row per host, while findings come and go and other requests do  *)
(* the same.  Fractions of one are multiples of 1/Unit, a unit small       *)
(* enough that no share of a host's findings and no mean over hosts is     *)
(* rounded.                                                                *)
(***************************************************************************)
EXTENDS Integers, FiniteSetsExt, Functions

CONSTANTS
    ScoredHosts,
    FindingSets,    \* sets of findings a host may have
    PageLimit,      \* what FindingsPaginated makes of the 5000 asked for: 50
    TargetLists,    \* values of the targets parameter, {} for none
    ProfileTargets, \* the active profile's preferred KEM and signature
    Exercises,      \* requests
    Unit,           \* how many units make one
    MaxDay, MaxShifts

Divides(d, n) == \E q \in 0 .. n : n = d * q

ASSUME AgilityAssumption ==
    /\ MaxDay \in Nat /\ MaxShifts \in Nat /\ PageLimit \in Nat \ {0}
    /\ IsFiniteSet(ScoredHosts) /\ \A fs \in FindingSets : IsFiniteSet(fs)
    /\ Unit \in Nat \ {0} /\ Divides(100, Unit)
    /\ \A fs \in FindingSets, n \in 1 .. Cardinality(ScoredHosts) :
         \A k \in 1 .. Cardinality(fs) : Divides(n * k, Unit)

Fraction(n, d) == (n * Unit) \div d
Percent(n) == (n * Unit) \div 100

VARIABLES
    hostFindings,   \* crypto_findings by host: [id, alg, asset, source, severity]
    exercise,       \* the requests in progress
    agilityMetrics, \* rows of agility_metrics by host and day
    measured,       \* history: what exercises of each day computed
    today, shifts

agilityVars == <<hostFindings, exercise, agilityMetrics, measured, today, shifts>>

NoReport == [at |-> "idle", cards |-> << >>, adapters |-> << >>, day |-> 0, left |-> {}]
NoMetric == -1

AgilityInit ==
    /\ hostFindings \in [ScoredHosts -> FindingSets]
    /\ exercise = [e \in Exercises |-> NoReport]
    /\ agilityMetrics = [h \in ScoredHosts |-> [d \in 0 .. MaxDay |-> NoMetric]]
    /\ measured = {} /\ today = 0 /\ shifts = 0

-----------------------------------------------------------------------------
(* Scorecards                                                              *)

\* computeMaturity
Maturity(hardcoded, negotiable) ==
    CASE hardcoded < Percent(2) /\ negotiable > Percent(90) -> 4
      [] hardcoded < Percent(5) /\ negotiable > Percent(80) -> 3
      [] hardcoded < Percent(20) /\ negotiable > Percent(60) -> 2
      [] hardcoded < Percent(50) /\ negotiable > Percent(20) -> 1
      [] OTHER -> 0

\* The most assets one algorithm is used by, over the number of findings.
BlastRadius(fs) ==
    LET assets(alg) == Cardinality({f.asset : f \in {g \in fs : g.alg = alg}})
    IN  Fraction(Max({assets(f.alg) : f \in fs}), Cardinality(fs))

\* ComputeScorecard; a host without findings is not scored.  The services are those the
\* caller counted.
ComputeScorecard(fs, services, negotiable) ==
    LET hi == Fraction(Cardinality({f \in fs : f.source}), Cardinality(fs))
        nc == IF services > 0 THEN Fraction(negotiable, services) ELSE 0
    IN  [hardcode |-> hi, negotiation |-> nc, blast |-> BlastRadius(fs),
         maturity |-> Maturity(hi, nc)]

\* ComputeFleetScorecard of one host or more
ComputeFleetScorecard(cards) ==
    LET hs == DOMAIN cards
        mean(values) == SumFunction(values) \div Cardinality(hs)
        hardcode     == mean([h \in hs |-> cards[h].hardcode])
        negotiation  == mean([h \in hs |-> cards[h].negotiation])
    IN  [hardcode |-> hardcode, negotiation |-> negotiation,
         blast |-> mean([h \in hs |-> cards[h].blast]), maturity |-> Maturity(hardcode, negotiation)]

-----------------------------------------------------------------------------
(* The exercise                                                            *)

Grade(points, of) ==
    CASE points * 100 >= 90 * of -> "A"
      [] points * 100 >= 75 * of -> "B"
      [] points * 100 >= 60 * of -> "C"
      [] points * 100 >= 45 * of -> "D"
      [] OTHER -> "F"

Dimensions == {"hardcode_index", "negotiation_coverage", "blast_radius_score", "maturity_level"}

\* The dimensions a scorecard passes.
Passed(card) ==
    {d \in Dimensions :
       CASE d = "hardcode_index" -> card.hardcode < Percent(20)
         [] d = "negotiation_coverage" -> card.negotiation > Percent(70)
         [] d = "blast_radius_score" -> card.blast < Percent(50)
         [] d = "maturity_level" -> card.maturity >= 2}

RunExercise(cards) ==
    LET hs   == DOMAIN cards
        pass == SumFunction([h \in hs |-> Cardinality(Passed(cards[h]))])
        fail == SumFunction([h \in hs |-> Cardinality(Dimensions \ Passed(cards[h]))])
    IN  [hosts |-> Cardinality(hs), pass |-> pass, fail |-> fail,
         grade |-> IF hs = {} THEN "F" ELSE Grade(pass, 4 * Cardinality(hs))]

-----------------------------------------------------------------------------
(* The negotiation harness                                                 *)

\* BuiltinAdapters.  Only nginx, apache and ssh negotiate at run time.
BuiltinAdapters ==
    LET tls == {"X25519MLKEM768", "SecP256r1MLKEM768"}
        dsa == {"ML-DSA-65", "ML-DSA-87"}
    IN  {[name |-> "nginx", kems |-> tls, signatures |-> dsa, negotiates |-> TRUE],
         [name |-> "apache", kems |-> tls, signatures |-> dsa, negotiates |-> TRUE],
         [name |-> "ssh", kems |-> {"MLKEM768X25519-SHA256", "SNTRUP761X25519-SHA512"},
          signatures |-> {}, negotiates |-> TRUE],
         [name |-> "windows-trust-store", kems |-> {}, signatures |-> dsa, negotiates |-> FALSE],
         [name |-> "windows-schannel-policy", kems |-> {}, signatures |-> {},
          negotiates |-> FALSE]}

\* The spellings a target may have.
NormalizeAlgorithm(t) ==
    CASE t \in {"KYBER", "ML-KEM", "ML-KEM-768"} -> "ML-KEM-768"
      [] t \in {"DILITHIUM", "ML-DSA", "ML-DSA-65"} -> "ML-DSA-65"
      [] OTHER -> t

\* A pure ML-KEM-768 target is met by a hybrid group that embeds it.
AdapterCovers(a, t) ==
    \/ t \in a.kems \cup a.signatures
    \/ t = "ML-KEM-768" /\ a.kems \cap {"X25519MLKEM768", "SecP256r1MLKEM768",
                                       "MLKEM768X25519-SHA256"} # {}

Readiness(a, targets) ==
    LET matched == {t \in targets : a.negotiates /\ AdapterCovers(a, t)}
    IN  CASE matched = {} -> "unsupported"
          [] matched # {} /\ matched = targets -> "ready"
          [] OTHER -> "partial"

RunNegotiationHarness(raw) ==
    LET targets == {NormalizeAlgorithm(t) : t \in raw}
        count(r) == Cardinality({a \in BuiltinAdapters : Readiness(a, targets) = r})
    IN  [targets |-> targets, ready |-> count("ready"), partial |-> count("partial"),
         unsupported |-> count("unsupported"),
         grade |-> Grade(2 * count("ready") + count("partial"), 2 * Cardinality(BuiltinAdapters))]

\* EstimateTTSADays, in days times Unit
EstimateTTSADays(card, report) ==
    5 * Unit + 40 * card.hardcode + 20 * card.blast
        + 15 * (Unit - Fraction(2 * report.ready + report.partial, 2 * Cardinality(BuiltinAdapters)))

-----------------------------------------------------------------------------
(* Requests                                                                *)

\* A limit above 500 is replaced by that of one page, and the most severe findings come
\* first, in any order among equals.
FindingsPaginated ==
    LET found == {p \in ScoredHosts \X UNION FindingSets : p[2] \in hostFindings[p[1]]}
    IN  {page \in kSubset(Min({PageLimit, Cardinality(found)}), found) :
           \A p \in page, q \in found \ page : q[2].severity <= p[2].severity}

\* agilityExercise up to its first write.  A host none of whose findings are on the page is
\* not scored, and any other by those that are.  The handlers count no services, so that
\* every scorecard has negotiation coverage 0.
StartExercise(e, requested, page) ==
    /\ exercise[e].at = "idle"
    /\ LET read(h) == {f \in hostFindings[h] : <<h, f>> \in page}
           hs    == {h \in ScoredHosts : read(h) # {}}
           cards == [h \in hs |-> ComputeScorecard(read(h), 0, 0)]
           harness == RunNegotiationHarness(IF requested = {} THEN ProfileTargets ELSE requested)
       IN  /\ exercise' = [exercise EXCEPT ![e] = [at |-> "storing", cards |-> cards,
                             adapters |-> harness, day |-> today, left |-> hs]]
           /\ measured' = measured \cup {<<h, today, EstimateTTSADays(cards[h], harness)>> : h \in hs}
    /\ UNCHANGED <<hostFindings, agilityMetrics, today, shifts>>

\* the row is dated by the clock of the database
UpsertAgilityMetrics_Now(h, d, value) == [agilityMetrics EXCEPT ![h][today] = value]

\* The row of a host and a day is replaced.
UpsertAgilityMetrics(h, d, value) == [agilityMetrics EXCEPT ![h][d] = value]

\* Errors of the writes are dropped.
StoreMetrics(e, h, ok) ==
    /\ exercise[e].at = "storing" /\ h \in exercise[e].left
    /\ exercise' = [exercise EXCEPT ![e].left = @ \ {h}]
    /\ agilityMetrics' =
         IF ok THEN UpsertAgilityMetrics(h, exercise[e].day,
                      EstimateTTSADays(exercise[e].cards[h], exercise[e].adapters))
               ELSE agilityMetrics
    /\ UNCHANGED <<hostFindings, measured, today, shifts>>

AnswerExercise(e) ==
    /\ exercise[e].at = "storing" /\ exercise[e].left = {}
    /\ exercise' = [exercise EXCEPT ![e].at = "over"]
    /\ UNCHANGED <<hostFindings, agilityMetrics, measured, today, shifts>>

-----------------------------------------------------------------------------
FindingsShift(h, fs) ==
    /\ shifts < MaxShifts /\ shifts' = shifts + 1 /\ fs # hostFindings[h]
    /\ hostFindings' = [hostFindings EXCEPT ![h] = fs]
    /\ UNCHANGED <<exercise, agilityMetrics, measured, today>>

DayPasses ==
    /\ today < MaxDay /\ today' = today + 1
    /\ UNCHANGED <<hostFindings, exercise, agilityMetrics, measured, shifts>>

AgilityNext ==
    \/ \E e \in Exercises :
         \/ \E requested \in TargetLists, page \in FindingsPaginated : StartExercise(e, requested, page)
         \/ \E h \in ScoredHosts, ok \in BOOLEAN : StoreMetrics(e, h, ok)
         \/ AnswerExercise(e)
    \/ \E h \in ScoredHosts, fs \in FindingSets : FindingsShift(h, fs)
    \/ DayPasses

AgilitySpec == AgilityInit /\ [][AgilityNext]_agilityVars

-----------------------------------------------------------------------------
(* Properties                                                              *)

\* Type invariant.
AgilityTypeOK ==
    /\ today \in 0 .. MaxDay /\ shifts \in 0 .. MaxShifts
    /\ \A e \in Exercises : exercise[e].left \subseteq DOMAIN exercise[e].cards

\* A metrics row holds what some exercise that began on its day computed for its host,
\* although the rows are written later, one by one, and by requests that overlap and
\* run past midnight.
MetricIsOfItsDay ==
    \A h \in ScoredHosts, d \in 0 .. MaxDay :
        agilityMetrics[h][d] # NoMetric => <<h, d, agilityMetrics[h][d]>> \in measured

\* On everything an exercise can read, the fleet's estimate lies between those of its best
\* and its worst host.
EstimateIsBetween ==
    \A e \in Exercises :
        LET cards   == exercise[e].cards
            harness == exercise[e].adapters
            ttsa    == {EstimateTTSADays(cards[h], harness) : h \in DOMAIN cards}
        IN  exercise[e].at = "storing" /\ DOMAIN cards # {} =>
              EstimateTTSADays(ComputeFleetScorecard(cards), harness) \in Min(ttsa) .. Max(ttsa)

\* No fleet is graded better than D, whatever is found on it: GUIDE.md:561-563 says that without
\* a count of services maturity "stays low", and two of the four dimensions then fail
\* on every host.
GradeIsCapped ==
    \A e \in Exercises :
        exercise[e].at = "storing" => RunExercise(exercise[e].cards).grade \in {"D", "F"}

\* An exercise stores what it computed under its day, and its report has the bounds that
\* its scorecards give it.
ExerciseIsConsistent == MetricIsOfItsDay /\ EstimateIsBetween /\ GradeIsCapped
=============================================================================
