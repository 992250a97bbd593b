SPECIFICATION MCSpec
CONSTANTS
  Subjects = {f1, f2}
  LlmModes = {"disabled", "analysis_only", "suggest_remediation"}
  MaxRuns = 1
  MaxConcurrent = 1
  CallLimit = 1
  CallWindow = 2
  MaxLlmNow = 2
  Suggestions = {s1, s2}
  Appliers = {p1}
  Proposals <- MCProposals
  Governors <- MCGovernors
  NoPatch = NoPatch
  MaxRemNow = 2
  MaxReviews = 1
  ScoredHosts = {sh1, sh2}
  FindingSets <- MCFindingSets
  PageLimit = 3
  TargetLists <- MCTargetLists
  ProfileTargets = {"ML-KEM-1024", "ML-DSA-65"}
  Exercises = {x1, x2}
  Unit = 2400
  MaxDay = 1
  MaxShifts = 1
  Versions = {"nist-pqc-2026.1", "nist-pqc-2026", "custom-enterprise", "custom"}
  NFiles = 4
  FileOf <- MCFileOf
  NistFiles = {3, 4}
  Shipped <- MCShipped
  Settings <- MCSettings
  Quoted <- MCQuoted
  AgentVersions = {"custom"}
  Savers = {r1, r2}
  Payloads <- MCPayloads
  Packages = {"openssl"}
  Advisories <- MCAdvisories
  MaxSaves = 2
  MaxWriteErrors = 1
  MaxEngineStarts = 1
  LlmKeys = {"k1", "k2"}
  FleetSettings = {"s1"}
  Operators = {o1, o2}
  ConfigHosts = {"ch1"}
  ConfigProfiles = {"p1"}
  MaxFleetSaves = 3
  MaxFleetErrors = 1
  Cmds = {c1, c2}
  Edits = {e1, e2}
  None = None
  MaxIOErrors = 2
  MaxCrashes = 1
SYMMETRY MCSymmetry
CHECK_DEADLOCK FALSE
INVARIANTS GovernanceTypeOK JobsAreAccountedFor RemediationIsGoverned ExerciseIsConsistent ProfilesArePersistent AssessmentIsMonotone FleetKeyIsKept UndoIsPossible SuccessSticks QuietEditsKept FailedIsUndone
