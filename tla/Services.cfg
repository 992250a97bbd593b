SPECIFICATION MCSpec
CONSTANTS
  Writers = {w1, w2, w3}
  Entries = {e1, e2, e3}
  None = None
  MaxPurges = 2
  MaxFaults = 1
  Hosts = {h1}
  Keys = {key1}
  Ops = {op1, op2}
  NoRecord = NoRecord
  MaxScans = 2
  BulkUpdateMax = 2
  MaxUpdates = 2
  MaxRetentions = 1
  Deployments <- MCDeployments
  MacKeys = {k1, k2}
  NoKey = NoKey
  MaxStarts = 2
  MaxTokenErrors = 1
  MaxTools = 1
  AgentStreams = {a1}
  Endpoints <- MCEndpoints
  MaxHooks = 1
  ChannelSets <- MCChannelSets
  MaxCritical = 1
  MaxAlerts = 2
  MaxCooldowns = 1
  SendAttempts = 1
  BreakerLimit = 2
  Accounts = {u1}
  Requests = {q1, q2}
  TTLs = {3}
  MinTTL = 4
  MaxTTL = 8
  TicketTTL = 1
  Skews <- MCSkews
  Epoch = 4
  MaxNow = 7
  MaxTokens = 2
  MaxTickets = 1
  MaxChanges = 2
  MaxRestarts = 1
  MaxLookupErrors = 1
  Conns = {"c1", "c2"}
  TenantOf <- MCTenantOf
  Casters = {b1}
  CastTenants = {"", "a"}
  ChanCap = 1
  MaxCasts = 2
  AgentIds = {"i1", "i2"}
  AgentHosts = {"ah1"}
  AgentTenants = {"t1"}
  AgentCalls = {c1, c2}
  AuthWindow = 1
  FreshFor = 0
  MaxRegistrations = 2
  MaxAgentNow = 1
  MaxCredReads = 1
  MaxStatusChanges = 1
CHECK_DEADLOCK FALSE
INVARIANTS ServicesTypeOK UnpurgedChainVerifies LinksSurvivePurge AlterationIsDetected StatusIsExplained FalsePositiveSticks CommandsAreSigned FingerprintIsStable AlertsAreSettled SessionsFollowPasswords HubServesConnections RegistryIsConsistent
