---------------------------- MODULE MCServices ------------------------------
(***************************************************************************)
(* Services of the controller side by side.  They share no variable, so a  *)
(* behaviour of the controller is an interleaving of independent ones, and *)
(* an invariant of one service holds in it exactly if it holds in that     *)
(* service alone.  The variable focus, chosen at the start, names the      *)
(* service that runs; the others keep an initial state.  TLC then explores *)
(* the sum of the services' state spaces instead of their product.         *)
(***************************************************************************)
EXTENDS AuditChain, FindingLifecycle, CommandSigning, AlertDispatch, OperatorSessions,
        EventHub, AgentIdentity, TLC

VARIABLE focus

-----------------------------------------------------------------------------
(* Values of the constants                                                 *)

MCDeployments ==
    LET sound == [commandKey |-> "ok", agentAuth |-> "per-agent", master |-> TRUE,
                  require |-> "mtls", transport |-> "mtls"]
        plain == [hsm |-> "other", signCommands |-> TRUE, scheme |-> "hmac",
                  keyFile |-> FALSE, certified |-> "none"]
    IN  {sound @@ [hsm |-> h, signCommands |-> TRUE, scheme |-> "ml-dsa", keyFile |-> f,
                   certified |-> c] :
           h \in {"disabled", "software", "pkcs11"}, f \in BOOLEAN,
           c \in {"none", "file", "first"}}
        \cup {sound @@ [plain EXCEPT !.signCommands = FALSE, !.scheme = "ml-dsa"]}
        \cup {[sound EXCEPT !.require = r, !.transport = t] @@ plain :
                r \in {"", "tls", "mtls", "1"}, t \in {"plain", "tls", "mtls"}}
        \cup {[sound EXCEPT !.commandKey = k, !.agentAuth = a, !.master = FALSE] @@ plain :
                k \in {"missing", "ok"}, a \in {"shared", "per-agent", "other"}}

MCEndpoints == {[scheme |-> s, host |-> "public"] : s \in {"http", "https"}}
MCChannelSets == {{}, {"slack"}}

\* The database's clock is a second behind, exact, or a second ahead.
MCSkews == {-2, 0, 2}

MCTenantOf == [c \in Conns |-> IF c = "c1" THEN "a" ELSE "b"]

-----------------------------------------------------------------------------
(* The sum                                                                 *)

\* A service that does not run has one configuration, whichever.
MCInit ==
    /\ focus \in {"audit", "findings", "signing", "alerts", "sessions", "hub", "agents"}
    /\ focus = "signing" \/ (/\ deploy = (CHOOSE d \in Deployments : TRUE)
                             /\ macKey = (CHOOSE k \in MacKeys : TRUE))
    /\ focus = "alerts" \/ channels = {}
    /\ focus = "sessions" \/ (/\ ttl = (CHOOSE t \in TTLs : TRUE)
                              /\ skew = (CHOOSE d \in Skews : TRUE))
    /\ focus = "agents" \/ perAgent = FALSE
    /\ Init /\ LifecycleInit /\ SigningInit /\ AlertInit /\ SessionInit /\ HubInit /\ AgentInit

\* Only this service takes the step.
In(service, step) ==
    /\ focus = service /\ step /\ UNCHANGED focus
    /\ IF focus = "audit" THEN TRUE ELSE UNCHANGED vars
    /\ IF focus = "findings" THEN TRUE ELSE UNCHANGED lifecycleVars
    /\ IF focus = "signing" THEN TRUE ELSE UNCHANGED signingVars
    /\ IF focus = "alerts" THEN TRUE ELSE UNCHANGED alertVars
    /\ IF focus = "sessions" THEN TRUE ELSE UNCHANGED sessionVars
    /\ IF focus = "hub" THEN TRUE ELSE UNCHANGED hubVars
    /\ IF focus = "agents" THEN TRUE ELSE UNCHANGED agentVars

MCNext ==
    \/ In("audit", \E w \in Writers, e \in Entries : Begin(w, e))
    \/ In("audit", \E w \in Writers : Lock(w))
    \/ In("audit", \E w \in Writers : ReadPrev(w))
    \/ In("audit", \E w \in Writers : InsertRow(w))
    \/ In("audit", \E w \in Writers : Rollback(w))
    \/ In("audit", \E n \in 1 .. Len(table) : PurgeOldTelemetry(n))
    \/ In("findings", \E h \in Hosts, found \in SUBSET Keys : Scan(h, found))
    \/ In("findings", \E s \in queued : InsertTelemetry(s))
    \/ In("findings", \E s \in queued : Acked(s))
    \/ In("findings", \E o \in Ops, i \in Items : FindingStatus(o, i))
    \/ In("findings", \E o \in Ops, i \in Items, j \in Items : BulkUpdateFindings(o, <<i, j>>))
    \/ In("findings", \E o \in Ops : ReadStatus(o))
    \/ In("findings", \E o \in Ops : WriteStatus(o))
    \/ In("findings", \E n \in 1 .. MaxScans : PurgeFindings(n))
    \/ In("signing", StartController)
    \/ In("signing", OpenBackend)
    \/ In("signing", FindMac)
    \/ In("signing", ImportMac)
    \/ In("signing", NoPair)
    \/ In("signing", SoftPair)
    \/ In("signing", FilePair)
    \/ In("signing", FindPair)
    \/ In("signing", GeneratePair)
    \/ In("signing", ReadPublic)
    \/ In("signing", CheckCert)
    \/ In("signing", Serve)
    \/ In("signing", StopController)
    \/ In("signing", IssueCommand)
    \/ In("signing", ToolKeygen)
    \/ In("signing", ToolGenerates)
    \/ In("signing", ToolRemove)
    \/ In("signing", ToolDestroys)
    \/ In("alerts", \E u \in Endpoints : AddWebhook(u))
    \/ In("alerts", \E u \in Endpoints : CooldownEnds(u))
    \/ In("alerts", \E i \in 1 .. MaxHooks : DeleteWebhook(i))
    \/ In("alerts", \E s \in AgentStreams : OpenAgentStream(s))
    \/ In("alerts", \E s \in AgentStreams : StreamReturns(s))
    \/ In("alerts", \E s \in AgentStreams, n \in 0 .. MaxCritical : Alert(s, n))
    \/ In("alerts", \E d \in DOMAIN dispatch : LoadWebhooks(d))
    \/ In("alerts", \E d \in DOMAIN dispatch : NextWebhook(d))
    \/ In("alerts", \E d \in DOMAIN dispatch : NotifyNext(d))
    \/ In("alerts", \E d \in DOMAIN dispatch, answer \in {"2xx", "other"} :
         SendEvent(d, answer))
    \/ In("alerts", \E d \in DOMAIN dispatch, c \in channels : ChannelSends(d, c))
    \/ In("alerts", ListenerFails)
    \/ In("alerts", BeginDraining)
    \/ In("alerts", GraceExpires)
    \/ In("alerts", GracefulStop)
    \/ In("alerts", WaitWebhooks)
    \/ In("alerts", ShutdownHTTP)
    \/ In("sessions", \E r \in Requests, u \in Accounts, pw \in 0 .. MaxChanges :
         LoginChecks(r, u, pw))
    \/ In("sessions", \E r \in Requests : GenerateToken(r))
    \/ In("sessions", \E r \in Requests : SetCredentialOverride(r))
    \/ In("sessions", \E r \in Requests : Revoke(r))
    \/ In("sessions", \E r \in Requests, k \in tokens : ChangeChecks(r, k))
    \/ In("sessions", \E k \in tokens, i \in 1 .. MaxTickets : IssueTicket(k, i))
    \/ In("sessions", \E t \in tickets : ConsumeTicket(t))
    \/ In("sessions", Tick)
    \/ In("sessions", RestartController)
    \/ In("hub", \E c \in Conns : Upgrade(c))
    \/ In("hub", \E c \in Conns : ReadEnds(c))
    \/ In("hub", \E c \in Conns : PeerStalls(c))
    \/ In("hub", \E c \in Conns : PeerReads(c))
    \/ In("hub", TakeRegister)
    \/ In("hub", TakeUnregister)
    \/ In("hub", Register)
    \/ In("hub", Unregister)
    \/ In("hub", PingTick)
    \/ In("hub", PingNext)
    \/ In("hub", \E b \in Casters, t \in CastTenants : StartCast(b, t))
    \/ In("hub", \E b \in Casters : RLock(b))
    \/ In("hub", \E b \in Casters : CastReturns(b))
    \/ In("hub", \E b \in Casters, c \in Conns : WriteText(b, c))
    \/ In("agents", \E i \in AgentIds, t \in AgentTenants \cup {"default"} : Enroll(i, t))
    \/ In("agents", \E i \in AgentIds, s \in {"active", "disabled", "revoked"} :
         SetAgentStatus(i, s))
    \/ In("agents", \E c \in AgentCalls, i \in AgentIds \cup {""}, h \in AgentHosts,
             ts \in 0 .. MaxAgentNow + 1 :
         AdmitRegistration(c, i, h, ts))
    \/ In("agents", \E c \in AgentCalls, readable \in BOOLEAN : ResolveTenant(c, readable))
    \/ In("agents", \E c \in AgentCalls : UpsertAsset(c))
    \/ In("agents", \E c \in AgentCalls : TouchSession(c))
    \/ In("agents", \E c \in AgentCalls : CloseSessions(c))
    \/ In("agents", \E c \in AgentCalls : OpenSession(c))
    \/ In("agents", \E c \in AgentCalls : RegistrationBreaks(c))
    \/ In("agents", \E h \in AgentHosts : Heartbeat(h))
    \/ In("agents", \E h \in AgentHosts, t \in AgentTenants \cup {"default"} :
         ReassignTenant(h, t))
    \/ In("agents", AgentTick)

MCSpec ==
    MCInit /\ [][MCNext]_
      <<vars, lifecycleVars, signingVars, alertVars, sessionVars, hubVars, agentVars, focus>>

\* The type invariant of the service that runs.
ServicesTypeOK ==
    CASE focus = "audit"    -> TypeOK
      [] focus = "findings" -> LifecycleTypeOK
      [] focus = "signing"  -> SigningTypeOK
      [] focus = "alerts"   -> AlertTypeOK
      [] focus = "sessions" -> SessionTypeOK
      [] focus = "hub"      -> HubTypeOK
      [] focus = "agents"   -> AgentTypeOK
=============================================================================
