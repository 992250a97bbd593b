--------------------------- MODULE AgentIdentity ---------------------------
(***************************************************************************)
(* Agents that enrol, authenticate and register: the credentials written   *)
(* by `janus-server agent` (cli_agent.go), the check of a call             *)
(* (grpcserver/agent_auth.go, agentauth.go), and a registration            *)
(* (RegisterAgent, UpsertAgent), whose statements run outside any          *)
(* transaction, with the heartbeats beside it.                             *)
(*                                                                         *)
(* A token is the identity and the time it was made for: DeriveKey gives   *)
(* the tool, the agent and the controller the same key.  What a heartbeat  *)
(* reports about the scan is left out, and so is the broadcast of the      *)
(* registration (EventHub).                                                *)
(***************************************************************************)
EXTENDS Integers, Sequences, FiniteSets

CONSTANTS
    AgentIds,           \* agent_id
    AgentHosts,         \* host_uuid
    AgentTenants,       \* tenants besides "default"
    AgentCalls,         \* registrations handled at the same time
    AuthWindow,         \* JANUS_AGENT_AUTH_WINDOW_SECONDS
    FreshFor,           \* a session seen this long ago is continued (30 s)
    MaxRegistrations, MaxAgentNow, MaxCredReads, MaxStatusChanges

ASSUME AgentAssumption ==
    /\ AuthWindow \in Nat /\ FreshFor \in Nat /\ MaxRegistrations \in Nat /\ MaxAgentNow \in Nat
    /\ MaxCredReads \in Nat /\ MaxStatusChanges \in Nat /\ "default" \notin AgentTenants

VARIABLES
    perAgent,           \* JANUS_AGENT_AUTH_MODE=per-agent
    cred,               \* agent_credentials: status and tenant
    assetTenant,        \* assets.tenant_id, Blank without a row
    sessions,           \* agent_connection_sessions of each host, by connected_at:
                        \* open as long as disconnected_at is not set
    registering,        \* the registrations in progress
    agentNow,
    assigned,           \* history: the tenant the asset was given, at enrolment or by hand
    misread,            \* history: hosts first registered while the credential could not be read
    crowded,            \* history: hosts with registrations that overlapped
    registrations, credErrors, statusChanges

agentVars == <<perAgent, cred, assetTenant, sessions, registering, agentNow, assigned, misread,
               crowded, registrations, credErrors, statusChanges>>
agentBounds == <<registrations, credErrors, statusChanges>>

\* An empty column, or an identity an agent does not send
Blank == ""

NoCall == [at |-> "none", id |-> Blank, host |-> Blank, tenant |-> Blank]
NoCred == [status |-> "none", tenant |-> Blank]

AgentInit ==
    /\ perAgent \in BOOLEAN /\ cred = [i \in AgentIds |-> NoCred]
    /\ assetTenant = [h \in AgentHosts |-> Blank] /\ sessions = [h \in AgentHosts |-> << >>]
    /\ registering = [c \in AgentCalls |-> NoCall] /\ agentNow = 0
    /\ assigned = [h \in AgentHosts |-> Blank] /\ misread = {} /\ crowded = {}
    /\ registrations = 0 /\ credErrors = 0 /\ statusChanges = 0

-----------------------------------------------------------------------------
(* janus-server agent                                                      *)

\* agent enroll: a new agent_id, active
Enroll(i, t) ==
    /\ cred[i] = NoCred /\ cred' = [cred EXCEPT ![i] = [status |-> "active", tenant |-> t]]
    /\ UNCHANGED <<perAgent, assetTenant, sessions, registering, agentNow, assigned, misread, crowded,
                   agentBounds>>

\* agent enable, disable, revoke: any status follows any other
SetAgentStatus(i, status) ==
    /\ cred[i] # NoCred /\ cred[i].status # status
    /\ statusChanges < MaxStatusChanges /\ statusChanges' = statusChanges + 1
    /\ cred' = [cred EXCEPT ![i].status = status]
    /\ UNCHANGED <<perAgent, assetTenant, sessions, registering, agentNow, assigned, misread, crowded,
                   registrations, credErrors>>

-----------------------------------------------------------------------------
(* The check of a call                                                     *)

\* agentauth.Verify; a window of 0 accepts any time
TokenIsFresh(ts) ==
    AuthWindow > 0 => agentNow - ts <= AuthWindow /\ ts - agentNow <= AuthWindow

\* verifyAgentMD
VerifyAgent(i, ts) == cred[i].status = "active" /\ TokenIsFresh(ts)

\* A registration of host h reaches the handler, from an agent with the identity i or
\* with none (Blank): an agent sends the identity it was given in either mode, and only the
\* interceptor of per-agent mode looks at it before the handler does.
AdmitRegistration(c, i, h, ts) ==
    /\ registering[c] = NoCall /\ registrations < MaxRegistrations
    /\ i # Blank => cred[i] # NoCred
    /\ perAgent => i # Blank /\ VerifyAgent(i, ts)
    /\ registrations' = registrations + 1
    /\ registering' = [registering EXCEPT ![c] = [at |-> "tenant", id |-> i, host |-> h, tenant |-> Blank]]
    /\ crowded' = IF \E d \in AgentCalls : registering[d].host = h THEN crowded \cup {h} ELSE crowded
    /\ UNCHANGED <<perAgent, cred, assetTenant, sessions, agentNow, assigned, misread, credErrors,
                   statusChanges>>

-----------------------------------------------------------------------------
(* RegisterAgent and UpsertAgent                                           *)

EnrolledTenant(i) == IF i = Blank THEN "default" ELSE cred[i].tenant

\* resolveAgentTenant reads the credential, whatever its status; an error means "default".
ResolveTenant(c, readable) ==
    /\ registering[c].at = "tenant"
    /\ readable \/ (registering[c].id # Blank /\ credErrors < MaxCredReads)
    /\ credErrors' = IF readable THEN credErrors ELSE credErrors + 1
    /\ LET t == IF readable THEN EnrolledTenant(registering[c].id) ELSE "default"
       IN  registering' = [registering EXCEPT ![c].at = "asset", ![c].tenant = t]
    /\ UNCHANGED <<perAgent, cred, assetTenant, sessions, agentNow, assigned, misread, crowded,
                   registrations, statusChanges>>

\* tenant_id is written with the first registration only.
UpsertedTenant(h, t) == IF assetTenant[h] = Blank THEN t ELSE assetTenant[h]

UpsertAsset(c) ==
    LET h == registering[c].host
        t == registering[c].tenant
        enrolled == EnrolledTenant(registering[c].id)
    IN  /\ registering[c].at = "asset" /\ registering' = [registering EXCEPT ![c].at = "touch"]
        /\ assetTenant' = [assetTenant EXCEPT ![h] = UpsertedTenant(h, t)]
        /\ IF assetTenant[h] = Blank
             THEN /\ assigned' = [assigned EXCEPT ![h] = enrolled]
                  /\ misread' = IF t # enrolled THEN misread \cup {h} ELSE misread
             ELSE UNCHANGED <<assigned, misread>>
        /\ UNCHANGED <<perAgent, cred, sessions, agentNow, crowded, agentBounds>>

\* The newest of the open sessions of h that pass the test, or 0
NewestOpen(h, since) ==
    LET open == {k \in 1 .. Len(sessions[h]) :
                   sessions[h][k].state = "open" /\ sessions[h][k].seen >= since}
    IN  IF open = {} THEN 0 ELSE CHOOSE k \in open : \A j \in open : j <= k

\* A session that was seen in the last 30 seconds goes on.
TouchSession(c) ==
    LET h == registering[c].host
        k == NewestOpen(h, agentNow - FreshFor)
    IN  /\ registering[c].at = "touch"
        /\ IF k # 0 THEN /\ sessions' = [sessions EXCEPT ![h][k].seen = agentNow]
                         /\ registering' = [registering EXCEPT ![c] = NoCall]
                    ELSE /\ registering' = [registering EXCEPT ![c].at = "close"] /\ UNCHANGED sessions
        /\ UNCHANGED <<perAgent, cred, assetTenant, agentNow, assigned, misread, crowded, agentBounds>>

\* the close looks for sessions seen in the last 30 seconds, like the statement before it
CloseSessions_Fresh(c) ==
    LET h == registering[c].host
        k == NewestOpen(h, agentNow - FreshFor)
    IN  /\ registering[c].at = "close" /\ registering' = [registering EXCEPT ![c].at = "open"]
        /\ sessions' = IF k = 0 THEN sessions ELSE [sessions EXCEPT ![h][k].state = "closed"]
        /\ UNCHANGED <<perAgent, cred, assetTenant, agentNow, assigned, misread, crowded, agentBounds>>

CloseSessions(c) ==
    LET h == registering[c].host
    IN  /\ registering[c].at = "close" /\ registering' = [registering EXCEPT ![c].at = "open"]
        /\ sessions' = [sessions EXCEPT ![h] = [k \in DOMAIN @ |-> [state |-> "closed", seen |-> @[k].seen]]]
        /\ UNCHANGED <<perAgent, cred, assetTenant, agentNow, assigned, misread, crowded, agentBounds>>

OpenSession(c) ==
    LET h == registering[c].host
    IN  /\ registering[c].at = "open" /\ registering' = [registering EXCEPT ![c] = NoCall]
        /\ sessions' = [sessions EXCEPT ![h] = Append(@, [state |-> "open", seen |-> agentNow])]
        /\ UNCHANGED <<perAgent, cred, assetTenant, agentNow, assigned, misread, crowded, agentBounds>>

\* A statement of UpsertAgent fails, or the call is cancelled, between two of them.
RegistrationBreaks(c) ==
    /\ registering[c] # NoCall /\ registering' = [registering EXCEPT ![c] = NoCall]
    /\ UNCHANGED <<perAgent, cred, assetTenant, sessions, agentNow, assigned, misread, crowded,
                   agentBounds>>

-----------------------------------------------------------------------------
\* UpdateAgentHeartbeat: the newest open session of the host has been seen.
Heartbeat(h) ==
    LET k == NewestOpen(h, 0)
    IN  /\ k # 0 /\ sessions[h][k].seen # agentNow
        /\ sessions' = [sessions EXCEPT ![h][k].seen = agentNow]
        /\ UNCHANGED <<perAgent, cred, assetTenant, registering, agentNow, assigned, misread, crowded,
                       agentBounds>>

\* An administrator moves an asset to another tenant.
ReassignTenant(h, t) ==
    /\ assetTenant[h] \notin {Blank, t}
    /\ assetTenant' = [assetTenant EXCEPT ![h] = t] /\ assigned' = [assigned EXCEPT ![h] = t]
    /\ misread' = misread \ {h}
    /\ UNCHANGED <<perAgent, cred, sessions, registering, agentNow, crowded, agentBounds>>

AgentTick ==
    /\ agentNow < MaxAgentNow /\ agentNow' = agentNow + 1
    /\ UNCHANGED <<perAgent, cred, assetTenant, sessions, registering, assigned, misread, crowded,
                   agentBounds>>

-----------------------------------------------------------------------------
AgentNext ==
    \/ \E i \in AgentIds :
         \/ \E t \in AgentTenants \cup {"default"} : Enroll(i, t)
         \/ \E s \in {"active", "disabled", "revoked"} : SetAgentStatus(i, s)
    \/ \E c \in AgentCalls :
         \/ \E i \in AgentIds \cup {Blank}, h \in AgentHosts, ts \in 0 .. MaxAgentNow + 1 :
              AdmitRegistration(c, i, h, ts)
         \/ \E readable \in BOOLEAN : ResolveTenant(c, readable)
         \/ UpsertAsset(c) \/ TouchSession(c) \/ CloseSessions(c) \/ OpenSession(c)
         \/ RegistrationBreaks(c)
    \/ \E h \in AgentHosts :
         \/ Heartbeat(h)
         \/ \E t \in AgentTenants \cup {"default"} : ReassignTenant(h, t)
    \/ AgentTick

AgentSpec == AgentInit /\ [][AgentNext]_agentVars

-----------------------------------------------------------------------------
(* Properties                                                              *)

\* Type invariant.
AgentTypeOK ==
    /\ \A i \in AgentIds : cred[i].status \in {"none", "active", "disabled", "revoked"}
    /\ \A h \in AgentHosts : assetTenant[h] \in AgentTenants \cup {Blank, "default"}
    /\ \A h \in AgentHosts, k \in 1 .. MaxRegistrations :
         k <= Len(sessions[h]) => sessions[h][k].seen \in 0 .. agentNow
    /\ \A c \in AgentCalls : registering[c].at \in {"none", "tenant", "asset", "touch", "close", "open"}

\* An asset is in the tenant its agent was enrolled for, or in the one an administrator
\* moved it to since, whoever registers it again and in whatever order the statements
\* of overlapping registrations run, unless its first registration could not read the
\* credential: then it is in "default" and no later registration corrects that.
AssetIsInItsTenant ==
    \A h \in AgentHosts : assetTenant[h] # Blank /\ h \notin misread => assetTenant[h] = assigned[h]

\* The connection history of a host has at most one open session, the newest one, as
\* long as no two registrations of the host overlapped, also when registrations break
\* off between two statements.
OneOpenSession ==
    \A h \in AgentHosts \ crowded, k \in 1 .. MaxRegistrations :
        k < Len(sessions[h]) => sessions[h][k].state = "closed"

\* What the registry says of a host: its tenant, and whether it is connected.
RegistryIsConsistent == AssetIsInItsTenant /\ OneOpenSession
=============================================================================
