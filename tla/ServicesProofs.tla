--------------------------- MODULE ServicesProofs ---------------------------
(***************************************************************************)
(* Proofs about the controller's services: the WebSocket hub, the registry *)
(* of agents, the findings, the signing of commands, the alerts and the    *)
(* operators' sessions.  The services share no state, so each part has an  *)
(* inductive invariant of its own, over its own specification; the sum of  *)
(* the services, with the audit chain, implements all of them.             *)
(***************************************************************************)
EXTENDS MCServices, AuditChainProofs, FiniteSetTheorems

-----------------------------------------------------------------------------
(* EventHub: connections, clients and broadcasts                           *)

CasterState == [at : {"idle", "locking", "writing"}, tenant : {EveryTenant} \cup CastTenants,
                left : SUBSET Conns]

\* The shape of the hub's state
HubShape ==
    /\ conn \in [Conns -> {"new", "reading", "over"}]
    /\ register \in Seq(Conns) /\ unregister \in Seq(Conns)
    /\ hubAt.at \in {"select", "register", "unregister", "ping"}
    /\ hubAt.at \in {"register", "unregister"} => hubAt.conn \in Conns
    /\ caster \in [Casters -> CasterState]

\* Only a ping has connections left to ping, and only a broadcast that holds the read
\* lock has connections left to write to.
HubLocks ==
    /\ hubAt.at # "ping" => pinging = {}
    /\ \A b \in Casters : caster[b].at # "writing" => caster[b].left = {}

\* c waits in a channel
Waits(c, channel) == \E i \in 1 .. Len(channel) : channel[i] = c

\* run has taken c from a channel and waits for the lock
Takes(at, c) == hubAt.at = at /\ hubAt.conn = c

\* A connection whose read loop runs is a client or on its way to become one.
ReadingIsServed ==
    \A c \in Conns : conn[c] = "reading" =>
        c \in clients \/ Waits(c, register) \/ Takes("register", c)

\* A connection whose read loop has ended is closed or on its way to be.
OverIsClosed ==
    \A c \in Conns : conn[c] = "over" =>
        c \in closed \/ Waits(c, unregister) \/ Takes("unregister", c)

\* Nobody closes or unregisters a connection before its read loop has ended.
OnlyOverLeaves ==
    \A c \in Conns :
        c \in closed \/ Waits(c, unregister) \/ Takes("unregister", c) => conn[c] = "over"

HubInv ==
    HubShape /\ HubTypeOK /\ HubLocks /\ ReadingIsServed /\ OverIsClosed /\ OnlyOverLeaves

\* What a channel holds after a send and after a receive.
LEMMA ChannelMoves ==
    ASSUME NEW ch \in Seq(Conns), NEW c \in Conns
    PROVE  /\ Append(ch, c) \in Seq(Conns) /\ Len(Append(ch, c)) = Len(ch) + 1
           /\ \A d \in Conns : Waits(d, Append(ch, c)) <=> Waits(d, ch) \/ d = c
           /\ ch # <<>> => /\ Head(ch) \in Conns /\ Tail(ch) \in Seq(Conns)
                           /\ Len(Tail(ch)) = Len(ch) - 1
                           /\ \A d \in Conns : Waits(d, ch) <=> Waits(d, Tail(ch)) \/ d = Head(ch)
<1>1. /\ Append(ch, c) \in Seq(Conns) /\ Len(Append(ch, c)) = Len(ch) + 1 /\ Len(ch) \in Nat
      /\ \A i \in 1 .. Len(ch) : Append(ch, c)[i] = ch[i]
      /\ Append(ch, c)[Len(ch) + 1] = c
  OBVIOUS
<1>2. ASSUME NEW d \in Conns PROVE Waits(d, Append(ch, c)) <=> Waits(d, ch) \/ d = c
  <2>1. ASSUME Waits(d, Append(ch, c)) PROVE Waits(d, ch) \/ d = c
    <3>1. PICK i \in 1 .. Len(ch) + 1 : Append(ch, c)[i] = d
      BY <1>1, <2>1 DEF Waits
    <3>2. CASE i = Len(ch) + 1
      BY <1>1, <3>1, <3>2
    <3>3. CASE i \in 1 .. Len(ch)
      BY <1>1, <3>1, <3>3 DEF Waits
    <3> QED
      BY <1>1, <3>2, <3>3
  <2>2. ASSUME Waits(d, ch) PROVE Waits(d, Append(ch, c))
    <3>1. PICK i \in 1 .. Len(ch) : ch[i] = d
      BY <2>2 DEF Waits
    <3>2. i \in 1 .. Len(Append(ch, c)) /\ Append(ch, c)[i] = d
      BY <1>1, <3>1
    <3> QED
      BY <3>2 DEF Waits
  <2>3. ASSUME d = c PROVE Waits(d, Append(ch, c))
    <3>1. Len(ch) + 1 \in 1 .. Len(Append(ch, c))
      BY <1>1
    <3> QED
      BY <1>1, <2>3, <3>1 DEF Waits
  <2> QED
    BY <2>1, <2>2, <2>3
<1>3. ASSUME ch # <<>>
      PROVE  /\ Head(ch) \in Conns /\ Tail(ch) \in Seq(Conns)
             /\ Len(Tail(ch)) = Len(ch) - 1
             /\ \A d \in Conns : Waits(d, ch) <=> Waits(d, Tail(ch)) \/ d = Head(ch)
  <2>1. /\ Head(ch) \in Conns /\ Tail(ch) \in Seq(Conns) /\ Len(Tail(ch)) = Len(ch) - 1
        /\ Len(ch) \in Nat \ {0} /\ ch[1] = Head(ch)
        /\ \A i \in 1 .. Len(ch) - 1 : Tail(ch)[i] = ch[i + 1]
    BY <1>3
  <2>2. ASSUME NEW d \in Conns PROVE Waits(d, ch) <=> Waits(d, Tail(ch)) \/ d = Head(ch)
    <3>1. ASSUME Waits(d, ch), d # Head(ch) PROVE Waits(d, Tail(ch))
      <4>1. PICK i \in 1 .. Len(ch) : ch[i] = d
        BY <3>1 DEF Waits
      <4>2. i - 1 \in 1 .. Len(ch) - 1
        BY <2>1, <3>1, <4>1
      <4>3. Tail(ch)[i - 1] = ch[(i - 1) + 1]
        BY <2>1, <4>2
      <4>4. (i - 1) + 1 = i
        BY <4>1
      <4>5. Tail(ch)[i - 1] = d
        BY <4>1, <4>3, <4>4
      <4> QED
        BY <2>1, <4>2, <4>5 DEF Waits
    <3>2. ASSUME Waits(d, Tail(ch)) PROVE Waits(d, ch)
      <4>1. PICK i \in 1 .. Len(ch) - 1 : Tail(ch)[i] = d
        BY <2>1, <3>2 DEF Waits
      <4>2. i + 1 \in 1 .. Len(ch) /\ ch[i + 1] = d
        BY <2>1, <4>1
      <4> QED
        BY <4>2 DEF Waits
    <3>3. ASSUME d = Head(ch) PROVE Waits(d, ch)
      BY <2>1, <3>3 DEF Waits
    <3> QED
      BY <3>1, <3>2, <3>3
  <2> QED
    BY <2>1, <2>2
<1> QED
  BY <1>1, <1>2, <1>3

\* The hub starts without clients.
LEMMA HubInitInv == HubInit => HubInv
<1> SUFFICES ASSUME HubInit PROVE HubInv
  OBVIOUS
<1>1. HubShape /\ HubTypeOK /\ HubLocks
  BY HubAssumption DEF HubInit, HubShape, HubTypeOK, HubLocks, CasterState, Resting
<1>2. ReadingIsServed /\ OverIsClosed /\ OnlyOverLeaves
  BY DEF HubInit, ReadingIsServed, OverIsClosed, OnlyOverLeaves, Waits, Takes
<1> QED
  BY <1>1, <1>2 DEF HubInv

\* The steps of connections and of the peers.
LEMMA ConnectionInv ==
    ASSUME HubInv, NEW c \in Conns,
           Upgrade(c) \/ ReadEnds(c) \/ PeerStalls(c) \/ PeerReads(c)
    PROVE  HubInv'
<1> USE HubAssumption DEF HubInv
<1>1. ASSUME Upgrade(c) PROVE HubInv'
  <2>1. /\ UNCHANGED <<unregister, clients, hubAt, pinging, caster, casts>> /\ conn[c] = "new"
        /\ c \notin closed
    BY <1>1 DEF Upgrade, OnlyOverLeaves
  <2>2. CASE /\ Len(register) < ChanCap /\ conn' = [conn EXCEPT ![c] = "reading"]
             /\ register' = Append(register, c) /\ closed' = closed
    <3>1. /\ register' \in Seq(Conns) /\ Len(register') = Len(register) + 1
          /\ \A d \in Conns : Waits(d, register') <=> Waits(d, register) \/ d = c
      BY <2>2, ChannelMoves DEF HubShape
    <3>2. HubShape' /\ HubTypeOK' /\ HubLocks'
      BY <2>1, <2>2, <3>1 DEF HubShape, HubTypeOK, HubLocks
    <3>3. /\ conn'[c] = "reading" /\ \A d \in Conns : d # c => conn'[d] = conn[d]
      BY <2>2 DEF HubShape
    <3>4. ReadingIsServed' /\ OverIsClosed' /\ OnlyOverLeaves'
      BY <2>1, <2>2, <3>1, <3>3 DEF ReadingIsServed, OverIsClosed, OnlyOverLeaves, Takes, Waits
    <3> QED
      BY <3>2, <3>4
  <2>3. CASE conn' = [conn EXCEPT ![c] = "over"] /\ closed' = closed \cup {c} /\ register' = register
    <3>1. HubShape' /\ HubTypeOK' /\ HubLocks'
      BY <2>1, <2>3 DEF HubShape, HubTypeOK, HubLocks
    <3>2. /\ conn'[c] = "over" /\ \A d \in Conns : d # c => conn'[d] = conn[d]
      BY <2>3 DEF HubShape
    <3>3. ReadingIsServed' /\ OverIsClosed' /\ OnlyOverLeaves'
      BY <2>1, <2>3, <3>2 DEF ReadingIsServed, OverIsClosed, OnlyOverLeaves, Takes, Waits
    <3> QED
      BY <3>1, <3>3
  <2> QED
    BY <1>1, <2>2, <2>3 DEF Upgrade
<1>2. ASSUME ReadEnds(c) PROVE HubInv'
  <2>1. /\ UNCHANGED <<closed, register, clients, hubAt, pinging, caster, casts>>
        /\ conn[c] = "reading" /\ Len(unregister) < ChanCap
        /\ conn' = [conn EXCEPT ![c] = "over"] /\ unregister' = Append(unregister, c)
    BY <1>2 DEF ReadEnds
  <2>2. /\ unregister' \in Seq(Conns) /\ Len(unregister') = Len(unregister) + 1
        /\ \A d \in Conns : Waits(d, unregister') <=> Waits(d, unregister) \/ d = c
    BY <2>1, ChannelMoves DEF HubShape
  <2>3. HubShape' /\ HubTypeOK' /\ HubLocks'
    BY <2>1, <2>2 DEF HubShape, HubTypeOK, HubLocks
  <2>4. /\ conn'[c] = "over" /\ \A d \in Conns : d # c => conn'[d] = conn[d]
    BY <2>1 DEF HubShape
  <2>5. ReadingIsServed' /\ OverIsClosed' /\ OnlyOverLeaves'
    BY <2>1, <2>2, <2>4 DEF ReadingIsServed, OverIsClosed, OnlyOverLeaves, Takes, Waits
  <2> QED
    BY <2>3, <2>5
<1>3. CASE PeerStalls(c) \/ PeerReads(c)
  BY <1>3 DEF PeerStalls, PeerReads, HubShape, HubTypeOK, HubLocks, ReadingIsServed, OverIsClosed,
     OnlyOverLeaves, Takes, Waits
<1> QED
  BY <1>1, <1>2, <1>3

\* The steps of run: a client leaves only while nobody holds the read lock.
LEMMA RunInv ==
    ASSUME HubInv, RunLoop \/ PingTick
    PROVE  HubInv'
<1> USE HubAssumption DEF HubInv
<1>1. ASSUME TakeRegister PROVE HubInv'
  <2> DEFINE c == Head(register)
  <2>1. /\ UNCHANGED <<conn, closed, unregister, clients, pinging, caster>>
        /\ hubAt.at = "select" /\ hubAt' = [at |-> "register", conn |-> c]
        /\ register # <<>> /\ register' = Tail(register)
    BY <1>1 DEF TakeRegister
  <2>2. /\ c \in Conns /\ register' \in Seq(Conns) /\ Len(register') = Len(register) - 1
        /\ \A d \in Conns : Waits(d, register) <=> Waits(d, register') \/ d = c
    BY <2>1, ChannelMoves DEF HubShape
  <2> HIDE DEF c
  <2>3. HubShape' /\ HubTypeOK' /\ HubLocks'
    BY <2>1, <2>2 DEF HubShape, HubTypeOK, HubLocks
  <2>4. ReadingIsServed' /\ OverIsClosed' /\ OnlyOverLeaves'
    BY <2>1, <2>2 DEF ReadingIsServed, OverIsClosed, OnlyOverLeaves, Takes, Waits
  <2> QED
    BY <2>3, <2>4
<1>2. ASSUME TakeUnregister PROVE HubInv'
  <2> DEFINE c == Head(unregister)
  <2>1. /\ UNCHANGED <<conn, closed, register, clients, pinging, caster>>
        /\ hubAt.at = "select" /\ hubAt' = [at |-> "unregister", conn |-> c]
        /\ unregister # <<>> /\ unregister' = Tail(unregister)
    BY <1>2 DEF TakeUnregister
  <2>2. /\ c \in Conns /\ unregister' \in Seq(Conns) /\ Len(unregister') = Len(unregister) - 1
        /\ \A d \in Conns : Waits(d, unregister) <=> Waits(d, unregister') \/ d = c
    BY <2>1, ChannelMoves DEF HubShape
  <2> HIDE DEF c
  <2>3. HubShape' /\ HubTypeOK' /\ HubLocks'
    BY <2>1, <2>2 DEF HubShape, HubTypeOK, HubLocks
  <2>4. ReadingIsServed' /\ OverIsClosed' /\ OnlyOverLeaves'
    BY <2>1, <2>2 DEF ReadingIsServed, OverIsClosed, OnlyOverLeaves, Takes, Waits
  <2> QED
    BY <2>3, <2>4
<1>3. CASE Register
  BY <1>3 DEF Register, HubShape, HubTypeOK, HubLocks, ReadingIsServed, OverIsClosed,
     OnlyOverLeaves, Takes, Waits
<1>4. CASE Unregister
  <2>1. \A b \in Casters : caster[b].left = {}
    BY <1>4 DEF Unregister, Readers, HubLocks
  <2>2. HubShape' /\ HubTypeOK' /\ HubLocks'
    BY <1>4, <2>1 DEF Unregister, HubShape, HubTypeOK, HubLocks
  <2>3. ReadingIsServed' /\ OverIsClosed' /\ OnlyOverLeaves'
    BY <1>4 DEF Unregister, ReadingIsServed, OverIsClosed, OnlyOverLeaves, Takes, Waits, HubShape
  <2> QED
    BY <2>2, <2>3
<1>5. CASE PingNext
  BY <1>5 DEF PingNext, HubShape, HubTypeOK, HubLocks, ReadingIsServed, OverIsClosed,
     OnlyOverLeaves, Takes, Waits
<1>6. CASE PingTick
  BY <1>6 DEF PingTick, HubShape, HubTypeOK, HubLocks, ReadingIsServed, OverIsClosed,
     OnlyOverLeaves, Takes, Waits
<1> QED
  BY <1>1, <1>2, <1>3, <1>4, <1>5, <1>6 DEF RunLoop

\* The steps of a broadcast touch no connection; the addressees are chosen under the lock.
LEMMA CastInv ==
    ASSUME HubInv, NEW b \in Casters,
           Casting(b) \/ \E t \in CastTenants : StartCast(b, t)
    PROVE  HubInv'
<1> USE DEF HubInv
<1>1. UNCHANGED <<conn, closed, register, unregister, clients, hubAt, pinging>>
  BY DEF Casting, RLock, WriteText, CastReturns, StartCast
<1>2. ReadingIsServed' /\ OverIsClosed' /\ OnlyOverLeaves'
  BY <1>1 DEF ReadingIsServed, OverIsClosed, OnlyOverLeaves, Takes, Waits
<1>3. ASSUME NEW q \in CasterState, caster' = [caster EXCEPT ![b] = q], q.left \subseteq clients,
             q.at # "writing" => q.left = {}
      PROVE  HubInv'
  <2>1. /\ caster' \in [Casters -> CasterState] /\ caster'[b] = q
        /\ \A a \in Casters : a # b => caster'[a] = caster[a]
    BY <1>3 DEF HubShape
  <2>2. HubShape' /\ HubLocks'
    BY <1>1, <1>3, <2>1 DEF HubShape, HubLocks
  <2>3. HubTypeOK'
    BY <1>1, <1>3, <2>1 DEF HubTypeOK
  <2> QED
    BY <1>2, <2>2, <2>3
<1>4. caster[b] \in CasterState /\ clients \subseteq Conns /\ caster[b].left \subseteq clients
  BY DEF HubShape, HubTypeOK
<1>5. CASE RLock(b)
  <2> DEFINE q == [at |-> "writing", tenant |-> caster[b].tenant,
                   left |-> Addressed(caster[b].tenant)]
  <2>1. Addressed(caster[b].tenant) \subseteq clients
    BY DEF Addressed
  <2>2. q \in CasterState /\ q.left \subseteq clients /\ q.at = "writing"
    BY <1>4, <2>1 DEF CasterState
  <2>3. caster' = [caster EXCEPT ![b] = q]
    BY <1>5 DEF RLock
  <2> HIDE DEF q
  <2> QED
    BY <1>3, <2>2, <2>3
<1>6. ASSUME NEW c \in Conns, WriteText(b, c) PROVE HubInv'
  <2>1. /\ caster'[b].at = caster[b].at /\ caster'[b].tenant = caster[b].tenant
        /\ caster'[b].left = caster[b].left \ {c}
        /\ \A a \in Casters : a # b => caster'[a] = caster[a]
        /\ caster' \in [Casters -> CasterState]
    BY <1>6 DEF WriteText, HubShape, CasterState
  <2>2. HubShape' /\ HubLocks'
    BY <1>1, <2>1 DEF HubShape, HubLocks
  <2>3. HubTypeOK'
    BY <1>1, <1>4, <2>1 DEF HubTypeOK
  <2> QED
    BY <1>2, <2>2, <2>3
<1>7. CASE CastReturns(b)
  <2>1. Resting \in CasterState /\ Resting.left = {}
    BY DEF Resting, CasterState
  <2>2. caster' = [caster EXCEPT ![b] = Resting]
    BY <1>7 DEF CastReturns
  <2> QED
    BY <1>3, <2>1, <2>2
<1>8. ASSUME NEW t \in CastTenants, StartCast(b, t) PROVE HubInv'
  <2>1. PICK found \in {t, EveryTenant} :
          caster' = [caster EXCEPT ![b] = [at |-> "locking", tenant |-> found, left |-> {}]]
    BY <1>8 DEF StartCast
  <2> DEFINE q == [at |-> "locking", tenant |-> found, left |-> {}]
  <2>2. q \in CasterState /\ q.left = {}
    BY DEF CasterState
  <2>3. caster' = [caster EXCEPT ![b] = q]
    BY <2>1
  <2> HIDE DEF q
  <2> QED
    BY <1>3, <2>2, <2>3
<1> QED
  BY <1>5, <1>6, <1>7, <1>8 DEF Casting

\* Every step keeps the hub's invariant.
LEMMA HubNextInv == HubInv /\ [HubNext]_hubVars => HubInv'
<1>1. ASSUME HubInv, UNCHANGED hubVars PROVE HubInv'
  BY <1>1 DEF hubVars, HubInv, HubShape, HubTypeOK, HubLocks, ReadingIsServed, OverIsClosed,
     OnlyOverLeaves, Takes, Waits
<1> QED
  BY <1>1, ConnectionInv, RunInv, CastInv DEF HubNext

\* The hub's invariant holds throughout.
LEMMA HubSafety == HubSpec => []HubInv
  BY HubInitInv, HubNextInv, PTL DEF HubSpec

\* The hub's state keeps its types: pings and broadcasts only concern clients.
THEOREM HubTypeCorrect == HubSpec => []HubTypeOK
<1>1. HubInv => HubTypeOK
  BY DEF HubInv
<1> QED
  BY <1>1, HubSafety, PTL

\* Whenever the hub is at rest, the connected dashboards are its clients and the departed
\* ones are closed, for any number of connections and any capacity of the channels
\* (ServeWS, run).
THEOREM ConnectionsAreServed == HubSpec => []HubServesConnections
<1>1. HubInv => HubServesConnections
  BY DEF HubInv, ReadingIsServed, OverIsClosed, OnlyOverLeaves, HubServesConnections, AtRest,
     Waits, Takes
<1> QED
  BY <1>1, HubSafety, PTL

-----------------------------------------------------------------------------
(* AgentIdentity: the registry of hosts                                    *)

AgentTenantOrNone == AgentTenants \cup {Blank, "default"}

AgentCall == [at : {"none", "tenant", "asset", "touch", "close", "open"}, id : AgentIds \cup {Blank},
              host : AgentHosts \cup {Blank}, tenant : AgentTenantOrNone]

AgentSession == [state : {"open", "closed"}, seen : Nat]

\* The shape of the registry and of the registrations in progress
RegistryShape ==
    /\ cred \in [AgentIds -> [status : {"none", "active", "disabled", "revoked"},
                              tenant : AgentTenantOrNone]]
    /\ assetTenant \in [AgentHosts -> AgentTenantOrNone]
    /\ assigned \in [AgentHosts -> AgentTenantOrNone]
    /\ sessions \in [AgentHosts -> Seq(AgentSession)]
    /\ registering \in [AgentCalls -> AgentCall]
    /\ \A c \in AgentCalls : registering[c].at # "none" => registering[c].host \in AgentHosts
    /\ agentNow \in Nat

\* Of a connection history: no session was seen in the future, none is open, and none
\* but the newest is.
SeenBy(q, t) == \A k \in 1 .. Len(q) : q[k].seen <= t
AllClosed(q) == \A k \in 1 .. Len(q) : q[k].state = "closed"
NewestOnly(q) == \A k \in 1 .. Len(q) : k < Len(q) => q[k].state = "closed"

SeenIsPast == \A h \in AgentHosts : SeenBy(sessions[h], agentNow)

\* A host that is not crowded has one registration in progress at most; when it has
\* closed the sessions and not opened its own, none is open; and only the newest is.
AloneAtHost ==
    \A h \in AgentHosts \ crowded : \A c, d \in AgentCalls :
        /\ registering[c].at # "none" /\ registering[d].at # "none"
        /\ registering[c].host = h /\ registering[d].host = h
        => c = d
ClosedBeforeOpen ==
    \A c \in AgentCalls :
        registering[c].at = "open" /\ registering[c].host \notin crowded =>
            AllClosed(sessions[registering[c].host])
OnlyNewestOpen == \A h \in AgentHosts \ crowded : NewestOnly(sessions[h])

AgentInv ==
    /\ RegistryShape /\ SeenIsPast /\ AssetIsInItsTenant
    /\ AloneAtHost /\ ClosedBeforeOpen /\ OnlyNewestOpen

\* The registry starts empty.
LEMMA AgentInitInv == AgentInit => AgentInv
<1> SUFFICES ASSUME AgentInit PROVE AgentInv
  OBVIOUS
<1>1. RegistryShape
  BY DEF AgentInit, RegistryShape, AgentCall, NoCall, NoCred, AgentTenantOrNone
<1>2. \A h \in AgentHosts : Len(sessions[h]) = 0
  BY DEF AgentInit
<1>3. SeenIsPast /\ OnlyNewestOpen /\ ClosedBeforeOpen
  BY <1>2 DEF SeenIsPast, OnlyNewestOpen, ClosedBeforeOpen, SeenBy, NewestOnly, AgentInit, NoCall
<1>4. AssetIsInItsTenant /\ AloneAtHost
  BY DEF AgentInit, AssetIsInItsTenant, AloneAtHost, NoCall
<1> QED
  BY <1>1, <1>3, <1>4 DEF AgentInv

\* A function on 1 .. n is a sequence of length n.
LEMMA FunctionIsSeq ==
    ASSUME NEW S, NEW n \in Nat, NEW f \in [1 .. n -> S]
    PROVE  f \in Seq(S) /\ Len(f) = n
  OBVIOUS

\* A session that is seen again, if there is one at that place, stays open or closed.
SeenAgain(q, n, v) == [q EXCEPT ![n].seen = v]

\* A heartbeat or a registration that comes again keeps the order of a host's sessions.
LEMMA SeenAgainKeeps ==
    ASSUME NEW q \in Seq(AgentSession), NEW n, NEW v \in Nat, SeenBy(q, v)
    PROVE  /\ SeenAgain(q, n, v) \in Seq(AgentSession) /\ SeenBy(SeenAgain(q, n, v), v)
           /\ AllClosed(q) => AllClosed(SeenAgain(q, n, v))
           /\ NewestOnly(q) => NewestOnly(SeenAgain(q, n, v))
<1> DEFINE p == SeenAgain(q, n, v)
<1>1. ASSUME NEW j \in 1 .. Len(q)
      PROVE  p[j] \in AgentSession /\ p[j].state = q[j].state /\ p[j].seen <= v
  <2>1. q[j] \in AgentSession
    OBVIOUS
  <2>2. CASE j = n
    <3>1. p[j] = [q[j] EXCEPT !.seen = v]
      BY <2>2 DEF SeenAgain
    <3> QED
      BY <2>1, <3>1 DEF AgentSession
  <2>3. CASE j # n
    <3>1. p[j] = q[j]
      BY <2>3 DEF SeenAgain
    <3> QED
      BY <2>1, <3>1 DEF SeenBy
  <2> QED
    BY <2>2, <2>3
<1>2. p \in Seq(AgentSession) /\ Len(p) = Len(q)
  <2>1. p = [j \in 1 .. Len(q) |-> p[j]]
    BY DEF SeenAgain
  <2>2. p \in [1 .. Len(q) -> AgentSession]
    BY <1>1, <2>1
  <2> QED
    BY <2>2, FunctionIsSeq
<1> HIDE DEF p
<1>3. /\ SeenBy(p, v)
      /\ AllClosed(q) => AllClosed(p)
      /\ NewestOnly(q) => NewestOnly(p)
  BY <1>1, <1>2 DEF SeenBy, AllClosed, NewestOnly
<1> QED
  BY <1>2, <1>3 DEF p

\* All sessions of a host are closed.
ClosedAll(q) == [k \in DOMAIN q |-> [state |-> "closed", seen |-> q[k].seen]]

\* Closing sessions keeps the order of a host's sessions.
LEMMA ClosedAllKeeps ==
    ASSUME NEW q \in Seq(AgentSession), NEW v \in Nat, SeenBy(q, v)
    PROVE  /\ ClosedAll(q) \in Seq(AgentSession) /\ SeenBy(ClosedAll(q), v)
           /\ AllClosed(ClosedAll(q)) /\ NewestOnly(ClosedAll(q))
<1> DEFINE p == ClosedAll(q)
<1>1. ASSUME NEW j \in 1 .. Len(q)
      PROVE  p[j] \in AgentSession /\ p[j].state = "closed" /\ p[j].seen <= v
  <2>1. q[j] \in AgentSession
    OBVIOUS
  <2>2. p[j] = [state |-> "closed", seen |-> q[j].seen]
    BY DEF ClosedAll
  <2> QED
    BY <2>1, <2>2 DEF AgentSession, SeenBy
<1>2. p \in Seq(AgentSession) /\ Len(p) = Len(q)
  <2>1. p = [j \in 1 .. Len(q) |-> p[j]]
    BY DEF ClosedAll
  <2>2. p \in [1 .. Len(q) -> AgentSession]
    BY <1>1, <2>1
  <2> QED
    BY <2>2, FunctionIsSeq
<1> HIDE DEF p
<1>3. SeenBy(p, v) /\ AllClosed(p) /\ NewestOnly(p)
  BY <1>1, <1>2 DEF SeenBy, AllClosed, NewestOnly
<1> QED
  BY <1>2, <1>3 DEF p

\* A new session is the newest.
LEMMA AppendKeeps ==
    ASSUME NEW q \in Seq(AgentSession), NEW e \in AgentSession, NEW v \in Nat, SeenBy(q, v), e.seen = v
    PROVE  /\ Append(q, e) \in Seq(AgentSession) /\ SeenBy(Append(q, e), v)
           /\ AllClosed(q) => NewestOnly(Append(q, e))
<1> DEFINE p == Append(q, e)
           n == Len(q)
<1>1. /\ p \in Seq(AgentSession) /\ Len(p) = n + 1 /\ p[n + 1] = e /\ n \in Nat
      /\ \A k \in 1 .. n : p[k] = q[k]
  OBVIOUS
<1>2. SeenBy(q, v) => \A k \in 1 .. n : q[k].seen <= v
  BY DEF SeenBy
<1>3. AllClosed(q) => \A k \in 1 .. n : q[k].state = "closed"
  BY DEF AllClosed
<1> HIDE DEF p, n
<1>4. SeenBy(p, v)
  <2>1. \A k \in 1 .. n + 1 : k \in 1 .. n \/ k = n + 1
    BY <1>1
  <2> QED
    BY <1>1, <1>2, <2>1 DEF SeenBy
<1>5. AllClosed(q) => NewestOnly(p)
  <2>1. \A k \in 1 .. n + 1 : k < n + 1 => k \in 1 .. n
    BY <1>1
  <2> QED
    BY <1>1, <1>3, <2>1 DEF NewestOnly
<1> QED
  BY <1>1, <1>4, <1>5 DEF p

\* Time only makes what was seen older.
LEMMA SeenByLater ==
    ASSUME NEW q \in Seq(AgentSession), NEW v \in Nat, NEW w \in Nat, v <= w, SeenBy(q, v)
    PROVE  SeenBy(q, w)
<1> SUFFICES ASSUME NEW k \in 1 .. Len(q) PROVE q[k].seen <= w
  BY DEF SeenBy
<1>1. q[k] \in AgentSession /\ q[k].seen <= v
  BY DEF SeenBy
<1> QED
  BY <1>1 DEF AgentSession

\* The steps that leave the sessions and the registrations alone.
LEMMA AgentRegistryStep ==
    ASSUME AgentInv,
           \/ \E i \in AgentIds, t \in AgentTenants \cup {"default"} : Enroll(i, t)
           \/ \E i \in AgentIds, s \in {"active", "disabled", "revoked"} : SetAgentStatus(i, s)
           \/ \E h \in AgentHosts, t \in AgentTenants \cup {"default"} : ReassignTenant(h, t)
           \/ AgentTick
    PROVE  AgentInv'
<1> USE DEF AgentInv
<1>1. UNCHANGED <<sessions, registering, crowded>> /\ agentNow' \in Nat /\ agentNow <= agentNow'
  BY DEF Enroll, SetAgentStatus, ReassignTenant, AgentTick, RegistryShape, AgentCall
<1>2. /\ cred' \in [AgentIds -> [status : {"none", "active", "disabled", "revoked"},
                                 tenant : AgentTenantOrNone]]
      /\ assetTenant' \in [AgentHosts -> AgentTenantOrNone]
      /\ assigned' \in [AgentHosts -> AgentTenantOrNone]
  <2>1. CASE \E i \in AgentIds, t \in AgentTenants \cup {"default"} : Enroll(i, t)
    BY <2>1 DEF Enroll, RegistryShape, AgentCall, AgentTenantOrNone
  <2>2. CASE \E i \in AgentIds, s \in {"active", "disabled", "revoked"} : SetAgentStatus(i, s)
    BY <2>2 DEF SetAgentStatus, RegistryShape, AgentCall
  <2>3. CASE \E h \in AgentHosts, t \in AgentTenants \cup {"default"} : ReassignTenant(h, t)
    BY <2>3 DEF ReassignTenant, RegistryShape, AgentCall, AgentTenantOrNone
  <2>4. CASE AgentTick
    BY <2>4 DEF AgentTick, RegistryShape, AgentCall
  <2> QED
    BY <2>1, <2>2, <2>3, <2>4
<1>3. RegistryShape'
  BY <1>1, <1>2 DEF RegistryShape, AgentCall
<1>4. SeenIsPast'
  BY <1>1, SeenByLater DEF SeenIsPast, RegistryShape, AgentCall
<1>5. AloneAtHost' /\ ClosedBeforeOpen' /\ OnlyNewestOpen'
  BY <1>1 DEF AloneAtHost, ClosedBeforeOpen, OnlyNewestOpen
<1>6. AssetIsInItsTenant'
  BY DEF Enroll, SetAgentStatus, ReassignTenant, AgentTick, RegistryShape, AgentCall, AssetIsInItsTenant
<1> QED
  BY <1>3, <1>4, <1>5, <1>6

\* The steps of a registration that leave the sessions alone: the second registration of
\* a host makes it crowded, and only an asset without a row is given a tenant.
LEMMA AgentCallStep ==
    ASSUME AgentInv, NEW c \in AgentCalls,
           \/ \E i \in AgentIds \cup {Blank}, h \in AgentHosts, ts \in 0 .. MaxAgentNow + 1 :
                AdmitRegistration(c, i, h, ts)
           \/ \E readable \in BOOLEAN : ResolveTenant(c, readable)
           \/ UpsertAsset(c) \/ RegistrationBreaks(c)
    PROVE  AgentInv'
<1> USE DEF AgentInv
<1>1. UNCHANGED <<cred, sessions, agentNow>> /\ crowded \subseteq crowded'
  BY DEF AdmitRegistration, ResolveTenant, UpsertAsset, RegistrationBreaks
<1>2. ASSUME NEW i \in AgentIds \cup {Blank}, NEW h \in AgentHosts, NEW ts,
             AdmitRegistration(c, i, h, ts)
      PROVE  AgentInv'
  <2>1. RegistryShape'
    BY <1>1, <1>2 DEF RegistryShape, AgentCall, AdmitRegistration, AgentTenantOrNone
  <2>2. AssetIsInItsTenant'
    BY <1>2 DEF AdmitRegistration, AssetIsInItsTenant
  <2>3. /\ registering'[c].at = "tenant" /\ registering'[c].host = h
        /\ \A d \in AgentCalls : d # c => registering'[d] = registering[d]
        /\ (\A d \in AgentCalls : registering[d].host # h) \/ h \in crowded'
    BY <1>2 DEF AdmitRegistration, RegistryShape, AgentCall
  <2>4. AloneAtHost' /\ ClosedBeforeOpen'
    BY <1>1, <2>3 DEF AloneAtHost, ClosedBeforeOpen
  <2> QED
    BY <1>1, <2>1, <2>2, <2>4 DEF SeenIsPast, OnlyNewestOpen
<1>3. ASSUME NEW readable \in BOOLEAN, ResolveTenant(c, readable) PROVE AgentInv'
  <2> DEFINE v == IF readable THEN EnrolledTenant(registering[c].id) ELSE "default"
  <2>0. registering[c].at = "tenant" /\ registering[c] \in AgentCall
    BY <1>3 DEF ResolveTenant, RegistryShape, AgentCall
  <2>1. v \in AgentTenantOrNone
    BY <2>0 DEF EnrolledTenant, AgentTenantOrNone, RegistryShape, AgentCall
  <2>2. /\ registering'[c] = [at |-> "asset", id |-> registering[c].id, host |-> registering[c].host,
                              tenant |-> v]
        /\ \A d \in AgentCalls : d # c => registering'[d] = registering[d]
        /\ DOMAIN registering' = AgentCalls
        /\ registering' = [d \in AgentCalls |-> registering'[d]]
    BY <1>3, <2>0 DEF ResolveTenant, RegistryShape, AgentCall
  <2>3. RegistryShape'
    BY <1>1, <1>3, <2>0, <2>1, <2>2 DEF RegistryShape, AgentCall, ResolveTenant
  <2>4. AssetIsInItsTenant' /\ crowded' = crowded
    BY <1>3 DEF ResolveTenant, AssetIsInItsTenant
  <2>5. AloneAtHost' /\ ClosedBeforeOpen'
    BY <1>1, <2>0, <2>2, <2>4 DEF AloneAtHost, ClosedBeforeOpen
  <2> QED
    BY <1>1, <2>3, <2>4, <2>5 DEF SeenIsPast, OnlyNewestOpen
<1>4. CASE UpsertAsset(c)
  <2>1. registering[c].at = "asset" /\ registering[c].host \in AgentHosts
        /\ registering[c].tenant \in AgentTenantOrNone
        /\ EnrolledTenant(registering[c].id) \in AgentTenantOrNone
    BY <1>4 DEF UpsertAsset, RegistryShape, AgentCall, EnrolledTenant, AgentTenantOrNone
  <2>2. RegistryShape' /\ AssetIsInItsTenant'
    <3>1. RegistryShape'
      BY <1>1, <1>4, <2>1 DEF RegistryShape, AgentCall, UpsertAsset, UpsertedTenant
    <3>2. AssetIsInItsTenant'
      BY <1>1, <1>4, <2>1 DEF RegistryShape, AgentCall, UpsertAsset, UpsertedTenant, AssetIsInItsTenant
    <3> QED
      BY <3>1, <3>2
  <2>3. /\ registering'[c].at = "touch" /\ registering'[c].host = registering[c].host
        /\ \A d \in AgentCalls : d # c => registering'[d] = registering[d]
        /\ crowded' = crowded
    BY <1>4 DEF UpsertAsset, RegistryShape, AgentCall
  <2>4. AloneAtHost' /\ ClosedBeforeOpen'
    BY <1>1, <2>1, <2>3 DEF AloneAtHost, ClosedBeforeOpen
  <2> QED
    BY <1>1, <2>2, <2>3, <2>4 DEF SeenIsPast, OnlyNewestOpen
<1>5. CASE RegistrationBreaks(c)
  <2>1. RegistryShape' /\ AssetIsInItsTenant'
    BY <1>1, <1>5 DEF RegistryShape, AgentCall, RegistrationBreaks, NoCall, AgentTenantOrNone, AssetIsInItsTenant
  <2>2. /\ registering'[c].at = "none"
        /\ \A d \in AgentCalls : d # c => registering'[d] = registering[d]
        /\ crowded' = crowded
    BY <1>5 DEF RegistrationBreaks, RegistryShape, AgentCall, NoCall
  <2>3. AloneAtHost' /\ ClosedBeforeOpen'
    BY <1>1, <2>2 DEF AloneAtHost, ClosedBeforeOpen
  <2> QED
    BY <1>1, <2>1, <2>2, <2>3 DEF SeenIsPast, OnlyNewestOpen
<1> QED
  BY <1>2, <1>3, <1>4, <1>5

\* A registration or a heartbeat touches the sessions of its own host only.
SessionsOf(h, q) ==
    /\ sessions' \in [AgentHosts -> Seq(AgentSession)] /\ sessions'[h] = q
    /\ \A x \in AgentHosts : x # h => sessions'[x] = sessions[x]

\* Sessions: seen again, or the others are closed and one is opened.
LEMMA AgentSessionStep ==
    ASSUME AgentInv,
           \/ \E c \in AgentCalls : TouchSession(c) \/ CloseSessions(c) \/ OpenSession(c)
           \/ \E g \in AgentHosts : Heartbeat(g)
    PROVE  AgentInv'
<1> USE DEF AgentInv
<1>1. UNCHANGED <<cred, assetTenant, agentNow, assigned, misread, crowded>>
  BY DEF TouchSession, CloseSessions, OpenSession, Heartbeat
<1>2. /\ AssetIsInItsTenant' /\ agentNow \in Nat
      /\ \A h \in AgentHosts : sessions[h] \in Seq(AgentSession) /\ SeenBy(sessions[h], agentNow)
  BY <1>1 DEF AssetIsInItsTenant, RegistryShape, AgentCall, SeenIsPast
<1>3. ASSUME NEW h \in AgentHosts, NEW n, sessions' = [sessions EXCEPT ![h][n].seen = agentNow]
      PROVE  SessionsOf(h, SeenAgain(sessions[h], n, agentNow))
  <2>1. sessions' = [sessions EXCEPT ![h] = SeenAgain(sessions[h], n, agentNow)]
    BY <1>3 DEF SeenAgain
  <2>2. SeenAgain(sessions[h], n, agentNow) \in Seq(AgentSession)
    BY <1>2, SeenAgainKeeps
  <2> QED
    BY <2>1, <2>2 DEF SessionsOf, RegistryShape, AgentCall
<1>4. ASSUME NEW g \in AgentHosts, Heartbeat(g) PROVE AgentInv'
  <2> DEFINE q == SeenAgain(sessions[g], NewestOpen(g, 0), agentNow)
  <2>1. SessionsOf(g, q) /\ registering' = registering
    BY <1>3, <1>4 DEF Heartbeat
  <2>2. /\ SeenBy(q, agentNow)
        /\ AllClosed(sessions[g]) => AllClosed(q)
        /\ NewestOnly(sessions[g]) => NewestOnly(q)
    BY <1>2, SeenAgainKeeps
  <2> HIDE DEF q
  <2>3. RegistryShape' /\ AloneAtHost'
    BY <1>1, <2>1 DEF RegistryShape, AgentCall, SessionsOf, AloneAtHost
  <2>4. SeenIsPast' /\ OnlyNewestOpen' /\ ClosedBeforeOpen'
    BY <1>1, <2>1, <2>2 DEF SeenIsPast, OnlyNewestOpen, ClosedBeforeOpen, SessionsOf, RegistryShape, AgentCall
  <2> QED
    BY <1>2, <2>3, <2>4
<1>5. ASSUME NEW c \in AgentCalls, TouchSession(c) PROVE AgentInv'
  <2> DEFINE h == registering[c].host
             q == SeenAgain(sessions[h], NewestOpen(h, agentNow - FreshFor), agentNow)
  <2>1. h \in AgentHosts /\ registering[c].at = "touch"
    BY <1>5 DEF TouchSession, RegistryShape, AgentCall
  <2>2. /\ registering' = [registering EXCEPT ![c] = NoCall] \/ registering' = [registering EXCEPT ![c].at = "close"]
        /\ SessionsOf(h, q) \/ sessions' = sessions
    BY <1>3, <1>5, <2>1 DEF TouchSession
  <2>3. /\ SeenBy(q, agentNow)
        /\ AllClosed(sessions[h]) => AllClosed(q)
        /\ NewestOnly(sessions[h]) => NewestOnly(q)
    BY <1>2, <2>1, SeenAgainKeeps
  <2> HIDE DEF q
  <2>4. /\ registering' \in [AgentCalls -> AgentCall]
        /\ registering'[c].at \in {"none", "close"}
        /\ registering'[c].at # "none" => registering'[c].host = h
        /\ \A d \in AgentCalls : d # c => registering'[d] = registering[d]
    <3>1. CASE registering' = [registering EXCEPT ![c] = NoCall]
      BY <3>1 DEF RegistryShape, AgentCall, NoCall, AgentTenantOrNone
    <3>2. CASE registering' = [registering EXCEPT ![c].at = "close"]
      BY <3>2 DEF RegistryShape, AgentCall
    <3> QED
      BY <2>2, <3>1, <3>2
  <2>5. AloneAtHost'
    BY <1>1, <2>1, <2>4 DEF AloneAtHost
  <2>6. RegistryShape'
    BY <1>1, <2>1, <2>2, <2>4 DEF RegistryShape, AgentCall, SessionsOf
  <2>7. SeenIsPast' /\ OnlyNewestOpen' /\ ClosedBeforeOpen'
    <3>1. \A x \in AgentHosts :
            /\ SeenBy(sessions'[x], agentNow)
            /\ AllClosed(sessions[x]) => AllClosed(sessions'[x])
            /\ NewestOnly(sessions[x]) => NewestOnly(sessions'[x])
      BY <1>2, <2>2, <2>3 DEF SessionsOf
    <3>2. SeenIsPast' /\ OnlyNewestOpen'
      BY <1>1, <3>1 DEF SeenIsPast, OnlyNewestOpen
    <3>3. ClosedBeforeOpen'
      BY <1>1, <2>4, <3>1 DEF ClosedBeforeOpen, RegistryShape, AgentCall
    <3> QED
      BY <3>2, <3>3
  <2> QED
    BY <1>2, <2>5, <2>6, <2>7
<1>6. ASSUME NEW c \in AgentCalls, CloseSessions(c) PROVE AgentInv'
  <2> DEFINE h == registering[c].host
             q == ClosedAll(sessions[h])
  <2>1. h \in AgentHosts /\ registering[c].at = "close"
    BY <1>6 DEF CloseSessions, RegistryShape, AgentCall
  <2>2. q \in Seq(AgentSession) /\ SeenBy(q, agentNow) /\ AllClosed(q) /\ NewestOnly(q)
    BY <1>2, <2>1, ClosedAllKeeps
  <2>3. sessions' = [sessions EXCEPT ![h] = q]
    BY <1>6 DEF CloseSessions, ClosedAll
  <2> HIDE DEF q
  <2>4. SessionsOf(h, q)
    BY <2>1, <2>2, <2>3 DEF SessionsOf, RegistryShape, AgentCall
  <2>5. /\ registering' \in [AgentCalls -> AgentCall]
        /\ registering'[c].at = "open" /\ registering'[c].host = h
        /\ \A d \in AgentCalls : d # c => registering'[d] = registering[d]
    BY <1>6 DEF CloseSessions, RegistryShape, AgentCall
  <2>6. RegistryShape'
    BY <1>1, <2>1, <2>4, <2>5 DEF RegistryShape, AgentCall, SessionsOf
  <2>7. AloneAtHost'
    BY <1>1, <2>1, <2>5 DEF AloneAtHost
  <2>8. SeenIsPast' /\ OnlyNewestOpen' /\ ClosedBeforeOpen'
    <3>1. \A x \in AgentHosts :
            /\ SeenBy(sessions'[x], agentNow)
            /\ AllClosed(sessions[x]) => AllClosed(sessions'[x])
            /\ NewestOnly(sessions[x]) => NewestOnly(sessions'[x])
      BY <1>2, <2>2, <2>4 DEF SessionsOf
    <3>2. SeenIsPast' /\ OnlyNewestOpen'
      BY <1>1, <3>1 DEF SeenIsPast, OnlyNewestOpen
    <3>3. AllClosed(sessions'[h])
      BY <2>2, <2>4 DEF SessionsOf
    <3>4. ClosedBeforeOpen'
      BY <1>1, <2>5, <3>1, <3>3 DEF ClosedBeforeOpen, RegistryShape, AgentCall
    <3> QED
      BY <3>2, <3>4
  <2> QED
    BY <1>2, <2>6, <2>7, <2>8
<1>7. ASSUME NEW c \in AgentCalls, OpenSession(c) PROVE AgentInv'
  <2> DEFINE h == registering[c].host
             e == [state |-> "open", seen |-> agentNow]
             q == Append(sessions[h], e)
  <2>1. h \in AgentHosts /\ registering[c].at = "open"
    BY <1>7 DEF OpenSession, RegistryShape, AgentCall
  <2>2. e \in AgentSession /\ e.seen = agentNow
    BY <1>2 DEF AgentSession
  <2>3. q \in Seq(AgentSession) /\ SeenBy(q, agentNow) /\ (AllClosed(sessions[h]) => NewestOnly(q))
    BY <1>2, <2>1, <2>2, AppendKeeps
  <2>4. sessions' = [sessions EXCEPT ![h] = q]
    BY <1>7 DEF OpenSession
  <2> HIDE DEF q
  <2>5. SessionsOf(h, q)
    BY <2>1, <2>3, <2>4 DEF SessionsOf, RegistryShape, AgentCall
  <2>6. /\ registering' \in [AgentCalls -> AgentCall]
        /\ registering'[c].at = "none"
        /\ \A d \in AgentCalls : d # c => registering'[d] = registering[d]
    BY <1>7 DEF OpenSession, RegistryShape, AgentCall, NoCall, AgentTenantOrNone
  <2>7. RegistryShape'
    BY <1>1, <2>1, <2>5, <2>6 DEF RegistryShape, AgentCall, SessionsOf
  <2>8. AloneAtHost'
    BY <1>1, <2>1, <2>6 DEF AloneAtHost
  <2>9. SeenIsPast'
    BY <1>1, <1>2, <2>3, <2>5 DEF SessionsOf, SeenIsPast
  <2>10. OnlyNewestOpen'
    <3>1. h \notin crowded => NewestOnly(q)
      BY <2>1, <2>3 DEF ClosedBeforeOpen
    <3> QED
      BY <1>1, <2>5, <3>1 DEF OnlyNewestOpen, SessionsOf
  <2>11. ClosedBeforeOpen'
    <3>1. ASSUME NEW d \in AgentCalls, registering'[d].at = "open", registering'[d].host \notin crowded'
          PROVE  /\ registering'[d] = registering[d]
                 /\ registering[d].host \in AgentHosts /\ registering[d].host # h
      BY <1>1, <2>1, <2>6, <3>1 DEF AloneAtHost, RegistryShape, AgentCall
    <3> QED
      BY <1>1, <2>5, <3>1 DEF ClosedBeforeOpen, SessionsOf
  <2> QED
    BY <1>2, <2>7, <2>8, <2>9, <2>10, <2>11
<1> QED
  BY <1>4, <1>5, <1>6, <1>7

\* Every step keeps the registry's invariant.
LEMMA AgentNextInv == AgentInv /\ [AgentNext]_agentVars => AgentInv'
<1> SUFFICES ASSUME AgentInv, [AgentNext]_agentVars PROVE AgentInv'
  OBVIOUS
<1>1. CASE UNCHANGED agentVars
  <2>1. RegistryShape' /\ AssetIsInItsTenant' /\ AloneAtHost'
    BY <1>1 DEF agentVars, AgentInv, RegistryShape, AgentCall, AssetIsInItsTenant, AloneAtHost
  <2>2. SeenIsPast' /\ OnlyNewestOpen' /\ ClosedBeforeOpen'
    BY <1>1 DEF agentVars, AgentInv, SeenIsPast, OnlyNewestOpen, ClosedBeforeOpen
  <2> QED
    BY <2>1, <2>2 DEF AgentInv
<1>2. CASE \E i \in AgentIds :
              \/ \E t \in AgentTenants \cup {"default"} : Enroll(i, t)
              \/ \E s \in {"active", "disabled", "revoked"} : SetAgentStatus(i, s)
  BY <1>2, AgentRegistryStep
<1>3. CASE \E c \in AgentCalls :
             \/ \E i \in AgentIds \cup {Blank}, h \in AgentHosts, ts \in 0 .. MaxAgentNow + 1 :
                  AdmitRegistration(c, i, h, ts)
             \/ \E readable \in BOOLEAN : ResolveTenant(c, readable)
             \/ UpsertAsset(c) \/ TouchSession(c) \/ CloseSessions(c) \/ OpenSession(c)
             \/ RegistrationBreaks(c)
  BY <1>3, AgentCallStep, AgentSessionStep
<1>4. CASE \E h \in AgentHosts :
             \/ Heartbeat(h)
             \/ \E t \in AgentTenants \cup {"default"} : ReassignTenant(h, t)
  BY <1>4, AgentRegistryStep, AgentSessionStep
<1>5. CASE AgentTick
  BY <1>5, AgentRegistryStep
<1> QED
  BY <1>1, <1>2, <1>3, <1>4, <1>5 DEF AgentNext

\* The registry's invariant holds throughout.
LEMMA AgentSafety == AgentSpec => []AgentInv
  BY AgentInitInv, AgentNextInv, PTL DEF AgentSpec

\* The registry keeps its types, and no session was seen in the future.
THEOREM AgentTypeCorrect == AgentSpec => []AgentTypeOK
<1>1. AgentInv => AgentTypeOK
  <2> SUFFICES ASSUME AgentInv PROVE AgentTypeOK
    OBVIOUS
  <2>1. \A h \in AgentHosts, k \in 1 .. MaxRegistrations :
          k <= Len(sessions[h]) => sessions[h][k].seen \in 0 .. agentNow
    <3> SUFFICES ASSUME NEW h \in AgentHosts, NEW k \in 1 .. MaxRegistrations, k <= Len(sessions[h])
                 PROVE  sessions[h][k].seen \in 0 .. agentNow
      OBVIOUS
    <3>1. sessions[h] \in Seq(AgentSession) /\ k \in 1 .. Len(sessions[h]) /\ agentNow \in Nat
      BY DEF AgentInv, RegistryShape, AgentCall
    <3>2. sessions[h][k] \in AgentSession /\ sessions[h][k].seen <= agentNow
      BY <3>1 DEF AgentInv, SeenIsPast, SeenBy
    <3> QED
      BY <3>1, <3>2 DEF AgentSession
  <2> QED
    BY <2>1 DEF AgentInv, RegistryShape, AgentCall, AgentTypeOK, AgentTenantOrNone
<1> QED
  BY <1>1, AgentSafety, PTL

\* A host is in the tenant it was given and has one open session at most, the newest one,
\* for any number of agents, hosts and registrations at the same time, unless its first
\* registration misread the credential or its registrations overlapped (RegisterAgent).
THEOREM RegistryConsistency == AgentSpec => []RegistryIsConsistent
<1>1. AgentInv => RegistryIsConsistent
  <2> SUFFICES ASSUME AgentInv PROVE OneOpenSession /\ AssetIsInItsTenant
    BY DEF RegistryIsConsistent
  <2>1. \A h \in AgentHosts : Len(sessions[h]) \in Nat
    BY DEF AgentInv, RegistryShape, AgentCall
  <2> QED
    BY <2>1 DEF AgentInv, OnlyNewestOpen, OneOpenSession, NewestOnly
<1> QED
  BY <1>1, AgentSafety, PTL

-----------------------------------------------------------------------------
(* FindingLifecycle: findings and their events                             *)

ScanRecord == [host : Hosts, found : SUBSET Keys]

StatusRequest == [todo : Seq(Items), from : Statuses \cup {NoRecord}]

\* The shape of the tables and of the requests in progress
LifecycleShape ==
    /\ scan \in Seq(ScanRecord) /\ Len(scan) <= MaxScans
    /\ queued \subseteq 1 .. Len(scan)
    /\ telemetry \in Seq(1 .. MaxScans)
    /\ row \in [Keys -> FindingRow \cup {NoRecord}]
    /\ events \in [Ids -> Seq(Event)]
    /\ verdict \in [Keys -> Statuses \cup {NoRecord}] /\ retentions \in Nat
RequestShape ==
    /\ op \in [Ops -> StatusRequest \cup {NoRecord}]
    /\ \A o \in Ops : op[o] # NoRecord =>
         op[o].todo # <<>> /\ (op[o].from # NoRecord => Head(op[o].todo).to \in Statuses)

\* The foreign key telemetry_id
RowIsBacked ==
    \A k \in Keys : row[k] # NoRecord => row[k].id[2] = k /\ InTable(row[k].tel)

\* Before the first purge only findings in the table have events, and a finding whose
\* status a request has read is still there.
EventsHaveRows ==
    retentions = 0 => \A id \in Ids : events[id] # <<>> => row[id[2]] # NoRecord /\ row[id[2]].id = id
ReadIsThere ==
    retentions = 0 => \A o \in Ops : op[o] # NoRecord /\ op[o].from # NoRecord =>
        LET id == Head(op[o].todo).id IN row[id[2]] # NoRecord /\ row[id[2]].id = id

Reopens(e) == Cardinality({i \in 1 .. Len(e) : e[i].type = "reopened"})

\* The status and the reopen_count of a finding follow from its events.
Explains(e, r) ==
    /\ r.status = IF e = <<>> THEN "open" ELSE e[Len(e)].to
    /\ r.reopens = Reopens(e)

RowsExplained == retentions = 0 => \A k \in Keys : row[k] # NoRecord => Explains(events[row[k].id], row[k])

FindingInv ==
    /\ LifecycleShape /\ RequestShape /\ RowIsBacked
    /\ EventsHaveRows /\ ReadIsThere /\ RowsExplained /\ FalsePositiveSticks

\* The number of reopened events, as events are added.
LEMMA ReopensEmpty == Reopens(<<>>) = 0
<1>1. {i \in 1 .. Len(<<>>) : <<>>[i].type = "reopened"} = {}
  OBVIOUS
<1> QED
  BY <1>1, FS_EmptySet DEF Reopens

\* An event counts as a reopening exactly when it is one.
LEMMA ReopensAppend ==
    ASSUME NEW es \in Seq(Event), NEW ent \in Event
    PROVE  /\ Append(es, ent) \in Seq(Event) /\ Append(es, ent) # <<>> /\ Reopens(es) \in Nat
           /\ Append(es, ent)[Len(Append(es, ent))] = ent
           /\ Reopens(Append(es, ent)) = IF ent.type = "reopened" THEN Reopens(es) + 1 ELSE Reopens(es)
<1> DEFINE n == Len(es)
           S == {i \in 1 .. Len(es) : es[i].type = "reopened"}
           T == {i \in 1 .. Len(Append(es, ent)) : Append(es, ent)[i].type = "reopened"}
<1>1. /\ Append(es, ent) \in Seq(Event) /\ Append(es, ent) # <<>> /\ n \in Nat
      /\ Len(Append(es, ent)) = n + 1 /\ Append(es, ent)[n + 1] = ent
      /\ \A i \in 1 .. n : Append(es, ent)[i] = es[i]
  OBVIOUS
<1>2. IsFiniteSet(S) /\ n + 1 \notin S
  <2>1. IsFiniteSet(1 .. n) /\ S \subseteq 1 .. n
    BY <1>1, FS_Interval
  <2> QED
    BY <1>1, <2>1, FS_Subset
<1>3. T = IF ent.type = "reopened" THEN S \cup {n + 1} ELSE S
  <2>1. \A i : i \in 1 .. n + 1 <=> i \in 1 .. n \/ i = n + 1
    BY <1>1
  <2>2. \A i : i \in T <=> \/ i \in 1 .. n /\ es[i].type = "reopened"
                           \/ i = n + 1 /\ ent.type = "reopened"
    BY <1>1, <2>1
  <2> QED
    BY <2>2
<1>4. Cardinality(S) \in Nat
  BY <1>2, FS_CardinalityType
<1>5. Cardinality(S \cup {n + 1}) = Cardinality(S) + 1
  BY <1>2, FS_AddElement
<1>6. Reopens(es) = Cardinality(S) /\ Reopens(Append(es, ent)) = Cardinality(T)
  BY DEF Reopens
<1> HIDE DEF S, T, n
<1> QED
  BY <1>1, <1>3, <1>4, <1>5, <1>6

\* A row whose status is set.
LEMMA RowWithStatus ==
    ASSUME NEW r \in FindingRow, NEW st
    PROVE  [r EXCEPT !.status = st] =
             [id |-> r.id, host |-> r.host, status |-> st, tel |-> r.tel, reopens |-> r.reopens]
  BY DEF FindingRow

\* What the upsert makes of a row.
LEMMA MergedFacts ==
    ASSUME NEW s \in 1 .. MaxScans, NEW k \in Keys, scan[s].host \in Hosts,
           row[k] \in FindingRow \cup {NoRecord}
    PROVE  /\ Merged(s, k) \in FindingRow /\ Merged(s, k) # NoRecord
           /\ row[k] = NoRecord => /\ Merged(s, k).id = <<s, k>> /\ Merged(s, k).status = "open"
                                   /\ Merged(s, k).tel = s /\ Merged(s, k).reopens = 0
           /\ row[k] # NoRecord =>
                /\ Merged(s, k).id = row[k].id /\ Merged(s, k).tel \in {row[k].tel, s}
                /\ IF row[k].status \in Closed
                     THEN Merged(s, k).status = "open" /\ Merged(s, k).reopens = row[k].reopens + 1
                     ELSE /\ Merged(s, k).status = row[k].status
                          /\ Merged(s, k).reopens = row[k].reopens
<1> DEFINE r == row[k]
<1>1. CASE r = NoRecord
  <2>1. Merged(s, k) = [id |-> <<s, k>>, host |-> scan[s].host, status |-> "open", tel |-> s,
                        reopens |-> 0]
    BY <1>1 DEF Merged, NewRow
  <2>2. <<s, k>> \in Ids
    BY DEF Ids
  <2> QED
    BY <1>1, <2>1, <2>2, LifecycleAssumption DEF FindingRow, Statuses
<1>2. CASE r # NoRecord
  <2>1. r \in FindingRow
    BY <1>2
  <2>2. CASE r.status = "open"
    <3>1. Merged(s, k) = [r EXCEPT !.tel = s]
      BY <1>2, <2>2 DEF Merged, Closed
    <3>2. [r EXCEPT !.tel = s] = [id |-> r.id, host |-> r.host, status |-> r.status, tel |-> s,
                                  reopens |-> r.reopens]
      BY <2>1 DEF FindingRow
    <3> QED
      BY <1>2, <2>1, <2>2, <3>1, <3>2, LifecycleAssumption DEF FindingRow, Closed
  <2>3. CASE r.status \in Closed
    <3>1. Merged(s, k) = [r EXCEPT !.status = "open", !.reopens = @ + 1]
      BY <1>2, <2>3 DEF Merged, Closed
    <3>2. [r EXCEPT !.status = "open", !.reopens = @ + 1] =
            [id |-> r.id, host |-> r.host, status |-> "open", tel |-> r.tel, reopens |-> r.reopens + 1]
      <4> DEFINE q == [r EXCEPT !.status = "open"]
      <4>1. q = [id |-> r.id, host |-> r.host, status |-> "open", tel |-> r.tel, reopens |-> r.reopens]
        BY <2>1 DEF FindingRow
      <4> HIDE DEF q
      <4>2. [q EXCEPT !.reopens = r.reopens + 1] =
              [id |-> r.id, host |-> r.host, status |-> "open", tel |-> r.tel, reopens |-> r.reopens + 1]
        BY <4>1
      <4> QED
        BY <4>2 DEF q
    <3> QED
      BY <1>2, <2>1, <2>3, <3>1, <3>2, LifecycleAssumption DEF FindingRow, Closed, Statuses
  <2>4. CASE r.status \notin Closed /\ r.status # "open"
    <3>1. Merged(s, k) = r
      BY <1>2, <2>4 DEF Merged
    <3> QED
      BY <1>2, <2>1, <2>4, <3>1
  <2> QED
    BY <2>2, <2>3, <2>4 DEF Closed
<1> QED
  BY <1>1, <1>2

\* The rest of a request, when its first item is done.
LEMMA NextItemFacts ==
    ASSUME NEW o \in Ops, op[o] \in StatusRequest, op[o].todo # <<>>
    PROVE  /\ NextItem(o) \in StatusRequest \cup {NoRecord}
           /\ NextItem(o) # NoRecord => NextItem(o).todo # <<>> /\ NextItem(o).from = NoRecord
<1> DEFINE q == op[o].todo
<1>1. q \in Seq(Items) /\ q # <<>>
  BY DEF StatusRequest
<1>2. CASE Len(q) = 1
  BY <1>2 DEF NextItem
<1>3. CASE Len(q) # 1
  <2>1. Tail(q) \in Seq(Items) /\ Tail(q) # <<>>
    <3>1. Len(q) \in Nat /\ Len(q) # 0 /\ Tail(q) \in Seq(Items) /\ Len(Tail(q)) = Len(q) - 1
      BY <1>1
    <3>2. Len(Tail(q)) # 0
      BY <1>3, <3>1
    <3>3. Len(<<>>) = 0
      OBVIOUS
    <3>4. Tail(q) # <<>>
      BY <3>2, <3>3, Zenon
    <3> QED
      BY <3>1, <3>4
  <2>2. NextItem(o) = [todo |-> Tail(q), from |-> NoRecord]
    BY <1>3 DEF NextItem
  <2> QED
    BY <2>1, <2>2 DEF StatusRequest
<1> QED
  BY <1>2, <1>3

\* Nothing is in the tables at the start.
LEMMA FindingInitInv == LifecycleInit => FindingInv
<1> SUFFICES ASSUME LifecycleInit PROVE FindingInv
  OBVIOUS
<1> USE LifecycleAssumption DEF LifecycleInit
<1>1. LifecycleShape
  BY DEF LifecycleShape
<1>2. RequestShape /\ RowIsBacked /\ EventsHaveRows /\ ReadIsThere /\ RowsExplained
  BY DEF RequestShape, RowIsBacked, EventsHaveRows, ReadIsThere, RowsExplained
<1>3. FalsePositiveSticks
  BY DEF FalsePositiveSticks, Statuses
<1> QED
  BY <1>1, <1>2, <1>3 DEF FindingInv

\* The steps of agents and requests that leave the findings alone.
LEMMA FindingQuietStep ==
    ASSUME FindingInv,
           \/ \E h \in Hosts, found \in SUBSET Keys : Scan(h, found)
           \/ \E s \in queued : Acked(s)
           \/ \E o \in Ops, items \in Seq(Items) : items # <<>> /\ Request(o, items)
           \/ \E o \in Ops : ReadStatus(o)
    PROVE  FindingInv'
<1> USE DEF FindingInv
<1>1. UNCHANGED <<telemetry, row, events, verdict, retentions>>
  BY DEF Scan, Acked, Request, ReadStatus
<1>2. RowIsBacked' /\ EventsHaveRows' /\ RowsExplained' /\ FalsePositiveSticks'
  BY <1>1 DEF RowIsBacked, InTable, EventsHaveRows, RowsExplained, FalsePositiveSticks
<1>3. ASSUME NEW h \in Hosts, NEW found \in SUBSET Keys, Scan(h, found) PROVE FindingInv'
  <2> DEFINE x == [host |-> h, found |-> found]
  <2>1. x \in ScanRecord
    BY DEF ScanRecord
  <2>2. /\ scan' \in Seq(ScanRecord) /\ Len(scan') = Len(scan) + 1
        /\ Len(scan) \in Nat /\ Len(scan) < MaxScans /\ queued' = queued \cup {Len(scan) + 1}
        /\ op' = op
    BY <1>3, <2>1 DEF Scan, LifecycleShape
  <2>3. Len(scan') <= MaxScans /\ queued' \subseteq 1 .. Len(scan')
    <3> DEFINE n == Len(scan)
    <3>1. n \in Nat /\ n < MaxScans /\ Len(scan') = n + 1 /\ queued' = queued \cup {n + 1}
          /\ queued \subseteq 1 .. n
      BY <2>2 DEF LifecycleShape
    <3> HIDE DEF n
    <3> QED
      BY <3>1, LifecycleAssumption
  <2>4. LifecycleShape'
    BY <1>1, <2>2, <2>3 DEF LifecycleShape
  <2>5. RequestShape' /\ ReadIsThere'
    BY <1>1, <2>2 DEF RequestShape, ReadIsThere
  <2> QED
    BY <1>2, <2>4, <2>5
<1>4. ASSUME NEW s \in queued, Acked(s) PROVE FindingInv'
  <2>1. LifecycleShape'
    BY <1>1, <1>4 DEF Acked, LifecycleShape
  <2>2. RequestShape' /\ ReadIsThere'
    BY <1>1, <1>4 DEF Acked, RequestShape, ReadIsThere
  <2> QED
    BY <1>2, <2>1, <2>2
<1>5. ASSUME NEW o \in Ops, NEW items \in Seq(Items), items # <<>>, Request(o, items) PROVE FindingInv'
  <2> DEFINE x == [todo |-> items, from |-> NoRecord]
  <2>1. x \in StatusRequest /\ x.todo # <<>> /\ x.from = NoRecord
    BY <1>5 DEF StatusRequest
  <2>2. op' = [op EXCEPT ![o] = x] /\ UNCHANGED <<scan, queued>>
    BY <1>5 DEF Request
  <2> HIDE DEF x
  <2>3. RequestShape'
    BY <2>1, <2>2 DEF RequestShape
  <2>4. ReadIsThere'
    BY <1>1, <2>1, <2>2 DEF ReadIsThere, RequestShape
  <2>5. LifecycleShape'
    BY <1>1, <2>2 DEF LifecycleShape
  <2> QED
    BY <1>2, <2>3, <2>4, <2>5
<1>6. ASSUME NEW o \in Ops, ReadStatus(o) PROVE FindingInv'
  <2> DEFINE item == Head(op[o].todo)
             r == row[item.id[2]]
  <2>1. op[o] \in StatusRequest /\ op[o].todo # <<>> /\ op[o].todo \in Seq(Items)
    BY <1>6 DEF ReadStatus, RequestShape, StatusRequest
  <2>2. item \in Items
    BY <2>1
  <2>3. item.id[2] \in Keys
    BY <2>2 DEF Items, Ids
  <2>4. UNCHANGED <<scan, queued>>
    BY <1>6 DEF ReadStatus
  <2>5. LifecycleShape'
    BY <1>1, <2>4 DEF LifecycleShape
  <2>6. CASE item.to \in Statuses /\ r # NoRecord /\ r.id = item.id
    <3> DEFINE x == [todo |-> op[o].todo, from |-> r.status]
    <3>1. r.status \in Statuses
      BY <2>3, <2>6 DEF LifecycleShape, FindingRow
    <3>2. x \in StatusRequest /\ x.todo = op[o].todo
      BY <2>1, <3>1 DEF StatusRequest
    <3>3. op' = [op EXCEPT ![o] = x]
      <4>1. [op[o] EXCEPT !.from = r.status] = x
        BY <2>1 DEF StatusRequest
      <4> QED
        BY <1>6, <2>6, <4>1 DEF ReadStatus
    <3> HIDE DEF x
    <3>4. RequestShape'
      BY <2>1, <2>6, <3>2, <3>3 DEF RequestShape
    <3>5. ReadIsThere'
      BY <1>1, <2>6, <3>2, <3>3 DEF ReadIsThere, RequestShape
    <3> QED
      BY <1>2, <2>5, <3>4, <3>5
  <2>7. CASE ~ (item.to \in Statuses /\ r # NoRecord /\ r.id = item.id)
    <3>1. op' = [op EXCEPT ![o] = NextItem(o)]
      BY <1>6, <2>7 DEF ReadStatus
    <3>2. RequestShape'
      BY <2>1, <3>1, NextItemFacts DEF RequestShape
    <3>3. ReadIsThere'
      BY <1>1, <2>1, <3>1, NextItemFacts DEF ReadIsThere, RequestShape
    <3> QED
      BY <1>2, <2>5, <3>2, <3>3
  <2> QED
    BY <2>6, <2>7
<1> QED
  BY <1>3, <1>4, <1>5, <1>6

\* The write of a status and its event are one transaction.
LEMMA FindingWriteStep ==
    ASSUME FindingInv, NEW o \in Ops, WriteStatus(o)
    PROVE  FindingInv'
<1> USE DEF FindingInv
<1> DEFINE id == Head(op[o].todo).id
           k == id[2]
           to == Head(op[o].todo).to
           x == [type |-> "status_change", from |-> op[o].from, to |-> to]
<1>1. /\ op[o] \in StatusRequest /\ op[o].todo # <<>> /\ op[o].todo \in Seq(Items)
      /\ op[o].from \in Statuses /\ to \in Statuses
  BY DEF WriteStatus, RequestShape, StatusRequest
<1>2. id \in Ids /\ k \in Keys
  <2>1. Head(op[o].todo) \in Items
    BY <1>1
  <2> QED
    BY <2>1 DEF Items, Ids
<1>3. x \in Event /\ x.to = to /\ x.type # "reopened"
  BY <1>1 DEF Event
<1>4. /\ UNCHANGED <<scan, queued, telemetry, retentions>>
      /\ events' = [events EXCEPT ![id] = Append(events[id], x)]
      /\ op' = [op EXCEPT ![o] = NextItem(o)]
  BY DEF WriteStatus
<1> HIDE DEF x
<1>5. /\ events'[id] \in Seq(Event) /\ events'[id] # <<>> /\ events'[id][Len(events'[id])] = x
      /\ Reopens(events'[id]) = Reopens(events[id])
      /\ events' \in [Ids -> Seq(Event)]
      /\ \A i \in Ids : i # id => events'[i] = events[i]
  <2>1. events[id] \in Seq(Event) /\ events'[id] = Append(events[id], x)
    BY <1>2, <1>4 DEF LifecycleShape
  <2>2. /\ events'[id] \in Seq(Event) /\ events'[id] # <<>> /\ events'[id][Len(events'[id])] = x
        /\ Reopens(events'[id]) = Reopens(events[id])
    <3>1. /\ Append(events[id], x) \in Seq(Event) /\ Append(events[id], x) # <<>>
          /\ Append(events[id], x)[Len(Append(events[id], x))] = x
          /\ Reopens(Append(events[id], x)) =
               IF x.type = "reopened" THEN Reopens(events[id]) + 1 ELSE Reopens(events[id])
      BY <1>3, <2>1, ReopensAppend
    <3>2. Reopens(Append(events[id], x)) = Reopens(events[id])
      BY <1>3, <3>1
    <3> QED
      BY <2>1, <3>1, <3>2, Zenon
  <2> QED
    BY <1>2, <1>4, <2>1, <2>2 DEF LifecycleShape
<1>6. CASE row[k] # NoRecord /\ row[k].id = id
  <2> DEFINE w == [id |-> row[k].id, host |-> row[k].host, status |-> to, tel |-> row[k].tel,
                   reopens |-> row[k].reopens]
  <2>1. row[k] \in FindingRow
    BY <1>2, <1>6 DEF LifecycleShape
  <2>2. w \in FindingRow /\ w # NoRecord /\ w.id = id /\ w.tel = row[k].tel /\ w.status = to
        /\ w.reopens = row[k].reopens
    BY <1>1, <1>6, <2>1, LifecycleAssumption DEF FindingRow
  <2>3. row' = [row EXCEPT ![k] = w] /\ verdict' = [verdict EXCEPT ![k] = to]
    <3>1. [row[k] EXCEPT !.status = to] = w
      BY <2>1, RowWithStatus
    <3> QED
      BY <1>6, <3>1 DEF WriteStatus
  <2> HIDE DEF w
  <2>4. row'[k] = w /\ \A j \in Keys : j # k => row'[j] = row[j]
    BY <1>2, <2>3 DEF LifecycleShape
  <2>5. LifecycleShape'
    BY <1>1, <1>2, <1>4, <1>5, <2>2, <2>3 DEF LifecycleShape
  <2>6. RequestShape'
    BY <1>1, <1>4, NextItemFacts DEF RequestShape
  <2>7. RowIsBacked'
    <3> SUFFICES ASSUME NEW j \in Keys, row'[j] # NoRecord
                 PROVE  row'[j].id[2] = j /\ \E i \in 1 .. Len(telemetry') : telemetry'[i] = row'[j].tel
      BY DEF RowIsBacked, InTable
    <3>1. row[j] # NoRecord /\ row'[j].id = row[j].id /\ row'[j].tel = row[j].tel
      BY <1>6, <2>2, <2>4
    <3>2. row[j].id[2] = j /\ InTable(row[j].tel)
      BY <3>1 DEF RowIsBacked
    <3> QED
      BY <1>4, <3>1, <3>2 DEF InTable
  <2>8. EventsHaveRows'
    BY <1>4, <1>5, <1>6, <2>2, <2>4 DEF EventsHaveRows, Ids
  <2>9. ReadIsThere'
    <3>1. ASSUME NEW p \in Ops, op'[p] # NoRecord, op'[p].from # NoRecord
          PROVE  op'[p] = op[p]
      BY <1>1, <1>4, <3>1, NextItemFacts DEF RequestShape
    <3>2. \A j \in Keys : row[j] # NoRecord => row'[j] # NoRecord /\ row'[j].id = row[j].id
      BY <1>6, <2>2, <2>4
    <3> SUFFICES ASSUME retentions = 0, NEW p \in Ops, op'[p] # NoRecord, op'[p].from # NoRecord,
                        NEW i, i = Head(op'[p].todo).id
                 PROVE  row'[i[2]] # NoRecord /\ row'[i[2]].id = i
      BY <1>4 DEF ReadIsThere
    <3>3. op'[p] = op[p]
      BY <3>1
    <3>4. row[i[2]] # NoRecord /\ row[i[2]].id = i
      BY <3>3 DEF ReadIsThere
    <3>5. i[2] \in Keys
      <4>1. op[p] \in StatusRequest /\ op[p].todo # <<>>
        BY <3>3 DEF RequestShape
      <4>2. op[p].todo \in Seq(Items)
        BY <4>1 DEF StatusRequest
      <4>3. Head(op[p].todo) \in Items
        BY <4>1, <4>2
      <4> QED
        BY <3>3, <4>3 DEF Items, Ids
    <3> QED
      BY <3>2, <3>4, <3>5
  <2>10. RowsExplained'
    <3>1. ASSUME NEW j \in Keys, j # k, row[j] # NoRecord PROVE row[j].id # id /\ row[j].id \in Ids
      BY <1>6, <3>1 DEF RowIsBacked, LifecycleShape, FindingRow
    <3>2. ASSUME retentions = 0 PROVE Explains(events'[id], w)
      BY <1>2, <1>3, <1>5, <1>6, <2>2, <3>2 DEF Explains, RowsExplained
    <3> SUFFICES ASSUME retentions = 0, NEW j \in Keys, row'[j] # NoRecord
                 PROVE  Explains(events'[row'[j].id], row'[j])
      BY <1>4 DEF RowsExplained, Explains, Reopens
    <3>3. CASE j = k
      BY <2>2, <2>4, <3>2, <3>3
    <3>4. CASE j # k
      <4>1. row'[j] = row[j] /\ events'[row[j].id] = events[row[j].id]
        BY <1>5, <2>4, <3>1, <3>4
      <4> QED
        BY <4>1 DEF RowsExplained
    <3> QED
      BY <3>3, <3>4
  <2>11. FalsePositiveSticks'
    BY <1>2, <2>2, <2>3, <2>4 DEF FalsePositiveSticks, LifecycleShape
  <2> QED
    BY <2>5, <2>6, <2>7, <2>8, <2>9, <2>10, <2>11
<1>7. CASE ~ (row[k] # NoRecord /\ row[k].id = id)
  <2>1. UNCHANGED <<row, verdict>>
    BY <1>7 DEF WriteStatus
  <2>2. retentions # 0
    BY <1>1, <1>7, LifecycleAssumption DEF ReadIsThere, RequestShape, WriteStatus
  <2>3. LifecycleShape'
    BY <1>4, <1>5, <2>1 DEF LifecycleShape
  <2>4. RequestShape'
    BY <1>1, <1>4, NextItemFacts DEF RequestShape
  <2>5. RowIsBacked' /\ FalsePositiveSticks'
    BY <1>4, <2>1 DEF RowIsBacked, InTable, FalsePositiveSticks
  <2>6. EventsHaveRows' /\ ReadIsThere' /\ RowsExplained'
    BY <1>4, <2>2 DEF EventsHaveRows, ReadIsThere, RowsExplained
  <2> QED
    BY <2>3, <2>4, <2>5, <2>6
<1> QED
  BY <1>6, <1>7

\* A payload is merged: rows are created without events, refreshed, or reopened with one.
LEMMA FindingInsertStep ==
    ASSUME FindingInv, NEW s \in queued, InsertTelemetry(s)
    PROVE  FindingInv'
<1> USE DEF FindingInv
<1>1. s \in 1 .. MaxScans /\ scan[s].host \in Hosts /\ scan[s].found \subseteq Keys
  <2>1. s \in 1 .. Len(scan) /\ Len(scan) \in Nat /\ Len(scan) <= MaxScans
    BY DEF LifecycleShape
  <2>2. scan[s] \in ScanRecord
    BY <2>1 DEF LifecycleShape
  <2> QED
    BY <2>1, <2>2, LifecycleAssumption DEF ScanRecord
<1>2. UNCHANGED <<scan, queued, op, verdict, retentions>>
  BY DEF InsertTelemetry
<1>3. /\ telemetry' \in Seq(1 .. MaxScans)
      /\ \E i \in 1 .. Len(telemetry') : telemetry'[i] = s
      /\ \A t : InTable(t) => \E i \in 1 .. Len(telemetry') : telemetry'[i] = t
  <2>1. CASE InTable(s)
    BY <2>1 DEF InsertTelemetry, InTable, LifecycleShape
  <2>2. CASE ~ InTable(s)
    <3> DEFINE n == Len(telemetry)
    <3>1. /\ telemetry' \in Seq(1 .. MaxScans) /\ Len(telemetry') = n + 1 /\ n \in Nat
          /\ telemetry'[n + 1] = s /\ \A i \in 1 .. n : telemetry'[i] = telemetry[i]
      BY <1>1, <2>2 DEF InsertTelemetry, LifecycleShape
    <3>2. \A t : InTable(t) => \E i \in 1 .. n : telemetry[i] = t
      BY DEF InTable
    <3> HIDE DEF n
    <3>3. n + 1 \in 1 .. n + 1 /\ \A i \in 1 .. n : i \in 1 .. n + 1
      BY <3>1
    <3> QED
      BY <3>1, <3>2, <3>3
  <2> QED
    BY <2>1, <2>2
<1>4. /\ row' \in [Keys -> FindingRow \cup {NoRecord}]
      /\ \A k \in Keys : row[k] # NoRecord =>
           /\ row'[k] # NoRecord /\ row'[k].id = row[k].id /\ row'[k].tel \in {row[k].tel, s}
           /\ IF k \in Reopened(s)
                THEN row'[k].status = "open" /\ row'[k].reopens = row[k].reopens + 1
                ELSE row'[k].status = row[k].status /\ row'[k].reopens = row[k].reopens
      /\ \A k \in Keys : row[k] = NoRecord /\ row'[k] # NoRecord =>
           /\ row'[k].id = <<s, k>> /\ row'[k].tel = s
           /\ row'[k].status = "open" /\ row'[k].reopens = 0
  <2>1. row' = [k \in Keys |-> IF k \in scan[s].found THEN Merged(s, k) ELSE row[k]]
    BY DEF InsertTelemetry
  <2>2. \A k \in Keys : row[k] \in FindingRow \cup {NoRecord}
    BY DEF LifecycleShape
  <2>3. ASSUME NEW k \in Keys
        PROVE  /\ row'[k] \in FindingRow \cup {NoRecord}
               /\ row[k] # NoRecord =>
                    /\ row'[k] # NoRecord /\ row'[k].id = row[k].id /\ row'[k].tel \in {row[k].tel, s}
                    /\ IF k \in Reopened(s)
                         THEN row'[k].status = "open" /\ row'[k].reopens = row[k].reopens + 1
                         ELSE row'[k].status = row[k].status /\ row'[k].reopens = row[k].reopens
               /\ row[k] = NoRecord /\ row'[k] # NoRecord =>
                    /\ row'[k].id = <<s, k>> /\ row'[k].tel = s
                    /\ row'[k].status = "open" /\ row'[k].reopens = 0
    <3>1. CASE k \in scan[s].found
      <4>1. row'[k] = Merged(s, k)
        BY <2>1, <3>1
      <4>2. k \in Reopened(s) <=> row[k] # NoRecord /\ row[k].status \in Closed
        BY <3>1 DEF Reopened
      <4> QED
        BY <1>1, <2>2, <4>1, <4>2, MergedFacts
    <3>2. CASE k \notin scan[s].found
      BY <2>1, <2>2, <3>2 DEF Reopened
    <3> QED
      BY <3>1, <3>2
  <2> QED
    BY <2>1, <2>3
<1>5. ASSUME NEW id \in Ids
      PROVE  /\ events'[id] \in Seq(Event)
             /\ IF id[2] \in Reopened(s) /\ row[id[2]].id = id
                  THEN /\ events'[id] # <<>> /\ events'[id][Len(events'[id])].to = "open"
                       /\ Reopens(events'[id]) = Reopens(events[id]) + 1
                  ELSE events'[id] = events[id]
  <2> DEFINE x == [type |-> "reopened", from |-> row[id[2]].status, to |-> "open"]
  <2>1. id[2] \in Keys /\ events[id] \in Seq(Event)
    BY DEF Ids, LifecycleShape
  <2>2. events'[id] = IF \E k \in Reopened(s) : row[k].id = id THEN Append(events[id], x) ELSE events[id]
    BY DEF InsertTelemetry
  <2>3. (\E k \in Reopened(s) : row[k].id = id) <=> id[2] \in Reopened(s) /\ row[id[2]].id = id
    BY <1>1 DEF Reopened, RowIsBacked
  <2>4. CASE id[2] \in Reopened(s) /\ row[id[2]].id = id
    <3>1. row[id[2]].status \in Statuses
      BY <2>1, <2>4 DEF Reopened, LifecycleShape, FindingRow
    <3>2. x \in Event /\ x.type = "reopened" /\ x.to = "open"
      BY <3>1 DEF Event, Statuses
    <3>3. events'[id] = Append(events[id], x)
      BY <2>2, <2>3, <2>4
    <3> HIDE DEF x
    <3>4. /\ Append(events[id], x) \in Seq(Event) /\ Append(events[id], x) # <<>>
          /\ Append(events[id], x)[Len(Append(events[id], x))] = x
          /\ Reopens(Append(events[id], x)) =
               IF x.type = "reopened" THEN Reopens(events[id]) + 1 ELSE Reopens(events[id])
      BY <2>1, <3>2, ReopensAppend
    <3>5. Reopens(Append(events[id], x)) = Reopens(events[id]) + 1
      BY <3>2, <3>4
    <3> QED
      BY <2>4, <3>2, <3>3, <3>4, <3>5, Zenon
  <2>5. CASE ~ (id[2] \in Reopened(s) /\ row[id[2]].id = id)
    BY <2>1, <2>2, <2>3, <2>5
  <2> QED
    BY <2>4, <2>5
<1>6. LifecycleShape'
  <2>1. events' \in [Ids -> Seq(Event)]
    <3>1. events' = [id \in Ids |-> events'[id]]
      BY DEF InsertTelemetry
    <3> QED
      BY <1>5, <3>1
  <2> QED
    BY <1>2, <1>3, <1>4, <2>1 DEF LifecycleShape
<1>7. RequestShape'
  BY <1>2 DEF RequestShape
<1>8. RowIsBacked'
  <2> SUFFICES ASSUME NEW k \in Keys, row'[k] # NoRecord
               PROVE  row'[k].id[2] = k /\ \E i \in 1 .. Len(telemetry') : telemetry'[i] = row'[k].tel
    BY DEF RowIsBacked, InTable
  <2>1. CASE row[k] = NoRecord
    BY <1>3, <1>4, <2>1
  <2>2. CASE row[k] # NoRecord
    BY <1>3, <1>4, <2>2 DEF RowIsBacked
  <2> QED
    BY <2>1, <2>2
<1>9. EventsHaveRows'
  <2> SUFFICES ASSUME retentions = 0, NEW id \in Ids, events'[id] # <<>>
               PROVE  row'[id[2]] # NoRecord /\ row'[id[2]].id = id
    BY <1>2 DEF EventsHaveRows
  <2>1. id[2] \in Keys
    BY DEF Ids
  <2>2. row[id[2]] # NoRecord /\ row[id[2]].id = id
    <3>1. CASE id[2] \in Reopened(s) /\ row[id[2]].id = id
      BY <3>1 DEF Reopened
    <3>2. CASE events'[id] = events[id]
      BY <3>2 DEF EventsHaveRows
    <3> QED
      BY <1>5, <3>1, <3>2
  <2> QED
    BY <1>4, <2>1, <2>2
<1>10. ReadIsThere'
  <2> SUFFICES ASSUME retentions = 0, NEW p \in Ops, op[p] # NoRecord, op[p].from # NoRecord,
                      NEW i, i = Head(op[p].todo).id
               PROVE  row'[i[2]] # NoRecord /\ row'[i[2]].id = i
    BY <1>2 DEF ReadIsThere
  <2>1. row[i[2]] # NoRecord /\ row[i[2]].id = i
    BY DEF ReadIsThere
  <2>2. i[2] \in Keys
    <3>1. op[p] \in StatusRequest /\ op[p].todo # <<>>
      BY DEF RequestShape
    <3>2. op[p].todo \in Seq(Items)
      BY <3>1 DEF StatusRequest
    <3>3. Head(op[p].todo) \in Items
      BY <3>1, <3>2
    <3> QED
      BY <3>3 DEF Items, Ids
  <2> QED
    BY <1>4, <2>1, <2>2
<1>11. RowsExplained'
  <2> SUFFICES ASSUME retentions = 0, NEW k \in Keys, row'[k] # NoRecord
               PROVE  Explains(events'[row'[k].id], row'[k])
    BY <1>2 DEF RowsExplained, Explains, Reopens
  <2>1. CASE row[k] = NoRecord
    <3>1. <<s, k>> \in Ids /\ <<s, k>>[2] = k
      BY <1>1 DEF Ids
    <3>2. events'[<<s, k>>] = <<>>
      <4>1. events[<<s, k>>] = <<>>
        BY <2>1, <3>1 DEF EventsHaveRows
      <4>2. k \notin Reopened(s)
        BY <2>1 DEF Reopened
      <4> QED
        BY <1>5, <3>1, <4>1, <4>2
    <3>3. row'[k].id = <<s, k>> /\ row'[k].status = "open" /\ row'[k].reopens = 0
      BY <1>4, <2>1
    <3> QED
      BY <3>2, <3>3, ReopensEmpty DEF Explains
  <2>2. CASE row[k] # NoRecord
    <3> DEFINE id == row[k].id
    <3>1. id \in Ids /\ id[2] = k /\ row'[k].id = id /\ Explains(events[id], row[k])
      BY <1>4, <2>2 DEF RowIsBacked, RowsExplained, LifecycleShape, FindingRow
    <3>2. CASE k \in Reopened(s)
      <4>1. /\ events'[id] # <<>> /\ events'[id][Len(events'[id])].to = "open"
            /\ Reopens(events'[id]) = Reopens(events[id]) + 1
        BY <1>5, <3>1, <3>2
      <4>2. row'[k].status = "open" /\ row'[k].reopens = row[k].reopens + 1
        BY <1>4, <2>2, <3>2
      <4> QED
        BY <3>1, <4>1, <4>2 DEF Explains
    <3>3. CASE k \notin Reopened(s)
      <4>1. events'[id] = events[id]
        BY <1>5, <3>1, <3>3
      <4>2. row'[k].status = row[k].status /\ row'[k].reopens = row[k].reopens
        BY <1>4, <2>2, <3>3
      <4> QED
        BY <3>1, <4>1, <4>2 DEF Explains
    <3> QED
      BY <3>2, <3>3
  <2> QED
    BY <2>1, <2>2
<1>12. FalsePositiveSticks'
  <2> SUFFICES ASSUME NEW k \in Keys, verdict[k] = "false_positive"
               PROVE  row'[k] # NoRecord /\ row'[k].status = "false_positive"
    BY <1>2 DEF FalsePositiveSticks
  <2>1. row[k] # NoRecord /\ row[k].status = "false_positive"
    BY DEF FalsePositiveSticks
  <2>2. k \notin Reopened(s)
    BY <2>1 DEF Reopened, Closed
  <2> QED
    BY <1>4, <2>1, <2>2
<1> QED
  BY <1>6, <1>7, <1>8, <1>9, <1>10, <1>11, <1>12

\* The oldest entries of a table are dropped.
LEMMA DropFirst ==
    ASSUME NEW S, NEW q \in Seq(S), NEW d \in 1 .. Len(q)
    PROVE  /\ SubSeq(q, d + 1, Len(q)) \in Seq(S) /\ Len(SubSeq(q, d + 1, Len(q))) = Len(q) - d
           /\ \A i \in 1 .. Len(q) - d : SubSeq(q, d + 1, Len(q))[i] = q[d + i]
  OBVIOUS

\* Retention removes payloads together with the findings that name them.
LEMMA FindingPurgeStep ==
    ASSUME FindingInv, NEW n \in 1 .. MaxScans, PurgeFindings(n)
    PROVE  FindingInv'
<1> USE DEF FindingInv
<1> DEFINE m == Len(telemetry)
<1>1. /\ UNCHANGED <<scan, queued, events, op>> /\ n <= m /\ m \in Nat /\ n \in 1 .. m
      /\ telemetry' = SubSeq(telemetry, n + 1, m) /\ telemetry \in Seq(1 .. MaxScans)
  BY LifecycleAssumption DEF PurgeFindings, LifecycleShape
<1>2. /\ telemetry' \in Seq(1 .. MaxScans) /\ Len(telemetry') = m - n
      /\ \A i \in 1 .. m - n : telemetry'[i] = telemetry[n + i]
  BY <1>1, DropFirst
<1>3. \A k \in Keys : row'[k] # NoRecord =>
        row'[k] = row[k] /\ \A i \in 1 .. n : telemetry[i] # row[k].tel
  BY DEF PurgeFindings
<1>4. \A k \in Keys : verdict'[k] = IF row'[k] = NoRecord THEN NoRecord ELSE verdict[k]
  BY DEF PurgeFindings
<1>5. LifecycleShape'
  <2>1. row' \in [Keys -> FindingRow \cup {NoRecord}] /\ verdict' \in [Keys -> Statuses \cup {NoRecord}]
        /\ retentions' \in Nat
    BY DEF PurgeFindings, LifecycleShape
  <2> QED
    BY <1>1, <1>2, <2>1 DEF LifecycleShape
<1>6. RequestShape'
  BY <1>1 DEF RequestShape
<1>7. RowIsBacked'
  <2> SUFFICES ASSUME NEW k \in Keys, row'[k] # NoRecord
               PROVE  row'[k].id[2] = k /\ \E i \in 1 .. Len(telemetry') : telemetry'[i] = row'[k].tel
    BY DEF RowIsBacked, InTable
  <2>1. row'[k] = row[k] /\ row[k].id[2] = k
    BY <1>3 DEF RowIsBacked
  <2>2. PICK i \in 1 .. m : telemetry[i] = row[k].tel
    BY <2>1 DEF RowIsBacked, InTable
  <2>3. ~ (i \in 1 .. n)
    BY <1>3, <2>2
  <2> HIDE DEF m
  <2>4. i - n \in 1 .. m - n /\ n + (i - n) = i
    BY <1>1, <2>3
  <2> QED
    BY <1>2, <2>1, <2>2, <2>4
<1>8. retentions' # 0
  BY DEF PurgeFindings, LifecycleShape
<1>9. EventsHaveRows' /\ ReadIsThere' /\ RowsExplained'
  BY <1>8 DEF EventsHaveRows, ReadIsThere, RowsExplained
<1>10. FalsePositiveSticks'
  BY <1>3, <1>4, LifecycleAssumption DEF FalsePositiveSticks, Statuses
<1> QED
  BY <1>5, <1>6, <1>7, <1>9, <1>10

\* Every step keeps the invariant.
LEMMA FindingNextInv == FindingInv /\ [LifecycleNext]_lifecycleVars => FindingInv'
<1> SUFFICES ASSUME FindingInv, [LifecycleNext]_lifecycleVars PROVE FindingInv'
  OBVIOUS
<1>1. CASE UNCHANGED lifecycleVars
  <2>1. LifecycleShape' /\ RequestShape' /\ RowIsBacked' /\ FalsePositiveSticks'
    BY <1>1 DEF lifecycleVars, FindingInv, LifecycleShape, RequestShape, RowIsBacked, InTable,
                FalsePositiveSticks
  <2>2. EventsHaveRows' /\ ReadIsThere' /\ RowsExplained'
    BY <1>1 DEF lifecycleVars, FindingInv, EventsHaveRows, ReadIsThere, RowsExplained
  <2> QED
    BY <2>1, <2>2 DEF FindingInv
<1>2. ASSUME NEW o \in Ops, \E i \in Items : FindingStatus(o, i) PROVE FindingInv'
  <2>1. \A i \in Items : <<i>> \in Seq(Items) /\ <<i>> # <<>>
    OBVIOUS
  <2> QED
    BY <1>2, <2>1, FindingQuietStep DEF FindingStatus
<1>3. ASSUME NEW o \in Ops, \E i, j \in Items : BulkUpdateFindings(o, <<i, j>>) PROVE FindingInv'
  <2>1. \A i, j \in Items : <<i, j>> \in Seq(Items) /\ <<i, j>> # <<>>
    OBVIOUS
  <2> QED
    BY <1>3, <2>1, FindingQuietStep DEF BulkUpdateFindings
<1> QED
  BY <1>1, <1>2, <1>3, FindingQuietStep, FindingWriteStep, FindingInsertStep, FindingPurgeStep
  DEF LifecycleNext

\* The lifecycle's invariant holds throughout.
LEMMA FindingSafety == LifecycleSpec => []FindingInv
  BY FindingInitInv, FindingNextInv, PTL DEF LifecycleSpec

\* The tables keep their types, and a finding in the table has its payload there.
THEOREM LifecycleTypeCorrect == LifecycleSpec => []LifecycleTypeOK
<1>1. FindingInv => LifecycleTypeOK
  BY DEF FindingInv, LifecycleShape, RowIsBacked, LifecycleTypeOK
<1> QED
  BY <1>1, FindingSafety, PTL

\* Before the first purge, the status of a finding and its reopen_count are the ones its
\* events give, for any number of hosts, findings and overlapping requests.
THEOREM StatusesAreExplained == LifecycleSpec => []StatusIsExplained
<1>1. FindingInv => StatusIsExplained
  BY DEF FindingInv, RowsExplained, StatusIsExplained, Explains, Reopens
<1> QED
  BY <1>1, FindingSafety, PTL

\* No telemetry, late or repeated, undoes an operator's false_positive (InsertTelemetry).
THEOREM FalsePositivesStick == LifecycleSpec => []FalsePositiveSticks
<1>1. FindingInv => FalsePositiveSticks
  BY DEF FindingInv
<1> QED
  BY <1>1, FindingSafety, PTL

-----------------------------------------------------------------------------
(* CommandSigning: keys and envelopes                                      *)

Signer == [mac : MacKeys \cup {NoKey}, macAt : {"memory", "hsm"}, sign : {"none", "memory", "soft", "token"},
           key : Nat \cup {NoKey}, pub : Nat \cup {NoKey}, cert : Nat \cup {NoKey}]

\* The values of the orchestrator's fields that the start sets together
LEMMA SignerPair ==
    ASSUME NEW r \in Signer, NEW g, NEW p
    PROVE  [r EXCEPT !.sign = g, !.pub = p] =
             [mac |-> r.mac, macAt |-> r.macAt, sign |-> g, key |-> r.key, pub |-> p, cert |-> r.cert]
<1> DEFINE q == [r EXCEPT !.sign = g]
<1>1. q = [mac |-> r.mac, macAt |-> r.macAt, sign |-> g, key |-> r.key, pub |-> r.pub, cert |-> r.cert]
  BY DEF Signer
<1> HIDE DEF q
<1>2. [q EXCEPT !.pub = p] =
        [mac |-> r.mac, macAt |-> r.macAt, sign |-> g, key |-> r.key, pub |-> p, cert |-> r.cert]
  BY <1>1
<1> QED
  BY <1>2 DEF q

\* The same for the pair of a key file or of this process.
LEMMA SignerTriple ==
    ASSUME NEW r \in Signer, NEW g, NEW p, NEW k
    PROVE  [r EXCEPT !.sign = g, !.key = k, !.pub = p] =
             [mac |-> r.mac, macAt |-> r.macAt, sign |-> g, key |-> k, pub |-> p, cert |-> r.cert]
<1> DEFINE q == [r EXCEPT !.sign = g, !.key = k]
<1>1. q = [mac |-> r.mac, macAt |-> r.macAt, sign |-> g, key |-> k, pub |-> r.pub, cert |-> r.cert]
  <2> DEFINE o == [r EXCEPT !.sign = g]
  <2>1. o = [mac |-> r.mac, macAt |-> r.macAt, sign |-> g, key |-> r.key, pub |-> r.pub, cert |-> r.cert]
    BY DEF Signer
  <2> HIDE DEF o
  <2>2. [o EXCEPT !.key = k] =
         [mac |-> r.mac, macAt |-> r.macAt, sign |-> g, key |-> k, pub |-> r.pub, cert |-> r.cert]
    BY <2>1
  <2> QED
    BY <2>2 DEF o
<1> HIDE DEF q
<1>2. [q EXCEPT !.pub = p] =
        [mac |-> r.mac, macAt |-> r.macAt, sign |-> g, key |-> k, pub |-> p, cert |-> r.cert]
  BY <1>1
<1> QED
  BY <1>2 DEF q

\* The same for the place of the MAC key and the certificate.
LEMMA SignerOne ==
    ASSUME NEW r \in Signer, NEW v
    PROVE  /\ [r EXCEPT !.macAt = "hsm"] = [mac |-> r.mac, macAt |-> "hsm", sign |-> r.sign,
                                           key |-> r.key, pub |-> r.pub, cert |-> r.cert]
           /\ [r EXCEPT !.cert = v] = [mac |-> r.mac, macAt |-> r.macAt, sign |-> r.sign,
                                       key |-> r.key, pub |-> r.pub, cert |-> v]
           /\ [r EXCEPT !.macAt = "hsm", !.mac = NoKey] = [mac |-> NoKey, macAt |-> "hsm", sign |-> r.sign,
                                           key |-> r.key, pub |-> r.pub, cert |-> r.cert]
<1>1. [r EXCEPT !.cert = v] = [mac |-> r.mac, macAt |-> r.macAt, sign |-> r.sign,
                                       key |-> r.key, pub |-> r.pub, cert |-> v]
  BY DEF Signer
<1> DEFINE q == [r EXCEPT !.macAt = "hsm"]
<1>2. q = [mac |-> r.mac, macAt |-> "hsm", sign |-> r.sign, key |-> r.key, pub |-> r.pub, cert |-> r.cert]
  BY DEF Signer
<1> HIDE DEF q
<1>3. [q EXCEPT !.mac = NoKey] =
        [mac |-> NoKey, macAt |-> "hsm", sign |-> r.sign, key |-> r.key, pub |-> r.pub, cert |-> r.cert]
  BY <1>2
<1> QED
  BY <1>1, <1>2, <1>3 DEF q

\* Unless a tool or a failed lookup interfered, the token holds one pair at most, whole, and
\* none when the start is about to generate one.
OnePair ==
    ~tampered =>
        /\ Objects("private") = Objects("public")
        /\ \A a, b \in Objects("private") : a = b
        /\ stage = "generate" => Objects("private") = {}

\* What main has put in the orchestrator, stage by stage
SignerFits ==
    /\ stage \notin {"cert", "serve", "serving"} => signer.sign = "none"
    /\ stage \in {"down", "refused", "backend", "mac", "importMac", "pair", "generate", "public", "cert"} =>
         signer.cert = NoKey
    /\ stage \in {"generate", "public"} => deploy.scheme = "ml-dsa" /\ Backend = "pkcs11"
    /\ stage = "cert" => signer.sign # "none"
    /\ signer.sign = "none" => signer.pub = NoKey /\ signer.cert = NoKey
    /\ signer.sign # "none" => deploy.scheme = "ml-dsa" /\ signer.pub \in Nat
    /\ stage \in {"serve", "serving"} =>
         /\ signer.sign = "none" => deploy.scheme = "hmac"
         /\ signer.sign # "none" =>
              signer.cert = IF deploy.certified = "none" THEN NoKey ELSE signer.pub

\* The key that signs is the one that is published.
KeyFits ==
    /\ signer.sign = "memory" => /\ signer.key = signer.pub /\ Backend = "disabled"
                                 /\ deploy.keyFile => signer.pub = 0
    /\ signer.sign = "soft" => softStore = signer.pub /\ Backend = "software"
    /\ signer.sign = "token" => Backend = "pkcs11" /\ (~tampered => signer.pub \in Objects("public"))

PublishedStays ==
    ~tampered =>
        /\ Backend = "pkcs11" => published \subseteq Objects("public")
        /\ Backend = "disabled" /\ deploy.keyFile => published \subseteq {0}

SigningInv ==
    /\ SigningTypeOK /\ OnePair /\ SignerFits /\ KeyFits /\ PublishedStays /\ CommandsAreSigned

\* A controller that was never started has issued nothing.
LEMMA SigningInitInv == SigningInit => SigningInv
<1> SUFFICES ASSUME SigningInit PROVE SigningInv
  OBVIOUS
<1>1. signer = NewOrch /\ stage = "down" /\ token = {} /\ published = {} /\ tampered = FALSE
      /\ envelope.form = "unsigned"
  BY DEF SigningInit, Unsigned
<1>2. SigningTypeOK
  BY DEF SigningInit, SigningTypeOK, NewOrch
<1>3. SignerFits /\ KeyFits
  BY <1>1 DEF SignerFits, KeyFits, NewOrch
<1>4. OnePair /\ PublishedStays
  BY <1>1 DEF OnePair, PublishedStays, Objects
<1>5. CommandsAreSigned
  BY <1>1 DEF CommandsAreSigned, SignedByCarriedKey, SigningFailsClosed
<1> QED
  BY <1>2, <1>3, <1>4, <1>5 DEF SigningInv

\* A step that leaves the token and what was published and issued alone.
LEMMA TokenIsLeft ==
    ASSUME SigningInv, UNCHANGED <<deploy, token, tampered, published, envelope>>, stage' # "generate"
    PROVE  OnePair' /\ PublishedStays' /\ CommandsAreSigned'
<1>1. OnePair'
  BY DEF SigningInv, OnePair, Objects
<1>2. PublishedStays'
  BY DEF SigningInv, PublishedStays, Objects, Backend
<1>3. CommandsAreSigned'
  BY DEF SigningInv, CommandsAreSigned, SignedByCarriedKey, SigningFailsClosed
<1> QED
  BY <1>1, <1>2, <1>3

\* A step that leaves the orchestrator alone, at the same stage.
LEMMA SignerIsLeft ==
    ASSUME SigningInv, UNCHANGED <<deploy, stage, signer, softStore>>,
           tampered => tampered', ~tampered' => Objects("public") \subseteq Objects("public")'
    PROVE  SignerFits' /\ KeyFits'
<1>1. SignerFits'
  BY DEF SigningInv, SignerFits, Backend
<1>2. KeyFits'
  BY DEF SigningInv, KeyFits, Backend
<1> QED
  BY <1>1, <1>2

\* A new or a refused start has an orchestrator without keys.
LEMMA SignerIsNew ==
    ASSUME signer'.sign = "none", signer'.pub = NoKey, signer'.cert = NoKey,
           stage' \in {"down", "refused", "backend", "mac", "importMac", "pair"}
    PROVE  SignerFits' /\ KeyFits'
  BY DEF SignerFits, KeyFits

\* The steps of the start that only prepare the orchestrator.
LEMMA StartStep ==
    ASSUME SigningInv,
           \/ StartController \/ OpenBackend \/ FindMac \/ NoPair \/ StopController
    PROVE  SigningInv'
<1> USE DEF SigningInv
<1>1. /\ UNCHANGED <<deploy, token, tampered, published, envelope, minted, tool, doomed, tools>>
      /\ stage' # "generate"
  BY DEF StartController, OpenBackend, FindMac, NoPair, StopController, TokenFails, RefuseStart
<1>2. OnePair' /\ PublishedStays' /\ CommandsAreSigned'
  BY <1>1, TokenIsLeft
<1>3. signer \in Signer /\ NewOrch \in Signer /\ [NewOrch EXCEPT !.mac = macKey] \in Signer
  BY DEF SigningTypeOK, Signer, NewOrch
<1>4. /\ starts' \in Nat /\ tokenErrors' \in Nat /\ macKey' \in MacKeys
      /\ softStore' \in Nat \cup {NoKey}
  BY DEF SigningTypeOK, StartController, OpenBackend, FindMac, NoPair, StopController, TokenFails,
         RefuseStart
<1>5. ASSUME signer' \in Signer, SignerFits', KeyFits',
             stage' \in {"refused", "down", "backend", "mac", "importMac", "pair", "serve"}
      PROVE  SigningInv'
  <2>1. SigningTypeOK'
    BY <1>1, <1>4, <1>5 DEF SigningTypeOK, Signer
  <2> QED
    BY <1>2, <1>5, <2>1
<1>6. CASE StartController
  BY <1>3, <1>5, <1>6, SignerIsNew DEF StartController, NewOrch
<1>7. CASE OpenBackend
  BY <1>3, <1>5, <1>7, SignerIsNew DEF OpenBackend, RefuseStart, NewOrch, SignerFits
<1>8. CASE FindMac
  <2>1. /\ signer.sign = "none" /\ signer.pub = NoKey /\ signer.cert = NoKey
        /\ stage' \in {"pair", "importMac"}
    BY <1>8 DEF FindMac, SignerFits
  <2>2. \/ signer' = signer \/ signer' = [signer EXCEPT !.macAt = "hsm"]
        \/ signer' = [signer EXCEPT !.macAt = "hsm", !.mac = NoKey]
    BY <1>8 DEF FindMac
  <2>3. signer' \in Signer /\ signer'.sign = "none" /\ signer'.pub = NoKey /\ signer'.cert = NoKey
    <3>1. CASE signer' = signer
      BY <1>3, <2>1, <3>1
    <3>2. CASE signer' = [signer EXCEPT !.macAt = "hsm"]
      <4>1. signer' = [mac |-> signer.mac, macAt |-> "hsm", sign |-> signer.sign, key |-> signer.key,
                       pub |-> signer.pub, cert |-> signer.cert]
        BY <1>3, <3>2, SignerOne
      <4> QED
        BY <1>3, <2>1, <4>1 DEF Signer
    <3>3. CASE signer' = [signer EXCEPT !.macAt = "hsm", !.mac = NoKey]
      <4>1. signer' = [mac |-> NoKey, macAt |-> "hsm", sign |-> signer.sign, key |-> signer.key,
                       pub |-> signer.pub, cert |-> signer.cert]
        BY <1>3, <3>3, SignerOne
      <4> QED
        BY <1>3, <2>1, <4>1 DEF Signer
    <3> QED
      BY <2>2, <3>1, <3>2, <3>3
  <2> QED
    BY <1>5, <2>1, <2>3, SignerIsNew
<1>9. CASE NoPair
  <2>1. stage = "pair" /\ stage' = "serve" /\ deploy.scheme = "hmac" /\ UNCHANGED <<signer, softStore>>
    BY <1>9 DEF NoPair
  <2>2. SignerFits' /\ KeyFits'
    BY <1>1, <2>1 DEF SignerFits, KeyFits
  <2> QED
    BY <1>3, <1>5, <2>1, <2>2
<1>10. CASE StopController
  BY <1>3, <1>5, <1>10, SignerIsNew DEF StopController, NewOrch
<1> QED
  BY <1>6, <1>7, <1>8, <1>9, <1>10

\* The steps of the start that give the orchestrator its pair and check its certificate.
LEMMA PairStep ==
    ASSUME SigningInv, SoftPair \/ FilePair \/ ReadPublic \/ CheckCert
    PROVE  SigningInv'
<1> USE DEF SigningInv
<1>1. /\ UNCHANGED <<deploy, token, tampered, published, envelope, macKey, tool, doomed, tools, starts>>
      /\ stage' # "generate"
  BY DEF SoftPair, FilePair, ReadPublic, CheckCert, TokenFails, RefuseStart
<1>2. OnePair' /\ PublishedStays' /\ CommandsAreSigned'
  BY <1>1, TokenIsLeft
<1>3. signer \in Signer /\ NewOrch \in Signer /\ minted \in Nat
  BY DEF SigningTypeOK, Signer, NewOrch
<1>4. /\ minted' \in Nat /\ tokenErrors' \in Nat /\ softStore' \in Nat \cup {NoKey}
  <2>1. CASE SoftPair
    BY <1>3, <2>1 DEF SigningTypeOK, SoftPair
  <2>2. CASE FilePair
    <3>1. /\ minted' = IF deploy.keyFile THEN minted ELSE minted + 1
          /\ UNCHANGED <<softStore, tokenErrors>>
      BY <2>2, Zenon DEF FilePair
    <3>2. minted' = minted \/ minted' = minted + 1
      BY <3>1, Zenon
    <3> QED
      BY <1>3, <3>1, <3>2 DEF SigningTypeOK
  <2>3. CASE ReadPublic \/ CheckCert
    <3>1. /\ minted' = minted
          /\ softStore' = softStore \/ softStore' = NoKey
          /\ tokenErrors' = tokenErrors \/ tokenErrors' = tokenErrors + 1
      BY <2>3, Zenon DEF ReadPublic, CheckCert, TokenFails, RefuseStart
    <3> QED
      BY <1>3, <3>1 DEF SigningTypeOK
  <2> QED
    BY <2>1, <2>2, <2>3
<1>5. ASSUME signer' \in Signer, SignerFits', KeyFits', stage' \in {"cert", "serve", "refused"}
      PROVE  SigningInv'
  <2>1. SigningTypeOK'
    BY <1>1, <1>4, <1>5 DEF SigningTypeOK, Signer
  <2> QED
    BY <1>2, <1>5, <2>1
<1>6. CASE RefuseStart
  BY <1>3, <1>5, <1>6, SignerIsNew DEF RefuseStart, NewOrch
<1>7. CASE SoftPair
  <2>1. signer' = [mac |-> signer.mac, macAt |-> signer.macAt, sign |-> "soft", key |-> signer.key,
                   pub |-> minted + 1, cert |-> signer.cert]
    BY <1>3, <1>7, SignerPair DEF SoftPair
  <2>2. /\ stage' = "cert" /\ softStore' = minted + 1 /\ deploy.scheme = "ml-dsa"
        /\ Backend = "software" /\ signer.cert = NoKey
    BY <1>7 DEF SoftPair, SignerFits
  <2>3. signer' \in Signer
    BY <1>3, <2>1 DEF Signer
  <2>4. SignerFits' /\ KeyFits'
    BY <1>1, <1>3, <2>1, <2>2 DEF SignerFits, KeyFits, Backend
  <2> QED
    BY <1>5, <2>2, <2>3, <2>4
<1>8. CASE FilePair
  <2> DEFINE k == IF deploy.keyFile THEN 0 ELSE minted + 1
  <2>1. /\ signer' = [signer EXCEPT !.sign = "memory", !.key = k, !.pub = k]
        /\ k \in Nat /\ (deploy.keyFile => k = 0)
    BY <1>3, <1>8 DEF FilePair
  <2> HIDE DEF k
  <2>2. signer' = [mac |-> signer.mac, macAt |-> signer.macAt, sign |-> "memory", key |-> k,
                   pub |-> k, cert |-> signer.cert]
    BY <1>3, <2>1, SignerTriple
  <2>3. /\ stage' = "cert" /\ deploy.scheme = "ml-dsa"
        /\ Backend = "disabled" /\ signer.cert = NoKey
    <3>1. /\ stage' = "cert" /\ stage = "pair" /\ deploy.scheme = "ml-dsa"
          /\ Backend = "disabled"
      BY <1>8, Zenon DEF FilePair
    <3> QED
      BY <3>1 DEF SignerFits
  <2>6. k \in Nat
    BY <2>1
  <2>4. signer' \in Signer
    BY <1>3, <2>2, <2>6 DEF Signer
  <2>5. SignerFits' /\ KeyFits'
    BY <1>1, <2>1, <2>2, <2>3 DEF SignerFits, KeyFits, Backend
  <2> QED
    BY <1>5, <2>3, <2>4, <2>5
<1>9. CASE ReadPublic /\ ~ RefuseStart
  <2>1. PICK k \in Objects("public") : signer' = [signer EXCEPT !.sign = "token", !.pub = k]
    BY <1>9 DEF ReadPublic
  <2>2. k \in Nat
    <3>1. PICK o \in token : o.class = "public" /\ o.key = k
      BY <2>1 DEF Objects
    <3> QED
      BY <3>1 DEF SigningTypeOK
  <2>3. signer' = [mac |-> signer.mac, macAt |-> signer.macAt, sign |-> "token", key |-> signer.key,
                   pub |-> k, cert |-> signer.cert]
    BY <1>3, <2>1, SignerPair
  <2>4. stage' = "cert" /\ stage = "public" /\ deploy.scheme = "ml-dsa" /\ Backend = "pkcs11"
        /\ signer.cert = NoKey
    BY <1>9 DEF ReadPublic, SignerFits
  <2>5. signer' \in Signer
    BY <1>3, <2>2, <2>3 DEF Signer
  <2>6. Objects("public")' = Objects("public") /\ Backend' = Backend
    BY <1>1 DEF Objects, Backend
  <2>7. SignerFits' /\ KeyFits'
    BY <1>1, <2>2, <2>3, <2>4, <2>6 DEF SignerFits, KeyFits
  <2> QED
    BY <1>5, <2>4, <2>5, <2>7
<1>10. CASE CheckCert /\ ~ RefuseStart
  <2>1. /\ stage = "cert" /\ stage' = "serve" /\ softStore' = softStore
        /\ \/ deploy.certified = "none" /\ signer' = signer
           \/ deploy.certified # "none" /\ signer' = [signer EXCEPT !.cert = signer.pub]
    BY <1>10 DEF CheckCert
  <2>2. /\ signer.sign # "none" /\ deploy.scheme = "ml-dsa" /\ signer.pub \in Nat
        /\ signer.cert = NoKey
    BY <2>1 DEF SignerFits
  <2>3. signer' = [mac |-> signer.mac, macAt |-> signer.macAt, sign |-> signer.sign, key |-> signer.key,
                   pub |-> signer.pub,
                   cert |-> IF deploy.certified = "none" THEN NoKey ELSE signer.pub]
    <3>1. CASE deploy.certified = "none"
      BY <1>3, <2>1, <2>2, <3>1 DEF Signer
    <3>2. CASE deploy.certified # "none"
      BY <1>3, <2>1, <3>2, SignerOne
    <3> QED
      BY <3>1, <3>2
  <2>4. signer' \in Signer
    BY <1>3, <2>2, <2>3 DEF Signer
  <2>5. Objects("public")' = Objects("public") /\ Backend' = Backend
    BY <1>1 DEF Objects, Backend
  <2>6. SignerFits'
    BY <1>1, <2>1, <2>2, <2>3 DEF SignerFits
  <2>7. KeyFits'
    BY <1>1, <2>1, <2>3, <2>5 DEF KeyFits
  <2> QED
    BY <1>5, <2>1, <2>4, <2>6, <2>7
<1> QED
  BY <1>6, <1>7, <1>8, <1>9, <1>10

\* A fresh pair is on the token; a secret or a pair that is added removes nothing.
LEMMA GenerateFacts ==
    ASSUME SigningInv, Generate
    PROVE  /\ Objects("private")' = Objects("private") \cup {minted + 1}
           /\ Objects("public")' = Objects("public") \cup {minted + 1}
           /\ token' \subseteq [class : {"private", "public"}, key : Nat]
                               \cup [class : {"secret"}, key : MacKeys]
           /\ minted' \in Nat /\ token \subseteq token'
<1> USE DEF SigningInv
<1> DEFINE v == [class |-> "private", key |-> minted + 1]
           w == [class |-> "public", key |-> minted + 1]
<1>1. token' = token \cup {v, w} /\ minted' = minted + 1 /\ minted \in Nat
  BY DEF Generate, SigningTypeOK
<1>2. v.class = "private" /\ v.key = minted + 1 /\ w.class = "public" /\ w.key = minted + 1
      /\ v \in [class : {"private", "public"}, key : Nat]
      /\ w \in [class : {"private", "public"}, key : Nat]
  BY <1>1
<1> HIDE DEF v, w
<1>3. /\ Objects("private")' = Objects("private") \cup {minted + 1}
      /\ Objects("public")' = Objects("public") \cup {minted + 1}
  BY <1>1, <1>2 DEF Objects
<1> QED
  BY <1>1, <1>2, <1>3 DEF SigningTypeOK

\* The token is provisioned: the MAC key is imported, the pair found or generated.
LEMMA ProvisionStep ==
    ASSUME SigningInv, FindPair \/ GeneratePair \/ ImportMac
    PROVE  SigningInv'
<1> USE DEF SigningInv
<1>1. /\ UNCHANGED <<deploy, macKey, published, envelope, tool, doomed, tools, starts>>
      /\ Backend' = Backend
  BY DEF FindPair, GeneratePair, ImportMac, Backend
<1>2. signer \in Signer /\ NewOrch \in Signer
  BY DEF SigningTypeOK, Signer, NewOrch
<1>3. CommandsAreSigned' \/ ~ (tampered => tampered')
  BY <1>1 DEF CommandsAreSigned, SignedByCarriedKey, SigningFailsClosed
<1>4. CASE FindPair
  <2>1. /\ UNCHANGED <<token, minted, softStore, signer>> /\ stage' \in {"public", "generate"}
        /\ deploy.scheme = "ml-dsa" /\ Backend = "pkcs11" /\ stage = "pair"
        /\ tokenErrors' \in Nat
    BY <1>4 DEF FindPair, SigningTypeOK
  <2>6. \/ tampered' = TRUE
        \/ tampered' = tampered /\ (stage' = "generate" => Objects("private") = {})
    BY <1>4 DEF FindPair, HasObject
  <2>7. (tampered => tampered') /\ tampered' \in BOOLEAN
    BY <2>6 DEF SigningTypeOK
  <2>2. SigningTypeOK'
    BY <1>1, <2>1, <2>7 DEF SigningTypeOK
  <2>3. Objects("public")' = Objects("public") /\ Objects("private")' = Objects("private")
    BY <2>1 DEF Objects
  <2>4. OnePair' /\ PublishedStays'
    BY <1>1, <2>1, <2>3, <2>6, <2>7 DEF OnePair, PublishedStays
  <2>5. SignerFits' /\ KeyFits'
    BY <1>1, <2>1 DEF SignerFits, KeyFits
  <2> QED
    BY <1>3, <2>2, <2>4, <2>5, <2>7
<1>5. CASE GeneratePair /\ Generate
  <2>1. /\ UNCHANGED <<softStore, signer, tampered, tokenErrors>> /\ stage' = "public" /\ stage = "generate"
    BY <1>5 DEF GeneratePair, RefuseStart, Generate, SigningTypeOK
  <2>2. SigningTypeOK'
    BY <1>1, <1>5, <2>1, GenerateFacts DEF SigningTypeOK
  <2>3. OnePair'
    BY <1>5, <2>1, GenerateFacts DEF OnePair
  <2>4. PublishedStays'
    BY <1>1, <1>5, <2>1, GenerateFacts DEF PublishedStays
  <2>5. SignerFits' /\ KeyFits'
    BY <1>1, <2>1 DEF SignerFits, KeyFits
  <2> QED
    BY <1>3, <2>1, <2>2, <2>3, <2>4, <2>5
<1>6. CASE (GeneratePair \/ ImportMac) /\ RefuseStart /\ TokenFails /\ UNCHANGED <<token, minted>>
  <2>1. /\ signer' = NewOrch /\ stage' = "refused" /\ softStore' = NoKey /\ tampered' = tampered
        /\ tokenErrors' \in Nat /\ UNCHANGED <<token, minted>>
    BY <1>6 DEF RefuseStart, TokenFails, SigningTypeOK
  <2>2. SignerFits' /\ KeyFits'
    BY <2>1, SignerIsNew DEF NewOrch
  <2>3. OnePair' /\ PublishedStays' /\ CommandsAreSigned'
    BY <1>1, <2>1, TokenIsLeft
  <2>4. SigningTypeOK'
    BY <1>1, <1>2, <2>1 DEF SigningTypeOK, Signer
  <2> QED
    BY <2>2, <2>3, <2>4
<1>7. CASE ImportMac /\ ~ RefuseStart
  <2> DEFINE v == [class |-> "secret", key |-> macKey]
  <2>1. /\ UNCHANGED <<softStore, signer, tampered, tokenErrors, minted>> /\ stage' = "pair"
        /\ stage = "importMac" /\ token' = token \cup {v}
    BY <1>7 DEF ImportMac
  <2>2. v.class = "secret" /\ v \in [class : {"secret"}, key : MacKeys]
    BY DEF SigningTypeOK
  <2> HIDE DEF v
  <2>3. Objects("public")' = Objects("public") /\ Objects("private")' = Objects("private")
    BY <2>1, <2>2 DEF Objects
  <2>4. SigningTypeOK'
    BY <1>1, <2>1, <2>2 DEF SigningTypeOK
  <2>5. OnePair' /\ PublishedStays'
    BY <1>1, <2>1, <2>3 DEF OnePair, PublishedStays
  <2>6. SignerFits' /\ KeyFits'
    BY <1>1, <2>1 DEF SignerFits, KeyFits
  <2> QED
    BY <1>3, <2>1, <2>4, <2>5, <2>6
<1>8. ASSUME GeneratePair \/ ImportMac
      PROVE  \/ GeneratePair /\ Generate
             \/ ImportMac /\ ~ RefuseStart
             \/ RefuseStart /\ TokenFails /\ UNCHANGED <<token, minted>>
  BY <1>8 DEF GeneratePair, ImportMac, RefuseStart
<1> QED
  BY <1>4, <1>5, <1>6, <1>7, <1>8

\* The listeners open: the fingerprint is the one of the pair that persists.
LEMMA ServeStep ==
    ASSUME SigningInv, Serve
    PROVE  SigningInv'
<1> USE DEF SigningInv
<1>1. /\ UNCHANGED <<deploy, macKey, token, minted, softStore, signer, envelope, tool, doomed, tampered,
                     starts, tokenErrors, tools>>
      /\ stage = "serve" /\ stage' = "serving"
      /\ \A k \in published' : k \in published \/ (k = signer.pub /\ k # NoKey)
  BY DEF Serve
<1>2. Objects("public")' = Objects("public") /\ Objects("private")' = Objects("private")
      /\ Backend' = Backend
  BY <1>1 DEF Objects, Backend
<1>3. SigningTypeOK'
  BY <1>1 DEF SigningTypeOK
<1>4. OnePair' /\ SignerFits' /\ KeyFits'
  BY <1>1, <1>2 DEF OnePair, SignerFits, KeyFits
<1>5. PublishedStays'
  <2>1. ASSUME ~tampered, Backend = "pkcs11", signer.pub # NoKey PROVE signer.pub \in Objects("public")
    <3>1. signer.sign = "token"
      BY <2>1 DEF SignerFits, KeyFits, SigningTypeOK
    <3> QED
      BY <2>1, <3>1 DEF KeyFits
  <2>2. ASSUME Backend = "disabled", deploy.keyFile, signer.pub # NoKey PROVE signer.pub = 0
    <3>1. signer.sign = "memory"
      BY <2>2 DEF SignerFits, KeyFits, SigningTypeOK
    <3> QED
      BY <2>2, <3>1 DEF KeyFits
  <2> QED
    BY <1>1, <1>2, <2>1, <2>2 DEF PublishedStays
<1>6. CommandsAreSigned'
  BY <1>1 DEF CommandsAreSigned, SignedByCarriedKey, SigningFailsClosed
<1> QED
  BY <1>3, <1>4, <1>5, <1>6

\* A command is issued: all signatures or none, by the key it carries.
LEMMA IssueStep ==
    ASSUME SigningInv, IssueCommand
    PROVE  SigningInv'
<1> USE DEF SigningInv
<1>1. /\ UNCHANGED <<deploy, macKey, token, minted, stage, softStore, signer, published, tool, doomed,
                     tampered, starts, tools>>
      /\ stage = "serving" /\ tokenErrors' \in Nat
  BY DEF IssueCommand, TokenFails, SigningTypeOK
<1>2. Objects("public")' = Objects("public") /\ Objects("private")' = Objects("private")
      /\ Backend' = Backend
  BY <1>1 DEF Objects, Backend
<1>3. SigningTypeOK' /\ OnePair' /\ SignerFits' /\ KeyFits' /\ PublishedStays'
  <2>1. SigningTypeOK'
    BY <1>1 DEF SigningTypeOK
  <2> QED
    BY <1>1, <1>2, <2>1 DEF OnePair, SignerFits, KeyFits, PublishedStays
<1>4. CASE envelope' = Unsigned
  <2>1. envelope'.form = "unsigned"
    BY <1>4 DEF Unsigned
  <2> QED
    BY <1>3, <2>1 DEF CommandsAreSigned, SignedByCarriedKey, SigningFailsClosed
<1>5. CASE signer.sign = "none" /\ \E m : envelope' = Envelope(m, NoKey)
  <2>1. envelope'.form = "hmac" /\ deploy.scheme = "hmac"
    BY <1>1, <1>5 DEF Envelope, SignerFits
  <2> QED
    BY <1>1, <2>1, <1>3 DEF CommandsAreSigned, SignedByCarriedKey, SigningFailsClosed
<1>6. ASSUME signer.sign # "none", NEW m, NEW s \in SignWith, envelope' = Envelope(m, s)
      PROVE  CommandsAreSigned'
  <2>1. /\ deploy.scheme = "ml-dsa" /\ signer.pub \in Nat /\ signer.pub # NoKey
        /\ signer.cert = IF deploy.certified = "none" THEN NoKey ELSE signer.pub
    BY <1>1, <1>6, SigningAssumption DEF SignerFits
  <2>2. /\ envelope'.form = IF deploy.certified = "none" THEN "v1" ELSE "v2"
        /\ envelope'.sig = s /\ envelope'.key = signer.pub
    <3>1. CASE deploy.certified = "none"
      <4>1. envelope' = [form |-> "v1", mac |-> m, sig |-> s, key |-> signer.pub]
        BY <1>6, <2>1, <3>1 DEF Envelope
      <4> QED
        BY <3>1, <4>1
    <3>2. CASE deploy.certified # "none"
      <4>1. envelope' = [form |-> "v2", mac |-> m, sig |-> s, key |-> signer.pub]
        BY <1>6, <2>1, <3>2 DEF Envelope
      <4> QED
        BY <3>2, <4>1
    <3> QED
      BY <3>1, <3>2
  <2>3. ~tampered => s = signer.pub
    <3>1. CASE signer.sign = "memory"
      BY <1>6, <3>1 DEF SignWith, KeyFits
    <3>2. CASE signer.sign = "soft"
      BY <1>6, <3>2 DEF SignWith, KeyFits
    <3>3. CASE signer.sign = "token"
      <4>1. s \in Objects("private")
        BY <1>6, <3>3 DEF SignWith
      <4> QED
        BY <3>3, <4>1 DEF KeyFits, OnePair
    <3> QED
      BY <1>6, <3>1, <3>2, <3>3 DEF SigningTypeOK
  <2> QED
    BY <1>1, <2>1, <2>2, <2>3 DEF CommandsAreSigned, SignedByCarriedKey, SigningFailsClosed
<1>7. \/ envelope' = Unsigned
      \/ signer.sign = "none" /\ \E m : envelope' = Envelope(m, NoKey)
      \/ signer.sign # "none" /\ \E m : \E s \in SignWith : envelope' = Envelope(m, s)
  BY DEF IssueCommand
<1> QED
  BY <1>3, <1>4, <1>5, <1>6, <1>7

\* The command line tool only spoils what the properties except.
LEMMA ToolStep ==
    ASSUME SigningInv, ToolKeygen \/ ToolGenerates \/ ToolRemove \/ ToolDestroys
    PROVE  SigningInv'
<1> USE DEF SigningInv
<1>1. /\ UNCHANGED <<deploy, macKey, stage, softStore, signer, published, envelope, starts>>
      /\ Backend' = Backend
  BY DEF ToolKeygen, ToolGenerates, ToolRemove, ToolDestroys, Backend
<1>2. \/ tampered' = TRUE \/ UNCHANGED <<tampered, token>>
  BY DEF ToolKeygen, ToolGenerates, ToolRemove, ToolDestroys, TokenFails
<1>3. SigningTypeOK'
  <2>1. CASE ToolKeygen \/ ToolRemove
    BY <1>1, <2>1 DEF ToolKeygen, ToolRemove, SigningTypeOK
  <2>2. CASE ToolGenerates
    BY <1>1, <2>2, GenerateFacts DEF ToolGenerates, SigningTypeOK
  <2>3. CASE ToolDestroys
    <3>1. UNCHANGED <<minted, tools>> /\ tool' \in {"idle", "remove"} /\ tampered' \in BOOLEAN
      BY <2>3 DEF ToolDestroys, TokenFails, SigningTypeOK
    <3>2. token' \subseteq token /\ doomed' \subseteq token' /\ tokenErrors' \in Nat
      BY <2>3 DEF ToolDestroys, TokenFails, SigningTypeOK
    <3> QED
      BY <1>1, <3>1, <3>2 DEF SigningTypeOK
  <2> QED
    BY <2>1, <2>2, <2>3
<1>4. CASE tampered' = TRUE
  BY <1>1, <1>3, <1>4 DEF OnePair, SignerFits, KeyFits, PublishedStays, CommandsAreSigned,
     SignedByCarriedKey, SigningFailsClosed
<1>5. CASE UNCHANGED <<tampered, token>>
  <2>1. Objects("public")' = Objects("public") /\ Objects("private")' = Objects("private")
    BY <1>5 DEF Objects
  <2>2. OnePair' /\ SignerFits' /\ KeyFits'
    BY <1>1, <1>5, <2>1 DEF OnePair, SignerFits, KeyFits
  <2>3. PublishedStays' /\ CommandsAreSigned'
    BY <1>1, <1>5, <2>1 DEF PublishedStays, CommandsAreSigned, SignedByCarriedKey, SigningFailsClosed
  <2> QED
    BY <1>3, <2>2, <2>3
<1> QED
  BY <1>2, <1>4, <1>5

\* Every step keeps the invariant.
LEMMA SigningNextInv == SigningInv /\ [SigningNext]_signingVars => SigningInv'
<1> SUFFICES ASSUME SigningInv, [SigningNext]_signingVars PROVE SigningInv'
  OBVIOUS
<1>1. CASE UNCHANGED signingVars
  <2>1. SigningTypeOK'
    BY <1>1 DEF signingVars, SigningInv, SigningTypeOK
  <2>2. OnePair' /\ PublishedStays'
    BY <1>1 DEF signingVars, SigningInv, OnePair, PublishedStays, Objects, Backend
  <2>3. SignerFits' /\ KeyFits'
    BY <1>1 DEF signingVars, SigningInv, SignerFits, KeyFits, Objects, Backend
  <2>4. CommandsAreSigned'
    BY <1>1 DEF signingVars, SigningInv, CommandsAreSigned, SignedByCarriedKey, SigningFailsClosed
  <2> QED
    BY <2>1, <2>2, <2>3, <2>4 DEF SigningInv
<1> QED
  BY <1>1, StartStep, PairStep, ProvisionStep, ServeStep, IssueStep, ToolStep DEF SigningNext

\* The signing invariant holds throughout.
LEMMA SigningSafety == SigningSpec => []SigningInv
  BY SigningInitInv, SigningNextInv, PTL DEF SigningSpec

\* The settings, the token, the orchestrator and the tools keep their types.
THEOREM SigningTypeCorrect == SigningSpec => []SigningTypeOK
<1>1. SigningInv => SigningTypeOK
  BY DEF SigningInv
<1> QED
  BY <1>1, SigningSafety, PTL

\* Commands leave with every signature the settings ask for or with none, and the
\* signatures verify under the key they carry, for any number of restarts, failed token
\* calls and deployments (Sign).
THEOREM CommandsCarryTheirKey == SigningSpec => []CommandsAreSigned
<1>1. SigningInv => CommandsAreSigned
  BY DEF SigningInv
<1> QED
  BY <1>1, SigningSafety, PTL

\* A key that persists has one fingerprint, however often the controller starts.
THEOREM FingerprintStability == SigningSpec => []FingerprintIsStable
<1>1. SigningInv => FingerprintIsStable
  <2> SUFFICES ASSUME SigningInv, ~tampered,
                      Backend = "pkcs11" \/ (Backend = "disabled" /\ deploy.keyFile)
               PROVE  Cardinality(published) <= 1
    BY DEF FingerprintIsStable
  <2>1. \A a, b \in published : a = b
    BY DEF SigningInv, PublishedStays, OnePair
  <2>2. CASE published = {}
    BY <2>2, FS_EmptySet
  <2>3. CASE published # {}
    <3>1. PICK a \in published : published = {a}
      BY <2>1, <2>3
    <3> QED
      BY <3>1, FS_Singleton
  <2> QED
    BY <2>2, <2>3
<1> QED
  BY <1>1, SigningSafety, PTL

-----------------------------------------------------------------------------
(* AlertDispatch: dispatches, the breaker and the drain                    *)

DispatchNames == (1 .. MaxAlerts) \X Kinds

Settled == {"idle", "done"}

\* The row of a dispatch
DRow(a, e, t, s, n, p) ==
    [at |-> a, events |-> e, todo |-> t, sent |-> s, attempt |-> n, pending |-> p]

\* A dispatch that still sends has an event left, and a webhook to send it to.
DispatchFits(q) ==
    /\ q.at \in {"idle", "spawned", "hook", "send", "notify", "done"}
    /\ q.events \in Nat /\ q.sent \in Nat /\ q.attempt \in Nat /\ q.todo \in Seq(Endpoints)
    /\ q.sent <= q.events /\ q.attempt < SendAttempts
    /\ q.at \in {"spawned", "hook", "send"} => q.sent < q.events
    /\ q.at = "send" => q.todo # <<>>
    /\ q = DRow(q.at, q.events, q.todo, q.sent, q.attempt, q.pending)

Busy == {d \in DispatchNames : dispatch[d].at \notin Settled}

HooksFit ==
    /\ hookList \in Seq(Endpoints) /\ hooksAdded \in Nat
    /\ Len(hookList) <= hooksAdded /\ hooksAdded <= MaxHooks

\* The WaitGroup counts the goroutines that have not returned.
DispatchesFit ==
    /\ DOMAIN dispatch = DispatchNames
    /\ \A d \in DispatchNames : DispatchFits(dispatch[d])
    /\ alerts \in Nat
    /\ \A d \in DispatchNames : d[1] > alerts => dispatch[d].at = "idle"
    /\ webhookWg = Cardinality(Busy)

\* The last results of a URL, read from the end, are failures as long as its counter says,
\* up to the limit: what the breaker relies on.
BreakerFits(u) ==
    /\ breakerFails[u] \in Nat
    /\ results[u] \in Seq({"delivered", "failed"})
    /\ Len(results[u]) <= BreakerLimit
    /\ \A j \in Nat : j < breakerFails[u] /\ j < BreakerLimit =>
         j < Len(results[u]) /\ results[u][Len(results[u]) - j] = "failed"
    /\ cooldown[u] \in {"none", "cooling", "over"}
    /\ cooldown[u] = "cooling" => breakerFails[u] >= BreakerLimit

BreakersFit ==
    /\ DOMAIN breakerFails = Endpoints /\ DOMAIN cooldown = Endpoints /\ DOMAIN results = Endpoints
    /\ \A u \in Endpoints : BreakerFits(u)

\* After GracefulStop no handler is left, and a clean drain saw the counter at zero.
DrainFits ==
    /\ mainAt \in {"serving", "stoppingGrpc", "waiting", "stoppingHttp", "exited"}
    /\ mainAt = "waiting" => open = {}
    /\ drained = "clean" => mainAt \in {"stoppingHttp", "exited"} /\ open = {} /\ Busy = {}

AlertInv == HooksFit /\ DispatchesFit /\ BreakersFit /\ DrainFits

\* There are finitely many dispatches, so their number can be counted.
LEMMA BusyIsFinite == IsFiniteSet(Busy) /\ IsFiniteSet(Busy')
<1>1. IsFiniteSet(1 .. MaxAlerts)
  BY AlertAssumption, FS_Interval
<1>2. IsFiniteSet({"hooks"}) /\ IsFiniteSet({"hooks"} \cup {"notify"})
  BY FS_Singleton, FS_AddElement
<1>3. Kinds = {"hooks"} \cup {"notify"}
  BY DEF Kinds
<1>4. IsFiniteSet(DispatchNames)
  BY <1>1, <1>2, <1>3, FS_Product DEF DispatchNames
<1> QED
  BY <1>4, FS_Subset DEF Busy

\* The goroutines at the ends of their life
LEMMA GoroutineFits ==
    /\ DispatchFits(Idle) /\ Idle.at = "idle"
    /\ DispatchFits(Finished) /\ Finished.at = "done"
    /\ \A n \in Nat \ {0} : DispatchFits(Spawned(n)) /\ Spawned(n).at = "spawned"
<1>1. DispatchFits(Idle) /\ Idle.at = "idle"
  BY AlertAssumption DEF DispatchFits, Idle, Goroutine, DRow
<1>2. DispatchFits(Finished) /\ Finished.at = "done"
  BY AlertAssumption DEF DispatchFits, Finished, Goroutine, DRow
<1>3. ASSUME NEW n \in Nat \ {0}
      PROVE  DispatchFits(Spawned(n)) /\ Spawned(n).at = "spawned"
  BY AlertAssumption DEF DispatchFits, Spawned, Goroutine, DRow
<1> QED
  BY <1>1, <1>2, <1>3

\* Nothing has been sent.
LEMMA AlertInitInv == AlertInit => AlertInv
<1> SUFFICES ASSUME AlertInit PROVE AlertInv
  OBVIOUS
<1>1. HooksFit
  BY AlertAssumption DEF AlertInit, HooksFit
<1>2. DOMAIN dispatch = DispatchNames /\ \A d \in DispatchNames : dispatch[d] = Idle
  BY DEF AlertInit, DispatchNames
<1>3. Busy = {}
  BY <1>2, GoroutineFits DEF Busy, Settled
<1>4. DispatchesFit
  BY <1>2, <1>3, GoroutineFits, FS_EmptySet DEF AlertInit, DispatchesFit
<1>5. BreakersFit
  BY AlertAssumption DEF AlertInit, BreakersFit, BreakerFits
<1>6. DrainFits
  BY DEF AlertInit, DrainFits
<1> QED
  BY <1>1, <1>4, <1>5, <1>6 DEF AlertInv

\* When a row built field by field is one a dispatch may have.
LEMMA RowFits ==
    ASSUME NEW a \in {"idle", "spawned", "hook", "send", "notify", "done"},
           NEW e \in Nat, NEW t \in Seq(Endpoints), NEW s \in Nat, NEW n \in Nat, NEW p,
           s <= e, n < SendAttempts, a \in {"spawned", "hook", "send"} => s < e,
           a = "send" => t # <<>>
    PROVE  DispatchFits(DRow(a, e, t, s, n, p)) /\ DRow(a, e, t, s, n, p).at = a
<1>1. /\ DRow(a, e, t, s, n, p).at = a /\ DRow(a, e, t, s, n, p).events = e
      /\ DRow(a, e, t, s, n, p).todo = t /\ DRow(a, e, t, s, n, p).sent = s
      /\ DRow(a, e, t, s, n, p).attempt = n /\ DRow(a, e, t, s, n, p).pending = p
  BY DEF DRow
<1> QED
  BY <1>1 DEF DispatchFits

\* dispatchWebhooks reads the list.
LEMMA LoadFits ==
    ASSUME NEW q, DispatchFits(q), q.at = "spawned", NEW h \in Seq(Endpoints)
    PROVE  /\ DispatchFits([q EXCEPT !.at = "hook", !.todo = h])
           /\ [q EXCEPT !.at = "hook", !.todo = h].at = "hook"
<1>0. /\ q = DRow(q.at, q.events, q.todo, q.sent, q.attempt, q.pending)
      /\ q.at \in {"idle", "spawned", "hook", "send", "notify", "done"}
      /\ q.events \in Nat /\ q.sent \in Nat /\ q.attempt \in Nat /\ q.todo \in Seq(Endpoints)
      /\ q.sent <= q.events /\ q.attempt < SendAttempts
      /\ q.at \in {"spawned", "hook", "send"} => q.sent < q.events
      /\ q.at = "send" => q.todo # <<>>
  BY DEF DispatchFits
<1> DEFINE o == [q EXCEPT !.at = "hook"]
<1>1. o = DRow("hook", q.events, q.todo, q.sent, q.attempt, q.pending)
  BY <1>0 DEF DRow
<1> HIDE DEF o
<1>2. [o EXCEPT !.todo = h] = DRow("hook", q.events, h, q.sent, q.attempt, q.pending)
  BY <1>1 DEF DRow
<1>3. [q EXCEPT !.at = "hook", !.todo = h] = DRow("hook", q.events, h, q.sent, q.attempt, q.pending)
  BY <1>2 DEF o
<1>4. /\ DispatchFits(DRow("hook", q.events, h, q.sent, q.attempt, q.pending))
      /\ DRow("hook", q.events, h, q.sent, q.attempt, q.pending).at = "hook"
  BY <1>0, RowFits
<1> QED
  BY <1>3, <1>4

\* A webhook whose circuit is open is passed over.
LEMMA SkipFits ==
    ASSUME NEW q, DispatchFits(q), q.at = "hook", NEW v \in Seq(Endpoints)
    PROVE  /\ DispatchFits([q EXCEPT !.todo = v])
           /\ [q EXCEPT !.todo = v].at = "hook"
<1>0. /\ q = DRow(q.at, q.events, q.todo, q.sent, q.attempt, q.pending)
      /\ q.at \in {"idle", "spawned", "hook", "send", "notify", "done"}
      /\ q.events \in Nat /\ q.sent \in Nat /\ q.attempt \in Nat /\ q.todo \in Seq(Endpoints)
      /\ q.sent <= q.events /\ q.attempt < SendAttempts
      /\ q.at \in {"spawned", "hook", "send"} => q.sent < q.events
      /\ q.at = "send" => q.todo # <<>>
  BY DEF DispatchFits
<1>2. [q EXCEPT !.todo = v] = DRow("hook", q.events, v, q.sent, q.attempt, q.pending)
  BY <1>0 DEF DRow
<1>3. /\ DispatchFits(DRow("hook", q.events, v, q.sent, q.attempt, q.pending))
      /\ DRow("hook", q.events, v, q.sent, q.attempt, q.pending).at = "hook"
  BY <1>0, RowFits
<1> QED
  BY <1>2, <1>3

\* The first attempt of a webhook's events.
LEMMA SendFits ==
    ASSUME NEW q, DispatchFits(q), q.at = "hook", q.todo # <<>>
    PROVE  /\ DispatchFits([q EXCEPT !.at = "send", !.attempt = 0])
           /\ [q EXCEPT !.at = "send", !.attempt = 0].at = "send"
<1>0. /\ q = DRow(q.at, q.events, q.todo, q.sent, q.attempt, q.pending)
      /\ q.at \in {"idle", "spawned", "hook", "send", "notify", "done"}
      /\ q.events \in Nat /\ q.sent \in Nat /\ q.attempt \in Nat /\ q.todo \in Seq(Endpoints)
      /\ q.sent <= q.events /\ q.attempt < SendAttempts
      /\ q.at \in {"spawned", "hook", "send"} => q.sent < q.events
      /\ q.at = "send" => q.todo # <<>>
  BY DEF DispatchFits
<1> DEFINE o == [q EXCEPT !.at = "send"]
<1>1. o = DRow("send", q.events, q.todo, q.sent, q.attempt, q.pending)
  BY <1>0 DEF DRow
<1> HIDE DEF o
<1>2. [o EXCEPT !.attempt = 0] = DRow("send", q.events, q.todo, q.sent, 0, q.pending)
  BY <1>1 DEF DRow
<1>3. [q EXCEPT !.at = "send", !.attempt = 0] = DRow("send", q.events, q.todo, q.sent, 0, q.pending)
  BY <1>2 DEF o
<1>4. /\ DispatchFits(DRow("send", q.events, q.todo, q.sent, 0, q.pending))
      /\ DRow("send", q.events, q.todo, q.sent, 0, q.pending).at = "send"
  BY <1>0, RowFits, AlertAssumption
<1> QED
  BY <1>3, <1>4

\* The next event, or the next webhook.
LEMMA AfterFits ==
    ASSUME NEW q, DispatchFits(q), q.at = "send"
    PROVE  DispatchFits(AfterEvent(q)) /\ AfterEvent(q).at \in {"hook", "send"}
<1>0. /\ q = DRow(q.at, q.events, q.todo, q.sent, q.attempt, q.pending)
      /\ q.at \in {"idle", "spawned", "hook", "send", "notify", "done"}
      /\ q.events \in Nat /\ q.sent \in Nat /\ q.attempt \in Nat /\ q.todo \in Seq(Endpoints)
      /\ q.sent <= q.events /\ q.attempt < SendAttempts
      /\ q.at \in {"spawned", "hook", "send"} => q.sent < q.events
      /\ q.at = "send" => q.todo # <<>>
  BY DEF DispatchFits
<1>1. CASE q.sent + 1 = q.events
  <2> DEFINE v == Tail(q.todo)
             o == [q EXCEPT !.at = "hook"]
             w == [q EXCEPT !.at = "hook", !.todo = v]
  <2>1. v \in Seq(Endpoints)
    BY <1>0
  <2>2. AfterEvent(q) = [q EXCEPT !.at = "hook", !.todo = v, !.sent = 0]
    BY <1>1 DEF AfterEvent
  <2> HIDE DEF v
  <2>3. o = DRow("hook", q.events, q.todo, q.sent, q.attempt, q.pending)
    BY <1>0 DEF DRow
  <2> HIDE DEF o
  <2>4. [o EXCEPT !.todo = v] = DRow("hook", q.events, v, q.sent, q.attempt, q.pending)
    BY <2>3 DEF DRow
  <2>5. w = DRow("hook", q.events, v, q.sent, q.attempt, q.pending)
    BY <2>4 DEF o
  <2> HIDE DEF w
  <2>6. [w EXCEPT !.sent = 0] = DRow("hook", q.events, v, 0, q.attempt, q.pending)
    BY <2>5 DEF DRow
  <2>7. AfterEvent(q) = DRow("hook", q.events, v, 0, q.attempt, q.pending)
    BY <2>2, <2>6 DEF w
  <2>8. /\ DispatchFits(DRow("hook", q.events, v, 0, q.attempt, q.pending))
        /\ DRow("hook", q.events, v, 0, q.attempt, q.pending).at = "hook"
    BY <1>0, <1>1, <2>1, RowFits
  <2> QED
    BY <2>7, <2>8
<1>2. CASE q.sent + 1 # q.events
  <2> DEFINE o == [q EXCEPT !.sent = @ + 1]
  <2>1. o = DRow("send", q.events, q.todo, q.sent + 1, q.attempt, q.pending)
    BY <1>0 DEF DRow
  <2> HIDE DEF o
  <2>2. [o EXCEPT !.attempt = 0] = DRow("send", q.events, q.todo, q.sent + 1, 0, q.pending)
    BY <2>1 DEF DRow
  <2>3. AfterEvent(q) = DRow("send", q.events, q.todo, q.sent + 1, 0, q.pending)
    BY <1>2, <2>2 DEF o, AfterEvent
  <2>4. q.sent + 1 \in Nat /\ q.events \in Nat /\ q.sent + 1 < q.events
    BY <1>2 DEF DispatchFits
  <2>5. /\ DispatchFits(DRow("send", q.events, q.todo, q.sent + 1, 0, q.pending))
        /\ DRow("send", q.events, q.todo, q.sent + 1, 0, q.pending).at = "send"
    BY <1>0, <2>4, RowFits, AlertAssumption
  <2> QED
    BY <2>3, <2>5
<1> QED
  BY <1>1, <1>2

\* The next attempt of an event.
LEMMA RetryFits ==
    ASSUME NEW q, DispatchFits(q), q.at = "send", q.attempt + 1 # SendAttempts
    PROVE  /\ DispatchFits([q EXCEPT !.attempt = q.attempt + 1])
           /\ [q EXCEPT !.attempt = q.attempt + 1].at = "send"
<1>0. /\ q = DRow(q.at, q.events, q.todo, q.sent, q.attempt, q.pending)
      /\ q.at \in {"idle", "spawned", "hook", "send", "notify", "done"}
      /\ q.events \in Nat /\ q.sent \in Nat /\ q.attempt \in Nat /\ q.todo \in Seq(Endpoints)
      /\ q.sent <= q.events /\ q.attempt < SendAttempts
      /\ q.at \in {"spawned", "hook", "send"} => q.sent < q.events
      /\ q.at = "send" => q.todo # <<>>
  BY DEF DispatchFits
<1>1. [q EXCEPT !.attempt = q.attempt + 1] =
        DRow("send", q.events, q.todo, q.sent, q.attempt + 1, q.pending)
  BY <1>0 DEF DRow
<1>2. q.attempt + 1 \in Nat /\ q.attempt + 1 < SendAttempts
  BY AlertAssumption DEF DispatchFits
<1>3. /\ DispatchFits(DRow("send", q.events, q.todo, q.sent, q.attempt + 1, q.pending))
      /\ DRow("send", q.events, q.todo, q.sent, q.attempt + 1, q.pending).at = "send"
  BY <1>0, <1>2, RowFits
<1> QED
  BY <1>1, <1>3

\* The next event is handed to the channels.
LEMMA NotifyFits ==
    ASSUME NEW q, DispatchFits(q), q.at \in {"spawned", "notify"}, q.sent # q.events, NEW c
    PROVE  /\ DispatchFits([q EXCEPT !.at = "notify", !.sent = q.sent + 1, !.pending = c])
           /\ [q EXCEPT !.at = "notify", !.sent = q.sent + 1, !.pending = c].at = "notify"
<1>0. /\ q = DRow(q.at, q.events, q.todo, q.sent, q.attempt, q.pending)
      /\ q.at \in {"idle", "spawned", "hook", "send", "notify", "done"}
      /\ q.events \in Nat /\ q.sent \in Nat /\ q.attempt \in Nat /\ q.todo \in Seq(Endpoints)
      /\ q.sent <= q.events /\ q.attempt < SendAttempts
      /\ q.at \in {"spawned", "hook", "send"} => q.sent < q.events
      /\ q.at = "send" => q.todo # <<>>
  BY DEF DispatchFits
<1> DEFINE o == [q EXCEPT !.at = "notify"]
           w == [q EXCEPT !.at = "notify", !.sent = q.sent + 1]
<1>1. o = DRow("notify", q.events, q.todo, q.sent, q.attempt, q.pending)
  BY <1>0 DEF DRow
<1>2. o.sent = q.sent
  BY <1>1 DEF DRow
<1> HIDE DEF o
<1>3. [o EXCEPT !.sent = q.sent + 1] = DRow("notify", q.events, q.todo, q.sent + 1, q.attempt, q.pending)
  BY <1>1, <1>2 DEF DRow
<1>4. w = DRow("notify", q.events, q.todo, q.sent + 1, q.attempt, q.pending)
  BY <1>3 DEF o
<1> HIDE DEF w
<1>5. [w EXCEPT !.pending = c] = DRow("notify", q.events, q.todo, q.sent + 1, q.attempt, c)
  BY <1>4 DEF DRow
<1>6. [q EXCEPT !.at = "notify", !.sent = q.sent + 1, !.pending = c] =
        DRow("notify", q.events, q.todo, q.sent + 1, q.attempt, c)
  BY <1>5 DEF w
<1>7. q.sent + 1 \in Nat /\ q.sent + 1 <= q.events
  BY DEF DispatchFits
<1>8. /\ DispatchFits(DRow("notify", q.events, q.todo, q.sent + 1, q.attempt, c))
      /\ DRow("notify", q.events, q.todo, q.sent + 1, q.attempt, c).at = "notify"
  BY <1>0, <1>7, RowFits
<1> QED
  BY <1>6, <1>8

\* A channel is done.
LEMMA PendingFits ==
    ASSUME NEW q, DispatchFits(q), NEW v
    PROVE  DispatchFits([q EXCEPT !.pending = v]) /\ [q EXCEPT !.pending = v].at = q.at
<1>0. /\ q = DRow(q.at, q.events, q.todo, q.sent, q.attempt, q.pending)
      /\ q.at \in {"idle", "spawned", "hook", "send", "notify", "done"}
      /\ q.events \in Nat /\ q.sent \in Nat /\ q.attempt \in Nat /\ q.todo \in Seq(Endpoints)
      /\ q.sent <= q.events /\ q.attempt < SendAttempts
      /\ q.at \in {"spawned", "hook", "send"} => q.sent < q.events
      /\ q.at = "send" => q.todo # <<>>
  BY DEF DispatchFits
<1>1. [q EXCEPT !.pending = v] = DRow(q.at, q.events, q.todo, q.sent, q.attempt, v)
  BY <1>0 DEF DRow
<1>2. /\ DispatchFits(DRow(q.at, q.events, q.todo, q.sent, q.attempt, v))
      /\ DRow(q.at, q.events, q.todo, q.sent, q.attempt, v).at = q.at
  BY <1>0, RowFits
<1> QED
  BY <1>1, <1>2

\* A dispatch goes on: the counter and the drain are not concerned.
LEMMA GoesOn ==
    ASSUME AlertInv, NEW d \in DispatchNames, dispatch[d].at \notin Settled,
           NEW q, DispatchFits(q), q.at \notin Settled, dispatch' = [dispatch EXCEPT ![d] = q],
           UNCHANGED <<webhookWg, loopVars>>
    PROVE  HooksFit' /\ DispatchesFit' /\ DrainFits'
<1> USE DEF AlertInv
<1>1. UNCHANGED <<webhookWg, hookList, open, mainAt, drained, alerts, hooksAdded>>
  BY DEF loopVars
<1>2. /\ DOMAIN dispatch' = DispatchNames /\ dispatch'[d] = q
      /\ \A e \in DispatchNames : e # d => dispatch'[e] = dispatch[e]
  BY DEF DispatchesFit
<1>3. Busy' = Busy
  BY <1>2 DEF Busy
<1>4. HooksFit' /\ DrainFits'
  BY <1>1, <1>3 DEF HooksFit, DrainFits
<1>5. ~ (d[1] > alerts)
  BY DEF DispatchesFit, Settled
<1>6. \A e \in DispatchNames : DispatchFits(dispatch'[e])
  BY <1>2 DEF DispatchesFit
<1>7. \A e \in DispatchNames : e[1] > alerts => dispatch'[e].at = "idle"
  BY <1>2, <1>5 DEF DispatchesFit
<1>8. DispatchesFit'
  <2>1. webhookWg' = Cardinality(Busy')
    BY <1>1, <1>3 DEF DispatchesFit
  <2>2. \A e \in DispatchNames : DispatchFits(dispatch[e])'
    BY <1>6 DEF DispatchFits
  <2> QED
    BY <1>1, <1>2, <1>7, <2>1, <2>2 DEF DispatchesFit
<1> QED
  BY <1>4, <1>8

\* A dispatch returns: one fewer, on both sides of the counter.
LEMMA Returns ==
    ASSUME AlertInv, NEW d \in DispatchNames, dispatch[d].at \notin Settled,
           Return(d), UNCHANGED loopVars
    PROVE  HooksFit' /\ DispatchesFit' /\ DrainFits'
<1> USE DEF AlertInv
<1>1. /\ UNCHANGED <<hookList, open, mainAt, drained, alerts, hooksAdded>>
      /\ dispatch' = [dispatch EXCEPT ![d] = Finished] /\ webhookWg' = webhookWg - 1
  BY DEF loopVars, Return
<1>2. /\ DOMAIN dispatch' = DispatchNames /\ dispatch'[d] = Finished
      /\ \A e \in DispatchNames : e # d => dispatch'[e] = dispatch[e]
  BY <1>1 DEF DispatchesFit
<1>3. Busy' = Busy \ {d} /\ d \in Busy
  BY <1>2, GoroutineFits DEF Busy, Settled
<1>4. webhookWg' = Cardinality(Busy')
  BY <1>1, <1>3, BusyIsFinite, FS_RemoveElement DEF DispatchesFit
<1>5. HooksFit' /\ DrainFits'
  BY <1>1, <1>3 DEF HooksFit, DrainFits
<1>6. ~ (d[1] > alerts)
  BY DEF DispatchesFit, Settled
<1>7. \A e \in DispatchNames : DispatchFits(dispatch'[e])
  BY <1>2, GoroutineFits DEF DispatchesFit
<1>8. \A e \in DispatchNames : e[1] > alerts => dispatch'[e].at = "idle"
  BY <1>2, <1>6 DEF DispatchesFit
<1>9. \A e \in DispatchNames : DispatchFits(dispatch[e])'
  BY <1>7 DEF DispatchFits
<1>10. DispatchesFit'
  BY <1>1, <1>2, <1>4, <1>8, <1>9 DEF DispatchesFit
<1> QED
  BY <1>5, <1>10

\* Steps that send nothing leave the circuits alone.
LEMMA BreakersKept ==
    ASSUME BreakersFit, UNCHANGED <<breakerFails, cooldown, results>>
    PROVE  BreakersFit'
  BY DEF BreakersFit, BreakerFits

\* The results of a URL, read from the end, move by one.
LEMMA LastResultsMove ==
    ASSUME NEW R, NEW rs \in Seq(R), Len(rs) <= BreakerLimit, NEW x \in R
    PROVE  /\ LastResults(rs, x) \in Seq(R)
           /\ Len(LastResults(rs, x)) \in Nat \ {0} /\ Len(LastResults(rs, x)) <= BreakerLimit
           /\ LastResults(rs, x)[Len(LastResults(rs, x))] = x
           /\ \A j \in Nat : j + 1 < BreakerLimit /\ j < Len(rs) =>
                /\ j + 1 < Len(LastResults(rs, x))
                /\ LastResults(rs, x)[Len(LastResults(rs, x)) - (j + 1)] = rs[Len(rs) - j]
<1> DEFINE all == Append(rs, x)
           n == Len(rs)
<1>1. /\ all \in Seq(R) /\ Len(all) = n + 1 /\ n \in Nat /\ all[n + 1] = x
      /\ \A i \in 1 .. n : all[i] = rs[i]
  OBVIOUS
<1>2. LastResults(rs, x) = IF n + 1 > BreakerLimit THEN Tail(all) ELSE all
  BY <1>1 DEF LastResults
<1> HIDE DEF all
<1>3. CASE n + 1 > BreakerLimit
  <2>1. n = BreakerLimit
    BY <1>1, <1>3, AlertAssumption
  <2>2. /\ Tail(all) \in Seq(R) /\ Len(Tail(all)) = n
        /\ \A i \in 1 .. n : Tail(all)[i] = all[i + 1]
    BY <1>1
  <2> HIDE DEF n
  <2>3. Tail(all)[n] = x
    BY <1>1, <2>1, <2>2, AlertAssumption
  <2>4. ASSUME NEW j \in Nat, j + 1 < BreakerLimit, j < n
        PROVE  Tail(all)[n - (j + 1)] = rs[n - j]
    <3>1. n - (j + 1) \in 1 .. n /\ n - (j + 1) + 1 = n - j /\ n - j \in 1 .. n
      BY <1>1, <2>1, <2>4, AlertAssumption
    <3> QED
      BY <1>1, <2>2, <3>1
  <2>5. LastResults(rs, x) = Tail(all)
    BY <1>2, <1>3
  <2> QED
    BY <1>1, <2>1, <2>2, <2>3, <2>4, <2>5, AlertAssumption DEF n
<1>4. CASE ~ (n + 1 > BreakerLimit)
  <2> HIDE DEF n
  <2>1. ASSUME NEW j \in Nat, j < n
        PROVE  all[n + 1 - (j + 1)] = rs[n - j]
    <3>1. n + 1 - (j + 1) = n - j /\ n - j \in 1 .. n
      BY <1>1, <2>1
    <3> QED
      BY <1>1, <3>1
  <2>2. LastResults(rs, x) = all
    BY <1>2, <1>4
  <2> QED
    BY <1>1, <1>4, <2>1, <2>2, AlertAssumption DEF n
<1> QED
  BY <1>3, <1>4

\* A failed event adds one failure to the counter and to the results.
LEMMA FailureCounts ==
    ASSUME BreakersFit, NEW u \in Endpoints, RecordFailure(u), Remember(u, "failed")
    PROVE  BreakersFit'
<1> DEFINE past == results[u]
           ns == LastResults(results[u], "failed")
           f  == breakerFails[u]
<1>1. /\ DOMAIN breakerFails' = Endpoints /\ DOMAIN cooldown' = Endpoints /\ DOMAIN results' = Endpoints
      /\ breakerFails'[u] = f + 1 /\ results'[u] = ns
      /\ \A v \in Endpoints : v # u =>
           breakerFails'[v] = breakerFails[v] /\ results'[v] = results[v] /\ cooldown'[v] = cooldown[v]
      /\ cooldown'[u] = IF f + 1 >= BreakerLimit THEN "cooling" ELSE cooldown[u]
  BY DEF BreakersFit, RecordFailure, Remember
<1>2. /\ f \in Nat /\ past \in Seq({"delivered", "failed"}) /\ Len(past) <= BreakerLimit
      /\ \A j \in Nat : j < f /\ j < BreakerLimit => j < Len(past) /\ past[Len(past) - j] = "failed"
      /\ cooldown[u] \in {"none", "cooling", "over"}
      /\ cooldown[u] = "cooling" => f >= BreakerLimit
  BY DEF BreakersFit, BreakerFits
<1>3. /\ ns \in Seq({"delivered", "failed"})
      /\ Len(ns) \in Nat \ {0} /\ Len(ns) <= BreakerLimit /\ ns[Len(ns)] = "failed"
      /\ \A j \in Nat : j + 1 < BreakerLimit /\ j < Len(past) =>
           j + 1 < Len(ns) /\ ns[Len(ns) - (j + 1)] = past[Len(past) - j]
  <2> DEFINE Outcome == {"delivered", "failed"}
  <2>1. "failed" \in Outcome /\ past \in Seq(Outcome)
    BY <1>2
  <2> HIDE DEF Outcome, past
  <2>2. /\ LastResults(past, "failed") \in Seq(Outcome)
        /\ Len(LastResults(past, "failed")) \in Nat \ {0}
        /\ Len(LastResults(past, "failed")) <= BreakerLimit
        /\ LastResults(past, "failed")[Len(LastResults(past, "failed"))] = "failed"
        /\ \A j \in Nat : j + 1 < BreakerLimit /\ j < Len(past) =>
             /\ j + 1 < Len(LastResults(past, "failed"))
             /\ LastResults(past, "failed")[Len(LastResults(past, "failed")) - (j + 1)] = past[Len(past) - j]
    BY <1>2, <2>1, LastResultsMove
  <2> QED
    BY <2>2 DEF Outcome, past
<1> HIDE DEF past, ns, f
<1>4. ASSUME NEW j \in Nat, j < f + 1, j < BreakerLimit
      PROVE  j < Len(ns) /\ ns[Len(ns) - j] = "failed"
  <2>1. CASE j = 0
    BY <1>3, <2>1
  <2>2. CASE j # 0
    <3> DEFINE i == j - 1
    <3>1. i \in Nat /\ i < f /\ i < BreakerLimit /\ i + 1 = j
      BY <1>2, <1>4, <2>2, AlertAssumption
    <3> HIDE DEF i
    <3>2. i < Len(past) /\ past[Len(past) - i] = "failed"
      BY <1>2, <3>1
    <3>3. i + 1 < Len(ns) /\ ns[Len(ns) - (i + 1)] = "failed"
      BY <1>3, <1>4, <3>1, <3>2
    <3> QED
      BY <3>1, <3>3
  <2> QED
    BY <2>1, <2>2
<1>5. BreakerFits(u)'
  <2>1. f + 1 \in Nat
    BY <1>2
  <2>2. cooldown'[u] \in {"none", "cooling", "over"} /\ (cooldown'[u] = "cooling" => f + 1 >= BreakerLimit)
    BY <1>1, <1>2, AlertAssumption
  <2> QED
    BY <1>1, <1>3, <1>4, <2>1, <2>2 DEF BreakerFits
<1>6. \A v \in Endpoints : v # u => BreakerFits(v)'
  BY <1>1 DEF BreakersFit, BreakerFits
<1> QED
  BY <1>1, <1>5, <1>6 DEF BreakersFit

\* A delivered event starts the count again.
LEMMA SuccessResets ==
    ASSUME BreakersFit, NEW u \in Endpoints, RecordSuccess(u), Remember(u, "delivered")
    PROVE  BreakersFit'
<1> DEFINE ns == LastResults(results[u], "delivered")
<1>1. /\ DOMAIN breakerFails' = Endpoints /\ DOMAIN cooldown' = Endpoints /\ DOMAIN results' = Endpoints
      /\ breakerFails'[u] = 0 /\ results'[u] = ns /\ cooldown'[u] = "none"
      /\ \A v \in Endpoints : v # u =>
           breakerFails'[v] = breakerFails[v] /\ results'[v] = results[v] /\ cooldown'[v] = cooldown[v]
  BY DEF BreakersFit, RecordSuccess, Remember
<1>2. results[u] \in Seq({"delivered", "failed"}) /\ Len(results[u]) <= BreakerLimit
  BY DEF BreakersFit, BreakerFits
<1>3. ns \in Seq({"delivered", "failed"}) /\ Len(ns) <= BreakerLimit
  BY <1>2, LastResultsMove
<1> HIDE DEF ns
<1>4. BreakerFits(u)'
  BY <1>1, <1>3 DEF BreakerFits
<1>5. \A v \in Endpoints : v # u => BreakerFits(v)'
  BY <1>1 DEF BreakersFit, BreakerFits
<1> QED
  BY <1>1, <1>4, <1>5 DEF BreakersFit

\* The goroutines
LEMMA WebhookStep ==
    ASSUME AlertInv, NEW d \in DispatchNames, LoadWebhooks(d) \/ NextWebhook(d)
    PROVE  AlertInv'
<1> DEFINE q == dispatch[d]
<1>1. /\ UNCHANGED loopVars /\ UNCHANGED <<breakerFails, cooldown, results>>
      /\ q.at \in {"spawned", "hook"}
  BY DEF LoadWebhooks, NextWebhook, At
<1>2. q.at \notin Settled /\ DispatchFits(q) /\ DOMAIN dispatch = DispatchNames
  BY <1>1 DEF Settled, AlertInv, DispatchesFit
<1>3. BreakersFit'
  BY <1>1, BreakersKept DEF AlertInv
<1>4. CASE Return(d)
  <2>1. HooksFit' /\ DispatchesFit' /\ DrainFits'
    BY <1>1, <1>2, <1>4, Returns
  <2> QED
    BY <1>3, <2>1 DEF AlertInv
<1>5. ASSUME NEW p, DispatchFits(p), p.at \notin Settled,
             dispatch' = [dispatch EXCEPT ![d] = p], UNCHANGED webhookWg
      PROVE  AlertInv'
  <2>1. HooksFit' /\ DispatchesFit' /\ DrainFits'
    BY <1>1, <1>2, <1>5, GoesOn
  <2> QED
    BY <1>3, <2>1 DEF AlertInv
<1>6. CASE LoadWebhooks(d) /\ ~ Return(d)
  <2> DEFINE p == [q EXCEPT !.at = "hook", !.todo = hookList]
  <2>1. q.at = "spawned" /\ dispatch' = [dispatch EXCEPT ![d] = p] /\ UNCHANGED webhookWg
    BY <1>6, Zenon DEF LoadWebhooks, At
  <2>2. DispatchFits(p) /\ p.at = "hook"
    BY <1>2, <2>1, LoadFits DEF AlertInv, HooksFit
  <2> HIDE DEF p
  <2> QED
    BY <1>5, <2>1, <2>2 DEF Settled
<1>7. CASE NextWebhook(d) /\ ~ Return(d) /\ q.todo # <<>> /\ IsOpen(Head(q.todo))
  <2> DEFINE p == [q EXCEPT !.todo = Tail(q.todo)]
  <2>1. q.at = "hook" /\ dispatch' = [dispatch EXCEPT ![d] = p] /\ UNCHANGED webhookWg
    BY <1>7 DEF NextWebhook, At
  <2>2. Tail(q.todo) \in Seq(Endpoints)
    BY <1>2, <1>7 DEF DispatchFits
  <2>3. DispatchFits(p) /\ p.at = "hook"
    BY <1>2, <2>1, <2>2, SkipFits
  <2> HIDE DEF p
  <2> QED
    BY <1>5, <2>1, <2>3 DEF Settled
<1>8. CASE NextWebhook(d) /\ ~ Return(d) /\ q.todo # <<>> /\ ~ IsOpen(Head(q.todo))
  <2> DEFINE p == [q EXCEPT !.at = "send", !.attempt = 0]
  <2>1. q.at = "hook" /\ dispatch' = [dispatch EXCEPT ![d] = p] /\ UNCHANGED webhookWg
    BY <1>8, Zenon DEF NextWebhook, At
  <2>2. DispatchFits(p) /\ p.at = "send"
    BY <1>2, <1>8, <2>1, SendFits
  <2> HIDE DEF p
  <2> QED
    BY <1>5, <2>1, <2>2 DEF Settled
<1>9. NextWebhook(d) => Return(d) \/ q.todo # <<>>
  BY DEF NextWebhook
<1> QED
  BY <1>4, <1>6, <1>7, <1>8, <1>9

\* An attempt to send: the circuit learns how an event ended.
LEMMA EventStep ==
    ASSUME AlertInv, NEW d \in DispatchNames, NEW answer, SendEvent(d, answer)
    PROVE  AlertInv'
<1> DEFINE q == dispatch[d]
           u == Head(dispatch[d].todo)
<1>1. UNCHANGED <<loopVars, webhookWg>> /\ q.at = "send"
  BY DEF SendEvent, At
<1>2. q.at \notin Settled /\ DispatchFits(q)
  BY <1>1 DEF Settled, AlertInv, DispatchesFit
<1>3. u \in Endpoints
  BY <1>1, <1>2 DEF DispatchFits
<1>4. ASSUME NEW p, DispatchFits(p), p.at \notin Settled,
             dispatch' = [dispatch EXCEPT ![d] = p], BreakersFit'
      PROVE  AlertInv'
  <2>1. HooksFit' /\ DispatchesFit' /\ DrainFits'
    BY <1>1, <1>2, <1>4, GoesOn
  <2> QED
    BY <1>4, <2>1 DEF AlertInv
<1>5. \/ /\ dispatch' = [dispatch EXCEPT ![d] = AfterEvent(q)]
         /\ RecordSuccess(u) /\ Remember(u, "delivered")
      \/ /\ q.attempt + 1 # SendAttempts
         /\ dispatch' = [dispatch EXCEPT ![d] = [q EXCEPT !.attempt = q.attempt + 1]]
         /\ UNCHANGED <<breakerFails, cooldown, results>>
      \/ /\ dispatch' = [dispatch EXCEPT ![d] = AfterEvent(q)]
         /\ RecordFailure(u) /\ Remember(u, "failed")
  BY DEF SendEvent
<1>6. DispatchFits(AfterEvent(q)) /\ AfterEvent(q).at \notin Settled
  BY <1>1, <1>2, AfterFits DEF Settled
<1>7. CASE /\ dispatch' = [dispatch EXCEPT ![d] = AfterEvent(q)]
           /\ RecordSuccess(u) /\ Remember(u, "delivered")
  <2>1. BreakersFit'
    BY <1>3, <1>7, SuccessResets DEF AlertInv
  <2> QED
    BY <1>4, <1>6, <1>7, <2>1
<1>8. CASE /\ dispatch' = [dispatch EXCEPT ![d] = AfterEvent(q)]
           /\ RecordFailure(u) /\ Remember(u, "failed")
  <2>1. BreakersFit'
    BY <1>3, <1>8, FailureCounts DEF AlertInv
  <2> QED
    BY <1>4, <1>6, <1>8, <2>1
<1>9. CASE /\ q.attempt + 1 # SendAttempts
           /\ dispatch' = [dispatch EXCEPT ![d] = [q EXCEPT !.attempt = q.attempt + 1]]
           /\ UNCHANGED <<breakerFails, cooldown, results>>
  <2> DEFINE p == [q EXCEPT !.attempt = q.attempt + 1]
  <2>1. DispatchFits(p) /\ p.at = "send"
    BY <1>1, <1>2, <1>9, RetryFits
  <2>2. BreakersFit'
    BY <1>9, BreakersKept DEF AlertInv
  <2>3. dispatch' = [dispatch EXCEPT ![d] = p]
    BY <1>9
  <2> HIDE DEF p
  <2> QED
    BY <1>4, <2>1, <2>2, <2>3 DEF Settled
<1> QED
  BY <1>5, <1>7, <1>8, <1>9

\* The goroutine of the notifications.
LEMMA NotifyStep ==
    ASSUME AlertInv, NEW d \in DispatchNames, NotifyNext(d) \/ \E c \in channels : ChannelSends(d, c)
    PROVE  AlertInv'
<1> DEFINE q == dispatch[d]
<1>1. /\ UNCHANGED loopVars /\ UNCHANGED <<breakerFails, cooldown, results>>
      /\ q.at \in {"spawned", "notify"}
  BY Zenon DEF NotifyNext, ChannelSends, At
<1>2. q.at \notin Settled /\ DispatchFits(q) /\ DOMAIN dispatch = DispatchNames
  BY <1>1 DEF Settled, AlertInv, DispatchesFit
<1>3. BreakersFit'
  BY <1>1, BreakersKept DEF AlertInv
<1>4. CASE Return(d)
  <2>1. HooksFit' /\ DispatchesFit' /\ DrainFits'
    BY <1>1, <1>2, <1>4, Returns
  <2> QED
    BY <1>3, <2>1 DEF AlertInv
<1>5. ASSUME NEW p, DispatchFits(p), p.at \notin Settled,
             dispatch' = [dispatch EXCEPT ![d] = p], UNCHANGED webhookWg
      PROVE  AlertInv'
  <2>1. HooksFit' /\ DispatchesFit' /\ DrainFits'
    BY <1>1, <1>2, <1>5, GoesOn
  <2> QED
    BY <1>3, <2>1 DEF AlertInv
<1>6. CASE NotifyNext(d) /\ ~ Return(d)
  <2> DEFINE p == [q EXCEPT !.at = "notify", !.sent = q.sent + 1, !.pending = channels]
  <2>1. q.sent # q.events /\ dispatch' = [dispatch EXCEPT ![d] = p] /\ UNCHANGED webhookWg
    BY <1>6, Zenon DEF NotifyNext
  <2>2. DispatchFits(p) /\ p.at = "notify"
    BY <1>1, <1>2, <2>1, NotifyFits
  <2> HIDE DEF p
  <2> QED
    BY <1>5, <2>1, <2>2 DEF Settled
<1>7. ASSUME NEW c \in channels, ChannelSends(d, c)
      PROVE  AlertInv'
  <2> DEFINE p == [q EXCEPT !.pending = q.pending \ {c}]
  <2>1. dispatch' = [dispatch EXCEPT ![d] = p] /\ UNCHANGED webhookWg
    BY <1>7 DEF ChannelSends
  <2>2. DispatchFits(p) /\ p.at = q.at
    BY <1>2, PendingFits
  <2> HIDE DEF p
  <2> QED
    BY <1>2, <1>5, <2>1, <2>2
<1> QED
  BY <1>4, <1>6, <1>7

\* A payload is persisted: its dispatches are new, and the counter knows them.
LEMMA AlertStep ==
    ASSUME AlertInv, NEW s, NEW n \in 0 .. MaxCritical, Alert(s, n)
    PROVE  AlertInv'
<1> USE DEF AlertInv
<1> DEFINE m == alerts + 1
<1>1. /\ UNCHANGED <<hookList, breakerFails, cooldown, open, mainAt, drained, results, hooksAdded>>
      /\ mainAt \in {"serving", "stoppingGrpc"} /\ alerts < MaxAlerts /\ alerts' = m
      /\ webhookWg' = webhookWg + Cardinality(Started(n))
      /\ dispatch' = [d \in DOMAIN dispatch |->
                        IF d[1] = m /\ d[2] \in Started(n) THEN Spawned(n) ELSE dispatch[d]]
  BY DEF Alert
<1>2. m \in 1 .. MaxAlerts /\ m > alerts /\ alerts \in Nat
  BY <1>1, AlertAssumption DEF DispatchesFit
<1>3. /\ DOMAIN dispatch' = DispatchNames
      /\ \A d \in DispatchNames :
           dispatch'[d] = IF d[1] = m /\ d[2] \in Started(n) THEN Spawned(n) ELSE dispatch[d]
  BY <1>1 DEF DispatchesFit
<1>4. \A d \in DispatchNames : d[1] = m => dispatch[d].at = "idle"
  BY <1>2 DEF DispatchesFit
<1>5. n = 0 => Started(n) = {}
  BY DEF Started
<1>6. n # 0 => n \in Nat \ {0}
  BY AlertAssumption
<1>7. <<m, "hooks">> \in DispatchNames /\ <<m, "notify">> \in DispatchNames
  BY <1>2 DEF DispatchNames, Kinds
<1>8. \A d \in DispatchNames : d = <<d[1], d[2]>> /\ d[1] \in Nat /\ d[2] \in Kinds
  BY DEF DispatchNames
<1> HIDE DEF m
<1>9. Busy' = Busy \cup {d \in DispatchNames : d[1] = m /\ d[2] \in Started(n)}
  <2> SUFFICES ASSUME NEW d \in DispatchNames
               PROVE  dispatch'[d].at \notin Settled <=>
                        dispatch[d].at \notin Settled \/ (d[1] = m /\ d[2] \in Started(n))
    BY DEF Busy
  <2> QED
    BY <1>3, <1>5, <1>6, GoroutineFits DEF Settled
<1>10. webhookWg' = Cardinality(Busy')
  <2>1. <<m, "hooks">> \notin Busy /\ <<m, "notify">> \notin Busy
    BY <1>4, <1>7 DEF Busy, Settled
  <2>2. CASE Started(n) = {}
    <3>1. Busy' = Busy
      BY <1>9, <2>2
    <3>2. Cardinality(Started(n)) = 0
      BY <2>2, FS_EmptySet
    <3>3. Cardinality(Busy) \in Nat
      BY BusyIsFinite, FS_CardinalityType
    <3> QED
      BY <1>1, <3>1, <3>2, <3>3 DEF DispatchesFit
  <2>3. CASE Started(n) = {"hooks"}
    <3>1. {d \in DispatchNames : d[1] = m /\ d[2] \in Started(n)} = {<<m, "hooks">>}
      BY <1>7, <1>8, <2>3
    <3>2. Busy' = Busy \cup {<<m, "hooks">>}
      BY <1>9, <3>1
    <3>3. Cardinality(Busy') = Cardinality(Busy) + 1
      BY <2>1, <3>2, BusyIsFinite, FS_AddElement
    <3>4. Cardinality(Started(n)) = 1
      BY <2>3, FS_Singleton
    <3> QED
      BY <1>1, <3>3, <3>4 DEF DispatchesFit
  <2>4. CASE Started(n) = {"hooks"} \cup {"notify"}
    <3>1. {d \in DispatchNames : d[1] = m /\ d[2] \in Started(n)} =
            {<<m, "hooks">>} \cup {<<m, "notify">>}
      BY <1>7, <1>8, <2>4
    <3> DEFINE B == Busy \cup {<<m, "hooks">>}
    <3>2. Busy' = B \cup {<<m, "notify">>}
      BY <1>9, <3>1
    <3>3. Cardinality(B) = Cardinality(Busy) + 1 /\ IsFiniteSet(B)
      BY <2>1, BusyIsFinite, FS_AddElement
    <3>4. <<m, "notify">> \notin B
      BY <2>1
    <3> HIDE DEF B
    <3>5. Cardinality(Busy') = Cardinality(B) + 1
      BY <3>2, <3>3, <3>4, FS_AddElement
    <3>6. Cardinality(Started(n)) = 2
      <4>1. IsFiniteSet({"hooks"}) /\ Cardinality({"hooks"}) = 1 /\ "notify" \notin {"hooks"}
        BY FS_Singleton
      <4>2. Cardinality({"hooks"} \cup {"notify"}) = Cardinality({"hooks"}) + 1
        BY <4>1, FS_AddElement
      <4> QED
        BY <2>4, <4>1, <4>2
    <3>7. Cardinality(Busy) \in Nat
      BY BusyIsFinite, FS_CardinalityType
    <3> QED
      BY <1>1, <3>3, <3>5, <3>6, <3>7 DEF DispatchesFit
  <2> QED
    BY <2>2, <2>3, <2>4 DEF Started
<1>11. \A d \in DispatchNames : DispatchFits(dispatch'[d])
  BY <1>3, <1>5, <1>6, GoroutineFits DEF DispatchesFit
<1>12. \A d \in DispatchNames : d[1] > m => dispatch'[d].at = "idle"
  <2> SUFFICES ASSUME NEW d \in DispatchNames, d[1] > m PROVE dispatch'[d].at = "idle"
    OBVIOUS
  <2>1. d[1] \in Nat /\ m \in Nat
    BY <1>2, <1>8
  <2>2. d[1] # m /\ d[1] > alerts
    BY <1>2, <2>1
  <2> QED
    BY <1>3, <2>2 DEF DispatchesFit
<1>13. DispatchesFit'
  <2>1. \A d \in DispatchNames : DispatchFits(dispatch[d])'
    BY <1>11 DEF DispatchFits
  <2> QED
    BY <1>1, <1>2, <1>3, <1>10, <1>12, <2>1 DEF DispatchesFit
<1>14. HooksFit' /\ BreakersFit' /\ DrainFits'
  BY <1>1, BreakersKept DEF HooksFit, DrainFits
<1> QED
  BY <1>13, <1>14

\* Registrations
LEMMA RegistrationStep ==
    ASSUME AlertInv,
           (\E u \in Endpoints : AddWebhook(u)) \/ (\E i \in 1 .. MaxHooks : DeleteWebhook(i))
    PROVE  AlertInv'
<1> USE DEF AlertInv
<1>1. UNCHANGED <<breakerFails, cooldown, open, dispatch, webhookWg, mainAt, drained, alerts, results>>
  BY DEF AddWebhook, DeleteWebhook
<1>2. BreakersFit'
  BY <1>1, BreakersKept
<1>3. DispatchesFit' /\ DrainFits'
  <2>1. Busy' = Busy
    BY <1>1 DEF Busy
  <2> QED
    BY <1>1, <2>1 DEF DispatchesFit, DispatchFits, DrainFits
<1>4. ASSUME NEW u \in Endpoints, AddWebhook(u) PROVE HooksFit'
  <2>1. /\ hooksAdded < MaxHooks /\ hooksAdded' = hooksAdded + 1 /\ hookList' = <<u>> \o hookList
    BY <1>4 DEF AddWebhook
  <2>2. hookList' \in Seq(Endpoints) /\ Len(hookList') = Len(hookList) + 1 /\ Len(hookList) \in Nat
    BY <2>1 DEF HooksFit
  <2> QED
    BY <2>1, <2>2, AlertAssumption DEF HooksFit
<1>5. ASSUME NEW i \in 1 .. MaxHooks, DeleteWebhook(i) PROVE HooksFit'
  <2> DEFINE a == SubSeq(hookList, 1, i - 1)
             b == SubSeq(hookList, i + 1, Len(hookList))
  <2>1. i \in DOMAIN hookList /\ hooksAdded' = hooksAdded /\ hookList' = a \o b
    BY <1>5 DEF DeleteWebhook
  <2>2. i \in 1 .. Len(hookList) /\ Len(hookList) \in Nat /\ hookList \in Seq(Endpoints)
    BY <2>1 DEF HooksFit
  <2>3. a \in Seq(Endpoints) /\ Len(a) = i - 1
    BY <2>2
  <2>4. b \in Seq(Endpoints) /\ Len(b) = Len(hookList) - i
    BY <2>2
  <2> HIDE DEF a, b
  <2>5. hookList' \in Seq(Endpoints) /\ Len(hookList') = Len(a) + Len(b)
    <3>1. a \in Seq(Endpoints) /\ b \in Seq(Endpoints) /\ hookList' = a \o b
      BY <2>1, <2>3, <2>4
    <3> QED
      BY ONLY <3>1
  <2>6. Len(hookList') <= Len(hookList) /\ Len(hookList') \in Nat
    BY <2>2, <2>3, <2>4, <2>5
  <2> QED
    BY <2>1, <2>2, <2>5, <2>6 DEF HooksFit
<1> QED
  BY <1>2, <1>3, <1>4, <1>5

\* A cooldown ends; the counter is kept.
LEMMA CooldownStep ==
    ASSUME AlertInv, NEW u \in Endpoints, CooldownEnds(u)
    PROVE  AlertInv'
<1> USE DEF AlertInv
<1>1. /\ UNCHANGED <<hookList, breakerFails, open, dispatch, webhookWg, mainAt, drained, alerts, results,
                     hooksAdded>>
      /\ cooldown' = [cooldown EXCEPT ![u] = "over"]
  BY DEF CooldownEnds
<1>2. Busy' = Busy
  BY <1>1 DEF Busy
<1>3. HooksFit' /\ DispatchesFit' /\ DrainFits'
  BY <1>1, <1>2 DEF HooksFit, DispatchesFit, DispatchFits, DrainFits
<1>4. BreakersFit'
  <2>1. DOMAIN cooldown' = Endpoints /\ \A v \in Endpoints : cooldown'[v] = "over" \/ cooldown'[v] = cooldown[v]
    BY <1>1 DEF BreakersFit
  <2> QED
    BY <1>1, <2>1 DEF BreakersFit, BreakerFits
<1> QED
  BY <1>3, <1>4

\* Streams and main: the order of the drain is what makes a clean one complete.
LEMMA DrainStep ==
    ASSUME AlertInv,
           \/ \E s \in AgentStreams : OpenAgentStream(s) \/ StreamReturns(s)
           \/ ListenerFails \/ BeginDraining \/ Draining
    PROVE  AlertInv'
<1> USE DEF AlertInv
<1>1. UNCHANGED <<hookList, breakerFails, cooldown, dispatch, webhookWg, alerts, results, hooksAdded>>
  BY DEF OpenAgentStream, StreamReturns, ListenerFails, BeginDraining, Draining, GraceExpires,
     GracefulStop, WaitWebhooks, ShutdownHTTP, mainOthers
<1>2. Busy' = Busy
  BY <1>1 DEF Busy
<1>3. HooksFit' /\ DispatchesFit' /\ BreakersFit'
  BY <1>1, <1>2, BreakersKept DEF HooksFit, DispatchesFit, DispatchFits
<1>4. webhookWg = 0 => Busy = {}
  BY BusyIsFinite, FS_EmptySet DEF DispatchesFit
<1>5. CASE \E s \in AgentStreams : OpenAgentStream(s) \/ StreamReturns(s)
  BY <1>2, <1>3, <1>5 DEF DrainFits, OpenAgentStream, StreamReturns
<1>6. CASE ListenerFails \/ BeginDraining \/ GraceExpires \/ GracefulStop \/ ShutdownHTTP
  BY <1>2, <1>3, <1>6 DEF DrainFits, ListenerFails, BeginDraining, GraceExpires, GracefulStop,
     ShutdownHTTP, mainOthers
<1>7. CASE WaitWebhooks
  BY <1>2, <1>3, <1>4, <1>7 DEF DrainFits, WaitWebhooks, mainOthers
<1> QED
  BY <1>5, <1>6, <1>7 DEF Draining

\* Every step keeps the invariant.
LEMMA AlertNextInv == AlertInv /\ [AlertNext]_alertVars => AlertInv'
<1> SUFFICES ASSUME AlertInv, [AlertNext]_alertVars PROVE AlertInv'
  OBVIOUS
<1>1. CASE UNCHANGED alertVars
  <2>1. UNCHANGED <<hookList, breakerFails, cooldown, open, dispatch, webhookWg, mainAt, drained, alerts,
                    results, hooksAdded>>
    BY <1>1 DEF alertVars
  <2>2. Busy' = Busy
    BY <2>1 DEF Busy
  <2>3. HooksFit' /\ DispatchesFit' /\ BreakersFit' /\ DrainFits'
    BY <2>1, <2>2, BreakersKept DEF AlertInv, HooksFit, DispatchesFit, DispatchFits, DrainFits
  <2> QED
    BY <2>3 DEF AlertInv
<1>2. CASE Dispatching
  <2>1. DOMAIN dispatch = DispatchNames
    BY DEF AlertInv, DispatchesFit
  <2> QED
    BY <1>2, <2>1, WebhookStep, EventStep, NotifyStep DEF Dispatching
<1> QED
  BY <1>1, <1>2, RegistrationStep, CooldownStep, AlertStep, DrainStep DEF AlertNext

\* The invariant of the dispatches holds throughout.
LEMMA AlertSafety == AlertSpec => []AlertInv
  BY AlertInitInv, AlertNextInv, PTL DEF AlertSpec

\* The dispatches keep their types: no event is counted twice and no attempt exceeds
\* the retries (dispatchWebhooks).
THEOREM AlertTypeCorrect == AlertSpec => []AlertTypeOK
<1>1. AlertInv => AlertTypeOK
  <2> SUFFICES ASSUME AlertInv PROVE AlertTypeOK
    OBVIOUS
  <2>1. hookList \in Seq(Endpoints) /\ Len(hookList) <= MaxHooks
    <3>1. /\ hookList \in Seq(Endpoints) /\ Len(hookList) \in Nat /\ hooksAdded \in Nat
          /\ Len(hookList) <= hooksAdded /\ hooksAdded <= MaxHooks
      BY DEF AlertInv, HooksFit
    <3> QED
      BY <3>1, AlertAssumption
  <2>2. \A u \in Endpoints : cooldown[u] \in {"none", "cooling", "over"}
    BY DEF AlertInv, BreakersFit, BreakerFits
  <2>3. \A d \in DOMAIN dispatch :
          /\ dispatch[d].at \in {"idle", "spawned", "hook", "send", "notify", "done"}
          /\ dispatch[d].sent <= dispatch[d].events /\ dispatch[d].attempt < SendAttempts
    BY DEF AlertInv, DispatchesFit, DispatchFits
  <2> QED
    BY <2>1, <2>2, <2>3 DEF AlertTypeOK, AlertInv, DrainFits
<1> QED
  BY <1>1, AlertSafety, PTL

\* WaitWebhooks reports a clean drain only when every dispatch has run to its end, and the
\* breaker opens only on BreakerLimit failures in a row, however dispatches interleave
\* (grpcserver/server.go, main.go).
THEOREM AlertsSettle == AlertSpec => []AlertsAreSettled
<1>1. AlertInv => CleanDrainIsComplete
  BY DEF AlertInv, DrainFits, Busy, Settled, DispatchesFit, CleanDrainIsComplete
<1>2. AlertInv => BreakerNeedsFailures
  <2> SUFFICES ASSUME AlertInv, NEW u \in Endpoints, IsOpen(u)
               PROVE  /\ Len(results[u]) = BreakerLimit
                      /\ \A i \in 1 .. BreakerLimit : results[u][i] = "failed"
    BY DEF BreakerNeedsFailures
  <2> DEFINE n == Len(results[u])
  <2>1. /\ breakerFails[u] \in Nat /\ n \in Nat /\ n <= BreakerLimit
        /\ \A j \in Nat : j < breakerFails[u] /\ j < BreakerLimit =>
             j < n /\ results[u][n - j] = "failed"
        /\ breakerFails[u] >= BreakerLimit
    BY DEF AlertInv, BreakersFit, BreakerFits, IsOpen
  <2> HIDE DEF n
  <2>2. n = BreakerLimit
    <3> DEFINE j == BreakerLimit - 1
    <3>1. j \in Nat /\ j < breakerFails[u] /\ j < BreakerLimit
      BY <2>1, AlertAssumption
    <3>2. j < n
      BY <2>1, <3>1
    <3> QED
      BY <2>1, <3>2, AlertAssumption
  <2>3. ASSUME NEW i \in 1 .. BreakerLimit PROVE results[u][i] = "failed"
    <3> DEFINE j == BreakerLimit - i
    <3>1. j \in Nat /\ j < breakerFails[u] /\ j < BreakerLimit /\ n - j = i
      BY <2>1, <2>2, AlertAssumption
    <3> HIDE DEF j
    <3> QED
      BY <2>1, <3>1
  <2> QED
    BY <2>2, <2>3 DEF n
<1> QED
  BY <1>1, <1>2, AlertSafety, PTL DEF AlertsAreSettled

-----------------------------------------------------------------------------
(* OperatorSessions: tokens, password changes and tickets                  *)

\* What a handler in progress carries.
RequestFits(q) ==
    /\ q.at \in {"none", "login", "change", "saved"}
    /\ q.at # "none" => q.user \in Accounts
    /\ q.at = "change" => q.pw \in 0 .. MaxChanges
    /\ q.at = "saved" => q.updated \in Nat

\* A token's iat is the second it was made in.
TokenFits(k) ==
    /\ k.user \in Accounts /\ k.iat \in Nat /\ k.exp \in Nat /\ k.made \in Nat
    /\ k.iat = Second(k.made) /\ k.iat <= k.exp

Clocks ==
    /\ now \in Nat /\ Epoch <= now /\ now <= MaxNow /\ ttl \in Nat
    /\ skew \in Skews /\ skew \in Int /\ now + skew \in Nat
    /\ changes \in 0 .. MaxChanges

Tables ==
    /\ overrides \in [Accounts -> [pw : 0 .. MaxChanges, at : Nat]]
    /\ cutoffs \in [Accounts -> Nat] /\ acked \in [Accounts -> Nat]

Handlers == DOMAIN requests = Requests /\ \A r \in Requests : RequestFits(requests[r])

TokensFit == \A k \in tokens : TokenFits(k)

\* A ticket in the store has a number of its own and has opened nothing.
TicketsFit ==
    /\ sockets \in [1 .. MaxTickets -> 0 .. 1]
    /\ \A t \in tickets :
         /\ t.id \in 1 .. MaxTickets /\ t.user \in Accounts /\ sockets[t.id] = 0
         /\ \A s \in tickets : s.id = t.id => s = t

\* The table's times only grow, and nothing in memory is ahead of the table.
TimesAgree ==
    \A u \in Accounts :
        /\ overrides[u].at <= now + skew /\ acked[u] <= overrides[u].at
        /\ cutoffs[u] <= Second(overrides[u].at)

SavesAgree ==
    \A r \in Requests : requests[r].at = "saved" =>
        requests[r].updated <= overrides[requests[r].user].at

\* While changes of a user do not overlap, the one in progress is the last one.
OneAtATime ==
    \A r \in Requests :
        requests[r].at \in {"change", "saved"} /\ requests[r].user \notin overlapped =>
            /\ requests[r].at = "saved" => requests[r].updated = overrides[requests[r].user].at
            /\ \A s \in Requests :
                 requests[s].at \in {"change", "saved"} /\ requests[s].user = requests[r].user => s = r

\* and an answered change is in the cache.
AnswersRevoke ==
    \A u \in Accounts : u \notin overlapped /\ ~ unseeded => Second(acked[u]) <= cutoffs[u]

SessionInv ==
    /\ Clocks /\ Tables /\ Handlers /\ TokensFit /\ TicketsFit
    /\ TimesAgree /\ SavesAgree /\ OneAtATime /\ AnswersRevoke

\* Cutting to the second keeps the order of times.
LEMMA SecondMonotone ==
    ASSUME NEW a \in Nat, NEW b \in Nat
    PROVE  Second(a) \in Nat /\ (a <= b => Second(a) <= Second(b))
  BY DEF Second

\* Times that fall in order of seconds are at most a half second out of order.
LEMMA SecondReflects ==
    ASSUME NEW a \in Nat, NEW b \in Nat, Second(a) <= Second(b)
    PROVE  a <= b + 1
  BY DEF Second

\* The first second.
LEMMA SecondZero == Second(0) = 0
  BY DEF Second

\* The clamped lifetime is a time.
LEMMA TTLIsNat ==
    ASSUME Clocks
    PROVE  JwtTTL \in Nat
  BY SessionAssumption DEF Clocks, JwtTTL

\* The start: no change, no token.
LEMMA SessionInitInv == SessionInit => SessionInv
<1> SUFFICES ASSUME SessionInit PROVE SessionInv
  OBVIOUS
<1>0. skew \in Int /\ Epoch + skew >= 2 /\ now = Epoch
  BY SessionAssumption DEF SessionInit
<1>1. Clocks
  <2>1. ttl \in Nat /\ 0 \in 0 .. MaxChanges /\ MaxNow >= Epoch /\ Epoch \in Nat
    BY SessionAssumption DEF SessionInit
  <2> QED
    BY <1>0, <2>1 DEF SessionInit, Clocks
<1>2. Tables
  BY SessionAssumption DEF SessionInit, Tables, NoChange
<1>3. Handlers
  BY DEF SessionInit, Handlers, RequestFits, NoRequest
<1>4. TokensFit /\ TicketsFit
  BY SessionAssumption DEF SessionInit, TokensFit, TicketsFit
<1>5. TimesAgree
  <2>1. 0 <= now + skew
    BY <1>0, SessionAssumption
  <2> QED
    BY <2>1, SecondZero DEF SessionInit, TimesAgree, NoChange
<1>6. SavesAgree /\ OneAtATime
  BY DEF SessionInit, SavesAgree, OneAtATime, NoRequest
<1>7. AnswersRevoke
  BY SecondZero DEF SessionInit, AnswersRevoke
<1> QED
  BY <1>1, <1>2, <1>3, <1>4, <1>5, <1>6, <1>7 DEF SessionInv

\* A login: its token carries the second of the clock.
LEMMA LoginStep ==
    ASSUME SessionInv, NEW r \in Requests,
           (\E u \in Accounts, pw \in 0 .. MaxChanges : LoginChecks(r, u, pw)) \/ GenerateToken(r)
    PROVE  SessionInv'
<1> USE DEF SessionInv
<1>1. UNCHANGED <<now, ttl, skew, overrides, cutoffs, tickets, sockets, acked, overlapped, unseeded, changes>>
  BY DEF LoginChecks, GenerateToken
<1>2. Clocks' /\ Tables' /\ TicketsFit' /\ TimesAgree' /\ AnswersRevoke'
  BY <1>1 DEF Clocks, Tables, TicketsFit, TimesAgree, AnswersRevoke
<1>3. ASSUME DOMAIN requests' = Requests, RequestFits(requests'[r]),
             requests'[r].at \in {"none", "login"},
             \A s \in Requests : s # r => requests'[s] = requests[s]
      PROVE  Handlers' /\ SavesAgree' /\ OneAtATime'
  <2>1. Handlers'
    BY <1>3 DEF Handlers, RequestFits
  <2>2. SavesAgree'
    BY <1>1, <1>3 DEF SavesAgree
  <2>3. OneAtATime'
    BY <1>1, <1>3 DEF OneAtATime
  <2> QED
    BY <2>1, <2>2, <2>3
<1>4. CASE \E u \in Accounts, pw \in 0 .. MaxChanges : LoginChecks(r, u, pw)
  <2>1. PICK u \in Accounts :
          tokens' = tokens /\ requests' = [requests EXCEPT ![r] = [at |-> "login", user |-> u]]
    BY <1>4 DEF LoginChecks
  <2>2. /\ DOMAIN requests' = Requests /\ requests'[r] = [at |-> "login", user |-> u]
        /\ \A s \in Requests : s # r => requests'[s] = requests[s]
    BY <2>1 DEF Handlers
  <2>3. RequestFits(requests'[r]) /\ requests'[r].at = "login"
    BY <2>2 DEF RequestFits
  <2>4. Handlers' /\ SavesAgree' /\ OneAtATime'
    BY <1>3, <2>2, <2>3
  <2>5. TokensFit'
    BY <2>1 DEF TokensFit
  <2> QED
    BY <1>2, <2>4, <2>5
<1>5. CASE GenerateToken(r)
  <2> DEFINE k == [user |-> requests[r].user, iat |-> Second(now), exp |-> Second(now + JwtTTL),
                   made |-> now]
  <2>1. /\ tokens' = tokens \cup {k} /\ requests[r].at = "login"
        /\ requests' = [requests EXCEPT ![r] = NoRequest]
    BY <1>5 DEF GenerateToken
  <2>2. /\ DOMAIN requests' = Requests /\ requests'[r] = NoRequest
        /\ \A s \in Requests : s # r => requests'[s] = requests[s]
    BY <2>1 DEF Handlers
  <2>7. RequestFits(requests'[r]) /\ requests'[r].at = "none"
    BY <2>2 DEF RequestFits, NoRequest
  <2>8. Handlers' /\ SavesAgree' /\ OneAtATime'
    BY <1>3, <2>2, <2>7
  <2>3. requests[r].user \in Accounts
    BY <2>1 DEF Handlers, RequestFits
  <2>4. /\ now \in Nat /\ now + JwtTTL \in Nat /\ now <= now + JwtTTL
    BY TTLIsNat DEF Clocks
  <2>5. TokenFits(k)
    BY <2>3, <2>4, SecondMonotone DEF TokenFits
  <2> HIDE DEF k
  <2>6. TokensFit'
    BY <2>1, <2>5 DEF TokensFit
  <2> QED
    BY <1>2, <2>6, <2>8
<1> QED
  BY <1>4, <1>5

\* A password change begins.  A second one of the same user is noted as overlapping.
LEMMA ChangeStep ==
    ASSUME SessionInv, NEW r \in Requests, NEW k \in tokens, ChangeChecks(r, k)
    PROVE  SessionInv'
<1> USE DEF SessionInv
<1>1. /\ UNCHANGED <<now, ttl, skew, overrides, cutoffs, tokens, tickets, sockets, acked, unseeded>>
      /\ changes < MaxChanges /\ changes' = changes + 1
      /\ overlapped' = IF Changing(k.user) = {} THEN overlapped ELSE overlapped \cup {k.user}
      /\ requests' = [requests EXCEPT ![r] = [at |-> "change", user |-> k.user, pw |-> changes + 1]]
  BY DEF ChangeChecks
<1>2. k.user \in Accounts
  BY DEF TokensFit, TokenFits
<1>3. changes + 1 \in 0 .. MaxChanges
  BY <1>1, SessionAssumption DEF Clocks
<1>4. Clocks' /\ Tables' /\ TokensFit' /\ TicketsFit' /\ TimesAgree'
  BY <1>1, <1>3 DEF Clocks, Tables, TokensFit, TicketsFit, TimesAgree
<1>5. /\ DOMAIN requests' = Requests
      /\ requests'[r] = [at |-> "change", user |-> k.user, pw |-> changes + 1]
      /\ \A s \in Requests : s # r => requests'[s] = requests[s]
  BY <1>1 DEF Handlers
<1>6. requests'[r].at = "change" /\ requests'[r].user = k.user /\ requests'[r].pw = changes + 1
  BY <1>5
<1>7. Handlers'
  <2>1. RequestFits(requests'[r])
    BY <1>2, <1>3, <1>6 DEF RequestFits
  <2> QED
    BY <1>5, <2>1 DEF Handlers, RequestFits
<1>8. SavesAgree'
  BY <1>1, <1>5, <1>6 DEF SavesAgree
<1>9. AnswersRevoke'
  BY <1>1 DEF AnswersRevoke
<1>10. OneAtATime'
  <2>1. overlapped \subseteq overlapped'
    BY <1>1
  <2>2. CASE k.user \in overlapped'
    BY <1>1, <1>5, <1>6, <2>1, <2>2 DEF OneAtATime
  <2>3. CASE k.user \notin overlapped'
    <3>1. Changing(k.user) = {}
      BY <1>1, <2>3
    <3>2. \A s \in Requests : ~ (requests[s].at \in {"change", "saved"} /\ requests[s].user = k.user)
      BY <3>1 DEF Changing
    <3> QED
      BY <1>1, <1>5, <1>6, <2>1, <3>2 DEF OneAtATime
  <2> QED
    BY <2>2, <2>3
<1> QED
  BY <1>4, <1>7, <1>8, <1>9, <1>10

\* The new password reaches the table: its time is not before any other of the user.
LEMMA OverrideStep ==
    ASSUME SessionInv, NEW r \in Requests, SetCredentialOverride(r)
    PROVE  SessionInv'
<1> USE DEF SessionInv
<1> DEFINE u == requests[r].user
           t == now + skew
<1>1. /\ UNCHANGED <<now, ttl, skew, cutoffs, tokens, tickets, sockets, acked, overlapped, unseeded, changes>>
      /\ requests[r].at = "change"
      /\ overrides' = [overrides EXCEPT ![u] = [pw |-> requests[r].pw, at |-> t]]
      /\ requests' = [requests EXCEPT ![r] = [at |-> "saved", user |-> u, updated |-> t]]
  BY DEF SetCredentialOverride
<1>2. u \in Accounts /\ requests[r].pw \in 0 .. MaxChanges /\ t \in Nat
  BY <1>1, SessionAssumption DEF Handlers, RequestFits, Clocks
<1>3. Clocks' /\ TokensFit' /\ TicketsFit' /\ AnswersRevoke'
  BY <1>1 DEF Clocks, TokensFit, TicketsFit, AnswersRevoke
<1>4. Tables'
  BY <1>1, <1>2 DEF Tables
<1>5. /\ overrides'[u] = [pw |-> requests[r].pw, at |-> t]
      /\ \A v \in Accounts : v # u => overrides'[v] = overrides[v]
  BY <1>1, <1>2 DEF Tables
<1>6. overrides'[u].at = t /\ overrides[u].at <= t /\ overrides[u].at \in Nat
  BY <1>2, <1>5 DEF Tables, TimesAgree
<1>7. /\ DOMAIN requests' = Requests
      /\ requests'[r] = [at |-> "saved", user |-> u, updated |-> t]
      /\ \A s \in Requests : s # r => requests'[s] = requests[s]
  BY <1>1 DEF Handlers
<1>8. requests'[r].at = "saved" /\ requests'[r].user = u /\ requests'[r].updated = t
  BY <1>7
<1> HIDE DEF u, t
<1>9. Handlers'
  <2>1. RequestFits(requests'[r])
    BY <1>2, <1>8 DEF RequestFits
  <2> QED
    BY <1>7, <2>1 DEF Handlers, RequestFits
<1>10. TimesAgree'
  <2> SUFFICES ASSUME NEW v \in Accounts
               PROVE  /\ overrides'[v].at <= now + skew /\ acked[v] <= overrides'[v].at
                      /\ cutoffs[v] <= Second(overrides'[v].at)
    BY <1>1 DEF TimesAgree
  <2>1. CASE v = u
    <3>1. acked[u] \in Nat /\ cutoffs[u] \in Nat
      BY <1>2 DEF Tables
    <3>2. acked[u] <= overrides[u].at /\ cutoffs[u] <= Second(overrides[u].at)
      BY <1>2 DEF TimesAgree
    <3>3. Second(overrides[u].at) <= Second(t) /\ Second(overrides[u].at) \in Nat /\ Second(t) \in Nat
      BY <1>2, <1>6, SecondMonotone
    <3> QED
      BY <1>2, <1>6, <2>1, <3>1, <3>2, <3>3 DEF t
  <2>2. CASE v # u
    BY <1>5, <2>2 DEF TimesAgree
  <2> QED
    BY <2>1, <2>2
<1>11. SavesAgree'
  <2> SUFFICES ASSUME NEW s \in Requests, requests'[s].at = "saved"
               PROVE  requests'[s].updated <= overrides'[requests'[s].user].at
    BY DEF SavesAgree
  <2>1. CASE s = r
    BY <1>2, <1>6, <1>8, <2>1
  <2>2. CASE s # r
    <3>1. /\ requests'[s] = requests[s] /\ requests[s].user \in Accounts
          /\ requests[s].updated \in Nat /\ requests[s].updated <= overrides[requests[s].user].at
      BY <1>7, <2>2 DEF SavesAgree, Handlers, RequestFits
    <3>2. CASE requests[s].user = u
      BY <1>2, <1>6, <3>1, <3>2
    <3>3. CASE requests[s].user # u
      BY <1>5, <3>1, <3>3
    <3> QED
      BY <3>2, <3>3
  <2> QED
    BY <2>1, <2>2
<1>12. OneAtATime'
  <2> SUFFICES ASSUME NEW s \in Requests, requests'[s].at \in {"change", "saved"},
                      requests'[s].user \notin overlapped
               PROVE  /\ requests'[s].at = "saved" =>
                            requests'[s].updated = overrides'[requests'[s].user].at
                      /\ \A q \in Requests :
                           requests'[q].at \in {"change", "saved"}
                           /\ requests'[q].user = requests'[s].user => q = s
    BY <1>1 DEF OneAtATime
  <2>1. CASE s = r
    BY <1>1, <1>6, <1>7, <1>8, <2>1 DEF OneAtATime, u
  <2>2. CASE s # r
    <3>1. requests'[s] = requests[s]
      BY <1>7, <2>2
    <3>2. requests[s].user # u
      BY <1>1, <2>2, <3>1 DEF OneAtATime, u
    <3>3. requests[s].at = "saved" => overrides'[requests[s].user] = overrides[requests[s].user]
      BY <1>5, <3>2 DEF Handlers, RequestFits
    <3> QED
      BY <1>7, <1>8, <3>1, <3>2, <3>3 DEF OneAtATime
  <2> QED
    BY <2>1, <2>2
<1> QED
  BY <1>3, <1>4, <1>9, <1>10, <1>11, <1>12

\* The change is answered.
LEMMA RevokeStep ==
    ASSUME SessionInv, NEW r \in Requests, Revoke(r)
    PROVE  SessionInv'
<1> USE DEF SessionInv
<1> DEFINE u == requests[r].user
           t == requests[r].updated
<1>1. /\ UNCHANGED <<now, ttl, skew, overrides, tokens, tickets, sockets, overlapped, unseeded, changes>>
      /\ requests[r].at = "saved"
      /\ cutoffs' = [cutoffs EXCEPT ![u] = Second(t)]
      /\ acked' = [acked EXCEPT ![u] = IF acked[u] > t THEN acked[u] ELSE t]
      /\ requests' = [requests EXCEPT ![r] = NoRequest]
  BY DEF Revoke, Tables
<1>2. u \in Accounts /\ t \in Nat /\ Second(t) \in Nat
  BY <1>1, SecondMonotone DEF Handlers, RequestFits
<1>3. Clocks' /\ TokensFit' /\ TicketsFit'
  BY <1>1 DEF Clocks, TokensFit, TicketsFit
<1>4. t <= overrides[u].at /\ overrides[u].at \in Nat /\ acked[u] \in Nat /\ acked[u] <= overrides[u].at
  BY <1>1, <1>2 DEF SavesAgree, Tables, TimesAgree
<1>5. /\ DOMAIN requests' = Requests /\ requests'[r].at = "none"
      /\ \A s \in Requests : s # r => requests'[s] = requests[s]
  BY <1>1 DEF Handlers, NoRequest
<1>6. u \notin overlapped => t = overrides[u].at
  BY <1>1 DEF OneAtATime
<1>7. Handlers' /\ SavesAgree' /\ OneAtATime'
  <2>1. Handlers'
    BY <1>5 DEF Handlers, RequestFits
  <2> QED
    BY <1>1, <1>5, <2>1 DEF SavesAgree, OneAtATime
<1> HIDE DEF u, t
<1>8. Tables'
  BY <1>1, <1>2, <1>4 DEF Tables
<1>9. /\ cutoffs'[u] = Second(t) /\ \A v \in Accounts : v # u => cutoffs'[v] = cutoffs[v] /\ acked'[v] = acked[v]
      /\ acked'[u] = IF acked[u] > t THEN acked[u] ELSE t
  BY <1>1, <1>2 DEF Tables
<1>10. TimesAgree'
  <2>1. Second(t) <= Second(overrides[u].at)
    BY <1>2, <1>4, SecondMonotone
  <2>2. acked'[u] <= overrides[u].at
    BY <1>2, <1>4, <1>9
  <2> QED
    BY <1>1, <1>2, <1>9, <2>1, <2>2 DEF TimesAgree
<1>11. AnswersRevoke'
  <2>1. u \notin overlapped => acked'[u] = t
    BY <1>2, <1>4, <1>6, <1>9
  <2>2. Second(t) <= Second(t)
    BY <1>2
  <2> QED
    BY <1>1, <1>2, <1>9, <2>1, <2>2 DEF AnswersRevoke
<1> QED
  BY <1>3, <1>7, <1>8, <1>10, <1>11

\* A ticket is issued under a number that is free, and opens one connection at most.
LEMMA TicketStep ==
    ASSUME SessionInv,
           \/ \E k \in tokens, i \in 1 .. MaxTickets : IssueTicket(k, i)
           \/ \E t \in tickets : ConsumeTicket(t)
    PROVE  SessionInv'
<1> USE DEF SessionInv
<1>1. UNCHANGED <<now, ttl, skew, overrides, cutoffs, requests, tokens, acked, overlapped, unseeded, changes>>
  BY DEF IssueTicket, ConsumeTicket
<1>2. /\ Clocks' /\ Tables' /\ Handlers' /\ TokensFit' /\ TimesAgree' /\ SavesAgree'
      /\ OneAtATime' /\ AnswersRevoke'
  BY <1>1 DEF Clocks, Tables, Handlers, TokensFit, TimesAgree, SavesAgree, OneAtATime, AnswersRevoke
<1>3. ASSUME NEW k \in tokens, NEW i \in 1 .. MaxTickets, IssueTicket(k, i)
      PROVE  TicketsFit'
  <2> DEFINE n == [id |-> i, user |-> k.user, expires |-> now + TicketTTL]
  <2>1. /\ sockets' = sockets /\ sockets[i] = 0 /\ \A t \in tickets : t.id # i
        /\ tickets' = Sweep(tickets) \cup {n}
    BY <1>3 DEF IssueTicket
  <2>2. Sweep(tickets) \subseteq tickets
    BY DEF Sweep
  <2>3. n.id = i /\ n.user \in Accounts
    BY DEF TokensFit, TokenFits
  <2> HIDE DEF n
  <2> QED
    BY <2>1, <2>2, <2>3 DEF TicketsFit
<1>4. ASSUME NEW t \in tickets, ConsumeTicket(t)
      PROVE  TicketsFit'
  <2>1. /\ tickets' = tickets \ {t}
        /\ sockets' = sockets \/ sockets' = [sockets EXCEPT ![t.id] = sockets[t.id] + 1]
    BY <1>4 DEF ConsumeTicket
  <2>2. t.id \in 1 .. MaxTickets /\ sockets[t.id] = 0
    BY DEF TicketsFit
  <2>3. CASE sockets' = sockets
    BY <2>1, <2>3 DEF TicketsFit
  <2>4. CASE sockets' = [sockets EXCEPT ![t.id] = sockets[t.id] + 1]
    <3>1. sockets' = [sockets EXCEPT ![t.id] = 1]
      BY <2>2, <2>4
    <3>2. sockets' \in [1 .. MaxTickets -> 0 .. 1]
      BY <2>2, <3>1 DEF TicketsFit
    <3>3. \A i \in 1 .. MaxTickets : i # t.id => sockets'[i] = sockets[i]
      BY <3>1 DEF TicketsFit
    <3>4. \A s \in tickets' : s \in tickets /\ s.id # t.id
      BY <2>1 DEF TicketsFit
    <3> QED
      BY <3>2, <3>3, <3>4 DEF TicketsFit
  <2> QED
    BY <2>1, <2>3, <2>4
<1> QED
  BY <1>2, <1>3, <1>4

\* The clock advances.
LEMMA TickStep ==
    ASSUME SessionInv, Tick
    PROVE  SessionInv'
<1> USE DEF SessionInv
<1>1. /\ now' = now + 1 /\ now < MaxNow
      /\ UNCHANGED <<ttl, skew, overrides, cutoffs, requests, tokens, tickets, sockets, acked, overlapped,
                     unseeded, changes>>
  BY DEF Tick
<1>2. Tables' /\ Handlers' /\ TokensFit' /\ TicketsFit' /\ SavesAgree' /\ OneAtATime' /\ AnswersRevoke'
  BY <1>1 DEF Tables, Handlers, TokensFit, TicketsFit, SavesAgree, OneAtATime, AnswersRevoke
<1>3. Clocks'
  BY <1>1, SessionAssumption DEF Clocks
<1>4. TimesAgree'
  <2> SUFFICES ASSUME NEW u \in Accounts PROVE overrides[u].at <= now + 1 + skew
    BY <1>1 DEF TimesAgree
  <2>1. /\ overrides[u].at \in Nat /\ overrides[u].at <= now + skew
        /\ now \in Nat /\ skew \in Int
    BY DEF Tables, Clocks, TimesAgree
  <2> QED
    BY <2>1, SessionAssumption
<1> QED
  BY <1>2, <1>3, <1>4

\* A restart: the cache is the table's, or empty and known to be.
LEMMA SessionRestartStep ==
    ASSUME SessionInv, RestartController
    PROVE  SessionInv'
<1> USE DEF SessionInv
<1>1. /\ UNCHANGED <<now, ttl, skew, overrides, tokens, sockets, acked, overlapped, changes>>
      /\ requests' = [r \in Requests |-> NoRequest] /\ tickets' = {}
      /\ \E found \in BOOLEAN : cutoffs' = Seed(found) /\ unseeded' = ~ found
  BY DEF RestartController
<1>2. Clocks' /\ TokensFit' /\ TicketsFit'
  BY <1>1 DEF Clocks, TokensFit, TicketsFit
<1>3. Handlers' /\ SavesAgree' /\ OneAtATime'
  BY <1>1 DEF Handlers, RequestFits, SavesAgree, OneAtATime, NoRequest
<1>4. \A u \in Accounts : overrides[u].at \in Nat /\ acked[u] \in Nat /\ acked[u] <= overrides[u].at
  BY DEF Tables, TimesAgree
<1>5. \A u \in Accounts : /\ Second(overrides[u].at) \in Nat /\ Second(acked[u]) \in Nat
                          /\ Second(acked[u]) <= Second(overrides[u].at)
  BY <1>4, SecondMonotone
<1>6. \/ cutoffs' = [u \in Accounts |-> Second(overrides[u].at)]
      \/ cutoffs' = [u \in Accounts |-> 0] /\ unseeded' = TRUE
  <2>1. PICK found \in BOOLEAN : cutoffs' = Seed(found) /\ unseeded' = ~ found
    BY <1>1
  <2>2. CASE found = TRUE
    BY <2>1, <2>2 DEF Seed
  <2>3. CASE found = FALSE
    BY <2>1, <2>3 DEF Seed
  <2> QED
    BY <2>2, <2>3
<1>7. CASE cutoffs' = [u \in Accounts |-> Second(overrides[u].at)]
  <2>1. Tables'
    BY <1>1, <1>5, <1>7 DEF Tables
  <2>2. TimesAgree'
    BY <1>1, <1>5, <1>7 DEF TimesAgree
  <2>3. AnswersRevoke'
    BY <1>1, <1>5, <1>7 DEF AnswersRevoke
  <2> QED
    BY <1>2, <1>3, <2>1, <2>2, <2>3
<1>8. CASE cutoffs' = [u \in Accounts |-> 0] /\ unseeded' = TRUE
  <2>1. Tables'
    BY <1>1, <1>8 DEF Tables
  <2>2. TimesAgree'
    BY <1>1, <1>5, <1>8 DEF TimesAgree
  <2>3. AnswersRevoke'
    BY <1>8 DEF AnswersRevoke
  <2> QED
    BY <1>2, <1>3, <2>1, <2>2, <2>3
<1> QED
  BY <1>6, <1>7, <1>8

\* Every step keeps the invariant.
LEMMA SessionNextInv == SessionInv /\ [SessionNext]_sessionVars => SessionInv'
<1> SUFFICES ASSUME SessionInv, [SessionNext]_sessionVars PROVE SessionInv'
  OBVIOUS
<1>1. CASE UNCHANGED sessionVars
  BY <1>1 DEF sessionVars, SessionInv, Clocks, Tables, Handlers, TokensFit, TicketsFit, TimesAgree,
     SavesAgree, OneAtATime, AnswersRevoke
<1> QED
  BY <1>1, LoginStep, ChangeStep, OverrideStep, RevokeStep, TicketStep, TickStep, SessionRestartStep
     DEF SessionNext

\* The session invariant holds throughout.
LEMMA SessionSafety == SessionSpec => []SessionInv
  BY SessionInitInv, SessionNextInv, PTL DEF SessionSpec

\* The sessions keep their types, and a ticket opens one connection at most (ws_ticket.go).
THEOREM SessionTypeCorrect == SessionSpec => []SessionTypeOK
<1>1. SessionInv => SessionTypeOK
  <2> SUFFICES ASSUME SessionInv PROVE SessionTypeOK
    OBVIOUS
  <2>1. now \in Epoch .. MaxNow /\ skew \in Skews /\ \A r \in Requests : requests[r].at \in {"none", "login", "change", "saved"}
    BY SessionAssumption DEF SessionInv, Clocks, Handlers, RequestFits
  <2>2. \A k \in tokens : k.user \in Accounts /\ k.iat <= k.exp
    BY DEF SessionInv, TokensFit, TokenFits
  <2>3. \A u \in Accounts : overrides[u].pw \in 0 .. MaxChanges
    BY DEF SessionInv, Tables
  <2> QED
    BY <2>1, <2>2, <2>3 DEF SessionTypeOK, SessionInv, TicketsFit
<1> QED
  BY <1>1, SessionSafety, PTL

\* A password change ends the sessions that the controller made before it and no other, up
\* to a second's rounding and the difference of the two clocks, whichever is ahead, over
\* every interleaving of logins, changes and restarts (auth_password.go, auth.go).
THEOREM PasswordsEndSessions == SessionSpec => []SessionsFollowPasswords
<1>1. SessionInv => OldSessionsEnd
  <2> SUFFICES ASSUME SessionInv, NEW k \in tokens, Admitted(k), k.user \notin overlapped,
                      ~ unseeded, acked[k.user] > 0
               PROVE  k.made + 1 + Behind >= ByController(acked[k.user])
    BY DEF OldSessionsEnd
  <2>1. k.user \in Accounts /\ k.iat \in Nat /\ k.made \in Nat /\ k.iat = Second(k.made)
    BY DEF SessionInv, TokensFit, TokenFits
  <2>2. /\ cutoffs[k.user] \in Nat /\ acked[k.user] \in Nat
        /\ Second(acked[k.user]) <= cutoffs[k.user]
    BY <2>1 DEF SessionInv, Tables, AnswersRevoke
  <2>3. Second(acked[k.user]) \in Nat
    BY <2>2, SecondMonotone
  <2>4. cutoffs[k.user] > 0 => k.iat >= cutoffs[k.user]
    BY DEF Admitted
  <2>5. Second(acked[k.user]) <= Second(k.made)
    BY <2>1, <2>2, <2>3, <2>4
  <2>6. acked[k.user] <= k.made + 1
    BY <2>1, <2>2, <2>5, SecondReflects
  <2>7. skew \in Int
    BY DEF SessionInv, Clocks
  <2> QED
    BY <2>1, <2>2, <2>6, <2>7 DEF ByController, Behind
<1>2. SessionInv => NewSessionsWork
  <2> SUFFICES ASSUME SessionInv, NEW k \in tokens, Second(now) <= k.exp,
                      overrides[k.user].at > 0 =>
                          k.made >= ByController(overrides[k.user].at) + Ahead
               PROVE  Admitted(k)
    BY DEF NewSessionsWork
  <2>1. k.user \in Accounts /\ k.iat \in Nat /\ k.made \in Nat /\ k.iat = Second(k.made)
    BY DEF SessionInv, TokensFit, TokenFits
  <2>2. /\ cutoffs[k.user] \in Nat /\ overrides[k.user].at \in Nat
        /\ cutoffs[k.user] <= Second(overrides[k.user].at)
    BY <2>1 DEF SessionInv, Tables, TimesAgree
  <2>3. overrides[k.user].at <= k.made
    <3>1. skew \in Int
      BY DEF SessionInv, Clocks
    <3>2. CASE overrides[k.user].at > 0
      BY <2>1, <2>2, <3>1, <3>2 DEF ByController, Ahead
    <3>3. CASE overrides[k.user].at = 0
      BY <2>1, <3>3
    <3> QED
      BY <2>2, <3>2, <3>3
  <2>4. Second(overrides[k.user].at) <= k.iat /\ Second(overrides[k.user].at) \in Nat
    BY <2>1, <2>2, <2>3, SecondMonotone
  <2>5. k.iat >= cutoffs[k.user]
    BY <2>1, <2>2, <2>4
  <2> QED
    BY <2>5 DEF Admitted, VerifyToken
<1> QED
  BY <1>1, <1>2, SessionSafety, PTL DEF SessionsFollowPasswords

-----------------------------------------------------------------------------
(* MCServices: the sum of the services                                     *)

\* A step of the sum is a step of one service, and leaves the others as they are.
LEMMA OneServiceSteps ==
    ASSUME MCNext
    PROVE  \/ In("audit", Next) \/ In("findings", LifecycleNext) \/ In("signing", SigningNext)
           \/ In("alerts", AlertNext) \/ In("sessions", SessionNext) \/ In("hub", HubNext)
           \/ In("agents", AgentNext)
<1>. USE DEF In
<1>1. CASE focus = "audit"
  BY <1>1 DEF MCNext, Next
<1>2. CASE focus = "findings"
  BY <1>2 DEF MCNext, LifecycleNext
<1>3. CASE focus = "signing"
  BY <1>3 DEF MCNext, SigningNext
<1>4. CASE focus = "alerts"
  BY <1>4 DEF MCNext, AlertNext, Dispatching, Draining
<1>5. CASE focus = "sessions"
  BY <1>5 DEF MCNext, SessionNext
<1>6. CASE focus = "hub"
  BY <1>6 DEF MCNext, HubNext, RunLoop, Casting
<1>7. CASE focus = "agents"
  BY <1>7 DEF MCNext, AgentNext, Blank
<1>8. focus \in {"audit", "findings", "signing", "alerts", "sessions", "hub", "agents"}
  BY DEF MCNext
<1>. QED  BY <1>1, <1>2, <1>3, <1>4, <1>5, <1>6, <1>7, <1>8

\* In the eyes of each service it is a step of that service, or no step.
LEMMA ServicesStep ==
    ASSUME [MCNext]_<<vars, lifecycleVars, signingVars, alertVars, sessionVars, hubVars, agentVars,
                      focus>>
    PROVE  /\ [Next]_vars /\ [LifecycleNext]_lifecycleVars /\ [SigningNext]_signingVars
           /\ [AlertNext]_alertVars /\ [SessionNext]_sessionVars /\ [HubNext]_hubVars
           /\ [AgentNext]_agentVars /\ UNCHANGED focus
<1>1. CASE In("audit", Next)
  BY <1>1 DEF In
<1>2. CASE In("findings", LifecycleNext)
  BY <1>2 DEF In
<1>3. CASE In("signing", SigningNext)
  BY <1>3 DEF In
<1>4. CASE In("alerts", AlertNext)
  BY <1>4 DEF In
<1>5. CASE In("sessions", SessionNext)
  BY <1>5 DEF In
<1>6. CASE In("hub", HubNext)
  BY <1>6 DEF In
<1>7. CASE In("agents", AgentNext)
  BY <1>7 DEF In
<1>8. CASE UNCHANGED <<vars, lifecycleVars, signingVars, alertVars, sessionVars, hubVars, agentVars,
                       focus>>
  BY <1>8
<1>. QED  BY <1>1, <1>2, <1>3, <1>4, <1>5, <1>6, <1>7, <1>8, OneServiceSteps

\* The sum that the run explores implements every one of its services: whatever is proved
\* of a service holds of it while the others run beside it.
THEOREM ServicesCompose ==
    MCSpec => /\ Spec /\ LifecycleSpec /\ SigningSpec /\ AlertSpec /\ SessionSpec /\ HubSpec
              /\ AgentSpec
              /\ [](focus \in {"audit", "findings", "signing", "alerts", "sessions", "hub", "agents"})
<1>. DEFINE Chosen == focus \in {"audit", "findings", "signing", "alerts", "sessions", "hub", "agents"}
<1>1. MCInit => /\ Init /\ LifecycleInit /\ SigningInit /\ AlertInit /\ SessionInit /\ HubInit
                /\ AgentInit /\ Chosen
  BY DEF MCInit
<1>2. [MCNext]_<<vars, lifecycleVars, signingVars, alertVars, sessionVars, hubVars, agentVars, focus>>
        => /\ [Next]_vars /\ [LifecycleNext]_lifecycleVars /\ [SigningNext]_signingVars
           /\ [AlertNext]_alertVars /\ [SessionNext]_sessionVars /\ [HubNext]_hubVars
           /\ [AgentNext]_agentVars /\ (Chosen => Chosen')
  BY ServicesStep
<1>. QED  BY <1>1, <1>2, PTL
             DEF MCSpec, Spec, LifecycleSpec, SigningSpec, AlertSpec, SessionSpec, HubSpec, AgentSpec

\* The state of the service that runs stays well formed.
THEOREM ServicesTypeCorrect == MCSpec => []ServicesTypeOK
<1>1. /\ focus \in {"audit", "findings", "signing", "alerts", "sessions", "hub", "agents"}
      /\ TypeOK /\ LifecycleTypeOK /\ SigningTypeOK /\ AlertTypeOK /\ SessionTypeOK /\ HubTypeOK
      /\ AgentTypeOK
      => ServicesTypeOK
  BY Zenon DEF ServicesTypeOK
<1>. QED  BY <1>1, ServicesCompose, TypeCorrect, LifecycleTypeCorrect, SigningTypeCorrect,
             AlertTypeCorrect, SessionTypeCorrect, HubTypeCorrect, AgentTypeCorrect, PTL

\* What the run checks of the services, for every value of the constants and with all of
\* them in one behaviour.
THEOREM ServicesHold ==
    MCSpec => []( /\ UnpurgedChainVerifies /\ LinksSurvivePurge /\ AlterationIsDetected
                  /\ StatusIsExplained /\ FalsePositiveSticks /\ CommandsAreSigned
                  /\ FingerprintIsStable /\ AlertsAreSettled /\ SessionsFollowPasswords
                  /\ HubServesConnections /\ RegistryIsConsistent )
<1>. QED  BY ServicesCompose, ChainNeverForks, PurgeKeepsLinks, AlterationsAreDetected,
             StatusesAreExplained, FalsePositivesStick, CommandsCarryTheirKey,
             FingerprintStability, AlertsSettle, PasswordsEndSessions, ConnectionsAreServed,
             RegistryConsistency, PTL
=============================================================================
