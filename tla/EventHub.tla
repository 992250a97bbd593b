------------------------------ MODULE EventHub ------------------------------
(***************************************************************************)
(* The WebSocket hub (ws/hub.go): dashboards connect and go, the hub's     *)
(* goroutine keeps the set of clients, and the gRPC and HTTP handlers      *)
(* broadcast events to it.  hub.mu is a Go RWMutex: a writer that waits    *)
(* keeps new readers out.  A write has no deadline, so a peer that stops   *)
(* reading blocks whoever writes to it until it reads again or the         *)
(* connection is closed.                                                   *)
(***************************************************************************)
EXTENDS Naturals, Sequences

CONSTANTS
    Conns,          \* connections of dashboards
    TenantOf,       \* the tenant each was opened for: TenantFromContext gives one
    Casters,        \* handlers that broadcast
    CastTenants,    \* tenants they broadcast for
    ChanCap,        \* capacity of register and unregister: 16 in the code
    MaxCasts        \* broadcasts in a behaviour

\* The tenant of an event that concerns the whole fleet
EveryTenant == ""

ASSUME HubAssumption ==
    /\ \A c \in Conns : TenantOf[c] # EveryTenant
    /\ ChanCap \in Nat \ {0} /\ MaxCasts \in Nat

VARIABLES
    conn,           \* where the handler of each connection is
    stalled,        \* connections whose peer has stopped reading
    closed,         \* connections the hub has closed
    register, unregister,   \* the channels
    clients,        \* hub.clients
    hubAt,          \* where run is, and for which connection
    pinging,        \* connections run has still to ping, under the read lock
    caster,         \* where each broadcast is
    casts

hubVars == <<conn, stalled, closed, register, unregister, clients, hubAt, pinging, caster,
             casts>>

Resting == [at |-> "idle", tenant |-> EveryTenant, left |-> {}]

HubInit ==
    /\ conn = [c \in Conns |-> "new"] /\ stalled = {} /\ closed = {}
    /\ register = <<>> /\ unregister = <<>> /\ clients = {}
    /\ hubAt = [at |-> "select"] /\ pinging = {}
    /\ caster = [b \in Casters |-> Resting]
    /\ casts = 0

-----------------------------------------------------------------------------
(* ServeWS                                                                 *)

\* The upgrade is answered and the connection handed to the hub, or it fails.
Upgrade(c) ==
    /\ conn[c] = "new"
    /\ \/ /\ Len(register) < ChanCap
          /\ conn' = [conn EXCEPT ![c] = "reading"] /\ register' = Append(register, c)
          /\ UNCHANGED closed
       \/ /\ conn' = [conn EXCEPT ![c] = "over"] /\ closed' = closed \cup {c}
          /\ UNCHANGED register
    /\ UNCHANGED <<stalled, unregister, clients, hubAt, pinging, caster, casts>>

\* the read loop returns past the deferred send
ReadEnds_KeepsRegistered(c) ==
    /\ conn[c] = "reading"
    /\ conn' = [conn EXCEPT ![c] = "over"]
    /\ UNCHANGED <<stalled, closed, register, unregister, clients, hubAt, pinging, caster, casts>>

\* A close frame, a frame that cannot be read, or a connection the hub has closed
ReadEnds(c) ==
    /\ conn[c] = "reading" /\ Len(unregister) < ChanCap
    /\ conn' = [conn EXCEPT ![c] = "over"] /\ unregister' = Append(unregister, c)
    /\ UNCHANGED <<stalled, closed, register, clients, hubAt, pinging, caster, casts>>

PeerStalls(c) ==
    /\ conn[c] = "reading" /\ c \notin stalled
    /\ stalled' = stalled \cup {c}
    /\ UNCHANGED <<conn, closed, register, unregister, clients, hubAt, pinging, caster, casts>>

PeerReads(c) ==
    /\ c \in stalled /\ stalled' = stalled \ {c}
    /\ UNCHANGED <<conn, closed, register, unregister, clients, hubAt, pinging, caster, casts>>

-----------------------------------------------------------------------------
(* run                                                                     *)

Readers == {b \in Casters : caster[b].at = "writing"}

\* select takes from either channel that has something, or the ticker.
TakeRegister ==
    /\ hubAt.at = "select" /\ register # <<>>
    /\ hubAt' = [at |-> "register", conn |-> Head(register)] /\ register' = Tail(register)
    /\ UNCHANGED <<conn, stalled, closed, unregister, clients, pinging, caster, casts>>

TakeUnregister ==
    /\ hubAt.at = "select" /\ unregister # <<>>
    /\ hubAt' = [at |-> "unregister", conn |-> Head(unregister)] /\ unregister' = Tail(unregister)
    /\ UNCHANGED <<conn, stalled, closed, register, clients, pinging, caster, casts>>

\* Lock is granted when no broadcast holds the read lock.
Register ==
    /\ hubAt.at = "register" /\ Readers = {}
    /\ clients' = clients \cup {hubAt.conn} /\ hubAt' = [at |-> "select"]
    /\ UNCHANGED <<conn, stalled, closed, register, unregister, pinging, caster, casts>>

Unregister ==
    /\ hubAt.at = "unregister" /\ Readers = {}
    /\ clients' = clients \ {hubAt.conn} /\ closed' = closed \cup {hubAt.conn}
    /\ hubAt' = [at |-> "select"]
    /\ UNCHANGED <<conn, stalled, register, unregister, pinging, caster, casts>>

PingTick ==
    /\ hubAt.at = "select" /\ clients # {}
    /\ hubAt' = [at |-> "ping"] /\ pinging' = clients
    /\ UNCHANGED <<conn, stalled, closed, register, unregister, clients, caster, casts>>

\* A write goes through, or fails at once on a connection that is closed.
CanWrite(c) == c \notin stalled \/ c \in closed

PingNext ==
    /\ hubAt.at = "ping"
    /\ \/ \E c \in pinging : CanWrite(c) /\ pinging' = pinging \ {c} /\ UNCHANGED hubAt
       \/ pinging = {} /\ hubAt' = [at |-> "select"] /\ UNCHANGED pinging
    /\ UNCHANGED <<conn, stalled, closed, register, unregister, clients, caster, casts>>

-----------------------------------------------------------------------------
(* Broadcast and BroadcastTenant                                           *)

\* An event of tenant t.  hostTenant answers with the whole fleet when its lookup fails.
StartCast(b, t) ==
    /\ caster[b] = Resting /\ casts < MaxCasts /\ casts' = casts + 1
    /\ \E found \in {t, EveryTenant} :
           caster' = [caster EXCEPT ![b] = [at |-> "locking", tenant |-> found, left |-> {}]]
    /\ UNCHANGED <<conn, stalled, closed, register, unregister, clients, hubAt, pinging>>

\* An event of no tenant goes to everybody, a client of none gets every event.
Addressed(t) == {c \in clients : t = EveryTenant \/ TenantOf[c] \in {EveryTenant, t}}

RLock(b) ==
    /\ caster[b].at = "locking" /\ hubAt.at \notin {"register", "unregister"}
    /\ caster' = [caster EXCEPT ![b] = [at |-> "writing", tenant |-> caster[b].tenant,
                                        left |-> Addressed(caster[b].tenant)]]
    /\ UNCHANGED <<conn, stalled, closed, register, unregister, clients, hubAt, pinging, casts>>

\* A failed write is only logged.
WriteText(b, c) ==
    /\ caster[b].at = "writing" /\ c \in caster[b].left /\ CanWrite(c)
    /\ caster' = [caster EXCEPT ![b].left = @ \ {c}]
    /\ UNCHANGED <<conn, stalled, closed, register, unregister, clients, hubAt, pinging, casts>>

CastReturns(b) ==
    /\ caster[b].at = "writing" /\ caster[b].left = {}
    /\ caster' = [caster EXCEPT ![b] = Resting]
    /\ UNCHANGED <<conn, stalled, closed, register, unregister, clients, hubAt, pinging, casts>>

-----------------------------------------------------------------------------
RunLoop == TakeRegister \/ TakeUnregister \/ Register \/ Unregister \/ PingNext

Casting(b) == RLock(b) \/ CastReturns(b) \/ \E c \in Conns : WriteText(b, c)

HubNext ==
    \/ \E c \in Conns : Upgrade(c) \/ ReadEnds(c) \/ PeerStalls(c) \/ PeerReads(c)
    \/ RunLoop \/ PingTick
    \/ \E b \in Casters : Casting(b) \/ \E t \in CastTenants : StartCast(b, t)

HubSpec == HubInit /\ [][HubNext]_hubVars

\* Goroutines that can go on are scheduled; nothing is known of the peers.
HubFairSpec ==
    HubSpec /\ WF_hubVars(RunLoop) /\ \A b \in Casters : WF_hubVars(Casting(b))

-----------------------------------------------------------------------------
(* Properties                                                              *)

\* Type invariant of the hub.
HubTypeOK ==
    /\ \A c \in Conns : conn[c] \in {"new", "reading", "over"}
    /\ Len(register) <= ChanCap /\ Len(unregister) <= ChanCap
    /\ clients \subseteq Conns /\ closed \subseteq Conns /\ pinging \subseteq clients
    /\ \A b \in Casters : caster[b].left \subseteq clients

\* Nothing waits in the channels, and run is not about to change the clients.
AtRest == register = <<>> /\ unregister = <<>> /\ hubAt.at \in {"select", "ping"}

\* When the hub is at rest, every dashboard that is connected gets the broadcasts, and the
\* socket of every dashboard that has gone is closed, in whichever order select takes what
\* waits in the two channels, and while broadcasts hold the lock.  (It does not say that a
\* dashboard that has gone is no client: when its departure is taken before its arrival,
\* it stays one for good, with a closed socket.)
HubServesConnections ==
    AtRest => \A c \in Conns :
        /\ conn[c] = "reading" => c \in clients \ closed
        /\ conn[c] = "over" => c \in closed

\* hub.go says of Broadcast that it is non-blocking and skips slow clients: the handler
\* that broadcasts gets on with its work, whatever its clients do.
BroadcastReturns == \A b \in Casters : caster[b] # Resting ~> caster[b] = Resting
=============================================================================
