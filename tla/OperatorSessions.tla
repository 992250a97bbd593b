-------------------------- MODULE OperatorSessions --------------------------
(***************************************************************************)
(* Operators' sessions with the HTTP API: login, the session tokens and    *)
(* their check, password changes and the revocation cache, the single-use  *)
(* tickets that open a WebSocket (auth.go, auth_password.go, ws_ticket.go) *)
(* and what survives a restart of the controller.                          *)
(*                                                                         *)
(* Time is counted in half seconds: a token's iat and a change's cutoff    *)
(* are whole seconds.  The controller stamps a token with its clock, the   *)
(* database a change with its own, which may be ahead or behind: their     *)
(* difference, skew, is fixed at the start.  A password is a number; 0 is  *)
(* the one configured in the environment.                                  *)
(***************************************************************************)
EXTENDS Integers, FiniteSets

CONSTANTS
    Accounts,       \* the configured credentials
    Requests,       \* login and change-password requests in progress at a time
    TTLs,           \* values of JANUS_JWT_TTL, half seconds
    MinTTL, MaxTTL, \* the clamp: 5 minutes and 720 hours in the code
    TicketTTL,      \* 30 seconds in the code
    Skews,          \* how far the database's clock is ahead (negative: behind), half seconds
    Epoch,          \* the controller's clock at the start
    MaxNow, MaxTokens, MaxTickets, MaxChanges, MaxRestarts, MaxLookupErrors

ASSUME SessionAssumption ==
    /\ TTLs \subseteq Nat /\ MinTTL \in Nat /\ MaxTTL \in Nat /\ MinTTL <= MaxTTL
    /\ TicketTTL \in Nat /\ Epoch \in Nat
    /\ \A s \in Skews : s \in Int /\ Epoch + s >= 2
    /\ {MaxNow, MaxTokens, MaxTickets, MaxChanges, MaxRestarts, MaxLookupErrors} \subseteq Nat
    /\ MaxNow >= Epoch

VARIABLES
    now,            \* the controller's clock
    ttl,            \* JANUS_JWT_TTL
    skew,           \* the database's clock minus the controller's
    overrides,      \* credential_overrides: password and time of the change
    cutoffs,        \* revocationCache
    requests,       \* handlers in progress
    tokens,         \* every token ever issued
    tickets,        \* wsTicketStore
    sockets,        \* history: connections opened by each ticket
    acked,          \* history: the stamp of the latest change of a user that was answered
    overlapped,     \* history: users with two changes in progress at once
    unseeded,       \* the cache could not be seeded at the last start
    changes, restarts, lookupErrors

sessionVars == <<now, ttl, skew, overrides, cutoffs, requests, tokens, tickets, sockets,
                 acked, overlapped, unseeded, changes, restarts, lookupErrors>>

NoRequest == [at |-> "none"]
NoChange == [pw |-> 0, at |-> 0]
Second(t) == t \div 2

\* jwtTTL
JwtTTL == IF ttl < MinTTL THEN MinTTL ELSE IF ttl > MaxTTL THEN MaxTTL ELSE ttl

SessionInit ==
    /\ now = Epoch /\ ttl \in TTLs /\ skew \in Skews
    /\ overrides = [u \in Accounts |-> NoChange]
    /\ cutoffs = [u \in Accounts |-> 0]
    /\ requests = [r \in Requests |-> NoRequest]
    /\ tokens = {} /\ tickets = {} /\ sockets = [i \in 1 .. MaxTickets |-> 0]
    /\ acked = [u \in Accounts |-> 0]
    /\ overlapped = {} /\ unseeded = FALSE
    /\ changes = 0 /\ restarts = 0 /\ lookupErrors = 0

-----------------------------------------------------------------------------
(* LoginHandler                                                            *)

\* The hash a request is checked against: the override, unless its lookup fails.
\* An account without an override has password 0.
Password(u, found) == IF found THEN overrides[u].pw ELSE 0

Looked(found) ==
    \/ found /\ UNCHANGED lookupErrors
    \/ ~ found /\ lookupErrors < MaxLookupErrors /\ lookupErrors' = lookupErrors + 1

\* The password is checked; the token is not made yet.
LoginChecks(r, u, pw) ==
    /\ requests[r] = NoRequest /\ Cardinality(tokens) < MaxTokens
    /\ \E found \in BOOLEAN :
         /\ Looked(found) /\ pw = Password(u, found)
         /\ requests' = [requests EXCEPT ![r] = [at |-> "login", user |-> u]]
    /\ UNCHANGED <<now, ttl, skew, overrides, cutoffs, tokens, tickets, sockets, acked,
                   overlapped, unseeded, changes, restarts>>

\* GenerateToken; both times are cut to the second.
GenerateToken(r) ==
    /\ requests[r].at = "login"
    /\ tokens' = tokens \cup {[user |-> requests[r].user,
                               iat |-> Second(now), exp |-> Second(now + JwtTTL), made |-> now]}
    /\ requests' = [requests EXCEPT ![r] = NoRequest]
    /\ UNCHANGED <<now, ttl, skew, overrides, cutoffs, tickets, sockets, acked,
                   overlapped, unseeded, changes, restarts, lookupErrors>>

-----------------------------------------------------------------------------
(* AuthMiddleware                                                          *)

\* VerifyToken
VerifyToken(k) == Second(now) <= k.exp

Admitted(k) ==
    /\ VerifyToken(k)
    /\ cutoffs[k.user] > 0 => k.iat >= cutoffs[k.user]

-----------------------------------------------------------------------------
(* changePassword                                                          *)

Changing(u) == {r \in Requests : requests[r].at \in {"change", "saved"} /\ requests[r].user = u}

\* Of the requests, at most MaxChanges are password changes.  The new password
\* differs from the one in use: it is a number of its own.
ChangeChecks(r, k) ==
    /\ requests[r] = NoRequest /\ k \in tokens /\ Admitted(k)
    /\ changes < MaxChanges /\ changes' = changes + 1
    /\ \E found \in BOOLEAN : Looked(found)
    /\ overlapped' = IF Changing(k.user) = {} THEN overlapped ELSE overlapped \cup {k.user}
    /\ requests' = [requests EXCEPT ![r] = [at |-> "change", user |-> k.user, pw |-> changes + 1]]
    /\ UNCHANGED <<now, ttl, skew, overrides, cutoffs, tokens, tickets, sockets, acked,
                   unseeded, restarts>>

\* SetCredentialOverride
SetCredentialOverride(r) ==
    /\ requests[r].at = "change"
    /\ overrides' = [overrides EXCEPT ![requests[r].user] = [pw |-> requests[r].pw, at |-> now + skew]]
    /\ requests' = [requests EXCEPT ![r] =
                      [at |-> "saved", user |-> requests[r].user, updated |-> now + skew]]
    /\ UNCHANGED <<now, ttl, skew, cutoffs, tokens, tickets, sockets, acked,
                   overlapped, unseeded, changes, restarts, lookupErrors>>

\* revoked.set and the answer.  A later change may have set its cutoff already.
Revoke(r) ==
    /\ requests[r].at = "saved"
    /\ cutoffs' = [cutoffs EXCEPT ![requests[r].user] = Second(requests[r].updated)]
    /\ acked' = [acked EXCEPT ![requests[r].user] =
                   IF @ > requests[r].updated THEN @ ELSE requests[r].updated]
    /\ requests' = [requests EXCEPT ![r] = NoRequest]
    /\ UNCHANGED <<now, ttl, skew, overrides, tokens, tickets, sockets,
                   overlapped, unseeded, changes, restarts, lookupErrors>>

-----------------------------------------------------------------------------
(* wsTicketStore                                                           *)

Sweep(all) == {t \in all : now <= t.expires}

IssueTicket(k, i) ==
    /\ k \in tokens /\ Admitted(k)
    /\ sockets[i] = 0 /\ \A t \in tickets : t.id # i
    /\ tickets' = Sweep(tickets) \cup {[id |-> i, user |-> k.user, expires |-> now + TicketTTL]}
    /\ UNCHANGED <<now, ttl, skew, overrides, cutoffs, requests, tokens, sockets, acked,
                   overlapped, unseeded, changes, restarts, lookupErrors>>

\* A ticket that has expired is removed as well, and opens nothing.
ConsumeTicket(t) ==
    /\ t \in tickets /\ tickets' = tickets \ {t}
    /\ sockets' = IF now > t.expires THEN sockets ELSE [sockets EXCEPT ![t.id] = @ + 1]
    /\ UNCHANGED <<now, ttl, skew, overrides, cutoffs, requests, tokens, acked,
                   overlapped, unseeded, changes, restarts, lookupErrors>>

-----------------------------------------------------------------------------
(* Time and restarts                                                       *)

Tick ==
    /\ now < MaxNow /\ now' = now + 1
    /\ UNCHANGED <<ttl, skew, overrides, cutoffs, requests, tokens, tickets, sockets, acked,
                   overlapped, unseeded, changes, restarts, lookupErrors>>

\* the cache starts empty
Seed_Nothing(found) == [u \in Accounts |-> 0]

\* seedFromTimes; the controller starts with an empty cache if the read fails.
Seed(found) == [u \in Accounts |-> IF found THEN Second(overrides[u].at) ELSE 0]

\* Requests and tickets are lost; tokens stay valid, their secret is configured.
RestartController ==
    /\ restarts < MaxRestarts /\ restarts' = restarts + 1
    /\ \E found \in BOOLEAN : Looked(found) /\ cutoffs' = Seed(found) /\ unseeded' = ~ found
    /\ requests' = [r \in Requests |-> NoRequest] /\ tickets' = {}
    /\ UNCHANGED <<now, ttl, skew, overrides, tokens, sockets, acked, overlapped, changes>>

-----------------------------------------------------------------------------
SessionNext ==
    \/ \E r \in Requests :
         \/ \E u \in Accounts, pw \in 0 .. MaxChanges : LoginChecks(r, u, pw)
         \/ GenerateToken(r) \/ SetCredentialOverride(r) \/ Revoke(r)
         \/ \E k \in tokens : ChangeChecks(r, k)
    \/ \E k \in tokens, i \in 1 .. MaxTickets : IssueTicket(k, i)
    \/ \E t \in tickets : ConsumeTicket(t)
    \/ Tick \/ RestartController

SessionSpec == SessionInit /\ [][SessionNext]_sessionVars

-----------------------------------------------------------------------------
(* Properties                                                              *)

\* Type invariant of the sessions; a ticket opens one connection at most.
SessionTypeOK ==
    /\ now \in Epoch .. MaxNow /\ skew \in Skews
    /\ \A r \in Requests : requests[r].at \in {"none", "login", "change", "saved"}
    /\ \A k \in tokens : k.user \in Accounts /\ k.iat <= k.exp
    /\ \A t \in tickets : t.id \in 1 .. MaxTickets /\ t.user \in Accounts
    /\ \A u \in Accounts : overrides[u].pw \in 0 .. MaxChanges
    /\ sockets \in [1 .. MaxTickets -> 0 .. 1]

\* What the controller's clock showed when the database's showed t.
ByController(t) == t - skew

Behind == IF skew < 0 THEN - skew ELSE 0
Ahead == IF skew > 0 THEN skew ELSE 0

\* Once a password change is answered, no request is admitted with a token made before it,
\* across restarts too.  GUIDE.md says so without exception (the change invalidates that
\* user's existing tokens); the code leaves four.  A token of the same second stays good.
\* So do those made before it by as much as the database's clock is behind.  Of two changes
\* of one user that overlap the earlier may overwrite the later cutoff.  And the cache is
\* empty after a start that could not read the overrides.
OldSessionsEnd ==
    \A k \in tokens : Admitted(k) /\ acked[k.user] > 0 =>
        \/ k.made + 1 + Behind >= ByController(acked[k.user])
        \/ k.user \in overlapped \/ unseeded

\* A change locks nobody out for longer than the database's clock is ahead: a token made
\* that much later than every change of the user that reached the table is good until it
\* expires.
NewSessionsWork ==
    \A k \in tokens :
        /\ overrides[k.user].at > 0 => k.made >= ByController(overrides[k.user].at) + Ahead
        /\ Second(now) <= k.exp
        => Admitted(k)

\* A password change ends the sessions that were there before it, and no other, up to the
\* difference of the two clocks.
SessionsFollowPasswords == OldSessionsEnd /\ NewSessionsWork
=============================================================================
