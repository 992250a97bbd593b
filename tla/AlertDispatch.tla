---------------------------- MODULE AlertDispatch ----------------------------
(***************************************************************************)
(* Alerts about critical findings and the shutdown that must not lose      *)
(* them: the stream handlers start a webhook dispatch and a notification   *)
(* dispatch for a payload (grpcserver/server.go), dispatches retry and     *)
(* share one circuit breaker per URL, operators edit the webhooks          *)
(* (httpapi/server.go), and main drains everything on a signal.            *)
(*                                                                         *)
(* A dispatch is named by the payload it is for and its kind.  An event is *)
(* one critical finding of the payload.                                    *)
(***************************************************************************)
EXTENDS Naturals, Sequences, FiniteSets

CONSTANTS
    AgentStreams,   \* agents with a telemetry stream
    Endpoints,      \* URLs an operator may enter: scheme and kind of host
    ChannelSets,    \* notification channels a controller may be configured with
    MaxHooks,       \* webhooks added in a behaviour
    MaxCritical,    \* critical findings of a payload
    MaxAlerts,      \* payloads received in a behaviour
    MaxCooldowns,   \* cooldowns that end in a behaviour
    SendAttempts,   \* attempts per event: 3 in the code
    BreakerLimit    \* failures that open the circuit: 5 in the code

Endpoint == [scheme : {"http", "https", "other"},
             host : {"localhost", "private", "metadata", "public", "none"}]

ASSUME AlertAssumption ==
    /\ Endpoints \subseteq Endpoint
    /\ ChannelSets \subseteq SUBSET {"slack", "pagerduty", "email"}
    /\ MaxHooks \in Nat /\ MaxAlerts \in Nat /\ MaxCooldowns \in Nat
    /\ MaxCritical \in Nat /\ SendAttempts \in Nat \ {0} /\ BreakerLimit \in Nat \ {0}

Kinds == {"hooks", "notify"}

VARIABLES
    hookList,       \* fleet_webhooks, newest first
    channels,       \* channels of the notifier
    breakerFails,   \* webhookCircuit.failures
    cooldown,       \* webhookCircuit.cooldownUntil: absent, ahead or passed
    open,           \* stream handlers that have not returned
    dispatch,       \* the goroutines
    webhookWg,      \* the WaitGroup's counter
    mainAt,         \* where main is
    graceOver,      \* the drain's deadline has passed
    drained,        \* what WaitWebhooks returned
    alerts,         \* payloads received
    results,        \* history: the last results of events sent to a URL
    hooksAdded, cooldownsOver

alertVars == <<hookList, channels, breakerFails, cooldown, open, dispatch, webhookWg, mainAt,
               graceOver, drained, alerts, results, hooksAdded, cooldownsOver>>

loopVars == <<hookList, channels, open, mainAt, graceOver, drained, alerts, hooksAdded, cooldownsOver>>

\* A goroutine that is not there, one just started with n events, and one that returned.
Goroutine(at, n) == [at |-> at, events |-> n, todo |-> <<>>, sent |-> 0, attempt |-> 0,
                     pending |-> {}]
Idle == Goroutine("idle", 0)
Spawned(n) == Goroutine("spawned", n)
Finished == Goroutine("done", 0)

AlertInit ==
    /\ hookList = <<>>
    /\ channels \in ChannelSets
    /\ breakerFails = [u \in Endpoints |-> 0]
    /\ cooldown = [u \in Endpoints |-> "none"]
    /\ open = {} /\ webhookWg = 0 /\ alerts = 0 /\ hooksAdded = 0 /\ cooldownsOver = 0
    /\ dispatch = [d \in (1 .. MaxAlerts) \X Kinds |-> Idle]
    /\ mainAt = "serving" /\ graceOver = FALSE /\ drained = "no"
    /\ results = [u \in Endpoints |-> <<>>]

-----------------------------------------------------------------------------
(* Webhook registrations                                                   *)

\* validateWebhookURL
ValidateWebhookURL(u) ==
    /\ u.scheme \in {"http", "https"}
    /\ u.host \notin {"none", "metadata", "private"}
    /\ u.scheme = "http" => u.host = "localhost"

\* drainGuard: a request that arrives while the server drains gets 503.
DrainGuard == mainAt = "serving"

\* Registrations of one URL are rows of their own and share its circuit.
AddWebhook(u) ==
    /\ DrainGuard /\ ValidateWebhookURL(u)
    /\ hooksAdded < MaxHooks /\ hooksAdded' = hooksAdded + 1
    /\ hookList' = <<u>> \o hookList
    /\ UNCHANGED <<channels, breakerFails, cooldown, open, dispatch, webhookWg, mainAt,
                   graceOver, drained, alerts, results, cooldownsOver>>

DeleteWebhook(i) ==
    /\ DrainGuard /\ i \in DOMAIN hookList
    /\ hookList' = SubSeq(hookList, 1, i - 1) \o SubSeq(hookList, i + 1, Len(hookList))
    /\ UNCHANGED <<channels, breakerFails, cooldown, open, dispatch, webhookWg, mainAt,
                   graceOver, drained, alerts, results, hooksAdded, cooldownsOver>>

-----------------------------------------------------------------------------
(* StreamTelemetry                                                         *)

\* GracefulStop refuses new streams.
OpenAgentStream(s) ==
    /\ mainAt = "serving" /\ s \notin open
    /\ open' = open \cup {s}
    /\ UNCHANGED <<hookList, channels, breakerFails, cooldown, dispatch, webhookWg, mainAt,
                   graceOver, drained, alerts, results, hooksAdded, cooldownsOver>>

\* Notifier.Enabled
NotifierEnabled == channels # {}

Started(n) ==
    IF n = 0 THEN {} ELSE {"hooks"} \cup (IF NotifierEnabled THEN {"notify"} ELSE {})

\* the WaitGroup is not told
Alert_NotCounted(s, n) ==
    /\ s \in open /\ mainAt \in {"serving", "stoppingGrpc"} /\ alerts < MaxAlerts
    /\ alerts' = alerts + 1
    /\ dispatch' = [d \in DOMAIN dispatch |->
                      IF d[1] = alerts + 1 /\ d[2] \in Started(n)
                        THEN Spawned(n)
                        ELSE dispatch[d]]
    /\ UNCHANGED <<hookList, channels, breakerFails, cooldown, open, webhookWg, mainAt,
                   graceOver, drained, results, hooksAdded, cooldownsOver>>

\* A payload with n critical findings is persisted and its dispatches are started.
Alert(s, n) ==
    /\ s \in open /\ mainAt \in {"serving", "stoppingGrpc"} /\ alerts < MaxAlerts
    /\ alerts' = alerts + 1
    /\ webhookWg' = webhookWg + Cardinality(Started(n))
    /\ dispatch' = [d \in DOMAIN dispatch |->
                      IF d[1] = alerts + 1 /\ d[2] \in Started(n)
                        THEN Spawned(n)
                        ELSE dispatch[d]]
    /\ UNCHANGED <<hookList, channels, breakerFails, cooldown, open, mainAt,
                   graceOver, drained, results, hooksAdded, cooldownsOver>>

\* The agent closes its side, the connection is found dead, or the handler fails.
StreamReturns(s) ==
    /\ s \in open /\ open' = open \ {s}
    /\ UNCHANGED <<hookList, channels, breakerFails, cooldown, dispatch, webhookWg, mainAt,
                   graceOver, drained, alerts, results, hooksAdded, cooldownsOver>>

-----------------------------------------------------------------------------
(* webhookCircuit                                                          *)

IsOpen(u) == cooldown[u] = "cooling"

\* The count is kept when a cooldown ends: the next failure starts another one.
RecordFailure(u) ==
    /\ breakerFails' = [breakerFails EXCEPT ![u] = @ + 1]
    /\ cooldown' = IF breakerFails[u] + 1 >= BreakerLimit
                     THEN [cooldown EXCEPT ![u] = "cooling"] ELSE cooldown

RecordSuccess(u) ==
    /\ breakerFails' = [breakerFails EXCEPT ![u] = 0]
    /\ cooldown' = [cooldown EXCEPT ![u] = "none"]

CooldownEnds(u) ==
    /\ cooldown[u] = "cooling" /\ mainAt # "exited"
    /\ cooldownsOver < MaxCooldowns /\ cooldownsOver' = cooldownsOver + 1
    /\ cooldown' = [cooldown EXCEPT ![u] = "over"]
    /\ UNCHANGED <<hookList, channels, breakerFails, open, dispatch, webhookWg, mainAt,
                   graceOver, drained, alerts, results, hooksAdded>>

-----------------------------------------------------------------------------
(* dispatchWebhooks                                                        *)

\* No step of a goroutine happens after main has returned.
At(d, place) == dispatch[d].at = place /\ mainAt # "exited"

Return(d) ==
    /\ dispatch' = [dispatch EXCEPT ![d] = Finished]
    /\ webhookWg' = webhookWg - 1

\* The list is read once; it is loaded, or the read fails and the payload is dropped.
LoadWebhooks(d) ==
    /\ At(d, "spawned") /\ d[2] = "hooks"
    /\ \/ /\ dispatch' = [dispatch EXCEPT ![d] = [@ EXCEPT !.at = "hook", !.todo = hookList]]
          /\ UNCHANGED webhookWg
       \/ Return(d)
    /\ UNCHANGED <<loopVars, breakerFails, cooldown, results>>

\* The next webhook: none is left, its circuit is open, or its events are sent in turn.
NextWebhook(d) ==
    /\ At(d, "hook")
    /\ LET todo == dispatch[d].todo IN
       \/ todo = <<>> /\ Return(d)
       \/ /\ todo # <<>> /\ IsOpen(Head(todo))
          /\ dispatch' = [dispatch EXCEPT ![d].todo = Tail(@)] /\ UNCHANGED webhookWg
       \/ /\ todo # <<>> /\ ~ IsOpen(Head(todo))
          /\ dispatch' = [dispatch EXCEPT ![d] = [@ EXCEPT !.at = "send", !.attempt = 0]]
             /\ UNCHANGED webhookWg
    /\ UNCHANGED <<loopVars, breakerFails, cooldown, results>>

\* A 2xx answer; any other answer, a timeout and a refused connection are the same.
Accepted(answer) == answer = "2xx"

\* History: the last BreakerLimit results of a URL.
LastResults(rs, result) ==
    LET all == Append(rs, result) IN IF Len(all) > BreakerLimit THEN Tail(all) ELSE all

Remember(u, result) == results' = [results EXCEPT ![u] = LastResults(@, result)]

\* An event is over; the webhook is over with its last event, and its circuit is not
\* looked at in between.
AfterEvent(q) ==
    IF q.sent + 1 = q.events THEN [q EXCEPT !.at = "hook", !.todo = Tail(q.todo), !.sent = 0]
    ELSE [q EXCEPT !.sent = @ + 1, !.attempt = 0]

\* One attempt.  An event is over when it is accepted or its last attempt fails.
SendEvent(d, answer) ==
    /\ At(d, "send")
    /\ LET u    == Head(dispatch[d].todo)
           last == dispatch[d].attempt + 1 = SendAttempts
       IN  \/ /\ Accepted(answer)
              /\ dispatch' = [dispatch EXCEPT ![d] = AfterEvent(@)]
              /\ RecordSuccess(u) /\ Remember(u, "delivered")
           \/ /\ ~ Accepted(answer) /\ ~ last
              /\ dispatch' = [dispatch EXCEPT ![d].attempt = @ + 1]
              /\ UNCHANGED <<breakerFails, cooldown, results>>
           \/ /\ ~ Accepted(answer) /\ last
              /\ dispatch' = [dispatch EXCEPT ![d] = AfterEvent(@)]
              /\ RecordFailure(u) /\ Remember(u, "failed")
    /\ UNCHANGED <<loopVars, webhookWg>>

-----------------------------------------------------------------------------
(* dispatchNotifications                                                   *)

\* Notify hands the alert to every channel at once.
NotifyNext(d) ==
    /\ \/ At(d, "spawned") /\ d[2] = "notify"
       \/ At(d, "notify") /\ dispatch[d].pending = {}
    /\ IF dispatch[d].sent = dispatch[d].events
         THEN Return(d)
         ELSE /\ dispatch' = [dispatch EXCEPT ![d] =
                   [@ EXCEPT !.at = "notify", !.sent = dispatch[d].sent + 1,
                             !.pending = channels]]
              /\ UNCHANGED webhookWg
    /\ UNCHANGED <<loopVars, breakerFails, cooldown, results>>

\* A channel has sent the alert or failed to: a failure is only logged.
ChannelSends(d, c) ==
    /\ At(d, "notify") /\ c \in dispatch[d].pending
    /\ dispatch' = [dispatch EXCEPT ![d].pending = @ \ {c}]
    /\ UNCHANGED <<loopVars, breakerFails, cooldown, results, webhookWg>>

-----------------------------------------------------------------------------
(* main: serving and the drain                                             *)

mainOthers == <<hookList, channels, breakerFails, cooldown, open, dispatch, webhookWg, alerts,
                results, hooksAdded, cooldownsOver>>

\* A listener fails: the process exits at once and drains nothing.
ListenerFails ==
    /\ mainAt = "serving" /\ mainAt' = "exited"
    /\ UNCHANGED <<mainOthers, graceOver, drained>>

\* The signal: readiness flips and GracefulStop begins to wait for the handlers.
BeginDraining ==
    /\ mainAt = "serving" /\ mainAt' = "stoppingGrpc"
    /\ UNCHANGED <<mainOthers, graceOver, drained>>

GraceExpires ==
    /\ mainAt \in {"stoppingGrpc", "waiting", "stoppingHttp"} /\ ~ graceOver
    /\ graceOver' = TRUE
    /\ UNCHANGED <<mainOthers, mainAt, drained>>

\* GracefulStop returns when no handler is left, however long that takes.
GracefulStop ==
    /\ mainAt = "stoppingGrpc" /\ open = {}
    /\ mainAt' = IF graceOver THEN "stoppingHttp" ELSE "waiting"
    /\ UNCHANGED <<mainOthers, graceOver, drained>>

WaitWebhooks ==
    /\ mainAt = "waiting" /\ mainAt' = "stoppingHttp"
    /\ \/ webhookWg = 0 /\ drained' = "clean"
       \/ graceOver /\ drained' = "timeout"
    /\ UNCHANGED <<mainOthers, graceOver>>

\* Shutdown has at least a second; then main returns, whatever still runs.
ShutdownHTTP ==
    /\ mainAt = "stoppingHttp" /\ mainAt' = "exited"
    /\ UNCHANGED <<mainOthers, graceOver, drained>>

-----------------------------------------------------------------------------
Dispatching ==
    \E d \in DOMAIN dispatch :
        \/ LoadWebhooks(d) \/ NextWebhook(d) \/ NotifyNext(d)
        \/ \E answer \in {"2xx", "other"} : SendEvent(d, answer)
        \/ \E c \in channels : ChannelSends(d, c)

Draining == GraceExpires \/ GracefulStop \/ WaitWebhooks \/ ShutdownHTTP

AlertNext ==
    \/ \E u \in Endpoints : AddWebhook(u) \/ CooldownEnds(u)
    \/ \E i \in 1 .. MaxHooks : DeleteWebhook(i)
    \/ \E s \in AgentStreams :
         OpenAgentStream(s) \/ StreamReturns(s) \/ \E n \in 0 .. MaxCritical : Alert(s, n)
    \/ Dispatching \/ ListenerFails \/ BeginDraining \/ Draining

AlertSpec == AlertInit /\ [][AlertNext]_alertVars

-----------------------------------------------------------------------------
(* Properties                                                              *)

\* Type invariant of the dispatches.
AlertTypeOK ==
    /\ hookList \in Seq(Endpoints) /\ Len(hookList) <= MaxHooks
    /\ \A u \in Endpoints : cooldown[u] \in {"none", "cooling", "over"}
    /\ \A d \in DOMAIN dispatch :
         /\ dispatch[d].at \in {"idle", "spawned", "hook", "send", "notify", "done"}
         /\ dispatch[d].sent <= dispatch[d].events /\ dispatch[d].attempt < SendAttempts
    /\ mainAt \in {"serving", "stoppingGrpc", "waiting", "stoppingHttp", "exited"}

\* WaitWebhooks returns true only if every dispatch of every payload the handlers
\* persisted has run to its end, and no handler is left to start another: what the
\* order of the drain in main is for.
CleanDrainIsComplete ==
    drained = "clean" =>
        /\ open = {}
        /\ \A d \in DOMAIN dispatch : dispatch[d].at \in {"idle", "done"}

\* A webhook is skipped only while its last BreakerLimit results were all failures,
\* although dispatches of several payloads, and registrations of the same URL, feed its
\* counter at the same time.
BreakerNeedsFailures ==
    \A u \in Endpoints : IsOpen(u) =>
        Len(results[u]) = BreakerLimit /\ \A i \in 1 .. BreakerLimit : results[u][i] = "failed"

\* Alerts end in one of the ways the code names: delivered or given up before a clean
\* drain is reported, or skipped because the breaker has seen enough failures.
AlertsAreSettled == CleanDrainIsComplete /\ BreakerNeedsFailures
=============================================================================
