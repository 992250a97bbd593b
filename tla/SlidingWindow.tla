--------------------------- MODULE SlidingWindow ---------------------------
(***************************************************************************)
(* The request budget of llm/budget.go: at most limit events in a window.  *)
(* The limiter keeps times; an event is a time with the one who asked, so  *)
(* that equal times are separate events.  Nobody asks twice.               *)
(***************************************************************************)
EXTENDS Integers, FiniteSets

Event(by, time) == [by |-> by, at |-> time]

\* The events after the cutoff.  An event exactly one window old is dropped.
Kept(events, window, time) == {e \in events : e.at > time - window}

\* the limit itself is let through once more
Allows_OffByOne(events, limit, window, time) ==
    limit <= 0 \/ Cardinality(Kept(events, window, time)) <= limit

\* A limit of zero or less switches the limiter off.
Allows(events, limit, window, time) ==
    limit <= 0 \/ Cardinality(Kept(events, window, time)) < limit

\* The limiter after a request: it records the ones it allows.
AfterRequest(events, limit, window, by, time) ==
    IF limit <= 0 THEN events
    ELSE IF Allows(events, limit, window, time)
           THEN Kept(events, window, time) \cup {Event(by, time)}
           ELSE Kept(events, window, time)

\* No window holds more than limit of the events.
WithinLimit(events, limit, window) ==
    \A e \in events : Cardinality({d \in events : d.at <= e.at /\ d.at > e.at - window}) <= limit
=============================================================================
