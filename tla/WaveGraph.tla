----------------------------- MODULE WaveGraph ------------------------------
(***************************************************************************)
(* BuildGraph (waveplan/graph.go): Kahn's topological sort of the plans    *)
(* that are in the table, with its report of cycles and unknown            *)
(* references, beside what it has to compute.                              *)
(***************************************************************************)
EXTENDS WavePlan, Sequences, SequencesExt

\* Plans are numbered in the order of their plan_ids.
ASSUME GraphAssumption == Plans \subseteq Nat

-----------------------------------------------------------------------------
(* BuildGraph                                                              *)

Dependents(d) == {e[1] : e \in {x \in Edges : x[2] = d}}

InDegree == [p \in Nodes |-> Cardinality({e \in Edges : e[1] = p})]

\* The queue is sorted whenever it was appended to, and a plan enters it at most once: it
\* is a set, and its head is the smallest plan_id.
First(queue) == CHOOSE id \in queue : \A p \in queue : id <= p

\* a dependent is released with one dependency left
KahnRound_EarlyRelease(k) ==
    LET id     == First(k.queue)
        degree == [p \in Nodes |-> IF p \in Dependents(id) /\ k.degree[p] > 0
                                     THEN k.degree[p] - 1 ELSE k.degree[p]]
        free   == {p \in Dependents(id) : degree[p] <= 1} \ ToSet(k.order)
    IN  IF k.queue = {} THEN k
        ELSE [queue |-> (k.queue \ {id}) \cup free, degree |-> degree, order |-> Append(k.order, id)]

\* One turn of the loop: take the first of the queue, release its dependents.  With an
\* empty queue the loop has ended.
KahnRound(k) ==
    LET id     == First(k.queue)
        degree == [p \in Nodes |-> IF p \in Dependents(id) THEN k.degree[p] - 1 ELSE k.degree[p]]
        free   == {p \in Dependents(id) : degree[p] = 0}
    IN  IF k.queue = {} THEN k
        ELSE [queue |-> (k.queue \ {id}) \cup free, degree |-> degree, order |-> Append(k.order, id)]

KahnStart == [queue |-> {p \in Nodes : InDegree[p] = 0}, degree |-> InDegree, order |-> <<>>]

\* The loop takes a plan off the queue in every turn.
Kahn ==
    LET after[n \in 0 .. Cardinality(Nodes)] ==
            IF n = 0 THEN KahnStart ELSE KahnRound(after[n - 1])
    IN  after[Cardinality(Nodes)]

\* When not every plan was reached the order is dropped and the rest is reported as
\* cyclic.
BuildGraph ==
    LET complete == Len(Kahn.order) = Cardinality(Nodes)
    IN  [order  |-> IF complete THEN Kahn.order ELSE <<>>,
         cyclic |-> IF complete THEN {} ELSE {p \in Nodes : Kahn.degree[p] > 0}]

-----------------------------------------------------------------------------
(* What it has to compute                                                  *)

\* Whatever plans requests have created and deleted, BuildGraph ends, reports no cycle and
\* its order lists every plan once, dependencies first, and, among the plans it could
\* take next, always the one with the smallest plan_id.
GraphIsOrdered ==
    LET graph == BuildGraph
        n == Cardinality(Nodes)
        Done(i) == {graph.order[j] : j \in 1 .. i - 1}
        Ready(i) == {p \in Nodes \ Done(i) :
                       \A e \in Edges : e[1] = p => e[2] \in Done(i)}
    IN  /\ Kahn.queue = {} /\ graph.cyclic = {}
        /\ Len(graph.order) = n /\ ToSet(graph.order) = Nodes
        /\ \A i \in 1 .. n : graph.order[i] \in Ready(i)
                             /\ \A q \in Ready(i) : graph.order[i] <= q

\* The graph an operator plans with is the one UpdateStatus enforces: acyclic, ordered,
\* honest about what can be activated, and open about what was skipped.
GraphIsSound ==
    DependenciesAreAcyclic /\ GraphIsOrdered /\ ActivatableIsHonest /\ SkippedIsSurfaced
=============================================================================
