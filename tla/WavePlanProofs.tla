--------------------------- MODULE WavePlanProofs ---------------------------
(***************************************************************************)
(* Proofs about the wave planner, for any plans and any number of requests *)
(* in progress at the same time, and about the order that BuildGraph       *)
(* computes from any table of plans.                                       *)
(***************************************************************************)
EXTENDS WaveGraph, Induction

\* A plan_id that was not given out has no row, and no plan names it.
RowsAreUsed ==
    /\ \A p \in Plans : Exists(p) => p \in used
    /\ \A p \in Plans : deps[p] \subseteq used
    /\ completed \subseteq used
    /\ \A p \in Plans : status[p] = "completed" => p \in completed

\* A request that writes names the plan it writes.
WritesNameAPlan == \A r \in Reqs : req[r].op # "idle" => req[r].plan \in Plans

\* While nothing has overlapped, one request at most is between its read and its write.
OneWriteAtATime ==
    ~overlapped => \A r, q \in Reqs : req[r] # Idle /\ req[q] # Idle => r = q

\* What that request has read still holds.
ReadStillHolds ==
    ~overlapped =>
        \A r \in Reqs :
            /\ req[r].op # "idle" => Exists(req[r].plan)
            /\ req[r].op = "update" =>
                  /\ Allowed(status[req[r].plan], req[r].to)
                  /\ req[r].to = "active" => IncompleteDependencies(req[r].plan) = {}
            /\ req[r].op = "delete" =>
                  status[req[r].plan] \notin {"active", "completed"}

IndInv ==
    /\ TypeOK /\ RowsAreUsed /\ WritesNameAPlan /\ OneWriteAtATime /\ ReadStillHolds
    /\ DependenciesAreAcyclic /\ ActivationIsSafe /\ CompletedIsKept

-----------------------------------------------------------------------------
\* The inductive invariant holds at the start.
LEMMA InitInv == Init => IndInv
  <1> SUFFICES ASSUME Init PROVE IndInv
    OBVIOUS
  <1> USE DEF Init
  <1>1. Idle \in Writes
    BY DEF Idle, Writes
  <1>2. TypeOK
    BY <1>1 DEF TypeOK
  <1>3. RowsAreUsed /\ OneWriteAtATime /\ DependenciesAreAcyclic
    BY DEF RowsAreUsed, OneWriteAtATime, DependenciesAreAcyclic, Exists
  <1>4. WritesNameAPlan /\ ReadStillHolds
    BY DEF WritesNameAPlan, ReadStillHolds, Idle
  <1>5. ActivationIsSafe /\ CompletedIsKept
    BY DEF ActivationIsSafe, CompletedIsKept, CompletedIsPermanent
  <1> QED
    BY <1>2, <1>3, <1>4, <1>5 DEF IndInv

\* Create preserves it: the new plan depends on plans given out before, and no plan
\* given out before depends on it.
LEMMA CreateInv ==
  ASSUME IndInv, NEW r \in Reqs, NEW p \in Plans, NEW D \in SUBSET Plans, Create(r, p, D)
  PROVE  IndInv'
  <1> USE DEF IndInv, Create, Exists
  <1>1. TypeOK'
    BY DEF TypeOK, Statuses
  <1>2. D \subseteq used /\ p \notin used /\ status[p] = "absent"
    BY DEF RowsAreUsed, TypeOK
  <1>3. RowsAreUsed'
    BY <1>2 DEF RowsAreUsed, TypeOK
  <1>4. WritesNameAPlan' /\ OneWriteAtATime'
    BY DEF WritesNameAPlan, OneWriteAtATime
  <1>5. ReadStillHolds'
    BY <1>2 DEF ReadStillHolds, IncompleteDependencies, TypeOK, RowsAreUsed,
                WritesNameAPlan
  <1>6. DependenciesAreAcyclic'
    <2>1. SUFFICES ASSUME NEW S \in SUBSET used', S # {}
                   PROVE  \E q \in S : deps'[q] \cap S = {}
      BY DEF DependenciesAreAcyclic
    <2>2. CASE S \ {p} = {}
      BY <1>2, <2>1, <2>2 DEF TypeOK
    <2>3. CASE S \ {p} # {}
      <3>1. S \ {p} \in SUBSET used
        BY <2>1
      <3>2. PICK q \in S \ {p} : deps[q] \cap (S \ {p}) = {}
        BY <2>3, <3>1 DEF DependenciesAreAcyclic
      <3>3. p \notin deps[q] /\ deps'[q] = deps[q]
        BY <1>2, <3>1, <3>2 DEF RowsAreUsed, TypeOK
      <3> QED
        BY <3>2, <3>3
    <2> QED
      BY <2>2, <2>3
  <1>7. ActivationIsSafe'
    BY <1>2 DEF ActivationIsSafe, RowsAreUsed, TypeOK
  <1>8. CompletedIsKept'
    BY <1>2 DEF CompletedIsKept, CompletedIsPermanent, RowsAreUsed, TypeOK
  <1> QED
    BY <1>1, <1>3, <1>4, <1>5, <1>6, <1>7, <1>8

\* A request that begins while none is in progress is the only one.
LEMMA StartInv ==
  ASSUME IndInv, NEW r \in Reqs, req[r] = Idle,
         NEW w \in Writes, w.op # "idle", w.plan \in Plans,
         StartsWrite(r, w), UNCHANGED <<status, deps, used, completed>>
  PROVE  /\ TypeOK' /\ RowsAreUsed' /\ WritesNameAPlan' /\ OneWriteAtATime'
         /\ DependenciesAreAcyclic' /\ ActivationIsSafe' /\ CompletedIsKept'
         /\ ~overlapped' => ~overlapped /\ req' = [req EXCEPT ![r] = w]
                            /\ \A q \in Reqs \ {r} : req'[q] = Idle
  <1> USE DEF IndInv, StartsWrite
  <1>1. ~overlapped' => ~overlapped /\ req' = [req EXCEPT ![r] = w]
                       /\ \A q \in Reqs \ {r} : req'[q] = Idle
    BY DEF TypeOK
  <1>2. TypeOK'
    BY DEF TypeOK
  <1>3. WritesNameAPlan'
    BY DEF TypeOK, WritesNameAPlan
  <1>4. OneWriteAtATime'
    BY <1>1 DEF OneWriteAtATime
  <1>5. RowsAreUsed' /\ DependenciesAreAcyclic'
    BY DEF RowsAreUsed, Exists, DependenciesAreAcyclic
  <1>6. ActivationIsSafe' /\ CompletedIsKept'
    BY <1>1 DEF ActivationIsSafe, CompletedIsKept, CompletedIsPermanent
  <1> QED
    BY <1>1, <1>2, <1>3, <1>4, <1>5, <1>6

\* The read half of UpdateStatus preserves the invariant.
LEMMA ReadForUpdateInv ==
  ASSUME IndInv, NEW r \in Reqs, NEW p \in Plans, NEW to \in Statuses,
         ReadForUpdate(r, p, to)
  PROVE  IndInv'
  <1> DEFINE w == [op |-> "update", plan |-> p, to |-> to]
  <1>1. w \in Writes /\ w.op # "idle" /\ w.plan \in Plans
    BY DEF Writes
  <1>2. /\ TypeOK' /\ RowsAreUsed' /\ WritesNameAPlan' /\ OneWriteAtATime'
        /\ DependenciesAreAcyclic' /\ ActivationIsSafe' /\ CompletedIsKept'
        /\ ~overlapped' => ~overlapped /\ req' = [req EXCEPT ![r] = w]
                           /\ \A q \in Reqs \ {r} : req'[q] = Idle
    <2> HIDE DEF w
    <2>1. req[r] = Idle /\ StartsWrite(r, w) /\ UNCHANGED <<status, deps, used, completed>>
      BY DEF ReadForUpdate, w
    <2> QED
      BY <1>1, <2>1, StartInv
  <1>3. ReadStillHolds'
    BY <1>2 DEF ReadStillHolds, ReadForUpdate, IndInv, TypeOK, Exists, Idle,
                IncompleteDependencies
  <1> QED
    BY <1>2, <1>3 DEF IndInv

\* The read half of Delete preserves the invariant.
LEMMA ReadForDeleteInv ==
  ASSUME IndInv, NEW r \in Reqs, NEW p \in Plans, ReadForDelete(r, p)
  PROVE  IndInv'
  <1> DEFINE w == [op |-> "delete", plan |-> p, to |-> "absent"]
  <1>1. w \in Writes /\ w.op # "idle" /\ w.plan \in Plans
    BY DEF Writes
  <1>2. /\ TypeOK' /\ RowsAreUsed' /\ WritesNameAPlan' /\ OneWriteAtATime'
        /\ DependenciesAreAcyclic' /\ ActivationIsSafe' /\ CompletedIsKept'
        /\ ~overlapped' => ~overlapped /\ req' = [req EXCEPT ![r] = w]
                           /\ \A q \in Reqs \ {r} : req'[q] = Idle
    <2> HIDE DEF w
    <2>1. req[r] = Idle /\ StartsWrite(r, w) /\ UNCHANGED <<status, deps, used, completed>>
      BY DEF ReadForDelete, w
    <2> QED
      BY <1>1, <2>1, StartInv
  <1>3. ReadStillHolds'
    BY <1>2 DEF ReadStillHolds, ReadForDelete, IndInv, TypeOK, Exists, Idle,
                IncompleteDependencies
  <1> QED
    BY <1>2, <1>3 DEF IndInv

\* Which statuses checkTransition lets a plan come from
LEMMA AllowedFrom ==
  ASSUME NEW from, NEW to, Allowed(from, to)
  PROVE  /\ from \in {"planned", "active"} /\ to \in {"active", "completed", "cancelled"}
         /\ to = "active" => from = "planned"
         /\ to = "completed" => from = "active"
  BY DEF Allowed

\* The write half of UpdateStatus preserves the invariant.
LEMMA WriteUpdateInv ==
  ASSUME IndInv, NEW r \in Reqs, WriteUpdate(r)
  PROVE  IndInv'
  <1> DEFINE p == req[r].plan
             to == req[r].to
  <1> USE DEF IndInv, WriteUpdate, Exists
  <1>1. p \in Plans /\ to \in Statuses \cup {"absent"} /\ req[r] # Idle
    BY DEF WritesNameAPlan, Idle, TypeOK, Writes
  <1>2. ~overlapped' => /\ ~overlapped /\ Exists(p) /\ Allowed(status[p], to)
                        /\ to = "active" => IncompleteDependencies(p) = {}
                        /\ \A q \in Reqs : req'[q] = Idle
    BY <1>1 DEF ReadStillHolds, OneWriteAtATime, TypeOK
  <1>3. TypeOK'
    BY <1>1 DEF TypeOK, Idle, Writes
  <1>4. \A q \in Plans : status'[q] = IF q = p /\ Exists(p) THEN to ELSE status[q]
    BY <1>1 DEF TypeOK
  <1>5. completed' = completed \cup {q \in Plans : status'[q] = "completed"}
    OBVIOUS
  <1>6. RowsAreUsed'
    BY <1>4, <1>5 DEF RowsAreUsed, TypeOK
  <1>7. WritesNameAPlan'
    BY DEF WritesNameAPlan, Idle, TypeOK
  <1>8. OneWriteAtATime' /\ ReadStillHolds'
    BY <1>2 DEF OneWriteAtATime, ReadStillHolds, Idle
  <1>9. DependenciesAreAcyclic'
    BY DEF DependenciesAreAcyclic
  <1>10. ~overlapped' => \A q \in Plans : status[q] \in {"active", "completed"} => p \notin deps[q]
    BY <1>1, <1>2, AllowedFrom DEF ActivationIsSafe
  <1>11. ActivationIsSafe'
    <2>1. SUFFICES ASSUME ~overlapped', NEW q \in Plans,
                          status'[q] \in {"active", "completed"}, NEW d \in deps[q]
                   PROVE  status'[d] \in {"completed", "absent"}
      BY DEF ActivationIsSafe
    <2>2. d \in Plans /\ q \in used
      BY <2>1, <1>6 DEF TypeOK, RowsAreUsed
    <2>3. d # q
      <3>1. {q} \in SUBSET used
        BY <2>2
      <3> QED
        BY <3>1 DEF DependenciesAreAcyclic
    <2>4. CASE status[q] \in {"active", "completed"}
      <3>1. status[d] \in {"completed", "absent"} /\ d # p
        BY <1>2, <1>10, <2>1, <2>4 DEF ActivationIsSafe
      <3> QED
        BY <1>4, <2>2, <3>1
    <2>5. CASE status[q] \notin {"active", "completed"}
      <3>1. q = p /\ to = "active"
        BY <1>2, <1>4, <2>1, <2>5, AllowedFrom
      <3>2. status[d] \in {"completed", "absent"}
        BY <1>2, <2>1, <2>2, <2>3, <3>1 DEF IncompleteDependencies
      <3> QED
        BY <1>4, <2>2, <2>3, <3>1, <3>2
    <2> QED
      BY <2>4, <2>5
  <1>12. CompletedIsKept'
    <2> SUFFICES ASSUME ~overlapped', NEW q \in completed'
                 PROVE  status'[q] = "completed"
      BY DEF CompletedIsKept, CompletedIsPermanent
    <2>1. CASE q \in completed
      <3>1. q \in Plans /\ status[q] = "completed"
        BY <1>2, <2>1 DEF CompletedIsKept, CompletedIsPermanent, TypeOK
      <3> QED
        BY <1>2, <1>4, <3>1, AllowedFrom
    <2> QED
      BY <1>5, <2>1
  <1> QED
    BY <1>3, <1>6, <1>7, <1>8, <1>9, <1>11, <1>12

\* The write half of Delete preserves the invariant.
LEMMA WriteDeleteInv ==
  ASSUME IndInv, NEW r \in Reqs, WriteDelete(r)
  PROVE  IndInv'
  <1> DEFINE p == req[r].plan
  <1> USE DEF IndInv, WriteDelete, Exists
  <1>1. p \in Plans /\ req[r] # Idle
    BY DEF WritesNameAPlan, Idle, TypeOK, Writes
  <1>2. ~overlapped' => /\ ~overlapped /\ status[p] \notin {"active", "completed"}
                        /\ \A q \in Reqs : req'[q] = Idle
    BY <1>1 DEF ReadStillHolds, OneWriteAtATime, TypeOK
  <1>3. TypeOK'
    BY <1>1 DEF TypeOK, Idle, Writes
  <1>4. RowsAreUsed'
    BY <1>1 DEF RowsAreUsed, TypeOK
  <1>5. WritesNameAPlan'
    BY DEF WritesNameAPlan, Idle, TypeOK
  <1>6. OneWriteAtATime' /\ ReadStillHolds'
    BY <1>2 DEF OneWriteAtATime, ReadStillHolds, Idle
  <1>7. DependenciesAreAcyclic'
    BY DEF DependenciesAreAcyclic
  <1>8. ActivationIsSafe'
    BY <1>1, <1>2 DEF ActivationIsSafe, TypeOK
  <1>9. CompletedIsKept'
    BY <1>1, <1>2 DEF CompletedIsKept, CompletedIsPermanent, TypeOK
  <1> QED
    BY <1>3, <1>4, <1>5, <1>6, <1>7, <1>8, <1>9

\* Every step preserves the invariant.
LEMMA NextInv == IndInv /\ [Next]_vars => IndInv'
  <1> SUFFICES ASSUME IndInv, [Next]_vars PROVE IndInv'
    OBVIOUS
  <1>1. CASE Next
    BY <1>1, CreateInv, ReadForUpdateInv, ReadForDeleteInv, WriteUpdateInv, WriteDeleteInv
       DEF Next
  <1>2. CASE UNCHANGED vars
    BY <1>2 DEF vars, IndInv, TypeOK, RowsAreUsed, WritesNameAPlan, OneWriteAtATime,
                ReadStillHolds, DependenciesAreAcyclic, ActivationIsSafe, CompletedIsKept,
                CompletedIsPermanent, Exists, IncompleteDependencies
  <1> QED
    BY <1>1, <1>2

\* The invariant holds throughout.
LEMMA Invariance == Spec => []IndInv
  BY InitInv, NextInv, PTL DEF Spec

-----------------------------------------------------------------------------
\* Every variable keeps its type, whatever requests do.
THEOREM TypeCorrect == Spec => []TypeOK
  BY Invariance, PTL DEF IndInv

\* However requests interleave, no cycle of dependencies is ever stored: Create only
\* accepts plans that have a row.
THEOREM Acyclicity == Spec => []DependenciesAreAcyclic
  BY Invariance, PTL DEF IndInv

\* While updates and deletes do not overlap, an active or completed wave keeps its
\* dependencies completed or out of the table (UpdateStatus, Delete).
THEOREM ActivationSafety == Spec => []ActivationIsSafe
  BY Invariance, PTL DEF IndInv

\* While updates and deletes do not overlap, a wave that was completed stays so.
THEOREM CompletionSafety == Spec => []CompletedIsKept
  BY Invariance, PTL DEF IndInv

\* The graph endpoint and UpdateStatus agree on which waves may become active, in
\* every state, races included (BuildGraph, incompleteDependencies).
THEOREM ActivatableHonesty == Spec => []ActivatableIsHonest
  <1>1. IndInv => ActivatableIsHonest
    <2> SUFFICES ASSUME IndInv, NEW p \in Nodes
                 PROVE  /\ Activatable(p) <=> Allowed(status[p], "active")
                                                /\ IncompleteDependencies(p) = {}
                        /\ Activatable(p) => \A d \in deps[p] \cap Nodes : ~Activatable(d)
      BY DEF ActivatableIsHonest
    <2>1. p \in Plans /\ Exists(p) /\ deps[p] \subseteq Plans
      BY DEF Nodes, IndInv, TypeOK
    <2>2. p \notin deps[p]
      <3>1. {p} \in SUBSET used
        BY <2>1 DEF IndInv, RowsAreUsed
      <3> QED
        BY <3>1 DEF IndInv, DependenciesAreAcyclic
    <2>3. Allowed(status[p], "active") <=> status[p] = "planned"
      BY DEF Allowed
    <2>4. (\A e \in Edges : e[1] = p => status[e[2]] = "completed")
            <=> \A d \in deps[p] : Exists(d) => status[d] = "completed"
      <3>1. ASSUME \A e \in Edges : e[1] = p => status[e[2]] = "completed",
                   NEW d \in deps[p], Exists(d)
            PROVE  status[d] = "completed"
        <4>1. <<p, d>> \in Edges
          BY <2>1, <2>2, <3>1 DEF Edges, Nodes
        <4> QED
          BY <3>1, <4>1
      <3>2. ASSUME \A d \in deps[p] : Exists(d) => status[d] = "completed",
                   NEW e \in Edges, e[1] = p
            PROVE  status[e[2]] = "completed"
        BY <3>2 DEF Edges, Nodes
      <3> QED
        BY <3>1, <3>2
    <2>5. IncompleteDependencies(p) = {}
            <=> \A d \in deps[p] : Exists(d) => status[d] = "completed"
      BY <2>2 DEF IncompleteDependencies
    <2> QED
      BY <2>1, <2>3, <2>4, <2>5 DEF Activatable, Nodes
  <1> QED
    BY <1>1, Invariance, PTL

\* While updates and deletes do not overlap, a dependency an active wave was allowed to
\* skip is among the unknown references the graph endpoint lists.
THEOREM SkippedSurfaced == Spec => []SkippedIsSurfaced
  <1>1. IndInv => SkippedIsSurfaced
    <2> SUFFICES ASSUME IndInv, ~overlapped, NEW p \in Nodes, status[p] = "active",
                        NEW d \in deps[p] \ completed
                 PROVE  <<p, d>> \in UnknownRefs
      BY DEF SkippedIsSurfaced
    <2>1. p \in Plans /\ d \in Plans
      BY DEF Nodes, IndInv, TypeOK
    <2>2. status[d] = "absent"
      BY <2>1 DEF IndInv, ActivationIsSafe, RowsAreUsed
    <2> QED
      BY <2>1, <2>2 DEF UnknownRefs, Exists
  <1> QED
    BY <1>1, Invariance, PTL

-----------------------------------------------------------------------------
(* WaveGraph: the loop of BuildGraph                                       *)

\* The edges of p to the plans that are not in D
Open(p, D) == {e \in Edges : e[1] = p /\ e[2] \notin D}

\* The plans that are not in D and depend on plans of D only
ReadyAfter(D) == {p \in Nodes \ D : Open(p, D) = {}}

\* Nodes, edges and dependents of the graph fit together.
LEMMA EdgeFacts ==
    ASSUME TypeOK
    PROVE  /\ Nodes \subseteq Nat /\ Nodes \subseteq Plans
           /\ \A d : Dependents(d) \subseteq Nodes
           /\ \A p, d \in Nodes : p \in Dependents(d) <=> <<p, d>> \in Edges
           /\ \A p, d \in Nodes : <<p, d>> \in Edges <=> p # d /\ d \in deps[p]
           /\ \A e \in Edges : e = <<e[1], e[2]>> /\ e[1] \in Nodes /\ e[2] \in Nodes
<1>1. Nodes \subseteq Plans /\ Nodes \subseteq Nat
  BY GraphAssumption DEF Nodes
<1>2. \A e \in Edges : e = <<e[1], e[2]>> /\ e[1] \in Nodes /\ e[2] \in Nodes
  BY DEF Edges
<1>3. \A p, d \in Nodes : <<p, d>> \in Edges <=> p # d /\ d \in deps[p]
  BY DEF Edges
<1>4. \A d : Dependents(d) \subseteq Nodes
  BY <1>2 DEF Dependents
<1>5. ASSUME NEW p \in Nodes, NEW d \in Nodes PROVE p \in Dependents(d) <=> <<p, d>> \in Edges
  <2>1. ASSUME p \in Dependents(d) PROVE <<p, d>> \in Edges
    <3>1. PICK e \in Edges : e[2] = d /\ p = e[1]
      BY <2>1 DEF Dependents
    <3>. QED  BY <3>1, <1>2
  <2>2. ASSUME <<p, d>> \in Edges PROVE p \in Dependents(d)
    <3>1. <<p, d>>[1] = p /\ <<p, d>>[2] = d
      OBVIOUS
    <3>. QED  BY <2>2, <3>1, Zenon DEF Dependents
  <2>. QED  BY <2>1, <2>2
<1>. QED  BY <1>1, <1>2, <1>3, <1>4, <1>5

\* The head of the sorted queue is its smallest plan_id.
LEMMA FirstIsLeast ==
    ASSUME NEW queue, queue \subseteq Nat, queue # {}
    PROVE  First(queue) \in queue /\ \A p \in queue : First(queue) <= p
<1>1. \E id \in queue : \A p \in queue : id <= p
  BY LeastNatural
<1>. QED  BY <1>1 DEF First

\* The states of the loop
KahnStates == [queue : SUBSET Nodes, degree : [Nodes -> Int], order : Seq(Nodes)]

\* What a turn of the loop leaves, while the queue is not empty.
LEMMA KahnRoundFields ==
    ASSUME TypeOK, NEW k \in KahnStates, k.queue # {}
    PROVE  LET id == First(k.queue)
               degree == [p \in Nodes |-> IF p \in Dependents(id) THEN k.degree[p] - 1 ELSE k.degree[p]]
           IN  KahnRound(k) = [queue |-> (k.queue \ {id}) \cup {p \in Dependents(id) : degree[p] = 0},
                               degree |-> degree, order |-> Append(k.order, id)]
BY Zenon DEF KahnRound

\* A turn of the loop leaves a queue of plans, their degrees and an order of plans.
LEMMA KahnRoundType ==
    ASSUME TypeOK, NEW k \in KahnStates
    PROVE  KahnRound(k) \in KahnStates
<1>1. CASE k.queue = {}
  BY <1>1 DEF KahnRound
<1>2. CASE k.queue # {}
  <2>. DEFINE id == First(k.queue)
              degree == [p \in Nodes |-> IF p \in Dependents(id) THEN k.degree[p] - 1 ELSE k.degree[p]]
              queue == (k.queue \ {id}) \cup {p \in Dependents(id) : degree[p] = 0}
  <2>1. k.queue \subseteq Nodes /\ k.degree \in [Nodes -> Int] /\ k.order \in Seq(Nodes)
    BY DEF KahnStates
  <2>2. id \in Nodes
    BY <1>2, <2>1, EdgeFacts, FirstIsLeast
  <2>3. KahnRound(k) = [queue |-> queue, degree |-> degree, order |-> Append(k.order, id)]
    BY <1>2, KahnRoundFields
  <2>. HIDE DEF id
  <2>4. degree \in [Nodes -> Int]
    BY <2>1
  <2>5. queue \subseteq Nodes
    BY <2>1, EdgeFacts
  <2>6. Append(k.order, id) \in Seq(Nodes)
    BY <2>1, <2>2
  <2>. HIDE DEF queue, degree
  <2>. QED  BY <2>3, <2>4, <2>5, <2>6 DEF KahnStates
<1>. QED  BY <1>1, <1>2

\* A plan of a finite graph has finitely many open edges.
LEMMA OpenIsFinite ==
    ASSUME TypeOK, IsFiniteSet(Nodes), NEW p, NEW D
    PROVE  IsFiniteSet(Open(p, D))
<1>1. IsFiniteSet(Nodes \X Nodes)
  BY FS_Product
<1>2. Open(p, D) \subseteq Nodes \X Nodes
  BY DEF Open, Edges
<1>. QED  BY <1>1, <1>2, FS_Subset

\* after holds the states of the loop.
KahnRun(after) ==
    after = [n \in 0 .. Cardinality(Nodes) |-> IF n = 0 THEN KahnStart ELSE KahnRound(after[n - 1])]

\* The loop starts with the plans that depend on nothing, and with every edge open.
LEMMA KahnStartType ==
    ASSUME TypeOK, IsFiniteSet(Nodes)
    PROVE  /\ KahnStart \in KahnStates
           /\ KahnStart.order = << >>
           /\ KahnStart.queue = ReadyAfter({})
           /\ \A p \in Nodes : KahnStart.degree[p] = Cardinality(Open(p, {}))
<1>1. \A p \in Nodes : InDegree[p] = Cardinality(Open(p, {}))
  BY DEF InDegree, Open
<1>2. \A p \in Nodes : IsFiniteSet(Open(p, {}))
  BY OpenIsFinite
<1>3. \A p \in Nodes : InDegree[p] \in Nat /\ (InDegree[p] = 0 <=> Open(p, {}) = {})
  BY <1>1, <1>2, FS_CardinalityType, FS_EmptySet
<1>4. InDegree \in [Nodes -> Int]
  BY <1>3 DEF InDegree
<1>5. {p \in Nodes : InDegree[p] = 0} = ReadyAfter({})
  BY <1>3 DEF ReadyAfter
<1>6. << >> \in Seq(Nodes)
  OBVIOUS
<1>7. /\ KahnStart.queue = {p \in Nodes : InDegree[p] = 0} /\ KahnStart.degree = InDegree
      /\ KahnStart.order = << >>
      /\ KahnStart = [queue |-> KahnStart.queue, degree |-> KahnStart.degree, order |-> KahnStart.order]
  BY DEF KahnStart
<1>8. KahnStart \in KahnStates
  BY <1>4, <1>6, <1>7 DEF KahnStates
<1>. QED  BY <1>1, <1>5, <1>7, <1>8

\* What the loop returns is the last of a run of its turns.
LEMMA KahnIsARun ==
    ASSUME TypeOK, IsFiniteSet(Nodes)
    PROVE  \E after \in [0 .. Cardinality(Nodes) -> KahnStates] :
              /\ after[0] = KahnStart
              /\ \A n \in 1 .. Cardinality(Nodes) : after[n] = KahnRound(after[n - 1])
              /\ Kahn = after[Cardinality(Nodes)]
<1>. DEFINE N == Cardinality(Nodes)
            step == [x \in KahnStates \X Nat |-> KahnRound(x[1])]
<1>1. N \in Nat
  BY FS_CardinalityType
<1>2. step \in [KahnStates \X Nat -> KahnStates]
  BY KahnRoundType
<1>3. ASSUME NEW k \in KahnStates, NEW n \in Nat PROVE step[<<k, n>>] = KahnRound(k)
  <2>1. <<k, n>> \in KahnStates \X Nat /\ <<k, n>>[1] = k
    OBVIOUS
  <2>. QED  BY <2>1, Zenon
<1>. HIDE DEF step, N
<1>4. PICK f : Iterates(f, step, KahnStart, N, KahnStates)
  BY <1>1, <1>2, KahnStartType, IteratesExist DEF Rounds
<1>5. /\ f \in [0 .. N -> KahnStates] /\ f[0] = KahnStart
      /\ \A n \in 1 .. N : f[n] = step[<<f[n - 1], n>>]
  BY <1>4 DEF Iterates
<1>. HIDE <1>4
<1>6. ASSUME NEW n \in 1 .. N PROVE f[n] = KahnRound(f[n - 1])
  <2>1. n - 1 \in 0 .. N /\ n \in Nat /\ f[n - 1] \in KahnStates
    BY <1>1, <1>5
  <2>. QED  BY <2>1, <1>3, <1>5
<1>7. KahnRun(f)
  <2>. DEFINE g == [n \in 0 .. N |-> IF n = 0 THEN KahnStart ELSE KahnRound(f[n - 1])]
  <2>1. \A n \in 0 .. N : f[n] = g[n]
    BY <1>1, <1>5, <1>6
  <2>2. f = g
    BY <2>1, <1>5
  <2>. QED  BY <2>2 DEF KahnRun, N
<1>. DEFINE G == CHOOSE h : KahnRun(h)
<1>8. KahnRun(G)
  BY <1>7
<1>9. Kahn = G[N]
  BY Zenon DEF Kahn, KahnRun, N
<1>. HIDE DEF G
<1>10. /\ DOMAIN G = 0 .. N
       /\ \A n \in 0 .. N : G[n] = IF n = 0 THEN KahnStart ELSE KahnRound(G[n - 1])
       /\ G = [n \in 0 .. N |-> G[n]]
  BY <1>8 DEF KahnRun, N
<1>11. \A n \in 1 .. N : G[n] = KahnRound(G[n - 1])
  <2>1. ASSUME NEW n \in 1 .. N PROVE G[n] = KahnRound(G[n - 1])
    <3>1. n \in 0 .. N /\ n # 0
      BY <1>1
    <3>2. G[n] = IF n = 0 THEN KahnStart ELSE KahnRound(G[n - 1])
      BY <3>1, <1>10, Zenon
    <3>. QED  BY <3>1, <3>2, Zenon
  <2>. QED  BY <2>1
<1>12. G[0] = KahnStart
  BY <1>1, <1>10
<1>13. \A n \in 0 .. N : G[n] \in KahnStates
  <2>. DEFINE T == {n \in 0 .. N : G[n] \in KahnStates}
  <2>1. 0 \in T
    BY <1>1, <1>12, KahnStartType
  <2>2. ASSUME NEW n \in 1 .. N, n - 1 \in T PROVE n \in T
    <3>1. n \in 0 .. N /\ G[n - 1] \in KahnStates
      BY <2>2, <1>1
    <3>. QED  BY <3>1, <1>11, KahnRoundType
  <2>. HIDE DEF T
  <2>3. 0 .. N \subseteq T
    BY <1>1, <2>1, <2>2, InductionUpTo
  <2>. QED  BY <2>3 DEF T
<1>14. G \in [0 .. N -> KahnStates]
  BY <1>10, <1>13
<1>. QED  BY <1>9, <1>11, <1>12, <1>14 DEF N

\* The plans before the i-th of an order
DoneBefore(order, i) == {order[j] : j \in 1 .. i - 1}

\* What the loop has established after n turns: the plans taken are closed under
\* dependencies, the queue is what can be taken next, the degrees count the open edges, and
\* every plan taken was the smallest of those that could be taken.
Sound(k, n) ==
    LET D == ToSet(k.order)
    IN  /\ Len(k.order) = n /\ D \subseteq Nodes /\ IsFiniteSet(D) /\ Cardinality(D) = n
        /\ \A p \in D : Open(p, D) = {}
        /\ k.queue = ReadyAfter(D)
        /\ \A p \in Nodes : k.degree[p] = Cardinality(Open(p, D))
        /\ \A i \in 1 .. n : /\ k.order[i] \in ReadyAfter(DoneBefore(k.order, i))
                             /\ \A q \in ReadyAfter(DoneBefore(k.order, i)) : k.order[i] <= q

\* While the dependencies are acyclic some plan can always be taken next.
LEMMA SomeReady ==
    ASSUME TypeOK, RowsAreUsed, DependenciesAreAcyclic, NEW D, Nodes \ D # {}
    PROVE  ReadyAfter(D) # {}
<1>1. Nodes \ D \in SUBSET used
  BY DEF Nodes, RowsAreUsed
<1>2. PICK p \in Nodes \ D : deps[p] \cap (Nodes \ D) = {}
  BY <1>1 DEF DependenciesAreAcyclic
<1>3. Open(p, D) = {}
  BY <1>2 DEF Open, Edges
<1>. QED  BY <1>2, <1>3 DEF ReadyAfter

\* Taking a plan closes one edge of each of its dependents and no other.
LEMMA OpenAfter ==
    ASSUME TypeOK, IsFiniteSet(Nodes), NEW D, NEW id \in Nodes, id \notin D, NEW p \in Nodes
    PROVE  /\ p \in Dependents(id) => /\ Cardinality(Open(p, D \cup {id})) = Cardinality(Open(p, D)) - 1
                                      /\ Open(p, D) # {}
           /\ p \notin Dependents(id) => Open(p, D \cup {id}) = Open(p, D)
           /\ Cardinality(Open(p, D)) \in Nat
<1>1. IsFiniteSet(Open(p, D))
  BY OpenIsFinite
<1>2. /\ p \in Dependents(id) <=> <<p, id>> \in Edges
      /\ \A e \in Edges : e = <<e[1], e[2]>>
  BY EdgeFacts
<1>3. Open(p, D \cup {id}) = Open(p, D) \ {<<p, id>>}
  BY <1>2 DEF Open
<1>4. <<p, id>> \in Open(p, D) <=> p \in Dependents(id)
  BY <1>2 DEF Open
<1>. DEFINE O == Open(p, D)
            e == <<p, id>>
<1>. HIDE DEF O, e
<1>5. IsFiniteSet(O) /\ Cardinality(O) \in Nat
  BY <1>1, FS_CardinalityType DEF O
<1>6. Cardinality(O \ {e}) = IF e \in O THEN Cardinality(O) - 1 ELSE Cardinality(O)
  BY <1>5, FS_RemoveElement
<1>7. Open(p, D \cup {id}) = O \ {e} /\ (e \in O <=> p \in Dependents(id))
  BY <1>3, <1>4 DEF O, e
<1>8. e \notin O => O \ {e} = O
  OBVIOUS
<1>. QED  BY <1>5, <1>6, <1>7, <1>8 DEF O

\* The loop starts sound.
LEMMA StartSound ==
    ASSUME TypeOK, IsFiniteSet(Nodes)
    PROVE  Sound(KahnStart, 0)
<1>1. ToSet(KahnStart.order) = {} /\ Len(KahnStart.order) = 0
  BY KahnStartType DEF ToSet
<1>2. IsFiniteSet({}) /\ Cardinality({}) = 0
  BY FS_EmptySet
<1>. QED  BY <1>1, <1>2, KahnStartType DEF Sound

\* A turn of the loop keeps it sound: it never releases a plan early and never strands one.
LEMMA RoundSound ==
    ASSUME TypeOK, RowsAreUsed, DependenciesAreAcyclic, IsFiniteSet(Nodes),
           NEW k \in KahnStates, NEW n \in Nat, n < Cardinality(Nodes), Sound(k, n)
    PROVE  Sound(KahnRound(k), n + 1)
<1>. DEFINE D == ToSet(k.order)
            id == First(k.queue)
            degree == [p \in Nodes |-> IF p \in Dependents(id) THEN k.degree[p] - 1 ELSE k.degree[p]]
            queue == (k.queue \ {id}) \cup {p \in Dependents(id) : degree[p] = 0}
            order == Append(k.order, id)
            E == D \cup {id}
<1>1. k.queue \subseteq Nodes /\ k.degree \in [Nodes -> Int] /\ k.order \in Seq(Nodes)
  BY DEF KahnStates
<1>2. /\ Len(k.order) = n /\ D \subseteq Nodes /\ IsFiniteSet(D) /\ Cardinality(D) = n
      /\ \A p \in D : Open(p, D) = {}
      /\ k.queue = ReadyAfter(D)
      /\ \A p \in Nodes : k.degree[p] = Cardinality(Open(p, D))
      /\ \A i \in 1 .. n : /\ k.order[i] \in ReadyAfter(DoneBefore(k.order, i))
                           /\ \A q \in ReadyAfter(DoneBefore(k.order, i)) : k.order[i] <= q
  BY DEF Sound
<1>3. Nodes \ D # {}
  BY <1>2
<1>4. k.queue # {}
  BY <1>2, <1>3, SomeReady
<1>5. id \in k.queue /\ (\A p \in k.queue : id <= p)
  BY <1>1, <1>4, EdgeFacts, FirstIsLeast
<1>6. id \in Nodes /\ id \notin D /\ Open(id, D) = {}
  BY <1>2, <1>5 DEF ReadyAfter
<1>7. /\ KahnRound(k).queue = queue /\ KahnRound(k).degree = degree /\ KahnRound(k).order = order
  BY <1>4, KahnRoundFields
<1>8. /\ Len(order) = n + 1 /\ order[n + 1] = id /\ \A i \in 1 .. n : order[i] = k.order[i]
  BY <1>1, <1>2, <1>6
<1>9. ToSet(order) = E
  <2>0. DOMAIN k.order = 1 .. n /\ DOMAIN order = 1 .. n + 1
    BY <1>1, <1>2, <1>6, <1>8
  <2>1. D = {k.order[i] : i \in 1 .. n} /\ ToSet(order) = {order[i] : i \in 1 .. n + 1}
    BY <2>0, Zenon DEF ToSet
  <2>. HIDE DEF D, order, id
  <2>. QED  BY <1>8, <2>1 DEF E
<1>. HIDE DEF D, id, order
<1>10. E \subseteq Nodes /\ IsFiniteSet(E) /\ Cardinality(E) = n + 1
  BY <1>2, <1>6, FS_AddElement
<1>11. \A p \in Nodes : degree[p] = Cardinality(Open(p, E)) /\ degree[p] \in Nat
                        /\ (degree[p] = 0 <=> Open(p, E) = {})
  <2>1. ASSUME NEW p \in Nodes PROVE degree[p] = Cardinality(Open(p, E))
    BY <1>2, <1>6, OpenAfter
  <2>2. \A p \in Nodes : IsFiniteSet(Open(p, E))
    BY OpenIsFinite
  <2>. HIDE DEF degree
  <2>. QED  BY <2>1, <2>2, FS_CardinalityType, FS_EmptySet
<1>. HIDE DEF degree
<1>12. \A p \in E : Open(p, E) = {}
  BY <1>2, <1>6 DEF Open
<1>13. queue = ReadyAfter(E)
  <2>1. ASSUME NEW p \in queue PROVE p \in ReadyAfter(E)
    <3>1. CASE p \in k.queue \ {id}
      BY <3>1, <1>2 DEF ReadyAfter, Open
    <3>2. CASE p \in Dependents(id) /\ degree[p] = 0
      <4>1. p \in Nodes /\ <<p, id>> \in Edges
        BY <3>2, <1>6, EdgeFacts
      <4>2. p # id
        BY <4>1, <1>6, EdgeFacts
      <4>3. Open(p, D) # {}
        BY <3>2, <4>1, <1>6, OpenAfter
      <4>4. p \notin D
        BY <4>3, <1>2
      <4>. QED  BY <3>2, <4>1, <4>2, <4>4, <1>11 DEF ReadyAfter
    <3>. QED  BY <3>1, <3>2
  <2>2. ASSUME NEW p \in ReadyAfter(E) PROVE p \in queue
    <3>1. p \in Nodes /\ p \notin D /\ p # id /\ Open(p, E) = {}
      BY DEF ReadyAfter
    <3>2. CASE p \in Dependents(id)
      BY <3>1, <3>2, <1>11
    <3>3. CASE p \notin Dependents(id)
      <4>1. Open(p, D) = {}
        BY <3>1, <3>3, <1>6, OpenAfter
      <4>. QED  BY <3>1, <4>1, <1>2 DEF ReadyAfter
    <3>. QED  BY <3>2, <3>3
  <2>. QED  BY <2>1, <2>2
<1>14. ASSUME NEW i \in 1 .. n + 1
       PROVE  /\ order[i] \in ReadyAfter(DoneBefore(order, i))
              /\ \A q \in ReadyAfter(DoneBefore(order, i)) : order[i] <= q
  <2>1. DoneBefore(order, i) = DoneBefore(k.order, i)
    BY <1>8 DEF DoneBefore
  <2>2. CASE i \in 1 .. n
    BY <2>1, <2>2, <1>2, <1>8
  <2>3. CASE i = n + 1
    <3>1. DoneBefore(k.order, i) = D
      BY <2>3, <1>1, <1>2 DEF DoneBefore, D, ToSet
    <3>. QED  BY <2>1, <2>3, <3>1, <1>2, <1>5, <1>8
  <2>. QED  BY <2>2, <2>3
<1>. HIDE DEF queue, E
<1>. QED  BY <1>7, <1>8, <1>9, <1>10, <1>11, <1>12, <1>13, <1>14 DEF Sound

\* The loop ends sound, with every plan taken.
LEMMA KahnSound ==
    ASSUME TypeOK, RowsAreUsed, DependenciesAreAcyclic, IsFiniteSet(Nodes)
    PROVE  Kahn \in KahnStates /\ Sound(Kahn, Cardinality(Nodes))
<1>. DEFINE N == Cardinality(Nodes)
<1>1. N \in Nat
  BY FS_CardinalityType
<1>2. PICK after \in [0 .. N -> KahnStates] :
        /\ after[0] = KahnStart
        /\ \A n \in 1 .. N : after[n] = KahnRound(after[n - 1])
        /\ Kahn = after[N]
  BY KahnIsARun
<1>. DEFINE T == {n \in 0 .. N : Sound(after[n], n)}
<1>3. 0 \in T
  BY <1>1, <1>2, StartSound
<1>4. ASSUME NEW n \in 1 .. N, n - 1 \in T PROVE n \in T
  <2>1. after[n - 1] \in KahnStates /\ Sound(after[n - 1], n - 1) /\ n - 1 \in Nat /\ n - 1 < N
    BY <1>1, <1>2, <1>4
  <2>2. Sound(KahnRound(after[n - 1]), (n - 1) + 1)
    BY <2>1, RoundSound
  <2>3. (n - 1) + 1 = n /\ n \in 0 .. N /\ after[n] = KahnRound(after[n - 1])
    BY <1>1, <1>2
  <2>. QED  BY <2>2, <2>3
<1>. HIDE DEF T, N
<1>5. 0 .. N \subseteq T
  BY <1>1, <1>3, <1>4, InductionUpTo
<1>6. N \in T /\ after[N] \in KahnStates
  BY <1>1, <1>2, <1>5
<1>. QED  BY <1>2, <1>6 DEF T, N

\* BuildGraph returns the order it promises.
LEMMA GraphOrdered ==
    ASSUME TypeOK, RowsAreUsed, DependenciesAreAcyclic, IsFiniteSet(Nodes)
    PROVE  GraphIsOrdered
<1>. DEFINE graph == BuildGraph
            n == Cardinality(Nodes)
            order == Kahn.order
            D == ToSet(order)
            Done(i) == {graph.order[j] : j \in 1 .. i - 1}
            Ready(i) == {p \in Nodes \ Done(i) : \A e \in Edges : e[1] = p => e[2] \in Done(i)}
<1>1. Sound(Kahn, n) /\ n \in Nat
  BY KahnSound, FS_CardinalityType
<1>2. /\ Len(order) = n /\ D \subseteq Nodes /\ IsFiniteSet(D) /\ Cardinality(D) = n
      /\ Kahn.queue = ReadyAfter(D)
      /\ \A i \in 1 .. n : /\ order[i] \in ReadyAfter(DoneBefore(order, i))
                           /\ \A q \in ReadyAfter(DoneBefore(order, i)) : order[i] <= q
  BY <1>1 DEF Sound
<1>3. D = Nodes
  BY <1>2, FS_Subset
<1>4. Kahn.queue = {}
  BY <1>2, <1>3 DEF ReadyAfter
<1>5. graph.order = order /\ graph.cyclic = {}
  BY <1>2 DEF BuildGraph
<1>. HIDE DEF graph, order
<1>6. \A i \in 1 .. n : ReadyAfter(DoneBefore(order, i)) = Ready(i)
  BY <1>5 DEF ReadyAfter, DoneBefore, Open
<1>7. \A i \in 1 .. n : graph.order[i] \in Ready(i) /\ \A q \in Ready(i) : graph.order[i] <= q
  BY <1>2, <1>5, <1>6
<1>8. Len(graph.order) = n /\ ToSet(graph.order) = Nodes
  BY <1>2, <1>3, <1>5
<1>. QED  BY <1>4, <1>5, <1>7, <1>8, Zenon DEF GraphIsOrdered, graph

\* Only finitely many plan_ids were ever given out.
LEMMA FinitelyManyPlans == Spec => []IsFiniteSet(used)
<1>1. Init => IsFiniteSet(used)
  BY FS_EmptySet DEF Init
<1>2. IsFiniteSet(used) /\ [Next]_vars => IsFiniteSet(used)'
  <2>. SUFFICES ASSUME IsFiniteSet(used), [Next]_vars PROVE IsFiniteSet(used')
    OBVIOUS
  <2>1. used' = used \/ \E p \in Plans : used' = used \cup {p}
    BY DEF Next, vars, Create, ReadForUpdate, ReadForDelete, WriteUpdate, WriteDelete
  <2>. QED  BY <2>1, FS_AddElement
<1>. QED  BY <1>1, <1>2, PTL DEF Spec

\* The graph that BuildGraph shows an operator is the one that UpdateStatus enforces: Kahn's
\* loop ends with an empty queue and no cycle, and its order lists every plan once, after
\* its dependencies and smallest plan_id first; what it calls activatable can be activated,
\* and what was skipped is surfaced.
THEOREM GraphSoundness == Spec => []GraphIsSound
<1>1. IndInv /\ IsFiniteSet(used) => GraphIsOrdered
  <2>. SUFFICES ASSUME IndInv, IsFiniteSet(used) PROVE GraphIsOrdered
    OBVIOUS
  <2>1. TypeOK /\ RowsAreUsed /\ DependenciesAreAcyclic
    BY DEF IndInv
  <2>2. Nodes \subseteq used
    BY <2>1 DEF RowsAreUsed, Nodes
  <2>3. IsFiniteSet(Nodes)
    BY <2>2, FS_Subset
  <2>. QED  BY <2>1, <2>3, GraphOrdered
<1>. QED  BY <1>1, Invariance, FinitelyManyPlans, Acyclicity, ActivatableHonesty, SkippedSurfaced, PTL
            DEF GraphIsSound
=============================================================================
