------------------------------ MODULE WavePlan ------------------------------
(***************************************************************************)
(* Migration wave plans: the planner (waveplan/planner.go) over the        *)
(* wave_plans table.  Every request reads the table once, checks what it   *)
(* read, and writes one row by its plan_id, without a transaction: between *)
(* the read and the write another request may write.                       *)
(*                                                                         *)
(* A plan is its status and the plans it depends on; the dates, budgets    *)
(* and texts, and the tenant, which only narrows what a request reads, are *)
(* left out.                                                               *)
(***************************************************************************)
EXTENDS Naturals, FiniteSets

CONSTANTS
    Plans,          \* plan_ids
    Reqs,           \* API requests that may be in progress at the same time
    None            \* no plan

Statuses == {"planned", "active", "completed", "cancelled"}

ASSUME WaveAssumption == None \notin Plans

VARIABLES
    status,         \* wave_plans.status, "absent" when there is no row
    deps,           \* wave_plans.depends_on
    used,           \* plan_ids already given out (uuids)
    req,            \* req[r]: what request r is about to write
    completed,      \* history: plans that were ever completed
    overlapped      \* history: has an update or a delete begun during another?

vars == <<status, deps, used, req, completed, overlapped>>

Idle   == [op |-> "idle", plan |-> None, to |-> "absent"]
Writes == [op : {"idle", "update", "delete"}, plan : Plans \cup {None},
           to : Statuses \cup {"absent"}]

Exists(p) == status[p] # "absent"

StartsWrite(r, w) ==
    /\ req' = [req EXCEPT ![r] = w]
    /\ overlapped' = (overlapped \/ \E q \in Reqs : req[q] # Idle)

Init ==
    /\ status = [p \in Plans |-> "absent"]
    /\ deps = [p \in Plans |-> {}]
    /\ used = {}
    /\ req = [r \in Reqs |-> Idle]
    /\ completed = {}
    /\ overlapped = FALSE

-----------------------------------------------------------------------------
\* Create: the dependencies must exist when they are looked up.  That another
\* request deletes one before the insert makes the same table as deleting it right
\* after, so the look-up and the insert are one step.
Create(r, p, D) ==
    /\ req[r] = Idle /\ p \notin used
    /\ \A d \in D : Exists(d)
    /\ status' = [status EXCEPT ![p] = "planned"]
    /\ deps' = [deps EXCEPT ![p] = D]
    /\ used' = used \cup {p}
    /\ UNCHANGED <<req, completed, overlapped>>

\* checkTransition
Allowed(from, to) ==
    to \in CASE from = "planned" -> {"active", "cancelled"}
             [] from = "active"  -> {"completed", "cancelled"}
             [] OTHER            -> {}

IncompleteDependencies_None(p) == {}

\* incompleteDependencies: a dependency that has no row is no blocker.
IncompleteDependencies(p) ==
    {d \in deps[p] \ {p} : Exists(d) /\ status[d] # "completed"}

\* UpdateStatus, up to the checks on the plans it read ...
ReadForUpdate(r, p, to) ==
    /\ req[r] = Idle /\ Exists(p)
    /\ Allowed(status[p], to)
    /\ to = "active" => IncompleteDependencies(p) = {}
    /\ StartsWrite(r, [op |-> "update", plan |-> p, to |-> to])
    /\ UNCHANGED <<status, deps, used, completed>>

\* ... and UpdateWavePlan: the row is overwritten whatever it holds by now; a row
\* that is gone stays gone.
WriteUpdate(r) ==
    /\ req[r].op = "update"
    /\ status' = IF Exists(req[r].plan)
                   THEN [status EXCEPT ![req[r].plan] = req[r].to] ELSE status
    /\ completed' = completed \cup {p \in Plans : status'[p] = "completed"}
    /\ req' = [req EXCEPT ![r] = Idle]
    /\ UNCHANGED <<deps, used, overlapped>>

ReadForDelete_AnyStatus(r, p) ==
    /\ req[r] = Idle /\ Exists(p)
    /\ StartsWrite(r, [op |-> "delete", plan |-> p, to |-> "absent"])
    /\ UNCHANGED <<status, deps, used, completed>>

\* Delete, up to the check of the status it read ...
ReadForDelete(r, p) ==
    /\ req[r] = Idle /\ Exists(p)
    /\ status[p] \notin {"active", "completed"}
    /\ StartsWrite(r, [op |-> "delete", plan |-> p, to |-> "absent"])
    /\ UNCHANGED <<status, deps, used, completed>>

\* ... and DeleteWavePlan.
WriteDelete(r) ==
    /\ req[r].op = "delete"
    /\ status' = [status EXCEPT ![req[r].plan] = "absent"]
    /\ req' = [req EXCEPT ![r] = Idle]
    /\ UNCHANGED <<deps, used, completed, overlapped>>

-----------------------------------------------------------------------------
Next ==
    \E r \in Reqs :
        \/ \E p \in Plans :
             \/ \E D \in SUBSET Plans : Create(r, p, D)
             \/ \E to \in Statuses : ReadForUpdate(r, p, to)
             \/ ReadForDelete(r, p)
        \/ WriteUpdate(r) \/ WriteDelete(r)

Spec == Init /\ [][Next]_vars

-----------------------------------------------------------------------------
(* The graph endpoint: what BuildGraph reads off the table (graph.go)      *)

Nodes == {p \in Plans : Exists(p)}

\* Self-references and references to plans that have no row are no edges; the latter
\* are listed.
Edges == {e \in Nodes \X Nodes : e[1] # e[2] /\ e[2] \in deps[e[1]]}

UnknownRefs == {e \in Nodes \X Plans : e[2] \in deps[e[1]] /\ ~Exists(e[2])}

Activatable(p) ==
    /\ status[p] = "planned"
    /\ \A e \in Edges : e[1] = p => status[e[2]] = "completed"

-----------------------------------------------------------------------------
(* Properties                                                              *)

\* Type invariant of the table and of the requests in progress.
TypeOK ==
    /\ status \in [Plans -> Statuses \cup {"absent"}]
    /\ deps \in [Plans -> SUBSET Plans]
    /\ used \subseteq Plans
    /\ req \in [Reqs -> Writes]
    /\ completed \subseteq Plans
    /\ overlapped \in BOOLEAN

\* However requests interleave, the plans depend on each other without a cycle: among
\* any plans given out there is one that depends on none of them, not even on itself.
\* Create only accepts plans that exist, and depends_on never changes.
DependenciesAreAcyclic ==
    \A S \in SUBSET used : S # {} => \E p \in S : deps[p] \cap S = {}

\* While updates and deletes do not overlap, a wave that is active or completed has every
\* dependency that is still in the table completed, and keeps it so (UpdateStatus,
\* Delete): no dependency is cancelled or deleted under it.
ActivationIsSafe ==
    ~overlapped =>
        \A p \in Plans : status[p] \in {"active", "completed"} =>
            \A d \in deps[p] : status[d] \in {"completed", "absent"}

\* docs/GUIDE.md:622: "a completed wave is a permanent, undeletable audit record".
CompletedIsPermanent == \A p \in completed : status[p] = "completed"

\* That claim holds while updates and deletes do not overlap.
CompletedIsKept == ~overlapped => CompletedIsPermanent

\* The graph endpoint calls a wave activatable exactly when UpdateStatus would let it
\* become active, and never one that depends on another activatable wave.
ActivatableIsHonest ==
    \A p \in Nodes :
        /\ Activatable(p) <=> Allowed(status[p], "active") /\ IncompleteDependencies(p) = {}
        /\ Activatable(p) => \A d \in deps[p] \cap Nodes : ~Activatable(d)

\* planner.go:118: references to unknown plans are ignored by UpdateStatus and "surfaced
\* by the graph endpoint instead": a wave that is active although a wave it depends on
\* was never completed has an unknown reference to it.
SkippedIsSurfaced ==
    ~overlapped =>
        \A p \in Nodes : status[p] = "active" =>
            \A d \in deps[p] \ completed : <<p, d>> \in UnknownRefs
=============================================================================
