----------------------------- MODULE AuditChain -----------------------------
(***************************************************************************)
(* The tamper-evident audit log (store/store.go): requests append rows     *)
(* that are chained by their hashes, one at a time under an advisory lock; *)
(* VerifyAuditChain walks the rows; the retention purge deletes the oldest *)
(* ones.                                                                   *)
(*                                                                         *)
(* An entry is what a row says (log_id, user, action, details, time).      *)
(* auditEntryHash is taken to be injective: a hash is the sequence of the  *)
(* entries that went into it, <<>> being the empty string that a chain     *)
(* starts from.  Rows older than the chain (entry_hash = '') are read by   *)
(* none of these operations and are left out.                              *)
(***************************************************************************)
EXTENDS Naturals, Sequences

CONSTANTS
    Writers,        \* requests that may append at the same time
    Entries,        \* audit entries; each is appended at most once (log_id)
    None,           \* nobody holds the lock, no entry
    MaxPurges,      \* retention purges in a behaviour
    MaxFaults       \* appends that fail in a behaviour

ASSUME AuditAssumption ==
    /\ None \notin Writers /\ None \notin Entries
    /\ MaxPurges \in Nat /\ MaxFaults \in Nat

VARIABLES
    table,          \* audit_logs in the order of seq
    holder,         \* who holds the advisory lock
    pc,             \* where each InsertAuditLog is
    entry,          \* the entry it appends
    prev,           \* the hash it has read
    used,           \* the entries drawn so far
    purges, faults

vars == <<table, holder, pc, entry, prev, used, purges, faults>>

Hash == Seq(Entries)
Row  == [entry : Entries, prev : Hash, hash : Hash]

EntryHash(p, e) == Append(p, e)

Init ==
    /\ table = <<>> /\ holder = None
    /\ pc = [w \in Writers |-> "idle"]
    /\ entry = [w \in Writers |-> None]
    /\ prev = [w \in Writers |-> <<>>]
    /\ used = {} /\ purges = 0 /\ faults = 0

-----------------------------------------------------------------------------
(* InsertAuditLog, one step for each call to the database                  *)

Begin(w, e) ==
    /\ pc[w] = "idle" /\ e \notin used
    /\ pc' = [pc EXCEPT ![w] = "lock"]
    /\ entry' = [entry EXCEPT ![w] = e]
    /\ used' = used \cup {e}
    /\ UNCHANGED <<table, holder, prev, purges, faults>>

Lock_Shared(w) ==
    /\ pc[w] = "lock"
    /\ holder' = w
    /\ pc' = [pc EXCEPT ![w] = "read"]
    /\ UNCHANGED <<table, entry, prev, used, purges, faults>>

\* pg_advisory_xact_lock
Lock(w) ==
    /\ pc[w] = "lock" /\ holder = None
    /\ holder' = w
    /\ pc' = [pc EXCEPT ![w] = "read"]
    /\ UNCHANGED <<table, entry, prev, used, purges, faults>>

ReadPrev_Oldest(w) ==
    /\ pc[w] = "read"
    /\ prev' = [prev EXCEPT ![w] = IF table = <<>> THEN <<>> ELSE Head(table).hash]
    /\ pc' = [pc EXCEPT ![w] = "insert"]
    /\ UNCHANGED <<table, holder, entry, used, purges, faults>>

\* The hash of the row with the highest seq, or '' when there is no row
ReadPrev(w) ==
    /\ pc[w] = "read"
    /\ prev' = [prev EXCEPT ![w] = IF table = <<>> THEN <<>> ELSE table[Len(table)].hash]
    /\ pc' = [pc EXCEPT ![w] = "insert"]
    /\ UNCHANGED <<table, holder, entry, used, purges, faults>>

\* The insert and the commit, which shows the row and releases the lock
InsertRow(w) ==
    /\ pc[w] = "insert"
    /\ table' = Append(table, [entry |-> entry[w], prev |-> prev[w],
                               hash |-> EntryHash(prev[w], entry[w])])
    /\ holder' = None
    /\ pc' = [pc EXCEPT ![w] = "idle"]
    /\ UNCHANGED <<entry, prev, used, purges, faults>>

\* A call fails, or the controller stops: the deferred tx.Rollback, or the server's.
Rollback(w) ==
    /\ pc[w] # "idle"
    /\ faults < MaxFaults /\ faults' = faults + 1
    /\ holder' = IF holder = w THEN None ELSE holder
    /\ pc' = [pc EXCEPT ![w] = "idle"]
    /\ UNCHANGED <<table, entry, prev, used, purges>>

-----------------------------------------------------------------------------
\* PurgeOldTelemetry takes no lock.  created_at is drawn under the lock, so the rows
\* before the cutoff are the first ones.
PurgeOldTelemetry(n) ==
    /\ purges < MaxPurges /\ purges' = purges + 1
    /\ table' = SubSeq(table, n + 1, Len(table))
    /\ UNCHANGED <<holder, pc, entry, prev, used, faults>>

Verify_ContentOnly(t) == \A i \in 1 .. Len(t) : t[i].hash = EntryHash(t[i].prev, t[i].entry)

\* VerifyAuditChain: the walk that checks the link and the hash of every row
Verify(t) ==
    \A i \in 1 .. Len(t) :
        /\ t[i].prev = IF i = 1 THEN <<>> ELSE t[i - 1].hash
        /\ t[i].hash = EntryHash(t[i].prev, t[i].entry)

Next ==
    \/ \E w \in Writers :
         \/ \E e \in Entries : Begin(w, e)
         \/ Lock(w) \/ ReadPrev(w) \/ InsertRow(w) \/ Rollback(w)
    \/ \E n \in 1 .. Len(table) : PurgeOldTelemetry(n)

Spec == Init /\ [][Next]_vars

-----------------------------------------------------------------------------
(* Properties                                                              *)

\* Type invariant; the advisory lock is held exactly by the append that is between
\* its lock and its commit.
TypeOK ==
    /\ table \in Seq(Row)
    /\ holder \in Writers \cup {None}
    /\ pc \in [Writers -> {"idle", "lock", "read", "insert"}]
    /\ entry \in [Writers -> Entries \cup {None}]
    /\ prev \in [Writers -> Hash]
    /\ used \subseteq Entries
    /\ purges \in 0 .. MaxPurges /\ faults \in 0 .. MaxFaults
    /\ \A w \in Writers : holder = w <=> pc[w] \in {"read", "insert"}

\* However appends overlap and fail, the chain never forks: until retention removes a
\* row, VerifyAuditChain accepts the table.
UnpurgedChainVerifies == purges = 0 => Verify(table)

\* A purge that runs beside appends breaks no link but the one of the oldest row that
\* is left: the rest of the log stays one chain.  (That one link makes VerifyAuditChain
\* report tampering after every purge that leaves a row.)
LinksSurvivePurge ==
    \A i \in 2 .. Len(table) : table[i].prev = table[i - 1].hash

\* The alterations of one row of a table: its entry edited, the row deleted, copied to
\* another place, or swapped with another one.
Edited(t, i, e) == [t EXCEPT ![i].entry = e]
Deleted(t, i)   == SubSeq(t, 1, i - 1) \o SubSeq(t, i + 1, Len(t))
Copied(t, i, j) == SubSeq(t, 1, j) \o <<t[i]>> \o SubSeq(t, j + 1, Len(t))
Swapped(t, i, j) == [t EXCEPT ![i] = t[j], ![j] = t[i]]

\* Of "editing, deleting, inserting, or reordering any row breaks the chain" (SECURITY.md:124,
\* VerifyAuditChain) what the code keeps: a deletion is noticed only when a later row is
\* left.  Without the last rows the chain is intact, and nothing tells that it was longer.
AlterationIsDetected ==
    LET t == table
        I == 1 .. Len(t)
    IN  /\ \A i \in I, e \in Entries : e # t[i].entry => ~Verify(Edited(t, i, e))
        /\ \A i \in I : i < Len(t) => ~Verify(Deleted(t, i))
        /\ \A i \in I, j \in {0} \cup I : ~Verify(Copied(t, i, j))
        /\ \A i, j \in I : i # j => ~Verify(Swapped(t, i, j))
=============================================================================
