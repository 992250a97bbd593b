-------------------------- MODULE AuditChainProofs --------------------------
(***************************************************************************)
(* Proofs that the audit log is one chain, for any number of requests,     *)
(* entries, purges and failures.                                           *)
(***************************************************************************)
EXTENDS AuditChain, TLAPS

\* Every row carries its own hash
HashesMatch ==
    \A i \in 1 .. Len(table) : table[i].hash = EntryHash(table[i].prev, table[i].entry)

\* Until a row is purged the oldest row starts the chain
StartsEmpty == purges = 0 /\ table # <<>> => table[1].prev = <<>>

\* What an append has read is still the end of the chain when it inserts: the lock
\* keeps other appends out, and a purge that removes the end removes every row.
PrevIsLast ==
    \A w \in Writers : pc[w] = "insert" =>
        /\ table # <<>> => prev[w] = table[Len(table)].hash
        /\ table = <<>> /\ purges = 0 => prev[w] = <<>>

\* An append that has begun has its entry
HasEntry == \A w \in Writers : pc[w] # "idle" => entry[w] \in Entries

\* The hash of a row covers one entry more than the hash of the row before it, so that
\* its length tells the rows apart.
HashLengths ==
    \A i, j \in 1 .. Len(table) : Len(table[j].hash) + i = Len(table[i].hash) + j

IndInv ==
    /\ TypeOK /\ HasEntry
    /\ HashesMatch /\ LinksSurvivePurge /\ StartsEmpty /\ PrevIsLast /\ HashLengths

\* The empty log is a chain.
LEMMA InitInv == Init => IndInv
  BY AuditAssumption DEF Init, IndInv, TypeOK, HasEntry, HashesMatch,
     LinksSurvivePurge, StartsEmpty, PrevIsLast, HashLengths, Hash, Row

\* Appending a row with the hash of the last one extends the chain.
LEMMA InsertInv ==
    ASSUME IndInv, NEW w \in Writers, InsertRow(w)
    PROVE  IndInv'
<1> DEFINE r == [entry |-> entry[w], prev |-> prev[w],
                 hash |-> EntryHash(prev[w], entry[w])]
<1>1. r \in Row
  BY DEF IndInv, TypeOK, HasEntry, InsertRow, Row, Hash, EntryHash
<1>2. /\ table' = Append(table, r) /\ table \in Seq(Row)
      /\ purges' = purges /\ holder' = None /\ pc' = [pc EXCEPT ![w] = "idle"]
      /\ entry' = entry /\ prev' = prev
  BY DEF IndInv, TypeOK, InsertRow
<1> HIDE DEF r
<1>3. /\ Len(table') = Len(table) + 1 /\ table' \in Seq(Row)
      /\ \A i \in 1 .. Len(table) : table'[i] = table[i]
      /\ table'[Len(table) + 1] = r
      /\ Len(table) \in Nat
      /\ table' # <<>>
  BY <1>1, <1>2
<1>4. TypeOK'
  BY <1>2, <1>3, AuditAssumption DEF IndInv, TypeOK, InsertRow
<1>5. HasEntry'
  BY <1>2 DEF IndInv, HasEntry, TypeOK
<1>6. HashesMatch'
  <2> SUFFICES ASSUME NEW i \in 1 .. Len(table')
               PROVE  table'[i].hash = EntryHash(table'[i].prev, table'[i].entry)
    BY DEF HashesMatch
  <2>1. CASE i = Len(table) + 1
    BY <2>1, <1>3 DEF r
  <2>2. CASE i \in 1 .. Len(table)
    BY <2>2, <1>3 DEF IndInv, HashesMatch
  <2> QED
    BY <2>1, <2>2, <1>3
<1>7. r.prev = prev[w] /\ pc[w] = "insert"
  BY DEF r, InsertRow
<1>8. LinksSurvivePurge'
  <2> SUFFICES ASSUME NEW i \in 2 .. Len(table')
               PROVE  table'[i].prev = table'[i - 1].hash
    BY DEF LinksSurvivePurge
  <2>1. CASE i = Len(table) + 1
    BY <2>1, <1>3, <1>7 DEF IndInv, PrevIsLast
  <2>2. CASE i \in 2 .. Len(table)
    BY <2>2, <1>3 DEF IndInv, LinksSurvivePurge
  <2> QED
    BY <2>1, <2>2, <1>3
<1>9. StartsEmpty'
  <2>1. CASE table = <<>>
    BY <2>1, <1>2, <1>3, <1>7 DEF IndInv, PrevIsLast, StartsEmpty
  <2>2. CASE table # <<>>
    BY <2>2, <1>2, <1>3 DEF IndInv, StartsEmpty
  <2> QED
    BY <2>1, <2>2
<1>10. PrevIsLast'
  <2>1. \A v \in Writers : pc'[v] # "insert"
    BY <1>2, <1>7 DEF IndInv, TypeOK
  <2> QED
    BY <2>1 DEF PrevIsLast
<1>11. HashLengths'
  <2>1. r.hash = Append(prev[w], entry[w]) /\ prev[w] \in Seq(Entries) /\ entry[w] \in Entries
    BY <1>7 DEF r, EntryHash, IndInv, TypeOK, HasEntry, Hash
  <2>2. Len(r.hash) = Len(prev[w]) + 1 /\ Len(prev[w]) \in Nat
    BY <2>1
  <2>3. \A i \in 1 .. Len(table) : Len(table[i].hash) \in Nat
    <3>1. \A i \in 1 .. Len(table) : table[i] \in Row
      BY <1>2
    <3>2. \A i \in 1 .. Len(table) : table[i].hash \in Seq(Entries)
      BY <3>1 DEF Row, Hash
    <3> QED
      BY <3>2
  <2>4. ASSUME NEW i \in 1 .. Len(table)
        PROVE  Len(r.hash) + i = Len(table[i].hash) + (Len(table) + 1)
    <3>1. table # <<>> /\ Len(table) \in 1 .. Len(table)
      BY <1>2
    <3>2. prev[w] = table[Len(table)].hash
      BY <1>7, <3>1 DEF IndInv, PrevIsLast
    <3>3. Len(table[Len(table)].hash) + i = Len(table[i].hash) + Len(table)
      BY <3>1 DEF IndInv, HashLengths
    <3> DEFINE a == Len(table[Len(table)].hash)
               b == Len(table[i].hash)
               c == Len(r.hash)
               m == Len(table)
    <3>4. a \in Nat /\ b \in Nat /\ m \in Nat /\ c = a + 1 /\ a + i = b + m
      BY <1>3, <2>2, <2>3, <3>1, <3>2, <3>3
    <3> HIDE DEF a, b, c, m
    <3>5. c + i = b + (m + 1)
      BY <3>4
    <3> QED
      BY <3>5 DEF b, c, m
  <2> SUFFICES ASSUME NEW i \in 1 .. Len(table'), NEW j \in 1 .. Len(table')
               PROVE  Len(table'[j].hash) + i = Len(table'[i].hash) + j
    BY DEF HashLengths
  <2>5. CASE i \in 1 .. Len(table) /\ j \in 1 .. Len(table)
    BY <1>3, <2>5 DEF IndInv, HashLengths
  <2>6. CASE i \in 1 .. Len(table) /\ j = Len(table) + 1
    BY <1>3, <2>4, <2>6
  <2>7. CASE i = Len(table) + 1 /\ j \in 1 .. Len(table)
    BY <1>3, <2>4, <2>7
  <2>8. CASE i = Len(table) + 1 /\ j = Len(table) + 1
    BY <2>8
  <2> QED
    BY <1>3, <2>5, <2>6, <2>7, <2>8
<1> QED
  BY <1>4, <1>5, <1>6, <1>8, <1>9, <1>10, <1>11 DEF IndInv

\* A purge of the oldest rows leaves the links and the end of the chain.
LEMMA PurgeInv ==
    ASSUME IndInv, NEW n \in 1 .. Len(table), PurgeOldTelemetry(n)
    PROVE  IndInv'
<1>1. /\ table \in Seq(Row) /\ table' = SubSeq(table, n + 1, Len(table))
      /\ purges' = purges + 1 /\ purges \in Nat /\ purges < MaxPurges
      /\ UNCHANGED <<holder, pc, entry, prev, used, faults>>
  BY AuditAssumption DEF IndInv, TypeOK, PurgeOldTelemetry
<1>2. /\ Len(table) \in Nat /\ Len(table') = Len(table) - n
      /\ \A i \in 1 .. Len(table') : table'[i] = table[n + i]
      /\ table' \in Seq(Row)
  BY <1>1
<1>3. TypeOK' /\ HasEntry'
  BY <1>1, <1>2, AuditAssumption DEF IndInv, TypeOK, HasEntry
<1>4. HashesMatch'
  <2> SUFFICES ASSUME NEW i \in 1 .. Len(table')
               PROVE  table'[i].hash = EntryHash(table'[i].prev, table'[i].entry)
    BY DEF HashesMatch
  <2>1. table'[i] = table[n + i] /\ n + i \in 1 .. Len(table)
    BY <1>2
  <2> QED
    BY <2>1 DEF IndInv, HashesMatch
<1>5. LinksSurvivePurge'
  <2> SUFFICES ASSUME NEW i \in 2 .. Len(table')
               PROVE  table'[i].prev = table'[i - 1].hash
    BY DEF LinksSurvivePurge
  <2>1. /\ i \in 1 .. Len(table') /\ i - 1 \in 1 .. Len(table')
        /\ n + i \in 2 .. Len(table) /\ n + (i - 1) = (n + i) - 1
    BY <1>2
  <2>2. table'[i] = table[n + i] /\ table'[i - 1] = table[(n + i) - 1]
    BY <1>2, <2>1
  <2> QED
    BY <2>1, <2>2 DEF IndInv, LinksSurvivePurge
<1>6. purges' # 0
  BY <1>1
<1>7. StartsEmpty'
  BY <1>6 DEF StartsEmpty
<1>8. PrevIsLast'
  <2> SUFFICES ASSUME NEW w \in Writers, pc'[w] = "insert", table' # <<>>
               PROVE  prev'[w] = table'[Len(table')].hash
    BY <1>6 DEF PrevIsLast
  <2>1. Len(table') \in 1 .. Len(table')
    BY <1>2
  <2>2. table'[Len(table')] = table[Len(table)]
    BY <1>2, <2>1
  <2>3. table # <<>>
    BY <1>2, <2>1
  <2> QED
    BY <1>1, <2>2, <2>3 DEF IndInv, PrevIsLast
<1>9. HashLengths'
  <2> SUFFICES ASSUME NEW i \in 1 .. Len(table'), NEW j \in 1 .. Len(table')
               PROVE  Len(table'[j].hash) + i = Len(table'[i].hash) + j
    BY DEF HashLengths
  <2>1. n + i \in 1 .. Len(table) /\ n + j \in 1 .. Len(table)
    BY <1>2
  <2>2. table'[i] = table[n + i] /\ table'[j] = table[n + j]
    BY <1>2
  <2>3. Len(table[n + j].hash) + (n + i) = Len(table[n + i].hash) + (n + j)
    BY <2>1 DEF IndInv, HashLengths
  <2>4. table[n + i].hash \in Seq(Entries) /\ table[n + j].hash \in Seq(Entries)
    <3>1. table[n + i] \in Row /\ table[n + j] \in Row
      BY <1>1, <2>1
    <3> QED
      BY <3>1 DEF Row, Hash
  <2>5. Len(table[n + i].hash) \in Nat /\ Len(table[n + j].hash) \in Nat
    BY <2>4
  <2>6. Len(table[n + j].hash) + i = Len(table[n + i].hash) + j
    <3> DEFINE a == Len(table[n + i].hash)
               b == Len(table[n + j].hash)
    <3>1. a \in Nat /\ b \in Nat /\ b + (n + i) = a + (n + j)
      BY <2>3, <2>5, Zenon
    <3> HIDE DEF a, b
    <3>3. n \in Nat /\ i \in Nat /\ j \in Nat
      BY <1>2
    <3>2. b + i = a + j
      BY <3>1, <3>3
    <3> QED
      BY <3>2 DEF a, b
  <2> QED
    BY <2>2, <2>6
<1> QED
  BY <1>3, <1>4, <1>5, <1>7, <1>8, <1>9 DEF IndInv

\* The steps that leave the table alone.
LEMMA QuietInv ==
    ASSUME IndInv, NEW w \in Writers,
           \/ \E e \in Entries : Begin(w, e)
           \/ Lock(w) \/ ReadPrev(w) \/ Rollback(w)
    PROVE  IndInv'
<1>1. table' = table /\ purges' = purges
  BY DEF Begin, Lock, ReadPrev, Rollback
<1>2. HashesMatch' /\ LinksSurvivePurge' /\ StartsEmpty' /\ HashLengths'
  BY <1>1 DEF IndInv, HashesMatch, LinksSurvivePurge, StartsEmpty, HashLengths
<1>3. CASE \E e \in Entries : Begin(w, e)
  BY <1>1, <1>2, <1>3, AuditAssumption
  DEF IndInv, TypeOK, HasEntry, PrevIsLast, Begin
<1>4. CASE Lock(w)
  BY <1>1, <1>2, <1>4, AuditAssumption
  DEF IndInv, TypeOK, HasEntry, PrevIsLast, Lock
<1>5. CASE ReadPrev(w)
  <2>1. /\ pc[w] = "read" /\ pc' = [pc EXCEPT ![w] = "insert"]
        /\ prev' = [prev EXCEPT ![w] = IF table = <<>> THEN <<>> ELSE table[Len(table)].hash]
        /\ UNCHANGED <<table, holder, entry, used, purges, faults>>
    BY <1>5 DEF ReadPrev
  <2>2. prev' \in [Writers -> Hash]
    <3>1. table # <<>> => table[Len(table)] \in Row
      BY DEF IndInv, TypeOK
    <3>2. <<>> \in Hash
      BY DEF Hash
    <3> QED
      BY <2>1, <3>1, <3>2 DEF IndInv, TypeOK, Row
  <2>3. TypeOK' /\ HasEntry'
    BY <2>1, <2>2, AuditAssumption DEF IndInv, TypeOK, HasEntry
  <2>4. PrevIsLast'
    BY <2>1 DEF IndInv, TypeOK, PrevIsLast
  <2> QED
    BY <1>2, <2>3, <2>4 DEF IndInv
<1>6. CASE Rollback(w)
  BY <1>1, <1>2, <1>6, AuditAssumption
  DEF IndInv, TypeOK, HasEntry, PrevIsLast, Rollback
<1> QED
  BY <1>3, <1>4, <1>5, <1>6

\* Every step preserves the inductive invariant.
LEMMA NextInv == IndInv /\ [Next]_vars => IndInv'
<1> SUFFICES ASSUME IndInv, [Next]_vars PROVE IndInv'
  OBVIOUS
<1>1. CASE \E w \in Writers : InsertRow(w)
  BY <1>1, InsertInv
<1>2. CASE \E n \in 1 .. Len(table) : PurgeOldTelemetry(n)
  BY <1>2, PurgeInv
<1>3. CASE \E w \in Writers : \/ \E e \in Entries : Begin(w, e)
                              \/ Lock(w) \/ ReadPrev(w) \/ Rollback(w)
  BY <1>3, QuietInv
<1>4. CASE UNCHANGED vars
  BY <1>4 DEF vars, IndInv, TypeOK, HasEntry, HashesMatch, LinksSurvivePurge,
     StartsEmpty, PrevIsLast, HashLengths
<1> QED
  BY <1>1, <1>2, <1>3, <1>4 DEF Next

\* Every reachable log satisfies the invariant.
LEMMA Invariance == Spec => []IndInv
  BY InitInv, NextInv, PTL DEF Spec

-----------------------------------------------------------------------------
\* The advisory lock serialises the appends, for any number of requests.
THEOREM TypeCorrect == Spec => []TypeOK
<1>1. IndInv => TypeOK
  BY DEF IndInv
<1> QED
  BY <1>1, Invariance, PTL

\* Concurrent and failing calls of InsertAuditLog never fork the chain: as long as
\* retention has removed nothing, VerifyAuditChain accepts the table.
THEOREM ChainNeverForks == Spec => []UnpurgedChainVerifies
<1>1. IndInv => UnpurgedChainVerifies
  <2> SUFFICES ASSUME IndInv, purges = 0, NEW i \in 1 .. Len(table)
               PROVE  /\ table[i].prev = IF i = 1 THEN <<>> ELSE table[i - 1].hash
                      /\ table[i].hash = EntryHash(table[i].prev, table[i].entry)
    BY DEF UnpurgedChainVerifies, Verify
  <2>1. table \in Seq(Row) /\ table # <<>>
    BY DEF IndInv, TypeOK
  <2>2. CASE i = 1
    BY <2>1, <2>2 DEF IndInv, HashesMatch, StartsEmpty
  <2>3. CASE i # 1
    <3>1. i \in 2 .. Len(table)
      BY <2>1, <2>3
    <3> QED
      BY <2>3, <3>1 DEF IndInv, HashesMatch, LinksSurvivePurge
  <2> QED
    BY <2>2, <2>3
<1> QED
  BY <1>1, Invariance, PTL

\* PurgeOldTelemetry beside any appends breaks no link between two rows it leaves.
THEOREM PurgeKeepsLinks == Spec => []LinksSurvivePurge
<1>1. IndInv => LinksSurvivePurge
  BY DEF IndInv
<1> QED
  BY <1>1, Invariance, PTL

-----------------------------------------------------------------------------
(* What VerifyAuditChain notices                                           *)

\* The elements of a concatenation.
LEMMA ConcatAt ==
    ASSUME NEW S, NEW x \in Seq(S), NEW y \in Seq(S)
    PROVE  /\ Len(x \o y) = Len(x) + Len(y)
           /\ \A k \in 1 .. Len(x) : (x \o y)[k] = x[k]
           /\ \A k \in 1 .. Len(y) : (x \o y)[Len(x) + k] = y[k]
  OBVIOUS

\* The hashes of the rows, their lengths and their links.
LEMMA RowFacts ==
    ASSUME IndInv
    PROVE  /\ table \in Seq(Row) /\ Len(table) \in Nat
           /\ \A i \in 1 .. Len(table) :
                /\ table[i] \in Row
                /\ Len(table[i].prev) \in Nat /\ Len(table[i].hash) = Len(table[i].prev) + 1
                /\ table[i].hash = Append(table[i].prev, table[i].entry)
<1>1. table \in Seq(Row)
  BY DEF IndInv, TypeOK
<1>2. ASSUME NEW i \in 1 .. Len(table)
      PROVE  /\ table[i] \in Row
             /\ Len(table[i].prev) \in Nat /\ Len(table[i].hash) = Len(table[i].prev) + 1
             /\ table[i].hash = Append(table[i].prev, table[i].entry)
  <2>1. table[i] \in Row
    BY <1>1
  <2>2. table[i].prev \in Seq(Entries) /\ table[i].entry \in Entries
    BY <2>1 DEF Row, Hash
  <2>3. table[i].hash = Append(table[i].prev, table[i].entry)
    BY DEF IndInv, HashesMatch, EntryHash
  <2> QED
    BY <2>1, <2>2, <2>3
<1> QED
  BY <1>1, <1>2

\* A row whose entry was edited no longer has its own hash.
LEMMA EditIsDetected ==
    ASSUME IndInv, NEW i \in 1 .. Len(table), NEW e \in Entries, e # table[i].entry
    PROVE  ~Verify(Edited(table, i, e))
<1> DEFINE u == Edited(table, i, e)
<1>1. /\ table \in Seq(Row) /\ table[i] \in Row
      /\ table[i].hash = Append(table[i].prev, table[i].entry)
  BY RowFacts
<1>2. Len(u) = Len(table) /\ u[i] = [table[i] EXCEPT !.entry = e]
  BY <1>1 DEF Edited
<1>3. u[i].hash = table[i].hash /\ u[i].prev = table[i].prev /\ u[i].entry = e
  BY <1>1, <1>2 DEF Row
<1>4. Append(table[i].prev, table[i].entry) # Append(table[i].prev, e)
  <2>1. table[i].prev \in Seq(Entries) /\ table[i].entry \in Entries
    BY <1>1 DEF Row, Hash
  <2> DEFINE p == table[i].prev
  <2>2. Append(p, table[i].entry)[Len(p) + 1] = table[i].entry /\ Append(p, e)[Len(p) + 1] = e
    BY <2>1
  <2> QED
    BY <2>2
<1> QED
  BY <1>1, <1>2, <1>3, <1>4 DEF Verify, EntryHash

\* The row after a deleted one has lost its predecessor.
LEMMA DeletionIsDetected ==
    ASSUME IndInv, NEW i \in 1 .. Len(table), i < Len(table)
    PROVE  ~Verify(Deleted(table, i))
<1> DEFINE p == SubSeq(table, 1, i - 1)
           q == SubSeq(table, i + 1, Len(table))
           u == Deleted(table, i)
<1>1. table \in Seq(Row) /\ Len(table) \in Nat
  BY RowFacts
<1>2. /\ p \in Seq(Row) /\ Len(p) = i - 1 /\ \A k \in 1 .. i - 1 : p[k] = table[k]
      /\ q \in Seq(Row) /\ Len(q) = Len(table) - i
      /\ \A k \in 1 .. Len(table) - i : q[k] = table[i + k]
  BY <1>1
<1>3. u = p \o q
  BY DEF Deleted
<1> HIDE DEF p, q, u
<1>4. /\ Len(u) = Len(table) - 1
      /\ u[i] = table[i + 1]
      /\ i > 1 => u[i - 1] = table[i - 1]
  <2>1. /\ Len(u) = (i - 1) + (Len(table) - i)
        /\ \A k \in 1 .. i - 1 : u[k] = p[k]
        /\ \A k \in 1 .. Len(table) - i : u[(i - 1) + k] = q[k]
    <3>1. /\ Len(p \o q) = Len(p) + Len(q)
          /\ \A k \in 1 .. Len(p) : (p \o q)[k] = p[k]
          /\ \A k \in 1 .. Len(q) : (p \o q)[Len(p) + k] = q[k]
      <4>1. p \in Seq(Row) /\ q \in Seq(Row)
        BY <1>2
      <4> QED
        BY <4>1, ConcatAt
    <3> QED
      BY <1>2, <1>3, <3>1
  <2>2. 1 \in 1 .. Len(table) - i /\ (i - 1) + 1 = i /\ (i > 1 => i - 1 \in 1 .. i - 1)
    BY <1>1
  <2>3. u[i] = q[1] /\ q[1] = table[i + 1]
    BY <1>2, <2>1, <2>2
  <2> QED
    <3>1. i > 1 => u[i - 1] = table[i - 1]
      BY <1>2, <2>1, <2>2
    <3>2. Len(u) = Len(table) - 1
      BY <1>1, <2>1
    <3> QED
      BY <2>3, <3>1, <3>2
<1>5. /\ i + 1 \in 2 .. Len(table) /\ i + 1 \in 1 .. Len(table)
      /\ i > 1 => i \in 2 .. Len(table)
  BY <1>1
<1>6. table[i + 1].prev = table[i].hash /\ (i > 1 => table[i].prev = table[i - 1].hash)
  BY <1>1, <1>5 DEF IndInv, LinksSurvivePurge
<1>7. Len(table[i].hash) = Len(table[i].prev) + 1 /\ Len(table[i].prev) \in Nat
  BY RowFacts
<1>8. u[i].prev # IF i = 1 THEN <<>> ELSE u[i - 1].hash
  <2>1. CASE i = 1
    BY <1>4, <1>6, <1>7, <2>1
  <2>2. CASE i > 1
    BY <1>4, <1>6, <1>7, <2>2
  <2> QED
    BY <2>1, <2>2
<1>9. i \in 1 .. Len(u)
  BY <1>1, <1>4
<1>10. ~Verify(u)
  BY <1>8, <1>9 DEF Verify
<1> QED
  BY <1>10 DEF u

\* A copied row does not fit between the rows of the place it is copied to.
LEMMA CopyIsDetected ==
    ASSUME IndInv, NEW i \in 1 .. Len(table), NEW j \in {0} \cup 1 .. Len(table)
    PROVE  ~Verify(Copied(table, i, j))
<1> DEFINE p == SubSeq(table, 1, j)
           q == SubSeq(table, j + 1, Len(table))
           u == Copied(table, i, j)
           L(k) == Len(table[k].hash)
<1>1. table \in Seq(Row) /\ Len(table) \in Nat /\ j \in 0 .. Len(table) /\ table[i] \in Row
  BY RowFacts
<1>2. /\ p \in Seq(Row) /\ Len(p) = j /\ \A k \in 1 .. j : p[k] = table[k]
      /\ q \in Seq(Row) /\ Len(q) = Len(table) - j
      /\ \A k \in 1 .. Len(table) - j : q[k] = table[j + k]
      /\ <<table[i]>> \in Seq(Row) /\ Len(<<table[i]>>) = 1 /\ <<table[i]>>[1] = table[i]
  BY <1>1
<1>3. u = p \o <<table[i]>> \o q
  BY DEF Copied
<1> HIDE DEF p, q, u
<1>4. /\ Len(u) = Len(table) + 1
      /\ u[j + 1] = table[i]
      /\ j > 0 => u[j] = table[j]
      /\ j < Len(table) => u[j + 2] = table[j + 1]
  <2>1. p \o <<table[i]>> = Append(p, table[i])
    BY <1>1, <1>2
  <2>2. /\ Append(p, table[i]) \in Seq(Row) /\ Len(Append(p, table[i])) = j + 1
        /\ Append(p, table[i])[j + 1] = table[i]
        /\ j > 0 => Append(p, table[i])[j] = p[j]
    BY <1>1, <1>2
  <2> DEFINE a == Append(p, table[i])
  <2>3. a \in Seq(Row) /\ Len(a) = j + 1 /\ a[j + 1] = table[i] /\ (j > 0 => a[j] = p[j]) /\ u = a \o q
    BY <1>3, <2>1, <2>2
  <2> HIDE DEF a
  <2>4. /\ Len(u) = (j + 1) + (Len(table) - j)
        /\ \A k \in 1 .. j + 1 : u[k] = a[k]
        /\ \A k \in 1 .. Len(table) - j : u[(j + 1) + k] = q[k]
    <3>1. /\ Len(a \o q) = Len(a) + Len(q)
          /\ \A k \in 1 .. Len(a) : (a \o q)[k] = a[k]
          /\ \A k \in 1 .. Len(q) : (a \o q)[Len(a) + k] = q[k]
      <4>1. a \in Seq(Row) /\ q \in Seq(Row)
        BY <1>2, <2>3
      <4> QED
        BY <4>1, ConcatAt
    <3> QED
      BY <1>2, <2>3, <3>1
  <2>5. /\ j + 1 \in 1 .. j + 1 /\ (j > 0 => j \in 1 .. j + 1) /\ (j > 0 => j \in 1 .. j)
        /\ j < Len(table) => 1 \in 1 .. Len(table) - j
        /\ (j + 1) + 1 = j + 2 /\ (j + 1) + (Len(table) - j) = Len(table) + 1
    BY <1>1
  <2>6. Len(u) = Len(table) + 1
    BY <2>4, <2>5
  <2>7. u[j + 1] = table[i]
    BY <2>3, <2>4, <2>5
  <2>8. j > 0 => u[j] = table[j]
    BY <1>2, <2>3, <2>4, <2>5
  <2>9. ASSUME j < Len(table) PROVE u[j + 2] = table[j + 1]
    <3>1. u[(j + 1) + 1] = q[1] /\ q[1] = table[j + 1]
      BY <1>2, <2>4, <2>5, <2>9
    <3> QED
      BY <2>5, <3>1
  <2> QED
    BY <2>6, <2>7, <2>8, <2>9
<1>5. \A k \in 1 .. Len(table) : L(k) \in Nat /\ Len(table[k].prev) = L(k) - 1
  BY RowFacts
<1>6. \A k, l \in 1 .. Len(table) : L(l) + k = L(k) + l
  BY DEF IndInv, HashLengths
<1> HIDE DEF L
<1>7. SUFFICES ASSUME Verify(u) PROVE FALSE
  BY DEF u
<1>8. j > 0 => table[i].prev = table[j].hash
  <2>1. j + 1 \in 1 .. Len(u)
    BY <1>1, <1>4
  <2>2. u[j + 1].prev = IF j + 1 = 1 THEN <<>> ELSE u[(j + 1) - 1].hash
    BY <1>7, <2>1 DEF Verify
  <2> QED
    BY <1>1, <1>4, <2>2
<1>9. j < Len(table) => table[j + 1].prev = table[i].hash
  <2>1. SUFFICES ASSUME j < Len(table) PROVE table[j + 1].prev = table[i].hash
    OBVIOUS
  <2>2. j + 2 \in 1 .. Len(u)
    BY <1>1, <1>4, <2>1
  <2>3. u[j + 2].prev = IF j + 2 = 1 THEN <<>> ELSE u[(j + 2) - 1].hash
    BY <1>7, <2>2 DEF Verify
  <2>4. (j + 2) - 1 = j + 1 /\ j + 2 # 1
    BY <1>1
  <2> QED
    BY <1>4, <2>1, <2>3, <2>4
<1>10. ASSUME j < Len(table) PROVE i = j
  <2>1. j + 1 \in 1 .. Len(table)
    BY <1>1, <1>10
  <2>2. Len(table[j + 1].prev) = L(i)
    BY <1>9, <1>10 DEF L
  <2>3. L(j + 1) - 1 = L(i) /\ L(j + 1) + i = L(i) + (j + 1) /\ L(i) \in Nat /\ L(j + 1) \in Nat
    BY <1>5, <1>6, <2>1, <2>2
  <2> QED
    BY <1>1, <2>3
<1>11. ASSUME j > 0 PROVE i = j + 1
  <2>1. j \in 1 .. Len(table)
    BY <1>1, <1>11
  <2>2. Len(table[i].prev) = L(j)
    BY <1>8, <1>11 DEF L
  <2>3. L(i) - 1 = L(j) /\ L(j) + i = L(i) + j /\ L(i) \in Nat /\ L(j) \in Nat
    BY <1>5, <1>6, <2>1, <2>2
  <2> QED
    BY <1>1, <2>3
<1> QED
  BY <1>1, <1>10, <1>11

\* Of two rows that were swapped, the first does not follow the row before it.
LEMMA SwapIsDetected ==
    ASSUME IndInv, NEW i \in 1 .. Len(table), NEW j \in 1 .. Len(table), i < j
    PROVE  ~Verify(Swapped(table, i, j)) /\ ~Verify(Swapped(table, j, i))
<1>1. ASSUME NEW u, Len(u) = Len(table), u[i] = table[j],
             \A k \in 1 .. Len(table) : k < i => u[k] = table[k]
      PROVE  ~Verify(u)
  <2>1. SUFFICES ASSUME Verify(u) PROVE FALSE
    OBVIOUS
  <2>2. u[i].prev = IF i = 1 THEN <<>> ELSE u[i - 1].hash
    BY <1>1, <2>1 DEF Verify
  <2>3. /\ Len(table) \in Nat /\ Len(table[j].prev) \in Nat /\ Len(table[i].prev) \in Nat
        /\ Len(table[j].hash) = Len(table[j].prev) + 1
        /\ Len(table[i].hash) = Len(table[i].prev) + 1
    BY RowFacts
  <2>4. Len(table[j].hash) + i = Len(table[i].hash) + j
    BY DEF IndInv, HashLengths
  <2>5. CASE i = 1
    <3>1. Len(table[j].prev) = 0
      BY <1>1, <2>2, <2>5
    <3> QED
      BY <2>3, <2>4, <2>5, <3>1
  <2>6. CASE i > 1
    <3>1. i - 1 \in 1 .. Len(table) /\ i \in 2 .. Len(table)
      BY <2>3, <2>6
    <3>2. table[j].prev = table[i - 1].hash
      BY <1>1, <2>2, <2>3, <2>6, <3>1
    <3>3. table[i].prev = table[i - 1].hash
      BY <3>1 DEF IndInv, LinksSurvivePurge
    <3> QED
      BY <2>3, <2>4, <3>2, <3>3
  <2> QED
    BY <2>5, <2>6
<1>2. table \in Seq(Row) /\ Len(table) \in Nat
  BY RowFacts
<1>3. /\ Len(Swapped(table, i, j)) = Len(table) /\ Swapped(table, i, j)[i] = table[j]
      /\ \A k \in 1 .. Len(table) : k < i => Swapped(table, i, j)[k] = table[k]
  BY <1>2 DEF Swapped
<1>4. /\ Len(Swapped(table, j, i)) = Len(table) /\ Swapped(table, j, i)[i] = table[j]
      /\ \A k \in 1 .. Len(table) : k < i => Swapped(table, j, i)[k] = table[k]
  BY <1>2 DEF Swapped
<1> QED
  BY <1>1, <1>3, <1>4

\* VerifyAuditChain notices every edit, deletion before a later row, copy and swap, in
\* every log that appends and purges can produce (SECURITY.md:124).
THEOREM AlterationsAreDetected == Spec => []AlterationIsDetected
<1>1. IndInv => AlterationIsDetected
  <2> SUFFICES ASSUME IndInv PROVE AlterationIsDetected
    OBVIOUS
  <2>1. \A i, j \in 1 .. Len(table) : i # j => ~Verify(Swapped(table, i, j))
    <3> TAKE i, j \in 1 .. Len(table)
    <3>1. i < j \/ j < i \/ i = j
      BY RowFacts
    <3> QED
      BY <3>1, SwapIsDetected
  <2> QED
    BY <2>1, EditIsDetected, DeletionIsDetected, CopyIsDetected DEF AlterationIsDetected
<1> QED
  BY <1>1, Invariance, PTL
=============================================================================
