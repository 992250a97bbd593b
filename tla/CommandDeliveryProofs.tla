----------------------- MODULE CommandDeliveryProofs -----------------------
(***************************************************************************)
(* Proofs about the command path, for any number of commands, connections, *)
(* payloads and failures.                                                  *)
(***************************************************************************)
EXTENDS CommandDelivery, TLAPS

-----------------------------------------------------------------------------
(* Type correctness                                                        *)

\* A handler that is about to send has a command to send.
SendHasCommand == \A s \in Sessions : pc[s] = "send" => batch[s] # <<>>

TypeInv == TypeOK /\ SendHasCommand

\* The initial state has the types.
LEMMA InitType == Init => TypeInv
  BY DeliveryAssumption
  DEF Init, TypeInv, SendHasCommand, TypeOK, Cmds, RowStates, CmdStates, Stages, Report, Results

\* The operator's requests keep the types.
LEMMA OperatorType == ASSUME TypeInv, Operator PROVE TypeInv'
<1>1. ASSUME NEW c \in MigCmds, EnqueueMigration(c) PROVE TypeInv'
  BY <1>1 DEF TypeInv, SendHasCommand, TypeOK, EnqueueMigration, Cmds, sessVars, agtVars
<1>2. ASSUME NEW c \in MigCmds, PersistMigration(c) PROVE TypeInv'
  BY <1>2 DEF TypeInv, SendHasCommand, TypeOK, PersistMigration, InsertMigrationCommand, Cmds, RowStates,
     sessVars, agtVars, hisVars
<1>3. ASSUME NEW c \in MigCmds, PersistFails(c) PROVE TypeInv'
  BY <1>3, DeliveryAssumption DEF TypeInv, SendHasCommand, TypeOK, PersistFails, Fault, Cmds, sessVars, agtVars
<1>4. ASSUME NEW c \in ScanCmds, EnqueueAgentCommand(c) PROVE TypeInv'
  BY <1>4 DEF TypeInv, SendHasCommand, TypeOK, EnqueueAgentCommand, Cmds, CmdStates, sessVars, agtVars, hisVars
<1> QED
  BY <1>1, <1>2, <1>3, <1>4 DEF Operator

\* The steps of a handler keep the types.
LEMMA HandlerType == ASSUME TypeInv, NEW s \in Sessions, Handler(s) PROVE TypeInv'
<1> USE DEF TypeInv, SendHasCommand, TypeOK, srvVars, agtVars, hisVars, Stages
<1>1. CASE RecvPayload(s)
  BY <1>1 DEF RecvPayload, InsertTelemetry, CmdStates
<1>2. CASE DrainQueue(s)
  BY <1>2 DEF DrainQueue, Drain
<1>3. CASE InsertCommand(s)
  BY <1>3 DEF InsertCommand, InsertMigrationCommand, RowStates
<1>4. CASE SendCommand(s)
  <2>1. batch[s] # <<>> /\ batch[s] \in Seq(MigCmds)
    BY <1>4 DEF SendCommand
  <2>2. Head(batch[s]) \in Cmds /\ Tail(batch[s]) \in Seq(MigCmds)
    BY <2>1 DEF Cmds
  <2>3. wire' \in [Sessions -> Seq(Cmds)]
    BY <1>4, <2>2 DEF SendCommand, Send
  <2> QED
    BY <1>4, <2>2, <2>3 DEF SendCommand
<1>5. CASE DrainAgentCommands(s)
  BY <1>5 DEF DrainAgentCommands
<1>6. CASE SendAgentCommand(s)
  <2>1. PICK c \in abatch[s] :
             /\ Send(s, c)
             /\ cur' = [cur EXCEPT ![s] = c]
             /\ abatch' = [abatch EXCEPT ![s] = @ \ {c}]
    BY <1>6 DEF SendAgentCommand
  <2>2. c \in ScanCmds /\ c \in Cmds
    BY DEF Cmds
  <2>3. wire' \in [Sessions -> Seq(Cmds)]
    BY <2>1, <2>2 DEF Send
  <2> QED
    BY <1>6, <2>1, <2>2, <2>3 DEF SendAgentCommand
<1>7. CASE MarkDelivered(s)
  BY <1>7 DEF MarkDelivered, MarkAgentCommandDelivered, CmdStates
<1>8. CASE NextPayload(s)
  BY <1>8 DEF NextPayload
<1>9. CASE EndOfStream(s)
  BY <1>9 DEF EndOfStream
<1>10. CASE ProcessReport(s)
  <2>1. inbox[s] \in Seq(Report) /\ inbox[s] # <<>>
    BY <1>10 DEF ProcessReport
  <2>2. Head(inbox[s]) \in Report /\ Tail(inbox[s]) \in Seq(Report)
    BY <2>1
  <2>3. inbox' \in [Sessions -> Seq(Report)]
    BY <1>10, <2>2 DEF ProcessReport
  <2>4. rows' \in [MigCmds -> RowStates] /\ acmds' \in [ScanCmds -> CmdStates]
    BY <1>10, <2>2, DeliveryAssumption
    DEF ProcessReport, UpdateMigrationStatus, UpdateCommandStatus, Report, RowStates, CmdStates
  <2>5. faults' \in Nat
    BY <1>10 DEF ProcessReport, Fault
  <2> QED
    BY <1>10, <2>3, <2>4, <2>5 DEF ProcessReport
<1>11. CASE ReportsDone(s)
  BY <1>11 DEF ReportsDone
<1> QED
  BY <1>1, <1>2, <1>3, <1>4, <1>5, <1>6, <1>7, <1>8, <1>9, <1>10, <1>11 DEF Handler

\* The steps of the agent keep the types.
LEMMA AgentType == ASSUME TypeInv, Agent PROVE TypeInv'
<1> USE DEF TypeInv, SendHasCommand, TypeOK, srvVars, agtVars, hisVars, Stages
<1>1. ASSUME NEW s \in Sessions, NEW n \in 1..MaxPayloads, OpenStream(s, n) PROVE TypeInv'
  BY <1>1, DeliveryAssumption DEF OpenStream
<1>2. CASE Receive
  <2>1. conn \in Sessions /\ wire[conn] \in Seq(Cmds) /\ wire[conn] # <<>>
    BY <1>2 DEF Receive
  <2> DEFINE c == Head(wire[conn])
  <2>2. c \in Cmds /\ Tail(wire[conn]) \in Seq(Cmds)
    BY <2>1
  <2>3. CASE c \in ScanCmds /\ reports' = Append(reports, [cmd |-> c, state |-> "Applying"])
             /\ UNCHANGED execs
    <3>1. [cmd |-> c, state |-> "Applying"] \in Report
      BY <2>3 DEF Report
    <3>2. reports' \in Seq(Report)
      BY <2>3, <3>1
    <3>3. wire' \in [Sessions -> Seq(Cmds)]
      BY <1>2, <2>1, <2>2 DEF Receive
    <3> QED
      BY <1>2, <2>3, <3>2, <3>3 DEF Receive
  <2>4. ASSUME NEW r \in Results, c \in MigCmds,
               execs' = Append(execs, [cmd |-> c, state |-> r]),
               reports' = Append(reports, [cmd |-> c, state |-> r])
        PROVE  TypeInv'
    <3>1. /\ [cmd |-> c, state |-> r] \in Report
          /\ [cmd |-> c, state |-> r] \in [cmd : MigCmds, state : Results]
      BY <2>4 DEF Report
    <3>2. reports' \in Seq(Report) /\ execs' \in Seq([cmd : MigCmds, state : Results])
      BY <2>4, <3>1
    <3>3. wire' \in [Sessions -> Seq(Cmds)]
      BY <1>2, <2>1, <2>2 DEF Receive
    <3> QED
      BY <1>2, <3>2, <3>3 DEF Receive
  <2> QED
    BY <1>2, <2>3, <2>4 DEF Receive
<1>3. CASE StreamEnds
  BY <1>3 DEF StreamEnds
<1>4. CASE ReportAcked
  BY <1>4 DEF ReportAcked
<1>5. CASE SyncDeferred
  BY <1>5 DEF SyncDeferred
<1> QED
  BY <1>1, <1>2, <1>3, <1>4, <1>5 DEF Agent

\* Failures keep the types.
LEMMA FailureType ==
    ASSUME TypeInv,
           \/ \E s \in Sessions : HandlerFails(s)
           \/ RunHangs \/ SyncBreaks \/ AgentRestarts \/ ServerRestarts
    PROVE  TypeInv'
<1> USE DeliveryAssumption
    DEF TypeInv, SendHasCommand, TypeOK, srvVars, sessVars, agtVars, hisVars, Stages, Fault
<1>1. ASSUME NEW s \in Sessions, HandlerFails(s) PROVE TypeInv'
  <2>1. pc' \in [Sessions -> Stages] /\ faults' \in Nat
    BY <1>1 DEF HandlerFails
  <2>2. /\ batch' \in [Sessions -> Seq(MigCmds)] /\ abatch' \in [Sessions -> SUBSET ScanCmds]
        /\ cur' \in [Sessions -> ScanCmds \cup {None}]
        /\ inbox' \in [Sessions -> Seq(Report)]
    BY <1>1 DEF HandlerFails
  <2>3. SendHasCommand'
    BY <1>1 DEF HandlerFails
  <2> QED
    BY <1>1, <2>1, <2>2, <2>3 DEF HandlerFails
<1>2. CASE RunHangs
  BY <1>2 DEF RunHangs
<1>3. CASE SyncBreaks
  BY <1>3 DEF SyncBreaks
<1>4. CASE AgentRestarts
  <2>1. wire' \in [Sessions -> Seq(Cmds)] /\ pc' \in [Sessions -> Stages]
    BY <1>4 DEF AgentRestarts
  <2>2. SendHasCommand'
    BY <1>4 DEF AgentRestarts
  <2> QED
    BY <1>4, <2>1, <2>2 DEF AgentRestarts
<1>5. CASE ServerRestarts
  BY <1>5 DEF ServerRestarts
<1> QED
  BY <1>1, <1>2, <1>3, <1>4, <1>5

\* Every step keeps the types.
LEMMA NextType == TypeInv /\ [Next]_vars => TypeInv'
<1> SUFFICES ASSUME TypeInv, [Next]_vars PROVE TypeInv'
  OBVIOUS
<1>1. CASE UNCHANGED vars
  BY <1>1 DEF vars, TypeInv, SendHasCommand, TypeOK
<1> QED
  BY <1>1, OperatorType, HandlerType, AgentType, FailureType DEF Next

\* Every variable of the command path keeps its type, for any number of commands,
\* connections, payloads and failures.
THEOREM TypeCorrect == Spec => []TypeOK
<1>1. TypeInv => TypeOK
  BY DEF TypeInv
<1> QED
  BY <1>1, InitType, NextType, PTL DEF Spec

-----------------------------------------------------------------------------
(* Sequences                                                               *)

\* No migration command is twice in q
Distinct(q) == \A i, j \in 1..Len(q) : q[i] \in MigCmds /\ q[i] = q[j] => i = j

\* The elements of a sequence.
LEMMA ElementType == ASSUME NEW S, NEW q \in Seq(S) PROVE \A i \in 1..Len(q) : q[i] \in S
  OBVIOUS

\* Nothing is in the empty sequence.
LEMMA EmptyHas == Distinct(<<>>) /\ \A c : ~In(c, <<>>)
  BY DEF In, Distinct

\* What Append leaves in a sequence.
LEMMA AppendHas ==
    ASSUME NEW S, NEW q \in Seq(S), NEW e \in S
    PROVE  \A c : In(c, Append(q, e)) <=> In(c, q) \/ c = e
<1>1. /\ Append(q, e) \in Seq(S) /\ Len(Append(q, e)) = Len(q) + 1 /\ Len(q) \in Nat
      /\ Append(q, e)[Len(q) + 1] = e
      /\ \A i \in 1..Len(q) : Append(q, e)[i] = q[i]
  OBVIOUS
<1> QED
  BY <1>1 DEF In

\* A sequence has its head and what its tail has.
LEMMA TailHas ==
    ASSUME NEW S, NEW q \in Seq(S), q # <<>>
    PROVE  /\ In(Head(q), q)
           /\ \A c : In(c, q) <=> c = Head(q) \/ In(c, Tail(q))
<1>1. /\ Len(q) \in Nat /\ Len(q) >= 1 /\ Len(Tail(q)) = Len(q) - 1 /\ Head(q) = q[1]
      /\ \A i \in 1..Len(q) - 1 : Tail(q)[i] = q[i + 1]
  OBVIOUS
<1>2. In(Head(q), q)
  BY <1>1 DEF In
<1>3. ASSUME NEW c, In(c, q), c # Head(q) PROVE In(c, Tail(q))
  <2>1. PICK i \in 1..Len(q) : q[i] = c
    BY <1>3 DEF In
  <2>2. i - 1 \in 1..Len(Tail(q)) /\ Tail(q)[i - 1] = c
    BY <1>1, <1>3, <2>1
  <2> QED
    BY <2>2 DEF In
<1>4. ASSUME NEW c, In(c, Tail(q)) PROVE In(c, q)
  <2>1. PICK i \in 1..Len(Tail(q)) : Tail(q)[i] = c
    BY <1>4 DEF In
  <2>2. i + 1 \in 1..Len(q) /\ q[i + 1] = c
    BY <1>1, <2>1
  <2> QED
    BY <2>2 DEF In
<1> QED
  BY <1>2, <1>3, <1>4

\* Append of a command that is not in a sequence keeps it without repetition.
LEMMA AppendDistinct ==
    ASSUME NEW S, NEW q \in Seq(S), NEW e \in S, Distinct(q), e \in MigCmds => ~In(e, q)
    PROVE  Distinct(Append(q, e))
<1>1. /\ Len(Append(q, e)) = Len(q) + 1 /\ Len(q) \in Nat
      /\ Append(q, e)[Len(q) + 1] = e
      /\ \A i \in 1..Len(q) : Append(q, e)[i] = q[i]
  OBVIOUS
<1> QED
  BY <1>1 DEF Distinct, In

\* The head of a sequence without repetition is not in its tail.
LEMMA TailDistinct ==
    ASSUME NEW S, NEW q \in Seq(S), q # <<>>, Distinct(q)
    PROVE  Distinct(Tail(q)) /\ (Head(q) \in MigCmds => ~In(Head(q), Tail(q)))
<1>1. /\ Len(q) \in Nat /\ Len(q) >= 1 /\ Len(Tail(q)) = Len(q) - 1 /\ Head(q) = q[1]
      /\ \A i \in 1..Len(q) - 1 : Tail(q)[i] = q[i + 1]
  OBVIOUS
<1>2. Distinct(Tail(q))
  <2> SUFFICES ASSUME NEW i \in 1..Len(Tail(q)), NEW j \in 1..Len(Tail(q)),
                      Tail(q)[i] \in MigCmds, Tail(q)[i] = Tail(q)[j]
               PROVE  i = j
    BY DEF Distinct
  <2>1. /\ i + 1 \in 1..Len(q) /\ j + 1 \in 1..Len(q)
        /\ q[i + 1] = Tail(q)[i] /\ q[j + 1] = Tail(q)[j]
    BY <1>1
  <2>2. i + 1 = j + 1
    BY <2>1 DEF Distinct
  <2> QED
    BY <2>2
<1>3. ASSUME Head(q) \in MigCmds, In(Head(q), Tail(q)) PROVE FALSE
  <2>1. PICK i \in 1..Len(Tail(q)) : Tail(q)[i] = Head(q)
    BY <1>3 DEF In
  <2>2. i + 1 \in 1..Len(q) /\ 1 \in 1..Len(q) /\ q[i + 1] = q[1] /\ i + 1 # 1
    BY <1>1, <2>1
  <2> QED
    BY <1>1, <1>3, <2>2 DEF Distinct
<1> QED
  BY <1>2, <1>3

-----------------------------------------------------------------------------
(* Safety                                                                  *)

Ran(c) == \E k \in 1..Len(execs) : execs[k].cmd = c

\* A migration command is in at most one place: the queue, the batch of one handler,
\* the wire of one session, or the executions; before its request it is nowhere.
OnePlace ==
    /\ Distinct(queue) /\ \A s \in Sessions : Distinct(batch[s]) /\ Distinct(wire[s])
    /\ \A c \in MigCmds :
         /\ In(c, queue) \/ Ran(c) => post[c] # "new"
         /\ In(c, queue) => ~Ran(c)
    /\ \A c \in MigCmds, s \in Sessions :
         /\ In(c, batch[s]) => ~In(c, queue) /\ ~Ran(c) /\ post[c] # "new"
         /\ In(c, wire[s])  => ~In(c, queue) /\ ~Ran(c) /\ post[c] # "new"
         /\ \A t \in Sessions :
              /\ In(c, batch[s]) => ~In(c, wire[t]) /\ (In(c, batch[t]) => t = s)
              /\ In(c, wire[s])  => (In(c, wire[t]) => t = s)

\* A command has its row before it leaves the controller.
SentIsRecorded ==
    \A s \in Sessions :
        /\ pc[s] = "send" => rows[Head(batch[s])] # "none"
        /\ \A c \in MigCmds : In(c, wire[s]) => rows[c] # "none"

\* A report on a migration says what the engine obtained.
ReportsAreTrue ==
    \A r \in [cmd : MigCmds, state : Results] :
        In(r, reports) \/ (\E s \in Sessions : In(r, inbox[s])) => In(r, execs)

SafeInv ==
    /\ TypeInv
    /\ OnePlace /\ AtMostOnce
    /\ SentIsRecorded /\ ExecutedIsRecorded
    /\ ReportsAreTrue /\ RecordIsTruthful

\* Losing commands, or leaving them where they are, keeps each in one place.
LEMMA LossOnePlace ==
    ASSUME OnePlace, AtMostOnce, execs' = execs,
           \A c \in MigCmds : post'[c] = "new" => post[c] = "new",
           queue' \in {queue, <<>>},
           \A s \in Sessions : batch'[s] \in {batch[s], <<>>} /\ wire'[s] \in {wire[s], <<>>}
    PROVE  OnePlace' /\ AtMostOnce'
<1>1. \A c : Ran(c)' <=> Ran(c)
  BY DEF Ran
<1>2. Distinct(queue') /\ \A c : In(c, queue') => In(c, queue)
  BY EmptyHas DEF OnePlace
<1>3. \A s \in Sessions : /\ Distinct(batch'[s]) /\ \A c : In(c, batch'[s]) => In(c, batch[s])
                          /\ Distinct(wire'[s]) /\ \A c : In(c, wire'[s]) => In(c, wire[s])
  BY EmptyHas DEF OnePlace
<1>4. OnePlace'
  BY <1>1, <1>2, <1>3 DEF OnePlace
<1> QED
  BY <1>4 DEF AtMostOnce

\* A new command enters the queue.
LEMMA EnqueueOnePlace ==
    ASSUME TypeOK, OnePlace, AtMostOnce, NEW c \in MigCmds, EnqueueMigration(c)
    PROVE  OnePlace' /\ AtMostOnce'
<1>1. /\ queue' = Append(queue, c) /\ queue \in Seq(MigCmds)
      /\ post[c] = "new" /\ post \in [Cmds -> {"new", "enqueued", "done"}]
      /\ post' = [post EXCEPT ![c] = "enqueued"] /\ c \in Cmds
      /\ batch' = batch /\ wire' = wire /\ execs' = execs
  BY DEF TypeOK, EnqueueMigration, sessVars, Cmds
<1>2. \A d : Ran(d)' <=> Ran(d)
  BY <1>1 DEF Ran
<1>3. /\ \A d : In(d, queue') <=> In(d, queue) \/ d = c
      /\ ~Ran(c) /\ \A s \in Sessions : ~In(c, queue) /\ ~In(c, batch[s]) /\ ~In(c, wire[s])
  BY <1>1, AppendHas DEF OnePlace
<1>4. Distinct(queue')
  BY <1>1, <1>3, AppendDistinct DEF OnePlace
<1>5. \A d \in MigCmds : post'[d] = IF d = c THEN "enqueued" ELSE post[d]
  BY <1>1 DEF Cmds
<1>6. OnePlace'
  BY <1>1, <1>2, <1>3, <1>4, <1>5 DEF OnePlace
<1> QED
  BY <1>1, <1>6 DEF AtMostOnce

\* Drain moves the whole queue into the batch of one handler.
LEMMA DrainOnePlace ==
    ASSUME TypeInv, OnePlace, AtMostOnce, NEW s \in Sessions, DrainQueue(s)
    PROVE  OnePlace' /\ AtMostOnce'
<1>1. /\ queue' = <<>> /\ batch \in [Sessions -> Seq(MigCmds)]
      /\ batch' = [batch EXCEPT ![s] = queue]
      /\ post' = post /\ wire' = wire /\ execs' = execs
  BY DEF TypeInv, TypeOK, DrainQueue, Drain, hisVars
<1>2. \A d : Ran(d)' <=> Ran(d)
  BY <1>1 DEF Ran
<1>3. \A d, t : t \in Sessions => (In(d, batch'[t]) <=> IF t = s THEN In(d, queue) ELSE In(d, batch[t]))
  BY <1>1
<1>4. Distinct(queue') /\ \A t \in Sessions : Distinct(batch'[t])
  BY <1>1, EmptyHas DEF OnePlace
<1>5. OnePlace'
  BY <1>1, <1>2, <1>3, <1>4, EmptyHas DEF OnePlace
<1> QED
  BY <1>1, <1>5 DEF AtMostOnce

\* A sent command leaves the batch for the wire, or is lost.
LEMMA SendOnePlace ==
    ASSUME TypeInv, OnePlace, AtMostOnce, NEW s \in Sessions, SendCommand(s)
    PROVE  OnePlace' /\ AtMostOnce'
<1> DEFINE c == Head(batch[s])
<1>1. /\ batch \in [Sessions -> Seq(MigCmds)] /\ wire \in [Sessions -> Seq(Cmds)]
      /\ batch' = [batch EXCEPT ![s] = Tail(batch[s])] /\ batch[s] # <<>>
      /\ queue' = queue /\ post' = post /\ execs' = execs
      /\ wire' = [wire EXCEPT ![s] = Append(wire[s], c)] \/ wire' = wire
  BY DEF TypeInv, TypeOK, SendHasCommand, SendCommand, Send, srvVars, hisVars
<1>2. c \in MigCmds /\ c \in Cmds /\ In(c, batch[s])
  BY <1>1, TailHas DEF Cmds
<1> HIDE DEF c
<1>3. \A d : Ran(d)' <=> Ran(d)
  BY <1>1 DEF Ran
<1>4. /\ Distinct(batch'[s]) /\ ~In(c, batch'[s])
      /\ \A d : In(d, batch'[s]) => In(d, batch[s])
  <2>1. batch[s] \in Seq(MigCmds) /\ Distinct(batch[s]) /\ batch'[s] = Tail(batch[s])
    BY <1>1 DEF OnePlace
  <2>2. Distinct(Tail(batch[s])) /\ (Head(batch[s]) \in MigCmds => ~In(Head(batch[s]), Tail(batch[s])))
    BY <1>1, <2>1, TailDistinct
  <2>3. \A d : In(d, Tail(batch[s])) => In(d, batch[s])
    BY <1>1, <2>1, TailHas
  <2> QED
    BY <1>2, <2>1, <2>2, <2>3 DEF c
<1>5. \A t \in Sessions : t # s => batch'[t] = batch[t] /\ wire'[t] = wire[t]
  BY <1>1
<1>6. /\ Distinct(wire'[s])
      /\ \A d : In(d, wire'[s]) => In(d, wire[s]) \/ d = c
  <2>1. wire[s] \in Seq(Cmds) /\ Distinct(wire[s]) /\ ~In(c, wire[s])
    BY <1>1, <1>2 DEF OnePlace
  <2>2. /\ Distinct(Append(wire[s], c))
        /\ \A d : In(d, Append(wire[s], c)) <=> In(d, wire[s]) \/ d = c
    BY <1>2, <2>1, AppendDistinct, AppendHas
  <2>3. wire'[s] \in {wire[s], Append(wire[s], c)}
    BY <1>1
  <2> QED
    BY <2>1, <2>2, <2>3
<1>7. OnePlace'
  <2>1. \A t \in Sessions : Distinct(batch'[t]) /\ Distinct(wire'[t])
    BY <1>4, <1>5, <1>6 DEF OnePlace
  <2>2. \A d, t : t \in Sessions =>
           /\ In(d, batch'[t]) => In(d, batch[t]) /\ d # c
           /\ In(d, wire'[t]) => In(d, wire[t]) \/ (d = c /\ t = s)
    BY <1>2, <1>4, <1>5, <1>6 DEF OnePlace
  <2> QED
    BY <1>1, <1>2, <1>3, <2>1, <2>2 DEF OnePlace
<1> QED
  BY <1>1, <1>7 DEF AtMostOnce

\* A scan-control command on the wire is no migration command.
LEMMA SendAgentOnePlace ==
    ASSUME TypeInv, OnePlace, AtMostOnce, NEW s \in Sessions, SendAgentCommand(s)
    PROVE  OnePlace' /\ AtMostOnce'
<1>1. PICK c \in abatch[s] : Send(s, c)
  BY DEF SendAgentCommand
<1>2. /\ wire \in [Sessions -> Seq(Cmds)] /\ c \in Cmds /\ c \notin MigCmds
      /\ batch' = batch /\ queue' = queue /\ post' = post /\ execs' = execs
      /\ wire' = [wire EXCEPT ![s] = Append(wire[s], c)] \/ wire' = wire
  BY <1>1, DeliveryAssumption
  DEF TypeInv, TypeOK, SendAgentCommand, Send, Cmds, srvVars, hisVars
<1>3. \A d : Ran(d)' <=> Ran(d)
  BY <1>2 DEF Ran
<1>4. \A t \in Sessions : /\ Distinct(wire'[t])
                          /\ \A d \in MigCmds : In(d, wire'[t]) => In(d, wire[t])
  <2>1. wire[s] \in Seq(Cmds) /\ Distinct(wire[s])
    BY <1>2 DEF OnePlace
  <2>2. /\ Distinct(Append(wire[s], c))
        /\ \A d : In(d, Append(wire[s], c)) <=> In(d, wire[s]) \/ d = c
    BY <1>2, <2>1, AppendDistinct, AppendHas
  <2>3. \A t \in Sessions : wire'[t] = wire[t] \/ (t = s /\ wire'[t] = Append(wire[s], c))
    BY <1>2
  <2> QED
    BY <1>2, <2>2, <2>3 DEF OnePlace
<1>5. OnePlace'
  BY <1>2, <1>3, <1>4 DEF OnePlace
<1> QED
  BY <1>2, <1>5 DEF AtMostOnce

\* What the agent does with the command it reads: a scan-control verb leaves the host
\* alone, a migration is executed.
LEMMA ReceiveCases ==
    ASSUME TypeInv, Receive
    PROVE  LET c == Head(wire[conn]) IN
           /\ conn \in Sessions /\ wire[conn] \in Seq(Cmds) /\ wire[conn] # <<>>
           /\ wire' = [wire EXCEPT ![conn] = Tail(wire[conn])]
           /\ batch' = batch /\ queue' = queue /\ post' = post
           /\ \/ /\ c \in ScanCmds /\ c \notin MigCmds /\ execs' = execs
                 /\ reports' = Append(reports, [cmd |-> c, state |-> "Applying"])
              \/ /\ c \in MigCmds
                 /\ \E r \in Results :
                      /\ execs' = Append(execs, [cmd |-> c, state |-> r])
                      /\ reports' = Append(reports, [cmd |-> c, state |-> r])
  BY DeliveryAssumption DEF TypeInv, TypeOK, Receive, srvVars

\* What an execution adds to the history.
LEMMA ExecutionHas ==
    ASSUME NEW c \in MigCmds, NEW r \in Results,
           execs \in Seq([cmd : MigCmds, state : Results]),
           execs' = Append(execs, [cmd |-> c, state |-> r])
    PROVE  /\ \A d : Ran(d)' <=> Ran(d) \/ d = c
           /\ \A x : In(x, execs') <=> In(x, execs) \/ x = [cmd |-> c, state |-> r]
           /\ AtMostOnce /\ ~Ran(c) => AtMostOnce'
<1> DEFINE e == [cmd |-> c, state |-> r]
<1>1. /\ Len(execs') = Len(execs) + 1 /\ Len(execs) \in Nat
      /\ execs'[Len(execs) + 1] = e
      /\ \A i \in 1..Len(execs) : execs'[i] = execs[i]
  OBVIOUS
<1>2. e.cmd = c
  OBVIOUS
<1> HIDE DEF e
<1>3. \A d : Ran(d)' <=> Ran(d) \/ d = c
  BY <1>1, <1>2 DEF Ran
<1>4. ASSUME AtMostOnce, ~Ran(c) PROVE AtMostOnce'
  BY <1>1, <1>2, <1>4 DEF AtMostOnce, Ran
<1>5. \A x : In(x, execs') <=> In(x, execs) \/ x = e
  BY <1>1 DEF In
<1> QED
  BY <1>3, <1>4, <1>5 DEF e

\* The command that is executed leaves the wire.
LEMMA ReceiveOnePlace ==
    ASSUME TypeInv, OnePlace, AtMostOnce, Receive
    PROVE  OnePlace' /\ AtMostOnce'
<1> DEFINE c == Head(wire[conn])
<1>1. /\ conn \in Sessions /\ wire[conn] \in Seq(Cmds) /\ wire[conn] # <<>>
      /\ wire' = [wire EXCEPT ![conn] = Tail(wire[conn])] /\ wire \in [Sessions -> Seq(Cmds)]
      /\ batch' = batch /\ queue' = queue /\ post' = post
  BY ReceiveCases DEF TypeInv, TypeOK
<1>2. /\ Distinct(Tail(wire[conn])) /\ (c \in MigCmds => ~In(c, Tail(wire[conn])))
      /\ In(c, wire[conn]) /\ \A d : In(d, Tail(wire[conn])) => In(d, wire[conn])
  <2>1. Distinct(wire[conn])
    BY <1>1 DEF OnePlace
  <2> QED
    BY <1>1, <2>1, TailDistinct, TailHas
<1>3. \A t \in Sessions : /\ Distinct(wire'[t])
                          /\ \A d : In(d, wire'[t]) => In(d, wire[t])
                          /\ c \in MigCmds => ~In(c, wire'[t])
  <2>1. \A t \in Sessions : wire'[t] = IF t = conn THEN Tail(wire[conn]) ELSE wire[t]
    BY <1>1
  <2>2. c \in MigCmds => \A t \in Sessions : t # conn => ~In(c, wire[t])
    BY <1>1, <1>2 DEF OnePlace
  <2> QED
    BY <1>2, <2>1, <2>2 DEF OnePlace
<1>4. CASE c \notin MigCmds
  <2>1. execs' = execs
    BY <1>4, ReceiveCases
  <2>2. \A d : Ran(d)' <=> Ran(d)
    BY <2>1 DEF Ran
  <2>3. OnePlace'
    BY <1>1, <1>3, <2>2 DEF OnePlace
  <2> QED
    BY <2>1, <2>3 DEF AtMostOnce
<1>5. CASE c \in MigCmds
  <2>1. ~Ran(c) /\ post[c] # "new" /\ ~In(c, queue) /\ \A t \in Sessions : ~In(c, batch[t])
    BY <1>1, <1>2, <1>5 DEF OnePlace
  <2>2. PICK r \in Results : execs' = Append(execs, [cmd |-> c, state |-> r])
    BY <1>5, ReceiveCases, DeliveryAssumption
  <2>3. (\A d : Ran(d)' <=> Ran(d) \/ d = c) /\ AtMostOnce'
    BY <1>5, <2>1, <2>2, ExecutionHas DEF TypeInv, TypeOK
  <2> HIDE DEF c
  <2>4. OnePlace'
    BY <1>1, <1>3, <1>5, <2>1, <2>3 DEF OnePlace
  <2> QED
    BY <2>3, <2>4
<1> QED
  BY <1>4, <1>5

\* Every step leaves each migration command in one place.
LEMMA NextOnePlace == ASSUME SafeInv, Next PROVE OnePlace' /\ AtMostOnce'
<1> USE DEF SafeInv, TypeInv, TypeOK, srvVars, sessVars, agtVars, hisVars
<1>1. CASE Operator
  <2>1. ASSUME NEW c \in MigCmds, PersistMigration(c) \/ PersistFails(c)
        PROVE  OnePlace' /\ AtMostOnce'
    BY <2>1, LossOnePlace DEF PersistMigration, PersistFails, Cmds
  <2>2. ASSUME NEW c \in ScanCmds, EnqueueAgentCommand(c) PROVE OnePlace' /\ AtMostOnce'
    BY <2>2, LossOnePlace, DeliveryAssumption DEF EnqueueAgentCommand, Cmds
  <2> QED
    BY <1>1, <2>1, <2>2, EnqueueOnePlace DEF Operator
<1>2. ASSUME NEW s \in Sessions, Handler(s) PROVE OnePlace' /\ AtMostOnce'
  <2>1. CASE \/ RecvPayload(s) \/ InsertCommand(s) \/ DrainAgentCommands(s)
             \/ MarkDelivered(s) \/ NextPayload(s) \/ EndOfStream(s) \/ ProcessReport(s)
             \/ ReportsDone(s)
    BY <2>1, LossOnePlace
    DEF RecvPayload, InsertCommand, DrainAgentCommands, MarkDelivered, NextPayload,
        EndOfStream, ProcessReport, ReportsDone
  <2> QED
    BY <1>2, <2>1, DrainOnePlace, SendOnePlace, SendAgentOnePlace DEF Handler
<1>3. CASE Agent
  <2>1. ASSUME NEW s \in Sessions, NEW n \in 1..MaxPayloads, OpenStream(s, n)
        PROVE  OnePlace' /\ AtMostOnce'
    BY <2>1, LossOnePlace DEF OpenStream
  <2>2. CASE StreamEnds \/ ReportAcked \/ SyncDeferred
    BY <2>2, LossOnePlace DEF StreamEnds, ReportAcked, SyncDeferred
  <2> QED
    BY <1>3, <2>1, <2>2, ReceiveOnePlace DEF Agent
<1>4. ASSUME NEW s \in Sessions, HandlerFails(s) PROVE OnePlace' /\ AtMostOnce'
  BY <1>4, LossOnePlace DEF HandlerFails
<1>5. CASE RunHangs \/ SyncBreaks \/ AgentRestarts
  BY <1>5, LossOnePlace DEF RunHangs, SyncBreaks, AgentRestarts
<1>6. CASE ServerRestarts
  BY <1>6, LossOnePlace DEF ServerRestarts, Cmds
<1> QED
  BY <1>1, <1>2, <1>3, <1>4, <1>5, <1>6 DEF Next

-----------------------------------------------------------------------------
(* Records: what one step can add to rows, wires, executions and reports   *)

Outcome == [cmd : MigCmds, state : Results]

RowGains ==
    \A c \in MigCmds :
        /\ rows[c] # "none" => rows'[c] # "none"
        /\ rows'[c] \in Results => \/ rows'[c] = rows[c]
                                  \/ \E s \in Sessions :
                                       In([cmd |-> c, state |-> rows'[c]], inbox[s])

SendGains ==
    \A s \in Sessions : pc'[s] = "send" =>
        \/ pc[s] = "send" /\ batch'[s] = batch[s]
        \/ batch'[s] # <<>> /\ rows'[Head(batch'[s])] # "none"

WireGains ==
    \A s \in Sessions, c \in MigCmds :
        In(c, wire'[s]) => In(c, wire[s]) \/ (pc[s] = "send" /\ c = Head(batch[s]))

ExecGains ==
    /\ \A c \in MigCmds : Ran(c)' => Ran(c) \/ \E s \in Sessions : In(c, wire[s])
    /\ \A x \in Outcome : In(x, execs) => In(x, execs')

ReportGains ==
    \A x \in Outcome :
        /\ In(x, reports') => In(x, reports) \/ In(x, execs')
        /\ \A s \in Sessions : In(x, inbox'[s]) => In(x, inbox[s]) \/ In(x, reports)

Gains == RowGains /\ SendGains /\ WireGains /\ ExecGains /\ ReportGains

\* A step that adds nothing to them but a stage other than "send".
LEMMA NoGains ==
    ASSUME TypeInv, rows' = rows, execs' = execs,
           \A s \in Sessions : pc'[s] = "send" => pc[s] = "send" /\ batch'[s] = batch[s],
           \A s \in Sessions : wire'[s] \in {wire[s], <<>>},
           reports' \in {reports, <<>>},
           \A s \in Sessions : inbox'[s] \in {inbox[s], <<>>, reports}
    PROVE  Gains
<1>1. \A c : Ran(c)' <=> Ran(c)
  BY DEF Ran
<1>2. RowGains /\ SendGains
  BY DEF RowGains, SendGains
<1>3. WireGains /\ ExecGains /\ ReportGains
  BY <1>1, EmptyHas DEF WireGains, ExecGains, ReportGains
<1> QED
  BY <1>2, <1>3 DEF Gains

\* The operator's requests add rows.
LEMMA OperatorGains == ASSUME TypeInv, Operator PROVE Gains
<1> USE DEF TypeInv, TypeOK, srvVars, sessVars, agtVars, hisVars
<1>1. ASSUME NEW c \in MigCmds, EnqueueMigration(c) \/ PersistFails(c) PROVE Gains
  BY <1>1, NoGains DEF EnqueueMigration, PersistFails
<1>2. ASSUME NEW c \in ScanCmds, EnqueueAgentCommand(c) PROVE Gains
  BY <1>2, NoGains DEF EnqueueAgentCommand
<1>3. ASSUME NEW c \in MigCmds, PersistMigration(c) PROVE Gains
  <2>1. RowGains /\ SendGains
    BY <1>3 DEF PersistMigration, InsertMigrationCommand, RowGains, SendGains, Results
  <2>2. \A d : Ran(d)' <=> Ran(d)
    BY <1>3 DEF PersistMigration, Ran
  <2>3. WireGains /\ ExecGains /\ ReportGains
    BY <1>3, <2>2 DEF PersistMigration, WireGains, ExecGains, ReportGains
  <2> QED
    BY <2>1, <2>3 DEF Gains
<1> QED
  BY <1>1, <1>2, <1>3 DEF Operator

\* A handler adds the row of a command before it sends it, and the results it is told.
LEMMA HandlerGains == ASSUME TypeInv, NEW s \in Sessions, Handler(s) PROVE Gains
<1> USE DEF TypeInv, TypeOK, srvVars, agtVars, hisVars
<1>1. CASE \/ RecvPayload(s) \/ DrainQueue(s) \/ DrainAgentCommands(s) \/ MarkDelivered(s)
           \/ NextPayload(s) \/ EndOfStream(s) \/ ReportsDone(s)
  <2>1. \A t \in Sessions : pc'[t] = "send" => pc[t] = "send" /\ batch'[t] = batch[t]
    BY <1>1
    DEF RecvPayload, DrainQueue, Drain, DrainAgentCommands, MarkDelivered, NextPayload,
        EndOfStream, ReportsDone
  <2>2. /\ rows' = rows /\ execs' = execs /\ wire' = wire /\ reports' = reports
        /\ inbox' = inbox
    BY <1>1
    DEF RecvPayload, DrainQueue, DrainAgentCommands, MarkDelivered, NextPayload,
        EndOfStream, ReportsDone
  <2> QED
    BY <2>1, <2>2, NoGains
<1>2. CASE InsertCommand(s)
  <2>1. Head(batch[s]) \in MigCmds
    BY <1>2 DEF InsertCommand
  <2>2. RowGains /\ SendGains
    BY <1>2, <2>1 DEF InsertCommand, InsertMigrationCommand, RowGains, SendGains, Results
  <2>3. \A d : Ran(d)' <=> Ran(d)
    BY <1>2 DEF InsertCommand, Ran
  <2>4. WireGains /\ ExecGains /\ ReportGains
    BY <1>2, <2>3 DEF InsertCommand, WireGains, ExecGains, ReportGains
  <2> QED
    BY <2>2, <2>4 DEF Gains
<1>3. CASE SendCommand(s) \/ SendAgentCommand(s)
  <2>1. PICK c \in Cmds : /\ Send(s, c)
                          /\ c \in MigCmds => pc[s] = "send" /\ c = Head(batch[s])
    <3>1. CASE SendCommand(s)
      <4>1. Head(batch[s]) \in Cmds
        BY <3>1 DEF SendCommand, SendHasCommand, Cmds
      <4> QED
        BY <3>1, <4>1 DEF SendCommand
    <3>2. CASE SendAgentCommand(s)
      BY <3>2, DeliveryAssumption DEF SendAgentCommand, Cmds
    <3> QED
      BY <1>3, <3>1, <3>2
  <2>2. /\ rows' = rows /\ execs' = execs /\ reports' = reports /\ inbox' = inbox
        /\ \A t \in Sessions : pc'[t] = "send" => pc[t] = "send" /\ batch'[t] = batch[t]
    BY <1>3 DEF SendCommand, SendAgentCommand
  <2>3. \A d : In(d, Append(wire[s], c)) <=> In(d, wire[s]) \/ d = c
    BY <2>1, AppendHas
  <2>4. \A t \in Sessions : wire'[t] = wire[t] \/ (t = s /\ wire'[t] = Append(wire[s], c))
    BY <2>1 DEF Send
  <2>5. WireGains
    BY <2>1, <2>3, <2>4 DEF WireGains
  <2>6. \A d : Ran(d)' <=> Ran(d)
    BY <2>2 DEF Ran
  <2>7. RowGains /\ SendGains /\ ExecGains /\ ReportGains
    BY <2>2, <2>6 DEF RowGains, SendGains, ExecGains, ReportGains
  <2> QED
    BY <2>5, <2>7 DEF Gains
<1>4. CASE ProcessReport(s)
  <2> DEFINE r == Head(inbox[s])
  <2>1. /\ inbox[s] \in Seq(Report) /\ inbox[s] # <<>> /\ inbox' = [inbox EXCEPT ![s] = Tail(inbox[s])]
        /\ UpdateMigrationStatus(r)
        /\ pc' = pc /\ batch' = batch /\ wire' = wire /\ execs' = execs /\ reports' = reports
    BY <1>4 DEF ProcessReport
  <2>2. r \in Report /\ In(r, inbox[s]) /\ \A x : In(x, Tail(inbox[s])) => In(x, inbox[s])
    BY <2>1, TailHas
  <2> HIDE DEF r
  <2>3. RowGains
    <3> SUFFICES ASSUME NEW c \in MigCmds
                 PROVE  /\ rows[c] # "none" => rows'[c] # "none"
                        /\ rows'[c] \in Results =>
                             \/ rows'[c] = rows[c]
                             \/ \E t \in Sessions : In([cmd |-> c, state |-> rows'[c]], inbox[t])
      BY DEF RowGains
    <3>1. CASE rows'[c] = rows[c]
      BY <3>1
    <3>2. CASE rows'[c] # rows[c]
      <4>1. r.cmd = c /\ rows'[c] = r.state
        BY <2>1, <3>2 DEF UpdateMigrationStatus
      <4>2. r \in Outcome
        BY <2>2, <4>1, DeliveryAssumption DEF Report, Outcome
      <4>3. r = [cmd |-> c, state |-> rows'[c]] /\ rows'[c] # "none"
        BY <4>1, <4>2 DEF Outcome, Results
      <4> QED
        BY <2>2, <4>3
    <3> QED
      BY <3>1, <3>2
  <2>4. \A d : Ran(d)' <=> Ran(d)
    BY <2>1 DEF Ran
  <2>5. SendGains
    BY <2>1 DEF SendGains
  <2>6. WireGains /\ ExecGains /\ ReportGains
    BY <2>1, <2>2, <2>4 DEF WireGains, ExecGains, ReportGains
  <2> QED
    BY <2>3, <2>5, <2>6 DEF Gains
<1> QED
  BY <1>1, <1>2, <1>3, <1>4 DEF Handler

\* The agent executes what is on the wire and reports what it executed.
LEMMA AgentGains == ASSUME TypeInv, Agent PROVE Gains
<1> USE DEF TypeInv, TypeOK, srvVars, agtVars, hisVars
<1>1. ASSUME NEW s \in Sessions, NEW n \in 1..MaxPayloads, OpenStream(s, n) PROVE Gains
  BY <1>1, NoGains DEF OpenStream
<1>2. CASE StreamEnds \/ ReportAcked \/ SyncDeferred
  BY <1>2, NoGains DEF StreamEnds, ReportAcked, SyncDeferred
<1>3. CASE Receive
  <2> DEFINE c == Head(wire[conn])
  <2>1. /\ conn \in Sessions /\ wire[conn] \in Seq(Cmds) /\ wire[conn] # <<>>
        /\ wire' = [wire EXCEPT ![conn] = Tail(wire[conn])]
        /\ pc' = pc /\ batch' = batch /\ rows' = rows /\ inbox' = inbox
    BY <1>3 DEF Receive
  <2>2. In(c, wire[conn]) /\ \A d : In(d, Tail(wire[conn])) => In(d, wire[conn])
    BY <2>1, TailHas
  <2>3. RowGains /\ SendGains /\ WireGains
    BY <2>1, <2>2 DEF RowGains, SendGains, WireGains
  <2>4. CASE c \notin MigCmds
    <3>1. /\ execs' = execs /\ c \in ScanCmds
          /\ reports' = Append(reports, [cmd |-> c, state |-> "Applying"])
      BY <1>3, <2>4 DEF Receive
    <3> DEFINE a == [cmd |-> c, state |-> "Applying"]
    <3>2. a \in Report /\ a \notin Outcome
      BY <3>1 DEF Report, Outcome, Results
    <3> HIDE DEF a
    <3>3. \A x : In(x, Append(reports, a)) <=> In(x, reports) \/ x = a
      BY <3>2, AppendHas
    <3>4. \A d : Ran(d)' <=> Ran(d)
      BY <3>1 DEF Ran
    <3>5. ExecGains
      BY <3>1, <3>4 DEF ExecGains
    <3>6. ReportGains
      BY <2>1, <3>1, <3>2, <3>3 DEF ReportGains, a
    <3> QED
      BY <2>3, <3>5, <3>6 DEF Gains
  <2>5. CASE c \in MigCmds
    <3>1. PICK r \in Results : /\ execs' = Append(execs, [cmd |-> c, state |-> r])
                               /\ reports' = Append(reports, [cmd |-> c, state |-> r])
      BY <1>3, <2>5, DeliveryAssumption DEF Receive
    <3> DEFINE e == [cmd |-> c, state |-> r]
    <3>2. e \in Report
      BY <2>5 DEF Report
    <3>3. /\ \A d : Ran(d)' <=> Ran(d) \/ d = c
          /\ \A x : In(x, execs') <=> In(x, execs) \/ x = e
      BY <2>5, <3>1, ExecutionHas
    <3>4. reports' = Append(reports, e)
      BY <3>1
    <3> HIDE DEF e
    <3>5. \A x : In(x, reports') <=> In(x, reports) \/ x = e
      BY <3>2, <3>4, AppendHas
    <3> HIDE DEF c
    <3>6. ExecGains
      BY <2>1, <2>2, <3>3 DEF ExecGains
    <3>7. ReportGains
      BY <2>1, <3>3, <3>5 DEF ReportGains
    <3> QED
      BY <2>3, <3>6, <3>7 DEF Gains
  <2> QED
    BY <2>4, <2>5
<1> QED
  BY <1>1, <1>2, <1>3 DEF Agent

\* A failure adds nothing.
LEMMA FailureGains ==
    ASSUME TypeInv,
           \/ \E s \in Sessions : HandlerFails(s)
           \/ RunHangs \/ SyncBreaks \/ AgentRestarts \/ ServerRestarts
    PROVE  Gains
<1> USE DEF TypeInv, TypeOK, srvVars, sessVars, agtVars
<1>1. ASSUME NEW s \in Sessions, HandlerFails(s) PROVE Gains
  BY <1>1, NoGains DEF HandlerFails
<1>2. CASE RunHangs
  BY <1>2, NoGains DEF RunHangs
<1>3. CASE SyncBreaks
  BY <1>3, NoGains DEF SyncBreaks
<1>4. CASE AgentRestarts
  <2>1. \A s \in Sessions : wire'[s] \in {wire[s], <<>>} /\ pc'[s] \in {pc[s], "idle"}
    BY <1>4 DEF AgentRestarts
  <2>2. \A s \in Sessions : pc'[s] = "send" => pc[s] = "send"
    BY <2>1
  <2>3. /\ reports' = <<>> /\ UNCHANGED <<rows, batch, inbox, execs>>
    BY <1>4 DEF AgentRestarts, hisVars
  <2> QED
    BY <2>1, <2>2, <2>3, NoGains
<1>5. CASE ServerRestarts
  BY <1>5, NoGains DEF ServerRestarts
<1> QED
  BY <1>1, <1>2, <1>3, <1>4, <1>5

-----------------------------------------------------------------------------
(* The theorems                                                            *)

\* The empty path is safe.
LEMMA InitSafe == Init => SafeInv
<1> SUFFICES ASSUME Init PROVE SafeInv
  OBVIOUS
<1>1. TypeInv
  BY InitType
<1>2. \A c : ~Ran(c)
  <2>1. execs = <<>>
    BY DEF Init
  <2> QED
    BY <2>1 DEF Ran
<1>3. /\ \A s \in Sessions : batch[s] = <<>> /\ wire[s] = <<>> /\ inbox[s] = <<>> /\ pc[s] = "idle"
      /\ queue = <<>> /\ reports = <<>> /\ execs = <<>>
      /\ \A c \in MigCmds : rows[c] = "none"
  BY DEF Init
<1>4. OnePlace /\ SentIsRecorded /\ ReportsAreTrue
  <2>1. OnePlace
    BY <1>2, <1>3, EmptyHas DEF OnePlace
  <2>2. SentIsRecorded /\ ReportsAreTrue
    BY <1>3, EmptyHas DEF SentIsRecorded, ReportsAreTrue
  <2> QED
    BY <2>1, <2>2
<1>5. AtMostOnce /\ ExecutedIsRecorded /\ RecordIsTruthful
  BY <1>3 DEF AtMostOnce, ExecutedIsRecorded, RecordIsTruthful, Results
<1> QED
  BY <1>1, <1>4, <1>5 DEF SafeInv

\* Every step keeps the path safe.
LEMMA NextSafe == SafeInv /\ [Next]_vars => SafeInv'
<1>1. ASSUME SafeInv, UNCHANGED vars PROVE SafeInv'
  BY <1>1 DEF vars, SafeInv, TypeInv, TypeOK, SendHasCommand, OnePlace, Ran, AtMostOnce,
     SentIsRecorded, ExecutedIsRecorded, ReportsAreTrue, RecordIsTruthful
<1>2. ASSUME SafeInv, Next PROVE SafeInv'
  <2>1. TypeInv /\ TypeInv' /\ Gains
    BY <1>2, NextType, OperatorGains, HandlerGains, AgentGains, FailureGains DEF SafeInv, Next
  <2>2. OnePlace' /\ AtMostOnce'
    BY <1>2, NextOnePlace
  <2>3. \A c \in MigCmds : Ran(c) => rows[c] # "none"
    BY <1>2 DEF SafeInv, ExecutedIsRecorded, Ran
  <2>4. \A c \in MigCmds : Ran(c)' => rows'[c] # "none"
    BY <1>2, <2>1, <2>3 DEF Gains, RowGains, ExecGains, SafeInv, SentIsRecorded
  <2>5. ExecutedIsRecorded'
    <3>1. execs' \in Seq([cmd : MigCmds, state : Results])
      BY <2>1 DEF TypeInv, TypeOK
    <3>2. \A i \in 1..Len(execs') : execs'[i] \in [cmd : MigCmds, state : Results]
      BY <3>1, ElementType
    <3>3. \A c : Ran(c)' <=> \E k \in 1..Len(execs') : execs'[k].cmd = c
      BY DEF Ran
    <3>4. ASSUME NEW i \in 1..Len(execs') PROVE rows'[execs'[i].cmd] # "none"
      <4>1. PICK c \in MigCmds : c = execs'[i].cmd
        BY <3>2
      <4> QED
        BY <2>4, <3>3, <4>1
    <3> QED
      BY <3>4 DEF ExecutedIsRecorded
  <2>6. SentIsRecorded'
    <3>1. \A s \in Sessions : pc[s] = "send" => Head(batch[s]) \in MigCmds
      BY <2>1 DEF TypeInv, TypeOK, SendHasCommand
    <3>2. \A s \in Sessions : pc'[s] = "send" => rows'[Head(batch'[s])] # "none"
      BY <1>2, <2>1, <3>1 DEF Gains, RowGains, SendGains, SafeInv, SentIsRecorded
    <3>3. \A s \in Sessions, c \in MigCmds : In(c, wire'[s]) => rows'[c] # "none"
      BY <1>2, <2>1, <3>1 DEF Gains, RowGains, WireGains, SafeInv, SentIsRecorded
    <3> QED
      BY <3>2, <3>3 DEF SentIsRecorded
  <2>7. ReportsAreTrue'
    BY <1>2, <2>1 DEF Gains, ReportGains, ExecGains, SafeInv, ReportsAreTrue, Outcome
  <2>8. RecordIsTruthful'
    <3> SUFFICES ASSUME NEW c \in MigCmds, rows'[c] \in Results
                 PROVE  In([cmd |-> c, state |-> rows'[c]], execs')
      BY DEF RecordIsTruthful
    <3> DEFINE x == [cmd |-> c, state |-> rows'[c]]
    <3>1. x \in Outcome
      BY DEF Outcome
    <3>2. In(x, execs)
      BY <1>2, <2>1, <3>1 DEF Gains, RowGains, SafeInv, RecordIsTruthful, ReportsAreTrue, Outcome
    <3> QED
      BY <2>1, <3>1, <3>2 DEF Gains, ExecGains
  <2> QED
    BY <2>1, <2>2, <2>5, <2>6, <2>7, <2>8 DEF SafeInv
<1> QED
  BY <1>1, <1>2

\* Every state of the path is safe.
LEMMA Safety == Spec => []SafeInv
  BY InitSafe, NextSafe, PTL DEF Spec

\* No migration command is executed twice, for any number of commands and half-open
\* connections and whatever fails: Drain hands each command to one handler.
THEOREM ExecutedAtMostOnce == Spec => []AtMostOnce
<1>1. SafeInv => AtMostOnce
  BY DEF SafeInv
<1> QED
  BY <1>1, Safety, PTL

\* A command changes a host only when migration_transactions has its row.
THEOREM ExecutionsAreRecorded == Spec => []ExecutedIsRecorded
<1>1. SafeInv => ExecutedIsRecorded
  BY DEF SafeInv
<1> QED
  BY <1>1, Safety, PTL

\* A result in migration_transactions is one that the engine obtained.
THEOREM RecordsAreTruthful == Spec => []RecordIsTruthful
<1>1. SafeInv => RecordIsTruthful
  BY DEF SafeInv
<1> QED
  BY <1>1, Safety, PTL

-----------------------------------------------------------------------------
(* Order: what is executed, on the live session, and queued, in this order *)

\* Where a handler may hold commands, and what a session that is not in use leaves
\* behind; until something fails, no handler runs without its peer and no command
\* of a migration hangs.
HandlerStages ==
    /\ waits = "run" => faults > 0
    /\ \A s \in Sessions :
         /\ batch[s] # <<>> => pc[s] \in {"insert", "send"}
         /\ pc[s] # "report" => inbox[s] = <<>>
         /\ ~Live(s) \/ pc[s] = "report" => wire[s] = <<>>
         /\ faults = 0 => pc[s] # "err" /\ (~Live(s) => pc[s] = "idle")

\* Every request that has begun is in the history, once.
AcceptedOnce ==
    /\ Distinct(accepted)
    /\ \A c \in MigCmds : post[c] # "new" <=> In(c, accepted)

Older(c, d) ==
    \E i, j \in 1..Len(accepted) : i < j /\ accepted[i] = c /\ accepted[j] = d

InSequence(q) ==
    \A i, j \in 1..Len(q) :
        i < j /\ q[i] \in MigCmds /\ q[j] \in MigCmds => Older(q[i], q[j])

Precedes(p, q) == \A c, d \in MigCmds : In(c, p) /\ In(d, q) => Older(c, d)

RanBefore(q) == \A c, d \in MigCmds : Ran(c) /\ In(d, q) => Older(c, d)

\* The executions, then the wire and the batch of the session in use, then the queue
\* follow the order of acceptance.  The batch of a dead connection need not: nothing
\* of it reaches the agent.
InOrder ==
    /\ InSequence(queue) /\ RanBefore(queue)
    /\ \A s \in Sessions : Live(s) =>
         /\ InSequence(wire[s]) /\ InSequence(batch[s])
         /\ RanBefore(wire[s]) /\ RanBefore(batch[s])
         /\ Precedes(wire[s], batch[s]) /\ Precedes(wire[s], queue)
         /\ Precedes(batch[s], queue)

ChannelInv == SafeInv /\ HandlerStages /\ AcceptedOnce /\ InOrder /\ NoSilentLoss

\* Every step keeps the handlers' stages.
LEMMA NextStages == ASSUME TypeInv, HandlerStages, Next PROVE HandlerStages'
<1> USE DeliveryAssumption
    DEF TypeInv, TypeOK, HandlerStages, srvVars, sessVars, agtVars, hisVars, Live, Fault
<1>1. CASE Operator
  <2>1. ASSUME NEW c \in MigCmds, EnqueueMigration(c) \/ PersistMigration(c)
        PROVE  HandlerStages'
    BY <2>1 DEF EnqueueMigration, PersistMigration
  <2>2. ASSUME NEW c \in MigCmds, PersistFails(c) PROVE HandlerStages'
    BY <2>2 DEF PersistFails
  <2>3. ASSUME NEW c \in ScanCmds, EnqueueAgentCommand(c) PROVE HandlerStages'
    BY <2>3 DEF EnqueueAgentCommand
  <2> QED
    BY <1>1, <2>1, <2>2, <2>3 DEF Operator
<1>2. ASSUME NEW s \in Sessions, Handler(s) PROVE HandlerStages'
  <2>1. CASE RecvPayload(s)
    BY <2>1 DEF RecvPayload
  <2>2. CASE DrainQueue(s)
    BY <2>2 DEF DrainQueue, Drain
  <2>3. CASE InsertCommand(s)
    <3>1. /\ pc[s] = "insert" /\ pc' = [pc EXCEPT ![s] = "send"]
          /\ UNCHANGED <<batch, inbox, wire, conn, waits, faults>> /\ (~(conn = s) => HalfOpen)
      BY <2>3 DEF InsertCommand, Runs
    <3> QED
      BY <3>1
  <2>4. CASE SendCommand(s)
    BY <2>4 DEF SendCommand, Send
  <2>5. CASE DrainAgentCommands(s)
    BY <2>5 DEF DrainAgentCommands
  <2>6. CASE SendAgentCommand(s)
    BY <2>6 DEF SendAgentCommand, Send
  <2>7. CASE MarkDelivered(s) \/ NextPayload(s) \/ ReportsDone(s)
    BY <2>7 DEF MarkDelivered, NextPayload, ReportsDone
  <2>8. CASE EndOfStream(s)
    BY <2>8 DEF EndOfStream
  <2>9. CASE ProcessReport(s)
    <3>1. pc[s] = "report" /\ UNCHANGED <<pc, batch, wire, conn, waits>>
      BY <2>9 DEF ProcessReport
    <3>2. inbox' = [inbox EXCEPT ![s] = Tail(inbox[s])]
      BY <2>9 DEF ProcessReport
    <3>3. \A t \in Sessions : t # s => inbox'[t] = inbox[t]
      BY <3>2
    <3>4. faults' \in {faults, faults + 1}
      BY <2>9 DEF ProcessReport
    <3>5. waits' = "run" => faults' > 0
      BY <3>1, <3>4
    <3>6. ASSUME NEW t \in Sessions
          PROVE  /\ batch'[t] # <<>> => pc'[t] \in {"insert", "send"}
                 /\ pc'[t] # "report" => inbox'[t] = <<>>
                 /\ ~(conn' = t) \/ pc'[t] = "report" => wire'[t] = <<>>
                 /\ faults' = 0 => pc'[t] # "err" /\ (~(conn' = t) => pc'[t] = "idle")
      <4>1. pc'[t] # "report" => inbox'[t] = <<>>
        BY <3>1, <3>3
      <4>2. faults' = 0 => faults = 0
        BY <3>4
      <4> QED
        BY <3>1, <4>1, <4>2
    <3> QED
      BY <3>5, <3>6
  <2> QED
    BY <1>2, <2>1, <2>2, <2>3, <2>4, <2>5, <2>6, <2>7, <2>8, <2>9 DEF Handler
<1>3. CASE Agent
  <2>1. ASSUME NEW s \in Sessions, NEW n \in 1..MaxPayloads, OpenStream(s, n)
        PROVE  HandlerStages'
    BY <2>1 DEF OpenStream
  <2>2. CASE Receive
    <3>1. /\ conn \in Sessions /\ wire[conn] # <<>> /\ pc[conn] # "report"
          /\ wire' = [wire EXCEPT ![conn] = Tail(wire[conn])]
          /\ UNCHANGED <<pc, batch, inbox, conn, faults>> /\ waits # "run" /\ waits' # "run"
      BY <2>2 DEF Receive
    <3> QED
      BY <3>1
  <2>3. CASE StreamEnds
    BY <2>3 DEF StreamEnds
  <2>4. CASE ReportAcked
    BY <2>4 DEF ReportAcked
  <2>5. CASE SyncDeferred
    BY <2>5 DEF SyncDeferred
  <2> QED
    BY <1>3, <2>1, <2>2, <2>3, <2>4, <2>5 DEF Agent
<1>4. ASSUME NEW s \in Sessions, HandlerFails(s) PROVE HandlerStages'
  BY <1>4 DEF HandlerFails
<1>5. CASE RunHangs
  <2>1. conn \in Sessions /\ wire[conn] # <<>> /\ faults' > 0
        /\ UNCHANGED <<pc, batch, inbox, wire, conn>>
    BY <1>5 DEF RunHangs
  <2> QED
    BY <2>1
<1>6. CASE SyncBreaks
  BY <1>6 DEF SyncBreaks
<1>7. CASE AgentRestarts
  BY <1>7 DEF AgentRestarts, Stuck
<1>8. CASE ServerRestarts
  BY <1>8 DEF ServerRestarts
<1> QED
  BY <1>1, <1>2, <1>3, <1>4, <1>5, <1>6, <1>7, <1>8 DEF Next

\* A request joins the history when it begins.
LEMMA NextAccepted ==
    ASSUME TypeInv, AcceptedOnce, Next
    PROVE  /\ AcceptedOnce'
           /\ \/ accepted' = accepted
              \/ \E c \in MigCmds : EnqueueMigration(c) /\ accepted' = Append(accepted, c)
<1> USE DEF TypeInv, TypeOK, srvVars, sessVars, agtVars, hisVars
<1>1. ASSUME NEW c \in MigCmds, EnqueueMigration(c) PROVE AcceptedOnce'
  <2>1. /\ accepted \in Seq(MigCmds) /\ accepted' = Append(accepted, c) /\ ~In(c, accepted)
        /\ \A d \in MigCmds : post'[d] # "new" <=> post[d] # "new" \/ d = c
    BY <1>1 DEF EnqueueMigration, AcceptedOnce, Cmds
  <2>2. Distinct(accepted') /\ \A d : In(d, accepted') <=> In(d, accepted) \/ d = c
    BY <2>1, AppendDistinct, AppendHas DEF AcceptedOnce
  <2> QED
    BY <2>1, <2>2 DEF AcceptedOnce
<1>2. CASE accepted' = accepted /\ \A c \in MigCmds : post'[c] # "new" <=> post[c] # "new"
  BY <1>2 DEF AcceptedOnce
<1>3. \/ \E c \in MigCmds : EnqueueMigration(c)
      \/ accepted' = accepted /\ \A c \in MigCmds : post'[c] # "new" <=> post[c] # "new"
  <2>1. CASE Operator
    <3>1. ASSUME NEW c \in MigCmds, PersistMigration(c) \/ PersistFails(c)
          PROVE  accepted' = accepted /\ \A d \in MigCmds : post'[d] # "new" <=> post[d] # "new"
      BY <3>1 DEF PersistMigration, PersistFails, Cmds
    <3>2. ASSUME NEW c \in ScanCmds, EnqueueAgentCommand(c)
          PROVE  accepted' = accepted /\ \A d \in MigCmds : post'[d] # "new" <=> post[d] # "new"
      BY <3>2, DeliveryAssumption DEF EnqueueAgentCommand, Cmds
    <3> QED
      BY <2>1, <3>1, <3>2 DEF Operator
  <2>2. ASSUME NEW s \in Sessions, Handler(s) PROVE accepted' = accepted /\ post' = post
    BY <2>2 DEF Handler, RecvPayload, DrainQueue, InsertCommand, SendCommand,
       DrainAgentCommands, SendAgentCommand, MarkDelivered, NextPayload, EndOfStream,
       ProcessReport, ReportsDone
  <2>3. CASE Agent
    BY <2>3 DEF Agent, OpenStream, Receive, StreamEnds, ReportAcked, SyncDeferred
  <2>4. CASE (\E s \in Sessions : HandlerFails(s)) \/ RunHangs \/ SyncBreaks \/ AgentRestarts
    BY <2>4 DEF HandlerFails, RunHangs, SyncBreaks, AgentRestarts
  <2>5. CASE ServerRestarts
    BY <2>5 DEF ServerRestarts, Cmds
  <2> QED
    BY <2>1, <2>2, <2>3, <2>4, <2>5 DEF Next
<1> QED
  BY <1>1, <1>2, <1>3 DEF EnqueueMigration

\* The order of what was accepted never changes, and a new command is younger than all.
LEMMA OlderGrows ==
    ASSUME NEW c \in MigCmds, accepted \in Seq(MigCmds), accepted' = Append(accepted, c)
    PROVE  /\ \A d, e : Older(d, e) => Older(d, e)'
           /\ \A d : In(d, accepted) => Older(d, c)'
<1>1. /\ Len(accepted') = Len(accepted) + 1 /\ Len(accepted) \in Nat
      /\ accepted'[Len(accepted) + 1] = c
      /\ \A i \in 1..Len(accepted) : accepted'[i] = accepted[i]
  OBVIOUS
<1>2. ASSUME NEW d, NEW e, Older(d, e) PROVE Older(d, e)'
  <2>1. PICK i, j \in 1..Len(accepted) : i < j /\ accepted[i] = d /\ accepted[j] = e
    BY <1>2 DEF Older
  <2>2. i \in 1..Len(accepted') /\ j \in 1..Len(accepted') /\ accepted'[i] = d /\ accepted'[j] = e
    BY <1>1, <2>1
  <2> QED
    BY <2>1, <2>2 DEF Older
<1>3. ASSUME NEW d, In(d, accepted) PROVE Older(d, c)'
  <2>1. PICK i \in 1..Len(accepted) : accepted[i] = d
    BY <1>3 DEF In
  <2>2. /\ i \in 1..Len(accepted') /\ Len(accepted) + 1 \in 1..Len(accepted')
        /\ i < Len(accepted) + 1 /\ accepted'[i] = d
    BY <1>1, <2>1
  <2> QED
    BY <1>1, <2>2 DEF Older
<1> QED
  BY <1>2, <1>3

\* Losing commands, or leaving them where they are, keeps the order.
LEMMA LossInOrder ==
    ASSUME InOrder, accepted' = accepted, execs' = execs,
           queue' \in {queue, <<>>}, conn' \in {conn, None},
           \A s \in Sessions : batch'[s] \in {batch[s], <<>>} /\ wire'[s] \in {wire[s], <<>>}
    PROVE  InOrder'
<1>1. \A c, d : /\ Older(c, d)' <=> Older(c, d)
                /\ Ran(c)' <=> Ran(c)
  BY DEF Older, Ran
<1>2. \A q : /\ InSequence(q) => InSequence(q)'
             /\ RanBefore(q) => RanBefore(q)'
             /\ \A p : Precedes(p, q) => Precedes(p, q)'
  BY <1>1 DEF InSequence, RanBefore, Precedes
<1>3. /\ InSequence(<<>>)' /\ RanBefore(<<>>)'
      /\ \A q : Precedes(<<>>, q)' /\ Precedes(q, <<>>)'
  BY EmptyHas DEF InSequence, RanBefore, Precedes
<1>4. \A s \in Sessions : Live(s)' => Live(s)
  BY DeliveryAssumption DEF Live
<1> QED
  BY <1>2, <1>3, <1>4 DEF InOrder

\* What is in the path has been accepted.
LEMMA PathIsAccepted ==
    ASSUME SafeInv, AcceptedOnce, NEW c \in MigCmds,
           \/ In(c, queue) \/ Ran(c)
           \/ \E s \in Sessions : In(c, wire[s]) \/ In(c, batch[s])
    PROVE  In(c, accepted)
  BY DEF SafeInv, OnePlace, AcceptedOnce

\* A new command goes to the end of the queue.
LEMMA EnqueueInOrder ==
    ASSUME SafeInv, AcceptedOnce, InOrder, NEW c \in MigCmds, EnqueueMigration(c)
    PROVE  InOrder'
<1>1. /\ queue \in Seq(MigCmds) /\ queue' = Append(queue, c)
      /\ accepted \in Seq(MigCmds) /\ accepted' = Append(accepted, c)
      /\ batch' = batch /\ wire' = wire /\ execs' = execs /\ conn' = conn
  BY DEF SafeInv, TypeInv, TypeOK, EnqueueMigration, sessVars, agtVars
<1>2. /\ \A d, e : Older(d, e) => Older(d, e)'
      /\ \A d : In(d, accepted) => Older(d, c)'
  BY <1>1, OlderGrows
<1>3. \A d : Ran(d)' <=> Ran(d)
  BY <1>1 DEF Ran
<1>4. \A d : In(d, queue') <=> In(d, queue) \/ d = c
  BY <1>1, AppendHas
<1>5. \A q : InSequence(q) => InSequence(q)'
  BY <1>2 DEF InSequence
<1>6. InSequence(queue)'
  <2>1. /\ Len(queue') = Len(queue) + 1 /\ Len(queue) \in Nat /\ queue'[Len(queue) + 1] = c
        /\ \A i \in 1..Len(queue) : queue'[i] = queue[i] /\ queue[i] \in MigCmds
    BY <1>1
  <2> SUFFICES ASSUME NEW i \in 1..Len(queue'), NEW j \in 1..Len(queue'), i < j
               PROVE  Older(queue[i], queue[j])'
    BY DEF InSequence
  <2>2. i \in 1..Len(queue) /\ queue'[i] = queue[i]
    BY <2>1
  <2>3. CASE j \in 1..Len(queue)
    <3>1. Older(queue[i], queue[j])
      BY <2>1, <2>2, <2>3 DEF InOrder, InSequence
    <3> QED
      BY <1>2, <2>1, <2>2, <2>3, <3>1
  <2>4. CASE j = Len(queue) + 1
    <3>1. In(queue[i], queue) /\ queue[i] \in MigCmds
      BY <2>1, <2>2 DEF In
    <3>2. In(queue[i], accepted)
      BY <3>1, PathIsAccepted
    <3> QED
      BY <1>2, <2>1, <2>2, <2>4, <3>2
  <2> QED
    BY <2>1, <2>3, <2>4
<1>7. RanBefore(queue)'
  BY <1>2, <1>3, <1>4, PathIsAccepted DEF InOrder, RanBefore
<1>8. ASSUME NEW s \in Sessions, Live(s)'
      PROVE  /\ InSequence(wire[s])' /\ InSequence(batch[s])'
             /\ RanBefore(wire[s])' /\ RanBefore(batch[s])'
             /\ Precedes(wire[s], batch[s])' /\ Precedes(wire[s], queue)'
             /\ Precedes(batch[s], queue)'
  <2>1. Live(s) /\ wire'[s] = wire[s] /\ batch'[s] = batch[s]
    BY <1>1, <1>8 DEF Live
  <2>2. InSequence(wire[s])' /\ InSequence(batch[s])'
    BY <1>5, <2>1 DEF InOrder
  <2>3. RanBefore(wire[s])' /\ RanBefore(batch[s])' /\ Precedes(wire[s], batch[s])'
    BY <1>2, <1>3, <2>1 DEF InOrder, RanBefore, Precedes
  <2>4. Precedes(wire[s], queue)' /\ Precedes(batch[s], queue)'
    BY <1>2, <1>4, <2>1, PathIsAccepted DEF InOrder, Precedes
  <2> QED
    BY <2>2, <2>3, <2>4
<1> QED
  BY <1>6, <1>7, <1>8 DEF InOrder

\* The queue becomes the batch, behind what is on the wire.
LEMMA DrainInOrder ==
    ASSUME TypeInv, InOrder, HandlerStages, NEW s \in Sessions, DrainQueue(s)
    PROVE  InOrder'
<1>1. /\ queue' = <<>> /\ batch \in [Sessions -> Seq(MigCmds)]
      /\ batch' = [batch EXCEPT ![s] = queue]
      /\ wire' = wire /\ execs' = execs /\ accepted' = accepted /\ conn' = conn
  BY DEF TypeInv, TypeOK, DrainQueue, Drain, hisVars, agtVars
<1>2. \A c, d : /\ Older(c, d)' <=> Older(c, d)
                /\ Ran(c)' <=> Ran(c)
  BY <1>1 DEF Older, Ran
<1>3. \A q : /\ InSequence(q) => InSequence(q)'
             /\ RanBefore(q) => RanBefore(q)'
             /\ \A p : Precedes(p, q) => Precedes(p, q)'
  BY <1>2 DEF InSequence, RanBefore, Precedes
<1>4. /\ InSequence(<<>>)' /\ RanBefore(<<>>)'
      /\ \A q : Precedes(<<>>, q)' /\ Precedes(q, <<>>)'
  BY EmptyHas DEF InSequence, RanBefore, Precedes
<1>5. \A t \in Sessions : batch'[t] = (IF t = s THEN queue ELSE batch[t]) /\ (Live(t)' <=> Live(t))
  BY <1>1 DEF Live
<1> QED
  BY <1>1, <1>3, <1>4, <1>5 DEF InOrder

\* Appending a younger command keeps a sequence in order.
LEMMA AppendInSequence ==
    ASSUME NEW S, NEW q \in Seq(S), NEW c \in S, InSequence(q),
           c \in MigCmds => \A d \in MigCmds : In(d, q) => Older(d, c)
    PROVE  InSequence(Append(q, c))
<1> DEFINE a == Append(q, c)
<1>1. /\ Len(a) = Len(q) + 1 /\ Len(q) \in Nat /\ a[Len(q) + 1] = c
      /\ \A i \in 1..Len(q) : a[i] = q[i]
  OBVIOUS
<1> HIDE DEF a
<1>2. SUFFICES ASSUME NEW i \in 1..Len(a), NEW j \in 1..Len(a), i < j,
                      a[i] \in MigCmds, a[j] \in MigCmds
               PROVE  Older(a[i], a[j])
  BY DEF InSequence, a
<1>3. i \in 1..Len(q)
  BY <1>1, <1>2
<1>4. CASE j \in 1..Len(q)
  BY <1>1, <1>2, <1>3, <1>4 DEF InSequence
<1>5. CASE j = Len(q) + 1
  BY <1>1, <1>2, <1>3, <1>5 DEF In
<1> QED
  BY <1>1, <1>2, <1>4, <1>5

\* The tail of a sequence in order is in order, and its head is older than its tail.
LEMMA TailInSequence ==
    ASSUME NEW S, NEW q \in Seq(S), q # <<>>, InSequence(q)
    PROVE  /\ InSequence(Tail(q))
           /\ Head(q) \in MigCmds => \A d \in MigCmds : In(d, Tail(q)) => Older(Head(q), d)
<1>1. /\ Len(q) \in Nat /\ Len(q) >= 1 /\ Len(Tail(q)) = Len(q) - 1 /\ Head(q) = q[1]
      /\ \A i \in 1..Len(q) - 1 : Tail(q)[i] = q[i + 1]
  OBVIOUS
<1>2. InSequence(Tail(q))
  <2> SUFFICES ASSUME NEW i \in 1..Len(Tail(q)), NEW j \in 1..Len(Tail(q)), i < j,
                      Tail(q)[i] \in MigCmds, Tail(q)[j] \in MigCmds
               PROVE  Older(Tail(q)[i], Tail(q)[j])
    BY DEF InSequence
  <2>1. /\ i + 1 \in 1..Len(q) /\ j + 1 \in 1..Len(q) /\ i + 1 < j + 1
        /\ q[i + 1] = Tail(q)[i] /\ q[j + 1] = Tail(q)[j]
    BY <1>1
  <2> QED
    BY <2>1 DEF InSequence
<1>3. ASSUME Head(q) \in MigCmds, NEW d \in MigCmds, In(d, Tail(q)) PROVE Older(Head(q), d)
  <2>1. PICK i \in 1..Len(Tail(q)) : Tail(q)[i] = d
    BY <1>3 DEF In
  <2>2. i + 1 \in 1..Len(q) /\ 1 \in 1..Len(q) /\ 1 < i + 1 /\ q[i + 1] = d
    BY <1>1, <2>1
  <2> QED
    BY <1>1, <1>3, <2>2 DEF InSequence
<1> QED
  BY <1>2, <1>3

\* A command that is sent leaves the front of the batch for the end of the wire.
LEMMA SendInOrder ==
    ASSUME TypeInv, InOrder, NEW s \in Sessions, SendCommand(s)
    PROVE  InOrder'
<1> DEFINE c == Head(batch[s])
<1>1. /\ batch \in [Sessions -> Seq(MigCmds)] /\ wire \in [Sessions -> Seq(Cmds)]
      /\ batch' = [batch EXCEPT ![s] = Tail(batch[s])] /\ batch[s] # <<>>
      /\ queue' = queue /\ execs' = execs /\ accepted' = accepted /\ conn' = conn
      /\ wire' = IF Live(s) THEN [wire EXCEPT ![s] = Append(wire[s], c)] ELSE wire
  BY DEF TypeInv, TypeOK, SendHasCommand, SendCommand, Send, srvVars, hisVars, agtVars
<1>2. \A d, e : /\ Older(d, e)' <=> Older(d, e)
                /\ Ran(d)' <=> Ran(d)
  BY <1>1 DEF Older, Ran
<1>3. \A q : /\ InSequence(q) => InSequence(q)'
             /\ RanBefore(q) => RanBefore(q)'
             /\ \A p : Precedes(p, q) => Precedes(p, q)'
  BY <1>2 DEF InSequence, RanBefore, Precedes
<1>4. \A t \in Sessions : Live(t)' <=> Live(t)
  BY <1>1 DEF Live
<1>5. CASE ~Live(s)
  BY <1>1, <1>3, <1>4, <1>5 DEF InOrder
<1>6. CASE Live(s)
  <2>1. /\ batch[s] \in Seq(MigCmds) /\ wire[s] \in Seq(Cmds) /\ batch[s] # <<>>
        /\ batch'[s] = Tail(batch[s]) /\ wire'[s] = Append(wire[s], c)
        /\ c \in MigCmds /\ c \in Cmds
    BY <1>1, <1>6 DEF Cmds
  <2>2. /\ InSequence(wire[s]) /\ InSequence(batch[s])
        /\ RanBefore(wire[s]) /\ RanBefore(batch[s])
        /\ Precedes(wire[s], batch[s]) /\ Precedes(wire[s], queue)
        /\ Precedes(batch[s], queue)
    BY <1>6 DEF InOrder
  <2>3. /\ In(c, batch[s]) /\ \A d : In(d, Tail(batch[s])) => In(d, batch[s])
    BY <2>1, TailHas
  <2>4. /\ InSequence(Tail(batch[s]))
        /\ \A d \in MigCmds : In(d, Tail(batch[s])) => Older(c, d)
    BY <2>1, <2>2, TailInSequence
  <2>5. \A d : In(d, wire'[s]) <=> In(d, wire[s]) \/ d = c
    BY <2>1, AppendHas
  <2>6. InSequence(Append(wire[s], c))
    BY <2>1, <2>2, <2>3, AppendInSequence DEF Precedes
  <2> HIDE DEF c
  <2>7. RanBefore(wire'[s]) /\ RanBefore(batch'[s])
    BY <2>1, <2>2, <2>3, <2>5 DEF RanBefore
  <2>8. Precedes(wire'[s], batch'[s])
    BY <2>1, <2>2, <2>3, <2>4, <2>5 DEF Precedes
  <2>9. Precedes(wire'[s], queue) /\ Precedes(batch'[s], queue)
    BY <2>1, <2>2, <2>3, <2>5 DEF Precedes
  <2>10. InSequence(wire'[s]) /\ InSequence(batch'[s])
    BY <2>1, <2>4, <2>6
  <2>11. \A t \in Sessions : Live(t)' => t = s
    BY <1>4, <1>6 DEF Live
  <2>12. InSequence(queue)' /\ RanBefore(queue)'
    BY <1>1, <1>3 DEF InOrder
  <2> QED
    BY <1>1, <1>3, <2>7, <2>8, <2>9, <2>10, <2>11, <2>12 DEF InOrder
<1> QED
  BY <1>5, <1>6

\* A scan-control command is outside the order.
LEMMA SendAgentInOrder ==
    ASSUME TypeInv, InOrder, NEW s \in Sessions, SendAgentCommand(s)
    PROVE  InOrder'
<1>1. PICK c \in abatch[s] : Send(s, c)
  BY DEF SendAgentCommand
<1>2. /\ wire \in [Sessions -> Seq(Cmds)] /\ c \in Cmds /\ c \notin MigCmds
      /\ batch' = batch /\ queue' = queue /\ execs' = execs /\ accepted' = accepted
      /\ conn' = conn
      /\ wire' = [wire EXCEPT ![s] = Append(wire[s], c)] \/ wire' = wire
  BY <1>1, DeliveryAssumption
  DEF TypeInv, TypeOK, SendAgentCommand, Send, Cmds, srvVars, hisVars, agtVars
<1>3. \A d, e : /\ Older(d, e)' <=> Older(d, e)
                /\ Ran(d)' <=> Ran(d)
  BY <1>2 DEF Older, Ran
<1>4. \A q : /\ InSequence(q) => InSequence(q)'
             /\ RanBefore(q) => RanBefore(q)'
             /\ \A p : Precedes(p, q) => Precedes(p, q)'
  BY <1>3 DEF InSequence, RanBefore, Precedes
<1>5. \A t \in Sessions : Live(t)' <=> Live(t)
  BY <1>2 DEF Live
<1>6. ASSUME NEW t \in Sessions, InSequence(wire[t])
      PROVE  InSequence(wire'[t]) /\ \A d \in MigCmds : In(d, wire'[t]) <=> In(d, wire[t])
  <2>1. wire[t] \in Seq(Cmds) /\ wire'[t] \in {wire[t], Append(wire[t], c)}
    BY <1>2
  <2>2. InSequence(Append(wire[t], c)) /\ \A d : In(d, Append(wire[t], c)) <=> In(d, wire[t]) \/ d = c
    BY <1>2, <1>6, <2>1, AppendInSequence, AppendHas
  <2> QED
    BY <1>2, <1>6, <2>1, <2>2
<1>7. ASSUME NEW t \in Sessions, Live(t)'
      PROVE  /\ InSequence(wire'[t]) /\ RanBefore(wire'[t])
             /\ Precedes(wire'[t], batch[t]) /\ Precedes(wire'[t], queue)
  BY <1>5, <1>6, <1>7 DEF InOrder, RanBefore, Precedes
<1> QED
  BY <1>2, <1>4, <1>5, <1>7 DEF InOrder

\* The agent executes the oldest command of the path.
LEMMA ReceiveInOrder ==
    ASSUME TypeInv, InOrder, Receive
    PROVE  InOrder'
<1> DEFINE c == Head(wire[conn])
           rest == Tail(wire[conn])
<1>1. /\ conn \in Sessions /\ wire[conn] \in Seq(Cmds) /\ wire[conn] # <<>>
      /\ wire' = [wire EXCEPT ![conn] = rest] /\ wire \in [Sessions -> Seq(Cmds)]
      /\ batch' = batch /\ queue' = queue /\ accepted' = accepted /\ conn' = conn
  BY DEF TypeInv, TypeOK, Receive, srvVars
<1>2. wire'[conn] = rest /\ \A t \in Sessions : Live(t)' => t = conn
  BY <1>1 DEF Live
<1>3. /\ InSequence(queue) /\ RanBefore(queue)
      /\ InSequence(wire[conn]) /\ InSequence(batch[conn])
      /\ RanBefore(wire[conn]) /\ RanBefore(batch[conn])
      /\ Precedes(wire[conn], batch[conn]) /\ Precedes(wire[conn], queue)
      /\ Precedes(batch[conn], queue)
  BY <1>1 DEF InOrder, Live
<1>4. /\ In(c, wire[conn]) /\ \A d : In(d, rest) => In(d, wire[conn])
      /\ InSequence(rest)
      /\ c \in MigCmds => \A d \in MigCmds : In(d, rest) => Older(c, d)
  BY <1>1, <1>3, TailHas, TailInSequence
<1>5. \A d : Ran(d)' => Ran(d) \/ (d = c /\ c \in MigCmds)
  <2>1. CASE c \notin MigCmds
    <3>1. execs' = execs
      BY <2>1, ReceiveCases
    <3> QED
      BY <3>1 DEF Ran
  <2>2. CASE c \in MigCmds
    <3>1. PICK r \in Results : execs' = Append(execs, [cmd |-> c, state |-> r])
      BY <2>2, ReceiveCases, DeliveryAssumption
    <3> QED
      BY <2>2, <3>1, ExecutionHas DEF TypeInv, TypeOK
  <2> QED
    BY <2>1, <2>2
<1>6. \A d, e : Older(d, e)' <=> Older(d, e)
  BY <1>1 DEF Older
<1> HIDE DEF c, rest
<1>7. InSequence(queue)' /\ InSequence(wire[conn])' /\ InSequence(batch[conn])'
  <2>1. \A q : InSequence(q) => InSequence(q)'
    BY <1>6 DEF InSequence
  <2> QED
    BY <1>1, <1>2, <1>3, <1>4, <2>1
<1>8. \A e \in MigCmds : In(e, queue) \/ In(e, batch[conn]) \/ In(e, rest) =>
         (c \in MigCmds => Older(c, e)) /\ \A d \in MigCmds : Ran(d) => Older(d, e)
  BY <1>3, <1>4 DEF Precedes, RanBefore
<1>9. ASSUME NEW d \in MigCmds, NEW e \in MigCmds, Ran(d)',
             In(e, queue) \/ In(e, batch[conn]) \/ In(e, rest)
      PROVE  Older(d, e)'
  BY <1>5, <1>6, <1>8, <1>9
<1>10. RanBefore(queue)' /\ RanBefore(wire[conn])' /\ RanBefore(batch[conn])'
  BY <1>1, <1>2, <1>9 DEF RanBefore
<1>11. /\ Precedes(wire[conn], batch[conn])' /\ Precedes(wire[conn], queue)'
       /\ Precedes(batch[conn], queue)'
  BY <1>1, <1>2, <1>3, <1>4, <1>6 DEF Precedes
<1> QED
  BY <1>1, <1>2, <1>7, <1>10, <1>11 DEF InOrder

\* Every step keeps the order.
LEMMA NextInOrder ==
    ASSUME SafeInv, AcceptedOnce, HandlerStages, InOrder, Next
    PROVE  InOrder'
<1> USE DEF SafeInv, TypeInv, TypeOK, srvVars, sessVars, agtVars, hisVars
<1>1. CASE Operator
  <2>1. ASSUME NEW c \in MigCmds, PersistMigration(c) \/ PersistFails(c) PROVE InOrder'
    BY <2>1, LossInOrder DEF PersistMigration, PersistFails
  <2>2. ASSUME NEW c \in ScanCmds, EnqueueAgentCommand(c) PROVE InOrder'
    BY <2>2, LossInOrder DEF EnqueueAgentCommand
  <2> QED
    BY <1>1, <2>1, <2>2, EnqueueInOrder DEF Operator
<1>2. ASSUME NEW s \in Sessions, Handler(s) PROVE InOrder'
  <2>1. CASE \/ RecvPayload(s) \/ InsertCommand(s) \/ DrainAgentCommands(s)
             \/ MarkDelivered(s) \/ NextPayload(s) \/ EndOfStream(s) \/ ProcessReport(s)
             \/ ReportsDone(s)
    BY <2>1, LossInOrder
    DEF RecvPayload, InsertCommand, DrainAgentCommands, MarkDelivered, NextPayload,
        EndOfStream, ProcessReport, ReportsDone
  <2> QED
    BY <1>2, <2>1, DrainInOrder, SendInOrder, SendAgentInOrder DEF Handler
<1>3. CASE Agent
  <2>1. ASSUME NEW s \in Sessions, NEW n \in 1..MaxPayloads, OpenStream(s, n)
        PROVE  InOrder'
    <3>1. /\ conn' = s /\ batch[s] = <<>> /\ batch'[s] = <<>> /\ wire'[s] = <<>>
          /\ queue' = queue /\ accepted' = accepted /\ execs' = execs
      BY <2>1 DEF OpenStream, HandlerStages
    <3>2. \A c, d : (Older(c, d)' <=> Older(c, d)) /\ (Ran(c)' <=> Ran(c))
      BY <3>1 DEF Older, Ran
    <3>3. InSequence(queue)' /\ RanBefore(queue)'
      BY <3>1, <3>2 DEF InOrder, InSequence, RanBefore
    <3>4. /\ InSequence(<<>>)' /\ RanBefore(<<>>)'
          /\ \A q : Precedes(<<>>, q)' /\ Precedes(q, <<>>)'
      BY EmptyHas DEF InSequence, RanBefore, Precedes
    <3>5. \A t \in Sessions : Live(t)' => t = s
      BY <3>1 DEF Live
    <3> QED
      BY <3>1, <3>3, <3>4, <3>5 DEF InOrder
  <2>2. CASE StreamEnds \/ ReportAcked \/ SyncDeferred
    BY <2>2, LossInOrder DEF StreamEnds, ReportAcked, SyncDeferred
  <2> QED
    BY <1>3, <2>1, <2>2, ReceiveInOrder DEF Agent
<1>4. ASSUME NEW s \in Sessions, HandlerFails(s) PROVE InOrder'
  BY <1>4, LossInOrder DEF HandlerFails
<1>5. CASE RunHangs \/ SyncBreaks \/ AgentRestarts
  BY <1>5, LossInOrder DEF RunHangs, SyncBreaks, AgentRestarts
<1>6. CASE ServerRestarts
  BY <1>6, LossInOrder DEF ServerRestarts
<1> QED
  BY <1>1, <1>2, <1>3, <1>4, <1>5, <1>6 DEF Next

-----------------------------------------------------------------------------
(* Loss: until something fails, an accepted command is somewhere           *)

Somewhere(c) ==
    \/ In(c, queue)
    \/ \E s \in Sessions : In(c, batch[s]) \/ In(c, wire[s])
    \/ Ran(c)

\* A step without failure leaves each migration command somewhere.
LEMMA NextSomewhere ==
    ASSUME TypeInv, HandlerStages, Next, faults' = 0, NEW c \in MigCmds, Somewhere(c)
    PROVE  faults = 0 /\ Somewhere(c)'
<1> USE DEF TypeInv, TypeOK, srvVars, sessVars, agtVars, hisVars
<1>1. ASSUME faults' = faults, execs' = execs, wire' = wire, batch' = batch, queue' = queue
      PROVE  faults = 0 /\ Somewhere(c)'
  BY <1>1 DEF Somewhere, Ran
<1>2. ASSUME Fault PROVE FALSE
  BY <1>2 DEF Fault
<1>3. CASE Operator
  <2>1. ASSUME NEW d \in MigCmds, EnqueueMigration(d) PROVE faults = 0 /\ Somewhere(c)'
    <3>1. /\ queue \in Seq(MigCmds) /\ queue' = Append(queue, d)
          /\ faults' = faults /\ execs' = execs /\ wire' = wire /\ batch' = batch
      BY <2>1 DEF EnqueueMigration
    <3>2. In(c, queue) => In(c, queue')
      BY <3>1, AppendHas
    <3> QED
      BY <3>1, <3>2 DEF Somewhere, Ran
  <2>2. ASSUME NEW d \in MigCmds, PersistMigration(d) PROVE faults = 0 /\ Somewhere(c)'
    BY <1>1, <2>2 DEF PersistMigration
  <2>3. ASSUME NEW d \in ScanCmds, EnqueueAgentCommand(d) PROVE faults = 0 /\ Somewhere(c)'
    BY <1>1, <2>3 DEF EnqueueAgentCommand
  <2> QED
    BY <1>2, <1>3, <2>1, <2>2, <2>3 DEF Operator, PersistFails
<1>4. ASSUME NEW s \in Sessions, Handler(s) PROVE faults = 0 /\ Somewhere(c)'
  <2>1. CASE \/ RecvPayload(s) \/ InsertCommand(s) \/ DrainAgentCommands(s)
             \/ MarkDelivered(s) \/ NextPayload(s) \/ EndOfStream(s) \/ ReportsDone(s)
    BY <1>1, <2>1
    DEF RecvPayload, InsertCommand, DrainAgentCommands, MarkDelivered, NextPayload,
        EndOfStream, ReportsDone
  <2>2. CASE DrainQueue(s)
    <3>1. /\ batch' = [batch EXCEPT ![s] = queue] /\ batch[s] = <<>>
          /\ faults' = faults /\ execs' = execs /\ wire' = wire
      BY <2>2 DEF DrainQueue, Drain, HandlerStages
    <3>2. \A t \in Sessions : In(c, batch[t]) => In(c, batch'[t])
      BY <3>1, EmptyHas
    <3>3. In(c, queue) => In(c, batch'[s])
      BY <3>1
    <3> QED
      BY <3>1, <3>2, <3>3 DEF Somewhere, Ran
  <2>3. CASE SendCommand(s)
    <3>1. faults' = faults /\ faults = 0 /\ execs' = execs /\ queue' = queue
      BY <2>3 DEF SendCommand
    <3>2. Live(s)
      BY <2>3, <3>1 DEF SendCommand, HandlerStages
    <3>3. /\ batch[s] \in Seq(MigCmds) /\ batch[s] # <<>> /\ wire[s] \in Seq(Cmds)
          /\ Head(batch[s]) \in Cmds
          /\ batch' = [batch EXCEPT ![s] = Tail(batch[s])]
          /\ wire' = [wire EXCEPT ![s] = Append(wire[s], Head(batch[s]))]
      BY <2>3, <3>2 DEF SendCommand, Send, SendHasCommand, Cmds
    <3>4. In(c, batch[s]) => c = Head(batch[s]) \/ In(c, batch'[s])
      BY <3>3, TailHas
    <3>5. In(c, wire[s]) \/ c = Head(batch[s]) => In(c, wire'[s])
      BY <3>3, AppendHas
    <3>6. \A t \in Sessions : t # s => batch'[t] = batch[t] /\ wire'[t] = wire[t]
      BY <3>3
    <3> QED
      BY <3>1, <3>4, <3>5, <3>6 DEF Somewhere, Ran
  <2>4. CASE SendAgentCommand(s)
    <3>1. PICK d \in abatch[s] : Send(s, d)
      BY <2>4 DEF SendAgentCommand
    <3>2. /\ faults' = faults /\ execs' = execs /\ queue' = queue /\ batch' = batch
          /\ d \in Cmds
          /\ wire' = [wire EXCEPT ![s] = Append(wire[s], d)] \/ wire' = wire
      BY <2>4, <3>1 DEF SendAgentCommand, Send, Cmds
    <3>3. In(c, wire[s]) => In(c, Append(wire[s], d))
      BY <3>2, AppendHas
    <3>4. \A t \in Sessions : In(c, wire[t]) => In(c, wire'[t])
      BY <3>2, <3>3
    <3> QED
      BY <3>2, <3>4 DEF Somewhere, Ran
  <2>5. CASE ProcessReport(s)
    BY <1>1, <1>2, <2>5 DEF ProcessReport
  <2> QED
    BY <1>4, <2>1, <2>2, <2>3, <2>4, <2>5 DEF Handler
<1>5. CASE Agent
  <2>1. ASSUME NEW s \in Sessions, NEW n \in 1..MaxPayloads, OpenStream(s, n)
        PROVE  faults = 0 /\ Somewhere(c)'
    <3>1. wire[s] = <<>> /\ wire' = wire
      BY <2>1, DeliveryAssumption DEF OpenStream, HandlerStages, Live
    <3> QED
      BY <1>1, <2>1, <3>1 DEF OpenStream
  <2>2. CASE StreamEnds \/ ReportAcked
    BY <1>1, <2>2 DEF StreamEnds, ReportAcked
  <2>3. CASE SyncDeferred
    BY <2>3 DEF SyncDeferred, HandlerStages
  <2>4. CASE Receive
    <3> DEFINE d == Head(wire[conn])
    <3>1. /\ conn \in Sessions /\ wire[conn] \in Seq(Cmds) /\ wire[conn] # <<>>
          /\ wire' = [wire EXCEPT ![conn] = Tail(wire[conn])]
          /\ batch' = batch /\ queue' = queue /\ faults' = faults
      BY <2>4 DEF Receive
    <3>2. In(c, wire[conn]) => c = d \/ In(c, wire'[conn])
      BY <3>1, TailHas
    <3>3. Ran(c) \/ c = d => Ran(c)'
      <4>1. CASE d \notin MigCmds
        <5>1. execs' = execs
          BY <2>4, <4>1, ReceiveCases
        <5> QED
          BY <4>1, <5>1 DEF Ran
      <4>2. CASE d \in MigCmds
        <5>1. PICK r \in Results : execs' = Append(execs, [cmd |-> d, state |-> r])
          BY <2>4, <4>2, ReceiveCases, DeliveryAssumption
        <5> QED
          BY <4>2, <5>1, ExecutionHas
      <4> QED
        BY <4>1, <4>2
    <3>4. \A t \in Sessions : t # conn => wire'[t] = wire[t]
      BY <3>1
    <3> QED
      BY <3>1, <3>2, <3>3, <3>4 DEF Somewhere
  <2> QED
    BY <1>5, <2>1, <2>2, <2>3, <2>4 DEF Agent
<1>6. ASSUME NEW s \in Sessions, HandlerFails(s) PROVE FALSE
  <2>1. ~Live(s) /\ faults = 0 /\ pc[s] # "idle"
    BY <1>2, <1>6 DEF HandlerFails
  <2> QED
    BY <2>1 DEF HandlerStages
<1>7. CASE AgentRestarts
  <2>1. faults = 0 /\ conn = None
    BY <1>7 DEF AgentRestarts, Stuck, HandlerStages
  <2>2. \A s \in Sessions : wire'[s] = wire[s]
    BY <1>7, <2>1, DeliveryAssumption DEF AgentRestarts, Live
  <2> QED
    BY <1>7, <2>1, <2>2 DEF AgentRestarts, Somewhere, Ran
<1>8. CASE RunHangs \/ SyncBreaks \/ ServerRestarts
  BY <1>2, <1>8 DEF RunHangs, SyncBreaks, ServerRestarts
<1> QED
  BY <1>3, <1>4, <1>5, <1>6, <1>7, <1>8 DEF Next

\* Until something fails, every accepted command is somewhere.
LEMMA NextNoLoss ==
    ASSUME TypeInv, HandlerStages, AcceptedOnce, NoSilentLoss, Next
    PROVE  NoSilentLoss'
<1>1. SUFFICES ASSUME faults' = 0, NEW i \in 1..Len(accepted')
               PROVE  Somewhere(accepted[i])'
  BY DEF NoSilentLoss, Somewhere, Ran
<1>2. accepted \in Seq(MigCmds)
  BY DEF TypeInv, TypeOK
<1>3. faults = 0
  <2>1. faults \in Nat /\ (faults' = faults \/ faults' = faults + 1)
    BY <1>1 DEF TypeInv, TypeOK, Next, Operator, Handler, Agent, EnqueueMigration,
       PersistMigration, PersistFails, EnqueueAgentCommand, RecvPayload, DrainQueue,
       InsertCommand, SendCommand, DrainAgentCommands, SendAgentCommand, MarkDelivered,
       NextPayload, EndOfStream, ProcessReport, ReportsDone, HandlerFails, OpenStream,
       Receive, StreamEnds, ReportAcked, SyncDeferred, RunHangs, SyncBreaks, AgentRestarts,
       ServerRestarts, Fault,
       hisVars
  <2> QED
    BY <1>1, <2>1
<1>4. ASSUME NEW j \in 1..Len(accepted), NEW c, c = accepted[j] PROVE Somewhere(c)'
  <2>1. c \in MigCmds
    BY <1>2, <1>4, ElementType
  <2>2. Somewhere(accepted[j])
    BY <1>3, <1>4, Zenon DEF NoSilentLoss, Somewhere, Ran
  <2>3. Somewhere(c)
    BY <1>4, <2>2
  <2> QED
    BY <1>1, <2>1, <2>3, NextSomewhere
<1>5. CASE accepted' = accepted
  BY <1>1, <1>4, <1>5
<1>6. ASSUME NEW c \in MigCmds, EnqueueMigration(c), accepted' = Append(accepted, c)
      PROVE  Somewhere(accepted[i])'
  <2>1. /\ Len(accepted') = Len(accepted) + 1 /\ accepted'[Len(accepted) + 1] = c
        /\ \A j \in 1..Len(accepted) : accepted'[j] = accepted[j]
        /\ Len(accepted) \in Nat
    BY <1>2, <1>6
  <2>2. CASE i \in 1..Len(accepted)
    BY <1>4, <2>1, <2>2
  <2>3. CASE i = Len(accepted) + 1
    <3>1. queue \in Seq(MigCmds) /\ queue' = Append(queue, c)
      BY <1>6 DEF EnqueueMigration, TypeInv, TypeOK
    <3>2. In(c, queue')
      BY <3>1, AppendHas
    <3> QED
      BY <2>1, <2>3, <3>2 DEF Somewhere
  <2> QED
    BY <1>1, <2>1, <2>2, <2>3
<1> QED
  BY <1>5, <1>6, NextAccepted

\* The path is empty at first.
LEMMA InitChannel == Init => ChannelInv
<1> SUFFICES ASSUME Init PROVE ChannelInv
  OBVIOUS
<1>1. SafeInv
  BY InitSafe
<1>2. HandlerStages
  BY DeliveryAssumption DEF Init, HandlerStages, Live
<1>3. /\ queue = <<>> /\ accepted = <<>> /\ execs = <<>> /\ faults = 0 /\ conn = None
      /\ \A c \in MigCmds : post[c] = "new"
  BY DEF Init, Cmds
<1>4. AcceptedOnce
  BY <1>3, EmptyHas DEF AcceptedOnce
<1>5. InOrder
  BY <1>3, DeliveryAssumption, EmptyHas DEF InOrder, Live, InSequence, RanBefore
<1>6. NoSilentLoss
  BY <1>3 DEF NoSilentLoss
<1> QED
  BY <1>1, <1>2, <1>4, <1>5, <1>6 DEF ChannelInv

\* Every step keeps the invariant of the channel.
LEMMA NextChannel == ChannelInv /\ [Next]_vars => ChannelInv'
<1>1. ASSUME ChannelInv, Next PROVE ChannelInv'
  <2>1. SafeInv /\ TypeInv
    BY <1>1 DEF ChannelInv, SafeInv
  <2>2. SafeInv'
    BY <1>1, <2>1, NextSafe
  <2>3. HandlerStages'
    BY <1>1, <2>1, NextStages DEF ChannelInv
  <2>4. AcceptedOnce'
    BY <1>1, <2>1, NextAccepted DEF ChannelInv
  <2>5. InOrder'
    BY <1>1, <2>1, NextInOrder DEF ChannelInv
  <2>6. NoSilentLoss'
    BY <1>1, <2>1, NextNoLoss DEF ChannelInv
  <2> QED
    BY <2>2, <2>3, <2>4, <2>5, <2>6 DEF ChannelInv
<1>2. ASSUME ChannelInv, UNCHANGED vars PROVE ChannelInv'
  <2>1. SafeInv'
    BY <1>2, NextSafe DEF ChannelInv
  <2>2. HandlerStages' /\ AcceptedOnce'
    BY <1>2 DEF ChannelInv, vars, HandlerStages, AcceptedOnce, Live, Distinct, In
  <2>3. InOrder'
    BY <1>2 DEF ChannelInv, vars, InOrder, Live, InSequence, RanBefore, Precedes, Older, Ran, In
  <2>4. NoSilentLoss'
    BY <1>2 DEF ChannelInv, vars, NoSilentLoss, In
  <2> QED
    BY <2>1, <2>2, <2>3, <2>4 DEF ChannelInv
<1> QED
  BY <1>1, <1>2

\* The invariant of the channel holds throughout.
LEMMA ChannelSafety == Spec => []ChannelInv
  BY InitChannel, NextChannel, PTL DEF Spec

\* The hand-over from queue to handler to wire to engine loses no command: only a failure
\* can (Drain removes what it returns, and StreamTelemetry sends all of it).
THEOREM NothingLost == Spec => []NoSilentLoss
<1>1. ChannelInv => NoSilentLoss
  BY DEF ChannelInv
<1> QED
  BY <1>1, ChannelSafety, PTL

-----------------------------------------------------------------------------
(* The path implements the channel.                                        *)

\* An insert is the abstract recording of Pending, or nothing.
LEMMA InsertRefines ==
    ASSUME TypeInv, NEW c \in MigCmds, In(c, accepted), InsertMigrationCommand(c),
           accepted' = accepted, execs' = execs
    PROVE  Channel!RecordPending(c) \/ UNCHANGED <<accepted, execs, rows>>
<1>1. rows \in [MigCmds -> RowStates]
  BY DEF TypeInv, TypeOK
<1>2. CASE rows[c] = "none"
  BY <1>1, <1>2 DEF InsertMigrationCommand, Channel!RecordPending, Channel!IsAccepted, In
<1>3. CASE rows[c] # "none"
  BY <1>1, <1>3 DEF InsertMigrationCommand
<1> QED
  BY <1>2, <1>3

\* The agent's execution of a migration is the abstract execution of the next command.
LEMMA ReceiveRefines ==
    ASSUME ChannelInv, Receive
    PROVE  (\E c \in MigCmds : Channel!Execute(c)) \/ UNCHANGED <<accepted, execs, rows>>
<1> DEFINE c == Head(wire[conn])
<1>1. SafeInv /\ TypeInv /\ TypeOK
  BY DEF ChannelInv, SafeInv, TypeInv
<1>2. accepted' = accepted /\ rows' = rows
  BY DEF Receive, srvVars
<1>3. conn \in Sessions /\ wire[conn] \in Seq(Cmds) /\ wire[conn] # <<>>
  BY <1>1, ReceiveCases
<1>4. CASE execs' = execs
  BY <1>2, <1>4
<1>5. ASSUME c \in MigCmds, NEW r \in Results,
             execs' = Append(execs, [cmd |-> c, state |-> r])
      PROVE  Channel!Execute(c)
  <2>1. In(c, wire[conn])
    BY <1>3, TailHas
  <2>2. In(c, accepted) /\ ~Ran(c)
    BY <1>1, <1>3, <1>5, <2>1, PathIsAccepted DEF ChannelInv, SafeInv, OnePlace
  <2>3. rows[c] = "Pending"
    <3>1. rows[c] \in RowStates /\ rows[c] # "none"
      BY <1>1, <1>3, <1>5, <2>1 DEF SafeInv, SentIsRecorded, TypeOK
    <3>2. rows[c] \notin Results
      <4>1. SUFFICES ASSUME rows[c] \in Results PROVE FALSE
        OBVIOUS
      <4>2. In([cmd |-> c, state |-> rows[c]], execs)
        BY <1>1, <1>5, <4>1 DEF SafeInv, RecordIsTruthful
      <4> QED
        BY <2>2, <4>2 DEF In, Ran
    <3> QED
      BY <3>1, <3>2 DEF RowStates
  <2>4. PICK i \in 1..Len(accepted) : accepted[i] = c
    BY <2>2 DEF In
  <2>5. ASSUME NEW j \in i..Len(accepted), NEW k \in 1..Len(execs),
               execs[k].cmd = accepted[j]
        PROVE  FALSE
    <3>1. Len(accepted) \in Nat /\ j \in 1..Len(accepted)
      BY <1>1 DEF TypeOK
    <3>2. accepted[j] \in MigCmds
      BY <1>1, <3>1, ElementType DEF TypeOK
    <3>3. Ran(accepted[j])
      BY <2>5 DEF Ran
    <3>4. RanBefore(wire[conn])
      BY <1>3 DEF ChannelInv, InOrder, Live
    <3>5. Older(accepted[j], c)
      BY <1>5, <2>1, <3>2, <3>3, <3>4 DEF RanBefore
    <3>6. PICK a, b \in 1..Len(accepted) : a < b /\ accepted[a] = accepted[j] /\ accepted[b] = c
      BY <3>5 DEF Older
    <3>7. a = j /\ b = i
      BY <1>5, <2>4, <3>1, <3>2, <3>6 DEF ChannelInv, AcceptedOnce, Distinct
    <3> QED
      BY <3>1, <3>6, <3>7
  <2>6. Channel!IsNext(c)
    BY <2>4, <2>5 DEF Channel!IsNext
  <2> QED
    BY <1>2, <1>5, <2>3, <2>6 DEF Channel!Execute, Channel!Results, Results
<1> QED
  BY <1>1, <1>4, <1>5, ReceiveCases

\* A processed report is the abstract recording of a result; a second one changes nothing.
LEMMA ReportRefines ==
    ASSUME ChannelInv, NEW s \in Sessions, ProcessReport(s)
    PROVE  (\E c \in MigCmds : Channel!RecordResult(c)) \/ UNCHANGED <<accepted, execs, rows>>
<1> DEFINE r == Head(inbox[s])
<1>1. SafeInv /\ TypeInv /\ TypeOK
  BY DEF ChannelInv, SafeInv, TypeInv
<1>2. accepted' = accepted /\ execs' = execs
  BY DEF ProcessReport, hisVars
<1>3. inbox[s] \in Seq(Report) /\ inbox[s] # <<>>
  BY <1>1 DEF ProcessReport, TypeOK
<1>4. r \in Report /\ In(r, inbox[s])
  BY <1>3, TailHas
<1>5. rows' = IF r.cmd \in MigCmds /\ rows[r.cmd] # "none"
                THEN [rows EXCEPT ![r.cmd] = r.state] ELSE rows
  BY DEF ProcessReport, UpdateMigrationStatus
<1>6. CASE ~(r.cmd \in MigCmds /\ rows[r.cmd] # "none")
  BY <1>2, <1>5, <1>6
<1>7. CASE r.cmd \in MigCmds /\ rows[r.cmd] # "none"
  <2>1. r \in [cmd : MigCmds, state : Results]
    BY <1>4, <1>7, DeliveryAssumption DEF Report
  <2>2. In(r, execs)
    BY <1>1, <1>4, <2>1 DEF SafeInv, ReportsAreTrue
  <2>3. PICK k \in 1..Len(execs) : execs[k] = r
    BY <2>2 DEF In
  <2>4. rows \in [MigCmds -> RowStates]
    BY <1>1 DEF TypeOK
  <2>5. CASE rows[r.cmd] = "Pending"
    <3>1. Channel!RecordResult(r.cmd)
      BY <1>2, <1>5, <1>7, <2>3, <2>5 DEF Channel!RecordResult
    <3> QED
      BY <1>7, <3>1
  <2>6. CASE rows[r.cmd] \in Results
    <3>1. In([cmd |-> r.cmd, state |-> rows[r.cmd]], execs)
      BY <1>1, <1>7, <2>6 DEF SafeInv, RecordIsTruthful
    <3>2. PICK l \in 1..Len(execs) : execs[l] = [cmd |-> r.cmd, state |-> rows[r.cmd]]
      BY <3>1 DEF In
    <3>3. execs[l].cmd = execs[k].cmd
      BY <2>3, <3>2
    <3>4. l = k
      BY <1>1, <3>3 DEF SafeInv, AtMostOnce
    <3>5. rows[r.cmd] = r.state
      BY <2>3, <3>2, <3>4
    <3> QED
      BY <1>2, <1>5, <1>7, <2>4, <3>5
  <2> QED
    BY <1>7, <2>4, <2>5, <2>6 DEF RowStates
<1> QED
  BY <1>6, <1>7

\* A step of the path is a step of the channel, or leaves it as it is.
LEMMA NextRefines ==
    ASSUME ChannelInv, Next
    PROVE  Channel!Next \/ UNCHANGED <<accepted, execs, rows>>
<1>1. SafeInv /\ TypeInv /\ TypeOK /\ AcceptedOnce
  BY DEF ChannelInv, SafeInv, TypeInv
<1>2. CASE Operator
  <2>1. ASSUME NEW c \in MigCmds, EnqueueMigration(c) PROVE Channel!Accept(c)
    <3>1. ~In(c, accepted)
      BY <1>1, <2>1 DEF AcceptedOnce, EnqueueMigration
    <3> QED
      BY <2>1, <3>1 DEF EnqueueMigration, Channel!Accept, Channel!IsAccepted, In
  <2>2. ASSUME NEW c \in MigCmds, PersistMigration(c)
        PROVE  Channel!RecordPending(c) \/ UNCHANGED <<accepted, execs, rows>>
    <3>1. In(c, accepted)
      BY <1>1, <2>2 DEF AcceptedOnce, PersistMigration
    <3> QED
      BY <1>1, <2>2, <3>1, InsertRefines DEF PersistMigration, hisVars
  <2>3. ASSUME NEW c \in MigCmds, PersistFails(c) PROVE UNCHANGED <<accepted, execs, rows>>
    BY <2>3 DEF PersistFails
  <2>4. ASSUME NEW c \in ScanCmds, EnqueueAgentCommand(c)
        PROVE  UNCHANGED <<accepted, execs, rows>>
    BY <2>4 DEF EnqueueAgentCommand, hisVars
  <2> QED
    BY <1>2, <2>1, <2>2, <2>3, <2>4 DEF Operator, Channel!Next
<1>3. ASSUME NEW s \in Sessions, Handler(s)
      PROVE  Channel!Next \/ UNCHANGED <<accepted, execs, rows>>
  <2>1. CASE InsertCommand(s)
    <3> DEFINE c == Head(batch[s])
    <3>1. batch[s] \in Seq(MigCmds) /\ batch[s] # <<>>
      BY <1>1, <2>1 DEF InsertCommand, TypeOK
    <3>2. c \in MigCmds /\ In(c, batch[s])
      BY <3>1, TailHas
    <3>3. In(c, accepted)
      BY <1>1, <3>2, PathIsAccepted
    <3>4. InsertMigrationCommand(c) /\ accepted' = accepted /\ execs' = execs
      BY <2>1 DEF InsertCommand, hisVars
    <3>5. Channel!RecordPending(c) \/ UNCHANGED <<accepted, execs, rows>>
      BY <1>1, <3>2, <3>3, <3>4, InsertRefines
    <3> QED
      BY <3>2, <3>5 DEF Channel!Next
  <2>2. CASE ProcessReport(s)
    BY <2>2, ReportRefines DEF Channel!Next
  <2>3. CASE \/ RecvPayload(s) \/ DrainQueue(s) \/ SendCommand(s) \/ DrainAgentCommands(s)
             \/ SendAgentCommand(s) \/ MarkDelivered(s) \/ NextPayload(s)
             \/ EndOfStream(s) \/ ReportsDone(s)
    BY <2>3 DEF RecvPayload, DrainQueue, SendCommand, DrainAgentCommands, SendAgentCommand,
       MarkDelivered, NextPayload, EndOfStream, ReportsDone, srvVars, hisVars
  <2> QED
    BY <1>3, <2>1, <2>2, <2>3 DEF Handler
<1>4. CASE Agent
  <2>1. CASE Receive
    BY <2>1, ReceiveRefines DEF Channel!Next
  <2>2. CASE \/ \E s \in Sessions, n \in 1..MaxPayloads : OpenStream(s, n)
             \/ StreamEnds \/ ReportAcked \/ SyncDeferred
    BY <2>2 DEF OpenStream, StreamEnds, ReportAcked, SyncDeferred, srvVars, hisVars
  <2> QED
    BY <1>4, <2>1, <2>2 DEF Agent
<1>5. CASE (\E s \in Sessions : HandlerFails(s)) \/ RunHangs \/ SyncBreaks \/ AgentRestarts
           \/ ServerRestarts
  BY <1>5 DEF HandlerFails, RunHangs, SyncBreaks, AgentRestarts, ServerRestarts, srvVars, hisVars
<1> QED
  BY <1>2, <1>3, <1>4, <1>5 DEF Next

\* The path from POST to the host and back implements CommandChannel: a lossy first-in
\* first-out channel that executes at most once and keeps an exact, final record.
THEOREM Refinement == Spec => ChannelSpec
<1>1. Init => Channel!Init
  BY DEF Init, Channel!Init
<1>2. ChannelInv /\ [Next]_vars => [Channel!Next]_(Channel!chVars)
  BY NextRefines DEF vars, Channel!chVars
<1> QED
  BY <1>1, <1>2, ChannelSafety, PTL DEF Spec, ChannelSpec, Channel!Spec

-----------------------------------------------------------------------------
(* Scan-control commands: what a late mark or report may overwrite         *)

\* A scan-control command the agent was told of in this sync: on the wire, or reported
Applied(c) == [cmd |-> c, state |-> "Applying"]
Told(c) == In(c, wire[conn]) \/ In(Applied(c), reports)

\* A report on it that the handler of an earlier connection has still to process
LateReport(c) == \E t \in Sessions : t # conn /\ In(Applied(c), inbox[t])

Once(x, q) == \A i, j \in 1..Len(q) : q[i] = x /\ q[j] = x => i = j

Listening == conn # None /\ pc[conn] \notin {"report", "err", "idle"}
InMark(c) == pc[conn] = "mark" /\ cur[conn] = c

\* A command has a status, and is held by a handler, only after its request.
StatusIsRequested ==
    \A c \in ScanCmds :
        /\ acmds[c] # "none" => post[c] = "done"
        /\ \A t \in Sessions : c \in abatch[t] \/ (pc[t] = "mark" /\ cur[t] = c) => acmds[c] # "none"

\* A command reported on an earlier connection was marked before.
LateIsMarked == \A c \in ScanCmds : LateReport(c) => acmds[c] \notin {"none", "queued"}

\* What the live handler has drained was not executed before.
DrainedIsOpen ==
    conn # None /\ pc[conn] \in {"asend", "mark"} =>
        \A c \in abatch[conn] :
            acmds[c] \in {"queued", "delivered"} /\ ~Told(c) /\ ~LateReport(c)

\* The agent is told of a command once, and it stays delivered until its report.
ToldIsOpen ==
    Listening =>
        /\ \A c \in ScanCmds :
             /\ Told(c) => /\ ~LateReport(c)
                           /\ acmds[c] = "delivered" \/ (InMark(c) /\ acmds[c] = "queued")
             /\ Once(c, wire[conn]) /\ Once(Applied(c), reports)
             /\ ~(In(c, wire[conn]) /\ In(Applied(c), reports))
        /\ pc[conn] = "mark" => cur[conn] \in ScanCmds /\ Told(cur[conn])

\* What is being reported is delivered, and reported once.
ReportedIsOpen ==
    conn # None /\ pc[conn] = "report" =>
        \A c \in ScanCmds :
            /\ Once(Applied(c), inbox[conn])
            /\ In(Applied(c), inbox[conn]) => acmds[c] = "delivered" /\ ~LateReport(c)

ScanCmdParts ==
    StatusIsRequested /\ LateIsMarked /\ DrainedIsOpen /\ ToldIsOpen /\ ReportedIsOpen

\* CompletedStays is about single steps; which status a step may overwrite follows from
\* what was drained, sent and reported before it.
ScanCmdInv == TypeInv /\ HandlerStages /\ ScanCmdParts

\* Append of an element that is not in a sequence leaves each element there once.
LEMMA AppendOnce ==
    ASSUME NEW S, NEW q \in Seq(S), NEW e \in S, NEW x, Once(x, q), x = e => ~In(x, q)
    PROVE  Once(x, Append(q, e))
<1>1. /\ Len(Append(q, e)) = Len(q) + 1 /\ Len(q) \in Nat
      /\ Append(q, e)[Len(q) + 1] = e
      /\ \A i \in 1..Len(q) : Append(q, e)[i] = q[i]
  OBVIOUS
<1> QED
  BY <1>1 DEF Once, In

\* The head of a sequence that has it once is not in its tail.
LEMMA TailOnce ==
    ASSUME NEW S, NEW q \in Seq(S), q # <<>>, NEW x, Once(x, q)
    PROVE  Once(x, Tail(q)) /\ (x = Head(q) => ~In(x, Tail(q)))
<1>1. /\ Len(q) \in Nat /\ Len(q) >= 1 /\ Len(Tail(q)) = Len(q) - 1 /\ Head(q) = q[1]
      /\ \A i \in 1..Len(q) - 1 : Tail(q)[i] = q[i + 1]
  OBVIOUS
<1>2. Once(x, Tail(q))
  <2> SUFFICES ASSUME NEW i \in 1..Len(Tail(q)), NEW j \in 1..Len(Tail(q)),
                      Tail(q)[i] = x, Tail(q)[j] = x
               PROVE  i = j
    BY DEF Once
  <2>1. i + 1 \in 1..Len(q) /\ j + 1 \in 1..Len(q) /\ q[i + 1] = x /\ q[j + 1] = x
    BY <1>1
  <2>2. i + 1 = j + 1
    BY <2>1 DEF Once
  <2> QED
    BY <2>2
<1>3. ASSUME x = Head(q), In(x, Tail(q)) PROVE FALSE
  <2>1. PICK i \in 1..Len(Tail(q)) : Tail(q)[i] = x
    BY <1>3 DEF In
  <2>2. i + 1 \in 1..Len(q) /\ 1 \in 1..Len(q) /\ q[i + 1] = x /\ q[1] = x /\ i + 1 # 1
    BY <1>1, <1>3, <2>1
  <2> QED
    BY <2>2 DEF Once
<1> QED
  BY <1>2, <1>3

\* The path starts without commands.
LEMMA InitScanCmd == Init => ScanCmdInv
<1> SUFFICES ASSUME Init PROVE ScanCmdInv
  OBVIOUS
<1>1. TypeInv /\ HandlerStages
  BY InitChannel, InitType DEF ChannelInv
<1>2. /\ conn = None /\ \A c \in ScanCmds : acmds[c] = "none"
      /\ \A t \in Sessions : abatch[t] = {} /\ pc[t] = "idle" /\ inbox[t] = <<>>
  BY DEF Init
<1>3. \A c : ~LateReport(c)
  BY <1>2, EmptyHas DEF LateReport
<1> QED
  BY <1>1, <1>2, <1>3 DEF ScanCmdInv, ScanCmdParts, StatusIsRequested, LateIsMarked, DrainedIsOpen,
     ToldIsOpen, Listening, ReportedIsOpen

\* A step beside the exchange between the live handler and the agent: a status changes only
\* as a handler changes it that holds the command, what is held becomes less, and the live
\* handler stays where it is, fails, or is at a stage without scan-control commands.
LEMMA SideScanCmd ==
    ASSUME TypeInv, ScanCmdParts, conn' = conn, reports' = reports,
           \A c \in ScanCmds : post[c] = "done" => post'[c] = "done",
           \A c \in ScanCmds :
               \/ acmds'[c] = acmds[c]
               \/ acmds[c] # "none" /\ acmds'[c] = "delivered"
               \/ LateReport(c) /\ acmds'[c] = "executing"
               \/ acmds[c] = "executing" /\ acmds'[c] = "completed",
           \A c \in ScanCmds, t \in Sessions :
               c \in abatch'[t] \/ (pc'[t] = "mark" /\ cur'[t] = c) => acmds[c] # "none",
           \A t \in Sessions : \A x : In(x, inbox'[t]) => In(x, inbox[t]),
           conn # None =>
               /\ inbox'[conn] \in {inbox[conn], <<>>}
               /\ \A c \in ScanCmds : /\ In(c, wire'[conn]) <=> In(c, wire[conn])
                                      /\ Once(c, wire[conn]) => Once(c, wire'[conn])
               /\ \/ pc'[conn] = pc[conn] /\ abatch'[conn] = abatch[conn] /\ cur'[conn] = cur[conn]
                  \/ pc'[conn] = "err"
                  \/ /\ pc[conn] \notin {"report", "err", "idle", "mark"}
                     /\ pc'[conn] \notin {"report", "asend", "mark"}
    PROVE  ScanCmdParts'
<1>0. StatusIsRequested /\ LateIsMarked /\ DrainedIsOpen /\ ToldIsOpen /\ ReportedIsOpen
  BY DEF ScanCmdParts
<1>1. \A c \in ScanCmds : LateReport(c)' => LateReport(c)
  BY DEF LateReport, Applied
<1>2. \A c \in ScanCmds : acmds[c] # "none" => acmds'[c] # "none"
  OBVIOUS
<1>3. \A c \in ScanCmds : acmds'[c] # "none" => acmds[c] # "none"
  BY <1>0 DEF LateIsMarked
<1>4. StatusIsRequested'
  BY <1>0, <1>2, <1>3 DEF StatusIsRequested
<1>5. LateIsMarked'
  BY <1>0, <1>1 DEF LateIsMarked
<1>6. CASE conn = None
  BY <1>4, <1>5, <1>6 DEF ScanCmdParts, DrainedIsOpen, ToldIsOpen, Listening, ReportedIsOpen
<1>7. CASE conn # None
  <2>1. \A c \in ScanCmds : Told(c)' <=> Told(c)
    BY <1>7 DEF Told, Applied
  <2>2. DrainedIsOpen'
    <3> SUFFICES ASSUME pc'[conn] \in {"asend", "mark"}, NEW c \in abatch'[conn]
                 PROVE  acmds'[c] \in {"queued", "delivered"} /\ ~Told(c)' /\ ~LateReport(c)'
      BY <1>7 DEF DrainedIsOpen
    <3>1. pc'[conn] = pc[conn] /\ abatch'[conn] = abatch[conn]
      BY <1>7
    <3>2. c \in ScanCmds
      BY <1>7, <3>1 DEF TypeInv, TypeOK
    <3>3. acmds[c] \in {"queued", "delivered"} /\ ~Told(c) /\ ~LateReport(c)
      BY <1>0, <1>7, <3>1 DEF DrainedIsOpen
    <3> QED
      BY <1>1, <2>1, <3>2, <3>3
  <2>3. ToldIsOpen'
    <3> SUFFICES ASSUME Listening'
                 PROVE  /\ \A c \in ScanCmds :
                             /\ Told(c)' => /\ ~LateReport(c)'
                                            /\ acmds'[c] = "delivered"
                                               \/ (InMark(c)' /\ acmds'[c] = "queued")
                             /\ Once(c, wire'[conn]) /\ Once(Applied(c), reports)
                             /\ ~(In(c, wire'[conn]) /\ In(Applied(c), reports))
                        /\ (pc[conn] = "mark" => cur[conn] \in ScanCmds /\ Told(cur[conn]))'
      BY DEF ToldIsOpen, Applied
    <3>1. Listening
      BY <1>7 DEF Listening
    <3>2. \A c \in ScanCmds : acmds[c] = "queued" /\ InMark(c) => acmds'[c] = "delivered" \/ InMark(c)'
      <4> SUFFICES ASSUME NEW c \in ScanCmds, InMark(c) PROVE InMark(c)'
        OBVIOUS
      <4>1. pc'[conn] = pc[conn] /\ cur'[conn] = cur[conn]
        BY <1>7 DEF InMark, Listening
      <4> QED
        BY <4>1 DEF InMark
    <3>3. ASSUME NEW c \in ScanCmds, Told(c)
          PROVE  ~LateReport(c)' /\ (acmds'[c] = "delivered" \/ (InMark(c)' /\ acmds'[c] = "queued"))
      <4>1. ~LateReport(c) /\ (acmds[c] = "delivered" \/ (InMark(c) /\ acmds[c] = "queued"))
        BY <1>0, <3>1, <3>3 DEF ToldIsOpen
      <4>2. acmds'[c] = acmds[c] \/ acmds'[c] = "delivered"
        BY <4>1
      <4> QED
        BY <1>1, <3>2, <4>1, <4>2
    <3>4. (pc[conn] = "mark" => cur[conn] \in ScanCmds /\ Told(cur[conn]))'
      <4> SUFFICES ASSUME pc'[conn] = "mark" PROVE (cur[conn] \in ScanCmds /\ Told(cur[conn]))'
        OBVIOUS
      <4>1. pc[conn] = "mark" /\ cur'[conn] = cur[conn]
        BY <1>7
      <4>2. cur[conn] \in ScanCmds /\ Told(cur[conn])
        BY <1>0, <3>1, <4>1 DEF ToldIsOpen
      <4> QED
        BY <2>1, <4>1, <4>2 DEF Told, Applied
    <3>5. \A c \in ScanCmds : /\ Once(c, wire'[conn]) /\ Once(Applied(c), reports)
                              /\ ~(In(c, wire'[conn]) /\ In(Applied(c), reports))
      BY <1>0, <1>7, <3>1 DEF ToldIsOpen
    <3> QED
      BY <2>1, <3>3, <3>4, <3>5
  <2>4. ReportedIsOpen'
    <3> SUFFICES ASSUME pc'[conn] = "report", NEW c \in ScanCmds
                 PROVE  /\ Once(Applied(c), inbox'[conn])
                        /\ In(Applied(c), inbox'[conn]) => acmds'[c] = "delivered" /\ ~LateReport(c)'
      BY DEF ReportedIsOpen, Applied
    <3>1. pc[conn] = "report"
      BY <1>7
    <3>2. CASE inbox'[conn] = <<>>
      BY <3>2, EmptyHas DEF Once
    <3>3. CASE inbox'[conn] = inbox[conn]
      BY <1>0, <1>1, <1>7, <3>1, <3>3 DEF ReportedIsOpen
    <3> QED
      BY <1>7, <3>2, <3>3
  <2> QED
    BY <1>4, <1>5, <2>2, <2>3, <2>4 DEF ScanCmdParts
<1> QED
  BY <1>6, <1>7

\* The agent leaves its connection: the reports that were sent on it become late ones.
LEMMA LeaveScanCmd ==
    ASSUME ScanCmdInv, conn # None, conn' = None, UNCHANGED <<acmds, post, abatch, cur, inbox>>,
           \A t \in Sessions : pc'[t] \in {pc[t], "idle"}
    PROVE  ScanCmdParts'
<1>0. /\ StatusIsRequested /\ LateIsMarked /\ ReportedIsOpen
      /\ \A t \in Sessions : pc[t] # "report" => inbox[t] = <<>>
  BY DEF ScanCmdInv, ScanCmdParts, HandlerStages
<1>1. StatusIsRequested'
  BY <1>0 DEF StatusIsRequested
<1>2. ASSUME NEW c \in ScanCmds, LateReport(c)' PROVE acmds[c] \notin {"none", "queued"}
  <2>1. PICK t \in Sessions : In(Applied(c), inbox[t])
    BY <1>2 DEF LateReport, Applied
  <2>2. CASE t # conn
    BY <1>0, <2>1, <2>2 DEF LateIsMarked, LateReport
  <2>3. CASE t = conn
    <3>1. pc[conn] = "report"
      BY <1>0, <2>1, <2>3, EmptyHas
    <3> QED
      BY <1>0, <2>1, <2>3, <3>1 DEF ReportedIsOpen
  <2> QED
    BY <2>2, <2>3
<1> QED
  BY <1>0, <1>1, <1>2
  DEF ScanCmdParts, LateIsMarked, DrainedIsOpen, ToldIsOpen, Listening, ReportedIsOpen

\* A new connection starts with nothing told.
LEMMA OpenScanCmd ==
    ASSUME ScanCmdInv, NEW s \in Sessions, NEW n \in 1..MaxPayloads, OpenStream(s, n)
    PROVE  ScanCmdParts'
<1>0. /\ conn = None /\ conn' = s /\ s # None /\ pc'[s] = "recv" /\ wire'[s] = <<>> /\ reports' = <<>>
      /\ UNCHANGED <<acmds, post, abatch, cur, inbox>> /\ \A t \in Sessions : t # s => pc'[t] = pc[t]
  BY DeliveryAssumption DEF ScanCmdInv, TypeInv, TypeOK, OpenStream, srvVars
<1>1. StatusIsRequested /\ LateIsMarked
  BY DEF ScanCmdInv, ScanCmdParts
<1>2. \A c \in ScanCmds : LateReport(c)' => LateReport(c)
  BY <1>0, DeliveryAssumption DEF LateReport, Applied
<1>3. \A c : ~Told(c)'
  BY <1>0, EmptyHas DEF Told, Applied
<1>4. StatusIsRequested'
  BY <1>0, <1>1 DEF StatusIsRequested
<1>5. LateIsMarked'
  BY <1>0, <1>1, <1>2 DEF LateIsMarked
<1>6. ToldIsOpen'
  BY <1>0, <1>3 DEF ToldIsOpen, Once, Told, Applied
<1> QED
  BY <1>0, <1>4, <1>5, <1>6 DEF ScanCmdParts, DrainedIsOpen, ReportedIsOpen

\* A step of a handler beside the exchange of scan-control commands, or of one whose peer
\* is gone.
LEMMA SideHandlerScanCmd ==
    ASSUME ScanCmdInv, NEW s \in Sessions,
           \/ RecvPayload(s) \/ DrainQueue(s) \/ InsertCommand(s) \/ SendCommand(s)
           \/ NextPayload(s) \/ EndOfStream(s) \/ ReportsDone(s)
           \/ ~Live(s) /\ (\/ DrainAgentCommands(s) \/ SendAgentCommand(s) \/ MarkDelivered(s)
                           \/ ProcessReport(s))
    PROVE  ScanCmdParts'
<1>0. /\ TypeInv /\ ScanCmdParts /\ StatusIsRequested /\ LateIsMarked
      /\ pc \in [Sessions -> Stages] /\ wire \in [Sessions -> Seq(Cmds)]
      /\ conn \in Sessions \cup {None} /\ None \notin Sessions
      /\ abatch \in [Sessions -> SUBSET ScanCmds] /\ cur \in [Sessions -> ScanCmds \cup {None}]
      /\ inbox \in [Sessions -> Seq(Report)] /\ batch \in [Sessions -> Seq(MigCmds)]
      /\ acmds \in [ScanCmds -> CmdStates]
  BY DeliveryAssumption DEF ScanCmdInv, ScanCmdParts, TypeInv, TypeOK
<1>1. UNCHANGED <<conn, reports, post>>
  BY DEF RecvPayload, DrainQueue, InsertCommand, SendCommand, NextPayload, EndOfStream, ReportsDone,
     DrainAgentCommands, SendAgentCommand, MarkDelivered, ProcessReport, agtVars, srvVars
<1>2. CASE RecvPayload(s)
  <2>1. /\ UNCHANGED <<abatch, cur, wire, inbox>> /\ pc[s] = "recv" /\ pc' = [pc EXCEPT ![s] = "drain"]
        /\ \A c \in ScanCmds : acmds'[c] = IF acmds[c] = "executing" THEN "completed" ELSE acmds[c]
    BY <1>2 DEF RecvPayload, InsertTelemetry
  <2>2. \A c \in ScanCmds, t \in Sessions :
            c \in abatch'[t] \/ (pc'[t] = "mark" /\ cur'[t] = c) => acmds[c] # "none"
    BY <1>0, <2>1 DEF StatusIsRequested
  <2>3. conn # None => \/ pc'[conn] = pc[conn]
                       \/ pc[conn] \notin {"report", "err", "idle", "mark"}
                          /\ pc'[conn] \notin {"report", "asend", "mark"}
    BY <1>0, <2>1
  <2> QED
    BY <1>0, <1>1, <2>1, <2>2, <2>3, SideScanCmd
<1>3. CASE DrainQueue(s) \/ InsertCommand(s) \/ NextPayload(s) \/ EndOfStream(s) \/ ReportsDone(s)
  <2>1. /\ UNCHANGED <<acmds, abatch, cur, wire, inbox>>
        /\ pc' = [pc EXCEPT ![s] = pc'[s]] /\ pc'[s] \notin {"report", "asend", "mark"}
        /\ conn = s => pc[s] \notin {"report", "err", "idle", "mark"}
    <3>1. CASE DrainQueue(s)
      BY <1>0, <3>1 DEF DrainQueue
    <3>2. CASE InsertCommand(s)
      BY <1>0, <3>2 DEF InsertCommand
    <3>3. CASE NextPayload(s)
      BY <1>0, <3>3 DEF NextPayload, srvVars
    <3>4. CASE EndOfStream(s)
      BY <1>0, <3>4 DEF EndOfStream, srvVars
    <3>5. CASE ReportsDone(s)
      BY <1>0, <3>5 DEF ReportsDone, Live, srvVars
    <3> QED
      BY <1>3, <3>1, <3>2, <3>3, <3>4, <3>5
  <2>2. \A c \in ScanCmds, t \in Sessions :
            c \in abatch'[t] \/ (pc'[t] = "mark" /\ cur'[t] = c) => acmds[c] # "none"
    BY <1>0, <2>1 DEF StatusIsRequested
  <2>3. conn # None => \/ pc'[conn] = pc[conn]
                       \/ pc[conn] \notin {"report", "err", "idle", "mark"}
                          /\ pc'[conn] \notin {"report", "asend", "mark"}
    BY <1>0, <2>1
  <2> QED
    BY <1>0, <1>1, <2>1, <2>2, <2>3, SideScanCmd
<1>4. CASE SendCommand(s)
  <2>1. /\ UNCHANGED <<acmds, abatch, cur, inbox>> /\ pc[s] = "send" /\ pc' = [pc EXCEPT ![s] = "insert"]
        /\ wire' = IF conn = s THEN [wire EXCEPT ![s] = Append(wire[s], Head(batch[s]))] ELSE wire
    BY <1>0, <1>4 DEF SendCommand, Send, Live, srvVars
  <2>2. batch[s] # <<>> /\ Head(batch[s]) \in MigCmds
    <3>1. batch[s] # <<>> /\ batch[s] \in Seq(MigCmds)
      BY <1>0, <2>1 DEF TypeInv, SendHasCommand
    <3> QED
      BY <3>1
  <2>3. \A c \in ScanCmds, t \in Sessions :
            c \in abatch'[t] \/ (pc'[t] = "mark" /\ cur'[t] = c) => acmds[c] # "none"
    BY <1>0, <2>1 DEF StatusIsRequested
  <2>4. conn # None => \/ pc'[conn] = pc[conn]
                       \/ pc[conn] \notin {"report", "err", "idle", "mark"}
                          /\ pc'[conn] \notin {"report", "asend", "mark"}
    BY <1>0, <2>1
  <2>5. ASSUME conn # None
        PROVE  \A c \in ScanCmds : /\ In(c, wire'[conn]) <=> In(c, wire[conn])
                                   /\ Once(c, wire[conn]) => Once(c, wire'[conn])
    <3>1. CASE conn = s
      <4>1. /\ wire[s] \in Seq(Cmds) /\ Head(batch[s]) \in Cmds
            /\ wire'[s] = Append(wire[s], Head(batch[s]))
            /\ \A c \in ScanCmds : c # Head(batch[s])
        BY <1>0, <2>1, <2>2, <3>1, DeliveryAssumption DEF Cmds
      <4>2. \A c : In(c, wire'[s]) <=> In(c, wire[s]) \/ c = Head(batch[s])
        BY <4>1, AppendHas
      <4>3. \A c \in ScanCmds : Once(c, wire[s]) => Once(c, wire'[s])
        BY <4>1, AppendOnce
      <4> QED
        BY <3>1, <4>1, <4>2, <4>3
    <3>2. CASE conn # s
      BY <2>1, <3>2
    <3> QED
      BY <3>1, <3>2
  <2> QED
    BY <1>0, <1>1, <2>1, <2>3, <2>4, <2>5, SideScanCmd
<1>5. CASE ~Live(s) /\ (DrainAgentCommands(s) \/ SendAgentCommand(s))
  <2>1. /\ UNCHANGED <<acmds, wire, inbox>> /\ conn # s
        /\ pc' = [pc EXCEPT ![s] = pc'[s]] /\ cur' = [cur EXCEPT ![s] = cur'[s]]
        /\ abatch' = [abatch EXCEPT ![s] = abatch'[s]]
        /\ \/ cur'[s] \in abatch[s] /\ abatch'[s] \subseteq abatch[s]
           \/ pc'[s] # "mark" /\ abatch'[s] = {c \in ScanCmds : acmds[c] = "queued"}
    <3>1. CASE DrainAgentCommands(s)
      BY <1>0, <1>5, <3>1 DEF DrainAgentCommands, Live, srvVars
    <3>2. CASE SendAgentCommand(s)
      <4>1. PICK c \in abatch[s] :
                 /\ Send(s, c) /\ cur' = [cur EXCEPT ![s] = c] /\ abatch' = [abatch EXCEPT ![s] = @ \ {c}]
        BY <3>2 DEF SendAgentCommand
      <4>2. wire' = wire
        BY <1>5, <4>1 DEF Send
      <4> QED
        BY <1>0, <1>5, <3>2, <4>1, <4>2 DEF SendAgentCommand, Live, srvVars
    <3> QED
      BY <1>5, <3>1, <3>2
  <2>2. ASSUME NEW c \in ScanCmds, NEW t \in Sessions, c \in abatch'[t] \/ (pc'[t] = "mark" /\ cur'[t] = c)
        PROVE  acmds[c] # "none"
    <3>1. CASE t = s
      BY <1>0, <2>1, <2>2, <3>1 DEF StatusIsRequested
    <3>2. CASE t # s
      BY <1>0, <2>1, <2>2, <3>2 DEF StatusIsRequested
    <3> QED
      BY <3>1, <3>2
  <2>3. conn # None => pc'[conn] = pc[conn] /\ abatch'[conn] = abatch[conn] /\ cur'[conn] = cur[conn]
    BY <1>0, <2>1
  <2> QED
    BY <1>0, <1>1, <2>1, <2>2, <2>3, SideScanCmd
<1>6. CASE ~Live(s) /\ MarkDelivered(s)
  <2>1. /\ UNCHANGED <<abatch, wire, inbox>> /\ conn # s /\ pc[s] = "mark"
        /\ pc' = [pc EXCEPT ![s] = "asend"] /\ cur' = [cur EXCEPT ![s] = None]
        /\ acmds' = [acmds EXCEPT ![cur[s]] = "delivered"]
    BY <1>6 DEF MarkDelivered, MarkAgentCommandDelivered, Live
  <2>2. ASSUME NEW c \in ScanCmds
        PROVE  acmds'[c] = acmds[c] \/ (acmds[c] # "none" /\ acmds'[c] = "delivered")
    <3>1. CASE cur[s] = c
      BY <1>0, <2>1, <3>1 DEF StatusIsRequested
    <3>2. CASE cur[s] # c
      BY <1>0, <2>1, <3>2
    <3> QED
      BY <3>1, <3>2
  <2>3. \A c \in ScanCmds, t \in Sessions :
            c \in abatch'[t] \/ (pc'[t] = "mark" /\ cur'[t] = c) => acmds[c] # "none"
    BY <1>0, <2>1 DEF StatusIsRequested
  <2>4. conn # None => pc'[conn] = pc[conn] /\ cur'[conn] = cur[conn]
    BY <1>0, <2>1
  <2> QED
    BY <1>0, <1>1, <2>1, <2>2, <2>3, <2>4, SideScanCmd
<1>7. CASE ~Live(s) /\ ProcessReport(s)
  <2> DEFINE r == Head(inbox[s])
  <2>1. /\ UNCHANGED <<pc, cur, abatch, wire>> /\ conn # s /\ inbox[s] # <<>> /\ inbox[s] \in Seq(Report)
        /\ inbox' = [inbox EXCEPT ![s] = Tail(inbox[s])]
        /\ acmds' = acmds \/ acmds' = IF r.cmd \in ScanCmds /\ acmds[r.cmd] # "none"
                                        THEN [acmds EXCEPT ![r.cmd] = "executing"] ELSE acmds
    BY <1>0, <1>7 DEF ProcessReport, UpdateCommandStatus, Live
  <2>2. r \in Report /\ In(r, inbox[s]) /\ \A x : In(x, inbox'[s]) => In(x, inbox[s])
    <3>1. Head(inbox[s]) \in Report
      BY <2>1
    <3>2. In(Head(inbox[s]), inbox[s]) /\ \A x : In(x, inbox[s]) <=> x = Head(inbox[s]) \/ In(x, Tail(inbox[s]))
      BY <2>1, TailHas
    <3> QED
      BY <1>0, <2>1, <3>1, <3>2
  <2>3. r.cmd \in ScanCmds => LateReport(r.cmd)
    <3>1. r.cmd \in ScanCmds => r = Applied(r.cmd)
      BY <2>2, DeliveryAssumption DEF Report, Applied
    <3> QED
      BY <2>1, <2>2, <3>1 DEF LateReport
  <2> HIDE DEF r
  <2>4. ASSUME NEW c \in ScanCmds
        PROVE  acmds'[c] = acmds[c] \/ (LateReport(c) /\ acmds'[c] = "executing")
    <3>1. CASE c = r.cmd
      BY <1>0, <2>1, <2>3, <3>1
    <3>2. CASE c # r.cmd
      BY <1>0, <2>1, <3>2
    <3> QED
      BY <3>1, <3>2
  <2>5. \A c \in ScanCmds, t \in Sessions :
            c \in abatch'[t] \/ (pc'[t] = "mark" /\ cur'[t] = c) => acmds[c] # "none"
    BY <1>0, <2>1 DEF StatusIsRequested
  <2>6. \A t \in Sessions : \A x : In(x, inbox'[t]) => In(x, inbox[t])
    BY <1>0, <2>1, <2>2
  <2>7. conn # None => inbox'[conn] = inbox[conn]
    BY <1>0, <2>1
  <2> QED
    BY <1>0, <1>1, <2>1, <2>4, <2>5, <2>6, <2>7, SideScanCmd
<1> QED
  BY <1>2, <1>3, <1>4, <1>5, <1>6, <1>7

\* The live handler drains the queued commands, of which the agent was not told.
LEMMA DrainScanCmd ==
    ASSUME ScanCmdInv, NEW s \in Sessions, Live(s), DrainAgentCommands(s)
    PROVE  ScanCmdParts' /\ acmds' = acmds
<1>0. /\ StatusIsRequested /\ LateIsMarked /\ ToldIsOpen
      /\ pc \in [Sessions -> Stages] /\ abatch \in [Sessions -> SUBSET ScanCmds]
      /\ conn = s /\ conn # None
  BY DeliveryAssumption DEF ScanCmdInv, ScanCmdParts, TypeInv, TypeOK, Live
<1>1. /\ UNCHANGED <<acmds, post, cur, wire, inbox, conn, reports>>
      /\ pc[s] = "insert" /\ pc' = [pc EXCEPT ![s] = "asend"]
      /\ abatch' = [abatch EXCEPT ![s] = {c \in ScanCmds : acmds[c] = "queued"}]
  BY DEF DrainAgentCommands, agtVars, srvVars
<1>2. pc'[s] = "asend" /\ abatch'[s] = {c \in ScanCmds : acmds[c] = "queued"}
  BY <1>0, <1>1
<1>3. \A c \in ScanCmds : (LateReport(c)' <=> LateReport(c)) /\ (Told(c)' <=> Told(c))
  BY <1>1 DEF LateReport, Told, Applied
<1>4. Listening /\ \A c \in ScanCmds : Told(c) => ~LateReport(c) /\ acmds[c] = "delivered"
  BY <1>0, <1>1 DEF ToldIsOpen, Listening, InMark
<1>5. StatusIsRequested'
  <2> SUFFICES ASSUME NEW c \in ScanCmds, NEW t \in Sessions,
                      c \in abatch'[t] \/ (pc'[t] = "mark" /\ cur'[t] = c)
               PROVE  acmds[c] # "none"
    BY <1>0, <1>1 DEF StatusIsRequested
  <2>1. CASE t = s
    BY <1>2, <2>1
  <2>2. CASE t # s
    BY <1>0, <1>1, <2>2 DEF StatusIsRequested
  <2> QED
    BY <2>1, <2>2
<1>6. LateIsMarked'
  BY <1>0, <1>1, <1>3 DEF LateIsMarked
<1>7. DrainedIsOpen'
  BY <1>0, <1>1, <1>2, <1>3, <1>4 DEF DrainedIsOpen, LateIsMarked
<1>8. \A c \in ScanCmds : /\ Once(c, wire[conn]) /\ Once(Applied(c), reports)
                          /\ ~(In(c, wire[conn]) /\ In(Applied(c), reports))
  BY <1>0, <1>4 DEF ToldIsOpen
<1>9. ToldIsOpen'
  BY <1>0, <1>1, <1>2, <1>3, <1>4, <1>8 DEF ToldIsOpen, Applied
<1> QED
  BY <1>0, <1>1, <1>2, <1>5, <1>6, <1>7, <1>9 DEF ScanCmdParts, ReportedIsOpen

\* The live handler sends a command it drained: the agent is told of it.
LEMMA SendScanCmd ==
    ASSUME ScanCmdInv, NEW s \in Sessions, Live(s), SendAgentCommand(s)
    PROVE  ScanCmdParts' /\ acmds' = acmds
<1>0. /\ StatusIsRequested /\ LateIsMarked /\ ToldIsOpen /\ DrainedIsOpen
      /\ pc \in [Sessions -> Stages] /\ abatch \in [Sessions -> SUBSET ScanCmds]
      /\ cur \in [Sessions -> ScanCmds \cup {None}] /\ wire \in [Sessions -> Seq(Cmds)]
      /\ conn = s /\ conn # None
  BY DeliveryAssumption DEF ScanCmdInv, ScanCmdParts, TypeInv, TypeOK, Live
<1>1. PICK c \in abatch[s] :
           /\ wire' = [wire EXCEPT ![s] = Append(wire[s], c)]
           /\ cur' = [cur EXCEPT ![s] = c] /\ abatch' = [abatch EXCEPT ![s] = @ \ {c}]
  BY <1>0 DEF SendAgentCommand, Send, Live
<1>2. /\ UNCHANGED <<acmds, post, inbox, conn, reports>>
      /\ pc[s] = "asend" /\ pc' = [pc EXCEPT ![s] = "mark"]
  BY DEF SendAgentCommand, agtVars, srvVars
<1>3. /\ pc'[s] = "mark" /\ cur'[s] = c /\ abatch'[s] = abatch[s] \ {c} /\ c \in ScanCmds
      /\ wire'[s] = Append(wire[s], c) /\ wire[s] \in Seq(Cmds) /\ c \in Cmds
  BY <1>0, <1>1, <1>2 DEF Cmds
<1>4. \A d : In(d, wire'[s]) <=> In(d, wire[s]) \/ d = c
  BY <1>3, AppendHas
<1>5. /\ acmds[c] \in {"queued", "delivered"} /\ ~Told(c) /\ ~LateReport(c)
      /\ \A d \in abatch[s] : acmds[d] \in {"queued", "delivered"} /\ ~Told(d) /\ ~LateReport(d)
  BY <1>0, <1>2 DEF DrainedIsOpen
<1>6. Listening /\ \A d \in ScanCmds : Told(d) => ~LateReport(d) /\ acmds[d] = "delivered"
  BY <1>0, <1>2 DEF ToldIsOpen, Listening, InMark
<1>7. \A d \in ScanCmds : LateReport(d)' <=> LateReport(d)
  BY <1>2 DEF LateReport, Applied
<1>8. \A d \in ScanCmds : Told(d)' <=> Told(d) \/ d = c
  BY <1>0, <1>2, <1>4 DEF Told, Applied
<1>9. StatusIsRequested'
  <2> SUFFICES ASSUME NEW d \in ScanCmds, NEW t \in Sessions,
                      d \in abatch'[t] \/ (pc'[t] = "mark" /\ cur'[t] = d)
               PROVE  acmds[d] # "none"
    BY <1>0, <1>2 DEF StatusIsRequested
  <2>1. CASE t = s
    BY <1>3, <1>5, <2>1
  <2>2. CASE t # s
    BY <1>0, <1>1, <1>2, <2>2 DEF StatusIsRequested
  <2> QED
    BY <2>1, <2>2
<1>10. LateIsMarked'
  BY <1>0, <1>2, <1>7 DEF LateIsMarked
<1>11. DrainedIsOpen'
  BY <1>0, <1>2, <1>3, <1>5, <1>7, <1>8 DEF DrainedIsOpen
<1>12. \A d \in ScanCmds : /\ Once(d, wire[s]) /\ Once(Applied(d), reports)
                           /\ ~(In(d, wire[s]) /\ In(Applied(d), reports))
  BY <1>0, <1>6 DEF ToldIsOpen
<1>13. \A d \in ScanCmds : Once(d, wire'[s])
  <2> SUFFICES ASSUME NEW d \in ScanCmds PROVE Once(d, wire'[s])
    OBVIOUS
  <2>1. d = c => ~In(d, wire[s])
    BY <1>0, <1>5 DEF Told
  <2> QED
    BY <1>3, <1>12, <2>1, AppendOnce
<1>14. ~In(Applied(c), reports)
  BY <1>5 DEF Told
<1>15. ToldIsOpen'
  <2>1. \A d \in ScanCmds : Told(d)' => ~LateReport(d)' /\ (acmds'[d] = "delivered"
                                                           \/ (InMark(d)' /\ acmds'[d] = "queued"))
    BY <1>0, <1>2, <1>3, <1>5, <1>6, <1>7, <1>8 DEF InMark
  <2>2. \A d \in ScanCmds : ~(In(d, wire'[s]) /\ In(Applied(d), reports))
    BY <1>4, <1>12, <1>14
  <2> QED
    BY <1>0, <1>2, <1>3, <1>8, <1>12, <1>13, <2>1, <2>2 DEF ToldIsOpen, Applied, Told
<1> QED
  BY <1>0, <1>2, <1>3, <1>9, <1>10, <1>11, <1>15 DEF ScanCmdParts, ReportedIsOpen

\* The live handler marks the command it has sent, which is queued or delivered.
LEMMA MarkScanCmd ==
    ASSUME ScanCmdInv, NEW s \in Sessions, Live(s), MarkDelivered(s)
    PROVE  /\ ScanCmdParts'
           /\ \A c \in ScanCmds : acmds[c] = "completed" => acmds'[c] = "completed"
<1>0. /\ StatusIsRequested /\ LateIsMarked /\ ToldIsOpen /\ DrainedIsOpen
      /\ pc \in [Sessions -> Stages] /\ acmds \in [ScanCmds -> CmdStates]
      /\ conn = s /\ conn # None
  BY DeliveryAssumption DEF ScanCmdInv, ScanCmdParts, TypeInv, TypeOK, Live
<1>1. /\ UNCHANGED <<abatch, post, wire, inbox, conn, reports>>
      /\ pc[s] = "mark" /\ pc' = [pc EXCEPT ![s] = "asend"] /\ cur' = [cur EXCEPT ![s] = None]
      /\ acmds' = [acmds EXCEPT ![cur[s]] = "delivered"]
  BY DEF MarkDelivered, MarkAgentCommandDelivered, agtVars
<1>2. pc'[s] = "asend" /\ Listening
  BY <1>0, <1>1 DEF Listening
<1>3. /\ cur[s] \in ScanCmds /\ Told(cur[s])
      /\ \A d \in ScanCmds : Told(d) => ~LateReport(d) /\ (acmds[d] = "delivered"
                                          \/ (d = cur[s] /\ acmds[d] = "queued"))
  BY <1>0, <1>1, <1>2 DEF ToldIsOpen, InMark
<1>4. \A d \in ScanCmds : acmds'[d] = IF d = cur[s] THEN "delivered" ELSE acmds[d]
  BY <1>0, <1>1, <1>3
<1>5. acmds[cur[s]] \in {"queued", "delivered"} /\ ~LateReport(cur[s])
  BY <1>3
<1>6. \A c \in ScanCmds : (LateReport(c)' <=> LateReport(c)) /\ (Told(c)' <=> Told(c))
  BY <1>1 DEF LateReport, Told, Applied
<1>7. StatusIsRequested'
  BY <1>0, <1>1, <1>4, <1>5 DEF StatusIsRequested
<1>8. LateIsMarked'
  BY <1>0, <1>4, <1>5, <1>6 DEF LateIsMarked
<1>9. DrainedIsOpen'
  <2> SUFFICES ASSUME NEW c \in abatch[s]
               PROVE  acmds'[c] \in {"queued", "delivered"} /\ ~Told(c)' /\ ~LateReport(c)'
    BY <1>0, <1>1 DEF DrainedIsOpen
  <2>1. c \in ScanCmds /\ acmds[c] \in {"queued", "delivered"} /\ ~Told(c) /\ ~LateReport(c)
    BY <1>0, <1>1 DEF DrainedIsOpen, ScanCmdInv, TypeInv, TypeOK
  <2> QED
    BY <1>4, <1>6, <2>1
<1>10. \A c \in ScanCmds : /\ Once(c, wire[conn]) /\ Once(Applied(c), reports)
                           /\ ~(In(c, wire[conn]) /\ In(Applied(c), reports))
  BY <1>0, <1>2 DEF ToldIsOpen
<1>11. ToldIsOpen'
  BY <1>0, <1>1, <1>2, <1>3, <1>4, <1>6, <1>10 DEF ToldIsOpen, Applied
<1> QED
  BY <1>0, <1>1, <1>2, <1>4, <1>5, <1>7, <1>8, <1>9, <1>11 DEF ScanCmdParts, ReportedIsOpen

\* The report of the sync in hand: the command is delivered, and becomes executing.
LEMMA ReportScanCmd ==
    ASSUME ScanCmdInv, NEW s \in Sessions, Live(s), ProcessReport(s)
    PROVE  /\ ScanCmdParts'
           /\ \A c \in ScanCmds : acmds[c] = "completed" => acmds'[c] = "completed"
<1> DEFINE r == Head(inbox[s])
<1>0. /\ StatusIsRequested /\ LateIsMarked /\ ReportedIsOpen
      /\ conn = s /\ conn # None /\ UNCHANGED <<post, reports, pc, wire, abatch, cur, conn>>
      /\ pc[s] = "report" /\ inbox[s] # <<>> /\ inbox[s] \in Seq(Report)
      /\ inbox' = [inbox EXCEPT ![s] = Tail(inbox[s])] /\ inbox \in [Sessions -> Seq(Report)]
      /\ acmds \in [ScanCmds -> CmdStates]
      /\ acmds' = acmds \/ acmds' = IF r.cmd \in ScanCmds /\ acmds[r.cmd] # "none"
                                      THEN [acmds EXCEPT ![r.cmd] = "executing"] ELSE acmds
  BY DeliveryAssumption
  DEF ScanCmdInv, ScanCmdParts, TypeInv, TypeOK, ProcessReport, UpdateCommandStatus, Live, agtVars
<1>1. r \in Report /\ In(r, inbox[s]) /\ inbox'[s] = Tail(inbox[s])
      /\ \A x : In(x, inbox'[s]) => In(x, inbox[s])
  <2>1. Head(inbox[s]) \in Report
    BY <1>0
  <2>2. In(Head(inbox[s]), inbox[s]) /\ \A x : In(x, inbox[s]) <=> x = Head(inbox[s]) \/ In(x, Tail(inbox[s]))
    BY <1>0, TailHas
  <2> QED
    BY <1>0, <2>1, <2>2
<1>2. r.cmd \in ScanCmds => r = Applied(r.cmd)
  BY <1>1, DeliveryAssumption DEF Report, Applied
<1>3. \A c \in ScanCmds : /\ Once(Applied(c), inbox[s])
                          /\ In(Applied(c), inbox[s]) => acmds[c] = "delivered" /\ ~LateReport(c)
  BY <1>0 DEF ReportedIsOpen
<1>4. r.cmd \in ScanCmds => acmds[r.cmd] = "delivered" /\ ~LateReport(r.cmd)
  BY <1>1, <1>2, <1>3
<1>5. \A c \in ScanCmds : Once(Applied(c), inbox'[s]) /\ (Applied(c) = r => ~In(Applied(c), inbox'[s]))
  BY <1>0, <1>1, <1>3, TailOnce
<1>6. \A c \in ScanCmds : c = r.cmd => Applied(c) = r
  BY <1>2
<1> HIDE DEF r
<1>7. \A c \in ScanCmds : \/ acmds'[c] = acmds[c]
                          \/ c = r.cmd /\ acmds[c] = "delivered" /\ acmds'[c] = "executing"
  BY <1>0, <1>4
<1>8. \A c \in ScanCmds : LateReport(c)' <=> LateReport(c)
  BY <1>0 DEF LateReport, Applied
<1>9. StatusIsRequested'
  BY <1>0, <1>7 DEF StatusIsRequested
<1>10. LateIsMarked'
  BY <1>0, <1>7, <1>8 DEF LateIsMarked
<1>11. ReportedIsOpen'
  <2> SUFFICES ASSUME NEW c \in ScanCmds, In(Applied(c), inbox'[s])
               PROVE  acmds'[c] = "delivered" /\ ~LateReport(c)'
    BY <1>0, <1>5 DEF ReportedIsOpen, Applied
  <2>1. c # r.cmd
    BY <1>5, <1>6
  <2>2. acmds[c] = "delivered" /\ ~LateReport(c)
    BY <1>1, <1>3
  <2> QED
    BY <1>7, <1>8, <2>1, <2>2
<1> QED
  BY <1>0, <1>7, <1>9, <1>10, <1>11 DEF ScanCmdParts, DrainedIsOpen, ToldIsOpen, Listening

\* The operator's request gives a command its first status.
LEMMA EnqueueScanCmd ==
    ASSUME ScanCmdInv, NEW c \in ScanCmds, EnqueueAgentCommand(c)
    PROVE  /\ ScanCmdParts'
           /\ \A d \in ScanCmds : acmds[d] = "completed" => acmds'[d] = "completed"
<1>0. /\ StatusIsRequested /\ LateIsMarked /\ ToldIsOpen /\ DrainedIsOpen /\ ReportedIsOpen
      /\ post[c] = "new" /\ post' = [post EXCEPT ![c] = "done"] /\ acmds' = [acmds EXCEPT ![c] = "queued"]
      /\ UNCHANGED <<pc, abatch, cur, wire, inbox, conn, reports>>
      /\ acmds \in [ScanCmds -> CmdStates] /\ post \in [Cmds -> {"new", "enqueued", "done"}]
      /\ abatch \in [Sessions -> SUBSET ScanCmds] /\ conn \in Sessions \cup {None}
  BY DEF EnqueueAgentCommand, sessVars, agtVars, ScanCmdInv, ScanCmdParts, TypeInv, TypeOK
<1>1. acmds[c] = "none" /\ \A d \in ScanCmds : acmds'[d] = IF d = c THEN "queued" ELSE acmds[d]
  BY <1>0 DEF StatusIsRequested
<1>2. \A d \in ScanCmds : (LateReport(d)' <=> LateReport(d)) /\ (Told(d)' <=> Told(d))
                          /\ (InMark(d)' <=> InMark(d))
  BY <1>0 DEF LateReport, Told, Applied, InMark
<1>3. ~LateReport(c) /\ \A t \in Sessions : c \notin abatch[t]
  BY <1>0, <1>1 DEF LateIsMarked, StatusIsRequested
<1>4. StatusIsRequested'
  BY <1>0, <1>1 DEF StatusIsRequested, Cmds
<1>5. LateIsMarked'
  BY <1>0, <1>1, <1>2, <1>3 DEF LateIsMarked
<1>6. DrainedIsOpen'
  BY <1>0, <1>1, <1>2 DEF DrainedIsOpen
<1>7. ToldIsOpen'
  <2> SUFFICES ASSUME Listening PROVE ToldIsOpen'
    BY <1>0 DEF ToldIsOpen, Listening
  <2>1. \A d \in ScanCmds :
            /\ Told(d) => ~LateReport(d) /\ (acmds[d] = "delivered" \/ (InMark(d) /\ acmds[d] = "queued"))
            /\ Once(d, wire[conn]) /\ Once(Applied(d), reports)
            /\ ~(In(d, wire[conn]) /\ In(Applied(d), reports))
    BY <1>0 DEF ToldIsOpen
  <2>2. \A d \in ScanCmds :
            Told(d)' => ~LateReport(d)' /\ (acmds'[d] = "delivered" \/ (InMark(d)' /\ acmds'[d] = "queued"))
    BY <1>1, <1>2, <2>1
  <2>3. (pc[conn] = "mark" => cur[conn] \in ScanCmds /\ Told(cur[conn]))'
    BY <1>0 DEF ToldIsOpen, Told, Applied
  <2> QED
    BY <1>0, <2>1, <2>2, <2>3 DEF ToldIsOpen, Applied
<1>8. ReportedIsOpen'
  BY <1>0, <1>1, <1>2 DEF ReportedIsOpen, Applied
<1> QED
  BY <1>1, <1>4, <1>5, <1>6, <1>7, <1>8 DEF ScanCmdParts

\* The agent reads a command: a scan-control command goes from the wire to the reports.
LEMMA ReceiveScanCmd == ASSUME ScanCmdInv, Receive PROVE ScanCmdParts'
<1> DEFINE h == Head(wire[conn])
<1>0. /\ conn \in Sessions /\ conn # None /\ UNCHANGED <<acmds, post, abatch, cur, pc, inbox, conn>>
      /\ wire \in [Sessions -> Seq(Cmds)] /\ reports \in Seq(Report)
      /\ wire[conn] # <<>> /\ wire[conn] \in Seq(Cmds)
      /\ wire' = [wire EXCEPT ![conn] = Tail(wire[conn])]
      /\ \/ h \in ScanCmds /\ reports' = Append(reports, Applied(h))
         \/ h \in MigCmds /\ \E x \in Results : reports' = Append(reports, [cmd |-> h, state |-> x])
      /\ StatusIsRequested /\ LateIsMarked /\ ToldIsOpen /\ DrainedIsOpen /\ ReportedIsOpen
  BY DEF ScanCmdInv, ScanCmdParts, TypeInv, TypeOK, Receive, srvVars, Applied
<1>1. wire'[conn] = Tail(wire[conn]) /\ In(h, wire[conn])
      /\ \A c : In(c, wire[conn]) <=> c = h \/ In(c, Tail(wire[conn]))
  BY <1>0, TailHas
<1>2. PICK e \in Report : reports' = Append(reports, e)
                          /\ \A c \in ScanCmds : Applied(c) = e <=> c = h
  <2>1. CASE h \in ScanCmds /\ reports' = Append(reports, Applied(h))
    <3>1. Applied(h) \in Report /\ \A c \in ScanCmds : Applied(c) = Applied(h) <=> c = h
      BY <2>1 DEF Applied, Report
    <3> QED
      BY <2>1, <3>1
  <2>2. CASE h \in MigCmds
    <3>1. PICK x \in Results : reports' = Append(reports, [cmd |-> h, state |-> x])
      BY <1>0, <2>2, DeliveryAssumption
    <3>2. [cmd |-> h, state |-> x] \in Report
      BY <2>2 DEF Report
    <3>3. \A c \in ScanCmds : c # h /\ Applied(c) # [cmd |-> h, state |-> x]
      BY <2>2, DeliveryAssumption DEF Applied
    <3> QED
      BY <3>1, <3>2, <3>3
  <2> QED
    BY <1>0, <2>1, <2>2
<1> HIDE DEF h
<1>3. \A c \in ScanCmds : In(Applied(c), reports') <=> In(Applied(c), reports) \/ c = h
  BY <1>0, <1>2, AppendHas
<1>4. \A c \in ScanCmds : Told(c)' <=> Told(c)
  BY <1>0, <1>1, <1>3 DEF Told, Applied
<1>5. \A c \in ScanCmds : (LateReport(c)' <=> LateReport(c)) /\ (InMark(c)' <=> InMark(c))
  BY <1>0 DEF LateReport, Applied, InMark
<1>6. StatusIsRequested' /\ LateIsMarked' /\ ReportedIsOpen'
  BY <1>0, <1>5 DEF StatusIsRequested, LateIsMarked, ReportedIsOpen, Applied
<1>7. DrainedIsOpen'
  <2> SUFFICES ASSUME pc[conn] \in {"asend", "mark"}, NEW c \in abatch[conn]
               PROVE  acmds[c] \in {"queued", "delivered"} /\ ~Told(c)' /\ ~LateReport(c)'
    BY <1>0 DEF DrainedIsOpen
  <2>1. c \in ScanCmds
    BY <1>0 DEF ScanCmdInv, TypeInv, TypeOK
  <2> QED
    BY <1>0, <1>4, <1>5, <2>1 DEF DrainedIsOpen
<1>8. ToldIsOpen'
  <2> SUFFICES ASSUME Listening PROVE ToldIsOpen'
    BY <1>0 DEF ToldIsOpen, Listening
  <2>1. \A c \in ScanCmds :
            /\ Told(c) => ~LateReport(c) /\ (acmds[c] = "delivered" \/ (InMark(c) /\ acmds[c] = "queued"))
            /\ Once(c, wire[conn]) /\ Once(Applied(c), reports)
            /\ ~(In(c, wire[conn]) /\ In(Applied(c), reports))
    BY <1>0 DEF ToldIsOpen
  <2>2. ASSUME NEW c \in ScanCmds
        PROVE  /\ Once(c, wire'[conn]) /\ Once(Applied(c), reports')
               /\ ~(In(c, wire'[conn]) /\ In(Applied(c), reports'))
    <3>1. Once(c, wire'[conn]) /\ (c = h => ~In(c, wire'[conn]))
      BY <1>0, <1>1, <2>1, TailOnce DEF h
    <3>2. c = h => ~In(Applied(c), reports)
      BY <1>1, <2>1
    <3>3. Once(Applied(c), reports')
      BY <1>0, <1>2, <2>1, <3>2, AppendOnce
    <3> QED
      BY <1>1, <1>3, <2>1, <3>1, <3>3
  <2>3. (pc[conn] = "mark" => cur[conn] \in ScanCmds /\ Told(cur[conn]))'
    <3> SUFFICES ASSUME pc[conn] = "mark" PROVE (cur[conn] \in ScanCmds /\ Told(cur[conn]))'
      BY <1>0
    <3>1. cur[conn] \in ScanCmds /\ Told(cur[conn])
      BY <1>0 DEF ToldIsOpen
    <3> QED
      BY <1>0, <1>4, <3>1 DEF Told, Applied
  <2> QED
    BY <1>0, <1>4, <1>5, <2>1, <2>2, <2>3 DEF ToldIsOpen, Applied
<1> QED
  BY <1>6, <1>7, <1>8 DEF ScanCmdParts

\* The stream has ended: the reports go out, or the sync is over.
LEMMA EndScanCmd == ASSUME ScanCmdInv, StreamEnds PROVE ScanCmdParts'
<1>0. /\ conn \in Sessions /\ conn # None /\ UNCHANGED <<acmds, post, abatch, cur, wire, reports>>
      /\ pc[conn] = "eof" /\ pc \in [Sessions -> Stages] /\ inbox \in [Sessions -> Seq(Report)]
      /\ \/ conn' = None /\ inbox' = inbox /\ pc' = [pc EXCEPT ![conn] = "idle"]
         \/ conn' = conn /\ pc' = [pc EXCEPT ![conn] = "report"]
            /\ inbox' = [inbox EXCEPT ![conn] = reports]
      /\ StatusIsRequested /\ LateIsMarked /\ ToldIsOpen
  BY DEF ScanCmdInv, ScanCmdParts, TypeInv, TypeOK, StreamEnds, srvVars
<1>1. CASE conn' = None
  <2>1. UNCHANGED inbox /\ \A t \in Sessions : pc'[t] \in {pc[t], "idle"}
    BY <1>0, <1>1
  <2> QED
    BY <1>0, <1>1, <2>1, LeaveScanCmd
<1>2. CASE conn' = conn /\ pc' = [pc EXCEPT ![conn] = "report"] /\ inbox' = [inbox EXCEPT ![conn] = reports]
  <2>1. pc'[conn] = "report" /\ inbox'[conn] = reports
    BY <1>0, <1>2
  <2>2. Listening
    BY <1>0 DEF Listening
  <2>3. \A c \in ScanCmds : LateReport(c)' <=> LateReport(c)
    BY <1>0, <1>2 DEF LateReport, Applied
  <2>4. \A c \in ScanCmds : /\ Once(Applied(c), reports)
                            /\ In(Applied(c), reports) => acmds[c] = "delivered" /\ ~LateReport(c)
    BY <1>0, <2>2 DEF ToldIsOpen, InMark, Told
  <2>5. StatusIsRequested'
    BY <1>0, <1>2 DEF StatusIsRequested
  <2>6. LateIsMarked'
    BY <1>0, <2>3 DEF LateIsMarked
  <2>7. ReportedIsOpen'
    BY <1>0, <1>2, <2>1, <2>3, <2>4 DEF ReportedIsOpen, Applied
  <2> QED
    BY <1>2, <2>1, <2>5, <2>6, <2>7 DEF ScanCmdParts, DrainedIsOpen, ToldIsOpen, Listening
<1> QED
  BY <1>0, <1>1, <1>2

\* A status is taken back from completed only by the handler of a connection that is gone.
StaysOrLate ==
    \A c \in ScanCmds : acmds[c] = "completed" =>
        \/ acmds'[c] = "completed"
        \/ \E s \in Sessions : ~Live(s) /\ (MarkDelivered(s) \/ ProcessReport(s))

\* Every step keeps the scan-control commands in order.
LEMMA NextScanCmd == ASSUME ScanCmdInv, Next PROVE ScanCmdParts' /\ StaysOrLate
<1>0. /\ TypeInv /\ ScanCmdParts /\ StatusIsRequested
      /\ pc \in [Sessions -> Stages] /\ wire \in [Sessions -> Seq(Cmds)] /\ conn \in Sessions \cup {None}
      /\ abatch \in [Sessions -> SUBSET ScanCmds] /\ cur \in [Sessions -> ScanCmds \cup {None}]
      /\ inbox \in [Sessions -> Seq(Report)] /\ post \in [Cmds -> {"new", "enqueued", "done"}]
      /\ None \notin Sessions /\ MigCmds \cap ScanCmds = {} /\ Cmds = MigCmds \cup ScanCmds
  BY DeliveryAssumption DEF ScanCmdInv, ScanCmdParts, TypeInv, TypeOK, Cmds
<1>1. ASSUME NEW c \in MigCmds, EnqueueMigration(c) \/ PersistMigration(c) \/ PersistFails(c)
      PROVE  ScanCmdParts' /\ StaysOrLate
  <2>1. /\ UNCHANGED <<acmds, pc, abatch, cur, wire, inbox, conn, reports>>
        /\ post' = [post EXCEPT ![c] = post'[c]]
    BY <1>0, <1>1 DEF EnqueueMigration, PersistMigration, PersistFails, sessVars, agtVars
  <2>2. \A d \in ScanCmds : post[d] = "done" => post'[d] = "done"
    BY <1>0, <2>1
  <2>3. \A d \in ScanCmds, t \in Sessions :
            d \in abatch'[t] \/ (pc'[t] = "mark" /\ cur'[t] = d) => acmds[d] # "none"
    BY <1>0, <2>1 DEF StatusIsRequested
  <2> QED
    BY <1>0, <2>1, <2>2, <2>3, SideScanCmd DEF StaysOrLate
<1>2. ASSUME NEW c \in ScanCmds, EnqueueAgentCommand(c) PROVE ScanCmdParts' /\ StaysOrLate
  BY <1>2, EnqueueScanCmd DEF StaysOrLate
<1>3. ASSUME NEW s \in Sessions, Handler(s) PROVE ScanCmdParts' /\ StaysOrLate
  <2>1. CASE Live(s) /\ DrainAgentCommands(s)
    BY <2>1, DrainScanCmd DEF StaysOrLate
  <2>2. CASE Live(s) /\ SendAgentCommand(s)
    BY <2>2, SendScanCmd DEF StaysOrLate
  <2>3. CASE Live(s) /\ MarkDelivered(s)
    BY <2>3, MarkScanCmd DEF StaysOrLate
  <2>4. CASE Live(s) /\ ProcessReport(s)
    BY <2>4, ReportScanCmd DEF StaysOrLate
  <2>5. CASE ~Live(s) /\ (MarkDelivered(s) \/ ProcessReport(s))
    BY <2>5, SideHandlerScanCmd DEF StaysOrLate
  <2>6. CASE ~Live(s) /\ (DrainAgentCommands(s) \/ SendAgentCommand(s))
    <3>1. acmds' = acmds
      BY <2>6 DEF DrainAgentCommands, SendAgentCommand, srvVars
    <3> QED
      BY <2>6, <3>1, SideHandlerScanCmd DEF StaysOrLate
  <2>7. CASE RecvPayload(s)
    <3>1. \A c \in ScanCmds : acmds[c] = "completed" => acmds'[c] = "completed"
      BY <2>7 DEF RecvPayload, InsertTelemetry
    <3> QED
      BY <2>7, <3>1, SideHandlerScanCmd DEF StaysOrLate
  <2>8. CASE \/ DrainQueue(s) \/ InsertCommand(s) \/ SendCommand(s) \/ NextPayload(s)
             \/ EndOfStream(s) \/ ReportsDone(s)
    <3>1. acmds' = acmds
      BY <2>8 DEF DrainQueue, InsertCommand, SendCommand, NextPayload, EndOfStream, ReportsDone, srvVars
    <3> QED
      BY <2>8, <3>1, SideHandlerScanCmd DEF StaysOrLate
  <2> QED
    BY <1>3, <2>1, <2>2, <2>3, <2>4, <2>5, <2>6, <2>7, <2>8 DEF Handler
<1>4. ASSUME NEW s \in Sessions, HandlerFails(s) PROVE ScanCmdParts' /\ StaysOrLate
  <2>1. /\ UNCHANGED <<acmds, post, wire, conn, reports>>
        /\ abatch' = [abatch EXCEPT ![s] = {}] /\ cur' = [cur EXCEPT ![s] = None]
        /\ inbox' = [inbox EXCEPT ![s] = <<>>]
        /\ pc' = [pc EXCEPT ![s] = IF conn = s THEN "err" ELSE "idle"]
    BY <1>4 DEF HandlerFails, Live, agtVars, srvVars
  <2>2. conn # None => /\ inbox'[conn] \in {inbox[conn], <<>>}
                       /\ \/ pc'[conn] = "err"
                          \/ pc'[conn] = pc[conn] /\ abatch'[conn] = abatch[conn] /\ cur'[conn] = cur[conn]
    BY <1>0, <2>1
  <2>3. \A d \in ScanCmds, t \in Sessions :
            d \in abatch'[t] \/ (pc'[t] = "mark" /\ cur'[t] = d) => acmds[d] # "none"
    BY <1>0, <2>1 DEF StatusIsRequested
  <2>4. \A t \in Sessions : \A x : In(x, inbox'[t]) => In(x, inbox[t])
    BY <1>0, <2>1, EmptyHas
  <2> QED
    BY <1>0, <2>1, <2>2, <2>3, <2>4, SideScanCmd DEF StaysOrLate
<1>5. ASSUME NEW s \in Sessions, NEW n \in 1..MaxPayloads, OpenStream(s, n)
      PROVE  ScanCmdParts' /\ StaysOrLate
  <2>1. acmds' = acmds
    BY <1>5 DEF OpenStream, srvVars
  <2> QED
    BY <1>5, <2>1, OpenScanCmd DEF StaysOrLate
<1>6. CASE Receive \/ StreamEnds
  <2>1. acmds' = acmds
    BY <1>6 DEF Receive, StreamEnds, srvVars
  <2> QED
    BY <1>6, <2>1, ReceiveScanCmd, EndScanCmd DEF StaysOrLate
<1>7. CASE ReportAcked \/ SyncDeferred \/ SyncBreaks
  <2>1. /\ UNCHANGED <<acmds, post, abatch, cur, inbox>> /\ conn # None /\ conn' = None
        /\ \A t \in Sessions : pc'[t] \in {pc[t], "idle"}
    BY <1>0, <1>7 DEF ReportAcked, SyncDeferred, SyncBreaks, srvVars
  <2> QED
    BY <2>1, LeaveScanCmd DEF StaysOrLate
<1>8. CASE AgentRestarts
  <2>1. /\ UNCHANGED <<acmds, post, abatch, cur, inbox>> /\ conn' = None /\ reports' = <<>>
        /\ \A t \in Sessions : pc'[t] \in {pc[t], "idle"}
    BY <1>8 DEF AgentRestarts, srvVars
  <2>2. CASE conn # None
    BY <2>1, <2>2, LeaveScanCmd DEF StaysOrLate
  <2>3. CASE conn = None
    <3>1. \A c \in ScanCmds : LateReport(c)' <=> LateReport(c)
      BY <2>1, <2>3 DEF LateReport, Applied
    <3>2. StatusIsRequested'
      BY <1>0, <2>1 DEF StatusIsRequested
    <3>3. LateIsMarked'
      BY <1>0, <2>1, <3>1 DEF ScanCmdParts, LateIsMarked
    <3> QED
      BY <2>1, <3>2, <3>3 DEF ScanCmdParts, DrainedIsOpen, ToldIsOpen, Listening, ReportedIsOpen, StaysOrLate
  <2> QED
    BY <2>2, <2>3
<1>9. CASE RunHangs
  <2>1. UNCHANGED <<acmds, post, abatch, cur, inbox, pc, wire, conn, reports>>
    BY <1>9 DEF RunHangs, srvVars, sessVars
  <2>2. \A d \in ScanCmds, t \in Sessions :
            d \in abatch'[t] \/ (pc'[t] = "mark" /\ cur'[t] = d) => acmds[d] # "none"
    BY <1>0, <2>1 DEF StatusIsRequested
  <2> QED
    BY <1>0, <2>1, <2>2, SideScanCmd DEF StaysOrLate
<1>10. CASE ServerRestarts
  <2>1. /\ UNCHANGED <<acmds, wire, conn, reports>>
        /\ \A c \in ScanCmds : post[c] = "done" => post'[c] = "done"
        /\ conn # None => pc'[conn] = "err"
        /\ \A t \in Sessions : abatch'[t] = {} /\ inbox'[t] = <<>> /\ pc'[t] # "mark"
    BY <1>0, <1>10 DEF ServerRestarts, Live, agtVars
  <2>2. \A t \in Sessions : \A x : In(x, inbox'[t]) => In(x, inbox[t])
    BY <2>1, EmptyHas
  <2> QED
    BY <1>0, <2>1, <2>2, SideScanCmd DEF StaysOrLate
<1> QED
  BY <1>1, <1>2, <1>3, <1>4, <1>5, <1>6, <1>7, <1>8, <1>9, <1>10 DEF Next, Operator, Agent

\* A scan-control command that is shown as completed stays so, unless the handler of a
\* connection that is gone marks it or takes its report late, for any commands, sessions,
\* payloads and failures, half-open connections included (agent_commands in store.go).
THEOREM CompletionStays == Spec => CompletedStays
<1>1. ScanCmdInv /\ [Next]_vars => ScanCmdInv'
  <2>1. CASE UNCHANGED vars
    BY <2>1, NextType
    DEF vars, ScanCmdInv, ScanCmdParts, HandlerStages, Live, StatusIsRequested, LateIsMarked, DrainedIsOpen,
        ToldIsOpen, ReportedIsOpen, Listening, InMark, LateReport, Told, Applied
  <2>2. ASSUME ScanCmdInv, Next PROVE ScanCmdInv'
    BY <2>2, NextType, NextStages, NextScanCmd DEF ScanCmdInv
  <2> QED
    BY <2>1, <2>2
<1>2. ScanCmdInv /\ [Next]_vars => [StaysOrLate]_vars
  BY NextScanCmd
<1> QED
  BY InitScanCmd, <1>1, <1>2, PTL DEF Spec, CompletedStays, StaysOrLate
=============================================================================
