--------------------------- MODULE CommandChannel ---------------------------
(***************************************************************************)
(* What the migration command path promises an operator, with every        *)
(* mechanism left out: commands are accepted one after the other, the      *)
(* agent executes each of them at most once and in the order in which they *)
(* were accepted (it may skip some: the path is lossy), and the record     *)
(* kept of a command goes from nothing to Pending to the result the agent  *)
(* really obtained, and then never changes.                                *)
(***************************************************************************)
EXTENDS Naturals, Sequences

CONSTANT Cmds          \* the migration commands an operator may submit

VARIABLES
    accepted,          \* the commands accepted so far, oldest first
    done,              \* the executions so far: [cmd |-> c, state |-> result]
    record             \* what the controller has recorded of each command

chVars == <<accepted, done, record>>

Results == {"Succeeded", "Failed"}
Records == {"none", "Pending"} \cup Results

IsAccepted(c) == \E i \in 1..Len(accepted) : accepted[i] = c

\* c was accepted after every command executed so far.
IsNext(c) ==
    \E i \in 1..Len(accepted) :
        /\ accepted[i] = c
        /\ \A j \in i..Len(accepted), k \in 1..Len(done) :
               done[k].cmd # accepted[j]

Init ==
    /\ accepted = <<>>
    /\ done = <<>>
    /\ record = [c \in Cmds |-> "none"]

Accept(c) ==
    /\ ~IsAccepted(c)
    /\ accepted' = Append(accepted, c)
    /\ UNCHANGED <<done, record>>

\* Only a command that is already recorded may be executed.
Execute(c) ==
    /\ IsNext(c)
    /\ record[c] = "Pending"
    /\ \E r \in Results : done' = Append(done, [cmd |-> c, state |-> r])
    /\ UNCHANGED <<accepted, record>>

RecordPending(c) ==
    /\ IsAccepted(c)
    /\ record[c] = "none"
    /\ record' = [record EXCEPT ![c] = "Pending"]
    /\ UNCHANGED <<accepted, done>>

RecordResult(c) ==
    /\ record[c] = "Pending"
    /\ \E k \in 1..Len(done) :
           /\ done[k].cmd = c
           /\ record' = [record EXCEPT ![c] = done[k].state]
    /\ UNCHANGED <<accepted, done>>

Next == \E c \in Cmds :
    Accept(c) \/ Execute(c) \/ RecordPending(c) \/ RecordResult(c)

Spec == Init /\ [][Next]_chVars
=============================================================================
