--------------------------- MODULE MutationEngine ---------------------------
(***************************************************************************)
(* The agent's migration engine (agent/src/mutation.rs) on a service with  *)
(* a configuration file (nginx, apache, ssh): read, check for drift,       *)
(* patch, back up, overwrite, validate, reload, verify by a TLS handshake, *)
(* and roll back what a failing step leaves behind.                        *)
(*                                                                         *)
(* The content of a configuration is the set of the changes made to it:    *)
(* the patches of the commands and the edits of the administrator, who     *)
(* may edit the file and reload the service at any moment.  Commands are   *)
(* executed one after another and at most once (CommandDelivery).          *)
(***************************************************************************)
EXTENDS FiniteSets, Naturals

CONSTANTS
    Cmds,           \* migration commands
    Edits,          \* edits the administrator makes by hand
    None,           \* no checksum, no backup, no command
    MaxIOErrors,    \* file-system calls that fail in a behaviour
    MaxCrashes      \* agent crashes in a behaviour

Content == SUBSET (Cmds \cup Edits)

ASSUME MutationAssumption ==
    /\ \A content \in Content : content # None
    /\ None \notin Cmds
    /\ Cmds \cap Edits = {}
    /\ MaxIOErrors \in Nat
    /\ MaxCrashes \in Nat

VARIABLES
    file,           \* the configuration file
    running,        \* the configuration the service has loaded
    backup,         \* backup[c]: the file of backup_path for command c
    status,         \* status[c]: how far command c is, or its report's state
    dry,            \* the commands issued as dry runs
    checksum,       \* checksum[c]: the content c's checksum= entry stands for
    pc,             \* the next step of execute_inner
    cur,            \* the command being executed
    original,       \* the content read from the file
    made,           \* history: the administrator's edits so far
    quiet,          \* history: those made while no command was executed
    ioErrors, crashes

vars == <<file, running, backup, status, dry, checksum, pc, cur, original,
          made, quiet, ioErrors, crashes>>

history == <<made, quiet>>
orders  == <<dry, checksum>>

Init ==
    /\ file = {} /\ running = {}
    /\ backup = [c \in Cmds |-> None]
    /\ status = [c \in Cmds |-> "new"]
    /\ dry = {} /\ checksum = [c \in Cmds |-> None]
    /\ pc = "idle" /\ cur = None /\ original = {}
    /\ made = {} /\ quiet = {}
    /\ ioErrors = 0 /\ crashes = 0

-----------------------------------------------------------------------------
(* The environment                                                         *)

\* The controller issues a command for the content it last had a hash of, or
\* with no hash at all.
Issue(c) ==
    /\ status[c] = "new"
    /\ status' = [status EXCEPT ![c] = "issued"]
    /\ dry' \in {dry, dry \cup {c}}
    /\ \E h \in {None, file} : checksum' = [checksum EXCEPT ![c] = h]
    /\ UNCHANGED <<file, running, backup, pc, cur, original, history, ioErrors,
                   crashes>>

AdminEdits(e) ==
    /\ e \notin made
    /\ file' = file \cup {e}
    /\ made' = made \cup {e}
    /\ quiet' = IF pc = "idle" THEN quiet \cup {e} ELSE quiet
    /\ UNCHANGED <<running, backup, status, orders, pc, cur, original, ioErrors,
                   crashes>>

\* The service is reloaded or restarted by someone else.
ServiceReloads ==
    /\ running' = file
    /\ UNCHANGED <<file, backup, status, orders, pc, cur, original, history,
                   ioErrors, crashes>>

-----------------------------------------------------------------------------
(* Reports and file writes                                                 *)

\* execute_inner returns: the state of the report, and the engine is free.
Report(c, s) ==
    /\ status' = [status EXCEPT ![c] = s]
    /\ pc' = "idle" /\ cur' = None

Goto(step) == pc' = step /\ UNCHANGED <<status, cur>>

IOError == ioErrors < MaxIOErrors /\ ioErrors' = ioErrors + 1

\* What atomic_write leaves in its target: it can fail before the rename, with the
\* old content in place, or after it, when the directory cannot be synced.
AtomicWrite(target, old, new, Ok, Err) ==
    \/ target = new /\ Ok /\ UNCHANGED ioErrors
    \/ target \in {old, new} /\ Err /\ IOError

-----------------------------------------------------------------------------
(* execute_inner, up to the first write                                    *)

\* A passive agent, a bad signature, a command too old, a service not allowed or
\* not supported, a path out of bounds, a file that cannot be read, a patch that
\* does not parse or does not apply.
Refuse(c) ==
    /\ pc = "idle" /\ status[c] = "issued"
    /\ Report(c, "Failed")
    /\ UNCHANGED <<file, running, backup, orders, original, history, ioErrors,
                   crashes>>

DetectDrift(c) ==
    /\ pc = "idle" /\ status[c] = "issued"
    /\ checksum[c] \notin {None, file}
    /\ Report(c, "Failed")
    /\ UNCHANGED <<file, running, backup, orders, original, history, ioErrors,
                   crashes>>

\* The dry run ends here, without a trace.
AcceptDryRun(c) ==
    /\ pc = "idle" /\ status[c] = "issued" /\ c \in dry
    /\ checksum[c] \in {None, file}
    /\ Report(c, "Succeeded")
    /\ UNCHANGED <<file, running, backup, orders, original, history, ioErrors,
                   crashes>>

ReadConfig_Cached(c) ==
    /\ pc = "idle" /\ status[c] = "issued" /\ c \notin dry
    /\ checksum[c] \in {None, file}
    /\ original' = IF original = {} THEN file ELSE original
    /\ pc' = "backup" /\ cur' = c
    /\ status' = [status EXCEPT ![c] = "executing"]
    /\ UNCHANGED <<file, running, backup, orders, history, ioErrors, crashes>>

ReadConfig(c) ==
    /\ pc = "idle" /\ status[c] = "issued" /\ c \notin dry
    /\ checksum[c] \in {None, file}
    /\ original' = file
    /\ pc' = "backup" /\ cur' = c
    /\ status' = [status EXCEPT ![c] = "executing"]
    /\ UNCHANGED <<file, running, backup, orders, history, ioErrors, crashes>>

-----------------------------------------------------------------------------
(* execute_inner, from the backup on                                       *)

WriteBackup_AfterPatch ==
    /\ pc = "backup"
    /\ AtomicWrite(backup', backup, [backup EXCEPT ![cur] = original \cup {cur}],
                   Goto("write"), Report(cur, "Failed"))
    /\ UNCHANGED <<file, running, orders, original, history, crashes>>

WriteBackup ==
    /\ pc = "backup"
    /\ AtomicWrite(backup', backup, [backup EXCEPT ![cur] = original],
                   Goto("write"), Report(cur, "Failed"))
    /\ UNCHANGED <<file, running, orders, original, history, crashes>>

WriteConfig ==
    /\ pc = "write"
    /\ AtomicWrite(file', file, original \cup {cur},
                   Goto("validate"), Report(cur, "Failed"))
    /\ UNCHANGED <<running, backup, orders, original, history, crashes>>

\* "restore" rolls the file back; "restoreReload" reloads the service after that.
Validate_KeepsFile ==
    /\ pc = "validate"
    /\ Goto("reload") \/ Report(cur, "Failed")
    /\ UNCHANGED <<file, running, backup, orders, original, history, ioErrors,
                   crashes>>

Validate ==
    /\ pc = "validate"
    /\ Goto("reload") \/ Goto("restore")
    /\ UNCHANGED <<file, running, backup, orders, original, history, ioErrors,
                   crashes>>

\* All the candidate commands fail, with or without an effect on the service.
ReloadFails == running' \in {running, file}

\* The handshake is tried only when network_targets names a target that is not on
\* port 80; both configurations are covered.
Reloaded == Goto("verify") \/ Report(cur, "Succeeded")

Reload_Ignored ==
    /\ pc = "reload"
    /\ \/ running' = file
       \/ ReloadFails
    /\ Reloaded
    /\ UNCHANGED <<file, backup, orders, original, history, ioErrors, crashes>>

Reload ==
    /\ pc = "reload"
    /\ \/ /\ running' = file
          /\ Reloaded
       \/ ReloadFails /\ Goto("restoreReload")
    /\ UNCHANGED <<file, backup, orders, original, history, ioErrors, crashes>>

\* Some target completes a TLS handshake, or none does.
VerifyPostMigration ==
    /\ pc = "verify"
    /\ Report(cur, "Succeeded") \/ Goto("restoreReload")
    /\ UNCHANGED <<file, running, backup, orders, original, history, ioErrors,
                   crashes>>

\* rollback_file: an error of its own ends execute_inner at once.
Rollback ==
    /\ pc \in {"restore", "restoreReload"}
    /\ AtomicWrite(file', file, backup[cur],
                   IF pc = "restore" THEN Report(cur, "Failed") ELSE Goto("reloadRestored"),
                   Report(cur, "Failed"))
    /\ UNCHANGED <<running, backup, orders, original, history, crashes>>

ReloadRestored ==
    /\ pc = "reloadRestored"
    /\ running' = file \/ ReloadFails
    /\ Report(cur, "Failed")
    /\ UNCHANGED <<file, backup, orders, original, history, ioErrors, crashes>>

\* The agent dies.  It was told of the command once and keeps no record of it.
Crash ==
    /\ pc # "idle" /\ crashes < MaxCrashes
    /\ crashes' = crashes + 1
    /\ Report(cur, "lost")
    /\ UNCHANGED <<file, running, backup, orders, original, history, ioErrors>>

-----------------------------------------------------------------------------
Environment ==
    \/ \E c \in Cmds : Issue(c)
    \/ \E e \in Edits : AdminEdits(e)
    \/ ServiceReloads

Engine ==
    \/ \E c \in Cmds : Refuse(c) \/ DetectDrift(c) \/ AcceptDryRun(c) \/ ReadConfig(c)
    \/ WriteBackup \/ WriteConfig \/ Validate \/ Reload \/ VerifyPostMigration
    \/ Rollback \/ ReloadRestored

Next == Environment \/ Engine \/ Crash

Spec == Init /\ [][Next]_vars

-----------------------------------------------------------------------------
(* Correctness properties                                                  *)

Steps == {"backup", "write", "validate", "reload", "verify", "restore",
          "restoreReload", "reloadRestored"}

\* Type invariant of the engine's state; a command is being executed exactly while
\* execute_inner is past its read.
TypeOK ==
    /\ file \in Content /\ running \in Content /\ original \in Content
    /\ backup \in [Cmds -> {None} \cup Content]
    /\ checksum \in [Cmds -> {None} \cup Content]
    /\ status \in [Cmds -> {"new", "issued", "executing", "Succeeded", "Failed", "lost"}]
    /\ dry \subseteq Cmds /\ quiet \subseteq made /\ made \subseteq Edits
    /\ pc \in Steps \cup {"idle"} /\ cur \in Cmds \cup {None}
    /\ (pc = "idle") <=> (cur = None)
    /\ ioErrors \in 0 .. MaxIOErrors /\ crashes \in 0 .. MaxCrashes

\* What a succeeded command did
Applied == {c \in Cmds \ dry : status[c] = "Succeeded"}

\* A patch is in the file, or in the service, only if the command was not a dry run
\* and a backup without that patch is on disk: whatever fails and whenever the
\* agent dies, the configuration it replaced can be put back.
UndoIsPossible ==
    \A c \in file \cup running : c \in Cmds =>
        c \notin dry /\ backup[c] # None /\ c \notin backup[c]

\* A migration reported as succeeded is in the file and in the service from then
\* on: no later command that fails, rolls back or is cut short takes it out.
SuccessSticks == Applied \subseteq file \cap running

\* An edit the administrator made while no migration was executed is never lost.
QuietEditsKept == quiet \subseteq file

\* A command reported as failed has left the file without its patch: the rollback
\* of execute_inner, as long as no file-system call fails.
FailedIsUndone ==
    ioErrors = 0 => \A c \in Cmds : status[c] = "Failed" => c \notin file

\* SECURITY.md:126: "If any step fails, the backup is restored automatically. No
\* partial migration is left in place."
NoPartialMigration ==
    \A c \in Cmds : status[c] = "Failed" => c \notin file \cup running
=============================================================================
