------------------------------ MODULE Migration ------------------------------
(***************************************************************************)
(* MigrationEngine over MigrationManager: the lock file, the pipeline      *)
(* detect, backup, apply, rebuild, regenerate, validate, and the rollback. *)
(* An engine is a process with its own memory; documents, indexes,         *)
(* snapshots, backups and the lock file are shared by all of them, and     *)
(* agents go on saving while a migration runs: they take AgentLock, which  *)
(* a migration does not, so that one of them may read a document before a  *)
(* step of the migration and write it back after that step.                *)
(*                                                                         *)
(* A project has one document: its schema version and a stamp that tells   *)
(* its contents from those saved earlier; when a project gets another, the *)
(* new one is the one looked at.  The steps of the registry are the chain  *)
(* 1 -> 2 -> ... -> Target, so a step is named by the version it starts    *)
(* from and a backup by the first step pending when it was taken.          *)
(* The version manifest, a cache the constructors take as an option, is    *)
(* not there.                                                              *)
(*                                                                         *)
(* migrate and rollback are called on the engine, or through Hermes'       *)
(* MigrationTools, whose MigrationSafetyGuard tries the lock first and     *)
(* refuses after a failed migration.  The guard's other checks, of the     *)
(* caller's project and confirmation, have been made by then; a call that  *)
(* fails them changes nothing and is not there.                            *)
(***************************************************************************)
EXTENDS Naturals, FiniteSets, SequencesExt

CONSTANTS Engines,
          Projects,
          Target,        \* the version the last registered step leads to
          KeepN,         \* BackupManager's keep_n
          Commands,      \* the calls each engine gets
          LockAges,      \* may half an hour pass while a lock file exists?
          MaxCommands,   \* bound: calls of each engine
          MaxCrashes,    \* bound: deaths of each engine
          MaxSaves       \* bound: documents read to be saved, and saved, by agents

CommandNames == {"detect", "migrate", "rollback", "validate", "backup"}

ASSUME TargetAssumption == Target \in Nat \ {0} /\ KeepN \in Nat \ {0}
ASSUME CommandsAssumption == Commands \in [Engines -> SUBSET CommandNames]
ASSUME SwitchAssumption == LockAges \in BOOLEAN
ASSUME BoundsAssumption ==
  /\ MaxCommands \in [Engines -> Nat]
  /\ MaxCrashes \in [Engines -> Nat]
  /\ MaxSaves \in Nat

VARIABLES repo,       \* the document of each project
          index,      \* the document each project's index was built from
          snapshot,   \* the document each project's snapshot was made from
          backups,    \* the directories under backup/, oldest first
          lock,       \* migration.lock
          mem,        \* what an engine and its manager keep between calls
          pc, run,    \* where a call is, and its local variables
          calls, saves, crashes,
          stuck,      \* has a restore, or the rebuild after it, been given up?
          hands,      \* the versions that agents have read and not yet written
          late        \* projects to which one of them has written another
                      \* version than the one on disk

data == <<repo, index, snapshot>>
bounds == <<calls, saves, crashes, stuck, hands, late>>
vars == <<data, backups, lock, mem, pc, run, bounds>>

Versions == 1 .. Target + 1          \* Target + 1: a later release's documents
Keys == 1 .. Target - 1

NoDoc == [ver |-> 0, body |-> 0]
Doc == [ver : Versions, body : 0 .. MaxSaves] \cup {NoDoc}

NoLock == [none |-> TRUE]
LockFile == [by : Engines, written : BOOLEAN, aged : BOOLEAN]

States == {"IDLE", "DETECTING", "BACKUP", "MIGRATING", "REBUILD_INDEX",
           "REGENERATE_SNAPSHOT", "VALIDATING", "COMPLETED", "ROLLBACK",
           "FAILED"}

\* last is the status of the newest record of MigrationHistory, backup the key
\* of _last_backup_dir.
Memory == [state : States, last : {"", "started", "rollback", "completed", "failed"},
           backup : {0} \cup Keys]
NewMemory == [state |-> "IDLE", last |-> "", backup |-> 0]

Phases == {"idle", "acquire", "unlink", "create", "write", "judge", "detect",
           "manage", "backup", "prune", "apply", "index", "snapshot", "validate",
           "restore", "copy", "paste", "exit", "journal"}

Outcomes == {"", "refused", "done", "up_to_date", "completed", "no_backup",
             "rolled_back", "restored", "stuck"}

\* guarded: the guard has not let the call through yet; start: what the call
\* found; step: the version being migrated from; key and fresh: its backup, and
\* whether this call took it; todo: projects of a loop.
Run == [cmd : CommandNames \cup {""}, guarded : BOOLEAN, start : [Projects -> Doc],
        step : 0 .. Target + 1, key : {0} \cup Keys, fresh : BOOLEAN,
        todo : SUBSET Projects, at : SUBSET Projects, outcome : Outcomes]
NoRun == [cmd |-> "", guarded |-> FALSE, start |-> [p \in Projects |-> NoDoc], step |-> 0,
          key |-> 0, fresh |-> FALSE, todo |-> {}, at |-> {}, outcome |-> ""]

Nothing == [p \in Projects |-> NoDoc]

-----------------------------------------------------------------------------
Present == {p \in Projects : repo[p] # NoDoc}
Listed(e) == {p \in Projects : run[e].start[p] # NoDoc}

Locks(e) == run[e].cmd \in {"detect", "migrate"}

Inside(e) == /\ pc[e] \notin {"idle", "acquire", "unlink", "create", "journal"}
             /\ Locks(e) /\ ~run[e].guarded

Goto(e, phase) == pc' = [pc EXCEPT ![e] = phase]

\* The call is over but for its release; an append to the history and a change
\* of state, where the code makes one, come first.
Ends(e, outcome, state, last) ==
  /\ Goto(e, "exit")
  /\ run' = [run EXCEPT ![e].outcome = outcome, ![e].todo = {}]
  /\ mem' = [mem EXCEPT ![e].state = state, ![e].last = last]

FirstPhase(cmd) == CASE cmd \in {"detect", "migrate"} -> "acquire"
                     [] cmd = "backup" -> "backup"
                     [] OTHER -> "detect"

Start(e, cmd) ==
  /\ pc[e] = "idle"
  /\ calls[e] < MaxCommands[e]
  /\ calls' = [calls EXCEPT ![e] = @ + 1]
  /\ \E key \in IF cmd = "backup" THEN Keys ELSE {0},
        guarded \in IF cmd \in {"migrate", "rollback"} THEN BOOLEAN ELSE {FALSE} :
       /\ run' = [run EXCEPT ![e] = [NoRun EXCEPT !.cmd = cmd, !.key = key,
                                                 !.guarded = guarded]]
       /\ Goto(e, IF guarded THEN "acquire" ELSE FirstPhase(cmd))
  /\ mem' = [mem EXCEPT ![e].state =
               CASE cmd = "backup" -> "BACKUP" [] cmd = "validate" -> "VALIDATING"
                 [] OTHER -> @]
  /\ UNCHANGED <<data, backups, lock, saves, crashes, stuck, hands, late>>

-----------------------------------------------------------------------------
(* The lock file. *)

IsStale == ~lock.written \/ lock.aged
HistoryIsTerminal(e) == mem[e].last \in {"completed", "failed"}

Gives(e) == Goto(e, "idle") /\ run' = [run EXCEPT ![e] = NoRun]

\* The file is looked at, then removed, then created: three system calls.
LookAtLock(e) ==
  /\ pc[e] = "acquire"
  /\ \/ lock = NoLock /\ Goto(e, "create") /\ UNCHANGED run
     \/ /\ lock # NoLock /\ (IsStale \/ HistoryIsTerminal(e))
        /\ Goto(e, "unlink") /\ UNCHANGED run
     \/ lock # NoLock /\ ~IsStale /\ ~HistoryIsTerminal(e) /\ Gives(e)
  /\ UNCHANGED <<data, backups, lock, mem, bounds>>

UnlinkLock(e) ==
  /\ pc[e] = "unlink"
  /\ lock' = NoLock
  /\ IF lock = NoLock THEN Gives(e) ELSE Goto(e, "create") /\ UNCHANGED run
  /\ UNCHANGED <<data, backups, mem, bounds>>

CreateLock(e) ==
  /\ pc[e] = "create"
  /\ IF lock = NoLock
     THEN /\ lock' = [by |-> e, written |-> FALSE, aged |-> FALSE]
          /\ Goto(e, "write")
          /\ UNCHANGED run
     ELSE Gives(e) /\ UNCHANGED lock
  /\ UNCHANGED <<data, backups, mem, bounds>>

\* The payload goes through the descriptor: into a file that may be gone.
WriteLock(e) ==
  /\ pc[e] = "write"
  /\ lock' = IF lock # NoLock /\ lock.by = e
             THEN [lock EXCEPT !.written = TRUE] ELSE lock
  /\ Goto(e, IF run[e].guarded THEN "judge" ELSE "detect")
  /\ UNCHANGED <<data, backups, mem, run, bounds>>

\* MigrationSafetyGuard.check has got the lock: it gives it back, looks at the
\* last record and lets the call through, which begins to lock again.
Judge(e) ==
  /\ pc[e] = "judge"
  /\ lock' = NoLock
  /\ IF mem[e].last = "failed" THEN Gives(e)
     ELSE Goto(e, FirstPhase(run[e].cmd)) /\ run' = [run EXCEPT ![e].guarded = FALSE]
  /\ UNCHANGED <<data, backups, mem, bounds>>

\* __exit__ removes whatever file is there; then the facade's own epilogue.
Leave(e) ==
  /\ pc[e] = "exit"
  /\ lock' = IF Locks(e) THEN NoLock ELSE lock
  /\ IF run[e].cmd = "migrate" /\ run[e].outcome \in {"completed", "up_to_date"}
     THEN Goto(e, "journal") /\ UNCHANGED run
     ELSE Gives(e)
  /\ UNCHANGED <<data, backups, mem, bounds>>

AgeLock ==
  /\ LockAges
  /\ lock # NoLock
  /\ ~lock.aged
  /\ lock' = [lock EXCEPT !.aged = TRUE]
  /\ UNCHANGED <<data, backups, mem, pc, run, bounds>>

-----------------------------------------------------------------------------
(* SchemaDetector. *)

Seen(asked) == {repo[p].ver : p \in asked \cap Present}

FutureSeen(asked) == \E v \in Seen(asked) : v > Target
\* Mutant: the newest document speaks for the repository.
CurrentHighest(asked) == IF Seen(asked) = {} THEN Target ELSE Max(Seen(asked))

Current(asked) == IF Seen(asked) = {} THEN Target ELSE Min(Seen(asked))

\* The call goes on in phase; what it found, state and last are noted.
Detected(e, phase, found, state, last) ==
  /\ Goto(e, phase)
  /\ run' = [run EXCEPT ![e] = found]
  /\ mem' = [mem EXCEPT ![e].state = state, ![e].last = last]

\* The facade lists the projects and asks the manager for the version.
EngineDetect(e) ==
  LET cmd == run[e].cmd
      found == [run[e] EXCEPT !.start = repo]
      refused == [found EXCEPT !.outcome = "refused"]
      last == mem[e].last
  IN /\ pc[e] = "detect"
     /\ ~FutureSeen(Present)
     /\ \/ cmd = "detect" /\ Detected(e, "exit", found, "DETECTING", last)
        \/ cmd = "validate" /\ Detected(e, "validate", found, "VALIDATING", last)
        \/ cmd = "migrate" /\ Detected(e, "manage", found, "DETECTING", "started")
        \/ /\ cmd = "rollback" /\ mem[e].backup = 0
           /\ Detected(e, "exit", refused, "DETECTING", "failed")
        \/ /\ cmd = "rollback" /\ mem[e].backup # 0
           /\ Detected(e, "restore", [found EXCEPT !.key = mem[e].backup],
                       "ROLLBACK", last)
     /\ UNCHANGED <<data, backups, lock, bounds>>

\* The manager detects once more, for the projects it was given.
ManagerDetect(e) ==
  LET current == Current(Listed(e))
      last == mem[e].last
  IN /\ pc[e] = "manage"
     /\ ~FutureSeen(Listed(e))
     /\ \/ /\ current = Target
           /\ Detected(e, "exit", [run[e] EXCEPT !.outcome = "up_to_date"],
                       "COMPLETED", last)
        \/ /\ current < Target
           /\ Detected(e, "backup", [run[e] EXCEPT !.step = current, !.key = current],
                       "DETECTING", last)
     /\ UNCHANGED <<data, backups, lock, bounds>>

\* A later release's document is there, or a document cannot be read.  The
\* facade's own detect fails outside the part of migrate that is journalled;
\* the manager's state forgets the unreadable document.
DetectFails(e) ==
  LET found == IF pc[e] = "detect" THEN [run[e] EXCEPT !.start = repo] ELSE run[e]
      refused == [found EXCEPT !.outcome = "refused"]
      journalled == pc[e] = "manage" \/ run[e].cmd = "rollback"
      last == IF journalled THEN "failed" ELSE mem[e].last
  IN /\ \/ /\ pc[e] = "detect"
           /\ Detected(e, "exit", refused, "FAILED", last)
        \/ /\ pc[e] = "manage"
           /\ \/ FutureSeen(Listed(e)) /\ Detected(e, "exit", refused, "FAILED", last)
              \/ ~FutureSeen(Listed(e)) /\ Detected(e, "exit", refused, mem[e].state, last)
     /\ UNCHANGED <<data, backups, lock, bounds>>

-----------------------------------------------------------------------------
(* BackupManager. *)

HasBackup(key) == \E i \in DOMAIN backups : backups[i].key = key
CopyOf(key) == (CHOOSE b \in {backups[i] : i \in DOMAIN backups} : b.key = key).copy

\* create returns: the manager keeps the directory and, in a migration, goes on.
Backed(e) ==
  LET migrating == run[e].cmd = "migrate"
  IN /\ mem' = [mem EXCEPT ![e].backup = run[e].key,
                           ![e].state = IF migrating THEN "MIGRATING" ELSE @]
     /\ Goto(e, IF migrating THEN "apply" ELSE "exit")

\* Mutant: each call publishes a directory of its own.
TakeBackupAgain(e) ==
  /\ pc[e] = "backup"
  /\ backups' = Append(backups, [key |-> run[e].key, copy |-> repo])
  /\ run' = [run EXCEPT ![e].fresh = TRUE]
  /\ Goto(e, "prune")
  /\ UNCHANGED <<data, lock, mem, bounds>>

\* A directory under the key is taken as it is; else the copies are made under
\* a temporary name and the rename publishes them.
TakeBackup(e) ==
  /\ pc[e] = "backup"
  /\ run' = [run EXCEPT ![e].fresh = ~HasBackup(run[e].key)]
  /\ \/ HasBackup(run[e].key) /\ Backed(e) /\ UNCHANGED backups
     \/ /\ ~HasBackup(run[e].key)
        /\ backups' = Append(backups, [key |-> run[e].key, copy |-> repo])
        /\ Goto(e, "prune")
        /\ UNCHANGED mem
  /\ UNCHANGED <<data, lock, bounds>>

\* A directory beyond the newest KeepN loses the documents of a project, or goes.
Prune(e) ==
  /\ pc[e] = "prune"
  /\ \E i \in DOMAIN backups :
       /\ i + KeepN <= Len(backups)
       /\ \/ backups' = RemoveAt(backups, i)
          \/ \E p \in Projects : /\ backups[i].copy[p] # NoDoc
                                 /\ backups' = [backups EXCEPT ![i].copy[p] = NoDoc]
  /\ UNCHANGED <<data, lock, mem, pc, run, bounds>>

\* What rmtree cannot remove stays where it is.
PruneEnds(e) ==
  /\ pc[e] = "prune"
  /\ Backed(e)
  /\ UNCHANGED <<data, backups, lock, run, bounds>>

\* The copy fails under its temporary name, and nothing is published; or the
\* directories cannot be listed, and what is published stays.
BackupFails(e) ==
  /\ \/ pc[e] = "backup" /\ ~HasBackup(run[e].key)
     \/ pc[e] = "prune"
  /\ Ends(e, "no_backup", "FAILED",
          IF run[e].cmd = "migrate" THEN "failed" ELSE mem[e].last)
  /\ UNCHANGED <<data, backups, lock, bounds>>

-----------------------------------------------------------------------------
(* The pipeline. *)

\* A step's applier rewrites the documents that are at its from_version, one
\* file after the other.
ApplyStep(e, p) ==
  /\ pc[e] = "apply"
  /\ run[e].step < Target
  /\ p \in Present
  /\ repo[p].ver = run[e].step
  /\ repo' = [repo EXCEPT ![p].ver = @ + 1]
  /\ UNCHANGED <<index, snapshot, backups, lock, mem, pc, run, bounds>>

\* Mutant: the index is rebuilt for nobody.
StepIsDoneForNobody(e) ==
  /\ pc[e] = "apply"
  /\ \A p \in Present : repo[p].ver # run[e].step
  /\ LET last == run[e].step + 1 = Target IN
     /\ run' = [run EXCEPT ![e].step = @ + 1]
     /\ pc' = [pc EXCEPT ![e] = IF last THEN "index" ELSE @]
     /\ mem' = [mem EXCEPT ![e].state = IF last THEN "REBUILD_INDEX" ELSE @]
  /\ UNCHANGED <<data, backups, lock, bounds>>

StepIsDone(e) ==
  /\ pc[e] = "apply"
  /\ \A p \in Present : repo[p].ver # run[e].step
  /\ LET last == run[e].step + 1 = Target IN
     /\ run' = [run EXCEPT ![e].step = @ + 1,
                           ![e].todo = IF last THEN Listed(e) ELSE {}]
     /\ pc' = [pc EXCEPT ![e] = IF last THEN "index" ELSE @]
     /\ mem' = [mem EXCEPT ![e].state = IF last THEN "REBUILD_INDEX" ELSE @]
  /\ UNCHANGED <<data, backups, lock, bounds>>

RebuildIndex(e, p) ==
  /\ pc[e] = "index"
  /\ p \in run[e].todo
  /\ index' = [index EXCEPT ![p] = repo[p]]
  /\ run' = [run EXCEPT ![e].todo = @ \ {p}]
  /\ UNCHANGED <<repo, snapshot, backups, lock, mem, pc, bounds>>

RegenerateSnapshot(e, p) ==
  /\ pc[e] = "snapshot"
  /\ p \in run[e].todo
  /\ repo[p] # NoDoc
  /\ snapshot' = [snapshot EXCEPT ![p] = repo[p]]
  /\ run' = [run EXCEPT ![e].todo = @ \ {p}]
  /\ UNCHANGED <<repo, index, backups, lock, mem, pc, bounds>>

\* The loop over the projects is over.  In a rollback the facade runs the same
\* loops without the manager, whose state stays FAILED.
NextLoop(e) ==
  LET state(s) == IF run[e].cmd = "migrate" THEN s ELSE mem[e].state
  IN /\ run[e].todo = {}
     /\ \/ /\ pc[e] = "index"
           /\ Goto(e, "snapshot")
           /\ run' = [run EXCEPT ![e].todo = Listed(e)]
           /\ mem' = [mem EXCEPT ![e].state = state("REGENERATE_SNAPSHOT")]
        \/ /\ pc[e] = "snapshot"
           /\ Goto(e, "validate")
           /\ mem' = [mem EXCEPT ![e].state = state("VALIDATING")]
           /\ UNCHANGED run
     /\ UNCHANGED <<data, backups, lock, bounds>>

\* What MigrationValidator cannot accept: a version out of range, a project
\* without an index or a snapshot.  It may refuse for other reasons as well.
Acceptable == \A p \in Present : /\ repo[p].ver <= Target
                                 /\ index[p] # NoDoc
                                 /\ snapshot[p] # NoDoc

Validated(e) ==
  /\ pc[e] = "validate"
  /\ Acceptable
  /\ \/ run[e].cmd = "migrate" /\ Ends(e, "completed", "COMPLETED", mem[e].last)
     \/ run[e].cmd = "validate" /\ Ends(e, "done", "COMPLETED", mem[e].last)
     \/ /\ run[e].cmd = "rollback"
        /\ Goto(e, "exit")
        /\ run' = [run EXCEPT ![e].outcome = "restored"]
        /\ mem' = [mem EXCEPT ![e].last = "rollback"]
  /\ UNCHANGED <<data, backups, lock, bounds>>

\* Any exception of the pipeline: a migration rolls back, the others give up.
Fails(e) ==
  /\ pc[e] \in {"apply", "index", "snapshot", "validate"}
  /\ \/ /\ run[e].cmd = "migrate"
        /\ Goto(e, "restore")
        /\ run' = [run EXCEPT ![e].todo = {}]
        /\ mem' = [mem EXCEPT ![e].state = "ROLLBACK"]
     \/ run[e].cmd = "rollback" /\ Ends(e, "stuck", mem[e].state, "failed")
     \/ run[e].cmd = "validate" /\ Ends(e, "refused", "FAILED", mem[e].last)
  /\ stuck' = (stuck \/ run[e].cmd = "rollback")
  /\ UNCHANGED <<data, backups, lock, calls, saves, crashes, hands, late>>

\* After a successful migrate the last record is appended, outside the lock.
Journal(e) ==
  /\ pc[e] = "journal"
  /\ mem' = [mem EXCEPT ![e].last = "completed"]
  /\ Gives(e)
  /\ UNCHANGED <<data, backups, lock, bounds>>

-----------------------------------------------------------------------------
(* RollbackManager. *)

Erased(p) == /\ repo' = [repo EXCEPT ![p] = NoDoc]
             /\ index' = [index EXCEPT ![p] = NoDoc]
             /\ snapshot' = [snapshot EXCEPT ![p] = NoDoc]

\* Projects the backup does not know go first.
RemoveAdded(e, p) ==
  /\ pc[e] = "restore"
  /\ HasBackup(run[e].key)
  /\ p \in Present
  /\ CopyOf(run[e].key)[p] = NoDoc
  /\ Erased(p)
  /\ UNCHANGED <<backups, lock, mem, pc, run, bounds>>

\* Mutant: a project that is still there is taken for restored.
BeginCopiesOfMissing(e) ==
  /\ pc[e] = "restore"
  /\ HasBackup(run[e].key)
  /\ \A p \in Present : CopyOf(run[e].key)[p] # NoDoc
  /\ Goto(e, "copy")
  /\ run' = [run EXCEPT ![e].todo =
               {p \in Projects \ Present : CopyOf(run[e].key)[p] # NoDoc}]
  /\ UNCHANGED <<data, backups, lock, mem, bounds>>

BeginCopies(e) ==
  /\ pc[e] = "restore"
  /\ HasBackup(run[e].key)
  /\ \A p \in Present : CopyOf(run[e].key)[p] # NoDoc
  /\ Goto(e, "copy")
  /\ run' = [run EXCEPT ![e].todo = {p \in Projects : CopyOf(run[e].key)[p] # NoDoc}]
  /\ UNCHANGED <<data, backups, lock, mem, bounds>>

\* rmtree of the live project, its indexes and its snapshots, then copytree.
Wipe(e, p) ==
  /\ pc[e] = "copy"
  /\ p \in run[e].todo
  /\ HasBackup(run[e].key)
  /\ Erased(p)
  /\ Goto(e, "paste")
  /\ run' = [run EXCEPT ![e].todo = @ \ {p}, ![e].at = {p}]
  /\ UNCHANGED <<backups, lock, mem, bounds>>

Paste(e) ==
  /\ pc[e] = "paste"
  /\ HasBackup(run[e].key)
  /\ \A p \in run[e].at : repo[p] = NoDoc      \* copytree wants no target
  /\ repo' = [p \in Projects |-> IF p \in run[e].at THEN CopyOf(run[e].key)[p]
                                 ELSE repo[p]]
  /\ Goto(e, "copy")
  /\ run' = [run EXCEPT ![e].at = {}]
  /\ UNCHANGED <<index, snapshot, backups, lock, mem, bounds>>

\* Mutant: the derived files are left as the migration made them.
DropDerivedOnly(e) ==
  /\ pc[e] = "copy"
  /\ run[e].todo = {}
  /\ UNCHANGED <<index, snapshot>>
  /\ \/ run[e].cmd = "migrate" /\ Ends(e, "rolled_back", "FAILED", "failed")
     \/ run[e].cmd = "rollback" /\ Ends(e, "restored", "FAILED", "rollback")
  /\ UNCHANGED <<repo, backups, lock, bounds>>

\* Indexes and snapshots are deleted wherever there is one.
DropDerived(e) ==
  /\ pc[e] = "copy"
  /\ run[e].todo = {}
  /\ index' = Nothing
  /\ snapshot' = Nothing
  /\ \/ run[e].cmd = "migrate" /\ Ends(e, "rolled_back", "FAILED", "failed")
     \/ /\ run[e].cmd = "rollback"
        /\ Goto(e, "index")
        /\ run' = [run EXCEPT ![e].todo = Listed(e)]
        /\ mem' = [mem EXCEPT ![e].state = "FAILED"]
  /\ UNCHANGED <<repo, backups, lock, bounds>>

\* The backup is gone, or a file cannot be removed or written.
RestoreFails(e) ==
  /\ pc[e] \in {"restore", "copy", "paste"}
  /\ Ends(e, "stuck", "FAILED", "failed")
  /\ stuck' = TRUE
  /\ UNCHANGED <<data, backups, lock, calls, saves, crashes, hands, late>>

-----------------------------------------------------------------------------
(* Agents and processes. *)

\* The version a save keeps: that of the document it replaces, or the first.
Keeps(p) == IF p \in Present THEN repo[p].ver ELSE 1

\* An agent reads the document that it is about to replace.
BeginSave(p) ==
  /\ saves < MaxSaves
  /\ p \in Present
  /\ Cardinality(hands) < MaxSaves
  /\ hands' = hands \cup {<<p, repo[p].ver>>}
  /\ UNCHANGED <<data, backups, lock, mem, pc, run, calls, saves, crashes, stuck, late>>

\* It writes the version that it read, or 1 when it found no document (that
\* takes no reading), whatever has become of the project since.  Any number of
\* agents may have read the same document, so none takes a version out of the
\* hands of the others.
Save(p, v) ==
  /\ saves < MaxSaves
  /\ v = 1 \/ <<p, v>> \in hands
  /\ saves' = saves + 1
  /\ repo' = [repo EXCEPT ![p] = [ver |-> v, body |-> saves + 1]]
  /\ late' = IF v = Keeps(p) THEN late ELSE late \cup {p}
  /\ UNCHANGED <<index, snapshot, backups, lock, mem, pc, run, calls, crashes, stuck, hands>>

\* A process dies and another takes its place: what it remembered is gone.
Crash(e) ==
  /\ crashes[e] < MaxCrashes[e]
  /\ crashes' = [crashes EXCEPT ![e] = @ + 1]
  /\ Gives(e)
  /\ mem' = [mem EXCEPT ![e] = NewMemory]
  /\ UNCHANGED <<data, backups, lock, calls, saves, stuck, hands, late>>

\* Nobody calls any more.
Rest == (\A e \in Engines : pc[e] = "idle") /\ UNCHANGED vars

-----------------------------------------------------------------------------
Init ==
  /\ repo \in [Projects -> {NoDoc} \cup [ver : Versions, body : {0}]]
  /\ index = repo
  /\ snapshot = Nothing
  /\ backups = << >>
  /\ lock = NoLock
  /\ mem = [e \in Engines |-> NewMemory]
  /\ pc = [e \in Engines |-> "idle"]
  /\ run = [e \in Engines |-> NoRun]
  /\ calls = [e \in Engines |-> 0]
  /\ crashes = [e \in Engines |-> 0]
  /\ saves = 0
  /\ stuck = FALSE
  /\ hands = {}
  /\ late = {}

Facade(e) == \/ \E cmd \in Commands[e] : Start(e, cmd)
             \/ EngineDetect(e)
             \/ Journal(e)

Locking(e) == LookAtLock(e) \/ UnlinkLock(e) \/ CreateLock(e) \/ WriteLock(e)
              \/ Judge(e) \/ Leave(e)

Pipeline(e) == \/ ManagerDetect(e) \/ DetectFails(e) \/ TakeBackup(e) \/ Prune(e)
               \/ PruneEnds(e) \/ BackupFails(e)
               \/ \E p \in Projects : ApplyStep(e, p) \/ RebuildIndex(e, p)
                                      \/ RegenerateSnapshot(e, p)
               \/ StepIsDone(e) \/ NextLoop(e) \/ Validated(e) \/ Fails(e)

Rollback(e) == \/ \E p \in Projects : RemoveAdded(e, p) \/ Wipe(e, p)
               \/ BeginCopies(e) \/ Paste(e) \/ DropDerived(e) \/ RestoreFails(e)

Next == \/ \E e \in Engines : Facade(e) \/ Locking(e) \/ Pipeline(e) \/ Rollback(e)
                              \/ Crash(e)
        \/ AgeLock
        \/ \E p \in Projects : BeginSave(p) \/ \E v \in Versions : Save(p, v)
        \/ Rest

Spec == Init /\ [][Next]_vars

-----------------------------------------------------------------------------
TypeOK ==
  /\ repo \in [Projects -> Doc]
  /\ index \in [Projects -> Doc]
  /\ snapshot \in [Projects -> Doc]
  /\ backups \in Seq([key : Keys, copy : [Projects -> Doc]])
  /\ \A i, j \in DOMAIN backups : backups[i].key = backups[j].key => i = j
  /\ lock \in LockFile \cup {NoLock}
  /\ mem \in [Engines -> Memory]
  /\ pc \in [Engines -> Phases]
  /\ run \in [Engines -> Run]
  /\ calls \in [Engines -> Nat]
  /\ \A e \in Engines : calls[e] <= MaxCommands[e]
  /\ crashes \in [Engines -> Nat]
  /\ \A e \in Engines : crashes[e] <= MaxCrashes[e]
  /\ saves \in 0 .. MaxSaves
  /\ stuck \in BOOLEAN
  /\ hands \in SUBSET (Projects \X Versions)
  /\ late \in SUBSET Projects

Older(doc, than) == doc = NoDoc \/ doc.body < than.body

\* Agents are not kept out, so a save that began before a step or a restore can
\* undo it for its project (BaseRepository.update, save): nothing is promised of
\* the projects in late.  What follows is that such a save harms no other one.

\* A migration that fails and takes its own backup leaves every project it
\* found, but for those a stale save hit, at the version it had, with nothing
\* older than what it held: the backup comes before the first step, pruning does
\* not touch it and all of it comes back (manager.migrate, BackupManager.create,
\* _restore_repository).
FailureRestores ==
  \A e \in Engines :
    /\ pc[e] = "exit" /\ run[e].cmd = "migrate"
    /\ \/ run[e].outcome = "rolled_back" /\ run[e].fresh
       \/ run[e].outcome \in {"no_backup", "refused"}
    => \A p \in Listed(e) \ late : /\ ~Older(repo[p], run[e].start[p])
                                   /\ repo[p].ver = run[e].start[p].ver

\* When migrate ends in COMPLETED every project it listed and no stale save hit
\* is at the target version, whatever was written back to the others, and after a
\* real run its index and snapshot were made from the migrated document (the
\* order of manager.migrate's phases).
CompletedIsMigrated ==
  \A e \in Engines :
    /\ pc[e] = "exit" /\ run[e].cmd = "migrate"
    /\ run[e].outcome \in {"completed", "up_to_date"}
    => \A p \in Listed(e) \ late :
         /\ repo[p].ver = Target
         /\ run[e].outcome = "completed" =>
              \A made \in {index[p], snapshot[p]} :
                made.ver = Target /\ ~Older(made, run[e].start[p])

\* When rollback succeeds, the index and the snapshot of every project it
\* listed, but for those a stale save hit, were made from the restored document,
\* not from the migrated one (MigrationEngine.rollback rebuilds after the files
\* are back).
RollbackRebuilds ==
  \A e \in Engines :
    pc[e] = "exit" /\ run[e].cmd = "rollback" /\ run[e].outcome = "restored"
    => \A p \in (Listed(e) \cap Present) \ late :
         \A made \in {index[p], snapshot[p]} : made.ver = repo[p].ver

\* Whatever fails, between calls no index and no snapshot is of another schema
\* version than its project's document, unless a process died on the way, a
\* restore was given up or a stale save hit the project: a failed migration drops
\* what it rebuilt, a finished one has rebuilt all of it, and so has a rollback
\* (manager.migrate, RollbackManager.rollback, MigrationEngine.rollback).
OnlyDeathsLeaveHalfDone ==
  /\ \A e \in Engines : pc[e] = "idle" /\ crashes[e] = 0
  /\ ~stuck
  => \A p \in Present \ late : \A made \in {index[p], snapshot[p]} :
       made = NoDoc \/ made.ver = repo[p].ver

\* One migration at a time (migration_engine.py, the facade's docstring).
OneMigrationAtATime ==
  \A d, e \in Engines : Inside(d) /\ Inside(e) => d = e
=============================================================================
