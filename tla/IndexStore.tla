------------------------------ MODULE IndexStore ------------------------------
(***************************************************************************)
(* The index of one project: five named parts that IndexBuilder,           *)
(* IndexUpdater and IndexManager.optimize read and write one by one, and   *)
(* the IndexCache that keeps a parsed snapshot of them for as long as      *)
(* their fingerprint (mtime and size) stays the same.                      *)
(*                                                                         *)
(* The parts are JSON files, or the tables of an SQLite database: there a  *)
(* part is still replaced by a transaction of its own, but update and      *)
(* remove change the rows of one entity in all five by one transaction,    *)
(* and a query asks the tables without a cache.                            *)
(*                                                                         *)
(* `hkos migrate` copies the JSON files of a project into its tables, the  *)
(* configuration then names SQLite, and the JSON files are not written any *)
(* more.                                                                   *)
(*                                                                         *)
(* A deployment says which of the two it is and what each agent calls.     *)
(* The agents in its locked are threads of one process that hold           *)
(* AgentLock's WRITE mode; other agents, of that process or another, take  *)
(* no lock.  The threads of a process share a cache.                       *)
(*                                                                         *)
(* An entry is abstracted to the document it was made from: its words, its *)
(* tags, its record, its edges.  The mtime of a file is the number of the  *)
(* operation that wrote it: each writes a file once.                       *)
(***************************************************************************)
EXTENDS Integers, Sequences, FiniteSets

CONSTANTS Agents,
          Deployments,    \* the ways the index is used
          Processes,      \* the agents of each process
          Project,        \* the project's own entity
          Knowledge,      \* knowledge ids
          Campaigns,      \* campaign ids
          Decisions,      \* decision ids; artifacts are treated alike
          Contents,       \* what a document can hold
          Links,          \* the targets of its edges, if it is knowledge
          ProjectCount    \* projects in the workspace

EngineOps == {"build", "rebuild", "update", "remove", "optimize", "query"}

\* The last two are `hkos migrate` and `hkos migrate --force`.
Ops == EngineOps \cup {"convert", "reconvert"}

\* does: what an agent calls; ids: the documents that come and go beside the
\* project's; converted: whether there may be a JSON index to move; and two
\* bounds, on the operations that write and on those that fail or die half-way.
Deployment ==
  [backend : {"json", "sqlite"}, locked : SUBSET Agents, does : [Agents -> SUBSET Ops],
   ids : SUBSET (Knowledge \cup Campaigns \cup Decisions), converted : BOOLEAN, maxWriters : Nat,
   maxLosses : Nat]

ASSUME AgentsAssumption ==
  /\ \A a \in Agents : \E p \in Processes :
       a \in p /\ \A q \in Processes \ {p} : a \notin q
  /\ Deployments \subseteq Deployment
  /\ \A d \in Deployments : \E p \in Processes : d.locked \subseteq p
ASSUME CountAssumption == ProjectCount \in Nat \ {0}
\* Each document has one type, and those of a type are files of a directory.  A
\* target that is no entity here is one of another project's.
ASSUME EntitiesAssumption ==
  /\ IsFiniteSet(Knowledge \cup Campaigns \cup Decisions)
  /\ Project \notin Knowledge \cup Campaigns \cup Decisions
  /\ Knowledge \cap (Campaigns \cup Decisions) = {} /\ Campaigns \cap Decisions = {}
  /\ DOMAIN Links = Contents

VARIABLES deployment,
          repo,      \* the documents of the repositories
          files,     \* the five files: a time stamp and the data, or the tables
          legacy,    \* the JSON index of a project that moves to SQLite
          cache,     \* IndexCache of each process: a fingerprint and a snapshot
          writer,    \* AgentLock's _writer flag
          pc, job,
          state,     \* "built" or converted, "updated" when neither was made,
                     \* "torn" when an operation was cut short since, "compact"
                     \* when optimize has gone over a torn index
          writers,   \* operations that write, begun so far
          losses

ghosts == <<state, writers, losses>>
setting == <<deployment, legacy>>
vars == <<setting, repo, files, cache, writer, pc, job, ghosts>>

None == [none |-> TRUE]

Entities == {Project} \cup Knowledge \cup Campaigns \cup Decisions

Types == {"project", "knowledge", "campaign", "decision"}

TypeOf(id) == CASE id \in Knowledge -> "knowledge"
                [] id \in Campaigns -> "campaign"
                [] id \in Decisions -> "decision"
                [] OTHER -> "project"

\* The order in which the files are read, written, deleted and looked at.
FileNames == <<"keyword", "tags", "entities", "relations", "statistics">>
Files == {FileNames[i] : i \in 1 .. 5}

\* The order in which build lists the documents.
ListedTypes == <<"project", "campaign", "knowledge", "decision">>

\* optimize leaves the entities alone.
OptimizedNames == <<"keyword", "tags", "relations", "statistics">>

Entries == [Entities -> Contents \cup {None}]

DataOf(f) == IF f = "statistics" THEN [Types -> Nat] ELSE Entries

Empty(f) == IF f = "statistics" THEN [t \in Types |-> 0]
            ELSE [id \in Entities |-> None]

EmptyIndex == [f \in Files |-> Empty(f)]

ProcessOf(a) == CHOOSE p \in Processes : a \in p

IsSqlite == deployment.backend = "sqlite"

LockedAgents == deployment.locked

Ids == {Project} \cup deployment.ids

\* The order in which `hkos migrate` copies: the files of a directory, sorted.
ConvertedNames == <<"entities", "keyword", "relations", "statistics", "tags">>

NoStamps == [f \in Files |-> 0]

\* What an operation holds: its arguments, its number, the indexes as objects,
\* the number of the file or the type it is at, the documents listed and
\* not loaded, the fingerprint, whether a file of the old index is gone already;
\* of an SQLite update the document and whether the tables knew its id.
NoJob == [op |-> "query", id |-> Project, number |-> 0, index |-> EmptyIndex,
          next |-> 1, todo |-> {}, fp |-> NoStamps, touched |-> FALSE,
          doc |-> None, known |-> FALSE]

\* count_by_type
Counts(entries) ==
  [t \in Types |-> Cardinality({id \in Entities : entries[id] # None /\ TypeOf(id) = t})]

\* What the repositories can hold in this deployment.
Documents == {r \in Entries : \A id \in Entities \ Ids : r[id] = None}

\* The five parts updates make of documents.
IndexOf(entries) ==
  [f \in Files |->
     CASE f = "statistics" -> Counts(entries)
       [] f = "relations" -> [id \in Entities |->
                                IF TypeOf(id) = "knowledge" THEN entries[id] ELSE None]
       [] OTHER -> entries]

Init ==
  /\ deployment \in Deployments
  /\ repo \in Documents /\ repo[Project] # None
  /\ files = [f \in Files |-> None]
  /\ legacy \in {None} \cup IF ~deployment.converted THEN {} ELSE
       {IndexOf(documents) : documents \in Documents}
  /\ cache = [p \in Processes |-> None]
  /\ writer = FALSE
  /\ pc = [a \in Agents |-> "idle"]
  /\ job = [a \in Agents |-> NoJob]
  /\ state = "updated" /\ writers = 0 /\ losses = 0

----
(* Helpers.                                                                *)

Goto(a, phase) == pc' = [pc EXCEPT ![a] = phase]

\* IndexStore.read, and the empty index the classes start from.
Data(f) == IF files[f] = None THEN Empty(f) ELSE files[f].data

\* IndexStore.fingerprint of one file; 0 stands for a missing file.
Stamp(f) == IF files[f] = None THEN 0 ELSE files[f].stamp

\* Mutant: the counter may go below zero.
IncrementUnclamped(statistics, t, up) ==
  [statistics EXCEPT ![t] = IF up THEN @ + 1 ELSE @ - 1]

\* StatisticsIndex.increment
Increment(statistics, t, up) ==
  [statistics EXCEPT ![t] = IF up THEN @ + 1 ELSE IF @ = 0 THEN 0 ELSE @ - 1]

\* Put the entry of id, or its absence, into the indexes that hold it.
WithEntry(index, id, entry) ==
  [f \in Files |->
     IF f = "statistics" \/ (f = "relations" /\ TypeOf(id) # "knowledge") THEN index[f]
     ELSE [index[f] EXCEPT ![id] = entry]]

Names(a) == IF job[a].op = "optimize" THEN OptimizedNames ELSE FileNames

\* Nothing of the call is needed any more.
Finish(a, phase) == Goto(a, phase) /\ job' = [job EXCEPT ![a] = NoJob]

\* Go on to the next of the files, or to phase after the last one.
Proceed(a, j, names, phase) ==
  IF j.next < Len(names)
  THEN job' = [job EXCEPT ![a] = [j EXCEPT !.next = @ + 1]] /\ UNCHANGED pc
  ELSE IF phase \in {"end", "invalidate_last"} THEN Finish(a, phase)
  ELSE job' = [job EXCEPT ![a] = [j EXCEPT !.next = 1]] /\ Goto(a, phase)

----
(* The beginning and the end of an operation.                              *)

FirstPhase(op) == CASE op \in {"update", "remove"} -> "invalidate_first"
                    [] op = "build" -> "list"
                    [] op = "rebuild" -> "delete"
                    [] op = "optimize" -> "read"
                    [] op \in {"convert", "reconvert"} -> "look"
                    [] op = "query" -> IF IsSqlite THEN "read" ELSE "stat"

\* Mutant: queries do not wait for the lock.
LockIsFreeForQueries(a, op) == a \in LockedAgents /\ op # "query" => ~writer

\* AgentLock's WRITE mode, for those that take it.
LockIsFree(a, op) == a \in LockedAgents => ~writer

\* The caller takes the lock, if it is one that does, and calls the engine.
Begin(a, op, id) ==
  /\ pc[a] = "idle"
  /\ op \in deployment.does[a]
  /\ op # "query" => writers < deployment.maxWriters
  /\ id \in IF op \in {"update", "remove"} THEN Ids ELSE {Project}
  /\ LockIsFree(a, op)
  /\ writer' = (writer \/ a \in LockedAgents)
  /\ writers' = writers + (IF op = "query" THEN 0 ELSE 1)
  /\ job' = [job EXCEPT ![a] =
                [NoJob EXCEPT !.op = op, !.id = id, !.number = writers']]
  /\ Goto(a, FirstPhase(op))
  /\ UNCHANGED <<setting, repo, files, cache, state, losses>>

End(a) ==
  /\ pc[a] = "end"
  /\ writer' = (writer /\ a \notin LockedAgents)
  /\ Goto(a, "idle")
  /\ UNCHANGED <<setting, repo, files, cache, job, ghosts>>

\* update and remove invalidate the cache of their process before they start,
\* build and rebuild when they are done, optimize never.
Invalidate(a) ==
  /\ pc[a] \in {"invalidate_first", "invalidate_last"}
  /\ cache' = [cache EXCEPT ![ProcessOf(a)] = None]
  /\ Goto(a, IF pc[a] = "invalidate_last" THEN "end"
             ELSE IF ~IsSqlite THEN "read"
             ELSE IF job[a].op = "update" THEN "load" ELSE "select")
  /\ UNCHANGED <<setting, repo, files, writer, job, ghosts>>

----
(* Writers.                                                                *)

\* One of the five files becomes an object.
Read(a) ==
  /\ pc[a] = "read"
  /\ LET f == FileNames[job[a].next]
     IN  Proceed(a, [job[a] EXCEPT !.index[f] = Data(f)], FileNames,
                 IF job[a].op # "query" THEN "change"
                 ELSE IF IsSqlite THEN "answer" ELSE "keep")
  /\ UNCHANGED <<setting, repo, files, cache, writer, ghosts>>

\* Mutant: the statistics count every update.
ApplyUpdateCounting(a) ==
  /\ pc[a] = "change" /\ job[a].op = "update"
  /\ repo[job[a].id] # None
  /\ LET id == job[a].id
         new == WithEntry(job[a].index, id, repo[id])
     IN  job' = [job EXCEPT ![a].index =
                   [new EXCEPT !["statistics"] = Increment(@, TypeOf(id), TRUE)]]
  /\ Goto(a, "write")
  /\ UNCHANGED <<setting, repo, files, cache, writer, ghosts>>

\* IndexUpdater.update: the old entries go, the document is read now, and the
\* statistics count it when the entities did not have it.
ApplyUpdate(a) ==
  /\ pc[a] = "change" /\ job[a].op = "update"
  /\ repo[job[a].id] # None
  /\ LET id  == job[a].id
         old == job[a].index
         new == WithEntry(old, id, repo[id])
     IN  job' = [job EXCEPT ![a].index =
                   IF old["entities"][id] # None THEN new
                   ELSE [new EXCEPT !["statistics"] = Increment(@, TypeOf(id), TRUE)]]
  /\ Goto(a, "write")
  /\ UNCHANGED <<setting, repo, files, cache, writer, ghosts>>

\* IndexUpdater.remove
ApplyRemove(a) ==
  /\ pc[a] = "change" /\ job[a].op = "remove"
  /\ LET id  == job[a].id
         old == job[a].index
         new == WithEntry(old, id, None)
     IN  job' = [job EXCEPT ![a].index =
                   IF old["entities"][id] = None THEN new
                   ELSE [new EXCEPT !["statistics"] = Increment(@, TypeOf(id), FALSE)]]
  /\ Goto(a, "write")
  /\ UNCHANGED <<setting, repo, files, cache, writer, ghosts>>

\* Mutant: entries of unknown entities stay.
ApplyOptimizeKeeping(a) ==
  /\ pc[a] = "change" /\ job[a].op = "optimize"
  /\ job' = [job EXCEPT ![a].index["statistics"] = Counts(job[a].index["entities"])]
  /\ Goto(a, "write")
  /\ UNCHANGED <<setting, repo, files, cache, writer, ghosts>>

\* IndexManager.optimize drops the words and the tags of unknown entities and
\* counts the entities again.
ApplyOptimize(a) ==
  /\ pc[a] = "change" /\ job[a].op = "optimize"
  /\ LET old == job[a].index
         records == old["entities"]
         Known(entries) == [id \in Entities |-> IF records[id] = None THEN None ELSE entries[id]]
     IN  job' = [job EXCEPT ![a].index =
                   [old EXCEPT !["keyword"] = Known(old["keyword"]),
                               !["tags"] = Known(old["tags"]),
                               !["statistics"] = Counts(records)]]
  /\ Goto(a, "write")
  /\ UNCHANGED <<setting, repo, files, cache, writer, ghosts>>

\* rebuild deletes the five files first.
Delete(a) ==
  /\ pc[a] = "delete"
  /\ files' = [files EXCEPT ![FileNames[job[a].next]] = None]
  /\ Proceed(a, [job[a] EXCEPT !.touched = TRUE], FileNames, "list")
  /\ UNCHANGED <<setting, repo, cache, writer, ghosts>>

\* build lists the documents of each type in turn ...
List(a) ==
  /\ pc[a] = "list" /\ job[a].todo = {} /\ job[a].next <= 4
  /\ LET t == ListedTypes[job[a].next]
     IN  job' = [job EXCEPT ![a].next = @ + 1,
                            ![a].todo = {id \in Entities : repo[id] # None /\ TypeOf(id) = t}]
  /\ UNCHANGED <<setting, repo, files, cache, writer, pc, ghosts>>

\* ... and loads them one after the other.
Load(a) ==
  /\ pc[a] = "list"
  /\ \E id \in job[a].todo :
       /\ repo[id] # None
       /\ job' = [job EXCEPT ![a].todo = @ \ {id},
                             ![a].index = WithEntry(@, id, repo[id])]
  /\ UNCHANGED <<setting, repo, files, cache, writer, pc, ghosts>>

\* It counts what it read; projects are those of the whole workspace.
Count(a) ==
  /\ pc[a] = "list" /\ job[a].todo = {} /\ job[a].next > 4
  /\ LET counts == Counts(job[a].index["entities"])
     IN  job' = [job EXCEPT ![a].index["statistics"] =
                   [counts EXCEPT !["project"] = @ + ProjectCount - 1], ![a].next = 1]
  /\ Goto(a, "write")
  /\ UNCHANGED <<setting, repo, files, cache, writer, ghosts>>

\* An operation that has replaced or deleted a file and is not done with them.
Halfway(a) == pc[a] \in {"delete", "list", "write", "copy"} /\ job[a].touched

\* A document to load is not there any more: update and build raise, rebuild
\* after it has deleted the old files.
NotFound(a) ==
  /\ \/ pc[a] = "change" /\ job[a].op = "update" /\ repo[job[a].id] = None
     \/ pc[a] = "load" /\ repo[job[a].id] = None
     \/ pc[a] = "list" /\ \E id \in job[a].todo : repo[id] = None
  /\ state' = IF Halfway(a) THEN "torn" ELSE state
  /\ Finish(a, "end")
  /\ UNCHANGED <<setting, repo, files, cache, writer, writers, losses>>

\* What the end of a build or an optimize makes of a damaged index.
Repaired(op) == CASE op \in {"build", "rebuild"} -> "built"
                  [] op = "optimize" /\ state = "torn" -> "compact"
                  [] OTHER -> state

\* One of the files is written, through a temporary file.
Write(a) ==
  /\ pc[a] = "write"
  /\ LET f    == Names(a)[job[a].next]
         last == job[a].next = Len(Names(a))
     IN  /\ files' = [files EXCEPT ![f] = [stamp |-> job[a].number, data |-> job[a].index[f]]]
         /\ state' = IF last THEN Repaired(job[a].op) ELSE state
  /\ Proceed(a, [job[a] EXCEPT !.touched = TRUE], Names(a),
             IF job[a].op \in {"build", "rebuild"} THEN "invalidate_last" ELSE "end")
  /\ UNCHANGED <<setting, repo, cache, writer, writers, losses>>

----
(* SqliteIndexStore's update_entity and remove_entity.                     *)

\* The document is loaded before the database is opened ...
LoadEntity(a) ==
  /\ pc[a] = "load"
  /\ repo[job[a].id] # None
  /\ job' = [job EXCEPT ![a].doc = repo[job[a].id]]
  /\ Goto(a, "select")
  /\ UNCHANGED <<setting, repo, files, cache, writer, ghosts>>

\* ... and the old record selected before the transaction begins, which it does
\* with the first row that is deleted.
Select(a) ==
  /\ pc[a] = "select"
  /\ job' = [job EXCEPT ![a].known = Data("entities")[job[a].id] # None]
  /\ Goto(a, "commit")
  /\ UNCHANGED <<setting, repo, files, cache, writer, ghosts>>

\* Mutant: every row is deleted.
ReplacedAlone(j) == WithEntry(EmptyIndex, j.id, j.doc)

\* The five parts as the transaction finds them, with the rows of the entity
\* replaced, and the counter moved where the record came or went.
Replaced(j) ==
  LET new == WithEntry([f \in Files |-> Data(f)], j.id, j.doc)
  IN  IF j.known = (j.doc # None) THEN new
      ELSE [new EXCEPT !["statistics"] = Increment(@, TypeOf(j.id), ~j.known)]

\* Mutant: the edges of the old document stay.
CommitKeepingEdges(a) ==
  /\ pc[a] = "commit"
  /\ files' = [f \in Files |->
       [stamp |-> job[a].number,
        data |-> IF f = "relations" /\ job[a].op = "remove" THEN Data(f)
                 ELSE Replaced(job[a])[f]]]
  /\ Finish(a, "end")
  /\ UNCHANGED <<setting, repo, cache, writer, ghosts>>

\* All five are marked as present.
Commit(a) ==
  /\ pc[a] = "commit"
  /\ files' = [f \in Files |-> [stamp |-> job[a].number, data |-> Replaced(job[a])[f]]]
  /\ Finish(a, "end")
  /\ UNCHANGED <<setting, repo, cache, writer, ghosts>>

----
(* hkos migrate                                                            *)

\* There is no JSON index, or, unless forced, some part is in the tables already.
Look(a) ==
  /\ pc[a] = "look"
  /\ IF legacy = None \/ (job[a].op = "convert" /\ \E f \in Files : files[f] # None)
     THEN Finish(a, "end")
     ELSE Goto(a, "copy") /\ UNCHANGED job
  /\ UNCHANGED <<setting, repo, files, cache, writer, ghosts>>

\* One part is read and replaced, by a transaction of its own.
Copy(a) ==
  /\ pc[a] = "copy"
  /\ LET f    == ConvertedNames[job[a].next]
         last == job[a].next = Len(ConvertedNames)
     IN  /\ files' = [files EXCEPT ![f] = [stamp |-> job[a].number, data |-> legacy[f]]]
         /\ state' = IF last THEN "built" ELSE state
  /\ Proceed(a, [job[a] EXCEPT !.touched = TRUE], ConvertedNames, "end")
  /\ UNCHANGED <<setting, repo, cache, writer, writers, losses>>

----
(* IndexQueryExecutor.snapshot                                             *)

\* The fingerprint is taken file by file.
Stat(a) ==
  /\ pc[a] = "stat"
  /\ LET f == FileNames[job[a].next]
     IN  Proceed(a, [job[a] EXCEPT !.fp[f] = Stamp(f)], FileNames, "lookup")
  /\ UNCHANGED <<setting, repo, files, cache, writer, ghosts>>

\* The cached snapshot is the answer while the fingerprint is the same.
Hit(a) ==
  LET entry == cache[ProcessOf(a)]
  IN  /\ pc[a] = "lookup"
      /\ entry # None /\ entry.fp = job[a].fp
      /\ job' = [job EXCEPT ![a].index = entry.index, ![a].fp = NoStamps]
      /\ Goto(a, "answer")
      /\ UNCHANGED <<setting, repo, files, cache, writer, ghosts>>

\* A snapshot with another fingerprint is thrown away; the files are read.
Miss(a) ==
  LET entry == cache[ProcessOf(a)]
  IN  /\ pc[a] = "lookup"
      /\ ~(entry # None /\ entry.fp = job[a].fp)
      /\ cache' = [cache EXCEPT ![ProcessOf(a)] = None]
      /\ Goto(a, "read")
      /\ UNCHANGED <<setting, repo, files, writer, job, ghosts>>

\* Mutant: the fingerprint is taken after the files were read.
KeepFresh(a) ==
  /\ pc[a] = "keep"
  /\ cache' = [cache EXCEPT ![ProcessOf(a)] =
                 [fp |-> [f \in Files |-> Stamp(f)], index |-> job[a].index]]
  /\ Goto(a, "answer")
  /\ UNCHANGED <<setting, repo, files, writer, job, ghosts>>

Keep(a) ==
  /\ pc[a] = "keep"
  /\ cache' = [cache EXCEPT ![ProcessOf(a)] = [fp |-> job[a].fp, index |-> job[a].index]]
  /\ Goto(a, "answer") /\ job' = [job EXCEPT ![a].fp = NoStamps]
  /\ UNCHANGED <<setting, repo, files, writer, ghosts>>

Answer(a) ==
  /\ pc[a] = "answer"
  /\ Finish(a, "end")
  /\ UNCHANGED <<setting, repo, files, cache, writer, ghosts>>

----
(* What goes wrong, and what changes.                                      *)

\* A file cannot be read or written: the exception leaves the engine.
Fail(a) ==
  /\ pc[a] \notin {"idle", "answer", "end"}
  /\ losses < deployment.maxLosses /\ losses' = losses + 1
  /\ state' = IF Halfway(a) THEN "torn" ELSE state
  /\ Finish(a, "end")
  /\ UNCHANGED <<setting, repo, files, cache, writer, writers>>

\* A process that takes part dies; SQLite rolls an open transaction back.
Crash(p) ==
  /\ \E a \in p : deployment.does[a] # {}
  /\ losses < deployment.maxLosses /\ losses' = losses + 1
  /\ state' = IF \E a \in p : Halfway(a) THEN "torn" ELSE state
  /\ pc' = [a \in Agents |-> IF a \in p THEN "idle" ELSE pc[a]]
  /\ job' = [a \in Agents |-> IF a \in p THEN NoJob ELSE job[a]]
  /\ cache' = [cache EXCEPT ![p] = None]
  /\ writer' = (writer /\ LockedAgents \cap p = {})
  /\ UNCHANGED <<setting, repo, files, writers>>

\* The repositories save, update and delete documents; the project stays.
Change(id, entry) ==
  /\ id \in Ids
  /\ id = Project => entry # None
  /\ repo' = [repo EXCEPT ![id] = entry]
  /\ UNCHANGED <<setting, files, cache, writer, pc, job, ghosts>>

----
Next ==
  \/ \E a \in Agents :
       \/ \E op \in Ops, id \in Entities : Begin(a, op, id)
       \/ End(a) \/ Invalidate(a) \/ Read(a)
       \/ ApplyUpdate(a) \/ ApplyRemove(a) \/ ApplyOptimize(a)
       \/ Delete(a) \/ List(a) \/ Load(a) \/ Count(a) \/ NotFound(a) \/ Write(a)
       \/ LoadEntity(a) \/ Select(a) \/ Commit(a) \/ Look(a) \/ Copy(a)
       \/ Stat(a) \/ Hit(a) \/ Miss(a) \/ Keep(a) \/ Answer(a)
       \/ Fail(a)
  \/ \E p \in Processes : Crash(p)
  \/ \E id \in Entities, entry \in Contents \cup {None} : Change(id, entry)

Spec == Init /\ [][Next]_vars

----
(* Properties.                                                             *)

\* Each file holds the kind of data its class writes, cached snapshots too.
TypeOK ==
  /\ repo \in Entries /\ repo[Project] # None
  /\ \A f \in Files :
       /\ files[f] = None \/ (files[f].stamp \in Nat \ {0} /\ files[f].data \in DataOf(f))
       /\ \A a \in Agents : job[a].index[f] \in DataOf(f)
       /\ \A p \in Processes : cache[p] = None \/ cache[p].index[f] \in DataOf(f)
  /\ writer \in BOOLEAN
  /\ state \in {"updated", "built", "compact", "torn"}
  /\ writers \in 0 .. deployment.maxWriters /\ losses \in 0 .. deployment.maxLosses

\* The words, the tags, the records and the edges tell the same of every entity.
InStep(index) ==
  /\ index["keyword"] = index["entities"] /\ index["tags"] = index["entities"]
  /\ \A id \in Entities :
       index["relations"][id] =
         IF TypeOf(id) = "knowledge" THEN index["entities"][id] ELSE None

\* The counters of these types count the records.
Counted(index, types) ==
  \A t \in types : index["statistics"][t] = Counts(index["entities"])[t]

\* The five indexes tell the same of every entity.
Agree(index) == InStep(index) /\ Counted(index, Types \ {"project"})

\* What a reader finds on disk.
OnDisk == [f \in Files |-> Data(f)]

\* Some edge among these leads to an entity that is not among those.
LeadsNowhere(edges, records) ==
  \E id \in Entities :
    /\ edges[id] # None
    /\ \E target \in Links[edges[id]] : target \notin Entities \/ records[target] = None

\* The files with entries of entities that have no record, edges whose target has
\* none, and the counts that are off.
Broken ==
  LET records == OnDisk["entities"]
      counts == [Counts(records) EXCEPT !["project"] = @ + ProjectCount - 1]
  IN  {f \in {"keyword", "tags", "relations"} :
         \E id \in Entities : OnDisk[f][id] # None /\ records[id] = None}
      \cup (IF LeadsNowhere(OnDisk["relations"], records) THEN {"target"} ELSE {})
      \cup {t \in Types : OnDisk["statistics"][t] # counts[t]}

\* What IndexValidator.validate reports; nothing more when a file is missing.
Errors == IF \E f \in Files : files[f] = None THEN {"missing"} ELSE Broken

\* Mutant: only the ids are compared.
DoctorPassesByIds ==
  /\ files["statistics"] # None
  /\ \A id \in Entities \ {Project} :
       (repo[id] = None) = (OnDisk["entities"][id] = None)

\* HkosDoctor.check on repository and index, which raises where the statistics
\* were never written: campaigns and knowledge are counted, decisions are not, and
\* the ids of all are compared.  The project, which an update never lists, is left
\* out; so are, here, its checks of the snapshot and of edges between documents.
DoctorPasses ==
  /\ files["statistics"] # None
  /\ \A t \in {"campaign", "knowledge"} : OnDisk["statistics"][t] = Counts(repo)[t]
  /\ \A id \in Entities \ {Project} :
       (repo[id] = None) = (OnDisk["entities"][id] = None)

Sound == state \in {"updated", "built"}

\* Those that write take the lock, or there is but one of them.
Writers == {a \in Agents : ~(deployment.does[a] \subseteq {"query"})}
Locked == Writers \subseteq LockedAgents \/ \A a, b \in Writers : a = b

Quiet == \A a \in Agents : ~Halfway(a)

\* Where the writers take the lock, the five files agree between operations,
\* unless one of them was cut short; a build makes them agree again whatever
\* happened before.
FilesAgree == Locked /\ Quiet /\ Sound => Agree(OnDisk)

\* With SQLite, two processes that update and remove without a lock leave the
\* words, the tags, the record and the edges of an entity in step at every
\* moment, whatever fails or dies: the five tables change in one transaction
\* (update_entity, remove_entity).  Only the counters may drift, because the
\* old record is looked up before the transaction begins.
RowsAgree ==
  IsSqlite /\ Quiet /\ state = "updated" => InStep(OnDisk)

\* Where a document is missing, or the counter of campaigns or of knowledge has
\* drifted, the doctor says so: with every operation at its end and none cut short,
\* in an index it passes all rows are in step and these counters are right, whether
\* the writers take the lock or SQLite's transactions stand in for it
\* (docs/administrator.md, "hkos doctor").  It does not look at the counters of
\* decisions and artifacts, which may have drifted in an index that passes.
DoctorIsRight ==
  Quiet /\ Sound /\ (Locked \/ IsSqlite) /\ DoctorPasses =>
    InStep(OnDisk) /\ Counted(OnDisk, {"campaign", "knowledge"})

\* After optimize no word and no tag leads to an entity without a record, and
\* the counts are those of the records, although a cut operation left them
\* different; the operations that follow keep it so.  After a build the validator
\* has nothing to say but, once optimized, of the number of projects, and of edges
\* whose target is not indexed: where the records are those of the repository,
\* that is an edge into another project or to a document that is gone.
NothingDangles ==
  Locked /\ Quiet =>
    /\ state # "torn" => Broken \subseteq {"relations", "target", "project"}
    /\ state = "built" =>
         /\ Errors \subseteq {"target", "project"}
         /\ OnDisk["entities"] = repo =>
              ("target" \in Errors
                 <=> LeadsNowhere([id \in Entities |->
                       IF TypeOf(id) = "knowledge" THEN repo[id] ELSE None], repo))

\* A cached part whose file looks the same is what the file holds, whoever
\* wrote the file and whenever: the fingerprint is taken before the files are
\* read.  (A missing file looks the same whenever it is missing.)
CacheIsHonest ==
  \A p \in Processes : cache[p] # None =>
    \A f \in Files :
      files[f] # None /\ cache[p].fp[f] = Stamp(f) =>
        cache[p].index[f] = files[f].data

\* A query under the lock never sees half of an update, from the files or from
\* the cache.
AnswersAreWhole ==
  [][\A a \in LockedAgents :
       pc[a] = "answer" /\ pc'[a] = "end" /\ Sound => Agree(job[a].index)]_vars

\* An update or a remove changes no entry of another entity.
OthersAreKept ==
  [][\A a \in Agents :
       /\ pc[a] \in {"write", "commit"} /\ job[a].op \in {"update", "remove"}
       /\ <<pc'[a], job'[a]>> # <<pc[a], job[a]>> /\ files' # files
       =>
         \A id \in Entities \ {job[a].id}, f \in Files \ {"statistics"} :
           Data(f)'[id] = Data(f)[id]]_vars

===============================================================================
