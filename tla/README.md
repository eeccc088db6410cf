# HKOS: a verification project

TLA+ models of HKOS, the knowledge store and memory service of the Hermes
agents, the TLC runs that check them on small instances, and TLAPS proofs for
every value of the constants.  Every definition is translated from the Python
source; `PROJECT.json` names the lines each one stands for.

## 1. The system

HKOS keeps, for each project, documents of five types (project, campaign,
knowledge, decision, artifact) as JSON files.  Services change them, an index
makes them searchable, retrieval and context building turn them into text for
an agent, snapshots freeze the canonical part, migrations bring old files up to
date.  There is no database server and no daemon: the same directory is used
by the process Hermes runs its hooks in (threads that share an `AgentLock`), by
an MCP server process and by command line tools, and only the hooks take the
lock.

### Inventory

| Component | State | Operations | Hard behaviour | What makes it correct |
|---|---|---|---|---|
| Storage (`storage/`) | files, temporary files | atomic write, read, delete | crash between temporary file and rename | a file is the old or the new document, never a part |
| Repository (`repository/`) | documents with `_rev` | save, update, delete, load, list | check-then-write, `expected_revision` passed by nobody | no write is lost, `_rev` grows by one |
| Librarian (`services/librarian/`) | status, history, edges, confidence of knowledge | register, update, verify, canonicalize, merge, reject, archive, restore, detect_conflicts, recalculate_confidence | load-modify-save on copies, two documents in a merge, a scan in detect_conflicts | statuses move along TRANSITIONS, histories are append-only and explain the status, no edge leads to what never was |
| AgentLock (`integration/hermes/agent_lock.py`) | `_readers`, `_writer`, `_migration` | acquire and release in three modes, by polling | an exception or a restart while held, starvation | mutual exclusion, every call ends |
| Memory service and hooks (`services/memory_service.py`, `integration/hermes/hooks.py`) | availability flags, queue of refused items, all stores under it | retrieve_before_task, save_after_task, reset_fallbacks, drain_pending | partial failure of a batch, shared flags changed outside the lock, fallbacks | what is returned as saved is retrievable, nothing is dropped |
| Campaigns (`services/campaign_*.py`) | FSM, steps, journal in one document | create, open, pause, resume, close, archive, delete, and internally fail and wait_external | load-then-update without revision; edges of knowledge lead to campaigns that are deleted | legal transitions, append-only journal, one campaign for each goal that is named |
| Projects (`services/project_*.py`) | FSM in the project document | create, open, close, archive, delete, rename | the same | legal transitions |
| Snapshots (`snapshot/`) | version files, `order.json`, `history.json` | create, load, diff, validate, history | three files written one after the other, a fixed temporary name, numbers derived twice | an append-only chain of versions |
| Index, JSON (`index/`) | five files, a cache with a fingerprint | build, rebuild, update, remove, optimize, validate, query | five reads and five writes, stale cache, counters kept by deltas | the files agree, the cache is never stale, a build heals |
| Index, SQLite (`index/sqlite_store.py`) | the same five parts as tables, no cache | the same, and the conversion of a JSON index | a transaction for each part of a build, one for an update, whose look-up comes before it; two processes without a lock | the rows of an entity change together, those of others stay; the doctor notices when the counters of campaigns or knowledge drift |
| Retrieval (`retrieval/`) | none | retrieve, related, by tag, ... | index older than the repository, or changing between two questions of a call, a document gone in between | only eligible knowledge is returned |
| Context (`context/`, with the compression of `performance/context_profiles.py`) | the last build's numbers | build, optimize, explain; LIGHT, NORMAL, AGGRESSIVE | four passes that each reorder or drop, one budget, compression of what the others made | what is kept, its order and section; protected sections survive compression |
| Migration (`migration/`) | FSM state, history, last backup (in memory); lock file, backups, manifest (files) | detect, migrate, validate, backup, rollback | lock stealing by timeout, backups reused, published first and pruned later, agents whose saves straddle a step or a restore, crash between steps | one migration at a time, rollback restores, a stale save harms no other project |
| MCP server (`mcp_server/`) | none of its own | save (register, promote, index), retrieve, snapshot, ... | a second process without the lock, and without the flags and the queue of `MemoryService` | that of the stores it uses |
| CLI (`cli/`) | none of its own | `hkos migrate` moves an index to SQLite; the others print | a move cut short | what is moved agrees, or is reported |
| Doctor (`integration/hermes/doctor.py`) | none | compares ids, and counts of campaigns and knowledge, of repository and index | it reads while others write | what it passes agrees in what it compares |
| Guard, security, audit (`integration/hermes/`) | an audit file nothing reads | `MigrationSafetyGuard.check`, permissions | the guard probes the lock of the migration it guards | a refused call changes nothing |
| Performance (`performance/`) | LRU caches with time to live, counters | get, set, measure | eviction and expiry | a cached value is not older than its time to live |
| Core (`core/`) | four runtime flags | start, stop | — | — |

How they interact: a hook takes the lock, calls `MemoryService`, which calls
the Librarian (repository writes), `IndexEngine.update` (reads the repository,
writes the index files) and `SnapshotEngine.create` (reads the index, writes
the snapshot files).  Retrieval reads the index and loads documents from the
repository.  All of it is synchronous; the only concurrency is between threads
under the lock, between those and callers without it, and between processes.

## 2. The modules

| Module | Stands for | Relation to the others |
|---|---|---|
| `KnowledgeModel` | the documents and the pure rules: `TRANSITIONS`, the confidence formula, conflicts, edges, merge, the repository's envelope | extended by the next one |
| `KnowledgeLifecycle` | **abstract**: every Librarian operation in one step | what `Librarian` implements |
| `Librarian` | the Librarian step by step: lock, load, (scan, second load), change, read for the envelope, temporary file, rename; failures and crashes | extends `KnowledgeLifecycle`, whose documents are its own; property `Contract` |
| `HermesMemory` | the two hooks and the whole of `MemoryService` under them, and the save tool of the MCP server beside them | a knowledge item is reduced to its status, whose life is `Librarian`'s |
| `SnapshotLog` | **abstract**: an append-only log of versions | what `SnapshotStore` implements |
| `SnapshotStore` | `SnapshotManager.create` over `FileSnapshotPersistence`, file by file | `INSTANCE SnapshotLog`, property `GrowsAtTheEnd` |
| `IndexStore` | the five parts of the index, as JSON files or SQLite tables, the engine's six operations, the cache, the conversion, the validator and the doctor | beneath `HermesMemory`'s `index` |
| `Migration` | `MigrationEngine` over `MigrationManager`, `BackupManager`, `RollbackManager`: lock file, phases, backups, rollback, and the guard before them | a project is reduced to one document with a version; indexes and snapshots to what they were made from |
| `Workspace` | `ProjectManager` and `CampaignManager` over their repositories, load, change, read for the envelope, rename | the same write path as `Librarian`, without a contract: see `WorkspaceProofs` |
| `Retrieval` | `RetrievalEngine`'s pipeline over an index that lags and a repository that moves | its `index` is what `IndexStore` keeps, as one step each |
| `Context` | `ContextBuilder` and its optimizer, sections and compression | functions of an answer of `Retrieval` |
| `MC*` | instances for TLC | |
| `*Proofs` | theorems | see section 5 |

### KnowledgeModel, KnowledgeLifecycle, Librarian

A document is a record with the fields the rules read: status, title (the
sequence of base titles, since a merge concatenates), kind, category, the five
confidence factors, confidence, links, parents, history, `created_at` (as the
set of older documents) and `_rev`.  Text is abstracted to a title and to
whether a kind or category is negative, which is what `ConflictDetector` looks
at.  The confidence formula is the integer arithmetic of
`LinearConfidenceStrategy`, caps and clamp included.

An operation of `Librarian` is: `Acquire` (only `LockedAgents`), one of the
`Load*`/`Begin*` actions (guards, exceptions and early returns of the method;
the working copy is changed here because nothing else is read in between),
`Scan` for the second read of `detect_conflicts`, `LoadSecond` for `merge`,
`LoadForUpdate` for `update` (the caller's edit is a step of its own because
the caller got his copy earlier), `Stage` (the read for the envelope and the
temporary file) and `Replace` (the rename).  `Fail` is an exception anywhere:
`AtomicWriter` removes the temporary file.  `Crash` takes a whole process: all
agents that share the lock, and the lock with them.

Knowledge is never deleted, but its edges lead to decisions, artifacts and
campaigns as well, and into other projects (`_target_exists`).  These are
`Others`: `present` are those there are, `deleted` those there were, and the other
services create and delete them (`CreateOther`, `DeleteOthers`: a campaign by
`CampaignManager`, whatever a project has by `ProjectManager`).  In the locked
deployment they do so within a session, too.  So an edge may dangle, as the
comments of `Librarian.update` and the doctor's check expect, and
`LinksResolve` says for which reason alone.

### HermesMemory

Each action is a stage of `save_after_task` or `retrieve_before_task`; the
lock, the three availability flags and the queue are variables.  `SaveRaises`
and `RetrieveRaises` are exceptions the hook lets out, with the `finally` that
releases the lock.  `Advance` is another caller of `CampaignManager`, so that a
goal's campaign may be started, finished or archived at any moment.  The flags
are reset before the lock is taken, as in the hooks.  A campaign is looked for by
its goal when that is `Named`: neither left out (`NoGoal`, the empty string) nor
blank once normalized (`BlankGoals`).  Where it was left out, `"task"` is stored
(`DefaultGoal`), which a later call that names the goal "task" takes up.

A deployment says which agents call the hooks and which, in the MCP server's
process, the save tool.  `ToolSave` hands over one item, which is registered
(`ToolRegister`), promoted if the caller asks (`ToolPromote`, two steps), indexed
(`ToolIndex`) and loaded for the answer (`ToolLoad`): no lock, no flags, no queue,
no snapshot.  An exception (`ToolRaises`) leaves the item where it is;
`ServerCrash` is the server's own restart, which leaves lock, flags and queue
alone.  The two processes share an SQLite index there,
where an update touches the rows of its item alone.

### SnapshotStore

`create` reads the latest version for the number, reads the index, compares,
then writes the version file, `order.json` and `history.json`, each as a
temporary file with a **fixed** name and a rename; all of these are separate
steps.  Filling a temporary file is one step (a half-written one is never
renamed by its writer; a second writer that fills the same name replaces it
whole).  Reading the latest version, two file reads, is one step too.  `Fail`
and `Crash` may come between any two steps and clean nothing up.  The content of
a version is a value; `Compared` says what `SnapshotDiff` sees of it, since the
diff looks at everything but the open questions, so that two different documents
may be the same to `create`.

### IndexStore

One entry is abstracted to the document it was made from, for the words, the
tags, the record and the edges alike.  Files are read, written, deleted and
looked at one by one in the code's order; a build lists each type and then
loads document by document.  There are projects, campaigns, knowledge and
decisions, which stand for artifacts as well; `Links` says what the edges of a
document lead to, in the project or not.  The fingerprint of a file is the number of the
operation that wrote it (each writes a file once; 0 is a missing file), which
assumes that two writes of a file differ in mtime or size.  An entity keeps its
type, as every caller passes the type of the entity it has.

A deployment chooses the backend, who holds `AgentLock`, what each agent calls,
and which documents come and go.  With SQLite a part of a build, a rebuild or an
optimize is still replaced or deleted on its own (`Write`, `Delete`: one
transaction each), but an update loads the document (`LoadEntity`), asks whether
the tables know it (`Select`, before the transaction that the first DELETE begins),
and then changes the
rows of that entity in all five parts and the counter in one transaction
(`Commit`); a query reads the tables at once and keeps nothing.  `convert` and
`reconvert` are `hkos migrate` without and with `--force`: `Look` finds whether
there is anything to do, and `Copy` writes part after part from the JSON files in
`legacy`, which are either a complete index or not there at all.

`DoctorPasses` is the comparison `HkosDoctor` makes: the counters of campaigns and
knowledge and the ids of all; it never looks at the counters of decisions and
artifacts.  `Errors` is the validator's: entries without a record, counters that are
off, and edges whose target is not indexed, be it that it is gone or that it belongs
to another project.

### Migration

`pc` is where an engine's call is, `run` its local variables, `mem` what the
engine keeps between calls: the manager's FSM state, the status of the last
history record (the history is in memory and dies with the process) and the
path of the last backup.  The lock file is looked at, unlinked, created empty
and written in four steps (`acquire_lock`); `Leave` is the guard's release,
which removes whatever file is there.  Each phase of `MigrationManager.migrate`
is a step for each project it visits.  `Fails` is any exception of the pipeline,
with the roll back it leads to; `RestoreFails` one of the roll back itself.  A
roll back is `RemoveAdded` for each unknown project, `Wipe` and `Paste` for each
known one, `DropDerived`, and, in the facade's `rollback`, the rebuild loops.
A call may come through the guard instead (`Judge`): it has taken and released
the lock by then, which is how it learns whether a migration is running, and it
refuses after a migration whose last record is not a success.  `stuck` records
that a restore was given up.
Agents do not look at this lock and are not held by it.  A save reads the
document for its envelope (`BeginSave`) and writes the version it read back later
(`Save`), or 1 when it found none; in between the migration may have taken a step,
or restored the project.  `hands` are the versions that agents hold that way, and
`late` the projects where one of them has written another version than the one on
disk.  `AgeLock` is the stale timeout; `Crash` a process that dies and is started
again without memory.

A backup is copied in one step (a failed copy is never renamed into place), and
published by the rename (`TakeBackup`).  Pruning comes after it and is a phase of its
own: what is beyond the newest `KeepN` loses projects or goes (`Prune`), and at any
moment the rest stays as it is (`PruneEnds`), as errors of `rmtree` are ignored, or the
process dies.  So there may be more directories than `KeepN`, and one that has lost
projects is later reused under its key like any other.

### Workspace

Which agents hold `AgentLock` is chosen at the start (`locked`), so that one run
has both deployments.  A call loads its document into `job[a].copy`, changes
status, journal or steps there (`MoveCampaign`, `UpdateStep`, `MoveProject`),
reads the file again for the envelope (`Stage`) and replaces it (`Replace`).
Creating, resolving and renaming a project list all ids first (`ListIds`), then
load each (`NamesakesInUse`, or `Vanished` when one is gone), then go on.  The
two lower-case statuses of older documents are one value, `Legacy`, that no table
has.  `fail` and `wait_external` are internal operations; nothing under
`services/` calls them, tests do.

### Retrieval

A call is `TakeSnapshot`, then the questions of the four sources one by one
(`AskKeyword`, `AskTag`, `AskId`, and for the edges of an id `AskOutward`, `AskInward`
and an `AskNode` for the record at the end of each), `Cut`; a `Grade` for each candidate,
which asks for its record, and `Phase`, the first sort; then one
candidate at a time: `SkipContext`, `KeepStub` beyond the refine limit, `Refine`
for a document still there, `RefineRaises` otherwise; `Rank`; `Expand` and
`ExpandInward` for the edges of an item, and `TakeSnapshotOf`, `PassOver` or `Visit` and
`Load` for what is at the end of each; `Select`.  Between any two of
these the others `Write`, `Delete` and `Index` documents.

What a question is answered from is `View`.  An index kept as files is read once
for each project of a call (`IndexSnapshot`), and its questions are about what was
read.  One kept by SQLite (`live`) has a connection for a snapshot, and each question
is a query of the tables as they are at that moment (`SqliteIndexSnapshot`): the
record of a candidate, its edges and the records at their ends may be of different
states.  `held` records what the repository has held since the call began, `shown`
what the index has, `quiet` that nothing was changed;
the three are only for the properties.  A document has two scores for the query, the
one computed from its index record and the one computed from itself.  Both sorts are `Sorted`, by scores and then ids.

### Context

`Build`, `Optimize` and `Compress` are functions of the answer in `given`:
`Deduplicated`, `Merged` (canonical titles, compared normalised), `Ranked`,
`Budgeted`, `Sectionize`, and `Light` or `Trimmed` of the sections.  Text is
reduced to the lengths of titles, as that is what the budget counts.

## 3. The runs

| Run | Instance | Shows |
|---|---|---|
| `librarian_locked` | 3 ids and a campaign that comes and goes, 2 threads under the lock, 2 drafts of opposite polarity, one with an edge to the campaign and one with an edge to knowledge, an empty and a legacy store, histories of 3, 2 and 1 entries | no stale copies, the lifecycle's invariants and action properties, and the refinement of `KnowledgeLifecycle` (types and mutual exclusion are proved, section 5) |
| `memory` | 2 agents, both in the hooks (3 calls) or one in the save tool (2 calls); 3 items of which one is refused, batches that fail half-way, 1 fault, 1 restart, 2 campaign moves; a goal of their own, "task" by name, or none | returned items are retrievable, the index follows the repository, an item in the hooks' hands is saved, queued or accounted for, one campaign per goal that is named, every call ends |
| `memory_drain` | the same without faults | **violated**: `drain_pending` loses what it drains |
| `snapshots` | 2 threads under the lock, 3 versions, 2 losses, 3 index contents of which two differ in open questions only | versions, order and history agree; nothing recorded is rewritten; an unforced create brings news |
| `index` | six deployments: 2 threads under the lock on JSON files (3 writing operations, 1 loss) and on SQLite tables (the same, with a campaign too); a writer and a process that queries through its own cache without a lock (2 writing operations); two processes that update and remove rows without a lock, of knowledge or of a decision (3, 1 loss); a process that moves the index to SQLite and uses it (4, 1 loss). Knowledge has an edge to a campaign, which comes and goes or lies elsewhere. Documents change at any time | the parts agree, a build heals all but the edges that lead nowhere, optimize makes a damaged index usable, rows are in step, the doctor can be trusted for what it compares, the cache is never stale, answers are whole, other entities' entries are kept |
| `migration` | 1 process, 2 calls, 1 death, 2 projects with any mix of versions (a later release's and absent ones among them), 2 registered steps, 1 backup kept, 1 save by an agent, which may have read the document at any earlier moment; migrate and rollback directly or through the guard | what a failed migration restores, what a completed one has reached, what a rollback rebuilds, and that only a death or a failed restore leaves documents and what was made of them apart, but for a project that a stale save hit |
| `migration_lock` | 2 processes, one migration each, nothing fails, no time passes | **violated**: both are inside |
| `workspace` | 2 callers, both under the lock or one beside it, 3 calls, failures and crashes, 2 ids of each kind, 2 names; a running, a fresh and an older campaign, an open and an older project | a journal is a life of the campaign that ends at its status, in any deployment; under the lock each write builds on the last and no two projects in use have one name |
| `retrieval` | an index in files or in SQLite; 7 entities in 2 projects, of all types; 4 repositories, 3 queries, 2 changes by others; 3 candidates, 2 of them refined, depth 2, 2 related, 2 answered | what an answer may hold while others write; what it is when nobody does |
| `retrieval_related` | the same | **violated**: `related` answers documents that are not eligible |
| `context` | 5 entities, every answer of up to 3 items with doubles and of 4 without, 2 scores, 3 profiles, with and without history | the context is the one a declarative definition gives; optimizing it again changes nothing |
| `context_light` | the same | **violated**: LIGHT drops protected entries |

Why the bounds are enough.  *Librarian*: a lost update needs two agents and one
document, a merge needs two sources and a result, an edge two documents, or one and
a campaign that is deleted after the edge was accepted; the longest history lets a document run through a status change, a conflict and a
recalculation in any order, and the histories of the others keep the product
finite.  *HermesMemory*: two agents contend, the third call sees what the first
two left, the refused item comes second in its batch so that a good one is
already stored; three campaigns are one for each call, and two of them without a
goal already leave two campaigns "task".  Beside the server two
calls are enough, as what it shares with a hook is stores, not the lock or the
queue.  *SnapshotStore*: three
versions and two losses let a create be cut short, the next one reuse its
number, and a third build on it.  *IndexStore*: three writing operations are a
cut one, the repair and one more update on top; the reader's deployment has one
document, as `CacheIsHonest` is about files, and two writing operations, as a
cached snapshot meets at most the files that were there, are missing or are
new; two updates of one entity race, and the third builds on what they left; a
move, cut short, is repeated with and without `--force` and then updated.  *Migration*: two steps and two projects give mixed versions, a step that
is done half-way and a backup named after either step; two calls are a
migration and one that reuses its backup, a rollback, or the one that starts over
after a death; one backup kept makes the second push out the
first, or lose a project only; one save is enough to straddle any step, and two
projects to show that the other is not harmed.  Contention for the lock is only in the second run, since with two
engines inside none of the other properties can hold.  *Workspace*: two calls can
interleave, the third works on what they left, and the starts put every row of
both tables within three calls.  *Retrieval*: the links make a chain, a way into
the other project and back, and a link to a decision, so that depth 2 is reached
and passed; four matching documents meet three candidates, of which the third is
a stub; of two changes one can be to the document and one to the index.
*Context*: three items are enough for a double, a rival of a rival and something
after it; the limits of 2 and 3 tokens cut after the first, second or third
item.  Every run that must pass checks for deadlock.

Fairness.  Only `HermesMemory` states a liveness property.  It assumes weak
fairness of each agent's steps inside a hook or a tool call: these are
straight-line Python threads, and the number of calls is finite, so the polled lock comes free for
good or the waiting thread takes it.  With calls that never stop, `AgentLock`
has no queue and starvation is possible; no property claims otherwise.

Every property of a passing run has a mutant, an operator `...` marked
*Mutant* next to the one it replaces, that a plausible bug in that code would
produce and that breaks the property.

## 4. What the violations say

* `memory_drain`: the fallback queue promises no loss; draining discards.
* `migration_lock`: the engine promises one migration at a time; the lock file
  exists before it has contents, and one without contents counts as stale.
* `context_light`: compression promises to keep decisions, failures, rules and
  open questions; LIGHT takes entries of equal titles for doubles, but the entries
  it gets are `ContextItem` wrappers without a title, so each section keeps one.
* `retrieval_related`: docs/retrieval-eligibility.md says that a graph edge cannot
  expose knowledge that is not canonical; `related` applies no filter at all.

Divergences met on the way that have no run of their own.  They are built into
the models (or excluded there by a named assumption), and each is worth a
reader's look:

* README.md claims writes made safe by `_rev`.  Nobody passes
  `expected_revision`, so between processes the last write wins: a status may
  jump along an edge `TRANSITIONS` lacks, a journal loses an entry.
  (`LockedAgents`, `locked`)
* `Librarian.update` stores the status of the object it is given, which ADR-001
  rules out.  The run and the theorems are about callers that leave it alone.
  (`StatusEdits`, empty there)
* `CampaignManager.delete` and `ProjectManager.delete` leave edges of knowledge behind
  that lead nowhere, in the locked deployment too.  The code knows: `Librarian.update`
  does not check the edges it leaves unchanged, and the doctor lists those that dangle.
  (`DeleteOthers`, `LinksResolve`)
* Two unlocked processes that create a snapshot write the same version file.
* Two calls that leave the goal out leave two CREATED campaigns whose goal is "task",
  although `get_or_create_campaign` guards against duplicates: it looks for the goal it
  was given, and stores another.  (`NewCampaign`, `OneCampaignPerGoal`)
* `HkosDoctor` never compares the counters of decisions and artifacts that builder and
  updater keep.  They drift when two processes update an SQLite index, and the doctor
  passes it.  (`DoctorPasses`, `DoctorIsRight`)
* The validator takes an edge into another project, which `Librarian` accepts, for an
  error, and so an index that was just built of it for an invalid one.  (`Errors`,
  `NothingDangles`)
* A save that began before a step of a migration, or before a restore, and ends after it
  writes the version back that it read: a document of the old version stays behind a
  migration that ends COMPLETED, or one of the new version in a project that was
  restored.  Nothing keeps agents out, and nothing tells of it.  (`BeginSave`, `Save`)
* A death between the rename of a backup and the pruning leaves more than `keep_n`
  directories; one whose removal was cut short keeps its name, and the next migration
  with that key takes what is left for its backup.  (`Prune`, `TakeBackup`)
* `optimize` recounts projects from the records of one; with two projects the
  validator then refuses the index.  The test that says otherwise
  (`test_optimize_preserves_validity`) has one.
* `retrieve` scores a refined candidate by attributes that only knowledge has
  (`successful_usage`, `confirmations`), and raises for a decision or an artifact,
  which docs/retrieval-eligibility.md speaks of as results.  (`RefineRaises`)
* The token budget counts titles only, and a canonical item is kept once another
  item has been, so that the limit can be passed.
* A canonical failure is put in the section of canonical knowledge and is then
  trimmed by NORMAL and AGGRESSIVE, which promise to protect failures.  Of rules,
  patterns and configuration only the last is protected.  (`GroupOf`)
* The key of the retrieval cache in `performance/integration.py` has neither
  `top_n` nor `include_history`.
* Two processes that update the same new entity in SQLite both count it, because
  the old record is selected before the transaction.  The doctor notices when it is
  knowledge or a campaign.  (`Select`, and `RowsAgree`, which leaves the counters out)
* `hkos migrate` that was cut short finds some part in the tables the next time
  and says the project is on SQLite already; only `--force` repairs it.  (`Look`)
* After a failed migration `MigrationSafetyGuard` refuses rollback as well,
  although its message asks for one.  (`Judge`)
* The guard probes the lock by taking it, and thereby removes one that is stale,
  or, when the engine's last migration ended, that of another process.
  (`LookAtLock`, `Judge`)
* `MigrationCommandRegistry.execute` calls every handler with an agent and a
  confirmation; those of detect, status, validate and history take an agent only,
  and raise a TypeError.
* An audit trail may say that a migration started and not how it ended, when what
  is raised is no `MigrationError`.
* No migration step is registered at this commit (`JSONStore.CURRENT_VERSION` is
  1); `Migration` is of a release that registers some.

## 5. What is proved

For any sets of ids, titles, drafts, agents and initial stores that satisfy the
named assumptions of the modules:

* `LibrarianProofs`, of the contract: `ConfidenceInRange`, and lemmas that each
  operator of `KnowledgeModel` (`Apply`, `Updated`, `Merged`, `Recalculated`, ...) maps
  documents to documents and extends the history so that it still explains the status;
  `LifecycleInvariance` (`LifecycleTypeOK`, `HistoryExplainsStatus`,
  `RevisionCountsHistory`, `LinksResolve`) and the action properties
  `TransitionsAreLegal`, `HistoriesAreAppendOnly`, `RevisionsGrow`, `IdentitiesAreKept`.
  Of the Librarian, for every deployment: `TypeCorrectness`, `MutualExclusion` and
  `EdgesAlwaysResolve`; and when `AllLocked` (every agent takes the lock, callers leave statuses alone),
  `NoStaleCopies`, `LockedRefinement` and, through it, `LockedTransitions`,
  `LockedHistories`, `LockedRevisions`, `LockedSoundness`, `LockedCounts` and
  `LockedIdentities`.

The argument.  The contract's invariants are inductive together: a history
explains a status only if the operation that wrote the last entry was
applicable, `_rev` counts entries only because each write adds one of each, and
no edge ever led nowhere because knowledge is never deleted and the contract remembers
what else was.  For the step-by-step
Librarian the interesting invariant is `CopiesAreCurrent`: what an agent holds
between two steps is what the operation would compute from the store *now*.
It is inductive only with `Exclusive` and `TypeOK`, since another agent's
rename would break it, and mutual exclusion says there is none.  From it the
refinement is immediate: every step but `Replace` leaves the documents alone,
and `Replace` installs exactly the document of one step of the contract.  The
properties of the contract then carry over.

Edges need no lock.  What an agent is about to write leads to what was there when
it was checked (`Aims`), and no step takes anything out of what there is and was
(`Grows`), so that it does not matter what others do before the rename.  Only the copy a caller has edited
and not handed over yet may have edges that lead nowhere; `update` then either finds
them changed, and checks them, or finds those of the stored document.

`AllLocked` is the deployment docs/design/hkos-overview.md describes (one
process, `AgentLock` serializes writers).  Neither half can be dropped: TLC finds
short counterexamples to `LegalTransitions` when one of two agents takes no lock,
or when callers of `update` pass a status.

* `WorkspaceProofs`, for every deployment, unlocked callers included:
  `TypeCorrectness`, and `JournalsExplain`: every journal is a path through
  the campaign table that ends at the status.  The invariant adds to both that
  what a call holds at each place of its code fits the document it is about
  (`Fits`), in particular that a working copy about to be written is itself
  explained.  Status and journal are changed in one copy and a file is replaced
  whole, so that a stale copy may lose an update but never tears the two apart.
  Where every caller takes the lock (`Serialized`), also `NamesStayUnique` and
  `NoWriteIsLost`.  There the invariant (`Solo`) adds that one agent at most is at
  work and that what it holds is still true of the disk (`Current`): the ids it has
  listed are those stored, its copy was made from the stored document (`MadeFrom`)
  and counts its revision on, a name it found free is free, and a new id, being in
  `used`, is of no document.  A crash kills the whole process, so nobody is left with
  a copy that a later caller makes stale; the one who failed holds nothing any more.
  It assumes that no id is the value that stands for "no id" (`IdsAssumption`).

* `IndexStoreProofs`, for every deployment, unlocked processes included:
  `TypeCorrectness` and `CachesAreHonest`.  Where those that write take the lock, or
  there is but one of them (`Locked`), whatever fails or dies and whatever a JSON
  index is converted: `IndexFilesAgree` and `NothingIsLeftDangling`.  There, and where
  every agent only updates, removes and queries rows of SQLite tables without a lock
  (`RowByRow`): `RowsStayInStep`, `DoctorCanBeTrusted` and `RowsOfOthersAreKept`.  And
  `AnswersAreWholeUnderTheLock`, where no writer goes round a lock that others take
  (`NobodyBypasses`).

The argument for the cache.  A cached part vouches for a file when its stamp is
that of the file (`Vouches`).  What could break this is a file that is written
later with a stamp some fingerprint holds already.  So the invariant (`Honest`)
follows the stamps: calls that have yet to write have numbers of their own
(`Numbered`), a call has a file before it only until it has written it
(`Remaining`), and every stamp on disk, in a cached fingerprint or in one just
taken is `Spent`, that is, no call is going to write it again.  It also speaks of
the parts a query has read so far (`ReadSoFar`), as these are what it will cache.
That the fingerprint is taken before the files are read is what makes it
inductive: it may then be older than the parts, never younger.  The stamp stands
for mtime and size, so all of this assumes that two writes of a file differ there.

The argument for the files.  Under the lock one call writes at a time (`InTurn`:
a call that has a writing operation in hand is at work, and those at work under the
lock are one).  The invariant `Order` says what the index on disk is when nobody is
half-way (`Good`: it agrees unless torn, and is `Tidy` once an optimize or a build went
through), and what the one that is half-way has in hand, place by place (`Doing`):
before `change` the parts it has read are those on disk; in `write` the whole it is
writing is good, the files before its place are written, and what an update holds of other
entities is what is on disk; at `commit` the record it looked up is still there or still not there.  So what is on
disk at the end is what it had in hand, and a call that is cut short in between tears the
index, which the invariant then claims nothing of.  Tidiness goes along, as an
index an optimize has repaired need not agree, and the updates after it must keep
what it has.  A conversion is a
copy of an index that agrees (`LegacyAgrees`).

The argument for the answers.  What a query reads under the lock is what is on disk,
as nobody writes meanwhile (`Asking`).  What it takes from the cache is what was
on disk when its fingerprint was taken: by `Honest`, for a file that exists.  For a
missing one, whose stamp is the same whenever it is missing, one needs that it never
existed: that no build has deleted it since (`NeverWritten`), as only builds delete
and they put all five back, or tear the index.

The argument for the rows.  Under `RowByRow` no call ever holds a whole part
(`TouchRows`), so the only step that changes the tables is `Commit`, which takes
the parts as it finds them and replaces the rows of one entity in all of them:
if they were in step, they are.  That needs no lock, as the document was read
before, and whatever it is, the same one goes into every part.  The counters are
not in the invariant, as two processes may count one entity twice; the doctor
compares those of campaigns and knowledge with the repositories, and the ids with the
records, so that what it passes has these counters and the ids right, and the rows are
in step.  Of the other counters nothing follows.

* `SnapshotStoreProofs`, when every creator takes the lock (`AllLocked`, as
  above), through failures and crashes: `TypeCorrectness`, `HistoryCanBeTrusted`,
  `ReturnedStaysLoadable`, `NewsOnly`, and `LockedRefinement`: the store
  implements `SnapshotLog`.

The argument.  Without the lock two creators may take one number; with it (`Alone`)
what a create holds stays right between its steps: from the number it takes until
order.json is replaced its document is the version after the last one on the list,
with that one as parent, and from there until the history is written it is the
last one (`Fits`).  That is why the chain survives each step: a version file is
written before order.json names it, so a create that is cut short leaves a file
beyond the end of the list, which the next one may overwrite, and never touches
one on the list.  The numbers the history misses are those in `unlogged` and that
of the one create between the two files (`Accounted`).  In the refinement a create
takes effect when order.json is replaced, and every other step is a stutter of the
log.  The comparison an unforced create makes holds until then for the same reason:
nobody else can append, and the document it holds does not follow the index.

* `HermesMemoryProofs`, for every deployment, with the save tool or without, and any
  batches, goals, failures, crashes and transitions: `TypeCorrectness`,
  `SavesStayRetrievable`, `IndexLagsOnlyInSaves`, `GoalsShareCampaigns` and
  `NothingIsDropped`.

The argument.  Two things keep agents apart.  The lock does it for the hooks
(`Alone`), and campaigns need that: one that is about to create a campaign for a goal
it names has found none with that goal that it could take up (`Searched`), and nobody
else can have created one since.  Those that name no goal have not looked; that is why
of several campaigns "task" at most one was made by a call that named it.  Items
need no lock, which is why the save tool may do without it: an item is in the hands
of one call, from the moment it is handed over until it is returned (`Owned`), a
step writes documents and rows of items in its own hands only (`StepWrites`), and so
what a call has done with an item stays done (`Progress`).  A call that ends has
brought every item it saved to the stage it returns, or counts as interrupted, and
after that nobody has the item in hand: both `ReturnedIsRetrievable` and
`IndexFollowsRepository` follow.  The snapshot is a copy of the whole index, taken
while other saves may be half-way, but what it holds of a returned item is right.
That there is an id left for every campaign is a count (`Room`): campaigns, calls
that may still create one and calls to come are never more than ids; it assumes that
the set of ids is finite (`CampaignsAssumption`).

* `MigrationProofs`, for any projects, versions, steps and bounds: `TypeCorrectness`
  with any number of engines, and with one engine (`OneEngine`), whatever agents
  save meanwhile, of all projects that no stale save hit, `FailuresRestore`, `CompletedMigrates`, `RollbacksRebuild` and
  `FailuresLeaveNothingHalfDone`.

The argument.  The invariant says for each phase what is true of the projects the
call has listed and no stale save has hit (`Kept`, `Fits`).  A save may come at any
moment, with any version an agent has in hand; if it is not the one on disk, the
project is in `late` from then on.  So a document of another project has been replaced
at its own version only, and what is said of it, of its backup and of what was derived
from it goes on.  No step of the migration on one project looks at another one but to
see whether a step or a loop is over, which is why the others are not harmed.  Up to the backup their documents follow what the call
found; in the apply phase each is between the step's version and the target, which
is why a step that has no document left to rewrite may hand over to the next
(`DocsFit`).  The backup a migration took itself is the newest, so pruning, whatever else it takes
or leaves half-removed, spares it; it holds what the migration found, and
what it has not yet copied back is still to be copied (`BackupFits`): a document it
found has a copy, so it is in the loop's list.  The loops make index and snapshot of
each of these from a document at the target, which agents then change at that
version (`DerivedFits`), and of projects that are not listed nothing is
derived (`UnlistedFits`).  A validation that succeeds is what turns "not yet derived"
into "derived" at the end of a rollback.  Between the two ends of a change of
versions nothing is claimed of derived files; on either side they agree with the
documents, unless the process died or a restore was given up (`SteadyFits`).  That no
document is of a save to come, and that a project without documents has nothing
derived, goes along (`Timely`).  Two engines can be inside at once, as the violation
of `OneMigrationAtATime` shows, and each then writes what the other has listed;
nothing is claimed of what they leave.

* `RetrievalProofs`, for any entities, documents, queries and limits, whatever the
  others write, delete and index while a call runs: `TypeCorrectness`,
  `AnswersCanBeVouchedFor` and `QuietCallsFindWhatTheyShould`.

The argument.  An item is `Vouched` for when its document has been in the
repository since the call began, or is a record the index has shown, and so is each
edge of its path.  What the index has shown (`Said`) is one snapshot for each project
where it is kept as files, and whatever the tables have held since the call began with
SQLite, where no two edges need have been there at one time.  This is stable
(`VouchedStays`) because `held` and `shown` only grow and a snapshot of files is never
replaced: a traverser that took a fresh one for each parent could answer with a path
none of them holds.  So the
invariant says it of everything a call has in any list: what is ranked (`Scoring`),
reached or waiting (`Traversing`), being expanded (`Visiting`) and answered
(`Answered`).  That no entity is told twice goes from list to list: candidates are a
set, each is graded or still to be, then ranked or still to be scored, sorting keeps each once (`SortedIs`), a
neighbour joins only if it was not visited, and nothing is visited meanwhile but
from one set.  The sorts need strict orders: the ids decide between equal scores,
which is why two entities must not share one (`EntitiesAssumption`), and there must be
finitely many of them.  That a stub is a record and not nothing, and that its path has
room for one more edge before a parent is expanded, go along.

That a call on a quiet repository finds what the reference says has an invariant of
its own (`QInv`), beside the first one.  Every question is answered from what the
repository holds, from a snapshot (`Current`) as from the tables.  What should be found
has been, or a question still to be asked will find it (`Awaited`, `Hunting`), and nothing
else is found.  Where the limits are large enough all of it is a candidate
(`Passing`), all of it is loaded, and each match is still to be
scored or is ranked by its document (`Sifting`).  There is but one way to sort
(`SortedUnique`), so the ranking is the matches in the reference's order, and it stays
the first part of the traverser's list (`Leads`), to which neighbours only append:
what is admitted of the first part comes first in the answer, in the same order
(`FirstsAre`).  While there is room each match waits, is being expanded with the
neighbours not yet visited still to come (`Pending`), or has all that is `Wanted` of it visited
(`Reaching`), so when nothing waits any more all of that is in the list; what is
admitted of it is told, or the answer is full (`AllAreTold`).

* `ContextProofs`, for any documents, answers, profiles, token settings and sections:
  `ContextsAreTheReference` and `OptimizingSettles`.

The argument.  Each pass of the optimizer is a fold over a sequence.  A fold is
defined by recursion on sets of indices, so its value is known only once that
recursion is shown to have a solution (`Iterating`) and to follow it one index at a
time (`Unfolding`); from then on a pass is a loop (`AdmitSteps`, `MergeSteps`,
`AffordSteps`) with an invariant.  After i items the first pass has kept the first of
each entity that is not obsolete (`AdmittedSoFar`), the second the best of the rivals
so far, and there is exactly one (`MergedSoFar`, `OneBest`), which is why it may pick
any rival it finds; the third those of the ranking that had room when they were
taken (`AffordedSoFar`).  As the ranking is strict (`BeforeIs`, which needs that two
entities do not share an id) what was before an item when it was taken is what is
before it at the end, so that the budget can be told from the context alone.  Each pass
accounts for what it leaves out by a count.  What comes out is `Settled`: no doubles,
no rivals, nothing obsolete, in order and within the budget as it was taken; and what is settled
goes through all three passes unchanged (`SettledStays`).  The invariant (`CInv`)
keeps this for the setting of the last call, as a context built with history and
optimized without does change.

Only model-checked: the liveness property `HooksEnd`, since fairness and `ENABLED` are
beyond the prover.  Every other property of a passing run is the statement of a
theorem.  The four properties of the other runs (`NoItemLost`, `RelatedIsEligible`,
`ProtectedIsKept`, `OneMigrationAtATime`) are violated.  Of writers of JSON files that
take no lock `IndexStore` says nothing, as `FilesAgree` is not true there (`RowsAgree`
is what is left, on tables).

## 6. Not modelled, and the plan

Left out on purpose: file contents and JSON text, paths, logging, metrics,
argument parsing, how a score is computed (it is a number that a document has),
the token estimate of the serialized text.

`Librarian` has one set, `Others`, for whatever is not knowledge of the project at
hand: that a target in another project also needs that project's document is left out,
and deleting a project deletes what edges lead to in it, as `Deletions` says.

Simplifications to know of: `expected_revision` (no caller), READ and MIGRATION
lock modes (no caller outside tests), the
creation of the project itself in `resolve_project`, and an edge's meaning in
the index.  `HermesMemory` treats a register, an index update and a snapshot as
one step each; their own steps are in `Librarian`, `IndexStore` and
`SnapshotStore`.  In the hooks these run under the same lock; beside the server
an index update is one transaction and a document has one writer.  An index or a
snapshot that is cut short is therefore, in `HermesMemory`, one that did not
happen or that raised.

`Migration` leaves out the version manifest, which only tests construct and
nothing loads; appliers, which the repository leaves to the deployment, are taken
to rewrite the documents at their `from_version`, one by one; the registry is a
chain of unit steps; a new document starts at version 1; the validator's further
reasons to refuse are `Fails`.  A migration that dies after its last step is later
found up to date and its indexes are not rebuilt, and a rollback that dies
half-way cannot be repeated by a new process: both are in the model, and are why
`OnlyDeathsLeaveHalfDone` excepts deaths.

`Migration` claims nothing of a project to which an agent has written back another
version than the one on disk, until the end of the behaviour; what the code could do
about such a save it does not do.  A migration that reuses a backup is promised nothing
either (`fresh`), as what is under that key may be old or half-removed.

`IndexStore` takes the JSON index that is to be moved for a complete one, or for
none; a partial one is copied as far as it goes.  What another process reads of a
database during a transaction is what was there before it (SQLite's isolation,
taken on trust), and a locked database is `Fail`.

Not modelled: `Core` (a linear start-up and four runtime flags set from one
thread), the measuring half of `performance/`, and `ResultCache` with its
wrappers, which only tests wire up; `JSONStore` and `FileStore` beyond a write
that replaces a file or leaves it (parsing, schema checks, directories); the
audit trail, the permission table, and all commands of the CLI but `migrate`,
which print.

`Workspace` reduces the statuses of steps to pending and completed; goals,
progress and statistics compute only.  `CampaignRepository._set_status` has no
caller.  `resume` follows the table, which lets it start a READY campaign too,
although its docstring names PAUSED and WAITING_EXTERNAL.

`Retrieval` reads an index kept as files in one step for each project (its five reads
are in `IndexStore`), and an SQLite index by a step for each query, the two of one
question about edges among them; it leaves the order of candidates within one source open where the
code has that of a set or a file, and starts from a parsed query; a relation has
an id of its own.

`Context` leaves out the serialized text and its estimate, the name of the
snapshot, `explain` and the statistics; OPEN QUESTIONS are taken to be among the
configured sections, as in the default settings.

The plan, in order:

1. `Librarian` and its contract — done, proved.
2. `HermesMemory` — done, proved for every deployment but for its liveness.
3. `SnapshotStore` over `SnapshotLog` — done, proved when every creator takes the
   lock.
4. `IndexStore` — done, both backends, proved.
5. `Migration` — done with its guard, proved for one engine; its types for any number.
6. `Workspace` — done, proved.
7. `Retrieval` — done, proved.
8. `Context` — done, proved.
