------------------------------- MODULE Librarian -------------------------------
(***************************************************************************)
(* The Librarian as it runs.  An operation loads a document into a working *)
(* copy, changes the copy and saves it through BaseRepository, whose       *)
(* update reads the document again for the envelope, writes a temporary    *)
(* file and renames it over the document.  Other agents may act between    *)
(* any two of these steps.                                                 *)
(*                                                                         *)
(* LockedAgents are the threads of one process that hold AgentLock's WRITE *)
(* mode around their operations, as HermesProductionHooks does.  The other *)
(* agents are processes of their own (an MCP server, the CLI) and take no  *)
(* lock.                                                                   *)
(***************************************************************************)
EXTENDS KnowledgeLifecycle

CONSTANTS Agents,
          LockedAgents,    \* the agents that take AgentLock's WRITE mode
          StatusEdits,     \* statuses a caller may write into an update
          MaxHistory       \* bound: history entries, for each document

\* The locked agents are agents, edits write statuses, bounds are numbers.
ASSUME AgentsAssumption == LockedAgents \subseteq Agents
ASSUME StatusEditsAssumption == StatusEdits \subseteq Statuses
ASSUME MaxHistoryAssumption == MaxHistory \in [Ids -> Nat]

\* docs, present and deleted, what is on disk, are the contract's.
VARIABLES pc,        \* where each agent is in its operation
          job,       \* the operation and the working copy of each agent
          writer     \* AgentLock's _writer flag

vars == <<disk, pc, job, writer>>

\* The deployment hkos-overview.md describes: one process whose threads all
\* take the lock, and callers of update that leave the status alone.
AllLocked == LockedAgents = Agents /\ StatusEdits = {}

Phases == {"idle", "ready", "editing", "scanning", "merging", "loaded", "staged"}

Ops == LifecycleOps \cup {"recalculate", "detect_conflicts", "register",
                          "update", "merge"}

NoJob == [op |-> "none"]

\* work is the working copy, temp the temporary file once it is written.
Job == [op : Ops, id : Ids, work : Doc, temp : Doc \cup {NoDoc}]

JobOf(op, id, d) == [op |-> op, id |-> id, work |-> d, temp |-> NoDoc]

Init ==
  /\ LifecycleInit
  /\ pc = [a \in Agents |-> "idle"]
  /\ job = [a \in Agents |-> NoJob]
  /\ writer = FALSE

----
(* Helpers.                                                                *)

Room(id) == Len(docs[id].history) < MaxHistory[id]

\* Agent a holds document d as the working copy of operation op on id.
Hold(a, phase, op, id, d) ==
  /\ pc' = [pc EXCEPT ![a] = phase]
  /\ job' = [job EXCEPT ![a] = JobOf(op, id, d)]
  /\ UNCHANGED <<disk, writer>>

\* Agent a drops its operation: an early return, an error raised to the
\* caller, or the end of a save.
Drop(a) ==
  /\ pc' = [pc EXCEPT ![a] = "ready"]
  /\ job' = [job EXCEPT ![a] = NoJob]
  /\ UNCHANGED writer

----
(* The session of an agent: AgentLock.acquire(WRITE) and release.          *)

\* Mutant: AgentLock lets everybody in.
AcquireRegardless(a) ==
  /\ pc[a] = "idle"
  /\ writer' = (writer \/ a \in LockedAgents)
  /\ pc' = [pc EXCEPT ![a] = "ready"]
  /\ UNCHANGED <<disk, job>>

Acquire(a) ==
  /\ pc[a] = "idle"
  /\ a \in LockedAgents => ~writer
  /\ writer' = (writer \/ a \in LockedAgents)
  /\ pc' = [pc EXCEPT ![a] = "ready"]
  /\ UNCHANGED <<disk, job>>

Release(a) ==
  /\ pc[a] = "ready"
  /\ writer' = (writer /\ a \notin LockedAgents)
  /\ pc' = [pc EXCEPT ![a] = "idle"]
  /\ UNCHANGED <<disk, job>>

----
(* The first half of an operation: load and change a working copy.         *)

\* verify, canonicalize, archive, restore, reject
Load(a, op, id) ==
  /\ pc[a] = "ready"
  /\ id \in Stored(docs) /\ Room(id)
  /\ Applicable(op, docs[id])
  /\ Hold(a, "loaded", op, id, Apply(op, docs[id]))

LoadForRecalculate(a, id) ==
  /\ pc[a] = "ready"
  /\ id \in Stored(docs) /\ Room(id)
  /\ IsStale(docs[id])
  /\ Hold(a, "loaded", "recalculate", id, Recalculated(docs[id]))

LoadForDetect(a, id) ==
  /\ pc[a] = "ready"
  /\ id \in Stored(docs) /\ Room(id)
  /\ Hold(a, "scanning", "detect_conflicts", id, docs[id])

\* detect_conflicts lists the project's documents and compares them with the
\* copy it loaded before.
Scan(a) ==
  /\ pc[a] = "scanning"
  /\ LET id == job[a].id
         d == job[a].work
     IN  IF Conflicting(docs, id, d) # {}
         THEN Hold(a, "loaded", "detect_conflicts", id, ConflictMarked(d))
         ELSE Drop(a) /\ UNCHANGED disk

\* Mutant: the check for an existing document is left out.
BeginRegisterOver(a, id, c) ==
  /\ pc[a] = "ready"
  /\ LinksAccepted(docs, present, id, Authored(id, c))
  /\ Hold(a, "loaded", "register", id, Registered(id, c))

BeginRegister(a, id, c) ==
  /\ pc[a] = "ready"
  /\ id \notin Stored(docs)
  /\ \A b \in Agents : job[b].op = "merge" => job[b].id # id
  /\ LinksAccepted(docs, present, id, Authored(id, c))
  /\ Hold(a, "loaded", "register", id, Registered(id, c))

\* A caller reads a document and edits its copy before calling update.
Edit(a, id, c, s) ==
  /\ pc[a] = "ready"
  /\ id \in Stored(docs) /\ Room(id)
  /\ s \in {docs[id].status} \cup StatusEdits
  /\ Hold(a, "editing", "update", id, Edited(docs[id], id, c, s))

\* Mutant: update does not validate the edges it adds.
LoadForUpdateBlindly(a) ==
  /\ pc[a] = "editing"
  /\ Hold(a, "loaded", "update", job[a].id,
          Updated(docs[job[a].id], job[a].work))

\* update loads the stored document and takes over its immutable fields; it
\* checks the edges only when the caller changed them.
LoadForUpdate(a) ==
  /\ pc[a] = "editing"
  /\ LET id == job[a].id
         k == job[a].work
     IN  IF k.links # docs[id].links => LinksAccepted(docs, present, id, k.links)
         THEN Hold(a, "loaded", "update", id, Updated(docs[id], k))
         ELSE Drop(a) /\ UNCHANGED disk

BeginMerge(a, i) ==
  /\ pc[a] = "ready"
  /\ i \in Stored(docs)
  /\ Hold(a, "merging", "merge", i, docs[i])

\* The merged document gets a fresh uuid m: nobody else uses it.
LoadSecond(a, j, m) ==
  /\ pc[a] = "merging"
  /\ j \in Stored(docs) /\ j # job[a].id
  /\ m \notin Stored(docs)
  /\ \A b \in Agents : job[b] # NoJob => job[b].id # m
  /\ Hold(a, "loaded", "merge", m, Merged(job[a].id, job[a].work, j, docs[j], m))

\* The other services write and delete, in a session as well.
CreateOther(a, o) ==
  /\ pc[a] = "ready"
  /\ Create(o)
  /\ UNCHANGED <<pc, job, writer>>

DeleteOthers(a, some) ==
  /\ pc[a] = "ready"
  /\ Delete(some)
  /\ UNCHANGED <<pc, job, writer>>

----
(* The second half: save through the repository.                           *)

\* BaseRepository reads the document on disk and builds the envelope.
Stage(a) ==
  /\ pc[a] = "loaded"
  /\ pc' = [pc EXCEPT ![a] = "staged"]
  /\ job' = [job EXCEPT ![a].temp = Envelope(docs, job[a].id, job[a].work)]
  /\ UNCHANGED <<disk, writer>>

\* AtomicWriter renames the temporary file over the document.
Replace(a) ==
  /\ pc[a] = "staged"
  /\ docs' = [docs EXCEPT ![job[a].id] = job[a].temp]
  /\ UNCHANGED <<present, deleted>>
  /\ Drop(a)

\* An exception on the way, a failed write among them: the temporary file is
\* removed and the document stays as it was.
Fail(a) ==
  /\ pc[a] \notin {"idle", "ready"}
  /\ Drop(a)
  /\ UNCHANGED disk

Processes == {LockedAgents} \cup {{a} : a \in Agents \ LockedAgents}

\* A process stops: its working copies and its lock are gone, a temporary
\* file it leaves behind is never read.
Crash(p) ==
  /\ pc' = [a \in Agents |-> IF a \in p THEN "idle" ELSE pc[a]]
  /\ job' = [a \in Agents |-> IF a \in p THEN NoJob ELSE job[a]]
  /\ writer' = (writer /\ p # LockedAgents)
  /\ UNCHANGED disk

----
Next ==
  \/ \E a \in Agents :
       \/ Acquire(a) \/ Release(a)
       \/ Scan(a) \/ LoadForUpdate(a)
       \/ Stage(a) \/ Replace(a) \/ Fail(a)
       \/ \E o \in Others : CreateOther(a, o)
       \/ \E some \in Deletions : DeleteOthers(a, some)
       \/ \E id \in Ids :
            \/ \E op \in LifecycleOps : Load(a, op, id)
            \/ LoadForRecalculate(a, id)
            \/ LoadForDetect(a, id)
            \/ \E c \in Drafts : BeginRegister(a, id, c)
            \/ \E c \in Drafts, s \in Statuses : Edit(a, id, c, s)
            \/ BeginMerge(a, id)
            \/ \E m \in Ids : LoadSecond(a, id, m)
  \/ \E p \in Processes : Crash(p)

Spec == Init /\ [][Next]_vars

----
(* Properties.                                                             *)

\* Documents, working copies and temporary files are what their writers
\* build, and an agent has a working copy exactly while an operation runs.
TypeOK ==
  /\ LifecycleTypeOK
  /\ pc \in [Agents -> Phases]
  /\ job \in [Agents -> Job \cup {NoJob}]
  /\ writer \in BOOLEAN
  /\ \A a \in Agents :
       /\ (job[a] = NoJob) <=> (pc[a] \in {"idle", "ready"})
       /\ pc[a] = "staged" => job[a].temp # NoDoc

\* AgentLock lets one WRITE session at a time through, and its flag says
\* whether there is one.
Exclusive ==
  /\ writer <=> \E a \in LockedAgents : pc[a] # "idle"
  /\ \A a, b \in LockedAgents : pc[a] # "idle" /\ pc[b] # "idle" => a = b

\* Document d is what operation op makes of document id of the store as it
\* is now.
IsOutcome(op, id, d) ==
  \/ /\ op \in LifecycleOps
     /\ id \in Stored(docs)
     /\ Applicable(op, docs[id])
     /\ d = Apply(op, docs[id])
  \/ /\ op = "recalculate"
     /\ id \in Stored(docs)
     /\ IsStale(docs[id])
     /\ d = Recalculated(docs[id])
  \/ /\ op = "detect_conflicts"
     /\ id \in Stored(docs)
     /\ Conflicting(docs, id, docs[id]) # {}
     /\ d = ConflictMarked(docs[id])
  \/ /\ op = "register"
     /\ id \notin Stored(docs)
     /\ \E c \in Drafts : /\ LinksAccepted(docs, present, id, Authored(id, c))
                         /\ d = Registered(id, c)
  \/ /\ op = "update"
     /\ id \in Stored(docs)
     /\ \E c \in Drafts :
          LET k == Edited(docs[id], id, c, docs[id].status)
          IN  /\ k.links # docs[id].links => LinksAccepted(docs, present, id, k.links)
              /\ d = Updated(docs[id], k)
  \/ /\ op = "merge"
     /\ id \notin Stored(docs)
     /\ \E i, j \in Stored(docs) : /\ i # j
                                  /\ d = Merged(i, docs[i], j, docs[j], id)

\* Working copy d of operation op on id, in the given phase, is what the
\* operation would compute from the store as it is now.
IsCurrent(phase, op, id, d) ==
  /\ phase = "scanning" => op = "detect_conflicts"
  /\ phase = "merging" => op = "merge"
  /\ phase \in {"scanning", "merging"} => id \in Stored(docs) /\ d = docs[id]
  /\ phase = "editing" =>
       /\ op = "update"
       /\ id \in Stored(docs)
       /\ \E c \in Drafts : d = Edited(docs[id], id, c, docs[id].status)
  /\ phase \in {"loaded", "staged"} => IsOutcome(op, id, d)

\* No working copy goes stale: what an agent holds between two steps, and the
\* file it is about to rename, follow from the documents on disk now.
CopiesAreCurrent ==
  \A a \in Agents : pc[a] \notin {"idle", "ready"} =>
    /\ IsCurrent(pc[a], job[a].op, job[a].id, job[a].work)
    /\ pc[a] = "staged" => job[a].temp = Envelope(docs, job[a].id, job[a].work)

\* The Librarian implements its contract: every step of it is one operation
\* of KnowledgeLifecycle on the documents, or leaves them alone.
Contract == LifecycleSpec

===============================================================================
