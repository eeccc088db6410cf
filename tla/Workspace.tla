------------------------------- MODULE Workspace -------------------------------
(***************************************************************************)
(* ProjectManager and CampaignManager over their repositories: two kinds   *)
(* of documents with a status table each, loaded into a working copy,      *)
(* changed and saved as a whole.  Deleting removes the document.           *)
(*                                                                         *)
(* Which callers hold AgentLock's WRITE mode is chosen at the start        *)
(* (locked): those are threads of one process, as the Hermes hooks are;    *)
(* the others, an MCP server or a script, are processes of their own.      *)
(***************************************************************************)
EXTENDS Naturals, Sequences, SequencesExt

CONSTANTS Agents,
          Deployments,       \* sets of agents that may be the locked ones
          Projects, Campaigns,
          Names,             \* of projects
          Steps,             \* of a campaign
          InitialDocs,       \* the documents there may be at the start
          MaxCalls           \* bound: calls of all agents together

None == [none |-> TRUE]

ProjectStates == {"CREATED", "ACTIVE", "PAUSED", "ARCHIVED", "DELETED"}

ProjectTransitions ==
  [CREATED |-> {"ACTIVE", "ARCHIVED", "DELETED"},
   ACTIVE |-> {"PAUSED", "ARCHIVED", "DELETED"},
   PAUSED |-> {"ACTIVE", "ARCHIVED", "DELETED"},
   ARCHIVED |-> {"DELETED"},
   DELETED |-> {}]

CampaignStates == {"CREATED", "READY", "RUNNING", "PAUSED", "WAITING_EXTERNAL",
                   "FAILED", "COMPLETED", "ARCHIVED"}

CampaignTransitions ==
  [CREATED |-> {"READY"},
   READY |-> {"RUNNING", "FAILED"},
   RUNNING |-> {"PAUSED", "WAITING_EXTERNAL", "COMPLETED", "FAILED"},
   PAUSED |-> {"RUNNING", "FAILED"},
   WAITING_EXTERNAL |-> {"RUNNING", "FAILED"},
   FAILED |-> {"ARCHIVED"},
   COMPLETED |-> {"ARCHIVED"},
   ARCHIVED |-> {}]

\* The lower-case statuses of older documents ("active", "closed") are in no
\* table.
Legacy == "legacy"

\* A journal event is named for the state it tells of; resume has its own.
Events == CampaignStates \cup {"RESUMED"}
StateOf(event) == IF event = "RESUMED" THEN "RUNNING" ELSE event

StepStates == {"pending", "completed"}

ProjectDoc == [status : ProjectStates \cup {Legacy}, name : Names, rev : Nat]
CampaignDoc == [status : CampaignStates \cup {Legacy}, journal : Seq(Events),
                steps : [Steps -> StepStates], rev : Nat]

Ids == Projects \cup Campaigns
DocsOf(id) == IF id \in Projects THEN ProjectDoc ELSE CampaignDoc

\* The journal is a path through the status table that ends at the status.
\* (An older document has no journal and never gets one.)
Explained(doc) ==
  LET j == doc.journal
  IN  \/ doc.status = Legacy
      \/ /\ j # << >>
         /\ j[1] = "CREATED"
         /\ StateOf(j[Len(j)]) = doc.status
         /\ \A i \in 1 .. Len(j) - 1 :
              StateOf(j[i + 1]) \in CampaignTransitions[StateOf(j[i])]

ASSUME IdsAssumption == Projects \cap Campaigns = {} /\ None \notin Ids
ASSUME DeploymentsAssumption == Deployments \subseteq SUBSET Agents
ASSUME InitialDocsAssumption ==
  \A ds \in InitialDocs :
    /\ ds \in [Ids -> ProjectDoc \cup CampaignDoc \cup {None}]
    /\ \A id \in Ids : ds[id] \in DocsOf(id) \cup {None}
    /\ \A c \in Campaigns : ds[c] # None => Explained(ds[c])
    /\ \A p, q \in Projects : ds[p] # None /\ ds[q] # None /\ ds[p].name = ds[q].name
                              => p = q
ASSUME MaxCallsAssumption == MaxCalls \in Nat

VARIABLES docs,      \* the documents on disk
          used,      \* the ids uuid4 has given
          locked,    \* the agents that take AgentLock
          writer,    \* AgentLock's _writer flag
          pc, job,   \* where each agent's call is, and its local variables
          calls

vars == <<docs, used, locked, writer, pc, job, calls>>

ProjectOps == {"create", "resolve", "open", "close", "archive", "delete", "rename"}
CampaignOps == {"create", "open", "pause", "resume", "close", "archive", "wait",
                "fail", "step", "delete"}

Phases == {"idle", "begin", "load", "list", "check", "stage", "replace", "remove", "end"}

NoName == [noname |-> TRUE]
NoJob == [op |-> "none", id |-> None, name |-> NoName, copy |-> None, seen |-> {}]
Job == [op : ProjectOps \cup CampaignOps \cup {"none"}, id : Ids \cup {None},
        name : Names \cup {NoName}, copy : ProjectDoc \cup CampaignDoc \cup {None},
        seen : SUBSET Projects]

Stored == {id \in Ids : docs[id] # None}

----
(* Helpers.                                                                *)

Goto(a, phase) == pc' = [pc EXCEPT ![a] = phase]

\* The call goes on at phase with the working copy d.
Holds(a, phase, d) == Goto(a, phase) /\ job' = [job EXCEPT ![a].copy = d]

\* An error raised to the caller, or the end of the work.
Ends(a) == Goto(a, "end") /\ UNCHANGED job

----
(* A call, with AgentLock around it.                                       *)

\* Mutant: AgentLock lets everybody in.
CallRegardless(a, op, id, name, phase) ==
  /\ pc[a] = "idle"
  /\ calls < MaxCalls
  /\ calls' = calls + 1
  /\ writer' = (writer \/ a \in locked)
  /\ Goto(a, phase)
  /\ job' = [job EXCEPT ![a] = [NoJob EXCEPT !.op = op, !.id = id, !.name = name]]
  /\ UNCHANGED <<docs, used, locked>>

Call(a, op, id, name, phase) ==
  /\ pc[a] = "idle"
  /\ calls < MaxCalls
  /\ calls' = calls + 1
  /\ a \in locked => ~writer
  /\ writer' = (writer \/ a \in locked)
  /\ Goto(a, phase)
  /\ job' = [job EXCEPT ![a] = [NoJob EXCEPT !.op = op, !.id = id, !.name = name]]
  /\ UNCHANGED <<docs, used, locked>>

CallProject(a, p) ==
  \/ \E op \in {"open", "close", "archive", "delete"} : Call(a, op, p, NoName, "load")
  \/ \E name \in Names : Call(a, "rename", p, name, "load")

CallCampaign(a, c) ==
  \/ \E op \in CampaignOps \ {"create", "delete"} : Call(a, op, c, NoName, "load")
  \/ Call(a, "delete", c, NoName, "load")

CallCreate(a) ==
  \/ \E name \in Names, op \in {"create", "resolve"} : Call(a, op, None, name, "list")
  \/ Call(a, "create", None, NoName, "begin")

Return(a) ==
  /\ pc[a] = "end"
  /\ writer' = (writer /\ a \notin locked)
  /\ Goto(a, "idle")
  /\ job' = [job EXCEPT ![a] = NoJob]
  /\ UNCHANGED <<docs, used, locked, calls>>

----
(* Loading and changing the working copy.                                  *)

Moved(doc, to) == [doc EXCEPT !.status = to]

CampaignTarget(op, from) ==
  CASE op = "open" -> IF from = "CREATED" THEN "READY" ELSE "RUNNING"
    [] op = "pause" -> "PAUSED"
    [] op = "resume" -> "RUNNING"
    [] op = "close" -> "COMPLETED"
    [] op = "archive" -> "ARCHIVED"
    [] op = "wait" -> "WAITING_EXTERNAL"
    [] op = "fail" -> "FAILED"

\* open works from CREATED and READY only; the other guards are the table's.
CampaignMayMove(op, from) ==
  /\ op = "open" => from \in {"CREATED", "READY"}
  /\ from # Legacy
  /\ CampaignTarget(op, from) \in CampaignTransitions[from]

\* Mutant: a failure is not told in the journal.
JournaledQuietly(op, doc) ==
  LET to == CampaignTarget(op, doc.status)
  IN  [Moved(doc, to) EXCEPT !.journal =
         IF op = "fail" THEN @ ELSE Append(@, IF op = "resume" THEN "RESUMED" ELSE to)]

Journaled(op, doc) ==
  LET to == CampaignTarget(op, doc.status)
  IN  [Moved(doc, to) EXCEPT !.journal =
         Append(@, IF op = "resume" THEN "RESUMED" ELSE to)]

\* open, pause, resume, close, archive, _wait_external, _fail
MoveCampaign(a) ==
  LET c == job[a].id
      op == job[a].op
  IN  /\ pc[a] = "load"
      /\ c \in Campaigns /\ op \notin {"step", "delete"}
      /\ IF docs[c] # None /\ CampaignMayMove(op, docs[c].status)
         THEN Holds(a, "stage", Journaled(op, docs[c]))
         ELSE Ends(a)
      /\ UNCHANGED <<docs, used, locked, writer, calls>>

\* _update_step asks nothing of the campaign's status and tells the journal
\* nothing.
UpdateStep(a) ==
  LET c == job[a].id
  IN  /\ pc[a] = "load"
      /\ job[a].op = "step"
      /\ IF docs[c] # None
         THEN \E s \in Steps, to \in StepStates :
                Holds(a, "stage", [docs[c] EXCEPT !.steps[s] = to])
         ELSE Ends(a)
      /\ UNCHANGED <<docs, used, locked, writer, calls>>

\* CampaignFactory.create under a new id, whatever the project.
CreateCampaign(a) ==
  /\ pc[a] = "begin"
  /\ \E c \in Campaigns \ used :
       /\ used' = used \cup {c}
       /\ job' = [job EXCEPT ![a].id = c,
                             ![a].copy = [status |-> "CREATED", journal |-> <<"CREATED">>,
                                          steps |-> [s \in Steps |-> "pending"],
                                          rev |-> 0]]
  /\ Goto(a, "stage")
  /\ UNCHANGED <<docs, locked, writer, calls>>

\* The campaign must exist; a project must be in a state of the table.
BeginDelete(a) ==
  LET id == job[a].id
  IN  /\ pc[a] = "load"
      /\ job[a].op = "delete"
      /\ IF docs[id] # None /\ (id \in Projects => docs[id].status # Legacy)
         THEN Goto(a, "remove") /\ UNCHANGED job
         ELSE Ends(a)
      /\ UNCHANGED <<docs, used, locked, writer, calls>>

ProjectTarget == [open |-> "ACTIVE", close |-> "PAUSED", archive |-> "ARCHIVED"]

MoveProject(a) ==
  LET p == job[a].id
      op == job[a].op
  IN  /\ pc[a] = "load"
      /\ p \in Projects /\ op \in DOMAIN ProjectTarget
      /\ IF /\ docs[p] # None /\ docs[p].status # Legacy
            /\ ProjectTarget[op] \in ProjectTransitions[docs[p].status]
         THEN Holds(a, "stage", Moved(docs[p], ProjectTarget[op]))
         ELSE Ends(a)
      /\ UNCHANGED <<docs, used, locked, writer, calls>>

Rename(a) ==
  LET p == job[a].id
  IN  /\ pc[a] = "load"
      /\ job[a].op = "rename"
      /\ IF docs[p] # None /\ docs[p].status \in {"CREATED", "ACTIVE", "PAUSED"}
         THEN Holds(a, "list", [docs[p] EXCEPT !.name = job[a].name])
         ELSE Ends(a)
      /\ UNCHANGED <<docs, used, locked, writer, calls>>

----
(* Is the name free?  The ids are listed, then their documents loaded.     *)

ListIds(a) ==
  /\ pc[a] = "list"
  /\ job' = [job EXCEPT ![a].seen = Stored \cap Projects]
  /\ Goto(a, "check")
  /\ UNCHANGED <<docs, used, locked, writer, calls>>

\* Mutant: archived projects are not asked.
NamesakesInUse(a) ==
  {p \in job[a].seen : /\ docs[p].name = job[a].name
                       /\ p # job[a].id
                       /\ docs[p].status # "ARCHIVED"}

Namesakes(a) == {p \in job[a].seen : docs[p].name = job[a].name /\ p # job[a].id}

\* A document that went in the meantime is an error.
Vanished(a) ==
  /\ pc[a] = "check"
  /\ ~(job[a].seen \subseteq Stored)
  /\ Ends(a)
  /\ UNCHANGED <<docs, used, locked, writer, calls>>

\* Somebody has the name: that is resolve_project's answer, and an error for
\* the others.
Taken(a) ==
  /\ pc[a] = "check"
  /\ job[a].seen \subseteq Stored
  /\ Namesakes(a) # {}
  /\ Ends(a)
  /\ UNCHANGED <<docs, used, locked, writer, calls>>

\* Nobody has: resolve_project goes on to create, which asks again.
Free(a) ==
  /\ pc[a] = "check"
  /\ job[a].seen \subseteq Stored
  /\ Namesakes(a) = {}
  /\ \/ /\ job[a].op = "resolve"
        /\ job' = [job EXCEPT ![a].op = "create"]
        /\ Goto(a, "list")
        /\ UNCHANGED used
     \/ /\ job[a].op = "create"
        /\ \E p \in Projects \ used :
             /\ used' = used \cup {p}
             /\ job' = [job EXCEPT ![a].id = p,
                          ![a].copy = [status |-> "CREATED", name |-> job[a].name,
                                       rev |-> 0]]
        /\ Goto(a, "stage")
     \/ /\ job[a].op = "rename"
        /\ Goto(a, "stage")
        /\ UNCHANGED <<used, job>>
  /\ UNCHANGED <<docs, locked, writer, calls>>

----
(* Saving.                                                                 *)

\* BaseRepository.update reads the document for the envelope; save, of a new
\* one, finds none.
Stage(a) ==
  LET id == job[a].id
  IN  /\ pc[a] = "stage"
      /\ \/ /\ docs[id] # None
            /\ job' = [job EXCEPT ![a].copy.rev = docs[id].rev + 1]
            /\ Goto(a, "replace")
         \/ /\ docs[id] = None /\ job[a].op = "create"
            /\ job' = [job EXCEPT ![a].copy.rev = 1]
            /\ Goto(a, "replace")
         \/ docs[id] = None /\ job[a].op # "create" /\ Ends(a)
      /\ UNCHANGED <<docs, used, locked, writer, calls>>

\* The rename of the temporary file: it does not ask whether there still is a
\* document to replace.
Replace(a) ==
  /\ pc[a] = "replace"
  /\ docs' = [docs EXCEPT ![job[a].id] = job[a].copy]
  /\ Ends(a)
  /\ UNCHANGED <<used, locked, writer, calls>>

\* A document that is gone already is an error.
RemoveDocument(a) ==
  /\ pc[a] = "remove"
  /\ docs' = [docs EXCEPT ![job[a].id] = None]
  /\ Ends(a)
  /\ UNCHANGED <<used, locked, writer, calls>>

\* A read or a write fails; the temporary file goes.
Fail(a) ==
  /\ pc[a] \notin {"idle", "end"}
  /\ Ends(a)
  /\ UNCHANGED <<docs, used, locked, writer, calls>>

\* The locked agents share a process, each other has its own.
Crash(dead) ==
  /\ dead = locked \/ \E a \in Agents \ locked : dead = {a}
  /\ pc' = [a \in Agents |-> IF a \in dead THEN "idle" ELSE pc[a]]
  /\ job' = [a \in Agents |-> IF a \in dead THEN NoJob ELSE job[a]]
  /\ writer' = (writer /\ dead # locked)
  /\ UNCHANGED <<docs, used, locked, calls>>

----
Init ==
  /\ docs \in InitialDocs
  /\ used = {id \in Ids : docs[id] # None}
  /\ locked \in Deployments
  /\ writer = FALSE
  /\ pc = [a \in Agents |-> "idle"]
  /\ job = [a \in Agents |-> NoJob]
  /\ calls = 0

Next ==
  \/ \E a \in Agents :
       \/ \E p \in Projects : CallProject(a, p)
       \/ \E c \in Campaigns : CallCampaign(a, c)
       \/ CallCreate(a) \/ Return(a)
       \/ MoveCampaign(a) \/ UpdateStep(a) \/ CreateCampaign(a) \/ BeginDelete(a)
       \/ MoveProject(a) \/ Rename(a)
       \/ ListIds(a) \/ Vanished(a) \/ Taken(a) \/ Free(a)
       \/ Stage(a) \/ Replace(a) \/ RemoveDocument(a) \/ Fail(a)
  \/ \E dead \in SUBSET Agents : Crash(dead)

Spec == Init /\ [][Next]_vars

----
(* Properties.                                                             *)

TypeOK ==
  /\ docs \in [Ids -> ProjectDoc \cup CampaignDoc \cup {None}]
  /\ \A id \in Ids : docs[id] \in DocsOf(id) \cup {None}
  /\ used \subseteq Ids
  /\ locked \in Deployments
  /\ writer \in BOOLEAN
  /\ pc \in [Agents -> Phases]
  /\ job \in [Agents -> Job]
  /\ calls \in 0 .. MaxCalls

\* Whoever takes the lock and whoever does not, and whatever is lost on the
\* way: every campaign's journal is a legal life that led to its status
\* (CampaignManager._transition changes both in one document).
JournalExplainsStatus ==
  \A c \in Campaigns : docs[c] # None => Explained(docs[c])

Serialized == locked = Agents

\* With every caller under the lock a document is only replaced by one that was
\* made from it: its status moves along the table or stays, its journal grows
\* at the end (_append_journal's promise), its revision by one; and a document
\* that was deleted does not come back.
WritesBuildOnEachOther ==
  [][Serialized => \A id \in Ids :
       /\ docs[id] # None /\ docs'[id] \notin {None, docs[id]} =>
            /\ docs'[id].rev = docs[id].rev + 1
            /\ id \in Projects =>
                 \/ docs'[id].status = docs[id].status
                 \/ docs'[id].status \in ProjectTransitions[docs[id].status]
            /\ id \in Campaigns =>
                 /\ IsPrefix(docs[id].journal, docs'[id].journal)
                 /\ \/ docs'[id].status = docs[id].status
                    \/ docs'[id].status \in CampaignTransitions[docs[id].status]
       /\ docs[id] = None /\ docs'[id] # None =>
            \E a \in Agents : job[a].op = "create" /\ job[a].id = id]_vars

\* With every caller under the lock no two projects have one name
\* (ProjectManager._check_name_free before create and rename).
NamesAreUnique ==
  Serialized => \A p, q \in Projects \cap Stored : docs[p].name = docs[q].name => p = q
=============================================================================
