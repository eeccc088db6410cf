------------------------------ MODULE HermesMemory ------------------------------
(***************************************************************************)
(* The Hermes hooks over MemoryService: agents of one process that retrieve*)
(* before a task and save after it, around one project.  A save registers  *)
(* each item, canonicalizes it, indexes it and takes a snapshot; a retrieve*)
(* finds or creates the project's campaign.  Both run under AgentLock's    *)
(* WRITE mode; the availability flags and the queue of items the Librarian *)
(* refused belong to the service all agents share, and are touched outside *)
(* the lock as well.                                                       *)
(*                                                                         *)
(* In a deployment the MCP server may be there as well, a process of its   *)
(* own whose save tool registers, promotes and indexes an item without the *)
(* lock, the flags or the queue.  The index is SQLite's then: an update    *)
(* touches the rows of its item alone (IndexStore tells what becomes of    *)
(* files that two processes write).                                        *)
(*                                                                         *)
(* The documents' own lifecycle is Librarian's: an item here is its status.*)
(***************************************************************************)
EXTENDS Naturals, Sequences, FiniteSets

CONSTANTS Agents,
          Deployments,    \* which agents call the hooks, which the save tool, and a
                          \* bound on their calls
          Items,          \* knowledge items, each handed over once
          Refused,        \* items register raises on: a bad category or edge
          Batches,        \* the item lists callers hand to save_after_task
          Campaigns,      \* campaign ids: one for every call
          Goals,          \* normalized goals
          BlankGoals,     \* those of spaces only, which are empty when normalized
          NoGoal,         \* the empty string, which a caller leaves for the goal
          DefaultGoal,    \* "task", which is stored for it
          MaxFaults,      \* bound: failures of the storage under the service
          MaxCrashes,     \* bound: process restarts
          MaxMoves        \* bound: campaign transitions by others

\* An agent calls one of the two, and every call could create a campaign; batches
\* are lists of items; a caller may name the goal "task" as well.
ASSUME DeploymentsAssumption ==
  \A d \in Deployments :
    /\ d.hooks \cup d.server \subseteq Agents /\ d.hooks \cap d.server = {}
    /\ d.calls \in 0 .. Cardinality(Campaigns)
ASSUME CampaignsAssumption == IsFiniteSet(Campaigns)
ASSUME ItemsAssumption == Refused \subseteq Items /\ Batches \subseteq Seq(Items)
ASSUME GoalsAssumption ==
  NoGoal \notin Goals /\ BlankGoals \subseteq Goals /\ DefaultGoal \in Goals \ BlankGoals
ASSUME BoundsAssumption == {MaxFaults, MaxCrashes, MaxMoves} \subseteq Nat

VARIABLES deployment,
          repo,        \* status of each item in the repository
          index,       \* status of each item in the entity index
          snapshot,    \* status of each item in the latest snapshot
          campaigns,   \* the campaign documents
          available,   \* MemoryService's _librarian_, _retrieval_ and
                       \* _snapshot_available
          pending,     \* MemoryService's _pending_knowledge
          writer,      \* AgentLock's _writer flag
          pc, task,    \* where each agent is, and what it works on
          calls,       \* calls left
          faults, crashes, moves,
          fresh,       \* items nobody has handed over yet
          returned,    \* saves that returned: the item, the stage it was to
                       \* reach, and whether they were asked for a snapshot
          interrupted  \* items whose save raised or died half-way

memory == <<deployment, repo, index, snapshot, campaigns>>
service == <<available, pending>>
bounds == <<calls, faults, crashes, moves>>
ghosts == <<fresh, returned, interrupted>>
vars == <<memory, service, writer, pc, task, bounds, ghosts>>

Flags == {"librarian", "retrieval", "snapshot"}

AllAvailable == [f \in Flags |-> TRUE]

Stages == {"absent", "NEW", "VERIFIED", "CANONICAL"}

CampaignStates == {"CREATED", "READY", "RUNNING", "PAUSED", "WAITING_EXTERNAL",
                   "FAILED", "COMPLETED", "ARCHIVED"}

\* CampaignState.TRANSITIONS
CampaignTransitions ==
  [s \in CampaignStates |->
     CASE s = "CREATED"                        -> {"READY"}
       [] s = "READY"                          -> {"RUNNING", "FAILED"}
       [] s = "RUNNING"                        -> {"PAUSED", "WAITING_EXTERNAL",
                                                   "COMPLETED", "FAILED"}
       [] s \in {"PAUSED", "WAITING_EXTERNAL"} -> {"RUNNING", "FAILED"}
       [] s \in {"FAILED", "COMPLETED"}        -> {"ARCHIVED"}
       [] s = "ARCHIVED"                       -> {}]

NoCampaign == [status |-> "none"]

\* named is history: whether the call that created the campaign named its goal.
Campaign == [goal : Goals, status : CampaignStates, indexed : BOOLEAN, named : BOOLEAN]

SavePhases == {"register", "index_new", "verify", "canonicalize", "index", "snapshot"}
RetrievePhases == {"find_active", "find_goal", "create", "index_campaign",
                   "load_snapshot", "retrieve"}
ToolPhases == {"tool_register", "tool_verify", "tool_canonicalize", "tool_index",
               "tool_load"}
Phases == {"idle", "wait_save", "wait_retrieve", "release"}
            \cup ToolPhases \cup SavePhases \cup RetrievePhases

NoTask == [todo |-> << >>, saved |-> << >>, asked |-> FALSE, goal |-> NoGoal,
           campaign |-> "none"]

Task == [todo : Seq(Items), saved : Seq(Items), asked : BOOLEAN,
         goal : Goals \cup {NoGoal}, campaign : Campaigns \cup {"none", "missing"}]

In(s) == {s[i] : i \in 1 .. Len(s)}

Init ==
  /\ deployment \in Deployments
  /\ repo = [i \in Items |-> "absent"]
  /\ index = repo /\ snapshot = repo
  /\ campaigns = [c \in Campaigns |-> NoCampaign]
  /\ available = AllAvailable
  /\ pending = {}
  /\ writer = FALSE
  /\ pc = [a \in Agents |-> "idle"]
  /\ task = [a \in Agents |-> NoTask]
  /\ calls = deployment.calls
  /\ faults = 0 /\ crashes = 0 /\ moves = 0
  /\ fresh = Items
  /\ returned = {} /\ interrupted = {}

----
(* Helpers.                                                                *)

Goto(a, phase) == pc' = [pc EXCEPT ![a] = phase]

Todo(a, items) == task' = [task EXCEPT ![a].todo = items]

Break == faults < MaxFaults /\ faults' = faults + 1

\* Mutant: the lock is not released on an exception.
AbortHoldingLock(a) ==
  /\ pc' = [pc EXCEPT ![a] = "idle"]
  /\ task' = [task EXCEPT ![a] = NoTask]
  /\ interrupted' = interrupted \cup In(task[a].saved)
  /\ UNCHANGED <<memory, service, writer, calls, crashes, moves, fresh, returned>>

\* An exception leaves the hook through its finally clause.
Abort(a) ==
  /\ pc' = [pc EXCEPT ![a] = "idle"]
  /\ task' = [task EXCEPT ![a] = NoTask]
  /\ writer' = FALSE
  /\ interrupted' = interrupted \cup In(task[a].saved)
  /\ UNCHANGED <<memory, service, calls, crashes, moves, fresh, returned>>

----
(* Calling a hook.                                                         *)

\* Mutant: the lock lets everybody in.
AcquireRegardless(a) ==
  /\ pc[a] \in {"wait_save", "wait_retrieve"}
  /\ writer' = TRUE
  /\ Goto(a, IF pc[a] = "wait_save" THEN "register" ELSE "find_active")
  /\ UNCHANGED <<memory, service, task, bounds, ghosts>>

\* AgentLock.acquire(WRITE)
Acquire(a) ==
  /\ pc[a] \in {"wait_save", "wait_retrieve"}
  /\ ~writer
  /\ writer' = TRUE
  /\ Goto(a, IF pc[a] = "wait_save" THEN "register" ELSE "find_active")
  /\ UNCHANGED <<memory, service, task, bounds, ghosts>>

Call(a) ==
  /\ pc[a] = "idle"
  /\ calls > 0
  /\ calls' = calls - 1
  /\ UNCHANGED <<memory, pending, writer, faults, crashes, moves, returned, interrupted>>

SaveAfterTask(a, batch, asked) ==
  /\ Call(a) /\ a \in deployment.hooks
  /\ In(batch) \subseteq fresh
  /\ fresh' = fresh \ In(batch)
  /\ Goto(a, "wait_save")
  /\ task' = [task EXCEPT ![a] = [NoTask EXCEPT !.todo = batch, !.asked = asked]]
  /\ UNCHANGED available

\* The fallbacks are reset before the lock is taken.  The caller names a
\* campaign to continue, which may not exist, or leaves it to the goal.
RetrieveBeforeTask(a, goal, given) ==
  /\ Call(a) /\ a \in deployment.hooks
  /\ available' = AllAvailable
  /\ Goto(a, "wait_retrieve")
  /\ task' = [task EXCEPT ![a] = [NoTask EXCEPT !.goal = goal, !.campaign = given]]
  /\ UNCHANGED fresh

----
(* save_after_task.                                                        *)

\* _save_knowledge stores the next item ...
Register(a) ==
  /\ pc[a] = "register" /\ task[a].todo # << >>
  /\ available["librarian"]
  /\ LET item == Head(task[a].todo)
     IN  /\ item \notin Refused
         /\ repo' = [repo EXCEPT ![item] = "NEW"]
         /\ task' = [task EXCEPT ![a].todo = Tail(@), ![a].saved = Append(@, item)]
  /\ UNCHANGED <<deployment, index, snapshot, campaigns,
                 service, writer, pc, bounds, ghosts>>

\* Mutant: the item that made register raise is not queued.
RegisterFailsUnqueued(a) ==
  /\ pc[a] = "register" /\ task[a].todo # << >>
  /\ available["librarian"]
  /\ IF Head(task[a].todo) \in Refused THEN UNCHANGED faults ELSE Break
  /\ available' = [available EXCEPT !["librarian"] = FALSE]
  /\ Todo(a, Tail(task[a].todo))
  /\ UNCHANGED <<memory, pending, writer, pc, calls, crashes, moves, ghosts>>

\* ... or queues it and gives the Librarian up when register raises, whether
\* the storage failed or the item was refused ...
RegisterFails(a) ==
  /\ pc[a] = "register" /\ task[a].todo # << >>
  /\ available["librarian"]
  /\ IF Head(task[a].todo) \in Refused THEN UNCHANGED faults ELSE Break
  /\ available' = [available EXCEPT !["librarian"] = FALSE]
  /\ pending' = pending \cup {Head(task[a].todo)}
  /\ Todo(a, Tail(task[a].todo))
  /\ UNCHANGED <<memory, writer, pc, calls, crashes, moves, ghosts>>

\* Mutant: the whole rest of the batch is queued as one entry.
QueueBatch(a) ==
  /\ pc[a] = "register" /\ task[a].todo # << >>
  /\ ~available["librarian"]
  /\ pending' = pending \cup {task[a].todo}
  /\ Todo(a, << >>)
  /\ UNCHANGED <<memory, available, writer, pc, bounds, ghosts>>

\* ... or queues it untried.
Queue(a) ==
  /\ pc[a] = "register" /\ task[a].todo # << >>
  /\ ~available["librarian"]
  /\ pending' = pending \cup {Head(task[a].todo)}
  /\ Todo(a, Tail(task[a].todo))
  /\ UNCHANGED <<memory, available, writer, pc, bounds, ghosts>>

\* save_results indexes what it saved unless the Librarian was given up.
Registered(a) ==
  /\ pc[a] = "register" /\ task[a].todo = << >>
  /\ Goto(a, IF available["librarian"] THEN "index_new" ELSE "verify")
  /\ Todo(a, task[a].saved)
  /\ UNCHANGED <<memory, service, writer, bounds, ghosts>>

\* IndexEngine.update copies the item's status from the repository.
Reindex(item) == index' = [index EXCEPT ![item] = repo[item]]

IndexNew(a) ==
  /\ pc[a] = "index_new"
  /\ IF task[a].todo = << >>
     THEN /\ Goto(a, "verify")
          /\ Todo(a, task[a].saved)
          /\ UNCHANGED index
     ELSE /\ Reindex(Head(task[a].todo))
          /\ Todo(a, Tail(task[a].todo))
          /\ UNCHANGED pc
  /\ UNCHANGED <<deployment, repo, snapshot, campaigns, service, writer, bounds, ghosts>>

Verify(a) ==
  /\ pc[a] = "verify" /\ task[a].todo # << >>
  /\ repo' = [repo EXCEPT ![Head(task[a].todo)] = "VERIFIED"]
  /\ Goto(a, "canonicalize")
  /\ UNCHANGED <<deployment, index, snapshot, campaigns,
                 service, writer, task, bounds, ghosts>>

Canonicalize(a) ==
  /\ pc[a] = "canonicalize"
  /\ repo' = [repo EXCEPT ![Head(task[a].todo)] = "CANONICAL"]
  /\ Goto(a, "index")
  /\ UNCHANGED <<deployment, index, snapshot, campaigns,
                 service, writer, task, bounds, ghosts>>

\* Mutant: the index is not updated after the canonization.
IndexNothing(a) ==
  /\ pc[a] = "index"
  /\ Todo(a, Tail(task[a].todo))
  /\ Goto(a, "verify")
  /\ UNCHANGED <<memory, service, writer, bounds, ghosts>>

Index(a) ==
  /\ pc[a] = "index"
  /\ Reindex(Head(task[a].todo))
  /\ Todo(a, Tail(task[a].todo))
  /\ Goto(a, "verify")
  /\ UNCHANGED <<deployment, repo, snapshot, campaigns, service, writer, bounds, ghosts>>

AllCanonical(a) ==
  /\ pc[a] = "verify" /\ task[a].todo = << >>
  /\ Goto(a, IF task[a].asked THEN "snapshot" ELSE "release")
  /\ UNCHANGED <<memory, service, writer, task, bounds, ghosts>>

\* SnapshotEngine.create(force) builds its sections from the entity index.
CreateSnapshot(a) ==
  /\ pc[a] = "snapshot"
  /\ snapshot' = index
  /\ Goto(a, "release")
  /\ UNCHANGED <<deployment, repo, index, campaigns,
                 service, writer, task, bounds, ghosts>>

\* Indexing, verifying, canonicalizing or the snapshot raises.
SaveRaises(a) ==
  /\ pc[a] \in SavePhases \ {"register"}
  /\ pc[a] \in {"index_new", "verify"} => task[a].todo # << >>
  /\ Break
  /\ Abort(a)

----
(* retrieve_before_task.                                                   *)

Existing == {c \in Campaigns : campaigns[c] # NoCampaign}

Open(goal) ==
  {c \in Existing : /\ campaigns[c].goal = goal
                    /\ campaigns[c].status \in {"CREATED", "READY", "RUNNING"}}

\* Use campaign c, or go on to the given phase when the set has none.
PickFrom(a, candidates, otherwise) ==
  \/ \E c \in candidates :
       /\ task' = [task EXCEPT ![a].campaign = c]
       /\ Goto(a, "load_snapshot")
  \/ /\ candidates = {}
     /\ Goto(a, otherwise)
     /\ UNCHANGED task

FindGiven(a) ==
  /\ pc[a] = "find_active"
  /\ task[a].campaign \in Existing
  /\ Goto(a, "load_snapshot")
  /\ UNCHANGED <<memory, service, writer, task, bounds, ghosts>>

FindActive(a) ==
  /\ pc[a] = "find_active"
  /\ task[a].campaign = "none"
  /\ PickFrom(a, {c \in Existing : campaigns[c].status = "RUNNING"}, "find_goal")
  /\ UNCHANGED <<memory, service, writer, bounds, ghosts>>

\* A goal that is not empty when normalized: only such a one is looked for.
Named(goal) == goal \notin BlankGoals \cup {NoGoal}

FindByGoal(a) ==
  /\ pc[a] = "find_goal"
  /\ PickFrom(a, IF Named(task[a].goal) THEN Open(task[a].goal) ELSE {}, "create")
  /\ UNCHANGED <<memory, service, writer, bounds, ghosts>>

\* It stores goal or "task".
NewCampaign(goal) ==
  [goal |-> IF goal = NoGoal THEN DefaultGoal ELSE goal, status |-> "CREATED",
   indexed |-> FALSE, named |-> Named(goal)]

\* The new campaign's id is a fresh uuid: which one does not matter.
CreateCampaign(a) ==
  /\ pc[a] = "create"
  /\ LET c == CHOOSE c \in Campaigns : c \notin Existing
     IN  /\ campaigns' = [campaigns EXCEPT ![c] = NewCampaign(task[a].goal)]
         /\ task' = [task EXCEPT ![a].campaign = c]
  /\ Goto(a, "index_campaign")
  /\ UNCHANGED <<deployment, repo, index, snapshot, service, writer, bounds, ghosts>>

\* Mutant: resolving the campaign leaves the index alone (incident 001).
IndexCampaignNever(a) ==
  /\ pc[a] = "index_campaign"
  /\ Goto(a, "load_snapshot")
  /\ UNCHANGED <<memory, service, writer, task, bounds, ghosts>>

\* A failure to index the new campaign is logged and swallowed.
IndexCampaign(a) ==
  /\ pc[a] = "index_campaign"
  /\ \/ /\ campaigns' = [campaigns EXCEPT ![task[a].campaign].indexed = TRUE]
        /\ UNCHANGED faults
     \/ Break /\ UNCHANGED campaigns
  /\ Goto(a, "load_snapshot")
  /\ UNCHANGED <<deployment, repo, index, snapshot,
                 service, writer, task, calls, crashes, moves, ghosts>>

\* Loading the snapshot and retrieving are attempted unless they failed since
\* the fallbacks were last reset.
Attempt(a, flag) ==
  \/ UNCHANGED <<available, faults>>
  \/ /\ available[flag]
     /\ Break
     /\ available' = [available EXCEPT ![flag] = FALSE]

LoadSnapshot(a) ==
  /\ pc[a] = "load_snapshot"
  /\ Attempt(a, "snapshot")
  /\ Goto(a, "retrieve")
  /\ UNCHANGED <<memory, pending, writer, task, calls, crashes, moves, ghosts>>

Retrieve(a) ==
  /\ pc[a] = "retrieve"
  /\ Attempt(a, "retrieval")
  /\ Goto(a, "release")
  /\ UNCHANGED <<memory, pending, writer, task, calls, crashes, moves, ghosts>>

\* Reading or creating the campaign raises, and so does naming a campaign
\* that does not exist.
RetrieveRaises(a) ==
  /\ \/ /\ pc[a] \in {"find_active", "find_goal", "create"}
        /\ Break
     \/ /\ pc[a] = "find_active"
        /\ task[a].campaign = "missing"
        /\ UNCHANGED faults
  /\ Abort(a)

----
\* AgentLock.release(WRITE), and the return of the hook.
Release(a) ==
  /\ pc[a] = "release"
  /\ writer' = FALSE
  /\ Goto(a, "idle")
  /\ task' = [task EXCEPT ![a] = NoTask]
  /\ returned' = returned \cup
       {[item |-> i, stage |-> "CANONICAL", asked |-> task[a].asked] : i \in In(task[a].saved)}
  /\ UNCHANGED <<memory, service, bounds, fresh, interrupted>>

----
(* The save tool of the MCP server.  asked stands for canonicalize.        *)

ToolSave(a, item, asked) ==
  /\ Call(a) /\ a \in deployment.server
  /\ item \in fresh /\ fresh' = fresh \ {item}
  /\ Goto(a, "tool_register")
  /\ task' = [task EXCEPT ![a] = [NoTask EXCEPT !.todo = <<item>>, !.asked = asked]]
  /\ UNCHANGED available

ToolRegister(a) ==
  /\ pc[a] = "tool_register"
  /\ LET item == Head(task[a].todo)
     IN  /\ item \notin Refused
         /\ repo' = [repo EXCEPT ![item] = "NEW"]
         /\ task' = [task EXCEPT ![a].saved = <<item>>]
  /\ Goto(a, IF task[a].asked THEN "tool_verify" ELSE "tool_index")
  /\ UNCHANGED <<deployment, index, snapshot, campaigns, service, writer, bounds, ghosts>>

\* verify, then canonicalize.
ToolPromote(a) ==
  /\ \/ /\ pc[a] = "tool_verify" /\ Goto(a, "tool_canonicalize")
        /\ repo' = [repo EXCEPT ![Head(task[a].todo)] = "VERIFIED"]
     \/ /\ pc[a] = "tool_canonicalize" /\ Goto(a, "tool_index")
        /\ repo' = [repo EXCEPT ![Head(task[a].todo)] = "CANONICAL"]
  /\ UNCHANGED <<deployment, index, snapshot, campaigns,
                 service, writer, task, bounds, ghosts>>

\* An observation that stays NEW is indexed as well.
ToolIndex(a) ==
  /\ pc[a] = "tool_index"
  /\ Reindex(Head(task[a].todo))
  /\ Goto(a, "tool_load")
  /\ UNCHANGED <<deployment, repo, snapshot, campaigns,
                 service, writer, task, bounds, ghosts>>

\* The item is loaded for the answer.
ToolLoad(a) ==
  /\ pc[a] = "tool_load"
  /\ returned' = returned \cup {[item |-> Head(task[a].todo),
                                 stage |-> IF task[a].asked THEN "CANONICAL" ELSE "NEW",
                                 asked |-> FALSE]}
  /\ Goto(a, "idle")
  /\ task' = [task EXCEPT ![a] = NoTask]
  /\ UNCHANGED <<memory, service, writer, bounds, fresh, interrupted>>

\* Any call of the tool raises: the client gets an error, the rest is not done.
ToolRaises(a) ==
  /\ pc[a] \in ToolPhases
  /\ IF pc[a] = "tool_register" /\ Head(task[a].todo) \in Refused
     THEN UNCHANGED faults ELSE Break
  /\ interrupted' = interrupted \cup In(task[a].saved)
  /\ Goto(a, "idle")
  /\ task' = [task EXCEPT ![a] = NoTask]
  /\ UNCHANGED <<memory, service, writer, calls, crashes, moves, fresh, returned>>

----
(* What others do.                                                         *)

\* drain_pending
DrainPending ==
  /\ pending' = {}
  /\ available' = [available EXCEPT !["librarian"] = TRUE]
  /\ UNCHANGED <<memory, writer, pc, task, bounds, ghosts>>

\* CampaignManager.open, pause, resume, close, archive, _wait_external, _fail
Advance(c, s) ==
  /\ c \in Existing
  /\ s \in CampaignTransitions[campaigns[c].status]
  /\ campaigns' = [campaigns EXCEPT ![c].status = s]
  /\ moves < MaxMoves /\ moves' = moves + 1
  /\ UNCHANGED <<deployment, repo, index, snapshot, service, writer, pc, task>>
  /\ UNCHANGED <<calls, faults, crashes, ghosts>>

\* What the agents of a process that stops had in hand.
Stop(agents) ==
  /\ crashes < MaxCrashes
  /\ crashes' = crashes + 1
  /\ pc' = [a \in Agents |-> IF a \in agents THEN "idle" ELSE pc[a]]
  /\ task' = [a \in Agents |-> IF a \in agents THEN NoTask ELSE task[a]]
  /\ interrupted' = interrupted \cup UNION {In(task[a].saved) : a \in agents}
  /\ UNCHANGED <<memory, calls, faults, moves, fresh, returned>>

\* The process stops and starts again: what is on disk stays.
Crash ==
  /\ Stop(deployment.hooks)
  /\ available' = AllAvailable
  /\ pending' = {}
  /\ writer' = FALSE

\* So does the MCP server.
ServerCrash ==
  /\ deployment.server # {}
  /\ Stop(deployment.server)
  /\ UNCHANGED <<service, writer>>

----
Step(a) ==
  \/ Acquire(a) \/ Release(a)
  \/ Register(a) \/ RegisterFails(a) \/ Queue(a) \/ Registered(a)
  \/ IndexNew(a) \/ Verify(a) \/ Canonicalize(a) \/ Index(a)
  \/ AllCanonical(a) \/ CreateSnapshot(a) \/ SaveRaises(a)
  \/ FindGiven(a) \/ FindActive(a) \/ FindByGoal(a)
  \/ CreateCampaign(a) \/ IndexCampaign(a)
  \/ LoadSnapshot(a) \/ Retrieve(a) \/ RetrieveRaises(a)
  \/ ToolRegister(a) \/ ToolPromote(a) \/ ToolIndex(a) \/ ToolLoad(a) \/ ToolRaises(a)

Next ==
  \/ \E a \in Agents :
       \/ Step(a)
       \/ \E b \in Batches, asked \in BOOLEAN : SaveAfterTask(a, b, asked)
       \/ \E i \in Items, asked \in BOOLEAN : ToolSave(a, i, asked)
       \/ \E g \in Goals \cup {NoGoal} : RetrieveBeforeTask(a, g, "none")
       \/ \E c \in Existing \cup {"missing"} : RetrieveBeforeTask(a, NoGoal, c)
  \/ DrainPending
  \/ \E c \in Campaigns, s \in CampaignStates : Advance(c, s)
  \/ Crash
  \/ ServerCrash

\* A thread inside a hook, or a request, keeps running; the lock is polled and
\* the calls are finite, so a waiting agent gets it.  Calls, transitions, drains
\* and crashes need not happen.
Fairness == \A a \in Agents : WF_vars(Step(a))

Spec == Init /\ [][Next]_vars /\ Fairness

----
(* Properties.                                                             *)

\* Items have a stage in each of the three stores, tasks are tasks, and the
\* queue holds single items.
TypeOK ==
  /\ {repo, index, snapshot} \subseteq [Items -> Stages]
  /\ campaigns \in [Campaigns -> Campaign \cup {NoCampaign}]
  /\ available \in [Flags -> BOOLEAN]
  /\ pending \subseteq Items
  /\ writer \in BOOLEAN
  /\ pc \in [Agents -> Phases]
  /\ task \in [Agents -> Task]
  /\ calls \in 0 .. deployment.calls
  /\ faults \in 0 .. MaxFaults /\ crashes \in 0 .. MaxCrashes
  /\ moves \in 0 .. MaxMoves
  /\ fresh \subseteq Items /\ interrupted \subseteq Items
  /\ returned \subseteq [item : Items, stage : Stages, asked : BOOLEAN]

\* What save_after_task returned as saved can be retrieved from then on: it is
\* CANONICAL in the repository and in the index, and in the snapshot too when
\* one was asked for.  What the save tool returned is indexed with the status it
\* was saved with, NEW unless the promotion was asked for
\* (docs/mcp-observation-write-path.md).
ReturnedIsRetrievable ==
  \A r \in returned :
    /\ repo[r.item] = r.stage
    /\ index[r.item] = r.stage
    /\ r.asked => snapshot[r.item] = r.stage

\* The index differs from the repository only in items of the save that is
\* running and of saves that an exception or a crash cut short; a campaign is
\* missing from it only while it is being created, or after a failure.
IndexFollowsRepository ==
  /\ \A i \in Items :
       index[i] # repo[i] =>
         i \in interrupted \/ \E a \in Agents : i \in In(task[a].saved)
  /\ \A c \in Existing :
       ~campaigns[c].indexed =>
         \/ faults + crashes > 0
         \/ \E a \in Agents : pc[a] = "index_campaign" /\ task[a].campaign = c

\* An item a caller handed over and that the service still has to store.
InHand(i) ==
  \/ i \in pending
  \/ \E a \in Agents :
       pc[a] \in {"wait_save", "register"} /\ i \in In(task[a].todo)

\* The service lets go of an item only by storing it, by draining the queue it
\* is in, or in a restart: a batch that fails half-way drops nothing.
ItemsStayInHand ==
  [][\A i \in Items :
       InHand(i) /\ ~InHand(i)' =>
         \/ repo'[i] # "absent"
         \/ i \in pending /\ pending' = {}
         \/ crashes' # crashes]_vars

\* Agents that start a task with the same goal share one campaign.  Two campaigns
\* nobody has started have the same goal only if that is a blank one, or the "task"
\* that is stored when a caller leaves the goal out, and then calls that named no
\* goal have made all of them but one: a call that names the goal "task" takes up
\* a campaign such a call has left.
OneCampaignPerGoal ==
  \A c, d \in Existing :
    /\ c # d
    /\ campaigns[c].goal = campaigns[d].goal
    /\ {campaigns[c].status, campaigns[d].status} \subseteq {"CREATED", "READY"}
    => /\ campaigns[c].goal \in BlankGoals \cup {DefaultGoal}
       /\ ~(campaigns[c].named /\ campaigns[d].named)

\* Every hook call, and every call of the tool, returns or raises: no exception
\* leaves the lock held.
HooksEnd == \A a \in Agents : pc[a] # "idle" ~> pc[a] = "idle"

\* No item is lost while the process runs: it is stored, queued, or in the
\* hands of the save it was given to.
NoItemLost ==
  \A i \in Items \ fresh : InHand(i) \/ repo[i] # "absent"

===============================================================================
