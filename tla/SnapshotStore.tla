----------------------------- MODULE SnapshotStore -----------------------------
(***************************************************************************)
(* SnapshotManager.create over FileSnapshotPersistence, for one project.   *)
(* A version is a file of its own; order.json lists the versions and       *)
(* history.json tells who made them.  The three are read and written one   *)
(* after the other, each write through a temporary file whose name is      *)
(* fixed.                                                                  *)
(*                                                                         *)
(* The creators in LockedAgents are threads of one process that hold       *)
(* AgentLock's WRITE mode, as the Hermes hooks do; the others are processes*)
(* of their own (hkos_snapshot of an MCP server) and take no lock.         *)
(***************************************************************************)
EXTENDS Naturals, Sequences

CONSTANTS Agents,
          LockedAgents,
          Contents,       \* what the entity index can hold
          Compared,       \* function on Contents: the part that is compared
          MaxVersions,    \* bound: versions
          MaxLosses       \* bound: creates that fail or die half-way

ASSUME LockedAgentsAssumption == LockedAgents \subseteq Agents
ASSUME ComparedAssumption == DOMAIN Compared = Contents
ASSUME BoundsAssumption == MaxVersions \in Nat /\ MaxLosses \in Nat

VARIABLES content,     \* what the entity index holds
          files,       \* the version files, by number
          order,       \* order.json
          history,     \* history.json
          temps,       \* the temporary files, by the name they stand for
          writer,      \* AgentLock's _writer flag
          pc, job,
          returned,    \* versions create has returned as new
          unlogged,    \* numbers of recorded versions whose create was cut short
          losses

disk == <<files, order, history, temps>>
ghosts == <<returned, unlogged>>
vars == <<content, disk, writer, pc, job, ghosts, losses>>

Numbers == 1 .. MaxVersions

None == [none |-> TRUE]

\* SnapshotDocument: parent 0 is the empty string of a first version.
Document == [id : Nat, parent : Nat, author : Agents, body : Contents]

Entry == [id : Nat, parent : Nat]

\* What create holds: its argument, the document, the number of its file and
\* the two lists it extends.
Job == [force : BOOLEAN, doc : Document \cup {None}, number : Nat,
        versions : Seq(Nat), entries : Seq(Entry)]

NoJob == [force |-> FALSE, doc |-> None, number |-> 0,
          versions |-> << >>, entries |-> << >>]

Phases == {"idle", "waiting", "number", "build", "compare", "save",
           "replace_version", "order", "replace_order",
           "log", "history", "replace_history", "return", "release"}

TempNames == Numbers \cup {MaxVersions + 1, MaxVersions + 2}
OrderTemp == MaxVersions + 1
HistoryTemp == MaxVersions + 2

Init ==
  /\ content \in Contents
  /\ files = [n \in Numbers |-> None]
  /\ order = << >> /\ history = << >>
  /\ temps = [t \in TempNames |-> None]
  /\ writer = FALSE
  /\ pc = [a \in Agents |-> "idle"]
  /\ job = [a \in Agents |-> NoJob]
  /\ returned = {} /\ unlogged = {}
  /\ losses = 0

----
(* Helpers.                                                                *)

\* FileSnapshotPersistence.latest
Latest == IF order = << >> THEN None ELSE files[order[Len(order)]]

Goto(a, phase) == pc' = [pc EXCEPT ![a] = phase]

\* _write_atomic in two steps: fill the temporary file, rename it.
Fill(t, x) == temps' = [temps EXCEPT ![t] = [data |-> x]]

Rename(t) == temps[t] # None /\ temps' = [temps EXCEPT ![t] = None]

----
(* Calling create.                                                         *)

Call(a, force) ==
  /\ pc[a] = "idle"
  /\ Goto(a, "waiting")
  /\ job' = [job EXCEPT ![a] = [NoJob EXCEPT !.force = force]]
  /\ UNCHANGED <<content, disk, writer, ghosts, losses>>

\* Mutant: the lock lets everybody in.
AcquireRegardless(a) ==
  /\ pc[a] = "waiting" /\ Len(order) < MaxVersions
  /\ writer' = (writer \/ a \in LockedAgents)
  /\ Goto(a, "number")
  /\ UNCHANGED <<content, disk, job, ghosts, losses>>

\* Mutant: create forgets to number the document.
AcquireUnnumbered(a) ==
  /\ pc[a] = "waiting" /\ Len(order) < MaxVersions
  /\ a \in LockedAgents => ~writer
  /\ writer' = (writer \/ a \in LockedAgents)
  /\ Goto(a, "build")
  /\ UNCHANGED <<content, disk, job, ghosts, losses>>

Acquire(a) ==
  /\ pc[a] = "waiting" /\ Len(order) < MaxVersions
  /\ a \in LockedAgents => ~writer
  /\ writer' = (writer \/ a \in LockedAgents)
  /\ Goto(a, "number")
  /\ UNCHANGED <<content, disk, job, ghosts, losses>>

\* _next_snapshot_id: one more than the id inside the latest version.  The
\* body is Build's to fill in.
NextId(a) ==
  /\ pc[a] = "number"
  /\ LET last == IF Latest = None THEN 0 ELSE Latest.id
     IN  job' = [job EXCEPT ![a].doc = [id |-> last + 1, parent |-> last,
                                        author |-> a, body |-> content]]
  /\ Goto(a, "build")
  /\ UNCHANGED <<content, disk, writer, ghosts, losses>>

\* SnapshotBuilder.build fills the document from the index as it is now.
Build(a) ==
  /\ pc[a] = "build"
  /\ job' = [job EXCEPT ![a].doc.body = content]
  /\ Goto(a, IF job[a].force THEN "save" ELSE "compare")
  /\ UNCHANGED <<content, disk, writer, ghosts, losses>>

\* SnapshotDiff.diff finds no entity added, removed or changed: it looks at
\* ids, titles and bodies in every section but that of open questions.
Same(d1, d2) == Compared[d1.body] = Compared[d2.body]

\* Mutant: the document is saved whether or not anything changed.
CompareNothing(a) ==
  /\ pc[a] = "compare"
  /\ Goto(a, "save")
  /\ UNCHANGED <<content, disk, writer, job, ghosts, losses>>

\* Without force nothing is saved when nothing changed since the latest.
Compare(a) ==
  /\ pc[a] = "compare"
  /\ Goto(a, IF Latest # None /\ Same(Latest, job[a].doc)
             THEN "release" ELSE "save")
  /\ UNCHANGED <<content, disk, writer, job, ghosts, losses>>

----
(* FileSnapshotPersistence.save                                            *)

\* Mutant: the file of the latest version is written again.
WriteVersionOver(a) ==
  /\ pc[a] = "save" /\ Len(order) < MaxVersions
  /\ LET n == IF order = << >> THEN 1 ELSE Len(order)
     IN  /\ job' = [job EXCEPT ![a].number = n,
                              ![a].versions = Append(order, Len(order) + 1)]
         /\ Fill(n, job[a].doc)
  /\ Goto(a, "replace_version")
  /\ UNCHANGED <<content, files, order, history, writer, ghosts, losses>>

\* The number of the file is one more than the length of order.json.
WriteVersion(a) ==
  /\ pc[a] = "save" /\ Len(order) < MaxVersions
  /\ LET n == Len(order) + 1
     IN  /\ job' = [job EXCEPT ![a].number = n, ![a].versions = Append(order, n)]
         /\ Fill(n, job[a].doc)
  /\ Goto(a, "replace_version")
  /\ UNCHANGED <<content, files, order, history, writer, ghosts, losses>>

ReplaceVersion(a) ==
  /\ pc[a] = "replace_version"
  /\ Rename(job[a].number)
  /\ files' = [files EXCEPT ![job[a].number] = temps[job[a].number].data]
  /\ Goto(a, "order")
  /\ UNCHANGED <<content, order, history, writer, job, ghosts, losses>>

WriteOrder(a) ==
  /\ pc[a] = "order"
  /\ Fill(OrderTemp, job[a].versions)
  /\ Goto(a, "replace_order")
  /\ UNCHANGED <<content, files, order, history, writer, job, ghosts, losses>>

\* Mutant: the history is not written.
ReplaceOrderUnlogged(a) ==
  /\ pc[a] = "replace_order"
  /\ Rename(OrderTemp)
  /\ order' = temps[OrderTemp].data
  /\ Goto(a, "return")
  /\ UNCHANGED <<content, files, history, writer, job, ghosts, losses>>

ReplaceOrder(a) ==
  /\ pc[a] = "replace_order"
  /\ Rename(OrderTemp)
  /\ order' = temps[OrderTemp].data
  /\ Goto(a, "log")
  /\ UNCHANGED <<content, files, history, writer, job, ghosts, losses>>

----
(* SnapshotHistory.append                                                  *)

ReadHistory(a) ==
  /\ pc[a] = "log"
  /\ job' = [job EXCEPT ![a].entries =
               Append(history, [id |-> job[a].doc.id, parent |-> job[a].doc.parent])]
  /\ Goto(a, "history")
  /\ UNCHANGED <<content, disk, writer, ghosts, losses>>

WriteHistory(a) ==
  /\ pc[a] = "history"
  /\ Fill(HistoryTemp, job[a].entries)
  /\ Goto(a, "replace_history")
  /\ UNCHANGED <<content, files, order, history, writer, job, ghosts, losses>>

ReplaceHistory(a) ==
  /\ pc[a] = "replace_history"
  /\ Rename(HistoryTemp)
  /\ history' = temps[HistoryTemp].data
  /\ Goto(a, "return")
  /\ UNCHANGED <<content, files, order, writer, job, ghosts, losses>>

Return(a) ==
  /\ pc[a] = "return"
  /\ returned' = returned \cup {job[a].doc}
  /\ Goto(a, "release")
  /\ UNCHANGED <<content, disk, writer, job, unlogged, losses>>

Release(a) ==
  /\ pc[a] = "release"
  /\ writer' = (writer /\ a \notin LockedAgents)
  /\ Goto(a, "idle")
  /\ job' = [job EXCEPT ![a] = NoJob]
  /\ UNCHANGED <<content, disk, ghosts, losses>>

----
(* What goes wrong.                                                        *)

Recorded(a) == pc[a] \in {"log", "history", "replace_history"}

\* Another creator has renamed the temporary file a wants to rename.
TempIsGone(a) ==
  \/ pc[a] = "replace_version" /\ temps[job[a].number] = None
  \/ pc[a] = "replace_order" /\ temps[OrderTemp] = None
  \/ pc[a] = "replace_history" /\ temps[HistoryTemp] = None

\* An exception leaves create: a file cannot be read, written or found.
\* Nothing is cleaned up.
Fail(a) ==
  /\ pc[a] \notin {"idle", "waiting", "return", "release"}
  /\ IF TempIsGone(a) THEN UNCHANGED losses
     ELSE losses < MaxLosses /\ losses' = losses + 1
  /\ unlogged' = unlogged \cup (IF Recorded(a) THEN {job[a].doc.id} ELSE {})
  /\ Goto(a, "release")
  /\ UNCHANGED <<content, disk, writer, job, returned>>

Processes == {LockedAgents} \cup {{a} : a \in Agents \ LockedAgents}

\* A process stops: what it holds is gone, its files stay as they are.
Crash(p) ==
  /\ losses < MaxLosses /\ losses' = losses + 1
  /\ unlogged' = unlogged \cup {job[a].doc.id : a \in {b \in p : Recorded(b)}}
  /\ pc' = [a \in Agents |-> IF a \in p THEN "idle" ELSE pc[a]]
  /\ job' = [a \in Agents |-> IF a \in p THEN NoJob ELSE job[a]]
  /\ writer' = (writer /\ p # LockedAgents)
  /\ UNCHANGED <<content, disk, returned>>

\* Saves and updates change the index.
Change == content' \in Contents /\ UNCHANGED <<disk, writer, pc, job, ghosts, losses>>

----
Next ==
  \/ \E a \in Agents :
       \/ \E force \in BOOLEAN : Call(a, force)
       \/ Acquire(a) \/ NextId(a) \/ Build(a) \/ Compare(a)
       \/ WriteVersion(a) \/ ReplaceVersion(a)
       \/ WriteOrder(a) \/ ReplaceOrder(a)
       \/ ReadHistory(a) \/ WriteHistory(a) \/ ReplaceHistory(a)
       \/ Return(a) \/ Release(a) \/ Fail(a)
  \/ \E p \in Processes : Crash(p)
  \/ Change

Spec == Init /\ [][Next]_vars

----
(* Properties.                                                             *)

\* Files hold what their writers build, and a create has a document from the
\* moment it numbers it until it ends.
TypeOK ==
  /\ content \in Contents
  /\ files \in [Numbers -> Document \cup {None}]
  /\ order \in Seq(Numbers)
  /\ history \in Seq(Entry)
  /\ DOMAIN temps = TempNames
  /\ \A n \in Numbers : temps[n] \in [data : Document] \cup {None}
  /\ temps[OrderTemp] \in [data : Seq(Numbers)] \cup {None}
  /\ temps[HistoryTemp] \in [data : Seq(Entry)] \cup {None}
  /\ writer \in BOOLEAN
  /\ pc \in [Agents -> Phases]
  /\ job \in [Agents -> Job]
  /\ returned \subseteq Document
  /\ unlogged \subseteq Numbers
  /\ losses \in 0 .. MaxLosses
  /\ \A a \in Agents :
       pc[a] \notin {"idle", "waiting", "number", "release"} => job[a].doc # None

\* The versions order.json lists are whole, numbered without gaps under their
\* own ids, and each has the one before it as its parent: what load and diff
\* rely on, in every state in which another process may read.
VersionChain ==
  \A i \in 1 .. Len(order) :
    /\ order[i] = i
    /\ files[i] # None
    /\ files[i].id = i /\ files[i].parent = i - 1

\* order.json and the version files are a chain, and the history names recorded
\* versions only, in their order and with their parents; the ones it misses are
\* those whose create was cut short after order.json was written, or is about
\* to write the history (FileSnapshotPersistence.save, SnapshotManager.create).
HistoryTellsVersions ==
  /\ VersionChain
  /\ \A i \in 1 .. Len(history) :
       /\ history[i].id \in 1 .. Len(order)
       /\ history[i].parent = files[history[i].id].parent
       /\ \A j \in 1 .. (i - 1) : history[j].id < history[i].id
  /\ \A n \in 1 .. Len(order) :
       \/ \E i \in 1 .. Len(history) : history[i].id = n
       \/ n \in unlogged
       \/ \E a \in Agents : Recorded(a) /\ job[a].doc.id = n

\* A snapshot that create returned as new stays loadable under its id.
ReturnedIsKept ==
  \A d \in returned : d.id \in 1 .. Len(order) /\ files[d.id] = d

\* Without force a version is recorded only when what is compared of its content
\* differs from the version before it (DS-010, section 10), whatever changes
\* meanwhile.
UnforcedBringsNews ==
  [][\A a \in Agents :
       pc[a] = "replace_order" /\ pc'[a] = "log" /\ ~job[a].force /\ order # << >> =>
         ~Same(Latest', Latest)]_vars

Versions == [i \in 1 .. Len(order) |-> files[order[i]]]

\* The store implements the log of versions: no step rewrites or drops a
\* recorded version, through failures and crashes.
Log == INSTANCE SnapshotLog WITH log <- Versions
GrowsAtTheEnd == Log!Spec

===============================================================================
