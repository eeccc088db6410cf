---------------------------- MODULE IndexStoreProofs ----------------------------
(***************************************************************************)
(* What holds of IndexStore for any processes and any documents.  In every *)
(* deployment the data are well formed, and a cache vouches only for what  *)
(* the files hold.  Where writers take the lock the files agree between    *)
(* operations and queries answer from files that agree; where processes    *)
(* update and remove in SQLite tables without a lock, the rows of an entity*)
(* stay in step.                                                           *)
(***************************************************************************)
EXTENDS IndexStore, FiniteSetTheorems, TLAPS

Phases == {"idle", "invalidate_first", "invalidate_last", "read", "change", "write",
           "delete", "list", "load", "select", "commit", "look", "copy", "stat",
           "lookup", "keep", "answer", "end"}

Document == Contents \cup {None}

\* The five parts, each with its kind of data.
Index == {i \in [Files -> Entries \cup [Types -> Nat]] : \A f \in Files : i[f] \in DataOf(f)}

File(f) == {None} \cup [stamp : Nat \ {0}, data : DataOf(f)]

Job == [op : Ops, id : Entities, number : Nat, index : Index, next : 1 .. 5,
        todo : SUBSET Entities, fp : [Files -> Nat], touched : BOOLEAN,
        doc : Document, known : BOOLEAN]

Cached == {None} \cup [fp : [Files -> Nat], index : Index]

Changing == {"update", "remove"}

\* What a call holds, at each place, fits what it does.
Fits(phase, j) ==
  /\ j.op # "query" => j.number # 0
  /\ phase \in {"stat", "lookup", "keep", "answer"} => j.op = "query"
  /\ phase \in {"invalidate_first", "load", "select", "commit"} => j.op \in Changing
  /\ phase \in {"change", "write"} => j.op \in EngineOps \ {"query"}
  /\ phase = "write" /\ j.op = "optimize" => j.next <= 4
  /\ phase \in {"delete", "list"} => j.op \in {"build", "rebuild"}
  /\ phase = "read" => j.op \in EngineOps \ {"build", "rebuild"}
  /\ phase \in {"look", "copy"} => j.op \in {"convert", "reconvert"}
  /\ phase \in {"invalidate_first", "change", "lookup", "keep", "load", "select", "look"}
       => j.next = 1

\* The type invariant with the control of the calls.
Typed ==
  /\ deployment \in Deployments
  /\ legacy \in {None} \cup Index
  /\ repo \in Entries /\ repo[Project] # None
  /\ files = [f \in Files |-> files[f]] /\ \A f \in Files : files[f] \in File(f)
  /\ cache \in [Processes -> Cached]
  /\ writer \in BOOLEAN
  /\ pc \in [Agents -> Phases]
  /\ job \in [Agents -> Job]
  /\ \A a \in Agents : Fits(pc[a], job[a]) /\ (pc[a] = "copy" => legacy # None)
  /\ state \in {"updated", "built", "compact", "torn"}
  /\ writers \in 0 .. deployment.maxWriters
  /\ losses \in 0 .. deployment.maxLosses

----
(* The operators.                                                          *)

LEMMA FileNamesAre ==
  /\ Files = {"keyword", "tags", "entities", "relations", "statistics"}
  /\ \A i \in 1 .. 5 : FileNames[i] \in Files /\ ConvertedNames[i] \in Files
  /\ \A i \in 1 .. 4 : OptimizedNames[i] \in Files
  /\ Len(FileNames) = 5 /\ Len(ConvertedNames) = 5 /\ Len(OptimizedNames) = 4
<1>1. Files = {FileNames[1], FileNames[2], FileNames[3], FileNames[4], FileNames[5]}
  BY DEF Files
<1>2. Files = {"keyword", "tags", "entities", "relations", "statistics"}
  BY <1>1 DEF FileNames
<1>3. \A i \in 1 .. 5 : i = 1 \/ i = 2 \/ i = 3 \/ i = 4 \/ i = 5
  OBVIOUS
<1>4. \A i \in 1 .. 5 : FileNames[i] \in Files /\ ConvertedNames[i] \in Files
  BY <1>2, <1>3 DEF FileNames, ConvertedNames
<1>5. \A i \in 1 .. 4 : OptimizedNames[i] \in Files
  <2>1. \A i \in 1 .. 4 : i = 1 \/ i = 2 \/ i = 3 \/ i = 4
    OBVIOUS
  <2> QED
    BY <1>2, <2>1 DEF OptimizedNames
<1>6. Len(FileNames) = 5 /\ Len(ConvertedNames) = 5 /\ Len(OptimizedNames) = 4
  BY DEF FileNames, ConvertedNames, OptimizedNames
<1> QED
  BY <1>2, <1>4, <1>5, <1>6

\* A function of the files is an index when each part has its kind of data.
LEMMA Assembled ==
  ASSUME NEW i, i = [f \in Files |-> i[f]], \A f \in Files : i[f] \in DataOf(f)
  PROVE  i \in Index
<1>1. \A f \in Files : i[f] \in Entries \cup [Types -> Nat]
  BY DEF DataOf
<1> QED
  BY <1>1 DEF Index

LEMMA FiniteEntities == IsFiniteSet(Entities)
<1>1. IsFiniteSet({Project})
  BY FS_Singleton
<1>2. Entities = (Knowledge \cup Campaigns \cup Decisions) \cup {Project}
  BY Zenon DEF Entities
<1> QED
  BY <1>1, <1>2, FS_Union, EntitiesAssumption

LEMMA CountsAreNumbers ==
  ASSUME NEW entries
  PROVE  Counts(entries) \in [Types -> Nat]
<1>1. \A t \in Types :
        Cardinality({id \in Entities : entries[id] # None /\ TypeOf(id) = t}) \in Nat
  <2> TAKE t \in Types
  <2> DEFINE S == {id \in Entities : entries[id] # None /\ TypeOf(id) = t}
  <2>1. S \subseteq Entities
    OBVIOUS
  <2>2. IsFiniteSet(S)
    BY <2>1, FiniteEntities, FS_Subset
  <2> QED
    BY <2>2, FS_CardinalityType
<1> QED
  BY <1>1 DEF Counts

LEMMA IncrementsAreNumbers ==
  ASSUME NEW s \in [Types -> Nat], NEW t \in Types, NEW up \in BOOLEAN
  PROVE  Increment(s, t, up) \in [Types -> Nat]
<1>1. CASE up = TRUE
  BY <1>1 DEF Increment
<1>2. CASE up = FALSE /\ s[t] = 0
  BY <1>2 DEF Increment
<1>3. CASE up = FALSE /\ s[t] # 0
  <2>1. s[t] - 1 \in Nat
    BY <1>3
  <2> QED
    BY <1>3, <2>1 DEF Increment
<1> QED
  BY <1>1, <1>2, <1>3

LEMMA TypesAreTypes == \A id : TypeOf(id) \in Types
BY DEF TypeOf, Types

LEMMA EmptyIsIndex == EmptyIndex \in Index /\ \A f \in Files : Empty(f) \in DataOf(f)
<1>1. \A f \in Files : Empty(f) \in DataOf(f)
  BY DEF Empty, DataOf, Entries
<1>2. EmptyIndex = [f \in Files |-> EmptyIndex[f]] /\ \A f \in Files : EmptyIndex[f] = Empty(f)
  BY DEF EmptyIndex
<1> QED
  BY <1>1, <1>2, Assembled

LEMMA EntryIsPut ==
  ASSUME NEW i \in Index, NEW id \in Entities, NEW entry \in Document
  PROVE  WithEntry(i, id, entry) \in Index
<1> DEFINE n == WithEntry(i, id, entry)
<1>1. n = [f \in Files |-> n[f]]
  BY DEF WithEntry
<1>2. \A f \in Files : n[f] \in DataOf(f)
  BY DEF WithEntry, Index, DataOf, Entries, Document
<1> QED
  BY <1>1, <1>2, Assembled

\* A part replaced by data of its kind.
LEMMA PartIsPut ==
  ASSUME NEW i \in Index, NEW f \in Files, NEW d \in DataOf(f)
  PROVE  [i EXCEPT ![f] = d] \in Index
<1> DEFINE n == [i EXCEPT ![f] = d]
<1>1. n = [g \in Files |-> n[g]] /\ \A g \in Files : n[g] = IF g = f THEN d ELSE i[g]
  BY DEF Index
<1>2. \A g \in Files : n[g] \in DataOf(g)
  BY <1>1 DEF Index
<1> HIDE DEF n
<1> QED
  BY <1>1, <1>2, Assembled DEF n

LEMMA IndexOfIsIndex ==
  ASSUME NEW entries \in Entries
  PROVE  IndexOf(entries) \in Index
<1> DEFINE n == IndexOf(entries)
<1>1. n = [f \in Files |-> n[f]]
  BY DEF IndexOf
<1>2. \A f \in Files : n[f] \in DataOf(f)
  BY CountsAreNumbers DEF IndexOf, DataOf, Entries
<1> QED
  BY <1>1, <1>2, Assembled

LEMMA DataIsData ==
  ASSUME Typed
  PROVE  OnDisk \in Index /\ \A f \in Files : Data(f) \in DataOf(f)
<1>1. \A f \in Files : Data(f) \in DataOf(f)
  BY EmptyIsIndex DEF Typed, Data, File
<1>2. OnDisk = [f \in Files |-> OnDisk[f]] /\ \A f \in Files : OnDisk[f] = Data(f)
  BY DEF OnDisk
<1> QED
  BY <1>1, <1>2, Assembled

LEMMA NoJobIsJob == NoJob \in Job /\ \A phase \in {"idle", "end", "invalidate_last"} : Fits(phase, NoJob)
<1>1. "query" \in Ops /\ Project \in Entities /\ NoStamps \in [Files -> Nat] /\ None \in Document
  BY DEF Ops, EngineOps, Entities, NoStamps, Document
<1>2. NoJob \in Job
  BY <1>1, EmptyIsIndex DEF NoJob, Job
<1> QED
  BY <1>2 DEF Fits, NoJob

----
(* The calls, step by step.                                                *)

Moves(a, phase, j) == Goto(a, phase) /\ job' = [job EXCEPT ![a] = j]

\* The files a call may still write, each with its number.
Remaining(phase, j) ==
  IF j.op = "query" \/ phase \in {"idle", "invalidate_last", "answer", "end"} THEN {}
  ELSE CASE phase = "write" ->
              IF j.op = "optimize" THEN {OptimizedNames[i] : i \in j.next .. 4}
              ELSE {FileNames[i] : i \in j.next .. 5}
         [] phase = "copy" -> {ConvertedNames[i] : i \in j.next .. 5}
         [] OTHER -> Files

\* A query has begun to read, or has read one more of the files.
ReadsOn(a, phase, j) ==
  phase \in {"read", "keep"} /\ j.op = "query" =>
    \/ phase = "read" /\ j.next = 1
    \/ /\ pc[a] = "read" /\ job[a].op = "query" /\ j.fp = job[a].fp
       /\ j.index = [job[a].index EXCEPT ![FileNames[job[a].next]] = Data(FileNames[job[a].next])]
       /\ \/ phase = "read" /\ j.next = job[a].next + 1
          \/ phase = "keep" /\ job[a].next = 5

\* After it began, a call does not write more than it was going to.
Onward(a, phase, j) ==
  /\ Remaining(phase, j) \subseteq Remaining(pc[a], job[a])
  /\ Remaining(phase, j) # {} => j.number = job[a].number
  /\ \A f \in Files : j.fp[f] \in {0, job[a].fp[f], Stamp(f)}
  /\ ReadsOn(a, phase, j)

Step(a) ==
  \E phase \in Phases, j \in Job :
    /\ Moves(a, phase, j)
    /\ Fits(phase, j) /\ (phase = "copy" => legacy # None)
    /\ Onward(a, phase, j)

LEMMA NothingRemains ==
  \A phase \in {"idle", "invalidate_last", "answer", "end"} : \A j : Remaining(phase, j) = {}
BY DEF Remaining

LEMMA RemainingAreFiles ==
  ASSUME NEW phase \in Phases, NEW j \in Job, Fits(phase, j)
  PROVE  Remaining(phase, j) \subseteq Files
BY FileNamesAre DEF Remaining, Fits, Job

LEMMA FinishSteps ==
  ASSUME Typed, NEW a \in Agents, NEW phase \in {"idle", "end", "invalidate_last"},
         Finish(a, phase)
  PROVE  Step(a)
<1>1. Moves(a, phase, NoJob)
  BY DEF Finish, Moves
<1>2. Onward(a, phase, NoJob)
  BY NothingRemains DEF Onward, ReadsOn, NoJob, NoStamps
<1> QED
  BY <1>1, <1>2, NoJobIsJob DEF Step, Phases

LEMMA ProceedSteps ==
  ASSUME Typed, NEW a \in Agents, NEW j \in Job, NEW names, NEW phase \in Phases \ {"copy"},
         Len(names) \in 1 .. 5, Proceed(a, j, names, phase),
         pc[a] = "copy" => legacy # None,
         LET k == [j EXCEPT !.next = @ + 1]
         IN  j.next < Len(names) => Fits(pc[a], k) /\ Onward(a, pc[a], k),
         LET k == [j EXCEPT !.next = 1]
         IN  j.next >= Len(names) /\ phase \notin {"end", "invalidate_last"} =>
               Fits(phase, k) /\ Onward(a, phase, k)
  PROVE  Step(a)
<1>1. CASE j.next < Len(names)
  <2> DEFINE k == [j EXCEPT !.next = @ + 1]
  <2>0. j.next \in 1 .. 5
    BY DEF Job
  <2> PICK n \in 1 .. 5 : n = Len(names)
    OBVIOUS
  <2>1. j.next + 1 \in 1 .. 5
    BY <1>1, <2>0
  <2>2. k \in Job
    BY <2>1 DEF Job
  <2>3. Moves(a, pc[a], k)
    BY <1>1 DEF Proceed, Moves, Goto, Typed
  <2> QED
    BY <1>1, <2>2, <2>3 DEF Step, Typed
<1>2. CASE j.next >= Len(names) /\ phase \in {"end", "invalidate_last"}
  <2>1. Finish(a, phase)
    BY <1>2 DEF Proceed, Job
  <2> QED
    BY <1>2, <2>1, FinishSteps
<1>3. CASE j.next >= Len(names) /\ phase \notin {"end", "invalidate_last"}
  <2> DEFINE k == [j EXCEPT !.next = 1]
  <2>1. k \in Job
    BY DEF Job
  <2>2. Moves(a, phase, k)
    BY <1>3 DEF Proceed, Moves, Job
  <2> QED
    BY <1>3, <2>1, <2>2 DEF Step
<1> QED
  BY <1>1, <1>2, <1>3 DEF Job

LEMMA InvalidateSteps ==
  ASSUME Typed, NEW a \in Agents, Invalidate(a)
  PROVE  Step(a)
<1>1. job[a] \in Job /\ Fits(pc[a], job[a]) /\ job' = [job EXCEPT ![a] = job[a]]
  BY DEF Typed, Invalidate
<1>2. CASE pc[a] = "invalidate_last"
  <2>1. Goto(a, "end")
    BY <1>2 DEF Invalidate
  <2>2. Onward(a, "end", job[a])
    BY NothingRemains DEF Onward, ReadsOn
  <2>3. Fits("end", job[a])
    BY <1>1 DEF Fits
  <2> QED
    BY <1>1, <2>1, <2>2, <2>3 DEF Step, Phases, Moves
<1>3. CASE pc[a] = "invalidate_first"
  <2>1. job[a].op \in Changing /\ job[a].next = 1
    BY <1>1, <1>3 DEF Fits
  <2>2. PICK phase \in {"read", "load", "select"} : Goto(a, phase)
    <3>1. Goto(a, "read") \/ Goto(a, "load") \/ Goto(a, "select")
      BY <1>3 DEF Invalidate
    <3> QED
      BY <3>1
  <2>3. Onward(a, phase, job[a])
    BY <1>3, <2>1 DEF Onward, ReadsOn, Remaining, Changing
  <2>4. Fits(phase, job[a])
    BY <1>1, <2>1 DEF Fits, Changing, EngineOps
  <2> QED
    BY <1>1, <2>2, <2>3, <2>4 DEF Step, Phases, Moves
<1> QED
  BY <1>2, <1>3 DEF Invalidate

LEMMA ReadSteps ==
  ASSUME Typed, NEW a \in Agents, Read(a)
  PROVE  Step(a)
<1> DEFINE f == FileNames[job[a].next]
           j == [job[a] EXCEPT !.index[f] = Data(f)]
<1>1. job[a] \in Job /\ pc[a] = "read" /\ Fits("read", job[a])
  BY DEF Typed, Read
<1>2. job[a].next \in 1 .. 5 /\ f \in Files /\ Data(f) \in DataOf(f)
  BY <1>1, FileNamesAre, DataIsData DEF Job
<1>3. [job[a].index EXCEPT ![f] = Data(f)] \in Index
  BY <1>1, <1>2, PartIsPut DEF Job
<1>4. j \in Job /\ j = [job[a] EXCEPT !.index = [job[a].index EXCEPT ![f] = Data(f)]]
  BY <1>1, <1>3 DEF Job
<1>5. PICK phase \in {"change", "answer", "keep"} :
        Proceed(a, j, FileNames, phase) /\ (phase = "change") = (job[a].op # "query")
  BY DEF Read
<1>6. phase \in Phases \ {"copy"}
  BY DEF Phases
<1> HIDE DEF j
<1>7. ASSUME j.next < Len(FileNames)
      PROVE  LET k == [j EXCEPT !.next = @ + 1]
             IN  Fits(pc[a], k) /\ Onward(a, pc[a], k)
  <2>1. Fits("read", [j EXCEPT !.next = @ + 1])
    BY <1>1, <1>4 DEF Fits, Job
  <2>2. Onward(a, "read", [j EXCEPT !.next = @ + 1])
    BY <1>1, <1>4 DEF Onward, ReadsOn, Remaining, Job
  <2> QED
    BY <1>1, <2>1, <2>2
<1>8. ASSUME j.next >= Len(FileNames)
      PROVE  LET k == [j EXCEPT !.next = 1]
             IN  Fits(phase, k) /\ Onward(a, phase, k)
  <2>1. job[a].next = 5
    BY <1>2, <1>4, <1>8, FileNamesAre DEF Job
  <2>2. Fits(phase, [j EXCEPT !.next = 1])
    BY <1>1, <1>4, <1>5 DEF Fits, Job, EngineOps
  <2>3. Onward(a, phase, [j EXCEPT !.next = 1])
    BY <1>1, <1>4, <1>5, <2>1 DEF Onward, ReadsOn, Remaining, Job
  <2> QED
    BY <2>2, <2>3
<1>9. Len(FileNames) \in 1 .. 5
  BY FileNamesAre
<1> QED
  BY <1>1, <1>4, <1>5, <1>6, <1>7, <1>8, <1>9, ProceedSteps

\* What turns five objects into five objects to write.
LEMMA ChangeSteps ==
  ASSUME Typed, NEW a \in Agents, NEW i \in Index, pc[a] = "change", Goto(a, "write"),
         job' = [job EXCEPT ![a].index = i]
  PROVE  Step(a)
<1> DEFINE j == [job[a] EXCEPT !.index = i]
<1>1. job[a] \in Job /\ Fits("change", job[a]) /\ j \in Job
  BY DEF Typed, Job
<1>2. Moves(a, "write", j)
  BY DEF Moves, Typed
<1>3. Fits("write", j)
  BY <1>1 DEF Fits
<1>4. Onward(a, "write", j)
  BY <1>1, <1>3, RemainingAreFiles DEF Onward, ReadsOn, Remaining, Fits, Job, Phases
<1> QED
  BY <1>1, <1>2, <1>3, <1>4 DEF Step, Phases

\* The statistics of an index are counters.
LEMMA CountersArePut ==
  ASSUME NEW i \in Index, NEW s \in [Types -> Nat]
  PROVE  [i EXCEPT !["statistics"] = s] \in Index
BY FileNamesAre, PartIsPut DEF DataOf

LEMMA ApplyUpdateSteps ==
  ASSUME Typed, NEW a \in Agents, ApplyUpdate(a)
  PROVE  Step(a)
<1> DEFINE id  == job[a].id
           old == job[a].index
           new == WithEntry(old, id, repo[id])
           counted == [new EXCEPT !["statistics"] = Increment(@, TypeOf(id), TRUE)]
<1>1. old \in Index /\ id \in Entities /\ repo[id] \in Document
  BY DEF Typed, Job, Entries, Document
<1>2. new \in Index
  BY <1>1, EntryIsPut
<1>3. new["statistics"] \in [Types -> Nat]
  BY <1>2, FileNamesAre DEF Index, DataOf
<1>4. counted \in Index
  BY <1>2, <1>3, IncrementsAreNumbers, TypesAreTypes, CountersArePut
<1>5. job' = [job EXCEPT ![a].index = IF old["entities"][id] # None THEN new ELSE counted]
  BY DEF ApplyUpdate
<1> QED
  BY <1>2, <1>4, <1>5, ChangeSteps DEF ApplyUpdate

LEMMA ApplyRemoveSteps ==
  ASSUME Typed, NEW a \in Agents, ApplyRemove(a)
  PROVE  Step(a)
<1> DEFINE id  == job[a].id
           old == job[a].index
           new == WithEntry(old, id, None)
           counted == [new EXCEPT !["statistics"] = Increment(@, TypeOf(id), FALSE)]
<1>1. old \in Index /\ id \in Entities /\ None \in Document
  BY DEF Typed, Job, Document
<1>2. new \in Index
  BY <1>1, EntryIsPut
<1>3. new["statistics"] \in [Types -> Nat]
  BY <1>2, FileNamesAre DEF Index, DataOf
<1>4. counted \in Index
  BY <1>2, <1>3, IncrementsAreNumbers, TypesAreTypes, CountersArePut
<1>5. job' = [job EXCEPT ![a].index = IF old["entities"][id] = None THEN new ELSE counted]
  BY DEF ApplyRemove
<1> QED
  BY <1>2, <1>4, <1>5, ChangeSteps DEF ApplyRemove

LEMMA ApplyOptimizeSteps ==
  ASSUME Typed, NEW a \in Agents, ApplyOptimize(a)
  PROVE  Step(a)
<1> DEFINE old == job[a].index
           records == old["entities"]
           Known(entries) == [id \in Entities |-> IF records[id] = None THEN None ELSE entries[id]]
           i1 == [old EXCEPT !["keyword"] = Known(old["keyword"])]
           i2 == [i1 EXCEPT !["tags"] = Known(old["tags"])]
           i3 == [i2 EXCEPT !["statistics"] = Counts(records)]
<1>1. old \in Index
  BY DEF Typed, Job
<1>2. ASSUME NEW e \in Entries PROVE Known(e) \in Entries
  BY DEF Entries
<1>3. \A i \in Index : i["keyword"] \in Entries /\ i["tags"] \in Entries
  BY FileNamesAre DEF Index, DataOf
<1>4. i1 \in Index
  BY <1>1, <1>2, <1>3, FileNamesAre, PartIsPut DEF DataOf
<1>5. i2 \in Index
  BY <1>2, <1>3, <1>4, FileNamesAre, PartIsPut DEF DataOf
<1>6. i3 \in Index
  BY <1>5, CountsAreNumbers, CountersArePut
<1>7. job' = [job EXCEPT ![a].index =
                [old EXCEPT !["keyword"] = Known(old["keyword"]), !["tags"] = Known(old["tags"]),
                            !["statistics"] = Counts(records)]]
  BY DEF ApplyOptimize
<1>8. job' = [job EXCEPT ![a].index = i3]
  BY <1>7
<1> QED
  BY <1>6, <1>8, ChangeSteps DEF ApplyOptimize

\* A call that goes on at the same place, or at the next, and writes all of the
\* files or none, whatever it has in hand.
LEMMA WholeSteps ==
  ASSUME Typed, NEW a \in Agents, NEW phase \in Phases \ {"read", "write", "copy", "keep"},
         NEW j \in Job, Moves(a, phase, j), Fits(phase, j),
         pc[a] \notin {"idle", "invalidate_last", "write", "copy", "answer", "end"},
         j.op = job[a].op, j.number = job[a].number,
         \A f \in Files : j.fp[f] \in {0, job[a].fp[f], Stamp(f)}
  PROVE  Step(a)
<1>1. Remaining(phase, j) \subseteq Remaining(pc[a], job[a])
  BY DEF Remaining
<1>2. Onward(a, phase, j)
  BY <1>1 DEF Onward, ReadsOn
<1> QED
  BY <1>2 DEF Step

LEMMA DeleteSteps ==
  ASSUME Typed, NEW a \in Agents, Delete(a)
  PROVE  Step(a)
<1> DEFINE j == [job[a] EXCEPT !.touched = TRUE]
<1>1. job[a] \in Job /\ pc[a] = "delete" /\ Fits("delete", job[a]) /\ j \in Job
  BY DEF Typed, Delete, Job
<1>2. Proceed(a, j, FileNames, "list") /\ Len(FileNames) \in 1 .. 5
  BY FileNamesAre DEF Delete
<1>3. LET k == [j EXCEPT !.next = @ + 1] IN Fits(pc[a], k) /\ Onward(a, pc[a], k)
  BY <1>1 DEF Fits, Onward, ReadsOn, Remaining, Job
<1>4. LET k == [j EXCEPT !.next = 1] IN Fits("list", k) /\ Onward(a, "list", k)
  BY <1>1 DEF Fits, Onward, ReadsOn, Remaining, Job
<1> QED
  BY <1>1, <1>2, <1>3, <1>4, ProceedSteps DEF Phases

LEMMA ListSteps ==
  ASSUME Typed, NEW a \in Agents, List(a)
  PROVE  Step(a)
<1> DEFINE todo == {id \in Entities : repo[id] # None /\ TypeOf(id) = ListedTypes[job[a].next]}
           j == [job[a] EXCEPT !.next = @ + 1, !.todo = todo]
<1>1. job[a] \in Job /\ pc[a] = "list" /\ Fits("list", job[a])
  BY DEF Typed, List
<1>2. job[a].next \in 1 .. 5 /\ job[a].next <= 4
  BY <1>1 DEF Job, List
<1>3. job[a].next + 1 \in 1 .. 5 /\ todo \in SUBSET Entities
  BY <1>2
<1>4. j \in Job
  BY <1>1, <1>3 DEF Job
<1>5. Moves(a, "list", j)
  BY <1>1 DEF List, Moves, Goto, Typed
<1>6. Fits("list", j)
  BY <1>1 DEF Fits
<1> QED
  BY <1>1, <1>4, <1>5, <1>6, WholeSteps DEF Phases, Job

LEMMA LoadSteps ==
  ASSUME Typed, NEW a \in Agents, Load(a)
  PROVE  Step(a)
<1>1. PICK id \in job[a].todo :
        job' = [job EXCEPT ![a].todo = @ \ {id}, ![a].index = WithEntry(@, id, repo[id])]
  BY DEF Load
<1> DEFINE j == [job[a] EXCEPT !.todo = @ \ {id}, !.index = WithEntry(@, id, repo[id])]
<1>2. job[a] \in Job /\ pc[a] = "list" /\ Fits("list", job[a]) /\ UNCHANGED pc
  BY DEF Typed, Load
<1>3. id \in Entities /\ repo[id] \in Document /\ job[a].index \in Index
  BY <1>2 DEF Typed, Job, Entries, Document
<1>4. WithEntry(job[a].index, id, repo[id]) \in Index
  BY <1>3, EntryIsPut
<1>5. j \in Job
  BY <1>2, <1>4 DEF Job
<1>6. Moves(a, "list", j)
  BY <1>1, <1>2 DEF Moves, Goto, Typed
<1>7. Fits("list", j)
  BY <1>2 DEF Fits
<1> QED
  BY <1>2, <1>5, <1>6, <1>7, WholeSteps DEF Phases, Job

LEMMA CountSteps ==
  ASSUME Typed, NEW a \in Agents, Count(a)
  PROVE  Step(a)
<1> DEFINE counts == Counts(job[a].index["entities"])
           all == [counts EXCEPT !["project"] = @ + ProjectCount - 1]
           i == [job[a].index EXCEPT !["statistics"] = all]
           j == [job[a] EXCEPT !.index = i, !.next = 1]
<1>1. job[a] \in Job /\ pc[a] = "list" /\ Fits("list", job[a])
  BY DEF Typed, Count
<1>2. counts \in [Types -> Nat]
  BY CountsAreNumbers
<1>3. all \in [Types -> Nat]
  <2>1. counts["project"] + ProjectCount - 1 \in Nat
    BY <1>2, CountAssumption DEF Types
  <2> QED
    BY <1>2, <2>1
<1> HIDE DEF all
<1>4. i \in Index
  BY <1>1, <1>3, CountersArePut DEF Job
<1>5. j \in Job
  <2> DEFINE k == [job[a] EXCEPT !.index = i]
  <2>1. k \in Job
    BY <1>1, <1>4 DEF Job
  <2>2. j = [k EXCEPT !.next = 1]
    BY <1>1 DEF Job
  <2> HIDE DEF k, j
  <2>3. [k EXCEPT !.next = 1] \in Job
    BY <2>1 DEF Job
  <2> QED
    BY <2>2, <2>3
<1>6. job' = [job EXCEPT ![a].index["statistics"] = all, ![a].next = 1]
  BY DEF Count, all
<1>7. Moves(a, "write", j)
  BY <1>1, <1>6 DEF Count, Moves, Typed
<1>8. Fits("write", j)
  BY <1>1 DEF Fits, EngineOps, Job
<1>9. Onward(a, "write", j)
  BY <1>1, <1>5, <1>8, RemainingAreFiles DEF Onward, ReadsOn, Remaining, Fits, Job, Phases
<1> QED
  BY <1>5, <1>7, <1>8, <1>9 DEF Step, Phases

LEMMA WriteSteps ==
  ASSUME Typed, NEW a \in Agents, Write(a)
  PROVE  /\ Step(a)
         /\ Names(a)[job[a].next] \in Files
         /\ Names(a)[job[a].next] \in Remaining(pc[a], job[a])
         /\ Names(a)[job[a].next] \notin Remaining(pc'[a], job'[a])
<1> DEFINE j == [job[a] EXCEPT !.touched = TRUE]
           f == Names(a)[job[a].next]
<1>1. job[a] \in Job /\ pc[a] = "write" /\ Fits("write", job[a]) /\ j \in Job
  BY DEF Typed, Write, Job
<1>2. PICK phase \in {"end", "invalidate_last"} : Proceed(a, j, Names(a), phase)
  BY DEF Write
<1>3. /\ Len(Names(a)) \in 1 .. 5 /\ job[a].next \in 1 .. Len(Names(a))
      /\ Names(a) = IF job[a].op = "optimize" THEN OptimizedNames ELSE FileNames
      /\ Len(Names(a)) = IF job[a].op = "optimize" THEN 4 ELSE 5
  <2>1. job[a].next \in 1 .. 5
    BY <1>1 DEF Job
  <2>2. CASE job[a].op = "optimize"
    <3>1. job[a].next <= 4
      BY <1>1, <2>2 DEF Fits
    <3>2. Names(a) = OptimizedNames /\ Len(Names(a)) = 4
      BY <2>2, FileNamesAre DEF Names
    <3> QED
      BY <2>1, <2>2, <3>1, <3>2
  <2>3. CASE job[a].op # "optimize"
    <3>1. Names(a) = FileNames /\ Len(Names(a)) = 5
      BY <2>3, FileNamesAre DEF Names
    <3> QED
      BY <2>1, <2>3, <3>1
  <2> QED
    BY <2>2, <2>3
<1>4. ASSUME j.next < Len(Names(a))
      PROVE  LET k == [j EXCEPT !.next = @ + 1]
             IN  /\ Fits(pc[a], k) /\ Onward(a, pc[a], k)
                 /\ f \notin Remaining(pc[a], k)
  <2> DEFINE k == [j EXCEPT !.next = @ + 1]
  <2>1. k \in Job /\ k.next = job[a].next + 1 /\ k.op = job[a].op /\ k.number = job[a].number
                  /\ k.fp = job[a].fp
    <3>1. j.next = job[a].next /\ j.next \in 1 .. 5
      BY <1>1 DEF Job
    <3>2. j.next + 1 \in 1 .. 5
      BY <1>3, <1>4, <3>1
    <3> QED
      BY <1>1, <3>1, <3>2 DEF Job
  <2> HIDE DEF k
  <2>2. Fits("write", k)
    BY <1>1, <1>3, <1>4, <2>1 DEF Fits, Job
  <2>3. Onward(a, "write", k)
    BY <1>1, <1>3, <2>1 DEF Onward, ReadsOn, Remaining, Fits, Job
  <2>4. f \notin Remaining("write", k)
    <3>1. \A m, n \in 1 .. 5 : m # n => FileNames[m] # FileNames[n]
      BY DEF FileNames
    <3>2. \A m, n \in 1 .. 4 : m # n => OptimizedNames[m] # OptimizedNames[n]
      BY DEF OptimizedNames
    <3>3. CASE job[a].op = "optimize"
      <4>1. k.next .. 4 \subseteq 1 .. 4 /\ job[a].next \notin k.next .. 4
        BY <1>3, <2>1, <3>3
      <4> QED
        BY <1>3, <2>1, <3>2, <3>3, <4>1 DEF Remaining
    <3>4. CASE job[a].op # "optimize"
      <4>1. k.next .. 5 \subseteq 1 .. 5 /\ job[a].next \notin k.next .. 5
        BY <1>3, <2>1, <3>4
      <4> QED
        BY <1>3, <2>1, <3>1, <3>4, <4>1 DEF Remaining
    <3> QED
      BY <3>3, <3>4
  <2> QED
    BY <1>1, <2>2, <2>3, <2>4 DEF k
<1>5. Step(a)
  BY <1>1, <1>2, <1>3, <1>4, ProceedSteps DEF Phases
<1>6. f \in Files /\ f \in Remaining("write", job[a])
  BY <1>1, <1>3, FileNamesAre DEF Remaining, Fits
<1>7. f \notin Remaining(pc'[a], job'[a])
  <2>1. CASE j.next < Len(Names(a))
    <3> DEFINE k == [j EXCEPT !.next = @ + 1]
    <3>1. job' = [job EXCEPT ![a] = k] /\ pc' = pc
      BY <1>2, <2>1 DEF Proceed
    <3>2. job'[a] = k
      BY <3>1 DEF Typed
    <3> QED
      BY <1>4, <2>1, <3>1, <3>2
  <2>2. CASE ~(j.next < Len(Names(a)))
    <3>1. pc' = [pc EXCEPT ![a] = phase]
      BY <1>2, <2>2 DEF Proceed, Finish, Goto
    <3> QED
      BY <3>1, NothingRemains DEF Typed
  <2> QED
    BY <2>1, <2>2
<1> QED
  BY <1>1, <1>5, <1>6, <1>7

LEMMA LoadEntitySteps ==
  ASSUME Typed, NEW a \in Agents, LoadEntity(a)
  PROVE  Step(a)
<1> DEFINE j == [job[a] EXCEPT !.doc = repo[job[a].id]]
<1>1. job[a] \in Job /\ pc[a] = "load" /\ Fits("load", job[a])
  BY DEF Typed, LoadEntity
<1>2. repo[job[a].id] \in Document
  BY <1>1 DEF Typed, Job, Entries, Document
<1>3. j \in Job
  BY <1>1, <1>2 DEF Job
<1>4. Moves(a, "select", j)
  BY <1>1 DEF LoadEntity, Moves, Typed
<1>5. Fits("select", j)
  BY <1>1 DEF Fits, Job
<1> QED
  BY <1>1, <1>3, <1>4, <1>5, WholeSteps DEF Phases, Job

LEMMA SelectSteps ==
  ASSUME Typed, NEW a \in Agents, Select(a)
  PROVE  Step(a)
<1> DEFINE known == Data("entities")[job[a].id] # None
           j == [job[a] EXCEPT !.known = known]
<1>1. job[a] \in Job /\ pc[a] = "select" /\ Fits("select", job[a]) /\ known \in BOOLEAN
  BY DEF Typed, Select
<1>2. j \in Job
  BY <1>1 DEF Job
<1>3. Moves(a, "commit", j)
  BY <1>1 DEF Select, Moves, Typed
<1>4. Fits("commit", j)
  BY <1>1 DEF Fits, Job
<1> QED
  BY <1>1, <1>2, <1>3, <1>4, WholeSteps DEF Phases, Job

LEMMA LookSteps ==
  ASSUME Typed, NEW a \in Agents, Look(a)
  PROVE  Step(a)
<1>1. job[a] \in Job /\ pc[a] = "look" /\ Fits("look", job[a])
  BY DEF Typed, Look
<1>2. CASE Finish(a, "end")
  BY <1>2, FinishSteps
<1>3. CASE legacy # None /\ Goto(a, "copy") /\ UNCHANGED job
  <2>1. Moves(a, "copy", job[a])
    BY <1>3 DEF Moves, Typed
  <2>2. Fits("copy", job[a])
    BY <1>1 DEF Fits
  <2>3. Remaining("copy", job[a]) \subseteq Files
    BY <1>1, <2>2, RemainingAreFiles DEF Phases
  <2>4. Onward(a, "copy", job[a])
    BY <1>1, <2>3 DEF Onward, ReadsOn, Remaining, Fits
  <2> QED
    BY <1>1, <1>3, <2>1, <2>2, <2>4 DEF Step, Phases
<1> QED
  BY <1>2, <1>3 DEF Look

LEMMA CopySteps ==
  ASSUME Typed, NEW a \in Agents, Copy(a)
  PROVE  /\ Step(a)
         /\ ConvertedNames[job[a].next] \in Files
         /\ ConvertedNames[job[a].next] \in Remaining(pc[a], job[a])
         /\ ConvertedNames[job[a].next] \notin Remaining(pc'[a], job'[a])
<1> DEFINE j == [job[a] EXCEPT !.touched = TRUE]
           f == ConvertedNames[job[a].next]
<1>1. job[a] \in Job /\ pc[a] = "copy" /\ Fits("copy", job[a]) /\ j \in Job /\ legacy # None
  BY DEF Typed, Copy, Job
<1>2. PICK phase \in {"end"} : Proceed(a, j, ConvertedNames, phase)
  BY DEF Copy
<1>3. Len(ConvertedNames) = 5 /\ 5 \in 1 .. 5 /\ job[a].next \in 1 .. 5 /\ j.next = job[a].next
  BY <1>1, FileNamesAre DEF Job
<1>4. ASSUME j.next < Len(ConvertedNames)
      PROVE  LET k == [j EXCEPT !.next = @ + 1]
             IN  /\ Fits(pc[a], k) /\ Onward(a, pc[a], k)
                 /\ f \notin Remaining(pc[a], k)
  <2> DEFINE k == [j EXCEPT !.next = @ + 1]
  <2>1. k \in Job /\ k.next = job[a].next + 1 /\ k.op = job[a].op /\ k.number = job[a].number
                  /\ k.fp = job[a].fp
    <3>1. j.next + 1 \in 1 .. 5
      BY <1>3, <1>4
    <3> QED
      BY <1>1, <1>3, <3>1 DEF Job
  <2> HIDE DEF k
  <2>2. Fits("copy", k)
    BY <1>1, <2>1 DEF Fits, Job
  <2>3. Onward(a, "copy", k)
    BY <1>1, <1>3, <2>1 DEF Onward, ReadsOn, Remaining, Fits, Job
  <2>4. f \notin Remaining("copy", k)
    <3>1. \A m, n \in 1 .. 5 : m # n => ConvertedNames[m] # ConvertedNames[n]
      BY DEF ConvertedNames
    <3> QED
      BY <1>1, <1>3, <2>1, <3>1 DEF Remaining, Fits
  <2> QED
    BY <1>1, <2>2, <2>3, <2>4 DEF k
<1>5. Step(a)
  BY <1>1, <1>2, <1>3, <1>4, ProceedSteps DEF Phases
<1>6. f \in Files /\ f \in Remaining("copy", job[a])
  BY <1>1, <1>3, FileNamesAre DEF Remaining, Fits
<1>7. f \notin Remaining(pc'[a], job'[a])
  <2>1. CASE j.next < Len(ConvertedNames)
    <3> DEFINE k == [j EXCEPT !.next = @ + 1]
    <3>1. job' = [job EXCEPT ![a] = k] /\ pc' = pc
      BY <1>2, <2>1 DEF Proceed
    <3>2. job'[a] = k
      BY <3>1 DEF Typed
    <3> QED
      BY <1>4, <2>1, <3>1, <3>2
  <2>2. CASE ~(j.next < Len(ConvertedNames))
    <3>1. pc' = [pc EXCEPT ![a] = "end"]
      BY <1>2, <2>2 DEF Proceed, Finish, Goto
    <3> QED
      BY <3>1, NothingRemains DEF Typed
  <2> QED
    BY <2>1, <2>2
<1> QED
  BY <1>1, <1>5, <1>6, <1>7

LEMMA StampsAreNumbers ==
  ASSUME Typed
  PROVE  \A f \in Files : Stamp(f) \in Nat
BY DEF Typed, Stamp, File

LEMMA StatSteps ==
  ASSUME Typed, NEW a \in Agents, Stat(a)
  PROVE  Step(a)
<1> DEFINE f == FileNames[job[a].next]
           j == [job[a] EXCEPT !.fp[f] = Stamp(f)]
<1>1. job[a] \in Job /\ pc[a] = "stat" /\ Fits("stat", job[a])
  BY DEF Typed, Stat
<1>2. job[a].next \in 1 .. 5 /\ f \in Files /\ Stamp(f) \in Nat
  BY <1>1, FileNamesAre, StampsAreNumbers DEF Job
<1>3. j = [job[a] EXCEPT !.fp = [job[a].fp EXCEPT ![f] = Stamp(f)]]
  OBVIOUS
<1>4. [job[a].fp EXCEPT ![f] = Stamp(f)] \in [Files -> Nat]
  BY <1>1, <1>2 DEF Job
<1>5. \A g \in Files : j.fp[g] \in {job[a].fp[g], Stamp(g)}
  BY <1>1, <1>3, <1>4 DEF Job
<1>6. j \in Job /\ j.op = "query"
  BY <1>1, <1>3, <1>4 DEF Fits, Job
<1>7. Proceed(a, j, FileNames, "lookup") /\ Len(FileNames) \in 1 .. 5
  BY FileNamesAre DEF Stat
<1> HIDE DEF j
<1>8. LET k == [j EXCEPT !.next = @ + 1] IN Fits(pc[a], k) /\ Onward(a, pc[a], k)
  BY <1>1, <1>5, <1>6 DEF Fits, Onward, ReadsOn, Remaining, Job
<1>9. LET k == [j EXCEPT !.next = 1] IN Fits("lookup", k) /\ Onward(a, "lookup", k)
  BY <1>1, <1>5, <1>6 DEF Fits, Onward, ReadsOn, Remaining, Job
<1> QED
  BY <1>1, <1>6, <1>7, <1>8, <1>9, ProceedSteps DEF Phases

LEMMA HitSteps ==
  ASSUME Typed, NEW a \in Agents, Hit(a)
  PROVE  Step(a)
<1> DEFINE entry == cache[ProcessOf(a)]
           j == [job[a] EXCEPT !.index = entry.index, !.fp = NoStamps]
<1>1. job[a] \in Job /\ pc[a] = "lookup" /\ Fits("lookup", job[a])
  BY DEF Typed, Hit
<1>2. ProcessOf(a) \in Processes
  BY AgentsAssumption DEF ProcessOf
<1>3. entry.index \in Index
  BY <1>2 DEF Typed, Hit, Cached
<1>4. j \in Job /\ j.op = "query"
  BY <1>1, <1>3 DEF Job, NoStamps, Fits
<1>5. Moves(a, "answer", j)
  BY <1>1 DEF Hit, Moves, Typed
<1>6. Fits("answer", j)
  BY <1>4 DEF Fits
<1>7. \A f \in Files : j.fp[f] = 0
  BY <1>1 DEF NoStamps, Job
<1>8. Onward(a, "answer", j)
  BY <1>7, NothingRemains DEF Onward, ReadsOn
<1> QED
  BY <1>4, <1>5, <1>6, <1>8 DEF Step, Phases

LEMMA MissSteps ==
  ASSUME Typed, NEW a \in Agents, Miss(a)
  PROVE  Step(a)
<1>1. job[a] \in Job /\ pc[a] = "lookup" /\ Fits("lookup", job[a])
  BY DEF Typed, Miss
<1>2. Moves(a, "read", job[a])
  BY <1>1 DEF Miss, Moves, Typed
<1>3. Fits("read", job[a])
  BY <1>1 DEF Fits, EngineOps
<1>4. Onward(a, "read", job[a])
  BY <1>1 DEF Onward, ReadsOn, Remaining, Fits
<1> QED
  BY <1>1, <1>2, <1>3, <1>4 DEF Step, Phases

LEMMA KeepSteps ==
  ASSUME Typed, NEW a \in Agents, Keep(a)
  PROVE  Step(a)
<1> DEFINE j == [job[a] EXCEPT !.fp = NoStamps]
<1>1. job[a] \in Job /\ pc[a] = "keep" /\ Fits("keep", job[a])
  BY DEF Typed, Keep
<1>2. j \in Job /\ j.op = "query"
  BY <1>1 DEF Job, NoStamps, Fits
<1>3. Moves(a, "answer", j)
  BY <1>1 DEF Keep, Moves, Typed
<1>4. Fits("answer", j)
  BY <1>2 DEF Fits
<1>5. \A f \in Files : j.fp[f] = 0
  BY <1>1 DEF NoStamps, Job
<1>6. Onward(a, "answer", j)
  BY <1>5, NothingRemains DEF Onward, ReadsOn
<1> QED
  BY <1>2, <1>3, <1>4, <1>6 DEF Step, Phases

LEMMA EndSteps ==
  ASSUME Typed, NEW a \in Agents, End(a)
  PROVE  Step(a)
<1>1. job[a] \in Job /\ Moves(a, "idle", job[a]) /\ Fits(pc[a], job[a])
  BY DEF Typed, End, Moves
<1>2. Fits("idle", job[a])
  BY <1>1 DEF Fits
<1>3. Onward(a, "idle", job[a])
  BY NothingRemains DEF Onward, ReadsOn
<1> QED
  BY <1>1, <1>2, <1>3 DEF Step, Phases

----
(* Type correctness.                                                       *)

\* The part of Typed that is about the calls.
Calling ==
  /\ pc \in [Agents -> Phases] /\ job \in [Agents -> Job]
  /\ \A a \in Agents : Fits(pc[a], job[a]) /\ (pc[a] = "copy" => legacy # None)

LEMMA StepsKeepCalling ==
  ASSUME Typed, NEW a \in Agents, Step(a), UNCHANGED legacy
  PROVE  Calling'
<1>1. PICK phase \in Phases, j \in Job :
        Moves(a, phase, j) /\ Fits(phase, j) /\ (phase = "copy" => legacy # None)
  BY DEF Step
<1>2. pc' = [pc EXCEPT ![a] = phase] /\ job' = [job EXCEPT ![a] = j]
  BY <1>1 DEF Moves, Goto
<1>3. pc' \in [Agents -> Phases] /\ job' \in [Agents -> Job]
  BY <1>2 DEF Typed
<1>4. \A b \in Agents : Fits(pc'[b], job'[b]) /\ (pc'[b] = "copy" => legacy # None)
  BY <1>1, <1>2 DEF Typed
<1> QED
  BY <1>3, <1>4 DEF Calling, Fits

LEMMA FirstPhasesAre ==
  ASSUME NEW op \in Ops
  PROVE  /\ op \in Changing => FirstPhase(op) = "invalidate_first"
         /\ op = "build" => FirstPhase(op) = "list"
         /\ op = "rebuild" => FirstPhase(op) = "delete"
         /\ op = "optimize" => FirstPhase(op) = "read"
         /\ op \in {"convert", "reconvert"} => FirstPhase(op) = "look"
         /\ op = "query" => FirstPhase(op) = IF IsSqlite THEN "read" ELSE "stat"
BY DEF FirstPhase, Changing

\* What a call is after it began.
Begun(a, op, id) == [NoJob EXCEPT !.op = op, !.id = id, !.number = writers']

LEMMA BeginBegins ==
  ASSUME Typed, NEW a \in Agents, NEW op \in Ops, NEW id \in Entities, Begin(a, op, id)
  PROVE  /\ Begun(a, op, id) \in Job /\ FirstPhase(op) \in Phases
         /\ Moves(a, FirstPhase(op), Begun(a, op, id))
         /\ Fits(FirstPhase(op), Begun(a, op, id)) /\ FirstPhase(op) # "copy"
         /\ writers' \in 0 .. deployment.maxWriters
         /\ writers' = IF op = "query" THEN writers ELSE writers + 1
<1>1. deployment.maxWriters \in Nat /\ writers \in 0 .. deployment.maxWriters
  BY AgentsAssumption DEF Typed, Deployment
<1>2. writers' = (IF op = "query" THEN writers ELSE writers + 1)
  BY <1>1 DEF Begin
<1>3. writers' \in 0 .. deployment.maxWriters /\ writers' \in Nat /\ (op # "query" => writers' # 0)
  BY <1>1, <1>2 DEF Begin
<1>4. Begun(a, op, id) \in Job
  BY <1>3, NoJobIsJob DEF Begun, Job
<1>5. Moves(a, FirstPhase(op), Begun(a, op, id))
  BY DEF Begin, Moves, Begun
<1>6. Begun(a, op, id).op = op /\ Begun(a, op, id).number = writers' /\ Begun(a, op, id).next = 1
  BY <1>3, NoJobIsJob DEF Begun, Job, NoJob
<1>7. FirstPhase(op) \in Phases \ {"copy"} /\ Fits(FirstPhase(op), Begun(a, op, id))
  BY <1>3, <1>6, FirstPhasesAre DEF Phases, Fits, Ops, EngineOps, Changing
<1> QED
  BY <1>2, <1>3, <1>4, <1>5, <1>7

LEMMA ReplacedIsIndex ==
  ASSUME Typed, NEW j \in Job
  PROVE  Replaced(j) \in Index
<1> DEFINE old == [f \in Files |-> Data(f)]
           new == WithEntry(old, j.id, j.doc)
           counted == [new EXCEPT !["statistics"] = Increment(@, TypeOf(j.id), ~j.known)]
<1>1. old \in Index /\ j.id \in Entities /\ j.doc \in Document /\ (~j.known) \in BOOLEAN
  BY DataIsData DEF Job, OnDisk
<1>2. new \in Index
  BY <1>1, EntryIsPut
<1>3. new["statistics"] \in [Types -> Nat]
  BY <1>2, FileNamesAre DEF Index, DataOf
<1>4. counted \in Index
  BY <1>1, <1>2, <1>3, IncrementsAreNumbers, TypesAreTypes, CountersArePut
<1> QED
  BY <1>2, <1>4 DEF Replaced

\* A file is replaced by one that is there with data of its kind, or goes.
FilesTyped == files = [f \in Files |-> files[f]] /\ \A f \in Files : files[f] \in File(f)

LEMMA FilesStayTyped ==
  ASSUME Typed, NEW a \in Agents, Delete(a) \/ Write(a) \/ Commit(a) \/ Copy(a)
  PROVE  FilesTyped'
<1>1. job[a] \in Job /\ Fits(pc[a], job[a]) /\ job[a].next \in 1 .. 5
  BY DEF Typed, Job
<1>2. CASE Delete(a)
  <2>1. files' = [files EXCEPT ![FileNames[job[a].next]] = None]
    BY <1>2 DEF Delete
  <2> QED
    BY <2>1 DEF FilesTyped, Typed, File
<1>3. CASE Write(a)
  <2> DEFINE f == Names(a)[job[a].next]
  <2>1. files' = [files EXCEPT ![f] = [stamp |-> job[a].number, data |-> job[a].index[f]]]
    BY <1>3 DEF Write
  <2>2. f \in Files
    BY <1>3, WriteSteps
  <2>3. job[a].number \in Nat \ {0} /\ job[a].index[f] \in DataOf(f)
    BY <1>1, <1>3, <2>2 DEF Write, Fits, Job, Index
  <2>4. [stamp |-> job[a].number, data |-> job[a].index[f]] \in File(f)
    BY <2>3 DEF File
  <2> HIDE DEF f
  <2> QED
    BY <2>1, <2>2, <2>4 DEF FilesTyped, Typed, File
<1>4. CASE Commit(a)
  <2>1. files' = [f \in Files |-> [stamp |-> job[a].number, data |-> Replaced(job[a])[f]]]
    BY <1>4 DEF Commit
  <2>2. job[a].number \in Nat \ {0}
    BY <1>1, <1>4 DEF Commit, Fits, Changing, Job
  <2>3. \A f \in Files : Replaced(job[a])[f] \in DataOf(f)
    BY <1>1, ReplacedIsIndex DEF Index
  <2> QED
    BY <2>1, <2>2, <2>3 DEF FilesTyped, File
<1>5. CASE Copy(a)
  <2> DEFINE f == ConvertedNames[job[a].next]
  <2>1. files' = [files EXCEPT ![f] = [stamp |-> job[a].number, data |-> legacy[f]]]
    BY <1>5 DEF Copy
  <2>2. f \in Files
    BY <1>5, CopySteps
  <2>3. job[a].number \in Nat \ {0}
    BY <1>1, <1>5 DEF Copy, Fits, Job
  <2>4. legacy[f] \in DataOf(f)
    BY <1>5, <2>2 DEF Copy, Typed, Index
  <2>5. [stamp |-> job[a].number, data |-> legacy[f]] \in File(f)
    BY <2>3, <2>4 DEF File
  <2> HIDE DEF f
  <2> QED
    BY <2>1, <2>2, <2>5 DEF FilesTyped, Typed, File
<1> QED
  BY <1>2, <1>3, <1>4, <1>5

\* Everything an agent does after it began.
Goes(a) ==
  \/ End(a) \/ Invalidate(a) \/ Read(a)
  \/ ApplyUpdate(a) \/ ApplyRemove(a) \/ ApplyOptimize(a)
  \/ Delete(a) \/ List(a) \/ Load(a) \/ Count(a) \/ NotFound(a) \/ Write(a)
  \/ LoadEntity(a) \/ Select(a) \/ Commit(a) \/ Look(a) \/ Copy(a)
  \/ Stat(a) \/ Hit(a) \/ Miss(a) \/ Keep(a) \/ Answer(a)
  \/ Fail(a)

LEMMA NextIs ==
  ASSUME [Next]_vars
  PROVE  \/ \E a \in Agents, op \in Ops, id \in Entities : Begin(a, op, id)
         \/ \E a \in Agents : Goes(a)
         \/ \E p \in Processes : Crash(p)
         \/ \E id \in Entities, entry \in Contents \cup {None} : Change(id, entry)
         \/ UNCHANGED vars
BY DEF Next, Goes

LEMMA GoesAreSteps ==
  ASSUME Typed, NEW a \in Agents, Goes(a)
  PROVE  Step(a)
<1>1. CASE NotFound(a)
  BY <1>1, FinishSteps DEF NotFound
<1>2. CASE Answer(a)
  BY <1>2, FinishSteps DEF Answer
<1>3. CASE Fail(a)
  BY <1>3, FinishSteps DEF Fail
<1>4. CASE Commit(a)
  BY <1>4, FinishSteps DEF Commit
<1> QED
  BY <1>1, <1>2, <1>3, <1>4, EndSteps, InvalidateSteps, ReadSteps, ApplyUpdateSteps,
     ApplyRemoveSteps, ApplyOptimizeSteps, DeleteSteps, ListSteps, LoadSteps, CountSteps,
     WriteSteps, LoadEntitySteps, SelectSteps, LookSteps, CopySteps, StatSteps, HitSteps,
     MissSteps, KeepSteps
     DEF Goes

LEMMA BoundsAreNumbers ==
  ASSUME Typed
  PROVE  deployment.maxWriters \in Nat /\ deployment.maxLosses \in Nat
BY AgentsAssumption DEF Typed, Deployment

\* What else a call may change, and how.
LEMMA GoesChange ==
  ASSUME Typed, NEW a \in Agents, Goes(a)
  PROVE  /\ UNCHANGED <<deployment, legacy, repo, writers>>
         /\ \/ UNCHANGED files
            \/ Delete(a) \/ Write(a) \/ Commit(a) \/ Copy(a)
         /\ \/ UNCHANGED cache
            \/ cache' = [cache EXCEPT ![ProcessOf(a)] = None]
            \/ Keep(a)
         /\ losses' \in 0 .. deployment.maxLosses
         /\ state' \in {state, "torn", "built", "compact"}
         /\ writer' = writer \/ End(a)
<1>1. losses \in 0 .. deployment.maxLosses /\ deployment.maxLosses \in Nat
  BY BoundsAreNumbers DEF Typed
<1>2. CASE Fail(a)
  <2>1. losses' \in 0 .. deployment.maxLosses
    BY <1>1, <1>2 DEF Fail
  <2> QED
    BY <1>2, <2>1 DEF Fail, setting
<1>3. CASE Write(a)
  <2>1. state' \in {state, Repaired(job[a].op)}
    BY <1>3 DEF Write
  <2>2. Repaired(job[a].op) \in {state, "built", "compact"}
    BY DEF Repaired
  <2> QED
    BY <1>1, <1>3, <2>1, <2>2 DEF Write, setting
<1>4. CASE Copy(a) \/ NotFound(a)
  BY <1>1, <1>4 DEF Copy, NotFound, setting
<1>5. CASE End(a) \/ Invalidate(a) \/ Miss(a) \/ Keep(a)
  BY <1>1, <1>5 DEF End, Invalidate, Miss, Keep, setting, ghosts
<1>6. CASE Read(a) \/ ApplyUpdate(a) \/ ApplyRemove(a) \/ ApplyOptimize(a) \/ List(a)
           \/ Load(a) \/ Count(a) \/ LoadEntity(a) \/ Select(a)
  BY <1>1, <1>6 DEF Read, ApplyUpdate, ApplyRemove, ApplyOptimize, List, Load, Count,
                    LoadEntity, Select, setting, ghosts
<1>7. CASE Delete(a) \/ Commit(a)
  BY <1>1, <1>7 DEF Delete, Commit, setting, ghosts
<1>8. CASE Look(a) \/ Stat(a) \/ Hit(a) \/ Answer(a)
  BY <1>1, <1>8 DEF Look, Stat, Hit, Answer, setting, ghosts
<1> QED
  BY <1>2, <1>3, <1>4, <1>5, <1>6, <1>7, <1>8 DEF Goes

LEMMA InitIsTyped ==
  ASSUME Init
  PROVE  Typed
<1>1. deployment \in Deployments /\ deployment.maxWriters \in Nat /\ deployment.maxLosses \in Nat
  BY AgentsAssumption DEF Init, Deployment
<1>2. legacy \in {None} \cup Index
  BY IndexOfIsIndex DEF Init, Documents
<1>3. repo \in Entries /\ repo[Project] # None
  BY DEF Init, Documents
<1>4. files = [f \in Files |-> files[f]] /\ \A f \in Files : files[f] \in File(f)
  BY DEF Init, File
<1>5. cache \in [Processes -> Cached]
  BY DEF Init, Cached
<1>6. pc \in [Agents -> Phases] /\ job \in [Agents -> Job]
      /\ \A a \in Agents : Fits(pc[a], job[a]) /\ (pc[a] = "copy" => legacy # None)
  BY NoJobIsJob DEF Init, Phases
<1>7. /\ writer \in BOOLEAN /\ state \in {"updated", "built", "compact", "torn"}
      /\ writers \in 0 .. deployment.maxWriters /\ losses \in 0 .. deployment.maxLosses
  <2>1. writer = FALSE /\ state = "updated" /\ writers = 0 /\ losses = 0
    BY DEF Init
  <2>2. writer \in BOOLEAN
    BY <2>1
  <2>3. state \in {"updated", "built", "compact", "torn"}
    BY <2>1
  <2>4. writers \in 0 .. deployment.maxWriters /\ losses \in 0 .. deployment.maxLosses
    BY <1>1, <2>1
  <2> QED
    BY <2>2, <2>3, <2>4
<1> QED
  BY <1>1, <1>2, <1>3, <1>4, <1>5, <1>6, <1>7 DEF Typed

LEMMA NextIsTyped ==
  ASSUME Typed, [Next]_vars
  PROVE  Typed'
<1>1. ASSUME NEW a \in Agents, NEW op \in Ops, NEW id \in Entities, Begin(a, op, id)
      PROVE  Typed'
  <2>1. Calling'
    <3> DEFINE j == Begun(a, op, id)  phase == FirstPhase(op)
    <3>1. j \in Job /\ phase \in Phases \ {"copy"} /\ Moves(a, phase, j) /\ Fits(phase, j)
      BY <1>1, BeginBegins
    <3> HIDE DEF j, phase
    <3>2. UNCHANGED legacy
      BY <1>1 DEF Begin, setting
    <3> QED
      BY <3>1, <3>2 DEF Moves, Goto, Typed, Calling, Fits
  <2>2. UNCHANGED <<deployment, legacy, repo, files, cache, state, losses>> /\ writer' \in BOOLEAN
    BY <1>1 DEF Begin, setting, Typed
  <2> QED
    BY <1>1, <2>1, <2>2, BeginBegins DEF Typed, Calling, File, DataOf
<1>2. ASSUME NEW a \in Agents, Goes(a)
      PROVE  Typed'
  <2>1. Calling'
    BY <1>2, GoesAreSteps, GoesChange, StepsKeepCalling
  <2>2. FilesTyped'
    <3>1. FilesTyped
      BY DEF Typed, FilesTyped
    <3>2. UNCHANGED files => FilesTyped'
      BY <3>1 DEF FilesTyped
    <3> QED
      BY <1>2, <3>2, GoesChange, FilesStayTyped
  <2>3. cache' \in [Processes -> Cached]
    <3>1. CASE UNCHANGED cache
      BY <3>1 DEF Typed
    <3>2. CASE cache' = [cache EXCEPT ![ProcessOf(a)] = None]
      BY <3>2 DEF Typed, Cached
    <3>3. CASE Keep(a)
      <4>1. [fp |-> job[a].fp, index |-> job[a].index] \in Cached
        BY DEF Typed, Job, Cached
      <4> QED
        BY <3>3, <4>1 DEF Keep, Typed
    <3> QED
      BY <1>2, <3>1, <3>2, <3>3, GoesChange
  <2>4. writer' \in BOOLEAN /\ losses' \in 0 .. deployment.maxLosses
        /\ state' \in {"updated", "built", "compact", "torn"}
    <3>1. End(a) => writer' \in BOOLEAN
      BY DEF End
    <3> QED
      BY <1>2, <3>1, GoesChange DEF Typed
  <2>5. UNCHANGED <<deployment, legacy, repo, writers>>
    BY <1>2, GoesChange
  <2> QED
    BY <2>1, <2>2, <2>3, <2>4, <2>5 DEF Typed, Calling, FilesTyped
<1>3. ASSUME NEW p \in Processes, Crash(p)
      PROVE  Typed'
  <2>1. Calling'
    <3>1. pc' \in [Agents -> Phases] /\ job' \in [Agents -> Job]
      BY <1>3, NoJobIsJob DEF Crash, Typed, Phases
    <3>2. \A a \in Agents : Fits(pc'[a], job'[a]) /\ (pc'[a] = "copy" => legacy # None)
      BY <1>3, NoJobIsJob DEF Crash, Typed
    <3> QED
      BY <1>3, <3>1, <3>2 DEF Calling, Fits, Crash, setting
  <2>2. UNCHANGED <<deployment, legacy, repo, files, writers>>
    BY <1>3 DEF Crash, setting
  <2>3. cache' \in [Processes -> Cached]
    BY <1>3 DEF Crash, Typed, Cached
  <2>4. writer' \in BOOLEAN /\ losses' \in 0 .. deployment.maxLosses
        /\ state' \in {"updated", "built", "compact", "torn"}
    <3>1. losses' \in 0 .. deployment.maxLosses
      BY <1>3, BoundsAreNumbers DEF Crash, Typed
    <3>2. writer' \in BOOLEAN
      BY <1>3 DEF Crash
    <3>3. state' \in {"updated", "built", "compact", "torn"}
      BY <1>3 DEF Crash, Typed
    <3> QED
      BY <3>1, <3>2, <3>3
  <2> QED
    BY <2>1, <2>2, <2>3, <2>4 DEF Typed, Calling, File, DataOf
<1>4. ASSUME NEW id \in Entities, NEW entry \in Contents \cup {None}, Change(id, entry)
      PROVE  Typed'
  <2>1. repo' \in Entries /\ repo'[Project] # None
    BY <1>4 DEF Change, Typed, Entries
  <2>2. UNCHANGED <<deployment, legacy, files, cache, writer, pc, job, state, writers, losses>>
    BY <1>4 DEF Change, setting, ghosts
  <2> QED
    BY <2>1, <2>2 DEF Typed, Fits, File, DataOf
<1>5. CASE UNCHANGED vars
  BY <1>5 DEF vars, setting, ghosts, Typed, Fits, File, DataOf
<1> QED
  BY <1>1, <1>2, <1>3, <1>4, <1>5, NextIs

LEMMA TypedMeansTypeOK ==
  ASSUME Typed
  PROVE  TypeOK
<1>1. \A f \in Files :
        /\ files[f] = None \/ (files[f].stamp \in Nat \ {0} /\ files[f].data \in DataOf(f))
        /\ \A a \in Agents : job[a].index[f] \in DataOf(f)
        /\ \A p \in Processes : cache[p] = None \/ cache[p].index[f] \in DataOf(f)
  BY DEF Typed, File, Job, Cached, Index
<1> QED
  BY <1>1 DEF Typed, TypeOK

LEMMA AlwaysTyped == Spec => []Typed
<1>1. Init => Typed
  BY InitIsTyped
<1>2. Typed /\ [Next]_vars => Typed'
  BY NextIsTyped
<1> QED
  BY <1>1, <1>2, PTL DEF Spec

\* Whatever the deployment, each part holds the kind of data its class writes,
\* and the counters stay numbers.
THEOREM TypeCorrectness == Spec => []TypeOK
<1>1. Typed => TypeOK
  BY TypedMeansTypeOK
<1> QED
  BY <1>1, AlwaysTyped, PTL

----
(* The cache.                                                              *)

ToWrite(a) == Remaining(pc[a], job[a])

\* Calls that have yet to write have numbers of their own.
Numbered ==
  /\ \A a \in Agents : ToWrite(a) # {} => job[a].number \in 1 .. writers
  /\ \A a, b \in Agents :
       a # b /\ ToWrite(a) # {} /\ ToWrite(b) # {} => job[a].number # job[b].number

\* Nobody is going to give f the stamp n.
Spent(f, n) ==
  n <= writers /\ \A a \in Agents : f \in ToWrite(a) => job[a].number # n

\* Where the fingerprint knows a file as it is, the part is what the file holds.
Vouches(file, stamp, part) ==
  file # None /\ stamp = file.stamp => part = file.data

\* What a call has read so far.
ReadSoFar(a) ==
  pc[a] \in {"read", "keep"} /\ job[a].op = "query" =>
    \A i \in 1 .. 5 :
      pc[a] = "keep" \/ i < job[a].next =>
        LET f == FileNames[i] IN Vouches(files[f], job[a].fp[f], job[a].index[f])

\* The stamps in fingerprints and on disk are spent, so that a file written
\* after a fingerprint was taken does not look like one of before.
Honest ==
  /\ Numbered
  /\ \A f \in Files : Spent(f, Stamp(f))
  /\ \A a \in Agents : ReadSoFar(a) /\ \A f \in Files : Spent(f, job[a].fp[f])
  /\ \A p \in Processes : cache[p] # None =>
       \A f \in Files : /\ Spent(f, cache[p].fp[f])
                       /\ Vouches(files[f], cache[p].fp[f], cache[p].index[f])

\* The agents go on, or give up, and nobody begins to write.
Dwindling ==
  /\ writers' = writers
  /\ \A a \in Agents :
       ToWrite(a)' \subseteq ToWrite(a) /\ (ToWrite(a)' # {} => job'[a].number = job[a].number)

LEMMA SpentStays ==
  ASSUME Dwindling, Numbered
  PROVE  Numbered' /\ \A f \in Files, n \in Nat : Spent(f, n) => Spent(f, n)'
BY DEF Dwindling, Numbered, Spent

LEMMA StepsDwindle ==
  ASSUME Typed, NEW a \in Agents, Step(a), writers' = writers
  PROVE  Dwindling
<1>1. PICK phase \in Phases, j \in Job : Moves(a, phase, j) /\ Onward(a, phase, j)
  BY DEF Step
<1>2. pc' = [pc EXCEPT ![a] = phase] /\ job' = [job EXCEPT ![a] = j]
  BY <1>1 DEF Moves, Goto
<1>3. ASSUME NEW b \in Agents
      PROVE  ToWrite(b)' \subseteq ToWrite(b) /\ (ToWrite(b)' # {} => job'[b].number = job[b].number)
  <2>1. CASE b = a
    <3>1. pc'[b] = phase /\ job'[b] = j
      BY <1>2, <2>1 DEF Typed
    <3> QED
      BY <1>1, <2>1, <3>1 DEF Onward, ToWrite
  <2>2. CASE b # a
    <3>1. pc'[b] = pc[b] /\ job'[b] = job[b]
      BY <1>2, <2>2 DEF Typed
    <3> QED
      BY <3>1 DEF ToWrite
  <2> QED
    BY <2>1, <2>2
<1> QED
  BY <1>3 DEF Dwindling

\* What a step does to the files: one that writes one has it behind it, and
\* queries leave them alone.
Writing(a) ==
  \A f \in Files :
    \/ files'[f] = files[f]
    \/ job[a].op # "query" /\ files'[f] = None
    \/ /\ f \in ToWrite(a) /\ f \notin ToWrite(a)'
       /\ files'[f] # None /\ files'[f].stamp = job[a].number

LEMMA FileIsThere ==
  \A s, d :
    LET file == [stamp |-> s, data |-> d]
    IN  file # None /\ file.stamp = s /\ file.data = d
BY DEF None

LEMMA GoesWrite ==
  ASSUME Typed, NEW a \in Agents, Goes(a)
  PROVE  Writing(a)
<1>1. CASE UNCHANGED files
  BY <1>1 DEF Writing
<1>2. CASE Delete(a)
  <2>1. job[a].op # "query"
    BY <1>2 DEF Delete, Typed, Fits
  <2>2. files' = [files EXCEPT ![FileNames[job[a].next]] = None]
    BY <1>2 DEF Delete
  <2> QED
    BY <2>1, <2>2 DEF Writing, Typed
<1>3. CASE Write(a)
  <2> DEFINE f == Names(a)[job[a].next]
             new == [stamp |-> job[a].number, data |-> job[a].index[f]]
  <2>1. files' = [files EXCEPT ![f] = new]
    BY <1>3 DEF Write
  <2>2. f \in Files /\ f \in ToWrite(a) /\ f \notin ToWrite(a)'
    BY <1>3, WriteSteps DEF ToWrite
  <2>3. new # None /\ new.stamp = job[a].number
    BY DEF None
  <2> HIDE DEF f, new
  <2> QED
    BY <2>1, <2>2, <2>3 DEF Writing, Typed
<1>4. CASE Copy(a)
  <2> DEFINE f == ConvertedNames[job[a].next]
             new == [stamp |-> job[a].number, data |-> legacy[f]]
  <2>1. files' = [files EXCEPT ![f] = new]
    BY <1>4 DEF Copy
  <2>2. f \in Files /\ f \in ToWrite(a) /\ f \notin ToWrite(a)'
    BY <1>4, CopySteps DEF ToWrite
  <2>3. new # None /\ new.stamp = job[a].number
    BY DEF None
  <2> HIDE DEF f, new
  <2> QED
    BY <2>1, <2>2, <2>3 DEF Writing, Typed
<1>5. CASE Commit(a)
  <2>1. \A f \in Files : f \in ToWrite(a)
    BY <1>5 DEF Commit, ToWrite, Remaining, Typed, Fits, Changing
  <2>2. ToWrite(a)' = {}
    <3>1. pc'[a] = "end"
      BY <1>5 DEF Commit, Finish, Goto, Typed
    <3> QED
      BY <3>1, NothingRemains DEF ToWrite
  <2>3. \A f \in Files : files'[f] = [stamp |-> job[a].number, data |-> Replaced(job[a])[f]]
    BY <1>5 DEF Commit
  <2>4. ASSUME NEW f \in Files
        PROVE  files'[f] # None /\ files'[f].stamp = job[a].number
    <3>1. PICK d : files'[f] = [stamp |-> job[a].number, data |-> d]
      BY <2>3
    <3> QED
      BY <3>1, FileIsThere
  <2> QED
    BY <2>1, <2>2, <2>4 DEF Writing
<1> QED
  BY <1>1, <1>2, <1>3, <1>4, <1>5, GoesChange

\* A step that dwindles and writes as it may leaves the stamps spent, and what
\* a fingerprint vouched for, or would have, it still vouches for.
LEMMA StampsStaySpent ==
  ASSUME Typed, Honest, Dwindling, NEW a \in Agents, Writing(a)
  PROVE  /\ \A f \in Files : Spent(f, Stamp(f))'
         /\ \A f \in Files : \A n, part :
              Spent(f, n) /\ Vouches(files[f], n, part) => Vouches(files'[f], n, part)
<1> SUFFICES ASSUME NEW f \in Files
             PROVE  /\ Spent(f, Stamp(f))'
                    /\ \A n, part :
                         Spent(f, n) /\ Vouches(files[f], n, part) => Vouches(files'[f], n, part)
  BY DEF Spent
<1>1. Numbered' /\ \A n \in Nat : Spent(f, n) => Spent(f, n)'
  BY SpentStays DEF Honest, Spent
<1>2. CASE files'[f] = files[f]
  <2>1. Spent(f, Stamp(f)) /\ Stamp(f) \in Nat /\ Stamp(f)' = Stamp(f)
    BY <1>2, StampsAreNumbers DEF Honest, Stamp
  <2>2. Spent(f, Stamp(f))'
    BY <1>1, <2>1 DEF Spent
  <2>3. \A n, part : Vouches(files[f], n, part) => Vouches(files'[f], n, part)
    BY <1>2 DEF Vouches
  <2> QED
    BY <2>2, <2>3
<1>3. CASE files'[f] = None
  <2>1. Stamp(f)' = 0
    BY <1>3 DEF Stamp
  <2>2. Spent(f, 0)
    BY DEF Honest, Numbered, Spent, Typed
  <2>3. Spent(f, Stamp(f))'
    BY <1>1, <2>1, <2>2 DEF Spent
  <2> QED
    BY <1>3, <2>3 DEF Vouches
<1>4. CASE /\ f \in ToWrite(a) /\ f \notin ToWrite(a)'
           /\ files'[f] # None /\ files'[f].stamp = job[a].number
  <2>1. Stamp(f)' = job[a].number /\ job[a].number \in 1 .. writers
    BY <1>4 DEF Stamp, Honest, Numbered
  <2>2. \A b \in Agents : f \in ToWrite(b)' => job'[b].number # job[a].number
    BY <1>4 DEF Dwindling, Honest, Numbered
  <2>3. Spent(f, Stamp(f))'
    BY <2>1, <2>2 DEF Spent, Dwindling
  <2>4. \A n : Spent(f, n) => n # files'[f].stamp
    BY <1>4 DEF Spent
  <2> QED
    BY <2>3, <2>4 DEF Vouches
<1> QED
  BY <1>2, <1>3, <1>4 DEF Writing

LEMMA StepsReadHonestly ==
  ASSUME Typed, Honest, NEW a \in Agents, Step(a), Writing(a), writers' = writers
  PROVE  \A b \in Agents : ReadSoFar(b)' /\ \A f \in Files : Spent(f, job[b].fp[f])'
<1> TAKE b \in Agents
<1>1. PICK phase \in Phases, j \in Job : Moves(a, phase, j) /\ Onward(a, phase, j)
  BY DEF Step
<1>2. pc' = [pc EXCEPT ![a] = phase] /\ job' = [job EXCEPT ![a] = j]
  BY <1>1 DEF Moves, Goto
<1>3. Dwindling /\ \A f \in Files, n \in Nat : Spent(f, n) => Spent(f, n)'
  BY StepsDwindle, SpentStays DEF Honest, Spent
<1>4. /\ \A f \in Files : Spent(f, Stamp(f))'
      /\ \A f \in Files : \A n, part :
           Spent(f, n) /\ Vouches(files[f], n, part) => Vouches(files'[f], n, part)
  BY <1>3, StampsStaySpent DEF Spent
<1>5. CASE b # a
  <2>1. pc'[b] = pc[b] /\ job'[b] = job[b] /\ job[b].fp \in [Files -> Nat]
    BY <1>2, <1>5 DEF Typed, Job
  <2>2. ReadSoFar(b) /\ \A f \in Files : Spent(f, job[b].fp[f])
    BY DEF Honest
  <2>3. \A f \in Files : Spent(f, job[b].fp[f])'
    BY <1>3, <2>1, <2>2 DEF Spent
  <2>4. ASSUME pc[b] \in {"read", "keep"}, job[b].op = "query",
               NEW i \in 1 .. 5, pc[b] = "keep" \/ i < job[b].next
        PROVE  LET f == FileNames[i] IN Vouches(files'[f], job[b].fp[f], job[b].index[f])
    <3> DEFINE f == FileNames[i]
    <3>1. f \in Files /\ Vouches(files[f], job[b].fp[f], job[b].index[f])
      BY <2>2, <2>4, FileNamesAre DEF ReadSoFar
    <3> QED
      BY <1>4, <2>2, <3>1 DEF Spent
  <2>5. ReadSoFar(b)'
    BY <2>1, <2>4 DEF ReadSoFar, Vouches
  <2> QED
    BY <2>3, <2>5
<1>6. CASE b = a
  <2>1. pc'[b] = phase /\ job'[b] = j /\ job[a] \in Job
    BY <1>2, <1>6 DEF Typed
  <2>2. \A f \in Files : Spent(f, 0) /\ Spent(f, job[a].fp[f]) /\ Spent(f, Stamp(f))
    BY DEF Honest, Numbered, Spent, Typed
  <2>3. \A f \in Files : Spent(f, j.fp[f]) /\ j.fp[f] \in Nat
    BY <1>1, <2>2 DEF Onward, Job
  <2>4. \A f \in Files : Spent(f, job[b].fp[f])'
    BY <1>3, <2>1, <2>3 DEF Spent
  <2>5. ASSUME phase \in {"read", "keep"}, j.op = "query",
               NEW i \in 1 .. 5, phase = "keep" \/ i < j.next
        PROVE  LET f == FileNames[i] IN Vouches(files'[f], j.fp[f], j.index[f])
    <3> DEFINE f == FileNames[i]  g == FileNames[job[a].next]
    <3>1. /\ pc[a] = "read" /\ job[a].op = "query" /\ j.fp = job[a].fp
          /\ j.index = [job[a].index EXCEPT ![g] = Data(g)]
          /\ i <= job[a].next /\ job[a].next \in 1 .. 5
      <4>1. ~(phase = "read" /\ j.next = 1)
        BY <2>5
      <4> QED
        BY <1>1, <2>1, <2>5, <4>1 DEF Onward, ReadsOn, Job
    <3>2. f \in Files /\ g \in Files /\ job[a].index \in Index
      BY <2>1, <3>1, FileNamesAre DEF Job
    <3>3. files'[f] = files[f] \/ files'[f] = None
      BY <3>1, <3>2 DEF Writing, ToWrite, Remaining
    <3>4. CASE i = job[a].next
      <4>1. j.index[f] = Data(f)
        BY <3>1, <3>2, <3>4 DEF Index
      <4> QED
        BY <3>3, <4>1 DEF Vouches, Data
    <3>5. CASE i # job[a].next
      <4>1. f # g
        BY <3>1, <3>5 DEF FileNames
      <4>2. j.index[f] = job[a].index[f]
        BY <3>1, <3>2, <4>1 DEF Index
      <4>3. Vouches(files[f], job[a].fp[f], job[a].index[f])
        BY <3>1, <3>5 DEF Honest, ReadSoFar
      <4> QED
        BY <3>1, <3>3, <4>2, <4>3 DEF Vouches
    <3> QED
      BY <3>4, <3>5
  <2>6. ReadSoFar(b)'
    BY <2>1, <2>5 DEF ReadSoFar, Vouches
  <2> QED
    BY <2>4, <2>6
<1> QED
  BY <1>5, <1>6 DEF Spent

LEMMA GoesHonestly ==
  ASSUME Typed, Honest, NEW a \in Agents, Goes(a)
  PROVE  Honest'
<1>1. Step(a) /\ Writing(a) /\ writers' = writers
  BY GoesAreSteps, GoesWrite, GoesChange
<1>2. Dwindling /\ Numbered' /\ \A f \in Files, n \in Nat : Spent(f, n) => Spent(f, n)'
  BY <1>1, StepsDwindle, SpentStays DEF Honest, Spent
<1>3. /\ \A f \in Files : Spent(f, Stamp(f))'
      /\ \A f \in Files : \A n, part :
           Spent(f, n) /\ Vouches(files[f], n, part) => Vouches(files'[f], n, part)
  BY <1>1, <1>2, StampsStaySpent DEF Spent
<1>4. \A b \in Agents : ReadSoFar(b)' /\ \A f \in Files : Spent(f, job[b].fp[f])'
  BY <1>1, StepsReadHonestly DEF Spent
<1>5. ASSUME NEW p \in Processes, cache'[p] # None, NEW f \in Files
      PROVE  Spent(f, cache[p].fp[f])' /\ Vouches(files'[f], cache'[p].fp[f], cache'[p].index[f])
  <2>1. CASE cache'[p] = cache[p]
    <3>1. cache[p].fp[f] \in Nat
      BY <1>5, <2>1 DEF Typed, Cached
    <3>2. Spent(f, cache[p].fp[f]) /\ Vouches(files[f], cache[p].fp[f], cache[p].index[f])
      BY <1>5, <2>1 DEF Honest
    <3> QED
      BY <1>2, <1>3, <2>1, <3>1, <3>2 DEF Spent, Vouches
  <2>2. CASE Keep(a) /\ cache'[p] = [fp |-> job[a].fp, index |-> job[a].index]
    <3>1. pc[a] = "keep" /\ job[a].op = "query" /\ job[a].fp[f] \in Nat /\ UNCHANGED files
      BY <2>2 DEF Keep, Typed, Fits, Job
    <3>2. PICK i \in 1 .. 5 : f = FileNames[i]
      BY DEF Files
    <3>3. Vouches(files[f], job[a].fp[f], job[a].index[f]) /\ Spent(f, job[a].fp[f])
      BY <3>1, <3>2 DEF Honest, ReadSoFar
    <3>4. Spent(f, cache[p].fp[f])'
      BY <1>2, <2>2, <3>1, <3>3 DEF Spent
    <3> QED
      BY <2>2, <3>1, <3>3, <3>4
  <2>3. cache'[p] \in {cache[p], None} \/ (Keep(a) /\ cache'[p] = [fp |-> job[a].fp, index |-> job[a].index])
    BY GoesChange DEF Keep, Typed
  <2> QED
    BY <1>5, <2>1, <2>2, <2>3
<1> QED
  BY <1>2, <1>3, <1>4, <1>5 DEF Honest

LEMMA BeginsHonestly ==
  ASSUME Typed, Honest, NEW a \in Agents, NEW op \in Ops, NEW id \in Entities, Begin(a, op, id)
  PROVE  Honest'
<1> DEFINE j == Begun(a, op, id)  phase == FirstPhase(op)
<1>1. /\ pc' = [pc EXCEPT ![a] = phase] /\ job' = [job EXCEPT ![a] = j]
      /\ UNCHANGED <<files, cache>>
      /\ writers' = IF op = "query" THEN writers ELSE writers + 1
  <2>1. Moves(a, phase, j) /\ writers' = IF op = "query" THEN writers ELSE writers + 1
    BY BeginBegins
  <2>2. UNCHANGED <<files, cache>>
    BY DEF Begin
  <2> QED
    BY <2>1, <2>2 DEF Moves, Goto
<1>2. /\ j.op = op /\ j.number = writers' /\ j.next = 1
      /\ \A f \in Files : j.fp[f] = 0
  BY <1>1, NoJobIsJob DEF Begun, Job, NoJob, NoStamps
<1>3. writers \in Nat /\ writers' \in Nat /\ phase # "keep" /\ (op = "query" => Remaining(phase, j) = {})
  BY <1>1, <1>2, BoundsAreNumbers, FirstPhasesAre DEF Typed, Changing, Ops, EngineOps, Remaining
<1> HIDE DEF j, phase
<1>4. \A b \in Agents \ {a} : pc'[b] = pc[b] /\ job'[b] = job[b] /\ ToWrite(b)' = ToWrite(b)
  BY <1>1 DEF Typed, ToWrite
<1>5. pc'[a] = phase /\ job'[a] = j /\ ToWrite(a)' = Remaining(phase, j)
  BY <1>1 DEF Typed, ToWrite
<1>6. ToWrite(a)' # {} => writers' = writers + 1 /\ job'[a].number = writers + 1
  BY <1>1, <1>2, <1>3, <1>5
<1>7. Numbered'
  <2>1. \A b \in Agents : ToWrite(b)' # {} => job'[b].number \in 1 .. writers'
    BY <1>1, <1>3, <1>4, <1>6 DEF Honest, Numbered
  <2>2. \A b, c \in Agents :
          b # c /\ ToWrite(b)' # {} /\ ToWrite(c)' # {} => job'[b].number # job'[c].number
    BY <1>3, <1>4, <1>6 DEF Honest, Numbered
  <2> QED
    BY <2>1, <2>2 DEF Numbered
<1>8. ASSUME NEW f \in Files, NEW n \in Nat, Spent(f, n)
      PROVE  Spent(f, n)'
  <2>1. n <= writers /\ n <= writers'
    BY <1>1, <1>3, <1>8 DEF Spent
  <2>2. \A b \in Agents : f \in ToWrite(b)' => job'[b].number # n
    BY <1>3, <1>4, <1>6, <1>8, <2>1 DEF Spent
  <2> QED
    BY <2>1, <2>2 DEF Spent
<1>9. \A f \in Files : Spent(f, Stamp(f))'
  BY <1>1, <1>8, StampsAreNumbers DEF Honest, Spent, Stamp
<1>10. ASSUME NEW b \in Agents
       PROVE  ReadSoFar(b)' /\ \A f \in Files : Spent(f, job[b].fp[f])'
  <2>1. CASE b = a
    <3>1. ReadSoFar(b)'
      BY <1>2, <1>3, <1>5, <2>1 DEF ReadSoFar
    <3>2. \A f \in Files : Spent(f, 0)
      BY DEF Honest, Numbered, Spent, Typed
    <3>3. \A f \in Files : Spent(f, job[b].fp[f])'
      BY <1>2, <1>5, <1>8, <2>1, <3>2 DEF Spent
    <3> QED
      BY <3>1, <3>3
  <2>2. CASE b # a
    <3>1. job[b].fp \in [Files -> Nat] /\ job'[b] = job[b] /\ pc'[b] = pc[b]
      BY <1>4, <2>2 DEF Typed, Job
    <3>2. \A f \in Files : Spent(f, job[b].fp[f])'
      BY <1>8, <3>1 DEF Honest, Spent
    <3>3. ReadSoFar(b)'
      BY <1>1, <3>1 DEF Honest, ReadSoFar, Vouches
    <3> QED
      BY <3>2, <3>3
  <2> QED
    BY <2>1, <2>2
<1>11. ASSUME NEW p \in Processes, cache'[p] # None, NEW f \in Files
       PROVE  Spent(f, cache[p].fp[f])' /\ Vouches(files'[f], cache'[p].fp[f], cache'[p].index[f])
  <2>1. cache[p] # None /\ cache'[p] = cache[p] /\ cache[p].fp[f] \in Nat
    BY <1>1, <1>11 DEF Typed, Cached
  <2>2. Spent(f, cache[p].fp[f])'
    BY <1>8, <2>1 DEF Honest, Spent
  <2> QED
    BY <1>1, <2>1, <2>2 DEF Honest
<1> QED
  BY <1>7, <1>9, <1>10, <1>11 DEF Honest

LEMMA CrashesHonestly ==
  ASSUME Typed, Honest, NEW p \in Processes, Crash(p)
  PROVE  Honest'
<1>1. /\ \A a \in Agents : /\ pc'[a] = IF a \in p THEN "idle" ELSE pc[a]
                           /\ job'[a] = IF a \in p THEN NoJob ELSE job[a]
      /\ cache' = [cache EXCEPT ![p] = None] /\ UNCHANGED <<files, writers>>
  BY DEF Crash
<1>2. \A a \in Agents : IF a \in p THEN ToWrite(a)' = {}
                        ELSE ToWrite(a)' = ToWrite(a) /\ job'[a] = job[a]
  BY <1>1, NothingRemains DEF ToWrite
<1>3. Dwindling
  BY <1>1, <1>2 DEF Dwindling
<1>4. Numbered' /\ \A f \in Files, n \in Nat : Spent(f, n) => Spent(f, n)'
  BY <1>3, SpentStays DEF Honest, Spent
<1>5. \A f \in Files : Spent(f, Stamp(f))'
  BY <1>1, <1>4, StampsAreNumbers DEF Honest, Spent, Stamp
<1>6. ASSUME NEW a \in Agents
      PROVE  ReadSoFar(a)' /\ \A f \in Files : Spent(f, job[a].fp[f])'
  <2>1. CASE a \in p
    <3>1. ReadSoFar(a)'
      BY <1>1, <2>1 DEF ReadSoFar
    <3>2. \A f \in Files : job'[a].fp[f] = 0
      BY <1>1, <2>1 DEF NoJob, NoStamps
    <3>3. \A f \in Files : Spent(f, 0)
      BY DEF Honest, Numbered, Spent, Typed
    <3>4. \A f \in Files : Spent(f, job[a].fp[f])'
      BY <1>4, <3>2, <3>3 DEF Spent
    <3> QED
      BY <3>1, <3>4
  <2>2. CASE a \notin p
    <3>1. job[a].fp \in [Files -> Nat] /\ job'[a] = job[a] /\ pc'[a] = pc[a]
      BY <1>1, <2>2 DEF Typed, Job
    <3>2. \A f \in Files : Spent(f, job[a].fp[f])'
      BY <1>4, <3>1 DEF Honest, Spent
    <3>3. ReadSoFar(a)'
      BY <1>1, <3>1 DEF Honest, ReadSoFar, Vouches
    <3> QED
      BY <3>2, <3>3
  <2> QED
    BY <2>1, <2>2
<1>7. ASSUME NEW q \in Processes, cache'[q] # None, NEW f \in Files
      PROVE  Spent(f, cache[q].fp[f])' /\ Vouches(files'[f], cache'[q].fp[f], cache'[q].index[f])
  <2>1. cache[q] # None /\ cache'[q] = cache[q] /\ cache[q].fp[f] \in Nat
    BY <1>1, <1>7 DEF Typed, Cached
  <2>2. Spent(f, cache[q].fp[f])'
    BY <1>4, <2>1 DEF Honest, Spent
  <2> QED
    BY <1>1, <2>1, <2>2 DEF Honest
<1> QED
  BY <1>4, <1>5, <1>6, <1>7 DEF Honest

LEMMA NextIsHonest ==
  ASSUME Typed, Honest, [Next]_vars
  PROVE  Honest'
<1>1. ASSUME UNCHANGED <<files, cache, pc, job, writers>>
      PROVE  Honest'
  BY <1>1 DEF Honest, Numbered, Spent, Stamp, ReadSoFar, ToWrite, Vouches
<1>2. ASSUME NEW id \in Entities, NEW entry \in Contents \cup {None}, Change(id, entry)
      PROVE  Honest'
  BY <1>1, <1>2 DEF Change, ghosts
<1>3. CASE UNCHANGED vars
  BY <1>1, <1>3 DEF vars, ghosts
<1> QED
  BY <1>2, <1>3, NextIs, BeginsHonestly, GoesHonestly, CrashesHonestly

LEMMA InitIsHonest ==
  ASSUME Init
  PROVE  Honest
<1>1. \A a \in Agents : pc[a] = "idle" /\ job[a] = NoJob /\ ToWrite(a) = {}
  BY NothingRemains DEF Init, ToWrite
<1>2. Numbered /\ \A f \in Files : Spent(f, 0)
  BY <1>1 DEF Init, Numbered, Spent
<1>3. \A f \in Files : Stamp(f) = 0
  BY DEF Init, Stamp
<1>4. \A p \in Processes : cache[p] = None
  BY DEF Init
<1>5. \A a \in Agents : ReadSoFar(a) /\ \A f \in Files : job[a].fp[f] = 0
  BY <1>1 DEF ReadSoFar, NoJob, NoStamps
<1> QED
  BY <1>2, <1>3, <1>4, <1>5 DEF Honest

LEMMA AlwaysHonest == Spec => []Honest
<1>1. Init => Honest
  BY InitIsHonest
<1>2. Typed /\ Honest /\ [Next]_vars => Honest'
  BY NextIsHonest
<1> QED
  BY <1>1, <1>2, AlwaysTyped, PTL DEF Spec

\* Whoever writes the files, with or without a lock, and whatever fails or dies:
\* where a cached fingerprint matches a file, the cached part is what it holds.
THEOREM CachesAreHonest == Spec => []CacheIsHonest
<1>1. Honest => CacheIsHonest
  BY DEF Honest, CacheIsHonest, Vouches, Stamp
<1> QED
  BY <1>1, AlwaysHonest, PTL

----
(* What the changes make of an index.                                      *)

\* No words and no tags without a record, and the counters are right.
Tidy(index) ==
  /\ \A id \in Entities :
       index["entities"][id] = None => index["keyword"][id] = None /\ index["tags"][id] = None
  /\ \A t \in Types \ {"project"} : index["statistics"][t] = Counts(index["entities"])[t]

\* An entry is put, and the counter moved where a record comes or goes.
Settled(index, id, entry) ==
  LET new == WithEntry(index, id, entry)
  IN  IF (index["entities"][id] # None <=> entry # None) THEN new
      ELSE [new EXCEPT !["statistics"] = Increment(@, TypeOf(id), entry # None)]

\* What optimize makes of an index.
Optimized(index) ==
  LET Known(entries) ==
        [id \in Entities |-> IF index["entities"][id] = None THEN None ELSE entries[id]]
  IN  [index EXCEPT !["keyword"] = Known(index["keyword"]),
                    !["tags"] = Known(index["tags"]),
                    !["statistics"] = Counts(index["entities"])]

LEMMA PartsAre ==
  ASSUME NEW i \in Index
  PROVE  /\ i["keyword"] \in Entries /\ i["tags"] \in Entries /\ i["entities"] \in Entries
         /\ i["relations"] \in Entries /\ i["statistics"] \in [Types -> Nat]
BY FileNamesAre DEF Index, DataOf

LEMMA AgreeIsTidy ==
  ASSUME NEW i, Agree(i)
  PROVE  Tidy(i)
BY DEF Agree, Tidy, InStep, Counted

LEMMA ProjectIsProject == TypeOf(Project) = "project"
BY EntitiesAssumption, Zenon DEF TypeOf

\* The records of a type.
Those(entries, t) == {id \in Entities : entries[id] # None /\ TypeOf(id) = t}

LEMMA ThoseAreFinite ==
  ASSUME NEW entries, NEW t
  PROVE  IsFiniteSet(Those(entries, t)) /\ Cardinality(Those(entries, t)) \in Nat
<1>1. Those(entries, t) \subseteq Entities
  BY DEF Those
<1>2. IsFiniteSet(Those(entries, t))
  BY <1>1, FiniteEntities, FS_Subset
<1> QED
  BY <1>2, FS_CardinalityType

LEMMA CountsAre ==
  ASSUME NEW entries, NEW t \in Types
  PROVE  Counts(entries)[t] = Cardinality(Those(entries, t)) /\ Counts(entries)[t] \in Nat
BY ThoseAreFinite DEF Counts, Those

\* A counter follows a record that comes, goes or is replaced.
LEMMA CountsFollow ==
  ASSUME NEW old \in Entries, NEW id \in Entities, NEW entry \in Document, NEW t \in Types
  PROVE  LET new == [old EXCEPT ![id] = entry]
         IN  Counts(new)[t] =
               IF TypeOf(id) # t \/ (old[id] # None <=> entry # None) THEN Counts(old)[t]
               ELSE IF entry # None THEN Counts(old)[t] + 1
               ELSE Counts(old)[t] - 1
<1> DEFINE new == [old EXCEPT ![id] = entry]
<1>1. \A e \in Entities : new[e] = IF e = id THEN entry ELSE old[e]
  BY DEF Entries
<1> HIDE DEF new
<1>2. CASE TypeOf(id) # t \/ (old[id] # None <=> entry # None)
  <2>1. Those(new, t) = Those(old, t)
    BY <1>1, <1>2 DEF Those
  <2> QED
    BY <1>2, <2>1, CountsAre DEF new
<1>3. CASE TypeOf(id) = t /\ old[id] = None /\ entry # None
  <2>1. Those(new, t) = Those(old, t) \cup {id} /\ id \notin Those(old, t)
    BY <1>1, <1>3 DEF Those
  <2>2. Cardinality(Those(new, t)) = Cardinality(Those(old, t)) + 1
    BY <2>1, ThoseAreFinite, FS_AddElement
  <2> QED
    BY <1>3, <2>2, CountsAre DEF new
<1>4. CASE TypeOf(id) = t /\ old[id] # None /\ entry = None
  <2>1. Those(new, t) = Those(old, t) \ {id} /\ id \in Those(old, t)
    BY <1>1, <1>4 DEF Those
  <2>2. Cardinality(Those(new, t)) = Cardinality(Those(old, t)) - 1
    BY <2>1, ThoseAreFinite, FS_RemoveElement
  <2> QED
    BY <1>4, <2>2, CountsAre DEF new
<1> QED
  BY <1>2, <1>3, <1>4

\* A counter that is not zero has something to count down from.
LEMMA CountedIsPositive ==
  ASSUME NEW old \in Entries, NEW id \in Entities, old[id] # None
  PROVE  Counts(old)[TypeOf(id)] # 0
<1>1. id \in Those(old, TypeOf(id))
  BY DEF Those
<1>2. Cardinality(Those(old, TypeOf(id))) # 0
  BY <1>1, ThoseAreFinite, FS_EmptySet
<1> QED
  BY <1>2, CountsAre, TypesAreTypes

\* Entry by entry, an index is in step when the parts say the same.
LEMMA InStepMeans ==
  ASSUME NEW i \in Index
  PROVE  InStep(i) <=>
           \A e \in Entities :
             /\ i["keyword"][e] = i["entities"][e] /\ i["tags"][e] = i["entities"][e]
             /\ i["relations"][e] = IF TypeOf(e) = "knowledge" THEN i["entities"][e] ELSE None
BY PartsAre DEF InStep, Entries

\* The counters of all the project's documents are right.
Tallied(i) == \A t \in Types \ {"project"} : i["statistics"][t] = Counts(i["entities"])[t]

LEMMA AgreeMeans == \A i : Agree(i) <=> InStep(i) /\ Tallied(i)
BY DEF Agree, Counted, Tallied

\* What a put makes of each part.
LEMMA PutRows ==
  ASSUME NEW i \in Index, NEW id \in Entities, NEW entry \in Document,
         NEW f \in Files \ {"statistics"}, NEW e \in Entities
  PROVE  WithEntry(i, id, entry)[f][e] =
           IF e = id /\ (f = "relations" => TypeOf(id) = "knowledge") THEN entry ELSE i[f][e]
<1>1. i[f] \in Entries
  BY DEF Index, DataOf
<1>2. CASE f = "relations" /\ TypeOf(id) # "knowledge"
  BY <1>2 DEF WithEntry
<1>3. CASE ~(f = "relations" /\ TypeOf(id) # "knowledge")
  <2>1. WithEntry(i, id, entry)[f] = [i[f] EXCEPT ![id] = entry]
    BY <1>3 DEF WithEntry
  <2> QED
    BY <1>1, <1>3, <2>1 DEF Entries
<1> QED
  BY <1>2, <1>3

LEMMA SettledIsIndex ==
  ASSUME NEW i \in Index, NEW id \in Entities, NEW entry \in Document
  PROVE  /\ Settled(i, id, entry) \in Index
         /\ \A f \in Files \ {"statistics"} :
              Settled(i, id, entry)[f] = WithEntry(i, id, entry)[f]
         /\ Settled(i, id, entry)["statistics"] =
              IF i["entities"][id] # None <=> entry # None THEN i["statistics"]
              ELSE Increment(i["statistics"], TypeOf(id), entry # None)
<1> DEFINE new == WithEntry(i, id, entry)
           s == Increment(i["statistics"], TypeOf(id), entry # None)
           counted == [new EXCEPT !["statistics"] = s]
<1>1. new \in Index /\ new = [f \in Files |-> new[f]] /\ new["statistics"] = i["statistics"]
  BY EntryIsPut, FileNamesAre DEF WithEntry
<1>2. s \in [Types -> Nat]
  <2>1. (entry # None) \in BOOLEAN
    OBVIOUS
  <2> QED
    BY <2>1, PartsAre, TypesAreTypes, IncrementsAreNumbers
<1>3. counted \in Index
  BY <1>1, <1>2, PartIsPut, FileNamesAre DEF DataOf
<1>4. (\A f \in Files \ {"statistics"} : counted[f] = new[f]) /\ counted["statistics"] = s
  BY <1>1, FileNamesAre
<1>5. Settled(i, id, entry) = IF i["entities"][id] # None <=> entry # None THEN new ELSE counted
  BY <1>1 DEF Settled
<1> HIDE DEF new, counted, s
<1>6. CASE i["entities"][id] # None <=> entry # None
  BY <1>1, <1>5, <1>6 DEF new
<1>7. CASE ~(i["entities"][id] # None <=> entry # None)
  <2>1. Settled(i, id, entry) = counted
    BY <1>5, <1>7
  <2>2. Settled(i, id, entry)["statistics"] = Increment(i["statistics"], TypeOf(id), entry # None)
    BY <1>4, <2>1 DEF s
  <2> QED
    BY <1>3, <1>4, <1>7, <2>1, <2>2 DEF new
<1> QED
  BY <1>6, <1>7

LEMMA SettledRows ==
  ASSUME NEW i \in Index, NEW id \in Entities, NEW entry \in Document,
         NEW f \in Files \ {"statistics"}, NEW e \in Entities
  PROVE  Settled(i, id, entry)[f][e] =
           IF e = id /\ (f = "relations" => TypeOf(id) = "knowledge") THEN entry ELSE i[f][e]
<1>1. Settled(i, id, entry)[f] = WithEntry(i, id, entry)[f]
  BY SettledIsIndex
<1> QED
  BY <1>1, PutRows

\* The counters move with the records.
LEMMA SettledCounts ==
  ASSUME NEW i \in Index, NEW id \in Entities, NEW entry \in Document, Tallied(i)
  PROVE  Tallied(Settled(i, id, entry))
<1> DEFINE n == Settled(i, id, entry)  old == i["entities"]  s == i["statistics"]
<1>1. n \in Index /\ n["entities"] \in Entries /\ old \in Entries /\ s \in [Types -> Nat]
  BY SettledIsIndex, PartsAre
<1>2. \A e \in Entities : n["entities"][e] = IF e = id THEN entry ELSE old[e]
  BY SettledRows, FileNamesAre
<1>3. n["entities"] = [old EXCEPT ![id] = entry]
  BY <1>1, <1>2 DEF Entries
<1>4. n["statistics"] = IF old[id] # None <=> entry # None THEN s
                        ELSE Increment(s, TypeOf(id), entry # None)
  BY SettledIsIndex
<1> HIDE DEF n
<1> SUFFICES ASSUME NEW t \in Types \ {"project"}
             PROVE  n["statistics"][t] = Counts(n["entities"])[t]
  BY DEF n, Tallied
<1>5. Counts(old)[t] \in Nat /\ s[t] = Counts(old)[t] /\ TypeOf(id) \in Types
  BY CountsAre, TypesAreTypes DEF Tallied
<1> HIDE DEF old, s
<1>6. CASE old[id] # None <=> entry # None
  BY <1>1, <1>3, <1>4, <1>5, <1>6, CountsFollow
<1>7. CASE old[id] = None /\ entry # None
  <2>1. n["statistics"] = [s EXCEPT ![TypeOf(id)] = @ + 1]
    BY <1>4, <1>7 DEF Increment
  <2> QED
    BY <1>1, <1>3, <1>5, <1>7, <2>1, CountsFollow
<1>8. CASE old[id] # None /\ entry = None
  <2>1. n["statistics"] = [s EXCEPT ![TypeOf(id)] = IF @ = 0 THEN 0 ELSE @ - 1]
    BY <1>4, <1>8 DEF Increment
  <2>2. CASE TypeOf(id) # t
    BY <1>1, <1>3, <1>5, <1>8, <2>1, <2>2, CountsFollow
  <2>3. CASE TypeOf(id) = t
    <3>1. s[t] # 0
      BY <1>1, <1>5, <1>8, <2>3, CountedIsPositive
    <3> QED
      BY <1>1, <1>3, <1>5, <1>8, <2>1, <2>3, <3>1, CountsFollow
  <2> QED
    BY <2>2, <2>3
<1> QED
  BY <1>6, <1>7, <1>8

\* update and remove keep a whole index whole and a tidy one tidy.
LEMMA SettledKeeps ==
  ASSUME NEW i \in Index, NEW id \in Entities, NEW entry \in Document
  PROVE  /\ InStep(i) => InStep(Settled(i, id, entry))
         /\ Agree(i) => Agree(Settled(i, id, entry))
         /\ Tidy(i) => Tidy(Settled(i, id, entry))
<1> DEFINE n == Settled(i, id, entry)
<1>1. n \in Index
  BY SettledIsIndex
<1>2. \A e \in Entities :
        /\ n["keyword"][e] = IF e = id THEN entry ELSE i["keyword"][e]
        /\ n["tags"][e] = IF e = id THEN entry ELSE i["tags"][e]
        /\ n["entities"][e] = IF e = id THEN entry ELSE i["entities"][e]
        /\ n["relations"][e] = IF e = id /\ TypeOf(id) = "knowledge" THEN entry
                               ELSE i["relations"][e]
  BY SettledRows, FileNamesAre
<1>3. Tallied(i) => Tallied(n)
  BY SettledCounts
<1> HIDE DEF n
<1>4. InStep(i) => InStep(n)
  BY <1>1, <1>2, InStepMeans
<1>5. Agree(i) => Agree(n)
  BY <1>3, <1>4, AgreeMeans
<1>6. Tidy(i) => Tidy(n)
  BY <1>2, <1>3 DEF Tidy, Tallied
<1> QED
  BY <1>4, <1>5, <1>6 DEF n

LEMMA OptimizedParts ==
  ASSUME NEW i \in Index
  PROVE  LET n == Optimized(i)
             Known(entries) ==
               [id \in Entities |-> IF i["entities"][id] = None THEN None ELSE entries[id]]
         IN  /\ n["keyword"] = Known(i["keyword"]) /\ n["tags"] = Known(i["tags"])
             /\ n["entities"] = i["entities"] /\ n["relations"] = i["relations"]
             /\ n["statistics"] = Counts(i["entities"])
BY FileNamesAre DEF Optimized, Index

\* optimize makes any index tidy and keeps a whole one whole.
LEMMA OptimizedIsTidy ==
  ASSUME NEW i \in Index
  PROVE  Tidy(Optimized(i)) /\ (Agree(i) => Agree(Optimized(i)))
<1> DEFINE n == Optimized(i)
           known(entries) ==
             [id \in Entities |-> IF i["entities"][id] = None THEN None ELSE entries[id]]
<1>1. /\ n["keyword"] = known(i["keyword"]) /\ n["tags"] = known(i["tags"])
      /\ n["entities"] = i["entities"] /\ n["relations"] = i["relations"]
      /\ n["statistics"] = Counts(i["entities"])
  BY OptimizedParts
<1> HIDE DEF n
<1>2. Tidy(n)
  BY <1>1 DEF Tidy
<1>3. known(i["entities"]) = i["entities"]
  BY PartsAre DEF Entries
<1>4. Agree(i) => Agree(n)
  BY <1>1, <1>3 DEF Agree, InStep, Counted
<1> QED
  BY <1>2, <1>4 DEF n

\* What a build has loaded so far.
LEMMA LoadedKeepsInStep ==
  ASSUME NEW i \in Index, NEW id \in Entities, NEW entry \in Document, InStep(i)
  PROVE  InStep(WithEntry(i, id, entry))
<1> DEFINE n == WithEntry(i, id, entry)
<1>1. n \in Index
  BY EntryIsPut
<1>2. \A e \in Entities :
        /\ n["keyword"][e] = IF e = id THEN entry ELSE i["keyword"][e]
        /\ n["tags"][e] = IF e = id THEN entry ELSE i["tags"][e]
        /\ n["entities"][e] = IF e = id THEN entry ELSE i["entities"][e]
        /\ n["relations"][e] = IF e = id /\ TypeOf(id) = "knowledge" THEN entry
                               ELSE i["relations"][e]
  BY PutRows, FileNamesAre
<1> HIDE DEF n
<1>3. InStep(n)
  BY <1>1, <1>2, InStepMeans
<1> QED
  BY <1>3 DEF n

LEMMA EmptyIsInStep == InStep(EmptyIndex)
BY FileNamesAre DEF InStep, EmptyIndex, Empty

\* A build counts what it has loaded.
LEMMA CountedAgrees ==
  ASSUME NEW i \in Index, InStep(i), NEW n \in Nat
  PROVE  Agree([i EXCEPT !["statistics"] = [Counts(i["entities"]) EXCEPT !["project"] = n]])
<1> DEFINE s == [Counts(i["entities"]) EXCEPT !["project"] = n]
           k == [i EXCEPT !["statistics"] = s]
<1>1. \A t \in Types \ {"project"} : s[t] = Counts(i["entities"])[t]
  BY CountsAreNumbers
<1> HIDE DEF s
<1>2. /\ k["keyword"] = i["keyword"] /\ k["tags"] = i["tags"] /\ k["entities"] = i["entities"]
      /\ k["relations"] = i["relations"] /\ k["statistics"] = s
  BY FileNamesAre DEF Index
<1> HIDE DEF k
<1>3. Agree(k)
  BY <1>1, <1>2 DEF InStep, Agree, Counted
<1> QED
  BY <1>3 DEF k, s

LEMMA IndexOfAgrees ==
  ASSUME NEW entries \in Entries
  PROVE  Agree(IndexOf(entries))
<1>1. /\ IndexOf(entries)["keyword"] = entries /\ IndexOf(entries)["tags"] = entries
      /\ IndexOf(entries)["entities"] = entries /\ IndexOf(entries)["statistics"] = Counts(entries)
      /\ IndexOf(entries)["relations"] =
           [id \in Entities |-> IF TypeOf(id) = "knowledge" THEN entries[id] ELSE None]
  BY FileNamesAre DEF IndexOf
<1> QED
  BY <1>1 DEF Agree, InStep, Counted

\* Nothing but the parts decides whether an index agrees or is tidy.
LEMMA SameParts ==
  ASSUME NEW i, NEW k, \A f \in Files : i[f] = k[f]
  PROVE  (Agree(i) <=> Agree(k)) /\ (Tidy(i) <=> Tidy(k)) /\ (InStep(i) <=> InStep(k))
<1>1. /\ i["keyword"] = k["keyword"] /\ i["tags"] = k["tags"] /\ i["entities"] = k["entities"]
      /\ i["relations"] = k["relations"] /\ i["statistics"] = k["statistics"]
  BY FileNamesAre
<1> QED
  BY <1>1 DEF Agree, Tidy, InStep, Counted

----
(* Whose turn it is.                                                       *)

\* Where a call is when it is not at work on the index.
Resting == {"idle", "end", "invalidate_last"}

\* A call that writes is one the agent makes, and it is at work; those that take
\* the lock hold it from beginning to end, one at a time.
InTurn ==
  /\ \A a \in Agents : job[a].op # "query" =>
       job[a].op \in deployment.does[a] /\ pc[a] \notin Resting
  /\ \A a \in LockedAgents : pc[a] # "idle" => writer
  /\ \A a, b \in LockedAgents : pc[a] # "idle" /\ pc[b] # "idle" => a = b

\* It stays the same operation, at work, or there is nothing left of it.
GoesOn(a) ==
  \/ job'[a] = NoJob /\ pc'[a] \in Resting
  \/ job'[a].op = job[a].op /\ (pc'[a] \notin Resting \/ pc[a] \in Resting)

LEMMA FinishGoesOn ==
  ASSUME Typed, NEW a \in Agents, NEW phase \in {"end", "invalidate_last"}, Finish(a, phase)
  PROVE  job'[a] = NoJob /\ GoesOn(a) /\ pc'[a] = phase
<1>1. job'[a] = NoJob /\ pc'[a] = phase
  BY DEF Finish, Goto, Typed
<1> QED
  BY <1>1 DEF GoesOn, Resting

LEMMA ProceedGoesOn ==
  ASSUME Typed, NEW a \in Agents, NEW j \in Job, j.op = job[a].op, NEW names,
         NEW phase \in {"change", "answer", "keep", "list", "end", "invalidate_last", "lookup"},
         pc[a] \notin Resting, Proceed(a, j, names, phase)
  PROVE  GoesOn(a) /\ pc'[a] # "idle"
<1>1. CASE j.next < Len(names)
  <2>1. pc'[a] = pc[a] /\ job'[a] = [j EXCEPT !.next = @ + 1]
    BY <1>1 DEF Proceed, Typed
  <2>2. job'[a].op = job[a].op
    BY <2>1 DEF Job
  <2> QED
    BY <2>1, <2>2 DEF GoesOn, Resting
<1>2. CASE ~(j.next < Len(names)) /\ phase \in {"end", "invalidate_last"}
  <2>1. Finish(a, phase)
    BY <1>2 DEF Proceed
  <2> QED
    BY <1>2, <2>1, FinishGoesOn
<1>3. CASE ~(j.next < Len(names)) /\ phase \notin {"end", "invalidate_last"}
  <2>1. pc'[a] = phase /\ job'[a] = [j EXCEPT !.next = 1]
    BY <1>3 DEF Proceed, Goto, Typed
  <2>2. job'[a].op = job[a].op
    BY <2>1 DEF Job
  <2> QED
    BY <1>3, <2>1, <2>2 DEF GoesOn, Resting
<1> QED
  BY <1>1, <1>2, <1>3

LEMMA AgentsGoOn ==
  ASSUME Typed, NEW a \in Agents, Goes(a)
  PROVE  GoesOn(a) /\ pc[a] # "idle" /\ (pc'[a] = "idle" => End(a))
<1>0. job[a] \in Job /\ Fits(pc[a], job[a]) /\ job[a].next \in 1 .. 5
  BY DEF Typed, Job
<1>1. CASE End(a)
  BY <1>1 DEF End, Goto, Typed, GoesOn, Resting
<1>2. CASE Invalidate(a)
  BY <1>0, <1>2 DEF Invalidate, Goto, Typed, GoesOn, Resting
<1>3. CASE Read(a)
  <2> DEFINE j == [job[a] EXCEPT !.index[FileNames[job[a].next]] = Data(FileNames[job[a].next])]
  <2>1. FileNames[job[a].next] \in Files
    BY <1>0, FileNamesAre
  <2>2. [job[a].index EXCEPT ![FileNames[job[a].next]] = Data(FileNames[job[a].next])] \in Index
    BY <1>0, <2>1, DataIsData, PartIsPut DEF Job
  <2>3. j \in Job /\ j.op = job[a].op
    BY <1>0, <2>2 DEF Job
  <2> HIDE DEF j
  <2>4. \/ Proceed(a, j, FileNames, "change") \/ Proceed(a, j, FileNames, "answer")
        \/ Proceed(a, j, FileNames, "keep")
    BY <1>3 DEF Read, j
  <2>5. pc[a] = "read"
    BY <1>3 DEF Read
  <2> QED
    BY <2>3, <2>4, <2>5, ProceedGoesOn DEF Resting
<1>4. CASE ApplyUpdate(a) \/ ApplyRemove(a) \/ ApplyOptimize(a) \/ Count(a)
  <2>1. job \in [Agents -> Job] /\ pc \in [Agents -> Phases]
    BY DEF Typed
  <2>2. pc[a] \in {"change", "list"} /\ pc'[a] = "write"
    BY <1>4, <2>1 DEF ApplyUpdate, ApplyRemove, ApplyOptimize, Count, Goto
  <2>3. CASE ApplyUpdate(a) \/ ApplyRemove(a) \/ ApplyOptimize(a)
    <3>1. PICK i : job' = [job EXCEPT ![a].index = i]
      BY <2>3 DEF ApplyUpdate, ApplyRemove, ApplyOptimize
    <3>2. job'[a].op = job[a].op
      BY <1>0, <2>1, <3>1 DEF Job
    <3> QED
      BY <2>2, <3>2 DEF GoesOn, Resting
  <2>4. CASE Count(a)
    <3>1. PICK i : job' = [job EXCEPT ![a].index["statistics"] = i, ![a].next = 1]
      BY <2>4 DEF Count
    <3>2. job'[a].op = job[a].op
      BY <1>0, <2>1, <3>1 DEF Job
    <3> QED
      BY <2>2, <3>2 DEF GoesOn, Resting
  <2> QED
    BY <1>4, <2>3, <2>4
<1>5. CASE List(a) \/ Load(a)
  BY <1>0, <1>5 DEF List, Load, Typed, Job, GoesOn, Resting
<1>6. CASE LoadEntity(a) \/ Select(a) \/ Hit(a) \/ Miss(a) \/ Keep(a)
  BY <1>0, <1>6 DEF LoadEntity, Select, Hit, Miss, Keep, Goto, Typed, Job, GoesOn, Resting
<1>7. CASE Delete(a) \/ Write(a) \/ Copy(a)
  <2> DEFINE j == [job[a] EXCEPT !.touched = TRUE]
  <2>1. j \in Job /\ j.op = job[a].op
    BY <1>0 DEF Job
  <2> HIDE DEF j
  <2>2. \/ Proceed(a, j, FileNames, "list") \/ Proceed(a, j, ConvertedNames, "end")
        \/ Proceed(a, j, Names(a), "invalidate_last") \/ Proceed(a, j, Names(a), "end")
    BY <1>7 DEF Delete, Write, Copy, j
  <2>3. pc[a] \in {"delete", "write", "copy"}
    BY <1>7 DEF Delete, Write, Copy
  <2> QED
    BY <2>1, <2>2, <2>3, ProceedGoesOn DEF Resting
<1>8. CASE Stat(a)
  <2> DEFINE j == [job[a] EXCEPT !.fp[FileNames[job[a].next]] = Stamp(FileNames[job[a].next])]
  <2>1. FileNames[job[a].next] \in Files /\ Stamp(FileNames[job[a].next]) \in Nat
    BY <1>0, FileNamesAre, StampsAreNumbers
  <2>2. j \in Job /\ j.op = job[a].op
    BY <1>0, <2>1 DEF Job
  <2> HIDE DEF j
  <2>3. Proceed(a, j, FileNames, "lookup") /\ pc[a] = "stat"
    BY <1>8 DEF Stat, j
  <2> QED
    BY <2>2, <2>3, ProceedGoesOn DEF Resting
<1>9. CASE NotFound(a) \/ Commit(a) \/ Answer(a) \/ Fail(a)
  <2>1. Finish(a, "end") /\ pc[a] # "idle"
    BY <1>9 DEF NotFound, Commit, Answer, Fail
  <2> QED
    BY <2>1, FinishGoesOn
<1>10. CASE Look(a)
  <2>1. pc[a] = "look" /\ (Finish(a, "end") \/ (Goto(a, "copy") /\ UNCHANGED job))
    BY <1>10 DEF Look
  <2>2. CASE Finish(a, "end")
    BY <2>1, <2>2, FinishGoesOn
  <2>3. CASE Goto(a, "copy") /\ UNCHANGED job
    BY <2>1, <2>3 DEF Goto, Typed, GoesOn, Resting
  <2> QED
    BY <2>1, <2>2, <2>3
<1> QED
  BY <1>1, <1>2, <1>3, <1>4, <1>5, <1>6, <1>7, <1>8, <1>9, <1>10 DEF Goes

\* Nothing of the other agents changes.
LEMMA OthersWait ==
  ASSUME Typed, NEW a \in Agents, Step(a)
  PROVE  \A b \in Agents \ {a} : pc'[b] = pc[b] /\ job'[b] = job[b]
BY DEF Step, Moves, Goto, Typed

LEMMA NextIsInTurn ==
  ASSUME Typed, InTurn, [Next]_vars
  PROVE  InTurn'
<1>1. ASSUME NEW a \in Agents, NEW op \in Ops, NEW id \in Entities, Begin(a, op, id)
      PROVE  InTurn'
  <2> DEFINE j == Begun(a, op, id)
  <2>1. j.op = op /\ FirstPhase(op) \notin Resting
    BY <1>1, BeginBegins, NoJobIsJob, FirstPhasesAre DEF Begun, Job, Resting, Changing, Ops, EngineOps
  <2>2. pc' = [pc EXCEPT ![a] = FirstPhase(op)] /\ job' = [job EXCEPT ![a] = j]
    BY <1>1, BeginBegins DEF Moves, Goto
  <2>3. UNCHANGED deployment /\ op \in deployment.does[a] /\ pc[a] = "idle"
        /\ (a \in LockedAgents => ~writer) /\ writer' = (writer \/ a \in LockedAgents)
    BY <1>1 DEF Begin, setting, LockIsFree
  <2> HIDE DEF j
  <2>4. \A b \in Agents : job'[b].op # "query" =>
          job'[b].op \in deployment.does[b] /\ pc'[b] \notin Resting
    BY <2>1, <2>2, <2>3 DEF InTurn, Typed
  <2>5. LockedAgents \subseteq Agents
    BY AgentsAssumption DEF Typed, Deployment, LockedAgents
  <2>6. \A b \in LockedAgents : pc'[b] # "idle" => writer'
    BY <2>2, <2>3, <2>5 DEF InTurn, Typed
  <2>7. \A b, c \in LockedAgents : pc'[b] # "idle" /\ pc'[c] # "idle" => b = c
    BY <2>2, <2>3, <2>5 DEF InTurn, Typed
  <2> QED
    BY <2>3, <2>4, <2>6, <2>7 DEF InTurn, LockedAgents
<1>2. ASSUME NEW a \in Agents, Goes(a)
      PROVE  InTurn'
  <2>1. \A b \in Agents \ {a} : pc'[b] = pc[b] /\ job'[b] = job[b]
    BY <1>2, GoesAreSteps, OthersWait
  <2>2. GoesOn(a) /\ pc[a] # "idle" /\ (pc'[a] = "idle" => End(a))
    BY <1>2, AgentsGoOn
  <2>3. UNCHANGED deployment /\ (writer' = writer \/ End(a))
    BY <1>2, GoesChange
  <2>4. \A b \in Agents : job'[b].op # "query" =>
          job'[b].op \in deployment.does[b] /\ pc'[b] \notin Resting
    BY <2>1, <2>2 DEF InTurn, GoesOn, NoJob
  <2>5. LockedAgents \subseteq Agents
    BY AgentsAssumption DEF Typed, Deployment, LockedAgents
  <2>6. \A b, c \in LockedAgents : pc'[b] # "idle" /\ pc'[c] # "idle" => b = c
    BY <2>1, <2>2, <2>5 DEF InTurn
  <2>7. \A b \in LockedAgents : pc'[b] # "idle" => writer'
    <3>1. CASE writer' = writer
      BY <2>1, <2>2, <2>5, <3>1 DEF InTurn
    <3>2. CASE End(a) /\ a \in LockedAgents
      <4>1. pc'[a] = "idle"
        BY <3>2 DEF End, Goto, Typed
      <4> QED
        BY <2>1, <2>2, <2>5, <3>2, <4>1 DEF InTurn
    <3>3. CASE End(a) /\ a \notin LockedAgents
      <4>1. writer' = writer
        BY <3>3 DEF End, Typed
      <4> QED
        BY <3>1, <4>1
    <3> QED
      BY <2>3, <3>1, <3>2, <3>3
  <2> QED
    BY <2>3, <2>4, <2>6, <2>7 DEF InTurn, LockedAgents
<1>3. ASSUME NEW p \in Processes, Crash(p)
      PROVE  InTurn'
  <2>1. /\ pc' = [b \in Agents |-> IF b \in p THEN "idle" ELSE pc[b]]
        /\ job' = [b \in Agents |-> IF b \in p THEN NoJob ELSE job[b]]
        /\ writer' = (writer /\ LockedAgents \cap p = {}) /\ UNCHANGED deployment
    BY <1>3 DEF Crash, setting
  <2>2. LockedAgents \subseteq Agents /\ \E q \in Processes : LockedAgents \subseteq q
    BY AgentsAssumption DEF Typed, Deployment, LockedAgents
  <2>3. \A b \in Agents : job'[b].op # "query" =>
          job'[b].op \in deployment.does[b] /\ pc'[b] \notin Resting
    BY <2>1 DEF InTurn, NoJob
  <2>4. LockedAgents \cap p = {} \/ LockedAgents \subseteq p
    <3>1. ASSUME NEW b \in LockedAgents \cap p
          PROVE  LockedAgents \subseteq p
      BY <2>2, AgentsAssumption
    <3> QED
      BY <3>1
  <2>5. \A b \in LockedAgents : pc'[b] # "idle" => writer'
    BY <2>1, <2>2, <2>4 DEF InTurn
  <2>6. \A b, c \in LockedAgents : pc'[b] # "idle" /\ pc'[c] # "idle" => b = c
    BY <2>1, <2>2 DEF InTurn
  <2> QED
    BY <2>1, <2>3, <2>5, <2>6 DEF InTurn, LockedAgents
<1>4. ASSUME NEW id \in Entities, NEW entry \in Contents \cup {None}, Change(id, entry)
      PROVE  InTurn'
  BY <1>4 DEF Change, setting, InTurn, LockedAgents
<1>5. CASE UNCHANGED vars
  BY <1>5 DEF vars, setting, InTurn, LockedAgents
<1> QED
  BY <1>1, <1>2, <1>3, <1>4, <1>5, NextIs

LEMMA InitIsInTurn ==
  ASSUME Init
  PROVE  InTurn
<1>1. LockedAgents \subseteq Agents
  BY AgentsAssumption DEF Init, Deployment, LockedAgents
<1> QED
  BY <1>1 DEF Init, InTurn, NoJob

LEMMA AlwaysInTurn == Spec => []InTurn
<1>1. Init => InTurn
  BY InitIsInTurn
<1>2. Typed /\ InTurn /\ [Next]_vars => InTurn'
  BY NextIsInTurn
<1> QED
  BY <1>1, <1>2, AlwaysTyped, PTL DEF Spec

\* Where writers take the lock, or there is but one, one writes at a time.
LEMMA OneWrites ==
  ASSUME Typed, InTurn, Locked,
         NEW a \in Agents, NEW b \in Agents, job[a].op # "query", job[b].op # "query"
  PROVE  a = b
<1>1. a \in Writers /\ b \in Writers
  BY DEF InTurn, Writers
<1>2. pc[a] # "idle" /\ pc[b] # "idle"
  BY DEF InTurn, Resting
<1> QED
  BY <1>1, <1>2 DEF Locked, InTurn

----
(* The files under the lock.                                               *)

\* What the state promises of an index.
Good(index) == (Sound => Agree(index)) /\ (state # "torn" => Tidy(index))

\* A build that has replaced or deleted a file and is not done.
Building(a) == Halfway(a) /\ job[a].op \in {"build", "rebuild"}

Holds(a, f) == job[a].index[f] = Data(f)

Wrote(f, part) == files[f] # None /\ files[f].data = part

\* What a call that writes holds, and what of it is on disk, place by place.
Doing(a) ==
  /\ pc[a] = "read" => \A i \in 1 .. 5 : i < job[a].next => Holds(a, FileNames[i])
  /\ pc[a] = "change" => \A f \in Files : Holds(a, f)
  /\ pc[a] \in {"delete", "list"} => InStep(job[a].index)
  /\ pc[a] = "write" =>
       /\ \A i \in 1 .. 5 : i < job[a].next => Wrote(Names(a)[i], job[a].index[Names(a)[i]])
       /\ Good(job[a].index)
       /\ job[a].op \in {"build", "rebuild"} => Agree(job[a].index)
       /\ job[a].op = "optimize" => Tidy(job[a].index) /\ Holds(a, "entities")
       /\ job[a].op \in Changing =>
            \A f \in Files \ {"statistics"}, e \in Entities \ {job[a].id} :
              job[a].index[f][e] = Data(f)[e]
  /\ pc[a] = "commit" => (job[a].known <=> Data("entities")[job[a].id] # None)
  /\ pc[a] = "copy" =>
       \A i \in 1 .. 5 : i < job[a].next => Wrote(ConvertedNames[i], legacy[ConvertedNames[i]])

Order ==
  /\ Quiet => Good(OnDisk)
  /\ state = "built" => (\E a \in Agents : Building(a)) \/ \A f \in Files : files[f] # None
  /\ \A a \in Agents : job[a].op # "query" => Doing(a)

LEMMA DoingStays ==
  ASSUME NEW b \in Agents, UNCHANGED <<files, legacy>>, state' \in {state, "torn"},
         pc'[b] = pc[b], job'[b] = job[b], Doing(b)
  PROVE  Doing(b)'
<1>1. \A i : Good(i) => Good(i)'
  BY DEF Good, Sound, Agree, Tidy, InStep, Counted
<1>2. (\A f : Data(f)' = Data(f)) /\ Names(b)' = Names(b)
  BY DEF Data, Names
<1>3. CASE pc[b] = "write"
  BY <1>1, <1>2, <1>3 DEF Doing, Holds, Wrote, Agree, Tidy, InStep, Counted
<1>4. CASE pc[b] # "write"
  BY <1>2, <1>4 DEF Doing, Holds, Wrote, InStep
<1> QED
  BY <1>3, <1>4

LEMMA Undisturbed ==
  ASSUME Order, UNCHANGED files,
         \/ state' = "torn"
         \/ /\ state' = state
            /\ \A b \in Agents : (Halfway(b) => Halfway(b)') /\ (Building(b) => Building(b)'),
         \A b \in Agents : job'[b].op # "query" => Doing(b)'
  PROVE  Order'
<1>1. OnDisk' = OnDisk
  BY DEF OnDisk, Data
<1>2. CASE state' = "torn"
  BY <1>2 DEF Order, Good, Sound
<1>3. CASE /\ state' = state
           /\ \A b \in Agents : (Halfway(b) => Halfway(b)') /\ (Building(b) => Building(b)')
  <2>1. Quiet' => Good(OnDisk)'
    BY <1>1, <1>3 DEF Order, Quiet, Good, Sound, Agree, Tidy, InStep, Counted
  <2>2. state' = "built" => (\E b \in Agents : Building(b)') \/ \A f \in Files : files'[f] # None
    BY <1>3 DEF Order
  <2> QED
    BY <2>1, <2>2 DEF Order
<1> QED
  BY <1>2, <1>3

\* A step of a call that changes no file, and tears the index if it was half-way
\* and is given up.
Quietly(a) ==
  /\ UNCHANGED files
  /\ \/ state' = "torn"
     \/ state' = state /\ (Halfway(a) => Halfway(a)') /\ (Building(a) => Building(a)')
  /\ job'[a].op # "query" => Doing(a)'

LEMMA QuietlyInOrder ==
  ASSUME Typed, Order, NEW a \in Agents, Quietly(a), UNCHANGED legacy,
         \A b \in Agents \ {a} : pc'[b] = pc[b] /\ job'[b] = job[b],
         state' \in {state, "torn"}
  PROVE  Order'
<1>1. \A b \in Agents \ {a} : (Halfway(b)' <=> Halfway(b)) /\ (Building(b)' <=> Building(b))
  BY DEF Halfway, Building
<1>2. \A b \in Agents \ {a} : job'[b].op # "query" => Doing(b)'
  BY DoingStays DEF Order, Quietly
<1>3. \A b \in Agents : job'[b].op # "query" => Doing(b)'
  BY <1>2 DEF Quietly
<1> QED
  BY <1>1, <1>3, Undisturbed DEF Quietly

LEMMA QueriesOnlyRead ==
  ASSUME Typed, NEW a \in Agents, Goes(a), job[a].op = "query"
  PROVE  UNCHANGED <<files, state>> /\ ~Halfway(a) /\ job'[a].op = "query"
<1>1. Fits(pc[a], job[a])
  BY DEF Typed
<1>2. ~Halfway(a) /\ pc[a] \notin {"write", "delete", "copy", "commit"}
  BY <1>1 DEF Halfway, Fits, Changing, EngineOps
<1>3. UNCHANGED files
  BY <1>2, GoesChange DEF Delete, Write, Commit, Copy
<1>4. UNCHANGED state
  BY <1>2 DEF Goes, End, Invalidate, Read, ApplyUpdate, ApplyRemove, ApplyOptimize, Delete, List,
              Load, Count, NotFound, Write, LoadEntity, Select, Commit, Look, Copy, Stat, Hit,
              Miss, Keep, Answer, Fail, ghosts
<1>5. job'[a].op = "query"
  BY AgentsGoOn DEF GoesOn, NoJob
<1> QED
  BY <1>2, <1>3, <1>4, <1>5

\* The files, each by its number.
LEMMA EveryFileHasANumber ==
  ASSUME NEW f \in Files
  PROVE  /\ \E i \in 1 .. 5 : f = FileNames[i]
         /\ \E i \in 1 .. 5 : f = ConvertedNames[i]
         /\ f # "entities" => \E i \in 1 .. 4 : f = OptimizedNames[i]
<1>1. \E i \in 1 .. 5 : f = FileNames[i]
  BY DEF Files
<1>2. /\ ConvertedNames[1] = "entities" /\ ConvertedNames[2] = "keyword"
      /\ ConvertedNames[3] = "relations" /\ ConvertedNames[4] = "statistics"
      /\ ConvertedNames[5] = "tags" /\ OptimizedNames[1] = "keyword"
      /\ OptimizedNames[2] = "tags" /\ OptimizedNames[3] = "relations"
      /\ OptimizedNames[4] = "statistics"
  BY DEF ConvertedNames, OptimizedNames
<1> QED
  BY <1>1, <1>2, FileNamesAre

LEMMA InvalidatesQuietly ==
  ASSUME Typed, InTurn, NEW a \in Agents, Invalidate(a), job[a].op # "query"
  PROVE  Quietly(a)
<1>1. pc[a] = "invalidate_first" /\ job[a].next = 1 /\ job' = job /\ UNCHANGED <<files, state>>
  BY DEF Invalidate, InTurn, Resting, Typed, Fits, ghosts
<1>2. pc'[a] \in {"read", "load", "select"}
  BY <1>1 DEF Invalidate, Goto, Typed
<1>3. Doing(a)'
  BY <1>1, <1>2 DEF Doing
<1> QED
  BY <1>1, <1>3 DEF Quietly, Halfway, Building

LEMMA ReadsQuietly ==
  ASSUME Typed, NEW a \in Agents, Doing(a), Read(a), job[a].op # "query"
  PROVE  Quietly(a)
<1> DEFINE f == FileNames[job[a].next]
           j == [job[a] EXCEPT !.index[f] = Data(f)]
<1>0. job[a] \in Job /\ job[a].next \in 1 .. 5 /\ job[a].index \in Index /\ f \in Files
  BY FileNamesAre DEF Typed, Job
<1>1. /\ pc[a] = "read" /\ Proceed(a, j, FileNames, "change")
      /\ UNCHANGED <<files, state>> /\ Len(FileNames) = 5 /\ job \in [Agents -> Job]
      /\ pc \in [Agents -> Phases]
  BY FileNamesAre DEF Read, ghosts, Typed
<1>2. j.index = [job[a].index EXCEPT ![f] = Data(f)] /\ j.next = job[a].next
  BY <1>0 DEF Job
<1>3. \A g \in Files : j.index[g] = IF g = f THEN Data(f) ELSE job[a].index[g]
  BY <1>0, <1>2 DEF Index
<1>4. \A i \in 1 .. 5 : i < job[a].next + 1 => j.index[FileNames[i]] = Data(FileNames[i])
  BY <1>0, <1>1, <1>3, FileNamesAre DEF Doing, Holds
<1>5. \A g : Data(g)' = Data(g)
  BY <1>1 DEF Data
<1>6. CASE job[a].next < 5
  <2>1. pc'[a] = "read" /\ job'[a] = [j EXCEPT !.next = @ + 1]
    BY <1>1, <1>2, <1>6 DEF Proceed
  <2>2. job'[a].next = job[a].next + 1 /\ job'[a].index = j.index
    BY <1>0, <1>2, <2>1 DEF Job
  <2>3. Doing(a)'
    BY <1>4, <1>5, <2>1, <2>2 DEF Doing, Holds
  <2> QED
    BY <1>1, <2>3 DEF Quietly, Halfway, Building
<1>7. CASE job[a].next = 5
  <2>1. pc'[a] = "change" /\ job'[a] = [j EXCEPT !.next = 1]
    BY <1>1, <1>2, <1>7 DEF Proceed, Goto
  <2>2. job'[a].index = j.index
    BY <1>0, <2>1 DEF Job
  <2>3. \A g \in Files : j.index[g] = Data(g)
    BY <1>4, <1>7, EveryFileHasANumber
  <2>4. Doing(a)'
    BY <1>5, <2>1, <2>2, <2>3 DEF Doing, Holds
  <2> QED
    BY <1>1, <2>4 DEF Quietly, Halfway, Building
<1> QED
  BY <1>0, <1>6, <1>7

\* Nobody is half-way while the one that writes is not.
LEMMA QuietIs ==
  ASSUME Typed, InTurn, Locked, NEW a \in Agents, job[a].op # "query", ~Halfway(a)
  PROVE  Quiet
<1>1. ASSUME NEW b \in Agents, Halfway(b)
      PROVE  FALSE
  <2>1. job[b].op # "query"
    BY <1>1 DEF Halfway, Typed, Fits, EngineOps
  <2> QED
    BY <1>1, <2>1, OneWrites
<1> QED
  BY <1>1 DEF Quiet

\* What is read before a change is what the disk promises.
LEMMA ReadIsGood ==
  ASSUME Typed, InTurn, Locked, Order, NEW a \in Agents, job[a].op # "query", pc[a] = "change"
  PROVE  /\ job[a].index \in Index /\ \A f \in Files : job[a].index[f] = Data(f)
         /\ (Sound => Agree(job[a].index)) /\ (state # "torn" => Tidy(job[a].index))
<1>1. Quiet /\ Good(OnDisk)
  BY QuietIs DEF Halfway, Order
<1>2. \A f \in Files : job[a].index[f] = OnDisk[f]
  BY DEF Order, Doing, Holds, OnDisk
<1>3. job[a].index \in Index
  BY DEF Typed, Job
<1> QED
  BY <1>1, <1>2, <1>3, SameParts DEF Good, OnDisk

\* What a call has to have to begin to write.
LEMMA BeginsToWrite ==
  ASSUME NEW a \in Agents, NEW i, pc'[a] = "write", job'[a].index = i, job'[a].next = 1,
         Sound' => Agree(i), state' # "torn" => Tidy(i),
         job'[a].op \in {"build", "rebuild"} => Agree(i),
         job'[a].op = "optimize" => Tidy(i) /\ i["entities"] = Data("entities")',
         job'[a].op \in Changing =>
           \A f \in Files \ {"statistics"}, e \in Entities \ {job'[a].id} : i[f][e] = Data(f)'[e]
  PROVE  Doing(a)'
<1>1. \A n \in 1 .. 5 : ~(n < job'[a].next)
  OBVIOUS
<1>2. Agree(job'[a].index) <=> Agree(i)
  OBVIOUS
<1>3. Tidy(job'[a].index) <=> Tidy(i)
  OBVIOUS
<1> QED
  BY <1>1, <1>2, <1>3 DEF Doing, Good, Holds

LEMMA ChangesQuietly ==
  ASSUME Typed, InTurn, Locked, Order, NEW a \in Agents,
         ApplyUpdate(a) \/ ApplyRemove(a) \/ ApplyOptimize(a)
  PROVE  Quietly(a)
<1>0. /\ job \in [Agents -> Job] /\ pc \in [Agents -> Phases] /\ job[a] \in Job
      /\ job[a].next = 1 /\ job[a].op \in EngineOps \ {"query"} /\ pc[a] = "change"
  BY DEF Typed, Fits, ApplyUpdate, ApplyRemove, ApplyOptimize
<1>1. /\ job[a].index \in Index /\ \A f \in Files : job[a].index[f] = Data(f)
      /\ (Sound => Agree(job[a].index)) /\ (state # "torn" => Tidy(job[a].index))
  BY <1>0, ReadIsGood
<1>2. UNCHANGED <<files, state>> /\ pc'[a] = "write"
  BY <1>0 DEF ApplyUpdate, ApplyRemove, ApplyOptimize, Goto, ghosts
<1>3. ~Halfway(a)
  BY <1>0 DEF Halfway
<1>4. Sound' = Sound /\ \A f : Data(f)' = Data(f)
  BY <1>2 DEF Sound, Data
<1>5. CASE ApplyUpdate(a) \/ ApplyRemove(a)
  <2>0. PICK id \in Entities : id = job[a].id
    BY <1>0 DEF Job
  <2>1. PICK entry \in Document :
          job' = [job EXCEPT ![a].index = Settled(job[a].index, id, entry)]
    <3>1. CASE ApplyUpdate(a)
      <4>1. PICK doc \in Document : doc = repo[id] /\ doc # None
        BY <2>0, <3>1 DEF ApplyUpdate, Typed, Entries, Document
      <4>2. job' = [job EXCEPT ![a].index =
                      IF job[a].index["entities"][id] # None THEN WithEntry(job[a].index, id, doc)
                      ELSE [WithEntry(job[a].index, id, doc) EXCEPT
                              !["statistics"] = Increment(@, TypeOf(id), TRUE)]]
        BY <2>0, <3>1, <4>1 DEF ApplyUpdate
      <4>3. (doc # None) = TRUE
        BY <4>1
      <4> QED
        BY <4>1, <4>2, <4>3 DEF Settled
    <3>2. CASE ApplyRemove(a)
      <4>1. job' = [job EXCEPT ![a].index =
                      IF job[a].index["entities"][id] = None THEN WithEntry(job[a].index, id, None)
                      ELSE [WithEntry(job[a].index, id, None) EXCEPT
                              !["statistics"] = Increment(@, TypeOf(id), FALSE)]]
        BY <2>0, <3>2 DEF ApplyRemove
      <4>2. (None # None) = FALSE /\ None \in Document
        BY DEF Document
      <4> QED
        BY <4>1, <4>2 DEF Settled
    <3> QED
      BY <1>5, <3>1, <3>2
  <2>7. PICK i : i = Settled(job[a].index, id, entry)
    OBVIOUS
  <2>2. /\ (Sound => Agree(i)) /\ (state # "torn" => Tidy(i))
        /\ \A f \in Files \ {"statistics"}, e \in Entities \ {id} : i[f][e] = job[a].index[f][e]
    BY <1>1, <2>7, SettledKeeps, SettledRows
  <2>3. job'[a].index = i /\ job'[a].id = id /\ job'[a].next = 1 /\ job'[a].op \in Changing
    <3>1. job[a].op \in Changing
      BY <1>5 DEF ApplyUpdate, ApplyRemove, Changing
    <3> QED
      BY <1>0, <2>0, <2>1, <2>7, <3>1 DEF Job
  <2>4. job'[a].op \notin {"build", "rebuild", "optimize"}
    BY <2>3 DEF Changing
  <2>5. Doing(a)'
    BY <1>1, <1>2, <1>4, <2>2, <2>3, <2>4, BeginsToWrite
  <2> QED
    BY <1>2, <1>3, <2>5 DEF Quietly, Building
<1>6. CASE ApplyOptimize(a)
  <2>1. job' = [job EXCEPT ![a].index = Optimized(job[a].index)] /\ job[a].op = "optimize"
    BY <1>6 DEF ApplyOptimize, Optimized
  <2>7. PICK i : i = Optimized(job[a].index)
    OBVIOUS
  <2>2. Tidy(i) /\ (Sound => Agree(i)) /\ i["entities"] = job[a].index["entities"]
    BY <1>1, <2>7, OptimizedIsTidy, OptimizedParts
  <2>3. job'[a].index = i /\ job'[a].next = 1 /\ job'[a].op = "optimize"
    BY <1>0, <2>1, <2>7 DEF Job
  <2>4. i["entities"] = Data("entities")'
    BY <1>1, <1>4, <2>2, FileNamesAre
  <2>5. job'[a].op \notin Changing \cup {"build", "rebuild"}
    BY <2>3 DEF Changing
  <2>6. Doing(a)'
    BY <1>2, <1>4, <2>2, <2>3, <2>4, <2>5, BeginsToWrite
  <2> QED
    BY <1>2, <1>3, <2>6 DEF Quietly, Building
<1> QED
  BY <1>5, <1>6

LEMMA BuildsQuietly ==
  ASSUME Typed, Order, NEW a \in Agents, List(a) \/ Load(a) \/ Count(a)
  PROVE  Quietly(a)
<1>0. /\ job \in [Agents -> Job] /\ pc \in [Agents -> Phases] /\ job[a] \in Job
      /\ job[a].op \in {"build", "rebuild"} /\ pc[a] = "list" /\ InStep(job[a].index)
      /\ job[a].index \in Index
  BY DEF Typed, Fits, List, Load, Count, Order, Doing, Job
<1>1. UNCHANGED <<files, state>>
  BY DEF List, Load, Count, ghosts
<1>2. CASE List(a)
  <2>1. pc'[a] = "list" /\ job'[a].op = job[a].op /\ job'[a].index = job[a].index
        /\ job'[a].touched = job[a].touched
    BY <1>0, <1>2 DEF List, Job
  <2>2. Doing(a)'
    BY <1>0, <2>1 DEF Doing, InStep
  <2> QED
    BY <1>0, <1>1, <2>1, <2>2 DEF Quietly, Halfway, Building
<1>3. CASE Load(a)
  <2>1. PICK id \in Entities :
          /\ repo[id] # None
          /\ job' = [job EXCEPT ![a].todo = @ \ {id}, ![a].index = WithEntry(@, id, repo[id])]
    BY <1>0, <1>3 DEF Load, Job
  <2>2. PICK doc \in Document : doc = repo[id]
    BY DEF Typed, Entries, Document
  <2> DEFINE i == WithEntry(job[a].index, id, doc)
  <2>3. InStep(i)
    BY <1>0, LoadedKeepsInStep
  <2>4. pc'[a] = "list" /\ job'[a].op = job[a].op /\ job'[a].index = i
        /\ job'[a].touched = job[a].touched
    BY <1>0, <1>3, <2>1, <2>2 DEF Load, Job
  <2> HIDE DEF i
  <2>5. Doing(a)'
    BY <2>3, <2>4 DEF Doing, InStep
  <2> QED
    BY <1>0, <1>1, <2>4, <2>5 DEF Quietly, Halfway, Building
<1>4. CASE Count(a)
  <2> DEFINE counts == Counts(job[a].index["entities"])
             s == [counts EXCEPT !["project"] = @ + ProjectCount - 1]
  <2>10. PICK i : i = [job[a].index EXCEPT !["statistics"] = s]
    OBVIOUS
  <2>1. job' = [job EXCEPT ![a].index["statistics"] = s, ![a].next = 1]
    BY <1>4 DEF Count
  <2>2. job'[a].index = i /\ job'[a].op = job[a].op /\ job'[a].touched = job[a].touched
        /\ job'[a].next = 1
    BY <1>0, <2>1, <2>10 DEF Job
  <2>3. PICK n \in Nat : n = counts["project"] + ProjectCount - 1
    BY CountsAreNumbers, CountAssumption DEF Types
  <2>4. s = [counts EXCEPT !["project"] = n]
    BY <2>3
  <2>5. Agree(i)
    BY <1>0, <2>4, <2>10, CountedAgrees
  <2>6. Tidy(i)
    BY <2>5, AgreeIsTidy
  <2>7. pc'[a] = "write"
    BY <1>0, <1>4 DEF Count, Goto
  <2>8. job'[a].op \notin Changing \cup {"optimize"}
    BY <1>0, <2>2 DEF Changing
  <2>9. Doing(a)'
    BY <2>2, <2>5, <2>6, <2>7, <2>8, BeginsToWrite
  <2> QED
    BY <1>0, <1>1, <2>2, <2>7, <2>9 DEF Quietly, Halfway, Building
<1> QED
  BY <1>2, <1>3, <1>4

LEMMA LooksQuietly ==
  ASSUME Typed, InTurn, NEW a \in Agents,
         LoadEntity(a) \/ Select(a) \/ Look(a) \/ NotFound(a) \/ Fail(a)
  PROVE  Quietly(a)
<1>0. /\ job \in [Agents -> Job] /\ pc \in [Agents -> Phases] /\ job[a] \in Job
      /\ Fits(pc[a], job[a]) /\ NoJob.op = "query"
  BY DEF Typed, NoJob
<1>1. CASE LoadEntity(a)
  <2>1. UNCHANGED <<files, state>> /\ pc[a] = "load" /\ pc'[a] = "select"
    BY <1>0, <1>1 DEF LoadEntity, ghosts, Goto
  <2> QED
    BY <2>1 DEF Quietly, Halfway, Building, Doing
<1>2. CASE Select(a)
  <2>1. UNCHANGED <<files, state>> /\ pc[a] = "select" /\ pc'[a] = "commit"
    BY <1>0, <1>2 DEF Select, ghosts, Goto
  <2>2. /\ job'[a].known = (Data("entities")[job[a].id] # None)
        /\ job'[a].id = job[a].id /\ Data("entities")' = Data("entities")
    BY <1>0, <1>2, <2>1 DEF Select, Job, Data
  <2>3. Doing(a)'
    BY <2>1, <2>2 DEF Doing
  <2> QED
    BY <2>1, <2>3 DEF Quietly, Halfway, Building
<1>3. CASE Look(a)
  <2>1. UNCHANGED <<files, state>> /\ pc[a] = "look" /\ job[a].next = 1
    BY <1>0, <1>3 DEF Look, ghosts, Fits
  <2>2. CASE Finish(a, "end")
    BY <1>0, <2>1, <2>2, FinishGoesOn DEF Quietly, Halfway, Building
  <2>3. CASE Goto(a, "copy") /\ UNCHANGED job
    <3>1. pc'[a] = "copy" /\ job'[a].next = 1
      BY <1>0, <2>1, <2>3 DEF Goto
    <3>2. Doing(a)'
      BY <3>1 DEF Doing
    <3> QED
      BY <2>1, <3>2 DEF Quietly, Halfway, Building
  <2> QED
    BY <1>3, <2>2, <2>3 DEF Look
<1>4. CASE NotFound(a) \/ Fail(a)
  <2>1. UNCHANGED files /\ Finish(a, "end") /\ state' = IF Halfway(a) THEN "torn" ELSE state
    BY <1>4 DEF NotFound, Fail
  <2>2. job'[a].op = "query"
    BY <1>0, <2>1, FinishGoesOn
  <2> QED
    BY <2>1, <2>2 DEF Quietly, Building
<1> QED
  BY <1>1, <1>2, <1>3, <1>4

\* With one that writes, the order is a matter of this one.
LEMMA OrderIsItsOwn ==
  ASSUME NEW a \in Agents, \A b \in Agents \ {a} : job'[b].op = "query",
         Halfway(a)' \/ Good(OnDisk)',
         state' = "built" => Building(a)' \/ \A f \in Files : files'[f] # None,
         job'[a].op # "query" => Doing(a)'
  PROVE  Order'
<1>1. Quiet' => Good(OnDisk)'
  BY DEF Quiet
<1>2. state' = "built" => (\E b \in Agents : Building(b)') \/ \A f \in Files : files'[f] # None
  OBVIOUS
<1>3. \A b \in Agents : job'[b].op # "query" => Doing(b)'
  OBVIOUS
<1> QED
  BY <1>1, <1>2, <1>3 DEF Order

LEMMA OthersQuery ==
  ASSUME Typed, InTurn, Locked, NEW a \in Agents, Goes(a), job[a].op # "query"
  PROVE  /\ \A b \in Agents \ {a} : job[b].op = "query" /\ job'[b].op = "query"
         /\ \A b \in Agents : Building(b) => b = a
<1>1. \A b \in Agents \ {a} : job[b].op = "query"
  BY OneWrites
<1>2. \A b \in Agents \ {a} : job'[b] = job[b]
  BY GoesAreSteps, OthersWait
<1> QED
  BY <1>1, <1>2 DEF Building

LEMMA DeletesInOrder ==
  ASSUME Typed, InTurn, Locked, Order, NEW a \in Agents, Delete(a), Goes(a)
  PROVE  Order'
<1>0. /\ job \in [Agents -> Job] /\ pc \in [Agents -> Phases] /\ job[a] \in Job
      /\ job[a].op \in {"build", "rebuild"} /\ pc[a] = "delete" /\ InStep(job[a].index)
  BY DEF Typed, Fits, Delete, Order, Doing
<1>1. pc'[a] \in {"delete", "list"} /\ job'[a].op = job[a].op /\ job'[a].touched = TRUE
      /\ job'[a].index = job[a].index
  <2> DEFINE j == [job[a] EXCEPT !.touched = TRUE]
  <2>1. j \in Job /\ j.op = job[a].op /\ j.touched = TRUE /\ j.index = job[a].index
    BY <1>0 DEF Job
  <2> HIDE DEF j
  <2>2. Proceed(a, j, FileNames, "list")
    BY DEF Delete, j
  <2>3. CASE j.next < Len(FileNames)
    <3>1. pc'[a] = "delete" /\ job'[a] = [j EXCEPT !.next = @ + 1]
      BY <1>0, <2>2, <2>3 DEF Proceed
    <3> QED
      BY <2>1, <3>1 DEF Job
  <2>4. CASE ~(j.next < Len(FileNames))
    <3>1. pc'[a] = "list" /\ job'[a] = [j EXCEPT !.next = 1]
      BY <1>0, <2>2, <2>4 DEF Proceed, Goto
    <3> QED
      BY <2>1, <3>1 DEF Job
  <2> QED
    BY <2>3, <2>4
<1>2. Doing(a)'
  BY <1>0, <1>1 DEF Doing, InStep
<1>3. Halfway(a)' /\ Building(a)'
  BY <1>0, <1>1 DEF Halfway, Building
<1> QED
  BY <1>0, <1>2, <1>3, OthersQuery, OrderIsItsOwn

LEMMA WritesInOrder ==
  ASSUME Typed, InTurn, Locked, Order, NEW a \in Agents, Write(a), Goes(a)
  PROVE  Order'
<1> PICK k \in Index : k = job[a].index
  BY DEF Typed, Job
<1> PICK names : names = Names(a)
  OBVIOUS
<1> PICK n, number : n = job[a].next /\ number = job[a].number
  OBVIOUS
<1> PICK f : f = names[n]
  OBVIOUS
<1> PICK d : d = k[f]
  OBVIOUS
<1>0. /\ job \in [Agents -> Job] /\ pc \in [Agents -> Phases] /\ job[a] \in Job
      /\ job[a].op \in EngineOps \ {"query"} /\ pc[a] = "write" /\ job[a].next \in 1 .. 5
      /\ names = IF job[a].op = "optimize" THEN OptimizedNames ELSE FileNames
  BY DEF Typed, Fits, Write, Job, Names
<1>1. n \in 1 .. Len(names) /\ Len(names) \in {4, 5}
      /\ \A i \in 1 .. Len(names) : names[i] \in Files
  <2>1. CASE job[a].op = "optimize"
    <3>1. names = OptimizedNames /\ n \in 1 .. 4
      BY <1>0, <2>1 DEF Typed, Fits
    <3> QED
      BY <3>1, FileNamesAre
  <2>2. CASE job[a].op # "optimize"
    <3>1. names = FileNames /\ n \in 1 .. 5
      BY <1>0, <2>2
    <3> QED
      BY <3>1, FileNamesAre
  <2> QED
    BY <2>1, <2>2
<1>2. f \in Files /\ files' = [files EXCEPT ![f] = [stamp |-> number, data |-> d]]
  BY <1>1 DEF Write
<1>3. /\ files'[f] # None /\ files'[f].data = d /\ Data(f)' = d
      /\ \A g \in Files \ {f} : files'[g] = files[g] /\ Data(g)' = Data(g)
  <2>1. files'[f] = [stamp |-> number, data |-> d] /\ \A g \in Files \ {f} : files'[g] = files[g]
    BY <1>2 DEF Typed
  <2>2. files'[f] # None /\ files'[f].data = d
    BY <2>1, FileIsThere
  <2> QED
    BY <2>1, <2>2 DEF Data
<1>4. /\ \A i \in 1 .. 5 : i < n => Wrote(names[i], k[names[i]])
      /\ (Sound => Agree(k)) /\ (state # "torn" => Tidy(k))
      /\ job[a].op \in {"build", "rebuild"} => Agree(k)
      /\ job[a].op = "optimize" => Tidy(k) /\ k["entities"] = Data("entities")
      /\ job[a].op \in Changing =>
           \A g \in Files \ {"statistics"}, e \in Entities \ {job[a].id} : k[g][e] = Data(g)[e]
  BY <1>0 DEF Order, Doing, Good, Holds
<1>5. \A i \in 1 .. Len(names) :
        i < n + 1 => Wrote(names[i], k[names[i]])'
  <2>1. ASSUME NEW i \in 1 .. Len(names), i < n
        PROVE  Wrote(names[i], k[names[i]])'
    <3>1. Wrote(names[i], k[names[i]])
      BY <1>1, <1>4, <2>1
    <3>2. PICK g \in Files : g = names[i]
      BY <1>1
    <3>3. CASE g = f
      BY <1>3, <3>2, <3>3 DEF Wrote
    <3>4. CASE g # f
      BY <1>3, <3>1, <3>2, <3>4 DEF Wrote
    <3> QED
      BY <3>3, <3>4
  <2>2. Wrote(names[n], k[names[n]])'
    BY <1>3 DEF Wrote
  <2>3. \A i \in 1 .. Len(names) : i < n + 1 => i < n \/ i = n
    BY <1>1
  <2> QED
    BY <2>1, <2>2, <2>3
<1>6. state = "built" /\ job[a].op \notin {"build", "rebuild"} => \A g \in Files : files'[g] # None
  <2>1. ASSUME state = "built", job[a].op \notin {"build", "rebuild"}
        PROVE  \A g \in Files : files[g] # None
    BY <1>0, <2>1, OthersQuery DEF Order, Building
  <2> QED
    BY <1>3, <2>1 DEF Wrote
<1> DEFINE j == [job[a] EXCEPT !.touched = TRUE]
<1>7. j \in Job /\ j.op = job[a].op /\ j.touched = TRUE /\ j.index = k /\ j.id = job[a].id
      /\ j.next = n
  BY <1>0 DEF Job
<1> HIDE DEF j
<1>8. PICK phase \in {"invalidate_last", "end"} : Proceed(a, j, names, phase)
  BY DEF Write, j
<1>9. state' = IF n = Len(names) THEN Repaired(job[a].op) ELSE state
  BY DEF Write
<1>10. CASE n < Len(names)
  <2>1. pc'[a] = "write" /\ job'[a] = [j EXCEPT !.next = @ + 1]
    BY <1>0, <1>7, <1>8, <1>10 DEF Proceed
  <2>2. /\ job'[a].op = job[a].op /\ job'[a].touched = TRUE /\ job'[a].index = k
        /\ job'[a].id = job[a].id /\ job'[a].next = n + 1
    BY <1>0, <1>7, <2>1 DEF Job
  <2>3. Names(a)' = names /\ state' = state
    BY <1>0, <1>1, <1>9, <1>10, <2>2 DEF Names
  <2>4. \A i \in 1 .. 5 : i < job'[a].next => Wrote(names[i], k[names[i]])'
    BY <1>0, <1>1, <1>5, <1>10, <2>2
  <2>5. k["entities"] = Data("entities") => k["entities"] = Data("entities")'
    BY <1>3, FileNamesAre
  <2>6. job[a].op \in Changing =>
          \A g \in Files \ {"statistics"}, e \in Entities \ {job[a].id} : k[g][e] = Data(g)'[e]
    BY <1>3, <1>4
  <2>7. Doing(a)'
    <3>1. \A i \in 1 .. 5 : i < job'[a].next => Wrote(names[i], k[names[i]])'
      BY <2>2, <2>3, <2>4
    <3>2. (Sound' => Agree(k)) /\ (state' # "torn" => Tidy(k))
      BY <1>4, <2>3 DEF Sound
    <3>3. Good(job[a].index)'
      BY <2>2, <3>2 DEF Good
    <3>4. job'[a].op \in {"build", "rebuild"} => Agree(job'[a].index)
      BY <1>4, <2>2
    <3>5. job'[a].op = "optimize" => Tidy(job'[a].index) /\ Holds(a, "entities")'
      BY <1>4, <2>2, <2>5 DEF Holds
    <3>6. job'[a].op \in Changing =>
            \A g \in Files \ {"statistics"}, e \in Entities \ {job'[a].id} :
              job'[a].index[g][e] = Data(g)'[e]
      BY <2>2, <2>6
    <3>7. \A i \in 1 .. 5 : i < job'[a].next => Wrote(Names(a)[i], job[a].index[Names(a)[i]])'
      BY <2>2, <2>3, <3>1 DEF Wrote
    <3> QED
      BY <2>1, <3>7, <3>3, <3>4, <3>5, <3>6 DEF Doing
  <2>8. Halfway(a)' /\ (job[a].op \in {"build", "rebuild"} => Building(a)')
    BY <2>1, <2>2 DEF Halfway, Building
  <2>9. state' = "built" => Building(a)' \/ \A g \in Files : files'[g] # None
    BY <1>6, <2>3, <2>8
  <2> QED
    BY <1>0, <2>7, <2>8, <2>9, OthersQuery, OrderIsItsOwn
<1>11. CASE n = Len(names)
  <2>1. Finish(a, phase)
    BY <1>0, <1>1, <1>7, <1>8, <1>11 DEF Proceed
  <2>2. job'[a].op = "query"
    BY <2>1, FinishGoesOn DEF NoJob
  <2>3. \A i \in 1 .. Len(names) : Wrote(names[i], k[names[i]])'
    BY <1>0, <1>1, <1>5, <1>11
  <2>4. ASSUME NEW g \in Files, job[a].op # "optimize"
        PROVE  Wrote(g, k[g])'
    <3>1. names = FileNames /\ Len(names) = 5
      BY <1>0, <2>4, FileNamesAre
    <3>2. PICK i \in 1 .. 5 : g = FileNames[i]
      BY EveryFileHasANumber
    <3> QED
      BY <2>3, <3>1, <3>2
  <2>5. ASSUME NEW g \in Files, job[a].op = "optimize", g # "entities"
        PROVE  Wrote(g, k[g])'
    <3>1. names = OptimizedNames /\ Len(names) = 4
      BY <1>0, <2>5, FileNamesAre
    <3>2. PICK i \in 1 .. 4 : g = OptimizedNames[i]
      BY <2>5, EveryFileHasANumber
    <3> QED
      BY <2>3, <3>1, <3>2
  <2>6. \A g \in Files : OnDisk'[g] = k[g]
    <3>1. \A g \in Files : Data(g)' = k[g]
      BY <1>3, <1>4, <2>4, <2>5 DEF Wrote, Data
    <3> QED
      BY <3>1 DEF OnDisk
  <2>7. (Sound' => Agree(k)) /\ (state' # "torn" => Tidy(k))
    BY <1>4, <1>9, <1>11, AgreeIsTidy DEF Sound, Repaired
  <2>8. Good(OnDisk)'
    <3> PICK e : e = OnDisk'
      OBVIOUS
    <3>1. (Agree(k) <=> Agree(e)) /\ (Tidy(k) <=> Tidy(e))
      BY <2>6, SameParts
    <3> QED
      BY <2>7, <3>1 DEF Good
  <2>9. state' = "built" => \A g \in Files : files'[g] # None
    <3>1. CASE job[a].op \in {"build", "rebuild"}
      BY <2>4, <3>1 DEF Wrote
    <3>2. CASE job[a].op \notin {"build", "rebuild"}
      BY <1>6, <1>9, <1>11, <3>2 DEF Repaired
    <3> QED
      BY <3>1, <3>2
  <2> QED
    BY <1>0, <2>2, <2>8, <2>9, OthersQuery, OrderIsItsOwn
<1> QED
  BY <1>1, <1>10, <1>11

\* The transaction replaces the rows of an entity in the tables as they are.
LEMMA CommitsInOrder ==
  ASSUME Typed, InTurn, Locked, Order, NEW a \in Agents, Commit(a), Goes(a)
  PROVE  Order'
<1>0. /\ job[a] \in Job /\ job[a].op \in Changing /\ pc[a] = "commit" /\ Doing(a)
  BY DEF Typed, Fits, Commit, Order, Changing
<1>1. Quiet /\ Good(OnDisk)
  BY <1>0, QuietIs DEF Halfway, Order, Changing
<1> PICK j \in Job : j = job[a]
  BY <1>0
<1> PICK i : i = OnDisk
  OBVIOUS
<1>2. i \in Index /\ j.id \in Entities /\ j.doc \in Document
  BY DataIsData DEF Job, OnDisk
<1> PICK k : k = Settled(i, j.id, j.doc)
  OBVIOUS
<1>3. (Sound => Agree(k)) /\ (state # "torn" => Tidy(k))
  BY <1>1, <1>2, SettledKeeps DEF Good
<1>4. Replaced(j) = k
  <2>1. j.known <=> i["entities"][j.id] # None
    BY <1>0, FileNamesAre DEF Doing, OnDisk
  <2>2. j.known \in BOOLEAN
    BY DEF Job
  <2>3. (j.known = (j.doc # None)) <=> (i["entities"][j.id] # None <=> j.doc # None)
    BY <2>1, <2>2
  <2>4. WithEntry([f \in Files |-> Data(f)], j.id, j.doc) = WithEntry(i, j.id, j.doc)
    BY DEF OnDisk
  <2>5. CASE j.known = (j.doc # None)
    BY <2>3, <2>4, <2>5 DEF Replaced, Settled
  <2>6. CASE j.known # (j.doc # None)
    <3>1. (~j.known) = (j.doc # None)
      BY <2>2, <2>6
    <3> QED
      BY <2>3, <2>4, <2>6, <3>1, Zenon DEF Replaced, Settled
  <2> QED
    BY <2>5, <2>6
<1>5. \A f \in Files : files'[f] # None /\ OnDisk'[f] = k[f]
  <2>1. files' = [f \in Files |-> [stamp |-> j.number, data |-> k[f]]]
    BY <1>4 DEF Commit
  <2>2. \A f \in Files : files'[f] # None /\ files'[f].data = k[f]
    BY <2>1, FileIsThere
  <2> QED
    BY <2>2 DEF OnDisk, Data
<1>6. Good(OnDisk)'
  <2> PICK d : d = OnDisk'
    OBVIOUS
  <2>1. (Agree(k) <=> Agree(d)) /\ (Tidy(k) <=> Tidy(d))
    BY <1>5, SameParts
  <2>2. state' = state
    BY DEF Commit, ghosts
  <2> QED
    BY <1>3, <2>1, <2>2 DEF Good, Sound
<1>7. job'[a].op = "query"
  BY FinishGoesOn DEF Commit, NoJob
<1> QED
  BY <1>0, <1>5, <1>6, <1>7, OthersQuery, OrderIsItsOwn DEF Changing

\* The old index that a project brings is whole.
LegacyAgrees == legacy # None => Agree(legacy)

LEMMA AlwaysLegacyAgrees == Spec => []LegacyAgrees
<1>1. Init => LegacyAgrees
  BY IndexOfAgrees DEF Init, LegacyAgrees, Documents
<1>2. LegacyAgrees /\ [Next]_vars => LegacyAgrees'
  <2>1. ASSUME [Next]_vars
        PROVE  UNCHANGED legacy
    BY <2>1 DEF Next, vars, setting, Begin, End, Invalidate, Read, ApplyUpdate, ApplyRemove,
                ApplyOptimize, Delete, List, Load, Count, NotFound, Write, LoadEntity, Select,
                Commit, Look, Copy, Stat, Hit, Miss, Keep, Answer, Fail, Crash, Change
  <2> QED
    BY <2>1 DEF LegacyAgrees, Agree, InStep, Counted
<1> QED
  BY <1>1, <1>2, PTL DEF Spec

\* A conversion leaves, part by part, the index it copies.
LEMMA CopiesInOrder ==
  ASSUME Typed, InTurn, Locked, LegacyAgrees, Order, NEW a \in Agents, Copy(a), Goes(a)
  PROVE  Order'
<1> PICK k : k = legacy
  OBVIOUS
<1> PICK n, number : n = job[a].next /\ number = job[a].number
  OBVIOUS
<1> PICK f : f = ConvertedNames[n]
  OBVIOUS
<1> PICK d : d = k[f]
  OBVIOUS
<1>0. /\ job \in [Agents -> Job] /\ pc \in [Agents -> Phases] /\ job[a] \in Job /\ Doing(a)
      /\ job[a].op \in {"convert", "reconvert"} /\ pc[a] = "copy" /\ n \in 1 .. 5
      /\ legacy # None /\ legacy' = legacy
  BY GoesChange DEF Typed, Fits, Copy, Job, Order
<1>1. f \in Files /\ files' = [files EXCEPT ![f] = [stamp |-> number, data |-> d]]
  BY <1>0, FileNamesAre DEF Copy
<1>2. /\ files'[f] # None /\ files'[f].data = d
      /\ \A g \in Files \ {f} : files'[g] = files[g]
  <2>1. files'[f] = [stamp |-> number, data |-> d] /\ \A g \in Files \ {f} : files'[g] = files[g]
    BY <1>1 DEF Typed
  <2>2. files'[f] # None /\ files'[f].data = d
    BY <2>1, FileIsThere
  <2> QED
    BY <2>1, <2>2
<1>3. \A i \in 1 .. 5 : i < n + 1 => Wrote(ConvertedNames[i], k[ConvertedNames[i]])'
  <2>1. ASSUME NEW i \in 1 .. 5, i < n
        PROVE  Wrote(ConvertedNames[i], k[ConvertedNames[i]])'
    <3>1. Wrote(ConvertedNames[i], k[ConvertedNames[i]])
      BY <1>0, <2>1 DEF Doing
    <3>2. PICK g \in Files : g = ConvertedNames[i]
      BY FileNamesAre
    <3>3. CASE g = f
      BY <1>2, <3>2, <3>3 DEF Wrote
    <3>4. CASE g # f
      BY <1>2, <3>1, <3>2, <3>4 DEF Wrote
    <3> QED
      BY <3>3, <3>4
  <2>2. Wrote(ConvertedNames[n], k[ConvertedNames[n]])'
    BY <1>2 DEF Wrote
  <2>3. \A i \in 1 .. 5 : i < n + 1 => i < n \/ i = n
    BY <1>0
  <2> QED
    BY <2>1, <2>2, <2>3
<1> DEFINE j == [job[a] EXCEPT !.touched = TRUE]
<1>4. j \in Job /\ j.op = job[a].op /\ j.touched = TRUE /\ j.next = n
  BY <1>0 DEF Job
<1> HIDE DEF j
<1>5. Proceed(a, j, ConvertedNames, "end")
  BY DEF Copy, j
<1>6. state' = IF n = 5 THEN "built" ELSE state
  BY FileNamesAre DEF Copy
<1>7. CASE n < 5
  <2>1. pc'[a] = "copy" /\ job'[a] = [j EXCEPT !.next = @ + 1]
    BY <1>0, <1>4, <1>5, <1>7, FileNamesAre DEF Proceed
  <2>2. job'[a].op = job[a].op /\ job'[a].touched = TRUE /\ job'[a].next = n + 1
    BY <1>0, <1>4, <2>1 DEF Job
  <2>3. Halfway(a)' /\ state' = state
    BY <1>0, <1>6, <1>7, <2>1, <2>2 DEF Halfway
  <2>4. Doing(a)'
    BY <1>0, <1>3, <2>1, <2>2 DEF Doing
  <2>5. state' = "built" => \A g \in Files : files'[g] # None
    <3>1. ASSUME state = "built"
          PROVE  \A g \in Files : files[g] # None
      BY <1>0, <3>1, OthersQuery DEF Order, Building
    <3> QED
      BY <1>2, <2>3, <3>1
  <2> QED
    BY <1>0, <2>3, <2>4, <2>5, OthersQuery, OrderIsItsOwn
<1>8. CASE n = 5
  <2>1. Finish(a, "end")
    BY <1>4, <1>5, <1>8, FileNamesAre DEF Proceed
  <2>2. job'[a].op = "query"
    BY <2>1, FinishGoesOn DEF NoJob
  <2>3. \A g \in Files : Wrote(g, k[g])'
    <3>1. ASSUME NEW g \in Files
          PROVE  Wrote(g, k[g])'
      <4>1. PICK i \in 1 .. 5 : g = ConvertedNames[i]
        BY EveryFileHasANumber
      <4> QED
        BY <1>3, <1>8, <4>1
    <3> QED
      BY <3>1
  <2>4. \A g \in Files : files'[g] # None /\ OnDisk'[g] = k[g]
    BY <2>3 DEF Wrote, OnDisk, Data
  <2>5. Agree(k) /\ Tidy(k)
    BY <1>0, AgreeIsTidy DEF LegacyAgrees
  <2>6. Good(OnDisk)'
    <3> PICK e : e = OnDisk'
      OBVIOUS
    <3>1. Agree(e) /\ Tidy(e)
      BY <2>4, <2>5, SameParts
    <3> QED
      BY <3>1 DEF Good
  <2> QED
    BY <1>0, <2>2, <2>4, <2>6, OthersQuery, OrderIsItsOwn
<1> QED
  BY <1>0, <1>7, <1>8

LEMMA BeginsInOrder ==
  ASSUME Typed, Order, NEW a \in Agents, NEW op \in Ops, NEW id \in Entities, Begin(a, op, id)
  PROVE  Order'
<1> PICK j : j = Begun(a, op, id)
  OBVIOUS
<1>1. j.op = op /\ j.next = 1 /\ j.index = EmptyIndex /\ j.touched = FALSE
  <2>1. NoJob \in Job
    BY NoJobIsJob
  <2>2. NoJob.next = 1 /\ NoJob.index = EmptyIndex /\ NoJob.touched = FALSE
    BY DEF NoJob
  <2> QED
    BY <2>1, <2>2 DEF Begun, Job
<1>2. pc' = [pc EXCEPT ![a] = FirstPhase(op)] /\ job' = [job EXCEPT ![a] = j]
  BY BeginBegins DEF Moves, Goto
<1>3. UNCHANGED <<files, legacy, state>> /\ pc[a] = "idle"
  BY DEF Begin, setting
<1>4. pc'[a] = FirstPhase(op) /\ job'[a] = j
      /\ \A b \in Agents \ {a} : pc'[b] = pc[b] /\ job'[b] = job[b]
  BY <1>2 DEF Typed
<1>5. op # "query" =>
        FirstPhase(op) \in {"invalidate_first", "list", "delete", "read", "look"}
  BY FirstPhasesAre DEF Ops, EngineOps, Changing
<1>6. job'[a].op # "query" => Doing(a)'
  BY <1>1, <1>4, <1>5, EmptyIsInStep DEF Doing
<1>7. Quietly(a)
  BY <1>3, <1>6 DEF Quietly, Halfway, Building
<1> QED
  BY <1>3, <1>4, <1>7, QuietlyInOrder

LEMMA GoesInOrder ==
  ASSUME Typed, InTurn, Locked, LegacyAgrees, Order, NEW a \in Agents, Goes(a)
  PROVE  Order'
<1>1. UNCHANGED legacy /\ \A b \in Agents \ {a} : pc'[b] = pc[b] /\ job'[b] = job[b]
  BY GoesChange, GoesAreSteps, OthersWait
<1>2. ASSUME Quietly(a)
      PROVE  Order'
  <2>1. state' \in {state, "torn"}
    BY <1>2 DEF Quietly
  <2> QED
    BY <1>1, <1>2, <2>1, QuietlyInOrder
<1>3. CASE job[a].op = "query"
  <2>1. Quietly(a)
    BY <1>3, QueriesOnlyRead DEF Quietly, Building
  <2> QED
    BY <1>2, <2>1
<1>4. CASE job[a].op # "query"
  <2>1. pc[a] \notin Resting \cup {"stat", "lookup", "keep", "answer"}
    BY <1>4 DEF InTurn, Typed, Fits
  <2>2. ~(End(a) \/ Stat(a) \/ Hit(a) \/ Miss(a) \/ Keep(a) \/ Answer(a))
    BY <2>1 DEF End, Stat, Hit, Miss, Keep, Answer, Resting
  <2>3. CASE Delete(a) \/ Write(a) \/ Commit(a) \/ Copy(a)
    BY <2>3, DeletesInOrder, WritesInOrder, CommitsInOrder, CopiesInOrder
  <2>4. CASE Invalidate(a)
    BY <1>2, <1>4, <2>4, InvalidatesQuietly
  <2>5. CASE Read(a)
    <3>1. Doing(a)
      BY <1>4 DEF Order
    <3> QED
      BY <1>2, <1>4, <2>5, <3>1, ReadsQuietly
  <2>6. CASE ApplyUpdate(a) \/ ApplyRemove(a) \/ ApplyOptimize(a)
    BY <1>2, <2>6, ChangesQuietly
  <2>7. CASE List(a) \/ Load(a) \/ Count(a)
    BY <1>2, <2>7, BuildsQuietly
  <2>8. CASE LoadEntity(a) \/ Select(a) \/ Look(a) \/ NotFound(a) \/ Fail(a)
    BY <1>2, <2>8, LooksQuietly
  <2> QED
    BY <2>2, <2>3, <2>4, <2>5, <2>6, <2>7, <2>8 DEF Goes
<1> QED
  BY <1>3, <1>4

LEMMA CrashesInOrder ==
  ASSUME Typed, Order, NEW p \in Processes, Crash(p)
  PROVE  Order'
<1>1. /\ pc' = [b \in Agents |-> IF b \in p THEN "idle" ELSE pc[b]]
      /\ job' = [b \in Agents |-> IF b \in p THEN NoJob ELSE job[b]]
      /\ state' = IF \E b \in p : Halfway(b) THEN "torn" ELSE state
      /\ UNCHANGED <<files, legacy>>
  BY DEF Crash, setting
<1>2. state' \in {state, "torn"}
  BY <1>1
<1>3. \A b \in Agents : job'[b].op # "query" => Doing(b)'
  <2>1. ASSUME NEW b \in Agents, job'[b].op # "query"
        PROVE  Doing(b)'
    <3>1. b \notin p
      BY <1>1, <2>1 DEF NoJob
    <3>2. pc'[b] = pc[b] /\ job'[b] = job[b] /\ Doing(b)
      BY <1>1, <2>1, <3>1 DEF Order
    <3> QED
      BY <1>1, <1>2, <3>2, DoingStays
  <2> QED
    BY <2>1
<1>4. \/ state' = "torn"
      \/ /\ state' = state
         /\ \A b \in Agents : (Halfway(b) => Halfway(b)') /\ (Building(b) => Building(b)')
  <2>1. ASSUME \A b \in p : ~Halfway(b), NEW b \in Agents
        PROVE  (Halfway(b) => Halfway(b)') /\ (Building(b) => Building(b)')
    BY <1>1, <2>1 DEF Halfway, Building
  <2> QED
    BY <1>1, <2>1
<1> QED
  BY <1>1, <1>3, <1>4, Undisturbed

LEMMA NextIsInOrder ==
  ASSUME Typed, InTurn, Locked, LegacyAgrees, Order, [Next]_vars
  PROVE  Order'
<1>1. ASSUME UNCHANGED <<files, legacy, state, pc, job>>
      PROVE  Order'
  <2>1. \A b \in Agents : job'[b].op # "query" => Doing(b)'
    BY <1>1, DoingStays DEF Order
  <2>2. \A b \in Agents : (Halfway(b) => Halfway(b)') /\ (Building(b) => Building(b)')
    BY <1>1 DEF Halfway, Building
  <2> QED
    BY <1>1, <2>1, <2>2, Undisturbed
<1>2. ASSUME NEW id \in Entities, NEW entry \in Contents \cup {None}, Change(id, entry)
      PROVE  Order'
  BY <1>1, <1>2 DEF Change, setting, ghosts
<1>3. CASE UNCHANGED vars
  BY <1>1, <1>3 DEF vars, setting, ghosts
<1> QED
  BY <1>2, <1>3, NextIs, BeginsInOrder, GoesInOrder, CrashesInOrder

LEMMA InitIsInOrder ==
  ASSUME Init
  PROVE  Order
<1>1. /\ \A a \in Agents : job[a].op = "query"
      /\ \A f \in Files : OnDisk[f] = Empty(f)
      /\ state # "built"
  BY DEF Init, NoJob, OnDisk, Data
<1>2. PICK none \in Entries : none = [id \in Entities |-> None]
  BY DEF Entries
<1>3. \A f \in Files : OnDisk[f] = IndexOf(none)[f]
  <2>1. IndexOf(none)["relations"] = none
    BY <1>2, FileNamesAre DEF IndexOf
  <2>2. IndexOf(none)["statistics"] = Empty("statistics")
    <3>1. \A t \in Types : {id \in Entities : none[id] # None /\ TypeOf(id) = t} = {}
      BY <1>2
    <3>2. Cardinality({}) = 0
      BY FS_EmptySet
    <3>3. Counts(none) = [t \in Types |-> 0]
      BY <3>1, <3>2 DEF Counts
    <3> QED
      BY <3>3, FileNamesAre DEF IndexOf, Empty
  <2>3. \A f \in {"keyword", "tags", "entities"} : IndexOf(none)[f] = none
    BY FileNamesAre DEF IndexOf
  <2>4. \A f \in Files \ {"statistics"} : Empty(f) = none
    BY <1>2 DEF Empty
  <2> QED
    BY <1>1, <2>1, <2>2, <2>3, <2>4, FileNamesAre
<1>4. Good(OnDisk)
  <2> PICK d : d = OnDisk
    OBVIOUS
  <2>1. Agree(d)
    BY <1>2, <1>3, IndexOfAgrees, SameParts
  <2>2. Tidy(d)
    BY <2>1, AgreeIsTidy
  <2> QED
    BY <2>1, <2>2 DEF Good
<1> QED
  BY <1>1, <1>4 DEF Order

LEMMA DeploymentStays ==
  ASSUME Typed, [Next]_vars
  PROVE  UNCHANGED deployment
BY NextIs, GoesChange DEF Begin, Crash, Change, vars, setting

LEMMA AlwaysInOrder == Spec => [](Locked => Order)
<1>1. Init => (Locked => Order)
  BY InitIsInOrder
<1>2. Typed /\ InTurn /\ LegacyAgrees /\ (Locked => Order) /\ [Next]_vars => (Locked => Order)'
  <2> SUFFICES ASSUME Typed, InTurn, LegacyAgrees, Locked => Order, [Next]_vars, Locked'
               PROVE  Order'
    OBVIOUS
  <2>2. Locked
    BY DeploymentStays DEF Locked, Writers, LockedAgents
  <2> QED
    BY <2>2, NextIsInOrder
<1> QED
  BY <1>1, <1>2, AlwaysTyped, AlwaysInTurn, AlwaysLegacyAgrees, PTL DEF Spec

\* Under the lock the five files agree whenever nobody is half-way and no
\* operation was cut short since the last build.
THEOREM IndexFilesAgree == Spec => []FilesAgree
<1>1. (Locked => Order) => FilesAgree
  BY DEF Order, Good, FilesAgree
<1> QED
  BY <1>1, AlwaysInOrder, PTL

\* Under the lock an optimize that went through leaves no word and no tag without
\* a record and the counters right, and a build leaves the validator nothing to say
\* but of the number of projects and of edges that lead to nothing indexed: to
\* nothing the repository has in this project, where the index is up to date.
THEOREM NothingIsLeftDangling == Spec => []NothingDangles
<1>1. Typed /\ (Locked => Order) => NothingDangles
  <2> DEFINE edges == [id \in Entities |-> IF TypeOf(id) = "knowledge" THEN repo[id] ELSE None]
  <2> SUFFICES ASSUME Typed, Order, Quiet
               PROVE  /\ state # "torn" => Broken \subseteq {"relations", "target", "project"}
                      /\ state = "built" =>
                           /\ Errors \subseteq {"target", "project"}
                           /\ OnDisk["entities"] = repo =>
                                ("target" \in Errors <=> LeadsNowhere(edges, repo))
    BY DEF NothingDangles
  <2> HIDE DEF edges
  <2> DEFINE records == OnDisk["entities"]
             counts == [Counts(records) EXCEPT !["project"] = @ + ProjectCount - 1]
             loose == LeadsNowhere(OnDisk["relations"], records)
  <2>1. \A t \in Types \ {"project"} : counts[t] = Counts(records)[t]
    BY CountsAreNumbers
  <2>2. Broken = {f \in {"keyword", "tags", "relations"} :
                    \E id \in Entities : OnDisk[f][id] # None /\ records[id] = None}
                 \cup (IF loose THEN {"target"} ELSE {})
                 \cup {t \in Types : OnDisk["statistics"][t] # counts[t]}
    BY DEF Broken
  <2> HIDE DEF counts, loose
  <2>3. ASSUME Tidy(OnDisk)
        PROVE  Broken \subseteq {"relations", "target", "project"}
    <3>1. \A t \in Types \ {"project"} : OnDisk["statistics"][t] = counts[t]
      BY <2>1, <2>3 DEF Tidy
    <3>2. \A f \in {"keyword", "tags"}, id \in Entities :
            records[id] = None => OnDisk[f][id] = None
      BY <2>3 DEF Tidy
    <3> QED
      BY <2>2, <3>1, <3>2
  <2>4. ASSUME Agree(OnDisk)
        PROVE  "relations" \notin Broken
    <3>1. \A id \in Entities : records[id] = None => OnDisk["relations"][id] = None
      BY <2>4 DEF Agree, InStep
    <3>2. "relations" \notin Types
      BY DEF Types
    <3> QED
      BY <2>2, <3>1, <3>2
  <2>5. "target" \in Broken <=> loose
    <3>1. "target" \notin Types
      BY DEF Types
    <3> QED
      BY <2>2, <3>1
  <2>6. state # "torn" => Tidy(OnDisk)
    BY DEF Order, Good
  <2>7. ASSUME state = "built"
        PROVE  Errors = Broken /\ Agree(OnDisk)
    <3>1. \A f \in Files : files[f] # None
      BY <2>7 DEF Order, Quiet, Building
    <3> QED
      BY <2>7, <3>1 DEF Errors, Order, Good, Sound
  <2>8. ASSUME state = "built", OnDisk["entities"] = repo
        PROVE  loose <=> LeadsNowhere(edges, repo)
    <3>1. \A id \in Entities : OnDisk["relations"][id] = edges[id]
      BY <2>7, <2>8 DEF Agree, InStep, edges
    <3> QED
      BY <2>8, <3>1 DEF loose, LeadsNowhere
  <2> QED
    BY <2>3, <2>4, <2>5, <2>6, <2>7, <2>8
<1> QED
  BY <1>1, AlwaysTyped, AlwaysInOrder, PTL

----
(* Tables that processes update without a lock.                            *)

\* The engines update, remove and query, and nothing else.
RowByRow == IsSqlite /\ \A a \in Agents : deployment.does[a] \subseteq Changing \cup {"query"}

\* Such calls never hold a whole part to write it.
TouchRows ==
  /\ IsSqlite
  /\ \A a \in Agents :
       \/ job[a].op \in Changing
          /\ pc[a] \in {"invalidate_first", "load", "select", "commit"}
       \/ job[a].op = "query" /\ pc[a] \in {"idle", "read", "answer", "end"}

LEMMA GoesTouchRows ==
  ASSUME Typed, TouchRows, NEW a \in Agents, Goes(a)
  PROVE  TouchRows' /\ (UNCHANGED files \/ Commit(a))
<1> DEFINE op == job[a].op
<1>1. \/ job[a].op \in Changing /\ pc[a] \in {"invalidate_first", "load", "select", "commit"}
      \/ job[a].op = "query" /\ pc[a] \in {"idle", "read", "answer", "end"}
  BY DEF TouchRows
<1>2. UNCHANGED deployment /\ IsSqlite /\ IsSqlite'
  BY GoesChange DEF TouchRows, IsSqlite
<1>3. ASSUME NEW phase \in {"end", "idle"}, Finish(a, phase)
      PROVE  TouchRows'
  <2>1. pc' = [pc EXCEPT ![a] = phase] /\ job' = [job EXCEPT ![a] = NoJob]
    BY <1>3 DEF Finish, Goto
  <2>2. NoJob.op = "query"
    BY DEF NoJob
  <2> QED
    BY <1>2, <2>1, <2>2 DEF TouchRows, Typed
<1>4. ASSUME NEW phase \in Phases, NEW j \in Job, Moves(a, phase, j), j.op = job[a].op,
             \/ j.op \in Changing /\ phase \in {"load", "select", "commit"}
             \/ j.op = "query" /\ phase \in {"idle", "read", "answer", "end"}
      PROVE  TouchRows'
  BY <1>2, <1>4 DEF TouchRows, Moves, Goto, Typed
<1>5. CASE Commit(a) \/ NotFound(a) \/ Fail(a) \/ Answer(a)
  <2>1. Finish(a, "end") /\ (UNCHANGED files \/ Commit(a))
    BY <1>5 DEF Commit, NotFound, Fail, Answer
  <2> QED
    BY <1>3, <2>1
<1>6. CASE End(a)
  <2>1. Moves(a, "idle", job[a]) /\ job[a] \in Job /\ op = "query" /\ UNCHANGED files
    BY <1>1, <1>6 DEF End, Moves, Typed, Changing
  <2> QED
    BY <1>4, <2>1 DEF Phases
<1>7. CASE Invalidate(a)
  <2>1. pc[a] = "invalidate_first" /\ op \in Changing /\ UNCHANGED files
    BY <1>1, <1>7 DEF Invalidate
  <2>2. Goto(a, "load") \/ Goto(a, "select")
    BY <1>2, <1>7, <2>1 DEF Invalidate
  <2>3. job[a] \in Job /\ job' = [job EXCEPT ![a] = job[a]]
    BY <1>7 DEF Invalidate, Typed
  <2> QED
    BY <1>4, <2>1, <2>2, <2>3 DEF Moves, Phases
<1>8. CASE Read(a)
  <2> DEFINE f == FileNames[job[a].next]
             j == [job[a] EXCEPT !.index[f] = Data(f)]
  <2>1. pc[a] = "read" /\ op = "query" /\ Proceed(a, j, FileNames, "answer") /\ UNCHANGED files
    BY <1>1, <1>2, <1>8 DEF Read, Changing
  <2>2. UNCHANGED pc \/ pc' = [pc EXCEPT ![a] = "answer"]
    BY <2>1 DEF Proceed, Goto
  <2>3. j.op = "query" /\ [j EXCEPT !.next = 1].op = "query" /\ [j EXCEPT !.next = @ + 1].op = "query"
    BY <2>1 DEF Typed, Job
  <2>4. \/ job' = [job EXCEPT ![a] = [j EXCEPT !.next = 1]]
        \/ job' = [job EXCEPT ![a] = [j EXCEPT !.next = @ + 1]]
    BY <2>1 DEF Proceed
  <2> HIDE DEF j
  <2>5. job'[a].op = "query" /\ \A b \in Agents \ {a} : job'[b] = job[b]
    BY <2>3, <2>4 DEF Typed
  <2>6. TouchRows'
    BY <1>2, <2>1, <2>2, <2>5 DEF TouchRows, Typed
  <2> QED
    BY <2>1, <2>6
<1>9. CASE LoadEntity(a)
  <2>1. pc[a] = "load" /\ op \in Changing /\ UNCHANGED files /\ pc' = [pc EXCEPT ![a] = "select"]
    BY <1>1, <1>9 DEF LoadEntity, Goto
  <2>2. job'[a].op = op /\ \A b \in Agents \ {a} : job'[b] = job[b]
    BY <1>9 DEF LoadEntity, Typed, Job
  <2> QED
    BY <1>2, <2>1, <2>2 DEF TouchRows, Typed
<1>10. CASE Select(a)
  <2>1. pc[a] = "select" /\ op \in Changing /\ UNCHANGED files /\ pc' = [pc EXCEPT ![a] = "commit"]
    BY <1>1, <1>10 DEF Select, Goto
  <2>2. job'[a].op = op /\ \A b \in Agents \ {a} : job'[b] = job[b]
    BY <1>10 DEF Select, Typed, Job
  <2> QED
    BY <1>2, <2>1, <2>2 DEF TouchRows, Typed
<1>11. CASE pc[a] \in {"change", "delete", "list", "write", "look", "copy", "stat", "lookup", "keep"}
  BY <1>1, <1>11
<1> QED
  BY <1>5, <1>6, <1>7, <1>8, <1>9, <1>10, <1>11
     DEF Goes, ApplyUpdate, ApplyRemove, ApplyOptimize, Delete, List, Load, Count, Write, Look,
         Copy, Stat, Hit, Miss, Keep

\* What a transaction makes of the tables.
LEMMA CommitChangesRows ==
  ASSUME Typed, NEW a \in Agents, Commit(a)
  PROVE  /\ Data("keyword")' = [Data("keyword") EXCEPT ![job[a].id] = job[a].doc]
         /\ Data("tags")' = [Data("tags") EXCEPT ![job[a].id] = job[a].doc]
         /\ Data("entities")' = [Data("entities") EXCEPT ![job[a].id] = job[a].doc]
         /\ Data("relations")' = IF TypeOf(job[a].id) # "knowledge" THEN Data("relations")
                                 ELSE [Data("relations") EXCEPT ![job[a].id] = job[a].doc]
<1> DEFINE old == [f \in Files |-> Data(f)]
           new == WithEntry(old, job[a].id, job[a].doc)
<1>1. \A f \in Files : files'[f] = [stamp |-> job[a].number, data |-> Replaced(job[a])[f]]
  BY DEF Commit
<1>2. ASSUME NEW f \in Files PROVE Data(f)' = Replaced(job[a])[f]
  <2>1. files'[f] # None /\ files'[f].data = Replaced(job[a])[f]
    <3>1. PICK s, d : files'[f] = [stamp |-> s, data |-> d] /\ d = Replaced(job[a])[f]
      BY <1>1
    <3> QED
      BY <3>1, FileIsThere
  <2> QED
    BY <2>1 DEF Data
<1>3. \A f \in Files \ {"statistics"} : Replaced(job[a])[f] = new[f]
  <2>1. new = [f \in Files |-> new[f]]
    BY DEF WithEntry
  <2> QED
    BY <2>1 DEF Replaced
<1>4. \A f \in {"keyword", "tags", "entities"} : new[f] = [Data(f) EXCEPT ![job[a].id] = job[a].doc]
  BY FileNamesAre DEF WithEntry
<1>5. new["relations"] = IF TypeOf(job[a].id) # "knowledge" THEN Data("relations")
                         ELSE [Data("relations") EXCEPT ![job[a].id] = job[a].doc]
  BY FileNamesAre DEF WithEntry
<1> HIDE DEF new
<1> QED
  BY <1>2, <1>3, <1>4, <1>5, FileNamesAre

LEMMA NextTouchesRows ==
  ASSUME RowByRow, Typed, TouchRows, [Next]_vars
  PROVE  TouchRows' /\ (UNCHANGED files \/ \E a \in Agents : Commit(a) /\ Goes(a))
<1>1. ASSUME NEW a \in Agents, NEW op \in Ops, NEW id \in Entities, Begin(a, op, id)
      PROVE  TouchRows' /\ UNCHANGED files
  <2> DEFINE j == Begun(a, op, id)  phase == FirstPhase(op)
  <2>1. op \in Changing \cup {"query"} /\ IsSqlite /\ IsSqlite'
    BY <1>1 DEF RowByRow, Begin, setting, Typed, TouchRows, IsSqlite
  <2>2. /\ op \in Changing => phase = "invalidate_first"
        /\ op = "query" => phase = "read"
    BY <2>1, FirstPhasesAre
  <2>3. j \in Job /\ phase \in Phases /\ Moves(a, phase, j) /\ j.op = op
    BY <1>1, BeginBegins, NoJobIsJob DEF Begun, Job
  <2> HIDE DEF j, phase
  <2>4. TouchRows'
    BY <2>1, <2>2, <2>3 DEF TouchRows, Moves, Goto, Typed
  <2> QED
    BY <1>1, <2>4 DEF Begin
<1>2. ASSUME NEW a \in Agents, Goes(a)
      PROVE  TouchRows' /\ (UNCHANGED files \/ (Commit(a) /\ Goes(a)))
  BY <1>2, GoesTouchRows
<1>3. ASSUME NEW p \in Processes, Crash(p)
      PROVE  TouchRows' /\ UNCHANGED files
  BY <1>3 DEF Crash, setting, TouchRows, IsSqlite, NoJob
<1>4. ASSUME NEW id \in Entities, NEW entry \in Contents \cup {None}, Change(id, entry)
      PROVE  TouchRows' /\ UNCHANGED files
  BY <1>4 DEF Change, setting, TouchRows, IsSqlite
<1>5. CASE UNCHANGED vars
  BY <1>5 DEF vars, setting, TouchRows, IsSqlite
<1> QED
  BY <1>1, <1>2, <1>3, <1>4, <1>5, NextIs

LEMMA CommitKeepsInStep ==
  ASSUME Typed, InStep(OnDisk), NEW a \in Agents, Commit(a)
  PROVE  InStep(OnDisk)'
<1> DEFINE id == job[a].id  doc == job[a].doc
<1>1. /\ Data("keyword") = Data("entities") /\ Data("tags") = Data("entities")
      /\ \A e \in Entities :
           Data("relations")[e] = IF TypeOf(e) = "knowledge" THEN Data("entities")[e] ELSE None
  BY FileNamesAre DEF InStep, OnDisk
<1>2. Data("entities") \in Entries /\ Data("relations") \in Entries /\ id \in Entities
  BY DataIsData, FileNamesAre DEF DataOf, Typed, Job
<1>3. Data("keyword")' = Data("entities")' /\ Data("tags")' = Data("entities")'
  BY <1>1, CommitChangesRows
<1>4. ASSUME NEW e \in Entities
      PROVE  Data("relations")'[e] = IF TypeOf(e) = "knowledge" THEN Data("entities")'[e] ELSE None
  <2>1. Data("entities")'[e] = IF e = id THEN doc ELSE Data("entities")[e]
    BY <1>2, CommitChangesRows DEF Entries
  <2>2. Data("relations")'[e] = IF e = id /\ TypeOf(id) = "knowledge" THEN doc
                                ELSE Data("relations")[e]
    BY <1>2, CommitChangesRows DEF Entries
  <2> QED
    BY <1>1, <2>1, <2>2
<1>5. /\ OnDisk'["keyword"] = Data("keyword")' /\ OnDisk'["tags"] = Data("tags")'
      /\ OnDisk'["entities"] = Data("entities")' /\ OnDisk'["relations"] = Data("relations")'
  BY FileNamesAre DEF OnDisk
<1> QED
  BY <1>3, <1>4, <1>5 DEF InStep

LEMMA NextKeepsInStep ==
  ASSUME RowByRow, Typed, TouchRows, InStep(OnDisk), [Next]_vars
  PROVE  InStep(OnDisk)'
<1>1. CASE UNCHANGED files
  BY <1>1 DEF InStep, OnDisk, Data
<1> QED
  BY <1>1, NextTouchesRows, CommitKeepsInStep

LEMMA InitIsInStep ==
  ASSUME RowByRow, Init
  PROVE  TouchRows /\ InStep(OnDisk)
<1>1. IsSqlite /\ \A a \in Agents : pc[a] = "idle" /\ job[a] = NoJob
  BY DEF Init, RowByRow, IsSqlite
<1>2. TouchRows
  BY <1>1 DEF TouchRows, NoJob
<1>3. \A f \in Files : OnDisk[f] = Empty(f)
  BY DEF Init, OnDisk, Data
<1>4. \A f \in Files \ {"statistics"} : OnDisk[f] = [id \in Entities |-> None]
  BY <1>3 DEF Empty
<1>5. InStep(OnDisk)
  BY <1>4, FileNamesAre DEF InStep
<1> QED
  BY <1>2, <1>5

LEMMA AlwaysInStep == Spec => [](RowByRow => TouchRows /\ InStep(OnDisk))
<1>1. Init => (RowByRow => TouchRows /\ InStep(OnDisk))
  BY InitIsInStep
<1>2. Typed /\ (RowByRow => TouchRows /\ InStep(OnDisk)) /\ [Next]_vars =>
        (RowByRow => TouchRows /\ InStep(OnDisk))'
  <2> SUFFICES ASSUME Typed, RowByRow => TouchRows /\ InStep(OnDisk), [Next]_vars, RowByRow'
               PROVE  TouchRows' /\ InStep(OnDisk)'
    OBVIOUS
  <2>1. RowByRow
    BY DeploymentStays DEF RowByRow, IsSqlite
  <2> QED
    BY <2>1, NextTouchesRows, NextKeepsInStep
<1> QED
  BY <1>1, <1>2, AlwaysTyped, PTL DEF Spec

\* The lock orders those that write, or SQLite's transactions do.
Careful == Locked \/ RowByRow

\* Under the lock, or without it where processes only update and remove rows, the
\* words, the tags, the records and the edges are in step at every quiet moment.
THEOREM RowsStayInStep == Spec => [](Careful => RowsAgree)
<1>1. (Locked => Order) => (Locked => RowsAgree)
  BY DEF Order, Good, Sound, Agree, RowsAgree, InStep, Counted
<1>2. (RowByRow => TouchRows /\ InStep(OnDisk)) => (RowByRow => RowsAgree)
  BY DEF RowsAgree
<1> QED
  BY <1>1, <1>2, AlwaysInOrder, AlwaysInStep, PTL DEF Careful

\* There the doctor can be trusted as far as it looks: what it passes is in step, and
\* its counters of campaigns and of knowledge are those of the records.
THEOREM DoctorCanBeTrusted == Spec => [](Careful => DoctorIsRight)
<1>1. ASSUME InStep(OnDisk), DoctorPasses
      PROVE  InStep(OnDisk) /\ Counted(OnDisk, {"campaign", "knowledge"})
  <2>1. ASSUME NEW t \in {"campaign", "knowledge"}
        PROVE  Counts(repo)[t] = Counts(OnDisk["entities"])[t]
    <3>1. {id \in Entities : repo[id] # None /\ TypeOf(id) = t}
            = {id \in Entities : OnDisk["entities"][id] # None /\ TypeOf(id) = t}
      BY <1>1, ProjectIsProject DEF DoctorPasses
    <3> QED
      BY <3>1 DEF Counts, Types
  <2> QED
    BY <1>1, <2>1 DEF DoctorPasses, Counted
<1>2. (RowByRow => TouchRows /\ InStep(OnDisk)) => (RowByRow => DoctorIsRight)
  BY <1>1 DEF DoctorIsRight
<1>3. (Locked => Order) => (Locked => DoctorIsRight)
  BY <1>1 DEF Order, Good, Agree, DoctorIsRight
<1> QED
  BY <1>2, <1>3, AlwaysInOrder, AlwaysInStep, PTL DEF Careful

\* Where the files change, an agent has written, deleted, committed or copied.
LEMMA FilesAreChanged ==
  ASSUME Typed, [Next]_vars, files' # files, NEW a \in Agents,
         <<pc'[a], job'[a]>> # <<pc[a], job[a]>>
  PROVE  Delete(a) \/ Write(a) \/ Commit(a) \/ Copy(a)
<1>1. PICK b \in Agents : Goes(b)
  BY NextIs DEF Begin, Crash, Change, vars
<1>2. a = b
  BY <1>1, GoesAreSteps, OthersWait
<1> QED
  BY <1>1, <1>2, GoesChange

\* There an update or a remove changes no entry of another entity.
THEOREM RowsOfOthersAreKept == Spec /\ Careful => OthersAreKept
<1>1. Careful /\ Typed /\ [Next]_vars => Careful'
  BY DeploymentStays DEF Careful, Locked, Writers, LockedAgents, RowByRow, IsSqlite
<1>2. ASSUME Typed, Careful, Locked => Order, RowByRow => TouchRows /\ InStep(OnDisk),
             [Next]_vars, NEW a \in Agents,
             pc[a] \in {"write", "commit"}, job[a].op \in {"update", "remove"},
             <<pc'[a], job'[a]>> # <<pc[a], job[a]>>, files' # files,
             NEW id \in Entities \ {job[a].id}, NEW f \in Files \ {"statistics"}
      PROVE  Data(f)'[id] = Data(f)[id]
  <2>1. CASE Commit(a)
    <3>1. \A g \in {"keyword", "tags", "entities", "relations"} : Data(g) \in Entries
      BY <1>2, DataIsData, FileNamesAre DEF DataOf
    <3> QED
      BY <1>2, <2>1, <3>1, CommitChangesRows, FileNamesAre DEF Entries
  <2>2. CASE Write(a)
    <3>1. pc[a] = "write"
      BY <2>2 DEF Write
    <3>2. Locked
      BY <1>2, <3>1 DEF Careful, TouchRows
    <3>3. job[a].index[f][id] = Data(f)[id]
      BY <1>2, <3>1, <3>2 DEF Order, Doing, Changing
    <3>4. PICK g, s, d : /\ files' = [files EXCEPT ![g] = [stamp |-> s, data |-> d]]
                         /\ d = job[a].index[g]
      BY <2>2 DEF Write
    <3>5. CASE f = g
      <4>1. files'[f] = [stamp |-> s, data |-> d]
        BY <1>2, <3>4, <3>5 DEF Typed
      <4>2. Data(f)' = d
        BY <4>1, FileIsThere DEF Data
      <4> QED
        BY <3>3, <3>4, <3>5, <4>2
    <3>6. CASE f # g
      <4>1. files'[f] = files[f]
        BY <3>4, <3>6, <1>2 DEF Typed
      <4> QED
        BY <4>1 DEF Data
    <3> QED
      BY <3>5, <3>6
  <2>3. ~Delete(a) /\ ~Copy(a)
    BY <1>2 DEF Delete, Copy
  <2> QED
    BY <1>2, <2>1, <2>2, <2>3, FilesAreChanged
<1>3. Typed /\ Careful /\ (Locked => Order) /\ (RowByRow => TouchRows /\ InStep(OnDisk))
      /\ [Next]_vars =>
        [\A a \in Agents :
           /\ pc[a] \in {"write", "commit"} /\ job[a].op \in {"update", "remove"}
           /\ <<pc'[a], job'[a]>> # <<pc[a], job[a]>> /\ files' # files
           =>
             \A id \in Entities \ {job[a].id}, f \in Files \ {"statistics"} :
               Data(f)'[id] = Data(f)[id]]_vars
  BY <1>2
<1> QED
  BY <1>1, <1>3, AlwaysTyped, AlwaysInOrder, AlwaysInStep, PTL DEF Spec, OthersAreKept

----
(* Queries under the lock.                                                 *)

\* Of a file that was never written nobody remembers anything: while no build
\* is at work and none was cut short, a file that is missing never was there.
Forgotten(f) ==
  /\ \A p \in Processes : cache[p] # None => cache[p].index[f] = Empty(f)
  /\ \A a \in Agents : job[a].op = "query" => job[a].index[f] = Empty(f)

NeverWritten ==
  Sound /\ (\A a \in Agents : ~Building(a)) =>
    \A f \in Files : files[f] = None => Forgotten(f)

\* A build ends with all five files, or the index is torn.
LEMMA BuildingGoesOn ==
  ASSUME Typed, NEW a \in Agents, Goes(a), Building(a) \/ Delete(a)
  PROVE  Building(a)' \/ state' \in {"torn", "built"}
<1>0. /\ job \in [Agents -> Job] /\ pc \in [Agents -> Phases] /\ job[a] \in Job
      /\ job[a].op \in {"build", "rebuild"} /\ pc[a] \in {"delete", "list", "write"}
  BY DEF Building, Halfway, Typed, Fits, Job, Delete
<1>1. CASE Building(a) /\ (NotFound(a) \/ Fail(a))
  BY <1>0, <1>1 DEF NotFound, Fail, Building
<1>2. CASE Building(a) /\ (List(a) \/ Load(a) \/ Count(a))
  <2>1. pc'[a] \in {"list", "write"}
    BY <1>0, <1>2 DEF List, Load, Count, Goto
  <2>2. job'[a].op = job[a].op /\ job'[a].touched = job[a].touched
    <3>1. CASE List(a)
      BY <1>0, <3>1 DEF List, Job
    <3>2. CASE Load(a)
      BY <1>0, <3>2 DEF Load, Job
    <3>3. CASE Count(a)
      <4>1. PICK i : job' = [job EXCEPT ![a].index["statistics"] = i, ![a].next = 1]
        BY <3>3 DEF Count
      <4> QED
        BY <1>0, <4>1 DEF Job
    <3> QED
      BY <1>2, <3>1, <3>2, <3>3
  <2>3. job[a].touched
    BY <1>2 DEF Building, Halfway
  <2> QED
    BY <1>0, <2>1, <2>2, <2>3 DEF Building, Halfway
<1> DEFINE j == [job[a] EXCEPT !.touched = TRUE]
<1>3. j \in Job /\ j.op = job[a].op /\ j.touched = TRUE /\ j.next = job[a].next
  BY <1>0 DEF Job
<1> HIDE DEF j
<1>4. ASSUME NEW names, NEW phase \in {"list", "invalidate_last"}, Proceed(a, j, names, phase),
             phase = "invalidate_last" => j.next < Len(names)
      PROVE  Building(a)'
  <2>1. CASE j.next < Len(names)
    <3>1. pc'[a] = pc[a] /\ job'[a] = [j EXCEPT !.next = @ + 1]
      BY <1>0, <1>4, <2>1 DEF Proceed
    <3>2. job'[a].op = j.op /\ job'[a].touched = TRUE
      BY <1>3, <3>1 DEF Job
    <3> QED
      BY <1>0, <1>3, <3>1, <3>2 DEF Building, Halfway
  <2>2. CASE ~(j.next < Len(names))
    <3>1. pc'[a] = "list" /\ job'[a] = [j EXCEPT !.next = 1]
      BY <1>0, <1>4, <2>2 DEF Proceed, Goto
    <3>2. job'[a].op = j.op /\ job'[a].touched = TRUE
      BY <1>3, <3>1 DEF Job
    <3> QED
      BY <1>0, <1>3, <3>1, <3>2 DEF Building, Halfway
  <2> QED
    BY <2>1, <2>2
<1>5. CASE Delete(a)
  <2>1. Proceed(a, j, FileNames, "list")
    BY <1>5 DEF Delete, j
  <2> QED
    BY <1>4, <2>1
<1>6. CASE Write(a)
  <2>1. Proceed(a, j, Names(a), "invalidate_last")
    BY <1>0, <1>6 DEF Write, j
  <2>2. CASE j.next = Len(Names(a))
    BY <1>0, <1>3, <1>6, <2>2 DEF Write, Repaired
  <2>3. CASE j.next # Len(Names(a))
    <3>1. Names(a) = FileNames /\ job[a].next \in 1 .. 5
      BY <1>0 DEF Names, Job
    <3>2. j.next < Len(Names(a))
      BY <1>3, <2>3, <3>1, FileNamesAre
    <3> QED
      BY <1>4, <2>1, <3>2
  <2> QED
    BY <2>2, <2>3
<1>7. CASE End(a) \/ Invalidate(a) \/ Read(a) \/ ApplyUpdate(a) \/ ApplyRemove(a) \/ ApplyOptimize(a)
  BY <1>0, <1>7 DEF End, Invalidate, Read, ApplyUpdate, ApplyRemove, ApplyOptimize
<1>8. CASE LoadEntity(a) \/ Select(a) \/ Commit(a) \/ Look(a) \/ Copy(a)
           \/ Stat(a) \/ Hit(a) \/ Miss(a) \/ Keep(a) \/ Answer(a)
  BY <1>0, <1>8 DEF LoadEntity, Select, Commit, Look, Copy, Stat, Hit, Miss, Keep, Answer
<1> QED
  BY <1>1, <1>2, <1>5, <1>6, <1>7, <1>8 DEF Goes

\* Where a query has what it holds from.
LEMMA QueriesLearn ==
  ASSUME Typed, NEW a \in Agents, Goes(a), job'[a].op = "query", NEW f \in Files
  PROVE  \/ job'[a].index[f] = Empty(f)
         \/ job[a].op = "query" /\ job'[a].index[f] \in {job[a].index[f], Data(f)}
         \/ cache[ProcessOf(a)] # None /\ job'[a].index[f] = cache[ProcessOf(a)].index[f]
<1>0. /\ job \in [Agents -> Job] /\ pc \in [Agents -> Phases] /\ job[a] \in Job
      /\ job[a].next \in 1 .. 5 /\ Fits(pc[a], job[a])
  BY DEF Typed, Job
<1>1. ASSUME NEW phase, Finish(a, phase)
      PROVE  job'[a].index[f] = Empty(f)
  <2>1. job'[a] = NoJob
    BY <1>0, <1>1 DEF Finish
  <2> QED
    BY <2>1 DEF NoJob, EmptyIndex
<1>2. CASE job[a].op # "query"
  <2>1. job'[a] = NoJob
    BY <1>2, AgentsGoOn DEF GoesOn
  <2> QED
    BY <2>1 DEF NoJob, EmptyIndex
<1>3. CASE job[a].op = "query"
  <2>1. pc[a] \in {"idle", "end", "invalidate_last", "read", "stat", "lookup", "keep", "answer"}
    BY <1>0, <1>3 DEF Fits, Phases, Changing, EngineOps
  <2>2. CASE UNCHANGED job
    BY <1>3, <2>2
  <2>3. CASE Read(a)
    <3> DEFINE g == FileNames[job[a].next]
               j == [job[a] EXCEPT !.index[g] = Data(g)]
    <3>1. g \in Files /\ job[a].index \in Index
      BY <1>0, FileNamesAre DEF Job
    <3>2. j.index = [job[a].index EXCEPT ![g] = Data(g)]
      BY <1>0 DEF Job
    <3>3. j.index[f] = IF f = g THEN Data(f) ELSE job[a].index[f]
      BY <3>1, <3>2 DEF Index
    <3>4. Proceed(a, j, FileNames, "answer") \/ Proceed(a, j, FileNames, "keep")
      BY <1>3, <2>3 DEF Read
    <3>5. j = [j EXCEPT !.index = j.index] /\ j \in Job
      <4>1. [job[a].index EXCEPT ![g] = Data(g)] \in Index
        BY <3>1, DataIsData, PartIsPut
      <4> QED
        BY <1>0, <4>1 DEF Job
    <3> HIDE DEF j
    <3>6. job'[a] = [j EXCEPT !.next = 1] \/ job'[a] = [j EXCEPT !.next = @ + 1]
      BY <1>0, <3>4 DEF Proceed
    <3>7. job'[a].index = j.index
      BY <3>5, <3>6 DEF Job
    <3> QED
      BY <1>3, <3>3, <3>7
  <2>4. CASE Stat(a)
    <3> DEFINE j == [job[a] EXCEPT !.fp[FileNames[job[a].next]] = Stamp(FileNames[job[a].next])]
    <3>1. FileNames[job[a].next] \in Files /\ Stamp(FileNames[job[a].next]) \in Nat
      BY <1>0, FileNamesAre, StampsAreNumbers
    <3>2. j \in Job /\ j.index = job[a].index
      BY <1>0, <3>1 DEF Job
    <3> HIDE DEF j
    <3>3. Proceed(a, j, FileNames, "lookup")
      BY <2>4 DEF Stat, j
    <3>4. job'[a] = [j EXCEPT !.next = 1] \/ job'[a] = [j EXCEPT !.next = @ + 1]
      BY <1>0, <3>3 DEF Proceed
    <3>5. job'[a].index = job[a].index
      BY <3>2, <3>4 DEF Job
    <3> QED
      BY <1>3, <3>5
  <2>5. CASE Hit(a)
    <3>1. cache[ProcessOf(a)] # None /\ job'[a].index = cache[ProcessOf(a)].index
      BY <1>0, <2>5 DEF Hit, Job
    <3> QED
      BY <3>1
  <2>6. CASE Keep(a)
    <3>1. job'[a].index = job[a].index
      BY <1>0, <2>6 DEF Keep, Job
    <3> QED
      BY <1>3, <3>1
  <2>7. CASE Answer(a) \/ Fail(a)
    BY <1>1, <2>7 DEF Answer, Fail
  <2>8. CASE Miss(a) \/ End(a) \/ Invalidate(a)
    BY <2>2, <2>8 DEF Miss, End, Invalidate
  <2> QED
    BY <2>1, <2>3, <2>4, <2>5, <2>6, <2>7, <2>8
       DEF Goes, ApplyUpdate, ApplyRemove, ApplyOptimize, Delete, List, Load, Count, NotFound,
           Write, LoadEntity, Select, Commit, Look, Copy
<1> QED
  BY <1>2, <1>3

LEMMA NothingIsLearnt ==
  ASSUME Typed, Order', NeverWritten, NEW a \in Agents, Goes(a)
  PROVE  NeverWritten'
<1> SUFFICES ASSUME Sound', \A b \in Agents : ~Building(b)', NEW f \in Files, files'[f] = None
             PROVE  Forgotten(f)'
  BY DEF NeverWritten
<1>1. \A b \in Agents \ {a} : pc'[b] = pc[b] /\ job'[b] = job[b]
  BY GoesAreSteps, OthersWait
<1>2. state' = "updated"
  BY DEF Order, Sound
<1>3. state = "updated"
  BY <1>2, GoesChange
<1>4. ~Building(a) /\ ~Delete(a)
  BY <1>2, BuildingGoesOn
<1>5. \A b \in Agents \ {a} : ~Building(b)
  BY <1>1 DEF Building, Halfway
<1>6. files[f] = None
  <2>1. CASE UNCHANGED files
    BY <2>1
  <2>2. CASE Write(a)
    <3>1. PICK s, d : files' = [files EXCEPT ![Names(a)[job[a].next]] = [stamp |-> s, data |-> d]]
      BY <2>2 DEF Write
    <3>2. files'[f] = files[f] \/ files'[f] = [stamp |-> s, data |-> d]
      BY <3>1 DEF Typed
    <3> QED
      BY <3>2, FileIsThere
  <2>3. CASE Copy(a)
    <3>1. PICK s, d : files' = [files EXCEPT ![ConvertedNames[job[a].next]] =
                                  [stamp |-> s, data |-> d]]
      BY <2>3 DEF Copy
    <3>2. files'[f] = files[f] \/ files'[f] = [stamp |-> s, data |-> d]
      BY <3>1 DEF Typed
    <3> QED
      BY <3>2, FileIsThere
  <2>4. CASE Commit(a)
    <3>1. PICK s, d : files'[f] = [stamp |-> s, data |-> d]
      BY <2>4 DEF Commit
    <3> QED
      BY <3>1, FileIsThere
  <2> QED
    BY <1>4, <2>1, <2>2, <2>3, <2>4, GoesChange
<1>7. Forgotten(f)
  BY <1>3, <1>4, <1>5, <1>6 DEF NeverWritten, Sound
<1>8. Data(f) = Empty(f)
  BY <1>6 DEF Data
<1>9. ASSUME NEW b \in Agents, job'[b].op = "query"
      PROVE  job'[b].index[f] = Empty(f)
  <2>1. CASE b = a
    <3>1. ProcessOf(a) \in Processes
      BY AgentsAssumption DEF ProcessOf
    <3> QED
      BY <1>7, <1>8, <1>9, <2>1, <3>1, QueriesLearn DEF Forgotten
  <2>2. CASE b # a
    BY <1>1, <1>7, <1>9, <2>2 DEF Forgotten
  <2> QED
    BY <2>1, <2>2
<1>10. ASSUME NEW p \in Processes, cache'[p] # None
       PROVE  cache'[p].index[f] = Empty(f)
  <2>1. CASE cache'[p] = cache[p]
    BY <1>7, <1>10, <2>1 DEF Forgotten
  <2>2. CASE cache' = [cache EXCEPT ![ProcessOf(a)] = None]
    <3>1. cache'[p] = cache[p]
      BY <1>10, <2>2 DEF Typed
    <3> QED
      BY <2>1, <3>1
  <2>3. CASE Keep(a)
    <3>1. job[a].op = "query" /\ job[a].index[f] = Empty(f)
      BY <1>7, <2>3 DEF Keep, Typed, Fits, Forgotten
    <3>2. cache'[p] = cache[p] \/ cache'[p] = [fp |-> job[a].fp, index |-> job[a].index]
      BY <2>3 DEF Keep, Typed
    <3>3. CASE cache'[p] = [fp |-> job[a].fp, index |-> job[a].index]
      <4>1. cache'[p].index = job[a].index
        BY <3>3
      <4> QED
        BY <3>1, <4>1
    <3> QED
      BY <2>1, <3>2, <3>3
  <2> QED
    BY <2>1, <2>2, <2>3, GoesChange
<1> QED
  BY <1>9, <1>10 DEF Forgotten

LEMMA NextLearnsNothing ==
  ASSUME Typed, Order', NeverWritten, [Next]_vars
  PROVE  NeverWritten'
<1>1. ASSUME NEW a \in Agents, NEW op \in Ops, NEW id \in Entities, Begin(a, op, id)
      PROVE  NeverWritten'
  <2>1. UNCHANGED <<files, cache, state>> /\ pc[a] = "idle"
    BY <1>1 DEF Begin
  <2>2. PICK j : j = Begun(a, op, id)
    OBVIOUS
  <2>3. pc' = [pc EXCEPT ![a] = FirstPhase(op)] /\ job' = [job EXCEPT ![a] = j]
    BY <1>1, <2>2, BeginBegins DEF Moves, Goto
  <2>4. j.index = EmptyIndex
    <3>1. NoJob \in Job /\ NoJob.index = EmptyIndex
      BY NoJobIsJob DEF NoJob
    <3> QED
      BY <2>2, <3>1 DEF Begun, Job
  <2>5. \A b \in Agents : Building(b) => Building(b)'
    BY <2>1, <2>3 DEF Building, Halfway, Typed
  <2>6. \A b \in Agents : job'[b] = job[b] \/ job'[b].index = EmptyIndex
    BY <2>3, <2>4 DEF Typed
  <2>7. \A f \in Files : Forgotten(f) => Forgotten(f)'
    BY <2>1, <2>6 DEF Forgotten, EmptyIndex
  <2> QED
    BY <2>1, <2>5, <2>7 DEF NeverWritten, Sound
<1>2. ASSUME NEW p \in Processes, Crash(p)
      PROVE  NeverWritten'
  <2>1. /\ pc' = [b \in Agents |-> IF b \in p THEN "idle" ELSE pc[b]]
        /\ job' = [b \in Agents |-> IF b \in p THEN NoJob ELSE job[b]]
        /\ state' = IF \E b \in p : Halfway(b) THEN "torn" ELSE state
        /\ cache' = [cache EXCEPT ![p] = None] /\ UNCHANGED files
    BY <1>2 DEF Crash
  <2>2. CASE state' = "torn"
    BY <2>2 DEF NeverWritten, Sound
  <2>3. CASE state' = state /\ \A b \in p : ~Halfway(b)
    <3>1. \A b \in Agents : Building(b) => Building(b)'
      BY <2>1, <2>3 DEF Building, Halfway
    <3>2. \A b \in Agents : job'[b] = job[b] \/ job'[b].index = EmptyIndex
      BY <2>1 DEF NoJob
    <3>3. \A q \in Processes : cache'[q] = cache[q] \/ cache'[q] = None
      BY <2>1 DEF Typed
    <3>4. \A f \in Files : Forgotten(f) => Forgotten(f)'
      BY <3>2, <3>3 DEF Forgotten, EmptyIndex
    <3> QED
      BY <2>1, <2>3, <3>1, <3>4 DEF NeverWritten, Sound
  <2> QED
    BY <2>1, <2>2, <2>3
<1>3. ASSUME UNCHANGED <<files, cache, state, pc, job>>
      PROVE  NeverWritten'
  BY <1>3 DEF NeverWritten, Sound, Building, Halfway, Forgotten
<1>4. ASSUME NEW id \in Entities, NEW entry \in Contents \cup {None}, Change(id, entry)
      PROVE  NeverWritten'
  BY <1>3, <1>4 DEF Change, ghosts
<1>5. CASE UNCHANGED vars
  BY <1>3, <1>5 DEF vars, ghosts
<1> QED
  BY <1>1, <1>2, <1>4, <1>5, NextIs, NothingIsLearnt

LEMMA AlwaysNeverWritten == Spec => [](Locked => NeverWritten)
<1>1. Init => (Locked => NeverWritten)
  BY DEF Init, NeverWritten, Forgotten, NoJob, EmptyIndex
<1>2. /\ Typed /\ (Locked => NeverWritten) /\ (Locked => Order)' /\ [Next]_vars
      => (Locked => NeverWritten)'
  <2> SUFFICES ASSUME Typed, Locked => NeverWritten, (Locked => Order)', [Next]_vars, Locked'
               PROVE  NeverWritten'
    OBVIOUS
  <2>1. Locked
    BY DeploymentStays DEF Locked, Writers, LockedAgents
  <2> QED
    BY <2>1, NextLearnsNothing
<1> QED
  BY <1>1, <1>2, AlwaysTyped, AlwaysInOrder, PTL DEF Spec

\* What a query has asked and been told, place by place: the files as they are.
Asking(a) ==
  /\ pc[a] = "stat" =>
       \A i \in 1 .. 5 : i < job[a].next => job[a].fp[FileNames[i]] = Stamp(FileNames[i])
  /\ pc[a] = "lookup" => \A f \in Files : job[a].fp[f] = Stamp(f)
  /\ pc[a] = "read" => \A i \in 1 .. 5 : i < job[a].next => Holds(a, FileNames[i])
  /\ pc[a] = "keep" => \A f \in Files : Holds(a, f)
  /\ pc[a] = "answer" /\ Sound => \A f \in Files : Holds(a, f)

\* Whoever takes the lock is alone with the files: no writer goes without it.
Alone == Writers \subseteq LockedAgents

Asked == Alone => \A a \in LockedAgents : job[a].op = "query" => Asking(a)

LEMMA LockedAreAgents ==
  ASSUME Typed
  PROVE  LockedAgents \subseteq Agents
BY AgentsAssumption DEF Typed, Deployment, LockedAgents

LEMMA NobodyWrites ==
  ASSUME Typed, InTurn, Alone, NEW a \in LockedAgents, job[a].op = "query", pc[a] # "idle"
  PROVE  \A b \in Agents : job[b].op = "query"
<1>1. ASSUME NEW b \in Agents, job[b].op # "query"
      PROVE  FALSE
  <2>1. b \in LockedAgents /\ pc[b] # "idle"
    BY <1>1 DEF InTurn, Resting, Writers, Alone
  <2>2. a = b
    BY <2>1 DEF InTurn
  <2> QED
    BY <1>1, <2>2
<1> QED
  BY <1>1

LEMMA AskingStays ==
  ASSUME NEW a \in Agents, UNCHANGED files, pc'[a] = pc[a], job'[a] = job[a], Sound' => Sound,
         Asking(a)
  PROVE  Asking(a)'
<1>1. \A f : Data(f)' = Data(f) /\ Stamp(f)' = Stamp(f)
  BY DEF Data, Stamp
<1> QED
  BY <1>1 DEF Asking, Holds

\* A snapshot of the cache that looks like the files is what they hold.
LEMMA HitsAreWhole ==
  ASSUME Typed, Honest, NeverWritten, Sound, \A b \in Agents : job[b].op = "query",
         NEW p \in Processes, cache[p] # None, NEW f \in Files, cache[p].fp[f] = Stamp(f)
  PROVE  cache[p].index[f] = Data(f)
<1>1. CASE files[f] = None
  <2>1. \A b \in Agents : ~Building(b)
    BY DEF Building
  <2>2. Forgotten(f)
    BY <1>1, <2>1 DEF NeverWritten
  <2> QED
    BY <1>1, <2>2 DEF Forgotten, Data
<1>2. CASE files[f] # None
  <2>1. Vouches(files[f], cache[p].fp[f], cache[p].index[f])
    BY DEF Honest
  <2> QED
    BY <1>2, <2>1 DEF Vouches, Stamp, Data
<1> QED
  BY <1>1, <1>2

LEMMA AsksOn ==
  ASSUME Typed, Honest, NeverWritten, \A b \in Agents : job[b].op = "query",
         NEW a \in Agents, Goes(a), Asking(a)
  PROVE  Asking(a)'
<1>0. /\ job \in [Agents -> Job] /\ pc \in [Agents -> Phases] /\ job[a] \in Job
      /\ job[a].next \in 1 .. 5 /\ Fits(pc[a], job[a]) /\ job[a].op = "query"
      /\ UNCHANGED <<files, state>> /\ job[a].index \in Index /\ job[a].fp \in [Files -> Nat]
  BY QueriesOnlyRead DEF Typed, Job
<1>1. \A f : Data(f)' = Data(f) /\ Stamp(f)' = Stamp(f)
  BY <1>0 DEF Data, Stamp
<1>2. Sound' <=> Sound
  BY <1>0 DEF Sound
<1>3. pc[a] \in {"idle", "end", "invalidate_last", "read", "stat", "lookup", "keep", "answer"}
  BY <1>0 DEF Fits, Phases, Changing, EngineOps
<1> PICK f \in Files : f = FileNames[job[a].next]
  BY <1>0, FileNamesAre
<1>4. CASE Stat(a)
  <2> PICK s \in Nat : s = Stamp(f)
    BY StampsAreNumbers
  <2> DEFINE j == [job[a] EXCEPT !.fp[f] = s]
  <2>1. j.fp = [job[a].fp EXCEPT ![f] = s] /\ j.next = job[a].next /\ j \in Job
    BY <1>0 DEF Job
  <2>2. \A g \in Files : j.fp[g] = IF g = f THEN s ELSE job[a].fp[g]
    BY <1>0, <2>1
  <2> HIDE DEF j
  <2>3. Proceed(a, j, FileNames, "lookup") /\ pc[a] = "stat"
    BY <1>4 DEF Stat, j
  <2>4. \A i \in 1 .. 5 : i < job[a].next + 1 => j.fp[FileNames[i]] = Stamp(FileNames[i])
    BY <1>0, <2>2, <2>3, FileNamesAre DEF Asking
  <2>5. CASE job[a].next < 5
    <3>1. pc'[a] = "stat" /\ job'[a] = [j EXCEPT !.next = @ + 1]
      BY <1>0, <2>1, <2>3, <2>5, FileNamesAre DEF Proceed
    <3>2. job'[a].next = job[a].next + 1 /\ job'[a].fp = j.fp
      BY <2>1, <3>1 DEF Job
    <3> QED
      BY <1>1, <2>4, <3>1, <3>2 DEF Asking
  <2>6. CASE job[a].next = 5
    <3>1. pc'[a] = "lookup" /\ job'[a] = [j EXCEPT !.next = 1]
      BY <1>0, <2>1, <2>3, <2>6, FileNamesAre DEF Proceed, Goto
    <3>2. job'[a].fp = j.fp
      BY <2>1, <3>1 DEF Job
    <3>3. \A g \in Files : j.fp[g] = Stamp(g)
      BY <2>4, <2>6, EveryFileHasANumber
    <3> QED
      BY <1>1, <3>1, <3>2, <3>3 DEF Asking
  <2> QED
    BY <1>0, <2>5, <2>6
<1>5. CASE Read(a)
  <2> PICK d : d = Data(f)
    OBVIOUS
  <2> DEFINE j == [job[a] EXCEPT !.index[f] = d]
  <2>1. j.index = [job[a].index EXCEPT ![f] = d] /\ j.next = job[a].next
    BY <1>0 DEF Job
  <2>2. \A g \in Files : j.index[g] = IF g = f THEN d ELSE job[a].index[g]
    BY <1>0, <2>1 DEF Index
  <2>3. j \in Job
    <3>1. [job[a].index EXCEPT ![f] = d] \in Index
      BY <1>0, DataIsData, PartIsPut
    <3> QED
      BY <1>0, <3>1 DEF Job
  <2> HIDE DEF j
  <2>4. PICK phase \in {"answer", "keep"} : Proceed(a, j, FileNames, phase)
    BY <1>0, <1>5 DEF Read, j
  <2>5. pc[a] = "read"
    BY <1>5 DEF Read
  <2>6. \A i \in 1 .. 5 : i < job[a].next + 1 => j.index[FileNames[i]] = Data(FileNames[i])
    BY <1>0, <2>2, <2>5, FileNamesAre DEF Asking, Holds
  <2>7. CASE job[a].next < 5
    <3>1. pc'[a] = "read" /\ job'[a] = [j EXCEPT !.next = @ + 1]
      BY <1>0, <2>1, <2>4, <2>5, <2>7, FileNamesAre DEF Proceed
    <3>2. job'[a].next = job[a].next + 1 /\ job'[a].index = j.index
      BY <2>1, <2>3, <3>1 DEF Job
    <3> QED
      BY <1>1, <2>6, <3>1, <3>2 DEF Asking, Holds
  <2>8. CASE job[a].next = 5
    <3>1. pc'[a] = phase /\ job'[a] = [j EXCEPT !.next = 1]
      BY <1>0, <2>1, <2>4, <2>8, FileNamesAre DEF Proceed, Goto
    <3>2. job'[a].index = j.index
      BY <2>3, <3>1 DEF Job
    <3>3. \A g \in Files : j.index[g] = Data(g)
      BY <2>6, <2>8, EveryFileHasANumber
    <3> QED
      BY <1>1, <3>1, <3>2, <3>3 DEF Asking, Holds
  <2> QED
    BY <1>0, <2>7, <2>8
<1>6. CASE Hit(a)
  <2> PICK p \in Processes : p = ProcessOf(a)
    BY AgentsAssumption DEF ProcessOf
  <2>1. /\ pc[a] = "lookup" /\ pc'[a] = "answer" /\ cache[p] # None /\ cache[p].fp = job[a].fp
        /\ job'[a].index = cache[p].index
    BY <1>0, <1>6 DEF Hit, Goto, Job
  <2>2. \A g \in Files : job[a].fp[g] = Stamp(g)
    BY <2>1 DEF Asking
  <2>3. ASSUME Sound, NEW g \in Files
        PROVE  job'[a].index[g] = Data(g)
    BY <2>1, <2>2, <2>3, HitsAreWhole
  <2> QED
    BY <1>1, <1>2, <2>1, <2>3 DEF Asking, Holds
<1>7. CASE Miss(a)
  <2>1. pc'[a] = "read" /\ job' = job /\ job[a].next = 1
    BY <1>0, <1>7 DEF Miss, Goto, Fits
  <2> QED
    BY <2>1 DEF Asking
<1>8. CASE Keep(a)
  <2>1. pc[a] = "keep" /\ pc'[a] = "answer" /\ job'[a].index = job[a].index
    BY <1>0, <1>8 DEF Keep, Goto, Job
  <2> QED
    BY <1>1, <2>1 DEF Asking, Holds
<1>9. CASE End(a) \/ Answer(a) \/ Fail(a) \/ Invalidate(a)
  <2>1. pc'[a] \in {"idle", "end"}
    BY <1>0, <1>3, <1>9 DEF End, Answer, Fail, Invalidate, Finish, Goto
  <2> QED
    BY <2>1 DEF Asking
<1> QED
  BY <1>0, <1>3, <1>4, <1>5, <1>6, <1>7, <1>8, <1>9
     DEF Goes, ApplyUpdate, ApplyRemove, ApplyOptimize, Delete, List, Load, Count, NotFound,
         Write, LoadEntity, Select, Commit, Look, Copy

LEMMA NextIsAsked ==
  ASSUME Typed, InTurn, Honest, Locked => NeverWritten, Asked, [Next]_vars
  PROVE  Asked'
<1>0. UNCHANGED deployment
  BY DeploymentStays
<1> SUFFICES ASSUME Alone, NEW a \in LockedAgents, job'[a].op = "query"
             PROVE  Asking(a)'
  BY <1>0 DEF Asked, Alone, Writers, LockedAgents
<1>1. a \in Agents /\ Locked
  BY LockedAreAgents DEF Alone, Locked
<1>2. job[a].op = "query" => Asking(a)
  BY DEF Asked
<1>3. ASSUME UNCHANGED files, state' \in {state, "torn"},
             pc'[a] = "idle" \/ (pc'[a] = pc[a] /\ job'[a] = job[a])
      PROVE  Asking(a)'
  <2>1. CASE pc'[a] = "idle"
    BY <2>1 DEF Asking
  <2>2. CASE pc'[a] = pc[a] /\ job'[a] = job[a]
    BY <1>1, <1>2, <1>3, <2>2, AskingStays DEF Sound
  <2> QED
    BY <1>3, <2>1, <2>2
<1>4. ASSUME NEW b \in Agents, NEW op \in Ops, NEW id \in Entities, Begin(b, op, id)
      PROVE  Asking(a)'
  <2> PICK j : j = Begun(b, op, id)
    OBVIOUS
  <2>1. j.op = op /\ j.next = 1
    BY NoJobIsJob DEF Begun, Job, NoJob
  <2>2. pc' = [pc EXCEPT ![b] = FirstPhase(op)] /\ job' = [job EXCEPT ![b] = j]
    BY <1>4, BeginBegins DEF Moves, Goto
  <2>3. UNCHANGED <<files, state>>
    BY <1>4 DEF Begin
  <2>4. CASE a = b
    <3>1. pc'[a] = FirstPhase(op) /\ job'[a] = j
      BY <1>1, <2>2, <2>4 DEF Typed
    <3>2. pc'[a] \in {"read", "stat"}
      BY <2>1, <3>1, FirstPhasesAre
    <3> QED
      BY <2>1, <3>1, <3>2 DEF Asking
  <2>5. CASE a # b
    BY <1>1, <1>3, <2>2, <2>3, <2>5 DEF Typed
  <2> QED
    BY <2>4, <2>5
<1>5. ASSUME NEW b \in Agents, Goes(b)
      PROVE  Asking(a)'
  <2>1. CASE a = b /\ job[a].op # "query"
    <3>1. pc'[a] \in Resting
      BY <1>5, <2>1, AgentsGoOn DEF GoesOn
    <3> QED
      BY <3>1 DEF Asking, Resting
  <2>2. CASE a = b /\ job[a].op = "query"
    <3>1. pc[a] # "idle"
      BY <1>5, <2>2, AgentsGoOn
    <3>2. \A e \in Agents : job[e].op = "query"
      BY <2>2, <3>1, NobodyWrites
    <3> QED
      BY <1>1, <1>2, <1>5, <2>2, <3>2, AsksOn
  <2>3. CASE a # b
    <3>1. pc'[a] = pc[a] /\ job'[a] = job[a]
      BY <1>1, <1>5, <2>3, GoesAreSteps, OthersWait
    <3>2. CASE pc[a] = "idle"
      BY <3>1, <3>2 DEF Asking
    <3>3. CASE pc[a] # "idle"
      <4>1. job[b].op = "query"
        BY <3>1, <3>3, NobodyWrites
      <4>2. UNCHANGED <<files, state>>
        BY <1>5, <4>1, QueriesOnlyRead
      <4> QED
        BY <1>3, <3>1, <4>2
    <3> QED
      BY <3>2, <3>3
  <2> QED
    BY <2>1, <2>2, <2>3
<1>6. ASSUME NEW p \in Processes, Crash(p)
      PROVE  Asking(a)'
  <2>1. UNCHANGED files /\ state' \in {state, "torn"}
    BY <1>6 DEF Crash
  <2>2. pc'[a] = "idle" \/ (pc'[a] = pc[a] /\ job'[a] = job[a])
    BY <1>1, <1>6 DEF Crash
  <2> QED
    BY <1>3, <2>1, <2>2
<1>7. ASSUME NEW id \in Entities, NEW entry \in Contents \cup {None}, Change(id, entry)
      PROVE  Asking(a)'
  BY <1>3, <1>7 DEF Change, ghosts
<1>8. CASE UNCHANGED vars
  BY <1>3, <1>8 DEF vars, ghosts
<1> QED
  BY <1>4, <1>5, <1>6, <1>7, <1>8, NextIs

LEMMA AlwaysAsked == Spec => []Asked
<1>1. Init => Asked
  <2>1. ASSUME Init, NEW a \in LockedAgents
        PROVE  Asking(a)
    <3>1. a \in Agents
      BY <2>1, AgentsAssumption DEF Init, Deployment, LockedAgents
    <3> QED
      BY <2>1, <3>1 DEF Init, Asking
  <2> QED
    BY <2>1 DEF Asked
<1>2. Typed /\ InTurn /\ Honest /\ (Locked => NeverWritten) /\ Asked /\ [Next]_vars => Asked'
  BY NextIsAsked
<1> QED
  BY <1>1, <1>2, AlwaysTyped, AlwaysInTurn, AlwaysHonest, AlwaysNeverWritten, PTL DEF Spec

\* Either nobody takes the lock, or every one that writes does.
NobodyBypasses == LockedAgents = {} \/ Writers \subseteq LockedAgents

\* A query under the lock answers from files that agree, read or cached, where no
\* writer goes round the lock.
THEOREM AnswersAreWholeUnderTheLock == Spec /\ NobodyBypasses => AnswersAreWhole
<1>1. NobodyBypasses /\ Typed /\ [Next]_vars => NobodyBypasses'
  BY DeploymentStays DEF NobodyBypasses, Writers, LockedAgents
<1>2. ASSUME NobodyBypasses, Typed, InTurn, Locked => Order, Asked,
             NEW a \in LockedAgents, pc[a] = "answer", Sound
      PROVE  Agree(job[a].index)
  <2>1. Alone /\ Locked /\ a \in Agents
    BY <1>2, LockedAreAgents DEF NobodyBypasses, Alone, Locked
  <2>2. job[a].op = "query"
    BY <1>2, <2>1 DEF Typed, Fits
  <2>3. \A b \in Agents : job[b].op = "query"
    BY <1>2, <2>1, <2>2, NobodyWrites
  <2>4. Quiet
    BY <1>2, <2>3 DEF Quiet, Halfway, Typed, Fits, EngineOps
  <2>5. Agree(OnDisk)
    BY <1>2, <2>1, <2>4 DEF Order, Good
  <2>6. \A f \in Files : job[a].index[f] = OnDisk[f]
    BY <1>2, <2>1, <2>2 DEF Asked, Asking, Holds, OnDisk
  <2> QED
    BY <2>5, <2>6, SameParts
<1>3. NobodyBypasses /\ Typed /\ InTurn /\ (Locked => Order) /\ Asked /\ [Next]_vars =>
        [\A a \in LockedAgents :
           pc[a] = "answer" /\ pc'[a] = "end" /\ Sound => Agree(job[a].index)]_vars
  BY <1>2
<1> QED
  BY <1>1, <1>3, AlwaysTyped, AlwaysInTurn, AlwaysInOrder, AlwaysAsked, PTL
     DEF Spec, AnswersAreWhole

===============================================================================
