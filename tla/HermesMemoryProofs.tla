-------------------------- MODULE HermesMemoryProofs --------------------------
(***************************************************************************)
(* Behind the hooks and beside the save tool, for any agents, deployments, *)
(* items, batches, goals and bounds: what a save returned as saved stays   *)
(* retrievable, the index follows the repository, agents with one goal     *)
(* share a campaign, and no item is dropped.                               *)
(***************************************************************************)
EXTENDS HermesMemory, SequenceTheorems, FiniteSetTheorems, TLAPS

----
(* What a list of items holds.                                             *)

LEMMA EmptyHoldsNothing == In(<< >>) = {}
BY DEF In

LEMMA HeadAndTail ==
  ASSUME NEW s \in Seq(Items), s # << >>
  PROVE  /\ Head(s) \in Items /\ Tail(s) \in Seq(Items)
         /\ Head(s) \in In(s)
         /\ In(s) = {Head(s)} \cup In(Tail(s))
<1>1. Len(s) \in Nat /\ Len(s) > 0 /\ Head(s) = s[1]
  BY EmptySeq, LenProperties
<1>2. /\ Head(s) \in Items /\ Tail(s) \in Seq(Items)
      /\ Len(Tail(s)) = Len(s) - 1
      /\ \A i \in 1 .. Len(Tail(s)) : Tail(s)[i] = s[i + 1]
  BY HeadTailProperties
<1>3. Head(s) \in In(s)
  BY <1>1 DEF In
<1>4. ASSUME NEW x \in In(s) PROVE x = Head(s) \/ x \in In(Tail(s))
  <2>1. PICK i \in 1 .. Len(s) : x = s[i]
    BY DEF In
  <2>2. CASE i > 1
    <3>1. i - 1 \in 1 .. Len(Tail(s)) /\ x = Tail(s)[i - 1]
      BY <1>1, <1>2, <2>1, <2>2
    <3> QED
      BY <3>1 DEF In
  <2> QED
    BY <1>1, <2>1, <2>2
<1>5. ASSUME NEW x \in In(Tail(s)) PROVE x \in In(s)
  <2>1. PICK i \in 1 .. Len(Tail(s)) : x = Tail(s)[i]
    BY DEF In
  <2>2. i + 1 \in 1 .. Len(s) /\ x = s[i + 1]
    BY <1>1, <1>2, <2>1
  <2> QED
    BY <2>2 DEF In
<1> QED
  BY <1>2, <1>3, <1>4, <1>5

LEMMA AppendHolds ==
  ASSUME NEW s \in Seq(Items), NEW x \in Items
  PROVE  /\ Append(s, x) \in Seq(Items)
         /\ In(Append(s, x)) = In(s) \cup {x}
<1>1. /\ Append(s, x) \in Seq(Items) /\ Len(Append(s, x)) = Len(s) + 1
      /\ \A i \in 1 .. Len(s) : Append(s, x)[i] = s[i]
      /\ Append(s, x)[Len(s) + 1] = x
      /\ Len(s) \in Nat
  BY AppendProperties, LenProperties
<1>2. ASSUME NEW y \in In(Append(s, x)) PROVE y \in In(s) \cup {x}
  <2>1. PICK i \in 1 .. Len(Append(s, x)) : y = Append(s, x)[i]
    BY DEF In
  <2>2. i \in 1 .. Len(s) \/ i = Len(s) + 1
    BY <1>1, <2>1
  <2> QED
    BY <1>1, <2>1, <2>2 DEF In
<1>3. ASSUME NEW y \in In(s) PROVE y \in In(Append(s, x))
  <2>1. PICK i \in 1 .. Len(s) : y = s[i]
    BY DEF In
  <2>2. i \in 1 .. Len(Append(s, x)) /\ y = Append(s, x)[i]
    BY <1>1, <2>1
  <2> QED
    BY <2>2 DEF In
<1>4. x \in In(Append(s, x))
  <2>1. Len(s) + 1 \in 1 .. Len(Append(s, x))
    BY <1>1
  <2> QED
    BY <1>1, <2>1 DEF In
<1> QED
  BY <1>1, <1>2, <1>3, <1>4

LEMMA SingletonHolds ==
  ASSUME NEW x \in Items
  PROVE  /\ <<x>> \in Seq(Items) /\ <<x>> # << >>
         /\ In(<<x>>) = {x} /\ Head(<<x>>) = x
BY DEF In

LEMMA HeldAreItems ==
  ASSUME NEW s \in Seq(Items)
  PROVE  In(s) \subseteq Items
BY ElementOfSeq DEF In

----
(* Types.                                                                  *)

\* What an agent holds at each place of its code.
Shape(phase, t) ==
  /\ phase = "idle" => t = NoTask
  /\ phase \in {"wait_save", "wait_retrieve", "tool_register"} \cup RetrievePhases
       => t.saved = << >>
  /\ phase \in {"canonicalize", "index"} \cup ToolPhases => t.todo # << >>
  /\ phase \in {"index_new", "verify", "canonicalize", "index"}
       => In(t.todo) \subseteq In(t.saved)
  /\ phase \in ToolPhases \ {"tool_register"} => In(t.saved) = {Head(t.todo)}
  /\ phase = "index_campaign" => t.campaign \in Campaigns

\* The hooks run in one process, the save tool in the other.
Place(a, phase) ==
  /\ phase \in ToolPhases => a \in deployment.server
  /\ phase \notin ToolPhases \cup {"idle"} => a \in deployment.hooks

Typed ==
  /\ deployment \in Deployments
  /\ TypeOK
  /\ \A a \in Agents : Shape(pc[a], task[a]) /\ Place(a, pc[a])

\* An agent goes on to a place, holding t.
Moves(a, phase, t) ==
  /\ phase \in Phases /\ t \in Task /\ Shape(phase, t) /\ Place(a, phase)
  /\ pc' = [pc EXCEPT ![a] = phase]
  /\ task' = [task EXCEPT ![a] = t]
  /\ UNCHANGED deployment

LEMMA MovesKeepTypes ==
  ASSUME Typed, NEW a \in Agents, NEW phase, NEW t, Moves(a, phase, t)
  PROVE  /\ pc' \in [Agents -> Phases]
         /\ task' \in [Agents -> Task]
         /\ deployment' = deployment
         /\ \A b \in Agents : (Shape(pc[b], task[b]) /\ Place(b, pc[b]))'
         /\ pc'[a] = phase /\ task'[a] = t
         /\ \A b \in Agents \ {a} : pc'[b] = pc[b] /\ task'[b] = task[b]
<1>1. pc'[a] = phase /\ task'[a] = t
  BY DEF Moves, Typed, TypeOK
<1>2. \A b \in Agents \ {a} : pc'[b] = pc[b] /\ task'[b] = task[b]
  BY DEF Moves, Typed, TypeOK
<1>3. pc' \in [Agents -> Phases] /\ task' \in [Agents -> Task]
  BY DEF Moves, Typed, TypeOK
<1>4. deployment' = deployment
  BY DEF Moves
<1>5. \A b \in Agents : Shape(pc'[b], task'[b])
  BY <1>1, <1>2 DEF Moves, Typed
<1>6. \A b \in Agents : /\ pc'[b] \in ToolPhases => b \in deployment'.server
                        /\ pc'[b] \notin ToolPhases \cup {"idle"} => b \in deployment'.hooks
  BY <1>1, <1>2, <1>4 DEF Moves, Typed, Place
<1>7. \A b \in Agents : Shape(pc[b], task[b])'
  BY <1>5 DEF Shape
<1>8. \A b \in Agents : Place(b, pc[b])'
  BY <1>6 DEF Place
<1> QED
  BY <1>1, <1>2, <1>3, <1>4, <1>7, <1>8

LEMMA NoTaskIsATask == NoTask \in Task /\ Shape("idle", NoTask) /\ NoTask.saved = << >>
BY EmptySeq DEF NoTask, Task, Shape, ToolPhases, RetrievePhases

\* Campaign documents are never mistaken for what is not there.
LEMMA CampaignsExist ==
  ASSUME Typed, NEW c \in Campaigns
  PROVE  /\ c \in Existing <=> campaigns[c] \in Campaign
         /\ c \notin Existing <=> campaigns[c] = NoCampaign
BY DEF Existing, Typed, TypeOK, Campaign, NoCampaign, CampaignStates


----
(* There is always a campaign id left for the call that creates one.       *)

\* The calls that may still create a campaign.
Creators ==
  {a \in Agents : pc[a] \in {"wait_retrieve", "find_active", "find_goal", "create"}}

Room ==
  /\ IsFiniteSet(Creators)
  /\ Cardinality(Existing) + Cardinality(Creators) + calls <= deployment.calls

LEMMA ExistingIsFinite ==
  /\ IsFiniteSet(Existing) /\ Cardinality(Existing) \in Nat
  /\ Cardinality(Campaigns) \in Nat
<1>1. Existing \in SUBSET Campaigns
  BY DEF Existing
<1> QED
  BY <1>1, CampaignsAssumption, FS_Subset, FS_CardinalityType

LEMMA RoomToCreate ==
  ASSUME Typed, Room, NEW a \in Agents, pc[a] = "create"
  PROVE  LET c == CHOOSE c \in Campaigns : c \notin Existing
         IN  c \in Campaigns /\ c \notin Existing
<1>1. Cardinality(Creators) \in Nat /\ Cardinality(Creators) > 0
  <2>1. a \in Creators
    BY DEF Creators
  <2> QED
    BY <2>1, FS_EmptySet, FS_CardinalityType DEF Room
<1>2. /\ Cardinality(Existing) \in Nat /\ Cardinality(Campaigns) \in Nat
  BY ExistingIsFinite
<1>3. calls \in Nat /\ deployment.calls \in 0 .. Cardinality(Campaigns)
  BY <1>2, DeploymentsAssumption DEF Typed, TypeOK
<1>4. Cardinality(Existing) < Cardinality(Campaigns)
  BY <1>1, <1>2, <1>3 DEF Room
<1>5. Existing # Campaigns
  BY <1>2, <1>4
<1>6. \E c \in Campaigns : c \notin Existing
  BY <1>5 DEF Existing
<1> QED
  BY <1>6

----
(* Where a step leads, and what the agent holds there.                     *)

\* The agent goes on to a place with what it has.
LEMMA Stays ==
  ASSUME Typed, NEW a \in Agents, NEW phase \in Phases,
         Goto(a, phase), UNCHANGED <<task, deployment>>,
         Shape(phase, task[a]), Place(a, phase)
  PROVE  Moves(a, phase, task[a])
BY DEF Typed, TypeOK, Goto, Moves

LEMMA Leaves ==
  ASSUME Typed, NEW a \in Agents, Goto(a, "idle"),
         task' = [task EXCEPT ![a] = NoTask], UNCHANGED deployment
  PROVE  Moves(a, "idle", NoTask)
BY NoTaskIsATask DEF Goto, Moves, Phases, Place, ToolPhases

\* A list with the next item done.
LEMMA TaskWithTodo ==
  ASSUME NEW t \in Task, NEW items \in Seq(Items)
  PROVE  LET u == [t EXCEPT !.todo = items]
         IN  /\ u \in Task /\ u.todo = items /\ u.saved = t.saved
             /\ u.asked = t.asked /\ u.campaign = t.campaign /\ u.goal = t.goal
BY DEF Task

LEMMA TodoMoves ==
  ASSUME Typed, NEW a \in Agents, NEW phase \in Phases, NEW items \in Seq(Items),
         Todo(a, items), pc' = [pc EXCEPT ![a] = phase], UNCHANGED deployment,
         Shape(phase, [task[a] EXCEPT !.todo = items]), Place(a, phase)
  PROVE  Moves(a, phase, [task[a] EXCEPT !.todo = items])
<1>1. task[a] \in Task /\ task' = [task EXCEPT ![a] = [task[a] EXCEPT !.todo = items]]
  BY DEF Todo, Typed, TypeOK, Task
<1> QED
  BY <1>1, TaskWithTodo DEF Moves

LEMMA SaveMoves ==
  ASSUME Typed, NEW a \in Agents,
         \/ Registered(a) \/ IndexNew(a) \/ Verify(a) \/ Canonicalize(a)
         \/ Index(a) \/ AllCanonical(a) \/ CreateSnapshot(a)
         \/ RegisterFails(a) \/ Queue(a)
  PROVE  \E phase, t : Moves(a, phase, t)
<1>0. /\ Shape(pc[a], task[a]) /\ Place(a, pc[a]) /\ pc[a] \in Phases
      /\ task[a] \in Task /\ task[a].todo \in Seq(Items) /\ task[a].saved \in Seq(Items)
      /\ pc = [pc EXCEPT ![a] = pc[a]]
  BY DEF Typed, TypeOK, Task
<1>1. \A phase \in SavePhases \cup {"release"} :
         pc[a] \in SavePhases => Place(a, phase) /\ phase \in Phases
  BY <1>0 DEF Place, SavePhases, ToolPhases, Phases
<1>2. CASE Registered(a)
  <2>1. \A phase \in {"index_new", "verify"} :
          Shape(phase, [task[a] EXCEPT !.todo = task[a].saved])
    BY <1>0, TaskWithTodo DEF Shape, ToolPhases, RetrievePhases
  <2>2. \A phase \in {"index_new", "verify"} : Place(a, phase) /\ phase \in Phases
    BY <1>1, <1>2 DEF Registered, SavePhases
  <2> QED
    BY <1>0, <1>2, <2>1, <2>2, TodoMoves DEF Registered, Goto, memory
<1>3. CASE IndexNew(a)
  <2>1. CASE task[a].todo = << >>
    <3>1. Shape("verify", [task[a] EXCEPT !.todo = task[a].saved])
      BY <1>0, TaskWithTodo DEF Shape, ToolPhases, RetrievePhases
    <3>2. Place(a, "verify") /\ "verify" \in Phases
      BY <1>1, <1>3 DEF IndexNew, SavePhases
    <3> QED
      BY <1>0, <1>3, <2>1, <3>1, <3>2, TodoMoves DEF IndexNew, Goto
  <2>2. CASE task[a].todo # << >>
    <3>1. Tail(task[a].todo) \in Seq(Items)
          /\ In(Tail(task[a].todo)) \subseteq In(task[a].todo)
      BY <1>0, <2>2, HeadAndTail
    <3>2. In(task[a].todo) \subseteq In(task[a].saved)
      BY <1>0, <1>3 DEF IndexNew, Shape
    <3>3. Shape("index_new", [task[a] EXCEPT !.todo = Tail(task[a].todo)])
      BY <1>0, <3>1, <3>2, TaskWithTodo DEF Shape, ToolPhases, RetrievePhases
    <3> QED
      BY <1>0, <1>3, <2>2, <3>1, <3>3, TodoMoves DEF IndexNew
  <2> QED
    BY <2>1, <2>2
<1>4. CASE Verify(a)
  <2>1. Shape("canonicalize", task[a])
    BY <1>0, <1>4 DEF Verify, Shape, ToolPhases, RetrievePhases
  <2>2. Place(a, "canonicalize") /\ "canonicalize" \in Phases
    BY <1>1, <1>4 DEF Verify, SavePhases
  <2> QED
    BY <1>4, <2>1, <2>2, Stays DEF Verify
<1>5. CASE Canonicalize(a)
  <2>1. Shape("index", task[a])
    BY <1>0, <1>5 DEF Canonicalize, Shape, ToolPhases, RetrievePhases
  <2>2. Place(a, "index") /\ "index" \in Phases
    BY <1>1, <1>5 DEF Canonicalize, SavePhases
  <2> QED
    BY <1>5, <2>1, <2>2, Stays DEF Canonicalize
<1>6. CASE Index(a)
  <2>1. task[a].todo # << >> /\ In(task[a].todo) \subseteq In(task[a].saved)
    BY <1>0, <1>6 DEF Index, Shape
  <2>2. Tail(task[a].todo) \in Seq(Items)
        /\ In(Tail(task[a].todo)) \subseteq In(task[a].todo)
    BY <1>0, <2>1, HeadAndTail
  <2>3. Shape("verify", [task[a] EXCEPT !.todo = Tail(task[a].todo)])
    BY <1>0, <2>1, <2>2, TaskWithTodo DEF Shape, ToolPhases, RetrievePhases
  <2>4. Place(a, "verify") /\ "verify" \in Phases
    BY <1>1, <1>6 DEF Index, SavePhases
  <2> QED
    BY <1>0, <1>6, <2>2, <2>3, <2>4, TodoMoves DEF Index, Goto
<1>7. CASE AllCanonical(a)
  <2>1. \A phase \in {"snapshot", "release"} :
          /\ Shape(phase, task[a]) /\ Place(a, phase) /\ phase \in Phases
    BY <1>1, <1>7 DEF AllCanonical, SavePhases, Shape, ToolPhases, RetrievePhases
  <2> QED
    BY <1>7, <2>1, Stays DEF AllCanonical, memory
<1>8. CASE CreateSnapshot(a)
  <2>1. Shape("release", task[a]) /\ Place(a, "release") /\ "release" \in Phases
    BY <1>1, <1>8 DEF CreateSnapshot, SavePhases, Shape, ToolPhases, RetrievePhases
  <2> QED
    BY <1>8, <2>1, Stays DEF CreateSnapshot
<1>9. CASE RegisterFails(a) \/ Queue(a)
  <2>1. pc[a] = "register" /\ task[a].todo # << >>
    BY <1>9 DEF RegisterFails, Queue
  <2>2. Tail(task[a].todo) \in Seq(Items)
    BY <1>0, <2>1, HeadAndTail
  <2>3. Shape("register", [task[a] EXCEPT !.todo = Tail(task[a].todo)])
    BY DEF Shape, ToolPhases, RetrievePhases
  <2> QED
    BY <1>0, <1>9, <2>1, <2>2, <2>3, TodoMoves DEF RegisterFails, Queue, memory
<1> QED
  BY <1>2, <1>3, <1>4, <1>5, <1>6, <1>7, <1>8, <1>9

LEMMA RegisterMoves ==
  ASSUME Typed, NEW a \in Agents, Register(a)
  PROVE  LET t == [task[a] EXCEPT !.todo = Tail(task[a].todo),
                                  !.saved = Append(task[a].saved, Head(task[a].todo))]
         IN  Moves(a, "register", t)
<1> DEFINE t == [task[a] EXCEPT !.todo = Tail(task[a].todo),
                                !.saved = Append(task[a].saved, Head(task[a].todo))]
<1>1. /\ task[a] \in Task /\ task[a].todo \in Seq(Items) /\ task[a].saved \in Seq(Items)
      /\ task[a].todo # << >> /\ pc[a] = "register" /\ Place(a, pc[a])
  BY DEF Typed, TypeOK, Task, Register
<1>2. /\ Head(task[a].todo) \in Items /\ Tail(task[a].todo) \in Seq(Items)
      /\ Append(task[a].saved, Head(task[a].todo)) \in Seq(Items)
  BY <1>1, HeadAndTail, AppendHolds
<1>3. t \in Task
  BY <1>1, <1>2 DEF Task
<1>4. task' = [task EXCEPT ![a] = t]
  BY DEF Register, Typed, TypeOK, Task
<1>5. pc' = [pc EXCEPT ![a] = "register"]
  BY <1>1 DEF Register, Typed, TypeOK
<1>6. Shape("register", t)
  BY DEF Shape, ToolPhases, RetrievePhases
<1> QED
  BY <1>1, <1>3, <1>4, <1>5, <1>6 DEF Moves, Register, Phases, SavePhases

\* A retrieve that settles on a campaign.
LEMMA CampaignMoves ==
  ASSUME Typed, NEW a \in Agents, NEW c \in Campaigns, NEW phase \in RetrievePhases,
         pc[a] \in RetrievePhases, UNCHANGED deployment,
         task' = [task EXCEPT ![a].campaign = c], Goto(a, phase)
  PROVE  Moves(a, phase, [task[a] EXCEPT !.campaign = c])
<1> DEFINE t == [task[a] EXCEPT !.campaign = c]
<1>1. /\ task[a] \in Task /\ Shape(pc[a], task[a]) /\ Place(a, pc[a])
      /\ task' = [task EXCEPT ![a] = t]
  BY DEF Typed, TypeOK, Task
<1>2. t \in Task /\ t.saved = task[a].saved /\ t.campaign = c
  BY <1>1 DEF Task
<1>3. Shape(phase, t)
  BY <1>1, <1>2 DEF Shape, ToolPhases, RetrievePhases
<1>4. Place(a, phase) /\ phase \in Phases
  BY <1>1 DEF Place, ToolPhases, RetrievePhases, Phases
<1> QED
  BY <1>1, <1>2, <1>3, <1>4 DEF Moves, Goto

LEMMA CreateMoves ==
  ASSUME Typed, Room, NEW a \in Agents, CreateCampaign(a)
  PROVE  LET c == CHOOSE c \in Campaigns : c \notin Existing
         IN  /\ c \in Campaigns /\ c \notin Existing
             /\ Moves(a, "index_campaign", [task[a] EXCEPT !.campaign = c])
<1> DEFINE c == CHOOSE c \in Campaigns : c \notin Existing
<1>1. c \in Campaigns /\ c \notin Existing
  BY RoomToCreate DEF CreateCampaign
<1> HIDE DEF c
<1>2. task' = [task EXCEPT ![a].campaign = c]
  BY DEF CreateCampaign, c
<1>3. pc[a] \in RetrievePhases /\ "index_campaign" \in RetrievePhases
  BY DEF CreateCampaign, RetrievePhases
<1>4. Moves(a, "index_campaign", [task[a] EXCEPT !.campaign = c])
  BY <1>1, <1>2, <1>3, CampaignMoves DEF CreateCampaign
<1> QED
  BY <1>1, <1>4 DEF c

LEMMA RetrieveMoves ==
  ASSUME Typed, NEW a \in Agents,
         \/ FindGiven(a) \/ FindActive(a) \/ FindByGoal(a)
         \/ IndexCampaign(a) \/ LoadSnapshot(a) \/ Retrieve(a)
  PROVE  \E phase, t : Moves(a, phase, t)
<1>1. /\ Shape(pc[a], task[a]) /\ Place(a, pc[a])
      /\ pc[a] \in RetrievePhases /\ UNCHANGED deployment
  BY DEF Typed, FindGiven, FindActive, FindByGoal, IndexCampaign, LoadSnapshot, Retrieve,
         RetrievePhases, memory
<1>2. \A phase \in (RetrievePhases \ {"index_campaign"}) \cup {"release"} :
         Shape(phase, task[a]) /\ Place(a, phase) /\ phase \in Phases
  BY <1>1 DEF Shape, Place, ToolPhases, RetrievePhases, Phases
<1>3. ASSUME UNCHANGED task, NEW phase \in (RetrievePhases \ {"index_campaign"}) \cup {"release"},
             Goto(a, phase)
      PROVE  \E p, t : Moves(a, p, t)
  BY <1>1, <1>2, <1>3, Stays
<1>4. ASSUME NEW c \in Existing, task' = [task EXCEPT ![a].campaign = c],
             Goto(a, "load_snapshot")
      PROVE  \E p, t : Moves(a, p, t)
  <2>1. c \in Campaigns /\ "load_snapshot" \in RetrievePhases
    BY DEF Existing, RetrievePhases
  <2> QED
    BY <1>1, <1>4, <2>1, CampaignMoves
<1>5. \A p \in {"load_snapshot", "find_goal", "create", "retrieve", "release"} :
         p \in (RetrievePhases \ {"index_campaign"}) \cup {"release"}
  BY DEF RetrievePhases
<1>6. CASE FindGiven(a)
  BY <1>3, <1>5, <1>6 DEF FindGiven
<1>7. CASE FindActive(a)
  <2>1. CASE \E c \in Existing : /\ task' = [task EXCEPT ![a].campaign = c]
                                 /\ Goto(a, "load_snapshot")
    BY <1>4, <2>1
  <2>2. CASE Goto(a, "find_goal") /\ UNCHANGED task
    BY <1>3, <1>5, <2>2
  <2> QED
    BY <1>7, <2>1, <2>2 DEF FindActive, PickFrom
<1>8. CASE FindByGoal(a)
  <2>1. CASE \E c \in Existing : /\ task' = [task EXCEPT ![a].campaign = c]
                                 /\ Goto(a, "load_snapshot")
    BY <1>4, <2>1
  <2>2. CASE Goto(a, "create") /\ UNCHANGED task
    BY <1>3, <1>5, <2>2
  <2> QED
    BY <1>8, <2>1, <2>2 DEF FindByGoal, PickFrom, Open
<1>9. CASE IndexCampaign(a) \/ LoadSnapshot(a) \/ Retrieve(a)
  BY <1>3, <1>5, <1>9 DEF IndexCampaign, LoadSnapshot, Retrieve
<1> QED
  BY <1>6, <1>7, <1>8, <1>9

LEMMA AcquireMoves ==
  ASSUME Typed, NEW a \in Agents, Acquire(a)
  PROVE  \E phase, t : Moves(a, phase, t)
<1>1. /\ Shape(pc[a], task[a]) /\ Place(a, pc[a])
      /\ pc[a] \in {"wait_save", "wait_retrieve"}
      /\ UNCHANGED <<task, deployment>>
  BY DEF Typed, Acquire, memory
<1>2. /\ Shape("register", task[a])
      /\ pc[a] = "wait_retrieve" => Shape("find_active", task[a])
      /\ \A phase \in {"register", "find_active"} : Place(a, phase) /\ phase \in Phases
  BY <1>1 DEF Shape, Place, ToolPhases, RetrievePhases, SavePhases, Phases
<1> QED
  BY <1>1, <1>2, Stays DEF Acquire

LEMMA LeaveMoves ==
  ASSUME Typed, NEW a \in Agents,
         Release(a) \/ SaveRaises(a) \/ RetrieveRaises(a) \/ ToolLoad(a) \/ ToolRaises(a)
  PROVE  Moves(a, "idle", NoTask)
BY Leaves DEF Release, SaveRaises, RetrieveRaises, Abort, ToolLoad, ToolRaises, memory, Goto

LEMMA ToolMoves ==
  ASSUME Typed, NEW a \in Agents,
         ToolRegister(a) \/ ToolPromote(a) \/ ToolIndex(a)
  PROVE  \E phase, t : Moves(a, phase, t)
<1>1. /\ Shape(pc[a], task[a]) /\ Place(a, pc[a]) /\ pc[a] \in ToolPhases
      /\ task[a] \in Task /\ task[a].todo \in Seq(Items) /\ task[a].todo # << >>
      /\ UNCHANGED deployment
  BY DEF Typed, TypeOK, Task, Shape, ToolRegister, ToolPromote, ToolIndex, ToolPhases
<1>2. \A phase \in ToolPhases : Place(a, phase) /\ phase \in Phases
  BY <1>1 DEF Place, ToolPhases, Phases
<1>3. CASE ToolRegister(a)
  <2> DEFINE h == Head(task[a].todo)
             t == [task[a] EXCEPT !.saved = <<h>>]
  <2>1. h \in Items /\ <<h>> \in Seq(Items) /\ In(<<h>>) = {h}
    BY <1>1, HeadAndTail, SingletonHolds
  <2>2. t \in Task /\ t.saved = <<h>> /\ t.todo = task[a].todo
    BY <1>1, <2>1 DEF Task
  <2>3. task' = [task EXCEPT ![a] = t]
    BY <1>3 DEF ToolRegister, Typed, TypeOK, Task
  <2>4. \A phase \in {"tool_verify", "tool_index"} : Shape(phase, t) /\ phase \in ToolPhases
    BY <1>1, <2>1, <2>2 DEF Shape, ToolPhases, RetrievePhases
  <2> HIDE DEF t
  <2>5. \A phase \in {"tool_verify", "tool_index"} :
          pc' = [pc EXCEPT ![a] = phase] => Moves(a, phase, t)
    BY <1>1, <1>2, <2>2, <2>3, <2>4 DEF Moves
  <2> QED
    BY <1>3, <2>5 DEF ToolRegister, Goto
<1>4. CASE ToolPromote(a) \/ ToolIndex(a)
  <2>1. pc[a] # "tool_register" /\ UNCHANGED task
    BY <1>4 DEF ToolPromote, ToolIndex
  <2>2. \A phase \in {"tool_canonicalize", "tool_index", "tool_load"} :
          Shape(phase, task[a]) /\ phase \in ToolPhases
    BY <1>1, <2>1 DEF Shape, ToolPhases, RetrievePhases
  <2>3. \A phase \in {"tool_canonicalize", "tool_index", "tool_load"} :
          Goto(a, phase) => Moves(a, phase, task[a])
    BY <1>1, <1>2, <2>1, <2>2, Stays
  <2> QED
    BY <1>4, <2>3 DEF ToolPromote, ToolIndex
<1> QED
  BY <1>3, <1>4

LEMMA StepMoves ==
  ASSUME Typed, Room, NEW a \in Agents, Step(a)
  PROVE  \E phase, t : Moves(a, phase, t)
BY SaveMoves, RegisterMoves, CreateMoves, RetrieveMoves, AcquireMoves, LeaveMoves,
   ToolMoves DEF Step

\* The calls.
Calls(a) ==
  \/ \E b \in Batches, asked \in BOOLEAN : SaveAfterTask(a, b, asked)
  \/ \E i \in Items, asked \in BOOLEAN : ToolSave(a, i, asked)
  \/ \E g \in Goals \cup {NoGoal} : RetrieveBeforeTask(a, g, "none")
  \/ \E c \in Existing \cup {"missing"} : RetrieveBeforeTask(a, NoGoal, c)

LEMMA SaveCallMoves ==
  ASSUME Typed, NEW a \in Agents, NEW b \in Batches, NEW asked \in BOOLEAN,
         SaveAfterTask(a, b, asked)
  PROVE  LET t == [NoTask EXCEPT !.todo = b, !.asked = asked]
         IN  t.todo = b /\ t.saved = << >> /\ Moves(a, "wait_save", t)
<1> DEFINE t == [NoTask EXCEPT !.todo = b, !.asked = asked]
<1>1. t \in Task /\ t.todo = b /\ t.saved = << >>
  BY ItemsAssumption, EmptySeq DEF NoTask, Task
<1>2. Shape("wait_save", t) /\ Place(a, "wait_save") /\ "wait_save" \in Phases
  BY <1>1 DEF Shape, Place, ToolPhases, RetrievePhases, Phases, SaveAfterTask
<1> QED
  BY <1>1, <1>2 DEF Moves, SaveAfterTask, Goto, Call, memory

LEMMA ToolCallMoves ==
  ASSUME Typed, NEW a \in Agents, NEW i \in Items, NEW asked \in BOOLEAN,
         ToolSave(a, i, asked)
  PROVE  LET t == [NoTask EXCEPT !.todo = <<i>>, !.asked = asked]
         IN  t.todo = <<i>> /\ t.saved = << >> /\ Moves(a, "tool_register", t)
<1> DEFINE t == [NoTask EXCEPT !.todo = <<i>>, !.asked = asked]
<1>0. <<i>> \in Seq(Items) /\ <<i>> # << >>
  BY SingletonHolds
<1>1. t \in Task /\ t.todo = <<i>> /\ t.saved = << >>
  BY <1>0, EmptySeq DEF NoTask, Task
<1>2. Shape("tool_register", t) /\ Place(a, "tool_register") /\ "tool_register" \in Phases
  BY <1>0, <1>1 DEF Shape, Place, ToolPhases, RetrievePhases, Phases, ToolSave
<1> QED
  BY <1>1, <1>2 DEF Moves, ToolSave, Goto, Call, memory

LEMMA RetrieveCallMoves ==
  ASSUME Typed, NEW a \in Agents, NEW g \in Goals \cup {NoGoal},
         NEW c \in Existing \cup {"none", "missing"}, RetrieveBeforeTask(a, g, c)
  PROVE  LET t == [NoTask EXCEPT !.goal = g, !.campaign = c]
         IN  t.todo = << >> /\ t.saved = << >> /\ Moves(a, "wait_retrieve", t)
<1> DEFINE t == [NoTask EXCEPT !.goal = g, !.campaign = c]
<1>1. t \in Task /\ t.todo = << >> /\ t.saved = << >>
  BY EmptySeq DEF NoTask, Task, Existing
<1>2. Shape("wait_retrieve", t) /\ Place(a, "wait_retrieve") /\ "wait_retrieve" \in Phases
  BY <1>1 DEF Shape, Place, ToolPhases, RetrievePhases, Phases, RetrieveBeforeTask
<1> QED
  BY <1>1, <1>2 DEF Moves, RetrieveBeforeTask, Goto, Call, memory

LEMMA CallsMove ==
  ASSUME Typed, NEW a \in Agents, Calls(a)
  PROVE  \E phase, t : Moves(a, phase, t)
<1>1. ASSUME NEW g \in Goals \cup {NoGoal}, NEW c \in Existing \cup {"none", "missing"},
             RetrieveBeforeTask(a, g, c)
      PROVE  \E phase, t : Moves(a, phase, t)
  BY <1>1, RetrieveCallMoves
<1>2. ASSUME NEW b \in Batches, NEW asked \in BOOLEAN, SaveAfterTask(a, b, asked)
      PROVE  \E phase, t : Moves(a, phase, t)
  BY <1>2, SaveCallMoves
<1>3. ASSUME NEW i \in Items, NEW asked \in BOOLEAN, ToolSave(a, i, asked)
      PROVE  \E phase, t : Moves(a, phase, t)
  BY <1>3, ToolCallMoves
<1> QED
  BY <1>1, <1>2, <1>3 DEF Calls

----
(* What a step writes.                                                     *)

\* Hooks and tool write one item of their list at a time, or the snapshot.
LEMMA StepWrites ==
  ASSUME Typed, NEW a \in Agents, Step(a)
  PROVE  /\ \/ UNCHANGED <<repo, index>>
            \/ /\ \E i \in In(task[a].todo), s \in Stages : repo' = [repo EXCEPT ![i] = s]
               /\ index' = index
            \/ /\ \E i \in In(task[a].todo) : index' = [index EXCEPT ![i] = repo[i]]
               /\ repo' = repo
         /\ \/ snapshot' = snapshot
            \/ snapshot' = index /\ UNCHANGED <<repo, index>>
<1>1. task[a].todo \in Seq(Items) /\ Shape(pc[a], task[a])
  BY DEF Typed, TypeOK, Task
<1>2. task[a].todo # << >> => Head(task[a].todo) \in In(task[a].todo)
  BY <1>1, HeadAndTail
<1>3. {"NEW", "VERIFIED", "CANONICAL"} \subseteq Stages
  BY DEF Stages
<1>4. pc[a] \in {"canonicalize", "index"} \cup ToolPhases => task[a].todo # << >>
  BY <1>1 DEF Shape
<1>5. CASE Register(a) \/ Verify(a) \/ Canonicalize(a) \/ ToolRegister(a) \/ ToolPromote(a)
  BY <1>2, <1>3, <1>4, <1>5
     DEF Register, Verify, Canonicalize, ToolRegister, ToolPromote, ToolPhases
<1>6. CASE IndexNew(a) \/ Index(a) \/ ToolIndex(a)
  BY <1>2, <1>4, <1>6 DEF IndexNew, Index, ToolIndex, Reindex, ToolPhases
<1>7. CASE CreateSnapshot(a)
  BY <1>7 DEF CreateSnapshot
<1>8. CASE \/ Acquire(a) \/ Release(a) \/ RegisterFails(a) \/ Queue(a) \/ Registered(a)
           \/ AllCanonical(a) \/ SaveRaises(a) \/ FindGiven(a) \/ FindActive(a)
           \/ FindByGoal(a) \/ CreateCampaign(a) \/ IndexCampaign(a) \/ LoadSnapshot(a)
           \/ Retrieve(a) \/ RetrieveRaises(a) \/ ToolLoad(a) \/ ToolRaises(a)
  BY <1>8 DEF Acquire, Release, RegisterFails, Queue, Registered, AllCanonical, SaveRaises,
     FindGiven, FindActive, FindByGoal, CreateCampaign, IndexCampaign, LoadSnapshot, Retrieve,
     RetrieveRaises, ToolLoad, ToolRaises, Abort, memory
<1> QED
  BY <1>5, <1>6, <1>7, <1>8 DEF Step

LEMMA StepKeepsDocuments ==
  ASSUME Typed, NEW a \in Agents, Step(a)
  PROVE  ({repo, index, snapshot} \subseteq [Items -> Stages])'
<1>1. /\ repo \in [Items -> Stages] /\ index \in [Items -> Stages]
      /\ snapshot \in [Items -> Stages] /\ task[a].todo \in Seq(Items)
  BY DEF Typed, TypeOK, Task
<1>2. In(task[a].todo) \subseteq Items
  BY <1>1, HeldAreItems
<1>3. repo' \in [Items -> Stages] /\ index' \in [Items -> Stages]
  BY <1>1, <1>2, StepWrites
<1>4. snapshot' \in [Items -> Stages]
  BY <1>1, StepWrites
<1> QED
  BY <1>3, <1>4

\* The campaigns: created, indexed, or as they were.
LEMMA StepWritesCampaigns ==
  ASSUME Typed, Room, NEW a \in Agents, Step(a)
  PROVE  \/ campaigns' = campaigns
         \/ /\ CreateCampaign(a)
            /\ \E c \in Campaigns \ Existing :
                 campaigns' = [campaigns EXCEPT ![c] =
                   NewCampaign(task[a].goal)]
         \/ /\ IndexCampaign(a) /\ task[a].campaign \in Campaigns
            /\ campaigns' = [campaigns EXCEPT ![task[a].campaign].indexed = TRUE]
<1>1. CASE CreateCampaign(a)
  <2> DEFINE c == CHOOSE c \in Campaigns : c \notin Existing
  <2>1. c \in Campaigns \ Existing
    BY <1>1, CreateMoves
  <2>2. campaigns' = [campaigns EXCEPT ![c] =
                   NewCampaign(task[a].goal)]
    BY <1>1 DEF CreateCampaign
  <2> QED
    BY <1>1, <2>1, <2>2
<1>2. CASE IndexCampaign(a)
  BY <1>2 DEF IndexCampaign, Typed, Shape
<1>3. CASE ~CreateCampaign(a) /\ ~IndexCampaign(a)
  BY <1>3 DEF Step, Acquire, Release, Register, RegisterFails, Queue, Registered, IndexNew,
     Verify, Canonicalize, Index, AllCanonical, CreateSnapshot, SaveRaises, FindGiven,
     FindActive, FindByGoal, LoadSnapshot, Retrieve, RetrieveRaises, ToolRegister,
     ToolPromote, ToolIndex, ToolLoad, ToolRaises, Abort, memory
<1> QED
  BY <1>1, <1>2, <1>3

\* A campaign keeps its goal while one of its other fields is set.
LEMMA SetField ==
  ASSUME Typed, NEW c \in Campaigns
  PROVE  /\ \A b \in BOOLEAN :
              LET m == [campaigns[c] EXCEPT !.indexed = b]
              IN  c \in Existing =>
                    /\ m \in Campaign /\ m.indexed = b
                    /\ m.goal = campaigns[c].goal /\ m.status = campaigns[c].status
                    /\ m.named = campaigns[c].named
         /\ \A s \in CampaignStates :
              LET m == [campaigns[c] EXCEPT !.status = s]
              IN  c \in Existing =>
                    /\ m \in Campaign /\ m.status = s
                    /\ m.goal = campaigns[c].goal /\ m.indexed = campaigns[c].indexed
                    /\ m.named = campaigns[c].named
<1>1. c \in Existing => campaigns[c] \in Campaign
  BY CampaignsExist
<1> QED
  BY <1>1 DEF Campaign

\* A campaign that is about to be indexed is there.
Created ==
  \A a \in Agents : pc[a] = "index_campaign" => task[a].campaign \in Existing

LEMMA StepKeepsCampaigns ==
  ASSUME Typed, Room, Created, NEW a \in Agents, Step(a)
  PROVE  /\ campaigns' \in [Campaigns -> Campaign \cup {NoCampaign}]
         /\ \/ Existing' = Existing /\ ~CreateCampaign(a)
            \/ CreateCampaign(a) /\ \E c \in Campaigns \ Existing : Existing' = Existing \cup {c}
<1>1. campaigns \in [Campaigns -> Campaign \cup {NoCampaign}]
  BY DEF Typed, TypeOK
<1>2. \A m \in Campaign : m # NoCampaign
  BY DEF Campaign, NoCampaign, CampaignStates
<1>3. CASE UNCHANGED campaigns
  <2>1. ~CreateCampaign(a)
    <3>1. SUFFICES ASSUME CreateCampaign(a) PROVE FALSE
      OBVIOUS
    <3> DEFINE c == CHOOSE c \in Campaigns : c \notin Existing
               m == NewCampaign(task[a].goal)
    <3>2. c \in Campaigns /\ c \notin Existing
      BY <3>1, CreateMoves
    <3>3. campaigns' = [campaigns EXCEPT ![c] = m]
      BY <3>1 DEF CreateCampaign
    <3>4. campaigns[c] = NoCampaign
      BY <3>2 DEF Existing
    <3>5. m # NoCampaign
      BY DEF NewCampaign, NoCampaign
    <3> HIDE DEF c, m
    <3> QED
      BY <1>1, <1>3, <3>2, <3>3, <3>4, <3>5
  <2> QED
    BY <1>1, <1>3, <2>1 DEF Existing
<1>4. CASE CreateCampaign(a)
  <2> DEFINE m == NewCampaign(task[a].goal)
  <2>1. PICK c \in Campaigns \ Existing : campaigns' = [campaigns EXCEPT ![c] = m]
    <3>1. ~IndexCampaign(a)
      BY <1>4 DEF CreateCampaign, IndexCampaign
    <3> DEFINE d == CHOOSE d \in Campaigns : d \notin Existing
    <3>2. d \in Campaigns \ Existing
      BY <1>4, CreateMoves
    <3>3. campaigns' = [campaigns EXCEPT ![d] = m]
      BY <1>4 DEF CreateCampaign
    <3> HIDE DEF d, m
    <3> QED
      BY <3>2, <3>3
  <2>2. m \in Campaign
    BY GoalsAssumption DEF NewCampaign, Named, Campaign, CampaignStates, Typed, TypeOK, Task
  <2> HIDE DEF m
  <2>3. campaigns' \in [Campaigns -> Campaign \cup {NoCampaign}]
    BY <1>1, <2>1, <2>2
  <2>4. \A x \in Campaigns : campaigns'[x] # NoCampaign <=> x \in Existing \cup {c}
    BY <1>1, <1>2, <2>1, <2>2 DEF Existing
  <2>5. Existing' = Existing \cup {c}
    BY <2>1, <2>4 DEF Existing
  <2> QED
    BY <1>4, <2>1, <2>3, <2>5
<1>5. CASE /\ IndexCampaign(a)
           /\ campaigns' = [campaigns EXCEPT ![task[a].campaign].indexed = TRUE]
  <2> DEFINE c == task[a].campaign
             m == [campaigns[c] EXCEPT !.indexed = TRUE]
  <2>1. c \in Existing /\ c \in Campaigns
    BY <1>5 DEF IndexCampaign, Created, Existing
  <2>2. m \in Campaign
    BY <2>1, SetField
  <2>3. campaigns' = [campaigns EXCEPT ![c] = m]
    BY <1>5
  <2> HIDE DEF m, c
  <2>4. campaigns' \in [Campaigns -> Campaign \cup {NoCampaign}]
    BY <1>1, <2>1, <2>2, <2>3
  <2>5. \A x \in Campaigns : campaigns'[x] # NoCampaign <=> x \in Existing
    BY <1>1, <1>2, <2>1, <2>2, <2>3 DEF Existing
  <2>6. Existing' = Existing
    BY <2>5 DEF Existing
  <2>7. ~CreateCampaign(a)
    BY <1>5 DEF CreateCampaign, IndexCampaign
  <2> QED
    BY <2>4, <2>6, <2>7
<1> QED
  BY <1>3, <1>4, <1>5, StepWritesCampaigns

\* The fields of the service, the bounds and the ghosts.
Accounts ==
  /\ available \in [Flags -> BOOLEAN]
  /\ pending \subseteq Items
  /\ writer \in BOOLEAN
  /\ calls \in 0 .. deployment.calls
  /\ faults \in 0 .. MaxFaults /\ crashes \in 0 .. MaxCrashes
  /\ moves \in 0 .. MaxMoves
  /\ fresh \subseteq Items /\ interrupted \subseteq Items
  /\ returned \subseteq [item : Items, stage : Stages, asked : BOOLEAN]

LEMMA BreakCounts ==
  ASSUME Typed, Break
  PROVE  faults' \in 0 .. MaxFaults /\ faults' > faults
BY BoundsAssumption DEF Typed, TypeOK, Break

LEMMA StepKeepsAccounts ==
  ASSUME Typed, NEW a \in Agents, Step(a)
  PROVE  Accounts' /\ UNCHANGED <<calls, crashes, moves, fresh>>
<1>1. /\ Accounts /\ Shape(pc[a], task[a]) /\ task[a] \in Task
      /\ task[a].todo \in Seq(Items) /\ task[a].saved \in Seq(Items)
      /\ task[a].asked \in BOOLEAN
  BY DEF Typed, TypeOK, Task, Accounts
<1>2. In(task[a].saved) \subseteq Items /\ In(task[a].todo) \subseteq Items
  BY <1>1, HeldAreItems
<1>3. task[a].todo # << >> => Head(task[a].todo) \in Items
  BY <1>1, HeadAndTail
<1>4. pc[a] \in ToolPhases => task[a].todo # << >>
  BY <1>1 DEF Shape
<1>5. CASE \/ Acquire(a) \/ Register(a) \/ Registered(a) \/ IndexNew(a) \/ Verify(a)
           \/ Canonicalize(a) \/ Index(a) \/ AllCanonical(a) \/ CreateSnapshot(a)
           \/ FindGiven(a) \/ FindActive(a) \/ FindByGoal(a) \/ CreateCampaign(a)
           \/ ToolRegister(a) \/ ToolPromote(a) \/ ToolIndex(a)
  <2>1. UNCHANGED <<deployment, service, bounds, ghosts>> /\ writer' \in BOOLEAN
    BY <1>1, <1>5 DEF Acquire, Register, Registered, IndexNew, Verify, Canonicalize, Index,
       AllCanonical, CreateSnapshot, FindGiven, FindActive, FindByGoal, CreateCampaign,
       ToolRegister, ToolPromote, ToolIndex, memory, Accounts
  <2> QED
    BY <1>1, <2>1 DEF Accounts, service, bounds, ghosts
<1>6. CASE RegisterFails(a)
  <2>1. available' \in [Flags -> BOOLEAN] /\ pending' \subseteq Items
    BY <1>1, <1>3, <1>6 DEF RegisterFails, Accounts
  <2>2. faults' \in 0 .. MaxFaults
    BY <1>1, <1>6, BreakCounts DEF RegisterFails, Accounts
  <2> QED
    BY <1>1, <1>6, <2>1, <2>2 DEF RegisterFails, memory, ghosts, Accounts
<1>7. CASE Queue(a)
  BY <1>1, <1>3, <1>7 DEF Queue, Accounts, memory, bounds, ghosts
<1>8. CASE SaveRaises(a) \/ RetrieveRaises(a)
  <2>1. faults' \in 0 .. MaxFaults
    BY <1>1, <1>8, BreakCounts DEF SaveRaises, RetrieveRaises, Accounts
  <2> QED
    BY <1>1, <1>2, <1>8, <2>1 DEF SaveRaises, RetrieveRaises, Abort, memory, service, Accounts
<1>9. CASE IndexCampaign(a)
  <2>1. faults' \in 0 .. MaxFaults
    BY <1>1, <1>9, BreakCounts DEF IndexCampaign, Accounts
  <2> QED
    BY <1>1, <1>9, <2>1 DEF IndexCampaign, service, ghosts, Accounts
<1>10. CASE LoadSnapshot(a) \/ Retrieve(a)
  <2>1. PICK f \in Flags : Attempt(a, f)
    BY <1>10 DEF LoadSnapshot, Retrieve, Flags
  <2>2. faults' \in 0 .. MaxFaults /\ available' \in [Flags -> BOOLEAN]
    BY <1>1, <2>1, BreakCounts DEF Attempt, Accounts
  <2> QED
    BY <1>1, <1>10, <2>2 DEF LoadSnapshot, Retrieve, memory, ghosts, Accounts
<1>11. CASE Release(a)
  <2>1. \A i \in In(task[a].saved) :
          [item |-> i, stage |-> "CANONICAL", asked |-> task[a].asked]
             \in [item : Items, stage : Stages, asked : BOOLEAN]
    BY <1>1, <1>2 DEF Stages
  <2>2. returned' \subseteq [item : Items, stage : Stages, asked : BOOLEAN]
    BY <1>1, <1>11, <2>1 DEF Release, Accounts
  <2> QED
    BY <1>1, <1>11, <2>2 DEF Release, memory, service, bounds, Accounts
<1>12. CASE ToolLoad(a)
  <2> DEFINE r == [item |-> Head(task[a].todo),
                   stage |-> IF task[a].asked THEN "CANONICAL" ELSE "NEW", asked |-> FALSE]
  <2>1. r \in [item : Items, stage : Stages, asked : BOOLEAN]
    BY <1>3, <1>4, <1>12 DEF ToolLoad, ToolPhases, Stages
  <2>2. returned' = returned \cup {r}
    BY <1>12 DEF ToolLoad
  <2> QED
    BY <1>1, <1>12, <2>1, <2>2 DEF ToolLoad, memory, service, bounds, Accounts
<1>13. CASE ToolRaises(a)
  <2>1. faults' \in 0 .. MaxFaults
    BY <1>1, <1>13, BreakCounts DEF ToolRaises, Accounts
  <2> QED
    BY <1>1, <1>2, <1>13, <2>1 DEF ToolRaises, memory, service, Accounts
<1> QED
  BY <1>5, <1>6, <1>7, <1>8, <1>9, <1>10, <1>11, <1>12, <1>13 DEF Step

LEMMA TypesTogether ==
  ASSUME deployment \in Deployments, Accounts,
         {repo, index, snapshot} \subseteq [Items -> Stages],
         campaigns \in [Campaigns -> Campaign \cup {NoCampaign}],
         pc \in [Agents -> Phases], task \in [Agents -> Task],
         \A b \in Agents : Shape(pc[b], task[b]) /\ Place(b, pc[b])
  PROVE  Typed
BY DEF Accounts, Typed, TypeOK

LEMMA StepKeepsTypes ==
  ASSUME Typed, Room, Created, NEW a \in Agents, Step(a)
  PROVE  Typed'
<1>1. PICK phase, t : Moves(a, phase, t)
  BY StepMoves
<1>2. /\ pc' \in [Agents -> Phases] /\ task' \in [Agents -> Task]
      /\ (deployment \in Deployments)'
      /\ (\A b \in Agents : Shape(pc[b], task[b]) /\ Place(b, pc[b]))'
  BY <1>1, MovesKeepTypes DEF Typed
<1>3. Accounts' /\ campaigns' \in [Campaigns -> Campaign \cup {NoCampaign}]
  BY StepKeepsAccounts, StepKeepsCampaigns
<1>4. ({repo, index, snapshot} \subseteq [Items -> Stages])'
  BY StepKeepsDocuments
<1> QED
  BY <1>2, <1>3, <1>4 DEF Accounts, Typed, TypeOK

\* Only a call makes one more agent that may create a campaign.
LEMMA StepKeepsCreators ==
  ASSUME Typed, Room, NEW a \in Agents, Step(a)
  PROVE  Creators' \subseteq Creators /\ (CreateCampaign(a) => Creators' \subseteq Creators \ {a})
<1> DEFINE Early == {"wait_retrieve", "find_active", "find_goal", "create"}
<1>1. PICK phase, t : Moves(a, phase, t)
  BY StepMoves
<1>2. \A b \in Agents \ {a} : pc'[b] = pc[b]
  BY <1>1, MovesKeepTypes
<1>3. ASSUME pc'[a] \in Early
      PROVE  pc[a] \in Early /\ ~CreateCampaign(a)
  <2>1. \A p \in Phases : Goto(a, p) => pc'[a] = p
    BY DEF Goto, Typed, TypeOK
  <2>2. CASE \/ Release(a) \/ SaveRaises(a) \/ RetrieveRaises(a) \/ ToolLoad(a)
             \/ ToolRaises(a)
    BY <1>3, <2>2, MovesKeepTypes, LeaveMoves
  <2>3. CASE \/ Register(a) \/ RegisterFails(a) \/ Queue(a) \/ Registered(a) \/ IndexNew(a)
             \/ Verify(a) \/ Canonicalize(a) \/ Index(a) \/ AllCanonical(a) \/ CreateSnapshot(a)
    <3>1. pc'[a] \in SavePhases \cup {"release"}
      BY <2>1, <2>3 DEF Register, RegisterFails, Queue, Registered, IndexNew, Verify,
         Canonicalize, Index, AllCanonical, CreateSnapshot, SavePhases, Phases
    <3> QED
      BY <1>3, <3>1 DEF SavePhases
  <2>4. CASE \/ IndexCampaign(a) \/ LoadSnapshot(a) \/ Retrieve(a) \/ FindGiven(a)
             \/ CreateCampaign(a)
    <3>1. pc'[a] \in {"index_campaign", "load_snapshot", "retrieve", "release"}
      BY <2>1, <2>4 DEF IndexCampaign, LoadSnapshot, Retrieve, FindGiven, CreateCampaign,
         Phases, RetrievePhases
    <3> QED
      BY <1>3, <3>1
  <2>5. CASE ToolRegister(a) \/ ToolPromote(a) \/ ToolIndex(a)
    <3>1. pc'[a] \in ToolPhases
      BY <2>1, <2>5 DEF ToolRegister, ToolPromote, ToolIndex, ToolPhases, Phases
    <3> QED
      BY <1>3, <3>1 DEF ToolPhases
  <2>6. CASE FindActive(a) \/ FindByGoal(a)
    BY <2>6 DEF FindActive, FindByGoal, CreateCampaign
  <2>7. CASE Acquire(a)
    <3>1. pc[a] = "wait_save" => pc'[a] = "register"
      BY <2>1, <2>7 DEF Acquire, Phases, SavePhases
    <3> QED
      BY <1>3, <2>7, <3>1 DEF Acquire, CreateCampaign
  <2> QED
    BY <2>2, <2>3, <2>4, <2>5, <2>6, <2>7 DEF Step
<1> QED
  BY <1>2, <1>3 DEF Creators

LEMMA FewerFit ==
  ASSUME Room, Typed, Creators' \subseteq Creators, Existing' = Existing,
         UNCHANGED <<calls, deployment>>
  PROVE  Room'
<1>1. IsFiniteSet(Creators') /\ Cardinality(Creators') <= Cardinality(Creators)
      /\ Cardinality(Creators') \in Nat /\ Cardinality(Creators) \in Nat
  BY FS_Subset, FS_CardinalityType DEF Room
<1>2. Cardinality(Existing) \in Nat /\ calls \in Nat /\ deployment.calls \in Nat
  BY ExistingIsFinite, DeploymentsAssumption DEF Typed, TypeOK
<1>3. IsFiniteSet(Creators)'
  BY <1>1
<1>4. (Cardinality(Existing) + Cardinality(Creators) + calls <= deployment.calls)'
  BY <1>1, <1>2 DEF Room
<1> QED
  BY <1>3, <1>4 DEF Room

LEMMA StepKeepsRoom ==
  ASSUME Typed, Room, Created, NEW a \in Agents, Step(a)
  PROVE  Room'
<1>0. UNCHANGED <<calls, deployment>>
  BY StepKeepsAccounts, StepMoves, MovesKeepTypes
<1>1. CASE Existing' = Existing
  BY <1>0, <1>1, StepKeepsCreators, FewerFit
<1>2. ASSUME CreateCampaign(a), NEW c \in Campaigns \ Existing, Existing' = Existing \cup {c}
      PROVE  Room'
  <2>1. a \in Creators
    BY <1>2 DEF Creators, CreateCampaign
  <2>2. IsFiniteSet(Creators \ {a}) /\ Cardinality(Creators \ {a}) = Cardinality(Creators) - 1
    BY <2>1, FS_RemoveElement DEF Room
  <2>3. Creators' \in SUBSET (Creators \ {a})
    BY <1>2, StepKeepsCreators
  <2>4. IsFiniteSet(Creators') /\ Cardinality(Creators') <= Cardinality(Creators \ {a})
    BY <2>2, <2>3, FS_Subset
  <2>5. Cardinality(Existing') = Cardinality(Existing) + 1
    BY <1>2, ExistingIsFinite, FS_AddElement
  <2>6. /\ Cardinality(Creators') \in Nat /\ Cardinality(Creators) \in Nat
        /\ Cardinality(Existing) \in Nat /\ calls \in Nat /\ deployment.calls \in Nat
    BY <2>4, FS_CardinalityType, ExistingIsFinite, DeploymentsAssumption
       DEF Typed, TypeOK, Room
  <2>7. IsFiniteSet(Creators)'
    BY <2>4
  <2>8. (Cardinality(Existing) + Cardinality(Creators) + calls <= deployment.calls)'
    BY <1>0, <2>2, <2>4, <2>5, <2>6 DEF Room
  <2> QED
    BY <2>7, <2>8 DEF Room
<1> QED
  BY <1>1, <1>2, StepKeepsCampaigns

LEMMA StepKeepsCreated ==
  ASSUME Typed, Room, Created, NEW a \in Agents, Step(a)
  PROVE  Created'
<1>1. PICK phase, t : Moves(a, phase, t)
  BY StepMoves
<1>2. \A b \in Agents \ {a} : pc'[b] = pc[b] /\ task'[b] = task[b]
  BY <1>1, MovesKeepTypes
<1>3. Existing \subseteq Existing'
  BY StepKeepsCampaigns
<1>4. ASSUME pc'[a] = "index_campaign" PROVE task'[a].campaign \in Existing'
  <2>1. \A p \in Phases : Goto(a, p) => pc'[a] = p
    BY DEF Goto, Typed, TypeOK
  <2>2. CASE CreateCampaign(a)
    <3> DEFINE c == CHOOSE c \in Campaigns : c \notin Existing
    <3>1. c \in Campaigns /\ Moves(a, "index_campaign", [task[a] EXCEPT !.campaign = c])
      BY <2>2, CreateMoves
    <3>2. campaigns' = [campaigns EXCEPT ![c] =
                   NewCampaign(task[a].goal)]
      BY <2>2 DEF CreateCampaign
    <3> HIDE DEF c
    <3>3. campaigns'[c] = NewCampaign(task[a].goal)
      BY <3>1, <3>2 DEF Typed, TypeOK
    <3>4. campaigns'[c] # NoCampaign
      BY <3>3 DEF NewCampaign, NoCampaign
    <3>5. c \in Existing'
      BY <3>1, <3>4 DEF Existing
    <3>6. task'[a] = [task[a] EXCEPT !.campaign = c] /\ task[a] \in Task
      BY <3>1, MovesKeepTypes DEF Typed, TypeOK
    <3>7. task'[a].campaign = c
      BY <3>6 DEF Task
    <3> QED
      BY <3>5, <3>7
  <2>3. CASE \/ Release(a) \/ SaveRaises(a) \/ RetrieveRaises(a) \/ ToolLoad(a)
             \/ ToolRaises(a)
    BY <1>4, <2>3, MovesKeepTypes, LeaveMoves
  <2>4. CASE \/ Register(a) \/ RegisterFails(a) \/ Queue(a) \/ Registered(a) \/ IndexNew(a)
             \/ Verify(a) \/ Canonicalize(a) \/ Index(a) \/ AllCanonical(a) \/ CreateSnapshot(a)
    <3>1. pc'[a] \in SavePhases \cup {"release"}
      BY <2>1, <2>4 DEF Register, RegisterFails, Queue, Registered, IndexNew, Verify,
         Canonicalize, Index, AllCanonical, CreateSnapshot, SavePhases, Phases
    <3> QED
      BY <1>4, <3>1 DEF SavePhases
  <2>5. CASE \/ IndexCampaign(a) \/ LoadSnapshot(a) \/ Retrieve(a) \/ FindGiven(a)
             \/ FindActive(a) \/ FindByGoal(a) \/ Acquire(a)
    <3>1. pc'[a] \in {"find_goal", "create", "load_snapshot", "retrieve", "release",
                      "register", "find_active"}
      BY <2>1, <2>5 DEF IndexCampaign, LoadSnapshot, Retrieve, FindGiven, FindActive,
         FindByGoal, PickFrom, Acquire, Phases, RetrievePhases, SavePhases
    <3> QED
      BY <1>4, <3>1
  <2>6. CASE ToolRegister(a) \/ ToolPromote(a) \/ ToolIndex(a)
    <3>1. pc'[a] \in ToolPhases
      BY <2>1, <2>6 DEF ToolRegister, ToolPromote, ToolIndex, ToolPhases, Phases
    <3> QED
      BY <1>4, <3>1 DEF ToolPhases
  <2> QED
    BY <2>2, <2>3, <2>4, <2>5, <2>6 DEF Step
<1> QED
  BY <1>2, <1>3, <1>4 DEF Created

\* A call takes one of the calls left.
LEMMA CallsKeepTypes ==
  ASSUME Typed, Room, Created, NEW a \in Agents, Calls(a)
  PROVE  /\ Typed' /\ Room' /\ Created'
         /\ UNCHANGED <<memory, pending, writer, faults, crashes, moves, returned, interrupted>>
<1>1. PICK phase, t : Moves(a, phase, t)
  BY CallsMove
<1>2. /\ pc' \in [Agents -> Phases] /\ task' \in [Agents -> Task]
      /\ \A b \in Agents : (Shape(pc[b], task[b]) /\ Place(b, pc[b]))'
      /\ \A b \in Agents \ {a} : pc'[b] = pc[b] /\ task'[b] = task[b]
      /\ pc'[a] = phase /\ task'[a] = t
  BY <1>1, MovesKeepTypes
<1>3. /\ Call(a)
      /\ UNCHANGED <<memory, pending, writer, faults, crashes, moves, returned, interrupted>>
  BY DEF Calls, SaveAfterTask, ToolSave, RetrieveBeforeTask, Call
<1>4. /\ calls \in Nat /\ deployment.calls \in Nat /\ calls > 0 /\ calls' = calls - 1
      /\ calls <= deployment.calls
  BY <1>3, ExistingIsFinite, DeploymentsAssumption DEF Typed, TypeOK, Call
<1>5. available' \in [Flags -> BOOLEAN] /\ fresh' \subseteq Items
  BY DEF Calls, SaveAfterTask, ToolSave, RetrieveBeforeTask, AllAvailable, Typed, TypeOK
<1>6. Typed'
  BY <1>2, <1>3, <1>4, <1>5 DEF memory, Typed, TypeOK
<1>7. Existing' = Existing
  BY <1>3 DEF Existing, memory
<1>8. pc[a] = "idle" /\ pc'[a] \in {"wait_save", "tool_register", "wait_retrieve"}
  BY DEF Calls, SaveAfterTask, ToolSave, RetrieveBeforeTask, Call, Goto, Typed, TypeOK
<1>9. Creators' \subseteq Creators \cup {a}
  BY <1>2 DEF Creators
<1>10. Room'
  <2>1. IsFiniteSet(Creators \cup {a}) /\ Cardinality(Creators \cup {a}) <= Cardinality(Creators) + 1
        /\ Cardinality(Creators) \in Nat
    <3>1. IsFiniteSet(Creators) /\ Cardinality(Creators) \in Nat
      BY FS_CardinalityType DEF Room
    <3>2. /\ IsFiniteSet(Creators \cup {a})
          /\ Cardinality(Creators \cup {a}) =
               IF a \in Creators THEN Cardinality(Creators) ELSE Cardinality(Creators) + 1
      BY <3>1, FS_AddElement
    <3> QED
      BY <3>1, <3>2
  <2>2. IsFiniteSet(Creators') /\ Cardinality(Creators') <= Cardinality(Creators \cup {a})
    BY <1>9, <2>1, FS_Subset
  <2>3. Cardinality(Creators') \in Nat /\ Cardinality(Creators \cup {a}) \in Nat
        /\ Cardinality(Existing) \in Nat
    BY <2>1, <2>2, FS_CardinalityType, ExistingIsFinite
  <2>4. IsFiniteSet(Creators)'
    BY <2>2
  <2>5. deployment' = deployment
    BY <1>3 DEF memory
  <2>6. (Cardinality(Existing) + Cardinality(Creators) + calls <= deployment.calls)'
    BY <1>4, <1>7, <2>1, <2>2, <2>3, <2>5 DEF Room
  <2> QED
    BY <2>4, <2>6 DEF Room
<1>11. Created'
  BY <1>2, <1>7, <1>8 DEF Created
<1> QED
  BY <1>3, <1>6, <1>10, <1>11

LEMMA DrainKeepsTypes ==
  ASSUME Typed, Room, Created, DrainPending
  PROVE  Typed' /\ Room' /\ Created'
<1>1. /\ UNCHANGED <<memory, writer, pc, task, bounds, ghosts>> /\ pending' \subseteq Items
      /\ available' \in [Flags -> BOOLEAN]
  BY DEF DrainPending, Typed, TypeOK
<1>2. Typed'
  BY <1>1 DEF memory, bounds, ghosts, Typed, TypeOK, Shape, Place
<1>3. Room' /\ Created'
  BY <1>1 DEF memory, bounds, Room, Creators, Existing, Created
<1> QED
  BY <1>2, <1>3

\* A transition changes a status and nothing else.
LEMMA AdvanceSets ==
  ASSUME Typed, NEW c \in Campaigns, NEW s \in CampaignStates, Advance(c, s)
  PROVE  /\ campaigns' = [campaigns EXCEPT ![c] = [campaigns[c] EXCEPT !.status = s]]
         /\ [campaigns[c] EXCEPT !.status = s] \in Campaign
         /\ campaigns' \in [Campaigns -> Campaign \cup {NoCampaign}]
         /\ Existing' = Existing
         /\ UNCHANGED <<deployment, repo, index, snapshot, service, writer, pc, task>>
         /\ UNCHANGED <<calls, faults, crashes, ghosts>>
<1> DEFINE m == [campaigns[c] EXCEPT !.status = s]
<1>1. c \in Existing /\ campaigns' = [campaigns EXCEPT ![c] = m]
  BY DEF Advance
<1>2. m \in Campaign
  BY <1>1, SetField
<1>3. \A x \in Campaign : x # NoCampaign
  BY DEF Campaign, NoCampaign, CampaignStates
<1> HIDE DEF m
<1>4. campaigns' \in [Campaigns -> Campaign \cup {NoCampaign}]
  BY <1>1, <1>2 DEF Typed, TypeOK
<1>5. \A x \in Campaigns : campaigns'[x] # NoCampaign <=> x \in Existing
  BY <1>1, <1>2, <1>3 DEF Existing, Typed, TypeOK
<1>6. Existing' = Existing
  BY <1>5 DEF Existing
<1> QED
  BY <1>1, <1>2, <1>4, <1>6 DEF Advance, m

LEMMA AdvanceKeepsTypes ==
  ASSUME Typed, Room, Created, NEW c \in Campaigns, NEW s \in CampaignStates, Advance(c, s)
  PROVE  Typed' /\ Room' /\ Created'
<1>1. /\ campaigns' \in [Campaigns -> Campaign \cup {NoCampaign}] /\ Existing' = Existing
      /\ UNCHANGED <<deployment, repo, index, snapshot, service, writer, pc, task>>
      /\ UNCHANGED <<calls, faults, crashes, ghosts>>
  BY AdvanceSets
<1>2. moves' \in 0 .. MaxMoves
  BY BoundsAssumption DEF Advance, Typed, TypeOK
<1>3. Typed'
  BY <1>1, <1>2 DEF service, ghosts, Typed, TypeOK, Shape, Place
<1>4. Room' /\ Created'
  BY <1>1 DEF Room, Creators, Created
<1> QED
  BY <1>3, <1>4

\* The agents of the process that stops are idle, the others go on.
LEMMA StopTakesAll ==
  ASSUME Typed, NEW S, Stop(S)
  PROVE  /\ \A a \in Agents : /\ a \in S => pc'[a] = "idle" /\ task'[a] = NoTask
                              /\ a \notin S => pc'[a] = pc[a] /\ task'[a] = task[a]
         /\ pc' \in [Agents -> Phases] /\ task' \in [Agents -> Task]
         /\ crashes' \in 0 .. MaxCrashes /\ crashes' > crashes
         /\ UNCHANGED <<memory, calls, faults, moves, fresh, returned>>
<1>1. \A a \in Agents : /\ a \in S => pc'[a] = "idle" /\ task'[a] = NoTask
                        /\ a \notin S => pc'[a] = pc[a] /\ task'[a] = task[a]
  BY DEF Stop
<1>2. pc' \in [Agents -> Phases] /\ task' \in [Agents -> Task]
  BY <1>1, NoTaskIsATask DEF Stop, Typed, TypeOK, Phases
<1>3. crashes' \in 0 .. MaxCrashes /\ crashes' > crashes
  BY BoundsAssumption DEF Stop, Typed, TypeOK
<1> QED
  BY <1>1, <1>2, <1>3 DEF Stop

LEMMA StopKeepsTypes ==
  ASSUME Typed, Room, Created, NEW S, Stop(S), S \subseteq Agents,
         available' \in [Flags -> BOOLEAN], pending' \subseteq Items, writer' \in BOOLEAN
  PROVE  Typed' /\ Room' /\ Created'
<1>1. /\ \A a \in Agents : /\ a \in S => pc'[a] = "idle" /\ task'[a] = NoTask
                           /\ a \notin S => pc'[a] = pc[a] /\ task'[a] = task[a]
      /\ pc' \in [Agents -> Phases] /\ task' \in [Agents -> Task]
      /\ crashes' \in 0 .. MaxCrashes
      /\ UNCHANGED <<memory, calls, faults, moves, fresh, returned>>
  BY StopTakesAll
<1>2. \A a \in Agents : Shape(pc'[a], task'[a])
  BY <1>1, NoTaskIsATask DEF Typed
<1>3. \A a \in Agents : Shape(pc[a], task[a])'
  BY <1>2 DEF Shape
<1>4. \A a \in Agents : Place(a, pc[a])'
  BY <1>1 DEF Place, Typed, memory, ToolPhases
<1>5. interrupted' \subseteq Items
  <2>1. \A a \in S : In(task[a].saved) \subseteq Items
    BY HeldAreItems DEF Typed, TypeOK, Task
  <2> QED
    BY <2>1 DEF Stop, Typed, TypeOK
<1>6. Typed'
  BY <1>1, <1>3, <1>4, <1>5 DEF memory, Typed, TypeOK
<1>7. Creators' \subseteq Creators /\ Existing' = Existing
  BY <1>1 DEF Creators, Existing, memory
<1>8. Room'
  BY <1>1, <1>7, FewerFit DEF memory
<1>9. Created'
  BY <1>1, <1>7 DEF Created
<1> QED
  BY <1>6, <1>8, <1>9

LEMMA CrashKeepsTypes ==
  ASSUME Typed, Room, Created, Crash \/ ServerCrash
  PROVE  Typed' /\ Room' /\ Created'
<1>1. deployment.hooks \subseteq Agents /\ deployment.server \subseteq Agents
  BY DeploymentsAssumption DEF Typed
<1>2. CASE Crash
  BY <1>1, <1>2, StopKeepsTypes DEF Crash, AllAvailable
<1>3. CASE ServerCrash
  BY <1>1, <1>3, StopKeepsTypes DEF ServerCrash, service, Typed, TypeOK
<1> QED
  BY <1>2, <1>3

LEMMA InitIsTyped == Init => Typed /\ Room /\ Created
<1> SUFFICES ASSUME Init PROVE Typed /\ Room /\ Created
  OBVIOUS
<1>1. Existing = {} /\ Creators = {}
  BY DEF Init, Existing, Creators
<1>2. deployment.calls \in Nat /\ calls = deployment.calls
  BY ExistingIsFinite, DeploymentsAssumption DEF Init
<1>3. Room
  BY <1>1, <1>2, FS_EmptySet DEF Room
<1>4. Created
  BY DEF Init, Created
<1>5. repo \in [Items -> Stages] /\ index = repo /\ snapshot = repo
  BY DEF Init, Stages
<1>6. \A a \in Agents : pc[a] = "idle" /\ task[a] = NoTask
  BY DEF Init
<1>7. \A a \in Agents : Shape(pc[a], task[a]) /\ Place(a, pc[a])
  BY <1>6, NoTaskIsATask DEF Place, ToolPhases
<1>8. pc \in [Agents -> Phases] /\ task \in [Agents -> Task]
  BY NoTaskIsATask DEF Init, Phases
<1>9. Accounts
  <2>1. calls \in 0 .. deployment.calls
    BY <1>2
  <2>2. faults \in 0 .. MaxFaults /\ crashes \in 0 .. MaxCrashes /\ moves \in 0 .. MaxMoves
    BY BoundsAssumption DEF Init
  <2>3. available \in [Flags -> BOOLEAN]
    BY DEF Init, AllAvailable
  <2> QED
    BY <2>1, <2>2, <2>3 DEF Init, Accounts
<1>10. campaigns \in [Campaigns -> Campaign \cup {NoCampaign}]
  BY DEF Init
<1>11. deployment \in Deployments
  BY DEF Init
<1> QED
  BY <1>3, <1>4, <1>5, <1>7, <1>8, <1>9, <1>10, <1>11, TypesTogether

\* Next, as the proofs take it apart.
LEMMA NextCases ==
  ASSUME Next
  PROVE  \/ \E a \in Agents : Step(a) \/ Calls(a)
         \/ DrainPending
         \/ \E c \in Campaigns, s \in CampaignStates : Advance(c, s)
         \/ Crash \/ ServerCrash
BY DEF Next, Calls

LEMMA NextIsTyped ==
  ASSUME Typed, Room, Created, [Next]_vars
  PROVE  Typed' /\ Room' /\ Created'
<1>1. CASE UNCHANGED vars
  <2>1. Typed'
    BY <1>1 DEF vars, memory, service, bounds, ghosts, Typed, TypeOK, Shape, Place
  <2>2. Room' /\ Created'
    BY <1>1 DEF vars, memory, bounds, Room, Creators, Existing, Created
  <2> QED
    BY <2>1, <2>2
<1>2. CASE \E a \in Agents : Step(a)
  BY <1>2, StepKeepsTypes, StepKeepsRoom, StepKeepsCreated
<1>3. CASE \E a \in Agents : Calls(a)
  BY <1>3, CallsKeepTypes
<1>4. CASE \E c \in Campaigns, s \in CampaignStates : Advance(c, s)
  BY <1>4, AdvanceKeepsTypes
<1> QED
  BY <1>1, <1>2, <1>3, <1>4, DrainKeepsTypes, CrashKeepsTypes, NextCases

LEMMA AlwaysTyped == Spec => [](Typed /\ Room /\ Created)
<1>1. Typed /\ Room /\ Created /\ [Next]_vars => (Typed /\ Room /\ Created)'
  BY NextIsTyped
<1> QED
  BY <1>1, InitIsTyped, PTL DEF Spec

----
(* Who holds an item.                                                      *)

\* An item is in the hands of one call, until it is returned.
Hands(a) == In(task[a].todo) \cup In(task[a].saved)

Owned ==
  /\ \A a, b \in Agents : a # b => Hands(a) \cap Hands(b) = {}
  /\ \A a \in Agents : Hands(a) \cap fresh = {}
  /\ \A r \in returned : r.item \notin fresh /\ \A a \in Agents : r.item \notin Hands(a)

LEMMA ListsAreTyped ==
  ASSUME Typed, NEW a \in Agents
  PROVE  /\ task[a] \in Task /\ Shape(pc[a], task[a]) /\ Place(a, pc[a])
         /\ task[a].todo \in Seq(Items) /\ task[a].saved \in Seq(Items)
         /\ task[a].asked \in BOOLEAN
         /\ In(task[a].todo) \subseteq Items /\ In(task[a].saved) \subseteq Items
<1>1. /\ task[a] \in Task /\ Shape(pc[a], task[a]) /\ Place(a, pc[a])
      /\ task[a].todo \in Seq(Items) /\ task[a].saved \in Seq(Items)
      /\ task[a].asked \in BOOLEAN
  BY DEF Typed, TypeOK, Task
<1> QED
  BY <1>1, HeldAreItems

\* The steps with which a call ends.
Leave(a) == Release(a) \/ SaveRaises(a) \/ RetrieveRaises(a) \/ ToolLoad(a) \/ ToolRaises(a)

\* The steps that go on with what the call holds.
GoOn(a) ==
  \/ Acquire(a) \/ Verify(a) \/ Canonicalize(a) \/ AllCanonical(a) \/ CreateSnapshot(a)
  \/ FindGiven(a) \/ FindActive(a) \/ FindByGoal(a) \/ CreateCampaign(a) \/ IndexCampaign(a)
  \/ LoadSnapshot(a) \/ Retrieve(a) \/ ToolPromote(a) \/ ToolIndex(a)

\* The steps that are done with the first item of the list.
TakeOne(a) ==
  RegisterFails(a) \/ Queue(a) \/ Index(a) \/ (IndexNew(a) /\ task[a].todo # << >>)

\* The steps that begin the list of saved items anew.
StartOver(a) == Registered(a) \/ (IndexNew(a) /\ task[a].todo = << >>)

LEMMA StepKinds ==
  ASSUME NEW a \in Agents, Step(a)
  PROVE  Leave(a) \/ GoOn(a) \/ TakeOne(a) \/ StartOver(a) \/ Register(a) \/ ToolRegister(a)
BY DEF Step, Leave, GoOn, TakeOne, StartOver

LEMMA TaskSteps ==
  ASSUME Typed, NEW a \in Agents
  PROVE  /\ Leave(a) => task'[a] = NoTask /\ pc'[a] = "idle"
         /\ GoOn(a) => /\ task'[a].todo = task[a].todo /\ task'[a].saved = task[a].saved
                       /\ task'[a].asked = task[a].asked
         /\ TakeOne(a) => /\ task[a].todo # << >> /\ task'[a].todo = Tail(task[a].todo)
                          /\ task'[a].saved = task[a].saved /\ task'[a].asked = task[a].asked
         /\ StartOver(a) => /\ task'[a].todo = task[a].saved
                            /\ task'[a].saved = task[a].saved /\ task'[a].asked = task[a].asked
         /\ Register(a) => /\ task[a].todo # << >> /\ task'[a].todo = Tail(task[a].todo)
                           /\ task'[a].saved = Append(task[a].saved, Head(task[a].todo))
         /\ ToolRegister(a) => /\ task[a].todo # << >> /\ task'[a].todo = task[a].todo
                               /\ task'[a].saved = <<Head(task[a].todo)>>
                               /\ task'[a].asked = task[a].asked
<1>1. /\ task[a] \in Task /\ Shape(pc[a], task[a]) /\ task \in [Agents -> Task]
      /\ task[a].todo \in Seq(Items) /\ task[a].saved \in Seq(Items)
  BY ListsAreTyped DEF Typed, TypeOK
<1>2. Leave(a) => task'[a] = NoTask /\ pc'[a] = "idle"
  BY LeaveMoves, MovesKeepTypes DEF Leave
<1>3. ASSUME NEW c, task' = [task EXCEPT ![a].campaign = c]
      PROVE  /\ task'[a].todo = task[a].todo /\ task'[a].saved = task[a].saved
             /\ task'[a].asked = task[a].asked
  <2>1. task'[a] = [task[a] EXCEPT !.campaign = c]
    BY <1>1, <1>3
  <2> QED
    BY <1>1, <2>1 DEF Task
<1>4. ASSUME GoOn(a)
      PROVE  /\ task'[a].todo = task[a].todo /\ task'[a].saved = task[a].saved
             /\ task'[a].asked = task[a].asked
  <2>1. CASE UNCHANGED task
    BY <2>1
  <2>2. CASE FindActive(a) \/ FindByGoal(a)
    BY <1>3, <2>1, <2>2 DEF FindActive, FindByGoal, PickFrom
  <2>3. CASE CreateCampaign(a)
    BY <1>3, <2>3 DEF CreateCampaign
  <2> QED
    BY <1>4, <2>1, <2>2, <2>3 DEF GoOn, Acquire, Verify, Canonicalize, AllCanonical,
       CreateSnapshot, FindGiven, IndexCampaign, LoadSnapshot, Retrieve, ToolPromote, ToolIndex
<1>5. ASSUME NEW items \in Seq(Items), Todo(a, items)
      PROVE  /\ task'[a].todo = items /\ task'[a].saved = task[a].saved
             /\ task'[a].asked = task[a].asked
  <2>1. task'[a] = [task[a] EXCEPT !.todo = items]
    BY <1>1, <1>5 DEF Todo
  <2> QED
    BY <1>1, <1>5, <2>1, TaskWithTodo
<1>6. ASSUME TakeOne(a)
      PROVE  /\ task[a].todo # << >> /\ task'[a].todo = Tail(task[a].todo)
             /\ task'[a].saved = task[a].saved /\ task'[a].asked = task[a].asked
  <2>1. task[a].todo # << >> /\ Todo(a, Tail(task[a].todo))
    BY <1>1, <1>6 DEF TakeOne, RegisterFails, Queue, Index, IndexNew, Shape
  <2>2. Tail(task[a].todo) \in Seq(Items)
    BY <1>1, <2>1, HeadAndTail
  <2> QED
    BY <1>5, <2>1, <2>2
<1>7. ASSUME StartOver(a)
      PROVE  /\ task'[a].todo = task[a].saved
             /\ task'[a].saved = task[a].saved /\ task'[a].asked = task[a].asked
  BY <1>1, <1>5, <1>7 DEF StartOver, Registered, IndexNew
<1>8. ASSUME Register(a)
      PROVE  /\ task[a].todo # << >> /\ task'[a].todo = Tail(task[a].todo)
             /\ task'[a].saved = Append(task[a].saved, Head(task[a].todo))
  <2> DEFINE t == [task[a] EXCEPT !.todo = Tail(task[a].todo),
                                  !.saved = Append(task[a].saved, Head(task[a].todo))]
  <2>1. Moves(a, "register", t)
    BY <1>8, RegisterMoves
  <2>2. task[a].todo # << >>
    BY <1>8 DEF Register
  <2>3. t.todo = Tail(task[a].todo) /\ t.saved = Append(task[a].saved, Head(task[a].todo))
    BY <1>1 DEF Task
  <2> HIDE DEF t
  <2>4. task'[a] = t
    BY <2>1, MovesKeepTypes
  <2> QED
    BY <2>2, <2>3, <2>4
<1>9. ASSUME ToolRegister(a)
      PROVE  /\ task[a].todo # << >> /\ task'[a].todo = task[a].todo
             /\ task'[a].saved = <<Head(task[a].todo)>> /\ task'[a].asked = task[a].asked
  <2>1. task'[a] = [task[a] EXCEPT !.saved = <<Head(task[a].todo)>>]
    BY <1>1, <1>9 DEF ToolRegister
  <2>2. task[a].todo # << >>
    BY <1>1, <1>9 DEF Shape, ToolRegister, ToolPhases
  <2> QED
    BY <1>1, <2>1, <2>2 DEF Task
<1> QED
  BY <1>2, <1>4, <1>6, <1>7, <1>8, <1>9

\* A step takes no item into the hand.
LEMMA StepTakesNothing ==
  ASSUME Typed, Room, NEW a \in Agents, Step(a)
  PROVE  /\ Hands(a)' \subseteq Hands(a)
         /\ Leave(a) => Hands(a)' = {}
         /\ \A b \in Agents \ {a} : Hands(b)' = Hands(b)
<1>1. PICK phase, t : Moves(a, phase, t)
  BY StepMoves
<1>2. \A b \in Agents \ {a} : task'[b] = task[b]
  BY <1>1, MovesKeepTypes
<1>3. task[a].todo \in Seq(Items) /\ task[a].saved \in Seq(Items)
  BY ListsAreTyped
<1>4. task[a].todo # << >> =>
        /\ In(task[a].todo) = {Head(task[a].todo)} \cup In(Tail(task[a].todo))
        /\ In(<<Head(task[a].todo)>>) = {Head(task[a].todo)}
        /\ In(Append(task[a].saved, Head(task[a].todo)))
             = In(task[a].saved) \cup {Head(task[a].todo)}
  BY <1>3, HeadAndTail, SingletonHolds, AppendHolds
<1>5. Leave(a) => In(task'[a].todo) \cup In(task'[a].saved) = {}
  BY TaskSteps, EmptyHoldsNothing DEF NoTask
<1>6. In(task'[a].todo) \cup In(task'[a].saved) \subseteq In(task[a].todo) \cup In(task[a].saved)
  <2>1. CASE Leave(a)
    BY <1>5, <2>1
  <2>2. CASE GoOn(a)
    BY <2>2, TaskSteps
  <2>3. CASE TakeOne(a)
    BY <1>4, <2>3, TaskSteps
  <2>4. CASE StartOver(a)
    BY <2>4, TaskSteps
  <2>5. CASE Register(a)
    BY <1>4, <2>5, TaskSteps
  <2>6. CASE ToolRegister(a)
    BY <1>4, <2>6, TaskSteps
  <2> QED
    BY <2>1, <2>2, <2>3, <2>4, <2>5, <2>6, StepKinds
<1>7. Hands(a)' \subseteq Hands(a)
  BY <1>6 DEF Hands, In
<1>8. Leave(a) => Hands(a)' = {}
  BY <1>5 DEF Hands, In
<1>9. \A b \in Agents \ {a} : Hands(b)' = Hands(b)
  BY <1>2 DEF Hands, In
<1> QED
  BY <1>7, <1>8, <1>9

\* What is returned was in the hands of the call that ends.
LEMMA ReturnedWasHeld ==
  ASSUME Typed, NEW a \in Agents, Step(a)
  PROVE  /\ returned \subseteq returned'
         /\ ~Leave(a) => returned' = returned
         /\ \A r \in returned' \ returned : r.item \in Hands(a)
<1>1. /\ task[a].todo \in Seq(Items) /\ Shape(pc[a], task[a])
  BY ListsAreTyped
<1>2. CASE Release(a)
  BY <1>2 DEF Release, Hands, Leave
<1>3. CASE ToolLoad(a)
  <2>1. Head(task[a].todo) \in Hands(a)
    BY <1>1, <1>3, HeadAndTail DEF ToolLoad, Shape, ToolPhases, Hands
  <2> QED
    BY <1>3, <2>1 DEF ToolLoad, Leave
<1>4. CASE ~Release(a) /\ ~ToolLoad(a)
  <2>1. UNCHANGED returned
    BY <1>4 DEF Step, Acquire, Register, RegisterFails, Queue, Registered, IndexNew,
       Verify, Canonicalize, Index, AllCanonical, CreateSnapshot, SaveRaises, FindGiven,
       FindActive, FindByGoal, CreateCampaign, IndexCampaign, LoadSnapshot, Retrieve,
       RetrieveRaises, ToolRegister, ToolPromote, ToolIndex, ToolRaises, Abort, ghosts
  <2> QED
    BY <2>1
<1> QED
  BY <1>2, <1>3, <1>4

LEMMA StepKeepsOwned ==
  ASSUME Typed, Room, Owned, NEW a \in Agents, Step(a)
  PROVE  Owned'
<1>1. /\ Hands(a)' \subseteq Hands(a) /\ (Leave(a) => Hands(a)' = {})
      /\ \A b \in Agents \ {a} : Hands(b)' = Hands(b)
  BY StepTakesNothing
<1>2. fresh' = fresh
  BY StepKeepsAccounts
<1>3. /\ ~Leave(a) => returned' = returned
      /\ \A r \in returned' \ returned : r.item \in Hands(a)
  BY ReturnedWasHeld
<1>4. \A b \in Agents : Hands(b)' \subseteq Hands(b)
  BY <1>1
<1>5. ASSUME NEW b \in Agents, NEW c \in Agents, b # c
      PROVE  Hands(b)' \cap Hands(c)' = {}
  BY <1>4, <1>5 DEF Owned
<1>6. ASSUME NEW b \in Agents PROVE Hands(b)' \cap fresh' = {}
  BY <1>2, <1>4 DEF Owned
<1>7. ASSUME NEW r \in returned'
      PROVE  r.item \notin fresh' /\ \A b \in Agents : r.item \notin Hands(b)'
  <2>1. CASE r \in returned
    BY <1>2, <1>4, <2>1 DEF Owned
  <2>2. CASE r \notin returned
    <3>1. r.item \in Hands(a) /\ Hands(a)' = {}
      BY <1>1, <1>3, <1>7, <2>2
    <3> QED
      BY <1>1, <1>2, <3>1 DEF Owned
  <2> QED
    BY <2>1, <2>2
<1> QED
  BY <1>5, <1>6, <1>7 DEF Owned

\* A call takes fresh items.
LEMMA CallsTakeFresh ==
  ASSUME Typed, NEW a \in Agents, Calls(a)
  PROVE  /\ Hands(a) = {} /\ Hands(a)' \subseteq fresh /\ fresh' = fresh \ Hands(a)'
         /\ \A b \in Agents \ {a} : Hands(b)' = Hands(b)
         /\ In(task'[a].saved) = {} /\ In(task[a].saved) = {}
<1>1. PICK phase, t : Moves(a, phase, t)
  BY CallsMove
<1>2. \A b \in Agents \ {a} : task'[b] = task[b]
  BY <1>1, MovesKeepTypes
<1>3. \A b \in Agents \ {a} : Hands(b)' = Hands(b)
  BY <1>2 DEF Hands, In
<1>4. pc[a] = "idle"
  BY DEF Calls, SaveAfterTask, ToolSave, RetrieveBeforeTask, Call
<1>5. task[a].todo = << >> /\ task[a].saved = << >>
  BY <1>4, ListsAreTyped DEF Shape, NoTask
<1>6. Hands(a) = {}
  BY <1>5, EmptyHoldsNothing DEF Hands
<1>7. /\ In(task'[a].todo) \subseteq fresh /\ fresh' = fresh \ In(task'[a].todo)
      /\ task'[a].saved = << >>
  <2>1. ASSUME NEW b \in Batches, NEW asked \in BOOLEAN, SaveAfterTask(a, b, asked)
        PROVE  /\ task'[a].todo = b /\ task'[a].saved = << >>
               /\ In(b) \subseteq fresh /\ fresh' = fresh \ In(b)
    <3> DEFINE u == [NoTask EXCEPT !.todo = b, !.asked = asked]
    <3>1. u.todo = b /\ u.saved = << >> /\ Moves(a, "wait_save", u)
      BY <2>1, SaveCallMoves
    <3> HIDE DEF u
    <3>2. task'[a] = u
      BY <3>1, MovesKeepTypes
    <3> QED
      BY <2>1, <3>1, <3>2 DEF SaveAfterTask
  <2>2. ASSUME NEW i \in Items, NEW asked \in BOOLEAN, ToolSave(a, i, asked)
        PROVE  /\ task'[a].todo = <<i>> /\ task'[a].saved = << >>
               /\ In(<<i>>) \subseteq fresh /\ fresh' = fresh \ In(<<i>>)
    <3> DEFINE u == [NoTask EXCEPT !.todo = <<i>>, !.asked = asked]
    <3>1. u.todo = <<i>> /\ u.saved = << >> /\ Moves(a, "tool_register", u)
      BY <2>2, ToolCallMoves
    <3> HIDE DEF u
    <3>2. task'[a] = u
      BY <3>1, MovesKeepTypes
    <3> QED
      BY <2>2, <3>1, <3>2, SingletonHolds DEF ToolSave
  <2>3. ASSUME NEW g \in Goals \cup {NoGoal}, NEW c \in Existing \cup {"none", "missing"},
               RetrieveBeforeTask(a, g, c)
        PROVE  task'[a].todo = << >> /\ task'[a].saved = << >> /\ fresh' = fresh
    <3> DEFINE u == [NoTask EXCEPT !.goal = g, !.campaign = c]
    <3>1. u.todo = << >> /\ u.saved = << >> /\ Moves(a, "wait_retrieve", u)
      BY <2>3, RetrieveCallMoves
    <3> HIDE DEF u
    <3>2. task'[a] = u
      BY <3>1, MovesKeepTypes
    <3> QED
      BY <2>3, <3>1, <3>2 DEF RetrieveBeforeTask
  <2>4. ASSUME NEW c \in Existing \cup {"missing"}, RetrieveBeforeTask(a, NoGoal, c)
        PROVE  task'[a].todo = << >> /\ task'[a].saved = << >> /\ fresh' = fresh
    BY <2>3, <2>4
  <2>5. ASSUME NEW g \in Goals \cup {NoGoal}, RetrieveBeforeTask(a, g, "none")
        PROVE  task'[a].todo = << >> /\ task'[a].saved = << >> /\ fresh' = fresh
    BY <2>3, <2>5
  <2> QED
    BY <2>1, <2>2, <2>4, <2>5, EmptyHoldsNothing DEF Calls
<1>8. Hands(a)' = In(task'[a].todo)
  <2>1. In(task'[a].todo) \cup In(task'[a].saved) = In(task'[a].todo)
    BY <1>7, EmptyHoldsNothing
  <2> QED
    BY <2>1 DEF Hands, In
<1>9. In(task'[a].saved) = {} /\ In(task[a].saved) = {}
  BY <1>5, <1>7, EmptyHoldsNothing
<1> QED
  BY <1>3, <1>6, <1>7, <1>8, <1>9

LEMMA CallsKeepOwned ==
  ASSUME Typed, Owned, NEW a \in Agents, Calls(a)
  PROVE  Owned'
<1>1. /\ Hands(a)' \subseteq fresh /\ fresh' = fresh \ Hands(a)'
      /\ \A b \in Agents \ {a} : Hands(b)' = Hands(b)
  BY CallsTakeFresh
<1>2. returned' = returned
  BY DEF Calls, SaveAfterTask, ToolSave, RetrieveBeforeTask, Call
<1>3. ASSUME NEW b \in Agents, NEW c \in Agents, b # c
      PROVE  Hands(b)' \cap Hands(c)' = {}
  BY <1>1, <1>3 DEF Owned
<1>4. ASSUME NEW b \in Agents PROVE Hands(b)' \cap fresh' = {}
  BY <1>1 DEF Owned
<1>5. ASSUME NEW r \in returned'
      PROVE  r.item \notin fresh' /\ \A b \in Agents : r.item \notin Hands(b)'
  BY <1>1, <1>2 DEF Owned
<1> QED
  BY <1>3, <1>4, <1>5 DEF Owned

LEMMA OthersKeepOwned ==
  ASSUME Typed, Owned, UNCHANGED <<fresh, returned>>,
         \A a \in Agents : task'[a] = task[a] \/ task'[a] = NoTask
  PROVE  Owned'
<1>1. \A a \in Agents : In(task'[a].todo) \cup In(task'[a].saved) \subseteq Hands(a)
  BY EmptyHoldsNothing DEF NoTask, Hands
<1>2. \A a \in Agents : Hands(a)' \subseteq Hands(a)
  BY <1>1 DEF Hands, In
<1> QED
  BY <1>2 DEF Owned

----
(* How far a call has come with the items in its hands.                    *)

Done(i) == repo[i] = "CANONICAL" /\ index[i] = "CANONICAL"

Stage(t) == IF t.asked THEN "CANONICAL" ELSE "NEW"

Progress(a) ==
  LET t == task[a]
  IN  /\ pc[a] \in {"verify", "canonicalize", "index"} =>
           \A i \in In(t.saved) \ In(t.todo) : Done(i)
      /\ pc[a] = "index" => repo[Head(t.todo)] = "CANONICAL"
      /\ pc[a] \in {"snapshot", "release"} => \A i \in In(t.saved) : Done(i)
      /\ pc[a] = "release" /\ t.asked => \A i \in In(t.saved) : snapshot[i] = "CANONICAL"
      /\ pc[a] \in {"tool_verify", "tool_canonicalize"} => t.asked
      /\ pc[a] \in {"tool_index", "tool_load"} => repo[Head(t.todo)] = Stage(t)
      /\ pc[a] = "tool_load" => index[Head(t.todo)] = Stage(t)

\* What others do does not touch the items in an agent's hands.
LEMMA OthersKeepProgress ==
  ASSUME Typed, NEW a \in Agents, Progress(a), pc'[a] = pc[a], task'[a] = task[a],
         \A i \in Hands(a) : repo'[i] = repo[i] /\ index'[i] = index[i],
         snapshot' = snapshot \/ snapshot' = index
  PROVE  Progress(a)'
<1>1. /\ \A i \in In(task[a].saved) \cup In(task[a].todo) :
           repo'[i] = repo[i] /\ index'[i] = index[i]
      /\ pc[a] \in {"index", "tool_index", "tool_load"} =>
           Head(task[a].todo) \in In(task[a].todo)
  BY ListsAreTyped, HeadAndTail DEF Hands, Shape, ToolPhases
<1>2. \A i \in In(task[a].saved) \cup In(task[a].todo) :
        (repo'[i] = "CANONICAL" /\ index'[i] = "CANONICAL") <=> Done(i)
  BY <1>1 DEF Done
<1>3. \A i \in In(task[a].saved) : Done(i)' <=> Done(i)
  BY <1>2 DEF Done
<1>4. In(task[a].saved)' = In(task[a].saved) /\ In(task[a].todo)' = In(task[a].todo)
      /\ Stage(task[a])' = Stage(task[a])
  BY DEF In, Stage
<1>5. pc[a] = "release" /\ task[a].asked =>
        \A i \in In(task[a].saved) : snapshot'[i] = "CANONICAL"
  BY DEF Progress, Done
<1> QED
  BY <1>1, <1>3, <1>4, <1>5 DEF Progress

\* Progress of the agent that steps.
LEMMA StepKeepsOwnProgress ==
  ASSUME Typed, Room, NEW a \in Agents, Progress(a), Step(a)
  PROVE  Progress(a)'
<1> DEFINE todo == task[a].todo
           saved == task[a].saved
           todo2 == task'[a].todo
           saved2 == task'[a].saved
           Done2(i) == repo'[i] = "CANONICAL" /\ index'[i] = "CANONICAL"
           Proceeds ==
             /\ pc'[a] \in {"verify", "canonicalize", "index"} =>
                  \A i \in In(saved2) \ In(todo2) : Done2(i)
             /\ pc'[a] = "index" => repo'[Head(todo2)] = "CANONICAL"
             /\ pc'[a] \in {"snapshot", "release"} => \A i \in In(saved2) : Done2(i)
             /\ pc'[a] = "release" /\ task'[a].asked =>
                  \A i \in In(saved2) : snapshot'[i] = "CANONICAL"
             /\ pc'[a] \in {"tool_verify", "tool_canonicalize"} => task'[a].asked
             /\ pc'[a] \in {"tool_index", "tool_load"} =>
                  repo'[Head(todo2)] = Stage(task'[a])
             /\ pc'[a] = "tool_load" => index'[Head(todo2)] = Stage(task'[a])
<1>0. SUFFICES Proceeds
  <2>1. Progress(a)' <=> Proceeds
    BY DEF Progress, Done, Stage, In
  <2> QED
    BY <2>1
<1>1. /\ Shape(pc[a], task[a]) /\ todo \in Seq(Items) /\ saved \in Seq(Items)
      /\ pc \in [Agents -> Phases]
      /\ repo \in [Items -> Stages] /\ index \in [Items -> Stages]
      /\ In(saved) \subseteq Items
  BY ListsAreTyped DEF Typed, TypeOK
<1>2. todo # << >> =>
        /\ Head(todo) \in Items /\ Head(todo) \in In(todo)
        /\ In(todo) = {Head(todo)} \cup In(Tail(todo))
  BY <1>1, HeadAndTail
<1>3. ASSUME pc'[a] \notin {"verify", "canonicalize", "index", "snapshot", "release"},
             pc'[a] \notin {"tool_verify", "tool_canonicalize", "tool_index", "tool_load"}
      PROVE  Proceeds
  BY <1>3
<1>4. ASSUME NEW p, Goto(a, p) PROVE pc'[a] = p
  BY <1>1, <1>4 DEF Goto
<1>5. CASE Leave(a)
  BY <1>3, <1>5, TaskSteps
<1>6. CASE Register(a) \/ RegisterFails(a) \/ Queue(a)
  BY <1>3, <1>6 DEF Register, RegisterFails, Queue
<1>7. CASE StartOver(a)
  <2>1. pc'[a] \in {"index_new", "verify"} /\ In(saved2) \ In(todo2) = {}
    BY <1>4, <1>7, TaskSteps DEF StartOver, Registered, IndexNew
  <2> QED
    BY <2>1
<1>8. CASE IndexNew(a) /\ todo # << >>
  BY <1>3, <1>8 DEF IndexNew
<1>9. CASE Verify(a)
  <2>1. /\ pc[a] = "verify" /\ todo # << >> /\ pc'[a] = "canonicalize" /\ task' = task
        /\ repo' = [repo EXCEPT ![Head(todo)] = "VERIFIED"] /\ index' = index
    BY <1>4, <1>9 DEF Verify
  <2>2. \A i \in In(saved) \ In(todo) : Done(i) /\ i # Head(todo) /\ i \in Items
    BY <1>1, <1>2, <2>1 DEF Progress
  <2> QED
    BY <1>1, <2>1, <2>2 DEF Done
<1>10. CASE Canonicalize(a)
  <2>1. /\ pc[a] = "canonicalize" /\ todo # << >> /\ pc'[a] = "index" /\ task' = task
        /\ repo' = [repo EXCEPT ![Head(todo)] = "CANONICAL"] /\ index' = index
    BY <1>1, <1>4, <1>10 DEF Canonicalize, Shape
  <2>2. \A i \in In(saved) \ In(todo) : Done(i) /\ i \in Items
    BY <1>1, <2>1 DEF Progress
  <2> QED
    BY <1>1, <1>2, <2>1, <2>2 DEF Done
<1>11. CASE Index(a)
  <2>1. /\ pc[a] = "index" /\ todo # << >> /\ pc'[a] = "verify"
        /\ todo2 = Tail(todo) /\ saved2 = saved
        /\ repo' = repo /\ index' = [index EXCEPT ![Head(todo)] = repo[Head(todo)]]
    BY <1>1, <1>4, <1>11, TaskSteps DEF Index, Shape, TakeOne, Reindex
  <2>2. repo[Head(todo)] = "CANONICAL" /\ \A i \in In(saved) \ In(todo) : Done(i)
    BY <2>1 DEF Progress
  <2>3. \A i \in In(saved2) \ In(todo2) : i \in Items /\ (i = Head(todo) \/ Done(i))
    BY <1>1, <1>2, <2>1, <2>2
  <2>4. \A i \in In(saved2) \ In(todo2) : Done2(i)
    BY <1>1, <2>1, <2>2, <2>3 DEF Done
  <2> QED
    BY <2>1, <2>4
<1>12. CASE AllCanonical(a)
  <2>1. /\ pc[a] = "verify" /\ todo = << >> /\ UNCHANGED <<repo, index, snapshot, task>>
        /\ pc'[a] = IF task[a].asked THEN "snapshot" ELSE "release"
    BY <1>4, <1>12 DEF AllCanonical, memory
  <2>2. \A i \in In(saved) : Done(i)
    BY <2>1, EmptyHoldsNothing DEF Progress
  <2> QED
    BY <2>1, <2>2 DEF Done
<1>13. CASE CreateSnapshot(a)
  <2>1. /\ pc[a] = "snapshot" /\ pc'[a] = "release" /\ UNCHANGED <<repo, index, task>>
        /\ snapshot' = index
    BY <1>4, <1>13 DEF CreateSnapshot
  <2>2. \A i \in In(saved) : Done(i)
    BY <2>1 DEF Progress
  <2> QED
    BY <2>1, <2>2 DEF Done
<1>14. CASE Retrieve(a)
  <2>1. pc[a] = "retrieve" /\ pc'[a] = "release" /\ task' = task
    BY <1>4, <1>14 DEF Retrieve
  <2>2. In(saved2) = {}
    BY <1>1, <2>1, EmptyHoldsNothing DEF Shape, RetrievePhases
  <2> QED
    BY <2>1, <2>2
<1>15. CASE \/ Acquire(a) \/ FindGiven(a) \/ FindActive(a) \/ FindByGoal(a)
            \/ CreateCampaign(a) \/ IndexCampaign(a) \/ LoadSnapshot(a)
  <2>1. pc'[a] \in {"register", "find_active", "load_snapshot", "find_goal", "create",
                    "index_campaign", "retrieve"}
    BY <1>4, <1>15 DEF Acquire, FindGiven, FindActive, FindByGoal, PickFrom, CreateCampaign,
       IndexCampaign, LoadSnapshot
  <2> QED
    BY <1>3, <2>1
<1>16. CASE ToolRegister(a)
  <2>1. /\ todo # << >> /\ todo2 = todo /\ task'[a].asked = task[a].asked
        /\ repo' = [repo EXCEPT ![Head(todo)] = "NEW"]
        /\ pc'[a] = IF task[a].asked THEN "tool_verify" ELSE "tool_index"
    BY <1>4, <1>16, TaskSteps DEF ToolRegister
  <2> QED
    BY <1>1, <1>2, <2>1 DEF Stage
<1>17. CASE ToolPromote(a)
  <2>1. task' = task /\ todo # << >> /\ task[a].asked
    BY <1>1, <1>17 DEF ToolPromote, Shape, ToolPhases, Progress
  <2>2. CASE pc'[a] = "tool_canonicalize"
    BY <2>1, <2>2
  <2>3. CASE /\ pc'[a] = "tool_index"
             /\ repo' = [repo EXCEPT ![Head(todo)] = "CANONICAL"]
    BY <1>1, <1>2, <2>1, <2>3 DEF Stage
  <2> QED
    BY <1>4, <1>17, <2>2, <2>3 DEF ToolPromote
<1>18. CASE ToolIndex(a)
  <2>1. /\ pc[a] = "tool_index" /\ todo # << >> /\ pc'[a] = "tool_load"
        /\ UNCHANGED <<repo, task>>
        /\ index' = [index EXCEPT ![Head(todo)] = repo[Head(todo)]]
    BY <1>1, <1>4, <1>18 DEF ToolIndex, Shape, ToolPhases, Reindex
  <2> QED
    BY <1>1, <1>2, <2>1 DEF Progress
<1> QED
  BY <1>5, <1>6, <1>7, <1>8, <1>9, <1>10, <1>11, <1>12, <1>13, <1>14, <1>15, <1>16, <1>17,
     <1>18 DEF Step, Leave, StartOver

LEMMA StepKeepsProgress ==
  ASSUME Typed, Room, Owned, \A b \in Agents : Progress(b), NEW a \in Agents, Step(a)
  PROVE  \A b \in Agents : Progress(b)'
<1>1. PICK phase, t : Moves(a, phase, t)
  BY StepMoves
<1>2. SUFFICES ASSUME NEW b \in Agents, b # a PROVE Progress(b)'
  BY StepKeepsOwnProgress
<1>3. pc'[b] = pc[b] /\ task'[b] = task[b]
  BY <1>1, <1>2, MovesKeepTypes
<1>4. \A i \in Hands(b) : i \notin In(task[a].todo)
  BY <1>2 DEF Owned, Hands
<1>5. repo \in [Items -> Stages] /\ index \in [Items -> Stages] /\ Hands(b) \subseteq Items
  BY ListsAreTyped DEF Typed, TypeOK, Hands
<1>6. \A i \in Hands(b) : repo'[i] = repo[i] /\ index'[i] = index[i]
  BY <1>4, <1>5, StepWrites
<1> QED
  BY <1>3, <1>6, StepWrites, OthersKeepProgress

LEMMA IdleProgress ==
  ASSUME NEW a, pc[a] \in {"idle", "wait_save", "wait_retrieve", "tool_register"}
  PROVE  Progress(a)
BY DEF Progress

----
(* What was returned is there.                                             *)

LEMMA StepKeepsReturned ==
  ASSUME Typed, Room, Owned, \A b \in Agents : Progress(b), ReturnedIsRetrievable,
         NEW a \in Agents, Step(a)
  PROVE  ReturnedIsRetrievable'
<1>1. repo \in [Items -> Stages] /\ index \in [Items -> Stages]
      /\ returned \subseteq [item : Items, stage : Stages, asked : BOOLEAN]
  BY DEF Typed, TypeOK
<1>2. ASSUME NEW r \in returned
      PROVE  /\ repo'[r.item] = r.stage /\ index'[r.item] = r.stage
             /\ r.asked => snapshot'[r.item] = r.stage
  <2>1. r.item \notin In(task[a].todo) /\ r.item \in Items
    BY <1>1 DEF Owned, Hands
  <2>2. repo'[r.item] = repo[r.item] /\ index'[r.item] = index[r.item]
    BY <1>1, <2>1, StepWrites
  <2>3. repo[r.item] = r.stage /\ index[r.item] = r.stage
        /\ (r.asked => snapshot[r.item] = r.stage)
    BY DEF ReturnedIsRetrievable
  <2> QED
    BY <2>2, <2>3, StepWrites
<1>3. ASSUME NEW r \in returned', r \notin returned
      PROVE  /\ repo'[r.item] = r.stage /\ index'[r.item] = r.stage
             /\ r.asked => snapshot'[r.item] = r.stage
  <2>1. CASE Release(a)
    <3>1. /\ pc[a] = "release" /\ UNCHANGED <<repo, index, snapshot>>
          /\ r.item \in In(task[a].saved) /\ r.stage = "CANONICAL" /\ r.asked = task[a].asked
      BY <1>3, <2>1 DEF Release, memory
    <3> QED
      BY <3>1 DEF Progress, Done
  <2>2. CASE ToolLoad(a)
    <3>1. /\ pc[a] = "tool_load" /\ UNCHANGED <<repo, index, snapshot>>
          /\ r.item = Head(task[a].todo) /\ r.stage = Stage(task[a]) /\ r.asked = FALSE
      BY <1>3, <2>2 DEF ToolLoad, memory, Stage
    <3> QED
      BY <3>1 DEF Progress
  <2>3. CASE ~Release(a) /\ ~ToolLoad(a)
    <3>1. UNCHANGED returned
      BY <2>3 DEF Step, Acquire, Register, RegisterFails, Queue, Registered, IndexNew,
         Verify, Canonicalize, Index, AllCanonical, CreateSnapshot, SaveRaises, FindGiven,
         FindActive, FindByGoal, CreateCampaign, IndexCampaign, LoadSnapshot, Retrieve,
         RetrieveRaises, ToolRegister, ToolPromote, ToolIndex, ToolRaises, Abort, ghosts
    <3> QED
      BY <1>3, <3>1
  <2> QED
    BY <2>1, <2>2, <2>3
<1> QED
  BY <1>2, <1>3 DEF ReturnedIsRetrievable

----
(* The index follows the repository.                                       *)

Followed ==
  \A i \in Items :
    index[i] # repo[i] => i \in interrupted \/ \E a \in Agents : i \in In(task[a].saved)

\* A step that writes a document has its item among the saved ones.
LEMMA WrittenIsSaved ==
  ASSUME Typed, NEW a \in Agents, Step(a)
  PROVE  \/ repo' = repo
         \/ \E i \in In(task'[a].saved), s \in Stages : repo' = [repo EXCEPT ![i] = s]
<1>1. /\ Shape(pc[a], task[a]) /\ task[a].todo \in Seq(Items) /\ task[a].saved \in Seq(Items)
  BY ListsAreTyped
<1>2. task[a].todo # << >> =>
        /\ Head(task[a].todo) \in Items /\ Head(task[a].todo) \in In(task[a].todo)
  BY <1>1, HeadAndTail
<1>3. \A s \in {"NEW", "VERIFIED", "CANONICAL"} : s \in Stages
  BY DEF Stages
<1>4. CASE Register(a)
  <2>1. Head(task[a].todo) \in In(task'[a].saved)
    BY <1>1, <1>2, <1>4, TaskSteps, AppendHolds
  <2> QED
    BY <1>3, <1>4, <2>1 DEF Register
<1>5. CASE ToolRegister(a)
  <2>1. Head(task[a].todo) \in In(task'[a].saved)
    BY <1>1, <1>2, <1>5, TaskSteps, SingletonHolds
  <2> QED
    BY <1>3, <1>5, <2>1 DEF ToolRegister
<1>6. CASE Verify(a) \/ Canonicalize(a)
  <2>1. Head(task[a].todo) \in In(task'[a].saved)
    BY <1>1, <1>2, <1>6 DEF Verify, Canonicalize, Shape
  <2> QED
    BY <1>3, <1>6, <2>1 DEF Verify, Canonicalize
<1>7. CASE ToolPromote(a)
  <2>1. Head(task[a].todo) \in In(task'[a].saved)
    BY <1>1, <1>7 DEF ToolPromote, Shape, ToolPhases
  <2> QED
    BY <1>3, <1>7, <2>1 DEF ToolPromote
<1>8. CASE ~(\/ Register(a) \/ ToolRegister(a) \/ Verify(a) \/ Canonicalize(a) \/ ToolPromote(a))
  BY <1>8 DEF Step, Acquire, Release, RegisterFails, Queue, Registered, IndexNew, Index,
     AllCanonical, CreateSnapshot, SaveRaises, FindGiven, FindActive, FindByGoal,
     CreateCampaign, IndexCampaign, LoadSnapshot, Retrieve, RetrieveRaises, ToolIndex,
     ToolLoad, ToolRaises, Abort, memory
<1> QED
  BY <1>4, <1>5, <1>6, <1>7, <1>8

\* A step lets go of an item only when it is indexed, or cut short.
LEMMA SavedIsFollowed ==
  ASSUME Typed, NEW a \in Agents, Progress(a), Step(a)
  PROVE  /\ interrupted \subseteq interrupted'
         /\ \A i \in In(task[a].saved) :
              \/ i \in In(task'[a].saved) \/ i \in interrupted'
              \/ index'[i] = repo'[i]
<1>1. /\ Shape(pc[a], task[a]) /\ task[a].todo \in Seq(Items) /\ task[a].saved \in Seq(Items)
  BY ListsAreTyped
<1>2. CASE SaveRaises(a) \/ RetrieveRaises(a) \/ ToolRaises(a)
  BY <1>2 DEF SaveRaises, RetrieveRaises, ToolRaises, Abort
<1>3. CASE Release(a)
  <2>1. /\ UNCHANGED <<repo, index, interrupted>> /\ pc[a] = "release"
    BY <1>3 DEF Release, memory
  <2> QED
    BY <2>1 DEF Progress, Done
<1>4. CASE ToolLoad(a)
  <2>1. /\ UNCHANGED <<repo, index, interrupted>> /\ pc[a] = "tool_load"
    BY <1>4 DEF ToolLoad, memory
  <2>2. In(task[a].saved) = {Head(task[a].todo)}
    BY <1>1, <2>1 DEF Shape, ToolPhases
  <2> QED
    BY <2>1, <2>2 DEF Progress
<1>5. CASE ~Leave(a)
  <2>1. interrupted' = interrupted
    BY <1>5 DEF Step, Leave, Acquire, Register, RegisterFails, Queue, Registered, IndexNew,
       Verify, Canonicalize, Index, AllCanonical, CreateSnapshot, FindGiven, FindActive,
       FindByGoal, CreateCampaign, IndexCampaign, LoadSnapshot, Retrieve, ToolRegister,
       ToolPromote, ToolIndex, ghosts
  <2>2. CASE Register(a)
    <3>1. /\ task[a].todo # << >>
          /\ task'[a].saved = Append(task[a].saved, Head(task[a].todo))
      BY <2>2, TaskSteps
    <3>2. In(task'[a].saved) = In(task[a].saved) \cup {Head(task[a].todo)}
      BY <1>1, <3>1, HeadAndTail, AppendHolds
    <3> QED
      BY <2>1, <3>2
  <2>3. CASE ToolRegister(a)
    <3>1. In(task[a].saved) = {}
      BY <1>1, <2>3, EmptyHoldsNothing DEF ToolRegister, Shape
    <3> QED
      BY <2>1, <3>1
  <2>4. CASE ~Register(a) /\ ~ToolRegister(a)
    BY <1>5, <2>1, <2>4, StepKinds, TaskSteps
  <2> QED
    BY <2>2, <2>3, <2>4
<1> QED
  BY <1>2, <1>3, <1>4, <1>5 DEF Leave

LEMMA StepKeepsFollowed ==
  ASSUME Typed, Room, Followed, NEW a \in Agents, Progress(a), Step(a)
  PROVE  Followed'
<1>1. PICK phase, t : Moves(a, phase, t)
  BY StepMoves
<1>2. \A b \in Agents \ {a} : task'[b] = task[b]
  BY <1>1, MovesKeepTypes
<1>3. repo \in [Items -> Stages] /\ index \in [Items -> Stages]
      /\ In(task[a].todo) \subseteq Items
  BY ListsAreTyped DEF Typed, TypeOK
<1>4. SUFFICES ASSUME NEW i \in Items, index'[i] # repo'[i], i \notin interrupted'
               PROVE  \E b \in Agents : i \in In(task'[b].saved)
  BY DEF Followed, In
<1>5. CASE repo'[i] # repo[i]
  BY <1>3, <1>5, WrittenIsSaved
<1>6. CASE repo'[i] = repo[i]
  <2>1. index'[i] = index[i]
    BY <1>3, <1>4, <1>6, StepWrites
  <2>2. PICK b \in Agents : i \in In(task[b].saved)
    BY <1>4, <1>6, <2>1, SavedIsFollowed DEF Followed
  <2>3. CASE b = a
    BY <1>4, <2>2, <2>3, SavedIsFollowed
  <2>4. CASE b # a
    BY <1>2, <2>2, <2>4
  <2> QED
    BY <2>3, <2>4
<1> QED
  BY <1>5, <1>6

LEMMA OthersKeepFollowed ==
  ASSUME Followed, UNCHANGED <<repo, index>>, interrupted \subseteq interrupted',
         \A a \in Agents : \A i \in In(task[a].saved) :
            i \in In(task'[a].saved) \/ i \in interrupted'
  PROVE  Followed'
<1>1. SUFFICES ASSUME NEW i \in Items, index'[i] # repo'[i], i \notin interrupted'
               PROVE  \E b \in Agents : i \in In(task'[b].saved)
  BY DEF Followed, In
<1> QED
  BY <1>1 DEF Followed

\* Campaigns are indexed unless their creation was disturbed.
Indexed ==
  \A c \in Existing :
    ~campaigns[c].indexed =>
      \/ faults + crashes > 0
      \/ \E a \in Agents : pc[a] = "index_campaign" /\ task[a].campaign = c

LEMMA SumOfNone ==
  ASSUME NEW x \in Nat, NEW y \in Nat
  PROVE  x + y > 0 <=> x # 0 \/ y # 0
OBVIOUS

LEMMA StepKeepsIndexed ==
  ASSUME Typed, Room, Created, Indexed, NEW a \in Agents, Step(a)
  PROVE  Indexed'
<1>1. PICK phase, t : Moves(a, phase, t)
  BY StepMoves
<1>2. \A b \in Agents \ {a} : pc'[b] = pc[b] /\ task'[b] = task[b]
  BY <1>1, MovesKeepTypes
<1>3. faults \in Nat /\ crashes \in Nat /\ faults' \in Nat /\ crashes' = crashes
      /\ faults' >= faults
  <2>1. faults \in Nat /\ crashes \in Nat
    BY BoundsAssumption DEF Typed, TypeOK
  <2>2. crashes' = crashes
    BY StepKeepsAccounts
  <2>3. faults' = faults \/ Break
    BY DEF Step, Acquire, Release, Register, RegisterFails, Queue, Registered, IndexNew,
       Verify, Canonicalize, Index, AllCanonical, CreateSnapshot, SaveRaises, FindGiven,
       FindActive, FindByGoal, CreateCampaign, IndexCampaign, LoadSnapshot, Retrieve, Attempt,
       RetrieveRaises, ToolRegister, ToolPromote, ToolIndex, ToolLoad, ToolRaises, bounds
  <2> QED
    BY <2>1, <2>2, <2>3 DEF Break
<1>4. campaigns \in [Campaigns -> Campaign \cup {NoCampaign}] /\ Existing \subseteq Campaigns
  BY DEF Typed, TypeOK, Existing
<1>5. SUFFICES ASSUME NEW c \in Existing', ~campaigns'[c].indexed, ~(faults' + crashes' > 0)
               PROVE  \E b \in Agents : pc'[b] = "index_campaign" /\ task'[b].campaign = c
  BY DEF Indexed
<1>6. ~(faults + crashes > 0) /\ ~Break
  <2>1. ~(faults' + crashes' > 0) => ~(faults + crashes > 0) /\ faults' = faults
    <3>1. faults' + crashes' > 0 <=> faults' # 0 \/ crashes' # 0
      BY <1>3, SumOfNone
    <3>2. faults + crashes > 0 <=> faults # 0 \/ crashes # 0
      BY <1>3, SumOfNone
    <3>3. faults' = 0 => faults = 0
      BY <1>3
    <3> QED
      BY <1>3, <3>1, <3>2, <3>3
  <2>2. Break => faults' # faults
    BY <1>3 DEF Break
  <2> QED
    BY <1>5, <2>1, <2>2
<1>7. CASE CreateCampaign(a)
  <2> DEFINE d == CHOOSE d \in Campaigns : d \notin Existing
             m == NewCampaign(task[a].goal)
  <2>1. /\ d \in Campaigns /\ d \notin Existing
        /\ Moves(a, "index_campaign", [task[a] EXCEPT !.campaign = d])
    BY <1>7, CreateMoves
  <2>2. campaigns' = [campaigns EXCEPT ![d] = m]
    BY <1>7 DEF CreateCampaign
  <2> HIDE DEF d, m
  <2>3. task'[a] = [task[a] EXCEPT !.campaign = d] /\ pc'[a] = "index_campaign"
        /\ task[a] \in Task
    BY <2>1, MovesKeepTypes, ListsAreTyped
  <2>4. task'[a].campaign = d
    BY <2>3 DEF Task
  <2>5. CASE c = d
    BY <2>3, <2>4, <2>5
  <2>6. CASE c # d
    <3>1. c \in Campaigns /\ campaigns'[c] = campaigns[c]
      BY <1>4, <2>1, <2>2, <2>6 DEF Existing
    <3>2. c \in Existing
      BY <1>5, <3>1 DEF Existing
    <3>3. PICK b \in Agents : pc[b] = "index_campaign" /\ task[b].campaign = c
      BY <1>5, <1>6, <3>1, <3>2 DEF Indexed
    <3>4. b # a
      BY <1>7, <3>3 DEF CreateCampaign
    <3> QED
      BY <1>2, <3>3, <3>4
  <2> QED
    BY <2>5, <2>6
<1>8. CASE IndexCampaign(a)
  <2>1. campaigns' = [campaigns EXCEPT ![task[a].campaign].indexed = TRUE]
    BY <1>6, <1>8 DEF IndexCampaign
  <2> DEFINE d == task[a].campaign
             m == [campaigns[d] EXCEPT !.indexed = TRUE]
  <2>2. d \in Existing /\ Existing' = Existing /\ d \in Campaigns
    BY <1>4, <1>8, StepKeepsCampaigns DEF IndexCampaign, Created, CreateCampaign
  <2>3. m.indexed = TRUE
    BY <2>2, SetField
  <2>4. campaigns' = [campaigns EXCEPT ![d] = m]
    BY <2>1
  <2> HIDE DEF d, m
  <2>5. c # d /\ campaigns'[c] = campaigns[c] /\ c \in Existing
    BY <1>4, <1>5, <2>2, <2>3, <2>4
  <2>6. PICK b \in Agents : pc[b] = "index_campaign" /\ task[b].campaign = c
    BY <1>5, <1>6, <2>5 DEF Indexed
  <2>7. b # a
    BY <2>5, <2>6 DEF d
  <2> QED
    BY <1>2, <2>6, <2>7
<1>9. CASE ~CreateCampaign(a) /\ ~IndexCampaign(a)
  <2>1. campaigns' = campaigns /\ Existing' = Existing
    BY <1>9, StepWritesCampaigns DEF Existing
  <2>2. PICK b \in Agents : pc[b] = "index_campaign" /\ task[b].campaign = c
    BY <1>5, <1>6, <2>1 DEF Indexed
  <2>3. pc[a] # "index_campaign"
    BY <1>9 DEF Step, Acquire, Release, Register, RegisterFails, Queue, Registered, IndexNew,
       Verify, Canonicalize, Index, AllCanonical, CreateSnapshot, SaveRaises, FindGiven,
       FindActive, FindByGoal, LoadSnapshot, Retrieve, RetrieveRaises, ToolRegister,
       ToolPromote, ToolIndex, ToolLoad, ToolRaises, SavePhases, ToolPhases
  <2> QED
    BY <1>2, <2>2, <2>3
<1> QED
  BY <1>7, <1>8, <1>9

LEMMA OthersKeepIndexed ==
  ASSUME Indexed, Existing' = Existing,
         \A c \in Existing : campaigns'[c].indexed = campaigns[c].indexed,
         \/ faults' + crashes' > 0
         \/ /\ faults' = faults /\ crashes' = crashes
            /\ \A a \in Agents : pc[a] = "index_campaign" =>
                 pc'[a] = pc[a] /\ task'[a] = task[a]
  PROVE  Indexed'
BY DEF Indexed

----
(* The lock.                                                               *)

Inside(a) == pc[a] \in SavePhases \cup RetrievePhases \cup {"release"}

Alone ==
  \A a \in Agents : Inside(a) => writer /\ \A b \in Agents : Inside(b) => b = a

LEMMA StepKeepsAlone ==
  ASSUME Typed, Room, Alone, NEW a \in Agents, Step(a)
  PROVE  Alone'
<1>1. PICK phase, t : Moves(a, phase, t)
  BY StepMoves
<1>2. \A b \in Agents \ {a} : Inside(b)' <=> Inside(b)
  BY <1>1, MovesKeepTypes DEF Inside
<1>3. ASSUME NEW p, Goto(a, p) PROVE pc'[a] = p
  BY <1>3 DEF Goto, Typed, TypeOK
<1>4. CASE Acquire(a)
  <2>1. ~writer /\ writer'
    BY <1>4 DEF Acquire
  <2>2. \A b \in Agents : ~Inside(b)
    BY <2>1 DEF Alone
  <2>3. \A b \in Agents : Inside(b)' => b = a
    BY <1>2, <2>2
  <2> QED
    BY <2>1, <2>3 DEF Alone
<1>5. CASE Leave(a)
  <2>1. pc'[a] = "idle" /\ ~Inside(a)'
    BY <1>5, TaskSteps DEF Inside, SavePhases, RetrievePhases
  <2>2. CASE Inside(a)
    <3>1. \A b \in Agents : ~Inside(b)'
      BY <1>2, <2>1, <2>2 DEF Alone
    <3> QED
      BY <3>1 DEF Alone
  <2>3. CASE ~Inside(a)
    <3>1. writer' = writer
      BY <1>5, <2>3 DEF Leave, Release, SaveRaises, RetrieveRaises, ToolLoad, ToolRaises,
         Inside, SavePhases, RetrievePhases
    <3> QED
      BY <1>2, <2>1, <3>1 DEF Alone
  <2> QED
    BY <2>2, <2>3
<1>6. CASE ~Acquire(a) /\ ~Leave(a)
  <2>1. writer' = writer
    BY <1>6 DEF Step, Leave, Register, RegisterFails, Queue, Registered, IndexNew, Verify,
       Canonicalize, Index, AllCanonical, CreateSnapshot, FindGiven, FindActive, FindByGoal,
       CreateCampaign, IndexCampaign, LoadSnapshot, Retrieve, ToolRegister, ToolPromote,
       ToolIndex
  <2>2. Inside(a)' => Inside(a)
    <3>1. CASE ToolRegister(a) \/ ToolPromote(a) \/ ToolIndex(a)
      <4>1. pc'[a] \in ToolPhases
        BY <1>3, <3>1 DEF ToolRegister, ToolPromote, ToolIndex, ToolPhases
      <4> QED
        BY <4>1 DEF Inside, ToolPhases, SavePhases, RetrievePhases
    <3>2. CASE ~(ToolRegister(a) \/ ToolPromote(a) \/ ToolIndex(a))
      BY <1>6, <3>2 DEF Step, Leave, Register, RegisterFails, Queue, Registered, IndexNew,
         Verify, Canonicalize, Index, AllCanonical, CreateSnapshot, FindGiven, FindActive,
         FindByGoal, CreateCampaign, IndexCampaign, LoadSnapshot, Retrieve, Inside,
         SavePhases, RetrievePhases
    <3> QED
      BY <3>1, <3>2
  <2> QED
    BY <1>2, <2>1, <2>2 DEF Alone
<1> QED
  BY <1>4, <1>5, <1>6

LEMMA OthersKeepAlone ==
  ASSUME Alone, writer' = writer, \A a \in Agents : Inside(a)' => Inside(a)
  PROVE  Alone'
BY DEF Alone

----
(* One campaign for one goal.                                              *)

Unstarted(c) == campaigns[c].status \in {"CREATED", "READY"}

\* An agent that is about to create a campaign has found none with its goal.
Searched ==
  \A a \in Agents :
    pc[a] = "create" /\ Named(task[a].goal) =>
      \A c \in Existing : campaigns[c].goal = task[a].goal => ~Unstarted(c)

LEMMA StepKeepsSearched ==
  ASSUME Typed, Room, Created, Alone, Searched, NEW a \in Agents, Step(a)
  PROVE  Searched'
<1>1. PICK phase, t : Moves(a, phase, t)
  BY StepMoves
<1>2. \A b \in Agents \ {a} : pc'[b] = pc[b] /\ task'[b] = task[b]
  BY <1>1, MovesKeepTypes
<1>3. ASSUME NEW p, Goto(a, p) PROVE pc'[a] = p
  BY <1>3 DEF Goto, Typed, TypeOK
<1>4. SUFFICES ASSUME NEW b \in Agents, pc'[b] = "create", Named(task'[b].goal),
                      NEW c \in Existing', campaigns'[c].goal = task'[b].goal
               PROVE  ~(campaigns'[c].status \in {"CREATED", "READY"})
  BY DEF Searched, Unstarted, Named
<1>5. CASE b = a
  <2>1. FindByGoal(a)
    <3>1. ~Leave(a)
      BY <1>4, <1>5, TaskSteps
    <3>2. ~(\/ Register(a) \/ RegisterFails(a) \/ Queue(a) \/ Registered(a) \/ IndexNew(a)
            \/ Verify(a) \/ Canonicalize(a) \/ Index(a) \/ AllCanonical(a) \/ CreateSnapshot(a))
      BY <1>3, <1>4, <1>5 DEF Register, RegisterFails, Queue, Registered, IndexNew, Verify,
         Canonicalize, Index, AllCanonical, CreateSnapshot
    <3>3. ~(\/ FindGiven(a) \/ FindActive(a) \/ CreateCampaign(a) \/ IndexCampaign(a)
            \/ LoadSnapshot(a) \/ Retrieve(a) \/ Acquire(a))
      BY <1>3, <1>4, <1>5 DEF FindGiven, FindActive, PickFrom, CreateCampaign, IndexCampaign,
         LoadSnapshot, Retrieve, Acquire
    <3>4. ~(ToolRegister(a) \/ ToolPromote(a) \/ ToolIndex(a))
      BY <1>3, <1>4, <1>5 DEF ToolRegister, ToolPromote, ToolIndex
    <3> QED
      BY <3>1, <3>2, <3>3, <3>4 DEF Step, Leave
  <2>2. UNCHANGED campaigns
    BY <2>1 DEF FindByGoal, memory
  <2>3. /\ UNCHANGED task
        /\ (IF Named(task[a].goal) THEN Open(task[a].goal) ELSE {}) = {}
    <3>1. ~Goto(a, "load_snapshot")
      BY <1>3, <1>4, <1>5
    <3> QED
      BY <2>1, <3>1 DEF FindByGoal, PickFrom
  <2>4. Open(task[a].goal) = {}
    BY <1>4, <1>5, <2>3
  <2>5. c \in Existing /\ campaigns[c].goal = task[a].goal
    BY <1>4, <1>5, <2>2, <2>3 DEF Existing
  <2> QED
    BY <2>2, <2>4, <2>5 DEF Open
<1>6. CASE b # a
  <2>1. pc[b] = "create" /\ task'[b] = task[b]
    BY <1>2, <1>4, <1>6
  <2>2. ~Inside(a)
    BY <1>6, <2>1 DEF Alone, Inside, RetrievePhases
  <2>3. ~CreateCampaign(a) /\ ~IndexCampaign(a)
    BY <2>2 DEF Inside, CreateCampaign, IndexCampaign, RetrievePhases
  <2>4. UNCHANGED campaigns
    BY <2>3, StepWritesCampaigns
  <2>5. c \in Existing /\ campaigns[c].goal = task[b].goal
    BY <1>4, <2>1, <2>4 DEF Existing
  <2> QED
    BY <1>4, <2>1, <2>4, <2>5 DEF Searched, Unstarted
<1> QED
  BY <1>5, <1>6

\* Only a call that names no goal stores another one than it was given.
Explained ==
  \A c \in Existing : ~campaigns[c].named => campaigns[c].goal \in BlankGoals \cup {DefaultGoal}

Alike(c, d) == campaigns[c].goal = campaigns[d].goal /\ Unstarted(c) /\ Unstarted(d)

\* What Shared asks of two campaigns, as OneCampaignPerGoal does, without the half
\* that Explained tells.
Shared ==
  \A c, d \in Existing :
    c # d /\ Alike(c, d) => ~(campaigns[c].named /\ campaigns[d].named)

LEMMA SharedIsEnough ==
  ASSUME Typed, Explained, Shared
  PROVE  OneCampaignPerGoal
<1>1. SUFFICES ASSUME NEW c \in Existing, NEW d \in Existing, c # d,
                      campaigns[c].goal = campaigns[d].goal,
                      {campaigns[c].status, campaigns[d].status} \subseteq {"CREATED", "READY"}
               PROVE  /\ campaigns[c].goal \in BlankGoals \cup {DefaultGoal}
                      /\ ~(campaigns[c].named /\ campaigns[d].named)
  BY DEF OneCampaignPerGoal
<1>2. ~(campaigns[c].named /\ campaigns[d].named)
  BY <1>1 DEF Shared, Alike, Unstarted
<1> QED
  BY <1>1, <1>2 DEF Explained

LEMMA StepKeepsOneCampaign ==
  ASSUME Typed, Room, Created, Searched, Explained, Shared, NEW a \in Agents, Step(a)
  PROVE  Explained' /\ Shared'
<1>1. campaigns \in [Campaigns -> Campaign \cup {NoCampaign}] /\ Existing \subseteq Campaigns
  BY DEF Typed, TypeOK, Existing
<1>2. CASE campaigns' = campaigns
  BY <1>2 DEF Explained, Shared, Alike, Unstarted, Existing
<1>3. CASE CreateCampaign(a)
  <2> DEFINE d == CHOOSE d \in Campaigns : d \notin Existing
             m == NewCampaign(task[a].goal)
  <2>1. d \in Campaigns /\ d \notin Existing
    BY <1>3, CreateMoves
  <2>2. campaigns' = [campaigns EXCEPT ![d] = m] /\ pc[a] = "create"
    BY <1>3 DEF CreateCampaign
  <2>3. /\ m.goal = IF task[a].goal = NoGoal THEN DefaultGoal ELSE task[a].goal
        /\ m.status = "CREATED" /\ m.named = Named(task[a].goal)
    BY DEF NewCampaign
  <2> HIDE DEF d, m
  <2>4. \A c \in Existing' : c \in Campaigns /\ (c = d \/ c \in Existing)
    BY <1>1, <2>1, <2>2 DEF Existing
  <2>5. \A c \in Campaigns : c # d => campaigns'[c] = campaigns[c]
    BY <1>1, <2>1, <2>2
  <2>6. campaigns'[d] = m
    BY <1>1, <2>1, <2>2
  <2>7. ASSUME NEW c \in Existing, m.named, campaigns[c].goal = m.goal
        PROVE  ~Unstarted(c)
    BY <2>2, <2>3, <2>7 DEF Searched, Named
  <2>8. Explained'
    <3>1. SUFFICES ASSUME NEW c \in Existing', ~campaigns'[c].named
                   PROVE  campaigns'[c].goal \in BlankGoals \cup {DefaultGoal}
      BY DEF Explained
    <3>2. CASE c = d
      BY <2>3, <2>6, <3>1, <3>2 DEF Named, Explained
    <3>3. CASE c # d
      BY <2>4, <2>5, <3>1, <3>3 DEF Explained
    <3> QED
      BY <3>2, <3>3
  <2>9. Shared'
    <3>1. SUFFICES ASSUME NEW x \in Existing', NEW y \in Existing', x # y,
                          campaigns'[x].goal = campaigns'[y].goal,
                          campaigns'[x].status \in {"CREATED", "READY"},
                          campaigns'[y].status \in {"CREATED", "READY"},
                          campaigns'[x].named, campaigns'[y].named
                   PROVE  FALSE
      BY DEF Shared, Alike, Unstarted
    <3>2. CASE x = d
      <4>1. y \in Existing /\ campaigns'[y] = campaigns[y]
        BY <2>4, <2>5, <3>1, <3>2
      <4> QED
        BY <2>6, <2>7, <3>1, <3>2, <4>1 DEF Unstarted
    <3>3. CASE y = d
      <4>1. x \in Existing /\ campaigns'[x] = campaigns[x]
        BY <2>4, <2>5, <3>1, <3>3
      <4> QED
        BY <2>6, <2>7, <3>1, <3>3, <4>1 DEF Unstarted
    <3>4. CASE x # d /\ y # d
      <4>1. /\ x \in Existing /\ campaigns'[x] = campaigns[x]
            /\ y \in Existing /\ campaigns'[y] = campaigns[y]
        BY <2>4, <2>5, <3>4
      <4> QED
        BY <3>1, <4>1 DEF Shared, Alike, Unstarted
    <3> QED
      BY <3>2, <3>3, <3>4
  <2> QED
    BY <2>8, <2>9
<1>4. CASE /\ IndexCampaign(a)
           /\ campaigns' = [campaigns EXCEPT ![task[a].campaign].indexed = TRUE]
  <2> DEFINE d == task[a].campaign
             m == [campaigns[d] EXCEPT !.indexed = TRUE]
  <2>1. d \in Existing /\ Existing' = Existing
    BY <1>4, StepKeepsCampaigns DEF IndexCampaign, Created, CreateCampaign
  <2>2. /\ m.goal = campaigns[d].goal /\ m.status = campaigns[d].status
        /\ m.named = campaigns[d].named
    BY <1>1, <2>1, SetField
  <2>3. campaigns' = [campaigns EXCEPT ![d] = m]
    BY <1>4
  <2> HIDE DEF d, m
  <2>4. \A c \in Existing : /\ campaigns'[c].goal = campaigns[c].goal
                            /\ campaigns'[c].status = campaigns[c].status
                            /\ campaigns'[c].named = campaigns[c].named
    BY <1>1, <2>1, <2>2, <2>3
  <2> QED
    BY <2>1, <2>4 DEF Explained, Shared, Alike, Unstarted
<1> QED
  BY <1>2, <1>3, <1>4, StepWritesCampaigns

\* A transition makes no campaign unstarted that was not, and keeps its goal.
LEMMA AdvanceStarts ==
  ASSUME Typed, NEW c \in Campaigns, NEW s \in CampaignStates, Advance(c, s)
  PROVE  \A x \in Existing :
           /\ campaigns'[x].goal = campaigns[x].goal
           /\ campaigns'[x].indexed = campaigns[x].indexed
           /\ campaigns'[x].named = campaigns[x].named
           /\ campaigns'[x].status \in {"CREATED", "READY"} => Unstarted(x)
<1> DEFINE m == [campaigns[c] EXCEPT !.status = s]
<1>1. campaigns' = [campaigns EXCEPT ![c] = m] /\ c \in Existing
  BY AdvanceSets DEF Advance
<1>2. /\ m.status = s /\ m.goal = campaigns[c].goal /\ m.indexed = campaigns[c].indexed
      /\ m.named = campaigns[c].named
  BY <1>1, SetField
<1>3. campaigns[c].status \in CampaignStates
  BY <1>1, CampaignsExist DEF Campaign
<1>4. s \in {"CREATED", "READY"} => campaigns[c].status = "CREATED"
  <2>1. s \in CampaignTransitions[campaigns[c].status]
    BY DEF Advance
  <2> QED
    BY <1>3, <2>1 DEF CampaignTransitions, CampaignStates
<1> HIDE DEF m
<1>5. campaigns \in [Campaigns -> Campaign \cup {NoCampaign}] /\ Existing \subseteq Campaigns
  BY DEF Typed, TypeOK, Existing
<1> QED
  BY <1>1, <1>2, <1>4, <1>5 DEF Unstarted

LEMMA AdvanceKeepsOneCampaign ==
  ASSUME Typed, Searched, Explained, Shared,
         NEW c \in Campaigns, NEW s \in CampaignStates, Advance(c, s)
  PROVE  Searched' /\ Explained' /\ Shared'
<1>1. Existing' = Existing /\ UNCHANGED <<pc, task>>
  BY AdvanceSets
<1>2. \A x \in Existing :
           /\ campaigns'[x].goal = campaigns[x].goal
           /\ campaigns'[x].named = campaigns[x].named
           /\ campaigns'[x].status \in {"CREATED", "READY"} =>
                campaigns[x].status \in {"CREATED", "READY"}
  BY AdvanceStarts DEF Unstarted
<1>3. Searched'
  BY <1>1, <1>2 DEF Searched, Unstarted
<1>4. Explained' /\ Shared'
  BY <1>1, <1>2 DEF Explained, Shared, Alike, Unstarted
<1> QED
  BY <1>3, <1>4

LEMMA OthersKeepOneCampaign ==
  ASSUME Searched, Explained, Shared, UNCHANGED campaigns,
         \A a \in Agents : pc'[a] = "create" => pc[a] = "create" /\ task'[a] = task[a]
  PROVE  Searched' /\ Explained' /\ Shared'
<1>1. Searched'
  BY DEF Searched, Unstarted, Existing
<1> QED
  BY <1>1 DEF Explained, Shared, Alike, Unstarted, Existing

----
(* All of it together.                                                     *)

Sound ==
  /\ Typed /\ Room /\ Created
  /\ Owned /\ \A a \in Agents : Progress(a)
  /\ ReturnedIsRetrievable
  /\ Followed /\ Indexed
  /\ Alone /\ Searched /\ Explained /\ Shared

LEMMA InitIsSound == Init => Sound
<1> SUFFICES ASSUME Init PROVE Sound
  OBVIOUS
<1>1. Typed /\ Room /\ Created
  BY InitIsTyped
<1>2. \A a \in Agents : pc[a] = "idle" /\ Hands(a) = {}
  BY EmptyHoldsNothing DEF Init, Hands, NoTask
<1>3. Owned /\ ReturnedIsRetrievable
  BY <1>2 DEF Init, Owned, ReturnedIsRetrievable
<1>4. \A a \in Agents : Progress(a)
  BY <1>2, IdleProgress
<1>5. Followed /\ Indexed /\ Explained /\ Shared
  BY DEF Init, Followed, Indexed, Explained, Shared, Existing
<1>6. Alone /\ Searched
  BY <1>2 DEF Alone, Inside, SavePhases, RetrievePhases, Searched
<1> QED
  BY <1>1, <1>3, <1>4, <1>5, <1>6 DEF Sound

LEMMA CallsAreSound ==
  ASSUME Sound, NEW a \in Agents, Calls(a)
  PROVE  Sound'
<1>1. /\ Typed' /\ Room' /\ Created'
      /\ UNCHANGED <<memory, pending, writer, faults, crashes, moves, returned, interrupted>>
  BY CallsKeepTypes DEF Sound
<1>2. PICK phase, t : Moves(a, phase, t)
  BY CallsMove DEF Sound
<1>3. /\ \A b \in Agents \ {a} : pc'[b] = pc[b] /\ task'[b] = task[b]
      /\ pc[a] = "idle" /\ pc'[a] \in {"wait_save", "tool_register", "wait_retrieve"}
  <2>1. \A b \in Agents \ {a} : pc'[b] = pc[b] /\ task'[b] = task[b]
    BY <1>2, MovesKeepTypes DEF Sound
  <2> QED
    BY <2>1 DEF Sound, Calls, SaveAfterTask, ToolSave, RetrieveBeforeTask, Call, Goto, Typed,
       TypeOK
<1>4. Owned'
  BY CallsKeepOwned DEF Sound
<1>5. \A b \in Agents : Progress(b)'
  <2>1. Progress(a)'
    BY <1>3 DEF Progress
  <2>2. \A b \in Agents \ {a} : Progress(b)'
    BY <1>1, <1>3, OthersKeepProgress DEF Sound, memory
  <2> QED
    BY <2>1, <2>2
<1>6. ReturnedIsRetrievable'
  BY <1>1 DEF Sound, ReturnedIsRetrievable, memory
<1>7. Followed'
  <2>1. In(task[a].saved) = {}
    BY CallsTakeFresh DEF Sound
  <2>2. \A b \in Agents : \A i \in In(task[b].saved) : i \in In(task'[b].saved)
    BY <1>3, <2>1
  <2> QED
    BY <1>1, <2>2, OthersKeepFollowed DEF Sound, memory
<1>8. Existing' = Existing /\ UNCHANGED campaigns
  BY <1>1 DEF Existing, memory
<1>9. Indexed'
  <2>1. \A b \in Agents : pc[b] = "index_campaign" => pc'[b] = pc[b] /\ task'[b] = task[b]
    BY <1>3
  <2> QED
    BY <1>1, <1>8, <2>1, OthersKeepIndexed DEF Sound
<1>10. Alone'
  <2>1. \A b \in Agents : Inside(b)' => Inside(b)
    BY <1>3 DEF Inside, SavePhases, RetrievePhases
  <2> QED
    BY <1>1, <2>1, OthersKeepAlone DEF Sound
<1>11. Searched' /\ Explained' /\ Shared'
  <2>1. \A b \in Agents : pc'[b] = "create" => pc[b] = "create" /\ task'[b] = task[b]
    BY <1>3
  <2> QED
    BY <1>8, <2>1, OthersKeepOneCampaign DEF Sound
<1> QED
  BY <1>1, <1>4, <1>5, <1>6, <1>7, <1>9, <1>10, <1>11 DEF Sound

LEMMA StepIsSound ==
  ASSUME Sound, NEW a \in Agents, Step(a)
  PROVE  Sound'
<1>1. Typed' /\ Room' /\ Created'
  BY StepKeepsTypes, StepKeepsRoom, StepKeepsCreated DEF Sound
<1>2. Owned' /\ (\A b \in Agents : Progress(b)')
  BY StepKeepsOwned, StepKeepsProgress DEF Sound
<1>3. ReturnedIsRetrievable'
  BY StepKeepsReturned DEF Sound
<1>4. Followed' /\ Indexed'
  BY StepKeepsFollowed, StepKeepsIndexed DEF Sound
<1>5. Alone' /\ Searched' /\ Explained' /\ Shared'
  BY StepKeepsAlone, StepKeepsSearched, StepKeepsOneCampaign DEF Sound
<1> QED
  BY <1>1, <1>2, <1>3, <1>4, <1>5 DEF Sound

\* A process that stops leaves the rest as it is.
LEMMA StopIsSound ==
  ASSUME Sound, Crash \/ ServerCrash
  PROVE  Sound'
<1>1. Typed' /\ Room' /\ Created'
  BY CrashKeepsTypes DEF Sound
<1>2. PICK S \in {deployment.hooks, deployment.server} :
        Stop(S) /\ (S = deployment.hooks \/ writer' = writer)
  BY DEF Crash, ServerCrash
<1>3. S \subseteq Agents
  BY DeploymentsAssumption DEF Sound, Typed
<1>4. /\ \A a \in Agents : /\ a \in S => pc'[a] = "idle" /\ task'[a] = NoTask
                           /\ a \notin S => pc'[a] = pc[a] /\ task'[a] = task[a]
      /\ crashes' \in 0 .. MaxCrashes /\ crashes' > crashes
      /\ UNCHANGED <<memory, calls, faults, moves, fresh, returned>>
  BY <1>2, StopTakesAll DEF Sound
<1>5. Owned'
  BY <1>4, OthersKeepOwned DEF Sound
<1>6. \A a \in Agents : Progress(a)'
  <2>1. \A a \in S : a \in Agents => Progress(a)'
    BY <1>4 DEF Progress
  <2>2. \A a \in Agents \ S : Progress(a)'
    BY <1>4, OthersKeepProgress DEF Sound, memory
  <2> QED
    BY <2>1, <2>2
<1>7. ReturnedIsRetrievable'
  BY <1>4 DEF Sound, ReturnedIsRetrievable, memory
<1>8. Followed'
  <2>1. interrupted' = interrupted \cup UNION {In(task[a].saved) : a \in S}
    BY <1>2 DEF Stop
  <2>2. \A a \in Agents : \A i \in In(task[a].saved) :
          i \in In(task'[a].saved) \/ i \in interrupted'
    BY <1>4, <2>1
  <2> QED
    BY <1>4, <2>1, <2>2, OthersKeepFollowed DEF Sound, memory
<1>9. Existing' = Existing /\ UNCHANGED campaigns
  BY <1>4 DEF Existing, memory
<1>10. Indexed'
  <2>1. faults' \in Nat /\ crashes' \in Nat /\ crashes' # 0
    BY <1>1, <1>4, BoundsAssumption DEF Sound, Typed, TypeOK
  <2>2. faults' + crashes' > 0
    BY <2>1, SumOfNone
  <2> QED
    BY <2>2 DEF Indexed
<1>11. Alone'
  <2>1. \A a \in Agents : Inside(a)' => Inside(a) /\ a \notin S
    BY <1>4 DEF Inside, SavePhases, RetrievePhases
  <2>2. \A a \in Agents : Inside(a) => a \in deployment.hooks
    BY DEF Sound, Typed, Place, Inside, SavePhases, RetrievePhases, ToolPhases
  <2>3. CASE S = deployment.hooks
    <3>1. \A a \in Agents : ~Inside(a)'
      BY <2>1, <2>2, <2>3
    <3> QED
      BY <3>1 DEF Alone
  <2>4. CASE S # deployment.hooks
    <3>1. writer' = writer
      BY <1>2, <2>4
    <3> QED
      BY <2>1, <3>1, OthersKeepAlone DEF Sound
  <2> QED
    BY <2>3, <2>4
<1>12. Searched' /\ Explained' /\ Shared'
  <2>1. \A a \in Agents : pc'[a] = "create" => pc[a] = "create" /\ task'[a] = task[a]
    BY <1>4
  <2> QED
    BY <1>9, <2>1, OthersKeepOneCampaign DEF Sound
<1> QED
  BY <1>1, <1>5, <1>6, <1>7, <1>8, <1>10, <1>11, <1>12 DEF Sound

\* What leaves agents and documents alone.
LEMMA QuietIsSound ==
  ASSUME Sound, Typed', Room', Created',
         UNCHANGED <<repo, index, snapshot, writer, pc, task, faults, crashes, ghosts>>,
         Existing' = Existing,
         \A c \in Existing : campaigns'[c].indexed = campaigns[c].indexed,
         Searched', Explained', Shared'
  PROVE  Sound'
<1>1. UNCHANGED <<fresh, returned, interrupted>>
  BY DEF ghosts
<1>2. Owned'
  BY <1>1, OthersKeepOwned DEF Sound
<1>3. \A a \in Agents : Progress(a)'
  BY OthersKeepProgress DEF Sound
<1>4. ReturnedIsRetrievable'
  BY <1>1 DEF Sound, ReturnedIsRetrievable
<1>5. Followed'
  BY <1>1, OthersKeepFollowed DEF Sound
<1>6. Indexed'
  BY OthersKeepIndexed DEF Sound
<1>7. Alone'
  BY OthersKeepAlone DEF Sound, Inside
<1> QED
  BY <1>2, <1>3, <1>4, <1>5, <1>6, <1>7 DEF Sound

LEMMA NextIsSound ==
  ASSUME Sound, [Next]_vars
  PROVE  Sound'
<1>0. Typed' /\ Room' /\ Created'
  BY NextIsTyped DEF Sound
<1>1. CASE UNCHANGED vars \/ DrainPending
  <2>1. /\ UNCHANGED <<repo, index, snapshot, writer, pc, task, faults, crashes, ghosts>>
        /\ UNCHANGED campaigns /\ Existing' = Existing
    BY <1>1 DEF vars, DrainPending, memory, bounds, Existing
  <2>2. Searched' /\ Explained' /\ Shared'
    BY <2>1, OthersKeepOneCampaign DEF Sound
  <2> QED
    BY <1>0, <2>1, <2>2, QuietIsSound
<1>2. ASSUME NEW c \in Campaigns, NEW s \in CampaignStates, Advance(c, s)
      PROVE  Sound'
  <2>1. /\ UNCHANGED <<repo, index, snapshot, writer, pc, task, faults, crashes, ghosts>>
        /\ Existing' = Existing
    BY <1>2, AdvanceSets DEF Sound
  <2>2. \A x \in Existing : campaigns'[x].indexed = campaigns[x].indexed
    BY <1>2, AdvanceStarts DEF Sound
  <2>3. Searched' /\ Explained' /\ Shared'
    BY <1>2, AdvanceKeepsOneCampaign DEF Sound
  <2> QED
    BY <1>0, <2>1, <2>2, <2>3, QuietIsSound
<1>3. CASE \E a \in Agents : Step(a) \/ Calls(a)
  BY <1>3, StepIsSound, CallsAreSound
<1> QED
  BY <1>1, <1>2, <1>3, StopIsSound, NextCases

LEMMA AlwaysSound == Spec => []Sound
<1>1. Sound /\ [Next]_vars => Sound'
  BY NextIsSound
<1> QED
  BY <1>1, InitIsSound, PTL DEF Spec

----
(* The theorems.                                                           *)

\* Items, tasks, flags and the queue are well formed in every deployment: there is
\* always an id for the next campaign, and the queue holds single items.
THEOREM TypeCorrectness == Spec => []TypeOK
<1>1. Sound => TypeOK
  BY DEF Sound, Typed
<1> QED
  BY <1>1, AlwaysSound, PTL

\* What a save returned as saved stays retrievable with the status it was saved
\* with, whatever other saves, the save tool, failures and crashes do later.
THEOREM SavesStayRetrievable == Spec => []ReturnedIsRetrievable
<1>1. Sound => ReturnedIsRetrievable
  BY DEF Sound
<1> QED
  BY <1>1, AlwaysSound, PTL

\* The index lags behind the repository only for items of saves that are running
\* or were cut short, and for campaigns whose creation is running or was disturbed.
THEOREM IndexLagsOnlyInSaves == Spec => []IndexFollowsRepository
<1>1. Sound => IndexFollowsRepository
  BY DEF Sound, Followed, Indexed, IndexFollowsRepository
<1> QED
  BY <1>1, AlwaysSound, PTL

\* In every deployment, of the campaigns that nobody has started and that have one
\* goal, at most one was made by a call that named it, and there is another only if
\* the goal is blank, or the one stored when a call names none.
THEOREM GoalsShareCampaigns == Spec => []OneCampaignPerGoal
<1>1. Sound => OneCampaignPerGoal
  BY SharedIsEnough DEF Sound
<1> QED
  BY <1>1, AlwaysSound, PTL

\* What a step takes out of the list or the queue is stored, or in the queue.
LEMMA StepKeepsInHand ==
  ASSUME Typed, Room, NEW a \in Agents, Step(a), NEW i \in Items, InHand(i)
  PROVE  InHand(i)' \/ repo'[i] # "absent"
<1>1. PICK phase, t : Moves(a, phase, t)
  BY StepMoves
<1>2. \A b \in Agents \ {a} : pc'[b] = pc[b] /\ task'[b] = task[b]
  BY <1>1, MovesKeepTypes
<1>3. InHand(i)' <=> \/ i \in pending'
                     \/ \E b \in Agents : /\ pc'[b] \in {"wait_save", "register"}
                                          /\ i \in In(task'[b].todo)
  BY DEF InHand, In
<1>4. pending \subseteq pending'
  BY DEF Step, Acquire, Release, Register, RegisterFails, Queue, Registered, IndexNew, Verify,
     Canonicalize, Index, AllCanonical, CreateSnapshot, SaveRaises, FindGiven, FindActive,
     FindByGoal, CreateCampaign, IndexCampaign, LoadSnapshot, Retrieve, RetrieveRaises,
     ToolRegister, ToolPromote, ToolIndex, ToolLoad, ToolRaises, Abort, service
<1>5. CASE i \in pending
  BY <1>3, <1>4, <1>5
<1>6. ASSUME NEW b \in Agents, b # a, pc[b] \in {"wait_save", "register"},
             i \in In(task[b].todo)
      PROVE  InHand(i)'
  BY <1>2, <1>3, <1>6
<1>7. ASSUME pc[a] \in {"wait_save", "register"}, i \in In(task[a].todo)
      PROVE  InHand(i)' \/ repo'[i] # "absent"
  <2>1. task[a].todo \in Seq(Items) /\ task[a].todo # << >>
    BY <1>7, ListsAreTyped, EmptyHoldsNothing
  <2>2. i = Head(task[a].todo) \/ i \in In(Tail(task[a].todo))
    BY <1>7, <2>1, HeadAndTail
  <2>3. CASE Acquire(a)
    <3>1. pc'[a] \in {"wait_save", "register"} /\ task' = task
      BY <1>7, <2>3 DEF Acquire, Goto, Typed, TypeOK
    <3> QED
      BY <1>3, <1>7, <3>1
  <2>4. CASE Register(a)
    <3>1. /\ repo' = [repo EXCEPT ![Head(task[a].todo)] = "NEW"] /\ pc'[a] = "register"
          /\ task'[a].todo = Tail(task[a].todo) /\ repo \in [Items -> Stages]
      BY <2>4, TaskSteps DEF Register, Typed, TypeOK
    <3> QED
      BY <1>3, <2>2, <3>1
  <2>5. CASE RegisterFails(a) \/ Queue(a)
    <3>1. /\ Head(task[a].todo) \in pending' /\ pc'[a] = "register"
          /\ task'[a].todo = Tail(task[a].todo)
      BY <2>5, TaskSteps DEF RegisterFails, Queue, TakeOne
    <3> QED
      BY <1>3, <2>2, <3>1
  <2>6. CASE ~(Acquire(a) \/ Register(a) \/ RegisterFails(a) \/ Queue(a))
    BY <1>7, <2>1, <2>6 DEF Step, Release, Registered, IndexNew, Verify, Canonicalize, Index,
       AllCanonical, CreateSnapshot, SaveRaises, FindGiven, FindActive, FindByGoal,
       CreateCampaign, IndexCampaign, LoadSnapshot, Retrieve, RetrieveRaises, ToolRegister,
       ToolPromote, ToolIndex, ToolLoad, ToolRaises, SavePhases, ToolPhases
  <2> QED
    BY <2>3, <2>4, <2>5, <2>6
<1> QED
  BY <1>5, <1>6, <1>7 DEF InHand

\* The service lets go of an item only by storing it, by draining the queue, or in
\* a restart: no failure half-way through a batch drops the rest of it.
THEOREM NothingIsDropped == Spec => ItemsStayInHand
<1> DEFINE Kept == \A i \in Items :
             InHand(i) /\ ~InHand(i)' =>
               \/ repo'[i] # "absent"
               \/ i \in pending /\ pending' = {}
               \/ crashes' # crashes
<1>1. ASSUME Sound, [Next]_vars
      PROVE  [Kept]_vars
  <2>1. SUFFICES ASSUME NEW i \in Items, InHand(i), ~InHand(i)'
                 PROVE  \/ repo'[i] # "absent"
                        \/ i \in pending /\ pending' = {}
                        \/ crashes' # crashes
    OBVIOUS
  <2>2. InHand(i)' <=> \/ i \in pending'
                       \/ \E b \in Agents : /\ pc'[b] \in {"wait_save", "register"}
                                            /\ i \in In(task'[b].todo)
    BY DEF InHand, In
  <2>3. ASSUME NEW a \in Agents, Step(a)
        PROVE  repo'[i] # "absent"
    BY <1>1, <2>1, <2>3, StepKeepsInHand DEF Sound
  <2>4. ASSUME NEW a \in Agents, Calls(a)
        PROVE  FALSE
    <3>1. PICK phase, t : Moves(a, phase, t)
      BY <1>1, <2>4, CallsMove DEF Sound
    <3>2. \A b \in Agents \ {a} : pc'[b] = pc[b] /\ task'[b] = task[b]
      BY <1>1, <3>1, MovesKeepTypes DEF Sound
    <3>3. pending' = pending /\ pc[a] = "idle"
      BY <2>4 DEF Calls, SaveAfterTask, ToolSave, RetrieveBeforeTask, Call
    <3> QED
      BY <2>1, <2>2, <3>2, <3>3 DEF InHand
  <2>5. CASE DrainPending
    <3>1. pending' = {} /\ UNCHANGED <<pc, task>>
      BY <2>5 DEF DrainPending
    <3> QED
      BY <2>1, <2>2, <3>1 DEF InHand
  <2>6. CASE UNCHANGED vars \/ \E c \in Campaigns, s \in CampaignStates : Advance(c, s)
    <3>1. UNCHANGED <<pending, pc, task>>
      BY <2>6 DEF vars, service, Advance
    <3> QED
      BY <2>1, <2>2, <3>1 DEF InHand
  <2>7. CASE Crash \/ ServerCrash
    <3>1. \E S : Stop(S)
      BY <2>7 DEF Crash, ServerCrash
    <3>2. crashes' > crashes /\ crashes \in Nat
      BY <1>1, <3>1, StopTakesAll DEF Sound, Typed, TypeOK
    <3> QED
      BY <3>2
  <2> QED
    BY <1>1, <2>3, <2>4, <2>5, <2>6, <2>7, NextCases
<1> QED
  BY <1>1, AlwaysSound, PTL DEF Spec, ItemsStayInHand
===============================================================================
