-------------------------- MODULE SnapshotStoreProofs --------------------------
(***************************************************************************)
(* When every creator takes the lock, versions, order and history agree    *)
(* and the store implements the log of versions, for any creators, any     *)
(* contents of the index and any number of versions and losses.            *)
(***************************************************************************)
EXTENDS SnapshotStore, SequenceTheorems, TLAPS

\* docs/design/hkos-overview.md: one process, whose AgentLock serializes the
\* writers.
AllLocked == LockedAgents = Agents

----
(* Types, in every deployment.                                             *)

Lists == Seq(Numbers)

\* What a call holds at each place of its code.
Equipped(phase, j) ==
  /\ phase \notin {"idle", "waiting", "number", "release"} => j.doc # None
  /\ phase = "replace_version" => j.number \in Numbers
  /\ phase \in {"replace_version", "order", "replace_order"} => j.versions \in Lists

\* TypeOK but for the bound on unlogged, which needs the lock.
Typed ==
  /\ content \in Contents
  /\ files \in [Numbers -> Document \cup {None}]
  /\ order \in Lists
  /\ history \in Seq(Entry)
  /\ DOMAIN temps = TempNames /\ temps = [t \in TempNames |-> temps[t]]
  /\ \A n \in Numbers : temps[n] \in [data : Document] \cup {None}
  /\ temps[OrderTemp] \in [data : Lists] \cup {None}
  /\ temps[HistoryTemp] \in [data : Seq(Entry)] \cup {None}
  /\ writer \in BOOLEAN
  /\ pc \in [Agents -> Phases]
  /\ job \in [Agents -> Job]
  /\ returned \subseteq Document
  /\ unlogged \subseteq Nat
  /\ losses \in 0 .. MaxLosses
  /\ \A a \in Agents : Equipped(pc[a], job[a])

\* A call goes on to a place, holding j.
Moves(a, phase, j) ==
  /\ phase \in Phases /\ j \in Job /\ Equipped(phase, j)
  /\ pc' = [pc EXCEPT ![a] = phase]
  /\ job' = [job EXCEPT ![a] = j]

LEMMA MovesKeepTypes ==
  ASSUME Typed, NEW a \in Agents, NEW phase, NEW j, Moves(a, phase, j)
  PROVE  /\ pc' \in [Agents -> Phases]
         /\ job' \in [Agents -> Job]
         /\ \A b \in Agents : Equipped(pc[b], job[b])'
         /\ pc'[a] = phase /\ job'[a] = j
         /\ \A b \in Agents \ {a} : pc'[b] = pc[b] /\ job'[b] = job[b]
<1>1. pc'[a] = phase /\ job'[a] = j
  BY DEF Moves, Typed
<1>2. \A b \in Agents \ {a} : pc'[b] = pc[b] /\ job'[b] = job[b]
  BY DEF Moves, Typed
<1>3. pc' \in [Agents -> Phases] /\ job' \in [Agents -> Job]
  BY DEF Moves, Typed
<1>4. \A b \in Agents : Equipped(pc'[b], job'[b])
  BY <1>1, <1>2 DEF Moves, Typed
<1> QED
  BY <1>1, <1>2, <1>3, <1>4 DEF Equipped

\* Documents and files are never mistaken for what is not there.
LEMMA SomethingIsThere ==
  /\ \A d \in Document : d # None
  /\ \A x : [data |-> x] # None /\ [data |-> x].data = x
BY DEF Document, None

LEMMA NoJobIsAJob == NoJob \in Job /\ Equipped("idle", NoJob)
BY DEF NoJob, Job, Equipped, Document, Entry

LEMMA LatestIsTyped ==
  ASSUME Typed
  PROVE  Latest \in Document \cup {None}
<1>1. CASE order = << >>
  BY <1>1 DEF Latest
<1>2. CASE order # << >>
  <2>1. Len(order) \in 1 .. Len(order)
    BY <1>2, EmptySeq, LenProperties DEF Typed, Lists
  <2>2. order[Len(order)] \in Numbers
    BY <2>1, ElementOfSeq DEF Typed, Lists
  <2> QED
    BY <1>2, <2>2 DEF Latest, Typed
<1> QED
  BY <1>1, <1>2

\* The temporary files have names of their own.
LEMMA TempsAreApart ==
  /\ OrderTemp \in TempNames /\ HistoryTemp \in TempNames
  /\ OrderTemp \notin Numbers /\ HistoryTemp \notin Numbers /\ OrderTemp # HistoryTemp
  /\ Numbers \subseteq TempNames
BY BoundsAssumption DEF OrderTemp, HistoryTemp, TempNames, Numbers

LEMMA FillIsTyped ==
  ASSUME Typed, NEW t \in TempNames, NEW x, Fill(t, x),
         t \in Numbers => x \in Document,
         t = OrderTemp => x \in Lists,
         t = HistoryTemp => x \in Seq(Entry)
  PROVE  /\ temps'[t] = [data |-> x]
         /\ \A u \in TempNames \ {t} : temps'[u] = temps[u]
         /\ DOMAIN temps' = TempNames /\ temps' = [u \in TempNames |-> temps'[u]]
         /\ \A n \in Numbers : temps'[n] \in [data : Document] \cup {None}
         /\ temps'[OrderTemp] \in [data : Lists] \cup {None}
         /\ temps'[HistoryTemp] \in [data : Seq(Entry)] \cup {None}
<1>1. temps' = [u \in TempNames |-> IF u = t THEN [data |-> x] ELSE temps[u]]
  BY DEF Fill, Typed
<1> QED
  BY <1>1, TempsAreApart DEF Typed

LEMMA RenameIsTyped ==
  ASSUME Typed, NEW t \in TempNames, Rename(t)
  PROVE  /\ \A u \in TempNames \ {t} : temps'[u] = temps[u]
         /\ DOMAIN temps' = TempNames /\ temps' = [u \in TempNames |-> temps'[u]]
         /\ \A n \in Numbers : temps'[n] \in [data : Document] \cup {None}
         /\ temps'[OrderTemp] \in [data : Lists] \cup {None}
         /\ temps'[HistoryTemp] \in [data : Seq(Entry)] \cup {None}
<1>1. temps' = [u \in TempNames |-> IF u = t THEN None ELSE temps[u]]
  BY DEF Rename, Typed
<1> QED
  BY <1>1, TempsAreApart DEF Typed

----
(* A step of a call.                                                       *)

Step(a) ==
  \/ \E force \in BOOLEAN : Call(a, force)
  \/ Acquire(a) \/ NextId(a) \/ Build(a) \/ Compare(a)
  \/ WriteVersion(a) \/ ReplaceVersion(a)
  \/ WriteOrder(a) \/ ReplaceOrder(a)
  \/ ReadHistory(a) \/ WriteHistory(a) \/ ReplaceHistory(a)
  \/ Return(a) \/ Release(a) \/ Fail(a)

\* A step that leaves what the call holds.
LEMMA StaysEquipped ==
  ASSUME Typed, NEW a \in Agents, NEW phase \in Phases,
         Goto(a, phase), UNCHANGED job, Equipped(phase, job[a])
  PROVE  Moves(a, phase, job[a])
BY DEF Typed, Goto, Moves

LEMMA NextIdMoves ==
  ASSUME Typed, NEW a \in Agents, NextId(a)
  PROVE  LET last == IF Latest = None THEN 0 ELSE Latest.id
             d == [id |-> last + 1, parent |-> last, author |-> a, body |-> content]
         IN  d \in Document /\ Moves(a, "build", [job[a] EXCEPT !.doc = d])
<1> DEFINE last == IF Latest = None THEN 0 ELSE Latest.id
           d == [id |-> last + 1, parent |-> last, author |-> a, body |-> content]
<1>1. last \in Nat
  BY LatestIsTyped DEF Document
<1>2. d \in Document
  BY <1>1 DEF Document, Typed
<1>3. [job[a] EXCEPT !.doc = d] \in Job /\ [job[a] EXCEPT !.doc = d].doc = d
  BY <1>2 DEF Job, Typed
<1>4. Equipped("build", [job[a] EXCEPT !.doc = d])
  BY <1>2, <1>3, SomethingIsThere DEF Equipped
<1> QED
  BY <1>2, <1>3, <1>4 DEF NextId, Goto, Moves, Phases

LEMMA BuildMoves ==
  ASSUME Typed, NEW a \in Agents, Build(a)
  PROVE  LET d == [job[a].doc EXCEPT !.body = content]
         IN  /\ d \in Document
             /\ Moves(a, IF job[a].force THEN "save" ELSE "compare",
                      [job[a] EXCEPT !.doc = d])
<1> DEFINE d == [job[a].doc EXCEPT !.body = content]
<1>1. job[a].doc \in Document
  BY DEF Build, Typed, Equipped, Job
<1>2. d \in Document
  BY <1>1 DEF Document, Typed
<1>3. [job[a] EXCEPT !.doc = d] \in Job /\ [job[a] EXCEPT !.doc = d].doc = d
  BY <1>2 DEF Job, Typed
<1>4. \A phase \in {"save", "compare"} : Equipped(phase, [job[a] EXCEPT !.doc = d])
  BY <1>2, <1>3, SomethingIsThere DEF Equipped
<1>5. job' = [job EXCEPT ![a] = [job[a] EXCEPT !.doc = d]]
  BY DEF Build, Typed, Job
<1> QED
  BY <1>2, <1>3, <1>4, <1>5 DEF Build, Goto, Moves, Phases

LEMMA WriteVersionMoves ==
  ASSUME Typed, NEW a \in Agents, WriteVersion(a)
  PROVE  LET n == Len(order) + 1
         IN  /\ n \in Numbers /\ Append(order, n) \in Lists
             /\ Moves(a, "replace_version",
                      [job[a] EXCEPT !.number = n, !.versions = Append(order, n)])
<1> DEFINE n == Len(order) + 1
           j == [job[a] EXCEPT !.number = n, !.versions = Append(order, n)]
<1>1. n \in Numbers
  BY BoundsAssumption, LenProperties DEF WriteVersion, Typed, Lists, Numbers
<1>2. Append(order, n) \in Lists
  BY <1>1, AppendProperties DEF Typed, Lists
<1>3. Append(order, n) \in Seq(Nat)
  <2>1. Numbers \subseteq Nat
    BY DEF Numbers
  <2>2. \A v \in Seq(Numbers) : v \in Seq(Nat)
    BY <2>1, SeqMonotonic
  <2> QED
    BY <1>2, <2>2 DEF Lists
<1>4. j \in Job /\ j.number = n /\ j.versions = Append(order, n) /\ j.doc = job[a].doc
  <2>1. job[a] \in Job /\ n \in Nat
    BY <1>1 DEF Typed, Numbers
  <2> HIDE DEF n
  <2> QED
    BY <1>3, <2>1 DEF Job
<1>5. Equipped("replace_version", j)
  BY <1>1, <1>2, <1>4 DEF Equipped, WriteVersion, Typed
<1>6. job' = [job EXCEPT ![a] = j]
  BY DEF WriteVersion, Typed, Job
<1> QED
  BY <1>1, <1>2, <1>4, <1>5, <1>6 DEF WriteVersion, Goto, Moves, Phases

LEMMA ReadHistoryMoves ==
  ASSUME Typed, NEW a \in Agents, ReadHistory(a)
  PROVE  LET e == [id |-> job[a].doc.id, parent |-> job[a].doc.parent]
         IN  /\ e \in Entry /\ Append(history, e) \in Seq(Entry)
             /\ Moves(a, "history", [job[a] EXCEPT !.entries = Append(history, e)])
<1> DEFINE e == [id |-> job[a].doc.id, parent |-> job[a].doc.parent]
           j == [job[a] EXCEPT !.entries = Append(history, e)]
<1>1. job[a].doc \in Document
  BY DEF ReadHistory, Typed, Equipped, Job
<1>2. e \in Entry
  BY <1>1 DEF Document, Entry
<1>3. Append(history, e) \in Seq(Entry)
  BY <1>2, AppendProperties DEF Typed
<1>4. j \in Job /\ j.doc = job[a].doc /\ j.entries = Append(history, e)
  BY <1>3 DEF Job, Typed
<1>5. Equipped("history", j)
  BY <1>1, <1>4, SomethingIsThere DEF Equipped
<1> QED
  BY <1>2, <1>3, <1>4, <1>5 DEF ReadHistory, Goto, Moves, Phases

LEMMA CallMoves ==
  ASSUME Typed, NEW a \in Agents, NEW force \in BOOLEAN, Call(a, force)
  PROVE  Moves(a, "waiting", [NoJob EXCEPT !.force = force])
<1>1. [NoJob EXCEPT !.force = force] \in Job
  BY NoJobIsAJob DEF Job
<1> QED
  BY <1>1 DEF Call, Goto, Moves, Phases, Equipped

LEMMA ReleaseMoves ==
  ASSUME Typed, NEW a \in Agents, Release(a)
  PROVE  Moves(a, "idle", NoJob)
BY NoJobIsAJob DEF Release, Goto, Moves, Phases

LEMMA OthersMove ==
  ASSUME Typed, NEW a \in Agents,
         \/ Acquire(a) \/ Compare(a) \/ ReplaceVersion(a) \/ WriteOrder(a)
         \/ ReplaceOrder(a) \/ WriteHistory(a) \/ ReplaceHistory(a)
         \/ Return(a) \/ Fail(a)
  PROVE  \E phase \in Phases : Moves(a, phase, job[a])
<1>0. Equipped(pc[a], job[a])
  BY DEF Typed
<1>1. ASSUME NEW phase \in Phases, Goto(a, phase), UNCHANGED job, Equipped(phase, job[a])
      PROVE  \E p \in Phases : Moves(a, p, job[a])
  BY <1>1, StaysEquipped
<1>2. CASE Acquire(a)
  <2>1. "number" \in Phases /\ Equipped("number", job[a])
    BY DEF Phases, Equipped
  <2> QED
    BY <1>1, <1>2, <2>1 DEF Acquire
<1>3. CASE Compare(a)
  <2>1. \A p \in {"release", "save"} : p \in Phases /\ Equipped(p, job[a])
    BY <1>0, <1>3 DEF Phases, Equipped, Compare
  <2> QED
    BY <1>1, <1>3, <2>1 DEF Compare
<1>4. CASE ReplaceVersion(a)
  <2>1. "order" \in Phases /\ Equipped("order", job[a])
    BY <1>0, <1>4 DEF Phases, Equipped, ReplaceVersion
  <2> QED
    BY <1>1, <1>4, <2>1 DEF ReplaceVersion
<1>5. CASE WriteOrder(a)
  <2>1. "replace_order" \in Phases /\ Equipped("replace_order", job[a])
    BY <1>0, <1>5 DEF Phases, Equipped, WriteOrder
  <2> QED
    BY <1>1, <1>5, <2>1 DEF WriteOrder
<1>6. CASE ReplaceOrder(a)
  <2>1. "log" \in Phases /\ Equipped("log", job[a])
    BY <1>0, <1>6 DEF Phases, Equipped, ReplaceOrder
  <2> QED
    BY <1>1, <1>6, <2>1 DEF ReplaceOrder
<1>7. CASE WriteHistory(a)
  <2>1. "replace_history" \in Phases /\ Equipped("replace_history", job[a])
    BY <1>0, <1>7 DEF Phases, Equipped, WriteHistory
  <2> QED
    BY <1>1, <1>7, <2>1 DEF WriteHistory
<1>8. CASE ReplaceHistory(a)
  <2>1. "return" \in Phases /\ Equipped("return", job[a])
    BY <1>0, <1>8 DEF Phases, Equipped, ReplaceHistory
  <2> QED
    BY <1>1, <1>8, <2>1 DEF ReplaceHistory
<1>9. CASE Return(a) \/ Fail(a)
  <2>1. "release" \in Phases /\ Equipped("release", job[a])
    BY DEF Phases, Equipped
  <2> QED
    BY <1>1, <1>9, <2>1 DEF Return, Fail
<1> QED
  BY <1>2, <1>3, <1>4, <1>5, <1>6, <1>7, <1>8, <1>9

LEMMA StepMoves ==
  ASSUME Typed, NEW a \in Agents, Step(a)
  PROVE  \E phase, j : Moves(a, phase, j)
BY CallMoves, NextIdMoves, BuildMoves, WriteVersionMoves, ReadHistoryMoves,
   ReleaseMoves, OthersMove DEF Step

----
(* Types are kept.                                                         *)

DiskIsTyped ==
  /\ files \in [Numbers -> Document \cup {None}]
  /\ order \in Lists
  /\ history \in Seq(Entry)
  /\ DOMAIN temps = TempNames /\ temps = [t \in TempNames |-> temps[t]]
  /\ \A n \in Numbers : temps[n] \in [data : Document] \cup {None}
  /\ temps[OrderTemp] \in [data : Lists] \cup {None}
  /\ temps[HistoryTemp] \in [data : Seq(Entry)] \cup {None}

LEMMA StepKeepsDiskTyped ==
  ASSUME Typed, NEW a \in Agents, Step(a)
  PROVE  DiskIsTyped'
<1>0. Equipped(pc[a], job[a]) /\ job[a] \in Job
  BY DEF Typed
<1>1. CASE UNCHANGED disk
  BY <1>1 DEF disk, DiskIsTyped, Typed
<1>2. CASE WriteVersion(a)
  <2> DEFINE n == Len(order) + 1
  <2>1. n \in Numbers /\ n \in TempNames /\ n # OrderTemp /\ n # HistoryTemp
    BY <1>2, WriteVersionMoves, TempsAreApart
  <2>2. job[a].doc \in Document
    BY <1>0, <1>2 DEF WriteVersion, Equipped, Job
  <2>3. Fill(n, job[a].doc)
    BY <1>2 DEF WriteVersion
  <2> QED
    BY <1>2, <2>1, <2>2, <2>3, FillIsTyped DEF WriteVersion, DiskIsTyped, Typed
<1>3. CASE WriteOrder(a)
  <2>1. job[a].versions \in Lists
    BY <1>0, <1>3 DEF WriteOrder, Equipped
  <2>2. Fill(OrderTemp, job[a].versions)
    BY <1>3 DEF WriteOrder
  <2> QED
    BY <1>3, <2>1, <2>2, FillIsTyped, TempsAreApart DEF WriteOrder, DiskIsTyped, Typed
<1>4. CASE WriteHistory(a)
  <2>1. job[a].entries \in Seq(Entry)
    BY <1>0 DEF Job
  <2>2. Fill(HistoryTemp, job[a].entries)
    BY <1>4 DEF WriteHistory
  <2> QED
    BY <1>4, <2>1, <2>2, FillIsTyped, TempsAreApart DEF WriteHistory, DiskIsTyped, Typed
<1>5. CASE ReplaceVersion(a)
  <2>1. job[a].number \in Numbers /\ job[a].number \in TempNames
    BY <1>0, <1>5, TempsAreApart DEF ReplaceVersion, Equipped
  <2>2. Rename(job[a].number)
    BY <1>5 DEF ReplaceVersion
  <2>3. temps[job[a].number].data \in Document
    BY <2>1, <2>2 DEF Rename, Typed
  <2>4. files' \in [Numbers -> Document \cup {None}]
    BY <1>5, <2>1, <2>3 DEF ReplaceVersion, Typed
  <2> QED
    BY <1>5, <2>1, <2>2, <2>4, RenameIsTyped DEF ReplaceVersion, DiskIsTyped, Typed
<1>6. CASE ReplaceOrder(a)
  <2>1. Rename(OrderTemp)
    BY <1>6 DEF ReplaceOrder
  <2>2. order' \in Lists
    BY <1>6, <2>1 DEF ReplaceOrder, Rename, Typed
  <2> QED
    BY <1>6, <2>1, <2>2, RenameIsTyped, TempsAreApart DEF ReplaceOrder, DiskIsTyped, Typed
<1>7. CASE ReplaceHistory(a)
  <2>1. Rename(HistoryTemp)
    BY <1>7 DEF ReplaceHistory
  <2>2. history' \in Seq(Entry)
    BY <1>7, <2>1 DEF ReplaceHistory, Rename, Typed
  <2> QED
    BY <1>7, <2>1, <2>2, RenameIsTyped, TempsAreApart DEF ReplaceHistory, DiskIsTyped, Typed
<1> QED
  BY <1>1, <1>2, <1>3, <1>4, <1>5, <1>6, <1>7
     DEF Step, Call, Acquire, NextId, Build, Compare, ReadHistory, Return, Release, Fail

LEMMA StepKeepsRestTyped ==
  ASSUME Typed, NEW a \in Agents, Step(a)
  PROVE  /\ content' \in Contents /\ writer' \in BOOLEAN
         /\ returned' \subseteq Document /\ unlogged' \subseteq Nat
         /\ losses' \in 0 .. MaxLosses
<1>1. Equipped(pc[a], job[a]) /\ job[a] \in Job
  BY DEF Typed
<1>2. content' \in Contents /\ writer' \in BOOLEAN
  BY DEF Typed, Step, Call, Acquire, NextId, Build, Compare, WriteVersion, ReplaceVersion,
         WriteOrder, ReplaceOrder, ReadHistory, WriteHistory, ReplaceHistory, Return,
         Release, Fail
<1>3. returned' \subseteq Document
  <2>1. CASE Return(a)
    <3>1. job[a].doc \in Document
      BY <1>1, <2>1 DEF Return, Equipped, Job
    <3> QED
      BY <2>1, <3>1 DEF Return, Typed
  <2> QED
    BY <2>1 DEF Typed, Step, Call, Acquire, NextId, Build, Compare, WriteVersion,
                ReplaceVersion, WriteOrder, ReplaceOrder, ReadHistory, WriteHistory,
                ReplaceHistory, Release, Fail, ghosts
<1>4. unlogged' \subseteq Nat /\ losses' \in 0 .. MaxLosses
  <2>1. CASE Fail(a)
    <3>1. Recorded(a) => job[a].doc.id \in Nat
      BY <1>1 DEF Recorded, Equipped, Job, Document
    <3> QED
      BY <2>1, <3>1, BoundsAssumption DEF Fail, Typed
  <2> QED
    BY <2>1 DEF Typed, Step, Call, Acquire, NextId, Build, Compare, WriteVersion,
                ReplaceVersion, WriteOrder, ReplaceOrder, ReadHistory, WriteHistory,
                ReplaceHistory, Release, Return, ghosts
<1> QED
  BY <1>2, <1>3, <1>4

LEMMA CrashIsTyped ==
  ASSUME Typed, NEW p \in Processes, Crash(p)
  PROVE  Typed'
<1>1. pc' \in [Agents -> Phases] /\ job' \in [Agents -> Job]
  BY NoJobIsAJob DEF Crash, Typed, Phases
<1>2. \A a \in Agents : Equipped(pc[a], job[a])'
  BY NoJobIsAJob DEF Crash, Typed, Equipped
<1>3. unlogged' \subseteq Nat
  <2>1. \A a \in Agents : Recorded(a) => job[a].doc.id \in Nat
    BY DEF Recorded, Typed, Equipped, Job, Document
  <2>2. p \subseteq Agents
    BY LockedAgentsAssumption DEF Processes
  <2> QED
    BY <2>1, <2>2 DEF Crash, Typed
<1>4. losses' \in 0 .. MaxLosses /\ writer' \in BOOLEAN
  BY BoundsAssumption DEF Crash, Typed
<1> QED
  BY <1>1, <1>2, <1>3, <1>4 DEF Crash, Typed, disk

LEMMA NextIsTyped ==
  ASSUME Typed, [Next]_vars
  PROVE  Typed'
<1>1. ASSUME NEW a \in Agents, Step(a)
      PROVE  Typed'
  <2>1. PICK phase, j : Moves(a, phase, j)
    BY <1>1, StepMoves
  <2>2. /\ pc' \in [Agents -> Phases] /\ job' \in [Agents -> Job]
        /\ \A b \in Agents : Equipped(pc[b], job[b])'
    BY <2>1, MovesKeepTypes
  <2> QED
    BY <1>1, <2>2, StepKeepsDiskTyped, StepKeepsRestTyped DEF Typed, DiskIsTyped
<1>2. CASE Change
  BY <1>2 DEF Change, Typed, Equipped, disk, ghosts
<1>3. CASE UNCHANGED vars
  BY <1>3 DEF vars, Typed, Equipped, disk, ghosts
<1> QED
  BY <1>1, <1>2, <1>3, CrashIsTyped DEF Next, Step

LEMMA InitIsTyped == Init => Typed
<1> SUFFICES ASSUME Init PROVE Typed
  OBVIOUS
<1>1. pc \in [Agents -> Phases] /\ job \in [Agents -> Job]
  BY NoJobIsAJob DEF Init, Phases
<1>2. \A a \in Agents : Equipped(pc[a], job[a])
  BY NoJobIsAJob DEF Init
<1>3. order \in Lists /\ history \in Seq(Entry)
  BY EmptySeq DEF Init, Lists
<1>4. \A t \in TempNames : temps[t] = None
  BY DEF Init
<1>5. DOMAIN temps = TempNames /\ temps = [t \in TempNames |-> temps[t]]
  BY DEF Init
<1>6. files \in [Numbers -> Document \cup {None}] /\ losses \in 0 .. MaxLosses
  BY BoundsAssumption DEF Init
<1> QED
  BY <1>1, <1>2, <1>3, <1>4, <1>5, <1>6, TempsAreApart DEF Init, Typed

----
(* The lock.                                                               *)

Active(a) == pc[a] \notin {"idle", "waiting"}

Alone ==
  /\ \A a \in Agents : Active(a) => writer
  /\ \A a, b \in Agents : Active(a) /\ Active(b) => a = b

LEMMA StepStaysAlone ==
  ASSUME Typed, AllLocked, Alone, NEW a \in Agents, Step(a)
  PROVE  /\ Alone'
         /\ \A b \in Agents \ {a} : pc'[b] = pc[b] /\ job'[b] = job[b]
<1>1. PICK phase, j : Moves(a, phase, j)
  BY StepMoves
<1>2. /\ \A b \in Agents \ {a} : pc'[b] = pc[b] /\ job'[b] = job[b]
      /\ pc'[a] = phase /\ job'[a] = j
  BY <1>1, MovesKeepTypes
<1>3. CASE Acquire(a)
  BY <1>2, <1>3 DEF Acquire, Goto, Alone, Active, AllLocked, Typed
<1>4. CASE Release(a)
  BY <1>2, <1>4 DEF Release, Goto, Alone, Active, AllLocked, Typed
<1>5. CASE ~Acquire(a) /\ ~Release(a)
  <2>1. writer' = writer /\ (Active(a)' => Active(a))
    BY <1>2, <1>5 DEF Step, Active, Goto, Typed, Call, NextId, Build, Compare, WriteVersion,
       ReplaceVersion, WriteOrder, ReplaceOrder, ReadHistory, WriteHistory, ReplaceHistory,
       Return, Fail
  <2> QED
    BY <1>2, <2>1 DEF Alone, Active
<1> QED
  BY <1>2, <1>3, <1>4, <1>5

LEMMA CrashTakesAll ==
  ASSUME AllLocked, NEW p \in Processes, Crash(p)
  PROVE  /\ \A a \in Agents : pc'[a] = "idle"
         /\ unlogged' = unlogged \cup {job[a].doc.id : a \in {b \in Agents : Recorded(b)}}
BY DEF AllLocked, Processes, Crash

----
(* The disk and the calls agree.                                           *)

\* What the history tells is recorded, in its order.
HistoryIsTrue ==
  \A i \in 1 .. Len(history) :
    /\ history[i].id \in 1 .. Len(order)
    /\ history[i].parent = files[history[i].id].parent
    /\ \A j \in 1 .. (i - 1) : history[j].id < history[i].id

\* What it leaves out was cut short, or is about to be told.
Accounted(n) ==
  \/ \E i \in 1 .. Len(history) : history[i].id = n
  \/ n \in unlogged
  \/ \E a \in Agents : Recorded(a) /\ job[a].doc.id = n

\* What a call holds is the next version, or, from the log on, the last one.
Fits(a) ==
  LET d == job[a].doc
      n == Len(order)
  IN  /\ pc[a] \in {"number", "build", "compare", "save", "replace_version", "order",
                    "replace_order"} => n < MaxVersions
      /\ pc[a] \in {"build", "compare", "save", "replace_version", "order",
                    "replace_order"} => d.id = n + 1 /\ d.parent = n
      /\ pc[a] \in {"save", "replace_version", "order", "replace_order"} /\ ~job[a].force
           => n = 0 \/ ~Same(files[n], d)
      /\ pc[a] \in {"replace_version", "order", "replace_order"}
           => job[a].number = n + 1 /\ job[a].versions = Append(order, n + 1)
      /\ pc[a] = "replace_version" => temps[n + 1] = [data |-> d]
      /\ pc[a] \in {"order", "replace_order"} => files[n + 1] = d
      /\ pc[a] = "replace_order" => temps[OrderTemp] = [data |-> job[a].versions]
      /\ pc[a] \in {"log", "history", "replace_history", "return"} => n > 0 /\ files[n] = d
      /\ Recorded(a) => \A i \in 1 .. Len(history) : history[i].id < n
      /\ pc[a] \in {"history", "replace_history"}
           => job[a].entries = Append(history, [id |-> n, parent |-> n - 1])
      /\ pc[a] = "replace_history" => temps[HistoryTemp] = [data |-> job[a].entries]

Consistent ==
  /\ VersionChain /\ HistoryIsTrue
  /\ \A n \in 1 .. Len(order) : Accounted(n)
  /\ unlogged \subseteq 1 .. Len(order)
  /\ ReturnedIsKept
  /\ \A a \in Agents : Fits(a)

LEMMA LatestIsLast ==
  ASSUME Typed, VersionChain
  PROVE  /\ Len(order) \in 0 .. MaxVersions
         /\ Latest = IF Len(order) = 0 THEN None ELSE files[Len(order)]
         /\ Len(order) > 0 => Latest # None /\ Latest.id = Len(order)
<1>1. Len(order) \in Nat /\ (order = << >> <=> Len(order) = 0)
  BY EmptySeq, LenProperties DEF Typed, Lists
<1>2. Len(order) > 0 => order[Len(order)] = Len(order) /\ Len(order) \in Numbers
  <2>1. SUFFICES ASSUME Len(order) > 0
                 PROVE  order[Len(order)] = Len(order) /\ Len(order) \in Numbers
    OBVIOUS
  <2>2. Len(order) \in 1 .. Len(order)
    BY <1>1, <2>1
  <2>3. order[Len(order)] \in Numbers
    BY <2>2, ElementOfSeq DEF Typed, Lists
  <2> QED
    BY <2>2, <2>3 DEF VersionChain
<1> QED
  BY <1>1, <1>2, BoundsAssumption DEF Latest, VersionChain, Numbers

\* Steps that leave what is recorded, and the history, as they are.
Recordless ==
  /\ order' = order /\ history' = history
  /\ \A i \in 1 .. Len(order) : files'[i] = files[i]

LEMMA RecordsStay ==
  ASSUME Recordless, VersionChain, HistoryIsTrue, ReturnedIsKept
  PROVE  /\ VersionChain' /\ HistoryIsTrue'
         /\ returned' = returned => ReturnedIsKept'
<1>1. VersionChain'
  BY DEF Recordless, VersionChain
<1>2. HistoryIsTrue'
  BY DEF Recordless, HistoryIsTrue
<1>3. returned' = returned => ReturnedIsKept'
  BY DEF Recordless, ReturnedIsKept
<1> QED
  BY <1>1, <1>2, <1>3

\* A step of the one that is inside leaves the others outside.
LEMMA OthersFit ==
  ASSUME Alone, NEW a \in Agents, Active(a), Fits(a)',
         \A b \in Agents \ {a} : pc'[b] = pc[b]
  PROVE  \A b \in Agents : Fits(b)'
<1>1. ASSUME NEW b \in Agents \ {a}
      PROVE  Fits(b)'
  <2>1. pc'[b] \in {"idle", "waiting", "release"}
    BY DEF Alone, Active
  <2> QED
    BY <2>1 DEF Fits, Recorded
<1> QED
  BY <1>1

\* Whoever is about to tell the history goes on to do so, or is known to have
\* been cut short.
Owes(a) ==
  Recorded(a) => \/ Recorded(a)' /\ job'[a].doc = job[a].doc
                 \/ job[a].doc.id \in unlogged'

LEMMA AccountsStay ==
  ASSUME history' = history, unlogged \subseteq unlogged', \A a \in Agents : Owes(a),
         NEW n, Accounted(n)
  PROVE  Accounted(n)'
BY DEF Accounted, Owes

\* What is left to show of most steps.
LEMMA MostSteps ==
  ASSUME Alone, Consistent, NEW a \in Agents, Active(a), Recordless,
         unlogged \subseteq unlogged', unlogged' \subseteq 1 .. Len(order), Owes(a),
         \A b \in Agents \ {a} : pc'[b] = pc[b] /\ job'[b] = job[b],
         ReturnedIsKept', Fits(a)'
  PROVE  Consistent'
<1>1. \A b \in Agents : Owes(b)
  BY DEF Owes, Recorded
<1>2. \A n \in 1 .. Len(order) : Accounted(n)'
  BY <1>1, AccountsStay DEF Recordless, Consistent
<1>3. \A b \in Agents : Fits(b)'
  BY OthersFit
<1>4. VersionChain' /\ HistoryIsTrue'
  BY RecordsStay DEF Consistent
<1>5. order' = order
  BY DEF Recordless
<1> QED
  BY <1>2, <1>3, <1>4, <1>5 DEF Consistent

\* The steps that read, compare and end.
LEMMA ReadingIsConsistent ==
  ASSUME Typed, AllLocked, Alone, Consistent, NEW a \in Agents,
         \/ \E force \in BOOLEAN : Call(a, force)
         \/ Acquire(a) \/ NextId(a) \/ Build(a) \/ Compare(a) \/ ReadHistory(a) \/ Release(a)
  PROVE  Consistent'
<1>0. UNCHANGED <<disk, ghosts>>
  BY DEF Call, Acquire, NextId, Build, Compare, ReadHistory, Release, disk
<1>1. PICK phase, j : Moves(a, phase, j)
  BY StepMoves DEF Step
<1>2. /\ \A b \in Agents \ {a} : pc'[b] = pc[b] /\ job'[b] = job[b]
      /\ pc'[a] = phase /\ job'[a] = j
  BY <1>1, MovesKeepTypes
<1>3. Recordless /\ ReturnedIsKept'
  BY <1>0, RecordsStay DEF disk, ghosts, Recordless, Consistent
<1>4. /\ Fits(a) /\ Equipped(pc[a], job[a]) /\ job[a] \in Job
      /\ VersionChain /\ Len(order) \in 0 .. MaxVersions
  BY LatestIsLast DEF Consistent, Typed
<1>5. ASSUME Active(a), Owes(a), Fits(a)'
      PROVE  Consistent'
  BY <1>0, <1>2, <1>3, <1>5, MostSteps DEF ghosts, Consistent
<1>6. ASSUME NEW force \in BOOLEAN, Call(a, force)
      PROVE  Consistent'
  <2>1. Fits(a)' /\ Owes(a)
    BY <1>0, <1>6 DEF Call, Goto, Typed, Fits, Owes, Recorded
  <2>2. \A b \in Agents \ {a} : Fits(b)' /\ Owes(b)
    BY <1>0, <1>2 DEF Consistent, Fits, Owes, Recorded, disk
  <2>3. \A n \in 1 .. Len(order) : Accounted(n)'
    BY <1>0, <2>1, <2>2, AccountsStay DEF Consistent, disk, ghosts
  <2> QED
    BY <1>0, <1>3, <2>1, <2>2, <2>3, RecordsStay DEF Consistent, disk, ghosts
<1>7. CASE Acquire(a)
  <2>1. pc'[a] = "number" /\ Len(order) < MaxVersions /\ pc[a] = "waiting"
    BY <1>7 DEF Acquire, Goto, Typed
  <2>2. Fits(a)' /\ Owes(a)
    BY <1>0, <2>1 DEF Fits, Owes, Recorded, disk
  <2>3. \A b \in Agents \ {a} : Fits(b)' /\ Owes(b)
    BY <1>0, <1>2 DEF Consistent, Fits, Owes, Recorded, disk
  <2>4. \A n \in 1 .. Len(order) : Accounted(n)'
    BY <1>0, <2>2, <2>3, AccountsStay DEF Consistent, disk, ghosts
  <2> QED
    BY <1>0, <1>3, <2>2, <2>3, <2>4, RecordsStay DEF Consistent, disk, ghosts
<1>8. CASE NextId(a)
  <2> DEFINE n == Len(order)
             d == [id |-> n + 1, parent |-> n, author |-> a, body |-> content]
  <2>1. (IF Latest = None THEN 0 ELSE Latest.id) = n
    BY <1>4, LatestIsLast
  <2>2. job'[a].doc = d /\ pc'[a] = "build"
    BY <1>8, <2>1 DEF NextId, Goto, Typed, Job
  <2>3. n < MaxVersions /\ Active(a) /\ ~Recorded(a)
    BY <1>4, <1>8 DEF NextId, Fits, Active, Recorded
  <2>4. Fits(a)'
    BY <1>0, <2>2, <2>3 DEF Fits, Recorded, disk
  <2> QED
    BY <1>5, <2>3, <2>4 DEF Owes
<1>9. CASE Build(a)
  <2>1. job[a].doc \in Document
    BY <1>4, <1>9 DEF Build, Equipped, Job
  <2>2. /\ job'[a].doc.id = job[a].doc.id /\ job'[a].doc.parent = job[a].doc.parent
        /\ job'[a].force = job[a].force
        /\ pc'[a] = IF job[a].force THEN "save" ELSE "compare"
    BY <1>9, <2>1 DEF Build, Goto, Typed, Job, Document
  <2>3. Active(a) /\ ~Recorded(a)
    BY <1>9 DEF Build, Active, Recorded
  <2>4. Fits(a)'
    BY <1>0, <1>4, <1>9, <2>2 DEF Build, Fits, Recorded, disk
  <2> QED
    BY <1>5, <2>3, <2>4 DEF Owes
<1>10. CASE Compare(a)
  <2>1. Active(a) /\ ~Recorded(a)
    BY <1>10 DEF Compare, Active, Recorded
  <2>2. /\ job' = job
        /\ pc'[a] \in {"save", "release"}
        /\ pc'[a] = "save" => Latest = None \/ ~Same(Latest, job[a].doc)
    BY <1>10 DEF Compare, Goto, Typed
  <2>3. pc'[a] = "save" => Len(order) = 0 \/ ~Same(files[Len(order)], job[a].doc)
    BY <1>4, <2>2, LatestIsLast
  <2>4. Fits(a)'
    BY <1>0, <1>4, <1>10, <2>2, <2>3 DEF Compare, Fits, Recorded, disk
  <2> QED
    BY <1>5, <2>1, <2>4 DEF Owes
<1>11. CASE ReadHistory(a)
  <2> DEFINE n == Len(order)
  <2>1. n > 0 /\ files[n] = job[a].doc
    BY <1>4, <1>11 DEF ReadHistory, Fits
  <2>2. job[a].doc.id = n /\ job[a].doc.parent = n - 1
    BY <1>4, <2>1 DEF VersionChain
  <2>3. /\ job'[a].doc = job[a].doc /\ job'[a].force = job[a].force
        /\ job'[a].entries = Append(history, [id |-> n, parent |-> n - 1])
        /\ pc'[a] = "history"
    BY <1>11, <2>2 DEF ReadHistory, Goto, Typed, Job
  <2>4. Active(a) /\ Recorded(a) /\ Recorded(a)'
    BY <1>11, <2>3 DEF ReadHistory, Active, Recorded
  <2>5. Fits(a)'
    BY <1>0, <1>4, <1>11, <2>1, <2>3, <2>4 DEF ReadHistory, Fits, Recorded, disk
  <2> QED
    BY <1>5, <2>3, <2>4, <2>5 DEF Owes
<1>12. CASE Release(a)
  <2>1. Active(a) /\ ~Recorded(a) /\ Fits(a)'
    BY <1>12 DEF Release, Goto, Typed, Active, Recorded, Fits
  <2> QED
    BY <1>5, <2>1 DEF Owes
<1> QED
  BY <1>6, <1>7, <1>8, <1>9, <1>10, <1>11, <1>12

\* The steps that write without recording: temporary files, and the file of a
\* version no list names yet.
LEMMA WritingIsConsistent ==
  ASSUME Typed, AllLocked, Alone, Consistent, NEW a \in Agents,
         WriteVersion(a) \/ ReplaceVersion(a) \/ WriteOrder(a) \/ WriteHistory(a)
  PROVE  Consistent'
<1> DEFINE n == Len(order)
<1>1. PICK phase, j : Moves(a, phase, j)
  BY StepMoves DEF Step
<1>2. /\ \A b \in Agents \ {a} : pc'[b] = pc[b] /\ job'[b] = job[b]
      /\ pc'[a] = phase /\ job'[a] = j
  BY <1>1, MovesKeepTypes
<1>3. /\ Fits(a) /\ Equipped(pc[a], job[a]) /\ job[a] \in Job
      /\ VersionChain /\ n \in 0 .. MaxVersions
  BY LatestIsLast DEF Consistent, Typed
<1>4. Active(a)
  BY DEF Active, WriteVersion, ReplaceVersion, WriteOrder, WriteHistory
<1>5. order' = order /\ history' = history /\ UNCHANGED ghosts
  BY DEF WriteVersion, ReplaceVersion, WriteOrder, WriteHistory
<1>6. ASSUME Recordless, Owes(a), Fits(a)'
      PROVE  Consistent'
  <2>1. ReturnedIsKept'
    BY <1>5, <1>6, RecordsStay DEF Consistent, ghosts
  <2> QED
    BY <1>2, <1>4, <1>5, <1>6, <2>1, MostSteps DEF ghosts, Consistent
<1>7. CASE WriteVersion(a)
  <2>1. n + 1 \in Numbers
    BY <1>7, WriteVersionMoves
  <2>2. temps'[n + 1] = [data |-> job[a].doc]
    BY <1>7, <2>1, TempsAreApart DEF WriteVersion, Fill, Typed
  <2>3. /\ job'[a].doc = job[a].doc /\ job'[a].force = job[a].force
        /\ job'[a].number = n + 1 /\ job'[a].versions = Append(order, n + 1)
        /\ pc'[a] = "replace_version"
    BY <1>7 DEF WriteVersion, Goto, Typed, Job
  <2>4. files' = files /\ ~Recorded(a) /\ pc[a] = "save" /\ n < MaxVersions
    BY <1>7 DEF WriteVersion, Recorded
  <2>5. Fits(a)'
    BY <1>3, <1>5, <2>2, <2>3, <2>4 DEF Fits, Recorded
  <2> QED
    BY <1>5, <1>6, <2>4, <2>5 DEF Recordless, Owes
<1>8. CASE ReplaceVersion(a)
  <2>1. /\ job[a].number = n + 1 /\ n + 1 \in Numbers
        /\ temps[n + 1] = [data |-> job[a].doc]
    BY <1>3, <1>8 DEF ReplaceVersion, Fits, Equipped
  <2>2. files' = [files EXCEPT ![n + 1] = job[a].doc]
    BY <1>8, <2>1 DEF ReplaceVersion
  <2>3. /\ files'[n + 1] = job[a].doc
        /\ \A i \in 1 .. n : files'[i] = files[i]
    BY <1>3, <2>1, <2>2 DEF Typed
  <2>4. job' = job /\ pc'[a] = "order" /\ pc[a] = "replace_version" /\ ~Recorded(a)
    BY <1>8 DEF ReplaceVersion, Goto, Typed, Recorded
  <2>5. n > 0 => files'[n] = files[n]
    BY <1>3, <2>3
  <2>6. Fits(a)'
    BY <1>3, <1>5, <2>3, <2>4, <2>5 DEF Fits, Recorded
  <2> QED
    BY <1>5, <1>6, <2>3, <2>4, <2>6 DEF Recordless, Owes
<1>9. CASE WriteOrder(a)
  <2>1. temps'[OrderTemp] = [data |-> job[a].versions]
    BY <1>9, TempsAreApart DEF WriteOrder, Fill, Typed
  <2>2. /\ job' = job /\ files' = files
        /\ pc'[a] = "replace_order" /\ pc[a] = "order" /\ ~Recorded(a)
    BY <1>9 DEF WriteOrder, Goto, Typed, Recorded
  <2>3. Fits(a)'
    BY <1>3, <1>5, <2>1, <2>2 DEF Fits, Recorded
  <2> QED
    BY <1>5, <1>6, <2>2, <2>3 DEF Recordless, Owes
<1>10. CASE WriteHistory(a)
  <2>1. temps'[HistoryTemp] = [data |-> job[a].entries]
    BY <1>10, TempsAreApart DEF WriteHistory, Fill, Typed
  <2>2. /\ job' = job /\ files' = files
        /\ pc'[a] = "replace_history" /\ pc[a] = "history" /\ Recorded(a) /\ Recorded(a)'
    BY <1>10 DEF WriteHistory, Goto, Typed, Recorded
  <2>3. Fits(a)'
    BY <1>3, <1>5, <2>1, <2>2 DEF Fits, Recorded
  <2> QED
    BY <1>5, <1>6, <2>2, <2>3 DEF Recordless, Owes
<1> QED
  BY <1>7, <1>8, <1>9, <1>10

LEMMA EndingIsConsistent ==
  ASSUME Typed, AllLocked, Alone, Consistent, NEW a \in Agents, Return(a) \/ Fail(a)
  PROVE  Consistent'
<1> DEFINE n == Len(order)
<1>1. /\ Active(a) /\ pc'[a] = "release" /\ job' = job /\ UNCHANGED disk
      /\ \A b \in Agents \ {a} : pc'[b] = pc[b]
  BY DEF Return, Fail, Goto, Typed, Active
<1>2. Recordless
  BY <1>1 DEF disk, Recordless
<1>3. Fits(a)'
  BY <1>1 DEF Fits, Recorded
<1>4. Fits(a) /\ VersionChain /\ n \in 0 .. MaxVersions
  BY LatestIsLast DEF Consistent
<1>5. Recorded(a) \/ pc[a] = "return"
        => n > 0 /\ job[a].doc = files[n] /\ job[a].doc.id = n
  BY <1>4 DEF Fits, Recorded, VersionChain
<1>6. CASE Return(a)
  <2>1. Owes(a) /\ unlogged' = unlogged
    BY <1>6 DEF Return, Owes, Recorded
  <2>2. ReturnedIsKept'
    <3>1. returned' = returned \cup {job[a].doc}
      BY <1>6 DEF Return
    <3>2. job[a].doc.id \in 1 .. n /\ files[job[a].doc.id] = job[a].doc
      BY <1>4, <1>5, <1>6 DEF Return
    <3>3. order' = order /\ files' = files
      BY <1>1 DEF disk
    <3> QED
      BY <3>1, <3>2, <3>3 DEF ReturnedIsKept, Consistent
  <2> QED
    BY <1>1, <1>2, <1>3, <2>1, <2>2, MostSteps DEF Consistent
<1>7. CASE Fail(a)
  <2>1. unlogged' = unlogged \cup (IF Recorded(a) THEN {job[a].doc.id} ELSE {})
    BY <1>7 DEF Fail
  <2>2. Owes(a)
    BY <2>1 DEF Owes
  <2>3. Recorded(a) => job[a].doc.id \in 1 .. n
    BY <1>4, <1>5
  <2>4. unlogged \subseteq unlogged' /\ unlogged' \subseteq 1 .. n
    BY <2>1, <2>3 DEF Consistent
  <2>5. ReturnedIsKept'
    BY <1>2, <1>7, RecordsStay DEF Fail, Consistent
  <2> QED
    BY <1>1, <1>2, <1>3, <2>2, <2>4, <2>5, MostSteps DEF Consistent
<1> QED
  BY <1>6, <1>7

\* order.json is replaced: the version becomes the last one.
LEMMA OrderIsConsistent ==
  ASSUME Typed, AllLocked, Alone, Consistent, NEW a \in Agents, ReplaceOrder(a)
  PROVE  /\ Consistent'
         /\ order' = Append(order, Len(order) + 1) /\ Len(order') = Len(order) + 1
         /\ files' = files /\ files[Len(order) + 1] = job[a].doc /\ Latest' = job[a].doc
         /\ job[a].doc \in Document
         /\ job[a].doc.id = Len(order) + 1 /\ job[a].doc.parent = Len(order)
<1> DEFINE n == Len(order)
           d == job[a].doc
<1>1. /\ Fits(a) /\ Equipped(pc[a], job[a]) /\ job[a] \in Job
      /\ VersionChain /\ n \in 0 .. MaxVersions
  BY LatestIsLast DEF Consistent, Typed
<1>2. /\ pc[a] = "replace_order" /\ pc'[a] = "log"
      /\ \A b \in Agents \ {a} : pc'[b] = pc[b]
      /\ UNCHANGED <<files, history, job, ghosts>>
  BY DEF ReplaceOrder, Goto, Typed
<1>3. /\ n < MaxVersions /\ d.id = n + 1 /\ d.parent = n
      /\ files[n + 1] = d /\ d \in Document /\ d # None
      /\ job[a].versions = Append(order, n + 1)
      /\ temps[OrderTemp] = [data |-> job[a].versions]
  BY <1>1, <1>2 DEF Fits, Equipped, Job
<1>4. order' = Append(order, n + 1)
  BY <1>3, SomethingIsThere DEF ReplaceOrder
<1>5. n + 1 \in Numbers
  BY <1>1, <1>3, BoundsAssumption DEF Numbers
<1>6. /\ Len(order') = n + 1 /\ order'[n + 1] = n + 1
      /\ \A i \in 1 .. n : order'[i] = order[i]
  BY <1>4, <1>5, AppendProperties DEF Typed, Lists
<1>7. VersionChain' /\ Latest' = d
  <2>1. order' # << >>
    BY <1>1, <1>6, EmptySeq
  <2>2. Latest' = files'[order'[n + 1]]
    BY <1>6, <2>1 DEF Latest
  <2>3. VersionChain'
    BY <1>1, <1>2, <1>3, <1>6 DEF VersionChain
  <2> QED
    BY <1>2, <1>3, <1>6, <2>2, <2>3
<1>8. HistoryIsTrue'
  BY <1>1, <1>2, <1>6 DEF HistoryIsTrue, Consistent
<1>9. \A m \in 1 .. (n + 1) : Accounted(m)'
  <2>1. ASSUME NEW m \in 1 .. n
        PROVE  Accounted(m)'
    <3>1. \A b \in Agents : ~Recorded(b)
      BY <1>2 DEF Alone, Active, Recorded
    <3>2. Accounted(m)
      BY DEF Consistent
    <3> QED
      BY <1>2, <3>1, <3>2 DEF Accounted, ghosts
  <2>2. Recorded(a)' /\ job'[a].doc.id = n + 1
    BY <1>2, <1>3 DEF Recorded
  <2>3. ASSUME NEW m, m = n + 1
        PROVE  Accounted(m)'
    BY <2>2, <2>3 DEF Accounted
  <2>4. \A m \in 1 .. (n + 1) : m \in 1 .. n \/ m = n + 1
    BY <1>1
  <2> HIDE DEF n
  <2> QED
    BY <2>1, <2>3, <2>4
<1>10. unlogged' \subseteq 1 .. (n + 1) /\ ReturnedIsKept'
  <2>1. \A m \in 1 .. n : m \in 1 .. (n + 1)
    BY <1>1
  <2> QED
    BY <1>2, <1>6, <2>1 DEF Consistent, ReturnedIsKept, ghosts
<1>11. Fits(a)'
  <2>1. \A i \in 1 .. Len(history) : history[i].id < n + 1
    BY <1>1 DEF Consistent, HistoryIsTrue
  <2> QED
    BY <1>1, <1>2, <1>3, <1>6, <2>1 DEF Fits, Recorded
<1>12. \A b \in Agents : Fits(b)'
  <2>1. Active(a)
    BY <1>2 DEF Active
  <2> QED
    BY <1>2, <1>11, <2>1, OthersFit
<1> QED
  BY <1>2, <1>3, <1>4, <1>6, <1>7, <1>8, <1>9, <1>10, <1>12 DEF Consistent

\* history.json is replaced: it tells of the last version, too.
LEMMA HistoryIsConsistent ==
  ASSUME Typed, AllLocked, Alone, Consistent, NEW a \in Agents, ReplaceHistory(a)
  PROVE  Consistent'
<1> DEFINE n == Len(order)
           e == [id |-> n, parent |-> n - 1]
<1>1. /\ Fits(a) /\ VersionChain /\ n \in 0 .. MaxVersions
  BY LatestIsLast DEF Consistent, Typed
<1>2. /\ pc[a] = "replace_history" /\ pc'[a] = "return"
      /\ \A b \in Agents \ {a} : pc'[b] = pc[b]
      /\ UNCHANGED <<files, order, job, ghosts>>
  BY DEF ReplaceHistory, Goto, Typed
<1>3. /\ n > 0 /\ files[n] = job[a].doc
      /\ \A i \in 1 .. Len(history) : history[i].id < n
      /\ job[a].entries = Append(history, e)
      /\ temps[HistoryTemp] = [data |-> job[a].entries]
  BY <1>1, <1>2 DEF Fits, Recorded
<1>4. history' = Append(history, e)
  BY <1>3, SomethingIsThere DEF ReplaceHistory
<1>5. e \in Entry /\ files[n].id = n /\ files[n].parent = n - 1
  <2>1. n \in 1 .. n /\ n \in Nat /\ n - 1 \in Nat
    BY <1>1, <1>3
  <2>2. e \in Entry
    BY <2>1 DEF Entry
  <2> QED
    BY <1>1, <2>1, <2>2 DEF VersionChain
<1> DEFINE l == Len(history)
<1>6. /\ l \in Nat /\ Len(history') = l + 1 /\ history'[l + 1] = e
      /\ \A i \in 1 .. l : history'[i] = history[i]
  BY <1>4, <1>5, AppendProperties, LenProperties DEF Typed
<1>7. VersionChain' /\ ReturnedIsKept' /\ unlogged' \subseteq 1 .. Len(order')
  BY <1>2 DEF Consistent, VersionChain, ReturnedIsKept, ghosts
<1>8. HistoryIsTrue'
  <2>1. ASSUME NEW i \in 1 .. l
        PROVE  /\ history'[i].id \in 1 .. n
               /\ history'[i].parent = files[history'[i].id].parent
               /\ \A j \in 1 .. (i - 1) : history'[j].id < history'[i].id
    BY <1>6 DEF Consistent, HistoryIsTrue
  <2>2. /\ e.id \in 1 .. n /\ e.parent = files[e.id].parent
        /\ \A j \in 1 .. l : history'[j].id < e.id
    <3>1. e.id = n /\ e.parent = n - 1
      OBVIOUS
    <3>2. e.id \in 1 .. n
      BY <1>1, <1>3, <3>1
    <3>3. e.parent = files[e.id].parent
      BY <1>5, <3>1
    <3>4. ASSUME NEW j \in 1 .. l
          PROVE  history'[j].id < e.id
      <4>1. history'[j] = history[j] /\ history[j].id < n
        BY <1>3, <1>6
      <4> QED
        BY <3>1, <4>1
    <3> HIDE DEF e
    <3> QED
      BY <3>2, <3>3, <3>4
  <2> QED
    BY <1>2, <1>6, <2>1, <2>2 DEF HistoryIsTrue
<1>9. ASSUME NEW m \in 1 .. n
      PROVE  Accounted(m)'
  <2>1. Accounted(m)
    BY DEF Consistent
  <2>2. ASSUME NEW i \in 1 .. l, history[i].id = m
        PROVE  Accounted(m)'
    <3>1. i \in 1 .. Len(history') /\ history'[i].id = m
      BY <1>6, <2>2
    <3> QED
      BY <3>1 DEF Accounted
  <2>3. ASSUME m \in unlogged
        PROVE  Accounted(m)'
    BY <1>2, <2>3 DEF Accounted, ghosts
  <2>4. ASSUME NEW b \in Agents, Recorded(b), job[b].doc.id = m
        PROVE  Accounted(m)'
    <3>1. b = a /\ m = n
      BY <1>2, <1>3, <1>5, <2>4 DEF Alone, Active, Recorded
    <3>2. l + 1 \in 1 .. Len(history') /\ history'[l + 1].id = m
      BY <1>6, <3>1
    <3> QED
      BY <3>2 DEF Accounted
  <2> QED
    BY <2>1, <2>2, <2>3, <2>4 DEF Accounted
<1>10. \A b \in Agents : Fits(b)'
  <2>1. Fits(a)'
    BY <1>2, <1>3 DEF Fits, Recorded
  <2>2. Active(a)
    BY <1>2 DEF Active
  <2> QED
    BY <1>2, <2>1, <2>2, OthersFit
<1> QED
  BY <1>2, <1>7, <1>8, <1>9, <1>10 DEF Consistent

LEMMA CrashIsConsistent ==
  ASSUME Typed, AllLocked, Consistent, NEW p \in Processes, Crash(p)
  PROVE  Alone' /\ Consistent'
<1>1. /\ \A a \in Agents : pc'[a] = "idle"
      /\ unlogged' = unlogged \cup {job[a].doc.id : a \in {b \in Agents : Recorded(b)}}
  BY CrashTakesAll
<1>2. Alone' /\ \A a \in Agents : Fits(a)'
  BY <1>1 DEF Alone, Active, Fits, Recorded
<1>3. Recordless /\ returned' = returned
  BY DEF Crash, Recordless, disk
<1>4. VersionChain' /\ HistoryIsTrue' /\ ReturnedIsKept'
  BY <1>3, RecordsStay DEF Consistent
<1>5. \A n \in 1 .. Len(order) : Accounted(n)'
  BY <1>1, <1>3, AccountsStay DEF Owes, Recordless, Consistent
<1>6. unlogged' \subseteq 1 .. Len(order)
  <2>1. ASSUME NEW a \in Agents, Recorded(a)
        PROVE  job[a].doc.id \in 1 .. Len(order)
    <3>1. Fits(a) /\ VersionChain /\ Len(order) \in 0 .. MaxVersions
      BY LatestIsLast DEF Consistent
    <3>2. Len(order) > 0 /\ files[Len(order)] = job[a].doc
      BY <2>1, <3>1 DEF Fits, Recorded
    <3>3. Len(order) \in 1 .. Len(order)
      BY <3>1, <3>2
    <3> QED
      BY <3>1, <3>2, <3>3 DEF VersionChain
  <2> QED
    BY <1>1, <2>1 DEF Consistent
<1> QED
  BY <1>2, <1>3, <1>4, <1>5, <1>6 DEF Consistent, Recordless

LEMMA UnchangedIsConsistent ==
  ASSUME Alone, Consistent, UNCHANGED <<disk, writer, pc, job, ghosts>>
  PROVE  Alone' /\ Consistent'
<1>1. VersionChain' /\ HistoryIsTrue' /\ ReturnedIsKept' /\ Alone'
  BY DEF Alone, Active, Consistent, VersionChain, HistoryIsTrue, ReturnedIsKept, disk, ghosts
<1>2. \A n \in 1 .. Len(order) : Accounted(n)'
  BY DEF Consistent, Accounted, Recorded, disk, ghosts
<1>3. \A a \in Agents : Fits(a)'
  BY DEF Consistent, Fits, Recorded, disk
<1> QED
  BY <1>1, <1>2, <1>3 DEF Consistent, disk, ghosts

LEMMA NextIsConsistent ==
  ASSUME Typed, AllLocked, Alone, Consistent, [Next]_vars
  PROVE  Alone' /\ Consistent'
<1>1. ASSUME NEW a \in Agents, Step(a)
      PROVE  Alone' /\ Consistent'
  BY <1>1, StepStaysAlone, ReadingIsConsistent, WritingIsConsistent, EndingIsConsistent,
     OrderIsConsistent, HistoryIsConsistent DEF Step
<1>2. CASE Change
  BY <1>2, UnchangedIsConsistent DEF Change
<1>3. CASE UNCHANGED vars
  BY <1>3, UnchangedIsConsistent DEF vars
<1> QED
  BY <1>1, <1>2, <1>3, CrashIsConsistent DEF Next, Step

LEMMA InitIsConsistent == Init => Alone /\ Consistent
<1> SUFFICES ASSUME Init PROVE Alone /\ Consistent
  OBVIOUS
<1>1. Len(order) = 0 /\ Len(history) = 0
  BY EmptySeq DEF Init
<1>2. \A a \in Agents : pc[a] = "idle"
  BY DEF Init
<1> QED
  BY <1>1, <1>2 DEF Init, Alone, Active, Consistent, VersionChain, HistoryIsTrue,
     ReturnedIsKept, Fits, Recorded

LEMMA AlwaysConsistent ==
  ASSUME AllLocked
  PROVE  Spec => [](Typed /\ Alone /\ Consistent)
<1>1. Init => Typed /\ Alone /\ Consistent
  BY InitIsTyped, InitIsConsistent
<1>2. Typed /\ Alone /\ Consistent /\ [Next]_vars => (Typed /\ Alone /\ Consistent)'
  BY NextIsTyped, NextIsConsistent
<1> QED
  BY <1>1, <1>2, PTL DEF Spec

----
(* The theorems.                                                           *)

\* Behind the lock, files, lists and calls are well formed, through failures and
\* crashes; a version that was cut short has a number of its own.
THEOREM TypeCorrectness ==
  ASSUME AllLocked
  PROVE  Spec => []TypeOK
<1>1. Typed /\ Consistent => TypeOK
  <2> SUFFICES ASSUME Typed, Consistent PROVE TypeOK
    OBVIOUS
  <2>1. unlogged \subseteq Numbers
    <3>1. Len(order) \in 0 .. MaxVersions
      BY LatestIsLast DEF Consistent
    <3>2. \A n \in 1 .. Len(order) : n \in Numbers
      BY <3>1, BoundsAssumption DEF Numbers
    <3> QED
      BY <3>2 DEF Consistent
  <2> QED
    BY <2>1 DEF Typed, TypeOK, Equipped, Lists
<1> QED
  BY <1>1, AlwaysConsistent, PTL

\* Behind the lock, order.json and the version files form a chain at every moment,
\* and the history tells of it truly and, but for what was cut short, wholly.
THEOREM HistoryCanBeTrusted ==
  ASSUME AllLocked
  PROVE  Spec => []HistoryTellsVersions
<1>1. Consistent => HistoryTellsVersions
  BY DEF Consistent, HistoryIsTrue, Accounted, HistoryTellsVersions
<1> QED
  BY <1>1, AlwaysConsistent, PTL

\* Behind the lock, what create returned is never lost or replaced.
THEOREM ReturnedStaysLoadable ==
  ASSUME AllLocked
  PROVE  Spec => []ReturnedIsKept
<1>1. Consistent => ReturnedIsKept
  BY DEF Consistent
<1> QED
  BY <1>1, AlwaysConsistent, PTL

\* Behind the lock, a create that is not forced never records what its
\* predecessor has, although the index changes while it runs.
THEOREM NewsOnly ==
  ASSUME AllLocked
  PROVE  Spec => UnforcedBringsNews
<1> DEFINE News == \A a \in Agents :
             pc[a] = "replace_order" /\ pc'[a] = "log" /\ ~job[a].force /\ order # << >> =>
               ~Same(Latest', Latest)
<1>1. ASSUME Typed, Alone, Consistent, [Next]_vars
      PROVE  [News]_vars
  <2>1. SUFFICES ASSUME NEW a \in Agents, pc[a] = "replace_order", pc'[a] = "log",
                        ~job[a].force, order # << >>
                 PROVE  ~Same(Latest', Latest)
    OBVIOUS
  <2> DEFINE n == Len(order)
  <2>2. ReplaceOrder(a)
    <3>1. ASSUME NEW b \in Agents, Step(b), ~ReplaceOrder(a)
          PROVE  FALSE
      <4>1. \A c \in Agents \ {b} : pc'[c] = pc[c]
        BY <1>1, <3>1, StepStaysAlone
      <4>2. b = a
        BY <2>1, <4>1
      <4> QED
        BY <1>1, <2>1, <3>1, <4>2
           DEF Step, Call, Acquire, NextId, Build, Compare, WriteVersion, ReplaceVersion,
               WriteOrder, ReadHistory, WriteHistory, ReplaceHistory, Return, Release, Fail,
               Goto, Typed
    <3>2. ASSUME NEW p \in Processes, Crash(p)
          PROVE  FALSE
      BY <2>1, <3>2, CrashTakesAll
    <3>3. ~Change /\ ~UNCHANGED vars
      BY <2>1 DEF Change, vars
    <3> QED
      BY <1>1, <3>1, <3>2, <3>3 DEF Next, Step
  <2>3. Latest' = job[a].doc
    BY <1>1, <2>2, OrderIsConsistent
  <2>4. n \in Nat /\ n > 0
    BY <1>1, <2>1, EmptySeq, LenProperties DEF Typed, Lists
  <2>5. Latest = files[n]
    BY <1>1, <2>4, LatestIsLast DEF Consistent
  <2>6. ~Same(files[n], job[a].doc)
    <3>1. Fits(a)
      BY <1>1 DEF Consistent
    <3> QED
      BY <2>1, <2>4, <3>1 DEF Fits
  <2> QED
    BY <2>3, <2>5, <2>6 DEF Same
<1> QED
  BY <1>1, AlwaysConsistent, PTL DEF Spec, UnforcedBringsNews

----
(* The refinement.                                                         *)

LEMMA VersionsAreDocuments ==
  ASSUME Typed, VersionChain
  PROVE  /\ Versions \in Seq(Document) /\ Len(Versions) = Len(order)
         /\ \A i \in 1 .. Len(order) : Versions[i] = files[i]
<1>1. Len(order) \in Nat
  BY LatestIsLast
<1>2. Versions = [i \in 1 .. Len(order) |-> files[i]]
  BY DEF Versions, VersionChain
<1>3. \A i \in 1 .. Len(order) : files[i] \in Document
  <2>1. \A i \in 1 .. Len(order) : i \in Numbers
    BY LatestIsLast, BoundsAssumption DEF Numbers
  <2> QED
    BY <2>1 DEF Typed, VersionChain
<1>4. Versions \in [1 .. Len(order) -> Document]
  BY <1>2, <1>3
<1>5. Versions \in Seq(Document)
  BY <1>1, <1>4, SeqDef
<1>6. Len(Versions) = Len(order)
  BY <1>1, <1>4, <1>5, LenProperties
<1> QED
  BY <1>2, <1>5, <1>6

LEMMA InitRefines == Init => Log!Init
<1> SUFFICES ASSUME Init PROVE Versions = << >>
  BY DEF Log!Init
<1>1. Len(order) = 0
  BY EmptySeq DEF Init
<1> QED
  BY <1>1 DEF Versions

LEMMA OrderRefines ==
  ASSUME Typed, AllLocked, Alone, Consistent, NEW a \in Agents, ReplaceOrder(a)
  PROVE  Log!Next
<1> DEFINE n == Len(order)
           d == job[a].doc
<1>1. /\ Typed' /\ Consistent'
      /\ Len(order') = n + 1 /\ files' = files /\ files[n + 1] = d
      /\ d \in Document /\ d.id = n + 1 /\ d.parent = n
  BY OrderIsConsistent, NextIsTyped DEF Next
<1>2. /\ Versions \in Seq(Document) /\ Len(Versions) = n
      /\ \A i \in 1 .. n : Versions[i] = files[i]
  BY VersionsAreDocuments DEF Consistent
<1>3. VersionChain /\ VersionChain' /\ n \in Nat
  BY <1>1, LatestIsLast DEF Consistent
<1>4. Versions' = [i \in 1 .. (n + 1) |-> files[i]]
  BY <1>1, <1>3 DEF Versions, VersionChain
<1>5. d = Log!Version(n + 1, d.author, d.body) /\ d.author \in Agents /\ d.body \in Contents
  BY <1>1, <1>3 DEF Document, Log!Version
<1>6. Versions' = Append(Versions, d)
  <2>1. /\ Append(Versions, d) \in Seq(Document) /\ Len(Append(Versions, d)) = n + 1
        /\ Append(Versions, d)[n + 1] = d
        /\ \A i \in 1 .. n : Append(Versions, d)[i] = files[i]
    BY <1>1, <1>2, AppendProperties
  <2>2. Append(Versions, d) = [i \in 1 .. (n + 1) |-> Append(Versions, d)[i]]
    BY <2>1, LenProperties
  <2>3. \A i \in 1 .. (n + 1) : Append(Versions, d)[i] = files[i]
    BY <1>1, <1>3, <2>1
  <2> QED
    BY <1>4, <2>2, <2>3
<1> QED
  BY <1>2, <1>5, <1>6 DEF Log!Next, Log!Create

LEMMA NextRefines ==
  ASSUME Typed, AllLocked, Alone, Consistent, [Next]_vars
  PROVE  [Log!Next]_Versions
<1>0. VersionChain
  BY DEF Consistent
<1>1. ASSUME NEW a \in Agents, Step(a), ~ReplaceOrder(a)
      PROVE  Versions' = Versions
  <2>1. CASE ReplaceVersion(a)
    <3>1. Fits(a) /\ Len(order) \in 0 .. MaxVersions
      BY LatestIsLast DEF Consistent
    <3>2. job[a].number = Len(order) + 1
      BY <2>1, <3>1 DEF ReplaceVersion, Fits
    <3>3. \A i \in 1 .. Len(order) : files'[i] = files[i]
      BY <2>1, <3>1, <3>2 DEF ReplaceVersion, Typed
    <3>4. order' = order
      BY <2>1 DEF ReplaceVersion
    <3> QED
      BY <1>0, <3>3, <3>4 DEF Versions, VersionChain
  <2>2. CASE ~ReplaceVersion(a)
    <3>1. order' = order /\ files' = files
      BY <1>1, <2>2 DEF Step, Call, Acquire, NextId, Build, Compare, WriteVersion,
         WriteOrder, ReadHistory, WriteHistory, ReplaceHistory, Return, Release, Fail, disk
    <3> QED
      BY <3>1 DEF Versions
  <2> QED
    BY <2>1, <2>2
<1>2. ASSUME (\E p \in Processes : Crash(p)) \/ Change \/ UNCHANGED vars
      PROVE  Versions' = Versions
  BY <1>2 DEF Crash, Change, vars, disk, Versions
<1> QED
  BY <1>1, <1>2, OrderRefines DEF Next, Step

\* Behind the lock, the three files implement the log of versions: a create takes
\* effect when order.json is replaced, and nothing else is visible in the log.
THEOREM LockedRefinement ==
  ASSUME AllLocked
  PROVE  Spec => GrowsAtTheEnd
<1>1. Typed /\ Alone /\ Consistent /\ [Next]_vars => [Log!Next]_Versions
  BY NextRefines
<1> QED
  BY <1>1, InitRefines, AlwaysConsistent, PTL DEF Spec, GrowsAtTheEnd, Log!Spec

===============================================================================
