---------------------------- MODULE MigrationProofs ----------------------------
(***************************************************************************)
(* Migration with any projects, versions and bounds: types for any number  *)
(* of engines, and what a migration and a rollback leave behind when one   *)
(* engine is at work, whatever agents save meanwhile, whatever fails and   *)
(* whenever the engine's process dies.  Of a project to which a stale save *)
(* has brought another version nothing is claimed but the types: all that  *)
(* follows is about the others.  Two engines can be inside at once         *)
(* (OneMigrationAtATime is violated); nothing is claimed of what they leave.*)
(***************************************************************************)
EXTENDS Migration, SequenceTheorems, WellFoundedInduction, TLAPS

OneEngine == \E e \in Engines : Engines = {e}

\* What a call holds at each place of its code.
Equipped(phase, r) ==
  /\ phase \in {"acquire", "unlink", "create", "write"} /\ r.guarded =>
       r.cmd \in {"migrate", "rollback"}
  /\ phase = "judge" => r.cmd \in {"migrate", "rollback"}
  /\ phase = "apply" => r.step \in Keys
  /\ phase \in {"manage", "apply"} => r.cmd = "migrate"
  /\ phase \in {"backup", "prune"} => /\ r.cmd \in {"migrate", "backup"} /\ r.key \in Keys
                                      /\ r.cmd = "migrate" => r.step = r.key
  /\ phase \in {"index", "snapshot", "restore", "copy", "paste"} =>
       r.cmd \in {"migrate", "rollback"}

Typed == TypeOK /\ \A e \in Engines : Equipped(pc[e], run[e])

----
(* Types, for any engines.                                                 *)

Backups == [key : Keys, copy : [Projects -> Doc]]
Lasts == {"", "started", "rollback", "completed", "failed"}

OneOfEachKey(dirs) == \A i, j \in DOMAIN dirs : dirs[i].key = dirs[j].key => i = j

DiskIsTyped ==
  /\ repo \in [Projects -> Doc] /\ index \in [Projects -> Doc]
  /\ snapshot \in [Projects -> Doc]
  /\ backups \in Seq(Backups) /\ OneOfEachKey(backups)
  /\ lock \in LockFile \cup {NoLock}

BoundsAreTyped ==
  /\ calls \in [Engines -> Nat] /\ \A e \in Engines : calls[e] <= MaxCommands[e]
  /\ crashes \in [Engines -> Nat] /\ \A e \in Engines : crashes[e] <= MaxCrashes[e]
  /\ saves \in 0 .. MaxSaves
  /\ stuck \in BOOLEAN
  /\ hands \in SUBSET (Projects \X Versions)
  /\ late \in SUBSET Projects

USE TargetAssumption, CommandsAssumption, BoundsAssumption

LEMMA TypedParts ==
  Typed <=> /\ DiskIsTyped /\ BoundsAreTyped
            /\ mem \in [Engines -> Memory] /\ pc \in [Engines -> Phases]
            /\ run \in [Engines -> Run] /\ \A e \in Engines : Equipped(pc[e], run[e])
BY DEF Typed, TypeOK, DiskIsTyped, OneOfEachKey, BoundsAreTyped, Backups

\* The missing document, and the others.
LEMMA Docs ==
  /\ NoDoc \in Doc /\ NoDoc.ver = 0 /\ NoDoc.body = 0
  /\ \A d \in Doc : d # NoDoc <=> d.ver \in Versions
  /\ \A d \in Doc : d.ver \in 0 .. Target + 1 /\ d.body \in 0 .. MaxSaves
<1>1. NoDoc.ver = 0 /\ NoDoc.body = 0 /\ 0 \notin Versions
  BY DEF NoDoc, Versions
<1>2. \A d \in [ver : Versions, body : 0 .. MaxSaves] :
        d.ver \in Versions /\ d.body \in 0 .. MaxSaves
  OBVIOUS
<1>3. Versions \subseteq 0 .. Target + 1 /\ 0 \in 0 .. MaxSaves
  BY DEF Versions
<1>4. ASSUME NEW d \in Doc
      PROVE  /\ d # NoDoc <=> d.ver \in Versions
             /\ d.ver \in 0 .. Target + 1 /\ d.body \in 0 .. MaxSaves
  <2>1. CASE d = NoDoc
    BY <1>1, <1>3, <2>1
  <2>2. CASE d \in [ver : Versions, body : 0 .. MaxSaves]
    BY <1>1, <1>2, <1>3, <2>2
  <2> QED
    BY <2>1, <2>2 DEF Doc
<1> QED
  BY <1>1, <1>4 DEF Doc

\* The lowest of some versions.
LEMMA Lowest ==
  ASSUME NEW S \in SUBSET Versions, S # {}
  PROVE  Min(S) \in S /\ \A v \in S : Min(S) <= v
<1>1. S \subseteq Nat
  BY DEF Versions
<1>2. PICK v \in S : \A w \in S : ~ (<<w, v>> \in OpToRel(<, Nat))
  BY <1>1, NatLessThanWellFounded, WFMin, Zenon
<1>3. ASSUME NEW w \in S
      PROVE  v <= w
  <2>1. w < v => <<w, v>> \in {ss \in Nat \X Nat : ss[1] < ss[2]}
    BY <1>1
  <2>2. ~ (w < v)
    BY <1>2, <2>1 DEF OpToRel
  <2> QED
    BY <1>1, <2>2
<1> QED
  BY <1>3 DEF Min

\* A directory that goes leaves the others, in their order.
LEMMA Removal ==
  ASSUME NEW dirs \in Seq(Backups), NEW k \in 1 .. Len(dirs)
  PROVE  /\ RemoveAt(dirs, k) \in Seq(Backups) /\ Len(RemoveAt(dirs, k)) = Len(dirs) - 1
         /\ \A i \in 1 .. Len(dirs) - 1 :
              RemoveAt(dirs, k)[i] = dirs[IF i < k THEN i ELSE i + 1]
<1> DEFINE n == Len(dirs)
           a == SubSeq(dirs, 1, k - 1)
           b == SubSeq(dirs, k + 1, n)
<1>1. n \in Nat /\ k \in 1 .. n
  OBVIOUS
<1>2. a \in Seq(Backups) /\ Len(a) = k - 1 /\ \A i \in 1 .. k - 1 : a[i] = dirs[i]
  BY <1>1
<1>3. /\ b \in Seq(Backups) /\ Len(b) = n - k
      /\ \A i \in 1 .. n - k : b[i] = dirs[k + i]
  BY <1>1
<1>4. RemoveAt(dirs, k) = a \o b
  BY DEF RemoveAt
<1> HIDE DEF a, b
<1>5. a \o b \in Seq(Backups) /\ Len(a \o b) = n - 1
  <2>1. a \in Seq(Backups) /\ b \in Seq(Backups)
    BY <1>2, <1>3
  <2>2. a \o b \in Seq(Backups) /\ Len(a \o b) = Len(a) + Len(b)
    BY <2>1, ConcatProperties
  <2>3. (k - 1) + (n - k) = n - 1
    BY <1>1
  <2> QED
    BY <1>2, <1>3, <2>2, <2>3
<1>6. ASSUME NEW i \in 1 .. n - 1
      PROVE  (a \o b)[i] = dirs[IF i < k THEN i ELSE i + 1]
  <2>1. CASE i < k
    <3>1. i \in 1 .. k - 1 /\ i \in 1 .. Len(a)
      BY <1>1, <1>2, <2>1
    <3>2. (a \o b)[i] = a[i]
      BY <1>2, <1>3, <3>1
    <3> QED
      BY <1>2, <2>1, <3>1, <3>2
  <2>2. CASE ~(i < k)
    <3>1. i - (k - 1) \in 1 .. n - k /\ k + (i - (k - 1)) = i + 1
      BY <1>1, <2>2
    <3>2. (a \o b)[i] = b[i - Len(a)]
      BY <1>1, <1>2, <1>3, <2>2
    <3> QED
      BY <1>2, <1>3, <2>2, <3>1, <3>2
  <2> QED
    BY <2>1, <2>2
<1> QED
  BY <1>4, <1>5, <1>6

\* What the backups are once e has removed some or all of a directory: each is
\* one of those there were, or lacks a project of it, and the newest stays.
Thinned(dirs, from) ==
  /\ dirs \in Seq(Backups) /\ OneOfEachKey(dirs)
  /\ \A i \in DOMAIN dirs : \E j \in DOMAIN from :
       /\ dirs[i].key = from[j].key
       /\ \A p \in Projects : dirs[i].copy[p] \in {from[j].copy[p], NoDoc}
  /\ Len(dirs) \in 1 .. Len(from) /\ dirs[Len(dirs)] = from[Len(from)]

LEMMA Pruning ==
  ASSUME Typed, NEW e \in Engines, Prune(e)
  PROVE  Thinned(backups', backups)
<1> DEFINE n == Len(backups)
<1>1. /\ backups \in Seq(Backups) /\ DOMAIN backups = 1 .. n /\ n \in Nat
      /\ OneOfEachKey(backups)
  BY DEF Typed, TypeOK, Backups, OneOfEachKey
<1>2. PICK k \in 1 .. n :
        /\ k + KeepN <= n
        /\ \/ backups' = RemoveAt(backups, k)
           \/ \E p \in Projects : backups' = [backups EXCEPT ![k].copy[p] = NoDoc]
  BY <1>1 DEF Prune
<1>3. k < n /\ n - 1 \in 1 .. n
  BY <1>1, <1>2
<1>4. CASE backups' = RemoveAt(backups, k)
  <2> DEFINE at(i) == IF i < k THEN i ELSE i + 1
  <2>1. /\ backups' \in Seq(Backups) /\ Len(backups') = n - 1
        /\ \A i \in 1 .. n - 1 : backups'[i] = backups[at(i)]
    BY <1>1, <1>4, Removal
  <2>2. \A i \in 1 .. n - 1 : at(i) \in 1 .. n
    BY <1>1, <1>3
  <2>3. \A i, j \in 1 .. n - 1 : at(i) = at(j) => i = j
    BY <1>1
  <2>4. at(n - 1) = n
    <3>1. ~(n - 1 < k) /\ (n - 1) + 1 = n
      BY <1>1, <1>2
    <3> QED
      BY <3>1
  <2> HIDE DEF at
  <2>5. DOMAIN backups' = 1 .. n - 1
    BY <2>1
  <2>6. OneOfEachKey(backups')
    <3>1. ASSUME NEW i \in 1 .. n - 1, NEW j \in 1 .. n - 1, backups'[i].key = backups'[j].key
          PROVE  i = j
      <4>1. /\ at(i) \in DOMAIN backups /\ at(j) \in DOMAIN backups
            /\ backups[at(i)].key = backups[at(j)].key
        BY <1>1, <2>1, <2>2, <3>1
      <4>2. at(i) = at(j)
        BY <1>1, <4>1, Zenon DEF OneOfEachKey
      <4> QED
        BY <2>3, <4>2, Zenon
    <3> QED
      BY <2>5, <3>1, Zenon DEF OneOfEachKey
  <2>7. \A i \in DOMAIN backups' : backups'[i] = backups[at(i)] /\ at(i) \in DOMAIN backups
    BY <1>1, <2>1, <2>2, <2>5
  <2>8. backups'[n - 1] = backups[n]
    BY <1>3, <2>1, <2>4
  <2> QED
    BY <1>1, <1>3, <2>1, <2>6, <2>7, <2>8 DEF Thinned
<1>5. ASSUME NEW p \in Projects, backups' = [backups EXCEPT ![k].copy[p] = NoDoc]
      PROVE  Thinned(backups', backups)
  <2> DEFINE d == [backups[k] EXCEPT !.copy[p] = NoDoc]
  <2>1. backups[k] \in Backups
    BY <1>1
  <2>2. d \in Backups /\ d.key = backups[k].key
        /\ \A q \in Projects : d.copy[q] \in {backups[k].copy[q], NoDoc}
    BY <2>1, Docs DEF Backups
  <2>3. backups' = [backups EXCEPT ![k] = d]
    BY <1>5
  <2> HIDE DEF d
  <2>4. /\ backups' \in Seq(Backups) /\ Len(backups') = n /\ DOMAIN backups' = 1 .. n
        /\ backups'[k] = d /\ \A i \in 1 .. n : i # k => backups'[i] = backups[i]
    BY <1>1, <2>2, <2>3
  <2>5. OneOfEachKey(backups')
    BY <1>1, <2>2, <2>4 DEF OneOfEachKey
  <2>6. \A i \in 1 .. n : /\ backups'[i].key = backups[i].key
                          /\ \A q \in Projects :
                               backups'[i].copy[q] \in {backups[i].copy[q], NoDoc}
    BY <2>2, <2>4
  <2>7. backups'[n] = backups[n] /\ n \in 1 .. n
    <3>1. n \in 1 .. n /\ n # k
      BY <1>1, <1>2, <1>3
    <3> QED
      BY <2>4, <3>1
  <2> QED
    BY <1>1, <2>4, <2>5, <2>6, <2>7 DEF Thinned
<1> QED
  BY <1>2, <1>4, <1>5

\* The copy under a key is in one of the directories.
LEMMA Copies ==
  ASSUME NEW key, HasBackup(key)
  PROVE  \E i \in DOMAIN backups : backups[i].key = key /\ CopyOf(key) = backups[i].copy
<1> DEFINE dirs == {backups[i] : i \in DOMAIN backups}
           b == CHOOSE b \in dirs : b.key = key
<1>1. \E d \in dirs : d.key = key
  BY DEF HasBackup
<1>2. b \in dirs /\ b.key = key
  BY <1>1, Zenon
<1> QED
  BY <1>2 DEF CopyOf

\* A step of one call keeps the types when what the call goes on with is typed.
LEMMA OneRun ==
  ASSUME Typed, NEW e \in Engines, NEW phase \in Phases, NEW r \in Run,
         Equipped(phase, r), pc' = [pc EXCEPT ![e] = phase],
         run' = [run EXCEPT ![e] = r], mem' \in [Engines -> Memory],
         DiskIsTyped', BoundsAreTyped'
  PROVE  Typed'
<1>1. pc' \in [Engines -> Phases] /\ run' \in [Engines -> Run]
  BY DEF Typed, TypeOK
<1>2. \A f \in Engines : Equipped(pc'[f], run'[f])
  BY DEF Typed, TypeOK
<1>3. Typed' <=> /\ DiskIsTyped' /\ BoundsAreTyped'
                 /\ mem' \in [Engines -> Memory] /\ pc' \in [Engines -> Phases]
                 /\ run' \in [Engines -> Run] /\ \A f \in Engines : Equipped(pc'[f], run'[f])
  BY DEF Typed, TypeOK, DiskIsTyped, OneOfEachKey, BoundsAreTyped, Backups, Equipped
<1> QED
  BY <1>1, <1>2, <1>3

\* What nobody touches stays typed.
LEMMA SameDisk ==
  ASSUME Typed, UNCHANGED <<data, backups, lock>>
  PROVE  DiskIsTyped'
BY DEF Typed, TypeOK, DiskIsTyped, OneOfEachKey, Backups, data

LEMMA SameBounds ==
  ASSUME Typed, UNCHANGED bounds
  PROVE  BoundsAreTyped'
BY DEF Typed, TypeOK, BoundsAreTyped, bounds

\* A record of the engine's memory.
LEMMA Remembers ==
  ASSUME Typed, NEW e \in Engines, NEW state \in States, NEW last \in Lasts,
         mem' = [mem EXCEPT ![e].state = state, ![e].last = last]
  PROVE  mem' \in [Engines -> Memory]
<1>1. mem \in [Engines -> Memory] /\ mem[e] \in Memory
  BY DEF Typed, TypeOK
<1>2. [mem[e] EXCEPT !.state = state, !.last = last] \in Memory
  BY <1>1 DEF Memory, Lasts
<1>3. mem' = [mem EXCEPT ![e] = [mem[e] EXCEPT !.state = state, !.last = last]]
  BY <1>1
<1> QED
  BY <1>1, <1>2, <1>3

\* What a call may go on with.
LEMMA Remembered ==
  ASSUME Typed, NEW e \in Engines
  PROVE  /\ mem[e].state \in States /\ mem[e].last \in Lasts /\ mem[e].backup \in {0} \cup Keys
         /\ run[e] \in Run /\ pc[e] \in Phases /\ Equipped(pc[e], run[e])
BY DEF Typed, TypeOK, Memory, Lasts

\* A call that ends.
LEMMA EndsTyped ==
  ASSUME Typed, NEW e \in Engines, NEW outcome \in Outcomes, NEW state \in States,
         NEW last \in Lasts, Ends(e, outcome, state, last), DiskIsTyped', BoundsAreTyped'
  PROVE  Typed'
<1> DEFINE r == [run[e] EXCEPT !.outcome = outcome, !.todo = {}]
<1>1. r \in Run /\ run' = [run EXCEPT ![e] = r]
  BY Remembered DEF Ends, Run
<1>2. Equipped("exit", r) /\ "exit" \in Phases
  BY DEF Equipped, Phases
<1>3. mem' \in [Engines -> Memory] /\ pc' = [pc EXCEPT ![e] = "exit"]
  BY Remembers DEF Ends, Goto
<1> HIDE DEF r
<1> QED
  BY <1>1, <1>2, <1>3, OneRun

\* A call that gives up or is over.
LEMMA GivesTyped ==
  ASSUME Typed, NEW e \in Engines, Gives(e), mem' \in [Engines -> Memory],
         DiskIsTyped', BoundsAreTyped'
  PROVE  Typed'
<1>1. NoRun \in Run
  BY Docs DEF NoRun, Run, Outcomes
<1>2. Equipped("idle", NoRun) /\ "idle" \in Phases
  BY DEF Equipped, Phases
<1> QED
  BY <1>1, <1>2, OneRun DEF Gives, Goto

----
(* One lemma for each group of actions.                                    *)

LEMMA StartTyped ==
  ASSUME Typed, NEW e \in Engines, NEW cmd \in Commands[e], Start(e, cmd)
  PROVE  Typed'
<1>1. PICK key \in IF cmd = "backup" THEN Keys ELSE {0},
           guarded \in IF cmd \in {"migrate", "rollback"} THEN BOOLEAN ELSE {FALSE} :
        /\ run' = [run EXCEPT ![e] = [NoRun EXCEPT !.cmd = cmd, !.key = key,
                                                  !.guarded = guarded]]
        /\ Goto(e, IF guarded THEN "acquire" ELSE FirstPhase(cmd))
  BY DEF Start
<1> DEFINE r == [NoRun EXCEPT !.cmd = cmd, !.key = key, !.guarded = guarded]
           phase == IF guarded THEN "acquire" ELSE FirstPhase(cmd)
<1>2. cmd \in CommandNames /\ NoRun \in Run
  BY Docs DEF NoRun, Run, Outcomes
<1>3. r \in Run /\ r.cmd = cmd /\ r.key = key /\ r.guarded = guarded
  BY <1>1, <1>2 DEF Run, NoRun
<1>4. phase \in Phases /\ Equipped(phase, r)
  <2>1. /\ phase \in {"acquire", "backup", "detect"} /\ (phase = "backup" => cmd = "backup")
        /\ guarded => cmd \in {"migrate", "rollback"}
    BY <1>1 DEF FirstPhase
  <2> HIDE DEF phase, r
  <2> QED
    BY <1>1, <1>3, <2>1 DEF Phases, Equipped
<1>5. mem' \in [Engines -> Memory]
  <2>1. PICK state \in States : mem' = [mem EXCEPT ![e].state = state]
    BY Remembered DEF Start, States
  <2>2. mem \in [Engines -> Memory] /\ mem[e] \in Memory
    BY DEF Typed, TypeOK
  <2>3. [mem[e] EXCEPT !.state = state] \in Memory
    BY <2>2 DEF Memory
  <2>4. mem' = [mem EXCEPT ![e] = [mem[e] EXCEPT !.state = state]]
    BY <2>1
  <2> QED
    BY <2>2, <2>3, <2>4
<1>6. DiskIsTyped' /\ BoundsAreTyped'
  <2>1. UNCHANGED <<data, backups, lock, saves, crashes, stuck, hands, late>>
        /\ calls' = [calls EXCEPT ![e] = @ + 1] /\ calls[e] < MaxCommands[e]
    BY DEF Start
  <2>2. \A f \in Engines : calls'[f] \in Nat /\ calls'[f] <= MaxCommands[f]
    BY <2>1 DEF Typed, TypeOK
  <2> QED
    BY <2>1, <2>2, SameDisk DEF Typed, TypeOK, BoundsAreTyped
<1>7. pc' = [pc EXCEPT ![e] = phase] /\ run' = [run EXCEPT ![e] = r]
  BY <1>1 DEF Goto
<1> HIDE DEF r, phase
<1> QED
  BY <1>3, <1>4, <1>5, <1>6, <1>7, OneRun

\* A call that only goes on.
LEMMA GoesOn ==
  ASSUME Typed, NEW e \in Engines, NEW phase \in Phases, Goto(e, phase), UNCHANGED run,
         Equipped(phase, run[e]), mem' \in [Engines -> Memory], DiskIsTyped', BoundsAreTyped'
  PROVE  Typed'
<1>1. run' = [run EXCEPT ![e] = run[e]] /\ run[e] \in Run
  BY DEF Typed, TypeOK
<1> QED
  BY <1>1, OneRun DEF Goto

LEMMA LockingTyped ==
  ASSUME Typed, NEW e \in Engines, Locking(e)
  PROVE  Typed'
<1>1. /\ UNCHANGED <<data, backups, mem, bounds>> /\ BoundsAreTyped'
      /\ mem' \in [Engines -> Memory]
  <2>1. UNCHANGED <<data, backups, mem, bounds>>
    BY DEF Locking, LookAtLock, UnlinkLock, CreateLock, WriteLock, Judge, Leave
  <2> QED
    BY <2>1, SameBounds DEF Typed, TypeOK
<1>2. lock' \in LockFile \cup {NoLock}
  <2>1. lock \in LockFile \cup {NoLock}
    BY DEF Typed, TypeOK
  <2>2. [by |-> e, written |-> FALSE, aged |-> FALSE] \in LockFile
    BY DEF LockFile
  <2>3. lock # NoLock => [lock EXCEPT !.written = TRUE] \in LockFile
    BY <2>1 DEF LockFile
  <2> QED
    BY <2>1, <2>2, <2>3 DEF Locking, LookAtLock, UnlinkLock, CreateLock, WriteLock, Judge,
       Leave
<1>3. DiskIsTyped'
  BY <1>1, <1>2 DEF Typed, TypeOK, DiskIsTyped, OneOfEachKey, Backups, data
<1>4. CASE Gives(e)
  BY <1>1, <1>3, <1>4, GivesTyped
<1>5. ASSUME NEW phase \in {"unlink", "create", "write", "judge", "detect", "journal"},
             Goto(e, phase), UNCHANGED run, ~Judge(e)
      PROVE  Typed'
  <2>1. Equipped(pc[e], run[e]) /\ pc'[e] = phase
    BY <1>5, Remembered DEF Goto, Typed, TypeOK
  <2>2. Equipped(phase, run[e])
    <3>1. CASE phase \in {"unlink", "create", "write"}
      <4>1. pc[e] \in {"acquire", "unlink", "create"}
        BY <1>5, <2>1, <3>1 DEF Locking, LookAtLock, UnlinkLock, CreateLock, WriteLock,
           Leave, Gives, Goto, Typed, TypeOK
      <4> QED
        BY <2>1, <3>1, <4>1 DEF Equipped
    <3>2. CASE phase = "judge"
      <4>1. pc[e] = "write" /\ run[e].guarded
        BY <1>5, <2>1, <3>2 DEF Locking, LookAtLock, UnlinkLock, CreateLock, WriteLock,
           Leave, Gives, Goto, Typed, TypeOK
      <4> QED
        BY <2>1, <3>2, <4>1 DEF Equipped
    <3>3. CASE phase \in {"detect", "journal"}
      BY <3>3 DEF Equipped
    <3> QED
      BY <3>1, <3>2, <3>3
  <2> QED
    BY <1>1, <1>3, <1>5, <2>2, GoesOn DEF Phases
<1>6. CASE Judge(e) /\ ~Gives(e)
  <2> DEFINE r == [run[e] EXCEPT !.guarded = FALSE]
             phase == FirstPhase(run[e].cmd)
  <2>1. pc[e] = "judge" /\ pc' = [pc EXCEPT ![e] = phase] /\ run' = [run EXCEPT ![e] = r]
    BY <1>6 DEF Judge, Goto
  <2>2. r \in Run /\ r.cmd = run[e].cmd /\ r.guarded = FALSE
    BY Remembered DEF Run
  <2>3. run[e].cmd \in {"migrate", "rollback"}
    BY <2>1, Remembered DEF Equipped
  <2>4. phase \in {"acquire", "detect"}
    BY <2>3 DEF FirstPhase
  <2> HIDE DEF r, phase
  <2>5. Equipped(phase, r) /\ phase \in Phases
    BY <2>2, <2>4 DEF Equipped, Phases
  <2> QED
    BY <1>1, <1>3, <2>1, <2>2, <2>5, OneRun
<1>7. Judge(e) \/ ~Judge(e)
  OBVIOUS
<1>8. ~Judge(e) => \/ Gives(e)
                   \/ \E phase \in {"unlink", "create", "write", "judge", "detect", "journal"} :
                        Goto(e, phase) /\ UNCHANGED run
  BY DEF Locking, LookAtLock, UnlinkLock, CreateLock, WriteLock, Leave
<1> QED
  BY <1>4, <1>5, <1>6, <1>7, <1>8

\* The facade's and the manager's detection.
LEMMA DetectedTyped ==
  ASSUME Typed, NEW e \in Engines, NEW phase \in Phases, NEW r \in Run, Equipped(phase, r),
         NEW state \in States, NEW last \in Lasts, Detected(e, phase, r, state, last),
         UNCHANGED <<data, backups, lock, bounds>>
  PROVE  Typed'
BY OneRun, Remembers, SameDisk, SameBounds DEF Detected, Goto

LEMMA DetectTyped ==
  ASSUME Typed, NEW e \in Engines, EngineDetect(e) \/ DetectFails(e)
  PROVE  Typed'
<1>1. UNCHANGED <<data, backups, lock, bounds>>
  BY DEF EngineDetect, DetectFails
<1>2. repo \in [Projects -> Doc] /\ run[e] \in Run
  BY DEF Typed, TypeOK
<1> DEFINE found == [run[e] EXCEPT !.start = repo]
<1>3. found \in Run /\ found.cmd = run[e].cmd
  BY <1>2 DEF Run
<1>4. \A r \in Run : [r EXCEPT !.outcome = "refused"] \in Run
  BY DEF Run, Outcomes
<1>5. mem[e].backup # 0 => [found EXCEPT !.key = mem[e].backup] \in Run
                           /\ [found EXCEPT !.key = mem[e].backup].cmd = run[e].cmd
  BY <1>3, Remembered DEF Run
<1>6. \A r : Equipped("exit", r) /\ Equipped("validate", r)
  BY DEF Equipped
<1>7. \A r : r.cmd = "migrate" => Equipped("manage", r)
  BY DEF Equipped
<1>8. \A r : r.cmd = "rollback" => Equipped("restore", r)
  BY DEF Equipped
<1>9. {"exit", "validate", "manage", "restore"} \subseteq Phases
  BY DEF Phases
<1>10. /\ {"DETECTING", "VALIDATING", "ROLLBACK", "FAILED"} \subseteq States
       /\ {"started", "failed"} \subseteq Lasts
       /\ mem[e].state \in States /\ mem[e].last \in Lasts
  BY Remembered DEF States, Lasts
<1> HIDE DEF found
<1>11. CASE EngineDetect(e)
  <2> DEFINE last == mem[e].last
             cmd == run[e].cmd
             refused == [found EXCEPT !.outcome = "refused"]
             keyed == [found EXCEPT !.key = mem[e].backup]
  <2>1. CASE cmd = "detect" /\ Detected(e, "exit", found, "DETECTING", last)
    BY <1>1, <1>3, <1>6, <1>9, <1>10, <2>1, DetectedTyped
  <2>2. CASE cmd = "validate" /\ Detected(e, "validate", found, "VALIDATING", last)
    BY <1>1, <1>3, <1>6, <1>9, <1>10, <2>2, DetectedTyped
  <2>3. CASE cmd = "migrate" /\ Detected(e, "manage", found, "DETECTING", "started")
    BY <1>1, <1>3, <1>7, <1>9, <1>10, <2>3, DetectedTyped
  <2>4. CASE Detected(e, "exit", refused, "DETECTING", "failed")
    <3>1. refused \in Run
      BY <1>3, <1>4
    <3> QED
      BY <1>1, <3>1, <1>6, <1>9, <1>10, <2>4, DetectedTyped
  <2>5. CASE /\ cmd = "rollback" /\ mem[e].backup # 0
             /\ Detected(e, "restore", keyed, "ROLLBACK", last)
    <3>1. keyed \in Run /\ Equipped("restore", keyed)
      BY <1>5, <1>8, <2>5
    <3> QED
      BY <1>1, <3>1, <1>9, <1>10, <2>5, DetectedTyped
  <2> QED
    BY <1>11, <2>1, <2>2, <2>3, <2>4, <2>5 DEF EngineDetect, found
<1>12. CASE DetectFails(e)
  <2> DEFINE asked == IF pc[e] = "detect" THEN found ELSE run[e]
             refused == [asked EXCEPT !.outcome = "refused"]
  <2>1. refused \in Run
    BY <1>2, <1>3, <1>4
  <2>2. PICK state \in States, last \in Lasts : Detected(e, "exit", refused, state, last)
    BY <1>10, <1>12 DEF DetectFails, found
  <2> HIDE DEF refused
  <2> QED
    BY <1>1, <1>6, <1>9, <2>1, <2>2, DetectedTyped
<1> QED
  BY <1>11, <1>12

\* What the detection finds among the listed projects.
LEMMA CurrentVersion ==
  ASSUME Typed, NEW asked \in SUBSET Projects, ~FutureSeen(asked)
  PROVE  /\ Current(asked) \in 1 .. Target
         /\ \A p \in asked \cap Present : repo[p].ver \in Current(asked) .. Target
<1>1. Seen(asked) \in SUBSET Versions /\ \A v \in Seen(asked) : v <= Target
  <2>1. \A p \in Present : repo[p].ver \in Versions
    BY Docs DEF Typed, TypeOK, Present
  <2>2. Seen(asked) \in SUBSET Versions
    BY <2>1 DEF Seen
  <2> QED
    BY <2>2 DEF FutureSeen, Versions
<1>2. CASE Seen(asked) = {}
  <2>1. Current(asked) = Target
    BY <1>2, Zenon DEF Current
  <2>2. \A p \in asked \cap Present : FALSE
    BY <1>2 DEF Seen
  <2> QED
    BY <2>1, <2>2
<1>3. CASE Seen(asked) # {}
  <2>1. Min(Seen(asked)) \in Seen(asked) /\ \A v \in Seen(asked) : Min(Seen(asked)) <= v
    BY <1>1, <1>3, Lowest
  <2>2. Current(asked) = Min(Seen(asked))
    BY <1>3 DEF Current
  <2>3. \A p \in asked \cap Present : repo[p].ver \in Seen(asked)
    BY DEF Seen
  <2> QED
    BY <1>1, <2>1, <2>2, <2>3 DEF Versions
<1> QED
  BY <1>2, <1>3

LEMMA ManagerDetectTyped ==
  ASSUME Typed, NEW e \in Engines, ManagerDetect(e)
  PROVE  Typed'
<1> DEFINE current == Current(Listed(e))
           up == [run[e] EXCEPT !.outcome = "up_to_date"]
           on == [run[e] EXCEPT !.step = current, !.key = current]
<1>1. pc[e] = "manage" /\ run[e] \in Run /\ run[e].cmd = "migrate" /\ mem[e].last \in Lasts
      /\ UNCHANGED <<data, backups, lock, bounds>>
  BY Remembered DEF ManagerDetect, Equipped
<1>2. current \in 1 .. Target
  BY CurrentVersion DEF ManagerDetect, Listed
<1> HIDE DEF current
<1>3. CASE Detected(e, "exit", up, "COMPLETED", mem[e].last)
  <2>1. up \in Run /\ Equipped("exit", up)
    BY <1>1 DEF Run, Outcomes, Equipped
  <2> QED
    BY <1>1, <1>3, <2>1, DetectedTyped DEF Phases, States
<1>4. CASE current < Target /\ Detected(e, "backup", on, "DETECTING", mem[e].last)
  <2>1. current \in Keys /\ current \in 0 .. Target + 1
    BY <1>2, <1>4 DEF Keys
  <2>2. on \in Run /\ on.cmd = "migrate" /\ on.step = current /\ on.key = current
    BY <1>1, <2>1 DEF Run
  <2> HIDE DEF on
  <2>3. Equipped("backup", on)
    BY <2>1, <2>2 DEF Equipped
  <2> QED
    BY <1>1, <1>4, <2>2, <2>3, DetectedTyped DEF Phases, States
<1> QED
  BY <1>3, <1>4 DEF ManagerDetect, current

\* create returns.
LEMMA BackedTyped ==
  ASSUME Typed, NEW e \in Engines, pc[e] \in {"backup", "prune"}, Backed(e),
         NEW fresh \in BOOLEAN, run' = [run EXCEPT ![e].fresh = fresh],
         DiskIsTyped', BoundsAreTyped'
  PROVE  Typed'
<1> DEFINE migrating == run[e].cmd = "migrate"
           state == IF migrating THEN "MIGRATING" ELSE mem[e].state
           phase == IF migrating THEN "apply" ELSE "exit"
           m == [mem[e] EXCEPT !.backup = run[e].key, !.state = state]
           r == [run[e] EXCEPT !.fresh = fresh]
<1>1. /\ run[e] \in Run /\ run[e].key \in Keys
      /\ migrating => run[e].step = run[e].key
  BY Remembered DEF Equipped
<1>2. r \in Run /\ r.cmd = run[e].cmd /\ r.key = run[e].key /\ r.step = run[e].step
  BY <1>1 DEF Run
<1>5. phase \in Phases /\ Equipped(phase, r)
  BY <1>1, <1>2 DEF Phases, Equipped
<1>3. mem' \in [Engines -> Memory]
  <2>1. mem \in [Engines -> Memory] /\ mem[e] \in Memory /\ state \in States
    BY Remembered DEF Typed, TypeOK, States
  <2>2. m \in Memory
    BY <1>1, <2>1 DEF Memory
  <2>3. mem' = [mem EXCEPT ![e] = m]
    BY DEF Backed
  <2> QED
    BY <2>1, <2>2, <2>3
<1>4. pc' = [pc EXCEPT ![e] = phase] /\ run' = [run EXCEPT ![e] = r]
  BY DEF Backed, Goto
<1> HIDE DEF phase, r
<1> QED
  BY <1>2, <1>3, <1>4, <1>5, OneRun

\* A directory under a new key.
LEMMA Publishing ==
  ASSUME Typed, NEW key \in Keys, ~HasBackup(key),
         backups' = Append(backups, [key |-> key, copy |-> repo])
  PROVE  /\ backups' \in Seq(Backups) /\ OneOfEachKey(backups')
         /\ Len(backups') = Len(backups) + 1
         /\ backups'[Len(backups')] = [key |-> key, copy |-> repo]
         /\ \A i \in DOMAIN backups' : \/ i = Len(backups')
                                       \/ i \in DOMAIN backups /\ backups'[i] = backups[i]
<1> DEFINE n == Len(backups)
           d == [key |-> key, copy |-> repo]
<1>1. /\ backups \in Seq(Backups) /\ OneOfEachKey(backups) /\ d \in Backups /\ d.key = key
      /\ DOMAIN backups = 1 .. n /\ n \in Nat
  BY DEF Typed, TypeOK, Backups, OneOfEachKey
<1> HIDE DEF d
<1>2. /\ backups' \in Seq(Backups) /\ Len(backups') = n + 1 /\ backups'[n + 1] = d
      /\ DOMAIN backups' = 1 .. n + 1 /\ \A i \in 1 .. n : backups'[i] = backups[i]
  BY <1>1 DEF d
<1>3. \A i \in 1 .. n + 1 : i # n + 1 => i \in 1 .. n
  BY <1>1
<1>4. \A i \in 1 .. n : backups[i].key # key
  BY <1>1 DEF HasBackup
<1>5. OneOfEachKey(backups')
  <2>1. \A i \in 1 .. n + 1 : IF i = n + 1 THEN backups'[i].key = key
                              ELSE /\ i \in 1 .. n /\ backups'[i] = backups[i]
                                   /\ backups'[i].key # key
    BY <1>1, <1>2, <1>3, <1>4
  <2> QED
    BY <1>1, <1>2, <2>1 DEF OneOfEachKey
<1> QED
  BY <1>1, <1>2, <1>3, <1>5 DEF d

\* To write the flag as it is changes nothing.
LEMMA SameFresh ==
  ASSUME run \in [Engines -> Run], NEW e \in Engines, NEW fresh \in BOOLEAN,
         fresh = run[e].fresh, UNCHANGED run
  PROVE  run' = [run EXCEPT ![e].fresh = fresh]
<1>1. run[e] \in Run
  OBVIOUS
<1>2. run[e] = [run[e] EXCEPT !.fresh = fresh]
  BY <1>1 DEF Run
<1>3. run = [run EXCEPT ![e] = run[e]]
  OBVIOUS
<1> QED
  BY <1>2, <1>3

LEMMA TakeBackupTyped ==
  ASSUME Typed, NEW e \in Engines, TakeBackup(e) \/ Prune(e) \/ PruneEnds(e)
  PROVE  Typed'
<1>1. /\ UNCHANGED <<data, lock, bounds>> /\ run[e] \in Run
      /\ pc[e] \in {"backup", "prune"} /\ run[e].key \in Keys /\ Equipped(pc[e], run[e])
  BY Remembered DEF TakeBackup, Prune, PruneEnds, Equipped
<1>2. BoundsAreTyped'
  BY <1>1, SameBounds
<1>3. ASSUME backups' \in Seq(Backups), OneOfEachKey(backups')
      PROVE  DiskIsTyped'
  BY <1>1, <1>3 DEF Typed, TypeOK, DiskIsTyped, OneOfEachKey, data
<1>4. CASE Backed(e) /\ UNCHANGED backups
  <2>1. DiskIsTyped'
    BY <1>1, <1>4, SameDisk
  <2>2. PICK fresh \in BOOLEAN : run' = [run EXCEPT ![e].fresh = fresh]
    <3>1. CASE UNCHANGED run
      <4>1. PICK fresh \in BOOLEAN : fresh = run[e].fresh
        BY <1>1 DEF Run
      <4>2. run' = [run EXCEPT ![e].fresh = fresh]
        BY <1>1, <3>1, <4>1, SameFresh DEF Typed, TypeOK
      <4> QED
        BY <4>2
    <3>2. CASE TakeBackup(e)
      <4>1. PICK fresh \in BOOLEAN : fresh = ~HasBackup(run[e].key)
        BY DEF HasBackup
      <4>2. run' = [run EXCEPT ![e].fresh = fresh]
        BY <3>2, <4>1 DEF TakeBackup
      <4> QED
        BY <4>2
    <3>3. CASE Prune(e)
      BY <3>1, <3>3 DEF Prune
    <3>4. CASE PruneEnds(e)
      BY <3>1, <3>4 DEF PruneEnds
    <3> QED
      BY <3>2, <3>3, <3>4
  <2> QED
    BY <1>1, <1>2, <1>4, <2>1, <2>2, BackedTyped
<1>5. CASE TakeBackup(e) /\ ~HasBackup(run[e].key)
  <2> DEFINE r == [run[e] EXCEPT !.fresh = ~HasBackup(run[e].key)]
  <2>1. r \in Run /\ r.cmd = run[e].cmd /\ r.key = run[e].key /\ r.step = run[e].step
    BY <1>1 DEF Run
  <2>2. /\ pc[e] = "backup" /\ pc' = [pc EXCEPT ![e] = "prune"] /\ run' = [run EXCEPT ![e] = r]
        /\ UNCHANGED mem /\ backups' = Append(backups, [key |-> run[e].key, copy |-> repo])
    BY <1>5 DEF TakeBackup, Goto
  <2>3. backups' \in Seq(Backups) /\ OneOfEachKey(backups')
    BY <1>1, <1>5, <2>2, Publishing
  <2>4. mem' \in [Engines -> Memory]
    BY <2>2 DEF Typed, TypeOK
  <2> HIDE DEF r
  <2>5. Equipped("prune", r)
    BY <1>1, <2>1, <2>2 DEF Equipped
  <2> QED
    BY <1>2, <1>3, <2>1, <2>2, <2>3, <2>4, <2>5, OneRun DEF Phases
<1>6. CASE Prune(e)
  <2>1. DiskIsTyped'
    BY <1>3, <1>6, Pruning DEF Thinned
  <2>2. Goto(e, pc[e]) /\ UNCHANGED run /\ mem' \in [Engines -> Memory] /\ pc[e] \in Phases
    BY <1>6 DEF Prune, Goto, Typed, TypeOK
  <2> QED
    BY <1>1, <1>2, <2>1, <2>2, GoesOn
<1> QED
  BY <1>4, <1>5, <1>6 DEF TakeBackup, PruneEnds

LEMMA BackupFailsTyped ==
  ASSUME Typed, NEW e \in Engines, BackupFails(e)
  PROVE  Typed'
<1>1. PICK last \in Lasts : Ends(e, "no_backup", "FAILED", last)
  BY Remembered DEF BackupFails, Lasts
<1>2. UNCHANGED <<data, backups, lock, bounds>>
  BY DEF BackupFails
<1> QED
  BY <1>1, <1>2, EndsTyped, SameDisk, SameBounds DEF Outcomes, States

\* A step that rewrites one document or what is derived from it.
LEMMA LoopsTyped ==
  ASSUME Typed, NEW e \in Engines, NEW p \in Projects,
         ApplyStep(e, p) \/ RebuildIndex(e, p) \/ RegenerateSnapshot(e, p)
  PROVE  Typed'
<1>1. UNCHANGED <<backups, lock, mem, pc, bounds>>
  BY DEF ApplyStep, RebuildIndex, RegenerateSnapshot
<1>2. repo \in [Projects -> Doc] /\ run[e] \in Run /\ mem' \in [Engines -> Memory]
      /\ BoundsAreTyped' /\ Equipped(pc[e], run[e])
  BY <1>1, SameBounds, Remembered DEF Typed, TypeOK
<1>3. DiskIsTyped'
  <2>1. CASE ApplyStep(e, p)
    <3> DEFINE d == [repo[p] EXCEPT !.ver = repo[p].ver + 1]
    <3>1. repo[p] \in Doc /\ repo[p] # NoDoc /\ repo[p].ver = run[e].step /\ run[e].step \in Keys
      BY <1>2, <2>1 DEF ApplyStep, Present, Equipped
    <3>2. repo[p] \in [ver : Versions, body : 0 .. MaxSaves] /\ repo[p].ver + 1 \in Versions
      BY <3>1 DEF Doc, Keys, Versions
    <3>3. d \in Doc
      BY <3>2 DEF Doc
    <3>4. repo' = [repo EXCEPT ![p] = d]
      BY <2>1 DEF ApplyStep
    <3> HIDE DEF d
    <3>5. repo' \in [Projects -> Doc]
      BY <1>2, <3>3, <3>4
    <3> QED
      BY <1>1, <2>1, <3>5 DEF ApplyStep, Typed, TypeOK, DiskIsTyped, OneOfEachKey, Backups
  <2>2. CASE RebuildIndex(e, p) \/ RegenerateSnapshot(e, p)
    BY <1>1, <1>2, <2>2 DEF RebuildIndex, RegenerateSnapshot, Typed, TypeOK, DiskIsTyped,
       OneOfEachKey, Backups
  <2> QED
    BY <2>1, <2>2
<1>4. CASE ApplyStep(e, p)
  <2>1. Goto(e, pc[e]) /\ UNCHANGED run
    BY <1>1, <1>4 DEF ApplyStep, Goto, Typed, TypeOK
  <2> QED
    BY <1>2, <1>3, <2>1, GoesOn, Remembered
<1>5. CASE RebuildIndex(e, p) \/ RegenerateSnapshot(e, p)
  <2> DEFINE r == [run[e] EXCEPT !.todo = run[e].todo \ {p}]
  <2>1. r \in Run /\ r.cmd = run[e].cmd
    BY <1>2 DEF Run
  <2>2. /\ pc[e] \in {"index", "snapshot"} /\ run' = [run EXCEPT ![e] = r]
        /\ pc' = [pc EXCEPT ![e] = pc[e]]
    BY <1>1, <1>5 DEF RebuildIndex, RegenerateSnapshot, Typed, TypeOK
  <2> HIDE DEF r
  <2>3. Equipped(pc[e], r)
    BY <1>2, <2>1, <2>2 DEF Equipped
  <2> QED
    BY <1>2, <1>3, <2>1, <2>2, <2>3, OneRun, Remembered
<1> QED
  BY <1>4, <1>5

LEMMA StepsTyped ==
  ASSUME Typed, NEW e \in Engines, StepIsDone(e) \/ NextLoop(e)
  PROVE  Typed'
<1>1. UNCHANGED <<data, backups, lock, bounds>> /\ DiskIsTyped' /\ BoundsAreTyped'
  BY SameDisk, SameBounds DEF StepIsDone, NextLoop
<1>2. mem \in [Engines -> Memory] /\ mem[e] \in Memory /\ run[e] \in Run
      /\ Equipped(pc[e], run[e]) /\ mem[e].state \in States
  BY Remembered DEF Typed, TypeOK
<1>3. Listed(e) \in SUBSET Projects
  BY DEF Listed
<1>4. ASSUME NEW state \in States, mem' = [mem EXCEPT ![e].state = state]
      PROVE  mem' \in [Engines -> Memory]
  <2>1. [mem[e] EXCEPT !.state = state] \in Memory
    BY <1>2 DEF Memory
  <2>2. mem' = [mem EXCEPT ![e] = [mem[e] EXCEPT !.state = state]]
    BY <1>4
  <2> QED
    BY <1>2, <2>1, <2>2
<1>5. CASE StepIsDone(e)
  <2> DEFINE last == run[e].step + 1 = Target
             todo == IF last THEN Listed(e) ELSE {}
             r == [run[e] EXCEPT !.step = run[e].step + 1, !.todo = todo]
             phase == IF last THEN "index" ELSE "apply"
  <2>1. /\ pc[e] = "apply" /\ run' = [run EXCEPT ![e] = r]
        /\ pc' = [pc EXCEPT ![e] = phase]
    BY <1>5 DEF StepIsDone
  <2>2. run[e].step \in Keys /\ run[e].cmd = "migrate"
    BY <1>2, <2>1 DEF Equipped
  <2>3. run[e].step + 1 \in 0 .. Target + 1 /\ (~last => run[e].step + 1 \in Keys)
    BY <2>2 DEF Keys
  <2>4. r \in Run /\ r.cmd = "migrate" /\ r.step = run[e].step + 1
    <3>1. todo \in SUBSET Projects
      BY <1>3
    <3> HIDE DEF todo
    <3> QED
      BY <1>2, <2>2, <2>3, <3>1 DEF Run
  <2>5. mem' \in [Engines -> Memory]
    <3>1. PICK state \in States : mem' = [mem EXCEPT ![e].state = state]
      BY <1>2, <1>5 DEF StepIsDone, States
    <3> QED
      BY <1>4, <3>1
  <2> HIDE DEF r
  <2>6. phase \in Phases /\ Equipped(phase, r)
    BY <2>3, <2>4 DEF Phases, Equipped
  <2> HIDE DEF phase
  <2> QED
    BY <1>1, <2>1, <2>4, <2>5, <2>6, OneRun
<1>6. CASE NextLoop(e) /\ pc[e] = "index"
  <2> DEFINE r == [run[e] EXCEPT !.todo = Listed(e)]
  <2>1. r \in Run /\ r.cmd = run[e].cmd
    BY <1>2, <1>3 DEF Run
  <2>2. pc' = [pc EXCEPT ![e] = "snapshot"] /\ run' = [run EXCEPT ![e] = r]
    BY <1>6 DEF NextLoop, Goto
  <2>3. mem' \in [Engines -> Memory]
    <3>1. PICK state \in States : mem' = [mem EXCEPT ![e].state = state]
      BY <1>2, <1>6 DEF NextLoop, States
    <3> QED
      BY <1>4, <3>1
  <2> HIDE DEF r
  <2>4. Equipped("snapshot", r)
    BY <1>2, <1>6, <2>1 DEF Equipped
  <2> QED
    BY <1>1, <2>1, <2>2, <2>3, <2>4, OneRun DEF Phases
<1>7. CASE NextLoop(e) /\ pc[e] = "snapshot"
  <2>1. Goto(e, "validate") /\ UNCHANGED run
    BY <1>7 DEF NextLoop
  <2>2. mem' \in [Engines -> Memory]
    <3>1. PICK state \in States : mem' = [mem EXCEPT ![e].state = state]
      BY <1>2, <1>7 DEF NextLoop, States
    <3> QED
      BY <1>4, <3>1
  <2>3. Equipped("validate", run[e]) /\ "validate" \in Phases
    BY DEF Equipped, Phases
  <2> QED
    BY <1>1, <2>1, <2>2, <2>3, GoesOn
<1> QED
  BY <1>5, <1>6, <1>7 DEF NextLoop

LEMMA ValidatedTyped ==
  ASSUME Typed, NEW e \in Engines, Validated(e)
  PROVE  Typed'
<1>1. UNCHANGED <<data, backups, lock, bounds>> /\ DiskIsTyped' /\ BoundsAreTyped'
  BY SameDisk, SameBounds DEF Validated
<1>2. mem[e].last \in Lasts /\ mem[e].state \in States /\ run[e] \in Run
  BY Remembered
<1>3. CASE Ends(e, "completed", "COMPLETED", mem[e].last)
           \/ Ends(e, "done", "COMPLETED", mem[e].last)
  BY <1>1, <1>2, <1>3, EndsTyped DEF Outcomes, States
<1>4. CASE Validated(e) /\ run[e].cmd = "rollback"
  <2> DEFINE r == [run[e] EXCEPT !.outcome = "restored"]
  <2>1. r \in Run /\ Equipped("exit", r)
    BY <1>2 DEF Run, Outcomes, Equipped
  <2>2. pc' = [pc EXCEPT ![e] = "exit"] /\ run' = [run EXCEPT ![e] = r]
        /\ mem' = [mem EXCEPT ![e].last = "rollback"]
    BY <1>4 DEF Validated, Goto
  <2>3. mem' = [mem EXCEPT ![e].state = mem[e].state, ![e].last = "rollback"]
    BY <2>2 DEF Typed, TypeOK, Memory
  <2>4. mem' \in [Engines -> Memory]
    BY <1>2, <2>3, Remembers DEF Lasts
  <2> HIDE DEF r
  <2> QED
    BY <1>1, <2>1, <2>2, <2>4, OneRun DEF Phases
<1> QED
  BY <1>3, <1>4 DEF Validated

LEMMA FailsTyped ==
  ASSUME Typed, NEW e \in Engines, Fails(e) \/ RestoreFails(e)
  PROVE  Typed'
<1>1. UNCHANGED <<data, backups, lock, calls, saves, crashes, hands, late>> /\ stuck' \in BOOLEAN
  BY DEF Fails, RestoreFails, Typed, TypeOK
<1>2. DiskIsTyped' /\ BoundsAreTyped'
  BY <1>1, SameDisk DEF Typed, TypeOK, BoundsAreTyped
<1>3. mem \in [Engines -> Memory] /\ mem[e] \in Memory /\ run[e] \in Run
      /\ mem[e].last \in Lasts /\ mem[e].state \in States
  BY Remembered DEF Typed, TypeOK
<1>4. ASSUME NEW outcome \in Outcomes, NEW state \in States, NEW last \in Lasts,
             Ends(e, outcome, state, last)
      PROVE  Typed'
  BY <1>2, <1>4, EndsTyped
<1>5. CASE Fails(e) /\ run[e].cmd = "migrate"
  <2> DEFINE r == [run[e] EXCEPT !.todo = {}]
             m == [mem[e] EXCEPT !.state = "ROLLBACK"]
  <2>1. r \in Run /\ r.cmd = "migrate" /\ m \in Memory
    BY <1>3, <1>5 DEF Run, Memory, States
  <2>2. pc' = [pc EXCEPT ![e] = "restore"] /\ run' = [run EXCEPT ![e] = r]
        /\ mem' = [mem EXCEPT ![e] = m]
    BY <1>5 DEF Fails, Goto
  <2>3. Equipped("restore", r)
    BY <2>1 DEF Equipped
  <2>4. mem' \in [Engines -> Memory]
    BY <1>3, <2>1, <2>2
  <2> HIDE DEF r, m
  <2> QED
    BY <1>2, <2>1, <2>2, <2>3, <2>4, OneRun DEF Phases
<1>6. \/ Fails(e) /\ run[e].cmd = "migrate"
      \/ Ends(e, "stuck", mem[e].state, "failed")
      \/ Ends(e, "refused", "FAILED", mem[e].last)
      \/ Ends(e, "stuck", "FAILED", "failed")
  BY DEF Fails, RestoreFails
<1>7. {"stuck", "refused"} \subseteq Outcomes /\ "FAILED" \in States /\ "failed" \in Lasts
  BY DEF Outcomes, States, Lasts
<1> QED
  BY <1>3, <1>4, <1>5, <1>6, <1>7

LEMMA RollbackTyped ==
  ASSUME Typed, NEW e \in Engines, Rollback(e)
  PROVE  Typed'
<1>1. RestoreFails(e) => Typed'
  BY FailsTyped
<1> SUFFICES ASSUME ~RestoreFails(e) PROVE Typed'
  BY <1>1
<1>2. /\ UNCHANGED <<backups, lock, bounds>>
      /\ repo \in [Projects -> Doc] /\ index \in [Projects -> Doc]
      /\ snapshot \in [Projects -> Doc] /\ backups \in Seq(Backups)
      /\ mem \in [Engines -> Memory] /\ mem[e] \in Memory
      /\ run[e] \in Run /\ Equipped(pc[e], run[e])
      /\ pc[e] \in {"restore", "copy", "paste"} /\ run[e].cmd \in {"migrate", "rollback"}
  BY Remembered DEF Rollback, RemoveAdded, BeginCopies, Wipe, Paste, DropDerived, bounds,
     Typed, TypeOK, Equipped, Backups
<1>3. BoundsAreTyped'
  BY <1>2, SameBounds
<1>4. ASSUME repo' \in [Projects -> Doc], index' \in [Projects -> Doc],
             snapshot' \in [Projects -> Doc]
      PROVE  DiskIsTyped'
  BY <1>2, <1>4 DEF Typed, TypeOK, DiskIsTyped, OneOfEachKey, Backups
<1>5. ASSUME NEW p \in Projects, Erased(p)
      PROVE  DiskIsTyped'
  BY <1>2, <1>4, <1>5, Docs DEF Erased
<1>6. ASSUME UNCHANGED data
      PROVE  DiskIsTyped'
  BY <1>2, <1>4, <1>6 DEF data
<1>7. ASSUME NEW phase \in {"copy", "paste", "index"}, NEW r \in Run, r.cmd = run[e].cmd,
             mem' \in [Engines -> Memory], pc' = [pc EXCEPT ![e] = phase],
             run' = [run EXCEPT ![e] = r], DiskIsTyped'
      PROVE  Typed'
  <2>1. phase \in Phases /\ Equipped(phase, r)
    BY <1>2, <1>7 DEF Phases, Equipped
  <2> QED
    BY <1>3, <1>7, <2>1, OneRun
<1>8. CASE \E p \in Projects : RemoveAdded(e, p)
  <2>1. DiskIsTyped' /\ UNCHANGED <<mem, pc, run>>
    BY <1>5, <1>8 DEF RemoveAdded
  <2>2. Goto(e, pc[e]) /\ mem' \in [Engines -> Memory]
    BY <1>2, <2>1 DEF Goto, Typed, TypeOK
  <2> QED
    BY <1>3, <2>1, <2>2, GoesOn, Remembered
<1>9. CASE BeginCopies(e)
  <2> DEFINE todo == {p \in Projects : CopyOf(run[e].key)[p] # NoDoc}
             r == [run[e] EXCEPT !.todo = todo]
  <2>1. r \in Run /\ r.cmd = run[e].cmd
    <3>1. todo \in SUBSET Projects
      OBVIOUS
    <3> HIDE DEF todo
    <3> QED
      BY <1>2, <3>1 DEF Run
  <2>2. pc' = [pc EXCEPT ![e] = "copy"] /\ run' = [run EXCEPT ![e] = r] /\ mem' = mem
        /\ UNCHANGED data
    BY <1>9 DEF BeginCopies, Goto
  <2> HIDE DEF r
  <2> QED
    BY <1>2, <1>6, <1>7, <2>1, <2>2
<1>10. ASSUME NEW p \in Projects, Wipe(e, p)
       PROVE  Typed'
  <2> DEFINE r == [run[e] EXCEPT !.todo = run[e].todo \ {p}, !.at = {p}]
  <2>1. r \in Run /\ r.cmd = run[e].cmd
    BY <1>2 DEF Run
  <2>2. pc' = [pc EXCEPT ![e] = "paste"] /\ run' = [run EXCEPT ![e] = r] /\ mem' = mem
        /\ Erased(p)
    BY <1>10 DEF Wipe, Goto
  <2> HIDE DEF r
  <2> QED
    BY <1>2, <1>5, <1>7, <2>1, <2>2
<1>11. CASE Paste(e)
  <2> DEFINE r == [run[e] EXCEPT !.at = {}]
  <2>1. r \in Run /\ r.cmd = run[e].cmd
    BY <1>2 DEF Run
  <2>2. pc' = [pc EXCEPT ![e] = "copy"] /\ run' = [run EXCEPT ![e] = r] /\ mem' = mem
        /\ UNCHANGED <<index, snapshot>>
    BY <1>11 DEF Paste, Goto
  <2>3. CopyOf(run[e].key) \in [Projects -> Doc]
    <3>1. PICK i \in DOMAIN backups : CopyOf(run[e].key) = backups[i].copy
      BY <1>11, Copies DEF Paste
    <3>2. backups[i] \in Backups
      BY <1>2
    <3> QED
      BY <3>1, <3>2 DEF Backups
  <2>4. repo' \in [Projects -> Doc]
    BY <1>2, <1>11, <2>3 DEF Paste
  <2> HIDE DEF r
  <2> QED
    BY <1>2, <1>4, <1>7, <2>1, <2>2, <2>4
<1>12. CASE DropDerived(e)
  <2>1. DiskIsTyped'
    BY <1>2, <1>4, <1>12, Docs DEF DropDerived, Nothing
  <2>2. CASE \/ Ends(e, "rolled_back", "FAILED", "failed")
             \/ Ends(e, "restored", "FAILED", "rollback")
    BY <1>3, <2>1, <2>2, EndsTyped DEF Outcomes, States, Lasts
  <2>3. CASE Goto(e, "index") /\ DropDerived(e) /\ run[e].cmd = "rollback"
    <3> DEFINE r == [run[e] EXCEPT !.todo = Listed(e)]
               m == [mem[e] EXCEPT !.state = "FAILED"]
    <3>1. r \in Run /\ r.cmd = run[e].cmd /\ m \in Memory
      <4>1. Listed(e) \in SUBSET Projects
        BY DEF Listed
      <4>2. r \in Run /\ r.cmd = run[e].cmd
        BY <1>2, <4>1 DEF Run
      <4>3. m \in Memory
        BY <1>2 DEF Memory, States
      <4> QED
        BY <4>2, <4>3
    <3>2. run' = [run EXCEPT ![e] = r] /\ mem' = [mem EXCEPT ![e] = m]
          /\ pc' = [pc EXCEPT ![e] = "index"]
      BY <2>3 DEF DropDerived, Goto
    <3>3. mem' \in [Engines -> Memory]
      BY <1>2, <3>1, <3>2
    <3> HIDE DEF r, m
    <3> QED
      BY <1>7, <2>1, <3>1, <3>2, <3>3
  <2> QED
    BY <1>12, <2>2, <2>3 DEF DropDerived
<1> QED
  BY <1>8, <1>9, <1>10, <1>11, <1>12 DEF Rollback

LEMMA OthersTyped ==
  ASSUME Typed, \/ \E e \in Engines : Journal(e) \/ Crash(e)
                \/ AgeLock \/ Rest
                \/ \E p \in Projects : BeginSave(p) \/ \E v \in Versions : Save(p, v)
                \/ UNCHANGED vars
  PROVE  Typed'
<1>1. ASSUME NEW e \in Engines, Journal(e)
      PROVE  Typed'
  <2>1. mem' = [mem EXCEPT ![e].state = mem[e].state, ![e].last = "completed"]
    BY <1>1 DEF Journal, Typed, TypeOK, Memory
  <2>2. mem' \in [Engines -> Memory]
    BY <2>1, Remembers, Remembered DEF Lasts
  <2> QED
    BY <1>1, <2>2, GivesTyped, SameDisk, SameBounds DEF Journal
<1>2. ASSUME NEW e \in Engines, Crash(e)
      PROVE  Typed'
  <2>1. NewMemory \in Memory
    BY DEF NewMemory, Memory, States
  <2>2. mem' \in [Engines -> Memory]
    BY <1>2, <2>1 DEF Crash, Typed, TypeOK
  <2>3. UNCHANGED <<calls, saves, stuck, hands, late>> /\ crashes' = [crashes EXCEPT ![e] = @ + 1]
        /\ crashes[e] < MaxCrashes[e]
    BY <1>2 DEF Crash
  <2>4. \A f \in Engines : crashes'[f] \in Nat /\ crashes'[f] <= MaxCrashes[f]
    BY <2>3 DEF Typed, TypeOK
  <2>5. BoundsAreTyped'
    BY <2>3, <2>4 DEF Typed, TypeOK, BoundsAreTyped
  <2> QED
    BY <1>2, <2>2, <2>5, GivesTyped, SameDisk DEF Crash
<1>3. ASSUME UNCHANGED <<mem, pc, run>>, DiskIsTyped', BoundsAreTyped'
      PROVE  Typed'
  BY <1>3 DEF Typed, TypeOK, DiskIsTyped, OneOfEachKey, BoundsAreTyped, Backups, Equipped
<1>4. CASE AgeLock
  <2>1. [lock EXCEPT !.aged = TRUE] \in LockFile
    BY <1>4 DEF AgeLock, Typed, TypeOK, LockFile
  <2>2. DiskIsTyped'
    BY <1>4, <2>1 DEF AgeLock, Typed, TypeOK, DiskIsTyped, OneOfEachKey, Backups, data
  <2> QED
    BY <1>3, <1>4, <2>2, SameBounds DEF AgeLock
<1>5. ASSUME NEW p \in Projects, NEW v \in Versions, Save(p, v)
      PROVE  Typed'
  <2>1. /\ UNCHANGED <<index, snapshot, backups, lock, mem, pc, run, calls, crashes, stuck, hands>>
        /\ saves' = saves + 1 /\ saves < MaxSaves /\ saves \in 0 .. MaxSaves
        /\ repo' = [repo EXCEPT ![p] = [ver |-> v, body |-> saves + 1]]
        /\ repo \in [Projects -> Doc] /\ late' \in SUBSET Projects
    BY <1>5 DEF Save, Typed, TypeOK
  <2>2. saves' \in 0 .. MaxSaves /\ saves + 1 \in 0 .. MaxSaves
    BY <2>1
  <2>3. [ver |-> v, body |-> saves + 1] \in Doc
    BY <2>2 DEF Doc
  <2>4. DiskIsTyped'
    BY <2>1, <2>3 DEF Typed, TypeOK, DiskIsTyped, OneOfEachKey, Backups
  <2>5. BoundsAreTyped'
    BY <2>1, <2>2 DEF Typed, TypeOK, BoundsAreTyped
  <2> QED
    BY <1>3, <2>1, <2>4, <2>5
<1>7. ASSUME NEW p \in Projects, BeginSave(p)
      PROVE  Typed'
  <2>1. /\ UNCHANGED <<data, backups, lock, mem, pc, run, calls, saves, crashes, stuck, late>>
        /\ p \in Present /\ hands' = hands \cup {<<p, repo[p].ver>>}
    BY <1>7 DEF BeginSave
  <2>2. repo[p].ver \in Versions
    BY <2>1, Docs DEF Present, Typed, TypeOK
  <2>3. hands' \in SUBSET (Projects \X Versions)
    BY <2>1, <2>2 DEF Typed, TypeOK
  <2>4. BoundsAreTyped'
    BY <2>1, <2>3 DEF Typed, TypeOK, BoundsAreTyped
  <2> QED
    BY <1>3, <2>1, <2>4, SameDisk
<1>6. CASE UNCHANGED vars
  BY <1>3, <1>6, SameDisk, SameBounds DEF vars
<1> QED
  BY <1>1, <1>2, <1>4, <1>5, <1>6, <1>7 DEF Rest

LEMMA InitTyped == Init => Typed
<1> SUFFICES ASSUME Init PROVE Typed
  OBVIOUS
<1>1. DiskIsTyped
  <2>1. \A d \in [ver : Versions, body : {0}] : d \in Doc
    BY DEF Doc
  <2>2. repo \in [Projects -> Doc] /\ Nothing \in [Projects -> Doc]
    BY <2>1, Docs DEF Init, Nothing
  <2>3. backups \in Seq(Backups) /\ OneOfEachKey(backups)
    BY DEF Init, OneOfEachKey
  <2> QED
    BY <2>2, <2>3 DEF Init, DiskIsTyped
<1>2. BoundsAreTyped
  <2>1. \A e \in Engines : MaxCommands[e] \in Nat /\ MaxCrashes[e] \in Nat
    OBVIOUS
  <2>2. calls \in [Engines -> Nat] /\ crashes \in [Engines -> Nat] /\ saves \in 0 .. MaxSaves
        /\ hands = {} /\ late = {}
    BY DEF Init
  <2>3. \A e \in Engines : calls[e] <= MaxCommands[e] /\ crashes[e] <= MaxCrashes[e]
    BY <2>1 DEF Init
  <2> QED
    BY <2>2, <2>3 DEF Init, BoundsAreTyped
<1>3. NewMemory \in Memory /\ NoRun \in Run
  BY Docs DEF NewMemory, Memory, States, NoRun, Run, Outcomes
<1>4. mem \in [Engines -> Memory] /\ pc \in [Engines -> Phases] /\ run \in [Engines -> Run]
  BY <1>3, Zenon DEF Init, Phases
<1>5. \A e \in Engines : Equipped(pc[e], run[e])
  BY DEF Init, Equipped
<1> QED
  BY <1>1, <1>2, <1>4, <1>5, TypedParts

LEMMA NextTyped == Typed /\ [Next]_vars => Typed'
<1> SUFFICES ASSUME Typed, [Next]_vars PROVE Typed'
  OBVIOUS
<1>1. ASSUME NEW e \in Engines, Facade(e) PROVE Typed'
  BY <1>1, StartTyped, DetectTyped, OthersTyped DEF Facade
<1>2. ASSUME NEW e \in Engines, Pipeline(e) PROVE Typed'
  BY <1>2, ManagerDetectTyped, DetectTyped, TakeBackupTyped, BackupFailsTyped, LoopsTyped,
     StepsTyped, ValidatedTyped, FailsTyped DEF Pipeline
<1>3. ASSUME NEW e \in Engines, Locking(e) \/ Rollback(e) PROVE Typed'
  BY <1>3, LockingTyped, RollbackTyped
<1> QED
  BY <1>1, <1>2, <1>3, OthersTyped DEF Next

LEMMA AlwaysTyped == Spec => []Typed
<1> QED
  BY InitTyped, NextTyped, PTL DEF Spec

----
\* No document is of a save to come, and a project without documents has no
\* index and no snapshot.
Timely ==
  /\ \A p \in Projects : /\ repo[p].body <= saves
                         /\ repo[p] = NoDoc => index[p] = NoDoc /\ snapshot[p] = NoDoc
  /\ \A i \in DOMAIN backups : \A p \in Projects : backups[i].copy[p].body <= saves

\* The listed projects that no stale save has hit.
Kept(e) == Listed(e) \ late

\* d is of version ver, and not older than what the call found.
Follows(d, was, ver) == d.ver = ver /\ d.body >= was.body

\* What was derived from p's document is of its version, or is not there.
Steady(p) == \A made \in {index[p], snapshot[p]} : made = NoDoc \/ made.ver = repo[p].ver

\* The index or the snapshot that a call has made of p.
MadeByCall(e, p, made) ==
  IF run[e].cmd = "migrate" THEN Follows(made, run[e].start[p], Target)
  ELSE made = NoDoc \/ made.ver = repo[p].ver

Unstarted == {"idle", "acquire", "unlink", "create", "write", "judge", "detect", "journal"}

\* The documents of those projects, from the detection on.
DocsFit(e) ==
  /\ pc[e] \in {"manage", "backup", "prune"} /\ run[e].cmd = "migrate" =>
       \A p \in Kept(e) : Follows(repo[p], run[e].start[p], run[e].start[p].ver)
  /\ pc[e] \in {"backup", "prune"} /\ run[e].cmd = "migrate" =>
       \A p \in Kept(e) : run[e].start[p].ver \in run[e].step .. Target
  /\ pc[e] = "apply" =>
       \A p \in Kept(e) : /\ repo[p].ver \in run[e].step .. Target
                            /\ repo[p].body >= run[e].start[p].body
  /\ pc[e] \in {"index", "snapshot", "validate"} /\ run[e].cmd = "migrate" =>
       \A p \in Kept(e) : Follows(repo[p], run[e].start[p], Target)

\* The backup a migration has taken holds what it found; what it has copied
\* back is what it found.
BackupFits(e) ==
  run[e].cmd = "migrate" /\ run[e].fresh =>
    /\ pc[e] \in {"prune", "apply", "index", "snapshot", "validate", "restore", "copy",
                 "paste"} =>
         /\ HasBackup(run[e].key)
         /\ \A p \in Kept(e) :
              Follows(CopyOf(run[e].key)[p], run[e].start[p], run[e].start[p].ver)
    /\ pc[e] = "prune" => /\ Len(backups) # 0
                          /\ backups[Len(backups)].key = run[e].key
    /\ pc[e] = "copy" =>
         \A p \in Kept(e) \ run[e].todo :
           Follows(repo[p], run[e].start[p], run[e].start[p].ver)
    /\ pc[e] = "paste" =>
         \A p \in Kept(e) \ (run[e].todo \cup run[e].at) :
           Follows(repo[p], run[e].start[p], run[e].start[p].ver)

\* The loops are over, and the validation is of what they made.
Checks(e) == pc[e] = "validate" /\ run[e].cmd # "validate"

\* What the loops have made so far; of the others nothing is derived.
DerivedFits(e) ==
  /\ pc[e] = "index" =>
       \A p \in Kept(e) \ run[e].todo : MadeByCall(e, p, index[p])
  /\ pc[e] = "snapshot" \/ Checks(e) =>
       \A p \in Kept(e) : MadeByCall(e, p, index[p])
  /\ pc[e] = "snapshot" =>
       \A p \in Kept(e) \ run[e].todo :
         snapshot[p] # NoDoc /\ MadeByCall(e, p, snapshot[p])
  /\ Checks(e) =>
       \A p \in Kept(e) : snapshot[p] # NoDoc /\ MadeByCall(e, p, snapshot[p])

Loops(e) ==
  \/ pc[e] \in {"manage", "backup", "prune", "apply"} /\ run[e].cmd = "migrate"
  \/ pc[e] \in {"index", "snapshot"}
  \/ Checks(e)

UnlistedFits(e) ==
  /\ Loops(e) => \A p \in Projects \ Listed(e) : index[p] = NoDoc /\ snapshot[p] = NoDoc
  /\ pc[e] \in {"index", "snapshot"} => run[e].todo \subseteq Listed(e)

\* What a call that is over has left.
OutcomeFits(e) ==
  LET r == run[e]
      back == \/ r.outcome = "rolled_back" /\ r.fresh
              \/ r.outcome \in {"no_backup", "refused"}
  IN  pc[e] = "exit" =>
        /\ r.cmd = "migrate" /\ back =>
             \A p \in Kept(e) : Follows(repo[p], r.start[p], r.start[p].ver)
        /\ r.cmd = "migrate" /\ r.outcome \in {"completed", "up_to_date"} =>
             \A p \in Kept(e) : Follows(repo[p], r.start[p], Target)
        /\ r.cmd = "migrate" /\ r.outcome = "completed" =>
             \A p \in Kept(e) : /\ Follows(index[p], r.start[p], Target)
                                  /\ Follows(snapshot[p], r.start[p], Target)
        /\ r.cmd = "rollback" /\ r.outcome = "restored" =>
             \A p \in Kept(e) : /\ snapshot[p] # NoDoc
                                  /\ index[p].ver = repo[p].ver
                                  /\ snapshot[p].ver = repo[p].ver

\* Nobody is between the two ends of a change of versions.
Settled(e) == \/ pc[e] \in Unstarted \cup {"manage", "backup", "prune", "exit"}
              \/ pc[e] = "validate" /\ run[e].cmd = "validate"

SteadyFits(e) ==
  Settled(e) /\ crashes[e] = 0 /\ ~stuck => \A p \in Projects \ late : Steady(p)

Fits(e) == /\ DocsFit(e) /\ BackupFits(e) /\ DerivedFits(e)
           /\ UnlistedFits(e) /\ OutcomeFits(e) /\ SteadyFits(e)

Inv == Typed /\ Timely /\ \A e \in Engines : Fits(e)

----
(* One engine: what each of its steps does to Fits.                        *)

Numbers(d) == d \in Doc /\ d.ver \in Nat /\ d.body \in Nat

LEMMA Values ==
  ASSUME Typed
  PROVE  /\ \A p \in Projects : Numbers(repo[p]) /\ Numbers(index[p]) /\ Numbers(snapshot[p])
         /\ \A e \in Engines : \A p \in Projects : Numbers(run[e].start[p])
         /\ saves \in Nat
<1>1. \A d \in Doc : Numbers(d)
  BY Docs DEF Numbers
<1>2. /\ repo \in [Projects -> Doc] /\ index \in [Projects -> Doc]
      /\ snapshot \in [Projects -> Doc] /\ saves \in Nat
      /\ \A e \in Engines : run[e] \in Run
  BY DEF Typed, TypeOK
<1>3. \A r \in Run : r.start \in [Projects -> Doc]
  BY DEF Run
<1> QED
  BY <1>1, <1>2, <1>3

\* Documents, what is derived from them and the backups stay: so does Timely.
LEMMA TimelyStays ==
  ASSUME Timely, UNCHANGED <<data, backups, saves, late>>
  PROVE  Timely'
BY DEF Timely, data

\* The files and the call stay.
LEMMA NothingMoves ==
  ASSUME Timely, NEW e \in Engines, Fits(e), UNCHANGED <<data, backups, saves, late, stuck>>,
         pc'[e] = pc[e], run'[e] = run[e], crashes'[e] = crashes[e]
  PROVE  Timely' /\ Fits(e)'
<1>1. UNCHANGED <<repo, index, snapshot>>
  BY DEF data
<1>2. /\ Listed(e)' = Listed(e)
      /\ \A key : HasBackup(key)' = HasBackup(key) /\ CopyOf(key)' = CopyOf(key)
  BY DEF Listed, HasBackup, CopyOf, Kept
<1>3. DocsFit(e)' /\ BackupFits(e)'
  BY <1>1, <1>2 DEF Fits, DocsFit, BackupFits, Kept
<1>4. DerivedFits(e)' /\ UnlistedFits(e)'
  BY <1>1, <1>2 DEF Fits, DerivedFits, UnlistedFits, MadeByCall, Checks, Loops, Kept
<1>5. OutcomeFits(e)' /\ SteadyFits(e)'
  BY <1>1, <1>2 DEF Fits, OutcomeFits, SteadyFits, Steady, Settled, Kept
<1> QED
  BY <1>3, <1>4, <1>5, TimelyStays DEF Fits

\* The files stay, and the call is where it holds nothing of a project.
LEMMA PlainStep ==
  ASSUME Timely, NEW e \in Engines, Fits(e), UNCHANGED <<data, backups, saves, late>>,
         pc'[e] \in Unstarted \/ (pc'[e] = "backup" /\ run'[e].cmd = "backup"),
         crashes'[e] = 0 /\ ~stuck' => Settled(e) /\ crashes[e] = 0 /\ ~stuck
  PROVE  Timely' /\ Fits(e)'
<1>1. UNCHANGED <<repo, index, snapshot>>
  BY DEF data
<1>2. DocsFit(e)' /\ DerivedFits(e)' /\ OutcomeFits(e)' /\ UnlistedFits(e)' /\ BackupFits(e)'
  BY DEF Unstarted, DocsFit, DerivedFits, OutcomeFits, UnlistedFits, BackupFits, Checks, Loops,
     Kept
<1>3. SteadyFits(e)'
  BY <1>1 DEF Fits, SteadyFits, Steady
<1> QED
  BY <1>2, <1>3, TimelyStays DEF Fits

LEMMA LockingFits ==
  ASSUME Inv, NEW e \in Engines, Locking(e) \/ Journal(e) \/ Crash(e)
                                 \/ \E cmd \in Commands[e] : Start(e, cmd)
  PROVE  Timely' /\ Fits(e)'
<1>1. /\ UNCHANGED <<data, backups, saves, late>> /\ stuck' = stuck /\ Timely /\ Fits(e) /\ pc[e] \in Phases
      /\ Equipped(pc[e], run[e])
  BY Remembered DEF Locking, LookAtLock, UnlinkLock, CreateLock, WriteLock, Judge, Leave,
     Journal, Crash, Start, Inv, bounds
<1>2. CASE Crash(e)
  <2>1. crashes'[e] = crashes[e] + 1 /\ crashes[e] \in Nat /\ pc'[e] = "idle"
    BY <1>2 DEF Crash, Gives, Goto, Inv, Typed, TypeOK
  <2>2. crashes'[e] # 0
    BY <2>1
  <2>3. crashes'[e] = 0 /\ ~stuck' => Settled(e) /\ crashes[e] = 0 /\ ~stuck
    BY <2>2, Zenon
  <2>4. pc'[e] \in Unstarted \/ (pc'[e] = "backup" /\ run'[e].cmd = "backup")
    BY <2>1 DEF Unstarted
  <2> QED
    BY <1>1, <2>3, <2>4, PlainStep, Zenon
<1>3. CASE Locking(e) \/ Journal(e)
  <2>1. crashes' = crashes /\ pc[e] \in Unstarted \cup {"exit"}
    BY <1>3 DEF Locking, LookAtLock, UnlinkLock, CreateLock, WriteLock, Judge, Leave, Journal,
       bounds, Unstarted
  <2>2. pc'[e] \in Unstarted
    <3>1. CASE Judge(e) /\ ~Gives(e)
      <4>1. run[e].cmd \in {"migrate", "rollback"}
        BY <1>1, <3>1 DEF Judge, Equipped
      <4> QED
        BY <3>1, <4>1 DEF Judge, Goto, FirstPhase, Unstarted, Inv, Typed, TypeOK
    <3>2. CASE Gives(e)
      BY <3>2 DEF Gives, Goto, Unstarted, Inv, Typed, TypeOK
    <3>3. CASE ~Judge(e) /\ ~Gives(e)
      BY <1>3, <3>3 DEF Locking, LookAtLock, UnlinkLock, CreateLock, WriteLock, Leave, Journal,
         Goto, Unstarted, Inv, Typed, TypeOK
    <3> QED
      BY <3>1, <3>2, <3>3
  <2>3. crashes'[e] = 0 /\ ~stuck' => Settled(e) /\ crashes[e] = 0 /\ ~stuck
    BY <1>1, <2>1, Zenon DEF Settled
  <2>4. pc'[e] \in Unstarted \/ (pc'[e] = "backup" /\ run'[e].cmd = "backup")
    BY <2>2, Zenon
  <2> QED
    BY <1>1, <2>3, <2>4, PlainStep, Zenon
<1>4. ASSUME NEW cmd \in Commands[e], Start(e, cmd)
      PROVE  Timely' /\ Fits(e)'
  <2>1. crashes' = crashes /\ pc[e] = "idle"
    BY <1>4 DEF Start
  <2>2. pc'[e] \in {"acquire", "detect"} \/ (pc'[e] = "backup" /\ run'[e].cmd = "backup")
    <3>1. PICK key \in IF cmd = "backup" THEN Keys ELSE {0},
               guarded \in IF cmd \in {"migrate", "rollback"} THEN BOOLEAN ELSE {FALSE} :
            /\ run' = [run EXCEPT ![e] = [NoRun EXCEPT !.cmd = cmd, !.key = key,
                                                      !.guarded = guarded]]
            /\ Goto(e, IF guarded THEN "acquire" ELSE FirstPhase(cmd))
      BY <1>4 DEF Start
    <3>2. run'[e].cmd = cmd
      BY <3>1 DEF NoRun, Inv, Typed, TypeOK
    <3> DEFINE phase == IF guarded THEN "acquire" ELSE FirstPhase(cmd)
    <3>3. pc'[e] = phase
      BY <3>1 DEF Goto, Inv, Typed, TypeOK
    <3>4. phase \in {"acquire", "backup", "detect"} /\ (phase = "backup" => cmd = "backup")
      BY <3>1 DEF FirstPhase
    <3> HIDE DEF phase
    <3> QED
      BY <3>2, <3>3, <3>4
  <2>3. crashes'[e] = 0 /\ ~stuck' => Settled(e) /\ crashes[e] = 0 /\ ~stuck
    <3>1. Settled(e)
      BY <2>1 DEF Settled, Unstarted
    <3> QED
      BY <1>1, <2>1, <3>1, Zenon
  <2>4. pc'[e] \in Unstarted \/ (pc'[e] = "backup" /\ run'[e].cmd = "backup")
    BY <2>2 DEF Unstarted
  <2> QED
    BY <1>1, <2>3, <2>4, PlainStep, Zenon
<1> QED
  BY <1>2, <1>3, <1>4

\* An agent saves a document: it is newer than all that there were, and keeps
\* the version, or is a project's first, unless the project joins those hit late.
LEMMA SavesFit ==
  ASSUME Inv, NEW e \in Engines, NEW p \in Projects, NEW v \in Versions, Save(p, v)
  PROVE  Timely' /\ Fits(e)'
<1>1. /\ UNCHANGED <<index, snapshot, backups, pc, run, crashes, stuck>> /\ saves' = saves + 1
      /\ Timely /\ Fits(e) /\ repo \in [Projects -> Doc]
      /\ repo' = [repo EXCEPT ![p] = [ver |-> v, body |-> saves + 1]]
      /\ late' = IF v = Keeps(p) THEN late ELSE late \cup {p}
  BY DEF Save, Inv, Typed, TypeOK
<1>2. /\ Listed(e)' = Listed(e)
      /\ \A key : HasBackup(key)' = HasBackup(key) /\ CopyOf(key)' = CopyOf(key)
  BY <1>1 DEF Listed, HasBackup, CopyOf, Kept
<1>3. \A q \in Projects : /\ Numbers(repo[q]) /\ Numbers(index[q]) /\ Numbers(snapshot[q])
                          /\ Numbers(run[e].start[q]) /\ repo[q].body <= saves
  BY <1>1, Values DEF Inv, Timely
<1>4. saves \in Nat
  BY Values DEF Inv
<1>5. /\ \A q \in Projects \ {p} : repo'[q] = repo[q]
      /\ repo'[p] # NoDoc /\ repo'[p].ver = v /\ repo'[p].body = saves + 1
  <2>1. repo'[p] = [ver |-> v, body |-> saves + 1]
    BY <1>1
  <2>2. repo'[p].ver = v /\ repo'[p].body = saves + 1
    BY <2>1
  <2>3. repo'[p] # NoDoc
    BY <1>4, <2>2 DEF NoDoc
  <2> QED
    BY <1>1, <2>2, <2>3
<1>19. /\ late \subseteq late' /\ Kept(e)' \subseteq Kept(e)
       /\ p \notin late' => v = Keeps(p)
  <2>1. late \subseteq late' /\ (p \notin late' => v = Keeps(p))
    BY <1>1
  <2> QED
    BY <1>2, <2>1 DEF Kept
<1>20. \A q \in Projects \ late' : repo[q] # NoDoc => repo'[q].ver = repo[q].ver
  BY <1>5, <1>19 DEF Keeps, Present
<1>6. \A q \in Projects : /\ repo'[q].body >= repo[q].body
                          /\ repo'[q].body \in Nat
  BY <1>3, <1>4, <1>5 DEF Numbers
<1>7. \A q \in Kept(e) : run[e].start[q].ver \in Versions
  BY <1>3, Docs DEF Listed, Numbers, Kept
<1>8. \A q \in Projects : repo[q] = NoDoc => /\ index[q] = NoDoc /\ snapshot[q] = NoDoc
  BY <1>1 DEF Timely
<1>9. Timely'
  <2>1. \A q \in Projects : repo'[q].body <= saves'
    BY <1>1, <1>3, <1>4, <1>5 DEF Numbers
  <2>2. \A q \in Projects : repo'[q] = NoDoc => index'[q] = NoDoc /\ snapshot'[q] = NoDoc
    BY <1>1, <1>5, <1>8
  <2>3. \A k \in DOMAIN backups : \A q \in Projects : backups[k].copy[q].body <= saves + 1
    <3> TAKE k \in DOMAIN backups
    <3> TAKE q \in Projects
    <3>1. backups[k].copy \in [Projects -> Doc]
      <4>1. backups \in Seq(Backups)
        BY DEF Inv, Typed, TypeOK, Backups
      <4>2. backups[k] \in Backups
        BY <4>1
      <4> QED
        BY <4>2 DEF Backups
    <3>2. backups[k].copy[q].body \in Nat
      BY <3>1, Docs
    <3>3. backups[k].copy[q].body <= saves
      BY <1>1 DEF Timely
    <3> QED
      BY <1>4, <3>2, <3>3
  <2> QED
    BY <1>1, <2>1, <2>2, <2>3 DEF Timely
<1>10. \A q \in Kept(e)' : \A ver \in Versions :
         Follows(repo[q], run[e].start[q], ver) => Follows(repo'[q], run[e].start[q], ver)
  <2> TAKE q \in Kept(e)'
  <2> TAKE ver \in Versions
  <2> HAVE Follows(repo[q], run[e].start[q], ver)
  <2>1. q \in Projects /\ repo[q] # NoDoc
    BY <1>2, Docs DEF Follows, Listed, Versions, Kept
  <2>2. q \in Projects \ late'
    BY <2>1 DEF Kept
  <2>3. repo'[q].ver = repo[q].ver
    BY <1>20, <2>1, <2>2
  <2> QED
    BY <1>3, <1>6, <2>1, <2>3 DEF Follows, Numbers
<1>11. Target \in Versions
  BY DEF Versions
<1>12. DocsFit(e)'
  <2>1. pc[e] = "apply" =>
          \A q \in Kept(e)' : /\ repo'[q].ver \in run[e].step .. Target
                               /\ repo'[q].body >= run[e].start[q].body
    <3> HAVE pc[e] = "apply"
    <3> TAKE q \in Kept(e)'
    <3>1. q \in Projects /\ repo[q].ver \in run[e].step .. Target /\ run[e].step \in Keys
          /\ repo[q].body >= run[e].start[q].body
      BY <1>1, Remembered DEF Fits, DocsFit, Listed, Inv, Equipped, Kept
    <3>2. repo[q] # NoDoc
      BY <3>1, Docs DEF Keys
    <3>3. q \notin late'
      BY DEF Kept
    <3>4. repo'[q].ver = repo[q].ver
      BY <1>20, <3>1, <3>2, <3>3
    <3>5. run[e].start[q].body \in Nat /\ repo[q].body \in Nat
      BY <1>3, <3>1 DEF Numbers
    <3> QED
      BY <1>6, <3>1, <3>4, <3>5
  <2> QED
    BY <1>1, <1>2, <1>7, <1>10, <1>11, <2>1 DEF Fits, DocsFit, Kept
<1>13. BackupFits(e)'
  BY <1>1, <1>2, <1>7, <1>10 DEF Fits, BackupFits, Kept
<1>14. \A q \in Projects \ late' : \A made \in {index[q], snapshot[q]} :
         (made = NoDoc \/ made.ver = repo[q].ver) => (made = NoDoc \/ made.ver = repo'[q].ver)
  BY <1>8, <1>20
<1>15. \A q \in Projects \ late' :
                           /\ MadeByCall(e, q, index[q]) => MadeByCall(e, q, index[q])'
                           /\ MadeByCall(e, q, snapshot[q]) => MadeByCall(e, q, snapshot[q])'
  BY <1>1, <1>14 DEF MadeByCall
<1>16. DerivedFits(e)' /\ UnlistedFits(e)'
  <2>1. UnlistedFits(e)'
    BY <1>1, <1>2 DEF Fits, UnlistedFits, Loops, Checks
  <2>2. Kept(e)' \subseteq Kept(e) /\ \A q \in Kept(e)' : q \in Projects \ late'
    BY <1>2, <1>19 DEF Listed, Kept
  <2>3. DerivedFits(e)'
    BY <1>1, <1>15, <2>2 DEF Fits, DerivedFits, Checks
  <2> QED
    BY <2>1, <2>3
<1>17. OutcomeFits(e)'
  <2> DEFINE kept == Listed(e) \ late'
             r == run[e]
             back == \/ r.outcome = "rolled_back" /\ r.fresh
                     \/ r.outcome \in {"no_backup", "refused"}
  <2>1. Kept(e)' = kept
    BY <1>2 DEF Kept
  <2>2. \A q \in kept : /\ q \in Projects \ late' /\ q \in Kept(e)
                        /\ snapshot[q] # NoDoc => repo'[q].ver = repo[q].ver
    BY <1>8, <1>19, <1>20 DEF Listed, Kept
  <2>3. ASSUME NEW q \in kept
        PROVE  /\ Follows(repo[q], r.start[q], r.start[q].ver)
                    => Follows(repo'[q], r.start[q], r.start[q].ver)
               /\ Follows(repo[q], r.start[q], Target) => Follows(repo'[q], r.start[q], Target)
    <3>1. PICK ver \in Versions : ver = r.start[q].ver
      BY <1>7, <2>2
    <3>2. Follows(repo[q], r.start[q], ver) => Follows(repo'[q], r.start[q], ver)
      BY <1>10, <2>1
    <3>3. Follows(repo[q], r.start[q], Target) => Follows(repo'[q], r.start[q], Target)
      BY <1>10, <1>11, <2>1
    <3> QED
      BY <3>1, <3>2, <3>3
  <2>4. OutcomeFits(e) /\ UNCHANGED <<index, snapshot, pc, run>>
    BY <1>1 DEF Fits
  <2> HIDE DEF kept
  <2>5. pc[e] = "exit" /\ r.cmd = "migrate" /\ back =>
          \A q \in kept : Follows(repo'[q], r.start[q], r.start[q].ver)
    BY <2>2, <2>3, <2>4 DEF OutcomeFits
  <2>6. pc[e] = "exit" /\ r.cmd = "migrate" /\ r.outcome \in {"completed", "up_to_date"} =>
          \A q \in kept : Follows(repo'[q], r.start[q], Target)
    BY <2>2, <2>3, <2>4 DEF OutcomeFits
  <2>7. pc[e] = "exit" /\ r.cmd = "migrate" /\ r.outcome = "completed" =>
          \A q \in kept : /\ Follows(index[q], r.start[q], Target)
                          /\ Follows(snapshot[q], r.start[q], Target)
    BY <2>2, <2>4 DEF OutcomeFits
  <2>8. pc[e] = "exit" /\ r.cmd = "rollback" /\ r.outcome = "restored" =>
          \A q \in kept : /\ snapshot[q] # NoDoc /\ index[q].ver = repo'[q].ver
                          /\ snapshot[q].ver = repo'[q].ver
    BY <2>2, <2>4 DEF OutcomeFits
  <2> QED
    BY <2>1, <2>4, <2>5, <2>6, <2>7, <2>8 DEF OutcomeFits, Follows
<1>18. SteadyFits(e)'
  BY <1>1, <1>14, <1>19 DEF Fits, SteadyFits, Steady, Settled
<1> QED
  BY <1>9, <1>12, <1>13, <1>16, <1>17, <1>18 DEF Fits

\* What is known of a call before each of its steps.
LEMMA Known ==
  ASSUME Inv, NEW e \in Engines
  PROVE  /\ Timely /\ DocsFit(e) /\ BackupFits(e) /\ DerivedFits(e) /\ UnlistedFits(e)
         /\ OutcomeFits(e) /\ SteadyFits(e) /\ Equipped(pc[e], run[e])
         /\ pc \in [Engines -> Phases] /\ run \in [Engines -> Run] /\ run[e] \in Run
         /\ repo \in [Projects -> Doc] /\ backups \in Seq(Backups)
BY DEF Inv, Fits, Typed, TypeOK, Backups

\* The place and the variables a call goes on with.
LEMMA Went ==
  ASSUME Inv, NEW e \in Engines, NEW phase, NEW r, Goto(e, phase),
         run' = [run EXCEPT ![e] = r]
  PROVE  /\ pc'[e] = phase /\ run'[e] = r
         /\ Listed(e)' = {p \in Projects : r.start[p] # NoDoc}
<1>1. pc'[e] = phase /\ run'[e] = r
  BY DEF Inv, Typed, TypeOK, Goto
<1> QED
  BY <1>1 DEF Listed, Kept

\* A call that found the documents as they are.
LEMMA DetectionFits ==
  ASSUME Inv, NEW e \in Engines, EngineDetect(e) \/ (pc[e] = "detect" /\ DetectFails(e))
  PROVE  Timely' /\ Fits(e)'
<1>1. /\ UNCHANGED <<data, backups, saves, late>> /\ UNCHANGED <<repo, index, snapshot>>
      /\ stuck' = stuck /\ crashes' = crashes /\ pc[e] = "detect"
  BY DEF EngineDetect, DetectFails, data, bounds
<1>2. \E r, phase : /\ run' = [run EXCEPT ![e] = r] /\ Goto(e, phase)
                    /\ r.start = repo /\ r.cmd = run[e].cmd
                    /\ \/ phase = "exit" /\ r.cmd = "detect"
                       \/ phase = "exit" /\ r.outcome = "refused"
                       \/ phase = "validate" /\ r.cmd = "validate"
                       \/ phase = "manage" /\ r.cmd = "migrate"
                       \/ phase = "restore" /\ r.cmd = "rollback"
  <2> DEFINE found == [run[e] EXCEPT !.start = repo]
             refused == [found EXCEPT !.outcome = "refused"]
             restoring == [found EXCEPT !.key = mem[e].backup]
  <2>1. run[e] \in Run
    BY Known
  <2>2. /\ found.start = repo /\ found.cmd = run[e].cmd /\ found.outcome = run[e].outcome
        /\ refused.start = repo /\ refused.cmd = run[e].cmd /\ refused.outcome = "refused"
        /\ restoring.start = repo /\ restoring.cmd = run[e].cmd
    BY <2>1 DEF Run
  <2>3. \/ run' = [run EXCEPT ![e] = refused] /\ Goto(e, "exit")
        \/ run' = [run EXCEPT ![e] = found] /\ run[e].cmd = "detect" /\ Goto(e, "exit")
        \/ run' = [run EXCEPT ![e] = found] /\ run[e].cmd = "validate" /\ Goto(e, "validate")
        \/ run' = [run EXCEPT ![e] = found] /\ run[e].cmd = "migrate" /\ Goto(e, "manage")
        \/ run' = [run EXCEPT ![e] = restoring] /\ run[e].cmd = "rollback" /\ Goto(e, "restore")
    BY <1>1 DEF EngineDetect, DetectFails, Detected
  <2> HIDE DEF found, refused, restoring
  <2> QED
    BY <2>2, <2>3, Zenon
<1>3. PICK r, phase : /\ run' = [run EXCEPT ![e] = r] /\ Goto(e, phase)
                      /\ r.start = repo /\ r.cmd = run[e].cmd
                      /\ \/ phase = "exit" /\ r.cmd = "detect"
                         \/ phase = "exit" /\ r.outcome = "refused"
                         \/ phase = "validate" /\ r.cmd = "validate"
                         \/ phase = "manage" /\ r.cmd = "migrate"
                         \/ phase = "restore" /\ r.cmd = "rollback"
  BY <1>2, Zenon
<1>4. pc'[e] = phase /\ run'[e] = r /\ Listed(e)' = Present
  <2>1. /\ pc'[e] = phase /\ run'[e] = r
        /\ Listed(e)' = {p \in Projects : r.start[p] # NoDoc}
    BY <1>3, Went, Zenon
  <2> QED
    BY <1>3, <2>1 DEF Present
<1>5. \A p \in Projects : Follows(repo[p], repo[p], repo[p].ver)
  BY Values DEF Inv, Numbers, Follows
<1>6. DocsFit(e)' /\ BackupFits(e)'
  BY <1>1, <1>3, <1>4, <1>5 DEF DocsFit, BackupFits, Present, Kept
<1>7. DerivedFits(e)' /\ UnlistedFits(e)'
  <2>1. \A p \in Projects \ Present : index[p] = NoDoc /\ snapshot[p] = NoDoc
    BY Known DEF Timely, Present
  <2> QED
    BY <1>1, <1>3, <1>4, <2>1 DEF DerivedFits, UnlistedFits, Checks, Loops, Kept
<1>8. OutcomeFits(e)'
  BY <1>1, <1>3, <1>4, <1>5 DEF OutcomeFits, Present, Kept
<1>9. SteadyFits(e)'
  <2>1. Settled(e)
    BY <1>1 DEF Settled, Unstarted
  <2> QED
    BY <1>1, <2>1, Known DEF SteadyFits, Steady
<1> QED
  BY <1>1, <1>6, <1>7, <1>8, <1>9, Known, TimelyStays DEF Fits

\* A migration that only looks at the versions, copies the documents or fails to.
LEMMA CallFits ==
  ASSUME Inv, NEW e \in Engines, NEW phase, NEW r, Goto(e, phase),
         run' = [run EXCEPT ![e] = r], r.start = run[e].start, r.cmd = run[e].cmd,
         UNCHANGED <<data, backups, saves, late>>, crashes' = crashes, stuck' = stuck,
         pc[e] \in {"manage", "backup", "prune"},
         \/ phase = "exit" /\ r.cmd = "backup"
         \/ phase = "exit" /\ r.outcome \in {"refused", "no_backup"}
         \/ /\ phase = "exit" /\ r.outcome = "up_to_date"
            /\ \A p \in Kept(e) : repo[p].ver = Target
         \/ /\ phase = "backup" /\ r.cmd = "migrate" /\ pc[e] = "manage"
            /\ \A p \in Kept(e) : run[e].start[p].ver \in r.step .. Target
  PROVE  Timely' /\ Fits(e)'
<1>1. UNCHANGED <<repo, index, snapshot>>
  BY DEF data
<1>2. /\ pc'[e] = phase /\ run'[e] = r /\ Listed(e)' = Listed(e)
  <2>1. /\ pc'[e] = phase /\ run'[e] = r
        /\ Listed(e)' = {p \in Projects : r.start[p] # NoDoc}
    BY Went, Zenon
  <2> QED
    BY <2>1 DEF Listed, Kept
<1>3. /\ run[e].cmd = "migrate" \/ (phase = "exit" /\ r.cmd = "backup")
      /\ run[e].cmd = "migrate" =>
           \A p \in Kept(e) : Follows(repo[p], run[e].start[p], run[e].start[p].ver)
  BY Known DEF DocsFit, Equipped, Kept
<1>4. DocsFit(e)' /\ BackupFits(e)'
  BY <1>1, <1>2, <1>3 DEF DocsFit, BackupFits, Kept
<1>5. DerivedFits(e)' /\ UnlistedFits(e)'
  BY <1>1, <1>2, <1>3, Known DEF DerivedFits, UnlistedFits, Checks, Loops, Kept
<1>6. OutcomeFits(e)'
  BY <1>1, <1>2, <1>3 DEF OutcomeFits, Follows, Kept
<1>7. SteadyFits(e)'
  <2>1. Settled(e)
    BY DEF Settled
  <2> QED
    BY <1>1, <2>1, Known DEF SteadyFits, Steady
<1> QED
  BY <1>4, <1>5, <1>6, <1>7, Known, TimelyStays DEF Fits

LEMMA ManagerFits ==
  ASSUME Inv, NEW e \in Engines,
         ManagerDetect(e) \/ (pc[e] = "manage" /\ DetectFails(e)) \/ BackupFails(e)
  PROVE  Timely' /\ Fits(e)'
<1>1. /\ UNCHANGED <<data, backups, saves, late>> /\ stuck' = stuck /\ crashes' = crashes
      /\ pc[e] \in {"manage", "backup", "prune"} /\ run[e] \in Run
  BY Known DEF ManagerDetect, DetectFails, BackupFails, bounds
<1>2. CASE pc[e] = "manage" /\ DetectFails(e)
  <2> DEFINE r == [run[e] EXCEPT !.outcome = "refused"]
  <2>1. r.start = run[e].start /\ r.cmd = run[e].cmd /\ r.outcome = "refused"
    BY <1>1 DEF Run
  <2>2. Goto(e, "exit") /\ run' = [run EXCEPT ![e] = r]
    BY <1>2 DEF DetectFails, Detected
  <2> HIDE DEF r
  <2> QED
    BY <1>1, <2>1, <2>2, CallFits
<1>3. CASE BackupFails(e)
  <2> DEFINE r == [run[e] EXCEPT !.outcome = "no_backup", !.todo = {}]
  <2>1. r.start = run[e].start /\ r.cmd = run[e].cmd /\ r.outcome = "no_backup"
    BY <1>1 DEF Run
  <2>2. Goto(e, "exit") /\ run' = [run EXCEPT ![e] = r]
    BY <1>1, <1>3, Known DEF BackupFails, Ends
  <2> HIDE DEF r
  <2> QED
    BY <1>1, <2>1, <2>2, CallFits
<1>4. CASE ManagerDetect(e)
  <2> DEFINE v == Current(Listed(e))
             up == [run[e] EXCEPT !.outcome = "up_to_date"]
             on == [run[e] EXCEPT !.step = v, !.key = v]
  <2>1. /\ pc[e] = "manage" /\ run[e].cmd = "migrate"
        /\ \A p \in Kept(e) : Follows(repo[p], run[e].start[p], run[e].start[p].ver)
    BY <1>4, Known DEF ManagerDetect, Equipped, DocsFit, Kept
  <2>2. \A p \in Kept(e) : repo[p] # NoDoc /\ run[e].start[p].ver = repo[p].ver
    <3> TAKE p \in Kept(e)
    <3>1. p \in Projects /\ run[e].start[p] \in Doc /\ run[e].start[p] # NoDoc
      BY <1>1 DEF Listed, Run, Kept
    <3>2. run[e].start[p].ver # 0 /\ run[e].start[p].ver = repo[p].ver
      BY <2>1, <3>1, Docs DEF Versions, Follows
    <3> QED
      BY <3>2, Docs
  <2>3. \A p \in Kept(e) : p \in Present
    BY <2>2 DEF Listed, Present, Kept
  <2>4. v \in 1 .. Target /\ \A p \in Kept(e) : repo[p].ver \in v .. Target
    <3>1. Listed(e) \in SUBSET Projects /\ ~FutureSeen(Listed(e)) /\ Typed
      BY <1>4 DEF ManagerDetect, Listed, Inv
    <3>2. v \in 1 .. Target /\ \A p \in Listed(e) \cap Present : repo[p].ver \in v .. Target
      BY <3>1, CurrentVersion
    <3>3. \A p \in Kept(e) : p \in Listed(e) \cap Present
      BY <2>3 DEF Kept
    <3> QED
      BY <3>2, <3>3
  <2>5. /\ up.start = run[e].start /\ up.cmd = run[e].cmd /\ up.outcome = "up_to_date"
        /\ on.start = run[e].start /\ on.cmd = run[e].cmd /\ on.step = v
    BY <1>1 DEF Run
  <2>6. \/ v = Target /\ Goto(e, "exit") /\ run' = [run EXCEPT ![e] = up]
        \/ Goto(e, "backup") /\ run' = [run EXCEPT ![e] = on]
    BY <1>4 DEF ManagerDetect, Detected
  <2> HIDE DEF v, up, on
  <2>7. v = Target => \A p \in Kept(e) : repo[p].ver = Target
    BY <2>4
  <2>8. \A p \in Kept(e) : run[e].start[p].ver \in v .. Target
    BY <2>2, <2>4
  <2>9. CASE v = Target /\ Goto(e, "exit") /\ run' = [run EXCEPT ![e] = up]
    BY <1>1, <2>5, <2>7, <2>9, CallFits
  <2>10. CASE Goto(e, "backup") /\ run' = [run EXCEPT ![e] = on]
    BY <1>1, <2>1, <2>5, <2>8, <2>10, CallFits
  <2> QED
    BY <2>6, <2>9, <2>10
<1> QED
  BY <1>2, <1>3, <1>4

\* The copy under a key is that of the one directory of the key.
LEMMA OneCopy ==
  ASSUME NEW dirs, OneOfEachKey(dirs), NEW i \in DOMAIN dirs
  PROVE  (CHOOSE b \in {dirs[j] : j \in DOMAIN dirs} : b.key = dirs[i].key) = dirs[i]
<1> DEFINE all == {dirs[j] : j \in DOMAIN dirs}
           b == CHOOSE b \in all : b.key = dirs[i].key
<1>1. dirs[i] \in all
  OBVIOUS
<1>2. b \in all /\ b.key = dirs[i].key
  BY <1>1, Zenon
<1>3. PICK j \in DOMAIN dirs : b = dirs[j]
  BY <1>2
<1>4. j = i
  BY <1>2, <1>3 DEF OneOfEachKey
<1> QED
  BY <1>3, <1>4

\* The newest directory is published under the key.
LEMMA Newest ==
  ASSUME NEW key, OneOfEachKey(backups), Len(backups) \in DOMAIN backups,
         backups[Len(backups)].key = key
  PROVE  HasBackup(key) /\ CopyOf(key) = backups[Len(backups)].copy
<1> DEFINE all == {backups[j] : j \in DOMAIN backups}
<1>1. (CHOOSE b \in all : b.key = backups[Len(backups)].key) = backups[Len(backups)]
  BY OneCopy
<1>2. CopyOf(key) = (CHOOSE b \in all : b.key = backups[Len(backups)].key).copy
  BY DEF CopyOf
<1> HIDE DEF all
<1> QED
  BY <1>1, <1>2 DEF HasBackup

LEMMA NewestThen ==
  ASSUME NEW key, OneOfEachKey(backups'), Len(backups') \in DOMAIN backups',
         backups'[Len(backups')].key = key
  PROVE  HasBackup(key)' /\ CopyOf(key)' = backups'[Len(backups')].copy
<1> DEFINE all == {backups'[j] : j \in DOMAIN backups'}
<1>1. (CHOOSE b \in all : b.key = backups'[Len(backups')].key) = backups'[Len(backups')]
  BY OneCopy
<1>2. CopyOf(key)' = (CHOOSE b \in all : b.key = backups'[Len(backups')].key).copy
  BY DEF CopyOf
<1> HIDE DEF all
<1> QED
  BY <1>1, <1>2 DEF HasBackup

\* The copies are there before the first step.
LEMMA PublishingFits ==
  ASSUME Inv, NEW e \in Engines, TakeBackup(e), ~HasBackup(run[e].key)
  PROVE  Timely' /\ Fits(e)'
<1> DEFINE r == [run[e] EXCEPT !.fresh = TRUE]
<1>1. /\ UNCHANGED <<data, saves, late>> /\ UNCHANGED <<repo, index, snapshot>>
      /\ stuck' = stuck /\ crashes' = crashes /\ pc[e] = "backup" /\ run[e] \in Run
      /\ run[e].key \in Keys
      /\ backups' = Append(backups, [key |-> run[e].key, copy |-> repo])
  BY Known DEF TakeBackup, Equipped, data, bounds
<1>2. PICK k \in Keys : k = run[e].key
  BY <1>1
<1>3. /\ r.start = run[e].start /\ r.cmd = run[e].cmd /\ r.key = k /\ r.step = run[e].step
  BY <1>1, <1>2 DEF Run
<1>4. pc'[e] = "prune" /\ run'[e] = r /\ Listed(e)' = Listed(e)
  <2>1. run' = [run EXCEPT ![e] = r] /\ Goto(e, "prune")
    BY <1>1, Known DEF TakeBackup
  <2> HIDE DEF r
  <2>2. /\ pc'[e] = "prune" /\ run'[e] = r /\ Listed(e)' = {p \in Projects : r.start[p] # NoDoc}
    BY <2>1, Went, Zenon
  <2> QED
    BY <1>3, <2>2 DEF Listed
<1> HIDE DEF r
<1>5. /\ backups' \in Seq(Backups) /\ OneOfEachKey(backups')
      /\ Len(backups') = Len(backups) + 1
      /\ backups'[Len(backups')] = [key |-> k, copy |-> repo]
      /\ \A i \in DOMAIN backups' : \/ i = Len(backups')
                                    \/ i \in DOMAIN backups /\ backups'[i] = backups[i]
  BY <1>1, <1>2, Publishing DEF Inv
<1>6. Len(backups') \in DOMAIN backups' /\ Len(backups') # 0
  BY <1>5, Known
<1>7. HasBackup(k)' /\ CopyOf(k)' = repo
  <2>1. backups'[Len(backups')].key = k /\ backups'[Len(backups')].copy = repo
    BY <1>5
  <2> QED
    BY <1>5, <1>6, <2>1, NewestThen
<1>8. Timely'
  <2>1. ASSUME NEW i \in DOMAIN backups', NEW p \in Projects
        PROVE  backups'[i].copy[p].body <= saves
    BY <1>5, Known DEF Timely
  <2> QED
    BY <1>1, <2>1, Known DEF Timely
<1>9. run[e].cmd = "migrate" =>
        \A p \in Kept(e) : /\ Follows(repo[p], run[e].start[p], run[e].start[p].ver)
                           /\ run[e].start[p].ver \in run[e].step .. Target
  BY <1>1, Known DEF DocsFit
<1>10. DocsFit(e)'
  BY <1>1, <1>3, <1>4, <1>9 DEF DocsFit, Kept
<1>11. BackupFits(e)'
  <2>1. HasBackup(run[e].key)' = HasBackup(k)' /\ CopyOf(run[e].key)' = CopyOf(k)'
    BY <1>3, <1>4 DEF HasBackup, CopyOf
  <2>2. backups'[Len(backups')].key = run'[e].key
    BY <1>3, <1>4, <1>5
  <2> QED
    BY <1>1, <1>3, <1>4, <1>6, <1>7, <1>9, <2>1, <2>2 DEF BackupFits, Kept
<1>12. DerivedFits(e)' /\ UnlistedFits(e)'
  BY <1>1, <1>3, <1>4, Known DEF DerivedFits, UnlistedFits, Checks, Loops, Kept
<1>13. OutcomeFits(e)' /\ SteadyFits(e)'
  BY <1>1, <1>4, Known DEF OutcomeFits, SteadyFits, Steady, Settled
<1> QED
  BY <1>8, <1>10, <1>11, <1>12, <1>13 DEF Fits

\* The call goes on with the same backup.
LEMMA SameBackup ==
  ASSUME NEW e \in Engines, backups' = backups, run'[e].key = run[e].key
  PROVE  /\ HasBackup(run[e].key)' = HasBackup(run[e].key)
         /\ CopyOf(run[e].key)' = CopyOf(run[e].key)
BY DEF HasBackup, CopyOf

\* create returns what it has taken, or what it has found.
LEMMA BackedFits ==
  ASSUME Inv, NEW e \in Engines, Backed(e), UNCHANGED <<data, backups, saves, late>>,
         UNCHANGED <<stuck, crashes>>, NEW fresh \in BOOLEAN,
         run' = [run EXCEPT ![e].fresh = fresh],
         \/ pc[e] = "backup" /\ ~fresh
         \/ pc[e] = "prune" /\ fresh = run[e].fresh
  PROVE  Timely' /\ Fits(e)'
<1> DEFINE r == [run[e] EXCEPT !.fresh = fresh]
           phase == IF run[e].cmd = "migrate" THEN "apply" ELSE "exit"
<1>1. /\ UNCHANGED <<repo, index, snapshot>> /\ pc[e] \in {"backup", "prune"}
      /\ run[e] \in Run /\ run[e].cmd \in {"migrate", "backup"}
  BY Known DEF Equipped, data
<1>2. /\ r.start = run[e].start /\ r.cmd = run[e].cmd /\ r.key = run[e].key
      /\ r.step = run[e].step /\ r.fresh = fresh
  BY <1>1 DEF Run
<1>3. pc'[e] = phase /\ run'[e] = r /\ Listed(e)' = Listed(e)
  <2>1. run' = [run EXCEPT ![e] = r] /\ Goto(e, phase)
    BY <1>1, Known DEF Backed
  <2> HIDE DEF r, phase
  <2>2. /\ pc'[e] = phase /\ run'[e] = r /\ Listed(e)' = {p \in Projects : r.start[p] # NoDoc}
    BY <2>1, Went, Zenon
  <2> QED
    BY <1>2, <2>2 DEF Listed
<1> HIDE DEF r
<1>4. CASE run[e].cmd = "backup"
  <2>1. pc'[e] = "exit" /\ run'[e].cmd = "backup"
    BY <1>2, <1>3, <1>4
  <2>2. DocsFit(e)' /\ BackupFits(e)' /\ DerivedFits(e)' /\ UnlistedFits(e)' /\ OutcomeFits(e)'
    BY <2>1 DEF DocsFit, BackupFits, DerivedFits, UnlistedFits, OutcomeFits, Checks, Loops
  <2>3. Settled(e)
    BY <1>1 DEF Settled
  <2>4. SteadyFits(e)'
    BY <1>1, <2>3, Known DEF SteadyFits, Steady
  <2> QED
    BY <2>2, <2>4, Known, TimelyStays DEF Fits
<1>5. CASE run[e].cmd = "migrate"
  <2>1. pc'[e] = "apply"
    BY <1>3, <1>5
  <2>2. \A p \in Kept(e) : /\ Follows(repo[p], run[e].start[p], run[e].start[p].ver)
                           /\ run[e].start[p].ver \in run[e].step .. Target
    BY <1>1, <1>5, Known DEF DocsFit
  <2>3. DocsFit(e)'
    BY <1>1, <1>2, <1>3, <2>1, <2>2 DEF DocsFit, Follows, Kept
  <2>4. BackupFits(e)'
    <3>1. run'[e].key = run[e].key
      BY <1>2, <1>3
    <3>2. run'[e].fresh => pc[e] = "prune" /\ run[e].fresh
      BY <1>2, <1>3
    <3> QED
      BY <1>1, <1>2, <1>3, <1>5, <2>1, <3>1, <3>2, Known, SameBackup DEF BackupFits, Kept
  <2>5. DerivedFits(e)' /\ UnlistedFits(e)'
    BY <1>1, <1>2, <1>3, <1>5, <2>1, Known DEF DerivedFits, UnlistedFits, Checks, Loops
  <2>6. OutcomeFits(e)' /\ SteadyFits(e)'
    BY <2>1 DEF OutcomeFits, SteadyFits, Settled, Unstarted
  <2> QED
    BY <2>3, <2>4, <2>5, <2>6, Known, TimelyStays DEF Fits
<1> QED
  BY <1>1, <1>4, <1>5

\* The directory that a call has just published is the newest, and stays whole.
LEMMA PruneFits ==
  ASSUME Inv, NEW e \in Engines, Prune(e)
  PROVE  Timely' /\ Fits(e)'
<1>1. /\ UNCHANGED <<data, run, pc, saves, late, stuck, crashes>>
      /\ UNCHANGED <<repo, index, snapshot>> /\ pc[e] = "prune"
  BY DEF Prune, bounds, data
<1>2. Thinned(backups', backups)
  BY Pruning DEF Inv
<1>3. Listed(e)' = Listed(e)
  BY <1>1 DEF Listed
<1>4. Timely'
  <2>1. ASSUME NEW i \in DOMAIN backups', NEW p \in Projects
        PROVE  backups'[i].copy[p].body <= saves
    <3>1. PICK j \in DOMAIN backups : backups'[i].copy[p] \in {backups[j].copy[p], NoDoc}
      BY <1>2 DEF Thinned
    <3>2. backups[j].copy[p].body <= saves /\ 0 <= saves
      BY Known, Values DEF Timely, Inv
    <3> QED
      BY <3>1, <3>2, Docs
  <2> QED
    BY <1>1, <2>1, Known DEF Timely
<1>5. BackupFits(e)'
  <2> SUFFICES ASSUME run[e].cmd = "migrate", run[e].fresh
               PROVE  /\ HasBackup(run[e].key)' /\ CopyOf(run[e].key)' = CopyOf(run[e].key)
                      /\ Len(backups') # 0 /\ backups'[Len(backups')].key = run[e].key
    BY <1>1, <1>3, Known DEF BackupFits, Kept
  <2>1. PICK k : k = run[e].key
    OBVIOUS
  <2>2. /\ Len(backups) # 0 /\ backups[Len(backups)].key = k /\ backups \in Seq(Backups)
        /\ OneOfEachKey(backups)
    BY <1>1, <2>1, Known DEF BackupFits, Inv, Typed, TypeOK, OneOfEachKey
  <2>3. Len(backups) \in DOMAIN backups
    BY <2>2
  <2>4. CopyOf(k) = backups[Len(backups)].copy
    BY <2>2, <2>3, Newest
  <2>5. /\ OneOfEachKey(backups') /\ backups' \in Seq(Backups)
        /\ Len(backups') \in 1 .. Len(backups)
        /\ backups'[Len(backups')] = backups[Len(backups)]
    BY <1>2 DEF Thinned
  <2>6. Len(backups') \in DOMAIN backups' /\ Len(backups') # 0
    BY <2>5
  <2>7. HasBackup(k)' /\ CopyOf(k)' = backups'[Len(backups')].copy
    BY <2>2, <2>5, <2>6, NewestThen
  <2>8. HasBackup(run[e].key)' = HasBackup(k)' /\ CopyOf(run[e].key)' = CopyOf(k)'
    BY <1>1, <2>1 DEF HasBackup, CopyOf
  <2> QED
    BY <2>1, <2>2, <2>4, <2>5, <2>6, <2>7, <2>8
<1>6. DocsFit(e)' /\ DerivedFits(e)' /\ UnlistedFits(e)' /\ OutcomeFits(e)' /\ SteadyFits(e)'
  BY <1>1, <1>3, Known DEF DocsFit, DerivedFits, UnlistedFits, OutcomeFits, SteadyFits, Steady,
     Settled, Checks, Loops, Kept
<1> QED
  BY <1>4, <1>5, <1>6 DEF Fits

LEMMA TakeBackupFits ==
  ASSUME Inv, NEW e \in Engines, TakeBackup(e) \/ Prune(e) \/ PruneEnds(e)
  PROVE  Timely' /\ Fits(e)'
<1>1. CASE TakeBackup(e) /\ HasBackup(run[e].key)
  <2>1. /\ Backed(e) /\ UNCHANGED <<data, backups, saves, late>> /\ UNCHANGED <<stuck, crashes>>
        /\ run' = [run EXCEPT ![e].fresh = FALSE] /\ pc[e] = "backup"
    <3>1. PICK fresh \in BOOLEAN : fresh = ~HasBackup(run[e].key)
      BY DEF HasBackup
    <3>2. run' = [run EXCEPT ![e].fresh = fresh] /\ fresh = FALSE
      BY <1>1, <3>1 DEF TakeBackup
    <3> QED
      BY <1>1, <3>2 DEF TakeBackup, bounds
  <2> QED
    BY <2>1, BackedFits
<1>2. CASE PruneEnds(e)
  <2>1. /\ Backed(e) /\ UNCHANGED <<data, backups, saves, late>> /\ UNCHANGED <<stuck, crashes>>
        /\ run' = run /\ pc[e] = "prune"
    BY <1>2 DEF PruneEnds, bounds
  <2>2. PICK fresh \in BOOLEAN : fresh = run[e].fresh
    BY Known DEF Run
  <2>3. run' = [run EXCEPT ![e].fresh = fresh]
    BY <2>1, <2>2, Known, SameFresh
  <2> QED
    BY <2>1, <2>2, <2>3, BackedFits
<1> QED
  BY <1>1, <1>2, PublishingFits, PruneFits

\* A document that is at the step's version goes to the next; then there is none.
LEMMA ApplyFits ==
  ASSUME Inv, NEW e \in Engines, NEW p \in Projects, ApplyStep(e, p)
  PROVE  Timely' /\ Fits(e)'
<1>1. /\ UNCHANGED <<index, snapshot, backups, pc, run, saves, late, crashes, stuck>>
      /\ pc[e] = "apply" /\ repo[p] # NoDoc /\ repo[p].ver = run[e].step
      /\ run[e].step < Target /\ repo' = [repo EXCEPT ![p].ver = @ + 1]
  BY DEF ApplyStep, Present, bounds
<1>2. /\ Listed(e)' = Listed(e)
      /\ \A key : HasBackup(key)' = HasBackup(key) /\ CopyOf(key)' = CopyOf(key)
  BY <1>1 DEF Listed, HasBackup, CopyOf, Kept
<1>3. /\ \A q \in Projects \ {p} : repo'[q] = repo[q]
      /\ repo'[p].ver = repo[p].ver + 1 /\ repo'[p].body = repo[p].body
  <2>1. repo[p] \in [ver : Versions, body : 0 .. MaxSaves] /\ repo \in [Projects -> Doc]
    BY <1>1, Known DEF Doc
  <2>2. repo' = [repo EXCEPT ![p] = [repo[p] EXCEPT !.ver = @ + 1]]
    BY <1>1
  <2> QED
    BY <2>1, <2>2
<1>4. Timely'
  <2>1. repo[p].ver \in Nat
    BY Values DEF Inv, Numbers
  <2>2. repo'[p] # NoDoc
    BY <1>3, <2>1, Docs
  <2> QED
    BY <1>1, <1>3, <2>2, Known DEF Timely
<1>5. DocsFit(e)'
  <2>1. \A q \in Kept(e) : /\ repo'[q].ver \in run[e].step .. Target
                             /\ repo'[q].body >= run[e].start[q].body
    <3> TAKE q \in Kept(e)
    <3>1. q \in Projects /\ repo[q].ver \in run[e].step .. Target
          /\ repo[q].body >= run[e].start[q].body /\ run[e].step \in Keys
      BY <1>1, Known DEF DocsFit, Listed, Equipped, Kept
    <3> QED
      BY <1>1, <1>3, <3>1 DEF Keys
  <2> QED
    BY <1>1, <1>2, <2>1 DEF DocsFit, Kept
<1>6. BackupFits(e)'
  BY <1>1, <1>2, Known DEF BackupFits, Kept
<1>7. DerivedFits(e)' /\ UnlistedFits(e)' /\ OutcomeFits(e)' /\ SteadyFits(e)'
  BY <1>1, <1>2, Known DEF DerivedFits, UnlistedFits, OutcomeFits, SteadyFits, Checks, Loops,
     Settled, Unstarted, Kept
<1> QED
  BY <1>4, <1>5, <1>6, <1>7 DEF Fits

\* What a loop, or a step that is done, leaves of the call as it was.
LEMMA SameCall ==
  ASSUME Inv, NEW e \in Engines, NEW step, NEW todo,
         run' = [run EXCEPT ![e].step = step, ![e].todo = todo]
  PROVE  /\ run'[e].start = run[e].start /\ run'[e].cmd = run[e].cmd
         /\ run'[e].key = run[e].key /\ run'[e].fresh = run[e].fresh
         /\ run'[e].outcome = run[e].outcome
         /\ Listed(e)' = Listed(e)
<1>1. run[e] \in Run /\ run \in [Engines -> Run]
  BY Known
<1>2. run'[e] = [run[e] EXCEPT !.step = step, !.todo = todo]
  BY <1>1
<1> DEFINE r == [run[e] EXCEPT !.step = step, !.todo = todo]
<1>3. /\ r.start = run[e].start /\ r.cmd = run[e].cmd /\ r.key = run[e].key
      /\ r.fresh = run[e].fresh /\ r.outcome = run[e].outcome
  BY <1>1 DEF Run
<1> QED
  BY <1>2, <1>3 DEF Listed, Kept

LEMMA StepIsDoneFits ==
  ASSUME Inv, NEW e \in Engines, StepIsDone(e)
  PROVE  Timely' /\ Fits(e)'
<1> DEFINE n == run[e].step + 1
           todo == IF n = Target THEN Listed(e) ELSE {}
<1>1. /\ UNCHANGED <<data, backups, saves, late>> /\ UNCHANGED <<repo, index, snapshot>>
      /\ stuck' = stuck /\ crashes' = crashes /\ pc[e] = "apply"
      /\ run[e].cmd = "migrate" /\ run[e].step \in Keys
      /\ \A p \in Present : repo[p].ver # run[e].step
  BY Known DEF StepIsDone, Equipped, data, bounds
<1>2. pc'[e] = IF n = Target THEN "index" ELSE "apply"
  BY <1>1, Known DEF StepIsDone
<1>3. /\ run'[e].start = run[e].start /\ run'[e].cmd = "migrate"
      /\ run'[e].key = run[e].key /\ run'[e].fresh = run[e].fresh
      /\ run'[e].step = n /\ run'[e].todo = todo /\ Listed(e)' = Listed(e)
  <2>1. run' = [run EXCEPT ![e].step = n, ![e].todo = todo]
    BY Known DEF StepIsDone
  <2>2. run'[e].step = n /\ run'[e].todo = todo
    BY <2>1, Known DEF Run
  <2> HIDE DEF n, todo
  <2> QED
    BY <1>1, <2>1, <2>2, SameCall
<1>4. \A p \in Kept(e) : repo[p].ver \in n .. Target /\ repo[p].body >= run[e].start[p].body
  <2> TAKE p \in Kept(e)
  <2>1. /\ p \in Projects /\ repo[p].ver \in run[e].step .. Target
        /\ repo[p].body >= run[e].start[p].body
    BY <1>1, Known DEF DocsFit, Listed, Kept
  <2>2. repo[p] # NoDoc
    BY <1>1, <2>1, Docs DEF Keys
  <2> QED
    BY <1>1, <2>1, <2>2 DEF Present, Keys
<1>5. DocsFit(e)'
  <2>1. pc'[e] = "apply" \/ (pc'[e] = "index" /\ n = Target)
    BY <1>2
  <2>2. n = Target => \A p \in Kept(e) : Follows(repo[p], run[e].start[p], Target)
    BY <1>4 DEF Follows
  <2> HIDE DEF n
  <2> QED
    BY <1>1, <1>3, <1>4, <2>1, <2>2 DEF DocsFit, Kept
<1>6. BackupFits(e)'
  BY <1>1, <1>2, <1>3, Known, SameBackup DEF BackupFits, Kept
<1>7. DerivedFits(e)' /\ UnlistedFits(e)' /\ OutcomeFits(e)' /\ SteadyFits(e)'
  BY <1>1, <1>2, <1>3, Known DEF DerivedFits, UnlistedFits, OutcomeFits, SteadyFits, Checks,
     Loops, Settled, Unstarted, Kept
<1> QED
  BY <1>1, <1>5, <1>6, <1>7, Known, TimelyStays DEF Fits

\* The index, then the snapshot, of one project after the other.
LEMMA LoopsFit ==
  ASSUME Inv, NEW e \in Engines, NEW p \in Projects,
         RebuildIndex(e, p) \/ RegenerateSnapshot(e, p)
  PROVE  Timely' /\ Fits(e)'
<1>1. /\ UNCHANGED <<repo, backups, saves, late, stuck, crashes, pc>>
      /\ pc[e] \in {"index", "snapshot"} /\ p \in run[e].todo
  BY DEF RebuildIndex, RegenerateSnapshot, bounds
<1>2. /\ run'[e].start = run[e].start /\ run'[e].cmd = run[e].cmd
      /\ run'[e].key = run[e].key /\ run'[e].fresh = run[e].fresh
      /\ run'[e].todo = run[e].todo \ {p} /\ Listed(e)' = Listed(e)
  <2>1. run' = [run EXCEPT ![e].step = run[e].step, ![e].todo = run[e].todo \ {p}]
    BY Known DEF RebuildIndex, RegenerateSnapshot, Run
  <2>2. run'[e].todo = run[e].todo \ {p}
    BY <2>1, Known DEF Run
  <2> QED
    BY <2>1, <2>2, SameCall
<1>3. p \in Listed(e)
  BY <1>1, Known DEF UnlistedFits
<1>4. /\ \A q \in Projects \ {p} : index'[q] = index[q] /\ snapshot'[q] = snapshot[q]
      /\ pc[e] = "index" => index'[p] = repo[p] /\ snapshot' = snapshot
      /\ pc[e] = "snapshot" => snapshot'[p] = repo[p] /\ index' = index /\ repo[p] # NoDoc
  <2>1. index \in [Projects -> Doc] /\ snapshot \in [Projects -> Doc]
    BY DEF Inv, Typed, TypeOK
  <2> QED
    BY <2>1 DEF RebuildIndex, RegenerateSnapshot
<1>5. Timely'
  BY <1>1, <1>4, Known DEF Timely
<1>6. DocsFit(e)' /\ BackupFits(e)'
  BY <1>1, <1>2, Known, SameBackup DEF DocsFit, BackupFits, Kept
<1>7. \A q \in Projects : /\ MadeByCall(e, q, index[q]) /\ index'[q] = index[q]
                               => MadeByCall(e, q, index[q])'
                          /\ MadeByCall(e, q, snapshot[q]) /\ snapshot'[q] = snapshot[q]
                               => MadeByCall(e, q, snapshot[q])'
  BY <1>1, <1>2 DEF MadeByCall
<1>8. p \notin late => /\ index'[p] = repo[p] => MadeByCall(e, p, index[p])'
                       /\ snapshot'[p] = repo[p] => MadeByCall(e, p, snapshot[p])'
  <2> HAVE p \notin late
  <2>1. run[e].cmd = "migrate" => Follows(repo[p], run[e].start[p], Target)
    BY <1>1, <1>3, Known DEF DocsFit, Kept
  <2> QED
    BY <1>1, <1>2, <2>1 DEF MadeByCall
<1>9. DerivedFits(e)'
  <2>1. CASE pc[e] = "index"
    BY <1>1, <1>2, <1>4, <1>7, <1>8, <2>1, Known DEF DerivedFits, Checks, Listed, Kept
  <2>2. CASE pc[e] = "snapshot"
    BY <1>1, <1>2, <1>4, <1>7, <1>8, <2>2, Known DEF DerivedFits, Checks, Listed, Kept
  <2> QED
    BY <1>1, <2>1, <2>2
<1>10. UnlistedFits(e)'
  <2>1. Loops(e) /\ run[e].todo \subseteq Listed(e)
    BY <1>1, Known DEF UnlistedFits, Loops
  <2>2. \A q \in Projects \ Listed(e) : /\ index[q] = NoDoc /\ snapshot[q] = NoDoc
                                        /\ index'[q] = index[q] /\ snapshot'[q] = snapshot[q]
    BY <1>3, <1>4, <2>1, Known DEF UnlistedFits
  <2> QED
    BY <1>1, <1>2, <2>1, <2>2 DEF UnlistedFits
<1>11. OutcomeFits(e)' /\ SteadyFits(e)'
  BY <1>1 DEF OutcomeFits, SteadyFits, Settled, Unstarted, Kept
<1> QED
  BY <1>5, <1>6, <1>9, <1>10, <1>11 DEF Fits

LEMMA NextLoopFits ==
  ASSUME Inv, NEW e \in Engines, NextLoop(e)
  PROVE  Timely' /\ Fits(e)'
<1>1. /\ UNCHANGED <<data, backups, saves, late>> /\ UNCHANGED <<repo, index, snapshot>>
      /\ stuck' = stuck /\ crashes' = crashes /\ run[e].todo = {}
      /\ run[e].cmd \in {"migrate", "rollback"}
      /\ \/ pc[e] = "index" /\ pc'[e] = "snapshot"
         \/ pc[e] = "snapshot" /\ pc'[e] = "validate"
  BY Known DEF NextLoop, Equipped, data, bounds, Goto
<1>2. /\ run'[e].start = run[e].start /\ run'[e].cmd = run[e].cmd
      /\ run'[e].key = run[e].key /\ run'[e].fresh = run[e].fresh
      /\ pc'[e] = "snapshot" => run'[e].todo = Listed(e)
      /\ Listed(e)' = Listed(e)
  <2>1. CASE pc[e] = "index"
    <3>1. run' = [run EXCEPT ![e].step = run[e].step, ![e].todo = Listed(e)]
      BY <2>1, Known DEF NextLoop, Run
    <3>2. run'[e].todo = Listed(e)
      BY <3>1, Known DEF Run
    <3> QED
      BY <3>1, <3>2, SameCall
  <2>2. CASE pc[e] = "snapshot"
    <3>1. run' = run
      BY <2>2 DEF NextLoop
    <3> QED
      BY <1>1, <2>2, <3>1 DEF Listed, Kept
  <2> QED
    BY <1>1, <2>1, <2>2
<1>3. DocsFit(e)'
  BY <1>1, <1>2, Known DEF DocsFit, Kept
<1>4. BackupFits(e)'
  BY <1>1, <1>2, Known, SameBackup DEF BackupFits, Kept
<1>5. DerivedFits(e)'
  <2>1. \A p \in Projects : /\ MadeByCall(e, p, index[p]) => MadeByCall(e, p, index[p])'
                            /\ MadeByCall(e, p, snapshot[p]) => MadeByCall(e, p, snapshot[p])'
    BY <1>1, <1>2 DEF MadeByCall
  <2>2. \A p \in Kept(e) : p \in Projects
    BY DEF Listed, Kept
  <2>3. CASE pc[e] = "index"
    <3>1. \A p \in Kept(e) : MadeByCall(e, p, index[p])
      BY <1>1, <2>3, Known DEF DerivedFits, Kept
    <3> QED
      BY <1>1, <1>2, <2>1, <2>2, <2>3, <3>1 DEF DerivedFits, Checks, Kept
  <2>4. CASE pc[e] = "snapshot"
    <3>1. \A p \in Kept(e) : /\ MadeByCall(e, p, index[p])
                               /\ snapshot[p] # NoDoc /\ MadeByCall(e, p, snapshot[p])
      BY <1>1, <2>4, Known DEF DerivedFits, Kept
    <3> QED
      BY <1>1, <1>2, <2>1, <2>2, <2>4, <3>1 DEF DerivedFits, Checks, Kept
  <2> QED
    BY <1>1, <2>3, <2>4
<1>6. UnlistedFits(e)'
  BY <1>1, <1>2, Known DEF UnlistedFits, Loops, Checks
<1>7. OutcomeFits(e)' /\ SteadyFits(e)'
  BY <1>1, <1>2 DEF OutcomeFits, SteadyFits, Settled, Unstarted, Kept
<1> QED
  BY <1>1, <1>3, <1>4, <1>5, <1>6, <1>7, Known, TimelyStays DEF Fits

\* What the loops made is what the validator has accepted.
LEMMA ValidatedFits ==
  ASSUME Inv, NEW e \in Engines, Validated(e)
  PROVE  Timely' /\ Fits(e)'
<1>1. /\ UNCHANGED <<data, backups, saves, late>> /\ UNCHANGED <<repo, index, snapshot>>
      /\ stuck' = stuck /\ crashes' = crashes /\ pc[e] = "validate" /\ pc'[e] = "exit"
      /\ Acceptable
  BY Known DEF Validated, Ends, Goto, data, bounds
<1>2. /\ run'[e].start = run[e].start /\ run'[e].cmd = run[e].cmd /\ Listed(e)' = Listed(e)
      /\ \/ run[e].cmd = "migrate" /\ run'[e].outcome = "completed"
         \/ run[e].cmd = "validate" /\ run'[e].outcome = "done"
         \/ run[e].cmd = "rollback" /\ run'[e].outcome = "restored"
  <2>1. \/ run[e].cmd = "migrate" /\ run' = [run EXCEPT ![e].outcome = "completed", ![e].todo = {}]
        \/ run[e].cmd = "validate" /\ run' = [run EXCEPT ![e].outcome = "done", ![e].todo = {}]
        \/ run[e].cmd = "rollback" /\ run' = [run EXCEPT ![e].outcome = "restored"]
    BY DEF Validated, Ends
  <2>2. run[e] \in Run /\ run \in [Engines -> Run]
    BY Known
  <2>3. /\ run'[e].start = run[e].start /\ run'[e].cmd = run[e].cmd
        /\ \/ run[e].cmd = "migrate" /\ run'[e].outcome = "completed"
           \/ run[e].cmd = "validate" /\ run'[e].outcome = "done"
           \/ run[e].cmd = "rollback" /\ run'[e].outcome = "restored"
    <3>1. CASE run[e].cmd = "rollback"
      <4>1. run'[e] = [run[e] EXCEPT !.outcome = "restored"]
        BY <2>1, <2>2, <3>1
      <4> QED
        BY <2>2, <3>1, <4>1 DEF Run
    <3>2. ASSUME NEW outcome \in {"completed", "done"},
                 run' = [run EXCEPT ![e].outcome = outcome, ![e].todo = {}]
          PROVE  /\ run'[e].start = run[e].start /\ run'[e].cmd = run[e].cmd
                 /\ run'[e].outcome = outcome
      <4>1. run'[e] = [run[e] EXCEPT !.outcome = outcome, !.todo = {}]
        BY <2>2, <3>2
      <4> QED
        BY <2>2, <4>1 DEF Run
    <3>3. CASE run[e].cmd = "migrate"
      BY <2>1, <3>2, <3>3
    <3>4. CASE run[e].cmd = "validate"
      BY <2>1, <3>2, <3>4
    <3> QED
      BY <2>1, <3>1, <3>3, <3>4
  <2> QED
    BY <2>3 DEF Listed, Kept
<1>3. DocsFit(e)' /\ BackupFits(e)' /\ DerivedFits(e)' /\ UnlistedFits(e)'
  BY <1>1 DEF DocsFit, BackupFits, DerivedFits, UnlistedFits, Checks, Loops, Kept
<1>4. CASE run[e].cmd = "validate"
  <2>1. OutcomeFits(e)'
    BY <1>1, <1>2, <1>4 DEF OutcomeFits, Kept
  <2>2. Settled(e)
    BY <1>1, <1>4 DEF Settled
  <2>3. SteadyFits(e)'
    BY <1>1, <2>2, Known DEF SteadyFits, Steady
  <2> QED
    BY <1>1, <1>3, <2>1, <2>3, Known, TimelyStays DEF Fits
<1>5. CASE run[e].cmd # "validate"
  <2>1. /\ \A p \in Kept(e) : /\ MadeByCall(e, p, index[p]) /\ snapshot[p] # NoDoc
                                /\ MadeByCall(e, p, snapshot[p])
        /\ \A p \in Projects \ Listed(e) : index[p] = NoDoc /\ snapshot[p] = NoDoc
    BY <1>1, <1>5, Known DEF DerivedFits, UnlistedFits, Checks, Loops, Kept
  <2>2. run[e].cmd = "migrate" =>
          \A p \in Kept(e) : Follows(repo[p], run[e].start[p], Target)
    BY <1>1, Known DEF DocsFit, Kept
  <2>3. \A p \in Kept(e) : index[p] # NoDoc
    <3> TAKE p \in Kept(e)
    <3>1. p \in Projects /\ snapshot[p] # NoDoc
      BY <2>1 DEF Listed, Kept
    <3>2. repo[p] # NoDoc
      BY <3>1, Known DEF Timely
    <3> QED
      BY <1>1, <3>1, <3>2 DEF Acceptable, Present
  <2>4. OutcomeFits(e)'
    BY <1>1, <1>2, <1>5, <2>1, <2>2, <2>3 DEF OutcomeFits, MadeByCall, Kept
  <2>5. \A p \in Projects \ late : Steady(p)
    BY <2>1, <2>2 DEF Steady, MadeByCall, Follows, Kept
  <2>6. SteadyFits(e)'
    BY <1>1, <2>5 DEF SteadyFits, Steady
  <2> QED
    BY <1>1, <1>3, <2>4, <2>6, Known, TimelyStays DEF Fits
<1> QED
  BY <1>4, <1>5

\* A migration that fails goes to its backup; the other calls are over.
LEMMA FailsFits ==
  ASSUME Inv, NEW e \in Engines, Fails(e) \/ RestoreFails(e)
  PROVE  Timely' /\ Fits(e)'
<1>1. /\ UNCHANGED <<data, backups, saves, late>> /\ UNCHANGED <<repo, index, snapshot>>
      /\ crashes' = crashes
  BY DEF Fails, RestoreFails, data
<1>2. CASE Fails(e) /\ run[e].cmd = "migrate"
  <2>1. /\ pc'[e] = "restore" /\ pc[e] \in {"apply", "index", "snapshot", "validate"}
    BY <1>2, Known DEF Fails, Goto
  <2>2. /\ run'[e].start = run[e].start /\ run'[e].cmd = run[e].cmd
        /\ run'[e].key = run[e].key /\ run'[e].fresh = run[e].fresh
        /\ Listed(e)' = Listed(e)
    <3>1. run' = [run EXCEPT ![e].step = run[e].step, ![e].todo = {}]
      BY <1>2, Known DEF Fails, Run
    <3> QED
      BY <3>1, SameCall
  <2>3. BackupFits(e)'
    BY <1>1, <1>2, <2>1, <2>2, Known, SameBackup DEF BackupFits, Kept
  <2>4. DocsFit(e)' /\ DerivedFits(e)' /\ UnlistedFits(e)' /\ OutcomeFits(e)' /\ SteadyFits(e)'
    BY <2>1 DEF DocsFit, DerivedFits, UnlistedFits, OutcomeFits, SteadyFits, Checks, Loops,
       Settled, Unstarted, Kept
  <2> QED
    BY <1>1, <2>3, <2>4, Known, TimelyStays DEF Fits
<1>3. CASE ~(Fails(e) /\ run[e].cmd = "migrate")
  <2>1. PICK outcome \in {"stuck", "refused"} :
          /\ run' = [run EXCEPT ![e].outcome = outcome, ![e].todo = {}] /\ pc'[e] = "exit"
          /\ outcome = "refused" => run[e].cmd = "validate" /\ stuck' = stuck /\ Settled(e)
          /\ outcome = "stuck" => stuck'
    <3>1. CASE RestoreFails(e)
      BY <3>1, Known DEF RestoreFails, Ends, Goto
    <3>2. CASE Fails(e) /\ run[e].cmd = "rollback"
      BY <3>2, Known DEF Fails, Ends, Goto
    <3>3. CASE Fails(e) /\ run[e].cmd = "validate"
      <4>1. pc[e] = "validate" /\ stuck' = stuck
        BY <3>3, Known DEF Fails, Equipped, Inv, Typed, TypeOK
      <4> QED
        BY <3>3, <4>1, Known DEF Fails, Ends, Goto, Settled
    <3> QED
      BY <1>3, <3>1, <3>2, <3>3 DEF Fails
  <2>2. run'[e].outcome = outcome /\ run'[e].cmd = run[e].cmd
    BY <2>1, Known DEF Run
  <2>3. DocsFit(e)' /\ BackupFits(e)' /\ DerivedFits(e)' /\ UnlistedFits(e)'
    BY <2>1 DEF DocsFit, BackupFits, DerivedFits, UnlistedFits, Checks, Loops, Kept
  <2>4. OutcomeFits(e)'
    BY <2>1, <2>2 DEF OutcomeFits, Kept
  <2>5. SteadyFits(e)'
    <3>1. CASE outcome = "refused"
      BY <1>1, <2>1, <3>1, Known DEF SteadyFits, Steady
    <3>2. CASE outcome = "stuck"
      BY <2>1, <3>2, Zenon DEF SteadyFits
    <3> QED
      BY <3>1, <3>2
  <2> QED
    BY <1>1, <2>3, <2>4, <2>5, Known, TimelyStays DEF Fits
<1> QED
  BY <1>2, <1>3

\* The copy under a key is a saved document for each project.
LEMMA CopyIsTyped ==
  ASSUME Inv, NEW key, HasBackup(key)
  PROVE  /\ CopyOf(key) \in [Projects -> Doc]
         /\ \A p \in Projects : CopyOf(key)[p].body <= saves
<1>1. PICK i \in DOMAIN backups : CopyOf(key) = backups[i].copy
  BY Copies
<1>2. backups \in Seq(Backups) /\ Timely
  BY DEF Inv, Typed, TypeOK, Backups
<1>3. backups[i] \in Backups
  BY <1>2
<1> QED
  BY <1>1, <1>2, <1>3 DEF Backups, Timely

\* Nothing of a project is left, or nothing but the documents of others.
LEMMA ErasedTimely ==
  ASSUME Inv, NEW p \in Projects, Erased(p), UNCHANGED <<backups, saves, late>>
  PROVE  Timely'
<1>1. /\ repo \in [Projects -> Doc] /\ index \in [Projects -> Doc]
      /\ snapshot \in [Projects -> Doc] /\ Timely /\ saves \in Nat
  BY DEF Inv, Typed, TypeOK
<1>2. /\ \A q \in Projects \ {p} : /\ repo'[q] = repo[q] /\ index'[q] = index[q]
                                   /\ snapshot'[q] = snapshot[q]
      /\ repo'[p] = NoDoc /\ index'[p] = NoDoc /\ snapshot'[p] = NoDoc
  BY <1>1 DEF Erased
<1> QED
  BY <1>1, <1>2, Docs DEF Timely

LEMMA RemovalsFit ==
  ASSUME Inv, NEW e \in Engines, NEW p \in Projects, RemoveAdded(e, p) \/ Wipe(e, p)
  PROVE  Timely' /\ Fits(e)'
<1>1. /\ UNCHANGED <<backups, saves, late>> /\ Erased(p)
      /\ \/ pc[e] = "restore" /\ pc'[e] = "restore" /\ run' = run
         \/ /\ pc[e] = "copy" /\ pc'[e] = "paste"
            /\ run' = [run EXCEPT ![e].todo = @ \ {p}, ![e].at = {p}]
  BY Known DEF RemoveAdded, Wipe, Goto, bounds
<1>2. /\ run'[e].start = run[e].start /\ run'[e].cmd = run[e].cmd
      /\ run'[e].key = run[e].key /\ run'[e].fresh = run[e].fresh
      /\ pc'[e] = "paste" => run'[e].todo = run[e].todo \ {p} /\ run'[e].at = {p}
      /\ Listed(e)' = Listed(e)
  <2>1. CASE run' = run /\ pc'[e] = "restore"
    BY <2>1 DEF Listed, Kept
  <2>2. CASE run' = [run EXCEPT ![e].todo = @ \ {p}, ![e].at = {p}]
    <3> DEFINE r == [run[e] EXCEPT !.todo = @ \ {p}, !.at = {p}]
    <3>1. run'[e] = r
      BY <2>2, Known
    <3>2. /\ r.start = run[e].start /\ r.cmd = run[e].cmd /\ r.key = run[e].key
          /\ r.fresh = run[e].fresh /\ r.todo = run[e].todo \ {p} /\ r.at = {p}
      BY Known DEF Run
    <3> HIDE DEF r
    <3> QED
      BY <3>1, <3>2 DEF Listed, Kept
  <2> QED
    BY <1>1, <2>1, <2>2
<1>3. \A q \in Projects \ {p} : repo'[q] = repo[q]
  BY <1>1, Known DEF Erased
<1>4. BackupFits(e)'
  <2>1. CASE pc'[e] = "restore"
    BY <1>1, <1>2, <2>1, Known, SameBackup DEF BackupFits, Kept
  <2>2. CASE pc'[e] = "paste"
    BY <1>1, <1>2, <1>3, <2>2, Known, SameBackup DEF BackupFits, Listed, Kept
  <2> QED
    BY <1>1, <2>1, <2>2
<1>5. DocsFit(e)' /\ DerivedFits(e)' /\ UnlistedFits(e)' /\ OutcomeFits(e)' /\ SteadyFits(e)'
  BY <1>1 DEF DocsFit, DerivedFits, UnlistedFits, OutcomeFits, SteadyFits, Checks, Loops,
     Settled, Unstarted, Kept
<1> QED
  BY <1>1, <1>4, <1>5, ErasedTimely DEF Fits

\* What a migration found is in the copies, so all of it is to be copied.
LEMMA BeginCopiesFits ==
  ASSUME Inv, NEW e \in Engines, BeginCopies(e)
  PROVE  Timely' /\ Fits(e)'
<1> DEFINE todo == {p \in Projects : CopyOf(run[e].key)[p] # NoDoc}
<1>1. /\ UNCHANGED <<data, backups, saves, late>> /\ UNCHANGED <<repo, index, snapshot>>
      /\ pc[e] = "restore" /\ pc'[e] = "copy"
  BY Known DEF BeginCopies, Goto, data, bounds
<1>2. /\ run'[e].start = run[e].start /\ run'[e].cmd = run[e].cmd
      /\ run'[e].key = run[e].key /\ run'[e].fresh = run[e].fresh
      /\ run'[e].todo = todo /\ Listed(e)' = Listed(e)
  <2>1. run' = [run EXCEPT ![e].step = run[e].step, ![e].todo = todo]
    BY Known DEF BeginCopies, Run
  <2> HIDE DEF todo
  <2>2. run'[e].todo = todo
    BY <2>1, Known DEF Run
  <2> QED
    BY <2>1, <2>2, SameCall
<1>3. BackupFits(e)'
  <2>1. ASSUME run[e].cmd = "migrate", run[e].fresh
        PROVE  Kept(e) \subseteq todo
    <3> SUFFICES ASSUME NEW p \in Kept(e) PROVE p \in todo
      OBVIOUS
    <3>1. p \in Projects /\ run[e].start[p] # NoDoc /\ run[e].start[p] \in Doc
          /\ CopyOf(run[e].key)[p].ver = run[e].start[p].ver
      BY <1>1, <2>1, Known DEF BackupFits, Listed, Follows, Run, Kept
    <3>2. CopyOf(run[e].key)[p] # NoDoc
      BY <3>1, Docs DEF Versions
    <3> QED
      BY <3>1, <3>2
  <2> HIDE DEF todo
  <2> QED
    BY <1>1, <1>2, <2>1, Known, SameBackup DEF BackupFits, Kept
<1>4. DocsFit(e)' /\ DerivedFits(e)' /\ UnlistedFits(e)' /\ OutcomeFits(e)' /\ SteadyFits(e)'
  BY <1>1 DEF DocsFit, DerivedFits, UnlistedFits, OutcomeFits, SteadyFits, Checks, Loops,
     Settled, Unstarted, Kept
<1> QED
  BY <1>1, <1>3, <1>4, Known, TimelyStays DEF Fits

LEMMA PasteFits ==
  ASSUME Inv, NEW e \in Engines, Paste(e)
  PROVE  Timely' /\ Fits(e)'
<1> DEFINE copy == CopyOf(run[e].key)
<1>1. /\ UNCHANGED <<index, snapshot, backups, saves, late>>
      /\ pc[e] = "paste" /\ pc'[e] = "copy" /\ HasBackup(run[e].key)
      /\ \A p \in run[e].at : repo[p] = NoDoc
      /\ repo' = [p \in Projects |-> IF p \in run[e].at THEN copy[p] ELSE repo[p]]
  BY Known DEF Paste, Goto, bounds
<1>2. /\ run'[e].start = run[e].start /\ run'[e].cmd = run[e].cmd
      /\ run'[e].key = run[e].key /\ run'[e].fresh = run[e].fresh
      /\ run'[e].todo = run[e].todo /\ Listed(e)' = Listed(e)
  <2> DEFINE r == [run[e] EXCEPT !.at = {}]
  <2>1. run'[e] = r
    BY Known DEF Paste
  <2>2. /\ r.start = run[e].start /\ r.cmd = run[e].cmd /\ r.key = run[e].key
        /\ r.fresh = run[e].fresh /\ r.todo = run[e].todo
    BY Known DEF Run
  <2> HIDE DEF r
  <2> QED
    BY <2>1, <2>2 DEF Listed, Kept
<1>3. \A p \in Projects : copy[p].body <= saves
  BY <1>1, CopyIsTyped
<1> HIDE DEF copy
<1>4. Timely'
  BY <1>1, <1>3, Known DEF Timely
<1>5. BackupFits(e)'
  <2>1. ASSUME run[e].cmd = "migrate", run[e].fresh, NEW p \in Kept(e), p \notin run[e].todo
        PROVE  Follows(repo'[p], run[e].start[p], run[e].start[p].ver)
    <3>1. p \in Projects
      BY DEF Listed, Kept
    <3>2. CASE p \in run[e].at
      BY <1>1, <2>1, <3>1, <3>2, Known DEF BackupFits, Kept, copy
    <3>3. CASE p \notin run[e].at
      BY <1>1, <2>1, <3>1, <3>3, Known DEF BackupFits, Kept
    <3> QED
      BY <3>2, <3>3
  <2> QED
    BY <1>1, <1>2, <2>1, Known, SameBackup DEF BackupFits, Kept
<1>6. DocsFit(e)' /\ DerivedFits(e)' /\ UnlistedFits(e)' /\ OutcomeFits(e)' /\ SteadyFits(e)'
  BY <1>1 DEF DocsFit, DerivedFits, UnlistedFits, OutcomeFits, SteadyFits, Checks, Loops,
     Settled, Unstarted, Kept
<1> QED
  BY <1>4, <1>5, <1>6 DEF Fits

\* With the last copy the derived files go; a rollback then derives them again.
LEMMA DropDerivedFits ==
  ASSUME Inv, NEW e \in Engines, DropDerived(e)
  PROVE  Timely' /\ Fits(e)'
<1>1. /\ UNCHANGED <<repo, backups, saves, late, stuck, crashes>> /\ pc[e] = "copy"
      /\ run[e].todo = {} /\ index' = Nothing /\ snapshot' = Nothing
  BY DEF DropDerived, bounds
<1>2. \A p \in Projects : index'[p] = NoDoc /\ snapshot'[p] = NoDoc
  BY <1>1 DEF Nothing
<1>3. Timely'
  BY <1>1, <1>2, Known DEF Timely
<1>4. CASE run[e].cmd = "migrate"
  <2> DEFINE r == [run[e] EXCEPT !.outcome = "rolled_back", !.todo = {}]
  <2>1. pc'[e] = "exit" /\ run'[e] = r
    BY <1>4, Known DEF DropDerived, Ends, Goto
  <2>2. /\ r.start = run[e].start /\ r.cmd = "migrate" /\ r.fresh = run[e].fresh
        /\ r.outcome = "rolled_back"
    BY <1>4, Known DEF Run
  <2> HIDE DEF r
  <2>3. Listed(e)' = Listed(e)
    BY <2>1, <2>2 DEF Listed, Kept
  <2>4. run[e].fresh =>
          \A p \in Kept(e) : Follows(repo[p], run[e].start[p], run[e].start[p].ver)
    BY <1>1, <1>4, Known DEF BackupFits, Kept
  <2>5. OutcomeFits(e)'
    BY <1>1, <2>1, <2>2, <2>3, <2>4 DEF OutcomeFits, Kept
  <2>6. SteadyFits(e)'
    BY <1>2 DEF SteadyFits, Steady
  <2>7. DocsFit(e)' /\ BackupFits(e)' /\ DerivedFits(e)' /\ UnlistedFits(e)'
    BY <2>1 DEF DocsFit, BackupFits, DerivedFits, UnlistedFits, Checks, Loops, Kept
  <2> QED
    BY <1>3, <2>5, <2>6, <2>7 DEF Fits
<1>5. CASE run[e].cmd = "rollback"
  <2>1. pc'[e] = "index"
    BY <1>5, Known DEF DropDerived, Goto
  <2>2. run'[e].todo = Listed(e) /\ run'[e].cmd = "rollback" /\ Listed(e)' = Listed(e)
    <3>1. run' = [run EXCEPT ![e].step = run[e].step, ![e].todo = Listed(e)]
      BY <1>5, Known DEF DropDerived, Run
    <3>2. run'[e].todo = Listed(e)
      BY <3>1, Known DEF Run
    <3> QED
      BY <1>5, <3>1, <3>2, SameCall
  <2>3. DerivedFits(e)' /\ UnlistedFits(e)'
    BY <1>2, <2>1, <2>2 DEF DerivedFits, UnlistedFits, Checks, Kept
  <2>4. DocsFit(e)' /\ BackupFits(e)' /\ OutcomeFits(e)' /\ SteadyFits(e)'
    BY <2>1, <2>2 DEF DocsFit, BackupFits, OutcomeFits, SteadyFits, Settled, Unstarted, Kept
  <2> QED
    BY <1>3, <2>3, <2>4 DEF Fits
<1> QED
  BY <1>4, <1>5 DEF DropDerived

LEMMA InitFits == Init => Inv
<1> SUFFICES ASSUME Init PROVE Inv
  OBVIOUS
<1>1. Typed
  BY InitTyped
<1>2. /\ index = repo /\ \A p \in Projects : snapshot[p] = NoDoc
      /\ \A p \in Projects : repo[p].body = 0 /\ backups = << >> /\ saves = 0
      /\ \A e \in Engines : pc[e] = "idle"
  BY Docs DEF Init, Nothing
<1>3. Timely
  BY <1>2 DEF Timely
<1>4. ASSUME NEW e \in Engines
      PROVE  Fits(e)
  <2>1. pc[e] = "idle"
    BY <1>2
  <2>2. DocsFit(e) /\ BackupFits(e) /\ DerivedFits(e) /\ UnlistedFits(e) /\ OutcomeFits(e)
    BY <2>1 DEF DocsFit, BackupFits, DerivedFits, UnlistedFits, OutcomeFits, Checks, Loops, Kept
  <2>3. SteadyFits(e)
    BY <1>2 DEF SteadyFits, Steady
  <2> QED
    BY <2>2, <2>3 DEF Fits
<1> QED
  BY <1>1, <1>3, <1>4 DEF Inv

\* A step of the one engine, of an agent or of the clock.
LEMMA NextFits == ASSUME OneEngine PROVE Inv /\ [Next]_vars => Inv'
<1> SUFFICES ASSUME Inv, [Next]_vars PROVE Inv'
  OBVIOUS
<1>1. Typed'
  BY NextTyped DEF Inv
<1>2. ASSUME NEW e \in Engines
      PROVE  Timely' /\ Fits(e)'
  <2>1. ASSUME NEW f \in Engines, Facade(f) \/ Locking(f) \/ Pipeline(f) \/ Rollback(f) \/ Crash(f)
        PROVE  Timely' /\ Fits(e)'
    <3>1. f = e
      BY DEF OneEngine
    <3>2. CASE Facade(e)
      BY <3>2, LockingFits, DetectionFits DEF Facade
    <3>3. CASE Locking(e) \/ Crash(e)
      BY <3>3, LockingFits
    <3>4. CASE Pipeline(e)
      <4>1. DetectFails(e) => pc[e] \in {"detect", "manage"}
        BY DEF DetectFails
      <4> QED
        BY <3>4, <4>1, DetectionFits, ManagerFits, TakeBackupFits, ApplyFits, LoopsFit,
           StepIsDoneFits, NextLoopFits, ValidatedFits, FailsFits DEF Pipeline
    <3>5. CASE Rollback(e)
      BY <3>5, RemovalsFit, BeginCopiesFits, PasteFits, DropDerivedFits, FailsFits DEF Rollback
    <3> QED
      BY <2>1, <3>1, <3>2, <3>3, <3>4, <3>5
  <2>2. ASSUME NEW p \in Projects, NEW v \in Versions, Save(p, v)
        PROVE  Timely' /\ Fits(e)'
    BY <2>2, SavesFit
  <2>3. CASE AgeLock \/ UNCHANGED vars \/ \E p \in Projects : BeginSave(p)
    <3>1. /\ UNCHANGED <<data, backups, saves, late, stuck>> /\ pc'[e] = pc[e] /\ run'[e] = run[e]
          /\ crashes'[e] = crashes[e]
      BY <2>3 DEF AgeLock, BeginSave, vars, bounds
    <3> QED
      BY <3>1, NothingMoves DEF Inv
  <2> QED
    BY <2>1, <2>2, <2>3 DEF Next, Rest
<1>3. \E e \in Engines : TRUE
  BY DEF OneEngine
<1> QED
  BY <1>1, <1>2, <1>3 DEF Inv

LEMMA AlwaysFits == ASSUME OneEngine PROVE Spec => []Inv
<1>1. Inv /\ [Next]_vars => Inv'
  BY NextFits
<1> QED
  BY <1>1, InitFits, PTL DEF Spec

-----------------------------------------------------------------------------
(* The theorems. *)

\* Types, for any engines: a call is never where its variables do not make
\* sense, no version leaves the registry's range, and two backup directories
\* never have one key, whatever died between a publication and its pruning or
\* halfway through the pruning (MigrationManager, BackupManager.create, _prune).
THEOREM TypeCorrectness == Spec => []TypeOK
<1>1. Typed => TypeOK
  BY DEF Typed
<1> QED
  BY <1>1, AlwaysTyped, PTL

\* A listed project's document is there.
LEMMA ListedAreThere ==
  ASSUME Inv, NEW e \in Engines, NEW p \in Kept(e)
  PROVE  /\ p \in Projects /\ run[e].start[p] \in Doc /\ run[e].start[p].ver \in Versions
         /\ repo[p] \in Doc /\ index[p] \in Doc /\ snapshot[p] \in Doc
<1>1. /\ p \in Projects /\ run[e].start[p] \in Doc /\ run[e].start[p] # NoDoc
      /\ repo[p] \in Doc /\ index[p] \in Doc /\ snapshot[p] \in Doc
  <2>1. p \in Projects /\ run[e].start[p] # NoDoc
    BY DEF Kept, Listed
  <2>2. run[e] \in Run /\ run[e].start \in [Projects -> Doc]
    BY Known DEF Run
  <2> QED
    BY <2>1, <2>2 DEF Inv, Typed, TypeOK
<1> QED
  BY <1>1, Docs

LEMMA FollowersAreNotOlder ==
  ASSUME NEW d \in Doc, NEW was \in Doc, NEW ver \in Versions, Follows(d, was, ver)
  PROVE  d.ver = ver /\ ~Older(d, was)
<1>1. d # NoDoc
  BY Docs DEF Follows, Versions
<1> QED
  BY <1>1, Docs DEF Follows, Older

\* With one engine, a migration that fails and has its own backup leaves what
\* it found, but for the projects that a stale save has hit, however agents save
\* and wherever it fails or dies: the copies are taken before the first step,
\* pruning leaves them whole, and none of them is missing at the end.
THEOREM FailuresRestore == ASSUME OneEngine PROVE Spec => []FailureRestores
<1>1. Inv => FailureRestores
  <2> SUFFICES ASSUME Inv, NEW e \in Engines, pc[e] = "exit", run[e].cmd = "migrate",
                      \/ run[e].outcome = "rolled_back" /\ run[e].fresh
                      \/ run[e].outcome \in {"no_backup", "refused"},
                      NEW p \in Kept(e)
               PROVE  /\ ~Older(repo[p], run[e].start[p])
                      /\ repo[p].ver = run[e].start[p].ver
    BY DEF FailureRestores, Kept
  <2>1. Follows(repo[p], run[e].start[p], run[e].start[p].ver)
    BY Known DEF OutcomeFits, Kept
  <2> QED
    BY <2>1, ListedAreThere, FollowersAreNotOlder
<1> QED
  BY <1>1, AlwaysFits, PTL

\* With one engine, a migration that ends in COMPLETED has brought every project
\* it listed to the target, and after a real run index and snapshot with it, but
\* for the projects that a save begun before a step has written back.
THEOREM CompletedMigrates == ASSUME OneEngine PROVE Spec => []CompletedIsMigrated
<1>1. Inv => CompletedIsMigrated
  <2> SUFFICES ASSUME Inv, NEW e \in Engines, pc[e] = "exit", run[e].cmd = "migrate",
                      run[e].outcome \in {"completed", "up_to_date"}, NEW p \in Kept(e)
               PROVE  /\ repo[p].ver = Target
                      /\ run[e].outcome = "completed" =>
                           \A made \in {index[p], snapshot[p]} :
                             made.ver = Target /\ ~Older(made, run[e].start[p])
    BY DEF CompletedIsMigrated, Kept
  <2>1. /\ Follows(repo[p], run[e].start[p], Target)
        /\ run[e].outcome = "completed" => /\ Follows(index[p], run[e].start[p], Target)
                                           /\ Follows(snapshot[p], run[e].start[p], Target)
    BY Known DEF OutcomeFits, Kept
  <2>2. Target \in Versions
    BY DEF Versions
  <2> QED
    BY <2>1, <2>2, ListedAreThere, FollowersAreNotOlder
<1> QED
  BY <1>1, AlwaysFits, PTL

\* With one engine, what a successful rollback derives, it derives from the
\* documents that it has restored, but for the projects a stale save has hit.
THEOREM RollbacksRebuild == ASSUME OneEngine PROVE Spec => []RollbackRebuilds
<1>1. Inv => RollbackRebuilds
  BY Known DEF RollbackRebuilds, OutcomeFits, Present, Kept
<1> QED
  BY <1>1, AlwaysFits, PTL

\* With one engine, between calls nothing derived is of another version than its
\* document, unless the process died on the way, a restore was given up or a
\* stale save hit the project: those are all the ways there are.
THEOREM FailuresLeaveNothingHalfDone ==
  ASSUME OneEngine PROVE Spec => []OnlyDeathsLeaveHalfDone
<1>1. Inv => OnlyDeathsLeaveHalfDone
  <2> SUFFICES ASSUME Inv, \A e \in Engines : pc[e] = "idle" /\ crashes[e] = 0, ~stuck,
                      NEW p \in Present \ late
               PROVE  \A made \in {index[p], snapshot[p]} :
                        made = NoDoc \/ made.ver = repo[p].ver
    BY DEF OnlyDeathsLeaveHalfDone
  <2>1. PICK e \in Engines : TRUE
    BY DEF OneEngine
  <2>2. Settled(e) /\ crashes[e] = 0 /\ p \in Projects
    BY DEF Settled, Unstarted, Present
  <2>3. Steady(p)
    BY <2>2, Known DEF SteadyFits
  <2> QED
    BY <2>3 DEF Steady
<1> QED
  BY <1>1, AlwaysFits, PTL

==============================================================================
