---------------------------- MODULE WorkspaceProofs ----------------------------
(***************************************************************************)
(* What holds of Workspace for any agents, locked or not, and any projects *)
(* and campaigns: documents and working copies are well formed, and every  *)
(* journal explains its campaign's status.  And what holds when all of     *)
(* them take the lock: names are unique, and no write is lost.             *)
(***************************************************************************)
EXTENDS Workspace, TLAPS

Moves == {"open", "pause", "resume", "close", "archive", "wait", "fail"}

\* What a call holds, at each place, fits the document it is about.
Fits(phase, j) ==
  /\ phase = "load" =>
       \/ j.id \in Projects /\ j.op \in ProjectOps \ {"create", "resolve"}
       \/ j.id \in Campaigns /\ j.op \in CampaignOps \ {"create"}
  /\ phase = "load" /\ j.op = "rename" => j.name \in Names
  /\ phase \in {"list", "check"} =>
       \/ j.op \in {"create", "resolve"} /\ j.name \in Names
       \/ j.op = "rename" /\ j.id \in Projects /\ j.copy \in ProjectDoc
  /\ phase = "remove" => j.id \in Ids
  /\ phase \in {"stage", "replace"} =>
       \/ j.id \in Projects /\ j.copy \in ProjectDoc
       \/ j.id \in Campaigns /\ j.copy \in CampaignDoc /\ Explained(j.copy)

\* The two invariants, and that every call fits.
Inv ==
  /\ TypeOK
  /\ JournalExplainsStatus
  /\ \A a \in Agents : Fits(pc[a], job[a])

USE IdsAssumption

\* No document is the missing one.
LEMMA DocsAreThere == None \notin ProjectDoc /\ None \notin CampaignDoc
BY DEF None, ProjectDoc, CampaignDoc

\* The stored document of a project or of a campaign is one of its kind.
LEMMA Kinds ==
  ASSUME TypeOK
  PROVE  /\ \A p \in Projects : docs[p] # None => docs[p] \in ProjectDoc
         /\ \A c \in Campaigns : docs[c] # None => docs[c] \in CampaignDoc
BY DEF TypeOK, DocsOf, Ids

\* A step that changes one call, and no document, keeps Inv when the call still
\* fits.
LEMMA OneCall ==
  ASSUME Inv, NEW a \in Agents, NEW phase \in Phases, NEW j \in Job, Fits(phase, j),
         pc' = [pc EXCEPT ![a] = phase], job' = [job EXCEPT ![a] = j],
         UNCHANGED <<docs, locked>>, used' \subseteq Ids, writer' \in BOOLEAN,
         calls' \in 0 .. MaxCalls
  PROVE  Inv'
<1>1. TypeOK'
  BY DEF Inv, TypeOK
<1>2. JournalExplainsStatus'
  BY DEF Inv, JournalExplainsStatus
<1>3. \A b \in Agents : Fits(pc'[b], job'[b])
  BY DEF Inv, TypeOK
<1> QED
  BY <1>1, <1>2, <1>3 DEF Inv

\* A call that ends fits, whatever it holds.
LEMMA Ended ==
  ASSUME Inv, NEW a \in Agents, Ends(a), UNCHANGED <<docs, locked>>, used' \subseteq Ids,
         writer' \in BOOLEAN, calls' \in 0 .. MaxCalls
  PROVE  Inv'
<1>1. "end" \in Phases /\ job[a] \in Job /\ job' = [job EXCEPT ![a] = job[a]]
  BY DEF Inv, TypeOK, Phases, Ends
<1>2. Fits("end", job[a])
  BY DEF Fits
<1> QED
  BY <1>1, <1>2, OneCall DEF Ends, Goto

\* A legal move appends its event and keeps the document explained.
LEMMA MoveExplains ==
  ASSUME NEW doc \in CampaignDoc, Explained(doc), NEW op \in Moves,
         CampaignMayMove(op, doc.status)
  PROVE  Journaled(op, doc) \in CampaignDoc /\ Explained(Journaled(op, doc))
<1> DEFINE to == CampaignTarget(op, doc.status)
           e == IF op = "resume" THEN "RESUMED" ELSE to
           j == doc.journal
           d == Journaled(op, doc)
<1>1. doc.status \in CampaignStates /\ to \in CampaignTransitions[doc.status]
  BY DEF CampaignMayMove, CampaignDoc, Legacy
<1>2. to \in CampaignStates
  BY <1>1 DEF CampaignTransitions, CampaignStates
<1>3. e \in Events /\ StateOf(e) = to
  <2>1. CASE op = "resume"
    BY <2>1 DEF CampaignTarget, StateOf, Events
  <2>2. CASE op # "resume"
    BY <1>2, <2>2 DEF StateOf, Events, CampaignStates
  <2> QED
    BY <2>1, <2>2
<1>4. d = [doc EXCEPT !.status = to, !.journal = Append(j, e)]
  BY DEF Journaled, Moved, CampaignDoc
<1>5. j \in Seq(Events) /\ Append(j, e) \in Seq(Events)
  BY <1>3 DEF CampaignDoc
<1>6. d \in CampaignDoc /\ d.status = to /\ d.journal = Append(j, e)
  BY <1>2, <1>4, <1>5 DEF CampaignDoc
<1>7. /\ j # << >> /\ j[1] = "CREATED" /\ StateOf(j[Len(j)]) = doc.status
      /\ \A i \in 1 .. Len(j) - 1 :
           StateOf(j[i + 1]) \in CampaignTransitions[StateOf(j[i])]
  BY <1>1 DEF Explained, CampaignStates, Legacy
<1>8. /\ Len(j) \in Nat \ {0}
      /\ Len(Append(j, e)) = Len(j) + 1
      /\ \A i \in 1 .. Len(j) : Append(j, e)[i] = j[i]
      /\ Append(j, e)[Len(j) + 1] = e
  BY <1>3, <1>5, <1>7
<1>9. \A i \in 1 .. Len(j) :
        StateOf(Append(j, e)[i + 1]) \in CampaignTransitions[StateOf(Append(j, e)[i])]
  <2> TAKE i \in 1 .. Len(j)
  <2>1. CASE i = Len(j)
    BY <1>1, <1>3, <1>7, <1>8, <2>1
  <2>2. CASE i # Len(j)
    <3>1. i \in 1 .. Len(j) - 1 /\ i + 1 \in 1 .. Len(j)
      BY <1>8, <2>2
    <3> QED
      BY <1>7, <1>8, <3>1
  <2> QED
    BY <2>1, <2>2
<1>10. Append(j, e) # << >> /\ Append(j, e)[1] = "CREATED"
  BY <1>7, <1>8
<1>11. StateOf(Append(j, e)[Len(Append(j, e))]) = to
  BY <1>3, <1>8
<1>12. \A i \in 1 .. Len(Append(j, e)) - 1 :
         StateOf(Append(j, e)[i + 1]) \in CampaignTransitions[StateOf(Append(j, e)[i])]
  BY <1>8, <1>9
<1> HIDE DEF d, j, e, to
<1> QED
  BY <1>6, <1>10, <1>11, <1>12 DEF Explained, d

----
(* One lemma for each action that changes what a call holds or a document.  *)

LEMMA CallKeepsInv ==
  ASSUME Inv, NEW a \in Agents,
         \/ \E p \in Projects : CallProject(a, p)
         \/ \E c \in Campaigns : CallCampaign(a, c)
         \/ CallCreate(a)
  PROVE  Inv'
<1>1. PICK op \in ProjectOps \cup CampaignOps, id \in Ids \cup {None},
           name \in Names \cup {NoName}, phase \in {"load", "list", "begin"} :
         /\ Call(a, op, id, name, phase)
         /\ phase = "load" =>
              \/ id \in Projects /\ op \in ProjectOps \ {"create", "resolve"}
              \/ id \in Campaigns /\ op \in CampaignOps \ {"create"}
         /\ phase = "load" /\ op = "rename" => name \in Names
         /\ phase = "list" => op \in {"create", "resolve"} /\ name \in Names
  <2>1. CASE \E p \in Projects : CallProject(a, p)
    BY <2>1 DEF CallProject, ProjectOps, CampaignOps, Ids
  <2>2. CASE \E c \in Campaigns : CallCampaign(a, c)
    BY <2>2 DEF CallCampaign, ProjectOps, CampaignOps, Ids
  <2>3. CASE CallCreate(a)
    BY <2>3 DEF CallCreate, ProjectOps, CampaignOps
  <2> QED
    BY <2>1, <2>2, <2>3
<1> DEFINE j == [op |-> op, id |-> id, name |-> name, copy |-> None, seen |-> {}]
<1>2. j \in Job /\ phase \in Phases
  BY DEF Job, Phases
<1>3. Fits(phase, j)
  BY <1>1 DEF Fits
<1>4. [NoJob EXCEPT !.op = op, !.id = id, !.name = name] = j
  <2> DEFINE j1 == [op |-> op, id |-> None, name |-> NoName, copy |-> None, seen |-> {}]
             j2 == [op |-> op, id |-> id, name |-> NoName, copy |-> None, seen |-> {}]
  <2>1. [NoJob EXCEPT !.op = op] = j1
    BY DEF NoJob
  <2>2. [j1 EXCEPT !.id = id] = j2
    OBVIOUS
  <2>3. [j2 EXCEPT !.name = name] = j
    OBVIOUS
  <2> HIDE DEF j1, j2, j
  <2> QED
    BY <2>1, <2>2, <2>3, Zenon
<1>5. /\ pc' = [pc EXCEPT ![a] = phase] /\ job' = [job EXCEPT ![a] = j]
      /\ UNCHANGED <<docs, used, locked>>
  BY <1>1, <1>4 DEF Call, Goto
<1>6. used' \subseteq Ids /\ writer' \in BOOLEAN /\ calls' \in 0 .. MaxCalls
  BY <1>1, MaxCallsAssumption DEF Call, Inv, TypeOK
<1> HIDE DEF j
<1> QED
  BY <1>2, <1>3, <1>5, <1>6, OneCall

\* MoveCampaign: the new status is in the journal.
LEMMA MoveCampaignKeepsInv ==
  ASSUME Inv, NEW a \in Agents, MoveCampaign(a)
  PROVE  Inv'
<1> DEFINE c == job[a].id
           op == job[a].op
           d == Journaled(op, docs[c])
           j == [job[a] EXCEPT !.copy = d]
<1>1. /\ c \in Campaigns /\ op \in Moves /\ job[a] \in Job
      /\ UNCHANGED <<docs, used, locked, writer, calls>>
  BY DEF MoveCampaign, Inv, TypeOK, Fits, CampaignOps, Moves
<1>2. used' \subseteq Ids /\ writer' \in BOOLEAN /\ calls' \in 0 .. MaxCalls
  BY <1>1 DEF Inv, TypeOK
<1>3. CASE docs[c] # None /\ CampaignMayMove(op, docs[c].status)
  <2>1. docs[c] \in CampaignDoc /\ Explained(docs[c])
    BY <1>1, <1>3, Kinds DEF Inv, JournalExplainsStatus
  <2>2. d \in CampaignDoc /\ Explained(d)
    BY <1>1, <1>3, <2>1, MoveExplains
  <2>3. pc' = [pc EXCEPT ![a] = "stage"] /\ job' = [job EXCEPT ![a] = j]
    BY <1>3 DEF MoveCampaign, Holds, Goto
  <2> HIDE DEF d
  <2>4. j \in Job /\ j.id = c /\ j.copy = d
    BY <1>1, <2>2 DEF Job
  <2>5. Fits("stage", j)
    BY <1>1, <2>2, <2>4 DEF Fits
  <2> HIDE DEF j
  <2> QED
    BY <1>1, <1>2, <2>3, <2>4, <2>5, OneCall DEF Phases
<1>4. CASE ~(docs[c] # None /\ CampaignMayMove(op, docs[c].status))
  <2>1. Ends(a)
    BY <1>4 DEF MoveCampaign
  <2> QED
    BY <1>1, <1>2, <2>1, Ended
<1> QED
  BY <1>3, <1>4

\* UpdateStep: status and journal stay as they are.
LEMMA UpdateStepKeepsInv ==
  ASSUME Inv, NEW a \in Agents, UpdateStep(a)
  PROVE  Inv'
<1> DEFINE c == job[a].id
<1>1. /\ c \in Campaigns /\ job[a] \in Job
      /\ UNCHANGED <<docs, used, locked, writer, calls>>
  BY DEF UpdateStep, Inv, TypeOK, Fits, ProjectOps
<1>2. used' \subseteq Ids /\ writer' \in BOOLEAN /\ calls' \in 0 .. MaxCalls
  BY <1>1 DEF Inv, TypeOK
<1>3. CASE docs[c] # None
  <2>1. docs[c] \in CampaignDoc /\ Explained(docs[c])
    BY <1>1, <1>3, Kinds DEF Inv, JournalExplainsStatus
  <2>2. PICK s \in Steps, to \in StepStates :
          Holds(a, "stage", [docs[c] EXCEPT !.steps[s] = to])
    BY <1>3 DEF UpdateStep
  <2> DEFINE d == [docs[c] EXCEPT !.steps[s] = to]
             j == [job[a] EXCEPT !.copy = d]
  <2>3. d \in CampaignDoc /\ d.status = docs[c].status /\ d.journal = docs[c].journal
    BY <2>1 DEF CampaignDoc
  <2>4. pc' = [pc EXCEPT ![a] = "stage"] /\ job' = [job EXCEPT ![a] = j]
    BY <2>2 DEF Holds, Goto
  <2> HIDE DEF d
  <2>5. Explained(d)
    BY <2>1, <2>3 DEF Explained
  <2>6. j \in Job /\ j.id = c /\ j.copy = d
    BY <1>1, <2>3 DEF Job
  <2>7. Fits("stage", j)
    BY <1>1, <2>3, <2>5, <2>6 DEF Fits
  <2> HIDE DEF j
  <2> QED
    BY <1>1, <1>2, <2>4, <2>6, <2>7, OneCall DEF Phases
<1>4. CASE docs[c] = None
  <2>1. Ends(a)
    BY <1>4 DEF UpdateStep
  <2> QED
    BY <1>1, <1>2, <2>1, Ended
<1> QED
  BY <1>3, <1>4

\* A new campaign's journal has one event, that of its status.
LEMMA CreateCampaignKeepsInv ==
  ASSUME Inv, NEW a \in Agents, CreateCampaign(a)
  PROVE  Inv'
<1>1. PICK c \in Campaigns \ used :
         /\ used' = used \cup {c}
         /\ job' = [job EXCEPT ![a].id = c,
                               ![a].copy = [status |-> "CREATED", journal |-> <<"CREATED">>,
                                            steps |-> [s \in Steps |-> "pending"],
                                            rev |-> 0]]
  BY DEF CreateCampaign
<1> DEFINE d == [status |-> "CREATED", journal |-> <<"CREATED">>,
                 steps |-> [s \in Steps |-> "pending"], rev |-> 0]
           j == [job[a] EXCEPT !.id = c, !.copy = d]
<1>2. "CREATED" \in Events /\ StateOf("CREATED") = "CREATED"
  BY DEF Events, CampaignStates, StateOf
<1>3. d \in CampaignDoc
  BY <1>2 DEF CampaignDoc, CampaignStates, StepStates
<1>4. Explained(d)
  BY <1>2 DEF Explained
<1>5. pc' = [pc EXCEPT ![a] = "stage"] /\ job' = [job EXCEPT ![a] = j]
  BY <1>1 DEF CreateCampaign, Goto, Inv, TypeOK
<1>6. job[a] \in Job /\ UNCHANGED <<docs, locked, writer, calls>>
  BY DEF CreateCampaign, Inv, TypeOK
<1> HIDE DEF d
<1>7. j \in Job /\ j.id = c /\ j.copy = d
  BY <1>3, <1>6 DEF Job, Ids
<1>8. Fits("stage", j)
  BY <1>3, <1>4, <1>7 DEF Fits
<1>9. used' \subseteq Ids /\ writer' \in BOOLEAN /\ calls' \in 0 .. MaxCalls
  BY <1>1, <1>6 DEF Inv, TypeOK, Ids
<1> HIDE DEF j
<1> QED
  BY <1>5, <1>6, <1>7, <1>8, <1>9, OneCall DEF Phases

LEMMA BeginDeleteKeepsInv ==
  ASSUME Inv, NEW a \in Agents, BeginDelete(a)
  PROVE  Inv'
<1>1. /\ job[a] \in Job /\ job[a].id \in Ids
      /\ UNCHANGED <<docs, used, locked, writer, calls>>
  BY DEF BeginDelete, Inv, TypeOK, Fits, Ids
<1>2. used' \subseteq Ids /\ writer' \in BOOLEAN /\ calls' \in 0 .. MaxCalls
  BY <1>1 DEF Inv, TypeOK
<1>3. CASE Ends(a)
  BY <1>1, <1>2, <1>3, Ended
<1>4. CASE Goto(a, "remove") /\ UNCHANGED job
  <2>1. Fits("remove", job[a]) /\ job' = [job EXCEPT ![a] = job[a]]
    BY <1>1, <1>4 DEF Fits, Inv, TypeOK
  <2> QED
    BY <1>1, <1>2, <1>4, <2>1, OneCall DEF Goto, Phases
<1> QED
  BY <1>3, <1>4 DEF BeginDelete

LEMMA MoveProjectKeepsInv ==
  ASSUME Inv, NEW a \in Agents, MoveProject(a)
  PROVE  Inv'
<1> DEFINE p == job[a].id
           to == ProjectTarget[job[a].op]
           d == Moved(docs[p], to)
           j == [job[a] EXCEPT !.copy = d]
<1>1. /\ p \in Projects /\ job[a] \in Job /\ to \in ProjectStates
      /\ UNCHANGED <<docs, used, locked, writer, calls>>
  BY DEF MoveProject, ProjectTarget, ProjectStates, Inv, TypeOK
<1>2. used' \subseteq Ids /\ writer' \in BOOLEAN /\ calls' \in 0 .. MaxCalls
  BY <1>1 DEF Inv, TypeOK
<1>3. CASE docs[p] # None /\ Holds(a, "stage", d)
  <2>1. d \in ProjectDoc
    BY <1>1, <1>3, Kinds DEF Inv, ProjectDoc, Moved
  <2>2. pc' = [pc EXCEPT ![a] = "stage"] /\ job' = [job EXCEPT ![a] = j]
    BY <1>3 DEF Holds, Goto
  <2> HIDE DEF d
  <2>3. j \in Job /\ j.id = p /\ j.copy = d
    BY <1>1, <2>1 DEF Job
  <2>4. Fits("stage", j)
    BY <1>1, <2>1, <2>3 DEF Fits
  <2> HIDE DEF j
  <2> QED
    BY <1>1, <1>2, <2>2, <2>3, <2>4, OneCall DEF Phases
<1>4. CASE Ends(a)
  BY <1>1, <1>2, <1>4, Ended
<1> QED
  BY <1>3, <1>4 DEF MoveProject

LEMMA RenameKeepsInv ==
  ASSUME Inv, NEW a \in Agents, Rename(a)
  PROVE  Inv'
<1> DEFINE p == job[a].id
           d == [docs[p] EXCEPT !.name = job[a].name]
           j == [job[a] EXCEPT !.copy = d]
<1>1. /\ p \in Projects /\ job[a] \in Job /\ job[a].name \in Names
      /\ job[a].op = "rename"
      /\ UNCHANGED <<docs, used, locked, writer, calls>>
  BY DEF Rename, Inv, TypeOK, Fits, CampaignOps
<1>2. used' \subseteq Ids /\ writer' \in BOOLEAN /\ calls' \in 0 .. MaxCalls
  BY <1>1 DEF Inv, TypeOK
<1>3. CASE docs[p] # None /\ Holds(a, "list", d)
  <2>1. d \in ProjectDoc
    BY <1>1, <1>3, Kinds DEF Inv, ProjectDoc
  <2>2. pc' = [pc EXCEPT ![a] = "list"] /\ job' = [job EXCEPT ![a] = j]
    BY <1>3 DEF Holds, Goto
  <2> HIDE DEF d
  <2>3. j \in Job /\ j.id = p /\ j.copy = d /\ j.op = "rename"
    BY <1>1, <2>1 DEF Job
  <2>4. Fits("list", j)
    BY <1>1, <2>1, <2>3 DEF Fits
  <2> HIDE DEF j
  <2> QED
    BY <1>1, <1>2, <2>2, <2>3, <2>4, OneCall DEF Phases
<1>4. CASE Ends(a)
  BY <1>1, <1>2, <1>4, Ended
<1> QED
  BY <1>3, <1>4 DEF Rename

\* The search for the name.
LEMMA SearchKeepsInv ==
  ASSUME Inv, NEW a \in Agents, ListIds(a) \/ Vanished(a) \/ Taken(a) \/ Free(a)
  PROVE  Inv'
<1>1. job[a] \in Job /\ pc[a] \in {"list", "check"}
  BY DEF ListIds, Vanished, Taken, Free, Inv, TypeOK
<1>2. \/ job[a].op \in {"create", "resolve"} /\ job[a].name \in Names
      \/ job[a].op = "rename" /\ job[a].id \in Projects /\ job[a].copy \in ProjectDoc
  BY <1>1 DEF Inv, Fits
<1>3. UNCHANGED <<docs, locked, writer, calls>>
  BY DEF ListIds, Vanished, Taken, Free
<1>4. writer' \in BOOLEAN /\ calls' \in 0 .. MaxCalls
  BY <1>3 DEF Inv, TypeOK
<1>5. CASE ListIds(a)
  <2> DEFINE j == [job[a] EXCEPT !.seen = Stored \cap Projects]
  <2>1. j \in Job /\ j.op = job[a].op /\ j.id = job[a].id /\ j.name = job[a].name
        /\ j.copy = job[a].copy
    BY <1>1 DEF Job
  <2>2. Fits("check", j)
    BY <1>2, <2>1 DEF Fits
  <2>3. pc' = [pc EXCEPT ![a] = "check"] /\ job' = [job EXCEPT ![a] = j] /\ used' = used
    BY <1>5 DEF ListIds, Goto
  <2>4. used' \subseteq Ids
    BY <2>3 DEF Inv, TypeOK
  <2> HIDE DEF j
  <2> QED
    BY <1>3, <1>4, <2>1, <2>2, <2>3, <2>4, OneCall DEF Phases
<1>6. CASE Vanished(a) \/ Taken(a)
  <2>1. Ends(a) /\ used' \subseteq Ids
    BY <1>6 DEF Vanished, Taken, Inv, TypeOK
  <2> QED
    BY <1>3, <1>4, <2>1, Ended
<1>7. CASE Free(a) /\ job[a].op = "resolve"
  <2> DEFINE j == [job[a] EXCEPT !.op = "create"]
  <2>1. pc' = [pc EXCEPT ![a] = "list"] /\ job' = [job EXCEPT ![a] = j] /\ used' = used
    BY <1>7 DEF Free, Goto
  <2>2. j \in Job /\ j.op = "create" /\ j.name = job[a].name
    BY <1>1 DEF Job, ProjectOps
  <2>3. Fits("list", j)
    BY <1>2, <1>7, <2>2 DEF Fits
  <2>4. used' \subseteq Ids
    BY <2>1 DEF Inv, TypeOK
  <2> HIDE DEF j
  <2> QED
    BY <1>3, <1>4, <2>1, <2>2, <2>3, <2>4, OneCall DEF Phases
<1>8. CASE Free(a) /\ job[a].op = "create"
  <2>1. PICK p \in Projects \ used :
          /\ used' = used \cup {p}
          /\ job' = [job EXCEPT ![a].id = p,
                       ![a].copy = [status |-> "CREATED", name |-> job[a].name,
                                    rev |-> 0]]
    BY <1>8 DEF Free
  <2> DEFINE d == [status |-> "CREATED", name |-> job[a].name, rev |-> 0]
             j == [job[a] EXCEPT !.id = p, !.copy = d]
  <2>2. d \in ProjectDoc
    BY <1>2, <1>8 DEF ProjectDoc, ProjectStates
  <2>3. pc' = [pc EXCEPT ![a] = "stage"] /\ job' = [job EXCEPT ![a] = j]
    BY <1>8, <2>1 DEF Free, Goto, Inv, TypeOK
  <2> HIDE DEF d
  <2>4. j \in Job /\ j.id = p /\ j.copy = d
    BY <1>1, <2>2 DEF Job, Ids
  <2>5. Fits("stage", j)
    BY <2>2, <2>4 DEF Fits
  <2>6. used' \subseteq Ids
    BY <2>1 DEF Inv, TypeOK, Ids
  <2> HIDE DEF j
  <2> QED
    BY <1>3, <1>4, <2>3, <2>4, <2>5, <2>6, OneCall DEF Phases
<1>9. CASE Free(a) /\ job[a].op = "rename"
  <2>1. /\ pc' = [pc EXCEPT ![a] = "stage"] /\ job' = [job EXCEPT ![a] = job[a]]
        /\ used' = used
    BY <1>9 DEF Free, Goto, Inv, TypeOK
  <2>2. Fits("stage", job[a]) /\ used' \subseteq Ids
    BY <1>2, <1>9, <2>1 DEF Fits, Inv, TypeOK
  <2> QED
    BY <1>1, <1>3, <1>4, <2>1, <2>2, OneCall DEF Phases
<1> QED
  BY <1>5, <1>6, <1>7, <1>8, <1>9 DEF Free

\* The envelope changes nothing but the revision.
LEMMA StageKeepsInv ==
  ASSUME Inv, NEW a \in Agents, Stage(a)
  PROVE  Inv'
<1>1. job[a] \in Job /\ UNCHANGED <<docs, used, locked, writer, calls>>
  BY DEF Stage, Inv, TypeOK
<1>2. \/ job[a].id \in Projects /\ job[a].copy \in ProjectDoc
      \/ job[a].id \in Campaigns /\ job[a].copy \in CampaignDoc /\ Explained(job[a].copy)
  BY DEF Stage, Inv, Fits
<1>3. used' \subseteq Ids /\ writer' \in BOOLEAN /\ calls' \in 0 .. MaxCalls
  BY <1>1 DEF Inv, TypeOK
<1>4. ASSUME NEW rev \in Nat, job' = [job EXCEPT ![a].copy.rev = rev], Goto(a, "replace")
      PROVE  Inv'
  <2> DEFINE d == [job[a].copy EXCEPT !.rev = rev]
             j == [job[a] EXCEPT !.copy = d]
  <2>1. job' = [job EXCEPT ![a] = j] /\ pc' = [pc EXCEPT ![a] = "replace"]
    BY <1>4 DEF Goto
  <2>2. job[a].id \in Projects => d \in ProjectDoc
    BY <1>2 DEF ProjectDoc
  <2>3. job[a].id \in Campaigns => /\ d \in CampaignDoc
                                   /\ d.status = job[a].copy.status
                                   /\ d.journal = job[a].copy.journal
    BY <1>2 DEF CampaignDoc
  <2> HIDE DEF d
  <2>4. job[a].id \in Campaigns => Explained(d)
    BY <1>2, <2>3 DEF Explained
  <2>5. j \in Job /\ j.id = job[a].id /\ j.copy = d
    BY <1>1, <1>2, <2>2, <2>3 DEF Job
  <2>6. Fits("replace", j)
    BY <1>2, <2>2, <2>3, <2>4, <2>5 DEF Fits
  <2> HIDE DEF j
  <2> QED
    BY <1>1, <1>3, <2>1, <2>5, <2>6, OneCall DEF Phases
<1>5. CASE docs[job[a].id] # None /\ job' = [job EXCEPT ![a].copy.rev = docs[job[a].id].rev + 1]
           /\ Goto(a, "replace")
  <2>1. docs[job[a].id].rev + 1 \in Nat
    BY <1>2, <1>5, Kinds DEF Inv, ProjectDoc, CampaignDoc
  <2> QED
    BY <1>4, <1>5, <2>1
<1>6. CASE job' = [job EXCEPT ![a].copy.rev = 1] /\ Goto(a, "replace")
  BY <1>4, <1>6
<1>7. CASE Ends(a)
  BY <1>1, <1>3, <1>7, Ended
<1> QED
  BY <1>5, <1>6, <1>7 DEF Stage

\* A document is replaced by one of its kind, a campaign's by an explained one;
\* or it goes.
LEMMA WriteKeepsInv ==
  ASSUME Inv, NEW a \in Agents, Replace(a) \/ RemoveDocument(a)
  PROVE  Inv'
<1> DEFINE id == job[a].id
<1>1. /\ pc' = [pc EXCEPT ![a] = "end"] /\ job' = job
      /\ UNCHANGED <<used, locked, writer, calls>>
  BY DEF Replace, RemoveDocument, Ends, Goto
<1>2. PICK d \in ProjectDoc \cup CampaignDoc \cup {None} :
        /\ docs' = [docs EXCEPT ![id] = d]
        /\ id \in Ids
        /\ d # None => \/ id \in Projects /\ d \in ProjectDoc
                       \/ id \in Campaigns /\ d \in CampaignDoc /\ Explained(d)
  <2>1. CASE Replace(a)
    BY <2>1 DEF Replace, Inv, Fits, Ids
  <2>2. CASE RemoveDocument(a)
    BY <2>2 DEF RemoveDocument, Inv, Fits, Ids
  <2> QED
    BY <2>1, <2>2
<1>3. d \in DocsOf(id) \cup {None}
  BY <1>2 DEF DocsOf
<1>4. TypeOK'
  <2>1. docs' \in [Ids -> ProjectDoc \cup CampaignDoc \cup {None}]
    BY <1>2 DEF Inv, TypeOK
  <2>2. \A i \in Ids : docs'[i] \in DocsOf(i) \cup {None}
    BY <1>2, <1>3 DEF Inv, TypeOK
  <2>3. pc' \in [Agents -> Phases]
    BY <1>1 DEF Inv, TypeOK, Phases
  <2> QED
    BY <1>1, <2>1, <2>2, <2>3 DEF Inv, TypeOK
<1>5. JournalExplainsStatus'
  BY <1>2 DEF Inv, TypeOK, JournalExplainsStatus, Ids
<1>6. \A b \in Agents : Fits(pc'[b], job'[b])
  BY <1>1 DEF Inv, TypeOK, Fits
<1> QED
  BY <1>4, <1>5, <1>6 DEF Inv

LEMMA CrashKeepsInv ==
  ASSUME Inv, NEW dead \in SUBSET Agents, Crash(dead)
  PROVE  Inv'
<1>1. /\ pc' = [a \in Agents |-> IF a \in dead THEN "idle" ELSE pc[a]]
      /\ job' = [a \in Agents |-> IF a \in dead THEN NoJob ELSE job[a]]
      /\ writer' \in BOOLEAN
      /\ UNCHANGED <<docs, used, locked, calls>>
  BY DEF Crash, Inv, TypeOK
<1>2. NoJob \in Job /\ "idle" \in Phases
  BY DEF NoJob, Job, Phases
<1>3. TypeOK'
  BY <1>1, <1>2 DEF Inv, TypeOK
<1>4. JournalExplainsStatus'
  BY <1>1 DEF Inv, JournalExplainsStatus
<1>5. \A b \in Agents : Fits(pc'[b], job'[b])
  BY <1>1 DEF Inv, Fits
<1> QED
  BY <1>3, <1>4, <1>5 DEF Inv

LEMMA InitInv == Init => Inv
<1> SUFFICES ASSUME Init PROVE Inv
  OBVIOUS
<1>1. NoJob \in Job
  BY DEF NoJob, Job
<1>2. TypeOK
  <2>1. /\ docs \in [Ids -> ProjectDoc \cup CampaignDoc \cup {None}]
        /\ \A id \in Ids : docs[id] \in DocsOf(id) \cup {None}
    BY InitialDocsAssumption DEF Init
  <2>2. pc \in [Agents -> Phases]
    BY DEF Init, Phases
  <2>3. job \in [Agents -> Job]
    BY <1>1, Zenon DEF Init
  <2>4. used \subseteq Ids /\ locked \in Deployments
    BY DEF Init
  <2>5. calls \in 0 .. MaxCalls
    BY MaxCallsAssumption DEF Init
  <2>6. writer \in BOOLEAN
    BY DEF Init
  <2> QED
    BY <2>1, <2>2, <2>3, <2>4, <2>5, <2>6 DEF TypeOK
<1>3. JournalExplainsStatus
  BY InitialDocsAssumption DEF Init, JournalExplainsStatus
<1>4. \A a \in Agents : Fits(pc[a], job[a])
  BY DEF Init, Fits
<1> QED
  BY <1>2, <1>3, <1>4 DEF Inv

LEMMA NextInv == Inv /\ [Next]_vars => Inv'
<1> SUFFICES ASSUME Inv, [Next]_vars PROVE Inv'
  OBVIOUS
<1>1. CASE UNCHANGED vars
  BY <1>1 DEF vars, Inv, TypeOK, JournalExplainsStatus
<1>2. ASSUME NEW a \in Agents, Return(a) PROVE Inv'
  <2>1. NoJob \in Job /\ Fits("idle", NoJob)
    BY DEF NoJob, Job, Fits
  <2>2. used' \subseteq Ids /\ writer' \in BOOLEAN /\ calls' \in 0 .. MaxCalls
    BY <1>2 DEF Return, Inv, TypeOK
  <2> QED
    BY <1>2, <2>1, <2>2, OneCall DEF Return, Goto, Phases
<1>3. ASSUME NEW a \in Agents, Fail(a) PROVE Inv'
  <2>1. used' \subseteq Ids /\ writer' \in BOOLEAN /\ calls' \in 0 .. MaxCalls
    BY <1>3 DEF Fail, Inv, TypeOK
  <2> QED
    BY <1>3, <2>1, Ended DEF Fail
<1> QED
  BY <1>1, <1>2, <1>3, CallKeepsInv, MoveCampaignKeepsInv, UpdateStepKeepsInv,
     CreateCampaignKeepsInv, BeginDeleteKeepsInv, MoveProjectKeepsInv, RenameKeepsInv,
     SearchKeepsInv, StageKeepsInv, WriteKeepsInv, CrashKeepsInv
     DEF Next

LEMMA Invariance == Spec => []Inv
<1> QED
  BY InitInv, NextInv, PTL DEF Spec

----
(* Every caller under the lock: a call works on documents nobody else      *)
(* touches, so what it holds is still what the disk says when it writes.   *)

\* d was made from the stored document of id.
MadeFrom(id, d) ==
  /\ docs[id] # None
  /\ id \in Projects => \/ d.status = docs[id].status
                        \/ d.status \in ProjectTransitions[docs[id].status]
  /\ id \in Campaigns => /\ IsPrefix(docs[id].journal, d.journal)
                         /\ \/ d.status = docs[id].status
                            \/ d.status \in CampaignTransitions[docs[id].status]

NameIsFree(id, name) == \A p \in Projects \cap Stored : docs[p].name = name => p = id

NoNamesakes ==
  \A p, q \in Projects \cap Stored : docs[p].name = docs[q].name => p = q

\* What a call holds, at each place, is true of the disk.
Current(phase, j) ==
  /\ phase = "begin" => j.op = "create"
  /\ phase \in {"list", "check"} =>
       \/ j.op \in {"create", "resolve"} /\ j.id = None
       \/ j.op = "rename" /\ MadeFrom(j.id, j.copy) /\ j.copy.name = j.name
  /\ phase = "check" => j.seen = Stored \cap Projects
  /\ phase \in {"stage", "replace"} =>
       /\ docs[j.id] = None => j.op = "create"
       /\ docs[j.id] # None => MadeFrom(j.id, j.copy)
       /\ j.id \in Projects => NameIsFree(j.id, j.copy.name)
  /\ phase = "replace" /\ docs[j.id] # None => j.copy.rev = docs[j.id].rev + 1

\* An agent at work has the lock, and is the only one.
Alone ==
  \A a \in Agents : pc[a] # "idle" => writer /\ \A b \in Agents \ {a} : pc[b] = "idle"

Solo ==
  /\ Alone
  /\ Stored \subseteq used
  /\ NoNamesakes
  /\ \A a \in Agents : /\ pc[a] \in {"stage", "replace"} => job[a].id \in used
                       /\ Current(pc[a], job[a])

\* The lock is never taken from a deployment in which everybody takes it.
LockedInv == Inv /\ (Serialized => Solo)

\* A sequence is a prefix of itself and of what is appended to it.
LEMMA JournalsGrow ==
  ASSUME NEW h \in Seq(Events), NEW e \in Events
  PROVE  IsPrefix(h, h) /\ IsPrefix(h, Append(h, e))
<1>1. /\ Len(h) \in Nat /\ Len(Append(h, e)) = Len(h) + 1
      /\ \A i \in 1 .. Len(h) : Append(h, e)[i] = h[i]
  OBVIOUS
<1>2. SubSeq(h, 1, Len(h)) = SubSeq(Append(h, e), 1, Len(h))
  BY <1>1
<1> QED
  BY <1>1, <1>2 DEF IsPrefix

\* A step of one call that changes no document keeps Solo when what the call
\* holds is true of the disk.
LEMMA OneSoloCall ==
  ASSUME Inv, Solo, NEW a \in Agents, NEW phase \in Phases, NEW j \in Job,
         Current(phase, j), phase \in {"stage", "replace"} => j.id \in used',
         writer', \A b \in Agents \ {a} : pc[b] = "idle",
         pc' = [pc EXCEPT ![a] = phase], job' = [job EXCEPT ![a] = j],
         docs' = docs, used \subseteq used'
  PROVE  Solo'
<1>1. /\ pc'[a] = phase /\ job'[a] = j
      /\ \A b \in Agents \ {a} : pc'[b] = "idle" /\ job'[b] = job[b]
  BY DEF Inv, TypeOK
<1>2. Alone'
  BY <1>1 DEF Alone
<1>3. (Stored \subseteq used)' /\ NoNamesakes'
  BY DEF Solo, Stored, NoNamesakes
<1>4. \A b \in Agents : Current(pc[b], job[b])' 
  <2> TAKE b \in Agents
  <2>1. CASE b = a
    <3>1. Current(pc[b], job[b])' = Current(phase, j)
      BY <1>1, <2>1 DEF Current, MadeFrom, NameIsFree, Stored
    <3> QED
      BY <3>1
  <2>2. CASE b # a
    BY <1>1, <2>2 DEF Current
  <2> QED
    BY <2>1, <2>2
<1>5. \A b \in Agents : pc'[b] \in {"stage", "replace"} => job'[b].id \in used'
  BY <1>1
<1> QED
  BY <1>2, <1>3, <1>4, <1>5 DEF Solo

\* A call that is under way has the lock to itself.
LEMMA AtWork ==
  ASSUME Solo, NEW a \in Agents, pc[a] # "idle"
  PROVE  writer /\ \A b \in Agents \ {a} : pc[b] = "idle"
BY DEF Solo, Alone

\* A call that ends holds nothing that could be out of date.
LEMMA SoloEnds ==
  ASSUME Inv, Solo, NEW a \in Agents, pc[a] # "idle", Ends(a),
         UNCHANGED <<docs, used, writer>>
  PROVE  Solo'
<1>1. "end" \in Phases /\ job[a] \in Job /\ job' = [job EXCEPT ![a] = job[a]]
  BY DEF Inv, TypeOK, Phases, Ends
<1>2. Current("end", job[a])
  BY DEF Current
<1> QED
  BY <1>1, <1>2, OneSoloCall, AtWork DEF Ends, Goto

\* A call goes on to the save with a document made from the stored one.
LEMMA SoloStages ==
  ASSUME Inv, Solo, NEW a \in Agents, pc[a] # "idle",
         NEW d \in ProjectDoc \cup CampaignDoc, Holds(a, "stage", d),
         job[a].id \in Ids, MadeFrom(job[a].id, d),
         job[a].id \in Projects => d.name = docs[job[a].id].name,
         UNCHANGED <<docs, used, writer>>
  PROVE  Solo'
<1> DEFINE id == job[a].id
           j == [job[a] EXCEPT !.copy = d]
<1>1. j \in Job /\ j.id = id /\ j.copy = d /\ job[a] \in Job
  BY DEF Inv, TypeOK, Job
<1>2. docs[id] # None /\ id \in used
  BY DEF MadeFrom, Solo, Stored
<1>3. id \in Projects => NameIsFree(id, d.name)
  BY <1>2 DEF Solo, NoNamesakes, NameIsFree, Stored
<1>4. pc' = [pc EXCEPT ![a] = "stage"] /\ job' = [job EXCEPT ![a] = j]
  BY DEF Holds, Goto
<1> HIDE DEF j
<1>5. Current("stage", j)
  BY <1>1, <1>2, <1>3 DEF Current
<1> QED
  BY <1>1, <1>2, <1>4, <1>5, OneSoloCall, AtWork DEF Phases

\* The first step of a call finds everybody idle.
LEMMA SoloCalls ==
  ASSUME Inv, Solo, Serialized, NEW a \in Agents,
         \/ \E p \in Projects : CallProject(a, p)
         \/ \E c \in Campaigns : CallCampaign(a, c)
         \/ CallCreate(a)
  PROVE  Solo'
<1>1. PICK op \in ProjectOps \cup CampaignOps, id \in Ids \cup {None},
           name \in Names \cup {NoName}, phase \in {"load", "list", "begin"} :
         /\ Call(a, op, id, name, phase)
         /\ phase = "list" => op \in {"create", "resolve"} /\ id = None
         /\ phase = "begin" => op = "create"
  <2>1. CASE \E p \in Projects : CallProject(a, p)
    BY <2>1 DEF CallProject, ProjectOps, CampaignOps, Ids
  <2>2. CASE \E c \in Campaigns : CallCampaign(a, c)
    BY <2>2 DEF CallCampaign, ProjectOps, CampaignOps, Ids
  <2>3. CASE CallCreate(a)
    BY <2>3 DEF CallCreate, ProjectOps, CampaignOps
  <2> QED
    BY <2>1, <2>2, <2>3
<1>2. /\ ~writer /\ writer' /\ pc' = [pc EXCEPT ![a] = phase]
      /\ job' = [job EXCEPT ![a] = [NoJob EXCEPT !.op = op, !.id = id, !.name = name]]
      /\ UNCHANGED <<docs, used, locked>>
  BY <1>1 DEF Call, Goto, Serialized
<1> DEFINE j == [NoJob EXCEPT !.op = op, !.id = id, !.name = name]
<1>3. j.op = op /\ j.id = id
  BY DEF NoJob
<1>4. Current(phase, j)
  BY <1>1, <1>3 DEF Current
<1>5. \A b \in Agents : pc[b] = "idle"
  BY <1>2 DEF Solo, Alone
<1>6. Inv'
  BY CallKeepsInv
<1>7. j \in Job
  BY <1>2, <1>6 DEF Inv, TypeOK
<1>8. job' = [job EXCEPT ![a] = j]
  BY <1>2
<1>9. phase \in Phases /\ phase \notin {"stage", "replace"} /\ used \subseteq used'
  BY <1>2 DEF Phases
<1> HIDE DEF j
<1> QED
  BY <1>2, <1>4, <1>5, <1>7, <1>8, <1>9, OneSoloCall

LEMMA SoloMovesCampaign ==
  ASSUME Inv, Solo, NEW a \in Agents, MoveCampaign(a)
  PROVE  Solo'
<1> DEFINE c == job[a].id
           op == job[a].op
           d == Journaled(op, docs[c])
<1>1. /\ pc[a] = "load" /\ c \in Campaigns /\ op \in Moves
      /\ UNCHANGED <<docs, used, writer>>
  BY DEF MoveCampaign, Inv, TypeOK, Fits, CampaignOps, Moves
<1>2. CASE docs[c] # None /\ CampaignMayMove(op, docs[c].status)
  <2>1. docs[c] \in CampaignDoc /\ Explained(docs[c])
    BY <1>1, <1>2, Kinds DEF Inv, JournalExplainsStatus
  <2>2. d \in CampaignDoc
    BY <1>1, <1>2, <2>1, MoveExplains
  <2>3. /\ CampaignTarget(op, docs[c].status) \in CampaignTransitions[docs[c].status]
        /\ docs[c].status \in CampaignStates
    BY <1>2, <2>1 DEF CampaignMayMove, CampaignDoc, Legacy
  <2>4. d.status = CampaignTarget(op, docs[c].status)
    BY <2>1 DEF Journaled, Moved, CampaignDoc
  <2>5. PICK e \in Events : d.journal = Append(docs[c].journal, e)
    <3>1. CASE op = "resume"
      BY <2>1, <3>1 DEF Journaled, Moved, CampaignDoc, Events
    <3>2. CASE op # "resume"
      <4>1. CampaignTarget(op, docs[c].status) \in Events
        BY <2>3 DEF Events, CampaignTransitions, CampaignStates
      <4>2. d.journal = Append(docs[c].journal, CampaignTarget(op, docs[c].status))
        BY <2>1, <3>2 DEF Journaled, Moved, CampaignDoc
      <4> HIDE DEF d
      <4> QED
        BY <4>1, <4>2
    <3> QED
      BY <3>1, <3>2
  <2>6. IsPrefix(docs[c].journal, d.journal)
    BY <2>1, <2>5, JournalsGrow DEF CampaignDoc
  <2>7. Holds(a, "stage", d)
    BY <1>2 DEF MoveCampaign
  <2> HIDE DEF d
  <2>8. MadeFrom(c, d) /\ c \notin Projects /\ c \in Ids
    BY <1>1, <1>2, <2>3, <2>4, <2>6 DEF MadeFrom, Ids
  <2> QED
    BY <1>1, <2>2, <2>7, <2>8, SoloStages
<1>3. CASE ~(docs[c] # None /\ CampaignMayMove(op, docs[c].status))
  BY <1>1, <1>3, SoloEnds DEF MoveCampaign
<1> QED
  BY <1>2, <1>3

LEMMA SoloUpdatesStep ==
  ASSUME Inv, Solo, NEW a \in Agents, UpdateStep(a)
  PROVE  Solo'
<1> DEFINE c == job[a].id
<1>1. pc[a] = "load" /\ c \in Campaigns /\ UNCHANGED <<docs, used, writer>>
  BY DEF UpdateStep, Inv, TypeOK, Fits, ProjectOps
<1>2. CASE docs[c] # None
  <2>1. docs[c] \in CampaignDoc
    BY <1>1, <1>2, Kinds DEF Inv
  <2>2. PICK s \in Steps, to \in StepStates :
          Holds(a, "stage", [docs[c] EXCEPT !.steps[s] = to])
    BY <1>2 DEF UpdateStep
  <2> DEFINE d == [docs[c] EXCEPT !.steps[s] = to]
  <2>3. d \in CampaignDoc /\ d.status = docs[c].status /\ d.journal = docs[c].journal
    BY <2>1 DEF CampaignDoc
  <2>4. IsPrefix(docs[c].journal, d.journal)
    <3>1. docs[c].journal \in Seq(Events) /\ "RESUMED" \in Events
      BY <2>1 DEF CampaignDoc, Events
    <3> QED
      BY <2>3, <3>1, JournalsGrow
  <2> HIDE DEF d
  <2>5. MadeFrom(c, d) /\ c \notin Projects /\ c \in Ids
    BY <1>1, <1>2, <2>3, <2>4 DEF MadeFrom, Ids
  <2> QED
    BY <1>1, <2>2, <2>3, <2>5, SoloStages DEF d
<1>3. CASE docs[c] = None
  BY <1>1, <1>3, SoloEnds DEF UpdateStep
<1> QED
  BY <1>2, <1>3

LEMMA SoloMovesProject ==
  ASSUME Inv, Solo, NEW a \in Agents, MoveProject(a)
  PROVE  Solo'
<1> DEFINE p == job[a].id
           to == ProjectTarget[job[a].op]
           d == Moved(docs[p], to)
<1>1. /\ pc[a] = "load" /\ p \in Projects /\ to \in ProjectStates
      /\ UNCHANGED <<docs, used, writer>>
  BY DEF MoveProject, ProjectTarget, ProjectStates
<1>2. CASE /\ docs[p] # None /\ to \in ProjectTransitions[docs[p].status]
           /\ Holds(a, "stage", d)
  <2>1. docs[p] \in ProjectDoc
    BY <1>1, <1>2, Kinds DEF Inv
  <2>2. d \in ProjectDoc /\ d.status = to /\ d.name = docs[p].name
    BY <1>1, <2>1 DEF ProjectDoc, Moved
  <2> HIDE DEF d, to
  <2>3. MadeFrom(p, d) /\ p \in Ids
    BY <1>1, <1>2, <2>2 DEF MadeFrom, Ids
  <2> QED
    BY <1>1, <1>2, <2>2, <2>3, SoloStages
<1>3. CASE Ends(a)
  BY <1>1, <1>3, SoloEnds
<1> QED
  BY <1>2, <1>3 DEF MoveProject

LEMMA SoloRenames ==
  ASSUME Inv, Solo, NEW a \in Agents, Rename(a)
  PROVE  Solo'
<1> DEFINE p == job[a].id
           d == [docs[p] EXCEPT !.name = job[a].name]
           j == [job[a] EXCEPT !.copy = d]
<1>1. /\ pc[a] = "load" /\ job[a].op = "rename" /\ p \in Projects /\ job[a] \in Job
      /\ job[a].name \in Names /\ UNCHANGED <<docs, used, writer>>
  BY DEF Rename, Inv, TypeOK, Fits, CampaignOps
<1>2. CASE docs[p] # None /\ Holds(a, "list", d)
  <2>1. docs[p] \in ProjectDoc
    BY <1>1, <1>2, Kinds DEF Inv
  <2>2. d \in ProjectDoc /\ d.status = docs[p].status /\ d.name = job[a].name
    BY <1>1, <2>1 DEF ProjectDoc
  <2> HIDE DEF d
  <2>3. /\ j \in Job /\ j.id = p /\ j.copy = d /\ j.op = "rename" /\ j.name = job[a].name
    BY <1>1, <2>2 DEF Job
  <2>4. pc' = [pc EXCEPT ![a] = "list"] /\ job' = [job EXCEPT ![a] = j]
    BY <1>2 DEF Holds, Goto
  <2> HIDE DEF j
  <2>5. MadeFrom(p, d)
    BY <1>1, <1>2, <2>2 DEF MadeFrom
  <2>6. Current("list", j)
    BY <2>2, <2>3, <2>5 DEF Current
  <2> QED
    BY <1>1, <2>3, <2>4, <2>6, OneSoloCall, AtWork DEF Phases
<1>3. CASE Ends(a)
  BY <1>1, <1>3, SoloEnds
<1> QED
  BY <1>2, <1>3 DEF Rename

\* The new id is of no document.
LEMMA SoloCreatesCampaign ==
  ASSUME Inv, Solo, NEW a \in Agents, CreateCampaign(a)
  PROVE  Solo'
<1>1. pc[a] = "begin" /\ job[a].op = "create" /\ job[a] \in Job /\ UNCHANGED <<docs, writer>>
  BY DEF CreateCampaign, Solo, Current, Inv, TypeOK
<1>2. PICK c \in Campaigns \ used :
         /\ used' = used \cup {c}
         /\ job' = [job EXCEPT ![a].id = c,
                               ![a].copy = [status |-> "CREATED", journal |-> <<"CREATED">>,
                                            steps |-> [s \in Steps |-> "pending"],
                                            rev |-> 0]]
  BY DEF CreateCampaign
<1> DEFINE d == [status |-> "CREATED", journal |-> <<"CREATED">>,
                 steps |-> [s \in Steps |-> "pending"], rev |-> 0]
           j == [job[a] EXCEPT !.id = c, !.copy = d]
<1>3. pc' = [pc EXCEPT ![a] = "stage"] /\ job' = [job EXCEPT ![a] = j]
  BY <1>2 DEF CreateCampaign, Goto, Inv, TypeOK
<1> HIDE DEF d
<1>4. j.id = c /\ j.op = "create"
  BY <1>1 DEF Job
<1>5. docs[c] = None /\ c \notin Projects
  BY DEF Solo, Stored, Ids
<1>6. Current("stage", j)
  BY <1>4, <1>5 DEF Current
<1>7. Inv'
  BY CreateCampaignKeepsInv
<1>8. j \in Job
  BY <1>3, <1>7 DEF Inv, TypeOK
<1> HIDE DEF j
<1> QED
  BY <1>1, <1>2, <1>3, <1>4, <1>6, <1>8, OneSoloCall, AtWork DEF Phases

LEMMA SoloBeginsDelete ==
  ASSUME Inv, Solo, NEW a \in Agents, BeginDelete(a)
  PROVE  Solo'
<1>1. pc[a] = "load" /\ job[a] \in Job /\ UNCHANGED <<docs, used, writer>>
  BY DEF BeginDelete, Inv, TypeOK
<1>2. CASE Ends(a)
  BY <1>1, <1>2, SoloEnds
<1>3. CASE Goto(a, "remove") /\ UNCHANGED job
  <2>1. Current("remove", job[a]) /\ job' = [job EXCEPT ![a] = job[a]]
    BY <1>3 DEF Current, Inv, TypeOK
  <2> QED
    BY <1>1, <1>3, <2>1, OneSoloCall, AtWork DEF Goto, Phases
<1> QED
  BY <1>2, <1>3 DEF BeginDelete

\* A name nobody has when the documents are read is free when it is saved.
LEMMA SoloSearches ==
  ASSUME Inv, Solo, NEW a \in Agents, ListIds(a) \/ Vanished(a) \/ Taken(a) \/ Free(a)
  PROVE  Solo'
<1>1. /\ job[a] \in Job /\ pc[a] \in {"list", "check"}
      /\ UNCHANGED <<docs, writer>> /\ used \subseteq used'
  BY DEF ListIds, Vanished, Taken, Free, Inv, TypeOK
<1>2. Inv'
  BY SearchKeepsInv
<1>3. \/ job[a].op \in {"create", "resolve"} /\ job[a].id = None
      \/ /\ job[a].op = "rename" /\ MadeFrom(job[a].id, job[a].copy)
         /\ job[a].copy.name = job[a].name
  BY <1>1 DEF Solo, Current
<1>4. pc[a] # "idle" /\ {"check", "list", "stage"} \subseteq Phases
  BY <1>1 DEF Phases
<1>5. CASE ListIds(a)
  <2> DEFINE j == [job[a] EXCEPT !.seen = Stored \cap Projects]
  <2>1. /\ j.op = job[a].op /\ j.id = job[a].id /\ j.name = job[a].name
        /\ j.copy = job[a].copy /\ j.seen = Stored \cap Projects
    BY <1>1 DEF Job
  <2>2. pc' = [pc EXCEPT ![a] = "check"] /\ job' = [job EXCEPT ![a] = j]
    BY <1>5 DEF ListIds, Goto
  <2>3. j \in Job
    BY <1>2, <2>2 DEF Inv, TypeOK
  <2> HIDE DEF j
  <2>4. Current("check", j)
    BY <1>3, <2>1 DEF Current
  <2> QED
    BY <1>1, <1>4, <2>2, <2>3, <2>4, OneSoloCall, AtWork
<1>6. CASE Vanished(a) \/ Taken(a)
  BY <1>4, <1>6, SoloEnds DEF Vanished, Taken
<1>7. CASE Free(a)
  <2>1. /\ pc[a] = "check" /\ job[a].seen = Stored \cap Projects
        /\ \A p \in Projects \cap Stored : docs[p].name = job[a].name => p = job[a].id
    BY <1>7 DEF Free, Namesakes, Solo, Current
  <2>2. CASE job[a].op = "resolve"
    <3> DEFINE j == [job[a] EXCEPT !.op = "create"]
    <3>1. pc' = [pc EXCEPT ![a] = "list"] /\ job' = [job EXCEPT ![a] = j]
      BY <1>7, <2>2 DEF Free, Goto
    <3>2. j.op = "create" /\ j.id = None
      BY <1>1, <1>3, <2>2 DEF Job
    <3>3. j \in Job
      BY <1>2, <3>1 DEF Inv, TypeOK
    <3> HIDE DEF j
    <3>4. Current("list", j)
      BY <3>2 DEF Current
    <3> QED
      BY <1>1, <1>4, <3>1, <3>3, <3>4, OneSoloCall, AtWork
  <2>3. CASE job[a].op = "create"
    <3>1. PICK p \in Projects \ used :
            /\ used' = used \cup {p}
            /\ job' = [job EXCEPT ![a].id = p,
                         ![a].copy = [status |-> "CREATED", name |-> job[a].name,
                                      rev |-> 0]]
      BY <1>7, <2>3 DEF Free
    <3> DEFINE d == [status |-> "CREATED", name |-> job[a].name, rev |-> 0]
               j == [job[a] EXCEPT !.id = p, !.copy = d]
    <3>2. pc' = [pc EXCEPT ![a] = "stage"] /\ job' = [job EXCEPT ![a] = j]
      BY <1>7, <2>3, <3>1 DEF Free, Goto, Inv, TypeOK
    <3>3. d.name = job[a].name
      OBVIOUS
    <3> HIDE DEF d
    <3>4. j.id = p /\ j.op = "create" /\ j.copy = d
      BY <1>1, <2>3 DEF Job
    <3>5. docs[p] = None
      BY DEF Solo, Stored, Ids
    <3>6. NameIsFree(p, job[a].name)
      <4>1. job[a].id = None
        BY <1>3, <2>3
      <4> QED
        BY <2>1, <4>1 DEF NameIsFree, Ids
    <3>7. j \in Job
      BY <1>2, <3>2 DEF Inv, TypeOK
    <3> HIDE DEF j
    <3>8. Current("stage", j)
      BY <3>3, <3>4, <3>5, <3>6 DEF Current
    <3> QED
      BY <1>1, <1>4, <3>1, <3>2, <3>4, <3>7, <3>8, OneSoloCall, AtWork
  <2>4. CASE job[a].op = "rename"
    <3>1. pc' = [pc EXCEPT ![a] = "stage"] /\ job' = [job EXCEPT ![a] = job[a]]
      BY <1>7, <2>4 DEF Free, Goto, Inv, TypeOK
    <3>2. MadeFrom(job[a].id, job[a].copy) /\ job[a].copy.name = job[a].name
      BY <1>3, <2>4
    <3>3. job[a].id \in Projects /\ job[a].id \in used /\ docs[job[a].id] # None
      BY <1>1, <2>4, <3>2 DEF Inv, Fits, MadeFrom, Solo, Stored, Ids
    <3>4. Current("stage", job[a])
      BY <2>1, <3>2, <3>3 DEF Current, NameIsFree
    <3> QED
      BY <1>1, <1>4, <3>1, <3>3, <3>4, OneSoloCall, AtWork
  <2> QED
    BY <1>7, <2>2, <2>3, <2>4 DEF Free
<1> QED
  BY <1>5, <1>6, <1>7

\* The revision is counted on from the document it replaces.
LEMMA SoloStagesRevision ==
  ASSUME Inv, Solo, NEW a \in Agents, Stage(a)
  PROVE  Solo'
<1> DEFINE id == job[a].id
<1>1. /\ pc[a] = "stage" /\ job[a] \in Job /\ Current("stage", job[a]) /\ id \in used
      /\ UNCHANGED <<docs, used, writer>>
  BY DEF Stage, Solo, Inv, TypeOK
<1>2. \/ id \in Projects /\ job[a].copy \in ProjectDoc
      \/ id \in Campaigns /\ job[a].copy \in CampaignDoc
  BY DEF Stage, Inv, Fits
<1>3. Inv'
  BY StageKeepsInv
<1>4. ASSUME NEW rev \in Nat, job' = [job EXCEPT ![a].copy.rev = rev], Goto(a, "replace"),
             docs[id] # None => rev = docs[id].rev + 1
      PROVE  Solo'
  <2> DEFINE d == [job[a].copy EXCEPT !.rev = rev]
             j == [job[a] EXCEPT !.copy = d]
  <2>1. job' = [job EXCEPT ![a] = j] /\ pc' = [pc EXCEPT ![a] = "replace"]
    BY <1>4 DEF Goto
  <2>2. j \in Job
    BY <1>3, <2>1 DEF Inv, TypeOK
  <2>3. /\ d.status = job[a].copy.status /\ d.rev = rev
        /\ id \in Projects => d.name = job[a].copy.name
        /\ id \in Campaigns => d.journal = job[a].copy.journal
    BY <1>2 DEF ProjectDoc, CampaignDoc
  <2> HIDE DEF d
  <2>4. j.id = id /\ j.op = job[a].op /\ j.copy = d
    BY <1>1 DEF Job
  <2>5. docs[id] # None => MadeFrom(id, d)
    BY <1>1, <2>3 DEF Current, MadeFrom
  <2>6. id \in Projects => NameIsFree(id, d.name)
    BY <1>1, <2>3 DEF Current
  <2> HIDE DEF j
  <2>7. Current("replace", j)
    BY <1>1, <1>4, <2>3, <2>4, <2>5, <2>6 DEF Current
  <2> QED
    BY <1>1, <2>1, <2>2, <2>4, <2>7, OneSoloCall, AtWork DEF Phases
<1>5. CASE docs[id] # None /\ job' = [job EXCEPT ![a].copy.rev = docs[id].rev + 1]
           /\ Goto(a, "replace")
  <2>1. docs[id].rev + 1 \in Nat
    BY <1>2, <1>5, Kinds DEF Inv, ProjectDoc, CampaignDoc
  <2> QED
    BY <1>4, <1>5, <2>1
<1>6. CASE docs[id] = None /\ job' = [job EXCEPT ![a].copy.rev = 1] /\ Goto(a, "replace")
  BY <1>4, <1>6
<1>7. CASE Ends(a)
  BY <1>1, <1>7, SoloEnds
<1> QED
  BY <1>5, <1>6, <1>7 DEF Stage

\* What a step may do to a document.
BuildsOn(id) ==
  /\ docs[id] # None /\ docs'[id] \notin {None, docs[id]} =>
       /\ docs'[id].rev = docs[id].rev + 1
       /\ id \in Projects =>
            \/ docs'[id].status = docs[id].status
            \/ docs'[id].status \in ProjectTransitions[docs[id].status]
       /\ id \in Campaigns =>
            /\ IsPrefix(docs[id].journal, docs'[id].journal)
            /\ \/ docs'[id].status = docs[id].status
               \/ docs'[id].status \in CampaignTransitions[docs[id].status]
  /\ docs[id] = None /\ docs'[id] # None =>
       \E a \in Agents : job[a].op = "create" /\ job[a].id = id

\* A step that writes no document.
LEMMA UnchangedBuilds ==
  ASSUME docs' = docs, NEW id \in Ids
  PROVE  BuildsOn(id)
BY DEF BuildsOn

\* The rename replaces what the copy was made from.
LEMMA SoloReplaces ==
  ASSUME Inv, Solo, NEW a \in Agents, Replace(a)
  PROVE  Solo' /\ \A i \in Ids : BuildsOn(i)
<1> DEFINE id == job[a].id
           d == job[a].copy
<1>1. /\ pc[a] = "replace" /\ Current("replace", job[a]) /\ id \in used
      /\ docs' = [docs EXCEPT ![id] = d] /\ id \in Ids
      /\ pc' = [pc EXCEPT ![a] = "end"] /\ UNCHANGED <<job, used, writer>>
  BY DEF Replace, Ends, Goto, Solo, Inv, Fits, Ids
<1>2. docs'[id] = d /\ \A i \in Ids \ {id} : docs'[i] = docs[i]
  BY <1>1 DEF Inv, TypeOK
<1>3. writer' /\ \A b \in Agents \ {a} : pc'[b] = "idle"
  BY <1>1, AtWork DEF Inv, TypeOK
<1>4. (Stored \subseteq used)'
  BY <1>1, <1>2 DEF Stored, Solo
<1>5. NoNamesakes'
  <2>1. ASSUME NEW p \in Projects \cap Stored', NEW q \in Projects \cap Stored',
               docs'[p].name = docs'[q].name, p # q
        PROVE  FALSE
    <3>1. CASE p # id /\ q # id
      BY <1>2, <2>1, <3>1 DEF Solo, NoNamesakes, Stored
    <3>2. CASE p = id
      <4>1. q \in Projects \cap Stored /\ docs[q].name = d.name
        BY <1>2, <2>1, <3>2 DEF Stored
      <4> QED
        BY <1>1, <2>1, <3>2, <4>1 DEF Current, NameIsFree
    <3>3. CASE q = id
      <4>1. p \in Projects \cap Stored /\ docs[p].name = d.name
        BY <1>2, <2>1, <3>3 DEF Stored
      <4> QED
        BY <1>1, <2>1, <3>3, <4>1 DEF Current, NameIsFree
    <3> QED
      BY <3>1, <3>2, <3>3
  <2> QED
    BY <2>1 DEF NoNamesakes
<1>6. pc'[a] = "end"
  BY <1>1 DEF Inv, TypeOK
<1>7. Solo'
  <2>1. \A b \in Agents : Current(pc[b], job[b])' /\ pc'[b] \notin {"stage", "replace"}
    BY <1>3, <1>6 DEF Current
  <2> QED
    BY <1>3, <1>4, <1>5, <2>1 DEF Solo, Alone
<1>8. BuildsOn(id)
  BY <1>1, <1>2 DEF BuildsOn, Current, MadeFrom
<1>9. \A i \in Ids \ {id} : BuildsOn(i)
  BY <1>2 DEF BuildsOn
<1> QED
  BY <1>7, <1>8, <1>9

LEMMA SoloRemoves ==
  ASSUME Inv, Solo, NEW a \in Agents, RemoveDocument(a)
  PROVE  Solo' /\ \A i \in Ids : BuildsOn(i)
<1>1. /\ pc[a] = "remove" /\ docs' = [docs EXCEPT ![job[a].id] = None] /\ job[a].id \in Ids
      /\ pc' = [pc EXCEPT ![a] = "end"] /\ UNCHANGED <<job, used, writer>>
  BY DEF RemoveDocument, Ends, Goto, Inv, Fits
<1>2. \A i \in Ids : docs'[i] \in {docs[i], None}
  BY <1>1 DEF Inv, TypeOK
<1>3. writer' /\ (\A b \in Agents \ {a} : pc'[b] = "idle") /\ pc'[a] = "end"
  BY <1>1, AtWork DEF Inv, TypeOK
<1>4. Stored' \subseteq Stored /\ \A i \in Stored' : docs'[i] = docs[i]
  BY <1>2 DEF Stored
<1>5. (Stored \subseteq used)' /\ NoNamesakes'
  BY <1>1, <1>4 DEF Solo, NoNamesakes
<1>6. \A b \in Agents : Current(pc[b], job[b])' /\ pc'[b] \notin {"stage", "replace"}
  BY <1>3 DEF Current
<1>7. \A i \in Ids : BuildsOn(i)
  BY <1>2 DEF BuildsOn
<1> QED
  BY <1>3, <1>5, <1>6, <1>7 DEF Solo, Alone

\* Everybody is idle again.
LEMMA SoloRests ==
  ASSUME Solo, \A b \in Agents : pc'[b] = "idle", UNCHANGED <<docs, used>>
  PROVE  Solo'
<1>1. (Stored \subseteq used)' /\ NoNamesakes' /\ Alone'
  BY DEF Solo, Stored, NoNamesakes, Alone
<1>2. \A b \in Agents : Current(pc[b], job[b])' /\ pc'[b] \notin {"stage", "replace"}
  BY DEF Current
<1> QED
  BY <1>1, <1>2 DEF Solo

LEMMA SoloReturns ==
  ASSUME Inv, Solo, NEW a \in Agents, Return(a)
  PROVE  Solo'
<1>1. pc[a] = "end" /\ UNCHANGED <<docs, used>> /\ pc' = [pc EXCEPT ![a] = "idle"]
  BY DEF Return, Goto
<1>2. \A b \in Agents : pc'[b] = "idle"
  BY <1>1, AtWork DEF Inv, TypeOK
<1> QED
  BY <1>1, <1>2, SoloRests

\* The only process dies with all its threads.
LEMMA SoloCrashes ==
  ASSUME Inv, Solo, Serialized, NEW dead \in SUBSET Agents, Crash(dead)
  PROVE  Solo'
<1>1. dead = Agents /\ UNCHANGED <<docs, used>>
  BY DEF Crash, Serialized
<1>2. \A b \in Agents : pc'[b] = "idle"
  BY <1>1 DEF Crash
<1> QED
  BY <1>1, <1>2, SoloRests

LEMMA SoloStep ==
  ASSUME Inv, Solo, Serialized, [Next]_vars
  PROVE  Solo' /\ \A i \in Ids : BuildsOn(i)
<1>1. CASE UNCHANGED vars
  <2>1. Solo'
    BY <1>1 DEF vars, Solo, Alone, Stored, NoNamesakes, Current, MadeFrom, NameIsFree
  <2> QED
    BY <1>1, <2>1, UnchangedBuilds DEF vars
<1>2. ASSUME NEW a \in Agents, Replace(a) \/ RemoveDocument(a)
      PROVE  Solo' /\ \A i \in Ids : BuildsOn(i)
  BY <1>2, SoloReplaces, SoloRemoves
<1>3. ASSUME NEW a \in Agents,
             \/ \E p \in Projects : CallProject(a, p)
             \/ \E c \in Campaigns : CallCampaign(a, c)
             \/ CallCreate(a)
      PROVE  Solo' /\ docs' = docs
  BY <1>3, SoloCalls DEF CallProject, CallCampaign, CallCreate, Call
<1>4. ASSUME NEW a \in Agents, Fail(a)
      PROVE  Solo' /\ docs' = docs
  BY <1>4, SoloEnds DEF Fail
<1>5. ASSUME NEW a \in Agents, MoveCampaign(a) \/ UpdateStep(a) \/ CreateCampaign(a)
                               \/ BeginDelete(a) \/ MoveProject(a) \/ Rename(a)
      PROVE  Solo' /\ docs' = docs
  <2>1. Solo'
    BY <1>5, SoloMovesCampaign, SoloUpdatesStep, SoloCreatesCampaign, SoloBeginsDelete,
       SoloMovesProject, SoloRenames
  <2> QED
    BY <1>5, <2>1 DEF MoveCampaign, UpdateStep, CreateCampaign, BeginDelete, MoveProject,
       Rename
<1>6. ASSUME NEW a \in Agents, ListIds(a) \/ Vanished(a) \/ Taken(a) \/ Free(a) \/ Stage(a)
                               \/ Return(a)
      PROVE  Solo' /\ docs' = docs
  <2>1. Solo'
    BY <1>6, SoloSearches, SoloStagesRevision, SoloReturns
  <2> QED
    BY <1>6, <2>1 DEF ListIds, Vanished, Taken, Free, Stage, Return
<1>7. ASSUME NEW dead \in SUBSET Agents, Crash(dead)
      PROVE  Solo' /\ docs' = docs
  BY <1>7, SoloCrashes DEF Crash
<1> QED
  BY <1>1, <1>2, <1>3, <1>4, <1>5, <1>6, <1>7, UnchangedBuilds DEF Next

LEMMA LockIsKept == [Next]_vars => locked' = locked
BY DEF Next, vars, CallProject, CallCampaign, CallCreate, Call, Return, MoveCampaign,
   UpdateStep, CreateCampaign, BeginDelete, MoveProject, Rename, ListIds, Vanished, Taken,
   Free, Stage, Replace, RemoveDocument, Fail, Crash

LEMMA InitLocked == Init => LockedInv
<1> SUFFICES ASSUME Init PROVE Solo
  BY InitInv DEF LockedInv
<1>1. Stored \subseteq used
  BY DEF Init, Stored
<1>2. NoNamesakes
  BY InitialDocsAssumption DEF Init, NoNamesakes, Stored
<1>3. \A a \in Agents : Current(pc[a], job[a]) /\ pc[a] = "idle"
  BY DEF Init, Current
<1> QED
  BY <1>1, <1>2, <1>3 DEF Solo, Alone

LEMMA NextLocked == LockedInv /\ [Next]_vars => LockedInv'
BY NextInv, SoloStep, LockIsKept DEF LockedInv, Serialized

LEMMA LockedInvariance == Spec => []LockedInv
<1> QED
  BY InitLocked, NextLocked, PTL DEF Spec

\* Whatever callers do, with the lock or without it, documents, working copies
\* and calls are well formed.
THEOREM TypeCorrectness == Spec => []TypeOK
<1>1. Inv => TypeOK
  BY DEF Inv
<1> QED
  BY <1>1, Invariance, PTL

\* Every stored campaign's journal is a legal life that led to its status, for
\* any number of callers of which any set takes the lock, whatever fails or
\* crashes (CampaignManager._transition).
THEOREM JournalsExplain == Spec => []JournalExplainsStatus
<1>1. Inv => JournalExplainsStatus
  BY DEF Inv
<1> QED
  BY <1>1, Invariance, PTL

\* With every caller under the lock no two projects have one name, for any
\* number of callers, projects and names, whatever fails or crashes
\* (ProjectManager._check_name_free).
THEOREM NamesStayUnique == Spec => []NamesAreUnique
<1>1. LockedInv => NamesAreUnique
  BY DEF LockedInv, Solo, NoNamesakes, NamesAreUnique
<1> QED
  BY <1>1, LockedInvariance, PTL

\* With every caller under the lock no write is lost and no deleted document
\* comes back: what a rename replaces is what the call had read.
THEOREM NoWriteIsLost == Spec => WritesBuildOnEachOther
<1>1. LockedInv /\ [Next]_vars =>
        [Serialized => \A id \in Ids :
           /\ docs[id] # None /\ docs'[id] \notin {None, docs[id]} =>
                /\ docs'[id].rev = docs[id].rev + 1
                /\ id \in Projects =>
                     \/ docs'[id].status = docs[id].status
                     \/ docs'[id].status \in ProjectTransitions[docs[id].status]
                /\ id \in Campaigns =>
                     /\ IsPrefix(docs[id].journal, docs'[id].journal)
                     /\ \/ docs'[id].status = docs[id].status
                        \/ docs'[id].status \in CampaignTransitions[docs[id].status]
           /\ docs[id] = None /\ docs'[id] # None =>
                \E a \in Agents : job[a].op = "create" /\ job[a].id = id]_vars
  BY SoloStep DEF LockedInv, BuildsOn
<1> QED
  BY <1>1, LockedInvariance, PTL DEF Spec, WritesBuildOnEachOther
=============================================================================
