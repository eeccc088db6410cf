---------------------------- MODULE LibrarianProofs ----------------------------
(***************************************************************************)
(* What holds of the Librarian for every set of agents, documents and      *)
(* drafts.                                                                 *)
(*                                                                         *)
(* First, the contract keeps its documents sound.  Every action of         *)
(* KnowledgeLifecycle writes one document; the argument names what such a  *)
(* write must satisfy (GoodWrite), shows once that a good write keeps the  *)
(* invariant and respects the action properties, and then shows that each  *)
(* operation makes a good write.                                           *)
(*                                                                         *)
(* Then the Librarian as it runs: its types, the exclusion its lock        *)
(* provides, and, when every agent takes the lock and no caller rewrites   *)
(* statuses, that no working copy goes stale, and that it implements the   *)
(* contract and has its properties.                                        *)
(***************************************************************************)
EXTENDS Librarian, TLAPS

----
(* The operators of KnowledgeModel: they build documents, the envelope     *)
(* adds one write, and every operation leaves a history that accounts for  *)
(* the status.                                                             *)

\* A capped term is a natural number up to its cap.
LEMMA CappedRange ==
  ASSUME NEW n \in Nat, NEW cap \in Nat
  PROVE  Capped(n, cap) \in 0 .. cap
  BY DEF Capped

\* Whatever the counters are, the confidence the engine calculates stays on
\* the scale 0 .. 100 (the clamps of ConfidenceEngine.calculate).
THEOREM ConfidenceInRange ==
  ASSUME NEW f \in Factors
  PROVE  Calculate(f) \in 0 .. 100
<1>1. /\ f.confirmations \in Nat /\ f.independent_campaigns \in Nat
      /\ f.successful_usage \in Nat /\ f.failed_usage \in Nat
      /\ f.conflicts \in Nat
  BY DEF Factors
<1>2. /\ Capped(f.confirmations * 5, 30) \in Nat
      /\ Capped(f.independent_campaigns * 10, 30) \in Nat
      /\ Capped(f.successful_usage * 5, 20) \in Nat
      /\ Capped(f.failed_usage * 10, 40) \in Nat
      /\ Capped(f.conflicts * 15, 30) \in Nat
  BY <1>1 DEF Capped
<1>3. Score(f) \in Int
  BY <1>2 DEF Score
<1> QED
  BY <1>3 DEF Calculate

\* What the operators below need of a document.
LEMMA DocFields ==
  ASSUME NEW d \in Doc
  PROVE  /\ d.status \in Statuses
         /\ d.title \in Seq(Titles)
         /\ d.factors \in Factors
         /\ Calculate(d.factors) \in Int
         /\ d.links \in SUBSET (Ids \X Targets)
         /\ d.history \in Seq(Events)
         /\ d.elders \in SUBSET Ids
         /\ d.rev \in Nat
<1>1. d.factors \in Factors
  BY DEF Doc
<1>2. Calculate(d.factors) \in 0 .. 100
  BY <1>1, ConfidenceInRange
<1>3. Calculate(d.factors) \in Int
  BY <1>2
<1>4. /\ d.status \in Statuses
      /\ d.title \in Seq(Titles)
      /\ d.links \in SUBSET (Ids \X Targets)
      /\ d.history \in Seq(Events)
      /\ d.elders \in SUBSET Ids
      /\ d.rev \in Nat
  BY DEF Doc
<1> QED
  BY <1>1, <1>3, <1>4

\* One more event makes a longer history of events.
LEMMA AppendType ==
  ASSUME NEW h \in Seq(Events), NEW e \in Events
  PROVE  Append(h, e) \in Seq(Events)
  OBVIOUS

\* Adding the counters of two documents gives counters.
LEMMA AddFactorsType ==
  \A f, g \in Factors : AddFactors(f, g) \in Factors
  BY DEF Factors, AddFactors

\* A document is never taken for a missing one.
LEMMA DocIsThere == NoDoc \notin Doc
  BY DEF NoDoc, Doc

\* A stored identifier leads to a document.
LEMMA StoredIsDoc ==
  ASSUME NEW store \in Store, NEW id \in Stored(store)
  PROVE  id \in Ids /\ store[id] \in Doc
  BY DEF Store, Stored

\* A registered draft is a document.
LEMMA RegisteredType ==
  ASSUME NEW id \in Ids, NEW c \in Draft
  PROVE  Registered(id, c) \in Doc
<1>1. Calculate(c.factors) \in Int
  <2>1. c.factors \in Factors
    BY DEF Draft
  <2>2. Calculate(c.factors) \in 0 .. 100
    BY <2>1, ConfidenceInRange
  <2> QED
    BY <2>2
<1>2. Authored(id, c) \in SUBSET (Ids \X Targets)
  BY DEF Authored, Draft
<1>3. <<"Created">> \in Seq(Events) /\ << >> \in Seq(Ids)
  BY DEF Events
<1> QED
  BY <1>1, <1>2, <1>3 DEF Registered, Doc, Draft, Statuses

\* The five status operations make a document of a document.
LEMMA ApplyType ==
  ASSUME NEW op \in LifecycleOps, NEW d \in Doc
  PROVE  Apply(op, d) \in Doc
<1>1. TargetOf[op] \in Statuses /\ EventOf[op] \in Events
  BY DEF LifecycleOps, TargetOf, EventOf, Statuses, Events
<1>2. Append(d.history, EventOf[op]) \in Seq(Events)
  BY <1>1 DEF Doc
<1> QED
  BY <1>1, <1>2 DEF Apply, Doc

\* So does a recalculated confidence.
LEMMA RecalculatedType ==
  ASSUME NEW d \in Doc
  PROVE  Recalculated(d) \in Doc
<1>1. Calculate(d.factors) \in Int
  BY DocFields
<1>2. Append(d.history, "Confidence changed") \in Seq(Events)
  BY DocFields, AppendType DEF Events
<1> QED
  BY <1>1, <1>2 DEF Recalculated, Doc

\* And a conflict mark.
LEMMA ConflictMarkedType ==
  ASSUME NEW d \in Doc
  PROVE  ConflictMarked(d) \in Doc
<1>1. Append(d.history, "Conflict detected") \in Seq(Events)
  BY DocFields, AppendType DEF Events
<1> QED
  BY <1>1 DEF ConflictMarked, Doc, Statuses

\* A caller's edited copy is a document.
LEMMA EditedType ==
  ASSUME NEW id \in Ids, NEW d \in Doc, NEW c \in Draft, NEW s \in Statuses
  PROVE  Edited(d, id, c, s) \in Doc
<1>1. Authored(id, c) \in SUBSET (Ids \X Targets)
  BY DEF Authored, Draft
<1> QED
  BY <1>1 DEF Edited, Doc, Draft

\* What update makes of a caller's copy is a document.
LEMMA UpdatedType ==
  ASSUME NEW d \in Doc, NEW k \in Doc
  PROVE  Updated(d, k) \in Doc
<1>1. Calculate(k.factors) \in Int
  BY DocFields
<1>2. Append(d.history, "Updated") \in Seq(Events)
  BY DocFields, AppendType DEF Events
<1> QED
  BY <1>1, <1>2 DEF Updated, Doc

\* A merge of two documents is a document.
LEMMA MergedType ==
  ASSUME NEW i \in Ids, NEW j \in Ids, NEW m \in Ids,
         NEW a \in Doc, NEW b \in Doc
  PROVE  Merged(i, a, j, b, m) \in Doc
<1> DEFINE f == AddFactors(a.factors, b.factors)
<1>1. f \in Factors
  BY AddFactorsType DEF Doc
<1>2. Calculate(f) \in Int
  <2>1. Calculate(f) \in 0 .. 100
    BY <1>1, ConfidenceInRange
  <2> QED
    BY <2>1
<1>3. MergeLinks(i, j, m) \in SUBSET (Ids \X Targets)
  BY DEF MergeLinks, Targets
<1>4. <<"Merged">> \in Seq(Events) /\ <<i, j>> \in Seq(Ids)
  BY DEF Events
<1>5. a.title \o b.title \in Seq(Titles)
  BY DEF Doc
<1> QED
  BY <1>1, <1>2, <1>3, <1>4, <1>5 DEF Merged, Doc, Statuses

\* The envelope of a document is a document.
LEMMA EnvelopeType ==
  ASSUME NEW store \in Store, NEW id \in Ids, NEW d \in Doc
  PROVE  Envelope(store, id, d) \in Doc
<1> DEFINE r == IF store[id] = NoDoc THEN 1 ELSE store[id].rev + 1
           b == IF store[id] = NoDoc THEN Stored(store) ELSE store[id].elders
<1>1. store[id] # NoDoc => store[id] \in Doc
  BY DEF Store
<1>2. r \in Nat /\ b \in SUBSET Ids
  BY <1>1, DocFields DEF Stored
<1> HIDE DEF r, b
<1>3. [d EXCEPT !.rev = r, !.elders = b] \in Doc
  BY <1>2 DEF Doc
<1> QED
  BY <1>3 DEF Envelope, r, b

----
(* What appending an event does to a history and to Explains.              *)

\* The new event comes last and the others stay where they are.
LEMMA AppendFacts ==
  ASSUME NEW h \in Seq(Events), NEW e \in Events
  PROVE  /\ Len(h) \in Nat
         /\ Len(Append(h, e)) = Len(h) + 1
         /\ Append(h, e)[Len(h) + 1] = e
         /\ \A i \in 1 .. Len(h) : Append(h, e)[i] = h[i]
<1>1. Len(h) \in Nat /\ Len(Append(h, e)) = Len(h) + 1
  OBVIOUS
<1>2. Append(h, e)[Len(h) + 1] = e
  OBVIOUS
<1>3. ASSUME NEW i \in 1 .. Len(h)
      PROVE  Append(h, e)[i] = h[i]
  OBVIOUS
<1> QED
  BY <1>1, <1>2, <1>3

\* A conflict found after position i is an old one or the new event.
LEMMA ContestedAppend ==
  ASSUME NEW h \in Seq(Events), NEW e \in Events, NEW i \in 1 .. Len(h)
  PROVE  ContestedAfter(Append(h, e), i)
           <=> ContestedAfter(h, i) \/ e = "Conflict detected"
<1> DEFINE g == Append(h, e)
<1>1. /\ Len(h) \in Nat /\ Len(g) = Len(h) + 1 /\ g[Len(h) + 1] = e
      /\ \A k \in 1 .. Len(h) : g[k] = h[k]
  BY AppendFacts
<1> HIDE DEF g
<1>2. \A j : j \in (i + 1) .. Len(g)
              <=> (j \in (i + 1) .. Len(h) \/ j = Len(h) + 1)
  BY <1>1
<1>3. \A j \in (i + 1) .. Len(h) : j \in 1 .. Len(h)
  BY <1>1
<1>4. ContestedAfter(g, i) <=> ContestedAfter(h, i) \/ e = "Conflict detected"
  BY <1>1, <1>2, <1>3 DEF ContestedAfter
<1> QED
  BY <1>4 DEF g

\* An event that sets no status leaves the last setter where it was.
LEMMA LastSetterAppend ==
  ASSUME NEW h \in Seq(Events), NEW e \in Events, e \notin DOMAIN StatusSetBy,
         NEW i \in 1 .. Len(Append(h, e)), IsLastSetter(Append(h, e), i)
  PROVE  i \in 1 .. Len(h) /\ Append(h, e)[i] = h[i] /\ IsLastSetter(h, i)
<1> DEFINE g == Append(h, e)
<1>1. /\ Len(h) \in Nat /\ Len(g) = Len(h) + 1 /\ g[Len(h) + 1] = e
      /\ \A k \in 1 .. Len(h) : g[k] = h[k]
  BY AppendFacts
<1>2. i \in 1 .. Len(g) /\ IsLastSetter(g, i)
  OBVIOUS
<1> HIDE DEF g
<1>3. i # Len(h) + 1
  BY <1>1, <1>2 DEF IsLastSetter
<1>4. i \in 1 .. Len(h)
  BY <1>1, <1>2, <1>3
<1>5. \A j \in (i + 1) .. Len(h) : j \in 1 .. Len(h) /\ j \in (i + 1) .. Len(g)
  BY <1>1, <1>4
<1>6. IsLastSetter(h, i)
  BY <1>1, <1>2, <1>4, <1>5 DEF IsLastSetter
<1> QED
  BY <1>1, <1>4, <1>6 DEF g

\* After a status operation, its event accounts for the status it set.
LEMMA ExplainsSetter ==
  ASSUME NEW h \in Seq(Events), NEW e \in Events, e \in DOMAIN StatusSetBy
  PROVE  Explains(Append(h, e), StatusSetBy[e])
<1> DEFINE g == Append(h, e)
<1>1. Len(h) \in Nat /\ Len(g) = Len(h) + 1 /\ g[Len(h) + 1] = e
  BY AppendFacts
<1> HIDE DEF g
<1>2. ASSUME NEW i \in 1 .. Len(g), IsLastSetter(g, i)
      PROVE  StatusSetBy[e] = StatusSetBy[g[i]] /\ ~ContestedAfter(g, i)
  <2>1. i = Len(h) + 1
    BY <1>1, <1>2 DEF IsLastSetter
  <2>2. (i + 1) .. Len(g) = {}
    BY <1>1, <2>1
  <2> QED
    BY <1>1, <2>1, <2>2 DEF ContestedAfter
<1>3. Explains(g, StatusSetBy[e])
  BY <1>2 DEF Explains
<1> QED
  BY <1>3 DEF g

\* An event that sets no status and is no conflict changes nothing.
LEMMA ExplainsNeutral ==
  ASSUME NEW h \in Seq(Events), NEW s, Explains(h, s),
         NEW e \in Events, e \notin DOMAIN StatusSetBy,
         e # "Conflict detected"
  PROVE  Explains(Append(h, e), s)
<1> DEFINE g == Append(h, e)
<1>1. ASSUME NEW i \in 1 .. Len(g), IsLastSetter(g, i)
      PROVE  s = IF ContestedAfter(g, i) /\ StatusSetBy[g[i]] \in Contestable
                 THEN "CONFLICT" ELSE StatusSetBy[g[i]]
  <2>1. i \in 1 .. Len(h) /\ g[i] = h[i] /\ IsLastSetter(h, i)
    BY <1>1, LastSetterAppend
  <2>2. ContestedAfter(g, i) <=> ContestedAfter(h, i)
    BY <2>1, ContestedAppend
  <2> HIDE DEF g
  <2> QED
    BY <2>1, <2>2 DEF Explains
<1> QED
  BY <1>1 DEF Explains

\* A conflict turns a contestable status into CONFLICT and keeps the others,
\* however often it is found again.
LEMMA ExplainsConflict ==
  ASSUME NEW h \in Seq(Events), NEW s, Explains(h, s)
  PROVE  Explains(Append(h, "Conflict detected"),
                  IF s \in Contestable THEN "CONFLICT" ELSE s)
<1> DEFINE e == "Conflict detected"
           g == Append(h, e)
           t == IF s \in Contestable THEN "CONFLICT" ELSE s
<1>1. e \in Events /\ e \notin DOMAIN StatusSetBy /\ "CONFLICT" \notin Contestable
  BY DEF Events, StatusSetBy, Contestable
<1>2. ASSUME NEW i \in 1 .. Len(g), IsLastSetter(g, i)
      PROVE  t = IF ContestedAfter(g, i) /\ StatusSetBy[g[i]] \in Contestable
                 THEN "CONFLICT" ELSE StatusSetBy[g[i]]
  <2>1. i \in 1 .. Len(h) /\ g[i] = h[i] /\ IsLastSetter(h, i)
    BY <1>1, <1>2, LastSetterAppend
  <2>2. ContestedAfter(g, i)
    BY <1>1, <2>1, ContestedAppend
  <2>3. s = IF ContestedAfter(h, i) /\ StatusSetBy[h[i]] \in Contestable
            THEN "CONFLICT" ELSE StatusSetBy[h[i]]
    BY <2>1 DEF Explains
  <2> HIDE DEF g
  <2> QED
    BY <1>1, <2>1, <2>2, <2>3
<1>3. Explains(g, t)
  BY <1>2 DEF Explains
<1> QED
  BY <1>3

----
(* The contract's invariant.                                               *)

\* The invariant: the four named parts need one another.  A type-correct
\* store is needed everywhere, LinksResolve by the updates that keep their
\* edges and are therefore not checked.
LifecycleInv == LifecycleTypeOK /\ HistoryExplainsStatus /\ RevisionCountsHistory /\ LinksResolve

\* What edges may lead to: what there is, and what there was.
Known == Stored(docs) \cup present \cup deleted

\* Document d may be written as id over what the store holds there.
GoodWrite(id, d) ==
  /\ id \in Ids /\ d \in Doc
  /\ Explains(d.history, d.status)
  /\ \A l \in d.links : l[2] \in Known \cup {id}
  /\ docs[id] = NoDoc => Len(d.history) = 1
  /\ docs[id] # NoDoc =>
       /\ Len(d.history) = Len(docs[id].history) + 1
       /\ IsPrefix(docs[id].history, d.history)
       /\ d.status # docs[id].status => d.status \in TRANSITIONS[docs[id].status]
       /\ docs[id].status = "CANONICAL" => d.category = docs[id].category
       /\ d.parents = docs[id].parents

----
(* What a good write does.                                                 *)

\* The envelope touches the revision and the creation time only.
LEMMA EnvelopeFields ==
  ASSUME NEW s \in Store, NEW id \in Ids, NEW d \in Doc
  PROVE  /\ Envelope(s, id, d).status = d.status
         /\ Envelope(s, id, d).category = d.category
         /\ Envelope(s, id, d).links = d.links
         /\ Envelope(s, id, d).parents = d.parents
         /\ Envelope(s, id, d).history = d.history
         /\ s[id] = NoDoc => Envelope(s, id, d).rev = 1
         /\ s[id] # NoDoc => /\ Envelope(s, id, d).rev = s[id].rev + 1
                             /\ Envelope(s, id, d).elders = s[id].elders
  BY DEF Envelope, Doc

\* A write changes the document it names and adds it to the stored ones.
LEMMA WriteStore ==
  ASSUME LifecycleTypeOK, NEW id \in Ids, NEW d \in Doc, Write(id, d)
  PROVE  /\ LifecycleTypeOK'
         /\ Stored(docs)' = Stored(docs) \cup {id}
         /\ Known' = Known \cup {id}
         /\ docs'[id] = Envelope(docs, id, d) /\ docs'[id] \in Doc
         /\ \A x \in Ids \ {id} : docs'[x] = docs[x]
<1>1. Envelope(docs, id, d) \in Doc
  BY EnvelopeType DEF LifecycleTypeOK
<1>2. /\ docs'[id] = Envelope(docs, id, d)
      /\ \A x \in Ids \ {id} : docs'[x] = docs[x]
      /\ LifecycleTypeOK'
  BY <1>1 DEF Write, LifecycleTypeOK, Store
<1>3. Stored(docs)' = Stored(docs) \cup {id}
  BY <1>1, <1>2, DocIsThere DEF Stored
<1> QED
  BY <1>1, <1>2, <1>3 DEF Known, Write

\* A good write keeps the invariant.
LEMMA GoodWriteKeepsInv ==
  ASSUME LifecycleInv, NEW id, NEW d, GoodWrite(id, d), Write(id, d)
  PROVE  LifecycleInv'
<1> USE DEF LifecycleInv
<1>1. id \in Ids /\ d \in Doc /\ docs \in Store
  BY DEF GoodWrite, LifecycleTypeOK
<1>2. /\ LifecycleTypeOK'
      /\ Stored(docs)' = Stored(docs) \cup {id}
      /\ Known' = Known \cup {id}
      /\ docs'[id] = Envelope(docs, id, d)
      /\ \A x \in Stored(docs) \ {id} : docs'[x] = docs[x]
  BY <1>1, WriteStore DEF Stored
<1>3. /\ docs'[id].status = d.status
      /\ docs'[id].links = d.links
      /\ docs'[id].history = d.history
      /\ docs[id] = NoDoc => docs'[id].rev = 1
      /\ docs[id] # NoDoc => docs'[id].rev = docs[id].rev + 1
  BY <1>1, <1>2, EnvelopeFields
<1>4. HistoryExplainsStatus'
  BY <1>2, <1>3 DEF HistoryExplainsStatus, GoodWrite
<1>5. RevisionCountsHistory'
  <2>1. docs'[id].rev = Len(docs'[id].history)
    BY <1>1, <1>3 DEF RevisionCountsHistory, GoodWrite, Stored
  <2> QED
    BY <1>2, <2>1 DEF RevisionCountsHistory
<1>6. LinksResolve'
  BY <1>2, <1>3 DEF LinksResolve, Known, GoodWrite
<1> QED
  BY <1>2, <1>4, <1>5, <1>6

\* A good write respects every action property of the contract.
LEMMA GoodWriteIsLegal ==
  ASSUME LifecycleInv, NEW id, NEW d, GoodWrite(id, d), Write(id, d),
         NEW x \in Stored(docs)
  PROVE  /\ docs'[x].status # docs[x].status =>
              docs'[x].status \in TRANSITIONS[docs[x].status]
         /\ docs'[x] # docs[x] =>
              /\ IsPrefix(docs[x].history, docs'[x].history)
              /\ docs'[x].rev = docs[x].rev + 1
         /\ docs[x].status = "CANONICAL" => docs'[x].category = docs[x].category
         /\ docs'[x].parents = docs[x].parents
         /\ docs'[x].elders = docs[x].elders
<1>1. id \in Ids /\ d \in Doc /\ docs \in Store /\ x \in Ids /\ docs[x] # NoDoc
  BY DEF GoodWrite, LifecycleInv, LifecycleTypeOK, Stored
<1>2. /\ docs'[id] = Envelope(docs, id, d)
      /\ \A y \in Ids \ {id} : docs'[y] = docs[y]
  BY <1>1, WriteStore DEF LifecycleInv
<1>3. CASE x # id
  BY <1>1, <1>2, <1>3
<1>4. CASE x = id
  BY <1>1, <1>2, <1>4, EnvelopeFields DEF GoodWrite
<1> QED
  BY <1>3, <1>4

----
(* Every operation makes a good write.                                     *)

\* An appended event leaves the old history as a prefix.
LEMMA AppendIsPrefix ==
  ASSUME NEW h \in Seq(Events), NEW e \in Events
  PROVE  IsPrefix(h, Append(h, e)) /\ Len(Append(h, e)) = Len(h) + 1
<1>1. /\ Len(h) \in Nat /\ Len(Append(h, e)) = Len(h) + 1
      /\ \A i \in 1 .. Len(h) : Append(h, e)[i] = h[i]
  BY AppendFacts
<1>2. SubSeq(h, 1, Len(h)) = SubSeq(Append(h, e), 1, Len(h))
  BY <1>1
<1> QED
  BY <1>1, <1>2 DEF IsPrefix

\* The first event of a new document accounts for its status.
LEMMA FirstEvent ==
  ASSUME NEW e \in Events, e \in DOMAIN StatusSetBy
  PROVE  Explains(<<e>>, StatusSetBy[e]) /\ Len(<<e>>) = 1
<1>1. << >> \in Seq(Events) /\ Append(<< >>, e) = <<e>>
  OBVIOUS
<1>2. Explains(Append(<< >>, e), StatusSetBy[e])
  BY <1>1, ExplainsSetter
<1> QED
  BY <1>1, <1>2

\* What the invariant says of a stored document.
LEMMA StoredFacts ==
  ASSUME LifecycleInv, NEW id \in Stored(docs)
  PROVE  /\ id \in Ids /\ docs[id] \in Doc /\ docs[id] # NoDoc
         /\ docs[id].history \in Seq(Events)
         /\ docs[id].status \in Statuses
         /\ Explains(docs[id].history, docs[id].status)
         /\ \A l \in docs[id].links : l[2] \in Known
<1>1. id \in Ids /\ docs[id] \in Doc
  BY StoredIsDoc DEF LifecycleInv, LifecycleTypeOK
<1> QED
  BY <1>1, DocFields, DocIsThere DEF LifecycleInv, HistoryExplainsStatus, LinksResolve, Known

\* register
LEMMA RegisterIsGood ==
  ASSUME LifecycleInv, NEW id \in Ids, NEW c \in Drafts, Register(id, c)
  PROVE  GoodWrite(id, Registered(id, c))
<1> DEFINE d == Registered(id, c)
<1>1. d \in Doc
  BY RegisteredType, DraftsAssumption
<1>2. d.history = <<"Created">> /\ d.status = StatusSetBy["Created"]
  BY DEF Registered, StatusSetBy
<1>3. Explains(d.history, d.status) /\ Len(d.history) = 1
  <2>1. "Created" \in Events /\ "Created" \in DOMAIN StatusSetBy
    BY DEF Events, StatusSetBy
  <2> QED
    BY <1>2, <2>1, FirstEvent
<1>4. \A l \in d.links : l[2] \in Known
  BY DEF Register, LinksAccepted, Registered, Known
<1>5. docs[id] = NoDoc
  BY DEF Register, Stored
<1> QED
  BY <1>1, <1>3, <1>4, <1>5 DEF GoodWrite

\* verify, canonicalize, archive, restore and reject
LEMMA ChangeStatusIsGood ==
  ASSUME LifecycleInv, NEW id \in Ids, NEW op \in LifecycleOps, ChangeStatus(op, id)
  PROVE  GoodWrite(id, Apply(op, docs[id]))
<1> DEFINE o == docs[id]
           d == Apply(op, o)
<1>1. id \in Stored(docs) /\ TargetOf[op] \in TRANSITIONS[o.status]
  BY DEF ChangeStatus, Applicable
<1>2. o \in Doc /\ o.history \in Seq(Events)
      /\ \A l \in o.links : l[2] \in Known
  BY <1>1, StoredFacts
<1>3. d \in Doc
  BY <1>2, ApplyType
<1>4. EventOf[op] \in Events /\ EventOf[op] \in DOMAIN StatusSetBy
      /\ StatusSetBy[EventOf[op]] = TargetOf[op]
  BY DEF LifecycleOps, EventOf, TargetOf, Events, StatusSetBy
<1>5. /\ d.history = Append(o.history, EventOf[op]) /\ d.status = TargetOf[op]
      /\ d.links = o.links /\ d.category = o.category /\ d.parents = o.parents
  BY <1>2 DEF Apply, Doc
<1>6. Explains(d.history, d.status)
  BY <1>2, <1>4, <1>5, ExplainsSetter
<1>7. IsPrefix(o.history, d.history) /\ Len(d.history) = Len(o.history) + 1
  BY <1>2, <1>4, <1>5, AppendIsPrefix
<1>8. docs[id] # NoDoc
  BY <1>1 DEF Stored
<1> QED
  BY <1>1, <1>2, <1>3, <1>5, <1>6, <1>7, <1>8 DEF GoodWrite

\* recalculate_confidence
LEMMA RecalculateIsGood ==
  ASSUME LifecycleInv, NEW id \in Ids, Recalculate(id)
  PROVE  GoodWrite(id, Recalculated(docs[id]))
<1> DEFINE o == docs[id]
           d == Recalculated(o)
           e == "Confidence changed"
<1>1. id \in Stored(docs) /\ docs[id] # NoDoc
  BY DEF Recalculate, Stored
<1>2. o \in Doc /\ o.history \in Seq(Events) /\ Explains(o.history, o.status)
      /\ \A l \in o.links : l[2] \in Known
  BY <1>1, StoredFacts
<1>3. d \in Doc
  BY <1>2, RecalculatedType
<1>4. /\ d.history = Append(o.history, e) /\ d.status = o.status
      /\ d.links = o.links /\ d.category = o.category /\ d.parents = o.parents
  BY <1>2 DEF Recalculated, Doc
<1>5. e \in Events /\ e \notin DOMAIN StatusSetBy /\ e # "Conflict detected"
  BY DEF Events, StatusSetBy
<1>6. Explains(d.history, d.status)
  BY <1>2, <1>4, <1>5, ExplainsNeutral
<1>7. IsPrefix(o.history, d.history) /\ Len(d.history) = Len(o.history) + 1
  BY <1>2, <1>4, <1>5, AppendIsPrefix
<1> QED
  BY <1>1, <1>2, <1>3, <1>4, <1>6, <1>7 DEF GoodWrite

\* detect_conflicts
LEMMA DetectConflictsIsGood ==
  ASSUME LifecycleInv, NEW id \in Ids, DetectConflicts(id)
  PROVE  GoodWrite(id, ConflictMarked(docs[id]))
<1> DEFINE o == docs[id]
           d == ConflictMarked(o)
           e == "Conflict detected"
<1>1. id \in Stored(docs) /\ docs[id] # NoDoc
  BY DEF DetectConflicts, Stored
<1>2. /\ o \in Doc /\ o.history \in Seq(Events) /\ o.status \in Statuses
      /\ Explains(o.history, o.status)
      /\ \A l \in o.links : l[2] \in Known
  BY <1>1, StoredFacts
<1>3. d \in Doc
  BY <1>2, ConflictMarkedType
<1>4. /\ d.history = Append(o.history, e)
      /\ d.status = IF o.status \in Contestable THEN "CONFLICT" ELSE o.status
      /\ d.links = o.links /\ d.category = o.category /\ d.parents = o.parents
  BY <1>2 DEF ConflictMarked, Doc
<1>5. Explains(d.history, d.status)
  BY <1>2, <1>4, ExplainsConflict
<1>6. IsPrefix(o.history, d.history) /\ Len(d.history) = Len(o.history) + 1
  <2>1. e \in Events
    BY DEF Events
  <2> QED
    BY <1>2, <1>4, <2>1, AppendIsPrefix
<1>7. d.status # o.status => d.status \in TRANSITIONS[o.status]
  BY <1>2, <1>4 DEF Contestable, TRANSITIONS, Statuses
<1> QED
  BY <1>1, <1>2, <1>3, <1>4, <1>5, <1>6, <1>7 DEF GoodWrite

\* update
LEMMA UpdateIsGood ==
  ASSUME LifecycleInv, NEW id \in Ids, NEW c \in Drafts, Update(id, c)
  PROVE  GoodWrite(id, Updated(docs[id],
                               Edited(docs[id], id, c, docs[id].status)))
<1> DEFINE o == docs[id]
           k == Edited(o, id, c, o.status)
           d == Updated(o, k)
           e == "Updated"
<1>1. id \in Stored(docs) /\ docs[id] # NoDoc
  BY DEF Update, Stored
<1>2. /\ o \in Doc /\ o.history \in Seq(Events) /\ o.status \in Statuses
      /\ Explains(o.history, o.status)
      /\ \A l \in o.links : l[2] \in Known
  BY <1>1, StoredFacts
<1>3. k \in Doc
  BY <1>2, EditedType, DraftsAssumption
<1>4. d \in Doc
  BY <1>2, <1>3, UpdatedType
<1>5. k.status = o.status
  BY <1>2 DEF Edited, Doc
<1>6. /\ d.history = Append(o.history, e) /\ d.status = k.status
      /\ d.links = k.links /\ d.parents = o.parents
      /\ o.status = "CANONICAL" => d.category = o.category
  BY <1>3 DEF Updated, Doc
<1>7. e \in Events /\ e \notin DOMAIN StatusSetBy /\ e # "Conflict detected"
  BY DEF Events, StatusSetBy
<1>8. Explains(d.history, d.status)
  BY <1>2, <1>5, <1>6, <1>7, ExplainsNeutral
<1>9. IsPrefix(o.history, d.history) /\ Len(d.history) = Len(o.history) + 1
  BY <1>2, <1>6, <1>7, AppendIsPrefix
<1>10. \A l \in k.links : l[2] \in Known
  <2>1. k.links # o.links => LinksAccepted(docs, present, id, k.links)
    BY DEF Update
  <2>2. CASE k.links = o.links
    BY <1>2, <2>2
  <2>3. CASE k.links # o.links
    BY <2>1, <2>3 DEF LinksAccepted, Known
  <2> QED
    BY <2>2, <2>3
<1> QED
  BY <1>1, <1>4, <1>5, <1>6, <1>8, <1>9, <1>10 DEF GoodWrite

\* merge
LEMMA MergeIsGood ==
  ASSUME LifecycleInv, NEW i \in Ids, NEW j \in Ids, NEW m \in Ids, Merge(i, j, m)
  PROVE  GoodWrite(m, Merged(i, docs[i], j, docs[j], m))
<1> DEFINE d == Merged(i, docs[i], j, docs[j], m)
<1>1. i \in Stored(docs) /\ j \in Stored(docs) /\ docs[m] = NoDoc
  BY DEF Merge, Stored
<1>2. d \in Doc
  BY <1>1, StoredFacts, MergedType
<1>3. d.history = <<"Merged">> /\ d.status = StatusSetBy["Merged"]
  BY DEF Merged, StatusSetBy
<1>4. Explains(d.history, d.status) /\ Len(d.history) = 1
  <2>1. "Merged" \in Events /\ "Merged" \in DOMAIN StatusSetBy
    BY DEF Events, StatusSetBy
  <2> QED
    BY <1>3, <2>1, FirstEvent
<1>5. \A l \in d.links : l[2] \in Known \cup {m}
  BY <1>1 DEF Merged, MergeLinks, Known
<1> QED
  BY <1>1, <1>2, <1>4, <1>5 DEF GoodWrite

\* Nothing is written; what edges lead to may come and go, and is remembered.
OthersChange ==
  /\ docs' = docs
  /\ present' \subseteq Others /\ deleted' \subseteq Others
  /\ present \cup deleted \subseteq present' \cup deleted'

\* It keeps the invariant.
LEMMA OthersKeepInv ==
  ASSUME LifecycleInv, OthersChange
  PROVE  LifecycleInv'
<1>1. LifecycleTypeOK'
  BY DEF LifecycleInv, LifecycleTypeOK, OthersChange
<1>2. HistoryExplainsStatus' /\ RevisionCountsHistory'
  BY DEF LifecycleInv, HistoryExplainsStatus, RevisionCountsHistory, OthersChange, Stored
<1>3. LinksResolve'
  BY DEF LifecycleInv, LinksResolve, OthersChange, Stored
<1> QED
  BY <1>1, <1>2, <1>3 DEF LifecycleInv

\* Create and Delete do no more.
LEMMA OthersOnly ==
  ASSUME LifecycleTypeOK,
         \/ \E o \in Others : Create(o)
         \/ \E some \in Deletions : Delete(some)
  PROVE  OthersChange
<1>1. ASSUME NEW o \in Others, Create(o)
      PROVE  OthersChange
  BY <1>1 DEF Create, OthersChange, LifecycleTypeOK
<1>2. ASSUME NEW some \in Deletions, Delete(some)
      PROVE  OthersChange
  BY <1>2 DEF Delete, OthersChange, LifecycleTypeOK
<1> QED
  BY <1>1, <1>2

\* Every step of the contract is a good write or leaves the documents alone.
LEMMA NextIsGood ==
  ASSUME LifecycleInv, LifecycleNext
  PROVE  (\E id, d : GoodWrite(id, d) /\ Write(id, d)) \/ OthersChange
<1> SUFFICES ASSUME ~OthersChange
             PROVE  \E id, d : GoodWrite(id, d) /\ Write(id, d)
  OBVIOUS
<1>1. PICK id \in Ids :
        \/ \E c \in Drafts : Register(id, c) \/ Update(id, c)
        \/ \E op \in LifecycleOps : ChangeStatus(op, id)
        \/ Recalculate(id)
        \/ DetectConflicts(id)
        \/ \E i, j \in Ids : Merge(i, j, id)
  BY OthersOnly DEF LifecycleNext, LifecycleInv
<1>2. CASE \E c \in Drafts : Register(id, c)
  BY <1>2, RegisterIsGood DEF Register
<1>3. CASE \E c \in Drafts : Update(id, c)
  BY <1>3, UpdateIsGood DEF Update
<1>4. CASE \E op \in LifecycleOps : ChangeStatus(op, id)
  BY <1>4, ChangeStatusIsGood DEF ChangeStatus
<1>5. CASE Recalculate(id)
  BY <1>5, RecalculateIsGood DEF Recalculate
<1>6. CASE DetectConflicts(id)
  BY <1>6, DetectConflictsIsGood DEF DetectConflicts
<1>7. CASE \E i, j \in Ids : Merge(i, j, id)
  BY <1>7, MergeIsGood DEF Merge
<1> QED
  BY <1>1, <1>2, <1>3, <1>4, <1>5, <1>6, <1>7

----
(* The theorems of the contract.                                           *)

\* Legacy documents satisfy the invariant: no history, no _rev, no edges.
LEMMA LifecycleInitInv == LifecycleInit => LifecycleInv
<1> SUFFICES ASSUME LifecycleInit
             PROVE  LifecycleInv
  OBVIOUS
<1>1. /\ docs \in Store
      /\ \A id \in Stored(docs) :
           docs[id].history = << >> /\ docs[id].rev = 0 /\ docs[id].links = {}
  BY InitialStoresAssumption DEF LifecycleInit
<1>2. LifecycleTypeOK
  BY <1>1 DEF LifecycleTypeOK, LifecycleInit
<1>3. HistoryExplainsStatus
  <2>1. 1 .. Len(<< >>) = {}
    OBVIOUS
  <2>2. \A s : Explains(<< >>, s)
    BY <2>1 DEF Explains
  <2> QED
    BY <1>1, <2>2 DEF HistoryExplainsStatus
<1>4. RevisionCountsHistory
  BY <1>1 DEF RevisionCountsHistory
<1>5. LinksResolve
  BY <1>1 DEF LinksResolve
<1> QED
  BY <1>2, <1>3, <1>4, <1>5 DEF LifecycleInv

\* Every step keeps it.
LEMMA LifecycleNextInv == LifecycleInv /\ [LifecycleNext]_disk => LifecycleInv'
<1>1. CASE LifecycleInv /\ LifecycleNext
  BY <1>1, NextIsGood, GoodWriteKeepsInv, OthersKeepInv
<1>2. CASE LifecycleInv /\ UNCHANGED disk
  BY <1>2 DEF LifecycleInv, LifecycleTypeOK, HistoryExplainsStatus, RevisionCountsHistory,
              LinksResolve, Stored, disk
<1> QED
  BY <1>1, <1>2

\* The invariant of the contract.
THEOREM LifecycleInvariance == LifecycleSpec => []LifecycleInv
  BY LifecycleInitInv, LifecycleNextInv, PTL DEF LifecycleSpec

\* The audit log of a document always accounts for its status, its revision
\* counts the entries of the log, and its edges lead to what there is or to what
\* was deleted.
THEOREM Soundness ==
  LifecycleSpec => [](HistoryExplainsStatus /\ RevisionCountsHistory /\ LinksResolve)
<1>1. LifecycleInv => HistoryExplainsStatus /\ RevisionCountsHistory /\ LinksResolve
  BY DEF LifecycleInv
<1> QED
  BY <1>1, LifecycleInvariance, PTL

\* Statuses move along TRANSITIONS only, whatever sequence of operations is
\* called: KnowledgeStatus.transition and detect_conflicts never disagree.
THEOREM TransitionsAreLegal == LifecycleSpec => LegalTransitions
<1>1. LifecycleInv /\ [LifecycleNext]_disk =>
        [\A id \in Stored(docs) :
           docs'[id].status # docs[id].status =>
             docs'[id].status \in TRANSITIONS[docs[id].status]]_docs
  BY NextIsGood, GoodWriteIsLegal DEF OthersChange, disk
<1> QED
  BY <1>1, LifecycleInvariance, PTL DEF LifecycleSpec, LegalTransitions

\* No operation rewrites or loses a history entry.
THEOREM HistoriesAreAppendOnly == LifecycleSpec => AppendOnlyHistory
<1>1. LifecycleInv /\ [LifecycleNext]_disk =>
        [\A id \in Stored(docs) :
           IsPrefix(docs[id].history, docs'[id].history)]_docs
  <2> SUFFICES ASSUME LifecycleInv, LifecycleNext, NEW id \in Stored(docs)
               PROVE  IsPrefix(docs[id].history, docs'[id].history)
    BY DEF disk
  <2>1. CASE docs'[id] # docs[id]
    BY <2>1, NextIsGood, GoodWriteIsLegal DEF OthersChange
  <2>2. CASE docs'[id] = docs[id]
    BY <2>2 DEF IsPrefix
  <2> QED
    BY <2>1, <2>2
<1> QED
  BY <1>1, LifecycleInvariance, PTL DEF LifecycleSpec, AppendOnlyHistory

\* No two writes of a document share a revision.
THEOREM RevisionsGrow == LifecycleSpec => RevisionGrows
<1>1. LifecycleInv /\ [LifecycleNext]_disk =>
        [\A id \in Stored(docs) :
           docs'[id] # docs[id] => docs'[id].rev = docs[id].rev + 1]_docs
  BY NextIsGood, GoodWriteIsLegal DEF OthersChange, disk
<1> QED
  BY <1>1, LifecycleInvariance, PTL DEF LifecycleSpec, RevisionGrows

\* A document keeps its parents and creation time, and once CANONICAL its
\* category.
THEOREM IdentitiesAreKept == LifecycleSpec => IdentityIsKept
<1>1. LifecycleInv /\ [LifecycleNext]_disk =>
        [\A id \in Stored(docs) :
           /\ docs[id].status = "CANONICAL" =>
                docs'[id].category = docs[id].category
           /\ docs'[id].parents = docs[id].parents
           /\ docs'[id].elders = docs[id].elders]_docs
  BY NextIsGood, GoodWriteIsLegal DEF OthersChange, disk
<1> QED
  BY <1>1, LifecycleInvariance, PTL DEF LifecycleSpec, IdentityIsKept

----
(* The types of the Librarian as it runs.                                  *)

\* A document that is being edited stays stored: nothing removes documents.
EditedIsStored ==
  \A a \in Agents : pc[a] = "editing" => job[a].id \in Stored(docs)

TypeInv == TypeOK /\ EditedIsStored

\* A job is not taken for the absence of one.
LEMMA JobIsThere == NoJob \notin Job
  BY DEF NoJob, Job, Ops, LifecycleOps

\* An agent at work has a job.
LEMMA BusyHasJob ==
  ASSUME TypeOK, NEW a \in Agents, pc[a] \notin {"idle", "ready"}
  PROVE  /\ job[a] \in Job
         /\ job[a].op \in Ops /\ job[a].id \in Ids /\ job[a].work \in Doc
         /\ pc[a] = "staged" => job[a].temp \in Doc
<1>1. job[a] \in Job
  BY DEF TypeOK
<1> QED
  BY <1>1 DEF TypeOK, Job

\* Taking up a working copy of the right type keeps the types.
LEMMA HoldType ==
  ASSUME TypeInv, NEW a \in Agents,
         NEW phase \in {"editing", "scanning", "merging", "loaded"},
         NEW op \in Ops, NEW id \in Ids, NEW d \in Doc,
         phase = "editing" => id \in Stored(docs),
         Hold(a, phase, op, id, d)
  PROVE  TypeInv'
<1> USE DEF TypeInv
<1>1. JobOf(op, id, d) \in Job
  BY DEF JobOf, Job
<1>2. JobOf(op, id, d).id = id
  BY DEF JobOf
<1>3. disk' = disk /\ Stored(docs)' = Stored(docs) /\ LifecycleTypeOK'
  BY DEF Hold, Stored, disk, TypeOK, LifecycleTypeOK
<1>4. TypeOK'
  <2>1. /\ pc' \in [Agents -> Phases]
        /\ job' \in [Agents -> Job \cup {NoJob}]
    BY <1>1 DEF TypeOK, Hold, Phases
  <2>2. ASSUME NEW b \in Agents
        PROVE  /\ (job'[b] = NoJob) <=> (pc'[b] \in {"idle", "ready"})
               /\ pc'[b] = "staged" => job'[b].temp # NoDoc
    BY <1>1, JobIsThere DEF TypeOK, Hold
  <2> QED
    BY <1>3, <2>1, <2>2 DEF TypeOK, Hold
<1>5. EditedIsStored'
  BY <1>2, <1>3 DEF EditedIsStored, TypeOK, Hold
<1> QED
  BY <1>4, <1>5

\* Dropping an operation keeps the types, whatever it saved.
LEMMA DropType ==
  ASSUME TypeInv, NEW a \in Agents, Drop(a),
         LifecycleTypeOK', Stored(docs) \subseteq Stored(docs')
  PROVE  TypeInv'
<1> USE DEF TypeInv
<1>1. TypeOK'
  <2>1. /\ pc' \in [Agents -> Phases]
        /\ job' \in [Agents -> Job \cup {NoJob}]
    BY DEF TypeOK, Drop, Phases
  <2>2. ASSUME NEW b \in Agents
        PROVE  /\ (job'[b] = NoJob) <=> (pc'[b] \in {"idle", "ready"})
               /\ pc'[b] = "staged" => job'[b].temp # NoDoc
    BY DEF TypeOK, Drop
  <2> QED
    BY <2>1, <2>2 DEF TypeOK, Drop
<1>2. EditedIsStored'
  BY DEF EditedIsStored, TypeOK, Drop
<1> QED
  BY <1>1, <1>2

\* The actions that begin or continue an operation.
LEMMA LoadingType ==
  ASSUME TypeInv, NEW a \in Agents, NEW id \in Ids,
         \/ \E op \in LifecycleOps : Load(a, op, id)
         \/ LoadForRecalculate(a, id)
         \/ LoadForDetect(a, id)
         \/ \E c \in Drafts : BeginRegister(a, id, c)
         \/ \E c \in Drafts, s \in Statuses : Edit(a, id, c, s)
         \/ BeginMerge(a, id)
  PROVE  TypeInv'
<1>1. ASSUME id \in Stored(docs)
      PROVE  docs[id] \in Doc /\ docs[id].status \in Statuses
  BY <1>1, StoredIsDoc DEF TypeInv, TypeOK, LifecycleTypeOK, Doc
<1>2. LifecycleOps \subseteq Ops
  BY DEF Ops
<1>3. {"recalculate", "detect_conflicts", "register", "update", "merge"}
        \subseteq Ops
  BY DEF Ops
<1>4. ASSUME NEW op \in LifecycleOps, Load(a, op, id)
      PROVE  TypeInv'
  BY <1>1, <1>2, <1>4, ApplyType, HoldType DEF Load
<1>5. CASE LoadForRecalculate(a, id)
  BY <1>1, <1>3, <1>5, RecalculatedType, HoldType DEF LoadForRecalculate
<1>6. CASE LoadForDetect(a, id)
  BY <1>1, <1>3, <1>6, HoldType DEF LoadForDetect
<1>7. ASSUME NEW c \in Drafts, BeginRegister(a, id, c)
      PROVE  TypeInv'
  BY <1>3, <1>7, RegisteredType, DraftsAssumption, HoldType DEF BeginRegister
<1>8. ASSUME NEW c \in Drafts, NEW s \in Statuses, Edit(a, id, c, s)
      PROVE  TypeInv'
  BY <1>1, <1>3, <1>8, EditedType, DraftsAssumption, HoldType DEF Edit
<1>9. CASE BeginMerge(a, id)
  BY <1>1, <1>3, <1>9, HoldType DEF BeginMerge
<1> QED
  BY <1>4, <1>5, <1>6, <1>7, <1>8, <1>9

\* detect_conflicts scans the project.
LEMMA ScanType ==
  ASSUME TypeInv, NEW a \in Agents, Scan(a)
  PROVE  TypeInv'
<1> DEFINE id == job[a].id
           d == job[a].work
<1>1. id \in Ids /\ d \in Doc /\ "detect_conflicts" \in Ops
  BY BusyHasJob DEF Scan, TypeInv, Ops
<1>2. CASE Hold(a, "loaded", "detect_conflicts", id, ConflictMarked(d))
  BY <1>1, <1>2, ConflictMarkedType, HoldType
<1>3. CASE Drop(a) /\ UNCHANGED disk
  BY <1>3, DropType DEF TypeInv, TypeOK, LifecycleTypeOK, disk
<1> QED
  BY <1>2, <1>3 DEF Scan

\* update loads the stored document.
LEMMA LoadForUpdateType ==
  ASSUME TypeInv, NEW a \in Agents, LoadForUpdate(a)
  PROVE  TypeInv'
<1> DEFINE id == job[a].id
           k == job[a].work
<1>1. id \in Ids /\ k \in Doc /\ "update" \in Ops
  BY BusyHasJob DEF LoadForUpdate, TypeInv, Ops
<1>2. docs[id] \in Doc
  BY StoredIsDoc DEF LoadForUpdate, TypeInv, TypeOK, LifecycleTypeOK, EditedIsStored
<1>3. CASE Hold(a, "loaded", "update", id, Updated(docs[id], k))
  BY <1>1, <1>2, <1>3, UpdatedType, HoldType
<1>4. CASE Drop(a) /\ UNCHANGED disk
  BY <1>4, DropType DEF TypeInv, TypeOK, LifecycleTypeOK, disk
<1> QED
  BY <1>3, <1>4 DEF LoadForUpdate

\* merge loads its second source.
LEMMA LoadSecondType ==
  ASSUME TypeInv, NEW a \in Agents, NEW j \in Ids, NEW m \in Ids,
         LoadSecond(a, j, m)
  PROVE  TypeInv'
<1>1. job[a].id \in Ids /\ job[a].work \in Doc /\ "merge" \in Ops
  BY BusyHasJob DEF LoadSecond, TypeInv, Ops
<1>2. docs[j] \in Doc
  BY StoredIsDoc DEF LoadSecond, TypeInv, TypeOK, LifecycleTypeOK
<1>3. Merged(job[a].id, job[a].work, j, docs[j], m) \in Doc
  BY <1>1, <1>2, MergedType
<1> QED
  BY <1>1, <1>3, HoldType DEF LoadSecond

\* The envelope.
LEMMA StageType ==
  ASSUME TypeInv, NEW a \in Agents, Stage(a)
  PROVE  TypeInv'
<1> DEFINE e == Envelope(docs, job[a].id, job[a].work)
<1> USE DEF TypeInv
<1>1. job[a] \in Job /\ job[a].id \in Ids /\ job[a].work \in Doc
  BY BusyHasJob DEF Stage
<1>2. e \in Doc /\ e # NoDoc
  BY <1>1, EnvelopeType, DocIsThere DEF TypeOK, LifecycleTypeOK
<1> HIDE DEF e
<1>3. [job[a] EXCEPT !.temp = e] \in Job
  BY <1>1, <1>2 DEF Job
<1>4. /\ job' = [job EXCEPT ![a] = [job[a] EXCEPT !.temp = e]]
      /\ pc' = [pc EXCEPT ![a] = "staged"]
      /\ docs' = docs /\ writer' = writer /\ LifecycleTypeOK'
  BY DEF Stage, e, disk, TypeOK, LifecycleTypeOK
<1>5. [job[a] EXCEPT !.temp = e].temp = e
  BY <1>1 DEF Job
<1>6. TypeOK'
  <2>1. /\ pc' \in [Agents -> Phases]
        /\ job' \in [Agents -> Job \cup {NoJob}]
    BY <1>3, <1>4 DEF TypeOK, Phases
  <2>2. ASSUME NEW b \in Agents
        PROVE  /\ (job'[b] = NoJob) <=> (pc'[b] \in {"idle", "ready"})
               /\ pc'[b] = "staged" => job'[b].temp # NoDoc
    BY <1>2, <1>3, <1>4, <1>5, JobIsThere DEF TypeOK
  <2> QED
    BY <1>4, <2>1, <2>2 DEF TypeOK
<1>7. EditedIsStored'
  BY <1>4 DEF EditedIsStored, TypeOK, Stored
<1> QED
  BY <1>6, <1>7

\* The rename.
LEMMA ReplaceType ==
  ASSUME TypeInv, NEW a \in Agents, Replace(a)
  PROVE  TypeInv'
<1>1. job[a].id \in Ids /\ job[a].temp \in Doc
  BY BusyHasJob DEF Replace, TypeInv
<1>2. LifecycleTypeOK'
  BY <1>1 DEF Replace, TypeInv, TypeOK, LifecycleTypeOK, Store
<1>3. Stored(docs) \subseteq Stored(docs')
  BY <1>1, DocIsThere DEF Replace, Stored, TypeInv, TypeOK, LifecycleTypeOK, Store
<1> QED
  BY <1>2, <1>3, DropType DEF Replace

\* Crashes.
LEMMA CrashType ==
  ASSUME TypeInv, NEW p \in Processes, Crash(p)
  PROVE  TypeInv'
<1>1. TypeOK'
  BY DEF Crash, TypeInv, TypeOK, LifecycleTypeOK, Phases, disk
<1>2. EditedIsStored'
  BY DEF Crash, TypeInv, TypeOK, EditedIsStored, Stored, disk
<1> QED
  BY <1>1, <1>2 DEF TypeInv

\* The lock.
LEMMA SessionType ==
  ASSUME TypeInv, NEW a \in Agents, Acquire(a) \/ Release(a)
  PROVE  TypeInv'
<1>1. TypeOK'
  BY DEF Acquire, Release, TypeInv, TypeOK, LifecycleTypeOK, Phases, disk
<1>2. EditedIsStored'
  BY DEF Acquire, Release, TypeInv, TypeOK, EditedIsStored, Stored, disk
<1> QED
  BY <1>1, <1>2 DEF TypeInv

\* The other services.
OtherServices(a) ==
  \/ \E o \in Others : CreateOther(a, o)
  \/ \E some \in Deletions : DeleteOthers(a, some)

\* They leave agents and documents alone.
LEMMA ServicesDo ==
  ASSUME LifecycleTypeOK, NEW a \in Agents, OtherServices(a)
  PROVE  /\ OthersChange
         /\ pc[a] = "ready" /\ UNCHANGED <<pc, job, writer>>
         /\ LifecycleNext
<1>1. ASSUME NEW o \in Others, CreateOther(a, o)
      PROVE  /\ \/ \E x \in Others : Create(x)
                \/ \E some \in Deletions : Delete(some)
             /\ pc[a] = "ready" /\ UNCHANGED <<pc, job, writer>>
  BY <1>1 DEF CreateOther
<1>2. ASSUME NEW some \in Deletions, DeleteOthers(a, some)
      PROVE  /\ \/ \E x \in Others : Create(x)
                \/ \E x \in Deletions : Delete(x)
             /\ pc[a] = "ready" /\ UNCHANGED <<pc, job, writer>>
  BY <1>2 DEF DeleteOthers
<1> QED
  BY <1>1, <1>2, OthersOnly DEF OtherServices, LifecycleNext

\* And so the types.
LEMMA ServicesType ==
  ASSUME TypeInv, NEW a \in Agents, OtherServices(a)
  PROVE  TypeInv'
<1>1. OthersChange /\ UNCHANGED <<pc, job, writer>>
  BY ServicesDo DEF TypeInv, TypeOK
<1>2. LifecycleTypeOK'
  BY <1>1 DEF TypeInv, TypeOK, LifecycleTypeOK, OthersChange
<1> QED
  BY <1>1, <1>2 DEF TypeInv, TypeOK, EditedIsStored, Stored, OthersChange

\* Every step keeps the types.
LEMMA NextType == TypeInv /\ [Next]_vars => TypeInv'
<1> SUFFICES ASSUME TypeInv, [Next]_vars
             PROVE  TypeInv'
  OBVIOUS
<1>1. ASSUME NEW a \in Agents, Acquire(a) \/ Release(a)
      PROVE  TypeInv'
  BY <1>1, SessionType
<1>2. ASSUME NEW a \in Agents, Scan(a) \/ LoadForUpdate(a)
      PROVE  TypeInv'
  BY <1>2, ScanType, LoadForUpdateType
<1>3. ASSUME NEW a \in Agents, Stage(a) \/ Replace(a)
      PROVE  TypeInv'
  BY <1>3, StageType, ReplaceType
<1>4. ASSUME NEW a \in Agents, Fail(a)
      PROVE  TypeInv'
  BY <1>4, DropType DEF Fail, TypeInv, TypeOK, LifecycleTypeOK, disk
<1>5. ASSUME NEW a \in Agents, NEW id \in Ids,
             \/ \E op \in LifecycleOps : Load(a, op, id)
             \/ LoadForRecalculate(a, id)
             \/ LoadForDetect(a, id)
             \/ \E c \in Drafts : BeginRegister(a, id, c)
             \/ \E c \in Drafts, s \in Statuses : Edit(a, id, c, s)
             \/ BeginMerge(a, id)
      PROVE  TypeInv'
  BY <1>5, LoadingType
<1>6. ASSUME NEW a \in Agents, NEW id \in Ids, NEW m \in Ids,
             LoadSecond(a, id, m)
      PROVE  TypeInv'
  BY <1>6, LoadSecondType
<1>7. ASSUME NEW p \in Processes, Crash(p)
      PROVE  TypeInv'
  BY <1>7, CrashType
<1>8. ASSUME NEW a \in Agents, OtherServices(a)
      PROVE  TypeInv'
  BY <1>8, ServicesType
<1>9. CASE UNCHANGED vars
  BY <1>9 DEF vars, disk, TypeInv, TypeOK, LifecycleTypeOK, EditedIsStored, Stored
<1> QED
  BY <1>1, <1>2, <1>3, <1>4, <1>5, <1>6, <1>7, <1>8, <1>9 DEF Next, OtherServices

\* They hold at the start.
LEMMA InitType == Init => TypeInv
<1> SUFFICES ASSUME Init
             PROVE  TypeInv
  OBVIOUS
<1>1. TypeOK
  BY InitialStoresAssumption
     DEF Init, LifecycleInit, TypeOK, LifecycleTypeOK, Phases
<1>2. EditedIsStored
  BY DEF Init, EditedIsStored
<1> QED
  BY <1>1, <1>2 DEF TypeInv

\* Whatever the agents do, lock or not, and wherever they fail or crash,
\* documents and working copies keep their types and an agent has a working
\* copy exactly while an operation runs.
THEOREM TypeCorrectness == Spec => []TypeOK
<1>1. Spec => []TypeInv
  BY InitType, NextType, PTL DEF Spec
<1>2. TypeInv => TypeOK
  BY DEF TypeInv
<1> QED
  BY <1>1, <1>2, PTL

----
(* Exclusion.                                                              *)

\* An action that leaves the lock alone and keeps the busy agents busy.
LEMMA BusyKeepsExclusive ==
  ASSUME Exclusive, writer' = writer,
         \A b \in Agents : pc'[b] # "idle" <=> pc[b] # "idle"
  PROVE  Exclusive'
  BY AgentsAssumption DEF Exclusive

\* Hold, Drop and Stage are such actions.
LEMMA WorkKeepsBusy ==
  ASSUME TypeOK, NEW a \in Agents, pc[a] # "idle", writer' = writer,
         \E phase \in Phases \ {"idle"} : pc' = [pc EXCEPT ![a] = phase]
  PROVE  \A b \in Agents : pc'[b] # "idle" <=> pc[b] # "idle"
  BY DEF TypeOK

\* Every step of an operation works on the agent's own phase only.
LEMMA WorkShape ==
  ASSUME NEW a \in Agents, NEW id \in Ids, NEW m \in Ids,
         \/ Scan(a) \/ LoadForUpdate(a) \/ Stage(a) \/ Replace(a) \/ Fail(a)
         \/ \E op \in LifecycleOps : Load(a, op, id)
         \/ LoadForRecalculate(a, id)
         \/ LoadForDetect(a, id)
         \/ \E c \in Drafts : BeginRegister(a, id, c)
         \/ \E c \in Drafts, s \in Statuses : Edit(a, id, c, s)
         \/ BeginMerge(a, id)
         \/ LoadSecond(a, id, m)
  PROVE  /\ pc[a] # "idle"
         /\ writer' = writer
         /\ \E phase \in Phases \ {"idle"} : pc' = [pc EXCEPT ![a] = phase]
<1> USE DEF Phases, Hold, Drop
<1>1. CASE Scan(a)
  BY <1>1 DEF Scan
<1>2. CASE LoadForUpdate(a)
  BY <1>2 DEF LoadForUpdate
<1>3. CASE Stage(a) \/ Replace(a) \/ Fail(a)
  BY <1>3 DEF Stage, Replace, Fail
<1>4. CASE \E op \in LifecycleOps : Load(a, op, id)
  BY <1>4 DEF Load
<1>5. CASE LoadForRecalculate(a, id) \/ LoadForDetect(a, id) \/ BeginMerge(a, id)
  BY <1>5 DEF LoadForRecalculate, LoadForDetect, BeginMerge
<1>6. CASE \E c \in Drafts : BeginRegister(a, id, c)
  BY <1>6 DEF BeginRegister
<1>7. CASE \E c \in Drafts, s \in Statuses : Edit(a, id, c, s)
  BY <1>7 DEF Edit
<1>8. CASE LoadSecond(a, id, m)
  BY <1>8 DEF LoadSecond
<1> QED
  BY <1>1, <1>2, <1>3, <1>4, <1>5, <1>6, <1>7, <1>8

\* Every step keeps the exclusion.
LEMMA NextExclusive == TypeInv /\ Exclusive /\ [Next]_vars => Exclusive'
<1> SUFFICES ASSUME TypeInv, Exclusive, [Next]_vars
             PROVE  Exclusive'
  OBVIOUS
<1> USE DEF TypeInv
<1>1. ASSUME NEW a \in Agents, Acquire(a)
      PROVE  Exclusive'
  BY <1>1, AgentsAssumption DEF Acquire, Exclusive, TypeOK
<1>2. ASSUME NEW a \in Agents, Release(a)
      PROVE  Exclusive'
  BY <1>2, AgentsAssumption DEF Release, Exclusive, TypeOK
<1>3. ASSUME NEW a \in Agents,
             Scan(a) \/ LoadForUpdate(a) \/ Stage(a) \/ Replace(a) \/ Fail(a)
      PROVE  Exclusive'
  <2>1. job[a].id \in Ids
    BY <1>3, BusyHasJob DEF Scan, LoadForUpdate, Stage, Replace, Fail
  <2> QED
    BY <1>3, <2>1, WorkShape, WorkKeepsBusy, BusyKeepsExclusive
<1>4. ASSUME NEW a \in Agents, NEW id \in Ids, NEW m \in Ids,
             \/ \E op \in LifecycleOps : Load(a, op, id)
             \/ LoadForRecalculate(a, id)
             \/ LoadForDetect(a, id)
             \/ \E c \in Drafts : BeginRegister(a, id, c)
             \/ \E c \in Drafts, s \in Statuses : Edit(a, id, c, s)
             \/ BeginMerge(a, id)
             \/ LoadSecond(a, id, m)
      PROVE  Exclusive'
  BY <1>4, WorkShape, WorkKeepsBusy, BusyKeepsExclusive
<1>5. ASSUME NEW p \in Processes, Crash(p)
      PROVE  Exclusive'
  <2>1. CASE p = LockedAgents
    BY <1>5, <2>1, AgentsAssumption DEF Crash, Exclusive
  <2>2. CASE p # LockedAgents
    <3>1. PICK a \in Agents \ LockedAgents : p = {a}
      BY <2>2 DEF Processes
    <3> QED
      BY <1>5, <2>2, <3>1, AgentsAssumption DEF Crash, Exclusive
  <2> QED
    BY <2>1, <2>2
<1>6. ASSUME NEW a \in Agents, OtherServices(a)
      PROVE  Exclusive'
  BY <1>6, ServicesDo DEF TypeOK, Exclusive
<1>7. CASE UNCHANGED vars
  BY <1>7 DEF vars, Exclusive
<1> QED
  BY <1>1, <1>2, <1>3, <1>4, <1>5, <1>6, <1>7 DEF Next, OtherServices

\* At most one agent is inside AgentLock's WRITE mode, whatever unlocked
\* agents and crashes do, and the flag never outlives its holder.
THEOREM MutualExclusion == Spec => []Exclusive
<1>1. Init => Exclusive
  BY AgentsAssumption DEF Init, Exclusive
<1>2. Spec => []TypeInv
  BY InitType, NextType, PTL DEF Spec
<1> QED
  BY <1>1, <1>2, NextExclusive, PTL DEF Spec

----
(* Edges, in every deployment.                                             *)

\* The edges of document d lead to what there is or was once d is stored as id.
Leads(d, id) == \A l \in d.links : l[2] \in Known \cup {id}

\* What agent a is going to write leads somewhere.  A caller's edited copy need
\* not; update looks at it.  The first source of a merge is stored.
Aims(a) ==
  /\ pc[a] \in {"scanning", "merging", "loaded", "staged"} =>
       Leads(job[a].work, job[a].id)
  /\ pc[a] = "merging" => job[a].id \in Stored(docs)
  /\ pc[a] = "staged" => job[a].temp.links = job[a].work.links

EdgesInv == TypeInv /\ LinksResolve /\ \A a \in Agents : Aims(a)

\* No step takes a document away, and what is deleted is remembered.
Grows == Stored(docs) \subseteq Stored(docs)' /\ Known \subseteq Known'

\* So what led somewhere still does.
LEMMA AimsStay ==
  ASSUME TypeInv, NEW b \in Agents, Aims(b), pc'[b] = pc[b], job'[b] = job[b],
         Grows
  PROVE  Aims(b)'
  BY DEF Aims, Leads, Grows

\* Taking up a copy that leads somewhere keeps the invariant.
LEMMA HoldEdges ==
  ASSUME EdgesInv, TypeInv', NEW a \in Agents,
         NEW phase \in {"editing", "scanning", "merging", "loaded"},
         NEW op, NEW id, NEW d, Hold(a, phase, op, id, d),
         phase # "editing" => Leads(d, id),
         phase = "merging" => id \in Stored(docs)
  PROVE  EdgesInv'
<1>1. /\ disk' = disk /\ Stored(docs)' = Stored(docs) /\ Known' = Known
      /\ pc' = [pc EXCEPT ![a] = phase]
      /\ job' = [job EXCEPT ![a] = JobOf(op, id, d)]
  BY DEF Hold, Stored, Known, disk
<1>2. LinksResolve'
  BY <1>1 DEF EdgesInv, LinksResolve, disk
<1>3. ASSUME NEW b \in Agents
      PROVE  Aims(b)'
  <2>1. CASE b = a
    <3>1. pc'[a] = phase /\ job'[a].work = d /\ job'[a].id = id
      BY <1>1 DEF EdgesInv, TypeInv, TypeOK, JobOf
    <3> QED
      BY <1>1, <2>1, <3>1 DEF Aims, Leads
  <2>2. CASE b # a
    <3>1. pc'[b] = pc[b] /\ job'[b] = job[b]
      BY <1>1, <2>2 DEF EdgesInv, TypeInv, TypeOK
    <3> QED
      BY <1>1, <3>1, AimsStay DEF EdgesInv, Grows
  <2> QED
    BY <2>1, <2>2
<1> QED
  BY <1>2, <1>3 DEF EdgesInv

\* So does dropping one, whatever was written, if edges still resolve.
LEMMA DropEdges ==
  ASSUME EdgesInv, TypeInv', NEW a \in Agents, Drop(a), LinksResolve', Grows
  PROVE  EdgesInv'
<1>1. ASSUME NEW b \in Agents
      PROVE  Aims(b)'
  <2>1. CASE b = a
    <3>1. pc'[a] = "ready"
      BY DEF EdgesInv, TypeInv, TypeOK, Drop
    <3> QED
      BY <2>1, <3>1 DEF Aims
  <2>2. CASE b # a
    <3>1. pc'[b] = pc[b] /\ job'[b] = job[b]
      BY <2>2 DEF EdgesInv, TypeInv, TypeOK, Drop
    <3> QED
      BY <3>1, AimsStay DEF EdgesInv
  <2> QED
    BY <2>1, <2>2
<1> QED
  BY <1>1 DEF EdgesInv

\* The edges of a document that is stored, and of what an operation makes of it.
LEMMA OperationsLead ==
  ASSUME EdgesInv, NEW id \in Stored(docs)
  PROVE  /\ Leads(docs[id], id)
         /\ \A op \in LifecycleOps : Leads(Apply(op, docs[id]), id)
         /\ Leads(Recalculated(docs[id]), id)
<1>1. docs[id] \in Doc
  BY StoredIsDoc DEF EdgesInv, TypeInv, TypeOK, LifecycleTypeOK
<1>2. /\ \A op \in LifecycleOps : Apply(op, docs[id]).links = docs[id].links
      /\ Recalculated(docs[id]).links = docs[id].links
  BY <1>1 DEF Apply, Recalculated, Doc
<1> QED
  BY <1>2 DEF EdgesInv, LinksResolve, Leads, Known

\* The actions that begin an operation keep the invariant.
LEMMA LoadingEdges ==
  ASSUME EdgesInv, TypeInv', NEW a \in Agents, NEW id \in Ids,
         \/ \E op \in LifecycleOps : Load(a, op, id)
         \/ LoadForRecalculate(a, id)
         \/ LoadForDetect(a, id)
         \/ \E c \in Drafts : BeginRegister(a, id, c)
         \/ \E c \in Drafts, s \in Statuses : Edit(a, id, c, s)
         \/ BeginMerge(a, id)
  PROVE  EdgesInv'
<1>1. ASSUME NEW op \in LifecycleOps, Load(a, op, id)
      PROVE  EdgesInv'
  BY <1>1, OperationsLead, HoldEdges DEF Load
<1>2. CASE LoadForRecalculate(a, id)
  BY <1>2, OperationsLead, HoldEdges DEF LoadForRecalculate
<1>3. CASE LoadForDetect(a, id)
  BY <1>3, OperationsLead, HoldEdges DEF LoadForDetect
<1>4. ASSUME NEW c \in Drafts, BeginRegister(a, id, c)
      PROVE  EdgesInv'
  <2>1. Leads(Registered(id, c), id)
    BY <1>4 DEF BeginRegister, LinksAccepted, Leads, Known, Registered
  <2> QED
    BY <1>4, <2>1, HoldEdges DEF BeginRegister
<1>5. ASSUME NEW c \in Drafts, NEW s \in Statuses, Edit(a, id, c, s)
      PROVE  EdgesInv'
  BY <1>5, HoldEdges DEF Edit
<1>6. CASE BeginMerge(a, id)
  BY <1>6, OperationsLead, HoldEdges DEF BeginMerge
<1> QED
  BY <1>1, <1>2, <1>3, <1>4, <1>5, <1>6

\* And those that continue one: update checks the edges when they are not those
\* of the stored document, and a merge links documents it has loaded.
LEMMA ContinuingEdges ==
  ASSUME EdgesInv, TypeInv', NEW a \in Agents,
         \/ Scan(a) \/ LoadForUpdate(a)
         \/ \E j, m \in Ids : LoadSecond(a, j, m)
  PROVE  EdgesInv'
<1> DEFINE id == job[a].id
           d == job[a].work
<1>1. ASSUME Drop(a), UNCHANGED disk
      PROVE  EdgesInv'
  BY <1>1, DropEdges DEF EdgesInv, LinksResolve, Stored, Known, Grows, disk
<1>2. CASE Scan(a)
  <2>1. d \in Doc /\ Leads(d, id)
    BY <1>2, BusyHasJob DEF Scan, EdgesInv, TypeInv, Aims
  <2>2. Leads(ConflictMarked(d), id)
    BY <2>1 DEF ConflictMarked, Leads, Doc
  <2> HIDE DEF id, d
  <2>3. CASE Hold(a, "loaded", "detect_conflicts", id, ConflictMarked(d))
    BY <2>2, <2>3, HoldEdges
  <2> QED
    BY <1>1, <1>2, <2>3 DEF Scan, id, d
<1>3. CASE LoadForUpdate(a)
  <2>1. d \in Doc /\ id \in Stored(docs) /\ docs[id] \in Doc
    BY <1>3, BusyHasJob, StoredIsDoc
       DEF LoadForUpdate, EdgesInv, TypeInv, TypeOK, LifecycleTypeOK, EditedIsStored
  <2>2. Updated(docs[id], d).links = d.links
    BY <2>1 DEF Updated, Doc
  <2>3. CASE d.links # docs[id].links => LinksAccepted(docs, present, id, d.links)
    <3>1. Leads(Updated(docs[id], d), id)
      <4>1. CASE d.links = docs[id].links
        BY <2>1, <2>2, <4>1, OperationsLead DEF Leads
      <4>2. CASE LinksAccepted(docs, present, id, d.links)
        BY <2>2, <4>2 DEF Leads, Known, LinksAccepted
      <4> QED
        BY <2>3, <4>1, <4>2
    <3>2. Hold(a, "loaded", "update", id, Updated(docs[id], d))
      BY <1>3, <2>3 DEF LoadForUpdate
    <3> QED
      BY <3>1, <3>2, HoldEdges
  <2>4. CASE ~(d.links # docs[id].links => LinksAccepted(docs, present, id, d.links))
    BY <1>1, <1>3, <2>4 DEF LoadForUpdate
  <2> QED
    BY <2>3, <2>4
<1>4. ASSUME NEW j \in Ids, NEW m \in Ids, LoadSecond(a, j, m)
      PROVE  EdgesInv'
  <2>1. id \in Stored(docs) /\ j \in Stored(docs)
    BY <1>4 DEF LoadSecond, EdgesInv, Aims
  <2>2. Leads(Merged(id, d, j, docs[j], m), m)
    BY <2>1 DEF Leads, Known, Merged, MergeLinks
  <2> QED
    BY <1>4, <2>2, HoldEdges DEF LoadSecond
<1> QED
  BY <1>2, <1>3, <1>4

\* The envelope has the edges of what it is made of.
LEMMA StageEdges ==
  ASSUME EdgesInv, TypeInv', NEW a \in Agents, Stage(a)
  PROVE  EdgesInv'
<1> DEFINE e == Envelope(docs, job[a].id, job[a].work)
<1>1. job[a] \in Job /\ job[a].work \in Doc
  BY BusyHasJob DEF Stage, EdgesInv, TypeInv
<1>2. e.links = job[a].work.links
  BY <1>1 DEF Envelope, Doc
<1>3. /\ disk' = disk
      /\ pc' = [pc EXCEPT ![a] = "staged"]
      /\ job' = [job EXCEPT ![a] = [job[a] EXCEPT !.temp = e]]
  BY DEF Stage
<1> HIDE DEF e
<1>4. /\ pc'[a] = "staged"
      /\ job'[a].id = job[a].id /\ job'[a].work = job[a].work /\ job'[a].temp = e
  BY <1>1, <1>3 DEF EdgesInv, TypeInv, TypeOK, Job
<1>5. Leads(job[a].work, job[a].id)
  BY DEF Stage, EdgesInv, Aims
<1>6. Stored(docs)' = Stored(docs) /\ Known' = Known
  BY <1>3 DEF Stored, Known, disk
<1>7. ASSUME NEW b \in Agents
      PROVE  Aims(b)'
  <2>1. CASE b = a
    BY <1>2, <1>4, <1>5, <1>6, <2>1 DEF Aims, Leads
  <2>2. CASE b # a
    <3>1. pc'[b] = pc[b] /\ job'[b] = job[b]
      BY <1>3, <2>2 DEF EdgesInv, TypeInv, TypeOK
    <3> QED
      BY <1>6, <3>1, AimsStay DEF EdgesInv, Grows
  <2> QED
    BY <2>1, <2>2
<1> QED
  BY <1>3, <1>6, <1>7 DEF EdgesInv, LinksResolve, disk

\* A rename stores a document whose edges lead to what is known or to itself.
LEMMA ReplaceEdges ==
  ASSUME EdgesInv, TypeInv', NEW a \in Agents, Replace(a)
  PROVE  EdgesInv'
<1> DEFINE id == job[a].id
           e == job[a].temp
<1>1. id \in Ids /\ e \in Doc /\ e # NoDoc
  BY BusyHasJob, DocIsThere DEF Replace, EdgesInv, TypeInv
<1>2. \A l \in e.links : l[2] \in Known \cup {id}
  BY DEF Replace, EdgesInv, Aims, Leads
<1> HIDE DEF id, e
<1>3. docs' = [docs EXCEPT ![id] = e] /\ UNCHANGED <<present, deleted>>
  BY DEF Replace, id, e
<1>4. /\ Stored(docs)' = Stored(docs) \cup {id}
      /\ docs'[id] = e /\ \A x \in Ids \ {id} : docs'[x] = docs[x]
  BY <1>1, <1>3 DEF Stored, EdgesInv, TypeInv, TypeOK, LifecycleTypeOK, Store
<1>5. Known' = Known \cup {id}
  BY <1>3, <1>4 DEF Known
<1>6. LinksResolve'
  <2>1. \A x \in Stored(docs)' : \A l \in docs'[x].links : l[2] \in Known'
    BY <1>2, <1>4, <1>5 DEF EdgesInv, LinksResolve, Stored, Known
  <2> QED
    BY <2>1 DEF LinksResolve, Known
<1> QED
  BY <1>4, <1>5, <1>6, DropEdges DEF Replace, Grows

\* The other services keep what there was in sight.
LEMMA ServicesEdges ==
  ASSUME EdgesInv, TypeInv', NEW a \in Agents, OtherServices(a)
  PROVE  EdgesInv'
<1>1. OthersChange /\ UNCHANGED <<pc, job>>
  BY ServicesDo DEF EdgesInv, TypeInv, TypeOK
<1>2. Grows
  BY <1>1 DEF Grows, Known, Stored, OthersChange
<1>3. LinksResolve'
  BY <1>1 DEF EdgesInv, LinksResolve, Stored, OthersChange
<1>4. \A b \in Agents : Aims(b)'
  BY <1>1, <1>2, AimsStay DEF EdgesInv
<1> QED
  BY <1>3, <1>4 DEF EdgesInv

\* Every step keeps the invariant.
LEMMA NextEdges == EdgesInv /\ [Next]_vars => EdgesInv'
<1> SUFFICES ASSUME EdgesInv, [Next]_vars
             PROVE  EdgesInv'
  OBVIOUS
<1>1. TypeInv'
  BY NextType DEF EdgesInv
<1>2. ASSUME NEW a \in Agents, Acquire(a) \/ Release(a)
      PROVE  EdgesInv'
  BY <1>1, <1>2 DEF Acquire, Release, EdgesInv, TypeInv, TypeOK, LinksResolve,
                    Aims, Leads, Known, Stored, disk
<1>3. ASSUME NEW a \in Agents, Scan(a) \/ LoadForUpdate(a)
      PROVE  EdgesInv'
  BY <1>1, <1>3, ContinuingEdges
<1>4. ASSUME NEW a \in Agents, Stage(a) \/ Replace(a)
      PROVE  EdgesInv'
  BY <1>1, <1>4, StageEdges, ReplaceEdges
<1>5. ASSUME NEW a \in Agents, Fail(a)
      PROVE  EdgesInv'
  BY <1>1, <1>5, DropEdges DEF Fail, EdgesInv, LinksResolve, Stored, Known, Grows, disk
<1>6. ASSUME NEW a \in Agents, NEW id \in Ids,
             \/ \E op \in LifecycleOps : Load(a, op, id)
             \/ LoadForRecalculate(a, id)
             \/ LoadForDetect(a, id)
             \/ \E c \in Drafts : BeginRegister(a, id, c)
             \/ \E c \in Drafts, s \in Statuses : Edit(a, id, c, s)
             \/ BeginMerge(a, id)
      PROVE  EdgesInv'
  BY <1>1, <1>6, LoadingEdges
<1>7. ASSUME NEW a \in Agents, NEW id \in Ids, NEW m \in Ids,
             LoadSecond(a, id, m)
      PROVE  EdgesInv'
  BY <1>1, <1>7, ContinuingEdges
<1>8. ASSUME NEW p \in Processes, Crash(p)
      PROVE  EdgesInv'
  BY <1>1, <1>8 DEF Crash, EdgesInv, LinksResolve, Aims, Leads, Known, Stored, disk
<1>9. ASSUME NEW a \in Agents, OtherServices(a)
      PROVE  EdgesInv'
  BY <1>1, <1>9, ServicesEdges
<1>10. CASE UNCHANGED vars
  BY <1>1, <1>10 DEF vars, EdgesInv, LinksResolve, Aims, Leads, Known, Stored, disk
<1> QED
  BY <1>2, <1>3, <1>4, <1>5, <1>6, <1>7, <1>8, <1>9, <1>10 DEF Next, OtherServices

\* No edge of a stored document ever led nowhere, whoever takes the lock and
\* whoever does not, whatever statuses callers write, through failures and
\* crashes: knowledge is never deleted, so an edge to it never dangles, and an
\* edge that dangles led to a campaign, decision or artifact that was deleted,
\* perhaps between the check and the rename.
THEOREM EdgesAlwaysResolve == Spec => []LinksResolve
<1>1. Init => EdgesInv
  <2> SUFFICES ASSUME Init
               PROVE  EdgesInv
    OBVIOUS
  <2>1. TypeInv
    BY InitType
  <2>2. LinksResolve
    BY InitialStoresAssumption DEF Init, LifecycleInit, LinksResolve
  <2>3. \A a \in Agents : Aims(a)
    BY DEF Init, Aims
  <2> QED
    BY <2>1, <2>2, <2>3 DEF EdgesInv
<1>2. EdgesInv => LinksResolve
  BY DEF EdgesInv
<1> QED
  BY <1>1, <1>2, NextEdges, PTL DEF Spec

----
(* Current copies and the contract, when every agent takes the lock.       *)

Locked == TypeInv /\ Exclusive /\ CopiesAreCurrent

\* A busy agent is alone.
LEMMA Alone ==
  ASSUME AllLocked, Exclusive, NEW a \in Agents, pc[a] # "idle",
         NEW b \in Agents \ {a}
  PROVE  pc[b] = "idle"
  BY DEF AllLocked, Exclusive

\* Taking up a current copy keeps all copies current.
LEMMA HoldIsCurrent ==
  ASSUME AllLocked, Locked, NEW a \in Agents, pc[a] # "idle",
         NEW phase \in {"editing", "scanning", "merging", "loaded"},
         NEW op, NEW id, NEW d, IsCurrent(phase, op, id, d),
         Hold(a, phase, op, id, d)
  PROVE  CopiesAreCurrent'
<1> USE DEF Locked, TypeInv
<1>1. docs' = docs /\ present' = present /\ pc' = [pc EXCEPT ![a] = phase]
      /\ job' = [job EXCEPT ![a] = JobOf(op, id, d)]
  BY DEF Hold, disk
<1>2. \A b \in Agents \ {a} : pc'[b] = "idle"
  BY <1>1, Alone DEF TypeOK
<1>3. pc'[a] = phase /\ job'[a] = JobOf(op, id, d)
  BY <1>1 DEF TypeOK
<1>4. IsCurrent(phase, op, id, d)'
  BY <1>1 DEF IsCurrent, IsOutcome, Stored
<1>5. pc'[a] # "staged" /\ IsCurrent(pc[a], job[a].op, job[a].id, job[a].work)'
  BY <1>3, <1>4 DEF JobOf
<1> QED
  BY <1>2, <1>5 DEF CopiesAreCurrent

\* Without a copy there is nothing to go stale.
LEMMA DropIsCurrent ==
  ASSUME AllLocked, Locked, NEW a \in Agents, pc[a] # "idle", Drop(a)
  PROVE  CopiesAreCurrent'
<1>1. \A b \in Agents \ {a} : pc'[b] = "idle"
  BY Alone DEF Locked, TypeInv, TypeOK, Drop
<1>2. pc'[a] = "ready"
  BY DEF Locked, TypeInv, TypeOK, Drop
<1> QED
  BY <1>1, <1>2 DEF CopiesAreCurrent

\* The actions that begin an operation compute from the store.
LEMMA LoadingIsCurrent ==
  ASSUME AllLocked, Locked, NEW a \in Agents, NEW id \in Ids,
         \/ \E op \in LifecycleOps : Load(a, op, id)
         \/ LoadForRecalculate(a, id)
         \/ LoadForDetect(a, id)
         \/ \E c \in Drafts : BeginRegister(a, id, c)
         \/ \E c \in Drafts, s \in Statuses : Edit(a, id, c, s)
         \/ BeginMerge(a, id)
  PROVE  CopiesAreCurrent'
<1>1. ASSUME NEW op \in LifecycleOps, Load(a, op, id)
      PROVE  CopiesAreCurrent'
  <2>1. IsOutcome(op, id, Apply(op, docs[id]))
    BY <1>1 DEF Load, IsOutcome
  <2>2. IsCurrent("loaded", op, id, Apply(op, docs[id]))
    BY <2>1 DEF IsCurrent
  <2> QED
    BY <1>1, <2>2, HoldIsCurrent DEF Load
<1>2. CASE LoadForRecalculate(a, id)
  <2>1. IsOutcome("recalculate", id, Recalculated(docs[id]))
    BY <1>2 DEF LoadForRecalculate, IsOutcome
  <2>2. IsCurrent("loaded", "recalculate", id, Recalculated(docs[id]))
    BY <2>1 DEF IsCurrent
  <2> QED
    BY <1>2, <2>2, HoldIsCurrent DEF LoadForRecalculate
<1>3. CASE LoadForDetect(a, id)
  <2>1. IsCurrent("scanning", "detect_conflicts", id, docs[id])
    BY <1>3 DEF LoadForDetect, IsCurrent
  <2> QED
    BY <1>3, <2>1, HoldIsCurrent DEF LoadForDetect
<1>4. ASSUME NEW c \in Drafts, BeginRegister(a, id, c)
      PROVE  CopiesAreCurrent'
  <2>1. IsOutcome("register", id, Registered(id, c))
    BY <1>4 DEF BeginRegister, IsOutcome
  <2>2. IsCurrent("loaded", "register", id, Registered(id, c))
    BY <2>1 DEF IsCurrent
  <2> QED
    BY <1>4, <2>2, HoldIsCurrent DEF BeginRegister
<1>5. ASSUME NEW c \in Drafts, NEW s \in Statuses, Edit(a, id, c, s)
      PROVE  CopiesAreCurrent'
  <2>1. s = docs[id].status /\ id \in Stored(docs)
    BY <1>5 DEF Edit, AllLocked
  <2>2. IsCurrent("editing", "update", id, Edited(docs[id], id, c, s))
    BY <2>1 DEF IsCurrent
  <2> QED
    BY <1>5, <2>2, HoldIsCurrent DEF Edit
<1>6. CASE BeginMerge(a, id)
  <2>1. IsCurrent("merging", "merge", id, docs[id])
    BY <1>6 DEF BeginMerge, IsCurrent
  <2> QED
    BY <1>6, <2>1, HoldIsCurrent DEF BeginMerge
<1> QED
  BY <1>1, <1>2, <1>3, <1>4, <1>5, <1>6

\* So do the actions that continue one, because the first copy is current.
LEMMA ContinuingIsCurrent ==
  ASSUME AllLocked, Locked, NEW a \in Agents, NEW j \in Ids, NEW m \in Ids,
         Scan(a) \/ LoadForUpdate(a) \/ LoadSecond(a, j, m)
  PROVE  CopiesAreCurrent'
<1> DEFINE id == job[a].id
           d == job[a].work
<1>1. CASE Scan(a)
  <2>1. id \in Stored(docs) /\ d = docs[id]
    BY <1>1 DEF Scan, Locked, CopiesAreCurrent, IsCurrent
  <2>2. CASE Conflicting(docs, id, d) # {}
    <3>1. IsOutcome("detect_conflicts", id, ConflictMarked(d))
      BY <2>1, <2>2 DEF IsOutcome
    <3>2. IsCurrent("loaded", "detect_conflicts", id, ConflictMarked(d))
      BY <3>1 DEF IsCurrent
    <3> QED
      BY <1>1, <2>2, <3>2, HoldIsCurrent DEF Scan
  <2>3. CASE Conflicting(docs, id, d) = {}
    BY <1>1, <2>3, DropIsCurrent DEF Scan
  <2> QED
    BY <2>2, <2>3
<1>2. CASE LoadForUpdate(a)
  <2>1. PICK c \in Drafts : d = Edited(docs[id], id, c, docs[id].status)
    BY <1>2 DEF LoadForUpdate, Locked, CopiesAreCurrent, IsCurrent
  <2>2. id \in Stored(docs)
    BY <1>2 DEF LoadForUpdate, Locked, CopiesAreCurrent, IsCurrent
  <2>3. CASE d.links # docs[id].links => LinksAccepted(docs, present, id, d.links)
    <3>1. IsOutcome("update", id, Updated(docs[id], d))
      BY <2>1, <2>2, <2>3 DEF IsOutcome
    <3>2. IsCurrent("loaded", "update", id, Updated(docs[id], d))
      BY <3>1 DEF IsCurrent
    <3> QED
      BY <1>2, <2>3, <3>2, HoldIsCurrent DEF LoadForUpdate
  <2>4. CASE ~(d.links # docs[id].links => LinksAccepted(docs, present, id, d.links))
    BY <1>2, <2>4, DropIsCurrent DEF LoadForUpdate
  <2> QED
    BY <2>3, <2>4
<1>3. CASE LoadSecond(a, j, m)
  <2>1. id \in Stored(docs) /\ d = docs[id]
    BY <1>3 DEF LoadSecond, Locked, CopiesAreCurrent, IsCurrent
  <2>2. IsOutcome("merge", m, Merged(id, d, j, docs[j], m))
    BY <1>3, <2>1 DEF IsOutcome, LoadSecond
  <2>3. IsCurrent("loaded", "merge", m, Merged(id, d, j, docs[j], m))
    BY <2>2 DEF IsCurrent
  <2> QED
    BY <1>3, <2>3, HoldIsCurrent DEF LoadSecond
<1> QED
  BY <1>1, <1>2, <1>3

\* The envelope is computed from the store it is about to be written to.
LEMMA StageIsCurrent ==
  ASSUME AllLocked, Locked, NEW a \in Agents, Stage(a)
  PROVE  CopiesAreCurrent'
<1> DEFINE e == Envelope(docs, job[a].id, job[a].work)
<1> USE DEF Locked, TypeInv
<1>1. job[a] \in Job
  BY BusyHasJob DEF Stage
<1>2. /\ docs' = docs /\ present' = present
      /\ pc' = [pc EXCEPT ![a] = "staged"]
      /\ job' = [job EXCEPT ![a] = [job[a] EXCEPT !.temp = e]]
  BY DEF Stage, disk
<1> HIDE DEF e
<1>3. \A b \in Agents \ {a} : pc'[b] = "idle"
  BY <1>2, Alone DEF TypeOK, Stage
<1>4. /\ pc'[a] = "staged"
      /\ job'[a].op = job[a].op /\ job'[a].id = job[a].id
      /\ job'[a].work = job[a].work /\ job'[a].temp = e
  BY <1>1, <1>2 DEF TypeOK, Job
<1>5. IsOutcome(job[a].op, job[a].id, job[a].work)
  BY DEF Stage, CopiesAreCurrent, IsCurrent
<1>6. IsOutcome(job[a].op, job[a].id, job[a].work)'
  BY <1>2, <1>4, <1>5 DEF IsOutcome, Stored
<1>7. IsCurrent(pc[a], job[a].op, job[a].id, job[a].work)'
  BY <1>4, <1>6 DEF IsCurrent
<1>8. job'[a].temp = Envelope(docs', job'[a].id, job'[a].work)
  BY <1>2, <1>4 DEF e
<1> QED
  BY <1>3, <1>4, <1>7, <1>8 DEF CopiesAreCurrent

\* Every step keeps the copies current.
LEMMA NextIsCurrent ==
  ASSUME AllLocked
  PROVE  Locked /\ [Next]_vars => CopiesAreCurrent'
<1> SUFFICES ASSUME Locked, [Next]_vars
             PROVE  CopiesAreCurrent'
  OBVIOUS
<1>1. ASSUME NEW a \in Agents, Acquire(a)
      PROVE  CopiesAreCurrent'
  <2>1. \A b \in Agents : pc[b] = "idle"
    BY <1>1 DEF Acquire, AllLocked, Locked, Exclusive
  <2> QED
    BY <1>1, <2>1 DEF Acquire, Locked, TypeInv, TypeOK, CopiesAreCurrent
<1>2. ASSUME NEW a \in Agents, Release(a)
      PROVE  CopiesAreCurrent'
  <2>1. \A b \in Agents \ {a} : pc[b] = "idle"
    BY <1>2, Alone DEF Release, Locked
  <2> QED
    BY <1>2, <2>1 DEF Release, Locked, TypeInv, TypeOK, CopiesAreCurrent
<1>3. ASSUME NEW a \in Agents, NEW id \in Ids, NEW m \in Ids,
             \/ Scan(a) \/ LoadForUpdate(a) \/ LoadSecond(a, id, m)
      PROVE  CopiesAreCurrent'
  BY <1>3, ContinuingIsCurrent
<1>4. ASSUME NEW a \in Agents, Scan(a) \/ LoadForUpdate(a)
      PROVE  CopiesAreCurrent'
  <2>1. job[a].id \in Ids
    BY <1>4, BusyHasJob DEF Scan, LoadForUpdate, Locked, TypeInv
  <2> QED
    BY <1>3, <1>4, <2>1
<1>5. ASSUME NEW a \in Agents, NEW id \in Ids,
             \/ \E op \in LifecycleOps : Load(a, op, id)
             \/ LoadForRecalculate(a, id)
             \/ LoadForDetect(a, id)
             \/ \E c \in Drafts : BeginRegister(a, id, c)
             \/ \E c \in Drafts, s \in Statuses : Edit(a, id, c, s)
             \/ BeginMerge(a, id)
      PROVE  CopiesAreCurrent'
  BY <1>5, LoadingIsCurrent
<1>6. ASSUME NEW a \in Agents, Replace(a) \/ Fail(a)
      PROVE  CopiesAreCurrent'
  BY <1>6, DropIsCurrent DEF Replace, Fail
<1>7. ASSUME NEW a \in Agents, Stage(a)
      PROVE  CopiesAreCurrent'
  BY <1>7, StageIsCurrent
<1>8. ASSUME NEW p \in Processes, Crash(p)
      PROVE  CopiesAreCurrent'
  <2>1. p = Agents
    BY DEF Processes, AllLocked
  <2> QED
    BY <1>8, <2>1 DEF Crash, CopiesAreCurrent
<1>9. ASSUME NEW a \in Agents, OtherServices(a)
      PROVE  CopiesAreCurrent'
  <2>1. pc[a] = "ready" /\ UNCHANGED <<pc, job>>
    BY <1>9, ServicesDo DEF Locked, TypeInv, TypeOK
  <2>2. \A b \in Agents \ {a} : pc[b] = "idle"
    BY <2>1, Alone DEF Locked
  <2> QED
    BY <2>1, <2>2 DEF CopiesAreCurrent
<1>10. CASE UNCHANGED vars
  BY <1>10 DEF vars, disk, Locked, CopiesAreCurrent, IsCurrent, IsOutcome, Stored
<1> QED
  BY <1>1, <1>2, <1>3, <1>4, <1>5, <1>6, <1>7, <1>8, <1>9, <1>10 DEF Next, OtherServices

\* With every agent behind the lock no working copy is ever stale: what a
\* save writes is what the operation would compute from the file it replaces.
THEOREM NoStaleCopies ==
  ASSUME AllLocked
  PROVE  Spec => []CopiesAreCurrent
<1>1. Init => Locked
  BY InitType, AgentsAssumption
     DEF Init, Locked, Exclusive, CopiesAreCurrent
<1>2. Locked /\ [Next]_vars => Locked'
  BY NextType, NextExclusive, NextIsCurrent DEF Locked
<1>3. Locked => CopiesAreCurrent
  BY DEF Locked
<1> QED
  BY <1>1, <1>2, <1>3, PTL DEF Spec

\* A rename carries out the operation of the contract.
LEMMA ReplaceRefines ==
  ASSUME Locked, NEW a \in Agents, Replace(a)
  PROVE  LifecycleNext
<1> DEFINE op == job[a].op
           id == job[a].id
           d == job[a].work
<1>1. id \in Ids
  BY BusyHasJob DEF Replace, Locked, TypeInv
<1>2. Write(id, d)
  BY DEF Replace, Locked, CopiesAreCurrent, Write
<1>3. IsOutcome(op, id, d)
  BY DEF Replace, Locked, CopiesAreCurrent, IsCurrent
<1> HIDE DEF op, id, d
<1>4. CASE op \in LifecycleOps /\ id \in Stored(docs)
           /\ Applicable(op, docs[id]) /\ d = Apply(op, docs[id])
  BY <1>1, <1>2, <1>4
     DEF LifecycleNext, ChangeStatus
<1>5. CASE id \in Stored(docs) /\ IsStale(docs[id]) /\ d = Recalculated(docs[id])
  BY <1>1, <1>2, <1>5
     DEF LifecycleNext, Recalculate
<1>6. CASE id \in Stored(docs) /\ Conflicting(docs, id, docs[id]) # {}
           /\ d = ConflictMarked(docs[id])
  BY <1>1, <1>2, <1>6
     DEF LifecycleNext, DetectConflicts
<1>7. CASE id \notin Stored(docs)
           /\ \E c \in Drafts : /\ LinksAccepted(docs, present, id, Authored(id, c))
                                /\ d = Registered(id, c)
  BY <1>1, <1>2, <1>7
     DEF LifecycleNext, Register
<1>8. CASE id \in Stored(docs)
           /\ \E c \in Drafts :
                LET k == Edited(docs[id], id, c, docs[id].status)
                IN  /\ k.links # docs[id].links =>
                         LinksAccepted(docs, present, id, k.links)
                    /\ d = Updated(docs[id], k)
  BY <1>1, <1>2, <1>8
     DEF LifecycleNext, Update
<1>9. CASE id \notin Stored(docs)
           /\ \E i, j \in Stored(docs) :
                i # j /\ d = Merged(i, docs[i], j, docs[j], id)
  <2>1. Stored(docs) \subseteq Ids
    BY DEF Stored
  <2> QED
    BY <1>1, <1>2, <1>9, <2>1
       DEF LifecycleNext, Merge
<1> QED
  BY <1>3, <1>4, <1>5, <1>6, <1>7, <1>8, <1>9 DEF IsOutcome

\* Every step is an operation of the contract or leaves the disk alone.
LEMMA NextRefines ==
  Locked /\ [Next]_vars => [LifecycleNext]_disk
<1> SUFFICES ASSUME Locked, [Next]_vars
             PROVE  LifecycleNext \/ UNCHANGED disk
  OBVIOUS
<1>1. ASSUME NEW a \in Agents, Replace(a)
      PROVE  LifecycleNext
  BY <1>1, ReplaceRefines
<1>2. ASSUME NEW a \in Agents,
             Acquire(a) \/ Release(a) \/ Stage(a) \/ Fail(a)
      PROVE  UNCHANGED disk
  BY <1>2 DEF Acquire, Release, Stage, Fail
<1>3. ASSUME NEW a \in Agents, Scan(a) \/ LoadForUpdate(a)
      PROVE  UNCHANGED disk
  BY <1>3 DEF Scan, LoadForUpdate, Hold
<1>4. ASSUME NEW a \in Agents, NEW id \in Ids, NEW m \in Ids,
             \/ \E op \in LifecycleOps : Load(a, op, id)
             \/ LoadForRecalculate(a, id)
             \/ LoadForDetect(a, id)
             \/ \E c \in Drafts : BeginRegister(a, id, c)
             \/ \E c \in Drafts, s \in Statuses : Edit(a, id, c, s)
             \/ BeginMerge(a, id)
             \/ LoadSecond(a, id, m)
      PROVE  UNCHANGED disk
  BY <1>4 DEF Load, LoadForRecalculate, LoadForDetect, BeginRegister, Edit,
              BeginMerge, LoadSecond, Hold
<1>5. ASSUME NEW p \in Processes, Crash(p)
      PROVE  UNCHANGED disk
  BY <1>5 DEF Crash
<1>6. ASSUME NEW a \in Agents, OtherServices(a)
      PROVE  LifecycleNext
  BY <1>6, ServicesDo DEF Locked, TypeInv, TypeOK
<1>7. CASE UNCHANGED vars
  BY <1>7 DEF vars
<1> QED
  BY <1>1, <1>2, <1>3, <1>4, <1>5, <1>6, <1>7 DEF Next, OtherServices

\* With every agent behind the lock the Librarian implements its contract:
\* loading, envelope, temporary file, failures and crashes are invisible, and
\* every operation appears to take effect at its rename.
THEOREM LockedRefinement ==
  ASSUME AllLocked
  PROVE  Spec => Contract
<1>1. Init => Locked
  BY InitType, AgentsAssumption
     DEF Init, Locked, Exclusive, CopiesAreCurrent
<1>2. Locked /\ [Next]_vars => Locked'
  BY NextType, NextExclusive, NextIsCurrent DEF Locked
<1>3. Init => LifecycleInit
  BY DEF Init, LifecycleInit
<1> QED
  BY <1>1, <1>2, <1>3, NextRefines, PTL DEF Spec, Contract, LifecycleSpec

----
(* The theorems of the contract, carried over.                             *)

\* Behind the lock, any number of agents move statuses along TRANSITIONS only.
THEOREM LockedTransitions ==
  ASSUME AllLocked
  PROVE  Spec => LegalTransitions
<1> QED
  BY TransitionsAreLegal, LockedRefinement, PTL DEF Contract

\* Behind the lock, no save loses or rewrites an entry of the audit log.
THEOREM LockedHistories ==
  ASSUME AllLocked
  PROVE  Spec => AppendOnlyHistory
<1> QED
  BY HistoriesAreAppendOnly, LockedRefinement, PTL DEF Contract

\* Behind the lock, no two saves of a document share a revision.
THEOREM LockedRevisions ==
  ASSUME AllLocked
  PROVE  Spec => RevisionGrows
<1> QED
  BY RevisionsGrow, LockedRefinement, PTL DEF Contract

\* Behind the lock, no operation changes a document's parents or creation time,
\* nor, once it is CANONICAL, its category.
THEOREM LockedIdentities ==
  ASSUME AllLocked
  PROVE  Spec => IdentityIsKept
<1> QED
  BY IdentitiesAreKept, LockedRefinement, PTL DEF Contract

\* Behind the lock, histories account for statuses, revisions count history
\* entries and edges lead to what there is or was, through every crash.
THEOREM LockedSoundness ==
  ASSUME AllLocked
  PROVE  Spec => []( /\ HistoryExplainsStatus
                     /\ RevisionCountsHistory
                     /\ LinksResolve )
<1> QED
  BY Soundness, LockedRefinement, PTL DEF Contract

\* The second of the three by itself: a document's revision is the number of
\* writes its history tells of.
THEOREM LockedCounts ==
  ASSUME AllLocked
  PROVE  Spec => []RevisionCountsHistory
<1> QED
  BY LockedSoundness, PTL

===============================================================================
