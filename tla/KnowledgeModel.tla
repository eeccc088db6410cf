---------------------------- MODULE KnowledgeModel ----------------------------
(***************************************************************************)
(* Knowledge documents and the pure rules of the Librarian: the status     *)
(* table, what each operation makes of a document, the conflict rule, the  *)
(* relation rule, the merge of two documents and the confidence formula.   *)
(* There is no state here: KnowledgeLifecycle and Librarian are built from *)
(* these operators.                                                        *)
(*                                                                         *)
(* A title stands for the class of texts with the same normal form         *)
(* (Canonicalizer.normalize), written as the sequence of base titles that  *)
(* merges have joined with " / ".  Body, tags and references decide        *)
(* nothing in the lifecycle and are left out.                              *)
(***************************************************************************)
EXTENDS Integers, Sequences

CONSTANTS Ids,             \* identifiers of knowledge documents
          Others,          \* decisions, artifacts and campaigns, and what
                           \* other projects have: edges lead to them too
          Titles,          \* base titles
          Drafts,          \* the drafts callers hand to register and update
          InitialStores    \* stores of documents older than the Librarian

NoDoc == [absent |-> TRUE]

----
(* Statuses and the transition table.                                      *)

Statuses == {"NEW", "VERIFIED", "CANONICAL", "SUPERSEDED",
             "CONFLICT", "REJECTED", "ARCHIVED"}

TRANSITIONS ==
  [s \in Statuses |->
     CASE s = "NEW"        -> {"VERIFIED", "CONFLICT", "REJECTED", "ARCHIVED"}
       [] s = "VERIFIED"   -> {"CANONICAL", "CONFLICT", "ARCHIVED", "SUPERSEDED"}
       [] s = "CANONICAL"  -> {"SUPERSEDED", "ARCHIVED", "CONFLICT"}
       [] s = "SUPERSEDED" -> {"ARCHIVED"}
       [] s = "CONFLICT"   -> {"VERIFIED", "REJECTED", "ARCHIVED"}
       [] s = "REJECTED"   -> {"ARCHIVED"}
       [] s = "ARCHIVED"   -> {"VERIFIED"}]

\* The statuses detect_conflicts turns into CONFLICT; in the others it only
\* appends a history entry.
Contestable == {"NEW", "VERIFIED", "CANONICAL"}

----
(* History events and the status each one leaves behind.                   *)

Events == {"Created", "Updated", "Verified", "Canonicalized", "Merged",
           "Archived", "Restored", "Rejected", "Conflict detected",
           "Confidence changed"}

StatusSetBy ==
  [e \in {"Created", "Verified", "Canonicalized", "Merged", "Archived",
          "Restored", "Rejected"} |->
     CASE e = "Created"       -> "NEW"
       [] e = "Verified"      -> "VERIFIED"
       [] e = "Canonicalized" -> "CANONICAL"
       [] e = "Merged"        -> "CANONICAL"
       [] e = "Archived"      -> "ARCHIVED"
       [] e = "Restored"      -> "VERIFIED"
       [] e = "Rejected"      -> "REJECTED"]

\* Position i of history h holds the last event that sets a status.
IsLastSetter(h, i) ==
  /\ i \in 1 .. Len(h)
  /\ h[i] \in DOMAIN StatusSetBy
  /\ \A j \in (i + 1) .. Len(h) : h[j] \notin DOMAIN StatusSetBy

ContestedAfter(h, i) == \E j \in (i + 1) .. Len(h) : h[j] = "Conflict detected"

\* History h accounts for status s: the last event that sets a status set s,
\* or set a contestable status that a later conflict turned into CONFLICT.
\* A history without such an event belongs to a document older than histories.
Explains(h, s) ==
  \A i \in 1 .. Len(h) :
    IsLastSetter(h, i) =>
      s = IF ContestedAfter(h, i) /\ StatusSetBy[h[i]] \in Contestable
          THEN "CONFLICT"
          ELSE StatusSetBy[h[i]]

----
(* Confidence.                                                             *)

Factors == [confirmations : Nat, independent_campaigns : Nat,
            successful_usage : Nat, failed_usage : Nat, conflicts : Nat]

Capped(n, cap) == IF n < cap THEN n ELSE cap

Score(f) == 50 + Capped(f.confirmations * 5, 30)
               + Capped(f.independent_campaigns * 10, 30)
               + Capped(f.successful_usage * 5, 20)
               - Capped(f.failed_usage * 10, 40)
               - Capped(f.conflicts * 15, 30)

Calculate(f) == IF Score(f) < 0 THEN 0
                ELSE IF Score(f) > 100 THEN 100
                ELSE Score(f)

AddFactors(f, g) ==
  [confirmations         |-> f.confirmations + g.confirmations,
   independent_campaigns |-> f.independent_campaigns + g.independent_campaigns,
   successful_usage      |-> f.successful_usage + g.successful_usage,
   failed_usage          |-> f.failed_usage + g.failed_usage,
   conflicts             |-> f.conflicts + g.conflicts]

----
(* Documents.  A draft is what a caller supplies: the free fields of a     *)
(* Knowledge object and the targets of the edges it authors.  links are    *)
(* the stored edges <<source, target>>.  rev is the envelope's _rev and    *)
(* elders are the documents created before it: the order of created_at.    *)

Kinds == {"fact", "negative"}

Categories == {"FACT", "HYPOTHESIS", "DECISION", "RULE", "PATTERN", "FAILURE",
               "SUCCESS", "WORKAROUND", "CONFIGURATION", "REFERENCE"}

Targets == Ids \cup Others

\* An entity is one thing.
ASSUME OthersAssumption == Others \cap Ids = {}

Draft == [title : Seq(Titles), kind : Kinds, category : Categories,
          factors : Factors, targets : SUBSET Targets]

Doc == [status : Statuses, title : Seq(Titles), kind : Kinds,
        category : Categories, factors : Factors, confidence : Int,
        links : SUBSET (Ids \X Targets), parents : Seq(Ids),
        history : Seq(Events), elders : SUBSET Ids, rev : Nat]

Store == [Ids -> Doc \cup {NoDoc}]

Stored(store) == {id \in Ids : store[id] # NoDoc}

\* Callers hand over drafts.
ASSUME DraftsAssumption == Drafts \subseteq Draft

\* Documents written before histories and _rev existed have neither, and no
\* edges; their confidence and status are whatever was written.
ASSUME InitialStoresAssumption ==
  /\ InitialStores \subseteq Store
  /\ \A s \in InitialStores : \A id \in Stored(s) :
       s[id].history = << >> /\ s[id].rev = 0 /\ s[id].links = {}

----
(* Operations on one document.                                             *)

LifecycleOps == {"verify", "canonicalize", "archive", "restore", "reject"}

TargetOf ==
  [op \in LifecycleOps |->
     CASE op = "verify"       -> "VERIFIED"
       [] op = "canonicalize" -> "CANONICAL"
       [] op = "archive"      -> "ARCHIVED"
       [] op = "restore"      -> "VERIFIED"
       [] op = "reject"       -> "REJECTED"]

EventOf ==
  [op \in LifecycleOps |->
     CASE op = "verify"       -> "Verified"
       [] op = "canonicalize" -> "Canonicalized"
       [] op = "archive"      -> "Archived"
       [] op = "restore"      -> "Restored"
       [] op = "reject"       -> "Rejected"]

\* The idempotent early returns of verify and canonicalize.
IsNoOp(op, d) ==
  \/ op = "verify" /\ d.status \in {"VERIFIED", "CANONICAL"}
  \/ op = "canonicalize" /\ d.status = "CANONICAL"

\* Mutant: the transition table is not consulted.
ApplicableAnywhere(op, d) == ~IsNoOp(op, d)

\* The operation writes: it neither returns early nor raises
\* KnowledgeStatusError.
Applicable(op, d) ==
  /\ ~IsNoOp(op, d)
  /\ TargetOf[op] \in TRANSITIONS[d.status]

\* Mutant: the history entry is forgotten.
ApplySilently(op, d) == [d EXCEPT !.status = TargetOf[op]]

Apply(op, d) == [d EXCEPT !.status = TargetOf[op],
                          !.history = Append(@, EventOf[op])]

\* recalculate_confidence writes only when the stored value is stale.
IsStale(d) == Calculate(d.factors) # d.confidence

\* Mutant: the history entry is forgotten.
RecalculatedSilently(d) == [d EXCEPT !.confidence = Calculate(d.factors)]

Recalculated(d) ==
  [d EXCEPT !.confidence = Calculate(d.factors),
            !.history = Append(@, "Confidence changed")]

IsNegative(d) == d.kind = "negative" \/ d.category = "FAILURE"

\* The stored documents that conflict with document d, known as id.
Conflicting(store, id, d) ==
  {o \in Stored(store) \ {id} :
     /\ store[o].title = d.title
     /\ d.title # << >>
     /\ \/ IsNegative(store[o]) # IsNegative(d)
        \/ id \in store[o].elders}

ConflictMarked(d) ==
  [d EXCEPT !.status = IF @ \in Contestable THEN "CONFLICT" ELSE @,
            !.history = Append(@, "Conflict detected")]

----
(* Operations that take a draft.                                           *)

\* Mutant: targets need not exist.
LinksUnchecked(store, others, id, links) == \A l \in links : l[2] # id

\* The edge rule of _relation_issue for owner id: the target is stored, as
\* knowledge or as one of the others there are, and is not the owner itself.
LinksAccepted(store, others, id, links) ==
  \A l \in links : l[2] # id /\ l[2] \in Stored(store) \cup others

Authored(id, c) == {<<id, t>> : t \in c.targets}

\* The document register builds: NEW, with its confidence calculated.
Registered(id, c) ==
  [status |-> "NEW", title |-> c.title, kind |-> c.kind,
   category |-> c.category, factors |-> c.factors,
   confidence |-> Calculate(c.factors), links |-> Authored(id, c),
   parents |-> << >>, history |-> <<"Created">>, elders |-> {}, rev |-> 0]

\* A caller's copy of stored document d, edited with draft c and handed to
\* update with status s.
Edited(d, id, c, s) ==
  [d EXCEPT !.title = c.title, !.kind = c.kind, !.category = c.category,
            !.factors = c.factors, !.links = @ \cup Authored(id, c),
            !.status = s]

\* Mutant: the category stays editable after canonization.
UpdatedFreely(d, k) ==
  [k EXCEPT !.parents = d.parents, !.elders = d.elders,
            !.confidence = Calculate(k.factors),
            !.history = Append(d.history, "Updated")]

\* What update makes of the caller's copy k when the store holds d: parents,
\* history and creation come from d, and so does the category once d is
\* CANONICAL; the status is the caller's.
Updated(d, k) ==
  [k EXCEPT !.category = IF d.status = "CANONICAL" THEN d.category ELSE @,
            !.parents = d.parents,
            !.elders = d.elders,
            !.confidence = Calculate(k.factors),
            !.history = Append(d.history, "Updated")]

MergeLinks(i, j, m) == {<<i, m>>, <<j, m>>, <<m, i>>, <<m, j>>}

\* KnowledgeMerger: a new CANONICAL document m from a (stored as i) and b
\* (stored as j).
Merged(i, a, j, b, m) ==
  LET f == AddFactors(a.factors, b.factors)
  IN [status |-> "CANONICAL",
      title |-> IF a.title = b.title THEN a.title ELSE a.title \o b.title,
      kind |-> a.kind, category |-> a.category, factors |-> f,
      confidence |-> Calculate(f), links |-> MergeLinks(i, j, m),
      parents |-> <<i, j>>, history |-> <<"Merged">>, elders |-> {}, rev |-> 0]

----
(* Writing a document.                                                     *)

\* The envelope a write gives a document: _rev counts the writes since the
\* document that is on disk when the write reads it, created_at is kept from
\* there and is otherwise the time of this write.
Envelope(store, id, d) ==
  [d EXCEPT !.rev = IF store[id] = NoDoc THEN 1 ELSE store[id].rev + 1,
            !.elders = IF store[id] = NoDoc THEN Stored(store)
                       ELSE store[id].elders]

===============================================================================
