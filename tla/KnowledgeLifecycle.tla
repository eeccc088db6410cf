-------------------------- MODULE KnowledgeLifecycle --------------------------
(***************************************************************************)
(* What the Librarian promises its callers: a store of knowledge documents *)
(* on which every operation takes effect in one step.  The contract leaves *)
(* out locks, working copies, files and failures; module Librarian has     *)
(* them, and implements this module when its agents take the WRITE lock.   *)
(*                                                                         *)
(* Knowledge is never deleted.  What else its edges lead to may be: a      *)
(* campaign by CampaignManager, all there is of a project by               *)
(* ProjectManager.                                                         *)
(***************************************************************************)
EXTENDS KnowledgeModel, SequencesExt

CONSTANT Deletions   \* what one call deletes

ASSUME DeletionsAssumption == Deletions \subseteq SUBSET Others

VARIABLES docs,      \* the knowledge documents
          present,   \* the others there are
          deleted    \* and those there were

disk == <<docs, present, deleted>>

LifecycleInit ==
  /\ docs \in InitialStores
  /\ present \in SUBSET Others
  /\ deleted = {}

Write(id, d) ==
  /\ docs' = [docs EXCEPT ![id] = Envelope(docs, id, d)]
  /\ UNCHANGED <<present, deleted>>

Register(id, c) ==
  /\ id \notin Stored(docs)
  /\ LinksAccepted(docs, present, id, Authored(id, c))
  /\ Write(id, Registered(id, c))

ChangeStatus(op, id) ==
  /\ id \in Stored(docs)
  /\ Applicable(op, docs[id])
  /\ Write(id, Apply(op, docs[id]))

Recalculate(id) ==
  /\ id \in Stored(docs)
  /\ IsStale(docs[id])
  /\ Write(id, Recalculated(docs[id]))

DetectConflicts(id) ==
  /\ id \in Stored(docs)
  /\ Conflicting(docs, id, docs[id]) # {}
  /\ Write(id, ConflictMarked(docs[id]))

\* The contract's update edits fields; the status is the stored one.
Update(id, c) ==
  /\ id \in Stored(docs)
  /\ LET k == Edited(docs[id], id, c, docs[id].status)
     IN  /\ k.links # docs[id].links => LinksAccepted(docs, present, id, k.links)
         /\ Write(id, Updated(docs[id], k))

Merge(i, j, m) ==
  /\ i \in Stored(docs) /\ j \in Stored(docs) /\ i # j
  /\ m \notin Stored(docs)
  /\ Write(m, Merged(i, docs[i], j, docs[j], m))

\* A new entity, with an id nothing had before.
Create(o) ==
  /\ o \in Others \ (present \cup deleted)
  /\ present' = present \cup {o}
  /\ UNCHANGED <<docs, deleted>>

Delete(some) ==
  /\ some \cap present # {}
  /\ present' = present \ some
  /\ deleted' = deleted \cup (some \cap present)
  /\ UNCHANGED docs

LifecycleNext ==
  \/ \E id \in Ids :
       \/ \E c \in Drafts : Register(id, c) \/ Update(id, c)
       \/ \E op \in LifecycleOps : ChangeStatus(op, id)
       \/ Recalculate(id)
       \/ DetectConflicts(id)
       \/ \E i, j \in Ids : Merge(i, j, id)
  \/ \E o \in Others : Create(o)
  \/ \E some \in Deletions : Delete(some)

LifecycleSpec == LifecycleInit /\ [][LifecycleNext]_disk

----
LifecycleTypeOK == docs \in Store /\ present \subseteq Others /\ deleted \subseteq Others

\* Every stored document's history accounts for its status: reading the audit
\* log of KnowledgeHistory alone, a reader finds the status the document has.
HistoryExplainsStatus ==
  \A id \in Stored(docs) : Explains(docs[id].history, docs[id].status)

\* The repository's _rev and the Librarian's history agree: one write, one
\* entry.  A write that lost an entry, or an entry without a write, breaks it.
RevisionCountsHistory ==
  \A id \in Stored(docs) : docs[id].rev = Len(docs[id].history)

\* No edge ever led nowhere.  One that leads to knowledge still does, and one
\* that leads to another entity dangles only because that was deleted:
\* _relation_issue rejects the rest when they are authored, however long before
\* the save, and update lets stay what it does not change (the dangling edges
\* of Librarian.update and of the doctor's check).
LinksResolve ==
  \A id \in Stored(docs) : \A l \in docs[id].links :
    l[2] \in Stored(docs) \cup present \cup deleted

\* A status changes only along TRANSITIONS, whichever operations meet.
LegalTransitions ==
  [][\A id \in Stored(docs) :
       docs'[id].status # docs[id].status =>
         docs'[id].status \in TRANSITIONS[docs[id].status]]_docs

\* A history is append-only: what it holds is never lost or rewritten.
AppendOnlyHistory ==
  [][\A id \in Stored(docs) : IsPrefix(docs[id].history, docs'[id].history)]_docs

\* A write moves _rev forward by one: no two writes share a revision.
RevisionGrows ==
  [][\A id \in Stored(docs) :
       docs'[id] # docs[id] => docs'[id].rev = docs[id].rev + 1]_docs

\* A CANONICAL document keeps its category and, for ever, its parents and
\* its created_at.
IdentityIsKept ==
  [][\A id \in Stored(docs) :
       /\ docs[id].status = "CANONICAL" => docs'[id].category = docs[id].category
       /\ docs'[id].parents = docs[id].parents
       /\ docs'[id].elders = docs[id].elders]_docs

===============================================================================
