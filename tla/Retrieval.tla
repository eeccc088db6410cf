------------------------------- MODULE Retrieval -------------------------------
(***************************************************************************)
(* RetrievalEngine.retrieve, search and related: the pipeline of builder,  *)
(* ranking, traverser, filter and selector, over an index that may be      *)
(* behind the repository and a repository that changes under it.           *)
(*                                                                         *)
(* Calls share nothing but what they read, so there is one, beside agents  *)
(* that write documents and index them.  A score is a number a document    *)
(* has for the query at hand, one computed from the index record (shallow) *)
(* and one from the whole document (full).                                 *)
(*                                                                         *)
(* Each question to the index is a step.  Kept as files, the index of a    *)
(* project is read once in a call and all its questions are about what was *)
(* read; kept by SQLite, each is a query of what the tables hold then.     *)
(***************************************************************************)
EXTENDS Naturals, Sequences, SequencesExt, FiniteSets, FiniteSetsExt

CONSTANTS Projects, Entities,
          TypeOf, ProjectOf,   \* functions on Entities
          IdOrder,             \* function on Entities: the order of the ids
          Words,
          DocsOf,              \* function: the documents an entity may have
          InitialDocs,         \* the repositories there may be at the start
          Queries,
          MaxCandidates, RefineLimit, MaxDepth, MaxRelated, TopN,
          MaxChanges           \* a bound on what the others do

None == [none |-> TRUE]

\* "campaign" stands for projects as well: both are context, never results.
Types == {"knowledge", "decision", "artifact", "campaign"}
Statuses == {"NEW", "VERIFIED", "CANONICAL", "CONFLICT", "REJECTED", "SUPERSEDED",
             "ARCHIVED", ""}

\* A document as far as retrieval sees it; links are its edges, as pairs of
\* source and target.
Doc == [status : Statuses, words : SUBSET Words, tags : SUBSET Words,
        links : SUBSET (Entities \X Entities),
        shallow : Nat, full : Nat]

\* A parsed query: its keywords, its topic and entities (searched as tags), and
\* the ids among its keywords.
Query == [project : Projects, words : SUBSET Words, tags : SUBSET Words,
          ids : SUBSET Entities, history : BOOLEAN]

Repositories == [Entities -> (UNION {DocsOf[e] : e \in Entities}) \cup {None}]

ASSUME EntitiesAssumption ==
  /\ IsFiniteSet(Entities)
  /\ TypeOf \in [Entities -> Types]
  /\ ProjectOf \in [Entities -> Projects]
  /\ IdOrder \in [Entities -> Nat]
  /\ \A e, f \in Entities : IdOrder[e] = IdOrder[f] => e = f
ASSUME DocsAssumption ==
  /\ \A e \in Entities : DocsOf[e] \subseteq Doc
  /\ InitialDocs \subseteq Repositories
  /\ Queries \subseteq Query
ASSUME LimitsAssumption ==
  /\ MaxCandidates \in Nat /\ RefineLimit \in Nat /\ MaxDepth \in Nat
  /\ MaxRelated \in Nat /\ TopN \in Nat /\ MaxChanges \in Nat

VARIABLES live,      \* whether the index is kept by SQLite, or as files
          docs,      \* the repository
          index,     \* each entity's entry: the document it was made from
          pc, job,   \* where the call is, and its local variables
          held,      \* what the repository has held since the call began
          shown,     \* what the index has
          quiet,     \* nothing has changed since, and the index was up to date
          changes    \* how many they were

vars == <<live, docs, index, pc, job, held, shown, quiet, changes>>

Phases == {"idle", "seed", "snapshot", "build", "inward", "grade", "score", "expand",
           "onward", "visit", "load", "answered", "raised"}
Ops == {"retrieve", "search", "related"}

\* A ranked candidate: a stub has the index record for its entity, the others
\* the document they loaded.  The relation path is told by its nodes.
Item == [e : Entities, doc : UNION {DocsOf[e] : e \in Entities}, stub : BOOLEAN,
         path : Seq(Entities)]

NoSnapshots == [p \in {} |-> None]
NoQuery == [none |-> TRUE]
NothingFound == [n \in 1 .. 4 |-> {}]
NoJob == [op |-> "none", query |-> NoQuery, seed |-> None, snaps |-> NoSnapshots,
          words |-> {}, tags |-> {}, ids |-> {}, hubs |-> {}, found |-> NothingFound,
          hub |-> None, edges |-> {}, entries |-> {}, graded |-> {},
          phased |-> << >>, at |-> 0, ranked |-> {}, result |-> << >>, direct |-> 0,
          queue |-> << >>, parent |-> None, node |-> None, items |-> << >>]

Members(p) == {e \in Entities : ProjectOf[e] = p}

\* What the index says of a project now.
Snapshot(p) == [e \in Members(p) |-> index[e]]

\* The snapshots a call has, by project, with one of p taken now.
WithSnapshot(snaps, p) ==
  [q \in DOMAIN snaps \cup {p} |-> IF q = p THEN Snapshot(p) ELSE snaps[q]]

\* What a question about a project is answered from: IndexSnapshot has read the
\* five files, SqliteIndexSnapshot has a connection.
View(p) == IF live THEN Snapshot(p) ELSE job.snaps[p]

Record(e) == View(ProjectOf[e])[e]

Indexed(p) == {e \in Members(p) : View(p)[e] # None}

\* Q4 is two queries: the edges from e, and those to it.
Edges(p) == UNION {View(p)[f].links : f \in Indexed(p)}
Outward(p, e) == {l \in Edges(p) : l[1] = e}
Inward(p, e) == {l \in Edges(p) : l[2] = e}

\* Where an edge of the entity at hand leads; a loop leads back to it.
End(l) == IF l[1] = job.hub THEN l[2] ELSE l[1]

\* S as a sequence, each member after those that are before it.
Sorted(S, before) ==
  [n \in 1 .. Cardinality(S) |->
     CHOOSE e \in S : Cardinality({f \in S : <<f, e>> \in before}) = n - 1]

----
(* A call begins.                                                          *)

Begin(op, phase, query, seed) ==
  /\ pc = "idle"
  /\ pc' = phase
  /\ job' = [NoJob EXCEPT !.op = op, !.query = query, !.seed = seed]
  /\ held' = [e \in Entities |-> {docs[e]} \ {None}]
  /\ shown' = [e \in Entities |-> {index[e]} \ {None}]
  /\ quiet' = (index = docs)
  /\ UNCHANGED <<live, docs, index, changes>>

Retrieve(query) == Begin("retrieve", "snapshot", query, None)

Search(query) == Begin("search", "snapshot", query, None)

Related(e) == Begin("related", "seed", NoQuery, e)

Environment == <<live, docs, index, held, shown, quiet, changes>>

\* related loads the knowledge it starts from; one that is not there is an
\* error.
LoadSeed ==
  LET e == job.seed
  IN  /\ pc = "seed"
      /\ IF docs[e] # None
         THEN LET item == [e |-> e, doc |-> docs[e], stub |-> FALSE, path |-> <<e>>]
              IN  /\ job' = [job EXCEPT !.result = <<item>>, !.direct = 1,
                                        !.queue = <<item>>]
                  /\ pc' = "snapshot"
         ELSE pc' = "raised" /\ UNCHANGED job
      /\ UNCHANGED Environment

\* A search goes on to the four sources: its keywords, its tags, its ids, and
\* one hop from those.
TakeSnapshot ==
  /\ pc = "snapshot"
  /\ IF job.op = "related"
     THEN /\ job' = [job EXCEPT !.snaps = WithSnapshot(@, ProjectOf[job.seed])]
          /\ pc' = "expand"
     ELSE /\ job' = [job EXCEPT !.snaps = WithSnapshot(@, job.query.project),
                                !.words = job.query.words, !.tags = job.query.tags,
                                !.ids = job.query.ids, !.hubs = job.query.ids]
          /\ pc' = "build"
  /\ UNCHANGED Environment

----
(* CandidateBuilder.                                                       *)

Here == Indexed(job.query.project)

FindAt(n, es) == job.found[n] \cup es

\* Q1 and Q2.
AskKeyword(w) ==
  /\ pc = "build" /\ w \in job.words
  /\ job' = [job EXCEPT !.words = @ \ {w},
                        !.found[1] = FindAt(1, {e \in Here : w \in Record(e).words})]
  /\ UNCHANGED <<pc, Environment>>

AskTag(t) ==
  /\ pc = "build" /\ job.words = {} /\ t \in job.tags
  /\ job' = [job EXCEPT !.tags = @ \ {t},
                        !.found[2] = FindAt(2, {e \in Here : t \in Record(e).tags})]
  /\ UNCHANGED <<pc, Environment>>

\* Q3.
AskId(e) ==
  /\ pc = "build" /\ job.words = {} /\ job.tags = {} /\ e \in job.ids
  /\ job' = [job EXCEPT !.ids = @ \ {e}, !.found[3] = FindAt(3, Here \cap {e})]
  /\ UNCHANGED <<pc, Environment>>

Settled == job.words = {} /\ job.tags = {} /\ job.ids = {} /\ job.edges = {}

\* Q4: the edges of an id, and then the record at the end of each.  An id of
\* another project has edges in this one.
AskOutward(e) ==
  /\ pc = "build" /\ Settled /\ e \in job.hubs
  /\ job' = [job EXCEPT !.hubs = @ \ {e}, !.hub = e, !.edges = Outward(job.query.project, e)]
  /\ pc' = "inward"
  /\ UNCHANGED Environment

AskInward ==
  /\ pc = "inward"
  /\ job' = [job EXCEPT !.edges = @ \cup Inward(job.query.project, job.hub)]
  /\ pc' = "build"
  /\ UNCHANGED Environment

AskNode(l) ==
  /\ pc = "build" /\ l \in job.edges
  /\ job' = [job EXCEPT !.edges = @ \ {l},
                        !.found[4] = FindAt(4, (Here \cap {End(l)}) \ {job.hub})]
  /\ UNCHANGED <<pc, Environment>>

FoundBy(e) == Min({n \in 1 .. 4 : e \in job.found[n]})

Found == UNION {job.found[n] : n \in 1 .. 4}

\* The sources have been asked one after the other and the list is cut; how
\* one source orders its own hits is left open.
Candidates ==
  {kept \in SUBSET Found :
     /\ Cardinality(kept) = Min({MaxCandidates, Cardinality(Found)})
     /\ \A e \in kept, f \in Found \ kept : FoundBy(e) <= FoundBy(f)}

Cut ==
  /\ pc = "build" /\ Settled /\ job.hubs = {}
  /\ \E kept \in Candidates : job' = [job EXCEPT !.entries = kept]
  /\ pc' = "grade"
  /\ UNCHANGED Environment

----
(* The two phases of RankingEngine.                                        *)

\* Phase 1 asks for each candidate's record and keeps it; one that has none any
\* more is dropped.
Grade(e) ==
  /\ pc = "grade" /\ e \in job.entries
  /\ job' = [job EXCEPT !.entries = @ \ {e},
                        !.graded = @ \cup IF Record(e) = None THEN {}
                                          ELSE {[e |-> e, doc |-> Record(e)]}]
  /\ UNCHANGED <<pc, Environment>>

Ahead(c, d) ==
  \/ c.doc.shallow > d.doc.shallow
  \/ c.doc.shallow = d.doc.shallow /\ IdOrder[c.e] < IdOrder[d.e]

Phase ==
  /\ pc = "grade" /\ job.entries = {}
  /\ job' = [job EXCEPT !.phased =
               Sorted(job.graded, {p \in job.graded \X job.graded : Ahead(p[1], p[2])})]
  /\ pc' = "score"
  /\ UNCHANGED Environment

\* Phase 2 takes the candidates in that order.
Foremost == Head(job.phased).e

Scored(items) == [job EXCEPT !.phased = Tail(@), !.at = @ + 1, !.ranked = @ \cup items]

\* A campaign is context, no result; it has used up one of the refined places.
SkipContext ==
  /\ pc = "score" /\ job.phased # << >>
  /\ TypeOf[Foremost] = "campaign"
  /\ job' = Scored({})
  /\ UNCHANGED <<pc, Environment>>

\* Beyond the limit a candidate stays what the index says it is.
KeepStub ==
  /\ pc = "score" /\ job.phased # << >>
  /\ TypeOf[Foremost] # "campaign"
  /\ job.at >= RefineLimit
  /\ job' = Scored({[e |-> Foremost, doc |-> Head(job.phased).doc, stub |-> TRUE,
                     path |-> <<Foremost>>]})
  /\ UNCHANGED <<pc, Environment>>

Refine ==
  /\ pc = "score" /\ job.phased # << >>
  /\ TypeOf[Foremost] = "knowledge"
  /\ job.at < RefineLimit
  /\ docs[Foremost] # None
  /\ job' = Scored({[e |-> Foremost, doc |-> docs[Foremost], stub |-> FALSE,
                     path |-> <<Foremost>>]})
  /\ UNCHANGED <<pc, Environment>>

\* A document that is gone cannot be loaded, and a decision or an artifact has
\* not the attributes _score asks for.
RefineRaises ==
  /\ pc = "score" /\ job.phased # << >>
  /\ TypeOf[Foremost] # "campaign"
  /\ job.at < RefineLimit
  /\ docs[Foremost] = None \/ TypeOf[Foremost] # "knowledge"
  /\ pc' = "raised"
  /\ UNCHANGED <<job, Environment>>

----
(* Filter and selector.                                                    *)

Score(item) == IF item.stub THEN item.doc.shallow ELSE item.doc.full

\* Mutant: what is ranked is ordered by the index once more.
BeforeByIndex(i, j) ==
  \/ i.doc.shallow > j.doc.shallow
  \/ i.doc.shallow = j.doc.shallow /\ IdOrder[i.e] < IdOrder[j.e]

Before(i, j) ==
  \/ Score(i) > Score(j)
  \/ Score(i) = Score(j) /\ IdOrder[i.e] < IdOrder[j.e]

\* Mutant: the index is asked for the status.
EligibleByIndex(item) ==
  \/ TypeOf[item.e] # "knowledge"
  \/ job.query.history
  \/ Record(item.e) # None /\ Record(item.e).status = "CANONICAL"

Eligible(item) ==
  \/ TypeOf[item.e] # "knowledge"
  \/ job.query.history
  \/ item.doc.status = "CANONICAL"

\* Those of a list that are eligible, in its order.
Admit(items) ==
  LET places == Sorted({n \in DOMAIN items : Eligible(items[n])},
                       {p \in Nat \X Nat : p[1] < p[2]})
  IN  [n \in DOMAIN places |-> items[places[n]]]

Selected(items) == SubSeq(items, 1, Min({TopN, Len(items)}))

\* An artifact that was loaded has no confidence to explain.
Answer(items) ==
  IF \E i \in Range(items) : ~i.stub /\ TypeOf[i.e] = "artifact"
  THEN pc' = "raised" /\ UNCHANGED job
  ELSE pc' = "answered" /\ job' = [job EXCEPT !.items = items]

\* Everything is scored: search answers, retrieve goes on to the traverser.
Rank ==
  LET ranked == Sorted(job.ranked, {p \in job.ranked \X job.ranked : Before(p[1], p[2])})
  IN  /\ pc = "score" /\ job.phased = << >>
      /\ \/ /\ job.op = "search"
            /\ Answer(Selected(Admit(ranked)))
         \/ /\ job.op = "retrieve"
            /\ job' = [job EXCEPT !.result = ranked, !.direct = Len(ranked),
                                  !.queue = ranked]
            /\ pc' = "expand"
      /\ UNCHANGED Environment

----
(* RelationshipTraverser: breadth first, each neighbour once.              *)

\* related has a limit of its own.
Limit == IF job.op = "related" THEN 100 ELSE MaxRelated

\* Mutant: the limit is looked at too late.
RoomForOneMore == Len(job.result) - job.direct <= Limit

Room == Len(job.result) - job.direct < Limit

Visited == {i.e : i \in Range(job.result)}

Depth(item) == Len(item.path) - 1

Expand ==
  LET parent == Head(job.queue)
  IN  /\ pc = "expand"
      /\ job.queue # << >> /\ Room
      /\ IF Depth(parent) >= MaxDepth
         THEN job' = [job EXCEPT !.queue = Tail(@)] /\ UNCHANGED pc
         ELSE /\ job' = [job EXCEPT !.queue = Tail(@), !.parent = parent, !.hub = parent.e,
                                    !.edges = Outward(ProjectOf[parent.e], parent.e)]
              /\ pc' = "onward"
      /\ UNCHANGED Environment

ExpandInward ==
  /\ pc = "onward"
  /\ job' = [job EXCEPT !.edges = @ \cup Inward(ProjectOf[job.hub], job.hub)]
  /\ pc' = "visit"
  /\ UNCHANGED Environment

\* A neighbour in another project is looked up in that project's index.
TakeSnapshotOf(l) ==
  /\ pc = "visit" /\ l \in job.edges /\ Room
  /\ ProjectOf[End(l)] \notin DOMAIN job.snaps
  /\ job' = [job EXCEPT !.snaps = WithSnapshot(@, ProjectOf[End(l)])]
  /\ UNCHANGED <<pc, Environment>>

\* Visited before, without a record, or with a type that is not loaded, it is
\* passed over.
PassOver(l) ==
  /\ pc = "visit" /\ l \in job.edges /\ Room
  /\ \/ End(l) \in Visited
     \/ /\ ProjectOf[End(l)] \in DOMAIN job.snaps
        /\ Record(End(l)) = None \/ TypeOf[End(l)] = "campaign"
  /\ job' = [job EXCEPT !.edges = @ \ {l}]
  /\ UNCHANGED <<pc, Environment>>

Visit(l) ==
  /\ pc = "visit" /\ l \in job.edges /\ Room
  /\ End(l) \notin Visited
  /\ ProjectOf[End(l)] \in DOMAIN job.snaps
  /\ Record(End(l)) # None /\ TypeOf[End(l)] # "campaign"
  /\ job' = [job EXCEPT !.edges = @ \ {l}, !.node = End(l)]
  /\ pc' = "load"
  /\ UNCHANGED Environment

Load ==
  /\ pc = "load"
  /\ IF docs[job.node] # None
     THEN LET item == [e |-> job.node, doc |-> docs[job.node], stub |-> FALSE,
                       path |-> Append(job.parent.path, job.node)]
          IN  /\ job' = [job EXCEPT !.result = Append(@, item), !.queue = Append(@, item)]
              /\ pc' = "visit"
     ELSE pc' = "raised" /\ UNCHANGED job
  /\ UNCHANGED Environment

Expanded ==
  /\ pc = "visit"
  /\ job.edges = {} \/ ~Room
  /\ pc' = "expand"
  /\ job' = [job EXCEPT !.edges = {}]
  /\ UNCHANGED Environment

\* related does not ask the filter.
Select ==
  /\ pc = "expand"
  /\ job.queue = << >> \/ ~Room
  /\ Answer(Selected(IF job.op = "related" THEN Tail(job.result)
                     ELSE Admit(job.result)))
  /\ UNCHANGED Environment

Return ==
  /\ pc \in {"answered", "raised"}
  /\ pc' = "idle"
  /\ job' = NoJob
  /\ held' = [e \in Entities |-> {}]
  /\ shown' = [e \in Entities |-> {}]
  /\ quiet' = FALSE
  /\ UNCHANGED <<live, docs, index, changes>>

----
(* The other agents.                                                       *)

Changed ==
  /\ changes < MaxChanges
  /\ changes' = changes + 1
  /\ quiet' = FALSE
  /\ UNCHANGED <<live, pc, job>>

Write(e, d) ==
  /\ Changed
  /\ docs' = [docs EXCEPT ![e] = d]
  /\ held' = IF pc = "idle" THEN held ELSE [held EXCEPT ![e] = @ \cup {d}]
  /\ UNCHANGED <<index, shown>>

Delete(e) ==
  /\ Changed
  /\ docs[e] # None
  /\ docs' = [docs EXCEPT ![e] = None]
  /\ UNCHANGED <<index, held, shown>>

\* IndexEngine.update or remove.
Index(e) ==
  /\ Changed
  /\ index[e] # docs[e]
  /\ index' = [index EXCEPT ![e] = docs[e]]
  /\ shown' = IF pc = "idle" THEN shown ELSE [shown EXCEPT ![e] = @ \cup ({docs[e]} \ {None})]
  /\ UNCHANGED <<docs, held>>

----
Init ==
  /\ live \in BOOLEAN
  /\ docs \in InitialDocs
  /\ index = docs
  /\ pc = "idle"
  /\ job = NoJob
  /\ held = [e \in Entities |-> {}]
  /\ shown = [e \in Entities |-> {}]
  /\ quiet = FALSE
  /\ changes = 0

Next ==
  \/ \E query \in Queries : Retrieve(query) \/ Search(query)
  \/ \E e \in Entities : TypeOf[e] = "knowledge" /\ Related(e)
  \/ LoadSeed \/ TakeSnapshot
  \/ \E w \in Words : AskKeyword(w) \/ AskTag(w)
  \/ \E e \in Entities : AskId(e) \/ AskOutward(e)
  \/ AskInward \/ \E l \in job.edges : AskNode(l)
  \/ Cut \/ (\E e \in Entities : Grade(e)) \/ Phase
  \/ SkipContext \/ KeepStub \/ Refine \/ RefineRaises \/ Rank
  \/ Expand \/ ExpandInward \/ \E l \in job.edges : TakeSnapshotOf(l) \/ PassOver(l) \/ Visit(l)
  \/ Load \/ Expanded \/ Select \/ Return
  \/ \E e \in Entities : Delete(e) \/ Index(e) \/ \E d \in DocsOf[e] : Write(e, d)

Spec == Init /\ [][Next]_vars

----
(* Properties.                                                             *)

TypeOK ==
  /\ docs \in Repositories /\ index \in Repositories
  /\ pc \in Phases
  /\ \A p \in DOMAIN job.snaps : DOMAIN job.snaps[p] = Members(p)
  /\ Range(job.result) \cup job.ranked \cup Range(job.items) \subseteq Item
  /\ Len(job.result) <= job.direct + Limit
  /\ job.at <= MaxCandidates
  /\ Len(job.items) <= TopN
  /\ quiet => index = docs
  /\ changes \in 0 .. MaxChanges

\* The documents an answer may have from the index for e: those of its snapshot,
\* or those the tables have held since the call began.
Said(e) == IF live THEN shown[e] ELSE {job.snaps[ProjectOf[e]][e]} \ {None}

\* However the index lags and whatever is written and indexed meanwhile: no
\* entity is told twice, a document in an answer was in the repository while the
\* call ran, ordinary answers hold no other knowledge than CANONICAL, and a
\* related item is reached in MaxDepth hops.  A stub and an edge of a path are
\* the index's: of one snapshot of their project where it is kept as files, and
\* else of one time or another while the call ran, each edge and stub of its own
\* (docs/retrieval-eligibility.md, Retriever.run_parsed, IndexQueryExecutor).
AnswersAreVouchedFor ==
  pc = "answered" =>
    /\ \A i, j \in 1 .. Len(job.items) : job.items[i].e = job.items[j].e => i = j
    /\ \A i \in Range(job.items) :
         /\ i.doc \in IF i.stub THEN Said(i.e) ELSE held[i.e]
         /\ job.op # "related" /\ TypeOf[i.e] = "knowledge" /\ ~job.query.history
              => i.doc.status = "CANONICAL"
         /\ Depth(i) <= MaxDepth
         /\ i.path[Len(i.path)] = i.e
         /\ \A n \in 1 .. Depth(i) :
              LET l == <<i.path[n], i.path[n + 1]>>
              IN  \E f \in Members(ProjectOf[l[1]]) : \E d \in Said(f) :
                    {l, <<l[2], l[1]>>} \cap d.links # {}

\* What a call should find in a repository that does not change.
ShouldMatch(e) ==
  LET q == job.query
      Links(f) == docs[f] # None /\ \E l \in docs[f].links, x \in q.ids \ {e} :
                                      {l[1], l[2]} = {e, x}
  IN  /\ ProjectOf[e] = q.project /\ docs[e] # None
      /\ \/ docs[e].words \cap q.words # {}
         \/ docs[e].tags \cap q.tags # {}
         \/ e \in q.ids
         \/ \E f \in Members(q.project) : Links(f)

ShouldBeFound == {e \in Entities : ShouldMatch(e)}

Admitted(e) == job.query.history \/ docs[e].status = "CANONICAL"

\* In a repository that does not change, with an index that is up to date and
\* no more candidates than the limits admit, search and retrieve put the best
\* admitted candidates first, in the order of their full scores and ids, and
\* retrieve then adds admitted neighbours while there is room; and a call
\* raises only over a candidate that is neither knowledge nor a campaign.
QuietIsReference ==
  LET matches == {e \in ShouldBeFound : TypeOf[e] = "knowledge"}
      best == Sorted({e \in matches : Admitted(e)}, {p \in matches \X matches :
                \/ docs[p[1]].full > docs[p[2]].full
                \/ docs[p[1]].full = docs[p[2]].full /\ IdOrder[p[1]] < IdOrder[p[2]]})
      firsts == SubSeq(best, 1, Min({TopN, Len(best)}))
      near == {f \in Entities \ matches :
                 /\ TypeOf[f] = "knowledge" /\ docs[f] # None /\ Admitted(f)
                 /\ \E e \in matches, g \in Entities :
                      /\ docs[g] # None
                      /\ {<<e, f>>, <<f, e>>} \cap docs[g].links # {}
                      /\ ProjectOf[g] = ProjectOf[e]}
      answer == [i \in 1 .. Len(job.items) |-> job.items[i].e]
  IN  /\ quiet /\ job.op \in {"search", "retrieve"} /\ pc \in {"answered", "raised"}
      /\ Cardinality(ShouldBeFound) <= Min({MaxCandidates, RefineLimit})
      => /\ pc = "answered" /\ job.op = "search" => answer = firsts
         /\ pc = "answered" /\ job.op = "retrieve" =>
              /\ IsPrefix(firsts, answer)
              /\ MaxDepth > 0 /\ Len(job.result) < job.direct + MaxRelated =>
                   Len(answer) = TopN \/ near \subseteq Range(answer)
         /\ pc = "raised" =>
              \/ \E e \in ShouldBeFound : TypeOf[e] \in {"decision", "artifact"}
              \/ \E i \in Range(job.result) : TypeOf[i.e] = "artifact"

\* "Every relation-added candidate passes the same eligibility policy as direct
\* candidates, so a graph edge cannot expose NEW, VERIFIED, CONFLICT, REJECTED,
\* SUPERSEDED, or ARCHIVED Knowledge in ordinary results"
\* (docs/retrieval-eligibility.md); related selects without the filter.
RelatedIsEligible ==
  pc = "answered" /\ job.op = "related" =>
    \A i \in Range(job.items) :
      TypeOf[i.e] = "knowledge" => i.doc.status = "CANONICAL"
=============================================================================
