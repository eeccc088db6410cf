---------------------------- MODULE RetrievalProofs ----------------------------
(***************************************************************************)
(* What holds of Retrieval for any entities, documents, queries and limits.*)
(* Whatever is written and indexed while a call runs, and however the index*)
(* is kept, what the call has taken into its lists can be vouched for: a   *)
(* document was in the repository since the call began, a stub and every   *)
(* edge of a path are what the index has said of them, in the snapshot the *)
(* call has of the project or at some time since it began.  And a call on  *)
(* a repository that does not change, with an index that is up to date,    *)
(* finds what the reference says: every question is answered from what is  *)
(* stored, what should be found has been or a question still to be asked   *)
(* will find it, every match is scored by its document, there is one way   *)
(* to sort them, and while there is room each match waits or its neighbours*)
(* are visited.                                                            *)
(***************************************************************************)
EXTENDS Retrieval, FiniteSetTheorems, TLAPS

----
(* The operators.                                                          *)

\* A strict order of all of S, as a set of pairs.
Orders(R, S) ==
  /\ \A x \in S : <<x, x>> \notin R
  /\ \A x, y \in S : x = y \/ <<x, y>> \in R \/ <<y, x>> \in R
  /\ \A x, y, z \in S : <<x, y>> \in R /\ <<y, z>> \in R => <<x, z>> \in R

Place(R, S, x) == Cardinality({f \in S : <<f, x>> \in R})

\* What is further on has more before it.
LEMMA RanksGrow ==
  ASSUME NEW S, IsFiniteSet(S), NEW R, Orders(R, S)
  PROVE  /\ \A x \in S : Place(R, S, x) \in 0 .. Cardinality(S) - 1
         /\ \A x, y \in S : <<x, y>> \in R => Place(R, S, x) < Place(R, S, y)
<1> DEFINE Under(x) == {f \in S : <<f, x>> \in R}
<1>1. ASSUME NEW x \in S
      PROVE  /\ IsFiniteSet(Under(x)) /\ Cardinality(Under(x)) \in Nat
             /\ IsFiniteSet(Under(x) \cup {x})
             /\ Cardinality(Under(x) \cup {x}) = Cardinality(Under(x)) + 1
  <2>1. Under(x) \in SUBSET S /\ x \notin Under(x)
    BY DEF Orders
  <2>2. IsFiniteSet(Under(x))
    BY <2>1, FS_Subset
  <2> HIDE DEF Under
  <2> QED
    BY <2>1, <2>2, FS_CardinalityType, FS_AddElement
<1>2. ASSUME NEW x \in S
      PROVE  Place(R, S, x) \in 0 .. Cardinality(S) - 1
  <2>1. Under(x) \cup {x} \in SUBSET S
    OBVIOUS
  <2>2. Cardinality(S) \in Nat /\ Cardinality(Under(x) \cup {x}) <= Cardinality(S)
    BY <2>1, FS_Subset, FS_CardinalityType
  <2>3. Place(R, S, x) = Cardinality(Under(x))
    BY DEF Place
  <2> HIDE DEF Under
  <2> QED
    BY <1>1, <2>2, <2>3
<1>3. ASSUME NEW x \in S, NEW y \in S, <<x, y>> \in R
      PROVE  Place(R, S, x) < Place(R, S, y)
  <2>1. Under(x) \cup {x} \in SUBSET Under(y)
    BY <1>3 DEF Orders
  <2>2. Cardinality(Under(x) \cup {x}) <= Cardinality(Under(y))
    BY <1>1, <2>1, FS_Subset
  <2>3. Place(R, S, x) = Cardinality(Under(x)) /\ Place(R, S, y) = Cardinality(Under(y))
    BY DEF Place
  <2>4. /\ Cardinality(Under(x)) \in Nat /\ Cardinality(Under(y)) \in Nat
        /\ Cardinality(Under(x) \cup {x}) = Cardinality(Under(x)) + 1
    BY <1>1
  <2> HIDE DEF Under
  <2> QED
    BY <2>2, <2>3, <2>4
<1> QED
  BY <1>2, <1>3

\* A sorted set has each member once, and in the order.
LEMMA SortedIs ==
  ASSUME NEW S, IsFiniteSet(S), NEW R, Orders(R, S)
  PROVE  /\ Cardinality(S) \in Nat
         /\ Sorted(S, R) \in [1 .. Cardinality(S) -> S]
         /\ \A x \in S : \E n \in 1 .. Cardinality(S) : Sorted(S, R)[n] = x
         /\ \A m, n \in 1 .. Cardinality(S) :
              <<Sorted(S, R)[m], Sorted(S, R)[n]>> \in R <=> m < n
<1> DEFINE c == Cardinality(S)
           r == [x \in S |-> Place(R, S, x) + 1]
           s == Sorted(S, R)
<1>1. c \in Nat
  BY FS_CardinalityType
<1>2. r \in [S -> 1 .. c] /\ \A x, y \in S : r[x] = r[y] => x = y
  <2>1. ASSUME NEW x \in S PROVE r[x] \in 1 .. c
    BY RanksGrow, <1>1
  <2>2. ASSUME NEW x \in S, NEW y \in S, r[x] = r[y] PROVE x = y
    <3>1. Place(R, S, x) = Place(R, S, y) /\ Place(R, S, x) \in Int
      BY <2>2, RanksGrow
    <3>2. ~(<<x, y>> \in R) /\ ~(<<y, x>> \in R)
      BY <3>1, RanksGrow
    <3> QED
      BY <3>2 DEF Orders
  <2> QED
    BY <2>1, <2>2
<1>3. \A n \in 1 .. c : \E x \in S : r[x] = n
  <2>1. r \in Injection(S, 1 .. c)
    BY <1>2, Zenon DEF Injection, IsInjective
  <2>2. IsFiniteSet(1 .. c) /\ Cardinality(1 .. c) = c
    BY <1>1, FS_Interval
  <2>3. r \in Surjection(S, 1 .. c)
    BY <2>1, <2>2, FS_Injection
  <2> QED
    BY <2>3, Zenon DEF Surjection
<1>4. ASSUME NEW n \in 1 .. c
      PROVE  s[n] \in S /\ r[s[n]] = n
  <2>1. s[n] = CHOOSE x \in S : Cardinality({f \in S : <<f, x>> \in R}) = n - 1
    BY DEF Sorted
  <2>2. PICK x \in S : r[x] = n
    BY <1>3
  <2>3. Cardinality({f \in S : <<f, x>> \in R}) = n - 1
    BY <2>2, <1>1, RanksGrow DEF Place
  <2>4. s[n] \in S /\ Cardinality({f \in S : <<f, s[n]>> \in R}) = n - 1
    BY <2>1, <2>3, Zenon
  <2> QED
    BY <2>4 DEF Place
<1>5. s \in [1 .. c -> S]
  BY <1>4 DEF Sorted
<1>6. ASSUME NEW m \in 1 .. c, NEW n \in 1 .. c
      PROVE  <<s[m], s[n]>> \in R <=> m < n
  <2>1. s[m] \in S /\ s[n] \in S /\ r[s[m]] = m /\ r[s[n]] = n
    BY <1>4
  <2>2. ASSUME NEW x \in S, NEW y \in S, <<x, y>> \in R
        PROVE  r[x] < r[y]
    BY <2>2, RanksGrow
  <2>3. s[m] = s[n] \/ <<s[m], s[n]>> \in R \/ <<s[n], s[m]>> \in R
    BY <2>1 DEF Orders
  <2> HIDE DEF r, s
  <2> QED
    BY <2>1, <2>2, <2>3
<1>7. ASSUME NEW x \in S
      PROVE  \E n \in 1 .. c : s[n] = x
  <2>1. r[x] \in 1 .. c /\ s[r[x]] \in S /\ r[s[r[x]]] = r[x]
    BY <1>2, <1>4
  <2> QED
    BY <2>1, <1>2
<1> QED
  BY <1>1, <1>5, <1>6, <1>7

\* The smaller of two numbers.
LEMMA MinIs ==
  ASSUME NEW m \in Nat, NEW n \in Nat
  PROVE  Min({m, n}) = IF m <= n THEN m ELSE n
<1> DEFINE k == IF m <= n THEN m ELSE n
<1>1. k \in {m, n} /\ \A y \in {m, n} : k <= y
  OBVIOUS
<1>2. \A x \in {m, n} : (\A y \in {m, n} : x <= y) => x = k
  OBVIOUS
<1> HIDE DEF k
<1>3. (CHOOSE x \in {m, n} : \A y \in {m, n} : x =< y) = k
  BY <1>1, <1>2
<1> QED
  BY <1>3 DEF Min, k

----
(* Types.                                                                  *)

AllDocs == UNION {DocsOf[e] : e \in Entities}
Entry == AllDocs \cup {None}

\* The snapshots of some projects.
Snapshots ==
  {s \in UNION {[P -> UNION {[Members(p) -> Entry] : p \in Projects}] : P \in SUBSET Projects} :
     \A p \in DOMAIN s : s[p] \in [Members(p) -> Entry]}

Graded == [e : Entities, doc : AllDocs]

Job == [op : Ops \cup {"none"}, query : Queries \cup {NoQuery}, seed : Entities \cup {None},
        snaps : Snapshots, words : SUBSET Words, tags : SUBSET Words,
        ids : SUBSET Entities, hubs : SUBSET Entities,
        found : [1 .. 4 -> SUBSET Entities], hub : Entities \cup {None},
        edges : SUBSET (Entities \X Entities), entries : SUBSET Entities,
        graded : SUBSET Graded, phased : Seq(Graded), at : Nat, ranked : SUBSET Item,
        result : Seq(Item), direct : Nat, queue : Seq(Item), parent : Item \cup {None},
        node : Entities \cup {None}, items : Seq(Item)]

Asking == {"build", "inward"}
Going == {"onward", "visit", "load"}

\* The type invariant with the control of a call.
Typed ==
  /\ live \in BOOLEAN
  /\ docs \in Repositories /\ index \in Repositories
  /\ pc \in Phases /\ job \in Job
  /\ held \in [Entities -> SUBSET AllDocs] /\ shown \in [Entities -> SUBSET AllDocs]
  /\ quiet \in BOOLEAN /\ (quiet => index = docs)
  /\ changes \in 0 .. MaxChanges
  /\ (pc = "idle" => job = NoJob)
  /\ pc # "idle" => job.op \in Ops
  /\ job.op = "related" => job.seed \in Entities
  /\ job.op \in {"retrieve", "search"} => job.query \in Queries
  /\ pc = "seed" => job.op = "related"
  /\ pc \in Asking \cup {"grade", "score"} => job.op # "related"
  /\ pc \in Going \cup {"expand"} => job.op # "search"

\* What is stored and indexed are documents, or nothing.
LEMMA DocsAre ==
  ASSUME Typed, NEW e \in Entities
  PROVE  docs[e] \in Entry /\ index[e] \in Entry
<1>1. Repositories = [Entities -> Entry]
  BY DEF Repositories, Entry, AllDocs
<1> QED
  BY <1>1 DEF Typed

LEMMA DocIs ==
  ASSUME NEW d \in AllDocs
  PROVE  d \in Doc
BY DocsAssumption DEF AllDocs

\* Snapshots are functions on projects, of functions on their entities.
LEMMA SnapshotsAre ==
  ASSUME NEW s \in Snapshots
  PROVE  /\ DOMAIN s \subseteq Projects
         /\ \A p \in DOMAIN s : s[p] \in [Members(p) -> Entry]
BY DEF Snapshots

\* What the index holds of a project.
LEMMA SnapshotType ==
  ASSUME Typed, NEW p \in Projects
  PROVE  Snapshot(p) \in [Members(p) -> Entry]
BY DocsAre DEF Snapshot, Members

\* Taking a snapshot adds one of its project and leaves the others.
LEMMA WithSnapshotType ==
  ASSUME Typed, NEW s \in Snapshots, NEW p \in Projects
  PROVE  /\ WithSnapshot(s, p) \in Snapshots
         /\ DOMAIN WithSnapshot(s, p) = DOMAIN s \cup {p}
         /\ \A q \in DOMAIN s : q # p => WithSnapshot(s, p)[q] = s[q]
<1> DEFINE t == WithSnapshot(s, p)
           All == UNION {[Members(q) -> Entry] : q \in Projects}
<1>1. Snapshot(p) \in [Members(p) -> Entry]
  BY SnapshotType
<1>2. DOMAIN t = DOMAIN s \cup {p} /\ DOMAIN t \subseteq Projects
  BY SnapshotsAre DEF WithSnapshot
<1>3. \A q \in DOMAIN t : t[q] \in [Members(q) -> Entry]
  BY <1>1, <1>2, SnapshotsAre DEF WithSnapshot
<1>4. t \in [DOMAIN t -> All]
  <2>1. \A q \in DOMAIN t : t[q] \in All
    BY <1>2, <1>3
  <2>2. t = [q \in DOMAIN t |-> t[q]]
    BY DEF WithSnapshot
  <2> HIDE DEF t, All
  <2> QED
    BY <2>1, <2>2
<1>5. t \in Snapshots
  BY <1>2, <1>3, <1>4, Zenon DEF Snapshots
<1> QED
  BY <1>2, <1>5 DEF WithSnapshot

LEMMA NoSnapshotsType == NoSnapshots \in Snapshots
<1>1. DOMAIN NoSnapshots = {} /\ NoSnapshots = [p \in {} |-> NoSnapshots[p]]
  BY DEF NoSnapshots
<1>2. NoSnapshots \in [{} -> UNION {[Members(p) -> Entry] : p \in Projects}]
  BY DEF NoSnapshots
<1> QED
  BY <1>1, <1>2 DEF Snapshots

LEMMA NoJobType == NoJob \in Job
<1>1. NothingFound \in [1 .. 4 -> SUBSET Entities]
  BY DEF NothingFound
<1> QED
  BY <1>1, NoSnapshotsType DEF NoJob, Job, NoQuery, None

\* A loaded or indexed document makes an item.
LEMMA ItemIs ==
  ASSUME NEW e \in Entities, NEW d \in Entry, d # None, NEW stub \in BOOLEAN,
         NEW path \in Seq(Entities)
  PROVE  [e |-> e, doc |-> d, stub |-> stub, path |-> path] \in Item
BY DEF Item, Entry, AllDocs

----
(* What a call is told by the index.                                       *)

\* What is stored and what is indexed has been held, and shown, since the call
\* began.
Witnessed ==
  pc # "idle" =>
    \A e \in Entities : /\ docs[e] # None => docs[e] \in held[e]
                        /\ index[e] # None => index[e] \in shown[e]

\* The call has read, or connected to, the index of this entity.
Covered(e) == ProjectOf[e] \in DOMAIN job.snaps

\* A question about a project that was read is answered from documents.
LEMMA ViewType ==
  ASSUME Typed, NEW p \in DOMAIN job.snaps
  PROVE  p \in Projects /\ View(p) \in [Members(p) -> Entry]
<1>1. job.snaps \in Snapshots
  BY DEF Typed, Job
<1>2. p \in Projects /\ job.snaps[p] \in [Members(p) -> Entry]
  BY <1>1, SnapshotsAre
<1>3. Snapshot(p) \in [Members(p) -> Entry]
  BY <1>2, SnapshotType
<1> QED
  BY <1>2, <1>3 DEF View

\* A record is what the index says or has said.
LEMMA RecordIs ==
  ASSUME Typed, Witnessed, pc # "idle", NEW e \in Entities, Covered(e)
  PROVE  Record(e) \in Entry /\ (Record(e) # None => Record(e) \in Said(e) /\ Record(e) \in AllDocs)
<1>1. e \in Members(ProjectOf[e])
  BY DEF Members
<1>2. Record(e) \in Entry
  BY <1>1, ViewType DEF Covered, Record
<1>3. CASE live
  <2>1. Record(e) = index[e]
    BY <1>1, <1>3 DEF Record, View, Snapshot
  <2> QED
    BY <1>2, <1>3, <2>1 DEF Witnessed, Said, Entry
<1>4. CASE ~live
  <2>1. Record(e) = job.snaps[ProjectOf[e]][e]
    BY <1>4 DEF Record, View
  <2> QED
    BY <1>2, <1>4, <2>1 DEF Said, Entry
<1> QED
  BY <1>3, <1>4

\* An edge between two entities in the index of the first one's project, now or
\* before.
Linked(d, e) ==
  /\ Covered(d)
  /\ \E f \in Members(ProjectOf[d]) : \E x \in Said(f) :
       {<<d, e>>, <<e, d>>} \cap x.links # {}

LEMMA EdgesAre ==
  ASSUME Typed, NEW p \in DOMAIN job.snaps, NEW l \in Edges(p)
  PROVE  /\ l \in Entities \X Entities
         /\ \E f \in Members(p) : View(p)[f] # None /\ View(p)[f] \in Doc /\ l \in View(p)[f].links
<1>1. PICK f \in Indexed(p) : l \in View(p)[f].links
  BY DEF Edges
<1>2. f \in Members(p) /\ View(p)[f] # None /\ View(p)[f] \in Doc
  BY <1>1, ViewType, DocIs DEF Indexed, Entry
<1> QED
  BY <1>1, <1>2 DEF Doc

Beyond(d, l) == IF l[1] = d THEN l[2] ELSE l[1]

\* The edges of an entity link it to what is at their other ends.
LEMMA NeighboursAre ==
  ASSUME Typed, Witnessed, pc # "idle", NEW d \in Entities, Covered(d),
         NEW l \in Outward(ProjectOf[d], d) \cup Inward(ProjectOf[d], d)
  PROVE  l \in Entities \X Entities /\ Beyond(d, l) \in Entities /\ Linked(d, Beyond(d, l))
<1>1. l \in Edges(ProjectOf[d]) /\ (l[1] = d \/ l[2] = d)
  BY DEF Outward, Inward
<1>2. /\ l \in Entities \X Entities
      /\ \E f \in Members(ProjectOf[d]) : /\ View(ProjectOf[d])[f] # None
                                          /\ l \in View(ProjectOf[d])[f].links
  BY <1>1, EdgesAre DEF Covered
<1>3. PICK f \in Members(ProjectOf[d]) :
        View(ProjectOf[d])[f] # None /\ l \in View(ProjectOf[d])[f].links
  BY <1>2
<1>4. f \in Entities /\ ProjectOf[f] = ProjectOf[d] /\ Covered(f)
  BY DEF Members, Covered
<1>5. Record(f) # None /\ l \in Record(f).links
  BY <1>3, <1>4 DEF Record
<1>6. Record(f) \in Said(f)
  BY <1>4, <1>5, RecordIs
<1>7. l = <<l[1], l[2]>> /\ l[1] \in Entities /\ l[2] \in Entities
  BY <1>2
<1>8. l = <<d, Beyond(d, l)>> \/ l = <<Beyond(d, l), d>>
  BY <1>1, <1>7 DEF Beyond
<1>9. Linked(d, Beyond(d, l))
  BY <1>5, <1>6, <1>8 DEF Linked
<1> QED
  BY <1>2, <1>7, <1>9 DEF Beyond

----
(* Sorting.                                                                *)

\* As a sequence.
LEMMA SortedSeq ==
  ASSUME NEW S, IsFiniteSet(S), NEW R, Orders(R, S)
  PROVE  /\ Sorted(S, R) \in Seq(S) /\ Len(Sorted(S, R)) = Cardinality(S)
         /\ DOMAIN Sorted(S, R) = 1 .. Cardinality(S)
         /\ \A n \in DOMAIN Sorted(S, R) : Sorted(S, R)[n] \in S
         /\ \A x \in S : \E n \in DOMAIN Sorted(S, R) : Sorted(S, R)[n] = x
         /\ \A m, n \in DOMAIN Sorted(S, R) : Sorted(S, R)[m] = Sorted(S, R)[n] => m = n
         /\ \A m, n \in DOMAIN Sorted(S, R) :
              m < n => <<Sorted(S, R)[m], Sorted(S, R)[n]>> \in R
<1> DEFINE s == Sorted(S, R)
           c == Cardinality(S)
<1>1. /\ c \in Nat /\ s \in [1 .. c -> S]
      /\ \A x \in S : \E n \in 1 .. c : s[n] = x
      /\ \A m, n \in 1 .. c : <<s[m], s[n]>> \in R <=> m < n
  BY SortedIs
<1> HIDE DEF s, c
<1>2. s \in Seq(S) /\ Len(s) = c /\ DOMAIN s = 1 .. c
  BY <1>1
<1>3. ASSUME NEW m \in 1 .. c, NEW n \in 1 .. c, s[m] = s[n]
      PROVE  m = n
  <2>1. s[m] \in S /\ <<s[m], s[m]>> \notin R
    BY <1>1 DEF Orders
  <2>2. ~(m < n) /\ ~(n < m)
    BY <1>1, <1>3, <2>1
  <2> QED
    BY <2>2
<1>4. \A n \in 1 .. c : s[n] \in S
  BY <1>1
<1> QED
  BY <1>1, <1>2, <1>3, <1>4 DEF s, c

\* By index records, and then by ids, candidates are in a strict order.
LEMMA AheadOrders ==
  ASSUME NEW S \in SUBSET Graded, \A c, d \in S : c.e = d.e => c = d
  PROVE  Orders({p \in S \X S : Ahead(p[1], p[2])}, S)
<1>1. \A c \in S : c.doc.shallow \in Nat /\ c.e \in Entities /\ IdOrder[c.e] \in Nat
  <2>1. ASSUME NEW c \in S PROVE c.doc \in Doc /\ c.e \in Entities
    BY DocIs DEF Graded
  <2> QED
    BY <2>1, EntitiesAssumption DEF Doc
<1>2. \A x \in S : ~Ahead(x, x)
  BY <1>1 DEF Ahead
<1>3. \A x, y \in S : x = y \/ Ahead(x, y) \/ Ahead(y, x)
  BY <1>1, EntitiesAssumption DEF Ahead
<1>4. \A x, y, z \in S : Ahead(x, y) /\ Ahead(y, z) => Ahead(x, z)
  BY <1>1 DEF Ahead
<1> QED
  BY <1>2, <1>3, <1>4 DEF Orders


\* By scores, and then by ids, so are the items of different entities.
LEMMA BeforeOrders ==
  ASSUME NEW S \in SUBSET Item, \A i, j \in S : i.e = j.e => i = j
  PROVE  Orders({p \in S \X S : Before(p[1], p[2])}, S)
<1>1. \A i \in S : Score(i) \in Nat /\ i.e \in Entities /\ IdOrder[i.e] \in Nat
  <2>1. ASSUME NEW i \in S PROVE i.doc \in Doc /\ i.e \in Entities
    BY DocIs DEF Item, AllDocs
  <2> QED
    BY <2>1, EntitiesAssumption DEF Score, Doc
<1>2. \A x \in S : ~Before(x, x)
  BY <1>1 DEF Before
<1>3. \A x, y \in S : x = y \/ Before(x, y) \/ Before(y, x)
  BY <1>1, EntitiesAssumption DEF Before
<1>4. \A x, y, z \in S : Before(x, y) /\ Before(y, z) => Before(x, z)
  BY <1>1 DEF Before
<1> QED
  BY <1>2, <1>3, <1>4 DEF Orders

\* The places of a list are in the order of the numbers.
LEMMA PlacesOrder ==
  ASSUME NEW S \in SUBSET Nat
  PROVE  Orders({p \in Nat \X Nat : p[1] < p[2]}, S)
BY DEF Orders

\* What is admitted are members of the list, eligible and in its order.
LEMMA AdmitIs ==
  ASSUME NEW s \in Seq(Item)
  PROVE  /\ Admit(s) \in Seq(Item)
         /\ \E at \in [DOMAIN Admit(s) -> DOMAIN s] :
              /\ \A m, n \in DOMAIN Admit(s) : at[m] = at[n] => m = n
              /\ \A n \in DOMAIN Admit(s) : Admit(s)[n] = s[at[n]] /\ Eligible(s[at[n]])
<1> DEFINE P == {n \in DOMAIN s : Eligible(s[n])}
           R == {p \in Nat \X Nat : p[1] < p[2]}
           at == Sorted(P, R)
<1>1. DOMAIN s = 1 .. Len(s) /\ Len(s) \in Nat /\ P \in SUBSET DOMAIN s /\ P \in SUBSET Nat
  OBVIOUS
<1>2. IsFiniteSet(P)
  <2>1. IsFiniteSet(1 .. Len(s))
    BY <1>1, FS_Interval
  <2> QED
    BY <1>1, <2>1, FS_Subset
<1>3. Orders(R, P)
  BY <1>1, PlacesOrder
<1>4. /\ at \in Seq(P) /\ DOMAIN at = 1 .. Len(at)
      /\ \A n \in DOMAIN at : at[n] \in P
      /\ \A m, n \in DOMAIN at : at[m] = at[n] => m = n
  <2> HIDE DEF P, R
  <2>1. /\ at \in Seq(P) /\ Len(at) = Cardinality(P) /\ DOMAIN at = 1 .. Cardinality(P)
        /\ \A n \in DOMAIN at : at[n] \in P
    BY <1>2, <1>3, SortedSeq
  <2>2. \A m, n \in DOMAIN at : at[m] = at[n] => m = n
    BY <1>2, <1>3, SortedSeq
  <2> QED
    BY <2>1, <2>2
<1>5. Admit(s) = [n \in DOMAIN at |-> s[at[n]]]
  BY DEF Admit
<1>6. \A n \in DOMAIN at : s[at[n]] \in Item /\ at[n] \in DOMAIN s /\ Eligible(s[at[n]])
  BY <1>1, <1>4
<1>7. Admit(s) \in Seq(Item) /\ DOMAIN Admit(s) = DOMAIN at
  <2>1. Len(at) \in Nat
    BY <1>4
  <2> HIDE DEF at
  <2> QED
    BY <2>1, <1>4, <1>5, <1>6
<1>8. at \in [DOMAIN Admit(s) -> DOMAIN s]
  BY <1>4, <1>6, <1>7
<1> HIDE DEF at
<1> QED
  BY <1>4, <1>5, <1>6, <1>7, <1>8

\* The selected ones are the first of a list, and no more than there may be.
LEMMA SelectedIs ==
  ASSUME NEW s \in Seq(Item)
  PROVE  /\ Selected(s) \in Seq(Item) /\ Len(Selected(s)) <= TopN
         /\ DOMAIN Selected(s) \subseteq DOMAIN s
         /\ \A n \in DOMAIN Selected(s) : Selected(s)[n] = s[n]
<1> DEFINE k == Min({TopN, Len(s)})
<1>1. Len(s) \in Nat /\ k \in Nat /\ k <= TopN /\ k <= Len(s)
  BY LimitsAssumption, MinIs
<1>2. Selected(s) = SubSeq(s, 1, k)
  BY DEF Selected
<1> HIDE DEF k
<1> QED
  BY <1>1, <1>2, LimitsAssumption

----
(* Every step keeps the types.                                             *)

\* A step of a call that is under way, as far as its control goes.
Goes ==
  /\ UNCHANGED Environment
  /\ pc # "idle" /\ pc' \in Phases \ {"idle", "seed"} /\ job' \in Job
  /\ job'.op = job.op /\ job'.query = job.query /\ job'.seed = job.seed
  /\ pc' \in Asking \cup {"grade", "score"} => job.op # "related"
  /\ pc' \in Going \cup {"expand"} => job.op # "search"

\* A step of a call keeps the types.
LEMMA GoesTyped ==
  ASSUME Typed, Goes
  PROVE  Typed'
BY DEF Typed, Goes, Environment

\* So does its beginning.
LEMMA BeginTyped ==
  ASSUME Typed,
         \/ \E query \in Queries : Retrieve(query) \/ Search(query)
         \/ \E e \in Entities : Related(e)
  PROVE  Typed' /\ pc = "idle"
<1>1. PICK op \in Ops, phase \in {"snapshot", "seed"}, query \in Queries \cup {NoQuery},
           seed \in Entities \cup {None} :
        /\ Begin(op, phase, query, seed)
        /\ op = "related" => seed \in Entities
        /\ op \in {"retrieve", "search"} => query \in Queries
        /\ phase = "seed" => op = "related"
  <2>1. CASE \E query \in Queries : Retrieve(query)
    BY <2>1, Zenon DEF Retrieve, Ops
  <2>2. CASE \E query \in Queries : Search(query)
    BY <2>2, Zenon DEF Search, Ops
  <2>3. CASE \E e \in Entities : Related(e)
    BY <2>3, Zenon DEF Related, Ops
  <2> QED
    BY <2>1, <2>2, <2>3
<1>2. job' \in Job /\ job'.op = op /\ job'.query = query /\ job'.seed = seed
  BY <1>1, NoJobType DEF Begin, Job, NoJob
<1>3. held' \in [Entities -> SUBSET AllDocs] /\ shown' \in [Entities -> SUBSET AllDocs]
  BY <1>1, DocsAre DEF Begin, Entry
<1>4. phase \notin Asking \cup Going \cup {"grade", "score", "expand", "idle"}
  BY <1>1 DEF Asking, Going
<1> QED
  BY <1>1, <1>2, <1>3, <1>4 DEF Typed, Begin, Phases, Repositories

\* What each step of a call does to the local variables, the operations in the
\* order of the pipeline.
LEMMA LoadSeedGoes ==
  ASSUME Typed, LoadSeed
  PROVE  /\ Goes
         /\ \/ pc' = "raised" /\ UNCHANGED job
            \/ /\ pc' = "snapshot" /\ docs[job.seed] # None
               /\ \E item \in Item :
                    /\ item = [e |-> job.seed, doc |-> docs[job.seed], stub |-> FALSE,
                               path |-> <<job.seed>>]
                    /\ job' = [job EXCEPT !.result = <<item>>, !.direct = 1, !.queue = <<item>>]
<1> DEFINE item == [e |-> job.seed, doc |-> docs[job.seed], stub |-> FALSE, path |-> <<job.seed>>]
<1>1. job.seed \in Entities /\ job \in Job /\ pc = "seed" /\ job.op = "related"
  BY DEF Typed, LoadSeed
<1>2. CASE docs[job.seed] # None
  <2>1. item \in Item
    <3>1. docs[job.seed] \in Entry /\ <<job.seed>> \in Seq(Entities)
      BY <1>1, DocsAre
    <3> QED
      BY <1>1, <1>2, <3>1, ItemIs
  <2>2. /\ job' = [job EXCEPT !.result = <<item>>, !.direct = 1, !.queue = <<item>>]
        /\ pc' = "snapshot" /\ UNCHANGED Environment
    BY <1>2 DEF LoadSeed
  <2> HIDE DEF item
  <2>3. job' \in Job
    <3>1. <<item>> \in Seq(Item)
      BY <2>1
    <3> QED
      BY <1>1, <2>2, <3>1 DEF Job
  <2>4. job'.op = job.op /\ job'.query = job.query /\ job'.seed = job.seed
    BY <1>1, <2>2 DEF Job
  <2>5. Goes
    BY <1>1, <2>2, <2>3, <2>4 DEF Goes, Phases, Asking, Going
  <2> QED
    BY <1>2, <2>1, <2>2, <2>5 DEF item
<1>3. CASE docs[job.seed] = None
  BY <1>1, <1>3 DEF LoadSeed, Goes, Phases, Asking, Going
<1> QED
  BY <1>2, <1>3

\* The project whose index a call turns to first.
Home == IF job.op = "related" THEN ProjectOf[job.seed] ELSE job.query.project

\* related has its snapshot; a search turns to what it has to ask.
LEMMA TakeSnapshotGoes ==
  ASSUME Typed, TakeSnapshot
  PROVE  /\ Goes /\ pc = "snapshot" /\ Home \in Projects
         /\ DOMAIN job'.snaps = DOMAIN job.snaps \cup {Home}
         /\ \A q \in DOMAIN job.snaps : q # Home => job'.snaps[q] = job.snaps[q]
         /\ pc' = IF job.op = "related" THEN "expand" ELSE "build"
         /\ job.op = "related" =>
              job' = [job EXCEPT !.snaps = WithSnapshot(job.snaps, Home)]
         /\ job.op # "related" =>
              job' = [job EXCEPT !.snaps = WithSnapshot(job.snaps, Home),
                                 !.words = job.query.words, !.tags = job.query.tags,
                                 !.ids = job.query.ids, !.hubs = job.query.ids]
<1> DEFINE snaps == WithSnapshot(job.snaps, Home)
<1>1. job \in Job /\ job.snaps \in Snapshots /\ job.op \in Ops /\ pc = "snapshot"
  BY DEF Typed, TakeSnapshot, Job
<1>2. /\ Home \in Projects
      /\ job.op # "related" =>
           /\ job.query.words \in SUBSET Words /\ job.query.tags \in SUBSET Words
           /\ job.query.ids \in SUBSET Entities
  <2>1. CASE job.op = "related"
    BY <2>1, EntitiesAssumption DEF Typed, Home
  <2>2. CASE job.op # "related"
    BY <1>1, <2>2, DocsAssumption DEF Typed, Ops, Query, Home
  <2> QED
    BY <2>1, <2>2
<1>3. /\ job.op = "related" => job' = [job EXCEPT !.snaps = snaps]
      /\ job.op # "related" =>
           job' = [job EXCEPT !.snaps = snaps,
                              !.words = job.query.words, !.tags = job.query.tags,
                              !.ids = job.query.ids, !.hubs = job.query.ids]
      /\ pc' = IF job.op = "related" THEN "expand" ELSE "build"
      /\ UNCHANGED Environment
  BY <1>1 DEF TakeSnapshot, Job, Home
<1>4. /\ snaps \in Snapshots
      /\ DOMAIN snaps = DOMAIN job.snaps \cup {Home}
      /\ \A q \in DOMAIN job.snaps : q # Home => snaps[q] = job.snaps[q]
  BY <1>1, <1>2, WithSnapshotType
<1> HIDE DEF snaps
<1>5. job' \in Job /\ job'.snaps = snaps
  <2>1. CASE job.op = "related"
    <3>1. job' = [job EXCEPT !.snaps = snaps]
      BY <1>3, <2>1, Zenon
    <3> QED
      BY <1>1, <1>4, <3>1 DEF Job
  <2>2. CASE job.op # "related"
    <3>1. PICK words \in SUBSET Words, tags \in SUBSET Words, ids \in SUBSET Entities :
            words = job.query.words /\ tags = job.query.tags /\ ids = job.query.ids
      BY <1>2, <2>2
    <3>2. job' = [job EXCEPT !.snaps = snaps, !.words = words, !.tags = tags,
                             !.ids = ids, !.hubs = ids]
      BY <1>3, <2>2, <3>1, Zenon
    <3> QED
      BY <1>1, <1>4, <3>2 DEF Job
  <2> QED
    BY <2>1, <2>2
<1>6. job'.op = job.op /\ job'.query = job.query /\ job'.seed = job.seed
  BY <1>1, <1>3 DEF Job
<1>7. Goes
  BY <1>1, <1>3, <1>5, <1>6 DEF Goes, Phases, Asking, Going
<1>8. /\ job.op = "related" =>
           job' = [job EXCEPT !.snaps = WithSnapshot(job.snaps, Home)]
      /\ job.op # "related" =>
           job' = [job EXCEPT !.snaps = WithSnapshot(job.snaps, Home),
                              !.words = job.query.words, !.tags = job.query.tags,
                              !.ids = job.query.ids, !.hubs = job.query.ids]
  BY <1>3, Zenon DEF snaps
<1> QED
  BY <1>1, <1>2, <1>3, <1>4, <1>5, <1>7, <1>8, Zenon

\* A step of the candidate builder: a question is asked, and what the answer
\* adds is of the project.
Elsewhere ==
  /\ job'.op = job.op /\ job'.query = job.query /\ job'.seed = job.seed
  /\ job'.snaps = job.snaps /\ job'.graded = job.graded /\ job'.phased = job.phased
  /\ job'.at = job.at /\ job'.ranked = job.ranked /\ job'.result = job.result
  /\ job'.direct = job.direct /\ job'.queue = job.queue /\ job'.items = job.items

Asks(n, X) ==
  /\ Goes /\ pc \in Asking /\ pc' \in Asking /\ Elsewhere
  /\ n \in 1 .. 4 /\ X \in SUBSET Here
  /\ job'.found = [job.found EXCEPT ![n] = job.found[n] \cup X]

\* The answers that add nothing leave what was found.
LEMMA NothingAdded ==
  ASSUME Typed
  PROVE  /\ job.found \in [1 .. 4 -> SUBSET Entities] /\ Here \subseteq Entities
         /\ [job.found EXCEPT ![1] = job.found[1] \cup {}] = job.found
<1>1. job.found \in [1 .. 4 -> SUBSET Entities] /\ Here \subseteq Entities
  BY DEF Typed, Job, Here, Indexed, Members
<1> QED
  BY <1>1

\* A keyword, a tag, an id.
LEMMA AskKeywordAsks ==
  ASSUME Typed, job.query.project \in DOMAIN job.snaps, NEW w \in Words, AskKeyword(w)
  PROVE  /\ Asks(1, {e \in Here : w \in Record(e).words})
         /\ pc = "build" /\ pc' = "build" /\ w \in job.words
         /\ job'.words = job.words \ {w} /\ job'.tags = job.tags /\ job'.ids = job.ids
         /\ job'.hubs = job.hubs /\ job'.hub = job.hub
         /\ job'.edges = job.edges
<1> DEFINE X == {e \in Here : w \in Record(e).words}
           found == [job.found EXCEPT ![1] = job.found[1] \cup X]
<1>1. job \in Job /\ pc # "idle" /\ job.op # "related" /\ X \in SUBSET Here
      /\ pc = "build"
  BY DEF Typed, AskKeyword, Asking
<1>2. /\ pc' = "build" /\ UNCHANGED Environment /\ w \in job.words
      /\ job' = [job EXCEPT !.words = job.words \ {w}, !.found = found]
  BY <1>1 DEF AskKeyword, FindAt, Job
<1>3. /\ job.words \ {w} \in SUBSET Words
      /\ found \in [1 .. 4 -> SUBSET Entities]
  BY <1>1, NothingAdded, EdgesAre DEF Job, Outward, Inward
<1> HIDE DEF X, found
<1>4. job' \in Job
  BY <1>1, <1>2, <1>3 DEF Job
<1>5. Elsewhere
  BY <1>1, <1>2 DEF Job, Elsewhere
<1>6. /\ job'.found = found
      /\ job'.words = job.words \ {w} /\ job'.tags = job.tags /\ job'.ids = job.ids /\ job'.hubs = job.hubs /\ job'.hub = job.hub /\ job'.edges = job.edges
  BY <1>1, <1>2 DEF Job
<1>7. Goes
  BY <1>1, <1>2, <1>4, <1>5 DEF Goes, Elsewhere, Phases, Asking, Going
<1>8. Asks(1, X)
  BY <1>1, <1>2, <1>5, <1>6, <1>7 DEF Asks, Asking, X, found
<1> QED
  BY <1>1, <1>2, <1>6, <1>8 DEF X

\* The same of a tag.
LEMMA AskTagAsks ==
  ASSUME Typed, job.query.project \in DOMAIN job.snaps, NEW t \in Words, AskTag(t)
  PROVE  /\ Asks(2, {e \in Here : t \in Record(e).tags})
         /\ pc = "build" /\ pc' = "build" /\ t \in job.tags
         /\ job'.words = job.words /\ job'.tags = job.tags \ {t} /\ job'.ids = job.ids
         /\ job'.hubs = job.hubs /\ job'.hub = job.hub
         /\ job'.edges = job.edges
<1> DEFINE X == {e \in Here : t \in Record(e).tags}
           found == [job.found EXCEPT ![2] = job.found[2] \cup X]
<1>1. job \in Job /\ pc # "idle" /\ job.op # "related" /\ X \in SUBSET Here
      /\ pc = "build"
  BY DEF Typed, AskTag, Asking
<1>2. /\ pc' = "build" /\ UNCHANGED Environment /\ t \in job.tags
      /\ job' = [job EXCEPT !.tags = job.tags \ {t}, !.found = found]
  BY <1>1 DEF AskTag, FindAt, Job
<1>3. /\ job.tags \ {t} \in SUBSET Words
      /\ found \in [1 .. 4 -> SUBSET Entities]
  BY <1>1, NothingAdded, EdgesAre DEF Job, Outward, Inward
<1> HIDE DEF X, found
<1>4. job' \in Job
  BY <1>1, <1>2, <1>3 DEF Job
<1>5. Elsewhere
  BY <1>1, <1>2 DEF Job, Elsewhere
<1>6. /\ job'.found = found
      /\ job'.words = job.words /\ job'.tags = job.tags \ {t} /\ job'.ids = job.ids /\ job'.hubs = job.hubs /\ job'.hub = job.hub /\ job'.edges = job.edges
  BY <1>1, <1>2 DEF Job
<1>7. Goes
  BY <1>1, <1>2, <1>4, <1>5 DEF Goes, Elsewhere, Phases, Asking, Going
<1>8. Asks(2, X)
  BY <1>1, <1>2, <1>5, <1>6, <1>7 DEF Asks, Asking, X, found
<1> QED
  BY <1>1, <1>2, <1>6, <1>8 DEF X

\* And of an id.
LEMMA AskIdAsks ==
  ASSUME Typed, job.query.project \in DOMAIN job.snaps, NEW e \in Entities, AskId(e)
  PROVE  /\ Asks(3, Here \cap {e})
         /\ pc = "build" /\ pc' = "build" /\ e \in job.ids
         /\ job'.words = job.words /\ job'.tags = job.tags /\ job'.ids = job.ids \ {e}
         /\ job'.hubs = job.hubs /\ job'.hub = job.hub
         /\ job'.edges = job.edges
<1> DEFINE X == Here \cap {e}
           found == [job.found EXCEPT ![3] = job.found[3] \cup X]
<1>1. job \in Job /\ pc # "idle" /\ job.op # "related" /\ X \in SUBSET Here
      /\ pc = "build"
  BY DEF Typed, AskId, Asking
<1>2. /\ pc' = "build" /\ UNCHANGED Environment /\ e \in job.ids
      /\ job' = [job EXCEPT !.ids = job.ids \ {e}, !.found = found]
  BY <1>1 DEF AskId, FindAt, Job
<1>3. /\ job.ids \ {e} \in SUBSET Entities
      /\ found \in [1 .. 4 -> SUBSET Entities]
  BY <1>1, NothingAdded, EdgesAre DEF Job, Outward, Inward
<1> HIDE DEF X, found
<1>4. job' \in Job
  BY <1>1, <1>2, <1>3 DEF Job
<1>5. Elsewhere
  BY <1>1, <1>2 DEF Job, Elsewhere
<1>6. /\ job'.found = found
      /\ job'.words = job.words /\ job'.tags = job.tags /\ job'.ids = job.ids \ {e} /\ job'.hubs = job.hubs /\ job'.hub = job.hub /\ job'.edges = job.edges
  BY <1>1, <1>2 DEF Job
<1>7. Goes
  BY <1>1, <1>2, <1>4, <1>5 DEF Goes, Elsewhere, Phases, Asking, Going
<1>8. Asks(3, X)
  BY <1>1, <1>2, <1>5, <1>6, <1>7 DEF Asks, Asking, X, found
<1> QED
  BY <1>1, <1>2, <1>6, <1>8 DEF X

\* The edges from an id.
LEMMA AskOutwardAsks ==
  ASSUME Typed, job.query.project \in DOMAIN job.snaps, NEW e \in Entities, AskOutward(e)
  PROVE  /\ Asks(1, {})
         /\ pc = "build" /\ pc' = "inward" /\ Settled /\ e \in job.hubs
         /\ job'.words = job.words /\ job'.tags = job.tags /\ job'.ids = job.ids
         /\ job'.hubs = job.hubs \ {e} /\ job'.hub = e
         /\ job'.edges = Outward(job.query.project, e)
<1> DEFINE X == {}
           val_edges == Outward(job.query.project, e)
<1>1. job \in Job /\ pc # "idle" /\ job.op # "related" /\ X \in SUBSET Here
      /\ pc = "build"
  BY DEF Typed, AskOutward, Asking
<1>2. /\ pc' = "inward" /\ UNCHANGED Environment /\ Settled /\ e \in job.hubs
      /\ job' = [job EXCEPT !.hubs = job.hubs \ {e}, !.hub = e, !.edges = val_edges]
  BY <1>1 DEF AskOutward, Job
<1>3. /\ job.hubs \ {e} \in SUBSET Entities
      /\ e \in Entities \cup {None}
      /\ val_edges \in SUBSET (Entities \X Entities)
  BY <1>1, NothingAdded, EdgesAre DEF Job, Outward, Inward
<1> HIDE DEF X, val_edges
<1>4. job' \in Job
  BY <1>1, <1>2, <1>3 DEF Job
<1>5. Elsewhere
  BY <1>1, <1>2 DEF Job, Elsewhere
<1>6. /\ job'.found = job.found
      /\ job'.words = job.words /\ job'.tags = job.tags /\ job'.ids = job.ids /\ job'.hubs = job.hubs \ {e} /\ job'.hub = e /\ job'.edges = val_edges
  BY <1>1, <1>2 DEF Job
<1>7. Goes
  BY <1>1, <1>2, <1>4, <1>5 DEF Goes, Elsewhere, Phases, Asking, Going
<1>8. Asks(1, X)
  BY <1>1, <1>2, <1>5, <1>6, <1>7, NothingAdded DEF Asks, Asking, X
<1> QED
  BY <1>1, <1>2, <1>6, <1>8 DEF X, val_edges

\* The edges to it.
LEMMA AskInwardAsks ==
  ASSUME Typed, job.query.project \in DOMAIN job.snaps, AskInward
  PROVE  /\ Asks(1, {})
         /\ pc = "inward" /\ pc' = "build"
         /\ job'.words = job.words /\ job'.tags = job.tags /\ job'.ids = job.ids
         /\ job'.hubs = job.hubs /\ job'.hub = job.hub
         /\ job'.edges = job.edges \cup Inward(job.query.project, job.hub)
<1> DEFINE X == {}
           val_edges == job.edges \cup Inward(job.query.project, job.hub)
<1>1. job \in Job /\ pc # "idle" /\ job.op # "related" /\ X \in SUBSET Here
      /\ pc = "inward"
  BY DEF Typed, AskInward, Asking
<1>2. /\ pc' = "build" /\ UNCHANGED Environment
      /\ job' = [job EXCEPT !.edges = val_edges]
  BY <1>1 DEF AskInward, Job
<1>3. /\ val_edges \in SUBSET (Entities \X Entities)
  BY <1>1, NothingAdded, EdgesAre DEF Job, Outward, Inward
<1> HIDE DEF X, val_edges
<1>4. job' \in Job
  BY <1>1, <1>2, <1>3 DEF Job
<1>5. Elsewhere
  BY <1>1, <1>2 DEF Job, Elsewhere
<1>6. /\ job'.found = job.found
      /\ job'.words = job.words /\ job'.tags = job.tags /\ job'.ids = job.ids /\ job'.hubs = job.hubs /\ job'.hub = job.hub /\ job'.edges = val_edges
  BY <1>1, <1>2 DEF Job
<1>7. Goes
  BY <1>1, <1>2, <1>4, <1>5 DEF Goes, Elsewhere, Phases, Asking, Going
<1>8. Asks(1, X)
  BY <1>1, <1>2, <1>5, <1>6, <1>7, NothingAdded DEF Asks, Asking, X
<1> QED
  BY <1>1, <1>2, <1>6, <1>8 DEF X, val_edges

\* The record at the end of one.
LEMMA AskNodeAsks ==
  ASSUME Typed, job.query.project \in DOMAIN job.snaps, NEW l \in job.edges, AskNode(l)
  PROVE  /\ Asks(4, (Here \cap {End(l)}) \ {job.hub})
         /\ pc = "build" /\ pc' = "build" /\ l \in job.edges
         /\ job'.words = job.words /\ job'.tags = job.tags /\ job'.ids = job.ids
         /\ job'.hubs = job.hubs /\ job'.hub = job.hub
         /\ job'.edges = job.edges \ {l}
<1> DEFINE X == (Here \cap {End(l)}) \ {job.hub}
           found == [job.found EXCEPT ![4] = job.found[4] \cup X]
<1>1. job \in Job /\ pc # "idle" /\ job.op # "related" /\ X \in SUBSET Here
      /\ pc = "build"
  BY DEF Typed, AskNode, Asking
<1>2. /\ pc' = "build" /\ UNCHANGED Environment /\ l \in job.edges
      /\ job' = [job EXCEPT !.edges = job.edges \ {l}, !.found = found]
  BY <1>1 DEF AskNode, FindAt, Job
<1>3. /\ job.edges \ {l} \in SUBSET (Entities \X Entities)
      /\ found \in [1 .. 4 -> SUBSET Entities]
  BY <1>1, NothingAdded, EdgesAre DEF Job, Outward, Inward
<1> HIDE DEF X, found
<1>4. job' \in Job
  BY <1>1, <1>2, <1>3 DEF Job
<1>5. Elsewhere
  BY <1>1, <1>2 DEF Job, Elsewhere
<1>6. /\ job'.found = found
      /\ job'.words = job.words /\ job'.tags = job.tags /\ job'.ids = job.ids /\ job'.hubs = job.hubs /\ job'.hub = job.hub /\ job'.edges = job.edges \ {l}
  BY <1>1, <1>2 DEF Job
<1>7. Goes
  BY <1>1, <1>2, <1>4, <1>5 DEF Goes, Elsewhere, Phases, Asking, Going
<1>8. Asks(4, X)
  BY <1>1, <1>2, <1>5, <1>6, <1>7 DEF Asks, Asking, X, found
<1> QED
  BY <1>1, <1>2, <1>6, <1>8 DEF X

\* What was found is cut to as many candidates as there may be.
LEMMA CutGoes ==
  ASSUME Typed, Cut, \A n \in 1 .. 4 : job.found[n] \subseteq Members(job.query.project)
  PROVE  /\ Goes /\ pc = "build" /\ pc' = "grade" /\ Settled /\ job.hubs = {}
         /\ Found \subseteq Members(job.query.project) /\ IsFiniteSet(Found)
         /\ \E kept \in SUBSET Found :
              /\ Cardinality(kept) = Min({MaxCandidates, Cardinality(Found)})
              /\ job' = [job EXCEPT !.entries = kept]
<1>1. Found \subseteq Members(job.query.project) /\ Found \subseteq Entities
  BY DEF Found, Members
<1>2. IsFiniteSet(Found)
  BY <1>1, EntitiesAssumption, FS_Subset
<1>3. job \in Job /\ pc = "build" /\ job.op # "related"
  BY DEF Typed, Cut, Asking
<1>4. PICK kept \in Candidates : job' = [job EXCEPT !.entries = kept]
  BY DEF Cut
<1>5. kept \in SUBSET Found /\ Cardinality(kept) = Min({MaxCandidates, Cardinality(Found)})
  BY DEF Candidates
<1>6. job' \in Job
  BY <1>1, <1>3, <1>4, <1>5 DEF Job
<1>7. job'.op = job.op /\ job'.query = job.query /\ job'.seed = job.seed
  BY <1>3, <1>4 DEF Job
<1>8. pc' = "grade" /\ UNCHANGED Environment /\ Settled /\ job.hubs = {}
  BY DEF Cut
<1>9. Goes
  BY <1>3, <1>6, <1>7, <1>8 DEF Goes, Phases, Asking, Going
<1> QED
  BY <1>1, <1>2, <1>3, <1>4, <1>5, <1>8, <1>9

\* A candidate is given its record, if it has one.
GradedAs(e) == IF Record(e) = None THEN {} ELSE {[e |-> e, doc |-> Record(e)]}

LEMMA GradeGoes ==
  ASSUME Typed, Witnessed, NEW e \in Entities, Grade(e), Covered(e)
  PROVE  /\ Goes /\ pc = "grade" /\ pc' = "grade" /\ e \in job.entries
         /\ GradedAs(e) \subseteq Graded
         /\ job' = [job EXCEPT !.entries = job.entries \ {e},
                               !.graded = job.graded \cup GradedAs(e)]
<1>1. /\ job \in Job /\ pc = "grade" /\ pc' = "grade" /\ UNCHANGED Environment
      /\ job.op # "related" /\ e \in job.entries
      /\ job' = [job EXCEPT !.entries = job.entries \ {e},
                            !.graded = job.graded \cup GradedAs(e)]
  BY DEF Typed, Grade, GradedAs, Job
<1>2. GradedAs(e) \subseteq Graded
  BY <1>1, RecordIs DEF GradedAs, Graded
<1>3. job' \in Job
  BY <1>1, <1>2 DEF Job
<1>4. job'.op = job.op /\ job'.query = job.query /\ job'.seed = job.seed
  BY <1>1 DEF Job
<1> QED
  BY <1>1, <1>2, <1>3, <1>4 DEF Goes, Phases, Asking, Going

\* The graded candidates are put in order.
LEMMA PhaseGoes ==
  ASSUME Typed, Phase, IsFiniteSet(job.graded), \A c, d \in job.graded : c.e = d.e => c = d
  PROVE  /\ Goes /\ pc = "grade" /\ pc' = "score" /\ job.entries = {}
         /\ \E phased \in Seq(Graded) :
              /\ job' = [job EXCEPT !.phased = phased]
              /\ Len(phased) = Cardinality(job.graded)
              /\ \A m, n \in DOMAIN phased : phased[m].e = phased[n].e => m = n
              /\ \A n \in DOMAIN phased : phased[n] \in job.graded
              /\ \A c \in job.graded : \E n \in DOMAIN phased : phased[n] = c
<1>1. PICK S \in SUBSET Graded : S = job.graded
  BY DEF Typed, Job
<1>2. IsFiniteSet(S) /\ \A c, d \in S : c.e = d.e => c = d
  BY <1>1
<1>3. PICK R : R = {p \in S \X S : Ahead(p[1], p[2])}
  OBVIOUS
<1>4. Orders(R, S)
  BY <1>2, <1>3, AheadOrders
<1>5. PICK phased : phased = Sorted(S, R)
  OBVIOUS
<1>6. /\ phased \in Seq(S) /\ Len(phased) = Cardinality(S)
      /\ \A n \in DOMAIN phased : phased[n] \in S
      /\ \A c \in S : \E n \in DOMAIN phased : phased[n] = c
  BY <1>2, <1>4, <1>5, SortedSeq
<1>7. \A m, n \in DOMAIN phased : phased[m] = phased[n] => m = n
  BY <1>2, <1>4, <1>5, SortedSeq
<1>8. \A m, n \in DOMAIN phased : phased[m].e = phased[n].e => m = n
  BY <1>2, <1>6, <1>7
<1>9. phased \in Seq(Graded)
  BY <1>6
<1>10. /\ job \in Job /\ pc = "grade" /\ pc' = "score" /\ UNCHANGED Environment
       /\ job.op # "related" /\ job.entries = {}
       /\ job' = [job EXCEPT !.phased = phased]
  BY <1>1, <1>3, <1>5 DEF Typed, Phase
<1>11. job' \in Job
  BY <1>9, <1>10 DEF Job
<1>12. job'.op = job.op /\ job'.query = job.query /\ job'.seed = job.seed
  BY <1>10 DEF Job
<1>13. Goes
  BY <1>10, <1>11, <1>12 DEF Goes, Phases, Asking, Going
<1> QED
  BY <1>1, <1>6, <1>8, <1>9, <1>10, <1>13

\* A candidate is skipped, or added to those ranked.
LEMMA ScoredGoes ==
  ASSUME Typed, pc = "score", pc' = "score", job.phased # << >>, UNCHANGED Environment,
         NEW items \in SUBSET Item, job' = Scored(items)
  PROVE  /\ Goes /\ Foremost = job.phased[1].e /\ Foremost \in Entities
         /\ Head(job.phased) = job.phased[1] /\ job.phased[1] \in Graded
         /\ 1 \in DOMAIN job.phased
         /\ job'.phased = Tail(job.phased) /\ job'.at = job.at + 1
         /\ Len(job'.phased) = Len(job.phased) - 1
         /\ \A n \in DOMAIN job'.phased :
              n + 1 \in DOMAIN job.phased /\ job'.phased[n] = job.phased[n + 1]
         /\ job'.ranked = job.ranked \cup items
         /\ job'.snaps = job.snaps
<1>1. /\ job \in Job /\ job.phased \in Seq(Graded) /\ job.phased # << >>
      /\ job.op # "related" /\ job.at \in Nat
  BY DEF Typed, Job
<1>2. /\ Head(job.phased) = job.phased[1] /\ job.phased[1] \in Graded /\ 1 \in DOMAIN job.phased
      /\ Tail(job.phased) \in Seq(Graded) /\ Len(Tail(job.phased)) = Len(job.phased) - 1
      /\ \A n \in DOMAIN Tail(job.phased) :
           n + 1 \in DOMAIN job.phased /\ Tail(job.phased)[n] = job.phased[n + 1]
  BY <1>1
<1>a. Foremost = job.phased[1].e /\ Foremost \in Entities
  BY <1>2 DEF Foremost, Graded
<1>3. /\ job'.phased = Tail(job.phased) /\ job'.at = job.at + 1
      /\ job'.ranked = job.ranked \cup items /\ job'.snaps = job.snaps
      /\ job'.op = job.op /\ job'.query = job.query /\ job'.seed = job.seed
  BY <1>1 DEF Scored, Job
<1>4. job' \in Job
  <2>1. job.at + 1 \in Nat /\ job.ranked \cup items \in SUBSET Item
    BY <1>1 DEF Job
  <2>2. job' = [job EXCEPT !.phased = Tail(job.phased), !.at = job.at + 1,
                           !.ranked = job.ranked \cup items]
    BY <1>1 DEF Scored, Job
  <2> QED
    BY <1>1, <1>2, <2>1, <2>2 DEF Job
<1>5. Goes
  BY <1>1, <1>3, <1>4 DEF Goes, Phases, Asking, Going
<1> QED
  BY <1>2, <1>a, <1>3, <1>5

LEMMA RefineRaisesGoes ==
  ASSUME Typed, RefineRaises
  PROVE  Goes /\ pc' = "raised" /\ UNCHANGED job
BY DEF Typed, RefineRaises, Goes, Phases, Asking, Going


\* An answer ends the call, or raises.
LEMMA AnswerGoes ==
  ASSUME Typed, pc \notin {"idle", "seed"}, UNCHANGED Environment,
         NEW items \in Seq(Item), Answer(items)
  PROVE  /\ Goes
         /\ \/ pc' = "raised" /\ UNCHANGED job
            \/ pc' = "answered" /\ job' = [job EXCEPT !.items = items]
<1>1. job \in Job /\ pc # "idle"
  BY DEF Typed
<1>2. CASE pc' = "raised" /\ UNCHANGED job
  BY <1>1, <1>2 DEF Goes, Phases, Asking, Going
<1>3. CASE pc' = "answered" /\ job' = [job EXCEPT !.items = items]
  <2>1. job' \in Job
    BY <1>1, <1>3 DEF Job
  <2>2. job'.op = job.op /\ job'.query = job.query /\ job'.seed = job.seed
    BY <1>1, <1>3 DEF Job
  <2> QED
    BY <1>1, <1>3, <2>1, <2>2 DEF Goes, Phases, Asking, Going
<1> QED
  BY <1>2, <1>3, Zenon DEF Answer

Ranked == Sorted(job.ranked, {p \in job.ranked \X job.ranked : Before(p[1], p[2])})

\* The ranking has each ranked item once.
LEMMA RankedIs ==
  ASSUME Typed, IsFiniteSet(job.ranked), \A i, j \in job.ranked : i.e = j.e => i = j
  PROVE  /\ Ranked \in Seq(Item)
         /\ \A n \in DOMAIN Ranked : Ranked[n] \in job.ranked
         /\ \A m, n \in DOMAIN Ranked : Ranked[m] = Ranked[n] => m = n
<1> DEFINE R == {p \in job.ranked \X job.ranked : Before(p[1], p[2])}
<1>1. PICK S : S = job.ranked
  OBVIOUS
<1>2. S \in SUBSET Item /\ IsFiniteSet(S) /\ \A i, j \in S : i.e = j.e => i = j
  BY <1>1 DEF Typed, Job
<1>3. Orders({p \in S \X S : Before(p[1], p[2])}, S)
  BY <1>2, BeforeOrders
<1>4. PICK Q : Q = {p \in S \X S : Before(p[1], p[2])}
  OBVIOUS
<1>5. Ranked = Sorted(S, Q)
  BY <1>1, <1>4 DEF Ranked
<1>6. /\ Sorted(S, Q) \in Seq(S)
      /\ \A n \in DOMAIN Sorted(S, Q) : Sorted(S, Q)[n] \in S
  BY <1>2, <1>3, <1>4, SortedSeq
<1>7. \A m, n \in DOMAIN Sorted(S, Q) : Sorted(S, Q)[m] = Sorted(S, Q)[n] => m = n
  BY <1>2, <1>3, <1>4, SortedSeq
<1>8. Sorted(S, Q) \in Seq(Item)
  BY <1>2, <1>6
<1> QED
  BY <1>1, <1>5, <1>6, <1>7, <1>8

LEMMA RankGoes ==
  ASSUME Typed, Rank, IsFiniteSet(job.ranked), \A i, j \in job.ranked : i.e = j.e => i = j
  PROVE  /\ Goes /\ pc = "score"
         /\ \/ pc' = "raised" /\ UNCHANGED job
            \/ /\ pc' = "answered" /\ job.op = "search"
               /\ job' = [job EXCEPT !.items = Selected(Admit(Ranked))]
            \/ /\ pc' = "expand" /\ job.op = "retrieve"
               /\ job' = [job EXCEPT !.result = Ranked, !.direct = Len(Ranked),
                                     !.queue = Ranked]
<1>1. job \in Job /\ pc = "score" /\ UNCHANGED Environment /\ Ranked \in Seq(Item)
  BY RankedIs DEF Typed, Rank
<1>2. CASE job.op = "search" /\ Answer(Selected(Admit(Ranked)))
  <2>1. Selected(Admit(Ranked)) \in Seq(Item)
    BY <1>1, AdmitIs, SelectedIs
  <2> QED
    BY <1>1, <1>2, <2>1, AnswerGoes
<1>3. CASE /\ job.op = "retrieve" /\ pc' = "expand"
           /\ job' = [job EXCEPT !.result = Ranked, !.direct = Len(Ranked), !.queue = Ranked]
  <2>1. Len(Ranked) \in Nat
    BY <1>1
  <2>2. job' \in Job
    BY <1>1, <1>3, <2>1 DEF Job
  <2>3. job'.op = job.op /\ job'.query = job.query /\ job'.seed = job.seed
    BY <1>1, <1>3 DEF Job
  <2> QED
    BY <1>1, <1>3, <2>2, <2>3 DEF Goes, Phases, Asking, Going
<1>4. \/ job.op = "search" /\ Answer(Selected(Admit(Ranked)))
      \/ /\ job.op = "retrieve"
         /\ job' = [job EXCEPT !.result = Ranked, !.direct = Len(Ranked), !.queue = Ranked]
         /\ pc' = "expand"
  BY Zenon DEF Rank, Ranked
<1> QED
  BY <1>2, <1>3, <1>4

----
(* The invariant.                                                          *)

\* A document is the repository's or, of a stub, the index's; and each edge of
\* the path is the index's.
Vouched(i) ==
  /\ IF i.stub THEN Covered(i.e) /\ i.doc \in Said(i.e) ELSE i.doc \in held[i.e]
  /\ Len(i.path) \in 1 .. MaxDepth + 1 /\ i.path[Len(i.path)] = i.e
  /\ \A n \in 1 .. Len(i.path) - 1 : Linked(i.path[n], i.path[n + 1])

Distinct(items) == \A m, n \in DOMAIN items : items[m].e = items[n].e => m = n

\* Before the candidates are there a call holds nothing but its seed.
Starting ==
  /\ pc \in {"seed", "snapshot"} =>
       /\ job.snaps = NoSnapshots /\ job.found = NothingFound
       /\ job.graded = {} /\ job.entries = {} /\ job.edges = {}
  /\ pc \in Asking \cup {"seed", "grade"} \/ (pc = "snapshot" /\ job.op # "related") =>
       /\ job.at = 0 /\ job.ranked = {} /\ job.direct = 0 /\ job.phased = << >>
       /\ job.result = << >> /\ job.queue = << >>
  /\ pc \in Asking \cup {"grade", "score"} => job.query.project \in DOMAIN job.snaps

\* What the sources find is of the project that is asked.
Searching ==
  pc \in Asking =>
    /\ job.graded = {}
    /\ \A n \in 1 .. 4 : job.found[n] \subseteq Members(job.query.project)

\* A candidate is still to be graded, or has a record of the index.
Grading ==
  pc = "grade" =>
    /\ job.entries \subseteq Members(job.query.project)
    /\ IsFiniteSet(job.graded)
    /\ Cardinality(job.graded) + Cardinality(job.entries) <= MaxCandidates
    /\ \A c \in job.graded :
         c.e \in Members(job.query.project) /\ c.e \notin job.entries /\ c.doc \in Said(c.e)
    /\ \A c, d \in job.graded : c.e = d.e => c = d

\* Each candidate is indexed, and is still to be scored, ranked, or dropped.
Scoring ==
  pc = "score" =>
    /\ \A m, n \in DOMAIN job.phased : job.phased[m].e = job.phased[n].e => m = n
    /\ \A n \in DOMAIN job.phased :
         /\ ProjectOf[job.phased[n].e] = job.query.project
         /\ job.phased[n].doc \in Said(job.phased[n].e)
    /\ IsFiniteSet(job.ranked)
    /\ \A i \in job.ranked :
         Vouched(i) /\ Covered(i.e) /\ \A n \in DOMAIN job.phased : job.phased[n].e # i.e
    /\ \A i, j \in job.ranked : i.e = j.e => i = j

\* What has been reached is vouched for, once each, and what waits is part of it.
Traversing ==
  pc \in Going \cup {"expand"} \/ (pc = "snapshot" /\ job.op = "related") =>
    /\ Distinct(job.result)
    /\ \A n \in DOMAIN job.result :
         Vouched(job.result[n]) /\ (pc = "snapshot" => job.result[n].e = job.seed)
         /\ (pc # "snapshot" => Covered(job.result[n].e))
    /\ \A n \in DOMAIN job.queue : \E m \in DOMAIN job.result : job.queue[n] = job.result[m]
    /\ job.op = "related" => job.result # << >>

\* The edges at hand are the parent's, and so is the one gone along.
Visiting ==
  pc \in Going =>
    /\ job.parent \in Item /\ Vouched(job.parent) /\ Covered(job.parent.e)
    /\ Len(job.parent.path) <= MaxDepth /\ job.hub = job.parent.e
    /\ \A l \in job.edges : End(l) \in Entities /\ Linked(job.hub, End(l))
    /\ pc = "load" =>
         /\ job.node \in Entities \ Visited /\ Covered(job.node)
         /\ Linked(job.hub, job.node) /\ Room

Answered ==
  pc = "answered" =>
    /\ Distinct(job.items)
    /\ \A n \in DOMAIN job.items :
         Vouched(job.items[n]) /\ (job.op # "related" => Eligible(job.items[n]))

Bounded ==
  /\ job.at + Len(job.phased) <= MaxCandidates
  /\ Len(job.result) <= job.direct + Limit
  /\ Len(job.items) <= TopN

----
(* The traverser, and the filter.                                          *)

\* The parent is the first in the queue, and its outward edges are asked for.
LEMMA ExpandGoes ==
  ASSUME Typed, Expand, \A n \in DOMAIN job.queue : Covered(job.queue[n].e)
  PROVE  /\ Goes /\ pc = "expand" /\ job.queue # << >> /\ Room /\ 1 \in DOMAIN job.queue
         /\ job'.queue = Tail(job.queue)
         /\ \A n \in DOMAIN job'.queue :
              n + 1 \in DOMAIN job.queue /\ job'.queue[n] = job.queue[n + 1]
         /\ \/ pc' = "expand" /\ job' = [job EXCEPT !.queue = Tail(@)]
            \/ /\ pc' = "onward" /\ ~(Depth(job.queue[1]) >= MaxDepth)
               /\ \E edges \in SUBSET (Entities \X Entities) :
                    /\ job' = [job EXCEPT !.queue = Tail(job.queue),
                                          !.parent = job.queue[1], !.hub = job.queue[1].e,
                                          !.edges = edges]
                    /\ edges = Outward(ProjectOf[job.queue[1].e], job.queue[1].e)
<1> DEFINE parent == job.queue[1]
           edges == Outward(ProjectOf[parent.e], parent.e)
<1>1. job \in Job /\ pc = "expand" /\ Room /\ UNCHANGED Environment /\ job.op # "search"
  BY DEF Typed, Expand
<1>2. /\ job.queue \in Seq(Item) /\ job.queue # << >> /\ Head(job.queue) = parent
      /\ 1 \in DOMAIN job.queue /\ parent \in Item
      /\ Tail(job.queue) \in Seq(Item)
      /\ \A n \in DOMAIN Tail(job.queue) :
           n + 1 \in DOMAIN job.queue /\ Tail(job.queue)[n] = job.queue[n + 1]
  BY <1>1 DEF Expand, Job
<1>3. CASE Depth(parent) >= MaxDepth
  <2>1. job' = [job EXCEPT !.queue = Tail(@)] /\ pc' = "expand"
    BY <1>1, <1>2, <1>3 DEF Expand
  <2>2. job' \in Job
    BY <1>1, <1>2, <2>1 DEF Job
  <2>3. job'.op = job.op /\ job'.query = job.query /\ job'.seed = job.seed
        /\ job'.queue = Tail(job.queue)
    BY <1>1, <2>1 DEF Job
  <2>4. Goes
    BY <1>1, <2>1, <2>2, <2>3 DEF Goes, Phases, Asking, Going
  <2> QED
    BY <1>1, <1>2, <2>1, <2>3, <2>4
<1>4. CASE ~(Depth(parent) >= MaxDepth)
  <2>1. /\ job' = [job EXCEPT !.queue = Tail(job.queue), !.parent = parent,
                              !.hub = parent.e, !.edges = edges]
        /\ pc' = "onward"
    BY <1>1, <1>2, <1>4 DEF Expand, Job
  <2>2. edges \in SUBSET (Entities \X Entities) /\ parent.e \in Entities
    <3>1. parent.e \in Entities /\ Covered(parent.e)
      BY <1>2 DEF Item
    <3> QED
      BY <3>1, EdgesAre DEF Outward, Covered
  <2> HIDE DEF edges, parent
  <2>3. job' \in Job
    BY <1>1, <1>2, <2>1, <2>2 DEF Job
  <2>4. job'.op = job.op /\ job'.query = job.query /\ job'.seed = job.seed
        /\ job'.queue = Tail(job.queue)
    BY <1>1, <2>1 DEF Job
  <2>5. Goes
    BY <1>1, <2>1, <2>3, <2>4 DEF Goes, Phases, Asking, Going
  <2>6. PICK es \in SUBSET (Entities \X Entities) : es = edges
    BY <2>2
  <2>7. /\ job' = [job EXCEPT !.queue = Tail(job.queue), !.parent = job.queue[1],
                              !.hub = job.queue[1].e, !.edges = es]
        /\ es = Outward(ProjectOf[job.queue[1].e], job.queue[1].e)
    BY <2>1, <2>6, Zenon DEF edges, parent
  <2>8. /\ pc = "expand" /\ job.queue # << >> /\ Room /\ 1 \in DOMAIN job.queue
        /\ job'.queue = Tail(job.queue)
        /\ \A n \in DOMAIN job'.queue :
             n + 1 \in DOMAIN job.queue /\ job'.queue[n] = job.queue[n + 1]
        /\ pc' = "onward" /\ ~(Depth(job.queue[1]) >= MaxDepth)
    BY <1>1, <1>2, <1>4, <2>1, <2>4 DEF parent
  <2> QED
    BY <2>5, <2>7, <2>8, Zenon
<1> QED
  BY <1>3, <1>4

\* The edges to the parent join those from it.
LEMMA ExpandInwardGoes ==
  ASSUME Typed, ExpandInward, job.hub \in Entities, Covered(job.hub)
  PROVE  /\ Goes /\ pc = "onward" /\ pc' = "visit"
         /\ job' = [job EXCEPT !.edges = job.edges \cup Inward(ProjectOf[job.hub], job.hub)]
<1> DEFINE edges == job.edges \cup Inward(ProjectOf[job.hub], job.hub)
<1>1. /\ job \in Job /\ pc = "onward" /\ pc' = "visit" /\ UNCHANGED Environment
      /\ job.op # "search" /\ job' = [job EXCEPT !.edges = edges]
  BY DEF Typed, ExpandInward, Going, Job
<1>2. edges \in SUBSET (Entities \X Entities)
  BY <1>1, EdgesAre DEF Inward, Covered, Job
<1> HIDE DEF edges
<1>3. job' \in Job
  BY <1>1, <1>2 DEF Job
<1>4. job'.op = job.op /\ job'.query = job.query /\ job'.seed = job.seed
  BY <1>1 DEF Job
<1>5. Goes
  BY <1>1, <1>3, <1>4 DEF Goes, Phases, Asking, Going
<1> QED
  BY <1>1, <1>5 DEF edges

LEMMA TakeSnapshotOfGoes ==
  ASSUME Typed, NEW l \in job.edges, TakeSnapshotOf(l), End(l) \in Entities
  PROVE  /\ Goes /\ pc = "visit" /\ pc' = "visit" /\ ProjectOf[End(l)] \notin DOMAIN job.snaps
         /\ job' = [job EXCEPT !.snaps = WithSnapshot(@, ProjectOf[End(l)])]
         /\ DOMAIN job'.snaps = DOMAIN job.snaps \cup {ProjectOf[End(l)]}
         /\ \A q \in DOMAIN job.snaps : job'.snaps[q] = job.snaps[q]
<1>0. PICK p \in Projects : p = ProjectOf[End(l)]
  BY EntitiesAssumption
<1>1. /\ job \in Job /\ job.snaps \in Snapshots /\ pc = "visit" /\ UNCHANGED <<pc, Environment>>
      /\ job.op # "search" /\ p \notin DOMAIN job.snaps
      /\ job' = [job EXCEPT !.snaps = WithSnapshot(job.snaps, p)]
  BY <1>0 DEF Typed, TakeSnapshotOf, Job, Going
<1>3. /\ WithSnapshot(job.snaps, p) \in Snapshots
      /\ DOMAIN WithSnapshot(job.snaps, p) = DOMAIN job.snaps \cup {p}
      /\ \A q \in DOMAIN job.snaps : q # p => WithSnapshot(job.snaps, p)[q] = job.snaps[q]
  BY <1>1, WithSnapshotType
<1>4. job' \in Job /\ job'.snaps = WithSnapshot(job.snaps, p)
  BY <1>1, <1>3 DEF Job
<1>5. job'.op = job.op /\ job'.query = job.query /\ job'.seed = job.seed
  BY <1>1 DEF Job
<1>6. Goes
  BY <1>1, <1>4, <1>5 DEF Goes, Phases, Asking, Going
<1> QED
  BY <1>0, <1>1, <1>3, <1>4, <1>6

LEMMA PassOverGoes ==
  ASSUME Typed, NEW l \in job.edges, PassOver(l)
  PROVE  /\ Goes /\ pc = "visit" /\ pc' = "visit" /\ Room
         /\ \/ End(l) \in Visited
            \/ Covered(End(l)) /\ (Record(End(l)) = None \/ TypeOf[End(l)] = "campaign")
         /\ job' = [job EXCEPT !.edges = job.edges \ {l}]
<1>1. /\ job \in Job /\ pc = "visit" /\ UNCHANGED <<pc, Environment>> /\ Room
      /\ job.op # "search" /\ job' = [job EXCEPT !.edges = job.edges \ {l}]
      /\ \/ End(l) \in Visited
         \/ Covered(End(l)) /\ (Record(End(l)) = None \/ TypeOf[End(l)] = "campaign")
  BY DEF Typed, PassOver, Going, Covered, Job
<1>2. job' \in Job
  BY <1>1 DEF Job
<1>3. job'.op = job.op /\ job'.query = job.query /\ job'.seed = job.seed
  BY <1>1 DEF Job
<1>4. Goes
  BY <1>1, <1>2, <1>3 DEF Goes, Phases, Asking, Going
<1> QED
  BY <1>1, <1>4

LEMMA VisitGoes ==
  ASSUME Typed, NEW l \in job.edges, Visit(l), End(l) \in Entities
  PROVE  /\ Goes /\ pc = "visit" /\ pc' = "load" /\ Room
         /\ End(l) \notin Visited /\ Covered(End(l)) /\ Record(End(l)) # None
         /\ job' = [job EXCEPT !.edges = job.edges \ {l}, !.node = End(l)]
<1>1. /\ job \in Job /\ pc = "visit" /\ pc' = "load" /\ UNCHANGED Environment /\ Room
      /\ job.op # "search" /\ End(l) \notin Visited /\ Covered(End(l)) /\ Record(End(l)) # None
  BY DEF Typed, Visit, Going, Covered
<1>2. PICK node \in Entities : node = End(l)
  OBVIOUS
<1>3. job' = [job EXCEPT !.edges = job.edges \ {l}, !.node = node]
  BY <1>1, <1>2 DEF Visit, Job
<1>4. job' \in Job
  BY <1>1, <1>3 DEF Job
<1>5. job'.op = job.op /\ job'.query = job.query /\ job'.seed = job.seed
  BY <1>1, <1>3 DEF Job
<1>6. Goes
  BY <1>1, <1>4, <1>5 DEF Goes, Phases, Asking, Going
<1> QED
  BY <1>1, <1>2, <1>3, <1>6

LEMMA LoadGoes ==
  ASSUME Typed, Load, job.parent \in Item, job.node \in Entities
  PROVE  /\ Goes /\ pc = "load"
         /\ \/ pc' = "raised" /\ UNCHANGED job /\ docs[job.node] = None
            \/ /\ pc' = "visit" /\ docs[job.node] # None
               /\ \E item \in Item :
                    /\ item = [e |-> job.node, doc |-> docs[job.node], stub |-> FALSE,
                               path |-> Append(job.parent.path, job.node)]
                    /\ job' = [job EXCEPT !.result = Append(job.result, item),
                                          !.queue = Append(job.queue, item)]
<1>0. PICK e \in Entities : e = job.node
  OBVIOUS
<1> DEFINE item == [e |-> e, doc |-> docs[e], stub |-> FALSE,
                    path |-> Append(job.parent.path, e)]
<1>1. /\ job \in Job /\ pc = "load" /\ UNCHANGED Environment /\ job.op # "search"
  BY DEF Typed, Load, Going
<1>2. CASE docs[e] # None
  <2>1. /\ job' = [job EXCEPT !.result = Append(job.result, item),
                              !.queue = Append(job.queue, item)]
        /\ pc' = "visit"
    BY <1>0, <1>1, <1>2 DEF Load, Job
  <2>2. item \in Item
    <3>1. docs[e] \in Entry /\ Append(job.parent.path, e) \in Seq(Entities)
      BY DocsAre DEF Item
    <3> QED
      BY <1>2, <3>1, ItemIs
  <2> HIDE DEF item
  <2>3. Append(job.result, item) \in Seq(Item) /\ Append(job.queue, item) \in Seq(Item)
    BY <1>1, <2>2 DEF Job
  <2>4. job' \in Job
    BY <1>1, <2>1, <2>3 DEF Job
  <2>5. job'.op = job.op /\ job'.query = job.query /\ job'.seed = job.seed
    BY <1>1, <2>1 DEF Job
  <2>6. Goes
    BY <1>1, <2>1, <2>4, <2>5 DEF Goes, Phases, Asking, Going
  <2> QED
    BY <1>0, <1>1, <1>2, <2>1, <2>2, <2>6 DEF item
<1>3. CASE docs[e] = None
  BY <1>0, <1>1, <1>3 DEF Load, Goes, Phases, Asking, Going
<1> QED
  BY <1>2, <1>3

LEMMA ExpandedGoes ==
  ASSUME Typed, Expanded
  PROVE  /\ Goes /\ pc = "visit" /\ pc' = "expand" /\ (job.edges = {} \/ ~Room)
         /\ job' = [job EXCEPT !.edges = {}]
<1>1. /\ job \in Job /\ pc = "visit" /\ pc' = "expand" /\ UNCHANGED Environment
      /\ job.op # "search" /\ job' = [job EXCEPT !.edges = {}] /\ (job.edges = {} \/ ~Room)
  BY DEF Typed, Expanded, Going
<1>2. job' \in Job
  BY <1>1 DEF Job
<1>3. job'.op = job.op /\ job'.query = job.query /\ job'.seed = job.seed
  BY <1>1 DEF Job
<1>4. Goes
  BY <1>1, <1>2, <1>3 DEF Goes, Phases, Asking, Going
<1> QED
  BY <1>1, <1>4

LEMMA SelectGoes ==
  ASSUME Typed, Select, job.op = "related" => job.result # << >>
  PROVE  /\ Goes /\ pc = "expand" /\ (job.queue = << >> \/ ~Room)
         /\ \/ pc' = "raised" /\ UNCHANGED job
            \/ /\ pc' = "answered"
               /\ \E items \in Seq(Item) :
                    /\ job' = [job EXCEPT !.items = Selected(items)]
                    /\ items = IF job.op = "related" THEN Tail(job.result)
                               ELSE Admit(job.result)
<1> DEFINE items == IF job.op = "related" THEN Tail(job.result) ELSE Admit(job.result)
<1>1. /\ job \in Job /\ pc = "expand" /\ UNCHANGED Environment
      /\ (job.queue = << >> \/ ~Room) /\ Answer(Selected(items))
  BY DEF Typed, Select
<1>2. items \in Seq(Item)
  <2>1. job.result \in Seq(Item)
    BY <1>1 DEF Job
  <2>2. CASE job.op = "related"
    BY <2>1, <2>2
  <2>3. CASE job.op # "related"
    BY <2>1, <2>3, AdmitIs
  <2> QED
    BY <2>2, <2>3
<1> HIDE DEF items
<1>3. Selected(items) \in Seq(Item)
  BY <1>2, SelectedIs
<1>4. /\ Goes
      /\ \/ pc' = "raised" /\ UNCHANGED job
         \/ pc' = "answered" /\ job' = [job EXCEPT !.items = Selected(items)]
  BY <1>1, <1>3, AnswerGoes
<1> QED
  BY <1>1, <1>2, <1>4 DEF items

----
(* Every step keeps the invariant.                                         *)

\* The inductive invariant.
IInv ==
  /\ Typed /\ Witnessed /\ Starting /\ Searching /\ Grading /\ Scoring /\ Traversing
  /\ Visiting /\ Answered /\ Bounded

\* What a call has gone by is not taken back.
Grows ==
  /\ live' = live
  /\ DOMAIN job.snaps \subseteq DOMAIN job'.snaps
  /\ \A p \in DOMAIN job.snaps : job'.snaps[p] = job.snaps[p]
  /\ \A e \in Entities : held[e] \subseteq held'[e] /\ shown[e] \subseteq shown'[e]

\* What the index has said it has said.
LEMMA SaidStays ==
  ASSUME Grows, NEW e \in Entities, Covered(e)
  PROVE  Covered(e)' /\ Said(e) \subseteq Said(e)'
BY DEF Grows, Covered, Said

\* Edges that were there when they were gone along stay vouched for.
LEMMA LinkedStays ==
  ASSUME Typed, Grows, NEW d \in Entities, NEW e \in Entities, Linked(d, e)
  PROVE  Linked(d, e)'
<1>1. Covered(d)'
  BY SaidStays DEF Linked
<1>2. PICK f \in Members(ProjectOf[d]) :
        \E x \in Said(f) : {<<d, e>>, <<e, d>>} \cap x.links # {}
  BY DEF Linked
<1>a. PICK x \in Said(f) : {<<d, e>>, <<e, d>>} \cap x.links # {}
  BY <1>2
<1>3. f \in Entities /\ Covered(f)
  BY <1>2 DEF Members, Linked, Covered
<1>4. x \in Said(f)'
  BY <1>3, SaidStays
<1> QED
  BY <1>1, <1>a, <1>4 DEF Linked

\* What is vouched for stays so.
LEMMA VouchedStays ==
  ASSUME Typed, Grows, NEW i \in Item, Vouched(i)
  PROVE  Vouched(i)'
<1>1. i.e \in Entities /\ i.path \in Seq(Entities)
  BY DEF Item
<1>2. IF i.stub THEN Covered(i.e)' /\ i.doc \in Said(i.e)' ELSE i.doc \in held'[i.e]
  <2>1. CASE i.stub
    BY <1>1, <2>1, SaidStays DEF Vouched
  <2>2. CASE ~i.stub
    BY <1>1, <2>2 DEF Grows, Vouched
  <2> QED
    BY <2>1, <2>2
<1>3. ASSUME NEW n \in 1 .. Len(i.path) - 1
      PROVE  Linked(i.path[n], i.path[n + 1])'
  <2>1. i.path[n] \in Entities /\ i.path[n + 1] \in Entities
    BY <1>1
  <2>2. PICK d \in Entities, e \in Entities : d = i.path[n] /\ e = i.path[n + 1]
    BY <2>1
  <2>3. Linked(d, e)
    BY <2>2 DEF Vouched
  <2> QED
    BY <2>2, <2>3, LinkedStays
<1>4. Len(i.path) \in 1 .. MaxDepth + 1 /\ i.path[Len(i.path)] = i.e
  BY DEF Vouched
<1> QED
  BY <1>2, <1>3, <1>4 DEF Vouched

\* A step of a call that takes no snapshot.
LEMMA SameGrows ==
  ASSUME Typed, UNCHANGED <<live, held, shown>>, job'.snaps = job.snaps
  PROVE  Grows
BY DEF Grows

\* The candidates in order.
LEMMA PhasedAre ==
  ASSUME Typed, NEW n \in DOMAIN job.phased
  PROVE  job.phased[n] \in Graded /\ job.phased[n].e \in Entities
<1>1. job.phased \in Seq(Graded)
  BY DEF Typed, Job
<1>2. job.phased[n] \in Graded
  BY <1>1
<1> QED
  BY <1>2 DEF Graded

\* While a call rests, what it has stays vouched for.
LEMMA CallRests ==
  ASSUME IInv, Typed', Witnessed', pc' = pc, job' = job, Grows
  PROVE  IInv'
<1>1. \A i \in Item : Vouched(i) => Vouched(i)'
  BY VouchedStays DEF IInv
<1>2. \A e \in Entities : Covered(e) => Covered(e)' /\ Said(e) \subseteq Said(e)'
  BY SaidStays
<1>3. Starting' /\ Searching' /\ Bounded'
  BY DEF IInv, Starting, Searching, Bounded, Limit
<1>4. Grading'
  <2>1. SUFFICES ASSUME pc = "grade" PROVE Grading'
    BY DEF Grading
  <2>2. job.query.project \in DOMAIN job.snaps /\ Grading
    BY <2>1 DEF IInv, Starting
  <2>3. \A c \in job.graded : c.e \in Entities /\ Covered(c.e)
    BY <2>1, <2>2 DEF Grading, Members, Covered
  <2> QED
    BY <1>2, <2>1, <2>2, <2>3 DEF Grading
<1>5. Scoring'
  <2>1. SUFFICES ASSUME pc = "score" PROVE Scoring'
    BY DEF Scoring
  <2>2. job.query.project \in DOMAIN job.snaps /\ Scoring
    BY <2>1 DEF IInv, Starting
  <2>3. \A n \in DOMAIN job.phased : job.phased[n].e \in Entities
    BY PhasedAre DEF IInv
  <2>4. \A n \in DOMAIN job.phased : job.phased[n].doc \in Said(job.phased[n].e)'
    BY <1>2, <2>1, <2>2, <2>3 DEF Scoring, Covered
  <2>5. \A i \in job.ranked : Vouched(i)'
    BY <1>1, <2>1, <2>2 DEF Scoring, IInv, Typed, Job
  <2> QED
    BY <2>1, <2>2, <2>4, <2>5 DEF Scoring, Covered
<1>6. Traversing'
  BY <1>1 DEF IInv, Typed, Job, Traversing, Covered, Distinct
<1>7. Visiting'
  <2>1. SUFFICES ASSUME pc \in Going PROVE Visiting'
    BY DEF Visiting
  <2>2. /\ job.parent \in Item /\ Vouched(job.parent) /\ Covered(job.parent.e)
        /\ Len(job.parent.path) <= MaxDepth /\ job.hub = job.parent.e
        /\ \A l \in job.edges : End(l) \in Entities /\ Linked(job.hub, End(l))
        /\ pc = "load" =>
             /\ job.node \in Entities \ Visited /\ Covered(job.node)
             /\ Linked(job.hub, job.node) /\ Room
    BY <2>1 DEF IInv, Visiting
  <2>3. job.hub \in Entities
    BY <2>2 DEF Item
  <2>4. \A e \in Entities : Linked(job.hub, e) => Linked(job.hub, e)'
    <3>1. PICK d \in Entities : d = job.hub
      BY <2>3
    <3>2. \A e \in Entities : Linked(d, e) => Linked(d, e)'
      BY LinkedStays DEF IInv
    <3> QED
      BY <3>1, <3>2
  <2>5. PICK parent \in Item : parent = job.parent
    BY <2>2
  <2>6. Vouched(parent)'
    BY <1>1, <2>2, <2>5
  <2>7. \A l \in job.edges : End(l)' = End(l)
    BY DEF End
  <2>8. \A l \in job.edges : End(l)' \in Entities /\ Linked(job.hub, End(l))'
    BY <2>2, <2>4, <2>7
  <2>9. pc = "load" => /\ job.node \in Entities \ Visited' /\ Covered(job.node)'
                       /\ Linked(job.hub, job.node)' /\ Room'
    BY <2>2, <2>4 DEF Visited, Covered, Room, Limit
  <2> QED
    BY <2>2, <2>5, <2>6, <2>8, <2>9 DEF Visiting, Covered
<1>8. Answered'
  BY <1>1 DEF IInv, Typed, Job, Answered, Distinct, Eligible
<1> QED
  BY <1>3, <1>4, <1>5, <1>6, <1>7, <1>8 DEF IInv

\* A call that raises keeps what it has.
LEMMA RaisesKeeps ==
  ASSUME IInv, Goes, pc' = "raised", UNCHANGED job
  PROVE  IInv'
<1>1. Typed'
  BY GoesTyped DEF IInv
<1>2. Witnessed'
  BY DEF IInv, Goes, Witnessed, Environment
<1>3. Starting' /\ Searching' /\ Grading' /\ Scoring' /\ Traversing' /\ Visiting' /\ Answered'
  BY DEF Starting, Searching, Grading, Scoring, Traversing, Visiting, Answered, Asking, Going
<1>4. Bounded'
  BY DEF Goes, IInv, Bounded, Limit
<1> QED
  BY <1>1, <1>2, <1>3, <1>4 DEF IInv

\* Every action establishes or keeps the invariant.
LEMMA InitKeeps ==
  ASSUME Init
  PROVE  IInv
<1>1. job = NoJob /\ pc = "idle" /\ docs \in Repositories /\ index = docs
  BY DocsAssumption DEF Init
<1>2. Typed
  <2>1. /\ held \in [Entities -> SUBSET AllDocs] /\ shown \in [Entities -> SUBSET AllDocs]
        /\ quiet = FALSE /\ changes \in 0 .. MaxChanges /\ live \in BOOLEAN
    BY LimitsAssumption DEF Init
  <2>2. NoJob.op = "none"
    BY DEF NoJob
  <2> QED
    BY <1>1, <2>1, <2>2, NoJobType DEF Typed, Phases, Asking, Going
<1>3. /\ Witnessed /\ Starting /\ Searching /\ Grading /\ Scoring /\ Traversing /\ Visiting
      /\ Answered
  BY <1>1 DEF Witnessed, Starting, Searching, Grading, Scoring, Traversing, Visiting, Answered,
     Asking, Going
<1>4. Bounded
  BY <1>1, LimitsAssumption DEF Bounded, NoJob, Limit
<1> QED
  BY <1>2, <1>3, <1>4 DEF IInv

LEMMA BeginKeeps ==
  ASSUME IInv,
         \/ \E query \in Queries : Retrieve(query) \/ Search(query)
         \/ \E e \in Entities : Related(e)
  PROVE  IInv'
<1>1. Typed' /\ pc = "idle"
  BY BeginTyped DEF IInv
<1>2. PICK op \in Ops, phase \in {"snapshot", "seed"}, query \in Queries \cup {NoQuery},
           seed \in Entities \cup {None} :
        /\ Begin(op, phase, query, seed) /\ (phase = "seed" <=> op = "related")
  <2>1. CASE \E query \in Queries : Retrieve(query)
    BY <2>1, Zenon DEF Retrieve, Ops
  <2>2. CASE \E query \in Queries : Search(query)
    BY <2>2, Zenon DEF Search, Ops
  <2>3. CASE \E e \in Entities : Related(e)
    BY <2>3, Zenon DEF Related, Ops
  <2> QED
    BY <2>1, <2>2, <2>3
<1>3. /\ pc' = phase
      /\ held' = [e \in Entities |-> {docs[e]} \ {None}] /\ docs' = docs
      /\ shown' = [e \in Entities |-> {index[e]} \ {None}] /\ index' = index
  BY <1>2 DEF Begin
<1>4. /\ job'.op = op /\ job'.snaps = NoSnapshots /\ job'.at = 0 /\ job'.ranked = {}
      /\ job'.direct = 0 /\ job'.result = << >> /\ job'.queue = << >> /\ job'.items = << >>
      /\ job'.phased = << >> /\ job'.found = NothingFound /\ job'.graded = {}
      /\ job'.entries = {} /\ job'.edges = {}
  BY <1>2, NoJobType DEF Begin, Job, NoJob
<1>5. Witnessed'
  BY <1>3 DEF Witnessed
<1>6. Starting' /\ Searching' /\ Grading' /\ Scoring' /\ Traversing' /\ Visiting' /\ Answered'
  BY <1>2, <1>3, <1>4 DEF Starting, Searching, Grading, Scoring, Traversing, Visiting, Answered,
     Asking, Going
<1>7. Bounded'
  BY <1>4, LimitsAssumption DEF Bounded, Limit
<1> QED
  BY <1>1, <1>5, <1>6, <1>7 DEF IInv

LEMMA ReturnKeeps ==
  ASSUME IInv, Return
  PROVE  IInv'
<1>1. /\ job' = NoJob /\ pc' = "idle" /\ docs' = docs /\ index' = index /\ live' = live
      /\ held' = [e \in Entities |-> {}] /\ shown' = [e \in Entities |-> {}]
      /\ quiet' = FALSE /\ changes' = changes
  BY DEF Return
<1>2. Typed'
  BY <1>1, NoJobType DEF IInv, Typed, Phases, NoJob, Asking, Going
<1>3. /\ Witnessed' /\ Starting' /\ Searching' /\ Grading' /\ Scoring' /\ Traversing'
      /\ Visiting' /\ Answered'
  BY <1>1 DEF Witnessed, Starting, Searching, Grading, Scoring, Traversing, Visiting, Answered,
     Asking, Going
<1>4. Bounded'
  BY <1>1, LimitsAssumption DEF Bounded, NoJob, Limit
<1> QED
  BY <1>2, <1>3, <1>4 DEF IInv

\* What the others do.
LEMMA OthersKeep ==
  ASSUME IInv, NEW e \in Entities,
         Delete(e) \/ Index(e) \/ \E d \in DocsOf[e] : Write(e, d)
  PROVE  IInv'
<1>1. pc' = pc /\ job' = job /\ live' = live /\ quiet' = FALSE /\ changes' \in 0 .. MaxChanges
  <2>1. Changed
    BY DEF Delete, Index, Write
  <2> QED
    BY <2>1, LimitsAssumption DEF Changed, IInv, Typed
<1>2. /\ docs \in [Entities -> Entry] /\ index \in [Entities -> Entry]
      /\ held \in [Entities -> SUBSET AllDocs] /\ shown \in [Entities -> SUBSET AllDocs]
      /\ None \in Entry
  BY DEF IInv, Typed, Repositories, Entry, AllDocs
<1>3. /\ docs' \in [Entities -> Entry] /\ index' \in [Entities -> Entry]
      /\ held' \in [Entities -> SUBSET AllDocs] /\ shown' \in [Entities -> SUBSET AllDocs]
      /\ \A f \in Entities : held[f] \subseteq held'[f] /\ shown[f] \subseteq shown'[f]
      /\ pc # "idle" => \A f \in Entities :
           /\ docs'[f] # None => docs'[f] \in held'[f] \/ docs'[f] = docs[f]
           /\ index'[f] # None => index'[f] \in shown'[f] \/ index'[f] = index[f]
  <2>1. CASE Delete(e)
    <3>1. docs' = [docs EXCEPT ![e] = None] /\ index' = index /\ held' = held /\ shown' = shown
      BY <2>1 DEF Delete
    <3> QED
      BY <1>2, <3>1
  <2>2. CASE Index(e)
    <3>1. index' = [index EXCEPT ![e] = docs[e]] /\ docs' = docs /\ held' = held
      BY <2>2 DEF Index
    <3>2. \A x \in {docs[e]} \ {None} : x \in AllDocs
      BY <1>2 DEF Entry
    <3>3. CASE pc = "idle"
      <4>1. shown' = shown
        BY <2>2, <3>3 DEF Index
      <4> QED
        BY <1>2, <3>1, <3>3, <4>1
    <3>4. CASE pc # "idle"
      <4>1. shown' = [shown EXCEPT ![e] = shown[e] \cup ({docs[e]} \ {None})]
        BY <1>2, <2>2, <3>4 DEF Index
      <4> QED
        BY <1>2, <3>1, <3>2, <3>4, <4>1
    <3> QED
      BY <3>3, <3>4
  <2>3. CASE \E d \in DocsOf[e] : Write(e, d)
    <3>0. PICK d \in DocsOf[e] : Write(e, d)
      BY <2>3
    <3>1. d \in AllDocs /\ d \in Entry
      BY DEF AllDocs, Entry
    <3>2. docs' = [docs EXCEPT ![e] = d] /\ index' = index /\ shown' = shown
      BY <3>0 DEF Write
    <3>3. CASE pc = "idle"
      BY <1>2, <3>0, <3>1, <3>2, <3>3 DEF Write
    <3>4. CASE pc # "idle"
      BY <1>2, <3>0, <3>1, <3>2, <3>4 DEF Write
    <3> QED
      BY <3>3, <3>4
  <2> QED
    BY <2>1, <2>2, <2>3
<1>4. Typed'
  <2>1. docs' \in Repositories /\ index' \in Repositories
    BY <1>3 DEF Repositories, Entry, AllDocs
  <2> QED
    BY <1>1, <1>3, <2>1 DEF IInv, Typed
<1>5. Witnessed'
  BY <1>1, <1>3 DEF IInv, Witnessed
<1>6. Grows
  BY <1>1, <1>3 DEF Grows
<1> QED
  BY <1>1, <1>4, <1>5, <1>6, CallRests

LEMMA StutterKeeps ==
  ASSUME IInv, UNCHANGED vars
  PROVE  IInv'
<1>1. /\ docs' = docs /\ index' = index /\ pc' = pc /\ job' = job /\ held' = held
      /\ shown' = shown /\ quiet' = quiet /\ changes' = changes /\ live' = live
  BY DEF vars
<1>2. Typed' /\ Witnessed'
  BY <1>1 DEF IInv, Typed, Witnessed
<1>3. Grows
  BY <1>1, SameGrows DEF IInv
<1> QED
  BY <1>1, <1>2, <1>3, CallRests

\* A step of a call that is under way leaves what it had vouched for.
LEMMA GoesKeeps ==
  ASSUME IInv, Goes
  PROVE  /\ Typed' /\ Witnessed' /\ Limit' = Limit
         /\ UNCHANGED <<live, docs, held, shown>> /\ docs' = docs /\ held' = held
BY GoesTyped DEF IInv, Goes, Environment, Witnessed, Limit

LEMMA LoadSeedKeeps ==
  ASSUME IInv, LoadSeed
  PROVE  IInv'
<1>1. /\ Goes
      /\ \/ pc' = "raised" /\ UNCHANGED job
         \/ /\ pc' = "snapshot" /\ docs[job.seed] # None
            /\ \E item \in Item :
                 /\ item = [e |-> job.seed, doc |-> docs[job.seed], stub |-> FALSE,
                            path |-> <<job.seed>>]
                 /\ job' = [job EXCEPT !.result = <<item>>, !.direct = 1, !.queue = <<item>>]
  BY LoadSeedGoes DEF IInv
<1>2. CASE pc' = "raised" /\ UNCHANGED job
  BY <1>1, <1>2, RaisesKeeps
<1>3. CASE pc' = "snapshot" /\ docs[job.seed] # None /\ ~(pc' = "raised")
  <2>1. PICK item \in Item :
          /\ item = [e |-> job.seed, doc |-> docs[job.seed], stub |-> FALSE,
                     path |-> <<job.seed>>]
          /\ job' = [job EXCEPT !.result = <<item>>, !.direct = 1, !.queue = <<item>>]
    BY <1>1, <1>3
  <2>2. job \in Job /\ pc = "seed" /\ job.op = "related" /\ job.seed \in Entities
    BY DEF IInv, Typed, LoadSeed
  <2>3. /\ job'.op = "related" /\ job'.seed = job.seed /\ job'.result = <<item>>
        /\ job'.direct = 1 /\ job'.queue = <<item>> /\ job'.snaps = job.snaps
        /\ job'.at = job.at /\ job'.phased = job.phased /\ job'.items = job.items
        /\ job'.found = job.found /\ job'.graded = job.graded /\ job'.entries = job.entries
        /\ job'.edges = job.edges
    BY <2>1, <2>2 DEF Job
  <2>4. Starting'
    BY <1>3, <2>2, <2>3 DEF IInv, Starting, Asking
  <2>5. item.e = job.seed /\ Vouched(item)'
    <3>1. docs[job.seed] \in held[job.seed] /\ held' = held
      BY <1>1, <1>3, <2>2, GoesKeeps DEF IInv, Witnessed
    <3>2. Len(item.path) = 1 /\ item.path[1] = item.e /\ ~item.stub /\ item.doc \in held'[item.e]
      BY <2>1, <2>2, <3>1
    <3>3. 1 \in 1 .. MaxDepth + 1 /\ 1 .. 1 - 1 = {}
      BY LimitsAssumption
    <3>4. item.e = job.seed
      BY <2>1
    <3> QED
      BY <3>2, <3>3, <3>4 DEF Vouched
  <2>6. Traversing'
    <3>1. DOMAIN <<item>> = {1} /\ <<item>>[1] = item /\ <<item>> # << >>
      OBVIOUS
    <3> QED
      BY <1>3, <2>3, <2>5, <3>1 DEF Traversing, Distinct
  <2>7. Bounded'
    <3>1. Limit \in Nat /\ Limit' = Limit
      BY <1>1, LimitsAssumption, GoesKeeps DEF Limit
    <3>2. Len(job'.result) = 1
      BY <2>3
    <3>3. Len(job'.result) <= job'.direct + Limit'
      BY <2>3, <3>1, <3>2
    <3> QED
      BY <2>3, <3>3 DEF IInv, Bounded
  <2>8. Searching' /\ Grading' /\ Scoring' /\ Visiting' /\ Answered'
    BY <1>3 DEF Searching, Grading, Scoring, Visiting, Answered, Asking, Going
  <2> QED
    BY <1>1, <2>4, <2>6, <2>7, <2>8, GoesKeeps DEF IInv
<1> QED
  BY <1>1, <1>2, <1>3

\* The first snapshot is of the project that is asked, or of the seed.
LEMMA TakeSnapshotKeeps ==
  ASSUME IInv, TakeSnapshot
  PROVE  IInv'
<1>1. /\ Goes /\ pc = "snapshot" /\ Home \in Projects
      /\ pc' = IF job.op = "related" THEN "expand" ELSE "build"
      /\ DOMAIN job'.snaps = DOMAIN job.snaps \cup {Home}
  BY TakeSnapshotGoes DEF IInv
<1>3. job \in Job /\ job.snaps = NoSnapshots /\ DOMAIN job.snaps = {}
  BY <1>1 DEF IInv, Typed, Starting, NoSnapshots
<1>4. /\ job'.op = job.op /\ job'.seed = job.seed /\ job'.query = job.query
      /\ job'.result = job.result /\ job'.direct = job.direct /\ job'.queue = job.queue
      /\ job'.at = job.at /\ job'.phased = job.phased /\ job'.items = job.items
      /\ job'.ranked = job.ranked /\ job'.found = job.found /\ job'.graded = job.graded
  <2>1. CASE job.op = "related"
    <3>1. job' = [job EXCEPT !.snaps = WithSnapshot(job.snaps, Home)]
      BY <2>1, TakeSnapshotGoes, Zenon DEF IInv
    <3> QED
      BY <1>3, <3>1 DEF Job
  <2>2. CASE job.op # "related"
    <3>1. job' = [job EXCEPT !.snaps = WithSnapshot(job.snaps, Home),
                             !.words = job.query.words, !.tags = job.query.tags,
                             !.ids = job.query.ids, !.hubs = job.query.ids]
      BY <2>2, TakeSnapshotGoes, Zenon DEF IInv
    <3> QED
      BY <1>3, <3>1 DEF Job
  <2> QED
    BY <2>1, <2>2
<1>5. Grows
  BY <1>1, <1>3, GoesKeeps DEF Grows
<1>6. \A i \in Item : Vouched(i) => Vouched(i)'
  BY <1>5, VouchedStays DEF IInv
<1>7. Bounded'
  BY <1>1, <1>4, GoesKeeps DEF IInv, Bounded
<1>8. Grading' /\ Scoring' /\ Visiting' /\ Answered'
  BY <1>1 DEF Grading, Scoring, Visiting, Answered, Going
<1>9. CASE job.op = "related"
  <2>1. pc' = "expand" /\ Home = ProjectOf[job.seed]
    BY <1>1, <1>9 DEF Home
  <2>2. Starting' /\ Searching'
    BY <2>1 DEF Starting, Searching, Asking
  <2>3. Traversing'
    <3>1. PICK s : s = job.result
      OBVIOUS
    <3>2. s \in Seq(Item) /\ job'.result = s /\ Distinct(s)
      BY <1>1, <1>3, <1>4, <1>9, <3>1 DEF Job, IInv, Traversing
    <3>3. \A n \in DOMAIN s : Vouched(s[n]) /\ s[n].e = job.seed
      BY <1>1, <1>9, <3>1 DEF IInv, Traversing
    <3>4. \A n \in DOMAIN s : s[n] \in Item
      BY <3>2
    <3>5. \A n \in DOMAIN s : Vouched(s[n])'
      BY <1>6, <3>3, <3>4
    <3>6. \A n \in DOMAIN s : Covered(s[n].e)'
      BY <1>1, <2>1, <3>3 DEF Covered
    <3>7. /\ \A n \in DOMAIN job.queue : \E m \in DOMAIN s : job.queue[n] = s[m]
          /\ s # << >>
      BY <1>1, <1>9, <3>1 DEF IInv, Traversing
    <3> QED
      BY <1>4, <2>1, <3>2, <3>5, <3>6, <3>7 DEF Traversing, Distinct
  <2> QED
    BY <1>1, <1>7, <1>8, <2>2, <2>3, GoesKeeps DEF IInv
<1>10. CASE job.op # "related"
  <2>1. pc' = "build" /\ Home = job.query.project
    BY <1>1, <1>10 DEF Home
  <2>2. Starting'
    BY <1>1, <1>4, <1>10, <2>1 DEF IInv, Starting, Asking
  <2>3. Traversing'
    BY <2>1 DEF Traversing, Going
  <2>4. Searching'
    <3>1. job.found = NothingFound /\ job.graded = {}
      BY <1>1 DEF IInv, Starting
    <3> QED
      BY <1>4, <3>1 DEF Searching, NothingFound
  <2> QED
    BY <1>1, <1>7, <1>8, <2>2, <2>3, <2>4, GoesKeeps DEF IInv
<1> QED
  BY <1>9, <1>10

\* The questions of the sources.
LEMMA QuestionsAsk ==
  ASSUME Typed, Starting,
         \/ \E w \in Words : AskKeyword(w) \/ AskTag(w)
         \/ \E e \in Entities : AskId(e) \/ AskOutward(e)
         \/ AskInward \/ \E l \in job.edges : AskNode(l)
  PROVE  \E n \in 1 .. 4, X \in SUBSET Entities : Asks(n, X)
<1>1. job.query.project \in DOMAIN job.snaps /\ Here \subseteq Entities
  <2>1. pc \in Asking
    BY DEF AskKeyword, AskTag, AskId, AskOutward, AskInward, AskNode, Asking
  <2> QED
    BY <2>1 DEF Starting, Here, Indexed, Members
<1>2. ASSUME NEW w \in Words, AskKeyword(w) PROVE \E X \in SUBSET Entities : Asks(1, X)
  BY <1>1, <1>2, AskKeywordAsks
<1>3. ASSUME NEW w \in Words, AskTag(w) PROVE \E X \in SUBSET Entities : Asks(2, X)
  BY <1>1, <1>3, AskTagAsks
<1>4. ASSUME NEW e \in Entities, AskId(e) PROVE \E X \in SUBSET Entities : Asks(3, X)
  BY <1>1, <1>4, AskIdAsks
<1>5. ASSUME NEW e \in Entities, AskOutward(e) PROVE \E X \in SUBSET Entities : Asks(1, X)
  BY <1>1, <1>5, AskOutwardAsks
<1>6. ASSUME AskInward PROVE \E X \in SUBSET Entities : Asks(1, X)
  BY <1>1, <1>6, AskInwardAsks
<1>7. ASSUME NEW l \in job.edges, AskNode(l) PROVE \E X \in SUBSET Entities : Asks(4, X)
  BY <1>1, <1>7, AskNodeAsks
<1>8. 1 \in 1 .. 4 /\ 2 \in 1 .. 4 /\ 3 \in 1 .. 4 /\ 4 \in 1 .. 4
  OBVIOUS
<1> QED
  BY <1>2, <1>3, <1>4, <1>5, <1>6, <1>7, <1>8, Zenon

LEMMA QuestionsKeep ==
  ASSUME IInv,
         \/ \E w \in Words : AskKeyword(w) \/ AskTag(w)
         \/ \E e \in Entities : AskId(e) \/ AskOutward(e)
         \/ AskInward \/ \E l \in job.edges : AskNode(l)
  PROVE  IInv'
<1>1. PICK n \in 1 .. 4, X \in SUBSET Entities : Asks(n, X)
  BY QuestionsAsk DEF IInv
<1>2. /\ Goes /\ pc \in Asking /\ pc' \in Asking /\ X \in SUBSET Here
      /\ job'.op = job.op /\ job'.query = job.query
      /\ job'.snaps = job.snaps /\ job'.graded = job.graded /\ job'.phased = job.phased
      /\ job'.at = job.at /\ job'.ranked = job.ranked /\ job'.result = job.result
      /\ job'.direct = job.direct /\ job'.queue = job.queue /\ job'.items = job.items
      /\ job'.found = [job.found EXCEPT ![n] = job.found[n] \cup X]
  BY <1>1 DEF Asks, Elsewhere
<1>3. Starting'
  BY <1>2 DEF IInv, Starting, Asking
<1>4. Searching'
  <2>1. /\ job.graded = {} /\ job.found \in [1 .. 4 -> SUBSET Entities]
        /\ \A m \in 1 .. 4 : job.found[m] \subseteq Members(job.query.project)
    BY <1>2 DEF IInv, Searching, Typed, Job
  <2>2. X \subseteq Members(job.query.project)
    BY <1>2 DEF Here, Indexed
  <2>3. \A m \in 1 .. 4 : job'.found[m] \subseteq Members(job.query.project)
    BY <1>2, <2>1, <2>2
  <2> QED
    BY <1>2, <2>1, <2>3 DEF Searching
<1>5. Bounded'
  BY <1>2, GoesKeeps DEF IInv, Bounded
<1>6. Grading' /\ Scoring' /\ Traversing' /\ Visiting' /\ Answered'
  BY <1>2 DEF Grading, Scoring, Traversing, Visiting, Answered, Asking, Going
<1> QED
  BY <1>2, <1>3, <1>4, <1>5, <1>6, GoesKeeps DEF IInv

\* The candidates are no more than the limit.
LEMMA CutKeeps ==
  ASSUME IInv, Cut
  PROVE  IInv'
<1>1. /\ pc = "build" /\ job \in Job /\ job.graded = {}
      /\ \A n \in 1 .. 4 : job.found[n] \subseteq Members(job.query.project)
      /\ job.query.project \in DOMAIN job.snaps
      /\ job.at = 0 /\ job.ranked = {} /\ job.direct = 0 /\ job.phased = << >>
      /\ job.result = << >> /\ job.queue = << >>
  BY DEF IInv, Typed, Searching, Starting, Asking, Cut
<1>2. /\ Goes /\ pc' = "grade" /\ Found \subseteq Members(job.query.project) /\ IsFiniteSet(Found)
  BY <1>1, CutGoes DEF IInv
<1>3. PICK kept \in SUBSET Found :
        /\ Cardinality(kept) = Min({MaxCandidates, Cardinality(Found)})
        /\ job' = [job EXCEPT !.entries = kept]
  BY <1>1, CutGoes DEF IInv
<1>4. /\ job'.snaps = job.snaps /\ job'.query = job.query /\ job'.op = job.op
      /\ job'.at = job.at /\ job'.ranked = job.ranked /\ job'.phased = job.phased
      /\ job'.result = job.result /\ job'.direct = job.direct /\ job'.items = job.items
      /\ job'.queue = job.queue /\ job'.graded = {} /\ job'.entries = kept
  BY <1>1, <1>3 DEF Job
<1>5. Cardinality(kept) \in Nat /\ Cardinality(kept) <= MaxCandidates
  <2>1. Cardinality(Found) \in Nat
    BY <1>2, FS_CardinalityType
  <2> QED
    BY <1>3, <2>1, MinIs, LimitsAssumption
<1>6. Grading'
  <2>1. IsFiniteSet({}) /\ Cardinality({}) = 0
    BY FS_EmptySet
  <2> QED
    BY <1>2, <1>4, <1>5, <2>1 DEF Grading
<1>7. Starting'
  BY <1>1, <1>2, <1>4 DEF Starting
<1>8. Bounded'
  BY <1>2, <1>4, GoesKeeps DEF IInv, Bounded
<1>9. Searching' /\ Scoring' /\ Traversing' /\ Visiting' /\ Answered'
  BY <1>2 DEF Searching, Scoring, Traversing, Visiting, Answered, Asking, Going
<1> QED
  BY <1>2, <1>6, <1>7, <1>8, <1>9, GoesKeeps DEF IInv

\* A candidate gets its record, or is no more.
LEMMA GradeKeeps ==
  ASSUME IInv, NEW e \in Entities, Grade(e)
  PROVE  IInv'
<1>1. /\ pc = "grade" /\ job \in Job /\ e \in job.entries
      /\ job.query.project \in DOMAIN job.snaps
      /\ job.at = 0 /\ job.ranked = {} /\ job.direct = 0 /\ job.phased = << >>
      /\ job.result = << >> /\ job.queue = << >>
      /\ job.entries \subseteq Members(job.query.project)
      /\ IsFiniteSet(job.graded)
      /\ Cardinality(job.graded) + Cardinality(job.entries) <= MaxCandidates
      /\ \A c \in job.graded :
           c.e \in Members(job.query.project) /\ c.e \notin job.entries /\ c.doc \in Said(c.e)
      /\ \A c, d \in job.graded : c.e = d.e => c = d
  BY DEF IInv, Typed, Starting, Grading, Grade
<1>2. Covered(e)
  BY <1>1 DEF Covered, Members
<1>3. /\ Goes /\ pc' = "grade"
      /\ job' = [job EXCEPT !.entries = job.entries \ {e},
                            !.graded = job.graded \cup GradedAs(e)]
  BY <1>2, GradeGoes DEF IInv
<1>4. /\ job'.snaps = job.snaps /\ job'.query = job.query /\ job'.op = job.op
      /\ job'.at = job.at /\ job'.ranked = job.ranked /\ job'.phased = job.phased
      /\ job'.result = job.result /\ job'.direct = job.direct /\ job'.items = job.items
      /\ job'.queue = job.queue /\ job'.graded = job.graded \cup GradedAs(e)
      /\ job'.entries = job.entries \ {e}
  BY <1>1, <1>3 DEF Job
<1>5. PICK graded, entries : graded = job.graded /\ entries = job.entries
  OBVIOUS
<1>6. /\ IsFiniteSet(entries) /\ Cardinality(entries) \in Nat /\ Cardinality(graded) \in Nat
      /\ IsFiniteSet(graded) /\ IsFiniteSet(entries \ {e})
      /\ Cardinality(entries \ {e}) = Cardinality(entries) - 1
  <2>1. entries \subseteq Entities
    BY <1>1, <1>5 DEF Members
  <2>2. IsFiniteSet(entries)
    BY <2>1, EntitiesAssumption, FS_Subset
  <2> QED
    BY <1>1, <1>5, <2>2, FS_CardinalityType, FS_RemoveElement
<1>7. \A c \in GradedAs(e) : c.e = e /\ c.doc \in Said(e)
  BY <1>1, <1>2, RecordIs DEF GradedAs, IInv
<1>8. PICK new : new = GradedAs(e)
  OBVIOUS
<1>9. PICK only : new = {} \/ new = {only}
  BY <1>8 DEF GradedAs
<1>10. /\ IsFiniteSet(graded \cup new)
       /\ Cardinality(graded \cup new) \in Nat
       /\ Cardinality(graded \cup new) <= Cardinality(graded) + 1
  <2>1. CASE new = {}
    <3>1. PICK u : u = graded \cup new
      OBVIOUS
    <3>2. u = graded
      BY <2>1, <3>1
    <3>3. IsFiniteSet(u) /\ Cardinality(u) \in Nat /\ Cardinality(u) <= Cardinality(graded) + 1
      BY <1>6, <3>2
    <3> QED
      BY <3>1, <3>3, Zenon
  <2>2. CASE new = {only}
    <3>1. /\ IsFiniteSet(graded \cup {only})
          /\ Cardinality(graded \cup {only}) =
               IF only \in graded THEN Cardinality(graded) ELSE Cardinality(graded) + 1
      BY <1>6, FS_AddElement
    <3>2. PICK k \in Nat : k = Cardinality(graded)
      BY <1>6
    <3>3. Cardinality(graded \cup {only}) \in Nat /\ Cardinality(graded \cup {only}) <= k + 1
      BY <3>1, <3>2
    <3> QED
      BY <2>2, <3>1, <3>2, <3>3
  <2> QED
    BY <1>9, <2>1, <2>2
<1>11. \A f \in Entities : Covered(f) => Said(f) \subseteq Said(f)'
  BY <1>3, <1>4, GoesKeeps, SameGrows, SaidStays DEF IInv
<1>12. Grading'
  <2>1. job'.entries \subseteq Members(job'.query.project) /\ IsFiniteSet(job'.graded)
    BY <1>1, <1>4, <1>5, <1>8, <1>10
  <2>2. Cardinality(job'.graded) + Cardinality(job'.entries) <= MaxCandidates
    <3>1. Cardinality(graded) + Cardinality(entries) <= MaxCandidates
      BY <1>1, <1>5
    <3>2. job'.graded = graded \cup new /\ job'.entries = entries \ {e}
      BY <1>4, <1>5, <1>8
    <3> QED
      BY <1>6, <1>10, <3>1, <3>2, LimitsAssumption
  <2>3. ASSUME NEW c \in job'.graded
        PROVE  /\ c.e \in Members(job'.query.project) /\ c.e \notin job'.entries
               /\ c.doc \in Said(c.e)'
    <3>1. CASE c \in job.graded
      <4>1. c.e \in Entities /\ Covered(c.e) /\ c.doc \in Said(c.e)
        BY <1>1, <3>1 DEF Members, Covered
      <4> QED
        BY <1>1, <1>4, <1>11, <3>1, <4>1
    <3>2. CASE c \in GradedAs(e)
      BY <1>1, <1>2, <1>4, <1>7, <1>11, <3>2
    <3> QED
      BY <1>4, <3>1, <3>2
  <2>4. \A c, d \in job'.graded : c.e = d.e => c = d
    BY <1>1, <1>4, <1>7, <1>8, <1>9
  <2> QED
    BY <2>1, <2>2, <2>3, <2>4 DEF Grading
<1>13. Starting'
  BY <1>1, <1>3, <1>4 DEF Starting
<1>14. Bounded'
  BY <1>3, <1>4, GoesKeeps DEF IInv, Bounded
<1>15. Searching' /\ Scoring' /\ Traversing' /\ Visiting' /\ Answered'
  BY <1>3 DEF Searching, Scoring, Traversing, Visiting, Answered, Asking, Going
<1> QED
  BY <1>3, <1>12, <1>13, <1>14, <1>15, GoesKeeps DEF IInv

\* All candidates that have a record wait to be scored.
LEMMA PhaseKeeps ==
  ASSUME IInv, Phase
  PROVE  IInv'
<1>1. /\ pc = "grade" /\ job \in Job /\ job.entries = {}
      /\ job.query.project \in DOMAIN job.snaps
      /\ job.at = 0 /\ job.ranked = {} /\ IsFiniteSet(job.graded)
      /\ Cardinality(job.graded) + Cardinality(job.entries) <= MaxCandidates
      /\ \A c \in job.graded : c.e \in Members(job.query.project) /\ c.doc \in Said(c.e)
      /\ \A c, d \in job.graded : c.e = d.e => c = d
  BY DEF IInv, Typed, Starting, Grading, Phase
<1>2. Goes /\ pc' = "score"
  BY <1>1, PhaseGoes DEF IInv
<1>3. PICK phased \in Seq(Graded) :
        /\ job' = [job EXCEPT !.phased = phased]
        /\ Len(phased) = Cardinality(job.graded)
        /\ \A m, n \in DOMAIN phased : phased[m].e = phased[n].e => m = n
        /\ \A n \in DOMAIN phased : phased[n] \in job.graded
  BY <1>1, PhaseGoes DEF IInv
<1>4. /\ job'.snaps = job.snaps /\ job'.query = job.query /\ job'.op = job.op
      /\ job'.at = 0 /\ job'.ranked = {} /\ job'.phased = phased
      /\ job'.result = job.result /\ job'.direct = job.direct /\ job'.items = job.items
  BY <1>1, <1>3 DEF Job
<1>5. \A f \in Entities : Covered(f) => Said(f) \subseteq Said(f)'
  BY <1>2, <1>4, GoesKeeps, SameGrows, SaidStays DEF IInv
<1>6. Scoring'
  <2>1. ASSUME NEW n \in DOMAIN phased
        PROVE  ProjectOf[phased[n].e] = job.query.project /\ phased[n].doc \in Said(phased[n].e)'
    <3>1. /\ phased[n].e \in Entities /\ ProjectOf[phased[n].e] = job.query.project
          /\ phased[n].doc \in Said(phased[n].e)
      BY <1>1, <1>3 DEF Members
    <3> QED
      BY <1>1, <1>5, <3>1 DEF Covered
  <2>2. IsFiniteSet({})
    BY FS_EmptySet
  <2> QED
    BY <1>3, <1>4, <2>1, <2>2 DEF Scoring
<1>7. Starting'
  BY <1>1, <1>2, <1>4 DEF Starting, Asking
<1>8. Bounded'
  <2>1. job'.at + Len(job'.phased) <= MaxCandidates
    <3>1. Cardinality({}) = 0 /\ Cardinality(job.graded) \in Nat
      BY <1>1, FS_EmptySet, FS_CardinalityType
    <3> QED
      BY <1>1, <1>3, <1>4, <3>1, LimitsAssumption
  <2> QED
    BY <1>2, <1>4, <2>1, GoesKeeps DEF IInv, Bounded
<1>9. Searching' /\ Grading' /\ Traversing' /\ Visiting' /\ Answered'
  BY <1>2 DEF Searching, Grading, Traversing, Visiting, Answered, Asking, Going
<1> QED
  BY <1>2, <1>6, <1>7, <1>8, <1>9, GoesKeeps DEF IInv

\* A candidate is taken: nothing, or one item of its own, joins those ranked.
LEMMA ScoredKeeps ==
  ASSUME IInv, pc = "score", pc' = "score", job.phased # << >>, UNCHANGED Environment,
         NEW items \in SUBSET Item, job' = Scored(items),
         \A i \in items : i.e = Foremost /\ Vouched(i),
         \A i, j \in items : i = j
  PROVE  IInv'
<1>1. /\ Goes /\ Foremost = job.phased[1].e /\ Foremost \in Entities
      /\ 1 \in DOMAIN job.phased
      /\ job'.phased = Tail(job.phased) /\ job'.at = job.at + 1
      /\ Len(job'.phased) = Len(job.phased) - 1
      /\ \A n \in DOMAIN job'.phased :
           n + 1 \in DOMAIN job.phased /\ job'.phased[n] = job.phased[n + 1]
      /\ job'.ranked = job.ranked \cup items
      /\ job'.snaps = job.snaps
  BY ScoredGoes DEF IInv
<1>2. /\ job \in Job /\ job' \in Job /\ job'.result = job.result /\ job'.direct = job.direct
      /\ job'.items = job.items /\ job'.query = job.query
  BY <1>1 DEF Scored, Job, IInv, Typed, Goes
<1>3. Grows
  BY <1>1, GoesKeeps, SameGrows DEF IInv
<1>4. /\ \A i \in Item : Vouched(i) => Vouched(i)'
      /\ \A f \in Entities : Covered(f) => Said(f) \subseteq Said(f)'
  BY <1>3, VouchedStays, SaidStays DEF IInv
<1>5. /\ job.query.project \in DOMAIN job.snaps
      /\ \A m, n \in DOMAIN job.phased : job.phased[m].e = job.phased[n].e => m = n
      /\ \A n \in DOMAIN job.phased :
           /\ ProjectOf[job.phased[n].e] = job.query.project
           /\ job.phased[n].doc \in Said(job.phased[n].e)
           /\ job.phased[n].e \in Entities
      /\ IsFiniteSet(job.ranked)
      /\ \A i \in job.ranked :
           Vouched(i) /\ Covered(i.e) /\ \A n \in DOMAIN job.phased : job.phased[n].e # i.e
      /\ \A i, j \in job.ranked : i.e = j.e => i = j
  BY PhasedAre DEF IInv, Scoring, Starting
<1>6. \A n \in DOMAIN job'.phased : n \in Nat \ {0} /\ n + 1 # 1
  <2>1. job'.phased \in Seq(Graded)
    BY <1>2 DEF Job
  <2> QED
    BY <2>1
<1>7. /\ job'.query.project \in DOMAIN job'.snaps
      /\ \A m, n \in DOMAIN job'.phased : job'.phased[m].e = job'.phased[n].e => m = n
      /\ \A n \in DOMAIN job'.phased :
           /\ ProjectOf[job'.phased[n].e] = job'.query.project
           /\ (job.phased[n].doc \in Said(job.phased[n].e))'
  <2>1. ASSUME NEW n \in DOMAIN job'.phased
        PROVE  /\ ProjectOf[job'.phased[n].e] = job'.query.project
               /\ (job.phased[n].doc \in Said(job.phased[n].e))'
    <3>1. PICK c : c = job.phased[n + 1] /\ c = job'.phased[n]
      BY <1>1
    <3>2. /\ c.e \in Entities /\ ProjectOf[c.e] = job.query.project /\ c.doc \in Said(c.e)
      BY <1>1, <1>5, <3>1
    <3>3. c.doc \in Said(c.e)'
      BY <1>4, <1>5, <3>2 DEF Covered
    <3> QED
      BY <1>2, <3>1, <3>2, <3>3 DEF Said
  <2> QED
    BY <1>1, <1>2, <1>5, <1>6, <2>1
<1>8. IsFiniteSet(job'.ranked)
  <2>1. IsFiniteSet(items)
    <3>1. CASE items = {}
      BY <3>1, FS_EmptySet
    <3>2. CASE items # {}
      <4>1. PICK i \in items : items = {i}
        BY <3>2
      <4> QED
        BY <4>1, FS_Singleton
    <3> QED
      BY <3>1, <3>2
  <2>2. PICK old : old = job.ranked /\ IsFiniteSet(old)
    BY <1>5
  <2>3. IsFiniteSet(old \cup items)
    BY <2>1, <2>2, FS_Union
  <2> QED
    BY <1>1, <2>2, <2>3
<1>9. ASSUME NEW i \in job'.ranked
      PROVE  Vouched(i)' /\ Covered(i.e)' /\ \A n \in DOMAIN job'.phased : job'.phased[n].e # i.e
  <2>0. i \in Item
    BY <1>2 DEF Job
  <2>1. Vouched(i) /\ Covered(i.e)
    <3>1. CASE i \in job.ranked
      BY <1>5, <3>1
    <3>2. CASE i \in items
      BY <1>1, <1>5, <3>2 DEF Covered
    <3> QED
      BY <1>1, <3>1, <3>2
  <2>2. \A n \in DOMAIN job'.phased : job'.phased[n].e # i.e
    <3>1. CASE i \in job.ranked
      BY <1>1, <1>5, <3>1
    <3>2. CASE i \in items
      BY <1>1, <1>5, <1>6, <3>2
    <3> QED
      BY <1>1, <3>1, <3>2
  <2> QED
    BY <1>1, <1>4, <2>0, <2>1, <2>2 DEF Covered
<1>10. \A i, j \in job'.ranked : i.e = j.e => i = j
  BY <1>1, <1>5
<1>11. Scoring'
  <2>1. \A n \in DOMAIN job'.phased :
          /\ ProjectOf[job'.phased[n].e] = job'.query.project
          /\ (job.phased[n].doc \in Said(job.phased[n].e))'
    BY <1>7, Zenon
  <2>2. /\ \A m, n \in DOMAIN job'.phased : job'.phased[m].e = job'.phased[n].e => m = n
        /\ \A i \in job'.ranked :
             Vouched(i)' /\ Covered(i.e)' /\ \A n \in DOMAIN job'.phased : job'.phased[n].e # i.e
    BY <1>7, <1>9, Zenon
  <2> QED
    BY <1>8, <1>10, <2>1, <2>2, Zenon DEF Scoring
<1>12. Bounded'
  <2>1. job.at \in Nat /\ Len(job.phased) \in Nat
    BY <1>2 DEF Job
  <2>2. job'.at + Len(job'.phased) = job.at + Len(job.phased)
    BY <1>1, <2>1
  <2> QED
    BY <1>1, <1>2, <2>2, GoesKeeps DEF IInv, Bounded
<1>13. Starting'
  BY <1>7 DEF Starting, Asking
<1>14. Searching' /\ Grading' /\ Traversing' /\ Visiting' /\ Answered'
  BY DEF Searching, Grading, Traversing, Visiting, Answered, Asking, Going
<1> QED
  BY <1>1, <1>11, <1>12, <1>13, <1>14, GoesKeeps DEF IInv

LEMMA SkipContextKeeps ==
  ASSUME IInv, SkipContext
  PROVE  IInv'
BY ScoredKeeps DEF SkipContext

\* An item by itself is vouched for when its document is.
LEMMA AloneIsVouched ==
  ASSUME NEW e \in Entities, NEW d \in Entry, d # None, NEW stub \in BOOLEAN,
         IF stub THEN Covered(e) /\ d \in Said(e) ELSE d \in held[e]
  PROVE  LET i == [e |-> e, doc |-> d, stub |-> stub, path |-> <<e>>]
         IN  i \in Item /\ Vouched(i)
<1>1. PICK i : i = [e |-> e, doc |-> d, stub |-> stub, path |-> <<e>>]
  OBVIOUS
<1>2. i \in Item
  <2>1. <<e>> \in Seq(Entities)
    OBVIOUS
  <2> QED
    BY <1>1, <2>1, ItemIs
<1>3. i.e = e /\ i.doc = d /\ i.stub = stub /\ Len(i.path) = 1 /\ i.path[1] = e
  BY <1>1
<1>4. 1 \in 1 .. MaxDepth + 1 /\ 1 .. 1 - 1 = {}
  BY LimitsAssumption
<1>5. Vouched(i)
  <2>1. CASE stub = TRUE
    BY <1>3, <1>4, <2>1 DEF Vouched
  <2>2. CASE stub = FALSE
    BY <1>3, <1>4, <2>2 DEF Vouched
  <2> QED
    BY <2>1, <2>2
<1> QED
  BY <1>1, <1>2, <1>5

\* The candidate whose turn it is has the record it was given.
LEMMA ForemostIs ==
  ASSUME IInv, pc = "score", job.phased # << >>
  PROVE  /\ Foremost \in Entities /\ Covered(Foremost) /\ Foremost = job.phased[1].e
         /\ 1 \in DOMAIN job.phased /\ Head(job.phased) = job.phased[1]
         /\ job.phased[1] \in Graded /\ job.phased[1].doc \in Said(Foremost)
<1>1. job.phased \in Seq(Graded) /\ job.phased # << >>
  BY DEF IInv, Typed, Job
<1>2. /\ Head(job.phased) = job.phased[1] /\ 1 \in DOMAIN job.phased
      /\ job.phased[1] \in Graded
  BY <1>1
<1>3. Foremost = job.phased[1].e /\ Foremost \in Entities
  BY <1>2 DEF Foremost, Graded
<1> QED
  BY <1>2, <1>3 DEF IInv, Scoring, Starting, Covered

LEMMA KeepStubKeeps ==
  ASSUME IInv, KeepStub
  PROVE  IInv'
<1>1. /\ pc = "score" /\ pc' = "score" /\ job.phased # << >> /\ UNCHANGED Environment
      /\ job' = Scored({[e |-> Foremost, doc |-> Head(job.phased).doc, stub |-> TRUE,
                         path |-> <<Foremost>>]})
  BY DEF KeepStub
<1>2. PICK e \in Entities, d \in Entry :
        e = Foremost /\ d = Head(job.phased).doc /\ d # None /\ Covered(e) /\ d \in Said(e)
  <2>1. /\ Foremost \in Entities /\ Covered(Foremost) /\ Head(job.phased) = job.phased[1]
        /\ job.phased[1] \in Graded /\ job.phased[1].doc \in Said(Foremost)
    BY <1>1, ForemostIs
  <2>2. job.phased[1].doc \in AllDocs
    BY <2>1 DEF Graded
  <2>3. job.phased[1].doc # None
    BY <2>2, DocIs DEF Doc, None
  <2> QED
    BY <2>1, <2>2, <2>3 DEF Entry
<1>3. PICK i : i = [e |-> e, doc |-> d, stub |-> TRUE, path |-> <<e>>]
  OBVIOUS
<1>4. i \in Item /\ Vouched(i)
  BY <1>2, <1>3, AloneIsVouched
<1>5. PICK items \in SUBSET Item : items = {i}
  BY <1>4
<1>6. job' = Scored(items) /\ i.e = Foremost
  BY <1>1, <1>2, <1>3, <1>5
<1>7. (\A x \in items : x.e = Foremost /\ Vouched(x)) /\ \A x, y \in items : x = y
  BY <1>4, <1>5, <1>6
<1> QED
  BY <1>1, <1>6, <1>7, ScoredKeeps

LEMMA RefineKeeps ==
  ASSUME IInv, Refine
  PROVE  IInv'
<1>1. /\ pc = "score" /\ pc' = "score" /\ job.phased # << >> /\ UNCHANGED Environment
      /\ docs[Foremost] # None
      /\ job' = Scored({[e |-> Foremost, doc |-> docs[Foremost], stub |-> FALSE,
                         path |-> <<Foremost>>]})
  BY DEF Refine
<1>2. PICK e \in Entities, d \in Entry :
        e = Foremost /\ d = docs[Foremost] /\ d # None /\ d \in held[e]
  <2>1. Foremost \in Entities
    BY <1>1, ForemostIs
  <2>2. docs[Foremost] \in Entry
    BY <2>1, DocsAre DEF IInv
  <2> QED
    BY <1>1, <2>1, <2>2 DEF IInv, Witnessed
<1>3. PICK i : i = [e |-> e, doc |-> d, stub |-> FALSE, path |-> <<e>>]
  OBVIOUS
<1>4. i \in Item /\ Vouched(i)
  BY <1>2, <1>3, AloneIsVouched
<1>5. PICK items \in SUBSET Item : items = {i}
  BY <1>4
<1>6. job' = Scored(items) /\ i.e = Foremost
  BY <1>1, <1>2, <1>3, <1>5
<1>7. (\A x \in items : x.e = Foremost /\ Vouched(x)) /\ \A x, y \in items : x = y
  BY <1>4, <1>5, <1>6
<1> QED
  BY <1>1, <1>6, <1>7, ScoredKeeps

LEMMA RefineRaisesKeeps ==
  ASSUME IInv, RefineRaises
  PROVE  IInv'
BY RefineRaisesGoes, RaisesKeeps DEF IInv

\* What is admitted of a list without repetitions has none, and is eligible.
LEMMA AdmittedAre ==
  ASSUME NEW s \in Seq(Item), Distinct(s), \A n \in DOMAIN s : Vouched(s[n])
  PROVE  /\ Admit(s) \in Seq(Item) /\ Distinct(Admit(s))
         /\ \A n \in DOMAIN Admit(s) : Vouched(Admit(s)[n]) /\ Eligible(Admit(s)[n])
<1>1. PICK at \in [DOMAIN Admit(s) -> DOMAIN s] :
        /\ \A m, n \in DOMAIN Admit(s) : at[m] = at[n] => m = n
        /\ \A n \in DOMAIN Admit(s) : Admit(s)[n] = s[at[n]] /\ Eligible(s[at[n]])
  BY AdmitIs
<1>2. Admit(s) \in Seq(Item)
  BY AdmitIs
<1> QED
  BY <1>1, <1>2 DEF Distinct

\* A call that answers with the first of a list.
LEMMA AnswersKeep ==
  ASSUME IInv, Goes, pc' = "answered", NEW s \in Seq(Item),
         job' = [job EXCEPT !.items = Selected(s)],
         Distinct(s), \A n \in DOMAIN s : Vouched(s[n]),
         job.op # "related" => \A n \in DOMAIN s : Eligible(s[n])
  PROVE  IInv'
<1>1. job \in Job
  BY DEF IInv, Typed
<1>2. PICK t \in Seq(Item) : t = Selected(s)
  BY SelectedIs
<1>3. /\ Len(t) <= TopN /\ DOMAIN t \subseteq DOMAIN s
      /\ \A n \in DOMAIN t : t[n] = s[n]
  BY <1>2, SelectedIs
<1>4. /\ job'.items = t /\ job'.snaps = job.snaps /\ job'.op = job.op /\ job'.query = job.query
      /\ job'.at = job.at /\ job'.phased = job.phased /\ job'.result = job.result
      /\ job'.direct = job.direct
  BY <1>1, <1>2 DEF Job
<1>5. \A i \in Item : Vouched(i) => Vouched(i)'
  BY <1>4, GoesKeeps, SameGrows, VouchedStays DEF IInv
<1>6. \A i \in Item : Eligible(i) => Eligible(i)'
  BY <1>4 DEF Eligible
<1>7. Answered'
  <2>1. Distinct(t)
    BY <1>3 DEF Distinct
  <2>2. \A n \in DOMAIN t : t[n] \in Item /\ Vouched(t[n]) /\ (job.op # "related" => Eligible(t[n]))
    BY <1>2, <1>3
  <2>3. \A n \in DOMAIN t : Vouched(t[n])' /\ (job'.op # "related" => Eligible(t[n])')
    BY <1>4, <1>5, <1>6, <2>2
  <2> QED
    BY <1>4, <2>1, <2>3 DEF Answered, Distinct
<1>8. Bounded'
  BY <1>3, <1>4, GoesKeeps DEF IInv, Bounded
<1>9. Starting' /\ Searching' /\ Grading' /\ Scoring' /\ Traversing' /\ Visiting'
  BY DEF Starting, Searching, Grading, Scoring, Traversing, Visiting, Asking, Going
<1> QED
  BY <1>7, <1>8, <1>9, GoesKeeps DEF IInv

\* The ranking is what was ranked, in order; search admits and cuts it.
LEMMA RankKeeps ==
  ASSUME IInv, Rank
  PROVE  IInv'
<1>1. /\ pc = "score" /\ job \in Job /\ IsFiniteSet(job.ranked)
      /\ \A i \in job.ranked : Vouched(i) /\ Covered(i.e)
      /\ \A i, j \in job.ranked : i.e = j.e => i = j
  BY DEF IInv, Typed, Rank, Scoring
<1>2. /\ Goes
      /\ \/ pc' = "raised" /\ UNCHANGED job
         \/ /\ pc' = "answered" /\ job.op = "search"
            /\ job' = [job EXCEPT !.items = Selected(Admit(Ranked))]
         \/ /\ pc' = "expand" /\ job.op = "retrieve"
            /\ job' = [job EXCEPT !.result = Ranked, !.direct = Len(Ranked),
                                  !.queue = Ranked]
  BY <1>1, RankGoes DEF IInv
<1>3. PICK s \in Seq(Item) :
        /\ s = Ranked
        /\ \A n \in DOMAIN s : s[n] \in job.ranked
        /\ \A m, n \in DOMAIN s : s[m] = s[n] => m = n
  BY <1>1, RankedIs DEF IInv
<1>4. Distinct(s) /\ \A n \in DOMAIN s : Vouched(s[n]) /\ Covered(s[n].e)
  BY <1>1, <1>3 DEF Distinct
<1>5. CASE pc' = "raised" /\ UNCHANGED job
  BY <1>2, <1>5, RaisesKeeps
<1>6. CASE /\ pc' = "answered" /\ job.op = "search"
           /\ job' = [job EXCEPT !.items = Selected(Admit(Ranked))]
  <2>1. PICK a \in Seq(Item) :
          /\ a = Admit(s) /\ Distinct(a)
          /\ \A n \in DOMAIN a : Vouched(a[n]) /\ Eligible(a[n])
    BY <1>4, AdmittedAre
  <2>2. job' = [job EXCEPT !.items = Selected(a)]
    BY <1>3, <1>6, <2>1
  <2> QED
    BY <1>2, <1>6, <2>1, <2>2, AnswersKeep
<1>7. CASE /\ pc' = "expand" /\ job.op = "retrieve"
           /\ job' = [job EXCEPT !.result = Ranked, !.direct = Len(Ranked), !.queue = Ranked]
  <2>1. /\ job'.result = s /\ job'.direct = Len(s) /\ job'.queue = s /\ job'.op = job.op
        /\ job'.snaps = job.snaps /\ job'.at = job.at /\ job'.phased = job.phased
        /\ job'.items = job.items
    BY <1>1, <1>3, <1>7 DEF Job
  <2>2. \A i \in Item : Vouched(i) => Vouched(i)'
    BY <1>2, <2>1, GoesKeeps, SameGrows, VouchedStays DEF IInv
  <2>3. \A n \in DOMAIN s : s[n] \in Item /\ Vouched(s[n])' /\ Covered(s[n].e)'
    BY <1>4, <2>1, <2>2 DEF Covered
  <2>4. Traversing'
    BY <1>4, <1>7, <2>1, <2>3 DEF Traversing, Distinct
  <2>5. Bounded'
    <3>1. Limit \in Nat /\ Limit' = Limit /\ Len(s) \in Nat
      BY <1>2, LimitsAssumption, GoesKeeps DEF Limit
    <3>2. Len(job'.result) <= job'.direct + Limit'
      BY <2>1, <3>1
    <3> QED
      BY <2>1, <3>2 DEF IInv, Bounded
  <2>6. Starting' /\ Searching' /\ Grading' /\ Scoring' /\ Visiting' /\ Answered'
    BY <1>7 DEF Starting, Searching, Grading, Scoring, Visiting, Answered, Asking, Going
  <2> QED
    BY <1>2, <2>4, <2>5, <2>6, GoesKeeps DEF IInv
<1> QED
  BY <1>2, <1>5, <1>6, <1>7

\* related answers without its seed, retrieve with what is admitted.
LEMMA SelectKeeps ==
  ASSUME IInv, Select
  PROVE  IInv'
<1>1. pc = "expand" /\ job \in Job /\ (job.op = "related" => job.result # << >>)
  BY DEF IInv, Typed, Traversing, Select
<1>2. /\ Goes
      /\ \/ pc' = "raised" /\ UNCHANGED job
         \/ /\ pc' = "answered"
            /\ \E items \in Seq(Item) :
                 /\ job' = [job EXCEPT !.items = Selected(items)]
                 /\ items = IF job.op = "related" THEN Tail(job.result)
                            ELSE Admit(job.result)
  BY <1>1, SelectGoes DEF IInv
<1>3. PICK s \in Seq(Item) : s = job.result
  BY <1>1 DEF Job
<1>4. Distinct(s) /\ \A n \in DOMAIN s : Vouched(s[n])
  BY <1>1, <1>3 DEF IInv, Traversing
<1>5. CASE pc' = "raised" /\ UNCHANGED job
  BY <1>2, <1>5, RaisesKeeps
<1>6. ASSUME pc' = "answered", NEW items \in Seq(Item),
             job' = [job EXCEPT !.items = Selected(items)],
             items = IF job.op = "related" THEN Tail(job.result) ELSE Admit(job.result)
      PROVE  IInv'
  <2>1. CASE job.op = "related"
    <3>1. /\ items = Tail(s) /\ s # << >>
          /\ \A n \in DOMAIN items : n + 1 \in DOMAIN s /\ items[n] = s[n + 1] /\ n \in Nat
      BY <1>1, <1>3, <1>6, <2>1
    <3>2. Distinct(items) /\ \A n \in DOMAIN items : Vouched(items[n])
      BY <1>4, <3>1 DEF Distinct
    <3> QED
      BY <1>2, <1>6, <2>1, <3>2, AnswersKeep
  <2>2. CASE job.op # "related"
    <3>1. items = Admit(s)
      BY <1>3, <1>6, <2>2
    <3>2. /\ Distinct(items)
          /\ \A n \in DOMAIN items : Vouched(items[n]) /\ Eligible(items[n])
      BY <1>4, <3>1, AdmittedAre
    <3> QED
      BY <1>2, <1>6, <3>2, AnswersKeep
  <2> QED
    BY <2>1, <2>2
<1> QED
  BY <1>2, <1>5, <1>6

\* The traverser's part of the invariant, while it stays on its list.
LEMMA TraversesOn ==
  ASSUME IInv, Goes, pc \in Going \cup {"expand"}, pc' \in Going \cup {"expand"}, Grows,
         job'.result = job.result, job'.at = job.at, job'.phased = job.phased,
         job'.direct = job.direct, job'.items = job.items,
         \A n \in DOMAIN job'.queue : \E m \in DOMAIN job.queue : job'.queue[n] = job.queue[m]
  PROVE  /\ Typed' /\ Witnessed' /\ Starting' /\ Searching' /\ Grading' /\ Scoring'
         /\ Traversing' /\ Answered' /\ Bounded'
         /\ Visited' = Visited /\ Room' = Room
         /\ \A i \in Item : Vouched(i) => Vouched(i)'
         /\ \A d, e \in Entities : Linked(d, e) => Linked(d, e)'
<1>1. PICK s \in Seq(Item) : s = job.result
  BY DEF IInv, Typed, Job
<1>2. /\ Distinct(s)
      /\ \A n \in DOMAIN s : Vouched(s[n]) /\ Covered(s[n].e)
      /\ \A n \in DOMAIN job.queue : \E m \in DOMAIN s : job.queue[n] = s[m]
      /\ job.op = "related" => s # << >>
  BY <1>1 DEF IInv, Traversing, Going
<1>3. \A i \in Item : Vouched(i) => Vouched(i)'
  BY VouchedStays DEF IInv
<1>4. \A n \in DOMAIN s : s[n] \in Item /\ Vouched(s[n])' /\ Covered(s[n].e)'
  BY <1>2, <1>3 DEF Covered, Grows
<1>5. \A n \in DOMAIN job'.queue : \E m \in DOMAIN s : job'.queue[n] = s[m]
  BY <1>2
<1>6. Traversing'
  BY <1>1, <1>2, <1>4, <1>5 DEF Traversing, Distinct, Goes, Going
<1>7. Starting' /\ Searching' /\ Grading' /\ Scoring' /\ Answered'
  BY DEF Starting, Searching, Grading, Scoring, Answered, Asking, Going
<1>8. Bounded'
  BY GoesKeeps DEF IInv, Bounded
<1>9. \A d, e \in Entities : Linked(d, e) => Linked(d, e)'
  BY LinkedStays DEF IInv
<1>10. Visited' = Visited /\ Room' = Room
  BY DEF Visited, Room, Limit, Goes
<1> QED
  BY <1>3, <1>6, <1>7, <1>8, <1>9, <1>10, GoesKeeps

\* What waits to be expanded is part of what was reached.
LEMMA QueuedAre ==
  ASSUME IInv, pc = "expand", NEW n \in DOMAIN job.queue
  PROVE  job.queue[n] \in Item /\ Vouched(job.queue[n]) /\ Covered(job.queue[n].e)
<1>1. PICK m \in DOMAIN job.result : job.queue[n] = job.result[m]
  BY DEF IInv, Traversing
<1>2. job.result \in Seq(Item)
  BY DEF IInv, Typed, Job
<1>3. Vouched(job.result[m]) /\ Covered(job.result[m].e)
  BY DEF IInv, Traversing
<1> QED
  BY <1>1, <1>2, <1>3

\* What a parent at hand is.
LEMMA ParentIs ==
  ASSUME IInv, pc \in Going
  PROVE  /\ job.parent \in Item /\ Vouched(job.parent) /\ Covered(job.parent.e)
         /\ Len(job.parent.path) <= MaxDepth /\ job.hub = job.parent.e
         /\ job.hub \in Entities /\ Covered(job.hub)
         /\ \A l \in job.edges : End(l) \in Entities /\ Linked(job.hub, End(l))
BY DEF IInv, Visiting, Item

\* A parent below the depth limit has a path one more edge fits on.
LEMMA ExpandKeeps ==
  ASSUME IInv, Expand
  PROVE  IInv'
<1>1. pc = "expand" /\ job \in Job
  BY DEF Expand, IInv, Typed
<1>2. /\ Goes /\ job.queue # << >> /\ 1 \in DOMAIN job.queue
      /\ \A n \in DOMAIN job'.queue :
           n + 1 \in DOMAIN job.queue /\ job'.queue[n] = job.queue[n + 1]
      /\ \/ pc' = "expand" /\ job' = [job EXCEPT !.queue = Tail(@)]
         \/ /\ pc' = "onward" /\ ~(Depth(job.queue[1]) >= MaxDepth)
            /\ \E edges \in SUBSET (Entities \X Entities) :
                 /\ job' = [job EXCEPT !.queue = Tail(job.queue),
                                       !.parent = job.queue[1], !.hub = job.queue[1].e,
                                       !.edges = edges]
                 /\ edges = Outward(ProjectOf[job.queue[1].e], job.queue[1].e)
  BY <1>1, QueuedAre, ExpandGoes DEF IInv
<1>3. PICK parent \in Item : parent = job.queue[1] /\ Vouched(parent) /\ Covered(parent.e)
  BY <1>1, <1>2, QueuedAre
<1>4. /\ job'.result = job.result /\ job'.at = job.at /\ job'.phased = job.phased
      /\ job'.direct = job.direct /\ job'.items = job.items /\ job'.snaps = job.snaps
  BY <1>1, <1>2 DEF Job
<1>5. Grows
  BY <1>2, <1>4, GoesKeeps, SameGrows DEF IInv
<1>6. /\ Typed' /\ Witnessed' /\ Starting' /\ Searching' /\ Grading' /\ Scoring'
      /\ Traversing' /\ Answered' /\ Bounded'
      /\ \A i \in Item : Vouched(i) => Vouched(i)'
      /\ \A d, e \in Entities : Linked(d, e) => Linked(d, e)'
  <2>1. pc \in Going \cup {"expand"} /\ pc' \in Going \cup {"expand"}
    BY <1>1, <1>2 DEF Going
  <2> QED
    BY <1>2, <1>4, <1>5, <2>1, TraversesOn
<1>7. CASE pc' = "expand"
  BY <1>6, <1>7 DEF IInv, Visiting, Going
<1>8. CASE pc' = "onward"
  <2>1. PICK edges \in SUBSET (Entities \X Entities) :
          /\ job' = [job EXCEPT !.queue = Tail(job.queue), !.parent = job.queue[1],
                                !.hub = job.queue[1].e, !.edges = edges]
          /\ edges = Outward(ProjectOf[parent.e], parent.e)
    BY <1>2, <1>3, <1>8
  <2>2. job'.parent = parent /\ job'.hub = parent.e /\ job'.edges = edges
    BY <1>1, <1>3, <2>1 DEF Job
  <2>3. Len(parent.path) <= MaxDepth
    <3>1. parent.path \in Seq(Entities)
      BY DEF Item
    <3>2. ~(Len(parent.path) - 1 >= MaxDepth)
      BY <1>2, <1>3, <1>8 DEF Depth
    <3>3. Len(parent.path) \in Nat
      BY <3>1
    <3> QED
      BY <3>2, <3>3, LimitsAssumption
  <2>4. parent.e \in Entities
    BY DEF Item
  <2>5. ASSUME NEW l \in edges
        PROVE  Beyond(parent.e, l) \in Entities /\ Linked(parent.e, Beyond(parent.e, l))
    <3>1. PICK d \in Entities : d = parent.e
      BY <2>4
    <3>2. l \in Outward(ProjectOf[d], d) \cup Inward(ProjectOf[d], d)
      BY <2>1, <3>1
    <3>3. Beyond(d, l) \in Entities /\ Linked(d, Beyond(d, l))
      BY <1>1, <1>3, <3>1, <3>2, NeighboursAre DEF IInv
    <3> QED
      BY <3>1, <3>3
  <2>6. ASSUME NEW l \in job'.edges
        PROVE  (End(l) \in Entities /\ Linked(job.hub, End(l)))'
    <3>1. End(l)' = Beyond(parent.e, l) /\ l \in edges
      BY <2>2 DEF End, Beyond
    <3>2. PICK d \in Entities, f \in Entities : d = parent.e /\ f = Beyond(parent.e, l)
      BY <2>4, <2>5, <3>1
    <3>3. Linked(d, f)'
      BY <1>6, <2>5, <3>1, <3>2
    <3> QED
      BY <2>2, <3>1, <3>2, <3>3
  <2>7. Vouched(parent)' /\ Covered(parent.e)'
    BY <1>3, <1>4, <1>6 DEF Covered
  <2>8. Visiting'
    BY <1>8, <2>2, <2>3, <2>6, <2>7 DEF Visiting
  <2> QED
    BY <1>6, <2>8 DEF IInv
<1> QED
  BY <1>2, <1>7, <1>8

\* While the edges are gone through, each is still an edge of the parent.
LEMMA VisitsOn ==
  ASSUME IInv, Goes, pc \in Going, pc' \in Going, Grows,
         job'.result = job.result, job'.at = job.at, job'.phased = job.phased,
         job'.direct = job.direct, job'.items = job.items, job'.queue = job.queue,
         job'.parent = job.parent, job'.hub = job.hub,
         \A l \in job'.edges : Beyond(job.hub, l) \in Entities /\ Linked(job.hub, Beyond(job.hub, l)),
         pc' = "load" => /\ job'.node \in Entities \ Visited /\ Covered(job'.node)
                         /\ Linked(job.hub, job'.node) /\ Room
  PROVE  IInv'
<1>1. /\ Typed' /\ Witnessed' /\ Starting' /\ Searching' /\ Grading' /\ Scoring'
      /\ Traversing' /\ Answered' /\ Bounded'
      /\ Visited' = Visited /\ Room' = Room
      /\ \A i \in Item : Vouched(i) => Vouched(i)'
      /\ \A d, e \in Entities : Linked(d, e) => Linked(d, e)'
  <2>1. \A n \in DOMAIN job'.queue : \E m \in DOMAIN job.queue : job'.queue[n] = job.queue[m]
    OBVIOUS
  <2> QED
    BY <2>1, TraversesOn
<1>2. PICK parent \in Item, d \in Entities :
        /\ parent = job.parent /\ Vouched(parent) /\ Len(parent.path) <= MaxDepth
        /\ Covered(parent.e) /\ d = job.hub /\ d = parent.e
  BY ParentIs
<1>3. Vouched(parent)' /\ Covered(parent.e)'
  BY <1>1, <1>2 DEF Covered, Grows
<1>4. ASSUME NEW l \in job'.edges
      PROVE  (End(l) \in Entities /\ Linked(job.hub, End(l)))'
  <2>1. PICK f \in Entities : f = Beyond(d, l) /\ Linked(d, f)
    BY <1>2
  <2>2. End(l)' = f
    BY <1>2, <2>1 DEF End, Beyond
  <2>3. Linked(d, f)'
    BY <1>1, <2>1
  <2> QED
    BY <1>2, <2>2, <2>3
<1>5. ASSUME pc' = "load"
      PROVE  /\ (job.node \in Entities \ Visited)' /\ Covered(job.node)'
             /\ Linked(job.hub, job.node)' /\ Room'
  <2>1. PICK f \in Entities : f = job'.node /\ f \notin Visited /\ Covered(f) /\ Linked(d, f)
    BY <1>2, <1>5
  <2>2. Linked(d, f)' /\ Covered(f)'
    BY <1>1, <2>1 DEF Covered, Grows
  <2> QED
    BY <1>1, <1>2, <1>5, <2>1, <2>2
<1>6. Visiting'
  BY <1>2, <1>3, <1>4, <1>5 DEF Visiting
<1> QED
  BY <1>1, <1>6 DEF IInv

LEMMA ExpandInwardKeeps ==
  ASSUME IInv, ExpandInward
  PROVE  IInv'
<1>1. job \in Job /\ pc = "onward" /\ pc \in Going
  BY DEF IInv, Typed, ExpandInward, Going
<1>2. PICK d \in Entities :
        /\ d = job.hub /\ Covered(d)
        /\ \A l \in job.edges : End(l) \in Entities /\ Linked(d, End(l))
  BY <1>1, ParentIs
<1>3. /\ Goes /\ pc' = "visit"
      /\ job' = [job EXCEPT !.edges = job.edges \cup Inward(ProjectOf[d], d)]
  BY <1>2, ExpandInwardGoes DEF IInv
<1>4. /\ job'.result = job.result /\ job'.at = job.at /\ job'.phased = job.phased
      /\ job'.direct = job.direct /\ job'.items = job.items /\ job'.queue = job.queue
      /\ job'.parent = job.parent /\ job'.hub = job.hub /\ job'.snaps = job.snaps
      /\ job'.edges = job.edges \cup Inward(ProjectOf[d], d)
  BY <1>1, <1>3 DEF Job
<1>5. Grows
  BY <1>3, <1>4, GoesKeeps, SameGrows DEF IInv
<1>6. ASSUME NEW l \in job'.edges
      PROVE  Beyond(d, l) \in Entities /\ Linked(d, Beyond(d, l))
  <2>1. CASE l \in job.edges
    BY <1>2, <2>1 DEF End, Beyond
  <2>2. CASE l \in Inward(ProjectOf[d], d)
    BY <1>1, <1>2, <2>2, NeighboursAre DEF IInv
  <2> QED
    BY <1>4, <2>1, <2>2
<1>7. pc' \in Going /\ pc' # "load"
  BY <1>3 DEF Going
<1> QED
  BY <1>1, <1>2, <1>3, <1>4, <1>5, <1>6, <1>7, VisitsOn

LEMMA TakeSnapshotOfKeeps ==
  ASSUME IInv, NEW l \in job.edges, TakeSnapshotOf(l)
  PROVE  IInv'
<1>1. job \in Job /\ pc = "visit" /\ pc \in Going
  BY DEF IInv, Typed, TakeSnapshotOf, Going
<1>2. \A k \in job.edges : End(k) \in Entities /\ Linked(job.hub, End(k))
  BY <1>1, ParentIs
<1>3. /\ Goes /\ pc' = "visit"
      /\ job' = [job EXCEPT !.snaps = WithSnapshot(@, ProjectOf[End(l)])]
      /\ DOMAIN job'.snaps = DOMAIN job.snaps \cup {ProjectOf[End(l)]}
      /\ \A q \in DOMAIN job.snaps : job'.snaps[q] = job.snaps[q]
  BY <1>2, TakeSnapshotOfGoes DEF IInv
<1>4. /\ job'.result = job.result /\ job'.at = job.at /\ job'.phased = job.phased
      /\ job'.direct = job.direct /\ job'.items = job.items /\ job'.queue = job.queue
      /\ job'.parent = job.parent /\ job'.hub = job.hub /\ job'.edges = job.edges
  BY <1>1, <1>3 DEF Job
<1>5. Grows
  BY <1>3, GoesKeeps DEF Grows
<1>6. \A k \in job'.edges : Beyond(job.hub, k) \in Entities /\ Linked(job.hub, Beyond(job.hub, k))
  BY <1>2, <1>4 DEF End, Beyond
<1>7. pc' \in Going /\ pc' # "load"
  BY <1>3 DEF Going
<1> QED
  BY <1>1, <1>3, <1>4, <1>5, <1>6, <1>7, VisitsOn

LEMMA PassOverKeeps ==
  ASSUME IInv, NEW l \in job.edges, PassOver(l)
  PROVE  IInv'
<1>1. job \in Job /\ pc = "visit" /\ pc \in Going
  BY DEF IInv, Typed, PassOver, Going
<1>2. \A k \in job.edges : End(k) \in Entities /\ Linked(job.hub, End(k))
  BY <1>1, ParentIs
<1>3. /\ Goes /\ pc' = "visit" /\ job' = [job EXCEPT !.edges = job.edges \ {l}]
  BY PassOverGoes DEF IInv
<1>4. /\ job'.result = job.result /\ job'.at = job.at /\ job'.phased = job.phased
      /\ job'.direct = job.direct /\ job'.items = job.items /\ job'.queue = job.queue
      /\ job'.parent = job.parent /\ job'.hub = job.hub /\ job'.edges = job.edges \ {l}
      /\ job'.snaps = job.snaps
  BY <1>1, <1>3 DEF Job
<1>5. Grows
  BY <1>3, <1>4, GoesKeeps, SameGrows DEF IInv
<1>6. \A k \in job'.edges : Beyond(job.hub, k) \in Entities /\ Linked(job.hub, Beyond(job.hub, k))
  BY <1>2, <1>4 DEF End, Beyond
<1>7. pc' \in Going /\ pc' # "load"
  BY <1>3 DEF Going
<1> QED
  BY <1>1, <1>3, <1>4, <1>5, <1>6, <1>7, VisitsOn

\* The neighbour to load was not visited, and is linked to the parent.
LEMMA VisitKeeps ==
  ASSUME IInv, NEW l \in job.edges, Visit(l)
  PROVE  IInv'
<1>1. job \in Job /\ pc = "visit" /\ pc \in Going
  BY DEF IInv, Typed, Visit, Going
<1>2. \A k \in job.edges : End(k) \in Entities /\ Linked(job.hub, End(k))
  BY <1>1, ParentIs
<1>3. /\ Goes /\ pc' = "load" /\ Room
      /\ End(l) \notin Visited /\ Covered(End(l))
      /\ job' = [job EXCEPT !.edges = job.edges \ {l}, !.node = End(l)]
  BY <1>2, VisitGoes DEF IInv
<1>4. /\ job'.result = job.result /\ job'.at = job.at /\ job'.phased = job.phased
      /\ job'.direct = job.direct /\ job'.items = job.items /\ job'.queue = job.queue
      /\ job'.parent = job.parent /\ job'.hub = job.hub /\ job'.edges = job.edges \ {l}
      /\ job'.snaps = job.snaps /\ job'.node = End(l)
  BY <1>1, <1>3 DEF Job
<1>5. Grows
  BY <1>3, <1>4, GoesKeeps, SameGrows DEF IInv
<1>6. \A k \in job'.edges : Beyond(job.hub, k) \in Entities /\ Linked(job.hub, Beyond(job.hub, k))
  BY <1>2, <1>4 DEF End, Beyond
<1>7. pc' \in Going
  BY <1>3 DEF Going
<1>8. job'.node \in Entities \ Visited /\ Covered(job'.node) /\ Linked(job.hub, job'.node)
  BY <1>2, <1>3, <1>4
<1> QED
  BY <1>1, <1>3, <1>4, <1>5, <1>6, <1>7, <1>8, VisitsOn

LEMMA ExpandedKeeps ==
  ASSUME IInv, Expanded
  PROVE  IInv'
<1>1. job \in Job
  BY DEF IInv, Typed
<1>2. /\ Goes /\ pc = "visit" /\ pc' = "expand"
      /\ job' = [job EXCEPT !.edges = {}]
  BY ExpandedGoes DEF IInv
<1>3. /\ job'.result = job.result /\ job'.at = job.at /\ job'.phased = job.phased
      /\ job'.direct = job.direct /\ job'.items = job.items /\ job'.queue = job.queue
      /\ job'.snaps = job.snaps
  BY <1>1, <1>2 DEF Job
<1>4. Grows
  BY <1>2, <1>3, GoesKeeps, SameGrows DEF IInv
<1>5. /\ Typed' /\ Witnessed' /\ Starting' /\ Searching' /\ Grading' /\ Scoring'
      /\ Traversing' /\ Answered' /\ Bounded'
  <2>1. /\ pc \in Going \cup {"expand"} /\ pc' \in Going \cup {"expand"}
        /\ \A n \in DOMAIN job'.queue : \E m \in DOMAIN job.queue : job'.queue[n] = job.queue[m]
    BY <1>2, <1>3 DEF Going
  <2> QED
    BY <1>2, <1>3, <1>4, <2>1, TraversesOn
<1> QED
  BY <1>2, <1>5 DEF IInv, Visiting, Going

\* A neighbour joins at the end of the path of its parent, as it was not visited.
LEMMA LoadKeeps ==
  ASSUME IInv, Load
  PROVE  IInv'
<1>0. PICK e \in Entities :
        e = job.node /\ e \notin Visited /\ Covered(e) /\ Linked(job.hub, e) /\ Room
  BY DEF IInv, Visiting, Load, Going
<1>1. job \in Job /\ pc = "load" /\ job.parent \in Item /\ pc \in Going
  BY DEF IInv, Typed, Load, Visiting, Going
<1>2. /\ Goes
      /\ \/ pc' = "raised" /\ UNCHANGED job
         \/ /\ pc' = "visit" /\ docs[e] # None
            /\ \E item \in Item :
                 /\ item = [e |-> e, doc |-> docs[e], stub |-> FALSE,
                            path |-> Append(job.parent.path, e)]
                 /\ job' = [job EXCEPT !.result = Append(job.result, item),
                                       !.queue = Append(job.queue, item)]
  BY <1>0, <1>1, LoadGoes DEF IInv
<1>3. CASE pc' = "raised" /\ UNCHANGED job
  BY <1>2, <1>3, RaisesKeeps
<1>4. ASSUME pc' = "visit", docs[e] # None, NEW item \in Item,
             item = [e |-> e, doc |-> docs[e], stub |-> FALSE,
                     path |-> Append(job.parent.path, e)],
             job' = [job EXCEPT !.result = Append(job.result, item),
                                !.queue = Append(job.queue, item)]
      PROVE  IInv'
  <2>1. PICK s \in Seq(Item), q \in Seq(Item), parent \in Item :
          s = job.result /\ q = job.queue /\ parent = job.parent
    BY <1>1 DEF Job
  <2>2. /\ job'.result = Append(s, item) /\ job'.queue = Append(q, item)
        /\ job'.edges = job.edges /\ job'.parent = parent /\ job'.snaps = job.snaps
        /\ job'.hub = job.hub
        /\ job'.at = job.at /\ job'.phased = job.phased /\ job'.direct = job.direct
        /\ job'.items = job.items /\ job'.op = job.op
    BY <1>1, <1>4, <2>1 DEF Job
  <2>3. Grows
    BY <1>2, <2>2, GoesKeeps, SameGrows DEF IInv
  <2>4. /\ Vouched(parent) /\ Len(parent.path) <= MaxDepth /\ Covered(parent.e)
        /\ parent.e \in Entities /\ job.hub = parent.e /\ Linked(parent.e, e)
        /\ \A l \in job.edges : End(l) \in Entities /\ Linked(parent.e, End(l))
    BY <1>0, <1>1, <2>1, ParentIs
  <2>5. \A i \in Item : Vouched(i) => Vouched(i)'
    BY <2>3, VouchedStays DEF IInv
  <2>6. \A d, f \in Entities : Linked(d, f) => Linked(d, f)'
    BY <2>3, LinkedStays DEF IInv
  <2>7. Vouched(item)'
    <3>1. PICK k \in Nat, path \in Seq(Entities) : k = Len(parent.path) /\ path = parent.path
      BY DEF Item
    <3>2. /\ k \in 1 .. MaxDepth /\ path[k] = parent.e
          /\ \A n \in 1 .. k - 1 : Linked(path[n], path[n + 1])'
      <4>1. Vouched(parent)'
        BY <2>4, <2>5
      <4> QED
        BY <2>4, <3>1, <4>1, LimitsAssumption DEF Vouched
    <3>3. /\ item.path = Append(path, e) /\ Len(item.path) = k + 1 /\ item.path[k + 1] = e
          /\ \A n \in 1 .. k : item.path[n] = path[n]
          /\ item.e = e /\ ~item.stub /\ item.doc = docs[e]
      BY <1>4, <2>1, <3>1
    <3>4. Linked(parent.e, e)'
      BY <2>4, <2>6
    <3>5. ASSUME NEW n \in 1 .. k
          PROVE  Linked(item.path[n], item.path[n + 1])'
      <4>1. CASE n = k
        BY <3>2, <3>3, <3>4, <4>1
      <4>2. CASE n # k
        <5>1. n \in 1 .. k - 1 /\ n + 1 \in 1 .. k
          BY <3>2, <4>2
        <5>2. item.path[n] = path[n] /\ item.path[n + 1] = path[n + 1]
          BY <3>3, <5>1
        <5> QED
          BY <3>2, <5>1, <5>2
      <4> QED
        BY <4>1, <4>2
    <3>6. item.doc \in held'[item.e]
      BY <1>1, <1>2, <1>4, <3>3, GoesKeeps DEF IInv, Witnessed
    <3>7. Len(item.path) \in 1 .. MaxDepth + 1 /\ Len(item.path) - 1 = k
      BY <3>2, <3>3, LimitsAssumption
    <3> QED
      BY <3>3, <3>5, <3>6, <3>7 DEF Vouched
  <2>8. /\ Distinct(s)
        /\ \A n \in DOMAIN s : Vouched(s[n]) /\ Covered(s[n].e)
        /\ \A n \in DOMAIN q : \E m \in DOMAIN s : q[n] = s[m]
    BY <1>1, <2>1 DEF IInv, Traversing, Going
  <2>9. item.e = e /\ \A n \in DOMAIN s : s[n].e # e
    <3>1. \A n \in DOMAIN s : s[n].e \in Visited
      BY <2>1 DEF Visited, Range
    <3> QED
      BY <1>0, <1>4, <3>1
  <2>10. PICK l \in Nat : l = Len(s) /\ DOMAIN s = 1 .. l /\ DOMAIN Append(s, item) = 1 .. l + 1
                          /\ Append(s, item)[l + 1] = item
                          /\ \A n \in 1 .. l : Append(s, item)[n] = s[n]
    OBVIOUS
  <2>11. PICK l2 \in Nat : l2 = Len(q) /\ DOMAIN q = 1 .. l2 /\ DOMAIN Append(q, item) = 1 .. l2 + 1
                          /\ Append(q, item)[l2 + 1] = item
                          /\ \A n \in 1 .. l2 : Append(q, item)[n] = q[n]
    OBVIOUS
  <2>12. PICK r \in Seq(Item), u \in Seq(Item) : r = Append(s, item) /\ u = Append(q, item)
    <3>1. Append(s, item) \in Seq(Item) /\ Append(q, item) \in Seq(Item)
      BY <1>4
    <3> QED
      BY <3>1
  <2>13. Distinct(r)
    BY <2>8, <2>9, <2>10, <2>12 DEF Distinct
  <2>14. \A n \in DOMAIN r : Vouched(r[n])' /\ Covered(r[n].e)'
    <3>1. Covered(item.e)'
      BY <1>0, <2>2, <2>9 DEF Covered
    <3>2. \A n \in DOMAIN s : Vouched(s[n])' /\ Covered(s[n].e)'
      BY <2>2, <2>5, <2>8 DEF Covered
    <3> QED
      BY <2>7, <2>10, <2>12, <3>1, <3>2
  <2>15. \A n \in DOMAIN u : \E m \in DOMAIN r : u[n] = r[m]
    <3>1. ASSUME NEW n \in 1 .. l2 PROVE \E m \in DOMAIN r : u[n] = r[m]
      <4>1. PICK m \in DOMAIN s : q[n] = s[m]
        BY <2>8, <2>11
      <4>2. m \in DOMAIN r /\ r[m] = s[m] /\ u[n] = q[n]
        BY <2>10, <2>11, <2>12
      <4> QED
        BY <4>1, <4>2
    <3>2. u[l2 + 1] = item /\ l + 1 \in DOMAIN r /\ r[l + 1] = item
      BY <2>10, <2>11, <2>12
    <3>3. \A n \in DOMAIN u : n \in 1 .. l2 \/ n = l2 + 1
      BY <2>11, <2>12
    <3> QED
      BY <3>1, <3>2, <3>3
  <2>16. Traversing'
    <3>1. r # << >>
      BY <2>10, <2>12
    <3>2. job'.result = r /\ job'.queue = u
      BY <2>2, <2>12
    <3>3. pc' = "visit"
      BY <1>4
    <3> QED
      BY <2>13, <2>14, <2>15, <3>1, <3>2, <3>3 DEF Traversing, Distinct, Going
  <2>17. Visiting'
    <3>1. ASSUME NEW edge \in job'.edges
          PROVE  (End(edge) \in Entities /\ Linked(job.hub, End(edge)))'
      <4>1. PICK d \in Entities, f \in Entities : d = parent.e /\ f = End(edge) /\ Linked(d, f)
        BY <2>2, <2>4
      <4>2. End(edge)' = f /\ Linked(d, f)'
        BY <2>2, <2>6, <4>1 DEF End
      <4> QED
        BY <2>2, <2>4, <4>1, <4>2
    <3>2. Vouched(parent)' /\ Covered(parent.e)'
      BY <2>2, <2>4, <2>5 DEF Covered
    <3> QED
      BY <1>4, <2>2, <2>4, <3>1, <3>2 DEF Visiting
  <2>18. Bounded'
    <3>1. Limit \in Nat /\ Limit' = Limit /\ l - job.direct < Limit /\ job.direct \in Nat
      BY <1>0, <1>1, <1>2, <2>1, <2>10, LimitsAssumption, GoesKeeps DEF Limit, Room, Job
    <3>2. Len(job'.result) = l + 1
      BY <2>2, <2>10
    <3>3. Len(job'.result) <= job'.direct + Limit'
      BY <2>2, <3>1, <3>2
    <3> QED
      BY <2>2, <3>3 DEF IInv, Bounded
  <2>19. Starting' /\ Searching' /\ Grading' /\ Scoring' /\ Answered'
    BY <1>4 DEF Starting, Searching, Grading, Scoring, Answered, Asking, Going
  <2> QED
    BY <1>2, <2>16, <2>17, <2>18, <2>19, GoesKeeps DEF IInv
<1> QED
  BY <1>2, <1>3, <1>4

\* The step relation, action by action.
LEMMA NextKeeps ==
  ASSUME IInv, Next
  PROVE  IInv'
<1>1. CASE \E query \in Queries : Retrieve(query) \/ Search(query)
  BY <1>1, BeginKeeps
<1>2. CASE \E e \in Entities : TypeOf[e] = "knowledge" /\ Related(e)
  <2>1. \E e \in Entities : Related(e)
    BY <1>2, Zenon
  <2> QED
    BY <2>1, BeginKeeps
<1>3. CASE LoadSeed
  BY <1>3, LoadSeedKeeps
<1>4. CASE TakeSnapshot
  BY <1>4, TakeSnapshotKeeps
<1>5. CASE \/ \E w \in Words : AskKeyword(w) \/ AskTag(w)
           \/ \E e \in Entities : AskId(e) \/ AskOutward(e)
           \/ AskInward \/ \E l \in job.edges : AskNode(l)
  BY <1>5, QuestionsKeep
<1>6. CASE Cut
  BY <1>6, CutKeeps
<1>7. CASE \E e \in Entities : Grade(e)
  BY <1>7, GradeKeeps
<1>8. CASE Phase
  BY <1>8, PhaseKeeps
<1>9. CASE SkipContext
  BY <1>9, SkipContextKeeps
<1>10. CASE KeepStub
  BY <1>10, KeepStubKeeps
<1>11. CASE Refine
  BY <1>11, RefineKeeps
<1>12. CASE RefineRaises
  BY <1>12, RefineRaisesKeeps
<1>13. CASE Rank
  BY <1>13, RankKeeps
<1>14. CASE Expand
  BY <1>14, ExpandKeeps
<1>15. CASE ExpandInward
  BY <1>15, ExpandInwardKeeps
<1>16. CASE \E l \in job.edges : TakeSnapshotOf(l) \/ PassOver(l) \/ Visit(l)
  BY <1>16, TakeSnapshotOfKeeps, PassOverKeeps, VisitKeeps
<1>17. CASE Load
  BY <1>17, LoadKeeps
<1>18. CASE Expanded
  BY <1>18, ExpandedKeeps
<1>19. CASE Select
  BY <1>19, SelectKeeps
<1>20. CASE Return
  BY <1>20, ReturnKeeps
<1>21. CASE \E e \in Entities : Delete(e) \/ Index(e) \/ \E d \in DocsOf[e] : Write(e, d)
  BY <1>21, OthersKeep
<1> QED
  BY <1>1, <1>2, <1>3, <1>4, <1>5, <1>6, <1>7, <1>8, <1>9, <1>10, <1>11, <1>12, <1>13,
     <1>14, <1>15, <1>16, <1>17, <1>18, <1>19, <1>20, <1>21, Zenon DEF Next


----
(* The theorems.                                                           *)

\* The invariant holds in every state: what a call has reached, ranked or
\* answered is vouched for at every point of the pipeline.
THEOREM Invariance == Spec => []IInv
<1>1. Init => IInv
  BY InitKeeps
<1>2. IInv /\ [Next]_vars => IInv'
  BY NextKeeps, StutterKeeps
<1> QED
  BY <1>1, <1>2, PTL DEF Spec

\* The lists hold items, a snapshot is of its own project's entities, and no
\* more is refined, reached and returned than the limits admit, though the
\* traverser adds while it goes (RelationshipTraverser's max_related,
\* KnowledgeSelector's top_n).
THEOREM TypeCorrectness == Spec => []TypeOK
<1>1. ASSUME IInv PROVE TypeOK
  <2>1. job \in Job /\ job.snaps \in Snapshots
    BY <1>1 DEF IInv, Typed, Job
  <2>2. \A p \in DOMAIN job.snaps : DOMAIN job.snaps[p] = Members(p)
    BY <2>1, SnapshotsAre
  <2>3. Range(job.result) \cup job.ranked \cup Range(job.items) \subseteq Item
    BY <2>1 DEF Job, Range
  <2>4. job.at <= MaxCandidates
    <3>1. job.at \in Nat /\ Len(job.phased) \in Nat /\ job.at + Len(job.phased) <= MaxCandidates
      BY <1>1, <2>1 DEF IInv, Bounded, Job
    <3> QED
      BY <3>1, LimitsAssumption
  <2> QED
    BY <1>1, <2>2, <2>3, <2>4 DEF IInv, Typed, Bounded, TypeOK
<1> QED
  BY <1>1, Invariance, PTL

\* However the index lags and whatever is written and indexed meanwhile, an
\* answer tells no entity twice, and each of its documents was in the repository
\* while the call ran; ordinary answers hold no knowledge but CANONICAL.  A stub,
\* and an edge of a path, are what the index has said: of one snapshot where it
\* is kept as files, of a time while the call ran where it is queried live
\* (docs/retrieval-eligibility.md, IndexQueryExecutor).
THEOREM AnswersCanBeVouchedFor == Spec => []AnswersAreVouchedFor
<1>1. ASSUME IInv PROVE AnswersAreVouchedFor
  <2>1. SUFFICES ASSUME pc = "answered"
                 PROVE  AnswersAreVouchedFor
    BY DEF AnswersAreVouchedFor
  <2>2. PICK s \in Seq(Item) : s = job.items
    BY <1>1 DEF IInv, Typed, Job
  <2>3. Distinct(s) /\ \A n \in DOMAIN s : Vouched(s[n]) /\ (job.op # "related" => Eligible(s[n]))
    BY <1>1, <2>1, <2>2 DEF IInv, Answered
  <2>4. \A m, n \in 1 .. Len(job.items) : job.items[m].e = job.items[n].e => m = n
    BY <2>2, <2>3 DEF Distinct
  <2>5. ASSUME NEW i \in Range(job.items)
        PROVE  /\ i \in Item /\ Vouched(i) /\ (job.op # "related" => Eligible(i))
    BY <2>2, <2>3 DEF Range
  <2>6. ASSUME NEW i \in Range(job.items)
        PROVE  /\ i.doc \in IF i.stub THEN Said(i.e) ELSE held[i.e]
               /\ (job.op # "related" /\ TypeOf[i.e] = "knowledge" /\ ~job.query.history
                    => i.doc.status = "CANONICAL")
               /\ Depth(i) <= MaxDepth
               /\ i.path[Len(i.path)] = i.e
    <3>1. Vouched(i) /\ i.path \in Seq(Entities) /\ (job.op # "related" => Eligible(i))
      BY <2>5 DEF Item
    <3>2. i.doc \in IF i.stub THEN Said(i.e) ELSE held[i.e]
      BY <3>1 DEF Vouched
    <3>3. Depth(i) <= MaxDepth /\ i.path[Len(i.path)] = i.e
      BY <3>1, LimitsAssumption DEF Vouched, Depth
    <3> QED
      BY <3>1, <3>2, <3>3 DEF Eligible
  <2>7. ASSUME NEW i \in Range(job.items), NEW n \in 1 .. Depth(i)
        PROVE  LET l == <<i.path[n], i.path[n + 1]>>
               IN  \E f \in Members(ProjectOf[l[1]]) : \E d \in Said(f) :
                     {l, <<l[2], l[1]>>} \cap d.links # {}
    <3>1. PICK d, e : d = i.path[n] /\ e = i.path[n + 1]
      OBVIOUS
    <3>2. Linked(d, e)
      BY <2>5, <3>1 DEF Vouched, Depth
    <3>3. \E f \in Members(ProjectOf[d]) : \E x \in Said(f) : {<<d, e>>, <<e, d>>} \cap x.links # {}
      BY <3>2 DEF Linked
    <3> QED
      BY <3>1, <3>3
  <2> QED
    BY <2>4, <2>6, <2>7 DEF AnswersAreVouchedFor
<1> QED
  BY <1>1, Invariance, PTL

----
(* Sorting has one outcome.                                              *)

\* No two members have as many before them.
LEMMA PlacesDiffer ==
  ASSUME NEW S, IsFiniteSet(S), NEW R, Orders(R, S), NEW x \in S, NEW y \in S,
         Place(R, S, x) = Place(R, S, y)
  PROVE  x = y
<1>1. Place(R, S, x) \in Int
  BY RanksGrow
<1>2. ~(<<x, y>> \in R) /\ ~(<<y, x>> \in R)
  BY <1>1, RanksGrow
<1> QED
  BY <1>2 DEF Orders

\* The member at a place of a sorted set.
LEMMA SortedAt ==
  ASSUME NEW S, IsFiniteSet(S), NEW R, Orders(R, S), NEW x \in S,
         NEW n \in 1 .. Cardinality(S), Place(R, S, x) = n - 1
  PROVE  Sorted(S, R)[n] = x
<1> DEFINE y == Sorted(S, R)[n]
<1>1. y = CHOOSE e \in S : Place(R, S, e) = n - 1
  BY DEF Sorted, Place
<1>2. y \in S /\ Place(R, S, y) = n - 1
  BY <1>1, Zenon
<1> HIDE DEF y
<1>3. y = x
  BY <1>2, PlacesDiffer
<1> QED
  BY <1>3 DEF y

\* All of S, in the order R.
Lists(s, c, R, S) ==
  /\ s \in [1 .. c -> S]
  /\ \A x \in S : \E n \in 1 .. c : s[n] = x
  /\ \A m, n \in 1 .. c : m < n => <<s[m], s[n]>> \in R

\* Members in the order, up to one of them, are those before the next one.
LEMMA PlaceInList ==
  ASSUME NEW S, IsFiniteSet(S), NEW R, Orders(R, S),
         NEW c \in Nat, NEW s, Lists(s, c, R, S)
  PROVE  \A n \in 1 .. c : Place(R, S, s[n]) = n - 1
<1> SUFFICES ASSUME NEW n \in 1 .. c
             PROVE  Place(R, S, s[n]) = n - 1
  OBVIOUS
<1> USE DEF Lists
<1> DEFINE Under == {f \in S : <<f, s[n]>> \in R}
           t == [m \in 1 .. n - 1 |-> s[m]]
<1>1. \A k, m \in 1 .. c : s[k] = s[m] => k = m
  <2>1. ASSUME NEW k \in 1 .. c, NEW m \in 1 .. c, s[k] = s[m], k < m
        PROVE  FALSE
    BY <2>1 DEF Orders
  <2> QED
    BY <2>1
<1>2. \A m \in 1 .. c : <<s[m], s[n]>> \in R <=> m < n
  <2>1. ASSUME NEW m \in 1 .. c, <<s[m], s[n]>> \in R, ~(m < n)
        PROVE  FALSE
    <3>1. m = n \/ n < m
      BY <2>1
    <3>2. <<s[n], s[n]>> \in R
      BY <2>1, <3>1 DEF Orders
    <3> QED
      BY <3>2 DEF Orders
  <2> QED
    BY <2>1
<1>3. t \in Bijection(1 .. n - 1, Under)
  <2>1. \A m \in 1 .. n - 1 : m \in 1 .. c /\ m < n /\ s[m] \in S
    OBVIOUS
  <2>2. t \in [1 .. n - 1 -> Under]
    BY <1>2, <2>1
  <2>3. \A k, m \in 1 .. n - 1 : t[k] = t[m] => k = m
    BY <1>1, <2>1
  <2>4. \A f \in Under : \E m \in 1 .. n - 1 : t[m] = f
    <3>1. ASSUME NEW f \in Under PROVE \E m \in 1 .. n - 1 : t[m] = f
      <4>1. PICK m \in 1 .. c : s[m] = f
        OBVIOUS
      <4>2. m \in 1 .. n - 1
        BY <1>2, <4>1
      <4> QED
        BY <4>1, <4>2
    <3> QED
      BY <3>1
  <2> HIDE DEF t, Under
  <2> QED
    BY <2>2, <2>3, <2>4 DEF Bijection, Injection, Surjection, IsInjective
<1>4. n - 1 \in Nat /\ IsFiniteSet(1 .. n - 1) /\ Cardinality(1 .. n - 1) = n - 1
  <2>1. n - 1 \in Nat
    OBVIOUS
  <2>2. 1 \in Int /\ n - 1 \in Int /\ (1 > n - 1 \/ 1 <= n - 1)
    BY <2>1
  <2>3. IsFiniteSet(1 .. n - 1)
    BY <2>2, FS_Interval
  <2>4. Cardinality(1 .. n - 1) = IF 1 > n - 1 THEN 0 ELSE (n - 1) - 1 + 1
    BY <2>2, FS_Interval
  <2> QED
    BY <2>1, <2>3, <2>4
<1> HIDE DEF t, Under
<1>5. Cardinality(Under) = Cardinality(1 .. n - 1)
  BY <1>3, <1>4, FS_Bijection DEF ExistsBijection
<1> QED
  BY <1>4, <1>5 DEF Place, Under

\* There is but one way to sort.
LEMMA SortedUnique ==
  ASSUME NEW S, IsFiniteSet(S), NEW R, Orders(R, S),
         NEW c \in Nat, NEW s, Lists(s, c, R, S)
  PROVE  c = Cardinality(S) /\ s = Sorted(S, R)
<1>1. \A n \in 1 .. c : Place(R, S, s[n]) = n - 1
  BY PlaceInList
<1>2. Cardinality(S) \in Nat
  BY FS_CardinalityType
<1>3. c <= Cardinality(S)
  <2>1. CASE c = 0
    BY <1>2, <2>1
  <2>2. CASE c # 0
    <3>1. c \in 1 .. c /\ Place(R, S, s[c]) = c - 1 /\ s[c] \in S
      BY <1>1, <2>2 DEF Lists
    <3>2. Place(R, S, s[c]) \in 0 .. Cardinality(S) - 1
      BY <3>1, RanksGrow
    <3> QED
      BY <1>2, <3>1, <3>2
  <2> QED
    BY <2>1, <2>2
<1>4. Cardinality(S) <= c
  <2>1. CASE Cardinality(S) = 0
    BY <2>1
  <2>2. CASE Cardinality(S) # 0
    <3> DEFINE x == Sorted(S, R)[Cardinality(S)]
    <3>1. x \in S
      BY <1>2, <2>2, SortedIs
    <3>2. PICK n \in 1 .. c : s[n] = x
      BY <3>1 DEF Lists
    <3>3. Place(R, S, x) = Cardinality(S) - 1
      <4>1. PICK u : u = Sorted(S, R)
        OBVIOUS
      <4>2. Lists(u, Cardinality(S), R, S)
        BY <4>1, SortedIs DEF Lists
      <4>3. \A m \in 1 .. Cardinality(S) : Place(R, S, u[m]) = m - 1
        BY <1>2, <4>2, PlaceInList
      <4> QED
        BY <1>2, <2>2, <4>1, <4>3
    <3> HIDE DEF x
    <3>4. Cardinality(S) - 1 = n - 1
      BY <1>1, <3>2, <3>3
    <3> QED
      BY <1>2, <3>4
  <2> QED
    BY <2>1, <2>2
<1>5. c = Cardinality(S)
  BY <1>2, <1>3, <1>4
<1>6. \A n \in 1 .. c : Sorted(S, R)[n] = s[n]
  BY <1>1, <1>5, SortedAt DEF Lists
<1>7. Sorted(S, R) \in [1 .. c -> S]
  BY <1>5, SortedIs
<1> QED
  BY <1>5, <1>6, <1>7 DEF Lists

----
(* A call on a quiet repository.                                         *)

\* A call for the query, on a repository that has not changed since it began
\* and that the limits are large enough for.
Quietly ==
  /\ quiet /\ job.op \in {"search", "retrieve"}
  /\ Cardinality(ShouldBeFound) <= Min({MaxCandidates, RefineLimit})

Matches == {e \in ShouldBeFound : TypeOf[e] = "knowledge"}

\* The snapshots say what is stored.
Current ==
  quiet /\ pc # "idle" =>
    \A p \in DOMAIN job.snaps : \A e \in Members(p) : job.snaps[p][e] = docs[e]

\* The edges stored in a project.
Stored(p) == UNION {docs[f].links : f \in {g \in Members(p) : docs[g] # None}}

Joined(e, x) == e # x /\ \E l \in Stored(job.query.project) : {l[1], l[2]} = {e, x}

\* A question still to be asked will find it.
Awaited(e) ==
  \/ docs[e].words \cap job.words # {}
  \/ docs[e].tags \cap job.tags # {}
  \/ e \in job.ids
  \/ \E x \in job.hubs : Joined(e, x)
  \/ \E l \in job.edges : End(l) = e /\ e # job.hub
  \/ pc = "inward" /\ e # job.hub /\ <<e, job.hub>> \in Stored(job.query.project)

\* What should be found has been, or will be.
Hunting ==
  pc \in Asking /\ Quietly =>
    /\ job.words \subseteq job.query.words /\ job.tags \subseteq job.query.tags
    /\ job.ids \subseteq job.query.ids /\ job.hubs \subseteq job.query.ids
    /\ pc = "inward" \/ job.edges # {} => job.hub \in job.query.ids
    /\ \A l \in job.edges : l \in Stored(job.query.project) /\ job.hub \in {l[1], l[2]}
    /\ Found \subseteq ShouldBeFound
    /\ \A e \in ShouldBeFound \ Found : Awaited(e)

\* All that was found is graded.
Kept == {c.e : c \in job.graded} \cup job.entries

Passing == pc = "grade" /\ Quietly => Kept = ShouldBeFound

\* Every match is still to be scored, or ranked by its document.
Sifting ==
  pc = "score" /\ Quietly =>
    /\ job.at + Len(job.phased) <= RefineLimit
    /\ \A n \in DOMAIN job.phased : job.phased[n].e \in ShouldBeFound
    /\ \A i \in job.ranked :
         i.e \in Matches /\ ~i.stub /\ i.doc = docs[i.e] /\ Len(i.path) = 1
    /\ \A e \in Matches : (\E n \in DOMAIN job.phased : job.phased[n].e = e)
                            \/ \E i \in job.ranked : i.e = e

\* The first k of a list are the matches, in order, and all of it is as stored.
Leads(s, k) ==
  /\ \A n \in DOMAIN s : ~s[n].stub /\ s[n].doc = docs[s[n].e]
  /\ \A n \in 1 .. k : s[n].e \in Matches
  /\ \A e \in Matches : \E n \in 1 .. k : s[n].e = e
  /\ \A m, n \in 1 .. k : m < n => Before(s[m], s[n])

\* The knowledge one edge away.
Wanted(e) ==
  {f \in Entities \ {e} :
     /\ TypeOf[f] = "knowledge" /\ docs[f] # None
     /\ \E g \in Members(ProjectOf[e]) :
          docs[g] # None /\ {<<e, f>>, <<f, e>>} \cap docs[g].links # {}}

\* What the edges of the parent lead to and has not been dealt with.
Pending ==
  {End(l) : l \in job.edges}
    \cup (IF pc = "load" THEN {job.node} ELSE {})
    \cup (IF pc = "onward"
          THEN {f \in Entities : <<f, job.hub>> \in Stored(ProjectOf[job.hub])} ELSE {})

\* While there is room, each match waits, is being expanded, or has been; and
\* a neighbour that is loaded is there.
Reaching ==
  pc \in Going \cup {"expand"} /\ Quietly =>
    /\ job.direct <= Len(job.result) /\ Leads(job.result, job.direct)
    /\ \A n \in 1 .. job.direct : Len(job.result[n].path) = 1
    /\ pc = "load" => docs[job.node] # None
    /\ MaxDepth > 0 /\ Room =>
         \A n \in 1 .. job.direct :
           \/ \E m \in DOMAIN job.queue : job.queue[m] = job.result[n]
           \/ /\ pc \in Going /\ job.parent = job.result[n]
              /\ Wanted(job.result[n].e) \subseteq Pending \cup Visited
           \/ Wanted(job.result[n].e) \subseteq Visited

Less == {p \in Nat \X Nat : p[1] < p[2]}

\* The places of what is admitted, b in all and c of them among the first k.
Admits(s, k, at, b, c) ==
  /\ Admit(s) \in Seq(Item) /\ Len(Admit(s)) = b
  /\ Lists(at, b, Less, {n \in DOMAIN s : Eligible(s[n])})
  /\ \A n \in 1 .. b : Admit(s)[n] = s[at[n]]
  /\ Lists([n \in 1 .. c |-> at[n]], c, Less, {n \in 1 .. k : Eligible(s[n])})
  /\ k = Len(s) => c = b

\* What is admitted of the first k comes first among what is admitted.
LEMMA AdmitLists ==
  ASSUME NEW s \in Seq(Item), NEW k \in 0 .. Len(s)
  PROVE  \E at : \E b \in Nat : \E c \in 0 .. b : Admits(s, k, at, b, c)
<1> DEFINE P == {n \in DOMAIN s : Eligible(s[n])}
           F == {n \in 1 .. k : Eligible(s[n])}
           at == Sorted(P, Less)
           b == Cardinality(P)
           c == Cardinality(F)
<1>1. DOMAIN s = 1 .. Len(s) /\ Len(s) \in Nat /\ P \in SUBSET DOMAIN s /\ P \in SUBSET Nat
      /\ F \in SUBSET P
  OBVIOUS
<1>2. IsFiniteSet(P) /\ IsFiniteSet(F) /\ c <= b /\ c \in Nat /\ b \in Nat
  <2>1. IsFiniteSet(1 .. Len(s))
    BY <1>1, FS_Interval
  <2>2. IsFiniteSet(P)
    BY <1>1, <2>1, FS_Subset
  <2> HIDE DEF P, F
  <2> QED
    BY <1>1, <2>2, FS_Subset, FS_CardinalityType
<1>3. Orders(Less, P) /\ Orders(Less, F)
  BY <1>1, PlacesOrder DEF Less
<1>4. Lists(at, b, Less, P) /\ Lists(Sorted(F, Less), c, Less, F)
  <2> HIDE DEF P, F
  <2> QED
    BY <1>2, <1>3, SortedIs DEF Lists
<1>5. ASSUME NEW n \in 1 .. c
      PROVE  at[n] = Sorted(F, Less)[n]
  <2>1. PICK x \in F : x = Sorted(F, Less)[n]
    BY <1>4 DEF Lists
  <2>2. Place(Less, F, x) = n - 1
    <3> HIDE DEF P, F
    <3> QED
      BY <1>2, <1>3, <1>4, <2>1, PlaceInList
  <2>3. {f \in P : <<f, x>> \in Less} = {f \in F : <<f, x>> \in Less}
    <3>1. ASSUME NEW f \in P, <<f, x>> \in Less PROVE f \in F
      <4>1. x \in 1 .. k /\ f \in 1 .. Len(s) /\ Eligible(s[f])
        BY <1>1
      <4>2. f < x
        BY <3>1 DEF Less
      <4> QED
        BY <1>1, <4>1, <4>2
    <3> QED
      BY <1>1, <3>1
  <2>4. Place(Less, P, x) = n - 1 /\ x \in P /\ n \in 1 .. Cardinality(P)
    <3>1. n \in 1 .. Cardinality(P)
      <4> HIDE DEF P, F
      <4> QED
        BY <1>2
    <3> QED
      BY <1>1, <2>2, <2>3, <3>1 DEF Place
  <2> HIDE DEF P, F
  <2> QED
    BY <1>2, <1>3, <2>1, <2>4, SortedAt
<1>6. Lists([n \in 1 .. c |-> at[n]], c, Less, F)
  <2> HIDE DEF at, P, F
  <2>1. Sorted(F, Less) \in [1 .. c -> F]
    BY <1>4 DEF Lists
  <2>2. [n \in 1 .. c |-> at[n]] = Sorted(F, Less)
    BY <1>5, <2>1
  <2> QED
    BY <1>4, <2>2
<1>7. Admit(s) = [n \in DOMAIN at |-> s[at[n]]] /\ DOMAIN at = 1 .. b
  <2>1. Admit(s) = [n \in DOMAIN at |-> s[at[n]]]
    BY DEF Admit, Less
  <2>2. DOMAIN at = 1 .. b
    BY <1>4 DEF Lists
  <2> QED
    BY <2>1, <2>2
<1>8. Admit(s) \in Seq(Item) /\ Len(Admit(s)) = b
  <2>1. Admit(s) \in Seq(Item)
    BY AdmitIs
  <2> HIDE DEF b, at
  <2> QED
    BY <1>2, <1>7, <2>1
<1>9. k = Len(s) => c = b
  <2>1. k = Len(s) => F = P
    BY <1>1
  <2> QED
    BY <2>1
<1>10. \A n \in 1 .. b : Admit(s)[n] = s[at[n]]
  BY <1>7
<1>11. c \in 0 .. b
  BY <1>2
<1>12. Admits(s, k, at, b, c)
  <2> HIDE DEF at, b, c
  <2> QED
    BY <1>4, <1>6, <1>8, <1>9, <1>10 DEF Admits
<1> HIDE DEF at, b, c
<1> QED
  BY <1>2, <1>11, <1>12

Better ==
  {p \in Matches \X Matches :
     \/ docs[p[1]].full > docs[p[2]].full
     \/ docs[p[1]].full = docs[p[2]].full /\ IdOrder[p[1]] < IdOrder[p[2]]}

Admissible == {e \in Matches : Admitted(e)}

Best == Sorted(Admissible, Better)

LEMMA MatchesAre ==
  ASSUME Typed
  PROVE  /\ Matches \in SUBSET Entities /\ IsFiniteSet(Matches) /\ IsFiniteSet(ShouldBeFound)
         /\ \A e \in Matches : docs[e] \in Doc /\ TypeOf[e] = "knowledge"
         /\ Admissible \in SUBSET Matches /\ IsFiniteSet(Admissible)
         /\ Orders(Better, Admissible)
<1>1. Matches \in SUBSET ShouldBeFound /\ ShouldBeFound \in SUBSET Entities
      /\ Admissible \in SUBSET Matches
  BY DEF Matches, ShouldBeFound, Admissible
<1>2. IsFiniteSet(ShouldBeFound) /\ IsFiniteSet(Matches) /\ IsFiniteSet(Admissible)
  BY <1>1, EntitiesAssumption, FS_Subset
<1>3. ASSUME NEW e \in Matches PROVE docs[e] \in Doc /\ TypeOf[e] = "knowledge"
  <2>1. docs[e] \in Entry /\ docs[e] # None
    BY <1>1, DocsAre DEF Matches, ShouldBeFound, ShouldMatch
  <2> QED
    BY <2>1, DocIs DEF Entry, Matches
<1>4. \A e \in Matches : docs[e].full \in Nat /\ IdOrder[e] \in Nat /\ e \in Entities
  BY <1>1, <1>3, EntitiesAssumption DEF Doc
<1>5. \A x \in Admissible : <<x, x>> \notin Better
  BY <1>1, <1>4 DEF Better
<1>6. \A x, y \in Admissible : x = y \/ <<x, y>> \in Better \/ <<y, x>> \in Better
  BY <1>1, <1>4, EntitiesAssumption DEF Better
<1>7. \A x, y, z \in Admissible : <<x, y>> \in Better /\ <<y, z>> \in Better => <<x, z>> \in Better
  BY <1>1, <1>4 DEF Better
<1> QED
  BY <1>1, <1>2, <1>3, <1>5, <1>6, <1>7 DEF Orders

Firsts == SubSeq(Best, 1, Min({TopN, Len(Best)}))

EntitiesOf(items) == [n \in 1 .. Len(items) |-> items[n].e]

LEMMA FirstOf ==
  ASSUME NEW S, NEW s \in Seq(S), NEW l \in 0 .. Len(s)
  PROVE  /\ SubSeq(s, 1, l) \in Seq(S) /\ Len(SubSeq(s, 1, l)) = l
         /\ \A n \in 1 .. l : SubSeq(s, 1, l)[n] = s[n]
OBVIOUS

LEMMA SameLists ==
  ASSUME NEW S, NEW s \in Seq(S), NEW t \in Seq(S), Len(s) = Len(t),
         \A n \in 1 .. Len(s) : s[n] = t[n]
  PROVE  s = t
OBVIOUS

\* A list that leads with the matches answers with the best of them, in order.
LEMMA FirstsAre ==
  ASSUME Typed, NEW s \in Seq(Item), NEW k \in 0 .. Len(s), Leads(s, k)
  PROVE  /\ IsPrefix(Firsts, EntitiesOf(Selected(Admit(s))))
         /\ k = Len(s) => EntitiesOf(Selected(Admit(s))) = Firsts
<1> DEFINE P == {n \in DOMAIN s : Eligible(s[n])}
           F == {n \in 1 .. k : Eligible(s[n])}
<1>1. PICK at : \E b \in Nat : \E c \in 0 .. b : Admits(s, k, at, b, c)
  BY AdmitLists, Zenon
<1>a. PICK b \in Nat : \E c \in 0 .. b : Admits(s, k, at, b, c)
  BY <1>1, Zenon
<1>b. PICK c \in 0 .. b : Admits(s, k, at, b, c)
  BY <1>a, Zenon
<1>2. /\ Admit(s) \in Seq(Item) /\ Len(Admit(s)) = b
      /\ Lists(at, b, Less, P)
      /\ \A n \in 1 .. b : Admit(s)[n] = s[at[n]]
      /\ Lists([n \in 1 .. c |-> at[n]], c, Less, F)
      /\ k = Len(s) => c = b
  BY <1>b DEF Admits
<1>3. /\ Matches \in SUBSET Entities
      /\ \A e \in Matches : docs[e] \in Doc /\ TypeOf[e] = "knowledge"
      /\ Admissible \in SUBSET Matches /\ IsFiniteSet(Admissible)
      /\ Orders(Better, Admissible)
  BY MatchesAre
<1>4. /\ \A n \in DOMAIN s : ~s[n].stub /\ s[n].doc = docs[s[n].e]
      /\ \A n \in 1 .. k : s[n].e \in Matches
      /\ \A e \in Matches : \E n \in 1 .. k : s[n].e = e
      /\ \A m, n \in 1 .. k : m < n => Before(s[m], s[n])
      /\ 1 .. k \subseteq DOMAIN s
  <2>1. 1 .. k \subseteq DOMAIN s
    OBVIOUS
  <2> QED
    BY <2>1, Zenon DEF Leads
<1>5. \A n \in 1 .. k : Eligible(s[n]) <=> s[n].e \in Admissible
  BY <1>3, <1>4 DEF Eligible, Admitted, Admissible
<1>6. /\ \A n \in 1 .. c : at[n] \in F
      /\ \A x \in F : \E n \in 1 .. c : at[n] = x
      /\ \A m, n \in 1 .. c : m < n => at[m] < at[n]
  <2>0. PICK t : t = [n \in 1 .. c |-> at[n]]
    OBVIOUS
  <2>a. Lists(t, c, Less, F)
    BY <1>2, <2>0, Zenon
  <2> HIDE DEF F
  <2>1. /\ t \in [1 .. c -> F]
        /\ \A x \in F : \E n \in 1 .. c : t[n] = x
        /\ \A m, n \in 1 .. c : m < n => <<t[m], t[n]>> \in Less
    BY <2>a DEF Lists
  <2>2. \A n \in 1 .. c : t[n] = at[n]
    BY <2>0
  <2>3. \A m, n \in 1 .. c : m < n => <<at[m], at[n]>> \in Less
    BY <2>1, <2>2
  <2>4. \A m, n \in 1 .. c : m < n => at[m] < at[n]
    BY <2>3 DEF Less
  <2> QED
    BY <2>1, <2>2, <2>4
<1> DEFINE u == [n \in 1 .. c |-> s[at[n]].e]
<1>7. Lists(u, c, Better, Admissible)
  <2>1. \A n \in 1 .. c : at[n] \in 1 .. k /\ s[at[n]].e \in Admissible
    BY <1>5, <1>6
  <2>2. ASSUME NEW e \in Admissible PROVE \E n \in 1 .. c : u[n] = e
    <3>1. PICK n \in 1 .. k : s[n].e = e
      BY <1>3, <1>4
    <3>2. n \in F
      BY <1>5, <3>1
    <3>3. PICK m \in 1 .. c : at[m] = n
      BY <1>6, <3>2
    <3> QED
      BY <3>1, <3>3
  <2>3. ASSUME NEW m \in 1 .. c, NEW n \in 1 .. c, m < n
        PROVE  <<u[m], u[n]>> \in Better
    <3>1. PICK i \in 1 .. k, j \in 1 .. k : i = at[m] /\ j = at[n]
      BY <2>1
    <3>2. Before(s[i], s[j]) /\ s[i].e \in Matches /\ s[j].e \in Matches
      BY <1>4, <1>6, <2>3, <3>1
    <3>3. Score(s[i]) = docs[s[i].e].full /\ Score(s[j]) = docs[s[j].e].full
      BY <1>4 DEF Score
    <3>4. u[m] = s[i].e /\ u[n] = s[j].e
      BY <3>1
    <3> HIDE DEF u
    <3> QED
      BY <3>2, <3>3, <3>4 DEF Before, Better
  <2>4. u \in [1 .. c -> Admissible]
    BY <2>1
  <2> HIDE DEF u
  <2> QED
    BY <2>2, <2>3, <2>4 DEF Lists
<1>c. /\ Admit(s) \in Seq(Item) /\ Len(Admit(s)) = b
      /\ \A n \in 1 .. b : Admit(s)[n] = s[at[n]]
      /\ (k = Len(s) => c = b)
  BY <1>2, Zenon
<1> HIDE DEF P, F
<1>8. Best = u
  <2> HIDE DEF u
  <2> QED
    BY <1>3, <1>7, SortedUnique DEF Best
<1>9. /\ Best \in Seq(Entities) /\ Len(Best) = c
      /\ \A n \in 1 .. c : Best[n] = s[at[n]].e
  <2>1. u \in [1 .. c -> Entities]
    BY <1>3, <1>7 DEF Lists
  <2> QED
    BY <1>8, <2>1
<1>10. PICK i \in 0 .. c, j \in 0 .. b :
         /\ i = Min({TopN, c}) /\ j = Min({TopN, b}) /\ i <= j /\ (c = b => i = j)
  <2>1. TopN \in Nat
    BY LimitsAssumption
  <2> DEFINE i == IF TopN <= c THEN TopN ELSE c
             j == IF TopN <= b THEN TopN ELSE b
  <2>2. i = Min({TopN, c}) /\ j = Min({TopN, b})
    BY <2>1, MinIs
  <2>3. i \in 0 .. c /\ j \in 0 .. b /\ i <= j /\ (c = b => i = j)
    BY <2>1
  <2> QED
    BY <2>2, <2>3
<1>11. Firsts = SubSeq(Best, 1, i) /\ Selected(Admit(s)) = SubSeq(Admit(s), 1, j)
  BY <1>c, <1>9, <1>10 DEF Firsts, Selected
<1>12. PICK items \in Seq(Item) :
         /\ items = Selected(Admit(s)) /\ Len(items) = j
         /\ \A n \in 1 .. j : items[n] = s[at[n]]
  <2>1. PICK a \in Seq(Item) : a = Admit(s) /\ Len(a) = b
    BY <1>c
  <2>2. j \in 0 .. Len(a) /\ Selected(Admit(s)) = SubSeq(a, 1, j)
    BY <1>11, <2>1
  <2>3. /\ SubSeq(a, 1, j) \in Seq(Item) /\ Len(SubSeq(a, 1, j)) = j
        /\ \A n \in 1 .. j : SubSeq(a, 1, j)[n] = a[n]
    BY <2>2, FirstOf
  <2>4. \A n \in 1 .. j : n \in 1 .. b
    OBVIOUS
  <2>5. \A n \in 1 .. j : SubSeq(a, 1, j)[n] = s[at[n]]
    BY <1>c, <2>1, <2>3, <2>4
  <2> QED
    BY <2>2, <2>3, <2>5
<1>13. PICK answer \in Seq(Entities) :
         /\ answer = EntitiesOf(items) /\ Len(answer) = j
         /\ \A n \in 1 .. j : answer[n] = s[at[n]].e
  <2>1. \A n \in 1 .. j : items[n] \in Item /\ items[n].e \in Entities
    <3>1. \A n \in 1 .. j : items[n] \in Item
      BY <1>12
    <3> QED
      BY <3>1 DEF Item
  <2>2. EntitiesOf(items) \in [1 .. j -> Entities]
    BY <1>12, <2>1 DEF EntitiesOf
  <2>3. EntitiesOf(items) \in Seq(Entities) /\ Len(EntitiesOf(items)) = j
    BY <2>2
  <2>4. \A n \in 1 .. j : EntitiesOf(items)[n] = s[at[n]].e
    BY <1>12 DEF EntitiesOf
  <2> QED
    BY <2>3, <2>4
<1>14. PICK firsts \in Seq(Entities) :
         /\ firsts = Firsts /\ Len(firsts) = i
         /\ \A n \in 1 .. i : firsts[n] = s[at[n]].e
  <2>1. i \in 0 .. Len(Best)
    BY <1>9
  <2>2. /\ SubSeq(Best, 1, i) \in Seq(Entities) /\ Len(SubSeq(Best, 1, i)) = i
        /\ \A n \in 1 .. i : SubSeq(Best, 1, i)[n] = Best[n]
    BY <1>9, <2>1, FirstOf
  <2>3. \A n \in 1 .. i : n \in 1 .. c
    OBVIOUS
  <2> QED
    BY <1>9, <1>11, <2>2, <2>3
<1>15. SubSeq(firsts, 1, i) = SubSeq(answer, 1, i)
  <2>1. i \in 0 .. Len(firsts) /\ i \in 0 .. Len(answer)
    BY <1>10, <1>13, <1>14
  <2>2. /\ SubSeq(firsts, 1, i) \in Seq(Entities) /\ Len(SubSeq(firsts, 1, i)) = i
        /\ \A n \in 1 .. i : SubSeq(firsts, 1, i)[n] = firsts[n]
    BY <2>1, FirstOf
  <2>3. /\ SubSeq(answer, 1, i) \in Seq(Entities) /\ Len(SubSeq(answer, 1, i)) = i
        /\ \A n \in 1 .. i : SubSeq(answer, 1, i)[n] = answer[n]
    BY <2>1, FirstOf
  <2>4. \A n \in 1 .. i : firsts[n] = answer[n]
    <3>1. \A n \in 1 .. i : n \in 1 .. j
      BY <1>10
    <3> QED
      BY <1>13, <1>14, <3>1
  <2> QED
    BY <2>2, <2>3, <2>4, SameLists
<1>16. IsPrefix(firsts, answer)
  BY <1>10, <1>13, <1>14, <1>15 DEF IsPrefix
<1>17. k = Len(s) => answer = firsts
  <2>1. SUFFICES ASSUME k = Len(s) PROVE answer = firsts
    OBVIOUS
  <2>2. i = j
    BY <1>c, <1>10, <2>1
  <2>3. Len(answer) = Len(firsts) /\ \A n \in 1 .. Len(answer) : answer[n] = firsts[n]
    BY <1>13, <1>14, <2>2
  <2> QED
    BY <2>3, SameLists
<1> QED
  BY <1>12, <1>13, <1>14, <1>16, <1>17

\* Everything of a list that is admitted is told, or as much as may be.
LEMMA AllAreTold ==
  ASSUME NEW s \in Seq(Item), NEW n \in DOMAIN s, Eligible(s[n])
  PROVE  LET answer == EntitiesOf(Selected(Admit(s)))
         IN  Len(answer) = TopN \/ s[n].e \in Range(answer)
<1> DEFINE P == {m \in DOMAIN s : Eligible(s[m])}
<1>1. 0 \in 0 .. Len(s)
  OBVIOUS
<1>2. PICK at : \E b \in Nat : \E c \in 0 .. b : Admits(s, 0, at, b, c)
  BY <1>1, AdmitLists, Zenon
<1>a. PICK b \in Nat : \E c \in 0 .. b : Admits(s, 0, at, b, c)
  BY <1>2, Zenon
<1>3. /\ Admit(s) \in Seq(Item) /\ Len(Admit(s)) = b
      /\ Lists(at, b, Less, P)
      /\ \A m \in 1 .. b : Admit(s)[m] = s[at[m]]
  BY <1>a DEF Admits
<1>4. PICK m \in 1 .. b : at[m] = n
  BY <1>3 DEF Lists
<1>5. TopN \in Nat /\ Min({TopN, b}) = IF TopN <= b THEN TopN ELSE b
  BY LimitsAssumption, MinIs
<1>6. PICK items \in Seq(Item) :
        /\ items = Selected(Admit(s))
        /\ Len(items) = IF TopN <= b THEN TopN ELSE b
        /\ \A l \in 1 .. Len(items) : items[l] = s[at[l]]
  <2> DEFINE j == IF TopN <= b THEN TopN ELSE b
  <2>1. PICK a \in Seq(Item) : a = Admit(s) /\ Len(a) = b /\ \A l \in 1 .. b : a[l] = s[at[l]]
    BY <1>3
  <2>2. j \in 0 .. Len(a) /\ j <= b /\ Selected(Admit(s)) = SubSeq(a, 1, j)
    <3>1. j \in 0 .. b
      BY <1>5
    <3>2. Selected(Admit(s)) = SubSeq(a, 1, j)
      BY <1>5, <2>1 DEF Selected
    <3> QED
      BY <2>1, <3>1, <3>2
  <2>3. /\ SubSeq(a, 1, j) \in Seq(Item) /\ Len(SubSeq(a, 1, j)) = j
        /\ \A n1 \in 1 .. j : SubSeq(a, 1, j)[n1] = a[n1]
    <3> HIDE DEF j
    <3> QED
      BY <2>2, FirstOf
  <2>4. \A l \in 1 .. j : l \in 1 .. b
    BY <2>2
  <2> HIDE DEF j, P
  <2>5. \A l \in 1 .. j : SubSeq(a, 1, j)[l] = s[at[l]]
    BY <2>1, <2>3, <2>4
  <2>6. SubSeq(a, 1, j) = Selected(Admit(s)) /\ Len(SubSeq(a, 1, j)) = j
    BY <2>2, <2>3
  <2> QED
    BY <2>3, <2>5, <2>6 DEF j
<1>7. Len(EntitiesOf(items)) = Len(items) /\ DOMAIN EntitiesOf(items) = 1 .. Len(items)
      /\ \A l \in 1 .. Len(items) : EntitiesOf(items)[l] = items[l].e
  BY DEF EntitiesOf
<1>8. CASE TopN <= b
  BY <1>5, <1>6, <1>7, <1>8
<1>9. CASE ~(TopN <= b)
  <2>1. m \in 1 .. Len(items)
    BY <1>4, <1>6, <1>9
  <2> QED
    BY <1>4, <1>6, <1>7, <2>1 DEF Range
<1> QED
  BY <1>8, <1>9


----
(* What it ends with.                                                      *)

\* The knowledge that an admitted neighbour of a match may be.
Near ==
  {f \in Entities \ Matches :
     /\ TypeOf[f] = "knowledge" /\ docs[f] # None /\ Admitted(f)
     /\ \E e \in Matches, g \in Entities :
          /\ docs[g] # None
          /\ {<<e, f>>, <<f, e>>} \cap docs[g].links # {}
          /\ ProjectOf[g] = ProjectOf[e]}

\* What a call on a quiet repository ends with.
Answering ==
  Quietly =>
    /\ pc = "answered" /\ job.op = "search" => EntitiesOf(job.items) = Firsts
    /\ pc = "answered" /\ job.op = "retrieve" =>
         /\ IsPrefix(Firsts, EntitiesOf(job.items))
         /\ MaxDepth > 0 /\ Len(job.result) < job.direct + MaxRelated =>
              \/ Len(EntitiesOf(job.items)) = TopN
              \/ Near \subseteq Range(EntitiesOf(job.items))
    /\ pc = "raised" =>
         \/ \E e \in ShouldBeFound : TypeOf[e] \in {"decision", "artifact"}
         \/ \E i \in Range(job.result) : TypeOf[i.e] = "artifact"

QInv == Current /\ Hunting /\ Passing /\ Sifting /\ Reaching /\ Answering

LEMMA ReferenceIs ==
  ASSUME Answering
  PROVE  QuietIsReference
BY Zenon DEF Answering, QuietIsReference, Quietly, EntitiesOf, Firsts, Best, Better, Admissible,
   Matches, Near

\* A step of a call leaves what it should find.
LEMMA SameCall ==
  ASSUME Goes
  PROVE  /\ ShouldBeFound' = ShouldBeFound /\ Matches' = Matches
         /\ Quietly' = Quietly /\ Firsts' = Firsts /\ Near' = Near
         /\ docs' = docs /\ index' = index /\ quiet' = quiet
         /\ job'.op = job.op /\ job'.query = job.query
<1>1. /\ docs' = docs /\ index' = index /\ quiet' = quiet
      /\ job'.query = job.query /\ job'.op = job.op
  BY DEF Goes, Environment
<1>2. ShouldBeFound' = ShouldBeFound
  BY <1>1 DEF ShouldBeFound, ShouldMatch
<1>3. Matches' = Matches
  BY <1>2 DEF Matches
<1>4. Quietly' = Quietly
  BY <1>1, <1>2 DEF Quietly
<1>5. Admissible' = Admissible
  BY <1>1, <1>3 DEF Admissible, Admitted
<1>6. Better' = Better
  BY <1>1, <1>3 DEF Better
<1>7. Firsts' = Firsts
  BY <1>5, <1>6 DEF Firsts, Best
<1>8. Near' = Near
  BY <1>1, <1>3 DEF Near, Admitted
<1> QED
  BY <1>1, <1>2, <1>3, <1>4, <1>7, <1>8

LEMMA CurrentStays ==
  ASSUME Current, Goes, job'.snaps = job.snaps
  PROVE  Current'
BY SameCall DEF Current, Goes

LEMMA CurrentGrows ==
  ASSUME Typed, Current, Goes, NEW p \in Projects, job'.snaps = WithSnapshot(job.snaps, p)
  PROVE  Current'
<1>1. /\ docs' = docs /\ quiet' = quiet /\ pc # "idle"
      /\ quiet => index = docs
  BY SameCall DEF Goes, Typed
<1>2. ASSUME quiet, NEW q \in DOMAIN job'.snaps, NEW e \in Members(q)
      PROVE  job'.snaps[q][e] = docs[e]
  <2>1. DOMAIN job'.snaps = DOMAIN job.snaps \cup {p}
    BY DEF WithSnapshot
  <2>2. CASE q = p
    <3>1. job'.snaps[q] = [f \in Members(q) |-> index[f]]
      BY <2>1, <2>2 DEF WithSnapshot, Snapshot
    <3> QED
      BY <1>1, <1>2, <3>1
  <2>3. CASE q # p
    <3>1. q \in DOMAIN job.snaps /\ job'.snaps[q] = job.snaps[q]
      BY <2>1, <2>3 DEF WithSnapshot
    <3> QED
      BY <1>1, <1>2, <3>1 DEF Current
  <2> QED
    BY <2>2, <2>3
<1> QED
  BY <1>1, <1>2 DEF Current

\* Where nothing has changed the index says what is stored, however it is read.
LEMMA QuietView ==
  ASSUME Typed, Current, quiet, pc # "idle", NEW p \in DOMAIN job.snaps
  PROVE  /\ \A e \in Members(p) : View(p)[e] = docs[e] /\ Record(e) = docs[e]
         /\ Indexed(p) = {e \in Members(p) : docs[e] # None}
         /\ Edges(p) = Stored(p)
<1>1. \A e \in Members(p) : View(p)[e] = docs[e]
  BY DEF Current, View, Snapshot, Typed
<1>2. \A e \in Members(p) : Record(e) = docs[e]
  BY <1>1 DEF Record, Members
<1>3. Indexed(p) = {e \in Members(p) : docs[e] # None}
  BY <1>1 DEF Indexed
<1>4. Edges(p) = Stored(p)
  <2>1. \A f \in Indexed(p) : View(p)[f] = docs[f]
    BY <1>1, <1>3
  <2> QED
    BY <1>3, <2>1 DEF Edges, Stored
<1> QED
  BY <1>1, <1>2, <1>3, <1>4

\* A match has a word, a tag or an id of the query, or is joined to one.
LEMMA MatchIs ==
  ASSUME Typed, job.op \in {"search", "retrieve"}, NEW e \in Entities
  PROVE  e \in ShouldBeFound <=>
           /\ e \in Members(job.query.project) /\ docs[e] # None
           /\ \/ docs[e].words \cap job.query.words # {}
              \/ docs[e].tags \cap job.query.tags # {}
              \/ e \in job.query.ids
              \/ \E x \in job.query.ids : Joined(e, x)
<1>1. PICK q \in Query : q = job.query
  BY DocsAssumption DEF Typed
<1>2. q.ids \subseteq Entities
  BY <1>1 DEF Query
<1>3. (\E x \in q.ids : Joined(e, x)) <=>
        \E f \in Members(q.project) :
          docs[f] # None /\ \E l \in docs[f].links, x \in q.ids \ {e} : {l[1], l[2]} = {e, x}
  BY <1>1 DEF Joined, Stored
<1>4. ShouldMatch(e) <=>
        /\ ProjectOf[e] = q.project /\ docs[e] # None
        /\ \/ docs[e].words \cap q.words # {}
           \/ docs[e].tags \cap q.tags # {}
           \/ e \in q.ids
           \/ \E f \in Members(q.project) :
                docs[f] # None /\ \E l \in docs[f].links, x \in q.ids \ {e} : {l[1], l[2]} = {e, x}
  BY <1>1, Zenon DEF ShouldMatch
<1>5. e \in Members(q.project) <=> ProjectOf[e] = q.project
  BY DEF Members
<1> QED
  BY <1>1, <1>3, <1>4, <1>5 DEF ShouldBeFound

----
(* The questions of a quiet call.                                          *)

\* What a question adds should be found, and what is still missing is awaited.
Pursued(X) ==
  /\ job'.words \subseteq job.words /\ job'.tags \subseteq job.tags
  /\ job'.ids \subseteq job.ids /\ job'.hubs \subseteq job.hubs
  /\ pc' = "inward" \/ job'.edges # {} => job'.hub \in job.query.ids
  /\ \A l \in job'.edges : l \in Stored(job.query.project) /\ job'.hub \in {l[1], l[2]}
  /\ X \subseteq ShouldBeFound
  /\ \A e \in ShouldBeFound \ (Found \cup X) : Awaited(e)'

LEMMA FoundGrows ==
  ASSUME Typed, NEW n \in 1 .. 4, NEW X \in SUBSET Entities, Asks(n, X)
  PROVE  Found' = Found \cup X
<1>1. job.found \in [1 .. 4 -> SUBSET Entities]
  BY DEF Typed, Job
<1>2. job'.found = [job.found EXCEPT ![n] = job.found[n] \cup X]
  BY DEF Asks
<1> QED
  BY <1>1, <1>2 DEF Found

\* A question that pursues what should be found keeps the hunt going.
LEMMA AsksReach ==
  ASSUME IInv, QInv, NEW n \in 1 .. 4, NEW X \in SUBSET Entities, Asks(n, X),
         Quietly => Pursued(X)
  PROVE  QInv'
<1>1. Goes /\ pc \in Asking /\ pc' \in Asking /\ job'.snaps = job.snaps
  BY DEF Asks, Elsewhere
<1>2. Current'
  BY <1>1, CurrentStays DEF QInv
<1>3. Found' = Found \cup X
  BY FoundGrows DEF IInv
<1>4. Hunting'
  <2>1. SUFFICES ASSUME Quietly' PROVE Hunting'
    BY DEF Hunting
  <2>2. Quietly /\ ShouldBeFound' = ShouldBeFound /\ job'.query = job.query /\ docs' = docs
    BY <1>1, <2>1, SameCall
  <2>3. \A p : Stored(p)' = Stored(p)
    BY <2>2 DEF Stored, Members
  <2>4. /\ job.words \subseteq job.query.words /\ job.tags \subseteq job.query.tags
        /\ job.ids \subseteq job.query.ids /\ job.hubs \subseteq job.query.ids
        /\ Found \subseteq ShouldBeFound
    BY <1>1, <2>2 DEF QInv, Hunting
  <2>5. Pursued(X)
    BY <2>2
  <2>6. Found' \subseteq ShouldBeFound' /\ \A e \in ShouldBeFound' \ Found' : Awaited(e)'
    BY <1>3, <2>2, <2>4, <2>5 DEF Pursued
  <2>7. \A l \in job'.edges : l \in Stored(job.query.project)' /\ job'.hub \in {l[1], l[2]}
    BY <2>2, <2>3, <2>5 DEF Pursued
  <2> QED
    BY <2>2, <2>4, <2>5, <2>6, <2>7 DEF Hunting, Pursued
<1>5. Passing' /\ Sifting' /\ Reaching' /\ Answering'
  BY <1>1 DEF Passing, Sifting, Reaching, Answering, Asking, Going
<1> QED
  BY <1>2, <1>4, <1>5 DEF QInv

\* What a quiet call asks is what is stored.
LEMMA HuntIs ==
  ASSUME IInv, QInv, pc \in Asking, Quietly
  PROVE  /\ Here = {e \in Members(job.query.project) : docs[e] # None}
         /\ Here \subseteq Entities /\ ShouldBeFound \subseteq Here
         /\ \A e \in Here : Record(e) = docs[e]
         /\ \A e \in Here :
              \/ docs[e].words \cap job.query.words # {}
              \/ docs[e].tags \cap job.query.tags # {}
              \/ e \in job.query.ids
              \/ \E x \in job.query.ids : Joined(e, x)
              => e \in ShouldBeFound
         /\ Edges(job.query.project) = Stored(job.query.project)
         /\ Stored(job.query.project) \subseteq Entities \X Entities
<1>1. PICK p \in DOMAIN job.snaps : p = job.query.project
  BY DEF IInv, Starting
<1>2. Typed /\ Current /\ quiet /\ pc # "idle" /\ job.op \in {"search", "retrieve"}
  BY DEF IInv, QInv, Quietly, Asking
<1>3. /\ \A e \in Members(p) : View(p)[e] = docs[e] /\ Record(e) = docs[e]
      /\ Indexed(p) = {e \in Members(p) : docs[e] # None}
      /\ Edges(p) = Stored(p)
  BY <1>2, QuietView
<1>4. Here = {e \in Members(p) : docs[e] # None}
  BY <1>1, <1>3 DEF Here
<1>5. Here \subseteq Entities /\ \A e \in Here : Record(e) = docs[e]
  BY <1>3, <1>4 DEF Members
<1>6. Stored(p) \subseteq Entities \X Entities
  <2>1. \A l \in Edges(p) : l \in Entities \X Entities
    BY <1>2, EdgesAre
  <2> QED
    BY <1>3, <2>1
<1>7. ASSUME NEW e \in Entities
      PROVE  e \in ShouldBeFound <=>
               /\ e \in Members(job.query.project) /\ docs[e] # None
               /\ \/ docs[e].words \cap job.query.words # {}
                  \/ docs[e].tags \cap job.query.tags # {}
                  \/ e \in job.query.ids
                  \/ \E x \in job.query.ids : Joined(e, x)
  BY <1>2, MatchIs
<1>8. ShouldBeFound \subseteq Here
  <2>1. ShouldBeFound \subseteq Entities
    BY DEF ShouldBeFound
  <2> QED
    BY <1>1, <1>4, <1>7, <2>1
<1> QED
  BY <1>1, <1>3, <1>4, <1>5, <1>6, <1>7, <1>8

\* Where nothing has changed the same are joined.
LEMMA JoinsStay ==
  ASSUME Goes
  PROVE  /\ docs' = docs /\ Stored(job.query.project)' = Stored(job.query.project)
         /\ \A e, x : Joined(e, x)' <=> Joined(e, x)
BY SameCall DEF Joined, Stored, Members

LEMMA AskKeywordReaches ==
  ASSUME IInv, QInv, NEW w \in Words, AskKeyword(w)
  PROVE  QInv'
<1>1. PICK X \in SUBSET Entities : X = {e \in Here : w \in Record(e).words}
  BY DEF Here, Indexed, Members
<1>2. Typed /\ job.query.project \in DOMAIN job.snaps
  BY DEF IInv, Starting, AskKeyword, Asking
<1>3. /\ Asks(1, X) /\ pc = "build" /\ pc' = "build" /\ w \in job.words
      /\ job'.words = job.words \ {w} /\ job'.tags = job.tags /\ job'.ids = job.ids
      /\ job'.hubs = job.hubs /\ job'.hub = job.hub
      /\ job'.edges = job.edges
  BY <1>1, <1>2, AskKeywordAsks
<1>4. ASSUME Quietly PROVE Pursued(X)
  <2>1. /\ job.words \subseteq job.query.words
        /\ job.edges # {} => job.hub \in job.query.ids
        /\ \A l \in job.edges : l \in Stored(job.query.project) /\ job.hub \in {l[1], l[2]}
        /\ \A e \in ShouldBeFound \ Found : Awaited(e)
    BY <1>3, <1>4 DEF QInv, Hunting, Asking
  <2>2. /\ ShouldBeFound \subseteq Here /\ \A e \in Here : Record(e) = docs[e]
        /\ \A e \in Here : docs[e].words \cap job.query.words # {} => e \in ShouldBeFound
    BY <1>3, <1>4, HuntIs DEF Asking
  <2>3. X \subseteq ShouldBeFound
    BY <1>1, <1>3, <2>1, <2>2
  <2>4. Goes /\ docs' = docs /\ \A e, x : Joined(e, x)' <=> Joined(e, x)
    BY <1>3, JoinsStay DEF Asks
  <2>5. ASSUME NEW e \in ShouldBeFound \ (Found \cup X)
        PROVE  Awaited(e)'
    <3>1. Awaited(e)
      BY <2>1
    <3>2. w \notin docs[e].words
      BY <1>1, <2>2
    <3>3. CASE docs[e].words \cap job.words # {}
      <4>1. docs'[e].words \cap job'.words # {}
        BY <1>3, <2>4, <3>2, <3>3
      <4> QED
        BY <4>1 DEF Awaited
    <3>4. CASE ~(docs[e].words \cap job.words # {})
      BY <1>3, <2>4, <3>1, <3>4 DEF Awaited, End
    <3> QED
      BY <3>3, <3>4
  <2> QED
    BY <1>3, <2>1, <2>3, <2>5 DEF Pursued
<1> QED
  BY <1>3, <1>4, AsksReach

LEMMA AskTagReaches ==
  ASSUME IInv, QInv, NEW t \in Words, AskTag(t)
  PROVE  QInv'
<1>1. PICK X \in SUBSET Entities : X = {e \in Here : t \in Record(e).tags}
  BY DEF Here, Indexed, Members
<1>2. Typed /\ job.query.project \in DOMAIN job.snaps
  BY DEF IInv, Starting, AskTag, Asking
<1>3. /\ Asks(2, X) /\ pc = "build" /\ pc' = "build" /\ t \in job.tags
      /\ job'.words = job.words /\ job'.tags = job.tags \ {t} /\ job'.ids = job.ids
      /\ job'.hubs = job.hubs /\ job'.hub = job.hub
      /\ job'.edges = job.edges
  BY <1>1, <1>2, AskTagAsks
<1>4. ASSUME Quietly PROVE Pursued(X)
  <2>1. /\ job.tags \subseteq job.query.tags
        /\ job.edges # {} => job.hub \in job.query.ids
        /\ \A l \in job.edges : l \in Stored(job.query.project) /\ job.hub \in {l[1], l[2]}
        /\ \A e \in ShouldBeFound \ Found : Awaited(e)
    BY <1>3, <1>4 DEF QInv, Hunting, Asking
  <2>2. /\ ShouldBeFound \subseteq Here /\ \A e \in Here : Record(e) = docs[e]
        /\ \A e \in Here : docs[e].tags \cap job.query.tags # {} => e \in ShouldBeFound
    BY <1>3, <1>4, HuntIs DEF Asking
  <2>3. X \subseteq ShouldBeFound
    BY <1>1, <1>3, <2>1, <2>2
  <2>4. Goes /\ docs' = docs /\ \A e, x : Joined(e, x)' <=> Joined(e, x)
    BY <1>3, JoinsStay DEF Asks
  <2>5. ASSUME NEW e \in ShouldBeFound \ (Found \cup X)
        PROVE  Awaited(e)'
    <3>1. Awaited(e)
      BY <2>1
    <3>2. t \notin docs[e].tags
      BY <1>1, <2>2
    <3>3. CASE docs[e].tags \cap job.tags # {}
      <4>1. docs'[e].tags \cap job'.tags # {}
        BY <1>3, <2>4, <3>2, <3>3
      <4> QED
        BY <4>1 DEF Awaited
    <3>4. CASE ~(docs[e].tags \cap job.tags # {})
      BY <1>3, <2>4, <3>1, <3>4 DEF Awaited, End
    <3> QED
      BY <3>3, <3>4
  <2> QED
    BY <1>3, <2>1, <2>3, <2>5 DEF Pursued
<1> QED
  BY <1>3, <1>4, AsksReach

LEMMA AskIdReaches ==
  ASSUME IInv, QInv, NEW d \in Entities, AskId(d)
  PROVE  QInv'
<1>1. PICK X \in SUBSET Entities : X = Here \cap {d}
  OBVIOUS
<1>2. Typed /\ job.query.project \in DOMAIN job.snaps
  BY DEF IInv, Starting, AskId, Asking
<1>3. /\ Asks(3, X) /\ pc = "build" /\ pc' = "build" /\ d \in job.ids
      /\ job'.words = job.words /\ job'.tags = job.tags /\ job'.ids = job.ids \ {d}
      /\ job'.hubs = job.hubs /\ job'.hub = job.hub
      /\ job'.edges = job.edges
  BY <1>1, <1>2, AskIdAsks
<1>4. ASSUME Quietly PROVE Pursued(X)
  <2>1. /\ job.ids \subseteq job.query.ids
        /\ job.edges # {} => job.hub \in job.query.ids
        /\ \A l \in job.edges : l \in Stored(job.query.project) /\ job.hub \in {l[1], l[2]}
        /\ \A e \in ShouldBeFound \ Found : Awaited(e)
    BY <1>3, <1>4 DEF QInv, Hunting, Asking
  <2>2. /\ ShouldBeFound \subseteq Here
        /\ \A e \in Here : e \in job.query.ids => e \in ShouldBeFound
    BY <1>3, <1>4, HuntIs DEF Asking
  <2>3. X \subseteq ShouldBeFound
    BY <1>1, <1>3, <2>1, <2>2
  <2>4. Goes /\ docs' = docs /\ \A e, x : Joined(e, x)' <=> Joined(e, x)
    BY <1>3, JoinsStay DEF Asks
  <2>5. ASSUME NEW e \in ShouldBeFound \ (Found \cup X)
        PROVE  Awaited(e)'
    <3>1. Awaited(e) /\ e # d
      BY <1>1, <2>1, <2>2
    <3> QED
      BY <1>3, <2>4, <3>1 DEF Awaited, End
  <2> QED
    BY <1>3, <2>1, <2>3, <2>5 DEF Pursued
<1> QED
  BY <1>3, <1>4, AsksReach

\* The edges from an id are gone through, those to it asked for next.
LEMMA AskOutwardReaches ==
  ASSUME IInv, QInv, NEW d \in Entities, AskOutward(d)
  PROVE  QInv'
<1>2. Typed /\ job.query.project \in DOMAIN job.snaps
  BY DEF IInv, Starting, AskOutward, Asking
<1>3. /\ Asks(1, {}) /\ pc = "build" /\ pc' = "inward" /\ Settled /\ d \in job.hubs
      /\ job'.words = job.words /\ job'.tags = job.tags /\ job'.ids = job.ids
      /\ job'.hubs = job.hubs \ {d} /\ job'.hub = d
      /\ job'.edges = Outward(job.query.project, d)
  BY <1>2, AskOutwardAsks
<1>4. ASSUME Quietly PROVE Pursued({})
  <2>1. job.hubs \subseteq job.query.ids /\ \A e \in ShouldBeFound \ Found : Awaited(e)
    BY <1>3, <1>4 DEF QInv, Hunting, Asking
  <2>2. PICK S \in SUBSET (Entities \X Entities) :
          S = Stored(job.query.project) /\ S = Edges(job.query.project)
    BY <1>3, <1>4, HuntIs DEF Asking
  <2>3. job'.edges = {l \in S : l[1] = d}
    BY <1>3, <2>2 DEF Outward
  <2>4. /\ Goes /\ docs' = docs /\ Stored(job.query.project)' = S
        /\ \A e, x : Joined(e, x)' <=> Joined(e, x)
    BY <1>3, <2>2, JoinsStay DEF Asks
  <2>5. ASSUME NEW e \in ShouldBeFound \ Found
        PROVE  Awaited(e)'
    <3>1. PICK x \in job.hubs : Joined(e, x)
      BY <1>3, <2>1 DEF Awaited, Settled
    <3>2. CASE x # d
      <4>1. x \in job'.hubs /\ Joined(e, x)'
        BY <1>3, <2>4, <3>1, <3>2
      <4> QED
        BY <4>1 DEF Awaited
    <3>3. CASE x = d
      <4>1. e # d /\ \E l \in S : {l[1], l[2]} = {e, d}
        BY <2>2, <3>1, <3>3 DEF Joined
      <4>2. PICK l \in S : {l[1], l[2]} = {e, d}
        BY <4>1
      <4>3. PICK a, b : l = <<a, b>> /\ a = l[1] /\ b = l[2]
        BY <2>2
      <4>4. (a = d /\ b = e) \/ (a = e /\ b = d)
        BY <4>1, <4>2, <4>3
      <4>5. CASE a = d /\ b = e
        <5>1. l \in job'.edges /\ End(l)' = e
          BY <1>3, <2>3, <4>3, <4>5 DEF End
        <5> QED
          BY <1>3, <4>1, <5>1 DEF Awaited
      <4>6. CASE a = e /\ b = d
        <5>1. <<e, d>> \in Stored(job.query.project)'
          BY <2>4, <4>3, <4>6
        <5> QED
          BY <1>3, <4>1, <5>1 DEF Awaited
      <4> QED
        BY <4>4, <4>5, <4>6
    <3> QED
      BY <3>2, <3>3
  <2> QED
    BY <1>3, <2>1, <2>2, <2>3, <2>5 DEF Pursued
<1>5. 1 \in 1 .. 4 /\ {} \in SUBSET Entities
  OBVIOUS
<1> QED
  BY <1>3, <1>4, <1>5, AsksReach

LEMMA AskInwardReaches ==
  ASSUME IInv, QInv, AskInward
  PROVE  QInv'
<1>2. Typed /\ job.query.project \in DOMAIN job.snaps
  BY DEF IInv, Starting, AskInward, Asking
<1>3. /\ Asks(1, {}) /\ pc = "inward" /\ pc' = "build"
      /\ job'.words = job.words /\ job'.tags = job.tags /\ job'.ids = job.ids
      /\ job'.hubs = job.hubs /\ job'.hub = job.hub
      /\ job'.edges = job.edges \cup Inward(job.query.project, job.hub)
  BY <1>2, AskInwardAsks
<1>4. ASSUME Quietly PROVE Pursued({})
  <2>1. /\ job.hub \in job.query.ids
        /\ \A l \in job.edges : l \in Stored(job.query.project) /\ job.hub \in {l[1], l[2]}
        /\ \A e \in ShouldBeFound \ Found : Awaited(e)
    BY <1>3, <1>4 DEF QInv, Hunting, Asking
  <2>2. PICK S, d :
          /\ S \in SUBSET (Entities \X Entities)
          /\ S = Stored(job.query.project)
          /\ S = Edges(job.query.project)
          /\ d = job.hub
    BY <1>3, <1>4, HuntIs DEF Asking
  <2>3. job'.edges = job.edges \cup {l \in S : l[2] = d}
    BY <1>3, <2>2 DEF Inward
  <2>4. /\ Goes /\ docs' = docs /\ \A e, x : Joined(e, x)' <=> Joined(e, x)
    BY <1>3, JoinsStay DEF Asks
  <2>5. ASSUME NEW e \in ShouldBeFound \ Found
        PROVE  Awaited(e)'
    <3>1. Awaited(e)
      BY <2>1
    <3>2. CASE e # d /\ <<e, d>> \in S
      <4>1. PICK l \in S : l = <<e, d>>
        BY <3>2
      <4>2. l[1] = e /\ l[2] = d
        BY <4>1
      <4>3. l \in job'.edges /\ End(l)' = e
        BY <1>3, <2>2, <2>3, <3>2, <4>1, <4>2 DEF End
      <4> QED
        BY <1>3, <2>2, <3>2, <4>3 DEF Awaited
    <3>3. CASE ~(e # d /\ <<e, d>> \in S)
      BY <1>3, <2>2, <2>4, <3>1, <3>3 DEF Awaited, End
    <3> QED
      BY <3>2, <3>3
  <2> QED
    BY <1>3, <2>1, <2>2, <2>3, <2>5 DEF Pursued
<1>5. 1 \in 1 .. 4 /\ {} \in SUBSET Entities
  OBVIOUS
<1> QED
  BY <1>3, <1>4, <1>5, AsksReach

LEMMA AskNodeReaches ==
  ASSUME IInv, QInv, NEW l \in job.edges, AskNode(l)
  PROVE  QInv'
<1>1. PICK X \in SUBSET Entities : X = (Here \cap {End(l)}) \ {job.hub}
  BY DEF Here, Indexed, Members
<1>2. Typed /\ job.query.project \in DOMAIN job.snaps
  BY DEF IInv, Starting, AskNode, Asking
<1>3. /\ Asks(4, X) /\ pc = "build" /\ pc' = "build"
      /\ job'.words = job.words /\ job'.tags = job.tags /\ job'.ids = job.ids
      /\ job'.hubs = job.hubs /\ job'.hub = job.hub
      /\ job'.edges = job.edges \ {l}
  BY <1>1, <1>2, AskNodeAsks
<1>4. ASSUME Quietly PROVE Pursued(X)
  <2>1. /\ job.hub \in job.query.ids
        /\ \A k \in job.edges : k \in Stored(job.query.project) /\ job.hub \in {k[1], k[2]}
        /\ \A e \in ShouldBeFound \ Found : Awaited(e)
    BY <1>3, <1>4 DEF QInv, Hunting, Asking
  <2>2. /\ ShouldBeFound \subseteq Here
        /\ \A e \in Here : (\E x \in job.query.ids : Joined(e, x)) => e \in ShouldBeFound
    BY <1>3, <1>4, HuntIs DEF Asking
  <2>3. X \subseteq ShouldBeFound
    <3>1. ASSUME NEW e \in X PROVE e \in ShouldBeFound
      <4>1. e \in Here /\ e = End(l) /\ e # job.hub
        BY <1>1
      <4>2. PICK a, b : a = l[1] /\ b = l[2]
        OBVIOUS
      <4>3. job.hub \in {a, b} /\ e = IF a = job.hub THEN b ELSE a
        BY <2>1, <4>1, <4>2 DEF End
      <4>4. {a, b} = {e, job.hub}
        BY <4>1, <4>3
      <4>5. Joined(e, job.hub)
        BY <2>1, <4>1, <4>2, <4>4 DEF Joined
      <4> QED
        BY <2>1, <2>2, <4>1, <4>5
    <3> QED
      BY <3>1
  <2>4. Goes /\ docs' = docs /\ \A e, x : Joined(e, x)' <=> Joined(e, x)
    BY <1>3, JoinsStay DEF Asks
  <2>5. ASSUME NEW e \in ShouldBeFound \ (Found \cup X)
        PROVE  Awaited(e)'
    <3>1. Awaited(e) /\ ~(End(l) = e /\ e # job.hub)
      BY <1>1, <2>1, <2>2
    <3> QED
      BY <1>3, <2>4, <3>1 DEF Awaited, End
  <2> QED
    BY <1>3, <2>1, <2>3, <2>5 DEF Pursued
<1> QED
  BY <1>3, <1>4, AsksReach

----
(* The beginnings and ends of calls, and the others.                       *)

\* Where no call is under way there is nothing to show.
LEMMA IdleReaches ==
  ASSUME pc = "idle"
  PROVE  QInv
BY DEF QInv, Current, Hunting, Passing, Sifting, Reaching, Answering, Asking, Going

LEMMA InitReaches ==
  ASSUME Init
  PROVE  QInv
BY IdleReaches DEF Init

LEMMA BeginReaches ==
  ASSUME \/ \E query \in Queries : Retrieve(query) \/ Search(query)
         \/ \E e \in Entities : Related(e)
  PROVE  QInv'
<1>1. ASSUME NEW op, NEW phase \in {"snapshot", "seed"}, NEW query, NEW seed,
             Begin(op, phase, query, seed)
      PROVE  QInv'
  <2>1. pc' = phase /\ job' = [NoJob EXCEPT !.op = op, !.query = query, !.seed = seed]
    BY <1>1 DEF Begin
  <2>2. job'.snaps = NoSnapshots
    BY <2>1 DEF NoJob
  <2>3. DOMAIN NoSnapshots = {}
    BY DEF NoSnapshots
  <2>4. Current'
    BY <2>2, <2>3 DEF Current
  <2>5. Hunting' /\ Passing' /\ Sifting' /\ Reaching' /\ Answering'
    BY <2>1 DEF Hunting, Passing, Sifting, Reaching, Answering, Asking, Going
  <2> QED
    BY <2>4, <2>5 DEF QInv
<1>2. ASSUME NEW query \in Queries, Retrieve(query) \/ Search(query)
      PROVE  QInv'
  BY <1>1, <1>2 DEF Retrieve, Search
<1>3. ASSUME NEW e \in Entities, Related(e)
      PROVE  QInv'
  BY <1>1, <1>3 DEF Related
<1> QED
  BY <1>2, <1>3

LEMMA ReturnReaches ==
  ASSUME Return
  PROVE  QInv'
BY DEF Return, QInv, Current, Hunting, Passing, Sifting, Reaching, Answering, Asking, Going

\* What the others do ends the quiet.
LEMMA OthersReach ==
  ASSUME NEW e \in Entities,
         Delete(e) \/ Index(e) \/ \E d \in DocsOf[e] : Write(e, d)
  PROVE  QInv'
<1>1. quiet' = FALSE
  BY DEF Delete, Index, Write, Changed
<1> QED
  BY <1>1 DEF QInv, Current, Hunting, Passing, Sifting, Reaching, Answering, Quietly

LEMMA StutterReaches ==
  ASSUME QInv, UNCHANGED vars
  PROVE  QInv'
<1>1. docs' = docs /\ pc' = pc /\ job' = job /\ quiet' = quiet
  BY DEF vars
<1>2. /\ ShouldBeFound' = ShouldBeFound /\ Visited' = Visited /\ (Room <=> Room')
      /\ Found' = Found /\ Kept' = Kept
  BY <1>1 DEF ShouldBeFound, ShouldMatch, Visited, Room, Limit, Found, Kept
<1>3. Matches' = Matches /\ Quietly' = Quietly
  BY <1>1, <1>2 DEF Matches, Quietly
<1>4. Current'
  BY <1>1 DEF QInv, Current
<1>5. Sifting' /\ Passing'
  BY <1>1, <1>2, <1>3 DEF QInv, Sifting, Passing
<1>6. \A p : Stored(p)' = Stored(p)
  BY <1>1 DEF Stored, Members
<1>7. \A e \in Entities : Wanted(e)' = Wanted(e)
  BY <1>1 DEF Wanted
<1>8. Pending' = Pending
  BY <1>1, <1>6 DEF Pending, End
<1>9. Reaching'
  BY <1>1, <1>2, <1>3, <1>8 DEF QInv, Reaching, Leads, Wanted
<1>10. Hunting'
  <2>1. \A e, x : Joined(e, x)' <=> Joined(e, x)
    BY <1>1, <1>6 DEF Joined
  <2>2. \A e : Awaited(e)' <=> Awaited(e)
    BY <1>1, <1>6, <2>1 DEF Awaited, End
  <2> QED
    BY <1>1, <1>2, <1>3, <1>6, <2>2 DEF QInv, Hunting
<1>11. Admissible' = Admissible /\ Better' = Better /\ Near' = Near
  BY <1>1, <1>3 DEF Admissible, Admitted, Better, Near
<1>12. Firsts' = Firsts
  BY <1>11 DEF Firsts, Best
<1>13. Answering'
  BY <1>1, <1>2, <1>3, <1>11, <1>12 DEF QInv, Answering, EntitiesOf
<1> QED
  BY <1>4, <1>5, <1>9, <1>10, <1>13 DEF QInv

LEMMA LoadSeedReaches ==
  ASSUME IInv, QInv, LoadSeed
  PROVE  QInv'
<1>1. /\ pc = "seed" /\ job \in Job /\ job.op = "related"
  BY DEF IInv, Typed, LoadSeed
<1>2. /\ Goes /\ pc' \in {"raised", "snapshot"}
      /\ \/ job' = job
         \/ \E item \in Item :
              job' = [job EXCEPT !.result = <<item>>, !.direct = 1, !.queue = <<item>>]
  BY LoadSeedGoes DEF IInv
<1>3. job'.snaps = job.snaps
  BY <1>1, <1>2 DEF Job
<1>4. Current'
  BY <1>2, <1>3, CurrentStays DEF QInv
<1>5. ~Quietly'
  BY <1>1, <1>2, SameCall DEF Quietly
<1> QED
  BY <1>4, <1>5 DEF QInv, Hunting, Passing, Sifting, Reaching, Answering

\* A search sets out with all of its questions.
LEMMA TakeSnapshotReaches ==
  ASSUME IInv, QInv, TakeSnapshot
  PROVE  QInv'
<1>1. /\ Goes /\ pc = "snapshot" /\ Home \in Projects /\ job \in Job
      /\ pc' = IF job.op = "related" THEN "expand" ELSE "build"
  BY TakeSnapshotGoes DEF IInv, Typed
<1>2. /\ job'.snaps = WithSnapshot(job.snaps, Home)
      /\ job.op # "related" =>
           /\ job'.words = job.query.words /\ job'.tags = job.query.tags
           /\ job'.ids = job.query.ids /\ job'.hubs = job.query.ids
           /\ job'.found = job.found /\ job'.edges = job.edges
  <2>1. CASE job.op = "related"
    <3>1. job' = [job EXCEPT !.snaps = WithSnapshot(job.snaps, Home)]
      BY <2>1, TakeSnapshotGoes, Zenon DEF IInv
    <3> QED
      BY <1>1, <2>1, <3>1 DEF Job
  <2>2. CASE job.op # "related"
    <3>1. PICK words, tags, ids, snaps :
            /\ words = job.query.words /\ tags = job.query.tags /\ ids = job.query.ids
            /\ snaps = WithSnapshot(job.snaps, Home)
      OBVIOUS
    <3>2. job' = [job EXCEPT !.snaps = WithSnapshot(job.snaps, Home),
                             !.words = job.query.words, !.tags = job.query.tags,
                             !.ids = job.query.ids, !.hubs = job.query.ids]
      BY <2>2, TakeSnapshotGoes, Zenon DEF IInv
    <3>3. job' = [job EXCEPT !.snaps = snaps, !.words = words, !.tags = tags,
                             !.ids = ids, !.hubs = ids]
      BY <3>1, <3>2, Zenon
    <3> QED
      BY <1>1, <3>1, <3>3 DEF Job
  <2> QED
    BY <2>1, <2>2
<1>3. PICK p \in Projects : p = Home
  BY <1>1
<1>4. Current'
  BY <1>1, <1>2, <1>3, CurrentGrows DEF QInv, IInv
<1>5. pc' = "expand" => ~Quietly'
  BY <1>1, SameCall DEF Quietly
<1>6. Hunting'
  <2>1. SUFFICES ASSUME pc' = "build", Quietly' PROVE Hunting'
    BY <1>1 DEF Hunting, Asking
  <2>2. /\ Quietly /\ ShouldBeFound' = ShouldBeFound /\ job'.query = job.query
        /\ docs' = docs /\ job.op # "related"
    BY <1>1, <2>1, SameCall
  <2>3. job.found = NothingFound /\ job.edges = {}
    BY <1>1 DEF IInv, Starting
  <2>4. Found' = {}
    BY <1>2, <2>2, <2>3 DEF Found, NothingFound
  <2>5. \A e, x : Joined(e, x)' <=> Joined(e, x)
    BY <1>1, JoinsStay
  <2>6. ASSUME NEW e \in ShouldBeFound PROVE Awaited(e)'
    <3>1. e \in Entities
      BY DEF ShouldBeFound
    <3>2. \/ docs[e].words \cap job.query.words # {}
          \/ docs[e].tags \cap job.query.tags # {}
          \/ e \in job.query.ids
          \/ \E x \in job.query.ids : Joined(e, x)
      BY <2>2, <3>1, MatchIs DEF IInv, Quietly
    <3> QED
      BY <1>2, <2>2, <2>5, <3>2 DEF Awaited
  <2> QED
    BY <1>2, <2>1, <2>2, <2>3, <2>4, <2>6 DEF Hunting
<1>7. Passing' /\ Sifting' /\ Reaching' /\ Answering'
  BY <1>1, <1>5 DEF Passing, Sifting, Reaching, Answering, Going
<1> QED
  BY <1>4, <1>6, <1>7 DEF QInv

----
(* The candidates of a quiet call.                                         *)

\* Where the limits admit everything found, all of it is a candidate.
LEMMA CutReaches ==
  ASSUME IInv, QInv, Cut
  PROVE  QInv'
<1>1. /\ pc = "build" /\ job \in Job /\ job.graded = {}
      /\ \A n \in 1 .. 4 : job.found[n] \subseteq Members(job.query.project)
  BY DEF IInv, Typed, Searching, Asking, Cut
<1>2. /\ Goes /\ pc' = "grade" /\ IsFiniteSet(Found) /\ Settled /\ job.hubs = {}
  BY <1>1, CutGoes DEF IInv
<1>3. PICK kept \in SUBSET Found :
        /\ Cardinality(kept) = Min({MaxCandidates, Cardinality(Found)})
        /\ job' = [job EXCEPT !.entries = kept]
  BY <1>1, CutGoes DEF IInv
<1>4. job'.snaps = job.snaps /\ job'.graded = {} /\ job'.entries = kept
  BY <1>1, <1>3 DEF Job
<1>5. Current'
  BY <1>2, <1>4, CurrentStays DEF QInv
<1>6. ASSUME Quietly PROVE kept = ShouldBeFound
  <2>1. Found = ShouldBeFound
    <3>1. Found \subseteq ShouldBeFound /\ \A e \in ShouldBeFound \ Found : Awaited(e)
      BY <1>1, <1>6 DEF QInv, Hunting, Asking
    <3>2. \A e : ~Awaited(e)
      BY <1>1, <1>2 DEF Awaited, Settled
    <3> QED
      BY <3>1, <3>2
  <2>2. Cardinality(Found) \in Nat /\ Cardinality(Found) <= MaxCandidates
    <3>1. Cardinality(Found) <= Min({MaxCandidates, RefineLimit})
      BY <1>6, <2>1 DEF Quietly
    <3> QED
      BY <1>2, <3>1, FS_CardinalityType, MinIs, LimitsAssumption
  <2>3. Cardinality(kept) = Cardinality(Found)
    BY <1>3, <2>2, MinIs, LimitsAssumption
  <2>4. Found = kept
    BY <1>2, <2>3, FS_Subset
  <2> QED
    BY <2>1, <2>4
<1>7. Passing'
  <2>1. SUFFICES ASSUME Quietly' PROVE Passing'
    BY DEF Passing
  <2>2. Quietly /\ ShouldBeFound' = ShouldBeFound
    BY <1>2, <2>1, SameCall
  <2>3. Kept' = kept
    BY <1>4 DEF Kept
  <2> QED
    BY <1>6, <2>2, <2>3 DEF Passing
<1>8. Hunting' /\ Sifting' /\ Reaching' /\ Answering'
  BY <1>2 DEF Hunting, Sifting, Reaching, Answering, Asking, Going
<1> QED
  BY <1>5, <1>7, <1>8 DEF QInv

\* None of them loses its record.
LEMMA GradeReaches ==
  ASSUME IInv, QInv, NEW e \in Entities, Grade(e)
  PROVE  QInv'
<1>1. /\ pc = "grade" /\ job \in Job /\ e \in job.entries
      /\ job.query.project \in DOMAIN job.snaps
      /\ job.entries \subseteq Members(job.query.project)
  BY DEF IInv, Typed, Starting, Grading, Grade
<1>2. Covered(e)
  BY <1>1 DEF Covered, Members
<1>3. /\ Goes /\ pc' = "grade"
      /\ job' = [job EXCEPT !.entries = job.entries \ {e},
                            !.graded = job.graded \cup GradedAs(e)]
  BY <1>2, GradeGoes DEF IInv
<1>4. PICK new : new = GradedAs(e)
  OBVIOUS
<1>5. /\ job'.snaps = job.snaps /\ job'.graded = job.graded \cup new
      /\ job'.entries = job.entries \ {e}
  BY <1>1, <1>3, <1>4 DEF Job
<1>6. Current'
  BY <1>3, <1>5, CurrentStays DEF QInv
<1>7. ASSUME Quietly PROVE Kept' = ShouldBeFound
  <2>1. Kept = ShouldBeFound
    BY <1>1, <1>7 DEF QInv, Passing
  <2>2. e \in ShouldBeFound
    BY <1>1, <2>1 DEF Kept
  <2>3. docs[e] # None /\ e \in Members(job.query.project)
    BY <1>1, <2>2 DEF ShouldBeFound, ShouldMatch
  <2>4. PICK p \in DOMAIN job.snaps : p = job.query.project
    BY <1>1
  <2>5. Record(e) = docs[e]
    BY <1>1, <1>7, <2>3, <2>4, QuietView DEF IInv, QInv, Quietly
  <2>6. PICK c : c = [e |-> e, doc |-> Record(e)]
    OBVIOUS
  <2>7. new = {c} /\ c.e = e
    BY <1>4, <2>3, <2>5, <2>6 DEF GradedAs
  <2> QED
    BY <1>1, <1>5, <2>1, <2>7 DEF Kept
<1>8. Passing'
  BY <1>3, <1>7, SameCall DEF Passing
<1>9. Hunting' /\ Sifting' /\ Reaching' /\ Answering'
  BY <1>3 DEF Hunting, Sifting, Reaching, Answering, Asking, Going
<1> QED
  BY <1>6, <1>8, <1>9 DEF QInv

\* All that should be found is scored, and no more than may be refined.
LEMMA PhaseReaches ==
  ASSUME IInv, QInv, Phase
  PROVE  QInv'
<1>1. /\ pc = "grade" /\ job \in Job /\ job.entries = {}
      /\ IsFiniteSet(job.graded) /\ \A c, d \in job.graded : c.e = d.e => c = d
      /\ job.at = 0 /\ job.ranked = {}
  BY DEF IInv, Typed, Starting, Grading, Phase
<1>2. Goes /\ pc' = "score"
  BY <1>1, PhaseGoes DEF IInv
<1>3. PICK phased \in Seq(Graded) :
        /\ job' = [job EXCEPT !.phased = phased]
        /\ Len(phased) = Cardinality(job.graded)
        /\ \A n \in DOMAIN phased : phased[n] \in job.graded
        /\ \A c \in job.graded : \E n \in DOMAIN phased : phased[n] = c
  BY <1>1, PhaseGoes DEF IInv
<1>4. /\ job'.snaps = job.snaps /\ job'.at = 0 /\ job'.ranked = {} /\ job'.phased = phased
  BY <1>1, <1>3 DEF Job
<1>5. Current'
  BY <1>2, <1>4, CurrentStays DEF QInv
<1>6. ASSUME Quietly
      PROVE  /\ Len(phased) <= RefineLimit
             /\ \A n \in DOMAIN phased : phased[n].e \in ShouldBeFound
             /\ \A e \in ShouldBeFound : \E n \in DOMAIN phased : phased[n].e = e
  <2>1. PICK S : S = job.graded
    OBVIOUS
  <2>2. ShouldBeFound = {c.e : c \in S}
    BY <1>1, <1>6, <2>1 DEF QInv, Passing, Kept
  <2>3. IsFiniteSet(ShouldBeFound) /\ Cardinality(ShouldBeFound) \in Nat
    BY MatchesAre, FS_CardinalityType DEF IInv
  <2>4. PICK f : f = [c \in S |-> c.e]
    OBVIOUS
  <2>5. f \in Injection(S, ShouldBeFound)
    <3>1. f \in [S -> ShouldBeFound]
      BY <2>2, <2>4
    <3>2. \A c, d \in S : f[c] = f[d] => c = d
      BY <1>1, <2>1, <2>4
    <3> QED
      BY <3>1, <3>2, Zenon DEF Injection, IsInjective
  <2>6. Cardinality(S) <= Cardinality(ShouldBeFound)
    BY <2>3, <2>5, FS_Injection
  <2>7. Cardinality(S) <= RefineLimit
    <3>1. Cardinality(ShouldBeFound) <= Min({MaxCandidates, RefineLimit})
      BY <1>6 DEF Quietly
    <3>2. Cardinality(ShouldBeFound) <= RefineLimit
      BY <2>3, <3>1, MinIs, LimitsAssumption
    <3>3. Cardinality(S) \in Nat
      BY <1>1, <2>1, FS_CardinalityType
    <3> QED
      BY <2>3, <2>6, <3>2, <3>3, LimitsAssumption
  <2> QED
    BY <1>3, <2>1, <2>2, <2>7
<1>7. Sifting'
  <2>1. SUFFICES ASSUME Quietly' PROVE Sifting'
    BY DEF Sifting
  <2>2. Quietly /\ ShouldBeFound' = ShouldBeFound /\ Matches' = Matches
    BY <1>2, <2>1, SameCall
  <2>3. /\ Len(phased) <= RefineLimit
        /\ \A n \in DOMAIN phased : phased[n].e \in ShouldBeFound
        /\ \A e \in Matches : \E n \in DOMAIN phased : phased[n].e = e
    BY <1>6, <2>2 DEF Matches
  <2>4. Len(phased) \in Nat
    OBVIOUS
  <2>5. job'.at + Len(job'.phased) <= RefineLimit
    BY <1>4, <2>3, <2>4
  <2> QED
    BY <1>4, <2>2, <2>3, <2>5 DEF Sifting
<1>8. Hunting' /\ Passing' /\ Reaching' /\ Answering'
  BY <1>2 DEF Hunting, Passing, Reaching, Answering, Asking, Going
<1> QED
  BY <1>5, <1>7, <1>8 DEF QInv

\* A candidate is taken as it is stored, and is no match if nothing is taken.
LEMMA ScoredReaches ==
  ASSUME IInv, QInv, pc = "score", pc' = "score", job.phased # << >>, UNCHANGED Environment,
         NEW items \in SUBSET Item, job' = Scored(items),
         Quietly => \A i \in items :
                      i.e = Foremost /\ ~i.stub /\ i.doc = docs[Foremost] /\ Len(i.path) = 1
                      /\ TypeOf[Foremost] = "knowledge",
         Quietly /\ TypeOf[Foremost] = "knowledge" => items # {}
  PROVE  QInv'
<1>1. /\ Goes /\ Foremost = job.phased[1].e /\ Foremost \in Entities
      /\ 1 \in DOMAIN job.phased
      /\ job'.phased = Tail(job.phased) /\ job'.at = job.at + 1
      /\ Len(job'.phased) = Len(job.phased) - 1
      /\ \A n \in DOMAIN job'.phased :
           n + 1 \in DOMAIN job.phased /\ job'.phased[n] = job.phased[n + 1]
      /\ job'.ranked = job.ranked \cup items
      /\ job'.snaps = job.snaps
  BY ScoredGoes DEF IInv
<1>2. Current'
  BY <1>1, CurrentStays DEF QInv
<1>3. Hunting' /\ Passing' /\ Reaching' /\ Answering'
  BY DEF Hunting, Passing, Reaching, Answering, Asking, Going
<1>4. Sifting'
  <2>1. SUFFICES ASSUME Quietly' PROVE Sifting'
    BY DEF Sifting
  <2>2. Quietly /\ ShouldBeFound' = ShouldBeFound /\ Matches' = Matches /\ docs' = docs
    BY <1>1, <2>1, SameCall
  <2>3. /\ job.at + Len(job.phased) <= RefineLimit
        /\ \A n \in DOMAIN job.phased : job.phased[n].e \in ShouldBeFound
        /\ \A i \in job.ranked :
             i.e \in Matches /\ ~i.stub /\ i.doc = docs[i.e] /\ Len(i.path) = 1
        /\ \A e \in Matches : (\E n \in DOMAIN job.phased : job.phased[n].e = e)
                                \/ \E i \in job.ranked : i.e = e
    BY <2>2 DEF QInv, Sifting
  <2>4. job.at \in Nat /\ Len(job.phased) \in Nat /\ job.phased \in Seq(Graded)
    BY DEF IInv, Typed, Job
  <2>5. job'.at + Len(job'.phased) <= RefineLimit
    <3>1. PICK a \in Nat, b \in Nat : a = job.at /\ b = Len(job.phased)
      BY <2>4
    <3>2. job'.at = a + 1 /\ Len(job'.phased) = b - 1 /\ a + b <= RefineLimit
      BY <1>1, <2>3, <3>1
    <3>3. (a + 1) + (b - 1) = a + b
      OBVIOUS
    <3> QED
      BY <3>2, <3>3
  <2>6. \A n \in DOMAIN job'.phased : job'.phased[n].e \in ShouldBeFound
    BY <1>1, <2>3
  <2>7. \A i \in items : i.e \in Matches /\ ~i.stub /\ i.doc = docs[i.e] /\ Len(i.path) = 1
    BY <1>1, <2>2, <2>3 DEF Matches
  <2>8. \A i \in job'.ranked : i.e \in Matches /\ ~i.stub /\ i.doc = docs[i.e] /\ Len(i.path) = 1
    BY <1>1, <2>3, <2>7
  <2>9. ASSUME NEW e \in Matches
        PROVE  (\E n \in DOMAIN job'.phased : job'.phased[n].e = e) \/ \E i \in job'.ranked : i.e = e
    <3>1. CASE e = Foremost
      <4>1. PICK i \in items : i.e = e
        BY <2>2, <3>1 DEF Matches
      <4> QED
        BY <1>1, <4>1
    <3>2. CASE \E i \in job.ranked : i.e = e
      BY <1>1, <3>2
    <3>3. ASSUME NEW n \in DOMAIN job.phased, job.phased[n].e = e, e # Foremost
          PROVE  \E m \in DOMAIN job'.phased : job'.phased[m].e = e
      <4>1. n \in 2 .. Len(job.phased)
        BY <1>1, <2>4, <3>3
      <4>2. n - 1 \in 1 .. Len(job'.phased) /\ (n - 1) + 1 = n
        BY <1>1, <2>4, <4>1
      <4>3. DOMAIN job'.phased = 1 .. Len(job'.phased)
        BY <1>1, <2>4
      <4> QED
        BY <1>1, <3>3, <4>2, <4>3
    <3> QED
      BY <2>3, <3>1, <3>2, <3>3
  <2> QED
    BY <2>2, <2>5, <2>6, <2>8, <2>9 DEF Sifting
<1> QED
  BY <1>2, <1>3, <1>4 DEF QInv

LEMMA SkipContextReaches ==
  ASSUME IInv, QInv, SkipContext
  PROVE  QInv'
BY ScoredReaches DEF SkipContext

\* There is no stub where the limit admits all candidates.
LEMMA KeepStubReaches ==
  ASSUME IInv, QInv, KeepStub
  PROVE  QInv'
<1>1. /\ pc = "score" /\ pc' = "score" /\ job.phased # << >> /\ UNCHANGED Environment
      /\ job.at >= RefineLimit
  BY DEF KeepStub
<1>2. PICK i : /\ job' = Scored({i})
               /\ i = [e |-> Foremost, doc |-> Head(job.phased).doc, stub |-> TRUE,
                       path |-> <<Foremost>>]
  BY DEF KeepStub
<1>3. i \in Item
  <2>1. PICK c \in Graded : c = Head(job.phased) /\ Foremost \in Entities
    BY <1>1, ForemostIs
  <2>2. c.doc \in Entry /\ c.doc # None
    <3>1. c.doc \in AllDocs
      BY DEF Graded
    <3>2. c.doc \in Doc
      BY <3>1, DocIs
    <3> QED
      BY <3>1, <3>2 DEF Entry, Doc, None
  <2>3. <<Foremost>> \in Seq(Entities)
    BY <2>1
  <2> QED
    BY <1>2, <2>1, <2>2, <2>3, ItemIs
<1>4. ~Quietly
  <2>1. SUFFICES ASSUME Quietly PROVE FALSE
    OBVIOUS
  <2>2. job.at + Len(job.phased) <= RefineLimit
    BY <1>1, <2>1 DEF QInv, Sifting
  <2>3. job.at \in Nat /\ job.phased \in Seq(Graded) /\ RefineLimit \in Nat
    BY LimitsAssumption DEF IInv, Typed, Job
  <2>4. Len(job.phased) \in Nat /\ Len(job.phased) # 0
    BY <1>1, <2>3
  <2> QED
    BY <1>1, <2>2, <2>3, <2>4
<1>5. PICK items \in SUBSET Item : items = {i}
  BY <1>3
<1> QED
  BY <1>1, <1>2, <1>4, <1>5, ScoredReaches

LEMMA RefineReaches ==
  ASSUME IInv, QInv, Refine
  PROVE  QInv'
<1>1. /\ pc = "score" /\ pc' = "score" /\ job.phased # << >> /\ UNCHANGED Environment
      /\ docs[Foremost] # None /\ TypeOf[Foremost] = "knowledge"
  BY DEF Refine
<1>2. PICK i : /\ job' = Scored({i})
               /\ i = [e |-> Foremost, doc |-> docs[Foremost], stub |-> FALSE,
                       path |-> <<Foremost>>]
  BY DEF Refine
<1>3. i \in Item
  <2>1. Foremost \in Entities /\ docs[Foremost] \in Entry
    BY <1>1, ForemostIs, DocsAre DEF IInv
  <2>2. <<Foremost>> \in Seq(Entities)
    BY <2>1
  <2> QED
    BY <1>1, <1>2, <2>1, <2>2, ItemIs
<1>4. i.e = Foremost /\ ~i.stub /\ i.doc = docs[Foremost] /\ Len(i.path) = 1
  BY <1>2
<1>5. PICK items \in SUBSET Item : items = {i}
  BY <1>3
<1>6. job' = Scored(items) /\ items # {} /\ \A x \in items : x = i
  BY <1>2, <1>5
<1> QED
  BY <1>1, <1>4, <1>6, ScoredReaches

\* A call that raises says why.
LEMMA RaisesReach ==
  ASSUME IInv, QInv, Goes, pc' = "raised", UNCHANGED job,
         Quietly => \/ \E e \in ShouldBeFound : TypeOf[e] \in {"decision", "artifact"}
                    \/ \E i \in Range(job.result) : TypeOf[i.e] = "artifact"
  PROVE  QInv'
<1>1. Current'
  BY CurrentStays DEF QInv
<1>2. Hunting' /\ Passing' /\ Sifting' /\ Reaching'
  BY DEF Hunting, Passing, Sifting, Reaching, Asking, Going
<1>3. Answering'
  BY SameCall DEF Answering
<1> QED
  BY <1>1, <1>2, <1>3 DEF QInv

LEMMA RefineRaisesReaches ==
  ASSUME IInv, QInv, RefineRaises
  PROVE  QInv'
<1>1. /\ pc = "score" /\ job.phased # << >> /\ TypeOf[Foremost] # "campaign"
      /\ (docs[Foremost] = None \/ TypeOf[Foremost] # "knowledge")
  BY DEF RefineRaises
<1>2. Goes /\ pc' = "raised" /\ UNCHANGED job
  BY RefineRaisesGoes DEF IInv
<1>3. Foremost \in Entities /\ Foremost = job.phased[1].e /\ 1 \in DOMAIN job.phased
  BY <1>1, ForemostIs
<1>4. ASSUME Quietly
      PROVE  \E e \in ShouldBeFound : TypeOf[e] \in {"decision", "artifact"}
  <2>1. Foremost \in ShouldBeFound
    BY <1>1, <1>3, <1>4 DEF QInv, Sifting
  <2>2. docs[Foremost] # None
    BY <2>1 DEF ShouldBeFound, ShouldMatch
  <2>3. TypeOf[Foremost] \in {"decision", "artifact"}
    BY <1>1, <1>3, <2>2, EntitiesAssumption DEF Types
  <2> QED
    BY <2>1, <2>3
<1> QED
  BY <1>2, <1>4, RaisesReach

----
(* The ranking of a quiet call.                                          *)

\* What is told is of the list.
LEMMA ToldAreListed ==
  ASSUME NEW s \in Seq(Item), NEW i \in Range(Selected(Admit(s)))
  PROVE  \E n \in DOMAIN s : i = s[n]
<1>1. Admit(s) \in Seq(Item)
  BY AdmitIs
<1>2. PICK at \in [DOMAIN Admit(s) -> DOMAIN s] : \A n \in DOMAIN Admit(s) : Admit(s)[n] = s[at[n]]
  BY AdmitIs
<1>3. PICK n \in DOMAIN Selected(Admit(s)) : i = Selected(Admit(s))[n]
  BY DEF Range
<1>4. n \in DOMAIN Admit(s) /\ i = Admit(s)[n]
  BY <1>1, <1>3, SelectedIs
<1> QED
  BY <1>2, <1>4

\* With everything scored the ranking is all matches, in order.
LEMMA RankedLeads ==
  ASSUME IInv, QInv, Quietly, pc = "score", job.phased = << >>
  PROVE  /\ Ranked \in Seq(Item) /\ Leads(Ranked, Len(Ranked))
         /\ \A n \in 1 .. Len(Ranked) : Len(Ranked[n].path) = 1
<1>1. PICK S \in SUBSET Item : S = job.ranked
  BY DEF IInv, Typed, Job
<1>2. IsFiniteSet(S) /\ \A i, j \in S : i.e = j.e => i = j
  BY <1>1 DEF IInv, Scoring
<1>3. /\ \A i \in S : i.e \in Matches /\ ~i.stub /\ i.doc = docs[i.e] /\ Len(i.path) = 1
      /\ \A e \in Matches : \E i \in S : i.e = e
  BY <1>1 DEF QInv, Sifting
<1>4. PICK Q : Q = {p \in S \X S : Before(p[1], p[2])}
  OBVIOUS
<1>5. Orders(Q, S)
  BY <1>2, <1>4, BeforeOrders
<1>6. PICK s : s = Sorted(S, Q)
  OBVIOUS
<1>7. s = Ranked
  BY <1>1, <1>4, <1>6 DEF Ranked
<1>8. /\ s \in Seq(S) /\ DOMAIN s = 1 .. Len(s) /\ Len(s) \in Nat
      /\ \A n \in DOMAIN s : s[n] \in S
      /\ \A x \in S : \E n \in DOMAIN s : s[n] = x
  BY <1>2, <1>5, <1>6, SortedSeq
<1>9. \A m, n \in DOMAIN s : m < n => <<s[m], s[n]>> \in Q
  BY <1>2, <1>5, <1>6, SortedSeq
<1>10. \A m, n \in 1 .. Len(s) : m < n => Before(s[m], s[n])
  BY <1>4, <1>8, <1>9
<1>11. s \in Seq(Item)
  BY <1>8
<1>12. \A e \in Matches : \E n \in 1 .. Len(s) : s[n].e = e
  BY <1>3, <1>8
<1>13. Leads(s, Len(s))
  BY <1>3, <1>8, <1>10, <1>12 DEF Leads
<1>14. \A n \in 1 .. Len(s) : Len(s[n].path) = 1
  BY <1>3, <1>8
<1> QED
  BY <1>7, <1>11, <1>13, <1>14

\* What is led by the matches stays so while nothing changes.
LEMMA LeadsStays ==
  ASSUME Goes, NEW s, NEW k, Leads(s, k)
  PROVE  Leads(s, k)'
<1>1. docs' = docs /\ Matches' = Matches
  BY SameCall
<1> QED
  BY <1>1 DEF Leads

\* search answers with the ranking, retrieve goes on from it.
LEMMA RankReaches ==
  ASSUME IInv, QInv, Rank
  PROVE  QInv'
<1>1. /\ pc = "score" /\ job.phased = << >> /\ job \in Job
      /\ IsFiniteSet(job.ranked) /\ \A i, j \in job.ranked : i.e = j.e => i = j
  BY DEF IInv, Typed, Rank, Scoring
<1>2. /\ Goes
      /\ \/ pc' = "raised" /\ UNCHANGED job
         \/ /\ pc' = "answered" /\ job.op = "search"
            /\ job' = [job EXCEPT !.items = Selected(Admit(Ranked))]
         \/ /\ pc' = "expand" /\ job.op = "retrieve"
            /\ job' = [job EXCEPT !.result = Ranked, !.direct = Len(Ranked),
                                  !.queue = Ranked]
  BY <1>1, RankGoes DEF IInv
<1>3. PICK s \in Seq(Item) : s = Ranked
  BY <1>1, RankedIs DEF IInv
<1>4. Quietly => Leads(s, Len(s)) /\ \A n \in 1 .. Len(s) : Len(s[n].path) = 1
  BY <1>1, <1>3, RankedLeads
<1>5. CASE pc' = "raised" /\ UNCHANGED job
  <2>1. \E i \in Range(Selected(Admit(s))) : ~i.stub /\ TypeOf[i.e] = "artifact"
    <3>1. pc' # "expand" /\ pc' # "answered"
      BY <1>5
    <3>2. Answer(Selected(Admit(Ranked)))
      BY <3>1 DEF Rank, Ranked
    <3>3. Answer(Selected(Admit(s)))
      BY <1>3, <3>2
    <3> QED
      BY <3>1, <3>3 DEF Answer
  <2>2. PICK n \in DOMAIN s : TypeOf[s[n].e] = "artifact"
    BY <2>1, ToldAreListed
  <2>3. ~Quietly
    BY <1>4, <2>2 DEF Leads, Matches
  <2> QED
    BY <1>2, <1>5, <2>3, RaisesReach
<1>6. CASE /\ pc' = "answered" /\ job.op = "search"
           /\ job' = [job EXCEPT !.items = Selected(Admit(Ranked))]
  <2>1. PICK items : items = Selected(Admit(s))
    OBVIOUS
  <2>2. job'.snaps = job.snaps /\ job'.items = items /\ job'.op = "search"
    BY <1>1, <1>3, <1>6, <2>1 DEF Job
  <2>3. Current'
    BY <1>2, <2>2, CurrentStays DEF QInv
  <2>4. Hunting' /\ Passing' /\ Sifting' /\ Reaching'
    BY <1>6 DEF Hunting, Passing, Sifting, Reaching, Asking, Going
  <2>5. Quietly' => EntitiesOf(items) = Firsts'
    <3>1. SUFFICES ASSUME Quietly PROVE EntitiesOf(items) = Firsts
      BY <1>2, SameCall
    <3>2. Len(s) \in 0 .. Len(s)
      OBVIOUS
    <3> QED
      BY <1>4, <2>1, <3>1, <3>2, FirstsAre DEF IInv
  <2>6. Answering'
    BY <1>6, <2>2, <2>5 DEF Answering, EntitiesOf
  <2> QED
    BY <2>3, <2>4, <2>6 DEF QInv
<1>7. CASE /\ pc' = "expand" /\ job.op = "retrieve"
           /\ job' = [job EXCEPT !.result = Ranked, !.direct = Len(Ranked), !.queue = Ranked]
  <2>1. /\ job'.snaps = job.snaps /\ job'.result = s /\ job'.direct = Len(s)
        /\ job'.queue = s
    BY <1>1, <1>3, <1>7 DEF Job
  <2>2. Current'
    BY <1>2, <2>1, CurrentStays DEF QInv
  <2>3. Hunting' /\ Passing' /\ Sifting' /\ Answering'
    BY <1>7 DEF Hunting, Passing, Sifting, Answering, Asking
  <2>4. Reaching'
    <3>1. SUFFICES ASSUME Quietly' PROVE Reaching'
      BY DEF Reaching
    <3>2. PICK k \in Nat : k = Len(s) /\ DOMAIN s = 1 .. k
      OBVIOUS
    <3>3. Leads(s, k)' /\ \A n \in 1 .. k : Len(s[n].path) = 1
      BY <1>2, <1>4, <3>1, <3>2, SameCall, LeadsStays
    <3>4. \A n \in 1 .. k : \E m \in DOMAIN s : s[m] = s[n]
      BY <3>2
    <3>5. pc' # "load"
      BY <1>7
    <3> QED
      BY <2>1, <3>2, <3>3, <3>4, <3>5 DEF Reaching, Leads
  <2> QED
    BY <2>2, <2>3, <2>4 DEF QInv
<1> QED
  BY <1>2, <1>5, <1>6, <1>7

----
(* The traverser of a quiet call.                                          *)

\* The neighbours that are wanted are at the ends of stored edges.
LEMMA WantedAre ==
  ASSUME NEW e \in Entities, NEW f \in Wanted(e)
  PROVE  /\ f \in Entities /\ f # e /\ docs[f] # None /\ TypeOf[f] = "knowledge"
         /\ <<e, f>> \in Stored(ProjectOf[e]) \/ <<f, e>> \in Stored(ProjectOf[e])
<1>1. PICK g \in Members(ProjectOf[e]) :
        docs[g] # None /\ {<<e, f>>, <<f, e>>} \cap docs[g].links # {}
  BY DEF Wanted
<1>2. <<e, f>> \in docs[g].links \/ <<f, e>> \in docs[g].links
  BY <1>1
<1>3. f \in Entities /\ f # e /\ docs[f] # None /\ TypeOf[f] = "knowledge"
  BY DEF Wanted
<1> QED
  BY <1>1, <1>2, <1>3 DEF Stored

\* A match is expanded, is being expanded, or still waits.
Tended(s, n, queue, phase, parent, pending) ==
  \/ \E m \in DOMAIN queue : queue[m] = s[n]
  \/ phase \in Going /\ parent = s[n] /\ Wanted(s[n].e) \subseteq pending \cup Visited
  \/ Wanted(s[n].e) \subseteq Visited

\* A step of the traverser that adds nothing to the list.
LEMMA TendsOn ==
  ASSUME IInv, QInv, Goes, pc \in Going \cup {"expand"}, pc' \in Going \cup {"expand"}, Current',
         job'.result = job.result, job'.direct = job.direct,
         Quietly /\ pc' = "load" => docs[job'.node] # None,
         NEW s, s = job.result,
         NEW queue, NEW parent, NEW pending, NEW phase,
         queue = job'.queue, parent = job'.parent, pending \subseteq Pending', phase = pc',
         Quietly /\ MaxDepth > 0 /\ Room =>
           \A n \in 1 .. job.direct : Tended(s, n, queue, phase, parent, pending)
  PROVE  QInv'
<1>1. Hunting' /\ Passing' /\ Sifting' /\ Answering'
  BY DEF Hunting, Passing, Sifting, Answering, Asking, Going
<1>2. /\ Visited' = Visited /\ (Room <=> Room') /\ \A e : Wanted(e)' = Wanted(e)
      /\ Quietly' = Quietly /\ docs' = docs
  BY SameCall DEF Visited, Room, Limit, Wanted
<1>3. Reaching'
  <2>1. SUFFICES ASSUME Quietly' PROVE Reaching'
    BY DEF Reaching
  <2>2. PICK k : k = job.direct
    OBVIOUS
  <2>3. /\ k <= Len(s) /\ Leads(s, k)
        /\ \A n \in 1 .. k : Len(s[n].path) = 1
    BY <1>2, <2>1, <2>2 DEF QInv, Reaching
  <2>4. Leads(s, k)'
    BY <2>3, LeadsStays
  <2>5. MaxDepth > 0 /\ Room' =>
          \A n \in 1 .. k :
            \/ \E m \in DOMAIN job'.queue : job'.queue[m] = s[n]
            \/ /\ pc' \in Going /\ job'.parent = s[n]
               /\ (Wanted(s[n].e)') \subseteq Pending' \cup Visited'
            \/ (Wanted(s[n].e)') \subseteq Visited'
    BY <1>2, <2>1, <2>2 DEF Tended
  <2>6. pc' = "load" => docs'[job'.node] # None
    BY <1>2, <2>1
  <2> QED
    BY <2>2, <2>3, <2>4, <2>5, <2>6 DEF Reaching
<1> QED
  BY <1>1, <1>3 DEF QInv

\* While there is room each match is tended to.
LEMMA AreTended ==
  ASSUME QInv, pc \in Going \cup {"expand"}, Quietly, MaxDepth > 0, Room,
         NEW s, s = job.result, NEW pending, pending = Pending
  PROVE  \A n \in 1 .. job.direct : Tended(s, n, job.queue, pc, job.parent, pending)
BY DEF QInv, Reaching, Tended

\* The first that waits is expanded, unless it is too deep to be a match.
LEMMA ExpandReaches ==
  ASSUME IInv, QInv, Expand
  PROVE  QInv'
<1>1. pc = "expand" /\ job \in Job /\ Room
  BY DEF IInv, Typed, Expand
<1>2. \A n \in DOMAIN job.queue :
        job.queue[n] \in Item /\ Vouched(job.queue[n]) /\ Covered(job.queue[n].e)
  BY <1>1, QueuedAre
<1>3. /\ Goes /\ job.queue # << >> /\ 1 \in DOMAIN job.queue
      /\ job'.queue = Tail(job.queue)
      /\ \/ pc' = "expand" /\ job' = [job EXCEPT !.queue = Tail(@)]
         \/ pc' = "onward" /\ ~(Depth(job.queue[1]) >= MaxDepth)
  BY <1>1, <1>2, ExpandGoes DEF IInv
<1>4. pc' = "expand" => Depth(job.queue[1]) >= MaxDepth
  <2>1. pc' = "expand" => Depth(Head(job.queue)) >= MaxDepth
    BY DEF Expand
  <2>2. Head(job.queue) = job.queue[1]
    <3>1. PICK q \in Seq(Item) : q = job.queue /\ q # << >>
      BY <1>1, <1>3 DEF Job
    <3> QED
      BY <3>1
  <2> QED
    BY <2>1, <2>2
<1>5. PICK first \in Item, queue \in Seq(Item), s \in Seq(Item) :
        first = job.queue[1] /\ Covered(first.e) /\ queue = job.queue /\ s = job.result
  BY <1>1, <1>2, <1>3 DEF Job
<1>8. ASSUME NEW x, NEW m \in DOMAIN queue, queue[m] = x, m # 1
      PROVE  \E j \in DOMAIN Tail(queue) : Tail(queue)[j] = x
  <2>1. m - 1 \in DOMAIN Tail(queue) /\ Tail(queue)[m - 1] = queue[m]
    BY <1>8
  <2> QED
    BY <1>8, <2>1
<1>9. ASSUME Quietly, MaxDepth > 0
      PROVE  /\ \A n \in 1 .. job.direct : Len(s[n].path) = 1
             /\ \A n \in 1 .. job.direct :
                  (\E m \in DOMAIN queue : queue[m] = s[n]) \/ Wanted(s[n].e) \subseteq Visited
  BY <1>1, <1>5, <1>9 DEF QInv, Reaching, Going
<1>10. CASE pc' = "expand"
  <2>a. /\ job'.result = job.result /\ job'.direct = job.direct /\ job'.snaps = job.snaps
    <3>1. job' = [job EXCEPT !.queue = Tail(@)]
      BY <1>3, <1>10
    <3> QED
      BY <1>1, <3>1 DEF Job
  <2>b. Current'
    BY <1>3, <2>a, CurrentStays DEF QInv
  <2>1. ASSUME Quietly, MaxDepth > 0, NEW n \in 1 .. job.direct,
               NEW parent, NEW pending
        PROVE  Tended(s, n, Tail(queue), "expand", parent, pending)
    <3>1. Len(first.path) = 1 => ~(Depth(first) >= MaxDepth)
      BY <2>1, LimitsAssumption DEF Depth
    <3>2. first # s[n]
      BY <1>4, <1>5, <1>9, <1>10, <2>1, <3>1
    <3>3. CASE \E m \in DOMAIN queue : queue[m] = s[n]
      <4>1. PICK m \in DOMAIN queue : queue[m] = s[n]
        BY <3>3
      <4>2. m # 1
        BY <1>5, <3>2, <4>1
      <4> QED
        BY <1>8, <4>1, <4>2 DEF Tended
    <3> QED
      BY <1>9, <2>1, <3>3 DEF Tended
  <2>2. PICK parent, pending, rest : parent = job'.parent /\ pending = {} /\ rest = job'.queue
    OBVIOUS
  <2>3. rest = Tail(queue)
    BY <1>3, <1>5, <2>2
  <2>4. Quietly /\ MaxDepth > 0 /\ Room =>
          \A n \in 1 .. job.direct : Tended(s, n, rest, "expand", parent, pending)
    BY <2>1, <2>3
  <2>5. PICK phase : phase = "expand"
    OBVIOUS
  <2>6. /\ pc \in Going \cup {"expand"} /\ pc' \in Going \cup {"expand"} /\ pc' # "load"
        /\ pending \subseteq Pending' /\ phase = pc' /\ rest = job'.queue /\ s = job.result
    BY <1>1, <1>5, <1>10, <2>2, <2>5
  <2>7. Quietly /\ MaxDepth > 0 /\ Room =>
          \A n \in 1 .. job.direct : Tended(s, n, rest, phase, parent, pending)
    BY <2>4, <2>5
  <2> QED
    BY <1>3, <2>2, <2>a, <2>b, <2>6, <2>7, TendsOn
<1>11. CASE pc' = "onward"
  <2>1. PICK d \in Entities : d = first.e
    BY DEF Item
  <2>2. PICK edges : /\ edges = Outward(ProjectOf[d], d)
                     /\ job' = [job EXCEPT !.queue = Tail(job.queue), !.parent = job.queue[1],
                                           !.hub = d, !.edges = edges]
    <3>1. Head(job.queue) = first
      BY <1>1, <1>3, <1>5 DEF Job
    <3>2. pc' # "expand"
      BY <1>11
    <3>3. job' = [job EXCEPT !.queue = Tail(job.queue), !.parent = first, !.hub = first.e,
                             !.edges = Outward(ProjectOf[first.e], first.e)]
      BY <1>1, <3>1, <3>2 DEF Expand, Job
    <3> QED
      BY <1>5, <2>1, <3>3
  <2>3. /\ job'.parent = first /\ job'.hub = d /\ job'.edges = edges
        /\ job'.result = job.result /\ job'.direct = job.direct /\ job'.snaps = job.snaps
    BY <1>1, <1>5, <2>2 DEF Job
  <2>4. Current'
    BY <1>3, <2>3, CurrentStays DEF QInv
  <2>5. PICK pending : pending = Pending'
    OBVIOUS
  <2>6. ASSUME Quietly PROVE Wanted(d) \subseteq pending
    <3>1. PICK p \in DOMAIN job.snaps : p = ProjectOf[d]
      BY <1>5, <2>1 DEF Covered
    <3>2. Edges(p) = Stored(p)
      BY <1>1, <2>6, QuietView DEF IInv, QInv, Quietly
    <3>3. Stored(p)' = Stored(p)
      BY <1>3, SameCall DEF Stored, Members
    <3>4. ASSUME NEW f \in Wanted(d) PROVE f \in pending
      <4>1. f \in Entities /\ (<<d, f>> \in Stored(p) \/ <<f, d>> \in Stored(p))
        BY <3>1, WantedAre
      <4>2. CASE <<d, f>> \in Stored(p)
        <5>a. PICK l : l = <<d, f>>
          OBVIOUS
        <5>1. l[1] = d /\ l[2] = f
          BY <5>a
        <5>2. l \in job'.edges
          BY <2>2, <2>3, <3>1, <3>2, <4>2, <5>a, <5>1 DEF Outward
        <5>3. End(l)' = f
          BY <2>3, <5>1 DEF End
        <5> QED
          BY <2>5, <5>2, <5>3 DEF Pending
      <4>3. CASE <<f, d>> \in Stored(p)
        <5>1. <<f, job'.hub>> \in Stored(ProjectOf[job.hub])'
          BY <2>3, <3>1, <3>3, <4>3
        <5> QED
          BY <1>11, <2>5, <4>1, <5>1 DEF Pending
      <4> QED
        BY <4>1, <4>2, <4>3
    <3> QED
      BY <3>4
  <2>7. ASSUME Quietly, MaxDepth > 0, NEW n \in 1 .. job.direct
        PROVE  Tended(s, n, Tail(queue), "onward", first, pending)
    <3>1. CASE first = s[n]
      BY <2>1, <2>6, <2>7, <3>1 DEF Tended, Going
    <3>2. ASSUME NEW m \in DOMAIN queue, queue[m] = s[n], first # s[n]
          PROVE  Tended(s, n, Tail(queue), "onward", first, pending)
      <4>1. m # 1
        BY <1>5, <3>2
      <4> QED
        BY <1>8, <3>2, <4>1 DEF Tended
    <3> QED
      BY <1>9, <2>7, <3>1, <3>2 DEF Tended
  <2>8. PICK rest, phase : rest = Tail(queue) /\ phase = "onward"
    OBVIOUS
  <2>9. Quietly /\ MaxDepth > 0 /\ Room =>
          \A n \in 1 .. job.direct : Tended(s, n, rest, phase, first, pending)
    BY <2>7, <2>8
  <2>10. rest = job'.queue /\ pc' \in Going /\ pc' # "load"
    BY <1>3, <1>5, <1>11, <2>8 DEF Going
  <2> QED
    BY <1>1, <1>3, <1>5, <1>11, <2>3, <2>4, <2>5, <2>8, <2>9, <2>10, TendsOn
<1> QED
  BY <1>3, <1>10, <1>11

\* The edges that lead to the parent are asked for too.
LEMMA ExpandInwardReaches ==
  ASSUME IInv, QInv, ExpandInward
  PROVE  QInv'
<1>1. job \in Job /\ pc = "onward" /\ pc \in Going
  BY DEF IInv, Typed, ExpandInward, Going
<1>2. PICK d \in Entities : d = job.hub /\ Covered(d)
  BY <1>1, ParentIs
<1>3. /\ Goes /\ pc' = "visit"
      /\ job' = [job EXCEPT !.edges = job.edges \cup Inward(ProjectOf[job.hub], job.hub)]
  BY <1>2, ExpandInwardGoes DEF IInv
<1>4. PICK edges : /\ edges = job.edges \cup Inward(ProjectOf[d], d)
                   /\ job' = [job EXCEPT !.edges = edges]
  BY <1>2, <1>3
<1>5. /\ job'.result = job.result /\ job'.direct = job.direct /\ job'.queue = job.queue
      /\ job'.parent = job.parent /\ job'.edges = edges /\ job'.snaps = job.snaps
      /\ job'.hub = d
  BY <1>1, <1>2, <1>4 DEF Job
<1>6. Current'
  BY <1>3, <1>5, CurrentStays DEF QInv
<1>7. PICK pending : pending = Pending
  OBVIOUS
<1>8. ASSUME Quietly PROVE pending \subseteq Pending'
  <2>1. PICK p \in DOMAIN job.snaps : p = ProjectOf[d]
    BY <1>2 DEF Covered
  <2>2. Edges(p) = Stored(p)
    BY <1>1, <1>8, <2>1, QuietView DEF IInv, QInv, Quietly
  <2>3. pending = {End(l) : l \in job.edges} \cup {f \in Entities : <<f, d>> \in Stored(p)}
    BY <1>1, <1>2, <1>7, <2>1 DEF Pending
  <2>4. \A l \in job.edges : l \in job'.edges /\ End(l)' = End(l)
    BY <1>2, <1>4, <1>5 DEF End
  <2>5. ASSUME NEW f \in Entities, <<f, d>> \in Stored(p)
        PROVE  f \in Pending'
    <3>a. PICK l : l = <<f, d>>
      OBVIOUS
    <3>1. l[1] = f /\ l[2] = d
      BY <3>a
    <3>2. l \in job'.edges
      BY <1>4, <1>5, <2>1, <2>2, <2>5, <3>a, <3>1 DEF Inward
    <3>3. End(l)' = f
      BY <1>5, <3>1 DEF End
    <3> QED
      BY <3>2, <3>3 DEF Pending
  <2>6. ASSUME NEW l \in job.edges
        PROVE  End(l) \in Pending'
    BY <2>4 DEF Pending
  <2> QED
    BY <2>3, <2>5, <2>6
<1>9. PICK s, queue, parent, phase, rest :
        /\ s = job.result /\ queue = job.queue /\ parent = job.parent /\ phase = "visit"
        /\ rest = IF Quietly THEN pending ELSE {}
  OBVIOUS
<1>10. rest \subseteq Pending'
  BY <1>8, <1>9
<1>11. Quietly /\ MaxDepth > 0 /\ Room =>
         \A n \in 1 .. job.direct : Tended(s, n, queue, phase, parent, rest)
  <2>1. ASSUME Quietly, MaxDepth > 0, Room, NEW n \in 1 .. job.direct
        PROVE  Tended(s, n, queue, phase, parent, rest)
    <3>1. Tended(s, n, queue, "onward", parent, pending)
      BY <1>1, <1>7, <1>9, <2>1, AreTended
    <3> QED
      BY <1>9, <2>1, <3>1 DEF Tended, Going
  <2> QED
    BY <2>1
<1>12. pc' \in Going \cup {"expand"} /\ pc \in Going \cup {"expand"} /\ pc' # "load"
  BY <1>1, <1>3 DEF Going
<1> QED
  BY <1>3, <1>5, <1>6, <1>9, <1>10, <1>11, <1>12, TendsOn

\* At the parent's edges: what a step leaves pending, of what is wanted.
LEMMA TendsAt ==
  ASSUME IInv, QInv, Goes, pc = "visit", pc' \in Going \cup {"expand"}, Current',
         job'.result = job.result, job'.direct = job.direct, job'.queue = job.queue,
         job'.parent = job.parent,
         Quietly /\ pc' = "load" => docs[job'.node] # None,
         Quietly /\ Room => \A f \in Pending : f \in Visited \/ f \in Pending'
                                                 \/ \A d \in Entities : f \notin Wanted(d),
         pc' = "expand" => Pending' = {}
  PROVE  QInv'
<1>1. PICK s, queue, parent, pending, phase, rest :
        /\ s = job.result /\ queue = job.queue /\ parent = job.parent
        /\ pending = Pending /\ phase = pc' /\ rest = Pending'
  OBVIOUS
<1>2. PICK k \in Nat : k = job.direct
  BY DEF IInv, Typed, Job
<1>3. ASSUME Quietly, MaxDepth > 0, Room, NEW n \in 1 .. k
      PROVE  Tended(s, n, queue, phase, parent, rest)
  <2>a. pc \in Going \cup {"expand"}
    BY DEF Going
  <2>b. \A m \in 1 .. job.direct : Tended(s, m, job.queue, pc, job.parent, pending)
    BY <1>1, <1>3, <2>a, AreTended
  <2>1. Tended(s, n, queue, "visit", parent, pending)
    BY <1>1, <1>2, <1>3, <2>b
  <2>2. s[n].e \in Entities
    <3>1. s \in Seq(Item) /\ k <= Len(s)
      BY <1>1, <1>2, <1>3 DEF IInv, Typed, Job, QInv, Reaching, Going
    <3>2. s[n] \in Item
      BY <3>1, <1>3
    <3> QED
      BY <3>2 DEF Item
  <2>3. Wanted(s[n].e) \subseteq pending \cup Visited => Wanted(s[n].e) \subseteq rest \cup Visited
    BY <1>1, <1>3, <2>2
  <2>4. CASE pc' = "expand"
    BY <1>1, <2>1, <2>3, <2>4 DEF Tended, Going
  <2>5. CASE pc' \in Going
    BY <1>1, <2>1, <2>3, <2>5 DEF Tended, Going
  <2> QED
    BY <2>4, <2>5
<1>4. pc \in Going \cup {"expand"}
  BY DEF Going
<1> QED
  BY <1>1, <1>2, <1>3, <1>4, TendsOn

LEMMA TakeSnapshotOfReaches ==
  ASSUME IInv, QInv, NEW l \in job.edges, TakeSnapshotOf(l)
  PROVE  QInv'
<1>0. pc = "visit" /\ pc \in Going /\ job \in Job
  BY DEF IInv, Typed, TakeSnapshotOf, Going
<1>1. End(l) \in Entities
  BY <1>0, ParentIs
<1>2. PICK p \in Projects : p = ProjectOf[End(l)]
  BY <1>1, EntitiesAssumption
<1>3. /\ Goes /\ pc' = "visit" /\ job' = [job EXCEPT !.snaps = WithSnapshot(job.snaps, p)]
  BY <1>0, <1>1, <1>2, TakeSnapshotOfGoes DEF IInv, Job
<1>4. PICK snaps : /\ snaps = WithSnapshot(job.snaps, p)
                   /\ job' = [job EXCEPT !.snaps = snaps]
  BY <1>3
<1>5. /\ job'.result = job.result /\ job'.direct = job.direct /\ job'.queue = job.queue
      /\ job'.parent = job.parent /\ job'.edges = job.edges /\ job'.hub = job.hub
      /\ job'.snaps = snaps
  BY <1>0, <1>4 DEF Job
<1>6. Current'
  BY <1>3, <1>4, <1>5, CurrentGrows DEF QInv, IInv
<1>7. Pending' = Pending
  BY <1>0, <1>3, <1>5 DEF Pending, End
<1>8. pc' \in Going \cup {"expand"} /\ pc' # "load" /\ pc' # "expand"
  BY <1>3 DEF Going
<1> QED
  BY <1>0, <1>3, <1>5, <1>6, <1>7, <1>8, TendsAt

\* What is passed over was visited, or is not wanted.
LEMMA PassOverReaches ==
  ASSUME IInv, QInv, NEW l \in job.edges, PassOver(l)
  PROVE  QInv'
<1>0. pc = "visit" /\ pc \in Going /\ job \in Job
  BY DEF IInv, Typed, PassOver, Going
<1>1. PICK f \in Entities : f = End(l)
  BY <1>0, ParentIs
<1>2. /\ Goes /\ pc' = "visit"
      /\ \/ f \in Visited
         \/ Covered(f) /\ (Record(f) = None \/ TypeOf[f] = "campaign")
      /\ job' = [job EXCEPT !.edges = job.edges \ {l}]
  BY <1>1, PassOverGoes DEF IInv
<1>3. PICK edges : edges = job.edges \ {l} /\ job' = [job EXCEPT !.edges = edges]
  BY <1>2
<1>4. /\ job'.result = job.result /\ job'.direct = job.direct /\ job'.queue = job.queue
      /\ job'.parent = job.parent /\ job'.edges = edges /\ job'.hub = job.hub
      /\ job'.snaps = job.snaps
  BY <1>0, <1>3 DEF Job
<1>5. Current'
  BY <1>2, <1>4, CurrentStays DEF QInv
<1>6. ASSUME Quietly PROVE f \in Visited \/ \A d \in Entities : f \notin Wanted(d)
  <2>1. CASE f \in Visited
    BY <2>1
  <2>2. CASE Covered(f) /\ (Record(f) = None \/ TypeOf[f] = "campaign")
    <3>1. PICK p \in DOMAIN job.snaps : p = ProjectOf[f] /\ f \in Members(p)
      BY <2>2 DEF Covered, Members
    <3>2. Record(f) = docs[f]
      BY <1>0, <1>6, <3>1, QuietView DEF IInv, QInv, Quietly
    <3> QED
      BY <2>2, <3>2, WantedAre
  <2> QED
    BY <1>2, <2>1, <2>2
<1>7. ASSUME NEW g \in Pending, g # f PROVE g \in Pending'
  <2>1. PICK k \in job.edges : g = End(k)
    BY <1>0, <1>7 DEF Pending
  <2>2. k \in job'.edges /\ End(k)' = g
    BY <1>1, <1>3, <1>4, <1>7, <2>1 DEF End
  <2> QED
    BY <2>2 DEF Pending
<1>8. Quietly /\ Room => \A g \in Pending : g \in Visited \/ g \in Pending'
                                             \/ \A d \in Entities : g \notin Wanted(d)
  BY <1>6, <1>7
<1>9. pc' \in Going \cup {"expand"} /\ pc' # "load" /\ pc' # "expand"
  BY <1>2 DEF Going
<1> QED
  BY <1>0, <1>2, <1>4, <1>5, <1>8, <1>9, TendsAt

\* What the index has of a neighbour is stored.
LEMMA VisitReaches ==
  ASSUME IInv, QInv, NEW l \in job.edges, Visit(l)
  PROVE  QInv'
<1>0. pc = "visit" /\ pc \in Going /\ job \in Job
  BY DEF IInv, Typed, Visit, Going
<1>1. PICK f \in Entities : f = End(l)
  BY <1>0, ParentIs
<1>2. /\ Goes /\ pc' = "load" /\ Covered(f) /\ Record(f) # None
      /\ job' = [job EXCEPT !.edges = job.edges \ {l}, !.node = f]
  BY <1>1, VisitGoes DEF IInv
<1>3. PICK edges : edges = job.edges \ {l} /\ job' = [job EXCEPT !.edges = edges, !.node = f]
  BY <1>2
<1>4. /\ job'.result = job.result /\ job'.direct = job.direct /\ job'.queue = job.queue
      /\ job'.parent = job.parent /\ job'.edges = edges /\ job'.hub = job.hub
      /\ job'.snaps = job.snaps /\ job'.node = f
  BY <1>0, <1>3 DEF Job
<1>5. Current'
  BY <1>2, <1>4, CurrentStays DEF QInv
<1>6. ASSUME Quietly PROVE docs[f] # None
  <2>1. PICK p \in DOMAIN job.snaps : p = ProjectOf[f] /\ f \in Members(p)
    BY <1>2 DEF Covered, Members
  <2>2. Record(f) = docs[f]
    BY <1>0, <1>6, <2>1, QuietView DEF IInv, QInv, Quietly
  <2> QED
    BY <1>2, <2>2
<1>7. ASSUME NEW g \in Pending PROVE g \in Pending'
  <2>1. PICK k \in job.edges : g = End(k)
    BY <1>0, <1>7 DEF Pending
  <2>2. CASE g = f
    BY <1>2, <1>4, <2>2 DEF Pending
  <2>3. CASE g # f
    <3>1. k \in job'.edges /\ End(k)' = g
      BY <1>1, <1>3, <1>4, <2>1, <2>3 DEF End
    <3> QED
      BY <3>1 DEF Pending
  <2> QED
    BY <2>2, <2>3
<1>8. /\ pc' \in Going \cup {"expand"} /\ pc' # "expand"
      /\ Quietly /\ pc' = "load" => docs[job'.node] # None
  BY <1>2, <1>4, <1>6 DEF Going
<1> QED
  BY <1>0, <1>2, <1>4, <1>5, <1>7, <1>8, TendsAt

\* With its neighbours gone through a match has been expanded.
LEMMA ExpandedReaches ==
  ASSUME IInv, QInv, Expanded
  PROVE  QInv'
<1>0. job \in Job
  BY DEF IInv, Typed
<1>1. /\ Goes /\ pc = "visit" /\ pc' = "expand" /\ (job.edges = {} \/ ~Room)
      /\ job' = [job EXCEPT !.edges = {}]
  BY ExpandedGoes DEF IInv
<1>2. /\ job'.result = job.result /\ job'.direct = job.direct /\ job'.queue = job.queue
      /\ job'.parent = job.parent /\ job'.edges = {} /\ job'.snaps = job.snaps
  BY <1>0, <1>1 DEF Job
<1>3. Current'
  BY <1>1, <1>2, CurrentStays DEF QInv
<1>4. Pending' = {} /\ (Room => Pending = {})
  BY <1>1, <1>2 DEF Pending
<1>5. pc' \in Going \cup {"expand"} /\ pc' # "load"
  BY <1>1
<1> QED
  BY <1>1, <1>2, <1>3, <1>4, <1>5, TendsAt

\* What is loaded joins the list, and the matches stay the first of it.
LEMMA LoadReaches ==
  ASSUME IInv, QInv, Load
  PROVE  QInv'
<1>0. PICK e \in Entities : e = job.node
  BY DEF IInv, Visiting, Load, Going
<1>1. job \in Job /\ pc = "load" /\ job.parent \in Item /\ pc \in Going
  BY DEF IInv, Typed, Load, Visiting, Going
<1>2. /\ Goes
      /\ \/ pc' = "raised" /\ UNCHANGED job /\ docs[e] = None
         \/ /\ pc' = "visit" /\ docs[e] # None
            /\ \E item \in Item :
                 /\ item = [e |-> e, doc |-> docs[e], stub |-> FALSE,
                            path |-> Append(job.parent.path, e)]
                 /\ job' = [job EXCEPT !.result = Append(job.result, item),
                                       !.queue = Append(job.queue, item)]
  BY <1>0, <1>1, LoadGoes DEF IInv
<1>a. Room
  BY <1>1 DEF IInv, Visiting
<1>3. CASE pc' = "raised" /\ UNCHANGED job /\ docs[e] = None
  <2>1. ~Quietly
    BY <1>0, <1>1, <1>3 DEF QInv, Reaching
  <2> QED
    BY <1>2, <1>3, <2>1, RaisesReach
<1>4. ASSUME pc' = "visit", docs[e] # None, NEW item \in Item,
             item = [e |-> e, doc |-> docs[e], stub |-> FALSE,
                     path |-> Append(job.parent.path, e)],
             job' = [job EXCEPT !.result = Append(job.result, item),
                                !.queue = Append(job.queue, item)]
      PROVE  QInv'
  <2>1. PICK s \in Seq(Item), q \in Seq(Item), k \in Nat :
          s = job.result /\ q = job.queue /\ k = job.direct
    BY <1>1 DEF Job
  <2>2. PICK r, u : r = Append(s, item) /\ u = Append(q, item)
    OBVIOUS
  <2>3. /\ job'.result = r /\ job'.queue = u
        /\ job'.edges = job.edges /\ job'.hub = job.hub
        /\ job'.parent = job.parent /\ job'.snaps = job.snaps
        /\ job'.direct = k /\ job'.op = job.op
    BY <1>1, <1>4, <2>1, <2>2 DEF Job
  <2>4. Current'
    BY <1>2, <2>3, CurrentStays DEF QInv
  <2>5. Hunting' /\ Passing' /\ Sifting' /\ Answering'
    BY <1>4 DEF Hunting, Passing, Sifting, Answering, Asking
  <2>6. item.e = e /\ ~item.stub /\ item.doc = docs[item.e]
    BY <1>4
  <2>7. PICK l \in Nat : l = Len(s) /\ DOMAIN s = 1 .. l /\ DOMAIN r = 1 .. l + 1 /\ Len(r) = l + 1
                          /\ r[l + 1] = item
                          /\ \A n \in 1 .. l : r[n] = s[n]
    BY <2>2
  <2>8. \A n \in DOMAIN q : n \in DOMAIN u /\ u[n] = q[n]
    BY <2>2
  <2>9. Visited' = Visited \cup {e}
    <3>1. Visited = {s[n].e : n \in 1 .. l}
      BY <2>1, <2>7 DEF Visited, Range
    <3>2. Visited' = {r[n].e : n \in 1 .. l + 1}
      BY <2>3, <2>7 DEF Visited, Range
    <3>3. {r[n].e : n \in 1 .. l + 1} = {s[n].e : n \in 1 .. l} \cup {e}
      <4>1. \A n \in 1 .. l + 1 : n \in 1 .. l \/ n = l + 1
        OBVIOUS
      <4>2. \A n \in 1 .. l : n \in 1 .. l + 1
        OBVIOUS
      <4>3. l + 1 \in 1 .. l + 1
        OBVIOUS
      <4> QED
        BY <2>6, <2>7, <4>1, <4>2, <4>3
    <3> QED
      BY <3>1, <3>2, <3>3
  <2>10. Pending \subseteq Pending' \cup {e}
    <3>1. \A k1 \in job.edges : k1 \in job'.edges /\ End(k1)' = End(k1)
      BY <2>3 DEF End
    <3>2. \A k1 \in job.edges : End(k1) \in Pending'
      BY <3>1 DEF Pending
    <3>3. Pending = {End(k1) : k1 \in job.edges} \cup {e}
      BY <1>0, <1>1 DEF Pending
    <3> QED
      BY <3>2, <3>3
  <2>11. ASSUME Quietly
         PROVE  /\ k <= l /\ Leads(s, k)
                /\ \A n \in 1 .. k : Len(s[n].path) = 1
    BY <1>1, <2>1, <2>7, <2>11 DEF QInv, Reaching
  <2>12. ASSUME Quietly
         PROVE  Leads(r, k)
    <3>1. \A n \in 1 .. k : n \in 1 .. l /\ r[n] = s[n]
      BY <2>7, <2>11, <2>12
    <3>2. \A n \in DOMAIN r : ~r[n].stub /\ r[n].doc = docs[r[n].e]
      <4>1. \A n \in 1 .. l : ~r[n].stub /\ r[n].doc = docs[r[n].e]
        BY <2>7, <2>11, <2>12 DEF Leads
      <4>2. \A n \in 1 .. l + 1 : n \in 1 .. l \/ n = l + 1
        OBVIOUS
      <4> QED
        BY <2>6, <2>7, <4>1, <4>2
    <3> QED
      BY <2>11, <2>12, <3>1, <3>2 DEF Leads
  <2>13. \A x \in Entities : Wanted(x)' = Wanted(x)
    BY <1>2, SameCall DEF Wanted
  <2>a. PICK pending, visited : pending = Pending /\ visited = Visited
    OBVIOUS
  <2>b. ASSUME Quietly, MaxDepth > 0
        PROVE  \A n \in 1 .. k : Tended(s, n, q, "load", job.parent, pending)
    BY <1>1, <1>a, <2>1, <2>a, <2>b, AreTended
  <2>14. ASSUME Quietly, MaxDepth > 0, NEW n \in 1 .. k
         PROVE  \/ \E m \in DOMAIN u : u[m] = r[n]
                \/ /\ pc' \in Going /\ job'.parent = r[n]
                   /\ (Wanted(r[n].e)') \subseteq Pending' \cup Visited'
                \/ (Wanted(r[n].e)') \subseteq Visited'
    <3>1. Tended(s, n, q, "load", job.parent, pending)
      BY <2>b, <2>14
    <3>2. r[n] = s[n] /\ s[n].e \in Entities
      <4>1. n \in 1 .. l
        BY <2>11, <2>14
      <4>2. s[n] \in Item
        BY <2>7, <4>1
      <4> QED
        BY <2>7, <4>1, <4>2 DEF Item
    <3>3. PICK w : w = Wanted(s[n].e) /\ w = Wanted(r[n].e)'
      BY <2>13, <3>2
    <3>4. \/ \E m \in DOMAIN q : q[m] = s[n]
          \/ job.parent = s[n] /\ w \subseteq pending \cup visited
          \/ w \subseteq visited
      BY <2>a, <3>1, <3>3 DEF Tended
    <3>5. pc' \in Going
      BY <1>4 DEF Going
    <3> QED
      BY <2>3, <2>8, <2>9, <2>10, <2>a, <3>2, <3>3, <3>4, <3>5
  <2>15. Reaching'
    <3>1. SUFFICES ASSUME Quietly' PROVE Reaching'
      BY DEF Reaching
    <3>2. Quietly
      BY <1>2, <3>1, SameCall
    <3>3. Leads(r, k)'
      BY <1>2, <2>12, <3>2, LeadsStays
    <3>4. k <= Len(r) /\ \A n \in 1 .. k : Len(r[n].path) = 1
      BY <2>7, <2>11, <3>2
    <3>5. pc' # "load"
      BY <1>4
    <3> QED
      BY <2>3, <2>14, <3>2, <3>3, <3>4, <3>5 DEF Reaching
  <2> QED
    BY <2>4, <2>5, <2>15 DEF QInv
<1> QED
  BY <1>2, <1>3, <1>4

\* With room to spare and nothing waiting every neighbour was visited.
LEMMA NearIsTold ==
  ASSUME IInv, QInv, Quietly, pc = "expand", job.queue = << >>, MaxDepth > 0, Room,
         NEW f \in Near, NEW s \in Seq(Item), s = job.result
  PROVE  LET answer == EntitiesOf(Selected(Admit(s)))
         IN  Len(answer) = TopN \/ f \in Range(answer)
<1>1. PICK e \in Matches, g \in Entities :
        /\ docs[g] # None /\ {<<e, f>>, <<f, e>>} \cap docs[g].links # {}
        /\ ProjectOf[g] = ProjectOf[e]
  BY DEF Near
<1>2. /\ f \in Entities /\ f # e /\ TypeOf[f] = "knowledge" /\ docs[f] # None /\ Admitted(f)
      /\ g \in Members(ProjectOf[e])
  BY <1>1 DEF Near, Members
<1>3. f \in Wanted(e)
  BY <1>1, <1>2 DEF Wanted
<1>a. PICK pending : pending = Pending
  OBVIOUS
<1>4. /\ Leads(s, job.direct)
      /\ \A n \in 1 .. job.direct : Tended(s, n, job.queue, pc, job.parent, pending)
  BY <1>a, AreTended DEF QInv, Reaching
<1>5. PICK n \in 1 .. job.direct : s[n].e = e
  BY <1>4 DEF Leads
<1>6. DOMAIN job.queue = {}
  OBVIOUS
<1>7. f \in Visited
  BY <1>3, <1>4, <1>5, <1>6 DEF Tended, Going
<1>8. PICK m \in DOMAIN s : s[m].e = f
  BY <1>7 DEF Visited, Range
<1>9. Eligible(s[m])
  BY <1>2, <1>4, <1>8 DEF Leads, Eligible, Admitted
<1> QED
  BY <1>8, <1>9, AllAreTold

LEMMA SelectReaches ==
  ASSUME IInv, QInv, Select
  PROVE  QInv'
<1>1. pc = "expand" /\ job \in Job /\ (job.op = "related" => job.result # << >>)
      /\ job.op # "search"
  BY DEF IInv, Typed, Traversing, Select
<1>2. /\ Goes /\ (job.queue = << >> \/ ~Room)
      /\ \/ pc' = "raised" /\ UNCHANGED job
         \/ /\ pc' = "answered"
            /\ \E items \in Seq(Item) :
                 /\ job' = [job EXCEPT !.items = Selected(items)]
                 /\ items = IF job.op = "related" THEN Tail(job.result)
                            ELSE Admit(job.result)
  BY <1>1, SelectGoes DEF IInv
<1>3. PICK s \in Seq(Item), k \in Nat : s = job.result /\ k = job.direct
  BY <1>1 DEF Job
<1>4. ASSUME Quietly
      PROVE  job.op = "retrieve" /\ k \in 0 .. Len(s) /\ Leads(s, k)
  BY <1>1, <1>3, <1>4 DEF QInv, Reaching, Quietly
<1>5. CASE pc' = "raised" /\ UNCHANGED job
  <2>1. ASSUME Quietly
        PROVE  \E i \in Range(job.result) : TypeOf[i.e] = "artifact"
    <3>1. Answer(Selected(Admit(job.result)))
      BY <1>4, <2>1 DEF Select
    <3>2. Answer(Selected(Admit(s)))
      BY <1>3, <3>1
    <3>3. PICK i \in Range(Selected(Admit(s))) : TypeOf[i.e] = "artifact"
      BY <1>5, <3>2 DEF Answer
    <3>4. PICK n \in DOMAIN s : i = s[n]
      BY ToldAreListed
    <3> QED
      BY <1>3, <3>3, <3>4 DEF Range
  <2> QED
    BY <1>2, <1>5, <2>1, RaisesReach
<1>6. ASSUME pc' = "answered", NEW items \in Seq(Item),
             job' = [job EXCEPT !.items = Selected(items)],
             items = IF job.op = "related" THEN Tail(job.result) ELSE Admit(job.result)
      PROVE  QInv'
  <2>1. PICK told : told = Selected(items)
    OBVIOUS
  <2>2. /\ job'.snaps = job.snaps /\ job'.items = told /\ job'.op = job.op
        /\ job'.result = s /\ job'.direct = k
    BY <1>1, <1>3, <1>6, <2>1 DEF Job
  <2>3. Current'
    BY <1>2, <2>2, CurrentStays DEF QInv
  <2>4. Hunting' /\ Passing' /\ Sifting' /\ Reaching'
    BY <1>6 DEF Hunting, Passing, Sifting, Reaching, Asking, Going
  <2>5. ASSUME Quietly
        PROVE  /\ told = Selected(Admit(s)) /\ IsPrefix(Firsts, EntitiesOf(told))
               /\ MaxDepth > 0 /\ Len(s) < k + MaxRelated =>
                    Len(EntitiesOf(told)) = TopN \/ Near \subseteq Range(EntitiesOf(told))
    <3>1. told = Selected(Admit(s))
      BY <1>3, <1>4, <1>6, <2>1, <2>5
    <3>2. IsPrefix(Firsts, EntitiesOf(told))
      BY <1>4, <2>5, <3>1, FirstsAre DEF IInv
    <3>3. ASSUME MaxDepth > 0, Len(s) < k + MaxRelated
          PROVE  Len(EntitiesOf(told)) = TopN \/ Near \subseteq Range(EntitiesOf(told))
      <4>1. Room
        <5>1. Limit = MaxRelated
          BY <1>4, <2>5 DEF Limit
        <5> QED
          BY <1>3, <3>3, <5>1, LimitsAssumption DEF Room
      <4> QED
        BY <1>1, <1>2, <1>3, <2>5, <3>1, <3>3, <4>1, NearIsTold
    <3> QED
      BY <3>1, <3>2, <3>3
  <2>6. Answering'
    <3>1. SUFFICES ASSUME Quietly' PROVE Answering'
      BY DEF Answering
    <3>2. Quietly /\ Firsts' = Firsts /\ Near' = Near
      BY <1>2, <3>1, SameCall
    <3>3. job'.op = "retrieve" /\ EntitiesOf(job.items)' = EntitiesOf(told)
      BY <1>4, <2>2, <3>2 DEF EntitiesOf
    <3> QED
      BY <1>6, <2>2, <2>5, <3>2, <3>3 DEF Answering
  <2> QED
    BY <2>3, <2>4, <2>6 DEF QInv
<1> QED
  BY <1>2, <1>5, <1>6

----
(* The reference.                                                        *)

\* The steps of a call on a quiet repository, and of all others.
LEMMA NextReaches ==
  ASSUME IInv, QInv, Next
  PROVE  QInv'
<1>1. CASE \E query \in Queries : Retrieve(query) \/ Search(query)
  BY <1>1, BeginReaches
<1>2. CASE \E e \in Entities : TypeOf[e] = "knowledge" /\ Related(e)
  <2>1. \E e \in Entities : Related(e)
    BY <1>2, Zenon
  <2> QED
    BY <2>1, BeginReaches
<1>3. CASE LoadSeed
  BY <1>3, LoadSeedReaches
<1>4. CASE TakeSnapshot
  BY <1>4, TakeSnapshotReaches
<1>5. CASE \/ \E w \in Words : AskKeyword(w) \/ AskTag(w)
           \/ \E e \in Entities : AskId(e) \/ AskOutward(e)
           \/ AskInward \/ \E l \in job.edges : AskNode(l)
  <2>1. CASE \E w \in Words : AskKeyword(w) \/ AskTag(w)
    BY <2>1, AskKeywordReaches, AskTagReaches
  <2>2. CASE \E e \in Entities : AskId(e) \/ AskOutward(e)
    BY <2>2, AskIdReaches, AskOutwardReaches
  <2>3. CASE AskInward
    BY <2>3, AskInwardReaches
  <2>4. CASE \E l \in job.edges : AskNode(l)
    BY <2>4, AskNodeReaches
  <2> QED
    BY <1>5, <2>1, <2>2, <2>3, <2>4
<1>6. CASE Cut
  BY <1>6, CutReaches
<1>7. CASE \E e \in Entities : Grade(e)
  BY <1>7, GradeReaches
<1>8. CASE Phase
  BY <1>8, PhaseReaches
<1>9. CASE SkipContext
  BY <1>9, SkipContextReaches
<1>10. CASE KeepStub
  BY <1>10, KeepStubReaches
<1>11. CASE Refine
  BY <1>11, RefineReaches
<1>12. CASE RefineRaises
  BY <1>12, RefineRaisesReaches
<1>13. CASE Rank
  BY <1>13, RankReaches
<1>14. CASE Expand
  BY <1>14, ExpandReaches
<1>15. CASE ExpandInward
  BY <1>15, ExpandInwardReaches
<1>16. CASE \E l \in job.edges : TakeSnapshotOf(l) \/ PassOver(l) \/ Visit(l)
  BY <1>16, TakeSnapshotOfReaches, PassOverReaches, VisitReaches
<1>17. CASE Load
  BY <1>17, LoadReaches
<1>18. CASE Expanded
  BY <1>18, ExpandedReaches
<1>19. CASE Select
  BY <1>19, SelectReaches
<1>20. CASE Return
  BY <1>20, ReturnReaches
<1>21. CASE \E e \in Entities : Delete(e) \/ Index(e) \/ \E d \in DocsOf[e] : Write(e, d)
  BY <1>21, OthersReach
<1> QED
  BY <1>1, <1>2, <1>3, <1>4, <1>5, <1>6, <1>7, <1>8, <1>9, <1>10, <1>11, <1>12, <1>13,
     <1>14, <1>15, <1>16, <1>17, <1>18, <1>19, <1>20, <1>21, Zenon DEF Next

\* Search and retrieve on a repository that does not change, with an index that
\* is up to date: what they answer with is what the reference says, however the
\* limits cut it and in whatever order the neighbours are visited.
THEOREM QuietCallsFindWhatTheyShould == Spec => []QuietIsReference
<1>1. Init => IInv /\ QInv
  BY InitKeeps, InitReaches
<1>2. IInv /\ QInv /\ [Next]_vars => (IInv /\ QInv)'
  BY NextKeeps, StutterKeeps, NextReaches, StutterReaches
<1>3. IInv /\ QInv => QuietIsReference
  BY ReferenceIs DEF QInv
<1> QED
  BY <1>1, <1>2, <1>3, PTL DEF Spec
=============================================================================
