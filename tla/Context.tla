-------------------------------- MODULE Context --------------------------------
(***************************************************************************)
(* ContextBuilder: the answer of retrieval is made into the document an    *)
(* agent is given, without doubles, obsolete knowledge and what its token  *)
(* budget has no room for, in sections, and compressed by the performance  *)
(* layer.                                                                  *)
(*                                                                         *)
(* Text is abstracted to the length of titles, which is what the budget    *)
(* counts; the serialized text itself is left out.                         *)
(***************************************************************************)
EXTENDS Naturals, Sequences, SequencesExt, FiniteSetsExt, Functions

CONSTANTS Entities,
          About,               \* function on Entities: what their documents say
          Titles,
          NormalOf, CharactersOf, WordsOf,   \* functions on Titles
          CharactersPerToken, WordsPerToken, \* whole parts; 0 counts as not given
          Profiles, LimitOf,   \* LimitOf: function on Profiles; 0 is no limit
          Default,             \* the profile an unknown one is replaced by
          Sections,            \* the configured ones
          KeptPerSection,      \* what NORMAL compression leaves
          Results              \* the answers there may be

NoTitle == "none"

None == [none |-> TRUE]

Document == [type : {"knowledge", "decision", "artifact"},
             status : {"NEW", "VERIFIED", "CANONICAL", "CONFLICT", "REJECTED",
                       "SUPERSEDED", "ARCHIVED", ""},
             \* RULE stands for PATTERN too, FAILURE for the negative kind
             category : {"DECISION", "FAILURE", "CONFIGURATION", "RULE", "FACT", ""},
             title : Titles \cup {NoTitle},
             order : Nat]      \* that of the ids

\* An element of the context, and one that was left out.
Item == [e : Entities, score : Nat]
Left == [e : Entities, score : Nat,
         why : {"duplicate", "status_excluded", "canonical_merged", "token_budget"}]

AllSections == {"CANONICAL KNOWLEDGE", "DECISIONS", "FAILURES", "ARTIFACTS",
                "CONFIGURATION", "OPEN QUESTIONS"}

ASSUME DocumentsAssumption ==
  /\ About \in [Entities -> Document]
  /\ \A e, f \in Entities : About[e].order = About[f].order => e = f
  /\ CharactersOf \in [Titles -> Nat] /\ WordsOf \in [Titles -> Nat]
  /\ DOMAIN NormalOf = Titles
ASSUME SettingsAssumption ==
  /\ CharactersPerToken \in Nat /\ WordsPerToken \in Nat /\ KeptPerSection \in Nat
  /\ LimitOf \in [Profiles -> Nat] /\ Default \in Profiles
  /\ "OPEN QUESTIONS" \in Sections /\ Sections \subseteq AllSections
  /\ Results \subseteq Seq(Item)

VARIABLES given,       \* the answer the context was built from
          history,     \* the last include_history
          context,     \* ContextDocument
          compressed   \* what MeasuredContext.build returned of it

vars == <<given, history, context, compressed>>

Canonical(e) == About[e].status = "CANONICAL"

Obsolete(e) == About[e].status \in {"ARCHIVED", "REJECTED", "SUPERSEDED"}

Titled(e) == About[e].title # NoTitle

Because(item, why) == [e |-> item.e, score |-> item.score, why |-> why]

\* The items of a sequence that are in a set, in their order.
Those(items, set) ==
  FoldLeft(LAMBDA kept, i : IF i \in set THEN Append(kept, i) ELSE kept, << >>, items)

----
(* TokenEstimator and ContextOptimizer.                                    *)

CeilDiv(a, b) == (a + b - 1) \div b

Max2(a, b) == IF a > b THEN a ELSE b

\* What the titles of the items take, joined by spaces.
Tokens(items) ==
  LET titles == Those(items, {i \in Range(items) : Titled(i.e)})
      characters == FoldLeft(LAMBDA sum, i : sum + CharactersOf[About[i.e].title],
                             Max2(Len(items), 1) - 1, titles)
      words == FoldLeft(LAMBDA sum, i : sum + WordsOf[About[i.e].title], 0, titles)
  IN  Max2(IF CharactersPerToken = 0 THEN words ELSE CeilDiv(characters, CharactersPerToken),
           IF WordsPerToken = 0 THEN characters ELSE CeilDiv(words, WordsPerToken))

\* The three passes work on what they keep and what they have left out so far.
Nothing == [kept |-> << >>, out |-> << >>]

Keep(acc, item) == [acc EXCEPT !.kept = Append(@, item)]

Leave(acc, item, why) == [acc EXCEPT !.out = Append(@, Because(item, why))]

Admit(acc, item, all) ==
  IF \E k \in Range(acc.kept) : k.e = item.e THEN Leave(acc, item, "duplicate")
  ELSE IF ~all /\ Obsolete(item.e) THEN Leave(acc, item, "status_excluded")
  ELSE Keep(acc, item)

Deduplicated(items, all) ==
  FoldLeft(LAMBDA acc, item : Admit(acc, item, all), Nothing, items)

Rival(i, j) ==
  /\ Canonical(i.e) /\ Titled(i.e) /\ Canonical(j.e) /\ Titled(j.e)
  /\ NormalOf[About[i.e].title] = NormalOf[About[j.e].title]

\* Mutant: the better one is kept beside the one it should replace.
MergeBeside(acc, item) ==
  LET rivals == {k \in Range(acc.kept) : Rival(k, item)}
  IN  IF \A k \in rivals : item.score > k.score THEN Keep(acc, item)
      ELSE Leave(acc, item, "canonical_merged")

\* Of canonical knowledge with one title the best is kept, the first of equals.
Merge(acc, item) ==
  LET rivals == {k \in Range(acc.kept) : Rival(k, item)}
  IN  IF rivals = {} THEN Keep(acc, item)
      ELSE LET existing == CHOOSE k \in rivals : TRUE
           IN  IF item.score > existing.score
               THEN Keep(Leave([acc EXCEPT !.kept = Those(@, Range(@) \ {existing})],
                               existing, "canonical_merged"),
                         item)
               ELSE Leave(acc, item, "canonical_merged")

Merged(items) == FoldLeft(Merge, Nothing, items)

Before(i, j) ==
  \/ i.score > j.score
  \/ i.score = j.score /\ About[i.e].order > About[j.e].order

\* The items, no two of one entity, from the best to the worst.
Ranked(items) ==
  CHOOSE r \in [1 .. Len(items) -> Range(items)] :
    /\ Range(r) = Range(items)
    /\ \A i, j \in 1 .. Len(items) : i < j => Before(r[i], r[j])

\* Mutant: one item is dropped, the last, when the budget does not suffice.
BudgetedOnce(items, limit) ==
  LET ranked == Ranked(items)
  IN  IF ranked # << >> /\ Tokens(ranked) > limit /\ ~Canonical(Last(ranked).e)
      THEN [kept |-> Front(ranked), out |-> <<Because(Last(ranked), "token_budget")>>]
      ELSE [kept |-> ranked, out |-> << >>]

\* Canonical knowledge is kept whatever it takes.
Afford(acc, item, limit) ==
  IF Canonical(item.e) \/ Tokens(Append(acc.kept, item)) <= limit THEN Keep(acc, item)
  ELSE Leave(acc, item, "token_budget")

Budgeted(items, limit) ==
  FoldLeft(LAMBDA acc, item : Afford(acc, item, limit), Nothing, Ranked(items))

\* ContextOptimizer.optimize makes a new document, without sections.
Optimized(items, profile, all) ==
  LET deduplicated == Deduplicated(items, all)
      merged == Merged(deduplicated.kept)
      last == IF LimitOf[profile] > 0 THEN Budgeted(merged.kept, LimitOf[profile])
              ELSE [kept |-> merged.kept, out |-> << >>]
  IN  [profile |-> profile, items |-> last.kept,
       excluded |-> deduplicated.out \o merged.out \o last.out, sections |-> None]

----
(* Sections.                                                               *)

\* classify, and the section a category is told in.
SectionOf(e) ==
  LET a == About[e]
  IN  CASE a.type = "artifact" -> "ARTIFACTS"
        [] a.type = "decision" -> "DECISIONS"
        [] OTHER ->
           IF a.status = "CANONICAL" THEN "CANONICAL KNOWLEDGE"
           ELSE IF a.category = "DECISION" THEN "DECISIONS"
           ELSE IF a.category = "FAILURE" THEN "FAILURES"
           ELSE IF a.category \in {"CONFIGURATION", "RULE"} THEN "CONFIGURATION"
           ELSE IF \/ a.status = "VERIFIED"
                   \/ a.status # "SUPERSEDED" /\ a.category = "FACT"
                THEN "CANONICAL KNOWLEDGE"
           ELSE "OPEN QUESTIONS"

SectionIn(e) == IF SectionOf(e) \in Sections THEN SectionOf(e) ELSE "OPEN QUESTIONS"

Sectionize(items) ==
  [s \in Sections |->
     Those(items, {i \in Range(items) : s = SectionIn(i.e)})]

Protected == {"DECISIONS", "FAILURES", "CONFIGURATION", "OPEN QUESTIONS"}

\* The performance layer's own grouping, for a context without sections: a RULE
\* is configuration to classify, and canonical knowledge, which is trimmed, here.
GroupOf(e) ==
  LET a == About[e]
  IN  CASE a.type = "decision" \/ a.category = "DECISION" -> "DECISIONS"
        [] a.type = "artifact" /\ a.category # "DECISION" -> "ARTIFACTS"
        [] a.type = "knowledge" /\ a.category = "FAILURE" -> "FAILURES"
        [] a.type = "knowledge" /\ a.category = "CONFIGURATION" -> "CONFIGURATION"
        [] OTHER -> "CANONICAL KNOWLEDGE"

Grouped(items) ==
  [s \in {GroupOf(i.e) : i \in Range(items)} |->
     Those(items, {i \in Range(items) : GroupOf(i.e) = s})]

UpTo(s, n) == SubSeq(s, 1, Min({n, Len(s)}))

\* LIGHT compares the titles of the entries; an entry is a ContextItem, which
\* has neither a title nor an id, so all are the same.
Light(sections) == [s \in DOMAIN sections |-> UpTo(sections[s], 1)]

Trimmed(sections, limit) ==
  [s \in DOMAIN sections |->
     IF s \in Protected THEN sections[s] ELSE UpTo(sections[s], limit)]

----
(* Operations.                                                             *)

Build(result, profile, all) ==
  LET p == IF profile \in Profiles THEN profile ELSE Default
      optimized == Optimized(result, p, all)
  IN  /\ context = None
      /\ given' = result
      /\ history' = all
      /\ context' = [optimized EXCEPT !.sections = Sectionize(optimized.items)]
      /\ UNCHANGED compressed

\* ContextBuilder.optimize, on a context that was built.
Optimize(all) ==
  /\ context # None
  /\ history' = all
  /\ context' = Optimized(context.items, context.profile, all)
  /\ compressed' = None
  /\ UNCHANGED given

Compress(level) ==
  LET sections == IF context.sections # None THEN context.sections
                  ELSE Grouped(context.items)
  IN  /\ context # None
      /\ compressed' = CASE level = "LIGHT" -> Light(sections)
                         [] level = "NORMAL" -> Trimmed(sections, KeptPerSection)
                         [] level = "AGGRESSIVE" -> Trimmed(sections, 0)
      /\ UNCHANGED <<given, history, context>>

Init ==
  /\ given = << >>
  /\ history = FALSE
  /\ context = None
  /\ compressed = None

Next ==
  \/ \E result \in Results, profile \in Profiles \cup {"unknown"}, all \in BOOLEAN :
       Build(result, profile, all)
  \/ \E all \in BOOLEAN : Optimize(all)
  \/ \E level \in {"LIGHT", "NORMAL", "AGGRESSIVE"} : Compress(level)

Spec == Init /\ [][Next]_vars

----
(* Properties.                                                             *)

\* What optimize should keep of the answer a context is built from: of what
\* occurs twice, of obsolete knowledge, and of canonical knowledge with one
\* title all but the best is left out.
Wanted ==
  LET first(i) == \A j \in 1 .. i - 1 : given[j].e # given[i].e
      admitted == {i \in 1 .. Len(given) : first(i) /\ (history \/ ~Obsolete(given[i].e))}
      beats(j, i) == \/ given[j].score > given[i].score
                     \/ given[j].score = given[i].score /\ j < i
  IN  {given[i] : i \in {m \in admitted :
         \A j \in admitted \ {m} : Rival(given[m], given[j]) => ~beats(j, m)}}

\* A context as it was built holds the wanted items that are canonical or fit
\* the budget along with the better ones it holds, in the order of their scores;
\* with no limit all of them, in the order of the answer.  Nothing disappears:
\* what is not in it is told with a reason, what is in it has one section, and
\* the validator has no doubles to report (ContextManager.build).
ContextIsReference ==
  context # None /\ context.sections # None =>
    LET items == context.items
        limit == LimitOf[context.profile]
        better(x) == Those(items, {k \in Range(items) : Before(k, x)})
    IN  /\ Range(items) =
             {x \in Wanted : \/ limit = 0 \/ Canonical(x.e)
                             \/ Tokens(Append(better(x), x)) <= limit}
        /\ \A i, j \in 1 .. Len(items) : i < j =>
             /\ items[i].e # items[j].e
             /\ limit > 0 => Before(items[i], items[j])
             /\ limit = 0 => \E m \in 1 .. Len(given) :
                               /\ given[m] = items[i]
                               /\ \A n \in 1 .. m : given[n].e # items[j].e
        /\ Len(items) + Len(context.excluded) = Len(given)
        /\ Range(context.excluded) \subseteq Left
        /\ \A x \in Range(items) :
             Cardinality({s \in Sections : x \in Range(context.sections[s])}) = 1

\* Optimizing what was optimized changes nothing: neither the merge nor the
\* budget finds another item to leave out (ContextBuilder.optimize).
OptimizeSettles ==
  [][context # None /\ history' = history => context'.items = context.items]_vars

\* Compression keeps what the protected sections hold
\* (performance/context_profiles.py, "protected").
ProtectedIsKept ==
  compressed # None =>
    \A s \in Protected \cap DOMAIN compressed :
      context.sections # None => compressed[s] = context.sections[s]
=============================================================================
