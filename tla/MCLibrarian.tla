------------------------------ MODULE MCLibrarian ------------------------------
(***************************************************************************)
(* Instances of Librarian for TLC: three ids (two sources and a merge), one*)
(* base title, so that every pair of documents is a conflict candidate, and*)
(* two drafts of opposite polarity with factors beyond both clamps, one    *)
(* with an edge to a campaign and the other with one to knowledge.         *)
(***************************************************************************)
EXTENDS Librarian, TLC

CONSTANTS k1, k2, k3, c1, t1, a1, a2

Fact ==
  [title |-> <<t1>>, kind |-> "fact", category |-> "FACT",
   factors |-> [confirmations |-> 7, independent_campaigns |-> 4,
                successful_usage |-> 0, failed_usage |-> 0, conflicts |-> 0],
   targets |-> {c1}]

Failure ==
  [title |-> <<t1>>, kind |-> "fact", category |-> "FAILURE",
   factors |-> [confirmations |-> 0, independent_campaigns |-> 0,
                successful_usage |-> 0, failed_usage |-> 5, conflicts |-> 2],
   targets |-> {k1}]

MCDrafts == {Fact, Failure}

EmptyStore == [id \in Ids |-> NoDoc]

\* A document of an older version: no history, no _rev, a confidence nobody
\* calculated.
LegacyStore ==
  [EmptyStore EXCEPT
     ![k1] = [status |-> "CANONICAL", title |-> <<t1>>, kind |-> "fact",
              category |-> "FACT", factors |-> Fact.factors, confidence |-> 0,
              links |-> {}, parents |-> << >>, history |-> << >>,
              elders |-> {}, rev |-> 0]]

MCDeletions == {{c1}}

MCInitialStores == {EmptyStore, LegacyStore}

MCMaxHistory == (k1 :> 3) @@ (k2 :> 2) @@ (k3 :> 1)

Symmetry == Permutations({a1, a2})

===============================================================================
