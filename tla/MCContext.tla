------------------------------- MODULE MCContext -------------------------------
(***************************************************************************)
(* An instance of Context for TLC: two canonical documents whose titles    *)
(* differ in spelling, one that is verified, one archived and a decision,  *)
(* in any answer of a few items, doubles among them.                        *)
(***************************************************************************)
EXTENDS Context, TLC

CONSTANTS c1, c2, fresh, old, dec, tea, Tea, milk     \* model values

MCEntities == {c1, c2, fresh, old, dec}
MCTitles == {tea, Tea, milk}

A(type, status, category, title, order) ==
  [type |-> type, status |-> status, category |-> category, title |-> title,
   order |-> order]

MCAbout == c1 :> A("knowledge", "CANONICAL", "FAILURE", tea, 1)
           @@ c2 :> A("knowledge", "CANONICAL", "FACT", Tea, 4)
           @@ fresh :> A("knowledge", "VERIFIED", "DECISION", milk, 3)
           @@ old :> A("knowledge", "ARCHIVED", "RULE", tea, 2)
           @@ dec :> A("decision", "", "", NoTitle, 5)

MCNormalOf == tea :> tea @@ Tea :> tea @@ milk :> milk
MCCharactersOf == tea :> 3 @@ Tea :> 5 @@ milk :> 8
MCWordsOf == tea :> 1 @@ Tea :> 2 @@ milk :> 1

MCProfiles == {"SMALL", "MEDIUM", "FULL"}
MCLimitOf == "SMALL" :> 2 @@ "MEDIUM" :> 3 @@ "FULL" :> 0

\* Half the scores are enough to rank any two entities either way.
Scores == {f \in [MCEntities -> 1 .. 2] : f[old] = 2 /\ f[dec] = 1}

\* Bounds on answers: three items with doubles, or four without.
Answers == UNION {[1 .. n -> MCEntities] : n \in 0 .. 3}
           \cup {es \in [1 .. 4 -> MCEntities] : IsInjective(es)}

MCResults ==
  {[i \in DOMAIN es |-> [e |-> es[i], score |-> f[es[i]]]] : es \in Answers, f \in Scores}
===============================================================================
