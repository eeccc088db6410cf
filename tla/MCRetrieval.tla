------------------------------ MODULE MCRetrieval ------------------------------
(***************************************************************************)
(* An instance of Retrieval for TLC: three pieces of knowledge and a       *)
(* campaign in one project, a fourth piece in another, and a decision and  *)
(* an artifact that some of the repositories hold.                         *)
(***************************************************************************)
EXTENDS Retrieval, TLC

CONSTANTS home, away, k1, k2, k3, far, camp, dec, art, w     \* model values

MCProjects == {home, away}
MCEntities == {k1, k2, k3, far, camp, dec, art}
Known == {k1, k2, k3, far}

MCTypeOf == [e \in MCEntities |-> IF e = camp THEN "campaign" ELSE IF e = dec THEN "decision"
                                  ELSE IF e = art THEN "artifact" ELSE "knowledge"]
MCProjectOf == [e \in MCEntities |-> IF e = far THEN away ELSE home]
MCIdOrder == k1 :> 1 @@ k2 :> 2 @@ k3 :> 3 @@ far :> 4 @@ camp :> 5 @@ dec :> 6 @@ art :> 7

\* The words of a document's text are its tags too.
A(status, words, links, shallow, full) ==
  [status |-> status, words |-> words, tags |-> words, links |-> links,
   shallow |-> shallow, full |-> full]

\* k1 refers to k2, k2 to k3 and to the other project, far back to k1.
Links == k1 :> {<<k1, k2>>} @@ k2 :> {<<k2, k3>>, <<k2, far>>} @@ k3 :> {<<k3, art>>}
         @@ far :> {<<far, k1>>} @@ camp :> {} @@ dec :> {} @@ art :> {}

MCDocsOf ==
  [e \in MCEntities |->
     IF e \in Known
     THEN {A("CANONICAL", {w}, Links[e], 2, 1), A("CANONICAL", {}, Links[e], 1, 2),
           A("ARCHIVED", {w}, Links[e], 0, 2)}
     ELSE {A("", {w}, {}, 3, 1), A("", {}, {}, 3, 1)}]

Best(e) == A("CANONICAL", {w}, Links[e], 2, 1)
Silent(e) == A("CANONICAL", {}, Links[e], 1, 2)
Old(e) == A("ARCHIVED", {w}, Links[e], 0, 2)

Repository(f) == f @@ [e \in MCEntities |-> None]

MCInitialDocs ==
  {Repository(k1 :> Best(k1) @@ k2 :> Silent(k2) @@ k3 :> Best(k3) @@ far :> Silent(far)),
   Repository(k1 :> Old(k1) @@ k2 :> Best(k2) @@ k3 :> Silent(k3)
              @@ camp :> A("", {w}, {}, 3, 1)),
   Repository(k1 :> Best(k1) @@ k2 :> Old(k2) @@ far :> Best(far)
              @@ dec :> A("", {w}, {}, 3, 1)),
   Repository(k3 :> Best(k3) @@ k2 :> Best(k2) @@ art :> A("", {}, {}, 3, 1))}

MCQueries ==
  {[project |-> home, words |-> {w}, tags |-> {}, ids |-> {}, history |-> FALSE],
   [project |-> home, words |-> {w}, tags |-> {}, ids |-> {}, history |-> TRUE],
   [project |-> home, words |-> {}, tags |-> {w}, ids |-> {k2}, history |-> FALSE]}
===============================================================================
