---------------------------- MODULE MCSnapshotStore ----------------------------
(***************************************************************************)
(* Instances of SnapshotStore for TLC: two creators, an index with three   *)
(* contents of which two differ in open questions only, and versions       *)
(* enough for one to be lost between two others.                           *)
(***************************************************************************)
EXTENDS SnapshotStore, TLC

CONSTANTS x, y, z     \* model values

MCContents == {x, y, z}
MCCompared == x :> x @@ y :> y @@ z :> y

\* The creators are alike.
Creators == Permutations(Agents)

===============================================================================
