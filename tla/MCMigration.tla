----------------------------- MODULE MCMigration -----------------------------
(***************************************************************************)
(* Instances of Migration for TLC: one operator's process that may die and *)
(* start again, and two processes that both migrate.                       *)
(***************************************************************************)
EXTENDS Migration, TLC

Everything == [e \in Engines |-> CommandNames]
OnlyMigrate == [e \in Engines |-> {"migrate"}]

TwoCalls == [e \in Engines |-> 2]
OneDeath == [e \in Engines |-> 1]
OneCall == [e \in Engines |-> 1]
NoDeath == [e \in Engines |-> 0]

Symmetric == Permutations(Projects)
=============================================================================
