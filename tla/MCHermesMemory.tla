----------------------------- MODULE MCHermesMemory -----------------------------
(***************************************************************************)
(* Instances of HermesMemory for TLC: two agents of the hooks, or one and  *)
(* the MCP server; two good items and one that register refuses; one batch *)
(* that fails half-way and one that does not.                              *)
(***************************************************************************)
EXTENDS HermesMemory

CONSTANTS a1, a2, i1, i2, bad

MCBatches == {<<i1, bad>>, <<i2>>}

HooksOnly == {[hooks |-> {a1, a2}, server |-> {}, calls |-> 3]}
HooksAndServer == HooksOnly \cup {[hooks |-> {a1}, server |-> {a2}, calls |-> 2]}

===============================================================================
