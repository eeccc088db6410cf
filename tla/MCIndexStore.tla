----------------------------- MODULE MCIndexStore -----------------------------
(***************************************************************************)
(* An instance of IndexStore for TLC: a1 and a2 are threads of one         *)
(* process, b and d are two other processes.                               *)
(***************************************************************************)
EXTENDS IndexStore, TLC

CONSTANTS a1, a2, b, d, project, k, c, e, x     \* model values

MCAgents == {a1, a2, b, d}
MCProcesses == {{a1, a2}, {b}, {d}}

\* What the threads, b and d call.
Calls(threads, bCalls, dCalls) ==
  [a \in MCAgents |-> CASE a = b -> bCalls [] a = d -> dCalls [] OTHER -> threads]

\* Two threads write and query under the lock.
Threads(backend, ids) ==
  [backend |-> backend, locked |-> {a1, a2}, does |-> Calls(EngineOps, {}, {}),
   ids |-> ids, converted |-> FALSE, maxWriters |-> 3, maxLosses |-> 1]

\* Another process queries, without a lock, while b writes.
Reader ==
  [backend |-> "json", locked |-> {b},
   does |-> Calls({}, {"rebuild", "update", "optimize"}, {"query"}),
   ids |-> {}, converted |-> FALSE, maxWriters |-> 2, maxLosses |-> 0]

\* Two processes update and remove without a lock.
Updaters(ids) ==
  [backend |-> "sqlite", locked |-> {},
   does |-> Calls({}, {"update", "remove"}, {"update", "remove", "query"}),
   ids |-> ids, converted |-> FALSE, maxWriters |-> 3, maxLosses |-> 1]

\* One process moves the index to SQLite and uses it.
Converter ==
  [backend |-> "sqlite", locked |-> {},
   does |-> Calls({}, {}, {"convert", "reconvert", "update", "query"}),
   ids |-> {k}, converted |-> TRUE, maxWriters |-> 4, maxLosses |-> 1]

MCDeployments ==
  {Threads("json", {k}), Threads("sqlite", {k, c}), Reader, Updaters({k}), Updaters({e}),
   Converter}

\* Knowledge has an edge to the campaign, which not every deployment has.
MCLinks == x :> {c}

Symmetric == Permutations({a1, a2})
===============================================================================
