------------------------------ MODULE SnapshotLog ------------------------------
(***************************************************************************)
(* What the Snapshot layer promises: the versions of a project form a log  *)
(* that only grows at its end, numbered without gaps, each version naming  *)
(* the one before it as its parent.  Module SnapshotStore has the files,   *)
(* the lock and the failures, and implements this one when every creator   *)
(* takes the lock.                                                         *)
(***************************************************************************)
EXTENDS Naturals, Sequences

CONSTANTS Agents,      \* authors of snapshots
          Contents     \* what the entity index can hold

VARIABLE log

Version(n, a, body) == [id |-> n, parent |-> n - 1, author |-> a, body |-> body]

Init == log = << >>

Create(a, body) == log' = Append(log, Version(Len(log) + 1, a, body))

Next == \E a \in Agents, body \in Contents : Create(a, body)

Spec == Init /\ [][Next]_log

===============================================================================
