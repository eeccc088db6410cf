------------------------------ MODULE MCWorkspace ------------------------------
(***************************************************************************)
(* An instance of Workspace for TLC: a running campaign, an older one and  *)
(* room for a new one; a project, an older one and room for a new one.     *)
(***************************************************************************)
EXTENDS Workspace, FiniteSets, TLC

CONSTANTS p1, p2, c1, c2, n1, n2, a1, a2     \* model values

MCProjects == {p1, p2}
MCCampaigns == {c1, c2}
MCNames == {n1, n2}
MCAgents == {a1, a2}

\* Both threads of the hooks, or one beside another process.
MCDeployments == {{a1, a2}, {a1}}

Nobody == [id \in Ids |-> None]
Pending == [s \in Steps |-> "pending"]

Running == [status |-> "RUNNING", journal |-> <<"CREATED", "READY", "RUNNING">>,
            steps |-> Pending, rev |-> 3]
Fresh == [status |-> "CREATED", journal |-> <<"CREATED">>, steps |-> Pending, rev |-> 1]
OldCampaign == [status |-> Legacy, journal |-> << >>, steps |-> Pending, rev |-> 1]
Open(name) == [status |-> "ACTIVE", name |-> name, rev |-> 2]
OldProject(name) == [status |-> Legacy, name |-> name, rev |-> 1]

MCInitialDocs ==
  {[Nobody EXCEPT ![c1] = Running],
   [Nobody EXCEPT ![c1] = Fresh, ![c2] = OldCampaign],
   [Nobody EXCEPT ![p1] = Open(n1)],
   [Nobody EXCEPT ![p1] = OldProject(n1), ![p2] = Open(n2)]}
===============================================================================
