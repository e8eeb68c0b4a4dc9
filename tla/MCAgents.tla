------------------------------ MODULE MCAgents ------------------------------
(* The agents' branches and their coordinator, checked side by side: a     *)
(* session's branch is not part of the coordinator's maps, so each         *)
(* behaviour picks one and leaves the other as it starts.                  *)
(*                                                                         *)
(* Two branches, two tasks and two ids: `a` and `a2` are two versions of   *)
(* type x; `c`, a type of another id, put under x conflicts with a, and    *)
(* not with a2, whose fingerprint it has.  Three requests, two agents and  *)
(* a limit of one session, with sessions that hash to two shards.          *)
EXTENDS Branch, Coordinator, TLC

VARIABLE part

a  == [id |-> "x", fingerprint |-> "f"]
a2 == [id |-> "x", fingerprint |-> "g"]
c  == [id |-> "y", fingerprint |-> "g"]

Under(i, typ) == [id |-> i, typ |-> typ]

MCTypes == {a, a2, c}
MCEdits == {Under("x", c), Under("y", c)}
MCTransactions == {<<Under("x", a)>>, <<Under("x", a2)>>}
\* For the run on updates: an agent changes x, another version of which is there.
MCUpdates == {Under("x", a)}

MCShard(s) == s % 2

Only(moving) ==
    /\ UNCHANGED part
    /\ moving # "branches" => UNCHANGED commitVars
    /\ moving # "coordinator" => UNCHANGED coordinatorVars

AgentsInit == BranchInit /\ CoordinatorInit /\ part \in {"branches", "coordinator"}

AgentsNext ==
    \/ part = "branches" /\ BranchNext /\ Only("branches")
    \/ part = "coordinator" /\ CoordinatorNext /\ Only("coordinator")

AgentsSpec == AgentsInit /\ [][AgentsNext]_<<part, commitVars, coordinatorVars>>

\* The variables of branches and coordinator keep their types.
AgentsTypeOK == BranchTypeOK /\ CoordinatorTypeOK

\* Branches stand beside agents, and tasks beside requests, so that one permutation
\* serves both parts.
Symmetry == Permutations(Branches) \cup Permutations(Tasks)
=============================================================================
