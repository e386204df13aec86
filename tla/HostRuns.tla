------------------------------ MODULE HostRuns ------------------------------
(***************************************************************************)
(* One host and the runs of edgectl on it, each as one step: the run does  *)
(* what its command says and succeeds, or it is cut short.  This is how    *)
(* YurtOperator sees edgectl; Edgectl implements it.                       *)
(***************************************************************************)
EXTENDS NodeHost

VARIABLES host, outcome

Ops == {"CloudNode", "EdgeNode", "NormalNode"}

Init ==
  /\ host \in {CleanHost(f) : f \in {"none", "original"}}
  /\ outcome = [op |-> "NormalNode", ok |-> FALSE]

Run(op) ==
  \/ host' = Done(host, op) /\ outcome' = [op |-> op, ok |-> TRUE]
  \/ host' \in Interrupted(host, op) /\ outcome' = [op |-> op, ok |-> FALSE]

Next == \E op \in Ops : Run(op)

Spec == Init /\ [][Next]_<<host, outcome>>
=============================================================================
