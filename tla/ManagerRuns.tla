----------------------------- MODULE ManagerRuns -----------------------------
(***************************************************************************)
(* What one pass of the manager over the YurtCluster does to the cluster,  *)
(* seen from outside and as a single step: which template ConfigMaps it    *)
(* leaves, whether workloads of yurt tunnel exist after it, and what it    *)
(* returns.  YurtOperator takes its passes from here; ManagerPass shows    *)
(* that the pass, call by call, does no more.                              *)
(***************************************************************************)
VARIABLES
  wanted,  \* what the pass is for: the switch of yurt tunnel, or "deleted"
  tpls,    \* the template ConfigMaps that exist
  up,      \* whether workloads of yurt tunnel exist
  result,  \* what the pass returned, if it lived to
  missed   \* the last clean-up of yurt tunnel succeeded and left workloads behind

runVars == <<tpls, up, result, missed>>

Templates == {"trans", "yurthub", "yurttunnel"}

Init == tpls = {} /\ up = FALSE /\ result = "none" /\ missed = FALSE

\* A pass over an object whose switch for yurt tunnel is s: all of it done.
Applied(s) ==
  /\ s # "nil" /\ result' = "ok"
  /\ tpls' = Templates /\ up' = (s = "on") /\ missed' = FALSE

\* Everything else is done, but workloads that should go were not seen, or were not to be touched.
AppliedButMissed(s) ==
  /\ s = "off" /\ result' = "ok"
  /\ tpls' = Templates /\ missed' = TRUE /\ UNCHANGED up

\* A nil switch is dereferenced, after the templates have been applied.
Panicked(s) ==
  /\ s = "nil" /\ result' = "panic"
  /\ tpls' = Templates /\ UNCHANGED <<up, missed>>

\* The pass does some of it.  Its three groups are attempted whatever becomes of the others, and
\* yurt tunnel's objects wait for their template.
Partly(s) ==
  /\ \E done \in SUBSET Templates : tpls' = tpls \cup done
  /\ up' \in {up} \cup (IF s # "nil" /\ "yurttunnel" \in tpls' THEN {s = "on"} ELSE {})
  /\ UNCHANGED missed

ApplyFailed(s) == Partly(s) /\ result' = "error"

PartlyPanicked(s) ==
  /\ s = "nil" /\ result' = "panic" /\ Partly(s) /\ "yurttunnel" \in tpls'

\* A pass over a deleted object: yurt tunnel's objects are gone.  Their names are in the template.
Cleaned ==
  /\ "yurttunnel" \in tpls /\ result' = "ok"
  /\ up' = FALSE /\ missed' = FALSE /\ UNCHANGED tpls

CleanedButMissed ==
  /\ "yurttunnel" \in tpls /\ result' = "ok"
  /\ missed' = TRUE /\ UNCHANGED <<tpls, up>>

Unnamed == "yurttunnel" \notin tpls /\ result' = "error" /\ UNCHANGED <<tpls, up, missed>>

PartlyCleaned ==
  /\ up' = up \/ ("yurttunnel" \in tpls /\ up' = FALSE)
  /\ UNCHANGED <<tpls, missed>>

CleanFailed == PartlyCleaned /\ result' = "error"

\* The manager dies in a pass; its successor starts with nothing.
Died(s) ==
  /\ result' = "none"
  /\ IF s = "deleted" THEN PartlyCleaned ELSE Partly(s)

Apply(s) ==
  \/ Applied(s) \/ AppliedButMissed(s) \/ Panicked(s)
  \/ ApplyFailed(s) \/ PartlyPanicked(s)

Delete == Cleaned \/ CleanedButMissed \/ Unnamed \/ CleanFailed

Next ==
  \/ wanted # "deleted" /\ Apply(wanted)
  \/ wanted = "deleted" /\ Delete
  \/ Died(wanted)

Spec == Init /\ [][Next]_runVars
=============================================================================
