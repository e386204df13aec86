---------------------------- MODULE NodeLifecycle ----------------------------
(***************************************************************************)
(* The manifest of the static Pod kube-controller-manager on a             *)
(* control-plane node, as far as the agent edits it: the entries of its    *)
(* --controllers flag.  A command without that flag has no entries.        *)
(***************************************************************************)
EXTENDS Naturals, Sequences

\* The entry is at most once in a list.
Entries == {"*", "nodelifecycle", "-nodelifecycle", "others"}

Absent == [form |-> "absent", controllers |-> <<>>]
Torn   == [form |-> "torn", controllers |-> <<>>]
Pod(controllers) == [form |-> "pod", controllers |-> controllers]

Manifests == [form : {"absent", "torn", "pod"}, controllers : Seq(Entries)]

Mentions(controllers, entry) == \E i \in DOMAIN controllers : controllers[i] = entry

\* The entry is appended where it is nowhere yet.
Disabled(m) ==
  IF m.controllers = <<>> THEN Pod(<<"*", "others", "-nodelifecycle">>)
  ELSE IF Mentions(m.controllers, "-nodelifecycle") THEN m
  ELSE Pod(Append(m.controllers, "-nodelifecycle"))

\* The places of the entry that a comma precedes.
Removable(controllers) ==
  {i \in DOMAIN controllers \ {1} : controllers[i] = "-nodelifecycle"}

\* The entry is removed, whoever wrote it.
Enabled(m) ==
  LET c == m.controllers
      i == CHOOSE i \in Removable(c) : TRUE
  IN  IF Removable(c) = {} THEN m ELSE Pod(SubSeq(c, 1, i - 1) \o SubSeq(c, i + 1, Len(c)))

\* What kube-controller-manager makes of its entries: the first one that names the controller
\* decides, and without one a star.
LifecycleRuns(m) ==
  LET named == {i \in DOMAIN m.controllers :
                  m.controllers[i] \in {"nodelifecycle", "-nodelifecycle"}}
  IN  IF named # {}
        THEN \E i \in named : m.controllers[i] = "nodelifecycle" /\ \A j \in named : i <= j
        ELSE m.controllers = <<>> \/ Mentions(m.controllers, "*")
=============================================================================
