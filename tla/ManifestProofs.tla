--------------------------- MODULE ManifestProofs ---------------------------
(***************************************************************************)
(* What the agents of YurtOperator make of the manifest of                 *)
(* kube-controller-manager, for any set of nodes and labels, any specs and *)
(* any bounds.                                                             *)
(***************************************************************************)
EXTENDS DeletionProofs, SequenceTheorems

\* kubeadm writes a list with a star; what it starts with is never the entry of the agent, which
\* the agent only finds again behind a comma.
ListsStarred ==
  \A c \in Controllers : c = <<>> \/ (c[1] # "-nodelifecycle" /\ Mentions(c, "*"))

Starred(c) ==
  /\ c = <<>> \/ (c[1] # "-nodelifecycle" /\ Mentions(c, "*"))
  /\ \A i, j \in DOMAIN c : c[i] = "-nodelifecycle" /\ c[j] = "-nodelifecycle" => i = j

SwitchedOff(n) == Mentions(kcm[n].controllers, "-nodelifecycle")

\* The manifests stay what the agent can edit.
ListsInv ==
  \A n \in HasManifest : kcm[n].form \in {"torn", "pod"} /\ Starred(kcm[n].controllers)

\* A node with a condition, or whose agent is at work, has its manifest edited.
OffInv ==
  \A n \in HasManifest :
    yc.exists /\ ~yc.deleting /\ (apc[n] # "idle" \/ yc.conds[n] # NoCondition)
      => kcm[n].form = "torn" \/ SwitchedOff(n)

\* No node has a condition before the object is approved.
UnrecordedInv ==
  yc.exists /\ ~yc.finalizer => \A n \in Nodes : yc.conds[n] = NoCondition

\* Where the type of no node ever changes, the pass that reverts a node has seen the deletion, and
\* so has every later one: it has enabled the controller and never disables it again.
OnInv ==
  relabels = 0 =>
    \A n \in HasManifest :
      /\ yc.exists /\ apc[n] \in {"read", "run", "cond"} /\ aop[n] = "NormalNode" => ~SwitchedOff(n)
      /\ yc.exists /\ Released(n) => acache[n].deleting /\ ~SwitchedOff(n)
      /\ ~yc.exists /\ n \in held => ~SwitchedOff(n) /\ (acache[n].exists => acache[n].deleting)

----------------------------------------------------------------------------
(* The lists *)

LEMMA DisabledList ==
  ASSUME NEW m \in Manifests
  PROVE  /\ Disabled(m).form = "pod" \/ Disabled(m) = m
         /\ Mentions(Disabled(m).controllers, "-nodelifecycle")
         /\ Starred(m.controllers) => Starred(Disabled(m).controllers)
<1> DEFINE c == m.controllers
           star == <<"*", "others", "-nodelifecycle">>
<1>1. c \in Seq(Entries)
  BY DEF Manifests
<1>2. CASE c = <<>>
  <2>1. Disabled(m) = Pod(star)
    BY <1>2 DEF Disabled
  <2>2. DOMAIN star = 1..3 /\ star[1] = "*" /\ star[2] = "others" /\ star[3] = "-nodelifecycle"
    OBVIOUS
  <2>3. Mentions(star, "-nodelifecycle") /\ Starred(star)
    BY <2>2 DEF Mentions, Starred
  <2> QED
    BY <2>1, <2>3 DEF Pod
<1>3. CASE c # <<>> /\ Mentions(c, "-nodelifecycle")
  BY <1>3 DEF Disabled
<1>4. CASE c # <<>> /\ ~Mentions(c, "-nodelifecycle")
  <2> DEFINE d == Append(c, "-nodelifecycle")
  <2>1. Disabled(m) = Pod(d)
    BY <1>4 DEF Disabled
  <2> HIDE DEF c
  <2>2. /\ DOMAIN d = 1..(Len(c) + 1) /\ Len(c) \in Nat \ {0} /\ d[Len(c) + 1] = "-nodelifecycle"
        /\ \A i \in 1..Len(c) : d[i] = c[i]
        /\ DOMAIN c = 1..Len(c)
    BY <1>1, <1>4
  <2> HIDE DEF d
  <2>3. Mentions(d, "-nodelifecycle")
    BY <2>2 DEF Mentions
  <2>4. Starred(c) => Starred(d)
    <3>1. \A i \in DOMAIN d : d[i] = "-nodelifecycle" => i = Len(c) + 1
      BY <1>4, <2>2 DEF Mentions
    <3>2. Mentions(c, "*") => Mentions(d, "*")
      BY <2>2 DEF Mentions
    <3>3. d[1] = c[1]
      BY <2>2
    <3> QED
      BY <1>4, <3>1, <3>2, <3>3 DEF Starred
  <2> QED
    BY <2>1, <2>3, <2>4 DEF Pod, c
<1> QED
  BY <1>2, <1>3, <1>4

LEMMA EnabledList ==
  ASSUME NEW m \in Manifests, Starred(m.controllers)
  PROVE  /\ Enabled(m).form = "pod" \/ Enabled(m) = m
         /\ ~Mentions(Enabled(m).controllers, "-nodelifecycle")
         /\ Starred(Enabled(m).controllers)
<1> DEFINE c == m.controllers
           i == CHOOSE i \in Removable(c) : TRUE
           d == SubSeq(c, 1, i - 1) \o SubSeq(c, i + 1, Len(c))
<1>1. c \in Seq(Entries) /\ Starred(c)
  BY DEF Manifests
<1>2. CASE Removable(c) = {}
  <2>1. Enabled(m) = m
    BY <1>2 DEF Enabled
  <2>2. ~Mentions(c, "-nodelifecycle")
    <3>1. ASSUME NEW j \in DOMAIN c, c[j] = "-nodelifecycle" PROVE FALSE
      <4>1. j = 1
        BY <1>2, <3>1 DEF Removable
      <4>2. c # <<>>
        BY <1>1, <3>1
      <4> QED
        BY <1>1, <3>1, <4>1, <4>2 DEF Starred
    <3> QED
      BY <3>1 DEF Mentions
  <2> QED
    BY <2>1, <2>2
<1>3. CASE Removable(c) # {}
  <2>1. Enabled(m) = Pod(d)
    BY <1>3 DEF Enabled
  <2>2. i \in DOMAIN c \ {1} /\ c[i] = "-nodelifecycle"
    BY <1>3 DEF Removable
  <2> HIDE DEF c, i, d
  <2>3. /\ i \in Nat /\ i >= 2 /\ i <= Len(c) /\ Len(c) \in Nat /\ DOMAIN c = 1..Len(c)
        /\ c # <<>>
    BY <1>1, <2>2
  <2>4. /\ Len(d) = Len(c) - 1 /\ DOMAIN d = 1..(Len(c) - 1)
        /\ \A j \in 1..(Len(c) - 1) : d[j] = IF j < i THEN c[j] ELSE c[j + 1]
    <3> DEFINE p == SubSeq(c, 1, i - 1)
               q == SubSeq(c, i + 1, Len(c))
    <3>1. p \in Seq(Entries) /\ Len(p) = i - 1 /\ \A j \in 1..(i - 1) : p[j] = c[j]
      <4>1. \A j \in 1..(i - 1) : c[j] \in Entries
        BY <1>1, <2>3
      <4> QED
        BY <1>1, <2>3, <4>1
    <3>2. q \in Seq(Entries) /\ Len(q) = Len(c) - i /\ \A j \in 1..(Len(c) - i) : q[j] = c[i + j]
      <4>1. \A j \in (i + 1)..Len(c) : c[j] \in Entries
        BY <1>1, <2>3
      <4>2. /\ q \in Seq(Entries)
            /\ Len(q) = IF i + 1 <= Len(c) THEN Len(c) - (i + 1) + 1 ELSE 0
            /\ \A j \in 1..Len(c) - (i + 1) + 1 : q[j] = c[i + 1 + j - 1]
        BY <2>3, <4>1, i + 1 \in Int, Len(c) \in Int, SubSeqProperties
      <4>3. Len(q) = Len(c) - i
        <5> DEFINE k == Len(q)
                   l == Len(c)
        <5>1. k = (IF i + 1 <= l THEN l - (i + 1) + 1 ELSE 0) /\ i \in Nat /\ l \in Nat /\ i <= l
          BY <2>3, <4>2
        <5> HIDE DEF k, l
        <5>2. k = l - i
          BY <5>1
        <5> QED
          BY <5>2 DEF k, l
      <4>4. ASSUME NEW j \in 1..(Len(c) - i) PROVE q[j] = c[i + j]
        <5>1. j \in 1..Len(c) - (i + 1) + 1 /\ i + 1 + j - 1 = i + j
          BY <2>3, <4>4
        <5>2. q[j] = c[i + 1 + j - 1]
          BY <4>2, <5>1
        <5> QED
          BY <5>1, <5>2
      <4> QED
        BY <4>2, <4>3, <4>4
    <3>3. d = p \o q
      BY DEF d
    <3> HIDE DEF p, q
    <3>4. /\ Len(d) = Len(p) + Len(q) /\ DOMAIN d = 1..(Len(p) + Len(q))
          /\ \A j \in 1..(Len(p) + Len(q)) : d[j] = IF j <= Len(p) THEN p[j] ELSE q[j - Len(p)]
      <4>1. p \in Seq(Entries) /\ q \in Seq(Entries)
        BY <3>1, <3>2
      <4>2. /\ p \o q \in Seq(Entries) /\ Len(p \o q) = Len(p) + Len(q)
            /\ \A j \in 1..(Len(p) + Len(q)) : (p \o q)[j] = IF j <= Len(p) THEN p[j] ELSE q[j - Len(p)]
        BY <4>1, ConcatProperties
      <4> QED
        BY <3>3, <4>2
    <3>5. Len(p) + Len(q) = Len(c) - 1
      BY <2>3, <3>1, <3>2
    <3>6. ASSUME NEW j \in 1..(Len(c) - 1) PROVE d[j] = IF j < i THEN c[j] ELSE c[j + 1]
      <4>1. CASE j < i
        BY <2>3, <3>1, <3>4, <3>5, <4>1
      <4>2. CASE ~(j < i)
        <5>1. d[j] = q[j - (i - 1)] /\ j - (i - 1) \in 1..(Len(c) - i)
          BY <2>3, <3>1, <3>4, <3>5, <4>2
        <5>2. q[j - (i - 1)] = c[i + (j - (i - 1))] /\ i + (j - (i - 1)) = j + 1
          BY <2>3, <3>2, <5>1
        <5> QED
          BY <4>2, <5>1, <5>2
      <4> QED
        BY <4>1, <4>2
    <3> QED
      BY <3>4, <3>5, <3>6
  <2>5. \A j \in DOMAIN c : c[j] = "-nodelifecycle" => j = i
    BY <1>1, <2>2 DEF Starred
  <2>6. ~Mentions(d, "-nodelifecycle")
    <3>1. ASSUME NEW j \in DOMAIN d PROVE d[j] # "-nodelifecycle"
      <4>1. CASE j < i
        BY <2>3, <2>4, <2>5, <3>1, <4>1
      <4>2. CASE ~(j < i)
        <5>1. j + 1 \in DOMAIN c /\ j + 1 # i /\ d[j] = c[j + 1]
          BY <2>3, <2>4, <3>1, <4>2
        <5> QED
          BY <2>5, <5>1
      <4> QED
        BY <4>1, <4>2
    <3> QED
      BY <3>1 DEF Mentions
  <2>7. d[1] = c[1] /\ 1 \in DOMAIN d
    BY <2>3, <2>4
  <2>8. Mentions(d, "*")
    <3>1. PICK k \in DOMAIN c : c[k] = "*"
      BY <1>1, <2>3 DEF Starred, Mentions
    <3>2. k # i
      BY <2>2, <3>1
    <3>3. CASE k < i
      <4>1. k \in DOMAIN d /\ d[k] = "*"
        BY <2>3, <2>4, <3>1, <3>3
      <4> QED
        BY <4>1 DEF Mentions
    <3>4. CASE k > i
      <4>1. k - 1 \in DOMAIN d /\ d[k - 1] = c[k - 1 + 1] /\ k - 1 + 1 = k
        BY <2>3, <2>4, <3>1, <3>4
      <4> QED
        BY <3>1, <4>1 DEF Mentions
    <3> QED
      BY <2>3, <3>1, <3>2, <3>3, <3>4
  <2>9. Starred(d)
    BY <1>1, <2>3, <2>6, <2>7, <2>8 DEF Starred, Mentions
  <2> QED
    BY <2>1, <2>6, <2>9 DEF Pod
<1> QED
  BY <1>2, <1>3

\* What kube-controller-manager makes of a list in which nothing or only the agent's entry names
\* the controller.
LEMMA OffStops ==
  ASSUME NEW m, ~Mentions(m.controllers, "nodelifecycle"), Mentions(m.controllers, "-nodelifecycle")
  PROVE  ~LifecycleRuns(m)
  BY DEF LifecycleRuns, Mentions

LEMMA OnRuns ==
  ASSUME NEW m, ~Mentions(m.controllers, "nodelifecycle"), ~Mentions(m.controllers, "-nodelifecycle"),
         Starred(m.controllers)
  PROVE  LifecycleRuns(m)
  BY DEF LifecycleRuns, Mentions, Starred

----------------------------------------------------------------------------
(* What one step does to the manifests *)

\* Only an agent that begins a pass writes a manifest, and only its own node's.
LEMMA ManifestSteps ==
  ASSUME TypeOK, [Next]_vars, NEW n \in Nodes
  PROVE  \/ kcm'[n] = kcm[n]
         \/ /\ AgentApproved(n) /\ n \in ControlPlane /\ kcm[n].form = "pod"
            /\ kcm'[n] \in {Torn, Edited(n)} /\ UNCHANGED <<yc, acache>>
<1>0. kcm \in [Nodes -> Manifests]
  BY DEF TypeOK
<1>1. CASE Manager \/ Environment \/ UNCHANGED vars
  BY <1>1, ManagerFrame, EnvironmentFrame DEF vars, hostVars
<1>2. ASSUME NEW m \in Nodes, Agent(m), kcm'[n] # kcm[n]
      PROVE  /\ AgentApproved(n) /\ n \in ControlPlane /\ kcm[n].form = "pod"
             /\ kcm'[n] \in {Torn, Edited(n)} /\ UNCHANGED <<yc, acache>>
  <2>1. CASE AgentTears(m)
    <3>1. m = n /\ kcm'[n] = Torn /\ Edited(n) # kcm[n]
      BY <1>0, <1>2, <2>1 DEF AgentTears
    <3>2. n \in ControlPlane
      BY <3>1 DEF Edited
    <3> QED
      BY <2>1, <3>1, <3>2 DEF AgentTears, Editable, storeVars, agentVars
  <2>2. CASE AgentFail(m) \/ AgentDone(m) \/ AgentStart(m)
    <3>1. AgentApproved(m) /\ Editable(m) /\ EditManifest(m) /\ UNCHANGED <<yc, acache>>
      BY <1>2, <2>2 DEF AgentFail, AgentDone, AgentStart, storeVars, agentVars
    <3>2. m = n /\ kcm'[n] = Edited(n)
      BY <1>0, <1>2, <3>1 DEF EditManifest
    <3>3. n \in ControlPlane
      BY <1>2, <3>2 DEF Edited
    <3> QED
      BY <3>1, <3>2, <3>3 DEF Editable
  <2>3. ~(AgentTears(m) \/ AgentFail(m) \/ AgentDone(m) \/ AgentStart(m)) => kcm' = kcm
    BY <1>2 DEF Agent, AgentPass, AgentSyncYC, AgentNodeEvent, EdgectlRead, EdgectlRun, EdgectlCond,
       AgentNodePatch, AgentCrash, hostVars
  <2> QED
    BY <1>2, <2>1, <2>2, <2>3
<1> QED
  BY <1>1, <1>2 DEF Next

\* A pass that begins edits the manifest first.
LEMMA StartEdits ==
  ASSUME TypeOK, NEW n \in ControlPlane, AgentStart(n)
  PROVE  /\ acache[n].exists /\ kcm[n] \in Manifests /\ kcm[n].form = "pod" /\ UNCHANGED yc
         /\ kcm'[n] = IF acache[n].deleting THEN Enabled(kcm[n]) ELSE Disabled(kcm[n])
<1>1. kcm \in [Nodes -> Manifests] /\ n \in Nodes
  BY NodesAssumption DEF TypeOK
<1> QED
  BY <1>1 DEF AgentStart, AgentApproved, Editable, EditManifest, Edited, storeVars

LEMMA ListsStep ==
  ASSUME TypeOK, ListsInv, [Next]_vars
  PROVE  ListsInv'
<1> SUFFICES ASSUME NEW n \in HasManifest
             PROVE  kcm'[n].form \in {"torn", "pod"} /\ Starred(kcm'[n].controllers)
  BY DEF ListsInv
<1>1. n \in Nodes /\ kcm[n] \in Manifests /\ kcm[n].form \in {"torn", "pod"} /\ Starred(kcm[n].controllers)
  BY NodesAssumption DEF ListsInv, TypeOK
<1>2. CASE kcm'[n] = Torn
  BY <1>2 DEF Torn, Starred
<1>3. CASE kcm'[n] = Edited(n)
  <2>1. Edited(n) \in {kcm[n], Disabled(kcm[n]), Enabled(kcm[n])}
    BY DEF Edited
  <2> QED
    BY <1>1, <1>3, <2>1, DisabledList, EnabledList
<1> QED
  BY <1>1, <1>2, <1>3, ManifestSteps

LEMMA UnrecordedStep ==
  ASSUME TypeOK, ApprovedInv, UnrecordedInv, [Next]_vars
  PROVE  UnrecordedInv'
<1> SUFFICES ASSUME yc'.exists, ~yc'.finalizer, NEW n \in Nodes
             PROVE  yc'.conds[n] = NoCondition
  BY DEF UnrecordedInv
<1>1. yc.exists /\ ~yc.finalizer
  BY StepOnward DEF Onward
<1>2. ~EdgectlCond(n)
  BY <1>1 DEF ApprovedInv, EdgectlCond
<1> QED
  BY <1>1, <1>2, CondSteps DEF UnrecordedInv

LEMMA OffStep ==
  ASSUME TypeOK, ApprovedInv, OffInv, [Next]_vars
  PROVE  OffInv'
<1> SUFFICES ASSUME NEW n \in HasManifest, yc'.exists, ~yc'.deleting,
                    apc'[n] # "idle" \/ yc'.conds[n] # NoCondition
             PROVE  kcm'[n].form = "torn" \/ SwitchedOff(n)'
  BY DEF OffInv
<1>0. n \in Nodes /\ n \in ControlPlane /\ kcm[n] \in Manifests
  BY NodesAssumption DEF TypeOK
<1>1. yc.exists /\ ~yc.deleting /\ ~acache[n].deleting
  BY <1>0, StepOnward DEF Onward, ApprovedInv, Behind
<1>2. CASE AgentStart(n)
  BY <1>0, <1>1, <1>2, StartEdits, DisabledList DEF SwitchedOff
<1>3. CASE ~AgentStart(n)
  <2>1. apc[n] # "idle" \/ yc.conds[n] # NoCondition
    <3>1. EdgectlCond(n) => apc[n] # "idle"
      BY DEF EdgectlCond
    <3> QED
      BY <1>0, <1>3, <3>1, CondSteps, AgentSteps
  <2>2. kcm[n].form = "torn" \/ SwitchedOff(n)
    BY <1>1, <2>1 DEF OffInv
  <2>3. CASE kcm'[n] = kcm[n]
    BY <2>2, <2>3 DEF SwitchedOff
  <2>4. CASE kcm'[n] = Torn
    BY <2>4 DEF Torn
  <2>5. CASE kcm'[n] = Edited(n)
    BY <1>0, <1>1, <2>5, DisabledList DEF Edited, SwitchedOff
  <2> QED
    BY <1>0, <2>3, <2>4, <2>5, ManifestSteps
<1> QED
  BY <1>2, <1>3

\* A manifest without the entry gets it from a pass that does not know of the deletion only.
LEMMA OnStays ==
  ASSUME TypeOK, ListsInv, [Next]_vars, NEW n \in HasManifest,
         ~SwitchedOff(n), acache[n].exists => acache[n].deleting
  PROVE  ~SwitchedOff(n)'
<1>0. n \in Nodes /\ kcm[n] \in Manifests /\ Starred(kcm[n].controllers)
  BY NodesAssumption DEF TypeOK, ListsInv
<1>1. CASE kcm'[n] = kcm[n]
  BY <1>1 DEF SwitchedOff
<1>2. CASE kcm'[n] = Torn
  BY <1>2 DEF Torn, SwitchedOff, Mentions
<1>3. CASE AgentApproved(n) /\ kcm'[n] = Edited(n)
  BY <1>0, <1>3, EnabledList DEF AgentApproved, Edited, SwitchedOff
<1> QED
  BY <1>0, <1>1, <1>2, <1>3, ManifestSteps

\* While the type of no node has changed, no node of whose agent or condition there is a trace is
\* unselected.
LEMMA NeverUnselected ==
  ASSUME LabelInv, relabels = 0, yc.exists, NEW n \in Nodes,
         apc[n] # "idle" \/ yc.conds[n] # NoCondition
  PROVE  ~Unselected(n, anode[n].label)
<1>1. relabels <= 1 /\ relabels # 1
  OBVIOUS
<1> QED
  BY <1>1 DEF LabelInv

LEMMA OnStep ==
  ASSUME TypeOK, ApprovedInv, TruthInv, SelectionKept, DeletionInv, ListsInv, UnrecordedInv, OnInv,
         [Next]_vars
  PROVE  OnInv'
<1> USE DEF DeletionInv
<1> SUFFICES ASSUME relabels' = 0, NEW n \in HasManifest
             PROVE  /\ yc'.exists /\ apc'[n] \in {"read", "run", "cond"} /\ aop'[n] = "NormalNode"
                       => ~SwitchedOff(n)'
                    /\ yc'.exists /\ Released(n)' => acache'[n].deleting /\ ~SwitchedOff(n)'
                    /\ ~yc'.exists /\ n \in held' =>
                         ~SwitchedOff(n)' /\ (acache'[n].exists => acache'[n].deleting)
  BY DEF OnInv
<1>0. /\ n \in Nodes /\ n \in ControlPlane /\ kcm[n] \in Manifests /\ Starred(kcm[n].controllers)
      /\ acache \in [Nodes -> Views]
      /\ relabels = 0 /\ relabels <= 1 /\ relabels' <= 1
  <2>1. relabels \in Nat /\ relabels' \in Nat /\ relabels <= relabels'
    BY TypePreserved, Forward DEF TypeOK
  <2> QED
    BY <2>1, NodesAssumption DEF TypeOK, ListsInv
<1>1. ASSUME yc'.exists, apc'[n] \in {"read", "run", "cond"}, aop'[n] = "NormalNode"
      PROVE  ~SwitchedOff(n)'
  <2>1. yc.exists
    BY <1>1, StepOnward DEF Onward
  <2>2. CASE AgentStart(n)
    <3>1. acache[n].deleting
      <4>1. ~Unselected(n, anode'[n].label)
        <5>1. LabelInv' /\ relabels' = 0 /\ yc'.exists /\ apc'[n] # "idle"
          BY <1>1, LabelStep
        <5> QED
          BY <1>0, <5>1 DEF LabelInv, Unselected
      <4> QED
        BY <1>0, <1>1, <2>1, <2>2, <4>1, StartSteps
    <3> QED
      BY <1>0, <2>2, <3>1, StartEdits, EnabledList DEF SwitchedOff
  <2>3. CASE apc[n] \in {"read", "run", "cond"} /\ aop[n] = "NormalNode"
    <3>1. ~SwitchedOff(n)
      BY <1>0, <2>1, <2>3 DEF OnInv
    <3>2. ~AgentApproved(n)
      BY <2>3 DEF AgentApproved
    <3> QED
      BY <1>0, <3>1, <3>2, ManifestSteps DEF SwitchedOff
  <2> QED
    BY <1>0, <1>1, <2>2, <2>3, AgentSteps
<1>2. ASSUME yc'.exists, Released(n)' PROVE acache'[n].deleting /\ ~SwitchedOff(n)'
  <2>1. yc.exists
    BY <1>2, StepOnward DEF Onward
  <2>2. acache[n].deleting /\ ~SwitchedOff(n)
    <3>1. CASE Released(n)
      BY <1>0, <2>1, <3>1 DEF OnInv
    <3>2. CASE apc[n] = "cond" /\ aop[n] = "NormalNode"
      <4>1. ~Unselected(n, anode[n].label)
        BY <1>0, <2>1, <3>2, NeverUnselected
      <4> QED
        BY <1>0, <2>1, <3>2, <4>1 DEF OnInv, ByLabelInv
    <3> QED
      BY <1>0, <1>2, <3>1, <3>2, ReleasedSteps
  <2> QED
    BY <1>0, <1>2, <2>2, Forward, OnStays
<1>3. ASSUME ~yc'.exists, n \in held'
      PROVE  ~SwitchedOff(n)' /\ (acache'[n].exists => acache'[n].deleting)
  <2>1. CASE UserDeletes /\ yc.exists /\ ~yc.finalizer
    <3>1. yc.conds[n] = NoCondition
      BY <1>0, <2>1 DEF UnrecordedInv
    <3> QED
      BY <1>3, <2>1, <3>1 DEF UserDeletes
  <2>2. CASE MgrPatch /\ yc.exists /\ mold.finalizer /\ ~mnew.finalizer /\ UNCHANGED held
    <3>1. acache[n].deleting /\ ~SwitchedOff(n)
      BY <1>0, <1>3, <2>2 DEF OnInv, Released
    <3> QED
      BY <2>2, <3>1 DEF MgrPatch, hostVars, agentVars, SwitchedOff
  <2>3. CASE ~yc.exists
    <3>1. n \in held
      BY <1>3, <2>3, HeldSteps DEF UserDeletes
    <3>2. ~SwitchedOff(n) /\ (acache[n].exists => acache[n].deleting)
      BY <1>0, <2>3, <3>1 DEF OnInv
    <3>3. acache'[n].exists => acache'[n].deleting
      <4>1. acache'[n] = acache[n] \/ acache'[n] = View(yc, n)
        BY <1>0, Reads
      <4> QED
        BY <2>3, <3>2, <4>1 DEF View
    <3> QED
      BY <3>2, <3>3, OnStays
  <2> QED
    BY <1>3, <2>1, <2>2, <2>3, GoneSteps
<1> QED
  BY <1>1, <1>2, <1>3

----------------------------------------------------------------------------

LEMMA InitManifest ==
  ASSUME ListsStarred, Init
  PROVE  ListsInv /\ OffInv /\ UnrecordedInv /\ OnInv
<1>1. PICK s \in InitialSpecs : yc = NewCluster(s)
  BY DEF Init
<1>2. yc.exists /\ \A n \in Nodes : yc.conds[n] = NoCondition
  BY <1>1 DEF NewCluster
<1>3. HasManifest \subseteq Nodes
  BY NodesAssumption
<1>4. ListsInv
  <2> SUFFICES ASSUME NEW n \in HasManifest
               PROVE  kcm[n].form \in {"torn", "pod"} /\ Starred(kcm[n].controllers)
    BY DEF ListsInv
  <2>1. PICK c \in Controllers : kcm[n] = Pod(c)
    <3>1. kcm[n] \in InitialManifests(n)
      BY <1>3 DEF Init
    <3> QED
      BY <3>1 DEF InitialManifests
  <2> QED
    BY <2>1, ControllersAssumption DEF ListsStarred, Starred, Pod
<1>5. OffInv /\ UnrecordedInv
  BY <1>2, <1>3 DEF Init, OffInv, UnrecordedInv
<1>6. \A n \in Nodes : ~Released(n)
  BY <1>1, NoConditions, NoClusterFields DEF Init, Released, Shows, NoFields, Fields, NewCluster
<1>7. OnInv
  BY <1>2, <1>3, <1>6 DEF Init, OnInv
<1> QED
  BY <1>4, <1>5, <1>7

\* The node lifecycle controller goes with the conversion, for any set of nodes whose manifests
\* kubeadm may have written and any bounds: it is off before a node is converted, and on before
\* the condition that releases the deleted object (AddOrRemoveNodeLifecycleController,
\* agent/yurtcluster_controller.go).
THEOREM ManifestsFollow == ASSUME ListsStarred PROVE Spec => []ManifestFollows
<1>1. Init => ListsInv /\ OffInv /\ UnrecordedInv /\ OnInv
  BY InitManifest
<1>2. TypeOK /\ ApprovedInv /\ [Next]_vars => ApprovedInv'
  BY ApprovedStep
<1>3. /\ TypeOK /\ ListsInv /\ [Next]_vars => ListsInv'
      /\ TypeOK /\ ApprovedInv /\ OffInv /\ [Next]_vars => OffInv'
      /\ TypeOK /\ ApprovedInv /\ UnrecordedInv /\ [Next]_vars => UnrecordedInv'
  BY ListsStep, OffStep, UnrecordedStep
<1>4. ListsInv /\ OffInv /\ (SelectionKept => OnInv) => ManifestFollows
  <2> SUFFICES ASSUME ListsInv, OffInv, SelectionKept => OnInv, NEW n \in HasManifest,
                      kcm[n].form # "torn", ~Mentions(kcm[n].controllers, "nodelifecycle")
               PROVE  /\ /\ yc.exists /\ ~yc.deleting
                         /\ yc.conds[n].status = "True" /\ yc.conds[n].reason # "NodeRevert"
                         => ~LifecycleRuns(kcm[n])
                      /\ SelectionKept /\ ~yc.exists /\ n \in held /\ relabels = 0
                         => LifecycleRuns(kcm[n])
    BY DEF ManifestFollows
  <2>1. yc.conds[n].status = "True" => yc.conds[n] # NoCondition
    BY DEF NoCondition
  <2> QED
    BY <2>1, OffStops, OnRuns DEF ListsInv, OffInv, OnInv, SwitchedOff
<1>5. CASE SelectionKept
  <2>1. TypeOK /\ ApprovedInv /\ TruthInv /\ [Next]_vars => TruthInv'
    BY TruthStep
  <2>2. TypeOK /\ ApprovedInv /\ TruthInv /\ DeletionInv /\ [Next]_vars => DeletionInv'
    BY <1>5, DeletedStep
  <2>3. TypeOK /\ ApprovedInv /\ TruthInv /\ DeletionInv /\ ListsInv /\ UnrecordedInv /\ OnInv /\ [Next]_vars
          => OnInv'
    BY <1>5, OnStep
  <2>4. ListsInv /\ OffInv /\ OnInv => ManifestFollows
    BY <1>4
  <2> QED
    BY InitApproved, InitTruth, InitDeletion, TypeCorrect, <1>1, <1>2, <1>3, <2>1, <2>2, <2>3, <2>4, PTL DEF Spec
<1>6. CASE ~SelectionKept
  <2>1. ListsInv /\ OffInv => ManifestFollows
    BY <1>4, <1>6
  <2> QED
    BY InitApproved, TypeCorrect, <1>1, <1>2, <1>3, <2>1, PTL DEF Spec
<1> QED
  BY <1>5, <1>6

=============================================================================
