------------------------------ MODULE NodeHost ------------------------------
(***************************************************************************)
(* What one run of edgectl may leave on the host it runs on.  A run writes *)
(* two files that survive it, the static Pod manifest of yurt-hub and the  *)
(* kubeadm-flags.env of kubelet, and keeps a backup of each; on an error   *)
(* it rolls the file it was writing back from its backup.  This module     *)
(* says which combinations of the four files a run can end with, starting  *)
(* from a given one; Edgectl has the steps of a run and implements it.     *)
(***************************************************************************)

\* The manifest: absent, rendered from the cloud or the edge Pod template, or truncated by a
\* write that went no further.
HubFiles == {"none", "CloudNode", "EdgeNode", "torn"}

\* kubeadm-flags.env: absent, as kubeadm left it, with --kubeconfig set to yurt-hub's, or truncated.
FlagFiles == {"none", "original", "yurthub", "torn"}

Hosts == [hub : HubFiles, hubBackup : HubFiles, flags : FlagFiles, flagsBackup : FlagFiles]

\* A node that was never converted; `flags' says whether kubeadm set it up.
CleanHost(flags) ==
  [hub |-> "none", hubBackup |-> "none", flags |-> flags, flagsBackup |-> "none"]

\* kubelet reads the kubeconfig that sends it through yurt-hub.
ThroughHub(h) == h.flags = "yurthub"

----------------------------------------------------------------------------
(* setupYurtHub *)

\* A manifest of the other type is backed up before it is overwritten.
HubInstalled(h, type) ==
  [h EXCEPT !.hub = type, !.hubBackup = IF h.hub \in {"none", type} THEN @ ELSE h.hub]

\* The manifest is removed and whatever backup there is, of this run or an older one, put back.
HubRolledBack(h, type) ==
  IF h.hub = type THEN h
  ELSE LET b == HubInstalled(h, type).hubBackup
       IN  [h EXCEPT !.hub = b, !.hubBackup = b]

(* setupKubelet *)

\* The flags are backed up once: an existing backup is never replaced.
FlagsBackedUp(h) == IF h.flagsBackup = "none" THEN [h EXCEPT !.flagsBackup = h.flags] ELSE h

KubeletConverted(h) == [FlagsBackedUp(h) EXCEPT !.flags = "yurthub"]

\* Without a backup the file is removed.
KubeletRolledBack(h) == [FlagsBackedUp(h) EXCEPT !.flags = FlagsBackedUp(h).flagsBackup]

(* revertKubelet *)

KubeletReverted(h) == IF h.flagsBackup = "none" THEN h ELSE [h EXCEPT !.flags = h.flagsBackup]

----------------------------------------------------------------------------
(* Whole runs *)

Converted(h, type) == KubeletConverted(HubInstalled(h, type))

Reverted(h) == [KubeletReverted(h) EXCEPT !.hub = "none"]

\* What setupYurtHub passes through: the backup, the manifest, and its removal and return.
HubCuts(h, type) ==
  LET i == HubInstalled(h, type)
  IN  IF h.hub = type THEN {h}
      ELSE {h, [h EXCEPT !.hubBackup = i.hubBackup], HubRolledBack(h, type)} \cup
           {[i EXCEPT !.hub = x] : x \in {"torn", "none", type}} \cup
           (IF h.hub = "none" THEN {} ELSE {[h EXCEPT !.hubBackup = "torn"]})

\* What setupKubelet passes through, from a host with yurt-hub installed.
KubeletCuts(i) ==
  {i, FlagsBackedUp(i), KubeletConverted(i), KubeletRolledBack(i), [FlagsBackedUp(i) EXCEPT !.flags = "torn"]} \cup
  (IF i.flagsBackup = "none" /\ i.flags # "none" THEN {[i EXCEPT !.flagsBackup = "torn"]} ELSE {})

RevertCuts(h) ==
  {h, KubeletReverted(h), Reverted(h)} \cup
  (IF h.flagsBackup = "none" THEN {} ELSE {[h EXCEPT !.flags = "torn"]})

\* What the run leaves when it does what its command says, and when an error or the end of its
\* process cuts it short.
Done(h, op) == IF op = "NormalNode" THEN Reverted(h) ELSE Converted(h, op)

Interrupted(h, op) ==
  IF op = "NormalNode" THEN RevertCuts(h)
  ELSE HubCuts(h, op) \cup KubeletCuts(HubInstalled(h, op))
============================================================================
