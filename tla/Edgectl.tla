------------------------------- MODULE Edgectl -------------------------------
(***************************************************************************)
(* The runs of edgectl on one host, one step per file operation, restart   *)
(* and health poll.  A step may fail, which runs the deferred function     *)
(* that is registered at that point, and the process may die at any step;  *)
(* a write that fails or is cut off may leave its file truncated.  Runs    *)
(* follow one another: a later one finds what an earlier one left.         *)
(***************************************************************************)
EXTENDS KubeletDiscovery, NodeHost

CONSTANTS
  Originals,    \* what kubeadm may have left as kubeadm-flags.env
  MaxTimeouts,  \* bound on health polls that time out
  MaxBreaks     \* bound on failed operations and deaths of the process

ASSUME OriginalsAssumption ==
  \A f \in Originals :
    f = Absent \/ (f = Line(f.args) /\ f.args \in Seq(Flags \ {"yurtKubeconfig"}))

ASSUME BoundsAssumption == MaxTimeouts \in Nat /\ MaxBreaks \in Nat

VARIABLES
  (* the host *)
  hub, hubBackup,      \* yurt-hub's manifest and its backup
  flags, flagsBackup,  \* kubeadm-flags.env and its backup
  kubelet,             \* the flags that kubelet was started with
  (* the run *)
  pc,                  \* its next operation
  op,                  \* the node type to convert to, or NormalNode to revert
  undo,                \* the deferred function that an error runs
  before,              \* the flags that a revert put aside
  failed,              \* whether the run returns an error
  (* bounds *)
  timeouts, breaks,
  (* history *)
  original,            \* what kubeadm left
  torn,                \* whether a write to the flags or their backup was ever cut off
  start,               \* the host when the run began
  outcome              \* what the last run was and whether it succeeded

files       == <<hub, hubBackup, flags, flagsBackup>>
boundVars   == <<timeouts, breaks>>
historyVars == <<original, torn, start, outcome>>
vars == <<files, kubelet, pc, op, undo, before, failed, boundVars, historyVars>>

Ops == {"CloudNode", "EdgeNode", "NormalNode"}

\* What NodeHost tells apart of a kubeadm-flags.env.
KindOf(file) ==
  CASE file.kind = "absent" -> "none"
    [] file.kind = "empty"  -> "torn"
    [] file.kind = "line"   -> IF ToYurtHub(file) THEN "yurthub" ELSE "original"

Host == [hub |-> hub, hubBackup |-> hubBackup,
         flags |-> KindOf(flags), flagsBackup |-> KindOf(flagsBackup)]

Init ==
  /\ hub = "none" /\ hubBackup = "none"
  /\ flags \in Originals /\ flagsBackup = Absent /\ kubelet = flags
  /\ pc = "idle" /\ op = "NormalNode" /\ undo = "none" /\ before = Absent /\ failed = FALSE
  /\ timeouts = 0 /\ breaks = 0
  /\ original = flags /\ torn = FALSE
  /\ start = Host /\ outcome = [op |-> "NormalNode", ok |-> FALSE]

Breaks == breaks < MaxBreaks /\ breaks' = breaks + 1 /\ UNCHANGED timeouts

TimesOut == timeouts < MaxTimeouts /\ timeouts' = timeouts + 1 /\ UNCHANGED breaks

\* The run goes on at p; d is the deferred function that an error there runs.
Goes(p, d) == pc' = p /\ undo' = d /\ UNCHANGED <<op, before, failed>>

\* An error: the deferred function that d names runs, if there is one.
Fails(d) ==
  /\ \/ d = "none" /\ pc' = "end"
     \/ d = "hub" /\ pc' = "hubRemove"
     \/ d = "kubelet" /\ pc' = "kubeletUndo"
     \/ d = "revert" /\ pc' = "revertUndo"
  /\ undo' = "none" /\ failed' = TRUE /\ UNCHANGED <<op, before>>

----------------------------------------------------------------------------

\* The command, by the agent's script or by hand.
Begin(o) ==
  /\ pc = "idle"
  /\ pc' = IF o = "NormalNode" THEN "revert" ELSE "hub"
  /\ op' = o /\ undo' = "none" /\ before' = Absent /\ failed' = FALSE /\ start' = Host
  /\ UNCHANGED <<files, kubelet, boundVars, original, torn, outcome>>

(* setupYurtHub *)

\* A slip of HubSame: the rollback is registered before the manifests are compared.
HubSameUndone ==
  /\ pc = "hub" /\ hub = op /\ Goes("hubCheck", "hub")
  /\ UNCHANGED <<files, kubelet, boundVars, historyVars>>

\* A manifest with the same content is left alone, without a rollback.
HubSame ==
  /\ pc = "hub" /\ hub = op /\ Goes("hubCheck", "none")
  /\ UNCHANGED <<files, kubelet, boundVars, historyVars>>

\* A manifest that differs is backed up before it is overwritten.
HubSave ==
  /\ pc = "hub"
  /\ \/ hub = "none" /\ Goes("hubWrite", "hub") /\ UNCHANGED <<hubBackup, boundVars>>
     \/ /\ hub \notin {op, "none"}
        /\ \/ hubBackup' = hub /\ Goes("hubWrite", "hub") /\ UNCHANGED boundVars
           \/ hubBackup' \in {hubBackup, "torn"} /\ Breaks /\ Fails("none")
  /\ UNCHANGED <<hub, flags, flagsBackup, kubelet, historyVars>>

HubWrite ==
  /\ pc = "hubWrite"
  /\ \/ hub' = op /\ Goes("hubCheck", "hub") /\ UNCHANGED boundVars
     \/ hub' \in {hub, "torn"} /\ Breaks /\ Fails("hub")
  /\ UNCHANGED <<hubBackup, flags, flagsBackup, kubelet, historyVars>>

HubCheck ==
  /\ pc = "hubCheck"
  /\ \/ Goes("kubelet", "none") /\ UNCHANGED boundVars
     \/ TimesOut /\ Fails(undo)
  /\ UNCHANGED <<files, kubelet, historyVars>>

\* The rollback removes the manifest and puts back whatever backup there is.
HubRemove ==
  /\ pc = "hubRemove" /\ Goes("hubRestore", "none")
  /\ \/ hub' = "none" /\ UNCHANGED boundVars
     \/ Breaks /\ UNCHANGED hub
  /\ UNCHANGED <<hubBackup, flags, flagsBackup, kubelet, historyVars>>

HubRestore ==
  /\ pc = "hubRestore" /\ Goes("end", "none")
  /\ \/ hubBackup = "none" /\ UNCHANGED <<hub, boundVars>>
     \/ hubBackup # "none" /\ hub' = hubBackup /\ UNCHANGED boundVars
     \/ hubBackup # "none" /\ hub' \in {hub, "torn"} /\ Breaks
  /\ UNCHANGED <<hubBackup, flags, flagsBackup, kubelet, historyVars>>

(* setupKubelet *)

\* A slip: a backup that is taken anew by every run.
BackupWanted == flags # Absent

\* The flags are backed up once.
BackupMissing == flags # Absent /\ flagsBackup = Absent

\* Write the kubeconfig that names yurt-hub, and back up the flags.
FlagsSave ==
  /\ pc = "kubelet"
  /\ \/ ~BackupMissing /\ Goes("flagsWrite", "kubelet") /\ UNCHANGED <<flagsBackup, boundVars, torn>>
     \/ Breaks /\ Fails("none") /\ UNCHANGED <<flagsBackup, torn>>
     \/ /\ BackupMissing
        /\ \/ flagsBackup' = flags /\ Goes("flagsWrite", "kubelet") /\ UNCHANGED <<boundVars, torn>>
           \/ flagsBackup' = Empty /\ torn' = TRUE /\ Breaks /\ Fails("none")
  /\ UNCHANGED <<hub, hubBackup, flags, kubelet, original, start, outcome>>

\* Without a change kubelet is not restarted.
FlagsWrite ==
  /\ pc = "flagsWrite"
  /\ \/ Rewritten(flags) = flags /\ Goes("kubeletCheck", "kubelet") /\ UNCHANGED <<flags, boundVars, torn>>
     \/ Breaks /\ Fails("kubelet") /\ UNCHANGED <<flags, torn>>
     \/ /\ Rewritten(flags) # flags
        /\ \/ flags' = Rewritten(flags) /\ Goes("restart", "kubelet") /\ UNCHANGED <<boundVars, torn>>
           \/ flags' = Empty /\ torn' = TRUE /\ Breaks /\ Fails("kubelet")
  /\ UNCHANGED <<hub, hubBackup, flagsBackup, kubelet, original, start, outcome>>

\* The rollback puts the backup back, or removes the file where there is none.
KubeletUndo ==
  /\ pc = "kubeletUndo"
  /\ \/ flags' = flagsBackup /\ Goes("undoRestart", "none") /\ UNCHANGED <<boundVars, torn>>
     \/ flagsBackup = Absent /\ Breaks /\ Goes("undoRestart", "none") /\ UNCHANGED <<flags, torn>>
     \/ /\ flagsBackup # Absent /\ Breaks /\ Goes("end", "none")
        /\ \/ UNCHANGED <<flags, torn>>
           \/ flags' = Empty /\ torn' = TRUE
  /\ UNCHANGED <<hub, hubBackup, flagsBackup, kubelet, original, start, outcome>>

(* Both commands *)

Restart ==
  /\ pc = "restart"
  /\ \/ kubelet' = flags /\ Goes("kubeletCheck", undo) /\ UNCHANGED boundVars
     \/ kubelet' \in {kubelet, flags} /\ Breaks /\ Fails(undo)
  /\ UNCHANGED <<files, historyVars>>

KubeletCheck ==
  /\ pc = "kubeletCheck"
  /\ \/ Goes(IF op = "NormalNode" THEN "hubDelete" ELSE "end", "none") /\ UNCHANGED boundVars
     \/ TimesOut /\ Fails(undo)
  /\ UNCHANGED <<files, kubelet, historyVars>>

\* After a rollback; nothing follows from the poll after it.
UndoRestart ==
  /\ pc = "undoRestart" /\ Goes("end", "none")
  /\ \/ kubelet' = flags /\ UNCHANGED boundVars
     \/ kubelet' \in {kubelet, flags} /\ Breaks
  /\ UNCHANGED <<files, historyVars>>

(* revertKubelet and removeYurtHub *)

\* Without a backup kubelet is left alone; with one the flags are put aside first.
RevertSave ==
  /\ pc = "revert"
  /\ \/ flagsBackup = Absent /\ Goes("hubDelete", "none") /\ UNCHANGED boundVars
     \/ /\ flagsBackup # Absent /\ flags # Absent
        /\ pc' = "flagsRestore" /\ undo' = "revert" /\ before' = flags
        /\ UNCHANGED <<op, failed, boundVars>>
     \/ flagsBackup # Absent /\ flags = Absent /\ Fails("none") /\ UNCHANGED boundVars
     \/ flagsBackup # Absent /\ Breaks /\ Fails("none")
  /\ UNCHANGED <<files, kubelet, historyVars>>

\* Without a change kubelet is not restarted.
FlagsRestore ==
  /\ pc = "flagsRestore"
  /\ \/ flagsBackup = flags /\ Goes("hubDelete", "none") /\ UNCHANGED <<flags, boundVars, torn>>
     \/ /\ flagsBackup # flags
        /\ \/ flags' = flagsBackup /\ Goes("restart", "revert") /\ UNCHANGED <<boundVars, torn>>
           \/ Breaks /\ Fails("revert") /\ UNCHANGED <<flags, torn>>
           \/ flags' = Empty /\ torn' = TRUE /\ Breaks /\ Fails("revert")
  /\ UNCHANGED <<hub, hubBackup, flagsBackup, kubelet, original, start, outcome>>

RevertUndo ==
  /\ pc = "revertUndo"
  /\ \/ flags' = before /\ Goes("undoRestart", "none") /\ UNCHANGED <<boundVars, torn>>
     \/ /\ Breaks /\ Goes("end", "none")
        /\ \/ UNCHANGED <<flags, torn>>
           \/ flags' = Empty /\ torn' = TRUE
  /\ UNCHANGED <<hub, hubBackup, flagsBackup, kubelet, original, start, outcome>>

HubDelete ==
  /\ pc = "hubDelete"
  /\ \/ hub' = "none" /\ Goes("end", "none") /\ UNCHANGED boundVars
     \/ Breaks /\ Fails("none") /\ UNCHANGED hub
  /\ UNCHANGED <<hubBackup, flags, flagsBackup, kubelet, historyVars>>

----------------------------------------------------------------------------

Over(ok) ==
  /\ pc' = "idle" /\ outcome' = [op |-> op, ok |-> ok]
  /\ undo' = "none" /\ before' = Absent /\ failed' = FALSE
  /\ UNCHANGED <<op, kubelet, original, start>>

\* A slip: a rollback that loses the error.
EndWell ==
  /\ pc = "end" /\ Over(TRUE)
  /\ UNCHANGED <<files, boundVars, torn>>

End ==
  /\ pc = "end" /\ Over(~failed)
  /\ UNCHANGED <<files, boundVars, torn>>

\* The process dies; the file it was writing may be truncated.
Dies ==
  /\ pc # "idle" /\ Breaks /\ Over(FALSE)
  /\ \/ UNCHANGED <<files, torn>>
     \/ /\ pc = "hub" /\ hub \notin {op, "none"} /\ hubBackup' = "torn"
        /\ UNCHANGED <<hub, flags, flagsBackup, torn>>
     \/ /\ pc = "hubWrite" \/ (pc = "hubRestore" /\ hubBackup # "none")
        /\ hub' = "torn" /\ UNCHANGED <<hubBackup, flags, flagsBackup, torn>>
     \/ /\ pc = "kubelet" /\ BackupMissing /\ flagsBackup' = Empty /\ torn' = TRUE
        /\ UNCHANGED <<hub, hubBackup, flags>>
     \/ /\ \/ pc = "flagsWrite" /\ Rewritten(flags) # flags
           \/ pc = "kubeletUndo" /\ flagsBackup # Absent
           \/ pc = "flagsRestore" /\ flagsBackup # flags
           \/ pc = "revertUndo"
        /\ flags' = Empty /\ torn' = TRUE /\ UNCHANGED <<hub, hubBackup, flagsBackup>>

\* kubelet is restarted by somebody else: its own crash, a reboot.
KubeletRestarts ==
  /\ kubelet # flags /\ kubelet' = flags
  /\ UNCHANGED <<files, pc, op, undo, before, failed, boundVars, historyVars>>

Convert == HubSame \/ HubSave \/ HubWrite \/ HubCheck \/ HubRemove \/ HubRestore
           \/ FlagsSave \/ FlagsWrite \/ KubeletUndo
Revert  == RevertSave \/ FlagsRestore \/ RevertUndo \/ HubDelete
Both    == Restart \/ KubeletCheck \/ UndoRestart \/ End

Next ==
  \/ \E o \in Ops : Begin(o)
  \/ Convert \/ Revert \/ Both
  \/ Dies \/ KubeletRestarts

Spec == Init /\ [][Next]_vars

----------------------------------------------------------------------------
(* Properties *)

\* Every variable has the type its declaration says; the line gets at most two flags longer,
\* however often it is rewritten.
FlagsFile(file) ==
  \/ file \in {Absent, Empty}
  \/ /\ file = Line(file.args) /\ file.args \in Seq(Flags)
     /\ Len(file.args) <= Len(original.args) + 2

TypeOK ==
  /\ original \in Originals
  /\ hub \in HubFiles /\ hubBackup \in HubFiles
  /\ FlagsFile(flags) /\ FlagsFile(flagsBackup) /\ FlagsFile(kubelet) /\ FlagsFile(before)
  /\ pc \in {"idle", "hub", "hubWrite", "hubCheck", "hubRemove", "hubRestore", "kubelet", "flagsWrite",
             "kubeletUndo", "restart", "kubeletCheck", "undoRestart", "revert", "flagsRestore",
             "revertUndo", "hubDelete", "end"}
  /\ op \in Ops /\ undo \in {"none", "hub", "kubelet", "revert"} /\ failed \in BOOLEAN
  /\ timeouts \in Nat /\ breaks \in Nat /\ torn \in BOOLEAN
  /\ start \in Hosts /\ outcome \in [op : Ops, ok : BOOLEAN]

\* The backup that every rollback and every revert trusts is what kubeadm left, and never a line
\* that an earlier run rewrote, unless the write of the backup itself was cut off.
BackupIsOriginal ==
  original # Absent => flagsBackup \in {Absent, original} \/ (flagsBackup = Empty /\ torn)

\* Whatever failed or died before, a conversion that succeeds changes the two kubeconfig flags
\* of kubelet and no other, and a reversal that succeeds leaves the line that kubeadm wrote,
\* unless a write was cut off.
FlagsSurvive ==
  (pc = "idle" /\ outcome.ok /\ original # Absent /\ ~torn) =>
    IF outcome.op = "NormalNode" THEN flags = original
    ELSE /\ Others(flags.args) = Others(original.args)
         /\ Setting(flags.args, "--bootstrap-kubeconfig") = "noBootstrap"
         /\ Setting(flags.args, "--kubeconfig") = "yurtKubeconfig"

\* kubelet never runs through a yurt-hub whose manifest is gone, whatever polls time out in
\* conversions, reversals and their rollbacks: yurt-hub comes before kubelet and goes after it.
\* The rollback that swaps manifests is excepted, and so is a host that kubeadm left no flags on.
KubeletHasHub ==
  ToYurtHub(kubelet) /\ breaks = 0 /\ original # Absent /\ pc # "hubRestore" => hub # "none"

\* A conversion never points yurt-hub at itself: whatever rewritings, rollbacks and torn files a
\* run finds kubelet started with, the address it reads is that of the API server.
HubFindsServer == APIServerAddress(kubelet.args) = "apiServer"

\* What another component sees of a run is its beginning and its end: whatever happens between,
\* it does what its command says, or leaves what NodeHost calls interrupted.
Runs == INSTANCE HostRuns WITH host <- IF pc = "idle" THEN Host ELSE start

RunsAsPromised == Runs!Spec
=============================================================================
