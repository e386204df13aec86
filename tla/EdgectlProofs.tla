---------------------------- MODULE EdgectlProofs ----------------------------
(***************************************************************************)
(* Proofs about Edgectl for any flags that kubeadm may have left and any   *)
(* number of timeouts, failed operations and deaths.                       *)
(***************************************************************************)
EXTENDS Edgectl, KubeadmFlagsProofs

----------------------------------------------------------------------------
(* Types *)

\* The bound on the length of a line is not inductive: a line that is as long as it may be must
\* not grow when it is rewritten.
Bounded(file) ==
  \/ file \in {Absent, Empty}
  \/ /\ file = Line(file.args) /\ file.args \in Seq(Flags)
     /\ Len(file.args) <= Len(original.args) + 2
     /\ Len(Redirected(file.args)) <= Len(original.args) + 2

TypeInv ==
  /\ TypeOK
  /\ Bounded(flags) /\ Bounded(flagsBackup) /\ Bounded(kubelet) /\ Bounded(before)
  /\ pc \in {"hub", "hubWrite", "hubCheck"} => op # "NormalNode"

LEMMA OriginalBounded ==
  ASSUME original \in Originals
  PROVE  Bounded(original) /\ Len(original.args) \in Nat
<1>1. CASE original = Absent
  BY <1>1 DEF Bounded, Absent
<1>2. CASE original = Line(original.args) /\ original.args \in Seq(Flags \ {"yurtKubeconfig"})
  <2> DEFINE args == original.args
  <2>1. args \in Seq(Flags \ {"yurtKubeconfig"})
    BY <1>2
  <2> HIDE DEF args
  <2>2. args \in Seq(Flags)
    BY <2>1, SeqMonotonic, Flags \ {"yurtKubeconfig"} \subseteq Flags
  <2>3. Len(args) \in Nat /\ Len(Redirected(args)) <= Len(args) + 2
    BY <2>2, LenProperties, RedirectedLength
  <2> QED
    BY <1>2, <2>2, <2>3 DEF Bounded, args
<1> QED
  BY <1>1, <1>2, OriginalsAssumption

LEMMA RewrittenBounded ==
  ASSUME NEW file, Bounded(file), Len(original.args) \in Nat
  PROVE  Bounded(Rewritten(file))
<1>1. CASE file \in {Absent, Empty}
  <2>1. Rewritten(file) = Line(Redirected(<<>>))
    BY <1>1, RedirectedNothing DEF Rewritten, Absent, Empty
  <2>2. <<>> \in Seq(Flags) /\ Len(<<>>) = 0
    OBVIOUS
  <2>3. /\ Redirected(<<>>) \in Seq(Flags) /\ Len(Redirected(<<>>)) <= 0 + 2
        /\ Len(Redirected(Redirected(<<>>))) = Len(Redirected(<<>>))
    BY <2>2, RedirectedLength
  <2>4. Len(Redirected(<<>>)) \in Nat
    BY <2>3, LenProperties
  <2> HIDE DEF Rewritten
  <2> QED
    BY <2>1, <2>3, <2>4 DEF Bounded, Line
<1>2. CASE file = Line(file.args) /\ file.args \in Seq(Flags) /\ Len(Redirected(file.args)) <= Len(original.args) + 2
  <2> DEFINE args == file.args
  <2>1. Rewritten(file) = Line(Redirected(args))
    BY <1>2 DEF Rewritten, Line
  <2>2. args \in Seq(Flags) /\ Len(Redirected(args)) <= Len(original.args) + 2
    BY <1>2
  <2> HIDE DEF args
  <2>3. Redirected(args) \in Seq(Flags) /\ Len(Redirected(Redirected(args))) = Len(Redirected(args))
    BY <2>2, RedirectedLength
  <2> QED
    BY <2>1, <2>2, <2>3 DEF Bounded, Line
<1> QED
  BY <1>1, <1>2 DEF Bounded

LEMMA KindTypes ==
  ASSUME NEW file, Bounded(file)
  PROVE  KindOf(file) \in FlagFiles /\ (KindOf(file) = "none" <=> file = Absent)
  BY DEF Bounded, KindOf, FlagFiles, Absent, Empty, Line

LEMMA HostTypes ==
  ASSUME TypeInv
  PROVE  Host \in Hosts
  BY KindTypes DEF TypeInv, TypeOK, Host, Hosts

LEMMA InitTypes == Init => TypeInv
<1> SUFFICES ASSUME Init PROVE TypeInv
  OBVIOUS
<1>1. original \in Originals /\ flags = original /\ kubelet = original /\ flagsBackup = Absent /\ before = Absent
  BY DEF Init
<1>2. Bounded(original)
  BY <1>1, OriginalBounded
<1>3. Bounded(flags) /\ Bounded(flagsBackup) /\ Bounded(kubelet) /\ Bounded(before)
  BY <1>1, <1>2 DEF Bounded
<1>4. start \in Hosts
  BY <1>3, KindTypes DEF Init, Host, Hosts, HubFiles
<1>5. FlagsFile(flags) /\ FlagsFile(flagsBackup) /\ FlagsFile(kubelet) /\ FlagsFile(before)
  BY <1>3 DEF Bounded, FlagsFile
<1>6. outcome \in [op : Ops, ok : BOOLEAN]
  BY DEF Init, Ops
<1> QED
  BY <1>1, <1>3, <1>4, <1>5, <1>6 DEF Init, TypeInv, TypeOK, Ops, HubFiles

\* Every operation writes files that some run has seen, truncates them or rewrites the flags.
LEMMA FilesStep ==
  ASSUME TypeInv, [Next]_vars
  PROVE  /\ original' = original
         /\ Bounded(flags)' /\ Bounded(flagsBackup)' /\ Bounded(kubelet)' /\ Bounded(before)'
<1>1. original' = original
  BY DEF Next, Begin, Convert, Revert, Both, HubSame, HubSave, HubWrite, HubCheck, HubRemove,
         HubRestore, FlagsSave, FlagsWrite, KubeletUndo, RevertSave, FlagsRestore, RevertUndo, HubDelete,
         Restart, KubeletCheck, UndoRestart, End, Dies, Over, KubeletRestarts, historyVars, vars
<1> DEFINE Files == {flags, flagsBackup, kubelet, before, Absent, Empty, Rewritten(flags)}
<1>2. Len(original.args) \in Nat
  BY OriginalBounded DEF TypeInv, TypeOK
<1>3. \A f \in Files : Bounded(f)
  BY <1>2, RewrittenBounded DEF TypeInv, Bounded
<1>4. flags' \in Files /\ flagsBackup' \in Files /\ kubelet' \in Files /\ before' \in Files
  BY DEF Next, Begin, Convert, Revert, Both, HubSame, HubSave, HubWrite, HubCheck, HubRemove,
         HubRestore, FlagsSave, FlagsWrite, KubeletUndo, RevertSave, FlagsRestore, RevertUndo, HubDelete,
         Restart, KubeletCheck, UndoRestart, End, Dies, Over, KubeletRestarts, Goes, Fails,
         files, historyVars, vars
<1>5. \A f \in Files : Bounded(f) => (f \in {Absent, Empty} \/
                                      /\ f = Line(f.args) /\ f.args \in Seq(Flags)
                                      /\ Len(f.args) <= Len(original'.args) + 2
                                      /\ Len(Redirected(f.args)) <= Len(original'.args) + 2)
  BY <1>1 DEF Bounded
<1> HIDE DEF Files
<1> QED
  BY <1>1, <1>3, <1>4, <1>5 DEF Bounded

LEMMA TypeStep ==
  ASSUME TypeInv, [Next]_vars
  PROVE  TypeInv'
<1>1. /\ original' = original
      /\ Bounded(flags)' /\ Bounded(flagsBackup)' /\ Bounded(kubelet)' /\ Bounded(before)'
  BY FilesStep
<1>2. FlagsFile(flags)' /\ FlagsFile(flagsBackup)' /\ FlagsFile(kubelet)' /\ FlagsFile(before)'
  BY <1>1 DEF Bounded, FlagsFile
<1>3. Host \in Hosts
  BY HostTypes
<1>4. hub' \in HubFiles /\ hubBackup' \in HubFiles
  BY DEF TypeInv, TypeOK, HubFiles, Ops, Next, Begin, Convert, Revert, Both, HubSame, HubSave, HubWrite, HubCheck, HubRemove,
         HubRestore, FlagsSave, FlagsWrite, KubeletUndo, RevertSave, FlagsRestore, RevertUndo, HubDelete,
         Restart, KubeletCheck, UndoRestart, End, Dies, Over, KubeletRestarts, Goes, Fails,
         Breaks, TimesOut, files, boundVars, historyVars, vars
<1>5. /\ op' \in Ops /\ undo' \in {"none", "hub", "kubelet", "revert"}
      /\ pc' \in {"idle", "hub", "hubWrite", "hubCheck", "hubRemove", "hubRestore", "kubelet", "flagsWrite",
                  "kubeletUndo", "restart", "kubeletCheck", "undoRestart", "revert", "flagsRestore",
                  "revertUndo", "hubDelete", "end"}
      /\ pc' \in {"hub", "hubWrite", "hubCheck"} => op' # "NormalNode"
  BY DEF TypeInv, TypeOK, Next, Begin, Convert, Revert, Both, HubSame, HubSave, HubWrite, HubCheck, HubRemove,
         HubRestore, FlagsSave, FlagsWrite, KubeletUndo, RevertSave, FlagsRestore, RevertUndo, HubDelete,
         Restart, KubeletCheck, UndoRestart, End, Dies, Over, KubeletRestarts, Goes, Fails,
         Breaks, TimesOut, files, boundVars, historyVars, vars
<1>6. timeouts' \in Nat /\ breaks' \in Nat
  BY DEF TypeInv, TypeOK, Next, Begin, Convert, Revert, Both, HubSame, HubSave, HubWrite, HubCheck, HubRemove,
         HubRestore, FlagsSave, FlagsWrite, KubeletUndo, RevertSave, FlagsRestore, RevertUndo, HubDelete,
         Restart, KubeletCheck, UndoRestart, End, Dies, Over, KubeletRestarts, Goes, Fails,
         Breaks, TimesOut, files, boundVars, historyVars, vars
<1>7. failed' \in BOOLEAN /\ torn' \in BOOLEAN
  BY DEF TypeInv, TypeOK, Next, Begin, Convert, Revert, Both, HubSame, HubSave, HubWrite, HubCheck, HubRemove,
         HubRestore, FlagsSave, FlagsWrite, KubeletUndo, RevertSave, FlagsRestore, RevertUndo, HubDelete,
         Restart, KubeletCheck, UndoRestart, End, Dies, Over, KubeletRestarts, Goes, Fails,
         Breaks, TimesOut, files, boundVars, historyVars, vars
<1>8. start' = start \/ start' = Host
  BY DEF Next, Begin, Convert, Revert, Both, HubSame, HubSave, HubWrite, HubCheck, HubRemove,
         HubRestore, FlagsSave, FlagsWrite, KubeletUndo, RevertSave, FlagsRestore, RevertUndo, HubDelete,
         Restart, KubeletCheck, UndoRestart, End, Dies, Over, KubeletRestarts, historyVars, vars
<1>9. outcome' = outcome \/ outcome' = [op |-> op, ok |-> ~failed] \/ outcome' = [op |-> op, ok |-> FALSE]
  BY DEF Next, Begin, Convert, Revert, Both, HubSame, HubSave, HubWrite, HubCheck, HubRemove,
         HubRestore, FlagsSave, FlagsWrite, KubeletUndo, RevertSave, FlagsRestore, RevertUndo, HubDelete,
         Restart, KubeletCheck, UndoRestart, End, Dies, Over, KubeletRestarts, historyVars, vars
<1>10. start' \in Hosts /\ outcome' \in [op : Ops, ok : BOOLEAN]
  <2>1. op \in Ops /\ failed \in BOOLEAN /\ start \in Hosts /\ outcome \in [op : Ops, ok : BOOLEAN]
    BY DEF TypeInv, TypeOK
  <2>2. [op |-> op, ok |-> ~failed] \in [op : Ops, ok : BOOLEAN] /\ [op |-> op, ok |-> FALSE] \in [op : Ops, ok : BOOLEAN]
    BY <2>1
  <2> QED
    BY <1>3, <1>8, <1>9, <2>1, <2>2
<1> QED
  BY <1>1, <1>2, <1>4, <1>5, <1>6, <1>7, <1>10 DEF TypeInv, TypeOK

\* The variables keep their types, and no line grows by more than two flags, for any sequence of
\* conversions, reversals and rollbacks.
THEOREM TypesKept == Spec => []TypeOK
<1>1. TypeInv => TypeOK
  BY DEF TypeInv
<1> QED
  BY InitTypes, TypeStep, <1>1, PTL DEF Spec

----------------------------------------------------------------------------
(* The backup *)

\* Where a run is with its hands on the flags, in which a backup exists.
FlagsPoints == {"flagsWrite", "restart", "kubeletCheck", "kubeletUndo", "undoRestart",
                "flagsRestore", "revertUndo"}

\* BackupIsOriginal is not inductive: a run that takes the backup must find the flags as kubeadm
\* left them, which holds because no run writes the flags before there is a backup.
BackupInv ==
  /\ original \in Originals /\ breaks \in Nat
  /\ pc = "hubCheck" => undo \in {"none", "hub"}
  /\ BackupIsOriginal
  /\ original # Absent /\ flagsBackup = Absent => flags = original /\ pc \notin FlagsPoints

LEMMA InitBackup == Init => BackupInv
  BY DEF Init, BackupInv, BackupIsOriginal, FlagsPoints

LEMMA BackupStep ==
  ASSUME BackupInv, [Next]_vars
  PROVE  BackupInv'
<1> USE DEF BackupInv
<1>1. original' \in Originals /\ breaks' \in Nat
  BY DEF Next, Begin, Convert, Revert, Both, HubSame, HubSave, HubWrite, HubCheck, HubRemove, HubRestore,
         FlagsSave, FlagsWrite, KubeletUndo, RevertSave, FlagsRestore, RevertUndo, HubDelete, Restart,
         KubeletCheck, UndoRestart, End, Dies, Over, KubeletRestarts, Breaks, TimesOut,
         boundVars, historyVars, vars
<1>2. CASE UNCHANGED vars
  BY <1>2 DEF vars, files, boundVars, historyVars, BackupIsOriginal, FlagsPoints
<1>3. ASSUME NEW o \in Ops, Begin(o) PROVE BackupInv'
  BY <1>1, <1>3 DEF Begin, files, BackupIsOriginal, FlagsPoints
<1>4. CASE HubSame \/ HubSave \/ HubWrite \/ HubCheck \/ HubRemove \/ HubRestore
  BY <1>1, <1>4 DEF HubSame, HubSave, HubWrite, HubCheck, HubRemove, HubRestore, Goes, Fails,
                    files, historyVars, BackupIsOriginal, FlagsPoints
<1>5. CASE FlagsSave
  BY <1>1, <1>5 DEF FlagsSave, BackupMissing, Goes, Fails, BackupIsOriginal, FlagsPoints, Absent, Empty
<1>6. CASE FlagsWrite \/ KubeletUndo \/ FlagsRestore \/ RevertUndo
  BY <1>1, <1>6 DEF FlagsWrite, KubeletUndo, FlagsRestore, RevertUndo, Goes, Fails,
                    BackupIsOriginal, FlagsPoints
<1>7. CASE Restart \/ KubeletCheck \/ UndoRestart
  BY <1>1, <1>7 DEF Restart, KubeletCheck, UndoRestart, Goes, Fails, files, historyVars,
                    BackupIsOriginal, FlagsPoints
<1>8. CASE RevertSave \/ HubDelete
  BY <1>1, <1>8 DEF RevertSave, HubDelete, Goes, Fails, files, historyVars, BackupIsOriginal, FlagsPoints
<1>9. CASE End \/ Dies \/ KubeletRestarts
  BY <1>1, <1>9 DEF End, Dies, KubeletRestarts, Over, BackupMissing, files, historyVars,
                    BackupIsOriginal, FlagsPoints, Absent, Empty
<1> QED
  BY <1>2, <1>3, <1>4, <1>5, <1>6, <1>7, <1>8, <1>9 DEF Next, Convert, Revert, Both

\* The backup of kubelet's flags is never one of a rewritten line, for any history of runs,
\* errors and deaths (setupKubelet, convert.go:301-315).
THEOREM BackupKept == Spec => []BackupIsOriginal
<1>1. BackupInv /\ [Next]_vars => BackupInv'
  BY BackupStep
<1>2. BackupInv => BackupIsOriginal
  BY DEF BackupInv
<1> QED
  BY InitBackup, <1>1, <1>2, PTL DEF Spec

----------------------------------------------------------------------------
(* The flags *)

Same(file) ==
  file.kind = "line" /\ file.args \in Seq(Flags) /\ Others(file.args) = Others(original.args)

Through(file) ==
  /\ Setting(file.args, "--bootstrap-kubeconfig") = "noBootstrap"
  /\ Setting(file.args, "--kubeconfig") = "yurtKubeconfig"

\* The flags as a run of the operation leaves them when it succeeds.
Ended(o) == IF o = "NormalNode" THEN flags = original ELSE Through(flags)

\* The inductive invariant of FlagsSurvive: where no write was cut off the file always holds the
\* flags that a run may not touch, and so does what a reversal puts aside; from the write on the
\* file is as the run has to leave it, unless an error has turned the run back.
SurviveInv ==
  original # Absent /\ ~torn =>
    /\ Same(flags)
    /\ undo = "revert" \/ pc \in {"flagsRestore", "revertUndo"} => Same(before)
    /\ pc \in {"hubRemove", "hubRestore", "kubeletUndo", "revertUndo", "undoRestart"} => failed
    /\ pc \in {"restart", "kubeletCheck", "hubDelete"} \/ (pc = "end" /\ ~failed) => Ended(op)
    /\ pc \in {"hub", "hubWrite", "hubCheck", "kubelet", "flagsWrite"} => op # "NormalNode"
    /\ pc \in {"revert", "flagsRestore", "hubDelete"} => op = "NormalNode"
    /\ pc = "idle" /\ outcome.ok => Ended(outcome.op)

LEMMA OriginalSame ==
  ASSUME original \in Originals, original # Absent
  PROVE  Same(original)
<1> DEFINE args == original.args
<1>1. original = Line(args) /\ args \in Seq(Flags \ {"yurtKubeconfig"})
  BY OriginalsAssumption
<1> HIDE DEF args
<1>2. args \in Seq(Flags)
  BY <1>1, SeqMonotonic, Flags \ {"yurtKubeconfig"} \subseteq Flags
<1> QED
  BY <1>1, <1>2 DEF Same, Line, args

LEMMA RewrittenSame ==
  ASSUME NEW file, Same(file)
  PROVE  Same(Rewritten(file)) /\ Through(Rewritten(file))
<1> DEFINE args == file.args
<1>1. args \in Seq(Flags) /\ Others(args) = Others(original.args) /\ Rewritten(file) = Line(Redirected(args))
  BY DEF Same, Rewritten
<1> HIDE DEF args
<1>2. /\ Redirected(args) \in Seq(Flags) /\ Others(Redirected(args)) = Others(args)
      /\ Setting(Redirected(args), "--bootstrap-kubeconfig") = "noBootstrap"
      /\ Setting(Redirected(args), "--kubeconfig") = "yurtKubeconfig"
  BY <1>1, RewrittenLines
<1> QED
  BY <1>1, <1>2 DEF Same, Through, Line

LEMMA InitSurvive == Init => SurviveInv
<1> SUFFICES ASSUME Init, original # Absent PROVE SurviveInv
  BY DEF SurviveInv
<1>1. Same(original)
  BY OriginalSame DEF Init
<1> QED
  BY <1>1 DEF Init, SurviveInv, Same

LEMMA SurviveStep ==
  ASSUME BackupInv, SurviveInv, [Next]_vars
  PROVE  SurviveInv'
<1>1. original' = original /\ (torn' = torn \/ torn')
  BY DEF Next, Begin, Convert, Revert, Both, HubSame, HubSave, HubWrite, HubCheck, HubRemove,
         HubRestore, FlagsSave, FlagsWrite, KubeletUndo, RevertSave, FlagsRestore, RevertUndo, HubDelete,
         Restart, KubeletCheck, UndoRestart, End, Dies, Over, KubeletRestarts, historyVars, vars
<1>2. SUFFICES ASSUME original # Absent, ~torn, ~torn' PROVE SurviveInv'
  BY <1>1 DEF SurviveInv
<1>3. /\ flagsBackup \in {Absent, original}
      /\ flagsBackup = Absent => flags = original
      /\ pc \in FlagsPoints => flagsBackup = original
      /\ pc = "hubCheck" => undo \in {"none", "hub"}
  BY <1>2 DEF BackupInv, BackupIsOriginal
<1>4. Same(original) /\ Same(Rewritten(flags)) /\ Through(Rewritten(flags))
  BY <1>2, OriginalSame, RewrittenSame DEF BackupInv, SurviveInv
<1> USE <1>1, <1>2, <1>3, <1>4 DEF SurviveInv, Same, Ended, Through
<1>5. CASE UNCHANGED vars
  BY <1>5 DEF vars, files, historyVars
<1>6. ASSUME NEW o \in Ops, Begin(o) PROVE SurviveInv'
  BY <1>6 DEF Begin, files, Ops
<1>7. CASE HubSame
  BY <1>7 DEF HubSame, Goes, files, historyVars
<1>8. CASE HubSave
  BY <1>8 DEF HubSave, Goes, Fails, historyVars
<1>9. CASE HubWrite
  BY <1>9 DEF HubWrite, Goes, Fails, historyVars
<1>10. CASE HubCheck
  BY <1>10 DEF HubCheck, Goes, Fails, files, historyVars
<1>11. CASE HubRemove \/ HubRestore
  BY <1>11 DEF HubRemove, HubRestore, Goes, historyVars
<1>12. CASE FlagsSave
  BY <1>12 DEF FlagsSave, Goes, Fails
<1>13. CASE FlagsWrite
  BY <1>13 DEF FlagsWrite, Goes, Fails
<1>14. CASE KubeletUndo
  BY <1>14 DEF KubeletUndo, Goes, FlagsPoints
<1>15. CASE Restart
  BY <1>15 DEF Restart, Goes, Fails, files, historyVars
<1>16. CASE KubeletCheck
  BY <1>16 DEF KubeletCheck, Goes, Fails, files, historyVars
<1>17. CASE UndoRestart
  BY <1>17 DEF UndoRestart, Goes, files, historyVars
<1>18. CASE RevertSave
  BY <1>18 DEF RevertSave, Goes, Fails, files, historyVars
<1>19. CASE FlagsRestore
  BY <1>19 DEF FlagsRestore, Goes, Fails, FlagsPoints
<1>20. CASE RevertUndo
  BY <1>20 DEF RevertUndo, Goes
<1>21. CASE HubDelete
  BY <1>21 DEF HubDelete, Goes, Fails, historyVars
<1>22. CASE End
  BY <1>22 DEF End, Over, files
<1>23. CASE Dies
  BY <1>23 DEF Dies, Over, files
<1>24. CASE KubeletRestarts
  BY <1>24 DEF KubeletRestarts, files, historyVars
<1> QED
  BY <1>5, <1>6, <1>7, <1>8, <1>9, <1>10, <1>11, <1>12, <1>13, <1>14, <1>15, <1>16, <1>17,
     <1>18, <1>19, <1>20, <1>21, <1>22, <1>23, <1>24 DEF Next, Convert, Revert, Both

\* Whatever failed or died before, a conversion that succeeds changes the two kubeconfig flags of
\* kubelet and no other, and a reversal that succeeds leaves the line that kubeadm wrote, for any
\* line and any history in which no write was cut off (setupKubelet, revertKubelet).
THEOREM FlagsKept == Spec => []FlagsSurvive
<1>1. BackupInv /\ SurviveInv /\ [Next]_vars => BackupInv' /\ SurviveInv'
  BY BackupStep, SurviveStep
<1>2. SurviveInv => FlagsSurvive
  BY DEF SurviveInv, FlagsSurvive, Ended, Same, Through
<1> QED
  BY InitBackup, InitSurvive, <1>1, <1>2, PTL DEF Spec

----------------------------------------------------------------------------
(* yurt-hub and kubelet *)

\* The inductive invariant of KubeletHasHub, for histories in which polls time out and nothing
\* else fails: kubelet runs with the flags of the file but between a write and the restart after
\* it, and whatever may send it to yurt-hub has a manifest, or the backup of one to come back to.
HubInv ==
  breaks = 0 /\ original # Absent =>
    /\ ~torn
    /\ pc \notin {"restart", "undoRestart"} => kubelet = flags
    /\ pc # "hubRestore" /\ (ToYurtHub(kubelet) \/ ToYurtHub(flags)) => hub # "none"
    /\ pc \in {"flagsRestore", "restart", "kubeletCheck", "revertUndo"} /\ ToYurtHub(before) => hub # "none"
    /\ pc \in {"hubCheck", "kubelet", "flagsWrite"} => hub # "none"
    /\ pc \in {"hubWrite", "hubRemove", "hubRestore"} \/ (pc = "hubCheck" /\ undo = "hub") =>
         (ToYurtHub(kubelet) => hubBackup # "none")
    /\ pc \in {"hub", "hubWrite", "hubCheck"} => op \in Ops \ {"NormalNode"}
    /\ pc = "hubCheck" => undo \in {"none", "hub"}
    /\ pc \in {"kubelet", "flagsWrite"} => op # "NormalNode"
    /\ pc \in {"restart", "kubeletCheck"} =>
         IF op = "NormalNode" THEN undo = "revert" /\ flags = original
                              ELSE undo = "kubelet" /\ hub # "none"
    /\ pc \in {"revert", "flagsRestore", "revertUndo"} => op = "NormalNode"
    /\ pc = "hubDelete" => flags = original

\* What kubeadm left does not name yurt-hub.
LEMMA OriginalDirect ==
  ASSUME original \in Originals
  PROVE  ~ToYurtHub(original)
<1>1. CASE original = Absent
  BY <1>1 DEF Absent, ToYurtHub
<1>2. CASE original.args \in Seq(Flags \ {"yurtKubeconfig"})
  BY <1>2 DEF ToYurtHub
<1> QED
  BY <1>1, <1>2, OriginalsAssumption

LEMMA InitHub == Init => HubInv
<1> SUFFICES ASSUME Init PROVE HubInv
  OBVIOUS
<1>1. original \in Originals /\ flags = original /\ kubelet = original
  BY DEF Init
<1>2. ~ToYurtHub(original)
  BY <1>1, OriginalDirect
<1> QED
  BY <1>1, <1>2 DEF Init, HubInv

\* After an operation that failed HubInv says nothing.
LEMMA BreaksLast ==
  ASSUME breaks \in Nat, Breaks
  PROVE  breaks' # 0
  BY DEF Breaks

\* Where no operation ever failed the backup is whole.
LEMMA BackupWhole ==
  ASSUME BackupInv, HubInv, breaks = 0, original # Absent
  PROVE  /\ flagsBackup \in {Absent, original}
         /\ flagsBackup = Absent => flags = original
         /\ pc \in FlagsPoints => flagsBackup = original
         /\ ~ToYurtHub(original)
<1>1. ~torn
  BY DEF HubInv
<1> QED
  BY <1>1, OriginalDirect DEF BackupInv, BackupIsOriginal

LEMMA HubStep ==
  ASSUME BackupInv, HubInv, [Next]_vars
  PROVE  HubInv'
<1>0. original' = original /\ breaks \in Nat /\ (breaks' = breaks \/ Breaks)
  BY DEF BackupInv, Next, Begin, Convert, Revert, Both, HubSame, HubSave, HubWrite, HubCheck, HubRemove,
         HubRestore, FlagsSave, FlagsWrite, KubeletUndo, RevertSave, FlagsRestore, RevertUndo, HubDelete,
         Restart, KubeletCheck, UndoRestart, End, Dies, Over, KubeletRestarts, TimesOut,
         boundVars, historyVars, vars
<1>1. SUFFICES ASSUME breaks' = 0, original' # Absent PROVE HubInv'
  BY DEF HubInv
<1>2. breaks = 0 /\ original # Absent /\ ~Breaks
  BY <1>0, <1>1, BreaksLast
<1>3. /\ flagsBackup \in {Absent, original}
      /\ flagsBackup = Absent => flags = original
      /\ pc \in FlagsPoints => flagsBackup = original
      /\ ~ToYurtHub(original)
  BY <1>2, BackupWhole
<1> USE <1>0, <1>1, <1>2, <1>3 DEF HubInv
<1>4. CASE UNCHANGED vars
  BY <1>4 DEF vars, files, boundVars, historyVars, ToYurtHub
<1>5. ASSUME NEW o \in Ops, Begin(o) PROVE HubInv'
  BY <1>5 DEF Begin, files, ToYurtHub
<1>6. CASE HubSame
  BY <1>6 DEF HubSame, Goes, files, boundVars, historyVars, Ops, ToYurtHub
<1>7. CASE HubSave
  BY <1>7 DEF HubSave, Goes, historyVars, Ops, ToYurtHub
<1>8. CASE HubWrite
  BY <1>8 DEF HubWrite, Goes, historyVars, Ops, ToYurtHub
<1>9. CASE HubCheck
  BY <1>9 DEF HubCheck, Goes, Fails, files, historyVars, ToYurtHub
<1>10. CASE HubRemove \/ HubRestore
  BY <1>10 DEF HubRemove, HubRestore, Goes, historyVars, ToYurtHub
<1>11. CASE FlagsSave
  BY <1>11 DEF FlagsSave, Goes, ToYurtHub
<1>12. CASE FlagsWrite
  BY <1>12 DEF FlagsWrite, Goes, FlagsPoints
<1>13. CASE KubeletUndo
  BY <1>13 DEF KubeletUndo, Goes, FlagsPoints
<1>14. CASE Restart
  BY <1>14 DEF Restart, Goes, files, historyVars, FlagsPoints
<1>15. CASE KubeletCheck
  BY <1>15 DEF KubeletCheck, Goes, Fails, files, historyVars, FlagsPoints
<1>16. CASE UndoRestart
  BY <1>16 DEF UndoRestart, Goes, files, historyVars, FlagsPoints
<1>17. CASE RevertSave
  BY <1>17 DEF RevertSave, Goes, Fails, files, historyVars, FlagsPoints
<1>18. CASE FlagsRestore
  BY <1>18 DEF FlagsRestore, Goes, FlagsPoints
<1>19. CASE RevertUndo
  BY <1>19 DEF RevertUndo, Goes, FlagsPoints
<1>20. CASE HubDelete
  BY <1>20 DEF HubDelete, Goes, historyVars, ToYurtHub
<1>21. CASE End
  BY <1>21 DEF End, Over, files, boundVars, ToYurtHub
<1>22. CASE Dies
  BY <1>22 DEF Dies
<1>23. CASE KubeletRestarts
  BY <1>23 DEF KubeletRestarts, files, historyVars, boundVars
<1> QED
  BY <1>4, <1>5, <1>6, <1>7, <1>8, <1>9, <1>10, <1>11, <1>12, <1>13, <1>14, <1>15, <1>16, <1>17,
     <1>18, <1>19, <1>20, <1>21, <1>22, <1>23 DEF Next, Convert, Revert, Both

\* Under any number of polls that time out, in any sequence of conversions and reversals, kubelet
\* never runs through a yurt-hub whose manifest is gone (setupYurtHub, setupKubelet, revertKubelet
\* and removeYurtHub with their rollbacks).
THEOREM KubeletKeepsHub == Spec => []KubeletHasHub
<1>1. BackupInv /\ HubInv /\ [Next]_vars => BackupInv' /\ HubInv'
  BY BackupStep, HubStep
<1>2. HubInv => KubeletHasHub
  BY DEF HubInv, KubeletHasHub
<1> QED
  BY InitBackup, InitHub, <1>1, <1>2, PTL DEF Spec

----------------------------------------------------------------------------
(* The address of the API server *)

\* With the flags of kubeadm's unit in front, no line of kubeadm-flags.env, however often it is
\* rewritten, makes edgectl read the server of yurt-hub from the kubeconfig that names yurt-hub
\* itself (parseKubeConfigPath, parseAPIServerAddressFromKubeConfig).
THEOREM UnitDecides ==
  ASSUME NEW args \in Seq(Flags)
  PROVE  APIServerAddress(args) = "apiServer"
<1> DEFINE line == CommandLine(args)
<1>1. /\ 2 \in DOMAIN line /\ line[2] = "kubeconfig"
      /\ DOMAIN line \subseteq Nat
  BY DEF CommandLine, Unit, Flags
<1>2. ASSUME NEW i \in Matches(line) PROVE i = 2
  <2>1. i \in DOMAIN line /\ ~(2 < i) /\ ~(2 > i)
    BY <1>1, <1>2 DEF Matches, NameOf, EndsMatch
  <2> QED
    BY <1>1, <2>1
<1> QED
  BY <1>1, <1>2 DEF KubeconfigPath, DefaultKubeconfig, APIServerAddress, ServerOf

\* The same of every state: a conversion never points yurt-hub at itself.
THEOREM ServerFound == Spec => []HubFindsServer
<1>1. TypeInv => HubFindsServer
  <2>1. ASSUME Bounded(kubelet) PROVE kubelet.args \in Seq(Flags)
    <3>1. CASE kubelet \in {Absent, Empty}
      <4>1. kubelet.args = <<>>
        BY <3>1 DEF Absent, Empty
      <4> QED
        BY <4>1
    <3> QED
      BY <2>1, <3>1 DEF Bounded
  <2> QED
    BY <2>1, UnitDecides DEF HubFindsServer, TypeInv
<1> QED
  BY InitTypes, TypeStep, <1>1, PTL DEF Spec
----------------------------------------------------------------------------
(* The refinement *)

\* The manifest backed up, and not written yet.
HubSaved(h, o) == [h EXCEPT !.hubBackup = HubInstalled(h, o).hubBackup]

\* A manifest that a rollback finds: not written, written or cut off.
HubDamaged(h, o) == {HubSaved(h, o), HubInstalled(h, o), [HubInstalled(h, o) EXCEPT !.hub = "torn"]}

\* The flags that a rollback finds, of a conversion from i and of a reversal from h.
FlagsDamaged(i) == {FlagsBackedUp(i), KubeletConverted(i), [FlagsBackedUp(i) EXCEPT !.flags = "torn"]}

RevertDamaged(h) == {h, KubeletReverted(h), [h EXCEPT !.flags = "torn"]}

PutAside == start.flagsBackup # "none" /\ KindOf(before) = start.flags

\* Where a run is tells what it has made of the host that it began with.
RunInv ==
  LET i == HubInstalled(start, op)
  IN  /\ pc = "hub" => Host = start
      /\ pc = "hubWrite" => start.hub # op /\ Host = HubSaved(start, op)
      /\ pc = "hubCheck" => /\ Host = i
                            /\ undo \in {"none", "hub"} /\ (undo = "none" <=> start.hub = op)
      /\ pc = "hubRemove" => start.hub # op /\ Host \in HubDamaged(start, op)
      /\ pc = "hubRestore" =>
           start.hub # op /\ Host \in HubDamaged(start, op) \cup {[i EXCEPT !.hub = "none"]}
      /\ pc = "kubelet" => Host = i
      /\ pc = "flagsWrite" => Host = FlagsBackedUp(i)
      /\ pc = "kubeletUndo" => Host \in FlagsDamaged(i)
      /\ pc \in {"restart", "kubeletCheck"} =>
           IF op = "NormalNode" THEN undo = "revert" /\ PutAside /\ Host = KubeletReverted(start)
                                ELSE undo = "kubelet" /\ Host = KubeletConverted(i)
      /\ pc = "undoRestart" => Host \in Interrupted(start, op)
      /\ pc = "revert" => Host = start
      /\ pc = "flagsRestore" => PutAside /\ Host = start
      /\ pc = "revertUndo" => PutAside /\ Host \in RevertDamaged(start)
      /\ pc = "hubDelete" => Host = KubeletReverted(start)
      /\ pc = "end" => IF failed THEN Host \in Interrupted(start, op) ELSE Host = Done(start, op)
      /\ pc \in {"hubRemove", "hubRestore", "kubeletUndo", "revertUndo", "undoRestart"} => failed
      /\ pc \in {"hub", "hubWrite", "hubCheck", "hubRemove", "hubRestore", "kubelet", "flagsWrite",
                 "kubeletUndo"} => op # "NormalNode"
      /\ pc \in {"revert", "flagsRestore", "revertUndo", "hubDelete"} => op = "NormalNode"

\* A host and what the operations of NodeHost make of it, field by field.
LEMMA Shapes ==
  ASSUME NEW h \in Hosts, NEW o \in HubFiles
  PROVE  /\ h = [hub |-> h.hub, hubBackup |-> h.hubBackup, flags |-> h.flags, flagsBackup |-> h.flagsBackup]
         /\ h.hub \in HubFiles /\ h.hubBackup \in HubFiles /\ h.flags \in FlagFiles /\ h.flagsBackup \in FlagFiles
         /\ HubInstalled(h, o) \in Hosts
         /\ HubInstalled(h, o) =
              [hub |-> o, hubBackup |-> IF h.hub \in {"none", o} THEN h.hubBackup ELSE h.hub,
               flags |-> h.flags, flagsBackup |-> h.flagsBackup]
         /\ HubSaved(h, o) =
              [hub |-> h.hub, hubBackup |-> IF h.hub \in {"none", o} THEN h.hubBackup ELSE h.hub,
               flags |-> h.flags, flagsBackup |-> h.flagsBackup]
         /\ FlagsBackedUp(h) =
              [hub |-> h.hub, hubBackup |-> h.hubBackup, flags |-> h.flags,
               flagsBackup |-> IF h.flagsBackup = "none" THEN h.flags ELSE h.flagsBackup]
         /\ KubeletConverted(h) =
              [hub |-> h.hub, hubBackup |-> h.hubBackup, flags |-> "yurthub",
               flagsBackup |-> IF h.flagsBackup = "none" THEN h.flags ELSE h.flagsBackup]
         /\ KubeletReverted(h) =
              [hub |-> h.hub, hubBackup |-> h.hubBackup,
               flags |-> IF h.flagsBackup = "none" THEN h.flags ELSE h.flagsBackup,
               flagsBackup |-> h.flagsBackup]
         /\ Reverted(h) =
              [hub |-> "none", hubBackup |-> h.hubBackup,
               flags |-> IF h.flagsBackup = "none" THEN h.flags ELSE h.flagsBackup,
               flagsBackup |-> h.flagsBackup]
         /\ h.hub # o => HubRolledBack(h, o) =
              [hub |-> IF h.hub \in {"none", o} THEN h.hubBackup ELSE h.hub,
               hubBackup |-> IF h.hub \in {"none", o} THEN h.hubBackup ELSE h.hub,
               flags |-> h.flags, flagsBackup |-> h.flagsBackup]
<1>1. /\ h = [hub |-> h.hub, hubBackup |-> h.hubBackup, flags |-> h.flags, flagsBackup |-> h.flagsBackup]
      /\ h.hub \in HubFiles /\ h.hubBackup \in HubFiles /\ h.flags \in FlagFiles /\ h.flagsBackup \in FlagFiles
  BY DEF Hosts
<1> DEFINE b == IF h.hub \in {"none", o} THEN h.hubBackup ELSE h.hub
           f == IF h.flagsBackup = "none" THEN h.flags ELSE h.flagsBackup
<1>2. b \in HubFiles
  BY <1>1
<1>3. HubInstalled(h, o) = [hub |-> o, hubBackup |-> b, flags |-> h.flags, flagsBackup |-> h.flagsBackup]
  <2>1. HubInstalled(h, o) = [h EXCEPT !.hub = o, !.hubBackup = b]
    BY <1>1 DEF HubInstalled
  <2> HIDE DEF b
  <2> QED
    BY <1>1, <2>1
<1>4. HubInstalled(h, o) \in Hosts
  BY <1>1, <1>2, <1>3 DEF Hosts
<1>5. HubSaved(h, o) = [hub |-> h.hub, hubBackup |-> b, flags |-> h.flags, flagsBackup |-> h.flagsBackup]
  BY <1>1, <1>3 DEF HubSaved
<1>6. FlagsBackedUp(h) = [hub |-> h.hub, hubBackup |-> h.hubBackup, flags |-> h.flags, flagsBackup |-> f]
  BY <1>1 DEF FlagsBackedUp
<1>7. KubeletConverted(h) = [hub |-> h.hub, hubBackup |-> h.hubBackup, flags |-> "yurthub", flagsBackup |-> f]
  BY <1>6 DEF KubeletConverted
<1>8. KubeletReverted(h) = [hub |-> h.hub, hubBackup |-> h.hubBackup, flags |-> f, flagsBackup |-> h.flagsBackup]
  BY <1>1 DEF KubeletReverted
<1>9. Reverted(h) = [hub |-> "none", hubBackup |-> h.hubBackup, flags |-> f, flagsBackup |-> h.flagsBackup]
  BY <1>8 DEF Reverted
<1>10. h.hub # o => HubRolledBack(h, o) = [hub |-> b, hubBackup |-> b, flags |-> h.flags, flagsBackup |-> h.flagsBackup]
  <2>1. h.hub # o => HubRolledBack(h, o) = [h EXCEPT !.hub = b, !.hubBackup = b]
    BY <1>3 DEF HubRolledBack
  <2> HIDE DEF b
  <2> QED
    BY <1>1, <2>1
<1> QED
  BY <1>1, <1>3, <1>4, <1>5, <1>6, <1>7, <1>8, <1>9, <1>10

\* What NodeHost makes of the host that the run began with, field by field.
LEMMA StartShapes ==
  ASSUME TypeInv
  PROVE  /\ start = [hub |-> start.hub, hubBackup |-> start.hubBackup, flags |-> start.flags,
                     flagsBackup |-> start.flagsBackup]
         /\ KubeletReverted(start) =
              [hub |-> start.hub, hubBackup |-> start.hubBackup,
               flags |-> IF start.flagsBackup = "none" THEN start.flags ELSE start.flagsBackup,
               flagsBackup |-> start.flagsBackup]
         /\ Reverted(start) = [KubeletReverted(start) EXCEPT !.hub = "none"]
<1>1. start \in Hosts /\ "none" \in HubFiles
  BY DEF TypeInv, TypeOK, HubFiles
<1> QED
  BY <1>1, Shapes DEF Reverted

LEMMA InstalledShapes ==
  ASSUME TypeInv, op # "NormalNode",
         NEW i, i = HubInstalled(start, op),
         NEW b, b = IF start.hub \in {"none", op} THEN start.hubBackup ELSE start.hub,
         NEW f, f = IF start.flagsBackup = "none" THEN start.flags ELSE start.flagsBackup
  PROVE  /\ i = [hub |-> op, hubBackup |-> b, flags |-> start.flags, flagsBackup |-> start.flagsBackup]
         /\ HubSaved(start, op) =
              [hub |-> start.hub, hubBackup |-> b, flags |-> start.flags, flagsBackup |-> start.flagsBackup]
         /\ FlagsBackedUp(i) = [hub |-> op, hubBackup |-> b, flags |-> start.flags, flagsBackup |-> f]
         /\ KubeletConverted(i) = [hub |-> op, hubBackup |-> b, flags |-> "yurthub", flagsBackup |-> f]
         /\ KubeletRolledBack(i) = [hub |-> op, hubBackup |-> b, flags |-> f, flagsBackup |-> f]
         /\ start.hub # op => HubRolledBack(start, op) =
              [hub |-> b, hubBackup |-> b, flags |-> start.flags, flagsBackup |-> start.flagsBackup]
<1>1. start \in Hosts /\ op \in HubFiles
  BY DEF TypeInv, TypeOK, HubFiles, Ops
<1>2. /\ i \in Hosts
      /\ i = [hub |-> op, hubBackup |-> b, flags |-> start.flags, flagsBackup |-> start.flagsBackup]
      /\ HubSaved(start, op) =
              [hub |-> start.hub, hubBackup |-> b, flags |-> start.flags, flagsBackup |-> start.flagsBackup]
  BY <1>1, Shapes
<1>3. /\ FlagsBackedUp(i) = [hub |-> i.hub, hubBackup |-> i.hubBackup, flags |-> i.flags,
               flagsBackup |-> IF i.flagsBackup = "none" THEN i.flags ELSE i.flagsBackup]
      /\ KubeletConverted(i) = [hub |-> i.hub, hubBackup |-> i.hubBackup, flags |-> "yurthub",
               flagsBackup |-> IF i.flagsBackup = "none" THEN i.flags ELSE i.flagsBackup]
  BY <1>1, <1>2, Shapes
<1>4. /\ FlagsBackedUp(i) = [hub |-> op, hubBackup |-> b, flags |-> start.flags, flagsBackup |-> f]
      /\ KubeletConverted(i) = [hub |-> op, hubBackup |-> b, flags |-> "yurthub", flagsBackup |-> f]
  BY <1>2, <1>3
<1>5. KubeletRolledBack(i) = [hub |-> op, hubBackup |-> b, flags |-> f, flagsBackup |-> f]
  BY <1>4 DEF KubeletRolledBack
<1>6. start.hub # op => HubRolledBack(start, op) =
              [hub |-> b, hubBackup |-> b, flags |-> start.flags, flagsBackup |-> start.flagsBackup]
  BY <1>1, Shapes
<1> QED
  BY <1>2, <1>4, <1>5, <1>6

LEMMA KindFacts ==
  ASSUME TypeInv
  PROVE  /\ KindOf(Absent) = "none" /\ KindOf(Empty) = "torn" /\ KindOf(Rewritten(flags)) = "yurthub"
         /\ KindOf(flags) = "none" <=> flags = Absent
         /\ KindOf(flagsBackup) = "none" <=> flagsBackup = Absent
<1>1. KindOf(Absent) = "none" /\ KindOf(Empty) = "torn"
  BY DEF KindOf, Absent, Empty
<1>2. /\ KindOf(flags) = "none" <=> flags = Absent
      /\ KindOf(flagsBackup) = "none" <=> flagsBackup = Absent
  BY KindTypes DEF TypeInv
<1>3. KindOf(Rewritten(flags)) = "yurthub"
  <2>1. \A args \in Seq(Flags) : KindOf(Line(Redirected(args))) = "yurthub"
    BY RewrittenLines DEF KindOf, Line
  <2>2. CASE flags \in {Absent, Empty}
    <3>1. Rewritten(flags) = Line(Redirected(<<>>)) /\ <<>> \in Seq(Flags)
      BY <2>2, RedirectedNothing DEF Rewritten, Absent, Empty
    <3> QED
      BY <2>1, <3>1
  <2>3. CASE flags = Line(flags.args) /\ flags.args \in Seq(Flags)
    BY <2>1, <2>3 DEF Rewritten, Line
  <2> QED
    BY <2>2, <2>3 DEF TypeInv, Bounded
<1> QED
  BY <1>1, <1>2, <1>3

LEMMA HubRuns ==
  ASSUME TypeInv, RunInv,
         \/ HubSame \/ HubSave \/ HubWrite \/ HubCheck \/ HubRemove \/ HubRestore
         \/ Dies /\ pc \in {"hub", "hubWrite", "hubCheck", "hubRemove", "hubRestore"}
  PROVE  IF Dies THEN Host' \in Interrupted(start, op) ELSE RunInv'
<1> DEFINE i == HubInstalled(start, op)
           b == IF start.hub \in {"none", op} THEN start.hubBackup ELSE start.hub
           f == IF start.flagsBackup = "none" THEN start.flags ELSE start.flagsBackup
           New(x, y) == [hub |-> x, hubBackup |-> y, flags |-> start.flags, flagsBackup |-> start.flagsBackup]
<1>1. op # "NormalNode" /\ op' = op /\ start' = start /\ flags' = flags /\ flagsBackup' = flagsBackup
  BY DEF RunInv, HubSame, HubSave, HubWrite, HubCheck, HubRemove, HubRestore, Dies, Over, Goes, Fails,
         files, historyVars
<1>2. /\ i = New(op, b) /\ HubSaved(start, op) = New(start.hub, b)
      /\ start.hub # op => HubRolledBack(start, op) = New(b, b)
  BY <1>1, InstalledShapes
<1>3. start = New(start.hub, start.hubBackup)
  BY StartShapes
<1>4. Host' = [hub |-> hub', hubBackup |-> hubBackup', flags |-> KindOf(flags), flagsBackup |-> KindOf(flagsBackup)]
  BY <1>1 DEF Host
<1>5. \A x, y : /\ [New(x, y) EXCEPT !.hub = "torn"] = New("torn", y)
                /\ [New(x, y) EXCEPT !.hub = "none"] = New("none", y)
                /\ [New(x, y) EXCEPT !.hubBackup = "torn"] = New(x, "torn")
  OBVIOUS
<1>6. start.hub # op =>
        Interrupted(start, op) =
          {start, New(start.hub, b), New(b, b), New("torn", b), New("none", b), i}
            \cup (IF start.hub = "none" THEN {} ELSE {New(start.hub, "torn")}) \cup KubeletCuts(i)
  BY <1>1, <1>2, <1>3, <1>5 DEF Interrupted, HubCuts
<1>7. start.hub = op => start \in Interrupted(start, op)
  BY <1>1 DEF Interrupted, HubCuts
<1>8. HubDamaged(start, op) = {New(start.hub, b), New(op, b), New("torn", b)}
  BY <1>2, <1>5 DEF HubDamaged
<1>9. /\ KindOf(flags) = start.flags /\ KindOf(flagsBackup) = start.flagsBackup
      /\ Host = New(hub, hubBackup) /\ Host' = New(hub', hubBackup')
  <2>1. pc \in {"hub", "hubWrite", "hubCheck", "hubRemove", "hubRestore"}
    BY DEF HubSame, HubSave, HubWrite, HubCheck, HubRemove, HubRestore
  <2>2. \E x, y : Host = New(x, y)
    <3>1. pc = "hub" => Host = New(start.hub, start.hubBackup)
      BY <1>3 DEF RunInv
    <3>2. pc = "hubWrite" => Host = New(start.hub, b)
      BY <1>2 DEF RunInv
    <3>3. pc = "hubCheck" => Host = New(op, b)
      BY <1>2 DEF RunInv
    <3>4. pc \in {"hubRemove", "hubRestore"} => Host \in {New(start.hub, b), New(op, b), New("torn", b), New("none", b)}
      BY <1>2, <1>5, <1>8 DEF RunInv
    <3> QED
      BY <2>1, <3>1, <3>2, <3>3, <3>4
  <2>3. Host = [hub |-> hub, hubBackup |-> hubBackup, flags |-> KindOf(flags), flagsBackup |-> KindOf(flagsBackup)]
    BY DEF Host
  <2>4. KindOf(flags) = start.flags /\ KindOf(flagsBackup) = start.flagsBackup
    BY <2>2, <2>3
  <2> QED
    BY <1>4, <2>3, <2>4
<1>10. \A x, y, u, v : New(x, y) = New(u, v) <=> x = u /\ y = v
  OBVIOUS
<1> HIDE DEF New, i, b, f
<1>11. ASSUME HubSame PROVE RunInv'
  <2>1. Host' = Host /\ pc' = "hubCheck" /\ undo' = "none" /\ start.hub = op
    BY <1>3, <1>9, <1>10, <1>11 DEF HubSame, Goes, files, RunInv
  <2>2. Host' = i
    BY <1>2, <1>3, <1>9, <1>10, <1>11, <2>1 DEF HubSame, RunInv, b
  <2> QED
    BY <1>1, <2>1, <2>2 DEF RunInv, i
<1>12. ASSUME HubSave PROVE RunInv'
  <2>1. Host = start /\ hub = start.hub /\ hubBackup = start.hubBackup /\ hub # op /\ hub' = hub
    <3>1. op # "none"
      BY DEF TypeInv, TypeOK, Ops
    <3>2. Host = start
      BY <1>12 DEF HubSave, RunInv
    <3>3. hub = start.hub /\ hubBackup = start.hubBackup
      <4>1. New(hub, hubBackup) = New(start.hub, start.hubBackup)
        BY <1>3, <1>9, <3>2
      <4> QED
        BY <1>10, <4>1
    <3> QED
      BY <1>12, <3>1, <3>2, <3>3 DEF HubSave
  <2>2. CASE pc' = "hubWrite"
    <3>1. hubBackup' = b
      BY <1>12, <2>1, <2>2 DEF HubSave, Goes, Fails, b
    <3> QED
      BY <1>1, <1>2, <1>9, <2>1, <2>2, <3>1 DEF RunInv
  <2>3. CASE pc' = "end"
    <3>1. failed' /\ hubBackup' \in {hubBackup, "torn"} /\ start.hub # "none"
      BY <1>12, <2>1, <2>3 DEF HubSave, Goes, Fails
    <3>2. Host' \in Interrupted(start, op)
      BY <1>3, <1>6, <1>9, <2>1, <3>1
    <3> QED
      BY <1>1, <2>3, <3>1, <3>2 DEF RunInv
  <2> QED
    BY <1>12, <2>2, <2>3 DEF HubSave, Goes, Fails
<1>13. ASSUME HubWrite PROVE RunInv'
  <2>1. start.hub # op /\ hub = start.hub /\ hubBackup = b /\ hubBackup' = b
    BY <1>2, <1>9, <1>10, <1>13 DEF HubWrite, RunInv
  <2>2. CASE pc' = "hubCheck"
    <3>1. hub' = op /\ undo' = "hub"
      BY <1>13, <2>2 DEF HubWrite, Goes, Fails
    <3> QED
      BY <1>1, <1>2, <1>9, <2>1, <2>2, <3>1 DEF RunInv, i
  <2>3. CASE pc' = "hubRemove"
    <3>1. hub' \in {hub, "torn"} /\ failed'
      BY <1>13, <2>3 DEF HubWrite, Goes, Fails
    <3>2. Host' \in HubDamaged(start, op)
      BY <1>8, <1>9, <2>1, <3>1
    <3> QED
      BY <1>1, <2>1, <2>3, <3>1, <3>2 DEF RunInv
  <2> QED
    BY <1>13, <2>2, <2>3 DEF HubWrite, Goes, Fails
<1>14. ASSUME HubCheck PROVE RunInv'
  <2>1. Host' = i /\ undo \in {"none", "hub"} /\ (undo = "none" <=> start.hub = op)
    BY <1>9, <1>14 DEF HubCheck, files, RunInv, i
  <2>2. CASE pc' = "kubelet"
    BY <1>1, <2>1, <2>2 DEF RunInv, i
  <2>3. CASE pc' = "end"
    <3>1. failed' /\ start.hub = op
      BY <1>14, <2>1, <2>3 DEF HubCheck, Goes, Fails
    <3>2. i = start
      BY <1>2, <1>3, <3>1 DEF b
    <3> QED
      BY <1>1, <1>7, <2>1, <2>3, <3>1, <3>2 DEF RunInv
  <2>4. CASE pc' = "hubRemove"
    <3>1. failed' /\ start.hub # op
      BY <1>14, <2>1, <2>4 DEF HubCheck, Goes, Fails
    <3>2. Host' \in HubDamaged(start, op)
      BY <1>2, <1>8, <2>1
    <3> QED
      BY <1>1, <2>4, <3>1, <3>2 DEF RunInv
  <2> QED
    BY <1>14, <2>1, <2>2, <2>3, <2>4 DEF HubCheck, Goes, Fails
<1>15. ASSUME HubRemove PROVE RunInv'
  <2>1. /\ pc' = "hubRestore" /\ start.hub # op /\ failed /\ failed' = failed
        /\ hub' \in {hub, "none"} /\ hubBackup' = hubBackup
        /\ Host \in HubDamaged(start, op)
    BY <1>15 DEF HubRemove, Goes, RunInv
  <2>2. [i EXCEPT !.hub = "none"] = New("none", b)
    BY <1>2, <1>5
  <2>3. hubBackup = b
    BY <1>8, <1>9, <1>10, <2>1
  <2>4. Host' \in HubDamaged(start, op) \cup {[i EXCEPT !.hub = "none"]}
    BY <1>9, <2>1, <2>2, <2>3
  <2> QED
    BY <1>1, <2>1, <2>4 DEF RunInv, i
<1>16. ASSUME HubRestore PROVE RunInv'
  <2>1. /\ pc' = "end" /\ start.hub # op /\ failed /\ failed' = failed
        /\ hub' \in {hub, hubBackup, "torn"} /\ hubBackup' = hubBackup
        /\ Host \in HubDamaged(start, op) \cup {[i EXCEPT !.hub = "none"]}
    BY <1>16 DEF HubRestore, Goes, RunInv, i
  <2>2. [i EXCEPT !.hub = "none"] = New("none", b)
    BY <1>2, <1>5
  <2>3. hubBackup = b /\ hub \in {start.hub, op, "torn", "none"}
    BY <1>8, <1>9, <1>10, <2>1, <2>2
  <2>4. Host' \in Interrupted(start, op)
    BY <1>2, <1>6, <1>9, <2>1, <2>3
  <2> QED
    BY <1>1, <2>1, <2>4 DEF RunInv
<1>17. ASSUME Dies /\ pc \in {"hub", "hubWrite", "hubCheck", "hubRemove", "hubRestore"}
       PROVE  Host' \in Interrupted(start, op)
  <2>1. Host' = New(hub', hubBackup') /\ Host = New(hub, hubBackup)
    BY <1>9
  <2>2. CASE pc = "hub"
    <3>1. hub = start.hub /\ hubBackup = start.hubBackup
      <4>1. New(hub, hubBackup) = New(start.hub, start.hubBackup)
        BY <1>3, <1>9, <2>2 DEF RunInv
      <4> QED
        BY <1>10, <4>1
    <3>2. /\ hub' = hub
          /\ hubBackup' = hubBackup \/ (hubBackup' = "torn" /\ hub \notin {op, "none"})
      BY <1>17, <2>2 DEF Dies, files
    <3>3. Host' = start \/ (Host' = New(start.hub, "torn") /\ start.hub \notin {op, "none"})
      BY <1>3, <2>1, <3>1, <3>2
    <3> QED
      BY <1>6, <1>7, <3>3
  <2>3. CASE pc = "hubWrite"
    <3>1. hub = start.hub /\ hubBackup = b /\ start.hub # op
      <4>1. New(hub, hubBackup) = New(start.hub, b) /\ start.hub # op
        BY <1>2, <1>9, <2>3 DEF RunInv
      <4> QED
        BY <1>10, <4>1
    <3>2. hubBackup' = hubBackup /\ hub' \in {hub, "torn"}
      BY <1>17, <2>3 DEF Dies, files
    <3>3. Host' \in {New(start.hub, b), New("torn", b)}
      BY <2>1, <3>1, <3>2
    <3> QED
      BY <1>6, <3>1, <3>3
  <2>4. CASE pc = "hubCheck"
    <3>1. Host' = Host /\ Host = i
      BY <1>9, <1>17, <2>4 DEF Dies, files, RunInv, i
    <3>2. start.hub = op => i = start
      BY <1>2, <1>3 DEF b
    <3> QED
      BY <1>6, <1>7, <3>1, <3>2
  <2>5. CASE pc \in {"hubRemove", "hubRestore"}
    <3>1. start.hub # op /\ Host \in HubDamaged(start, op) \cup {New("none", b)}
      <4>1. [i EXCEPT !.hub = "none"] = New("none", b)
        BY <1>2, <1>5
      <4> QED
        BY <2>5, <4>1 DEF RunInv, i
    <3>2. hubBackup = b /\ hub \in {start.hub, op, "torn", "none"}
      <4>1. New(hub, hubBackup) \in {New(start.hub, b), New(op, b), New("torn", b), New("none", b)}
        BY <1>8, <1>9, <3>1
      <4> QED
        BY <1>10, <4>1
    <3>3. hubBackup' = hubBackup /\ hub' \in {hub, "torn"}
      BY <1>17, <2>5 DEF Dies, files
    <3>4. Host' \in {New(start.hub, b), New(op, b), New("torn", b), New("none", b)}
      BY <2>1, <3>2, <3>3
    <3> QED
      BY <1>2, <1>6, <3>1, <3>4
  <2> QED
    BY <1>17, <2>2, <2>3, <2>4, <2>5
<1>18. HubSame \/ HubSave \/ HubWrite \/ HubCheck \/ HubRemove \/ HubRestore => ~Dies
  BY DEF HubSame, HubSave, HubWrite, HubCheck, HubRemove, HubRestore, Dies, Over, Goes, Fails
<1> QED
  BY <1>11, <1>12, <1>13, <1>14, <1>15, <1>16, <1>17, <1>18

LEMMA KubeletRuns ==
  ASSUME TypeInv, RunInv,
         \/ FlagsSave \/ FlagsWrite \/ KubeletUndo
         \/ Dies /\ pc \in {"kubelet", "flagsWrite", "kubeletUndo"}
  PROVE  IF Dies THEN Host' \in Interrupted(start, op) ELSE RunInv'
<1> DEFINE i == HubInstalled(start, op)
           b == IF start.hub \in {"none", op} THEN start.hubBackup ELSE start.hub
           f == IF start.flagsBackup = "none" THEN start.flags ELSE start.flagsBackup
           New(x, y) == [hub |-> op, hubBackup |-> b, flags |-> x, flagsBackup |-> y]
<1>1. op # "NormalNode" /\ op' = op /\ start' = start /\ hub' = hub /\ hubBackup' = hubBackup
  BY DEF RunInv, FlagsSave, FlagsWrite, KubeletUndo, Dies, Over, Goes, Fails, files
<1>2. /\ i = New(start.flags, start.flagsBackup) /\ FlagsBackedUp(i) = New(start.flags, f)
      /\ KubeletConverted(i) = New("yurthub", f) /\ KubeletRolledBack(i) = New(f, f)
  BY <1>1, InstalledShapes
<1>3. \A x, y : /\ [New(x, y) EXCEPT !.flags = "torn"] = New("torn", y)
                /\ [New(x, y) EXCEPT !.flagsBackup = "torn"] = New(x, "torn")
  OBVIOUS
<1>4. \A x, y, u, v : New(x, y) = New(u, v) <=> x = u /\ y = v
  OBVIOUS
<1>5. FlagsDamaged(i) = {New(start.flags, f), New("yurthub", f), New("torn", f)}
  BY <1>2, <1>3 DEF FlagsDamaged
<1>6. KubeletCuts(i) =
        {i, New(start.flags, f), New("yurthub", f), New(f, f), New("torn", f)}
          \cup (IF start.flagsBackup = "none" /\ start.flags # "none" THEN {New(start.flags, "torn")} ELSE {})
  BY <1>2, <1>3 DEF KubeletCuts
<1>7. KubeletCuts(i) \subseteq Interrupted(start, op)
  BY <1>1 DEF Interrupted
<1>8. pc \in {"kubelet", "flagsWrite", "kubeletUndo"} /\ \E x, y : Host = New(x, y)
  <2>1. pc = "kubelet" => Host = New(start.flags, start.flagsBackup)
    BY <1>2 DEF RunInv
  <2>2. pc = "flagsWrite" => Host = New(start.flags, f)
    BY <1>2 DEF RunInv
  <2>3. pc = "kubeletUndo" => Host \in {New(start.flags, f), New("yurthub", f), New("torn", f)}
    BY <1>5 DEF RunInv
  <2> QED
    BY <2>1, <2>2, <2>3 DEF FlagsSave, FlagsWrite, KubeletUndo
<1>9. /\ Host = New(KindOf(flags), KindOf(flagsBackup)) /\ Host' = New(KindOf(flags'), KindOf(flagsBackup'))
  <2>1. Host = [hub |-> hub, hubBackup |-> hubBackup, flags |-> KindOf(flags), flagsBackup |-> KindOf(flagsBackup)]
        /\ Host' = [hub |-> hub', hubBackup |-> hubBackup', flags |-> KindOf(flags'), flagsBackup |-> KindOf(flagsBackup')]
    BY DEF Host
  <2>2. hub = op /\ hubBackup = b
    BY <1>8, <2>1
  <2> QED
    BY <1>1, <2>1, <2>2
<1> DEFINE k == KindOf(flags)
           kb == KindOf(flagsBackup)
<1>10. /\ KindOf(Absent) = "none" /\ KindOf(Empty) = "torn" /\ KindOf(Rewritten(flags)) = "yurthub"
       /\ k = "none" <=> flags = Absent
       /\ kb = "none" <=> flagsBackup = Absent
  BY KindFacts
<1> HIDE DEF New, i, b, f, k, kb
<1>11. ASSUME FlagsSave PROVE RunInv'
  <2>1. k = start.flags /\ kb = start.flagsBackup /\ flags' = flags /\ Host' = New(k, KindOf(flagsBackup'))
    BY <1>2, <1>4, <1>9, <1>11 DEF FlagsSave, RunInv, i, k, kb
  <2>2. CASE pc' = "flagsWrite"
    <3>1. KindOf(flagsBackup') = f
      BY <1>10, <1>11, <2>1, <2>2 DEF FlagsSave, Goes, Fails, BackupMissing, f, k, kb
    <3> QED
      BY <1>1, <1>2, <2>1, <2>2, <3>1 DEF RunInv, i
  <2>3. CASE pc' = "end"
    <3>1. /\ failed'
          /\ \/ flagsBackup' = flagsBackup
             \/ KindOf(flagsBackup') = "torn" /\ k # "none" /\ kb = "none"
      BY <1>10, <1>11, <2>1, <2>3 DEF FlagsSave, Goes, Fails, BackupMissing
    <3>2. Host' \in KubeletCuts(i)
      BY <1>2, <1>6, <2>1, <3>1 DEF kb
    <3> QED
      BY <1>1, <1>7, <2>3, <3>1, <3>2 DEF RunInv
  <2> QED
    BY <1>11, <2>2, <2>3 DEF FlagsSave, Goes, Fails
<1>12. ASSUME FlagsWrite PROVE RunInv'
  <2>1. k = start.flags /\ kb = f /\ Host' = New(KindOf(flags'), f)
    BY <1>2, <1>4, <1>9, <1>12 DEF FlagsWrite, RunInv, i, k, kb
  <2>2. CASE pc' \in {"restart", "kubeletCheck"}
    <3>1. KindOf(flags') = "yurthub" /\ undo' = "kubelet"
      BY <1>10, <1>12, <2>2 DEF FlagsWrite, Goes, Fails
    <3> QED
      BY <1>1, <1>2, <2>1, <2>2, <3>1 DEF RunInv, i
  <2>3. CASE pc' = "kubeletUndo"
    <3>1. failed' /\ KindOf(flags') \in {k, "torn"}
      BY <1>10, <1>12, <2>3 DEF FlagsWrite, Goes, Fails, k
    <3>2. Host' \in FlagsDamaged(i)
      BY <1>5, <2>1, <3>1
    <3> QED
      BY <1>1, <2>3, <3>1, <3>2 DEF RunInv, i
  <2> QED
    BY <1>12, <2>2, <2>3 DEF FlagsWrite, Goes, Fails
<1>13. ASSUME KubeletUndo PROVE RunInv'
  <2>1. /\ pc' \in {"undoRestart", "end"} /\ failed /\ failed' = failed /\ flagsBackup' = flagsBackup
        /\ flags' \in {flags, flagsBackup, Empty}
        /\ Host \in FlagsDamaged(i)
    BY <1>13 DEF KubeletUndo, Goes, RunInv, i
  <2>2. kb = f /\ k \in {start.flags, "yurthub", "torn"}
    BY <1>4, <1>5, <1>9, <2>1 DEF k, kb
  <2>3. Host' \in KubeletCuts(i)
    BY <1>6, <1>9, <1>10, <2>1, <2>2 DEF k, kb
  <2>4. Host' \in Interrupted(start, op)
    BY <1>7, <2>3
  <2> QED
    BY <1>1, <2>1, <2>4 DEF RunInv
<1>14. ASSUME Dies /\ pc \in {"kubelet", "flagsWrite", "kubeletUndo"}
       PROVE  Host' \in Interrupted(start, op)
  <2>1. Host' = New(KindOf(flags'), KindOf(flagsBackup')) /\ Host = New(k, kb)
    BY <1>9 DEF k, kb
  <2>2. CASE pc = "kubelet"
    <3>1. k = start.flags /\ kb = start.flagsBackup
      <4>1. New(k, kb) = New(start.flags, start.flagsBackup)
        BY <1>2, <2>1, <2>2 DEF RunInv, i
      <4> QED
        BY <1>4, <4>1
    <3>2. /\ flags' = flags
          /\ flagsBackup' = flagsBackup \/ (flagsBackup' = Empty /\ k # "none" /\ kb = "none")
      BY <1>10, <1>14, <2>2 DEF Dies, BackupMissing, files
    <3>3. \/ Host' = New(start.flags, start.flagsBackup)
          \/ Host' = New(start.flags, "torn") /\ start.flags # "none" /\ start.flagsBackup = "none"
      BY <1>10, <2>1, <3>1, <3>2 DEF k, kb
    <3> QED
      BY <1>2, <1>6, <1>7, <3>3
  <2>3. CASE pc \in {"flagsWrite", "kubeletUndo"}
    <3>1. kb = f /\ k \in {start.flags, "yurthub", "torn"}
      <4>1. New(k, kb) \in {New(start.flags, f), New("yurthub", f), New("torn", f)}
        BY <1>2, <1>5, <2>1, <2>3 DEF RunInv, i
      <4> QED
        BY <1>4, <4>1
    <3>2. flagsBackup' = flagsBackup /\ flags' \in {flags, Empty}
      BY <1>14, <2>3 DEF Dies, files
    <3>3. Host' \in {New(start.flags, f), New("yurthub", f), New("torn", f)}
      BY <1>10, <2>1, <3>1, <3>2 DEF k, kb
    <3> QED
      BY <1>6, <1>7, <3>3
  <2> QED
    BY <1>14, <2>2, <2>3
<1>15. FlagsSave \/ FlagsWrite \/ KubeletUndo => ~Dies
  BY DEF FlagsSave, FlagsWrite, KubeletUndo, Dies, Over, Goes, Fails
<1> QED
  BY <1>11, <1>12, <1>13, <1>14, <1>15

LEMMA RevertRuns ==
  ASSUME TypeInv, RunInv,
         \/ RevertSave \/ FlagsRestore \/ RevertUndo \/ HubDelete
         \/ Dies /\ pc \in {"revert", "flagsRestore", "revertUndo", "hubDelete"}
  PROVE  IF Dies THEN Host' \in Interrupted(start, op) ELSE RunInv'
<1> DEFINE f == IF start.flagsBackup = "none" THEN start.flags ELSE start.flagsBackup
           New(x, y) == [hub |-> x, hubBackup |-> start.hubBackup, flags |-> y, flagsBackup |-> start.flagsBackup]
<1>1. op = "NormalNode" /\ op' = op /\ start' = start /\ hubBackup' = hubBackup /\ flagsBackup' = flagsBackup
  BY DEF RunInv, RevertSave, FlagsRestore, RevertUndo, HubDelete, Dies, Over, Goes, Fails, files, historyVars
<1>2. start = New(start.hub, start.flags) /\ KubeletReverted(start) = New(start.hub, f)
  BY StartShapes
<1>3. \A x, y : /\ [New(x, y) EXCEPT !.flags = "torn"] = New(x, "torn")
                /\ [New(x, y) EXCEPT !.hub = "none"] = New("none", y)
  OBVIOUS
<1>4. \A x, y, u, v : New(x, y) = New(u, v) <=> x = u /\ y = v
  OBVIOUS
<1>5. Reverted(start) = New("none", f)
  BY <1>2, <1>3 DEF Reverted
<1>6. RevertDamaged(start) = {start, New(start.hub, f), New(start.hub, "torn")}
  <2>1. [start EXCEPT !.flags = "torn"] = New(start.hub, "torn")
    BY <1>2, <1>3
  <2> QED
    BY <1>2, <2>1 DEF RevertDamaged
<1>7. Interrupted(start, op) =
        {start, New(start.hub, f), New("none", f)}
          \cup (IF start.flagsBackup = "none" THEN {} ELSE {New(start.hub, "torn")})
  <2>1. [start EXCEPT !.flags = "torn"] = New(start.hub, "torn")
    BY <1>2, <1>3
  <2> QED
    BY <1>1, <1>2, <1>5, <2>1 DEF Interrupted, RevertCuts
<1>8. Done(start, op) = New("none", f)
  BY <1>1, <1>5 DEF Done
<1>9. pc \in {"revert", "flagsRestore", "revertUndo", "hubDelete"} /\ \E x, y : Host = New(x, y)
  <2>1. pc \in {"revert", "flagsRestore"} => Host = New(start.hub, start.flags)
    BY <1>2 DEF RunInv
  <2>2. pc = "hubDelete" => Host = New(start.hub, f)
    BY <1>2 DEF RunInv
  <2>3. pc = "revertUndo" => Host \in {New(start.hub, start.flags), New(start.hub, f), New(start.hub, "torn")}
    BY <1>2, <1>6 DEF RunInv
  <2> QED
    BY <2>1, <2>2, <2>3 DEF RevertSave, FlagsRestore, RevertUndo, HubDelete
<1>10. /\ Host = New(hub, KindOf(flags)) /\ Host' = New(hub', KindOf(flags'))
       /\ KindOf(flagsBackup) = start.flagsBackup
  <2>1. Host = [hub |-> hub, hubBackup |-> hubBackup, flags |-> KindOf(flags), flagsBackup |-> KindOf(flagsBackup)]
        /\ Host' = [hub |-> hub', hubBackup |-> hubBackup', flags |-> KindOf(flags'), flagsBackup |-> KindOf(flagsBackup')]
    BY DEF Host
  <2>2. hubBackup = start.hubBackup /\ KindOf(flagsBackup) = start.flagsBackup
    BY <1>9, <2>1
  <2> QED
    BY <1>1, <2>1, <2>2
<1> DEFINE k == KindOf(flags)
           kb == KindOf(flagsBackup)
<1>11. /\ KindOf(Empty) = "torn"
       /\ kb = "none" <=> flagsBackup = Absent
  BY KindFacts
<1> HIDE DEF New, f, k, kb
<1>12. ASSUME RevertSave PROVE RunInv'
  <2>1. Host' = Host /\ Host = start /\ hub = start.hub /\ k = start.flags /\ kb = start.flagsBackup
    <3>1. Host = start /\ flags' = flags /\ hub' = hub
      BY <1>12 DEF RevertSave, RunInv, files
    <3>2. New(hub, k) = New(start.hub, start.flags) /\ Host' = Host
      BY <1>2, <1>10, <3>1 DEF k
    <3> QED
      BY <1>4, <1>10, <3>1, <3>2 DEF kb
  <2>2. CASE pc' = "hubDelete"
    <3>1. start.flagsBackup = "none" /\ KubeletReverted(start) = start
      <4>1. start.flagsBackup = "none"
        BY <1>11, <1>12, <2>1, <2>2 DEF RevertSave, Goes, Fails
      <4> QED
        BY <1>2, <4>1 DEF f
    <3> QED
      BY <1>1, <2>1, <2>2, <3>1 DEF RunInv
  <2>3. CASE pc' = "flagsRestore"
    <3>1. start.flagsBackup # "none" /\ before' = flags
      BY <1>11, <1>12, <2>1, <2>3 DEF RevertSave, Goes, Fails
    <3> QED
      BY <1>1, <2>1, <2>3, <3>1 DEF RunInv, PutAside, k
  <2>4. CASE pc' = "end"
    <3>1. failed'
      BY <1>12, <2>4 DEF RevertSave, Goes, Fails
    <3>2. Host' \in Interrupted(start, op)
      BY <1>7, <2>1
    <3> QED
      BY <1>1, <2>4, <3>1, <3>2 DEF RunInv
  <2> QED
    BY <1>12, <2>2, <2>3, <2>4 DEF RevertSave, Goes, Fails
<1>13. ASSUME FlagsRestore PROVE RunInv'
  <2>1. PutAside /\ before' = before /\ Host = start /\ hub' = hub /\ kb = start.flagsBackup
    BY <1>10, <1>13 DEF FlagsRestore, Goes, Fails, RunInv, kb
  <2>2. hub = start.hub /\ k = start.flags /\ Host' = New(start.hub, KindOf(flags'))
    <3>1. New(hub, k) = New(start.hub, start.flags)
      BY <1>2, <1>10, <2>1 DEF k
    <3> QED
      BY <1>4, <1>10, <2>1, <3>1
  <2>3. f = kb /\ PutAside'
    BY <1>1, <2>1 DEF f, PutAside
  <2>4. CASE pc' \in {"restart", "hubDelete"}
    <3>1. KindOf(flags') = f /\ (pc' = "restart" => undo' = "revert")
      BY <1>13, <2>3, <2>4 DEF FlagsRestore, Goes, Fails, kb
    <3> QED
      BY <1>1, <1>2, <2>2, <2>3, <2>4, <3>1 DEF RunInv
  <2>5. CASE pc' = "revertUndo"
    <3>1. failed' /\ KindOf(flags') \in {k, "torn"}
      BY <1>11, <1>13, <2>5 DEF FlagsRestore, Goes, Fails, k
    <3>2. Host' \in RevertDamaged(start)
      BY <1>2, <1>6, <2>2, <3>1
    <3> QED
      BY <1>1, <2>3, <2>5, <3>1, <3>2 DEF RunInv
  <2> QED
    BY <1>13, <2>4, <2>5 DEF FlagsRestore, Goes, Fails
<1>14. ASSUME RevertUndo PROVE RunInv'
  <2>1. /\ PutAside /\ Host \in RevertDamaged(start) /\ failed /\ failed' = failed /\ hub' = hub
        /\ flags' \in {flags, before, Empty} /\ pc' \in {"undoRestart", "end"}
    BY <1>14 DEF RevertUndo, Goes, RunInv
  <2>2. hub = start.hub /\ k \in {start.flags, f, "torn"}
    <3>1. New(hub, k) \in {New(start.hub, start.flags), New(start.hub, f), New(start.hub, "torn")}
      BY <1>2, <1>6, <1>10, <2>1 DEF k
    <3> QED
      BY <1>4, <3>1
  <2>3. KindOf(flags') \in {start.flags, f, "torn"} /\ start.flagsBackup # "none"
    BY <1>11, <2>1, <2>2 DEF PutAside, k
  <2>4. Host' \in Interrupted(start, op)
    BY <1>2, <1>7, <1>10, <2>1, <2>2, <2>3
  <2> QED
    BY <1>1, <2>1, <2>4 DEF RunInv
<1>15. ASSUME HubDelete PROVE RunInv'
  <2>1. pc' = "end" /\ flags' = flags /\ Host = KubeletReverted(start)
    BY <1>15 DEF HubDelete, Goes, Fails, RunInv
  <2>2. hub = start.hub /\ k = f
    <3>1. New(hub, k) = New(start.hub, f)
      BY <1>2, <1>10, <2>1 DEF k
    <3> QED
      BY <1>4, <3>1
  <2>3. CASE hub' = "none"
    BY <1>1, <1>7, <1>8, <1>10, <2>1, <2>2, <2>3 DEF RunInv, k
  <2>4. CASE hub' = hub /\ failed'
    BY <1>1, <1>7, <1>10, <2>1, <2>2, <2>4 DEF RunInv, k
  <2> QED
    BY <1>15, <2>3, <2>4 DEF HubDelete, Fails
<1>16. ASSUME Dies /\ pc \in {"revert", "flagsRestore", "revertUndo", "hubDelete"}
       PROVE  Host' \in Interrupted(start, op)
  <2>1. hub' = hub
    BY <1>16 DEF Dies, files
  <2>2. CASE pc \in {"revert", "hubDelete"}
    <3>1. Host' = Host
      BY <1>16, <2>2 DEF Dies, files, Host
    <3>2. Host \in {start, New(start.hub, f)}
      BY <1>2, <2>2 DEF RunInv
    <3> QED
      BY <1>7, <3>1, <3>2
  <2>3. CASE pc \in {"flagsRestore", "revertUndo"}
    <3>1. hub = start.hub /\ k \in {start.flags, f, "torn"}
      <4>1. New(hub, k) \in {New(start.hub, start.flags), New(start.hub, f), New(start.hub, "torn")}
        BY <1>2, <1>6, <1>10, <2>3 DEF k, RunInv
      <4> QED
        BY <1>4, <4>1
    <3>2. flags' \in {flags, Empty} /\ start.flagsBackup # "none"
      BY <1>16, <2>3 DEF Dies, files, RunInv, PutAside
    <3>3. Host' \in {New(start.hub, start.flags), New(start.hub, f), New(start.hub, "torn")}
      BY <1>10, <1>11, <2>1, <3>1, <3>2 DEF k
    <3> QED
      BY <1>2, <1>7, <3>2, <3>3
  <2> QED
    BY <1>16, <2>2, <2>3
<1>17. RevertSave \/ FlagsRestore \/ RevertUndo \/ HubDelete => ~Dies
  BY DEF RevertSave, FlagsRestore, RevertUndo, HubDelete, Dies, Over, Goes, Fails
<1> QED
  BY <1>12, <1>13, <1>14, <1>15, <1>16, <1>17

LEMMA BothRuns ==
  ASSUME TypeInv, RunInv,
         \/ Restart \/ KubeletCheck \/ UndoRestart
         \/ Dies /\ pc \in {"restart", "kubeletCheck", "undoRestart", "end"}
  PROVE  IF Dies THEN Host' \in Interrupted(start, op) ELSE RunInv'
<1>0. Restart \/ KubeletCheck \/ UndoRestart => op' = op /\ start' = start /\ before' = before /\ ~Dies
  BY DEF Restart, KubeletCheck, UndoRestart, Goes, Fails, Dies, Over, historyVars
<1>1. Host' = Host
  BY DEF Restart, KubeletCheck, UndoRestart, Dies, files, Host
<1>2. PutAside' = PutAside \/ Dies
  BY <1>0 DEF PutAside
<1>3. ASSUME UndoRestart PROVE RunInv'
  BY <1>0, <1>1, <1>3 DEF UndoRestart, Goes, RunInv
<1>4. ASSUME (Restart \/ KubeletCheck) /\ op = "NormalNode" PROVE RunInv'
  <2>1. undo = "revert" /\ PutAside /\ Host = KubeletReverted(start)
    BY <1>4 DEF Restart, KubeletCheck, RunInv
  <2>2. KubeletReverted(start) \in RevertDamaged(start)
    BY DEF RevertDamaged
  <2>3. CASE Restart
    BY <1>0, <1>1, <1>2, <1>4, <2>1, <2>2, <2>3 DEF Restart, Goes, Fails, RunInv
  <2>4. CASE KubeletCheck
    BY <1>0, <1>1, <1>2, <1>4, <2>1, <2>2, <2>4 DEF KubeletCheck, Goes, Fails, RunInv
  <2> QED
    BY <1>4, <2>3, <2>4
<1>5. ASSUME (Restart \/ KubeletCheck) /\ op # "NormalNode" PROVE RunInv'
  <2> DEFINE i == HubInstalled(start, op)
  <2>1. undo = "kubelet" /\ Host = KubeletConverted(i)
    BY <1>5 DEF Restart, KubeletCheck, RunInv
  <2>2. KubeletConverted(i) \in FlagsDamaged(i)
    BY DEF FlagsDamaged
  <2>3. Done(start, op) = KubeletConverted(i) /\ KubeletConverted(i) \in Interrupted(start, op)
    BY <1>5 DEF Done, Converted, Interrupted, KubeletCuts
  <2>4. CASE Restart
    BY <1>0, <1>1, <1>2, <1>5, <2>1, <2>2, <2>4 DEF Restart, Goes, Fails, RunInv
  <2>5. CASE KubeletCheck
    BY <1>0, <1>1, <1>2, <1>5, <2>1, <2>2, <2>3, <2>5 DEF KubeletCheck, Goes, Fails, RunInv
  <2> QED
    BY <1>5, <2>4, <2>5
<1>6. ASSUME Dies /\ pc \in {"restart", "kubeletCheck", "undoRestart", "end"}
       PROVE  Host' \in Interrupted(start, op)
  <2>1. KubeletReverted(start) \in RevertCuts(start) /\ Reverted(start) \in RevertCuts(start)
    BY DEF RevertCuts
  <2>2. KubeletConverted(HubInstalled(start, op)) \in KubeletCuts(HubInstalled(start, op))
    BY DEF KubeletCuts
  <2>3. CASE pc \in {"restart", "kubeletCheck"}
    BY <1>1, <1>6, <2>1, <2>2, <2>3 DEF RunInv, Interrupted
  <2>4. CASE pc = "undoRestart"
    BY <1>1, <1>6, <2>4 DEF RunInv
  <2>5. CASE pc = "end"
    BY <1>1, <1>6, <2>1, <2>2, <2>5 DEF RunInv, Done, Converted, Interrupted
  <2> QED
    BY <1>6, <2>3, <2>4, <2>5
<1> QED
  BY <1>0, <1>3, <1>4, <1>5, <1>6

\* A run that begins, ends or dies leaves nothing for RunInv to say but what it began with.
LEMMA EdgeRuns ==
  ASSUME TypeInv, RunInv, (\E o \in Ops : Begin(o)) \/ End \/ Dies \/ KubeletRestarts \/ UNCHANGED vars
  PROVE  RunInv'
<1>1. CASE End \/ Dies
  BY <1>1 DEF End, Dies, Over, RunInv
<1>2. ASSUME NEW o \in Ops, Begin(o) PROVE RunInv'
  <2>1. Host' = Host /\ start' = Host /\ op' = o /\ pc' = IF o = "NormalNode" THEN "revert" ELSE "hub"
    BY <1>2 DEF Begin, Host, files
  <2> QED
    BY <2>1 DEF RunInv
<1>3. CASE KubeletRestarts \/ UNCHANGED vars
  <2>1. /\ Host' = Host /\ start' = start /\ op' = op /\ pc' = pc /\ undo' = undo /\ failed' = failed
        /\ before' = before
    BY <1>3 DEF KubeletRestarts, vars, files, historyVars, Host
  <2>2. PutAside' = PutAside
    BY <2>1 DEF PutAside
  <2> QED
    BY <2>1, <2>2 DEF RunInv
<1> QED
  BY <1>1, <1>2, <1>3

LEMMA InitRuns == Init => RunInv
  BY DEF Init, RunInv

LEMMA RunStep ==
  ASSUME TypeInv, RunInv, [Next]_vars
  PROVE  RunInv'
<1>1. CASE HubSame \/ HubSave \/ HubWrite \/ HubCheck \/ HubRemove \/ HubRestore
  BY <1>1, HubRuns, EdgeRuns
<1>2. CASE FlagsSave \/ FlagsWrite \/ KubeletUndo
  BY <1>2, KubeletRuns, EdgeRuns
<1>3. CASE RevertSave \/ FlagsRestore \/ RevertUndo \/ HubDelete
  BY <1>3, RevertRuns, EdgeRuns
<1>4. CASE Restart \/ KubeletCheck \/ UndoRestart
  BY <1>4, BothRuns, EdgeRuns
<1>5. CASE (\E o \in Ops : Begin(o)) \/ End \/ Dies \/ KubeletRestarts \/ UNCHANGED vars
  BY <1>5, EdgeRuns
<1> QED
  BY <1>1, <1>2, <1>3, <1>4, <1>5 DEF Next, Convert, Revert, Both

\* Wherever the process dies, the host is one that NodeHost calls interrupted.
LEMMA DeathInterrupts ==
  ASSUME TypeInv, RunInv, Dies
  PROVE  Host' \in Interrupted(start, op)
<1>1. pc \in {"hub", "hubWrite", "hubCheck", "hubRemove", "hubRestore"}
        \cup {"kubelet", "flagsWrite", "kubeletUndo"} \cup {"revert", "flagsRestore", "revertUndo", "hubDelete"}
        \cup {"restart", "kubeletCheck", "undoRestart", "end"}
  BY DEF TypeInv, TypeOK, Dies
<1> QED
  BY <1>1, HubRuns, KubeletRuns, RevertRuns, BothRuns

\* The state that HostRuns sees: the host between runs, and while one lasts as it began.
Seen == IF pc = "idle" THEN Host ELSE start

LEMMA SeenAlike ==
  ASSUME NEW h, NEW o
  PROVE  /\ Runs!CleanHost(h) = CleanHost(h)
         /\ Runs!Done(h, o) = Done(h, o) /\ Runs!Interrupted(h, o) = Interrupted(h, o)
  BY DEF Runs!CleanHost, Runs!Done, Runs!Interrupted, Runs!Reverted, Runs!Converted, Runs!HubCuts,
         Runs!KubeletCuts, Runs!RevertCuts, Runs!HubInstalled, Runs!HubRolledBack, Runs!FlagsBackedUp,
         Runs!KubeletConverted, Runs!KubeletRolledBack, Runs!KubeletReverted,
         CleanHost, Done, Interrupted, Reverted, Converted, HubCuts, KubeletCuts, RevertCuts,
         HubInstalled, HubRolledBack, FlagsBackedUp, KubeletConverted, KubeletRolledBack, KubeletReverted

LEMMA InitSeen ==
  ASSUME Init
  PROVE  Runs!Init
<1>1. original \in Originals /\ flags = original /\ flagsBackup = Absent
  BY DEF Init
<1>2. Bounded(original) /\ ~ToYurtHub(original)
  BY <1>1, OriginalBounded, OriginalDirect
<1>3. original # Empty
  BY <1>1, OriginalsAssumption DEF Absent, Empty, Line
<1>4. KindOf(flags) \in {"none", "original"} /\ KindOf(flagsBackup) = "none"
  BY <1>1, <1>2, <1>3 DEF Bounded, KindOf, Absent, Empty, Line
<1>5. Host = CleanHost(KindOf(flags))
  BY <1>4 DEF Init, Host, CleanHost
<1> QED
  BY <1>4, <1>5, SeenAlike DEF Init, Runs!Init

\* Every step of a run is the whole run or nothing to who looks at the host between runs.
LEMMA SeenStep ==
  ASSUME TypeInv, RunInv, [Next]_vars
  PROVE  [Runs!Next]_<<Seen, outcome>>
<1>1. CASE End
  <2>1. pc = "end" /\ pc' = "idle" /\ Host' = Host /\ outcome' = [op |-> op, ok |-> ~failed]
    BY <1>1 DEF End, Over, files, Host
  <2>2. op \in Ops /\ failed \in BOOLEAN
    BY DEF TypeInv, TypeOK
  <2>3. Seen = start /\ Seen' = Host
    BY <2>1 DEF Seen
  <2>4. IF failed THEN Seen' \in Interrupted(Seen, op) ELSE Seen' = Done(Seen, op)
    BY <2>1, <2>3 DEF RunInv
  <2>5. outcome' = [op |-> op, ok |-> IF failed THEN FALSE ELSE TRUE]
    BY <2>1, <2>2
  <2>6. Runs!Run(op)
    BY <2>4, <2>5, SeenAlike DEF Runs!Run, Seen
  <2> QED
    BY <2>2, <2>6 DEF Runs!Next, Runs!Ops, Ops
<1>2. CASE Dies
  <2>1. pc # "idle" /\ pc' = "idle" /\ outcome' = [op |-> op, ok |-> FALSE] /\ op \in Ops
    BY <1>2 DEF Dies, Over, TypeInv, TypeOK
  <2>2. Seen = start /\ Seen' = Host'
    BY <2>1 DEF Seen
  <2>3. Seen' \in Interrupted(Seen, op)
    BY <1>2, <2>2, DeathInterrupts
  <2>4. Runs!Run(op)
    BY <2>1, <2>3, SeenAlike DEF Runs!Run, Seen
  <2> QED
    BY <2>1, <2>4 DEF Runs!Next, Runs!Ops, Ops
<1>3. ASSUME NEW o \in Ops, Begin(o) PROVE UNCHANGED <<Seen, outcome>>
  BY <1>3 DEF Begin, Seen, Host, files
<1>4. CASE KubeletRestarts \/ UNCHANGED vars
  BY <1>4 DEF KubeletRestarts, vars, files, historyVars, Seen, Host
<1>5. CASE Convert
  <2>1. pc # "idle" /\ pc' # "idle" /\ start' = start /\ outcome' = outcome
    BY <1>5 DEF Convert, HubSame, HubSave, HubWrite, HubCheck, HubRemove, HubRestore, FlagsSave, FlagsWrite,
                KubeletUndo, Goes, Fails, historyVars
  <2> QED
    BY <2>1 DEF Seen
<1>6. CASE Revert
  <2>1. pc # "idle" /\ pc' # "idle" /\ start' = start /\ outcome' = outcome
    BY <1>6 DEF Revert, RevertSave, FlagsRestore, RevertUndo, HubDelete, Goes, Fails, historyVars
  <2> QED
    BY <2>1 DEF Seen
<1>7. CASE Restart \/ KubeletCheck \/ UndoRestart
  <2>1. pc # "idle" /\ pc' # "idle" /\ start' = start /\ outcome' = outcome
    BY <1>7 DEF Restart, KubeletCheck, UndoRestart, Goes, Fails, historyVars
  <2> QED
    BY <2>1 DEF Seen
<1> QED
  BY <1>1, <1>2, <1>3, <1>4, <1>5, <1>6, <1>7 DEF Next, Both

\* edgectl implements HostRuns: whoever looks at a host between two runs finds that the last one
\* did what its command says or left what NodeHost calls interrupted, wherever it failed, rolled
\* back or died and whatever the runs before it left (convert.go, revert.go).
THEOREM RunsImplement == Spec => RunsAsPromised
<1>1. Init => Runs!Init
  BY InitSeen
<1>2. TypeInv /\ RunInv /\ [Next]_vars => [Runs!Next]_<<Seen, outcome>>
  BY SeenStep
<1> QED
  BY InitTypes, InitRuns, TypeStep, RunStep, <1>1, <1>2, PTL DEF Spec, RunsAsPromised, Runs!Spec, Seen
=============================================================================
