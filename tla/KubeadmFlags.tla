---------------------------- MODULE KubeadmFlags ----------------------------
(***************************************************************************)
(* The line KUBELET_KUBEADM_ARGS of kubeadm-flags.env and how setupKubelet *)
(* rewrites it.  The line is the sequence of its flags; a flag is told     *)
(* apart by its name and, where it matters, its value.                     *)
(***************************************************************************)
EXTENDS Naturals, Sequences

Flags == {
  "other",           \* any flag that is not one of the two below
  "bootstrap",       \* --bootstrap-kubeconfig=<path>
  "noBootstrap",     \* --bootstrap-kubeconfig=
  "kubeconfig",      \* --kubeconfig=<path>
  "yurtKubeconfig"   \* --kubeconfig=<the kubeconfig that names yurt-hub>
}

NameOf(flag) ==
  CASE flag \in {"bootstrap", "noBootstrap"}     -> "--bootstrap-kubeconfig"
    [] flag \in {"kubeconfig", "yurtKubeconfig"} -> "--kubeconfig"
    [] OTHER                                     -> "other"

\* The file: absent, empty (a write that truncated it and went no further), or with its line.
Absent == [kind |-> "absent", args |-> <<>>]
Empty  == [kind |-> "empty", args |-> <<>>]
Line(args) == [kind |-> "line", args |-> args]

----------------------------------------------------------------------------

Named(args, name) == \E i \in DOMAIN args : NameOf(args[i]) = name

\* The flags of a line that are in the set, in their order.
Among(args, set) ==
  LET kept[i \in 0..Len(args)] ==
        IF i = 0 THEN <<>>
        ELSE IF args[i] \in set THEN Append(kept[i-1], args[i]) ELSE kept[i-1]
  IN  kept[Len(args)]

\* The flags that are not --bootstrap-kubeconfig.
Unbootstrapped == {f \in Flags : NameOf(f) # "--bootstrap-kubeconfig"}

\* Slips of Redirected: a --kubeconfig that is kept as it is, and one that is always appended.
RedirectedUnlessSet(args) ==
  LET kept == Among(args, Unbootstrapped)
  IN  kept \o <<"noBootstrap">> \o
      (IF Named(kept, "--kubeconfig") THEN <<>> ELSE <<"yurtKubeconfig">>)

RedirectedAgain(args) == args \o <<"noBootstrap", "yurtKubeconfig">>

\* Every --kubeconfig is pointed at yurt-hub in its place, or one is appended where there is
\* none; --bootstrap-kubeconfig moves to the end and is emptied.
Redirected(args) ==
  LET kept == Among(args, Unbootstrapped)
      sent == [i \in DOMAIN kept |->
                 IF NameOf(kept[i]) = "--kubeconfig" THEN "yurtKubeconfig" ELSE kept[i]]
  IN  sent \o <<"noBootstrap">> \o
      (IF Named(kept, "--kubeconfig") THEN <<>> ELSE <<"yurtKubeconfig">>)

\* A file without the line gets one with the two flags only.
Rewritten(file) ==
  IF file.kind = "line" THEN Line(Redirected(file.args))
                        ELSE Line(<<"noBootstrap", "yurtKubeconfig">>)

----------------------------------------------------------------------------
(* What kubelet makes of a line *)

\* Of several flags of one name the last one counts; "default" is kubelet's own.
Setting(args, name) ==
  LET set == {i \in DOMAIN args : NameOf(args[i]) = name}
  IN  IF set = {} THEN "default"
      ELSE args[CHOOSE i \in set : \A j \in set : j <= i]

Others(args) == Among(args, {"other"})

\* kubelet goes to the API server through yurt-hub.
ToYurtHub(file) ==
  \E i \in DOMAIN file.args :
    /\ file.args[i] = "yurtKubeconfig"
    /\ \A j \in DOMAIN file.args : j > i => NameOf(file.args[j]) # "--kubeconfig"
=============================================================================
