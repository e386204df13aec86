--------------------------- MODULE KubeletDiscovery ---------------------------
(***************************************************************************)
(* How edgectl finds the API server that yurt-hub is to connect to: by a   *)
(* greedy expression over the command line of the running kubelet, whose   *)
(* match counts only if it is one flag, and the kubeconfig it names.       *)
(***************************************************************************)
EXTENDS KubeadmFlags

\* The flags before KUBELET_KUBEADM_ARGS in the unit that kubeadm installs.
Unit == <<"bootstrap", "kubeconfig">>

CommandLine(args) == Unit \o args

\* The flags whose text ends in kubelet.conf, where a match may end.
EndsMatch == {"bootstrap", "kubeconfig", "yurtKubeconfig"}

\* /etc/kubernetes/kubelet.conf, unless an option of edgectl names another.
DefaultKubeconfig == "kubeconfig"

\* A match that is one flag: no match begins before it and none can end after it.
Matches(args) ==
  {i \in DOMAIN args :
     /\ NameOf(args[i]) = "--kubeconfig"
     /\ \A j \in DOMAIN args : /\ j < i => NameOf(args[j]) # "--kubeconfig"
                               /\ j > i => args[j] \notin EndsMatch}

\* A slip: the last flag counts, as it does for kubelet.
KubeconfigInForce(args) == Setting(args, "--kubeconfig")

KubeconfigPath(args) ==
  IF Matches(args) = {} THEN DefaultKubeconfig
                        ELSE args[CHOOSE i \in Matches(args) : TRUE]

\* The server that the kubeconfig names: its own yurt-hub is what convert writes into one.
ServerOf(kubeconfig) == IF kubeconfig = "yurtKubeconfig" THEN "yurtHub" ELSE "apiServer"

APIServerAddress(args) == ServerOf(KubeconfigPath(CommandLine(args)))
=============================================================================
