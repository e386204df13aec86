------------------------------ MODULE MCEdgectl ------------------------------
(* Small instances of Edgectl for TLC. *)
EXTENDS EdgectlClaims

\* No file, the line of a kubeadm node, and lines with one or both of the flags that are rewritten.
SomeLines ==
  {Absent} \cup {Line(args) : args \in {<<"other">>, <<"kubeconfig", "other">>,
                                      <<"other", "bootstrap">>, <<"bootstrap", "kubeconfig">>}}

OneLine == {Line(<<"other">>)}
=============================================================================
