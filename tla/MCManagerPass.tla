---------------------------- MODULE MCManagerPass ----------------------------
(* Small instances of ManagerPass for TLC. *)
EXTENDS ManagerPass

On == [server |-> "on", agent |-> "on", publicIP |-> FALSE, serverCount |-> 2]

OneOn == {On}
Switches ==
  {[On EXCEPT !.publicIP = TRUE, !.serverCount = 1],
   [On EXCEPT !.server = "off", !.agent = "off"], [On EXCEPT !.server = "nil"]}
=============================================================================
