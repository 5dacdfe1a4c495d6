------------------------------- MODULE MCMesh -------------------------------
(***************************************************************************)
(* Mesh for TLC: two laptops with an address each. With MaxHost = 3 both   *)
(* can be members at once, and a removed one's host number is given to the *)
(* other. A machine asks once, so two request identifiers are enough.      *)
(***************************************************************************)
EXTENDS Mesh

MCAsk ==
  [m \in Machine |->
     [name |-> IF m = "k1" THEN "a" ELSE "b", wgKey |-> m, sshHostKey |-> "h1",
      lanIP |-> IF m = "k1" THEN "lan1" ELSE "lan2", switch |-> FALSE]]

MCCoordinator ==
  [host |-> 1, name |-> "coord", wgKey |-> "k0", sshHostKey |-> "h0",
   lanIP |-> "lan0", switch |-> FALSE]
=============================================================================
