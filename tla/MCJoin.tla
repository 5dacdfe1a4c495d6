------------------------------- MODULE MCJoin -------------------------------
(***************************************************************************)
(* Join for TLC: two laptops, under two names or under one, against two    *)
(* host numbers for nodes. Two ticks with RequestTTL = 1 let any request   *)
(* expire, one fault cuts the power or breaks the activation at            *)
(* any point of a behaviour.                                               *)
(***************************************************************************)
EXTENDS Join, TLC

Asking(n, k) ==
  [name |-> n, wgKey |-> k, sshHostKey |-> "h1", lanIP |-> "lan", switch |-> FALSE]

TwoNames == [m \in Machine |-> Asking(IF m = "k1" THEN "a" ELSE "b", m)]

OneName == [m \in Machine |-> Asking("a", m)]

OneOrTwoNames == {OneName, TwoNames}

OnlyTwoNames == {TwoNames}

MCCoordinator ==
  [host |-> 1, name |-> "coord", wgKey |-> "k0", sshHostKey |-> "h0",
   lanIP |-> "lan", switch |-> TRUE]

RequestIdSymmetry == Permutations(RequestId)
=============================================================================
