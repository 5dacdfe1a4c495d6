----------------------------- MODULE MCRegistry -----------------------------
(***************************************************************************)
(* Registry for TLC: three host names and two WireGuard keys, so that      *)
(* requests repeat, collide on the name with another key, are duplicates   *)
(* under another name, and come again with a new SSH host key. Three names *)
(* against MaxPending = 2 reach the limit; MaxHost = 3 leaves two host     *)
(* numbers for nodes, and RequestTTL = 1 lets requests expire at any point *)
(* of a behaviour. Three identifiers bound the requests stored at once.    *)
(***************************************************************************)
EXTENDS Registry, TLC

R(n, k, h) ==
  [name |-> n, wgKey |-> k, sshHostKey |-> h, lanIP |-> "lan", switch |-> FALSE]

MCAskers ==
  {R("a", "k1", "h1"), R("b", "k1", "h1"), R("a", "k2", "h2"), R("b", "k2", "h1"),
   R("c", "k2", "h2")}

RequestIdSymmetry == Permutations(RequestId)

MCCoordinator ==
  [host |-> 1, name |-> "coord", wgKey |-> "k0", sshHostKey |-> "h0",
   lanIP |-> "lan", switch |-> TRUE]
=============================================================================
