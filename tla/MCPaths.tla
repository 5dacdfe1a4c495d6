------------------------------ MODULE MCPaths ------------------------------
(***************************************************************************)
(* Paths for TLC. Every start with the transport auto, each cable in the   *)
(* switch, in the router or nowhere, and up to MaxMoves replugged cables,  *)
(* reboots and new addresses at any point of the syncs. With the transport *)
(* lan nobody reads a cable, and one start stands for all.                 *)
(***************************************************************************)
EXTENDS Paths

MCInit == PathsInit /\ (auto \/ \A s \in Server : OnSwitch(s))

MCSpec == MCInit /\ [][PathsNext]_pathsVars /\ PathsFairness
=============================================================================
