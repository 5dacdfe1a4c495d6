-------------------------- MODULE MCApproveScreen --------------------------
(***************************************************************************)
(* ApproveScreen for TLC: two requests under two names, two snapshots      *)
(* under way, so that they overtake each other, and a few events from      *)
(* elsewhere.                                                              *)
(***************************************************************************)
EXTENDS ApproveScreen

MCNameOf == [i \in Id |-> IF i = "r1" THEN "a" ELSE "b"]
=============================================================================
