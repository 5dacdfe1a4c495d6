---------------------------- MODULE MCSetupScreen ----------------------------
(***************************************************************************)
(* SetupScreen for TLC: two disks, so that one can be chosen for the       *)
(* system and for data; channels of one message and calls that report up   *)
(* to two, so that they block; four checks and installations, enough for   *)
(* one that fails, a retry that succeeds, a rejected join and one more.    *)
(***************************************************************************)
EXTENDS SetupScreen
=============================================================================
