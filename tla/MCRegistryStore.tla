-------------------------- MODULE MCRegistryStore --------------------------
(***************************************************************************)
(* RegistryStore for TLC: a root process that reads and updates, like the  *)
(* scan and the approval screen, and a process of the registry user, each  *)
(* calling again and again, and up to two crashes.                         *)
(***************************************************************************)
EXTENDS RegistryStore
=============================================================================
