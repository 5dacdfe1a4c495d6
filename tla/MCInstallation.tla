--------------------------- MODULE MCInstallation ---------------------------
(***************************************************************************)
(* Installation for TLC: two disks. One old system has a container in the  *)
(* second partition of the first disk with a volume in it that also lies   *)
(* on the third, which lsblk lists twice; the other has it on a device of  *)
(* a type that is passed over. The second disk has a single partition,     *)
(* which a data disk also has. Two faults break an attempt and its retry,  *)
(* or an attempt and the enrolment.                                        *)
(***************************************************************************)
EXTENDS Installation

OldOn == [v \in Volume |-> IF v = "lvm" THEN {<<"d1", 2>>, <<"d1", 3>>} ELSE {<<"d1", 2>>}]

OldAbove == [v \in Volume |-> IF v = "lvm" THEN {} ELSE {"lvm"}]

OldSystems == {{"crypt", "lvm"}, {"dmraid", "lvm"}}

OldPartitions == [d \in Disk |-> IF d = "d1" THEN 3 ELSE 1]
=============================================================================
