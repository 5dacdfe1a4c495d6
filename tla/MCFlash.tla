------------------------------- MODULE MCFlash -------------------------------
(***************************************************************************)
(* Flash for TLC: two paths; two sticks that look the same, one of them    *)
(* bad, and a disk that looks different. Three chunks with a flush after   *)
(* two, so that one is left for the last flush, and a channel of one       *)
(* message. Two events pull a stick and put another in its place, or mount *)
(* one and move it. One image is written: nothing but what is on the disks *)
(* goes from one to the next.                                              *)
(***************************************************************************)
EXTENDS Flash

Models == [d \in Disk |-> IF d = "d3" THEN "other" ELSE "stick"]

TwoPaths == <<"sda", "sdb">>
=============================================================================
