----------------------------- MODULE Addresses -----------------------------
(***************************************************************************)
(* The arithmetic of addresses: what config.Validate accepts as subnets,   *)
(* which address a host number gets in them (HostAddr in                   *)
(* internal/sysconf/sysconf.go), which host number an address belongs to   *)
(* (HostOf in internal/mesh/mesh.go), and which host numbers approving may *)
(* give out (runApprove in cmd/dryserver/main.go).                         *)
(*                                                                         *)
(* An address is a number below Width, 2^32 in the code; a CIDR is an      *)
(* address and the size of the network it lies in, a power of two there.   *)
(***************************************************************************)
EXTENDS Integers

CONSTANTS
  Width,    \* how many addresses there are
  Sizes,    \* the sizes of networks
  MinSize   \* the smallest network to use, that of a /29

ASSUME AddressConstants ==
  /\ Width \in Nat \ {0}
  /\ Sizes \subseteq Nat \ {0}
  /\ \A s \in Sizes : \E k \in 1..Width : Width = k * s
  /\ MinSize \in Nat

Address == 0..Width - 1

Cidr == [ip: Address, size: Sizes]

NoAddress == -1   \* HostAddr returned an error

\* The network address, ip & mask.
Base(c) == c.ip - (c.ip % c.size)

Contains(c, a) == Base(c) <= a /\ a < Base(c) + c.size

----------------------------------------------------------------------------
\* Host n of network c, in uint32 arithmetic.
HostAddr(c, n) ==
  IF n < 1 \/ n >= c.size - 1 THEN NoAddress ELSE (Base(c) + n) % Width

(* The host number of address a, or 0. The code subtracts byte by byte,    *)
(* which never borrows: the host bits of a network address are zero.       *)
HostOf(c, a) ==
  LET v == a - Base(c) IN
  IF ~Contains(c, a) \/ v <= 0 \/ v >= c.size - 1 THEN 0 ELSE v

\* The last host number that approving gives out.
LastHost(c) == c.size - 2

----------------------------------------------------------------------------
ValidSubnet(c) == c.size >= MinSize /\ c.ip = Base(c)

ValidMeshSubnet(c, coord) == ValidSubnet(c) /\ ~Contains(c, coord)

\* Mutant: only one of the two directions of the overlap, and any size.
ValidSwitchSubnet_OneWay(c, mesh, coord) ==
  ValidMeshSubnet(c, coord) /\ ~Contains(c, Base(mesh))

ValidSwitchSubnet(c, mesh, coord) ==
  /\ ValidMeshSubnet(c, coord)
  /\ ~Contains(c, Base(mesh))
  /\ ~Contains(mesh, Base(c))
  /\ c.size = mesh.size

\* The fields of a config that addresses depend on; auto is the transport.
Config == [coord: Address, mesh: Cidr, switch: Cidr, auto: BOOLEAN]

ValidConfig(c) ==
  /\ ValidMeshSubnet(c.mesh, c.coord)
  /\ c.auto => ValidSwitchSubnet(c.switch, c.mesh, c.coord)

----------------------------------------------------------------------------
\* Host numbers 1 to last have addresses of their own inside network c.
Numbered(c, last) ==
  \A n \in 1..last :
    /\ HostAddr(c, n) \in Address
    /\ Contains(c, HostAddr(c, n))
    /\ HostOf(c, HostAddr(c, n)) = n
    /\ HostAddr(c, n) # Base(c)
    /\ HostAddr(c, n) # Base(c) + c.size - 1

(* What the rest of the system takes for granted of a config: every host   *)
(* number that approving may give out has an address of its own on the     *)
(* mesh and, in auto mode, on the switch, from which the number can be     *)
(* told; no such address is the other network's or the coordinator's on    *)
(* the router's.                                                           *)
Sound(c) ==
  LET Hosts == 1..LastHost(c.mesh) IN
  /\ Numbered(c.mesh, LastHost(c.mesh))
  /\ \A n \in Hosts : HostAddr(c.mesh, n) # c.coord
  /\ c.auto =>
       /\ Numbered(c.switch, LastHost(c.mesh))
       /\ \A n \in Hosts : HostAddr(c.switch, n) # c.coord
       /\ \A n, k \in Hosts : HostAddr(c.switch, n) # HostAddr(c.mesh, k)
=============================================================================
