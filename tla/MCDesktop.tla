----------------------------- MODULE MCDesktop -----------------------------
(***************************************************************************)
(* Desktop for TLC: 32 addresses with networks of 8 and 16. MCConfigs has  *)
(* a config with two neighbouring networks, one without a switch, and one  *)
(* whose mesh holds the switch network, which only an editor can write.    *)
(***************************************************************************)
EXTENDS Desktop

Net(ip, size) == [ip |-> ip, size |-> size]

Settings(coord, mesh, switch, auto) ==
  [coord |-> coord, mesh |-> mesh, switch |-> switch, auto |-> auto]

MCConfigs ==
  {Settings(2, Net(8, 8), Net(16, 8), TRUE),
   Settings(2, Net(16, 16), Net(0, 8), FALSE),
   Settings(2, Net(16, 16), Net(24, 8), TRUE)}

(* HostOf in the code subtracts byte by byte, modulo 256. With bytes of    *)
(* two bits and networks larger than a byte, that is what Addresses says.  *)
Digit(a, i) == (a \div 4^i) % 4

ByteWise(c, a) ==
  LET d(i) == ((Digit(a, i) - Digit(Base(c), i)) % 4) * 4^i IN d(0) + d(1) + d(2)

ASSUME HostOfIsByteWise ==
  \A c \in Cidr, a \in Address : Contains(c, a) => ByteWise(c, a) = a - Base(c)
=============================================================================
