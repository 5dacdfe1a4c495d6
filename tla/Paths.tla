-------------------------------- MODULE Paths --------------------------------
(***************************************************************************)
(* Which way WireGuard packets take between the servers: over the switch   *)
(* or over the home network (Endpoint in internal/mesh/mesh.go, Sync and   *)
(* checkSwitch in internal/node/commands.go). Cables are pulled and put    *)
(* into the switch or the router, the router gives out new addresses,      *)
(* machines reboot; only a heartbeat over the mesh tells the coordinator,  *)
(* and the heartbeat itself needs a working path.                          *)
(*                                                                         *)
(* The members stay the same. WireGuard answers a peer at the address its  *)
(* last authentic packet came from (roaming) and sends keepalives, so one  *)
(* working direction makes the other work.                                 *)
(*                                                                         *)
(* The names of its specification begin with Paths, so that a module can   *)
(* extend the program that makes a config and the paths that follow it.    *)
(***************************************************************************)
EXTENDS Integers, FiniteSets

CONSTANTS
  Node,        \* the members other than the coordinator
  C,           \* the coordinator
  Transports,  \* the transports to look at: TRUE is auto, FALSE always the LAN
  NoList,      \* a sync holds no member list
  MaxAddress,  \* bound on the addresses a node goes through
  MaxMoves     \* bound on new addresses, replugged cables and reboots

Server == Node \cup {C}

ASSUME PathsConstants ==
  /\ C \notin Node
  /\ Transports \subseteq BOOLEAN
  /\ MaxAddress \in Nat \ {0}
  /\ MaxMoves \in Nat

VARIABLES
  auto,   \* the transport in everybody's config
  cable,  \* cable[s]: where the Ethernet cable of s leads
  lan,    \* lan[s]: its address in the home network
  reg,    \* reg[s]: address and cable link as the registry has them
  conf,   \* conf[s][p]: the endpoint of p in wg0.conf of s
  live,   \* live[s][p]: the one the interface of s uses
  list,   \* list[s]: what a running sync of s knows
  moves

pathsVars == <<auto, cable, lan, reg, conf, live, list, moves>>

Switch  == 0   \* the endpoint on the switch; other endpoints are addresses
NoPeer  == -1  \* the server does not know the peer yet
LanAddress == 1..MaxAddress
Record  == [lan: LanAddress, switch: BOOLEAN]
Listed  == [members: [Server -> Record], link: BOOLEAN]

\* PortLink: a cable link, wherever the cable leads.
Link(s) == cable[s] # "none"

OnSwitch(s) == cable[s] = "switch"

\* Both servers have a link: what Endpoint asks, with the flags it is given.
Endpoint(link, peer) ==
  IF auto /\ link /\ peer.switch THEN Switch ELSE peer.lan

\* Requests carry true flags; Activate writes the coordinator's endpoint.
PathsInit ==
  /\ auto \in Transports
  /\ cable \in [Server -> {"none", "switch", "router"}]
  /\ lan = [s \in Server |-> 1]
  /\ reg = [s \in Server |-> [lan |-> 1, switch |-> Link(s)]]
  /\ conf = [s \in Server |-> [p \in Server \ {s} |->
       IF p = C THEN Endpoint(Link(s), reg[C]) ELSE NoPeer]]
  /\ live = conf
  /\ list = [s \in Server |-> NoList]
  /\ moves = 0

----------------------------------------------------------------------------
\* WireGuard.

\* A packet of s to p arrives.
Delivers(s, p) ==
  \/ live[s][p] = Switch /\ OnSwitch(s) /\ OnSwitch(p)
  \/ live[s][p] = lan[p]

\* Where p sees a packet of s come from.
Source(s, p) == IF live[s][p] = Switch THEN Switch ELSE lan[s]

\* A keepalive; p takes it when it knows s as a peer.
Keepalive(s, p) ==
  /\ Delivers(s, p)
  /\ live[p][s] \notin {NoPeer, Source(s, p)}
  /\ live' = [live EXCEPT ![p][s] = Source(s, p)]
  /\ UNCHANGED <<auto, cable, lan, reg, conf, list, moves>>

----------------------------------------------------------------------------
\* Sync.

CoordinatorLists ==
  /\ list[C] = NoList
  /\ reg' = [reg EXCEPT ![C].switch = Link(C)]
  /\ list' = [list EXCEPT ![C] = [members |-> reg', link |-> Link(C)]]
  /\ UNCHANGED <<auto, cable, lan, conf, live, moves>>

\* The coordinator answers to where the question came from.
NodeLists(n) ==
  /\ list[n] = NoList
  /\ Delivers(n, C)
  /\ live[C][n] # NoPeer
  /\ reg' = [reg EXCEPT ![n] = [lan |-> lan[n], switch |-> Link(n)]]
  /\ list' = [list EXCEPT ![n] = [members |-> reg', link |-> Link(n)]]
  /\ live' = [live EXCEPT ![C][n] = Source(n, C)]
  /\ UNCHANGED <<auto, cable, lan, conf, moves>>

\* Mutant: no ping, a link is taken for the switch.
Checked_NoPing(s, p) == list[s].members[p]

\* checkSwitch: a peer that does not answer on the switch is reached by LAN.
Checked(s, p) ==
  [list[s].members[p] EXCEPT !.switch =
     @ /\ (auto /\ list[s].link => OnSwitch(s) /\ OnSwitch(p))]

\* Apply and reloadWG.
Applies(s) ==
  /\ list[s] # NoList
  /\ conf' = [conf EXCEPT ![s] =
       [p \in Server \ {s} |-> Endpoint(list[s].link, Checked(s, p))]]
  /\ live' = [live EXCEPT ![s] = conf'[s]]
  /\ list' = [list EXCEPT ![s] = NoList]
  /\ UNCHANGED <<auto, cable, lan, reg, moves>>

----------------------------------------------------------------------------
\* The world.

Replug(s) ==
  /\ moves < MaxMoves
  /\ \E to \in {"none", "switch", "router"} \ {cable[s]} :
       cable' = [cable EXCEPT ![s] = to]
  /\ moves' = moves + 1
  /\ UNCHANGED <<auto, lan, reg, conf, live, list>>

\* The coordinator's address is reserved in the router.
NewAddress(n) ==
  /\ lan[n] < MaxAddress /\ moves < MaxMoves
  /\ lan' = [lan EXCEPT ![n] = @ + 1]
  /\ moves' = moves + 1
  /\ UNCHANGED <<auto, cable, reg, conf, live, list>>

Reboot(s) ==
  /\ moves < MaxMoves
  /\ live' = [live EXCEPT ![s] = conf[s]]
  /\ list' = [list EXCEPT ![s] = NoList]
  /\ moves' = moves + 1
  /\ UNCHANGED <<auto, cable, lan, reg, conf>>

Sync(s) ==
  \/ s = C /\ CoordinatorLists
  \/ s # C /\ NodeLists(s)
  \/ Applies(s)

PathsNext ==
  \/ \E s \in Server : Sync(s) \/ Replug(s) \/ Reboot(s)
  \/ \E s \in Server : \E p \in Server \ {s} : Keepalive(s, p)
  \/ \E n \in Node : NewAddress(n)

PathsSpec == PathsInit /\ [][PathsNext]_pathsVars

(* The sync timers run on every server and WireGuard sends its keepalives. *)
PathsFairness ==
  /\ \A s \in Server : WF_pathsVars(Sync(s))
  /\ \A s \in Server : \A p \in Server \ {s} : WF_pathsVars(Keepalive(s, p))

PathsFairSpec == PathsSpec /\ PathsFairness

----------------------------------------------------------------------------
PathsTypeOK ==
  /\ auto \in BOOLEAN
  /\ cable \in [Server -> {"none", "switch", "router"}]
  /\ lan \in [Server -> LanAddress]
  /\ reg \in [Server -> Record]
  /\ \A s \in Server :
       /\ conf[s] \in [Server \ {s} -> LanAddress \cup {Switch, NoPeer}]
       /\ live[s] \in [Server \ {s} -> LanAddress \cup {Switch, NoPeer}]
       /\ list[s] \in Listed \cup {NoList}
  /\ moves \in 0..MaxMoves

(* A node that cannot tell its new address: the coordinator sends to the   *)
(* old one, and the node to the coordinator's switch address, over a cable *)
(* that is not in the switch any more.                                     *)
CutOff(n) ==
  /\ n # C /\ lan[n] # reg[n].lan
  /\ live[n][C] = Switch /\ ~(OnSwitch(n) /\ OnSwitch(C))

(* A node loses the coordinator only over the switch: its address in the  *)
(* home network is the one everybody knows, whatever was pulled, rebooted  *)
(* or given a new address. With the transport lan a node always hears of   *)
(* members and addresses.                                                  *)
LostOnTheSwitchOnly ==
  \A n \in Node :
    ~Delivers(n, C) => auto /\ live[n][C] = Switch /\ ~(OnSwitch(n) /\ OnSwitch(C))

(* Once cables and addresses stay as they are, the packets of every server *)
(* arrive at every other one and go on arriving, over the switch or over   *)
(* the home network: "Servers that reach each other on the switch use it;  *)
(* the others use WiFi". A node that loses the coordinator would never     *)
(* hear of a member, an address or a removal again. The exception is what  *)
(* the code does not repair, for the pairs of the node it happens to: a    *)
(* new address it cannot tell, as its endpoint for the coordinator is the  *)
(* switch and the way over the switch is gone.                             *)
ServersReachEachOther ==
  <>[](\A s \in Server : \A p \in Server \ {s} :
         Delivers(s, p) \/ CutOff(s) \/ CutOff(p))
=============================================================================
