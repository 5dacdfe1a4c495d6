-------------------------------- MODULE Mesh --------------------------------
(***************************************************************************)
(* The WireGuard mesh that Sync keeps equal to the member list             *)
(* (internal/node/commands.go): every minute each server fetches the list, *)
(* rewrites wg0.conf and loads it into the running interface. A node       *)
(* fetches over the mesh itself, and the coordinator knows it by the mesh  *)
(* address it calls from (Serve in internal/registry/serve.go), so who may *)
(* ask depends on what the coordinator's own last sync loaded.             *)
(*                                                                         *)
(* A peer entry is a WireGuard key and the host number whose address the   *)
(* key may use. How machines ask and learn of their approval is Join's     *)
(* matter: here a machine takes the answer from the request table when it  *)
(* is there. Endpoints are Paths' matter.                                  *)
(***************************************************************************)
EXTENDS RegistryOps

CONSTANTS
  Machine,      \* the laptops that may join; a machine is its WireGuard key
  Ask,          \* Ask[m]: the join request of m, with the address m has
  Coordinator,  \* member 1
  NoList,       \* a sync holds no member list
  MaxFaults     \* bound on power cuts and on syncs that end half-way

Askers == {Ask[m] : m \in Machine}

C == Coordinator.wgKey

Server == Machine \cup {C}

ASSUME MeshConstants ==
  /\ Machine \subseteq WGKey
  /\ Ask \in [Machine -> JoinRequest]
  /\ \A m \in Machine : Ask[m].wgKey = m
  /\ Coordinator \in Member /\ Coordinator.host = 1
  /\ C \notin Machine
  /\ MaxFaults \in Nat

VARIABLES
  members, requests,  \* the registry on the coordinator
  host,     \* host[s]: the host number in join.json, 0 before joining
  conf,     \* conf[s]: the peers in wg0.conf
  live,     \* live[s]: the peers of the running interface
  fetched,  \* fetched[s]: the peers that a running sync of s read or wrote
  up,       \* up[s]: s is switched on
  faults

reg  == <<members, requests>>
vars == <<reg, host, conf, live, fetched, up, faults>>

R == INSTANCE Registry

Peer == [key: WGKey, host: 1..MaxHost]

PeerOf(k) == [key |-> k.wgKey, host |-> k.host]

\* Mutant: the server itself is not left out.
Peers_All(ms, h) == {PeerOf(k) : k \in ms}

\* The peers in the config of the server with host number h.
Peers(ms, h) == {PeerOf(k) : k \in {k \in ms : k.host # h}}

Init ==
  /\ R!Init
  /\ host = [s \in Server |-> IF s = C THEN 1 ELSE 0]
  /\ conf = [s \in Server |-> {}]
  /\ live = [s \in Server |-> {}]
  /\ fetched = [s \in Server |-> NoList]
  /\ up = [s \in Server |-> TRUE]
  /\ faults = 0

----------------------------------------------------------------------------
\* The registry's other callers.

\* join.json keeps the request: a machine asks for one, and then about it.
Asks(m) ==
  /\ host[m] = 0
  /\ \A i \in DOMAIN requests : requests[i].wgKey # m
  /\ \E id \in RequestId : R!AddRequest(Ask[m], id)
  /\ UNCHANGED <<host, conf, live, fetched, up, faults>>

AdminApproves ==
  /\ \E id \in PendingIds(requests), n \in 2..MaxHost : R!Approve(id, n)
  /\ UNCHANGED <<host, conf, live, fetched, up, faults>>

AdminRemoves ==
  /\ \E k \in members : R!Remove(k)
  /\ UNCHANGED <<host, conf, live, fetched, up, faults>>

\* Mutant: no peer is written before the first sync.
Joins_NoPeer(m) ==
  /\ up[m] /\ host[m] = 0
  /\ \E id \in DOMAIN requests :
       /\ requests[id].wgKey = m /\ requests[id].status = "approved"
       /\ host' = [host EXCEPT ![m] = requests[id].host]
  /\ UNCHANGED <<reg, conf, live, fetched, up, faults>>

\* Activate: the coordinator is the only peer until the first sync.
Joins(m) ==
  /\ up[m] /\ host[m] = 0
  /\ \E id \in DOMAIN requests :
       /\ requests[id].wgKey = m /\ requests[id].status = "approved"
       /\ host' = [host EXCEPT ![m] = requests[id].host]
  /\ conf' = [conf EXCEPT ![m] = {PeerOf(Coordinator)}]
  /\ live' = [live EXCEPT ![m] = {PeerOf(Coordinator)}]
  /\ UNCHANGED <<reg, fetched, up, faults>>

----------------------------------------------------------------------------
\* Sync.

\* The coordinator reads its own registry.
CoordinatorLists ==
  /\ up[C] /\ fetched[C] = NoList
  /\ \E k \in members : k.host = 1 /\ R!Heartbeat(k, Coordinator.lanIP, Coordinator.switch)
  /\ fetched' = [fetched EXCEPT ![C] = Peers(members, 1)]
  /\ UNCHANGED <<host, conf, live, up, faults>>

\* WireGuard lets packets of key p with source address h through to s.
Accepts(s, p, h) == [key |-> p, host |-> h] \in live[s]

Tunnel(m) ==
  /\ up[m] /\ up[C]
  /\ Accepts(C, m, host[m]) /\ Accepts(m, C, 1)

(* A node asks for the list and reports its address. The coordinator takes *)
(* it for the member at the address it calls from, and answers an error    *)
(* when there is none.                                                     *)
NodeLists(m) ==
  /\ host[m] # 0 /\ fetched[m] = NoList
  /\ Tunnel(m)
  /\ \E k \in members :
       k.host = host[m] /\ R!Heartbeat(k, Ask[m].lanIP, Ask[m].switch)
  /\ fetched' = [fetched EXCEPT ![m] = Peers(members, host[m])]
  /\ UNCHANGED <<host, conf, live, up, faults>>

\* Mutant: a sync adds the new peers and leaves the old ones.
Writes_AddsOnly(s) ==
  /\ fetched[s] \notin {NoList, conf[s]}
  /\ conf' = [conf EXCEPT ![s] = @ \cup fetched[s]]
  /\ UNCHANGED <<reg, host, live, fetched, up, faults>>

Writes(s) ==
  /\ fetched[s] \notin {NoList, conf[s]}
  /\ conf' = [conf EXCEPT ![s] = fetched[s]]
  /\ UNCHANGED <<reg, host, live, fetched, up, faults>>

\* Mutant: the interface keeps the peers it has (wg addconf).
Reloads_AddsOnly(s) ==
  /\ fetched[s] = conf[s]
  /\ live' = [live EXCEPT ![s] = @ \cup conf[s]]
  /\ fetched' = [fetched EXCEPT ![s] = NoList]
  /\ UNCHANGED <<reg, host, conf, up, faults>>

\* reloadWG makes the interface equal to the file.
Reloads(s) ==
  /\ fetched[s] = conf[s]
  /\ live' = [live EXCEPT ![s] = conf[s]]
  /\ fetched' = [fetched EXCEPT ![s] = NoList]
  /\ UNCHANGED <<reg, host, conf, up, faults>>

----------------------------------------------------------------------------
\* Faults.

\* A call times out, a write or a command fails; the timer starts a new sync.
SyncFails(s) ==
  /\ faults < MaxFaults
  /\ fetched[s] # NoList
  /\ fetched' = [fetched EXCEPT ![s] = NoList]
  /\ faults' = faults + 1
  /\ UNCHANGED <<reg, host, conf, live, up>>

PowerCut(s) ==
  /\ faults < MaxFaults
  /\ up[s]
  /\ up' = [up EXCEPT ![s] = FALSE]
  /\ live' = [live EXCEPT ![s] = {}]
  /\ fetched' = [fetched EXCEPT ![s] = NoList]
  /\ faults' = faults + 1
  /\ UNCHANGED <<reg, host, conf>>

\* wg-quick@wg0 loads the file at boot.
Boot(s) ==
  /\ ~up[s]
  /\ up' = [up EXCEPT ![s] = TRUE]
  /\ live' = [live EXCEPT ![s] = conf[s]]
  /\ UNCHANGED <<reg, host, conf, fetched, faults>>

Sync(s) ==
  \/ s = C /\ CoordinatorLists
  \/ s # C /\ NodeLists(s)
  \/ Writes(s)
  \/ Reloads(s)

Next ==
  \/ \E m \in Machine : Asks(m) \/ Joins(m)
  \/ AdminApproves \/ AdminRemoves
  \/ \E s \in Server : Sync(s) \/ SyncFails(s) \/ PowerCut(s) \/ Boot(s)

Spec == Init /\ [][Next]_vars

(* The sync timer of every server runs, machines are switched on again and *)
(* an approved machine takes its answer. Faults are finitely many; a node  *)
(* whose tunnel to the coordinator comes and goes gets a call through.     *)
Fairness ==
  /\ \A s \in Server : WF_vars(Sync(s)) /\ WF_vars(Boot(s))
  /\ \A m \in Machine : WF_vars(Joins(m)) /\ SF_vars(NodeLists(m))

FairSpec == Spec /\ Fairness

----------------------------------------------------------------------------
TypeOK ==
  /\ R!TypeOK
  /\ host \in [Server -> 0..MaxHost]
  /\ conf \in [Server -> SUBSET Peer]
  /\ live \in [Server -> SUBSET Peer]
  /\ fetched \in [Server -> (SUBSET Peer) \cup {NoList}]
  /\ up \in [Server -> BOOLEAN]
  /\ faults \in 0..MaxFaults

(* In every config, old or new, an address belongs to one key and a key to *)
(* one address: WireGuard gives an address that two peers claim to one of  *)
(* them, and the other would vanish.                                       *)
OneKeyPerAddress ==
  \A s \in Server : \A table \in {conf[s], live[s]} : \A p, q \in table :
    p # q => p.host # q.host /\ p.key # q.key

(* No server is its own peer. Configs leave out the own host number only,  *)
(* so this needs join.json and the member list to agree on it, also when   *)
(* the member was removed and its number given out again.                  *)
NobodyIsOwnPeer ==
  \A s \in Server : \A p \in conf[s] \cup live[s] :
    p.key # s /\ p.host # host[s]

IsMember(s) == \E k \in members : k.wgKey = s

(* A removed machine loses every server that is a member itself: the       *)
(* promise behind "servers drop it within a minute". The server may be off *)
(* or in the middle of a sync when the member is removed.                  *)
RemovedIsDropped ==
  \A m \in Machine : \A s \in Server \ {m} :
    (host[m] # 0 /\ ~IsMember(m)) ~>
      ((\A p \in live[s] : p.key # m) \/ ~IsMember(s) \/ IsMember(m))

(* Any two servers that are members and have joined get connected, though  *)
(* the coordinator must have loaded a new node before it can ask, and the  *)
(* others hear of it later.                                                *)
MembersConnect ==
  \A pair \in {P \in SUBSET Server : Cardinality(P) = 2} :
    (\A s \in pair : IsMember(s) /\ host[s] # 0) ~>
      \/ \A s \in pair : \A t \in pair \ {s} : Accepts(s, t, host[t])
      \/ \E s \in pair : ~IsMember(s)
=============================================================================
