----------------------------- MODULE MeshProofs -----------------------------
(***************************************************************************)
(* Machine-checked proofs about Mesh, for every number of laptops and      *)
(* faults: no WireGuard table ever gives an address to two keys or lists   *)
(* the server itself. What makes it so is that a machine asks once and is  *)
(* approved once, so join.json and the member list cannot come to differ   *)
(* about its host number (Joined), whatever is removed and given out again *)
(* between the time a server fetches the list and the time it loads it.    *)
(***************************************************************************)
EXTENDS Mesh, RegistryOpsProofs

Shape ==
  /\ members \subseteq Member
  /\ requests \in [DOMAIN requests -> Request]
  /\ DOMAIN requests \subseteq RequestId
  /\ DOMAIN host = Server /\ DOMAIN conf = Server
  /\ DOMAIN live = Server /\ DOMAIN fetched = Server

\* Hosts and keys identify members, and the key of the coordinator is host 1's.
MembersDiffer ==
  /\ \A k, l \in members : k # l => k.host # l.host /\ k.wgKey # l.wgKey
  /\ \A k \in members : k.wgKey = C => k.host = 1

\* A machine has one request at most, its approval says where it is a member.
OneRequestEach ==
  /\ \A i \in DOMAIN requests : requests[i].wgKey \in Machine
  /\ \A i, j \in DOMAIN requests : requests[i].wgKey = requests[j].wgKey => i = j
  /\ \A i \in DOMAIN requests : \A k \in members :
       k.wgKey = requests[i].wgKey =>
         requests[i].status = "approved" /\ k.host = requests[i].host
  /\ \A i \in DOMAIN requests :
       requests[i].status = "approved" => requests[i].host \in 2..MaxHost

\* What a machine that joined took is what the member list says of it.
Joined(m) ==
  host[m] # 0 =>
    /\ \A i \in DOMAIN requests :
         requests[i].wgKey = m => requests[i].status # "pending"
    /\ \A k \in members : k.wgKey = m => k.host = host[m]

\* A table that server s may have.
Sound(s, table) ==
  /\ \A p, q \in table : p # q => p.host # q.host /\ p.key # q.key
  /\ \A p \in table : p.key # s /\ p.host # host[s]

Tables(s) ==
  /\ Sound(s, conf[s]) /\ Sound(s, live[s])
  /\ fetched[s] # NoList => Sound(s, fetched[s])
  /\ host[s] = 0 => conf[s] = {} /\ live[s] = {} /\ fetched[s] = NoList

IInv ==
  /\ Shape /\ MembersDiffer /\ OneRequestEach
  /\ host[C] = 1
  /\ \A m \in Machine : Joined(m)
  /\ \A s \in Server : Tables(s)

----------------------------------------------------------------------------
LEMMA InitInv == Init => IInv
<1> SUFFICES ASSUME Init PROVE IInv
  OBVIOUS
<1>1. /\ DOMAIN requests = {} /\ members = {Coordinator}
      /\ requests \in [DOMAIN requests -> Request]
      /\ host = [s \in Server |-> IF s = C THEN 1 ELSE 0]
      /\ conf = [s \in Server |-> {}] /\ live = [s \in Server |-> {}]
      /\ fetched = [s \in Server |-> NoList]
  BY DEF Init, R!Init
<1>2. /\ C \in Server /\ C \notin Machine /\ Machine \subseteq Server
      /\ Coordinator \in Member /\ Coordinator.host = 1
  BY MeshConstants DEF Server
<1>3. Shape
  BY <1>1, <1>2 DEF Shape
<1>4. MembersDiffer /\ OneRequestEach
  BY <1>1, <1>2 DEF MembersDiffer, OneRequestEach
<1>5. host[C] = 1 /\ \A m \in Machine : Joined(m)
  BY <1>1, <1>2 DEF Joined
<1>6. \A s \in Server : Tables(s)
  BY <1>1 DEF Tables, Sound
<1>7. QED  BY <1>3, <1>4, <1>5, <1>6 DEF IInv

----------------------------------------------------------------------------
\* Steps of the registry.

(* What the registry's calls do, in the operators of RegistryOps.          *)
LEMMA RegistryCalls ==
  /\ \A r, id : R!AddRequest(r, id) =>
       /\ UNCHANGED members
       /\ Unclaimed(members, r)
       /\ \/ id \in Repeated(Prune(requests), r) /\ requests' = Prune(requests)
          \/ /\ id \in RequestId \ DOMAIN requests
             /\ requests' = Extend(Prune(requests), id, NewRequest(r))
  /\ \A id, n : R!Approve(id, n) =>
       /\ id \in PendingIds(requests)
       /\ n \in FreeHosts(members)
       /\ members' = members \cup {NewMember(requests[id], n)}
       /\ requests' = Settle(requests, id, n)
  /\ \A k, lan, sw : R!Heartbeat(k, lan, sw) =>
       /\ UNCHANGED requests
       /\ members' = (members \ {k}) \cup {Seen(k, lan, sw)}
<1>1. R!Prune(requests) = Prune(requests)
  BY DEF R!Prune, Prune, R!LiveIds, LiveIds
<1>2. \A qs, r : R!Repeated(qs, r) = Repeated(qs, r)
  BY DEF R!Repeated, Repeated, R!PendingIds, PendingIds, R!SameMachine, SameMachine
<1>3. \A qs, id, r : R!Extend(qs, id, R!NewRequest(r)) = Extend(qs, id, NewRequest(r))
  BY DEF R!Extend, Extend, R!NewRequest, NewRequest
<1>4. \A id, n : R!Settle(requests, id, n) = Settle(requests, id, n)
  BY DEF R!Settle, Settle
<1>5. ASSUME NEW r, NEW id, R!AddRequest(r, id)
      PROVE  /\ UNCHANGED members
             /\ Unclaimed(members, r)
             /\ \/ id \in Repeated(Prune(requests), r) /\ requests' = Prune(requests)
                \/ /\ id \in RequestId \ DOMAIN requests
                   /\ requests' = Extend(Prune(requests), id, NewRequest(r))
  <2>1. UNCHANGED members /\ Unclaimed(members, r)
    BY <1>5 DEF R!AddRequest, R!Unclaimed, Unclaimed
  <2>2. QED  BY <1>1, <1>2, <1>3, <1>5, <2>1 DEF R!AddRequest
<1>6. ASSUME NEW id, NEW n, R!Approve(id, n)
      PROVE  /\ id \in PendingIds(requests)
             /\ n \in FreeHosts(members)
             /\ members' = members \cup {NewMember(requests[id], n)}
             /\ requests' = Settle(requests, id, n)
  BY <1>4, <1>6 DEF R!Approve, R!PendingIds, PendingIds, R!NewMember, NewMember,
    R!IsNextHost, R!FreeHosts, FreeHosts
<1>7. ASSUME NEW k, NEW lan, NEW sw, R!Heartbeat(k, lan, sw)
      PROVE  /\ UNCHANGED requests
             /\ members' = (members \ {k}) \cup {Seen(k, lan, sw)}
  BY <1>7 DEF R!Heartbeat, R!Seen, Seen
<1>8. QED  BY <1>5, <1>6, <1>7

\* The tables do not depend on the registry.
LEMMA RegistryStep ==
  ASSUME IInv, UNCHANGED <<host, conf, live, fetched>>,
         members' \subseteq Member, requests' \in [DOMAIN requests' -> Request],
         DOMAIN requests' \subseteq RequestId,
         MembersDiffer', OneRequestEach', \A m \in Machine : Joined(m)'
  PROVE  IInv'
<1>1. Shape'
  BY DEF IInv, Shape
<1>2. \A s \in Server : Tables(s)'
  BY DEF IInv, Tables, Sound
<1>3. QED  BY <1>1, <1>2 DEF IInv

LEMMA AsksInv ==
  ASSUME IInv, NEW m \in Machine, Asks(m)
  PROVE  IInv'
<1> DEFINE qs == Prune(requests)
<1>1. PICK id \in RequestId : R!AddRequest(Ask[m], id)
  BY DEF Asks
<1>2. /\ UNCHANGED <<host, conf, live, fetched>> /\ host[m] = 0
      /\ \A i \in DOMAIN requests : requests[i].wgKey # m
  BY DEF Asks
<1>3. /\ UNCHANGED members
      /\ Unclaimed(members, Ask[m])
      /\ \/ id \in Repeated(qs, Ask[m]) /\ requests' = qs
         \/ /\ id \in RequestId \ DOMAIN requests
            /\ requests' = Extend(qs, id, NewRequest(Ask[m]))
  BY <1>1, RegistryCalls
<1>4. Ask[m] \in JoinRequest /\ Ask[m].wgKey = m
  BY MeshConstants
<1>5. /\ requests \in [DOMAIN requests -> Request] /\ members \subseteq Member
      /\ MembersDiffer /\ OneRequestEach /\ \A n \in Machine : Joined(n)
  BY DEF IInv, Shape
<1>6. /\ DOMAIN qs \subseteq DOMAIN requests
      /\ qs \in [DOMAIN qs -> Request]
      /\ \A i \in DOMAIN qs : qs[i] = requests[i]
  BY <1>5, PruneKeeps
<1> HIDE DEF qs
<1>7. id \notin Repeated(qs, Ask[m])
  BY <1>2, <1>4, <1>6 DEF Repeated, PendingIds, SameMachine
<1> DEFINE q == NewRequest(Ask[m])
<1>8. q \in Request /\ q.wgKey = m /\ q.status = "pending"
  BY <1>4, NewRequestWaits
<1> HIDE DEF q
<1>9. id \notin DOMAIN qs /\ requests' = Extend(qs, id, q)
  BY <1>3, <1>6, <1>7 DEF q
<1>10. /\ DOMAIN requests' = DOMAIN qs \cup {id}
       /\ requests' \in [DOMAIN requests' -> Request]
       /\ requests'[id] = q
       /\ \A i \in DOMAIN qs : i # id /\ requests'[i] = qs[i]
  <2>1. /\ DOMAIN requests' = DOMAIN qs \cup {id}
        /\ requests' \in [DOMAIN qs \cup {id} -> Request]
        /\ requests'[id] = q
        /\ \A i \in DOMAIN qs : i # id /\ requests'[i] = qs[i]
    BY <1>6, <1>8, <1>9, ExtendKeeps
  <2>2. QED  BY <2>1
<1>11. \A i \in DOMAIN requests' :
         \/ i = id
         \/ i \in DOMAIN requests /\ requests'[i] = requests[i]
  BY <1>6, <1>10
<1>12. \A k \in members : k.wgKey # m
  BY <1>3, <1>4 DEF Unclaimed
<1>13. MembersDiffer'
  BY <1>3, <1>5 DEF MembersDiffer
<1>14. OneRequestEach'
  BY <1>2, <1>3, <1>5, <1>8, <1>10, <1>11, <1>12 DEF OneRequestEach
<1>15. \A n \in Machine : Joined(n)'
  BY <1>2, <1>3, <1>5, <1>8, <1>10, <1>11 DEF Joined
<1>16. DOMAIN requests' \subseteq RequestId
  BY <1>6, <1>10 DEF IInv, Shape
<1>17. QED
  BY <1>2, <1>3, <1>5, <1>10, <1>13, <1>14, <1>15, <1>16, RegistryStep

LEMMA ApproveInv ==
  ASSUME IInv, AdminApproves
  PROVE  IInv'
<1>1. PICK id \in PendingIds(requests), n \in 2..MaxHost : R!Approve(id, n)
  BY DEF AdminApproves
<1> DEFINE new == NewMember(requests[id], n)
           m == requests[id].wgKey
<1>2. /\ UNCHANGED <<host, conf, live, fetched>>
      /\ n \in FreeHosts(members)
      /\ members' = members \cup {new}
      /\ requests' = Settle(requests, id, n)
  BY <1>1, RegistryCalls DEF AdminApproves
<1>3. /\ requests \in [DOMAIN requests -> Request] /\ members \subseteq Member
      /\ MembersDiffer /\ OneRequestEach /\ \A k \in Machine : Joined(k)
      /\ id \in DOMAIN requests /\ requests[id].status = "pending"
  BY DEF IInv, Shape, PendingIds
<1>4. new \in Member /\ new.host = n /\ new.wgKey = m
  BY <1>3, NewMemberOfRequest
<1>5. /\ m \in Machine /\ m # C
      /\ \A i \in DOMAIN requests : requests[i].wgKey = m => i = id
      /\ \A k \in members : k.wgKey # m /\ k.host # n
  BY <1>2, <1>3, MeshConstants DEF OneRequestEach, FreeHosts
<1>6. /\ DOMAIN requests' = DOMAIN requests
      /\ requests' \in [DOMAIN requests' -> Request]
      /\ \A i \in DOMAIN requests :
           /\ requests'[i].wgKey = requests[i].wgKey
           /\ requests[i].status # "pending" => requests'[i] = requests[i]
           /\ requests'[i].status = "pending" => requests[i].status = "pending"
           /\ requests'[i].status = "approved" /\ requests[i].status = "pending" =>
                requests'[i].host = n /\ requests[i].wgKey = m
      /\ requests'[id].status = "approved" /\ requests'[id].host = n
  <2>1. requests'[id] = [requests[id] EXCEPT !.status = "approved", !.host = n]
    BY <1>2, <1>3 DEF Settle
  <2>2. requests[id] \in Request
    BY <1>3
  <2>3. requests'[id].status = "approved" /\ requests'[id].host = n
    BY <2>1, <2>2 DEF Request
  <2>4. QED  BY <1>2, <1>3, <2>3, SettleFacts
<1> HIDE DEF new, m
<1>7. MembersDiffer'
  BY <1>2, <1>3, <1>4, <1>5 DEF MembersDiffer
<1>8. OneRequestEach'
  <2>1. ASSUME NEW i \in DOMAIN requests, NEW k \in members',
               k.wgKey = requests'[i].wgKey
        PROVE  requests'[i].status = "approved" /\ k.host = requests'[i].host
    <3>1. CASE k = new
      BY <1>4, <1>5, <1>6, <2>1, <3>1
    <3>2. CASE k \in members
      <4>1. requests[i].status = "approved" /\ k.host = requests[i].host
        BY <1>3, <1>6, <2>1, <3>2 DEF OneRequestEach
      <4>2. QED  BY <1>6, <4>1
    <3>3. QED  BY <1>2, <3>1, <3>2
  <2>2. ASSUME NEW i \in DOMAIN requests, requests'[i].status = "approved"
        PROVE  requests'[i].host \in 2..MaxHost
    <3>1. CASE requests[i].status = "pending"
      BY <1>6, <2>2, <3>1
    <3>2. CASE requests[i].status # "pending"
      BY <1>3, <1>6, <2>2, <3>2 DEF OneRequestEach
    <3>3. QED  BY <3>1, <3>2
  <2>3. QED  BY <1>3, <1>6, <2>1, <2>2 DEF OneRequestEach
<1>9. \A k \in Machine : Joined(k)'
  \* The request waited, so its machine has not joined.
  <2>1. host[m] = 0
    BY <1>3, <1>5 DEF Joined, m
  <2>2. QED  BY <1>2, <1>3, <1>4, <1>6, <2>1 DEF Joined
<1>10. members' \subseteq Member /\ DOMAIN requests' \subseteq RequestId
  BY <1>2, <1>3, <1>4, <1>6 DEF IInv, Shape
<1>11. QED
  BY <1>2, <1>6, <1>7, <1>8, <1>9, <1>10, RegistryStep

LEMMA RemoveInv ==
  ASSUME IInv, AdminRemoves
  PROVE  IInv'
<1>1. /\ UNCHANGED <<requests, host, conf, live, fetched>>
      /\ members' \subseteq members
  BY DEF AdminRemoves, R!Remove
<1>2. /\ members' \subseteq Member /\ requests' \in [DOMAIN requests' -> Request]
      /\ DOMAIN requests' \subseteq RequestId
      /\ MembersDiffer' /\ OneRequestEach'
  BY <1>1 DEF IInv, Shape, MembersDiffer, OneRequestEach
<1>3. \A m \in Machine : Joined(m)'
  BY <1>1 DEF IInv, Joined
<1>4. QED  BY <1>1, <1>2, <1>3, RegistryStep

----------------------------------------------------------------------------
\* Steps of one server.

(* A step of one server that leaves host numbers alone preserves IInv when *)
(* it preserves that server's tables.                                      *)
LEMMA ServerStep ==
  ASSUME IInv, NEW s \in Server, UNCHANGED <<reg, host>>,
         DOMAIN conf' = Server, DOMAIN live' = Server, DOMAIN fetched' = Server,
         \A t \in Server \ {s} : UNCHANGED <<conf[t], live[t], fetched[t]>>,
         Tables(s)'
  PROVE  IInv'
<1>1. Shape' /\ MembersDiffer' /\ OneRequestEach' /\ \A m \in Machine : Joined(m)'
  BY DEF IInv, Shape, MembersDiffer, OneRequestEach, Joined, reg
<1>2. host'[C] = 1
  BY DEF IInv
<1>3. ASSUME NEW t \in Server \ {s}
      PROVE  Tables(t)'
  BY DEF IInv, Tables, Sound
<1>4. QED  BY <1>1, <1>2, <1>3 DEF IInv

LEMMA JoinsInv ==
  ASSUME IInv, NEW m \in Machine, Joins(m)
  PROVE  IInv'
<1>1. PICK id \in DOMAIN requests :
        /\ requests[id].wgKey = m /\ requests[id].status = "approved"
        /\ host' = [host EXCEPT ![m] = requests[id].host]
  BY DEF Joins
<1> DEFINE h == requests[id].host
           table == {PeerOf(Coordinator)}
<1>2. /\ UNCHANGED <<members, requests, fetched>> /\ host[m] = 0
      /\ conf' = [conf EXCEPT ![m] = table]
      /\ live' = [live EXCEPT ![m] = table]
  BY DEF Joins, reg
<1>3. /\ Shape /\ MembersDiffer /\ OneRequestEach /\ host[C] = 1 /\ Tables(m)
      /\ m \in Server /\ m # C
  BY MeshConstants DEF IInv, Server
<1>4. /\ h \in 2..MaxHost /\ h # 1
      /\ \A i \in DOMAIN requests : requests[i].wgKey = m => i = id
      /\ \A k \in members : k.wgKey = m => k.host = h
  <2>1. h \in 2..MaxHost
    BY <1>1, <1>3 DEF OneRequestEach
  <2>2. h # 1
    BY <2>1, RegistryConstants
  <2>3. QED  BY <1>1, <1>3, <2>1, <2>2 DEF OneRequestEach
<1>5. /\ host'[m] = h /\ \A s \in Server \ {m} : host'[s] = host[s]
      /\ DOMAIN host' = Server
  BY <1>1, <1>3 DEF Shape
<1> HIDE DEF h
<1>6. \A p \in table : p.key = C /\ p.host = 1
  BY MeshConstants DEF PeerOf, C
<1>7. \A p, q \in table : p = q
  OBVIOUS
<1> HIDE DEF table
<1>8. /\ conf'[m] = table /\ live'[m] = table
      /\ DOMAIN conf' = Server /\ DOMAIN live' = Server
      /\ \A s \in Server \ {m} : conf'[s] = conf[s] /\ live'[s] = live[s]
  BY <1>2, <1>3, <1>6 DEF Shape
<1>9. Shape'
  BY <1>2, <1>3, <1>5, <1>8 DEF Shape
<1>10. MembersDiffer' /\ OneRequestEach'
  BY <1>2, <1>3 DEF MembersDiffer, OneRequestEach
<1>11. host'[C] = 1
  BY <1>3, <1>5 DEF Server
<1>12. ASSUME NEW k \in Machine
       PROVE  Joined(k)'
  <2>1. CASE k = m
    BY <1>1, <1>2, <1>4, <1>5, <2>1 DEF Joined
  <2>2. CASE k # m
    BY <1>2, <1>5, <2>2 DEF IInv, Joined, Server
  <2>3. QED  BY <2>1, <2>2
<1>13. ASSUME NEW s \in Server
       PROVE  Tables(s)'
  <2>1. CASE s = m
    <3>1. fetched'[m] = NoList
      BY <1>2, <1>3 DEF Tables
    <3>2. host'[m] # 0
      BY <1>4, <1>5, RegistryConstants
    <3>3. Sound(m, conf[m])' /\ Sound(m, live[m])'
      BY <1>3, <1>4, <1>5, <1>6, <1>7, <1>8 DEF Sound
    <3>4. QED  BY <2>1, <3>1, <3>2, <3>3 DEF Tables
  <2>2. CASE s # m
    BY <1>2, <1>5, <1>8, <2>2 DEF IInv, Tables, Sound
  <2>3. QED  BY <2>1, <2>2
<1>14. QED  BY <1>9, <1>10, <1>11, <1>12, <1>13 DEF IInv

(* The peers that a server makes of the member list are sound for it: its  *)
(* own entry is the one with its host number.                              *)
LEMMA PeersAreSound ==
  ASSUME IInv, NEW s \in Server, host[s] # 0
  PROVE  Sound(s, Peers(members, host[s]))
<1>1. /\ members \subseteq Member /\ MembersDiffer /\ host[C] = 1
      /\ \A m \in Machine : Joined(m)
  BY DEF IInv, Shape
<1>2. \A k \in members : k.wgKey = s => k.host = host[s]
  <2>1. CASE s = C
    BY <1>1, <2>1 DEF MembersDiffer
  <2>2. CASE s \in Machine
    BY <1>1, <2>2 DEF Joined
  <2>3. QED  BY <2>1, <2>2 DEF Server
<1>3. ASSUME NEW p \in Peers(members, host[s])
      PROVE  \E k \in members : k.host # host[s] /\ p.key = k.wgKey /\ p.host = k.host
                                /\ p = PeerOf(k)
  BY DEF Peers, PeerOf
<1>4. ASSUME NEW p \in Peers(members, host[s]), NEW q \in Peers(members, host[s]), p # q
      PROVE  p.host # q.host /\ p.key # q.key
  <2>1. PICK k \in members : p.key = k.wgKey /\ p.host = k.host /\ p = PeerOf(k)
    BY <1>3
  <2>2. PICK l \in members : q.key = l.wgKey /\ q.host = l.host /\ q = PeerOf(l)
    BY <1>3
  <2>3. k # l
    BY <1>4, <2>1, <2>2
  <2>4. QED  BY <1>1, <2>1, <2>2, <2>3 DEF MembersDiffer
<1>5. \A p \in Peers(members, host[s]) : p.key # s /\ p.host # host[s]
  BY <1>2, <1>3
<1>6. QED  BY <1>4, <1>5 DEF Sound

(* A sync that reads the list and reports an address: the member list      *)
(* keeps its hosts and keys.                                               *)
LEMMA ListsInv ==
  ASSUME IInv, NEW s \in Server, host[s] # 0,
         NEW k \in members, NEW lan \in LanIP, NEW sw \in BOOLEAN,
         R!Heartbeat(k, lan, sw),
         fetched' = [fetched EXCEPT ![s] = Peers(members, host[s])],
         UNCHANGED <<host, conf, live>>
  PROVE  IInv'
<1> DEFINE seen == Seen(k, lan, sw)
           table == Peers(members, host[s])
<1>1. UNCHANGED requests /\ members' = (members \ {k}) \cup {seen}
  BY RegistryCalls
<1>2. /\ Shape /\ MembersDiffer /\ OneRequestEach /\ \A m \in Machine : Joined(m)
      /\ k \in Member
  BY DEF IInv, Shape
<1>3. seen \in Member /\ seen.host = k.host /\ seen.wgKey = k.wgKey
  BY <1>2, SeenKeeps
<1>4. Sound(s, table)
  BY PeersAreSound
<1> HIDE DEF seen, table
<1>5. /\ fetched'[s] = table /\ DOMAIN fetched' = Server
      /\ \A t \in Server \ {s} : fetched'[t] = fetched[t]
  BY <1>2 DEF Shape, table
<1>6. \A l \in members' : \E m \in members : l.host = m.host /\ l.wgKey = m.wgKey
  BY <1>1, <1>3
<1>7. Shape'
  BY <1>1, <1>2, <1>3, <1>5 DEF Shape
<1>8. MembersDiffer'
  BY <1>1, <1>2, <1>3 DEF MembersDiffer
<1>9. OneRequestEach'
  BY <1>1, <1>2, <1>6 DEF OneRequestEach
<1>10. host'[C] = 1 /\ \A m \in Machine : Joined(m)'
  BY <1>1, <1>2, <1>6 DEF IInv, Joined
<1>11. ASSUME NEW t \in Server
       PROVE  Tables(t)'
  BY <1>4, <1>5 DEF IInv, Tables, Sound
<1>12. QED  BY <1>7, <1>8, <1>9, <1>10, <1>11 DEF IInv

LEMMA CoordinatorListsInv ==
  ASSUME IInv, CoordinatorLists
  PROVE  IInv'
<1>1. Coordinator.lanIP \in LanIP /\ Coordinator.switch \in BOOLEAN /\ C \in Server
  BY MeshConstants DEF Member, Server
<1>2. PICK k \in members, lan \in LanIP, sw \in BOOLEAN : R!Heartbeat(k, lan, sw)
  BY <1>1 DEF CoordinatorLists
<1>3. /\ host[C] # 0 /\ fetched' = [fetched EXCEPT ![C] = Peers(members, host[C])]
      /\ UNCHANGED <<host, conf, live>>
  BY DEF CoordinatorLists, IInv
<1> DEFINE c == C
<1>4. /\ c \in Server /\ host[c] # 0
      /\ fetched' = [fetched EXCEPT ![c] = Peers(members, host[c])]
  BY <1>1, <1>3
<1> HIDE DEF c
<1>5. UNCHANGED <<host, conf, live>>
  BY <1>3
<1>6. QED  BY <1>2, <1>4, <1>5, ListsInv

LEMMA NodeListsInv ==
  ASSUME IInv, NEW m \in Machine, NodeLists(m)
  PROVE  IInv'
<1>1. PICK k \in members : R!Heartbeat(k, Ask[m].lanIP, Ask[m].switch)
  BY DEF NodeLists
<1>2. Ask[m].lanIP \in LanIP /\ Ask[m].switch \in BOOLEAN /\ m \in Server
  BY MeshConstants DEF JoinRequest, Server
<1>3. /\ host[m] # 0 /\ fetched' = [fetched EXCEPT ![m] = Peers(members, host[m])]
      /\ UNCHANGED <<host, conf, live>>
  BY DEF NodeLists
<1>4. QED  BY <1>1, <1>2, <1>3, ListsInv

\* The steps that move a table on within one server, or lose it.
TableMoves(s) ==
  Writes(s) \/ Reloads(s) \/ SyncFails(s) \/ PowerCut(s) \/ Boot(s)

LEMMA TableMovesInv ==
  ASSUME IInv, NEW s \in Server, TableMoves(s)
  PROVE  IInv'
<1>1. Shape /\ Tables(s)
  BY DEF IInv
<1>2. UNCHANGED <<reg, host>>
  BY DEF TableMoves, Writes, Reloads, SyncFails, PowerCut, Boot
<1>3. /\ DOMAIN conf' = Server /\ DOMAIN live' = Server /\ DOMAIN fetched' = Server
      /\ \A t \in Server \ {s} : UNCHANGED <<conf[t], live[t], fetched[t]>>
  BY <1>1 DEF TableMoves, Writes, Reloads, SyncFails, PowerCut, Boot, Shape
<1>4. /\ conf'[s] \in {conf[s], fetched[s]} /\ live'[s] \in {conf[s], live[s], {}}
      /\ fetched'[s] \in {fetched[s], NoList}
      /\ conf'[s] = fetched[s] => fetched[s] # NoList \/ conf'[s] = conf[s]
  BY <1>1 DEF TableMoves, Writes, Reloads, SyncFails, PowerCut, Boot, Shape
<1>5. Tables(s)'
  BY <1>1, <1>2, <1>4 DEF Tables, Sound
<1>6. QED  BY <1>1, <1>2, <1>3, <1>5, ServerStep

----------------------------------------------------------------------------
\* The theorems.

LEMMA NextInv == IInv /\ [Next]_vars => IInv'
<1> SUFFICES ASSUME IInv, [Next]_vars PROVE IInv'
  OBVIOUS
<1>1. ASSUME NEW m \in Machine, Asks(m) \/ Joins(m) PROVE IInv'
  BY <1>1, AsksInv, JoinsInv
<1>2. ASSUME AdminApproves \/ AdminRemoves PROVE IInv'
  BY <1>2, ApproveInv, RemoveInv
<1>3. ASSUME NEW s \in Server, Sync(s) \/ SyncFails(s) \/ PowerCut(s) \/ Boot(s)
      PROVE  IInv'
  <2>1. CASE s = C /\ CoordinatorLists
    BY <2>1, CoordinatorListsInv
  <2>2. CASE s # C /\ NodeLists(s)
    BY <2>2, NodeListsInv DEF Server
  <2>3. CASE TableMoves(s)
    BY <2>3, TableMovesInv
  <2>4. QED  BY <1>3, <2>1, <2>2, <2>3 DEF Sync, TableMoves
<1>4. ASSUME UNCHANGED vars PROVE IInv'
  BY <1>4 DEF IInv, Shape, MembersDiffer, OneRequestEach, Joined, Tables, Sound, vars, reg
<1>5. QED  BY <1>1, <1>2, <1>3, <1>4 DEF Next

LEMMA InvHolds == Spec => []IInv
BY InitInv, NextInv, PTL DEF Spec

(* WireGuard never has to choose between two keys for an address, in no    *)
(* table of any server, written before or after members came and went.     *)
THEOREM AddressesHaveOneKey == Spec => []OneKeyPerAddress
<1>1. IInv => OneKeyPerAddress
  BY DEF IInv, Tables, Sound, OneKeyPerAddress
<1>2. QED  BY <1>1, InvHolds, PTL

(* Leaving out the entry with the own host number (Sync) leaves out the    *)
(* own key: no server routes to itself.                                    *)
THEOREM ServersAreNotTheirPeers == Spec => []NobodyIsOwnPeer
<1>1. IInv => NobodyIsOwnPeer
  BY DEF IInv, Tables, Sound, NobodyIsOwnPeer
<1>2. QED  BY <1>1, InvHolds, PTL

(* Asking, approving, removing and the heartbeats of the syncs are steps   *)
(* of Registry.                                                            *)
LEMMA StepUsesTheRegistry ==
  ASSUME IInv, [Next]_vars
  PROVE  [R!Next]_(R!vars)
<1>1. ASSUME NEW m \in Machine, Asks(m) PROVE R!Next
  BY <1>1 DEF Asks, Askers, R!Next
<1>2. ASSUME AdminApproves PROVE R!Next
  <2>1. PICK id \in PendingIds(requests), n \in 2..MaxHost : R!Approve(id, n)
    BY <1>2 DEF AdminApproves
  <2>2. id \in RequestId
    BY DEF IInv, Shape, PendingIds
  <2>3. QED  BY <2>1, <2>2 DEF R!Next
<1>3. ASSUME AdminRemoves PROVE R!Next
  BY <1>3 DEF AdminRemoves, R!Next
<1>4. ASSUME CoordinatorLists PROVE R!Next
  <2>1. Coordinator.lanIP \in LanIP \cup {NoLanIP} /\ Coordinator.switch \in BOOLEAN
    BY MeshConstants DEF Member
  <2>2. QED  BY <1>4, <2>1 DEF CoordinatorLists, R!Next
<1>5. ASSUME NEW m \in Machine, NodeLists(m) PROVE R!Next
  <2>1. Ask[m].lanIP \in LanIP \cup {NoLanIP} /\ Ask[m].switch \in BOOLEAN
    BY MeshConstants DEF JoinRequest
  <2>2. QED  BY <1>5, <2>1 DEF NodeLists, R!Next
<1>6. ASSUME NEW m \in Machine, Joins(m) PROVE UNCHANGED R!vars
  BY <1>6 DEF Joins, reg, R!vars
<1>7. ASSUME UNCHANGED vars PROVE UNCHANGED R!vars
  BY <1>7 DEF vars, reg, R!vars
<1>8. ASSUME NEW s \in Server, Sync(s) \/ SyncFails(s) \/ PowerCut(s) \/ Boot(s)
      PROVE  R!Next \/ UNCHANGED R!vars
  <2>1. CASE s = C /\ CoordinatorLists
    BY <1>4, <2>1
  <2>2. CASE s # C /\ NodeLists(s)
    BY <1>5, <2>2 DEF Server
  <2>3. CASE TableMoves(s)
    BY <2>3 DEF TableMoves, Writes, Reloads, SyncFails, PowerCut, Boot, reg, R!vars
  <2>4. QED  BY <1>8, <2>1, <2>2, <2>3 DEF Sync, TableMoves
<1>9. QED
  BY <1>1, <1>2, <1>3, <1>6, <1>7, <1>8 DEF Next

(* Asking, approving, removing and the heartbeats of the syncs are steps   *)
(* of Registry: its theorems hold of the member list the mesh is made of.  *)
THEOREM MeshUsesTheRegistry == Spec => R!Spec
<1>1. Init => R!Init
  BY DEF Init
<1>2. IInv /\ [Next]_vars => [R!Next]_(R!vars)
  BY StepUsesTheRegistry
<1>3. QED  BY <1>1, <1>2, InvHolds, PTL DEF Spec, R!Spec

(* Each step of the registry adds one member and one request at most.      *)
LEMMA RegistryStaysFinite ==
  ASSUME IsFiniteSet(members), IsFiniteSet(DOMAIN requests), [R!Next]_(R!vars)
  PROVE  IsFiniteSet(members') /\ IsFiniteSet(DOMAIN requests')
<1>1. \E x : members' \subseteq members \cup {x}
  BY DEF R!Next, R!vars, R!AddRequest, R!RequestStatus, R!Approve, R!Reject, R!Remove,
     R!Heartbeat, R!Tick
<1>2. DOMAIN R!Prune(requests) \subseteq DOMAIN requests
  BY DEF R!Prune, R!LiveIds
<1>3. \E x : DOMAIN requests' \subseteq DOMAIN requests \cup {x}
  <2>1. CASE \E r, id : R!AddRequest(r, id)
    BY <1>2, <2>1 DEF R!AddRequest, R!Extend
  <2>2. CASE \E id : R!RequestStatus(id)
    BY <1>2, <2>2 DEF R!RequestStatus
  <2>3. CASE \E id : (\E n : R!Approve(id, n)) \/ R!Reject(id)
    BY <2>3 DEF R!Approve, R!Settle, R!Reject
  <2>4. CASE R!Tick
    BY <2>4 DEF R!Tick, R!Grow
  <2>5. CASE UNCHANGED requests
    BY <2>5
  <2>6. QED
    BY <2>1, <2>2, <2>3, <2>4, <2>5 DEF R!Next, R!vars, R!Remove, R!Heartbeat
<1>4. QED  BY <1>1, <1>3, FS_AddElement, FS_Subset

\* What the inductive invariant leaves out of the types.
Tabled ==
  /\ host \in [Server -> 0..MaxHost]
  /\ conf \in [Server -> SUBSET Peer]
  /\ live \in [Server -> SUBSET Peer]
  /\ fetched \in [Server -> (SUBSET Peer) \cup {NoList}]
  /\ up \in [Server -> BOOLEAN]
  /\ faults \in 0..MaxFaults

Finite == IsFiniteSet(members) /\ IsFiniteSet(DOMAIN requests)

LEMMA PeersAreTyped ==
  ASSUME NEW ms, ms \subseteq Member, NEW h
  PROVE  Peers(ms, h) \subseteq Peer
BY DEF Peers, PeerOf, Peer, Member

LEMMA TabledKept == ASSUME IInv, Tabled, [Next]_vars PROVE Tabled'
<1> USE MeshConstants
<1>1. CASE UNCHANGED <<host, conf, live, fetched, up, faults>>
  BY <1>1 DEF Tabled
<1>2. ASSUME NEW m \in Machine, Joins(m) PROVE Tabled'
  <2>1. PICK id \in DOMAIN requests :
          requests[id].wgKey = m /\ host' = [host EXCEPT ![m] = requests[id].host]
    BY <1>2 DEF Joins
  <2>2. requests[id].host \in 0..MaxHost
    BY DEF IInv, Shape, Request
  <2>3. PeerOf(Coordinator) \in Peer
    BY RegistryConstants DEF PeerOf, Peer, Member
  <2>4. host' \in [Server -> 0..MaxHost]
    BY <2>1, <2>2 DEF Tabled
  <2>5. conf' \in [Server -> SUBSET Peer] /\ live' \in [Server -> SUBSET Peer]
    BY <1>2, <2>3 DEF Joins, Tabled
  <2>6. QED  BY <1>2, <2>4, <2>5 DEF Joins, Tabled
<1>3. ASSUME NEW s \in Server, CoordinatorLists \/ NodeLists(s) PROVE Tabled'
  <2>1. \A h : Peers(members, h) \subseteq Peer
    BY PeersAreTyped DEF IInv, Shape
  <2>2. fetched' \in [Server -> (SUBSET Peer) \cup {NoList}]
    BY <1>3, <2>1 DEF CoordinatorLists, NodeLists, Tabled
  <2>3. QED  BY <1>3, <2>2 DEF CoordinatorLists, NodeLists, Tabled
<1>4. ASSUME NEW s \in Server, Writes(s) \/ Reloads(s) PROVE Tabled'
  <2>1. fetched[s] # NoList => fetched[s] \subseteq Peer
    BY DEF Tabled
  <2>2. conf' \in [Server -> SUBSET Peer] /\ live' \in [Server -> SUBSET Peer]
    BY <1>4, <2>1 DEF Writes, Reloads, Tabled
  <2>3. fetched' \in [Server -> (SUBSET Peer) \cup {NoList}]
    BY <1>4 DEF Writes, Reloads, Tabled
  <2>4. QED  BY <1>4, <2>2, <2>3 DEF Writes, Reloads, Tabled
<1>5. ASSUME NEW s \in Server, SyncFails(s) \/ PowerCut(s) \/ Boot(s) PROVE Tabled'
  <2>1. faults' \in 0..MaxFaults
    BY <1>5 DEF SyncFails, PowerCut, Boot, Tabled
  <2>2. live' \in [Server -> SUBSET Peer] /\ up' \in [Server -> BOOLEAN]
    <3>1. /\ conf[s] \in SUBSET Peer
          /\ live \in [Server -> SUBSET Peer] /\ up \in [Server -> BOOLEAN]
      BY DEF Tabled
    <3>2. live' = live \/ live' = [live EXCEPT ![s] = {}]
                       \/ live' = [live EXCEPT ![s] = conf[s]]
      BY <1>5 DEF SyncFails, PowerCut, Boot
    <3>3. live' \in [Server -> SUBSET Peer]
      BY <3>1, <3>2
    <3>4. up' = up \/ up' = [up EXCEPT ![s] = FALSE] \/ up' = [up EXCEPT ![s] = TRUE]
      BY <1>5 DEF SyncFails, PowerCut, Boot
    <3>5. QED  BY <3>1, <3>3, <3>4
  <2>3. fetched' \in [Server -> (SUBSET Peer) \cup {NoList}]
    BY <1>5 DEF SyncFails, PowerCut, Boot, Tabled
  <2>4. QED  BY <1>5, <2>1, <2>2, <2>3 DEF SyncFails, PowerCut, Boot, Tabled
<1>6. QED
  BY <1>1, <1>2, <1>3, <1>4, <1>5
     DEF Next, Asks, AdminApproves, AdminRemoves, Sync, vars

(* Registry, tables and answers keep their shape, and what a sync fetched  *)
(* is a list of peers or nothing.                                          *)
THEOREM MeshTypeCorrect == Spec => []TypeOK
<1>1. Init => Tabled /\ Finite
  <2> SUFFICES ASSUME Init PROVE Tabled /\ Finite
    OBVIOUS
  <2>1. {0, 1} \subseteq 0..MaxHost
    BY RegistryConstants
  <2>2. Tabled
    BY <2>1, MeshConstants DEF Init, Tabled
  <2>3. members = {Coordinator} /\ DOMAIN requests = {}
    BY DEF Init, R!Init
  <2>4. QED  BY <2>2, <2>3, FS_Singleton, FS_EmptySet DEF Finite
<1>2. IInv /\ Tabled /\ Finite /\ [Next]_vars => Tabled' /\ Finite'
  BY TabledKept, StepUsesTheRegistry, RegistryStaysFinite DEF Finite
<1>3. IInv /\ Tabled /\ Finite => TypeOK
  <2> SUFFICES ASSUME IInv, Tabled, Finite PROVE TypeOK
    OBVIOUS
  <2>1. R!TypeOK
    BY DEF IInv, Shape, Finite, R!TypeOK, R!Member, Member, R!Request, Request,
       R!Status, Status, R!IsFiniteSet, IsFiniteSet
  <2>2. QED  BY <2>1 DEF Tabled, TypeOK
<1>4. QED  BY <1>1, <1>2, <1>3, InvHolds, PTL DEF Spec
=============================================================================
