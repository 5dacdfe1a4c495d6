--------------------------- MODULE RegistryProofs ---------------------------
(***************************************************************************)
(* Machine-checked proofs about the registry, for every value of the       *)
(* constants. Of its state (Registry): the inductive invariant IInv, the   *)
(* safety invariants it contains, and the action properties about          *)
(* decisions. Of its file (RegistryStore): it stays whole and in reach, no *)
(* update is lost, and Store.Update implements the atomic update of        *)
(* AtomicStore, which is what makes a call one step of Registry.           *)
(***************************************************************************)
EXTENDS Registry, RegistryStore, RegistryOpsProofs

----------------------------------------------------------------------------
\* Facts about the operators.

(* A table whose waiting requests all waited before has no more of them,   *)
(* and what held of their names and keys holds still.                      *)
LEMMA FewerPending ==
  ASSUME NEW ms, NEW qs, NEW ps,
         IsFiniteSet(DOMAIN qs),
         PendingIds(ps) \subseteq PendingIds(qs),
         \A i \in PendingIds(ps) :
           ps[i].name = qs[i].name /\ ps[i].wgKey = qs[i].wgKey,
         \A i \in PendingIds(qs) : Unclaimed(ms, qs[i]),
         \A i, j \in PendingIds(qs) : qs[i].name = qs[j].name => i = j,
         Cardinality(PendingIds(qs)) <= MaxPending
  PROVE  /\ \A i \in PendingIds(ps) : Unclaimed(ms, ps[i])
         /\ \A i, j \in PendingIds(ps) : ps[i].name = ps[j].name => i = j
         /\ Cardinality(PendingIds(ps)) <= MaxPending
<1>1. IsFiniteSet(PendingIds(qs))
  BY FS_Subset DEF PendingIds
<1>2. /\ Cardinality(PendingIds(ps)) <= Cardinality(PendingIds(qs))
      /\ IsFiniteSet(PendingIds(ps))
  BY <1>1, FS_Subset
<1>3. /\ Cardinality(PendingIds(ps)) \in Nat
      /\ Cardinality(PendingIds(qs)) \in Nat
  BY <1>1, <1>2, FS_CardinalityType
<1>4. Cardinality(PendingIds(ps)) <= MaxPending
  BY <1>2, <1>3, RegistryConstants
<1>5. \A i \in PendingIds(ps) : Unclaimed(ms, ps[i])
  BY DEF Unclaimed
<1>6. \A i, j \in PendingIds(ps) : ps[i].name = ps[j].name => i = j
  OBVIOUS
<1>7. QED  BY <1>4, <1>5, <1>6

(* The part of IInv that is about the waiting requests carries over to a   *)
(* step that leaves the members alone and starts no new wait.              *)
LEMMA WaitingCarriesOver ==
  ASSUME IInv,
         UNCHANGED members,
         PendingIds(requests') \subseteq PendingIds(requests),
         \A i \in PendingIds(requests') :
           /\ requests'[i].name = requests[i].name
           /\ requests'[i].wgKey = requests[i].wgKey
  PROVE  PendingUnclaimed' /\ PendingNamesDistinct' /\ PendingBounded'
<1>1. /\ IsFiniteSet(DOMAIN requests)
      /\ \A i \in PendingIds(requests) : Unclaimed(members, requests[i])
      /\ \A i, j \in PendingIds(requests) :
           requests[i].name = requests[j].name => i = j
      /\ Cardinality(PendingIds(requests)) <= MaxPending
  BY DEF IInv, TypeOK, PendingUnclaimed, PendingNamesDistinct, PendingBounded
<1>2. /\ \A i \in PendingIds(requests') : Unclaimed(members, requests'[i])
      /\ \A i, j \in PendingIds(requests') :
           requests'[i].name = requests'[j].name => i = j
      /\ Cardinality(PendingIds(requests')) <= MaxPending
  BY <1>1, FewerPending
<1>3. QED
  BY <1>2 DEF PendingUnclaimed, PendingNamesDistinct, PendingBounded

\* The parts of IInv that are about the members alone.
LEMMA SameMembers ==
  ASSUME IInv, UNCHANGED members
  PROVE  /\ members' \subseteq Member /\ IsFiniteSet(members')
         /\ MembersDistinct' /\ CoordinatorStays'
BY DEF IInv, TypeOK, MembersDistinct, CoordinatorStays

----------------------------------------------------------------------------
\* Every action preserves IInv.

LEMMA InitInv == Init => IInv
<1> SUFFICES ASSUME Init PROVE IInv
  OBVIOUS
<1>1. /\ DOMAIN requests = {}
      /\ members = {Coordinator}
      /\ requests \in [DOMAIN requests -> Request]
  BY DEF Init
<1>2. PendingIds(requests) = {}
  BY <1>1 DEF PendingIds
<1>3. TypeOK
  BY <1>1, AskersConstants, FS_EmptySet, FS_Singleton DEF TypeOK
<1>4. MembersDistinct /\ CoordinatorStays
  BY <1>1, AskersConstants DEF MembersDistinct, CoordinatorStays
<1>5. PendingUnclaimed /\ PendingNamesDistinct /\ HostIffApproved
  BY <1>1, <1>2 DEF PendingUnclaimed, PendingNamesDistinct, HostIffApproved
<1>6. PendingBounded
  BY <1>2, FS_EmptySet, RegistryConstants DEF PendingBounded
<1>7. QED
  BY <1>3, <1>4, <1>5, <1>6 DEF IInv

LEMMA AddRequestInv ==
  ASSUME IInv, NEW r \in Askers, NEW id \in RequestId, AddRequest(r, id)
  PROVE  IInv'
<1> DEFINE qs == Prune(requests)
<1>1. /\ DOMAIN qs \subseteq DOMAIN requests
      /\ IsFiniteSet(DOMAIN qs)
      /\ qs \in [DOMAIN qs -> Request]
      /\ \A i \in DOMAIN qs : qs[i] = requests[i]
      /\ PendingIds(qs) \subseteq PendingIds(requests)
  BY PruneKeeps DEF IInv, TypeOK
<1>2. UNCHANGED members
  BY DEF AddRequest
<1>3. CASE requests' = qs
  <2>1. TypeOK'
    BY <1>1, <1>2, <1>3, SameMembers DEF IInv, TypeOK
  <2>2. \A i \in PendingIds(requests') :
          /\ requests'[i].name = requests[i].name
          /\ requests'[i].wgKey = requests[i].wgKey
    BY <1>1, <1>3 DEF PendingIds
  <2>3. PendingUnclaimed' /\ PendingNamesDistinct' /\ PendingBounded'
    BY <1>1, <1>2, <1>3, <2>2, WaitingCarriesOver
  <2>4. HostIffApproved'
    BY <1>1, <1>3 DEF IInv, HostIffApproved
  <2>5. QED
    BY <1>2, <2>1, <2>3, <2>4, SameMembers DEF IInv
<1>4. CASE /\ MayAdd(members, qs, r)
           /\ id \in RequestId \ DOMAIN requests
           /\ requests' = Extend(qs, id, NewRequest(r))
  <2> DEFINE q == NewRequest(r)
  <2>1. /\ q \in Request /\ q.status = "pending" /\ q.host = 0
        /\ q.name = r.name /\ q.wgKey = r.wgKey
    BY AskersConstants, NewRequestWaits
  <2> HIDE DEF q
  <2>2. /\ DOMAIN requests' = DOMAIN qs \cup {id}
        /\ requests'[id] = q
        /\ \A i \in DOMAIN qs : i # id /\ requests'[i] = qs[i]
        /\ requests' = [i \in DOMAIN requests' |-> requests'[i]]
    BY <1>1, <1>4 DEF Extend, q
  <2> HIDE DEF qs
  <2>3. TypeOK'
    <3>1. IsFiniteSet(DOMAIN requests')
      BY <1>1, <2>2, FS_AddElement
    <3>2. DOMAIN requests' \subseteq RequestId
      BY <1>1, <2>2 DEF IInv, TypeOK
    <3>3. requests' \in [DOMAIN requests' -> Request]
      BY <1>1, <2>1, <2>2
    <3>4. QED
      BY <1>2, <3>1, <3>2, <3>3, SameMembers DEF TypeOK
  <2>4. PendingIds(requests') = PendingIds(qs) \cup {id}
    BY <2>1, <2>2 DEF PendingIds
  <2>5. /\ \A i \in PendingIds(qs) : Unclaimed(members, qs[i])
        /\ \A i, j \in PendingIds(qs) : qs[i].name = qs[j].name => i = j
    BY <1>1 DEF IInv, PendingUnclaimed, PendingNamesDistinct, PendingIds, Unclaimed
  <2>6. PendingUnclaimed'
    <3>1. Unclaimed(members, r)
      BY <1>4 DEF MayAdd
    <3>2. Unclaimed(members, q)
      BY <2>1, <3>1 DEF Unclaimed
    <3>3. \A i \in PendingIds(requests') : Unclaimed(members, requests'[i])
      BY <2>2, <2>4, <2>5, <3>2 DEF PendingIds
    <3>4. QED
      BY <1>2, <3>3 DEF PendingUnclaimed
  <2>7. PendingNamesDistinct'
    <3>1. \A i \in PendingIds(qs) : qs[i].name # q.name
      BY <1>4, <2>1 DEF MayAdd
    <3>2. PendingIds(qs) \subseteq DOMAIN qs
      BY DEF PendingIds
    <3>3. \A i, j \in PendingIds(requests') :
            requests'[i].name = requests'[j].name => i = j
      BY <2>2, <2>4, <2>5, <3>1, <3>2
    <3>4. QED
      BY <3>3 DEF PendingNamesDistinct
  <2>8. PendingBounded'
    <3>1. IsFiniteSet(PendingIds(qs))
      BY <1>1, FS_Subset DEF PendingIds
    <3>2. Cardinality(PendingIds(qs)) \in Nat
      BY <3>1, FS_CardinalityType
    <3>3. Cardinality(PendingIds(requests')) <= Cardinality(PendingIds(qs)) + 1
      <4>1. Cardinality(PendingIds(qs) \cup {id}) =
              IF id \in PendingIds(qs) THEN Cardinality(PendingIds(qs))
                                       ELSE Cardinality(PendingIds(qs)) + 1
        BY <3>1, FS_AddElement
      <4>2. QED  BY <2>4, <3>2, <4>1
    <3>4. Cardinality(PendingIds(qs)) < MaxPending
      BY <1>4 DEF MayAdd
    <3>5. Cardinality(PendingIds(requests')) \in Nat
      BY <2>4, <3>1, FS_AddElement, FS_CardinalityType
    <3>6. QED
      BY <3>2, <3>3, <3>4, <3>5, RegistryConstants DEF PendingBounded
  <2>9. HostIffApproved'
    <3>1. \A i \in DOMAIN qs :
            IF qs[i].status = "approved"
              THEN qs[i].host \in 2..MaxHost ELSE qs[i].host = 0
      BY <1>1 DEF IInv, HostIffApproved
    <3>2. QED
      BY <2>1, <2>2, <3>1 DEF HostIffApproved
  <2>10. QED
    BY <1>2, <2>3, <2>6, <2>7, <2>8, <2>9, SameMembers DEF IInv
<1>5. QED
  BY <1>3, <1>4 DEF AddRequest

(* A waiting request never has the key of a member, so RequestStatus only  *)
(* reads: it never rewrites the request it reports.                        *)
LEMMA StatusOnlyReads ==
  ASSUME IInv, NEW id \in RequestId, RequestStatus(id)
  PROVE  requests' = Prune(requests) /\ UNCHANGED members
<1>1. /\ id \in DOMAIN Prune(requests)
      /\ Prune(requests)[id] = requests[id]
      /\ requests[id].status = "pending" => Unclaimed(members, requests[id])
  BY DEF RequestStatus, Prune, LiveIds, IInv, PendingUnclaimed, PendingIds
<1>2. Reported(members, Prune(requests)[id]) = Prune(requests)[id]
  BY <1>1 DEF Reported, Unclaimed
<1>3. Prune(requests) = [Prune(requests) EXCEPT ![id] = Prune(requests)[id]]
  BY <1>1 DEF Prune
<1>4. QED
  BY <1>2, <1>3 DEF RequestStatus

LEMMA RequestStatusInv ==
  ASSUME IInv, NEW id \in RequestId, RequestStatus(id)
  PROVE  IInv'
<1> DEFINE qs == Prune(requests)
<1>1. requests' = qs /\ UNCHANGED members
  BY StatusOnlyReads
<1>2. /\ DOMAIN qs \subseteq DOMAIN requests
      /\ IsFiniteSet(DOMAIN qs)
      /\ qs \in [DOMAIN qs -> Request]
      /\ \A i \in DOMAIN qs : qs[i] = requests[i]
      /\ PendingIds(qs) \subseteq PendingIds(requests)
  BY PruneKeeps DEF IInv, TypeOK
<1>3. TypeOK'
  BY <1>1, <1>2, SameMembers DEF IInv, TypeOK
<1>4. \A i \in PendingIds(requests') :
        /\ requests'[i].name = requests[i].name
        /\ requests'[i].wgKey = requests[i].wgKey
  BY <1>1, <1>2 DEF PendingIds
<1>5. PendingUnclaimed' /\ PendingNamesDistinct' /\ PendingBounded'
  BY <1>1, <1>2, <1>4, WaitingCarriesOver
<1>6. HostIffApproved'
  BY <1>1, <1>2 DEF IInv, HostIffApproved
<1>7. QED
  BY <1>1, <1>3, <1>5, <1>6, SameMembers DEF IInv

LEMMA ApproveInv ==
  ASSUME IInv, NEW id \in RequestId, NEW n \in 2..MaxHost, Approve(id, n)
  PROVE  IInv'
<1> DEFINE new == NewMember(requests[id], n)
<1>1. /\ id \in PendingIds(requests) /\ id \in DOMAIN requests
      /\ requests \in [DOMAIN requests -> Request]
      /\ requests' = Settle(requests, id, n)
      /\ members' = members \cup {new}
      /\ n \in FreeHosts(members)
  BY DEF Approve, IsNextHost, PendingIds, IInv, TypeOK
<1>2. /\ DOMAIN requests' = DOMAIN requests
      /\ requests' \in [DOMAIN requests -> Request]
      /\ \A i \in DOMAIN requests :
              /\ requests'[i].name = requests[i].name
              /\ requests'[i].wgKey = requests[i].wgKey
              /\ requests[i].status # "pending" => requests'[i] = requests[i]
              /\ requests'[i].status = "pending" =>
                   /\ requests[i].status = "pending"
                   /\ requests[i].wgKey # requests[id].wgKey
                   /\ requests[i].name # requests[id].name
              /\ requests'[i].status = "approved" /\ requests[i].status = "pending" =>
                   /\ requests'[i].host = n
                   /\ requests[i].wgKey = requests[id].wgKey
              /\ requests'[i].status = "rejected" =>
                   requests'[i].host = requests[i].host
  BY <1>1, SettleFacts
<1>3. /\ new \in Member /\ new.host = n
      /\ new.name = requests[id].name /\ new.wgKey = requests[id].wgKey
  <2>1. requests[id] \in Request
    BY <1>1
  <2>2. QED
    BY <2>1, NewMemberOfRequest
<1> HIDE DEF new
<1>4. Unclaimed(members, requests[id])
  BY <1>1 DEF IInv, PendingUnclaimed
<1>5. TypeOK'
  BY <1>1, <1>2, <1>3, FS_AddElement DEF IInv, TypeOK
<1>6. MembersDistinct'
  <2>1. \A m \in members :
          m.host # n /\ m.name # requests[id].name /\ m.wgKey # requests[id].wgKey
    BY <1>1, <1>4 DEF FreeHosts, Unclaimed
  <2>2. QED
    BY <1>1, <1>3, <2>1 DEF IInv, MembersDistinct
<1>7. CoordinatorStays'
  BY <1>1 DEF IInv, CoordinatorStays
<1>8. /\ PendingIds(requests') \subseteq PendingIds(requests)
      /\ \A i \in PendingIds(requests') :
           /\ requests'[i].name = requests[i].name
           /\ requests'[i].wgKey = requests[i].wgKey
           /\ requests[i].wgKey # requests[id].wgKey
           /\ requests[i].name # requests[id].name
  BY <1>2 DEF PendingIds
<1>9. /\ \A i \in PendingIds(requests') : Unclaimed(members, requests'[i])
      /\ \A i, j \in PendingIds(requests') :
           requests'[i].name = requests'[j].name => i = j
      /\ Cardinality(PendingIds(requests')) <= MaxPending
  BY <1>8, FewerPending
  DEF IInv, TypeOK, PendingUnclaimed, PendingNamesDistinct, PendingBounded
<1>10. PendingUnclaimed'
  <2>1. \A i \in PendingIds(requests') : Unclaimed(members', requests'[i])
    BY <1>1, <1>3, <1>8, <1>9 DEF Unclaimed
  <2>2. QED  BY <2>1 DEF PendingUnclaimed
<1>11. PendingNamesDistinct' /\ PendingBounded'
  BY <1>9 DEF PendingNamesDistinct, PendingBounded
<1>12. HostIffApproved'
  <2> SUFFICES ASSUME NEW i \in DOMAIN requests
               PROVE  IF requests'[i].status = "approved"
                        THEN requests'[i].host \in 2..MaxHost
                        ELSE requests'[i].host = 0
    BY <1>2 DEF HostIffApproved
  <2>1. IF requests[i].status = "approved"
          THEN requests[i].host \in 2..MaxHost ELSE requests[i].host = 0
    BY DEF IInv, HostIffApproved
  <2>2. CASE requests[i].status # "pending"
    BY <1>2, <2>1, <2>2
  <2>3. CASE requests[i].status = "pending"
    <3>1. requests[i].host = 0
      BY <2>1, <2>3
    <3>2. CASE requests'[i].status = "approved"
      BY <1>2, <2>3, <3>2
    <3>3. CASE requests'[i].status = "rejected"
      BY <1>2, <3>1, <3>3
    <3>4. CASE requests'[i].status = "pending"
      <4>1. /\ id \in DOMAIN requests /\ i # id
            /\ requests[i].wgKey # requests[id].wgKey
            /\ requests[i].name # requests[id].name
        BY <1>1, <1>2, <3>4
      <4>2. requests'[i] = requests[i]
        BY <1>1, <4>1 DEF Settle
      <4>3. QED  BY <3>1, <3>4, <4>2
    <3>5. QED
      BY <1>2, <3>2, <3>3, <3>4 DEF Request, Status
  <2>4. QED  BY <2>2, <2>3
<1>13. QED
  BY <1>5, <1>6, <1>7, <1>10, <1>11, <1>12 DEF IInv

LEMMA RejectInv ==
  ASSUME IInv, NEW id \in RequestId, Reject(id)
  PROVE  IInv'
<1>1. /\ UNCHANGED members
      /\ id \in DOMAIN requests /\ requests[id].status = "pending"
      /\ requests \in [DOMAIN requests -> Request]
      /\ requests' = [requests EXCEPT ![id].status = "rejected"]
  BY DEF Reject, PendingIds, IInv, TypeOK
<1>2. /\ DOMAIN requests' = DOMAIN requests
      /\ requests' \in [DOMAIN requests -> Request]
      /\ \A i \in DOMAIN requests : i # id => requests'[i] = requests[i]
      /\ requests'[id].status = "rejected"
      /\ requests'[id].host = requests[id].host
  BY <1>1 DEF Request, Status
<1>3. TypeOK'
  BY <1>1, <1>2, SameMembers DEF IInv, TypeOK
<1>4. PendingUnclaimed' /\ PendingNamesDistinct' /\ PendingBounded'
  <2>1. /\ PendingIds(requests') \subseteq PendingIds(requests)
        /\ \A i \in PendingIds(requests') :
             /\ requests'[i].name = requests[i].name
             /\ requests'[i].wgKey = requests[i].wgKey
    BY <1>2 DEF PendingIds
  <2>2. QED  BY <1>1, <2>1, WaitingCarriesOver
<1>5. HostIffApproved'
  BY <1>1, <1>2 DEF IInv, HostIffApproved
<1>6. QED
  BY <1>1, <1>3, <1>4, <1>5, SameMembers DEF IInv

LEMMA RemoveInv ==
  ASSUME IInv, NEW m \in members, Remove(m)
  PROVE  IInv'
<1>1. /\ m.host # 1 /\ members' = members \ {m} /\ UNCHANGED requests
  BY DEF Remove
<1>2. TypeOK'
  BY <1>1, FS_RemoveElement DEF IInv, TypeOK
<1>3. MembersDistinct' /\ CoordinatorStays'
  BY <1>1 DEF IInv, MembersDistinct, CoordinatorStays
<1>4. PendingUnclaimed'
  BY <1>1 DEF IInv, PendingUnclaimed, Unclaimed
<1>5. PendingNamesDistinct' /\ PendingBounded' /\ HostIffApproved'
  BY <1>1 DEF IInv, PendingNamesDistinct, PendingBounded, HostIffApproved
<1>6. QED
  BY <1>2, <1>3, <1>4, <1>5 DEF IInv

LEMMA HeartbeatInv ==
  ASSUME IInv, NEW m \in members, NEW lan \in LanIP \cup {NoLanIP},
         NEW sw \in BOOLEAN, Heartbeat(m, lan, sw)
  PROVE  IInv'
<1> DEFINE s == Seen(m, lan, sw)
<1>1. members' = (members \ {m}) \cup {s} /\ UNCHANGED requests
  BY DEF Heartbeat
<1>2. /\ s \in Member
      /\ s.host = m.host /\ s.name = m.name /\ s.wgKey = m.wgKey
  <2>1. m \in Member
    BY DEF IInv, TypeOK
  <2>2. QED  BY <2>1, SeenKeeps
<1> HIDE DEF s
<1>3. TypeOK'
  BY <1>1, <1>2, FS_RemoveElement, FS_AddElement DEF IInv, TypeOK
<1>4. MembersDistinct' /\ CoordinatorStays'
  BY <1>1, <1>2 DEF IInv, MembersDistinct, CoordinatorStays
<1>5. PendingUnclaimed'
  BY <1>1, <1>2 DEF IInv, PendingUnclaimed, Unclaimed
<1>6. PendingNamesDistinct' /\ PendingBounded' /\ HostIffApproved'
  BY <1>1 DEF IInv, PendingNamesDistinct, PendingBounded, HostIffApproved
<1>7. QED
  BY <1>3, <1>4, <1>5, <1>6 DEF IInv

LEMMA TickInv ==
  ASSUME IInv, Tick
  PROVE  IInv'
<1>1. /\ UNCHANGED members /\ requests' = Grow(requests)
      /\ requests \in [DOMAIN requests -> Request]
  BY DEF Tick, IInv, TypeOK
<1>2. \A i \in DOMAIN requests :
        /\ requests'[i] \in Request
        /\ requests'[i].name = requests[i].name
        /\ requests'[i].wgKey = requests[i].wgKey
        /\ requests'[i].status = requests[i].status
        /\ requests'[i].host = requests[i].host
  BY <1>1, GrowKeeps
<1>3. /\ DOMAIN requests' = DOMAIN requests
      /\ requests' \in [DOMAIN requests -> Request]
  BY <1>1, <1>2 DEF Grow
<1>4. TypeOK'
  BY <1>1, <1>3, SameMembers DEF IInv, TypeOK
<1>5. PendingUnclaimed' /\ PendingNamesDistinct' /\ PendingBounded'
  <2>1. /\ PendingIds(requests') \subseteq PendingIds(requests)
        /\ \A i \in PendingIds(requests') :
             /\ requests'[i].name = requests[i].name
             /\ requests'[i].wgKey = requests[i].wgKey
    BY <1>2, <1>3 DEF PendingIds
  <2>2. QED  BY <1>1, <2>1, WaitingCarriesOver
<1>6. HostIffApproved'
  BY <1>2, <1>3 DEF IInv, HostIffApproved
<1>7. QED
  BY <1>1, <1>4, <1>5, <1>6, SameMembers DEF IInv

LEMMA NextInv ==
  ASSUME IInv, [Next]_vars
  PROVE  IInv'
<1>1. ASSUME NEW r \in Askers, NEW id \in RequestId, AddRequest(r, id)
      PROVE  IInv'
  BY <1>1, AddRequestInv
<1>2. ASSUME NEW id \in RequestId, RequestStatus(id)
      PROVE  IInv'
  BY <1>2, RequestStatusInv
<1>3. ASSUME NEW id \in RequestId, NEW n \in 2..MaxHost, Approve(id, n)
      PROVE  IInv'
  BY <1>3, ApproveInv
<1>4. ASSUME NEW id \in RequestId, Reject(id)
      PROVE  IInv'
  BY <1>4, RejectInv
<1>5. ASSUME NEW m \in members, Remove(m)
      PROVE  IInv'
  BY <1>5, RemoveInv
<1>6. ASSUME NEW m \in members, NEW lan \in LanIP \cup {NoLanIP},
             NEW sw \in BOOLEAN, Heartbeat(m, lan, sw)
      PROVE  IInv'
  BY <1>6, HeartbeatInv
<1>7. CASE Tick
  BY <1>7, TickInv
<1>8. CASE UNCHANGED vars
  BY <1>8 DEF vars, IInv, TypeOK, MembersDistinct, CoordinatorStays,
              PendingUnclaimed, PendingNamesDistinct, PendingBounded, HostIffApproved
<1>9. QED
  BY <1>1, <1>2, <1>3, <1>4, <1>5, <1>6, <1>7, <1>8 DEF Next

----------------------------------------------------------------------------
\* The theorems.

(* IInv is an inductive invariant of the registry.                         *)
THEOREM RegistryInvariant == Spec => []IInv
<1>1. Init => IInv
  BY InitInv
<1>2. IInv /\ [Next]_vars => IInv'
  BY NextInv
<1>3. QED
  BY <1>1, <1>2, PTL DEF Spec

(* The member list and the request table keep their shape.                 *)
THEOREM TypeCorrect == Spec => []TypeOK
<1>1. IInv => TypeOK
  BY DEF IInv
<1>2. QED
  BY <1>1, RegistryInvariant, PTL

(* No two members share a host number, a name or a WireGuard key, for any  *)
(* number of machines and any order of calls.                              *)
THEOREM MembersStayDistinct == Spec => []MembersDistinct
<1>1. IInv => MembersDistinct
  BY DEF IInv
<1>2. QED
  BY <1>1, RegistryInvariant, PTL

(* The coordinator is never removed, renamed or given another key.         *)
THEOREM CoordinatorIsKept == Spec => []CoordinatorStays
<1>1. IInv => CoordinatorStays
  BY DEF IInv
<1>2. QED
  BY <1>1, RegistryInvariant, PTL

(* A waiting request never has a member's name or key.                     *)
THEOREM PendingStaysUnclaimed == Spec => []PendingUnclaimed
<1>1. IInv => PendingUnclaimed
  BY DEF IInv
<1>2. QED
  BY <1>1, RegistryInvariant, PTL

(* Waiting requests have different names, so the admin can tell them apart *)
(* and approving one never rejects another waiting machine.                *)
THEOREM WaitingNamesDiffer == Spec => []PendingNamesDistinct
<1>1. IInv => PendingNamesDistinct
  BY DEF IInv
<1>2. QED
  BY <1>1, RegistryInvariant, PTL

(* Exactly the approved requests carry a host number, of a node.           *)
THEOREM HostsOfApproved == Spec => []HostIffApproved
<1>1. IInv => HostIffApproved
  BY DEF IInv
<1>2. QED
  BY <1>1, RegistryInvariant, PTL

(* The queue of waiting requests never grows past its limit.               *)
THEOREM PendingStaysBounded == Spec => []PendingBounded
<1>1. IInv => PendingBounded
  BY DEF IInv
<1>2. QED
  BY <1>1, RegistryInvariant, PTL

(* Every step of the registry leaves decided requests as they are, and     *)
(* a request it approves reports the host number of the member with its    *)
(* key.                                                                    *)
LEMMA StepDecides ==
  ASSUME IInv, [Next]_vars
  PROVE  /\ \A i \in DOMAIN requests \ PendingIds(requests) :
              i \in DOMAIN requests' =>
                /\ requests'[i].status = requests[i].status
                /\ requests'[i].host = requests[i].host
         /\ \A i \in PendingIds(requests) :
              (i \in DOMAIN requests' /\ requests'[i].status = "approved") =>
                \E m \in members' :
                  m.wgKey = requests[i].wgKey /\ m.host = requests'[i].host
<1> DEFINE
      Kept == \A i \in DOMAIN requests :
        i \in DOMAIN requests' =>
          /\ requests'[i].status = requests[i].status
          /\ requests'[i].host = requests[i].host
      Stand == \A i \in DOMAIN requests \ PendingIds(requests) :
        i \in DOMAIN requests' =>
          /\ requests'[i].status = requests[i].status
          /\ requests'[i].host = requests[i].host
      Named == \A i \in PendingIds(requests) :
        (i \in DOMAIN requests' /\ requests'[i].status = "approved") =>
          \E m \in members' :
            m.wgKey = requests[i].wgKey /\ m.host = requests'[i].host
<1>1. ASSUME Kept
      PROVE  Stand /\ Named
  BY <1>1 DEF PendingIds
<1>2. ASSUME NEW r \in Askers, NEW id \in RequestId, AddRequest(r, id)
      PROVE  Kept
  <2>1. CASE requests' = Prune(requests)
    BY <2>1 DEF Prune
  <2>2. CASE /\ id \notin DOMAIN requests
             /\ requests' = Extend(Prune(requests), id, NewRequest(r))
    <3>1. \A i \in DOMAIN requests :
            i \in DOMAIN requests' => requests'[i] = requests[i]
      BY <2>2 DEF Extend, Prune
    <3>2. QED  BY <3>1
  <2>3. QED  BY <1>2, <2>1, <2>2 DEF AddRequest
<1>3. ASSUME NEW id \in RequestId, RequestStatus(id)
      PROVE  Kept
  <2>1. requests' = Prune(requests)
    BY <1>3, StatusOnlyReads
  <2>2. QED  BY <2>1 DEF Prune
<1>4. ASSUME NEW id \in RequestId, NEW n \in 2..MaxHost, Approve(id, n)
      PROVE  Stand /\ Named
  <2>1. /\ id \in PendingIds(requests)
        /\ requests \in [DOMAIN requests -> Request]
        /\ requests' = Settle(requests, id, n)
        /\ NewMember(requests[id], n) \in members'
    BY <1>4 DEF Approve, IInv, TypeOK
  <2>2. \A i \in DOMAIN requests :
          /\ requests[i].status # "pending" => requests'[i] = requests[i]
          /\ requests'[i].status = "approved" /\ requests[i].status = "pending" =>
               /\ requests'[i].host = n
               /\ requests[i].wgKey = requests[id].wgKey
    BY <2>1, SettleFacts
  <2>3. /\ NewMember(requests[id], n).wgKey = requests[id].wgKey
        /\ NewMember(requests[id], n).host = n
    BY DEF NewMember
  <2>4. Stand
    BY <2>2 DEF PendingIds
  <2>5. Named
    BY <2>1, <2>2, <2>3 DEF PendingIds
  <2>6. QED  BY <2>4, <2>5
<1>5. ASSUME NEW id \in RequestId, Reject(id)
      PROVE  Stand /\ Named
  <2>1. /\ id \in PendingIds(requests)
        /\ \A i \in DOMAIN requests : i # id => requests'[i] = requests[i]
        /\ requests'[id].status = "rejected"
    BY <1>5 DEF Reject, PendingIds, IInv, TypeOK, Request
  <2>2. Stand
    BY <2>1 DEF PendingIds
  <2>3. Named
    BY <2>1 DEF PendingIds
  <2>4. QED  BY <2>2, <2>3
<1>6. ASSUME UNCHANGED requests
      PROVE  Kept
  BY <1>6
<1>7. ASSUME Tick
      PROVE  Kept
  BY <1>7, GrowKeeps DEF Tick, IInv, TypeOK
<1> HIDE DEF Kept, Stand, Named
<1>8. Stand /\ Named
  BY <1>1, <1>2, <1>3, <1>4, <1>5, <1>6, <1>7 DEF Next, Remove, Heartbeat, vars
<1>9. QED
  BY <1>8 DEF Stand, Named

(* Once approved or rejected, a request keeps its status and host number   *)
(* for as long as the registry keeps it.                                   *)
THEOREM DecisionsAreFinal == Spec => DecisionsStand
<1>1. IInv /\ [Next]_vars =>
        [\A i \in DOMAIN requests \ PendingIds(requests) :
           i \in DOMAIN requests' =>
             /\ requests'[i].status = requests[i].status
             /\ requests'[i].host = requests[i].host]_vars
  BY StepDecides
<1>2. QED
  BY <1>1, RegistryInvariant, PTL DEF Spec, DecisionsStand

(* The address a machine is told when it is approved is the address of the *)
(* member with its key.                                                    *)
THEOREM ApprovalsNameTheirMember == Spec => ApprovalNamesItsMember
<1>1. IInv /\ [Next]_vars =>
        [\A i \in PendingIds(requests) :
           (i \in DOMAIN requests' /\ requests'[i].status = "approved") =>
             \E m \in members' :
               m.wgKey = requests[i].wgKey /\ m.host = requests'[i].host]_vars
  BY StepDecides
<1>2. QED
  BY <1>1, RegistryInvariant, PTL DEF Spec, ApprovalNamesItsMember

----------------------------------------------------------------------------
(* The store, for any number of processes, root or not, and any number of  *)
(* crashes. That a rename keeps the file whole rests on what the temporary *)
(* file holds, and that rests on the lock, held from the load to the       *)
(* rename: StoreIInv says so.                                              *)

LEMMA StoreInitInv == StoreInit => StoreIInv
  BY StoreConstants
     DEF StoreInit, StoreIInv, StoreTypeOK, FileUsable, LockHeld, CopyIsCurrent, TmpIsCopy,
         Full, Torn, Owner, PC, Holding, Calling

(* A process that moves between two states in which it holds no lock, or   *)
(* that gives the lock up, and leaves files and copies alone.              *)
LEMMA MovesOnly ==
  ASSUME StoreIInv, NEW p \in Proc, NEW to \in Calling \cup {"idle", "done", "failed"},
         pc' = [pc EXCEPT ![p] = to], lock' \in {lock, NoProc},
         lock' = NoProc => lock \in {p, NoProc},
         crashes' \in 0..MaxCrashes, lockOwner' \in Owner \cup {"none"},
         UNCHANGED <<files, copy>>,
         reading' \subseteq Reader, \A q \in Proc \ {p} : q \in reading' <=> q \in reading
  PROVE  StoreIInv'
<1> USE StoreConstants
<1>1. StoreTypeOK'
  BY DEF StoreIInv, StoreTypeOK, files, PC
<1>2. FileUsable'
  BY DEF StoreIInv, FileUsable, files
<1>3. LockHeld'
  <2> SUFFICES ASSUME NEW q \in Proc, pc'[q] \in Holding PROVE lock' = q
    BY DEF LockHeld
  <2>1. q # p /\ pc[q] = pc'[q]
    BY DEF StoreIInv, StoreTypeOK, Holding, Calling
  <2>2. lock = q
    BY <2>1 DEF StoreIInv, LockHeld
  <2> QED  BY <2>1, <2>2
<1>4. CopyIsCurrent' /\ TmpIsCopy'
  <2>1. \A q \in Proc : pc'[q] \in Holding => q # p /\ pc[q] = pc'[q]
    BY DEF StoreIInv, StoreTypeOK, Holding, Calling
  <2>2. \A q \in Proc \ {p} : With(q, file.data)' = With(q, file.data)
    BY DEF With, files
  <2> QED  BY <2>1, <2>2 DEF StoreIInv, CopyIsCurrent, TmpIsCopy, files, Holding
<1> QED  BY <1>1, <1>2, <1>3, <1>4 DEF StoreIInv

(* Nobody but the holder of the lock is between lock and unlock.           *)
LEMMA OthersWait ==
  ASSUME StoreIInv, NEW p \in Proc, pc[p] \in Holding, NEW q \in Proc, q # p
  PROVE  pc[q] \notin Holding
  BY DEF StoreIInv, LockHeld

(* A holder's step to another state of a holder, lock kept.                *)
LEMMA HolderSteps ==
  ASSUME StoreIInv, NEW p \in Proc, pc[p] \in Holding, NEW to \in Holding,
         pc' = [pc EXCEPT ![p] = to], UNCHANGED <<lock, reading, crashes>>,
         StoreTypeOK', FileUsable',
         to = "loaded" => copy'[p] = file'.data,
         to \in {"applied", "truncated", "written", "owned"} =>
           copy'[p] = With(p, file'.data),
         to \in {"written", "owned"} => tmp' = Full(copy'[p]),
         to \in {"truncated", "written", "owned"} /\ p \notin Root =>
           tmpOwner' = "registry",
         to = "owned" => tmpOwner' = "registry"
  PROVE  StoreIInv'
<1>1. \A q \in Proc : pc'[q] = IF q = p THEN to ELSE pc[q]
  BY DEF StoreIInv, StoreTypeOK
<1>2. \A q \in Proc : q # p => pc'[q] \notin Holding
  BY <1>1, OthersWait
<1>3. LockHeld'
  BY <1>1, <1>2 DEF StoreIInv, LockHeld
<1>4. CopyIsCurrent'
  BY <1>1, <1>2 DEF CopyIsCurrent, Holding, With
<1>5. TmpIsCopy'
  BY <1>1, <1>2 DEF TmpIsCopy, Holding
<1> QED  BY <1>3, <1>4, <1>5 DEF StoreIInv

LEMMA StepInv ==
  ASSUME StoreIInv, NEW p \in Proc, Step(p)
  PROVE  StoreIInv'
<1> USE StoreConstants
<1>t. /\ StoreTypeOK /\ FileUsable /\ pc \in [Proc -> PC] /\ crashes \in 0..MaxCrashes
      /\ lockOwner \in Owner \cup {"none"}
  BY DEF StoreIInv, StoreTypeOK
<1>r. reading \subseteq Reader
  BY DEF StoreIInv, StoreTypeOK
<1>1. CASE Begin(p)
  <2>1. reading' \subseteq Reader /\ \A q \in Proc \ {p} : q \in reading' <=> q \in reading
    BY <1>1, <1>r DEF Begin
  <2> QED  BY <1>1, <1>t, <2>1, MovesOnly DEF Begin, Goto, Calling
<1>a. CASE Open(p)
  <2>1. lockOwner' \in Owner \cup {"none"}
    BY <1>a, <1>t DEF Open, Uid, Owner
  <2>2. PICK to \in {"opened", "failed"} : pc' = [pc EXCEPT ![p] = to]
    BY <1>a DEF Open, Goto
  <2> QED  BY <1>a, <1>t, <1>r, <2>1, <2>2, MovesOnly DEF Open, Calling
<1>b. CASE FixLock(p)
  <2>1. lockOwner' \in Owner \cup {"none"}
    BY <1>b, <1>t DEF FixLock, Owner
  <2> QED  BY <1>b, <1>t, <1>r, <2>1, MovesOnly DEF FixLock, Goto, Calling
<1>2. CASE Acquire(p)
  <2>1. \A q \in Proc : pc'[q] = IF q = p THEN "locked" ELSE pc[q]
    BY <1>2, <1>t DEF Acquire, Goto
  <2>2. \A q \in Proc : pc[q] \notin Holding
    BY <1>2 DEF Acquire, StoreIInv, LockHeld
  <2>3. StoreTypeOK'
    BY <1>2, <1>t DEF Acquire, Goto, StoreTypeOK, PC, Holding, files
  <2>4. FileUsable' /\ LockHeld'
    BY <1>2, <1>t, <2>1, <2>2 DEF Acquire, FileUsable, LockHeld, files
  <2>5. CopyIsCurrent' /\ TmpIsCopy'
    BY <2>1, <2>2 DEF CopyIsCurrent, TmpIsCopy, Holding
  <2> QED  BY <2>3, <2>4, <2>5 DEF StoreIInv
<1>3. CASE Load(p)
  <2>1. pc[p] = "locked" /\ UNCHANGED <<files, lockOwner, lock, reading, crashes>>
    BY <1>3 DEF Load, Goto
  <2>2. file.complete /\ MayOpen(p, fileOwner)
    BY <1>t DEF FileUsable, MayOpen
  <2>3. pc' = [pc EXCEPT ![p] = "loaded"] /\ copy' = [copy EXCEPT ![p] = file.data]
    BY <1>3, <2>2 DEF Load, Goto
  <2>4. StoreTypeOK' /\ FileUsable' /\ copy'[p] = file'.data
    BY <1>t, <2>1, <2>3 DEF StoreTypeOK, FileUsable, files, PC, Holding
  <2> QED  BY <2>1, <2>3, <2>4, HolderSteps DEF Holding
<1>4. CASE Change(p)
  <2>1. pc[p] = "loaded" /\ copy[p] = file.data
    BY <1>4 DEF Change, Goto, StoreIInv, CopyIsCurrent
  <2>2. StoreTypeOK' /\ FileUsable' /\ copy'[p] = With(p, file'.data)
    BY <1>4, <1>t, <2>1 DEF Change, Goto, With, StoreTypeOK, FileUsable, files, PC, Holding
  <2> QED  BY <1>4, <2>1, <2>2, HolderSteps DEF Change, Goto, Holding
<1>5. CASE Refuse(p)
  <2>1. StoreTypeOK' /\ FileUsable'
    BY <1>5, <1>t DEF Refuse, Goto, StoreTypeOK, FileUsable, files, PC, Holding
  <2> QED  BY <1>5, <2>1, HolderSteps DEF Refuse, Goto, Holding
<1>6. CASE Truncate(p)
  <2>1. /\ pc[p] = "applied" /\ copy[p] = With(p, file.data)
        /\ UNCHANGED <<file, fileOwner, lockOwner, lock, reading, copy, crashes>>
    BY <1>6 DEF Truncate, Goto, StoreIInv, CopyIsCurrent
  <2>2. FileUsable'
    BY <1>t, <2>1 DEF FileUsable
  <2>3. CASE tmpOwner = "none" \/ MayOpen(p, tmpOwner)
    <3>1. /\ pc' = [pc EXCEPT ![p] = "truncated"]
          /\ tmp' = Torn
          /\ tmpOwner' = IF tmpOwner = "none" THEN Uid(p) ELSE tmpOwner
      BY <1>6, <2>3 DEF Truncate, Goto
    <3>2. StoreTypeOK'
      BY <1>t, <2>1, <3>1 DEF StoreTypeOK, Torn, Uid, Owner, PC, Holding
    <3>3. p \notin Root => tmpOwner' = "registry"
      BY <2>3, <3>1 DEF Uid, MayOpen
    <3> QED  BY <2>1, <2>2, <3>1, <3>2, <3>3, HolderSteps DEF Holding
  <2>4. CASE ~(tmpOwner = "none" \/ MayOpen(p, tmpOwner))
    <3>1. pc' = [pc EXCEPT ![p] = "failing"] /\ UNCHANGED <<tmp, tmpOwner>>
      BY <1>6, <2>4 DEF Truncate, Goto
    <3>2. StoreTypeOK'
      BY <1>t, <2>1, <3>1 DEF StoreTypeOK, PC, Holding
    <3> QED  BY <2>1, <2>2, <3>1, <3>2, HolderSteps DEF Holding
  <2> QED  BY <2>3, <2>4
<1>7. CASE Write(p)
  <2>1. pc[p] = "truncated" /\ copy[p] = With(p, file.data)
        /\ (p \notin Root => tmpOwner = "registry")
    BY <1>7 DEF Write, Goto, StoreIInv, CopyIsCurrent, TmpIsCopy
  <2>2. StoreTypeOK' /\ FileUsable'
    BY <1>7, <1>t DEF Write, Goto, StoreTypeOK, FileUsable, Full, PC, Holding
  <2> QED  BY <1>7, <2>1, <2>2, HolderSteps DEF Write, Goto, Holding
<1>9. CASE FixOwner(p)
  <2>1. pc[p] = "written" /\ copy[p] = With(p, file.data) /\ tmp = Full(copy[p])
        /\ (p \notin Root => tmpOwner = "registry")
    BY <1>9 DEF FixOwner, Goto, StoreIInv, CopyIsCurrent, TmpIsCopy
  <2>2. StoreTypeOK' /\ FileUsable' /\ tmpOwner' = "registry"
    BY <1>9, <1>t, <2>1 DEF FixOwner, Goto, StoreTypeOK, FileUsable, Owner, PC, Holding
  <2> QED  BY <1>9, <2>1, <2>2, HolderSteps DEF FixOwner, Goto, Holding
<1>10. CASE Rename(p)
  <2>1. pc[p] = "owned" /\ tmp = Full(copy[p]) /\ tmpOwner = "registry"
    BY <1>10 DEF Rename, Goto, StoreIInv, TmpIsCopy
  <2>2. StoreTypeOK' /\ FileUsable'
    BY <1>10, <1>t, <2>1 DEF Rename, Goto, StoreTypeOK, FileUsable, Full, Torn, Owner, PC, Holding
  <2> QED  BY <1>10, <2>1, <2>2, HolderSteps DEF Rename, Goto, Holding
<1>11. CASE Unlock(p)
  <2>1. lock = p /\ pc[p] \in {"renamed", "failing"}
    BY <1>11 DEF Unlock, Goto, StoreIInv, LockHeld, Holding
  <2> QED  BY <1>11, <1>t, <1>r, <2>1, MovesOnly DEF Unlock, Goto
<1>12. CASE Again(p)
  BY <1>12, <1>t, <1>r, MovesOnly DEF Again, Goto
<1> QED
  BY <1>1, <1>a, <1>b, <1>2, <1>3, <1>4, <1>5, <1>6, <1>7, <1>9, <1>10, <1>11, <1>12
     DEF Step

\* An error return gives the lock up, or has none to give up.
LEMMA BreaksInv ==
  ASSUME StoreIInv, NEW p \in Proc, Breaks(p)
  PROVE  StoreIInv'
<1>t. /\ StoreTypeOK /\ FileUsable /\ pc \in [Proc -> PC] /\ crashes \in 0..MaxCrashes
      /\ lockOwner \in Owner \cup {"none"} /\ reading \subseteq Reader
  BY DEF StoreIInv, StoreTypeOK
<1>1. CASE OpenFails(p) \/ FlockFails(p)
  <2>1. /\ pc' = [pc EXCEPT ![p] = "failed"]
        /\ UNCHANGED <<files, lockOwner, lock, reading, copy, crashes>>
    BY <1>1 DEF OpenFails, FlockFails, Goto
  <2>2. lock' = NoProc => lock \in {p, NoProc}
    BY <2>1
  <2> QED  BY <1>t, <2>1, <2>2, MovesOnly
<1>2. CASE WriteFails(p) \/ RenameFails(p)
  <2>1. /\ pc[p] \in {"truncated", "owned"} /\ pc' = [pc EXCEPT ![p] = "failing"]
        /\ UNCHANGED <<files, lockOwner, lock, reading, copy, crashes>>
    BY <1>2 DEF WriteFails, RenameFails, Goto
  <2>2. StoreTypeOK' /\ FileUsable'
    BY <1>t, <2>1 DEF StoreTypeOK, FileUsable, files, PC, Holding
  <2> QED  BY <2>1, <2>2, HolderSteps DEF Holding
<1> QED  BY <1>1, <1>2 DEF Breaks

LEMMA CrashInv ==
  ASSUME StoreIInv, NEW p \in Proc, Crash(p)
  PROVE  StoreIInv'
<1>1. crashes' \in 0..MaxCrashes
  BY StoreConstants DEF Crash, StoreIInv, StoreTypeOK
<1>2. lock' \in {lock, NoProc} /\ (lock' = NoProc => lock \in {p, NoProc})
  BY DEF Crash
<1>3. /\ reading' = reading /\ reading \subseteq Reader
      /\ lockOwner' \in Owner \cup {"none"}
  BY DEF Crash, StoreIInv, StoreTypeOK
<1> QED  BY <1>1, <1>2, <1>3, MovesOnly DEF Crash

LEMMA StoreNextInv == StoreIInv /\ [StoreNext]_storeVars => StoreIInv'
<1> SUFFICES ASSUME StoreIInv, [StoreNext]_storeVars PROVE StoreIInv'
  OBVIOUS
<1>1. CASE StoreNext
  BY <1>1, StepInv, BreaksInv, CrashInv DEF StoreNext
<1>2. CASE UNCHANGED storeVars
  BY <1>2 DEF storeVars, StoreIInv, StoreTypeOK, FileUsable, LockHeld, CopyIsCurrent, TmpIsCopy, With
<1> QED  BY <1>1, <1>2

(* The invariant holds in every behaviour of the store.                    *)
THEOREM StoreInvariant == StoreSpec => []StoreIInv
  BY StoreInitInv, StoreNextInv, PTL DEF StoreSpec

(* Files, copies, the lock and the processes keep their shape.             *)
THEOREM StoreTypeCorrect == StoreSpec => []StoreTypeOK
<1>1. StoreIInv => StoreTypeOK
  BY DEF StoreIInv
<1> QED  BY <1>1, StoreInvariant, PTL

(* registry.json is always whole and can be opened by the registry user,   *)
(* whatever crashes and whichever write fails (Store.Update, fixOwner).    *)
THEOREM FileStaysUsable == StoreSpec => []FileUsable
<1>1. StoreIInv => FileUsable
  BY DEF StoreIInv
<1> QED  BY <1>1, StoreInvariant, PTL

(* No process is about to write a copy that lacks what the file holds, so  *)
(* no update of another process is lost (the lock in Store.Update).        *)
THEOREM NoUpdateIsLost == StoreSpec => []NoStaleCopy
<1>1. StoreIInv => NoStaleCopy
  BY DEF StoreIInv, CopyIsCurrent, NoStaleCopy, With
<1> QED  BY <1>1, StoreInvariant, PTL

----------------------------------------------------------------------------
\* Refinement: the phases of the abstract callers, and what they have seen.

Phases == [p \in Proc |-> PhaseOf(p)]

Sight == [p \in Proc |-> SeenBy(p)]

LEMMA PhaseStep ==
  ASSUME NEW p \in Proc, pc \in [Proc -> PC], NEW to \in PC,
         pc' = [pc EXCEPT ![p] = to],
         \A q \in Proc \ {p} : copy'[q] = copy[q]
  PROVE  /\ Phases' = [Phases EXCEPT ![p] = PhaseOf(p)']
         /\ Sight' = [Sight EXCEPT ![p] = SeenBy(p)']
         /\ Phases[p] = PhaseOf(p) /\ Sight[p] = SeenBy(p)
<1>1. \A q \in Proc : q # p => PhaseOf(q)' = PhaseOf(q)
  BY DEF PhaseOf
<1>2. \A q \in Proc : q # p => SeenBy(q)' = SeenBy(q)
  BY DEF SeenBy
<1> QED  BY <1>1, <1>2 DEF Phases, Sight

\* A step between two states of one phase that callers do not see.
LEMMA StutterSteps ==
  ASSUME NEW p \in Proc, pc \in [Proc -> PC], NEW to \in PC,
         pc' = [pc EXCEPT ![p] = to], PhaseOf(p)' = PhaseOf(p), SeenBy(p)' = SeenBy(p),
         \A q \in Proc \ {p} : copy'[q] = copy[q],
         UNCHANGED <<file, reading>>
  PROVE  UNCHANGED <<file.data, reading, Phases, Sight>>
<1>1. Phases' = [Phases EXCEPT ![p] = PhaseOf(p)] /\ Sight' = [Sight EXCEPT ![p] = SeenBy(p)]
  BY PhaseStep
<1> QED  BY <1>1 DEF Phases, Sight

LEMMA StepImplements ==
  ASSUME StoreIInv, NEW p \in Proc, Step(p) \/ Breaks(p)
  PROVE  Atomic!Next \/ UNCHANGED <<file.data, reading, Phases, Sight>>
<1> USE DEF PhaseOf, SeenBy
<1>t. pc \in [Proc -> PC] /\ copy \in [Proc -> SUBSET Proc]
  BY DEF StoreIInv, StoreTypeOK
<1>c. \A q \in Proc \ {p} : copy'[q] = copy[q]
  BY <1>t DEF Step, Begin, Open, FixLock, Acquire, Load, Change, Refuse, Truncate, Write,
              FixOwner, Rename, Unlock, Again, Breaks, OpenFails, FlockFails, WriteFails,
              RenameFails
<1>0. ASSUME NEW to \in PC, pc' = [pc EXCEPT ![p] = to]
      PROVE  /\ Phases' = [Phases EXCEPT ![p] = PhaseOf(p)']
             /\ Sight' = [Sight EXCEPT ![p] = SeenBy(p)']
             /\ Phases[p] = PhaseOf(p) /\ Sight[p] = SeenBy(p)
  BY <1>0, <1>t, <1>c, PhaseStep
<1>1. CASE Begin(p)
  <2>1. /\ pc[p] = "idle" /\ pc' = [pc EXCEPT ![p] = "called"]
        /\ UNCHANGED <<file, copy>>
    BY <1>1 DEF Begin, Goto, files
  <2>2. /\ Phases[p] = "idle" /\ Phases' = [Phases EXCEPT ![p] = "called"]
        /\ Sight' = [Sight EXCEPT ![p] = Sight[p]]
    BY <1>0, <1>t, <2>1 DEF PC, Holding, Calling
  <2>3. Sight' = Sight
    BY <2>2 DEF Sight
  <2>4. Atomic!Call(p)
    BY <1>1, <2>1, <2>2, <2>3 DEF Begin, Atomic!Call, Atomic!Move, Phases, Sight
  <2> QED  BY <2>4 DEF Atomic!Next
<1>2. CASE \/ Open(p) /\ pc'[p] = "opened"
           \/ FixLock(p) \/ Acquire(p) \/ Load(p) \/ Change(p) \/ Refuse(p)
           \/ Truncate(p) \/ Write(p) \/ WriteFails(p) \/ FixOwner(p) \/ RenameFails(p)
  <2>1. PICK to \in {"opened", "waiting", "locked", "loaded", "applied", "truncated",
                     "written", "owned", "failing"} :
          pc' = [pc EXCEPT ![p] = to]
    BY <1>2, <1>t DEF Open, FixLock, Acquire, Load, Change, Refuse, Truncate, Write, WriteFails,
                FixOwner, RenameFails, Goto
  <2>2. pc[p] \in {"called", "opened", "waiting", "locked", "loaded", "applied",
                   "truncated", "written", "owned"}
    BY <1>2 DEF Open, FixLock, Acquire, Load, Change, Refuse, Truncate, Write, WriteFails,
                FixOwner, RenameFails, Goto
  <2>3. UNCHANGED <<file, reading>>
    BY <1>2 DEF Open, FixLock, Acquire, Load, Change, Refuse, Truncate, Write, WriteFails,
                FixOwner, RenameFails, files
  <2>4. PhaseOf(p)' = PhaseOf(p) /\ SeenBy(p)' = SeenBy(p) /\ to \in PC
    BY <1>t, <2>1, <2>2 DEF PC, Holding, Calling
  <2> QED  BY <1>t, <1>c, <2>1, <2>3, <2>4, StutterSteps
<1>3. CASE Rename(p)
  <2>1. /\ pc[p] = "owned" /\ pc' = [pc EXCEPT ![p] = "renamed"]
        /\ file' = Full(With(p, file.data)) /\ copy[p] = With(p, file.data)
        /\ UNCHANGED <<copy, reading>>
    BY <1>3 DEF Rename, Goto, StoreIInv, TmpIsCopy, CopyIsCurrent
  <2>2. /\ Phases[p] = "called" /\ Phases' = [Phases EXCEPT ![p] = "applied"]
        /\ Sight' = [Sight EXCEPT ![p] = copy[p]]
    BY <1>0, <1>t, <2>1 DEF PC, Holding
  <2>3. file'.data = With(p, file.data)
    BY <2>1 DEF Full
  <2>4. Atomic!Apply(p)
    BY <2>1, <2>2, <2>3 DEF Atomic!Apply, Atomic!Move, Phases, Sight, With
  <2> QED  BY <2>4 DEF Atomic!Next
<1>4. CASE Unlock(p) /\ pc[p] = "renamed"
  <2>1. pc' = [pc EXCEPT ![p] = "done"] /\ UNCHANGED <<file, copy, reading>>
    BY <1>4 DEF Unlock, Goto, files
  <2>2. /\ Phases[p] = "applied" /\ Phases' = [Phases EXCEPT ![p] = "ok"]
        /\ Sight' = [Sight EXCEPT ![p] = Sight[p]]
    BY <1>0, <1>t, <1>4, <2>1 DEF PC, Holding
  <2>3. Sight' = Sight
    BY <2>2 DEF Sight
  <2>4. Atomic!Return(p)
    BY <2>1, <2>2, <2>3 DEF Atomic!Return, Atomic!Move, Phases, Sight
  <2> QED  BY <2>4 DEF Atomic!Next
<1>5. CASE \/ Unlock(p) /\ pc[p] # "renamed"
           \/ Open(p) /\ pc'[p] # "opened"
           \/ OpenFails(p) \/ FlockFails(p)
  <2>1. /\ pc[p] \in {"failing", "called", "waiting"} /\ pc' = [pc EXCEPT ![p] = "failed"]
        /\ UNCHANGED <<file, copy, reading>>
    BY <1>5, <1>t DEF Unlock, Open, OpenFails, FlockFails, Goto, files
  <2>2. /\ Phases[p] = "called" /\ Phases' = [Phases EXCEPT ![p] = "failed"]
        /\ Sight' = [Sight EXCEPT ![p] = Sight[p]]
    BY <1>0, <1>t, <2>1 DEF PC, Holding
  <2>3. Sight' = Sight
    BY <2>2 DEF Sight
  <2>4. Atomic!Fail(p)
    BY <2>1, <2>2, <2>3 DEF Atomic!Fail, Atomic!Move, Phases, Sight
  <2> QED  BY <2>4 DEF Atomic!Next
<1>6. CASE Again(p)
  <2>1. /\ pc[p] \in {"done", "failed"} /\ pc' = [pc EXCEPT ![p] = "idle"]
        /\ UNCHANGED <<file, copy, reading>>
    BY <1>6 DEF Again, Goto, files
  <2>2. /\ Phases[p] \in {"ok", "failed"} /\ Phases' = [Phases EXCEPT ![p] = "idle"]
        /\ Sight' = [Sight EXCEPT ![p] = {}]
    BY <1>0, <1>t, <2>1 DEF PC, Holding
  <2>3. Atomic!Again(p)
    BY <2>1, <2>2 DEF Atomic!Again, Atomic!Forget, Atomic!Move, Phases, Sight
  <2> QED  BY <2>3 DEF Atomic!Next
<1> QED  BY <1>1, <1>2, <1>3, <1>4, <1>5, <1>6 DEF Step, Breaks

LEMMA CrashImplements ==
  ASSUME StoreIInv, NEW p \in Proc, Crash(p)
  PROVE  Atomic!Next
<1>1. /\ pc \in [Proc -> PC] /\ pc[p] \in Holding \cup Calling
      /\ pc' = [pc EXCEPT ![p] = "idle"] /\ UNCHANGED <<file, copy, reading>>
  BY DEF Crash, StoreIInv, StoreTypeOK, PC, files
<1>2. /\ Phases' = [Phases EXCEPT ![p] = PhaseOf(p)']
      /\ Sight' = [Sight EXCEPT ![p] = SeenBy(p)']
      /\ Phases[p] = PhaseOf(p)
  BY <1>1, PhaseStep DEF PC
<1>3. PhaseOf(p) \in {"called", "applied"} /\ PhaseOf(p)' = "idle" /\ SeenBy(p)' = {}
  BY <1>1 DEF PhaseOf, SeenBy, Holding, Calling
<1>4. Atomic!Die(p)
  BY <1>1, <1>2, <1>3 DEF Atomic!Die, Atomic!Forget, Atomic!Move, Phases, Sight
<1> QED  BY <1>4 DEF Atomic!Next

(* Every step of Store.Update is a step of the atomic update, which takes  *)
(* effect with the rename and sees the registry as it then is, or changes  *)
(* nothing that callers can see.                                           *)
THEOREM StoreImplementsAtomicStore == StoreSpec => ImplementsAtomicStore
<1>1. StoreInit => Atomic!Init
  BY DEF StoreInit, Atomic!Init, PhaseOf, SeenBy, Full
<1>2. StoreIInv /\ [StoreNext]_storeVars => [Atomic!Next]_(Atomic!vars)
  <2> SUFFICES ASSUME StoreIInv, [StoreNext]_storeVars PROVE [Atomic!Next]_(Atomic!vars)
    OBVIOUS
  <2>1. CASE StoreNext
    BY <2>1, StepImplements, CrashImplements DEF StoreNext, Atomic!vars, Phases, Sight
  <2>2. CASE UNCHANGED storeVars
    BY <2>2 DEF storeVars, Atomic!vars, PhaseOf, SeenBy
  <2> QED  BY <2>1, <2>2
<1> QED  BY <1>1, <1>2, StoreInvariant, PTL DEF StoreSpec, ImplementsAtomicStore, Atomic!Spec

=============================================================================
