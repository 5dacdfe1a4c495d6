------------------------- MODULE RegistryOpsProofs --------------------------
(***************************************************************************)
(* Lemmas about the operators of RegistryOps: what each does to a request  *)
(* table or a member. The proofs about Registry, Join and Mesh cite them.  *)
(***************************************************************************)
EXTENDS RegistryOps, FiniteSetTheorems, TLAPS

(* Pruning keeps the requests that did not expire as they are.             *)
LEMMA PruneKeeps ==
  ASSUME NEW qs, qs \in [DOMAIN qs -> Request]
  PROVE  /\ DOMAIN Prune(qs) \subseteq DOMAIN qs
         /\ IsFiniteSet(DOMAIN qs) => IsFiniteSet(DOMAIN Prune(qs))
         /\ Prune(qs) \in [DOMAIN Prune(qs) -> Request]
         /\ \A i \in DOMAIN Prune(qs) : Prune(qs)[i] = qs[i]
         /\ PendingIds(Prune(qs)) \subseteq PendingIds(qs)
<1>1. DOMAIN Prune(qs) \subseteq DOMAIN qs
  BY DEF Prune, LiveIds
<1>2. IsFiniteSet(DOMAIN qs) => IsFiniteSet(DOMAIN Prune(qs))
  BY <1>1, FS_Subset
<1>3. \A i \in DOMAIN Prune(qs) : Prune(qs)[i] = qs[i]
  BY DEF Prune
<1>4. Prune(qs) \in [DOMAIN Prune(qs) -> Request]
  <2>1. \A i \in LiveIds(qs) : qs[i] \in Request
    BY DEF LiveIds
  <2>2. QED  BY <2>1 DEF Prune
<1>5. QED
  BY <1>1, <1>2, <1>3, <1>4 DEF PendingIds

(* Growing older changes nothing but the age of a request.                 *)
LEMMA GrowKeeps ==
  ASSUME NEW qs, qs \in [DOMAIN qs -> Request], NEW i \in DOMAIN qs
  PROVE  /\ Grow(qs)[i] \in Request
         /\ Grow(qs)[i].name = qs[i].name
         /\ Grow(qs)[i].wgKey = qs[i].wgKey
         /\ Grow(qs)[i].status = qs[i].status
         /\ Grow(qs)[i].host = qs[i].host
<1>1. qs[i] \in Request
  OBVIOUS
<1>2. Grow(qs)[i] = [qs[i] EXCEPT !.age = IF @ <= RequestTTL THEN @ + 1 ELSE @]
  BY DEF Grow
<1>3. (IF qs[i].age <= RequestTTL THEN qs[i].age + 1 ELSE qs[i].age)
        \in 0..(RequestTTL + 1)
  BY <1>1, RegistryConstants DEF Request
<1>4. QED
  BY <1>1, <1>2, <1>3 DEF Request

(* What Approve leaves of the request table.                               *)
LEMMA SettleFacts ==
  ASSUME NEW qs, qs \in [DOMAIN qs -> Request],
         NEW id \in PendingIds(qs), NEW n \in 2..MaxHost
  PROVE  /\ DOMAIN Settle(qs, id, n) = DOMAIN qs
         /\ Settle(qs, id, n) \in [DOMAIN qs -> Request]
         /\ \A i \in DOMAIN qs :
              /\ Settle(qs, id, n)[i].name = qs[i].name
              /\ Settle(qs, id, n)[i].wgKey = qs[i].wgKey
              /\ qs[i].status # "pending" => Settle(qs, id, n)[i] = qs[i]
              /\ Settle(qs, id, n)[i].status = "pending" =>
                   /\ qs[i].status = "pending"
                   /\ qs[i].wgKey # qs[id].wgKey
                   /\ qs[i].name # qs[id].name
              /\ Settle(qs, id, n)[i].status = "approved" /\ qs[i].status = "pending" =>
                   /\ Settle(qs, id, n)[i].host = n
                   /\ qs[i].wgKey = qs[id].wgKey
              /\ Settle(qs, id, n)[i].status = "rejected" =>
                   Settle(qs, id, n)[i].host = qs[i].host
<1> DEFINE ps == Settle(qs, id, n)
<1>1. DOMAIN ps = DOMAIN qs /\ id \in DOMAIN qs /\ qs[id].status = "pending"
  BY DEF Settle, PendingIds
<1>2. n \in 0..MaxHost
  BY RegistryConstants
<1>3. ASSUME NEW i \in DOMAIN qs
      PROVE  /\ ps[i] \in Request
             /\ ps[i].name = qs[i].name /\ ps[i].wgKey = qs[i].wgKey
             /\ qs[i].status # "pending" => ps[i] = qs[i]
             /\ ps[i].status = "pending" =>
                  /\ qs[i].status = "pending"
                  /\ qs[i].wgKey # qs[id].wgKey /\ qs[i].name # qs[id].name
             /\ ps[i].status = "approved" /\ qs[i].status = "pending" =>
                  ps[i].host = n /\ qs[i].wgKey = qs[id].wgKey
             /\ ps[i].status = "rejected" => ps[i].host = qs[i].host
  <2>0. qs[i] \in Request
    OBVIOUS
  <2>1. CASE i = id \/ (qs[i].status = "pending" /\ qs[i].wgKey = qs[id].wgKey)
    <3>1. ps[i] = [qs[i] EXCEPT !.status = "approved", !.host = n]
      BY <2>1 DEF Settle
    <3>2. QED
      BY <1>1, <1>2, <2>0, <2>1, <3>1 DEF Request, Status
  <2>2. CASE /\ ~(i = id \/ (qs[i].status = "pending" /\ qs[i].wgKey = qs[id].wgKey))
             /\ qs[i].status = "pending" /\ qs[i].name = qs[id].name
    <3>1. ps[i] = [qs[i] EXCEPT !.status = "rejected"]
      BY <2>2 DEF Settle
    <3>2. QED
      BY <2>0, <2>2, <3>1 DEF Request, Status
  <2>3. CASE /\ ~(i = id \/ (qs[i].status = "pending" /\ qs[i].wgKey = qs[id].wgKey))
             /\ ~(qs[i].status = "pending" /\ qs[i].name = qs[id].name)
    <3>1. ps[i] = qs[i]
      BY <2>3 DEF Settle
    <3>2. QED
      BY <2>0, <2>3, <3>1
  <2>4. QED  BY <2>1, <2>2, <2>3
<1>4. ps \in [DOMAIN qs -> Request]
  BY <1>3 DEF Settle
<1>5. QED
  BY <1>1, <1>3, <1>4

(* A new request is one of its machine, waits and has no host number.      *)
LEMMA NewRequestWaits ==
  ASSUME NEW r \in JoinRequest
  PROVE  /\ NewRequest(r) \in Request
         /\ NewRequest(r).status = "pending" /\ NewRequest(r).host = 0
         /\ NewRequest(r).name = r.name /\ NewRequest(r).wgKey = r.wgKey
<1>1. 0 \in 0..(RequestTTL + 1) /\ 0 \in 0..MaxHost
  BY RegistryConstants
<1>2. QED
  BY <1>1 DEF NewRequest, JoinRequest, Request, Status

(* Storing a request under a new identifier leaves the others as they are. *)
LEMMA ExtendKeeps ==
  ASSUME NEW qs, qs \in [DOMAIN qs -> Request], NEW id, id \notin DOMAIN qs,
         NEW q \in Request
  PROVE  /\ DOMAIN Extend(qs, id, q) = DOMAIN qs \cup {id}
         /\ Extend(qs, id, q) \in [DOMAIN qs \cup {id} -> Request]
         /\ Extend(qs, id, q)[id] = q
         /\ \A i \in DOMAIN qs : i # id /\ Extend(qs, id, q)[i] = qs[i]
<1>1. \A i \in DOMAIN qs : qs[i] \in Request
  OBVIOUS
<1>2. QED
  BY <1>1 DEF Extend

(* The member that Approve makes of a request has its name and key.        *)
LEMMA NewMemberOfRequest ==
  ASSUME NEW q \in Request, NEW n \in 2..MaxHost
  PROVE  /\ NewMember(q, n) \in Member
         /\ NewMember(q, n).host = n
         /\ NewMember(q, n).name = q.name /\ NewMember(q, n).wgKey = q.wgKey
<1>1. n \in 1..MaxHost
  BY RegistryConstants
<1>2. QED
  BY <1>1 DEF NewMember, Member, Request

(* A heartbeat changes the address of a member and what is known of its    *)
(* switch, and nothing that identifies it.                                 *)
LEMMA SeenKeeps ==
  ASSUME NEW m \in Member, NEW lan \in LanIP \cup {NoLanIP}, NEW sw \in BOOLEAN
  PROVE  /\ Seen(m, lan, sw) \in Member
         /\ Seen(m, lan, sw).host = m.host /\ Seen(m, lan, sw).name = m.name
         /\ Seen(m, lan, sw).wgKey = m.wgKey
BY DEF Seen, Member
=============================================================================
