------------------------------ MODULE Registry ------------------------------
(***************************************************************************)
(* The registry as one atomic object: every operation of State in          *)
(* internal/registry/registry.go is one step. Calls that return an error   *)
(* save nothing (Store.Update), so they are no steps of this module.       *)
(*                                                                         *)
(* RegistryStore shows that the file, its lock and its atomic rename make  *)
(* an update one step; Join and Mesh compose this module with the nodes.   *)
(***************************************************************************)
EXTENDS RegistryOps

CONSTANTS
  Askers,      \* the join requests that machines may send
  Coordinator  \* member 1, as the installer wrote it

ASSUME AskersConstants ==
  /\ Askers \subseteq JoinRequest
  /\ Coordinator \in Member
  /\ Coordinator.host = 1

VARIABLES members, requests

vars == <<members, requests>>

Init ==
  /\ members = {Coordinator}
  /\ requests = [i \in {} |-> 0]

(* id is the identifier the call returns: the existing one when the same   *)
(* machine asks again, else a new one.                                     *)
AddRequest(r, id) ==
  LET qs == Prune(requests) IN
  /\ Unclaimed(members, r)
  /\ \/ /\ id \in Repeated(qs, r)
        /\ requests' = qs
     \/ /\ MayAdd(members, qs, r)
        /\ id \in RequestId \ DOMAIN requests
        /\ requests' = Extend(qs, id, NewRequest(r))
  /\ UNCHANGED members

RequestStatus(id) ==
  /\ id \in LiveIds(requests)
  /\ requests' = [Prune(requests) EXCEPT ![id] = Reported(members, @)]
  /\ UNCHANGED members

\* Approving does not prune: an expired request can still be approved.
Approve(id, n) ==
  /\ id \in PendingIds(requests)
  /\ IsNextHost(members, n)
  /\ members' = members \cup {NewMember(requests[id], n)}
  /\ requests' = Settle(requests, id, n)

Reject(id) ==
  /\ id \in PendingIds(requests)
  /\ requests' = [requests EXCEPT ![id].status = "rejected"]
  /\ UNCHANGED members

Remove(m) ==
  /\ m \in members
  /\ m.host # 1
  /\ members' = members \ {m}
  /\ UNCHANGED requests

Heartbeat(m, lan, sw) ==
  /\ m \in members
  /\ members' = (members \ {m}) \cup {Seen(m, lan, sw)}
  /\ UNCHANGED requests

\* Time passes: every request grows older.
Tick ==
  /\ requests' = Grow(requests)
  /\ UNCHANGED members

Next ==
  \/ \E r \in Askers, id \in RequestId : AddRequest(r, id)
  \/ \E id \in RequestId : RequestStatus(id)
  \/ \E id \in RequestId, n \in 2..MaxHost : Approve(id, n)
  \/ \E id \in RequestId : Reject(id)
  \/ \E m \in members : Remove(m)
  \/ \E m \in members, lan \in LanIP \cup {NoLanIP}, sw \in BOOLEAN :
       Heartbeat(m, lan, sw)
  \/ Tick

Spec == Init /\ [][Next]_vars

----------------------------------------------------------------------------
\* The members and the request table have their declared shape.
TypeOK ==
  /\ members \subseteq Member
  /\ IsFiniteSet(members)
  /\ DOMAIN requests \subseteq RequestId
  /\ IsFiniteSet(DOMAIN requests)
  /\ requests \in [DOMAIN requests -> Request]

(* Host numbers, names and WireGuard keys identify members: two machines   *)
(* with one mesh address or one key would break routing for both. Approve  *)
(* checks the host number only; names and keys stay apart because of what  *)
(* AddRequest refuses and Approve settles, calls that may be hours apart.  *)
MembersDistinct ==
  \A m, n \in members :
    m # n => m.host # n.host /\ m.name # n.name /\ m.wgKey # n.wgKey

(* Whatever is added and removed, the coordinator stays member 1 under its *)
(* own name and key: status replies and every mesh config take it there.   *)
CoordinatorStays ==
  \E m \in members :
    m.host = 1 /\ m.name = Coordinator.name /\ m.wgKey = Coordinator.wgKey

(* A waiting request has neither the name nor the key of a member. Approve *)
(* relies on it without checking, and it makes the rewriting of pending    *)
(* requests in RequestStatus unreachable.                                  *)
PendingUnclaimed ==
  \A i \in PendingIds(requests) : Unclaimed(members, requests[i])

(* Two waiting requests never have the same name, so the admin can tell    *)
(* them apart on the approval screen, and the branch of Approve that       *)
(* rejects same-named requests never turns another waiting machine away.   *)
PendingNamesDistinct ==
  \A i, j \in PendingIds(requests) :
    requests[i].name = requests[j].name => i = j

\* At most MaxPending requests wait, however requests are decided or expire.
PendingBounded == Cardinality(PendingIds(requests)) <= MaxPending

(* A request has a host number exactly when it was approved, and never the *)
(* coordinator's: Node.Wait refuses an approval with a host below 2.       *)
HostIffApproved ==
  \A i \in DOMAIN requests :
    IF requests[i].status = "approved"
      THEN requests[i].host \in 2..MaxHost
      ELSE requests[i].host = 0

(* When a request becomes approved, directly or as a duplicate, the member *)
(* that now has its key sits at the host number the request reports: that  *)
(* is the address the machine will configure.                              *)
ApprovalNamesItsMember ==
  [][\A i \in PendingIds(requests) :
       (i \in DOMAIN requests' /\ requests'[i].status = "approved") =>
         \E m \in members' :
           m.wgKey = requests[i].wgKey /\ m.host = requests'[i].host]_vars

(* A decision stands: no later call turns an approved or rejected request  *)
(* into something else or moves it to another host number.                 *)
DecisionsStand ==
  [][\A i \in DOMAIN requests \ PendingIds(requests) :
       i \in DOMAIN requests' =>
         /\ requests'[i].status = requests[i].status
         /\ requests'[i].host = requests[i].host]_vars

\* All parts of the inductive invariant.
IInv ==
  /\ TypeOK
  /\ MembersDistinct
  /\ CoordinatorStays
  /\ PendingUnclaimed
  /\ PendingNamesDistinct
  /\ PendingBounded
  /\ HostIffApproved
=============================================================================
