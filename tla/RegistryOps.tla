---------------------------- MODULE RegistryOps ----------------------------
(***************************************************************************)
(* The data of the coordinator's registry (internal/registry/registry.go)  *)
(* and its operations as operators on a member list and a request table.   *)
(* Registry turns them into a state machine; RegistryStore applies them to *)
(* copies that a process loaded from the file.                             *)
(*                                                                         *)
(* A request carries its age in ticks instead of its creation time: only   *)
(* now - Created > RequestTTL is ever asked, so ages above RequestTTL need *)
(* not be told apart. Strings are values of the sets below; those sets     *)
(* hold what ValidateRequest accepts.                                      *)
(***************************************************************************)
EXTENDS Integers, FiniteSets

CONSTANTS
  Name,        \* host names
  WGKey,       \* WireGuard public keys
  SSHHostKey,  \* SSH host keys
  LanIP,       \* IPv4 addresses
  NoLanIP,     \* what a node reports when it cannot tell its address
  RequestId,   \* the random identifiers of requests
  MaxHost,     \* the last usable host number of the mesh subnet
  MaxPending,  \* how many requests may wait
  RequestTTL   \* how many ticks a request is kept

ASSUME RegistryConstants ==
  /\ MaxHost \in Nat \ {0}
  /\ MaxPending \in Nat
  /\ RequestTTL \in Nat
  /\ NoLanIP \notin LanIP

Status == {"pending", "approved", "rejected"}

\* What a machine sends when it asks to join.
JoinRequest ==
  [name: Name, wgKey: WGKey, sshHostKey: SSHHostKey, lanIP: LanIP, switch: BOOLEAN]

Request ==
  [name: Name, wgKey: WGKey, sshHostKey: SSHHostKey, lanIP: LanIP, switch: BOOLEAN,
   age: 0..(RequestTTL + 1), status: Status, host: 0..MaxHost]

Member ==
  [host: 1..MaxHost, name: Name, wgKey: WGKey, sshHostKey: SSHHostKey,
   lanIP: LanIP, switch: BOOLEAN]

----------------------------------------------------------------------------
\* Requests. qs is a function from the identifiers in use to requests.

PendingIds(qs) == {i \in DOMAIN qs : qs[i].status = "pending"}

LiveIds(qs) == {i \in DOMAIN qs : qs[i].age <= RequestTTL}

Prune(qs) == [i \in LiveIds(qs) |-> qs[i]]

Grow(qs) ==
  [i \in DOMAIN qs |->
     [qs[i] EXCEPT !.age = IF @ <= RequestTTL THEN @ + 1 ELSE @]]

\* Mutant: tells machines apart by name.
SameMachine_NameOnly(q, r) == q.name = r.name

SameMachine(q, r) ==
  q.wgKey = r.wgKey /\ q.name = r.name /\ q.sshHostKey = r.sshHostKey

\* Mutant: does not look for a request the machine already has.
Repeated_None(qs, r) == {}

\* The pending requests that r repeats.
Repeated(qs, r) == {i \in PendingIds(qs) : SameMachine(qs[i], r)}

NewRequest(r) ==
  [name |-> r.name, wgKey |-> r.wgKey, sshHostKey |-> r.sshHostKey,
   lanIP |-> r.lanIP, switch |-> r.switch,
   age |-> 0, status |-> "pending", host |-> 0]

Extend(qs, id, q) == [i \in DOMAIN qs \cup {id} |-> IF i = id THEN q ELSE qs[i]]

\* Mutant: compares host names only.
Unclaimed_NameOnly(ms, r) == \A m \in ms : m.name # r.name

\* No member has the name or the WireGuard key of r.
Unclaimed(ms, r) == \A m \in ms : m.name # r.name /\ m.wgKey # r.wgKey

\* Mutant: off by one at the limit.
MayAdd_OneTooMany(ms, qs, r) ==
  /\ Unclaimed(ms, r)
  /\ \A i \in PendingIds(qs) : qs[i].name # r.name
  /\ Cardinality(PendingIds(qs)) <= MaxPending

\* r is to be stored as a new request, in a table that was pruned before.
MayAdd(ms, qs, r) ==
  /\ Unclaimed(ms, r)
  /\ \A i \in PendingIds(qs) : qs[i].name # r.name
  /\ Cardinality(PendingIds(qs)) < MaxPending

\* RequestStatus rewrites a pending request whose key is a member's.
Reported(ms, q) ==
  IF q.status = "pending" /\ \E m \in ms : m.wgKey = q.wgKey
    THEN [q EXCEPT !.status = "approved",
                   !.host = (CHOOSE m \in ms : m.wgKey = q.wgKey).host]
    ELSE q

----------------------------------------------------------------------------
\* Members. ms is a set of members.

FreeHosts(ms) == {n \in 2..MaxHost : \A m \in ms : m.host # n}

IsNextHost(ms, n) == n \in FreeHosts(ms) /\ \A k \in FreeHosts(ms) : n <= k

NewMember(q, n) ==
  [host |-> n, name |-> q.name, wgKey |-> q.wgKey, sshHostKey |-> q.sshHostKey,
   lanIP |-> q.lanIP, switch |-> q.switch]

\* Mutant: decides the approved request only.
Settle_NoDuplicates(qs, id, n) ==
  [qs EXCEPT ![id].status = "approved", ![id].host = n]

\* Mutant: marks duplicates approved without giving them the host number.
Settle_NoHost(qs, id, n) ==
  [i \in DOMAIN qs |->
     IF i = id
       THEN [qs[i] EXCEPT !.status = "approved", !.host = n]
     ELSE IF qs[i].status = "pending" /\ qs[i].wgKey = qs[id].wgKey
       THEN [qs[i] EXCEPT !.status = "approved"]
     ELSE qs[i]]

\* Mutant: settles requests that were decided before.
Settle_Decided(qs, id, n) ==
  [i \in DOMAIN qs |->
     IF qs[i].wgKey = qs[id].wgKey
       THEN [qs[i] EXCEPT !.status = "approved", !.host = n]
     ELSE qs[i]]

\* Approving request id as host n decides every request it makes pointless.
Settle(qs, id, n) ==
  [i \in DOMAIN qs |->
     IF i = id \/ (qs[i].status = "pending" /\ qs[i].wgKey = qs[id].wgKey)
       THEN [qs[i] EXCEPT !.status = "approved", !.host = n]
     ELSE IF qs[i].status = "pending" /\ qs[i].name = qs[id].name
       THEN [qs[i] EXCEPT !.status = "rejected"]
     ELSE qs[i]]

\* A heartbeat keeps the old address when the reported one is none.
Seen(m, lan, sw) ==
  [m EXCEPT !.lanIP = IF lan = NoLanIP THEN @ ELSE lan, !.switch = sw]
=============================================================================
