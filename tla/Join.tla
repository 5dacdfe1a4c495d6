-------------------------------- MODULE Join --------------------------------
(***************************************************************************)
(* How a laptop becomes a mesh node: the joining part of the installer     *)
(* (Real.Join in internal/install/steps.go), the boot service that goes on *)
(* with it (JoinLoop in internal/node/commands.go), what both keep on disk *)
(* (join.json, the mesh config, the units systemd starts), the registry    *)
(* they ask over SSH, and the admin who decides.                           *)
(*                                                                         *)
(* A call over SSH is two steps, the coordinator's and the reading of its  *)
(* answer, so anything may happen in between; a call can fail before or    *)
(* after the coordinator handled it. Power may go at any moment, and a     *)
(* write or a command of the activation may fail.                          *)
(***************************************************************************)
EXTENDS RegistryOps

CONSTANTS
  Machine,      \* the laptops; a machine is its WireGuard key
  Askings,      \* what the laptops may ask: functions from Machine to requests
  Coordinator,  \* member 1
  NoId,         \* join.json holds no request
  NoReply,      \* no answer is on its way
  MaxTicks,     \* bound on the passing of time
  MaxFaults,    \* bound on power cuts, failed writes and failed commands
  ActivationFaults  \* whether faults may hit the activation

Askers == {a[m] : a \in Askings, m \in Machine}

ASSUME JoinConstants ==
  /\ Machine \subseteq WGKey
  /\ Askings \subseteq [Machine -> JoinRequest]
  /\ \A a \in Askings, m \in Machine : a[m].wgKey = m
  /\ Coordinator \in Member /\ Coordinator.host = 1
  /\ Coordinator.wgKey \notin Machine
  /\ NoId \notin RequestId
  /\ MaxTicks \in Nat
  /\ MaxFaults \in Nat
  /\ ActivationFaults \in BOOLEAN

VARIABLES
  members, requests,  \* the registry on the coordinator
  ask,       \* ask[m]: the join request of m, which never changes
  where,     \* where[m]: what runs on m, the installer or the installed server
  pc,        \* pc[m]: where the join procedure of m is
  joined,    \* join.json: the request and, once approved, the host number
  conf,      \* the host number the mesh config was written for, 0 if none
  joinUnit,  \* whether systemd starts the join service at boot
  meshUnit,  \* whether it starts WireGuard and the sync timer
  reply,     \* the answer on its way to m, or the one m acts on
  approvals, \* history: the machines the admin approved, with their host
  ticks, faults

reg     == <<members, requests>>
disk    == <<joined, conf, joinUnit, meshUnit>>
bounds  == <<ticks, faults, ask>>
vars    == <<reg, where, pc, disk, reply, approvals, bounds>>

R == INSTANCE Registry

StatusReply == [kind: {"status"}, status: Status, host: 0..MaxHost]
IdReply     == [kind: {"id"}, id: RequestId]
ErrorReply  == [kind: {"error"}]
Reply       == StatusReply \cup IdReply \cup ErrorReply \cup {NoReply}

Error == [kind |-> "error"]

PC == {"start", "asking", "polling", "granted", "configuring", "enabling",
       "finishing", "ended", "off", "loop", "failed", "idle"}

Activating == {"granted", "configuring", "enabling", "finishing"}

Init ==
  /\ R!Init
  /\ ask \in Askings
  /\ where = [m \in Machine |-> "installer"]
  /\ pc = [m \in Machine |-> "start"]
  /\ joined = [m \in Machine |-> [id |-> NoId, host |-> 0]]
  /\ conf = [m \in Machine |-> 0]
  /\ joinUnit = [m \in Machine |-> FALSE]
  /\ meshUnit = [m \in Machine |-> FALSE]
  /\ reply = [m \in Machine |-> NoReply]
  /\ approvals = {}
  /\ ticks = 0
  /\ faults = 0

Goto(m, from, to) ==
  /\ pc[m] = from
  /\ pc' = [pc EXCEPT ![m] = to]

\* Where the procedure goes on an error: the installer shows it and is done,
\* the service exits and systemd starts it again.
GiveUp(m) == IF where[m] = "installer" THEN "ended" ELSE "failed"

----------------------------------------------------------------------------
\* Starting: the installer once, the service at every boot while enabled.

\* Mutant: the service is not enabled before the machine is approved.
InstallerJoins_NotEnabled(m) ==
  /\ Goto(m, "start", "asking")
  /\ UNCHANGED <<reg, where, disk, reply, approvals, bounds>>

\* Real.Join enables the service before it asks for the first time.
InstallerJoins(m) ==
  /\ Goto(m, "start", "asking")
  /\ joinUnit' = [joinUnit EXCEPT ![m] = TRUE]
  /\ UNCHANGED <<reg, where, joined, conf, meshUnit, reply, approvals, bounds>>

Boot(m) ==
  /\ Goto(m, "off", IF joinUnit[m] THEN "loop" ELSE "idle")
  /\ UNCHANGED <<reg, where, disk, reply, approvals, bounds>>

\* Each round of JoinLoop starts from what join.json says.
LoopJoined(m) ==
  /\ joined[m].host > 0
  /\ Goto(m, "loop", "idle")
  /\ joinUnit' = [joinUnit EXCEPT ![m] = FALSE]
  /\ UNCHANGED <<reg, where, joined, conf, meshUnit, reply, approvals, bounds>>

\* Mutant: every start of the service asks anew.
LoopAsks_Afresh(m) ==
  /\ Goto(m, "loop", "asking")
  /\ UNCHANGED <<reg, where, disk, reply, approvals, bounds>>

LoopAsks(m) ==
  /\ joined[m].host = 0
  /\ Goto(m, "loop", IF joined[m].id = NoId THEN "asking" ELSE "polling")
  /\ UNCHANGED <<reg, where, disk, reply, approvals, bounds>>

----------------------------------------------------------------------------
\* Node.Request.

\* Identifiers are random: no machine holds on to one that is given out.
Fresh(id) ==
  \A m \in Machine :
    joined[m].id # id /\ reply[m] # [kind |-> "id", id |-> id]

CoordinatorStores(m) ==
  /\ pc[m] = "asking" /\ reply[m] = NoReply
  /\ \E id \in RequestId :
       /\ id \in DOMAIN requests \/ Fresh(id)
       /\ R!AddRequest(ask[m], id)
       /\ reply' = [reply EXCEPT ![m] = [kind |-> "id", id |-> id]]
  /\ UNCHANGED <<where, pc, disk, approvals, bounds>>

CoordinatorRefuses(m) ==
  /\ pc[m] = "asking" /\ reply[m] = NoReply
  /\ Repeated(Prune(requests), ask[m]) = {}
  /\ ~MayAdd(members, Prune(requests), ask[m])
  /\ reply' = [reply EXCEPT ![m] = Error]
  /\ UNCHANGED <<reg, where, pc, disk, approvals, bounds>>

\* From here on the machine shows its pairing code.
Stored(m) ==
  /\ reply[m] # NoReply /\ reply[m].kind = "id"
  /\ Goto(m, "asking", "polling")
  /\ joined' = [joined EXCEPT ![m] = [id |-> reply[m].id, host |-> 0]]
  /\ reply' = [reply EXCEPT ![m] = NoReply]
  /\ UNCHANGED <<reg, where, conf, joinUnit, meshUnit, approvals, bounds>>

\* Refused, or the call failed: JoinLoop asks again after 30 seconds.
AskFails(m) ==
  /\ Goto(m, "asking", IF where[m] = "installer" THEN "ended" ELSE "loop")
  /\ reply' = [reply EXCEPT ![m] = NoReply]
  /\ UNCHANGED <<reg, where, disk, approvals, bounds>>

----------------------------------------------------------------------------
\* Node.Wait.

CoordinatorReports(m) ==
  /\ pc[m] = "polling" /\ reply[m] = NoReply
  /\ R!RequestStatus(joined[m].id)
  /\ reply' = [reply EXCEPT ![m] =
       [kind |-> "status", status |-> requests'[joined[m].id].status,
        host |-> requests'[joined[m].id].host]]
  /\ UNCHANGED <<where, pc, disk, approvals, bounds>>

CoordinatorForgot(m) ==
  /\ pc[m] = "polling" /\ reply[m] = NoReply
  /\ joined[m].id \notin LiveIds(requests)
  /\ reply' = [reply EXCEPT ![m] = Error]
  /\ UNCHANGED <<reg, where, pc, disk, approvals, bounds>>

\* Mutant: takes any answer for an approval.
Granted_AnyStatus(m) ==
  /\ reply[m] # NoReply /\ reply[m].kind = "status"
  /\ Goto(m, "polling", "granted")
  /\ UNCHANGED <<reg, where, disk, reply, approvals, bounds>>

Granted(m) ==
  /\ reply[m] # NoReply /\ reply[m].kind = "status" /\ reply[m].status = "approved"
  /\ Goto(m, "polling", "granted")
  /\ UNCHANGED <<reg, where, disk, reply, approvals, bounds>>

\* The service disables itself; the installer leaves it enabled.
Denied(m) ==
  /\ reply[m] # NoReply /\ reply[m].kind = "status" /\ reply[m].status = "rejected"
  /\ Goto(m, "polling", GiveUp(m))
  /\ joinUnit' = [joinUnit EXCEPT ![m] = where[m] = "installer"]
  /\ reply' = [reply EXCEPT ![m] = NoReply]
  /\ UNCHANGED <<reg, where, joined, conf, meshUnit, approvals, bounds>>

\* Still pending, or an error: Wait asks again. It looks for "no such
\* request" in the output of ssh, but the registry says so on stderr and the
\* call keeps stdout only, so an expired request looks like a failed call.
AskStatusAgain(m) ==
  /\ pc[m] = "polling"
  /\ reply[m] # NoReply
  /\ \/ reply[m].kind = "error"
     \/ reply[m].kind = "status" /\ reply[m].status = "pending"
  /\ reply' = [reply EXCEPT ![m] = NoReply]
  /\ UNCHANGED <<reg, where, pc, disk, approvals, bounds>>

StatusLost(m) ==
  /\ pc[m] = "polling" /\ reply[m] # NoReply
  /\ reply' = [reply EXCEPT ![m] = NoReply]
  /\ UNCHANGED <<reg, where, pc, disk, approvals, bounds>>

\* "s" on the join screen of the installer.
Skip(m) ==
  /\ where[m] = "installer" /\ pc[m] \in {"asking", "polling"}
  /\ pc' = [pc EXCEPT ![m] = "ended"]
  /\ reply' = [reply EXCEPT ![m] = NoReply]
  /\ UNCHANGED <<reg, where, disk, approvals, bounds>>

----------------------------------------------------------------------------
\* Node.Activate and what its two callers do after it.

SaveHost(m) ==
  /\ Goto(m, "granted", "configuring")
  /\ joined' = [joined EXCEPT ![m].host = reply[m].host]
  /\ UNCHANGED <<reg, where, conf, joinUnit, meshUnit, reply, approvals, bounds>>

Configure(m) ==
  /\ Goto(m, "configuring", "enabling")
  /\ conf' = [conf EXCEPT ![m] = reply[m].host]
  /\ UNCHANGED <<reg, where, joined, joinUnit, meshUnit, reply, approvals, bounds>>

EnableMesh(m) ==
  /\ Goto(m, "enabling", "finishing")
  /\ meshUnit' = [meshUnit EXCEPT ![m] = TRUE]
  /\ UNCHANGED <<reg, where, joined, conf, joinUnit, reply, approvals, bounds>>

DisableJoin(m) ==
  /\ Goto(m, "finishing", IF where[m] = "installer" THEN "ended" ELSE "idle")
  /\ joinUnit' = [joinUnit EXCEPT ![m] = FALSE]
  /\ reply' = [reply EXCEPT ![m] = NoReply]
  /\ UNCHANGED <<reg, where, joined, conf, meshUnit, approvals, bounds>>

----------------------------------------------------------------------------
\* Faults, restarts and reboots.

MayFault(m) ==
  /\ faults < MaxFaults
  /\ ActivationFaults \/ pc[m] \notin Activating
  /\ faults' = faults + 1

\* A write or a systemctl call of the activation returns an error.
ActivationFails(m) ==
  /\ MayFault(m)
  /\ pc[m] \in Activating
  /\ pc' = [pc EXCEPT ![m] = GiveUp(m)]
  /\ reply' = [reply EXCEPT ![m] = NoReply]
  /\ UNCHANGED <<reg, where, disk, approvals, ticks, ask>>

\* Restart=on-failure, RestartSec=30.
Restart(m) ==
  /\ Goto(m, "failed", "loop")
  /\ UNCHANGED <<reg, where, disk, reply, approvals, bounds>>

\* Power is lost, or somebody switches the machine off.
PowerCut(m) ==
  /\ MayFault(m)
  /\ pc[m] \notin {"start", "off"}
  /\ pc' = [pc EXCEPT ![m] = "off"]
  /\ where' = [where EXCEPT ![m] = "server"]
  /\ reply' = [reply EXCEPT ![m] = NoReply]
  /\ UNCHANGED <<reg, disk, approvals, ticks, ask>>

\* Enter on the installer's last screen.
Reboot(m) ==
  /\ Goto(m, "ended", "off")
  /\ where' = [where EXCEPT ![m] = "server"]
  /\ UNCHANGED <<reg, disk, reply, approvals, bounds>>

----------------------------------------------------------------------------
\* The admin, who approves a request only when its machine shows the code.

Shown(id) == \E m \in Machine : joined[m].id = id /\ requests[id].wgKey = m

AdminApproves ==
  \E id \in PendingIds(requests), n \in 2..MaxHost :
    /\ Shown(id)
    /\ R!Approve(id, n)
    /\ approvals' = approvals \cup {<<requests[id].wgKey, n>>}
    /\ UNCHANGED <<where, pc, disk, reply, bounds>>

AdminRejects ==
  /\ \E id \in PendingIds(requests) : R!Reject(id)
  /\ UNCHANGED <<where, pc, disk, reply, approvals, bounds>>

AdminRemoves ==
  /\ \E m \in members : R!Remove(m)
  /\ UNCHANGED <<where, pc, disk, reply, approvals, bounds>>

Time ==
  /\ ticks < MaxTicks
  /\ ticks' = ticks + 1
  /\ R!Tick
  /\ UNCHANGED <<where, pc, disk, reply, approvals, faults, ask>>

Procedure(m) ==
  \/ InstallerJoins(m) \/ Boot(m) \/ LoopJoined(m) \/ LoopAsks(m)
  \/ Stored(m) \/ AskFails(m) \/ Granted(m) \/ Denied(m) \/ AskStatusAgain(m)
  \/ SaveHost(m) \/ Configure(m) \/ EnableMesh(m) \/ DisableJoin(m)
  \/ Restart(m) \/ Reboot(m)

Coordinates(m) ==
  \/ CoordinatorStores(m) \/ CoordinatorRefuses(m)
  \/ CoordinatorReports(m) \/ CoordinatorForgot(m)

Next ==
  \/ \E m \in Machine :
       \/ Procedure(m) \/ Coordinates(m) \/ Skip(m) \/ StatusLost(m)
       \/ ActivationFails(m) \/ PowerCut(m)
  \/ AdminApproves \/ AdminRejects \/ AdminRemoves
  \/ Time

Spec == Init /\ [][Next]_vars

(* Programs keep running, the service is restarted and somebody switches a *)
(* machine on again or presses enter on the last screen of the installer.  *)
(* Not every call fails: a machine that goes on calling reaches the        *)
(* coordinator, and reads its answer, again and again. Nothing is assumed  *)
(* of the admin, of time, of faults and of the s key.                      *)
Answered(m) == Stored(m) \/ Granted(m) \/ Denied(m)

Fairness ==
  \A m \in Machine :
    WF_vars(Procedure(m)) /\ SF_vars(Coordinates(m)) /\ SF_vars(Answered(m))

FairSpec == Spec /\ Fairness

----------------------------------------------------------------------------
TypeOK ==
  /\ R!TypeOK
  /\ ask \in Askings
  /\ where \in [Machine -> {"installer", "server"}]
  /\ pc \in [Machine -> PC]
  /\ joined \in [Machine -> [id: RequestId \cup {NoId}, host: 0..MaxHost]]
  /\ conf \in [Machine -> 0..MaxHost]
  /\ joinUnit \in [Machine -> BOOLEAN]
  /\ meshUnit \in [Machine -> BOOLEAN]
  /\ reply \in [Machine -> Reply]
  /\ approvals \subseteq Machine \X (2..MaxHost)
  /\ ticks \in 0..MaxTicks
  /\ faults \in 0..MaxFaults

(* Nothing joins without an admin approving it (the first promise of       *)
(* registry.go): a machine that took a host number was approved by the     *)
(* admin, itself and for that number, while it was showing its code. Calls *)
(* may be lost and repeated, requests expire, machines share a name.       *)
JoinedWasApproved ==
  \A m \in Machine : joined[m].host # 0 => <<m, joined[m].host>> \in approvals

(* WireGuard is started at boot only with a config for the host number in  *)
(* join.json, which is the one Sync reports and leaves out of its peers.   *)
MeshHasItsConfig ==
  \A m \in Machine :
    meshUnit[m] => conf[m] # 0 /\ conf[m] = joined[m].host

(* A member's machine uses the mesh address its peers route to it, and not *)
(* one from an approval it lost again, however late answers arrive.        *)
ConfMatchesMember ==
  \A m \in Machine, k \in members :
    (conf[m] # 0 /\ k.wgKey = m) => conf[m] = k.host

(* Once a machine has a host number it keeps it: no restart and no repeated *)
(* call sends it through the procedure a second time.                       *)
HostIsKept ==
  [][\A m \in Machine :
       joined[m].host # 0 => joined'[m].host = joined[m].host]_vars

IsMember(m) == \E k \in members : k.wgKey = m

Asks(m) == \E i \in PendingIds(requests) : requests[i].wgKey = m

(* An approved machine gets onto the mesh unless it is removed again,      *)
(* whichever answers are lost, whether the admin skipped the join screen,  *)
(* and however often the machine is switched off before it has the answer. *)
ApprovedJoins ==
  \A m \in Machine : IsMember(m) ~> (meshUnit[m] \/ ~IsMember(m))

(* When the answer to a join request is lost, the machine finds its stored *)
(* request again and shows the code the admin waits for.                   *)
LostRequestIsFound ==
  \A m \in Machine : Asks(m) ~> (joined[m].id # NoId \/ ~Asks(m))

(* A machine whose request expired while it waited does not go on asking   *)
(* for it for ever. Wait has an error for this that says a new one is      *)
(* needed, JoinLoop forgets the request on it, and the installer's last    *)
(* screen promises a machine that skipped joining that it asks again.      *)
ExpiredIsNoticed ==
  LET Holds(m) == joined[m].id \in LiveIds(requests) \cup {NoId} IN
  \A m \in Machine : ~Holds(m) ~> (Holds(m) \/ ~joinUnit[m])
=============================================================================
