----------------------------- MODULE JoinProofs -----------------------------
(***************************************************************************)
(* Machine-checked proofs about Join, for every number of laptops, any     *)
(* bounds and any names: the safety properties of joining. They rest on    *)
(* one inductive invariant, IInv: every request and every machine's place  *)
(* in the procedure is consistent with what the admin approved, and the    *)
(* admin approves a machine once. The last part is about the screen on     *)
(* which the admin decides (ApproveScreen): who is removed from it.        *)
(***************************************************************************)
EXTENDS Join, ApproveScreen, RegistryOpsProofs, SequenceTheorems

JoinState == [id: RequestId \cup {NoId}, host: 0..MaxHost]

\* The types that the argument needs.
Shape ==
  /\ requests \in [DOMAIN requests -> Request]
  /\ DOMAIN requests \subseteq RequestId
  /\ members \subseteq Member
  /\ ask \in Askings
  /\ pc \in [Machine -> PC]
  /\ joined \in [Machine -> JoinState]
  /\ conf \in [Machine -> 0..MaxHost]
  /\ meshUnit \in [Machine -> BOOLEAN]
  /\ reply \in [Machine -> Reply]
  /\ approvals \subseteq Machine \X (2..MaxHost)

\* Requests are the machines' own, and an approved one says what the admin did.
RequestsApproved ==
  \A i \in DOMAIN requests :
    /\ requests[i].wgKey \in Machine
    /\ requests[i].status = "approved" =>
         <<requests[i].wgKey, requests[i].host>> \in approvals

MembersApproved ==
  \A k \in members : k.wgKey \in Machine => <<k.wgKey, k.host>> \in approvals

IsApproval(r) == r # NoReply /\ r.kind = "status" /\ r.status = "approved"

\* An identifier that m holds is of no other machine's request.
HoldsOwn(m) ==
  /\ joined[m].id \in DOMAIN requests => requests[joined[m].id].wgKey = m
  /\ (/\ reply[m] # NoReply /\ reply[m].kind = "id"
      /\ reply[m].id \in DOMAIN requests) => requests[reply[m].id].wgKey = m

\* The answer that m has or acts on is the admin's.
ReplyApproved(m) ==
  /\ IsApproval(reply[m]) => <<m, reply[m].host>> \in approvals
  /\ pc[m] \in Activating => IsApproval(reply[m])

\* What is on the disk of m, by the step of the procedure.
DiskApproved(m) ==
  /\ pc[m] \in {"start", "asking"} => joined[m].id = NoId /\ joined[m].host = 0
  /\ joined[m].host # 0 => <<m, joined[m].host>> \in approvals
  /\ pc[m] = "configuring" => joined[m].host = reply[m].host
  /\ pc[m] = "enabling" => conf[m] # 0
  /\ conf[m] # 0 => conf[m] = joined[m].host
  /\ meshUnit[m] => conf[m] # 0

\* The admin approved m for one host at most, and m waits no more after it.
ApprovedOnce(m) ==
  /\ \A a, b \in 2..MaxHost :
       (<<m, a>> \in approvals /\ <<m, b>> \in approvals) => a = b
  /\ \A a \in 2..MaxHost :
       <<m, a>> \in approvals =>
         joined[m].id # NoId /\ joined[m].id \notin PendingIds(requests)

MachineInv(m) ==
  HoldsOwn(m) /\ ReplyApproved(m) /\ DiskApproved(m) /\ ApprovedOnce(m)

IInv ==
  /\ Shape /\ RequestsApproved /\ MembersApproved
  /\ \A m \in Machine : MachineInv(m)

----------------------------------------------------------------------------
LEMMA InitInv == Init => IInv
<1> SUFFICES ASSUME Init PROVE IInv
  OBVIOUS
<1>1. /\ DOMAIN requests = {} /\ members = {Coordinator}
      /\ requests \in [DOMAIN requests -> Request]
      /\ ask \in Askings
      /\ approvals = {}
      /\ pc = [m \in Machine |-> "start"]
      /\ joined = [m \in Machine |-> [id |-> NoId, host |-> 0]]
      /\ conf = [m \in Machine |-> 0]
      /\ meshUnit = [m \in Machine |-> FALSE]
      /\ reply = [m \in Machine |-> NoReply]
  BY DEF Init, R!Init
<1>2. 0 \in 0..MaxHost
  BY RegistryConstants
<1>3. Shape
  BY <1>1, <1>2, JoinConstants DEF Shape, PC, JoinState, Reply
<1>4. RequestsApproved /\ MembersApproved
  BY <1>1, JoinConstants DEF RequestsApproved, MembersApproved
<1>5. \A m \in Machine : MachineInv(m)
  <2> TAKE m \in Machine
  <2>1. HoldsOwn(m)
    BY <1>1 DEF HoldsOwn
  <2>2. ReplyApproved(m)
    BY <1>1 DEF ReplyApproved, IsApproval, Activating
  <2>3. DiskApproved(m)
    BY <1>1 DEF DiskApproved
  <2>4. ApprovedOnce(m)
    BY <1>1 DEF ApprovedOnce
  <2>5. QED  BY <2>1, <2>2, <2>3, <2>4 DEF MachineInv
<1>6. QED  BY <1>3, <1>4, <1>5 DEF IInv

----------------------------------------------------------------------------
\* Steps of one machine.

(* A machine that a step leaves alone keeps its invariant, also when       *)
(* another machine's request is stored or approved.                        *)
LEMMA OthersKeep ==
  ASSUME NEW m \in Machine, MachineInv(m), Shape,
         UNCHANGED <<pc[m], joined[m], conf[m], meshUnit[m], reply[m]>>,
         approvals \subseteq approvals',
         \A a : <<m, a>> \in approvals' => <<m, a>> \in approvals,
         \A i \in DOMAIN requests' :
           \/ /\ i \in DOMAIN requests
              /\ requests'[i].wgKey = requests[i].wgKey
              /\ requests'[i].status = "pending" => requests[i].status = "pending"
           \/ /\ joined[m].id # i
              /\ reply[m] # [kind |-> "id", id |-> i]
  PROVE  MachineInv(m)'
<1>1. HoldsOwn(m)'
  <2>1. joined'[m].id \in DOMAIN requests' => requests'[joined'[m].id].wgKey = m
    BY DEF MachineInv, HoldsOwn
  <2>2. ASSUME reply'[m] # NoReply, reply'[m].kind = "id",
               reply'[m].id \in DOMAIN requests'
        PROVE  requests'[reply'[m].id].wgKey = m
    <3>1. reply[m] = [kind |-> "id", id |-> reply[m].id]
      BY <2>2 DEF Shape, Reply, StatusReply, IdReply, ErrorReply
    <3>2. QED  BY <2>2, <3>1 DEF MachineInv, HoldsOwn
  <2>3. QED  BY <2>1, <2>2 DEF HoldsOwn
<1>2. ReplyApproved(m)'
  BY DEF MachineInv, ReplyApproved, IsApproval
<1>3. DiskApproved(m)'
  BY DEF MachineInv, DiskApproved
<1>4. ApprovedOnce(m)'
  BY DEF MachineInv, ApprovedOnce, PendingIds
<1>5. QED  BY <1>1, <1>2, <1>3, <1>4 DEF MachineInv

(* A step of one machine that leaves the registry alone preserves IInv     *)
(* when it preserves that machine's part.                                  *)
LEMMA LocalStep ==
  ASSUME IInv, NEW m \in Machine,
         UNCHANGED <<members, requests, ask, approvals>>,
         \A n \in Machine \ {m} :
           UNCHANGED <<pc[n], joined[n], conf[n], meshUnit[n], reply[n]>>,
         Shape', MachineInv(m)'
  PROVE  IInv'
<1>1. RequestsApproved' /\ MembersApproved'
  BY DEF IInv, RequestsApproved, MembersApproved
<1>2. ASSUME NEW n \in Machine \ {m}
      PROVE  MachineInv(n)'
  BY OthersKeep DEF IInv
<1>3. QED  BY <1>1, <1>2 DEF IInv

(* A step that changes where m is and perhaps forgets the answer, and does *)
(* not go into the activation.                                             *)
LEMMA QuietStep ==
  ASSUME IInv, NEW m \in Machine, NEW p \in PC \ Activating,
         UNCHANGED <<members, requests, ask, approvals, joined, conf, meshUnit>>,
         pc' = [pc EXCEPT ![m] = p],
         \/ reply' = reply
         \/ reply' = [reply EXCEPT ![m] = NoReply]
         \/ reply' = [reply EXCEPT ![m] = Error],
         p \in {"start", "asking"} => joined[m].id = NoId /\ joined[m].host = 0
  PROVE  IInv'
<1>1. /\ pc \in [Machine -> PC] /\ reply \in [Machine -> Reply]
      /\ MachineInv(m)
  BY DEF IInv, Shape
<1>2. /\ pc' \in [Machine -> PC] /\ pc'[m] = p
      /\ \A n \in Machine \ {m} : pc'[n] = pc[n]
  BY <1>1
<1>3. /\ reply' \in [Machine -> Reply] /\ reply'[m] \in {reply[m], NoReply, Error}
      /\ \A n \in Machine \ {m} : reply'[n] = reply[n]
  BY <1>1 DEF Reply, Error, ErrorReply
<1>4. Shape'
  BY <1>2, <1>3 DEF IInv, Shape
<1>5. HoldsOwn(m)'
  BY <1>1, <1>3 DEF MachineInv, HoldsOwn, Error
<1>6. ReplyApproved(m)'
  BY <1>1, <1>2, <1>3 DEF MachineInv, ReplyApproved, IsApproval, Error
<1>7. DiskApproved(m)'
  BY <1>1, <1>2 DEF MachineInv, DiskApproved, Activating
<1>8. ApprovedOnce(m)'
  BY <1>1 DEF MachineInv, ApprovedOnce
<1>9. MachineInv(m)'
  BY <1>5, <1>6, <1>7, <1>8 DEF MachineInv
<1>10. QED
  BY <1>2, <1>3, <1>4, <1>9, LocalStep

Quiet(m) ==
  \/ InstallerJoins(m) \/ Boot(m) \/ LoopJoined(m) \/ LoopAsks(m) \/ AskFails(m)
  \/ Denied(m) \/ AskStatusAgain(m) \/ DisableJoin(m) \/ Restart(m) \/ Reboot(m)
  \/ CoordinatorRefuses(m) \/ CoordinatorForgot(m) \/ Skip(m) \/ StatusLost(m)
  \/ ActivationFails(m) \/ PowerCut(m)

LEMMA QuietInv ==
  ASSUME IInv, NEW m \in Machine, Quiet(m)
  PROVE  IInv'
<1>0. pc \in [Machine -> PC]
  BY DEF IInv, Shape
<1>1. DiskApproved(m)
  BY DEF IInv, MachineInv
<1>2. CASE \/ InstallerJoins(m) \/ Boot(m) \/ LoopJoined(m) \/ LoopAsks(m)
           \/ Restart(m) \/ Reboot(m)
  <2>1. /\ UNCHANGED <<members, requests, ask, approvals, joined, conf, meshUnit, reply>>
        /\ \E p \in PC \ Activating :
             /\ pc' = [pc EXCEPT ![m] = p]
             /\ p \in {"start", "asking"} => joined[m].id = NoId /\ joined[m].host = 0
    BY <1>1, <1>2 DEF InstallerJoins, Boot, LoopJoined, LoopAsks, Restart, Reboot,
      Goto, PC, Activating, DiskApproved, reg, disk, bounds
  <2>2. QED  BY <2>1, QuietStep
<1>3. CASE \/ AskFails(m) \/ Denied(m) \/ DisableJoin(m) \/ Skip(m)
           \/ ActivationFails(m) \/ PowerCut(m)
  <2>1. /\ UNCHANGED <<members, requests, ask, approvals, joined, conf, meshUnit>>
        /\ reply' = [reply EXCEPT ![m] = NoReply]
        /\ \E p \in PC \ Activating :
             /\ pc' = [pc EXCEPT ![m] = p]
             /\ p \notin {"start", "asking"}
    BY <1>3 DEF AskFails, Denied, DisableJoin, Skip, ActivationFails, PowerCut,
      GiveUp, Goto, PC, Activating, reg, disk, bounds
  <2>2. QED  BY <2>1, QuietStep
<1>4. CASE \/ AskStatusAgain(m) \/ StatusLost(m)
           \/ CoordinatorRefuses(m) \/ CoordinatorForgot(m)
  <2>1. /\ UNCHANGED <<members, requests, ask, approvals, joined, conf, meshUnit, pc>>
        /\ \/ reply' = [reply EXCEPT ![m] = NoReply]
           \/ reply' = [reply EXCEPT ![m] = Error]
        /\ pc[m] \in {"asking", "polling"}
    BY <1>4 DEF AskStatusAgain, StatusLost, CoordinatorRefuses, CoordinatorForgot,
      reg, disk, bounds
  <2>2. /\ pc' = [pc EXCEPT ![m] = pc[m]]
        /\ pc[m] \in PC \ Activating
        /\ pc[m] \in {"start", "asking"} => joined[m].id = NoId /\ joined[m].host = 0
    BY <1>0, <1>1, <2>1 DEF Activating, DiskApproved
  <2>3. QED  BY <2>1, <2>2, QuietStep
<1>5. QED  BY <1>2, <1>3, <1>4 DEF Quiet

LEMMA StoredInv ==
  ASSUME IInv, NEW m \in Machine, Stored(m)
  PROVE  IInv'
<1> DEFINE i == reply[m].id
<1>1. /\ pc \in [Machine -> PC] /\ reply \in [Machine -> Reply]
      /\ joined \in [Machine -> JoinState]
      /\ HoldsOwn(m) /\ DiskApproved(m) /\ ApprovedOnce(m)
  BY DEF IInv, Shape, MachineInv
<1>2. /\ UNCHANGED <<members, requests, ask, approvals, conf, meshUnit>>
      /\ reply[m] # NoReply /\ reply[m].kind = "id" /\ pc[m] = "asking"
      /\ pc' = [pc EXCEPT ![m] = "polling"]
      /\ joined' = [joined EXCEPT ![m] = [id |-> i, host |-> 0]]
      /\ reply' = [reply EXCEPT ![m] = NoReply]
  BY DEF Stored, Goto, reg, bounds
<1>3. i \in RequestId
  BY <1>1, <1>2 DEF Reply, StatusReply, IdReply, ErrorReply
<1>4. [id |-> i, host |-> 0] \in JoinState
  BY <1>3, RegistryConstants DEF JoinState
<1> HIDE DEF i
<1>5. /\ pc'[m] = "polling" /\ joined'[m] = [id |-> i, host |-> 0] /\ reply'[m] = NoReply
      /\ pc' \in [Machine -> PC] /\ joined' \in [Machine -> JoinState]
      /\ reply' \in [Machine -> Reply]
      /\ \A n \in Machine \ {m} :
           pc'[n] = pc[n] /\ joined'[n] = joined[n] /\ reply'[n] = reply[n]
  BY <1>1, <1>2, <1>4 DEF PC, Reply
<1>6. Shape'
  BY <1>2, <1>5 DEF IInv, Shape
<1>7. HoldsOwn(m)'
  BY <1>1, <1>2, <1>5 DEF HoldsOwn, i
<1>8. ReplyApproved(m)'
  BY <1>5 DEF ReplyApproved, IsApproval, Activating
<1>9. DiskApproved(m)'
  BY <1>1, <1>2, <1>5 DEF DiskApproved
<1>10. ApprovedOnce(m)'
  \* m held no request, so the admin never approved it.
  <2>1. \A a \in 2..MaxHost : <<m, a>> \notin approvals
    BY <1>1, <1>2 DEF DiskApproved, ApprovedOnce
  <2>2. QED  BY <1>2, <2>1 DEF ApprovedOnce
<1>11. MachineInv(m)'
  BY <1>7, <1>8, <1>9, <1>10 DEF MachineInv
<1>12. QED  BY <1>2, <1>5, <1>6, <1>11, LocalStep

LEMMA GrantedInv ==
  ASSUME IInv, NEW m \in Machine, Granted(m)
  PROVE  IInv'
<1>1. pc \in [Machine -> PC] /\ MachineInv(m)
  BY DEF IInv, Shape
<1>2. /\ UNCHANGED <<members, requests, ask, approvals, joined, conf, meshUnit, reply>>
      /\ IsApproval(reply[m])
      /\ pc' = [pc EXCEPT ![m] = "granted"]
  BY DEF Granted, Goto, IsApproval, reg, disk, bounds
<1>3. /\ pc'[m] = "granted" /\ pc' \in [Machine -> PC]
      /\ \A n \in Machine \ {m} : pc'[n] = pc[n]
  BY <1>1, <1>2 DEF PC
<1>4. Shape'
  BY <1>2, <1>3 DEF IInv, Shape
<1>5. MachineInv(m)'
  BY <1>1, <1>2, <1>3
  DEF MachineInv, HoldsOwn, ReplyApproved, IsApproval, DiskApproved, ApprovedOnce
<1>6. QED  BY <1>2, <1>3, <1>4, <1>5, LocalStep

(* A machine that is activating acts on the number the admin gave it.      *)
LEMMA ActsOnApproval ==
  ASSUME IInv, NEW m \in Machine, pc[m] \in Activating
  PROVE  /\ IsApproval(reply[m])
         /\ reply[m].host \in 2..MaxHost
         /\ <<m, reply[m].host>> \in approvals
         /\ joined[m].host # 0 => joined[m].host = reply[m].host
<1>1. IsApproval(reply[m]) /\ <<m, reply[m].host>> \in approvals
  BY DEF IInv, MachineInv, ReplyApproved
<1>2. reply[m].host \in 2..MaxHost
  BY <1>1 DEF IInv, Shape
<1>3. ASSUME joined[m].host # 0
      PROVE  joined[m].host = reply[m].host
  <2>1. <<m, joined[m].host>> \in approvals
    BY <1>3 DEF IInv, MachineInv, DiskApproved
  <2>2. joined[m].host \in 2..MaxHost
    BY <2>1 DEF IInv, Shape
  <2>3. QED  BY <1>1, <1>2, <2>1, <2>2 DEF IInv, MachineInv, ApprovedOnce
<1>4. QED  BY <1>1, <1>2, <1>3

LEMMA SaveHostInv ==
  ASSUME IInv, NEW m \in Machine, SaveHost(m)
  PROVE  IInv'
<1> DEFINE h == reply[m].host
<1>1. /\ pc \in [Machine -> PC] /\ joined \in [Machine -> JoinState] /\ MachineInv(m)
  BY DEF IInv, Shape
<1>2. /\ UNCHANGED <<members, requests, ask, approvals, conf, meshUnit, reply>>
      /\ pc[m] = "granted"
      /\ pc' = [pc EXCEPT ![m] = "configuring"]
      /\ joined' = [joined EXCEPT ![m].host = h]
  BY DEF SaveHost, Goto, reg, bounds
<1>3. /\ h \in 2..MaxHost /\ <<m, h>> \in approvals
      /\ joined[m].host # 0 => joined[m].host = h
  BY <1>2, ActsOnApproval DEF Activating
<1>4. h \in 0..MaxHost /\ h # 0
  BY <1>3, RegistryConstants
<1> HIDE DEF h
<1>5. /\ joined[m] \in JoinState
      /\ joined'[m] = [joined[m] EXCEPT !.host = h]
  BY <1>1, <1>2
<1>6. /\ joined'[m].id = joined[m].id /\ joined'[m].host = h
      /\ joined'[m] \in JoinState
  BY <1>4, <1>5 DEF JoinState
<1>7. /\ pc'[m] = "configuring" /\ pc' \in [Machine -> PC]
      /\ \A n \in Machine \ {m} : pc'[n] = pc[n] /\ joined'[n] = joined[n]
  BY <1>1, <1>2 DEF PC
<1>8. joined' \in [Machine -> JoinState]
  BY <1>1, <1>2, <1>5, <1>6
<1>9. Shape'
  BY <1>2, <1>7, <1>8 DEF IInv, Shape
<1>10. HoldsOwn(m)' /\ ApprovedOnce(m)'
  BY <1>1, <1>2, <1>6 DEF MachineInv, HoldsOwn, ApprovedOnce
<1>11. ReplyApproved(m)'
  BY <1>1, <1>2, <1>7 DEF MachineInv, ReplyApproved, IsApproval, Activating
<1>12. DiskApproved(m)'
  BY <1>1, <1>2, <1>3, <1>4, <1>6, <1>7 DEF MachineInv, DiskApproved, h
<1>13. QED
  BY <1>2, <1>7, <1>9, <1>10, <1>11, <1>12, LocalStep DEF MachineInv

LEMMA ConfigureInv ==
  ASSUME IInv, NEW m \in Machine, Configure(m)
  PROVE  IInv'
<1> DEFINE h == reply[m].host
<1>1. /\ pc \in [Machine -> PC] /\ conf \in [Machine -> 0..MaxHost] /\ MachineInv(m)
  BY DEF IInv, Shape
<1>2. /\ UNCHANGED <<members, requests, ask, approvals, joined, meshUnit, reply>>
      /\ pc[m] = "configuring"
      /\ pc' = [pc EXCEPT ![m] = "enabling"]
      /\ conf' = [conf EXCEPT ![m] = h]
  BY DEF Configure, Goto, reg, bounds
<1>3. h \in 2..MaxHost /\ h = joined[m].host
  BY <1>1, <1>2, ActsOnApproval DEF Activating, MachineInv, DiskApproved
<1>4. h \in 0..MaxHost /\ h # 0
  BY <1>3, RegistryConstants
<1> HIDE DEF h
<1>5. /\ pc'[m] = "enabling" /\ conf'[m] = h
      /\ pc' \in [Machine -> PC] /\ conf' \in [Machine -> 0..MaxHost]
      /\ \A n \in Machine \ {m} : pc'[n] = pc[n] /\ conf'[n] = conf[n]
  BY <1>1, <1>2, <1>4 DEF PC
<1>6. Shape'
  BY <1>2, <1>5 DEF IInv, Shape
<1>7. HoldsOwn(m)' /\ ApprovedOnce(m)'
  BY <1>1, <1>2 DEF MachineInv, HoldsOwn, ApprovedOnce
<1>8. ReplyApproved(m)'
  BY <1>1, <1>2, <1>5 DEF MachineInv, ReplyApproved, IsApproval, Activating
<1>9. DiskApproved(m)'
  BY <1>1, <1>2, <1>3, <1>4, <1>5 DEF MachineInv, DiskApproved
<1>10. QED
  BY <1>2, <1>5, <1>6, <1>7, <1>8, <1>9, LocalStep DEF MachineInv

LEMMA EnableMeshInv ==
  ASSUME IInv, NEW m \in Machine, EnableMesh(m)
  PROVE  IInv'
<1>1. /\ pc \in [Machine -> PC] /\ meshUnit \in [Machine -> BOOLEAN] /\ MachineInv(m)
  BY DEF IInv, Shape
<1>2. /\ UNCHANGED <<members, requests, ask, approvals, joined, conf, reply>>
      /\ pc[m] = "enabling"
      /\ pc' = [pc EXCEPT ![m] = "finishing"]
      /\ meshUnit' = [meshUnit EXCEPT ![m] = TRUE]
  BY DEF EnableMesh, Goto, reg, bounds
<1>3. /\ pc'[m] = "finishing" /\ meshUnit'[m]
      /\ pc' \in [Machine -> PC] /\ meshUnit' \in [Machine -> BOOLEAN]
      /\ \A n \in Machine \ {m} : pc'[n] = pc[n] /\ meshUnit'[n] = meshUnit[n]
  BY <1>1, <1>2 DEF PC
<1>4. Shape'
  BY <1>2, <1>3 DEF IInv, Shape
<1>5. HoldsOwn(m)' /\ ApprovedOnce(m)'
  BY <1>1, <1>2 DEF MachineInv, HoldsOwn, ApprovedOnce
<1>6. ReplyApproved(m)'
  BY <1>1, <1>2, <1>3 DEF MachineInv, ReplyApproved, IsApproval, Activating
<1>7. DiskApproved(m)'
  BY <1>1, <1>2, <1>3 DEF MachineInv, DiskApproved
<1>8. QED
  BY <1>2, <1>3, <1>4, <1>5, <1>6, <1>7, LocalStep DEF MachineInv

----------------------------------------------------------------------------
\* Steps of the registry.

(* What the registry's calls do, in the operators of RegistryOps.          *)
LEMMA RegistryCalls ==
  ASSUME NEW id
  PROVE  /\ \A r : R!AddRequest(r, id) =>
              /\ UNCHANGED members
              /\ \/ id \in Repeated(Prune(requests), r) /\ requests' = Prune(requests)
                 \/ /\ id \in RequestId \ DOMAIN requests
                    /\ requests' = Extend(Prune(requests), id, NewRequest(r))
         /\ R!RequestStatus(id) =>
              /\ UNCHANGED members /\ id \in LiveIds(requests)
              /\ requests' = [Prune(requests) EXCEPT ![id] = Reported(members, @)]
         /\ \A n : R!Approve(id, n) =>
              /\ id \in PendingIds(requests)
              /\ members' = members \cup {NewMember(requests[id], n)}
              /\ requests' = Settle(requests, id, n)
<1>1. R!Prune(requests) = Prune(requests)
  BY DEF R!Prune, Prune, R!LiveIds, LiveIds
<1>2. \A qs, r : R!Repeated(qs, r) = Repeated(qs, r)
  BY DEF R!Repeated, Repeated, R!PendingIds, PendingIds, R!SameMachine, SameMachine
<1>3. \A qs, r : R!Extend(qs, id, R!NewRequest(r)) = Extend(qs, id, NewRequest(r))
  BY DEF R!Extend, Extend, R!NewRequest, NewRequest
<1>4. \A q : R!Reported(members, q) = Reported(members, q)
  BY DEF R!Reported, Reported
<1>5. \A n : R!Settle(requests, id, n) = Settle(requests, id, n)
  BY DEF R!Settle, Settle
<1>6. ASSUME NEW r, R!AddRequest(r, id)
      PROVE  /\ UNCHANGED members
             /\ \/ id \in Repeated(Prune(requests), r) /\ requests' = Prune(requests)
                \/ /\ id \in RequestId \ DOMAIN requests
                   /\ requests' = Extend(Prune(requests), id, NewRequest(r))
  BY <1>1, <1>2, <1>3, <1>6 DEF R!AddRequest
<1>7. ASSUME R!RequestStatus(id)
      PROVE  /\ UNCHANGED members /\ id \in LiveIds(requests)
             /\ requests' = [Prune(requests) EXCEPT ![id] = Reported(members, @)]
  BY <1>1, <1>4, <1>7 DEF R!RequestStatus, R!LiveIds, LiveIds
<1>8. ASSUME NEW n, R!Approve(id, n)
      PROVE  /\ id \in PendingIds(requests)
             /\ members' = members \cup {NewMember(requests[id], n)}
             /\ requests' = Settle(requests, id, n)
  BY <1>5, <1>8
  DEF R!Approve, R!PendingIds, PendingIds, R!NewMember, NewMember
<1>9. QED  BY <1>6, <1>7, <1>8

(* The table after a step in which no request is new, none waits again and *)
(* the approved ones are the admin's.                                      *)
OlderTable ==
  /\ requests' \in [DOMAIN requests' -> Request]
  /\ DOMAIN requests' \subseteq DOMAIN requests
  /\ \A i \in DOMAIN requests' :
       /\ requests'[i].wgKey = requests[i].wgKey
       /\ requests'[i].status = "pending" => requests[i].status = "pending"
       /\ requests'[i].status = "approved" =>
            <<requests'[i].wgKey, requests'[i].host>> \in approvals'

(* A step of the registry alone: no machine's own state changes.           *)
LEMMA TableStep ==
  ASSUME IInv, OlderTable, members' \subseteq members,
         UNCHANGED <<ask, pc, joined, conf, meshUnit, reply, approvals>>
  PROVE  IInv'
<1>1. Shape'
  BY DEF IInv, Shape, OlderTable
<1>2. RequestsApproved' /\ MembersApproved'
  BY DEF IInv, RequestsApproved, MembersApproved, OlderTable
<1>3. ASSUME NEW m \in Machine
      PROVE  MachineInv(m)'
  BY OthersKeep DEF IInv, OlderTable
<1>4. QED  BY <1>1, <1>2, <1>3 DEF IInv

LEMMA RejectInv ==
  ASSUME IInv, AdminRejects
  PROVE  IInv'
<1>1. /\ UNCHANGED <<members, ask, pc, joined, conf, meshUnit, reply, approvals>>
      /\ \E id \in DOMAIN requests :
           requests' = [requests EXCEPT ![id].status = "rejected"]
  BY DEF AdminRejects, R!Reject, PendingIds, disk, bounds
<1>2. PICK id \in DOMAIN requests : requests' = [requests EXCEPT ![id].status = "rejected"]
  BY <1>1
<1>3. /\ requests \in [DOMAIN requests -> Request] /\ requests[id] \in Request
      /\ RequestsApproved
  BY DEF IInv, Shape
<1>4. /\ DOMAIN requests' = DOMAIN requests
      /\ requests'[id] = [requests[id] EXCEPT !.status = "rejected"]
      /\ \A i \in DOMAIN requests : i # id => requests'[i] = requests[i]
  BY <1>2, <1>3
<1>5. /\ requests'[id] \in Request /\ requests'[id].wgKey = requests[id].wgKey
      /\ requests'[id].status = "rejected"
  BY <1>3, <1>4 DEF Request, Status
<1>6. requests' \in [DOMAIN requests' -> Request]
  BY <1>2, <1>3, <1>4, <1>5
<1>7. OlderTable
  BY <1>1, <1>3, <1>4, <1>5, <1>6 DEF OlderTable, RequestsApproved
<1>8. QED  BY <1>1, <1>7, TableStep

LEMMA RemoveInv ==
  ASSUME IInv, AdminRemoves
  PROVE  IInv'
<1>1. /\ UNCHANGED <<requests, ask, pc, joined, conf, meshUnit, reply, approvals>>
      /\ members' \subseteq members
  BY DEF AdminRemoves, R!Remove, disk, bounds
<1>2. OlderTable
  BY <1>1 DEF IInv, Shape, RequestsApproved, OlderTable
<1>3. QED  BY <1>1, <1>2, TableStep

LEMMA TimeInv ==
  ASSUME IInv, Time
  PROVE  IInv'
<1>1. /\ UNCHANGED <<members, ask, pc, joined, conf, meshUnit, reply, approvals>>
      /\ requests' = Grow(requests)
  BY DEF Time, R!Tick, R!Grow, Grow, disk
<1>2. /\ requests \in [DOMAIN requests -> Request] /\ RequestsApproved
  BY DEF IInv, Shape
<1>3. \A i \in DOMAIN requests :
        /\ requests'[i] \in Request
        /\ requests'[i].wgKey = requests[i].wgKey
        /\ requests'[i].status = requests[i].status
        /\ requests'[i].host = requests[i].host
  BY <1>1, <1>2, GrowKeeps
<1>4. requests' \in [DOMAIN requests -> Request]
  BY <1>1, <1>3 DEF Grow
<1>5. OlderTable
  BY <1>1, <1>2, <1>3, <1>4 DEF OlderTable, RequestsApproved
<1>6. QED  BY <1>1, <1>5, TableStep

(* A call of m that leaves an older table and an answer of its own.        *)
LEMMA AnswerStep ==
  ASSUME IInv, NEW m \in Machine, OlderTable, NEW r \in Reply,
         UNCHANGED <<members, ask, pc, joined, conf, meshUnit, approvals>>,
         reply' = [reply EXCEPT ![m] = r], pc[m] \notin Activating,
         r # NoReply /\ r.kind = "id" /\ r.id \in DOMAIN requests' =>
           requests'[r.id].wgKey = m,
         IsApproval(r) => <<m, r.host>> \in approvals
  PROVE  IInv'
<1>1. reply \in [Machine -> Reply] /\ MachineInv(m)
  BY DEF IInv, Shape
<1>2. /\ reply' \in [Machine -> Reply] /\ reply'[m] = r
      /\ \A n \in Machine \ {m} : reply'[n] = reply[n]
  BY <1>1
<1>3. Shape'
  BY <1>2 DEF IInv, Shape, OlderTable
<1>4. RequestsApproved' /\ MembersApproved'
  BY DEF IInv, RequestsApproved, MembersApproved, OlderTable
<1>5. ASSUME NEW n \in Machine \ {m}
      PROVE  MachineInv(n)'
  BY <1>2, OthersKeep DEF IInv, OlderTable
<1>6. HoldsOwn(m)'
  BY <1>1, <1>2 DEF MachineInv, HoldsOwn, OlderTable
<1>7. ReplyApproved(m)'
  BY <1>1, <1>2 DEF MachineInv, ReplyApproved, IsApproval
<1>8. DiskApproved(m)' /\ ApprovedOnce(m)'
  <2>1. pc[m] # "configuring"
    BY DEF Activating
  <2>2. DiskApproved(m)'
    BY <1>1, <2>1 DEF MachineInv, DiskApproved
  <2>3. PendingIds(requests') \subseteq PendingIds(requests)
    BY DEF OlderTable, PendingIds
  <2>4. QED  BY <1>1, <2>2, <2>3 DEF MachineInv, ApprovedOnce
<1>9. QED
  BY <1>3, <1>4, <1>5, <1>6, <1>7, <1>8 DEF IInv, MachineInv

\* Pruning leaves an older table.
LEMMA PrunedIsOlder ==
  ASSUME IInv, requests' = Prune(requests), UNCHANGED approvals
  PROVE  OlderTable
<1>1. requests \in [DOMAIN requests -> Request] /\ RequestsApproved
  BY DEF IInv, Shape
<1>2. /\ DOMAIN requests' \subseteq DOMAIN requests
      /\ requests' \in [DOMAIN requests' -> Request]
      /\ \A i \in DOMAIN requests' : requests'[i] = requests[i]
  BY <1>1, PruneKeeps
<1>3. QED
  BY <1>1, <1>2 DEF OlderTable, RequestsApproved

LEMMA CoordinatorStoresInv ==
  ASSUME IInv, NEW m \in Machine, CoordinatorStores(m)
  PROVE  IInv'
<1>1. PICK id \in RequestId :
        /\ id \in DOMAIN requests \/ Fresh(id)
        /\ R!AddRequest(ask[m], id)
        /\ reply' = [reply EXCEPT ![m] = [kind |-> "id", id |-> id]]
  BY DEF CoordinatorStores
<1>2. /\ UNCHANGED <<ask, pc, joined, conf, meshUnit, approvals>>
      /\ pc[m] = "asking"
  BY DEF CoordinatorStores, disk, bounds
<1> DEFINE r == [kind |-> "id", id |-> id]
           qs == Prune(requests)
<1>3. r \in Reply /\ r.kind = "id" /\ r.id = id
  BY DEF Reply, IdReply
<1>4. ask[m].wgKey = m /\ ask[m] \in JoinRequest
  BY JoinConstants DEF IInv, Shape
<1>5. /\ UNCHANGED members
      /\ \/ id \in Repeated(qs, ask[m]) /\ requests' = qs
         \/ /\ id \in RequestId \ DOMAIN requests
            /\ requests' = Extend(qs, id, NewRequest(ask[m]))
  BY <1>1, RegistryCalls
<1>6. /\ reply \in [Machine -> Reply] /\ MachineInv(m) /\ RequestsApproved
      /\ requests \in [DOMAIN requests -> Request]
      /\ DOMAIN requests \subseteq RequestId
  BY DEF IInv, Shape
<1>7. /\ DOMAIN qs \subseteq DOMAIN requests
      /\ qs \in [DOMAIN qs -> Request]
      /\ \A i \in DOMAIN qs : qs[i] = requests[i]
  BY <1>6, PruneKeeps
<1>8. CASE id \in Repeated(qs, ask[m]) /\ requests' = qs
  <2>1. id \in DOMAIN qs /\ qs[id].wgKey = m
    BY <1>4, <1>8 DEF Repeated, PendingIds, SameMachine
  <2>2. ~IsApproval(r) /\ pc[m] \notin Activating
    BY <1>2, <1>3 DEF IsApproval, Activating
  <2>3. OlderTable
    BY <1>2, <1>8, PrunedIsOlder
  <2>4. r # NoReply /\ r.kind = "id" /\ r.id \in DOMAIN requests' =>
          requests'[r.id].wgKey = m
    BY <1>3, <1>8, <2>1
  <2> HIDE DEF r
  <2>5. reply' = [reply EXCEPT ![m] = r]
    BY <1>1 DEF r
  <2>6. QED  BY <1>2, <1>3, <1>5, <2>2, <2>3, <2>4, <2>5, AnswerStep
<1>9. CASE /\ id \in RequestId \ DOMAIN requests
           /\ requests' = Extend(qs, id, NewRequest(ask[m]))
  <2> DEFINE q == NewRequest(ask[m])
  <2>1. q \in Request /\ q.wgKey = m /\ q.status = "pending"
    BY <1>4, NewRequestWaits
  <2> HIDE DEF q, qs
  <2>2. id \notin DOMAIN qs /\ requests' = Extend(qs, id, q)
    BY <1>7, <1>9 DEF q
  <2>3. /\ DOMAIN requests' = DOMAIN qs \cup {id}
        /\ requests' \in [DOMAIN qs \cup {id} -> Request]
        /\ requests'[id] = q
        /\ \A i \in DOMAIN qs : i # id /\ requests'[i] = qs[i]
    BY <1>7, <2>1, <2>2, ExtendKeeps
  <2>4. \A n \in Machine : joined[n].id # id /\ reply[n] # r
    BY <1>1, <1>9 DEF Fresh
  <2>5. /\ reply' \in [Machine -> Reply] /\ reply'[m] = r
        /\ \A n \in Machine \ {m} : reply'[n] = reply[n]
    BY <1>1, <1>3, <1>6
  <2>6. Shape'
    BY <1>2, <1>5, <1>6, <1>7, <2>3, <2>5 DEF IInv, Shape
  <2>7. RequestsApproved'
    BY <1>2, <1>6, <1>7, <2>1, <2>3 DEF RequestsApproved
  <2>8. MembersApproved'
    BY <1>2, <1>5 DEF IInv, MembersApproved
  <2>9. ASSUME NEW n \in Machine \ {m}
        PROVE  MachineInv(n)'
    <3>1. \A i \in DOMAIN requests' :
            \/ /\ i \in DOMAIN requests
               /\ requests'[i].wgKey = requests[i].wgKey
               /\ requests'[i].status = "pending" => requests[i].status = "pending"
            \/ /\ joined[n].id # i
               /\ reply[n] # [kind |-> "id", id |-> i]
      BY <1>7, <2>3, <2>4
    <3>2. QED  BY <1>2, <2>5, <3>1, OthersKeep DEF IInv
  <2>10. MachineInv(m)'
    <3>1. HoldsOwn(m)'
      BY <1>2, <1>3, <1>6, <1>7, <2>1, <2>3, <2>5 DEF MachineInv, HoldsOwn
    <3>2. ReplyApproved(m)'
      BY <1>2, <1>3, <2>5 DEF ReplyApproved, IsApproval, Activating
    <3>3. DiskApproved(m)'
      BY <1>2, <1>6 DEF MachineInv, DiskApproved
    <3>4. joined[m].id \notin PendingIds(requests) =>
            joined[m].id \notin PendingIds(requests')
      BY <1>7, <2>3, <2>4 DEF PendingIds
    <3>5. ApprovedOnce(m)'
      BY <1>2, <1>6, <3>4 DEF MachineInv, ApprovedOnce
    <3>6. QED  BY <3>1, <3>2, <3>3, <3>5 DEF MachineInv
  <2>11. QED  BY <2>6, <2>7, <2>8, <2>9, <2>10 DEF IInv
<1>10. QED  BY <1>5, <1>8, <1>9

LEMMA CoordinatorReportsInv ==
  ASSUME IInv, NEW m \in Machine, CoordinatorReports(m)
  PROVE  IInv'
<1> DEFINE id == joined[m].id
           qs == Prune(requests)
           r == [kind |-> "status", status |-> requests'[id].status,
                 host |-> requests'[id].host]
<1>1. /\ UNCHANGED <<ask, pc, joined, conf, meshUnit, approvals>>
      /\ pc[m] = "polling" /\ R!RequestStatus(id)
      /\ reply' = [reply EXCEPT ![m] = r]
  BY DEF CoordinatorReports, disk, bounds
<1>2. /\ UNCHANGED members /\ id \in LiveIds(requests)
      /\ requests' = [qs EXCEPT ![id] = Reported(members, @)]
  BY <1>1, RegistryCalls
<1>3. /\ requests \in [DOMAIN requests -> Request] /\ members \subseteq Member
      /\ RequestsApproved /\ MembersApproved /\ HoldsOwn(m)
  BY DEF IInv, Shape, MachineInv
<1>4. /\ DOMAIN qs \subseteq DOMAIN requests
      /\ qs \in [DOMAIN qs -> Request]
      /\ \A i \in DOMAIN qs : qs[i] = requests[i]
  BY <1>3, PruneKeeps
<1>5. id \in DOMAIN qs /\ requests[id].wgKey = m
  BY <1>2, <1>3 DEF LiveIds, Prune, HoldsOwn
<1> HIDE DEF qs, id
<1>6. /\ DOMAIN requests' = DOMAIN qs
      /\ requests'[id] = Reported(members, requests[id])
      /\ \A i \in DOMAIN qs : i # id => requests'[i] = requests[i]
  BY <1>2, <1>4, <1>5
<1>7. /\ requests'[id] \in Request /\ requests'[id].wgKey = m
      /\ requests'[id].status = "pending" => requests[id].status = "pending"
      /\ requests'[id].status = "approved" => <<m, requests'[id].host>> \in approvals
  <2>1. requests[id] \in Request
    BY <1>3, <1>4, <1>5
  <2>2. CASE requests[id].status = "pending" /\ \E k \in members : k.wgKey = m
    <3>1. PICK k \in members :
            /\ k.wgKey = m
            /\ Reported(members, requests[id]) =
                 [requests[id] EXCEPT !.status = "approved", !.host = k.host]
      BY <1>5, <2>2 DEF Reported
    <3>2. k.host \in 0..MaxHost /\ <<m, k.host>> \in approvals
      BY <1>3, <3>1, RegistryConstants DEF Member, MembersApproved
    <3>3. requests'[id] = [requests[id] EXCEPT !.status = "approved", !.host = k.host]
      BY <1>6, <3>1
    <3>4. requests'[id] \in Request
      BY <2>1, <3>2, <3>3 DEF Request, Status
    <3>5. /\ requests'[id].status = "approved" /\ requests'[id].host = k.host
          /\ requests'[id].wgKey = requests[id].wgKey
      BY <2>1, <3>3 DEF Request
    <3>6. QED
      BY <1>5, <2>2, <3>2, <3>4, <3>5
  <2>3. CASE ~(requests[id].status = "pending" /\ \E k \in members : k.wgKey = m)
    <3>1. requests'[id] = requests[id]
      BY <1>5, <1>6, <2>3 DEF Reported
    <3>2. QED
      BY <1>3, <1>4, <1>5, <2>1, <3>1 DEF RequestsApproved
  <2>4. QED  BY <2>2, <2>3
<1>8. requests' \in [DOMAIN requests' -> Request]
  BY <1>2, <1>3, <1>4, <1>5, <1>6, <1>7
<1>9. OlderTable
  BY <1>1, <1>3, <1>4, <1>5, <1>6, <1>7, <1>8 DEF OlderTable, RequestsApproved
<1>10. r \in Reply /\ r.kind = "status" /\ r.status = requests'[id].status
       /\ r.host = requests'[id].host
  BY <1>7 DEF Request, Reply, StatusReply
<1> HIDE DEF r
<1>11. /\ IsApproval(r) => <<m, r.host>> \in approvals
       /\ pc[m] \notin Activating
  BY <1>1, <1>7, <1>10 DEF IsApproval, Activating
<1>12. QED
  BY <1>1, <1>2, <1>9, <1>10, <1>11, AnswerStep

LEMMA ApproveInv ==
  ASSUME IInv, AdminApproves
  PROVE  IInv'
<1>1. PICK id \in PendingIds(requests), h \in 2..MaxHost :
        /\ Shown(id)
        /\ R!Approve(id, h)
        /\ approvals' = approvals \cup {<<requests[id].wgKey, h>>}
  BY DEF AdminApproves
<1>2. /\ UNCHANGED <<ask, pc, joined, conf, meshUnit, reply>>
      /\ id \in PendingIds(requests)
      /\ members' = members \cup {NewMember(requests[id], h)}
      /\ requests' = Settle(requests, id, h)
  BY <1>1, RegistryCalls DEF AdminApproves, disk, bounds
<1>3. /\ requests \in [DOMAIN requests -> Request] /\ members \subseteq Member
      /\ DOMAIN requests \subseteq RequestId /\ approvals \subseteq Machine \X (2..MaxHost)
      /\ RequestsApproved /\ MembersApproved
      /\ id \in DOMAIN requests /\ requests[id].status = "pending"
  BY <1>2 DEF IInv, Shape, PendingIds
<1>4. PICK m \in Machine : joined[m].id = id /\ requests[id].wgKey = m
  BY <1>1 DEF Shown
<1>5. approvals' = approvals \cup {<<m, h>>}
  BY <1>1, <1>4
<1>6. /\ DOMAIN requests' = DOMAIN requests
      /\ requests' \in [DOMAIN requests -> Request]
      /\ \A i \in DOMAIN requests :
           /\ requests'[i].wgKey = requests[i].wgKey
           /\ requests[i].status # "pending" => requests'[i] = requests[i]
           /\ requests'[i].status = "pending" =>
                requests[i].status = "pending" /\ requests[i].wgKey # m
           /\ requests'[i].status = "approved" /\ requests[i].status = "pending" =>
                requests'[i].host = h /\ requests[i].wgKey = m
  BY <1>2, <1>3, <1>4, SettleFacts
<1>7. /\ NewMember(requests[id], h) \in Member
      /\ NewMember(requests[id], h).host = h
      /\ NewMember(requests[id], h).wgKey = m
  BY <1>3, <1>4, NewMemberOfRequest
<1>8. Shape'
  BY <1>2, <1>3, <1>5, <1>6, <1>7 DEF IInv, Shape
<1>9. RequestsApproved'
  <2>1. ASSUME NEW i \in DOMAIN requests, requests'[i].status = "approved"
        PROVE  <<requests'[i].wgKey, requests'[i].host>> \in approvals'
    <3>1. CASE requests[i].status = "pending"
      BY <1>5, <1>6, <2>1, <3>1
    <3>2. CASE requests[i].status # "pending"
      BY <1>3, <1>5, <1>6, <2>1, <3>2 DEF RequestsApproved
    <3>3. QED  BY <3>1, <3>2
  <2>2. QED  BY <1>3, <1>6, <2>1 DEF RequestsApproved
<1>10. MembersApproved'
  BY <1>2, <1>3, <1>5, <1>7 DEF MembersApproved
<1>11. ASSUME NEW n \in Machine \ {m}
       PROVE  MachineInv(n)'
  <2>1. \A a : <<n, a>> \in approvals' => <<n, a>> \in approvals
    BY <1>5
  <2>2. \A i \in DOMAIN requests' :
          /\ i \in DOMAIN requests
          /\ requests'[i].wgKey = requests[i].wgKey
          /\ requests'[i].status = "pending" => requests[i].status = "pending"
    BY <1>6
  <2>3. QED  BY <1>2, <1>5, <2>1, <2>2, OthersKeep DEF IInv
<1>12. MachineInv(m)'
  \* The request that m shows waited, so the admin had not approved m before.
  <2>1. MachineInv(m) /\ \A a \in 2..MaxHost : <<m, a>> \notin approvals
    BY <1>2, <1>4 DEF IInv, MachineInv, ApprovedOnce
  <2>2. HoldsOwn(m)'
    BY <1>2, <1>6, <2>1 DEF MachineInv, HoldsOwn
  <2>3. ReplyApproved(m)'
    BY <1>2, <1>5, <2>1 DEF MachineInv, ReplyApproved, IsApproval
  <2>4. DiskApproved(m)'
    BY <1>2, <1>5, <2>1 DEF MachineInv, DiskApproved
  <2>5. ApprovedOnce(m)'
    <3>1. id # NoId
      BY <1>3, JoinConstants
    <3>2. id \notin PendingIds(requests')
      BY <1>3, <1>4, <1>6 DEF PendingIds
    <3>3. \A a \in 2..MaxHost : <<m, a>> \in approvals' => a = h
      BY <1>5, <2>1
    <3>4. QED  BY <1>2, <1>4, <3>1, <3>2, <3>3 DEF ApprovedOnce
  <2>6. QED  BY <2>2, <2>3, <2>4, <2>5 DEF MachineInv
<1>13. QED  BY <1>8, <1>9, <1>10, <1>11, <1>12 DEF IInv

----------------------------------------------------------------------------
\* The theorems.

LEMMA NextInv == IInv /\ [Next]_vars => IInv'
<1> SUFFICES ASSUME IInv, [Next]_vars PROVE IInv'
  OBVIOUS
<1>1. ASSUME NEW m \in Machine,
             \/ Procedure(m) \/ Coordinates(m) \/ Skip(m) \/ StatusLost(m)
             \/ ActivationFails(m) \/ PowerCut(m)
      PROVE  IInv'
  BY <1>1, QuietInv, StoredInv, GrantedInv, SaveHostInv, ConfigureInv,
     EnableMeshInv, CoordinatorStoresInv, CoordinatorReportsInv
  DEF Procedure, Coordinates, Quiet
<1>2. ASSUME AdminApproves PROVE IInv'
  BY <1>2, ApproveInv
<1>3. ASSUME AdminRejects PROVE IInv'
  BY <1>3, RejectInv
<1>4. ASSUME AdminRemoves PROVE IInv'
  BY <1>4, RemoveInv
<1>5. ASSUME Time PROVE IInv'
  BY <1>5, TimeInv
<1>6. ASSUME UNCHANGED vars PROVE IInv'
  <2>1. OlderTable
    BY <1>6 DEF IInv, Shape, RequestsApproved, OlderTable, vars, reg
  <2>2. QED  BY <1>6, <2>1, TableStep DEF vars, reg, disk, bounds
<1>7. QED  BY <1>1, <1>2, <1>3, <1>4, <1>5, <1>6 DEF Next

LEMMA InvHolds == Spec => []IInv
BY InitInv, NextInv, PTL DEF Spec

(* Nothing joins without an admin approving it: whatever host number a     *)
(* machine took from an answer (Node.Wait, Node.Activate), the admin gave  *)
(* it to that machine while it was showing its code.                       *)
THEOREM JoiningIsApproved == Spec => []JoinedWasApproved
<1>1. IInv => JoinedWasApproved
  BY DEF IInv, MachineInv, DiskApproved, JoinedWasApproved
<1>2. QED  BY <1>1, InvHolds, PTL

(* WireGuard never starts at boot without the config of the host number in *)
(* join.json, wherever Activate is cut short and taken up again.           *)
THEOREM MeshStartsConfigured == Spec => []MeshHasItsConfig
<1>1. IInv => MeshHasItsConfig
  BY DEF IInv, MachineInv, DiskApproved, MeshHasItsConfig
<1>2. QED  BY <1>1, InvHolds, PTL

(* A member's machine is configured for the address that the registry has  *)
(* for it: both are the number of the one approval the machine ever gets.  *)
THEOREM MemberIsConfigured == Spec => []ConfMatchesMember
<1>1. ASSUME IInv, NEW m \in Machine, NEW k \in members, conf[m] # 0, k.wgKey = m
      PROVE  conf[m] = k.host
  <2>1. <<m, k.host>> \in approvals /\ <<m, conf[m]>> \in approvals
    BY <1>1 DEF IInv, MembersApproved, MachineInv, DiskApproved
  <2>2. k.host \in 2..MaxHost /\ conf[m] \in 2..MaxHost
    BY <1>1, <2>1 DEF IInv, Shape
  <2>3. QED  BY <1>1, <2>1, <2>2 DEF IInv, MachineInv, ApprovedOnce
<1>2. IInv => ConfMatchesMember
  BY <1>1 DEF ConfMatchesMember
<1>3. QED  BY <1>2, InvHolds, PTL

(* No restart, repeated call or late answer gives a machine that has a     *)
(* host number another one.                                                *)
THEOREM HostStays == Spec => HostIsKept
<1>1. ASSUME IInv, [Next]_vars, NEW m \in Machine, joined[m].host # 0
      PROVE  joined'[m].host = joined[m].host
  <2>1. ASSUME NEW n \in Machine, Stored(n)
        PROVE  joined'[m].host = joined[m].host
    \* A machine that asks has no host number yet, so n is not m.
    <3>1. joined[n].host = 0
      BY <1>1, <2>1 DEF Stored, Goto, IInv, MachineInv, DiskApproved
    <3>2. QED  BY <1>1, <2>1, <3>1 DEF Stored, IInv, Shape
  <2>2. ASSUME NEW n \in Machine, SaveHost(n)
        PROVE  joined'[m].host = joined[m].host
    <3>1. /\ joined \in [Machine -> JoinState]
          /\ joined' = [joined EXCEPT ![n].host = reply[n].host]
      BY <1>1, <2>2 DEF SaveHost, IInv, Shape
    <3>2. joined[n].host # 0 => joined[n].host = reply[n].host
      BY <1>1, <2>2, ActsOnApproval DEF SaveHost, Goto, Activating
    <3>3. CASE m = n
      <4>1. joined[n] \in JoinState /\ joined'[n] = [joined[n] EXCEPT !.host = reply[n].host]
        BY <3>1
      <4>2. QED  BY <1>1, <3>2, <3>3, <4>1 DEF JoinState
    <3>4. CASE m # n
      BY <3>1, <3>4
    <3>5. QED  BY <3>3, <3>4
  <2>3. ASSUME NEW n \in Machine,
               \/ Quiet(n) \/ Granted(n) \/ Configure(n) \/ EnableMesh(n)
               \/ CoordinatorStores(n) \/ CoordinatorReports(n)
        PROVE  joined' = joined
    BY <2>3 DEF Quiet, InstallerJoins, Boot, LoopJoined, LoopAsks, AskFails, Denied,
      AskStatusAgain, DisableJoin, Restart, Reboot, CoordinatorRefuses,
      CoordinatorForgot, Skip, StatusLost, ActivationFails, PowerCut, Granted,
      Configure, EnableMesh, CoordinatorStores, CoordinatorReports, disk
  <2>4. ASSUME AdminApproves \/ AdminRejects \/ AdminRemoves \/ Time \/ UNCHANGED vars
        PROVE  joined' = joined
    BY <2>4 DEF AdminApproves, AdminRejects, AdminRemoves, Time, vars, disk
  <2>5. QED
    BY <1>1, <2>1, <2>2, <2>3, <2>4 DEF Next, Procedure, Coordinates, Quiet
<1>2. ASSUME IInv, [Next]_vars
      PROVE  [\A m \in Machine :
                joined[m].host # 0 => joined'[m].host = joined[m].host]_vars
  BY <1>1, <1>2
<1>3. QED  BY <1>2, InvHolds, PTL DEF Spec, HostIsKept

LEMMA StepUsesTheRegistry ==
  ASSUME IInv, [Next]_vars PROVE [R!Next]_(R!vars)
<1>1. ASSUME NEW m \in Machine, CoordinatorStores(m)
      PROVE  R!Next
  <2>1. ask[m] \in Askers
    BY DEF IInv, Shape, Askers
  <2>2. QED  BY <1>1, <2>1 DEF CoordinatorStores, R!Next
<1>2. ASSUME NEW m \in Machine, CoordinatorReports(m)
      PROVE  R!Next
  <2>1. joined[m].id \in RequestId
    BY <1>2 DEF CoordinatorReports, R!RequestStatus, R!LiveIds, IInv, Shape
  <2>2. QED  BY <1>2, <2>1 DEF CoordinatorReports, R!Next
<1>3. ASSUME AdminApproves \/ AdminRejects \/ AdminRemoves \/ Time
      PROVE  R!Next
  <2>1. PendingIds(requests) \subseteq RequestId
    BY DEF IInv, Shape, PendingIds
  <2>2. QED
    BY <1>3, <2>1 DEF AdminApproves, AdminRejects, AdminRemoves, Time, R!Next
<1>4. ASSUME NEW m \in Machine,
             \/ Quiet(m) \/ Granted(m) \/ Configure(m) \/ EnableMesh(m)
             \/ Stored(m) \/ SaveHost(m)
      PROVE  UNCHANGED R!vars
  BY <1>4 DEF Quiet, InstallerJoins, Boot, LoopJoined, LoopAsks, AskFails, Denied,
    AskStatusAgain, DisableJoin, Restart, Reboot, CoordinatorRefuses,
    CoordinatorForgot, Skip, StatusLost, ActivationFails, PowerCut, Granted,
    Configure, EnableMesh, Stored, SaveHost, reg, R!vars
<1>5. ASSUME UNCHANGED vars
      PROVE  UNCHANGED R!vars
  BY <1>5 DEF vars, reg, R!vars
<1>6. QED
  BY <1>1, <1>2, <1>3, <1>4, <1>5 DEF Next, Procedure, Coordinates, Quiet

(* What machines, the admin and time do to the coordinator's registry is   *)
(* what Registry allows, so its theorems hold here: joining only ever goes *)
(* through the registry's own operations.                                  *)
THEOREM JoinUsesTheRegistry == Spec => R!Spec
<1>1. Init => R!Init
  BY DEF Init
<1>2. IInv /\ [Next]_vars => [R!Next]_(R!vars)
  BY StepUsesTheRegistry
<1>3. QED  BY <1>1, <1>2, InvHolds, PTL DEF Spec, R!Spec

(* Each step of the registry adds one member and one request at most.      *)
LEMMA RegistryStaysFinite ==
  ASSUME IsFiniteSet(members), IsFiniteSet(DOMAIN requests), [R!Next]_(R!vars)
  PROVE  IsFiniteSet(members') /\ IsFiniteSet(DOMAIN requests')
<1>1. \E x : members' \subseteq members \cup {x}
  BY DEF R!Next, R!vars, R!AddRequest, R!RequestStatus, R!Approve, R!Reject, R!Remove,
     R!Heartbeat, R!Tick
<1>2. DOMAIN R!Prune(requests) \subseteq DOMAIN requests
  BY DEF R!Prune, R!LiveIds
<1>3. \E x : DOMAIN requests' \subseteq DOMAIN requests \cup {x}
  <2>1. CASE \E r, id : R!AddRequest(r, id)
    BY <1>2, <2>1 DEF R!AddRequest, R!Extend
  <2>2. CASE \E id : R!RequestStatus(id)
    BY <1>2, <2>2 DEF R!RequestStatus
  <2>3. CASE \E id : (\E n : R!Approve(id, n)) \/ R!Reject(id)
    BY <2>3 DEF R!Approve, R!Settle, R!Reject
  <2>4. CASE R!Tick
    BY <2>4 DEF R!Tick, R!Grow
  <2>5. CASE UNCHANGED requests
    BY <2>5
  <2>6. QED
    BY <2>1, <2>2, <2>3, <2>4, <2>5 DEF R!Next, R!vars, R!Remove, R!Heartbeat
<1>4. QED  BY <1>1, <1>3, FS_AddElement, FS_Subset

\* What the inductive invariant leaves out of the types.
Bounded ==
  /\ where \in [Machine -> {"installer", "server"}]
  /\ joinUnit \in [Machine -> BOOLEAN]
  /\ ticks \in 0..MaxTicks
  /\ faults \in 0..MaxFaults

Finite == IsFiniteSet(members) /\ IsFiniteSet(DOMAIN requests)

LEMMA BoundedKept == ASSUME Bounded, [Next]_vars PROVE Bounded'
<1> USE JoinConstants
<1>1. CASE UNCHANGED <<where, joinUnit, ticks, faults>>
  BY <1>1 DEF Bounded
<1>2. ASSUME NEW m \in Machine,
             InstallerJoins(m) \/ LoopJoined(m) \/ Denied(m) \/ DisableJoin(m)
      PROVE  Bounded'
  <2>1. joinUnit' \in [Machine -> BOOLEAN]
    BY <1>2 DEF InstallerJoins, LoopJoined, Denied, DisableJoin, Bounded
  <2>2. UNCHANGED <<where, ticks, faults>>
    BY <1>2 DEF InstallerJoins, LoopJoined, Denied, DisableJoin, bounds
  <2>3. QED  BY <2>1, <2>2 DEF Bounded
<1>3. ASSUME NEW m \in Machine, Reboot(m) \/ PowerCut(m) \/ ActivationFails(m)
      PROVE  Bounded'
  <2>1. where' \in [Machine -> {"installer", "server"}]
    BY <1>3 DEF Reboot, PowerCut, ActivationFails, Bounded
  <2>2. faults' \in 0..MaxFaults
    BY <1>3 DEF Reboot, PowerCut, ActivationFails, MayFault, bounds, Bounded
  <2>3. UNCHANGED <<joinUnit, ticks>>
    BY <1>3 DEF Reboot, PowerCut, ActivationFails, disk, bounds
  <2>4. QED  BY <2>1, <2>2, <2>3 DEF Bounded
<1>4. CASE Time
  BY <1>4 DEF Time, disk, Bounded
<1>5. QED
  BY <1>1, <1>2, <1>3, <1>4
     DEF Next, Procedure, Coordinates, Boot, LoopAsks, Stored, AskFails, Granted,
       AskStatusAgain, SaveHost, Configure, EnableMesh, Restart, CoordinatorStores,
       CoordinatorRefuses, CoordinatorReports, CoordinatorForgot, Skip, StatusLost,
       AdminApproves, AdminRejects, AdminRemoves, vars, disk, bounds

(* Registry, disks and answers keep their shape. An answer that a machine  *)
(* acts on while it activates has a host, because it is an approval.       *)
THEOREM JoinTypeCorrect == Spec => []TypeOK
<1>1. Init => Bounded /\ Finite
  <2> SUFFICES ASSUME Init PROVE Bounded /\ Finite
    OBVIOUS
  <2>1. Bounded
    BY JoinConstants DEF Init, Bounded
  <2>2. members = {Coordinator} /\ DOMAIN requests = {}
    BY DEF Init, R!Init
  <2>3. QED  BY <2>1, <2>2, FS_Singleton, FS_EmptySet DEF Finite
<1>2. IInv /\ Bounded /\ Finite /\ [Next]_vars => Bounded' /\ Finite'
  BY BoundedKept, StepUsesTheRegistry, RegistryStaysFinite DEF Finite
<1>3. IInv /\ Bounded /\ Finite => TypeOK
  <2> SUFFICES ASSUME IInv, Bounded, Finite PROVE TypeOK
    OBVIOUS
  <2>1. R!TypeOK
    BY DEF IInv, Shape, Finite, R!TypeOK, R!Member, Member, R!Request, Request,
       R!Status, Status, R!IsFiniteSet, IsFiniteSet
  <2>2. QED  BY <2>1 DEF IInv, Shape, JoinState, Bounded, TypeOK
<1>4. QED  BY <1>1, <1>2, <1>3, InvHolds, PTL DEF Spec

----------------------------------------------------------------------------
\* The coordinator's screen.

\* A question stays the one the admin answers until it is answered.
Asked ==
  /\ seen.key = "y" => seen.for = confirm
  /\ RemovesWhatWasAsked

LEMMA ScreenInitInv == ScreenInit => Asked
BY DEF ScreenInit, Nothing, RemovesWhatWasAsked, Asked

\* Whatever arrives meanwhile leaves the question and the answer alone.
LEMMA QuestionStands ==
  ASSUME Asked, UNCHANGED <<seen, done, confirm>>
  PROVE  Asked'
BY DEF Asked, RemovesWhatWasAsked

LEMMA LooksInv == ASSUME Asked, Looks PROVE Asked'
<1>1. seen'.key = "y" => seen'.for = confirm
  BY DEF Looks
<1>2. QED
  BY <1>1 DEF Looks, Asked, RemovesWhatWasAsked

LEMMA DecidesInv == ASSUME Asked, Decides PROVE Asked'
<1>1. done' = done \/ done'.key = seen.key
  BY DEF Decides
<1>2. seen.key \in {"a", "r"} /\ seen' = Nothing
  BY DEF Decides, Presses
<1>3. QED
  BY <1>1, <1>2 DEF Asked, RemovesWhatWasAsked, Nothing

LEMMA RemovesInv == ASSUME Asked, Removes PROVE Asked'
<1>1. seen.key = "y" /\ seen' = Nothing
  BY DEF Removes, Presses
<1>2. done' = done \/ done' = [key |-> "y", for |-> confirm, meant |-> seen.for]
  BY DEF Removes
<1>3. seen.for = confirm
  BY <1>1 DEF Asked
<1>4. QED
  BY <1>1, <1>2, <1>3 DEF Asked, RemovesWhatWasAsked, Nothing

LEMMA OtherKeysInv ==
  ASSUME Asked, MovesCursor \/ AsksToRemove \/ KeepsMember
  PROVE  Asked'
<1>1. seen' = Nothing /\ done' = done
  BY DEF MovesCursor, AsksToRemove, KeepsMember, Presses
<1>2. QED
  BY <1>1 DEF Asked, RemovesWhatWasAsked, Nothing

LEMMA ScreenNextInv == ASSUME Asked, ScreenNext PROVE Asked'
<1>1. CASE (\E l \in Slot : Reads(l) \/ ReadFails(l) \/ Shows(l))
             \/ Ticks \/ Elsewhere
  BY <1>1, QuestionStands
     DEF Reads, ReadFails, Shows, Ticks, Elsewhere
<1>2. QED
  BY <1>1, LooksInv, DecidesInv, RemovesInv, OtherKeysInv DEF ScreenNext

(* y removes the member of the question, by its name: snapshots that       *)
(* arrive, cursor moves and decisions of others between the question and   *)
(* the answer change neither (approve.go keeps the name in m.confirm).     *)
THEOREM RemovalIsWhatWasAsked == ScreenSpec => []RemovesWhatWasAsked
<1>1. Asked /\ [ScreenNext]_screenVars => Asked'
  BY ScreenNextInv, QuestionStands DEF screenVars
<1>2. Asked => RemovesWhatWasAsked
  BY DEF Asked
<1>3. QED
  BY <1>1, <1>2, ScreenInitInv, PTL DEF ScreenSpec

\* What a list is left with keeps its type.
LEMMA DroppedIsTyped ==
  ASSUME NEW S, NEW s \in Seq(S), NEW e, Listed(s, e)
  PROVE  Dropped(s, e) \in Seq(S)
<1> DEFINE k == CHOOSE k \in DOMAIN s : s[k] = e
<1>1. k \in 1..Len(s) /\ DOMAIN s = 1..Len(s) /\ Len(s) \in Nat
  BY DEF Listed
<1>2. Dropped(s, e) = SubSeq(s, 1, k - 1) \o SubSeq(s, k + 1, Len(s))
  BY DEF Dropped
<1> HIDE DEF k
<1>3. \A i \in 1..Len(s) : s[i] \in S
  BY ElementOfSeq
<1>4. SubSeq(s, 1, k - 1) \in Seq(S)
  BY <1>1, <1>3, SubSeqProperties
<1>5. SubSeq(s, k + 1, Len(s)) \in Seq(S)
  BY <1>1, <1>3, SubSeqProperties
<1>6. QED  BY <1>2, <1>4, <1>5, ConcatProperties

ScreenIInv == ScreenTypeOK /\ CursorIsOnAnItem

LEMMA ItemsAreCounted ==
  ASSUME NEW s \in Snapshots
  PROVE  /\ s.pend \in Seq(Id) /\ s.mem \in Seq(Names)
         /\ Len(s.pend) \in Nat /\ Len(s.mem) \in Nat
         /\ Items(s) = Len(s.pend) + Len(s.mem)
         /\ Items(s) \in Nat
BY DEF Snapshots, Items

\* The request under the cursor, if there is one.
LEMMA SelectedIsTyped ==
  ASSUME ScreenTypeOK
  PROVE  Selected \in Id \cup {None}
<1>1. st.pend \in Seq(Id) /\ cursor \in Nat /\ Len(st.pend) \in Nat
  BY ItemsAreCounted DEF ScreenTypeOK
<1>2. cursor < Len(st.pend) => st.pend[cursor + 1] \in Id
  BY <1>1, ElementOfSeq
<1>3. QED  BY <1>2 DEF Selected

\* What a step that starts a load, or none, does to the loads.
LEMMA LoadsAreTyped ==
  ASSUME ScreenTypeOK, StartLoad \/ UNCHANGED loads
  PROVE  loads' \in [Slot -> Snapshots \cup {None, Reading}]
<1>1. loads \in [Slot -> Snapshots \cup {None, Reading}]
  BY DEF ScreenTypeOK
<1>2. \A x : [loads EXCEPT ![x] = Reading] \in [Slot -> Snapshots \cup {None, Reading}]
  BY <1>1
<1>3. QED  BY <1>1, <1>2 DEF StartLoad

LEMMA ScreenInitTyped == ScreenInit => ScreenIInv
<1> SUFFICES ASSUME ScreenInit PROVE ScreenIInv
  OBVIOUS
<1> USE ScreenConstants
<1>1. st = [pend |-> <<>>, mem |-> <<>>] /\ cursor = 0 /\ open
  BY DEF ScreenInit, Empty
<1>2. st \in Snapshots /\ Items(st) = 0
  BY <1>1 DEF Snapshots, Items
<1>3. pend \in Seq(Id) /\ mem \in Seq(Names)
  BY DEF ScreenInit, Names
<1>4. ScreenTypeOK
  BY <1>2, <1>3 DEF ScreenInit, ScreenTypeOK
<1>5. QED  BY <1>1, <1>2, <1>4 DEF ScreenIInv, CursorIsOnAnItem

\* A snapshot replaces the lists, and the cursor is brought back to them.
LEMMA ShowsTyped ==
  ASSUME ScreenIInv, NEW l \in Slot, Shows(l)
  PROVE  ScreenIInv'
<1>1. ScreenTypeOK
  BY DEF ScreenIInv
<1>2. loads[l] \in Snapshots
  BY <1>1 DEF Shows, ScreenTypeOK
<1>3. st' \in Snapshots /\ Items(st)' \in Nat
  <2>1. st' = loads[l]
    BY DEF Shows
  <2>2. Items(st)' = Items(loads[l])
    BY <2>1 DEF Items
  <2>3. QED  BY <1>2, <2>1, <2>2, ItemsAreCounted
<1>4. /\ cursor' = Least(cursor, IF Items(st)' = 0 THEN 0 ELSE Items(st)' - 1)
      /\ open' = open /\ open
  BY DEF Shows, Items
<1>5. cursor' \in Nat /\ (Items(st)' # 0 => cursor' < Items(st)')
  BY <1>1, <1>3, <1>4 DEF Least, ScreenTypeOK
<1>6. loads' \in [Slot -> Snapshots \cup {None, Reading}]
  BY <1>1 DEF Shows, ScreenTypeOK
<1>7. ScreenTypeOK'
  BY <1>1, <1>3, <1>5, <1>6 DEF Shows, ScreenTypeOK, lists
<1>8. QED  BY <1>4, <1>5, <1>7 DEF ScreenIInv, CursorIsOnAnItem

\* The cursor never leaves the lists.
LEMMA MovesCursorTyped ==
  ASSUME ScreenIInv, MovesCursor
  PROVE  ScreenIInv'
<1>1. ScreenTypeOK /\ Items(st) \in Nat /\ cursor \in Nat
  <2>1. ScreenTypeOK /\ st \in Snapshots /\ cursor \in Nat
    BY DEF ScreenIInv, ScreenTypeOK
  <2>2. QED  BY <2>1, ItemsAreCounted
<1>2. /\ cursor' \in Nat
      /\ Items(st) # 0 => cursor' < Items(st)
  BY <1>1 DEF MovesCursor, Least, ScreenIInv, CursorIsOnAnItem
<1>3. UNCHANGED <<pend, mem, st, confirm, loads, tick, events, open>>
  BY DEF MovesCursor, lists
<1>4. Items(st)' = Items(st)
  BY <1>3 DEF Items
<1>5. ScreenTypeOK'
  BY <1>1, <1>2, <1>3 DEF ScreenTypeOK
<1>6. CursorIsOnAnItem'
  BY <1>2, <1>3, <1>4 DEF ScreenIInv, CursorIsOnAnItem
<1>7. QED  BY <1>5, <1>6 DEF ScreenIInv

\* d indexes the members with the cursor: only an empty screen has none there.
LEMMA AsksToRemoveTyped ==
  ASSUME ScreenIInv, AsksToRemove
  PROVE  ScreenIInv'
<1> DEFINE i == cursor - Len(st.pend) + 1
<1>1. /\ ScreenTypeOK /\ Items(st) = Len(st.pend) + Len(st.mem)
      /\ Len(st.pend) \in Nat /\ Len(st.mem) \in Nat /\ cursor \in Nat
      /\ st.mem \in Seq(Names)
  BY ItemsAreCounted DEF ScreenIInv, ScreenTypeOK
<1>2. UNCHANGED <<pend, mem, st, cursor, loads, tick, events>>
  BY DEF AsksToRemove, lists
<1>3. /\ open' = open \/ (open' = FALSE /\ i > Len(st.mem))
      /\ \/ confirm' = confirm
         \/ confirm' = None
         \/ i \in 1..Len(st.mem) /\ confirm' = st.mem[i]
  <2>1. i \in Int
    BY <1>1
  <2>2. CASE i < 1
    BY <2>2 DEF AsksToRemove
  <2>3. CASE ~(i < 1) /\ i > Len(st.mem)
    BY <2>3 DEF AsksToRemove
  <2>4. CASE ~(i < 1) /\ ~(i > Len(st.mem))
    <3>1. i \in 1..Len(st.mem)
      <4> DEFINE n == Len(st.mem)
      <4>1. n \in Nat /\ ~(i < 1) /\ ~(i > n)
        BY <1>1, <2>4
      <4> HIDE DEF i, n
      <4>2. i \in 1..n
        BY <2>1, <4>1
      <4>3. QED  BY <4>2 DEF n
    <3>2. QED  BY <2>4, <3>1 DEF AsksToRemove
  <2>5. QED  BY <2>2, <2>3, <2>4
<1>4. i > Len(st.mem) => Items(st) = 0
  <2>1. Items(st) # 0 => cursor < Items(st)
    BY DEF ScreenIInv, CursorIsOnAnItem
  <2> DEFINE p == Len(st.pend)
             n == Len(st.mem)
             total == Items(st)
  <2>2. p \in Nat /\ n \in Nat /\ cursor \in Nat /\ total = p + n
    BY <1>1
  <2>3. i = cursor - p + 1
    OBVIOUS
  <2>4. total # 0 => cursor < total
    BY <2>1
  <2> HIDE DEF i, p, n, total
  <2>5. i > n => total = 0
    BY <2>2, <2>3, <2>4
  <2>6. QED  BY <2>5 DEF n, total
<1>5. i \in 1..Len(st.mem) => st.mem[i] \in Names
  BY <1>1, ElementOfSeq
<1>6. Items(st)' = Items(st)
  BY <1>2 DEF Items
<1> HIDE DEF i
<1>7. ScreenTypeOK'
  BY <1>1, <1>2, <1>3, <1>5 DEF ScreenTypeOK
<1>8. CursorIsOnAnItem'
  BY <1>2, <1>3, <1>4, <1>6 DEF ScreenIInv, CursorIsOnAnItem
<1>9. QED  BY <1>7, <1>8 DEF ScreenIInv

\* Any other step leaves the screen and the cursor alone.
LEMMA ScreenStands ==
  ASSUME ScreenIInv, UNCHANGED <<st, cursor, open>>,
         pend' \in Seq(Id), mem' \in Seq(Names), confirm' \in Names \cup {None},
         loads' \in [Slot -> Snapshots \cup {None, Reading}],
         tick' \in BOOLEAN, events' \in 0..MaxEvents
  PROVE  ScreenIInv'
<1>1. ScreenTypeOK'
  BY DEF ScreenIInv, ScreenTypeOK
<1>2. Items(st)' = Items(st)
  BY DEF Items
<1>3. CursorIsOnAnItem'
  BY <1>2 DEF ScreenIInv, CursorIsOnAnItem
<1>4. QED  BY <1>1, <1>3 DEF ScreenIInv

LEMMA DecidesTyped == ASSUME ScreenIInv, Decides PROVE ScreenIInv'
<1>1. ScreenTypeOK
  BY DEF ScreenIInv
<1>2. pend' \in Seq(Id)
  <2>1. pend' = pend \/ (Listed(pend, Selected) /\ pend' = Dropped(pend, Selected))
    BY DEF Decides, lists
  <2>2. QED  BY <1>1, <2>1, DroppedIsTyped DEF ScreenTypeOK
<1>3. mem' \in Seq(Names)
  <2>1. mem' = mem \/ (Selected # None /\ mem' = Append(mem, NameOf[Selected]))
    BY DEF Decides, lists
  <2>2. Selected # None => NameOf[Selected] \in Names
    BY <1>1, SelectedIsTyped DEF Names
  <2>3. QED  BY <1>1, <2>1, <2>2, AppendProperties DEF ScreenTypeOK
<1>4. loads' \in [Slot -> Snapshots \cup {None, Reading}]
  BY <1>1, LoadsAreTyped DEF Decides
<1>5. QED
  BY <1>1, <1>2, <1>3, <1>4, ScreenStands DEF Decides, ScreenTypeOK

LEMMA RemovesTyped == ASSUME ScreenIInv, Removes PROVE ScreenIInv'
<1>1. ScreenTypeOK
  BY DEF ScreenIInv
<1>2. mem' \in Seq(Names)
  <2>1. mem' = mem \/ (Listed(mem, confirm) /\ mem' = Dropped(mem, confirm))
    BY DEF Removes
  <2>2. QED  BY <1>1, <2>1, DroppedIsTyped DEF ScreenTypeOK
<1>3. loads' \in [Slot -> Snapshots \cup {None, Reading}]
  BY <1>1, LoadsAreTyped DEF Removes
<1>4. QED
  BY <1>1, <1>2, <1>3, ScreenStands DEF Removes, ScreenTypeOK

LEMMA ElsewhereTyped == ASSUME ScreenIInv, Elsewhere PROVE ScreenIInv'
<1>1. ScreenTypeOK
  BY DEF ScreenIInv
<1>2. PICK i \in Id :
        \/ pend' = Append(pend, i) /\ mem' = mem
        \/ Listed(pend, i) /\ pend' = Dropped(pend, i) /\ mem' = mem
        \/ Listed(pend, i) /\ pend' = Dropped(pend, i) /\ mem' = Append(mem, NameOf[i])
        \/ Listed(mem, NameOf[i]) /\ mem' = Dropped(mem, NameOf[i]) /\ pend' = pend
  BY DEF Elsewhere
<1>3. NameOf[i] \in Names
  BY DEF Names
<1>4. pend' \in Seq(Id)
  <2>1. pend \in Seq(Id)
    BY <1>1 DEF ScreenTypeOK
  <2>2. Append(pend, i) \in Seq(Id)
    BY <2>1, AppendProperties
  <2>3. Listed(pend, i) => Dropped(pend, i) \in Seq(Id)
    BY <2>1, DroppedIsTyped
  <2>4. QED  BY <1>2, <2>1, <2>2, <2>3
<1>5. mem' \in Seq(Names)
  <2>1. mem \in Seq(Names)
    BY <1>1 DEF ScreenTypeOK
  <2>2. Append(mem, NameOf[i]) \in Seq(Names)
    BY <1>3, <2>1, AppendProperties
  <2>3. Listed(mem, NameOf[i]) => Dropped(mem, NameOf[i]) \in Seq(Names)
    BY <2>1, DroppedIsTyped
  <2>4. QED  BY <1>2, <2>1, <2>2, <2>3
<1>6. events' \in 0..MaxEvents
  BY <1>1, ScreenConstants DEF Elsewhere, ScreenTypeOK
<1>7. QED
  BY <1>1, <1>4, <1>5, <1>6, ScreenStands DEF Elsewhere, ScreenTypeOK

LEMMA LoadingTyped ==
  ASSUME ScreenIInv, NEW l \in Slot, Reads(l) \/ ReadFails(l)
  PROVE  ScreenIInv'
<1>1. ScreenTypeOK
  BY DEF ScreenIInv
<1>2. Snapshot \in Snapshots /\ Empty \in Snapshots
  BY <1>1 DEF Snapshot, Empty, Snapshots, ScreenTypeOK
<1>3. loads' \in [Slot -> Snapshots \cup {None, Reading}]
  BY <1>1, <1>2 DEF Reads, ReadFails, ScreenTypeOK
<1>4. events' \in 0..MaxEvents
  BY <1>1, ScreenConstants DEF Reads, ReadFails, ScreenTypeOK
<1>5. QED
  BY <1>1, <1>3, <1>4, ScreenStands DEF Reads, ReadFails, lists, ScreenTypeOK

LEMMA ScreenStepTyped == ASSUME ScreenIInv, [ScreenNext]_screenVars PROVE ScreenIInv'
<1>1. CASE Ticks \/ Looks \/ KeepsMember \/ UNCHANGED screenVars
  <2>1. ScreenTypeOK
    BY DEF ScreenIInv
  <2>2. loads' \in [Slot -> Snapshots \cup {None, Reading}]
    BY <1>1, <2>1, LoadsAreTyped DEF Ticks, Looks, KeepsMember, screenVars
  <2>3. QED
    BY <1>1, <2>1, <2>2, ScreenStands
       DEF Ticks, Looks, KeepsMember, screenVars, lists, ScreenTypeOK
<1>2. QED
  BY <1>1, LoadingTyped, ShowsTyped, MovesCursorTyped, DecidesTyped, AsksToRemoveTyped,
     RemovesTyped, ElsewhereTyped
     DEF ScreenNext

(* Whatever snapshots arrive and in which order, the screen and every load *)
(* are lists of requests and names.                                        *)
THEOREM ScreenTypeCorrect == ScreenSpec => []ScreenTypeOK
<1>1. ScreenIInv => ScreenTypeOK
  BY DEF ScreenIInv
<1>2. QED
  BY <1>1, ScreenInitTyped, ScreenStepTyped, PTL DEF ScreenSpec

(* Keys that index the lists do so with a cursor that is in them, except   *)
(* that d on an empty screen ends the program (approve.go:118).            *)
THEOREM OnlyAnEmptyScreenEnds == ScreenSpec => []CursorIsOnAnItem
<1>1. ScreenIInv => CursorIsOnAnItem
  BY DEF ScreenIInv
<1>2. QED
  BY <1>1, ScreenInitTyped, ScreenStepTyped, PTL DEF ScreenSpec
=============================================================================
