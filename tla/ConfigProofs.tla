--------------------------- MODULE ConfigProofs ---------------------------
(***************************************************************************)
(* What a config promises, from the form it is typed into to the packets   *)
(* of the mesh.                                                            *)
(*                                                                         *)
(* Every config that config.Validate accepts is sound, for any number of   *)
(* addresses and any sizes of networks that divide it.                     *)
(*                                                                         *)
(* For any number of builds, any capacity of their channels and any number *)
(* of messages that close a screen: no ISO carries an unsound config, the  *)
(* menu does not call an outdated ISO ready, a build that is shown as a    *)
(* success made the ISO, and a build on the screen is listened to. Two     *)
(* invariants, one after the other. The first holds always: what lies on   *)
(* the way from the form to the ISO is a valid config, a container has a   *)
(* build that waits for it or is nobody's, a last message comes from a     *)
(* build that is through. The second holds until a build is left while it  *)
(* runs: the only build is the one on the screen.                          *)
(*                                                                         *)
(* For any number of servers, either transport of the config, and any      *)
(* cables, reboots and addresses: a node loses the coordinator only over   *)
(* the switch.                                                             *)
(***************************************************************************)
EXTENDS Desktop, Paths, TLAPS

----------------------------------------------------------------------------
\* Addresses.

(* A network lies on a multiple of its size, and therefore ends before the *)
(* addresses do: the uint32 sum of HostAddr does not wrap.                 *)
LEMMA NetworkFits ==
  ASSUME NEW c \in Cidr
  PROVE  /\ c.size \in Nat \ {0}
         /\ Base(c) \in Nat
         /\ Base(c) + c.size <= Width
<1>1. c.ip \in Nat /\ c.ip < Width /\ c.size \in Nat \ {0} /\ Width \in Nat
  <2>1. Width \in Nat /\ Sizes \subseteq Nat \ {0}
    BY AddressConstants
  <2>2. c.ip \in 0..Width - 1 /\ c.size \in Sizes
    BY DEF Cidr, Address
  <2>3. c.ip \in Nat /\ c.ip < Width
    BY <2>1, <2>2
  <2> QED
    BY <2>1, <2>2, <2>3
<1>2. PICK k \in 1..Width : Width = k * c.size
  BY AddressConstants DEF Cidr
<1> DEFINE q == c.ip \div c.size
           r == c.ip % c.size
<1>3. q \in Nat /\ r \in Nat /\ r < c.size /\ c.ip = q * c.size + r
  <2>1. \A a \in Nat, b \in Nat \ {0} :
          /\ a \div b \in Nat
          /\ a % b \in Nat
          /\ a % b < b
          /\ a = (a \div b) * b + (a % b)
    OBVIOUS
  <2> QED
    BY <1>1, <2>1
<1> HIDE DEF q, r
<1>4. q < k
  <2>1. SUFFICES ASSUME q >= k PROVE FALSE
    BY <1>2, <1>3
  <2>2. q * c.size >= k * c.size
    BY <2>1, <1>1, <1>2, <1>3
  <2> QED
    BY <2>2, <1>1, <1>2, <1>3
<1>5. (q + 1) * c.size <= k * c.size
  BY <1>1, <1>2, <1>3, <1>4
<1>6. Base(c) = q * c.size
  BY <1>1, <1>3 DEF Base, q, r
<1> QED
  BY <1>1, <1>2, <1>3, <1>5, <1>6

\* A host number that is given out has its address, without wrapping.
LEMMA HostAddrIs ==
  ASSUME NEW c \in Cidr, NEW n \in 1..c.size - 2
  PROVE  /\ HostAddr(c, n) = Base(c) + n
         /\ n \in Nat
         /\ Base(c) \in Nat
         /\ c.size \in Nat
         /\ Base(c) + n \in Address
         /\ Base(c) < Base(c) + n /\ Base(c) + n < Base(c) + c.size - 1
<1>1. c.size \in Nat /\ Base(c) \in Nat /\ Base(c) + c.size <= Width /\ Width \in Nat
  BY NetworkFits, AddressConstants
<1>2. n \in Nat /\ n >= 1 /\ n <= c.size - 2
  BY <1>1
<1>3. Base(c) + n \in Nat /\ Base(c) + n < Width
  BY <1>1, <1>2
<1>4. (Base(c) + n) % Width = Base(c) + n
  <2>1. \A a, b \in Nat : a < b => a % b = a
    OBVIOUS
  <2> QED
    BY <1>1, <1>3, <2>1
<1>5. HostAddr(c, n) = Base(c) + n
  BY <1>1, <1>2, <1>4 DEF HostAddr
<1> QED
  BY <1>1, <1>2, <1>3, <1>5 DEF Address

\* HostOf undoes HostAddr, and hosts lie strictly inside their network.
LEMMA HostsAreNumbered ==
  ASSUME NEW c \in Cidr, NEW last \in Int, last <= c.size - 2
  PROVE  Numbered(c, last)
<1> SUFFICES ASSUME NEW n \in 1..last
             PROVE  /\ HostAddr(c, n) \in Address
                    /\ Contains(c, HostAddr(c, n))
                    /\ HostOf(c, HostAddr(c, n)) = n
                    /\ HostAddr(c, n) # Base(c)
                    /\ HostAddr(c, n) # Base(c) + c.size - 1
  BY DEF Numbered
<1>1. c.size \in Nat
  BY NetworkFits
<1>2. n \in 1..c.size - 2
  BY <1>1
<1>3. /\ HostAddr(c, n) = Base(c) + n
      /\ n \in Nat /\ Base(c) \in Nat
      /\ Base(c) + n \in Address
      /\ Base(c) < Base(c) + n /\ Base(c) + n < Base(c) + c.size - 1
  BY <1>2, HostAddrIs
<1>4. Contains(c, Base(c) + n)
  BY <1>1, <1>3 DEF Contains
<1>5. HostOf(c, Base(c) + n) = n
  BY <1>1, <1>2, <1>3, <1>4 DEF HostOf
<1> QED
  BY <1>1, <1>3, <1>4, <1>5

(* Whatever config.Validate accepts gives every host number that approving *)
(* may hand out addresses of its own, on the mesh and on the switch, apart *)
(* from each other and from the coordinator's on the router's network.     *)
THEOREM ValidConfigsAreSound ==
  ASSUME NEW c \in Config, ValidConfig(c)
  PROVE  Sound(c)
<1>1. c.mesh \in Cidr /\ c.switch \in Cidr /\ c.coord \in Int
  <2>1. Width \in Nat
    BY AddressConstants
  <2> QED
    BY <2>1 DEF Config, Address
<1>2. c.mesh.size \in Nat /\ c.switch.size \in Nat
  BY <1>1, NetworkFits
<1>3. LastHost(c.mesh) \in Int /\ LastHost(c.mesh) = c.mesh.size - 2
  BY <1>2 DEF LastHost
<1>4. Numbered(c.mesh, LastHost(c.mesh))
  BY <1>1, <1>2, <1>3, HostsAreNumbered
<1>5. ASSUME NEW n \in 1..LastHost(c.mesh)
      PROVE  HostAddr(c.mesh, n) # c.coord
  <2>1. Contains(c.mesh, HostAddr(c.mesh, n))
    BY <1>4 DEF Numbered
  <2> QED
    BY <2>1 DEF ValidConfig, ValidMeshSubnet
<1>6. ASSUME c.auto
      PROVE  /\ Numbered(c.switch, LastHost(c.mesh))
             /\ \A n \in 1..LastHost(c.mesh) : HostAddr(c.switch, n) # c.coord
             /\ \A n, k \in 1..LastHost(c.mesh) :
                  HostAddr(c.switch, n) # HostAddr(c.mesh, k)
  <2>1. /\ c.switch.size = c.mesh.size
        /\ ~Contains(c.switch, c.coord)
        /\ ~Contains(c.switch, Base(c.mesh))
        /\ ~Contains(c.mesh, Base(c.switch))
    BY <1>6 DEF ValidConfig, ValidSwitchSubnet, ValidMeshSubnet
  <2>2. Numbered(c.switch, LastHost(c.mesh))
    BY <1>1, <1>2, <1>3, <2>1, HostsAreNumbered
  <2>3. ASSUME NEW n \in 1..LastHost(c.mesh)
        PROVE  HostAddr(c.switch, n) # c.coord
    BY <2>1, <2>2 DEF Numbered
  <2>4. ASSUME NEW n \in 1..LastHost(c.mesh), NEW k \in 1..LastHost(c.mesh)
        PROVE  HostAddr(c.switch, n) # HostAddr(c.mesh, k)
    <3>1. Base(c.switch) \in Nat /\ Base(c.mesh) \in Nat
      BY <1>1, NetworkFits
    <3>2. /\ HostAddr(c.switch, n) = Base(c.switch) + n
          /\ HostAddr(c.mesh, k) = Base(c.mesh) + k
          /\ n \in Nat /\ k \in Nat
          /\ n < c.switch.size /\ k < c.mesh.size
      <4>1. n \in 1..c.switch.size - 2 /\ k \in 1..c.mesh.size - 2
        BY <1>3, <2>1
      <4> QED
        BY <4>1, <1>1, <1>2, HostAddrIs
    <3>3. \/ Base(c.switch) + c.switch.size <= Base(c.mesh)
          \/ Base(c.mesh) + c.mesh.size <= Base(c.switch)
      BY <2>1, <1>2, <3>1 DEF Contains
    <3> QED
      BY <3>1, <3>2, <3>3, <1>2
  <2> QED
    BY <2>2, <2>3, <2>4
<1> QED
  BY <1>4, <1>5, <1>6 DEF Sound

----------------------------------------------------------------------------
\* The desktop program.

Always == ConfigsAreValid /\ Shape /\ ContainerIsAwaited

Attended ==
  OneBuild /\ MenuIsCurrent /\ IsoIsCurrent /\ SuccessIsSettled /\ SuccessIsThisBuild

LEMMA InitInv == Init => IInv
<1> SUFFICES ASSUME Init PROVE IInv
  OBVIOUS
<1> USE DesktopConstants
<1>1. ConfigsAreValid
  BY DEF Init, ConfigsAreValid, NoForm
<1>2. Shape
  BY DEF Init, Shape, Closed, Phase
<1>3. ContainerIsAwaited
  BY DEF Init, ContainerIsAwaited
<1>4. OneBuild
  BY DEF Init, OneBuild
<1>5. MenuIsCurrent /\ IsoIsCurrent /\ SuccessIsSettled /\ SuccessIsThisBuild
  BY DEF Init, MenuIsCurrent, IsoIsCurrent, SuccessIsThisBuild, SuccessIsSettled
<1> QED
  BY <1>1, <1>2, <1>3, <1>4, <1>5 DEF IInv

(* The form and the menu change no build.                                  *)
LEMMA FormKeepsConfigs ==
  ASSUME Always, FormAgain, UNCHANGED <<form, making, want>>
  PROVE  ConfigsAreValid'
<1>1. file' \in Configs \cup {None}
  BY DEF FormAgain, Saves, Always, ConfigsAreValid, menu
<1> QED
  BY <1>1 DEF FormAgain, Always, ConfigsAreValid, making

(* Files that are removed are not replaced by others in a container.       *)
LEMMA RemovesStageKeeps ==
  ASSUME ConfigsAreValid, RemovesStage
  PROVE  /\ container' \in [build: Build \cup {None}, step: {"installing"},
                            cfg: ValidConfigs \cup {None}]
                           \cup [build: Build \cup {None}, step: {"making", "made"},
                                 cfg: ValidConfigs]
                           \cup {None}
         /\ container = None => container' = None
         /\ container' # None => /\ container'.build = container.build
                                /\ container'.step = container.step
<1>1. CASE ~At("installing")
  BY <1>1 DEF RemovesStage, ConfigsAreValid
<1>2. CASE At("installing")
  <2>1. container \in [build: Build \cup {None}, step: {"installing"},
                       cfg: ValidConfigs \cup {None}]
    BY <1>2 DEF At, ConfigsAreValid
  <2>2. container' = [container EXCEPT !.cfg = None]
    BY <1>2 DEF RemovesStage
  <2>3. /\ container' \in [build: Build \cup {None}, step: {"installing"},
                           cfg: ValidConfigs \cup {None}]
        /\ container'.build = container.build /\ container'.step = container.step
    BY <2>1, <2>2
  <2>4. QED  BY <1>2, <2>3 DEF At
<1>3. QED  BY <1>1, <1>2

LEMMA AlwaysKept ==
  ASSUME Always, [Next]_vars
  PROVE  Always'
<1> USE DesktopConstants
<1>1. CASE UNCHANGED vars
  BY <1>1 DEF Always, ConfigsAreValid, Shape, ContainerIsAwaited, vars, menu, files,
              build, channel, making
<1>2. CASE BackArrives
  <2>1. ConfigsAreValid'
    BY <1>2 DEF BackArrives, Refresh, Always, ConfigsAreValid, files, making, build, NoForm
  <2>2. Shape'
    BY <1>2 DEF BackArrives, Refresh, Always, Shape, making, build, channel, Closed
  <2>3. ContainerIsAwaited'
    BY <1>2 DEF BackArrives, Always, ContainerIsAwaited, making, build
  <2> QED
    BY <2>1, <2>2, <2>3 DEF Always
<1>3. CASE OpensForm
  <2>1. ConfigsAreValid'
    BY <1>3 DEF OpensForm, Always, ConfigsAreValid, files, making, build, menu
  <2>2. Shape'
    BY <1>3 DEF OpensForm, Always, Shape, making, build, channel, menu
  <2>3. ContainerIsAwaited'
    BY <1>3 DEF OpensForm, Always, ContainerIsAwaited, making, build
  <2> QED
    BY <2>1, <2>2, <2>3 DEF Always
<1>4. CASE OpensFlash
  <2>1. ConfigsAreValid'
    BY <1>4 DEF OpensFlash, Always, ConfigsAreValid, files, making, build, menu
  <2>2. Shape'
    BY <1>4 DEF OpensFlash, Always, Shape, making, build, channel, menu
  <2>3. ContainerIsAwaited'
    BY <1>4 DEF OpensFlash, Always, ContainerIsAwaited, making, build
  <2> QED
    BY <2>1, <2>2, <2>3 DEF Always
<1>5. ASSUME NEW b \in Build, OpensBuild(b)
      PROVE  Always'
  <2>1. ConfigsAreValid'
    <3>1. cfg \in ValidConfigs
      BY <1>5 DEF OpensBuild, Usable, Always, ConfigsAreValid, ValidConfigs
    <3> QED
      BY <3>1, <1>5 DEF OpensBuild, Always, ConfigsAreValid, menu, files, making
  <2>2. Shape'
    <3>1. view' \in [build: Build \cup {None}, cfg: Configs \cup {None},
                     running: BOOLEAN, ok: BOOLEAN]
      BY <1>5 DEF OpensBuild, Always, ConfigsAreValid
    <3>2. /\ phase' \in [Build -> Phase]
          /\ result' \in [Build -> BOOLEAN] /\ ended' \in [Build -> BOOLEAN]
      BY <1>5 DEF OpensBuild, Always, Shape, Phase
    <3>3. \A d \in Build : ended'[d] => phase'[d] = "done"
      BY <1>5 DEF OpensBuild, Always, Shape
    <3> QED
      BY <3>1, <3>2, <3>3, <1>5 DEF OpensBuild, Always, Shape, menu, making
  <2>3. ContainerIsAwaited'
    BY <1>5 DEF OpensBuild, Unused, Always, ContainerIsAwaited, Shape, making
  <2> QED
    BY <2>1, <2>2, <2>3 DEF Always
<1>6. ASSUME NEW c \in Configs, FormCompletes(c)
      PROVE  Always'
  <2>1. ConfigsAreValid'
    BY <1>6 DEF FormCompletes, Saves, Always, ConfigsAreValid, making, build
  <2>2. Shape'
    BY <1>6 DEF FormCompletes, Always, Shape, making, build, channel
  <2>3. ContainerIsAwaited'
    BY <1>6 DEF FormCompletes, Always, ContainerIsAwaited, making, build
  <2> QED
    BY <2>1, <2>2, <2>3 DEF Always
<1>7. CASE FormAborts
  <2>1. ConfigsAreValid'
    BY <1>7 DEF FormAborts, Always, ConfigsAreValid, files, making, build, menu
  <2>2. Shape'
    BY <1>7 DEF FormAborts, Always, Shape, making, build, channel, menu
  <2>3. ContainerIsAwaited'
    BY <1>7 DEF FormAborts, Always, ContainerIsAwaited, making, build
  <2> QED
    BY <2>1, <2>2, <2>3 DEF Always
<1>8. CASE FormSeesKey
  <2>1. ConfigsAreValid'
    BY <1>8, FormKeepsConfigs DEF FormSeesKey, build
  <2>2. Shape'
    BY <1>8 DEF FormSeesKey, FormAgain, Always, Shape, making, build, channel
  <2>3. ContainerIsAwaited'
    BY <1>8 DEF FormSeesKey, Always, ContainerIsAwaited, making, build
  <2> QED
    BY <2>1, <2>2, <2>3 DEF Always
<1>9. CASE Cancels \/ LeavesBuild \/ LeavesFlash
  <2>1. ConfigsAreValid'
    BY <1>9 DEF Cancels, LeavesBuild, LeavesFlash, Always, ConfigsAreValid, files, making,
                build, menu
  <2>2. Shape'
    BY <1>9 DEF Cancels, LeavesBuild, LeavesFlash, Always, Shape, making, build, channel, menu
  <2>3. ContainerIsAwaited'
    BY <1>9 DEF Cancels, LeavesBuild, LeavesFlash, Always, ContainerIsAwaited, making, build
  <2> QED
    BY <2>1, <2>2, <2>3 DEF Always
<1>10. ASSUME NEW c \in Configs, EditsByHand(c)
       PROVE  Always'
  <2>1. ConfigsAreValid'
    BY <1>10 DEF EditsByHand, Always, ConfigsAreValid, making, build
  <2>2. Shape'
    BY <1>10 DEF EditsByHand, Always, Shape, making, build, channel
  <2>3. ContainerIsAwaited'
    BY <1>10 DEF EditsByHand, Always, ContainerIsAwaited, making, build
  <2> QED
    BY <2>1, <2>2, <2>3 DEF Always
<1>11. ASSUME NEW b \in Build, Prints(b) \/ LineSent(b)
       PROVE  Always'
  <2>1. ConfigsAreValid'
    BY <1>11 DEF Prints, LineSent, Always, ConfigsAreValid, files, making, menu
  <2>2. Shape'
    BY <1>11 DEF Prints, LineSent, Always, Shape, making, channel, menu
  <2>3. ContainerIsAwaited'
    BY <1>11 DEF Prints, LineSent, Always, ContainerIsAwaited, making
  <2> QED
    BY <2>1, <2>2, <2>3 DEF Always
<1>12. ASSUME NEW b \in Build, Checks(b) \/ Stages(b) \/ Cleans(b)
       PROVE  Always'
  <2>1. /\ UNCHANGED <<screen, view, form, result, ended, isoSeen, iso, want, file, cfg>>
        /\ RemovesStage \/ container' = container
        /\ stage' \in {stage, want[b], None}
    BY <1>12 DEF Checks, Stages, Cleans, channel, menu, files, making
  <2>2. ConfigsAreValid'
    <3>1. stage' \in ValidConfigs \cup {None}
      BY <2>1 DEF Always, ConfigsAreValid
    <3> QED
      BY <2>1, <3>1, RemovesStageKeeps DEF Always, ConfigsAreValid
  <2>3. PICK from \in {"checking", "staging", "cleaning"},
             to \in {"staging", "starting", "cleaning", "reporting"} : Goto(b, from, to)
    BY <1>12 DEF Checks, Stages, Cleans
  <2>4. Shape'
    <3>1. phase' \in [Build -> Phase]
      BY <2>3 DEF Goto, Always, Shape, Phase
    <3>2. \A d \in Build : ended'[d] => phase'[d] = "done"
      BY <2>1, <2>3 DEF Goto, Always, Shape
    <3> QED
      BY <2>1, <3>1, <3>2 DEF Always, Shape
  <2>5. ContainerIsAwaited'
    <3>1. container' # None => container # None /\ container'.build = container.build
      BY <2>1, RemovesStageKeeps DEF Always
    <3>2. \A d \in Build : phase[d] = "running" => phase'[d] = "running"
      BY <2>3 DEF Goto, Always, Shape
    <3>3. container # None => container.build \in Build \cup {None}
      BY DEF Always, ConfigsAreValid
    <3> QED
      BY <3>1, <3>2, <3>3 DEF Always, ContainerIsAwaited
  <2> QED
    BY <2>2, <2>4, <2>5 DEF Always
<1>13. ASSUME NEW b \in Build, Podman(b)
       PROVE  Always'
  <2>1. /\ UNCHANGED <<screen, view, form, ended, isoSeen, iso, want, file, cfg, stage>>
        /\ result' = [result EXCEPT ![b] = FALSE] \/ result' = result
           \/ result' = [result EXCEPT ![b] = @ /\ cancelled[b] # "tried"]
    BY <1>13 DEF Podman, Starts, Returns, StopsContainer, KillsClient, channel, menu, files,
                 making
  <2>2. \/ container' \in {container, None}
        \/ /\ container' = [build |-> b, step |-> "installing", cfg |-> stage]
           /\ phase'[b] = "running"
        \/ Attached(b) /\ container' = [container EXCEPT !.build = None]
    BY <1>13 DEF Podman, Starts, Returns, StopsContainer, KillsClient, making, Goto, Always,
                 Shape
  <2>3. container' \in [build: Build \cup {None}, step: {"installing"},
                        cfg: ValidConfigs \cup {None}]
                       \cup [build: Build \cup {None}, step: {"making", "made"},
                             cfg: ValidConfigs]
                       \cup {None}
    BY <2>2 DEF Always, ConfigsAreValid, Attached
  <2>4. ConfigsAreValid'
    BY <2>1, <2>3 DEF Always, ConfigsAreValid
  <2>5. phase[b] \in {"starting", "running"}
    BY <1>13 DEF Podman, Starts, Returns, StopsContainer, KillsClient, Goto
  <2>6. \/ phase' = phase
        \/ \E to \in {"running", "cleaning"} : phase' = [phase EXCEPT ![b] = to]
    BY <1>13 DEF Podman, Starts, Returns, StopsContainer, KillsClient, Goto
  <2>7. Shape'
    <3>1. phase' \in [Build -> Phase]
      BY <2>6 DEF Always, Shape, Phase
    <3>0. result' \in [Build -> BOOLEAN]
      BY <2>1 DEF Always, Shape
    <3>2. \A d \in Build : ended'[d] => phase'[d] = "done"
      BY <2>1, <2>5, <2>6 DEF Always, Shape
    <3> QED
      BY <2>1, <3>0, <3>1, <3>2 DEF Always, Shape
  <2>8. ContainerIsAwaited'
    <3>1. container # None => container.build \in Build \cup {None}
      BY DEF Always, ConfigsAreValid
    <3>2. \A d \in Build \ {b} : phase'[d] = phase[d]
      BY <2>6 DEF Always, Shape
    <3>3. CASE Starts(b)
      BY <3>1, <3>2, <3>3, <2>5 DEF Starts, Goto, Always, ContainerIsAwaited, Shape
    <3>4. CASE Returns(b)
      BY <3>1, <3>2, <3>4 DEF Returns, Attached, Always, ContainerIsAwaited, making
    <3>5. CASE StopsContainer(b)
      BY <3>5 DEF StopsContainer, Always, ContainerIsAwaited
    <3>6. CASE KillsClient(b) /\ Attached(b)
      <4>1. container'.build = None
        BY <3>6 DEF KillsClient, Attached, Always, ConfigsAreValid
      <4> QED
        BY <4>1 DEF ContainerIsAwaited
    <3>7. CASE KillsClient(b) /\ ~Attached(b)
      BY <3>1, <3>2, <3>7 DEF KillsClient, Attached, Always, ContainerIsAwaited
    <3> QED
      BY <1>13, <3>3, <3>4, <3>5, <3>6, <3>7 DEF Podman
  <2> QED
    BY <2>4, <2>7, <2>8 DEF Always
<1>14. ASSUME NEW b \in Build, Reports(b)
       PROVE  Always'
  <2>1. ConfigsAreValid'
    BY <1>14 DEF Reports, Always, ConfigsAreValid, files, making, menu
  <2>2. Shape'
    BY <1>14 DEF Reports, Goto, Always, Shape, Phase, making, menu
  <2>3. ContainerIsAwaited'
    BY <1>14 DEF Reports, Goto, Always, ContainerIsAwaited, Shape, making
  <2> QED
    BY <2>1, <2>2, <2>3 DEF Always
<1>15. CASE TakesStage
  <2>1. ConfigsAreValid'
    <3>1. container \in [build: Build \cup {None}, step: {"installing"}, cfg: ValidConfigs]
      BY <1>15 DEF TakesStage, At, Always, ConfigsAreValid
    <3>2. container' \in [build: Build \cup {None}, step: {"making", "made"},
                          cfg: ValidConfigs]
      BY <1>15, <3>1 DEF TakesStage, Always, ConfigsAreValid
    <3> QED
      BY <1>15, <3>2 DEF TakesStage, Always, ConfigsAreValid, files, menu, build
  <2>2. Shape'
    BY <1>15 DEF TakesStage, Always, Shape, build, channel, menu
  <2>3. ContainerIsAwaited'
    BY <1>15 DEF TakesStage, At, Always, ContainerIsAwaited, ConfigsAreValid, build
  <2> QED
    BY <2>1, <2>2, <2>3 DEF Always
<1>16. CASE PutsIso
  <2>1. iso' \in [cfg: ValidConfigs, overtaken: BOOLEAN, orphan: BOOLEAN]
    BY <1>16 DEF PutsIso, At, Always, ConfigsAreValid
  <2>2. ConfigsAreValid'
    BY <1>16, <2>1 DEF PutsIso, At, Always, ConfigsAreValid, menu, build
  <2>3. Shape'
    <3>1. iso' # None
      BY <2>1 DEF ValidConfigs
    <3> QED
      BY <3>1, <1>16 DEF PutsIso, Always, Shape, build, channel, menu
  <2>4. ContainerIsAwaited'
    BY <1>16 DEF PutsIso, At, Always, ContainerIsAwaited, ConfigsAreValid, build
  <2> QED
    BY <2>2, <2>3, <2>4 DEF Always
<1>17. CASE ContainerEnds \/ ContainerFails
  <2>1. PICK ok \in BOOLEAN : Exits(ok)
    BY <1>17 DEF ContainerEnds, ContainerFails
  <2>2. ConfigsAreValid'
    BY <2>1 DEF Exits, Always, ConfigsAreValid, menu, files
  <2>3. Shape'
    <3>1. result' \in [Build -> BOOLEAN]
      BY <2>1 DEF Exits, Always, Shape
    <3> QED
      BY <2>1, <3>1 DEF Exits, Always, Shape, channel, menu
  <2>4. ContainerIsAwaited'
    BY <2>1 DEF Exits, ContainerIsAwaited
  <2> QED
    BY <2>2, <2>3, <2>4 DEF Always
<1>18. ASSUME NEW b \in Build, LineArrives(b)
       PROVE  Always'
  <2>1. ConfigsAreValid'
    <3>1. CASE FormAgain
      BY <1>18, <3>1, FormKeepsConfigs DEF LineArrives, build
    <3>2. CASE UNCHANGED <<menu, files>>
      BY <1>18, <3>2 DEF LineArrives, Always, ConfigsAreValid, menu, files, making, build
    <3> QED
      BY <1>18, <3>1, <3>2 DEF LineArrives, ShowsLine, Elsewhere
  <2>2. Shape'
    BY <1>18 DEF LineArrives, ShowsLine, Elsewhere, FormAgain, Always, Shape, menu, making,
                 build
  <2>3. ContainerIsAwaited'
    BY <1>18 DEF LineArrives, Always, ContainerIsAwaited, making, build
  <2> QED
    BY <2>1, <2>2, <2>3 DEF Always
<1>19. ASSUME NEW b \in Build, EndArrives(b)
       PROVE  Always'
  <2>1. ConfigsAreValid'
    <3>1. /\ want' \in [Build -> ValidConfigs \cup {None}]
          /\ UNCHANGED <<form, making>>
      BY <1>19 DEF EndArrives, Forgets, Always, ConfigsAreValid
    <3>2. file' \in Configs \cup {None} /\ cfg' = cfg
      BY <1>19 DEF EndArrives, ShowsEnd, Elsewhere, FormAgain, Saves, Always,
                   ConfigsAreValid, menu, files
    <3> QED
      BY <3>1, <3>2 DEF Always, ConfigsAreValid, making
  <2>2. Shape'
    <3>1. view' \in [build: Build \cup {None}, cfg: Configs \cup {None},
                     running: BOOLEAN, ok: BOOLEAN]
      BY <1>19 DEF EndArrives, ShowsEnd, Elsewhere, Always, Shape
    <3>2. /\ phase' \in [Build -> Phase]
          /\ result' \in [Build -> BOOLEAN] /\ ended' \in [Build -> BOOLEAN]
      BY <1>19 DEF EndArrives, Forgets, Always, Shape, Phase
    <3>3. \A d \in Build : ended'[d] => phase'[d] = "done"
      BY <1>19 DEF EndArrives, Forgets, Always, Shape
    <3>4. UNCHANGED <<screen, isoSeen, iso>>
      BY <1>19 DEF EndArrives, ShowsEnd, Elsewhere, FormAgain, menu, making
    <3> QED
      BY <3>1, <3>2, <3>3, <3>4 DEF Always, Shape
  <2>3. ContainerIsAwaited'
    <3>1. phase[b] = "done"
      BY <1>19 DEF EndArrives, Always, Shape
    <3> QED
      BY <1>19, <3>1 DEF EndArrives, Forgets, Always, ContainerIsAwaited, Shape,
                         ConfigsAreValid, making
  <2> QED
    BY <2>1, <2>2, <2>3 DEF Always
<1> QED
  BY <1>1, <1>2, <1>3, <1>4, <1>5, <1>6, <1>7, <1>8, <1>9, <1>10, <1>11, <1>12, <1>13,
     <1>14, <1>15, <1>16, <1>17, <1>18, <1>19
     DEF Next, Keys, Works, Progress, Arrives

----------------------------------------------------------------------------
(* A build that is not over is the one on the screen.                      *)
LEMMA OnlyOnScreen ==
  ASSUME Attended, NEW b \in Build, phase[b] # "idle"
  PROVE  /\ OnScreen(b)
         /\ screen = "build" /\ view.running
         /\ \A d \in Build \ {b} : phase[d] = "idle"
  BY DEF Attended, OneBuild, OnScreen

LEMMA AttendedKept ==
  ASSUME Always, Attended, [Next]_vars, ~left'
  PROVE  Attended'
<1> USE DesktopConstants
<1>i. ASSUME screen # "build" \/ ~view.running, phase' = phase
      PROVE  OneBuild'
  BY <1>i DEF Attended, OneBuild, OnScreen, Attached
<1>1. CASE UNCHANGED vars
  <2>1. OneBuild'
    BY <1>1 DEF Attended, OneBuild, OnScreen, Attached, vars, files, build, making
  <2> QED
    BY <1>1, <2>1 DEF Attended, MenuIsCurrent, IsoIsCurrent, SuccessIsThisBuild,
                      SuccessIsSettled, vars, menu,
                      files, making
<1>2. CASE BackArrives
  <2>1. OneBuild'
    BY <1>2, <1>i DEF BackArrives, build
  <2>2. MenuIsCurrent'
    BY <1>2 DEF BackArrives, Refresh, MenuIsCurrent, files
  <2> QED
    BY <1>2, <2>1, <2>2 DEF BackArrives, Attended, IsoIsCurrent, SuccessIsThisBuild,
                            SuccessIsSettled, files, making
<1>3. CASE OpensForm \/ OpensFlash
  <2>1. OneBuild'
    BY <1>3, <1>i DEF OpensForm, OpensFlash, build
  <2> QED
    BY <1>3, <2>1 DEF OpensForm, OpensFlash, Attended, MenuIsCurrent, IsoIsCurrent,
                      SuccessIsThisBuild, SuccessIsSettled, files, making
<1>4. ASSUME NEW b \in Build, OpensBuild(b)
      PROVE  Attended'
  <2>1. \A d \in Build : phase[d] = "idle"
    BY <1>4 DEF OpensBuild, Attended, OneBuild, OnScreen, Attached
  <2>2. container' = container /\ ~Attached(b)
    BY <1>4, <2>1 DEF OpensBuild, making, Attached, Always, ContainerIsAwaited
  <2>3. OnScreen(b)'
    BY <1>4, <2>2 DEF OpensBuild, OnScreen, Attached, Attended, MenuIsCurrent, Always, Shape,
                      ConfigsAreValid, files, making, menu
  <2>4. OneBuild'
    BY <1>4, <2>1, <2>3 DEF OpensBuild, OneBuild, Always, Shape
  <2> QED
    BY <1>4, <2>4 DEF OpensBuild, Attended, MenuIsCurrent, IsoIsCurrent, SuccessIsThisBuild,
                      SuccessIsSettled,
                      files, making
<1>5. ASSUME NEW c \in Configs, FormCompletes(c)
      PROVE  Attended'
  <2>1. OneBuild'
    BY <1>5, <1>i DEF FormCompletes, build
  <2>2. IsoIsCurrent'
    <3>1. CASE file' = c /\ newer' = (iso # None)
      BY <1>5, <3>1 DEF FormCompletes, IsoIsCurrent, making
    <3>2. CASE UNCHANGED <<file, newer>>
      BY <1>5, <3>2 DEF FormCompletes, Attended, IsoIsCurrent, making
    <3> QED
      BY <1>5, <3>1, <3>2 DEF FormCompletes, Saves
  <2>3. MenuIsCurrent' /\ SuccessIsSettled' /\ SuccessIsThisBuild'
    BY <1>5 DEF FormCompletes, MenuIsCurrent, SuccessIsThisBuild, SuccessIsSettled
  <2> QED
    BY <2>1, <2>2, <2>3 DEF Attended
<1>6. CASE FormAborts
  <2>1. OneBuild'
    BY <1>6, <1>i DEF FormAborts, build
  <2> QED
    BY <1>6, <2>1 DEF FormAborts, Attended, MenuIsCurrent, IsoIsCurrent,
                      SuccessIsThisBuild, SuccessIsSettled, files, making, menu
<1>7. CASE FormSeesKey
  <2>1. OneBuild'
    BY <1>7, <1>i DEF FormSeesKey, build
  <2> QED
    BY <1>7, <2>1 DEF FormSeesKey, FormAgain, Saves, Attended, MenuIsCurrent, IsoIsCurrent,
                      SuccessIsThisBuild, SuccessIsSettled, making
<1>8. CASE Cancels \/ LeavesBuild \/ LeavesFlash
  <2>1. OneBuild'
    BY <1>8 DEF Cancels, LeavesBuild, LeavesFlash, Attended, OneBuild, OnScreen, Attached,
                files, making,
                build
  <2> QED
    BY <1>8, <2>1 DEF Cancels, LeavesBuild, LeavesFlash, Attended, MenuIsCurrent, IsoIsCurrent,
                      SuccessIsThisBuild, SuccessIsSettled, files, making, menu
<1>9. ASSUME NEW c \in Configs, EditsByHand(c)
      PROVE  Attended'
  <2>1. OneBuild'
    <3> SUFFICES ASSUME NEW b \in Build, phase'[b] # "idle"
                 PROVE  OnScreen(b)'
      BY DEF OneBuild
    <3>1. OnScreen(b) /\ b \in overtaken'
      BY <1>9, OnlyOnScreen DEF EditsByHand, build
    <3> QED
      BY <1>9, <3>1 DEF EditsByHand, OnScreen, Attached, making, build
  <2> QED
    BY <1>9, <2>1 DEF EditsByHand, Attended, MenuIsCurrent, IsoIsCurrent,
                      SuccessIsThisBuild, SuccessIsSettled, making
<1>10. ASSUME NEW b \in Build, Prints(b) \/ LineSent(b)
       PROVE  Attended'
  <2>1. OneBuild'
    BY <1>10 DEF Prints, LineSent, Attended, OneBuild, OnScreen, Attached, files, making
  <2> QED
    BY <1>10, <2>1 DEF Prints, LineSent, Attended, MenuIsCurrent, IsoIsCurrent,
                      SuccessIsThisBuild, SuccessIsSettled, files, making, menu
<1>11. ASSUME NEW b \in Build, Progress(b)
       PROVE  Attended'
  <2>1. phase[b] \notin {"idle", "done"}
    BY <1>11 DEF Progress, Podman, Checks, Stages, Starts, Returns, StopsContainer, KillsClient,
                 Cleans, Reports, Goto
  <2>2. /\ OnScreen(b) /\ screen = "build" /\ view.running
        /\ \A d \in Build \ {b} : phase[d] = "idle"
    BY <2>1, OnlyOnScreen
  <2>3. /\ UNCHANGED <<screen, view, file, iso, want, overtaken, newer>>
        /\ \A d \in Build \ {b} : phase'[d] = "idle"
    BY <1>11, <2>2 DEF Progress, Podman, Checks, Stages, Starts, Returns, StopsContainer,
                       KillsClient, Cleans, Reports, Goto, files, making, Always, Shape
  <2>4. result'[b] => result[b]
    BY <1>11 DEF Progress, Podman, Checks, Stages, Starts, Returns, StopsContainer,
                 KillsClient, Cleans, Reports, Always, Shape
  <2>5. phase'[b] = "starting" => stage' = want'[b]
    BY <1>11, <2>2 DEF Progress, Podman, Checks, Stages, Starts, Returns, StopsContainer,
                       KillsClient, Cleans, Reports, Goto, making, OnScreen, Always, Shape
  <2>6. result'[b] => phase'[b] \in {"running", "cleaning", "reporting", "done"}
    BY <1>11, <2>2, <2>4 DEF Progress, Podman, Checks, Stages, Starts, Returns, StopsContainer,
                       KillsClient, Cleans, Reports, Goto, OnScreen, Always, Shape
  <2>7. result'[b] => container' = None
    <3>1. result[b] => container = None /\ phase[b] # "starting"
      BY <2>2 DEF OnScreen
    <3>2. (container = None /\ phase[b] # "starting") => container' = None
      BY <1>11, RemovesStageKeeps
         DEF Progress, Podman, Checks, Stages, Starts, Returns, StopsContainer, KillsClient,
             Cleans, Reports, Goto, Attached, making, Always
    <3> QED
      BY <2>4, <3>1, <3>2
  <2>8. Attached(b)' => container'.cfg = want[b] /\ (container'.step = "made" =>
                          iso # None /\ iso.cfg = want[b])
    <3>1. CASE phase[b] = "running"
      <4>1. container' \in {container, None} \/ container' = [container EXCEPT !.build = None]
        BY <1>11, <3>1 DEF Progress, Podman, Checks, Stages, Starts, Returns, StopsContainer,
                           KillsClient, Cleans, Reports, Goto, making
      <4>2. container' = [container EXCEPT !.build = None]
              => ~Attached(b)' \/ container' = container
        <5>1. container \in [build: Build \cup {None}, step: {"installing", "making", "made"},
                             cfg: ValidConfigs \cup {None}] \cup {None}
          BY DEF Always, ConfigsAreValid
        <5>2. CASE container = None
          BY <1>11, <3>1, <5>2
             DEF Progress, Podman, Checks, Stages, Starts, Returns, StopsContainer,
                 KillsClient, Cleans, Reports, Goto, making, Attached
        <5> QED
          BY <5>1, <5>2 DEF Attached
      <4> QED
        BY <2>2, <4>1, <4>2 DEF Attached, OnScreen
    <3>2. CASE phase[b] # "running" /\ phase[b] # "starting"
      <4>1. ~Attached(b)
        BY <3>2 DEF Attached, Always, ContainerIsAwaited
      <4>2. RemovesStage \/ container' = container
        BY <1>11, <3>2 DEF Progress, Podman, Checks, Stages, Starts, Returns, StopsContainer,
                           KillsClient, Cleans, Reports, Goto, making
      <4> QED
        BY <4>1, <4>2, RemovesStageKeeps DEF Attached, Always
    <3>3. CASE phase[b] = "starting"
      <4>1. ~Attached(b) /\ stage = want[b]
        BY <2>2, <3>3 DEF Attached, Always, ContainerIsAwaited, OnScreen
      <4>2. \/ container' \in {container, None}
            \/ container' = [build |-> b, step |-> "installing", cfg |-> stage]
        BY <1>11, <3>3, <4>1
           DEF Progress, Podman, Checks, Stages, Starts, Returns, StopsContainer,
               KillsClient, Cleans, Reports, Goto, making
      <4> QED
        BY <4>1, <4>2 DEF Attached
    <3> QED
      BY <3>1, <3>2, <3>3
  <2>9. OnScreen(b)'
    <3>1. want'[b] = view'.cfg /\ (want'[b] = file' \/ b \in overtaken')
      BY <2>2, <2>3 DEF OnScreen
    <3>2. result'[b] => iso' # None /\ iso'.cfg = want'[b]
      BY <2>2, <2>3, <2>4 DEF OnScreen
    <3>3. screen' = "build" /\ view'.running /\ view'.build = b
      BY <2>2, <2>3 DEF OnScreen
    <3> QED
      BY <2>3, <2>5, <2>6, <2>7, <2>8, <3>1, <3>2, <3>3 DEF OnScreen
  <2>10. OneBuild'
    BY <2>3, <2>9 DEF OneBuild
  <2> QED
    BY <2>2, <2>3, <2>10 DEF Attended, MenuIsCurrent, IsoIsCurrent, SuccessIsThisBuild,
                            SuccessIsSettled
<1>12. ASSUME container # None
       PROVE  /\ ~(screen = "build" /\ ~view.running /\ view.ok)
              /\ \A b \in Build : phase[b] # "idle" => ~result[b]
              /\ container.build \in Build =>
                   /\ phase[container.build] = "running" /\ OnScreen(container.build)
                   /\ \A d \in Build \ {container.build} : phase[d] = "idle"
                   /\ screen = "build" /\ view.running
  <2>1. ~(screen = "build" /\ ~view.running /\ view.ok)
    BY <1>12 DEF Attended, SuccessIsSettled
  <2>2. \A b \in Build : phase[b] # "idle" => ~result[b]
    BY <1>12 DEF Attended, OneBuild, OnScreen
  <2>3. container.build \in Build => phase[container.build] = "running"
    BY <1>12 DEF Always, ContainerIsAwaited
  <2> QED
    BY <2>1, <2>2, <2>3, OnlyOnScreen
<1>13. CASE TakesStage
  <2>1. /\ container # None /\ container.step = "installing"
        /\ UNCHANGED <<screen, view, cfg, edited, isoSeen, newerSeen, file, iso, want, result,
                       overtaken, stage, phase, newer>>
    BY <1>13 DEF TakesStage, At, files, build, menu
  <2>2. /\ container'.step = "making"
        /\ container'.cfg = container.cfg /\ container'.build = container.build
    <3>1. container \in [build: Build \cup {None}, step: {"installing"},
                         cfg: ValidConfigs \cup {None}]
      BY <2>1 DEF Always, ConfigsAreValid
    <3>2. container' = [build |-> container.build, step |-> "making", cfg |-> container.cfg]
      BY <1>13, <3>1 DEF TakesStage
    <3> QED
      BY <3>2
  <2>3. OneBuild'
    <3> SUFFICES ASSUME NEW b \in Build, phase'[b] # "idle"
                 PROVE  OnScreen(b)'
      BY DEF OneBuild
    <3>1. OnScreen(b)
      BY <2>1 DEF Attended, OneBuild
    <3> QED
      BY <1>12, <2>1, <2>2, <3>1 DEF OnScreen, Attached
  <2> QED
    BY <1>12, <2>1, <2>3 DEF Attended, MenuIsCurrent, IsoIsCurrent, SuccessIsThisBuild,
                             SuccessIsSettled
<1>14. CASE PutsIso
  <2>1. /\ container # None /\ container.step = "making"
        /\ UNCHANGED <<screen, view, cfg, edited, isoSeen, newerSeen, file, want, result,
                       overtaken, stage, phase>>
        /\ newer' = FALSE /\ ~left
    BY <1>14 DEF PutsIso, At, build, menu
  <2>2. container'.cfg = container.cfg /\ container'.build = container.build
    BY <1>14, <2>1 DEF PutsIso, At, Always, ConfigsAreValid
  <2>3. /\ iso' # None /\ iso'.cfg = container.cfg
        /\ iso'.overtaken = (container.build \in overtaken)
        /\ iso'.orphan = (container.build = None)
    <3>1. iso' = [cfg |-> container.cfg, overtaken |-> container.build \in overtaken,
                  orphan |-> container.build = None]
      BY <1>14, <2>1 DEF PutsIso
    <3>2. container.cfg \in Configs
      BY <2>1 DEF Always, ConfigsAreValid, ValidConfigs
    <3>3. iso' \in [cfg: Configs, overtaken: BOOLEAN, orphan: BOOLEAN]
      BY <3>1, <3>2
    <3> QED
      BY <3>1, <3>3
  <2>4. OneBuild'
    <3> SUFFICES ASSUME NEW b \in Build, phase'[b] # "idle"
                 PROVE  OnScreen(b)'
      BY DEF OneBuild
    <3>1. OnScreen(b) /\ ~result[b]
      BY <1>12, <2>1 DEF Attended, OneBuild
    <3> QED
      BY <2>1, <2>2, <2>3, <3>1 DEF OnScreen, Attached
  <2>5. IsoIsCurrent'
    <3>1. CASE container.build = None
      BY <2>3, <3>1 DEF IsoIsCurrent
    <3>2. CASE container.build \in Build
      <4>1. OnScreen(container.build) /\ Attached(container.build)
        BY <1>12, <2>1, <3>2 DEF Attached
      <4> QED
        BY <2>1, <2>3, <4>1 DEF OnScreen, IsoIsCurrent
    <3> QED
      BY <2>1, <3>1, <3>2 DEF Always, ConfigsAreValid
  <2>6. MenuIsCurrent'
    BY <2>1 DEF Attended, MenuIsCurrent
  <2> QED
    BY <1>12, <2>1, <2>4, <2>5, <2>6 DEF Attended, SuccessIsThisBuild, SuccessIsSettled
<1>15. CASE ContainerEnds \/ ContainerFails
  <2>1. PICK ok \in BOOLEAN : /\ Exits(ok)
                              /\ ok => container.step = "made"
    BY <1>15 DEF ContainerEnds, ContainerFails, At
  <2>2. /\ container # None /\ container' = None
        /\ UNCHANGED <<screen, view, cfg, edited, isoSeen, newerSeen, file, want, overtaken,
                       stage, iso, newer, phase>>
        /\ result' = [b \in Build |-> IF b = container.build THEN ok ELSE result[b]]
    BY <2>1 DEF Exits, files, menu
  <2>3. OneBuild'
    <3> SUFFICES ASSUME NEW b \in Build, phase'[b] # "idle"
                 PROVE  OnScreen(b)'
      BY DEF OneBuild
    <3>1. OnScreen(b) /\ ~result[b]
      BY <1>12, <2>2 DEF Attended, OneBuild
    <3>2. result'[b] => Attached(b) /\ container.step = "made"
      BY <2>1, <2>2, <3>1 DEF Attached
    <3>3. result'[b] => phase[b] = "running"
      BY <1>12, <2>2, <3>2 DEF Attached
    <3> QED
      BY <2>2, <3>1, <3>2, <3>3 DEF OnScreen, Attached
  <2> QED
    BY <1>12, <2>2, <2>3 DEF Attended, MenuIsCurrent, IsoIsCurrent, SuccessIsThisBuild,
                             SuccessIsSettled
<1>16. ASSUME NEW b \in Build, LineArrives(b)
       PROVE  Attended'
  <2>1. CASE ShowsLine(b)
    <3>1. OneBuild'
      BY <1>16, <2>1 DEF LineArrives, ShowsLine, Attended, OneBuild, OnScreen, Attached, files,
                         making,
                         build
    <3> QED
      BY <1>16, <2>1, <3>1 DEF LineArrives, ShowsLine, Attended, MenuIsCurrent, IsoIsCurrent,
                               SuccessIsThisBuild, SuccessIsSettled, files, making, menu
  <2>2. CASE Elsewhere
    <3>1. OneBuild'
      BY <1>16, <2>2, <1>i DEF LineArrives, Elsewhere, build
    <3> QED
      BY <1>16, <2>2, <3>1 DEF LineArrives, Elsewhere, FormAgain, Saves, Attended,
                               MenuIsCurrent, IsoIsCurrent, SuccessIsThisBuild, SuccessIsSettled,
                               files, making,
                               menu
  <2> QED
    BY <1>16, <2>1, <2>2 DEF LineArrives
<1>17. ASSUME NEW b \in Build, EndArrives(b)
       PROVE  Attended'
  <2>1. phase[b] = "done"
    BY <1>17 DEF EndArrives, Always, Shape
  <2>2. /\ OnScreen(b) /\ screen = "build" /\ view.running
        /\ \A d \in Build \ {b} : phase[d] = "idle"
    BY <2>1, OnlyOnScreen
  <2>3. OneBuild'
    BY <1>17, <2>2 DEF EndArrives, Forgets, OneBuild, Always, Shape
  <2>4. /\ view'.ok = result[b] /\ view'.cfg = view.cfg
        /\ UNCHANGED <<screen, file, newer, iso, container>>
    BY <1>17, <2>2 DEF EndArrives, ShowsEnd, Elsewhere, files, making, Always, Shape
  <2> QED
    BY <2>2, <2>3, <2>4 DEF Attended, OnScreen, Attached, MenuIsCurrent, IsoIsCurrent,
                            SuccessIsThisBuild, SuccessIsSettled
<1> QED
  BY <1>1, <1>2, <1>3, <1>4, <1>5, <1>6, <1>7, <1>8, <1>9, <1>10, <1>11, <1>13, <1>14, <1>15,
     <1>16, <1>17
     DEF Next, Keys, Works, Arrives

----------------------------------------------------------------------------
LEMMA LeftForGood ==
  ASSUME [Next]_vars, ~left'
  PROVE  ~left
  BY DEF Next, Keys, Works, Progress, Arrives, BackArrives, OpensForm, OpensFlash, OpensBuild,
         FormCompletes, FormAborts, FormSeesKey, Cancels, LeavesBuild, LeavesFlash,
         TakesStage, PutsIso, ContainerEnds, ContainerFails, Exits, EditsByHand, Prints,
         LineSent, Checks, Stages, Podman, Starts, Returns, StopsContainer, KillsClient,
         Cleans, Reports, LineArrives, EndArrives, vars

(* The parts of IInv hold in every state, the second half until a build    *)
(* was left.                                                               *)
THEOREM InvHolds == Spec => []IInv
<1>1. IInv /\ [Next]_vars => IInv'
  <2> SUFFICES ASSUME IInv, [Next]_vars PROVE IInv'
    OBVIOUS
  <2>1. Always'
    BY AlwaysKept DEF IInv, Always
  <2>2. ASSUME ~left' PROVE Attended'
    BY <2>2, LeftForGood, AttendedKept DEF IInv, Always, Attended
  <2> QED
    BY <2>1, <2>2 DEF IInv, Always, Attended
<1> QED
  BY InitInv, <1>1, PTL DEF Spec

\* What the inductive invariant leaves out of the types.
Flags ==
  /\ isoSeen \in BOOLEAN /\ newer \in BOOLEAN /\ newerSeen \in BOOLEAN
  /\ left \in BOOLEAN /\ edited \in BOOLEAN /\ overtaken \subseteq Build
  /\ backs \in 0..MaxBacks

Channels ==
  /\ cancelled \in [Build -> {"no", "asked", "tried"}] /\ printing \in [Build -> BOOLEAN]
  /\ lines \in [Build -> 0..Capacity] /\ waits \in [Build -> Nat]

\* A message that closes a screen is sent while there is room for it.
LEMMA SendsBackKeeps ==
  ASSUME backs \in 0..MaxBacks, SendsBack
  PROVE  backs' \in 0..MaxBacks
<1>1. (IF left THEN 1 ELSE MaxBacks) <= MaxBacks /\ MaxBacks \in Nat
  BY DesktopConstants
<1>2. QED
  BY <1>1 DEF SendsBack

LEMMA FormKeepsFlags ==
  ASSUME Flags, FormAgain, UNCHANGED <<left, overtaken>>
  PROVE  Flags'
<1>1. backs' \in 0..MaxBacks
  BY SendsBackKeeps DEF FormAgain, Flags
<1>2. newer' \in BOOLEAN /\ newerSeen' \in BOOLEAN
  BY DEF FormAgain, Saves, Flags
<1>3. QED
  BY <1>1, <1>2 DEF FormAgain, Flags

LEMMA FlagsKept ==
  ASSUME Flags, [Next]_vars
  PROVE  Flags'
<1>1. CASE UNCHANGED vars
  BY <1>1 DEF Flags, vars, menu, files
<1>2. CASE BackArrives
  <2>1. backs' \in 0..MaxBacks
    BY <1>2, DesktopConstants DEF BackArrives, Flags
  <2>2. /\ left' \in BOOLEAN /\ isoSeen' \in BOOLEAN /\ edited' \in BOOLEAN
        /\ overtaken' \subseteq Build
    BY <1>2 DEF BackArrives, Refresh, Flags
  <2>3. QED
    BY <1>2, <2>1, <2>2 DEF BackArrives, Refresh, Flags, files
<1>3. CASE OpensForm \/ OpensFlash \/ Cancels
  BY <1>3 DEF OpensForm, OpensFlash, Cancels, Flags, menu, files
<1>4. CASE LeavesBuild \/ LeavesFlash \/ FormAborts
  <2>1. backs' \in 0..MaxBacks
    BY <1>4, SendsBackKeeps DEF LeavesBuild, LeavesFlash, FormAborts, Flags
  <2>2. QED
    BY <1>4, <2>1 DEF LeavesBuild, LeavesFlash, FormAborts, Flags, menu, files
<1>5. CASE \E b \in Build : OpensBuild(b)
  BY <1>5 DEF OpensBuild, Flags, menu, files
<1>6. CASE \E c \in Configs : FormCompletes(c)
  <2>1. backs' \in 0..MaxBacks
    BY <1>6, SendsBackKeeps DEF FormCompletes, Flags
  <2>2. newer' \in BOOLEAN /\ newerSeen' \in BOOLEAN
    BY <1>6 DEF FormCompletes, Saves, Flags
  <2>3. QED
    BY <1>6, <2>1, <2>2 DEF FormCompletes, Flags
<1>7. CASE FormSeesKey
  BY <1>7, FormKeepsFlags DEF FormSeesKey
<1>8. CASE \E c \in Configs : EditsByHand(c)
  BY <1>8 DEF EditsByHand, Flags
<1>9. CASE \E b \in Build : Prints(b) \/ LineSent(b) \/ Progress(b)
  BY <1>9 DEF Prints, LineSent, Progress, Checks, Stages, Podman, Starts, Returns,
              StopsContainer, KillsClient, Cleans, Reports, Flags, menu, files
<1>10. CASE TakesStage \/ PutsIso
  BY <1>10 DEF TakesStage, PutsIso, Flags, menu, files
<1>11. CASE ContainerEnds \/ ContainerFails
  BY <1>11 DEF ContainerEnds, ContainerFails, Exits, Flags, menu, files
<1>12. ASSUME NEW b \in Build, Arrives(b)
       PROVE  Flags'
  <2>1. left' = left /\ overtaken' \subseteq Build
    BY <1>12 DEF Arrives, LineArrives, EndArrives, Forgets, Flags
  <2>2. CASE FormAgain
    <3>1. /\ newer' \in BOOLEAN /\ newerSeen' \in BOOLEAN /\ UNCHANGED <<isoSeen, edited>>
      BY <2>2 DEF FormAgain, Saves, Flags
    <3>2. backs' \in 0..MaxBacks
      BY <2>2, SendsBackKeeps DEF FormAgain, Flags
    <3>3. QED
      BY <2>1, <3>1, <3>2 DEF Flags
  <2>3. CASE UNCHANGED <<menu, files, backs>>
    BY <2>1, <2>3 DEF Flags, menu, files
  <2>4. QED
    BY <1>12, <2>2, <2>3 DEF Arrives, LineArrives, EndArrives, ShowsLine, ShowsEnd, Elsewhere
<1>13. QED
  BY <1>1, <1>2, <1>3, <1>4, <1>5, <1>6, <1>7, <1>8, <1>9, <1>10, <1>11, <1>12
     DEF Next, Keys, Works

LEMMA ChannelsKept ==
  ASSUME Channels, [Next]_vars
  PROVE  Channels'
<1> USE DesktopConstants
<1>1. CASE UNCHANGED <<build, channel>>
  BY <1>1 DEF Channels, build, channel
<1>2. CASE \E b \in Build : OpensBuild(b)
  BY <1>2 DEF OpensBuild, Channels
<1>3. CASE Cancels
  BY <1>3 DEF Cancels, Channels, channel
<1>4. CASE \E b \in Build : Prints(b)
  BY <1>4 DEF Prints, Channels, channel
<1>5. ASSUME NEW b \in Build, LineSent(b)
      PROVE  Channels'
  <2>1. lines' \in [Build -> 0..Capacity]
    BY <1>5 DEF LineSent, Channels
  <2>2. QED
    BY <1>5, <2>1 DEF LineSent, Channels
<1>6. CASE \E b \in Build : Progress(b)
  BY <1>6 DEF Progress, Checks, Stages, Podman, Starts, Returns, StopsContainer, KillsClient,
              Cleans, Reports, Channels, channel
<1>7. CASE ContainerEnds \/ ContainerFails
  BY <1>7 DEF ContainerEnds, ContainerFails, Exits, Channels, channel
<1>8. ASSUME NEW b \in Build, Arrives(b)
      PROVE  Channels'
  <2>1. Listening(b) \in [Build -> Nat]
    BY <1>8 DEF Arrives, LineArrives, EndArrives, Listening, Channels
  <2>2. waits' \in [Build -> Nat]
    BY <1>8, <2>1 DEF Arrives, LineArrives, EndArrives, ShowsLine
  <2>3. lines' \in [Build -> 0..Capacity]
    BY <1>8 DEF Arrives, LineArrives, EndArrives, Channels
  <2>4. cancelled' \in [Build -> {"no", "asked", "tried"}] /\ printing' = printing
    BY <1>8 DEF Arrives, LineArrives, EndArrives, Forgets, Channels, build
  <2>5. QED
    BY <2>2, <2>3, <2>4 DEF Channels
<1>9. QED
  BY <1>1, <1>2, <1>3, <1>4, <1>5, <1>6, <1>7, <1>8
     DEF Next, Keys, Works, BackArrives, OpensForm, OpensFlash, FormCompletes, FormAborts,
         FormSeesKey, LeavesBuild, LeavesFlash, EditsByHand, TakesStage, PutsIso, vars

(* Every variable keeps its shape: a channel never holds more than its     *)
(* capacity, and a wait command that is issued twice is ended twice.       *)
THEOREM DesktopTypeCorrect == Spec => []TypeOK
<1>1. Init => Flags /\ Channels
  <2> SUFFICES ASSUME Init PROVE Flags /\ Channels
    OBVIOUS
  <2>1. Flags
    <3>1. backs \in 0..MaxBacks
      BY DesktopConstants DEF Init
    <3>2. overtaken \subseteq Build
      BY DEF Init
    <3>3. QED
      BY <3>1, <3>2 DEF Init, Flags
  <2>2. Channels
    BY DesktopConstants DEF Init, Channels
  <2>3. QED  BY <2>1, <2>2
<1>2. Flags /\ Channels /\ [Next]_vars => Flags' /\ Channels'
  BY FlagsKept, ChannelsKept
<1>3. IInv /\ Flags /\ Channels => TypeOK
  <2> SUFFICES ASSUME IInv, Flags, Channels PROVE TypeOK
    OBVIOUS
  <2>1. iso \in [cfg: Configs, overtaken: BOOLEAN, orphan: BOOLEAN] \cup {None}
    BY DEF IInv, ConfigsAreValid, ValidConfigs
  <2>2. form \in [state: {"none", "open", "completed", "aborted"}, values: Configs \cup {None}]
    BY DEF IInv, ConfigsAreValid
  <2>3. /\ stage \in Configs \cup {None}
        /\ want \in [Build -> Configs \cup {None}]
    BY DEF IInv, ConfigsAreValid, ValidConfigs
  <2>4. container \in [build: Build \cup {None}, step: {"installing", "making", "made"},
                       cfg: Configs \cup {None}] \cup {None}
    BY DEF IInv, ConfigsAreValid, ValidConfigs
  <2>5. /\ screen \in {"menu", "config", "build", "flash"}
        /\ view \in [build: Build \cup {None}, cfg: Configs \cup {None}, running: BOOLEAN,
                     ok: BOOLEAN]
        /\ phase \in [Build -> Phase] /\ result \in [Build -> BOOLEAN]
        /\ ended \in [Build -> BOOLEAN]
        /\ cfg \in Configs \cup {None} /\ file \in Configs \cup {None}
    BY DEF IInv, ConfigsAreValid, Shape
  <2>6. QED
    BY <2>1, <2>2, <2>3, <2>4, <2>5 DEF TypeOK, Flags, Channels
<1>4. QED
  BY <1>1, <1>2, <1>3, InvHolds, PTL DEF Spec

\* Only a message that closes the build screen takes it away, and closes it.
RunsOnScreen == view.running => screen = "build"

LEMMA RunsOnScreenKept ==
  ASSUME IInv, RunsOnScreen, [Next]_vars
  PROVE  RunsOnScreen'
<1>1. CASE UNCHANGED <<view, screen>>
  BY <1>1 DEF RunsOnScreen
<1>2. CASE BackArrives
  BY <1>2 DEF BackArrives, Closed, RunsOnScreen
<1>3. CASE OpensForm \/ OpensFlash
  BY <1>3 DEF OpensForm, OpensFlash, RunsOnScreen
<1>4. CASE \E b \in Build : OpensBuild(b)
  BY <1>4 DEF OpensBuild, RunsOnScreen
<1>5. ASSUME NEW b \in Build, EndArrives(b), view' # view
      PROVE  RunsOnScreen'
  BY <1>5 DEF EndArrives, ShowsEnd, Elsewhere, RunsOnScreen, IInv, Shape
<1>6. ASSUME NEW b \in Build, Arrives(b)
      PROVE  RunsOnScreen'
  <2>1. screen' = screen
    BY <1>6 DEF Arrives, LineArrives, EndArrives
  <2>2. CASE view' = view
    BY <2>1, <2>2 DEF RunsOnScreen
  <2>3. QED
    BY <1>5, <1>6, <2>2 DEF Arrives, LineArrives, ShowsLine, Elsewhere
<1>7. QED
  BY <1>1, <1>2, <1>3, <1>4, <1>6
     DEF Next, Keys, Works, Progress, FormCompletes, FormAborts, FormSeesKey, Cancels,
         LeavesBuild, LeavesFlash, EditsByHand, Prints, LineSent, Checks, Stages, Podman,
         Starts, Returns, StopsContainer, KillsClient, Cleans, Reports, TakesStage, PutsIso,
         ContainerEnds, ContainerFails, Exits, vars

LEMMA HeardKept ==
  ASSUME IInv, Channels, RunsOnScreen, RunningBuildIsHeard, [Next]_vars
  PROVE  RunningBuildIsHeard'
<1> USE DesktopConstants
<1> DEFINE Heard(b) == waits[b] = IF view.running /\ view.build = b THEN 1 ELSE 0
<1> SUFFICES ASSUME ~left', NEW b \in Build
             PROVE  Heard(b)'
  BY DEF RunningBuildIsHeard
<1>1. ~left /\ \A d \in Build : Heard(d)
  BY LeftForGood DEF RunningBuildIsHeard
<1>2. view \in [build: Build \cup {None}, cfg: Configs \cup {None}, running: BOOLEAN,
                ok: BOOLEAN]
  BY DEF IInv, Shape
<1>3. waits \in [Build -> Nat]
  BY DEF Channels
<1>4. CASE UNCHANGED <<view, waits>>
  BY <1>1, <1>4
<1>5. CASE BackArrives
  <2>1. ~view.running
    BY <1>5 DEF BackArrives, RunsOnScreen
  <2>2. ~view'.running /\ waits' = waits
    BY <1>5 DEF BackArrives, Closed, channel
  <2>3. QED
    BY <1>1, <2>1, <2>2
<1>6. CASE \E c \in Build : OpensBuild(c)
  <2>1. PICK c \in Build : OpensBuild(c)
    BY <1>6
  <2>2. /\ ~view.running
        /\ waits' = [waits EXCEPT ![c] = 1]
        /\ view'.running /\ view'.build = c
    BY <2>1 DEF OpensBuild, RunsOnScreen
  <2>3. QED
    BY <1>1, <1>3, <2>2
<1>7. CASE \E c \in Build : Arrives(c)
  <2>1. PICK c \in Build : Arrives(c)
    BY <1>7
  <2>2. waits[c] > 0
    BY <2>1 DEF Arrives, LineArrives, EndArrives
  <2>3. view.running /\ view.build = c /\ waits[c] = 1 /\ screen = "build"
    BY <1>1, <2>2 DEF RunsOnScreen
  <2>4. CASE LineArrives(c)
    <3>1. ShowsLine(c) /\ view' = view
      BY <2>3, <2>4 DEF LineArrives, ShowsLine, Elsewhere
    <3>2. waits' = [[waits EXCEPT ![c] = @ - 1] EXCEPT ![c] = @ + 1]
      BY <2>3, <3>1 DEF ShowsLine, Listening
    <3>3. waits'[b] = waits[b]
      BY <1>3, <2>3, <3>2
    <3>4. QED
      BY <1>1, <3>1, <3>3
  <2>5. CASE EndArrives(c)
    <3>1. ShowsEnd(c) /\ waits' = [waits EXCEPT ![c] = @ - 1]
      BY <2>3, <2>5 DEF EndArrives, Elsewhere, Listening
    <3>2. ~view'.running
      BY <1>2, <3>1 DEF ShowsEnd
    <3>3. waits'[b] = 0
      BY <1>1, <1>3, <2>3, <3>1
    <3>4. QED
      BY <3>2, <3>3
  <2>6. QED
    BY <2>1, <2>4, <2>5 DEF Arrives
<1>8. QED
  BY <1>4, <1>5, <1>6, <1>7
     DEF Next, Keys, Works, Progress, OpensForm, OpensFlash, FormCompletes, FormAborts,
         FormSeesKey, Cancels, LeavesBuild, LeavesFlash, EditsByHand, Prints, LineSent, Checks,
         Stages, Podman, Starts, Returns, StopsContainer, KillsClient, Cleans, Reports,
         TakesStage, PutsIso, ContainerEnds, ContainerFails,
         Exits, channel, vars

(* A build that runs on its screen is listened to by one wait command, and *)
(* no other build is, until a build is left: the end of no build is missed *)
(* and no line of an old one is shown.                                     *)
THEOREM RunningBuildIsAlwaysHeard == Spec => []RunningBuildIsHeard
<1>1. Init => RunsOnScreen /\ RunningBuildIsHeard
  BY DEF Init, RunsOnScreen, RunningBuildIsHeard, Closed
<1>2. IInv /\ Channels /\ RunsOnScreen /\ RunningBuildIsHeard /\ [Next]_vars
        => RunsOnScreen' /\ RunningBuildIsHeard'
  BY RunsOnScreenKept, HeardKept
<1>3. TypeOK => Channels
  BY DEF TypeOK, Channels
<1>4. QED
  BY <1>1, <1>2, <1>3, InvHolds, DesktopTypeCorrect, PTL DEF Spec

(* No config that config.Validate refuses gets into an ISO, and one that   *)
(* it accepts is sound: every server gets an address of its own.           *)
THEOREM BuiltConfigIsAlwaysSound == Spec => []BuiltConfigIsSound
<1>1. IInv => BuiltConfigIsSound
  <2> SUFFICES ASSUME IInv, iso # None PROVE Sound(iso.cfg)
    BY DEF BuiltConfigIsSound
  <2>1. iso.cfg \in Config /\ ValidConfig(iso.cfg)
    BY DesktopConstants DEF IInv, ConfigsAreValid, ValidConfigs
  <2> QED
    BY <2>1, ValidConfigsAreSound
<1> QED
  BY InvHolds, <1>1, PTL

(* The menu marks an ISO that does not hold config.env.                    *)
THEOREM OutdatedIsoIsAlwaysMarked == Spec => []OutdatedIsoIsMarked
<1>1. IInv => OutdatedIsoIsMarked
  BY DEF IInv, Shape, MenuIsCurrent, IsoIsCurrent, OutdatedIsoIsMarked
<1> QED
  BY InvHolds, <1>1, PTL

(* The build screen calls only that a success which made the ISO.          *)
THEOREM SuccessIsAlwaysThisBuild == Spec => []SuccessIsThisBuild
<1>1. IInv => SuccessIsThisBuild
  BY DEF IInv, SuccessIsThisBuild
<1> QED
  BY InvHolds, <1>1, PTL

----------------------------------------------------------------------------
\* Paths.

\* What s may use for p: the switch if the transport allows it, nothing yet,
\* or an address that p has or had. The coordinator is always known.
IsWay(e, p) ==
  \/ e = Switch /\ auto
  \/ e = NoPeer /\ p # C
  \/ e \in 1..lan[p]

Endpoints ==
  \A s \in Server : \A p \in Server \ {s} : IsWay(conf[s][p], p) /\ IsWay(live[s][p], p)

\* No record, in the registry or on its way, names an address of the future.
Records ==
  \A s \in Server :
    /\ reg[s].lan \in 1..lan[s]
    /\ list[s] # NoList => \A p \in Server : list[s].members[p].lan \in 1..lan[p]

PathsIInv ==
  /\ PathsTypeOK /\ Endpoints /\ Records
  /\ lan[C] = 1
  /\ DOMAIN conf = Server /\ DOMAIN live = Server /\ DOMAIN list = Server

\* What is a way to p stays one, as long as p keeps its address.
LEMMA WaysKept ==
  ASSUME UNCHANGED <<auto, lan>>,
         \A s \in Server : \A p \in Server \ {s} :
           IsWay(conf'[s][p], p) /\ IsWay(live'[s][p], p)
  PROVE  Endpoints'
<1> SUFFICES ASSUME NEW s \in Server, NEW p \in Server \ {s}
             PROVE  IsWay(conf[s][p], p)' /\ IsWay(live[s][p], p)'
  BY DEF Endpoints
<1>1. IsWay(conf'[s][p], p) /\ IsWay(live'[s][p], p)
  OBVIOUS
<1>2. QED
  BY <1>1 DEF IsWay

LEMMA PathsInitInv == PathsInit => PathsIInv
<1> SUFFICES ASSUME PathsInit PROVE PathsIInv
  OBVIOUS
<1>1. /\ auto \in BOOLEAN /\ C \in Server /\ MaxAddress \in Nat \ {0} /\ MaxMoves \in Nat
      /\ 1 \in LanAddress
  BY PathsConstants DEF PathsInit, Server, LanAddress
<1>2. /\ \A s \in Server : Link(s) \in BOOLEAN
      /\ reg \in [Server -> Record]
      /\ \A s \in Server : reg[s].lan = 1 /\ lan[s] = 1
  BY <1>1 DEF PathsInit, Record, Link
<1>3. \A s \in Server : Endpoint(Link(s), reg[C]) \in {Switch, 1}
                        /\ (Endpoint(Link(s), reg[C]) = Switch => auto)
  BY <1>1, <1>2 DEF Endpoint, Switch
<1>4. /\ Switch \in LanAddress \cup {Switch, NoPeer}
      /\ \A s \in Server : \A p \in Server \ {s} :
           /\ conf[s][p] \in LanAddress \cup {Switch, NoPeer}
           /\ IsWay(conf[s][p], p)
  BY <1>1, <1>2, <1>3 DEF PathsInit, IsWay, Server
<1>5. \A s \in Server : conf[s] \in [Server \ {s} -> LanAddress \cup {Switch, NoPeer}]
  BY <1>4 DEF PathsInit
<1>6. PathsTypeOK
  BY <1>1, <1>2, <1>5 DEF PathsInit, PathsTypeOK
<1>7. Endpoints /\ Records
  BY <1>1, <1>2, <1>4 DEF PathsInit, Endpoints, Records
<1>8. lan[C] = 1 /\ DOMAIN conf = Server /\ DOMAIN live = Server /\ DOMAIN list = Server
  BY <1>1, <1>2 DEF PathsInit
<1>9. QED
  BY <1>6, <1>7, <1>8 DEF PathsIInv

\* What WireGuard takes for the way to the sender is one.
LEMMA SourceIsWay ==
  ASSUME PathsIInv, NEW s \in Server, NEW p \in Server, s # p
  PROVE  /\ IsWay(Source(s, p), s)
         /\ Source(s, p) \in LanAddress \cup {Switch, NoPeer}
<1>1. lan[s] \in LanAddress /\ lan[s] \in 1..lan[s]
  BY DEF PathsIInv, PathsTypeOK, LanAddress
<1>2. live[s][p] = Switch => auto
  BY DEF PathsIInv, Endpoints, IsWay, Switch, NoPeer
<1>3. QED
  BY <1>1, <1>2 DEF Source, IsWay

\* One endpoint of one server becomes what it heard.
LEMMA HeardKeeps ==
  ASSUME PathsIInv, NEW s \in Server, NEW p \in Server, s # p,
         live' = [live EXCEPT ![p][s] = Source(s, p)], UNCHANGED <<auto, lan>>
  PROVE  /\ DOMAIN live' = Server
         /\ \A q \in Server : live'[q] \in [Server \ {q} -> LanAddress \cup {Switch, NoPeer}]
         /\ \A q \in Server : \A r \in Server \ {q} : IsWay(live'[q][r], r)
<1>1. /\ DOMAIN live' = Server
      /\ \A q \in Server : q # p => live'[q] = live[q]
      /\ live'[p] = [live[p] EXCEPT ![s] = Source(s, p)]
  BY DEF PathsIInv
<1>2. live[p] \in [Server \ {p} -> LanAddress \cup {Switch, NoPeer}] /\ s \in Server \ {p}
  BY DEF PathsIInv, PathsTypeOK
<1>3. live'[p] \in [Server \ {p} -> LanAddress \cup {Switch, NoPeer}]
  BY <1>1, <1>2, SourceIsWay
<1>4. \A q \in Server : live'[q] \in [Server \ {q} -> LanAddress \cup {Switch, NoPeer}]
  BY <1>1, <1>3 DEF PathsIInv, PathsTypeOK
<1>5. \A q \in Server : \A r \in Server \ {q} :
        live'[q][r] = IF q = p /\ r = s THEN Source(s, p) ELSE live[q][r]
  BY <1>1, <1>2
<1>6. \A q \in Server : \A r \in Server \ {q} : IsWay(live'[q][r], r)
  <2> SUFFICES ASSUME NEW q \in Server, NEW r \in Server \ {q}
               PROVE  IsWay(live'[q][r], r)
    OBVIOUS
  <2>1. IsWay(live[q][r], r)
    BY DEF PathsIInv, Endpoints
  <2>2. live'[q][r] = IF q = p /\ r = s THEN Source(s, p) ELSE live[q][r]
    BY <1>5
  <2>3. QED
    BY <2>1, <2>2, SourceIsWay
<1>7. QED
  BY <1>1, <1>4, <1>6

LEMMA KeepaliveInv ==
  ASSUME PathsIInv, NEW s \in Server, NEW p \in Server \ {s}, Keepalive(s, p)
  PROVE  PathsIInv'
<1>1. /\ live' = [live EXCEPT ![p][s] = Source(s, p)]
      /\ UNCHANGED <<auto, cable, lan, reg, conf, list, moves>>
  BY DEF Keepalive
<1>2. /\ DOMAIN live' = Server
      /\ \A q \in Server : live'[q] \in [Server \ {q} -> LanAddress \cup {Switch, NoPeer}]
      /\ \A q \in Server : \A r \in Server \ {q} : IsWay(live'[q][r], r)
  BY <1>1, HeardKeeps
<1>3. PathsTypeOK'
  BY <1>1, <1>2 DEF PathsIInv, PathsTypeOK
<1>4. Endpoints'
  BY <1>1, <1>2, WaysKept DEF PathsIInv, Endpoints
<1>5. Records'
  BY <1>1 DEF PathsIInv, Records
<1>6. QED
  BY <1>1, <1>2, <1>3, <1>4, <1>5 DEF PathsIInv

\* Listing: the registry gets a true record, the list is the registry.
LEMMA ListKeeps ==
  ASSUME PathsIInv, NEW s \in Server, NEW r \in Record,
         reg' = [reg EXCEPT ![s] = r], r.lan \in 1..lan[s],
         list' = [list EXCEPT ![s] = [members |-> reg', link |-> Link(s)]],
         UNCHANGED <<auto, cable, lan, conf, moves>>
  PROVE  /\ Records' /\ DOMAIN list' = Server
         /\ reg' \in [Server -> Record]
         /\ \A q \in Server : list'[q] \in Listed \cup {NoList}
<1>1. reg' \in [Server -> Record] /\ \A q \in Server : reg'[q].lan \in 1..lan[q]
  BY DEF PathsIInv, PathsTypeOK, Records
<1>2. Link(s) \in BOOLEAN
  BY DEF Link
<1> DEFINE new == [members |-> reg', link |-> Link(s)]
<1>3. new \in Listed /\ new.members = reg'
  BY <1>1, <1>2 DEF Listed
<1> HIDE DEF new
<1>4. list' = [list EXCEPT ![s] = new]
  BY DEF new
<1>5. DOMAIN list' = Server /\ \A q \in Server : list'[q] = IF q = s THEN new ELSE list[q]
  BY <1>4 DEF PathsIInv
<1>6. \A q \in Server : list'[q] \in Listed \cup {NoList}
  BY <1>3, <1>5 DEF PathsIInv, PathsTypeOK
<1>7. Records'
  BY <1>1, <1>3, <1>5 DEF PathsIInv, Records
<1>8. QED
  BY <1>1, <1>5, <1>6, <1>7

LEMMA CoordinatorListsInv == ASSUME PathsIInv, CoordinatorLists PROVE PathsIInv'
<1> DEFINE r == [reg[C] EXCEPT !.switch = Link(C)]
<1>1. C \in Server /\ reg[C] \in Record /\ Link(C) \in BOOLEAN
  BY DEF Server, PathsIInv, PathsTypeOK, Link
<1>2. r \in Record /\ r.lan = reg[C].lan
  BY <1>1 DEF Record
<1>3. reg' = [reg EXCEPT ![C] = r]
  BY <1>1 DEF CoordinatorLists, PathsIInv, PathsTypeOK
<1> HIDE DEF r
<1>4. /\ list' = [list EXCEPT ![C] = [members |-> reg', link |-> Link(C)]]
      /\ UNCHANGED <<auto, cable, lan, conf, live, moves>>
  BY DEF CoordinatorLists
<1>5. r.lan \in 1..lan[C]
  BY <1>1, <1>2 DEF PathsIInv, Records
<1>6. /\ Records' /\ DOMAIN list' = Server
      /\ reg' \in [Server -> Record]
      /\ \A q \in Server : list'[q] \in Listed \cup {NoList}
  BY <1>1, <1>2, <1>3, <1>4, <1>5, ListKeeps
<1>7. PathsTypeOK' /\ Endpoints'
  BY <1>4, <1>6 DEF PathsIInv, PathsTypeOK, Endpoints, IsWay
<1>8. QED
  BY <1>4, <1>6, <1>7 DEF PathsIInv

LEMMA NodeListsInv == ASSUME PathsIInv, NEW n \in Node, NodeLists(n) PROVE PathsIInv'
<1> DEFINE r == [lan |-> lan[n], switch |-> Link(n)]
<1>1. n \in Server /\ C \in Server /\ n # C /\ lan[n] \in LanAddress /\ Link(n) \in BOOLEAN
  BY PathsConstants DEF Server, PathsIInv, PathsTypeOK, Link
<1>2. r \in Record /\ r.lan \in 1..lan[n]
  BY <1>1 DEF Record, LanAddress
<1>3. /\ reg' = [reg EXCEPT ![n] = r]
      /\ list' = [list EXCEPT ![n] = [members |-> reg', link |-> Link(n)]]
      /\ live' = [live EXCEPT ![C][n] = Source(n, C)]
      /\ UNCHANGED <<auto, cable, lan, conf, moves>>
  BY DEF NodeLists
<1> HIDE DEF r
<1>4. /\ Records' /\ DOMAIN list' = Server
      /\ reg' \in [Server -> Record]
      /\ \A q \in Server : list'[q] \in Listed \cup {NoList}
  BY <1>1, <1>2, <1>3, ListKeeps
<1>5. /\ DOMAIN live' = Server
      /\ \A q \in Server : live'[q] \in [Server \ {q} -> LanAddress \cup {Switch, NoPeer}]
      /\ \A q \in Server : \A p \in Server \ {q} : IsWay(live'[q][p], p)
  BY <1>1, <1>3, HeardKeeps
<1>6. PathsTypeOK'
  BY <1>3, <1>4, <1>5 DEF PathsIInv, PathsTypeOK
<1>7. Endpoints'
  BY <1>3, <1>5, WaysKept DEF PathsIInv, Endpoints
<1>8. QED
  BY <1>3, <1>4, <1>5, <1>6, <1>7 DEF PathsIInv

\* What a list says of a peer, with the ping, is a way to it.
LEMMA AppliesInv == ASSUME PathsIInv, NEW s \in Server, Applies(s) PROVE PathsIInv'
<1> DEFINE e(p) == Endpoint(list[s].link, Checked(s, p))
           table == [p \in Server \ {s} |-> e(p)]
<1>1. /\ list[s] \in Listed /\ list[s] # NoList
      /\ UNCHANGED <<auto, cable, lan, reg, moves>>
      /\ list' = [list EXCEPT ![s] = NoList]
  BY DEF Applies, PathsIInv, PathsTypeOK
<1>2. conf' = [conf EXCEPT ![s] = table] /\ live' = [live EXCEPT ![s] = conf'[s]]
  BY DEF Applies
<1>3. \A p \in Server : e(p) \in LanAddress \cup {Switch} /\ IsWay(e(p), p)
  <2> SUFFICES ASSUME NEW p \in Server
               PROVE  e(p) \in LanAddress \cup {Switch} /\ IsWay(e(p), p)
    OBVIOUS
  <2>1. list[s].members[p] \in Record /\ list[s].members[p].lan \in 1..lan[p]
    BY <1>1 DEF Listed, PathsIInv, Records
  <2>2. Checked(s, p).lan = list[s].members[p].lan
    BY <2>1 DEF Checked, Record
  <2>3. Checked(s, p).lan \in LanAddress /\ Checked(s, p).lan \in 1..lan[p]
    BY <2>1, <2>2 DEF Record
  <2>4. QED
    BY <2>3 DEF Endpoint, IsWay
<1>4. table \in [Server \ {s} -> LanAddress \cup {Switch, NoPeer}]
  BY <1>3
<1>5. \A p \in Server \ {s} : IsWay(table[p], p)
  BY <1>3
<1> HIDE DEF table
<1>6. /\ DOMAIN conf' = Server /\ DOMAIN live' = Server /\ DOMAIN list' = Server
      /\ conf'[s] = table /\ live'[s] = table /\ list'[s] = NoList
      /\ \A q \in Server : q # s =>
           conf'[q] = conf[q] /\ live'[q] = live[q] /\ list'[q] = list[q]
  BY <1>1, <1>2 DEF PathsIInv
<1>7. \A q \in Server :
        /\ conf'[q] \in [Server \ {q} -> LanAddress \cup {Switch, NoPeer}]
        /\ live'[q] \in [Server \ {q} -> LanAddress \cup {Switch, NoPeer}]
        /\ list'[q] \in Listed \cup {NoList}
  BY <1>4, <1>6 DEF PathsIInv, PathsTypeOK
<1>8. PathsTypeOK'
  BY <1>1, <1>7 DEF PathsIInv, PathsTypeOK
<1>9. Endpoints'
  BY <1>1, <1>5, <1>6 DEF PathsIInv, Endpoints, IsWay
<1>10. Records'
  BY <1>1, <1>6 DEF PathsIInv, Records
<1>11. QED
  BY <1>1, <1>6, <1>8, <1>9, <1>10 DEF PathsIInv

LEMMA ReplugInv == ASSUME PathsIInv, NEW s \in Server, Replug(s) PROVE PathsIInv'
<1>1. /\ moves < MaxMoves /\ moves' = moves + 1
      /\ UNCHANGED <<auto, lan, reg, conf, live, list>>
  BY DEF Replug
<1>2. cable' \in [Server -> {"none", "switch", "router"}]
  BY DEF Replug, PathsIInv, PathsTypeOK
<1>3. moves' \in 0..MaxMoves
  BY <1>1, PathsConstants DEF PathsIInv, PathsTypeOK
<1>4. QED
  BY <1>1, <1>2, <1>3 DEF PathsIInv, PathsTypeOK, Endpoints, IsWay, Records

\* Addresses only get newer.
LEMMA NewAddressInv == ASSUME PathsIInv, NEW n \in Node, NewAddress(n) PROVE PathsIInv'
<1>1. /\ moves < MaxMoves /\ moves' = moves + 1 /\ lan[n] < MaxAddress
      /\ lan' = [lan EXCEPT ![n] = @ + 1]
      /\ UNCHANGED <<auto, cable, reg, conf, live, list>>
  BY DEF NewAddress
<1>2. n \in Server /\ C \in Server /\ n # C
  BY PathsConstants DEF Server
<1>3. moves' \in 0..MaxMoves
  BY <1>1, PathsConstants DEF PathsIInv, PathsTypeOK
<1>4. lan' \in [Server -> LanAddress]
  BY <1>1, <1>2, PathsConstants DEF PathsIInv, PathsTypeOK, LanAddress
<1>5. \A p \in Server : 1..lan[p] \subseteq 1..lan'[p]
  BY <1>1, <1>2 DEF PathsIInv, PathsTypeOK, LanAddress
<1>6. PathsTypeOK' /\ lan'[C] = 1
  BY <1>1, <1>2, <1>3, <1>4 DEF PathsIInv, PathsTypeOK
<1>7. Endpoints'
  BY <1>1, <1>5 DEF PathsIInv, Endpoints, IsWay
<1>8. Records'
  BY <1>1, <1>5 DEF PathsIInv, Records
<1>9. QED
  BY <1>1, <1>6, <1>7, <1>8 DEF PathsIInv

LEMMA RebootInv == ASSUME PathsIInv, NEW s \in Server, Reboot(s) PROVE PathsIInv'
<1>1. /\ moves < MaxMoves /\ moves' = moves + 1
      /\ live' = [live EXCEPT ![s] = conf[s]]
      /\ list' = [list EXCEPT ![s] = NoList]
      /\ UNCHANGED <<auto, cable, lan, reg, conf>>
  BY DEF Reboot
<1>2. moves' \in 0..MaxMoves
  BY <1>1, PathsConstants DEF PathsIInv, PathsTypeOK
<1>3. /\ DOMAIN live' = Server /\ DOMAIN list' = Server
      /\ \A q \in Server :
           /\ live'[q] \in {live[q], conf[q]}
           /\ list'[q] \in {list[q], NoList}
  BY <1>1 DEF PathsIInv
<1>4. PathsTypeOK'
  BY <1>1, <1>2, <1>3 DEF PathsIInv, PathsTypeOK
<1>5. Endpoints'
  BY <1>1, <1>3 DEF PathsIInv, Endpoints, IsWay
<1>6. Records'
  BY <1>1, <1>3 DEF PathsIInv, Records
<1>7. QED
  BY <1>1, <1>3, <1>4, <1>5, <1>6 DEF PathsIInv

LEMMA PathsNextInv == ASSUME PathsIInv, PathsNext PROVE PathsIInv'
<1>1. CASE \E s \in Server : Sync(s)
  <2>1. PICK s \in Server : Sync(s)
    BY <1>1
  <2>2. CASE s = C /\ CoordinatorLists
    BY <2>2, CoordinatorListsInv
  <2>3. CASE s # C /\ NodeLists(s)
    BY <2>3, NodeListsInv DEF Server
  <2>4. CASE Applies(s)
    BY <2>4, AppliesInv
  <2>5. QED
    BY <2>1, <2>2, <2>3, <2>4 DEF Sync
<1>2. CASE \E s \in Server : Replug(s) \/ Reboot(s)
  BY <1>2, ReplugInv, RebootInv
<1>3. CASE \E s \in Server : \E p \in Server \ {s} : Keepalive(s, p)
  BY <1>3, KeepaliveInv
<1>4. CASE \E n \in Node : NewAddress(n)
  BY <1>4, NewAddressInv
<1>5. QED
  BY <1>1, <1>2, <1>3, <1>4 DEF PathsNext

LEMMA PathsInvHolds == PathsSpec => []PathsIInv
<1>1. ASSUME PathsIInv, UNCHANGED pathsVars PROVE PathsIInv'
  BY <1>1 DEF pathsVars, PathsIInv, PathsTypeOK, Endpoints, IsWay, Records
<1>2. QED
  BY <1>1, PathsInitInv, PathsNextInv, PTL DEF PathsSpec

(* Every endpoint in a config or an interface is the switch, nothing, or   *)
(* an address; cables, lists and records keep their shape.                 *)
THEOREM PathsTypeCorrect == PathsSpec => []PathsTypeOK
BY PathsInvHolds, PTL DEF PathsIInv

(* A node loses the coordinator only over the switch, with the transport   *)
(* auto and a cable that is elsewhere: whatever is pulled, rebooted or     *)
(* given a new address, and however old the lists are that servers apply.  *)
THEOREM OnlyTheSwitchFails == PathsSpec => []LostOnTheSwitchOnly
<1>1. PathsIInv => LostOnTheSwitchOnly
  <2> SUFFICES ASSUME PathsIInv, NEW n \in Node, ~Delivers(n, C)
               PROVE  auto /\ live[n][C] = Switch /\ ~(OnSwitch(n) /\ OnSwitch(C))
    BY DEF LostOnTheSwitchOnly
  <2>1. n \in Server /\ C \in Server \ {n}
    BY PathsConstants DEF Server
  <2>2. IsWay(live[n][C], C)
    BY <2>1 DEF PathsIInv, Endpoints
  <2>3. QED
    BY <2>1, <2>2 DEF IsWay, Delivers, PathsIInv
<1>2. QED
  BY <1>1, PathsInvHolds, PTL
=============================================================================
