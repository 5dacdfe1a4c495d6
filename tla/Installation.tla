---------------------------- MODULE Installation ----------------------------
(***************************************************************************)
(* What an installation does to the disks of a laptop: Real.Install in     *)
(* internal/install/steps.go with releaseDisk, checkLayout and pacstrap,   *)
(* run again after a failure, closed and opened again with other answers,  *)
(* or cut off by a power cut; then the first boots of the installed        *)
(* server, in which runTPMEnroll (cmd/dryserver/main.go) lets the TPM      *)
(* unlock the disk and removes the one-time key.                           *)
(*                                                                         *)
(* A step is one command or a few whose order does not matter. It may fail *)
(* before it did anything, and it may be reported as failed after it did   *)
(* everything: a cancelled command is killed at any point.                 *)
(***************************************************************************)
EXTENDS Naturals, FiniteSets

CONSTANTS
  Disk,
  None,
  Volume,       \* what an old system may have left on the disks: LVM, RAID
  Known,        \* those of a type that releaseDisk has a command for
  Systems,      \* old systems to look at, as the sets of their volumes
  On,           \* On[v]: the partitions <<disk, number>> v lies on in the end
  Above,        \* Above[v]: the volumes that lie on v
  OldParts,     \* OldParts[d]: the number of partitions of the old system
  Attempts,     \* of pacstrap in one installation (3 in the code)
  MaxInstalls,  \* bound on installations started
  MaxFaults     \* bound on failing commands, stale tables and power cuts

Mapper     == {"root", "data0"}
MountPoint == {"/", "/boot", "/data"}

ASSUME InstallationConstants ==
  /\ None \notin Disk
  /\ Volume \cap (Mapper \cup MountPoint) = {} /\ Known \subseteq Volume
  /\ Systems \subseteq SUBSET Volume
  /\ On \in [Volume -> SUBSET (Disk \X (Nat \ {0}))]
  /\ Above \in [Volume -> SUBSET Volume]
  /\ \A v \in Volume : \A w \in Above[v] : On[v] \subseteq On[w] /\ v \notin Above[w]
  /\ OldParts \in [Disk -> Nat]
  /\ Attempts \in Nat \ {0}
  /\ MaxInstalls \in Nat
  /\ MaxFaults \in Nat

VARIABLES
  pc,      \* where Install is; between installations; where the server is
  ch,      \* the answers: system disk, a data disk, encryption
  todo,    \* the disks the current loop has to visit
  listed,  \* what releaseDisk has yet to visit of lsblk's list of a disk
  try,     \* the attempt of pacstrap
  state,   \* installState: mappers opened, the first-boot key
  table,   \* table[d]: the layout written on d
  seen,    \* seen[d]: the layout the kernel knows
  old,     \* the volumes of the old system
  active,  \* those of them that are started
  open,    \* open[m]: the disk whose container is mapped as m
  mounts,  \* what is mounted below the target: <<disk, mount point>>
  keys,    \* keys[d]: the key slots of the container on d, {} without one
  root,    \* root[d]: the root file system on d
  from,    \* the disk the server was started from
  installs,\* the number of this installation, which names its keys
  faults

disks   == <<table, keys, root>>
kernel  == <<seen, active, open, mounts, from>>
program == <<ch, todo, listed, try, state, installs>>
vars    == <<pc, program, disks, kernel, old, faults>>

Encryption == {"tpm", "passphrase", "none"}
Choices == {c \in [system: Disk, data: Disk \cup {None}, enc: Encryption] : c.data # c.system}
Layout  == {"old", "none", "system", "data"}

\* A key is known by its kind and the installation that made it.
Key == {"passphrase", "tpm", "firstboot", "data"} \X (0..MaxInstalls)
Passphrase == <<"passphrase", 0>>
TPM        == <<"tpm", 0>>

\* What is on a root file system: the data disk in its fstab and crypttab,
\* key files, the enrolment unit, a boot loader.
Root == [data: Disk \cup {None}, files: SUBSET Key, unit: BOOLEAN, boots: BOOLEAN]
NoRoot == [data |-> None, files |-> {}, unit |-> FALSE, boots |-> FALSE]

Installing ==
  {"umount", "lsblk", "release", "wipe", "partition", "check", "luks", "open", "addkey", "mkfs",
   "prepare", "map", "mount", "pacstrap", "configure", "bootloader"}
Server == {"boot", "enroll", "revoke", "forget", "disable", "running"}

Chosen == {ch.system} \cup ({ch.data} \ {None})
Encrypted == ch.enc # "none"
\* Loops visit the system disk first.
Current == IF ch.system \in todo THEN {ch.system} ELSE todo
Wanted(d) == IF d = ch.system THEN "system" ELSE "data"

Fresh == [mapped |-> {}, firstBootKey |-> 0]

Init ==
  /\ pc = "idle"
  /\ ch \in Choices
  /\ todo = {} /\ listed = {} /\ try = 0 /\ installs = 0 /\ faults = 0
  /\ state = Fresh
  /\ table = [d \in Disk |-> "old"]
  /\ seen = table
  /\ old \in Systems /\ active = old
  /\ open = [m \in Mapper |-> None]
  /\ mounts = {}
  /\ keys = [d \in Disk |-> {}]
  /\ root = [d \in Disk |-> NoRoot]
  /\ from = None

----------------------------------------------------------------------------
\* A step ends well, or Install returns its error.

Fault == faults < MaxFaults /\ faults' = faults + 1

Succeeds(next) == pc' = next /\ UNCHANGED faults

Then(next) ==
  \/ Succeeds(next)
  \/ pc' = "failed" /\ Fault

Fails ==
  /\ pc \in Installing
  /\ pc' = "failed"
  /\ Fault
  /\ UNCHANGED <<program, disks, kernel>>

----------------------------------------------------------------------------
\* Starting: from the question, by the r key, or in a setup opened again.

Install(answers) ==
  /\ installs < MaxInstalls
  /\ installs' = installs + 1
  /\ ch' = answers
  /\ state' = Fresh
  /\ pc' = "umount"
  /\ listed' = {}
  /\ UNCHANGED <<todo, try, disks, kernel, faults>>

Starts == pc = "idle" /\ Install(ch)

Retries == pc = "failed" /\ Install(ch)

\* The setup may be closed and opened again, without a reboot.
OpensAgain ==
  /\ pc \in {"failed", "installed"}
  /\ pc' = "idle"
  /\ ch' \in Choices
  /\ Fault
  /\ state' = Fresh
  /\ UNCHANGED <<todo, listed, try, installs, disks, kernel>>

----------------------------------------------------------------------------
\* Partition disks.

\* An error is ignored: nothing mounted is fine.
Unmounts ==
  /\ pc = "umount"
  /\ \/ mounts' = {} /\ UNCHANGED faults
     \/ UNCHANGED mounts /\ Fault
  /\ pc' = "lsblk"
  /\ todo' = Chosen
  /\ UNCHANGED <<ch, listed, try, state, installs, disks, seen, active, open, from>>

OnDisk(d) == {v \in active : \E p \in On[v] : p[1] = d}
MapsOf(d) == {m \in Mapper : open[m] = d}
MountsOf(d) == {m \in mounts : m[1] = d}

Free(d) == OnDisk(d) = {} /\ MapsOf(d) = {} /\ MountsOf(d) = {}

\* The partition under a mapping or a mount of an earlier attempt.
Part(x) == IF x \in {"root", "/"} THEN 2 ELSE 1

\* lsblk shows what is in use, once below each partition it lies on.
Listing(d) ==
  (UNION {{<<v, p[2]>> : p \in {q \in On[v] : q[1] = d}} : v \in OnDisk(d)})
    \cup {<<x, Part(x)>> : x \in MapsOf(d) \cup {m[2] : m \in MountsOf(d)}}

ListsDevices ==
  /\ pc = "lsblk"
  /\ \E d \in Current : listed' = Listing(d)
  /\ pc' = "release"
  /\ UNCHANGED <<ch, todo, try, state, installs, disks, kernel, faults>>

\* Mutant: stacked devices are taken apart from the bottom.
Before_Parents(e, f) ==
  \/ e[2] < f[2]
  \/ e[2] = f[2] /\ (e[1] \in Mapper \/ (e[1] \in Volume /\ f[1] \in Above[e[1]]))

\* Partition after partition, children before parents.
Before(e, f) ==
  \/ e[2] < f[2]
  \/ e[2] = f[2] /\ (f[1] \in Mapper \/ (f[1] \in Volume /\ e[1] \in Above[f[1]]))

Visits(e) ==
  /\ pc = "release"
  /\ \A f \in listed \ {e} : ~Before(f, e)
  /\ listed' = listed \ {e}
  /\ UNCHANGED <<ch, todo, try, state, installs, disks, seen, from>>

\* Mutant: containers are no longer in the list of types.
Stops_NoContainers(x) == x \in Known

\* There is a command for its type; others pass without a word.
Stops(x) == x \in Known \cup Mapper

\* There, and nothing keeps it in use.
Removable(x, d) ==
  IF x \in Volume THEN x \in active /\ Above[x] \cap active = {}
  ELSE open[x] = d /\ \A m \in MountsOf(d) : Part(m[2]) # Part(x)

\* umount -R takes along what is mounted below.
UnmountsOld ==
  /\ \E e \in listed : e[1] \in MountPoint /\ Visits(e) /\ \E d \in Current :
       mounts' = IF e[1] = "/" THEN {} ELSE mounts \ {<<d, e[1]>>}
  /\ Then("release")
  /\ UNCHANGED <<active, open>>

RemovesDevice ==
  /\ \E e \in listed : Stops(e[1]) /\ Visits(e) /\ \E d \in Current :
       /\ Removable(e[1], d)
       /\ active' = active \ {e[1]}
       /\ open' = [m \in Mapper |-> IF m = e[1] THEN None ELSE open[m]]
  /\ Then("release")
  /\ UNCHANGED mounts

\* A device in use, or removed before: it was below two partitions.
RemovalFails ==
  /\ \E e \in listed : Stops(e[1]) /\ Visits(e) /\ \E d \in Current :
       ~Removable(e[1], d)
  /\ pc' = "failed"
  /\ UNCHANGED <<active, open, mounts, faults>>

PassesDevice ==
  /\ \E e \in listed : e[1] \notin MountPoint /\ ~Stops(e[1]) /\ Visits(e)
  /\ UNCHANGED <<pc, active, open, mounts, faults>>

\* At the end of the list the disk counts as released.
ReleaseEnds ==
  /\ pc = "release" /\ listed = {}
  /\ \E d \in Current :
       /\ todo' = IF todo = {d} THEN Chosen ELSE todo \ {d}
       /\ pc' = IF todo = {d} THEN "wipe" ELSE "lsblk"
  /\ UNCHANGED <<ch, listed, try, state, installs, disks, kernel, faults>>

\* The disks that the system on d cannot start without: no fstab says nofail.
Needs(d) == {d} \cup ({root[d].data} \ {None})

Without(d) ==
  [e \in Disk |-> IF e = d THEN NoRoot
                  ELSE [root[e] EXCEPT !.boots = @ /\ d \notin Needs(e)]]

\* wipefs --force asks nobody.
Wipes ==
  /\ pc = "wipe"
  /\ \E d \in Current :
       /\ table' = [table EXCEPT ![d] = "none"]
       /\ keys' = [keys EXCEPT ![d] = {}]
       /\ root' = Without(d)
  /\ Then("partition")
  /\ UNCHANGED <<program, kernel>>

\* Mutant: a disk is released only when it is its turn to be erased.
Partitions_OneByOne ==
  /\ pc = "partition"
  /\ \E d \in Current :
       /\ Free(d)
       /\ table' = [table EXCEPT ![d] = Wanted(d)]
       /\ seen' = [seen EXCEPT ![d] = Wanted(d)]
       /\ Then(IF todo = {d} THEN "check" ELSE "lsblk")
       /\ todo' = todo \ {d}
  /\ UNCHANGED <<ch, listed, try, state, installs, keys, root, active, open, mounts, from>>

\* sfdisk. The kernel may keep the partitions it knew.
Partitions ==
  /\ pc = "partition"
  /\ \E d \in Current :
       /\ Free(d)
       /\ table' = [table EXCEPT ![d] = Wanted(d)]
       /\ \/ seen' = [seen EXCEPT ![d] = Wanted(d)]
             /\ Then(IF todo = {d} THEN "check" ELSE "wipe")
          \/ UNCHANGED seen /\ Fault
             /\ pc' = IF todo = {d} THEN "check" ELSE "wipe"
       /\ todo' = todo \ {d}
  /\ UNCHANGED <<ch, listed, try, state, installs, keys, root, active, open, mounts, from>>

\* "This disk is currently in use": the message asks for a restart.
PartitioningFails ==
  /\ pc = "partition"
  /\ \E d \in Current : ~Free(d)
  /\ pc' = "failed"
  /\ UNCHANGED <<program, disks, kernel, faults>>

\* checkLayout counts partitions and looks at the size of the first one of
\* the system disk, which no old system is assumed to have.
Parts(d) == CASE seen[d] = "old" -> OldParts[d]
              [] seen[d] = "none" -> 0
              [] seen[d] = "system" -> 2
              [] seen[d] = "data" -> 1

\* Mutant: only the system disk is looked at.
LooksRight_SystemOnly(d) == d = ch.system => seen[d] = "system"

LooksRight(d) == IF d = ch.system THEN seen[d] = "system" ELSE Parts(d) = 1

ChecksLayout ==
  /\ pc = "check"
  /\ pc' = IF \A d \in Chosen : LooksRight(d)
           THEN IF Encrypted THEN "luks" ELSE "mkfs"
           ELSE "failed"
  /\ UNCHANGED <<program, disks, kernel, faults>>

----------------------------------------------------------------------------
\* Set up encryption and filesystems.

FormatsContainer ==
  /\ pc = "luks"
  /\ keys' = [keys EXCEPT ![ch.system] = {Passphrase}]
  /\ Then("open")
  /\ UNCHANGED <<program, table, root, kernel>>

\* cryptsetup refuses a name that is in use.
Opens(m, d) ==
  /\ open[m] = None
  /\ open' = [open EXCEPT ![m] = d]
  /\ state' = [state EXCEPT !.mapped =
       IF pc' = "failed" THEN @ ELSE @ \cup {m}]

NameTaken ==
  /\ \/ pc = "open" /\ open["root"] # None
     \/ pc = "map" /\ Encrypted /\ open["data0"] # None
  /\ pc' = "failed"
  /\ UNCHANGED <<program, disks, kernel, faults>>

OpensRoot ==
  /\ pc = "open"
  /\ Then(IF ch.enc = "tpm" THEN "addkey" ELSE "mkfs")
  /\ Opens("root", ch.system)
  /\ UNCHANGED <<ch, todo, listed, try, installs, disks, seen, active, mounts, from>>

addFirstBootKey ==
  /\ pc = "addkey"
  /\ Then("mkfs")
  /\ keys' = [keys EXCEPT ![ch.system] = @ \cup {<<"firstboot", installs>>}]
  /\ state' = [state EXCEPT !.firstBootKey = IF pc' = "failed" THEN @ ELSE installs]
  /\ UNCHANGED <<ch, todo, listed, try, installs, table, root, kernel>>

MakesFilesystems ==
  /\ pc = "mkfs"
  /\ root' = [root EXCEPT ![ch.system] = NoRoot]
  /\ Then(IF ch.data = None THEN "mount" ELSE "prepare")
  /\ UNCHANGED <<program, table, keys, kernel>>

\* Mutant: the key file of a data disk is stored and not enrolled.
PreparesData_NoKey ==
  /\ pc = "prepare"
  /\ keys' = [keys EXCEPT ![ch.data] = IF Encrypted THEN {Passphrase} ELSE {}]
  /\ Then("map")
  /\ UNCHANGED <<program, table, root, kernel>>

PreparesData ==
  /\ pc = "prepare"
  /\ keys' = [keys EXCEPT ![ch.data] =
       IF Encrypted THEN {Passphrase, <<"data", installs>>} ELSE {}]
  /\ Then("map")
  /\ UNCHANGED <<program, table, root, kernel>>

MapsData ==
  /\ pc = "map"
  /\ Then("mount")
  /\ IF Encrypted THEN Opens("data0", ch.data) ELSE UNCHANGED <<open, state>>
  /\ UNCHANGED <<ch, todo, listed, try, installs, disks, seen, active, mounts, from>>

Mounts ==
  /\ pc = "mount"
  /\ mounts' = {<<ch.system, "/">>, <<ch.system, "/boot">>}
       \cup (({ch.data} \ {None}) \X {"/data"})
  /\ try' = 1
  /\ Then("pacstrap")
  /\ UNCHANGED <<ch, todo, listed, state, installs, disks, seen, active, open, from>>

----------------------------------------------------------------------------
\* The other steps of Install.

pacstrap ==
  /\ pc = "pacstrap"
  /\ Then("configure")
  /\ UNCHANGED <<program, disks, kernel>>

PacstrapAgain ==
  /\ pc = "pacstrap" /\ try < Attempts
  /\ Fault
  /\ try' = try + 1
  /\ UNCHANGED <<pc, ch, todo, listed, state, installs, disks, kernel>>

configure ==
  /\ pc = "configure"
  /\ root' = [root EXCEPT ![ch.system] =
       [data  |-> ch.data,
        files |-> {<<"firstboot", n>> : n \in {state.firstBootKey} \ {0}}
                    \cup {<<"data", installs>> : d \in {e \in {ch.data} \ {None} : Encrypted}},
        unit  |-> state.firstBootKey # 0,
        boots |-> FALSE]]
  /\ Then("bootloader")
  /\ UNCHANGED <<program, table, keys, kernel>>

bootloader ==
  /\ pc = "bootloader"
  /\ root' = [root EXCEPT ![ch.system].boots = TRUE]
  /\ Then("installed")
  /\ UNCHANGED <<program, table, keys, kernel>>

----------------------------------------------------------------------------
\* Leaving the USB stick.

NothingRuns ==
  /\ active' = {v \in old : \A p \in On[v] : table[p[1]] = "old"}
  /\ open' = [m \in Mapper |-> None]
  /\ mounts' = {}
  /\ seen' = table

\* The server starts, after the last screen or after somebody closed the
\* setup and restarted the laptop: from any disk that boots.
Reboot ==
  /\ pc \in {"installed", "failed"}
  /\ \E d \in Disk : root[d].boots /\ from' = d
  /\ pc' = "boot"
  /\ NothingRuns
  /\ UNCHANGED <<program, disks, faults>>

\* A power cut, and a start from the stick.
PowerCut ==
  /\ pc \in Installing \cup {"idle", "failed", "installed"}
  /\ Fault
  /\ pc' = "idle"
  /\ ch' \in Choices
  /\ state' = Fresh
  /\ NothingRuns
  /\ UNCHANGED <<todo, listed, try, installs, disks, from>>

----------------------------------------------------------------------------
\* The first boots: the enrolment unit, which runs when its key file exists.

FirstBootKeys(d) == {k \in root[d].files : k[1] = "firstboot"}

Boots ==
  /\ pc = "boot"
  /\ pc' = IF root[from].unit /\ FirstBootKeys(from) # {} THEN "enroll" ELSE "running"
  /\ UNCHANGED <<program, disks, kernel, faults>>

\* systemd-cryptenroll opens the container with the key file.
Enrolls ==
  /\ pc = "enroll"
  /\ FirstBootKeys(from) \cap keys[from] # {}
  /\ keys' = [keys EXCEPT ![from] = @ \cup {TPM}]
  /\ pc' = "revoke"
  /\ UNCHANGED <<program, table, root, kernel, faults>>

\* Any step of the command may fail; so does one with a key file that opens
\* nothing.
EnrolmentFails ==
  /\ \/ pc = "enroll" /\ FirstBootKeys(from) \cap keys[from] = {} /\ UNCHANGED faults
     \/ pc \in {"enroll", "revoke", "forget", "disable"} /\ Fault
  /\ pc' = "running"
  /\ UNCHANGED <<program, disks, kernel>>

\* Mutant: the file is removed before the key slot, in Revokes and Forgets.
Revokes_File ==
  /\ pc = "revoke"
  /\ root' = [root EXCEPT ![from].files = @ \ FirstBootKeys(from)]
  /\ pc' = "forget"
  /\ UNCHANGED <<program, table, keys, kernel, faults>>

Revokes ==
  /\ pc = "revoke"
  /\ keys' = [keys EXCEPT ![from] = @ \ FirstBootKeys(from)]
  /\ pc' = "forget"
  /\ UNCHANGED <<program, table, root, kernel, faults>>

Forgets ==
  /\ pc = "forget"
  /\ root' = [root EXCEPT ![from].files = @ \ FirstBootKeys(from)]
  /\ pc' = "disable"
  /\ UNCHANGED <<program, table, keys, kernel, faults>>

Disables ==
  /\ pc = "disable"
  /\ root' = [root EXCEPT ![from].unit = FALSE]
  /\ pc' = "running"
  /\ UNCHANGED <<program, table, keys, kernel, faults>>

\* Mutant: the unit is for one boot only.
BootsAgain_Once ==
  /\ pc \in Server \ {"boot"}
  /\ pc' = "boot"
  /\ root' = [root EXCEPT ![from].unit = FALSE]
  /\ pc # "running" => Fault
  /\ pc = "running" => UNCHANGED faults
  /\ UNCHANGED <<program, table, keys, kernel>>

\* A restart of the server, or a power cut inside the unit.
BootsAgain ==
  /\ pc \in Server \ {"boot"}
  /\ pc' = "boot"
  /\ IF pc = "running" THEN UNCHANGED faults ELSE Fault
  /\ UNCHANGED <<program, disks, kernel>>

Release ==
  \/ ListsDevices \/ UnmountsOld \/ RemovesDevice \/ RemovalFails \/ PassesDevice
  \/ ReleaseEnds

Erase == Wipes \/ Partitions \/ PartitioningFails

Filesystems ==
  \/ FormatsContainer \/ NameTaken \/ OpensRoot \/ addFirstBootKey
  \/ MakesFilesystems \/ PreparesData \/ MapsData \/ Mounts

Enrolment == Boots \/ Enrolls \/ EnrolmentFails \/ Revokes \/ Forgets \/ Disables

Proceeds ==
  \/ Starts \/ Retries \/ Unmounts \/ Release \/ Erase \/ ChecksLayout
  \/ Filesystems \/ pacstrap \/ PacstrapAgain \/ configure \/ bootloader
  \/ Fails \/ Reboot \/ Enrolment

\* The volumes an old system had are what they are.
Next == (Proceeds \/ OpensAgain \/ PowerCut \/ BootsAgain) /\ UNCHANGED old

Spec == Init /\ [][Next]_vars

(* Commands end, a person starts the installation, presses r when it       *)
(* failed and enter when it is done, and restarts the server now and then. *)
(* Faults are bounded, opening the setup again is nobody's duty.           *)
FairSpec ==
  Spec /\ WF_vars(Proceeds /\ UNCHANGED old) /\ WF_vars(BootsAgain /\ UNCHANGED old)

----------------------------------------------------------------------------
\* Installer's view. What the setup screen, which called Install, is told,
CallAt(p) == CASE p = "idle" -> "none"
               [] p \in {"umount", "lsblk", "release"} -> "releasing"
               [] p \in Installing \ {"umount", "lsblk", "release"} -> "writing"
               [] p = "failed" -> "error"
               [] p = "installed" -> "ok"
               [] p \in Server -> "server"

\* what it was told to do,
Answered == [system |-> ch.system, others |-> {ch.data} \ {None}]

\* what is on the disks, and which of them a server starts from.
DiskContent == [layout: Layout, keys: SUBSET Key, files: SUBSET Key, unit: BOOLEAN]
Written == [d \in Disk |-> [layout |-> table[d], keys |-> keys[d],
                           files |-> root[d].files, unit |-> root[d].unit]]
Starting == [d \in Disk |-> IF root[d].boots THEN Needs(d) ELSE {}]

Service == INSTANCE Installer
  WITH Content <- DiskContent, call <- CallAt(pc), ch <- Answered,
       content <- Written, server <- Starting, booted <- from

TypeOK ==
  /\ pc \in Installing \cup Server \cup {"idle", "failed", "installed"}
  /\ ch \in Choices
  /\ todo \subseteq Disk /\ try \in 0..Attempts
  /\ state \in [mapped: SUBSET Mapper, firstBootKey: 0..MaxInstalls]
  /\ table \in [Disk -> Layout] /\ seen \in [Disk -> Layout]
  /\ listed \subseteq (Volume \cup Mapper \cup MountPoint) \X Nat
  /\ old \subseteq Volume /\ active \subseteq old
  /\ open \in [Mapper -> Disk \cup {None}]
  /\ mounts \subseteq Disk \X MountPoint
  /\ keys \in [Disk -> SUBSET Key]
  /\ root \in [Disk -> Root] /\ from \in Disk \cup {None}
  /\ installs \in 0..MaxInstalls /\ faults \in 0..MaxFaults

(* What runs over an erased disk: of the old system nothing that           *)
(* releaseDisk has a command for, whatever it lies on and is stacked on,   *)
(* and on a disk without a table nothing that a failed attempt left        *)
(* mounted or mapped. wipefs --force would not refuse. Volumes of other    *)
(* types are passed over; only sfdisk notices, with the disk wiped.        *)
ErasedWhenFree ==
  \A d \in Disk :
    /\ table[d] # "old" => OnDisk(d) \cap Known = {}
    /\ table[d] = "none" => MapsOf(d) = {} /\ MountsOf(d) = {}

(* File systems and containers are made in the partitions that were just   *)
(* written: in none of a layout the kernel remembers from before, however  *)
(* often an attempt failed. A data disk is only known to have one          *)
(* partition, which is all that checkLayout asks of it.                    *)
FormatsNewLayout ==
  pc \in {"luks", "open", "addkey", "mkfs", "prepare", "map", "mount"} =>
    /\ seen[ch.system] = "system" /\ table[ch.system] = "system"
    /\ ch.data # None => Parts(ch.data) = 1 /\ table[ch.data] = "data"

(* What the last screen calls installed opens at the next boot: the root   *)
(* container has the passphrase, each key file on it still opens what it   *)
(* is for, and Reboot knows every mapping it has to close, also after      *)
(* attempts that failed in between.                                        *)
InstalledIsComplete ==
  pc = "installed" =>
    LET new == root[ch.system] IN
    /\ new.boots /\ new.data = ch.data
    /\ (keys[ch.system] # {}) = Encrypted
    /\ FirstBootKeys(ch.system) \subseteq keys[ch.system]
    /\ (ch.enc = "tpm") = (FirstBootKeys(ch.system) # {} /\ new.unit)
    /\ (ch.data # None /\ Encrypted) => keys[ch.data] \cap new.files # {}
    /\ \A m \in Mapper : open[m] \in Chosen => m \in state.mapped

(* The one-time key never stays behind: as long as its slot opens the disk *)
(* of a server, the server has the file and the unit that removes it, also *)
(* when power fails inside the unit, and while another disk is installed.  *)
OneTimeKeyIsTracked ==
  \A d \in Disk : root[d].boots =>
    \A k \in keys[d] : k[1] = "firstboot" => k \in root[d].files /\ root[d].unit

(* What Install promises (Installer): nothing is written before the        *)
(* release of everything chosen has ended, then only what was chosen is; a *)
(* server on other disks keeps starting, one that lost a disk does not,    *)
(* and success is a server on all that was chosen.                         *)
ImplementsInstaller == Service!Spec

(* However an attempt failed, r with the same answers installs in the end: *)
(* what it left is released. The exceptions are what stays in use until    *)
(* the laptop is restarted: a mapping of an earlier session on a disk that *)
(* is not chosen now, and a volume of a type that releaseDisk passes over. *)
RetryInstalls ==
  <>(\/ pc \in Server
     \/ \E m \in Mapper : open[m] \notin Chosen \cup {None}
     \/ \E d \in Chosen : OnDisk(d) \ Known # {})

(* A server installed for the TPM gets its key enrolled, though enrolment  *)
(* may fail and power may be cut at any point of it.                       *)
EnrolledInTheEnd ==
  (pc \in Server /\ root[from].unit) ~> (pc \in Server /\ TPM \in keys[from])
=============================================================================
