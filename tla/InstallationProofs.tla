------------------------- MODULE InstallationProofs -------------------------
(***************************************************************************)
(* Machine-checked proofs about Installation, for any disks, any old       *)
(* system on them, any number of attempts, failures and power cuts: what   *)
(* is erased and formatted, what an installation that is called done has,  *)
(* that the one-time key of the first boot never stays behind, and that    *)
(* all of it is what Installer promises.                                   *)
(*                                                                         *)
(* The properties speak of single moments. IInv says what each phase of    *)
(* Install has established and the later ones rely on, and what holds of   *)
(* a root file system that boots while another installation runs.          *)
(***************************************************************************)
EXTENDS Installation, TLAPS

\* The phases of Install, by what is done already.
Formatting  == {"luks", "open", "addkey"}
Filling     == {"prepare", "map", "mount", "pacstrap", "configure", "bootloader"}
Partitioned == {"check", "mkfs"} \cup Formatting \cup Filling

\* The disks that a loop has left behind.
Past == Chosen \ todo

\* The key that opens the root disk once, and the key of a data disk.
OneTimeKey == IF ch.enc = "tpm" THEN {<<"firstboot", installs>>} ELSE {}
DataKey == IF ch.data # None /\ Encrypted THEN {<<"data", installs>>} ELSE {}
SystemKeys == (IF Encrypted THEN {Passphrase} ELSE {}) \cup OneTimeKey

\* What is in use of a disk and what releaseDisk has a command for.
InUse(d) == (OnDisk(d) \cap Known) \cup MapsOf(d) \cup {m[2] : m \in MountsOf(d)}

\* The first loop releases disk after disk, the second erases them. What of
\* the disk being released is still in use is on the rest of its list.
Releasing ==
  /\ pc \in {"lsblk", "release", "wipe", "partition"} => todo \subseteq Chosen
  /\ pc \in {"lsblk", "release"} => \A d \in Past : InUse(d) = {}
  /\ pc = "release" => \A d \in Current : InUse(d) \subseteq {e[1] : e \in listed}
  /\ pc \in {"wipe", "partition"} => \A d \in Chosen : InUse(d) = {}

\* No system that starts needs the disk.
Unused(d) == \A e \in Disk : root[e].boots => d \notin Needs(e)

Wiped(d) == keys[d] = {} /\ Unused(d)

Erased(d) == table[d] = Wanted(d) /\ Wiped(d)

NewLayout ==
  /\ pc \in {"wipe", "partition"} => \A d \in Past : Erased(d)
  /\ pc = "partition" => \A d \in Current : Wiped(d)
  /\ pc \in Partitioned => \A d \in Chosen : table[d] = Wanted(d)
  /\ pc \in Partitioned \ {"check"} => \A d \in Chosen : LooksRight(d)

\* What this installation mapped is all that is mapped of its disks.
Mappings ==
  pc \in Partitioned \cup {"wipe", "partition", "installed"} =>
    \A m \in Mapper : open[m] \in Chosen => m \in state.mapped

\* The key slots of the system disk, step by step.
Slots ==
  /\ pc \in Installing \cup {"installed"} => installs # 0
  /\ pc \in Formatting => Encrypted
  /\ pc = "addkey" => ch.enc = "tpm"
  /\ pc \in {"umount", "lsblk", "release", "wipe", "partition", "check"} \cup Formatting =>
       state.firstBootKey = 0
  /\ pc = "check" => \A d \in Chosen : keys[d] = {}
  /\ pc \in {"open", "addkey"} => keys[ch.system] = {Passphrase}
  /\ pc \in {"mkfs", "installed"} \cup Filling =>
       /\ keys[ch.system] = SystemKeys
       /\ state.firstBootKey = IF ch.enc = "tpm" THEN installs ELSE 0

\* The new root starts nothing, and has no key files, before its time.
NewRoot ==
  /\ pc \in Partitioned => \A d \in Chosen : Unused(d)
  /\ pc \in {"bootloader", "installed"} =>
       /\ root[ch.system].data = ch.data
       /\ root[ch.system].files = OneTimeKey \cup DataKey
       /\ root[ch.system].unit = (ch.enc = "tpm")
  /\ pc = "installed" => root[ch.system].boots
  /\ pc \in ({"installed"} \cup Filling) \ {"prepare"} /\ ch.data # None =>
       DataKey \subseteq keys[ch.data]

\* Of roots that boot, the running installation's or those on other disks.
Tracked(d) ==
  \A k \in keys[d] : k[1] = "firstboot" => k \in root[d].files /\ root[d].unit

NoOneTimeSlot == \A k \in keys[from] : k[1] # "firstboot"

Bootable ==
  /\ \A d \in Disk : root[d].boots => Tracked(d)
  /\ pc \in Server => from \in Disk /\ root[from].boots
  /\ pc \in {"forget", "disable"} => NoOneTimeSlot

Phases == Releasing /\ NewLayout /\ Mappings /\ Slots /\ NewRoot

IInv == TypeOK /\ Phases /\ ErasedWhenFree /\ Bootable
----------------------------------------------------------------------------
LEMMA InitInv == Init => IInv
<1> SUFFICES ASSUME Init PROVE IInv
  OBVIOUS
<1>1. TypeOK
  <2>1. root \in [Disk -> Root] /\ from \in Disk \cup {None}
    BY DEF Init, Root, NoRoot
  <2>2. state \in [mapped: SUBSET Mapper, firstBootKey: 0..MaxInstalls]
    BY InstallationConstants DEF Init, Fresh
  <2>3. 0 \in 0..Attempts /\ 0 \in 0..MaxInstalls /\ 0 \in 0..MaxFaults
    BY InstallationConstants
  <2>4. keys \in [Disk -> SUBSET Key] /\ open \in [Mapper -> Disk \cup {None}]
    BY DEF Init
  <2>5. table \in [Disk -> Layout] /\ seen \in [Disk -> Layout]
    BY DEF Init, Layout
  <2>6. old \subseteq Volume /\ active = old
    BY InstallationConstants DEF Init
  <2>7. QED  BY <2>1, <2>2, <2>3, <2>4, <2>5, <2>6 DEF Init, TypeOK
<1>2. Releasing /\ NewLayout /\ Mappings /\ Slots /\ NewRoot
  BY DEF Init, Releasing, NewLayout, Mappings, Slots, NewRoot, Partitioned,
         Formatting, Filling, Installing
<1>3. Bootable
  BY DEF Init, Bootable, NoRoot, Server
<1>4. ErasedWhenFree
  BY DEF Init, ErasedWhenFree
<1>5. QED  BY <1>1, <1>2, <1>3, <1>4 DEF IInv, Phases

----------------------------------------------------------------------------
\* Types.

LEMMA Answers ==
  ASSUME TypeOK
  PROVE  /\ ch.system \in Disk
         /\ ch.data \in Disk \cup {None}
         /\ ch.data # ch.system
         /\ ch.enc \in {"tpm", "passphrase", "none"}
BY DEF TypeOK, Choices, Encryption

LEMMA KeyTypes ==
  ASSUME TypeOK
  PROVE  {Passphrase, TPM, <<"firstboot", installs>>, <<"data", installs>>} \subseteq Key
<1>1. 0 \in 0..MaxInstalls /\ installs \in 0..MaxInstalls
  BY InstallationConstants DEF TypeOK
<1>2. QED  BY <1>1 DEF Key, Passphrase, TPM

LEMMA InstallType ==
  ASSUME TypeOK, UNCHANGED old, NEW answers \in Choices, Install(answers)
  PROVE  TypeOK'
<1>1. installs' \in 0..MaxInstalls
  BY InstallationConstants DEF Install, TypeOK
<1>2. state' \in [mapped: SUBSET Mapper, firstBootKey: 0..MaxInstalls]
  BY InstallationConstants DEF Install, Fresh
<1>3. QED  BY <1>1, <1>2 DEF Install, TypeOK, disks, kernel, Installing

LEMMA FaultType ==
  ASSUME TypeOK, Fault \/ UNCHANGED faults
  PROVE  faults' \in 0..MaxFaults
BY InstallationConstants DEF TypeOK, Fault

\* What is on the list, volume by volume and mapping by mapping.
LEMMA Listed ==
  ASSUME NEW d
  PROVE  /\ \A e \in Listing(d) :
              \/ \E v \in OnDisk(d) : \E p \in On[v] : e = <<v, p[2]>>
              \/ \E x \in MapsOf(d) \cup {m[2] : m \in MountsOf(d)} : e = <<x, Part(x)>>
         /\ \A v \in OnDisk(d) : \A p \in On[v] : p[1] = d => <<v, p[2]>> \in Listing(d)
         /\ \A x \in MapsOf(d) \cup {m[2] : m \in MountsOf(d)} : <<x, Part(x)>> \in Listing(d)
<1> DEFINE Vols == {{<<v, p[2]>> : p \in {q \in On[v] : q[1] = d}} : v \in OnDisk(d)}
           All  == UNION Vols
           Uses == MapsOf(d) \cup {m[2] : m \in MountsOf(d)}
           Maps == {<<x, Part(x)>> : x \in Uses}
<1>1. Listing(d) = All \cup Maps
  BY DEF Listing
<1>2. \A e \in Maps : \E x \in Uses : e = <<x, Part(x)>>
  OBVIOUS
<1>3. \A x \in Uses : <<x, Part(x)>> \in Maps
  OBVIOUS
<1>4. ASSUME NEW e \in All
      PROVE  \E v \in OnDisk(d) : \E p \in On[v] : e = <<v, p[2]>>
  <2>1. PICK v \in OnDisk(d) : e \in {<<v, p[2]>> : p \in {q \in On[v] : q[1] = d}}
    OBVIOUS
  <2>2. QED  BY <2>1
<1>5. ASSUME NEW v \in OnDisk(d), NEW p \in On[v], p[1] = d
      PROVE  <<v, p[2]>> \in All
  <2>1. <<v, p[2]>> \in {<<v, r[2]>> : r \in {q \in On[v] : q[1] = d}}
    BY <1>5
  <2>2. {<<v, r[2]>> : r \in {q \in On[v] : q[1] = d}} \in Vols
    OBVIOUS
  <2>3. QED  BY <2>1, <2>2
<1> HIDE DEF Vols, All, Maps, Uses
<1>6. \A e \in Listing(d) : \/ \E v \in OnDisk(d) : \E p \in On[v] : e = <<v, p[2]>>
                            \/ \E x \in Uses : e = <<x, Part(x)>>
  <2>1. \A e \in Listing(d) : e \in All \/ e \in Maps
    BY <1>1
  <2>2. QED  BY <1>2, <1>4, <2>1
<1>7. \A v \in OnDisk(d) : \A p \in On[v] : p[1] = d => <<v, p[2]>> \in Listing(d)
  <2>1. \A e \in All : e \in Listing(d)
    BY <1>1
  <2>2. QED  BY <1>5, <2>1
<1>8. \A x \in Uses : <<x, Part(x)>> \in Listing(d)
  BY <1>1, <1>3
<1>9. QED  BY <1>6, <1>7, <1>8 DEF Uses

LEMMA ListingType ==
  ASSUME TypeOK, NEW d
  PROVE  Listing(d) \subseteq (Volume \cup Mapper \cup MountPoint) \X Nat
<1>1. OnDisk(d) \subseteq Volume /\ \A v \in Volume : \A p \in On[v] : p[2] \in Nat
  BY InstallationConstants DEF OnDisk, TypeOK
<1>2. \A v \in OnDisk(d) : \A p \in On[v] :
        <<v, p[2]>> \in (Volume \cup Mapper \cup MountPoint) \X Nat
  BY <1>1
<1>3. MapsOf(d) \cup {m[2] : m \in MountsOf(d)} \subseteq Mapper \cup MountPoint
  BY DEF MapsOf, MountsOf, TypeOK
<1>4. \A x : Part(x) \in Nat
  BY DEF Part
<1>5. \A x \in MapsOf(d) \cup {m[2] : m \in MountsOf(d)} :
        <<x, Part(x)>> \in (Volume \cup Mapper \cup MountPoint) \X Nat
  BY <1>3, <1>4
<1>6. QED  BY <1>2, <1>5, Listed

LEMMA ReleaseType == ASSUME TypeOK, UNCHANGED old, Release PROVE TypeOK'
<1>1. CASE ListsDevices
  BY <1>1, ListingType DEF ListsDevices, TypeOK, disks, kernel, Installing
<1>2. ASSUME NEW e \in listed, Visits(e), pc' \in {"release", "failed"},
             active' \subseteq active, open' \in [Mapper -> Disk \cup {None}],
             mounts' \subseteq mounts, Fault \/ UNCHANGED faults
      PROVE  TypeOK'
  BY <1>2, FaultType DEF Visits, TypeOK, disks, Installing
<1>3. CASE UnmountsOld
  <2>1. PICK e \in listed : Visits(e)
    BY <1>3 DEF UnmountsOld
  <2>2. mounts' \subseteq mounts /\ UNCHANGED <<active, open>>
    BY <1>3 DEF UnmountsOld
  <2>3. pc' \in {"release", "failed"} /\ (Fault \/ UNCHANGED faults)
    BY <1>3 DEF UnmountsOld, Then, Succeeds
  <2>4. QED  BY <1>2, <2>1, <2>2, <2>3 DEF TypeOK
<1>4. CASE RemovesDevice
  <2>1. PICK e \in listed : Visits(e) /\ active' = active \ {e[1]}
               /\ open' = [m \in Mapper |-> IF m = e[1] THEN None ELSE open[m]]
    BY <1>4 DEF RemovesDevice
  <2>2. open' \in [Mapper -> Disk \cup {None}] /\ UNCHANGED mounts
    BY <1>4, <2>1 DEF RemovesDevice, TypeOK
  <2>3. pc' \in {"release", "failed"} /\ (Fault \/ UNCHANGED faults)
    BY <1>4 DEF RemovesDevice, Then, Succeeds
  <2>4. QED  BY <1>2, <2>1, <2>2, <2>3
<1>5. CASE RemovalFails \/ PassesDevice
  <2>1. PICK e \in listed : Visits(e)
    BY <1>5 DEF RemovalFails, PassesDevice
  <2>2. pc' \in {"release", "failed"} /\ UNCHANGED <<active, open, mounts, faults>>
    BY <1>5, <2>1 DEF RemovalFails, PassesDevice, Visits
  <2>3. QED  BY <1>2, <2>1, <2>2 DEF TypeOK
<1>6. CASE ReleaseEnds
  <2>1. Chosen \subseteq Disk
    BY Answers DEF Chosen
  <2>2. todo' \subseteq Disk
    BY <1>6, <2>1 DEF ReleaseEnds, TypeOK
  <2>3. pc' \in Installing
    BY <1>6 DEF ReleaseEnds, Installing
  <2>4. QED  BY <1>6, <2>2, <2>3 DEF ReleaseEnds, TypeOK, disks, kernel
<1>7. QED  BY <1>1, <1>3, <1>4, <1>5, <1>6 DEF Release

(* A change of one field of one disk's root leaves roots.                  *)
LEMMA RootFieldType ==
  ASSUME root \in [Disk -> Root], NEW d,
         NEW files \in SUBSET Key, NEW unit \in BOOLEAN, NEW boots \in BOOLEAN
  PROVE  /\ [root EXCEPT ![d].files = files] \in [Disk -> Root]
         /\ [root EXCEPT ![d].unit = unit] \in [Disk -> Root]
         /\ [root EXCEPT ![d].boots = boots] \in [Disk -> Root]
<1>1. \A e \in Disk :
        /\ [root[e] EXCEPT !.files = files] \in Root
        /\ [root[e] EXCEPT !.unit = unit] \in Root
        /\ [root[e] EXCEPT !.boots = boots] \in Root
  BY DEF Root
<1>2. QED  BY <1>1

LEMMA WipesType == ASSUME TypeOK, UNCHANGED old, Wipes PROVE TypeOK'
<1>1. PICK d \in Current :
        /\ table' = [table EXCEPT ![d] = "none"]
        /\ keys' = [keys EXCEPT ![d] = {}]
        /\ root' = Without(d)
  BY DEF Wipes
<1>2. table' \in [Disk -> Layout] /\ keys' \in [Disk -> SUBSET Key]
  BY <1>1 DEF TypeOK, Layout
<1>3. root' \in [Disk -> Root]
  <2>1. NoRoot \in Root
    BY DEF Root, NoRoot
  <2>2. \A e \in Disk : [root[e] EXCEPT !.boots = @ /\ d \notin Needs(e)] \in Root
    <3>1. root \in [Disk -> Root]
      BY DEF TypeOK
    <3>2. \A r \in Root : [r EXCEPT !.boots = FALSE] \in Root /\ r.boots \in BOOLEAN
      BY DEF Root
    <3>3. \A e \in Disk :
            [root[e] EXCEPT !.boots = @ /\ d \notin Needs(e)]
              = IF d \notin Needs(e) THEN root[e] ELSE [root[e] EXCEPT !.boots = FALSE]
      BY <3>1 DEF Root
    <3>4. \A e \in Disk : root[e] \in Root /\ [root[e] EXCEPT !.boots = FALSE] \in Root
      BY <3>1, <3>2
    <3>5. QED  BY <3>3, <3>4
  <2>3. QED  BY <1>1, <2>1, <2>2 DEF Without
<1>4. pc' \in Installing \cup {"failed"} /\ (Fault \/ UNCHANGED faults)
  BY DEF Wipes, Then, Succeeds, Installing
<1>5. UNCHANGED <<program, kernel>>
  BY DEF Wipes
<1>6. QED  BY <1>2, <1>3, <1>4, <1>5, FaultType DEF TypeOK, program, kernel

LEMMA PartitionType == ASSUME TypeOK, UNCHANGED old, Partitions PROVE TypeOK'
<1>1. PICK d \in Current :
        /\ table' = [table EXCEPT ![d] = Wanted(d)]
        /\ seen' = [seen EXCEPT ![d] = Wanted(d)] \/ UNCHANGED seen
        /\ Fault \/ UNCHANGED faults
        /\ pc' \in {"check", "wipe", "failed"}
        /\ todo' = todo \ {d}
  BY DEF Partitions, Then, Succeeds, Fault
<1>2. Wanted(d) \in Layout
  BY DEF Wanted, Layout
<1>3. table' \in [Disk -> Layout] /\ seen' \in [Disk -> Layout]
  BY <1>1, <1>2 DEF TypeOK
<1>4. pc' \in Installing \cup {"failed"}
  BY <1>1 DEF Installing
<1>5. UNCHANGED <<ch, listed, try, state, installs, keys, root, active, open, mounts, from>>
  BY DEF Partitions
<1>6. QED  BY <1>1, <1>3, <1>4, <1>5, FaultType DEF TypeOK

LEMMA EraseType == ASSUME TypeOK, UNCHANGED old, Erase PROVE TypeOK'
<1>1. CASE PartitioningFails
  BY <1>1 DEF PartitioningFails, TypeOK, program, disks, kernel
<1>2. QED  BY <1>1, WipesType, PartitionType DEF Erase

LEMMA FilesystemsType == ASSUME TypeOK, UNCHANGED old, Filesystems PROVE TypeOK'
<1> USE Answers, KeyTypes
<1>1. CASE FormatsContainer
  <2>1. keys' \in [Disk -> SUBSET Key]
    BY <1>1 DEF FormatsContainer, TypeOK
  <2>2. QED
    BY <1>1, <2>1, FaultType
       DEF FormatsContainer, TypeOK, Then, Succeeds, Fault, program, kernel, Installing
<1>2. CASE NameTaken
  BY <1>2 DEF NameTaken, TypeOK, program, disks, kernel
<1>3. ASSUME NEW m \in Mapper, NEW d \in Disk, Opens(m, d)
      PROVE  /\ open' \in [Mapper -> Disk \cup {None}]
             /\ state' \in [mapped: SUBSET Mapper, firstBootKey: 0..MaxInstalls]
  BY <1>3 DEF Opens, TypeOK
<1>4. CASE OpensRoot
  <2>1. "root" \in Mapper
    BY DEF Mapper
  <2>2. Opens("root", ch.system)
    BY <1>4 DEF OpensRoot
  <2>3. pc' \in Installing \cup {"failed"} /\ (Fault \/ UNCHANGED faults)
    BY <1>4 DEF OpensRoot, Then, Succeeds, Installing
  <2>4. QED
    BY <1>3, <1>4, <2>1, <2>2, <2>3, FaultType DEF OpensRoot, TypeOK, disks
<1>5. CASE addFirstBootKey
  <2>1. keys' \in [Disk -> SUBSET Key]
    BY <1>5 DEF addFirstBootKey, TypeOK
  <2>2. state' \in [mapped: SUBSET Mapper, firstBootKey: 0..MaxInstalls]
    BY <1>5 DEF addFirstBootKey, TypeOK
  <2>3. QED
    BY <1>5, <2>1, <2>2, FaultType
       DEF addFirstBootKey, TypeOK, Then, Succeeds, Fault, kernel, Installing
<1>6. CASE MakesFilesystems
  <2>1. root' \in [Disk -> Root]
    BY <1>6 DEF MakesFilesystems, NoRoot, Root, TypeOK
  <2>2. QED
    BY <1>6, <2>1, FaultType
       DEF MakesFilesystems, TypeOK, Then, Succeeds, Fault, program, kernel, Installing
<1>7. CASE PreparesData
  <2>1. keys' \in [Disk -> SUBSET Key]
    BY <1>7 DEF PreparesData, TypeOK
  <2>2. QED
    BY <1>7, <2>1, FaultType
       DEF PreparesData, TypeOK, Then, Succeeds, Fault, program, kernel, Installing
<1>8. CASE MapsData
  <2>1. pc' \in Installing \cup {"failed"} /\ (Fault \/ UNCHANGED faults)
    BY <1>8 DEF MapsData, Then, Succeeds, Installing
  <2>2. CASE Encrypted /\ ch.data \in Disk
    <3>1. "data0" \in Mapper
      BY DEF Mapper
    <3>2. Opens("data0", ch.data)
      BY <1>8, <2>2 DEF MapsData
    <3>3. QED
      BY <1>3, <1>8, <2>1, <2>2, <3>1, <3>2, FaultType DEF MapsData, TypeOK, disks
  <2>3. CASE ~Encrypted
    BY <1>8, <2>1, <2>3, FaultType DEF MapsData, TypeOK, disks
  <2>4. CASE ch.data = None
    <3>1. open' \in [Mapper -> Disk \cup {None}]
      BY <1>8, <2>4 DEF MapsData, Opens, TypeOK
    <3>2. state' \in [mapped: SUBSET Mapper, firstBootKey: 0..MaxInstalls]
      BY <1>8, <2>4 DEF MapsData, Opens, TypeOK, Mapper
    <3>3. QED
      BY <1>8, <2>1, <3>1, <3>2, FaultType DEF MapsData, TypeOK, disks
  <2>5. QED  BY <2>2, <2>3, <2>4
<1>9. CASE Mounts
  <2>1. mounts' \subseteq Disk \X MountPoint
    BY <1>9 DEF Mounts, MountPoint
  <2>2. try' \in 0..Attempts
    BY <1>9, InstallationConstants DEF Mounts
  <2>3. QED
    BY <1>9, <2>1, <2>2, FaultType
       DEF Mounts, TypeOK, Then, Succeeds, Fault, disks, Installing
<1>10. QED
  BY <1>1, <1>2, <1>4, <1>5, <1>6, <1>7, <1>8, <1>9 DEF Filesystems

LEMMA EnrolmentType == ASSUME TypeOK, UNCHANGED old, from \in Disk, Enrolment PROVE TypeOK'
<1> USE KeyTypes
<1>1. CASE Boots
  BY <1>1 DEF Boots, TypeOK, program, disks, kernel, Server
<1>2. CASE Enrolls
  <2>1. keys' \in [Disk -> SUBSET Key]
    BY <1>2 DEF Enrolls, TypeOK
  <2>2. QED  BY <1>2, <2>1 DEF Enrolls, TypeOK, program, kernel, Server
<1>3. CASE EnrolmentFails
  BY <1>3, FaultType DEF EnrolmentFails, TypeOK, program, disks, kernel, Server
<1>4. CASE Revokes
  <2>1. keys' \in [Disk -> SUBSET Key]
    BY <1>4 DEF Revokes, TypeOK
  <2>2. QED  BY <1>4, <2>1 DEF Revokes, TypeOK, program, kernel, Server
<1>5. CASE Forgets
  <2>1. root' \in [Disk -> Root]
    <3>1. root \in [Disk -> Root] /\ from \in Disk \cup {None}
      BY DEF TypeOK
    <3>2. root' = [root EXCEPT ![from].files = @ \ FirstBootKeys(from)]
      BY <1>5 DEF Forgets
    <3>3. \A e \in Disk : root[e].files \subseteq Key
      BY <3>1 DEF Root
    <3>4. CASE from \in Disk
      <4>1. root' = [root EXCEPT ![from].files = root[from].files \ FirstBootKeys(from)]
        BY <3>2
      <4>2. root[from].files \ FirstBootKeys(from) \in SUBSET Key
        BY <3>3, <3>4
      <4>3. QED  BY <3>1, <4>1, <4>2, RootFieldType
    <3>5. CASE from \notin Disk
      BY <3>1, <3>2, <3>5
    <3>6. QED  BY <3>4, <3>5
  <2>2. QED  BY <1>5, <2>1 DEF Forgets, TypeOK, program, kernel, Server
<1>6. CASE Disables
  <2>1. root' \in [Disk -> Root]
    <3>1. root \in [Disk -> Root] /\ root' = [root EXCEPT ![from].unit = FALSE]
      BY <1>6 DEF Disables, TypeOK
    <3>2. QED  BY <3>1, RootFieldType
  <2>2. QED  BY <1>6, <2>1 DEF Disables, TypeOK, program, kernel, Server
<1>7. QED
  BY <1>1, <1>2, <1>3, <1>4, <1>5, <1>6 DEF Enrolment

LEMMA RestartType ==
  ASSUME TypeOK, NothingRuns
  PROVE  /\ active' \subseteq old /\ seen' \in [Disk -> Layout]
         /\ open' \in [Mapper -> Disk \cup {None}]
         /\ mounts' \subseteq Disk \X MountPoint
BY DEF NothingRuns, TypeOK

LEMMA TypeInv == ASSUME TypeOK, Bootable, Next PROVE TypeOK'
<1> UNCHANGED old
  BY DEF Next
<1>1. CASE Starts \/ Retries
  <2>1. ch \in Choices /\ Install(ch)
    BY <1>1 DEF Starts, Retries, TypeOK
  <2>2. QED  BY <2>1, InstallType
<1>2. CASE OpensAgain
  <2>1. Fresh \in [mapped: SUBSET Mapper, firstBootKey: 0..MaxInstalls]
    BY InstallationConstants DEF Fresh
  <2>2. QED  BY <1>2, <2>1, FaultType DEF OpensAgain, TypeOK, disks, kernel
<1>3. CASE Unmounts
  <2>1. todo' \subseteq Disk
    BY <1>3, Answers DEF Unmounts, Chosen
  <2>2. mounts' \subseteq mounts /\ (Fault \/ UNCHANGED faults)
    BY <1>3 DEF Unmounts
  <2>3. QED  BY <1>3, <2>1, <2>2, FaultType DEF Unmounts, TypeOK, disks, Installing
<1>4. CASE ChecksLayout
  BY <1>4 DEF ChecksLayout, TypeOK, program, disks, kernel, Installing
<1>5. CASE pacstrap \/ Fails
  BY <1>5, FaultType
     DEF pacstrap, Fails, TypeOK, Then, Succeeds, Fault, program, disks, kernel, Installing
<1>6. CASE PacstrapAgain
  <2>1. try' \in 0..Attempts
    BY <1>6, InstallationConstants DEF PacstrapAgain, TypeOK
  <2>2. QED  BY <1>6, <2>1, FaultType DEF PacstrapAgain, TypeOK, disks, kernel
<1>7. CASE configure
  <2>1. state.firstBootKey \in 0..MaxInstalls /\ installs \in 0..MaxInstalls
    BY DEF TypeOK
  <2>2. <<"firstboot", state.firstBootKey>> \in Key /\ <<"data", installs>> \in Key
    BY <2>1 DEF Key
  <2>3. {<<"firstboot", n>> : n \in {state.firstBootKey} \ {0}} \subseteq Key
    BY <2>2
  <2>4. {<<"data", installs>> : d \in {e \in {ch.data} \ {None} : Encrypted}} \subseteq Key
    BY <2>2
  <2> DEFINE files == {<<"firstboot", n>> : n \in {state.firstBootKey} \ {0}}
                        \cup {<<"data", installs>> : d \in {e \in {ch.data} \ {None} : Encrypted}}
             new == [data |-> ch.data, files |-> files, unit |-> state.firstBootKey # 0,
                     boots |-> FALSE]
  <2>5. files \subseteq Key
    BY <2>3, <2>4
  <2>a. root' = [root EXCEPT ![ch.system] = new]
    BY <1>7 DEF configure
  <2> HIDE DEF files
  <2>b. new \in Root
    BY <2>5, Answers DEF Root
  <2> HIDE DEF new
  <2>6. root' \in [Disk -> Root]
    BY <2>a, <2>b DEF TypeOK
  <2>7. QED
    BY <1>7, <2>6, FaultType
       DEF configure, TypeOK, Then, Succeeds, Fault, program, kernel, Installing
<1>8. CASE bootloader
  <2>1. root' \in [Disk -> Root]
    <3>1. /\ root \in [Disk -> Root]
          /\ root' = [root EXCEPT ![ch.system].boots = TRUE]
      BY <1>8 DEF bootloader, TypeOK
    <3>2. QED  BY <3>1, RootFieldType
  <2>2. QED
    BY <1>8, <2>1, FaultType
       DEF bootloader, TypeOK, Then, Succeeds, Fault, program, kernel, Installing
<1>9. CASE Reboot
  BY <1>9, RestartType DEF Reboot, TypeOK, program, disks, Server
<1>10. CASE PowerCut
  <2>1. Fresh \in [mapped: SUBSET Mapper, firstBootKey: 0..MaxInstalls]
    BY InstallationConstants DEF Fresh
  <2>2. QED  BY <1>10, <2>1, RestartType, FaultType DEF PowerCut, TypeOK, disks
<1>11. CASE Enrolment
  <2>1. pc \in Server
    BY <1>11 DEF Enrolment, Boots, Enrolls, EnrolmentFails, Revokes, Forgets, Disables, Server
  <2>2. from \in Disk
    BY <2>1 DEF Bootable
  <2>3. QED  BY <1>11, <2>2, EnrolmentType
<1>12. CASE BootsAgain
  BY <1>12, FaultType DEF BootsAgain, TypeOK, program, disks, kernel, Server
<1>13. QED
  BY <1>1, <1>2, <1>3, <1>4, <1>5, <1>6, <1>7, <1>8, <1>9, <1>10, <1>11, <1>12,
     ReleaseType, EraseType, FilesystemsType
     DEF Next, Proceeds

----------------------------------------------------------------------------
\* Steps that end an installation, and what does not touch a root that boots.

LEMMA Stopped ==
  ASSUME pc' \in Server \cup {"idle", "failed"}
  PROVE  Phases'
BY DEF Phases, Releasing, NewLayout, Mappings, Slots, NewRoot, Partitioned,
       Formatting, Filling, Installing, Server

LEMMA BootableKept ==
  ASSUME Bootable, pc' \notin Server, UNCHANGED root,
         \A d \in Disk : root[d].boots => keys'[d] = keys[d]
  PROVE  Bootable'
BY DEF Bootable, Tracked, Server

LEMMA SameAnswers ==
  ASSUME UNCHANGED <<ch, installs>>
  PROVE  /\ Chosen' = Chosen /\ Encrypted' = Encrypted
         /\ OneTimeKey' = OneTimeKey /\ DataKey' = DataKey /\ SystemKeys' = SystemKeys
         /\ \A d \in Disk : Wanted(d)' = Wanted(d)
BY DEF Chosen, Encrypted, OneTimeKey, DataKey, SystemKeys, Wanted

LEMMA ChosenDisks ==
  ASSUME TypeOK
  PROVE  /\ Chosen \subseteq Disk /\ ch.system \in Chosen
         /\ ch.data \in Disk => ch.data \in Chosen
         /\ None \notin Chosen
BY Answers, InstallationConstants DEF Chosen

\* Nothing new is started, mapped or mounted on a disk that is erased.
LEMMA ErasedKept ==
  ASSUME IInv, UNCHANGED table, active' \subseteq active,
         \A m \in Mapper : open'[m] = open[m] \/ open'[m] = None
                           \/ table[open'[m]] # "none",
         \A x \in mounts' : x \in mounts \/ table[x[1]] # "none"
  PROVE  ErasedWhenFree'
<1> SUFFICES ASSUME NEW d \in Disk
             PROVE  /\ table'[d] # "old" => OnDisk(d)' \cap Known = {}
                    /\ table'[d] = "none" => MapsOf(d)' = {} /\ MountsOf(d)' = {}
  BY DEF ErasedWhenFree
<1>1. d # None
  BY InstallationConstants
<1>2. /\ table[d] # "old" => OnDisk(d) \cap Known = {}
      /\ table[d] = "none" => MapsOf(d) = {} /\ MountsOf(d) = {}
  BY DEF IInv, ErasedWhenFree
<1>3. OnDisk(d)' \subseteq OnDisk(d)
  BY DEF OnDisk
<1>4. table[d] = "none" => MapsOf(d)' = {}
  BY <1>1, <1>2 DEF MapsOf
<1>5. table[d] = "none" => MountsOf(d)' = {}
  BY <1>2 DEF MountsOf
<1>6. QED  BY <1>2, <1>3, <1>4, <1>5

\* After a restart the old system runs on disks with its table only.
LEMMA ErasedAfterRestart ==
  ASSUME IInv, NothingRuns, UNCHANGED table
  PROVE  ErasedWhenFree'
<1> SUFFICES ASSUME NEW d \in Disk
             PROVE  /\ table'[d] # "old" => OnDisk(d)' \cap Known = {}
                    /\ MapsOf(d)' = {} /\ MountsOf(d)' = {}
  BY DEF ErasedWhenFree
<1>1. MapsOf(d)' = {} /\ MountsOf(d)' = {}
  BY InstallationConstants DEF NothingRuns, MapsOf, MountsOf
<1>2. ASSUME NEW v \in OnDisk(d)' PROVE table[d] = "old"
  <2>1. v \in active' /\ \E p \in On[v] : p[1] = d
    BY DEF OnDisk
  <2>2. \A p \in On[v] : table[p[1]] = "old"
    BY <2>1 DEF NothingRuns
  <2>3. QED  BY <2>1, <2>2
<1>3. QED  BY <1>1, <1>2

\* What is written to the chosen disks concerns no system that starts.
LEMMA OthersKept ==
  ASSUME IInv, pc \in Partitioned, pc' \notin Server, UNCHANGED <<ch, root>>,
         \A d \in Disk \ Chosen : keys'[d] = keys[d]
  PROVE  Bootable' /\ \A d \in Chosen' : Unused(d)'
<1>1. \A d \in Chosen : Unused(d)
  BY DEF IInv, Phases, NewRoot
<1>2. \A d \in Disk : root[d].boots => d \notin Chosen
  BY <1>1 DEF Unused, Needs
<1>3. Bootable'
  BY <1>2, BootableKept DEF IInv
<1>4. \A d \in Chosen' : Unused(d)'
  BY <1>1 DEF Chosen, Unused, Needs
<1>5. QED  BY <1>3, <1>4

LEMMA RootRewritten ==
  ASSUME IInv, pc \in Partitioned, pc' \notin Server, UNCHANGED <<ch, keys>>,
         NEW r, ~r.boots, root' = [root EXCEPT ![ch.system] = r]
  PROVE  Bootable' /\ \A d \in Chosen' : Unused(d)'
<1>1. \A d \in Disk : root'[d].boots => root'[d] = root[d]
  BY DEF IInv, TypeOK
<1>2. Bootable'
  BY <1>1 DEF IInv, Bootable, Tracked, Server
<1>3. \A d \in Chosen : Unused(d)
  BY DEF IInv, Phases, NewRoot
<1>4. \A d \in Chosen' : Unused(d)'
  BY <1>1, <1>3 DEF Chosen, Unused, Needs
<1>5. QED  BY <1>2, <1>4

LEMMA InstallInv ==
  ASSUME IInv, NEW answers \in Choices, Install(answers)
  PROVE  Phases' /\ Bootable'
<1>1. pc' = "umount" /\ installs' = installs + 1 /\ state' = Fresh
  BY DEF Install
<1>2. installs' # 0
  BY <1>1, InstallationConstants DEF IInv, TypeOK
<1>3. state'.firstBootKey = 0
  BY <1>1 DEF Fresh
<1>4. Phases'
  BY <1>1, <1>2, <1>3 DEF Phases, Releasing, NewLayout, Mappings, Slots, NewRoot,
     Partitioned, Formatting, Filling
<1>5. Bootable'
  BY <1>1, BootableKept DEF Install, IInv, disks, Server
<1>6. QED  BY <1>4, <1>5

\* What the release loop takes away leaves released disks released.
LEMMA LessInUse ==
  ASSUME active' \subseteq active, mounts' \subseteq mounts,
         \A m \in Mapper : open'[m] \in {open[m], None},
         NEW d \in Disk
  PROVE  InUse(d)' \subseteq InUse(d)
<1>1. d # None
  BY InstallationConstants
<1>2. MapsOf(d)' \subseteq MapsOf(d)
  BY <1>1 DEF MapsOf
<1>3. OnDisk(d)' \subseteq OnDisk(d) /\ MountsOf(d)' \subseteq MountsOf(d)
  BY DEF OnDisk, MountsOf
<1>4. QED  BY <1>2, <1>3 DEF InUse

\* The loops have one disk at a time.
LEMMA OneCurrent ==
  ASSUME TypeOK, todo \subseteq Chosen, NEW d \in Current, NEW e \in Current
  PROVE  d = e /\ d \in todo /\ d \in Disk
BY ChosenDisks DEF Current, Chosen

\* The steps of the release, which write nothing.
LEMMA ReleasingKeeps ==
  ASSUME IInv, pc \in {"umount", "lsblk", "release"},
         pc' \in {"lsblk", "release", "wipe", "failed"},
         UNCHANGED <<ch, state, installs, table, keys, root>>,
         pc' # "failed" => Releasing',
         pc' = "wipe" => todo' = Chosen
  PROVE  Phases' /\ Bootable'
<1>1. Bootable'
  BY BootableKept DEF IInv, Server
<1>2. CASE pc' = "failed"
  BY <1>1, <1>2, Stopped
<1>3. CASE pc' # "failed"
  <2>1. Slots'
    BY <1>3 DEF IInv, Phases, Slots, Formatting, Filling, Installing
  <2>2. NewRoot'
    BY <1>3 DEF NewRoot, Partitioned, Formatting, Filling
  <2>3. NewLayout'
    <3>1. pc' = "wipe" => Past' = {}
      BY SameAnswers DEF Past
    <3>2. QED  BY <1>3, <3>1 DEF NewLayout, Partitioned, Formatting, Filling
  <2>4. Mappings'
    <3>1. pc' = "wipe" => \A d \in Chosen' : MapsOf(d)' = {}
      BY DEF Releasing, InUse
    <3>2. QED
      BY <1>3, <3>1 DEF Mappings, MapsOf, Partitioned, Formatting, Filling
  <2>5. QED  BY <1>1, <1>3, <2>1, <2>2, <2>3, <2>4 DEF Phases
<1>4. QED  BY <1>2, <1>3

LEMMA UnmountsInv == ASSUME IInv, Unmounts PROVE Phases' /\ ErasedWhenFree' /\ Bootable'
<1>1. /\ pc = "umount" /\ pc' = "lsblk" /\ todo' = Chosen
      /\ UNCHANGED <<ch, state, installs, table, keys, root, active, open>>
      /\ mounts' \subseteq mounts
  BY DEF Unmounts, disks
<1>2. Past' = {} /\ todo' \subseteq Chosen'
  BY <1>1, SameAnswers DEF Past
<1>3. Releasing'
  BY <1>1, <1>2 DEF Releasing
<1>4. ErasedWhenFree'
  BY <1>1, ErasedKept
<1>5. QED  BY <1>1, <1>3, <1>4, ReleasingKeeps

\* The list has all that the kernel shows.
LEMMA ListsDevicesInv ==
  ASSUME IInv, ListsDevices
  PROVE  Phases' /\ ErasedWhenFree' /\ Bootable'
<1>1. PICK d \in Current : listed' = Listing(d)
  BY DEF ListsDevices
<1>2. /\ pc = "lsblk" /\ pc' = "release"
      /\ UNCHANGED <<ch, todo, state, installs, table, keys, root, active, open, mounts>>
  BY DEF ListsDevices, disks, kernel
<1>3. /\ Past' = Past /\ Current' = Current /\ Chosen' = Chosen
      /\ \A e : InUse(e)' = InUse(e)
  BY <1>2, SameAnswers DEF Past, Current, InUse, OnDisk, MapsOf, MountsOf
<1>4. todo \subseteq Chosen /\ \A e \in Past : InUse(e) = {}
  BY <1>2 DEF IInv, Phases, Releasing
<1>5. InUse(d) \subseteq {e[1] : e \in listed'}
  <2>1. ASSUME NEW v \in OnDisk(d) PROVE \E e \in listed' : e[1] = v
    <3>1. PICK p \in On[v] : p[1] = d
      BY DEF OnDisk
    <3>2. <<v, p[2]>> \in listed'
      BY <1>1, <3>1, Listed
    <3>3. QED  BY <3>2
  <2>2. ASSUME NEW x \in MapsOf(d) \cup {m[2] : m \in MountsOf(d)}
        PROVE  \E e \in listed' : e[1] = x
    <3>1. <<x, Part(x)>> \in listed'
      BY <1>1, Listed
    <3>2. QED  BY <3>1
  <2>3. QED  BY <2>1, <2>2 DEF InUse
<1>6. \A e \in Current : e = d
  BY <1>4, OneCurrent DEF IInv
<1>7. Releasing'
  BY <1>2, <1>3, <1>4, <1>5, <1>6 DEF Releasing
<1>8. ErasedWhenFree'
  BY <1>2, ErasedKept
<1>9. QED  BY <1>2, <1>7, <1>8, ReleasingKeeps

\* What was visited is not in use any more, or of no type that is removed.
LEMMA VisitInv ==
  ASSUME IInv, NEW e \in listed, Visits(e), pc' \in {"release", "failed"},
         active' \subseteq active, mounts' \subseteq mounts,
         \A m \in Mapper : open'[m] \in {open[m], None},
         \A d \in Current : pc' = "release" => e[1] \notin InUse(d)'
  PROVE  Phases' /\ ErasedWhenFree' /\ Bootable'
<1>1. /\ pc = "release" /\ listed' = listed \ {e}
      /\ UNCHANGED <<ch, todo, state, installs, table, keys, root>>
  BY DEF Visits, disks
<1>2. Past' = Past /\ Current' = Current /\ Chosen' = Chosen
  BY <1>1, SameAnswers DEF Past, Current
<1>3. /\ todo \subseteq Chosen /\ \A d \in Past : InUse(d) = {}
      /\ \A d \in Current : InUse(d) \subseteq {f[1] : f \in listed}
  BY <1>1 DEF IInv, Phases, Releasing
<1>4. \A d \in Disk : InUse(d)' \subseteq InUse(d)
  BY LessInUse
<1>5. Past \subseteq Disk /\ Current \subseteq Disk
  BY <1>3, OneCurrent, ChosenDisks DEF Past, IInv
<1>6. CASE pc' = "release"
  <2>1. \A d \in Past' : InUse(d)' = {}
    BY <1>2, <1>3, <1>4, <1>5
  <2>2. ASSUME NEW d \in Current PROVE InUse(d)' \subseteq {f[1] : f \in listed'}
    <3>1. {f[1] : f \in listed} \ {e[1]} \subseteq {f[1] : f \in listed'}
      BY <1>1
    <3>2. InUse(d)' \subseteq {f[1] : f \in listed} /\ e[1] \notin InUse(d)'
      BY <1>3, <1>4, <1>5, <1>6
    <3>3. QED  BY <3>1, <3>2
  <2>3. Releasing'
    <3>1. \A d \in Current' : InUse(d)' \subseteq {f[1] : f \in listed'}
      BY <1>2, <2>2
    <3>2. todo' \subseteq Chosen' /\ pc' # "umount" /\ pc' # "lsblk"
      BY <1>1, <1>2, <1>3, <1>6
    <3>3. QED  BY <1>6, <2>1, <3>1, <3>2 DEF Releasing
  <2>4. Phases' /\ Bootable'
    BY <1>1, <1>6, <2>3, ReleasingKeeps
  <2>5. QED  BY <1>1, <2>4, ErasedKept
<1>7. CASE pc' = "failed"
  BY <1>1, <1>7, ReleasingKeeps, ErasedKept
<1>8. QED  BY <1>6, <1>7

LEMMA VisitsInv ==
  ASSUME IInv, UnmountsOld \/ RemovesDevice \/ RemovalFails \/ PassesDevice
  PROVE  Phases' /\ ErasedWhenFree' /\ Bootable'
<1>1. Known \cap (Mapper \cup MountPoint) = {} /\ Mapper \cap MountPoint = {}
  BY InstallationConstants DEF Mapper, MountPoint
<1>2. CASE UnmountsOld
  <2>1. PICK e \in listed : e[1] \in MountPoint /\ Visits(e) /\ \E d \in Current :
          mounts' = IF e[1] = "/" THEN {} ELSE mounts \ {<<d, e[1]>>}
    BY <1>2 DEF UnmountsOld
  <2>2. PICK d \in Current : mounts' = IF e[1] = "/" THEN {} ELSE mounts \ {<<d, e[1]>>}
    BY <2>1
  <2>3. UNCHANGED <<active, open>> /\ pc' \in {"release", "failed"}
    BY <1>2 DEF UnmountsOld, Then, Succeeds
  <2>4. \A c \in Current : c = d
    BY <2>1, OneCurrent DEF Visits, IInv, Phases, Releasing
  <2>5. \A m \in mounts' : ~(m[1] = d /\ m[2] = e[1])
    <3>1. mounts' \subseteq mounts /\ <<d, e[1]>> \notin mounts'
      BY <2>2
    <3>2. \A m \in mounts' : m = <<m[1], m[2]>>
      BY <3>1 DEF IInv, TypeOK
    <3>3. QED  BY <3>1, <3>2
  <2>6. e[1] \notin InUse(d)'
    BY <1>1, <2>1, <2>5 DEF InUse, MountsOf, MapsOf
  <2>7. mounts' \subseteq mounts
    BY <2>2
  <2>8. QED  BY <2>1, <2>3, <2>4, <2>6, <2>7, VisitInv
<1>3. CASE RemovesDevice
  <2>1. PICK e \in listed : Stops(e[1]) /\ Visits(e) /\ active' = active \ {e[1]}
          /\ open' = [m \in Mapper |-> IF m = e[1] THEN None ELSE open[m]]
    BY <1>3 DEF RemovesDevice
  <2>2. UNCHANGED mounts /\ pc' \in {"release", "failed"}
    BY <1>3 DEF RemovesDevice, Then, Succeeds
  <2>3. Current \subseteq Disk
    BY <2>1, OneCurrent DEF Visits, IInv, Phases, Releasing
  <2>4. ASSUME NEW d \in Disk PROVE e[1] \notin InUse(d)'
    <3>1. d # None /\ e[1] \notin MountPoint
      BY <1>1, <2>1, InstallationConstants DEF Stops
    <3>2. e[1] \notin OnDisk(d)' /\ e[1] \notin MapsOf(d)'
      BY <2>1, <3>1 DEF OnDisk, MapsOf
    <3>3. e[1] \notin {m[2] : m \in MountsOf(d)'}
      BY <2>2, <3>1 DEF MountsOf, IInv, TypeOK
    <3>4. QED  BY <3>2, <3>3 DEF InUse
  <2>5. \A m \in Mapper : open'[m] \in {open[m], None}
    BY <2>1
  <2>6. QED  BY <2>1, <2>2, <2>3, <2>4, <2>5, VisitInv
<1>4. CASE RemovalFails
  <2>1. PICK e \in listed : Visits(e)
    BY <1>4 DEF RemovalFails
  <2>2. pc' = "failed" /\ UNCHANGED <<active, open, mounts>>
    BY <1>4 DEF RemovalFails
  <2>3. QED  BY <2>1, <2>2, VisitInv
<1>5. CASE PassesDevice
  <2>1. PICK e \in listed : e[1] \notin MountPoint /\ ~Stops(e[1]) /\ Visits(e)
    BY <1>5 DEF PassesDevice
  <2>2. pc' = "release" /\ UNCHANGED <<active, open, mounts>>
    BY <1>5, <2>1 DEF PassesDevice, Visits
  <2>3. \A d : e[1] \notin InUse(d)'
    BY <2>1, <2>2 DEF InUse, Stops, MapsOf, MountsOf, IInv, TypeOK
  <2>4. QED  BY <2>1, <2>2, <2>3, VisitInv
<1>6. QED  BY <1>2, <1>3, <1>4, <1>5

\* At the end of its list nothing of the disk is in use.
LEMMA ReleaseEndsInv ==
  ASSUME IInv, ReleaseEnds
  PROVE  Phases' /\ ErasedWhenFree' /\ Bootable'
<1>1. PICK d \in Current :
        /\ todo' = IF todo = {d} THEN Chosen ELSE todo \ {d}
        /\ pc' = IF todo = {d} THEN "wipe" ELSE "lsblk"
  BY DEF ReleaseEnds
<1>2. /\ pc = "release" /\ listed = {}
      /\ UNCHANGED <<ch, state, installs, table, keys, root, active, open, mounts>>
  BY DEF ReleaseEnds, disks, kernel
<1>3. Chosen' = Chosen /\ \A e : InUse(e)' = InUse(e)
  BY <1>2, SameAnswers DEF InUse, OnDisk, MapsOf, MountsOf
<1>4. todo \subseteq Chosen /\ \A e \in Past : InUse(e) = {}
  BY <1>2 DEF IInv, Phases, Releasing
<1>5. InUse(d) = {} /\ d \in todo
  BY <1>2, <1>4, OneCurrent DEF IInv, Phases, Releasing
<1>6. Releasing' /\ (pc' = "wipe" => todo' = Chosen)
  <2>1. CASE todo = {d}
    <3>1. pc' = "wipe" /\ todo' = Chosen
      BY <1>1, <2>1
    <3>2. \A e \in Chosen : InUse(e) = {}
      BY <1>4, <1>5, <2>1 DEF Past
    <3>3. QED  BY <1>3, <3>1, <3>2 DEF Releasing
  <2>2. CASE todo # {d}
    <3>1. pc' = "lsblk" /\ todo' = todo \ {d}
      BY <1>1, <2>2
    <3>2. \A e \in Past' : InUse(e) = {}
      BY <1>3, <1>4, <1>5, <3>1 DEF Past
    <3>3. QED  BY <1>3, <1>4, <3>1, <3>2 DEF Releasing
  <2>3. QED  BY <2>1, <2>2
<1>7. ErasedWhenFree'
  BY <1>2, ErasedKept
<1>8. pc' \in {"wipe", "lsblk"}
  BY <1>1
<1>9. QED  BY <1>2, <1>6, <1>7, <1>8, ReleasingKeeps

----------------------------------------------------------------------------
\* Erasing. A system that needs the disk starts no more.

LEMMA WithoutDisk ==
  ASSUME TypeOK, NEW d \in Disk, root' = Without(d)
  PROVE  /\ \A e \in Disk : root'[e].boots <=> (root[e].boots /\ d \notin Needs(e))
         /\ \A e \in Disk \ {d} :
              /\ root'[e].data = root[e].data
              /\ root'[e].files = root[e].files /\ root'[e].unit = root[e].unit
         /\ \A e \in Disk : root'[e].boots => Needs(e)' = Needs(e)
<1>1. root'[d] = NoRoot /\ d \in Needs(d)
  BY DEF Without, Needs
<1>2. \A e \in Disk \ {d} :
        root'[e] = [root[e] EXCEPT !.boots = @ /\ d \notin Needs(e)] /\ root[e] \in Root
  BY DEF Without, TypeOK
<1>3. \A e \in Disk \ {d} :
        /\ root'[e].data = root[e].data
        /\ root'[e].files = root[e].files /\ root'[e].unit = root[e].unit
        /\ root'[e].boots = (root[e].boots /\ d \notin Needs(e))
  BY <1>2 DEF Root
<1>4. ~root'[d].boots
  BY <1>1 DEF NoRoot
<1>5. \A e \in Disk : root'[e].boots <=> (root[e].boots /\ d \notin Needs(e))
  BY <1>1, <1>3, <1>4
<1>6. \A e \in Disk : root'[e].boots => Needs(e)' = Needs(e)
  BY <1>3, <1>4 DEF Needs
<1>7. QED  BY <1>3, <1>5, <1>6

\* A disk that is wiped stays so while another is.
LEMMA WipesInv == ASSUME IInv, Wipes PROVE Phases' /\ ErasedWhenFree' /\ Bootable'
<1>1. PICK d \in Current :
        /\ table' = [table EXCEPT ![d] = "none"]
        /\ keys' = [keys EXCEPT ![d] = {}]
        /\ root' = Without(d)
  BY DEF Wipes
<1>2. /\ pc = "wipe" /\ pc' \in {"partition", "failed"}
      /\ UNCHANGED <<ch, todo, state, installs, active, open, mounts>>
  BY DEF Wipes, Then, Succeeds, program, kernel
<1>3. todo \subseteq Chosen /\ \A e \in Chosen : InUse(e) = {}
  BY <1>2 DEF IInv, Phases, Releasing
<1>4. d \in todo /\ d \in Disk /\ d # None /\ \A e \in Current : e = d
  BY <1>3, OneCurrent, InstallationConstants DEF IInv
<1>5. /\ Chosen' = Chosen /\ Chosen \subseteq Disk /\ Past' = Past /\ Current' = Current
      /\ \A e \in Disk : Wanted(e)' = Wanted(e)
      /\ \A e : InUse(e)' = InUse(e)
  BY <1>2, SameAnswers, ChosenDisks
     DEF Past, Current, InUse, OnDisk, MapsOf, MountsOf, IInv
<1>r. /\ \A e \in Disk : root'[e].boots => root[e].boots /\ d \notin Needs(e)
                                           /\ Needs(e)' = Needs(e)
      /\ \A e \in Disk \ {d} : root'[e].files = root[e].files /\ root'[e].unit = root[e].unit
  BY <1>1, <1>4, WithoutDisk DEF IInv
<1>6. Wiped(d)'
  <2>1. keys'[d] = {}
    BY <1>1, <1>4 DEF IInv, TypeOK
  <2>2. QED  BY <1>r, <2>1 DEF Wiped, Unused
<1>7. \A e \in Past : Erased(e)'
  <2> SUFFICES ASSUME NEW e \in Past PROVE Erased(e)'
    OBVIOUS
  <2>1. e # d /\ e \in Disk
    BY <1>4, <1>5 DEF Past
  <2>2. Erased(e)
    BY <1>2 DEF IInv, Phases, NewLayout
  <2>3. table'[e] = table[e] /\ keys'[e] = keys[e]
    BY <1>1, <2>1 DEF IInv, TypeOK
  <2>4. Unused(e)'
    BY <1>r, <2>2 DEF Erased, Wiped, Unused
  <2>5. QED  BY <1>5, <2>1, <2>2, <2>3, <2>4 DEF Erased, Wiped
<1>8. Bootable'
  <2>1. \A e \in Disk : root'[e].boots => e # d /\ root[e].boots /\ keys'[e] = keys[e]
    BY <1>1, <1>r DEF Needs, IInv, TypeOK
  <2>2. \A e \in Disk : root'[e].boots => Tracked(e)'
    BY <1>r, <2>1 DEF IInv, Bootable, Tracked
  <2>3. QED  BY <1>2, <2>2 DEF Bootable, Server
<1>9. ErasedWhenFree'
  <2>1. ASSUME NEW e \in Disk
        PROVE  /\ table'[e] # "old" => OnDisk(e) \cap Known = {}
               /\ table'[e] = "none" => MapsOf(e) = {} /\ MountsOf(e) = {}
    <3>1. CASE e = d
      BY <1>3, <1>4, <3>1 DEF InUse
    <3>2. CASE e # d
      BY <1>1, <3>2 DEF IInv, TypeOK, ErasedWhenFree
    <3>3. QED  BY <3>1, <3>2
  <2>2. \A e : OnDisk(e)' = OnDisk(e) /\ MapsOf(e)' = MapsOf(e) /\ MountsOf(e)' = MountsOf(e)
    BY <1>2 DEF OnDisk, MapsOf, MountsOf
  <2>3. QED  BY <2>1, <2>2 DEF ErasedWhenFree
<1>10. CASE pc' = "partition"
  <2>1. NewLayout'
    BY <1>4, <1>5, <1>6, <1>7, <1>10 DEF NewLayout, Partitioned, Formatting, Filling
  <2>2. Releasing'
    BY <1>2, <1>3, <1>5, <1>10 DEF Releasing
  <2>3. Mappings' /\ Slots' /\ NewRoot'
    BY <1>2, <1>5, <1>10
       DEF IInv, Phases, Mappings, Slots, NewRoot, Partitioned, Formatting, Filling, Installing
  <2>4. QED  BY <1>8, <1>9, <2>1, <2>2, <2>3 DEF Phases
<1>11. CASE pc' = "failed"
  BY <1>8, <1>9, <1>11, Stopped
<1>12. QED  BY <1>2, <1>10, <1>11

LEMMA PartitionsInv ==
  ASSUME IInv, Partitions
  PROVE  Phases' /\ ErasedWhenFree' /\ Bootable'
<1>1. PICK d \in Current :
        /\ table' = [table EXCEPT ![d] = Wanted(d)]
        /\ todo' = todo \ {d}
        /\ pc' \in {IF todo = {d} THEN "check" ELSE "wipe", "failed"}
  BY DEF Partitions, Then, Succeeds
<1>2. /\ pc = "partition"
      /\ UNCHANGED <<ch, state, installs, keys, root, active, open, mounts>>
  BY DEF Partitions
<1>3. todo \subseteq Chosen /\ \A e \in Chosen : InUse(e) = {}
  BY <1>2 DEF IInv, Phases, Releasing
<1>4. d \in todo /\ d \in Disk
  BY <1>3, OneCurrent DEF IInv
<1>5. /\ Chosen' = Chosen /\ Chosen \subseteq Disk /\ Past' = Past \cup {d}
      /\ \A e \in Disk : Wanted(e)' = Wanted(e)
      /\ \A e : InUse(e)' = InUse(e)
  BY <1>1, <1>2, <1>3, <1>4, SameAnswers, ChosenDisks
     DEF Past, InUse, OnDisk, MapsOf, MountsOf, IInv
<1>6. \A e : Wiped(e)' = Wiped(e)
  BY <1>2 DEF Wiped, Unused, Needs
<1>7. \A e \in Past' : Erased(e)'
  <2> SUFFICES ASSUME NEW e \in Past' PROVE Erased(e)'
    OBVIOUS
  <2>1. CASE e = d
    BY <1>1, <1>2, <1>4, <1>5, <1>6, <2>1 DEF Erased, IInv, Phases, NewLayout, TypeOK
  <2>2. CASE e # d
    <3>1. e \in Past /\ e \in Disk /\ Erased(e)
      BY <1>2, <1>5, <2>2 DEF IInv, Phases, NewLayout, Past
    <3>2. table'[e] = table[e]
      BY <1>1, <2>2, <3>1 DEF IInv, TypeOK
    <3>3. QED  BY <1>5, <1>6, <3>1, <3>2 DEF Erased
  <2>3. QED  BY <2>1, <2>2
<1>8. pc' \notin Server
  BY <1>1 DEF Server
<1>9. Bootable'
  BY <1>2, <1>8, BootableKept DEF IInv
<1>10. ErasedWhenFree'
  <2>1. ASSUME NEW e \in Disk
        PROVE  /\ table'[e] # "old" => OnDisk(e) \cap Known = {}
               /\ table'[e] = "none" => MapsOf(e) = {} /\ MountsOf(e) = {}
    <3>1. CASE e = d
      BY <1>3, <1>4, <3>1 DEF InUse
    <3>2. CASE e # d
      BY <1>1, <3>2 DEF IInv, TypeOK, ErasedWhenFree
    <3>3. QED  BY <3>1, <3>2
  <2>2. \A e : OnDisk(e)' = OnDisk(e) /\ MapsOf(e)' = MapsOf(e) /\ MountsOf(e)' = MountsOf(e)
    BY <1>2 DEF OnDisk, MapsOf, MountsOf
  <2>3. QED  BY <2>1, <2>2 DEF ErasedWhenFree
<1>11. CASE pc' = "wipe"
  <2>1. NewLayout'
    BY <1>7, <1>11 DEF NewLayout, Partitioned, Formatting, Filling
  <2>2. Releasing'
    BY <1>1, <1>3, <1>5, <1>11 DEF Releasing
  <2>3. Mappings'
    BY <1>2, <1>5, <1>11 DEF IInv, Phases, Mappings
  <2>4. Slots' /\ NewRoot'
    BY <1>2, <1>11
       DEF IInv, Phases, Slots, NewRoot, Partitioned, Formatting, Filling, Installing
  <2>5. QED  BY <1>9, <1>10, <2>1, <2>2, <2>3, <2>4 DEF Phases
<1>12. CASE pc' = "check"
  <2>1. todo = {d}
    BY <1>1, <1>12
  <2>2. Past' = Chosen
    BY <1>1, <1>5, <2>1 DEF Past
  <2>3. \A e \in Chosen : Erased(e)'
    BY <1>7, <2>2
  <2>4. NewLayout' /\ NewRoot'
    BY <1>5, <1>12, <2>3 DEF NewLayout, NewRoot, Erased, Wiped, Partitioned, Formatting, Filling
  <2>5. Releasing' /\ Mappings'
    BY <1>2, <1>5, <1>12 DEF IInv, Phases, Releasing, Mappings
  <2>6. Slots'
    BY <1>2, <1>5, <1>12, <2>3
       DEF IInv, Phases, Slots, Erased, Wiped, Formatting, Filling, Installing
  <2>7. QED  BY <1>9, <1>10, <2>4, <2>5, <2>6 DEF Phases
<1>13. CASE pc' = "failed"
  BY <1>9, <1>10, <1>13, Stopped
<1>14. QED  BY <1>1, <1>11, <1>12, <1>13

LEMMA ChecksLayoutInv == ASSUME IInv, ChecksLayout PROVE Phases' /\ Bootable'
<1>1. pc = "check" /\ UNCHANGED <<program, disks, kernel>>
  BY DEF ChecksLayout
<1>2. UNCHANGED <<ch, todo, state, installs, table, seen, keys, root, active, open, mounts>>
  BY <1>1 DEF program, disks, kernel
<1>3. pc' \notin Server
  BY DEF ChecksLayout, Server
<1>4. Bootable'
  BY <1>2, <1>3, BootableKept DEF IInv
<1>5. CASE pc' = "failed"
  BY <1>4, <1>5, Stopped
<1>6. CASE pc' # "failed"
  <2>1. /\ (pc' = "luks" /\ Encrypted) \/ (pc' = "mkfs" /\ ~Encrypted)
        /\ \A d \in Chosen : LooksRight(d)
    <3>1. pc' = IF \A d \in Chosen : LooksRight(d)
                THEN IF Encrypted THEN "luks" ELSE "mkfs"
                ELSE "failed"
      BY DEF ChecksLayout
    <3>2. \A d \in Chosen : LooksRight(d)
      BY <1>6, <3>1
    <3>3. QED  BY <3>1, <3>2
  <2>2. /\ Chosen' = Chosen /\ Encrypted' = Encrypted /\ SystemKeys' = SystemKeys
        /\ \A d \in Disk : Wanted(d)' = Wanted(d)
    BY <1>2, SameAnswers
  <2>3. \A d \in Chosen : LooksRight(d)'
    BY <1>2, <2>1 DEF LooksRight, Parts
  <2>4. ch.system \in Chosen /\ Chosen \subseteq Disk
    BY ChosenDisks DEF IInv
  <2>5. ~Encrypted => SystemKeys = {} /\ ch.enc # "tpm"
    BY DEF Encrypted, SystemKeys, OneTimeKey
  <2>6. NewLayout'
    BY <1>1, <1>2, <2>1, <2>2, <2>3, <2>4
       DEF IInv, Phases, NewLayout, Partitioned, Formatting, Filling
  <2>7. Slots'
    BY <1>1, <1>2, <2>1, <2>2, <2>4, <2>5
       DEF IInv, Phases, Slots, Formatting, Filling, Installing
  <2>u. \A d \in Chosen' : Unused(d)'
    BY <1>1, <1>2, <1>3, OthersKept DEF Partitioned
  <2>8. Releasing' /\ Mappings' /\ NewRoot'
    BY <1>1, <1>2, <2>1, <2>2, <2>u
       DEF IInv, Phases, Releasing, Mappings, NewRoot, Partitioned, Formatting, Filling
  <2>9. QED  BY <1>4, <2>6, <2>7, <2>8 DEF Phases
<1>7. QED  BY <1>5, <1>6

----------------------------------------------------------------------------
\* The steps after checkLayout.

LEMMA LayoutKept ==
  ASSUME IInv, pc \in Partitioned \ {"check"}, UNCHANGED <<ch, installs, table, seen>>,
         pc' \in (Partitioned \ {"check"}) \cup {"installed"}
  PROVE  Releasing' /\ NewLayout'
<1>1. /\ Chosen' = Chosen /\ \A d \in Disk : Wanted(d)' = Wanted(d)
      /\ Chosen \subseteq Disk
  BY SameAnswers, ChosenDisks DEF IInv
<1>2. \A d \in Chosen : table'[d] = Wanted(d)' /\ LooksRight(d)'
  BY <1>1 DEF IInv, Phases, NewLayout, LooksRight, Parts
<1>3. QED
  BY <1>1, <1>2 DEF Releasing, NewLayout, Partitioned, Formatting, Filling

LEMMA MappingsKept ==
  ASSUME IInv, pc \in Partitioned, UNCHANGED <<ch, open>>, state'.mapped = state.mapped
  PROVE  Mappings'
BY DEF IInv, Phases, Mappings, Chosen

LEMMA FormatsContainerInv == ASSUME IInv, FormatsContainer PROVE Phases' /\ Bootable'
<1>1. /\ pc = "luks" /\ pc' \in {"open", "failed"}
      /\ keys' = [keys EXCEPT ![ch.system] = {Passphrase}]
      /\ UNCHANGED <<ch, state, installs, table, seen, root, open>>
  BY DEF FormatsContainer, Then, Succeeds, program, kernel
<1>2. ch.system \in Disk /\ ch.system \in Chosen
  BY ChosenDisks DEF IInv
<1>3. Bootable' /\ \A d \in Chosen' : Unused(d)'
  <2>1. \A d \in Disk \ Chosen : keys'[d] = keys[d]
    BY <1>1, <1>2 DEF IInv, TypeOK
  <2>2. QED  BY <1>1, <2>1, OthersKept DEF Partitioned, Formatting, Server
<1>4. CASE pc' = "open"
  <2>1. Releasing' /\ NewLayout' /\ Mappings'
    BY <1>1, <1>4, LayoutKept, MappingsKept DEF Partitioned, Formatting
  <2>2. Encrypted' = Encrypted /\ Chosen' = Chosen
    BY <1>1, SameAnswers
  <2>3. keys'[ch.system] = {Passphrase}
    BY <1>1, <1>2 DEF IInv, TypeOK
  <2>4. Slots' /\ NewRoot'
    BY <1>1, <1>2, <1>3, <1>4, <2>2, <2>3
       DEF IInv, Phases, Slots, NewRoot, Formatting, Filling, Installing
  <2>5. QED  BY <1>3, <2>1, <2>4 DEF Phases
<1>5. CASE pc' = "failed"
  BY <1>3, <1>5, Stopped
<1>6. QED  BY <1>1, <1>4, <1>5

LEMMA OpensRootInv == ASSUME IInv, OpensRoot PROVE Phases' /\ Bootable'
<1>1. /\ pc = "open"
      /\ pc' = (IF ch.enc = "tpm" THEN "addkey" ELSE "mkfs") \/ pc' = "failed"
      /\ open["root"] = None /\ open' = [open EXCEPT !["root"] = ch.system]
      /\ state' = [state EXCEPT !.mapped = IF pc' = "failed" THEN @ ELSE @ \cup {"root"}]
      /\ UNCHANGED <<ch, installs, table, seen, keys, root>>
  BY DEF OpensRoot, Opens, Then, Succeeds, disks
<1>2. pc' \notin Server
  BY <1>1 DEF Server
<1>3. Bootable' /\ \A d \in Chosen' : Unused(d)'
  BY <1>1, <1>2, OthersKept DEF Partitioned, Formatting
<1>4. CASE pc' = IF ch.enc = "tpm" THEN "addkey" ELSE "mkfs"
  <2>1. pc' \in {"addkey", "mkfs"} /\ (pc' = "addkey" => ch.enc = "tpm")
        /\ (pc' = "mkfs" => ch.enc # "tpm")
    BY <1>4
  <2>2. Releasing' /\ NewLayout'
    BY <1>1, <2>1, LayoutKept DEF Partitioned, Formatting
  <2>3. /\ Encrypted' = Encrypted /\ Chosen' = Chosen /\ SystemKeys' = SystemKeys
        /\ Encrypted
    BY <1>1, SameAnswers DEF IInv, Phases, Slots, Formatting
  <2>4. state'.mapped = state.mapped \cup {"root"} /\ state'.firstBootKey = state.firstBootKey
    BY <1>1, <2>1 DEF IInv, TypeOK
  <2>5. \A m \in Mapper : m # "root" => open'[m] = open[m]
    BY <1>1 DEF IInv, TypeOK
  <2>6. Mappings'
    BY <1>1, <2>3, <2>4, <2>5 DEF IInv, Phases, Mappings, Partitioned, Formatting
  <2>7. ch.enc # "tpm" => SystemKeys = {Passphrase}
    BY <2>3 DEF SystemKeys, OneTimeKey
  <2>8. Slots' /\ NewRoot'
    BY <1>1, <1>3, <2>1, <2>3, <2>4, <2>7
       DEF IInv, Phases, Slots, NewRoot, Formatting, Filling, Installing
  <2>9. QED  BY <1>3, <2>2, <2>6, <2>8 DEF Phases
<1>5. CASE pc' = "failed"
  BY <1>3, <1>5, Stopped
<1>6. QED  BY <1>1, <1>4, <1>5

LEMMA addFirstBootKeyInv == ASSUME IInv, addFirstBootKey PROVE Phases' /\ Bootable'
<1>1. /\ pc = "addkey" /\ pc' \in {"mkfs", "failed"}
      /\ keys' = [keys EXCEPT ![ch.system] = @ \cup {<<"firstboot", installs>>}]
      /\ state' = [state EXCEPT !.firstBootKey = IF pc' = "failed" THEN @ ELSE installs]
      /\ UNCHANGED <<ch, installs, table, seen, root, open>>
  BY DEF addFirstBootKey, Then, Succeeds, kernel
<1>2. ch.system \in Disk /\ ch.system \in Chosen
  BY ChosenDisks DEF IInv
<1>3. Bootable' /\ \A d \in Chosen' : Unused(d)'
  <2>1. \A d \in Disk \ Chosen : keys'[d] = keys[d]
    BY <1>1, <1>2 DEF IInv, TypeOK
  <2>2. QED  BY <1>1, <2>1, OthersKept DEF Partitioned, Formatting, Server
<1>4. CASE pc' = "mkfs"
  <2>1. Releasing' /\ NewLayout'
    BY <1>1, <1>4, LayoutKept DEF Partitioned, Formatting
  <2>2. state'.mapped = state.mapped /\ state'.firstBootKey = installs
    BY <1>1, <1>4 DEF IInv, TypeOK
  <2>3. Mappings'
    BY <1>1, <2>2, MappingsKept DEF Partitioned, Formatting
  <2>4. ch.enc = "tpm" /\ keys[ch.system] = {Passphrase} /\ SystemKeys' = SystemKeys
    BY <1>1, SameAnswers DEF IInv, Phases, Slots
  <2>5. keys'[ch.system] = SystemKeys
    BY <1>1, <1>2, <2>4 DEF IInv, TypeOK, SystemKeys, OneTimeKey, Encrypted
  <2>6. Slots' /\ NewRoot'
    BY <1>1, <1>3, <1>4, <2>2, <2>4, <2>5
       DEF IInv, Phases, Slots, NewRoot, Formatting, Filling, Installing
  <2>7. QED  BY <1>3, <2>1, <2>3, <2>6 DEF Phases
<1>5. CASE pc' = "failed"
  BY <1>3, <1>5, Stopped
<1>6. QED  BY <1>1, <1>4, <1>5

LEMMA MakesFilesystemsInv == ASSUME IInv, MakesFilesystems PROVE Phases' /\ Bootable'
<1>1. /\ pc = "mkfs"
      /\ pc' = (IF ch.data = None THEN "mount" ELSE "prepare") \/ pc' = "failed"
      /\ root' = [root EXCEPT ![ch.system] = NoRoot]
      /\ UNCHANGED <<ch, state, installs, table, seen, keys, open>>
  BY DEF MakesFilesystems, Then, Succeeds, program, kernel
<1>2. ~NoRoot.boots
  BY DEF NoRoot
<1>3. pc' \notin Server
  BY <1>1 DEF Server
<1>4. Bootable' /\ \A d \in Chosen' : Unused(d)'
  BY <1>1, <1>2, <1>3, RootRewritten DEF Partitioned
<1>5. CASE pc' = IF ch.data = None THEN "mount" ELSE "prepare"
  <2>1. pc' \in {"mount", "prepare"} /\ (pc' = "mount" => ch.data = None)
    BY <1>5
  <2>2. Releasing' /\ NewLayout' /\ Mappings'
    BY <1>1, <2>1, LayoutKept, MappingsKept DEF Partitioned, Filling
  <2>3. SystemKeys' = SystemKeys
    BY <1>1, SameAnswers
  <2>4. Slots' /\ NewRoot'
    BY <1>1, <1>4, <2>1, <2>3
       DEF IInv, Phases, Slots, NewRoot, Formatting, Filling, Installing
  <2>5. QED  BY <1>4, <2>2, <2>4 DEF Phases
<1>6. CASE pc' = "failed"
  BY <1>4, <1>6, Stopped
<1>7. QED  BY <1>1, <1>5, <1>6

LEMMA PreparesDataInv == ASSUME IInv, PreparesData PROVE Phases' /\ Bootable'
<1>1. /\ pc = "prepare" /\ pc' \in {"map", "failed"}
      /\ keys' = [keys EXCEPT ![ch.data] =
           IF Encrypted THEN {Passphrase, <<"data", installs>>} ELSE {}]
      /\ UNCHANGED <<ch, state, installs, table, seen, root, open>>
  BY DEF PreparesData, Then, Succeeds, program, kernel
<1>2. Bootable' /\ \A d \in Chosen' : Unused(d)'
  <2>1. \A d \in Disk \ Chosen : d # ch.data
    BY InstallationConstants DEF Chosen
  <2>2. \A d \in Disk \ Chosen : keys'[d] = keys[d]
    BY <1>1, <2>1 DEF IInv, TypeOK
  <2>3. QED  BY <1>1, <2>2, OthersKept DEF Partitioned, Filling, Server
<1>3. CASE pc' = "map"
  <2>1. Releasing' /\ NewLayout' /\ Mappings'
    BY <1>1, <1>3, LayoutKept, MappingsKept DEF Partitioned, Filling
  <2>2. SystemKeys' = SystemKeys /\ DataKey' = DataKey
    BY <1>1, SameAnswers
  <2>3. keys'[ch.system] = keys[ch.system]
    BY <1>1, Answers DEF IInv, TypeOK
  <2>4. ch.data # None => DataKey \subseteq keys'[ch.data]
    BY <1>1, Answers DEF IInv, TypeOK, DataKey
  <2>5. Slots' /\ NewRoot'
    BY <1>1, <1>2, <1>3, <2>2, <2>3, <2>4
       DEF IInv, Phases, Slots, NewRoot, Formatting, Filling, Installing
  <2>6. QED  BY <1>2, <2>1, <2>5 DEF Phases
<1>4. CASE pc' = "failed"
  BY <1>2, <1>4, Stopped
<1>5. QED  BY <1>1, <1>3, <1>4

\* Slots and the new root, in the steps that only go on.
LEMMA SlotsKept ==
  ASSUME IInv, pc \in Filling \ {"prepare", "bootloader"},
         pc' \in Filling \ {"prepare", "bootloader"},
         UNCHANGED <<ch, installs, keys, root>>, state'.firstBootKey = state.firstBootKey
  PROVE  Slots' /\ NewRoot'
<1>1. SystemKeys' = SystemKeys /\ DataKey' = DataKey
  BY SameAnswers
<1>2. \A d \in Chosen' : Unused(d)'
  BY OthersKept DEF Partitioned, Filling, Server
<1>3. QED
  BY <1>1, <1>2 DEF IInv, Phases, Slots, NewRoot, Formatting, Filling, Installing

LEMMA MapsDataInv == ASSUME IInv, MapsData PROVE Phases' /\ Bootable'
<1>1. /\ pc = "map" /\ pc' \in {"mount", "failed"}
      /\ IF Encrypted THEN Opens("data0", ch.data) ELSE UNCHANGED <<open, state>>
      /\ UNCHANGED <<ch, installs, table, seen, keys, root>>
  BY DEF MapsData, Then, Succeeds, disks
<1>2. Bootable'
  BY <1>1, OthersKept DEF Partitioned, Filling, Server
<1>3. CASE pc' = "mount"
  <2>1. Releasing' /\ NewLayout'
    BY <1>1, <1>3, LayoutKept DEF Partitioned, Filling
  <2>2. Mappings' /\ state'.firstBootKey = state.firstBootKey
    <3>1. CASE ~Encrypted
      BY <1>1, <3>1, MappingsKept DEF Partitioned, Filling
    <3>2. CASE Encrypted
      <4>1. /\ open' = [open EXCEPT !["data0"] = ch.data]
            /\ state' = [state EXCEPT !.mapped = @ \cup {"data0"}]
        BY <1>1, <1>3, <3>2 DEF Opens
      <4>2. /\ state'.mapped = state.mapped \cup {"data0"}
            /\ state'.firstBootKey = state.firstBootKey
            /\ \A m \in Mapper : m # "data0" => open'[m] = open[m]
        BY <4>1 DEF IInv, TypeOK
      <4>3. Chosen' = Chosen
        BY <1>1, SameAnswers
      <4>4. QED
        BY <1>1, <4>2, <4>3 DEF IInv, Phases, Mappings, Partitioned, Filling
    <3>3. QED  BY <3>1, <3>2
  <2>3. Slots' /\ NewRoot'
    BY <1>1, <1>3, <2>2, SlotsKept DEF Filling
  <2>4. QED  BY <1>2, <2>1, <2>2, <2>3 DEF Phases
<1>4. CASE pc' = "failed"
  BY <1>2, <1>4, Stopped
<1>5. QED  BY <1>1, <1>3, <1>4

LEMMA GoesOnInv ==
  ASSUME IInv, Mounts \/ pacstrap \/ PacstrapAgain
  PROVE  Phases' /\ Bootable'
<1>1. /\ pc \in {"mount", "pacstrap"} /\ pc' \in {"pacstrap", "configure", "failed"}
      /\ UNCHANGED <<ch, state, installs, table, seen, keys, root, open>>
  BY DEF Mounts, pacstrap, PacstrapAgain, Then, Succeeds, program, disks, kernel
<1>2. Bootable'
  BY <1>1, OthersKept DEF Partitioned, Filling, Server
<1>3. CASE pc' # "failed"
  <2>1. Releasing' /\ NewLayout' /\ Mappings'
    BY <1>1, <1>3, LayoutKept, MappingsKept DEF Partitioned, Filling
  <2>2. Slots' /\ NewRoot'
    BY <1>1, <1>3, SlotsKept DEF Filling
  <2>3. QED  BY <1>2, <2>1, <2>2 DEF Phases
<1>4. CASE pc' = "failed"
  BY <1>2, <1>4, Stopped
<1>5. QED  BY <1>3, <1>4

\* The key files of the new system are those that were enrolled.
LEMMA configureInv == ASSUME IInv, configure PROVE Phases' /\ Bootable'
<1>1. /\ pc = "configure" /\ pc' \in {"bootloader", "failed"}
      /\ UNCHANGED <<ch, state, installs, table, seen, keys, open>>
  BY DEF configure, Then, Succeeds, program, kernel
<1> DEFINE files == {<<"firstboot", n>> : n \in {state.firstBootKey} \ {0}}
                      \cup {<<"data", installs>> : d \in {e \in {ch.data} \ {None} : Encrypted}}
           r == [data |-> ch.data, files |-> files, unit |-> state.firstBootKey # 0,
                 boots |-> FALSE]
<1>a. root' = [root EXCEPT ![ch.system] = r]
  BY DEF configure
<1>b. /\ r.data = ch.data /\ ~r.boots
      /\ r.files = files
      /\ r.unit = (state.firstBootKey # 0)
  OBVIOUS
<1> HIDE DEF r
<1>2. /\ root' = [root EXCEPT ![ch.system] = r]
      /\ r.data = ch.data /\ ~r.boots
      /\ r.files = files
      /\ r.unit = (state.firstBootKey # 0)
  BY <1>a, <1>b
<1>3. /\ Bootable' /\ \A d \in Chosen' : Unused(d)'
      /\ root'[ch.system] = r
  BY <1>1, <1>2, RootRewritten, Answers DEF Partitioned, Filling, Server, IInv, TypeOK
<1>4. CASE pc' = "bootloader"
  <2>1. Releasing' /\ NewLayout' /\ Mappings'
    BY <1>1, <1>4, LayoutKept, MappingsKept DEF Partitioned, Filling
  <2>2. /\ SystemKeys' = SystemKeys /\ DataKey' = DataKey /\ OneTimeKey' = OneTimeKey
    BY <1>1, SameAnswers
  <2>3. state.firstBootKey = (IF ch.enc = "tpm" THEN installs ELSE 0) /\ installs # 0
    BY <1>1 DEF IInv, Phases, Slots, Filling, Installing
  <2>4. {<<"firstboot", n>> : n \in {state.firstBootKey} \ {0}} = OneTimeKey
    BY <2>3 DEF OneTimeKey
  <2>5. {<<"data", installs>> : d \in {e \in {ch.data} \ {None} : Encrypted}} = DataKey
    BY DEF DataKey
  <2>6. root'[ch.system].files = OneTimeKey \cup DataKey
    BY <1>2, <1>3, <2>4, <2>5
  <2>7. root'[ch.system].unit = (ch.enc = "tpm") /\ root'[ch.system].data = ch.data
    BY <1>2, <1>3, <2>3
  <2>8. Slots' /\ NewRoot'
    BY <1>1, <1>3, <1>4, <2>2, <2>6, <2>7
       DEF IInv, Phases, Slots, NewRoot, Formatting, Filling, Installing
  <2>9. QED  BY <1>3, <2>1, <2>8 DEF Phases
<1>5. CASE pc' = "failed"
  BY <1>3, <1>5, Stopped
<1>6. QED  BY <1>1, <1>4, <1>5

\* From here the new root boots, and its key files are tracked.
LEMMA bootloaderInv == ASSUME IInv, bootloader PROVE Phases' /\ Bootable'
<1>1. /\ pc = "bootloader" /\ pc' \in {"installed", "failed"}
      /\ UNCHANGED <<ch, state, installs, table, seen, keys, open>>
  BY DEF bootloader, Then, Succeeds, program, kernel
<1>2. /\ root'[ch.system].boots /\ root'[ch.system].data = root[ch.system].data
      /\ root'[ch.system].files = root[ch.system].files
      /\ root'[ch.system].unit = root[ch.system].unit
      /\ \A d \in Disk \ {ch.system} : root'[d] = root[d]
  BY Answers DEF bootloader, IInv, TypeOK, Root
<1>3. /\ keys[ch.system] = SystemKeys /\ root[ch.system].data = ch.data
      /\ root[ch.system].files = OneTimeKey \cup DataKey
      /\ root[ch.system].unit = (ch.enc = "tpm")
  BY <1>1 DEF IInv, Phases, NewRoot, Slots, Filling
<1>4. \A k \in SystemKeys : k[1] = "firstboot" => k \in OneTimeKey /\ ch.enc = "tpm"
  BY DEF SystemKeys, OneTimeKey, Passphrase
<1>5. Bootable'
  <2>1. Tracked(ch.system)'
    BY <1>1, <1>2, <1>3, <1>4 DEF Tracked
  <2>2. \A d \in Disk \ {ch.system} : root'[d].boots => Tracked(d)'
    BY <1>1, <1>2 DEF IInv, Bootable, Tracked
  <2>3. QED  BY <1>1, <2>1, <2>2 DEF Bootable, Server
<1>6. CASE pc' = "installed"
  <2>1. Releasing' /\ NewLayout' /\ Mappings'
    BY <1>1, <1>6, LayoutKept, MappingsKept DEF Partitioned, Filling
  <2>2. /\ SystemKeys' = SystemKeys /\ DataKey' = DataKey /\ OneTimeKey' = OneTimeKey
    BY <1>1, SameAnswers
  <2>3. Slots' /\ NewRoot'
    BY <1>1, <1>2, <1>3, <1>6, <2>2
       DEF IInv, Phases, Slots, NewRoot, Partitioned, Formatting, Filling, Installing
  <2>4. QED  BY <1>5, <2>1, <2>3 DEF Phases
<1>7. CASE pc' = "failed"
  BY <1>5, <1>7, Stopped
<1>8. QED  BY <1>1, <1>6, <1>7

----------------------------------------------------------------------------
\* Ends and new beginnings.

LEMMA EndsInv ==
  ASSUME IInv, Fails \/ NameTaken \/ PartitioningFails \/ OpensAgain \/ PowerCut
  PROVE  Phases' /\ Bootable'
<1>1. pc' \in {"idle", "failed"} /\ UNCHANGED <<keys, root>>
  BY DEF Fails, NameTaken, PartitioningFails, OpensAgain, PowerCut, disks
<1>2. QED
  BY <1>1, Stopped, BootableKept DEF IInv, Server

LEMMA RebootsInv ==
  ASSUME IInv, Reboot \/ BootsAgain
  PROVE  Phases' /\ Bootable'
<1>1. pc' = "boot" /\ from' \in Disk /\ root[from'].boots /\ UNCHANGED <<keys, root>>
  BY DEF Reboot, BootsAgain, IInv, Bootable, disks, kernel
<1>2. Bootable'
  BY <1>1 DEF IInv, Bootable, Tracked
<1>3. QED  BY <1>1, <1>2, Stopped DEF Server

(* The slot goes before the file and the file before the unit: whatever    *)
(* step power fails in, what is needed to go on is still there.            *)
LEMMA EnrolmentInv == ASSUME IInv, Enrolment PROVE Phases' /\ Bootable'
<1>1. pc \in Server /\ pc' \in Server
  BY DEF Enrolment, Boots, Enrolls, EnrolmentFails, Revokes, Forgets, Disables, Server
<1>2. from \in Disk /\ root[from].boots /\ \A d \in Disk : root[d].boots => Tracked(d)
  BY <1>1 DEF IInv, Bootable
<1> SUFFICES Bootable'
  BY <1>1, Stopped
<1>3. CASE Boots \/ EnrolmentFails
  <2>1. pc' \in {"enroll", "running"} /\ UNCHANGED <<keys, root, from>>
    BY <1>3 DEF Boots, EnrolmentFails, disks, kernel
  <2>2. QED  BY <1>2, <2>1 DEF Bootable, Tracked
<1>4. CASE Enrolls
  <2>1. /\ pc' = "revoke" /\ UNCHANGED <<root, from>>
        /\ \A d \in Disk : keys'[d] \subseteq keys[d] \cup {TPM}
    BY <1>4 DEF Enrolls, IInv, TypeOK, kernel
  <2>2. TPM[1] # "firstboot"
    BY DEF TPM
  <2>3. \A d \in Disk : root'[d].boots => Tracked(d)'
    BY <1>2, <2>1, <2>2 DEF Tracked
  <2>4. QED  BY <1>2, <2>1, <2>3 DEF Bootable
<1>5. CASE Revokes
  <2>1. /\ pc' = "forget" /\ UNCHANGED <<root, from>>
        /\ keys'[from] = keys[from] \ FirstBootKeys(from)
        /\ \A d \in Disk : keys'[d] \subseteq keys[d]
    BY <1>2, <1>5 DEF Revokes, IInv, TypeOK, kernel
  <2>2. NoOneTimeSlot'
    BY <1>2, <2>1 DEF Tracked, FirstBootKeys, NoOneTimeSlot
  <2>3. \A d \in Disk : root'[d].boots => Tracked(d)'
    BY <1>2, <2>1 DEF Tracked
  <2>4. QED  BY <1>2, <2>1, <2>2, <2>3 DEF Bootable
<1>6. CASE Forgets \/ Disables
  <2>1. pc \in {"forget", "disable"} /\ UNCHANGED <<keys, from>>
    BY <1>6 DEF Forgets, Disables, kernel
  <2>2. /\ root'[from].boots = root[from].boots
        /\ \A d \in Disk \ {from} : root'[d] = root[d]
    <3>1. root \in [Disk -> Root]
      BY DEF IInv, TypeOK
    <3>2. \/ root' = [root EXCEPT ![from].files = @ \ FirstBootKeys(from)]
          \/ root' = [root EXCEPT ![from].unit = FALSE]
      BY <1>6 DEF Forgets, Disables
    <3>3. \A d \in Disk \ {from} : root'[d] = root[d]
      BY <3>1, <3>2
    <3>4. root'[from].boots = root[from].boots
      BY <1>2, <3>1, <3>2 DEF Root
    <3>5. QED  BY <3>3, <3>4
  <2>3. NoOneTimeSlot /\ NoOneTimeSlot'
    BY <2>1 DEF IInv, Bootable, NoOneTimeSlot
  <2>4. Tracked(from)'
    BY <2>1, <2>3 DEF Tracked, NoOneTimeSlot
  <2>5. \A d \in Disk \ {from} : root'[d].boots => Tracked(d)'
    BY <1>2, <2>1, <2>2 DEF Tracked
  <2>6. QED  BY <1>2, <2>1, <2>2, <2>3, <2>4, <2>5 DEF Bootable
<1>7. QED  BY <1>3, <1>4, <1>5, <1>6 DEF Enrolment

LEMMA FilesystemsInv == ASSUME IInv, Filesystems PROVE Phases' /\ Bootable'
<1>1. CASE NameTaken
  BY <1>1, EndsInv
<1>2. CASE Mounts
  BY <1>2, GoesOnInv
<1>3. QED
  BY <1>1, <1>2, FormatsContainerInv, OpensRootInv, addFirstBootKeyInv,
     MakesFilesystemsInv, PreparesDataInv, MapsDataInv
     DEF Filesystems

LEMMA ReleaseInv == ASSUME IInv, Release PROVE Phases' /\ ErasedWhenFree' /\ Bootable'
BY ListsDevicesInv, VisitsInv, ReleaseEndsInv DEF Release

\* No other step starts or maps anything on a disk without a table.
LEMMA SetUpKeepsErased ==
  ASSUME IInv, Filesystems
  PROVE  ErasedWhenFree'
<1>1. UNCHANGED <<table, active>>
  BY DEF Filesystems, FormatsContainer, NameTaken, OpensRoot, addFirstBootKey,
         MakesFilesystems, PreparesData, MapsData, Mounts, program, disks, kernel
<1>2. ASSUME pc \in Partitioned
      PROVE  table[ch.system] # "none" /\ (ch.data # None => table[ch.data] # "none")
  <2>1. \A d \in Chosen : table[d] = Wanted(d)
    BY <1>2 DEF IInv, Phases, NewLayout
  <2>2. ch.system \in Chosen /\ (ch.data # None => ch.data \in Chosen)
    BY DEF Chosen
  <2>3. QED  BY <2>1, <2>2 DEF Wanted
<1>3. \A m \in Mapper : open[m] \in Disk \cup {None}
  BY DEF IInv, TypeOK
<1>4. CASE OpensRoot
  <2>1. /\ pc = "open" /\ open' = [open EXCEPT !["root"] = ch.system] /\ UNCHANGED mounts
    BY <1>4 DEF OpensRoot, Opens
  <2>2. \A m \in Mapper : open'[m] = open[m] \/ table[open'[m]] # "none"
    BY <1>2, <2>1 DEF Partitioned, Formatting, IInv, TypeOK
  <2>3. QED  BY <1>1, <2>1, <2>2, ErasedKept
<1>5. CASE MapsData
  <2>1. /\ pc = "map" /\ UNCHANGED mounts
        /\ open' = [open EXCEPT !["data0"] = ch.data] \/ UNCHANGED open
    BY <1>5 DEF MapsData, Opens
  <2>2. \A m \in Mapper : open'[m] = open[m] \/ open'[m] = None \/ table[open'[m]] # "none"
    BY <1>2, <2>1 DEF Partitioned, Filling, IInv, TypeOK
  <2>3. QED  BY <1>1, <2>1, <2>2, ErasedKept
<1>6. CASE Mounts
  <2>1. /\ pc = "mount" /\ UNCHANGED open
        /\ \A x \in mounts' : x[1] = ch.system \/ (ch.data # None /\ x[1] = ch.data)
    BY <1>6 DEF Mounts
  <2>2. \A x \in mounts' : table[x[1]] # "none"
    BY <1>2, <2>1 DEF Partitioned, Filling
  <2>3. QED  BY <1>1, <2>1, <2>2, ErasedKept
<1>7. CASE ~(OpensRoot \/ MapsData \/ Mounts)
  <2>1. UNCHANGED <<open, mounts>>
    BY <1>7 DEF Filesystems, FormatsContainer, NameTaken, addFirstBootKey,
                MakesFilesystems, PreparesData, kernel
  <2>2. QED  BY <1>1, <2>1, ErasedKept
<1>8. QED  BY <1>4, <1>5, <1>6, <1>7

LEMMA OthersKeepErased ==
  ASSUME IInv,
         \/ Starts \/ Retries \/ PartitioningFails \/ ChecksLayout \/ pacstrap
         \/ PacstrapAgain \/ configure \/ bootloader \/ Fails \/ OpensAgain
         \/ Enrolment \/ BootsAgain
  PROVE  ErasedWhenFree'
<1>1. UNCHANGED <<table, active, open, mounts>>
  BY DEF Starts, Retries, Install, PartitioningFails, ChecksLayout, pacstrap, PacstrapAgain,
         configure, bootloader, Fails, OpensAgain, Enrolment, Boots, Enrolls, EnrolmentFails,
         Revokes, Forgets, Disables, BootsAgain, disks, kernel
<1>2. QED  BY <1>1, ErasedKept

LEMMA NextInv == ASSUME IInv, Next PROVE IInv'
<1>1. TypeOK'
  BY TypeInv DEF IInv
<1>2. CASE Starts \/ Retries
  <2>1. ch \in Choices /\ Install(ch)
    BY <1>2 DEF Starts, Retries, IInv, TypeOK
  <2>2. QED  BY <1>1, <1>2, <2>1, InstallInv, OthersKeepErased DEF IInv
<1>3. CASE Unmounts \/ Release \/ Wipes \/ Partitions
  BY <1>1, <1>3, UnmountsInv, ReleaseInv, WipesInv, PartitionsInv DEF IInv
<1>4. CASE PartitioningFails \/ ChecksLayout \/ pacstrap \/ PacstrapAgain
  BY <1>1, <1>4, EndsInv, ChecksLayoutInv, GoesOnInv, OthersKeepErased DEF IInv
<1>5. CASE Filesystems
  BY <1>1, <1>5, FilesystemsInv, SetUpKeepsErased DEF IInv
<1>6. CASE configure \/ bootloader
  BY <1>1, <1>6, configureInv, bootloaderInv, OthersKeepErased DEF IInv
<1>7. CASE Fails \/ OpensAgain
  BY <1>1, <1>7, EndsInv, OthersKeepErased DEF IInv
<1>8. CASE PowerCut \/ Reboot
  <2>1. ErasedWhenFree'
    BY <1>8, ErasedAfterRestart DEF PowerCut, Reboot, disks
  <2>2. QED  BY <1>1, <1>8, <2>1, EndsInv, RebootsInv DEF IInv
<1>9. CASE BootsAgain \/ Enrolment
  BY <1>1, <1>9, RebootsInv, EnrolmentInv, OthersKeepErased DEF IInv
<1>10. QED
  BY <1>2, <1>3, <1>4, <1>5, <1>6, <1>7, <1>8, <1>9 DEF Next, Proceeds, Erase

LEMMA StutterInv == ASSUME IInv, UNCHANGED vars PROVE IInv'
<1> USE DEF vars, program, disks, kernel
<1>1. TypeOK' /\ Bootable'
  BY DEF IInv, TypeOK, Bootable, Tracked, NoOneTimeSlot
<1>2. Releasing'
  <2>1. Past' = Past /\ Chosen' = Chosen /\ Current' = Current
    BY DEF Past, Chosen, Current
  <2>2. \A d : InUse(d)' = InUse(d)
    BY DEF InUse, OnDisk, MapsOf, MountsOf
  <2>3. QED  BY <2>1, <2>2 DEF IInv, Phases, Releasing
<1>3. \A d : Unused(d)' = Unused(d)
  BY DEF Unused, Needs
<1>4. NewLayout'
  <2>1. Past' = Past /\ Chosen' = Chosen /\ Current' = Current
    BY DEF Past, Chosen, Current
  <2>2. \A d : /\ Wiped(d)' = Wiped(d) /\ Erased(d)' = Erased(d)
              /\ LooksRight(d)' = LooksRight(d) /\ Wanted(d)' = Wanted(d)
    BY <1>3 DEF Wiped, Erased, Wanted, LooksRight, Parts
  <2>3. QED  BY <2>1, <2>2 DEF IInv, Phases, NewLayout
<1>5. Mappings' /\ Slots' /\ NewRoot'
  BY <1>3, SameAnswers DEF IInv, Phases, Mappings, Slots, NewRoot
<1>6. ErasedWhenFree'
  BY ErasedKept
<1>7. QED  BY <1>1, <1>2, <1>4, <1>5, <1>6 DEF IInv, Phases

(* What each phase of an installation has established holds in every       *)
(* state: what is free, erased and laid out, mapped, which keys open what, *)
(* and of every root that boots, that its one-time keys are tracked.       *)
THEOREM InstallationInvariant == Spec => []IInv
<1>1. Init => IInv
  BY InitInv
<1>2. IInv /\ [Next]_vars => IInv'
  BY NextInv, StutterInv
<1>3. QED  BY <1>1, <1>2, PTL DEF Spec

(* The state keeps its types.                                              *)
THEOREM TypeCorrect == Spec => []TypeOK
<1>1. IInv => TypeOK
  BY DEF IInv
<1>2. QED  BY <1>1, InstallationInvariant, PTL

(* wipefs runs on no disk that the old system, an earlier attempt or a     *)
(* mount still uses by anything releaseDisk has a command for, with any    *)
(* layers of volumes on any disks: what is in use and can be removed is on *)
(* the rest of lsblk's list until it is visited, and the list of a later   *)
(* disk brings nothing back on an earlier one.                             *)
THEOREM DisksAreErasedWhenFree == Spec => []ErasedWhenFree
<1>1. IInv => ErasedWhenFree
  BY DEF IInv
<1>2. QED  BY <1>1, InstallationInvariant, PTL

(* Formatting goes to the partitions of this attempt: checkLayout asks the *)
(* kernel and nothing changes the tables behind it.                        *)
THEOREM NewLayoutIsFormatted == Spec => []FormatsNewLayout
<1>1. ASSUME IInv PROVE FormatsNewLayout
  <2> SUFFICES ASSUME pc \in {"luks", "open", "addkey", "mkfs", "prepare", "map", "mount"}
               PROVE  /\ seen[ch.system] = "system" /\ table[ch.system] = "system"
                      /\ ch.data # None => Parts(ch.data) = 1 /\ table[ch.data] = "data"
    BY DEF FormatsNewLayout
  <2>1. \A d \in Chosen : table[d] = Wanted(d) /\ LooksRight(d)
    BY <1>1 DEF IInv, Phases, NewLayout, Partitioned, Formatting, Filling
  <2>2. ch.system \in Chosen /\ (ch.data # None => ch.data \in Chosen /\ ch.data # ch.system)
    BY <1>1, ChosenDisks, Answers DEF IInv
  <2>3. QED  BY <2>1, <2>2 DEF Wanted, LooksRight
<1>2. QED  BY <1>1, InstallationInvariant, PTL

(* An installation that says it is done has everything it needs to boot:   *)
(* each key file opens its container, the enrolment unit is there exactly  *)
(* when the TPM is to unlock the disk, and Reboot closes what was mapped.  *)
THEOREM InstalledSystemIsComplete == Spec => []InstalledIsComplete
<1>1. ASSUME IInv PROVE InstalledIsComplete
  <2> SUFFICES ASSUME pc = "installed"
               PROVE  LET new == root[ch.system] IN
                      /\ new.boots /\ new.data = ch.data
                      /\ (keys[ch.system] # {}) = Encrypted
                      /\ FirstBootKeys(ch.system) \subseteq keys[ch.system]
                      /\ (ch.enc = "tpm") = (FirstBootKeys(ch.system) # {} /\ new.unit)
                      /\ (ch.data # None /\ Encrypted) => keys[ch.data] \cap new.files # {}
                      /\ \A m \in Mapper : open[m] \in Chosen => m \in state.mapped
    BY DEF InstalledIsComplete
  <2>1. /\ root[ch.system].boots /\ root[ch.system].data = ch.data
        /\ keys[ch.system] = SystemKeys
        /\ root[ch.system].files = OneTimeKey \cup DataKey
        /\ root[ch.system].unit = (ch.enc = "tpm")
        /\ ch.data # None => DataKey \subseteq keys[ch.data]
    BY <1>1 DEF IInv, Phases, NewRoot, Slots, Filling
  <2>2. \A k \in DataKey : k[1] # "firstboot"
    BY DEF DataKey
  <2>3. \A k \in OneTimeKey : k[1] = "firstboot"
    BY DEF OneTimeKey
  <2>4. FirstBootKeys(ch.system) = OneTimeKey
    BY <2>1, <2>2, <2>3 DEF FirstBootKeys
  <2>5. (SystemKeys # {}) <=> Encrypted
    BY DEF SystemKeys, OneTimeKey, Encrypted
  <2>6. (ch.enc = "tpm") <=> (OneTimeKey # {} /\ ch.enc = "tpm")
    BY DEF OneTimeKey
  <2>7. (ch.data # None /\ Encrypted) => keys[ch.data] \cap root[ch.system].files # {}
    BY <2>1 DEF DataKey
  <2>8. \A m \in Mapper : open[m] \in Chosen => m \in state.mapped
    BY <1>1 DEF IInv, Phases, Mappings
  <2>9. FirstBootKeys(ch.system) \subseteq keys[ch.system]
    BY <2>1, <2>4 DEF SystemKeys
  <2>10. (keys[ch.system] # {}) = Encrypted
    BY <2>1, <2>5 DEF Encrypted
  <2>11. (ch.enc = "tpm") = (FirstBootKeys(ch.system) # {} /\ root[ch.system].unit)
    BY <2>1, <2>4, <2>6
  <2>12. QED  BY <2>1, <2>7, <2>8, <2>9, <2>10, <2>11
<1>2. QED  BY <1>1, InstallationInvariant, PTL

(* While the slot of a one-time key exists on the server's disk, its file  *)
(* and the unit that removes it exist too, wherever power failed in the    *)
(* unit and however often it ran.                                          *)
THEOREM OneTimeKeyStaysTracked == Spec => []OneTimeKeyIsTracked
<1>1. IInv => OneTimeKeyIsTracked
  BY DEF IInv, Bootable, Tracked, OneTimeKeyIsTracked
<1>2. QED  BY <1>1, InstallationInvariant, PTL

----------------------------------------------------------------------------
\* Installation implements Installer.

LEMMA Calls ==
  /\ CallAt("idle") = "none" /\ CallAt("failed") = "error" /\ CallAt("installed") = "ok"
  /\ \A p \in {"umount", "lsblk", "release"} : CallAt(p) = "releasing"
  /\ \A p \in Partitioned \cup {"wipe", "partition"} : CallAt(p) = "writing"
  /\ \A p \in Server : CallAt(p) = "server"
BY DEF CallAt, Installing, Partitioned, Formatting, Filling, Server

LEMMA ServiceWants ==
  ASSUME TypeOK
  PROVE  /\ Service!Wanted = Chosen /\ Answered.system = ch.system
         /\ Answered \in Service!Answers
<1>1. Answered.system = ch.system /\ Answered.others = {ch.data} \ {None}
  BY DEF Answered
<1>2. Answered.system \in Disk /\ Answered.others \in SUBSET Disk
  BY <1>1, Answers
<1>3. Answered.system \notin Answered.others
  BY <1>1, Answers
<1>4. Answered \in [system: Disk, others: SUBSET Disk]
  BY <1>2 DEF Answered
<1>5. Answered \in Service!Answers
  BY <1>3, <1>4 DEF Service!Answers
<1>6. QED  BY <1>1, <1>5 DEF Service!Wanted, Chosen

LEMMA ViewKept ==
  /\ UNCHANGED ch => Answered' = Answered
  /\ UNCHANGED <<table, keys, root>> => Written' = Written
  /\ UNCHANGED root => Starting' = Starting
BY DEF Answered, Written, Starting, Needs

\* Which disks a step writes.
LEMMA WritesOnly ==
  ASSUME TypeOK', NEW W,
         \A d \in Disk \ W : /\ table'[d] = table[d] /\ keys'[d] = keys[d]
                             /\ root'[d].files = root[d].files /\ root'[d].unit = root[d].unit
  PROVE  Service!Touches(W)
<1>1. Written' \in [Disk -> DiskContent]
  BY DEF TypeOK, Written, DiskContent, Root
<1>2. \A d \in Disk \ W : Written'[d] = Written[d]
  BY DEF Written
<1>3. QED  BY <1>1, <1>2 DEF Service!Touches

LEMMA StartsAre ==
  ASSUME NEW d \in Disk
  PROVE  Starting[d] = IF root[d].boots THEN Needs(d) ELSE {}
BY DEF Starting

\* Steps that only lead from one moment of the call to another.
LEMMA Advances ==
  ASSUME UNCHANGED <<table, keys, root, ch, from>>,
         \/ CallAt(pc) \in {"none", "error"} /\ CallAt(pc') = "releasing"
         \/ CallAt(pc) = "releasing" /\ CallAt(pc') \in {"writing", "error"}
  PROVE  Service!Next
<1>1. UNCHANGED <<Answered, Written, Starting, from>>
  BY ViewKept
<1>2. CASE CallAt(pc) \in {"none", "error"} /\ CallAt(pc') = "releasing"
  BY <1>1, <1>2 DEF Service!Installs, Service!Next
<1>3. CASE CallAt(pc) = "releasing" /\ CallAt(pc') \in {"writing", "error"}
  BY <1>1, <1>3 DEF Service!Releases, Service!Next
<1>4. QED  BY <1>2, <1>3

LEMMA StaysPut ==
  ASSUME UNCHANGED <<table, keys, root, ch, from>>, CallAt(pc') = CallAt(pc)
  PROVE  UNCHANGED Service!vars
BY ViewKept DEF Service!vars

\* Releasing a disk writes nothing, and may end the call.
LEMMA ReleaseImplements ==
  ASSUME TypeOK, Unmounts \/ Release
  PROVE  [Service!Next]_(Service!vars)
<1>1. /\ pc \in {"umount", "lsblk", "release"}
      /\ pc' \in {"lsblk", "release", "wipe", "failed"}
      /\ UNCHANGED <<table, keys, root, ch, from>>
  <2>1. CASE Unmounts \/ ListsDevices \/ ReleaseEnds
    BY <2>1 DEF Unmounts, ListsDevices, ReleaseEnds, disks, kernel
  <2>2. CASE UnmountsOld \/ RemovesDevice \/ RemovalFails \/ PassesDevice
    <3>1. PICK e \in listed : Visits(e)
      BY <2>2 DEF UnmountsOld, RemovesDevice, RemovalFails, PassesDevice
    <3>2. pc' \in {"release", "failed"} \/ pc' = pc
      BY <2>2 DEF UnmountsOld, RemovesDevice, RemovalFails, PassesDevice, Then, Succeeds
    <3>3. QED  BY <3>1, <3>2 DEF Visits, disks
  <2>3. QED  BY <2>1, <2>2 DEF Release
<1>2. CASE pc' \in {"lsblk", "release"}
  BY <1>1, <1>2, Calls, StaysPut
<1>3. CASE pc' \in {"wipe", "failed"}
  BY <1>1, <1>3, Calls, Advances
<1>4. QED  BY <1>1, <1>2, <1>3

(* Wiping a disk ends every server that needs it.                          *)
LEMMA WipesImplement ==
  ASSUME TypeOK, TypeOK', Phases, Wipes
  PROVE  Service!Next
<1>1. PICK d \in Current :
        /\ table' = [table EXCEPT ![d] = "none"]
        /\ keys' = [keys EXCEPT ![d] = {}]
        /\ root' = Without(d)
  BY DEF Wipes
<1>2. pc = "wipe" /\ pc' \in {"partition", "failed"} /\ UNCHANGED <<ch, from>>
  BY DEF Wipes, Then, Succeeds, program, kernel
<1>3. d \in Chosen /\ d \in Disk /\ d \in Service!Wanted
  BY <1>1, <1>2, ServiceWants, ChosenDisks, OneCurrent DEF Phases, Releasing
<1>4. CallAt(pc) = "writing" /\ CallAt(pc') \in {"writing", "error"}
  BY <1>2, Calls
<1>5. /\ \A e \in Disk \ {d} : /\ root'[e].data = root[e].data
                              /\ root'[e].files = root[e].files /\ root'[e].unit = root[e].unit
      /\ \A e \in Disk : root'[e].boots <=> (root[e].boots /\ d \notin Needs(e))
      /\ \A e \in Disk : root'[e].boots => Needs(e)' = Needs(e)
  BY <1>1, <1>3, WithoutDisk
<1>6. Service!Touches({d})
  BY <1>1, <1>5, WritesOnly DEF TypeOK
<1>7. Starting' = [e \in Disk |-> IF d \in Starting[e] THEN {} ELSE Starting[e]]
  <2>1. ASSUME NEW e \in Disk
        PROVE  Starting'[e] = IF d \in Starting[e] THEN {} ELSE Starting[e]
    <3>1. CASE root'[e].boots
      BY <1>5, <2>1, <3>1 DEF Starting
    <3>2. CASE ~root'[e].boots
      BY <1>5, <2>1, <3>2 DEF Starting
    <3>3. QED  BY <3>1, <3>2
  <2>2. QED  BY <2>1 DEF Starting
<1>8. Service!Erases(d)
  BY <1>4, <1>6, <1>7, <1>2, ViewKept DEF Service!Erases
<1>9. QED  BY <1>3, <1>8 DEF Service!Next

\* Commands of the installation that leave no server starting or stopping.
LEMMA WritesImplement ==
  ASSUME TypeOK, TypeOK', pc \in Partitioned \cup {"wipe", "partition"},
         pc' \in Partitioned \cup {"wipe", "partition", "failed"},
         UNCHANGED <<ch, from>>, Starting' = Starting,
         \A d \in Disk \ Chosen : table'[d] = table[d] /\ keys'[d] = keys[d] /\ root'[d] = root[d]
  PROVE  Service!Next
<1>1. CallAt(pc) = "writing" /\ CallAt(pc') \in {"writing", "error"}
  BY Calls
<1>2. Service!Touches(Service!Wanted)
  BY WritesOnly, ServiceWants
<1>3. Service!Writes
  BY <1>1, <1>2, ViewKept DEF Service!Writes
<1>4. QED  BY <1>3 DEF Service!Next

LEMMA EraseImplements ==
  ASSUME TypeOK, TypeOK', Phases, Erase
  PROVE  Service!Next
<1>1. CASE Partitions
  <2>1. PICK d \in Current : table' = [table EXCEPT ![d] = Wanted(d)]
    BY <1>1 DEF Partitions
  <2>2. /\ pc = "partition" /\ pc' \in {"check", "wipe", "failed"}
        /\ UNCHANGED <<ch, from, keys, root>>
    BY <1>1 DEF Partitions, Then, Succeeds
  <2>3. d \in Chosen
    BY <2>2, OneCurrent DEF Phases, Releasing
  <2>4. \A e \in Disk \ Chosen : table'[e] = table[e]
    BY <2>1, <2>3 DEF TypeOK
  <2>5. QED  BY <2>2, <2>4, WritesImplement, ViewKept DEF Partitioned
<1>2. CASE PartitioningFails
  <2>1. /\ pc = "partition" /\ pc' = "failed"
        /\ UNCHANGED <<ch, from, table, keys, root>>
    BY <1>2 DEF PartitioningFails, program, disks, kernel
  <2>2. QED  BY <2>1, WritesImplement, ViewKept
<1>3. QED  BY <1>1, <1>2, WipesImplement DEF Erase

LEMMA RootUnstarted ==
  ASSUME TypeOK, NEW d \in Disk, NEW r, ~root[d].boots, ~r.boots,
         root' = [root EXCEPT ![d] = r]
  PROVE  Starting' = Starting
<1>1. ASSUME NEW e \in Disk PROVE Starting'[e] = Starting[e]
  <2>1. CASE e = d
    BY <2>1 DEF Starting, TypeOK
  <2>2. CASE e # d
    BY <2>2 DEF Starting, Needs, TypeOK
  <2>3. QED  BY <2>1, <2>2
<1>2. QED  BY <1>1 DEF Starting

LEMMA FilesystemsImplement ==
  ASSUME IInv, TypeOK', Filesystems
  PROVE  Service!Next
<1>1. pc \in {"luks", "open", "addkey", "mkfs", "prepare", "map", "mount"}
  BY DEF Filesystems, FormatsContainer, NameTaken, OpensRoot, addFirstBootKey,
         MakesFilesystems, PreparesData, MapsData, Mounts
<1>2. pc' \in Partitioned \cup {"failed"}
  BY DEF Filesystems, FormatsContainer, NameTaken, OpensRoot, addFirstBootKey,
         MakesFilesystems, PreparesData, MapsData, Mounts, Then, Succeeds,
         Partitioned, Formatting, Filling
<1>3. UNCHANGED <<ch, from, table>>
  BY DEF Filesystems, FormatsContainer, NameTaken, OpensRoot, addFirstBootKey,
         MakesFilesystems, PreparesData, MapsData, Mounts, program, disks, kernel
<1>4. \A d \in Disk \ Chosen : d # ch.system /\ d # ch.data
  BY InstallationConstants DEF Chosen
<1>5. \A d \in Disk \ Chosen : keys'[d] = keys[d]
  BY <1>4 DEF Filesystems, FormatsContainer, NameTaken, OpensRoot, addFirstBootKey,
         MakesFilesystems, PreparesData, MapsData, Mounts, disks, IInv, TypeOK
<1>6. Starting' = Starting /\ \A d \in Disk \ Chosen : root'[d] = root[d]
  <2>1. CASE MakesFilesystems
    <3>1. root' = [root EXCEPT ![ch.system] = NoRoot] /\ pc = "mkfs" /\ ~NoRoot.boots
      BY <2>1 DEF MakesFilesystems, NoRoot
    <3>2. ~root[ch.system].boots /\ ch.system \in Disk
      BY <3>1, ChosenDisks DEF IInv, Phases, NewRoot, Partitioned, Unused, Needs
    <3>3. Starting' = Starting
      BY <3>1, <3>2, RootUnstarted DEF IInv
    <3>4. QED  BY <1>4, <3>1, <3>3 DEF IInv, TypeOK
  <2>2. CASE ~MakesFilesystems
    <3>1. UNCHANGED root
      BY <2>2 DEF Filesystems, FormatsContainer, NameTaken, OpensRoot, addFirstBootKey,
         PreparesData, MapsData, Mounts, disks
    <3>2. QED  BY <3>1, ViewKept
  <2>3. QED  BY <2>1, <2>2
<1>7. pc \in Partitioned
  BY <1>1 DEF Partitioned, Formatting, Filling
<1>8. QED
  BY <1>2, <1>3, <1>5, <1>6, <1>7, WritesImplement DEF IInv

LEMMA OthersImplement ==
  ASSUME IInv, TypeOK', ChecksLayout \/ pacstrap \/ PacstrapAgain \/ configure
  PROVE  Service!Next
<1>1. /\ pc \in {"check", "pacstrap", "configure"} /\ pc \in Partitioned
      /\ pc' \in Partitioned \cup {"failed"}
      /\ UNCHANGED <<ch, from, table, keys>>
  BY DEF ChecksLayout, pacstrap, PacstrapAgain, configure, Then, Succeeds,
         Partitioned, Formatting, Filling, program, disks, kernel
<1>2. Starting' = Starting /\ \A d \in Disk \ Chosen : root'[d] = root[d]
  <2>1. CASE configure
    <3> DEFINE files == {<<"firstboot", n>> : n \in {state.firstBootKey} \ {0}}
                          \cup {<<"data", installs>> :
                                d \in {e \in {ch.data} \ {None} : Encrypted}}
               r == [data |-> ch.data, files |-> files,
                     unit |-> state.firstBootKey # 0, boots |-> FALSE]
    <3>a. root' = [root EXCEPT ![ch.system] = r]
      BY <2>1 DEF configure
    <3>b. ~r.boots
      OBVIOUS
    <3> HIDE DEF r
    <3>1. root' = [root EXCEPT ![ch.system] = r] /\ ~r.boots
      BY <3>a, <3>b
    <3>2. ~root[ch.system].boots /\ ch.system \in Disk /\ ch.system \in Chosen
      BY <1>1, ChosenDisks DEF IInv, Phases, NewRoot, Unused, Needs
    <3>3. Starting' = Starting
      BY <3>1, <3>2, RootUnstarted DEF IInv
    <3>4. QED  BY <3>1, <3>2, <3>3 DEF IInv, TypeOK
  <2>2. CASE ChecksLayout \/ pacstrap \/ PacstrapAgain
    BY <2>2, ViewKept DEF ChecksLayout, pacstrap, PacstrapAgain, disks
  <2>3. QED  BY <2>1, <2>2
<1>3. QED
  BY <1>1, <1>2, WritesImplement DEF IInv

(* The boot loader makes a server of the chosen disks.                     *)
LEMMA bootloaderImplements ==
  ASSUME IInv, TypeOK', bootloader
  PROVE  Service!Next
<1>1. /\ pc = "bootloader" /\ pc' \in {"installed", "failed"}
      /\ UNCHANGED <<ch, from, table, keys>>
  BY DEF bootloader, Then, Succeeds, program, kernel
<1>2. ch.system \in Disk /\ ch.system \in Chosen
  BY ChosenDisks DEF IInv
<1>3. /\ root'[ch.system].boots /\ root'[ch.system].data = ch.data
      /\ \A d \in Disk \ {ch.system} : root'[d] = root[d]
  BY <1>1, <1>2 DEF bootloader, IInv, TypeOK, Root, Phases, NewRoot
<1>4. Starting' = [Starting EXCEPT ![ch.system] = Chosen]
  <2>1. Starting'[ch.system] = Chosen
    BY <1>2, <1>3 DEF Starting, Needs, Chosen
  <2>2. \A d \in Disk \ {ch.system} : Starting'[d] = Starting[d]
    BY <1>3 DEF Starting, Needs
  <2>3. QED  BY <2>1, <2>2 DEF Starting
<1>5. \A d \in Disk : Starting[d] \cap Chosen = {}
  <2>1. \A c \in Chosen : Unused(c)
    BY <1>1 DEF IInv, Phases, NewRoot, Partitioned, Filling
  <2>2. QED  BY <2>1 DEF Starting, Unused
<1>6. Service!Touches({ch.system})
  BY <1>1, <1>3, WritesOnly
<1>7. Answered' = Answered
  BY <1>1, ViewKept
<1>8. CallAt(pc) = "writing" /\ CallAt(pc') \in {"ok", "error"}
  BY <1>1, Calls DEF Partitioned, Filling
<1>9. Service!Completes
  BY <1>1, <1>4, <1>5, <1>6, <1>7, <1>8, ServiceWants DEF Service!Completes, IInv
<1>10. QED  BY <1>9 DEF Service!Next

LEMMA FailsImplements ==
  ASSUME TypeOK, TypeOK', Fails
  PROVE  Service!Next
<1>1. pc \in Installing /\ pc' = "failed" /\ UNCHANGED <<ch, from, table, keys, root>>
  BY DEF Fails, program, disks, kernel
<1>2. CASE pc \in {"umount", "lsblk", "release"}
  BY <1>1, <1>2, Calls, Advances
<1>3. CASE pc \notin {"umount", "lsblk", "release"}
  <2>1. pc \in Partitioned \cup {"wipe", "partition"}
    BY <1>1, <1>3 DEF Installing, Partitioned, Formatting, Filling
  <2>2. QED  BY <1>1, <2>1, WritesImplement, ViewKept
<1>4. QED  BY <1>2, <1>3

LEMMA LeavesImplements ==
  ASSUME TypeOK, TypeOK', OpensAgain \/ PowerCut
  PROVE  Service!Next
<1>1. /\ pc \notin Server /\ pc' = "idle" /\ UNCHANGED <<from, table, keys, root>>
  BY DEF OpensAgain, PowerCut, disks, kernel, Server, Installing
<1>2. CallAt(pc) # "server" /\ CallAt(pc') = "none"
  BY <1>1, Calls DEF CallAt, TypeOK, Installing
<1>3. Answered' \in Service!Answers
  <2>1. ch' \in Choices
    BY DEF TypeOK
  <2>2. /\ Answered'.system \in Disk /\ Answered'.others \in SUBSET Disk
        /\ Answered'.system \notin Answered'.others
    BY <2>1 DEF Answered, Choices
  <2>3. QED  BY <2>2 DEF Answered, Service!Answers
<1>4. UNCHANGED <<Written, Starting>>
  BY <1>1, ViewKept
<1>5. Service!Leaves
  BY <1>1, <1>2, <1>3, <1>4 DEF Service!Leaves
<1>6. QED  BY <1>5 DEF Service!Next

LEMMA RebootImplements ==
  ASSUME TypeOK, Reboot
  PROVE  Service!Next
<1>1. /\ pc \in {"installed", "failed"} /\ pc' = "boot" /\ UNCHANGED <<ch, table, keys, root>>
      /\ from' \in Disk /\ root[from'].boots
  BY DEF Reboot, program, disks
<1>2. Starting[from'] # {}
  BY <1>1 DEF Starting, Needs
<1>3. CallAt(pc) \in {"ok", "error"} /\ CallAt(pc') = "server"
  BY <1>1, Calls DEF Server
<1>4. Service!Boots
  BY <1>1, <1>2, <1>3, ViewKept DEF Service!Boots
<1>5. QED  BY <1>4 DEF Service!Next

\* A server writes its own disk only.
LEMMA ServerImplements ==
  ASSUME IInv, TypeOK', Enrolment \/ BootsAgain
  PROVE  Service!Next
<1>1. pc \in Server /\ pc' \in Server /\ UNCHANGED <<ch, from, table>>
  BY DEF Enrolment, Boots, Enrolls, EnrolmentFails, Revokes, Forgets, Disables, BootsAgain,
         Server, program, disks, kernel
<1>2. from \in Disk
  BY <1>1 DEF IInv, Bootable
<1>3. \A d \in Disk \ {from} : keys'[d] = keys[d] /\ root'[d] = root[d]
  BY <1>2 DEF Enrolment, Boots, Enrolls, EnrolmentFails, Revokes, Forgets, Disables, BootsAgain,
         disks, IInv, TypeOK
<1>4. root'[from].boots = root[from].boots /\ root'[from].data = root[from].data
  BY <1>2 DEF Enrolment, Boots, Enrolls, EnrolmentFails, Revokes, Forgets, Disables, BootsAgain,
         disks, IInv, TypeOK, Root
<1>5. Starting' = Starting
  <2>1. \A d \in Disk : root'[d].boots = root[d].boots /\ root'[d].data = root[d].data
    BY <1>3, <1>4
  <2>2. \A d \in Disk : Needs(d)' = Needs(d)
    BY <2>1 DEF Needs
  <2>3. QED  BY <2>1, <2>2 DEF Starting
<1>6. Service!Touches({from})
  BY <1>1, <1>3, WritesOnly
<1>7. CallAt(pc) = "server" /\ CallAt(pc') = "server"
  BY <1>1, Calls
<1>8. Service!Runs
  BY <1>1, <1>5, <1>6, <1>7, ViewKept DEF Service!Runs
<1>9. QED  BY <1>8 DEF Service!Next

LEMMA StepImplementsService ==
  ASSUME IInv, TypeOK', Next
  PROVE  [Service!Next]_(Service!vars)
<1>1. CASE Starts \/ Retries
  <2>1. pc \in {"idle", "failed"} /\ pc' = "umount" /\ UNCHANGED <<ch, from, table, keys, root>>
    BY <1>1 DEF Starts, Retries, Install, disks, kernel
  <2>2. QED  BY <2>1, Calls, Advances
<1>2. CASE Unmounts \/ Release
  BY <1>2, ReleaseImplements DEF IInv
<1>3. CASE Erase
  BY <1>3, EraseImplements DEF IInv
<1>4. CASE Filesystems
  BY <1>4, FilesystemsImplement
<1>5. CASE ChecksLayout \/ pacstrap \/ PacstrapAgain \/ configure
  BY <1>5, OthersImplement
<1>6. CASE bootloader
  BY <1>6, bootloaderImplements
<1>7. CASE Fails \/ OpensAgain \/ PowerCut \/ Reboot
  BY <1>7, FailsImplements, LeavesImplements, RebootImplements DEF IInv
<1>8. CASE Enrolment \/ BootsAgain
  BY <1>8, ServerImplements
<1>9. QED
  BY <1>1, <1>2, <1>3, <1>4, <1>5, <1>6, <1>7, <1>8 DEF Next, Proceeds

(* What Install does to the disks, command by command, with every failure  *)
(* and power cut, is what it promises: nothing is written before the       *)
(* release of all that was chosen has ended, then only chosen disks are, a *)
(* server that needs none of them keeps starting and one that does never   *)
(* starts half-erased, and the call ends well only with a server on        *)
(* everything chosen.                                                      *)
THEOREM InstallationImplementsInstaller == Spec => ImplementsInstaller
<1>1. Init => Service!Init
  <2> SUFFICES ASSUME Init PROVE Service!Init
    OBVIOUS
  <2>1. TypeOK
    BY InitInv DEF IInv
  <2>2. CallAt(pc) = "none" /\ Answered \in Service!Answers
    BY <2>1, Calls, ServiceWants DEF Init
  <2>3. Written \in [Disk -> DiskContent]
    BY <2>1 DEF TypeOK, Written, DiskContent, Root
  <2>4. Starting = [d \in Disk |-> {}]
    BY DEF Init, Starting, NoRoot
  <2>5. from \notin Disk
    BY InstallationConstants DEF Init
  <2>6. QED  BY <2>2, <2>3, <2>4, <2>5 DEF Service!Init
<1>2. IInv /\ IInv' /\ [Next]_vars => [Service!Next]_(Service!vars)
  <2> SUFFICES ASSUME IInv, IInv', [Next]_vars PROVE [Service!Next]_(Service!vars)
    OBVIOUS
  <2>1. CASE Next
    BY <2>1, StepImplementsService DEF IInv
  <2>2. CASE UNCHANGED vars
    BY <2>2, StaysPut DEF vars, program, disks, kernel
  <2>3. QED  BY <2>1, <2>2
<1>3. QED
  BY <1>1, <1>2, InstallationInvariant, PTL DEF Spec, ImplementsInstaller, Service!Spec
=============================================================================
