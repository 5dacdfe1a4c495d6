# dryserver in TLA+

dryserver turns old laptops into a small mesh of servers. A desktop builds an
installer USB stick; a laptop booted from it is wiped and installed, as the
coordinator or as a server; servers join a WireGuard mesh after an admin has
approved them on the coordinator; a timer keeps every server's view of the
mesh equal to the coordinator's member list. Paths below are relative to `src/`.

This directory holds TLA+ modules translated from the Go code, TLC
configurations that check them on small instances, and TLAPS proofs. Section 1
is the inventory of the system, section 2 the modules and how they correspond
to the code, section 3 the runs, section 4 the assumptions on scheduling,
section 5 the disagreements between code and documentation that came up, section
6 the proofs, section 7 what is left out, and section 8 the plan.

## 1. The system

| Component | State it keeps | Operations | Talks to |
|---|---|---|---|
| Registry state (`internal/registry/registry.go`) | members, join requests (age, status, host number) | AddRequest, RequestStatus, Approve, Reject, Remove, Heartbeat, prune | called inside Store.Update |
| Registry store (same file, `fixOwner` in `serve.go`) | `registry.json`, `.tmp`, `.lock`, their owners | Update, Read | processes of root and of the registry user |
| Registry protocol (`internal/registry/serve.go`) | none | request, status, peers | nodes, over SSH with a forced command |
| Joining (`internal/node`, `Real.Join` in `internal/install/steps.go`) | `join.json`, mesh config, two systemd units | Request, Wait, Activate, JoinLoop | registry protocol, systemd, admin |
| Sync (`internal/node/commands.go`, `internal/mesh`) | `wg0.conf`, the running interface | Sync, FetchMembers, Apply, reloadWG | registry protocol over the mesh itself |
| Path selection (`mesh.Endpoint`, `checkSwitch`, `netinfo.go`) | link flag and LAN address of each member, endpoints | PortLink, ping over the switch, heartbeat | cables, router, WireGuard roaming |
| Approval screen (`internal/tui/approve.go`) | snapshot, cursor, name to confirm | keys, ticks, snapshots | registry store |
| Setup screen (`internal/tui/setup.go`) | state of the session, answers, event channel | keys, messages of background calls | installer |
| Disk installation (`internal/install`) | mounts, mappings, partitions, install state | Install, releaseDisk, pacstrap, Reboot | external commands |
| TPM enrolment (`runTPMEnroll`, first-boot unit) | key slots, key file, unit | enrol, remove key | cryptsetup, systemd |
| USB flash (`internal/flash`, `internal/tui/flash.go`) | device, progress, event channel | Write, verify, cancel | kernel |
| Desktop menu (`internal/tui/app.go`), build screen (`internal/tui/build.go`) | screen in front, `config.env` as last read, form, build shown | choose, save, build, cancel, back | config file, ISO build, flash screen |
| ISO build (`internal/build`, `assets/archiso/build.sh`) | staged files, container, ISO | Run | podman, mkarchiso |
| Mesh addresses (`sysconf.HostAddr`, `mesh.HostOf`, subnet rules in `internal/config`) | none | number to address and back, Validate | registry, sync, every config |
| Scan (`runScan`, `scan.go`) | unknown devices in the registry | Read, much later Update | arp-scan, registry store |
| Config file, packages, disks, sysconf, export, runner, owner | none between calls | parse, render, run a command | |

What is hard about it:

- **Concurrency on one file.** Every SSH call, two timers and the screen
  load, change and save the registry from processes of two users.
- **Distributed joining.** Asking and learning of the decision are calls that
  may be lost, hours apart, across an installer that may be left and a service
  that restarts at every boot. Requests expire meanwhile, members are
  removed, host numbers are given out again.
- **A mesh that distributes its own configuration.** A node asks for the list
  through the tunnel the last list configured, and the coordinator knows it
  by an address that its own last sync loaded.
- **Paths.** The link flags and addresses that choose a path travel over that
  path.
- **Screens.** Keys act on snapshots that goroutines replace; messages of
  background calls are handled whatever screen is shown.
- **Messages that close whatever is open.** On the desktop a screen is left by
  a message; a second one closes the screen opened meanwhile, and a build goes on
  unseen, and so does the container of a cancelled one that `podman stop` did not reach. What the menu says of the ISO rests on two times it read before.
- **Half-done installations.** Any command of the installer may fail or be
  killed, and the next attempt starts on what it left: mounts, mappings, key slots,
  a partition table the kernel has not read.

What makes each component correct:

- Registry: members stay distinct, a waiting request stays approvable, a
  decision is final and names the right host number.
- Store: no lost update, no torn or unreachable file, no lock that stays.
- Joining: a machine takes a host number only on an approval of its own, its
  config agrees with the member list, an approved machine gets onto the mesh.
- Sync: no address with two keys, a removed machine is dropped, members connect.
- Paths: every pair of servers ends up on a path that works both ways.
- Approval screen: what a key does is what the admin decided; the screen
  shows the registry.
- Setup screen: no message of one attempt reaches another, what is erased is
  what was checked and confirmed, and never again after it was installed.
- Installation: disks are erased when what can be released of them is, and formatted in the new layout, a
  retry gets through whatever the failed attempt left, what counts as installed opens.
- TPM enrolment: the one-time key never stays behind, enrolment happens in the end.
- USB flash: success means that the image is on the stick, only a stick like the
  chosen one is written, flashing ends.
- Desktop menu and ISO build: what is in the ISO was valid, the menu says when it is outdated, a
  success is the success of the build shown, a build ends.
- Addresses: distinct host numbers have distinct addresses in their subnet, and none
  is the coordinator's at the router.
- Scan: its two calls of the store, a probe of seconds apart, lose nobody else's update.

## 2. The modules

`RegistryOps` is a module of operators only: the records of the registry and,
one operator per rule of `registry.go`, how a request table or a member list
is computed from another. The modules that change a registry build on it.

`Registry` makes every operation of `State` one step. A request's age is a
number that `Tick` advances (`Grow`) up to `RequestTTL`; `Prune` drops what is older
wherever the code calls `prune` — in AddRequest and RequestStatus, and not in
Approve. Calls that return an error save nothing and are no steps. `id` in
AddRequest is the identifier the call returns, that of the stored request
when the machine asked before (`Repeated`).

`RegistryStore` is `Store.Update` system call by system call: open or create the lock file,
`fixOwner` of it, lock, load, the caller's function, truncate and write the temporary file,
`fixOwner` of that, rename, unlock, with the error return of each (`Breaks`) and a crash between any two.
`MkdirAll` finds its directory and is one step with the opening. A lock file that root created and did not hand back
(`lockOwner`) keeps the registry user out as a temporary file does; the installer leaves one that the registry user owns
(`StoreInit`), so that this needs a directory restored without it. `Store.Read`
is an Update whose function leaves the state alone, as in the code; a `Reader` calls both, as
the scan does, which reads the members and much later saves its report. The
content of a file is the set of processes whose change it holds. Files of
mode 0600 have an owner, `MayOpen` says who can open them. `AtomicStore` is what
the callers rely on: an update is applied in one step between call and return,
or not at all. `RegistryStore` implements it under the mapping
`saved <- file.data`, `phase <- ` the phase of each call (`ImplementsAtomicStore`).

`Join` composes the registry (`R == INSTANCE Registry`) with the machines. Each
machine has a program counter for the procedure of `Real.Join` and `JoinLoop`
(`where` tells which of the two runs it), its `join.json` (`joined`), the host
number its mesh config was written for (`conf`) and two units (`joinUnit`,
`meshUnit`). An SSH call is a step of the coordinator, which leaves a reply, and a
step that reads it; `AskFails` and `StatusLost` lose a call before or after the
coordinator handled it. `Activate` is three steps in the order of the code,
each of which can be the last before a power cut or a failed command.
`approvals` is a history variable with the machines the admin approved, and `ask`
is what each laptop asks, chosen at the start.

`Mesh` composes the registry with the tables: `conf` is the peers in `wg0.conf`,
`live` those of the running interface, `fetched` what a running sync holds.
The coordinator lists from its registry, a node through its tunnel
(`Tunnel`, `Accepts`), where `Serve` takes the calling address for the member.

`Paths` keeps the members fixed and models endpoints: where each cable leads,
each node's LAN address, the transport of the config (`auto`), what the registry knows of both, and the endpoint of
each peer in the file and in the interface. `CutOff` is a node that has a new address it cannot tell. WireGuard's side (`Delivers`,
`Source`, `Keepalive`) and the world (`Replug`, `NewAddress`, `Reboot`) are external. The names of its
specification begin with `Paths`, because its proofs are in one module with those of `Desktop`.

`ApproveScreen` models the screen as its event loop: snapshots being read and under
way (`loads`), ticks, keys. `Looks` and the action of the key are two steps,
because a person needs a moment between them. `Elsewhere` is everything else
that changes the registry.

`SetupScreen` has the session of the installer USB: the screen shown, the answers
`ch` that the form changes in place, the background calls that run (`jobs`), the
channels they send to (`events`) and, for each channel, the wait commands that listen
on it (`waits`). A handler is one action: `Reported` is `stepMsg` and `joinCodeMsg`, which
wait again; `CheckEnds`, `InstallFails`, `InstallSucceeds` and `JoinEnds` are the
others, and like the code they do not look at the screen. `checked`, `confirmed`
and `installed` are history. Encryption, hostname and the passwords
are one flag, "filled in".

`Installation` has what `Real.Install` does to the disks. `pc` is the command that comes
next; every command may fail before it did anything (`Fails`) or count as failed
after it did everything (`Then`). The state is what survives an attempt: tables written
and tables the kernel knows (`table`, `seen`), volumes of an old system, mappings, mounts,
key slots and the root file system of every disk with its key files and the data disk its
fstab needs (`root`, `Needs`). Every disk can hold a server, of an earlier installation with other answers;
erasing a disk ends every server that needs it (`Without`), on whichever disk that server is. Releasing a disk is the walk of
`releaseDisk` over one `lsblk` list (`Listing`, `listed`), children first, by `On` and `Above`, the device graph of the
old system. As in the code it checks nothing at its end: a device of a type it has no command for is passed over (`PassesDevice`;
`Known` are the others), a volume on two partitions of a disk is listed, and taken apart, twice. `wipefs --force`
then erases whatever is in use (`Wipes`), and `sfdisk` is the first to refuse (`PartitioningFails`). Keys carry the number of the installation
that made them. After the reboot, from any disk that boots (`from`), the same module runs the first-boot unit of `runTPMEnroll`.
`SetupScreen` knows an installation as a call that ends well or not, `Installation`
knows the screen as somebody who starts it, retries it or leaves.

`Installer` is what the screen and the person in front of it may rely on: the call of Install (`call`), the
answers, what is on each disk (`content`), which disks the server on a disk needs (`server`) and the
one that runs. Nothing is written until the release of everything chosen has ended, then only on chosen disks; a server that needs one of
them never starts half-erased and all others keep starting; a call that ends well leaves a server on all
that was chosen. `Installation` implements it (`ImplementsInstaller`): the commands before `wipefs` map to `Releases` or
stutters, each disk wiped to `Erases`, the boot loader to `Completes`, all other commands to `Writes`.

`Flash` has the screen (`screen`, the list `usb`, `cursor`, `target`) and the goroutine that
writes (`pc` is its next call), joined by the channel `events`, and the world around
them: which disk is at which path (`port`), what is mounted (`use`). The program knows
a disk by path, size and model, the model by its identity; `Look` relates the two. `media` has the
chunks that are on a disk, `cached` what the kernel would return instead, `dirty` what it has yet to write.
An `unsent` progress report holds the goroutine up while the channel is full.
`CallFails` is every call that may fail at any time; a flush that fails is part of `Flushes`. `gone`
and `late` say that a stick was pulled while open and swapped before it was opened.

`Addresses` has the arithmetic: the network address, `HostAddr`, `HostOf`, the rules of
`ValidSubnet`, `ValidMeshSubnet`, `ValidSwitchSubnet`, and what the rest of the system takes for
granted of a config (`Sound`). An address is a number below `Width`. `HostOf` subtracts whole numbers where the code
subtracts bytes; `MCDesktop` has an assumption, evaluated by TLC, that the two agree.

`Desktop` is built on it: the program on the admin's desktop with its four screens (`screen`), what `refresh` last
read (`cfg`, `isoSeen`, `newerSeen`), the form, the build screen (`view`), the messages under way that
close a screen (`backs`), the goroutine of each build (`phase`), its channel (`lines`, `ended`, `waits`),
the staged files, the container and the ISO. The container is not `podman run`: a cancelled build
tries `podman stop` by name (`StopsContainer`, which may find none yet), and what does not end in time has `podman run`
killed (`KillsClient`) while the container goes on as nobody's, with the staged files it had read or an empty directory
(`RemovesStage`). As in the code a message acts on the screen in front:
`BackArrives` closes any screen, `Elsewhere` is a message of a build that finds another screen, and
a form that is through saves and goes back again on any message (`FormAgain`). `EditsByHand`
is somebody with an editor. Modification times are two facts: config newer than ISO (`newer`) and whether
the menu knows it. `left`, `edited`, `overtaken` and the ISO's `orphan` are history for the exceptions the properties name.

The operators whose name ends in an underscore and a word, marked "Mutant" in
their comment, are plausible mistakes; no specification uses them. Each shows
that a property would catch the mistake.

| Module | Code | MC module, proofs |
|---|---|---|
| `RegistryOps`, `Registry` | `registry.go:26-286` | `MCRegistry`, `RegistryOpsProofs`, `RegistryProofs` |
| `AtomicStore`, `RegistryStore` | `registry.go:288-344`, `serve.go:122-135` | `MCRegistryStore`, `RegistryProofs` |
| `Join` | `node.go:36-240`, `commands.go:26-94`, `steps.go:557-599`, `serve.go:30-88`, units in `sysconf.go` | `MCJoin`, `JoinProofs` |
| `Mesh` | `commands.go:96-186`, `node.go:242-278`, `mesh.go:31-88`, `serve.go:90-118` | `MCMesh`, `MeshProofs` |
| `Paths` | `mesh.go:52-64`, `commands.go:131-148`, `netinfo.go:64-74` | `MCPaths`, `ConfigProofs` |
| `ApproveScreen` | `approve.go` | `MCApproveScreen`, `JoinProofs` |
| `SetupScreen` | `setup.go:24-633`, `flash.go:132-134`, `precheck.go:28-97` and `179-216` as calls that report | `MCSetupScreen`, `SetupScreenProofs` |
| `Flash` | `flash.go`, `tui/flash.go` without the views, `disks.go:32-57` and `124-160` | `MCFlash`, `FlashProofs` |
| `Installation`, `Installer` | `steps.go:22-234`, `252-404`, `455-530`, `release.go`, `pacstrap.go:19-75`, `layout.go`, `main.go:258-293`, `tpmEnrollUnit` in `sysconf.go` | `MCInstallation`, `InstallationProofs` |
| `Addresses` | `sysconf.go:118-133`, `mesh.go:31-45`, `config.go:143-240`, `main.go:303-308` | `MCDesktop`, `ConfigProofs` |
| `Desktop` | `app.go`, `tui/build.go` without the views, `build.go:37-178`, `assets/archiso/build.sh`, `config.go:119-129` | `MCDesktop`, `ConfigProofs` |

## 3. The runs

Every run finishes within about three minutes on two workers.

| Run | Bounds | What it shows |
|---|---|---|
| `registry` | 5 possible requests over 3 names and 2 keys, 3 identifiers, 2 node host numbers, limit 2, lifetime 1 | three invariants of the registry and two action properties over every order of calls |
| `store` | a root process that updates and reads (the scan) and a registry-user process, 2 crashes | no torn or unreachable file whichever call fails, refinement of `AtomicStore`; the lock is released, a lock file or temporary file root left behind is handed back |
| `join` | 2 machines under one name or two, 3 identifiers, 2 ticks, 1 fault | only an approved machine takes a host number; configs, host numbers and member list agree through loss, expiry, removal, faults |
| `join_live` | 2 machines, no expiry, 1 power cut outside the activation | approved machines join; a lost request is found again |
| `join_expired` | 1 machine, 2 ticks | the finding of section 5 |
| `mesh` | 2 machines, 2 node host numbers, 1 fault | no address with two keys, nobody its own peer; removed machines are dropped, members connect |
| `paths` | 2 nodes and the coordinator, either transport, every start with `auto`, 2 replugs, reboots or new addresses | working paths both ways in the end |
| `screen` | 2 requests, 2 snapshots under way, 3 events | a removal removes who was named; the screen ends up showing the registry |
| `setup` | 2 disks, channels of 1 message, 2 reports per call, 4 checks and installations | messages and screens agree, the disk erased was confirmed, no second installation, every call gets off its screen |
| `install` | 2 disks, a volume listed twice on a container or on a device of an unknown type, 2 faults, 6 installations | disks released when erased, new layout when formatted, complete when installed, one-time key tracked, refinement of `Installer`; retries install, the TPM is enrolled |
| `flash` | 3 disks, two alike, one bad; 2 paths, 3 chunks, a flush after 2, a channel of 1 message, 2 events | success is the image on the stick, the stick written is one like the chosen and not mounted, flashing ends |
| `desktop` | 32 addresses in networks of 8 and 16, 3 configs, 1 build, a channel of 1 message, 2 messages under way that close a screen, 1 once a build was left, edits by hand until then | no ISO with addresses that clash, an outdated ISO is marked, a success is that of the build shown, a build ends |

Why the bounds are enough for what they are meant to reach: two machines
are the least for a collision (name, key, host number, queue), and no rule of
the code relates three. Two node host numbers let both be members, and after a removal the
second gets the first's number. A lifetime of one tick and two ticks let a
request expire before and after any other step, and a second one after it.
One fault reaches every step of a joining or syncing machine, and tables of
different age exist without any, because every server syncs when it likes. Two snapshots under way can overtake
each other. A channel of one message and calls that report twice block as 64 and
hundreds would; four attempts are a check, a failed installation, a retry and one more. Two faults
break an attempt and its retry, or an attempt and the enrolment; a retry always starts from what one
attempt left, so more attempts add no new start. Three chunks with a flush after two have one chunk that
an early flush keeps, one at the flush, and one left to the last; two events pull a stick and put in another,
or mount one and move it; from one flashing to the next only what is on the sticks remains, which the next
overwrites. Of the three configs of `desktop` one has two neighbouring networks, one no
switch, and one is what only an editor can write: its mesh holds the switch network. Two moves of `paths` are what cuts a node off:
a new address and a cable pulled. Two closing messages are one for the
screen in front and one for the next; a build that was left has used up both, and from then on only `BuiltConfigIsSound` says
anything, to which neither editors' times nor more messages matter; a channel of one message holds a build up as 256 do. Two builds
at once need a build that was left, which the properties about screens except; for `BuiltConfigIsSound`
the proof covers any number. Request identifiers are interchangeable and are declared symmetric
in the runs that check safety only.

`CHECK_DEADLOCK FALSE` appears in the `Join` runs, where a machine on the mesh and
a closed registry have nothing left to do, in the `ApproveScreen` and
`SetupScreen` runs, where the program may have ended, in `install`, where the bound
on installations ends the retries, and in `flash`, where the program may have ended.

No run lists a type invariant: every module with a state states its own, and all but those of the two abstract
specifications, `AtomicStore` and `Installer`, are proved (section 6). Proved and not checked again by a run are also `HostIffApproved`,
`PendingNamesDistinct`, `NoStaleCopy`, `CursorIsOnAnItem` (`ApproveScreen`), `RunningBuildIsHeard` (`Desktop`) and
`LostOnTheSwitchOnly` (`Paths`); TLC found no counterexample to them within the bounds of their runs.

## 4. Fairness

- `RegistryStore`: a process that is in a call goes on, the lock is given to every
  waiting process in the end (`flock` queues waiters), timers call again. No system call of root fails for ever: the disk does
  not stay full, and `flock` on a local file fails only while the kernel is short of memory. A failing call is never required.
- `Join`: the installer and the service go on (systemd restarts
  a failed service after thirty seconds, `joinUnit` in `sysconf.go`), and a machine that is off is switched on. A machine that
  calls again and again reaches the coordinator and reads an answer again and
  again: strong fairness, because single calls may fail. Nothing is assumed of
  the admin, of the passing of time, or of faults, which are bounded.
- `Mesh` and `Paths`: `dryserver-sync.timer` runs on every server every minute. In `Mesh` a
  node whose tunnel comes and goes gets a call through (strong fairness); in `Paths` weak fairness is enough, and WireGuard sends its
  keepalives.
- `ApproveScreen`: the event loop delivers ticks and messages. Keys are not fair.
- `SetupScreen`: the event loop handles messages; checks and installations end because the
  commands they run do; joining ends when it is cancelled. Keys are not fair.
- `Installation`: commands end; a person starts the installation, presses r when it failed
  and enter when it is done, and restarts the server now and then. Faults are
  bounded. Closing and opening the setup, power cuts and faults are never required.
- `Flash`: the goroutine's system calls return, the event loop handles messages. Keys are not fair.
- `Desktop`: a build prints finitely often between two of its steps (strong fairness of `Progress`: printing
  takes turns with it), the container ends, `podman run` returns or is killed, the event loop handles messages. Keys are not fair.

## 5. Where code and documentation disagree

1. `join_expired`: `Wait` looks for "no such request" in output that cannot contain
   it (`node.go:187`, stderr is left out), so a machine polls for an expired request
   for ever, although `errExpired` says a new one is needed. The same holds for
   a request that was approved and expires before its machine asked, and
   for one that `Approve`, which does not prune, accepts after it expired: the machine
   is a member and never joins. `ApprovedJoins` is therefore checked with time kept still.

Others are visible in the modules and have no run of their own:

- `steps.go:557-559` says that a server whose joining does not finish keeps trying at boot. `Activate` saves
  the host number before the configs and units (`node.go:213`); after a fault in between, `JoinLoop` sees the
  host number and only disables itself. The mesh is never enabled. `join_live` therefore allows no fault there.
- A build uses the config that `refresh` read when the menu was last entered (`app.go:139`). If an editor writes
  `config.env` between that and the end of the build, the ISO is the newer file of the two, and the hint
  "config changed after build, rebuild" (`app.go:333`) stays away (`overtaken` in `Desktop`).
- "stop this container by name; podman run then exits and --rm cleans up" (`build.go:94-95`): a ctrl+c while
  `podman run` still fetches the image finds no container to stop, and `WaitDelay` (`build.go:99`) kills `podman run` only.
  If the container exists by then it goes on, and what it renames into place after another config was saved is the newer
  file, which the menu shows as ready without the hint (`orphan` in `Desktop`). A next build of the same program cannot start while it runs,
  because both have the same name.
- `releaseDisk` "stops everything the live system started on an old disk" (`release.go:33`), and counts the disk as released when
  its list is through (`release.go:53-81`). The switch has no default: a device of another type (dmraid, a partition mapping, bcache) stays active,
  `wipefs --force` (`steps.go:58`) erases the disk below it, and only `sfdisk` fails, at every retry (`PassesDevice` in `Installation`).
- Two messages that close a screen may be under way, from two keys or from a completed form that gets
  another message (`app.go:195-198`). The second closes the next screen; a build left so goes on, and once its
  channel holds 256 lines nobody reads it any more, which holds up `mkarchiso` (`build.go:62`; `left` in `Desktop`).
- The approval screen asks to approve "only if the code matches" (`approve.go:164`). The cursor is an index, and
  a new snapshot may put another request under it between the look at its code and
  the key (`approve.go:55-59`, `97`; `Looks` and `Decides` in `ApproveScreen`, with `done.meant` and `done.for`).
- `d` on the approval screen with nothing to show indexes an empty list and ends the
  program (`approve.go:118`; `AsksToRemove` sets `open` to FALSE), although `approve.go:143-145`
  keeps the screen up when the registry cannot be read.
- `registry.go:263-264` takes WireGuard to tie an address to a key; between
  a removal, a new approval under the freed number and the coordinator's next
  sync it ties it to the removed machine's key, whose heartbeat counts for the new
  member (`NodeLists` in `Mesh`).
- `armed` in the setup screen is never reset: after a failed installation that somebody had begun to
  abort, the first ctrl+c aborts the retried one without the warning (`setup.go:296-302`).
- The goroutine that reports downloads tests and calls `r.sink` (`real.go:63-65`) without a
  lock while `Install` ends and sets it to nil (`steps.go:34`). `SetupScreen` has its late report; the call of a
  nil function between the two reads is below the model's steps.

The property of the run `join_expired` fails because of what the code does;
the properties of all other runs hold. Some hold with an exception that
they name. `ServersReachEachOther` leaves out the pairs of a node that got a new address, which the registry does not know yet,
while its endpoint for the coordinator is the switch and one of the two is not in the switch (`CutOff` in `Paths`). The node
falls back to the router only in `checkSwitch`, after a call over the mesh has
succeeded (`commands.go:121-125`), and the coordinator reaches it only at the
address it last reported; neither side learns of the change. `RetryInstalls` leaves out an
installer that was closed and opened again with another disk while a container of the first attempt
is open: `releaseDisk` looks at the disks chosen now only, and `cryptsetup open` refuses the name until the
laptop is restarted. It also leaves out a chosen disk with a device of a type that `releaseDisk` passes over, and so does `ErasedWhenFree`. `MessagesMatchScreen` leaves out a late line about downloads. `WritesWhatWasChosen` leaves out
a disk that takes the path between the second look and the opening (`late` in `Flash`), which the code
does not notice, and cannot tell two sticks of one size and model apart. `OutdatedIsoIsMarked` leaves out the edit by
hand above and the ISO of an orphaned container, and it, `SuccessIsThisBuild` and `BuildEnds` a build that was left.

## 6. The proofs

Each module of proofs has an inductive invariant, `IInv`, lemmas that the actions keep it, and theorems that follow from it. TLC checked each `IInv` before it was proved.

`RegistryOpsProofs` holds what every module with a registry needs of its operators: what pruning, ageing
and settling keep (`PruneKeeps`, `GrowKeeps`, `SettleFacts`) and what a new request and a new member
look like. `RegistryProofs` proves, for any sets of names, keys and requests, any subnet size,
limit and lifetime, that `IInv` is an inductive invariant of `Registry`: its seven
conjuncts support each other. That members are distinct (`MembersDistinct`) rests on
`PendingUnclaimed`, because `Approve` checks the host number only; `PendingUnclaimed` is
kept by `Approve` only because it settles the approved machine's duplicates and
the requests under its name, and by `AddRequest` because of what it
refuses. `PendingNamesDistinct` needs the check of repeats to look at all
pending requests. `HostIffApproved` and the bound are kept by the same lemmas, `CoordinatorStays`
because `Remove` refuses the coordinator and no approval gives out host number 1. The
theorems about `DecisionsStand` and `ApprovalNamesItsMember` are action properties and
take the step lemmas (`StepDecides`) instead. Assumptions: `RegistryOps` constants
(`MaxHost`, `MaxPending`, `RequestTTL` natural numbers) and `AskersConstants`.

`RegistryProofs` also proves of the file, for any number of processes, users and crashes,
that it stays usable, that nobody writes a stale copy, and that
`RegistryStore` implements `AtomicStore`. The strengthening (`StoreIInv`) is who holds the lock
(`LockHeld`), what a copy is compared with the file (`CopyIsCurrent`), and what the
temporary file is when it is about to be renamed (`TmpIsCopy`). The refinement has one
lemma per kind of step: the rename maps to `Apply`, the begin of a call, the unlock and a crash to
`Call`, `Return` and `Die`, an error before the lock and the unlock after one to `Fail`, all others to stutters. Assumption: `StoreConstants`.

`JoinProofs` proves the safety properties of joining for any number of machines, ticks and faults.
What an admin approves is remembered in `approvals`; the invariant follows an approval from the
request (`RequestsApproved`) and the member list (`MembersApproved`) through the answer under way (`ReplyApproved`)
to what is on the machine's disk (`DiskApproved`). Two things make it inductive: a machine that holds an identifier holds
that of its own request, or of none that is left (`HoldsOwn`), also when an answer was lost and the request is asked
for again; and a machine is approved once (`ApprovedOnce`), because after it none of its requests
waits. The second is what keeps an old answer from being about another host number. `JoinUsesTheRegistry` shows that every
step of `Join` is one of `Registry` or leaves it alone. Assumption: `JoinConstants`. Of the screen on which the admin decides it proves
`RemovesWhatWasAsked`, for any registry: the name in the question changes only with a key,
and a key that answers is about the name shown when it was looked at (`Asked`). `OnlyAnEmptyScreenEnds` is about
indexing: snapshots replace the lists under a cursor that is a number, and yet it is always on an item, so
that the only key that ends the program is d with nothing to show, as in section 5. Assumption: `ScreenConstants`.

`MeshProofs` proves that no table has two keys for an address and no server is its own peer. A table
is as good as the member list it was read from, so a list that is fetched, written and loaded at three times
stays sound by itself; what has to be shown is that the server's own host number is not in it under
another key. For that, `Joined` says that a machine's `join.json` and the member list agree, which rests on one
request per machine (`OneRequestEach`). `MeshUsesTheRegistry` is the refinement. Assumption: `MeshConstants`.

`ConfigProofs` is about the two modules that build on a config. It proves first that whatever `Validate` accepts is `Sound`, for any width of addresses and any sizes
of networks that divide it: a network ends before the addresses do, so that the sum does not wrap (`NetworkFits`),
and two networks neither of which holds the other's base are disjoint. From there: every config on its way to the ISO was valid when its build began (`ConfigsAreValid`), whichever
build staged last; and until a build is left, the only one is on the screen and the staged files, the container and the
ISO are in step with it (`OneBuild`), the menu's picture is true or known not to be (`MenuIsCurrent`).
A container of a cancelled build belongs to nobody (`ContainerIsAwaited`); a success on the screen is safe from one because two cannot
exist under one name, so that none is left when the build's own has ended (`SuccessIsSettled`). `RunningBuildIsAlwaysHeard` counts wait commands: the
build on the screen has exactly one until its end is read, and no other build has any. Of `Paths` it proves that
a node loses the coordinator only over the switch, and only if its transport allows it (`OnlyTheSwitchFails`), whatever is replugged and
however old the lists are. The reason is where an endpoint can come from (`PathsIInv`): the switch address of the peer, for
`auto` only, the address the peer has or had, or nothing, which a node never has for the coordinator; addresses only get newer, and the coordinator's
never changes.

`SetupScreenProofs` proves that messages and screens agree, for any number of disks, attempts and reports and any capacity
of the channels. The screen is either `Idle`, with no call and nothing in any channel but late lines, or `Running`: one call of
the kind the screen shows, on the channel in use, with one wait command, and either the call's end is to come (`Unended`)
or the call is over and its end is in the channel, with only late lines after it (`Ended`). That the disk erased was checked and
confirmed needs `Answers`: from a check that went well to the last retry nothing changes `ch`. That nothing
is installed twice needs `AfterInstall`: no second end of an installation is left in a channel.

`FlashProofs` proves what success means and which disk is written, for any disks and paths, sizes of the image and the channel and
any number of sticks moved. Success needs nothing of the writing: while it reads back, the cache is empty
and what was read is on the open disk (`OpenDisk`), and from there on nothing is written (`Success`). The disk written is the one
of the second look (`LookedAt`) as long as nobody took its path; the exclusive opening keeps it unmounted.

`InstallationProofs` proves the four safety properties of `Installation`, for any disks, any old system on them, any number
of attempts, faults and power cuts. The properties speak of single commands; `IInv` says what each
phase has established and the later ones rely on: which disks the loops have left behind and how (`Releasing`, `NewLayout`): what is still in use of a disk being released
is in the list that is left to visit, or of a type that is passed over,
that all that is mapped of the chosen disks was mapped by this installation (`Mappings`), the key slots of the system disk command
by command (`Slots`), and the new root (`NewRoot`). `LayoutKept` and `MappingsKept` carry the first ones
through the commands that format. The one-time key needs more than the server's own steps: a
root that boots keeps its key file and its unit while another installation runs (`Bootable`), because its
key slots go only with the root itself, and the slot is revoked before the file and the unit go. Assumption: `InstallationConstants`.

`InstallationImplementsInstaller` is the refinement, with one lemma per kind of step. Three facts of the
invariant carry it: no server that starts needs a chosen disk once that disk is wiped (`Unused`), which is what makes
formatting and configuring a root no loss of a server; the first disk is wiped after the release of all has ended, so
that an error before it is one with every disk as it was; and every command writes
chosen disks only (`ChosenDisks`).

Type correctness is proved of every module with a state of its own that has a run (`TypeCorrect` of `Registry` and of
`Installation`, `StoreTypeCorrect`, `JoinTypeCorrect`, `MeshTypeCorrect`, `PathsTypeCorrect`, `ScreenTypeCorrect`,
`SetupTypeCorrect`, `FlashTypeCorrect`, `DesktopTypeCorrect`). It says more than the names: the inductive invariants above hold what the
arguments need, and a second invariant on top of them has the rest. In `SetupScreen` that is `Filled`: no check, installation or joining
starts before a role and a disk are chosen. In `Flash`, a chunk the kernel has still to write is in its cache, and
none is left when the stick is opened again to read it back. In `Join` and `Mesh` the registry stays finite, because each step of `Registry` adds one
member and one request at most (`RegistryStaysFinite`). Two assumptions on constants are there for it: the paths of
`Flash` are a sequence, and a call of `SetupScreen` reports once at least.

Model-checked only: all liveness and ENABLED, which are out of the prover's reach. No module with a theorem uses a RECURSIVE operator, which the prover's
SMT backend does not read; no other module needs one.

## 7. What is left out, and why

- Power loss under the store: the code does not call fsync; whether a renamed
  file has its content after a power cut is the file system's matter. A crash
  of a process is modelled.
- The text of requests, answers, configs and units, the pairing code's digits,
  validation of fields and JSON. Requests in the models are ones that pass validation.
- A tick is a step of time and not of a length; whether a minute is enough is not said.
- `hosts`, `known_hosts` and `ssh_config`, written with `wg0.conf` from the same list.
- Several data disks: one stands for all, each is treated like it by the same loop. Swap, the
  firmware's boot order, and a disk of the old system that mounts itself again.
- What `configure` writes except keys and the unit; a step of it that fails leaves a root that a retry formats.
- A data disk for which the kernel keeps an old table with one partition passes `checkLayout`;
  `FormatsNewLayout` says exactly what is compared.
- Leaving the flash screen by its message while a stick is written (`app.go:93`): the message would have to be under way since before
  the name of the disk was typed.
- A line that `podman run` had yet to send when it is killed is dropped in the model; the code sends it, if the channel has room.
- That the image fits on the stick, read-only devices, and an error of the ioctl that drops the cache, which
  the code ignores (`flash.go:117`): with it, a read-back could be answered from the cache.
- Quitting the desktop program. A program started again has another name for its container (`build.go:86`), so that what an orphan of
  an earlier one does next to a new build is outside the model; the registry key that the first build makes,
  with `ssh-keygen` killed in the middle; modification times within one clock tick.
- What the scan reports: parsing of `arp-scan` and which devices count as known. Nothing but the screen reads it.
- Rules of `Validate` for fields other than addresses, and the quoting of `config.env`.
- `Prechecks`, packages, the parsing of `lsblk`, the runner and the generated text: sequential calls of external
  commands and tables of text without state of their own; `SetupScreen`, `Installation` and `Join` have them as calls that succeed or fail.
- Components marked `not_modelled` in `PROJECT.json`.

## 8. The plan

Done: 1. `RegistryOps`, `Registry` and its proofs, 2. the store, its refinement and
proofs, 3. `Join`, 4. `Mesh`, 5. `Paths`, 6. `ApproveScreen`, 7. `SetupScreen`, 8. `Installation` with
the release of disks, `pacstrap` and the TPM enrolment, 9. `Flash`, 10. `Addresses` and the subnet rules,
11. the scan's calls of the store, 12. `Desktop` with the ISO build, 13. the proofs of `Join`, `Mesh`, `Paths`, `SetupScreen`,
`Addresses`, `Desktop`, `Flash`, `ApproveScreen` and `Installation`, 14. `Installer` and the proof that `Installation`
implements it. Next:

15. `SetupScreen` with the calls of `Installer` in place of its own, and the proof that it makes no others.
16. The registry key and `config.env` across two desktops.
