--------------------------- MODULE RegistryStore ---------------------------
(***************************************************************************)
(* Store.Update step by step: the lock file, its owner and its lock, the   *)
(* load, the caller's function, the temporary file, its owner, the rename, *)
(* the unlock. Every system call that changes what others see is a step,   *)
(* with its error return, and a crash is possible between any two.         *)
(* Store.Read is an update whose function copies the state and leaves it   *)
(* alone. The content of registry.json is the set of callers whose change  *)
(* it holds, which is what a lost or torn update would damage.             *)
(*                                                                         *)
(* Some callers run as root (the coordinator's sync and scan timers and    *)
(* dryserver approve), the others as the registry user (the forced command *)
(* behind SSH). A file of mode 0600 that root owns is out of reach for the *)
(* registry user, so root hands what it writes back (fixOwner).            *)
(*                                                                         *)
(* The names of its specification begin with Store, so that a module can   *)
(* extend the registry and its store together.                             *)
(***************************************************************************)
EXTENDS Integers

CONSTANTS
  Proc,       \* the processes that call Update
  Root,       \* those that run as root
  Reader,     \* those that also call Read
  NoProc,     \* nobody holds the lock
  MaxCrashes  \* bound on the number of crashes

ASSUME StoreConstants ==
  /\ Root \subseteq Proc
  /\ Reader \subseteq Proc
  /\ NoProc \notin Proc
  /\ MaxCrashes \in Nat

Torn == [complete |-> FALSE, data |-> {}]     \* truncated, not written yet
Full(s) == [complete |-> TRUE, data |-> s]

VARIABLES
  file,       \* registry.json
  fileOwner,
  tmp,        \* registry.json.tmp, when tmpOwner is not "none"
  tmpOwner,
  lockOwner,  \* owner of registry.json.lock, "none" when there is no such file
  lock,       \* the process that holds the lock on it
  pc,
  reading,    \* the processes whose call is Read
  copy,       \* copy[p]: the state that p loaded and its function changed
  crashes

storeVars ==
  <<file, fileOwner, tmp, tmpOwner, lockOwner, lock, pc, reading, copy, crashes>>

files == <<file, fileOwner, tmp, tmpOwner>>

Owner == {"root", "registry"}

Uid(p) == IF p \in Root THEN "root" ELSE "registry"

MayOpen(p, owner) == p \in Root \/ owner = "registry"

Holding == {"locked", "loaded", "applied", "truncated", "written", "owned",
            "renamed", "failing"}

Calling == {"called", "opened", "waiting"}   \* in a call, without the lock

PC == Holding \cup Calling \cup {"idle", "done", "failed"}

(* The installer writes the registry and hands the directory to the        *)
(* registry user, .lock included; it is missing when the directory was     *)
(* restored without it.                                                    *)
StoreInit ==
  /\ file = Full({})
  /\ fileOwner = "registry"
  /\ tmp = Torn
  /\ tmpOwner = "none"
  /\ lockOwner \in {"registry", "none"}
  /\ lock = NoProc
  /\ pc = [p \in Proc |-> "idle"]
  /\ reading = {}
  /\ copy = [p \in Proc |-> {}]
  /\ crashes = 0

Goto(p, from, to) ==
  /\ pc[p] = from
  /\ pc' = [pc EXCEPT ![p] = to]

\* Update is called, or Read.
Begin(p) ==
  /\ Goto(p, "idle", "called")
  /\ \/ reading' = reading \ {p}
     \/ p \in Reader /\ reading' = reading \cup {p}
  /\ UNCHANGED <<files, lockOwner, lock, copy, crashes>>

\* os.MkdirAll finds the directory; os.OpenFile opens or creates the lock file,
Open(p) ==
  /\ IF lockOwner = "none" \/ MayOpen(p, lockOwner)
       THEN /\ Goto(p, "called", "opened")
            /\ lockOwner' = IF lockOwner = "none" THEN Uid(p) ELSE lockOwner
       ELSE /\ Goto(p, "called", "failed")
            /\ UNCHANGED lockOwner
  /\ UNCHANGED <<files, lock, reading, copy, crashes>>

\* or one of the two fails, before there is a lock file to close.
OpenFails(p) ==
  /\ Goto(p, "called", "failed")
  /\ UNCHANGED <<files, lockOwner, lock, reading, copy, crashes>>

\* fixOwner of the lock file, before it is locked,
FixLock(p) ==
  /\ Goto(p, "opened", "waiting")
  /\ lockOwner' = IF p \in Root THEN "registry" ELSE lockOwner
  /\ UNCHANGED <<files, lock, reading, copy, crashes>>

\* then syscall.Flock, which waits,
Acquire(p) ==
  /\ lock = NoProc
  /\ lock' = p
  /\ Goto(p, "waiting", "locked")
  /\ UNCHANGED <<files, lockOwner, reading, copy, crashes>>

\* or fails; closing the file then gives up no lock.
FlockFails(p) ==
  /\ Goto(p, "waiting", "failed")
  /\ UNCHANGED <<files, lockOwner, lock, reading, copy, crashes>>

\* Mutant: a caller that looked before goes on with what it saw then.
Load_Once(p) ==
  /\ IF MayOpen(p, fileOwner) /\ file.complete
       THEN /\ Goto(p, "locked", "loaded")
            /\ copy' = IF copy[p] = {} THEN [copy EXCEPT ![p] = file.data] ELSE copy
       ELSE /\ Goto(p, "locked", "failing")
            /\ UNCHANGED copy
  /\ UNCHANGED <<files, lockOwner, lock, reading, crashes>>

Load(p) ==
  /\ IF MayOpen(p, fileOwner) /\ file.complete
       THEN /\ Goto(p, "locked", "loaded")
            /\ copy' = [copy EXCEPT ![p] = file.data]
       ELSE /\ Goto(p, "locked", "failing")
            /\ UNCHANGED copy
  /\ UNCHANGED <<files, lockOwner, lock, reading, crashes>>

\* What the function of p makes of state s.
With(p, s) == IF p \in reading THEN s ELSE s \cup {p}

\* The caller's function: it changes the loaded state or returns an error.
Change(p) ==
  /\ Goto(p, "loaded", "applied")
  /\ copy' = [copy EXCEPT ![p] = With(p, @)]
  /\ UNCHANGED <<files, lockOwner, lock, reading, crashes>>

Refuse(p) ==
  /\ Goto(p, "loaded", "failing")
  /\ UNCHANGED <<files, lockOwner, lock, reading, copy, crashes>>

\* Mutant: the temporary file must not exist (O_EXCL).
Truncate_Exclusive(p) ==
  /\ IF tmpOwner = "none"
       THEN /\ Goto(p, "applied", "truncated")
            /\ tmp' = Torn
            /\ tmpOwner' = Uid(p)
       ELSE /\ Goto(p, "applied", "failing")
            /\ UNCHANGED <<tmp, tmpOwner>>
  /\ UNCHANGED <<file, fileOwner, lockOwner, lock, reading, copy, crashes>>

\* os.WriteFile: open and truncate, keeping the owner of an existing file,
Truncate(p) ==
  /\ IF tmpOwner = "none" \/ MayOpen(p, tmpOwner)
       THEN /\ Goto(p, "applied", "truncated")
            /\ tmp' = Torn
            /\ tmpOwner' = IF tmpOwner = "none" THEN Uid(p) ELSE tmpOwner
       ELSE /\ Goto(p, "applied", "failing")
            /\ UNCHANGED <<tmp, tmpOwner>>
  /\ UNCHANGED <<file, fileOwner, lockOwner, lock, reading, copy, crashes>>

\* then write, which fails on a full disk.
Write(p) ==
  /\ Goto(p, "truncated", "written")
  /\ tmp' = Full(copy[p])
  /\ UNCHANGED <<file, fileOwner, tmpOwner, lockOwner, lock, reading, copy, crashes>>

WriteFails(p) ==
  /\ Goto(p, "truncated", "failing")
  /\ UNCHANGED <<files, lockOwner, lock, reading, copy, crashes>>

\* Mutant: root keeps what it wrote.
FixOwner_Nothing(p) ==
  /\ Goto(p, "written", "owned")
  /\ UNCHANGED <<files, lockOwner, lock, reading, copy, crashes>>

FixOwner(p) ==
  /\ Goto(p, "written", "owned")
  /\ tmpOwner' = IF p \in Root THEN "registry" ELSE tmpOwner
  /\ UNCHANGED <<file, fileOwner, tmp, lockOwner, lock, reading, copy, crashes>>

Rename(p) ==
  /\ Goto(p, "owned", "renamed")
  /\ file' = tmp
  /\ fileOwner' = tmpOwner
  /\ tmp' = Torn
  /\ tmpOwner' = "none"
  /\ UNCHANGED <<lockOwner, lock, reading, copy, crashes>>

\* or fails, and the temporary file stays.
RenameFails(p) ==
  /\ Goto(p, "owned", "failing")
  /\ UNCHANGED <<files, lockOwner, lock, reading, copy, crashes>>

\* Mutant: the lock is closed at the end and not deferred.
Unlock_OnSuccess(p) ==
  /\ Goto(p, "renamed", "done") \/ Goto(p, "failing", "failed")
  /\ lock' = IF pc[p] = "renamed" THEN NoProc ELSE lock
  /\ UNCHANGED <<files, lockOwner, reading, copy, crashes>>

\* The deferred lock.Close.
Unlock(p) ==
  /\ Goto(p, "renamed", "done") \/ Goto(p, "failing", "failed")
  /\ lock' = NoProc
  /\ UNCHANGED <<files, lockOwner, reading, copy, crashes>>

\* The timers call again, and so does a node that polls.
Again(p) ==
  /\ Goto(p, "done", "idle") \/ Goto(p, "failed", "idle")
  /\ UNCHANGED <<files, lockOwner, lock, reading, copy, crashes>>

\* The process dies: the kernel drops its lock, the files stay as they are.
Crash(p) ==
  /\ crashes < MaxCrashes
  /\ pc[p] \notin {"idle", "done", "failed"}
  /\ pc' = [pc EXCEPT ![p] = "idle"]
  /\ lock' = IF lock = p THEN NoProc ELSE lock
  /\ crashes' = crashes + 1
  /\ UNCHANGED <<files, lockOwner, reading, copy>>

Step(p) ==
  \/ Begin(p) \/ Open(p) \/ FixLock(p) \/ Acquire(p) \/ Load(p) \/ Change(p)
  \/ Refuse(p) \/ Truncate(p) \/ Write(p) \/ FixOwner(p) \/ Rename(p)
  \/ Unlock(p) \/ Again(p)

\* A system call that returns an error.
Breaks(p) == OpenFails(p) \/ FlockFails(p) \/ WriteFails(p) \/ RenameFails(p)

StoreNext == \E p \in Proc : Step(p) \/ Breaks(p) \/ Crash(p)

StoreSpec == StoreInit /\ [][StoreNext]_storeVars

(* Processes keep running unless they crash, and a process that waits for  *)
(* the lock while it becomes free again and again is woken in the end. The *)
(* coordinator's own heartbeat is refused only if it is no member, which   *)
(* it always is (CoordinatorStays in Registry), and no system call of root *)
(* fails for ever: the disk does not stay full, and flock has no reason to *)
(* fail but a kernel short of memory.                                      *)
StoreFairness ==
  /\ \A p \in Proc : WF_storeVars(Step(p)) /\ SF_storeVars(Acquire(p))
  /\ \A p \in Root :
       /\ SF_storeVars(Open(p)) /\ SF_storeVars(Change(p))
       /\ SF_storeVars(Write(p)) /\ SF_storeVars(Rename(p))
       /\ <>[][~FlockFails(p)]_storeVars

StoreFairSpec == StoreSpec /\ StoreFairness

----------------------------------------------------------------------------
StoreTypeOK ==
  /\ file \in [complete: BOOLEAN, data: SUBSET Proc]
  /\ fileOwner \in Owner
  /\ tmp \in [complete: BOOLEAN, data: SUBSET Proc]
  /\ tmpOwner \in Owner \cup {"none"}
  /\ lockOwner \in Owner \cup {"none"}
  /\ lock \in Proc \cup {NoProc}
  /\ pc \in [Proc -> PC]
  /\ reading \subseteq Reader
  /\ copy \in [Proc -> SUBSET Proc]
  /\ crashes \in 0..MaxCrashes

(* Whatever crashes and wherever, registry.json is a complete document the *)
(* registry user can open: a torn or root-owned file would end every call  *)
(* that nodes make.                                                        *)
FileUsable == file.complete /\ fileOwner = "registry"

(* The copy in the hands of a process that is about to write holds all     *)
(* that the file holds: nobody changed the file after it was loaded.       *)
NoStaleCopy ==
  \A p \in Proc :
    pc[p] \in {"loaded", "applied", "truncated", "written", "owned"} =>
      file.data \subseteq copy[p]

(* A lock file or a temporary file that a crashed root process left behind *)
(* locks the registry user out only until the next call of a root process, *)
(* which hands it back: again and again each of them can be opened.        *)
RootHandsBack == []<>(lockOwner # "root") /\ []<>(tmpOwner # "root")

(* A caller that has not got the lock yet gets its answer or dies; neither *)
(* a crash of the holder nor an error return leaves the lock taken.        *)
CallsReturn ==
  \A p \in Proc : pc[p] \in Calling ~> pc[p] \in {"done", "failed", "idle"}

(* What makes them inductive: who works on the file holds the lock, a copy *)
(* differs from the file by its process' change only, and what is about to *)
(* be renamed is that copy, in the right hands.                            *)
LockHeld == \A p \in Proc : pc[p] \in Holding => lock = p

CopyIsCurrent ==
  \A p \in Proc :
    /\ pc[p] = "loaded" => copy[p] = file.data
    /\ pc[p] \in {"applied", "truncated", "written", "owned"} =>
         copy[p] = With(p, file.data)

TmpIsCopy ==
  \A p \in Proc :
    /\ pc[p] \in {"written", "owned"} => tmp = Full(copy[p])
    /\ pc[p] \in {"truncated", "written", "owned"} /\ p \notin Root =>
         tmpOwner = "registry"
    /\ pc[p] = "owned" => tmpOwner = "registry"

StoreIInv == StoreTypeOK /\ FileUsable /\ LockHeld /\ CopyIsCurrent /\ TmpIsCopy

----------------------------------------------------------------------------
(* The detailed store implements the atomic one: a call takes effect with  *)
(* the rename, and what it has seen is the copy it saved.                  *)
PhaseOf(p) ==
  CASE pc[p] \in {"idle", "failed"} -> pc[p]
    [] pc[p] = "done" -> "ok"
    [] pc[p] = "renamed" -> "applied"
    [] OTHER -> "called"

SeenBy(p) == IF pc[p] \in {"renamed", "done"} THEN copy[p] ELSE {}

Atomic == INSTANCE AtomicStore
  WITH saved <- file.data, phase <- [p \in Proc |-> PhaseOf(p)],
       seen <- [p \in Proc |-> SeenBy(p)]

ImplementsAtomicStore == Atomic!Spec
=============================================================================
