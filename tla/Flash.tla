------------------------------- MODULE Flash -------------------------------
(***************************************************************************)
(* Making the installer USB: the screen that selects a stick and shows the *)
(* progress (internal/tui/flash.go) and the goroutine that writes the      *)
(* image and reads it back (internal/flash/flash.go), while somebody plugs *)
(* sticks in and out, the desktop mounts them and a bad stick loses data.  *)
(*                                                                         *)
(* A disk is what is in somebody's hand; the program knows it by a path    *)
(* and by what it looks like (size and model). The image is a number of    *)
(* chunks. The kernel keeps written chunks in its cache, where reading     *)
(* finds them whatever the stick made of them.                             *)
(***************************************************************************)
EXTENDS Naturals, Sequences, FiniteSets

CONSTANTS
  Disk,
  Bad,         \* the disks that may lose what they were told to keep
  Look,        \* Look[d]: the size and model of d
  Paths,       \* the device paths, in the order of the list
  None,
  Chunks,      \* the number of chunks of the image
  SyncEvery,   \* chunks between two flushes (16 in the code)
  Capacity,    \* of the channel (16 in the code)
  MaxFlashes,  \* bound on images written
  MaxEvents    \* bound on sticks moved and mounted

Path  == {Paths[i] : i \in DOMAIN Paths}
Chunk == 1..Chunks

ASSUME FlashConstants ==
  /\ None \notin Disk \cup Path
  /\ Bad \subseteq Disk
  /\ DOMAIN Look = Disk
  /\ Paths \in Seq(Path) /\ Len(Paths) = Cardinality(Path)
  /\ {Chunks, SyncEvery, Capacity} \subseteq Nat \ {0}
  /\ {MaxFlashes, MaxEvents} \subseteq Nat

VARIABLES
  port,     \* port[p]: the disk at path p
  use,      \* use[d]: free, or mounted on a media directory or elsewhere
  media,    \* media[d]: the chunks of the image that are on d
  cached,   \* the chunks of the open disk in the kernel's cache
  dirty,    \* of these, the ones not written to the disk yet
  replugs,
  screen,   \* selecting, confirming, flashing, finished, quit
  usb,      \* the list shown: the disk that was at each path in it
  cursor,
  target,   \* the entry that was chosen
  waiting,  \* a wait command listens on the channel
  err,      \* the writing failed
  events,   \* the messages in the channel
  pc,       \* the call the goroutine makes next
  found,    \* the disk of the second look, if it is to be unmounted
  fd,       \* the disk that was opened last
  gone,     \* it was pulled since
  late,     \* another disk took the path between the second look and opening
  done,     \* chunks copied in this phase
  unsent,   \* a progress that is not sent yet
  same,     \* what was read back agrees so far
  ctx,      \* cancelled
  flashes

world  == <<port, use, replugs>>
stick  == <<media, cached, dirty>>
shown  == <<screen, usb, cursor, target, waiting, err>>
writer == <<pc, found, fd, gone, late, done, unsent, same, ctx, flashes>>
vars   == <<world, stick, shown, events, writer>>

Uses == {"free", "media", "system"}
Plugged == {port[p] : p \in Path} \ {None}
Ports == {f \in [Path -> Disk \cup {None}] :
            \A p, q \in Path : f[p] = f[q] /\ f[p] # None => p = q}

\* disks.USB: what is mounted outside the media directories is not offered.
Safe(d) == d # None /\ use[d] # "system"
Listed == [p \in {q \in Path : Safe(port[q])} |-> port[p]]

Init ==
  /\ port \in Ports
  /\ use = [d \in Disk |-> "free"]
  /\ media = [d \in Disk |-> {}]
  /\ cached = {} /\ dirty = {} /\ replugs = 0
  /\ screen = "selecting" /\ usb = <<>> /\ cursor = 0
  /\ target = None /\ waiting = FALSE /\ err = FALSE
  /\ events = <<>>
  /\ pc = "none" /\ found = None /\ fd = None
  /\ gone = FALSE /\ late = FALSE /\ done = 0 /\ unsent = FALSE /\ same = TRUE
  /\ ctx = FALSE /\ flashes = 0

----------------------------------------------------------------------------
\* The world.

\* The disk that is being written is claimed: nobody else mounts it.
Claimed(d) == pc \in {"write", "sync"} /\ fd = d /\ ~gone

Replugs ==
  /\ replugs < MaxEvents
  /\ replugs' = replugs + 1
  /\ \E p \in Path : \E d \in (Disk \ Plugged) \cup {None} :
       /\ d # port[p]
       /\ port' = [port EXCEPT ![p] = d]
       /\ use' = [e \in Disk |-> IF e = port[p] THEN "free" ELSE use[e]]
       /\ LET pulled == pc \in {"write", "sync", "reopen", "verify"} /\ fd = port[p] IN
          /\ gone' = (gone \/ pulled)
          /\ cached' = IF pulled THEN {} ELSE cached
          /\ dirty' = IF pulled THEN {} ELSE dirty
       /\ late' = (late \/ (pc \in {"umount", "open"} /\ p = target.path))
  /\ UNCHANGED <<media, shown, events, pc, found, fd, done, unsent, same, ctx, flashes>>

DesktopMounts ==
  /\ replugs < MaxEvents
  /\ replugs' = replugs + 1
  /\ \E d \in Plugged :
       /\ use[d] = "free" /\ ~Claimed(d)
       /\ \E u \in {"media", "system"} : use' = [use EXCEPT ![d] = u]
  /\ UNCHANGED <<port, stick, shown, events, writer>>

----------------------------------------------------------------------------
\* The screen.

Lesser(a, b) == IF a < b THEN a ELSE b
LastOf(list) == IF list = <<>> THEN 0 ELSE Cardinality(DOMAIN list) - 1

\* Where path p stands in the list, counted from 0.
Place(p) == CHOOSE i \in DOMAIN Paths : Paths[i] = p
Position(p) == Cardinality({q \in DOMAIN usb : Place(q) < Place(p)})

\* A tick, r, or esc on the question. The list takes a while to arrive, which
\* makes it no more than older, as every list on the screen is.
Rescans ==
  /\ screen = "selecting"
  /\ usb' = Listed
  /\ cursor' = Lesser(cursor, LastOf(usb'))
  /\ UNCHANGED <<world, stick, screen, target, waiting, err, events, writer>>

MovesCursor ==
  /\ screen = "selecting"
  /\ cursor' \in {IF cursor = 0 THEN 0 ELSE cursor - 1, Lesser(cursor + 1, LastOf(usb))}
  /\ UNCHANGED <<world, stick, screen, usb, target, waiting, err, events, writer>>

Chooses ==
  /\ screen = "selecting"
  /\ \E p \in DOMAIN usb :
       Position(p) = cursor /\ target' = [path |-> p, disk |-> usb[p]]
  /\ screen' = "confirming"
  /\ UNCHANGED <<world, stick, usb, cursor, waiting, err, events, writer>>

Reconsiders ==
  /\ screen = "confirming"
  /\ screen' = "selecting"
  /\ UNCHANGED <<world, stick, usb, cursor, target, waiting, err, events, writer>>

\* The name of the target was typed.
Confirms ==
  /\ screen = "confirming" /\ flashes < MaxFlashes
  /\ screen' = "flashing" /\ waiting' = TRUE
  /\ events' = <<>>
  /\ pc' = "find" /\ fd' = None /\ flashes' = flashes + 1
  /\ UNCHANGED <<world, stick, usb, cursor, target, err,
                 found, gone, late, done, unsent, same, ctx>>

Cancels ==
  /\ screen = "flashing" /\ ~ctx /\ pc # "none"
  /\ ctx' = TRUE
  /\ UNCHANGED <<world, stick, shown, events, pc, found, fd, gone, late, done,
                 unsent, same, flashes>>

Receives(is) ==
  /\ waiting /\ events # <<>> /\ Head(events) = is
  /\ events' = Tail(events)

\* Mutant: the progress is shown and nobody waits for the next.
ProgressArrives_Once ==
  /\ Receives("progress")
  /\ waiting' = FALSE
  /\ UNCHANGED <<world, stick, screen, usb, cursor, target, err, writer>>

\* The handler waits for the next message.
ProgressArrives ==
  /\ Receives("progress")
  /\ UNCHANGED <<world, stick, shown, writer>>

DoneArrives ==
  /\ \E is \in {"ok", "error"} : Receives(is) /\ err' = (is = "error")
  /\ screen' = "finished" /\ waiting' = FALSE
  /\ UNCHANGED <<world, stick, usb, cursor, target, writer>>

\* Back to the menu and here again, with a new screen, or out.
Leaves ==
  /\ screen \in {"selecting", "confirming", "finished"}
  /\ \/ screen' = "quit" /\ UNCHANGED <<usb, cursor, target, err>>
     \/ /\ screen # "confirming"
        /\ screen' = "selecting"
        /\ usb' = <<>> /\ cursor' = 0 /\ target' = None /\ err' = FALSE
  /\ UNCHANGED <<world, stick, waiting, events, writer>>

----------------------------------------------------------------------------
\* flash.Write. An error ends it.

Fails == pc' = "failed"

Goes(next) == pc' = next

\* What is mounted is unmounted first.
FoundIs(d) ==
  IF use[d] = "media" THEN found' = d /\ Goes("umount") ELSE UNCHANGED found /\ Goes("open")

\* Mutant: whatever is at the path now is taken.
Finds_AnyDisk ==
  /\ pc = "find"
  /\ LET d == port[target.path] IN
     IF Safe(d)
       THEN FoundIs(d)
       ELSE Fails /\ UNCHANGED found
  /\ UNCHANGED <<world, stick, shown, events, fd, gone, late, done, unsent, same, ctx, flashes>>

\* The second look: the same path, size and model, and still safe.
Finds ==
  /\ pc = "find"
  /\ LET d == port[target.path] IN
     IF Safe(d) /\ Look[d] = Look[target.disk]
       THEN FoundIs(d)
       ELSE Fails /\ UNCHANGED found
  /\ UNCHANGED <<world, stick, shown, events, fd, gone, late, done, unsent, same, ctx, flashes>>

\* umount of a directory on which nothing is mounted fails.
Unmounts ==
  /\ pc = "umount"
  /\ IF use[found] = "media" /\ found \in Plugged
       THEN use' = [use EXCEPT ![found] = "free"] /\ Goes("open")
       ELSE UNCHANGED use /\ Fails
  /\ found' = None
  /\ UNCHANGED <<port, replugs, stick, shown, events, fd, gone, late, done,
                 unsent, same, ctx, flashes>>

StartsPhase == done' = 0 /\ unsent' = TRUE /\ gone' = FALSE

\* O_EXCL: a disk that is mounted is not opened.
Opens ==
  /\ pc = "open"
  /\ LET d == port[target.path] IN
     IF d # None /\ use[d] = "free"
       THEN fd' = d /\ StartsPhase /\ Goes("write")
       ELSE Fails /\ UNCHANGED <<fd, gone, done, unsent>>
  /\ cached' = {} /\ dirty' = {}
  /\ UNCHANGED <<world, media, shown, events, found, late, same, ctx, flashes>>

\* progress(...), which blocks while the channel is full.
Reports ==
  /\ unsent /\ Len(events) < Capacity
  /\ events' = Append(events, "progress")
  /\ unsent' = FALSE
  /\ UNCHANGED <<world, stick, shown, pc, found, fd, gone, late, done, same, ctx, flashes>>

\* The disk is told to keep chunks; a bad one loses some and does not say so.
Keeps(chunks) ==
  \E lost \in IF fd \in Bad THEN SUBSET chunks ELSE {{}} :
    media' = [media EXCEPT ![fd] = (@ \cup chunks) \ lost]

\* The kernel may report that keeping them failed.
Flushes(chunks, next) ==
  \/ Keeps(chunks) /\ dirty' = {} /\ Goes(next)
  \/ UNCHANGED <<media, dirty>> /\ Fails

Stopped == ctx \/ gone

WritesChunk ==
  /\ pc = "write" /\ ~unsent /\ done < Chunks
  /\ IF Stopped
       THEN Fails /\ UNCHANGED <<stick, done, unsent>>
       ELSE /\ done' = done + 1
            /\ cached' = cached \cup {done'}
            /\ IF done' % SyncEvery = 0
                 THEN Flushes(dirty \cup {done'}, "write")
                 ELSE dirty' = dirty \cup {done'} /\ UNCHANGED <<media, pc>>
            /\ unsent' = (pc' = "write")
  /\ UNCHANGED <<world, shown, events, found, fd, gone, late, same, ctx, flashes>>

\* lsblk, umount, an opening, a read or a write fails, or the image ends early.
CallFails ==
  /\ pc \in {"find", "umount", "open", "write", "reopen", "verify"} /\ ~unsent
  /\ Fails
  /\ found' = None
  /\ UNCHANGED <<world, stick, shown, events, fd, gone, late, done, unsent, same,
                 ctx, flashes>>

Written ==
  /\ pc = "write" /\ ~unsent /\ done = Chunks
  /\ Goes("sync")
  /\ UNCHANGED <<world, stick, shown, events, found, fd, gone, late, done, unsent,
                 same, ctx, flashes>>

\* Sync and Close. The cache stays while somebody else has the disk open.
Syncs ==
  /\ pc = "sync"
  /\ IF gone THEN Fails /\ UNCHANGED stick
       ELSE /\ Flushes(dirty, "reopen")
            /\ cached' \in {c \in {cached, {}} : dirty' \subseteq c}
  /\ UNCHANGED <<world, shown, events, found, fd, gone, late, done, unsent, same,
                 ctx, flashes>>

\* Mutant: the cache is not dropped.
DropsCache_Not == UNCHANGED cached

DropsCache == cached' = {}

\* verify opens the path anew, whatever is there by now.
Reopens ==
  /\ pc = "reopen"
  /\ IF port[target.path] = None
       THEN Fails /\ UNCHANGED <<cached, fd, gone, done, unsent>>
       ELSE /\ fd' = port[target.path] /\ StartsPhase /\ Goes("verify")
            /\ IF fd' = fd /\ ~gone THEN DropsCache ELSE cached' = {}
  /\ same' = TRUE
  /\ UNCHANGED <<world, media, dirty, shown, events, found, late, ctx, flashes>>

ReadsChunk ==
  /\ pc = "verify" /\ ~unsent /\ done < Chunks
  /\ IF Stopped
       THEN Fails /\ UNCHANGED <<done, unsent, same>>
       ELSE /\ done' = done + 1
            /\ unsent' = TRUE
            /\ same' = (same /\ done' \in cached \cup media[fd])
            /\ UNCHANGED pc
  /\ UNCHANGED <<world, stick, shown, events, found, fd, gone, late, ctx, flashes>>

Compares ==
  /\ pc = "verify" /\ ~unsent /\ done = Chunks
  /\ IF same THEN Goes("verified") ELSE Fails
  /\ UNCHANGED <<world, stick, shown, events, found, fd, gone, late, done, unsent,
                 same, ctx, flashes>>

\* The variables of the goroutine.
Forgotten == done' = 0 /\ unsent' = FALSE /\ same' = TRUE /\ gone' = FALSE /\ late' = FALSE /\ ctx' = FALSE

Ends ==
  /\ pc \in {"verified", "failed"}
  /\ Len(events) < Capacity
  /\ events' = Append(events, IF pc = "verified" THEN "ok" ELSE "error")
  /\ Goes("none")
  /\ fd' = IF pc = "verified" THEN fd ELSE None
  /\ cached' = {} /\ dirty' = {}
  /\ Forgotten
  /\ UNCHANGED <<world, media, shown, found, flashes>>

Write ==
  \/ Finds \/ Unmounts \/ Opens \/ Reports \/ WritesChunk \/ CallFails
  \/ Written \/ Syncs \/ Reopens \/ ReadsChunk \/ Compares \/ Ends

Screen ==
  \/ Rescans \/ MovesCursor \/ Chooses \/ Reconsiders \/ Confirms
  \/ Cancels \/ ProgressArrives \/ DoneArrives \/ Leaves

Next == Replugs \/ DesktopMounts \/ Screen \/ Write

Spec == Init /\ [][Next]_vars

(* The goroutine runs, because its system calls return, and the event loop *)
(* handles messages. No key has to be pressed.                             *)
FairSpec == Spec /\ WF_vars(Write) /\ WF_vars(ProgressArrives \/ DoneArrives)

----------------------------------------------------------------------------
Entry == [path: Path, disk: Disk]

TypeOK ==
  /\ port \in Ports
  /\ use \in [Disk -> Uses]
  /\ media \in [Disk -> SUBSET Chunk]
  /\ dirty \subseteq cached /\ cached \subseteq Chunk
  /\ replugs \in 0..MaxEvents /\ flashes \in 0..MaxFlashes
  /\ screen \in {"selecting", "confirming", "flashing", "finished", "quit"}
  /\ \E listed \in SUBSET Path : usb \in [listed -> Disk]
  /\ cursor \in 0..LastOf(usb)
  /\ target \in Entry \cup {None}
  /\ {waiting, err, gone, late, unsent, same, ctx} \subseteq BOOLEAN
  /\ events \in Seq({"progress", "ok", "error"}) /\ Len(events) <= Capacity
  /\ pc \in {"none", "find", "umount", "open", "write", "sync", "reopen", "verify",
             "verified", "failed"}
  /\ found \in Disk \cup {None} /\ fd \in Disk \cup {None}
  /\ done \in 0..Chunks

(* The screen says that it worked only if the stick that was read back has *)
(* every chunk of the image on it, and not just in the kernel's cache:     *)
(* also when a bad stick lost some of them, when it was pulled, or when a  *)
(* flush failed or the flashing was cancelled at any chunk.                *)
SuccessIsTheImage == screen = "finished" /\ ~err => media[fd] = Chunk

(* Only a disk is written that looks like the one whose name was typed,    *)
(* though sticks were swapped after the list was made, and never one that  *)
(* is mounted. The exception is a disk that took the path after the second *)
(* look and before the opening (late).                                     *)
WritesWhatWasChosen ==
  pc \in {"write", "sync"} =>
    /\ ~late => Look[fd] = Look[target.disk]
    /\ ~gone => use[fd] = "free"

(* Flashing comes to an end, cancelled or not: reports the screen has not  *)
(* read yet do not block the goroutine for ever, and its end is not missed.*)
FlashingEnds == screen = "flashing" ~> screen = "finished"
=============================================================================
