---------------------------- MODULE FlashProofs ----------------------------
(***************************************************************************)
(* Machine-checked proofs about Flash, for any disks and paths, any size   *)
(* of the image and of the channel, and any number of sticks moved: which  *)
(* disk is written, and what success means. That success is the image      *)
(* rests on the reading back alone; that the right disk is written rests   *)
(* on the second look and on opening the path exclusively.                 *)
(***************************************************************************)
EXTENDS Flash, FiniteSetTheorems, FunctionTheorems, TLAPS

Calls == {"find", "umount", "open", "write", "sync", "reopen", "verify",
          "verified", "failed"}

Shape ==
  /\ port \in [Path -> Disk \cup {None}]
  /\ use \in [Disk -> Uses]
  /\ media \in [Disk -> SUBSET Chunk]
  /\ dirty \subseteq Chunk
  /\ done \in 0..Chunks
  /\ pc \in Calls \cup {"none"}
  /\ events \in Seq({"progress", "ok", "error"})

\* What the screen can choose is a disk at a path, and stays chosen.
TargetIsListed ==
  /\ DOMAIN usb \subseteq Path
  /\ screen \in {"confirming", "flashing"} => target.path \in Path

\* The screen stays while the goroutine runs, and the last message is its end.
FlashingIsShown ==
  /\ pc # "none" => screen = "flashing"
  /\ \A i \in 1..Len(events) : events[i] # "progress" => pc = "none"

\* The disk under the path is the one of the second look, or late says so.
LookedAt ==
  pc \in {"umount", "open"} /\ ~late =>
    Look[port[target.path]] = Look[target.disk]

\* The open disk is a disk, and what was read back agrees with it.
OpenDisk ==
  /\ pc \in {"write", "sync", "reopen", "verify", "verified"} => fd \in Disk
  /\ pc = "verify" => cached = {} /\ (same => 1..done \subseteq media[fd])
  /\ pc = "verified" => media[fd] = Chunk

\* A success under way, or shown.
Success ==
  /\ \A i \in 1..Len(events) : events[i] = "ok" => media[fd] = Chunk
  /\ screen = "finished" /\ ~err => pc = "none" /\ media[fd] = Chunk

IInv ==
  /\ Shape /\ TargetIsListed /\ FlashingIsShown /\ LookedAt /\ OpenDisk
  /\ Success /\ WritesWhatWasChosen

----------------------------------------------------------------------------
LEMMA InitInv == Init => IInv
BY FlashConstants DEF Init, IInv, Shape, TargetIsListed, FlashingIsShown, LookedAt,
   OpenDisk, Success, WritesWhatWasChosen, Ports, Uses, Calls

\* While the goroutine runs its path is one, with a disk or none.
LEMMA Target ==
  ASSUME IInv, pc # "none"
  PROVE  target.path \in Path /\ port[target.path] \in Disk \cup {None}
BY DEF IInv, FlashingIsShown, TargetIsListed, Shape

\* Sticks that are moved and mounted.

LEMMA ReplugsInv == ASSUME IInv, Replugs PROVE IInv'
<1>1. PICK p \in Path, d \in (Disk \ Plugged) \cup {None} :
        /\ port' = [port EXCEPT ![p] = d]
        /\ use' = [e \in Disk |-> IF e = port[p] THEN "free" ELSE use[e]]
        /\ LET pulled == pc \in {"write", "sync", "reopen", "verify"} /\ fd = port[p] IN
           /\ gone' = (gone \/ pulled)
           /\ cached' = IF pulled THEN {} ELSE cached
           /\ dirty' = IF pulled THEN {} ELSE dirty
        /\ late' = (late \/ (pc \in {"umount", "open"} /\ p = target.path))
  BY DEF Replugs
<1>2. UNCHANGED <<media, screen, usb, target, err, events, pc, fd, done, same>>
  BY DEF Replugs, shown
<1>3. Shape'
  BY <1>1, <1>2 DEF IInv, Shape, Uses
<1>4. TargetIsListed' /\ FlashingIsShown' /\ Success'
  BY <1>1, <1>2 DEF IInv, TargetIsListed, FlashingIsShown, Success
<1>5. LookedAt'
  <2>1. pc \in {"umount", "open"} /\ ~late' => port'[target.path] = port[target.path]
    BY <1>1, Target DEF IInv, Shape
  <2>2. QED  BY <1>1, <1>2, <2>1 DEF IInv, LookedAt
<1>6. OpenDisk'
  BY <1>1, <1>2 DEF IInv, OpenDisk
<1>7. WritesWhatWasChosen'
  BY <1>1, <1>2 DEF IInv, OpenDisk, WritesWhatWasChosen, Shape
<1>8. QED  BY <1>3, <1>4, <1>5, <1>6, <1>7 DEF IInv

LEMMA DesktopMountsInv == ASSUME IInv, DesktopMounts PROVE IInv'
<1>1. PICK d \in Plugged, u \in {"media", "system"} :
        ~Claimed(d) /\ use' = [use EXCEPT ![d] = u]
  BY DEF DesktopMounts
<1>2. UNCHANGED <<port, stick, shown, events, writer>>
  BY DEF DesktopMounts
<1>3. Shape'
  BY <1>1, <1>2 DEF IInv, Shape, Uses, stick, writer
<1>4. TargetIsListed' /\ FlashingIsShown' /\ Success' /\ LookedAt' /\ OpenDisk'
  BY <1>2 DEF IInv, TargetIsListed, FlashingIsShown, Success, LookedAt, OpenDisk,
              stick, shown, writer
<1>5. WritesWhatWasChosen'
  BY <1>1, <1>2 DEF IInv, WritesWhatWasChosen, Claimed, Shape, OpenDisk, shown, writer
<1>6. QED  BY <1>3, <1>4, <1>5 DEF IInv

----------------------------------------------------------------------------
\* Keys and messages.

(* Keys that start nothing: the goroutine sleeps, or its screen stays.     *)
LEMMA KeysInv ==
  ASSUME IInv, UNCHANGED <<world, stick, events, pc, fd, gone, late, done, same>>,
         UNCHANGED <<screen, target>> \/ screen \in {"selecting", "confirming", "finished"},
         TargetIsListed',
         screen' # "flashing" \/ UNCHANGED screen,
         (screen' = "finished" /\ ~err') => (screen = "finished" /\ ~err)
  PROVE  IInv'
<1>1. Shape' /\ OpenDisk' /\ Success'
  BY DEF IInv, Shape, OpenDisk, Success, world, stick
<1>2. CASE UNCHANGED <<screen, target>>
  BY <1>1, <1>2 DEF IInv, FlashingIsShown, LookedAt, WritesWhatWasChosen, world
<1>3. CASE screen \in {"selecting", "confirming", "finished"}
  <2>1. pc = "none"
    BY <1>3 DEF IInv, FlashingIsShown
  <2>2. QED
    BY <1>1, <2>1 DEF IInv, FlashingIsShown, LookedAt, WritesWhatWasChosen
<1>4. QED  BY <1>2, <1>3

LEMMA ScreenInv ==
  ASSUME IInv, Rescans \/ MovesCursor \/ Chooses \/ Reconsiders \/ Cancels \/ Leaves
  PROVE  IInv'
<1>1. UNCHANGED <<world, stick, events, pc, fd, gone, late, done, same>>
  BY DEF Rescans, MovesCursor, Chooses, Reconsiders, Cancels, Leaves, writer, shown
<1>2. TargetIsListed'
  <2>1. CASE Rescans
    BY <2>1 DEF Rescans, Listed, IInv, TargetIsListed
  <2>2. CASE Chooses
    BY <2>2, FlashConstants DEF Chooses, IInv, TargetIsListed
  <2>3. CASE MovesCursor \/ Reconsiders \/ Cancels \/ Leaves
    BY <2>3 DEF MovesCursor, Reconsiders, Cancels, Leaves, IInv, TargetIsListed, shown
  <2>4. QED  BY <2>1, <2>2, <2>3
<1>3. UNCHANGED <<screen, target>> \/ screen \in {"selecting", "confirming", "finished"}
  BY DEF Rescans, MovesCursor, Chooses, Reconsiders, Cancels, Leaves, shown
<1>4. screen' # "flashing" \/ UNCHANGED screen
  BY DEF Rescans, MovesCursor, Chooses, Reconsiders, Cancels, Leaves, shown
<1>5. (screen' = "finished" /\ ~err') => (screen = "finished" /\ ~err)
  BY DEF Rescans, MovesCursor, Chooses, Reconsiders, Cancels, Leaves, shown
<1>6. QED  BY <1>1, <1>2, <1>3, <1>4, <1>5, KeysInv

LEMMA ConfirmsInv == ASSUME IInv, Confirms PROVE IInv'
<1>1. /\ UNCHANGED <<world, stick, target, usb, done>>
      /\ screen = "confirming" /\ screen' = "flashing"
      /\ events' = <<>> /\ pc' = "find"
  BY DEF Confirms
<1>2. Shape'
  BY <1>1 DEF IInv, Shape, Calls, world, stick
<1>3. TargetIsListed'
  BY <1>1 DEF IInv, TargetIsListed
<1>4. FlashingIsShown' /\ LookedAt' /\ OpenDisk' /\ Success' /\ WritesWhatWasChosen'
  BY <1>1 DEF FlashingIsShown, LookedAt, OpenDisk, Success, WritesWhatWasChosen
<1>5. QED  BY <1>2, <1>3, <1>4 DEF IInv

LEMMA TakesFirst ==
  ASSUME NEW q \in Seq({"progress", "ok", "error"}), q # <<>>
  PROVE  /\ Tail(q) \in Seq({"progress", "ok", "error"})
         /\ 1 \in 1..Len(q) /\ Head(q) = q[1]
         /\ Len(Tail(q)) = Len(q) - 1 /\ Len(q) \in Nat
         /\ \A i \in 1..Len(Tail(q)) : i + 1 \in 1..Len(q) /\ Tail(q)[i] = q[i + 1]
OBVIOUS

LEMMA MessagesInv == ASSUME IInv, ProgressArrives \/ DoneArrives PROVE IInv'
<1>1. PICK is : Receives(is)
  BY DEF ProgressArrives, DoneArrives
<1>2. events # <<>> /\ events' = Tail(events)
  BY <1>1 DEF Receives
<1>3. UNCHANGED <<world, stick, usb, target, writer>>
  BY DEF ProgressArrives, DoneArrives, shown
<1>4. Shape'
  BY <1>2, <1>3, TakesFirst DEF IInv, Shape, world, stick, writer
<1>5. \A i \in 1..Len(events') : \E j \in 1..Len(events) : events'[i] = events[j]
  BY <1>2, TakesFirst DEF IInv, Shape
<1>6. \A i \in 1..Len(events') :
        /\ events'[i] # "progress" => pc = "none"
        /\ events'[i] = "ok" => media[fd] = Chunk
  BY <1>5 DEF IInv, FlashingIsShown, Success
<1>7. OpenDisk'
  BY <1>3 DEF IInv, OpenDisk, stick, writer
<1>8. CASE ProgressArrives
  <2>1. UNCHANGED <<screen, err>>
    BY <1>8 DEF ProgressArrives, shown
  <2>2. QED
    BY <1>3, <1>4, <1>6, <1>7, <2>1 DEF IInv, TargetIsListed, FlashingIsShown, LookedAt,
       Success, WritesWhatWasChosen, world, stick, writer
<1>9. CASE DoneArrives
  <2>1. PICK end \in {"ok", "error"} : Receives(end) /\ err' = (end = "error")
    BY <1>9 DEF DoneArrives
  <2>2. screen' = "finished"
    BY <1>9 DEF DoneArrives
  <2>3. 1 \in 1..Len(events) /\ events[1] = end
    BY <1>2, <2>1, TakesFirst DEF Receives, IInv, Shape
  <2>4. pc = "none" /\ (~err' => media[fd] = Chunk)
    BY <2>1, <2>3 DEF IInv, FlashingIsShown, Success
  <2>5. QED
    BY <1>3, <1>4, <1>6, <1>7, <2>2, <2>4 DEF IInv, TargetIsListed, FlashingIsShown,
       LookedAt, Success, WritesWhatWasChosen, world, stick, writer
<1>10. QED  BY <1>8, <1>9

----------------------------------------------------------------------------
\* The goroutine.

(* A call of the goroutine that sends nothing leaves the screen alone, and *)
(* no end is in the channel.                                               *)
LEMMA CallInv ==
  ASSUME IInv, pc # "none", pc' \in Calls,
         UNCHANGED <<shown, events>>,
         Shape', LookedAt', OpenDisk', WritesWhatWasChosen'
  PROVE  IInv'
<1>1. screen = "flashing" /\ \A i \in 1..Len(events) : events[i] = "progress"
  BY DEF IInv, FlashingIsShown
<1>2. TargetIsListed' /\ FlashingIsShown' /\ Success'
  BY <1>1 DEF IInv, TargetIsListed, FlashingIsShown, Success, shown
<1>3. QED  BY <1>2 DEF IInv

LEMMA FindsInv == ASSUME IInv, Finds PROVE IInv'
<1>1. /\ pc = "find" /\ pc' \in {"umount", "open", "failed"}
      /\ pc' # "failed" => Look[port[target.path]] = Look[target.disk]
      /\ UNCHANGED <<world, stick, shown, events, fd, late, done, same>>
  BY DEF Finds, FoundIs, Goes, Fails
<1>2. Shape' /\ pc' \in Calls
  BY <1>1 DEF IInv, Shape, Calls, world, stick
<1>3. LookedAt' /\ OpenDisk' /\ WritesWhatWasChosen'
  BY <1>1 DEF LookedAt, OpenDisk, WritesWhatWasChosen, world, shown
<1>4. QED  BY <1>1, <1>2, <1>3, CallInv

LEMMA UnmountsInv == ASSUME IInv, Unmounts PROVE IInv'
<1>1. /\ pc = "umount" /\ pc' \in {"open", "failed"}
      /\ use' \in {use, [use EXCEPT ![found] = "free"]}
      /\ UNCHANGED <<port, stick, shown, events, fd, late, done, same>>
  BY DEF Unmounts, Goes, Fails
<1>2. Shape' /\ pc' \in Calls
  BY <1>1 DEF IInv, Shape, Calls, Uses, stick
<1>3. LookedAt' /\ OpenDisk' /\ WritesWhatWasChosen'
  BY <1>1 DEF IInv, LookedAt, OpenDisk, WritesWhatWasChosen, shown
<1>4. QED  BY <1>1, <1>2, <1>3, CallInv

LEMMA OpensInv == ASSUME IInv, Opens PROVE IInv'
<1>1. /\ pc = "open" /\ pc' \in {"write", "failed"}
      /\ pc' = "write" =>
           /\ fd' = port[target.path] /\ fd' # None
           /\ use[fd'] = "free" /\ done' = 0
      /\ pc' = "failed" => done' = done
      /\ dirty' = {}
      /\ UNCHANGED <<world, media, shown, events, late>>
  BY DEF Opens, StartsPhase, Goes, Fails
<1>2. Shape' /\ pc' \in Calls
  <2>1. done' \in 0..Chunks
    BY <1>1, FlashConstants DEF IInv, Shape
  <2>2. QED  BY <1>1, <2>1 DEF IInv, Shape, Calls, world
<1>3. LookedAt' /\ OpenDisk'
  BY <1>1, Target DEF LookedAt, OpenDisk
<1>4. WritesWhatWasChosen'
  BY <1>1 DEF IInv, LookedAt, WritesWhatWasChosen, world, shown
<1>5. QED  BY <1>1, <1>2, <1>3, <1>4, CallInv

LEMMA ReportsInv == ASSUME IInv, Reports PROVE IInv'
<1>1. /\ events' = Append(events, "progress")
      /\ UNCHANGED <<world, stick, shown, pc, fd, gone, late, done, same>>
  BY DEF Reports
<1>2. Shape'
  BY <1>1 DEF IInv, Shape, world, stick
<1>3. \A i \in 1..Len(events') :
        events'[i] # "progress" => \E j \in 1..Len(events) : events'[i] = events[j]
  BY <1>1 DEF IInv, Shape
<1>4. FlashingIsShown' /\ Success'
  BY <1>1, <1>3 DEF IInv, FlashingIsShown, Success, stick, shown
<1>5. TargetIsListed' /\ LookedAt' /\ OpenDisk' /\ WritesWhatWasChosen'
  BY <1>1 DEF IInv, TargetIsListed, LookedAt, OpenDisk, WritesWhatWasChosen,
              world, stick, shown
<1>6. QED  BY <1>2, <1>4, <1>5 DEF IInv

(* What a flush leaves on the disks are chunks.                            *)
LEMMA FlushesChunks ==
  ASSUME Shape, NEW chunks \in SUBSET Chunk, NEW next, Flushes(chunks, next)
  PROVE  /\ media' \in [Disk -> SUBSET Chunk] /\ dirty' \subseteq Chunk
         /\ pc' \in {next, "failed"}
<1>1. CASE Keeps(chunks) /\ dirty' = {} /\ Goes(next)
  <2>1. PICK lost \in IF fd \in Bad THEN SUBSET chunks ELSE {{}} :
          media' = [media EXCEPT ![fd] = (@ \cup chunks) \ lost]
    BY <1>1 DEF Keeps
  <2>2. media' \in [Disk -> SUBSET Chunk]
    BY <2>1 DEF Shape
  <2>3. QED  BY <1>1, <2>2 DEF Goes
<1>2. CASE UNCHANGED <<media, dirty>> /\ Fails
  BY <1>2 DEF Shape, Fails
<1>3. QED  BY <1>1, <1>2 DEF Flushes

LEMMA WritesChunkInv == ASSUME IInv, WritesChunk PROVE IInv'
<1>1. /\ pc = "write" /\ done \in 0..Chunks /\ done < Chunks
      /\ UNCHANGED <<world, shown, events, fd, gone, late, same>>
  BY DEF WritesChunk, IInv, Shape
<1>2. /\ pc' \in {"write", "failed"} /\ done' \in 0..Chunks
      /\ media' \in [Disk -> SUBSET Chunk] /\ dirty' \subseteq Chunk
  <2>1. CASE Stopped
    BY <1>1, <2>1 DEF WritesChunk, Fails, stick, IInv, Shape
  <2>2. CASE ~Stopped
    <3>1. done' = done + 1 /\ done' \in 0..Chunks /\ done' \in Chunk
      BY <1>1, <2>2, FlashConstants DEF WritesChunk, Chunk
    <3>2. dirty \cup {done'} \in SUBSET Chunk
      BY <3>1 DEF IInv, Shape
    <3>3. CASE done' % SyncEvery = 0
      <4>1. Flushes(dirty \cup {done'}, "write")
        BY <2>2, <3>3 DEF WritesChunk
      <4>2. QED  BY <3>1, <3>2, <4>1, FlushesChunks DEF IInv
    <3>4. CASE done' % SyncEvery # 0
      <4>1. dirty' = dirty \cup {done'} /\ UNCHANGED <<media, pc>>
        BY <2>2, <3>4 DEF WritesChunk
      <4>2. QED  BY <1>1, <3>1, <3>2, <4>1 DEF IInv, Shape
    <3>5. QED  BY <3>3, <3>4
  <2>3. QED  BY <2>1, <2>2
<1>3. Shape' /\ pc' \in Calls
  BY <1>1, <1>2 DEF IInv, Shape, Calls, world
<1>4. LookedAt' /\ OpenDisk' /\ WritesWhatWasChosen'
  BY <1>1, <1>2 DEF IInv, LookedAt, OpenDisk, WritesWhatWasChosen, world, shown
<1>5. QED  BY <1>1, <1>3, <1>4, CallInv

LEMMA SyncsInv == ASSUME IInv, Syncs PROVE IInv'
<1>1. /\ pc = "sync"
      /\ UNCHANGED <<world, shown, events, fd, gone, late, done, same>>
  BY DEF Syncs
<1>2. /\ pc' \in {"reopen", "failed"}
      /\ media' \in [Disk -> SUBSET Chunk] /\ dirty' \subseteq Chunk
  <2>1. CASE gone
    BY <2>1 DEF Syncs, Fails, stick, IInv, Shape
  <2>2. CASE ~gone
    <3>1. Flushes(dirty, "reopen")
      BY <2>2 DEF Syncs
    <3>2. QED  BY <3>1, FlushesChunks DEF IInv, Shape
  <2>3. QED  BY <2>1, <2>2
<1>3. Shape' /\ pc' \in Calls
  BY <1>1, <1>2 DEF IInv, Shape, Calls, world
<1>4. LookedAt' /\ OpenDisk' /\ WritesWhatWasChosen'
  BY <1>1, <1>2 DEF IInv, LookedAt, OpenDisk, WritesWhatWasChosen
<1>5. QED  BY <1>1, <1>3, <1>4, CallInv

LEMMA CallEndsInv == ASSUME IInv, CallFails \/ Written PROVE IInv'
<1>1. /\ pc # "none" /\ (pc' = "failed" \/ (pc = "write" /\ pc' = "sync"))
      /\ UNCHANGED <<world, stick, shown, events, fd, gone, late, done, same>>
  BY DEF CallFails, Written, Fails, Goes
<1>2. Shape' /\ pc' \in Calls
  BY <1>1 DEF IInv, Shape, Calls, world, stick
<1>3. LookedAt' /\ OpenDisk' /\ WritesWhatWasChosen'
  BY <1>1 DEF IInv, LookedAt, OpenDisk, WritesWhatWasChosen, world, shown
<1>4. QED  BY <1>1, <1>2, <1>3, CallInv

LEMMA ReopensInv == ASSUME IInv, Reopens PROVE IInv'
<1>1. /\ pc = "reopen" /\ pc' \in {"verify", "failed"}
      /\ pc' = "verify" =>
           /\ fd' = port[target.path] /\ fd' # None
           /\ done' = 0 /\ cached' = {}
      /\ pc' = "failed" => done' = done
      /\ UNCHANGED <<world, media, dirty, shown, events>>
  BY DEF Reopens, StartsPhase, Goes, Fails, DropsCache
<1>2. Shape' /\ pc' \in Calls
  <2>1. done' \in 0..Chunks
    BY <1>1, FlashConstants DEF IInv, Shape
  <2>2. QED  BY <1>1, <2>1 DEF IInv, Shape, Calls, world
<1>3. OpenDisk'
  <2>1. pc' = "verify" => fd' \in Disk /\ 1..done' = {}
    BY <1>1, Target
  <2>2. QED  BY <1>1, <2>1 DEF OpenDisk
<1>4. LookedAt' /\ WritesWhatWasChosen'
  BY <1>1 DEF LookedAt, WritesWhatWasChosen
<1>5. QED  BY <1>1, <1>2, <1>3, <1>4, CallInv

LEMMA ReadsChunkInv == ASSUME IInv, ReadsChunk PROVE IInv'
<1>1. /\ pc = "verify" /\ done \in 0..Chunks /\ done < Chunks
      /\ UNCHANGED <<world, stick, shown, events, fd>>
  BY DEF ReadsChunk, IInv, Shape
<1>2. \/ pc' = "failed" /\ done' = done
      \/ /\ pc' = "verify" /\ done' = done + 1
         /\ same' => same /\ done' \in cached \cup media[fd]
  BY <1>1 DEF ReadsChunk, Fails
<1>3. done' \in 0..Chunks
  BY <1>1, <1>2, FlashConstants
<1>4. Shape' /\ pc' \in Calls
  BY <1>1, <1>2, <1>3 DEF IInv, Shape, Calls, world, stick
<1>5. OpenDisk'
  <2>1. cached = {} /\ fd \in Disk /\ (same => 1..done \subseteq media[fd])
    BY <1>1 DEF IInv, OpenDisk
  <2>2. 1..done + 1 = (1..done) \cup {done + 1}
    BY <1>1
  <2>3. pc' = "verify" => (same' => 1..done' \subseteq media[fd])
    BY <1>2, <2>1, <2>2
  <2>4. QED  BY <1>1, <1>2, <2>1, <2>3 DEF OpenDisk, stick
<1>6. LookedAt' /\ WritesWhatWasChosen'
  BY <1>2 DEF LookedAt, WritesWhatWasChosen
<1>7. QED  BY <1>1, <1>4, <1>5, <1>6, CallInv

LEMMA ComparesInv == ASSUME IInv, Compares PROVE IInv'
<1>1. /\ pc = "verify" /\ done = Chunks
      /\ pc' = IF same THEN "verified" ELSE "failed"
      /\ UNCHANGED <<world, stick, shown, events, fd, done>>
  BY DEF Compares, Goes, Fails
<1>2. Shape' /\ pc' \in Calls
  BY <1>1 DEF IInv, Shape, Calls, world, stick
<1>3. fd \in Disk /\ (same => media[fd] = Chunk)
  BY <1>1 DEF IInv, OpenDisk, Shape, Chunk
<1>4. LookedAt' /\ OpenDisk' /\ WritesWhatWasChosen'
  BY <1>1, <1>3 DEF LookedAt, OpenDisk, WritesWhatWasChosen, stick
<1>5. QED  BY <1>1, <1>2, <1>4, CallInv

LEMMA EndsInv == ASSUME IInv, Ends PROVE IInv'
<1>1. /\ pc \in {"verified", "failed"} /\ pc' = "none"
      /\ events' = Append(events, IF pc = "verified" THEN "ok" ELSE "error")
      /\ fd' = IF pc = "verified" THEN fd ELSE None
      /\ dirty' = {} /\ done' = 0
      /\ UNCHANGED <<world, media, shown>>
  BY DEF Ends, Forgotten, Goes
<1>2. Shape'
  <2>1. events' \in Seq({"progress", "ok", "error"})
    BY <1>1 DEF IInv, Shape
  <2>2. QED  BY <1>1, <2>1, FlashConstants DEF IInv, Shape, world
<1>3. \A i \in 1..Len(events) : events[i] = "progress"
  BY <1>1 DEF IInv, FlashingIsShown
<1>4. \A i \in 1..Len(events') : events'[i] = "ok" => pc = "verified"
  BY <1>1, <1>3 DEF IInv, Shape
<1>5. screen = "flashing"
  BY <1>1 DEF IInv, FlashingIsShown
<1>6. Success'
  BY <1>1, <1>4, <1>5 DEF IInv, OpenDisk, Success, shown
<1>7. TargetIsListed' /\ FlashingIsShown' /\ LookedAt' /\ OpenDisk' /\ WritesWhatWasChosen'
  BY <1>1 DEF IInv, TargetIsListed, FlashingIsShown, LookedAt, OpenDisk,
              WritesWhatWasChosen, shown
<1>8. QED  BY <1>2, <1>6, <1>7 DEF IInv

----------------------------------------------------------------------------
LEMMA NextInv == IInv /\ [Next]_vars => IInv'
<1> SUFFICES ASSUME IInv, [Next]_vars PROVE IInv'
  OBVIOUS
<1>1. CASE UNCHANGED vars
  BY <1>1 DEF IInv, Shape, TargetIsListed, FlashingIsShown, LookedAt, OpenDisk, Success,
     WritesWhatWasChosen, vars, world, stick, shown, writer
<1>2. CASE Replugs \/ DesktopMounts
  BY <1>2, ReplugsInv, DesktopMountsInv
<1>3. CASE Screen
  BY <1>3, ScreenInv, ConfirmsInv, MessagesInv DEF Screen
<1>4. CASE Write
  BY <1>4, FindsInv, UnmountsInv, OpensInv, ReportsInv, WritesChunkInv, SyncsInv,
     CallEndsInv, ReopensInv, ReadsChunkInv, ComparesInv, EndsInv DEF Write
<1>5. QED  BY <1>1, <1>2, <1>3, <1>4 DEF Next

LEMMA InvHolds == Spec => []IInv
BY InitInv, NextInv, PTL DEF Spec

(* A success on the screen is the whole image on the stick that was read   *)
(* back: whatever a bad stick, the cache, a failed flush or a swap between *)
(* writing and reading did, reading back would have noticed.               *)
THEOREM SuccessIsAlwaysTheImage == Spec => []SuccessIsTheImage
<1>1. IInv => SuccessIsTheImage
  BY DEF IInv, Success, SuccessIsTheImage
<1>2. QED  BY <1>1, InvHolds, PTL

(* No disk is written that looks different from the one whose name was     *)
(* typed, or that is mounted, except one that took the path after the      *)
(* second look and before the opening.                                     *)
THEOREM OnlyTheChosenIsWritten == Spec => []WritesWhatWasChosen
<1>1. IInv => WritesWhatWasChosen
  BY DEF IInv
<1>2. QED  BY <1>1, InvHolds, PTL

----------------------------------------------------------------------------
\* What the inductive invariant leaves out of the types.

Flags ==
  /\ screen \in {"selecting", "confirming", "flashing", "finished", "quit"}
  /\ waiting \in BOOLEAN /\ err \in BOOLEAN
  /\ gone \in BOOLEAN /\ late \in BOOLEAN /\ unsent \in BOOLEAN /\ same \in BOOLEAN
  /\ ctx \in BOOLEAN

Counts ==
  /\ replugs \in 0..MaxEvents /\ flashes \in 0..MaxFlashes
  /\ Len(events) <= Capacity

\* A disk is at one path; the entries shown and chosen are disks at paths.
Disks ==
  /\ \A p, q \in Path : port[p] = port[q] /\ port[p] # None => p = q
  /\ \E listed \in SUBSET Path : usb \in [listed -> Disk]
  /\ target \in Entry \cup {None}
  /\ found \in Disk \cup {None} /\ fd \in Disk \cup {None}

\* What is to be written is in the cache; nothing is when reading back begins.
Cache ==
  /\ dirty \subseteq cached /\ cached \subseteq Chunk
  /\ pc = "reopen" => dirty = {}

LEMMA FlagsKept == ASSUME Flags, [Next]_vars PROVE Flags'
<1>1. CASE UNCHANGED vars
  BY <1>1 DEF Flags, vars, shown, writer
<1>2. CASE Replugs
  BY <1>2 DEF Replugs, Flags, shown, writer
<1>3. CASE DesktopMounts
  BY <1>3 DEF DesktopMounts, Flags, shown, writer
<1>4. CASE Rescans \/ MovesCursor \/ Chooses
  BY <1>4 DEF Rescans, MovesCursor, Chooses, Flags, shown, writer
<1>5. CASE Reconsiders \/ Confirms \/ Cancels
  BY <1>5 DEF Reconsiders, Confirms, Cancels, Flags, shown, writer
<1>6. CASE ProgressArrives \/ DoneArrives
  BY <1>6 DEF ProgressArrives, DoneArrives, Flags, shown, writer
<1>7. CASE Leaves
  BY <1>7 DEF Leaves, Flags, shown, writer
<1>8. CASE Finds \/ Unmounts \/ Reports \/ CallFails \/ Written
  BY <1>8 DEF Finds, Unmounts, Reports, CallFails, Written, Flags, shown
<1>9. CASE Opens \/ Reopens
  BY <1>9 DEF Opens, Reopens, StartsPhase, Flags, shown
<1>10. CASE WritesChunk
  BY <1>10 DEF WritesChunk, Flags, shown
<1>11. CASE Syncs
  BY <1>11 DEF Syncs, Flags, shown
<1>12. CASE Compares \/ Ends
  BY <1>12 DEF Compares, Ends, Forgotten, Flags, shown
<1>13. CASE ReadsChunk
  BY <1>13 DEF ReadsChunk, Flags, shown
<1>14. QED
  BY <1>1, <1>2, <1>3, <1>4, <1>5, <1>6, <1>7, <1>8, <1>9, <1>10, <1>11, <1>12, <1>13
     DEF Next, Screen, Write

LEMMA CountsKept == ASSUME Shape, Counts, [Next]_vars PROVE Counts'
<1> USE FlashConstants
<1>1. replugs' \in 0..MaxEvents
  <2>1. replugs' = replugs \/ (replugs < MaxEvents /\ replugs' = replugs + 1)
    BY DEF Next, Replugs, DesktopMounts, Screen, Rescans, MovesCursor, Chooses, Reconsiders,
       Confirms, Cancels, ProgressArrives, DoneArrives, Leaves, Write, Finds, Unmounts, Opens,
       Reports, WritesChunk, CallFails, Written, Syncs, Reopens, ReadsChunk, Compares, Ends,
       vars, world
  <2>2. QED  BY <2>1 DEF Counts
<1>2. flashes' \in 0..MaxFlashes
  <2>1. flashes' = flashes \/ (flashes < MaxFlashes /\ flashes' = flashes + 1)
    BY DEF Next, Replugs, DesktopMounts, Screen, Rescans, MovesCursor, Chooses, Reconsiders,
       Confirms, Cancels, ProgressArrives, DoneArrives, Leaves, Write, Finds, Unmounts, Opens,
       Reports, WritesChunk, CallFails, Written, Syncs, Reopens, ReadsChunk, Compares, Ends,
       vars, writer
  <2>2. QED  BY <2>1 DEF Counts
<1>3. Len(events') <= Capacity
  <2>1. \/ events' = events \/ events' = <<>>
        \/ events # <<>> /\ events' = Tail(events)
        \/ Len(events) < Capacity /\ \E e \in {"progress", "ok", "error"} : events' = Append(events, e)
    BY DEF Next, Replugs, DesktopMounts, Screen, Rescans, MovesCursor, Chooses, Reconsiders,
       Confirms, Cancels, ProgressArrives, DoneArrives, Receives, Leaves, Write, Finds, Unmounts,
       Opens, Reports, WritesChunk, CallFails, Written, Syncs, Reopens, ReadsChunk, Compares,
       Ends, vars
  <2>2. QED  BY <2>1, TakesFirst DEF Counts, Shape
<1>4. QED  BY <1>1, <1>2, <1>3 DEF Counts

LEMMA DisksKept == ASSUME IInv, Disks, [Next]_vars PROVE Disks'
<1>1. CASE UNCHANGED vars
  BY <1>1 DEF Disks, vars, world, shown, writer
<1>2. CASE Replugs
  <2>1. PICK p \in Path, d \in (Disk \ Plugged) \cup {None} : port' = [port EXCEPT ![p] = d]
    BY <1>2 DEF Replugs
  <2>2. \A q, r \in Path : port'[q] = port'[r] /\ port'[q] # None => q = r
    BY <2>1 DEF Disks, IInv, Shape, Plugged
  <2>3. QED  BY <1>2, <2>2 DEF Replugs, Disks, shown
<1>3. CASE Rescans
  <2>1. usb' = Listed /\ UNCHANGED <<port, target, found, fd>>
    BY <1>3 DEF Rescans, world, writer
  <2>2. Listed \in [{q \in Path : Safe(port[q])} -> Disk]
    BY DEF Listed, Safe, IInv, Shape
  <2>3. QED  BY <2>1, <2>2 DEF Disks
<1>4. CASE Chooses
  <2>1. PICK p \in DOMAIN usb : target' = [path |-> p, disk |-> usb[p]]
    BY <1>4 DEF Chooses
  <2>2. target' \in Entry
    BY <2>1 DEF Disks, Entry
  <2>3. QED  BY <1>4, <2>2 DEF Chooses, Disks, world, writer
<1>5. CASE MovesCursor \/ Reconsiders \/ Confirms \/ Cancels \/ ProgressArrives \/ DoneArrives
  BY <1>5 DEF MovesCursor, Reconsiders, Confirms, Cancels, ProgressArrives, DoneArrives,
     Disks, world, shown, writer
<1>6. CASE Leaves
  <2>1. usb' = usb \/ usb' \in [{} -> Disk]
    <3>1. <<>> \in [{} -> Disk]
      OBVIOUS
    <3>2. usb' = usb \/ usb' = <<>>
      BY <1>6 DEF Leaves
    <3>3. QED  BY <3>1, <3>2
  <2>2. \E listed \in SUBSET Path : usb' \in [listed -> Disk]
    BY <2>1 DEF Disks
  <2>3. QED  BY <1>6, <2>2 DEF Leaves, Disks, world, writer
<1>7. CASE Finds
  <2>1. pc # "none"
    BY <1>7 DEF Finds
  <2>2. found' \in {found, port[target.path]}
    BY <1>7 DEF Finds, FoundIs
  <2>3. QED  BY <1>7, <2>1, <2>2, Target DEF Finds, Disks, world, shown
<1>8. CASE Opens \/ Reopens
  <2>1. pc # "none"
    BY <1>8 DEF Opens, Reopens
  <2>2. fd' \in {fd, port[target.path]}
    BY <1>8 DEF Opens, Reopens
  <2>3. QED  BY <1>8, <2>1, <2>2, Target DEF Opens, Reopens, Disks, world, shown
<1>9. CASE Unmounts \/ Reports \/ WritesChunk \/ CallFails \/ DesktopMounts
  BY <1>9 DEF Unmounts, Reports, WritesChunk, CallFails, DesktopMounts, Disks, world, shown, writer
<1>10. CASE Written \/ Syncs \/ ReadsChunk \/ Compares \/ Ends
  BY <1>10 DEF Written, Syncs, ReadsChunk, Compares, Ends, Disks, world, shown
<1>11. QED
  BY <1>1, <1>2, <1>3, <1>4, <1>5, <1>6, <1>7, <1>8, <1>9, <1>10 DEF Next, Screen, Write

LEMMA CacheKept == ASSUME IInv, Cache, [Next]_vars PROVE Cache'
<1>1. CASE UNCHANGED <<stick, pc>>
  BY <1>1 DEF Cache, stick
<1>2. CASE Replugs
  BY <1>2 DEF Replugs, Cache
<1>3. CASE Confirms \/ Finds \/ Unmounts \/ CallFails \/ Written \/ Compares \/ ReadsChunk
  BY <1>3 DEF Confirms, Finds, FoundIs, Goes, Fails, Unmounts, CallFails, Written, Compares,
     ReadsChunk, Cache, stick
<1>4. CASE Opens \/ Reopens \/ Ends
  BY <1>4 DEF Opens, Reopens, Ends, Goes, Fails, DropsCache, Cache
<1>5. CASE WritesChunk
  <2>1. CASE Stopped
    BY <1>5, <2>1 DEF WritesChunk, Fails, stick, Cache
  <2>2. CASE ~Stopped
    <3>1. /\ done' = done + 1 /\ done < Chunks
          /\ cached' = cached \cup {done'}
      BY <1>5, <2>2 DEF WritesChunk
    <3>2. done' \in Chunk
      BY <3>1, FlashConstants DEF IInv, Shape, Chunk
    <3>3. pc' # "reopen" /\ dirty' \subseteq dirty \cup {done'}
      BY <1>5, <2>2 DEF WritesChunk, Flushes, Goes, Fails
    <3>4. QED  BY <3>1, <3>2, <3>3 DEF Cache
  <2>3. QED  BY <2>1, <2>2
<1>6. CASE Syncs
  <2>1. CASE gone
    BY <1>6, <2>1 DEF Syncs, Fails, stick, Cache
  <2>2. CASE ~gone
    <3>1. /\ cached' \in {cached, {}} /\ dirty' \subseteq cached'
          /\ pc' = "reopen" => dirty' = {}
      BY <1>6, <2>2 DEF Syncs, Flushes, Goes, Fails
    <3>2. QED  BY <3>1 DEF Cache
  <2>3. QED  BY <2>1, <2>2
<1>7. QED
  BY <1>1, <1>2, <1>3, <1>4, <1>5, <1>6
     DEF Next, DesktopMounts, Screen, Rescans, MovesCursor, Chooses, Reconsiders, Cancels,
         ProgressArrives, DoneArrives, Leaves, Write, Reports, vars, writer

(* The cursor stays in the list.                                           *)
LEMMA LastOfNat ==
  ASSUME NEW listed \in SUBSET Path, NEW list \in [listed -> Disk]
  PROVE  LastOf(list) \in Nat
<1>1. IsFiniteSet(Path)
  <2>1. DOMAIN Paths = 1..Len(Paths) /\ Len(Paths) \in Nat
    BY FlashConstants
  <2>2. IsFiniteSet(DOMAIN Paths)
    BY <2>1, FS_Interval
  <2>3. Paths \in Surjection(DOMAIN Paths, Path)
    <3>1. Paths \in [DOMAIN Paths -> Path]
      BY FlashConstants DEF Path
    <3>2. QED  BY <3>1, Fun_IsSurj DEF Path
  <2>4. QED  BY <2>2, <2>3, FS_Surjection
<1>2. IsFiniteSet(listed)
  BY <1>1, FS_Subset
<1>3. CASE list = <<>>
  BY <1>3 DEF LastOf
<1>4. CASE list # <<>>
  <2>1. listed # {}
    BY <1>4
  <2>2. Cardinality(listed) \in Nat /\ Cardinality(listed) # 0
    BY <1>2, <2>1, FS_CardinalityType, FS_EmptySet
  <2>3. QED  BY <1>4, <2>2 DEF LastOf
<1>5. QED  BY <1>3, <1>4

LEMMA CursorKept ==
  ASSUME Disks, Disks', cursor \in 0..LastOf(usb), [Next]_vars
  PROVE  cursor' \in 0..LastOf(usb')
<1>1. LastOf(usb) \in Nat /\ LastOf(usb') \in Nat
  BY LastOfNat DEF Disks
<1>2. CASE Rescans
  BY <1>1, <1>2 DEF Rescans, Lesser
<1>3. CASE MovesCursor
  BY <1>1, <1>3 DEF MovesCursor, Lesser
<1>4. CASE Leaves
  BY <1>1, <1>4 DEF Leaves
<1>5. CASE UNCHANGED <<usb, cursor>>
  BY <1>5
<1>6. QED
  BY <1>2, <1>3, <1>4, <1>5
     DEF Next, Replugs, DesktopMounts, Screen, Chooses, Reconsiders, Confirms, Cancels,
         ProgressArrives, DoneArrives, Write, Finds, Unmounts, Opens, Reports, WritesChunk,
         CallFails, Written, Syncs, Reopens, ReadsChunk, Compares, Ends, vars, shown

(* Every variable keeps its shape: a disk is at one path, the cursor is in *)
(* the list, what is to be written is cached, and the channel never holds  *)
(* more than its capacity.                                                 *)
THEOREM FlashTypeCorrect == Spec => []TypeOK
<1> DEFINE Types == Flags /\ Counts /\ Disks /\ Cache /\ cursor \in 0..LastOf(usb)
<1>1. Init => Types
  <2> SUFFICES ASSUME Init PROVE Types
    OBVIOUS
  <2>1. Flags /\ Counts /\ Cache
    <3>1. Counts
      BY FlashConstants DEF Init, Counts
    <3>2. QED  BY <3>1 DEF Init, Flags, Cache
  <2>2. usb \in [{} -> Disk]
    BY DEF Init
  <2>3. Disks
    BY <2>2 DEF Init, Ports, Disks
  <2>4. cursor \in 0..LastOf(usb)
    BY DEF Init, LastOf
  <2>5. QED  BY <2>1, <2>3, <2>4
<1>2. IInv /\ Types /\ [Next]_vars => Types'
  BY FlagsKept, CountsKept, DisksKept, CacheKept, CursorKept DEF IInv
<1>3. IInv /\ Types => TypeOK
  <2> SUFFICES ASSUME IInv, Types PROVE TypeOK
    OBVIOUS
  <2>1. port \in Ports
    BY DEF IInv, Shape, Disks, Ports
  <2>2. {waiting, err, gone, late, unsent, same, ctx} \subseteq BOOLEAN
    BY DEF Flags
  <2>3. QED
    BY <2>1, <2>2 DEF IInv, Shape, Calls, Flags, Counts, Disks, Cache, TypeOK
<1>4. QED  BY <1>1, <1>2, <1>3, InvHolds, PTL DEF Spec
=============================================================================
