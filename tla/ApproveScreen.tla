--------------------------- MODULE ApproveScreen ---------------------------
(***************************************************************************)
(* The coordinator's screen for requests and members                       *)
(* (internal/tui/approve.go). The screen shows a snapshot of the registry; *)
(* every two seconds, and after every decision, a goroutine reads a new    *)
(* one, and the snapshots arrive as messages, in any order, between the    *)
(* keys. The registry meanwhile changes under it: machines ask, requests   *)
(* expire, another admin decides.                                          *)
(*                                                                         *)
(* The admin looks at the screen, chooses a key, and presses it a moment   *)
(* later. The registry's own rules are Registry's matter: here it is the   *)
(* list of waiting requests and the list of members.                       *)
(*                                                                         *)
(* The names of its specification begin with Screen, so that a module can  *)
(* extend joining and the screen it is decided on together.                *)
(***************************************************************************)
EXTENDS Integers, Sequences

CONSTANTS
  Id,         \* the identifiers of requests
  NameOf,     \* NameOf[i]: the machine name of request i
  Coord,      \* the coordinator's name
  None,       \* no name, nothing in sight, no load
  Reading,    \* a load that has not read the file yet
  MaxLoads,   \* bound on the snapshots under way
  MaxEvents   \* bound on what happens to the registry from elsewhere

ASSUME ScreenConstants ==
  /\ \A i \in Id : NameOf[i] # Coord
  /\ None \notin Id
  /\ MaxLoads \in Nat \ {0}
  /\ MaxEvents \in Nat

VARIABLES
  pend, mem,  \* the registry: waiting requests, names of the members
  st,         \* the snapshot on the screen
  cursor,     \* the selected item, requests first, counted from 0
  confirm,    \* the member whose removal waits for y
  loads,      \* loads[l]: a snapshot being read (Reading) or under way
  tick,       \* whether a tick is scheduled
  seen,       \* what the admin is about to press, and what it is meant for
  done,       \* history: the screen's last change of the registry
  events,
  open        \* the program runs; FALSE after an index out of range

lists == <<pend, mem>>
screenVars == <<pend, mem, st, cursor, confirm, loads, tick, seen, done, events, open>>

Names == {Coord} \cup {NameOf[i] : i \in Id}
Slot  == 1..MaxLoads

Snapshot == [pend |-> pend, mem |-> mem]
Empty    == [pend |-> <<>>, mem |-> <<>>]
Nothing  == [key |-> "none", for |-> None]

Items(s) == Len(s.pend) + Len(s.mem)

Least(x, y) == IF x < y THEN x ELSE y

Snapshots == [pend: Seq(Id), mem: Seq(Names)]

Listed(s, e) == \E k \in DOMAIN s : s[k] = e

Dropped(s, e) ==
  LET k == CHOOSE k \in DOMAIN s : s[k] = e
  IN  SubSeq(s, 1, k - 1) \o SubSeq(s, k + 1, Len(s))

ScreenInit ==
  /\ pend = <<>>
  /\ mem = <<Coord>>
  /\ st = Empty
  /\ cursor = 0
  /\ confirm = None
  /\ loads = [l \in Slot |-> IF l = 1 THEN Reading ELSE None]
  /\ tick = TRUE
  /\ seen = Nothing
  /\ done = Nothing
  /\ events = 0
  /\ open = TRUE

----------------------------------------------------------------------------
\* Snapshots and ticks.

StartLoad ==
  IF \E l \in Slot : loads[l] = None
    THEN loads' = [loads EXCEPT ![CHOOSE l \in Slot : loads[l] = None] = Reading]
    ELSE UNCHANGED loads

Reads(l) ==
  /\ loads[l] = Reading
  /\ loads' = [loads EXCEPT ![l] = Snapshot]
  /\ UNCHANGED <<lists, st, cursor, confirm, tick, seen, done, events, open>>

\* The registry cannot be loaded: there is nothing to show but the error. (When
\* only the write of Read's update fails, the snapshot is that of Reads.)
ReadFails(l) ==
  /\ loads[l] = Reading
  /\ events < MaxEvents
  /\ events' = events + 1
  /\ loads' = [loads EXCEPT ![l] = Empty]
  /\ UNCHANGED <<lists, st, cursor, confirm, tick, seen, done, open>>

\* Update with a stateMsg.
Shows(l) ==
  /\ open
  /\ loads[l] \notin {None, Reading}
  /\ st' = loads[l]
  /\ cursor' = Least(cursor, IF Items(st') = 0 THEN 0 ELSE Items(st') - 1)
  /\ loads' = [loads EXCEPT ![l] = None]
  /\ UNCHANGED <<lists, confirm, tick, seen, done, events, open>>

\* Mutant: the tick loads once and is not scheduled again.
Ticks_Once ==
  /\ open /\ tick
  /\ tick' = FALSE
  /\ StartLoad
  /\ UNCHANGED <<lists, st, cursor, confirm, seen, done, events, open>>

\* Update with an approveTick: Init loads and schedules the next one.
Ticks ==
  /\ open /\ tick
  /\ tick' = TRUE
  /\ StartLoad
  /\ UNCHANGED <<lists, st, cursor, confirm, seen, done, events, open>>

----------------------------------------------------------------------------
\* The admin.

Selected == IF cursor < Len(st.pend) THEN st.pend[cursor + 1] ELSE None

\* The admin compares the code of the selected request and will press a or r,
\* or will press d for the selected member, or y for the name in the question.
Looks ==
  /\ open /\ seen = Nothing
  /\ \/ /\ confirm = None
        /\ \/ \E k \in {"a", "r"} :
                Selected # None /\ seen' = [key |-> k, for |-> Selected]
           \/ \E k \in {"d", "up", "down"} : seen' = [key |-> k, for |-> None]
     \/ /\ confirm # None
        /\ \E k \in {"y", "n"} : seen' = [key |-> k, for |-> confirm]
  /\ UNCHANGED <<lists, st, cursor, confirm, loads, tick, done, events, open>>

Presses(k) == open /\ seen.key = k /\ seen' = Nothing

MovesCursor ==
  /\ \/ Presses("up") /\ cursor' = IF cursor = 0 THEN 0 ELSE cursor - 1
     \/ Presses("down") /\ cursor' = Least(cursor + 1, IF Items(st) = 0 THEN 0 ELSE Items(st) - 1)
  /\ UNCHANGED <<lists, st, confirm, loads, tick, done, events, open>>

\* store.Update with Approve or Reject of the request under the cursor now;
\* a request that is not waiting any more is an error and changes nothing.
Decides ==
  /\ Presses("a") \/ Presses("r")
  /\ IF Selected # None /\ Listed(pend, Selected)
       THEN /\ pend' = Dropped(pend, Selected)
            /\ mem' = IF seen.key = "a" THEN Append(mem, NameOf[Selected]) ELSE mem
            /\ done' = [key |-> seen.key, for |-> Selected, meant |-> seen.for]
       ELSE UNCHANGED <<lists, done>>
  /\ IF Selected # None THEN StartLoad ELSE UNCHANGED loads
  /\ UNCHANGED <<st, cursor, confirm, tick, events, open>>

\* d asks for a confirmation; members[cursor - len(pending)] must exist.
AsksToRemove ==
  /\ Presses("d")
  /\ LET i == cursor - Len(st.pend) + 1 IN
     IF i < 1
       THEN UNCHANGED <<confirm, open>>
       ELSE IF i > Len(st.mem)
         THEN open' = FALSE /\ UNCHANGED confirm
         ELSE /\ confirm' = IF st.mem[i] = Coord THEN None ELSE st.mem[i]
              /\ UNCHANGED open
  /\ UNCHANGED <<lists, st, cursor, loads, tick, done, events>>

\* Mutant: y removes the member under the cursor.
Removes_Selected ==
  /\ Presses("y")
  /\ confirm' = None
  /\ LET i == cursor - Len(st.pend) + 1 IN
     IF i \in DOMAIN st.mem /\ Listed(mem, st.mem[i]) /\ st.mem[i] # Coord
       THEN /\ mem' = Dropped(mem, st.mem[i])
            /\ done' = [key |-> "y", for |-> st.mem[i], meant |-> seen.for]
       ELSE UNCHANGED <<mem, done>>
  /\ StartLoad
  /\ UNCHANGED <<pend, st, cursor, tick, events, open>>

\* y removes the member of the question by its name.
Removes ==
  /\ Presses("y")
  /\ confirm' = None
  /\ IF Listed(mem, confirm)
       THEN /\ mem' = Dropped(mem, confirm)
            /\ done' = [key |-> "y", for |-> confirm, meant |-> seen.for]
       ELSE UNCHANGED <<mem, done>>
  /\ StartLoad
  /\ UNCHANGED <<pend, st, cursor, tick, events, open>>

KeepsMember ==
  /\ Presses("n")
  /\ confirm' = None
  /\ UNCHANGED <<lists, st, cursor, loads, tick, done, events, open>>

----------------------------------------------------------------------------
\* The registry changes from elsewhere.

Elsewhere ==
  /\ events < MaxEvents
  /\ events' = events + 1
  /\ \E i \in Id :
       \/ /\ ~Listed(mem, NameOf[i])                       \* a machine asks
          /\ \A k \in DOMAIN pend : NameOf[pend[k]] # NameOf[i]
          /\ pend' = Append(pend, i) /\ mem' = mem
       \/ /\ Listed(pend, i)                      \* expires, or is rejected
          /\ pend' = Dropped(pend, i) /\ mem' = mem
       \/ /\ Listed(pend, i)                                  \* is approved
          /\ pend' = Dropped(pend, i) /\ mem' = Append(mem, NameOf[i])
       \/ /\ Listed(mem, NameOf[i])                            \* is removed
          /\ mem' = Dropped(mem, NameOf[i]) /\ pend' = pend
  /\ UNCHANGED <<st, cursor, confirm, loads, tick, seen, done, open>>

ScreenNext ==
  \/ \E l \in Slot : Reads(l) \/ ReadFails(l) \/ Shows(l)
  \/ Ticks \/ Looks \/ MovesCursor \/ Decides \/ AsksToRemove \/ Removes \/ KeepsMember
  \/ Elsewhere

ScreenSpec == ScreenInit /\ [][ScreenNext]_screenVars

\* The event loop of the program runs, and so do its goroutines.
ScreenFairSpec ==
  /\ ScreenSpec
  /\ WF_screenVars(Ticks)
  /\ \A l \in Slot : WF_screenVars(Reads(l)) /\ WF_screenVars(Shows(l))

----------------------------------------------------------------------------
ScreenTypeOK ==
  /\ pend \in Seq(Id) /\ mem \in Seq(Names)
  /\ st \in Snapshots
  /\ cursor \in Nat
  /\ confirm \in Names \cup {None}
  /\ loads \in [Slot -> Snapshots \cup {None, Reading}]
  /\ tick \in BOOLEAN /\ open \in BOOLEAN
  /\ events \in 0..MaxEvents

(* A removal removes the member whose name stood in the question when the  *)
(* admin chose y, though the list under the cursor has changed meanwhile.  *)
RemovesWhatWasAsked == done.key = "y" => done.for = done.meant

(* The cursor stands on an item of the lists on the screen, though these   *)
(* are replaced under it by shorter and longer ones: a key that indexes    *)
(* them with it ends the program only when there was nothing to show.      *)
CursorIsOnAnItem ==
  /\ Items(st) # 0 => cursor < Items(st)
  /\ ~open => Items(st) = 0

(* Whatever order snapshots arrive in, the screen comes to show what the   *)
(* registry holds, and stays with it once nothing happens any more. Unless *)
(* d was pressed with nothing to show, which ends the program.             *)
ShowsRegistry == <>[](open => st = Snapshot)
=============================================================================
