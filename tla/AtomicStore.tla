---------------------------- MODULE AtomicStore ----------------------------
(***************************************************************************)
(* What Store.Update and Store.Read promise their callers                  *)
(* (internal/registry/registry.go): a call takes effect in one step        *)
(* between its start and its return and has then seen the registry as it   *)
(* was left in that step; a call that returns nil stays in effect, a call  *)
(* that returns an error left no trace. A caller may die at any point;     *)
(* then it does not know whether its call took effect, and may call again. *)
(***************************************************************************)
CONSTANTS
  Proc,   \* the processes that call
  Reader  \* those that also read

VARIABLES
  saved,  \* the callers whose change is in the registry
  reading,  \* the processes whose call is Read
  phase,  \* phase[p]: where caller p is
  seen    \* seen[p]: the registry as the call of p that took effect has it

vars == <<saved, reading, phase, seen>>

Phase == {"idle", "called", "applied", "ok", "failed"}

TypeOK ==
  /\ saved \subseteq Proc
  /\ reading \subseteq Reader
  /\ phase \in [Proc -> Phase]
  /\ seen \in [Proc -> SUBSET Proc]

Init ==
  /\ saved = {}
  /\ reading = {}
  /\ phase = [p \in Proc |-> "idle"]
  /\ seen = [p \in Proc |-> {}]

Move(p, from, to) ==
  /\ phase[p] \in from
  /\ phase' = [phase EXCEPT ![p] = to]

Forget(p) == seen' = [seen EXCEPT ![p] = {}]

Call(p) ==
  /\ Move(p, {"idle"}, "called")
  /\ \/ reading' = reading \ {p}
     \/ p \in Reader /\ reading' = reading \cup {p}
  /\ UNCHANGED <<saved, seen>>

Apply(p) ==
  /\ Move(p, {"called"}, "applied")
  /\ saved' = IF p \in reading THEN saved ELSE saved \cup {p}
  /\ seen' = [seen EXCEPT ![p] = saved']
  /\ UNCHANGED reading

Return(p) == Move(p, {"applied"}, "ok") /\ UNCHANGED <<saved, reading, seen>>

Fail(p) == Move(p, {"called"}, "failed") /\ UNCHANGED <<saved, reading, seen>>

Die(p) ==
  Move(p, {"called", "applied"}, "idle") /\ Forget(p) /\ UNCHANGED <<saved, reading>>

Again(p) ==
  Move(p, {"ok", "failed"}, "idle") /\ Forget(p) /\ UNCHANGED <<saved, reading>>

Next ==
  \E p \in Proc :
    Call(p) \/ Apply(p) \/ Return(p) \/ Fail(p) \/ Die(p) \/ Again(p)

Spec == Init /\ [][Next]_vars
=============================================================================
