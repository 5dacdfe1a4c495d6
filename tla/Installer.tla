----------------------------- MODULE Installer -----------------------------
(***************************************************************************)
(* What Install promises to the setup screen that calls it, and to the     *)
(* person in front of it (Backend in internal/install/install.go): until   *)
(* the release of all chosen disks has ended nothing is written, an error  *)
(* up to then leaves every disk as it was; after that only chosen disks    *)
(* are written; servers that need none of them keep starting, and those    *)
(* that do never start half-erased; and the call ends well only with a     *)
(* server that consists of all that was chosen. Whether something still    *)
(* uses a disk is not part of the promise (ErasedWhenFree of Installation).*)
(***************************************************************************)
CONSTANTS
  Disk,
  Content      \* what may be on a disk

VARIABLES
  call,        \* where the call of Install is, or "none", or a server runs
  ch,          \* the answers: the system disk and the data disks
  content,     \* content[d]: what is on d
  server,      \* server[d]: the disks that the server starting from d needs
  booted       \* the disk the running server was started from

vars == <<call, ch, content, server, booted>>

Answers ==
  {c \in [system: Disk, others: SUBSET Disk] : c.system \notin c.others}

Wanted == {ch.system} \cup ch.others

\* Only these disks are written.
Touches(written) ==
  /\ content' \in [Disk -> Content]
  /\ \A d \in Disk \ written : content'[d] = content[d]

Init ==
  /\ call = "none"
  /\ ch \in Answers
  /\ content \in [Disk -> Content]
  /\ server = [d \in Disk |-> {}]
  /\ booted \notin Disk

----------------------------------------------------------------------------
Installs ==
  /\ call \in {"none", "error"}
  /\ call' = "releasing"
  /\ UNCHANGED <<ch, content, server, booted>>

\* The last moment at which nothing is lost.
Releases ==
  /\ call = "releasing"
  /\ call' \in {"writing", "error"}
  /\ UNCHANGED <<ch, content, server, booted>>

\* A server that needs the disk does not start any more, on whichever disk
\* it is.
Erases(d) ==
  /\ call = "writing"
  /\ call' \in {"writing", "error"}
  /\ Touches({d})
  /\ server' = [e \in Disk |-> IF d \in server[e] THEN {} ELSE server[e]]
  /\ UNCHANGED <<ch, booted>>

Writes ==
  /\ call = "writing"
  /\ call' \in {"writing", "error"}
  /\ Touches(Wanted)
  /\ UNCHANGED <<ch, server, booted>>

\* The last command may have done its work and count as failed.
Completes ==
  /\ call = "writing"
  /\ call' \in {"ok", "error"}
  /\ \A d \in Disk : server[d] \cap Wanted = {}
  /\ Touches({ch.system})
  /\ server' = [server EXCEPT ![ch.system] = Wanted]
  /\ UNCHANGED <<ch, booted>>

\* The setup is closed and opened again, or power fails.
Leaves ==
  /\ call # "server"
  /\ call' = "none"
  /\ ch' \in Answers
  /\ UNCHANGED <<content, server, booted>>

Boots ==
  /\ call \in {"ok", "error"}
  /\ call' = "server"
  /\ booted' \in {d \in Disk : server[d] # {}}
  /\ UNCHANGED <<ch, content, server>>

\* A server changes the disk it runs from and stays one.
Runs ==
  /\ call = "server"
  /\ Touches({booted})
  /\ UNCHANGED <<call, ch, server, booted>>

Next ==
  \/ Installs \/ Releases \/ Writes \/ Completes \/ Leaves \/ Boots \/ Runs
  \/ \E d \in Wanted : Erases(d)

Spec == Init /\ [][Next]_vars
=============================================================================
