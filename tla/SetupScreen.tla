----------------------------- MODULE SetupScreen -----------------------------
(***************************************************************************)
(* The setup screen of the installer USB (internal/tui/setup.go): from the *)
(* first look at the machine to the reboot. Checks, the installation and   *)
(* the joining run in goroutines that send what they do over a channel. A  *)
(* wait command reads one message of a channel and is issued anew by the   *)
(* handler of the message. The handlers do not ask which screen is shown:  *)
(* a message of an earlier attempt would move a later one.                 *)
(*                                                                         *)
(* What the background calls do is the installer's matter: here they run,  *)
(* report, are cancelled and end well or not.                              *)
(***************************************************************************)
EXTENDS Naturals, Sequences

CONSTANTS
  Disk,        \* the internal disks of the machine
  None,        \* no answer yet
  Capacity,    \* of a channel (64 in the code)
  MaxReports,  \* bound on what one call reports before it ends
  MaxAttempts  \* bound on channels: checks and installations started

ASSUME SetupConstants ==
  /\ None \notin Disk
  /\ {Capacity, MaxReports} \subseteq Nat \ {0}
  /\ MaxAttempts \in Nat

VARIABLES
  screen,
  machine,   \* what the last look found: a connection, disks
  ch,        \* the answers, which the form changes in place
  checkErr,  \* the check ended with an error
  canRetry,  \* the installation failed; r runs it again
  armed,     \* the first ctrl+c during an installation was pressed
  jobs,      \* the background calls that run
  events,    \* events[n]: the messages in the n-th channel
  cur,       \* the channel in use, 0 before the first
  waits,     \* waits[n]: the wait commands that listen on channel n
  checked,   \* history: the answers of the last check that succeeded
  confirmed, \* history: the answers YES was typed for
  installed  \* history: an installation succeeded

flags   == <<checkErr, canRetry, armed>>
flow    == <<jobs, events, cur, waits>>
history == <<checked, confirmed, installed>>
vars    == <<screen, machine, ch, flags, flow, history>>

Role    == {"coordinator", "node"}
Choices == [role: Role \cup {"unset"}, disk: Disk \cup {None},
            data: SUBSET Disk, password: BOOLEAN]
Complete == {c \in Choices : c.role \in Role /\ c.disk \in Disk}
NoChoices == [role |-> "unset", disk |-> None, data |-> {}, password |-> FALSE]

Channel == 1..MaxAttempts
Screens == {"probe", "welcome", "wifi", "busy", "check", "form", "confirm",
            "install", "join", "done", "failed", "quit"}
Machine == [online: BOOLEAN, disks: BOOLEAN]
Kind    == {"check", "install", "join", "downloads"}
Job     == [kind: Kind, chan: Channel, ch: Complete, left: 0..MaxReports,
            cancelled: BOOLEAN]
Outcome == {"ok", "error", "rejected"}
Message == [of: Kind, is: {"report"} \cup Outcome]

Init ==
  /\ screen = "probe"
  /\ machine = [online |-> FALSE, disks |-> FALSE]
  /\ ch = NoChoices
  /\ checkErr = FALSE /\ canRetry = FALSE /\ armed = FALSE
  /\ jobs = {}
  /\ events = [n \in Channel |-> <<>>]
  /\ cur = 0
  /\ waits = [n \in Channel |-> 0]
  /\ checked = NoChoices /\ confirmed = NoChoices
  /\ installed = FALSE

Goto(from, to) == screen = from /\ screen' = to

----------------------------------------------------------------------------
\* Calls outside the channels: the look at the machine and WiFi.

Probe ==
  /\ \/ Goto("probe", "welcome") /\ machine' \in Machine
     \/ Goto("probe", "failed") /\ UNCHANGED machine
  /\ UNCHANGED <<ch, flags, flow, history>>

\* A scan opens the form for the network, also when it failed; connecting
\* looks at the machine again, and a failure leaves what was known.
WifiAnswers ==
  /\ \/ Goto("busy", "wifi") /\ UNCHANGED machine
     \/ Goto("busy", "welcome") /\ machine' \in Machine
  /\ UNCHANGED <<ch, flags, flow, history>>

----------------------------------------------------------------------------
\* Starting background calls. A copy of the answers goes along.

Start(kind, n, answers) ==
  /\ \E left \in 0..MaxReports :
       jobs' = jobs \cup {[kind |-> kind, chan |-> n, ch |-> answers,
                           left |-> left, cancelled |-> FALSE]}
  /\ screen' = kind

StartOnNewChannel(kind, answers) ==
  /\ cur < MaxAttempts
  /\ cur' = cur + 1
  /\ Start(kind, cur', answers)
  /\ waits' = [waits EXCEPT ![cur'] = @ + 1]
  /\ UNCHANGED events

startCheck(answers) ==
  /\ StartOnNewChannel("check", answers)
  /\ checkErr' = FALSE
  /\ UNCHANGED <<canRetry, armed>>

startInstall == StartOnNewChannel("install", ch) /\ UNCHANGED <<checkErr, armed>>

\* The call the stored cancel function belongs to: the last one started.
Cancel == jobs' = {[j EXCEPT !.cancelled = @ \/ j.chan = cur] : j \in jobs}

----------------------------------------------------------------------------
\* The background calls.

Send(j, is) ==
  /\ Len(events[j.chan]) < Capacity
  /\ events' = [events EXCEPT ![j.chan] = Append(@, [of |-> j.kind, is |-> is])]

Reports(j) ==
  /\ j.left > 0
  /\ Send(j, "report")
  /\ jobs' = (jobs \ {j}) \cup
       {k \in {[j EXCEPT !.left = @ - 1]} : k.kind # "downloads"}
  /\ UNCHANGED <<screen, machine, ch, flags, cur, waits, history>>

\* Also a cancelled call may have succeeded. The reporter of downloads is told
\* to stop and not waited for: a last line of it may come after the end.
Ends(j) ==
  /\ j.kind # "downloads"
  /\ j.left = 0
  /\ \E is \in Outcome :
       /\ is = "rejected" => j.kind = "join"
       /\ Send(j, is)
       /\ checked' = IF j.kind = "check" /\ is = "ok" THEN j.ch ELSE checked
       /\ installed' = (installed \/ (j.kind = "install" /\ is = "ok"))
  /\ \E late \in SUBSET {[j EXCEPT !.kind = "downloads", !.left = 1]} :
       /\ late # {} => j.kind = "install"
       /\ jobs' = (jobs \ {j}) \cup late
  /\ UNCHANGED <<screen, machine, ch, flags, cur, waits, confirmed>>

Works(j) == Reports(j) \/ Ends(j)

----------------------------------------------------------------------------
\* Messages. Reading one ends the wait command that brought it.

Receives(n, kind, is) ==
  /\ waits[n] > 0
  /\ events[n] # <<>>
  /\ Head(events[n]) = [of |-> kind, is |-> is]
  /\ events' = [events EXCEPT ![n] = Tail(@)]

WaitEnds(n) == waits' = [waits EXCEPT ![n] = @ - 1]

\* Mutant: the step is shown and nobody waits for the next.
Reported_Once(n) ==
  /\ \E kind \in Kind : Receives(n, kind, "report")
  /\ WaitEnds(n)
  /\ UNCHANGED <<screen, machine, ch, flags, jobs, cur, history>>

\* A step, a line of the log, the pairing code: shown, and the next one is
\* waited for, on the channel in use.
Reported(n) ==
  /\ \E kind \in Kind : Receives(n, kind, "report")
  /\ waits' = [[waits EXCEPT ![n] = @ - 1] EXCEPT ![cur] = @ + 1]
  /\ UNCHANGED <<screen, machine, ch, flags, jobs, cur, history>>

CheckEnds(n) ==
  /\ \/ Receives(n, "check", "ok") /\ screen' = "confirm" /\ UNCHANGED checkErr
     \/ Receives(n, "check", "error") /\ checkErr' = TRUE /\ UNCHANGED screen
  /\ WaitEnds(n)
  /\ UNCHANGED <<machine, ch, canRetry, armed, jobs, cur, history>>

InstallFails(n) ==
  /\ Receives(n, "install", "error")
  /\ WaitEnds(n)
  /\ screen' = "failed"
  /\ canRetry' = TRUE
  /\ UNCHANGED <<machine, ch, checkErr, armed, jobs, cur, history>>

\* A coordinator is done. A server joins; the channel is used again.
InstallSucceeds(n) ==
  /\ Receives(n, "install", "ok")
  /\ IF ch.role = "coordinator"
     THEN screen' = "done" /\ WaitEnds(n) /\ UNCHANGED jobs
     ELSE /\ Start("join", cur, ch)
          /\ waits' = [[waits EXCEPT ![n] = @ - 1] EXCEPT ![cur] = @ + 1]
  /\ UNCHANGED <<machine, ch, flags, cur, history>>

\* A rejection is a failure, joining later is not.
JoinEnds(n) ==
  /\ \/ Receives(n, "join", "rejected") /\ screen' = "failed"
     \/ \E is \in {"ok", "error"} : Receives(n, "join", is) /\ screen' = "done"
  /\ WaitEnds(n)
  /\ UNCHANGED <<machine, ch, flags, jobs, cur, history>>

Receive(n) ==
  \/ Reported(n) \/ CheckEnds(n)
  \/ InstallFails(n) \/ InstallSucceeds(n) \/ JoinEnds(n)

----------------------------------------------------------------------------
\* Keys.

Quit ==
  /\ \/ screen \in {"probe", "busy", "welcome", "confirm", "done", "failed"}
     \/ screen = "check" /\ checkErr
  /\ screen' = "quit"
  /\ UNCHANGED <<machine, ch, flags, flow, history>>

\* w, or enter without a connection.
ScansWifi ==
  /\ Goto("welcome", "busy")
  /\ UNCHANGED <<machine, ch, flags, flow, history>>

LeavesWifiForm ==
  /\ \/ Goto("wifi", "busy")
     \/ Goto("wifi", "welcome")
  /\ UNCHANGED <<machine, ch, flags, flow, history>>

\* The form starts from the last answers, or from what the look at the
\* machine suggests; passwords are typed again.
openForm ==
  /\ screen' = "form"
  /\ \E role \in Role, disk \in Disk :
       ch' = [role |-> IF ch.role = "unset" THEN role ELSE ch.role,
              disk |-> IF ch.disk = None THEN disk ELSE ch.disk,
              data |-> ch.data, password |-> FALSE]
  /\ UNCHANGED <<machine, flags, flow, history>>

\* enter on the welcome screen, esc on the question, enter after a check
\* that failed.
OpensForm ==
  /\ \/ screen = "welcome" /\ machine.online /\ machine.disks
     \/ screen = "confirm"
     \/ screen = "check" /\ checkErr
  /\ openForm

\* Data disks are offered without the system disk; those selected before
\* stay selected when the system disk changes.
EditsForm ==
  /\ screen = "form"
  /\ \/ \E role \in Role : ch' = [ch EXCEPT !.role = role]
     \/ \E disk \in Disk : ch' = [ch EXCEPT !.disk = disk]
     \/ \E data \in SUBSET (Disk \ {ch.disk}) : ch' = [ch EXCEPT !.data = data]
     \/ ch' = [ch EXCEPT !.password = TRUE]
  /\ UNCHANGED <<screen, machine, flags, flow, history>>

LeavesForm ==
  /\ Goto("form", "welcome")
  /\ UNCHANGED <<machine, ch, flags, flow, history>>

\* Mutant: the selection of data disks is taken as it is.
SubmitsForm_AllDisks ==
  /\ screen = "form" /\ ch.password
  /\ startCheck(ch)
  /\ UNCHANGED <<machine, ch, history>>

SubmitsForm ==
  /\ screen = "form" /\ ch.password
  /\ ch' = [ch EXCEPT !.data = @ \ {ch.disk}]
  /\ startCheck(ch')
  /\ UNCHANGED <<machine, history>>

\* Mutant: the check is left at once instead of when it has ended.
CancelsCheck_AndLeaves ==
  /\ screen = "check" /\ ~checkErr
  /\ screen' = "welcome"
  /\ Cancel
  /\ UNCHANGED <<machine, ch, flags, events, cur, waits, history>>

CancelsCheck ==
  /\ screen = "check" /\ ~checkErr
  /\ Cancel
  /\ UNCHANGED <<screen, machine, ch, flags, events, cur, waits, history>>

ChecksAgain ==
  /\ screen = "check" /\ checkErr
  /\ startCheck(ch)
  /\ UNCHANGED <<machine, ch, history>>

Confirms ==
  /\ screen = "confirm"
  /\ confirmed' = ch
  /\ startInstall
  /\ UNCHANGED <<machine, ch, canRetry, checked, installed>>

\* The first ctrl+c warns. It stays pressed when the installation is retried.
CancelsInstall ==
  /\ screen = "install"
  /\ IF armed THEN Cancel /\ UNCHANGED armed ELSE armed' = TRUE /\ UNCHANGED jobs
  /\ UNCHANGED <<screen, machine, ch, checkErr, canRetry, events, cur, waits, history>>

\* Mutant: r stays offered for whatever fails later.
Retries_Always ==
  /\ screen = "failed" /\ canRetry
  /\ startInstall
  /\ UNCHANGED <<machine, ch, canRetry, history>>

Retries ==
  /\ screen = "failed" /\ canRetry
  /\ canRetry' = FALSE
  /\ startInstall
  /\ UNCHANGED <<machine, ch, history>>

SkipsJoin ==
  /\ screen = "join"
  /\ Cancel
  /\ UNCHANGED <<screen, machine, ch, flags, events, cur, waits, history>>

Key ==
  \/ Quit \/ ScansWifi \/ LeavesWifiForm
  \/ OpensForm \/ EditsForm \/ LeavesForm \/ SubmitsForm
  \/ CancelsCheck \/ ChecksAgain \/ Confirms
  \/ CancelsInstall \/ Retries \/ SkipsJoin

Next ==
  \/ Probe \/ WifiAnswers
  \/ \E j \in jobs : Works(j)
  \/ \E n \in Channel : Receive(n)
  \/ Key

Spec == Init /\ [][Next]_vars

(* The event loop handles what arrives. Checks and installations end,      *)
(* because the commands they run do; joining waits for an admin and ends   *)
(* when it is cancelled. Nobody has to press a key.                        *)
FairSpec ==
  /\ Spec
  /\ \A kind \in Kind :
       WF_vars(\E j \in jobs : j.kind = kind /\ (kind = "join" => j.cancelled) /\ Works(j))
  /\ WF_vars(\E n \in Channel : Receive(n))

----------------------------------------------------------------------------
TypeOK ==
  /\ screen \in Screens
  /\ machine \in Machine
  /\ ch \in Choices
  /\ checkErr \in BOOLEAN /\ canRetry \in BOOLEAN /\ armed \in BOOLEAN
  /\ jobs \subseteq Job
  /\ events \in [Channel -> Seq(Message)]
  /\ cur \in 0..MaxAttempts
  /\ waits \in [Channel -> Nat]
  /\ checked \in Choices /\ confirmed \in Choices
  /\ installed \in BOOLEAN

Calls == {j \in jobs : j.kind # "downloads"}
Messages(n) == {i \in 1..Len(events[n]) : events[n][i].of # "downloads"}

(* No message of one attempt reaches another, though the handlers look at  *)
(* neither screen nor channel: what runs and what it has sent belongs to   *)
(* the screen shown and the channel in use, and exactly one wait command   *)
(* brings it, so messages are not handled out of order. The exception is a *)
(* late line about downloads, which at most adds a line to another screen. *)
MessagesMatchScreen ==
  /\ \A j \in Calls : j.kind = screen /\ j.chan = cur
  /\ \A n \in Channel : \A i \in Messages(n) : events[n][i].of = screen /\ n = cur
  /\ \A n \in Channel :
       waits[n] = IF n = cur /\ (Calls # {} \/ Messages(n) # {}) THEN 1 ELSE 0

(* A disk is erased only with the answers that passed the last check and   *)
(* for which YES was typed, with a password and no disk used twice: the    *)
(* form changes the answers in place, may be left half-way and opened      *)
(* again, and a retry asks nothing.                                        *)
InstallsWhatWasConfirmed ==
  \A j \in jobs :
    j.kind = "install" =>
      /\ j.ch = checked /\ j.ch = confirmed
      /\ j.ch.password
      /\ j.ch.disk \notin j.ch.data

(* A server that is installed is not erased again, whatever becomes of its *)
(* joining: r is for a failed installation only.                           *)
NeverReinstalls == installed => \A j \in jobs : j.kind # "install"

(* Every background call gets off its screen: a call that reports more     *)
(* than its channel holds is not blocked for ever, a cancelled one is      *)
(* waited for until it ends, and its end is not missed.                    *)
CallsComeBack ==
  /\ screen = "check" ~> (checkErr \/ screen = "confirm")
  /\ screen = "install" ~> screen \in {"join", "done", "failed"}
  /\ (\E j \in jobs : j.kind = "join" /\ j.cancelled) ~> screen \in {"done", "failed"}
=============================================================================
