------------------------------ MODULE Desktop ------------------------------
(***************************************************************************)
(* The program on the admin's desktop: the menu that ties the config form, *)
(* the build screen and the flash screen together (internal/tui/app.go),   *)
(* the build screen (internal/tui/build.go), the goroutine that runs a     *)
(* build (internal/build/build.go), the container it starts and the files: *)
(* config.env, the staged build files and the ISO.                         *)
(*                                                                         *)
(* Messages reach whatever screen is in front. A screen is left by a       *)
(* message of its own, and keys handled before that message arrives may    *)
(* send another: a second one closes the screen that was opened meanwhile. *)
(*                                                                         *)
(* The container is not the podman run that shows its output: a cancelled  *)
(* build that does not come to an end in time has podman run killed, and   *)
(* its container goes on as nobody's.                                      *)
(***************************************************************************)
EXTENDS Addresses

CONSTANTS
  Configs,   \* what config.env may say
  None,      \* no file, no configuration, no build
  Build,     \* builds that may exist at once
  Capacity,  \* messages that fit into a build's channel
  MaxBacks   \* bound on the messages under way that close a screen

ASSUME DesktopConstants ==
  /\ Configs \subseteq Config
  /\ None \notin Configs
  /\ None \notin Build
  /\ None \notin [cfg: Configs, overtaken: BOOLEAN, orphan: BOOLEAN]
  /\ Capacity \in Nat \ {0}
  /\ MaxBacks \in Nat \ {0}

VARIABLES
  screen,     \* what is in front
  cfg,        \* config.env as refresh last read it
  isoSeen,    \* whether refresh found an ISO,
  newerSeen,  \* and whether the menu calls the config newer than it
  form,       \* the form: its state and, once completed, its values
  backs,      \* how many messages that close a screen are under way
  view,       \* the build screen: its build, and what it shows of it
  file,       \* config.env
  iso,        \* the ISO: the config in it, whether that was overtaken, and
              \* whether nobody's container put it there
  newer,      \* whether config.env was written after the ISO
  stage,      \* the config in the staged build files
  container,  \* the container: whose it is, how far it is, its config
  phase,      \* phase[b]: where the goroutine of build b is
  want,       \* want[b]: the config that b builds
  cancelled,  \* cancelled[b]: whether its context is, and podman stop was tried
  result,     \* result[b]: what its container and then build.Run return
  printing,   \* printing[b]: b is about to send a line
  lines,      \* lines[b]: lines in its channel
  ended,      \* ended[b]: its last message is in the channel
  waits,      \* waits[b]: wait commands that listen on the channel
  left,       \* history: a build was left while it ran; until then
  edited,     \* history: config.env was edited by hand since refresh read it
  overtaken   \* history: the builds whose config was edited by hand meanwhile

menu     == <<cfg, isoSeen, newerSeen, edited>>
files    == <<file, newer>>
build    == <<phase, want, cancelled, result, printing>>
channel  == <<lines, ended, waits>>
making   == <<stage, container, iso>>
vars     == <<screen, form, backs, view, menu, files, making, build, channel,
              left, overtaken>>

Phase == {"idle", "checking", "staging", "starting", "running", "cleaning",
          "reporting", "done"}

\* No build screen yet, or one that was left: nothing reads it any more.
Closed == [build |-> None, cfg |-> None, running |-> FALSE, ok |-> FALSE]

NoForm == [state |-> "none", values |-> None]

Usable(c) == c # None /\ ValidConfig(c)

Init ==
  /\ screen = "menu"
  /\ file \in Configs \cup {None}
  /\ cfg = file
  /\ iso = None
  /\ isoSeen = FALSE /\ newer = FALSE /\ newerSeen = FALSE
  /\ form = NoForm
  /\ backs = 0
  /\ view = Closed
  /\ stage = None
  /\ container = None
  /\ phase = [b \in Build |-> "idle"]
  /\ want = [b \in Build |-> None]
  /\ cancelled = [b \in Build |-> "no"]
  /\ result = [b \in Build |-> FALSE]
  /\ printing = [b \in Build |-> FALSE]
  /\ lines = [b \in Build |-> 0]
  /\ ended = [b \in Build |-> FALSE]
  /\ waits = [b \in Build |-> 0]
  /\ left = FALSE /\ edited = FALSE /\ overtaken = {}

----------------------------------------------------------------------------
\* The menu.

\* Mutant: the ISO is looked at again, the config is not read again.
Refresh_IsoOnly ==
  /\ isoSeen' = (iso # None)
  /\ newerSeen' = newer
  /\ UNCHANGED <<cfg, edited>>

Refresh ==
  /\ cfg' = file
  /\ isoSeen' = (iso # None)
  /\ newerSeen' = newer
  /\ edited' = FALSE

\* Any screen is closed by any such message. Once a build was left, the other
\* histories are not kept.
BackArrives ==
  /\ backs > 0
  /\ backs' = backs - 1
  /\ screen' = "menu"
  /\ left' = (left \/ (screen = "build" /\ view.running))
  /\ Refresh
  /\ form' = NoForm /\ view' = Closed
  /\ overtaken' = IF left' THEN {} ELSE overtaken
  /\ UNCHANGED <<files, making, build, channel>>

\* Bounded: MaxBacks at a time until a build was left, one from then.
SendsBack ==
  /\ backs < IF left THEN 1 ELSE MaxBacks
  /\ backs' = backs + 1

OpensForm ==
  /\ screen = "menu"
  /\ screen' = "config"
  /\ form' = [state |-> "open", values |-> None]
  /\ UNCHANGED <<backs, view, menu, files, making, build, channel, left, overtaken>>

OpensFlash ==
  /\ screen = "menu" /\ isoSeen
  /\ screen' = "flash"
  /\ UNCHANGED <<form, backs, view, menu, files, making, build, channel, left, overtaken>>

\* A build whose goroutine is gone, with nobody to read what it left.
Unused(b) == phase[b] = "idle" \/ (phase[b] = "done" /\ waits[b] = 0)

OpensBuild(b) ==
  /\ screen = "menu" /\ Usable(cfg)
  /\ Unused(b)
  /\ screen' = "build"
  /\ view' = [build |-> b, cfg |-> cfg, running |-> TRUE, ok |-> FALSE]
  /\ phase' = [phase EXCEPT ![b] = "checking"]
  /\ want' = [want EXCEPT ![b] = cfg]
  /\ cancelled' = [cancelled EXCEPT ![b] = "no"]
  /\ result' = [result EXCEPT ![b] = FALSE]
  /\ lines' = [lines EXCEPT ![b] = 0]
  /\ ended' = [ended EXCEPT ![b] = FALSE]
  /\ waits' = [waits EXCEPT ![b] = 1]
  /\ overtaken' = IF edited THEN overtaken \cup {b} ELSE overtaken \ {b}
  /\ UNCHANGED <<form, backs, menu, files, making, printing, left>>

----------------------------------------------------------------------------
\* The form. Its fields refuse what Validate would refuse.

\* config.Save, through a temporary file: config.env is newer than the ISO.
Saves(c) ==
  \/ /\ file' = c
     /\ newer' = (iso # None) /\ newerSeen' = isoSeen
  \/ UNCHANGED <<file, newer, newerSeen>>     \* the disk is full

FormCompletes(c) ==
  /\ screen = "config" /\ form.state = "open"
  /\ ValidConfig(c)
  /\ form' = [state |-> "completed", values |-> c]
  /\ Saves(c)
  /\ SendsBack
  /\ UNCHANGED <<screen, cfg, isoSeen, edited, view, making, build, channel, left, overtaken>>

FormAborts ==
  /\ screen = "config" /\ form.state = "open"
  /\ form' = [form EXCEPT !.state = "aborted"]
  /\ SendsBack
  /\ UNCHANGED <<screen, view, menu, files, making, build, channel, left, overtaken>>

\* Any message to a form that is through saves, and goes back, again.
FormAgain ==
  /\ form.state \in {"completed", "aborted"}
  /\ SendsBack
  /\ IF form.state = "completed"
       THEN Saves(form.values)
       ELSE UNCHANGED <<file, newer, newerSeen>>
  /\ UNCHANGED <<cfg, isoSeen, edited>>

FormSeesKey ==
  /\ screen = "config"
  /\ FormAgain
  /\ UNCHANGED <<screen, form, view, making, build, channel, left, overtaken>>

\* An editor writes config.env while the program is open. Bounded: until a
\* build was left.
EditsByHand(c) ==
  /\ ~left
  /\ file' = c
  /\ newer' = (iso # None) /\ newerSeen' = isoSeen
  /\ edited' = TRUE
  /\ overtaken' = {b \in Build : phase[b] # "idle"}
  /\ UNCHANGED <<screen, cfg, isoSeen, form, backs, view, making, build, channel, left>>

----------------------------------------------------------------------------
\* The goroutine of a build.

Goto(b, from, to) ==
  /\ phase[b] = from /\ ~printing[b]
  /\ phase' = [phase EXCEPT ![b] = to]

\* Everything that Run does prints; a full channel holds the printer up.
Prints(b) ==
  /\ phase[b] \in {"checking", "starting", "running", "cleaning"}
  /\ ~printing[b]
  /\ printing' = [printing EXCEPT ![b] = TRUE]
  /\ UNCHANGED <<screen, form, backs, view, menu, files, making, phase, want, cancelled,
                 result, channel, left, overtaken>>

LineSent(b) ==
  /\ printing[b] /\ lines[b] < Capacity
  /\ printing' = [printing EXCEPT ![b] = FALSE]
  /\ lines' = [lines EXCEPT ![b] = @ + 1]
  /\ UNCHANGED <<screen, form, backs, view, menu, files, making, phase, want, cancelled,
                 result, ended, waits, left, overtaken>>

\* Validate, the binary, podman, the directories, the log and the key.
Checks(b) ==
  /\ \/ Goto(b, "checking", "staging") /\ ValidConfig(want[b])
     \/ Goto(b, "checking", "reporting")
  /\ UNCHANGED <<screen, form, backs, view, menu, files, making, want, cancelled, result,
                 printing, channel, left, overtaken>>

At(step) == container # None /\ container.step = step

\* RemoveAll of the staged files, whoever staged them: a container that has
\* not read them yet keeps an empty directory.
RemovesStage ==
  container' = IF At("installing") THEN [container EXCEPT !.cfg = None] ELSE container

\* Then podman run is started, unless the context is cancelled.
Stages(b) ==
  /\ \/ Goto(b, "staging", "starting") /\ stage' = want[b] /\ cancelled[b] = "no"
     \/ Goto(b, "staging", "cleaning") /\ stage' \in {want[b], None}
  /\ RemovesStage
  /\ UNCHANGED <<screen, form, backs, view, menu, files, iso, want, cancelled, result, printing,
                 channel, left, overtaken>>

\* podman run fetches the image and creates the container, unless there is
\* one: every build of one run of the program has the same name for it.
Starts(b) ==
  /\ \/ /\ container = None /\ stage # None
        /\ Goto(b, "starting", "running")
        /\ container' = [build |-> b, step |-> "installing", cfg |-> stage]
     \/ Goto(b, "starting", "cleaning") /\ UNCHANGED container
  /\ UNCHANGED <<screen, form, backs, view, menu, files, stage, iso, want, cancelled, result,
                 printing, channel, left, overtaken>>

Attached(b) == container # None /\ container.build = b

\* podman run returns the status of its container; cmd.Run the error of a
\* cancelled context, if it saw that.
Returns(b) ==
  /\ Goto(b, "running", "cleaning") /\ ~Attached(b)
  /\ result' = [result EXCEPT ![b] = @ /\ cancelled[b] # "tried"]
  /\ UNCHANGED <<screen, form, backs, view, menu, files, making, want, cancelled, printing,
                 channel, left, overtaken>>

\* cmd.Cancel: podman stop, by name. It may find no container yet.
StopsContainer(b) ==
  /\ phase[b] \in {"starting", "running"} /\ cancelled[b] = "asked"
  /\ cancelled' = [cancelled EXCEPT ![b] = "tried"]
  /\ container' \in {container, None}
  /\ UNCHANGED <<screen, form, backs, view, menu, files, stage, iso, phase, want, result,
                 printing, channel, left, overtaken>>

\* WaitDelay is over: podman run is killed, and not what it started.
KillsClient(b) ==
  /\ phase[b] \in {"starting", "running"} /\ cancelled[b] = "tried"
  /\ phase' = [phase EXCEPT ![b] = "cleaning"]
  /\ result' = [result EXCEPT ![b] = FALSE]
  /\ printing' = [printing EXCEPT ![b] = FALSE]
  /\ container' = IF Attached(b) THEN [container EXCEPT !.build = None] ELSE container
  /\ UNCHANGED <<screen, form, backs, view, menu, files, stage, iso, want, cancelled, channel,
                 left, overtaken>>

\* The deferred RemoveAll.
Cleans(b) ==
  /\ Goto(b, "cleaning", "reporting")
  /\ stage' = None
  /\ RemovesStage
  /\ UNCHANGED <<screen, form, backs, view, menu, files, iso, want, cancelled, result, printing,
                 channel, left, overtaken>>

Reports(b) ==
  /\ lines[b] < Capacity
  /\ Goto(b, "reporting", "done")
  /\ ended' = [ended EXCEPT ![b] = TRUE]
  /\ UNCHANGED <<screen, form, backs, view, menu, files, making, want, cancelled, result,
                 printing, lines, waits, left, overtaken>>

----------------------------------------------------------------------------
\* The container: build.sh, which reads the staged files after it installed
\* its tools, and puts the ISO in place with a rename at the very end.

TakesStage ==
  /\ At("installing") /\ container.cfg # None
  /\ container' = [container EXCEPT !.step = "making"]
  /\ UNCHANGED <<screen, form, backs, view, menu, files, stage, iso, build, channel,
                 left, overtaken>>

PutsIso ==
  /\ At("making")
  /\ container' = [container EXCEPT !.step = "made"]
  /\ iso' = [cfg       |-> container.cfg,
             overtaken |-> container.build \in overtaken,
             orphan    |-> container.build = None /\ ~left]
  /\ newer' = FALSE
  /\ UNCHANGED <<screen, form, backs, view, menu, file, stage, build, channel, left, overtaken>>

\* It ends and --rm removes it; whose it is learns the status.
Exits(ok) ==
  /\ container # None
  /\ container' = None
  /\ result' = [b \in Build |-> IF b = container.build THEN ok ELSE result[b]]
  /\ UNCHANGED <<screen, form, backs, view, menu, files, stage, iso, phase, want, cancelled,
                 printing, channel, left, overtaken>>

\* Mutant: the exit status of the container is not looked at.
ContainerFails_Ignored == iso # None /\ Exits(TRUE)

ContainerFails == Exits(FALSE)

ContainerEnds == At("made") /\ Exits(TRUE)

----------------------------------------------------------------------------
\* The build screen.

\* ctrl+c while the build runs.
Cancels ==
  /\ screen = "build" /\ view.running /\ cancelled[view.build] = "no"
  /\ cancelled' = [cancelled EXCEPT ![view.build] = "asked"]
  /\ UNCHANGED <<screen, form, backs, view, menu, files, making, phase, want, result, printing,
                 channel, left, overtaken>>

LeavesBuild ==
  /\ screen = "build" /\ ~view.running
  /\ SendsBack
  /\ UNCHANGED <<screen, form, view, menu, files, making, build, channel, left, overtaken>>

LeavesFlash ==
  /\ screen = "flash"
  /\ SendsBack
  /\ UNCHANGED <<screen, form, view, menu, files, making, build, channel, left, overtaken>>

\* A message meant for the build screen finds another one in front.
Elsewhere ==
  /\ screen # "build"
  /\ IF screen = "config" /\ form.state # "open"
       THEN FormAgain
       ELSE UNCHANGED <<menu, files, backs>>
  /\ UNCHANGED view

\* The screen that shows a line waits for the next one of its own build.
Listening(b) == [waits EXCEPT ![b] = @ - 1]

\* Mutant: the screen does not wait for the next line.
ShowsLine_Once(b) ==
  /\ screen = "build"
  /\ waits' = Listening(b)
  /\ UNCHANGED <<view, menu, files, backs>>

ShowsLine(b) ==
  /\ screen = "build"
  /\ waits' = [Listening(b) EXCEPT ![view.build] = @ + 1]
  /\ UNCHANGED <<view, menu, files, backs>>

LineArrives(b) ==
  /\ waits[b] > 0 /\ lines[b] > 0
  /\ lines' = [lines EXCEPT ![b] = @ - 1]
  /\ \/ ShowsLine(b)
     \/ Elsewhere /\ waits' = Listening(b)
  /\ UNCHANGED <<screen, form, making, build, ended, left, overtaken>>

ShowsEnd(b) ==
  /\ screen = "build"
  /\ view' = [view EXCEPT !.running = FALSE, !.ok = result[b]]
  /\ UNCHANGED <<menu, files, backs>>

\* Nothing refers to a build whose goroutine has returned and was heard.
Forgets(b) ==
  /\ phase' = [phase EXCEPT ![b] = "idle"]
  /\ want' = [want EXCEPT ![b] = None]
  /\ cancelled' = [cancelled EXCEPT ![b] = "no"]
  /\ result' = [result EXCEPT ![b] = FALSE]
  /\ overtaken' = overtaken \ {b}

EndArrives(b) ==
  /\ waits[b] > 0 /\ lines[b] = 0 /\ ended[b]
  /\ ended' = [ended EXCEPT ![b] = FALSE]
  /\ waits' = Listening(b)
  /\ ShowsEnd(b) \/ Elsewhere
  /\ Forgets(b)
  /\ UNCHANGED <<screen, form, making, printing, lines, left>>

----------------------------------------------------------------------------
Podman(b) == Starts(b) \/ Returns(b) \/ StopsContainer(b) \/ KillsClient(b)

Progress(b) == Checks(b) \/ Stages(b) \/ Podman(b) \/ Cleans(b) \/ Reports(b)

Arrives(b) == LineArrives(b) \/ EndArrives(b)

Works == TakesStage \/ PutsIso \/ ContainerEnds \/ ContainerFails

Keys ==
  \/ OpensForm \/ OpensFlash \/ \E b \in Build : OpensBuild(b)
  \/ \E c \in Configs : FormCompletes(c)
  \/ FormAborts \/ FormSeesKey
  \/ Cancels \/ LeavesBuild \/ LeavesFlash

Next ==
  \/ BackArrives \/ Keys \/ Works
  \/ \E c \in Configs : EditsByHand(c)
  \/ \E b \in Build : Prints(b) \/ LineSent(b) \/ Progress(b) \/ Arrives(b)

Spec == Init /\ [][Next]_vars

(* What runs in the background goes on: a build prints a finite number of  *)
(* lines between two of its steps, the container ends or is stopped, the   *)
(* event loop handles every message. Keys are not fair.                    *)
Fairness ==
  /\ \A b \in Build :
       WF_vars(LineSent(b)) /\ SF_vars(Progress(b)) /\ WF_vars(Arrives(b))
  /\ WF_vars(Works) /\ WF_vars(BackArrives)

FairSpec == Spec /\ Fairness

----------------------------------------------------------------------------
TypeOK ==
  /\ screen \in {"menu", "config", "build", "flash"}
  /\ cfg \in Configs \cup {None}
  /\ file \in Configs \cup {None}
  /\ iso \in [cfg: Configs, overtaken: BOOLEAN, orphan: BOOLEAN] \cup {None}
  /\ isoSeen \in BOOLEAN /\ newer \in BOOLEAN /\ newerSeen \in BOOLEAN
  /\ form \in [state: {"none", "open", "completed", "aborted"},
               values: Configs \cup {None}]
  /\ backs \in 0..MaxBacks
  /\ view \in [build: Build \cup {None}, cfg: Configs \cup {None}, running: BOOLEAN,
              ok: BOOLEAN]
  /\ stage \in Configs \cup {None}
  /\ container \in [build: Build \cup {None}, step: {"installing", "making", "made"},
                    cfg: Configs \cup {None}] \cup {None}
  /\ phase \in [Build -> Phase]
  /\ want \in [Build -> Configs \cup {None}]
  /\ cancelled \in [Build -> {"no", "asked", "tried"}] /\ result \in [Build -> BOOLEAN]
  /\ printing \in [Build -> BOOLEAN] /\ ended \in [Build -> BOOLEAN]
  /\ lines \in [Build -> 0..Capacity] /\ waits \in [Build -> Nat]
  /\ left \in BOOLEAN /\ edited \in BOOLEAN /\ overtaken \subseteq Build

(* No ISO ever carries a config with which two servers could get one       *)
(* address, or the mesh the router's: whatever an editor writes into       *)
(* config.env, whichever build staged its files last. The servers take     *)
(* their addresses from it without checking it again.                      *)
BuiltConfigIsSound == iso # None => Sound(iso.cfg)

(* When the menu calls the ISO ready and does not say that the config      *)
(* changed after it was built, the ISO was built from config.env as it is. *)
(* Three exceptions: an editor wrote config.env between the menu's last    *)
(* look and the end of the build, which then used what the menu had read;  *)
(* a build that was left while it ran, which puts its ISO in place later;  *)
(* and an ISO from the container of a cancelled build that podman stop did *)
(* not reach: nobody stops it, and what it renames into place is the newer *)
(* file, whatever was saved meanwhile.                                     *)
OutdatedIsoIsMarked ==
  (screen = "menu" /\ isoSeen /\ Usable(cfg) /\ ~newerSeen) =>
    iso.cfg = file \/ iso.overtaken \/ iso.orphan \/ left

(* "ISO built" on the build screen means that the ISO is the one this      *)
(* build made, and not an old one that a failed build left in place, nor   *)
(* one that the container of a cancelled build puts there.                 *)
SuccessIsThisBuild ==
  (screen = "build" /\ ~view.running /\ view.ok /\ ~left) =>
    iso # None /\ iso.cfg = view.cfg

(* A build comes to an end on its screen, by itself or cancelled, and is   *)
(* not held up by a full channel, unless it was left while it ran.         *)
BuildEnds == view.running ~> (~view.running \/ left)

(* Until a build is left, exactly one wait command listens to a build that *)
(* runs and none to any other: its lines are shown one by one, its end is  *)
(* not missed, and no line of an old build reaches a new one's screen.     *)
RunningBuildIsHeard ==
  ~left => \A b \in Build : waits[b] = IF view.running /\ view.build = b THEN 1 ELSE 0

----------------------------------------------------------------------------
(* Why they hold. Every config on its way to the ISO was valid when the    *)
(* build began.                                                            *)
ValidConfigs == {c \in Configs : ValidConfig(c)}

ConfigsAreValid ==
  /\ file \in Configs \cup {None}
  /\ cfg \in Configs \cup {None}
  /\ form \in [state: {"none", "open", "aborted"}, values: {None}]
               \cup [state: {"completed"}, values: Configs]
  /\ want \in [Build -> ValidConfigs \cup {None}]
  /\ stage \in ValidConfigs \cup {None}
  /\ container \in [build: Build \cup {None}, step: {"installing"},
                     cfg: ValidConfigs \cup {None}]
                    \cup [build: Build \cup {None}, step: {"making", "made"},
                          cfg: ValidConfigs]
                    \cup {None}
  /\ iso \in [cfg: ValidConfigs, overtaken: BOOLEAN, orphan: BOOLEAN] \cup {None}

Shape ==
  /\ screen \in {"menu", "config", "build", "flash"}
  /\ view \in [build: Build \cup {None}, cfg: Configs \cup {None}, running: BOOLEAN,
              ok: BOOLEAN]
  /\ phase \in [Build -> Phase]
  /\ result \in [Build -> BOOLEAN]
  /\ ended \in [Build -> BOOLEAN]
  /\ isoSeen => iso # None
  /\ \A b \in Build : ended[b] => phase[b] = "done"

\* The container belongs to a build that waits for it, or to nobody.
ContainerIsAwaited ==
  container # None => container.build = None \/ phase[container.build] = "running"

(* Unless a build was left, the only one is on the screen, its own config  *)
(* is what it staged, and the ISO is its own once its container is through. *)
OnScreen(b) ==
  /\ screen = "build" /\ view.running /\ view.build = b
  /\ want[b] = view.cfg
  /\ want[b] = file \/ b \in overtaken
  /\ phase[b] = "starting" => stage = want[b]
  /\ Attached(b) => container.cfg = want[b]
  /\ (Attached(b) /\ container.step = "made") => iso # None /\ iso.cfg = want[b]
  /\ result[b] => /\ phase[b] \in {"running", "cleaning", "reporting", "done"}
                  /\ container = None
                  /\ iso # None /\ iso.cfg = want[b]

OneBuild == \A b \in Build : phase[b] # "idle" => OnScreen(b)

\* The menu's picture of the files is true, or says that it is not.
MenuIsCurrent ==
  screen = "menu" =>
    /\ cfg = file \/ edited
    /\ (isoSeen /\ newer) => newerSeen

IsoIsCurrent ==
  (iso # None /\ ~newer) => iso.cfg = file \/ iso.overtaken \/ iso.orphan

\* When a success is on the screen, nothing is left that replaces its ISO.
SuccessIsSettled ==
  (screen = "build" /\ ~view.running /\ view.ok) => container = None

IInv ==
  /\ ConfigsAreValid /\ Shape /\ ContainerIsAwaited
  /\ ~left => /\ OneBuild /\ MenuIsCurrent /\ IsoIsCurrent
              /\ SuccessIsSettled /\ SuccessIsThisBuild

=============================================================================
