------------------------- MODULE SetupScreenProofs --------------------------
(***************************************************************************)
(* Machine-checked proofs about SetupScreen, for any number of disks, any  *)
(* capacity of the channels and any number of reports and attempts: the    *)
(* handlers ask neither for the screen nor for the channel, and yet each   *)
(* message finds the screen it was sent for. The invariant says that the   *)
(* screen is either Idle, with nothing running, or Running, with one call  *)
(* whose end is either still to come or the last of its messages.          *)
(***************************************************************************)
EXTENDS SetupScreen, SequenceTheorems, TLAPS

AnyJob == [kind: Kind, chan: Channel, ch: Choices, left: Nat, cancelled: BOOLEAN]

Shape ==
  /\ ch \in Choices
  /\ jobs \subseteq AnyJob
  /\ events \in [Channel -> Seq(Message)]
  /\ cur \in 0..MaxAttempts
  /\ waits \in [Channel -> Nat]

----------------------------------------------------------------------------
\* What a channel holds.

Line == [of |-> "downloads", is |-> "report"]

\* Nothing but late lines about downloads.
Lines(q) == \A i \in 1..Len(q) : q[i] = Line

\* Messages of one call, and late lines.
Of(q, kind) == \A i \in 1..Len(q) : q[i] = Line \/ q[i].of = kind

Unended(q) == \A i \in 1..Len(q) : q[i].is = "report"

Ended(q) ==
  \E e \in 1..Len(q) :
    /\ q[e].is # "report"
    /\ \A i \in 1..Len(q) : i < e => q[i].is = "report"
    /\ \A i \in 1..Len(q) : e < i => q[i] = Line

----------------------------------------------------------------------------
\* The invariant.

Idle ==
  /\ Calls = {}
  /\ \A n \in Channel : waits[n] = 0 /\ Lines(events[n])
  /\ screen \notin {"install", "join"}
  /\ screen = "check" => checkErr

Running ==
  /\ cur \in Channel /\ waits[cur] = 1
  /\ \A n \in Channel \ {cur} : waits[n] = 0 /\ Lines(events[n])
  /\ screen \in {"check", "install", "join"}
  /\ screen = "check" => ~checkErr
  /\ Of(events[cur], screen)
  /\ \/ /\ \E j \in jobs : Calls = {j} /\ j.kind = screen /\ j.chan = cur
        /\ Unended(events[cur])
     \/ Calls = {} /\ Ended(events[cur])

Sane(c) == c.password /\ c.disk \notin c.data

\* Which answers have passed which question.
Answers ==
  /\ screen = "check" =>
       /\ Sane(ch)
       /\ \A j \in Calls : j.ch = ch
       /\ \A n \in Channel : \A i \in 1..Len(events[n]) :
            events[n][i] = [of |-> "check", is |-> "ok"] => checked = ch
  /\ screen = "confirm" => Sane(ch) /\ checked = ch
  /\ screen = "install" \/ canRetry =>
       Sane(ch) /\ checked = ch /\ confirmed = ch
  /\ \A j \in Calls : j.kind = "install" => j.ch = ch

\* Where the screen can be once the server is installed.
AfterInstall ==
  /\ canRetry => screen \in {"failed", "quit"} /\ ~installed
  /\ installed =>
       /\ screen \in {"install", "join", "done", "failed", "quit"}
       /\ \A j \in Calls : j.kind # "install"
       /\ \A n \in Channel : \A i \in 1..Len(events[n]) :
            events[n][i] # [of |-> "install", is |-> "error"]

IInv == Shape /\ (Idle \/ Running) /\ Answers /\ AfterInstall

----------------------------------------------------------------------------
\* Sending and reading.

LEMMA AppendGives ==
  ASSUME NEW q \in Seq(Message), NEW m \in Message
  PROVE  /\ Append(q, m) \in Seq(Message)
         /\ Len(q) \in Nat /\ Len(Append(q, m)) = Len(q) + 1
         /\ \A i \in 1..Len(q) : Append(q, m)[i] = q[i]
         /\ Append(q, m)[Len(q) + 1] = m
OBVIOUS

LEMMA TailGives ==
  ASSUME NEW q \in Seq(Message), q # <<>>
  PROVE  /\ Tail(q) \in Seq(Message) /\ Head(q) = q[1]
         /\ Len(q) \in Nat /\ 1 \in 1..Len(q) /\ Len(Tail(q)) = Len(q) - 1
         /\ \A i \in 1..Len(Tail(q)) : i + 1 \in 1..Len(q) /\ Tail(q)[i] = q[i + 1]
OBVIOUS

(* A late line disturbs nothing, wherever it arrives.                      *)
LEMMA LineDisturbsNothing ==
  ASSUME NEW q \in Seq(Message), NEW kind
  PROVE  /\ Lines(q) => Lines(Append(q, Line))
         /\ Of(q, kind) => Of(Append(q, Line), kind)
         /\ Unended(q) => Unended(Append(q, Line))
         /\ Ended(q) => Ended(Append(q, Line))
<1> DEFINE p == Append(q, Line)
<1>0. Line \in Message /\ Line.is = "report"
  BY DEF Line, Message, Kind, Outcome
<1>1. /\ Len(q) \in Nat /\ Len(p) = Len(q) + 1
      /\ \A i \in 1..Len(q) : p[i] = q[i]
      /\ p[Len(q) + 1] = Line
  BY <1>0, AppendGives
<1> HIDE DEF p
<1>2. \A i \in 1..Len(p) : (i \in 1..Len(q) /\ p[i] = q[i]) \/ p[i] = Line
  BY <1>1
<1>3. Lines(q) => Lines(p)
  BY <1>2 DEF Lines
<1>4. Of(q, kind) => Of(p, kind)
  BY <1>2 DEF Of
<1>5. Unended(q) => Unended(p)
  BY <1>0, <1>2 DEF Unended
<1>6. ASSUME Ended(q) PROVE Ended(p)
  <2>1. PICK e \in 1..Len(q) :
          /\ q[e].is # "report"
          /\ \A i \in 1..Len(q) : i < e => q[i].is = "report"
          /\ \A i \in 1..Len(q) : e < i => q[i] = Line
    BY <1>6 DEF Ended
  <2>2. e \in 1..Len(p) /\ p[e].is # "report"
    BY <1>1, <2>1
  <2>3. \A i \in 1..Len(p) : i < e => p[i].is = "report"
    BY <1>1, <2>1
  <2>4. \A i \in 1..Len(p) : e < i => p[i] = Line
    BY <1>2, <2>1
  <2>5. QED  BY <2>2, <2>3, <2>4 DEF Ended
<1>7. QED  BY <1>3, <1>4, <1>5, <1>6 DEF p

(* The message of a call that runs comes last; its end is the end.         *)
LEMMA CallSends ==
  ASSUME NEW q \in Seq(Message), NEW m \in Message,
         Of(q, m.of), Unended(q)
  PROVE  /\ Of(Append(q, m), m.of)
         /\ m.is = "report" => Unended(Append(q, m))
         /\ m.is # "report" => Ended(Append(q, m))
<1> DEFINE p == Append(q, m)
<1>1. /\ Len(q) \in Nat /\ Len(p) = Len(q) + 1
      /\ \A i \in 1..Len(q) : p[i] = q[i]
      /\ p[Len(q) + 1] = m
  BY AppendGives
<1> HIDE DEF p
<1>2. \A i \in 1..Len(p) : (i \in 1..Len(q) /\ p[i] = q[i]) \/ p[i] = m
  BY <1>1
<1>3. Of(p, m.of)
  BY <1>2 DEF Of
<1>4. m.is = "report" => Unended(p)
  BY <1>2 DEF Unended
<1>5. ASSUME m.is # "report" PROVE Ended(p)
  <2>1. Len(p) \in 1..Len(p) /\ p[Len(p)].is # "report"
    BY <1>1, <1>5
  <2>2. \A i \in 1..Len(p) : i < Len(p) => p[i].is = "report"
    BY <1>1 DEF Unended
  <2>3. \A i \in 1..Len(p) : ~(Len(p) < i)
    BY <1>1
  <2>4. QED  BY <2>1, <2>2, <2>3 DEF Ended
<1>6. QED  BY <1>3, <1>4, <1>5 DEF p

(* Reading a report leaves the end where it is; reading the end leaves     *)
(* late lines at most.                                                     *)
LEMMA ReadingGoesOn ==
  ASSUME NEW q \in Seq(Message), q # <<>>, NEW kind
  PROVE  /\ Of(q, kind) => Of(Tail(q), kind)
         /\ Unended(q) => Unended(Tail(q)) /\ Head(q).is = "report"
         /\ Ended(q) /\ Head(q).is = "report" => Ended(Tail(q))
         /\ Ended(q) /\ Head(q).is # "report" => Lines(Tail(q))
<1> DEFINE p == Tail(q)
<1>1. /\ Head(q) = q[1] /\ Len(q) \in Nat /\ 1 \in 1..Len(q)
      /\ Len(p) = Len(q) - 1
      /\ \A i \in 1..Len(p) : i + 1 \in 1..Len(q) /\ p[i] = q[i + 1]
  BY TailGives
<1> HIDE DEF p
<1>2. Of(q, kind) => Of(p, kind)
  BY <1>1 DEF Of
<1>3. Unended(q) => Unended(p) /\ Head(q).is = "report"
  BY <1>1 DEF Unended
<1>4. ASSUME Ended(q)
      PROVE  /\ Head(q).is = "report" => Ended(p)
             /\ Head(q).is # "report" => Lines(p)
  <2>1. PICK e \in 1..Len(q) :
          /\ q[e].is # "report"
          /\ \A i \in 1..Len(q) : i < e => q[i].is = "report"
          /\ \A i \in 1..Len(q) : e < i => q[i] = Line
    BY <1>4 DEF Ended
  <2>2. CASE e = 1
    <3>1. \A i \in 1..Len(p) : p[i] = Line
      BY <1>1, <2>1, <2>2
    <3>2. QED  BY <1>1, <2>1, <2>2, <3>1 DEF Lines
  <2>3. CASE e # 1
    <3>1. 1 < e /\ Head(q).is = "report"
      BY <1>1, <2>1, <2>3
    <3>2. e - 1 \in 1..Len(p) /\ p[e - 1] = q[e]
      BY <1>1, <3>1
    <3>3. \A i \in 1..Len(p) : i < e - 1 => p[i].is = "report"
      BY <1>1, <2>1, <3>1
    <3>4. \A i \in 1..Len(p) : e - 1 < i => p[i] = Line
      BY <1>1, <2>1, <3>1
    <3>5. Ended(p)
      BY <2>1, <3>2, <3>3, <3>4 DEF Ended
    <3>6. QED  BY <3>1, <3>5
  <2>4. QED  BY <2>2, <2>3
<1>5. QED  BY <1>2, <1>3, <1>4 DEF p

----------------------------------------------------------------------------
LEMMA InitInv == Init => IInv
<1> SUFFICES ASSUME Init PROVE IInv
  OBVIOUS
<1>1. /\ screen = "probe" /\ ch = NoChoices /\ jobs = {} /\ cur = 0
      /\ events = [n \in Channel |-> <<>>] /\ waits = [n \in Channel |-> 0]
      /\ ~canRetry /\ ~installed
  BY DEF Init
<1>2. \A n \in Channel : events[n] = <<>> /\ Len(events[n]) = 0
  BY <1>1
<1>3. Calls = {}
  BY <1>1 DEF Calls
<1>4. Shape
  BY <1>1, SetupConstants DEF Shape, NoChoices, Choices
<1>5. Idle
  BY <1>1, <1>2, <1>3 DEF Idle, Lines
<1>6. Answers /\ AfterInstall
  BY <1>1, <1>3 DEF Answers, AfterInstall
<1>7. QED  BY <1>4, <1>5, <1>6 DEF IInv

----------------------------------------------------------------------------
\* The background calls.

LEMMA SendGives ==
  ASSUME Shape, NEW n \in Channel, NEW m \in Message,
         events' = [events EXCEPT ![n] = Append(@, m)]
  PROVE  /\ events' \in [Channel -> Seq(Message)]
         /\ events[n] \in Seq(Message)
         /\ events'[n] = Append(events[n], m)
         /\ \A k \in Channel \ {n} : events'[k] = events[k]
         /\ \A k \in Channel : \A i \in 1..Len(events'[k]) :
              events'[k][i] = m \/ (i \in 1..Len(events[k]) /\ events'[k][i] = events[k][i])
<1>1. /\ events[n] \in Seq(Message) /\ events'[n] = Append(events[n], m)
      /\ \A k \in Channel \ {n} : events'[k] = events[k]
  BY DEF Shape
<1>2. Append(events[n], m) \in Seq(Message)
  BY <1>1, AppendGives
<1>3. events' \in [Channel -> Seq(Message)]
  BY <1>2 DEF Shape
<1>4. \A i \in 1..Len(events'[n]) :
        events'[n][i] = m \/ (i \in 1..Len(events[n]) /\ events'[n][i] = events[n][i])
  BY <1>1, AppendGives
<1>5. QED  BY <1>1, <1>3, <1>4

LEMMA DownloadsInv ==
  ASSUME IInv, NEW j \in jobs, j.kind = "downloads", Reports(j)
  PROVE  IInv'
<1> DEFINE n == j.chan
<1>1. /\ Shape /\ Answers /\ AfterInstall /\ n \in Channel /\ j \in AnyJob
  BY DEF IInv, Shape, AnyJob
<1>2. /\ events' = [events EXCEPT ![n] = Append(@, Line)]
      /\ UNCHANGED <<screen, ch, checkErr, canRetry, cur, waits, checked, confirmed, installed>>
      /\ jobs' = jobs \ {j}
  <2>1. [j EXCEPT !.left = @ - 1].kind = "downloads"
    BY <1>1 DEF AnyJob
  <2>2. jobs' = jobs \ {j}
    BY <2>1 DEF Reports
  <2>3. QED  BY <2>2 DEF Reports, Send, Line, flags, history
<1>3. Line \in Message /\ Line.is = "report" /\ Line.of = "downloads"
  BY DEF Line, Message, Kind
<1>4. /\ events' \in [Channel -> Seq(Message)]
      /\ events[n] \in Seq(Message)
      /\ events'[n] = Append(events[n], Line)
      /\ \A k \in Channel \ {n} : events'[k] = events[k]
      /\ \A k \in Channel : \A i \in 1..Len(events'[k]) :
           \/ events'[k][i] = Line
           \/ i \in 1..Len(events[k]) /\ events'[k][i] = events[k][i]
  BY <1>1, <1>2, <1>3, SendGives
<1>5. Calls' = Calls
  BY <1>2 DEF Calls
<1>6. Shape'
  BY <1>1, <1>2, <1>4 DEF Shape
<1>7. \A k \in Channel, kind \in Kind :
        /\ Lines(events[k]) => Lines(events'[k])
        /\ Of(events[k], kind) => Of(events'[k], kind)
        /\ Unended(events[k]) => Unended(events'[k])
        /\ Ended(events[k]) => Ended(events'[k])
  BY <1>4, LineDisturbsNothing
<1>8. Idle => Idle'
  BY <1>2, <1>5, <1>7 DEF Idle, Kind
<1>9. ASSUME Running PROVE Running'
  <2>1. cur \in Channel /\ screen \in Kind
    BY <1>9 DEF Running, Kind
  <2>2. /\ cur' \in Channel /\ waits'[cur'] = 1 /\ screen' \in {"check", "install", "join"}
        /\ screen' = "check" => ~checkErr'
        /\ \A k \in Channel \ {cur'} : waits'[k] = 0 /\ Lines(events'[k])
        /\ Of(events'[cur'], screen')
    BY <1>2, <1>7, <1>9, <2>1 DEF Running
  <2>3. CASE \E k \in jobs : Calls = {k} /\ k.kind = screen /\ k.chan = cur
    <3>1. PICK k \in jobs : Calls = {k} /\ k.kind = screen /\ k.chan = cur
      BY <2>3
    <3>2. k \in jobs'
      BY <1>2, <3>1 DEF Calls
    <3>3. Unended(events'[cur])
      BY <1>7, <1>9, <2>1, <3>1 DEF Running
    <3>4. QED  BY <1>2, <1>5, <2>2, <3>1, <3>2, <3>3 DEF Running
  <2>4. CASE Calls = {} /\ Ended(events[cur])
    BY <1>2, <1>5, <1>7, <2>1, <2>2, <2>4 DEF Running
  <2>5. QED  BY <1>9, <2>3, <2>4 DEF Running
<1>10. Answers'
  BY <1>1, <1>2, <1>3, <1>4, <1>5 DEF Answers
<1>11. AfterInstall'
  BY <1>1, <1>2, <1>3, <1>4, <1>5 DEF AfterInstall
<1>12. QED  BY <1>6, <1>8, <1>9, <1>10, <1>11 DEF IInv

(* A call that runs: the screen shows it, and it has not ended yet.        *)
LEMMA CallIsShown ==
  ASSUME IInv, NEW j \in Calls
  PROVE  /\ Running /\ Calls = {j} /\ j \in jobs /\ j \in AnyJob
         /\ j.kind = screen /\ j.chan = cur /\ Unended(events[cur])
         /\ ~canRetry
<1>1. Running
  BY DEF IInv, Idle
<1>2. j \in jobs /\ j \in AnyJob
  BY DEF IInv, Shape, Calls
<1>3. ~canRetry
  BY <1>1 DEF IInv, AfterInstall, Running
<1>4. QED  BY <1>1, <1>2, <1>3 DEF Running

LEMMA CallReportsInv ==
  ASSUME IInv, NEW j \in Calls, Reports(j)
  PROVE  IInv'
<1> DEFINE k == [j EXCEPT !.left = @ - 1]
           m == [of |-> j.kind, is |-> "report"]
<1>1. /\ Running /\ Calls = {j} /\ j \in jobs /\ j \in AnyJob
      /\ j.kind = screen /\ j.chan = cur /\ Unended(events[cur]) /\ ~canRetry
      /\ Shape /\ Answers /\ AfterInstall
  BY CallIsShown DEF IInv
<1>2. j.left \in Nat /\ j.left > 0
  BY <1>1 DEF AnyJob, Reports
<1>3. /\ k \in AnyJob /\ k.kind = j.kind /\ k.chan = j.chan /\ k.ch = j.ch
  BY <1>1, <1>2 DEF AnyJob
<1>4. j.kind # "downloads"
  BY DEF Calls
<1>5. /\ events' = [events EXCEPT ![cur] = Append(@, m)]
      /\ UNCHANGED <<screen, ch, checkErr, canRetry, cur, waits, checked, confirmed, installed>>
      /\ jobs' = (jobs \ {j}) \cup {k}
  BY <1>1, <1>3, <1>4 DEF Reports, Send, flags, history
<1>6. m \in Message /\ m.is = "report" /\ m.of = j.kind
  BY <1>1 DEF Message, AnyJob
<1> HIDE DEF k, m
<1>7. Calls' = {k}
  BY <1>1, <1>3, <1>4, <1>5 DEF Calls
<1>8. cur \in Channel
  BY <1>1 DEF Running
<1>9. /\ events' \in [Channel -> Seq(Message)]
      /\ events[cur] \in Seq(Message)
      /\ events'[cur] = Append(events[cur], m)
      /\ \A n \in Channel \ {cur} : events'[n] = events[n]
      /\ \A n \in Channel : \A i \in 1..Len(events'[n]) :
           \/ events'[n][i] = m
           \/ i \in 1..Len(events[n]) /\ events'[n][i] = events[n][i]
  <2>1. Shape /\ m \in Message /\ events' = [events EXCEPT ![cur] = Append(@, m)]
    BY <1>1, <1>5, <1>6
  <2>2. QED  BY <1>8, <2>1, SendGives
<1>10. Shape'
  BY <1>1, <1>3, <1>5, <1>9 DEF Shape
<1>11. Of(events'[cur], screen) /\ Unended(events'[cur])
  BY <1>1, <1>6, <1>9, CallSends DEF Running
<1>12. Running'
  <2>1. k \in jobs'
    BY <1>5
  <2>2. QED
    BY <1>1, <1>3, <1>5, <1>7, <1>9, <1>11, <2>1 DEF Running
<1>13. Answers'
  BY <1>1, <1>3, <1>5, <1>6, <1>7, <1>9 DEF Answers
<1>14. AfterInstall'
  BY <1>1, <1>3, <1>5, <1>6, <1>7, <1>9 DEF AfterInstall
<1>15. QED  BY <1>10, <1>12, <1>13, <1>14 DEF IInv

LEMMA CallEndsInv ==
  ASSUME IInv, NEW j \in Calls, Ends(j)
  PROVE  IInv'
<1>1. /\ Running /\ Calls = {j} /\ j \in jobs /\ j \in AnyJob
      /\ j.kind = screen /\ j.chan = cur /\ Unended(events[cur]) /\ ~canRetry
      /\ Shape /\ Answers /\ AfterInstall
  BY CallIsShown DEF IInv
<1>2. PICK is \in Outcome :
        /\ Send(j, is)
        /\ checked' = IF j.kind = "check" /\ is = "ok" THEN j.ch ELSE checked
        /\ installed' = (installed \/ (j.kind = "install" /\ is = "ok"))
  BY DEF Ends
<1>3. PICK late \in SUBSET {[j EXCEPT !.kind = "downloads", !.left = 1]} :
        jobs' = (jobs \ {j}) \cup late
  BY DEF Ends
<1> DEFINE m == [of |-> j.kind, is |-> is]
<1>4. UNCHANGED <<screen, ch, checkErr, canRetry, cur, waits, confirmed>>
  BY DEF Ends, flags
<1>5. \A k \in late : k \in AnyJob /\ k.kind = "downloads"
  <2> DEFINE d == [j EXCEPT !.kind = "downloads", !.left = 1]
  <2>1. d \in AnyJob /\ d.kind = "downloads"
    BY <1>1 DEF AnyJob, Kind
  <2> HIDE DEF d
  <2>2. late \subseteq {d}
    BY DEF d
  <2>3. QED  BY <2>1, <2>2
<1>6. m \in Message /\ m.is = is /\ m.of = j.kind /\ is # "report"
  BY <1>1 DEF Message, AnyJob, Outcome
<1>7. events' = [events EXCEPT ![cur] = Append(@, m)]
  BY <1>1, <1>2 DEF Send
<1> HIDE DEF m
<1>8. Calls' = {}
  BY <1>1, <1>3, <1>5 DEF Calls
<1>9. cur \in Channel
  BY <1>1 DEF Running
<1>10. /\ events' \in [Channel -> Seq(Message)]
       /\ events[cur] \in Seq(Message)
       /\ events'[cur] = Append(events[cur], m)
       /\ \A n \in Channel \ {cur} : events'[n] = events[n]
       /\ \A n \in Channel : \A i \in 1..Len(events'[n]) :
            \/ events'[n][i] = m
            \/ i \in 1..Len(events[n]) /\ events'[n][i] = events[n][i]
  <2>1. Shape /\ m \in Message
    BY <1>1, <1>6
  <2>2. QED  BY <1>7, <1>9, <2>1, SendGives
<1>11. Shape'
  BY <1>1, <1>3, <1>4, <1>5, <1>10 DEF Shape
<1>12. Of(events'[cur], screen) /\ Ended(events'[cur])
  BY <1>1, <1>6, <1>10, CallSends DEF Running
<1>13. Running'
  BY <1>1, <1>4, <1>8, <1>10, <1>12 DEF Running
\* Nothing in any channel says that a call ended, but the new message.
<1>14. \A n \in Channel : \A i \in 1..Len(events[n]) : events[n][i].is = "report"
  <2>1. \A n \in Channel \ {cur} : \A i \in 1..Len(events[n]) : events[n][i].is = "report"
    BY <1>1 DEF Running, Lines, Line
  <2>2. QED  BY <1>1, <2>1 DEF Unended
<1>15. Answers'
  <2>1. \A n \in Channel : \A i \in 1..Len(events'[n]) :
          events'[n][i] = [of |-> "check", is |-> "ok"] =>
            j.kind = "check" /\ is = "ok"
    BY <1>6, <1>10, <1>14 DEF m
  <2>2. j.kind = "check" => j.ch = ch /\ Sane(ch)
    BY <1>1 DEF Answers
  <2>3. CASE screen = "check"
    BY <1>1, <1>2, <1>4, <1>8, <2>1, <2>2, <2>3 DEF Answers
  <2>4. CASE screen # "check"
    BY <1>1, <1>2, <1>4, <1>8, <2>4 DEF Answers, Running
  <2>5. QED  BY <2>3, <2>4
<1>16. AfterInstall'
  <2>1. installed' => screen \in {"install", "join"}
    BY <1>1, <1>2 DEF AfterInstall, Running
  <2>2. installed' => m # [of |-> "install", is |-> "error"]
    BY <1>1, <1>2, <1>6 DEF AfterInstall, m
  <2>3. ASSUME installed', NEW n \in Channel, NEW i \in 1..Len(events'[n])
        PROVE  events'[n][i] # [of |-> "install", is |-> "error"]
    BY <1>10, <1>14, <2>2, <2>3
  <2>4. QED  BY <1>1, <1>4, <1>8, <2>1, <2>3 DEF AfterInstall
<1>17. QED  BY <1>11, <1>13, <1>15, <1>16 DEF IInv

----------------------------------------------------------------------------
\* The messages.

\* The channels after reading from the one in use: nothing is new in them.
OldMessages ==
  /\ events' \in [Channel -> Seq(Message)]
  /\ \A k \in Channel \ {cur} : events'[k] = events[k]
  /\ \A k \in Channel : \A i \in 1..Len(events'[k]) :
       \E l \in 1..Len(events[k]) : events'[k][i] = events[k][l]

(* Once it succeeded, no failure of an installation turns up in a channel. *)
LEMMA NoOtherEnd ==
  ASSUME AfterInstall, OldMessages, installed
  PROVE  \A k \in Channel : \A i \in 1..Len(events'[k]) :
           events'[k][i] # [of |-> "install", is |-> "error"]
<1> TAKE k \in Channel
<1> TAKE i \in 1..Len(events'[k])
<1>1. PICK l \in 1..Len(events[k]) : events'[k][i] = events[k][l]
  BY DEF OldMessages
<1>2. QED  BY <1>1 DEF AfterInstall

Sent(kind, is) ==
  \E i \in 1..Len(events[cur]) : events[cur][i] = [of |-> kind, is |-> is]

(* A message is read from the channel in use only, while the screen of its *)
(* call is shown; the one that says how the call ended is its last.        *)
LEMMA ReadGives ==
  ASSUME IInv, NEW n \in Channel, NEW kind, NEW is, Receives(n, kind, is)
  PROVE  /\ Running /\ n = cur /\ cur \in Channel
         /\ OldMessages /\ Sent(kind, is)
         /\ Of(events'[cur], screen)
         /\ is = "report" =>
              /\ Unended(events[cur]) => Unended(events'[cur])
              /\ Ended(events[cur]) => Ended(events'[cur])
         /\ is # "report" =>
              kind = screen /\ Calls = {} /\ Lines(events'[cur])
<1> DEFINE q == events[cur]
           m == [of |-> kind, is |-> is]
<1>1. /\ waits[n] > 0 /\ events[n] # <<>> /\ Head(events[n]) = m
      /\ events' = [events EXCEPT ![n] = Tail(@)]
      /\ Shape /\ waits[n] \in Nat
  BY DEF Receives, IInv, Shape
<1>2. Running /\ n = cur /\ cur \in Channel
  BY <1>1 DEF IInv, Idle, Running
<1>3. q \in Seq(Message) /\ q # <<>> /\ Head(q) = m
  BY <1>1, <1>2 DEF Shape
<1>4. /\ m.is = is /\ m.of = kind
      /\ events' = [events EXCEPT ![cur] = Tail(@)]
  BY <1>1, <1>2
<1> HIDE DEF m
<1>5. /\ Tail(q) \in Seq(Message) /\ q[1] = m /\ 1 \in 1..Len(q)
      /\ \A i \in 1..Len(Tail(q)) : i + 1 \in 1..Len(q) /\ Tail(q)[i] = q[i + 1]
  BY <1>3, TailGives
<1>6. /\ events'[cur] = Tail(q)
      /\ \A k \in Channel \ {cur} : events'[k] = events[k]
  BY <1>1, <1>2, <1>4 DEF Shape
<1>7. events' \in [Channel -> Seq(Message)]
  BY <1>1, <1>2, <1>4, <1>5 DEF Shape
<1>8. \A k \in Channel : \A i \in 1..Len(events'[k]) :
        \E l \in 1..Len(events[k]) : events'[k][i] = events[k][l]
  <2> SUFFICES ASSUME NEW k \in Channel, NEW i \in 1..Len(events'[k])
               PROVE  \E l \in 1..Len(events[k]) : events'[k][i] = events[k][l]
    OBVIOUS
  <2>1. CASE k = cur
    <3>1. i + 1 \in 1..Len(q) /\ events'[k][i] = q[i + 1]
      BY <1>5, <1>6, <2>1
    <3>2. QED  BY <2>1, <3>1
  <2>2. CASE k # cur
    BY <1>6, <2>2
  <2>3. QED  BY <2>1, <2>2
<1>9. Of(Tail(q), screen)
  BY <1>2, <1>3, ReadingGoesOn DEF Running
<1>10. is = "report" =>
         /\ Unended(q) => Unended(Tail(q))
         /\ Ended(q) => Ended(Tail(q))
  BY <1>3, <1>4, ReadingGoesOn
<1>11. ASSUME is # "report"
       PROVE  kind = screen /\ Calls = {} /\ Lines(Tail(q))
  <2>1. ~Unended(q)
    BY <1>4, <1>5, <1>11 DEF Unended
  <2>2. Calls = {} /\ Ended(q)
    BY <1>2, <2>1 DEF Running
  <2>3. Lines(Tail(q))
    BY <1>3, <1>4, <1>11, <2>2, ReadingGoesOn
  <2>4. m # Line
    BY <1>4, <1>11 DEF Line
  <2>5. kind = screen
    BY <1>2, <1>4, <1>5, <2>4 DEF Running, Of
  <2>6. QED  BY <2>2, <2>3, <2>5
<1>12. OldMessages
  BY <1>6, <1>7, <1>8 DEF OldMessages
<1>13. Sent(kind, is)
  BY <1>5 DEF Sent, m
<1>14. QED
  BY <1>2, <1>6, <1>9, <1>10, <1>11, <1>12, <1>13

LEMMA ReportedInv ==
  ASSUME IInv, NEW n \in Channel, Reported(n)
  PROVE  IInv'
<1>1. PICK kind \in Kind : Receives(n, kind, "report")
  BY DEF Reported
<1>2. /\ Running /\ n = cur /\ cur \in Channel /\ OldMessages
      /\ Of(events'[cur], screen)
      /\ Unended(events[cur]) => Unended(events'[cur])
      /\ Ended(events[cur]) => Ended(events'[cur])
  <2> DEFINE is == "report"
  <2>1. Receives(n, kind, is) /\ is = "report"
    BY <1>1
  <2> HIDE DEF is
  <2>2. QED  BY <2>1, ReadGives
<1>3. /\ UNCHANGED <<screen, ch, checkErr, canRetry, jobs, cur, checked, confirmed, installed>>
      /\ waits' = [[waits EXCEPT ![n] = @ - 1] EXCEPT ![cur] = @ + 1]
  BY DEF Reported, flags, history
<1>4. Shape /\ Answers /\ AfterInstall /\ waits[cur] = 1 /\ waits \in [Channel -> Nat]
  BY <1>2 DEF IInv, Shape, Running
<1>5. waits' = waits
  BY <1>2, <1>3, <1>4
<1>6. Calls' = Calls
  BY <1>3 DEF Calls
<1>7. Shape'
  BY <1>2, <1>3, <1>4, <1>5 DEF Shape, OldMessages
<1>8. Running'
  BY <1>2, <1>3, <1>5, <1>6 DEF Running, OldMessages
<1>9. Answers'
  BY <1>2, <1>3, <1>4, <1>6 DEF Answers, OldMessages
<1>10. AfterInstall'
  BY <1>2, <1>3, <1>4, <1>6 DEF AfterInstall, OldMessages
<1>11. QED  BY <1>7, <1>8, <1>9, <1>10 DEF IInv

(* Reading how a call ended, without starting another: the screen is idle. *)
LEMMA EndIsRead ==
  ASSUME IInv, NEW n \in Channel, NEW kind, NEW is \in Outcome,
         Receives(n, kind, is), WaitEnds(n),
         UNCHANGED <<ch, jobs, cur>>,
         screen' \notin {"install", "join"}, screen' = "check" => checkErr'
  PROVE  Shape' /\ Idle' /\ kind = screen /\ Calls' = {}
<1>1. is # "report"
  BY DEF Outcome
<1>2. /\ Running /\ n = cur /\ cur \in Channel /\ kind = screen /\ Calls = {}
      /\ OldMessages /\ Lines(events'[cur])
  BY <1>1, ReadGives
<1>3. /\ Shape /\ waits \in [Channel -> Nat] /\ waits[cur] = 1
      /\ \A k \in Channel \ {cur} : waits[k] = 0 /\ Lines(events[k])
  BY <1>2 DEF IInv, Shape, Running
<1>4. waits' = [waits EXCEPT ![cur] = waits[cur] - 1]
  BY <1>2 DEF WaitEnds
<1>5. /\ \A k \in Channel : waits'[k] = 0
      /\ waits' \in [Channel -> Nat]
  BY <1>2, <1>3, <1>4
<1>6. Calls' = {}
  BY <1>2 DEF Calls
<1>7. Shape'
  BY <1>2, <1>3, <1>5 DEF Shape, OldMessages
<1>8. Idle'
  BY <1>2, <1>3, <1>5, <1>6 DEF Idle, OldMessages
<1>9. QED  BY <1>2, <1>6, <1>7, <1>8

LEMMA CheckEndsInv ==
  ASSUME IInv, NEW n \in Channel, CheckEnds(n)
  PROVE  IInv'
<1>1. /\ UNCHANGED <<ch, jobs, cur, canRetry, checked, confirmed, installed>>
      /\ WaitEnds(n)
  BY DEF CheckEnds, history
<1>2. PICK is \in {"ok", "error"} :
        /\ Receives(n, "check", is)
        /\ is = "ok" => screen' = "confirm"
        /\ is = "error" => screen' = screen /\ checkErr'
  BY DEF CheckEnds
<1> DEFINE kind == "check"
<1>3. Receives(n, kind, is) /\ is \in Outcome /\ is # "report"
  BY <1>2 DEF Outcome
<1>4. screen \in {"check", "install", "join"}
  BY <1>3, ReadGives DEF Running
<1>5. screen = kind
  BY <1>3, ReadGives
<1>6. screen' \notin {"install", "join"} /\ (screen' = "check" => checkErr')
  BY <1>2, <1>5
<1>7. /\ Shape' /\ Idle' /\ Calls' = {}
      /\ Sent(kind, is) /\ cur \in Channel /\ OldMessages
  BY <1>1, <1>3, <1>6, EndIsRead, ReadGives
<1>8. ~canRetry /\ ~installed
  BY <1>5 DEF IInv, AfterInstall
<1>9. Answers'
  <2>1. Sane(ch) /\ (is = "ok" => checked = ch)
    BY <1>5, <1>7 DEF IInv, Answers, Sent
  <2>2. screen' = "check" =>
          \A k \in Channel : \A i \in 1..Len(events'[k]) :
            events'[k][i] = [of |-> "check", is |-> "ok"] => checked = ch
    BY <1>5, <1>7 DEF IInv, Answers, OldMessages
  <2>3. CASE is = "ok"
    BY <1>1, <1>2, <1>7, <1>8, <2>1, <2>3 DEF Answers, Sane
  <2>4. CASE is = "error"
    BY <1>1, <1>2, <1>5, <1>7, <1>8, <2>1, <2>2, <2>4 DEF Answers, Sane
  <2>5. QED  BY <2>3, <2>4
<1>10. AfterInstall'
  BY <1>1, <1>8 DEF AfterInstall
<1>11. QED  BY <1>7, <1>9, <1>10 DEF IInv

LEMMA InstallFailsInv ==
  ASSUME IInv, NEW n \in Channel, InstallFails(n)
  PROVE  IInv'
<1> DEFINE kind == "install"
           is == "error"
<1>1. /\ UNCHANGED <<ch, jobs, cur, checkErr, checked, confirmed, installed>>
      /\ WaitEnds(n) /\ Receives(n, kind, is)
      /\ screen' = "failed" /\ canRetry'
  BY DEF InstallFails, history
<1>2. is \in Outcome /\ is # "report" /\ screen' \notin {"install", "join", "check"}
  BY <1>1 DEF Outcome
<1>3. cur \in Channel /\ screen = kind /\ Sent(kind, is)
  BY <1>1, <1>2, ReadGives
<1>4. Shape' /\ Idle' /\ Calls' = {}
  BY <1>1, <1>2, EndIsRead
<1>5. ~installed
  BY <1>3 DEF IInv, AfterInstall, Sent
<1>6. Answers'
  BY <1>1, <1>2, <1>3, <1>4 DEF IInv, Answers
<1>7. AfterInstall'
  BY <1>1, <1>5 DEF AfterInstall
<1>8. QED  BY <1>4, <1>6, <1>7 DEF IInv

LEMMA JoinEndsInv ==
  ASSUME IInv, NEW n \in Channel, JoinEnds(n)
  PROVE  IInv'
<1> DEFINE kind == "join"
<1>1. PICK is \in Outcome : Receives(n, kind, is)
  BY DEF JoinEnds, Outcome
<1>2. /\ UNCHANGED <<ch, jobs, cur, checkErr, canRetry, checked, confirmed, installed>>
      /\ WaitEnds(n) /\ screen' \in {"failed", "done"}
  BY DEF JoinEnds, flags, history
<1>3. is # "report" /\ screen' \notin {"install", "join", "check"}
  BY <1>2 DEF Outcome
<1>4. Running /\ cur \in Channel /\ screen = kind /\ OldMessages
  BY <1>1, <1>3, ReadGives
<1>5. Shape' /\ Idle' /\ Calls' = {}
  BY <1>1, <1>2, <1>3, EndIsRead
<1>6. ~canRetry
  BY <1>4 DEF IInv, AfterInstall
<1>7. Answers'
  BY <1>2, <1>3, <1>5, <1>6 DEF IInv, Answers
<1>8. AfterInstall'
  <2>1. /\ ~canRetry' /\ installed' = installed
        /\ screen' \in {"failed", "done"} /\ screen = "join"
    BY <1>2, <1>4, <1>6
  <2>2. installed => \A k \in Channel : \A i \in 1..Len(events'[k]) :
          events'[k][i] # [of |-> "install", is |-> "error"]
    BY <1>4, NoOtherEnd DEF IInv
  <2>3. \A j \in Calls' : j.kind # "install"
    BY <1>5
  <2>4. QED  BY <2>1, <2>2, <2>3 DEF AfterInstall
<1>9. QED  BY <1>5, <1>7, <1>8 DEF IInv

LEMMA InstallSucceedsInv ==
  ASSUME IInv, NEW n \in Channel, InstallSucceeds(n)
  PROVE  IInv'
<1> DEFINE kind == "install"
           is == "ok"
<1>1. /\ UNCHANGED <<ch, cur, checkErr, canRetry, checked, confirmed, installed>>
      /\ Receives(n, kind, is)
  BY DEF InstallSucceeds, flags, history
<1>2. is \in Outcome /\ is # "report"
  BY DEF Outcome
<1>3. /\ Running /\ n = cur /\ cur \in Channel /\ screen = kind
      /\ Calls = {} /\ Lines(events'[cur]) /\ OldMessages
  BY <1>1, <1>2, ReadGives
<1>4. ~canRetry
  BY <1>3 DEF IInv, AfterInstall
<1>5. CASE ch.role = "coordinator"
  <2>1. UNCHANGED jobs /\ WaitEnds(n) /\ screen' = "done"
    BY <1>5 DEF InstallSucceeds
  <2>2. Shape' /\ Idle' /\ Calls' = {}
    BY <1>1, <1>2, <2>1, EndIsRead
  <2>3. Answers'
    BY <1>1, <1>4, <2>1, <2>2 DEF Answers
  <2>4. AfterInstall'
    BY <1>1, <1>3, <1>4, <2>1, <2>2 DEF IInv, AfterInstall, OldMessages
  <2>5. QED  BY <2>2, <2>3, <2>4 DEF IInv
<1>6. CASE ch.role # "coordinator"
  <2>1. /\ screen' = "join"
        /\ waits' = [[waits EXCEPT ![n] = @ - 1] EXCEPT ![cur] = @ + 1]
        /\ \E left \in 0..MaxReports :
             jobs' = jobs \cup {[kind |-> "join", chan |-> cur, ch |-> ch,
                                 left |-> left, cancelled |-> FALSE]}
    BY <1>6 DEF InstallSucceeds, Start
  <2>2. PICK j : /\ j \in AnyJob /\ j.kind = "join" /\ j.chan = cur
                 /\ jobs' = jobs \cup {j}
    <3>1. PICK left \in 0..MaxReports :
            jobs' = jobs \cup {[kind |-> "join", chan |-> cur, ch |-> ch,
                                left |-> left, cancelled |-> FALSE]}
      BY <2>1
    <3>2. left \in Nat /\ ch \in Choices
      BY SetupConstants DEF IInv, Shape
    <3>3. [kind |-> "join", chan |-> cur, ch |-> ch, left |-> left, cancelled |-> FALSE]
            \in AnyJob
      BY <1>3, <3>2 DEF AnyJob, Kind
    <3>4. QED  BY <3>1, <3>3
  <2>3. waits' = waits
    BY <1>3, <2>1 DEF IInv, Shape, Running
  <2>4. Calls' = {j}
    BY <1>3, <2>2 DEF Calls
  <2>5. Shape'
    BY <1>1, <1>3, <2>2, <2>3 DEF IInv, Shape, OldMessages
  <2>6. Of(events'[cur], "join") /\ Unended(events'[cur])
    BY <1>3 DEF Of, Unended, Lines, Line
  <2>7. Running'
    <3>1. j \in jobs'
      BY <2>2
    <3>2. \A k \in Channel \ {cur} : waits'[k] = 0 /\ Lines(events'[k])
      BY <1>3, <2>3 DEF Running, OldMessages
    <3>3. waits'[cur] = 1
      BY <1>3, <2>3 DEF Running
    <3>4. QED
      BY <1>1, <1>3, <2>1, <2>2, <2>4, <2>6, <3>1, <3>2, <3>3 DEF Running
  <2>8. Answers'
    BY <1>1, <1>4, <2>1, <2>2, <2>4 DEF Answers
  <2>9. AfterInstall'
    <3>1. installed => \A k \in Channel : \A i \in 1..Len(events'[k]) :
            events'[k][i] # [of |-> "install", is |-> "error"]
      BY <1>3, NoOtherEnd DEF IInv
    <3>2. \A k \in Calls' : k.kind # "install"
      BY <2>2, <2>4
    <3>3. ~canRetry' /\ installed' = installed /\ screen' = "join"
      BY <1>1, <1>4, <2>1
    <3>4. QED  BY <3>1, <3>2, <3>3 DEF AfterInstall
  <2>10. QED  BY <2>5, <2>7, <2>8, <2>9 DEF IInv
<1>7. QED  BY <1>5, <1>6

LEMMA ReceiveInv ==
  ASSUME IInv, NEW n \in Channel, Receive(n)
  PROVE  IInv'
BY ReportedInv, CheckEndsInv, InstallFailsInv, InstallSucceedsInv, JoinEndsInv
DEF Receive

----------------------------------------------------------------------------
\* Keys, and the calls outside the channels.

(* A step between screens on which nothing runs.                           *)
LEMMA IdleStep ==
  ASSUME IInv,
         UNCHANGED <<checkErr, canRetry, jobs, events, cur, waits,
                     checked, confirmed, installed>>,
         ch' \in Choices,
         screen \notin {"install", "join"}, screen = "check" => checkErr,
         screen' \notin {"check", "install", "join", "confirm"},
         \/ screen' = "quit" /\ ch' = ch
         \/ screen \notin {"done", "failed", "quit"}
  PROVE  IInv'
<1>1. Idle
  BY DEF IInv, Running
<1>2. Calls' = Calls /\ Calls = {}
  BY <1>1 DEF Idle, Calls
<1>3. Shape'
  BY DEF IInv, Shape
<1>4. Idle'
  BY <1>1, <1>2 DEF Idle
<1>5. screen' # "quit" => ~canRetry /\ ~installed
  BY DEF IInv, AfterInstall
<1>6. Answers'
  <2>1. screen' \notin {"check", "confirm", "install"} /\ canRetry' = canRetry
    OBVIOUS
  <2>2. canRetry => ch' = ch
    BY DEF IInv, AfterInstall
  <2>3. canRetry => Sane(ch) /\ checked = ch /\ confirmed = ch
    BY DEF IInv, Answers
  <2>4. canRetry => Sane(ch)' /\ checked' = ch' /\ confirmed' = ch'
    BY <2>2, <2>3 DEF Sane
  <2>5. Calls' = {}
    BY <1>2
  <2>6. QED  BY <2>1, <2>4, <2>5 DEF Answers
<1>7. AfterInstall'
  BY <1>2, <1>5 DEF IInv, AfterInstall
<1>8. QED  BY <1>3, <1>4, <1>6, <1>7 DEF IInv

LEMMA IdleKeysInv ==
  ASSUME IInv,
         \/ Probe \/ WifiAnswers \/ Quit \/ ScansWifi \/ LeavesWifiForm
         \/ OpensForm \/ EditsForm \/ LeavesForm
  PROVE  IInv'
<1>0. ch \in Choices
  BY DEF IInv, Shape
<1>1. CASE Probe \/ WifiAnswers \/ Quit \/ ScansWifi \/ LeavesWifiForm \/ LeavesForm
  <2>1. /\ UNCHANGED <<checkErr, canRetry, jobs, events, cur, waits,
                       checked, confirmed, installed, ch>>
        /\ screen \notin {"install", "join"} /\ (screen = "check" => checkErr)
        /\ screen' \notin {"check", "install", "join", "confirm"}
        /\ screen' = "quit" \/ screen \notin {"done", "failed", "quit"}
    BY <1>1 DEF Probe, WifiAnswers, Quit, ScansWifi, LeavesWifiForm, LeavesForm, Goto,
      flags, flow, history
  <2>2. QED  BY <1>0, <2>1, IdleStep
<1>2. CASE OpensForm
  <2>1. /\ UNCHANGED <<checkErr, canRetry, jobs, events, cur, waits,
                       checked, confirmed, installed>>
        /\ screen' = "form"
        /\ screen \in {"welcome", "confirm"} \/ (screen = "check" /\ checkErr)
    BY <1>2 DEF OpensForm, openForm, flags, flow, history
  <2>2. ch' \in Choices
    BY <1>0, <1>2 DEF OpensForm, openForm, Choices
  <2>3. QED  BY <2>1, <2>2, IdleStep
<1>3. CASE EditsForm
  <2>1. /\ UNCHANGED <<checkErr, canRetry, jobs, events, cur, waits,
                       checked, confirmed, installed>>
        /\ screen = "form" /\ screen' = "form"
    BY <1>3 DEF EditsForm, flags, flow, history
  <2>2. ch' \in Choices
    <3>1. CASE \E role \in Role : ch' = [ch EXCEPT !.role = role]
      BY <1>0, <3>1 DEF Choices
    <3>2. CASE \E disk \in Disk : ch' = [ch EXCEPT !.disk = disk]
      BY <1>0, <3>2 DEF Choices
    <3>3. CASE \E data \in SUBSET (Disk \ {ch.disk}) : ch' = [ch EXCEPT !.data = data]
      BY <1>0, <3>3 DEF Choices
    <3>4. CASE ch' = [ch EXCEPT !.password = TRUE]
      BY <1>0, <3>4 DEF Choices
    <3>5. QED  BY <1>3, <3>1, <3>2, <3>3, <3>4 DEF EditsForm
  <2>3. QED  BY <2>1, <2>2, IdleStep
<1>4. QED  BY <1>1, <1>2, <1>3

(* A call that is started from an idle screen, on a new channel, with      *)
(* answers that went through the form and, to install, through the check   *)
(* and the question.                                                       *)
LEMMA StartStep ==
  ASSUME IInv, Idle, NEW kind \in {"check", "install"},
         StartOnNewChannel(kind, ch'),
         ch' \in Choices, Sane(ch'), ~canRetry', ~installed', UNCHANGED installed,
         kind = "check" => ~checkErr',
         kind = "install" => checked' = ch' /\ confirmed' = ch'
  PROVE  IInv'
<1>1. /\ Shape /\ Calls = {}
      /\ \A n \in Channel : waits[n] = 0 /\ Lines(events[n])
  BY DEF IInv, Idle
<1>2. /\ cur < MaxAttempts /\ cur' = cur + 1 /\ UNCHANGED events
      /\ waits' = [waits EXCEPT ![cur'] = @ + 1]
      /\ screen' = kind
  BY DEF StartOnNewChannel, Start
<1>3. cur' \in Channel /\ cur' \in 0..MaxAttempts
  BY <1>1, <1>2, SetupConstants DEF Shape, Channel
<1>4. PICK j : /\ j \in AnyJob /\ j.kind = kind /\ j.chan = cur' /\ j.ch = ch'
               /\ jobs' = jobs \cup {j}
  <2>1. PICK left \in 0..MaxReports :
          jobs' = jobs \cup {[kind |-> kind, chan |-> cur', ch |-> ch',
                              left |-> left, cancelled |-> FALSE]}
    BY DEF StartOnNewChannel, Start
  <2>2. left \in Nat
    BY SetupConstants
  <2>3. [kind |-> kind, chan |-> cur', ch |-> ch', left |-> left, cancelled |-> FALSE]
          \in AnyJob
    BY <1>3, <2>2 DEF AnyJob, Kind
  <2>4. QED  BY <2>1, <2>3
<1>5. Calls' = {j}
  BY <1>1, <1>4 DEF Calls
<1>6. /\ waits' \in [Channel -> Nat] /\ waits'[cur'] = 1
      /\ \A n \in Channel \ {cur'} : waits'[n] = 0
  BY <1>1, <1>2, <1>3 DEF Shape
<1>7. Shape'
  BY <1>1, <1>2, <1>3, <1>4, <1>6 DEF Shape
<1>8. Of(events'[cur'], kind) /\ Unended(events'[cur'])
  BY <1>1, <1>2, <1>3 DEF Of, Unended, Lines, Line
<1>9. Running'
  <2>1. j \in jobs'
    BY <1>4
  <2>2. QED
    BY <1>1, <1>2, <1>3, <1>4, <1>5, <1>6, <1>8, <2>1 DEF Running
<1>10. Answers'
  <2>1. \A n \in Channel : \A i \in 1..Len(events'[n]) :
          events'[n][i] # [of |-> "check", is |-> "ok"]
    BY <1>1, <1>2 DEF Lines, Line
  <2>2. QED  BY <1>2, <1>4, <1>5, <2>1 DEF Answers
<1>11. AfterInstall'
  BY DEF AfterInstall
<1>12. QED  BY <1>7, <1>9, <1>10, <1>11 DEF IInv

LEMMA StartsInv ==
  ASSUME IInv, SubmitsForm \/ ChecksAgain \/ Confirms \/ Retries
  PROVE  IInv'
<1>0. ch \in Choices
  BY DEF IInv, Shape
<1>1. CASE SubmitsForm
  <2>1. /\ screen = "form" /\ ch.password
        /\ ch' = [ch EXCEPT !.data = @ \ {ch.disk}]
        /\ StartOnNewChannel("check", ch')
        /\ ~checkErr' /\ UNCHANGED <<canRetry, installed>>
    BY <1>1 DEF SubmitsForm, startCheck, history
  <2>2. Idle /\ ~canRetry /\ ~installed
    BY <2>1 DEF IInv, Running, AfterInstall
  <2>3. ch' \in Choices /\ Sane(ch')
    BY <1>0, <2>1 DEF Choices, Sane
  <2>4. QED  BY <2>1, <2>2, <2>3, StartStep
<1>2. CASE ChecksAgain
  <2>1. /\ screen = "check" /\ checkErr /\ ch' = ch
        /\ StartOnNewChannel("check", ch)
        /\ ~checkErr' /\ UNCHANGED <<canRetry, installed>>
    BY <1>2 DEF ChecksAgain, startCheck, history
  <2>2. Idle /\ ~canRetry /\ ~installed /\ Sane(ch)
    BY <2>1 DEF IInv, Running, AfterInstall, Answers
  <2>3. QED  BY <1>0, <2>1, <2>2, StartStep
<1>3. CASE Confirms
  <2>1. /\ screen = "confirm" /\ ch' = ch /\ confirmed' = ch
        /\ StartOnNewChannel("install", ch)
        /\ UNCHANGED <<canRetry, checked, installed>>
    BY <1>3 DEF Confirms, startInstall
  <2>2. Idle /\ ~canRetry /\ ~installed /\ Sane(ch) /\ checked = ch
    BY <2>1 DEF IInv, Running, AfterInstall, Answers
  <2>3. QED  BY <1>0, <2>1, <2>2, StartStep
<1>4. CASE Retries
  <2>1. /\ screen = "failed" /\ canRetry /\ ~canRetry' /\ ch' = ch
        /\ StartOnNewChannel("install", ch)
        /\ UNCHANGED <<checked, confirmed, installed>>
    BY <1>4 DEF Retries, startInstall, history
  <2>2. Idle /\ ~installed /\ Sane(ch) /\ checked = ch /\ confirmed = ch
    BY <2>1 DEF IInv, Running, AfterInstall, Answers
  <2>3. QED  BY <1>0, <2>1, <2>2, StartStep
<1>5. QED  BY <1>1, <1>2, <1>3, <1>4

LEMMA CancelsInv ==
  ASSUME IInv, CancelsCheck \/ CancelsInstall \/ SkipsJoin
  PROVE  IInv'
<1> DEFINE f(j) == [j EXCEPT !.cancelled = @ \/ j.chan = cur]
<1>1. /\ UNCHANGED <<screen, ch, checkErr, canRetry, events, cur, waits,
                     checked, confirmed, installed>>
      /\ Cancel \/ UNCHANGED jobs
      /\ (screen = "check" /\ ~checkErr) \/ screen \in {"install", "join"}
  BY DEF CancelsCheck, CancelsInstall, SkipsJoin, flags, history
<1>2. /\ Running /\ Shape /\ Answers /\ AfterInstall
  BY <1>1 DEF IInv, Idle
<1>3. \A j \in jobs : f(j) \in AnyJob /\ f(j).kind = j.kind
                      /\ f(j).chan = j.chan /\ f(j).ch = j.ch
  <2> TAKE j \in jobs
  <2>1. j \in AnyJob
    BY <1>2 DEF Shape
  <2>2. QED  BY <2>1 DEF AnyJob
<1>4. CASE Cancel
  <2>1. jobs' = {f(j) : j \in jobs}
    BY <1>4 DEF Cancel
  <2> HIDE DEF f
  <2>2. Shape'
    BY <1>1, <1>2, <1>3, <2>1 DEF Shape
  <2>3. Calls' = {f(j) : j \in Calls}
    BY <1>3, <2>1 DEF Calls
  <2>4. Running'
    <3>1. CASE Calls = {}
      <4>1. Calls' = {} /\ Ended(events[cur])
        BY <1>2, <2>3, <3>1 DEF Running
      <4>2. QED  BY <1>1, <1>2, <4>1 DEF Running
    <3>2. CASE Calls # {}
      <4>1. PICK j \in jobs : /\ Calls = {j} /\ j.kind = screen /\ j.chan = cur
                              /\ Unended(events[cur])
        BY <1>2, <3>2 DEF Running
      <4>2. /\ f(j) \in jobs' /\ Calls' = {f(j)}
            /\ f(j).kind = screen /\ f(j).chan = cur
        BY <1>3, <2>1, <2>3, <4>1
      <4>3. QED  BY <1>1, <1>2, <4>1, <4>2 DEF Running
    <3>3. QED  BY <3>1, <3>2
  <2>5. \A k \in Calls' : \E j \in Calls : k.kind = j.kind /\ k.ch = j.ch
    BY <1>3, <2>3 DEF Calls
  <2>6. Answers'
    BY <1>1, <1>2, <2>5 DEF Answers
  <2>7. AfterInstall'
    BY <1>1, <1>2, <2>5 DEF AfterInstall
  <2>8. QED  BY <2>2, <2>4, <2>6, <2>7 DEF IInv
<1>5. CASE UNCHANGED jobs
  BY <1>1, <1>5 DEF IInv, Shape, Idle, Running, Calls, Answers, AfterInstall
<1>6. QED  BY <1>1, <1>4, <1>5

----------------------------------------------------------------------------
\* The theorems.

LEMMA NextInv == IInv /\ [Next]_vars => IInv'
<1> SUFFICES ASSUME IInv, [Next]_vars PROVE IInv'
  OBVIOUS
<1>1. ASSUME NEW j \in jobs, Works(j) PROVE IInv'
  <2>1. CASE j.kind = "downloads"
    BY <1>1, <2>1, DownloadsInv DEF Works, Ends
  <2>2. CASE j \in Calls
    BY <1>1, <2>2, CallReportsInv, CallEndsInv DEF Works
  <2>3. QED  BY <2>1, <2>2 DEF Calls
<1>2. ASSUME NEW n \in Channel, Receive(n) PROVE IInv'
  BY <1>2, ReceiveInv
<1>3. ASSUME Probe \/ WifiAnswers \/ Key PROVE IInv'
  BY <1>3, IdleKeysInv, StartsInv, CancelsInv DEF Key
<1>4. ASSUME UNCHANGED vars PROVE IInv'
  BY <1>4 DEF IInv, Shape, Idle, Running, Calls, Answers, AfterInstall,
    vars, flags, flow, history
<1>5. QED  BY <1>1, <1>2, <1>3, <1>4 DEF Next

LEMMA InvHolds == Spec => []IInv
BY InitInv, NextInv, PTL DEF Spec

(* Each message of a check, an installation or a joining finds the screen  *)
(* and the channel it was sent for, and exactly one wait command brings    *)
(* it, though the handlers of setup.go ask for neither.                    *)
THEOREM MessagesAlwaysMatch == Spec => []MessagesMatchScreen
<1>1. ASSUME IInv PROVE MessagesMatchScreen
  <2>1. CASE Idle
    <3>1. \A n \in Channel : Messages(n) = {}
      BY <2>1 DEF Idle, Messages, Lines, Line
    <3>2. QED  BY <2>1, <3>1 DEF Idle, MessagesMatchScreen
  <2>2. CASE Running
    <3>1. \A j \in Calls : j.kind = screen /\ j.chan = cur
      BY <2>2 DEF Running
    <3>2. \A n \in Channel \ {cur} : waits[n] = 0 /\ Messages(n) = {}
      BY <2>2 DEF Running, Messages, Lines, Line
    <3>3. \A i \in Messages(cur) : events[cur][i].of = screen
      BY <2>2 DEF Running, Messages, Of, Line
    <3>4. Calls # {} \/ Messages(cur) # {}
      <4>1. ASSUME Ended(events[cur]) PROVE Messages(cur) # {}
        <5>1. PICK e \in 1..Len(events[cur]) : events[cur][e].is # "report"
          BY <4>1 DEF Ended
        <5>2. events[cur][e] # Line
          BY <5>1 DEF Line
        <5>3. events[cur][e].of # "downloads"
          BY <2>2, <5>2 DEF Running, Of
        <5>4. QED  BY <5>3 DEF Messages
      <4>2. QED  BY <2>2, <4>1 DEF Running
    <3>5. QED
      BY <2>2, <3>1, <3>2, <3>3, <3>4 DEF Running, MessagesMatchScreen
  <2>3. QED  BY <1>1, <2>1, <2>2 DEF IInv
<1>2. QED  BY <1>1, InvHolds, PTL

(* An installation runs with the answers that passed the last check and    *)
(* for which YES was typed, also when it is retried.                       *)
THEOREM InstallsOnlyConfirmed == Spec => []InstallsWhatWasConfirmed
<1>1. ASSUME IInv, NEW j \in jobs, j.kind = "install"
      PROVE  j.ch = checked /\ j.ch = confirmed /\ j.ch.password /\ j.ch.disk \notin j.ch.data
  <2>1. j \in Calls
    BY <1>1 DEF Calls
  <2>2. screen = "install" /\ j.ch = ch
    BY <1>1, <2>1, CallIsShown DEF IInv, Answers
  <2>3. QED  BY <1>1, <2>2 DEF IInv, Answers, Sane
<1>2. IInv => InstallsWhatWasConfirmed
  BY <1>1 DEF InstallsWhatWasConfirmed
<1>3. QED  BY <1>2, InvHolds, PTL

(* Once an installation succeeded none runs again: r is not offered after  *)
(* a joining that failed.                                                  *)
THEOREM InstalledServersStay == Spec => []NeverReinstalls
<1>1. IInv => NeverReinstalls
  BY DEF IInv, AfterInstall, NeverReinstalls, Calls
<1>2. QED  BY <1>1, InvHolds, PTL

----------------------------------------------------------------------------
\* What the inductive invariant leaves out of the types.

\* Where the answers are complete: a role and a disk are chosen.
Filled ==
  /\ screen \in Screens
  /\ machine \in Machine
  /\ checkErr \in BOOLEAN /\ canRetry \in BOOLEAN /\ armed \in BOOLEAN
  /\ screen \in {"form", "check", "confirm", "install", "join"} \/ canRetry =>
       ch \in Complete

JobsFilled == \A j \in jobs : j.ch \in Complete /\ j.left <= MaxReports

Past == checked \in Choices /\ confirmed \in Choices /\ installed \in BOOLEAN

LEMMA ReadIsShown ==
  ASSUME IInv, NEW n \in Channel, NEW kind, NEW is \in Outcome, Receives(n, kind, is)
  PROVE  screen = kind
<1>1. is # "report"
  BY DEF Outcome
<1>2. QED  BY <1>1, ReadGives

LEMMA FilledKept ==
  ASSUME IInv, Filled, Next
  PROVE  Filled'
<1>1. CASE Probe \/ WifiAnswers
  BY <1>1 DEF Probe, WifiAnswers, Goto, Filled, Screens, flags
<1>2. CASE \E j \in jobs : Works(j)
  BY <1>2 DEF Works, Reports, Ends, Filled, flags
<1>3. ASSUME NEW n \in Channel, Receive(n) PROVE Filled'
  <2>1. CASE Reported(n)
    BY <2>1 DEF Reported, Filled, flags
  <2>2. CASE CheckEnds(n)
    <3>1. screen = "check"
      BY <2>2, ReadIsShown DEF CheckEnds, Outcome
    <3>2. screen' \in {"check", "confirm"} /\ checkErr' \in BOOLEAN
      BY <2>2, <3>1 DEF CheckEnds, Filled
    <3>3. QED  BY <2>2, <3>1, <3>2 DEF CheckEnds, Filled, Screens
  <2>3. CASE InstallFails(n)
    <3>1. screen = "install"
      BY <2>3, ReadIsShown DEF InstallFails, Outcome
    <3>2. QED  BY <2>3, <3>1 DEF InstallFails, Filled, Screens
  <2>4. CASE InstallSucceeds(n)
    <3>1. screen = "install"
      BY <2>4, ReadIsShown DEF InstallSucceeds, Outcome
    <3>2. screen' \in {"done", "join"}
      BY <2>4 DEF InstallSucceeds, Start
    <3>3. QED  BY <2>4, <3>1, <3>2 DEF InstallSucceeds, Filled, Screens, flags
  <2>5. CASE JoinEnds(n)
    BY <2>5 DEF JoinEnds, Filled, Screens, flags
  <2>6. QED  BY <1>3, <2>1, <2>2, <2>3, <2>4, <2>5 DEF Receive
<1>4. CASE Quit \/ ScansWifi \/ LeavesWifiForm \/ LeavesForm
  BY <1>4 DEF Quit, ScansWifi, LeavesWifiForm, LeavesForm, Goto, Filled, Screens, flags
<1>5. CASE OpensForm
  <2>1. PICK role \in Role, disk \in Disk :
          ch' = [role |-> IF ch.role = "unset" THEN role ELSE ch.role,
                 disk |-> IF ch.disk = None THEN disk ELSE ch.disk,
                 data |-> ch.data, password |-> FALSE]
    BY <1>5 DEF OpensForm, openForm
  <2>2. ch' \in Complete
    BY <2>1, SetupConstants DEF IInv, Shape, Choices, Complete
  <2>3. QED  BY <1>5, <2>2 DEF OpensForm, openForm, Filled, Screens, flags
<1>6. CASE EditsForm
  <2>1. ch \in Complete /\ ch \in Choices
    BY <1>6 DEF EditsForm, Filled, IInv, Shape
  <2>2. ch' \in Complete
    BY <1>6, <2>1 DEF EditsForm, Choices, Complete
  <2>3. QED  BY <1>6, <2>2 DEF EditsForm, Filled, flags
<1>7. CASE SubmitsForm
  <2>1. ch \in Complete /\ ch \in Choices
    BY <1>7 DEF SubmitsForm, Filled, IInv, Shape
  <2>2. ch' \in Complete
    BY <1>7, <2>1 DEF SubmitsForm, Choices, Complete
  <2>3. QED
    BY <1>7, <2>2 DEF SubmitsForm, startCheck, StartOnNewChannel, Start, Filled, Screens
<1>8. CASE CancelsCheck \/ CancelsInstall \/ SkipsJoin
  BY <1>8 DEF CancelsCheck, CancelsInstall, SkipsJoin, Filled, flags
<1>9. CASE ChecksAgain
  BY <1>9 DEF ChecksAgain, startCheck, StartOnNewChannel, Start, Filled, Screens
<1>10. CASE Confirms
  BY <1>10 DEF Confirms, startInstall, StartOnNewChannel, Start, Filled, Screens
<1>11. CASE Retries
  BY <1>11 DEF Retries, startInstall, StartOnNewChannel, Start, Filled, Screens
<1>12. QED
  BY <1>1, <1>2, <1>3, <1>4, <1>5, <1>6, <1>7, <1>8, <1>9, <1>10, <1>11 DEF Next, Key

(* A call that is started gets the answers of the screen it belongs to.    *)
LEMMA StartFills ==
  ASSUME JobsFilled, NEW kind, NEW n, NEW answers \in Complete, Start(kind, n, answers)
  PROVE  JobsFilled'
<1>1. PICK left \in 0..MaxReports :
        jobs' = jobs \cup {[kind |-> kind, chan |-> n, ch |-> answers,
                            left |-> left, cancelled |-> FALSE]}
  BY DEF Start
<1>2. left <= MaxReports
  BY SetupConstants
<1>3. QED  BY <1>1, <1>2 DEF JobsFilled

LEMMA CancelFills == ASSUME Shape, JobsFilled, Cancel PROVE JobsFilled'
<1>1. ASSUME NEW j \in jobs
      PROVE  LET k == [j EXCEPT !.cancelled = @ \/ j.chan = cur]
             IN  k.ch = j.ch /\ k.left = j.left
  BY DEF Shape, AnyJob
<1>2. jobs' = {[j EXCEPT !.cancelled = @ \/ j.chan = cur] : j \in jobs}
  BY DEF Cancel
<1>3. \A j \in jobs : j.ch \in Complete /\ j.left <= MaxReports
  BY DEF JobsFilled
<1>4. ASSUME NEW k \in jobs'
      PROVE  k.ch \in Complete /\ k.left <= MaxReports
  <2>1. PICK j \in jobs : k = [j EXCEPT !.cancelled = @ \/ j.chan = cur]
    BY <1>2
  <2>2. k.ch = j.ch /\ k.left = j.left
    BY <1>1, <2>1
  <2>3. QED  BY <1>3, <2>2
<1>5. QED  BY <1>4 DEF JobsFilled

LEMMA JobsFilledKept ==
  ASSUME IInv, Filled, Filled', JobsFilled, Next
  PROVE  JobsFilled'
<1>1. ASSUME NEW j \in jobs, Works(j) PROVE JobsFilled'
  <2>1. j \in AnyJob /\ j.ch \in Complete /\ j.left <= MaxReports
    BY DEF IInv, Shape, JobsFilled
  <2>2. CASE Reports(j)
    <3>1. \A k \in jobs' : k \in jobs \/ k = [j EXCEPT !.left = j.left - 1]
      BY <2>2 DEF Reports
    <3>2. /\ [j EXCEPT !.left = j.left - 1].ch = j.ch
          /\ [j EXCEPT !.left = j.left - 1].left = j.left - 1
      BY <2>1 DEF AnyJob
    <3>3. j.left - 1 <= MaxReports
      BY <2>1, SetupConstants DEF AnyJob
    <3>4. QED  BY <2>1, <3>1, <3>2, <3>3 DEF JobsFilled
  <2>3. CASE Ends(j)
    <3>1. \A k \in jobs' : k \in jobs \/ k = [j EXCEPT !.kind = "downloads", !.left = 1]
      BY <2>3 DEF Ends
    <3>2. /\ [j EXCEPT !.kind = "downloads", !.left = 1].ch = j.ch
          /\ [j EXCEPT !.kind = "downloads", !.left = 1].left = 1
      BY <2>1 DEF AnyJob
    <3>3. 1 <= MaxReports
      BY SetupConstants
    <3>4. QED  BY <2>1, <3>1, <3>2, <3>3 DEF JobsFilled
  <2>4. QED  BY <1>1, <2>2, <2>3 DEF Works
<1>2. ASSUME NEW n \in Channel, Receive(n) PROVE JobsFilled'
  <2>1. CASE InstallSucceeds(n)
    <3>1. screen = "install"
      BY <2>1, ReadIsShown DEF InstallSucceeds, Outcome
    <3>2. ch \in Complete
      BY <3>1 DEF Filled
    <3>3. UNCHANGED jobs \/ Start("join", cur, ch)
      BY <2>1 DEF InstallSucceeds
    <3>4. QED  BY <3>2, <3>3, StartFills DEF JobsFilled
  <2>2. CASE UNCHANGED jobs
    BY <2>2 DEF JobsFilled
  <2>3. QED
    BY <1>2, <2>1, <2>2 DEF Receive, Reported, CheckEnds, InstallFails, JoinEnds
<1>3. CASE SubmitsForm
  <2>1. ch' \in Complete
    BY <1>3 DEF SubmitsForm, startCheck, StartOnNewChannel, Start, Filled
  <2>2. Start("check", cur', ch')
    BY <1>3 DEF SubmitsForm, startCheck, StartOnNewChannel
  <2>3. QED  BY <2>1, <2>2, StartFills
<1>4. CASE ChecksAgain \/ Confirms \/ Retries
  <2>1. ch \in Complete
    BY <1>4 DEF ChecksAgain, Confirms, Retries, Filled
  <2>2. Start("check", cur', ch) \/ Start("install", cur', ch)
    BY <1>4 DEF ChecksAgain, Confirms, Retries, startCheck, startInstall, StartOnNewChannel
  <2>3. QED  BY <2>1, <2>2, StartFills
<1>5. CASE CancelsCheck \/ CancelsInstall \/ SkipsJoin
  BY <1>5, CancelFills DEF CancelsCheck, CancelsInstall, SkipsJoin, IInv, JobsFilled
<1>6. CASE UNCHANGED jobs
  BY <1>6 DEF JobsFilled
<1>7. QED
  BY <1>1, <1>2, <1>3, <1>4, <1>5, <1>6
     DEF Next, Key, Probe, WifiAnswers, Quit, ScansWifi, LeavesWifiForm, OpensForm, openForm,
         EditsForm, LeavesForm, flow

LEMMA PastKept == ASSUME IInv, Past, Next PROVE Past'
<1>1. ASSUME NEW j \in jobs, Works(j) PROVE Past'
  <2>1. j.ch \in Choices
    BY DEF IInv, Shape, AnyJob
  <2>2. QED  BY <1>1, <2>1 DEF Works, Reports, Ends, Past, history
<1>2. CASE Confirms
  BY <1>2 DEF Confirms, Past, IInv, Shape
<1>3. CASE UNCHANGED history
  BY <1>3 DEF Past, history
<1>4. QED
  BY <1>1, <1>2, <1>3
     DEF Next, Probe, WifiAnswers, Receive, Reported, CheckEnds, InstallFails, InstallSucceeds,
         JoinEnds, Key, Quit, ScansWifi, LeavesWifiForm, OpensForm, openForm, EditsForm,
         LeavesForm, SubmitsForm, CancelsCheck, ChecksAgain, CancelsInstall, Retries, SkipsJoin

(* Every variable keeps its shape; above all, no check, installation or    *)
(* joining is started with answers that lack a role or a disk.             *)
THEOREM SetupTypeCorrect == Spec => []TypeOK
<1> DEFINE Types == Filled /\ JobsFilled /\ Past
<1>1. Init => Types
  <2>1. NoChoices \in Choices
    BY DEF NoChoices, Choices
  <2>2. ASSUME Init PROVE Filled
    <3>1. machine \in Machine
      BY <2>2 DEF Init, Machine
    <3>2. screen \in Screens /\ screen = "probe" /\ ~canRetry
      BY <2>2 DEF Init, Screens
    <3>3. QED  BY <2>2, <3>1, <3>2 DEF Init, Filled
  <2>3. QED  BY <2>1, <2>2 DEF Init, JobsFilled, Past
<1>2. IInv /\ Types /\ [Next]_vars => Types'
  <2>1. ASSUME IInv, Types, Next PROVE Types'
    BY <2>1, FilledKept, JobsFilledKept, PastKept
  <2>2. ASSUME Types, UNCHANGED vars PROVE Types'
    BY <2>2 DEF Filled, JobsFilled, Past, vars, flags, flow, history
  <2>3. QED  BY <2>1, <2>2
<1>3. IInv /\ Types => TypeOK
  <2> SUFFICES ASSUME IInv, Types PROVE TypeOK
    OBVIOUS
  <2>1. ASSUME NEW j \in jobs PROVE j \in Job
    <3>1. j \in AnyJob /\ j.ch \in Complete /\ j.left \in Nat /\ j.left <= MaxReports
      BY DEF IInv, Shape, AnyJob, JobsFilled
    <3>2. j.left \in 0..MaxReports
      BY <3>1, SetupConstants
    <3>3. QED  BY <3>1, <3>2 DEF AnyJob, Job
  <2>2. QED  BY <2>1 DEF IInv, Shape, Filled, Past, TypeOK
<1>4. QED  BY <1>1, <1>2, <1>3, InvHolds, PTL DEF Spec
=============================================================================
