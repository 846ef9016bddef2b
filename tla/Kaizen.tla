-------------------------------- MODULE Kaizen --------------------------------
(* The handshake between heijunka and the kaizen station: heijunka asks for a  *)
(* run when the line has room (line/heijunka), serve keeps the latest request  *)
(* in memory (line/station/kaizen_request.go), and the runner starts a run or  *)
(* declines (line/kaizen/runner.go).                                           *)
(*                                                                             *)
(* Masters are numbered as they land. The runner reads master and the request  *)
(* in two calls, heijunka observes and asks in two calls.                      *)
EXTENDS Naturals, FiniteSets

CONSTANTS
    MaxMaster,    \* bound: masters that land
    MaxCord,      \* bound: pulls of the cord
    MaxFaults     \* bound: restarts, lost answers, interrupted runs

VARIABLES
    master, stopped, idleLine,  \* the line: master, cord, no card waits and a maker idles
    kreq,         \* serve: the latest request, in memory
    seenKaizen,   \* serve: the kaizen station's last heartbeat: idle, has a last run
    rested,       \* time: KaizenMinGap passed, and Interval passed, since the last run
    runner,       \* the kaizen runner
    asker,        \* heijunka between Observe and RequestKaizen
    kzPast        \* history: requests filed per master, counters

kzVars == <<master, stopped, idleLine, kreq, seenKaizen, rested, runner, asker, kzPast>>

NoRequest == [state |-> "none", master |-> 0]
Asleep == [at |-> "sleep", read |-> 0, asked |-> FALSE, lastMaster |-> 0]
Fault == kzPast.faults < MaxFaults
Faulted == [kzPast EXCEPT !.faults = @ + 1]

------------------------------------------------------------------------------
\* The line.

Land ==
    /\ master < MaxMaster /\ ~stopped
    /\ master' = master + 1
    /\ UNCHANGED <<stopped, idleLine, kreq, seenKaizen, rested, runner, asker, kzPast>>

Cord ==
    /\ stopped \/ kzPast.cord < MaxCord
    /\ stopped' = ~stopped
    /\ kzPast' = [kzPast EXCEPT !.cord = IF stopped THEN @ ELSE @ + 1]
    /\ UNCHANGED <<master, idleLine, kreq, seenKaizen, rested, runner, asker>>

Backlog ==
    /\ idleLine' = ~idleLine
    /\ UNCHANGED <<master, stopped, kreq, seenKaizen, rested, runner, asker, kzPast>>

Rest ==
    /\ rested # "interval"
    /\ rested' = IF rested = "no" THEN "gap" ELSE "interval"
    /\ UNCHANGED <<master, stopped, idleLine, kreq, seenKaizen, runner, asker, kzPast>>

\* A restart of serve forgets the request and the heartbeats.
ServeRestart ==
    /\ Fault
    /\ kreq' = NoRequest /\ seenKaizen' = [idle |-> FALSE]
    /\ kzPast' = [Faulted EXCEPT !.asked = [m \in 0..MaxMaster |-> 0]]
    /\ UNCHANGED <<master, stopped, idleLine, rested, runner, asker>>

------------------------------------------------------------------------------
\* Heijunka.

\* Mutant: an answered request is made again.
ShouldAskAgain == ~stopped /\ seenKaizen.idle /\ idleLine /\ rested # "no" /\ kreq.state # "pending"

ShouldRequestKaizen ==
    /\ ~stopped /\ seenKaizen.idle /\ idleLine /\ rested # "no"
    /\ kreq.state # "pending" /\ (kreq.state = "none" \/ kreq.master # master)

Observe ==
    /\ asker = "wait" /\ ShouldRequestKaizen
    /\ asker' = "ask"
    /\ UNCHANGED <<master, stopped, idleLine, kreq, seenKaizen, rested, runner, kzPast>>

\* requestKaizen refuses while the cord is pulled or a request is pending.
RequestKaizen ==
    /\ asker = "ask"
    /\ asker' = "wait"
    /\ IF ~stopped /\ kreq.state # "pending"
       THEN /\ kreq' = [state |-> "pending", master |-> master]
            /\ kzPast' = [kzPast EXCEPT !.asked[master] = @ + 1]
       ELSE UNCHANGED <<kreq, kzPast>>
    /\ UNCHANGED <<master, stopped, idleLine, seenKaizen, rested, runner>>

------------------------------------------------------------------------------
\* The runner: Once.

OnceReadsMaster ==
    /\ runner.at = "sleep"
    /\ seenKaizen' = [idle |-> TRUE]
    /\ runner' = [runner EXCEPT !.at = "request", !.read = master]
    /\ UNCHANGED <<master, stopped, idleLine, kreq, rested, asker, kzPast>>

OnceReadsRequest ==
    /\ runner.at = "request"
    /\ runner' = [runner EXCEPT !.at = "decide", !.asked = kreq.state = "pending"]
    /\ UNCHANGED <<master, stopped, idleLine, kreq, seenKaizen, rested, asker, kzPast>>

\* Mutant: without a request no run is due.
DueWhenAsked == runner.asked /\ runner.read # runner.lastMaster

\* Never run before, or master moved and the interval passed or a request stands in for it.
Due == \/ runner.lastMaster = 0
       \/ runner.read # runner.lastMaster /\ (runner.asked \/ rested = "interval")

\* answerKaizen takes one answer for a pending request; a lost call leaves it pending.
Answered(state) == kreq' = [kreq EXCEPT !.state = state]
Sleeping == [Asleep EXCEPT !.lastMaster = runner.lastMaster]

\* Mutant: a request that is not taken up is left unanswered.
DeclinesSilently ==
    /\ runner.at = "decide" /\ (~Due \/ stopped)
    /\ runner' = Sleeping
    /\ UNCHANGED <<master, stopped, idleLine, kreq, seenKaizen, rested, asker, kzPast>>

Declines ==
    /\ runner.at = "decide" /\ (~Due \/ stopped)
    /\ \/ runner.asked /\ kreq.state = "pending" /\ Answered("declined") /\ UNCHANGED kzPast
       \/ (~runner.asked \/ kreq.state # "pending") /\ UNCHANGED <<kreq, kzPast>>
       \/ runner.asked /\ Fault /\ kzPast' = Faulted /\ UNCHANGED kreq
    /\ runner' = Sleeping
    /\ UNCHANGED <<master, stopped, idleLine, seenKaizen, rested, asker>>

Starts ==
    /\ runner.at = "decide" /\ Due /\ ~stopped
    /\ \/ /\ runner.asked /\ kreq.state = "pending"
          /\ Answered("started")
          /\ runner' = [runner EXCEPT !.at = "run"]
          /\ UNCHANGED kzPast
       \/ ~runner.asked /\ runner' = [runner EXCEPT !.at = "run"] /\ UNCHANGED <<kreq, kzPast>>
       \/ /\ runner.asked /\ runner' = Sleeping /\ UNCHANGED kreq
          /\ IF kreq.state = "pending" THEN Fault /\ kzPast' = Faulted ELSE UNCHANGED kzPast
    /\ seenKaizen' = [idle |-> runner'.at # "run" /\ seenKaizen.idle]
    /\ UNCHANGED <<master, stopped, idleLine, rested, asker>>

\* A run that ends counts, whether it landed or not.
RunEnds ==
    /\ runner.at = "run"
    /\ runner' = [Asleep EXCEPT !.lastMaster = runner.read]
    /\ rested' = "no"
    /\ UNCHANGED <<master, stopped, idleLine, kreq, seenKaizen, asker, kzPast>>

\* The process ends: nothing it kept survives.
RunnerRestart ==
    /\ Fault /\ runner' = Asleep /\ kzPast' = Faulted
    /\ UNCHANGED <<master, stopped, idleLine, kreq, seenKaizen, rested, asker>>

Init ==
    /\ master = 1 /\ stopped = FALSE /\ idleLine = TRUE
    /\ kreq = NoRequest /\ seenKaizen = [idle |-> FALSE]
    /\ rested = "interval"
    /\ runner = Asleep /\ asker = "wait"
    /\ kzPast = [asked |-> [m \in 0..MaxMaster |-> 0], cord |-> 0, faults |-> 0]

Once == OnceReadsMaster \/ OnceReadsRequest \/ Declines \/ Starts \/ RunEnds
Next == Land \/ Cord \/ Backlog \/ Rest \/ ServeRestart \/ Observe \/ RequestKaizen \/ Once \/ RunnerRestart

------------------------------------------------------------------------------

\* Heijunka asks once per master, whatever the answer, until serve forgets.
AskedOnce == \A m \in 1..MaxMaster : kzPast.asked[m] <= 1

\* A pending request is answered, or lost with serve.
RequestAnswered == kreq.state = "pending" ~> kreq.state # "pending"

\* A master that stays unseen by kaizen is worked on once the cord lets it.
MasterIsImproved == []<>(~stopped) => \A m \in 1..MaxMaster : (master >= m) ~> (runner.lastMaster >= m)
===============================================================================
