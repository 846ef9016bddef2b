------------------------------ MODULE MCWorkers ------------------------------
(* The workers beside `line serve`, on small instances: agentshd's            *)
(* invocations and its detector of loops, the kaizen runner and the heijunka  *)
(* worker. Each has a state of its own, so every behaviour is one of one      *)
(* worker: part says which, and the variables of the others keep their first  *)
(* values.                                                                    *)
EXTENDS Integers, Sequences

VARIABLES part,
    inv, daemon, icount,                                                            \* Invocations
    clock, failures, warned, ends,                                                  \* LoopDetector
    master, cordPulled, idleLine, kreq, seenKaizen, rested, runner, asker, kzPast,  \* Kaizen
    cards, makers, seen, stopped, levels, hj, hjPast,                               \* Heijunka, a card that needs help
    queue, workers, heard, halted, target, leveller, lvPast                         \* Heijunka, claims and levels

------------------------------------------------------------------------------
IV == INSTANCE Invocations WITH Invs <- {1}, Kinds <- {"fg", "bg", "tty"}, MaxFaults <- 1
LO == INSTANCE LoopDetector WITH Sessions <- {"s1", "s2"}, Commands <- {"c1", "c2"}, Threshold <- 2,
        Window <- 2, Late <- 1, MaxEnds <- 3, MaxTime <- 3, now <- clock
KZ == INSTANCE Kaizen WITH MaxMaster <- 2, MaxCord <- 1, MaxFaults <- 1, stopped <- cordPulled
\* One card whose maker asks for help; and one whose maker dies and that sets the levels.
HN == INSTANCE Heijunka WITH Cards <- {"c1"}, Makers <- {"m1"}, Needable <- {"kaizen"}, MaxReaps <- 1,
        MinAgents <- 0, MaxAgents <- 0, CardsPerAgent <- 1, WIPPerAgent <- 1, MaxStep <- 1,
        MaxClaims <- 1, MaxFaults <- 0, MaxCord <- 0
HL == INSTANCE Heijunka WITH Cards <- {"c1"}, Makers <- {"m1"}, Needable <- {}, MaxReaps <- 1,
        MinAgents <- 0, MaxAgents <- 2, CardsPerAgent <- 1, WIPPerAgent <- 1, MaxStep <- 1,
        MaxClaims <- 1, MaxFaults <- 1, MaxCord <- 1,
        cards <- queue, makers <- workers, seen <- heard, stopped <- halted, levels <- target, hj <- leveller, hjPast <- lvPast

ivVars == <<inv, daemon, icount>>
loVars == <<clock, failures, warned, ends>>
kzVars == <<master, cordPulled, idleLine, kreq, seenKaizen, rested, runner, asker, kzPast>>
hnVars == <<cards, makers, seen, stopped, levels, hj, hjPast>>
hlVars == <<queue, workers, heard, halted, target, leveller, lvPast>>
vars == <<part, ivVars, loVars, kzVars, hnVars, hlVars>>

Init ==
    /\ part \in {"invocations", "loops", "kaizen", "needs", "levels"}
    /\ IV!Init /\ LO!Init /\ KZ!Init /\ HN!Init /\ HL!Init

\* The parts other than p rest.
OthersRest(p) ==
    /\ UNCHANGED part
    /\ IF p = "invocations" THEN TRUE ELSE UNCHANGED ivVars
    /\ IF p = "loops" THEN TRUE ELSE UNCHANGED loVars
    /\ IF p = "kaizen" THEN TRUE ELSE UNCHANGED kzVars
    /\ IF p = "needs" THEN TRUE ELSE UNCHANGED hnVars
    /\ IF p = "levels" THEN TRUE ELSE UNCHANGED hlVars

Next ==
    \/ part = "invocations" /\ IV!Next /\ OthersRest("invocations")
    \/ part = "loops" /\ LO!Next /\ OthersRest("loops")
    \/ part = "kaizen" /\ KZ!Next /\ OthersRest("kaizen")
    \/ part = "needs" /\ HN!Next /\ OthersRest("needs")
    \/ part = "levels" /\ HL!Next /\ OthersRest("levels")

\* agentshd: goroutines run, timers fire, SIGKILL kills, and the handlers of a
\* stopping daemon see their context end. The other workers are loops that run,
\* and time passes: silence is noticed, needs age, kaizen's rest ends.
Fairness ==
    /\ WF_ivVars(part = "invocations" /\ IV!Waiter(1))
    /\ WF_ivVars(part = "invocations" /\ IV!Caller(1))
    /\ WF_ivVars(part = "invocations" /\ IV!ProcessKilled(1))
    /\ WF_ivVars(part = "invocations" /\ daemon = "stopping" /\ IV!CallerLeaves(1))
    /\ WF_ivVars(part = "invocations" /\ IV!Exit)
    /\ WF_kzVars(part = "kaizen" /\ KZ!Once)
    /\ WF_kzVars(part = "kaizen" /\ KZ!Rest)
    /\ WF_hnVars(part = "needs" /\ HN!Worker)
    /\ WF_hnVars(part = "needs" /\ HN!Silence("m1"))
    /\ WF_hnVars(part = "needs" /\ HN!NeedAges("c1"))
    /\ WF_hlVars(part = "levels" /\ HL!Worker)
    /\ WF_hlVars(part = "levels" /\ HL!Silence("m1"))

Spec == Init /\ [][Next]_vars /\ Fairness

------------------------------------------------------------------------------
\* agentshd accounts for what it ran: a caller that was told of an invocation can read
\* its output at any later time unless committing or recording it failed, the stored
\* row tells how the process really ended whoever killed it or restarted the daemon,
\* every invocation ends in a terminal row and out of e.running, and a daemon that is
\* told to stop does. A caller is warned of a loop when its command has failed as often
\* as that within the window, and no session's failures are held beyond it.
RunsAreAccountedFor ==
    /\ [](IV!ToldIsReadable /\ IV!RowIsTrue)
    /\ [](part = "loops" => LO!WarningIsDue /\ LO!HoldsTheWindowOnly)
    /\ IV!EveryRunSettles
    /\ IV!ShutdownEnds

\* Heijunka asks for kaizen once per master whatever the answer was, a pending request
\* is answered or lost with serve, and a master kaizen has not seen is worked on once
\* the cord lets it.
RequestsAreAnswered ==
    /\ []KZ!AskedOnce
    /\ KZ!RequestAnswered
    /\ part = "kaizen" => KZ!MasterIsImproved

\* The floor comes to rest: the claim of a dead maker comes back to the queue or
\* reaches the viceroy, a question nobody answers is moved on and its card parked, and
\* with a steady queue the published level reaches what the policy asks for.
FloorSettles ==
    /\ HL!StrandedReturns
    /\ HN!NeedSettles
    /\ part = "levels" => HL!LevelsConverge
==============================================================================
