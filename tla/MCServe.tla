------------------------------- MODULE MCServe -------------------------------
(* The loops `line serve` runs or serves, on small instances: the king's      *)
(* channel and the viceroy that waits on it, the workload controller on       *)
(* kubernetes, the deploy actuator and the watch over the makers. Each has a  *)
(* state of its own, so every behaviour is one of one loop: part says which,  *)
(* and the variables of the others keep their first values.                   *)
EXTENDS Integers, Sequences

VARIABLES part,
    posted, socket, feed, cursor, inbox, obeyed, gatewayUp, reader, faults,  \* Channel
    wl, obj, pass, wlFaults, hist,                                           \* Workloads
    line, building, requests, desired, outcome, act, platform, past,         \* Deploy
    up, drift, heard, since, watch, posts, mwPast,                           \* MakerWatch
    inboxLen, world, testament, loop, viPast                                 \* ViceroyLoop

------------------------------------------------------------------------------
\* A rule that approves by itself and holds one workload, and one the king decides.
TestRule == [roles |-> {"maker"}, kinds |-> {"test"}, approval |-> "auto", max |-> 1, ttl |-> 2, pids |-> 0, expose |-> FALSE]
DemoRule == [roles |-> {"maker"}, kinds |-> {"demo"}, approval |-> "king", max |-> 0, ttl |-> 1, pids |-> 2, expose |-> TRUE]
Spec1(kind, ttl, supported) ==
    [kind |-> kind, image |-> TRUE, ttl |-> ttl, pids |-> 0, expose |-> FALSE, supported |-> supported]

CH == INSTANCE Channel WITH Author <- <<"other", "king", "bot", "king">>, Page <- 2, Gateway <- TRUE,
        MaxFaults <- 1
\* One workload, of a kind the policy approves or the king decides, that may ask
\* for what the engine does not support.
WK == INSTANCE Workloads WITH Loads <- {1}, Rules <- <<TestRule, DemoRule>>,
        Requests <- {Spec1("test", 0, TRUE), Spec1("demo", 1, TRUE), Spec1("demo", 1, FALSE)},
        Engine <- "kubernetes", MaxFaults <- 2, faults <- wlFaults
\* Two builds of one commit.
DA == INSTANCE Deploy WITH Commits <- {1}, Builds <- {"d1", "d2"}, Container <- TRUE, MaxCrashes <- 1,
        MaxAndon <- 1, MaxBuilds <- 2
MW == INSTANCE MakerWatch WITH Makers <- {"m1", "m2"}, Limit <- 1, MaxDrifts <- 4, MaxFaults <- 1
VL == INSTANCE ViceroyLoop WITH Gens <- {1}, MaxMessages <- 2, MaxWorld <- 1, MaxFaults <- 2

chVars == <<posted, socket, feed, cursor, inbox, obeyed, gatewayUp, reader, faults>>
wlVars == <<wl, obj, pass, wlFaults, hist>>
dpVars == <<line, building, requests, desired, outcome, act, platform, past>>
mwVars == <<up, drift, heard, since, watch, posts, mwPast>>
vlVars == <<inboxLen, world, testament, loop, viPast>>
vars == <<part, chVars, wlVars, dpVars, mwVars, vlVars>>

Init ==
    /\ part \in {"channel", "workloads", "deploy", "makers", "viceroy"}
    /\ CH!Init /\ WK!Init /\ DA!Init /\ MW!Init /\ VL!Init

\* The parts other than p rest.
OthersRest(p) ==
    /\ UNCHANGED part
    /\ IF p = "channel" THEN TRUE ELSE UNCHANGED chVars
    /\ IF p = "workloads" THEN TRUE ELSE UNCHANGED wlVars
    /\ IF p = "deploy" THEN TRUE ELSE UNCHANGED dpVars
    /\ IF p = "makers" THEN TRUE ELSE UNCHANGED mwVars
    /\ IF p = "viceroy" THEN TRUE ELSE UNCHANGED vlVars

Next ==
    \/ part = "channel" /\ CH!Next /\ OthersRest("channel")
    \/ part = "workloads" /\ WK!Next /\ OthersRest("workloads")
    \/ part = "deploy" /\ DA!Next /\ OthersRest("deploy")
    \/ part = "makers" /\ MW!Next /\ OthersRest("makers")
    \/ part = "viceroy" /\ VL!Next /\ OthersRest("viceroy")

\* The feeder and the long poll, the controller, the kubelet's deletions and the
\* clock, the actuator, the watch with the makers' heartbeats and the viceroy are loops
\* that run.
Fairness ==
    /\ WF_chVars(part = "channel" /\ CH!Feeding)
    /\ WF_chVars(part = "channel" /\ CH!Reading)
    /\ WF_wlVars(part = "workloads" /\ WK!Pass)
    /\ WF_wlVars(part = "workloads" /\ WK!Age(1))
    /\ WF_wlVars(part = "workloads" /\ WK!KubeletDelete(1))
    /\ WF_dpVars(part = "deploy" /\ DA!Actuate)
    /\ WF_mwVars(part = "makers" /\ MW!Tick)
    /\ WF_mwVars(part = "makers" /\ MW!CheckMakers)
    /\ \A m \in {"m1", "m2"} : /\ WF_mwVars(part = "makers" /\ MW!Beat(m))
                        /\ WF_mwVars(part = "makers" /\ MW!CheckClock(m))
    /\ WF_vlVars(part = "viceroy" /\ VL!Looping(1))

Spec == Init /\ [][Next]_vars /\ Fairness

------------------------------------------------------------------------------
\* The inbox is whole: the cursor passes no message that is not in it and no king's
\* command that was not applied, it is in the order of the messages from whichever
\* transport, a reader that waits while there is news has been or is about to be
\* woken, and every message after the baseline reaches the reader.
InboxIsWhole ==
    /\ [](CH!NothingSkipped /\ CH!InboxOrdered /\ CH!NoLostWakeup)
    /\ CH!EveryMessageRead

\* The engine holds objects only for workloads within the policy and approved; under
\* kubernetes one recorded as exited ran to success (podman reports a container
\* created and never started with exit code 0); and the object of a workload that was
\* stopped or has outlived its lifetime goes.
WorkloadsConverge ==
    /\ [](WK!NothingUnapproved /\ WK!SuccessIsReal)
    /\ WK!StoppedIsRemoved

\* The actuator settles on a running release only when it answered its probe or its
\* rollback failed too (a crash in the middle of a rollout excepted), and a commit
\* whose release is approved is taken up: applied, rolled back or refused.
ReleasesSettle ==
    /\ []DA!SettledIsProbed
    /\ DA!ReleaseSettles

\* Until serve restarts the channel never hears the same alert twice running, except
\* one whose answer was lost; makers that stay silent end up reported, through restarts
\* and posts that fail; and makers that come back take the alarm down unless serve
\* restarted in between. An alert that was delivered and lost its answer is taken for
\* one that was not, and the opposite one may then never follow.
MakersWatched ==
    /\ []MW!AlertsAlternate
    /\ MW!DeadLineReported
    /\ MW!RecoveryReported

\* The viceroy's loop passes nothing over: what the testament marks as handled was in
\* some run's batch, and every message of the king and every change of master or of
\* the cord is brought before a run.
NothingPassedOver ==
    /\ []VL!MarkedWasShown
    /\ VL!EveryMessageShown
    /\ VL!EveryChangeShown
==============================================================================
