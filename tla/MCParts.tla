------------------------------- MODULE MCParts -------------------------------
(* The parts that decide rather than loop, on small instances: in `line serve`*)
(* the cards desk, the constitution, the workloads, the deploys and the       *)
(* budgets; beside it the watcher next to another station, two generations of *)
(* the viceroy's loop and heijunka's triage; agentshd's services and streams; *)
(* depmaint's planner and campaigns; bughunt's findings; the objects behind a *)
(* submission, its checks and their log; the jobs of a deploy on launchd.     *)
(* Each has a state of its own, so every behaviour is one of one part: part   *)
(* says which, and the variables of the others keep their first values.       *)
(* The instances that theorems are about too come from AndonPart, ServeParts  *)
(* and Parts, where their constants are left open.                            *)
EXTENDS Integers, Sequences, AndonPart, ServeParts, Parts

VARIABLES part,
    data, w, idx, follow,                                                 \* Streams
    reg, tier, assigned, moved, plan,                                     \* Planner
    wrote, ring                                                           \* EvidenceLog

------------------------------------------------------------------------------
(* Planner: root needs a and the target t, a and b need each other, and what  *)
(* their newer versions require varies.                                       *)

V100 == <<1, 0, 0>>
V101 == <<1, 0, 1>>
V110 == <<1, 1, 0>>
V200 == <<2, 0, 0>>
Published == [root |-> {V100}, t |-> {V100, V200}, a |-> {V100, V110, V200}, b |-> {V100, V101, V200}]
Needs(d, op, v) == [dep |-> d, clause |-> [op |-> op, bound |-> v]]

Variants ==
    [ra : {"^", "*"}, at : {V100, V200}, ab : {<<"^", V100>>, <<">=", V101>>},
     ab2 : {<<"<", V200>>, <<">=", V101>>, <<">=", V200>>}, ba : {"^", "*", "~"},
     ba1 : {<<"^", V100>>, <<">=", V200>>}, bt : {V100, V200}]

MCRequires(n, p, v) ==
    CASE p = "root" -> <<Needs("a", n.ra, V100), Needs("t", "^", V100)>>
      [] p = "t" -> <<>>
      [] p = "a" /\ v = V100 -> <<Needs("t", "^", V100)>>
      [] p = "a" /\ v = V110 -> <<Needs("t", "^", n.at), Needs("b", n.ab[1], n.ab[2])>>
      [] p = "a" /\ v = V200 -> <<Needs("t", ">=", V100), Needs("b", n.ab2[1], n.ab2[2])>>
      [] p = "b" /\ v = V100 -> <<Needs("a", n.ba, V100)>>
      [] p = "b" /\ v = V101 -> <<Needs("a", n.ba1[1], n.ba1[2])>>
      [] p = "b" /\ v = V200 -> <<Needs("a", "*", V100), Needs("t", "^", n.bt)>>


\* A rule that approves by itself and holds one workload, and one the king decides;
\* two workloads contend for the first one's cap.
TestRule == [roles |-> {"maker"}, kinds |-> {"test"}, approval |-> "auto", max |-> 1, ttl |-> 2, pids |-> 0, expose |-> FALSE]
DemoRule == [roles |-> {"maker"}, kinds |-> {"demo"}, approval |-> "king", max |-> 0, ttl |-> 1, pids |-> 2, expose |-> TRUE]
MCRules == <<TestRule, DemoRule>>
MCRequests == {[kind |-> "test", image |-> TRUE, ttl |-> 0, pids |-> 0, expose |-> FALSE, supported |-> TRUE]}

\* The viceroy may offer what inherits an approval, and close epics not deferred.
NoDelegation == [offer |-> FALSE, close |-> FALSE, types |-> {}, parent |-> "none", inherit |-> FALSE,
                 labels |-> {}, all |-> FALSE, except |-> {}, expired |-> FALSE]
MCDelegations == {[NoDelegation EXCEPT !.offer = TRUE, !.inherit = TRUE],
                  [NoDelegation EXCEPT !.close = TRUE, !.types = {"epic"}, !.except = {"deferred"}]}

Found(p, counts, inDiff) == [print |-> p, counts |-> counts, inDiff |-> inDiff]
MCReports == {<<Found("p", TRUE, TRUE), Found("p", TRUE, FALSE), Found("q", TRUE, TRUE)>>,
              <<Found("p", FALSE, TRUE), Found("q", TRUE, FALSE), Found("p", TRUE, TRUE)>>}

MCLabels == <<"serve", "andon">>
MCSkippable == <<FALSE, TRUE>>

MCBudget == {[scope |-> "maker", tokens |-> 2, period |-> 1, warn |-> 50],
             [scope |-> "card", tokens |-> 3, period |-> 1, warn |-> 60]}

ST == INSTANCE Streams WITH
        Chunks <- {<<"a">>, <<"m">>, <<"n">>, <<"m", "n">>, <<"n", "a", "n">>}, MaxBytes <- 6,
        StrideLines <- 2, StrideBytes <- 3, HeadLines <- 1, TailLines <- 2, MaxMatches <- 2
PL == INSTANCE Planner WITH
        Packages <- <<"a", "b", "root", "t">>, Roots <- {"root"}, Target <- "t", To <- V200,
        Current <- [p \in DOMAIN Published |-> V100], Versions <- Published, Registries <- Variants,
        Requires <- MCRequires
EL == INSTANCE EvidenceLog WITH Max <- 4, Lengths <- 0..6, MaxBytes <- 14

\* Two commits on the seed: the first changes nothing, the second merges it and adds
\* a file and a symlink.
MCChild == [s |-> <<"t">>, t |-> <<>>, b |-> <<>>, c1 |-> <<"s", "t">>,
            c2 |-> <<"s", "c1", "t2">>, t2 |-> <<"b", "l">>, l |-> <<>>, e1 |-> <<>>]
MCLinks == {<<"t2", "l">>}

awVars == <<masters, passed, failures, events, cord, live, pc, st, res, event, last, restarts, other>>
cdVars == <<deskCards, ledger, todo, capCount, deskPast>>
lwVars == <<head, proposals, lineToml, running, req, add, lwPast>>
wlVars == <<wl, obj, pass, faults, hist>>
dpVars == <<trunk, building, requests, desired, outcome, act, platform, past>>
btVars == <<usage, now, run, calls, btPast>>
vlVars == <<inboxLen, world, testament, loop, viPast>>
hjVars == <<queue, makers, seen, stopped, levels, hj, hjPast>>
svVars == <<services, file, runs, client, svPast>>
streamVars == <<data, w, idx, follow>>
plVars == <<reg, tier, assigned, moved, plan>>
caVars == <<tree, snapshot, camp, command, attempts, exec, caCount>>
crVars == <<att, box, signed, rows, crPast>>
elVars == <<wrote, ring>>
ldVars == <<wanted, bin, link, job, rollout, ldPast>>
fdVars == <<finding, runRows, scan, fdPast>>
obVars == <<repo, cache, master, candidates, stop, cacheRefs, sub, pulling, obPast>>
vars == <<part, awVars, cdVars, lwVars, wlVars, dpVars, btVars, vlVars, hjVars, svVars,
          streamVars, plVars, caVars, fdVars, obVars, crVars, elVars, ldVars>>

Init ==
    /\ part \in {"watcher", "desk", "law", "workloads", "deploy", "budgets", "viceroy", "triage",
             "services", "streams", "planner", "campaigns", "findings", "objects",
             "checks", "log", "launchd"}
    /\ IF part = "planner" THEN TRUE ELSE reg = CHOOSE r \in Variants : TRUE
    /\ IF part = "findings" THEN TRUE ELSE finding = [p \in Prints |-> FD!NoRow]
    /\ IF part = "watcher" THEN TRUE ELSE masters = <<"good">> /\ passed = {}
    /\ AW!Init /\ CD!Init /\ LW!Init /\ W!Init /\ DB!Init /\ BU!Init /\ VL!Init /\ HJ!Init /\
       SV!Init /\ ST!Init /\ PL!Init /\ CA!Init /\ FD!Init /\ OB!Init /\ CR!Init /\
       EL!Init /\ LD!Init

\* The parts other than p rest.
OthersRest(p) ==
    /\ UNCHANGED part
    /\ IF p = "watcher" THEN TRUE ELSE UNCHANGED awVars
    /\ IF p = "desk" THEN TRUE ELSE UNCHANGED cdVars
    /\ IF p = "law" THEN TRUE ELSE UNCHANGED lwVars
    /\ IF p = "workloads" THEN TRUE ELSE UNCHANGED wlVars
    /\ IF p = "deploy" THEN TRUE ELSE UNCHANGED dpVars
    /\ IF p = "budgets" THEN TRUE ELSE UNCHANGED btVars
    /\ IF p = "viceroy" THEN TRUE ELSE UNCHANGED vlVars
    /\ IF p = "triage" THEN TRUE ELSE UNCHANGED hjVars
    /\ IF p = "services" THEN TRUE ELSE UNCHANGED svVars
    /\ IF p = "streams" THEN TRUE ELSE UNCHANGED streamVars
    /\ IF p = "planner" THEN TRUE ELSE UNCHANGED plVars
    /\ IF p = "campaigns" THEN TRUE ELSE UNCHANGED caVars
    /\ IF p = "findings" THEN TRUE ELSE UNCHANGED fdVars
    /\ IF p = "objects" THEN TRUE ELSE UNCHANGED obVars
    /\ IF p = "checks" THEN TRUE ELSE UNCHANGED crVars
    /\ IF p = "log" THEN TRUE ELSE UNCHANGED elVars
    /\ IF p = "launchd" THEN TRUE ELSE UNCHANGED ldVars

Next ==
    \/ part = "watcher" /\ AW!Next /\ OthersRest("watcher")
    \/ part = "desk" /\ CD!Next /\ OthersRest("desk")
    \/ part = "law" /\ LW!Next /\ OthersRest("law")
    \/ part = "workloads" /\ W!Next /\ OthersRest("workloads")
    \/ part = "deploy" /\ DB!Next /\ OthersRest("deploy")
    \/ part = "budgets" /\ BU!Next /\ OthersRest("budgets")
    \/ part = "viceroy" /\ VL!Next /\ OthersRest("viceroy")
    \/ part = "triage" /\ HJ!Next /\ OthersRest("triage")
    \/ part = "services" /\ SV!Next /\ OthersRest("services")
    \/ part = "streams" /\ ST!Next /\ OthersRest("streams")
    \/ part = "planner" /\ PL!Next /\ OthersRest("planner")
    \/ part = "campaigns" /\ CA!Next /\ OthersRest("campaigns")
    \/ part = "findings" /\ FD!Next /\ OthersRest("findings")
    \/ part = "objects" /\ OB!Next /\ OthersRest("objects")
    \/ part = "checks" /\ CR!Next /\ OthersRest("checks")
    \/ part = "log" /\ EL!Next /\ OthersRest("log")
    \/ part = "launchd" /\ LD!Next /\ OthersRest("launchd")

Spec == Init /\ [][Next]_vars

------------------------------------------------------------------------------
\* What the tools answer is exact. agentshd's readers see one stream, however its bytes
\* were cut into chunks: a range read through the index, the one-pass search, a preview
\* and a follower agree with the bytes; the evidence of a check is the tail of its
\* output. And a feasible plan of depmaint satisfies every requirement of the versions
\* it moves to, and every turn of the repair loop moves a package up and none down, so
\* it ends.
AnswersAreExact ==
    /\ [](part = "streams" => ST!RangeReadIsExact /\ ST!GrepAgrees /\ ST!PreviewIsHeadAndTail /\ ST!FollowInOrder)
    /\ [](part = "log" => EL!TailIsExact)
    /\ [](part = "planner" => PL!PlanIsSound)
    /\ PL!RepairsClimb
==============================================================================
