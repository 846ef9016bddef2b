-------------------------------- MODULE Parts --------------------------------
(* Parts of the system as the runs and the proofs take them, and what each    *)
(* promises: on the platform the deploys of a container release, a rollout    *)
(* over the jobs of launchd and the workloads; of the tools beside the line   *)
(* the named services of agentshd, depmaint's campaigns and bughunt's         *)
(* findings; of the line heijunka's triage and reaping, the checks of an      *)
(* attestation, the amendments to the constitution, the budgets, and the      *)
(* objects behind a submission.                                               *)

CONSTANTS
    Commits, Builds, Container, MaxAndon, MaxBuilds,                 \* Deploy
    JobCommits, Labels,                                              \* Launchd
    MaxCrashes,                                                      \* bound: restarts of either actuator
    Loads, Rules, Requests, Engine,                                  \* Workloads
    EngineFaults,                                                    \* bound: failed engine calls, lost reports, crashes
    Runs, Clients,                                                   \* Services
    ToolCrashes,                                                     \* bound: crashes of agentshd
    DiskFaults,                                                      \* bound: files of services that cannot be read or written
    Executors, Goal, MaxAttempts, MaxOrders, MaxCommands, MaxEvents, \* Campaigns
    Prints, Scans, Reports, MaxTriage,                               \* Findings
    Cards, Makers, Needable, MaxReaps, MinAgents, MaxAgents,
    CardsPerAgent, WIPPerAgent, MaxStep, MaxClaims, MaxCord,         \* Heijunka
    FloorFaults,                                                     \* bound: failed calls, crashes, restarts of serve
    Skippable, MaxRuns,                                              \* CheckRuns
    CheckFaults,                                                     \* bound: kills, engine and disk errors, crashes
    Texts, BadTexts, Approvers, Adders, MaxProposals, MaxRetry,      \* Law
    LawFaults,                                                       \* bound: crashes and failed writes of the owner's process
    Budget, Spenders, Others, WorkCards, Amounts, MaxReports, MaxTime, \* Budgets
    Child, Links, Submitted, FirstCommit, Blobs, Stops, MaxSubmits, MaxTicks,
    StoreCrashes                                                     \* Objects

VARIABLES
    trunk, building, requests, desired, outcome, act,
    platform, past,                                                  \* Deploy
    wanted, bin, link, job, rollout, ldPast,                         \* Launchd
    wl, obj, pass, faults, hist,                                     \* Workloads
    services, file, runs, client, svPast,                        \* Services
    tree, snapshot, camp, command, attempts, exec, caCount,          \* Campaigns
    finding, runRows, scan, fdPast,                                  \* Findings
    queue, makers, seen, stopped, levels, hj, hjPast,                \* Heijunka
    att, box, signed, rows, crPast,                                  \* CheckRuns
    head, proposals, lineToml, running, req, add, lwPast,            \* Law
    usage, now, run, calls, btPast,                                  \* Budgets
    repo, cache, master, candidates, stop, cacheRefs, sub,
    pulling, obPast                                                  \* Objects

DB == INSTANCE Deploy WITH line <- trunk
LD == INSTANCE Launchd WITH Commits <- JobCommits, desired <- wanted, pass <- rollout
W == INSTANCE Workloads WITH MaxFaults <- EngineFaults
SV == INSTANCE Services WITH MaxCrashes <- ToolCrashes, MaxFaults <- DiskFaults
CA == INSTANCE Campaigns
FD == INSTANCE Findings
HJ == INSTANCE Heijunka WITH cards <- queue, MaxFaults <- FloorFaults
CR == INSTANCE CheckRuns WITH MaxFaults <- CheckFaults
LW == INSTANCE Law WITH Handlers <- Approvers, MaxFaults <- LawFaults
BU == INSTANCE Budgets WITH Makers <- Spenders, Cards <- WorkCards
OB == INSTANCE Objects WITH Commits <- Submitted, Seed <- FirstCommit, Events <- Stops, MaxCrashes <- StoreCrashes, line <- repo

\* What the theorems about these two take of their constants.
ASSUME StoreAssumption == BU!BudgetsAssumption /\ OB!ObjectsAssumption

------------------------------------------------------------------------------
\* The platform runs only the very build the king approved; and when serve says the
\* desired release is applied and the actuator rests, that release runs. On launchd no
\* job starts a binary that is cut, and a rollout that ends leaves all on one release.
PlatformIsTrue == DB!PlatformIsTrue /\ LD!PlatformIsTrue

\* A container is started at most once for a workload, and a rule's cap on live
\* workloads is exceeded only by creates whose answer was lost.
ContainersBounded == W!ContainersBounded

\* Between two calls of a client a service's name leads to what runs, across kills,
\* failed writes and restarts, and on disk too unless the last write failed.
NameLeadsToIt == SV!NameLeadsToIt

\* A campaign claims only what the tree has; and until a command writes its row over
\* one whose counts have moved since it read it, each step is logged as landed once
\* and at most what racing executors held is spent beyond the budget.
CampaignIsTrue == CA!CampaignIsTrue

\* What scans record stays true: a finding's seen_count is the number of runs that
\* recorded it, a scan gates on exactly the open findings on changed lines that it
\* looks at, and no step of a scan changes what a human decided.
FindingsAreKept == FD!FindingsAreKept

\* Heijunka's triage loses neither a question nor a live claim: a question keeps a
\* needs label until it is answered or its card is parked, whichever call of the
\* move fails; the reaper returns a card a bounded number of times, over restarts,
\* and takes no claim its holder had reported when the status was read.
TriageLosesNothing == HJ!TriageLosesNothing

\* What the checks leave behind is what happened: only outcomes of the check's own are
\* signed, whatever timeouts, kills and engine errors came between, and the failure of
\* a check whose engine CLI died of a signal; the line database tells what was signed;
\* and a check's container outlives its run only if it could not be removed or serve
\* died.
RecordsAreTrue == CR!RecordsAreTrue /\ CR!NoneOutlives

\* The law in force is the one decided: what lands is what the king was shown or
\* the owner's, a station is listed exactly while it is added or once trusted, no
\* text that was in force drops from the history, and a numbered proposal the king
\* may have seen never changes.
LawHolds == LW!LawHolds

\* A budget that a report filled was announced as exhausted, once, however the reports
\* of several stations interleave, unless the post of its notice failed or usage aged
\* out while the report waited; and makers overrun it by no more than the runs they had
\* been cleared for and the reports that dead makers left in the server.
BudgetHolds == BU!ExhaustionAnnounced /\ BU!OverrunBounded

\* The line loses no object: what the guard reads of a commit it merges stays there,
\* although a copy stops at objects whose own children a prune may have taken; until a
\* prune deletes something what a repository holds is whole, through crashes and failed
\* copies; and a prune takes nothing that a ref reaches, also one set after its walk.
ObjectsAreKept == [](OB!LineStaysWhole /\ OB!WholeUntilPruned) /\ OB!PruneSparesRefs
==============================================================================
