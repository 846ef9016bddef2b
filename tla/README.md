# A TLA+ verification of the Sweatshop line

Sweatshop runs software work as a production line: agents ("makers") change a
repository, a *witness* runs the required checks on a commit and signs what it
saw, a *merge guard* is the only thing that moves master and does so only on
signed evidence, and an *andon cord* stops the line when master turns out to be
broken.  A "viceroy" agent runs the line for its owner and is replaced by its
own successors.  Everything is processes that talk HTTP to one server
(`line serve`), a bare git repository whose refs are the shared state, and
containers.

This directory models the parts of that system whose correctness depends on the
order of steps taken by several actors, checks them with TLC on small instances
and proves the central ones with TLAPS.  Every definition that stands for code
is listed with its lines under `map` in `PROJECT.json`.

## Inventory

| Component | State it keeps | Operations | Hard because | Correct when |
|---|---|---|---|---|
| Merge guard (`line/guard`) | master, the stop ref, event blobs, candidate refs | Merge, Pull, Clear | calls run concurrently; each reads a ref and swaps another with no lock between | only proven commits land; the cord has a cause; a stop is lifted on newer proof |
| Witness (`line/witness`) | caches, checkouts, run records | Attest, AttestLine, MergeBundle; the runner of a check and its log | checks take minutes; timeouts, kills and engine errors look like exits | what is signed is how the checks ended by themselves; no container outlives its run |
| Git store (`line/gitx`) | objects, refs | swap, copy, bundle, fetch, prune | prune beside writers; the mutex is of one process | nothing reachable or in flight is pruned |
| Andon watcher (`line/andon`) | `last`, the master it judged | Step: attest, confirm, pull, clear, card | every call may fail after taking effect; others merge, pull, clear, close cards | a broken master stops the line, a good one restarts it, a stop is carded |
| Station server (`line/station`) | the check slot, stations, stores | routes | one slot for merges, attestations, successions | one check at a time, waiters bounded |
| Succession (`line/station/succession.go`) | `viceroy/current`, the history, the pending attempt (memory only), containers | Succeed, Checkin, Bootstrap, Resume, the watch goroutine | handover races its deadline, crashes, the owner's process | one generation serves; charge moves forward; attempts settle |
| Maker runner (`line/maker`) | claimed card, attempts | Once, Loop, settle, release | retries of calls that worked; the cord while working | a card is never lost, closed twice or retried for ever |
| Card desk (`station/cards.go`, `channel_*.go`, `acceptance_request.go`, `epic_approvals.go`) | the tracker (external), the ledger of approved epics | the card routes, the king's words, `/card`, acceptance verdicts | each handler is several `bd` calls, any may fail; two stores | a card reaches the line only on the king's word |
| Heijunka (`line/heijunka`) | levels, reap comments | Decide, Reap, triage of needs | listings are stale when acted on | levels converge; live claims are not reaped; no question is lost |
| Kaizen (`line/kaizen`, `kaizen_request.go`) | the latest request (memory), the last run | request, Once, decline | either side restarts with the request half answered | a request is answered once, a new master is worked on |
| Viceroy loop (`line/viceroy`) | inbox cursor, testament marker | Run | the agent, and a second generation, also write the testament | nothing is passed over; a poison batch does not wedge |
| King's channel (`channel.go`, `channel_gateway.go`) | inbox file, `last_id`, waiting reader | poll, gateway, deliver, Since | two transports; a write, a crash or a reader between any two steps | every message once, in order, nobody sleeps on news |
| Budgets (`budget.go`) | recorded usage | report, announce, refuse claims | checked before the usage is known | exhaustion is announced, unless the post fails; overrun is bounded |
| Maker watch (`liveness.go`) | heartbeats, alerts given (memory) | heartbeat, check, post | posts fail, clocks drift, serve restarts | a dead line is reported, a recovery too |
| Workloads and controller (`workloads.go`, `line/controller`) | requests, engine objects | request, approve, stop, reconcile, report | the controller acts on an old listing, restarts, loses answers | what runs is approved, is started once and goes |
| Deploy (`deploy.go`, `release.go`, `line/deploy`) | requests, the desired release | request, approve, actuate, report | slow builds, a rollout cut in the middle, jobs restarted one by one | what runs is the build that was approved, on every job |
| Constitution (`constitution.go`, `line/linedir`) | the constitution ref, proposals, `line.toml` | propose, approve, add a station | the server and the owner's process write one ref | what is in force is what was decided |
| agentshd (`agentsh/internal`) | invocations and rows, services, output streams | execute, kill, shut down; start and reload; write, read, follow | ends race each other; check-then-act; files that grow while read | a row says how a run ended; a name leads to what runs; readers agree |
| depmaint | plans, campaign row, attempt log, snapshots | plan, next, record | commands are processes that race | a plan satisfies its requirements; a campaign claims only what landed |
| bughunt | findings, scan runs | scan, upsert, gate, triage | scans overlap with each other and with a human | sightings count once; decisions stay |

Interactions: makers and the watcher call the server; the server runs the
witness (in the check slot) and the guard (pull and clear do not take the slot);
the witness fetches a bundle into its cache, pushes a candidate ref and asks the
guard to merge; the watcher reads status, asks for attestations, pulls and
clears, and files cards; the supervisor uses the witness, the check slot, master
and the stop ref before it launches a container, which calls back to check in;
heijunka reads heartbeats and the tracker, publishes levels and asks kaizen for
a run; the channel feeds the inbox the viceroy waits on and turns the king's
words into calls of the card desk, the constitution, workloads and deploys; the
controller and the deploy actuator poll the server and report back.  agentsh,
depmaint and bughunt are programs of their own that stations use.

## Modules

| Module | What it is |
|---|---|
| `Evidence` | commits, signed attestations, and the guard's rules (`verify`, `checkResults`, gates) next to what evidence is *worth* (`Proves`, `Refutes`, `Repairs`) stated independently of the order of the tests |
| `GuardedLine` | the abstract promise: a line that grows by proven commits, stops on a refuted one and restarts on a repaired, strictly newer one, each in one step |
| `MergeGuard` | Merge, Pull and Clear as concurrent handlers, one action per ref they read or move, with failing reads, crashes and a stop ref written by hand |
| `MergeGuardProofs` | type correctness, the safety invariants, and that MergeGuard implements GuardedLine, for all values of the constants |
| `Objects` | the objects behind a submission: bundle, cache, candidate, merge, pull, and the prunes of the cache and of the line |
| `CheckRuns` | an attestation: the container of each required check, what its end is worth, the statement and the rows |
| `EvidenceLog` | the ring that keeps the tail of a check's output |
| `AndonWatcher` | the watcher's Step, one action per call, beside merges, card owners and other stations |
| `Succession` | the supervisor: succeed, check-in, watch/rollback, the owner's bootstrap, crash and resume |
| `MakerRunner` | maker stations and the card routes they settle through: list, claim, run, look at master, close, release, give up |
| `CardsDesk` | every route and word that changes a card, as the list of tracker calls it makes |
| `Heijunka` | the worker's pass: stale needs, the reaper, the levels, beside makers that claim, settle and die |
| `Kaizen` | heijunka's request, serve's memory of it, the runner's poll and its answer |
| `MakerWatch` | the silence and clock alerts over the makers' heartbeats |
| `Channel` | poller, gateway and backfill into the inbox, and the reader that waits on it |
| `ViceroyLoop` | the wake loop of one or two generations and the testament they share with the agent |
| `Law` | proposals, the king's approval and the owner's `station add`, on one ref |
| `Budgets` | usage reports in flight, rolling windows, announcements and refused claims |
| `Workloads` | the policy, the store, the routes and the controller's pass on podman and on kubernetes |
| `Deploy` | request, build, approval, and the actuator with its probe and rollback |
| `Launchd` | the launchd backend: build, link, kickstarts, rollback |
| `Invocations` | agentshd: an invocation from its handler to its row |
| `LoopDetector` | agentshd: the failures of each session and the warning |
| `Services` | agentshd: one named service, in memory and on disk |
| `Streams` | agentshd: the blob writer, the line index, and every reader |
| `Planner` | depmaint: the repair loop that finds an upgrade set |
| `Campaigns` | depmaint: plan, next and record as racing processes |
| `Findings` | bughunt: scans and triage over one table of findings |
| `AndonPart`, `ServeParts`, `Parts` | the instances that runs and proofs share: the constants and variables of each component under names of their own, and the property each component promises |
| `SuccessionProofs` | the supervisor, and the viceroy's loop with its testament |
| `AndonWatcherProofs` | the watcher |
| `MakerRunnerProofs` | the makers, and the card desk |
| `PlatformProofs` | deploys, launchd and workloads |
| `ToolsProofs` | services, campaigns and findings |
| `LineProofs` | heijunka's triage, check runs and the constitution |
| `StoreProofs` | budgets, and the objects behind a submission |
| `MCMergeGuard`, `MCSuccession`, `MCMakerRunner`, `MCAndonWatcher`, `MCObjects` | instances for TLC |
| `MCParts`, `MCServe`, `MCWorkers` | suites of instances for TLC |

Composition: `MergeGuard` extends `Evidence` and instantiates `GuardedLine`.
`AndonWatcher` uses the guard at the grain of "its reads, then its CAS", which
is what `MergeGuard` shows to matter; `Objects` uses it at the grain of the one
check slot; `Succession` uses master and the stop ref as variables that merges
and the cord change at any time, and the check slot.  `MakerRunner` composes
several runners with the tracker, the card routes and the containers, and sees
the line as the trailers that land and the cord.  `Heijunka` composes the worker
with makers, the tracker and serve's heartbeats; `Workloads` the store with the
controller and the engine; `Deploy` the requests with the actuator and the
platform; `Channel` Discord's two transports with the inbox and its reader.

### Suites

Components that share no state would multiply each other's state spaces for
nothing if they were composed in one behaviour.  `MCParts`, `MCServe` and
`MCWorkers` instantiate each such component (twice when two of its instances ask
different things) and give every behaviour one of them: the variable `part` says
which one runs, the others keep their initial values.  A property of a suite is
the conjunction of the named parts of one component's property, or of several
components that answer one question.  `MCParts` holds what decides and is
checked for safety (17 parts), `MCServe` the loops around `line serve` and
`MCWorkers` the workers beside it, both with liveness.

The components that are both checked in `MCParts` and proved about are
instantiated in `AndonPart`, `ServeParts` and `Parts`, with their constants left
open: the run gives them values in `Parts.cfg`, the proof modules extend the same
module and state the same property for every value.

### How state and actions correspond to the code

*MergeGuard.*  `master`, `stop`, `candidates` are the refs `refs/heads/master`,
`refs/line/andon`, `refs/line/candidates/*`; `events` are the event blobs in the
order they are written (an id is a position, so it is unique, as a hash with a
time in it is).  `at`, `req`, `seen`, `base` are the program counter and the
local variables of a handler, `reply` is what it returned last.  An action
reads or swaps one ref: `MergeReadStop`, `MergeReadBase`, `MergeUpdateRef` and
the deferred `MergeCleanup` are `Guard.Merge`; `Pull`, `PullReadStop`,
`PullUpdateRef`, `PullLost` are `Guard.Pull`; `Clear`, `ClearReadBase`,
`ClearReadEvent`, `ClearDeleteRef` are `Guard.Clear`.  A ref moves in one step
because `gitx` swaps it under a process-wide mutex.  `Fail` is any returned
error, `Crash` the death of the server between any two steps.

*AndonWatcher.*  `pc` names the call Step makes next; `st`, `res`, `todo` are
its locals, `last` the field of `Watcher`.  `Kind` says what the checks do on a
commit; a merge records a passing run of its commit or fails to.  Each call has
an error action (`AttestError`, `StepError`, `PullError`, `ClearError`,
`EnsureCardError`), which for pull, clear and cards may come after the effect.

*Succession.*  `current` and `history` are the files, `pending`, `starting` and
`attempt` the supervisor's memory, `box` what the container of each generation
does (`none`, `startup`, `checkin`, `serving`).  A handler gives up the slot
when it replies; `watch`/`rollback`/`rollbackRemove` is the goroutine of one
attempt; `Bootstrap*` is the owner's separate process, which shares only the
files, the containers and master; `Crash` drops everything in memory and
`Resume` starts the current generation before the server listens.

*MakerRunner.*  `status`, `holder`, `gaveUp`, `needsKing` are what `bd` keeps of
a card; `bd` is external: its claim takes an open, unclaimed card, its unclaim
is for the holder, its close for anybody, as the comments of `cards.go` say.
`at` names the call `Once` makes next, the other functions of a station are its
locals and the field `attempts`.  A route that reads the assignee and then
calls `bd` is two actions where the two can disagree (`CheckClose`, `Close`;
`CheckGiveUp`, `LabelGaveUp`, `LabelNeedsKing`); for a release `bd` makes the
same test itself.  A failing call has two forms, before and after its effect.
`containers` are the running containers by name (station and card); `Crash`
leaves them, `StartRun` trips over one of its own name and removes it, as
`DockerEngine.Run` does.  `Land` lets an agent name any card in the trailer.
The agent is taken to leave settling to its runner, as its prompt tells it.

*Objects.*  `line` and `cache` are the two repositories: per object whether it is
held and whether it is older than the grace of a prune.  `sub` is the submission
in the check slot: `SeedCopy`, `FetchBundle`, `Attest`, `PushCommit`, `Merge` are
its steps, `PruneMark`, `PruneDelete`, `PruneDone` those of `PruneUnreachable`,
which deletes one object at a time.  A step of a copy (`Copies`) writes the
`Deepest` of the objects that are `Open`: the recursion of `objectCopier.copy`
stops at what the destination has and writes children first.  `WriteBlob` and
`PullRef` are a pull that has written its event and not set the ref yet. `Reads`
is what the guard looks at before it merges: the commit and what its tree has
beyond master's, symlinks left out; `Firm` is all it has read of a commit by then,
its first parents included.

*CheckRuns.*  `att.at` is the place in `Witness.run` and, inside it, in
`ContainerRunner.Run` and `LogRunner.Run`; `box` is the check's container, which
ends (`BoxEnds`), is killed (`BoxKilled`) or never starts, while the context of
the run may end at any step (`Cut`).  The engine's command returns with the
container's exit code, after a cut, or because a signal took it (`CLIDies`): its
exit code is then -1 whatever the container does.  `ended` is history: how the
container really ended, which the code only sees as an exit code.  A row carries the
outcome of its run.  *EvidenceLog.*  Bytes are numbered as they are written.

*CardsDesk.*  A handler's `todo` is the list of tracker calls it has left; `Step`
makes the next one; `StepFails` fails it and drops the rest, as the handlers
return on the first error; `StepLosesAnswer` drops the rest of a call that took
effect and whose answer was lost.  `KingsWord`, `ViceroysWord`, `MakersWord` and
`GembasWord` start the routes each may call; `OfferStep` is the offer with its
reads of the ledger and of the ancestors, `Reopen` anybody's reopening of a closed
card.

*Law.*  A commit of the constitution is the history that leads to it, so
`UpdateRef`'s compare (`ApproveCompare`, `AddCompare`) and write (`ApproveSwap`,
`AddSwap`) are about whole histories.  The server's handlers hold a mutex between
the two, the owner's process (`AddRead` .. `AddUndo`, `AddCut` when it dies) does
not take part in it.  After the ref has moved it writes the constitution file
(`AddFile`); when that fails it undoes its line in `line.toml`, as it does when
the ref could not be moved.

*Workloads.*  `Serve` is the store's routes, each one step under the store's
mutex; `Platform` what the engine and the clock do; `Pass` the controller's
`Reconcile`: `CtlList`, then per workload a verdict and the calls that follow
it, then the orphans.  `CtlCrash` may come anywhere; an engine call has a form
whose answer is lost.

*Deploy.*  `RequestDeploy` checks, a slow build follows, `StoreRequest` replaces
the commit's request, `ApproveDeploy` is the king's.  `Actuate` is the pass of
the actuator: `ActPull`, `ActApply`, `ActProbe`, `ActRollback`, `ActReport`.

*Launchd.*  The same pass on the Mac: `Build` renames a finished binary into
place, `Activate` swaps the link, `Kickstart` restarts one job, `Kicked` joins
the errors; `target` tells the rollout from its rollback.  `JobRestarts` is
launchd's own.

*Budgets.*  A report reads its clock when it arrives, meters (under `budgetMu`)
and is recorded in three steps, any of which may fail (`UsageFails`); each notice
it sends may fail to post.  `ClaimChecks` is the claim route's look at the usage
recorded by then.  `StationDies` leaves a report that was sent in the server, and
the station that comes back may claim again beside it.

*Channel.*  `feed` is the goroutine that holds `feedMu` with the messages it has
still to deliver; `DeliverAppend`, `DeliverWake`, `DeliverCommand`,
`DeliverSave` are the steps of `deliver`.  `SinceTake`, `SinceRead`,
`SinceWoken` are the long poll: it takes the wake-up channel before it reads.

*ViceroyLoop.*  Per generation the loop waits, runs the agent on its batch, and
marks the batch by `MarkerGet` and `MarkerPut`; `AgentPut` is the agent's own
rewriting of the testament.

*Heijunka.*  `hj` is the place in `Step` with what the worker has read; every
`bd` call is a step (`ListClaimed`, `Reread`, `Unclaim`, `EscalateLabel`,
`LabelNeed`, `DropNeed`), so that makers act between them.  A card's revision
is the flag `moved`, ages are `stale`, `late`, `fresh`.

*Kaizen*, *MakerWatch.*  Requests and heartbeats are memory of serve and are
lost at `ServeRestart`/`Restart`; a post of the watch is answered (`Answered`),
was delivered though its answer was lost (`Unanswered`), or fails
(`Undelivered`).

*Invocations.*  `Create` is the row and the handler, `Waiter` the goroutine of
`wait`, `Caller` the handler that waits for it, `Kill` another connection.  The
record is read, copied and stored in steps of their own, as `e.mu` is taken
several times; the commit of its output may fail in `CopyRecord`.  `Restart`
reconciles rows with what survived.

*LoopDetector.*  An end is recorded with the time it came about, up to `Late`
ticks before the clock, because the goroutine of `wait` records it after it has
let go of `e.mu`.

*Services.*  Each operation is cut where `svcMu` is released; writing or removing
the record on disk may fail (`PersistFails`, `RemoveFails`), and so may reading it
at a restart (`ReadsRecord`).  *Streams.*  A
byte is a newline, one the pattern matches, or another; chunks cut the stream
anywhere.  *Planner.*  A step is one turn of `closure`'s loop; what the
registry requires is chosen at the start, and the edges of the graph are what it
says.  *Campaigns.*  Every command is a process: a plan reads the row, looks at
the snapshot and rewrites the row (`PlanRead`, `PlanGraph`, `PlanSave`); a next
that finds the budget spent rewrites it too (`NextRead`, `Exhaust`); a record
reads it, plans anew after a success, rewrites it and appends to the log.
`caCount.undone` is history: some command has written its row over one whose
counts had moved since it read it.  *Findings.*  `Look` reads a
finding and `Record` writes it.

## Runs

| Run | Shows | States |
|---|---|---|
| `guard_races` | two handlers in all interleavings implement `GuardedLine`; replies stay true (`RepliesHold`); what a call has read is still good for its next step (`InFlight`) | 232k |
| `guard_verdicts` | with the server's one check slot and evidence that is wrong in various ways: `OnlyProvenCommits`, `StopHasCause`, `CandidateKept` | 178k |
| `watcher_live` | `VerdictsHold`: two signed failures before a stop, no verdict left not acted on; `LineFollowsMaster`: a broken master stops the line, a good one restarts it, a stop is carded | 6k |
| `succession_races` | `LaunchIsAlone`, `OneInCharge`, `HandoverIsForward` | 874k |
| `succession_live` | `NoAttemptLingers`: an attempt ends, and a successor that was forgotten by a crash goes | 278k |
| `maker_races` | two makers, two cards: `WorkIsClaimed`, `CloseIsEarned` | 1415k |
| `maker_live` | one card, with a death, a signal, a lost answer and relabelling: `ClaimIsSettled` | 246k |
| `parts` | what the parts that decide promise, see below | 1058k |
| `serve_live` | `InboxIsWhole`, `WorkloadsConverge`, `ReleasesSettle`, `MakersWatched`, `NothingPassedOver` | 146k |
| `workers_live` | `RunsAreAccountedFor`, `RequestsAreAnswered`, `FloorSettles` | 109k |
| `succession_rollback` | a violation: a check-in and the deadline together remove both generations | |
| `objects_copy` | a violation: a copy that stops at what the destination has may miss a blob a prune took | |

What `parts` shows, part by part:

| Property | Part | In words |
|---|---|---|
| `ResolveSparesTheStop` | the watcher beside another station, through a restart | cards of the event that stops the line are not closed by the watcher |
| `DeskKeepsWord` | card desk | the line holds what the king let on it; a spent approval goes, unless the close lost its answer or the revocation failed; a question leaves with its answer; a verdict has its reason |
| `LawHolds` | constitution | what lands was shown or is the owner's; stations and keys agree; nothing in force drops out; proposals do not change |
| `ContainersBounded` | workloads, podman | one start for a workload; a cap is exceeded only by lost answers |
| `PlatformIsTrue` | deploy; launchd | only the approved build runs; "applied" and at rest means it runs; a job never starts half a binary, and a rollout that ended leaves all jobs on one release |
| `BudgetHolds` | budgets | an exhausted budget was announced, once, or its post failed, or usage aged out while the report waited; overrun is at most the runs that were cleared and the reports dead makers left |
| `NotesKept` | two generations of the viceroy | the testament's notes are lost only while two write |
| `TriageLosesNothing` | heijunka's needs and claims | a question keeps a label; reaps are bounded; a claim its holder reported is spared |
| `NameLeadsToIt` | services | between calls a name leads to what runs, and the disk says so too unless its last write failed |
| `RecordsAreTrue` | check runs | a statement holds only outcomes of the checks' own, and the failure of one whose engine CLI a signal took; the rows of a run say what its statement says; a check's container goes with its run unless it cannot be removed or serve dies |
| `AnswersAreExact` | streams; the evidence log; planner | ranges, the one-pass search, previews and followers agree with the bytes; evidence is the tail of the output; a feasible plan satisfies what its versions require, and every turn climbs |
| `CampaignIsTrue` | campaigns | claims are of the tree; until a command undoes the counts of another, a step lands once and the budget bounds attempts |
| `FindingsAreKept` | findings | a sighting counts once a run; the gate catches; a decision stays |
| `ObjectsAreKept` | objects | what the guard read of master's commits is there; a repository is whole until a prune deletes; prunes spare what refs reach |

`RunsAreAccountedFor` of `workers_live` also holds the loop detector to the
history of ends: a warning is due to as many failures of the command within the
window as it says, and as many failures bring one.  It is exact when ends are
recorded in order; an end that is recorded late may miss failures that a later
end has pruned, which is why the second half is stated for the window less
`Late`.

`parts` checks algorithms against a reference: `Streams` computes the range, the
search and the preview from the whole stream, `EvidenceLog` the tail from all
that was written, `Planner` judges a finished plan by the requirements alone,
`Evidence` judges evidence by its worth.

Two runs expect a violation: the code does not do what a comment or a design
document says of it.  Each is listed under `findings` with the line it quotes.

`GuardedLine` promises what the guard does give: evidence about *a commit of the
line*, newer than the failing one.  It does not promise that a pull holds back
a merge that had read the stop ref before it: such a merge lands (guard.go:134
reads, guard.go:189 moves master), and a clear has the same shape.
`MakerRunner` makes no promise about the number of runs a card gets: another
maker may claim it between a release and the give-up that follows, which is
then refused, and the attempts are forgotten.  Nor does it promise that work is
never repeated: a stranded claim is released although its run may have landed.
`LineFollowsMaster` is about masters that no recorded run saw pass: the watcher
takes any such run, the one of the merge itself included, for proof of a flake.

### Known divergences without a run

Behaviours the models have, that differ from what a comment leads one to expect
or limit what a property can say.  The properties above are stated so that they
hold beside them.

* A pull by another station after the watcher's verdict on the newer master
  stays until another commit lands: `last` keeps the watcher from looking again
  (watcher.go:98).  `watcher_live` has no other station for this reason.
* While only the confirming attestation fails, a stop has no card
  (watcher.go:124).
* `line viceroy start` beside a running server may overwrite a newer
  generation's record (succession.go:436); `MaxBootstraps` is 0 in
  `succession_races`.
* Two starters of one service may both find none running and both start it
  (service.go:94-107); one of the two is then out of reach of its name.
  `NameLeadsToIt` is checked for one client.
* A failed write of a service's record leaves memory and disk apart:
  `StartService` answers with an error while the service runs and no file names
  it (service.go:134-136), `ServiceStatus` goes on (service.go:228), and a failed
  removal leaves the file of a service that was killed (service.go:251).  The
  comment at service.go:82 calls persistence best effort.  `NameLeadsToIt`
  promises the disk only while the last write of the record worked.
* Plan, next and record each read a campaign's row and rewrite all of it later
  (campaign.go:144 and 171, 209-214, 261 and 306); a plan asks registries in
  between.  One that overlaps a record writes back the old `spent` and
  `completed`, also where only one process records, and a landed step is handed
  out and logged again.  `StepOnce` and `BudgetBounds` hold until that happens,
  `ClaimsAreReal` whatever happens.
* The notice of an exhausted budget whose post fails is logged and never posted
  again (budget.go:202-205).  A report reads its clock before it waits for
  `budgetMu` and is metered over the window of that time: usage that ages out
  meanwhile makes its budget look full already, and nobody announces it.  A maker
  that dies leaves its report in the server and may claim again before that is
  recorded.  `ExhaustionAnnounced` and `OverrunBounded` name these three.
* An engine CLI that dies of a signal of its own has exit code -1
  (evidence.go:57-59), which `classify` knows as no kill (runner.go:141-153):
  the check is signed as failed while its container may run on, although
  "engine failures" are to be "never signed as check failures" (runner.go:139-140).
  `SignedIsEarned` exempts this one way.
* A `bd close` that took effect and lost its answer makes the handler return
  before it revokes the epic's approval (cards.go:91, 419-424, 554-557); the
  epic, reopened, may be offered without a new word.  `SpentApprovalGoes` exempts
  it.
* An alert of the maker watch that was delivered and whose answer was lost is
  posted again by the next check (liveness.go:198-200, 225-227); when the maker
  changes in between, the opposite alert may never follow.  `AlertsAlternate`,
  `DeadLineReported` and `RecoveryReported` exempt it.
* `finalizeStream` drops the error of a blob's commit (executor.go:476-480,
  blob.go:124-137): the row is stored and the caller told, and the output is
  gone.  `ToldIsReadable` exempts it.
* The guard reads the changed blobs of a commit against its first parent, and no
  symlinks (guard.go:165, git.go:222-227), while a copy stops at objects that
  the destination holds (transfer.go:79).  Master may then lack the blob of a
  symlink, or what only a further parent reaches, that a prune took.
  `LineStaysWhole` is about what the guard reads.
* Podman reports a container that was created and never started with exit code
  0, so `SuccessIsReal` is checked on kubernetes.
* A second build of a commit the actuator has settled on is approved and not
  taken up (deploy.go:140 compares the commit).  `ReleasesSettle` asks for the
  commit.
* On launchd the current release is where the link leads (launchd.go:80).  An
  actuator that dies between the swap and the kickstarts finds the new release
  current when it comes back, settles on it without a probe or a report
  (deploy.go:151) and leaves jobs on the old binary.  `EndsOnOneRelease` is about
  rollouts that end.
* `station add` moves the constitution's ref and then writes the constitution file
  (linedir.go:416).  When that write fails it takes the station out of `line.toml`
  again although its key is committed.  `StationIsTrusted` therefore says that a
  station is in `line.toml` exactly when an add is under way, was cut short, or
  its key was committed, and says so for one `station add` at a time: `line.toml`
  is written as it was read, so two that overlap put each other's lines back.
* A `serve` that dies leaves the container of its check running; nothing looks
  for it.  `NoneOutlives` counts these.
* A bundle whose fetch is refused leaves its objects in the cache until a prune.
* Two overlapping answers to one acceptance request may set both labels; each
  has its reason, which is what `VerdictHasReason` asks.

### Bounds, and why they are enough

Two handlers suffice for the guard because a call only interferes with another
through one ref at a time, and every pair of operations occurs; the theorems
remove the bound.  `MaxEvents = 2` in `guard_races` lets an event be lifted and
a second one pulled while a call still holds the first.  The commits are a
failing master, tagged and untagged children of it, and children the guard must
refuse.  `guard_races` sets `MergeSlots = 2`, more than the server allows, so
that merges race merges; `guard_verdicts` sets the one slot the server has,
which `CandidateKept` depends on.  `MaxStray` bounds crashes by the candidate
refs they leave.  The watcher needs a master before and after a merge
(`MaxMaster = 2`); `parts` has it beside one other station, with two pulls and a
restart.  Succession has a second attempt in `succession_races`, so that what is
left of the first (its watcher, its check-in) meets it, two requests for the
slot, and one fault, a crash or an exit; a launch beyond the bounds fails, which
the code may do too.  Two makers and two cards let a list go stale and an agent
name the other maker's card; `MaxAttempts = 2` in `maker_races` makes a run that
counts and is not the last one, and `SettleTries` is 2 instead of 3 so that one
lost answer exhausts a settle step.  Deaths, signals and relabelling are in
`maker_live`, whose one card two makers fight for.

In the suites every instance has the smallest sets in which its parts meet:

* desk: an epic, a card under it and one to be created, two handlers, three words
  of the king, one call that fails or loses its answer; law: two handlers and one
  owner's process, two proposals, one fault;
* workloads: two that contend for a cap of one (podman, one fault), and one of
  each kind of request (kubernetes, two faults); deploy: two commits with one
  build each, and one commit with two builds and the cord;
* budgets: two makers, budgets over a role and over a card, three reports of one
  amount, two windows, and any of the calls and posts may fail; needs and claims:
  one card and one maker, which is what a single decision of the worker is about,
  two claims, one reap, the need of one role and a fault at any call;
* all requests for workloads are of one station, a maker, and `QuotaKept` judges
  the rules that cover it (workloads.go:338-346);
* services: three runs, so that a name has a past, a present and a spared one, and
  a write that fails; streams: six bytes in chunks of up to three, an entry of the
  index every two lines or three bytes, so every stride and cut occurs; planner:
  four packages in a cycle, 288 registries; campaigns: two executors, a goal of
  two steps, a budget of one attempt, three orders, two commands that plan or find
  the budget spent, a moved tree or a crash; findings: two scans of overlapping
  hits and a triage;
* objects: a child of the seed that changes nothing, and a merge of it that adds a
  file and a symlink; one cord event, one tick of age, one crash;
* check runs: two checks of which documents skip one, two attestations, one fault
  (a kill of the container or of its CLI, an engine or disk error, a crash); log:
  a ring of four bytes, writes of none to six, fourteen bytes, so that every write
  wraps, fills or replaces; launchd: three releases, two jobs, a crash; loops: two
  sessions, two commands, three ends with a threshold and a window of two;
* channel: four messages, of the king, another and a bot, over pages of two;
  viceroy: two messages, a change of the world, two faults; makers: two, a limit
  of one tick, four changes and one fault; invocations: one, of each kind, with one
  fault, which may be the commit of its output; kaizen: two
  masters, one fault.

Deadlock is checked except where the system may really stop: `parts`,
`serve_live`, `workers_live` and `objects_copy` end when the bounded requests of
an instance are used up.  Symmetry is only over handlers, requests and makers, in
runs without liveness.

### Fairness

No run assumes that anybody asks for anything: merges, requests, approvals,
words of the king, crashes and faults have no fairness.  What is assumed is that
loops loop, and that calls return.

* `watcher_live`: `Run` steps on every tick (`Ticks`, weak fairness of the loop
  as a whole) and an error does not come back for ever (`Recovers`, strong
  fairness of the calls): the comment on `Step` relies on "the same master is
  looked at again".  Without the second assumption a network that always fails
  refutes everything.
* `Succession!FairSpec`: handlers, goroutines and containers run on, which
  includes that engine calls return, that the wait for the slot has a limit and
  the watcher a deadline.
* `MakerRunner!FairSpec`: a maker's calls return (they have timeouts, and a run
  has `Timeout`), a signalled maker leaves its loop, and its service manager
  starts it again; agents, the cord and the viceroy do as they like.
* `MCServe!Fairness`: weak fairness of the feeder, of the long poll, of the
  controller's pass, of the actuator, of the checks of the maker watch and of
  the viceroy's loop, all of them loops with a ticker; of each maker's
  heartbeat and of the clocks; and of the kubelet's deletion.  Faults are
  bounded, so "after the last fault" is part of every behaviour.
* `MCWorkers!Fairness`: goroutines run and timers fire, SIGKILL kills, handlers
  of a stopping daemon see their context end; the kaizen runner and heijunka are
  loops; silence is noticed, a need ages, kaizen's gap passes.  A worker that
  may die returns by the bound on faults.

## Proofs

TLAPS proves the theorems below for every value of the constants that satisfies
the assumptions named with them: any number of handlers, makers, cards, commits,
events, crashes and restarts.  Each follows from an inductive invariant, since
no property here is inductive by itself; the strengthening says what each actor
knows at the step it is at, which the steps of the others must not take away.

*Merge guard* (`ConstitutionAssumption`, `GuardAssumption`).  `CallsHoldProof`,
`LineIsProven`, `CordHasCause`, `RepliesStayTrue`: `InFlight`,
`OnlyProvenCommits`, `StopHasCause`, `RepliesHold` are invariants; `IInv` is
their conjunction with `TypeOK`.  `InFlight` is what a swap needs (a merge about
to swap holds proof of a child of the base it read; a pull holds an event nobody
else has seen; a clear whose event is still the stop holds a newer commit), and
it survives because master only grows (`ChainStep`), events are never rewritten
(`AppendEvent`) and an event that is not the stop yet stays unknown
(`FreshKeep`).  `VerifySound`, `CheckResultsSound`, `MergeSound`, `PullSound`,
`ClearSound`: passing the ordered tests of the code implies the order-free
`Proves`, `Refutes`, `Repairs`.  `CandidatesAreKept`: `CandidateKept` when
`MergeSlots = 1`, the one check slot of the server; its `KeptInv` adds that one
merge is in flight and that the ref of its commit is in place.
`GuardRefinesLine`: under `IInv` every step of `MergeGuard` is a step of
`GuardedLine` or a stutter; the event ids that are `used` are the ones no pull in
flight holds.

*Succession* (`SuccessionAssumption`).  `LaunchesAreAlone` from `IInv`, the types
of every part and `LaunchIsAlone` itself, through merges, the owner's bootstrap
and crashes (`TypeCorrect` is its other half).  `OneGenerationServes` and
`HandoversGoForward` (`OneInCharge`, `HandoverIsForward`) add `Waits` (a container
waits for one check-in, of its own generation), `Forward` (the pending generation
is one above the record) and `OneServes` (who serves is in charge, and gone when a
check-in is about to record its successor).  They are about behaviours without an
owner's bootstrap beside a running server, `[](bootstraps = 0)`, the divergence
listed above.

*Viceroy loop*.  `NotesAreKept` (`NotesKept`) and `NothingIsPassedOver` (what the
testament marks as handled was in the batch of a run).  `LoopInv` is the types,
`UpTo` of the marker, `OneLoop` (until generations overlap there is one) and
`GenHolds` (what a loop counts as handled was shown, and while it is alone the
text it will write back holds the testament's notes).

*Andon watcher*.  `ResolveSparesTheCord` (`ResolveSparesTheStop`) for any number of
other stations, pulls and restarts: `CordInv` adds to the types that an event to
be resolved is not the one in force.  `VerdictsAreKept` (`VerdictsHold`) without
other stations (`Other = {}`): `VerdictInvariant` adds `FailuresReal` (a counted
failure happened), `VerdictDue` (what a verdict owes at each call) and that it is
settled at rest.

*Maker runner* (`MakerAssumption`).  `MakersHoldTheirWork` (`WorkIsClaimed`) and
`ClosesAreEarned` (`CloseIsEarned`).  `IInv`: for every maker, what it knows of its
card at its step (`Holds`), and that before any crash a container belongs to the
maker that waits for it (`Waited`).

*Card desk*.  `DeskKeepsTheWord` (`DeskKeepsWord`), for any delegations and any
number of handlers that fail anywhere.  `DeskInv` adds to the types
`LedgerHolds` (an approval is the king's, and a spent one is about to be revoked
unless its close lost its answer or the revocation failed),
`LineIsTheKings`, `VerdictHasReason`, and that what is left of each handler's
calls is justified by the king's words and in the order the routes promise
(`Queue`); a call whose answer is lost is such a call with nothing after it.

*Deploy, launchd* (`Commits` and `Labels` naturals and a sequence of jobs).
`PlatformIsKept` (`PlatformIsTrue`), from `DeploysAreTrue` and `JobsAreTrue`.
`DeployInv`: `OnlyApproved` (what the actuator holds, wants or runs was approved),
`InOrder`, `SuccessIsReal` and `AppliedHolds` (once serve has the success of the
desired release the actuator has no other in hand).  `JobsInv`: `LinkWhole`,
`RolloutHolds` (the jobs up to the place of a rollout run what the link names) and
`EndHolds`.

*Workloads* (`LoadsAssumptions`: finitely many, caps that are numbers).
`WorkloadsAreBounded`: `ContainersBounded`, `NothingUnapproved` and, on
kubernetes, `SuccessIsReal`.  `LoadsInv`: for each workload what the store, the
engine and the controller's old listing may say of it at once (`LoadHolds`), and
`QuotaHolds`: the workloads that are live, or run although they were told ended,
exceed a cap by no more than the lost answers.  The count moves by one workload at
a time.

*Services* (one client, as in the run).  `NamesLead` (`NameLeadsToIt`):
`ServicesInv` says which of memory, disk and the caller's copy leads to what runs
`Midway` through each operation, and that the disk does so only while its last
write worked; memory leads there whatever was not written.

*Campaigns* (a budget of at least one, finitely many executors).
`CampaignsAreTrue` (`CampaignIsTrue`): `AllCarry` and `ClaimsHold` (every row, in
the store or carried by a command, claims only what the snapshot has seen), which
hold however commands overlap; and until one undoes the counts of another
`LogHolds`, what records are about to log (`PendingNew`, `PendingApart`), and
`Spending`: once the budget is spent, each order that is still held may spend one
more.

*Findings* (`FindingsAssumption`: reports are sequences of hits).
`FindingsStayTrue` (`FindingsAreKept`): `RowHolds` counts the runs that saw a
finding, `ScanHolds` says of each scan what it met, wrote and judged; scans
overlap with each other and with a triage.

*Triage* (`MaxReaps` a number; the absent maker is no maker).  `TriageIsSafe`
(`TriageLosesNothing`): `CardsHold`, `MoveHolds` (a question on its way keeps a
label), `KnownHolds` and `ListHolds` (a claim the worker knows of and whose holder
is still the one that reported it is not abandoned).

*Check runs* (`ChecksAssumption`: which checks documents skip).  `ChecksAreTrue`
(`RecordsAreTrue`): `ResultsHold` (the results so far are how the checks ended, or
the failure of one whose CLI died), `BoxHolds` and `RowsHold`, with the containers
that were left.

*Constitution*.  `AmendmentsAreKept`: what lands was shown, nothing in force drops
out, proposals stay, for any number of handlers and owners; `LawIsKept`
(`LawHolds`) adds the agreement of stations and keys under `OneAdder`.  `LawInv`:
`History` (every version in force was a proposal shown against the one before it,
or adds a key to it), `WordsHold` and
`DutiesHold` (what a handler and the owner's process hold), `Mutex`, `SwapsHold`,
and `TomlHolds` under `OneAdder`.

*Budgets* (`BudgetsAssumption`: tokens and periods are numbers, finitely many
makers, which have no other role).  `BudgetsAreKept` (`BudgetHolds`).  `BudgetInv`:
`MeteredAlone` (the usage a report was metered over is the usage until it is
recorded: `budgetMu`), `Reported` (whose report each call is, or that its maker
died), `ClearedOnly` (a maker's budget exceeds its limit by less than one report of
each maker that rests and one of each report of a dead maker that has come in: one
that is out was cleared when there was room), and that what is full was announced,
lost its post or was filled by a report over an older window.  The usage is a sum
over a set: `TotalAdds`, `TotalGrows` and `TotalType` say that a report adds its
tokens, that a smaller window counts no more, and that the sum is a number.

*Objects* (`ObjectsAssumption`: references make no circle, events have none,
commits have some).  `ObjectsAreSafe` (`ObjectsAreKept`), for any
graph of objects, any of them symlinks, and any number of submissions, prunes and
crashes.  `ObjectInv`: `LineStaysWhole` over `Firm`, `WholeParts` (until a prune
deletes, whatever is held has its references there) and `DoomedApart` (what a prune
is about to delete is past the grace and out of the refs' reach, and the event of a
pull in flight is not past it), which is why a ref set after the walk loses
nothing.  A merge adds to `Firm` of master only what the guard has just read, or
what the old master's `Firm` held.  `ClosureIsLeast` and `ClosureIsClosed` say what
the recursive `Closure` computes.

What a recursive function computes is shown here without induction over data: a
fact about all subsets of a finite set, or all objects, is shown on a smallest
one that would contradict it (`Smallest`, from the well-foundedness of the strict
subset relation; for objects, from the assumption itself).  `TotalIsSum` and
`ClosureIs` also show that the functions exist.

The theorems and the runs are about the same formulas.  `Parts` assumes what the
theorems about budgets and objects take of their constants, and every run of it
evaluates that.  Where a run's property
is put together in `AndonPart`, `ServeParts` or `Parts`, the proof module extends
that module and states the property by the name the run uses.

Only model-checked:

* liveness, which rests on fairness and `ENABLED`;
* `AnswersAreExact`, what `Streams`, `EvidenceLog` and `Planner` compute from
  whole sequences of bytes and of versions: induction over data;
* the safety halves of `Channel`, `Invocations`, `Kaizen`, `MakerWatch` and the
  loop detector, and `SettledIsProbed` of `Deploy`: not attempted yet.

## What is not modelled

* Signatures, JSON, the encoding of git objects and the text of replies, cards,
  notices and prompts.  Packs, file modes and the push to a mirror.
* Running checks on a remote host (`line/runner`, which no command reaches); the
  image, the limits and the caches of a check's container.
* The container engine beyond what each module says of it: that a container of
  a name runs (`MakerRunner`, `Succession`), the objects labelled with a
  workload (`Workloads`), the release that runs (`Deploy`).
* Token authentication and parsing of routes; flags and the commands of the
  command line that only call a route.
* The line database beyond the passing runs and the usage: tables, uploads and
  statistics are queries.  `ci`, reports, gemba's material, guidance, secrets,
  quadlet, mirror, logs and test hygiene are text and pure I/O.
* agentsh: garbage collection of old output, the history query, formatting and
  analysis, the listening socket of the daemon, and `rg` in the place of the one-pass
  search.
* depmaint's expanders and clients of registries, bughunt's detectors: parsers,
  whose results are inputs of `Planner` and `Findings`.
* In `Succession`, the supervisor's posts to the channel, which do not change its
  state.

## Plan

Done: the modules above.  What is left, in this order:

1. Proofs of the safety halves that are only model-checked: `Channel` (every
   message once and in order), `Deploy` (`SettledIsProbed`), `Invocations`
   (`ToldIsReadable`, `RowIsTrue`), `MakerWatch` (`AlertsAlternate`), `Kaizen`
   (`AskedOnce`).
2. `Objects` under `MergeGuard`: the reads of the guard as reads of objects.
3. An abstract life cycle of a card that `MakerRunner` and `CardsDesk` both
   implement.
4. agentsh's garbage collection beside readers of old output.
