----------------------------- MODULE Succession -----------------------------
(***************************************************************************)
(* Viceroy succession (line/station/succession.go): the supervisor inside  *)
(* `line serve` starts generation N+1 beside generation N, waits in the    *)
(* background for it to check in, then retires N; on a timeout or an exit  *)
(* it rolls back.  viceroy/current in the line directory is the record;    *)
(* the pending succession is only in the memory of the server.             *)
(*                                                                         *)
(* Actors: handlers of succeed and of checkin, one watcher goroutine per   *)
(* attempt, the containers, server crashes and restarts, merges and the    *)
(* andon cord, and the owner's `line viceroy start`, a process of its own. *)
(* Commits of the line are numbered; 0 is a commit that is not on it.      *)
(***************************************************************************)
EXTENDS Naturals, FiniteSets

CONSTANTS
    Request,        \* handlers of POST /v1/viceroy/succeed
    Caller,         \* handlers of POST /v1/viceroy/checkin
    MaxGen,         \* bound: generations
    MaxMaster,      \* bound: commits that land
    MaxAttempts,    \* bound: successions that get as far as pending
    MaxFaults,      \* bound: crashes of the server, and containers that exit
    MaxBootstraps   \* bound: runs of `line viceroy start`

ASSUME SuccessionAssumption ==
    /\ MaxGen \in Nat \ {0} /\ MaxMaster \in Nat \ {0} /\ MaxAttempts \in Nat
    /\ MaxFaults \in Nat /\ MaxBootstraps \in Nat
    /\ Request \cap {"free", "merge"} = {}

VARIABLES
    master, stopped,  \* the guarded branch, and whether the cord is pulled
    current,          \* viceroy/current
    history,          \* generations in viceroy/generations.jsonl
    box,              \* what the container of each generation is doing
    serve,            \* the server: up, or about to resume after a start
    slot,             \* the check slot: free, a merge's, or a request's
    starting,         \* the supervisor is launching a generation
    pending,          \* the attempt that has to check in, 0 when there is none
    attempt,          \* every attempt's generation, and its watcher goroutine
    req,              \* state of each succeed handler
    call,             \* state of each checkin handler
    owner,            \* state of the owner's process
    faults, bootstraps

line == <<master, stopped>>
record == <<current, history>>
supervisor == <<starting, pending, attempt>>
bounds == <<faults, bootstraps>>
vars == <<line, record, box, serve, slot, supervisor, req, call, owner, bounds>>

Gen == 1..MaxGen
Commit == 1..MaxMaster
Attempt == 1..MaxAttempts

NoGeneration == [gen |-> 0, commit |-> 0]
NoAttempt == [gen |-> 0, commit |-> 0, watch |-> "none"]
IdleReq == [at |-> "idle", header |-> 0, commit |-> 0, gen |-> 0]
IdleCall == [at |-> "idle", gen |-> 0, attempt |-> 0, waits |-> FALSE]
IdleOwner == [at |-> "idle", commit |-> 0, gen |-> 0]

(* The line has no viceroy yet, or the first generation serves.            *)
Init ==
    /\ master = 1 /\ stopped = FALSE
    /\ current \in {NoGeneration, [gen |-> 1, commit |-> 1]}
    /\ history = {current.gen} \ {0}
    /\ box = [g \in Gen |-> IF g = current.gen THEN "serving" ELSE "none"]
    /\ serve = "up"
    /\ slot = "free"
    /\ starting = FALSE /\ pending = 0
    /\ attempt = [a \in Attempt |-> NoAttempt]
    /\ req = [r \in Request |-> IdleReq]
    /\ call = [c \in Caller |-> IdleCall]
    /\ owner = IdleOwner
    /\ faults = 0 /\ bootstraps = 0

Running(g) == box[g] # "none"

(* Generation 1 has no predecessor and does not check in.                  *)
Launched(g) == IF g = 1 THEN "serving" ELSE "startup"

(* Container g becomes state; whoever waited in the old one is gone.       *)
SetBox(g, state) ==
    /\ box' = [box EXCEPT ![g] = state]
    /\ call' = [c \in Caller |-> IF call[c].gen = g THEN [call[c] EXCEPT !.waits = FALSE]
                                                    ELSE call[c]]

-----------------------------------------------------------------------------
(* POST /v1/viceroy/succeed.                                               *)

At(r, step) == req' = [req EXCEPT ![r].at = step]

(* The handler replies; a held slot and the starting flag are given up.    *)
Reply(r) ==
    /\ req' = [req EXCEPT ![r] = IdleReq]
    /\ slot' = IF slot = r THEN "free" ELSE slot
    /\ starting' = IF req[r].at \in {"current", "superseded", "check", "check_stop",
                                     "attest", "start", "pending"}
                     THEN FALSE ELSE starting

(* Admit reads the record before it takes the lock.                        *)
Admit(r, header, commit) ==
    /\ serve = "up" /\ req[r].at = "idle"
    /\ req' = [req EXCEPT ![r] = [at |-> "admit", header |-> header,
                                  commit |-> commit, gen |-> current.gen]]
    /\ UNCHANGED <<line, record, box, serve, slot, supervisor, call, owner, bounds>>

Admitted(r) ==
    \/ req[r].header = 0
    \/ req[r].gen = 0 /\ pending = 0
    \/ req[r].gen # 0 /\ req[r].header = req[r].gen

AdmitLocked(r) ==
    /\ req[r].at = "admit"
    /\ \/ /\ Admitted(r)
          /\ req' = [req EXCEPT ![r] = [IdleReq EXCEPT !.at = "queue", !.commit = req[r].commit]]
          /\ UNCHANGED <<slot, starting>>
       \/ /\ ~Admitted(r)
          /\ Reply(r)
    /\ UNCHANGED <<line, record, box, serve, pending, attempt, call, owner, bounds>>

(* Mutant: a waiter that got to poll takes the slot, held or not.          *)
acquireAnyway(r) ==
    /\ req[r].at \in {"queue", "poll"}
    /\ slot' = r
    /\ At(r, "begin")
    /\ UNCHANGED <<line, record, box, serve, supervisor, call, owner, bounds>>

(* acquireQueued: one waiter at a time polls for the slot, within a limit. *)
acquireQueued(r) ==
    /\ \/ /\ req[r].at = "queue"
          /\ \A q \in Request : req[q].at # "poll"
          /\ At(r, "poll")
          /\ UNCHANGED <<slot, starting>>
       \/ /\ req[r].at = "poll" /\ slot = "free"
          /\ slot' = r
          /\ At(r, "begin")
          /\ UNCHANGED starting
    /\ UNCHANGED <<line, record, box, serve, pending, attempt, call, owner, bounds>>

QueueLimit(r) ==
    /\ req[r].at \in {"queue", "poll"}
    /\ Reply(r)
    /\ UNCHANGED <<line, record, box, serve, pending, attempt, call, owner, bounds>>

begin(r) ==
    /\ req[r].at = "begin"
    /\ \/ /\ starting \/ pending # 0
          /\ Reply(r)
       \/ /\ ~starting /\ pending = 0
          /\ starting' = TRUE
          /\ At(r, "current")
          /\ UNCHANGED slot
    /\ UNCHANGED <<line, record, box, serve, pending, attempt, call, owner, bounds>>

SucceedCurrent(r) ==
    /\ req[r].at = "current"
    /\ \/ /\ current.gen = 0 \/ req[r].commit = current.commit
          /\ Reply(r)
       \/ /\ current.gen # 0 /\ req[r].commit # current.commit
          /\ req' = [req EXCEPT ![r].at = "superseded", ![r].gen = current.gen + 1]
          /\ UNCHANGED <<slot, starting>>
    /\ UNCHANGED <<line, record, box, serve, pending, attempt, call, owner, bounds>>

(* An ancestor of master stands for master.                                *)
currentMasterIfSuperseded(r) ==
    /\ req[r].at = "superseded"
    /\ req' = [req EXCEPT ![r].at = "check",
                          ![r].commit = IF @ \in 1..master THEN master ELSE @]
    /\ UNCHANGED <<line, record, box, serve, slot, supervisor, call, owner, bounds>>

(* checkMaster reads master, then the stop ref.                            *)
checkMaster(r) ==
    /\ \/ /\ req[r].at = "check" /\ req[r].commit = master
          /\ At(r, "check_stop")
          /\ UNCHANGED <<slot, starting>>
       \/ /\ req[r].at = "check_stop" /\ ~stopped
          /\ At(r, "attest")
          /\ UNCHANGED <<slot, starting>>
       \/ /\ \/ req[r].at = "check" /\ req[r].commit # master
             \/ req[r].at = "check_stop" /\ stopped
          /\ Reply(r)
    /\ UNCHANGED <<line, record, box, serve, pending, attempt, call, owner, bounds>>

(* launch: attest and build, or give up (as it does at the bounds); then   *)
(* replace whatever has the generation's container name.                   *)
launchAttest(r) ==
    /\ req[r].at = "attest"
    /\ \/ /\ req[r].gen \in Gen /\ \E a \in Attempt : attempt[a] = NoAttempt
          /\ At(r, "start")
          /\ UNCHANGED <<slot, starting>>
       \/ Reply(r)
    /\ UNCHANGED <<line, record, box, serve, pending, attempt, call, owner, bounds>>

launchStart(r) ==
    /\ req[r].at = "start"
    /\ SetBox(req[r].gen, Launched(req[r].gen))
    /\ At(r, "pending")
    /\ UNCHANGED <<line, record, serve, slot, supervisor, owner, bounds>>

(* The engine fails: the container may be gone, or be there all the same.  *)
launchError(r) ==
    /\ req[r].at = "start"
    /\ \E state \in {"none", Launched(req[r].gen)} : SetBox(req[r].gen, state)
    /\ Reply(r)
    /\ UNCHANGED <<line, record, serve, pending, attempt, owner, bounds>>

(* The container runs; only now is the succession pending and watched.     *)
SucceedPending(r) ==
    \E a \in Attempt :
        /\ req[r].at = "pending"
        /\ attempt[a] = NoAttempt
        /\ \A b \in 1..(a - 1) : attempt[b] # NoAttempt
        /\ attempt' = [attempt EXCEPT ![a] = [gen |-> req[r].gen, commit |-> req[r].commit,
                                              watch |-> "waiting"]]
        /\ pending' = a
        /\ Reply(r)
        /\ UNCHANGED <<line, record, box, serve, call, owner, bounds>>

-----------------------------------------------------------------------------
(* The watcher of attempt a.                                               *)

Watch(a, state) == attempt' = [attempt EXCEPT ![a].watch = state]

(* Mutant: an attempt whose container is gone is left alone.               *)
rollbackRunning(a) ==
    \/ /\ pending # a \/ ~Running(attempt[a].gen)
       /\ Watch(a, "gone")
       /\ UNCHANGED pending
    \/ /\ pending = a /\ Running(attempt[a].gen)
       /\ pending' = 0
       /\ Watch(a, "removing")

(* rollback first takes the attempt off the table, if it is still there.   *)
rollback(a) ==
    \/ /\ pending # a
       /\ Watch(a, "gone")
       /\ UNCHANGED pending
    \/ /\ pending = a
       /\ pending' = 0
       /\ Watch(a, "removing")

(* The deadline passed, or the container was seen not running.  After a    *)
(* check-in p.done is closed, and rollback would find nothing either.      *)
watch(a) ==
    /\ attempt[a].watch = "waiting"
    /\ rollback(a)
    /\ UNCHANGED <<line, record, box, serve, slot, starting, req, call, owner, bounds>>

(* ... and then removes the container of that name, if the engine can.     *)
rollbackRemove(a) ==
    /\ attempt[a].watch = "removing"
    /\ Watch(a, "gone")
    /\ \/ SetBox(attempt[a].gen, "none")
       \/ UNCHANGED <<box, call>>
    /\ UNCHANGED <<line, record, serve, slot, starting, pending, req, owner, bounds>>

-----------------------------------------------------------------------------
(* POST /v1/viceroy/checkin, by the container of generation g once its     *)
(* startup run worked.                                                     *)
Checkin(c, g) ==
    /\ serve = "up" /\ call[c].at = "idle" /\ box[g] = "startup"
    /\ box' = [box EXCEPT ![g] = "checkin"]
    /\ call' = [call EXCEPT ![c] = [at |-> "pending", gen |-> g, attempt |-> 0, waits |-> TRUE]]
    /\ UNCHANGED <<line, record, serve, slot, supervisor, req, owner, bounds>>

(* The handler of c is done; a container that waits learns the outcome.    *)
(* The viceroy ends on an error, and serves otherwise.                     *)
Told(c, ok, boxes) ==
    IF call[c].waits THEN [boxes EXCEPT ![call[c].gen] = IF ok THEN "serving" ELSE "none"]
                     ELSE boxes

Answer(c, ok) ==
    /\ call' = [call EXCEPT ![c] = IdleCall]
    /\ box' = Told(c, ok, box)

CheckinPending(c) ==
    /\ call[c].at = "pending"
    /\ \/ /\ pending = 0
          /\ call' = [call EXCEPT ![c].at = "current"]
          /\ UNCHANGED box
       \/ /\ pending # 0 /\ attempt[pending].gen # call[c].gen
          /\ Answer(c, FALSE)
       \/ /\ pending # 0 /\ attempt[pending].gen = call[c].gen
          /\ call' = [call EXCEPT ![c].at = "remove", ![c].attempt = pending]
          /\ UNCHANGED box
    /\ UNCHANGED <<line, record, serve, slot, supervisor, req, owner, bounds>>

(* Mutant: with nothing pending any generation is told that it is in charge. *)
CheckinAnyone(c) ==
    /\ call[c].at = "current"
    /\ Answer(c, TRUE)
    /\ UNCHANGED <<line, record, serve, slot, supervisor, req, owner, bounds>>

(* With nothing pending the current generation may check in again.         *)
CheckinCurrent(c) ==
    /\ call[c].at = "current"
    /\ Answer(c, current.gen = call[c].gen)
    /\ UNCHANGED <<line, record, serve, slot, supervisor, req, owner, bounds>>

(* Mutant: the predecessor is left to finish.                              *)
CheckinKeepOld(c) ==
    /\ call[c].at = "remove"
    /\ call' = [call EXCEPT ![c].at = "lock"]
    /\ UNCHANGED <<box, line, record, serve, slot, supervisor, req, owner, bounds>>

(* The old container goes first; an error may come after it went.          *)
CheckinRemove(c) ==
    LET old == call[c].gen - 1
        boxes == [box EXCEPT ![old] = "none"]
        calls == [d \in Caller |-> IF call[d].gen = old THEN [call[d] EXCEPT !.waits = FALSE]
                                                        ELSE call[d]]
    IN /\ call[c].at = "remove"
       /\ \/ /\ box' = boxes
             /\ call' = [calls EXCEPT ![c].at = "lock"]
          \/ /\ box' = Told(c, FALSE, boxes)
             /\ call' = [calls EXCEPT ![c] = IdleCall]
          \/ Answer(c, FALSE)
       /\ UNCHANGED <<line, record, serve, slot, supervisor, req, owner, bounds>>

(* record appends to the history, then renames the new current into place. *)
Record(g, commit) ==
    /\ current' = [gen |-> g, commit |-> commit]
    /\ history' = history \cup {g}

RecordError(g) == history' \in {history, history \cup {g}} /\ UNCHANGED current

(* Mutant: the pending attempt is not looked at again.                     *)
CheckinUnchecked(c) ==
    /\ call[c].at = "lock"
    /\ Record(attempt[call[c].attempt].gen, attempt[call[c].attempt].commit)
    /\ pending' = 0
    /\ Answer(c, TRUE)
    /\ UNCHANGED <<line, serve, slot, starting, attempt, req, owner, bounds>>

(* Under the lock: still the same pending attempt, or it was rolled back.  *)
CheckinRecord(c) ==
    LET a == call[c].attempt
    IN /\ call[c].at = "lock"
       /\ \/ /\ pending # a
             /\ Answer(c, FALSE)
             /\ UNCHANGED <<record, pending>>
          \/ /\ pending = a
             /\ Record(attempt[a].gen, attempt[a].commit)
             /\ pending' = 0
             /\ Answer(c, TRUE)
          \/ /\ pending = a
             /\ RecordError(attempt[a].gen)
             /\ Answer(c, FALSE)
             /\ UNCHANGED pending
       /\ UNCHANGED <<line, serve, slot, starting, attempt, req, owner, bounds>>

-----------------------------------------------------------------------------
(* `line viceroy start`, in a process of its own: generation 1, when there *)
(* is none or its container is not running.                                *)
Bootstrap(commit) ==
    /\ owner.at = "idle" /\ bootstraps < MaxBootstraps
    /\ bootstraps' = bootstraps + 1
    /\ owner' = [at |-> IF current.gen = 0 THEN "check" ELSE "running",
                 commit |-> commit, gen |-> current.gen]
    /\ UNCHANGED <<line, record, box, serve, slot, supervisor, req, call, faults>>

BootstrapRunning ==
    /\ owner.at = "running"
    /\ owner' = IF Running(owner.gen) \/ owner.gen # 1 THEN IdleOwner
                                                      ELSE [owner EXCEPT !.at = "check", !.gen = 0]
    /\ UNCHANGED <<line, record, box, serve, slot, supervisor, req, call, bounds>>

(* checkMaster, as for a succession.                                       *)
BootstrapCheck ==
    /\ owner' = CASE owner.at = "check" /\ owner.commit = master ->
                        [owner EXCEPT !.at = "check_stop"]
                  [] owner.at = "check_stop" /\ ~stopped -> [owner EXCEPT !.at = "launch"]
                  [] OTHER -> IdleOwner
    /\ owner.at \in {"check", "check_stop"}
    /\ UNCHANGED <<line, record, box, serve, slot, supervisor, req, call, bounds>>

(* launch and record; a failed record removes the container again.         *)
BootstrapLaunch ==
    /\ owner.at = "launch"
    /\ \/ /\ SetBox(1, "serving")
          /\ owner' = [owner EXCEPT !.at = "record"]
       \/ /\ \E state \in {box[1], "none", "serving"} : SetBox(1, state)
          /\ owner' = IdleOwner
    /\ UNCHANGED <<line, record, serve, slot, supervisor, req, bounds>>

BootstrapRecord ==
    /\ owner.at = "record"
    /\ owner' = IdleOwner
    /\ \/ Record(1, owner.commit) /\ UNCHANGED <<box, call>>
       \/ /\ RecordError(1)
          /\ \E state \in {box[1], "none"} : SetBox(1, state)
    /\ UNCHANGED <<line, serve, slot, supervisor, req, bounds>>

-----------------------------------------------------------------------------
(* The server dies and is started again; containers and files survive.     *)
Crash ==
    /\ faults < MaxFaults
    /\ faults' = faults + 1
    /\ serve' = "resume"
    /\ slot' = "free" /\ starting' = FALSE /\ pending' = 0
    /\ attempt' = [a \in Attempt |-> IF attempt[a] = NoAttempt THEN NoAttempt
                                     ELSE [attempt[a] EXCEPT !.watch = "gone"]]
    /\ req' = [r \in Request |-> IdleReq]
    /\ call' = [c \in Caller |-> IdleCall]
    /\ UNCHANGED <<line, record, box, owner, bootstraps>>

(* Before it listens it starts the current generation, unless that runs;   *)
(* an engine error is only logged.                                         *)
Resume ==
    /\ serve = "resume"
    /\ serve' = "up"
    /\ IF current.gen = 0 \/ Running(current.gen) THEN UNCHANGED box
       ELSE box' \in {box, [box EXCEPT ![current.gen] = Launched(current.gen)]}
    /\ UNCHANGED <<line, record, slot, supervisor, req, call, owner, bounds>>

-----------------------------------------------------------------------------
(* The viceroy in container g fails its startup run, or its check-in call  *)
(* lost its server: it ends.                                               *)
ViceroyFails(g) ==
    /\ \/ box[g] = "startup"
       \/ box[g] = "checkin" /\ \A c \in Caller : ~(call[c].gen = g /\ call[c].waits)
    /\ box' = [box EXCEPT ![g] = "none"]
    /\ UNCHANGED <<line, record, serve, slot, supervisor, req, call, owner, bounds>>

Exit(g) ==
    /\ Running(g) /\ faults < MaxFaults
    /\ faults' = faults + 1
    /\ SetBox(g, "none")
    /\ UNCHANGED <<line, record, serve, slot, supervisor, req, owner, bootstraps>>

(* Merges move master and use the slot; the andon cord comes and goes.     *)
Land ==
    /\ master < MaxMaster
    /\ master' = master + 1
    /\ UNCHANGED <<stopped, record, box, serve, slot, supervisor, req, call, owner, bounds>>

Andon ==
    /\ stopped' = ~stopped
    /\ UNCHANGED <<master, record, box, serve, slot, supervisor, req, call, owner, bounds>>

OtherChecks ==
    /\ \/ serve = "up" /\ slot = "free" /\ slot' = "merge"
       \/ slot = "merge" /\ slot' = "free"
    /\ UNCHANGED <<line, record, box, serve, supervisor, req, call, owner, bounds>>

-----------------------------------------------------------------------------
Succeed(r) ==
    \/ AdmitLocked(r) \/ acquireQueued(r) \/ QueueLimit(r) \/ begin(r)
    \/ SucceedCurrent(r) \/ currentMasterIfSuperseded(r) \/ checkMaster(r)
    \/ launchAttest(r) \/ launchStart(r) \/ launchError(r) \/ SucceedPending(r)

Watcher(a) == watch(a) \/ rollbackRemove(a)

CheckinStep(c) == CheckinPending(c) \/ CheckinCurrent(c) \/ CheckinRemove(c) \/ CheckinRecord(c)

Owner ==
    \/ \E commit \in 0..master : Bootstrap(commit)
    \/ BootstrapRunning \/ BootstrapCheck \/ BootstrapLaunch \/ BootstrapRecord

Viceroy(g) == ViceroyFails(g) \/ \E c \in Caller : Checkin(c, g)

Next ==
    \/ \E r \in Request : \/ \E h \in 0..MaxGen, commit \in 0..master : Admit(r, h, commit)
                          \/ Succeed(r)
    \/ \E a \in Attempt : Watcher(a)
    \/ \E c \in Caller : CheckinStep(c)
    \/ \E g \in Gen : Viceroy(g) \/ Exit(g)
    \/ Owner \/ Crash \/ Resume \/ Land \/ Andon \/ OtherChecks

Spec == Init /\ [][Next]_vars
-----------------------------------------------------------------------------
(* Handlers, goroutines and containers run on; engine calls and checks     *)
(* return, the check slot has its limit and the watcher its deadline.      *)
FairSpec ==
    /\ Spec
    /\ WF_vars(Resume)
    /\ \A r \in Request : WF_vars(Succeed(r))
    /\ \A a \in Attempt : WF_vars(Watcher(a))
    /\ \A c \in Caller : WF_vars(CheckinStep(c))
    /\ \A g \in Gen : WF_vars(Viceroy(g))
-----------------------------------------------------------------------------
(* The supervisor's state is of its kind; what is pending is watched by a  *)
(* goroutine that can still roll it back, and the generation in charge is  *)
(* in the history.                                                         *)
TypeOK ==
    /\ master \in Commit /\ stopped \in BOOLEAN
    /\ current \in [gen: 0..MaxGen, commit: 0..MaxMaster]
    /\ history \subseteq Gen
    /\ current.gen # 0 => current.gen \in history
    /\ box \in [Gen -> {"none", "startup", "checkin", "serving"}]
    /\ serve \in {"up", "resume"}
    /\ slot \in {"free", "merge"} \cup Request
    /\ starting \in BOOLEAN
    /\ pending \in 0..MaxAttempts
    /\ attempt \in [Attempt -> [gen: 0..MaxGen, commit: 0..MaxMaster,
                                watch: {"none", "waiting", "removing", "gone"}]]
    /\ pending # 0 => attempt[pending].watch = "waiting"
    /\ req \in [Request -> [at: {"idle", "admit", "queue", "poll", "begin", "current",
                                 "superseded", "check", "check_stop", "attest", "start",
                                 "pending"},
                            header: 0..MaxGen, commit: 0..MaxMaster, gen: 0..(MaxGen + 1)]]
    /\ call \in [Caller -> [at: {"idle", "pending", "current", "remove", "lock"},
                            gen: 0..MaxGen, attempt: 0..MaxAttempts, waits: BOOLEAN]]
    /\ owner \in [at: {"idle", "running", "check", "check_stop", "launch", "record"},
                   commit: 0..MaxMaster, gen: 0..MaxGen]

(* "The caller holds the starting flag and the line's check slot"          *)
(* (succession.go, launch): requests that queue, give up at the limit and  *)
(* compete with merges for the slot never attest or launch side by side,   *)
(* and none launches while a succession is pending.                        *)
LaunchIsAlone ==
    \A r \in Request :
        /\ req[r].at \notin {"idle", "admit", "queue", "poll"} <=> slot = r
        /\ slot = r /\ req[r].at # "begin" => starting /\ pending = 0

(* "Only one is active" (m2-succession.md:185): however check-ins, roll-   *)
(* backs, crashes and resumes interleave, two generations never serve at   *)
(* once; Checkin retires the predecessor before the record moves.          *)
OneInCharge == \A g, h \in Gen : box[g] = "serving" /\ box[h] = "serving" => g = h

(* The record only moves forward, to the generation that is pending at     *)
(* that moment: an attempt that was rolled back never takes charge, though *)
(* its check-in may have been under way.                                   *)
HandoverIsForward ==
    [][current' # current /\ current.gen # 0 =>
          /\ pending # 0
          /\ current' = [gen |-> attempt[pending].gen, commit |-> attempt[pending].commit]
          /\ current'.gen = current.gen + 1]_vars

(* A pending succession ends, by a check-in or a rollback: it cannot block *)
(* every later one (begin refuses while one is pending).                   *)
SuccessionSettles == \A a \in Attempt : pending = a ~> pending # a

(* A successor that is neither pending nor in charge goes away unless it   *)
(* is launched again, also when the server that launched it crashed and    *)
(* forgot it: its check-in is refused.  (One that took charge and lost it  *)
(* to the owner's start is another matter.)                                *)
OrphanGoes ==
    \A g \in Gen \ {1} :
        LET Orphan == /\ Running(g) /\ g # current.gen
                      /\ pending # 0 => attempt[pending].gen # g
                      /\ ~(box[g] = "serving" /\ g \in history)
                      /\ \A r \in Request : req[r].at # "start"
        IN Orphan ~> ~Orphan

(* No attempt lingers: neither the one that is pending nor what an old one *)
(* launched.                                                               *)
NoAttemptLingers == SuccessionSettles /\ OrphanGoes

(* "on timeout or exit, kill gen N+1, keep gen N" (m2-succession.md:182),  *)
(* "Generation %d stays in charge" (succession.go:542): when no succession *)
(* is under way the current generation's container runs, unless it exited  *)
(* by itself or the server crashed.                                        *)
StaysInCharge ==
    LET Settled == /\ pending = 0
                   /\ \A a \in Attempt : attempt[a].watch \in {"none", "gone"}
                   /\ \A c \in Caller : call[c].at = "idle"
    IN Settled /\ current.gen # 0 => Running(current.gen)
=============================================================================
