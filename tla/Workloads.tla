------------------------------ MODULE Workloads ------------------------------
(* Workload requests: the store and routes of `line serve`                    *)
(* (line/station/workloads.go, workload_store.go), the policy that bounds     *)
(* them (line/constitution/workloads.go) and the controller that converges    *)
(* the container engine on them (line/controller).                            *)
(*                                                                            *)
(* Clocks are abstracted to what the code compares: due says the lifetime of  *)
(* a workload has passed, old that the grace period of an engine object has.  *)
(* Every update of the store is one step (it holds the store's mutex); a pass *)
(* of the controller is not: serve, the engine and a crash interleave with it.*)
EXTENDS Naturals, Sequences, FiniteSets

CONSTANTS
    Loads,      \* the workload ids, 1..N: ids are sequential
    Rules,      \* the constitution's workload rules, in order
    Requests,   \* the specifications stations ask for
    Engine,     \* "podman" or "kubernetes"
    MaxFaults   \* bound: failed engine calls, lost reports and crashes

VARIABLES
    wl,         \* serve: the recorded workloads
    obj,        \* the engine: the object labelled with each workload
    pass,       \* the controller: the reconcile pass in progress
    faults,     \* faults so far
    hist        \* history: starts, runs to success, lost replies, the king's approvals

wlVars == <<wl, obj, pass, faults, hist>>

Absent == [state |-> "none", stopped |-> FALSE, due |-> FALSE, spec |-> "none"]
NoObj == [st |-> "none", old |-> FALSE, dying |-> FALSE]
Unplanned == [w \in Loads |-> "nothing"]
Idle == [at |-> "idle", wanted |-> [w \in Loads |-> Absent], plan |-> Unplanned, cur |-> 0, rep |-> "none"]

------------------------------------------------------------------------------
(* The policy. *)

\* Roles and kinds of two rules never overlap, and every rule bounds the lifetime.
ValidRules ==
    \A i \in DOMAIN Rules :
        /\ Rules[i].roles # {} /\ Rules[i].kinds # {}
        /\ Rules[i].approval \in {"auto", "king"}
        /\ Rules[i].ttl > 0 /\ Rules[i].max >= 0 /\ Rules[i].pids >= 0
        /\ \A j \in 1..(i - 1) : Rules[i].roles \cap Rules[j].roles = {} \/ Rules[i].kinds \cap Rules[j].kinds = {}

Covering(role, kind) == {i \in DOMAIN Rules : role \in Rules[i].roles /\ kind \in Rules[i].kinds}
RuleFor(role, kind) == Rules[CHOOSE i \in Covering(role, kind) : \A j \in Covering(role, kind) : i <= j]

\* An absent bound of the rule allows all; an absent request takes the bound.
boundResource(bound, asked) == bound = 0 \/ asked <= bound

resolveWorkload(rule, sp) ==
    /\ sp.expose => rule.expose
    /\ sp.ttl <= rule.ttl
    /\ boundResource(rule.pids, sp.pids)

Refused(role, sp) ==
    \/ Covering(role, sp.kind) = {}
    \/ ~sp.image
    \/ ~resolveWorkload(RuleFor(role, sp.kind), sp)

------------------------------------------------------------------------------
(* The store. *)

Live(w) == w.state \in {"pending", "approved", "creating", "running"} /\ ~w.stopped
ControllerVisible(w) == w.state \in {"approved", "creating", "running", "exited", "failed", "expired"}

\* Every read and update first moves the workloads whose lifetime has passed.
expire(f) ==
    [w \in Loads |->
        IF f[w].due /\ f[w].state \in {"approved", "creating", "running"}
        THEN [f[w] EXCEPT !.state = "expired"]  ELSE f[w]]

LiveUnder(f, rule) == {w \in Loads : Live(f[w]) /\ f[w].spec.kind \in rule.kinds}

\* Mutant: the king is not asked.
RequestAsksNobody(sp) ==
    \E w \in Loads :
        /\ wl[w] = Absent /\ \A v \in 1..(w - 1) : wl[v] # Absent
        /\ LET f == expire(wl)
               rule == RuleFor("maker", sp.kind)
               state == IF \/ Refused("maker", sp)
                           \/ rule.max > 0 /\ Cardinality(LiveUnder(f, rule)) >= rule.max
                        THEN "denied" ELSE "approved"
           IN wl' = [f EXCEPT ![w] = [Absent EXCEPT !.state = state, !.spec = sp]]
        /\ UNCHANGED <<obj, pass, faults, hist>>

\* Mutant: one workload more than the cap.
RequestOverCap(sp) ==
    \E w \in Loads :
        /\ wl[w] = Absent /\ \A v \in 1..(w - 1) : wl[v] # Absent
        /\ LET f == expire(wl)
               rule == RuleFor("maker", sp.kind)
               state == IF \/ Refused("maker", sp)
                           \/ rule.max > 0 /\ Cardinality(LiveUnder(f, rule)) > rule.max
                        THEN "denied"
                        ELSE IF rule.approval = "auto" THEN "approved" ELSE "pending"
           IN wl' = [f EXCEPT ![w] = [Absent EXCEPT !.state = state, !.spec = sp]]
        /\ UNCHANGED <<obj, pass, faults, hist>>

RequestWorkload(sp) ==
    \E w \in Loads :
        /\ wl[w] = Absent /\ \A v \in 1..(w - 1) : wl[v] # Absent
        /\ LET f == expire(wl)
               rule == RuleFor("maker", sp.kind)
               state == IF \/ Refused("maker", sp)
                           \/ rule.max > 0 /\ Cardinality(LiveUnder(f, rule)) >= rule.max
                        THEN "denied"
                        ELSE IF rule.approval = "auto" THEN "approved" ELSE "pending"
           IN wl' = [f EXCEPT ![w] = [Absent EXCEPT !.state = state, !.spec = sp]]
        /\ UNCHANGED <<obj, pass, faults, hist>>

ApproveWorkload(w) ==
    /\ wl[w].state = "pending"
    /\ wl' = [expire(wl) EXCEPT ![w].state = "approved"]
    /\ hist' = [hist EXCEPT !.king = @ \cup {w}]
    /\ UNCHANGED <<obj, pass, faults>>

StopWorkload(w) ==
    LET f == expire(wl) IN
    /\ \/ f[w].state = "pending" /\ wl' = [f EXCEPT ![w].state = "removed"]
       \/ ControllerVisible(f[w]) /\ ~f[w].stopped /\ wl' = [f EXCEPT ![w].stopped = TRUE]
    /\ UNCHANGED <<obj, pass, faults, hist>>

\* The lifetime starts with the approval and passes while nothing else happens.
Lapse(w) ==
    /\ wl[w].state \in {"approved", "creating", "running"} /\ ~wl[w].due
    /\ wl' = [wl EXCEPT ![w].due = TRUE]
    /\ UNCHANGED <<obj, pass, faults, hist>>

\* POST /v1/controller/status: what it makes of the store; refused unless visible.
Reported(w, state) ==
    LET f == expire(wl) IN
    IF ControllerVisible(f[w]) THEN [f EXCEPT ![w].state = state] ELSE wl

------------------------------------------------------------------------------
(* The engine. *)

Running(o) == o.st = "running" \/ (Engine = "kubernetes" /\ o.st = "created")

\* Mutant: a Pod without a container status exits with 0.
podExitZero(o) == CASE o.st = "ok" -> "0" [] o.st = "bad" -> "1" [] OTHER -> "0"

\* A container that never ran has no code of its own: podman says 0 for one
\* created and not started, a Pod that failed without running reports 1.
podExitCode(o) == CASE o.st = "ok" -> "0" [] o.st = "bad" -> "1" [] o.st = "evicted" -> "1" [] OTHER -> "0"

\* A podman container that never ran finished at the zero time: long ago.
PastGrace(o) == o.old \/ (Engine = "podman" /\ o.st = "created")

EngineExit(w) ==
    /\ obj[w].st = "running"
    /\ \E st \in {"ok", "bad"} :
        /\ obj' = [obj EXCEPT ![w].st = st, ![w].old = FALSE]
        /\ hist' = [hist EXCEPT !.ok = IF st = "ok" THEN @ \cup {w} ELSE @]
    /\ UNCHANGED <<wl, pass, faults>>

\* The kubelet starts the Pod's container, or the Pod fails before it has run.
KubeletStart(w) ==
    /\ Engine = "kubernetes" /\ obj[w].st = "created" /\ ~obj[w].dying
    /\ \/ obj' = [obj EXCEPT ![w].st = "running"] /\ hist' = [hist EXCEPT !.starts[w] = @ + 1]
       \/ obj' = [obj EXCEPT ![w].st = "evicted", ![w].old = FALSE] /\ UNCHANGED hist
    /\ UNCHANGED <<wl, pass, faults>>

\* A deleted Pod stays listed until its containers have stopped.
KubeletDelete(w) ==
    /\ obj[w].dying
    /\ obj' = [obj EXCEPT ![w] = NoObj]
    /\ UNCHANGED <<wl, pass, faults, hist>>

\* The grace period passes: looked at once the object has finished or is deleted.
Age(w) ==
    /\ obj[w].st \in {"ok", "bad", "evicted"} \/ obj[w].dying
    /\ ~obj[w].old
    /\ obj' = [obj EXCEPT ![w].old = TRUE]
    /\ UNCHANGED <<wl, pass, faults, hist>>

Removed(w) == IF Engine = "podman" \/ obj[w].st = "none" THEN NoObj ELSE [obj[w] EXCEPT !.dying = TRUE]

------------------------------------------------------------------------------
(* The controller. *)

Fault == faults < MaxFaults /\ faults' = faults + 1

\* GET /v1/controller/pending.
CtlPending ==
    /\ pass.at = "idle"
    /\ pass' = [pass EXCEPT !.at = "list",
                    !.wanted = [w \in Loads |-> IF ControllerVisible(expire(wl)[w])
                                                THEN [expire(wl)[w] EXCEPT !.due = FALSE] ELSE Absent]]
    /\ UNCHANGED <<wl, obj, faults, hist>>

\* Mutant: the missing container of a workload that ran is created again.
VerdictRecreates(w, o) ==
    CASE w = Absent -> IF o.st # "none" /\ PastGrace(o) THEN "orphan" ELSE "nothing"
      [] w # Absent /\ (w.stopped \/ w.state = "expired") -> IF o.st = "none" THEN "removed" ELSE "retire"
      [] w # Absent /\ ~w.stopped /\ w.state # "expired" ->
           CASE o.st = "none" /\ w.state \notin {"approved", "exited"} -> "nothing"
             [] o.st = "none" /\ w.state \in {"approved", "exited"} -> IF w.spec.supported THEN "create" ELSE "failed"
             [] Running(o) -> IF w.state = "running" THEN "nothing" ELSE "running"
             [] OTHER -> LET state == IF podExitCode(o) = "0" THEN "exited" ELSE "failed"
                         IN IF w.state # state THEN state ELSE IF PastGrace(o) THEN "retire" ELSE "nothing"

\* Mutant: a running container is left to end by itself.
VerdictSpares(w, o) ==
    CASE w = Absent -> IF o.st # "none" /\ PastGrace(o) THEN "orphan" ELSE "nothing"
      [] w # Absent /\ (w.stopped \/ w.state = "expired") -> IF o.st = "none" THEN "removed" ELSE IF Running(o) THEN "nothing" ELSE "retire"
      [] w # Absent /\ ~w.stopped /\ w.state # "expired" ->
           CASE o.st = "none" /\ w.state # "approved" -> "nothing"
             [] o.st = "none" /\ w.state = "approved" -> IF w.spec.supported THEN "create" ELSE "failed"
             [] Running(o) -> IF w.state = "running" THEN "nothing" ELSE "running"
             [] OTHER -> LET state == IF podExitCode(o) = "0" THEN "exited" ELSE "failed"
                         IN IF w.state # state THEN state ELSE IF PastGrace(o) THEN "retire" ELSE "nothing"

\* What a pass will do for a workload: reconcile's decision on the wanted
\* workload and the listed object, or the orphan's removal. It depends on the
\* two readings only, so it is taken when both are made.
Verdict(w, o) ==
    CASE w = Absent -> IF o.st # "none" /\ PastGrace(o) THEN "orphan" ELSE "nothing"
      [] w # Absent /\ (w.stopped \/ w.state = "expired") -> IF o.st = "none" THEN "removed" ELSE "retire"
      [] w # Absent /\ ~w.stopped /\ w.state # "expired" ->
           CASE o.st = "none" /\ w.state # "approved" -> "nothing"
             [] o.st = "none" /\ w.state = "approved" -> IF w.spec.supported THEN "create" ELSE "failed"
             [] Running(o) -> IF w.state = "running" THEN "nothing" ELSE "running"
             [] OTHER -> LET state == IF podExitCode(o) = "0" THEN "exited" ELSE "failed"
                         IN IF w.state # state THEN state ELSE IF PastGrace(o) THEN "retire" ELSE "nothing"

CtlList ==
    /\ pass.at = "list"
    /\ \/ pass' = [Idle EXCEPT !.at = "work", !.plan = [w \in Loads |-> Verdict(pass.wanted[w], obj[w])]]
          /\ UNCHANGED faults
       \/ Fault /\ pass' = Idle
    /\ UNCHANGED <<wl, obj, hist>>

Todo == {w \in Loads : pass.plan[w] \notin {"nothing", "orphan"}}

CtlReconcile(w) ==
    /\ pass.at = "work" /\ w \in Todo /\ \A v \in Todo : w <= v
    /\ LET v == pass.plan[w]
           next == [pass EXCEPT !.plan[w] = "nothing", !.cur = w]
       IN pass' = CASE v = "retire" -> [next EXCEPT !.at = "remove", !.rep = "removed"]
                    [] v = "create" -> [next EXCEPT !.at = "create"]
                    [] OTHER -> [next EXCEPT !.at = "report", !.rep = v]
    /\ UNCHANGED <<wl, obj, faults, hist>>

\* Engine.Create: the object carries the workload's label from the start.
Made == [NoObj EXCEPT !.st = "created"]

\* Podman creates and then starts, kubernetes creates the Pod. An error may hide
\* that the call took effect.
CtlCreate ==
    LET w == pass.cur IN
    /\ pass.at = "create"
    /\ \/ /\ obj[w].st = "none"
          /\ obj' = [obj EXCEPT ![w] = Made]
          /\ pass' = IF Engine = "podman" THEN [pass EXCEPT !.at = "start"] ELSE [pass EXCEPT !.at = "report", !.rep = "running"]
          /\ UNCHANGED <<faults, hist>>
       \/ /\ Fault
          /\ \/ UNCHANGED <<obj, hist>>
             \/ obj' = [obj EXCEPT ![w] = Made] /\ hist' = [hist EXCEPT !.lost = @ + 1]
          /\ pass' = [pass EXCEPT !.at = "report", !.rep = "failed"]
    /\ UNCHANGED wl

CtlStart ==
    LET w == pass.cur IN
    /\ pass.at = "start"
    /\ \/ /\ obj' = [obj EXCEPT ![w].st = "running"]
          /\ hist' = [hist EXCEPT !.starts[w] = @ + 1]
          /\ pass' = [pass EXCEPT !.at = "report", !.rep = "running"]
          /\ UNCHANGED faults
       \/ /\ Fault
          /\ \/ UNCHANGED <<obj, hist>>
             \/ /\ obj' = [obj EXCEPT ![w].st = "running"]
                /\ hist' = [hist EXCEPT !.starts[w] = @ + 1, !.lost = @ + 1]
          /\ pass' = [pass EXCEPT !.at = "report", !.rep = "failed"]
    /\ UNCHANGED wl

NextOne == [pass EXCEPT !.at = "work", !.cur = 0, !.rep = "none"]

\* retire: the object goes first, then serve is told.
CtlRemove ==
    /\ pass.at = "remove"
    /\ \/ /\ obj' = [obj EXCEPT ![pass.cur] = Removed(pass.cur)]
          /\ pass' = [pass EXCEPT !.at = "report"] /\ UNCHANGED faults
       \/ Fault /\ pass' = NextOne /\ UNCHANGED obj
    /\ UNCHANGED <<wl, hist>>

CtlReport ==
    /\ pass.at = "report"
    /\ pass' = NextOne
    /\ \/ wl' = Reported(pass.cur, pass.rep) /\ UNCHANGED faults
       \/ Fault /\ UNCHANGED wl
    /\ UNCHANGED <<obj, hist>>

\* The objects listed that no wanted workload claims go once the grace has passed.
CtlOrphans ==
    /\ pass.at = "work" /\ Todo = {}
    /\ obj' = [w \in Loads |-> IF pass.plan[w] = "orphan" THEN Removed(w) ELSE obj[w]]
    /\ pass' = Idle
    /\ UNCHANGED <<wl, faults, hist>>

\* The controller keeps no state: it starts again with a new pass.
CtlCrash == pass.at # "idle" /\ Fault /\ pass' = Idle /\ UNCHANGED <<wl, obj, hist>>

Init ==
    /\ ValidRules
    /\ wl = [w \in Loads |-> Absent]
    /\ obj = [w \in Loads |-> NoObj]
    /\ pass = Idle
    /\ faults = 0
    /\ hist = [starts |-> [w \in Loads |-> 0], ok |-> {}, lost |-> 0, king |-> {}]

Serve == \/ \E sp \in Requests : RequestWorkload(sp)
         \/ \E w \in Loads : ApproveWorkload(w) \/ StopWorkload(w) \/ Lapse(w)
Platform == \E w \in Loads : EngineExit(w) \/ KubeletStart(w) \/ KubeletDelete(w) \/ Age(w)
Pass == \/ CtlPending \/ CtlList \/ CtlCreate \/ CtlStart \/ CtlRemove \/ CtlReport \/ CtlOrphans
        \/ \E w \in Loads : CtlReconcile(w)

Next == Serve \/ Platform \/ Pass \/ CtlCrash

Spec == Init /\ [][Next]_wlVars

------------------------------------------------------------------------------

\* A container is started at most once for a workload, whatever is lost or
\* crashes: a missing object of a workload that ran is not created again.
StartedOnce == \A w \in Loads : hist.starts[w] <= 1

\* The engine holds an object only for a workload within the policy that the
\* policy approves by itself or the king has approved.
NothingUnapproved ==
    \A w \in Loads : obj[w].st # "none" =>
        /\ wl[w] # Absent /\ ~Refused("maker", wl[w].spec)
        /\ RuleFor("maker", wl[w].spec.kind).approval = "auto" \/ w \in hist.king

\* A workload recorded as exited ran to success: a failure is never read as success.
SuccessIsReal == \A w \in Loads : wl[w].state = "exited" => w \in hist.ok

\* A rule's cap on the live workloads of the station it covers is exceeded only by
\* creates that took effect although the engine's answer was lost. (All requests
\* are of one station, a maker; a rule for other roles never counts them.)
QuotaKept ==
    \A i \in DOMAIN Rules :
        Rules[i].max > 0 /\ "maker" \in Rules[i].roles =>
            Cardinality(LiveUnder(expire(wl), Rules[i])) <= Rules[i].max + hist.lost

ContainersBounded == StartedOnce /\ QuotaKept

\* The object of a workload that was stopped or has outlived its lifetime goes.
StoppedIsRemoved == \A w \in Loads : (wl[w].stopped \/ wl[w].due) ~> obj[w].st = "none"
==============================================================================
