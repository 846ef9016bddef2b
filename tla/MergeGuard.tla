----------------------------- MODULE MergeGuard -----------------------------
(***************************************************************************)
(* The merge guard (line/guard) behind the station server: Merge, Pull and *)
(* Clear as concurrent calls on one bare repository, each split where it   *)
(* reads or moves a ref.  gitx moves a ref by compare-and-swap under a     *)
(* process-wide mutex, so one CAS is one step; nothing spans a read and    *)
(* the CAS that follows it.                                                *)
(*                                                                         *)
(* Merges come through the station's check slot, which admits MergeSlots   *)
(* at a time (one in the code; what is proved holds for any number); pulls *)
(* and clears do not take the slot.                                        *)
(***************************************************************************)
EXTENDS Evidence, FiniteSets

CONSTANTS
    Call,        \* request handlers of the station server
    Seed,        \* the commit the line was seeded from
    Submission,  \* merge requests: pairs of a candidate and an envelope
    MergeSlots,  \* merges the server lets in at once: its check slot makes it 1
    MaxEvents,   \* bound: andon events written
    MaxStray     \* bound: candidate refs left behind by crashes

ASSUME GuardAssumption ==
    /\ Seed \in Commit
    /\ Submission \subseteq Commit \X Envelope
    /\ MergeSlots \in Nat
    /\ MaxEvents \in Nat
    /\ MaxStray \in Nat

VARIABLES
    master,      \* refs/heads/master
    stop,        \* refs/line/andon: id of the event blob, 0 when the ref is absent
    events,      \* event blobs, by id: the commit each was pulled on
    candidates,  \* refs/line/candidates/<commit>
    at,          \* the step each call is at
    req,         \* its operation and input
    seen,        \* the event id it read (Clear) or wrote (Pull)
    base,        \* the master it read
    reply        \* how the handler's latest call ended

refs == <<master, stop, events, candidates>>
locals == <<req, seen, base>>
vars == <<refs, at, locals, reply>>

NoRequest == [op |-> "none"]

Request == [op: {"merge", "pull", "clear"}, commit: Commit, env: Envelope]

MergeStep == {"merge_stop", "merge_base", "merge_cas", "merge_cleanup"}
PullStep == {"pull_stop", "pull_cas", "pull_lost"}
ClearStep == {"clear_base", "clear_event", "clear_cas"}

Status == {"none", "merged", "rejected", "stopped", "cleared", "error"}
Reason == Verdict \cup {"line_stopped", "base_moved", "already_stopped",
                        "not_stopped", "stale_evidence", "no_failure"}

Reply == [status: Status, reason: Reason,
          commit: Commit \cup {NoCommit}, event: Nat]

NoReply == [status |-> "none", reason |-> "", commit |-> NoCommit, event |-> 0]

Result(p, status, reason, event) ==
    [status |-> status, reason |-> reason, commit |-> req[p].commit,
     event |-> event]

(* The commit of the event behind the stop ref.  A ref written by hand     *)
(* holds no event: Stopped returns nil, here NoCommit.                     *)
Stopped == IF stop = 0 THEN NoCommit ELSE events[stop]

(* A commit can name only events that exist when it is made.               *)
Committed(c) == Tag[c] \subseteq 1..Len(events)

-----------------------------------------------------------------------------
Init ==
    /\ master = Seed
    /\ stop = 0
    /\ events = <<>>
    /\ candidates = {}
    /\ at = [p \in Call |-> "idle"]
    /\ req = [p \in Call |-> NoRequest]
    /\ seen = [p \in Call |-> 0]
    /\ base = [p \in Call |-> NoCommit]
    /\ reply = [p \in Call |-> NoReply]

Goto(p, step) == at' = [at EXCEPT ![p] = step]

Start(p, op, c, env) ==
    /\ at[p] = "idle"
    /\ req' = [req EXCEPT ![p] = [op |-> op, commit |-> c, env |-> env]]
    /\ reply' = [reply EXCEPT ![p] = NoReply]

(* The handler p is free again; its local variables are gone.              *)
Forget(p) ==
    /\ Goto(p, "idle")
    /\ req' = [req EXCEPT ![p] = NoRequest]
    /\ seen' = [seen EXCEPT ![p] = 0]
    /\ base' = [base EXCEPT ![p] = NoCommit]

(* A pull or a clear returns.                                              *)
Return(p, result) ==
    /\ Forget(p)
    /\ reply' = [reply EXCEPT ![p] = result]

(* A merge has its result; the deferred cleanup runs before it returns.    *)
Defer(p, result) ==
    /\ Goto(p, "merge_cleanup")
    /\ reply' = [reply EXCEPT ![p] = result]
    /\ UNCHANGED <<refs, locals>>

-----------------------------------------------------------------------------
(* Mutant: merges are let in without a slot.                               *)
acquireAlways == TRUE

(* The server's check slot, held for the whole of a merge.                 *)
acquire == Cardinality({q \in Call : req[q].op = "merge"}) < MergeSlots

(* pushAndMerge, in a check slot of the station: the candidate is pushed   *)
(* and the guard asked to merge it.                                        *)
Submit(p, c, env) ==
    /\ acquire
    /\ Committed(c)
    /\ Start(p, "merge", c, env)
    /\ candidates' = candidates \cup {c}
    /\ Goto(p, "merge_stop")
    /\ UNCHANGED <<master, stop, events, seen, base>>

(* verify and checkResults need only the commit and the envelope.          *)
MergeVerdict(c, env) ==
    LET reason == verify(env, c)
    IN IF reason # "" THEN reason
       ELSE checkResults(env.checks, isDocsOnly(env, c))

(* While the cord is pulled only a fix tagged with the event may pass.     *)
MergeReadStop(p) ==
    LET c == req[p].commit
        reason == MergeVerdict(c, req[p].env)
    IN /\ at[p] = "merge_stop"
       /\ \/ /\ reason # ""
             /\ Defer(p, Result(p, "rejected", reason, 0))
          \/ /\ reason = ""
             /\ stop # 0 /\ stop \notin Tag[c]
             /\ Defer(p, Result(p, "rejected", "line_stopped", stop))
          \/ /\ reason = ""
             /\ stop # 0 => stop \in Tag[c]
             /\ Goto(p, "merge_base")
             /\ UNCHANGED <<refs, locals, reply>>

(* The fast-forward test and the gates, against the master read here.      *)
MergeReadBase(p) ==
    LET c == req[p].commit
        reason == IF Parent[c] # master THEN "base_moved"
                  ELSE gate(req[p].env, c)
    IN /\ at[p] = "merge_base"
       /\ \/ /\ reason # ""
             /\ Defer(p, Result(p, "rejected", reason, 0))
          \/ /\ reason = ""
             /\ base' = [base EXCEPT ![p] = master]
             /\ Goto(p, "merge_cas")
             /\ UNCHANGED <<refs, req, seen, reply>>

(* Mutant: master is set, not compared and swapped.                        *)
MergeSetRef(p) ==
    /\ at[p] = "merge_cas"
    /\ master' = req[p].commit
    /\ Goto(p, "merge_cleanup")
    /\ reply' = [reply EXCEPT ![p] = Result(p, "merged", "", 0)]
    /\ UNCHANGED <<stop, events, candidates, locals>>

MergeUpdateRef(p) ==
    /\ at[p] = "merge_cas"
    /\ \/ /\ master # base[p]
          /\ Defer(p, Result(p, "rejected", "base_moved", 0))
       \/ /\ master = base[p]
          /\ master' = req[p].commit
          /\ Goto(p, "merge_cleanup")
          /\ reply' = [reply EXCEPT ![p] = Result(p, "merged", "", 0)]
          /\ UNCHANGED <<stop, events, candidates, locals>>

(* The candidate ref goes whatever the outcome.                            *)
MergeCleanup(p) ==
    /\ at[p] = "merge_cleanup"
    /\ candidates' = candidates \ {req[p].commit}
    /\ Forget(p)
    /\ UNCHANGED <<master, stop, events, reply>>

-----------------------------------------------------------------------------
(* Mutant: evidence of any commit stops the line.                          *)
PullAnyCommit(p, env) ==
    /\ at[p] = "idle"
    /\ verify(env, NoCommit) = ""
    /\ Start(p, "pull", env.commit, env)
    /\ base' = [base EXCEPT ![p] = master]
    /\ Goto(p, "pull_stop")
    /\ UNCHANGED <<refs, seen>>

(* Pull: verify, then the evidence must be of the master read here.        *)
Pull(p, env) ==
    LET reason == IF verify(env, NoCommit) # "" THEN verify(env, NoCommit)
                  ELSE IF env.commit # master THEN "stale_evidence"
                  ELSE ""
    IN /\ at[p] = "idle"
       /\ \/ /\ reason # ""
             /\ reply' = [reply EXCEPT ![p] = [status |-> "rejected", reason |-> reason,
                            commit |-> IF verify(env, NoCommit) = "" THEN env.commit ELSE NoCommit,
                            event |-> 0]]
             /\ UNCHANGED <<refs, at, locals>>
          \/ /\ reason = ""
             /\ Start(p, "pull", env.commit, env)
             /\ base' = [base EXCEPT ![p] = master]
             /\ Goto(p, "pull_stop")
             /\ UNCHANGED <<refs, seen>>

(* Mutant: the event's id is used, the blob is not written.                *)
PullSkipBlob(p) ==
    /\ at[p] = "pull_stop"
    /\ stop = 0
    /\ failingCheck(req[p].env.checks)
    /\ Len(events) < MaxEvents
    /\ seen' = [seen EXCEPT ![p] = Len(events) + 1]
    /\ Goto(p, "pull_cas")
    /\ UNCHANGED <<refs, req, base, reply>>

(* The event is written as a blob that no ref names yet.                   *)
PullReadStop(p) ==
    /\ at[p] = "pull_stop"
    /\ \/ /\ stop # 0
          /\ Return(p, Result(p, "rejected", "already_stopped", stop))
          /\ UNCHANGED refs
       \/ /\ stop = 0
          /\ ~failingCheck(req[p].env.checks)
          /\ Return(p, Result(p, "rejected", "no_failure", 0))
          /\ UNCHANGED refs
       \/ /\ stop = 0
          /\ failingCheck(req[p].env.checks)
          /\ Len(events) < MaxEvents
          /\ events' = Append(events, req[p].env.commit)
          /\ seen' = [seen EXCEPT ![p] = Len(events) + 1]
          /\ Goto(p, "pull_cas")
          /\ UNCHANGED <<master, stop, candidates, req, base, reply>>

(* Mutant: the stop ref is set, not created.                               *)
PullSetRef(p) ==
    /\ at[p] = "pull_cas"
    /\ stop' = seen[p]
    /\ Return(p, Result(p, "stopped", "", seen[p]))
    /\ UNCHANGED <<master, events, candidates>>

(* The stop ref is created only if it does not exist.                      *)
PullUpdateRef(p) ==
    /\ at[p] = "pull_cas"
    /\ \/ /\ stop = 0
          /\ stop' = seen[p]
          /\ Return(p, Result(p, "stopped", "", seen[p]))
          /\ UNCHANGED <<master, events, candidates>>
       \/ /\ stop # 0
          /\ Goto(p, "pull_lost")
          /\ UNCHANGED <<refs, locals, reply>>

(* The loser reports the cord it finds, which may be lifted by now.        *)
PullLost(p) ==
    /\ at[p] = "pull_lost"
    /\ Return(p, Result(p, "rejected", "already_stopped", stop))
    /\ UNCHANGED refs

-----------------------------------------------------------------------------
(* Clear: the event to lift is the one read here.                          *)
Clear(p, env) ==
    LET reason == IF stop = 0 THEN "not_stopped" ELSE verify(env, NoCommit)
    IN /\ at[p] = "idle"
       /\ \/ /\ reason # ""
             /\ reply' = [reply EXCEPT ![p] = [status |-> "rejected",
                            reason |-> reason, commit |-> NoCommit, event |-> 0]]
             /\ UNCHANGED <<refs, at, locals>>
          \/ /\ reason = ""
             /\ Start(p, "clear", env.commit, env)
             /\ seen' = [seen EXCEPT ![p] = stop]
             /\ Goto(p, "clear_base")
             /\ UNCHANGED <<refs, base>>

ClearReadBase(p) ==
    /\ at[p] = "clear_base"
    /\ \/ /\ req[p].commit # master
          /\ Return(p, Result(p, "rejected", "stale_evidence", 0))
          /\ UNCHANGED refs
       \/ /\ req[p].commit = master
          /\ base' = [base EXCEPT ![p] = master]
          /\ Goto(p, "clear_event")
          /\ UNCHANGED <<refs, req, seen, reply>>

(* Mutant: the failing commit's own passing run may clear the line.        *)
ClearAnyCommit(p) ==
    /\ at[p] = "clear_event"
    /\ checkResults(req[p].env.checks, FALSE) = ""
    /\ Goto(p, "clear_cas")
    /\ UNCHANGED <<refs, locals, reply>>

(* The failing commit's own passing run must not clear the line, and no    *)
(* check may be skipped.                                                   *)
ClearReadEvent(p) ==
    LET reason == IF Stopped = req[p].commit THEN "stale_evidence"
                  ELSE checkResults(req[p].env.checks, FALSE)
    IN /\ at[p] = "clear_event"
       /\ \/ /\ reason # ""
             /\ Return(p, Result(p, "rejected", reason, 0))
             /\ UNCHANGED refs
          \/ /\ reason = ""
             /\ Goto(p, "clear_cas")
             /\ UNCHANGED <<refs, locals, reply>>

(* The stop ref is deleted only if it still names that event.              *)
ClearDeleteRef(p) ==
    /\ at[p] = "clear_cas"
    /\ \/ /\ stop # seen[p]
          /\ Return(p, Result(p, "rejected", "not_stopped", 0))
          /\ UNCHANGED refs
       \/ /\ stop = seen[p]
          /\ stop' = 0
          /\ Return(p, Result(p, "cleared", "", seen[p]))
          /\ UNCHANGED <<master, events, candidates>>

-----------------------------------------------------------------------------
(* A repository read fails or the caller goes away: the call ends in an    *)
(* error with no ref moved.  A merge still cleans up.                      *)
Fail(p) ==
    \/ /\ at[p] \in {"merge_stop", "merge_base", "merge_cas"}
       /\ Defer(p, Result(p, "error", "", 0))
    \/ /\ at[p] \in PullStep \cup ClearStep
       /\ Return(p, Result(p, "error", "", 0))
       /\ UNCHANGED refs

(* The server dies: refs and blobs survive, no cleanup runs.               *)
Crash ==
    /\ Cardinality(candidates) <= MaxStray
    /\ at' = [p \in Call |-> "idle"]
    /\ req' = [p \in Call |-> NoRequest]
    /\ seen' = [p \in Call |-> 0]
    /\ base' = [p \in Call |-> NoCommit]
    /\ reply' = [p \in Call |-> NoReply]
    /\ UNCHANGED refs

(* The operator points the stop ref at an object that is not an event.     *)
StopByHand ==
    /\ stop = 0
    /\ Len(events) < MaxEvents
    /\ events' = Append(events, NoCommit)
    /\ stop' = Len(events) + 1
    /\ UNCHANGED <<master, candidates, at, locals, reply>>

Begin(p) ==
    \/ \E s \in Submission : Submit(p, s[1], s[2])
    \/ \E env \in Envelope : Pull(p, env) \/ Clear(p, env)

Proceed(p) ==
    \/ MergeReadStop(p) \/ MergeReadBase(p) \/ MergeUpdateRef(p) \/ MergeCleanup(p)
    \/ PullReadStop(p) \/ PullUpdateRef(p) \/ PullLost(p)
    \/ ClearReadBase(p) \/ ClearReadEvent(p) \/ ClearDeleteRef(p)

Next ==
    \/ \E p \in Call : Begin(p) \/ Proceed(p) \/ Fail(p)
    \/ Crash
    \/ StopByHand

Spec == Init /\ [][Next]_vars
-----------------------------------------------------------------------------
(* Every variable holds a value of its kind, and a call is at a step of    *)
(* the operation it serves (the local state of Merge, Pull and Clear).     *)
TypeOK ==
    /\ master \in Commit
    /\ events \in Seq(Commit \cup {NoCommit})
    /\ Len(events) <= MaxEvents
    /\ stop \in 0..Len(events)
    /\ candidates \subseteq Commit
    /\ req \in [Call -> Request \cup {NoRequest}]
    /\ at \in [Call -> {"idle"} \cup MergeStep \cup PullStep \cup ClearStep]
    /\ \A p \in Call : /\ at[p] = "idle" => req[p] = NoRequest
                       /\ at[p] \in MergeStep => req[p].op = "merge"
                       /\ at[p] \in PullStep => req[p].op = "pull"
                       /\ at[p] \in ClearStep => req[p].op = "clear"
    /\ seen \in [Call -> 0..Len(events)]
    /\ base \in [Call -> Commit \cup {NoCommit}]
    /\ reply \in [Call -> Reply]

(* However merges, pulls, clears, failures and crashes interleave, a       *)
(* commit above the seed is on master only if an attestation that proves   *)
(* it was signed: trusted key and role, this very commit, the current      *)
(* constitution and runner, all required checks, the path and blob gates.  *)
OnlyProvenCommits ==
    Chain(master) \ Chain(Seed) \subseteq Proven

(* The stop ref never names an event without cause: the commit of a        *)
(* decodable event is on the line and a signed run refutes it.             *)
StopHasCause ==
    Stopped # NoCommit => Stopped \in Chain(master) \cap Refuted

(* A merge in flight keeps the ref that protects its objects from a prune, *)
(* although every merge deletes the ref of its commit when it ends and a   *)
(* commit may be submitted again after a crash: the check slot is what     *)
(* keeps two merges of one commit apart (for MergeSlots = 1).              *)
CandidateKept ==
    \A p \in Call : at[p] \in MergeStep => req[p].commit \in candidates

(* What a call reported stays true, whatever the others do: a merged       *)
(* commit stays on the line, an event that was reported lifted is never    *)
(* the stop again, and the event a pull reported is about its commit.      *)
RepliesHold ==
    \A p \in Call :
        /\ reply[p].status = "merged" => reply[p].commit \in Chain(master)
        /\ reply[p].status = "cleared" => reply[p].event \in (1..Len(events)) \ {stop}
        /\ reply[p].status = "stopped" =>
              /\ reply[p].event \in 1..Len(events)
              /\ events[reply[p].event] = reply[p].commit

(* The event p wrote for its pull is unknown to everyone else.             *)
Fresh(p) ==
    /\ seen[p] \in (1..Len(events)) \ {stop}
    /\ events[seen[p]] = req[p].commit
    /\ \A q \in Call \ {p} : seen[q] # seen[p]
    /\ \A q \in Call : reply[q].status = "cleared" => reply[q].event # seen[p]

(* What Merge, Pull and Clear have read and not yet acted on is still good *)
(* for what they do next: a merge about to move master holds proof of a    *)
(* child of the base it read; a pull about to stop the line holds proof    *)
(* against a commit of the line and an event nobody has seen; a clear      *)
(* holds proof for a commit of the line and, if its event is still the     *)
(* stop, that commit is newer than the failing one.                        *)
CallInv(p) ==
    LET c == req[p].commit
        env == req[p].env
    IN /\ at[p] \in {"merge_base", "merge_cas"} => MergeVerdict(c, env) = ""
       /\ at[p] = "merge_cas" => c \in Proven /\ Parent[c] = base[p]
       /\ at[p] \in {"pull_stop", "pull_cas"} =>
             Trustworthy(env) /\ env.commit = c /\ c \in Chain(master)
       /\ at[p] = "pull_cas" => c \in Refuted /\ Fresh(p)
       /\ at[p] \in ClearStep =>
             Trustworthy(env) /\ env.commit = c /\ seen[p] # 0
       /\ at[p] \in {"clear_event", "clear_cas"} =>
             /\ c \in Chain(master)
             /\ stop = seen[p] /\ Stopped # NoCommit => Stopped \in Chain(c)
       /\ at[p] = "clear_cas" =>
             c \in Repaired /\ (stop = seen[p] => Stopped # c)

InFlight == \A p \in Call : CallInv(p)

(* The calls, taken apart at every ref they touch, still behave as if each *)
(* took effect at once on a line that only grows by proven commits, stops  *)
(* on a refuted commit and restarts on a repaired, strictly newer one.     *)
GL == INSTANCE GuardedLine WITH
        cord <- stop,
        failing <- Stopped,
        used <- {i \in 1..Len(events) :
                    \A p \in Call : at[p] = "pull_cas" => seen[p] # i}

ImplementsGuardedLine == GL!Spec
=============================================================================
