-------------------------------- MODULE Deploy --------------------------------
(* Redeploying the line: the requests and the king's approvals that serve     *)
(* keeps (line/station/deploy.go, release.go) and the actuator that pulls the *)
(* desired release and applies it (line/deploy).                              *)
(*                                                                            *)
(* Commits are numbered in the order in which they become master. A request   *)
(* is checked, built (slowly) and stored in separate steps; the actuator's    *)
(* pass is cut at every call of the platform, so a crash, a request and an    *)
(* approval may come between them.                                            *)
EXTENDS Naturals, FiniteSets

CONSTANTS
    Commits,    \* 1..N, in the order of the line's history
    Builds,     \* digests a build of a commit may end with
    Container,  \* TRUE: the platform runs digest-pinned images
    MaxCrashes, \* bound: restarts of the actuator
    MaxAndon,   \* bound: andon pulls
    MaxBuilds   \* bound: requests of one commit in progress at once

VARIABLES
    line,       \* the line: master, whether it is stopped, what is attested
    building,   \* per commit, the requests that passed the checks and are being built
    requests,   \* serve: the deploy requests
    desired,    \* serve: the commit of the release approved last
    outcome,    \* serve: the last status the actuator reported
    act,        \* the actuator: its pass and the release it settled on
    platform,   \* the release that runs
    past        \* history: approvals, failed rollbacks, crashes

dpVars == <<line, building, requests, desired, outcome, act, platform, past>>

None == 0
Bare == "bare"
Release(c, digest) == [commit |-> c, digest |-> digest]
NoRelease == Release(None, Bare)
NoRequest == [st |-> "none", digest |-> Bare]
NoOutcome == [commit |-> None, state |-> "none"]
Resting(settled) == [at |-> "idle", want |-> NoRelease, prev |-> NoRelease, rep |-> "none", settled |-> settled]

------------------------------------------------------------------------------
(* The line the deploys are of. *)

Merge ==
    /\ line.master + 1 \in Commits /\ ~line.stopped
    /\ line' = [line EXCEPT !.master = @ + 1]
    /\ UNCHANGED <<building, requests, desired, outcome, act, platform, past>>

Attest ==
    /\ line.attested # line.master
    /\ line' = [line EXCEPT !.attested = line.master]
    /\ UNCHANGED <<building, requests, desired, outcome, act, platform, past>>

Andon ==
    /\ line.stopped \/ line.pulls < MaxAndon
    /\ line' = [line EXCEPT !.stopped = ~@, !.pulls = IF line.stopped THEN @ ELSE @ + 1]
    /\ UNCHANGED <<building, requests, desired, outcome, act, platform, past>>

------------------------------------------------------------------------------
(* serve: the viceroy asks, the king approves, the actuator reports. *)

Asked(c) == requests[c].st # "none" /\ ~(outcome.commit = c /\ outcome.state # "applied")

\* The checks of RequestDeploy: an attested master, the andon clear, not asked yet.
RequestDeploy(c) ==
    /\ c = line.master /\ ~line.stopped /\ line.attested = c
    /\ ~Asked(c) /\ building[c] < MaxBuilds
    /\ building' = [building EXCEPT ![c] = @ + 1]
    /\ UNCHANGED <<line, requests, desired, outcome, act, platform, past>>

\* The build ends: the request replaces any other of the commit, or the build
\* failed. Without a release builder the release is the bare commit; two builds
\* of one commit need not have the same digest.
StoreRequest(c) ==
    /\ building[c] > 0
    /\ building' = [building EXCEPT ![c] = @ - 1]
    /\ \/ \E d \in Builds \cup {Bare} : requests' = [requests EXCEPT ![c] = [st |-> "asked", digest |-> d]]
       \/ UNCHANGED requests
    /\ UNCHANGED <<line, desired, outcome, act, platform, past>>

\* The king's approval; a request master has moved past is stale.
ApproveDeploy(c) ==
    /\ requests[c].st = "asked" /\ c = line.master
    /\ requests' = [requests EXCEPT ![c].st = "approved"]
    /\ desired' = c
    /\ past' = [past EXCEPT !.approved = @ \cup {Release(c, requests[c].digest)}]
    /\ UNCHANGED <<line, building, outcome, act, platform>>

\* Mutant: the request of the desired commit is served, approved or not.
DesiredUnapproved == IF desired # None THEN Release(desired, requests[desired].digest) ELSE NoRelease

\* GET /v1/deploy/desired.
DesiredRelease ==
    IF desired # None /\ requests[desired].st = "approved" THEN Release(desired, requests[desired].digest) ELSE NoRelease

\* POST /v1/deploy/status: a status of anything but the desired release is refused.
Recorded(c, state) == IF c = desired THEN [commit |-> c, state |-> state] ELSE outcome

------------------------------------------------------------------------------
(* The actuator. *)

\* Once, up to Apply: read the desired release and what the platform runs. A
\* commit it has settled on is not looked at again.
Running(want) == platform.runs.commit = want.commit /\ (~Container \/ platform.runs.digest = want.digest)

\* Mutant: a release that already runs is not settled on.
ActPullForgets ==
    /\ act.at = "idle" /\ DesiredRelease # NoRelease /\ DesiredRelease.commit # act.settled
    /\ LET want == DesiredRelease
           settled == Resting(want.commit) IN
       act' = CASE Container /\ want.digest = Bare -> [settled EXCEPT !.at = "report", !.want = want, !.rep = "failed"]
                [] ~(Container /\ want.digest = Bare) /\ Running(want) -> act
                [] OTHER -> [settled EXCEPT !.at = "apply", !.want = want, !.prev = platform.runs]
    /\ UNCHANGED <<line, building, requests, desired, outcome, platform, past>>

ActPull ==
    /\ act.at = "idle" /\ DesiredRelease # NoRelease /\ DesiredRelease.commit # act.settled
    /\ LET want == DesiredRelease
           settled == Resting(want.commit) IN
       act' = CASE Container /\ want.digest = Bare -> [settled EXCEPT !.at = "report", !.want = want, !.rep = "failed"]
                [] ~(Container /\ want.digest = Bare) /\ Running(want) -> settled
                [] OTHER -> [settled EXCEPT !.at = "apply", !.want = want, !.prev = platform.runs]
    /\ UNCHANGED <<line, building, requests, desired, outcome, platform, past>>

\* Mutant: an error of Apply is not looked at.
ActApplyBlindly ==
    /\ act.at = "apply"
    /\ \/ platform' = [platform EXCEPT !.runs = act.want, !.healthy = "unknown"]
       \/ UNCHANGED platform
    /\ act' = [act EXCEPT !.at = "probe"]
    /\ UNCHANGED <<line, building, requests, desired, outcome, past>>

\* Apply succeeds, or fails before or after the platform has changed.
ActApply ==
    /\ act.at = "apply"
    /\ \/ /\ platform' = [platform EXCEPT !.runs = act.want, !.healthy = "unknown"]
          /\ \E at \in {"probe", "rollback"} : act' = [act EXCEPT !.at = at]
       \/ act' = [act EXCEPT !.at = "rollback"] /\ UNCHANGED platform
    /\ UNCHANGED <<line, building, requests, desired, outcome, past>>

\* Mutant: an unhealthy release is reported and left running.
ActProbeOnly ==
    /\ act.at = "probe"
    /\ \E h \in {"yes", "no"} :
        /\ platform' = [platform EXCEPT !.healthy = h]
        /\ act' = [act EXCEPT !.at = "report", !.rep = IF h = "yes" THEN "applied" ELSE "failed"]
    /\ UNCHANGED <<line, building, requests, desired, outcome, past>>

\* The health window: the release serves, or it does not within the window.
ActProbe ==
    /\ act.at = "probe"
    /\ \/ /\ platform' = [platform EXCEPT !.healthy = "yes"]
          /\ act' = [act EXCEPT !.at = "report", !.rep = "applied"]
       \/ /\ platform' = [platform EXCEPT !.healthy = "no"]
          /\ act' = [act EXCEPT !.at = "rollback"]
    /\ UNCHANGED <<line, building, requests, desired, outcome, past>>

\* The rollback restores what Current returned before, or fails too.
ActRollback ==
    /\ act.at = "rollback"
    /\ \/ /\ platform' = [platform EXCEPT !.runs = act.prev, !.healthy = "yes"]
          /\ act' = [act EXCEPT !.at = "report", !.rep = "rolled_back"]
          /\ UNCHANGED past
       \/ /\ act' = [act EXCEPT !.at = "report", !.rep = "failed"]
          /\ past' = [past EXCEPT !.stuck = @ \cup {act.want.commit}]
          /\ UNCHANGED platform
    /\ UNCHANGED <<line, building, requests, desired, outcome>>

\* The report reaches serve or is lost; it is not sent again.
ActReport ==
    /\ act.at = "report"
    /\ act' = Resting(act.settled)
    /\ outcome' \in {outcome, Recorded(act.want.commit, act.rep)}
    /\ UNCHANGED <<line, building, requests, desired, platform, past>>

\* The actuator keeps what it settled on in memory only.
ActCrash ==
    /\ past.crashes < MaxCrashes
    /\ act' = Resting(None)
    /\ past' = [past EXCEPT !.crashes = @ + 1, !.midway = @ \/ act.at \in {"apply", "probe", "rollback"}]
    /\ UNCHANGED <<line, building, requests, desired, outcome, platform>>

Init ==
    /\ line = [master |-> 1, stopped |-> FALSE, attested |-> None, pulls |-> 0]
    /\ building = [c \in Commits |-> 0]
    /\ requests = [c \in Commits |-> NoRequest]
    /\ desired = None
    /\ outcome = NoOutcome
    /\ act = Resting(None)
    /\ platform = [runs |-> NoRelease, healthy |-> "yes"]
    /\ past = [approved |-> {}, stuck |-> {}, crashes |-> 0, midway |-> FALSE]

Actuate == ActPull \/ ActApply \/ ActProbe \/ ActRollback \/ ActReport
Next == \/ Merge \/ Attest \/ Andon \/ Actuate \/ ActCrash
        \/ \E c \in Commits : RequestDeploy(c) \/ StoreRequest(c) \/ ApproveDeploy(c)

Spec == Init /\ [][Next]_dpVars

------------------------------------------------------------------------------

\* The platform runs only a release the king approved, the very build and not just
\* its commit, or what it ran at first.
PlatformIsApproved == platform.runs \in past.approved \cup {NoRelease}

\* When serve says the desired release is applied and the actuator rests, that
\* release runs, also after lost reports and restarts.
AppliedIsRunning ==
    outcome.commit = desired /\ outcome.state = "applied" /\ act.at = "idle" => platform.runs.commit = outcome.commit

\* The platform is as serve believes it to be.
PlatformIsTrue == PlatformIsApproved /\ AppliedIsRunning

\* The actuator settles on a running release only when it answered its health
\* probe, or its rollback failed too and serve was to be told so. Only
\* a crash in the middle of a rollout leaves a release nobody has probed.
SettledIsProbed ==
    act.at = "idle" /\ act.settled # None /\ platform.runs.commit = act.settled /\ ~past.midway =>
        platform.healthy = "yes" \/ act.settled \in past.stuck

\* A commit whose release is approved is taken up: applied, rolled back or
\* refused, unless another one or a new request of it replaces it.
ReleaseSettles ==
    \A c \in Commits : DesiredRelease.commit = c ~> (act.settled = c \/ DesiredRelease.commit # c)
==============================================================================
