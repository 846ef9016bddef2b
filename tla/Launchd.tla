------------------------------- MODULE Launchd -------------------------------
(* The launchd backend of the deploy actuator (line/deploy/launchd.go): a     *)
(* binary per commit, the `current` link that is swapped to one of them, and  *)
(* the jobs that are kickstarted one after the other; the actuator's pass     *)
(* (deploy.go, Once) is the one of module Deploy, cut here at the backend's   *)
(* own steps.                                                                 *)
(*                                                                            *)
(* Commits are numbered in the order in which they are approved. launchd      *)
(* starts a job from `current`, also when the job ended by itself.            *)
EXTENDS Naturals, Sequences

CONSTANTS
    Commits,    \* 1..N
    Labels,     \* the jobs, in the order of the allowlist
    MaxCrashes  \* bound: restarts of the actuator

VARIABLES
    desired,  \* serve: the release approved last
    bin,      \* deploy/<commit>/sweatshop: "none", "cut" or "whole"
    link,     \* deploy/current: a commit, or None
    job,      \* per label, the commit whose binary it runs
    pass,     \* the actuator
    ldPast    \* history: the last rollout that ended, crashes

ldVars == <<desired, bin, link, job, pass, ldPast>>

None == 0
Jobs == {Labels[i] : i \in DOMAIN Labels}
\* target is what activate links to: the release, or in a rollback the previous one.
Resting(settled) == [at |-> "idle", want |-> None, prev |-> None, target |-> None, next |-> 1,
                     failed |-> FALSE, settled |-> settled]
Rolled == pass.target = pass.prev
\* Apply failed: roll back. The rollback failed: report it.
Fails == pass' = IF Rolled THEN Resting(pass.settled) ELSE [pass EXCEPT !.at = "rollback"]
Ended(rep) == [ldPast EXCEPT !.last = [rep |-> rep, want |-> pass.want, prev |-> pass.prev]]
Failed == ldPast' = IF Rolled THEN Ended("failed") ELSE ldPast

------------------------------------------------------------------------------
Approve ==
    /\ desired + 1 \in Commits
    /\ desired' = desired + 1
    /\ UNCHANGED <<bin, link, job, pass, ldPast>>

\* Once: Current is where the link leads, whatever the jobs run.
Pull ==
    /\ pass.at = "idle" /\ desired # None /\ desired # pass.settled
    /\ pass' = IF link = desired THEN Resting(desired)
               ELSE [Resting(desired) EXCEPT !.at = "apply", !.want = desired, !.prev = link]
    /\ UNCHANGED <<desired, bin, link, job, ldPast>>

\* Apply: a binary that is there is not built again.
Apply ==
    /\ pass.at = "apply"
    /\ pass' = [pass EXCEPT !.at = IF bin[pass.want] = "none" THEN "build" ELSE "activate", !.target = pass.want]
    /\ UNCHANGED <<desired, bin, link, job, ldPast>>

\* Mutant: the compiler writes where the binary is looked for.
BuildInPlace ==
    /\ pass.at = "build"
    /\ \/ bin' = [bin EXCEPT ![pass.want] = "whole"] /\ pass' = [pass EXCEPT !.at = "activate"]
       \/ bin' = [bin EXCEPT ![pass.want] = "cut"] /\ pass' = [pass EXCEPT !.at = "rollback"]
    /\ UNCHANGED <<desired, link, job, ldPast>>

\* build: from a throwaway checkout into a file beside, renamed when it is whole.
Build ==
    /\ pass.at = "build"
    /\ \/ bin' = [bin EXCEPT ![pass.want] = "whole"] /\ pass' = [pass EXCEPT !.at = "activate"]
       \/ pass' = [pass EXCEPT !.at = "rollback"] /\ UNCHANGED bin
    /\ UNCHANGED <<desired, link, job, ldPast>>

\* activate: the link is swapped in one step, or cannot be.
Activate ==
    /\ pass.at = "activate"
    /\ \/ /\ link' = pass.target
          /\ pass' = [pass EXCEPT !.at = "kick", !.next = 1, !.failed = FALSE]
          /\ UNCHANGED ldPast
       \/ UNCHANGED link /\ Fails /\ Failed
    /\ UNCHANGED <<desired, bin, job>>

\* activate, per label: a kickstart restarts the job, or fails; all are tried.
Kickstart ==
    /\ pass.at = "kick" /\ pass.next \in DOMAIN Labels
    /\ \/ job' = [job EXCEPT ![Labels[pass.next]] = link] /\ pass' = [pass EXCEPT !.next = @ + 1]
       \/ pass' = [pass EXCEPT !.next = @ + 1, !.failed = TRUE] /\ UNCHANGED job
    /\ UNCHANGED <<desired, bin, link, ldPast>>

\* Mutant: a kickstart that failed is not looked at.
KickedAnyhow ==
    /\ pass.at = "kick" /\ pass.next \notin DOMAIN Labels
    /\ IF Rolled THEN pass' = Resting(pass.settled) /\ ldPast' = Ended("rolled_back")
       ELSE pass' = [pass EXCEPT !.at = "probe"] /\ UNCHANGED ldPast
    /\ UNCHANGED <<desired, bin, link, job>>

\* The jobs' errors are joined: one that failed fails the activation.
Kicked ==
    /\ pass.at = "kick" /\ pass.next \notin DOMAIN Labels
    /\ IF pass.failed THEN Fails /\ Failed
       ELSE IF Rolled THEN pass' = Resting(pass.settled) /\ ldPast' = Ended("rolled_back")
       ELSE pass' = [pass EXCEPT !.at = "probe"] /\ UNCHANGED ldPast
    /\ UNCHANGED <<desired, bin, link, job>>

\* The probe of the health window.
Probe ==
    /\ pass.at = "probe"
    /\ \/ pass' = Resting(pass.settled) /\ ldPast' = Ended("applied")
       \/ pass' = [pass EXCEPT !.at = "rollback"] /\ UNCHANGED ldPast
    /\ UNCHANGED <<desired, bin, link, job>>

\* Rollback: to where the link led before, if that was a release and its binary is there.
Rollback ==
    /\ pass.at = "rollback"
    /\ IF pass.prev # None /\ bin[pass.prev] # "none"
       THEN pass' = [pass EXCEPT !.at = "activate", !.target = pass.prev] /\ UNCHANGED ldPast
       ELSE pass' = Resting(pass.settled) /\ ldPast' = Ended("failed")
    /\ UNCHANGED <<desired, bin, link, job>>

\* The actuator restarts: it looks at the desired release again.
Crash ==
    /\ ldPast.crashes < MaxCrashes
    /\ pass' = Resting(None)
    /\ ldPast' = [ldPast EXCEPT !.crashes = @ + 1, !.last.rep = IF pass.at = "idle" THEN @ ELSE "none"]
    /\ UNCHANGED <<desired, bin, link, job>>

\* launchd (external): a job that ended is started again.
JobRestarts(l) ==
    /\ link # None /\ job[l] # link
    /\ job' = [job EXCEPT ![l] = link]
    /\ UNCHANGED <<desired, bin, link, pass, ldPast>>

Init ==
    /\ desired = None /\ link = None /\ pass = Resting(None)
    /\ bin = [c \in Commits |-> "none"]
    /\ job = [l \in Jobs |-> None]
    /\ ldPast = [last |-> [rep |-> "none", want |-> None, prev |-> None], crashes |-> 0]

Next ==
    \/ Approve \/ Pull \/ Apply \/ Build \/ Activate \/ Kickstart \/ Kicked \/ Probe \/ Rollback \/ Crash
    \/ \E l \in Jobs : JobRestarts(l)

Spec == Init /\ [][Next]_ldVars

------------------------------------------------------------------------------

\* Whatever build fails or is cut by a crash, a job is never started from a binary
\* that is not whole.
LinkIsWhole == link # None => bin[link] = "whole"

\* A rollout that ends as applied, or as rolled back, leaves every job on that one
\* release, whichever kickstarts failed and whatever jobs restarted on the way.
EndsOnOneRelease ==
    LET last == ldPast.last IN
    pass.at = "idle" /\ last.rep \in {"applied", "rolled_back"}
        => \A l \in Jobs : job[l] = IF last.rep = "applied" THEN last.want ELSE last.prev

\* What the jobs run is whole, and one release once a rollout has ended.
PlatformIsTrue == LinkIsWhole /\ EndsOnOneRelease
==============================================================================
