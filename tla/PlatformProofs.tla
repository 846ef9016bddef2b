--------------------------- MODULE PlatformProofs ---------------------------
(***************************************************************************)
(* Proofs about what the platform runs: the deploys that the king approves *)
(* and the actuator rolls out (Deploy), the jobs of a rollout on launchd   *)
(* (Launchd), and the containers that the controller runs for workload     *)
(* requests (Workloads); for every history of commits, builds, requests,   *)
(* faults and crashes.                                                     *)
(***************************************************************************)
EXTENDS Parts, Naturals, Sequences, SequenceTheorems, FiniteSetTheorems, TLAPS

Digest == Builds \cup {DB!Bare}
Known == Commits \cup {DB!None}
Releases == [commit : Known, digest : Digest]

(* The types of what serve keeps, and of the actuator and its platform.    *)
LineType == trunk \in [master : Nat, stopped : BOOLEAN, attested : Nat, pulls : Nat]
ServeType ==
    /\ requests \in [Commits -> [st : {"none", "asked", "approved"}, digest : Digest]]
    /\ desired \in Known
    /\ outcome \in [commit : Known, state : {"none", "applied", "rolled_back", "failed"}]
ActType ==
    act \in [at : {"idle", "apply", "probe", "rollback", "report"}, want : Releases,
             prev : Releases, rep : {"none", "applied", "rolled_back", "failed"}, settled : Known]
PlatformType == platform \in [runs : Releases, healthy : {"yes", "no", "unknown"}]
PastType ==
    past \in [approved : SUBSET Releases, stuck : SUBSET Known, crashes : Nat, midway : BOOLEAN]

TypeOK == LineType /\ ServeType /\ ActType /\ PlatformType /\ PastType

(* What the king approved, or what ran at first.                           *)
Approved == past.approved \cup {DB!NoRelease}

(* Every release on its way to the platform, or back, is an approved one.  *)
OnlyApproved ==
    /\ \A c \in Commits : requests[c].st = "approved" => DB!Release(c, requests[c].digest) \in Approved
    /\ platform.runs \in Approved /\ act.want \in Approved /\ act.prev \in Approved

(* Approvals go forward, and no status is of a release not yet desired.    *)
InOrder == outcome.commit <= desired /\ desired <= trunk.master

(* What is probed, or reported as applied, is the release that runs.       *)
SuccessIsReal ==
    act.at = "probe" \/ (act.at = "report" /\ act.rep = "applied") => platform.runs = act.want

(* Once serve has the success of the desired release, that release runs,   *)
(* and the actuator has no other to apply or to go back to.                *)
AppliedHolds ==
    outcome.commit = desired /\ outcome.state = "applied" =>
        /\ platform.runs.commit = desired
        /\ act.at \in {"apply", "probe", "rollback"} => act.prev.commit = desired /\ act.want.commit = desired

DeployInv == TypeOK /\ OnlyApproved /\ InOrder /\ SuccessIsReal /\ AppliedHolds

(* Releases are records, the desired one is an approved one of `desired`.  *)
LEMMA NoReleaseType == DB!NoRelease \in Releases /\ DB!NoRelease.commit = DB!None
BY DEF DB!NoRelease, DB!Release, Releases, Known, Digest

LEMMA RestingType ==
    ASSUME NEW c \in Known
    PROVE  /\ DB!Resting(c) \in [at : {"idle", "apply", "probe", "rollback", "report"}, want : Releases,
                              prev : Releases, rep : {"none", "applied", "rolled_back", "failed"},
                              settled : Known]
           /\ DB!Resting(c).at = "idle" /\ DB!Resting(c).want = DB!NoRelease /\ DB!Resting(c).prev = DB!NoRelease
           /\ DB!Resting(c).rep = "none" /\ DB!Resting(c).settled = c
BY NoReleaseType DEF DB!Resting

LEMMA CommitsNumbered ==
    ASSUME DeployInv, Commits \subseteq Nat
    PROVE  /\ outcome.commit \in Nat /\ desired \in Nat /\ trunk.master \in Nat
           /\ outcome.commit <= desired /\ desired <= trunk.master
<1>1. Known \subseteq Nat
  BY DEF Known, DB!None
<1>2. outcome.commit \in Known /\ desired \in Known /\ trunk.master \in Nat
  BY DEF DeployInv, TypeOK, ServeType, LineType
<1> QED BY <1>1, <1>2 DEF DeployInv, InOrder

LEMMA DesiredIsApproved ==
    ASSUME DeployInv, DB!DesiredRelease # DB!NoRelease
    PROVE  /\ DB!DesiredRelease \in Releases /\ DB!DesiredRelease \in Approved
           /\ DB!DesiredRelease.commit = desired /\ desired \in Commits
<1>1. /\ desired # DB!None /\ requests[desired].st = "approved"
      /\ DB!DesiredRelease = DB!Release(desired, requests[desired].digest)
  BY DEF DB!DesiredRelease
<1>2. desired \in Commits /\ requests[desired].digest \in Digest
  BY <1>1 DEF DeployInv, TypeOK, ServeType, Known
<1> QED BY <1>1, <1>2 DEF DB!Release, Releases, Known, DeployInv, OnlyApproved

(* A step of the line, or of the requests, leaves what runs as it was.     *)
LEMMA LineInv ==
    ASSUME DeployInv, DB!Merge \/ DB!Attest \/ DB!Andon, Commits \subseteq Nat
    PROVE  DeployInv'
<1>1. UNCHANGED <<requests, desired, outcome, act, platform, past>>
  BY DEF DB!Merge, DB!Attest, DB!Andon
<1>2. trunk'.master \in Nat /\ trunk'.master >= trunk.master /\ LineType'
  <2>1. trunk \in [master : Nat, stopped : BOOLEAN, attested : Nat, pulls : Nat]
    BY DEF DeployInv, TypeOK, LineType
  <2>2. CASE trunk' = [trunk EXCEPT !.master = @ + 1]
    BY <2>1, <2>2 DEF LineType
  <2>3. CASE trunk' = [trunk EXCEPT !.attested = trunk.master]
    BY <2>1, <2>3 DEF LineType
  <2>4. ASSUME NEW n \in Nat, NEW b \in BOOLEAN, trunk' = [trunk EXCEPT !.stopped = b, !.pulls = n]
        PROVE  trunk'.master = trunk.master /\ LineType'
    BY <2>1, <2>4 DEF LineType
  <2>5. (IF trunk.stopped THEN trunk.pulls ELSE trunk.pulls + 1) \in Nat /\ (~trunk.stopped) \in BOOLEAN
    BY <2>1
  <2>6. CASE DB!Andon
    <3>1. trunk' = [trunk EXCEPT !.stopped = ~trunk.stopped,
                               !.pulls = IF trunk.stopped THEN trunk.pulls ELSE trunk.pulls + 1]
      BY <2>6 DEF DB!Andon
    <3>2. trunk'.master = trunk.master /\ LineType'
      BY <2>4, <2>5, <3>1
    <3> QED BY <2>1, <3>2
  <2> QED BY <2>2, <2>3, <2>6 DEF DB!Merge, DB!Attest
<1>3. desired \in Nat /\ trunk.master \in Nat /\ outcome.commit \in Nat
  BY CommitsNumbered
<1>4. InOrder'
  BY <1>1, <1>2, <1>3 DEF DeployInv, InOrder
<1>5. OnlyApproved' /\ SuccessIsReal' /\ AppliedHolds'
  BY <1>1 DEF DeployInv, OnlyApproved, Approved, SuccessIsReal, AppliedHolds
<1>6. TypeOK'
  BY <1>1, <1>2 DEF DeployInv, TypeOK, ServeType, ActType, PlatformType, PastType
<1> QED BY <1>4, <1>5, <1>6 DEF DeployInv

LEMMA RequestInv ==
    ASSUME DeployInv, Commits \subseteq Nat, NEW c \in Commits,
           DB!RequestDeploy(c) \/ DB!StoreRequest(c) \/ DB!ApproveDeploy(c)
    PROVE  DeployInv'
<1>0. UNCHANGED <<trunk, outcome, act, platform>>
  BY DEF DB!RequestDeploy, DB!StoreRequest, DB!ApproveDeploy
<1>1. ASSUME UNCHANGED <<desired, past>>, ServeType',
             \A k \in Commits : requests'[k].st = "approved" => requests'[k] = requests[k]
      PROVE  DeployInv'
  BY <1>0, <1>1 DEF DeployInv, OnlyApproved, Approved, SuccessIsReal, AppliedHolds, InOrder, TypeOK,
                    LineType, ActType, PlatformType, PastType
<1>2. CASE UNCHANGED <<requests, desired, past>>
  BY <1>0, <1>1, <1>2 DEF DeployInv, TypeOK, ServeType
<1>3. ASSUME NEW d \in Digest, UNCHANGED <<desired, past>>,
             requests' = [requests EXCEPT ![c] = [st |-> "asked", digest |-> d]]
      PROVE  DeployInv'
  <2>1. ServeType'
    BY <1>0, <1>3 DEF DeployInv, TypeOK, ServeType
  <2>2. \A k \in Commits : requests'[k].st = "approved" => requests'[k] = requests[k]
    BY <1>3 DEF DeployInv, TypeOK, ServeType
  <2> QED BY <1>1, <1>3, <2>1, <2>2
<1>4. CASE DB!ApproveDeploy(c)
  <2>0. requests \in [Commits -> [st : {"none", "asked", "approved"}, digest : Digest]]
    BY DEF DeployInv, TypeOK, ServeType
  <2>1. /\ c = trunk.master /\ desired' = c
        /\ requests' = [requests EXCEPT ![c].st = "approved"]
        /\ past' = [past EXCEPT !.approved = @ \cup {DB!Release(c, requests[c].digest)}]
    BY <1>4 DEF DB!ApproveDeploy
  <2>2. /\ requests'[c].digest = requests[c].digest
        /\ \A k \in Commits \ {c} : requests'[k] = requests[k]
        /\ requests' \in [Commits -> [st : {"none", "asked", "approved"}, digest : Digest]]
    BY <2>0, <2>1
  <2>3. DB!Release(c, requests[c].digest) \in Releases
    BY <2>0 DEF DB!Release, Releases, Known
  <2>4. past'.approved = past.approved \cup {DB!Release(c, requests[c].digest)} /\ PastType'
    BY <2>1, <2>3 DEF DeployInv, TypeOK, PastType
  <2>5. OnlyApproved'
    BY <1>0, <2>2, <2>4 DEF DeployInv, OnlyApproved, Approved
  <2>6. /\ outcome.commit \in Nat /\ desired \in Nat /\ trunk.master \in Nat
        /\ outcome.commit <= desired /\ desired <= trunk.master
    BY CommitsNumbered
  <2>7. outcome.commit = desired' => desired' = desired
    BY <2>1, <2>6
  <2>8. InOrder' /\ AppliedHolds' /\ SuccessIsReal'
    BY <1>0, <2>1, <2>6, <2>7 DEF DeployInv, InOrder, AppliedHolds, SuccessIsReal
  <2>9. TypeOK'
    BY <1>0, <2>1, <2>2, <2>4 DEF DeployInv, TypeOK, LineType, ServeType, ActType, PlatformType, Known
  <2> QED BY <2>5, <2>8, <2>9 DEF DeployInv
<1> QED BY <1>2, <1>3, <1>4 DEF DB!RequestDeploy, DB!StoreRequest, Digest

-----------------------------------------------------------------------------
(* A step of the actuator: what it wants and came from stays approved, and *)
(* once the desired release is applied it stays so.                        *)
LEMMA ActuatorInv ==
    ASSUME DeployInv, UNCHANGED <<trunk, requests, desired, outcome>>,
           ActType', PlatformType', PastType', past'.approved = past.approved,
           platform'.runs \in Approved, act'.want \in Approved, act'.prev \in Approved,
           SuccessIsReal', AppliedHolds'
    PROVE  DeployInv'
BY DEF DeployInv, OnlyApproved, Approved, InOrder, TypeOK, LineType, ServeType

LEMMA PullInv ==
    ASSUME DeployInv, DB!ActPull
    PROVE  DeployInv'
<1> DEFINE want == DB!DesiredRelease
           settled == DB!Resting(want.commit)
<1>0. UNCHANGED <<trunk, requests, desired, outcome, platform, past>> /\ DB!DesiredRelease # DB!NoRelease
  BY DEF DB!ActPull
<1>1. want \in Releases /\ want \in Approved /\ want.commit = desired /\ want.commit \in Known
  BY <1>0, DesiredIsApproved DEF Known
<1>2. /\ settled \in [at : {"idle", "apply", "probe", "rollback", "report"}, want : Releases,
                      prev : Releases, rep : {"none", "applied", "rolled_back", "failed"},
                      settled : Known]
      /\ settled.at = "idle" /\ settled.want = DB!NoRelease /\ settled.prev = DB!NoRelease
      /\ settled.rep = "none"
  BY <1>1, RestingType
<1>3. PlatformType' /\ PastType' /\ platform.runs \in Releases /\ platform.runs \in Approved
  BY <1>0 DEF DeployInv, TypeOK, PlatformType, PastType, OnlyApproved
<1>4. DB!NoRelease \in Approved
  BY DEF Approved
<1>5. \/ act' = [settled EXCEPT !.at = "report", !.want = want, !.rep = "failed"]
      \/ act' = settled
      \/ act' = [settled EXCEPT !.at = "apply", !.want = want, !.prev = platform.runs]
  BY DEF DB!ActPull
<1> HIDE DEF want, settled
<1>6. ActType' /\ act'.want \in {want, DB!NoRelease} /\ act'.prev \in {platform.runs, DB!NoRelease}
  BY <1>1, <1>2, <1>3, <1>5 DEF ActType
<1>7. /\ act'.rep # "applied"
      /\ act'.at \in {"idle", "report"} \/ (act'.want = want /\ act'.prev = platform.runs /\ act'.at = "apply")
  BY <1>2, <1>5
<1>8. SuccessIsReal' /\ AppliedHolds'
  BY <1>0, <1>1, <1>7 DEF SuccessIsReal, AppliedHolds, DeployInv
<1> QED BY <1>0, <1>1, <1>3, <1>4, <1>6, <1>8, ActuatorInv

LEMMA RolloutInv ==
    ASSUME DeployInv, DB!ActApply \/ DB!ActProbe \/ DB!ActRollback
    PROVE  DeployInv'
<1>0. /\ UNCHANGED <<trunk, requests, desired, outcome>>
      /\ act.want \in Releases /\ act.prev \in Releases
      /\ act.want \in Approved /\ act.prev \in Approved /\ platform.runs \in Approved
      /\ ActType /\ PlatformType /\ PastType
      /\ act.at \in {"apply", "probe", "rollback"}
  BY DEF DB!ActApply, DB!ActProbe, DB!ActRollback, DeployInv, TypeOK, ActType, PlatformType, PastType, OnlyApproved
<1>1. /\ ActType' /\ PlatformType' /\ act'.want = act.want /\ act'.prev = act.prev
      /\ platform'.runs \in {platform.runs, act.want, act.prev}
  BY <1>0 DEF DB!ActApply, DB!ActProbe, DB!ActRollback, ActType, PlatformType
<1>2. PastType' /\ past'.approved = past.approved
  BY <1>0 DEF DB!ActApply, DB!ActProbe, DB!ActRollback, PastType, ActType, Releases, Known
<1>3. AppliedHolds' /\ SuccessIsReal'
  BY <1>0, <1>1 DEF AppliedHolds, SuccessIsReal, DeployInv, DB!ActApply, DB!ActProbe, DB!ActRollback,
                    ActType, PlatformType
<1> QED BY <1>0, <1>1, <1>2, <1>3, ActuatorInv

(* The report: serve has the success only of the release that runs.        *)
LEMMA ReportInv ==
    ASSUME DeployInv, DB!ActReport, Commits \subseteq Nat
    PROVE  DeployInv'
<1>0. /\ UNCHANGED <<trunk, requests, desired, platform, past>> /\ act.at = "report"
      /\ act' = DB!Resting(act.settled) /\ act \in [at : {"idle", "apply", "probe", "rollback", "report"},
           want : Releases, prev : Releases, rep : {"none", "applied", "rolled_back", "failed"},
           settled : Known]
      /\ outcome' \in {outcome, DB!Recorded(act.want.commit, act.rep)}
  BY DEF DB!ActReport, DeployInv, TypeOK, ActType
<1>1. /\ act.want.commit \in Known /\ act.settled \in Known
      /\ act.rep \in {"none", "applied", "rolled_back", "failed"}
  BY <1>0 DEF Releases
<1>2. ActType' /\ act'.at = "idle" /\ act'.want = DB!NoRelease /\ act'.prev = DB!NoRelease
  BY <1>0, <1>1, RestingType DEF ActType
<1>3. \/ outcome' = outcome
      \/ outcome' = [commit |-> desired, state |-> act.rep] /\ act.want.commit = desired
  BY <1>0 DEF DB!Recorded
<1>4. ServeType' /\ outcome'.commit \in {outcome.commit, desired}
  BY <1>0, <1>1, <1>3 DEF DeployInv, TypeOK, ServeType
<1>5. InOrder'
  BY <1>0, <1>4, CommitsNumbered DEF InOrder
<1>6. outcome'.state = "applied" /\ outcome'.commit = desired => platform.runs.commit = desired
  BY <1>0, <1>3 DEF DeployInv, AppliedHolds, SuccessIsReal
<1>7. SuccessIsReal' /\ AppliedHolds'
  BY <1>0, <1>2, <1>6 DEF SuccessIsReal, AppliedHolds
<1>8. OnlyApproved'
  BY <1>0, <1>2 DEF DeployInv, OnlyApproved, Approved
<1> QED BY <1>0, <1>2, <1>4, <1>5, <1>7, <1>8 DEF DeployInv, TypeOK, LineType, PlatformType, PastType

(* A restarted actuator has forgotten what it settled on.                  *)
LEMMA CrashInv ==
    ASSUME DeployInv, DB!ActCrash
    PROVE  DeployInv'
<1>0. /\ UNCHANGED <<trunk, requests, desired, outcome, platform>> /\ act' = DB!Resting(DB!None)
      /\ past \in [approved : SUBSET Releases, stuck : SUBSET Known, crashes : Nat, midway : BOOLEAN]
      /\ past' = [past EXCEPT !.crashes = @ + 1,
                              !.midway = @ \/ act.at \in {"apply", "probe", "rollback"}]
  BY DEF DB!ActCrash, DeployInv, TypeOK, PastType
<1>1. PastType' /\ past'.approved = past.approved
  <2>1. ASSUME NEW n \in Nat, NEW b \in BOOLEAN, past' = [past EXCEPT !.crashes = n, !.midway = b]
        PROVE  PastType' /\ past'.approved = past.approved
    BY <1>0, <2>1 DEF PastType
  <2>2. /\ past.crashes + 1 \in Nat
        /\ (past.midway \/ act.at \in {"apply", "probe", "rollback"}) \in BOOLEAN
    BY <1>0
  <2>3. past' = [past EXCEPT !.crashes = past.crashes + 1,
                             !.midway = past.midway \/ act.at \in {"apply", "probe", "rollback"}]
    BY <1>0
  <2> QED BY <2>1, <2>2, <2>3
<1>2. ActType' /\ act'.at = "idle" /\ act'.want = DB!NoRelease /\ act'.prev = DB!NoRelease
  BY <1>0, RestingType DEF ActType, Known
<1>3. PlatformType' /\ platform'.runs \in Approved /\ DB!NoRelease \in Approved
  BY <1>0 DEF DeployInv, TypeOK, PlatformType, OnlyApproved, Approved
<1>4. SuccessIsReal' /\ AppliedHolds'
  BY <1>0, <1>2 DEF SuccessIsReal, AppliedHolds, DeployInv
<1> QED BY <1>0, <1>1, <1>2, <1>3, <1>4, ActuatorInv

LEMMA DeployInit == DB!Init => DeployInv
<1> SUFFICES ASSUME DB!Init PROVE DeployInv
  OBVIOUS
<1>1. /\ act.at = "idle" /\ act.want = DB!NoRelease /\ act.prev = DB!NoRelease /\ ActType
      /\ platform.runs = DB!NoRelease /\ DB!NoRelease \in Releases /\ outcome.state = "none"
  BY RestingType, NoReleaseType DEF DB!Init, ActType, Known, DB!NoOutcome
<1>2. TypeOK
  BY <1>1 DEF DB!Init, TypeOK, LineType, ServeType, PlatformType, PastType, DB!NoRequest, DB!NoOutcome,
              Known, Digest, DB!None
<1>3. OnlyApproved
  BY <1>1 DEF DB!Init, OnlyApproved, Approved, DB!NoRequest
<1>4. InOrder /\ SuccessIsReal /\ AppliedHolds
  BY <1>1 DEF DB!Init, InOrder, SuccessIsReal, AppliedHolds, DB!NoOutcome, DB!None
<1> QED BY <1>2, <1>3, <1>4 DEF DeployInv

(* The platform runs only the very build the king approved, and when serve *)
(* says the desired release is applied and the actuator rests, that        *)
(* release runs: whatever is built twice, lost, rolled back or restarted.  *)
THEOREM DeploysAreTrue ==
    ASSUME Commits \subseteq Nat
    PROVE  DB!Spec => []DB!PlatformIsTrue
<1>1. ASSUME DeployInv, [DB!Next]_DB!dpVars PROVE DeployInv'
  <2>1. CASE UNCHANGED DB!dpVars
    BY <1>1, <2>1 DEF DB!dpVars, DeployInv, OnlyApproved, Approved, SuccessIsReal, AppliedHolds, InOrder,
                      TypeOK, LineType, ServeType, ActType, PlatformType, PastType
  <2> QED BY <1>1, <2>1, LineInv, RequestInv, PullInv, RolloutInv, ReportInv, CrashInv
          DEF DB!Next, DB!Actuate
<1>2. ASSUME DeployInv PROVE DB!PlatformIsTrue
  <2>1. act.at = "idle" /\ outcome.commit = desired /\ outcome.state = "applied"
          => platform.runs.commit = outcome.commit
    BY <1>2 DEF DeployInv, AppliedHolds
  <2> QED BY <1>2, <2>1 DEF DB!PlatformIsTrue, DB!PlatformIsApproved, DB!AppliedIsRunning, DeployInv, OnlyApproved,
                            Approved
<1> QED BY <1>1, <1>2, DeployInit, PTL DEF DB!Spec

-----------------------------------------------------------------------------
(* The jobs on launchd.                                                    *)
Jobs == LD!Jobs
Targets == JobCommits \cup {LD!None}
Steps == {"idle", "apply", "build", "activate", "kick", "probe", "rollback"}
Ends == {"none", "applied", "rolled_back", "failed"}

BinType == bin \in [JobCommits -> {"none", "whole"}]
JobType == wanted \in Targets /\ link \in Targets /\ job \in [Jobs -> Targets]
RolloutType ==
    rollout \in [at : Steps, want : Targets, prev : Targets, target : Targets, next : Nat,
                 failed : BOOLEAN, settled : Targets]
LdPastType == ldPast \in [last : [rep : Ends, want : Targets, prev : Targets], crashes : Nat]

JobsTypeOK == BinType /\ JobType /\ RolloutType /\ LdPastType

AllOn(c) == \A l \in Jobs : job[l] = c

LinkWhole == link # LD!None => bin[link] = "whole"

(* What a rollout has in hand at each of its steps: a binary that is whole *)
(* before the link is swapped to it, and the jobs kickstarted so far.      *)
RolloutHolds ==
    /\ rollout.at # "idle" => rollout.want \in JobCommits /\ rollout.want # rollout.prev
    /\ rollout.at = "build" => rollout.target = rollout.want
    /\ rollout.at = "activate" => rollout.target \in JobCommits /\ bin[rollout.target] = "whole"
    /\ rollout.at \in {"activate", "kick"} => rollout.target \in {rollout.want, rollout.prev}
    /\ rollout.at \in {"kick", "probe"} => rollout.target = link
    /\ rollout.at = "kick" =>
         /\ rollout.next \in 1..(Len(Labels) + 1)
         /\ ~rollout.failed => \A i \in 1..(rollout.next - 1) : job[Labels[i]] = link
    /\ rollout.at = "probe" => rollout.target = rollout.want /\ AllOn(link)

(* What the last rollout to end left.                                      *)
EndHolds ==
    rollout.at = "idle" =>
        /\ ldPast.last.rep = "applied" => link = ldPast.last.want /\ AllOn(link)
        /\ ldPast.last.rep = "rolled_back" => link = ldPast.last.prev /\ AllOn(link)

JobsInv == JobsTypeOK /\ LinkWhole /\ RolloutHolds /\ EndHolds

Idle(s) == LD!Resting(s)

LEMMA IdleType ==
    ASSUME NEW s \in Targets
    PROVE  /\ Idle(s) \in [at : Steps, want : Targets, prev : Targets, target : Targets, next : Nat,
                           failed : BOOLEAN, settled : Targets]
           /\ Idle(s).at = "idle" /\ Idle(s).settled = s
BY DEF Idle, LD!Resting, Steps, Targets

LEMMA JobsFacts ==
    ASSUME JobsInv
    PROVE  /\ rollout \in [at : Steps, want : Targets, prev : Targets, target : Targets, next : Nat,
                           failed : BOOLEAN, settled : Targets]
           /\ rollout.want \in Targets /\ rollout.prev \in Targets /\ rollout.settled \in Targets
           /\ LD!None \in Targets
           /\ wanted \in Targets /\ link \in Targets
BY DEF JobsInv, JobsTypeOK, RolloutType, JobType, Targets

(* A rollout that ends without a success leaves nothing to hold.           *)
LEMMA EndInv ==
    ASSUME JobsInv, UNCHANGED <<wanted, bin, link, job>>, NEW s \in Targets, rollout' = Idle(s),
           LdPastType', ldPast'.last.rep \notin {"applied", "rolled_back"}
    PROVE  JobsInv'
<1>1. RolloutType' /\ rollout'.at = "idle"
  BY IdleType DEF RolloutType
<1> QED BY <1>1 DEF JobsInv, JobsTypeOK, BinType, JobType, LinkWhole, RolloutHolds, EndHolds, AllOn

(* A rollout goes on: only what it holds at its next step is to be shown.  *)
LEMMA OnInv ==
    ASSUME JobsInv, UNCHANGED <<wanted, ldPast>>, BinType', JobType', RolloutType',
           rollout'.at # "idle", LinkWhole', RolloutHolds'
    PROVE  JobsInv'
BY DEF JobsInv, JobsTypeOK, LdPastType, EndHolds

(* The end of a rollout, as serve is told of it.                           *)
LEMMA EndedType ==
    ASSUME JobsInv, NEW rep \in Ends
    PROVE  /\ LD!Ended(rep) \in [last : [rep : Ends, want : Targets, prev : Targets], crashes : Nat]
           /\ LD!Ended(rep).last = [rep |-> rep, want |-> rollout.want, prev |-> rollout.prev]
BY JobsFacts DEF LD!Ended, JobsInv, JobsTypeOK, LdPastType

(* An activation fails: to the rollback, or the rollback has failed too.   *)
LEMMA FailsInv ==
    ASSUME JobsInv, UNCHANGED <<wanted, bin, link, job>>, LD!Fails, LD!Failed,
           rollout.at \in {"activate", "kick"}
    PROVE  JobsInv'
<1>1. CASE LD!Rolled
  <2>1. rollout' = Idle(rollout.settled) /\ ldPast' = LD!Ended("failed")
    BY <1>1 DEF LD!Fails, LD!Failed, Idle
  <2>2. LdPastType' /\ ldPast'.last.rep = "failed"
    BY <2>1, EndedType DEF LdPastType, Ends
  <2> QED BY <2>1, <2>2, JobsFacts, EndInv
<1>2. CASE ~LD!Rolled
  <2>1. rollout' = [rollout EXCEPT !.at = "rollback"] /\ ldPast' = ldPast
    BY <1>2 DEF LD!Fails, LD!Failed
  <2>2. RolloutType' /\ rollout'.at = "rollback" /\ rollout'.want = rollout.want
        /\ rollout'.prev = rollout.prev
    BY <2>1, JobsFacts DEF RolloutType, Steps
  <2>3. BinType' /\ JobType' /\ LinkWhole'
    BY DEF JobsInv, JobsTypeOK, BinType, JobType, LinkWhole
  <2>4. RolloutHolds'
    BY <2>2 DEF JobsInv, RolloutHolds
  <2> QED BY <2>1, <2>2, <2>3, <2>4, OnInv
<1> QED BY <1>1, <1>2

LEMMA StartInv ==
    ASSUME JobsInv, LD!Approve \/ LD!Pull \/ LD!Apply
    PROVE  JobsInv'
<1>1. CASE LD!Approve
  <2>1. wanted' \in Targets /\ UNCHANGED <<bin, link, job, rollout, ldPast>>
    BY <1>1 DEF LD!Approve, Targets
  <2> QED BY <2>1 DEF JobsInv, JobsTypeOK, BinType, JobType, RolloutType, LdPastType, LinkWhole,
                      RolloutHolds, EndHolds, AllOn
<1>2. CASE LD!Pull
  <2>0. /\ UNCHANGED <<wanted, bin, link, job, ldPast>> /\ rollout.at = "idle"
        /\ wanted \in JobCommits
    BY <1>2, JobsFacts DEF LD!Pull, Targets
  <2>1. Idle(wanted) \in [at : Steps, want : Targets, prev : Targets, target : Targets, next : Nat,
                          failed : BOOLEAN, settled : Targets] /\ Idle(wanted).at = "idle"
    BY IdleType, JobsFacts
  <2>2. BinType' /\ JobType' /\ LinkWhole'
    BY <2>0 DEF JobsInv, JobsTypeOK, BinType, JobType, LinkWhole
  <2>3. CASE rollout' = Idle(wanted)
    <3>1. RolloutType' /\ rollout'.at = "idle"
      BY <2>1, <2>3 DEF RolloutType
    <3>2. EndHolds' /\ RolloutHolds' /\ LdPastType'
      BY <2>0, <3>1 DEF JobsInv, JobsTypeOK, EndHolds, AllOn, RolloutHolds, LdPastType
    <3> QED BY <2>2, <3>1, <3>2 DEF JobsInv, JobsTypeOK
  <2>4. CASE link # wanted /\ rollout' = [Idle(wanted) EXCEPT !.at = "apply", !.want = wanted, !.prev = link]
    <3> DEFINE i == Idle(wanted)
    <3>1. i \in [at : Steps, want : Targets, prev : Targets, target : Targets, next : Nat,
                 failed : BOOLEAN, settled : Targets]
      BY <2>1
    <3>2. rollout' = [i EXCEPT !.at = "apply", !.want = wanted, !.prev = link]
      BY <2>4
    <3> HIDE DEF i
    <3>3. RolloutType' /\ rollout'.at = "apply" /\ rollout'.want = wanted /\ rollout'.prev = link
      BY <3>1, <3>2, JobsFacts DEF RolloutType, Steps
    <3>4. RolloutHolds'
      BY <2>0, <2>4, <3>3 DEF RolloutHolds
    <3> QED BY <2>0, <2>2, <3>3, <3>4, OnInv
  <2> QED BY <1>2, <2>3, <2>4 DEF LD!Pull, Idle
<1>3. CASE LD!Apply
  <2>0. UNCHANGED <<wanted, bin, link, job, ldPast>> /\ rollout.at = "apply"
    BY <1>3 DEF LD!Apply
  <2>1. rollout.want \in JobCommits /\ rollout.want # rollout.prev /\ bin \in [JobCommits -> {"none", "whole"}]
    BY <2>0 DEF JobsInv, RolloutHolds, JobsTypeOK, BinType
  <2>2. PICK at \in {"build", "activate"} :
           /\ rollout' = [rollout EXCEPT !.at = at, !.target = rollout.want]
           /\ at = "activate" => bin[rollout.want] = "whole"
    BY <1>3, <2>1 DEF LD!Apply
  <2>3. RolloutType' /\ rollout'.at = at /\ rollout'.target = rollout.want
        /\ rollout'.want = rollout.want /\ rollout'.prev = rollout.prev
    BY <2>2, JobsFacts DEF RolloutType, Steps
  <2>4. BinType' /\ JobType' /\ LinkWhole'
    BY <2>0 DEF JobsInv, JobsTypeOK, BinType, JobType, LinkWhole
  <2>5. RolloutHolds'
    BY <2>0, <2>1, <2>2, <2>3 DEF RolloutHolds
  <2> QED BY <2>0, <2>3, <2>4, <2>5, OnInv
<1> QED BY <1>1, <1>2, <1>3

(* A binary appears whole, or the rollout goes back.                       *)
LEMMA BuildInv ==
    ASSUME JobsInv, LD!Build
    PROVE  JobsInv'
<1>0. UNCHANGED <<wanted, link, job, ldPast>> /\ rollout.at = "build"
  BY DEF LD!Build
<1>1. /\ rollout.want \in JobCommits /\ rollout.want # rollout.prev /\ rollout.target = rollout.want
      /\ bin \in [JobCommits -> {"none", "whole"}]
  BY <1>0 DEF JobsInv, RolloutHolds, JobsTypeOK, BinType
<1>2. PICK at \in {"activate", "rollback"} :
         /\ rollout' = [rollout EXCEPT !.at = at]
         /\ bin' = bin \/ bin' = [bin EXCEPT ![rollout.want] = "whole"]
         /\ at = "activate" => bin' = [bin EXCEPT ![rollout.want] = "whole"]
  BY DEF LD!Build
<1>3. RolloutType' /\ rollout'.at = at /\ rollout'.target = rollout.target
      /\ rollout'.want = rollout.want /\ rollout'.prev = rollout.prev
  BY <1>2, JobsFacts DEF RolloutType, Steps
<1>4. BinType' /\ (at = "activate" => bin'[rollout.want] = "whole")
      /\ \A c \in JobCommits : bin[c] = "whole" => bin'[c] = "whole"
  BY <1>1, <1>2 DEF BinType
<1>5. JobType' /\ LinkWhole'
  BY <1>0, <1>4 DEF JobsInv, JobsTypeOK, JobType, LinkWhole, Targets
<1>6. RolloutHolds'
  BY <1>1, <1>3, <1>4 DEF RolloutHolds
<1> QED BY <1>0, <1>3, <1>4, <1>5, <1>6, OnInv

LEMMA ActivateInv ==
    ASSUME JobsInv, LD!Activate, Labels \in Seq(Jobs)
    PROVE  JobsInv'
<1>0. UNCHANGED <<wanted, bin, job>> /\ rollout.at = "activate" /\ Len(Labels) \in Nat
  BY LenProperties DEF LD!Activate
<1>1. CASE LD!Fails /\ LD!Failed /\ UNCHANGED link
  BY <1>0, <1>1, FailsInv
<1>2. CASE /\ link' = rollout.target /\ ldPast' = ldPast
           /\ rollout' = [rollout EXCEPT !.at = "kick", !.next = 1, !.failed = FALSE]
  <2>1. /\ rollout.target \in JobCommits /\ bin[rollout.target] = "whole"
        /\ rollout.target \in {rollout.want, rollout.prev}
        /\ rollout.want \in JobCommits /\ rollout.want # rollout.prev
    BY <1>0 DEF JobsInv, RolloutHolds
  <2>2. RolloutType' /\ rollout'.at = "kick" /\ rollout'.next = 1 /\ rollout'.target = rollout.target
        /\ rollout'.want = rollout.want /\ rollout'.prev = rollout.prev
    BY <1>2, JobsFacts DEF RolloutType, Steps
  <2>3. BinType' /\ JobType' /\ LinkWhole'
    BY <1>0, <1>2, <2>1 DEF JobsInv, JobsTypeOK, BinType, JobType, LinkWhole, Targets
  <2>4. RolloutHolds'
    BY <1>0, <1>2, <2>1, <2>2 DEF RolloutHolds
  <2> QED BY <1>0, <1>2, <2>2, <2>3, <2>4, OnInv
<1> QED BY <1>1, <1>2 DEF LD!Activate

LEMMA KickInv ==
    ASSUME JobsInv, LD!Kickstart, Labels \in Seq(Jobs)
    PROVE  JobsInv'
<1>0. /\ UNCHANGED <<wanted, bin, link, ldPast>> /\ rollout.at = "kick"
      /\ Len(Labels) \in Nat /\ rollout.next \in 1..Len(Labels)
      /\ \A i \in 1..Len(Labels) : Labels[i] \in Jobs
      /\ job \in [Jobs -> Targets] /\ link \in Targets
  BY LenProperties, ElementOfSeq DEF LD!Kickstart, JobsInv, JobsTypeOK, JobType
<1>1. /\ rollout.target \in {rollout.want, rollout.prev} /\ rollout.target = link
      /\ rollout.want \in JobCommits /\ rollout.want # rollout.prev
      /\ ~rollout.failed => \A i \in 1..(rollout.next - 1) : job[Labels[i]] = link
  BY <1>0 DEF JobsInv, RolloutHolds
<1>2. BinType' /\ LinkWhole'
  BY <1>0 DEF JobsInv, JobsTypeOK, BinType, LinkWhole
<1>3. CASE job' = [job EXCEPT ![Labels[rollout.next]] = link] /\ rollout' = [rollout EXCEPT !.next = @ + 1]
  <2>1. RolloutType' /\ rollout'.at = "kick" /\ rollout'.next = rollout.next + 1
        /\ rollout'.target = rollout.target /\ rollout'.want = rollout.want
        /\ rollout'.prev = rollout.prev /\ rollout'.failed = rollout.failed
    BY <1>0, <1>3, JobsFacts DEF RolloutType
  <2>2. JobType'
    BY <1>0, <1>3 DEF JobsInv, JobsTypeOK, JobType
  <2>3. ~rollout.failed => \A i \in 1..rollout.next : job'[Labels[i]] = link
    BY <1>0, <1>1, <1>3
  <2>4. RolloutHolds'
    BY <1>0, <1>1, <2>1, <2>3 DEF RolloutHolds
  <2> QED BY <1>0, <1>2, <2>1, <2>2, <2>4, OnInv
<1>4. CASE job' = job /\ rollout' = [rollout EXCEPT !.next = @ + 1, !.failed = TRUE]
  <2>1. RolloutType' /\ rollout'.at = "kick" /\ rollout'.next = rollout.next + 1
        /\ rollout'.target = rollout.target /\ rollout'.want = rollout.want
        /\ rollout'.prev = rollout.prev /\ rollout'.failed
    <3>1. ASSUME NEW n \in Nat, NEW b \in BOOLEAN, rollout' = [rollout EXCEPT !.next = n, !.failed = b]
          PROVE  RolloutType' /\ rollout'.at = rollout.at /\ rollout'.next = n
                 /\ rollout'.target = rollout.target /\ rollout'.want = rollout.want
                 /\ rollout'.prev = rollout.prev /\ rollout'.failed = b
      BY <3>1, JobsFacts DEF RolloutType
    <3>2. rollout.next + 1 \in Nat
      BY JobsFacts DEF RolloutType
    <3>3. rollout' = [rollout EXCEPT !.next = rollout.next + 1, !.failed = TRUE]
      BY <1>4
    <3> QED BY <1>0, <3>1, <3>2, <3>3
  <2>2. JobType'
    BY <1>0, <1>4 DEF JobsInv, JobsTypeOK, JobType
  <2>3. RolloutHolds'
    BY <1>0, <1>1, <2>1 DEF RolloutHolds
  <2> QED BY <1>0, <1>2, <2>1, <2>2, <2>3, OnInv
<1> QED BY <1>3, <1>4 DEF LD!Kickstart

(* All labels were tried: one release, or back.                            *)
LEMMA KickedInv ==
    ASSUME JobsInv, LD!Kicked, Labels \in Seq(Jobs)
    PROVE  JobsInv'
<1>0. /\ UNCHANGED <<wanted, bin, link, job>> /\ rollout.at = "kick"
      /\ Len(Labels) \in Nat /\ rollout.next = Len(Labels) + 1
      /\ Jobs = {Labels[i] : i \in 1..Len(Labels)}
  BY LenProperties DEF LD!Kicked, JobsInv, RolloutHolds, Jobs, LD!Jobs
<1>1. /\ rollout.target \in {rollout.want, rollout.prev} /\ rollout.target = link
      /\ rollout.want \in JobCommits /\ rollout.want # rollout.prev
      /\ ~rollout.failed => AllOn(link)
  BY <1>0 DEF JobsInv, RolloutHolds, AllOn
<1>2. BinType' /\ JobType' /\ LinkWhole'
  BY <1>0 DEF JobsInv, JobsTypeOK, BinType, JobType, LinkWhole
<1>3. CASE rollout.failed
  BY <1>0, <1>3, FailsInv DEF LD!Kicked
<1>4. CASE ~rollout.failed /\ LD!Rolled
  <2>1. rollout' = Idle(rollout.settled) /\ ldPast' = LD!Ended("rolled_back")
    BY <1>4 DEF LD!Kicked, Idle
  <2>2. RolloutType' /\ rollout'.at = "idle"
    BY <2>1, IdleType, JobsFacts DEF RolloutType
  <2>3. LdPastType' /\ ldPast'.last.rep = "rolled_back" /\ ldPast'.last.prev = rollout.prev
    BY <2>1, EndedType DEF LdPastType, Ends
  <2>4. EndHolds' /\ RolloutHolds'
    BY <1>0, <1>1, <1>4, <2>2, <2>3 DEF EndHolds, AllOn, RolloutHolds, LD!Rolled
  <2> QED BY <1>2, <2>2, <2>3, <2>4 DEF JobsInv, JobsTypeOK
<1>5. CASE ~rollout.failed /\ ~LD!Rolled
  <2>1. rollout' = [rollout EXCEPT !.at = "probe"] /\ ldPast' = ldPast
    BY <1>5 DEF LD!Kicked
  <2>2. RolloutType' /\ rollout'.at = "probe" /\ rollout'.target = rollout.target
        /\ rollout'.want = rollout.want /\ rollout'.prev = rollout.prev
    BY <2>1, JobsFacts DEF RolloutType, Steps
  <2>3. RolloutHolds'
    BY <1>0, <1>1, <1>5, <2>2 DEF RolloutHolds, AllOn, LD!Rolled
  <2> QED BY <1>0, <1>2, <2>1, <2>2, <2>3, OnInv
<1> QED BY <1>3, <1>4, <1>5

LEMMA ProbeInv ==
    ASSUME JobsInv, LD!Probe
    PROVE  JobsInv'
<1>0. /\ UNCHANGED <<wanted, bin, link, job>> /\ rollout.at = "probe"
      /\ rollout.want \in JobCommits /\ rollout.want # rollout.prev
      /\ link = rollout.want /\ AllOn(link)
  BY DEF LD!Probe, JobsInv, RolloutHolds
<1>1. BinType' /\ JobType' /\ LinkWhole'
  BY <1>0 DEF JobsInv, JobsTypeOK, BinType, JobType, LinkWhole
<1>2. CASE rollout' = Idle(rollout.settled) /\ ldPast' = LD!Ended("applied")
  <2>1. RolloutType' /\ rollout'.at = "idle"
    BY <1>2, IdleType, JobsFacts DEF RolloutType
  <2>2. LdPastType' /\ ldPast'.last.rep = "applied" /\ ldPast'.last.want = rollout.want
    BY <1>2, EndedType DEF LdPastType, Ends
  <2>3. EndHolds' /\ RolloutHolds'
    BY <1>0, <2>1, <2>2 DEF EndHolds, AllOn, RolloutHolds
  <2> QED BY <1>1, <2>1, <2>2, <2>3 DEF JobsInv, JobsTypeOK
<1>3. CASE rollout' = [rollout EXCEPT !.at = "rollback"] /\ ldPast' = ldPast
  <2>1. RolloutType' /\ rollout'.at = "rollback" /\ rollout'.want = rollout.want
        /\ rollout'.prev = rollout.prev
    BY <1>3, JobsFacts DEF RolloutType, Steps
  <2>2. RolloutHolds'
    BY <1>0, <2>1 DEF RolloutHolds
  <2> QED BY <1>0, <1>1, <1>3, <2>1, <2>2, OnInv
<1> QED BY <1>2, <1>3 DEF LD!Probe, Idle

LEMMA RollbackInv ==
    ASSUME JobsInv, LD!Rollback
    PROVE  JobsInv'
<1>0. UNCHANGED <<wanted, bin, link, job>> /\ rollout.at = "rollback"
  BY DEF LD!Rollback
<1>1. rollout.want \in JobCommits /\ rollout.want # rollout.prev /\ bin \in [JobCommits -> {"none", "whole"}]
  BY <1>0 DEF JobsInv, RolloutHolds, JobsTypeOK, BinType
<1>2. CASE /\ rollout.prev # LD!None /\ bin[rollout.prev] # "none" /\ ldPast' = ldPast
           /\ rollout' = [rollout EXCEPT !.at = "activate", !.target = rollout.prev]
  <2>1. rollout.prev \in JobCommits /\ bin[rollout.prev] = "whole"
    BY <1>1, <1>2, JobsFacts DEF Targets
  <2>2. RolloutType' /\ rollout'.at = "activate" /\ rollout'.target = rollout.prev
        /\ rollout'.want = rollout.want /\ rollout'.prev = rollout.prev
    BY <1>2, JobsFacts DEF RolloutType, Steps
  <2>3. BinType' /\ JobType' /\ LinkWhole'
    BY <1>0 DEF JobsInv, JobsTypeOK, BinType, JobType, LinkWhole
  <2>4. RolloutHolds'
    BY <1>0, <1>1, <2>1, <2>2 DEF RolloutHolds
  <2> QED BY <1>0, <1>2, <2>2, <2>3, <2>4, OnInv
<1>3. CASE rollout' = Idle(rollout.settled) /\ ldPast' = LD!Ended("failed")
  <2>1. LdPastType' /\ ldPast'.last.rep = "failed"
    BY <1>3, EndedType DEF LdPastType, Ends
  <2> QED BY <1>0, <1>3, <2>1, JobsFacts, EndInv
<1> QED BY <1>2, <1>3, JobsFacts DEF LD!Rollback, Idle

(* The actuator dies: an interrupted rollout is nobody's, and a job that   *)
(* launchd starts again runs what the link leads to.                       *)
LEMMA JobsCrashInv ==
    ASSUME JobsInv, LD!Crash
    PROVE  JobsInv'
<1>0. /\ UNCHANGED <<wanted, bin, link, job>> /\ rollout' = Idle(LD!None)
      /\ ldPast \in [last : [rep : Ends, want : Targets, prev : Targets], crashes : Nat]
  BY JobsFacts DEF LD!Crash, Idle, JobsInv, JobsTypeOK, LdPastType
<1>1. /\ LdPastType' /\ ldPast'.last.want = ldPast.last.want /\ ldPast'.last.prev = ldPast.last.prev
      /\ ldPast'.last.rep = IF rollout.at = "idle" THEN ldPast.last.rep ELSE "none"
  <2>1. ASSUME NEW n \in Nat, NEW r \in Ends, ldPast' = [ldPast EXCEPT !.crashes = n, !.last.rep = r]
        PROVE  /\ LdPastType' /\ ldPast'.last.want = ldPast.last.want
               /\ ldPast'.last.prev = ldPast.last.prev /\ ldPast'.last.rep = r
    BY <1>0, <2>1 DEF LdPastType
  <2> DEFINE r == IF rollout.at = "idle" THEN ldPast.last.rep ELSE "none"
  <2>2. ldPast.crashes + 1 \in Nat /\ r \in Ends
    BY <1>0 DEF Ends
  <2>3. ldPast' = [ldPast EXCEPT !.crashes = ldPast.crashes + 1, !.last.rep = r]
    BY DEF LD!Crash
  <2> HIDE DEF r
  <2>4. LdPastType' /\ ldPast'.last.want = ldPast.last.want
        /\ ldPast'.last.prev = ldPast.last.prev /\ ldPast'.last.rep = r
    BY <2>1, <2>2, <2>3
  <2> QED BY <2>4 DEF r
<1>2. CASE rollout.at # "idle"
  BY <1>0, <1>1, <1>2, EndInv, JobsFacts
<1>3. CASE rollout.at = "idle"
  <2>1. RolloutType' /\ rollout'.at = "idle"
    BY <1>0, IdleType, JobsFacts DEF RolloutType
  <2> QED BY <1>0, <1>1, <1>3, <2>1
          DEF JobsInv, JobsTypeOK, BinType, JobType, LinkWhole, RolloutHolds, EndHolds, AllOn
<1> QED BY <1>2, <1>3

LEMMA JobRestartInv ==
    ASSUME JobsInv, NEW l \in Jobs, LD!JobRestarts(l), Labels \in Seq(Jobs)
    PROVE  JobsInv'
<1>0. /\ UNCHANGED <<wanted, bin, link, rollout, ldPast>> /\ job' = [job EXCEPT ![l] = link]
      /\ job \in [Jobs -> Targets] /\ link \in Targets
      /\ Len(Labels) \in Nat /\ \A i \in 1..Len(Labels) : Labels[i] \in Jobs
  BY LenProperties, ElementOfSeq DEF LD!JobRestarts, JobsInv, JobsTypeOK, JobType
<1>1. \A k \in Jobs : job[k] = link => job'[k] = link
  BY <1>0
<1>2. AllOn(link) => AllOn(link)'
  BY <1>0, <1>1 DEF AllOn
<1>3. JobsTypeOK' /\ LinkWhole' /\ EndHolds'
  BY <1>0, <1>2 DEF JobsInv, JobsTypeOK, BinType, JobType, RolloutType, LdPastType, LinkWhole, EndHolds
<1>4. rollout.at = "kick" => \A i \in 1..(rollout.next - 1) : Labels[i] \in Jobs
  BY <1>0 DEF JobsInv, RolloutHolds
<1>5. RolloutHolds'
  BY <1>0, <1>1, <1>2, <1>4 DEF JobsInv, RolloutHolds
<1> QED BY <1>3, <1>5 DEF JobsInv

LEMMA JobsInit == LD!Init => JobsInv
<1> SUFFICES ASSUME LD!Init PROVE JobsInv
  OBVIOUS
<1>1. LD!None \in Targets
  BY DEF Targets
<1>2. RolloutType /\ rollout.at = "idle"
  BY <1>1, IdleType DEF LD!Init, RolloutType, Idle
<1>3. BinType /\ JobType /\ LdPastType /\ link = LD!None /\ ldPast.last.rep = "none"
  BY <1>1 DEF LD!Init, BinType, JobType, LdPastType, Ends, Jobs
<1> QED BY <1>2, <1>3 DEF JobsInv, JobsTypeOK, LinkWhole, RolloutHolds, EndHolds

(* On launchd no job starts a binary that is cut, and a rollout that ends  *)
(* as applied or rolled back leaves every job on that one release:         *)
(* whatever build, kickstart or swap fails, and whatever restarts.         *)
THEOREM JobsAreTrue ==
    ASSUME Labels \in Seq(Jobs)
    PROVE  LD!Spec => []LD!PlatformIsTrue
<1>1. ASSUME JobsInv, [LD!Next]_LD!ldVars PROVE JobsInv'
  <2>1. CASE UNCHANGED LD!ldVars
    BY <1>1, <2>1 DEF LD!ldVars, JobsInv, JobsTypeOK, BinType, JobType, RolloutType, LdPastType,
                      LinkWhole, RolloutHolds, EndHolds, AllOn
  <2>2. ASSUME NEW l \in Jobs, LD!JobRestarts(l) PROVE JobsInv'
    BY <1>1, <2>2, JobRestartInv
  <2> QED BY <1>1, <2>1, <2>2, StartInv, BuildInv, ActivateInv, KickInv, KickedInv, ProbeInv,
             RollbackInv, JobsCrashInv DEF LD!Next, Jobs
<1>2. ASSUME JobsInv PROVE LD!PlatformIsTrue
  <2>1. LD!LinkIsWhole
    BY <1>2, JobsFacts DEF JobsInv, LinkWhole, LD!LinkIsWhole
  <2>2. LD!EndsOnOneRelease
    BY <1>2 DEF JobsInv, EndHolds, AllOn, LD!EndsOnOneRelease, Jobs
  <2> QED BY <2>1, <2>2 DEF LD!PlatformIsTrue
<1> QED BY <1>1, <1>2, JobsInit, PTL DEF LD!Spec

(* Both platforms at once, in the words of the runs: no build but the one  *)
(* the king approved runs, the status tells what runs, no job starts a cut *)
(* binary and a rollout leaves all jobs on one release.                    *)
THEOREM PlatformIsKept ==
    ASSUME Commits \subseteq Nat, Labels \in Seq(Jobs)
    PROVE  DB!Spec /\ LD!Spec => []PlatformIsTrue
<1>1. DB!PlatformIsTrue /\ LD!PlatformIsTrue => PlatformIsTrue
  BY DEF PlatformIsTrue
<1> QED BY <1>1, DeploysAreTrue, JobsAreTrue, PTL
------------------------------------------------------------------------------
(* Workloads. The types of the store, the engine and the pass.             *)

Visible == {"approved", "creating", "running", "exited", "failed", "expired"}
Load == [state : Visible \cup {"none", "pending", "denied", "removed"}, stopped : BOOLEAN, due : BOOLEAN,
         spec : Requests \cup {"none"}]
Object == [st : {"none", "created", "running", "ok", "bad", "evicted"}, old : BOOLEAN, dying : BOOLEAN]
Plans == {"nothing", "orphan", "removed", "retire", "create", "running", "exited", "failed"}
StoreType == wl \in [Loads -> Load]
EngineType == obj \in [Loads -> Object]
PassType ==
    /\ pass \in [at : {"idle", "list", "work", "create", "start", "remove", "report"}, wanted : [Loads -> Load],
                 plan : [Loads -> Plans], cur : Loads \cup {0}, rep : Plans \cup {"none"}]
    /\ pass.at \in {"idle", "list", "work"} => pass.cur = 0
    /\ pass.at \notin {"idle", "list", "work"} => pass.cur \in Loads
    /\ pass.at \in {"idle", "list"} => pass.plan = W!Unplanned
    /\ pass.at = "remove" => pass.rep = "removed"
    /\ pass.at = "report" => pass.rep \in {"removed", "running", "exited", "failed"}
HistType == hist \in [starts : [Loads -> Nat], ok : SUBSET Loads, lost : Nat, king : SUBSET Loads]
LoadsTypes == StoreType /\ EngineType /\ PassType /\ HistType

(* What the pass is about to do for a workload.                            *)
Busy(w, step) == pass.cur = w /\ pass.at = step
Creating(w) == pass.plan[w] = "create" \/ Busy(w, "create")
Retiring(w) == pass.plan[w] \in {"retire", "orphan"} \/ Busy(w, "remove")
Telling(w, state) == pass.plan[w] = state \/ (Busy(w, "report") /\ pass.rep = state)

(* A workload the controller was told of, and one it may take away: no pass *)
(* that starts now creates it.                                             *)
Told(w) == wl[w].state \notin {"none", "pending", "denied"}
Over(w) == wl[w].stopped \/ wl[w].due \/ wl[w].state # "approved"

(* The object of a workload: there until the workload is over, made once.  *)
ObjectHolds(w) ==
    /\ obj[w].st = "none" => ~obj[w].dying
    /\ obj[w].st # "none" \/ hist.starts[w] > 0 => Told(w)
    /\ obj[w].dying => Over(w) /\ Engine # "podman"
    /\ hist.starts[w] <= 1
    /\ obj[w].st = "created" => hist.starts[w] = 0
    /\ hist.starts[w] > 0 /\ ~Over(w) => obj[w].st # "none"
    /\ obj[w].st = "ok" => w \in hist.ok
    /\ wl[w].state = "expired" => wl[w].due

(* What a pass read stays true enough until it has acted on it.            *)
ReadingHolds(w) ==
    pass.at = "list" => LET want == pass.wanted[w] IN
        IF want = W!Absent THEN obj[w].st = "none" \/ (Told(w) /\ Over(w))
        ELSE /\ Told(w)
             /\ want.state \in Visible
             /\ want.stopped => wl[w].stopped
             /\ want.state # "approved" => Over(w)
             /\ want.state = "approved" => wl[w].state \in {"approved", "expired"}
             /\ want.state = "approved" /\ ~want.stopped /\ hist.starts[w] > 0 => obj[w].st # "none" /\ ~obj[w].dying
PlanHolds(w) ==
    /\ Creating(w) => obj[w].st = "none" /\ hist.starts[w] = 0 /\ wl[w].state \in {"approved", "expired"}
    /\ Busy(w, "start") => obj[w].st = "created" /\ wl[w].state \in {"approved", "expired"} /\ Engine = "podman"
    /\ Retiring(w) => Told(w) /\ Over(w)
    /\ pass.plan[w] \in {"exited", "failed"} => ~W!Running(obj[w])
    /\ Telling(w, "exited") /\ Engine = "kubernetes" => w \in hist.ok
    /\ pass.cur = w => pass.plan[w] = "nothing"

(* The policy and the king.                                                *)
Cleared(w) ==
    /\ wl[w] # W!Absent /\ ~W!Refused("maker", wl[w].spec)
    /\ W!RuleFor("maker", wl[w].spec.kind).approval = "auto" \/ w \in hist.king
PolicyHolds(w) ==
    /\ wl[w].state = "pending" => ~W!Refused("maker", wl[w].spec)
    /\ wl[w].state \in Visible \/ obj[w].st # "none" => Cleared(w)
    /\ wl[w].state = "exited" /\ Engine = "kubernetes" => w \in hist.ok

LoadHolds(w) == ObjectHolds(w) /\ ReadingHolds(w) /\ PlanHolds(w) /\ PolicyHolds(w)

(* Live workloads, and those that a report may make live again: their      *)
(* container runs although they were, or are about to be, told ended.      *)
LiveNow(w) ==
    /\ wl[w].state \in {"pending", "approved", "creating", "running"} /\ ~wl[w].stopped
    /\ ~(wl[w].due /\ wl[w].state \in {"approved", "creating", "running"})
Owed(w) ==
    /\ ~wl[w].stopped /\ ~wl[w].due
    /\ \/ wl[w].state \in {"exited", "failed"} /\ (W!Running(obj[w]) \/ Telling(w, "running"))
       \/ Busy(w, "report") /\ pass.rep \in {"exited", "failed"} /\ W!Running(obj[w])
OwedLoads == {w \in Loads : Owed(w)}
Counted(kinds) == {w \in Loads : (LiveNow(w) \/ Owed(w)) /\ wl[w].spec.kind \in kinds}
QuotaHolds ==
    /\ Cardinality(OwedLoads) <= hist.lost
    /\ \A i \in DOMAIN Rules : Rules[i].max > 0 /\ "maker" \in Rules[i].roles =>
           Cardinality(Counted(Rules[i].kinds)) <= Rules[i].max + hist.lost

LoadsInv == W!ValidRules /\ LoadsTypes /\ (\A w \in Loads : LoadHolds(w)) /\ QuotaHolds

LoadsAssumptions ==
    /\ IsFiniteSet(Loads) /\ Loads \subseteq Nat \ {0}
    /\ DOMAIN Rules \subseteq Nat \ {0} /\ \A i \in DOMAIN Rules : Rules[i].max \in Nat

(* The sweep of the lifetimes that every access to the store begins with.  *)
LEMMA Swept ==
    ASSUME StoreType, NEW w \in Loads
    PROVE  /\ W!expire(wl)[w] = IF wl[w].due /\ wl[w].state \in {"approved", "creating", "running"}
                                THEN [wl[w] EXCEPT !.state = "expired"] ELSE wl[w]
           /\ W!expire(wl)[w] \in Load
           /\ W!expire(wl)[w].spec = wl[w].spec /\ W!expire(wl)[w].stopped = wl[w].stopped
           /\ W!expire(wl)[w].due = wl[w].due
           /\ W!expire(wl)[w].state = wl[w].state \/ ( /\ W!expire(wl)[w].state = "expired" /\ wl[w].due
                                                       /\ wl[w].state \in {"approved", "creating", "running"})
           /\ ~(W!expire(wl)[w].due /\ W!expire(wl)[w].state \in {"approved", "creating", "running"})
BY DEF StoreType, Load, Visible, W!expire

LEMMA SweptType == StoreType => W!expire(wl) \in [Loads -> Load]
BY Swept DEF W!expire

(* What a step may do to a workload it is not about.                       *)
Aged(w) ==
    /\ wl'[w].spec = wl[w].spec /\ (wl[w].stopped => wl'[w].stopped) /\ (wl[w].due => wl'[w].due)
    /\ \/ wl'[w].state = wl[w].state
       \/ wl'[w].state = "expired" /\ wl[w].due /\ wl[w].state \in {"approved", "creating", "running"}
Elsewhere(w) ==
    pass.cur # w /\ pass'.cur # w /\ pass'.plan[w] = pass.plan[w] /\ pass'.at # "list"
HistGrows(w) == hist'.starts[w] = hist.starts[w] /\ hist.ok \subseteq hist'.ok /\ hist.king \subseteq hist'.king
Gentle(w) ==
    /\ LiveNow(w)' \/ Owed(w)' => (LiveNow(w) \/ Owed(w)) /\ wl'[w].spec = wl[w].spec
    /\ Owed(w)' => Owed(w)

LEMMA Bystander ==
    ASSUME LoadsTypes, LoadsTypes', NEW w \in Loads, LoadHolds(w), Aged(w), obj'[w] = obj[w], HistGrows(w),
           pass' = pass \/ Elsewhere(w)
    PROVE  LoadHolds(w)' /\ Gentle(w)
<1> USE DEF LoadsTypes, LoadHolds
<1>0. wl[w] \in Load /\ wl'[w] \in Load
  BY DEF StoreType
<1>1. Told(w) => Told(w)'
  BY DEF Told, Aged
<1>2. Over(w) => Over(w)'
  BY DEF Over, Aged
<1>4. ObjectHolds(w)'
  BY <1>0, <1>1, <1>2 DEF ObjectHolds, Aged, HistGrows, Over
<1>5. ReadingHolds(w)'
  BY <1>0, <1>1, <1>2 DEF ReadingHolds, Aged, Elsewhere, HistGrows
<1>6. PlanHolds(w)'
  BY <1>0, <1>1, <1>2 DEF PlanHolds, Creating, Retiring, Telling, Busy, Aged, Elsewhere, HistGrows, W!Running
<1>7. PolicyHolds(w)'
  BY <1>0, <1>1 DEF PolicyHolds, ObjectHolds, Cleared, Told, Aged, HistGrows, W!Absent, Visible
<1>8. Gentle(w)
  BY <1>0 DEF Gentle, LiveNow, Owed, Telling, Busy, Aged, Elsewhere, W!Running
<1> QED BY <1>4, <1>5, <1>6, <1>7, <1>8

(* What a step may do to a workload that the pass is done with.            *)
LEMMA Dropped ==
    ASSUME LoadsTypes, LoadsTypes', NEW w \in Loads, LoadHolds(w), wl'[w] = wl[w], obj'[w] = obj[w], hist' = hist,
           pass'.plan[w] = "nothing", pass'.cur # w, pass'.at # "list"
    PROVE  LoadHolds(w)' /\ Gentle(w)
<1> USE DEF LoadsTypes, LoadHolds
<1>1. ObjectHolds(w)' /\ ReadingHolds(w)'
  BY DEF ObjectHolds, ReadingHolds, Told, Over
<1>2. PlanHolds(w)'
  BY DEF PlanHolds, Creating, Retiring, Telling, Busy
<1>3. PolicyHolds(w)'
  BY DEF PolicyHolds, Cleared
<1>4. Gentle(w)
  BY DEF Gentle, LiveNow, Owed, Telling, Busy, W!Running
<1> QED BY <1>1, <1>2, <1>3, <1>4

(* The counts.                                                             *)
LEMMA QuotaGentle ==
    ASSUME LoadsAssumptions, LoadsInv, HistType', hist'.lost = hist.lost, \A w \in Loads : Gentle(w)
    PROVE  QuotaHolds'
<1>1. OwedLoads' \subseteq OwedLoads /\ IsFiniteSet(OwedLoads)
  <2>1. OwedLoads' \subseteq OwedLoads
    BY DEF OwedLoads, Gentle
  <2> QED BY <2>1, FS_Subset DEF OwedLoads, LoadsAssumptions
<1>2. Cardinality(OwedLoads') <= Cardinality(OwedLoads)
  BY <1>1, FS_Subset
<1>3. ASSUME NEW kinds
      PROVE  Cardinality(Counted(kinds)') <= Cardinality(Counted(kinds)) /\ Cardinality(Counted(kinds)) \in Nat
             /\ Cardinality(Counted(kinds)') \in Nat
  <2>1. Counted(kinds)' \subseteq Counted(kinds)
    BY DEF Counted, Gentle
  <2>2. IsFiniteSet(Counted(kinds))
    BY FS_Subset DEF Counted, LoadsAssumptions
  <2> QED BY <2>1, <2>2, FS_Subset, FS_CardinalityType
<1>4. Cardinality(OwedLoads) \in Nat /\ Cardinality(OwedLoads') \in Nat
  BY <1>1, FS_Subset, FS_CardinalityType
<1>5. Cardinality(OwedLoads') <= hist'.lost
  BY <1>2, <1>4 DEF LoadsInv, LoadsTypes, HistType, QuotaHolds
<1>6. ASSUME NEW i \in DOMAIN Rules, Rules[i].max > 0, "maker" \in Rules[i].roles
      PROVE  Cardinality(Counted(Rules[i].kinds)') <= Rules[i].max + hist'.lost
  <2>1. Cardinality(Counted(Rules[i].kinds)) <= Rules[i].max + hist.lost
    BY <1>6 DEF LoadsInv, QuotaHolds
  <2>2. Rules[i].max \in Nat
    BY DEF LoadsAssumptions
  <2> QED BY <1>3, <2>1, <2>2 DEF LoadsInv, LoadsTypes, HistType
<1> QED BY <1>5, <1>6 DEF QuotaHolds

LEMMA Settles ==
    ASSUME LoadsAssumptions, LoadsInv, LoadsTypes', hist'.lost = hist.lost, \A w \in Loads : LoadHolds(w)' /\ Gentle(w)
    PROVE  LoadsInv'
BY QuotaGentle DEF LoadsInv, LoadsTypes

(* A start is counted, and so is an answer that is lost.                   *)
LEMMA StartCounted ==
    ASSUME HistType, NEW w \in Loads, hist' = [hist EXCEPT !.starts[w] = @ + 1]
    PROVE  /\ HistType' /\ hist'.ok = hist.ok /\ hist'.king = hist.king /\ hist'.lost = hist.lost
           /\ hist'.starts[w] = hist.starts[w] + 1 /\ \A v \in Loads \ {w} : hist'.starts[v] = hist.starts[v]
<1> DEFINE s == [hist.starts EXCEPT ![w] = @ + 1]
<1>1. hist.starts \in [Loads -> Nat]
  BY DEF HistType
<1>2. hist.starts[w] + 1 \in Nat
  BY <1>1
<1>3. s \in [Loads -> Nat] /\ s[w] = hist.starts[w] + 1 /\ \A v \in Loads \ {w} : s[v] = hist.starts[v]
  BY <1>1, <1>2
<1>4. hist' = [hist EXCEPT !.starts = s]
  OBVIOUS
<1> HIDE DEF s
<1> QED BY <1>3, <1>4 DEF HistType

LEMMA LostStartCounted ==
    ASSUME HistType, NEW w \in Loads, hist' = [hist EXCEPT !.starts[w] = @ + 1, !.lost = @ + 1]
    PROVE  /\ HistType' /\ hist'.ok = hist.ok /\ hist'.king = hist.king /\ hist'.lost = hist.lost + 1
           /\ hist'.starts[w] = hist.starts[w] + 1 /\ \A v \in Loads \ {w} : hist'.starts[v] = hist.starts[v]
<1> DEFINE s == [hist.starts EXCEPT ![w] = @ + 1]
           n == hist.lost + 1
<1>1. hist.starts \in [Loads -> Nat] /\ n \in Nat
  BY DEF HistType
<1>2. hist.starts[w] + 1 \in Nat
  BY <1>1
<1>3. s \in [Loads -> Nat] /\ s[w] = hist.starts[w] + 1 /\ \A v \in Loads \ {w} : s[v] = hist.starts[v]
  BY <1>1, <1>2
<1>4. hist' = [hist EXCEPT !.starts = s, !.lost = n]
  OBVIOUS
<1>5. n = hist.lost + 1
  OBVIOUS
<1> HIDE DEF s, n
<1> QED BY <1>1, <1>3, <1>4, <1>5 DEF HistType

(* The steps of the engine by itself.                                      *)
LEMMA EngineTarget ==
    ASSUME LoadsTypes, NEW w \in Loads, LoadHolds(w), wl' = wl, pass' = pass, HistType', obj' \in [Loads -> Object],
           HistGrows(w), obj'[w].dying = obj[w].dying,
           \/ obj[w].st = "running" /\ obj'[w].st = "ok" /\ w \in hist'.ok
           \/ obj[w].st = "running" /\ obj'[w].st = "bad"
           \/ obj[w].st = "created" /\ obj'[w].st = "evicted" /\ Engine = "kubernetes"
           \/ obj'[w].st = obj[w].st
    PROVE  LoadHolds(w)' /\ Gentle(w)
<1> USE DEF LoadsTypes, LoadHolds
<1>1. ObjectHolds(w)'
  BY DEF ObjectHolds, Told, Over, HistGrows
<1>2. ReadingHolds(w)'
  BY DEF ReadingHolds, Told, Over, HistGrows
<1>3. PlanHolds(w)'
  BY DEF PlanHolds, Creating, Retiring, Telling, Busy, HistGrows, W!Running, Told, Over
<1>4. PolicyHolds(w)'
  BY DEF PolicyHolds, Cleared, HistGrows
<1>5. Gentle(w)
  BY DEF Gentle, LiveNow, Owed, Telling, Busy, W!Running
<1> QED BY <1>1, <1>2, <1>3, <1>4, <1>5

LEMMA OthersOf ==
    ASSUME LoadsTypes, LoadsTypes', NEW w \in Loads, \A v \in Loads : LoadHolds(v), wl' = wl, pass' = pass,
           \A v \in Loads \ {w} : obj'[v] = obj[v] /\ HistGrows(v)
    PROVE  \A v \in Loads \ {w} : LoadHolds(v)' /\ Gentle(v)
<1>1. ASSUME NEW v \in Loads \ {w} PROVE Aged(v)
  BY DEF Aged
<1> QED BY <1>1, Bystander

LEMMA EngineExitInv ==
    ASSUME LoadsAssumptions, LoadsInv, NEW w \in Loads, W!EngineExit(w)
    PROVE  LoadsInv'
<1> USE DEF LoadsInv, LoadsTypes
<1>1. wl' = wl /\ pass' = pass /\ obj[w].st = "running"
  BY DEF W!EngineExit
<1>2. PICK st \in {"ok", "bad"} :
          /\ obj' = [obj EXCEPT ![w].st = st, ![w].old = FALSE]
          /\ hist' = [hist EXCEPT !.ok = IF st = "ok" THEN @ \cup {w} ELSE @]
  BY DEF W!EngineExit
<1>3. obj' \in [Loads -> Object] /\ obj'[w].st = st /\ obj'[w].dying = obj[w].dying
      /\ \A v \in Loads \ {w} : obj'[v] = obj[v]
  BY <1>2 DEF EngineType, Object
<1>4. HistType' /\ hist'.lost = hist.lost /\ (\A v \in Loads : HistGrows(v)) /\ (st = "ok" => w \in hist'.ok)
  <2> DEFINE k == IF st = "ok" THEN hist.ok \cup {w} ELSE hist.ok
  <2>1. hist' = [hist EXCEPT !.ok = k] /\ k \in SUBSET Loads /\ hist.ok \subseteq k /\ (st = "ok" => w \in k)
    BY <1>2 DEF HistType
  <2> HIDE DEF k
  <2> QED BY <2>1 DEF HistType, HistGrows
<1>5. LoadsTypes'
  BY <1>1, <1>3, <1>4 DEF StoreType, EngineType, PassType
<1>6. LoadHolds(w)' /\ Gentle(w)
  BY <1>1, <1>3, <1>4, EngineTarget
<1>7. \A v \in Loads \ {w} : LoadHolds(v)' /\ Gentle(v)
  BY <1>1, <1>3, <1>4, <1>5, OthersOf
<1> QED BY <1>4, <1>5, <1>6, <1>7, Settles

LEMMA AgeInv ==
    ASSUME LoadsAssumptions, LoadsInv, NEW w \in Loads, W!Age(w)
    PROVE  LoadsInv'
<1> USE DEF LoadsInv, LoadsTypes
<1>1. wl' = wl /\ pass' = pass /\ hist' = hist /\ obj' = [obj EXCEPT ![w].old = TRUE]
  BY DEF W!Age
<1>2. obj' \in [Loads -> Object] /\ obj'[w].st = obj[w].st /\ obj'[w].dying = obj[w].dying
      /\ \A v \in Loads \ {w} : obj'[v] = obj[v]
  BY <1>1 DEF EngineType, Object
<1>3. HistType' /\ \A v \in Loads : HistGrows(v)
  BY <1>1 DEF HistType, HistGrows
<1>4. LoadsTypes'
  BY <1>1, <1>2, <1>3 DEF StoreType, EngineType, PassType
<1>5. LoadHolds(w)' /\ Gentle(w)
  BY <1>1, <1>2, <1>3, EngineTarget
<1>6. \A v \in Loads \ {w} : LoadHolds(v)' /\ Gentle(v)
  BY <1>1, <1>2, <1>3, <1>4, OthersOf
<1> QED BY <1>1, <1>4, <1>5, <1>6, Settles

LEMMA KubeletStartInv ==
    ASSUME LoadsAssumptions, LoadsInv, NEW w \in Loads, W!KubeletStart(w)
    PROVE  LoadsInv'
<1> USE DEF LoadsInv, LoadsTypes
<1>1. wl' = wl /\ pass' = pass /\ obj[w].st = "created" /\ ~obj[w].dying /\ Engine = "kubernetes"
  BY DEF W!KubeletStart
<1>2. CASE obj' = [obj EXCEPT ![w].st = "running"] /\ hist' = [hist EXCEPT !.starts[w] = @ + 1]
  <2>1. obj' \in [Loads -> Object] /\ obj'[w].st = "running" /\ ~obj'[w].dying
        /\ \A v \in Loads \ {w} : obj'[v] = obj[v]
    BY <1>1, <1>2 DEF EngineType, Object
  <2>2. hist.starts[w] = 0
    BY <1>1 DEF LoadHolds, ObjectHolds
  <2>3. HistType' /\ hist'.lost = hist.lost /\ hist'.ok = hist.ok /\ hist'.king = hist.king /\ hist'.starts[w] = 1
        /\ \A v \in Loads \ {w} : HistGrows(v)
    BY <1>2, <2>2, StartCounted DEF HistGrows
  <2>4. LoadsTypes'
    BY <1>1, <2>1, <2>3 DEF StoreType, EngineType, PassType
  <2>5. LoadHolds(w)' /\ Gentle(w)
    <3> USE <1>1, <2>1, <2>2, <2>3 DEF LoadHolds
    <3>1. ObjectHolds(w)'
      BY DEF ObjectHolds, Told, Over
    <3>2. ReadingHolds(w)'
      BY DEF ReadingHolds, Told, Over
    <3>3. PlanHolds(w)'
      BY DEF PlanHolds, Creating, Retiring, Telling, Busy, W!Running, Told, Over
    <3>4. PolicyHolds(w)'
      BY DEF PolicyHolds, Cleared
    <3>5. Gentle(w)
      BY DEF Gentle, LiveNow, Owed, Telling, Busy, W!Running
    <3> QED BY <3>1, <3>2, <3>3, <3>4, <3>5
  <2>6. \A v \in Loads \ {w} : LoadHolds(v)' /\ Gentle(v)
    BY <1>1, <2>1, <2>3, <2>4, OthersOf
  <2> QED BY <2>3, <2>4, <2>5, <2>6, Settles
<1>3. CASE obj' = [obj EXCEPT ![w].st = "evicted", ![w].old = FALSE] /\ hist' = hist
  <2>1. obj' \in [Loads -> Object] /\ obj'[w].st = "evicted" /\ obj'[w].dying = obj[w].dying
        /\ \A v \in Loads \ {w} : obj'[v] = obj[v]
    BY <1>3 DEF EngineType, Object
  <2>2. HistType' /\ \A v \in Loads : HistGrows(v)
    BY <1>3 DEF HistType, HistGrows
  <2>3. LoadsTypes'
    BY <1>1, <2>1, <2>2 DEF StoreType, EngineType, PassType
  <2>4. LoadHolds(w)' /\ Gentle(w)
    BY <1>1, <2>1, <2>2, EngineTarget
  <2>5. \A v \in Loads \ {w} : LoadHolds(v)' /\ Gentle(v)
    BY <1>1, <2>1, <2>2, <2>3, OthersOf
  <2> QED BY <1>3, <2>3, <2>4, <2>5, Settles
<1> QED BY <1>2, <1>3 DEF W!KubeletStart

LEMMA KubeletDeleteInv ==
    ASSUME LoadsAssumptions, LoadsInv, NEW w \in Loads, W!KubeletDelete(w)
    PROVE  LoadsInv'
<1> USE DEF LoadsInv, LoadsTypes
<1>1. wl' = wl /\ pass' = pass /\ hist' = hist /\ obj[w].dying /\ obj' = [obj EXCEPT ![w] = W!NoObj]
  BY DEF W!KubeletDelete
<1>2. obj' \in [Loads -> Object] /\ obj'[w].st = "none" /\ ~obj'[w].dying
      /\ \A v \in Loads \ {w} : obj'[v] = obj[v]
  BY <1>1 DEF EngineType, Object, W!NoObj
<1>3. HistType' /\ \A v \in Loads : HistGrows(v)
  BY <1>1 DEF HistType, HistGrows
<1>4. LoadsTypes'
  BY <1>1, <1>2, <1>3 DEF StoreType, EngineType, PassType
<1>5. LoadHolds(w)' /\ Gentle(w)
  <2> USE <1>1, <1>2 DEF LoadHolds
  <2>1. ObjectHolds(w)'
    BY DEF ObjectHolds, Told, Over
  <2>2. ReadingHolds(w)'
    BY DEF ReadingHolds, Told, Over, ObjectHolds
  <2>3. PlanHolds(w)'
    BY DEF PlanHolds, ObjectHolds, Creating, Retiring, Telling, Busy, W!Running, Told, Over
  <2>4. PolicyHolds(w)'
    BY DEF PolicyHolds, Cleared
  <2>5. Gentle(w)
    BY DEF Gentle, LiveNow, Owed, Telling, Busy, W!Running
  <2> QED BY <2>1, <2>2, <2>3, <2>4, <2>5
<1>6. \A v \in Loads \ {w} : LoadHolds(v)' /\ Gentle(v)
  BY <1>1, <1>2, <1>3, <1>4, OthersOf
<1> QED BY <1>1, <1>4, <1>5, <1>6, Settles

(* The steps of the store.                                                 *)
LEMMA SweptAged ==
    ASSUME StoreType, NEW v \in Loads, wl'[v] = W!expire(wl)[v]
    PROVE  Aged(v)
BY Swept DEF Aged

LEMMA LapseInv ==
    ASSUME LoadsAssumptions, LoadsInv, NEW w \in Loads, W!Lapse(w)
    PROVE  LoadsInv'
<1> USE DEF LoadsInv, LoadsTypes
<1>1. obj' = obj /\ pass' = pass /\ hist' = hist /\ wl' = [wl EXCEPT ![w].due = TRUE]
  BY DEF W!Lapse
<1>2. StoreType' /\ \A v \in Loads : Aged(v)
  BY <1>1 DEF StoreType, Load, Aged
<1>3. LoadsTypes' /\ \A v \in Loads : HistGrows(v)
  BY <1>1, <1>2 DEF EngineType, PassType, HistType, HistGrows
<1>4. \A v \in Loads : LoadHolds(v)' /\ Gentle(v)
  BY <1>1, <1>2, <1>3, Bystander
<1> QED BY <1>1, <1>3, <1>4, Settles

(* A workload that the controller was never told of changes hands.         *)
LEMMA Fresh ==
    ASSUME LoadsTypes, LoadsTypes', NEW w \in Loads, LoadHolds(w), ~Told(w), obj' = obj, pass' = pass,
           HistGrows(w), wl'[w].state \in {"denied", "removed", "pending", "approved"},
           wl'[w].state \in {"pending", "approved"} => ~W!Refused("maker", wl'[w].spec),
           wl'[w].state = "approved" => Cleared(w)'
    PROVE  LoadHolds(w)' /\ ~Owed(w)'
<1> USE DEF LoadsTypes, LoadHolds
<1>1. obj[w].st = "none" /\ hist.starts[w] = 0 /\ ~obj[w].dying
  BY DEF ObjectHolds, HistType
<1>2. ObjectHolds(w)'
  BY <1>1 DEF ObjectHolds, Told, Over, HistGrows
<1>3. ReadingHolds(w)'
  BY <1>1 DEF ReadingHolds
<1>4. PlanHolds(w)'
  BY <1>1 DEF PlanHolds, Creating, Retiring, Telling, Busy, W!Running, Told, HistGrows
<1>5. PolicyHolds(w)'
  BY <1>1 DEF PolicyHolds, Visible
<1>6. ~Owed(w)'
  BY <1>1 DEF Owed, Telling, Busy, W!Running
<1> QED BY <1>2, <1>3, <1>4, <1>5, <1>6

LEMMA ApproveInv ==
    ASSUME LoadsAssumptions, LoadsInv, NEW w \in Loads, W!ApproveWorkload(w)
    PROVE  LoadsInv'
<1> USE DEF LoadsInv, LoadsTypes
<1>1. /\ wl[w].state = "pending" /\ obj' = obj /\ pass' = pass
      /\ wl' = [W!expire(wl) EXCEPT ![w].state = "approved"] /\ hist' = [hist EXCEPT !.king = @ \cup {w}]
  BY DEF W!ApproveWorkload
<1>2. W!expire(wl) \in [Loads -> Load] /\ W!expire(wl)[w] = wl[w]
  BY <1>1, Swept, SweptType
<1>3. StoreType' /\ (\A v \in Loads \ {w} : wl'[v] = W!expire(wl)[v])
      /\ wl'[w].state = "approved" /\ wl'[w].spec = wl[w].spec /\ wl'[w].stopped = wl[w].stopped
  BY <1>1, <1>2 DEF StoreType, Load, Visible
<1>4. HistType' /\ hist'.lost = hist.lost /\ w \in hist'.king /\ \A v \in Loads : HistGrows(v)
  BY <1>1 DEF HistType, HistGrows
<1>5. LoadsTypes'
  BY <1>1, <1>3, <1>4 DEF EngineType, PassType
<1>6. LoadHolds(w)' /\ ~Owed(w)'
  <2>1. ~Told(w) /\ ~W!Refused("maker", wl[w].spec)
    BY <1>1 DEF Told, LoadHolds, PolicyHolds
  <2>2. Cleared(w)'
    BY <1>3, <1>4, <2>1 DEF Cleared, W!Absent
  <2> QED BY <1>1, <1>3, <1>4, <1>5, <2>1, <2>2, Fresh
<1>7. Gentle(w)
  BY <1>1, <1>3, <1>6 DEF Gentle, LiveNow
<1>8. \A v \in Loads \ {w} : LoadHolds(v)' /\ Gentle(v)
  BY <1>1, <1>3, <1>4, <1>5, SweptAged, Bystander
<1> QED BY <1>4, <1>5, <1>6, <1>7, <1>8, Settles

LEMMA StopInv ==
    ASSUME LoadsAssumptions, LoadsInv, NEW w \in Loads, W!StopWorkload(w)
    PROVE  LoadsInv'
<1> USE DEF LoadsInv, LoadsTypes
<1> DEFINE f == W!expire(wl)
<1>1. obj' = obj /\ pass' = pass /\ hist' = hist
  BY DEF W!StopWorkload
<1>2. f \in [Loads -> Load] /\ (\A v \in Loads : f[v].spec = wl[v].spec)
  BY Swept, SweptType
<1>3. \A v \in Loads : HistGrows(v)
  BY <1>1 DEF HistGrows
<1>4. CASE f[w].state = "pending" /\ wl' = [f EXCEPT ![w].state = "removed"]
  <2>1. f[w] = wl[w]
    BY <1>4, Swept
  <2> HIDE DEF f
  <2>2. StoreType' /\ (\A v \in Loads \ {w} : wl'[v] = f[v]) /\ wl'[w].state = "removed"
    BY <1>2, <1>4 DEF StoreType, Load
  <2>3. LoadsTypes'
    BY <1>1, <2>2 DEF EngineType, PassType, HistType
  <2>4. LoadHolds(w)' /\ ~Owed(w)'
    <3>1. ~Told(w)
      BY <1>4, <2>1 DEF Told
    <3> QED BY <1>1, <1>3, <2>2, <2>3, <3>1, Fresh
  <2>5. Gentle(w)
    BY <2>2, <2>4 DEF Gentle, LiveNow
  <2>6. \A v \in Loads \ {w} : LoadHolds(v)' /\ Gentle(v)
    BY <1>1, <1>3, <2>2, <2>3, SweptAged, Bystander DEF f
  <2> QED BY <1>1, <2>3, <2>4, <2>5, <2>6, Settles
<1>5. CASE wl' = [f EXCEPT ![w].stopped = TRUE]
  <2>1. StoreType' /\ (\A v \in Loads \ {w} : wl'[v] = f[v]) /\ wl'[w].stopped
        /\ wl'[w].state = f[w].state /\ wl'[w].due = f[w].due /\ wl'[w].spec = f[w].spec
    <3> HIDE DEF f
    <3> DEFINE q == [f[w] EXCEPT !.stopped = TRUE]
    <3>1. wl' = [f EXCEPT ![w] = q]
      BY <1>5
    <3>2. q \in Load /\ q.stopped /\ q.state = f[w].state /\ q.due = f[w].due /\ q.spec = f[w].spec
      BY <1>2 DEF Load
    <3> HIDE DEF q
    <3> QED BY <1>2, <3>1, <3>2 DEF StoreType
  <2>2. LoadsTypes'
    BY <1>1, <2>1 DEF EngineType, PassType, HistType
  <2>3. \A v \in Loads : Aged(v)
    <3>1. \A v \in Loads \ {w} : Aged(v)
      BY <2>1, SweptAged
    <3>2. Aged(w)
      BY <2>1, Swept DEF Aged
    <3> QED BY <3>1, <3>2
  <2>4. \A v \in Loads : LoadHolds(v)' /\ Gentle(v)
    BY <1>1, <1>3, <2>2, <2>3, Bystander
  <2> QED BY <1>1, <2>2, <2>4, Settles
<1> QED BY <1>4, <1>5 DEF W!StopWorkload

(* A request that is taken is one that the rule's cap leaves room for.     *)
LEMMA OneRule ==
    ASSUME LoadsAssumptions, W!ValidRules, NEW i \in DOMAIN Rules, NEW kind \in Rules[i].kinds, "maker" \in Rules[i].roles
    PROVE  W!RuleFor("maker", kind) = Rules[i]
<1>1. i \in W!Covering("maker", kind)
  BY DEF W!Covering
<1>2. ASSUME NEW j \in W!Covering("maker", kind) PROVE j = i
  <2>1. j \in DOMAIN Rules /\ "maker" \in Rules[j].roles /\ kind \in Rules[j].kinds
    BY DEF W!Covering
  <2>2. ~(j < i) /\ ~(i < j)
    BY <2>1 DEF W!ValidRules, LoadsAssumptions
  <2> QED BY <2>1, <2>2 DEF LoadsAssumptions
<1>3. W!Covering("maker", kind) = {i}
  BY <1>1, <1>2
<1>4. (CHOOSE k \in W!Covering("maker", kind) : \A j \in W!Covering("maker", kind) : k <= j) = i
  BY <1>3 DEF LoadsAssumptions
<1> QED BY <1>4 DEF W!RuleFor

LEMMA LiveCounted ==
    ASSUME StoreType, NEW w \in Loads
    PROVE  W!Live(W!expire(wl)[w]) <=> LiveNow(w)
BY Swept DEF W!Live, LiveNow, StoreType, Load

LEMMA RequestQuota ==
    ASSUME LoadsAssumptions, LoadsInv, HistType', hist'.lost = hist.lost, NEW w \in Loads,
           \A v \in Loads \ {w} : Gentle(v), ~Owed(w)',
           LiveNow(w)' => \A i \in DOMAIN Rules :
               Rules[i].max > 0 /\ "maker" \in Rules[i].roles /\ wl'[w].spec.kind \in Rules[i].kinds =>
                   Cardinality({v \in Loads : LiveNow(v) /\ wl[v].spec.kind \in Rules[i].kinds}) < Rules[i].max
    PROVE  QuotaHolds'
<1> USE DEF LoadsInv, LoadsTypes, QuotaHolds
<1>1. OwedLoads' \subseteq OwedLoads /\ IsFiniteSet(OwedLoads)
  <2>1. OwedLoads' \subseteq OwedLoads
    BY DEF OwedLoads, Gentle
  <2> QED BY <2>1, FS_Subset DEF OwedLoads, LoadsAssumptions
<1>2. Cardinality(OwedLoads') <= Cardinality(OwedLoads) /\ Cardinality(OwedLoads) \in Nat /\ Cardinality(OwedLoads') \in Nat
  BY <1>1, FS_Subset, FS_CardinalityType
<1>3. Cardinality(OwedLoads') <= hist'.lost
  BY <1>2 DEF HistType
<1>4. ASSUME NEW i \in DOMAIN Rules, Rules[i].max > 0, "maker" \in Rules[i].roles
      PROVE  Cardinality(Counted(Rules[i].kinds)') <= Rules[i].max + hist'.lost
  <2> DEFINE C == Counted(Rules[i].kinds)
             L == {v \in Loads : LiveNow(v) /\ wl[v].spec.kind \in Rules[i].kinds}
  <2>1. IsFiniteSet(C) /\ IsFiniteSet(L) /\ Rules[i].max \in Nat /\ hist.lost \in Nat
    BY FS_Subset DEF Counted, LoadsAssumptions, HistType
  <2>2. CASE LiveNow(w)' /\ wl'[w].spec.kind \in Rules[i].kinds
    <3>1. Cardinality(L) < Rules[i].max
      BY <1>4, <2>2
    <3>2. C' \subseteq (L \cup OwedLoads) \cup {w}
      BY DEF Counted, OwedLoads, Gentle
    <3> HIDE DEF C, L
    <3>3. IsFiniteSet(L \cup OwedLoads) /\ Cardinality(L \cup OwedLoads) <= Cardinality(L) + Cardinality(OwedLoads)
          /\ Cardinality(L) \in Nat /\ Cardinality(L \cup OwedLoads) \in Nat
      <4>1. IsFiniteSet(L \cup OwedLoads) /\ IsFiniteSet(L \cap OwedLoads)
        BY <1>1, <2>1, FS_Union, FS_Intersection
      <4>2. Cardinality(L \cup OwedLoads) = Cardinality(L) + Cardinality(OwedLoads) - Cardinality(L \cap OwedLoads)
        BY <1>1, <2>1, FS_Union
      <4>3. Cardinality(L \cap OwedLoads) \in Nat /\ Cardinality(L) \in Nat /\ Cardinality(L \cup OwedLoads) \in Nat
        BY <2>1, <4>1, FS_CardinalityType
      <4> QED BY <1>2, <4>1, <4>2, <4>3
    <3>4. IsFiniteSet((L \cup OwedLoads) \cup {w})
          /\ Cardinality((L \cup OwedLoads) \cup {w}) <= Cardinality(L \cup OwedLoads) + 1
      <4> DEFINE S == L \cup OwedLoads
      <4>1. IsFiniteSet(S) /\ Cardinality(S) \in Nat
        BY <3>3
      <4> HIDE DEF S
      <4>2. /\ IsFiniteSet(S \cup {w})
            /\ Cardinality(S \cup {w}) = IF w \in S THEN Cardinality(S) ELSE Cardinality(S) + 1
        BY <4>1, FS_AddElement, Zenon
      <4>3. Cardinality(S \cup {w}) <= Cardinality(S) + 1
        BY <4>1, <4>2
      <4> QED BY <4>2, <4>3 DEF S
    <3>5. Cardinality(C') <= Cardinality((L \cup OwedLoads) \cup {w}) /\ Cardinality(C') \in Nat
          /\ Cardinality((L \cup OwedLoads) \cup {w}) \in Nat
      BY <3>2, <3>4, FS_Subset, FS_CardinalityType
    <3> QED BY <1>2, <2>1, <3>1, <3>3, <3>4, <3>5 DEF C
  <2>3. CASE ~(LiveNow(w)' /\ wl'[w].spec.kind \in Rules[i].kinds)
    <3>1. C' \subseteq C
      BY <2>3 DEF Counted, Gentle
    <3>2. Cardinality(C') <= Cardinality(C) /\ Cardinality(C) \in Nat /\ Cardinality(C') \in Nat
      BY <2>1, <3>1, FS_Subset, FS_CardinalityType
    <3>3. Cardinality(C) <= Rules[i].max + hist.lost
      BY <1>4
    <3> HIDE DEF C
    <3>4. Cardinality(C') <= Rules[i].max + hist'.lost
      BY <2>1, <3>2, <3>3
    <3> QED BY <3>4 DEF C
  <2> QED BY <2>2, <2>3
<1> QED BY <1>3, <1>4

LEMMA RequestLoadInv ==
    ASSUME LoadsAssumptions, LoadsInv, NEW sp \in Requests, W!RequestWorkload(sp)
    PROVE  LoadsInv'
<1> USE DEF LoadsInv, LoadsTypes
<1> DEFINE f == W!expire(wl)
           rule == W!RuleFor("maker", sp.kind)
           full == rule.max > 0 /\ W!Cardinality(W!LiveUnder(f, rule)) >= rule.max
           verdict == IF W!Refused("maker", sp) \/ full THEN "denied"
                      ELSE IF rule.approval = "auto" THEN "approved" ELSE "pending"
           new == [W!Absent EXCEPT !.state = verdict, !.spec = sp]
<1>1. obj' = obj /\ pass' = pass /\ hist' = hist
  BY DEF W!RequestWorkload
<1>2. PICK w \in Loads : wl[w] = W!Absent /\ wl' = [f EXCEPT ![w] = new]
  BY DEF W!RequestWorkload
<1>3. f \in [Loads -> Load]
  BY SweptType
<1>4. verdict \in {"denied", "approved", "pending"}
      /\ (verdict # "denied" => ~W!Refused("maker", sp) /\ ~full)
      /\ (verdict = "approved" => rule.approval = "auto")
  OBVIOUS
<1>5. new \in Load /\ new.state = verdict /\ new.spec = sp /\ ~new.stopped /\ ~new.due
  <2> HIDE DEF verdict
  <2> QED BY <1>4 DEF Load, Visible, W!Absent
<1>6. StoreType' /\ wl'[w] = new /\ \A v \in Loads \ {w} : wl'[v] = f[v]
  <2> HIDE DEF f, new
  <2> QED BY <1>2, <1>3, <1>5 DEF StoreType
<1>7. LoadsTypes' /\ \A v \in Loads : HistGrows(v)
  BY <1>1, <1>6 DEF EngineType, PassType, HistType, HistGrows
<1>8. ~Told(w)
  BY <1>2 DEF Told, W!Absent
<1>9. LoadHolds(w)' /\ ~Owed(w)'
  <2> HIDE DEF f, new, verdict
  <2>1. wl'[w].state = verdict /\ wl'[w].spec = sp
    BY <1>5, <1>6
  <2>2. wl'[w].state = "approved" => Cleared(w)'
    <3>1. SUFFICES ASSUME verdict = "approved" PROVE Cleared(w)'
      BY <2>1
    <3>2. wl'[w] # W!Absent
      BY <2>1, <3>1 DEF W!Absent
    <3> QED BY <1>4, <2>1, <3>1, <3>2 DEF Cleared
  <2> QED BY <1>1, <1>4, <1>7, <1>8, <2>1, <2>2, Fresh
<1>10. \A v \in Loads \ {w} : LoadHolds(v)' /\ Gentle(v)
  BY <1>1, <1>6, <1>7, SweptAged, Bystander
<1>11. QuotaHolds'
  <2>1. ASSUME LiveNow(w)', NEW i \in DOMAIN Rules,
               Rules[i].max > 0, "maker" \in Rules[i].roles, wl'[w].spec.kind \in Rules[i].kinds
        PROVE  Cardinality({v \in Loads : LiveNow(v) /\ wl[v].spec.kind \in Rules[i].kinds}) < Rules[i].max
    <3>1. verdict # "denied" /\ wl'[w].spec = sp
      <4> HIDE DEF verdict, new
      <4> QED BY <1>5, <1>6, <2>1 DEF LiveNow
    <3>2. rule = Rules[i]
      BY <2>1, <3>1, OneRule
    <3>3. ~full
      BY <1>4, <3>1
    <3> DEFINE L == {v \in Loads : LiveNow(v) /\ wl[v].spec.kind \in Rules[i].kinds}
    <3>4. W!LiveUnder(f, rule) = L
      <4>1. W!LiveUnder(f, rule) = {v \in Loads : W!Live(f[v]) /\ f[v].spec.kind \in Rules[i].kinds}
        <5> HIDE DEF f, rule
        <5> QED BY <3>2 DEF W!LiveUnder
      <4>2. \A v \in Loads : f[v].spec = wl[v].spec /\ (W!Live(f[v]) <=> LiveNow(v))
        BY Swept, LiveCounted
      <4> HIDE DEF f
      <4> QED BY <4>1, <4>2
    <3>5. W!Cardinality(L) = Cardinality(L)
      BY Zenon DEF W!Cardinality, Cardinality
    <3>6. IsFiniteSet(L) /\ Cardinality(L) \in Nat /\ Rules[i].max \in Nat
      BY FS_Subset, FS_CardinalityType DEF LoadsAssumptions
    <3>7. ~(W!Cardinality(L) >= Rules[i].max)
      <4> HIDE DEF f, L
      <4> QED BY <2>1, <3>2, <3>3, <3>4
    <3> QED BY <3>5, <3>6, <3>7
  <2> QED BY <1>1, <1>7, <1>9, <1>10, <2>1, RequestQuota
<1>12. \A v \in Loads : LoadHolds(v)'
  BY <1>9, <1>10
<1> HIDE DEF f, rule, full, verdict, new
<1> QED BY <1>7, <1>11, <1>12

(* The pass. It starts with what serve lists ...                           *)
LEMMA PassAtRest == W!Idle \in [at : {"idle"}, wanted : [Loads -> Load], plan : [Loads -> Plans], cur : Loads \cup {0},
                              rep : Plans \cup {"none"}]
<1> DEFINE a == [w \in Loads |-> W!Absent]
<1>1. W!Absent \in Load
  BY DEF W!Absent, Load
<1>2. a \in [Loads -> Load] /\ W!Unplanned \in [Loads -> Plans]
  BY <1>1 DEF W!Unplanned, Plans
<1>3. W!Idle = [at |-> "idle", wanted |-> a, plan |-> W!Unplanned, cur |-> 0, rep |-> "none"]
  BY DEF W!Idle
<1> HIDE DEF a
<1> QED BY <1>2, <1>3

LEMMA PassIdle ==
    ASSUME LoadsAssumptions, LoadsInv, wl' = wl, obj' = obj, hist' = hist, pass' = W!Idle
    PROVE  LoadsInv'
<1> USE DEF LoadsInv, LoadsTypes
<1>1. pass'.at = "idle" /\ pass'.plan = W!Unplanned /\ pass'.cur = 0
  BY DEF W!Idle
<1>2. LoadsTypes'
  <2>1. PassType'
    BY <1>1, PassAtRest DEF PassType
  <2> QED BY <2>1 DEF StoreType, EngineType, HistType
<1>3. \A w \in Loads : pass'.plan[w] = "nothing" /\ pass'.cur # w /\ pass'.at # "list"
  BY <1>1 DEF W!Unplanned, LoadsAssumptions
<1>4. \A w \in Loads : LoadHolds(w)' /\ Gentle(w)
  BY <1>2, <1>3, Dropped
<1> QED BY <1>2, <1>4, Settles

LEMMA PendingInv == ASSUME LoadsAssumptions, LoadsInv, W!CtlPending PROVE LoadsInv'
<1> USE DEF LoadsInv, LoadsTypes
<1> DEFINE f == W!expire(wl)
           g == [w \in Loads |-> IF W!ControllerVisible(f[w]) THEN [f[w] EXCEPT !.due = FALSE] ELSE W!Absent]
<1>1. pass.at = "idle" /\ wl' = wl /\ obj' = obj /\ hist' = hist /\ pass' = [pass EXCEPT !.at = "list", !.wanted = g]
  BY DEF W!CtlPending
<1>2. f \in [Loads -> Load]
  BY SweptType
<1>3. W!Absent \in Load /\ W!Absent.state = "none"
  BY DEF W!Absent, Load
<1>4. ASSUME NEW w \in Loads
      PROVE  /\ g[w] \in Load
             /\ g[w] = W!Absent => f[w].state \notin Visible
             /\ g[w] # W!Absent => /\ g[w].state = f[w].state /\ g[w].stopped = f[w].stopped /\ f[w].state \in Visible
  <2> DEFINE x == f[w]
             y == [x EXCEPT !.due = FALSE]
  <2>1. x \in Load
    BY <1>2
  <2> HIDE DEF f
  <2>2. g[w] = IF W!ControllerVisible(x) THEN y ELSE W!Absent
    OBVIOUS
  <2> HIDE DEF g, x
  <2>3. y \in Load /\ y.state = x.state /\ y.stopped = x.stopped
    BY <2>1 DEF Load
  <2> HIDE DEF y
  <2>4. W!ControllerVisible(x) <=> x.state \in Visible
    BY DEF W!ControllerVisible, Visible
  <2>5. "none" \notin Visible
    BY DEF Visible
  <2> QED BY <1>3, <2>2, <2>3, <2>4, <2>5 DEF x
<1>5. g \in [Loads -> Load]
  <2>1. g = [w \in Loads |-> g[w]]
    OBVIOUS
  <2> HIDE DEF g
  <2> QED BY <1>4, <2>1
<1> HIDE DEF g
<1>6. PassType' /\ pass'.at = "list" /\ pass'.wanted = g /\ pass'.plan = W!Unplanned /\ pass'.cur = 0
  BY <1>1, <1>5 DEF PassType
<1>7. LoadsTypes'
  BY <1>1, <1>6 DEF StoreType, EngineType, HistType
<1>8. ASSUME NEW w \in Loads PROVE LoadHolds(w)' /\ Gentle(w)
  <2> USE DEF LoadHolds
  <2>1. pass.plan[w] = "nothing" /\ pass'.plan[w] = "nothing" /\ pass'.cur # w
    BY <1>1, <1>6 DEF PassType, W!Unplanned, LoadsAssumptions
  <2>2. /\ f[w].spec = wl[w].spec /\ f[w].stopped = wl[w].stopped
        /\ f[w].state = wl[w].state \/ (f[w].state = "expired" /\ wl[w].due /\ wl[w].state \in {"approved", "creating", "running"})
        /\ ~(wl[w].due /\ f[w].state \in {"approved", "creating", "running"})
    BY Swept
  <2>3. ObjectHolds(w) /\ wl[w] \in Load
    BY DEF StoreType
  <2> HIDE DEF f
  <2>4. ObjectHolds(w)'
    BY <1>1, <2>3 DEF ObjectHolds, Told, Over
  <2>5. ReadingHolds(w)'
    <3>1. CASE g[w] = W!Absent
      BY <1>1, <1>4, <1>6, <2>2, <2>3, <3>1 DEF ReadingHolds, ObjectHolds, Told, Over, Visible, Load
    <3>2. CASE g[w] # W!Absent
      <4>1. g[w].state = f[w].state /\ g[w].stopped = f[w].stopped /\ f[w].state \in Visible
        BY <1>4, <3>2
      <4>2. Told(w) /\ (f[w].state # "approved" => Over(w))
        BY <2>2, <4>1 DEF Told, Over, Visible
      <4>3. f[w].state = "approved" => wl[w].state = "approved" /\ ~wl[w].due
        BY <2>2
      <4>4. f[w].state = "approved" /\ ~f[w].stopped /\ hist.starts[w] > 0 => obj[w].st # "none" /\ ~obj[w].dying
        BY <2>2, <2>3, <4>3 DEF ObjectHolds, Over
      <4>5. /\ Told(w)' = Told(w) /\ Over(w)' = Over(w) /\ obj'[w] = obj[w] /\ hist'.starts[w] = hist.starts[w]
            /\ wl'[w] = wl[w]
        BY <1>1 DEF Told, Over
      <4> QED BY <1>6, <2>2, <3>2, <4>1, <4>2, <4>3, <4>4, <4>5 DEF ReadingHolds
    <3> QED BY <3>1, <3>2
  <2>6. PlanHolds(w)'
    BY <2>1 DEF PlanHolds, Creating, Retiring, Telling, Busy
  <2>7. PolicyHolds(w)'
    BY <1>1 DEF PolicyHolds, Cleared
  <2>8. Gentle(w)
    BY <1>1, <2>1 DEF Gentle, LiveNow, Owed, Telling, Busy, W!Running
  <2> QED BY <2>4, <2>5, <2>6, <2>7, <2>8
<1> QED BY <1>1, <1>7, <1>8, Settles

(* ... decides on that and on what the engine lists ...                    *)
LEMMA VerdictFacts ==
    ASSUME NEW x \in Load, NEW o \in Object
    PROVE  LET v == W!Verdict(x, o) IN
           /\ v \in Plans
           /\ v = "create" => x # W!Absent /\ ~x.stopped /\ x.state = "approved" /\ o.st = "none"
           /\ v = "orphan" => x = W!Absent /\ o.st # "none"
           /\ v = "retire" => x # W!Absent /\ (x.stopped \/ x.state # "approved")
           /\ v = "running" => W!Running(o)
           /\ v \in {"exited", "failed"} => ~W!Running(o)
           /\ v = "exited" /\ Engine = "kubernetes" => o.st = "ok"
<1>1. CASE x = W!Absent
  BY <1>1 DEF W!Verdict, Plans
<1>2. CASE x # W!Absent /\ (x.stopped \/ x.state = "expired")
  BY <1>2 DEF W!Verdict, Plans
<1>3. CASE x # W!Absent /\ ~x.stopped /\ x.state # "expired"
  <2>1. CASE o.st = "none"
    <3>1. ~W!Running(o)
      BY <2>1 DEF W!Running
    <3>2. CASE x.state # "approved"
      <4>1. W!Verdict(x, o) = "nothing"
        BY <1>3, <2>1, <3>1, <3>2 DEF W!Verdict
      <4> QED BY <4>1 DEF Plans
    <3>3. CASE x.state = "approved"
      <4>1. W!Verdict(x, o) = IF x.spec.supported THEN "create" ELSE "failed"
        BY <1>3, <2>1, <3>1, <3>3 DEF W!Verdict
      <4> QED BY <1>3, <2>1, <3>1, <3>3, <4>1 DEF Plans
    <3> QED BY <3>2, <3>3
  <2>2. CASE o.st # "none" /\ W!Running(o)
    <3>1. W!Verdict(x, o) = IF x.state = "running" THEN "nothing" ELSE "running"
      BY <1>3, <2>2 DEF W!Verdict
    <3> QED BY <2>2, <3>1 DEF Plans
  <2>3. CASE o.st # "none" /\ ~W!Running(o)
    <3> DEFINE s == IF W!podExitCode(o) = "0" THEN "exited" ELSE "failed"
    <3>1. W!Verdict(x, o) = IF x.state # s THEN s ELSE IF W!PastGrace(o) THEN "retire" ELSE "nothing"
      BY <1>3, <2>3 DEF W!Verdict
    <3>2. s \in {"exited", "failed"} /\ (s = "exited" /\ Engine = "kubernetes" => o.st = "ok")
      BY <2>3 DEF W!podExitCode, W!Running, Object
    <3> HIDE DEF s
    <3> QED BY <1>3, <2>3, <3>1, <3>2 DEF Plans
  <2> QED BY <2>1, <2>2, <2>3
<1> QED BY <1>1, <1>2, <1>3

LEMMA ListInv == ASSUME LoadsAssumptions, LoadsInv, W!CtlList PROVE LoadsInv'
<1> USE DEF LoadsInv, LoadsTypes
<1> DEFINE p == [w \in Loads |-> W!Verdict(pass.wanted[w], obj[w])]
<1>1. pass.at = "list" /\ wl' = wl /\ obj' = obj /\ hist' = hist
  BY DEF W!CtlList
<1>2. CASE pass' = W!Idle
  BY <1>1, <1>2, PassIdle
<1>3. CASE pass' = [W!Idle EXCEPT !.at = "work", !.plan = p]
  <2>1. ASSUME NEW w \in Loads PROVE pass.wanted[w] \in Load /\ obj[w] \in Object /\ p[w] = W!Verdict(pass.wanted[w], obj[w])
    BY DEF PassType, EngineType
  <2>2. p \in [Loads -> Plans]
    <3>1. p = [w \in Loads |-> p[w]] /\ \A w \in Loads : p[w] \in Plans
      BY <2>1, VerdictFacts
    <3> HIDE DEF p
    <3> QED BY <3>1
  <2> HIDE DEF p
  <2>3. PassType' /\ pass'.at = "work" /\ pass'.plan = p /\ pass'.cur = 0
    <3> DEFINE i == W!Idle
    <3>1. i.cur = 0 /\ pass' = [i EXCEPT !.at = "work", !.plan = p]
      BY <1>3 DEF W!Idle
    <3>2. i \in [at : {"idle"}, wanted : [Loads -> Load], plan : [Loads -> Plans], cur : Loads \cup {0}, rep : Plans \cup {"none"}]
      BY PassAtRest
    <3> HIDE DEF i
    <3> QED BY <2>2, <3>1, <3>2 DEF PassType
  <2>4. LoadsTypes'
    BY <1>1, <2>3 DEF StoreType, EngineType, HistType
  <2>5. ASSUME NEW w \in Loads PROVE LoadHolds(w)' /\ Gentle(w)
    <3> DEFINE x == pass.wanted[w]
               v == W!Verdict(x, obj[w])
    <3>1. x \in Load /\ obj[w] \in Object /\ pass'.plan[w] = v /\ pass'.cur # w
      BY <2>1, <2>3 DEF LoadsAssumptions
    <3>2. /\ v = "create" => x # W!Absent /\ ~x.stopped /\ x.state = "approved" /\ obj[w].st = "none"
          /\ v = "orphan" => x = W!Absent /\ obj[w].st # "none"
          /\ v = "retire" => x # W!Absent /\ (x.stopped \/ x.state # "approved")
          /\ v = "running" => W!Running(obj[w])
          /\ v \in {"exited", "failed"} => ~W!Running(obj[w])
          /\ v = "exited" /\ Engine = "kubernetes" => obj[w].st = "ok"
      BY <3>1, VerdictFacts
    <3>3. ObjectHolds(w) /\ ReadingHolds(w) /\ PolicyHolds(w)
      BY DEF LoadHolds
    <3> HIDE DEF v
    <3>4. ObjectHolds(w)' /\ ReadingHolds(w)'
      BY <1>1, <2>3, <3>3 DEF ObjectHolds, ReadingHolds, Told, Over
    <3>5. v = "create" => obj[w].st = "none" /\ hist.starts[w] = 0 /\ wl[w].state \in {"approved", "expired"}
      BY <1>1, <3>2, <3>3 DEF ReadingHolds, HistType
    <3>6. v \in {"retire", "orphan"} => Told(w) /\ Over(w)
      BY <1>1, <3>2, <3>3 DEF ReadingHolds, Over
    <3>7. v = "exited" /\ Engine = "kubernetes" => w \in hist.ok
      BY <3>2, <3>3 DEF ObjectHolds
    <3>8. PlanHolds(w)'
      BY <1>1, <2>3, <3>1, <3>2, <3>5, <3>6, <3>7 DEF PlanHolds, Creating, Retiring, Telling, Busy, Told, Over, W!Running
    <3>9. PolicyHolds(w)'
      BY <1>1, <3>3 DEF PolicyHolds, Cleared
    <3>10. Gentle(w)
      BY <1>1, <2>3, <3>1, <3>2 DEF Gentle, LiveNow, Owed, Telling, Busy, W!Running
    <3> QED BY <3>4, <3>8, <3>9, <3>10 DEF LoadHolds
  <2> QED BY <1>1, <2>4, <2>5, Settles
<1> QED BY <1>2, <1>3 DEF W!CtlList

(* ... and works off what it decided, one workload after the other.        *)
LEMMA ReconcileInv ==
    ASSUME LoadsAssumptions, LoadsInv, NEW w \in Loads, W!CtlReconcile(w)
    PROVE  LoadsInv'
<1> USE DEF LoadsInv, LoadsTypes
<1> DEFINE v == pass.plan[w]
           p == [pass.plan EXCEPT ![w] = "nothing"]
<1>1. pass.at = "work" /\ v \notin {"nothing", "orphan"} /\ wl' = wl /\ obj' = obj /\ hist' = hist
  BY DEF W!CtlReconcile, W!Todo
<1>2. p \in [Loads -> Plans] /\ p[w] = "nothing" /\ \A u \in Loads \ {w} : p[u] = pass.plan[u]
  BY DEF PassType, Plans
<1>3. v \in Plans /\ pass.cur = 0
  BY <1>1 DEF PassType
<1>4. /\ PassType' /\ pass'.plan = p /\ pass'.cur = w /\ pass'.at \in {"remove", "create", "report"}
      /\ pass'.at = "remove" => v = "retire"
      /\ pass'.at = "create" => v = "create"
      /\ pass'.at = "report" => pass'.rep = v
  <2>1. CASE v = "retire"
    <3>1. pass' = [pass EXCEPT !.plan = p, !.cur = w, !.at = "remove", !.rep = "removed"]
      BY <2>1 DEF W!CtlReconcile
    <3> HIDE DEF p
    <3> QED BY <1>2, <2>1, <3>1 DEF PassType, Plans
  <2>2. CASE v = "create"
    <3>1. pass' = [pass EXCEPT !.plan = p, !.cur = w, !.at = "create"]
      BY <2>2 DEF W!CtlReconcile
    <3> HIDE DEF p
    <3> QED BY <1>2, <2>2, <3>1 DEF PassType
  <2>3. CASE v \notin {"retire", "create"}
    <3>1. pass' = [pass EXCEPT !.plan = p, !.cur = w, !.at = "report", !.rep = v]
      BY <2>3 DEF W!CtlReconcile
    <3>2. v \in {"removed", "running", "exited", "failed"}
      BY <1>1, <1>3, <2>3 DEF Plans
    <3> HIDE DEF p, v
    <3> QED BY <1>2, <2>3, <3>1, <3>2 DEF PassType, Plans
  <2> QED BY <2>1, <2>2, <2>3
<1> HIDE DEF p
<1>5. LoadsTypes'
  BY <1>1, <1>4 DEF StoreType, EngineType, HistType
<1>6. ASSUME NEW u \in Loads \ {w} PROVE LoadHolds(u)' /\ Gentle(u)
  <2>1. Elsewhere(u) /\ Aged(u) /\ HistGrows(u)
    BY <1>1, <1>2, <1>3, <1>4 DEF Elsewhere, Aged, HistGrows, LoadsAssumptions
  <2> QED BY <1>1, <1>5, <2>1, Bystander
<1>7. LoadHolds(w)' /\ Gentle(w)
  <2> USE DEF LoadHolds
  <2>1. pass'.plan[w] = "nothing"
    BY <1>2, <1>4
  <2>2. ObjectHolds(w)' /\ ReadingHolds(w)'
    BY <1>1, <1>4 DEF ObjectHolds, ReadingHolds, Told, Over
  <2>3. PlanHolds(w)'
    BY <1>1, <1>4, <2>1 DEF PlanHolds, Creating, Retiring, Telling, Busy, Told, Over, W!Running
  <2>4. PolicyHolds(w)'
    BY <1>1 DEF PolicyHolds, Cleared
  <2>5. Gentle(w)
    BY <1>1, <1>4, <2>1 DEF Gentle, LiveNow, Owed, Telling, Busy, W!Running, PlanHolds
  <2> QED BY <2>2, <2>3, <2>4, <2>5
<1> QED BY <1>1, <1>5, <1>6, <1>7, Settles

(* A step of the pass about its present workload.                          *)
LEMMA AtCurrent ==
    ASSUME LoadsAssumptions, LoadsInv, LoadsTypes', pass.cur \in Loads, wl' = wl, hist'.ok = hist.ok, hist'.king = hist.king,
           pass'.plan = pass.plan, pass'.cur \in {pass.cur, 0}, pass'.at # "list",
           \A u \in Loads \ {pass.cur} : obj'[u] = obj[u] /\ hist'.starts[u] = hist.starts[u]
    PROVE  \A u \in Loads \ {pass.cur} : LoadHolds(u)' /\ Gentle(u)
<1> USE DEF LoadsInv, LoadsTypes
<1> SUFFICES ASSUME NEW u \in Loads \ {pass.cur} PROVE LoadHolds(u)' /\ Gentle(u)
  OBVIOUS
<1>1. u # pass.cur /\ u # 0 /\ pass'.cur # u
  BY DEF LoadsAssumptions
<1>2. Elsewhere(u)
  BY <1>1 DEF Elsewhere
<1>3. Aged(u)
  BY DEF Aged
<1>4. HistGrows(u)
  BY <1>1 DEF HistGrows
<1> QED BY <1>2, <1>3, <1>4, Bystander

(* The answer of an engine call that took effect is lost.                  *)
LEMMA QuotaLost ==
    ASSUME LoadsAssumptions, LoadsInv, HistType', hist'.lost = hist.lost + 1, NEW w \in Loads, wl' = wl,
           \A v \in Loads \ {w} : Gentle(v), LiveNow(w)' => LiveNow(w)
    PROVE  QuotaHolds'
<1> USE DEF LoadsInv, LoadsTypes, QuotaHolds
<1>1. ASSUME NEW S, NEW T, IsFiniteSet(S), T \subseteq S \cup {w}
      PROVE  Cardinality(T) <= Cardinality(S) + 1 /\ Cardinality(S) \in Nat /\ Cardinality(T) \in Nat
  <2>1. IsFiniteSet(S \cup {w}) /\ Cardinality(S \cup {w}) = IF w \in S THEN Cardinality(S) ELSE Cardinality(S) + 1
    BY <1>1, FS_AddElement, Zenon
  <2>2. Cardinality(T) <= Cardinality(S \cup {w}) /\ IsFiniteSet(T)
    BY <1>1, <2>1, FS_Subset
  <2>3. Cardinality(S) \in Nat /\ Cardinality(T) \in Nat /\ Cardinality(S \cup {w}) \in Nat
    BY <1>1, <2>1, <2>2, FS_CardinalityType
  <2> QED BY <2>1, <2>2, <2>3
<1>2. Cardinality(OwedLoads') <= hist'.lost
  <2>1. OwedLoads' \subseteq OwedLoads \cup {w} /\ IsFiniteSet(OwedLoads)
    <3>1. OwedLoads' \subseteq OwedLoads \cup {w}
      BY DEF OwedLoads, Gentle
    <3> QED BY <3>1, FS_Subset DEF OwedLoads, LoadsAssumptions
  <2> QED BY <1>1, <2>1 DEF HistType
<1>3. ASSUME NEW i \in DOMAIN Rules, Rules[i].max > 0, "maker" \in Rules[i].roles
      PROVE  Cardinality(Counted(Rules[i].kinds)') <= Rules[i].max + hist'.lost
  <2> DEFINE C == Counted(Rules[i].kinds)
  <2>1. C' \subseteq C \cup {w}
    BY DEF Counted, Gentle
  <2>2. IsFiniteSet(C) /\ Rules[i].max \in Nat /\ hist.lost \in Nat /\ Cardinality(C) <= Rules[i].max + hist.lost
    BY <1>3, FS_Subset DEF Counted, LoadsAssumptions, HistType
  <2> HIDE DEF C
  <2>3. Cardinality(C') <= Rules[i].max + hist'.lost
    <3>1. Cardinality(C') <= Cardinality(C) + 1 /\ Cardinality(C) \in Nat /\ Cardinality(C') \in Nat
      BY <1>1, <2>1, <2>2
    <3> QED BY <2>2, <3>1
  <2> QED BY <2>3 DEF C
<1> QED BY <1>2, <1>3

(* An object that no pass will make anew is taken away.                    *)
LEMMA TakenAway ==
    ASSUME LoadsTypes, LoadsTypes', NEW w \in Loads, LoadHolds(w), Retiring(w), wl' = wl, hist' = hist,
           obj'[w] = W!Removed(w), pass'.at # "list", pass'.plan[w] = "nothing",
           pass'.cur = w => pass'.at = "report" /\ pass'.rep = "removed"
    PROVE  LoadHolds(w)' /\ Gentle(w)
<1> USE DEF LoadsTypes, LoadHolds
<1>1. Told(w) /\ Over(w) /\ Told(w)' /\ Over(w)'
  BY DEF PlanHolds, Told, Over
<1>2. \/ obj'[w].st = "none" /\ ~obj'[w].dying
      \/ obj'[w].st = obj[w].st /\ obj'[w].dying /\ Engine # "podman" /\ obj[w].st # "none"
  BY DEF W!Removed, W!NoObj, EngineType, Object
<1>3. ObjectHolds(w)'
  BY <1>1, <1>2 DEF ObjectHolds
<1>4. ReadingHolds(w)' /\ PlanHolds(w)'
  BY DEF ReadingHolds, PlanHolds, Creating, Retiring, Telling, Busy
<1>5. PolicyHolds(w)'
  BY <1>2 DEF PolicyHolds, Cleared
<1>6. Gentle(w)
  BY <1>2 DEF Gentle, LiveNow, Owed, Telling, Busy, W!Running
<1> QED BY <1>3, <1>4, <1>5, <1>6

(* The pass hands over the workload it made a step for.                    *)
LEMMA PassMoves ==
    ASSUME PassType, pass.cur \in Loads,
           \/ pass' = [pass EXCEPT !.at = "start"]
           \/ pass' = [pass EXCEPT !.at = "report", !.rep = "running"]
           \/ pass' = [pass EXCEPT !.at = "report", !.rep = "failed"]
           \/ pass.at = "remove" /\ pass' = [pass EXCEPT !.at = "report"]
    PROVE  PassType' /\ pass'.plan = pass.plan /\ pass'.cur = pass.cur
<1>1. CASE pass' = [pass EXCEPT !.at = "start"]
  BY <1>1 DEF PassType
<1>2. CASE pass' = [pass EXCEPT !.at = "report", !.rep = "running"]
  BY <1>2 DEF PassType, Plans
<1>3. CASE pass' = [pass EXCEPT !.at = "report", !.rep = "failed"]
  BY <1>3 DEF PassType, Plans
<1>4. CASE pass.at = "remove" /\ pass' = [pass EXCEPT !.at = "report"]
  BY <1>4 DEF PassType
<1> QED BY <1>1, <1>2, <1>3, <1>4

LEMMA PassNext ==
    ASSUME PassType, pass.at \in {"remove", "report"}, pass' = W!NextOne
    PROVE  PassType' /\ pass'.plan = pass.plan /\ pass'.cur = 0 /\ pass'.at = "work"
BY DEF PassType, W!NextOne

(* The engine makes the object of a workload that has none ...             *)
LEMMA CreateLoadInv == ASSUME LoadsAssumptions, LoadsInv, W!CtlCreate PROVE LoadsInv'
<1> USE DEF LoadsInv, LoadsTypes
<1>1. pass.at = "create" /\ wl' = wl /\ pass.cur \in Loads
  BY DEF W!CtlCreate, PassType
<1> PICK c \in Loads : c = pass.cur
  BY <1>1
<1>2. /\ obj[c].st = "none" /\ ~obj[c].dying /\ hist.starts[c] = 0 /\ wl[c].state \in {"approved", "expired"}
      /\ pass.plan[c] = "nothing" /\ ObjectHolds(c) /\ PolicyHolds(c)
  BY <1>1 DEF LoadHolds, PlanHolds, ObjectHolds, Creating, Busy
<1>3. ASSUME obj' = obj \/ obj' = [obj EXCEPT ![c] = W!Made],
             \/ hist' = hist
             \/ hist' = [hist EXCEPT !.lost = @ + 1],
             \/ Engine = "podman" /\ pass' = [pass EXCEPT !.at = "start"] /\ obj' # obj /\ hist' = hist
             \/ Engine # "podman" /\ pass' = [pass EXCEPT !.at = "report", !.rep = "running"] /\ hist' = hist
             \/ pass' = [pass EXCEPT !.at = "report", !.rep = "failed"] /\ (obj' = obj \/ hist' # hist)
      PROVE  LoadsInv'
  <2>1. /\ obj' \in [Loads -> Object] /\ ~obj'[c].dying /\ obj'[c].st \in {"none", "created"}
        /\ obj' # obj => obj'[c].st = "created"
        /\ obj' = obj => obj'[c].st = "none"
        /\ \A u \in Loads \ {c} : obj'[u] = obj[u]
    <3> DEFINE m == W!Made
    <3>1. m \in Object /\ m.st = "created" /\ ~m.dying
      BY DEF W!Made, W!NoObj, Object
    <3>2. obj' = obj \/ obj' = [obj EXCEPT ![c] = m]
      BY <1>3
    <3> HIDE DEF m
    <3> QED BY <1>1, <1>2, <3>1, <3>2 DEF EngineType
  <2>2. /\ HistType' /\ hist'.ok = hist.ok /\ hist'.king = hist.king /\ hist'.starts = hist.starts
        /\ hist'.lost = hist.lost \/ (hist' # hist /\ hist'.lost = hist.lost + 1)
    BY <1>3 DEF HistType
  <2>3. PassType' /\ pass'.plan = pass.plan /\ pass'.cur = c
    BY <1>1, <1>3, PassMoves
  <2>4. /\ pass'.at \in {"start", "report"}
        /\ pass'.at = "start" => Engine = "podman" /\ obj'[c].st = "created"
        /\ pass'.at = "report" => pass'.rep = "running" \/ (pass'.rep = "failed" /\ (obj'[c].st = "none" \/ hist' # hist))
    BY <1>3, <2>1 DEF PassType
  <2>5. LoadsTypes'
    BY <1>1, <2>1, <2>2, <2>3 DEF StoreType, EngineType
  <2>6. \A u \in Loads \ {c} : LoadHolds(u)' /\ Gentle(u)
    BY <1>1, <2>1, <2>2, <2>3, <2>4, <2>5, AtCurrent
  <2>7. LoadHolds(c)' /\ (LiveNow(c)' => LiveNow(c)) /\ (hist' = hist => Gentle(c))
    <3> USE <1>1, <1>2, <2>1, <2>2, <2>3, <2>4 DEF LoadHolds
    <3>1. ObjectHolds(c)'
      BY DEF ObjectHolds, Told, Over
    <3>2. ReadingHolds(c)'
      BY DEF ReadingHolds
    <3>3. PlanHolds(c)'
      BY DEF PlanHolds, Creating, Retiring, Telling, Busy
    <3>4. PolicyHolds(c)'
      BY DEF PolicyHolds, Cleared, Visible, ObjectHolds
    <3>5. LiveNow(c)' => LiveNow(c)
      BY DEF LiveNow
    <3>6. hist' = hist => ~Owed(c)'
      BY DEF Owed, Telling, Busy, W!Running
    <3> QED BY <3>1, <3>2, <3>3, <3>4, <3>5, <3>6 DEF Gentle
  <2>8. QuotaHolds'
    <3>1. CASE hist' # hist
      <4>1. hist'.lost = hist.lost + 1 /\ \A u \in Loads \ {c} : Gentle(u)
        BY <1>3, <2>2, <2>6, <3>1 DEF HistType
      <4> QED BY <1>1, <2>2, <2>7, <4>1, QuotaLost
    <3>2. CASE hist' = hist
      BY <2>2, <2>6, <2>7, <3>2, QuotaGentle
    <3> QED BY <3>1, <3>2
  <2>9. \A u \in Loads : LoadHolds(u)'
    BY <2>6, <2>7
  <2>10. W!ValidRules'
    BY DEF W!ValidRules
  <2> QED BY <2>5, <2>8, <2>9, <2>10
<1>4. obj' = [obj EXCEPT ![c] = W!Made] => obj' # obj
  BY <1>1, <1>2 DEF EngineType, W!Made, W!NoObj
<1>5. hist' = [hist EXCEPT !.lost = @ + 1] => hist' # hist
  BY DEF HistType
<1> QED BY <1>3, <1>4, <1>5 DEF W!CtlCreate, W!Fault

(* ... podman starts it ...                                                *)
LEMMA StartLoadInv == ASSUME LoadsAssumptions, LoadsInv, W!CtlStart PROVE LoadsInv'
<1> USE DEF LoadsInv, LoadsTypes
<1>1. pass.at = "start" /\ wl' = wl /\ pass.cur \in Loads
  BY DEF W!CtlStart, PassType
<1> PICK c \in Loads : c = pass.cur
  BY <1>1
<1>2. /\ obj[c].st = "created" /\ Engine = "podman" /\ hist.starts[c] = 0 /\ wl[c].state \in {"approved", "expired"}
      /\ pass.plan[c] = "nothing" /\ ObjectHolds(c) /\ PolicyHolds(c)
  BY <1>1 DEF LoadHolds, PlanHolds, ObjectHolds, Busy
<1> DEFINE started == [obj EXCEPT ![c].st = "running"]
<1>3. /\ started \in [Loads -> Object] /\ started[c].st = "running" /\ started[c].dying = obj[c].dying
      /\ \A u \in Loads \ {c} : started[u] = obj[u]
  BY <1>1 DEF EngineType, Object
<1>4. \/ obj' = started /\ hist' = [hist EXCEPT !.starts[c] = @ + 1] /\ pass' = [pass EXCEPT !.at = "report", !.rep = "running"]
      \/ obj' = obj /\ hist' = hist /\ pass' = [pass EXCEPT !.at = "report", !.rep = "failed"]
      \/ /\ obj' = started /\ hist' = [hist EXCEPT !.starts[c] = @ + 1, !.lost = @ + 1]
         /\ pass' = [pass EXCEPT !.at = "report", !.rep = "failed"]
  BY DEF W!CtlStart
<1> HIDE DEF started
<1>5. PassType' /\ pass'.plan = pass.plan /\ pass'.cur = c
  BY <1>1, <1>4, PassMoves
<1>6. pass'.at = "report"
  BY <1>4 DEF PassType
<1>7. HistType' /\ hist'.ok = hist.ok /\ hist'.king = hist.king /\ \A u \in Loads \ {c} : hist'.starts[u] = hist.starts[u]
  <2>1. CASE hist' = [hist EXCEPT !.starts[c] = @ + 1]
    BY <2>1, StartCounted
  <2>2. CASE hist' = hist
    BY <2>2 DEF HistType
  <2>3. CASE hist' = [hist EXCEPT !.starts[c] = @ + 1, !.lost = @ + 1]
    <3>1. HistType
      OBVIOUS
    <3> QED BY <2>3, <3>1, LostStartCounted, Zenon
  <2> QED BY <1>4, <2>1, <2>2, <2>3
<1>8. /\ obj' \in [Loads -> Object] /\ obj'[c].dying = obj[c].dying /\ \A u \in Loads \ {c} : obj'[u] = obj[u]
      /\ \/ obj'[c].st = "running" /\ hist'.starts[c] = 1 /\ pass'.rep = "running" /\ hist'.lost = hist.lost
         \/ obj'[c].st = "created" /\ hist'.starts[c] = 0 /\ pass'.rep = "failed" /\ hist'.lost = hist.lost
         \/ obj'[c].st = "running" /\ hist'.starts[c] = 1 /\ pass'.rep = "failed" /\ hist'.lost = hist.lost + 1
  <2>1. CASE obj' = started /\ hist' = [hist EXCEPT !.starts[c] = @ + 1] /\ pass' = [pass EXCEPT !.at = "report", !.rep = "running"]
    <3>1. hist'.lost = hist.lost /\ hist'.starts[c] = 1
      BY <1>2, <2>1, StartCounted
    <3> QED BY <1>3, <2>1, <3>1 DEF PassType
  <2>2. CASE obj' = obj /\ hist' = hist /\ pass' = [pass EXCEPT !.at = "report", !.rep = "failed"]
    BY <1>2, <2>2 DEF PassType, EngineType
  <2>3. CASE /\ obj' = started /\ hist' = [hist EXCEPT !.starts[c] = @ + 1, !.lost = @ + 1]
             /\ pass' = [pass EXCEPT !.at = "report", !.rep = "failed"]
    <3>1. hist'.lost = hist.lost + 1 /\ hist'.starts[c] = 1
      <4>1. HistType
        OBVIOUS
      <4>2. hist'.lost = hist.lost + 1 /\ hist'.starts[c] = hist.starts[c] + 1
        BY <2>3, <4>1, LostStartCounted, Zenon
      <4> QED BY <1>2, <4>2
    <3> QED BY <1>3, <2>3, <3>1 DEF PassType
  <2> QED BY <1>4, <2>1, <2>2, <2>3
<1>9. LoadsTypes'
  BY <1>1, <1>5, <1>7, <1>8 DEF StoreType, EngineType
<1>10. \A u \in Loads \ {c} : LoadHolds(u)' /\ Gentle(u)
  BY <1>1, <1>5, <1>6, <1>7, <1>8, <1>9, AtCurrent
<1>11. LoadHolds(c)' /\ (LiveNow(c)' => LiveNow(c)) /\ (hist'.lost = hist.lost => Gentle(c))
  <2> USE <1>1, <1>2, <1>5, <1>6, <1>7, <1>8 DEF LoadHolds
  <2>1. ObjectHolds(c)'
    BY DEF ObjectHolds, Told, Over
  <2>2. ReadingHolds(c)'
    BY DEF ReadingHolds
  <2>3. PlanHolds(c)'
    BY DEF PlanHolds, Creating, Retiring, Telling, Busy
  <2>4. PolicyHolds(c)'
    BY DEF PolicyHolds, Cleared
  <2>5. LiveNow(c)' => LiveNow(c)
    BY DEF LiveNow
  <2>6. hist'.lost = hist.lost => ~Owed(c)'
    BY DEF Owed, Telling, Busy, W!Running, HistType
  <2> QED BY <2>1, <2>2, <2>3, <2>4, <2>5, <2>6 DEF Gentle
<1>12. QuotaHolds'
  <2>1. CASE hist'.lost = hist.lost + 1
    <3>1. \A u \in Loads \ {c} : Gentle(u)
      BY <1>10
    <3> QED BY <1>1, <1>7, <1>11, <2>1, <3>1, QuotaLost
  <2>2. CASE hist'.lost = hist.lost
    BY <1>7, <1>10, <1>11, <2>2, QuotaGentle
  <2> QED BY <1>8, <2>1, <2>2
<1>13. W!ValidRules' /\ \A u \in Loads : LoadHolds(u)'
  BY <1>10, <1>11 DEF W!ValidRules
<1> QED BY <1>9, <1>12, <1>13

(* ... or takes it away, which makes serve remove the workload ...         *)
LEMMA RemoveLoadInv == ASSUME LoadsAssumptions, LoadsInv, W!CtlRemove PROVE LoadsInv'
<1> USE DEF LoadsInv, LoadsTypes
<1>1. pass.at = "remove" /\ wl' = wl /\ hist' = hist /\ pass.cur \in Loads /\ pass.rep = "removed"
  BY DEF W!CtlRemove, PassType
<1> PICK c \in Loads : c = pass.cur
  BY <1>1
<1>2. LoadHolds(c) /\ pass.plan[c] = "nothing" /\ Retiring(c) /\ c # 0
  BY <1>1 DEF LoadHolds, PlanHolds, Retiring, Busy, LoadsAssumptions
<1>3. CASE obj' = [obj EXCEPT ![c] = W!Removed(c)] /\ pass' = [pass EXCEPT !.at = "report"]
  <2>1. PassType' /\ pass'.plan = pass.plan /\ pass'.cur = c
    BY <1>1, <1>3, PassMoves
  <2>2. pass'.at = "report" /\ pass'.rep = "removed"
    BY <1>1, <1>3 DEF PassType
  <2>3. W!Removed(c) \in Object
    BY DEF W!Removed, W!NoObj, EngineType, Object
  <2>4. obj' \in [Loads -> Object] /\ obj'[c] = W!Removed(c) /\ \A u \in Loads \ {c} : obj'[u] = obj[u]
    BY <1>3, <2>3 DEF EngineType
  <2>5. LoadsTypes'
    BY <1>1, <2>1, <2>4 DEF StoreType, EngineType, HistType
  <2>6. \A u \in Loads \ {c} : LoadHolds(u)' /\ Gentle(u)
    BY <1>1, <2>1, <2>2, <2>4, <2>5, AtCurrent
  <2>7. LoadHolds(c)' /\ Gentle(c)
    BY <1>1, <1>2, <2>1, <2>2, <2>4, <2>5, TakenAway
  <2> QED BY <1>1, <2>5, <2>6, <2>7, Settles
<1>4. CASE obj' = obj /\ pass' = W!NextOne
  <2>1. PassType' /\ pass'.plan = pass.plan /\ pass'.cur = 0 /\ pass'.at = "work"
    BY <1>1, <1>4, PassNext
  <2>2. LoadsTypes'
    BY <1>1, <1>4, <2>1 DEF StoreType, EngineType, HistType
  <2>3. \A u \in Loads \ {c} : LoadHolds(u)' /\ Gentle(u)
    BY <1>1, <1>4, <2>1, <2>2, AtCurrent
  <2>4. LoadHolds(c)' /\ Gentle(c)
    BY <1>1, <1>2, <1>4, <2>1, <2>2, Dropped
  <2> QED BY <1>1, <2>2, <2>3, <2>4, Settles
<1> QED BY <1>3, <1>4 DEF W!CtlRemove

(* ... and the controller tells serve what became of the workload.         *)
LEMMA ReportLoadInv == ASSUME LoadsAssumptions, LoadsInv, W!CtlReport PROVE LoadsInv'
<1> USE DEF LoadsInv, LoadsTypes
<1>1. /\ pass.at = "report" /\ obj' = obj /\ hist' = hist /\ pass.cur \in Loads /\ pass' = W!NextOne
      /\ pass.rep \in {"removed", "running", "exited", "failed"}
      /\ wl' = W!Reported(pass.cur, pass.rep) \/ wl' = wl
  BY DEF W!CtlReport, PassType
<1> PICK c \in Loads, r \in {"removed", "running", "exited", "failed"} : c = pass.cur /\ r = pass.rep
  BY <1>1
<1>2. LoadHolds(c) /\ pass.plan[c] = "nothing" /\ c # 0
  BY <1>1 DEF LoadHolds, PlanHolds, LoadsAssumptions
<1>3. PassType' /\ pass'.plan = pass.plan /\ pass'.cur = 0 /\ pass'.at = "work"
  BY <1>1, PassNext
<1>4. \A u \in Loads : HistGrows(u) /\ (u # c => Elsewhere(u))
  BY <1>1, <1>3 DEF HistGrows, Elsewhere, LoadsAssumptions
<1> DEFINE f == W!expire(wl)
           g == [f EXCEPT ![c].state = r]
<1>5. CASE wl' = wl
  <2>1. LoadsTypes'
    BY <1>1, <1>3, <1>5 DEF StoreType, EngineType, HistType
  <2>2. \A u \in Loads \ {c} : LoadHolds(u)' /\ Gentle(u)
    <3>1. \A u \in Loads : Aged(u)
      BY <1>5 DEF Aged
    <3> QED BY <1>1, <1>4, <2>1, <3>1, Bystander
  <2>3. LoadHolds(c)' /\ Gentle(c)
    BY <1>1, <1>2, <1>3, <1>5, <2>1, Dropped
  <2> QED BY <1>1, <2>1, <2>2, <2>3, Settles
<1>6. CASE W!ControllerVisible(f[c]) /\ wl' = g
  <2>1. f \in [Loads -> Load]
    BY SweptType
  <2>2. f[c].state \in Visible /\ wl[c].state \in Visible
    <3>1. f[c].state \in Visible
      BY <1>6 DEF W!ControllerVisible, Visible
    <3>2. f[c].state = wl[c].state \/ wl[c].state \in {"approved", "creating", "running"}
      BY Swept
    <3> QED BY <3>1, <3>2 DEF Visible
  <2>3. f[c].spec = wl[c].spec /\ f[c].stopped = wl[c].stopped /\ f[c].due = wl[c].due
    BY Swept
  <2> HIDE DEF f
  <2>4. /\ wl' \in [Loads -> Load] /\ wl'[c].state = r /\ wl'[c].spec = wl[c].spec /\ wl'[c].stopped = wl[c].stopped
        /\ wl'[c].due = wl[c].due /\ \A u \in Loads \ {c} : wl'[u] = f[u]
    BY <1>6, <2>1, <2>3 DEF Load, Visible
  <2>5. LoadsTypes'
    BY <1>1, <1>3, <2>4 DEF StoreType, EngineType, HistType
  <2>6. \A u \in Loads \ {c} : LoadHolds(u)' /\ Gentle(u)
    <3>1. \A u \in Loads \ {c} : Aged(u)
      BY <2>4, SweptAged DEF f
    <3> QED BY <1>1, <1>4, <2>5, <3>1, Bystander
  <2>7. LoadHolds(c)' /\ Gentle(c)
    <3> USE <1>1, <1>2, <1>3, <2>2, <2>4 DEF LoadHolds
    <3>1. ObjectHolds(c)'
      BY DEF ObjectHolds, Told, Over
    <3>2. ReadingHolds(c)' /\ PlanHolds(c)'
      BY DEF ReadingHolds, PlanHolds, Creating, Retiring, Telling, Busy
    <3>3. PolicyHolds(c)'
      <4>1. Cleared(c)'
        BY DEF PolicyHolds, Cleared, W!Absent
      <4>2. r = "exited" /\ Engine = "kubernetes" => c \in hist.ok
        BY DEF PlanHolds, Telling, Busy
      <4> QED BY <4>1, <4>2 DEF PolicyHolds
    <3>4. Gentle(c)
      <4>1. LiveNow(c)' => LiveNow(c) \/ Owed(c)
        BY DEF LiveNow, Owed, Telling, Busy, ObjectHolds, Visible
      <4>2. Owed(c)' => Owed(c)
        BY DEF Owed, Telling, Busy, W!Running
      <4> QED BY <4>1, <4>2 DEF Gentle
    <3> QED BY <3>1, <3>2, <3>3, <3>4
  <2> QED BY <1>1, <2>5, <2>6, <2>7, Settles
<1> QED BY <1>1, <1>5, <1>6 DEF W!Reported

(* What no wanted workload claims goes last.                               *)
LEMMA OrphansInv == ASSUME LoadsAssumptions, LoadsInv, W!CtlOrphans PROVE LoadsInv'
<1> USE DEF LoadsInv, LoadsTypes
<1>1. pass.at = "work" /\ W!Todo = {} /\ wl' = wl /\ hist' = hist /\ pass' = W!Idle
  BY DEF W!CtlOrphans
<1>2. pass'.at = "idle" /\ pass'.plan = W!Unplanned /\ pass'.cur = 0 /\ PassType'
  <2>1. pass'.at = "idle" /\ pass'.plan = W!Unplanned /\ pass'.cur = 0
    BY <1>1 DEF W!Idle
  <2> QED BY <1>1, <2>1, PassAtRest DEF PassType
<1>3. ASSUME NEW w \in Loads
      PROVE  /\ obj'[w] = IF pass.plan[w] = "orphan" THEN W!Removed(w) ELSE obj[w]
             /\ obj'[w] \in Object
  <2>1. obj'[w] = IF pass.plan[w] = "orphan" THEN W!Removed(w) ELSE obj[w]
    BY DEF W!CtlOrphans
  <2>2. obj[w] \in Object /\ W!Removed(w) \in Object
    BY DEF W!Removed, W!NoObj, EngineType, Object
  <2> QED BY <2>1, <2>2
<1>4. obj' \in [Loads -> Object]
  <2>1. obj' = [w \in Loads |-> obj'[w]]
    BY DEF W!CtlOrphans
  <2> QED BY <1>3, <2>1
<1>5. LoadsTypes'
  BY <1>1, <1>2, <1>4 DEF StoreType, EngineType, HistType
<1>6. ASSUME NEW w \in Loads PROVE LoadHolds(w)' /\ Gentle(w)
  <2>1. pass'.plan[w] = "nothing" /\ pass'.cur # w
    BY <1>2 DEF W!Unplanned, LoadsAssumptions
  <2>2. CASE pass.plan[w] = "orphan"
    <3>1. obj'[w] = W!Removed(w) /\ Retiring(w)
      BY <1>3, <2>2 DEF Retiring
    <3> QED BY <1>1, <1>2, <1>5, <2>1, <3>1, TakenAway
  <2>3. CASE pass.plan[w] # "orphan"
    <3>1. obj'[w] = obj[w]
      BY <1>3, <2>3
    <3> QED BY <1>1, <1>2, <1>5, <2>1, <3>1, Dropped
  <2> QED BY <2>2, <2>3
<1> QED BY <1>1, <1>5, <1>6, Settles

LEMMA LoadsInit == ASSUME LoadsAssumptions, W!Init PROVE LoadsInv
<1>1. /\ wl = [w \in Loads |-> W!Absent] /\ obj = [w \in Loads |-> W!NoObj] /\ pass = W!Idle
      /\ hist = [starts |-> [w \in Loads |-> 0], ok |-> {}, lost |-> 0, king |-> {}]
  BY DEF W!Init
<1>2. pass.at = "idle" /\ pass.plan = W!Unplanned /\ pass.cur = 0 /\ PassType
  <2>1. pass.at = "idle" /\ pass.plan = W!Unplanned /\ pass.cur = 0
    BY <1>1 DEF W!Idle
  <2> QED BY <1>1, <2>1, PassAtRest DEF PassType
<1>3. \A w \in Loads : /\ wl[w].state = "none" /\ ~wl[w].stopped /\ ~wl[w].due /\ wl[w] \in Load
                       /\ obj[w].st = "none" /\ ~obj[w].dying /\ obj[w] \in Object
                       /\ hist.starts[w] = 0 /\ pass.plan[w] = "nothing" /\ pass.cur # w
  BY <1>1, <1>2 DEF W!Absent, W!NoObj, W!Unplanned, Load, Object, LoadsAssumptions
<1>4. LoadsTypes
  BY <1>1, <1>2, <1>3 DEF LoadsTypes, StoreType, EngineType, HistType
<1>5. ASSUME NEW w \in Loads PROVE LoadHolds(w) /\ ~Owed(w) /\ ~LiveNow(w)
  <2>1. ObjectHolds(w)
    BY <1>3 DEF ObjectHolds
  <2>2. ReadingHolds(w) /\ PlanHolds(w)
    BY <1>2, <1>3 DEF ReadingHolds, PlanHolds, Creating, Retiring, Telling, Busy
  <2>3. PolicyHolds(w)
    BY <1>3 DEF PolicyHolds, Visible
  <2>4. ~Owed(w) /\ ~LiveNow(w)
    BY <1>2, <1>3 DEF Owed, LiveNow, Telling, Busy
  <2> QED BY <2>1, <2>2, <2>3, <2>4 DEF LoadHolds
<1>6. QuotaHolds
  <2>1. OwedLoads = {} /\ \A kinds : Counted(kinds) = {}
    BY <1>5 DEF OwedLoads, Counted
  <2>2. hist.lost = 0
    BY <1>1
  <2> QED BY <2>1, <2>2, FS_EmptySet DEF QuotaHolds, LoadsAssumptions
<1> QED BY <1>4, <1>5, <1>6 DEF LoadsInv, W!Init

LEMMA LoadsNext == ASSUME LoadsAssumptions, LoadsInv, [W!Next]_(W!wlVars) PROVE LoadsInv'
<1>1. CASE UNCHANGED W!wlVars
  <2>1. wl' = wl /\ obj' = obj /\ pass' = pass /\ hist' = hist
    BY <1>1 DEF W!wlVars
  <2>2. LoadsTypes' /\ \A w \in Loads : Aged(w) /\ HistGrows(w)
    BY <2>1 DEF LoadsInv, LoadsTypes, StoreType, EngineType, PassType, HistType, Aged, HistGrows
  <2>3. \A w \in Loads : LoadHolds(w)' /\ Gentle(w)
    BY <2>1, <2>2, Bystander DEF LoadsInv
  <2> QED BY <2>1, <2>2, <2>3, Settles
<1>2. CASE W!Serve
  BY <1>2, RequestLoadInv, ApproveInv, StopInv, LapseInv DEF W!Serve
<1>3. CASE W!Platform
  BY <1>3, EngineExitInv, KubeletStartInv, KubeletDeleteInv, AgeInv DEF W!Platform
<1>4. CASE W!Pass
  BY <1>4, PendingInv, ListInv, CreateLoadInv, StartLoadInv, RemoveLoadInv, ReportLoadInv, OrphansInv, ReconcileInv DEF W!Pass
<1>5. CASE W!CtlCrash
  BY <1>5, PassIdle DEF W!CtlCrash
<1> QED BY <1>1, <1>2, <1>3, <1>4, <1>5 DEF W!Next

LEMMA LoadsBounded ==
    ASSUME LoadsAssumptions, LoadsInv
    PROVE  W!ContainersBounded /\ W!NothingUnapproved /\ (Engine = "kubernetes" => W!SuccessIsReal)
<1> USE DEF LoadsInv, LoadsTypes
<1>1. W!StartedOnce
  BY DEF W!StartedOnce, LoadHolds, ObjectHolds
<1>2. W!QuotaKept
  <2> SUFFICES ASSUME NEW i \in DOMAIN Rules, Rules[i].max > 0, "maker" \in Rules[i].roles
               PROVE  Cardinality(W!LiveUnder(W!expire(wl), Rules[i])) <= Rules[i].max + hist.lost
    BY Zenon DEF W!QuotaKept, W!Cardinality, Cardinality
  <2> DEFINE L == W!LiveUnder(W!expire(wl), Rules[i])
             C == Counted(Rules[i].kinds)
  <2>1. L \subseteq C
    <3> SUFFICES ASSUME NEW w \in L PROVE w \in C
      OBVIOUS
    <3>1. w \in Loads /\ W!Live(W!expire(wl)[w]) /\ W!expire(wl)[w].spec.kind \in Rules[i].kinds
      BY DEF W!LiveUnder
    <3> QED BY <3>1, Swept DEF W!Live, Counted, LiveNow
  <2>2. IsFiniteSet(C)
    BY FS_Subset DEF Counted, LoadsAssumptions
  <2>3. Cardinality(L) <= Cardinality(C) /\ Cardinality(L) \in Nat /\ Cardinality(C) \in Nat
    <3> HIDE DEF L, C
    <3> QED BY <2>1, <2>2, FS_Subset, FS_CardinalityType
  <2>4. Cardinality(C) <= Rules[i].max + hist.lost /\ Rules[i].max \in Nat /\ hist.lost \in Nat
    BY DEF QuotaHolds, LoadsAssumptions, HistType
  <2> HIDE DEF L, C
  <2> QED BY <2>3, <2>4 DEF L
<1>3. W!NothingUnapproved
  BY DEF W!NothingUnapproved, LoadHolds, PolicyHolds, Cleared
<1>4. Engine = "kubernetes" => W!SuccessIsReal
  BY DEF W!SuccessIsReal, LoadHolds, PolicyHolds
<1> QED BY <1>1, <1>2, <1>3, <1>4 DEF W!ContainersBounded

(* Whatever serve, the engine, its faults and the controller's crashes     *)
(* interleave to (line/controller/reconcile.go, line/station/workloads.go):*)
(* no workload's container starts twice, a rule's cap is exceeded only by  *)
(* creates whose answer was lost, the engine holds nothing the policy or   *)
(* the king did not let in and, on kubernetes, no failure is read as       *)
(* success. For any number of workloads, rules, requests and faults.       *)
THEOREM WorkloadsAreBounded ==
    ASSUME LoadsAssumptions
    PROVE  W!Spec => [](ContainersBounded /\ W!NothingUnapproved /\ (Engine = "kubernetes" => W!SuccessIsReal))
<1>1. W!Init => LoadsInv
  BY LoadsInit
<1>2. LoadsInv /\ [W!Next]_(W!wlVars) => LoadsInv'
  BY LoadsNext
<1>3. LoadsInv => ContainersBounded /\ W!NothingUnapproved /\ (Engine = "kubernetes" => W!SuccessIsReal)
  BY LoadsBounded DEF ContainersBounded
<1> QED BY <1>1, <1>2, <1>3, PTL DEF W!Spec

==============================================================================
