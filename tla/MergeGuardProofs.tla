-------------------------- MODULE MergeGuardProofs --------------------------
(***************************************************************************)
(* Proofs about the merge guard, for every line, constitution, set of      *)
(* envelopes and number of concurrent calls.                               *)
(***************************************************************************)
EXTENDS MergeGuard, WellFoundedInduction, SequenceTheorems, FiniteSetTheorems, TLAPS

(* A commit is on its own chain, and a chain holds commits only.           *)
LEMMA ChainSelf ==
    ASSUME NEW c \in Commit
    PROVE  c \in Chain(c) /\ Chain(c) \subseteq Commit
BY DEF Chain, Ancestry

(* The chain of a child is the chain of its parent and the child itself.   *)
LEMMA ChainStep ==
    ASSUME NEW c \in Commit, Parent[c] \in Commit
    PROVE  /\ Chain(Parent[c]) \subseteq Chain(c)
           /\ Chain(c) \subseteq {c} \cup Chain(Parent[c])
<1> DEFINE T == {c} \cup Chain(Parent[c])
<1>1. Chain(Parent[c]) \subseteq Chain(c)
  BY DEF Chain, Ancestry, Closed
<1>2. T \in SUBSET Commit /\ c \in T
  BY ChainSelf
<1>3. Closed(T)
  <2> SUFFICES ASSUME NEW x \in T, Parent[x] \in Commit
               PROVE  Parent[x] \in T
    BY DEF Closed
  <2>1. CASE x = c
    BY <2>1, ChainSelf
  <2>2. CASE x \in Chain(Parent[c])
    BY <2>2 DEF Chain, Ancestry, Closed
  <2> QED BY <2>1, <2>2
<1>4. Chain(c) \subseteq T
  BY <1>2, <1>3 DEF Chain, Ancestry
<1> QED BY <1>1, <1>4

(* A non-empty set of naturals has a least element.                        *)
LEMMA LeastIndex ==
    ASSUME NEW S \in SUBSET Nat, S # {}
    PROVE  \E i \in S : \A j \in S : i <= j
<1>1. PICK i \in S : \A j \in S : <<j, i>> \notin OpToRel(<, Nat)
  BY NatLessThanWellFounded, WFMin
<1>2. \A j \in S : ~(j < i)
  BY <1>1 DEF OpToRel
<1> QED BY <1>2

(* The required checks are numbered by naturals.                           *)
LEMMA RequiredDomain == DOMAIN Required \subseteq Nat
<1>1. Required \in Seq(Check)
  BY ConstitutionAssumption
<1>2. DOMAIN Required = 1..Len(Required) /\ Len(Required) \in Nat
  BY <1>1, LenProperties
<1> QED BY <1>2

(* checkResults finds nothing wrong only if no required check is wrong.    *)
LEMMA CheckResultsSound ==
    ASSUME NEW checks \in [Check -> Outcome],
           NEW d \in BOOLEAN, checkResults(checks, d) = "", NEW k \in Check
    PROVE  \/ checks[k] = "passed"
           \/ checks[k] = "skipped" /\ k \in SkipForDocsOnly /\ d
<1> DEFINE reason(i) == checkResult(Required[i], checks[Required[i]], d)
           bad == {i \in DOMAIN Required : reason(i) # ""}
<1>0. DOMAIN Required \subseteq Nat
  BY RequiredDomain
<1>1. bad = {}
  <2> SUFFICES ASSUME bad # {} PROVE FALSE
    OBVIOUS
  <2>1. bad \in SUBSET Nat
    BY <1>0
  <2>2. \E i \in bad : \A j \in bad : i <= j
    BY <2>1, LeastIndex
  <2> DEFINE least == CHOOSE i \in bad : \A j \in bad : i <= j
  <2>3. least \in bad
    BY <2>2
  <2>4. checkResults(checks, d) = reason(least)
    BY DEF checkResults
  <2> QED BY <2>3, <2>4
<1>2. PICK i \in DOMAIN Required : Required[i] = k
  BY ConstitutionAssumption
<1>3. checkResult(k, checks[k], d) = ""
  BY <1>1, <1>2
<1>4. checks[k] \in Outcome
  OBVIOUS
<1> QED BY <1>3, <1>4 DEF checkResult, Outcome

(* An envelope verify accepts is trustworthy, and bound to the wanted      *)
(* commit when there is one.                                               *)
LEMMA VerifySound ==
    ASSUME NEW env, NEW c, verify(env, c) = ""
    PROVE  Trustworthy(env) /\ (c # NoCommit => env.commit = c)
BY DEF verify, Trustworthy

(* Every verdict is one of the guard's reasons.                            *)
LEMMA VerdictType ==
    ASSUME NEW env \in Envelope, NEW c
    PROVE  /\ verify(env, c) \in Verdict
           /\ gate(env, c) \in Verdict
           /\ \A d \in BOOLEAN : checkResults(env.checks, d) \in Verdict
           /\ MergeVerdict(c, env) \in Verdict
<1>1. verify(env, c) \in Verdict /\ gate(env, c) \in Verdict
  BY DEF verify, gate, Verdict
<1>2. ASSUME NEW d \in BOOLEAN PROVE checkResults(env.checks, d) \in Verdict
  <2> DEFINE reason(i) == checkResult(Required[i], env.checks[Required[i]], d)
             bad == {i \in DOMAIN Required : reason(i) # ""}
             least == CHOOSE i \in bad : \A j \in bad : i <= j
  <2>1. env.checks \in [Check -> Outcome] /\ Required \in Seq(Check)
    BY ConstitutionAssumption DEF EnvelopeType
  <2>2. \A i \in DOMAIN Required : reason(i) \in Verdict
    <3> SUFFICES ASSUME NEW i \in DOMAIN Required PROVE reason(i) \in Verdict
      OBVIOUS
    <3>1. Required[i] \in Check
      BY <2>1, LenProperties, ElementOfSeq
    <3>2. env.checks[Required[i]] \in Outcome
      BY <2>1, <3>1
    <3> QED BY <3>2 DEF checkResult, Outcome, Verdict
  <2>3. CASE bad = {}
    BY <2>3 DEF checkResults, Verdict
  <2>4. CASE bad # {}
    <3>1. bad \in SUBSET Nat
      BY RequiredDomain
    <3>2. least \in bad
      BY <3>1, <2>4, LeastIndex
    <3>3. checkResults(env.checks, d) = reason(least)
      BY <2>4 DEF checkResults
    <3> QED BY <2>2, <3>2, <3>3
  <2> QED BY <2>3, <2>4
<1>3. isDocsOnly(env, c) \in BOOLEAN
  BY DEF isDocsOnly
<1> QED BY <1>1, <1>2, <1>3 DEF MergeVerdict

(* The reference and the procedure agree on what may land, what stops the  *)
(* line and what restarts it.                                              *)
LEMMA MergeSound ==
    ASSUME NEW c \in Commit, NEW env \in Envelope,
           MergeVerdict(c, env) = "", gate(env, c) = ""
    PROVE  c \in Proven
<1>1. verify(env, c) = "" /\ checkResults(env.checks, isDocsOnly(env, c)) = ""
  BY DEF MergeVerdict
<1>2. Trustworthy(env) /\ env.commit = c
  BY <1>1, VerifySound, ConstitutionAssumption
<1>3. env.checks \in [Check -> Outcome] /\ isDocsOnly(env, c) \in BOOLEAN
  BY ConstitutionAssumption DEF EnvelopeType, isDocsOnly
<1>4. \A k \in Check : \/ env.checks[k] = "passed"
                       \/ env.checks[k] = "skipped" /\ k \in SkipForDocsOnly
                          /\ isDocsOnly(env, c)
  BY <1>1, <1>3, CheckResultsSound
<1>5. /\ \A p \in Paths[c] \cap GatedPath : env.role \in GateRoles[p]
      /\ c \notin BadBlob
  BY DEF gate
<1>6. Proves(env, c)
  BY <1>2, <1>4, <1>5 DEF Proves, isDocsOnly
<1> QED BY <1>6 DEF Proven

LEMMA PullSound ==
    ASSUME NEW env \in Envelope, Trustworthy(env), failingCheck(env.checks)
    PROVE  env.commit \in Refuted
<1>1. PICK i \in DOMAIN Required : env.checks[Required[i]] = "failed"
  BY DEF failingCheck
<1>2. Required[i] \in Check
  <2>1. Required \in Seq(Check)
    BY ConstitutionAssumption
  <2> QED BY <2>1, LenProperties, ElementOfSeq
<1>3. env.commit \in Commit
  BY ConstitutionAssumption DEF EnvelopeType
<1> QED BY <1>1, <1>2, <1>3 DEF Refuted, Refutes

LEMMA ClearSound ==
    ASSUME NEW env \in Envelope, Trustworthy(env), checkResults(env.checks, FALSE) = ""
    PROVE  env.commit \in Repaired
<1>1. env.checks \in [Check -> Outcome] /\ env.commit \in Commit
  BY ConstitutionAssumption DEF EnvelopeType
<1>2. \A k \in Check : env.checks[k] = "passed"
  BY <1>1, CheckResultsSound
<1> QED BY <1>1, <1>2 DEF Repaired, Repairs

-----------------------------------------------------------------------------
(* Facts about TypeOK that the steps below use again and again.            *)
LEMMA TypeFacts ==
    ASSUME TypeOK, NEW p \in Call
    PROVE  /\ Len(events) \in Nat
           /\ \A i \in 1..Len(events) : events[i] \in Commit \cup {NoCommit}
           /\ seen[p] \in Nat
           /\ stop \in Nat
           /\ at[p] # "idle" => /\ req[p] \in Request
                                /\ req[p].commit \in Commit
                                /\ req[p].env \in Envelope
                                /\ req[p].env.commit \in Commit
           /\ Stopped \in Commit \cup {NoCommit}
<1>1. events \in Seq(Commit \cup {NoCommit})
  BY DEF TypeOK
<1>2. Len(events) \in Nat /\ \A i \in 1..Len(events) : events[i] \in Commit \cup {NoCommit}
  BY <1>1, LenProperties, ElementOfSeq
<1>3. seen[p] \in Nat /\ stop \in Nat
  BY <1>2 DEF TypeOK
<1>4. ASSUME at[p] # "idle"
      PROVE  /\ req[p] \in Request
             /\ req[p].commit \in Commit
             /\ req[p].env \in Envelope
             /\ req[p].env.commit \in Commit
  <2>1. req[p] \in Request
    BY <1>4 DEF TypeOK, MergeStep, PullStep, ClearStep, NoRequest
  <2> QED BY <2>1, ConstitutionAssumption DEF Request, EnvelopeType
<1>5. Stopped \in Commit \cup {NoCommit}
  BY <1>2, <1>3 DEF Stopped, TypeOK
<1> QED BY <1>2, <1>3, <1>4, <1>5

(* Appending an event keeps the earlier ones.                              *)
LEMMA AppendEvent ==
    ASSUME TypeOK, NEW c \in Commit \cup {NoCommit}, events' = Append(events, c)
    PROVE  /\ events' \in Seq(Commit \cup {NoCommit})
           /\ Len(events') = Len(events) + 1
           /\ events'[Len(events) + 1] = c
           /\ \A i \in 1..Len(events) : events'[i] = events[i]
<1>1. events \in Seq(Commit \cup {NoCommit})
  BY DEF TypeOK
<1> QED BY <1>1, AppendProperties

-----------------------------------------------------------------------------
(* Init and every step of a call, of a failure, of a crash and of the      *)
(* operator keep the types.                                                *)
LEMMA TypeInit == Init => TypeOK
<1> SUFFICES ASSUME Init PROVE TypeOK
  OBVIOUS
<1>1. events \in Seq(Commit \cup {NoCommit}) /\ Len(events) = 0
  BY DEF Init
<1>2. NoReply \in Reply
  BY DEF NoReply, Reply, Status, Reason, Verdict
<1>3. reply \in [Call -> Reply]
  BY <1>2 DEF Init
<1>4. req \in [Call -> Request \cup {NoRequest}]
  BY DEF Init
<1>5. \A p \in Call : at[p] = "idle" /\ req[p] = NoRequest
  BY DEF Init
<1>6. at \in [Call -> {"idle"} \cup MergeStep \cup PullStep \cup ClearStep]
  BY DEF Init
<1>7. seen \in [Call -> 0..Len(events)] /\ stop \in 0..Len(events)
  BY <1>1 DEF Init
<1> QED BY <1>1, <1>3, <1>4, <1>5, <1>6, <1>7, GuardAssumption
        DEF Init, TypeOK, MergeStep, PullStep, ClearStep

(* The types of the local state of a call.                                 *)
LEMMA ReplyType ==
    ASSUME NEW status \in Status, NEW reason \in Reason,
           NEW c \in Commit \cup {NoCommit}, NEW id \in Nat
    PROVE  [status |-> status, reason |-> reason, commit |-> c, event |-> id] \in Reply
BY DEF Reply

LEMMA ResultType ==
    ASSUME TypeOK, NEW p \in Call, at[p] # "idle", NEW status \in Status,
           NEW reason \in Reason, NEW id \in Nat
    PROVE  Result(p, status, reason, id) \in Reply
<1>1. req[p].commit \in Commit
  BY TypeFacts
<1> QED BY <1>1, ReplyType DEF Result

(* A call that returns, or defers to its cleanup, leaves its own state     *)
(* well typed; the refs are typed if they were not touched or if only the  *)
(* stop ref moved within its type.                                         *)
LEMMA ReturnType ==
    ASSUME TypeOK, NEW p \in Call, NEW r \in Reply, Return(p, r),
           UNCHANGED <<master, events, candidates>>, stop' \in 0..Len(events)
    PROVE  TypeOK'
<1>1. Len(events) \in Nat
  BY TypeFacts
<1> QED BY <1>1 DEF TypeOK, Return, Forget, Goto, MergeStep, PullStep, ClearStep

LEMMA DeferType ==
    ASSUME TypeOK, NEW p \in Call, NEW r \in Reply, Defer(p, r), at[p] \in MergeStep
    PROVE  TypeOK'
BY DEF TypeOK, Defer, Goto, refs, locals, MergeStep, PullStep, ClearStep

(* So does a call that goes on to a later step of its operation.           *)
LEMMA AdvanceType ==
    ASSUME TypeOK, NEW p \in Call, NEW step, Goto(p, step),
           \/ at[p] \in MergeStep /\ step \in MergeStep
           \/ at[p] \in PullStep /\ step \in PullStep
           \/ at[p] \in ClearStep /\ step \in ClearStep,
           UNCHANGED <<refs, req, seen, reply>>,
           base' \in {base, [base EXCEPT ![p] = master]}
    PROVE  TypeOK'
<1>1. base' \in [Call -> Commit \cup {NoCommit}]
  BY DEF TypeOK
<1>2. at' \in [Call -> {"idle"} \cup MergeStep \cup PullStep \cup ClearStep]
  BY DEF TypeOK, Goto
<1>3. \A q \in Call : /\ at'[q] = "idle" => req[q] = NoRequest
                      /\ at'[q] \in MergeStep => req[q].op = "merge"
                      /\ at'[q] \in PullStep => req[q].op = "pull"
                      /\ at'[q] \in ClearStep => req[q].op = "clear"
  BY DEF TypeOK, Goto, MergeStep, PullStep, ClearStep
<1>4. /\ master' = master /\ stop' = stop /\ events' = events /\ candidates' = candidates
      /\ req' = req /\ seen' = seen /\ reply' = reply
  BY DEF refs
<1>5. /\ master' \in Commit /\ events' \in Seq(Commit \cup {NoCommit})
      /\ Len(events') <= MaxEvents /\ stop' \in 0..Len(events') /\ candidates' \subseteq Commit
      /\ req' \in [Call -> Request \cup {NoRequest}]
      /\ seen' \in [Call -> 0..Len(events')] /\ reply' \in [Call -> Reply]
  BY <1>4 DEF TypeOK
<1>6. \A q \in Call : /\ at'[q] = "idle" => req'[q] = NoRequest
                      /\ at'[q] \in MergeStep => req'[q].op = "merge"
                      /\ at'[q] \in PullStep => req'[q].op = "pull"
                      /\ at'[q] \in ClearStep => req'[q].op = "clear"
  BY <1>3, <1>4
<1> QED BY <1>1, <1>2, <1>5, <1>6 DEF TypeOK

(* And one that moves master to a commit and says so.                      *)
LEMMA MergedType ==
    ASSUME TypeOK, NEW p \in Call, at[p] \in MergeStep, Goto(p, "merge_cleanup"),
           master' \in Commit, NEW r \in Reply, reply' = [reply EXCEPT ![p] = r],
           UNCHANGED <<stop, events, candidates, req, seen, base>>
    PROVE  TypeOK'
<1>1. at' \in [Call -> {"idle"} \cup MergeStep \cup PullStep \cup ClearStep]
  BY DEF TypeOK, Goto, MergeStep
<1>2. \A q \in Call : /\ at'[q] = "idle" => req'[q] = NoRequest
                      /\ at'[q] \in MergeStep => req'[q].op = "merge"
                      /\ at'[q] \in PullStep => req'[q].op = "pull"
                      /\ at'[q] \in ClearStep => req'[q].op = "clear"
  BY DEF TypeOK, Goto, MergeStep, PullStep, ClearStep
<1>3. reply' \in [Call -> Reply]
  BY DEF TypeOK
<1>4. /\ master' \in Commit /\ events' \in Seq(Commit \cup {NoCommit})
      /\ Len(events') <= MaxEvents /\ stop' \in 0..Len(events') /\ candidates' \subseteq Commit
      /\ req' \in [Call -> Request \cup {NoRequest}]
      /\ seen' \in [Call -> 0..Len(events')] /\ base' \in [Call -> Commit \cup {NoCommit}]
  BY DEF TypeOK
<1> QED BY <1>1, <1>2, <1>3, <1>4 DEF TypeOK

LEMMA Words ==
    /\ {"line_stopped", "base_moved", "already_stopped", "not_stopped",
        "stale_evidence", "no_failure", ""} \subseteq Reason
    /\ {"rejected", "merged", "stopped", "cleared", "error"} \subseteq Status
    /\ Verdict \subseteq Reason
BY DEF Reason, Status, Verdict

LEMMA TypeStep == TypeOK /\ [Next]_vars => TypeOK'
<1> SUFFICES ASSUME TypeOK, [Next]_vars PROVE TypeOK'
  OBVIOUS
<1> USE DEF TypeOK, refs, locals, Goto, MergeStep, PullStep, ClearStep
<1>0. NoReply \in Reply
  BY DEF NoReply, Reply, Status, Reason, Verdict
<1>1. ASSUME NEW p \in Call, Begin(p) PROVE TypeOK'
  <2>1. ASSUME NEW s \in Submission, Submit(p, s[1], s[2]) PROVE TypeOK'
    <3>1. s[1] \in Commit /\ s[2] \in Envelope
      BY GuardAssumption
    <3>2. [op |-> "merge", commit |-> s[1], env |-> s[2]] \in Request
      BY <3>1 DEF Request
    <3> QED BY <1>0, <2>1, <3>1, <3>2 DEF Submit, Start
  <2>2. ASSUME NEW env \in Envelope, Pull(p, env) PROVE TypeOK'
    <3>1. env.commit \in Commit
      BY ConstitutionAssumption DEF EnvelopeType
    <3>2. [op |-> "pull", commit |-> env.commit, env |-> env] \in Request
      BY <3>1 DEF Request
    <3>3. ASSUME NEW r \in Reason, NEW c \in Commit \cup {NoCommit}
          PROVE  [status |-> "rejected", reason |-> r, commit |-> c,
                  event |-> 0] \in Reply
      BY ReplyType DEF Status
    <3>4. verify(env, NoCommit) \in Reason /\ "stale_evidence" \in Reason
      BY VerdictType DEF Reason
    <3>5. CASE UNCHANGED <<refs, at, locals>>
      <4>1. PICK r \in Reason, c \in Commit \cup {NoCommit} :
              reply' = [reply EXCEPT ![p] =
                 [status |-> "rejected", reason |-> r, commit |-> c, event |-> 0]]
        BY <2>2, <3>1, <3>4, <3>5, ZenonT(60) DEF Pull, Start
      <4> QED BY <3>3, <3>5, <4>1
    <3>6. CASE ~UNCHANGED <<refs, at, locals>>
      <4>1. /\ at[p] = "idle"
            /\ at' = [at EXCEPT ![p] = "pull_stop"]
            /\ req' = [req EXCEPT ![p] = [op |-> "pull", commit |-> env.commit, env |-> env]]
            /\ base' = [base EXCEPT ![p] = master]
            /\ reply' = [reply EXCEPT ![p] = NoReply]
            /\ UNCHANGED <<refs, seen>>
        BY <2>2, <3>6 DEF Pull, Start
      <4> QED BY <1>0, <3>2, <4>1
    <3> QED BY <3>5, <3>6
  <2>3. ASSUME NEW env \in Envelope, Clear(p, env) PROVE TypeOK'
    <3>1. env.commit \in Commit
      BY ConstitutionAssumption DEF EnvelopeType
    <3>2. [op |-> "clear", commit |-> env.commit, env |-> env] \in Request
      BY <3>1 DEF Request
    <3>3. ASSUME NEW r \in Reason
          PROVE  [status |-> "rejected", reason |-> r, commit |-> NoCommit,
                  event |-> 0] \in Reply
      BY ReplyType DEF Status
    <3>4. verify(env, NoCommit) \in Reason /\ "not_stopped" \in Reason
      BY VerdictType DEF Reason
    <3>5. CASE UNCHANGED <<refs, at, locals>>
      <4>1. PICK r \in Reason : reply' = [reply EXCEPT ![p] =
              [status |-> "rejected", reason |-> r, commit |-> NoCommit, event |-> 0]]
        BY <2>3, <3>4, <3>5 DEF Clear, Start
      <4> QED BY <3>3, <3>5, <4>1
    <3>6. CASE ~UNCHANGED <<refs, at, locals>>
      <4>1. /\ at[p] = "idle"
            /\ at' = [at EXCEPT ![p] = "clear_base"]
            /\ req' = [req EXCEPT ![p] = [op |-> "clear", commit |-> env.commit, env |-> env]]
            /\ seen' = [seen EXCEPT ![p] = stop]
            /\ reply' = [reply EXCEPT ![p] = NoReply]
            /\ UNCHANGED <<refs, base>>
        BY <2>3, <3>6 DEF Clear, Start
      <4> QED BY <1>0, <3>2, <4>1
    <3> QED BY <3>5, <3>6
  <2> QED BY <1>1, <2>1, <2>2, <2>3 DEF Begin
<1>2. ASSUME NEW p \in Call, Proceed(p) PROVE TypeOK'
  <2>0. /\ at[p] # "idle" => req[p].commit \in Commit /\ req[p].env \in Envelope
                             /\ req[p].env.commit \in Commit
        /\ Len(events) \in Nat
        /\ stop \in Nat /\ seen[p] \in Nat
    BY TypeFacts
  <2>1. CASE MergeReadStop(p)
    <3>1. \/ \E r \in Reply : Defer(p, r)
          \/ Goto(p, "merge_base") /\ UNCHANGED <<refs, locals, reply>>
      BY <2>0, <2>1, ResultType, VerdictType, Words DEF MergeReadStop
    <3>2. at[p] = "merge_stop"
      BY <2>1 DEF MergeReadStop
    <3> HIDE DEF TypeOK
    <3>3. CASE \E r \in Reply : Defer(p, r)
      BY <3>2, <3>3, DeferType
    <3>4. CASE ~(\E r \in Reply : Defer(p, r))
      BY <3>1, <3>2, <3>4, AdvanceType
    <3> QED BY <3>3, <3>4
  <2>2. CASE MergeReadBase(p)
    <3>1. \/ \E r \in Reply : Defer(p, r)
          \/ /\ base' = [base EXCEPT ![p] = master]
             /\ Goto(p, "merge_cas")
             /\ UNCHANGED <<refs, req, seen, reply>>
      BY <2>0, <2>2, ResultType, VerdictType, Words DEF MergeReadBase
    <3>2. at[p] = "merge_base"
      BY <2>2 DEF MergeReadBase
    <3> HIDE DEF TypeOK
    <3>3. CASE \E r \in Reply : Defer(p, r)
      BY <3>2, <3>3, DeferType
    <3>4. CASE ~(\E r \in Reply : Defer(p, r))
      BY <3>1, <3>2, <3>4, AdvanceType
    <3> QED BY <3>3, <3>4
  <2>3. CASE MergeUpdateRef(p)
    <3>0. at[p] = "merge_cas" /\ req[p].commit \in Commit
      BY <2>0, <2>3 DEF MergeUpdateRef
    <3>1. CASE master # base[p]
      <4>1. \E r \in Reply : Defer(p, r)
        BY <2>3, <3>1, ResultType, Words DEF MergeUpdateRef
      <4> QED BY <3>0, <4>1, DeferType
    <3>2. CASE master = base[p]
      <4>1. Result(p, "merged", "", 0) \in Reply
        BY <3>0, ResultType, Words
      <4>2. /\ Goto(p, "merge_cleanup")
            /\ master' = req[p].commit
            /\ reply' = [reply EXCEPT ![p] = Result(p, "merged", "", 0)]
            /\ UNCHANGED <<stop, events, candidates, req, seen, base>>
        BY <2>3, <3>2 DEF MergeUpdateRef
      <4>3. at[p] \in MergeStep /\ master' \in Commit
        BY <3>0, <4>2
      <4> HIDE DEF TypeOK, Goto, MergeStep
      <4> QED BY <4>1, <4>2, <4>3, MergedType
    <3> QED BY <3>1, <3>2
  <2>4. CASE MergeCleanup(p)
    BY <2>0, <2>4 DEF MergeCleanup, Forget
  <2>5. CASE PullReadStop(p)
    <3>1. CASE \E r \in Reply : Return(p, r) /\ UNCHANGED refs
      BY <3>1, ReturnType
    <3>2. CASE /\ Len(events) < MaxEvents
               /\ events' = Append(events, req[p].env.commit)
               /\ seen' = [seen EXCEPT ![p] = Len(events) + 1]
               /\ Goto(p, "pull_cas")
               /\ UNCHANGED <<master, stop, candidates, req, base, reply>>
      <4>1. req[p].env.commit \in Commit
        BY <2>0, <2>5 DEF PullReadStop
      <4>2. events' \in Seq(Commit \cup {NoCommit}) /\ Len(events') = Len(events) + 1
        BY <3>2, <4>1, AppendEvent
      <4>3. seen' \in [Call -> 0..Len(events')] /\ stop' \in 0..Len(events')
        BY <2>0, <3>2, <4>2
      <4>4. Len(events') <= MaxEvents
        BY <2>0, <3>2, <4>2, GuardAssumption
      <4> QED BY <2>5, <3>2, <4>2, <4>3, <4>4 DEF PullReadStop
    <3> QED BY <2>0, <2>5, <3>1, <3>2, ResultType, Words DEF PullReadStop
  <2>6. CASE PullUpdateRef(p)
    <3>1. \/ \E r \in Reply : /\ Return(p, r)
                              /\ stop' \in 0..Len(events)
                              /\ UNCHANGED <<master, events, candidates>>
          \/ Goto(p, "pull_lost") /\ UNCHANGED <<refs, locals, reply>>
      BY <2>0, <2>6, ResultType, Words, ZenonT(60) DEF PullUpdateRef
    <3>2. at[p] = "pull_cas"
      BY <2>6 DEF PullUpdateRef
    <3> HIDE DEF TypeOK
    <3>3. CASE \E r \in Reply : Return(p, r) /\ stop' \in 0..Len(events)
                                /\ UNCHANGED <<master, events, candidates>>
      BY <3>2, <3>3, ReturnType
    <3>4. CASE Goto(p, "pull_lost") /\ UNCHANGED <<refs, locals, reply>>
      BY <3>2, <3>4, AdvanceType
    <3> QED BY <3>1, <3>3, <3>4
  <2>7. CASE PullLost(p)
    <3>1. \E r \in Reply : Return(p, r) /\ UNCHANGED refs
      BY <2>0, <2>7, ResultType, Words DEF PullLost
    <3> QED BY <3>1, ReturnType
  <2>8. CASE ClearReadBase(p)
    <3>1. \/ \E r \in Reply : Return(p, r) /\ UNCHANGED refs
          \/ /\ base' = [base EXCEPT ![p] = master]
             /\ Goto(p, "clear_event")
             /\ UNCHANGED <<refs, req, seen, reply>>
      BY <2>0, <2>8, ResultType, Words DEF ClearReadBase
    <3>2. at[p] = "clear_base" /\ stop \in 0..Len(events)
      BY <2>8 DEF ClearReadBase
    <3> HIDE DEF TypeOK
    <3>3. CASE \E r \in Reply : Return(p, r) /\ UNCHANGED refs
      BY <3>2, <3>3, ReturnType
    <3>4. CASE ~(\E r \in Reply : Return(p, r) /\ UNCHANGED refs)
      BY <3>1, <3>2, <3>4, AdvanceType
    <3> QED BY <3>3, <3>4
  <2>9. CASE ClearReadEvent(p)
    <3>1. \/ \E r \in Reply : Return(p, r) /\ UNCHANGED refs
          \/ Goto(p, "clear_cas") /\ UNCHANGED <<refs, locals, reply>>
      BY <2>0, <2>9, ResultType, VerdictType, Words DEF ClearReadEvent
    <3>2. at[p] = "clear_event" /\ stop \in 0..Len(events)
      BY <2>9 DEF ClearReadEvent
    <3> HIDE DEF TypeOK
    <3>3. CASE \E r \in Reply : Return(p, r) /\ UNCHANGED refs
      BY <3>2, <3>3, ReturnType
    <3>4. CASE ~(\E r \in Reply : Return(p, r) /\ UNCHANGED refs)
      BY <3>1, <3>2, <3>4, AdvanceType
    <3> QED BY <3>3, <3>4
  <2>10. CASE ClearDeleteRef(p)
    <3>1. \E r \in Reply : /\ Return(p, r)
                           /\ stop' \in 0..Len(events)
                           /\ UNCHANGED <<master, events, candidates>>
      <4>1. CASE stop # seen[p]
        BY <2>0, <2>10, <4>1, ResultType, Words DEF ClearDeleteRef
      <4>2. CASE stop = seen[p]
        <5>1. Result(p, "cleared", "", seen[p]) \in Reply
          BY <2>0, <2>10, ResultType, Words DEF ClearDeleteRef
        <5>2. /\ Return(p, Result(p, "cleared", "", seen[p]))
              /\ stop' = 0
              /\ UNCHANGED <<master, events, candidates>>
          BY <2>10, <4>2 DEF ClearDeleteRef
        <5>3. 0 \in 0..Len(events)
          BY <2>0, SMT
        <5> QED BY <5>1, <5>2, <5>3
      <4> QED BY <4>1, <4>2
    <3> QED BY <3>1, ReturnType
  <2> QED BY <1>2, <2>1, <2>2, <2>3, <2>4, <2>5, <2>6, <2>7, <2>8, <2>9, <2>10
          DEF Proceed
<1>3. ASSUME NEW p \in Call, Fail(p) PROVE TypeOK'
  <2>1. \/ at[p] \in MergeStep /\ \E r \in Reply : Defer(p, r)
        \/ \E r \in Reply : Return(p, r) /\ UNCHANGED refs
    BY <1>3, ResultType, Words DEF Fail
  <2> QED BY <2>1, DeferType, ReturnType
<1>4. CASE Crash
  BY <1>0, <1>4, TypeFacts DEF Crash
<1>5. CASE StopByHand
  <2>0. Len(events) \in Nat /\ stop \in Nat
    BY DEF TypeOK
  <2>1. events' \in Seq(Commit \cup {NoCommit}) /\ Len(events') = Len(events) + 1
    BY <1>5, AppendEvent DEF StopByHand
  <2>2. seen' \in [Call -> 0..Len(events')] /\ stop' \in 0..Len(events')
    BY <1>5, <2>0, <2>1 DEF StopByHand
  <2>3. Len(events') <= MaxEvents
    BY <1>5, <2>0, <2>1, GuardAssumption DEF StopByHand
  <2> QED BY <1>5, <2>1, <2>2, <2>3 DEF StopByHand
<1>6. CASE UNCHANGED vars
  BY <1>6 DEF vars
<1> QED BY <1>1, <1>2, <1>3, <1>4, <1>5, <1>6 DEF Next

(* The types hold in every state the guard can reach.                      *)
THEOREM TypeCorrect == Spec => []TypeOK
BY TypeInit, TypeStep, PTL DEF Spec

-----------------------------------------------------------------------------
(* The inductive invariant: what every call in flight holds, and what that *)
(* makes of the refs and the replies.                                      *)
IInv ==
    /\ TypeOK
    /\ InFlight
    /\ StopHasCause
    /\ OnlyProvenCommits
    /\ RepliesHold

(* An event in flight stays unknown to the others if they learn no id but  *)
(* the stop, or a newer event.                                             *)
LEMMA FreshKeep ==
    ASSUME TypeOK, TypeOK', NEW q \in Call, Fresh(q),
           seen'[q] = seen[q], req'[q] = req[q],
           Len(events) <= Len(events'),
           \A i \in 1..Len(events) : events'[i] = events[i],
           stop' # seen[q],
           \A r \in Call \ {q} : seen'[r] \in {seen[r], 0, stop, Len(events) + 1},
           \A r \in Call : reply'[r].status = "cleared" =>
                             reply'[r].event # seen[q]
    PROVE  Fresh(q)'
<1>1. Len(events) \in Nat /\ Len(events') \in Nat
  BY DEF TypeOK
<1>2. seen[q] \in (1..Len(events)) \ {stop} /\ seen[q] # 0 /\ seen[q] # Len(events) + 1
  BY <1>1 DEF Fresh
<1>3. seen[q] \in 1..Len(events')
  BY <1>1, <1>2
<1> QED BY <1>2, <1>3 DEF Fresh

(* A call that takes no step keeps what it holds while the line grows and  *)
(* while the stop ref stays or moves to an event it does not know.         *)
LEMMA OthersKeep ==
    ASSUME TypeOK, TypeOK', NEW q \in Call, CallInv(q),
           at'[q] = at[q], req'[q] = req[q], seen'[q] = seen[q], base'[q] = base[q],
           Chain(master) \subseteq Chain(master'),
           Len(events) <= Len(events'),
           \A i \in 1..Len(events) : events'[i] = events[i],
           at[q] = "pull_cas" => Fresh(q)',
           at[q] \in {"clear_event", "clear_cas"} => stop' = stop \/ stop' # seen[q]
    PROVE  CallInv(q)'
<1>1. Len(events) \in Nat /\ stop \in 0..Len(events)
  BY DEF TypeOK
<1>2. stop' = stop => Stopped' = Stopped
  BY <1>1 DEF Stopped
<1> QED BY <1>2 DEF CallInv, ClearStep

(* A step of p that moves no ref but a candidate and reports no success.   *)
LEMMA QuietStep ==
    ASSUME IInv, TypeOK', NEW p \in Call, UNCHANGED <<master, stop, events>>,
           \A q \in Call \ {p} : /\ at'[q] = at[q] /\ req'[q] = req[q]
                                 /\ seen'[q] = seen[q] /\ base'[q] = base[q]
                                 /\ reply'[q] = reply[q],
           seen'[p] \in {seen[p], 0, stop},
           reply'[p] = reply[p] \/ reply'[p].status \in {"none", "rejected", "error"},
           CallInv(p)'
    PROVE  IInv'
<1>1. StopHasCause' /\ OnlyProvenCommits'
  BY DEF IInv, StopHasCause, OnlyProvenCommits, Stopped
<1>2. RepliesHold'
  BY DEF IInv, RepliesHold
<1>3. ASSUME NEW q \in Call \ {p} PROVE CallInv(q)'
  <2>1. CallInv(q) /\ TypeOK
    BY DEF IInv, InFlight
  <2>2. Len(events) <= Len(events')
    BY <2>1 DEF TypeOK
  <2>3. at[q] = "pull_cas" => Fresh(q)'
    <3> SUFFICES ASSUME at[q] = "pull_cas" PROVE Fresh(q)'
      OBVIOUS
    <3>1. Fresh(q)
      BY <2>1 DEF CallInv
    <3>2. \A r \in Call : reply'[r].status = "cleared" => reply'[r].event # seen[q]
      BY <3>1 DEF Fresh
    <3>3. stop' # seen[q]
      BY <3>1 DEF Fresh
    <3>4. \A r \in Call \ {q} : seen'[r] \in {seen[r], 0, stop, Len(events) + 1}
      OBVIOUS
    <3> QED BY <2>1, <2>2, <3>1, <3>2, <3>3, <3>4, FreshKeep
  <2> QED BY <2>1, <2>2, <2>3, OthersKeep
<1>4. InFlight'
  BY <1>3 DEF InFlight
<1> QED BY <1>1, <1>2, <1>4 DEF IInv

(* A call that is idle, cleaning up or has lost its race holds nothing.    *)
LEMMA Holdless ==
    ASSUME NEW p \in Call, at'[p] \in {"idle", "merge_stop", "merge_cleanup", "pull_lost"}
    PROVE  CallInv(p)'
BY DEF CallInv, ClearStep

(* A return without success, the refs untouched.                           *)
LEMMA QuietReturn ==
    ASSUME IInv, TypeOK', NEW p \in Call, NEW r \in Reply,
           r.status \in {"rejected", "error"},
           Return(p, r), UNCHANGED refs
    PROVE  IInv'
<1>1. /\ at' = [at EXCEPT ![p] = "idle"]
      /\ req' = [req EXCEPT ![p] = NoRequest]
      /\ seen' = [seen EXCEPT ![p] = 0]
      /\ base' = [base EXCEPT ![p] = NoCommit]
      /\ reply' = [reply EXCEPT ![p] = r]
      /\ UNCHANGED <<master, stop, events>>
  BY DEF Return, Forget, Goto, refs
<1>2. TypeOK
  BY DEF IInv
<1>3. at'[p] = "idle" /\ seen'[p] = 0 /\ reply'[p] = r
  BY <1>1, <1>2 DEF TypeOK
<1>4. CallInv(p)'
  BY <1>3, Holdless
<1>5. \A q \in Call \ {p} : /\ at'[q] = at[q] /\ req'[q] = req[q]
                            /\ seen'[q] = seen[q] /\ base'[q] = base[q]
                            /\ reply'[q] = reply[q]
  BY <1>1, <1>2 DEF TypeOK
<1> QED BY <1>1, <1>3, <1>4, <1>5, QuietStep

(* The same for a merge that goes on to its cleanup.                       *)
LEMMA QuietDefer ==
    ASSUME IInv, TypeOK', NEW p \in Call, NEW r \in Reply,
           r.status \in {"rejected", "error"}, Defer(p, r)
    PROVE  IInv'
<1>1. /\ at' = [at EXCEPT ![p] = "merge_cleanup"]
      /\ reply' = [reply EXCEPT ![p] = r]
      /\ UNCHANGED <<master, stop, events, req, seen, base>>
  BY DEF Defer, Goto, refs, locals
<1>2. TypeOK
  BY DEF IInv
<1>3. at'[p] = "merge_cleanup" /\ seen'[p] = seen[p] /\ reply'[p] = r
  BY <1>1, <1>2 DEF TypeOK
<1>4. CallInv(p)'
  BY <1>3, Holdless
<1>5. \A q \in Call \ {p} : /\ at'[q] = at[q] /\ req'[q] = req[q]
                            /\ seen'[q] = seen[q] /\ base'[q] = base[q]
                            /\ reply'[q] = reply[q]
  BY <1>1, <1>2 DEF TypeOK
<1> QED BY <1>1, <1>3, <1>4, <1>5, QuietStep

(* A call that starts, or goes on, with what it needs in hand.             *)
LEMMA QuietAdvance ==
    ASSUME IInv, TypeOK', NEW p \in Call, NEW step, NEW rq,
           at' = [at EXCEPT ![p] = step],
           req' = req \/ req' = [req EXCEPT ![p] = rq],
           seen' = seen \/ seen' = [seen EXCEPT ![p] = stop],
           base' = base \/ base' = [base EXCEPT ![p] = master],
           reply' = reply \/ reply' = [reply EXCEPT ![p] = NoReply],
           UNCHANGED <<master, stop, events>>,
           CallInv(p)'
    PROVE  IInv'
<1>1. TypeOK
  BY DEF IInv
<1>2. seen'[p] \in {seen[p], stop}
  BY <1>1 DEF TypeOK
<1>3. \A q \in Call \ {p} : /\ at'[q] = at[q] /\ req'[q] = req[q]
                            /\ seen'[q] = seen[q] /\ base'[q] = base[q]
                            /\ reply'[q] = reply[q]
  BY <1>1 DEF TypeOK
<1>4. reply'[p] \in {reply[p], NoReply}
  BY <1>1 DEF TypeOK
<1>5. NoReply.status = "none"
  BY DEF NoReply
<1>6. reply'[p] = reply[p] \/ reply'[p].status = "none"
  BY <1>4, <1>5
<1> QED BY <1>2, <1>3, <1>6, QuietStep

-----------------------------------------------------------------------------
(* Each step keeps the invariant.                                          *)
LEMMA BeginInv ==
    ASSUME IInv, TypeOK', NEW p \in Call, Begin(p)
    PROVE  IInv'
<1>0. TypeOK /\ at \in [Call -> {"idle"} \cup MergeStep \cup PullStep \cup ClearStep]
      /\ req \in [Call -> Request \cup {NoRequest}] /\ seen \in [Call -> 0..Len(events)]
  BY DEF IInv, TypeOK
<1>1. ASSUME NEW s \in Submission, Submit(p, s[1], s[2]) PROVE IInv'
  <2>1. at'[p] = "merge_stop"
    BY <1>0, <1>1 DEF Submit, Goto
  <2>2. CallInv(p)'
    BY <2>1, Holdless
  <2> QED BY <1>1, <2>2, QuietAdvance DEF Submit, Start, Goto
<1>2. ASSUME NEW env \in Envelope, Pull(p, env) PROVE IInv'
  <2>1. CASE UNCHANGED <<refs, at, locals>>
    <3>0. PICK r, c : reply' = [reply EXCEPT ![p] =
              [status |-> "rejected", reason |-> r, commit |-> c, event |-> 0]]
      BY <1>0, <1>2, <2>1 DEF Pull, Start, Goto, PullStep, ClearStep
    <3>1. reply'[p].status = "rejected" /\ at[p] = "idle"
      BY <1>0, <1>2, <3>0 DEF Pull, Start, TypeOK
    <3>2. CallInv(p)'
      BY <2>1, <3>1, Holdless
    <3>3. \A q \in Call \ {p} : reply'[q] = reply[q]
      BY <1>0, <3>0 DEF TypeOK
    <3> QED BY <2>1, <3>1, <3>2, <3>3, QuietStep DEF refs, locals
  <2>2. CASE ~UNCHANGED <<refs, at, locals>>
    <3>1. /\ verify(env, NoCommit) = "" /\ env.commit = master
          /\ at' = [at EXCEPT ![p] = "pull_stop"]
          /\ req' = [req EXCEPT ![p] = [op |-> "pull", commit |-> env.commit, env |-> env]]
          /\ base' = [base EXCEPT ![p] = master]
          /\ reply' = [reply EXCEPT ![p] = NoReply]
          /\ UNCHANGED <<master, stop, events, candidates, seen>>
      BY <1>2, <2>2 DEF Pull, Start, Goto, refs
    <3>2. at'[p] = "pull_stop" /\ req'[p].commit = master' /\ req'[p].env = env
      BY <1>0, <3>1
    <3>3. Trustworthy(env) /\ master' \in Chain(master')
      BY <3>1, VerifySound, ChainSelf DEF IInv, TypeOK
    <3>4. CallInv(p)'
      BY <3>1, <3>2, <3>3 DEF CallInv, ClearStep
    <3> QED BY <3>1, <3>4, QuietAdvance
  <2> QED BY <2>1, <2>2
<1>3. ASSUME NEW env \in Envelope, Clear(p, env) PROVE IInv'
  <2>1. CASE UNCHANGED <<refs, at, locals>>
    <3>0. PICK r : reply' = [reply EXCEPT ![p] =
              [status |-> "rejected", reason |-> r, commit |-> NoCommit, event |-> 0]]
      BY <1>0, <1>3, <2>1 DEF Clear, Start, Goto, PullStep, ClearStep
    <3>1. reply'[p].status = "rejected" /\ at[p] = "idle"
      BY <1>0, <1>3, <3>0 DEF Clear, Start, TypeOK
    <3>2. CallInv(p)'
      BY <2>1, <3>1, Holdless
    <3>3. \A q \in Call \ {p} : reply'[q] = reply[q]
      BY <1>0, <3>0 DEF TypeOK
    <3> QED BY <2>1, <3>1, <3>2, <3>3, QuietStep DEF refs, locals
  <2>2. CASE ~UNCHANGED <<refs, at, locals>>
    <3>1. /\ verify(env, NoCommit) = "" /\ stop # 0
          /\ at' = [at EXCEPT ![p] = "clear_base"]
          /\ req' = [req EXCEPT ![p] = [op |-> "clear", commit |-> env.commit, env |-> env]]
          /\ seen' = [seen EXCEPT ![p] = stop]
          /\ reply' = [reply EXCEPT ![p] = NoReply]
          /\ UNCHANGED <<master, stop, events, candidates, base>>
      BY <1>3, <2>2 DEF Clear, Start, Goto, refs
    <3>2. at'[p] = "clear_base" /\ req'[p].commit = env.commit /\ req'[p].env = env
          /\ seen'[p] = stop
      BY <1>0, <3>1
    <3>3. Trustworthy(env)
      BY <3>1, VerifySound
    <3>4. CallInv(p)'
      BY <3>1, <3>2, <3>3 DEF CallInv, ClearStep
    <3> QED BY <3>1, <3>4, QuietAdvance
  <2> QED BY <2>1, <2>2
<1> QED BY <1>1, <1>2, <1>3 DEF Begin

(* The result of a call that did not succeed.                              *)
LEMMA QuietResult ==
    ASSUME TypeOK, NEW p \in Call, at[p] # "idle",
           NEW status \in {"rejected", "error"}, NEW reason \in Reason, NEW id \in Nat
    PROVE  /\ Result(p, status, reason, id) \in Reply
           /\ Result(p, status, reason, id).status \in {"rejected", "error"}
BY ResultType, Words DEF Result

LEMMA MergeReadInv ==
    ASSUME IInv, TypeOK', NEW p \in Call, MergeReadStop(p) \/ MergeReadBase(p) \/ MergeCleanup(p)
    PROVE  IInv'
<1>0. /\ TypeOK
      /\ at[p] # "idle" => req[p].commit \in Commit /\ req[p].env \in Envelope
      /\ stop \in Nat /\ 0 \in Nat
      /\ at \in [Call -> {"idle"} \cup MergeStep \cup PullStep \cup ClearStep]
      /\ base \in [Call -> Commit \cup {NoCommit}]
      /\ CallInv(p)
  BY TypeFacts DEF IInv, InFlight, TypeOK
<1>1. CASE MergeReadStop(p)
  <2>1. CASE Goto(p, "merge_base") /\ UNCHANGED <<refs, locals, reply>>
                                   /\ MergeVerdict(req[p].commit, req[p].env) = ""
    <3>1. at'[p] = "merge_base" /\ req'[p] = req[p]
      BY <1>0, <2>1 DEF Goto, locals
    <3>2. CallInv(p)'
      BY <2>1, <3>1 DEF CallInv, ClearStep
    <3> QED BY <2>1, <3>2, QuietAdvance DEF Goto, refs, locals
  <2>2. CASE \E r \in Reply : r.status \in {"rejected", "error"} /\ Defer(p, r)
    BY <2>2, QuietDefer
  <2> QED BY <1>0, <1>1, <2>1, <2>2, QuietResult, VerdictType, Words DEF MergeReadStop
<1>2. CASE MergeReadBase(p)
  <2>1. CASE /\ base' = [base EXCEPT ![p] = master]
             /\ Goto(p, "merge_cas")
             /\ UNCHANGED <<refs, req, seen, reply>>
             /\ Parent[req[p].commit] = master
             /\ gate(req[p].env, req[p].commit) = ""
    <3>1. at'[p] = "merge_cas" /\ req'[p] = req[p] /\ base'[p] = master /\ at[p] = "merge_base"
      BY <1>0, <1>2, <2>1 DEF Goto, MergeReadBase
    <3>2. MergeVerdict(req[p].commit, req[p].env) = ""
      BY <1>0, <3>1 DEF CallInv
    <3>3. req[p].commit \in Proven
      BY <1>0, <2>1, <3>1, <3>2, MergeSound
    <3>4. CallInv(p)'
      BY <2>1, <3>1, <3>2, <3>3 DEF CallInv, ClearStep
    <3> QED BY <2>1, <3>4, QuietAdvance DEF Goto, refs
  <2>2. CASE \E r \in Reply : r.status \in {"rejected", "error"} /\ Defer(p, r)
    BY <2>2, QuietDefer
  <2> QED BY <1>0, <1>2, <2>1, <2>2, QuietResult, VerdictType, Words DEF MergeReadBase
<1>3. CASE MergeCleanup(p)
  <2>1. /\ at' = [at EXCEPT ![p] = "idle"]
        /\ req' = [req EXCEPT ![p] = NoRequest]
        /\ seen' = [seen EXCEPT ![p] = 0]
        /\ base' = [base EXCEPT ![p] = NoCommit]
        /\ UNCHANGED <<master, stop, events, reply>>
    BY <1>3 DEF MergeCleanup, Forget, Goto
  <2>2. at'[p] = "idle" /\ seen'[p] = 0
    BY <1>0, <2>1 DEF TypeOK
  <2>3. CallInv(p)'
    BY <2>2, Holdless
  <2>4. \A q \in Call \ {p} : /\ at'[q] = at[q] /\ req'[q] = req[q]
                              /\ seen'[q] = seen[q] /\ base'[q] = base[q]
                              /\ reply'[q] = reply[q]
    BY <1>0, <2>1 DEF TypeOK
  <2> QED BY <2>1, <2>2, <2>3, <2>4, QuietStep
<1> QED BY <1>1, <1>2, <1>3

(* master moves to a proven child of itself.                               *)
LEMMA MergeUpdateInv ==
    ASSUME IInv, TypeOK', NEW p \in Call, MergeUpdateRef(p)
    PROVE  IInv'
<1>0. /\ TypeOK /\ CallInv(p) /\ at[p] = "merge_cas"
      /\ req[p].commit \in Commit /\ req[p].env \in Envelope
      /\ 0 \in Nat /\ Len(events) \in Nat
  BY TypeFacts DEF IInv, InFlight, MergeUpdateRef
<1>1. CASE \E r \in Reply : r.status \in {"rejected", "error"} /\ Defer(p, r)
  BY <1>1, QuietDefer
<1>2. CASE /\ master = base[p]
           /\ master' = req[p].commit
           /\ Goto(p, "merge_cleanup")
           /\ reply' = [reply EXCEPT ![p] = Result(p, "merged", "", 0)]
           /\ UNCHANGED <<stop, events, candidates, locals>>
  <2>1. master' \in Commit /\ master' \in Proven /\ Parent[master'] = master /\ master \in Commit
    BY <1>0, <1>2 DEF CallInv, TypeOK
  <2>2. /\ Chain(master) \subseteq Chain(master')
        /\ Chain(master') \subseteq {master'} \cup Chain(master)
        /\ master' \in Chain(master')
    BY <2>1, ChainStep, ChainSelf
  <2>3. OnlyProvenCommits'
    BY <2>1, <2>2 DEF IInv, OnlyProvenCommits
  <2>4. Stopped' = Stopped /\ StopHasCause'
    BY <1>2, <2>2 DEF IInv, StopHasCause, Stopped
  <2>5. /\ reply'[p].status = "merged" /\ reply'[p].commit = master'
        /\ at'[p] = "merge_cleanup"
        /\ \A q \in Call \ {p} : reply'[q] = reply[q] /\ at'[q] = at[q]
    BY <1>0, <1>2 DEF TypeOK, Goto, Result
  <2>6. RepliesHold'
    BY <1>2, <2>2, <2>5, ZenonT(60) DEF IInv, RepliesHold
  <2>7. ASSUME NEW q \in Call PROVE CallInv(q)'
    <3>1. CASE q = p
      BY <2>5, <3>1, Holdless
    <3>2. CASE q # p
      <4>1. CallInv(q) /\ at'[q] = at[q]
        BY <2>5, <3>2 DEF IInv, InFlight
      <4>2. Len(events) <= Len(events')
        <5>1. Len(events') = Len(events)
          BY <1>2
        <5> QED BY <1>0, <5>1
      <4>3. at[q] = "pull_cas" => Fresh(q)'
        BY <1>2, <2>5, <4>1 DEF CallInv, Fresh, locals
      <4> QED BY <1>0, <1>2, <2>2, <4>1, <4>2, <4>3, OthersKeep DEF locals
    <3> QED BY <3>1, <3>2
  <2> QED BY <2>3, <2>4, <2>6, <2>7 DEF IInv, InFlight
<1> QED BY <1>0, <1>1, <1>2, QuietResult, Words DEF MergeUpdateRef

(* A pull looks at the stop ref and writes its event.                      *)
LEMMA PullReadInv ==
    ASSUME IInv, TypeOK', NEW p \in Call, PullReadStop(p)
    PROVE  IInv'
<1>0. /\ TypeOK /\ CallInv(p) /\ at[p] = "pull_stop"
      /\ req[p].commit \in Commit /\ req[p].env \in Envelope
      /\ req[p].env.commit \in Commit
      /\ 0 \in Nat /\ stop \in Nat /\ Len(events) \in Nat
  BY TypeFacts DEF IInv, InFlight, PullReadStop
<1>1. CASE \E r \in Reply : r.status \in {"rejected", "error"} /\ Return(p, r) /\ UNCHANGED refs
  BY <1>1, QuietReturn
<1>2. CASE /\ stop = 0
           /\ failingCheck(req[p].env.checks)
           /\ events' = Append(events, req[p].env.commit)
           /\ seen' = [seen EXCEPT ![p] = Len(events) + 1]
           /\ Goto(p, "pull_cas")
           /\ UNCHANGED <<master, stop, candidates, req, base, reply>>
  <2>1. /\ Len(events') = Len(events) + 1
        /\ events'[Len(events) + 1] = req[p].env.commit
        /\ \A i \in 1..Len(events) : events'[i] = events[i]
    BY <1>0, <1>2, AppendEvent
  <2>2. /\ at'[p] = "pull_cas" /\ seen'[p] = Len(events) + 1
        /\ \A q \in Call \ {p} : at'[q] = at[q] /\ seen'[q] = seen[q]
    BY <1>0, <1>2 DEF TypeOK, Goto
  <2>3. Stopped' = Stopped /\ StopHasCause' /\ OnlyProvenCommits'
    BY <1>2 DEF IInv, StopHasCause, OnlyProvenCommits, Stopped
  <2>4. RepliesHold'
    <3>1. 1..Len(events) \subseteq 1..Len(events')
      BY <1>0, <2>1
    <3> QED BY <1>2, <2>1, <3>1 DEF IInv, RepliesHold
  <2>5. /\ Trustworthy(req[p].env) /\ req[p].env.commit = req[p].commit
        /\ req[p].commit \in Chain(master) /\ req[p].commit \in Refuted
    BY <1>0, <1>2, PullSound DEF CallInv
  <2>6. Fresh(p)'
    <3>1. seen'[p] \in (1..Len(events')) \ {stop'}
      BY <1>0, <1>2, <2>1, <2>2
    <3>2. events'[seen'[p]] = req'[p].commit
      BY <1>2, <2>1, <2>2, <2>5
    <3>3. \A q \in Call \ {p} : seen'[q] # seen'[p]
      BY <1>0, <2>2 DEF TypeOK
    <3>4. \A q \in Call : reply[q].status = "cleared" => reply[q].event # Len(events) + 1
      BY <1>0 DEF IInv, RepliesHold
    <3> QED BY <1>2, <2>2, <3>1, <3>2, <3>3, <3>4 DEF Fresh
  <2>7. ASSUME NEW q \in Call PROVE CallInv(q)'
    <3>1. CASE q = p
      BY <1>2, <2>2, <2>5, <2>6, <3>1 DEF CallInv, ClearStep
    <3>2. CASE q # p
      <4>1. CallInv(q) /\ at'[q] = at[q] /\ seen'[q] = seen[q]
        BY <2>2, <3>2 DEF IInv, InFlight
      <4>2. Len(events) <= Len(events')
        BY <1>0, <2>1
      <4>3. at[q] = "pull_cas" => Fresh(q)'
        <5> SUFFICES ASSUME at[q] = "pull_cas" PROVE Fresh(q)'
          OBVIOUS
        <5>1. Fresh(q)
          BY <4>1 DEF CallInv
        <5>2. \A r \in Call : reply'[r].status = "cleared" => reply'[r].event # seen[q]
          BY <1>2, <5>1 DEF Fresh
        <5>3. stop' # seen[q]
          BY <1>2, <5>1 DEF Fresh
        <5>4. \A r \in Call \ {q} : seen'[r] \in {seen[r], 0, stop, Len(events) + 1}
          BY <2>2
        <5> QED BY <1>0, <1>2, <2>1, <4>1, <4>2, <5>1, <5>2, <5>3, <5>4, FreshKeep
      <4> QED BY <1>0, <1>2, <2>1, <4>1, <4>2, <4>3, OthersKeep
    <3> QED BY <3>1, <3>2
  <2> QED BY <2>3, <2>4, <2>7 DEF IInv, InFlight
<1> QED BY <1>0, <1>1, <1>2, QuietResult, Words DEF PullReadStop

(* The stop ref is created, or the race is lost.                           *)
LEMMA PullUpdateInv ==
    ASSUME IInv, TypeOK', NEW p \in Call, PullUpdateRef(p) \/ PullLost(p)
    PROVE  IInv'
<1>0. /\ TypeOK /\ CallInv(p) /\ at[p] \in {"pull_cas", "pull_lost"}
      /\ req[p].commit \in Commit
      /\ 0 \in Nat /\ stop \in Nat /\ Len(events) \in Nat
  BY TypeFacts DEF IInv, InFlight, PullUpdateRef, PullLost
<1>1. CASE \E r \in Reply : r.status \in {"rejected", "error"} /\ Return(p, r) /\ UNCHANGED refs
  BY <1>1, QuietReturn
<1>2. CASE Goto(p, "pull_lost") /\ UNCHANGED <<refs, locals, reply>>
  <2>1. at'[p] = "pull_lost"
    BY <1>0, <1>2 DEF Goto, TypeOK
  <2>2. CallInv(p)'
    BY <2>1, Holdless
  <2> QED BY <1>2, <2>2, QuietAdvance DEF Goto, refs, locals
<1>3. CASE /\ at[p] = "pull_cas"
           /\ stop = 0
           /\ stop' = seen[p]
           /\ Return(p, Result(p, "stopped", "", seen[p]))
           /\ UNCHANGED <<master, events, candidates>>
  <2>1. /\ req[p].commit \in Chain(master) /\ req[p].commit \in Refuted /\ Fresh(p)
        /\ seen[p] \in 1..Len(events) /\ events[seen[p]] = req[p].commit
    BY <1>0, <1>3 DEF CallInv, Fresh
  <2>2. /\ at' = [at EXCEPT ![p] = "idle"]
        /\ req' = [req EXCEPT ![p] = NoRequest]
        /\ seen' = [seen EXCEPT ![p] = 0]
        /\ base' = [base EXCEPT ![p] = NoCommit]
        /\ reply' = [reply EXCEPT ![p] = Result(p, "stopped", "", seen[p])]
    BY <1>3 DEF Return, Forget, Goto
  <2>3. /\ at'[p] = "idle" /\ seen'[p] = 0
        /\ reply'[p].status = "stopped" /\ reply'[p].event = seen[p]
        /\ reply'[p].commit = req[p].commit
        /\ \A q \in Call \ {p} : /\ at'[q] = at[q] /\ req'[q] = req[q]
                                 /\ seen'[q] = seen[q] /\ base'[q] = base[q]
                                 /\ reply'[q] = reply[q]
    BY <1>0, <2>2, ZenonT(60) DEF TypeOK, Result
  <2>0. /\ events' = events /\ master' = master
        /\ \A i \in 1..Len(events) : events'[i] = events[i]
        /\ Chain(master) \subseteq Chain(master')
    BY <1>3
  <2>00. Len(events) <= Len(events')
    BY <1>0, <2>0
  <2>4. Stopped' = req[p].commit
    <3>1. seen[p] # 0
      BY <1>0, <2>1
    <3> QED BY <1>3, <2>0, <2>1, <3>1 DEF Stopped
  <2>5. StopHasCause' /\ OnlyProvenCommits'
    BY <1>3, <2>1, <2>4 DEF IInv, StopHasCause, OnlyProvenCommits
  <2>6. RepliesHold'
    <3>1. \A q \in Call \ {p} : reply[q].status = "cleared" => reply[q].event # seen[p]
      BY <2>1 DEF Fresh
    <3> QED BY <1>3, <2>1, <2>3, <3>1, ZenonT(60) DEF IInv, RepliesHold
  <2>7. ASSUME NEW q \in Call PROVE CallInv(q)'
    <3>1. CASE q = p
      BY <2>3, <3>1, Holdless
    <3>2. CASE q # p
      <4>1. CallInv(q) /\ at'[q] = at[q] /\ seen'[q] = seen[q]
        BY <2>3, <3>2 DEF IInv, InFlight
      <4>2. stop' # seen[q]
        BY <1>3, <2>1, <3>2 DEF Fresh
      <4>3. at[q] = "pull_cas" => Fresh(q)'
        <5> SUFFICES ASSUME at[q] = "pull_cas" PROVE Fresh(q)'
          OBVIOUS
        <5>1. Fresh(q)
          BY <4>1 DEF CallInv
        <5>2. \A r \in Call : reply'[r].status = "cleared" => reply'[r].event # seen[q]
          BY <2>3, <5>1 DEF Fresh
        <5>3. \A r \in Call \ {q} : seen'[r] \in {seen[r], 0, stop, Len(events) + 1}
          BY <2>3
        <5> QED BY <1>0, <2>0, <2>00, <2>3, <3>2, <4>1, <4>2, <5>1, <5>2, <5>3, FreshKeep
      <4> QED BY <1>0, <2>0, <2>00, <2>3, <3>2, <4>1, <4>2, <4>3, OthersKeep
    <3> QED BY <3>1, <3>2
  <2> QED BY <2>5, <2>6, <2>7 DEF IInv, InFlight
<1> QED BY <1>0, <1>1, <1>2, <1>3, QuietResult, Words DEF PullUpdateRef, PullLost

(* A clear reads master and the event, and lifts the event it read.        *)
LEMMA ClearInv ==
    ASSUME IInv, TypeOK', NEW p \in Call,
           ClearReadBase(p) \/ ClearReadEvent(p) \/ ClearDeleteRef(p)
    PROVE  IInv'
<1>0. /\ TypeOK /\ CallInv(p) /\ at[p] \in ClearStep
      /\ at \in [Call -> {"idle"} \cup MergeStep \cup PullStep \cup ClearStep]
      /\ req[p].commit \in Commit /\ req[p].env \in Envelope
      /\ 0 \in Nat /\ stop \in Nat /\ Len(events) \in Nat /\ seen[p] \in Nat
  BY TypeFacts DEF IInv, InFlight, ClearReadBase, ClearReadEvent, ClearDeleteRef,
                   ClearStep, TypeOK
<1>1. CASE \E r \in Reply : r.status \in {"rejected", "error"} /\ Return(p, r) /\ UNCHANGED refs
  BY <1>1, QuietReturn
<1>2. CASE /\ req[p].commit = master
           /\ base' = [base EXCEPT ![p] = master]
           /\ Goto(p, "clear_event")
           /\ UNCHANGED <<refs, req, seen, reply>>
  <2>1. at'[p] = "clear_event" /\ req'[p] = req[p] /\ seen'[p] = seen[p]
    BY <1>0, <1>2 DEF Goto
  <2>2. UNCHANGED <<master, stop, Stopped>>
    BY <1>2 DEF refs, Stopped
  <2>3. master \in Chain(master)
    BY ChainSelf DEF IInv, TypeOK
  <2>4. Stopped # NoCommit => Stopped \in Chain(master)
    BY DEF IInv, StopHasCause
  <2>5. Trustworthy(req[p].env) /\ req[p].env.commit = req[p].commit /\ seen[p] # 0
    BY <1>0 DEF CallInv
  <2>6. CallInv(p)'
    BY <1>2, <2>1, <2>2, <2>3, <2>4, <2>5 DEF CallInv, ClearStep
  <2> QED BY <1>2, <2>6, QuietAdvance DEF Goto, refs
<1>3. CASE /\ at[p] = "clear_event"
           /\ Stopped # req[p].commit
           /\ checkResults(req[p].env.checks, FALSE) = ""
           /\ Goto(p, "clear_cas")
           /\ UNCHANGED <<refs, locals, reply>>
  <2>1. at'[p] = "clear_cas" /\ req'[p] = req[p] /\ seen'[p] = seen[p]
    BY <1>0, <1>3 DEF Goto, locals
  <2>2. UNCHANGED <<master, stop, Stopped>>
    BY <1>3 DEF refs, Stopped
  <2>3. /\ Trustworthy(req[p].env) /\ req[p].env.commit = req[p].commit /\ seen[p] # 0
        /\ req[p].commit \in Chain(master)
        /\ stop = seen[p] /\ Stopped # NoCommit => Stopped \in Chain(req[p].commit)
    BY <1>0, <1>3 DEF CallInv
  <2>4. req[p].commit \in Repaired
    BY <1>0, <1>3, <2>3, ClearSound
  <2>5. CallInv(p)'
    BY <1>3, <2>1, <2>2, <2>3, <2>4 DEF CallInv, ClearStep
  <2> QED BY <1>3, <2>5, QuietAdvance DEF Goto, refs, locals
<1>4. CASE /\ stop = seen[p]
           /\ stop' = 0
           /\ Return(p, Result(p, "cleared", "", seen[p]))
           /\ UNCHANGED <<master, events, candidates>>
  <2>0. /\ events' = events /\ master' = master
        /\ \A i \in 1..Len(events) : events'[i] = events[i]
        /\ Chain(master) \subseteq Chain(master')
    BY <1>4
  <2>00. Len(events) <= Len(events')
    BY <1>0, <2>0
  <2>1. seen[p] # 0 /\ stop \in 1..Len(events)
    <3>1. seen[p] # 0
      BY <1>0 DEF CallInv
    <3>2. stop \in 0..Len(events) /\ Len(events) \in Nat
      BY <1>0 DEF TypeOK
    <3>3. stop # 0
      BY <1>4, <3>1
    <3>4. stop \in 1..Len(events)
      BY <3>2, <3>3
    <3> QED BY <3>1, <3>4
  <2>2. /\ at' = [at EXCEPT ![p] = "idle"]
        /\ req' = [req EXCEPT ![p] = NoRequest]
        /\ seen' = [seen EXCEPT ![p] = 0]
        /\ base' = [base EXCEPT ![p] = NoCommit]
        /\ reply' = [reply EXCEPT ![p] = Result(p, "cleared", "", seen[p])]
    BY <1>4 DEF Return, Forget, Goto
  <2>3. /\ at'[p] = "idle" /\ seen'[p] = 0
        /\ reply'[p].status = "cleared" /\ reply'[p].event = stop
        /\ \A q \in Call \ {p} : /\ at'[q] = at[q] /\ req'[q] = req[q]
                                 /\ seen'[q] = seen[q] /\ base'[q] = base[q]
                                 /\ reply'[q] = reply[q]
    BY <1>0, <1>4, <2>2, ZenonT(60) DEF TypeOK, Result
  <2>4. Stopped' = NoCommit
    BY <1>4 DEF Stopped
  <2>5. StopHasCause' /\ OnlyProvenCommits'
    BY <1>4, <2>4 DEF IInv, StopHasCause, OnlyProvenCommits
  <2>6. RepliesHold'
    <3>1. 1..Len(events) = (1..Len(events)) \ {0}
      BY <1>0
    <3> QED BY <1>4, <2>0, <2>1, <2>3, <3>1, ZenonT(60) DEF IInv, RepliesHold
  <2>7. ASSUME NEW q \in Call PROVE CallInv(q)'
    <3>1. CASE q = p
      BY <2>3, <3>1, Holdless
    <3>2. CASE q # p
      <4>1. CallInv(q) /\ at'[q] = at[q] /\ seen'[q] = seen[q]
        BY <2>3, <3>2 DEF IInv, InFlight
      <4>2. at[q] \in {"clear_event", "clear_cas"} => stop' # seen[q]
        BY <1>4, <4>1 DEF CallInv, ClearStep
      <4>3. at[q] = "pull_cas" => Fresh(q)'
        <5> SUFFICES ASSUME at[q] = "pull_cas" PROVE Fresh(q)'
          OBVIOUS
        <5>1. Fresh(q)
          BY <4>1 DEF CallInv
        <5>2. \A r \in Call : reply'[r].status = "cleared" => reply'[r].event # seen[q]
          BY <2>3, <5>1 DEF Fresh
        <5>3. \A r \in Call \ {q} : seen'[r] \in {seen[r], 0, stop, Len(events) + 1}
          BY <2>3
        <5>4. stop' # seen[q]
          <6>1. seen[q] \in 1..Len(events)
            BY <5>1 DEF Fresh
          <6>2. stop' = 0 /\ Len(events) \in Nat
            BY <1>0, <1>4
          <6> QED BY <6>1, <6>2
        <5> QED BY <1>0, <2>0, <2>00, <2>3, <3>2, <4>1, <5>1, <5>2, <5>3, <5>4, FreshKeep
      <4> QED BY <1>0, <2>0, <2>00, <2>3, <3>2, <4>1, <4>2, <4>3, OthersKeep
    <3> QED BY <3>1, <3>2
  <2> QED BY <2>5, <2>6, <2>7 DEF IInv, InFlight
<1> QED BY <1>0, <1>1, <1>2, <1>3, <1>4, QuietResult, VerdictType, Words
        DEF ClearReadBase, ClearReadEvent, ClearDeleteRef

(* The server dies: no call is left to hold anything.                      *)
LEMMA CrashInv ==
    ASSUME IInv, TypeOK', Crash
    PROVE  IInv'
<1>1. /\ master' = master /\ stop' = stop /\ events' = events
      /\ \A q \in Call : at'[q] = "idle" /\ reply'[q] = NoReply
  BY DEF Crash, refs
<1>2. StopHasCause' /\ OnlyProvenCommits'
  BY <1>1 DEF IInv, StopHasCause, OnlyProvenCommits, Stopped
<1>3. RepliesHold'
  <2>1. \A q \in Call : reply'[q].status = "none"
    <3>1. NoReply.status = "none"
      BY DEF NoReply
    <3> QED BY <1>1, <3>1
  <2> QED BY <2>1 DEF RepliesHold
<1>4. InFlight'
  BY <1>1, Holdless DEF InFlight
<1> QED BY <1>2, <1>3, <1>4 DEF IInv

(* A stop made by hand is an event that nobody knows.                      *)
LEMMA ByHandInv ==
    ASSUME IInv, TypeOK', StopByHand
    PROVE  IInv'
<1>0. TypeOK /\ Len(events) \in Nat
  BY DEF IInv, TypeOK
<1>1. /\ Len(events') = Len(events) + 1
      /\ events'[Len(events) + 1] = NoCommit
      /\ \A i \in 1..Len(events) : events'[i] = events[i]
  BY <1>0, AppendEvent DEF StopByHand
<1>2. /\ stop' = Len(events) + 1 /\ master' = master
      /\ Chain(master) \subseteq Chain(master')
      /\ UNCHANGED <<at, req, seen, base, reply>>
  BY DEF StopByHand, locals
<1>3. Len(events) <= Len(events') /\ stop' # 0 /\ 1..Len(events) \subseteq 1..Len(events')
      /\ \A i \in 1..Len(events) : i # stop'
  BY <1>0, <1>1, <1>2
<1>4. Stopped' = NoCommit
  BY <1>1, <1>2, <1>3 DEF Stopped
<1>5. StopHasCause' /\ OnlyProvenCommits'
  BY <1>2, <1>4 DEF IInv, StopHasCause, OnlyProvenCommits
<1>6. RepliesHold'
  BY <1>1, <1>2, <1>3 DEF IInv, RepliesHold
<1>7. ASSUME NEW q \in Call PROVE CallInv(q)'
  <2>1. CallInv(q)
    BY DEF IInv, InFlight
  <2>2. stop' # seen[q]
    <3>1. seen[q] \in 0..Len(events)
      BY <1>0 DEF TypeOK
    <3> QED BY <1>0, <1>2, <3>1
  <2>3. at[q] = "pull_cas" => Fresh(q)'
    <3> SUFFICES ASSUME at[q] = "pull_cas" PROVE Fresh(q)'
      OBVIOUS
    <3>1. Fresh(q)
      BY <2>1 DEF CallInv
    <3>2. \A r \in Call : reply'[r].status = "cleared" => reply'[r].event # seen[q]
      BY <1>2, <3>1 DEF Fresh
    <3>3. \A r \in Call \ {q} : seen'[r] \in {seen[r], 0, stop, Len(events) + 1}
      BY <1>2
    <3> QED BY <1>0, <1>1, <1>2, <1>3, <2>2, <3>1, <3>2, <3>3, FreshKeep
  <2> QED BY <1>0, <1>1, <1>2, <1>3, <2>1, <2>2, <2>3, OthersKeep
<1> QED BY <1>5, <1>6, <1>7 DEF IInv, InFlight

(* A call that ends in an error.                                           *)
LEMMA FailInv ==
    ASSUME IInv, TypeOK', NEW p \in Call, Fail(p)
    PROVE  IInv'
<1>0. TypeOK /\ 0 \in Nat /\ at[p] # "idle" /\ "" \in Reason
  BY Words DEF IInv, Fail, PullStep, ClearStep
<1>1. \/ \E r \in Reply : r.status \in {"rejected", "error"} /\ Defer(p, r)
      \/ \E r \in Reply : r.status \in {"rejected", "error"} /\ Return(p, r) /\ UNCHANGED refs
  BY <1>0, QuietResult DEF Fail
<1> QED BY <1>1, QuietDefer, QuietReturn

LEMMA InvInit == Init => IInv
<1> SUFFICES ASSUME Init PROVE IInv
  OBVIOUS
<1>1. TypeOK
  BY TypeInit
<1>2. master = Seed /\ stop = 0 /\ \A p \in Call : at[p] = "idle" /\ reply[p] = NoReply
  BY DEF Init
<1>3. InFlight
  BY <1>2 DEF InFlight, CallInv, ClearStep
<1>4. StopHasCause /\ OnlyProvenCommits
  BY <1>2 DEF StopHasCause, Stopped, OnlyProvenCommits
<1>5. \A p \in Call : reply[p].status = "none"
  <2>1. NoReply.status = "none"
    BY DEF NoReply
  <2> QED BY <1>2, <2>1
<1>6. RepliesHold
  BY <1>5 DEF RepliesHold
<1> QED BY <1>1, <1>3, <1>4, <1>6 DEF IInv

LEMMA InvStep == IInv /\ [Next]_vars => IInv'
<1> SUFFICES ASSUME IInv, [Next]_vars PROVE IInv'
  OBVIOUS
<1>0. TypeOK'
  BY TypeStep DEF IInv
<1>1. ASSUME NEW p \in Call, Begin(p) PROVE IInv'
  BY <1>0, <1>1, BeginInv
<1>2. ASSUME NEW p \in Call, Proceed(p) PROVE IInv'
  BY <1>0, <1>2, MergeReadInv, MergeUpdateInv, PullReadInv, PullUpdateInv, ClearInv
     DEF Proceed
<1>3. ASSUME NEW p \in Call, Fail(p) PROVE IInv'
  BY <1>0, <1>3, FailInv
<1>4. CASE Crash
  BY <1>0, <1>4, CrashInv
<1>5. CASE StopByHand
  BY <1>0, <1>5, ByHandInv
<1>6. CASE UNCHANGED vars
  <2>1. UNCHANGED <<master, stop, events, at, req, seen, base, reply>>
    BY <1>6 DEF vars, refs, locals
  <2>2. InFlight'
    BY <2>1, ZenonT(60) DEF IInv, InFlight, CallInv, Fresh, Stopped
  <2>3. StopHasCause' /\ OnlyProvenCommits'
    BY <2>1 DEF IInv, StopHasCause, Stopped, OnlyProvenCommits
  <2>4. RepliesHold'
    BY <2>1 DEF IInv, RepliesHold
  <2> QED BY <1>0, <2>2, <2>3, <2>4 DEF IInv
<1> QED BY <1>1, <1>2, <1>3, <1>4, <1>5, <1>6 DEF Next

(* What a call has read is still good for what it does next, in every      *)
(* reachable state.                                                        *)
THEOREM CallsHoldProof == Spec => []InFlight
<1>1. IInv => InFlight
  BY DEF IInv
<1> QED BY <1>1, InvInit, InvStep, PTL DEF Spec

(* A commit is on the guarded branch only with its evidence, whatever the  *)
(* number of calls, commits, checks and envelopes.                         *)
THEOREM LineIsProven == Spec => []OnlyProvenCommits
<1>1. IInv => OnlyProvenCommits
  BY DEF IInv
<1> QED BY <1>1, InvInit, InvStep, PTL DEF Spec

(* The cord names an event with a cause on the line.                       *)
THEOREM CordHasCause == Spec => []StopHasCause
<1>1. IInv => StopHasCause
  BY DEF IInv
<1> QED BY <1>1, InvInit, InvStep, PTL DEF Spec

(* What Merge, Pull and Clear reported stays true.                         *)
THEOREM RepliesStayTrue == Spec => []RepliesHold
<1>1. IInv => RepliesHold
  BY DEF IInv
<1> QED BY <1>1, InvInit, InvStep, PTL DEF Spec

-----------------------------------------------------------------------------
(* What keeps a candidate's ref where it is: with one check slot there is  *)
(* one merge at a time, and the ref of its commit is in place from the     *)
(* push to the cleanup.                                                    *)
Merging(p) == req[p].op = "merge"

OneMerge == \A p, q \in Call : Merging(p) /\ Merging(q) => p = q

KeptInv ==
    /\ TypeOK
    /\ OneMerge
    /\ \A p \in Call : Merging(p) => req[p].commit \in candidates

(* The slot is free only while nobody merges.                              *)
LEMMA SlotFree ==
    ASSUME MergeSlots = 1, OneMerge, acquire
    PROVE  \A p \in Call : ~Merging(p)
<1> SUFFICES ASSUME NEW p \in Call, Merging(p) PROVE FALSE
  OBVIOUS
<1>1. {q \in Call : req[q].op = "merge"} = {p}
  BY DEF OneMerge, Merging
<1>2. Cardinality({q \in Call : req[q].op = "merge"}) = 1
  BY <1>1, FS_Singleton
<1> QED BY <1>2 DEF acquire

(* A call at a step of a merge is merging, and no other call is.           *)
LEMMA MergingSteps ==
    ASSUME TypeOK, NEW p \in Call
    PROVE  Merging(p) <=> at[p] \in MergeStep
<1>1. at[p] \in {"idle"} \cup MergeStep \cup PullStep \cup ClearStep
  BY DEF TypeOK
<1>2. NoRequest.op = "none"
  BY DEF NoRequest
<1> QED BY <1>1, <1>2 DEF TypeOK, Merging

(* A step that lets no merge in and takes no ref away changes nothing.     *)
LEMMA KeptQuiet ==
    ASSUME KeptInv, TypeOK', candidates' = candidates,
           \A q \in Call : req'[q] = req[q] \/ req'[q].op # "merge"
    PROVE  KeptInv'
<1>1. \A q \in Call : Merging(q)' => Merging(q) /\ req'[q] = req[q]
  BY DEF Merging
<1> QED BY <1>1 DEF KeptInv, OneMerge

(* So does a call that returns, and one that defers or goes on.            *)
LEMMA KeptForget ==
    ASSUME KeptInv, TypeOK', NEW p \in Call, Forget(p), candidates' = candidates
    PROVE  KeptInv'
<1>1. NoRequest.op = "none"
  BY DEF NoRequest
<1>2. req' = [req EXCEPT ![p] = NoRequest] /\ req \in [Call -> Request \cup {NoRequest}]
  BY DEF Forget, KeptInv, TypeOK
<1>3. \A q \in Call : req'[q] = req[q] \/ req'[q].op # "merge"
  BY <1>1, <1>2
<1> QED BY <1>3, KeptQuiet

LEMMA KeptOnward ==
    ASSUME KeptInv, TypeOK', UNCHANGED <<candidates, req>>
    PROVE  KeptInv'
<1>1. \A q \in Call : req'[q] = req[q]
  OBVIOUS
<1> QED BY <1>1, KeptQuiet

LEMMA KeptBegin ==
    ASSUME MergeSlots = 1, KeptInv, TypeOK', NEW p \in Call, Begin(p)
    PROVE  KeptInv'
<1>0. req \in [Call -> Request \cup {NoRequest}]
  BY DEF KeptInv, TypeOK
<1>1. ASSUME NEW s \in Submission, Submit(p, s[1], s[2]) PROVE KeptInv'
  <2> DEFINE new == [op |-> "merge", commit |-> s[1], env |-> s[2]]
  <2>1. \A q \in Call : ~Merging(q)
    BY <1>1, SlotFree DEF Submit, KeptInv
  <2>2. req' = [req EXCEPT ![p] = new] /\ candidates' = candidates \cup {s[1]}
    BY <1>1 DEF Submit, Start
  <2>3. req'[p].commit = s[1] /\ \A q \in Call \ {p} : req'[q] = req[q]
    BY <1>0, <2>2
  <2>4. \A q \in Call : Merging(q)' => q = p
    BY <2>1, <2>3 DEF Merging
  <2> QED BY <2>2, <2>3, <2>4 DEF KeptInv, OneMerge
<1>2. ASSUME NEW op, op # "merge", NEW c, NEW env, Start(p, op, c, env),
             candidates' = candidates
      PROVE  KeptInv'
  <2>1. \A q \in Call : req'[q] = req[q] \/ req'[q].op # "merge"
    BY <1>0, <1>2 DEF Start
  <2> QED BY <1>2, <2>1, KeptQuiet
<1>3. ASSUME NEW env \in Envelope, Pull(p, env) PROVE KeptInv'
  <2>1. \/ UNCHANGED <<candidates, req>>
        \/ Start(p, "pull", env.commit, env) /\ candidates' = candidates
    BY <1>3 DEF Pull, refs, locals
  <2> QED BY <1>2, <2>1, KeptOnward
<1>4. ASSUME NEW env \in Envelope, Clear(p, env) PROVE KeptInv'
  <2>1. \/ UNCHANGED <<candidates, req>>
        \/ Start(p, "clear", env.commit, env) /\ candidates' = candidates
    BY <1>4 DEF Clear, refs, locals
  <2> QED BY <1>2, <2>1, KeptOnward
<1> QED BY <1>1, <1>3, <1>4 DEF Begin

(* A merge that ends takes the ref of its commit: nobody else is merging.  *)
LEMMA KeptCleanup ==
    ASSUME KeptInv, TypeOK', NEW p \in Call, MergeCleanup(p)
    PROVE  KeptInv'
<1>1. Merging(p)
  BY MergingSteps DEF MergeCleanup, MergeStep, KeptInv
<1>2. \A q \in Call \ {p} : ~Merging(q)
  BY <1>1 DEF KeptInv, OneMerge
<1>3. req' = [req EXCEPT ![p] = NoRequest] /\ req \in [Call -> Request \cup {NoRequest}]
  BY DEF MergeCleanup, Forget, KeptInv, TypeOK
<1>4. NoRequest.op = "none"
  BY DEF NoRequest
<1>5. \A q \in Call : ~Merging(q)'
  BY <1>2, <1>3, <1>4 DEF Merging
<1> QED BY <1>5 DEF KeptInv, OneMerge

LEMMA KeptProceed ==
    ASSUME KeptInv, TypeOK', NEW p \in Call, Proceed(p) \/ Fail(p)
    PROVE  KeptInv'
<1>1. CASE MergeCleanup(p)
  BY <1>1, KeptCleanup
<1>2. CASE UNCHANGED <<candidates, req>>
  BY <1>2, KeptOnward
<1>3. CASE Forget(p) /\ candidates' = candidates
  BY <1>3, KeptForget
<1>4. CASE MergeReadStop(p) \/ MergeReadBase(p) \/ MergeUpdateRef(p)
  BY <1>2, <1>4 DEF MergeReadStop, MergeReadBase, MergeUpdateRef, Defer, refs, locals
<1>5. CASE PullReadStop(p) \/ PullUpdateRef(p) \/ PullLost(p)
  BY <1>2, <1>3, <1>5 DEF PullReadStop, PullUpdateRef, PullLost, Return, refs, locals
<1>6. CASE ClearReadBase(p) \/ ClearReadEvent(p) \/ ClearDeleteRef(p)
  BY <1>2, <1>3, <1>6 DEF ClearReadBase, ClearReadEvent, ClearDeleteRef, Return, refs, locals
<1>7. CASE Fail(p)
  BY <1>2, <1>3, <1>7 DEF Fail, Defer, Return, refs, locals
<1> QED BY <1>1, <1>4, <1>5, <1>6, <1>7 DEF Proceed

(* A merge in flight keeps the ref that protects its objects from a prune: *)
(* no other merge, whose cleanup would delete the ref of the same commit,  *)
(* is let in beside it by the one check slot of the server.                *)
THEOREM CandidatesAreKept ==
    ASSUME MergeSlots = 1
    PROVE  Spec => []CandidateKept
<1>1. ASSUME Init PROVE KeptInv
  <2>1. NoRequest.op = "none"
    BY DEF NoRequest
  <2>2. TypeOK /\ \A p \in Call : ~Merging(p)
    BY <1>1, <2>1, TypeInit DEF Init, Merging
  <2> QED BY <2>2 DEF KeptInv, OneMerge
<1>2. ASSUME KeptInv, [Next]_vars PROVE KeptInv'
  <2>1. TypeOK'
    BY <1>2, TypeStep DEF KeptInv
  <2>2. CASE UNCHANGED <<candidates, req>>
    BY <1>2, <2>1, <2>2, KeptOnward
  <2>3. CASE Crash
    <3>1. NoRequest.op = "none"
      BY DEF NoRequest
    <3>2. candidates' = candidates /\ \A q \in Call : req'[q].op # "merge"
      BY <2>3, <3>1 DEF Crash, refs
    <3> QED BY <1>2, <2>1, <3>2, KeptQuiet
  <2>4. StopByHand \/ UNCHANGED vars => UNCHANGED <<candidates, req>>
    BY DEF StopByHand, vars, refs, locals
  <2> QED BY <1>2, <2>1, <2>2, <2>3, <2>4, KeptBegin, KeptProceed DEF Next
<1>3. KeptInv => CandidateKept
  BY MergingSteps DEF KeptInv, CandidateKept
<1> QED BY <1>1, <1>2, <1>3, PTL DEF Spec

------------------------------------------------------------------------------
(* The interleaved guard implements the abstract line of GuardedLine.  The *)
(* invariant above carries the argument: a step that moves master, or      *)
(* creates or deletes the stop ref, is the abstract step, and every other  *)
(* step leaves the abstract line as it is, except that an event that lost  *)
(* its race is spent.                                                      *)

Used == {i \in 1..Len(events) : \A p \in Call : at[p] = "pull_cas" => seen[p] # i}

(* The evidence of the two specifications is the same.                     *)
LEMMA SameEvidence ==
    /\ GL!Proven = Proven /\ GL!Refuted = Refuted /\ GL!Repaired = Repaired
    /\ \A c \in Commit : GL!Chain(c) = Chain(c)
<1>1. \A env : GL!Trustworthy(env) <=> Trustworthy(env)
  BY DEF GL!Trustworthy, Trustworthy
<1>2. \A env, c : GL!Proves(env, c) <=> Proves(env, c)
  BY <1>1 DEF GL!Proves, Proves
<1>3. \A env, c : GL!Refutes(env, c) <=> Refutes(env, c)
  BY <1>1 DEF GL!Refutes, Refutes
<1>4. \A env, c : GL!Repairs(env, c) <=> Repairs(env, c)
  BY <1>1 DEF GL!Repairs, Repairs
<1>5. GL!Proven = Proven
  BY <1>2 DEF GL!Proven, Proven
<1>6. GL!Refuted = Refuted /\ GL!Repaired = Repaired
  BY <1>3, <1>4 DEF GL!Refuted, Refuted, GL!Repaired, Repaired
<1>7. \A c \in Commit : GL!Chain(c) = Chain(c)
  BY DEF GL!Chain, Chain, GL!Ancestry, Ancestry, GL!Closed, Closed
<1> QED BY <1>5, <1>6, <1>7

(* A step that leaves master and the stop ref alone: at most it writes an  *)
(* event for p's pull, or drops one.                                       *)
LEMMA SpentStep ==
    ASSUME IInv, IInv', UNCHANGED <<master, stop>>,
           Len(events) <= Len(events'),
           \A i \in 1..Len(events) : events'[i] = events[i],
           \A q \in Call : at'[q] = "pull_cas" =>
              \/ at[q] = "pull_cas" /\ seen'[q] = seen[q]
              \/ seen'[q] = Len(events) + 1
    PROVE  GL!Discard
<1>0. Len(events) \in Nat /\ Len(events') \in Nat /\ stop \in 0..Len(events)
  BY DEF IInv, TypeOK
<1>1. Stopped' = Stopped
  BY <1>0 DEF Stopped
<1>2. ASSUME NEW i \in Used PROVE i \in Used'
  <2>1. i \in 1..Len(events) /\ i \in 1..Len(events') /\ i # Len(events) + 1
    BY <1>0, <1>2 DEF Used
  <2> QED BY <1>2, <2>1 DEF Used
<1>3. Used' \subseteq Nat
  BY <1>0 DEF Used
<1> QED BY <1>1, <1>2, <1>3 DEF GL!Discard, Used

(* No event is written or dropped by a step that keeps every call's hold   *)
(* on its event.                                                           *)
LEMMA SameUsed ==
    ASSUME UNCHANGED events,
           \A q \in Call : (at'[q] = "pull_cas") = (at[q] = "pull_cas"),
           \A q \in Call : at[q] = "pull_cas" => seen'[q] = seen[q]
    PROVE  Used' = Used
BY DEF Used

LEMMA ReturnKeeps ==
    ASSUME IInv, IInv', NEW p \in Call, NEW r, Return(p, r), UNCHANGED refs
    PROVE  GL!Discard
<1>1. TypeOK
  BY DEF IInv
<1>2. UNCHANGED <<master, stop, events>> /\ Len(events) <= Len(events')
  BY <1>1 DEF refs, TypeOK
<1>3. /\ at'[p] = "idle"
      /\ \A q \in Call \ {p} : at'[q] = at[q] /\ seen'[q] = seen[q]
  BY <1>1 DEF Return, Forget, Goto, TypeOK
<1> QED BY <1>2, <1>3, SpentStep

LEMMA DeferKeeps ==
    ASSUME IInv, IInv', NEW p \in Call, NEW r, Defer(p, r)
    PROVE  GL!Discard
<1>1. TypeOK
  BY DEF IInv
<1>2. UNCHANGED <<master, stop, events>> /\ Len(events) <= Len(events')
  BY <1>1 DEF Defer, refs, TypeOK
<1>3. /\ at'[p] = "merge_cleanup"
      /\ \A q \in Call \ {p} : at'[q] = at[q] /\ seen'[q] = seen[q]
  BY <1>1 DEF Defer, Goto, TypeOK, locals
<1> QED BY <1>2, <1>3, SpentStep

(* p goes on to a step other than the creation of the stop ref.            *)
LEMMA AdvanceKeeps ==
    ASSUME IInv, IInv', NEW p \in Call, NEW step, step # "pull_cas",
           Goto(p, step), UNCHANGED <<master, stop, events>>,
           \A q \in Call \ {p} : seen'[q] = seen[q]
    PROVE  GL!Discard
<1>1. TypeOK
  BY DEF IInv
<1>2. Len(events) <= Len(events')
  BY <1>1 DEF TypeOK
<1>3. /\ at'[p] = step
      /\ \A q \in Call \ {p} : at'[q] = at[q]
  BY <1>1 DEF Goto, TypeOK
<1> QED BY <1>2, <1>3, SpentStep

LEMMA BeginRefines ==
    ASSUME IInv, IInv', NEW p \in Call, Begin(p)
    PROVE  GL!Discard
<1>0. TypeOK
  BY DEF IInv
<1>1. ASSUME NEW s \in Submission, Submit(p, s[1], s[2]) PROVE GL!Discard
  BY <1>1, AdvanceKeeps DEF Submit
<1>2. ASSUME NEW env \in Envelope, Pull(p, env) \/ Clear(p, env) PROVE GL!Discard
  <2>1. CASE UNCHANGED <<refs, at, locals>>
    <3>1. UNCHANGED <<master, stop, events, at, seen>> /\ Len(events) <= Len(events')
      BY <1>0, <2>1 DEF refs, locals, TypeOK
    <3> QED BY <3>1, SpentStep
  <2>2. CASE ~UNCHANGED <<refs, at, locals>>
    <3>1. /\ \/ Goto(p, "pull_stop") /\ seen' = seen
             \/ Goto(p, "clear_base") /\ seen' = [seen EXCEPT ![p] = stop]
          /\ UNCHANGED <<master, stop, events>>
      BY <1>2, <2>2 DEF Pull, Clear, refs
    <3>2. \A q \in Call \ {p} : seen'[q] = seen[q]
      BY <1>0, <3>1 DEF TypeOK
    <3> QED BY <3>1, <3>2, AdvanceKeeps
  <2> QED BY <2>1, <2>2
<1> QED BY <1>1, <1>2 DEF Begin

(* Moving master is Land.                                                  *)
LEMMA MergeRefines ==
    ASSUME IInv, IInv', NEW p \in Call,
           MergeReadStop(p) \/ MergeReadBase(p) \/ MergeUpdateRef(p) \/ MergeCleanup(p)
    PROVE  GL!Next
<1>0. TypeOK /\ CallInv(p)
  BY DEF IInv, InFlight
<1>1. CASE \E r : Defer(p, r)
  BY <1>1, DeferKeeps DEF GL!Next
<1>2. CASE /\ Goto(p, "merge_base") \/ Goto(p, "merge_cas")
           /\ UNCHANGED <<refs, seen>>
  BY <1>2, AdvanceKeeps DEF GL!Next, refs
<1>3. CASE /\ at[p] = "merge_cas" /\ master = base[p]
           /\ master' = req[p].commit
           /\ Goto(p, "merge_cleanup")
           /\ UNCHANGED <<stop, events, locals>>
  <2>1. master' \in Proven /\ Parent[master'] = master /\ master' \in Commit
    BY <1>0, <1>3 DEF CallInv, IInv, TypeOK
  <2>2. UNCHANGED <<stop, events, seen, Stopped>>
    BY <1>3 DEF locals, Stopped
  <2>3. \A q \in Call : (at'[q] = "pull_cas") = (at[q] = "pull_cas")
    BY <1>0, <1>3 DEF Goto, TypeOK
  <2>4. Used' = Used
    BY <2>2, <2>3, SameUsed
  <2>5. GL!Land(master')
    BY <2>1, <2>2, <2>4, SameEvidence DEF GL!Land, Used
  <2> QED BY <2>1, <2>5 DEF GL!Next
<1>4. CASE MergeCleanup(p)
  <2>1. UNCHANGED <<master, stop, events>> /\ Goto(p, "idle")
        /\ \A q \in Call \ {p} : seen'[q] = seen[q]
    BY <1>0, <1>4 DEF MergeCleanup, Forget, TypeOK
  <2> QED BY <2>1, AdvanceKeeps DEF GL!Next
<1> QED BY <1>1, <1>2, <1>3, <1>4 DEF MergeReadStop, MergeReadBase, MergeUpdateRef, locals

(* Creating the stop ref is Stop.                                          *)
LEMMA PullRefines ==
    ASSUME IInv, IInv', NEW p \in Call,
           PullReadStop(p) \/ PullUpdateRef(p) \/ PullLost(p)
    PROVE  GL!Next
<1>0. TypeOK /\ CallInv(p) /\ Len(events) \in Nat /\ master \in Commit
  BY DEF IInv, InFlight, TypeOK
<1>1. CASE \E r : Return(p, r) /\ UNCHANGED refs
  BY <1>1, ReturnKeeps DEF GL!Next
<1>2. CASE /\ events' = Append(events, req[p].env.commit)
           /\ req[p].env.commit \in Commit
           /\ seen' = [seen EXCEPT ![p] = Len(events) + 1]
           /\ Goto(p, "pull_cas")
           /\ UNCHANGED <<master, stop>>
  <2>1. /\ Len(events') = Len(events) + 1
        /\ \A i \in 1..Len(events) : events'[i] = events[i]
    BY <1>0, <1>2, AppendEvent
  <2>2. Len(events) <= Len(events')
    BY <1>0, <2>1
  <2>3. /\ seen'[p] = Len(events) + 1
        /\ \A q \in Call \ {p} : at'[q] = at[q] /\ seen'[q] = seen[q]
    BY <1>0, <1>2 DEF Goto, TypeOK
  <2> QED BY <1>2, <2>1, <2>2, <2>3, SpentStep DEF GL!Next
<1>3. CASE Goto(p, "pull_lost") /\ UNCHANGED <<refs, locals>>
  BY <1>3, AdvanceKeeps DEF GL!Next, refs, locals
<1>4. CASE /\ at[p] = "pull_cas" /\ stop = 0
           /\ stop' = seen[p]
           /\ Forget(p)
           /\ UNCHANGED <<master, events>>
  <2>1. /\ req[p].commit \in Chain(master) /\ req[p].commit \in Refuted /\ Fresh(p)
        /\ seen[p] \in 1..Len(events) /\ events[seen[p]] = req[p].commit
    BY <1>0, <1>4 DEF CallInv, Fresh
  <2>2. seen[p] # 0 /\ seen[p] \in Nat
    BY <1>0, <2>1
  <2>3. Stopped' = req[p].commit
    BY <1>4, <2>1, <2>2 DEF Stopped
  <2>4. /\ at'[p] = "idle"
        /\ \A q \in Call \ {p} : at'[q] = at[q] /\ seen'[q] = seen[q]
    BY <1>0, <1>4 DEF Forget, Goto, TypeOK
  <2>5. \A q \in Call \ {p} : seen[q] # seen[p]
    BY <2>1 DEF Fresh
  <2>6. seen[p] \notin Used
    BY <1>4 DEF Used
  <2>7. Used' = Used \cup {seen[p]}
    <3>1. ASSUME NEW i \in 1..Len(events)
          PROVE  i \in Used' <=> i \in Used \cup {seen[p]}
      BY <1>4, <2>4, <2>5 DEF Used
    <3>2. Used' \subseteq 1..Len(events) /\ Used \cup {seen[p]} \subseteq 1..Len(events)
      BY <1>4, <2>1 DEF Used
    <3> QED BY <3>1, <3>2
  <2>8. GL!Stop(req[p].commit)
    BY <1>0, <1>4, <2>1, <2>2, <2>3, <2>6, <2>7, SameEvidence DEF GL!Stop, GL!FreshEvent, Used
  <2>9. req[p].commit \in Commit
    BY <2>1 DEF Refuted
  <2> QED BY <2>8, <2>9 DEF GL!Next
<1>5. at[p] \in PullStep => req[p].env.commit \in Commit
  BY <1>0, TypeFacts DEF PullStep
<1> QED BY <1>1, <1>2, <1>3, <1>4, <1>5
        DEF PullReadStop, PullUpdateRef, PullLost, Return, PullStep

(* Deleting the stop ref is Restart.                                       *)
LEMMA ClearRefines ==
    ASSUME IInv, IInv', NEW p \in Call,
           ClearReadBase(p) \/ ClearReadEvent(p) \/ ClearDeleteRef(p)
    PROVE  GL!Next
<1>0. TypeOK /\ CallInv(p) /\ master \in Commit
  BY DEF IInv, InFlight, TypeOK
<1>1. CASE \E r : Return(p, r) /\ UNCHANGED refs
  BY <1>1, ReturnKeeps DEF GL!Next
<1>2. CASE /\ Goto(p, "clear_event") \/ Goto(p, "clear_cas")
           /\ UNCHANGED <<refs, seen>>
  BY <1>2, AdvanceKeeps DEF GL!Next, refs
<1>3. CASE /\ at[p] = "clear_cas" /\ stop = seen[p]
           /\ stop' = 0
           /\ Forget(p)
           /\ UNCHANGED <<master, events>>
  <2>1. /\ req[p].commit \in Chain(master) /\ req[p].commit \in Repaired
        /\ stop # 0 /\ Stopped # req[p].commit
        /\ Stopped # NoCommit => Stopped \in Chain(req[p].commit)
    BY <1>0, <1>3 DEF CallInv, ClearStep
  <2>2. Stopped' = NoCommit
    BY <1>3 DEF Stopped
  <2>3. /\ at'[p] = "idle"
        /\ \A q \in Call \ {p} : at'[q] = at[q] /\ seen'[q] = seen[q]
    BY <1>0, <1>3 DEF Forget, Goto, TypeOK
  <2>4. Used' = Used
    BY <1>3, <2>3, SameUsed
  <2>5. req[p].commit \in Commit
    BY <2>1 DEF Repaired
  <2>6. GL!Restart(req[p].commit)
    BY <1>0, <1>3, <2>1, <2>2, <2>4, <2>5, SameEvidence DEF GL!Restart, Used
  <2> QED BY <2>5, <2>6 DEF GL!Next
<1> QED BY <1>1, <1>2, <1>3
        DEF ClearReadBase, ClearReadEvent, ClearDeleteRef, Return, locals

LEMMA StepRefines ==
    ASSUME IInv, IInv', [Next]_vars
    PROVE  [GL!Next]_(GL!vars)
<1>0. TypeOK /\ Len(events) \in Nat
  BY DEF IInv, TypeOK
<1>1. ASSUME NEW p \in Call, Begin(p) PROVE GL!Next
  BY <1>1, BeginRefines DEF GL!Next
<1>2. ASSUME NEW p \in Call, Proceed(p) PROVE GL!Next
  BY <1>2, MergeRefines, PullRefines, ClearRefines DEF Proceed
<1>3. ASSUME NEW p \in Call, Fail(p) PROVE GL!Next
  BY <1>3, DeferKeeps, ReturnKeeps DEF Fail, GL!Next
<1>4. CASE Crash
  <2>1. UNCHANGED <<master, stop, events>> /\ Len(events) <= Len(events')
    BY <1>0, <1>4 DEF Crash, refs
  <2>2. \A q \in Call : at'[q] = "idle"
    BY <1>4 DEF Crash
  <2> QED BY <2>1, <2>2, SpentStep DEF GL!Next
<1>5. CASE StopByHand
  <2>1. /\ Len(events') = Len(events) + 1
        /\ events'[Len(events) + 1] = NoCommit
    BY <1>0, <1>5, AppendEvent DEF StopByHand
  <2>2. /\ stop = 0 /\ stop' = Len(events) + 1
        /\ UNCHANGED <<master, at, seen>>
    BY <1>5 DEF StopByHand, locals
  <2>3. stop' # 0 /\ stop' \in Nat
    BY <1>0, <2>2
  <2>4. Stopped' = NoCommit
    BY <2>1, <2>2, <2>3 DEF Stopped
  <2>5. \A q \in Call : seen[q] # stop'
    BY <1>0, <2>2 DEF TypeOK
  <2>6. stop' \notin Used
    BY <1>0, <2>2 DEF Used
  <2>7. Used' = Used \cup {stop'}
    <3>1. 1..Len(events') = (1..Len(events)) \cup {stop'}
      BY <1>0, <2>1, <2>2
    <3> QED BY <2>2, <2>5, <3>1 DEF Used
  <2>8. GL!StopByHand
    BY <2>2, <2>3, <2>4, <2>6, <2>7 DEF GL!StopByHand, GL!FreshEvent, Used
  <2> QED BY <2>8 DEF GL!Next
<1>6. CASE UNCHANGED vars
  BY <1>6 DEF vars, refs, locals, GL!vars, Stopped
<1> QED BY <1>1, <1>2, <1>3, <1>4, <1>5, <1>6 DEF Next

LEMMA InitRefines == Init => GL!Init
<1> SUFFICES ASSUME Init PROVE GL!Init
  OBVIOUS
<1>1. master \in Commit /\ stop = 0 /\ events = <<>>
  BY GuardAssumption DEF Init
<1>2. Used = {}
  BY <1>1 DEF Used
<1> QED BY <1>1, <1>2 DEF GL!Init, Stopped, Used

(* Merge, Pull and Clear, interleaved at every ref they read or move and   *)
(* cut short by errors and crashes, implement the abstract line.           *)
THEOREM GuardRefinesLine == Spec => ImplementsGuardedLine
<1>1. Spec => []IInv
  BY InvInit, InvStep, PTL DEF Spec
<1>2. IInv /\ IInv' /\ [Next]_vars => [GL!Next]_(GL!vars)
  BY StepRefines
<1> QED BY <1>1, <1>2, InitRefines, PTL DEF Spec, ImplementsGuardedLine, GL!Spec
=============================================================================
