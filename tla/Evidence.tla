------------------------------ MODULE Evidence ------------------------------
(***************************************************************************)
(* Commits, signed attestations and the rules by which the merge guard     *)
(* judges one against the other (line/guard/verify.go, guard.go, blobs.go; *)
(* the constitution's trust, roles and gates are CONSTANTS).               *)
(*                                                                         *)
(* An envelope is what attest.VerifyStatement yields: the signing key, the *)
(* commit it is bound to, the predicate's role, constitution digest and    *)
(* runner, and the outcome of every required check.                        *)
(***************************************************************************)
EXTENDS Naturals, Sequences

CONSTANTS
    Commit,          \* every commit that is ever made
    NoCommit,        \* no first parent, or a ref that does not exist
    Parent,          \* first parent of each commit
    Tag,             \* the andon events a commit's Andon-Event trailers name
    DocsCommit,      \* commits whose changed paths are all documentation
    Path, Paths,     \* repository paths, and the ones each commit changes
    GatedPath,       \* paths the constitution's guards name
    GateRoles,       \* ... and the roles that may change them
    BadBlob,         \* commits that add a blob the guard forbids
    Role,
    Key, TrustedKey, \* signing keys, and the ones the constitution trusts
    KeyRoles,        \* roles a trusted key is bound to; {} is any role
    Digest, ConstitutionDigest,
    Runner, RunnerID,
    Check,           \* names of the required checks
    Required,        \* the required checks in the constitution's order
    SkipForDocsOnly, \* checks that a docs-only commit may skip
    Envelope         \* the attestations that were ever signed

Outcome == {"passed", "failed", "skipped", "missing"}

EnvelopeType ==
    [key: Key, role: Role, commit: Commit, constitution: Digest,
     runner: Runner, checks: [Check -> Outcome]]

ASSUME ConstitutionAssumption ==
    /\ NoCommit \notin Commit
    /\ Parent \in [Commit -> Commit \cup {NoCommit}]
    /\ Tag \in [Commit -> SUBSET Nat]
    /\ DocsCommit \subseteq Commit
    /\ Paths \in [Commit -> SUBSET Path]
    /\ GatedPath \subseteq Path
    /\ GateRoles \in [GatedPath -> SUBSET Role]
    /\ BadBlob \subseteq Commit
    /\ TrustedKey \subseteq Key
    /\ KeyRoles \in [TrustedKey -> SUBSET Role]
    /\ ConstitutionDigest \in Digest
    /\ RunnerID \in Runner
    /\ Required \in Seq(Check)
    /\ \A k \in Check : \E i \in DOMAIN Required : Required[i] = k
    /\ SkipForDocsOnly \subseteq Check
    /\ Envelope \subseteq EnvelopeType

-----------------------------------------------------------------------------
(* The commits reached from m by first parents, m included: the least set  *)
(* that holds m and is closed under Parent.                                *)
Closed(S) == \A c \in S : Parent[c] \in Commit => Parent[c] \in S

Ancestry ==
    [m \in Commit |->
        {c \in Commit : \A S \in SUBSET Commit : (m \in S /\ Closed(S)) => c \in S}]

Chain(m) == Ancestry[m]

-----------------------------------------------------------------------------
(* The guard's own procedure: verify, checkResults and the gates, each a   *)
(* reason to reject, "" when there is none.                                *)

Verdict == {"", "untrusted_attestation", "role_not_permitted", "commit_mismatch",
            "constitution_mismatch", "runner_mismatch", "checks_missing",
            "checks_failed", "role_forbidden", "blob_forbidden"}

(* Mutant: an attestation of any commit is accepted.                       *)
verifyUnbound(env, wantCommit) ==
    IF env.key \notin TrustedKey THEN "untrusted_attestation"
    ELSE IF env.constitution # ConstitutionDigest THEN "constitution_mismatch"
    ELSE IF env.runner # RunnerID THEN "runner_mismatch"
    ELSE ""

verify(env, wantCommit) ==
    IF env.key \notin TrustedKey THEN "untrusted_attestation"
    ELSE IF KeyRoles[env.key] # {} /\ env.role \notin KeyRoles[env.key]
      THEN "role_not_permitted"
    ELSE IF wantCommit # NoCommit /\ env.commit # wantCommit
      THEN "commit_mismatch"
    ELSE IF env.constitution # ConstitutionDigest THEN "constitution_mismatch"
    ELSE IF env.runner # RunnerID THEN "runner_mismatch"
    ELSE ""

(* What is wrong with the outcome of one required check, "" when nothing.  *)
checkResult(check, outcome, docsOnly) ==
    CASE outcome = "missing" -> "checks_missing"
      [] outcome = "skipped" ->
           IF check \in SkipForDocsOnly /\ docsOnly THEN "" ELSE "checks_missing"
      [] outcome = "failed" -> "checks_failed"
      [] outcome = "passed" -> ""

(* The reason of the first required check that has one.                    *)
checkResults(checks, docsOnly) ==
    LET reason(i) == checkResult(Required[i], checks[Required[i]], docsOnly)
        bad == {i \in DOMAIN Required : reason(i) # ""}
    IN IF bad = {} THEN ""
       ELSE reason(CHOOSE i \in bad : \A j \in bad : i <= j)

(* Pull's search for a failing required check.                             *)
failingCheck(checks) == \E i \in DOMAIN Required : checks[Required[i]] = "failed"

(* Merge derives docs-only from the commit itself, and only when the       *)
(* attestation claims a skipped check.                                     *)
isDocsOnly(env, commit) ==
    /\ \E k \in Check : env.checks[k] = "skipped"
    /\ Parent[commit] # NoCommit
    /\ commit \in DocsCommit

(* The role gate over the changed paths, then the blob rules.              *)
gate(env, commit) ==
    IF \E p \in Paths[commit] \cap GatedPath : env.role \notin GateRoles[p]
      THEN "role_forbidden"
    ELSE IF commit \in BadBlob THEN "blob_forbidden"
    ELSE ""

-----------------------------------------------------------------------------
(* What evidence is worth, independently of the order the guard looks at   *)
(* it: the reference the procedure is held against.                        *)

Trustworthy(env) ==
    /\ env.key \in TrustedKey
    /\ KeyRoles[env.key] = {} \/ env.role \in KeyRoles[env.key]
    /\ env.constitution = ConstitutionDigest
    /\ env.runner = RunnerID

(* env entitles c to land on top of its first parent.                      *)
Proves(env, c) ==
    /\ Trustworthy(env)
    /\ env.commit = c
    /\ \A k \in Check : \/ env.checks[k] = "passed"
                        \/ /\ env.checks[k] = "skipped"
                           /\ k \in SkipForDocsOnly
                           /\ c \in DocsCommit
    /\ \A p \in Paths[c] \cap GatedPath : env.role \in GateRoles[p]
    /\ c \notin BadBlob

(* env is proof that c fails a required check.                             *)
Refutes(env, c) ==
    /\ Trustworthy(env)
    /\ env.commit = c
    /\ \E k \in Check : env.checks[k] = "failed"

(* env is proof that c passes every required check, none of them skipped.  *)
Repairs(env, c) ==
    /\ Trustworthy(env)
    /\ env.commit = c
    /\ \A k \in Check : env.checks[k] = "passed"

Proven == {c \in Commit : \E env \in Envelope : Proves(env, c)}
Refuted == {c \in Commit : \E env \in Envelope : Refutes(env, c)}
Repaired == {c \in Commit : \E env \in Envelope : Repairs(env, c)}
=============================================================================
