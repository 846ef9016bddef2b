------------------------------ MODULE CheckRuns ------------------------------
(* An attestation from the required checks to the signed statement and the    *)
(* rows of the line database: line/witness/witness.go (run), runner.go (the   *)
(* container of a check), evidence.go (its log) and line/report (Publish).    *)
(*                                                                            *)
(* The engine's CLI runs a check in a container of a fresh name; the context  *)
(* may end at any moment, a container or the CLI may be killed from outside,  *)
(* the engine may not start a container, and serve may die. A check of the    *)
(* constitution is what the run makes of it: whether a commit of documents    *)
(* skips it.                                                                  *)
EXTENDS Integers, Sequences, FiniteSets

CONSTANTS
    Skippable,  \* per required check: skip_for_docs_only
    MaxRuns,    \* bound: attestations, one after the other (the check slot)
    MaxFaults   \* bound: kills from outside, engine and disk errors, crashes

VARIABLES
    att,      \* the attestation in progress
    box,      \* the container of its current check
    signed,   \* the statements signed, with the run each is of
    rows,     \* the line database: rows by run and table
    crPast    \* history: runs, faults, containers nobody removes any more

crVars == <<att, box, signed, rows, crPast>>

Checks == DOMAIN Skippable
NoBox == [state |-> "none", code |-> 0]
\* ExitCode of a process that a signal ended.
BySignal == -1
\* ended: how each check's container really ended, and died: the CLI of the last one
\* was killed; both for the properties.
Attestation(docs) == [at |-> "next", docs |-> docs, check |-> 1, cut |-> "no", code |-> 0, failed |-> FALSE,
                      results |-> <<>>, ended |-> <<>>, died |-> FALSE]
Resting == [Attestation(FALSE) EXCEPT !.at = "idle"]
Fault == crPast.faults < MaxFaults
Faulted == [crPast EXCEPT !.faults = @ + 1]
Goto(step) == att' = [att EXCEPT !.at = step]
\* The runner or the engine failed: no verdict.
Erred(step) == att' = [att EXCEPT !.at = step, !.failed = TRUE]

------------------------------------------------------------------------------
(* Witness.run, and ContainerRunner.Run with LogRunner.Run inside it. *)

\* prepare: the checkout is there.
Prepare ==
    /\ att.at = "idle" /\ crPast.runs < MaxRuns
    /\ \E docs \in BOOLEAN : att' = Attestation(docs)
    /\ crPast' = [crPast EXCEPT !.runs = @ + 1]
    /\ UNCHANGED <<box, signed, rows>>

\* A check that a commit of documents skips is recorded as skipped; the next one
\* starts, with a timeout of its own inside the caller's context.
NextCheck ==
    /\ att.at = "next" /\ att.check \in Checks
    /\ IF att.docs /\ Skippable[att.check]
       THEN /\ att' = [att EXCEPT !.check = @ + 1, !.results = Append(@, "skipped"), !.ended = Append(@, "skipped")]
            /\ UNCHANGED <<box, crPast>>
       ELSE /\ att' = [att EXCEPT !.at = "run", !.ended = Append(@, "lost")]
            /\ \/ box' = [NoBox EXCEPT !.state = "running"] /\ UNCHANGED crPast
               \/ Fault /\ box' = [state |-> "unstarted", code |-> 125] /\ crPast' = Faulted
    /\ UNCHANGED <<signed, rows>>

\* The check's own end, 137 for one that exits so or whose memory limit kills it.
BoxEnds ==
    /\ box.state = "running" /\ att.at # "idle"
    /\ \E end \in {[state |-> "exited", code |-> 0], [state |-> "exited", code |-> 1],
                   [state |-> "exited", code |-> 137], [state |-> "oom", code |-> 137]} :
           /\ box' = end
           /\ att' = [att EXCEPT !.ended[att.check] = IF end.code = 0 THEN "passed" ELSE "failed"]
    /\ UNCHANGED <<signed, rows, crPast>>

\* The engine, its VM or somebody kills the container.
BoxKilled ==
    /\ box.state = "running" /\ att.at # "idle" /\ Fault
    /\ box' = [state |-> "killed", code |-> 137]
    /\ crPast' = Faulted
    /\ UNCHANGED <<att, signed, rows>>

\* The check's timeout passes, or the caller's context ends.
Cut ==
    /\ att.at \in {"run", "evidence", "classify", "remove", "judge"} /\ att.cut = "no"
    /\ \E cut \in {"timeout", "cancelled"} : att' = [att EXCEPT !.cut = cut]
    /\ UNCHANGED <<box, signed, rows, crPast>>

\* The engine's CLI returns: with the container's code, or because it was told to
\* stop, which a container need not obey. LogRunner takes no code of a cut run.
CLIReturns ==
    /\ att.at = "run" /\ (box.state # "running" \/ att.cut # "no")
    /\ IF att.cut # "no" THEN Erred("remove")
       ELSE att' = [att EXCEPT !.at = "evidence", !.code = box.code]
    /\ UNCHANGED <<box, signed, rows, crPast>>

\* Somebody kills the CLI. The container need not notice, and LogRunner takes the -1
\* for a code like another.
CLIDies ==
    /\ att.at = "run" /\ att.cut = "no" /\ Fault
    /\ att' = [att EXCEPT !.at = "evidence", !.code = BySignal, !.died = TRUE]
    /\ crPast' = Faulted
    /\ UNCHANGED <<box, signed, rows>>

\* The log is kept as evidence, or the disk is full.
KeepEvidence ==
    /\ att.at = "evidence"
    /\ \/ Goto("classify") /\ UNCHANGED crPast
       \/ Fault /\ Erred("remove") /\ crPast' = Faulted
    /\ UNCHANGED <<box, signed, rows>>

\* Mutant: 137 is a check's failure whoever killed it.
ClassifyBlindly ==
    /\ att.at = "classify"
    /\ IF att.code = 125 THEN Erred("remove") ELSE Goto("remove")
    /\ UNCHANGED <<box, signed, rows, crPast>>

\* classify: 125, and 137 unless the memory limit did it, which is asked of the
\* engine, are errors; any other code passes for the check's own verdict.
Classify ==
    /\ att.at = "classify"
    /\ \/ /\ IF att.code = 125 \/ (att.code = 137 /\ box.state # "oom") THEN Erred("remove") ELSE Goto("remove")
          /\ UNCHANGED crPast
       \/ att.code = 137 /\ Fault /\ Erred("remove") /\ crPast' = Faulted
    /\ UNCHANGED <<box, signed, rows>>

\* Mutant: a container is removed only after a run that went well.
RemoveIfEnded ==
    /\ att.at = "remove"
    /\ Goto("judge")
    /\ box' = NoBox
    /\ crPast' = IF att.failed /\ box.state = "running" THEN [crPast EXCEPT !.left = @ + 1] ELSE crPast
    /\ UNCHANGED <<signed, rows>>

\* rm -f by name, in a context of its own; a failure is logged.
Remove ==
    /\ att.at = "remove"
    /\ Goto("judge")
    /\ box' = NoBox
    /\ \/ UNCHANGED crPast
       \/ /\ Fault
          /\ crPast' = [crPast EXCEPT !.faults = @ + 1, !.unremoved = @ + 1,
                                      !.left = IF box.state = "running" THEN @ + 1 ELSE @]
    /\ UNCHANGED <<signed, rows>>

\* A cut or an error ends the run without a statement; a code is a result, and
\* the first that is not zero is the last.
Judge ==
    /\ att.at = "judge"
    /\ IF att.cut # "no" \/ att.failed
       THEN Goto("infra")
       ELSE att' = [att EXCEPT !.at = IF att.code = 0 THEN "next" ELSE "sign", !.check = @ + 1,
                               !.results = Append(@, IF att.code = 0 THEN "passed" ELSE "failed")]
    /\ UNCHANGED <<box, signed, rows, crPast>>

\* Failing runs are signed too.
Sign ==
    /\ att.at = "sign" \/ (att.at = "next" /\ att.check \notin Checks)
    /\ signed' = signed \cup {[run |-> crPast.runs, docs |-> att.docs, results |-> att.results, ended |-> att.ended,
                             died |-> att.died]}
    /\ Goto("publish")
    /\ UNCHANGED <<box, rows, crPast>>

------------------------------------------------------------------------------
(* Reporter.Publish: rows of tests, of checks and of the run, each of which may *)
(* fail alone.                                                                  *)

Row(table, outcome) == [run |-> crPast.runs, table |-> table, outcome |-> outcome]

\* Mutant: the outcome of a run is that of the checks it got to.
OutcomeByCodes == IF "failed" \in {att.results[i] : i \in DOMAIN att.results} THEN "failed" ELSE "passed"

\* Run.Outcome: a run that could not judge the commit says nothing of it.
Outcome ==
    IF att.at = "infra" THEN "infra"
    ELSE IF "failed" \in {att.results[i] : i \in DOMAIN att.results} THEN "failed" ELSE "passed"

Publish ==
    /\ att.at \in {"infra", "publish"}
    /\ \E kept \in SUBSET (IF Outcome = "infra" THEN {"tests", "run"} ELSE {"tests", "checks", "run"}) :
           rows' = rows \cup {Row(table, Outcome) : table \in kept}
    /\ att' = Resting
    /\ UNCHANGED <<box, signed, crPast>>

\* serve dies; the container runs on, and nothing remembers its name.
Crash ==
    /\ att.at # "idle" /\ Fault
    /\ att' = Resting /\ box' = NoBox
    /\ crPast' = [crPast EXCEPT !.faults = @ + 1, !.unremoved = IF box = NoBox THEN @ ELSE @ + 1,
                                !.left = IF box.state = "running" THEN @ + 1 ELSE @]
    /\ UNCHANGED <<signed, rows>>

Init ==
    /\ att = Resting /\ box = NoBox /\ signed = {} /\ rows = {}
    /\ crPast = [runs |-> 0, faults |-> 0, left |-> 0, unremoved |-> 0]

Next ==
    \/ Prepare \/ NextCheck \/ BoxEnds \/ BoxKilled \/ Cut \/ CLIReturns \/ CLIDies
    \/ KeepEvidence \/ Classify \/ Remove \/ Judge \/ Sign \/ Publish \/ Crash

Spec == Init /\ [][Next]_crVars

------------------------------------------------------------------------------

\* Each pass of a statement is how the check's container ended by itself, and each
\* failure is, unless the engine's CLI was killed: whatever timeouts, cancels, kills
\* of containers and engine errors came between ("Exit 125 ... and exit 137 without
\* OOMKilled ... nothing is signed"). A check is missing only after a failure.
SignedIsEarned ==
    \A s \in signed :
        /\ \A i \in DOMAIN s.results : s.results[i] = s.ended[i] \/ (s.died /\ s.results[i] = "failed")
        /\ Len(s.results) < Len(Skippable) => s.results[Len(s.results)] = "failed"

\* The rows of the database tell of a run what was signed of it: a run that passed
\* or failed has a statement that says so, and one that could not judge has none,
\* nor rows of its checks, so that no row of a cut run counts for or against a commit.
RowsTellWhatWasSigned ==
    \A r \in rows :
        LET own == {s \in signed : s.run = r.run} IN
        IF r.outcome = "infra" THEN own = {} /\ r.table # "checks"
        ELSE \E s \in own : (r.outcome = "passed") <=> (\A i \in DOMAIN s.results : s.results[i] # "failed")

\* The two together: what is listed was signed, and what was signed happened but for
\* the failure of a check whose CLI was killed.
RecordsAreTrue == SignedIsEarned /\ RowsTellWhatWasSigned

\* No check container outlives its run, except one that could not be removed or
\* whose serve died.
NoneOutlives == crPast.left <= crPast.unremoved
==============================================================================
