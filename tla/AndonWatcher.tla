---------------------------- MODULE AndonWatcher ----------------------------
(***************************************************************************)
(* The andon watcher (line/andon): a loop that attests every new master,   *)
(* pulls the cord when one fails, clears it once a newer master passes and *)
(* keeps a live card for the event while the line is stopped.              *)
(*                                                                         *)
(* One action per call the loop makes; merges, card owners and the calls   *)
(* of other stations happen between them, and every call may fail with or  *)
(* without having taken effect.  A guard call is its reads, then its CAS   *)
(* (MergeGuard takes the reads apart too).                                 *)
(***************************************************************************)
EXTENDS Naturals, Sequences, FiniteSets

CONSTANTS
    Other,         \* stations that also pull and clear; the guard lets any
    MaxMaster,     \* bound: commits that land
    MaxPulls,      \* bound: events after which no other station pulls
    MaxRestarts    \* bound: restarts of the watcher

(* What the required checks do on a commit once it is master: pass, fail,  *)
(* either, or are skipped because the commit only touches documentation.   *)
Kind == {"good", "broken", "flaky", "docs"}

Outcome == [good |-> {"passed"}, broken |-> {"failed"},
            flaky |-> {"passed", "failed"}, docs |-> {"skipped"}]

VARIABLES
    line,      \* kinds of the commits of the line; its length is master
    passed,    \* commits with a passing run in the line database
    failures,  \* signed failing line attestations of each commit, up to two
    events,    \* commit of each andon event ever pulled
    cord,      \* refs/line/andon: the event in force, 0 when there is none
    live,      \* events that have an open or in_progress card
    pc,        \* the call the watcher makes next
    st,        \* the status it read: master and event
    res,       \* outcome of the attestation it acts on
    todo,      \* the event it will card, or lift
    last,      \* last master attested; 0 is ""
    restarts,
    other      \* what each other station has read for its pull or clear

shared == <<line, passed, failures, events, cord>>
watcher == <<pc, st, res, todo, last>>
vars == <<shared, live, watcher, restarts, other>>

master == Len(line)
Commit == 1..MaxMaster
NoStatus == [master |-> 0, event |-> 0]
Quiet == [op |-> "none", commit |-> 0, event |-> 0]

Init ==
    /\ line \in [1..1 -> Kind]
    /\ passed \in SUBSET {1}
    /\ failures = [c \in Commit |-> 0]
    /\ events = <<>>
    /\ cord = 0
    /\ live = {}
    /\ pc = "status"
    /\ st = NoStatus
    /\ res = "none"
    /\ todo = 0
    /\ last = 0
    /\ restarts = 0
    /\ other = [o \in Other |-> Quiet]

(* The step is over, its local variables are gone; the loop waits for its  *)
(* next tick.                                                              *)
Done == pc' = "status" /\ st' = NoStatus /\ res' = "none" /\ todo' = 0

(* The step goes on to ensureCard, its last call.                          *)
Ensure(e) == pc' = "card" /\ st' = NoStatus /\ res' = "none" /\ todo' = e

Goto(step) == pc' = step /\ UNCHANGED <<st, res, todo>>

-----------------------------------------------------------------------------
(* Mutant: a stop that is already known is not carded again.               *)
StatusNoCard ==
    /\ pc = "event"
    /\ \/ st.master = last /\ Done
       \/ /\ st.master # last
          /\ st' = [st EXCEPT !.event = cord]
          /\ pc' = "attest"
          /\ UNCHANGED <<res, todo>>
    /\ UNCHANGED <<shared, live, last, restarts, other>>

(* Step: GET /v1/status reads master, then the stop ref.                   *)
StatusMaster ==
    /\ pc = "status"
    /\ st' = [st EXCEPT !.master = master]
    /\ pc' = "event"
    /\ UNCHANGED <<shared, live, res, todo, last, restarts, other>>

StatusEvent ==
    /\ pc = "event"
    /\ \/ st.master = last /\ cord = 0 /\ Done
       \/ st.master = last /\ cord # 0 /\ Ensure(cord)
       \/ /\ st.master # last
          /\ st' = [st EXCEPT !.event = cord]
          /\ pc' = "attest"
          /\ UNCHANGED <<res, todo>>
    /\ UNCHANGED <<shared, live, last, restarts, other>>

(* A signed run of commit c, recorded in the line database.                *)
Record(c, outcome) ==
    /\ \/ passed' = IF outcome = "failed" THEN passed ELSE passed \cup {c}
       \/ passed' = passed
    /\ failures' = [failures EXCEPT ![c] =
                      IF outcome = "failed" /\ @ < 2 THEN @ + 1 ELSE @]
    /\ UNCHANGED <<line, events, cord>>

(* The verdict on st.master is in: last advances before it is acted on.    *)
Verdict(outcome, flake) ==
    /\ last' = st.master
    /\ \/ /\ outcome = "failed" /\ ~flake
          /\ pc' = "pull" /\ res' = outcome /\ UNCHANGED <<st, todo>>
       \/ /\ outcome # "failed" \/ flake
          /\ st.event = 0
          /\ Done
       \/ /\ outcome = "failed" /\ flake /\ st.event # 0
          /\ Ensure(st.event)
       \/ /\ outcome # "failed" /\ st.event # 0
          /\ pc' = "clear" /\ res' = outcome /\ UNCHANGED <<st, todo>>

(* The outcome needs confirming, or a flake card, before it is a verdict.  *)
Pending(step, outcome) == pc' = step /\ res' = outcome /\ UNCHANGED <<st, todo, last>>

Attest(outcome) ==
    /\ Record(st.master, outcome)
    /\ IF outcome = "failed" THEN Pending("history", outcome) ELSE Verdict(outcome, FALSE)
    /\ UNCHANGED <<live, restarts, other>>

(* Busy, timed out or unreachable: no verdict, but a stopped line is       *)
(* carded.                                                                 *)
AttestError ==
    /\ pc = "attest"
    /\ IF st.event # 0 THEN Ensure(st.event) ELSE Done
    /\ UNCHANGED <<shared, live, last, restarts, other>>

(* Mutant: a single failure stops the line.                                *)
HistoryOnly ==
    /\ pc = "history"
    /\ IF st.master \in passed THEN Goto("flake") /\ UNCHANGED last
                               ELSE Verdict(res, FALSE)
    /\ UNCHANGED <<shared, live, restarts, other>>

(* confirmFailure: an earlier passing run contradicts the failure.         *)
History ==
    /\ pc = "history"
    /\ Goto(IF st.master \in passed THEN "flake" ELSE "confirm")
    /\ UNCHANGED <<shared, live, last, restarts, other>>

(* ... and so does a second attestation that passes.                       *)
Confirm(outcome) ==
    /\ Record(st.master, outcome)
    /\ IF outcome = "failed" THEN Verdict(outcome, FALSE) ELSE Pending("flake", outcome)
    /\ UNCHANGED <<live, restarts, other>>

RaiseFlake ==
    /\ pc = "flake"
    /\ Verdict(res, TRUE)
    /\ UNCHANGED <<shared, live, restarts, other>>

(* Step returns the error of a read or of the flake card at once.          *)
StepError ==
    /\ pc \in {"event", "history", "confirm", "flake"}
    /\ Done
    /\ UNCHANGED <<shared, live, last, restarts, other>>

-----------------------------------------------------------------------------
(* Pull: the evidence must be of the current master, and nothing is        *)
(* stopped yet; the event is created by CAS.                               *)
NewEvent(c) ==
    /\ events' = Append(events, c)
    /\ cord' = Len(events) + 1
    /\ UNCHANGED <<line, passed, failures>>

(* already_stopped: the event to card is the one the guard reports, else   *)
(* the one in the status.                                                  *)
AlreadyStopped ==
    LET e == IF st.event # 0 /\ cord = 0 THEN st.event ELSE cord
    IN IF e # 0 THEN Ensure(e) ELSE Done

(* Mutant: every pull is taken for stale.                                  *)
PullReadStale ==
    /\ pc = "pull"
    /\ last' = 0
    /\ Done
    /\ UNCHANGED <<shared, live, restarts, other>>

(* Master moved while the checks ran: the new one is looked at next.       *)
PullRead ==
    /\ pc = "pull"
    /\ \/ /\ st.master # master
          /\ last' = 0
          /\ Done
       \/ /\ st.master = master /\ cord # 0
          /\ AlreadyStopped
          /\ UNCHANGED last
       \/ /\ st.master = master /\ cord = 0
          /\ Goto("pull_cas")
          /\ UNCHANGED last
    /\ UNCHANGED <<shared, live, restarts, other>>

PullCas ==
    /\ pc = "pull_cas"
    /\ \/ /\ cord = 0
          /\ NewEvent(st.master)
          /\ Ensure(Len(events) + 1)
       \/ /\ cord # 0
          /\ Goto("pull_lost")
          /\ UNCHANGED shared
    /\ UNCHANGED <<live, last, restarts, other>>

(* The loser of the race reads the stop ref again: it may be lifted.       *)
PullLost ==
    /\ pc = "pull_lost"
    /\ AlreadyStopped
    /\ UNCHANGED <<shared, live, last, restarts, other>>

(* Mutant: a pull whose reply is lost counts as done.                      *)
PullErrorOnce ==
    /\ pc \in {"pull", "pull_cas", "pull_lost"}
    /\ \/ pc = "pull_cas" /\ cord = 0 /\ NewEvent(st.master)
       \/ UNCHANGED shared
    /\ Done
    /\ UNCHANGED <<live, last, restarts, other>>

(* The reply is lost; the cord may have been pulled.                       *)
PullError ==
    /\ pc \in {"pull", "pull_cas", "pull_lost"}
    /\ \/ pc = "pull_cas" /\ cord = 0 /\ NewEvent(st.master)
       \/ UNCHANGED shared
    /\ last' = 0
    /\ Done
    /\ UNCHANGED <<live, restarts, other>>

-----------------------------------------------------------------------------
(* Cleared, or not stopped any more: the event's cards are closed.         *)
Resolve(e) == pc' = "resolve" /\ st' = NoStatus /\ res' = "none" /\ todo' = e

(* Mutant: every clear of a stopped line is rejected, and tried again.     *)
ClearReadAgain ==
    /\ pc = "clear"
    /\ IF cord = 0 THEN Resolve(st.event) /\ UNCHANGED last
                   ELSE Ensure(st.event) /\ last' = 0
    /\ UNCHANGED <<shared, live, restarts, other>>

(* Mutant: a rejected clear closes the event's cards like an obsolete one. *)
ClearReadResolve ==
    /\ pc = "clear"
    /\ IF cord # 0 /\ st.master = master /\ events[cord] # st.master /\ res = "passed"
         THEN pc' = "clear_cas" /\ todo' = cord /\ UNCHANGED <<st, res>>
         ELSE Resolve(st.event)
    /\ UNCHANGED <<shared, live, last, restarts, other>>

(* Clear: the guard reads the event, compares the evidence with master and *)
(* the failing commit, and wants every check run.                          *)
ClearRead ==
    LET stale == st.master # master \/ events[cord] = st.master
    IN /\ pc = "clear"
       /\ \/ /\ cord = 0
             /\ Resolve(st.event)
             /\ UNCHANGED last
          \/ /\ cord # 0 /\ ~stale /\ res = "passed"
             /\ pc' = "clear_cas" /\ todo' = cord
             /\ UNCHANGED <<st, res, last>>
          \/ /\ cord # 0 /\ (stale \/ res # "passed")
             /\ Ensure(st.event)
             /\ last' = IF stale /\ events[st.event] = st.master THEN last ELSE 0
       /\ UNCHANGED <<shared, live, restarts, other>>

ClearCas ==
    /\ pc = "clear_cas"
    /\ cord' = IF cord = todo THEN 0 ELSE cord
    /\ Resolve(st.event)
    /\ UNCHANGED <<line, passed, failures, events, live, last, restarts, other>>

ClearError ==
    /\ pc \in {"clear", "clear_cas"}
    /\ cord' \in IF pc = "clear_cas" /\ cord = todo THEN {0, cord} ELSE {cord}
    /\ last' = 0
    /\ Done
    /\ UNCHANGED <<line, passed, failures, events, live, restarts, other>>

-----------------------------------------------------------------------------
(* ensureCard: Raise returns the event's live card or files one.           *)
EnsureCard ==
    /\ pc = "card"
    /\ live' = live \cup {todo}
    /\ Done
    /\ UNCHANGED <<shared, last, restarts, other>>

(* bd fails, before or after the card was filed.                           *)
EnsureCardError ==
    /\ pc = "card"
    /\ live' \in {live, live \cup {todo}}
    /\ Done
    /\ UNCHANGED <<shared, last, restarts, other>>

(* Resolve closes the cards of the event; a failure is only logged.        *)
ResolveCards ==
    /\ pc = "resolve"
    /\ live' \in {live \ {todo}, live}
    /\ Done
    /\ UNCHANGED <<shared, last, restarts, other>>

(* The watcher process is replaced: nothing of it is persisted.            *)
Restart ==
    /\ restarts < MaxRestarts
    /\ restarts' = restarts + 1
    /\ last' = 0
    /\ Done
    /\ UNCHANGED <<shared, live, other>>

-----------------------------------------------------------------------------
(* A merge: its passing run was recorded, unless the database failed.      *)
Land(kind) ==
    /\ master < MaxMaster
    /\ line' = Append(line, kind)
    /\ passed' \in {passed, passed \cup {master + 1}}
    /\ UNCHANGED <<failures, events, cord, live, watcher, restarts, other>>

(* A maker whose fix landed, or the king, closes a card.                   *)
CloseCard(e) ==
    /\ e \in live
    /\ live' = live \ {e}
    /\ UNCHANGED <<shared, watcher, restarts, other>>

(* Another station's pull or clear, with its own run of the master it saw. *)
OtherReads(o, op) ==
    /\ other[o] = Quiet
    /\ \/ /\ op = "pull" /\ cord = 0
          /\ Len(events) < MaxPulls
          /\ "failed" \in Outcome[line[master]]
       \/ /\ op = "clear" /\ cord # 0
          /\ events[cord] # master
          /\ "passed" \in Outcome[line[master]]
    /\ other' = [other EXCEPT ![o] = [op |-> op, commit |-> master, event |-> cord]]
    /\ UNCHANGED <<shared, live, watcher, restarts>>

OtherActs(o) ==
    /\ other[o] # Quiet
    /\ \/ /\ other[o].op = "pull" /\ cord = 0
          /\ NewEvent(other[o].commit)
       \/ /\ other[o].op = "clear" /\ cord = other[o].event
          /\ cord' = 0
          /\ UNCHANGED <<line, passed, failures, events>>
       \/ /\ cord # other[o].event
          /\ UNCHANGED shared
    /\ other' = [other EXCEPT ![o] = Quiet]
    /\ UNCHANGED <<live, watcher, restarts>>

-----------------------------------------------------------------------------
AttestSome ==
    pc = "attest" /\ \E outcome \in Outcome[line[st.master]] : Attest(outcome)
ConfirmSome ==
    pc = "confirm" /\ \E outcome \in Outcome[line[st.master]] : Confirm(outcome)

Step ==
    \/ StatusMaster \/ StatusEvent
    \/ AttestSome \/ History \/ ConfirmSome \/ RaiseFlake
    \/ PullRead \/ PullCas \/ PullLost
    \/ ClearRead \/ ClearCas
    \/ EnsureCard \/ ResolveCards

Errors == AttestError \/ StepError \/ PullError \/ ClearError \/ EnsureCardError

Environment ==
    \/ \E kind \in Kind : Land(kind)
    \/ \E e \in live : CloseCard(e)
    \/ \E o \in Other : \/ \E op \in {"pull", "clear"} : OtherReads(o, op)
                        \/ OtherActs(o)

Next == Step \/ Errors \/ Restart \/ Environment

Spec == Init /\ [][Next]_vars
-----------------------------------------------------------------------------
(* Run steps on every tick, so the watcher never rests in the middle of a  *)
(* step; and an error of one call does not come back for ever ("the next   *)
(* step simply retries").                                                  *)
Ticks == WF_vars(Step \/ Errors)

Recovers ==
    /\ SF_vars(StatusEvent) /\ SF_vars(AttestSome) /\ SF_vars(History)
    /\ SF_vars(ConfirmSome) /\ SF_vars(RaiseFlake)
    /\ SF_vars(PullRead) /\ SF_vars(PullCas) /\ SF_vars(PullLost)
    /\ SF_vars(ClearRead) /\ SF_vars(ClearCas) /\ SF_vars(EnsureCard)

-----------------------------------------------------------------------------
(* The watcher stops the line only on a confirmed failure: with no other   *)
(* station pulling, every event is of a commit that failed two signed      *)
(* attestations, whatever failed, restarted or landed in between.          *)
StopIsConfirmed ==
    \A i \in 1..Len(events) : failures[events[i]] = 2

(* When the watcher rests with the current master behind it, the verdict   *)
(* was acted on: a master whose checks fail, and that no run ever saw      *)
(* pass, has stopped the line, and a master whose checks pass has not left *)
(* it stopped.  `last` must not outlive a failed or stale pull or clear.   *)
VerdictActedOn ==
    pc = "status" /\ last = master =>
        /\ line[master] = "broken" /\ master \notin passed => cord # 0
        /\ line[master] = "good" => cord = 0

(* The watcher's verdicts hold, on a line that no other station stops or   *)
(* restarts: it stops the line only on two signed failures of the commit,  *)
(* and never rests on a verdict of the current master that it did not act  *)
(* on.                                                                     *)
VerdictsHold == StopIsConfirmed /\ VerdictActedOn

(* The watcher never closes the cards of the event that stops the line,    *)
(* also when other stations lift that event and pull a new one meanwhile   *)
(* (Resolve after a clear that found nothing to lift).                     *)
ResolveSparesTheStop ==
    [][pc = "resolve" /\ pc' = "status" => cord \notin live \ live']_vars

(* A master whose checks fail, and that no recorded run saw pass, stops    *)
(* the line unless a newer master lands first.                             *)
BrokenMasterStops ==
    \A m \in Commit :
        (master = m /\ line[m] = "broken" /\ m \notin passed) ~> (cord # 0 \/ master # m)

(* "clears it once a newer master passes" (watcher.go:3): a master whose   *)
(* checks pass does not leave the line stopped.                            *)
GoodMasterRestarts ==
    \A m \in Commit :
        (master = m /\ line[m] = "good" /\ cord # 0) ~> (cord = 0 \/ master # m)

(* "a stopped line must still have a live card meanwhile" (watcher.go:105) *)
(* : an event without a live card gets one unless it is lifted first.      *)
StopIsCarded ==
    \A e \in 1..(MaxMaster + MaxPulls) :
        (cord = e /\ e \notin live) ~> (cord # e \/ e \in live)
=============================================================================
