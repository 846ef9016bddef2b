------------------------------- MODULE Budgets -------------------------------
(* Token budgets (line/station/budget.go, line/constitution/budget.go): the   *)
(* usage stations report, the rolling windows that meter it, the notices to   *)
(* the channel and the claims an exhausted budget withholds (cards.go).       *)
(*                                                                            *)
(* A report reads the clock, waits for budgetMu, meters, records and posts;   *)
(* a maker's claim is checked against the usage recorded by then. A call may  *)
(* fail at any of these, a post without a retry, and a station may die with   *)
(* its report still in the server.                                            *)
EXTENDS Integers, Sequences, FiniteSets, FiniteSetsExt

CONSTANTS
    Budget,       \* the constitution's budgets: [scope, tokens, period, warn]
    Makers,       \* stations that claim a card before they spend on it
    Others,       \* stations of other roles, whose runs no budget withholds
    Cards,
    Amounts,      \* tokens one run may report
    MaxReports,   \* bound: reports that arrive
    MaxTime       \* bound: clock ticks

VARIABLES
    usage,        \* the line database: recorded reports
    now,          \* the clock
    run,          \* per station: its run and the call it ends with
    calls,        \* the usage requests in the order they arrived
    btPast        \* history: the exhausted budgets, by what became of the notice, and the orphans

btVars == <<usage, now, run, calls, btPast>>

\* Tokens, periods and reports are counts; a station has one role.
BudgetsAssumption ==
    /\ Budget \subseteq [scope : STRING, tokens : Nat, period : Nat, warn : Nat]
    /\ IsFiniteSet(Makers) /\ Makers \cap Others = {}
    /\ IsFiniteSet(Amounts) /\ Amounts # {} /\ Amounts \subseteq Nat

------------------------------------------------------------------------------

\* validateBudgets: one budget per scope, positive limits, a warning below full.
Valid ==
    /\ \A b \in Budget : b.scope \in {"line", "card", "maker", "kaizen"} /\ b.tokens >= 1 /\ b.period >= 1 /\ b.warn \in 1..99
    /\ \A a, b \in Budget : a.scope = b.scope => a = b

\* budgetStatuses: what each budget has spent over its window, per card for card scope.
Counts(b, card, u) == IF b.scope = "card" THEN u.card = card ELSE b.scope \in {"line", u.role}
Keys == {k \in Budget \X (Cards \cup {""}) : (k[1].scope = "card") = (k[2] # "")}
Used(k, us, at) == MapThenSumSet(LAMBDA u : u.tokens, {u \in us : u.at >= at - k[1].period /\ Counts(k[1], k[2], u)})
budgetStatuses(us, at) ==
    [k \in Keys |-> [percent |-> (Used(k, us, at) * 100) \div k[1].tokens, exhausted |-> Used(k, us, at) >= k[1].tokens]]

\* budgetBlock: an exhausted budget of the line, of the role or of the card.
budgetBlock(sts, role, card) ==
    \E k \in Keys : sts[k].exhausted /\ (k[1].scope \in {"line", role} \/ (k[1].scope = "card" /\ k[2] = card))

\* budgetNotices: the marks crossed between two meterings.
budgetNotices(before, after) ==
    {k \in Keys : \/ after[k].exhausted /\ ~before[k].exhausted
                  \/ ~after[k].exhausted /\ after[k].percent >= k[1].warn /\ before[k].percent < k[1].warn}

Statuses == budgetStatuses(usage, now)
Full == LET sts == Statuses IN {k \in Keys : sts[k].exhausted}

------------------------------------------------------------------------------

Out == [at |-> "out"]
Done == [at |-> "done"]
Role(s) == IF s \in Makers THEN "maker" ELSE "kaizen"
\* Mutant: the claim is not checked.
ClearAlways(s, card) == card \in Cards

Clear(s, card) == s \in Others \/ ~budgetBlock(Statuses, "maker", card)

\* settle: a maker's claim is checked against the budgets and made by a later call.
ClaimChecks(s, card) ==
    /\ run[s] = Out /\ Clear(s, card)
    /\ run' = [run EXCEPT ![s] = [at |-> "run", card |-> card]]
    /\ UNCHANGED <<usage, now, calls, btPast>>

\* The run ends; its usage request is decoded and reads its clock before the lock.
UsageArrives(s) ==
    /\ run[s].at = "run" /\ Len(calls) < MaxReports
    /\ \E n \in Amounts :
        calls' = Append(calls, [at |-> "waits",
            u |-> [id |-> Len(calls) + 1, at |-> now, role |-> Role(s), card |-> run[s].card, tokens |-> n]])
    /\ run' = [run EXCEPT ![s] = [at |-> "reports", call |-> Len(calls) + 1]]
    /\ UNCHANGED <<usage, now, btPast>>

\* Mutant: reports are metered without the mutex.
MeterAlways == DOMAIN run # {}

\* currentBudgets, under budgetMu.
MeterFree == \A c \in DOMAIN calls : calls[c].at # "locked"

UsageMeters(c) ==
    /\ calls[c].at = "waits" /\ MeterFree
    /\ calls' = [calls EXCEPT ![c] = [at |-> "locked", u |-> calls[c].u, seen |-> usage]]
    /\ UNCHANGED <<usage, now, run, btPast>>

\* The call returns, to the station that waits for it.
Returns(c) ==
    /\ calls' = [calls EXCEPT ![c] = Done]
    /\ run' = [s \in DOMAIN run |-> IF run[s] = [at |-> "reports", call |-> c] THEN Out ELSE run[s]]

\* RecordTokenUsage, then a post for each mark this report crossed: one that fails is
\* logged and not tried again, nor are those a crash leaves out.
UsageRecords(c) ==
    /\ calls[c].at = "locked" /\ Returns(c)
    /\ LET rec == calls[c].u
           before == budgetStatuses(calls[c].seen, rec.at)
           after == budgetStatuses(calls[c].seen \cup {rec}, rec.at)
           filled == {k \in budgetNotices(before, after) : after[k].exhausted}
           full == {k \in Keys : budgetStatuses(usage \cup {rec}, now)[k].exhausted}
       IN /\ usage' = usage \cup {rec}
          /\ \E unposted \in SUBSET filled :
              btPast' = [btPast EXCEPT
                  !.told = (@ \cup (filled \ unposted)) \cap full,
                  !.lost = (@ \cup unposted) \cap full,
                  !.aged = (@ \cup {k \in Keys \ Full : before[k].exhausted}) \cap full,
                  !.twice = @ \/ filled \cap (btPast.told \cup btPast.lost) # {}]
    /\ UNCHANGED now

\* The store fails, the request is cancelled, or serve restarts under it.
UsageFails(c) ==
    /\ calls[c] # Done /\ Returns(c)
    /\ UNCHANGED <<usage, now, btPast>>

\* The station dies and starts anew; a report it had sent stays in the server.
StationDies(s) ==
    /\ run[s] # Out
    /\ run' = [run EXCEPT ![s] = Out]
    /\ btPast' = [btPast EXCEPT !.orphans = @ \cup {c \in DOMAIN calls : s \in Makers /\ run[s] = [at |-> "reports", call |-> c]}]
    /\ UNCHANGED <<usage, now, calls>>

Tick ==
    /\ now < MaxTime
    /\ now' = now + 1
    /\ LET full == {k \in Keys : budgetStatuses(usage, now + 1)[k].exhausted}
       IN btPast' = [btPast EXCEPT !.told = @ \cap full, !.lost = @ \cap full, !.aged = @ \cap full]
    /\ UNCHANGED <<usage, run, calls>>

Init ==
    /\ Valid
    /\ usage = {} /\ now = 0 /\ calls = <<>>
    /\ run = [s \in Makers \cup Others |-> Out]
    /\ btPast = [told |-> {}, lost |-> {}, aged |-> {}, twice |-> FALSE, orphans |-> {}]

Next ==
    \/ Tick
    \/ \E s \in Makers \cup Others : \/ UsageArrives(s) \/ StationDies(s)
                                   \/ \E card \in Cards : ClaimChecks(s, card)
    \/ \E c \in DOMAIN calls : UsageMeters(c) \/ UsageRecords(c) \/ UsageFails(c)

Spec == Init /\ [][Next]_btVars

------------------------------------------------------------------------------

\* A report that fills a budget sends one notice of it, and none is sent for a budget
\* that is exhausted already, however the reports of several stations interleave: an
\* exhausted budget was announced, or the post of its notice failed (nothing repeats
\* it), or it was filled by a report that had waited for the lock while usage aged out
\* and was metered over its older window, full then.
ExhaustionAnnounced == Full \subseteq btPast.told \cup btPast.lost \cup btPast.aged /\ ~btPast.twice

\* Makers overrun a budget of theirs by no more than the runs they had been cleared
\* for: one each, and one for each report that a dead maker had left in the server.
OverrunBounded ==
    \A k \in Keys : k[1].scope = "maker" =>
        Used(k, usage, now) < k[1].tokens + (Cardinality(Makers) + Cardinality(btPast.orphans)) * Max(Amounts)
==============================================================================
