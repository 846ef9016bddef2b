------------------------------- MODULE Heijunka -------------------------------
(* The flow worker (line/heijunka): the triage of stale needs:<role> cards,   *)
(* the reaper of abandoned claims and the levels it publishes; the heartbeats  *)
(* it judges by are those of line/station/liveness.go, sent by the makers.     *)
(*                                                                            *)
(* The worker's bd calls are steps of their own, so makers, roles that answer  *)
(* and the restart of serve fall between them. A card's revision matters only  *)
(* as "changed since the reaper read it": that is the flag moved. Ages matter  *)
(* only against a limit: stale (cards.needs_timeout), late                     *)
(* (QueueLatencyTarget), fresh (MakerSilenceLimit).                            *)
EXTENDS Integers, FiniteSets, FiniteSetsExt

CONSTANTS
    Cards, Makers,
    Needable,      \* roles a maker may raise a need for
    MaxReaps,      \* reaps before a card is handed to the viceroy
    MinAgents, MaxAgents, CardsPerAgent, WIPPerAgent, MaxStep,  \* the policy
    MaxClaims,     \* bound: claims of each card
    MaxFaults,     \* bound: failed calls, crashes, restarts of serve
    MaxCord        \* bound: pulls of the cord

VARIABLES
    cards,         \* the tracker: claim, labels, reap comments and age of each card
    makers,        \* per maker: process up, card it works
    seen,          \* serve: last heartbeat per maker, lost at a restart
    stopped,       \* serve: an andon event is active
    levels,        \* serve: the levels published
    hj,            \* the worker: its place in Step and what it has read
    hjPast         \* history: releases by the reaper, reported claims it took, counters

hjVars == <<cards, makers, seen, stopped, levels, hj, hjPast>>

None == "none"
Roles == {"king", "kaizen", "viceroy"}
Rank(role) == CASE role = "king" -> 0 [] role = "kaizen" -> 1 [] role = "viceroy" -> 2
Unseen == [at |-> "unseen", card |-> None]
Beat(c) == [at |-> "fresh", card |-> c]
Fault == hjPast.faults < MaxFaults
Faulted == [hjPast EXCEPT !.faults = @ + 1]

\* Any change of a card moves its revision and its updated_at.
Touch(c, r) == cards' = [cards EXCEPT ![c] = [r EXCEPT !.moved = TRUE, !.stale = FALSE]]
Opened(r) == [r EXCEPT !.st = "open", !.by = None, !.late = FALSE]

------------------------------------------------------------------------------
\* The line around the worker.

MakerClaim(m, c) ==
    /\ makers[m] = [up |-> TRUE, on |-> None]
    /\ cards[c].st = "open" /\ ~cards[c].gaveUp
    /\ hjPast.claims[c] < MaxClaims
    /\ Touch(c, [cards[c] EXCEPT !.st = "held", !.by = m])
    /\ makers' = [makers EXCEPT ![m].on = c]
    /\ hjPast' = [hjPast EXCEPT !.claims[c] = @ + 1]
    /\ UNCHANGED <<seen, stopped, levels, hj>>

MakerBeat(m) ==
    /\ makers[m].up /\ makers[m].on # None
    /\ seen' = [seen EXCEPT ![m] = Beat(makers[m].on)]
    /\ UNCHANGED <<cards, makers, stopped, levels, hj, hjPast>>

\* A maker between runs reports itself idle and releases the claims it still holds.
MakerPoll(m) ==
    /\ makers[m] = [up |-> TRUE, on |-> None]
    /\ seen' = [seen EXCEPT ![m] = Beat(None)]
    /\ cards' = [c \in Cards |-> IF cards[c].by = m /\ ~cards[c].gaveUp
                                 THEN [Opened(cards[c]) EXCEPT !.moved = TRUE, !.stale = FALSE] ELSE cards[c]]
    /\ UNCHANGED <<makers, stopped, levels, hj, hjPast>>

RaiseNeed(m, role) ==
    /\ makers[m].up /\ makers[m].on # None
    /\ LET c == makers[m].on IN
       /\ cards[c].by = m /\ role \notin cards[c].needs
       /\ Touch(c, [cards[c] EXCEPT !.needs = @ \cup {role},
                      !.asked = IF hj.at = "drop" /\ hj.job[1] = c THEN "mid" ELSE "yes"])
    /\ UNCHANGED <<makers, seen, stopped, levels, hj, hjPast>>

\* The run ends: the card lands or goes back, unless the claim was taken meanwhile.
MakerSettle(m) ==
    /\ makers[m].up /\ makers[m].on # None
    /\ makers' = [makers EXCEPT ![m].on = None]
    /\ LET c == makers[m].on IN
        IF cards[c].by = m
        THEN \/ Touch(c, [cards[c] EXCEPT !.st = "closed", !.by = None])
             \/ Touch(c, Opened(cards[c]))
        ELSE UNCHANGED cards
    /\ UNCHANGED <<seen, stopped, levels, hj, hjPast>>

MakerDies(m) ==
    /\ makers[m].up /\ Fault
    /\ makers' = [makers EXCEPT ![m] = [up |-> FALSE, on |-> None]]
    /\ hjPast' = Faulted
    /\ UNCHANGED <<cards, seen, stopped, levels, hj>>

MakerReturns(m) ==
    /\ ~makers[m].up
    /\ makers' = [makers EXCEPT ![m].up = TRUE]
    /\ UNCHANGED <<cards, seen, stopped, levels, hj, hjPast>>

\* MakerSilenceLimit passes without a heartbeat of a dead maker.
Silence(m) ==
    /\ ~makers[m].up /\ seen[m].at = "fresh"
    /\ seen' = [seen EXCEPT ![m].at = "silent"]
    /\ UNCHANGED <<cards, makers, stopped, levels, hj, hjPast>>

ServeRestart ==
    /\ Fault /\ seen # [m \in Makers |-> Unseen]
    /\ seen' = [m \in Makers |-> Unseen]
    /\ hjPast' = Faulted
    /\ UNCHANGED <<cards, makers, stopped, levels, hj>>

\* The role a card waits on answers: the need label goes.
Answer(c) ==
    /\ \E role \in cards[c].needs : Touch(c, [cards[c] EXCEPT !.needs = @ \ {role}, !.asked = "no"])
    /\ UNCHANGED <<makers, seen, stopped, levels, hj, hjPast>>

Cord ==
    /\ stopped \/ hjPast.cord < MaxCord
    /\ stopped' = ~stopped
    /\ hjPast' = [hjPast EXCEPT !.cord = IF stopped THEN @ ELSE @ + 1]
    /\ UNCHANGED <<cards, makers, seen, levels, hj>>

NeedAges(c) ==
    /\ cards[c].needs # {} /\ ~cards[c].stale
    /\ cards' = [cards EXCEPT ![c].stale = TRUE]
    /\ UNCHANGED <<makers, seen, stopped, levels, hj, hjPast>>

\* Only the number of agents depends on it.
QueueAges(c) ==
    /\ MaxAgents > 0 /\ cards[c].st = "open" /\ ~cards[c].late /\ cards[c].needs = {} /\ ~cards[c].gaveUp
    /\ cards' = [cards EXCEPT ![c].late = TRUE]
    /\ UNCHANGED <<makers, seen, stopped, levels, hj, hjPast>>

------------------------------------------------------------------------------
\* NeedsTriager.

Rest == [at |-> "rest", todo |-> {}, job |-> <<None, None>>, stations |-> [m \in Makers |-> Unseen],
         known |-> {}, want |-> [agents |-> 0, wip |-> 0]]
\* Mutant: the king's needs go back to the viceroy.
DecideInCircles(role) == IF role = "viceroy" THEN "king" ELSE "viceroy"

DecideStaleNeed(role) == CASE role = "king" -> "park" [] role = "viceroy" -> "king" [] OTHER -> "viceroy"

StaleNeeds ==
    /\ hj.at = "rest"
    /\ hj' = [hj EXCEPT !.at = "triage",
                        !.todo = {j \in Cards \X Roles : LET r == cards[j[1]] IN r.stale /\ j[2] \in r.needs /\ r.st # "closed"}]
    /\ UNCHANGED <<cards, makers, seen, stopped, levels, hjPast>>

\* Mutant: the need is dropped although the label failed.
LabelNeedBlindly ==
    /\ hj.at = "triage" /\ hj.todo # {}
    /\ \E j \in hj.todo :
        LET to == DecideStaleNeed(j[2]) IN
        /\ \A k \in hj.todo : Rank(j[2]) <= Rank(k[2])
        /\ \/ /\ Touch(j[1], IF to = "park" THEN [cards[j[1]] EXCEPT !.gaveUp = TRUE] ELSE [cards[j[1]] EXCEPT !.needs = @ \cup {to}])
              /\ UNCHANGED hjPast
           \/ Fault /\ hjPast' = Faulted /\ UNCHANGED cards
        /\ hj' = [hj EXCEPT !.at = "drop", !.job = j]
    /\ UNCHANGED <<makers, seen, stopped, levels>>

\* MoveNeed and Park label the card first and drop the need after.
LabelNeed ==
    /\ hj.at = "triage" /\ hj.todo # {}
    /\ \E j \in hj.todo :
        LET to == DecideStaleNeed(j[2]) IN
        /\ \A k \in hj.todo : Rank(j[2]) <= Rank(k[2])
        /\ \/ /\ Touch(j[1], IF to = "park" THEN [cards[j[1]] EXCEPT !.gaveUp = TRUE] ELSE [cards[j[1]] EXCEPT !.needs = @ \cup {to}])
              /\ hj' = [hj EXCEPT !.at = "drop", !.job = j]
              /\ UNCHANGED hjPast
           \/ /\ Fault /\ hjPast' = Faulted
              /\ hj' = [hj EXCEPT !.todo = @ \ {j}]
              /\ UNCHANGED cards
    /\ UNCHANGED <<makers, seen, stopped, levels>>

DropNeed ==
    /\ hj.at = "drop"
    /\ \/ Touch(hj.job[1], [cards[hj.job[1]] EXCEPT !.needs = @ \ {hj.job[2]}]) /\ UNCHANGED hjPast
       \/ Fault /\ hjPast' = Faulted /\ UNCHANGED cards
    /\ hj' = [hj EXCEPT !.at = "triage", !.todo = @ \ {hj.job}, !.job = <<None, None>>]
    /\ UNCHANGED <<makers, seen, stopped, levels>>

------------------------------------------------------------------------------
\* Reaper.

\* History: the claims whose holders have reported working them, by their number.
Reported == {<<c, hjPast.claims[c]>> : c \in {d \in Cards : \E m \in Makers : cards[d].by = m /\ seen[m] = Beat(d)}}

ReadStatus ==
    /\ hj.at = "triage" /\ hj.todo = {}
    /\ hj' = [hj EXCEPT !.at = "list", !.stations = seen, !.known = Reported]
    /\ UNCHANGED <<cards, makers, seen, stopped, levels, hjPast>>

\* Mutant: a silent holder is not told from one that was never heard.
AbandonedUnlessSilent(c, by, stations) ==
    CASE stations[by].at \in {"unseen", "silent"} -> FALSE
      [] OTHER -> stations[by].card # c

\* Mutant: every holder that was heard has another card.
AbandonedIfHeard(c, by, stations) == stations[by].at # "unseen"

Abandoned(c, by, stations) ==
    CASE stations[by].at = "unseen" -> FALSE
      [] stations[by].at = "silent" -> TRUE
      [] OTHER -> stations[by].card # c

\* Claimed: every claim is listed with its revision, labels and reap comments;
\* those whose holder works them, and those the viceroy has, are passed over.
ListClaimed ==
    /\ hj.at = "list"
    /\ hj' = [hj EXCEPT !.at = "reap", !.stations = [m \in Makers |-> Unseen],
                !.todo = {<<c, cards[c].by>> : c \in {d \in Cards : cards[d].st = "held"
                            /\ Abandoned(d, cards[d].by, hj.stations) /\ "viceroy" \notin cards[d].needs}}]
    /\ cards' = [c \in Cards |-> [cards[c] EXCEPT !.moved = FALSE]]
    /\ UNCHANGED <<makers, seen, stopped, levels, hjPast>>

\* Mutant: one reap more than the limit.
RereadOnceMore ==
    /\ hj.at = "reap"
    /\ \E j \in hj.todo :
        /\ cards[j[1]].reaps <= MaxReaps
        /\ hj' = IF cards[j[1]].moved \/ cards[j[1]].by # j[2]
                 THEN [hj EXCEPT !.todo = @ \ {j}]
                 ELSE [hj EXCEPT !.at = "unclaim", !.job = j]
    /\ UNCHANGED <<cards, makers, seen, stopped, levels, hjPast>>

\* Release reads the card again and gives up on one that moved.
Reread ==
    /\ hj.at = "reap"
    /\ \E j \in hj.todo :
        /\ cards[j[1]].reaps < MaxReaps
        /\ hj' = IF cards[j[1]].moved \/ cards[j[1]].by # j[2]
                 THEN [hj EXCEPT !.todo = @ \ {j}]
                 ELSE [hj EXCEPT !.at = "unclaim", !.job = j]
    /\ UNCHANGED <<cards, makers, seen, stopped, levels, hjPast>>

\* bd unclaims for the assignee only, and comments the note with it.
Unclaim ==
    /\ hj.at = "unclaim"
    /\ LET c == hj.job[1] IN
       \/ /\ cards[c].by = hj.job[2]
          /\ Touch(c, [Opened(cards[c]) EXCEPT !.reaps = @ + 1])
          /\ hjPast' = [hjPast EXCEPT !.released[c] = @ + 1,
                                      !.taken = @ \/ (/\ makers[hj.job[2]] = [up |-> TRUE, on |-> c]
                                                      /\ <<c, hjPast.claims[c]>> \in hj.known)]
       \/ cards[c].by # hj.job[2] /\ UNCHANGED <<cards, hjPast>>
       \/ Fault /\ hjPast' = Faulted /\ UNCHANGED cards
    /\ hj' = [hj EXCEPT !.at = "reap", !.todo = @ \ {hj.job}, !.job = <<None, None>>]
    /\ UNCHANGED <<makers, seen, stopped, levels>>

EscalateLabel ==
    /\ hj.at = "reap"
    /\ \E j \in hj.todo :
        /\ cards[j[1]].reaps >= MaxReaps
        /\ \/ Touch(j[1], [cards[j[1]] EXCEPT !.needs = @ \cup {"viceroy"}]) /\ UNCHANGED hjPast
           \/ Fault /\ hjPast' = Faulted /\ UNCHANGED cards
        /\ hj' = [hj EXCEPT !.todo = @ \ {j}]
    /\ UNCHANGED <<makers, seen, stopped, levels>>

------------------------------------------------------------------------------
\* Levels.

Backlog == Cardinality({c \in Cards : cards[c].st = "held" \/ (cards[c].st = "open" /\ ~cards[c].gaveUp)})
QueueLate == \E c \in Cards : cards[c].late /\ cards[c].st = "open" /\ cards[c].needs = {} /\ ~cards[c].gaveUp
Clamp(n) == Min({Max({n, MinAgents}), MaxAgents})
Target(agents) ==
    LET need == (Backlog + CardsPerAgent - 1) \div CardsPerAgent
    IN Clamp(IF QueueLate THEN Max({need, agents + 1}) ELSE need)

\* Mutant: levels only go up.
DecideUpwards ==
    LET a == levels.agents
        t == Target(a)
        n == IF t > a THEN Min({t, a + MaxStep}) ELSE a
    IN IF stopped THEN [agents |-> a, wip |-> 1] ELSE [agents |-> n, wip |-> n * WIPPerAgent]

Decide ==
    LET a == levels.agents
        t == Target(a)
        n == CASE t > a -> Min({t, a + MaxStep}) [] t < a -> Max({t, a - MaxStep}) [] OTHER -> a
    IN IF stopped THEN [agents |-> a, wip |-> 1] ELSE [agents |-> n, wip |-> n * WIPPerAgent]

Observe ==
    /\ hj.at = "reap" /\ hj.todo = {}
    /\ \/ /\ hj' = IF Decide = levels THEN Rest ELSE [hj EXCEPT !.at = "apply", !.want = Decide]
          /\ UNCHANGED hjPast
       \/ Fault /\ hjPast' = Faulted /\ hj' = Rest
    /\ UNCHANGED <<cards, makers, seen, stopped, levels>>

Apply ==
    /\ hj.at = "apply"
    /\ \/ levels' = hj.want /\ hj' = Rest /\ UNCHANGED hjPast
       \/ Fault /\ hjPast' = Faulted /\ hj' = Rest /\ UNCHANGED levels
    /\ UNCHANGED <<cards, makers, seen, stopped>>

WorkerDies ==
    /\ hj.at # "rest" /\ Fault
    /\ hj' = Rest /\ hjPast' = Faulted
    /\ UNCHANGED <<cards, makers, seen, stopped, levels>>

------------------------------------------------------------------------------

Init ==
    /\ cards = [c \in Cards |-> [st |-> "open", by |-> None, needs |-> {}, gaveUp |-> FALSE, moved |-> FALSE,
                                 reaps |-> 0, stale |-> FALSE, late |-> FALSE, asked |-> "no"]]
    /\ makers = [m \in Makers |-> [up |-> TRUE, on |-> None]]
    /\ seen = [m \in Makers |-> Unseen]
    /\ stopped = FALSE
    /\ levels = [agents |-> 0, wip |-> 0]
    /\ hj = Rest
    /\ hjPast = [released |-> [c \in Cards |-> 0], taken |-> FALSE,
                 claims |-> [c \in Cards |-> 0], faults |-> 0, cord |-> 0]

Worker == StaleNeeds \/ LabelNeed \/ DropNeed \/ ReadStatus \/ ListClaimed \/ Reread \/ Unclaim \/ EscalateLabel \/ Observe \/ Apply
Next ==
    \/ Worker \/ WorkerDies \/ ServeRestart \/ Cord
    \/ \E m \in Makers : \/ MakerBeat(m) \/ MakerPoll(m) \/ MakerSettle(m) \/ MakerDies(m) \/ MakerReturns(m) \/ Silence(m)
                         \/ \E c \in Cards : MakerClaim(m, c)
                         \/ \E role \in Needable : RaiseNeed(m, role)
    \/ \E c \in Cards : Answer(c) \/ NeedAges(c) \/ QueueAges(c)

Spec == Init /\ [][Next]_hjVars

------------------------------------------------------------------------------

\* A question is answered or its card is parked before the card loses its last
\* needs label, whatever call fails and whoever answers in between. (A need raised
\* again between the two calls of MoveNeed is dropped by the second.)
NeedNotLost == \A c \in Cards : cards[c].asked = "yes" => cards[c].needs # {} \/ cards[c].gaveUp

\* The reaper returns a card to the queue at most MaxReaps times, over restarts.
ReapsBounded == \A c \in Cards : hjPast.released[c] <= MaxReaps

\* The reaper takes no claim whose holder works it and had said so when the status
\* was read, whoever settles, claims or restarts before the release. (A claim made
\* since then, or whose first heartbeat is still to come, can be taken.)
LiveClaimKept == ~hjPast.taken

\* The triage of needs and of claims loses neither.
TriageLosesNothing == NeedNotLost /\ ReapsBounded /\ LiveClaimKept

\* A claim whose holder died is released, or goes to the viceroy, the king or the
\* operator, unless its holder returns or serve forgot it.
StrandedReturns ==
    \A c \in Cards, m \in Makers :
        (cards[c].by = m /\ ~makers[m].up /\ seen[m].at # "unseen")
            ~> (cards[c].by # m \/ cards[c].gaveUp \/ cards[c].needs # {} \/ makers[m].up \/ seen[m].at = "unseen")

\* A question nobody answers ends with its card parked.
NeedSettles == \A c \in Cards : cards[c].asked = "yes" ~> (cards[c].asked # "yes" \/ cards[c].gaveUp \/ cards[c].st = "closed")

\* Once the line runs and its backlog is steady, the agents published settle on
\* what the backlog needs, or on the most allowed while a ready card waits too long.
LevelsConverge ==
    \A b \in 0..Cardinality(Cards) :
        /\ <>[](~stopped /\ Backlog = b /\ ~QueueLate) => <>[](levels.agents = Clamp((b + CardsPerAgent - 1) \div CardsPerAgent))
        /\ <>[](~stopped /\ Backlog = b /\ QueueLate) => <>[](levels.agents = MaxAgents)
===============================================================================
