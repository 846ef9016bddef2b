---------------------------- MODULE MakerRunner ----------------------------
(***************************************************************************)
(* Maker stations (line/maker) and the card routes they settle through     *)
(* (line/station/cards.go): a host-side loop picks a ready card, claims    *)
(* it, lets an agent in a container work it, and settles it by what landed *)
(* on master.                                                              *)
(*                                                                         *)
(* One action per call the loop makes.  Between two calls other makers,    *)
(* agents, the cord, the viceroy and signals act; a call may fail, with or *)
(* without having taken effect, and a maker may die at any step and leave  *)
(* its container running.  The agent works through comments and merges; it *)
(* leaves settling its card to the runner.                                 *)
(***************************************************************************)
EXTENDS Naturals, Sequences, FiniteSets

CONSTANTS
    Station,       \* maker stations, each one process and one agent
    Card,          \* cards labelled for the line
    NoCard,
    Nobody,        \* the assignee of an unclaimed card
    Andon,         \* cards labelled andon
    Rank,          \* a card's priority and ID as one number
    MaxAttempts,   \* runs a process gives one card
    SettleTries,   \* tries of a settle step
    MaxLands,      \* bound: commits that land
    MaxFaults,     \* bound: calls that fail
    MaxCrashes,    \* bound: deaths of a maker, and containers not removed
    MaxSignals,    \* bound: signals that stop a maker
    MaxPulls,      \* bound: pulls of the cord
    MaxRelabels    \* bound: label changes by the viceroy

ASSUME MakerAssumption ==
    /\ Andon \subseteq Card /\ NoCard \notin Card /\ Nobody \notin Station
    /\ Rank \in [Card -> Nat]
    /\ \A c, d \in Card : Rank[c] = Rank[d] => c = d
    /\ MaxAttempts \in Nat \ {0} /\ SettleTries \in Nat \ {0}
    /\ {MaxLands, MaxFaults, MaxCrashes, MaxSignals, MaxPulls, MaxRelabels} \subseteq Nat

VARIABLES
    status,        \* bd: open, in_progress or closed
    holder,        \* bd: the assignee; it stays when a card is closed
    gaveUp,        \* cards labelled line-gave-up
    needsKing,     \* cards labelled needs:king
    master,        \* the card each landed commit names in its Bead trailer
    stopped,       \* the cord is pulled
    containers,    \* running station containers, named by station and card
    at,            \* the call each maker makes next
    list,          \* the cards it listed: stranded ones, then ready ones
    card,          \* the card it works
    pre,           \* length of master before the run
    cordPulled,    \* the cord cut the run short
    tries,         \* failed tries of the settle step
    attempts,      \* counted runs of each card, up to MaxAttempts
    giveUp,        \* this run was the last attempt
    escalate,      \* the give-up is to reach the king
    stopping,      \* a signal ended the maker's context
    used           \* how much of each bound is used up

tracker == <<status, holder, gaveUp, needsKing>>
line == <<master, stopped>>
run == <<card, pre, cordPulled>>
settling == <<tries, giveUp, escalate>>
maker == <<at, list, run, settling, attempts, stopping>>
vars == <<tracker, line, containers, maker, used>>

Bound == [faults |-> MaxFaults, crashes |-> MaxCrashes, signals |-> MaxSignals,
          pulls |-> MaxPulls, relabels |-> MaxRelabels]

Use(b) == used[b] < Bound[b] /\ used' = [used EXCEPT ![b] = @ + 1]

PreRun == {"idle", "stranded", "ready", "stop", "pre", "claim"}

Step == {"down", "start", "run", "landed", "close", "close_bd", "release",
         "giveup", "giveup_label", "giveup_king"} \cup PreRun

Init ==
    /\ status = [c \in Card |-> "open"]
    /\ holder = [c \in Card |-> Nobody]
    /\ gaveUp = {} /\ needsKing = {}
    /\ master = <<>> /\ stopped \in BOOLEAN
    /\ containers = {}
    /\ at = [m \in Station |-> "idle"]
    /\ list = [m \in Station |-> {}]
    /\ card = [m \in Station |-> NoCard]
    /\ pre = [m \in Station |-> 0]
    /\ cordPulled = [m \in Station |-> FALSE]
    /\ tries = [m \in Station |-> 0]
    /\ attempts = [m \in Station |-> [c \in Card |-> 0]]
    /\ giveUp = [m \in Station |-> FALSE]
    /\ escalate = [m \in Station |-> FALSE]
    /\ stopping = [m \in Station |-> FALSE]
    /\ used = [b \in DOMAIN Bound |-> 0]
-----------------------------------------------------------------------------
Goto(m, step) == at' = [at EXCEPT ![m] = step]

(* Mutant: the card of the last run is kept.                               *)
ForgetNot(m) ==
    /\ list' = [list EXCEPT ![m] = {}]
    /\ pre' = [pre EXCEPT ![m] = 0]
    /\ cordPulled' = [cordPulled EXCEPT ![m] = FALSE]
    /\ tries' = [tries EXCEPT ![m] = 0]
    /\ giveUp' = [giveUp EXCEPT ![m] = FALSE]
    /\ escalate' = [escalate EXCEPT ![m] = FALSE]
    /\ UNCHANGED card

(* Once returns; its local variables are gone.                             *)
Forget(m) ==
    /\ list' = [list EXCEPT ![m] = {}]
    /\ card' = [card EXCEPT ![m] = NoCard]
    /\ pre' = [pre EXCEPT ![m] = 0]
    /\ cordPulled' = [cordPulled EXCEPT ![m] = FALSE]
    /\ tries' = [tries EXCEPT ![m] = 0]
    /\ giveUp' = [giveUp EXCEPT ![m] = FALSE]
    /\ escalate' = [escalate EXCEPT ![m] = FALSE]

Return(m) == Goto(m, "idle") /\ Forget(m)

(* A call of m fails and leaves the tracker alone.                         *)
Fault == Use("faults") /\ UNCHANGED tracker
-----------------------------------------------------------------------------
(* bd, as the card routes call it: --claim takes an open, unclaimed card,  *)
(* unclaim is for the holder only, close is for anybody.                   *)
Claimable(c) == status[c] = "open" /\ holder[c] = Nobody

BdClaim(c, m) ==
    /\ status' = [status EXCEPT ![c] = "in_progress"]
    /\ holder' = [holder EXCEPT ![c] = m]
    /\ UNCHANGED <<gaveUp, needsKing>>

Claimed(m) == {c \in Card : status[c] = "in_progress" /\ holder[c] = m}

BdUnclaim(c) ==
    /\ status' = [status EXCEPT ![c] = "open"]
    /\ holder' = [holder EXCEPT ![c] = Nobody]
    /\ UNCHANGED <<gaveUp, needsKing>>

BdClose(c) ==
    /\ status' = [status EXCEPT ![c] = "closed"]
    /\ UNCHANGED <<holder, gaveUp, needsKing>>

Ready == {c \in Card : Claimable(c) /\ c \notin gaveUp}
-----------------------------------------------------------------------------
(* Mutant: Once starts with the ready list.                                *)
ListNoStranded(m) ==
    /\ at[m] = "idle"
    /\ Goto(m, "ready")
    /\ UNCHANGED <<tracker, line, containers, list, run, settling, attempts, stopping, used>>

(* releaseStranded: list the claims a run left behind, release each.       *)
ListStranded(m) ==
    /\ at[m] = "idle"
    /\ \/ /\ list' = [list EXCEPT ![m] = Claimed(m) \ gaveUp]
          /\ Goto(m, IF list'[m] = {} THEN "ready" ELSE "stranded")
          /\ UNCHANGED <<tracker, used>>
       \/ Fault /\ Goto(m, "ready") /\ UNCHANGED list
    /\ UNCHANGED <<line, containers, run, settling, attempts, stopping>>

ReleaseStranded(m) ==
    /\ at[m] = "stranded"
    /\ \E c \in list[m] :
        /\ \/ c \in Claimed(m) /\ BdUnclaim(c) /\ UNCHANGED used
           \/ c \notin Claimed(m) /\ UNCHANGED <<tracker, used>>
           \/ Fault
        /\ list' = [list EXCEPT ![m] = @ \ {c}]
        /\ Goto(m, IF list'[m] = {} THEN "ready" ELSE "stranded")
    /\ UNCHANGED <<line, containers, run, settling, attempts, stopping>>

(* The list route leaves out cards that are deferred or over budget.       *)
ListReady(m) ==
    /\ at[m] = "ready"
    /\ \/ /\ \E beads \in SUBSET Ready : list' = [list EXCEPT ![m] = beads]
          /\ Goto(m, "stop") /\ UNCHANGED <<tracker, run, settling, used>>
       \/ Fault /\ Return(m)
    /\ UNCHANGED <<line, containers, attempts, stopping>>

(* What Pick chooses from a list: an andon card before any other, then by  *)
(* rank; nothing else while the line is stopped.                           *)
Pick(beads, stop) ==
    LET eligible == IF stop THEN beads \cap Andon ELSE beads
        first == IF eligible \cap Andon # {} THEN eligible \cap Andon ELSE eligible
    IN  {c \in first : \A d \in first : Rank[c] <= Rank[d]}

ReadStop(m) ==
    /\ at[m] = "stop"
    /\ \/ \E c \in Pick(list[m], stopped) :
            /\ card' = [card EXCEPT ![m] = c]
            /\ list' = [list EXCEPT ![m] = {}]
            /\ Goto(m, "pre")
            /\ UNCHANGED <<tracker, pre, cordPulled, settling, used>>
       \/ Pick(list[m], stopped) = {} /\ Return(m) /\ UNCHANGED <<tracker, used>>
       \/ Fault /\ Return(m)
    /\ UNCHANGED <<line, containers, attempts, stopping>>

ReadPre(m) ==
    /\ at[m] = "pre"
    /\ \/ /\ pre' = [pre EXCEPT ![m] = Len(master)]
          /\ Goto(m, "claim")
          /\ UNCHANGED <<tracker, list, card, cordPulled, settling, used>>
       \/ Fault /\ Return(m)
    /\ UNCHANGED <<line, containers, attempts, stopping>>

(* Mutant: the run starts although the claim failed.                       *)
ClaimUnchecked(m) ==
    /\ at[m] = "claim"
    /\ \/ Claimable(card[m]) /\ BdClaim(card[m], m)
       \/ UNCHANGED tracker
    /\ Goto(m, "start")
    /\ UNCHANGED <<line, containers, list, run, settling, attempts, stopping, used>>

(* The claim is refused when the card is taken or a budget blocks it; it   *)
(* may also be made and its answer lost.                                   *)
Claim(m) ==
    /\ at[m] = "claim"
    /\ \/ /\ Claimable(card[m]) /\ BdClaim(card[m], m)
          /\ Goto(m, "start") /\ UNCHANGED <<list, run, settling, used>>
       \/ Claimable(card[m]) /\ BdClaim(card[m], m) /\ Use("faults") /\ Return(m)
       \/ Return(m) /\ UNCHANGED <<tracker, used>>
    /\ UNCHANGED <<line, containers, attempts, stopping>>
-----------------------------------------------------------------------------
(* How a run counts: one that was interrupted, cut by the cord or failed   *)
(* by the engine is not the agent's.                                       *)
Counts(m, why) ==
    /\ ~stopping[m]
    /\ why = "timeout" \/ (why = "exit" /\ ~cordPulled[m])

RunEnds(m, why) ==
    LET c == card[m]
        n == attempts[m][c] + 1
    IN  /\ Goto(m, "landed")
        /\ giveUp' = [giveUp EXCEPT ![m] = Counts(m, why) /\ n >= MaxAttempts]
        /\ attempts' = IF Counts(m, why) /\ n <= MaxAttempts
                       THEN [attempts EXCEPT ![m][c] = n] ELSE attempts
        /\ UNCHANGED <<tracker, line, list, run, tries, escalate, stopping>>

(* Engine.Run: an ended context starts nothing, and a container of that    *)
(* name makes the engine fail; the runner then removes it.                 *)
StartRun(m) ==
    LET name == <<m, card[m]>>
    IN  /\ at[m] = "start"
        /\ \/ /\ name \notin containers /\ ~stopping[m]
              /\ containers' = containers \cup {name}
              /\ Goto(m, "run")
              /\ UNCHANGED <<tracker, line, list, run, settling, attempts, stopping, used>>
           \/ /\ stopping[m] /\ RunEnds(m, "interrupted")
              /\ UNCHANGED <<containers, used>>
           \/ /\ name \in containers /\ RunEnds(m, "engine")
              /\ containers' = containers \ {name} /\ UNCHANGED used
           \/ /\ Use("faults") /\ RunEnds(m, "engine")
              /\ containers' = containers \ {name}

(* cancelWhenCordPulled                                                    *)
CancelRun(m) ==
    /\ at[m] = "run" /\ card[m] \notin Andon /\ stopped /\ ~cordPulled[m]
    /\ cordPulled' = [cordPulled EXCEPT ![m] = TRUE]
    /\ UNCHANGED <<tracker, line, containers, at, list, card, pre, settling,
                   attempts, stopping, used>>

(* The container exits, or the timeout, the cord or a signal stops it; the *)
(* removal after a run cut short may fail and leave it running.            *)
EndRun(m) ==
    /\ at[m] = "run"
    /\ \E why \in {"exit", "timeout", "cut", "engine"} :
        /\ why = "cut" => stopping[m] \/ cordPulled[m]
        /\ RunEnds(m, why)
        /\ \/ /\ containers' = containers \ {<<m, card[m]>>}
              /\ IF why = "engine" THEN Use("faults") ELSE UNCHANGED used
           \/ why \in {"timeout", "cut"} /\ Use("crashes") /\ UNCHANGED containers

(* The agent, or one whose maker died, lands a commit; the trailer is the  *)
(* agent's to write.  A stopped line takes only the fix of its event.      *)
Land(m, c, named) ==
    /\ <<m, c>> \in containers /\ Len(master) < MaxLands
    /\ stopped => c \in Andon
    /\ master' = Append(master, named)
    /\ UNCHANGED <<tracker, stopped, containers, maker, used>>

OrphanExits(m, c) ==
    /\ <<m, c>> \in containers /\ ~(at[m] = "run" /\ card[m] = c)
    /\ containers' = containers \ {<<m, c>>}
    /\ UNCHANGED <<tracker, line, maker, used>>
-----------------------------------------------------------------------------
(* settleStep: another try, or escalateUnsettled, which keeps the claim.   *)
Retry(m, step) ==
    IF tries[m] + 1 < SettleTries
    THEN /\ tries' = [tries EXCEPT ![m] = @ + 1]
         /\ Goto(m, step) /\ UNCHANGED <<giveUp, escalate>>
    ELSE /\ tries' = [tries EXCEPT ![m] = 0]
         /\ escalate' = [escalate EXCEPT ![m] = TRUE]
         /\ giveUp' = [giveUp EXCEPT ![m] = FALSE]
         /\ Goto(m, "giveup")

NextStep(m, step) ==
    Goto(m, step) /\ tries' = [tries EXCEPT ![m] = 0] /\ UNCHANGED <<giveUp, escalate>>

(* Mutant: a commit from before the run counts.                            *)
LandedEver(m) == \E i \in 1..Len(master) : master[i] = card[m]

(* Landed: does a commit added since pre name the card?                    *)
Landed(m) == \E i \in pre[m] + 1..Len(master) : master[i] = card[m]

ReadLanded(m) ==
    /\ at[m] = "landed"
    /\ \/ NextStep(m, IF Landed(m) THEN "close" ELSE "release") /\ UNCHANGED <<tracker, used>>
       \/ Fault /\ Retry(m, "landed")
    /\ UNCHANGED <<line, containers, list, run, attempts, stopping>>

(* The route settle reads the assignee before it calls bd.                 *)
CheckClose(m) ==
    /\ at[m] = "close"
    /\ \/ /\ holder[card[m]] = m /\ Goto(m, "close_bd")
          /\ UNCHANGED <<tracker, settling, used>>
       \/ holder[card[m]] # m /\ Retry(m, "close") /\ UNCHANGED <<tracker, used>>
       \/ Fault /\ Retry(m, "close")
    /\ UNCHANGED <<line, containers, list, run, attempts, stopping>>

Close(m) ==
    /\ at[m] = "close_bd"
    /\ \/ BdClose(card[m]) /\ Return(m) /\ UNCHANGED used
       \/ BdClose(card[m]) /\ Use("faults") /\ Retry(m, "close") /\ UNCHANGED <<list, run>>
       \/ Fault /\ Retry(m, "close") /\ UNCHANGED <<list, run>>
    /\ UNCHANGED <<line, containers, attempts, stopping>>

(* bd refuses the release of a card that another holds, as the route does. *)
Release(m) ==
    LET c == card[m]
        mine == c \in Claimed(m)
    IN  /\ at[m] = "release"
        /\ \/ /\ mine /\ BdUnclaim(c) /\ UNCHANGED used
              /\ IF giveUp[m]
                 THEN /\ attempts' = [attempts EXCEPT ![m][c] = 0]
                      /\ escalate' = [escalate EXCEPT ![m] = c \in Andon]
                      /\ tries' = [tries EXCEPT ![m] = 0]
                      /\ Goto(m, "giveup") /\ UNCHANGED <<list, run, giveUp>>
                 ELSE Return(m) /\ UNCHANGED attempts
           \/ /\ mine /\ BdUnclaim(c) /\ Use("faults")
              /\ Retry(m, "release") /\ UNCHANGED <<list, run, attempts>>
           \/ /\ ~mine /\ Retry(m, "release")
              /\ UNCHANGED <<tracker, list, run, attempts, used>>
           \/ Fault /\ Retry(m, "release") /\ UNCHANGED <<list, run, attempts>>
        /\ UNCHANGED <<line, containers, stopping>>

(* Give-up: an unclaimed card passes; the comment and each label may fail. *)
CheckGiveUp(m) ==
    /\ at[m] = "giveup"
    /\ \/ /\ holder[card[m]] \in {m, Nobody} /\ Goto(m, "giveup_label")
          /\ UNCHANGED <<tracker, list, run, settling, used>>
       \/ holder[card[m]] \notin {m, Nobody} /\ Return(m) /\ UNCHANGED <<tracker, used>>
       \/ Fault /\ Return(m)
    /\ UNCHANGED <<line, containers, attempts, stopping>>

LabelGaveUp(m) ==
    /\ at[m] = "giveup_label"
    /\ \/ /\ gaveUp' = gaveUp \cup {card[m]}
          /\ IF escalate[m] THEN Goto(m, "giveup_king") /\ UNCHANGED <<list, run, settling>>
                            ELSE Return(m)
          /\ UNCHANGED <<status, holder, needsKing, used>>
       \/ Fault /\ Return(m)
    /\ UNCHANGED <<line, containers, attempts, stopping>>

LabelNeedsKing(m) ==
    /\ at[m] = "giveup_king"
    /\ \/ /\ needsKing' = needsKing \cup {card[m]}
          /\ UNCHANGED <<status, holder, gaveUp, used>>
       \/ Fault
    /\ Return(m)
    /\ UNCHANGED <<line, containers, attempts, stopping>>
-----------------------------------------------------------------------------
(* A signal ends the context: calls before the run fail, a run is cut      *)
(* short and settled, and Loop returns.  A maker may also die where it is. *)
Signal(m) ==
    /\ at[m] # "down" /\ ~stopping[m] /\ Use("signals")
    /\ stopping' = [stopping EXCEPT ![m] = TRUE]
    /\ UNCHANGED <<tracker, line, containers, at, list, run, settling, attempts>>

LeaveLoop(m) ==
    /\ Goto(m, "down") /\ Forget(m)
    /\ attempts' = [attempts EXCEPT ![m] = [c \in Card |-> 0]]
    /\ stopping' = [stopping EXCEPT ![m] = FALSE]
    /\ UNCHANGED <<tracker, line, containers>>

Exit(m) == stopping[m] /\ at[m] \in PreRun /\ LeaveLoop(m) /\ UNCHANGED used

Crash(m) == at[m] # "down" /\ Use("crashes") /\ LeaveLoop(m)

Restart(m) ==
    /\ at[m] = "down" /\ Goto(m, "idle")
    /\ UNCHANGED <<tracker, line, containers, list, run, settling, attempts, stopping, used>>

(* The line: the cord, and the viceroy's label route, which adds and       *)
(* removes labels one by one and may fail between two.                     *)
Pull ==
    /\ ~stopped /\ Use("pulls") /\ stopped' = TRUE
    /\ UNCHANGED <<tracker, master, containers, maker>>

Clear ==
    /\ stopped /\ stopped' = FALSE
    /\ UNCHANGED <<tracker, master, containers, maker, used>>

viceroyLabels(c) ==
    /\ Use("relabels")
    /\ gaveUp' \in {gaveUp \cup {c}, gaveUp \ {c}}
    /\ needsKing' \in {needsKing \cup {c}, needsKing \ {c}}
    /\ UNCHANGED <<status, holder, line, containers, maker>>
-----------------------------------------------------------------------------
Once(m) ==
    \/ ListStranded(m) \/ ReleaseStranded(m) \/ ListReady(m) \/ ReadStop(m)
    \/ ReadPre(m) \/ Claim(m) \/ StartRun(m) \/ EndRun(m)
    \/ ReadLanded(m) \/ CheckClose(m) \/ Close(m) \/ Release(m)
    \/ CheckGiveUp(m) \/ LabelGaveUp(m) \/ LabelNeedsKing(m)

Next ==
    \/ \E m \in Station : \/ Once(m) \/ CancelRun(m)
                          \/ Signal(m) \/ Exit(m) \/ Crash(m) \/ Restart(m)
                          \/ \E c \in Card : OrphanExits(m, c)
                          \/ \E c, named \in Card : Land(m, c, named)
    \/ Pull \/ Clear
    \/ \E c \in Card : viceroyLabels(c)

Spec == Init /\ [][Next]_vars

(* A maker runs on, its calls return, a run has its timeout, and whatever  *)
(* started a maker starts it again.                                        *)
FairSpec ==
    /\ Spec
    /\ \A m \in Station : WF_vars(Once(m)) /\ WF_vars(Exit(m)) /\ WF_vars(Restart(m))
-----------------------------------------------------------------------------
(* Makers, cards and the line are of their kinds; a maker past its claim   *)
(* has a card.                                                             *)
TypeOK ==
    /\ status \in [Card -> {"open", "in_progress", "closed"}]
    /\ holder \in [Card -> Station \cup {Nobody}]
    /\ gaveUp \subseteq Card /\ needsKing \subseteq Card
    /\ master \in Seq(Card) /\ Len(master) <= MaxLands /\ stopped \in BOOLEAN
    /\ containers \subseteq Station \X Card
    /\ at \in [Station -> Step]
    /\ list \in [Station -> SUBSET Card]
    /\ card \in [Station -> Card \cup {NoCard}]
    /\ pre \in [Station -> 0..MaxLands]
    /\ tries \in [Station -> 0..SettleTries - 1]
    /\ attempts \in [Station -> [Card -> 0..MaxAttempts]]
    /\ {cordPulled, giveUp, escalate, stopping} \subseteq [Station -> BOOLEAN]
    /\ used \in [DOMAIN Bound -> Nat] /\ \A b \in DOMAIN Bound : used[b] <= Bound[b]
    /\ \A m \in Station :
        card[m] = NoCard <=> at[m] \in {"down", "idle", "stranded", "ready", "stop"}

(* From the claim to the look at master the maker holds the card it works, *)
(* whatever answers were lost and whoever listed the card before it was    *)
(* taken; and a container that no maker waits for is left only by a maker  *)
(* that died or a removal that failed.  So no two agents work one card.    *)
WorkIsClaimed ==
    /\ \A m \in Station : at[m] \in {"start", "run", "landed"} => card[m] \in Claimed(m)
    /\ used.crashes = 0 =>
        \A w \in containers : at[w[1]] = "run" /\ card[w[1]] = w[2]

(* A card is closed only by the maker that holds it and works it, and only *)
(* if a commit names it that landed after the maker last looked at master  *)
(* before its claim: an older commit that names the card, planted by       *)
(* another card's run or left by a run whose maker died, does not count.   *)
CloseIsEarned ==
    [][\A c \in Card : status[c] # "closed" /\ status'[c] = "closed" =>
        \E m \in Station : /\ card[m] = c /\ c \in Claimed(m)
                           /\ \E i \in pre[m] + 1..Len(master) : master[i] = c]_vars

(* No card stays claimed by a maker that does not work it: through lost    *)
(* answers, signals and crashes the claim ends, or the card is labelled    *)
(* for somebody who looks after it.                                        *)
ClaimIsSettled ==
    \A c \in Card :
        (status[c] = "in_progress") ~> (status[c] # "in_progress" \/ c \in gaveUp)
=============================================================================
