------------------------------ MODULE CardsDesk ------------------------------
(* The card desk of `line serve`: the card routes of line/station/cards.go,   *)
(* the king's words approve, defer and answer (channel.go, channel_answer.go, *)
(* channel_approvals.go, defer.go), the king's /card (channel_card.go), the   *)
(* requests to change an acceptance test (acceptance_request.go) and the      *)
(* ledger of approved epics (epic_approvals.go).                              *)
(*                                                                            *)
(* The tracker bd does one thing at a time and each call may fail, before it  *)
(* has done its work or after. A handler is the list of calls it still has to *)
(* make: a failed call drops the rest, and calls of different handlers        *)
(* interleave. One epic and one card under it are enough for what inheritance *)
(* and delegation tell apart; one more is created.                            *)
EXTENDS Naturals, Sequences, FiniteSets

CONSTANTS
    Handlers,    \* requests and king's words in progress at once
    Delegations, \* the constitution's delegations to the viceroy
    MaxWords,    \* bound: handlers started
    MaxFaults,   \* bound: calls that fail or whose answer is lost
    CommentCap   \* cards.comment_cap

VARIABLES
    cards,       \* the tracker: per card labels, status, holder and comments
    ledger,      \* epics in the approval ledger
    todo,        \* per handler, the calls left
    capCount,    \* comments counted for the maker's run on the card
    deskPast     \* history: what the king has said, handlers and faults so far

cdVars == <<cards, ledger, todo, capCount, deskPast>>

Epic == "epic"
Card == "card"
New == "new"        \* a card that the king's /card or a maker's request creates
Ids == {Epic, Card, New}
TypeOf(id) == IF id = Epic THEN "epic" ELSE "task"
Ancestors(id) == IF id = Card THEN {Epic} ELSE {}
Has(id, label) == label \in cards[id].labels

------------------------------------------------------------------------------
(* The delegations of the constitution. *)

\* An offer delegation covers a card by its type or its parent...
Covers(d, id) == d.offer /\ (TypeOf(id) \in d.types \/ d.parent \in Ancestors(id))
Inherits(d, id) == d.offer /\ d.inherit /\ TypeOf(id) # "epic"

\* Mutant: inheritance is taken for granted.
DelegatesAnyway(id, inherited) == \E d \in Delegations : Covers(d, id) \/ Inherits(d, id)

\* ... or by an approved epic above it.
Delegates(id, inherited) == \E d \in Delegations : Covers(d, id) \/ (inherited /\ Inherits(d, id))

\* A close delegation, unless it has expired or a label excepts the card: all of
\* the criteria it lists must match, or any of them.
DelegatesClose(id) ==
    \E d \in Delegations :
        /\ d.close /\ ~d.expired /\ d.except \cap cards[id].labels = {}
        /\ LET listed == {k \in {"parent", "types", "labels"} :
                            CASE k = "parent" -> d.parent # "none" [] k = "types" -> d.types # {} [] OTHER -> d.labels # {}}
               hit == {k \in listed :
                            CASE k = "parent" -> d.parent \in Ancestors(id)
                              [] k = "types" -> TypeOf(id) \in d.types
                              [] OTHER -> d.labels \cap cards[id].labels # {}}
           IN IF d.all THEN hit = listed ELSE hit # {}

------------------------------------------------------------------------------
(* The calls. *)

Call(op, id, arg) == [op |-> op, id |-> id, arg |-> arg]
Add(id, label) == Call("add", id, label)
Remove(id, label) == Call("remove", id, label)
Comment(id, text) == Call("comment", id, text)

\* What a call does to the tracker and the ledger when it succeeds.
Tracked(c) ==
    CASE c.op = "add" -> [cards EXCEPT ![c.id].labels = @ \cup {c.arg}]
      [] c.op = "remove" -> [cards EXCEPT ![c.id].labels = @ \ {c.arg}]
      [] c.op = "comment" -> [cards EXCEPT ![c.id].comments = @ \cup {c.arg}]
      [] c.op = "close" -> [cards EXCEPT ![c.id].status = "closed", ![c.id].holder = "none"]
      [] c.op = "create" -> [cards EXCEPT ![c.id].status = "open"]
      [] c.op = "release" -> [cards EXCEPT ![c.id].holder = "none"]
      [] OTHER -> cards

Ledgered(c) ==
    CASE c.op = "approve" -> ledger \cup {c.id} [] c.op = "revoke" -> ledger \ {c.id} [] OTHER -> ledger

\* History: the king's approval of an epic is spent when the epic is closed.
Noted(c) ==
    CASE c.op = "approve" -> [deskPast EXCEPT !.live = @ \cup {c.id}]
      [] c.op = "close" -> [deskPast EXCEPT !.live = @ \ {c.id}]
      [] OTHER -> deskPast

Offering(h) == todo[h] # <<>> /\ Head(todo[h]).op \in {"ledger?", "epic?"}

Step(h) ==
    /\ todo[h] # <<>> /\ ~Offering(h)
    /\ LET c == Head(todo[h]) IN
       cards' = Tracked(c) /\ ledger' = Ledgered(c) /\ deskPast' = Noted(c)
    /\ todo' = [todo EXCEPT ![h] = Tail(@)]
    /\ UNCHANGED capCount

\* The call fails: the handler answers with the error and the rest is not done.
\* A failed audit comment of the king's words is only logged, and is the last call.
StepFails(h) ==
    /\ todo[h] # <<>> /\ deskPast.faults < MaxFaults
    /\ deskPast' = [deskPast EXCEPT !.faults = @ + 1, !.unrevoked = @ \/ Head(todo[h]) = Call("revoke", Epic, "")]
    /\ todo' = [todo EXCEPT ![h] = <<>>]
    /\ UNCHANGED <<cards, ledger, capCount>>

\* The call does its work and its answer is lost, which to the handler is the same:
\* after a close the approval is not revoked.
StepLosesAnswer(h) ==
    /\ todo[h] # <<>> /\ ~Offering(h) /\ deskPast.faults < MaxFaults
    /\ LET c == Head(todo[h]) IN
       /\ cards' = Tracked(c) /\ ledger' = Ledgered(c)
       /\ deskPast' = [Noted(c) EXCEPT !.faults = @ + 1, !.unrevoked = @ \/ c = Call("close", Epic, "")]
    /\ todo' = [todo EXCEPT ![h] = <<>>]
    /\ UNCHANGED capCount

------------------------------------------------------------------------------
(* The handlers: what each reads first and the calls it then makes. *)

Start(h, calls) ==
    /\ todo[h] = <<>> /\ deskPast.words < MaxWords
    /\ todo' = [todo EXCEPT ![h] = calls]

Heard(word) == [deskPast EXCEPT !.words = @ + 1, !.king = @ \cup word]

\* `approve <id>`, /approve and the king's reaction: the ledger, then the labels.
approveCard(h, id) ==
    /\ Start(h, (IF id = Epic THEN <<Call("approve", id, "")>> ELSE <<>>)
                \o <<Remove(id, "gave-up"), Remove(id, "deferred"), Add(id, "line"), Comment(id, "approved")>>)
    /\ deskPast' = Heard({<<"approve", id>>})
    /\ UNCHANGED <<cards, ledger, capCount>>

\* `defer <id> [until <date>]`: an earlier end date goes before the new one comes.
deferCard(h, id, until) ==
    /\ Start(h, (IF Has(id, "until") THEN <<Remove(id, "until")>> ELSE <<>>)
                \o (IF until THEN <<Add(id, "until")>> ELSE <<>>) \o <<Add(id, "deferred"), Comment(id, "deferral")>>)
    /\ deskPast' = Heard({})
    /\ UNCHANGED <<cards, ledger, capCount>>

\* Mutant: the card is unblocked before the answer lands.
answerAfterwards(h, id) ==
    /\ Has(id, "needs:king")
    /\ Start(h, <<Remove(id, "needs:king"), Comment(id, "answer")>>)
    /\ deskPast' = Heard({})
    /\ UNCHANGED <<cards, ledger, capCount>>

\* `answer <id> <text>`: the answer lands before the card is unblocked.
answerCard(h, id) ==
    /\ Has(id, "needs:king")
    /\ Start(h, <<Comment(id, "answer"), Remove(id, "needs:king")>>)
    /\ deskPast' = Heard({})
    /\ UNCHANGED <<cards, ledger, capCount>>

\* POST offer: nothing if the card is on the line; else the ledger is asked.
offer(h, id) ==
    /\ ~Has(id, "line")
    /\ Start(h, <<Call("ledger?", id, "")>>)
    /\ deskPast' = Heard({})
    /\ UNCHANGED <<cards, ledger, capCount>>

\* underApprovedEpic and the verdict of offer: the ledger is read, then the epic
\* is shown; a closed epic loses its entry.
OfferStep(h) ==
    /\ Offering(h)
    /\ LET c == Head(todo[h])
           label(inherited) == IF Delegates(c.id, inherited) THEN "line" ELSE "proposed"
           verdict(inherited) == <<Add(c.id, label(inherited))>>
       IN todo' = [todo EXCEPT ![h] =
            CASE c.op = "ledger?" /\ Ancestors(c.id) \cap ledger # {} -> <<Call("epic?", c.id, "")>>
              [] c.op = "ledger?" /\ Ancestors(c.id) \cap ledger = {} -> verdict(FALSE)
              [] c.op = "epic?" /\ cards[Epic].status = "closed" -> <<Call("revoke", Epic, "")>> \o verdict(FALSE)
              [] c.op = "epic?" /\ cards[Epic].status # "closed" -> verdict(TRUE)]
    /\ UNCHANGED <<cards, ledger, capCount, deskPast>>

\* Mutant: the approval of a closed epic stays.
viceroyCloseOnly(h, id) ==
    /\ DelegatesClose(id) /\ cards[id].comments # {} /\ cards[id].status = "open"
    /\ Start(h, <<Call("close", id, "")>>)
    /\ deskPast' = Heard({})
    /\ UNCHANGED <<cards, ledger, capCount>>

\* POST close by the viceroy: a delegation covers the card and it has a comment
\* recording the decision; the approval goes after the close.
viceroyClose(h, id) ==
    /\ DelegatesClose(id) /\ cards[id].comments # {} /\ cards[id].status = "open"
    /\ Start(h, <<Call("close", id, ""), Call("revoke", id, "")>>)
    /\ deskPast' = Heard({})
    /\ UNCHANGED <<cards, ledger, capCount>>

\* POST labels by the viceroy: line-gave-up and needs:* are always its to change.
viceroyLabels(h, id, label) ==
    /\ \E change \in {Add(id, label), Remove(id, label)} : Start(h, <<change, Comment(id, "audit")>>)
    /\ deskPast' = Heard({})
    /\ UNCHANGED <<cards, ledger, capCount>>

\* claim, close, release and give-up of a maker: all but the claim only of a card
\* it holds, a give-up also of one nobody holds.
settle(h, action) ==
    /\ CASE action = "claim" -> cards[Card].holder = "none" /\ cards[Card].status = "open"
         [] action = "give-up" -> TRUE
         [] OTHER -> cards[Card].holder = "maker"
    /\ Start(h, CASE action = "claim" -> <<>>
                  [] action = "close" -> <<Call("close", Card, ""), Call("revoke", Card, "")>>
                  [] action = "release" -> <<Call("release", Card, "")>>
                  [] action = "give-up" -> <<Comment(Card, "gave up"), Add(Card, "gave-up"), Add(Card, "needs:king")>>)
    /\ cards' = IF action = "claim" THEN [cards EXCEPT ![Card].holder = "maker"] ELSE cards
    /\ capCount' = IF action = "claim" THEN 0 ELSE capCount
    /\ deskPast' = Heard({})
    /\ UNCHANGED ledger

\* POST needs of the holder.
raiseNeed(h) ==
    /\ cards[Card].holder = "maker"
    /\ Start(h, <<Add(Card, "needs:king")>>)
    /\ deskPast' = Heard({})
    /\ UNCHANGED <<cards, ledger, capCount>>

\* POST comments of the holder, counted before it is written.
admitOwnComment(h) ==
    /\ cards[Card].holder = "maker" /\ capCount < CommentCap
    /\ Start(h, <<Comment(Card, "remark")>>)
    /\ capCount' = capCount + 1
    /\ deskPast' = Heard({})
    /\ UNCHANGED <<cards, ledger>>

Uncreated ==
    /\ cards[New].status = "none"
    /\ \A h \in Handlers : todo[h] # <<>> => Head(todo[h]).op # "create"

\* /card by the king: the card is filed and then approved as by his word.
fileCard(h) ==
    /\ Uncreated
    /\ Start(h, <<Call("create", New, ""), Remove(New, "gave-up"), Remove(New, "deferred"), Add(New, "line"),
                  Comment(New, "approved")>>)
    /\ deskPast' = Heard({<<"approve", New>>})
    /\ UNCHANGED <<cards, ledger, capCount>>

\* POST acceptance/requests by a maker: a card for gemba, marked as a request last.
requestAcceptanceChange(h) ==
    /\ Uncreated
    /\ Start(h, <<Call("create", New, ""), Add(New, "gemba"), Add(New, "acceptance-request")>>)
    /\ deskPast' = Heard({})
    /\ UNCHANGED <<cards, ledger, capCount>>

Unanswered == Has(New, "acceptance-request") /\ {"accepted", "declined"} \cap cards[New].labels = {}

\* Mutant: the verdict is shown before its reason is on the card.
answerLabelFirst(h, state) ==
    /\ Unanswered
    /\ Start(h, <<Add(New, state), Comment(New, state)>>
                \o (IF state = "declined" THEN <<Call("close", New, "")>> ELSE <<>>))
    /\ deskPast' = Heard({})
    /\ UNCHANGED <<cards, ledger, capCount>>

\* POST acceptance/requests/{card}/answer by gemba, of a request without an answer:
\* the reason, the verdict, and the close of one that is declined.
answerAcceptanceRequest(h, state) ==
    /\ Unanswered
    /\ Start(h, <<Comment(New, state), Add(New, state)>>
                \o (IF state = "declined" THEN <<Call("close", New, "")>> ELSE <<>>))
    /\ deskPast' = Heard({})
    /\ UNCHANGED <<cards, ledger, capCount>>

\* Somebody with the tracker at hand opens the epic again.
Reopen ==
    /\ cards[Epic].status = "closed"
    /\ cards' = [cards EXCEPT ![Epic].status = "open"]
    /\ UNCHANGED <<ledger, todo, capCount, deskPast>>

------------------------------------------------------------------------------

Init ==
    /\ cards = [id \in Ids |-> [labels |-> {}, status |-> IF id = New THEN "none" ELSE "open", holder |-> "none", comments |-> {}]]
    /\ ledger = {}
    /\ todo = [h \in Handlers |-> <<>>]
    /\ capCount = 0
    /\ deskPast = [king |-> {}, live |-> {}, words |-> 0, faults |-> 0, unrevoked |-> FALSE]

KingsWord(h) ==
    \/ \E id \in {Epic, Card} : approveCard(h, id)
    \/ \E until \in BOOLEAN : deferCard(h, Card, until)
    \/ answerCard(h, Card) \/ fileCard(h)
ViceroysWord(h) ==
    \/ \E id \in {Epic, Card} : offer(h, id) \/ viceroyClose(h, id)
    \/ \E label \in {"gave-up", "needs:king"} : viceroyLabels(h, Card, label)
MakersWord(h) ==
    \/ \E action \in {"claim", "close", "release", "give-up"} : settle(h, action)
    \/ raiseNeed(h) \/ admitOwnComment(h) \/ requestAcceptanceChange(h)
GembasWord(h) == \E state \in {"accepted", "declined"} : answerAcceptanceRequest(h, state)

Next == Reopen \/ \E h \in Handlers : \/ KingsWord(h) \/ ViceroysWord(h) \/ MakersWord(h) \/ GembasWord(h)
                                      \/ Step(h) \/ OfferStep(h) \/ StepFails(h) \/ StepLosesAnswer(h)

Spec == Init /\ [][Next]_cdVars

------------------------------------------------------------------------------

\* A card is on the line only on the king's word: for the card itself, for the epic
\* above it where the constitution lets the viceroy offer what it holds, or by a
\* delegation that covers the card.
LineIsTheKings ==
    \A id \in Ids : Has(id, "line") =>
        \/ <<"approve", id>> \in deskPast.king
        \/ id = Card /\ <<"approve", Epic>> \in deskPast.king /\ \E d \in Delegations : Inherits(d, id)
        \/ \E d \in Delegations : Covers(d, id)

\* An epic in the ledger was approved since it was last closed, is still closed,
\* or is about to lose the entry: only a close whose answer was lost and a revocation
\* that failed leave a spent approval behind.
SpentApprovalGoes ==
    Epic \in ledger /\ Epic \notin deskPast.live /\ ~deskPast.unrevoked =>
        \/ cards[Epic].status = "closed"
        \/ \E h \in Handlers : \E i \in DOMAIN todo[h] : todo[h][i] = Call("revoke", Epic, "")

\* A question to the king leaves the card only after an answer is on it, or when
\* the viceroy takes the label off, whatever fails in between.
AnsweredBeforeUnblocked ==
    [][Has(Card, "needs:king") /\ "needs:king" \notin cards'[Card].labels =>
          \/ "answer" \in cards[Card].comments
          \/ \E h \in Handlers : todo[h] = <<Remove(Card, "needs:king"), Comment(Card, "audit")>>]_cdVars

\* A request that can be answered is one gemba finds; its verdict is shown only with
\* the reason on the card, and it is closed only as declined, whichever call fails.
VerdictHasReason ==
    /\ Has(New, "acceptance-request") => Has(New, "gemba")
    /\ \A state \in {"accepted", "declined"} : Has(New, state) => state \in cards[New].comments
    /\ cards[New].status = "closed" => Has(New, "declined")

\* The card desk keeps the king's word: a card gets on the line only by it, a spent
\* approval of an epic does not stay in the ledger unless its close lost its answer or
\* its revocation failed, a question leaves its card only once an answer is on it, and the verdict on
\* an acceptance request is shown only with its reason.
DeskKeepsWord == [](LineIsTheKings /\ SpentApprovalGoes /\ VerdictHasReason) /\ AnsweredBeforeUnblocked
==============================================================================
