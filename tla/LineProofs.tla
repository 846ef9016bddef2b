----------------------------- MODULE LineProofs ------------------------------
(* Three parts of the line: what is proved of heijunka's triage (Heijunka),   *)
(* of the checks of an attestation (CheckRuns), and of the amendments to the  *)
(* constitution (Law).                                                        *)
EXTENDS Parts, Integers, Sequences, SequenceTheorems, FiniteSetTheorems, TLAPS

------------------------------------------------------------------------------
(* Heijunka. The state.                                                       *)

Needed == HJ!Roles \cup Needable
Card == [st : {"open", "held", "closed"}, by : Makers \cup {HJ!None}, needs : SUBSET Needed, gaveUp : BOOLEAN,
         moved : BOOLEAN, reaps : Nat, stale : BOOLEAN, late : BOOLEAN, asked : {"no", "yes", "mid"}]
CardsType == queue \in [Cards -> Card]
MakersType == makers \in [Makers -> [up : BOOLEAN, on : Cards \cup {HJ!None}]]
PastType == hjPast \in [released : [Cards -> Nat], taken : BOOLEAN, claims : [Cards -> Nat], faults : Nat, cord : Nat]

(* What the worker holds at each place of its pass: stale needs, or claims.   *)
Jobs == (Cards \X HJ!Roles) \cup (Cards \X Makers)
HandsType ==
    /\ hj \in [at : {"rest", "triage", "drop", "list", "reap", "unclaim", "apply"}, todo : SUBSET Jobs,
               job : Jobs \cup {<<HJ!None, HJ!None>>}, stations : {hj.stations},
               known : SUBSET (Cards \X Nat), want : {hj.want}]
    /\ hj.at \in {"triage", "drop"} => hj.todo \subseteq Cards \X HJ!Roles
    /\ hj.at = "drop" => hj.job \in Cards \X HJ!Roles
    /\ hj.at \in {"reap", "unclaim"} => hj.todo \subseteq Cards \X Makers
    /\ hj.at = "unclaim" => hj.job \in hj.todo

(* A held card has a holder, an asked question a label, and the reaper's      *)
(* releases are the notes on the card.                                        *)
CardHolds(c) ==
    /\ queue[c].st = "held" => queue[c].by \in Makers
    /\ queue[c].asked = "yes" => queue[c].needs # {} \/ queue[c].gaveUp
    /\ hjPast.released[c] = queue[c].reaps /\ queue[c].reaps <= MaxReaps
CardsHold == \A c \in Cards : CardHolds(c)

(* Between the two calls of MoveNeed the card has another label, or is parked.*)
MoveHolds ==
    hj.at = "drop" => LET c == hj.job[1] IN
        queue[c].asked = "yes" => queue[c].gaveUp \/ \E role \in queue[c].needs : role # hj.job[2]

(* Claims the status had told of: known by a number that no later claim has,  *)
(* by a holder who is not the one of any card on the reaper's list.           *)
KnownHolds == \A k \in hj.known : k[2] <= hjPast.claims[k[1]]
ListHolds ==
    /\ hj.at = "list" => \A c \in Cards, m \in Makers :
           <<c, hjPast.claims[c]>> \in hj.known /\ queue[c].by = m => hj.stations[m] = HJ!Beat(c)
    /\ hj.at \in {"reap", "unclaim"} => \A j \in hj.todo :
           <<j[1], hjPast.claims[j[1]]>> \in hj.known => queue[j[1]].by # j[2]
    /\ hj.at = "unclaim" => queue[hj.job[1]].reaps < MaxReaps

TriageTypes == CardsType /\ MakersType /\ PastType /\ HandsType
TriageInv == TriageTypes /\ CardsHold /\ MoveHolds /\ KnownHolds /\ ListHolds /\ ~hjPast.taken

TriageAssumptions == MaxReaps \in Nat /\ HJ!None \notin Makers

(* What everybody but the reaper's release does to a card, claim numbers      *)
(* going up: no reap note goes, a holder only leaves unless it claims, and    *)
(* who asks is not asking about the need that is being moved.                 *)
Gentle(c) ==
    LET r == queue[c]
        s == queue'[c] IN
    /\ s.reaps = r.reaps /\ (r.gaveUp => s.gaveUp)
    /\ s.st = "held" => s.by \in Makers
    /\ s.asked = "yes" => \/ r.asked = "yes" /\ r.needs \subseteq s.needs
                          \/ s.needs # {} /\ ~(hj.at = "drop" /\ hj.job[1] = c)
                          \/ (s.needs # {} \/ s.gaveUp) /\ hj'.at # "drop"
    /\ hjPast'.claims[c] >= hjPast.claims[c]
    /\ s.by = r.by \/ s.by = HJ!None \/ hjPast'.claims[c] > hjPast.claims[c]

GentleStep ==
    /\ CardsType' /\ MakersType' /\ PastType' /\ hjPast'.released = hjPast.released /\ hjPast'.taken = hjPast.taken
    /\ \A c \in Cards : Gentle(c)

(* The parts of the invariant that are about cards only.                      *)
LEMMA CardsKept ==
    ASSUME TriageAssumptions, TriageInv, GentleStep
    PROVE  CardsHold' /\ ~hjPast'.taken
<1>1. ASSUME NEW c \in Cards
      PROVE  CardHolds(c)'
  BY DEF TriageInv, TriageTypes, GentleStep, Gentle, CardsHold, CardHolds
<1> QED BY <1>1 DEF CardsHold, TriageInv, GentleStep

(* What is known stays known by its number.                                   *)
LEMMA KnownKept ==
    ASSUME TriageAssumptions, TriageInv, GentleStep, hj'.known = hj.known
    PROVE  KnownHolds'
<1>1. ASSUME NEW k \in hj.known
      PROVE  k[2] <= hjPast'.claims[k[1]]
  <2>1. k \in Cards \X Nat
    BY DEF TriageInv, TriageTypes, HandsType
  <2>2. k[1] \in Cards /\ k[2] \in Nat /\ k[2] <= hjPast.claims[k[1]]
    BY <2>1 DEF TriageInv, KnownHolds
  <2>3. hjPast.claims[k[1]] \in Nat /\ hjPast'.claims[k[1]] \in Nat
        /\ hjPast'.claims[k[1]] >= hjPast.claims[k[1]]
    BY <2>2 DEF TriageInv, TriageTypes, PastType, GentleStep, Gentle
  <2> QED BY <2>2, <2>3
<1> QED BY <1>1 DEF KnownHolds

(* A card whose claim was known has the holder it had, or none.               *)
LEMMA KnownHolder ==
    ASSUME TriageAssumptions, TriageInv, GentleStep, NEW c \in Cards,
           <<c, hjPast'.claims[c]>> \in hj.known
    PROVE  /\ <<c, hjPast.claims[c]>> \in hj.known
           /\ queue'[c].by = queue[c].by \/ queue'[c].by = HJ!None
<1>1. hjPast'.claims[c] <= hjPast.claims[c]
  BY DEF TriageInv, KnownHolds
<1>2. hjPast'.claims[c] \in Nat /\ hjPast.claims[c] \in Nat /\ Gentle(c)
  BY DEF TriageInv, TriageTypes, PastType, GentleStep
<1>3. hjPast'.claims[c] = hjPast.claims[c]
  BY <1>1, <1>2 DEF Gentle
<1> QED BY <1>2, <1>3 DEF Gentle

(* A step around the worker.                                                  *)
LEMMA AroundInv ==
    ASSUME TriageAssumptions, TriageInv, GentleStep, hj' = hj
    PROVE  TriageInv'
<1>1. HandsType'
  BY DEF TriageInv, TriageTypes, HandsType
<1>2. MoveHolds'
  <2> SUFFICES ASSUME hj.at = "drop", queue'[hj.job[1]].asked = "yes"
               PROVE  queue'[hj.job[1]].gaveUp \/ \E role \in queue'[hj.job[1]].needs : role # hj.job[2]
    BY DEF MoveHolds
  <2>1. hj.job[1] \in Cards
    BY DEF TriageInv, TriageTypes, HandsType
  <2> QED BY <2>1 DEF TriageInv, MoveHolds, GentleStep, Gentle
<1>3. ListHolds'
  <2>1. ASSUME hj.at = "list", NEW c \in Cards, NEW m \in Makers,
               <<c, hjPast'.claims[c]>> \in hj.known, queue'[c].by = m
        PROVE  hj.stations[m] = HJ!Beat(c)
    BY <2>1, KnownHolder DEF TriageInv, ListHolds, TriageAssumptions
  <2>2. ASSUME hj.at \in {"reap", "unclaim"}, NEW j \in hj.todo,
               <<j[1], hjPast'.claims[j[1]]>> \in hj.known
        PROVE  queue'[j[1]].by # j[2]
    <3>1. j[1] \in Cards /\ j[2] \in Makers
      BY <2>2 DEF TriageInv, TriageTypes, HandsType
    <3> QED BY <2>2, <3>1, KnownHolder DEF TriageInv, ListHolds, TriageAssumptions
  <2>3. ASSUME hj.at = "unclaim"
        PROVE  queue'[hj.job[1]].reaps < MaxReaps
    <3>1. hj.job[1] \in Cards
      BY <2>3 DEF TriageInv, TriageTypes, HandsType
    <3> QED BY <2>3, <3>1 DEF TriageInv, ListHolds, GentleStep, Gentle
  <2> QED BY <2>1, <2>2, <2>3 DEF ListHolds
<1> QED BY <1>1, <1>2, <1>3, CardsKept, KnownKept DEF TriageInv, TriageTypes, GentleStep

(* A card that is touched: what was asked of it, moved and not stale.         *)
LEMMA Touched ==
    ASSUME CardsType, NEW c \in Cards, NEW r \in Card, HJ!Touch(c, r)
    PROVE  /\ CardsType' /\ \A d \in Cards \ {c} : queue'[d] = queue[d]
           /\ queue'[c].st = r.st /\ queue'[c].by = r.by /\ queue'[c].needs = r.needs
           /\ queue'[c].gaveUp = r.gaveUp /\ queue'[c].reaps = r.reaps /\ queue'[c].asked = r.asked
<1> DEFINE s == [r EXCEPT !.moved = TRUE, !.stale = FALSE]
<1>1. s \in Card /\ s.st = r.st /\ s.by = r.by /\ s.needs = r.needs
      /\ s.gaveUp = r.gaveUp /\ s.reaps = r.reaps /\ s.asked = r.asked
  BY DEF Card
<1>2. queue' = [queue EXCEPT ![c] = s]
  BY DEF HJ!Touch
<1> HIDE DEF s
<1> QED BY <1>1, <1>2 DEF CardsType

(* What a card keeps through the changes of the line.                         *)
LEMMA CardFacts ==
    ASSUME NEW r \in Card
    PROVE  /\ \A m \in Makers : LET s == [r EXCEPT !.st = "held", !.by = m] IN
               s \in Card /\ s.st = "held" /\ s.by = m /\ s.needs = r.needs /\ s.gaveUp = r.gaveUp
               /\ s.reaps = r.reaps /\ s.asked = r.asked
           /\ LET s == HJ!Opened(r) IN
               s \in Card /\ s.st = "open" /\ s.by = HJ!None /\ s.needs = r.needs /\ s.gaveUp = r.gaveUp
               /\ s.reaps = r.reaps /\ s.asked = r.asked
           /\ LET s == [r EXCEPT !.st = "closed", !.by = HJ!None] IN
               s \in Card /\ s.st = "closed" /\ s.by = HJ!None /\ s.needs = r.needs /\ s.gaveUp = r.gaveUp
               /\ s.reaps = r.reaps /\ s.asked = r.asked
BY DEF Card, HJ!Opened

(* A step that touches one card, and one that touches none.                   *)
Mild(c, r) ==
    /\ r.reaps = queue[c].reaps
    /\ queue[c].gaveUp => r.gaveUp
    /\ r.st = "held" => r.by \in Makers
    /\ r.asked = "yes" => \/ queue[c].asked = "yes" /\ queue[c].needs \subseteq r.needs
                          \/ r.needs # {} /\ ~(hj.at = "drop" /\ hj.job[1] = c)
                          \/ (r.needs # {} \/ r.gaveUp) /\ hj'.at # "drop"
    /\ r.by = queue[c].by \/ r.by = HJ!None \/ hjPast'.claims[c] > hjPast.claims[c]
PastGrows ==
    /\ PastType' /\ MakersType' /\ hjPast'.released = hjPast.released /\ hjPast'.taken = hjPast.taken
    /\ \A d \in Cards : hjPast'.claims[d] >= hjPast.claims[d]

LEMMA GentleTouch ==
    ASSUME TriageInv, NEW c \in Cards, NEW r \in Card, HJ!Touch(c, r), Mild(c, r), PastGrows
    PROVE  GentleStep
<1>1. CardsType
  BY DEF TriageInv, TriageTypes
<1>2. \A d \in Cards : Gentle(d)
  <2> TAKE d \in Cards
  <2>1. CASE d = c
    BY <1>1, <2>1, Touched DEF Gentle, Mild, PastGrows
  <2>2. CASE d # c
    <3>1. queue'[d] = queue[d]
      BY <1>1, <2>2, Touched
    <3> QED BY <3>1 DEF Gentle, PastGrows, TriageInv, CardsHold, CardHolds
  <2> QED BY <2>1, <2>2
<1> QED BY <1>1, <1>2, Touched DEF GentleStep, PastGrows

LEMMA GentleRest ==
    ASSUME TriageInv, queue' = queue, PastGrows
    PROVE  GentleStep
<1>1. \A d \in Cards : Gentle(d)
  BY DEF Gentle, PastGrows, TriageInv, CardsHold, CardHolds
<1> QED BY <1>1 DEF GentleStep, PastGrows, CardsType, TriageInv, TriageTypes

LEMMA PastFacts ==
    ASSUME PastType
    PROVE  /\ hjPast.released \in [Cards -> Nat] /\ hjPast.claims \in [Cards -> Nat]
           /\ hjPast.taken \in BOOLEAN /\ hjPast.faults \in Nat /\ hjPast.cord \in Nat
           /\ \A d \in Cards : hjPast.claims[d] >= hjPast.claims[d]
           /\ hjPast' = HJ!Faulted => PastType' /\ hjPast'.released = hjPast.released
                                     /\ hjPast'.taken = hjPast.taken /\ hjPast'.claims = hjPast.claims
           /\ hjPast' = hjPast => PastType'
BY DEF PastType, HJ!Faulted

(* Makers: they claim, ask, poll, end their runs.                             *)
LEMMA ClaimGentle ==
    ASSUME TriageAssumptions, TriageInv, NEW m \in Makers, NEW c \in Cards, HJ!MakerClaim(m, c)
    PROVE  GentleStep
<1>1. queue[c] \in Card /\ PastType /\ MakersType
  BY DEF TriageInv, TriageTypes, CardsType
<1>2. PICK r \in Card : HJ!Touch(c, r) /\ r.st = "held" /\ r.by = m /\ r.needs = queue[c].needs
          /\ r.gaveUp = queue[c].gaveUp /\ r.reaps = queue[c].reaps /\ r.asked = queue[c].asked
  <2> DEFINE q == [queue[c] EXCEPT !.st = "held", !.by = m]
  <2>1. q \in Card /\ q.st = "held" /\ q.by = m /\ q.needs = queue[c].needs /\ q.gaveUp = queue[c].gaveUp
        /\ q.reaps = queue[c].reaps /\ q.asked = queue[c].asked
    BY <1>1, CardFacts
  <2>2. HJ!Touch(c, q)
    BY DEF HJ!MakerClaim
  <2> HIDE DEF q
  <2> QED BY <2>1, <2>2
<1>3. PastGrows /\ hjPast'.claims[c] > hjPast.claims[c]
  <2>1. hjPast' = [hjPast EXCEPT !.claims[c] = @ + 1]
    BY DEF HJ!MakerClaim
  <2>2. MakersType'
    BY <1>1 DEF HJ!MakerClaim, MakersType
  <2> QED BY <1>1, <2>1, <2>2 DEF PastType, PastGrows
<1>4. Mild(c, r)
  BY <1>2, <1>3 DEF Mild
<1> QED BY <1>2, <1>3, <1>4, GentleTouch

LEMMA PastRests ==
    ASSUME TriageInv, MakersType', hjPast' = hjPast \/ hjPast' = HJ!Faulted
    PROVE  PastGrows
<1>1. PastType
  BY DEF TriageInv, TriageTypes
<1>2. \A d \in Cards : hjPast.claims[d] >= hjPast.claims[d]
  BY <1>1, PastFacts
<1> QED BY <1>1, <1>2, PastFacts DEF PastGrows

LEMMA NeedGentle ==
    ASSUME TriageAssumptions, TriageInv, NEW m \in Makers, NEW role \in Needable, HJ!RaiseNeed(m, role)
    PROVE  GentleStep
<1>1. PICK c \in Cards : c = makers[m].on /\ queue[c].by = m
  BY DEF HJ!RaiseNeed, TriageInv, TriageTypes, MakersType
<1>2. queue[c] \in Card /\ UNCHANGED <<makers, hjPast>> /\ MakersType'
  BY DEF TriageInv, TriageTypes, CardsType, MakersType, HJ!RaiseNeed
<1>3. PICK n \in SUBSET Needed : n = queue[c].needs \cup {role}
  BY <1>2 DEF Card, Needed
<1>4. PICK a \in {"no", "mid", "yes"} : a = IF hj.at = "drop" /\ hj.job[1] = c THEN "mid" ELSE "yes"
  OBVIOUS
<1>5. PICK r \in Card : HJ!Touch(c, r) /\ r.st = queue[c].st /\ r.by = queue[c].by /\ r.needs = n
          /\ r.gaveUp = queue[c].gaveUp /\ r.reaps = queue[c].reaps /\ r.asked = a
  <2> DEFINE q == [queue[c] EXCEPT !.needs = n, !.asked = a]
  <2>1. q \in Card /\ q.st = queue[c].st /\ q.by = queue[c].by /\ q.needs = n /\ q.gaveUp = queue[c].gaveUp
        /\ q.reaps = queue[c].reaps /\ q.asked = a
    BY <1>2 DEF Card
  <2>2. HJ!Touch(c, q)
    BY <1>1, <1>3, <1>4 DEF HJ!RaiseNeed
  <2> HIDE DEF q
  <2> QED BY <2>1, <2>2
<1>6. Mild(c, r)
  BY <1>3, <1>4, <1>5 DEF Mild, TriageInv, CardsHold, CardHolds
<1>7. PastGrows
  BY <1>2, PastRests
<1> QED BY <1>5, <1>6, <1>7, GentleTouch

LEMMA SettleGentle ==
    ASSUME TriageAssumptions, TriageInv, NEW m \in Makers, HJ!MakerSettle(m)
    PROVE  GentleStep
<1>1. PICK c \in Cards : c = makers[m].on
  BY DEF HJ!MakerSettle, TriageInv, TriageTypes, MakersType
<1>2. queue[c] \in Card /\ UNCHANGED <<hjPast>>
  BY DEF TriageInv, TriageTypes, CardsType, HJ!MakerSettle
<1>3. MakersType'
  BY DEF HJ!MakerSettle, TriageInv, TriageTypes, MakersType
<1>4. PastGrows
  BY <1>2, <1>3, PastRests
<1>5. CASE queue' = queue
  BY <1>4, <1>5, GentleRest
<1>6. ASSUME NEW q, q = HJ!Opened(queue[c]) \/ q = [queue[c] EXCEPT !.st = "closed", !.by = HJ!None],
             HJ!Touch(c, q)
      PROVE  GentleStep
  <2>1. q \in Card /\ q.st # "held" /\ q.by = HJ!None /\ q.needs = queue[c].needs
        /\ q.gaveUp = queue[c].gaveUp /\ q.reaps = queue[c].reaps /\ q.asked = queue[c].asked
    <3>1. CASE q = HJ!Opened(queue[c])
      BY <1>2, <3>1 DEF Card, HJ!Opened
    <3>2. CASE q = [queue[c] EXCEPT !.st = "closed", !.by = HJ!None]
      BY <1>2, <3>2 DEF Card
    <3> QED BY <1>6, <3>1, <3>2
  <2>2. Mild(c, q)
    BY <2>1 DEF Mild
  <2> QED BY <1>4, <1>6, <2>1, <2>2, GentleTouch
<1> QED BY <1>1, <1>5, <1>6 DEF HJ!MakerSettle

LEMMA PollGentle ==
    ASSUME TriageAssumptions, TriageInv, NEW m \in Makers, HJ!MakerPoll(m)
    PROVE  GentleStep
<1>1. CardsType /\ UNCHANGED <<makers, hjPast>> /\ MakersType'
  BY DEF TriageInv, TriageTypes, MakersType, HJ!MakerPoll
<1>2. ASSUME NEW c \in Cards
      PROVE  /\ queue'[c] \in Card
             /\ \/ queue'[c] = queue[c]
                \/ /\ queue'[c].st = "open" /\ queue'[c].by = HJ!None
                   /\ queue'[c].needs = queue[c].needs /\ queue'[c].gaveUp = queue[c].gaveUp
                   /\ queue'[c].reaps = queue[c].reaps /\ queue'[c].asked = queue[c].asked
  <2>1. queue[c] \in Card
    BY <1>1 DEF CardsType
  <2> DEFINE o == HJ!Opened(queue[c])
             q == [o EXCEPT !.moved = TRUE, !.stale = FALSE]
  <2>2. queue'[c] = q \/ queue'[c] = queue[c]
    BY DEF HJ!MakerPoll
  <2>3. o \in Card /\ o.st = "open" /\ o.by = HJ!None /\ o.needs = queue[c].needs /\ o.gaveUp = queue[c].gaveUp
        /\ o.reaps = queue[c].reaps /\ o.asked = queue[c].asked
    BY <2>1, CardFacts
  <2> HIDE DEF o
  <2>4. q \in Card /\ q.st = o.st /\ q.by = o.by /\ q.needs = o.needs /\ q.gaveUp = o.gaveUp
        /\ q.reaps = o.reaps /\ q.asked = o.asked
    BY <2>3 DEF Card
  <2> HIDE DEF q
  <2> QED BY <2>1, <2>2, <2>3, <2>4
<1>3. CardsType'
  BY <1>2 DEF CardsType, HJ!MakerPoll
<1>4. PastGrows
  BY <1>1, PastRests
<1>5. \A c \in Cards : Gentle(c)
  <2> TAKE c \in Cards
  <2>1. queue[c].st = "held" => queue[c].by \in Makers
    BY DEF TriageInv, CardsHold, CardHolds
  <2> QED BY <1>2, <1>4, <2>1 DEF Gentle, PastGrows
<1> QED BY <1>3, <1>4, <1>5 DEF GentleStep, PastGrows

(* The rest of the line: heartbeats, deaths, restarts, answers and time.      *)
LEMMA QuietGentle ==
    ASSUME TriageAssumptions, TriageInv,
           \/ \E m \in Makers : HJ!MakerBeat(m) \/ HJ!MakerDies(m) \/ HJ!MakerReturns(m) \/ HJ!Silence(m)
           \/ HJ!ServeRestart \/ HJ!Cord
    PROVE  GentleStep /\ hj' = hj
<1>1. queue' = queue /\ hj' = hj
  BY DEF HJ!MakerBeat, HJ!MakerDies, HJ!MakerReturns, HJ!Silence, HJ!ServeRestart, HJ!Cord
<1>2. MakersType'
  <2>0. MakersType
    BY DEF TriageInv, TriageTypes
  <2>1. ASSUME NEW m \in Makers, HJ!MakerDies(m)
        PROVE  MakersType'
    BY <2>0, <2>1 DEF HJ!MakerDies, MakersType
  <2>2. ASSUME NEW m \in Makers, HJ!MakerReturns(m)
        PROVE  MakersType'
    BY <2>0, <2>2 DEF HJ!MakerReturns, MakersType
  <2>3. CASE makers' = makers
    BY <2>0, <2>3 DEF MakersType
  <2> QED BY <2>1, <2>2, <2>3 DEF HJ!MakerBeat, HJ!Silence, HJ!ServeRestart, HJ!Cord
<1>3. CASE hjPast' = hjPast \/ hjPast' = HJ!Faulted
  BY <1>1, <1>2, <1>3, PastRests, GentleRest
<1>4. CASE HJ!Cord
  <2>1. PICK n \in Nat : hjPast' = [hjPast EXCEPT !.cord = n]
    <3>1. hjPast.cord \in Nat /\ hjPast.cord + 1 \in Nat
      BY PastFacts DEF TriageInv, TriageTypes
    <3> QED BY <1>4, <3>1 DEF HJ!Cord
  <2>2. PastGrows
    BY <1>2, <2>1, PastFacts DEF TriageInv, TriageTypes, PastGrows, PastType
  <2> QED BY <1>1, <2>2, GentleRest
<1> QED BY <1>1, <1>3, <1>4
        DEF HJ!MakerBeat, HJ!MakerDies, HJ!MakerReturns, HJ!Silence, HJ!ServeRestart

LEMMA AnswerGentle ==
    ASSUME TriageAssumptions, TriageInv, NEW c \in Cards, HJ!Answer(c)
    PROVE  GentleStep
<1>1. PICK role \in queue[c].needs :
          HJ!Touch(c, [queue[c] EXCEPT !.needs = @ \ {role}, !.asked = "no"])
  BY DEF HJ!Answer
<1>2. queue[c] \in Card /\ UNCHANGED <<makers, hjPast>> /\ MakersType'
  BY DEF HJ!Answer, TriageInv, TriageTypes, CardsType, MakersType
<1>3. PICK n \in SUBSET Needed : n = queue[c].needs \ {role}
  BY <1>2 DEF Card
<1>4. PICK r \in Card : HJ!Touch(c, r) /\ r.st = queue[c].st /\ r.by = queue[c].by
          /\ r.gaveUp = queue[c].gaveUp /\ r.reaps = queue[c].reaps /\ r.asked = "no"
  <2> DEFINE q == [queue[c] EXCEPT !.needs = n, !.asked = "no"]
  <2>1. q \in Card /\ q.st = queue[c].st /\ q.by = queue[c].by /\ q.gaveUp = queue[c].gaveUp
        /\ q.reaps = queue[c].reaps /\ q.asked = "no"
    BY <1>2 DEF Card
  <2>2. HJ!Touch(c, q)
    BY <1>1, <1>3
  <2> HIDE DEF q
  <2> QED BY <2>1, <2>2
<1>5. Mild(c, r)
  BY <1>4 DEF Mild, TriageInv, CardsHold, CardHolds
<1>6. PastGrows
  BY <1>2, PastRests
<1> QED BY <1>4, <1>5, <1>6, GentleTouch

LEMMA AgesGentle ==
    ASSUME TriageAssumptions, TriageInv, NEW c \in Cards, HJ!NeedAges(c) \/ HJ!QueueAges(c)
    PROVE  GentleStep
<1>1. CardsType /\ UNCHANGED <<makers, hjPast>> /\ MakersType'
  BY DEF HJ!NeedAges, HJ!QueueAges, TriageInv, TriageTypes, MakersType
<1>2. CardsType' /\ \A d \in Cards : /\ queue'[d].st = queue[d].st /\ queue'[d].by = queue[d].by
                                     /\ queue'[d].needs = queue[d].needs /\ queue'[d].gaveUp = queue[d].gaveUp
                                     /\ queue'[d].reaps = queue[d].reaps /\ queue'[d].asked = queue[d].asked
  <2>1. CASE HJ!NeedAges(c)
    <3> DEFINE q == [queue[c] EXCEPT !.stale = TRUE]
    <3>1. queue' = [queue EXCEPT ![c] = q]
      BY <2>1 DEF HJ!NeedAges
    <3>2. q \in Card /\ q.st = queue[c].st /\ q.by = queue[c].by /\ q.needs = queue[c].needs
          /\ q.gaveUp = queue[c].gaveUp /\ q.reaps = queue[c].reaps /\ q.asked = queue[c].asked
      BY <1>1 DEF CardsType, Card
    <3> HIDE DEF q
    <3> QED BY <1>1, <3>1, <3>2 DEF CardsType
  <2>2. CASE HJ!QueueAges(c)
    <3> DEFINE q == [queue[c] EXCEPT !.late = TRUE]
    <3>1. queue' = [queue EXCEPT ![c] = q]
      BY <2>2 DEF HJ!QueueAges
    <3>2. q \in Card /\ q.st = queue[c].st /\ q.by = queue[c].by /\ q.needs = queue[c].needs
          /\ q.gaveUp = queue[c].gaveUp /\ q.reaps = queue[c].reaps /\ q.asked = queue[c].asked
      BY <1>1 DEF CardsType, Card
    <3> HIDE DEF q
    <3> QED BY <1>1, <3>1, <3>2 DEF CardsType
  <2> QED BY <2>1, <2>2
<1>3. PastGrows
  BY <1>1, PastRests
<1>4. \A d \in Cards : Gentle(d)
  <2> TAKE d \in Cards
  <2>1. queue[d].st = "held" => queue[d].by \in Makers
    BY DEF TriageInv, CardsHold, CardHolds
  <2> QED BY <1>2, <1>3, <2>1 DEF Gentle, PastGrows
<1> QED BY <1>2, <1>3, <1>4 DEF GentleStep, PastGrows

(* The worker. At rest, in triage and about to publish it holds no card.      *)
LEMMA FreeHands ==
    ASSUME TriageAssumptions, TriageInv, GentleStep, HandsType',
           hj'.at \in {"rest", "triage", "apply"}, hj'.known = hj.known \/ hj'.known = {}
    PROVE  TriageInv'
<1>1. KnownHolds'
  <2>1. CASE hj'.known = hj.known
    BY <2>1, KnownKept
  <2>2. CASE hj'.known = {}
    BY <2>2 DEF KnownHolds
  <2> QED BY <2>1, <2>2
<1>2. MoveHolds' /\ ListHolds'
  BY DEF MoveHolds, ListHolds
<1> QED BY <1>1, <1>2, CardsKept DEF TriageInv, TriageTypes, GentleStep

LEMMA RestInv ==
    ASSUME TriageAssumptions, TriageInv, GentleStep, hj' = HJ!Rest
    PROVE  TriageInv'
<1>1. HandsType' /\ hj'.at = "rest" /\ hj'.known = {}
  BY DEF HJ!Rest, HandsType
<1> QED BY <1>1, FreeHands

LEMMA HandsFacts ==
    ASSUME TriageInv
    PROVE  /\ hj \in [at : {"rest", "triage", "drop", "list", "reap", "unclaim", "apply"}, todo : SUBSET Jobs,
                      job : Jobs \cup {<<HJ!None, HJ!None>>}, stations : {hj.stations},
                      known : SUBSET (Cards \X Nat), want : {hj.want}]
           /\ queue' = queue /\ makers' = makers /\ (hjPast' = hjPast \/ hjPast' = HJ!Faulted) => GentleStep
<1>1. makers' = makers => MakersType'
  BY DEF TriageInv, TriageTypes, MakersType
<1> QED BY <1>1, PastRests, GentleRest DEF TriageInv, TriageTypes, HandsType

LEMMA EndsInv ==
    ASSUME TriageAssumptions, TriageInv,
           HJ!StaleNeeds \/ HJ!Observe \/ HJ!Apply \/ HJ!WorkerDies
    PROVE  TriageInv'
<1>0. GentleStep
  BY HandsFacts DEF HJ!StaleNeeds, HJ!Observe, HJ!Apply, HJ!WorkerDies
<1>1. CASE hj' = HJ!Rest
  BY <1>0, <1>1, RestInv
<1>2. CASE HJ!StaleNeeds
  <2>1. PICK t \in SUBSET (Cards \X HJ!Roles) : hj' = [hj EXCEPT !.at = "triage", !.todo = t]
    BY <1>2 DEF HJ!StaleNeeds
  <2>2. t \in SUBSET Jobs
    BY DEF Jobs
  <2>3. hj'.at = "triage" /\ hj'.todo = t /\ hj'.known = hj.known /\ HandsType'
    BY <2>1, <2>2, HandsFacts DEF HandsType
  <2> QED BY <1>0, <2>3, FreeHands
<1>3. ASSUME NEW w, hj' = [hj EXCEPT !.at = "apply", !.want = w]
      PROVE  TriageInv'
  <2>1. hj'.at = "apply" /\ hj'.known = hj.known /\ HandsType'
    BY <1>3, HandsFacts DEF HandsType
  <2> QED BY <1>0, <2>1, FreeHands
<1> QED BY <1>1, <1>2, <1>3 DEF HJ!Observe, HJ!Apply, HJ!WorkerDies

(* MoveNeed and Park: the label first, and not the one that goes.             *)
LEMMA LabelNeedInv ==
    ASSUME TriageAssumptions, TriageInv, HJ!LabelNeed
    PROVE  TriageInv'
<1>1. PICK j \in hj.todo :
         \/ /\ HJ!Touch(j[1], IF HJ!DecideStaleNeed(j[2]) = "park" THEN [queue[j[1]] EXCEPT !.gaveUp = TRUE]
                              ELSE [queue[j[1]] EXCEPT !.needs = @ \cup {HJ!DecideStaleNeed(j[2])}])
            /\ hj' = [hj EXCEPT !.at = "drop", !.job = j] /\ hjPast' = hjPast
         \/ hjPast' = HJ!Faulted /\ hj' = [hj EXCEPT !.todo = @ \ {j}] /\ queue' = queue
  BY DEF HJ!LabelNeed
<1>2. /\ hj.at = "triage" /\ makers' = makers /\ MakersType' /\ CardsType
      /\ hj.todo \subseteq Cards \X HJ!Roles /\ j \in Cards \X HJ!Roles /\ j \in Jobs
  BY DEF HJ!LabelNeed, TriageInv, TriageTypes, HandsType, MakersType, Jobs
<1>3. PICK c \in Cards, from \in HJ!Roles : j = <<c, from>>
  BY <1>2
<1>4. CASE hjPast' = HJ!Faulted /\ hj' = [hj EXCEPT !.todo = @ \ {j}] /\ queue' = queue
  <2>1. GentleStep
    BY <1>2, <1>4, HandsFacts
  <2>2. hj'.at = "triage" /\ hj'.known = hj.known /\ HandsType'
    BY <1>2, <1>4, HandsFacts DEF HandsType
  <2> QED BY <2>1, <2>2, FreeHands
<1>5. CASE /\ HJ!Touch(c, IF HJ!DecideStaleNeed(from) = "park" THEN [queue[c] EXCEPT !.gaveUp = TRUE]
                          ELSE [queue[c] EXCEPT !.needs = @ \cup {HJ!DecideStaleNeed(from)}])
           /\ hj' = [hj EXCEPT !.at = "drop", !.job = j] /\ hjPast' = hjPast
  <2>1. PICK to \in {"park", "king", "viceroy"} : to = HJ!DecideStaleNeed(from) /\ to # from
    BY DEF HJ!DecideStaleNeed, HJ!Roles
  <2>2. queue[c] \in Card
    BY <1>2 DEF CardsType
  <2>3. PICK r \in Card : /\ HJ!Touch(c, r) /\ r.st = queue[c].st /\ r.by = queue[c].by
                          /\ r.reaps = queue[c].reaps /\ r.asked = queue[c].asked
                          /\ queue[c].needs \subseteq r.needs /\ (queue[c].gaveUp => r.gaveUp)
                          /\ r.gaveUp \/ to \in r.needs
    <3>1. CASE to = "park"
      <4> DEFINE q == [queue[c] EXCEPT !.gaveUp = TRUE]
      <4>1. q \in Card /\ q.st = queue[c].st /\ q.by = queue[c].by /\ q.reaps = queue[c].reaps
            /\ q.asked = queue[c].asked /\ q.needs = queue[c].needs /\ q.gaveUp
        BY <2>2 DEF Card
      <4>2. HJ!Touch(c, q)
        BY <1>5, <2>1, <3>1
      <4> HIDE DEF q
      <4> QED BY <4>1, <4>2
    <3>2. CASE to # "park"
      <4>1. PICK n \in SUBSET Needed : n = queue[c].needs \cup {to}
        BY <2>1, <2>2, <3>2 DEF Card, Needed, HJ!Roles
      <4> DEFINE q == [queue[c] EXCEPT !.needs = n]
      <4>2. q \in Card /\ q.st = queue[c].st /\ q.by = queue[c].by /\ q.reaps = queue[c].reaps
            /\ q.asked = queue[c].asked /\ q.needs = n /\ q.gaveUp = queue[c].gaveUp
        BY <2>2 DEF Card
      <4>3. HJ!Touch(c, q)
        BY <1>5, <2>1, <3>2, <4>1
      <4> HIDE DEF q
      <4> QED BY <4>1, <4>2, <4>3
    <3> QED BY <3>1, <3>2
  <2>4. PastGrows
    BY <1>2, <1>5, PastRests
  <2>5. Mild(c, r)
    BY <2>3 DEF Mild, TriageInv, CardsHold, CardHolds
  <2>6. GentleStep
    BY <2>3, <2>4, <2>5, GentleTouch
  <2>7. /\ hj'.at = "drop" /\ hj'.job = j /\ hj'.known = hj.known /\ hj'.todo = hj.todo /\ HandsType'
    BY <1>2, <1>5, HandsFacts DEF HandsType
  <2>8. MoveHolds'
    <3>1. queue'[c].gaveUp = r.gaveUp /\ queue'[c].needs = r.needs
      BY <1>2, <2>3, Touched
    <3> QED BY <1>3, <2>1, <2>3, <2>7, <3>1 DEF MoveHolds
  <2>9. ListHolds' /\ KnownHolds'
    BY <2>6, <2>7, KnownKept DEF ListHolds
  <2> QED BY <2>6, <2>7, <2>8, <2>9, CardsKept DEF TriageInv, TriageTypes, GentleStep
<1> QED BY <1>1, <1>3, <1>4, <1>5

(* The need goes: what it was moved to stays.                                 *)
LEMMA DropNeedInv ==
    ASSUME TriageAssumptions, TriageInv, HJ!DropNeed
    PROVE  TriageInv'
<1>1. PICK c \in Cards, from \in HJ!Roles : hj.job = <<c, from>>
  BY DEF HJ!DropNeed, TriageInv, TriageTypes, HandsType
<1>2. hj.at = "drop" /\ makers' = makers /\ MakersType' /\ CardsType /\ hj.todo \subseteq Cards \X HJ!Roles
      /\ hj' = [hj EXCEPT !.at = "triage", !.todo = @ \ {hj.job}, !.job = <<HJ!None, HJ!None>>]
  BY DEF HJ!DropNeed, TriageInv, TriageTypes, HandsType, MakersType
<1>3. hj'.at = "triage" /\ hj'.known = hj.known /\ HandsType'
  BY <1>2, HandsFacts DEF HandsType
<1>4. CASE hjPast' = HJ!Faulted /\ queue' = queue
  BY <1>2, <1>3, <1>4, HandsFacts, FreeHands
<1>5. CASE HJ!Touch(c, [queue[c] EXCEPT !.needs = @ \ {from}]) /\ hjPast' = hjPast
  <2>1. queue[c] \in Card
    BY <1>2 DEF CardsType
  <2>2. PICK n \in SUBSET Needed : n = queue[c].needs \ {from}
    BY <2>1 DEF Card
  <2>3. PICK r \in Card : /\ HJ!Touch(c, r) /\ r.st = queue[c].st /\ r.by = queue[c].by
                          /\ r.reaps = queue[c].reaps /\ r.asked = queue[c].asked
                          /\ r.needs = n /\ r.gaveUp = queue[c].gaveUp
    <3> DEFINE q == [queue[c] EXCEPT !.needs = n]
    <3>1. q \in Card /\ q.st = queue[c].st /\ q.by = queue[c].by /\ q.reaps = queue[c].reaps
          /\ q.asked = queue[c].asked /\ q.needs = n /\ q.gaveUp = queue[c].gaveUp
      BY <2>1 DEF Card
    <3>2. HJ!Touch(c, q)
      BY <1>5, <2>2
    <3> HIDE DEF q
    <3> QED BY <3>1, <3>2
  <2>4. r.asked = "yes" => r.needs # {} \/ r.gaveUp
    <3>1. queue[c].asked = "yes" => queue[c].gaveUp \/ \E role \in queue[c].needs : role # from
      BY <1>1, <1>2 DEF TriageInv, MoveHolds
    <3> QED BY <2>2, <2>3, <3>1
  <2>5. Mild(c, r)
    BY <1>3, <2>3, <2>4 DEF Mild, TriageInv, CardsHold, CardHolds
  <2>6. PastGrows
    BY <1>2, <1>5, PastRests
  <2> QED BY <1>3, <2>3, <2>5, <2>6, GentleTouch, FreeHands
<1> QED BY <1>1, <1>4, <1>5 DEF HJ!DropNeed

(* The status is read: what is known of a claim is what its holder last said. *)
LEMMA ReadStatusInv ==
    ASSUME TriageAssumptions, TriageInv, HJ!ReadStatus
    PROVE  TriageInv'
<1>0. /\ UNCHANGED <<queue, makers, hjPast>> /\ hj.todo = {} /\ hjPast.claims \in [Cards -> Nat]
      /\ hj' = [hj EXCEPT !.at = "list", !.stations = seen, !.known = HJ!Reported]
  BY PastFacts DEF HJ!ReadStatus, TriageInv, TriageTypes
<1>1. GentleStep
  BY <1>0, HandsFacts
<1>2. HJ!Reported \in SUBSET (Cards \X Nat)
  BY <1>0 DEF HJ!Reported
<1>3. /\ hj'.at = "list" /\ hj'.stations = seen /\ hj'.known = HJ!Reported /\ HandsType'
  BY <1>0, <1>2, HandsFacts DEF HandsType
<1>4. KnownHolds'
  <2>1. \A k \in HJ!Reported : k[2] <= hjPast.claims[k[1]]
    BY <1>0 DEF HJ!Reported
  <2> QED BY <1>0, <1>3, <2>1 DEF KnownHolds
<1>5. ListHolds'
  <2>1. ASSUME NEW c \in Cards, NEW m \in Makers, <<c, hjPast.claims[c]>> \in HJ!Reported, queue[c].by = m
        PROVE  seen[m] = HJ!Beat(c)
    BY <2>1 DEF HJ!Reported
  <2> QED BY <1>0, <1>3, <2>1 DEF ListHolds
<1>6. MoveHolds'
  BY <1>3 DEF MoveHolds
<1> QED BY <1>1, <1>3, <1>4, <1>5, <1>6, CardsKept DEF TriageInv, TriageTypes, GentleStep

(* The claims are listed: a known claim whose holder is still the one who     *)
(* said so is not abandoned.                                                  *)
LEMMA ListClaimedInv ==
    ASSUME TriageAssumptions, TriageInv, HJ!ListClaimed
    PROVE  TriageInv'
<1>0. /\ UNCHANGED <<makers, hjPast>> /\ MakersType' /\ hj.at = "list" /\ CardsType
      /\ queue' = [c \in Cards |-> [queue[c] EXCEPT !.moved = FALSE]]
  BY DEF HJ!ListClaimed, TriageInv, TriageTypes, MakersType
<1>1. \A c \in Cards : /\ queue'[c] \in Card /\ queue'[c].st = queue[c].st /\ queue'[c].by = queue[c].by
                       /\ queue'[c].needs = queue[c].needs /\ queue'[c].gaveUp = queue[c].gaveUp
                       /\ queue'[c].reaps = queue[c].reaps /\ queue'[c].asked = queue[c].asked
  BY <1>0 DEF CardsType, Card
<1>2. CardsType' /\ PastGrows
  <2>1. queue' \in [Cards -> Card]
    BY <1>0, <1>1
  <2>2. PastGrows
    BY <1>0, PastRests
  <2> QED BY <2>1, <2>2 DEF CardsType
<1>3. GentleStep
  <2>1. \A c \in Cards : queue[c].st = "held" => queue[c].by \in Makers
    BY DEF TriageInv, CardsHold, CardHolds
  <2> QED BY <1>1, <1>2, <2>1 DEF GentleStep, Gentle, PastGrows
<1>4. PICK t \in SUBSET (Cards \X Makers) :
         /\ hj' = [hj EXCEPT !.at = "reap", !.stations = [m \in Makers |-> HJ!Unseen], !.todo = t]
         /\ \A j \in t : queue[j[1]].by = j[2] /\ HJ!Abandoned(j[1], j[2], hj.stations)
  <2> DEFINE t == {<<c, queue[c].by>> : c \in {d \in Cards : queue[d].st = "held"
                       /\ HJ!Abandoned(d, queue[d].by, hj.stations) /\ "viceroy" \notin queue[d].needs}}
  <2>1. t \in SUBSET (Cards \X Makers)
    BY DEF TriageInv, CardsHold, CardHolds
  <2>2. \A j \in t : queue[j[1]].by = j[2] /\ HJ!Abandoned(j[1], j[2], hj.stations)
    OBVIOUS
  <2>3. hj' = [hj EXCEPT !.at = "reap", !.stations = [m \in Makers |-> HJ!Unseen], !.todo = t]
    BY DEF HJ!ListClaimed
  <2> HIDE DEF t
  <2> QED BY <2>1, <2>2, <2>3
<1>5. t \in SUBSET Jobs
  BY DEF Jobs
<1>6. hj'.at = "reap" /\ hj'.todo = t /\ hj'.known = hj.known /\ HandsType'
  BY <1>4, <1>5, HandsFacts DEF HandsType
<1>7. ListHolds'
  <2>1. ASSUME NEW j \in t, <<j[1], hjPast.claims[j[1]]>> \in hj.known
        PROVE  FALSE
    <3>1. j[1] \in Cards /\ j[2] \in Makers /\ queue[j[1]].by = j[2]
          /\ HJ!Abandoned(j[1], j[2], hj.stations)
      BY <1>4, <2>1
    <3>2. hj.stations[j[2]] = HJ!Beat(j[1])
      BY <1>0, <2>1, <3>1 DEF TriageInv, ListHolds
    <3>3. HJ!Beat(j[1]).at = "fresh" /\ HJ!Beat(j[1]).card = j[1]
      BY DEF HJ!Beat
    <3> QED BY <3>1, <3>2, <3>3 DEF HJ!Abandoned
  <2> QED BY <1>0, <1>6, <2>1 DEF ListHolds
<1>8. MoveHolds' /\ KnownHolds'
  BY <1>3, <1>6, KnownKept DEF MoveHolds
<1> QED BY <1>3, <1>6, <1>7, <1>8, CardsKept DEF TriageInv, TriageTypes, GentleStep

(* The reaper's list only gets shorter; a card it goes for has a reap left.   *)
LEMMA ReapList ==
    ASSUME TriageAssumptions, TriageInv, GentleStep, hj.at \in {"reap", "unclaim"},
           hj'.at \in {"reap", "unclaim"}, HandsType', hj'.known = hj.known, hj'.todo \subseteq hj.todo,
           hj'.at = "unclaim" => queue[hj'.job[1]].reaps < MaxReaps
    PROVE  TriageInv'
<1>1. ASSUME NEW j \in hj'.todo, <<j[1], hjPast'.claims[j[1]]>> \in hj.known
      PROVE  queue'[j[1]].by # j[2]
  <2>1. j \in hj.todo /\ j[1] \in Cards /\ j[2] \in Makers
    BY DEF TriageInv, TriageTypes, HandsType
  <2> QED BY <1>1, <2>1, KnownHolder DEF TriageInv, ListHolds, TriageAssumptions
<1>2. ASSUME hj'.at = "unclaim"
      PROVE  queue'[hj'.job[1]].reaps < MaxReaps
  <2>1. hj'.job[1] \in Cards
    BY <1>2 DEF HandsType
  <2> QED BY <1>2, <2>1 DEF GentleStep, Gentle
<1>3. ListHolds'
  BY <1>1, <1>2 DEF ListHolds
<1>4. MoveHolds' /\ KnownHolds'
  BY KnownKept DEF MoveHolds
<1> QED BY <1>3, <1>4, CardsKept DEF TriageInv, TriageTypes, GentleStep

LEMMA RereadInv ==
    ASSUME TriageAssumptions, TriageInv, HJ!Reread
    PROVE  TriageInv'
<1>1. PICK j \in hj.todo :
         /\ queue[j[1]].reaps < MaxReaps
         /\ \/ hj' = [hj EXCEPT !.todo = @ \ {j}]
            \/ hj' = [hj EXCEPT !.at = "unclaim", !.job = j]
  BY DEF HJ!Reread
<1>2. hj.at = "reap" /\ hj.todo \subseteq Cards \X Makers /\ j \in Jobs /\ GentleStep
  BY HandsFacts DEF HJ!Reread, TriageInv, TriageTypes, HandsType, Jobs
<1>3. CASE hj' = [hj EXCEPT !.todo = @ \ {j}]
  <2>1. hj'.at = "reap" /\ hj'.known = hj.known /\ hj'.todo \subseteq hj.todo /\ HandsType'
    BY <1>2, <1>3, HandsFacts DEF HandsType
  <2> QED BY <1>2, <2>1, ReapList
<1>4. CASE hj' = [hj EXCEPT !.at = "unclaim", !.job = j]
  <2>1. hj'.at = "unclaim" /\ hj'.known = hj.known /\ hj'.todo = hj.todo /\ hj'.job = j /\ HandsType'
    BY <1>2, <1>4, HandsFacts DEF HandsType
  <2> QED BY <1>1, <1>2, <2>1, ReapList
<1> QED BY <1>1, <1>3, <1>4

(* bd unclaims for the assignee only: a claim that was known is not its.      *)
LEMMA UnclaimInv ==
    ASSUME TriageAssumptions, TriageInv, HJ!Unclaim
    PROVE  TriageInv'
<1>1. PICK c \in Cards, m \in Makers : hj.job = <<c, m>> /\ <<c, m>> \in hj.todo
  BY DEF HJ!Unclaim, TriageInv, TriageTypes, HandsType
<1>2. /\ hj.at = "unclaim" /\ makers' = makers /\ MakersType' /\ CardsType /\ PastType
      /\ hj' = [hj EXCEPT !.at = "reap", !.todo = @ \ {hj.job}, !.job = <<HJ!None, HJ!None>>]
      /\ hj.todo \subseteq Cards \X Makers /\ queue[c].reaps < MaxReaps
  BY <1>1 DEF HJ!Unclaim, TriageInv, TriageTypes, HandsType, MakersType, ListHolds
<1>3. hj'.at = "reap" /\ hj'.known = hj.known /\ hj'.todo \subseteq hj.todo /\ HandsType'
  BY <1>2, HandsFacts DEF HandsType
<1>4. CASE queue' = queue /\ (hjPast' = hjPast \/ hjPast' = HJ!Faulted)
  <2>1. GentleStep
    BY <1>2, <1>4, HandsFacts
  <2> QED BY <1>2, <1>3, <2>1, ReapList
<1>5. CASE /\ queue[c].by = m
           /\ HJ!Touch(c, [HJ!Opened(queue[c]) EXCEPT !.reaps = @ + 1])
           /\ hjPast' = [hjPast EXCEPT !.released[c] = @ + 1,
                                       !.taken = @ \/ (/\ makers[m] = [up |-> TRUE, on |-> c]
                                                       /\ <<c, hjPast.claims[c]>> \in hj.known)]
  <2>1. <<c, hjPast.claims[c]>> \notin hj.known
    BY <1>1, <1>2, <1>5 DEF TriageInv, ListHolds
  <2>2. queue[c] \in Card /\ HJ!Opened(queue[c]) \in Card /\ queue[c].reaps \in Nat /\ MaxReaps \in Nat
    BY <1>2, CardFacts DEF CardsType, Card, TriageAssumptions
  <2>3. PICK r \in Card : /\ HJ!Touch(c, r) /\ r.st = "open" /\ r.by = HJ!None
                          /\ r.reaps = queue[c].reaps + 1 /\ r.asked = queue[c].asked
                          /\ r.needs = queue[c].needs /\ r.gaveUp = queue[c].gaveUp
    <3> DEFINE o == HJ!Opened(queue[c])
               q == [o EXCEPT !.reaps = @ + 1]
    <3>0. o \in Card /\ o.st = "open" /\ o.by = HJ!None /\ o.reaps = queue[c].reaps
          /\ o.asked = queue[c].asked /\ o.needs = queue[c].needs /\ o.gaveUp = queue[c].gaveUp
      BY <2>2, CardFacts
    <3> HIDE DEF o
    <3>1. q \in Card /\ q.st = "open" /\ q.by = HJ!None /\ q.reaps = queue[c].reaps + 1
          /\ q.asked = queue[c].asked /\ q.needs = queue[c].needs /\ q.gaveUp = queue[c].gaveUp
      BY <3>0 DEF Card
    <3>2. HJ!Touch(c, q)
      BY <1>5 DEF o
    <3> HIDE DEF q
    <3> QED BY <3>1, <3>2
  <2>4. /\ PastType' /\ ~hjPast'.taken /\ hjPast'.claims = hjPast.claims
        /\ hjPast'.released[c] = hjPast.released[c] + 1
        /\ \A d \in Cards \ {c} : hjPast'.released[d] = hjPast.released[d]
    <3>1. ASSUME NEW t \in BOOLEAN, hjPast' = [hjPast EXCEPT !.released[c] = @ + 1, !.taken = t]
          PROVE  /\ PastType' /\ hjPast'.taken = t /\ hjPast'.claims = hjPast.claims
                 /\ hjPast'.released[c] = hjPast.released[c] + 1
                 /\ \A d \in Cards \ {c} : hjPast'.released[d] = hjPast.released[d]
      <4>0. hjPast.released \in [Cards -> Nat]
        BY <1>2 DEF PastType
      <4>1. PICK f \in [Cards -> Nat] : f = [hjPast.released EXCEPT ![c] = @ + 1]
        <5> DEFINE g == [hjPast.released EXCEPT ![c] = @ + 1]
        <5>1. hjPast.released[c] + 1 \in Nat
          BY <4>0
        <5>2. g \in [Cards -> Nat]
          BY <4>0, <5>1, Zenon
        <5> HIDE DEF g
        <5>3. \E f \in [Cards -> Nat] : f = g
          BY <5>2
        <5> QED BY <5>3 DEF g
      <4>2. hjPast' = [hjPast EXCEPT !.released = f, !.taken = t]
        BY <3>1, <4>1
      <4>3. PastType' /\ hjPast'.taken = t /\ hjPast'.claims = hjPast.claims /\ hjPast'.released = f
        BY <1>2, <4>2 DEF PastType
      <4> QED BY <4>0, <4>1, <4>3
    <3>2. (hjPast.taken \/ (/\ makers[m] = [up |-> TRUE, on |-> c]
                            /\ <<c, hjPast.claims[c]>> \in hj.known)) = FALSE
      BY <2>1, Zenon DEF TriageInv
    <3>3. hjPast' = [hjPast EXCEPT !.released[c] = @ + 1, !.taken = FALSE]
      BY <1>5, <3>2, Zenon
    <3> QED BY <3>1, <3>3
  <2>5. CardsType' /\ \A d \in Cards \ {c} : queue'[d] = queue[d]
    BY <1>2, <2>3, Touched
  <2>6. queue'[c].st = "open" /\ queue'[c].by = HJ!None /\ queue'[c].reaps = queue[c].reaps + 1
        /\ queue'[c].asked = queue[c].asked /\ queue'[c].needs = queue[c].needs
        /\ queue'[c].gaveUp = queue[c].gaveUp
    BY <1>2, <2>3, Touched
  <2>7. CardsHold'
    <3>1. CardHolds(c)'
      BY <1>2, <2>2, <2>4, <2>6 DEF TriageInv, CardsHold, CardHolds
    <3>2. \A d \in Cards \ {c} : CardHolds(d)'
      BY <2>4, <2>5 DEF TriageInv, CardsHold, CardHolds
    <3> QED BY <3>1, <3>2 DEF CardsHold
  <2>8. KnownHolds' /\ MoveHolds'
    BY <1>3, <2>4 DEF TriageInv, KnownHolds, MoveHolds
  <2>9. ListHolds'
    <3>1. ASSUME NEW j \in hj'.todo, <<j[1], hjPast.claims[j[1]]>> \in hj.known
          PROVE  queue'[j[1]].by # j[2]
      <4>1. j \in hj.todo /\ j[1] \in Cards /\ j[2] \in Makers /\ queue[j[1]].by # j[2]
        BY <1>2, <1>3, <3>1 DEF TriageInv, ListHolds
      <4> QED BY <2>5, <2>6, <4>1 DEF TriageAssumptions
    <3> QED BY <1>3, <2>4, <3>1 DEF ListHolds
  <2> QED BY <1>2, <1>3, <2>4, <2>5, <2>7, <2>8, <2>9 DEF TriageInv, TriageTypes
<1> QED BY <1>1, <1>4, <1>5 DEF HJ!Unclaim

LEMMA EscalateInv ==
    ASSUME TriageAssumptions, TriageInv, HJ!EscalateLabel
    PROVE  TriageInv'
<1>1. PICK j \in hj.todo :
         /\ hj' = [hj EXCEPT !.todo = @ \ {j}]
         /\ \/ HJ!Touch(j[1], [queue[j[1]] EXCEPT !.needs = @ \cup {"viceroy"}]) /\ hjPast' = hjPast
            \/ hjPast' = HJ!Faulted /\ queue' = queue
  BY DEF HJ!EscalateLabel
<1>2. hj.at = "reap" /\ hj.todo \subseteq Cards \X Makers /\ makers' = makers /\ MakersType' /\ CardsType
  BY DEF HJ!EscalateLabel, TriageInv, TriageTypes, HandsType, MakersType
<1>3. hj'.at = "reap" /\ hj'.known = hj.known /\ hj'.todo \subseteq hj.todo /\ HandsType'
  BY <1>1, <1>2, HandsFacts DEF HandsType
<1>4. CASE hjPast' = HJ!Faulted /\ queue' = queue
  BY <1>2, <1>3, <1>4, HandsFacts, ReapList
<1>5. CASE HJ!Touch(j[1], [queue[j[1]] EXCEPT !.needs = @ \cup {"viceroy"}]) /\ hjPast' = hjPast
  <2>1. PICK c \in Cards : c = j[1]
    BY <1>2
  <2>2. queue[c] \in Card
    BY <1>2 DEF CardsType
  <2>3. PICK n \in SUBSET Needed : n = queue[c].needs \cup {"viceroy"}
    BY <2>2 DEF Card, Needed, HJ!Roles
  <2>4. PICK r \in Card : /\ HJ!Touch(c, r) /\ r.st = queue[c].st /\ r.by = queue[c].by
                          /\ r.reaps = queue[c].reaps /\ r.asked = queue[c].asked
                          /\ r.needs = n /\ r.gaveUp = queue[c].gaveUp
    <3> DEFINE q == [queue[c] EXCEPT !.needs = n]
    <3>1. q \in Card /\ q.st = queue[c].st /\ q.by = queue[c].by /\ q.reaps = queue[c].reaps
          /\ q.asked = queue[c].asked /\ q.needs = n /\ q.gaveUp = queue[c].gaveUp
      BY <2>2 DEF Card
    <3>2. HJ!Touch(c, q)
      BY <1>5, <2>1, <2>3
    <3> HIDE DEF q
    <3> QED BY <3>1, <3>2
  <2>5. Mild(c, r)
    BY <2>3, <2>4 DEF Mild, TriageInv, CardsHold, CardHolds
  <2>6. PastGrows
    BY <1>2, <1>5, PastRests
  <2>7. GentleStep
    BY <2>4, <2>5, <2>6, GentleTouch
  <2> QED BY <1>2, <1>3, <2>7, ReapList
<1> QED BY <1>1, <1>4, <1>5

(* Heijunka's triage loses neither a question nor a live claim, and reaps a    *)
(* card a bounded number of times: NeedsTriager and Reaper of line/heijunka,   *)
(* beside any number of makers and cards, for every set of roles a maker may   *)
(* ask, whatever call fails and whoever dies, settles, claims or answers.      *)
THEOREM TriageIsSafe ==
    ASSUME MaxReaps \in Nat, HJ!None \notin Makers
    PROVE  HJ!Spec => []TriageLosesNothing
<1>0. TriageAssumptions
  BY DEF TriageAssumptions
<1>1. HJ!Init => TriageInv
  <2> SUFFICES ASSUME HJ!Init PROVE TriageInv
    OBVIOUS
  <2>1. CardsType /\ MakersType /\ PastType
    BY DEF HJ!Init, CardsType, Card, MakersType, PastType
  <2>2. hj.at = "rest" /\ hj.known = {} /\ HandsType
    BY DEF HJ!Init, HJ!Rest, HandsType
  <2>3. CardsHold /\ ~hjPast.taken
    BY <1>0 DEF HJ!Init, CardsHold, CardHolds, TriageAssumptions
  <2>4. MoveHolds /\ KnownHolds /\ ListHolds
    BY <2>2 DEF MoveHolds, KnownHolds, ListHolds
  <2> QED BY <2>1, <2>2, <2>3, <2>4 DEF TriageInv, TriageTypes
<1>2. TriageInv /\ [HJ!Next]_(HJ!hjVars) => TriageInv'
  <2> SUFFICES ASSUME TriageInv, [HJ!Next]_(HJ!hjVars) PROVE TriageInv'
    OBVIOUS
  <2>1. CASE HJ!Worker \/ HJ!WorkerDies
    BY <1>0, <2>1, EndsInv, LabelNeedInv, DropNeedInv, ReadStatusInv, ListClaimedInv, RereadInv,
       UnclaimInv, EscalateInv DEF HJ!Worker
  <2>2. CASE HJ!ServeRestart \/ HJ!Cord
    BY <1>0, <2>2, QuietGentle, AroundInv
  <2>3. ASSUME NEW m \in Makers,
               \/ HJ!MakerBeat(m) \/ HJ!MakerPoll(m) \/ HJ!MakerSettle(m) \/ HJ!MakerDies(m)
               \/ HJ!MakerReturns(m) \/ HJ!Silence(m)
               \/ \E c \in Cards : HJ!MakerClaim(m, c)
               \/ \E role \in Needable : HJ!RaiseNeed(m, role)
        PROVE  TriageInv'
    <3>1. GentleStep
      BY <1>0, <2>3, QuietGentle, PollGentle, SettleGentle, ClaimGentle, NeedGentle
    <3>2. hj' = hj
      BY <2>3 DEF HJ!MakerBeat, HJ!MakerPoll, HJ!MakerSettle, HJ!MakerDies, HJ!MakerReturns, HJ!Silence,
                  HJ!MakerClaim, HJ!RaiseNeed
    <3> QED BY <1>0, <3>1, <3>2, AroundInv
  <2>4. ASSUME NEW c \in Cards, HJ!Answer(c) \/ HJ!NeedAges(c) \/ HJ!QueueAges(c)
        PROVE  TriageInv'
    <3>1. GentleStep
      BY <1>0, <2>4, AnswerGentle, AgesGentle
    <3>2. hj' = hj
      BY <2>4 DEF HJ!Answer, HJ!NeedAges, HJ!QueueAges
    <3> QED BY <1>0, <3>1, <3>2, AroundInv
  <2>5. CASE UNCHANGED HJ!hjVars
    <3>1. UNCHANGED <<queue, makers, hj, hjPast>>
      BY <2>5 DEF HJ!hjVars
    <3>2. GentleStep
      BY <3>1, HandsFacts
    <3> QED BY <1>0, <3>1, <3>2, AroundInv
  <2> QED BY <2>1, <2>2, <2>3, <2>4, <2>5 DEF HJ!Next
<1>3. TriageInv => TriageLosesNothing
  BY DEF TriageInv, CardsHold, CardHolds, TriageLosesNothing, HJ!TriageLosesNothing, HJ!NeedNotLost, HJ!ReapsBounded,
         HJ!LiveClaimKept
<1> QED BY <1>1, <1>2, <1>3, PTL DEF HJ!Spec

------------------------------------------------------------------------------
(* The checks of an attestation. The state.                                   *)

Verdicts == {"skipped", "passed", "failed"}
InBox == {"run", "evidence", "classify", "remove"}
AttType ==
    att \in [at : InBox \cup {"idle", "next", "judge", "sign", "infra", "publish"}, docs : BOOLEAN, check : Nat \ {0},
             cut : {"no", "timeout", "cancelled"}, code : Nat \cup {CR!BySignal}, failed : BOOLEAN,
             results : Seq(Verdicts), ended : Seq(Verdicts \cup {"lost"}), died : BOOLEAN]
BoxType == box \in [state : {"none", "running", "unstarted", "exited", "oom", "killed"}, code : Nat]
CrPastType == crPast \in [runs : Nat, faults : Nat, left : Nat, unremoved : Nat]
ChecksTypes == AttType /\ BoxType /\ CrPastType

(* How a check that ended by itself ended.                                    *)
Meaning(code) == IF code = 0 THEN "passed" ELSE "failed"

(* The results so far are how the checks ended, the check in progress apart,  *)
(* and a failure that the death of a CLI made.                                *)
ResultsHold ==
    /\ att.at \in {"next", "run"} => ~att.died
    /\ att.at = "next" => att.results = att.ended
    /\ att.at \in {"next", "sign"} => Len(att.results) = att.check - 1 /\ Len(att.ended) = att.check - 1
    /\ att.at = "sign" =>
        \A i \in 1..Len(att.results) : att.results[i] = att.ended[i] \/ (att.died /\ att.results[i] = "failed")
    /\ att.at = "sign" => att.check > 1 /\ att.results[att.check - 1] = "failed"
    /\ att.at \in InBox \cup {"judge"} =>
        /\ Len(att.ended) = att.check /\ Len(att.results) = att.check - 1
        /\ \A i \in 1..Len(att.results) : att.ended[i] = att.results[i]

(* What is known of a container's end at each step after it: a code that was  *)
(* not refused by then is the check's own.                                    *)
BoxHolds ==
    /\ IF att.at \in InBox THEN box.state # "none" ELSE box = CR!NoBox
    /\ att.at \in InBox /\ box.state \in {"exited", "oom"} => att.ended[att.check] = Meaning(box.code)
    /\ box.state = "unstarted" => box.code = 125
    /\ box.state = "killed" => box.code = 137
    /\ att.died /\ att.at \in InBox \cup {"judge"} => att.code = CR!BySignal
    /\ att.at \in {"evidence", "classify"} /\ ~att.died => att.code = box.code /\ box.state \notin {"none", "running"}
    /\ att.at = "remove" /\ ~att.failed /\ ~att.died => att.code = box.code /\ box.state \in {"exited", "oom"}
    /\ att.at = "judge" /\ ~att.failed /\ ~att.died => att.ended[att.check] = Meaning(att.code)

(* Nothing of the run in progress is told before it is decided.               *)
RowsHold ==
    /\ \A s \in signed : s.run \in Nat /\ s.run <= crPast.runs
    /\ \A r \in rows : r.run \in Nat /\ r.run <= crPast.runs
    /\ att.at # "idle" => \A r \in rows : r.run < crPast.runs
    /\ att.at \notin {"idle", "publish"} => \A s \in signed : s.run < crPast.runs
    /\ att.at = "publish" => \E s \in signed : s.run = crPast.runs /\ s.results = att.results

ChecksInv == ChecksTypes /\ ResultsHold /\ BoxHolds /\ RowsHold /\ CR!RecordsAreTrue /\ CR!NoneOutlives

ChecksAssumption == Skippable \in Seq(BOOLEAN)

(* Recording a result and an end, the seen end of a check in progress.        *)
LEMMA Longer ==
    ASSUME NEW S, NEW q \in Seq(S), NEW e \in S
    PROVE  /\ Append(q, e) \in Seq(S) /\ Len(Append(q, e)) = Len(q) + 1
           /\ \A i \in 1..Len(q) : Append(q, e)[i] = q[i]
           /\ Append(q, e)[Len(q) + 1] = e
BY AppendProperties

LEMMA SameLonger ==
    ASSUME NEW q \in Seq(Verdicts), NEW e \in Verdicts, NEW p \in Seq(Verdicts \cup {"lost"}), q = p
    PROVE  Append(q, e) = Append(p, e)
OBVIOUS

(* A step that tells nobody anything.                                         *)
LEMMA TellsNothing ==
    ASSUME ChecksInv, UNCHANGED <<signed, rows>>, crPast' \in [runs : Nat, faults : Nat, left : Nat, unremoved : Nat],
           crPast'.runs = crPast.runs, att.at \notin {"idle", "publish"}, att'.at # "publish"
    PROVE  RowsHold' /\ CR!RecordsAreTrue' /\ CrPastType'
<1>1. CR!RecordsAreTrue'
  BY DEF ChecksInv, CR!RecordsAreTrue, CR!SignedIsEarned, CR!RowsTellWhatWasSigned
<1>2. RowsHold'
  BY DEF ChecksInv, RowsHold
<1> QED BY <1>1, <1>2 DEF CrPastType

LEMMA FaultFacts ==
    ASSUME CrPastType
    PROVE  /\ CR!Faulted \in [runs : Nat, faults : Nat, left : Nat, unremoved : Nat]
           /\ CR!Faulted.runs = crPast.runs /\ CR!Faulted.left = crPast.left /\ CR!Faulted.unremoved = crPast.unremoved
BY DEF CrPastType, CR!Faulted

LEMMA PrepareInv == ASSUME ChecksInv, CR!Prepare PROVE ChecksInv'
<1> USE DEF ChecksInv, ChecksTypes
<1>1. PICK docs \in BOOLEAN : att' = CR!Attestation(docs)
  BY DEF CR!Prepare
<1>2. crPast' \in [runs : Nat, faults : Nat, left : Nat, unremoved : Nat] /\ crPast'.runs = crPast.runs + 1
      /\ crPast'.left = crPast.left /\ crPast'.unremoved = crPast.unremoved
  BY DEF CR!Prepare, CrPastType
<1>3. UNCHANGED <<box, signed, rows>> /\ att.at = "idle"
  BY DEF CR!Prepare
<1>4. /\ att'.at = "next" /\ att'.docs = docs /\ att'.check = 1 /\ att'.cut = "no" /\ att'.code = 0
      /\ att'.failed = FALSE /\ att'.results = <<>> /\ att'.ended = <<>> /\ att'.died = FALSE
  BY <1>1 DEF CR!Attestation
<1>5. AttType'
  BY <1>1 DEF AttType, CR!Attestation, InBox
<1>6. BoxType' /\ BoxHolds'
  BY <1>3, <1>4 DEF BoxType, BoxHolds, InBox
<1>7. ResultsHold'
  BY <1>4 DEF ResultsHold, InBox
<1>8. CR!RecordsAreTrue'
  BY <1>3 DEF CR!RecordsAreTrue, CR!SignedIsEarned, CR!RowsTellWhatWasSigned
<1>9. RowsHold'
  BY <1>2, <1>3, <1>4 DEF RowsHold, CrPastType
<1>10. CR!NoneOutlives'
  BY <1>2 DEF CR!NoneOutlives
<1> QED BY <1>2, <1>5, <1>6, <1>7, <1>8, <1>9, <1>10 DEF CrPastType

LEMMA NextInv == ASSUME ChecksInv, ChecksAssumption, CR!NextCheck PROVE ChecksInv'
<1> USE DEF ChecksInv, ChecksTypes
<1>0. att.at = "next" /\ att.check \in CR!Checks /\ UNCHANGED <<signed, rows>>
  BY DEF CR!NextCheck
<1>1. att.results = att.ended /\ Len(att.results) = att.check - 1 /\ box = CR!NoBox /\ ~att.died
  BY <1>0 DEF ResultsHold, BoxHolds, InBox
<1>2. crPast' = crPast \/ crPast' = CR!Faulted
  BY DEF CR!NextCheck
<1>3. CrPastType' /\ RowsHold' /\ CR!RecordsAreTrue' /\ CR!NoneOutlives'
  <2>1. att'.at # "publish"
    <3>1. att'.at = "next" \/ att'.at = "run"
      BY <1>0 DEF CR!NextCheck, AttType
    <3> QED BY <3>1
  <2>2. crPast' \in [runs : Nat, faults : Nat, left : Nat, unremoved : Nat] /\ crPast'.runs = crPast.runs
        /\ crPast'.left = crPast.left /\ crPast'.unremoved = crPast.unremoved
    BY <1>2, FaultFacts DEF CrPastType
  <2>3. RowsHold' /\ CR!RecordsAreTrue' /\ CrPastType'
    BY <1>0, <2>1, <2>2, TellsNothing
  <2> QED BY <2>2, <2>3 DEF CR!NoneOutlives
<1>4. AttType' /\ BoxType' /\ ResultsHold' /\ BoxHolds'
  <2>1. CASE att.docs /\ Skippable[att.check]
    <3> DEFINE q == Append(att.results, "skipped")
               p == Append(att.ended, "skipped")
               k == att.check + 1
    <3>1. q \in Seq(Verdicts) /\ p \in Seq(Verdicts \cup {"lost"}) /\ q = p /\ Len(q) = att.check
      <4>1. att.results \in Seq(Verdicts) /\ att.ended \in Seq(Verdicts \cup {"lost"}) /\ "skipped" \in Verdicts
        BY DEF AttType, Verdicts
      <4>2. q \in Seq(Verdicts) /\ Len(q) = Len(att.results) + 1
        BY <4>1, Longer
      <4>3. p \in Seq(Verdicts \cup {"lost"})
        BY <4>1, Longer
      <4> QED BY <1>1, <4>2, <4>3 DEF AttType
    <3>2. k \in Nat \ {0} /\ k = att.check + 1
      BY DEF AttType
    <3>3. att' = [att EXCEPT !.check = k, !.results = q, !.ended = p] /\ UNCHANGED box
      BY <2>1 DEF CR!NextCheck
    <3> HIDE DEF q, p, k
    <3>4. AttType' /\ att'.at = att.at /\ att'.check = k /\ att'.results = q /\ att'.ended = p /\ att'.died = att.died
      BY <3>1, <3>2, <3>3 DEF AttType
    <3>5. ResultsHold'
      BY <1>0, <1>1, <3>1, <3>2, <3>4 DEF ResultsHold, InBox, AttType
    <3>6. BoxType' /\ BoxHolds'
      BY <1>0, <1>1, <3>3, <3>4 DEF BoxType, BoxHolds, InBox, CR!NoBox
    <3> QED BY <3>4, <3>5, <3>6
  <2>2. CASE ~(att.docs /\ Skippable[att.check])
    <3> DEFINE p == Append(att.ended, "lost")
    <3>1. /\ p \in Seq(Verdicts \cup {"lost"}) /\ Len(p) = Len(att.ended) + 1
          /\ \A i \in 1..Len(att.ended) : p[i] = att.ended[i]
      <4>1. att.ended \in Seq(Verdicts \cup {"lost"}) /\ "lost" \in Verdicts \cup {"lost"}
        BY DEF AttType
      <4> QED BY <4>1, Longer
    <3>2. att' = [att EXCEPT !.at = "run", !.ended = p]
      BY <2>2 DEF CR!NextCheck
    <3>3. box' = [state |-> "running", code |-> 0] \/ box' = [state |-> "unstarted", code |-> 125]
      BY <2>2 DEF CR!NextCheck, CR!NoBox
    <3> HIDE DEF p
    <3>4. AttType' /\ att'.at = "run" /\ att'.check = att.check /\ att'.results = att.results /\ att'.ended = p
          /\ att'.died = att.died
      BY <3>1, <3>2 DEF AttType, InBox
    <3>5. ResultsHold'
      <4>1. Len(p) = att.check /\ \A i \in 1..Len(att.results) : p[i] = att.results[i]
        BY <1>1, <3>1 DEF AttType
      <4> QED BY <1>1, <3>4, <4>1 DEF ResultsHold, InBox
    <3>6. BoxType' /\ BoxHolds'
      BY <1>1, <3>3, <3>4 DEF BoxType, BoxHolds, InBox
    <3> QED BY <3>4, <3>5, <3>6
  <2> QED BY <2>1, <2>2
<1> QED BY <1>3, <1>4


(* The steps that say nothing to anybody and lose no container.               *)
Silently ==
    /\ UNCHANGED <<signed, rows>> /\ (crPast' = crPast \/ crPast' = CR!Faulted)
    /\ att.at \notin {"idle", "publish"} /\ att'.at # "publish"

LEMMA SilentInv ==
    ASSUME ChecksInv, Silently, AttType', BoxType', ResultsHold', BoxHolds'
    PROVE  ChecksInv'
<1>1. crPast' \in [runs : Nat, faults : Nat, left : Nat, unremoved : Nat] /\ crPast'.runs = crPast.runs
      /\ crPast'.left = crPast.left /\ crPast'.unremoved = crPast.unremoved
  BY FaultFacts DEF ChecksInv, ChecksTypes, CrPastType, Silently
<1>2. RowsHold' /\ CR!RecordsAreTrue' /\ CrPastType'
  BY <1>1, TellsNothing DEF Silently
<1> QED BY <1>1, <1>2 DEF ChecksInv, ChecksTypes, CR!NoneOutlives

LEMMA EndsOfBoxInv == ASSUME ChecksInv, CR!BoxEnds \/ CR!BoxKilled PROVE ChecksInv'
<1> USE DEF ChecksInv, ChecksTypes
<1>1. att.at \in InBox /\ box.state = "running" /\ UNCHANGED <<signed, rows>>
  BY DEF CR!BoxEnds, CR!BoxKilled, BoxHolds, CR!NoBox
<1>2. CASE CR!BoxKilled
  <2>1. att' = att /\ crPast' = CR!Faulted /\ box' = [state |-> "killed", code |-> 137]
    BY <1>2 DEF CR!BoxKilled
  <2>2. AttType' /\ BoxType' /\ ResultsHold'
    BY <2>1 DEF AttType, BoxType, ResultsHold
  <2>3. BoxHolds'
    BY <1>1, <2>1 DEF BoxHolds, InBox
  <2>4. Silently
    BY <1>1, <2>1 DEF Silently, InBox
  <2> QED BY <2>2, <2>3, <2>4, SilentInv
<1>3. CASE CR!BoxEnds
  <2>1. PICK end \in {[state |-> "exited", code |-> 0], [state |-> "exited", code |-> 1],
                      [state |-> "exited", code |-> 137], [state |-> "oom", code |-> 137]} :
            box' = end /\ att' = [att EXCEPT !.ended[att.check] = Meaning(end.code)]
    BY <1>3 DEF CR!BoxEnds, Meaning
  <2>2. end.code \in Nat /\ end.state \in {"exited", "oom"} /\ Meaning(end.code) \in Verdicts \cup {"lost"}
    BY DEF Meaning, Verdicts
  <2> DEFINE v == Meaning(end.code)
             p == [att.ended EXCEPT ![att.check] = v]
  <2>3. /\ p \in Seq(Verdicts \cup {"lost"}) /\ Len(p) = Len(att.ended)
        /\ \A i \in 1..Len(att.ended) : p[i] = IF i = att.check THEN v ELSE att.ended[i]
    <3>1. att.ended \in Seq(Verdicts \cup {"lost"}) /\ att.check \in 1..Len(att.ended) /\ v \in Verdicts \cup {"lost"}
      BY <1>1, <2>2 DEF AttType, ResultsHold
    <3> HIDE DEF v
    <3> QED BY <3>1, ExceptSeq
  <2>4. att' = [att EXCEPT !.ended = p]
    BY <2>1
  <2> HIDE DEF p
  <2>5. AttType' /\ att'.at = att.at /\ att'.check = att.check /\ att'.results = att.results /\ att'.ended = p
        /\ att'.failed = att.failed /\ att'.code = att.code /\ att'.died = att.died
    BY <2>3, <2>4 DEF AttType
  <2>6. ResultsHold'
    <3>1. Len(att.ended) = att.check /\ Len(att.results) = att.check - 1
          /\ \A i \in 1..Len(att.results) : att.ended[i] = att.results[i]
      BY <1>1 DEF ResultsHold
    <3>2. \A i \in 1..Len(att.results) : i \in 1..Len(att.ended) /\ i # att.check
      BY <3>1 DEF AttType
    <3>3. \A i \in 1..Len(att.results) : p[i] = att.results[i]
      BY <2>3, <3>1, <3>2
    <3>4. att.at = "run" => ~att.died
      BY DEF ResultsHold
    <3> QED BY <1>1, <2>3, <2>5, <3>1, <3>3, <3>4 DEF ResultsHold, InBox
  <2>7. BoxType' /\ BoxHolds'
    <3>1. p[att.check] = Meaning(end.code)
      BY <1>1, <2>3 DEF ResultsHold, AttType
    <3> HIDE DEF v
    <3>2. BoxType'
      BY <2>1, <2>2 DEF BoxType
    <3>3. BoxHolds'
      BY <1>1, <2>1, <2>2, <2>5, <3>1 DEF BoxHolds, InBox
    <3> QED BY <3>2, <3>3
  <2>8. Silently
    BY <1>1, <1>3, <2>5 DEF Silently, InBox, CR!BoxEnds
  <2> QED BY <2>5, <2>6, <2>7, <2>8, SilentInv
<1> QED BY <1>2, <1>3

LEMMA CutInv == ASSUME ChecksInv, CR!Cut PROVE ChecksInv'
<1> USE DEF ChecksInv, ChecksTypes
<1>1. PICK cut \in {"timeout", "cancelled"} : att' = [att EXCEPT !.cut = cut]
  BY DEF CR!Cut
<1>2. AttType' /\ att'.at = att.at /\ att'.check = att.check /\ att'.results = att.results /\ att'.ended = att.ended
      /\ att'.failed = att.failed /\ att'.code = att.code /\ att'.died = att.died
  BY <1>1 DEF AttType
<1>3. att.at \in InBox \cup {"judge"} /\ UNCHANGED <<box, signed, rows, crPast>>
  BY DEF CR!Cut, InBox
<1>4. ResultsHold' /\ BoxType' /\ BoxHolds'
  BY <1>2, <1>3 DEF ResultsHold, BoxType, BoxHolds
<1>5. Silently
  BY <1>2, <1>3 DEF Silently, InBox
<1> QED BY <1>2, <1>4, <1>5, SilentInv

(* A step of the runner onward, with or without an error.                     *)
LEMMA OnwardFacts ==
    ASSUME AttType, NEW step \in InBox \cup {"idle", "next", "judge", "sign", "infra", "publish"},
           CR!Goto(step) \/ CR!Erred(step)
    PROVE  /\ AttType' /\ att'.at = step /\ att'.check = att.check /\ att'.results = att.results
           /\ att'.ended = att.ended /\ att'.code = att.code /\ att'.died = att.died
           /\ CR!Erred(step) => att'.failed
           /\ CR!Goto(step) => att'.failed = att.failed
<1>1. CR!Erred(step) => att'.failed
  BY DEF AttType, CR!Erred
<1>2. CR!Goto(step) => att'.failed = att.failed
  BY DEF AttType, CR!Goto
<1>3. /\ AttType' /\ att'.at = step /\ att'.check = att.check /\ att'.results = att.results
      /\ att'.ended = att.ended /\ att'.code = att.code /\ att'.died = att.died
  <2>1. CASE CR!Goto(step)
    BY <2>1 DEF AttType, CR!Goto
  <2>2. CASE CR!Erred(step)
    BY <2>2 DEF AttType, CR!Erred
  <2> QED BY <2>1, <2>2
<1> QED BY <1>1, <1>2, <1>3

LEMMA ReturnInv == ASSUME ChecksInv, CR!CLIReturns PROVE ChecksInv'
<1> USE DEF ChecksInv, ChecksTypes
<1>1. att.at = "run" /\ ~att.died /\ UNCHANGED <<box, signed, rows, crPast>>
  BY DEF CR!CLIReturns, ResultsHold
<1>2. CASE CR!Erred("remove")
  <2>1. AttType' /\ att'.at = "remove" /\ att'.check = att.check /\ att'.results = att.results
        /\ att'.ended = att.ended /\ att'.failed /\ ~att'.died
    BY <1>1, <1>2, OnwardFacts DEF InBox
  <2>2. ResultsHold' /\ BoxType' /\ BoxHolds' /\ Silently
    BY <1>1, <2>1 DEF ResultsHold, BoxType, BoxHolds, Silently, InBox
  <2> QED BY <2>1, <2>2, SilentInv
<1>3. CASE att' = [att EXCEPT !.at = "evidence", !.code = box.code] /\ box.state # "running"
  <2>0. box.code \in Nat /\ box.state # "none"
    BY <1>1 DEF BoxType, BoxHolds, InBox
  <2>1. AttType' /\ att'.at = "evidence" /\ att'.check = att.check /\ att'.results = att.results
        /\ att'.ended = att.ended /\ att'.code = box.code /\ ~att'.died
    BY <1>1, <1>3, <2>0 DEF AttType, InBox
  <2>2. ResultsHold' /\ BoxType' /\ BoxHolds' /\ Silently
    BY <1>1, <1>3, <2>0, <2>1 DEF ResultsHold, BoxType, BoxHolds, Silently, InBox
  <2> QED BY <2>1, <2>2, SilentInv
<1> QED BY <1>2, <1>3 DEF CR!CLIReturns

(* A CLI that is killed leaves a code that is no engine's: the run goes on to *)
(* a failure.                                                                 *)
LEMMA DiesInv == ASSUME ChecksInv, CR!CLIDies PROVE ChecksInv'
<1> USE DEF ChecksInv, ChecksTypes
<1>1. att.at = "run" /\ UNCHANGED <<box, signed, rows>> /\ crPast' = CR!Faulted
      /\ att' = [att EXCEPT !.at = "evidence", !.code = CR!BySignal, !.died = TRUE]
  BY DEF CR!CLIDies
<1>2. AttType' /\ att'.at = "evidence" /\ att'.check = att.check /\ att'.results = att.results
      /\ att'.ended = att.ended /\ att'.code = CR!BySignal /\ att'.died
  BY <1>1 DEF AttType, InBox
<1>3. ResultsHold' /\ BoxType' /\ BoxHolds' /\ Silently
  BY <1>1, <1>2 DEF ResultsHold, BoxType, BoxHolds, Silently, InBox
<1> QED BY <1>2, <1>3, SilentInv

LEMMA EvidenceInv == ASSUME ChecksInv, CR!KeepEvidence PROVE ChecksInv'
<1> USE DEF ChecksInv, ChecksTypes
<1>1. att.at = "evidence" /\ UNCHANGED <<box, signed, rows>> /\ (crPast' = crPast \/ crPast' = CR!Faulted)
  BY DEF CR!KeepEvidence
<1>2. CASE CR!Goto("classify")
  <2>1. AttType' /\ att'.at = "classify" /\ att'.check = att.check /\ att'.results = att.results
        /\ att'.ended = att.ended /\ att'.code = att.code /\ att'.died = att.died
    BY <1>2, OnwardFacts DEF InBox
  <2>2. ResultsHold' /\ BoxType' /\ BoxHolds' /\ Silently
    BY <1>1, <2>1 DEF ResultsHold, BoxType, BoxHolds, Silently, InBox
  <2> QED BY <2>1, <2>2, SilentInv
<1>3. CASE CR!Erred("remove")
  <2>1. AttType' /\ att'.at = "remove" /\ att'.check = att.check /\ att'.results = att.results
        /\ att'.ended = att.ended /\ att'.code = att.code /\ att'.died = att.died /\ att'.failed
    BY <1>3, OnwardFacts DEF InBox
  <2>2. ResultsHold' /\ BoxType' /\ BoxHolds' /\ Silently
    BY <1>1, <2>1 DEF ResultsHold, BoxType, BoxHolds, Silently, InBox
  <2> QED BY <2>1, <2>2, SilentInv
<1> QED BY <1>2, <1>3 DEF CR!KeepEvidence

(* A code that passes classify is the check's own, or the mark of a CLI that  *)
(* was killed: 125 is the engine's, and 137 is the check's only by its memory *)
(* limit.                                                                     *)
LEMMA ClassifyInv == ASSUME ChecksInv, CR!Classify PROVE ChecksInv'
<1> USE DEF ChecksInv, ChecksTypes
<1>1. att.at = "classify" /\ UNCHANGED <<box, signed, rows>> /\ (crPast' = crPast \/ crPast' = CR!Faulted)
  BY DEF CR!Classify
<1>2. CASE CR!Goto("remove") /\ ~(att.code = 125 \/ (att.code = 137 /\ box.state # "oom"))
  <2>1. AttType' /\ att'.at = "remove" /\ att'.check = att.check /\ att'.results = att.results
        /\ att'.ended = att.ended /\ att'.code = att.code /\ att'.died = att.died
    BY <1>2, OnwardFacts DEF InBox
  <2>2. ~att.died => box.state \in {"exited", "oom"} /\ att.code = box.code
    BY <1>1, <1>2 DEF BoxType, BoxHolds
  <2>3. ResultsHold' /\ BoxType' /\ BoxHolds' /\ Silently
    BY <1>1, <2>1, <2>2 DEF ResultsHold, BoxType, BoxHolds, Silently, InBox
  <2> QED BY <2>1, <2>3, SilentInv
<1>3. CASE CR!Erred("remove")
  <2>1. AttType' /\ att'.at = "remove" /\ att'.check = att.check /\ att'.results = att.results
        /\ att'.ended = att.ended /\ att'.code = att.code /\ att'.died = att.died /\ att'.failed
    BY <1>3, OnwardFacts DEF InBox
  <2>2. ResultsHold' /\ BoxType' /\ BoxHolds' /\ Silently
    BY <1>1, <2>1 DEF ResultsHold, BoxType, BoxHolds, Silently, InBox
  <2> QED BY <2>1, <2>2, SilentInv
<1> QED BY <1>2, <1>3 DEF CR!Classify

(* The containers that are left are among those nobody removed.               *)
LEMMA RemoveInv == ASSUME ChecksInv, CR!Remove PROVE ChecksInv'
<1> USE DEF ChecksInv, ChecksTypes
<1>1. att.at = "remove" /\ CR!Goto("judge") /\ box' = CR!NoBox /\ UNCHANGED <<signed, rows>>
  BY DEF CR!Remove
<1>2. AttType' /\ att'.at = "judge" /\ att'.check = att.check /\ att'.results = att.results
      /\ att'.ended = att.ended /\ att'.code = att.code /\ att'.failed = att.failed /\ att'.died = att.died
  BY <1>1, OnwardFacts
<1>3. ResultsHold' /\ BoxType' /\ BoxHolds'
  BY <1>1, <1>2 DEF ResultsHold, BoxType, BoxHolds, InBox, CR!NoBox
<1>4. /\ crPast' \in [runs : Nat, faults : Nat, left : Nat, unremoved : Nat] /\ crPast'.runs = crPast.runs
      /\ CR!NoneOutlives'
  <2>1. CASE UNCHANGED crPast
    BY <2>1 DEF CrPastType, CR!NoneOutlives
  <2>2. CASE ~UNCHANGED crPast
    <3> DEFINE n == IF box.state = "running" THEN crPast.left + 1 ELSE crPast.left
               f == crPast.faults + 1
               u == crPast.unremoved + 1
    <3>1. crPast' = [crPast EXCEPT !.faults = f, !.unremoved = u, !.left = n]
      BY <2>2 DEF CR!Remove
    <3>2. n \in Nat /\ f \in Nat /\ u \in Nat /\ n <= u
      BY DEF CrPastType, CR!NoneOutlives
    <3> HIDE DEF n, f, u
    <3> QED BY <3>1, <3>2 DEF CrPastType, CR!NoneOutlives
  <2> QED BY <2>1, <2>2
<1>5. RowsHold' /\ CR!RecordsAreTrue' /\ CrPastType'
  BY <1>1, <1>2, <1>4, TellsNothing
<1> QED BY <1>2, <1>3, <1>4, <1>5

LEMMA JudgeInv == ASSUME ChecksInv, CR!Judge PROVE ChecksInv'
<1> USE DEF ChecksInv, ChecksTypes
<1>1. att.at = "judge" /\ UNCHANGED <<box, signed, rows, crPast>>
  BY DEF CR!Judge
<1>2. CASE CR!Goto("infra")
  <2>1. AttType' /\ att'.at = "infra"
    BY <1>2, OnwardFacts
  <2>2. ResultsHold' /\ BoxType' /\ BoxHolds' /\ Silently
    BY <1>1, <2>1 DEF ResultsHold, BoxType, BoxHolds, Silently, InBox
  <2> QED BY <2>1, <2>2, SilentInv
<1>3. CASE ~att.failed /\ att' = [att EXCEPT !.at = IF att.code = 0 THEN "next" ELSE "sign", !.check = @ + 1,
                                             !.results = Append(@, Meaning(att.code))]
  <2> DEFINE v == Meaning(att.code)
             q == Append(att.results, v)
             k == att.check + 1
             p == IF att.code = 0 THEN "next" ELSE "sign"
  <2>1. /\ v \in Verdicts /\ (p = "sign" => v = "failed") /\ p \in {"next", "sign"}
        /\ v = att.ended[att.check] \/ (att.died /\ v = "failed")
        /\ p = "next" => ~att.died
    BY <1>1, <1>3 DEF Meaning, Verdicts, BoxHolds, CR!BySignal
  <2>2. k \in Nat \ {0} /\ k > 1 /\ k - 1 = att.check
    BY DEF AttType
  <2>3. att' = [att EXCEPT !.at = p, !.check = k, !.results = q]
    BY <1>3
  <2> HIDE DEF v, k, p
  <2>4. /\ q \in Seq(Verdicts) /\ Len(q) = att.check /\ q[att.check] = v
        /\ \A i \in 1..Len(att.results) : q[i] = att.results[i]
    <3>1. att.results \in Seq(Verdicts) /\ Len(att.results) = att.check - 1
      BY <1>1 DEF AttType, ResultsHold
    <3>2. q \in Seq(Verdicts) /\ Len(q) = Len(att.results) + 1 /\ q[Len(att.results) + 1] = v
          /\ \A i \in 1..Len(att.results) : q[i] = att.results[i]
      BY <2>1, <3>1, Longer
    <3> QED BY <3>1, <3>2 DEF AttType
  <2>5. /\ Len(att.ended) = Len(q) /\ (p = "next" => q = att.ended)
        /\ \A i \in 1..Len(q) : q[i] = att.ended[i] \/ (att.died /\ q[i] = "failed")
    <3>1. q \in Seq(Verdicts \cup {"lost"}) /\ att.ended \in Seq(Verdicts \cup {"lost"})
      BY <2>4 DEF AttType
    <3>2. Len(att.ended) = att.check /\ Len(att.results) = att.check - 1
          /\ \A i \in 1..Len(att.results) : att.ended[i] = att.results[i]
      BY <1>1 DEF ResultsHold
    <3>3. \A i \in 1..Len(q) : q[i] = att.ended[i] \/ (att.died /\ q[i] = "failed")
      <4>1. ASSUME NEW i \in 1..Len(q) PROVE q[i] = att.ended[i] \/ (att.died /\ q[i] = "failed")
        <5>1. CASE i = att.check
          BY <2>1, <2>4, <5>1
        <5>2. CASE i # att.check
          <6>1. i \in 1..Len(att.results)
            BY <2>4, <3>2, <5>2 DEF AttType
          <6> QED BY <2>4, <3>2, <6>1
        <5> QED BY <5>1, <5>2
      <4> QED BY <4>1
    <3>4. ASSUME p = "next" PROVE q = att.ended
      <4>1. \A i \in 1..Len(q) : q[i] = att.ended[i]
        BY <2>1, <3>3, <3>4
      <4> QED BY <2>4, <3>1, <3>2, <4>1, SeqEqual
    <3> QED BY <2>4, <3>2, <3>3, <3>4
  <2> HIDE DEF q
  <2>6. AttType' /\ att'.at = p /\ att'.check = k /\ att'.results = q /\ att'.ended = att.ended /\ att'.died = att.died
    BY <2>1, <2>2, <2>3, <2>4 DEF AttType
  <2>7. ResultsHold'
    <3>1. /\ att'.at \in {"next", "sign"} /\ att'.check - 1 = att.check
          /\ Len(att'.results) = att.check /\ Len(att'.ended) = att.check
      BY <2>1, <2>2, <2>4, <2>5, <2>6
    <3>2. att'.at = "next" => ~att'.died /\ att'.results = att'.ended
      BY <2>1, <2>5, <2>6
    <3>3. \A i \in 1..Len(att'.results) : att'.results[i] = att'.ended[i] \/ (att'.died /\ att'.results[i] = "failed")
      BY <2>5, <2>6
    <3>4. /\ att'.at \notin InBox \cup {"judge"} /\ att'.at # "run"
          /\ Len(att'.results) = att'.check - 1 /\ Len(att'.ended) = att'.check - 1
      BY <3>1 DEF InBox
    <3>5. att'.at = "sign" => att'.check > 1 /\ att'.results[att'.check - 1] = "failed"
      BY <2>1, <2>2, <2>4, <2>6
    <3> QED BY <3>2, <3>3, <3>4, <3>5 DEF ResultsHold
  <2>8. BoxType' /\ BoxHolds' /\ Silently
    BY <1>1, <2>1, <2>6 DEF BoxType, BoxHolds, Silently, InBox
  <2> QED BY <2>6, <2>7, <2>8, SilentInv
<1> QED BY <1>2, <1>3 DEF CR!Judge, Meaning


(* What is signed: all the checks of a commit, or those up to one that failed.*)
LEMMA SignInv == ASSUME ChecksInv, ChecksAssumption, CR!Sign PROVE ChecksInv'
<1> USE DEF ChecksInv, ChecksTypes
<1>1. att.at \in {"next", "sign"} /\ CR!Goto("publish") /\ UNCHANGED <<box, rows, crPast>>
  BY DEF CR!Sign
<1> DEFINE new == [run |-> crPast.runs, docs |-> att.docs, results |-> att.results, ended |-> att.ended,
                  died |-> att.died]
<1>2. signed' = signed \cup {new}
  BY DEF CR!Sign
<1>3. new.run = crPast.runs /\ new.results = att.results /\ new.ended = att.ended /\ new.died = att.died
  OBVIOUS
<1> HIDE DEF new
<1>4. AttType' /\ att'.at = "publish" /\ att'.results = att.results
  BY <1>1, OnwardFacts
<1>5. ResultsHold' /\ BoxType' /\ BoxHolds'
  BY <1>1, <1>4 DEF ResultsHold, BoxType, BoxHolds, InBox
<1>6. /\ \A i \in DOMAIN new.results : new.results[i] = new.ended[i] \/ (new.died /\ new.results[i] = "failed")
      /\ Len(new.results) < Len(Skippable) => new.results[Len(new.results)] = "failed"
  <2>1. /\ Len(att.results) = att.check - 1 /\ att.check \in Nat \ {0} /\ DOMAIN att.results = 1..Len(att.results)
        /\ \A i \in 1..Len(att.results) : att.results[i] = att.ended[i] \/ (att.died /\ att.results[i] = "failed")
    BY <1>1 DEF ResultsHold, AttType
  <2>2. CASE att.at = "sign"
    BY <1>3, <2>1, <2>2 DEF ResultsHold
  <2>3. CASE att.at = "next"
    <3>1. att.check \notin 1..Len(Skippable) /\ Len(Skippable) \in Nat
      BY <2>3 DEF CR!Sign, CR!Checks, ChecksAssumption
    <3> QED BY <1>3, <2>1, <3>1
  <2> QED BY <1>1, <2>2, <2>3
<1>7. CR!SignedIsEarned'
  BY <1>2, <1>6 DEF CR!RecordsAreTrue, CR!SignedIsEarned
<1>8. \A r \in rows : r.run # new.run
  BY <1>1, <1>3 DEF RowsHold, CrPastType
<1>9. CR!RowsTellWhatWasSigned'
  <2>1. ASSUME NEW r \in rows
        PROVE  {s \in signed' : s.run = r.run} = {s \in signed : s.run = r.run}
    BY <1>2, <1>8
  <2>2. rows' = rows
    BY <1>1
  <2> QED BY <2>1, <2>2 DEF CR!RecordsAreTrue, CR!RowsTellWhatWasSigned
<1>10. RowsHold' /\ CrPastType' /\ CR!NoneOutlives'
  BY <1>1, <1>2, <1>3, <1>4 DEF RowsHold, CrPastType, CR!NoneOutlives
<1> QED BY <1>4, <1>5, <1>7, <1>9, <1>10 DEF CR!RecordsAreTrue

LEMMA RestingFacts ==
    CR!Resting \in [at : {"idle"}, docs : BOOLEAN, check : Nat \ {0}, cut : {"no", "timeout", "cancelled"},
                 code : Nat \cup {CR!BySignal}, failed : BOOLEAN, results : Seq(Verdicts),
                 ended : Seq(Verdicts \cup {"lost"}), died : BOOLEAN]
<1> DEFINE a == CR!Attestation(FALSE)
<1>1. a \in [at : {"next"}, docs : BOOLEAN, check : Nat \ {0}, cut : {"no", "timeout", "cancelled"},
              code : Nat \cup {CR!BySignal}, failed : BOOLEAN, results : Seq(Verdicts),
              ended : Seq(Verdicts \cup {"lost"}), died : BOOLEAN]
  <2>1. <<>> \in Seq(Verdicts) /\ <<>> \in Seq(Verdicts \cup {"lost"})
    OBVIOUS
  <2> DEFINE e == <<>>
  <2> HIDE DEF e
  <2>2. a = [at |-> "next", docs |-> FALSE, check |-> 1, cut |-> "no", code |-> 0, failed |-> FALSE,
             results |-> e, ended |-> e, died |-> FALSE]
    BY DEF CR!Attestation, e
  <2>3. e \in Seq(Verdicts) /\ e \in Seq(Verdicts \cup {"lost"})
    BY <2>1 DEF e
  <2> HIDE DEF a
  <2> QED BY <2>2, <2>3
<1> HIDE DEF a
<1>2. CR!Resting = [a EXCEPT !.at = "idle"]
  BY DEF CR!Resting, a
<1> QED BY <1>1, <1>2

LEMMA Rests ==
    ASSUME att' = CR!Resting
    PROVE  AttType' /\ att'.at = "idle"
BY RestingFacts DEF AttType

(* What is published: the outcome of the statement, or that there is none.    *)
LEMMA PublishInv == ASSUME ChecksInv, CR!Publish PROVE ChecksInv'
<1> USE DEF ChecksInv, ChecksTypes
<1>1. att.at \in {"infra", "publish"} /\ att' = CR!Resting /\ UNCHANGED <<box, signed, crPast>> /\ box = CR!NoBox
  BY DEF CR!Publish, BoxHolds, InBox
<1>2. PICK kept \in SUBSET (IF CR!Outcome = "infra" THEN {"tests", "run"} ELSE {"tests", "checks", "run"}) :
          rows' = rows \cup {CR!Row(table, CR!Outcome) : table \in kept}
  BY DEF CR!Publish
<1>3. AttType' /\ att'.at = "idle"
  BY <1>1, Rests
<1>4. ResultsHold' /\ BoxType' /\ BoxHolds' /\ CrPastType' /\ CR!NoneOutlives'
  BY <1>1, <1>3 DEF ResultsHold, BoxType, BoxHolds, InBox, CrPastType, CR!NoneOutlives
<1>5. ASSUME NEW r \in {CR!Row(table, CR!Outcome) : table \in kept}
      PROVE  r.run = crPast.runs /\ r.outcome = CR!Outcome /\ (CR!Outcome = "infra" => r.table # "checks")
  BY DEF CR!Row
<1>6. RowsHold'
  BY <1>1, <1>2, <1>3, <1>5 DEF RowsHold, CrPastType
<1>7. CR!SignedIsEarned'
  BY <1>1 DEF CR!RecordsAreTrue, CR!SignedIsEarned
<1>8. CR!RowsTellWhatWasSigned'
  <2> DEFINE Told(r) == LET own == {s \in signed : s.run = r.run} IN
                 IF r.outcome = "infra" THEN own = {} /\ r.table # "checks"
                 ELSE \E s \in own : (r.outcome = "passed") <=> (\A i \in DOMAIN s.results : s.results[i] # "failed")
  <2>1. ASSUME NEW r \in {CR!Row(table, CR!Outcome) : table \in kept} PROVE Told(r)
    <3>1. CASE att.at = "infra"
      <4>1. CR!Outcome = "infra" /\ \A s \in signed : s.run # crPast.runs
        BY <3>1 DEF CR!Outcome, RowsHold, CrPastType
      <4> QED BY <1>5, <4>1
    <3>2. CASE att.at = "publish"
      <4>1. PICK s \in signed : s.run = crPast.runs /\ s.results = att.results
        BY <3>2 DEF RowsHold
      <4>2. CR!Outcome # "infra" /\ ((CR!Outcome = "passed") <=> (\A i \in DOMAIN s.results : s.results[i] # "failed"))
        BY <3>2, <4>1 DEF CR!Outcome
      <4> QED BY <1>5, <4>1, <4>2
    <3> QED BY <1>1, <3>1, <3>2
  <2>2. \A r \in rows : Told(r)
    BY DEF CR!RecordsAreTrue, CR!RowsTellWhatWasSigned
  <2>3. \A r \in rows' : Told(r)
    BY <1>2, <2>1, <2>2
  <2> QED BY <1>1, <2>3 DEF CR!RowsTellWhatWasSigned
<1> QED BY <1>3, <1>4, <1>6, <1>7, <1>8 DEF CR!RecordsAreTrue

LEMMA CrashInv == ASSUME ChecksInv, CR!Crash PROVE ChecksInv'
<1> USE DEF ChecksInv, ChecksTypes
<1>1. att' = CR!Resting /\ box' = CR!NoBox /\ UNCHANGED <<signed, rows>>
  BY DEF CR!Crash
<1>2. AttType' /\ att'.at = "idle"
  BY <1>1, Rests
<1>3. ResultsHold' /\ BoxType' /\ BoxHolds'
  BY <1>1, <1>2 DEF ResultsHold, BoxType, BoxHolds, InBox, CR!NoBox
<1>4. /\ crPast' \in [runs : Nat, faults : Nat, left : Nat, unremoved : Nat] /\ crPast'.runs = crPast.runs
      /\ CR!NoneOutlives'
  <2> DEFINE n == IF box.state = "running" THEN crPast.left + 1 ELSE crPast.left
             f == crPast.faults + 1
             u == IF box = CR!NoBox THEN crPast.unremoved ELSE crPast.unremoved + 1
  <2>1. crPast' = [crPast EXCEPT !.faults = f, !.unremoved = u, !.left = n]
    BY DEF CR!Crash
  <2>2. n \in Nat /\ f \in Nat /\ u \in Nat /\ n <= u
    BY DEF CrPastType, CR!NoneOutlives, CR!NoBox
  <2> HIDE DEF n, f, u
  <2> QED BY <2>1, <2>2 DEF CrPastType, CR!NoneOutlives
<1>5. CR!RecordsAreTrue'
  BY <1>1 DEF CR!RecordsAreTrue, CR!SignedIsEarned, CR!RowsTellWhatWasSigned
<1>6. RowsHold' /\ CrPastType'
  BY <1>1, <1>2, <1>4 DEF RowsHold, CrPastType
<1> QED BY <1>2, <1>3, <1>4, <1>5, <1>6

(* What the attestations of a commit leave behind is true: the passes that are *)
(* signed are ends the checks came to by themselves, and so are the failures,  *)
(* but for that of a check whose engine CLI was killed; the database tells     *)
(* what was signed and nothing of a run that could not judge, and a container  *)
(* outlives its run only if it was not removed; for every list of required     *)
(* checks and any number of timeouts, kills, engine errors and crashes of serve.*)
THEOREM ChecksAreTrue ==
    ASSUME ChecksAssumption
    PROVE  CR!Spec => []RecordsAreTrue
<1>1. CR!Init => ChecksInv
  <2> SUFFICES ASSUME CR!Init PROVE ChecksInv
    OBVIOUS
  <2>1. att = CR!Resting /\ box = CR!NoBox /\ signed = {} /\ rows = {}
        /\ crPast = [runs |-> 0, faults |-> 0, left |-> 0, unremoved |-> 0]
    BY DEF CR!Init
  <2>2. AttType /\ att.at = "idle"
    BY <2>1, RestingFacts DEF AttType
  <2>3. BoxType /\ CrPastType /\ ResultsHold /\ BoxHolds /\ RowsHold /\ CR!NoneOutlives
    BY <2>1, <2>2 DEF BoxType, CR!NoBox, CrPastType, ResultsHold, BoxHolds, InBox, RowsHold, CR!NoneOutlives
  <2>4. CR!RecordsAreTrue
    BY <2>1 DEF CR!RecordsAreTrue, CR!SignedIsEarned, CR!RowsTellWhatWasSigned
  <2> QED BY <2>2, <2>3, <2>4 DEF ChecksInv, ChecksTypes
<1>2. ChecksInv /\ [CR!Next]_CR!crVars => ChecksInv'
  <2> SUFFICES ASSUME ChecksInv, [CR!Next]_CR!crVars PROVE ChecksInv'
    OBVIOUS
  <2>1. CASE UNCHANGED CR!crVars
    <3>1. UNCHANGED <<att, box, signed, rows, crPast>>
      BY <2>1 DEF CR!crVars
    <3>2. AttType' /\ BoxType' /\ CrPastType' /\ CR!NoneOutlives'
      BY <3>1 DEF ChecksInv, ChecksTypes, AttType, BoxType, CrPastType, CR!NoneOutlives
    <3>3. ResultsHold' /\ BoxHolds'
      BY <3>1 DEF ChecksInv, ResultsHold, BoxHolds
    <3>4. RowsHold'
      BY <3>1 DEF ChecksInv, RowsHold
    <3>5. CR!RecordsAreTrue'
      BY <3>1 DEF ChecksInv, CR!RecordsAreTrue, CR!SignedIsEarned, CR!RowsTellWhatWasSigned
    <3> QED BY <3>2, <3>3, <3>4, <3>5 DEF ChecksInv, ChecksTypes
  <2> QED BY <2>1, PrepareInv, NextInv, EndsOfBoxInv, CutInv, ReturnInv, DiesInv, EvidenceInv, ClassifyInv, RemoveInv,
             JudgeInv, SignInv, PublishInv, CrashInv DEF CR!Next
<1>3. ChecksInv => RecordsAreTrue
  BY DEF ChecksInv, RecordsAreTrue
<1> QED BY <1>1, <1>2, <1>3, PTL DEF CR!Spec

------------------------------------------------------------------------------
(* The constitution. A history is a sequence of contents, each of which came  *)
(* by a proposal made on the history before it, or by the owner's key. What a *)
(* process holds between its read and its write is judged by the proposals.   *)

Content == [text : Texts \cup {"t0"}, keys : SUBSET Adders]
Offered(h, c, P) == \E n \in DOMAIN P : P[n].base = h /\ P[n].new = c
Keyed(b, c) == \E o \in Adders : c = [b EXCEPT !.keys = @ \cup {o}]
Shown(h, P) ==
    \A i \in 2..Len(h) : Offered(SubSeq(h, 1, i - 1), h[i], P) \/ Keyed(h[i - 1], h[i])
History(h, P) == h \in Seq(Content) /\ h # <<>> /\ Shown(h, P)
KeptIn(P, Q) == \A n \in DOMAIN P : n \in DOMAIN Q /\ Q[n] = P[n]

(* A request of serve, and a run of `station add`, at each of its places.     *)
Word(r, P) ==
    /\ r.at \in {"number", "store"} => r.new \in Content
    /\ r.at \in {"compare", "swap"} =>
           /\ r = [at |-> r.at, old |-> r.old, new |-> r.new]
           /\ History(r.old, P) /\ r.new \in Content /\ Offered(r.old, r.new, P)
Adding == {"list", "compare", "swap", "file", "undo"}
Duty(a, P) ==
    a.at \in Adding => a = [at |-> a.at, toml |-> a.toml, old |-> a.old] /\ History(a.old, P)

WordsHold == req = [h \in Approvers |-> req[h]] /\ \A h \in Approvers : Word(req[h], proposals)
DutiesHold == add = [o \in Adders |-> add[o]] /\ \A o \in Adders : Duty(add[o], proposals)
LawTypes ==
    /\ running \in Content /\ lwPast \in [raced : BOOLEAN, cuts : Nat]
    /\ \A n \in DOMAIN proposals : proposals[n].new \in Content

(* Serve's handlers are never two between compare and write; and unless two   *)
(* processes were, who is there saw the history as it is.                     *)
Mutex == \A h, k \in Approvers : req[h].at = "swap" /\ req[k].at = "swap" => h = k
SwapsHold ==
    ~lwPast.raced =>
        /\ \A h \in Approvers : req[h].at = "swap" => req[h].old = head
        /\ \A o \in Adders : add[o].at = "swap" =>
               /\ add[o].old = head
               /\ \A h \in Approvers : req[h].at # "swap"
               /\ \A p \in Adders : add[p].at = "swap" => p = o

(* What line.toml says of a station, at each place of its `station add`.      *)
Listed(o) ==
    /\ add[o].at \in {"idle", "list"} => o \notin lineToml
    /\ add[o].at = "list" => add[o].toml = lineToml
    /\ add[o].at \in Adding => o \notin add[o].toml
    /\ add[o].at \in {"compare", "swap", "file", "undo", "done"} => o \in lineToml
    /\ add[o].at \in {"idle", "cut", "done"} \cup Adding
TomlHolds == \A o \in Adders : Listed(o)

LawInv ==
    /\ LawTypes /\ History(head, proposals) /\ WordsHold /\ DutiesHold
    /\ Mutex /\ SwapsHold

(* line.toml is written as it was read: one `station add` at a time.          *)
OneAdder == \A o, p \in Adders : o = p

------------------------------------------------------------------------------
(* Histories.                                                                 *)

LEMMA OfferedKept ==
    ASSUME NEW P, NEW Q, KeptIn(P, Q), NEW h, NEW c, Offered(h, c, P)
    PROVE  Offered(h, c, Q)
BY DEF KeptIn, Offered

LEMMA HistoryKept ==
    ASSUME NEW P, NEW Q, KeptIn(P, Q), NEW h, History(h, P)
    PROVE  History(h, Q)
BY OfferedKept DEF History, Shown

LEMMA WordKept ==
    ASSUME NEW P, NEW Q, KeptIn(P, Q), NEW r, Word(r, P)
    PROVE  Word(r, Q)
BY OfferedKept, HistoryKept DEF Word

LEMMA DutyKept ==
    ASSUME NEW P, NEW Q, KeptIn(P, Q), NEW a, Duty(a, P)
    PROVE  Duty(a, Q)
BY HistoryKept DEF Duty

LEMMA KeptSame == ASSUME NEW P PROVE KeptIn(P, P)
BY DEF KeptIn

(* The last content of a history, and a history that grows by a content.      *)
LEMMA LastContent ==
    ASSUME NEW P, NEW h, History(h, P)
    PROVE  LW!Last(h) \in Content /\ LW!Last(h) = h[Len(h)] /\ Len(h) \in Nat \ {0}
BY DEF History, LW!Last

LEMMA HistoryGrows ==
    ASSUME NEW P, NEW h, History(h, P), NEW c \in Content,
           Offered(h, c, P) \/ Keyed(h[Len(h)], c)
    PROVE  History(Append(h, c), P) /\ LW!IsPrefix(h, Append(h, c))
<1> DEFINE g == Append(h, c)
<1>1. h \in Seq(Content) /\ Len(h) \in Nat \ {0} /\ Shown(h, P)
  BY DEF History
<1>2. g \in Seq(Content) /\ g # <<>> /\ Len(g) = Len(h) + 1
  BY <1>1
<1>3. g[Len(h) + 1] = c /\ \A i \in 1..Len(h) : g[i] = h[i]
  BY <1>1
<1>4. \A i \in 1..Len(h) : SubSeq(g, 1, i) = SubSeq(h, 1, i)
  BY <1>1, <1>2, <1>3
<1>5. SubSeq(h, 1, Len(h)) = h
  BY <1>1
<1> HIDE DEF g
<1>6. LW!IsPrefix(h, g)
  BY <1>1, <1>2, <1>4 DEF LW!IsPrefix
<1>7. ASSUME NEW i \in 2..Len(g) PROVE Offered(SubSeq(g, 1, i - 1), g[i], P) \/ Keyed(g[i - 1], g[i])
  <2>1. CASE i <= Len(h)
    <3>1. i - 1 \in 1..Len(h) /\ i \in 1..Len(h) /\ i \in 2..Len(h)
      BY <1>1, <1>2, <2>1
    <3> QED BY <3>1, <1>1, <1>3, <1>4 DEF Shown
  <2>2. CASE i = Len(h) + 1
    <3>1. i - 1 = Len(h) /\ Len(h) \in 1..Len(h)
      BY <1>1, <2>2
    <3> QED BY <3>1, <2>2, <1>3, <1>4, <1>5
  <2> QED BY <2>1, <2>2, <1>1, <1>2
<1>8. Shown(g, P)
  BY <1>7 DEF Shown
<1> QED BY <1>2, <1>6, <1>8 DEF History, g

------------------------------------------------------------------------------
(* The steps of serve.                                                        *)

LEMMA WordsMove ==
    ASSUME WordsHold, NEW h \in Approvers, NEW r, req' = [req EXCEPT ![h] = r],
           KeptIn(proposals, proposals'), Word(r, proposals')
    PROVE  WordsHold' /\ req'[h] = r /\ \A k \in Approvers : k # h => req'[k] = req[k]
<1>1. req = [k \in Approvers |-> req[k]]
  BY DEF WordsHold
<1>2. req'[h] = r /\ \A k \in Approvers : k # h => req'[k] = req[k]
  BY <1>1
<1>3. req' = [k \in Approvers |-> req'[k]]
  BY <1>1
<1>4. ASSUME NEW k \in Approvers PROVE Word(req'[k], proposals')
  <2>1. Word(req[k], proposals')
    BY WordKept DEF WordsHold
  <2> QED BY <2>1, <1>2
<1> QED BY <1>2, <1>3, <1>4 DEF WordsHold

LEMMA WordsStay ==
    ASSUME WordsHold, req' = req, KeptIn(proposals, proposals')
    PROVE  WordsHold'
<1>1. ASSUME NEW k \in Approvers PROVE Word(req'[k], proposals')
  <2>1. Word(req[k], proposals')
    BY WordKept DEF WordsHold
  <2> QED BY <2>1
<1>2. req' = [k \in Approvers |-> req'[k]]
  BY DEF WordsHold
<1> QED BY <1>1, <1>2 DEF WordsHold

LEMMA DutiesStay ==
    ASSUME DutiesHold, add' = add, KeptIn(proposals, proposals')
    PROVE  DutiesHold'
<1>1. ASSUME NEW o \in Adders PROVE Duty(add'[o], proposals')
  <2>1. Duty(add[o], proposals')
    BY DutyKept DEF DutiesHold
  <2> QED BY <2>1
<1>2. add' = [o \in Adders |-> add'[o]]
  BY DEF DutiesHold
<1> QED BY <1>1, <1>2 DEF DutiesHold

(* A request that does not come between compare and write.                    *)
LEMMA QuietRequest ==
    ASSUME LawInv, NEW h \in Approvers, NEW r, req' = [req EXCEPT ![h] = r], r.at # "swap",
           KeptIn(proposals, proposals'), Word(r, proposals'),
           \A n \in DOMAIN proposals' : proposals'[n].new \in Content,
           UNCHANGED <<head, add, lineToml, running, lwPast>>
    PROVE  LawInv'
<1>1. WordsHold' /\ req'[h] = r /\ \A k \in Approvers : k # h => req'[k] = req[k]
  BY WordsMove DEF LawInv
<1>2. DutiesHold'
  BY DutiesStay DEF LawInv
<1>3. History(head, proposals')
  BY HistoryKept DEF LawInv
<1>4. LawTypes'
  BY DEF LawInv, LawTypes
<1>5. \A k \in Approvers : req'[k].at = "swap" => req[k].at = "swap" /\ req'[k] = req[k]
  BY <1>1
<1>6. Mutex'
  BY <1>5 DEF LawInv, Mutex
<1>7. SwapsHold'
  BY <1>5 DEF LawInv, SwapsHold
<1> QED BY <1>1, <1>2, <1>3, <1>4, <1>6, <1>7 DEF LawInv

LEMMA ProposeInv ==
    ASSUME LawInv, NEW h \in Approvers, LW!Propose(h) \/ LW!ProposalNumber(h) \/ LW!ProposalStore(h)
    PROVE  LawInv' /\ KeptIn(proposals, proposals') /\ head' = head
<1>0. Word(req[h], proposals) /\ UNCHANGED <<head, add, lineToml, running, lwPast>>
      /\ \A n \in DOMAIN proposals : proposals[n].new \in Content
  BY DEF LawInv, WordsHold, LawTypes, LW!Propose, LW!ProposalNumber, LW!ProposalStore
<1>1. CASE LW!Propose(h)
  <2>1. PICK t \in Texts, ks \in {running.keys, LW!Last(head).keys} :
            req' = [req EXCEPT ![h] = [at |-> "number", base |-> head, new |-> [text |-> t, keys |-> ks], tries |-> 0]]
    BY <1>1 DEF LW!Propose, LW!SetReq
  <2> DEFINE c == [text |-> t, keys |-> ks]
             r == [at |-> "number", base |-> head, new |-> c, tries |-> 0]
  <2>2. c \in Content
    <3>1. running \in Content /\ LW!Last(head) \in Content
      BY LastContent DEF LawInv, LawTypes
    <3> QED BY <3>1 DEF Content
  <2>3. r.at = "number" /\ r.new = c
    OBVIOUS
  <2> HIDE DEF c
  <2>4. Word(r, proposals)
    BY <2>2 DEF Word
  <2>5. UNCHANGED proposals
    BY <1>1 DEF LW!Propose
  <2>6. req' = [req EXCEPT ![h] = r] /\ r.at # "swap"
    BY <2>1, <2>3 DEF c
  <2> HIDE DEF r
  <2> QED BY <2>4, <2>5, <2>6, <1>0, KeptSame, QuietRequest
<1>2. CASE LW!ProposalNumber(h)
  <2> DEFINE r == [at |-> "store", base |-> req[h].base, new |-> req[h].new, tries |-> req[h].tries, n |-> LW!NextProposal]
  <2>1. req[h].at = "number" /\ req' = [req EXCEPT ![h] = r] /\ UNCHANGED proposals
    BY <1>2 DEF LW!ProposalNumber, LW!SetReq
  <2>2. req[h].new \in Content
    BY <2>1, <1>0 DEF Word
  <2>3. Word(r, proposals) /\ r.at # "swap"
    BY <2>2 DEF Word
  <2> HIDE DEF r
  <2> QED BY <2>1, <2>3, <1>0, KeptSame, QuietRequest
<1>3. CASE LW!ProposalStore(h)
  <2>1. req[h].at = "store" /\ req[h].new \in Content
    BY <1>3, <1>0 DEF LW!ProposalStore, Word
  <2>2. CASE LW!Taken(req[h].n)
    <3> DEFINE s == [at |-> "number", base |-> req[h].base, new |-> req[h].new, tries |-> req[h].tries + 1]
               r == IF req[h].tries + 1 < MaxRetry THEN s ELSE LW!Idle
    <3>1. req' = [req EXCEPT ![h] = r] /\ UNCHANGED proposals
      BY <1>3, <2>2 DEF LW!ProposalStore, LW!SetReq
    <3>2. Word(s, proposals) /\ s.at # "swap"
      BY <2>1 DEF Word
    <3>3. Word(LW!Idle, proposals) /\ LW!Idle.at # "swap"
      BY DEF Word, LW!Idle
    <3> HIDE DEF s
    <3>4. Word(r, proposals) /\ r.at # "swap"
      BY <3>2, <3>3
    <3> HIDE DEF r
    <3> QED BY <3>1, <3>4, <1>0, KeptSame, QuietRequest
  <2>3. CASE ~LW!Taken(req[h].n)
    <3> DEFINE c == [base |-> req[h].base, new |-> req[h].new]
               k == req[h].n
    <3>1. /\ proposals' = [n \in DOMAIN proposals \cup {k} |-> IF n = k THEN c ELSE proposals[n]]
          /\ req' = [req EXCEPT ![h] = LW!Idle]
      BY <1>3, <2>3 DEF LW!ProposalStore, LW!SetReq
    <3>2. c.new \in Content
      BY <2>1
    <3>3. k \notin DOMAIN proposals
      BY <2>3 DEF LW!Taken
    <3> HIDE DEF c, k
    <3>4. KeptIn(proposals, proposals')
      BY <3>1, <3>3 DEF KeptIn
    <3>5. \A n \in DOMAIN proposals' : proposals'[n].new \in Content
      BY <3>1, <3>2, <1>0
    <3>6. Word(LW!Idle, proposals') /\ LW!Idle.at # "swap"
      BY DEF Word, LW!Idle
    <3> QED BY <3>1, <3>4, <3>5, <3>6, <1>0, QuietRequest
  <2> QED BY <2>2, <2>3
<1> QED BY <1>1, <1>2, <1>3

LEMMA ApproveInv ==
    ASSUME LawInv, NEW h \in Approvers, (\E n \in 1..MaxProposals : LW!Approve(h, n)) \/ LW!ApproveCompare(h)
    PROVE  LawInv' /\ UNCHANGED <<head, proposals>>
<1>0. Word(req[h], proposals) /\ UNCHANGED <<head, proposals, add, lineToml, running>>
      /\ \A n \in DOMAIN proposals : proposals[n].new \in Content
  BY DEF LawInv, WordsHold, LawTypes, LW!Approve, LW!ApproveCompare
<1>1. CASE \E n \in 1..MaxProposals : LW!Approve(h, n)
  <2>1. PICK n \in 1..MaxProposals : LW!Approve(h, n)
    BY <1>1
  <2> DEFINE c == proposals[n].new
             r == [at |-> "compare", old |-> head, new |-> c]
  <2>2. n \in DOMAIN proposals /\ proposals[n].base = head /\ req' = [req EXCEPT ![h] = r] /\ UNCHANGED lwPast
    BY <2>1 DEF LW!Approve, LW!Current, LW!SetReq
  <2>3. c \in Content /\ Offered(head, c, proposals) /\ History(head, proposals)
    BY <2>2, <1>0 DEF Offered, LawInv
  <2> HIDE DEF c
  <2>4. Word(r, proposals) /\ r.at # "swap"
    BY <2>3 DEF Word
  <2> HIDE DEF r
  <2> QED BY <2>2, <2>4, <1>0, KeptSame, QuietRequest
<1>2. CASE LW!ApproveCompare(h)
  <2>1. /\ req[h].at = "compare" /\ \A k \in Approvers : req[k].at # "swap"
        /\ req' = [req EXCEPT ![h] = IF head = req[h].old THEN [req[h] EXCEPT !.at = "swap"] ELSE LW!Idle]
        /\ lwPast' = [lwPast EXCEPT !.raced = @ \/ LW!OwnerSwaps]
    BY <1>2 DEF LW!ApproveCompare, LW!MutexFree, LW!SetReq
  <2>2. PICK r : r = IF head = req[h].old THEN [req[h] EXCEPT !.at = "swap"] ELSE LW!Idle
    OBVIOUS
  <2>3. Word(r, proposals) /\ (r.at = "swap" => r.old = head)
    <3>1. CASE head = req[h].old
      <4>1. req[h] = [at |-> "compare", old |-> req[h].old, new |-> req[h].new]
            /\ History(req[h].old, proposals) /\ req[h].new \in Content
            /\ Offered(req[h].old, req[h].new, proposals)
        BY <2>1, <1>0 DEF Word
      <4>2. r = [at |-> "swap", old |-> req[h].old, new |-> req[h].new]
        BY <4>1, <3>1, <2>2
      <4> QED BY <4>1, <4>2, <3>1 DEF Word
    <3>2. CASE head # req[h].old
      BY <3>2, <2>2 DEF Word, LW!Idle
    <3> QED BY <3>1, <3>2
  <2>4. WordsHold' /\ req'[h] = r /\ \A k \in Approvers : k # h => req'[k] = req[k]
    BY <2>1, <2>2, <2>3, <1>0, KeptSame, WordsMove DEF LawInv
  <2>5. lwPast' \in [raced : BOOLEAN, cuts : Nat] /\ (~lwPast'.raced => ~lwPast.raced /\ ~LW!OwnerSwaps)
    <3>1. lwPast \in [raced : BOOLEAN, cuts : Nat]
      BY DEF LawInv, LawTypes
    <3>2. (lwPast.raced \/ LW!OwnerSwaps) \in BOOLEAN
      OBVIOUS
    <3> QED BY <3>1, <3>2, <2>1
  <2>6. \A k \in Approvers : req'[k].at = "swap" => k = h
    BY <2>1, <2>4
  <2>7. Mutex'
    BY <2>6 DEF Mutex
  <2>8. SwapsHold'
    BY <2>3, <2>4, <2>5, <2>6, <1>0 DEF SwapsHold, LW!OwnerSwaps
  <2>9. LawTypes' /\ History(head, proposals)' /\ DutiesHold'
    BY <2>5, <1>0, KeptSame, DutiesStay DEF LawInv, LawTypes
  <2> QED BY <1>0, <2>4, <2>7, <2>8, <2>9 DEF LawInv
<1> QED BY <1>1, <1>2, <1>0

LEMMA ServeWrites ==
    ASSUME LawInv, (\E h \in Approvers : LW!ApproveSwap(h)) \/ LW!ServeRestart
    PROVE  LawInv' /\ UNCHANGED <<proposals, lwPast>> /\ (LW!IsPrefix(head, head') \/ lwPast'.raced \/ head' = head)
<1>0. UNCHANGED <<proposals, add, lineToml, lwPast>>
  BY DEF LW!ApproveSwap, LW!ServeRestart
<1>1. DutiesHold' /\ KeptIn(proposals, proposals')
  BY <1>0, KeptSame, DutiesStay DEF LawInv
<1>2. CASE \E h \in Approvers : LW!ApproveSwap(h)
  <2>1. PICK h \in Approvers : LW!ApproveSwap(h)
    BY <1>2
  <2>2. /\ req[h].at = "swap" /\ req' = [req EXCEPT ![h] = LW!Idle] /\ UNCHANGED running
        /\ head' = Append(req[h].old, req[h].new)
    BY <2>1 DEF LW!ApproveSwap, LW!SetReq
  <2>3. History(req[h].old, proposals) /\ req[h].new \in Content /\ Offered(req[h].old, req[h].new, proposals)
    BY <2>2 DEF LawInv, WordsHold, Word
  <2>4. History(head', proposals) /\ LW!IsPrefix(req[h].old, head')
    BY <2>2, <2>3, HistoryGrows
  <2>5. ~lwPast.raced => req[h].old = head
    BY <2>2 DEF LawInv, SwapsHold
  <2>6. Word(LW!Idle, proposals') /\ LW!Idle.at # "swap"
    BY DEF Word, LW!Idle
  <2>7. WordsHold' /\ req'[h] = LW!Idle /\ \A k \in Approvers : k # h => req'[k] = req[k]
    BY <2>2, <2>6, <1>1, WordsMove DEF LawInv
  <2>8. \A k \in Approvers : req'[k].at # "swap"
    BY <2>2, <2>6, <2>7 DEF LawInv, Mutex
  <2>9. ~lwPast.raced => \A o \in Adders : add[o].at # "swap"
    BY <2>2 DEF LawInv, SwapsHold
  <2>10. Mutex' /\ SwapsHold'
    BY <2>8, <2>9, <1>0 DEF Mutex, SwapsHold
  <2>11. LawTypes'
    BY <2>2, <1>0 DEF LawInv, LawTypes
  <2> QED BY <1>0, <1>1, <2>4, <2>5, <2>7, <2>10, <2>11 DEF LawInv
<1>3. CASE LW!ServeRestart
  <2>1. running' = LW!Last(head) /\ req' = [h \in Approvers |-> LW!Idle] /\ UNCHANGED head
    BY <1>3 DEF LW!ServeRestart
  <2>2. Word(LW!Idle, proposals') /\ LW!Idle.at # "swap"
    BY DEF Word, LW!Idle
  <2>3. WordsHold' /\ \A h \in Approvers : req'[h].at # "swap"
    BY <2>1, <2>2 DEF WordsHold
  <2>4. Mutex' /\ SwapsHold'
    BY <2>1, <2>3, <1>0 DEF LawInv, Mutex, SwapsHold
  <2>5. LawTypes'
    BY <2>1, <1>0, LastContent DEF LawInv, LawTypes
  <2> QED BY <1>0, <1>1, <2>1, <2>3, <2>4, <2>5 DEF LawInv
<1> QED BY <1>2, <1>3

------------------------------------------------------------------------------
(* The steps of `station add`.                                                *)

(* A run of it that does not come between compare and write.                  *)
LEMMA QuietAdd ==
    ASSUME LawInv, NEW o \in Adders, NEW a, add' = [add EXCEPT ![o] = a], a.at # "swap", Duty(a, proposals),
           head' = head \/ add[o].at = "swap", History(head', proposals), UNCHANGED <<proposals, req, running>>,
           lwPast' \in [raced : BOOLEAN, cuts : Nat], ~lwPast'.raced => ~lwPast.raced
    PROVE  LawInv'
<1>1. KeptIn(proposals, proposals') /\ WordsHold'
  BY KeptSame, WordsStay DEF LawInv
<1>2. add'[o] = a /\ add' = [p \in Adders |-> add'[p]] /\ \A p \in Adders : p # o => add'[p] = add[p]
  BY DEF LawInv, DutiesHold
<1>3. DutiesHold'
  BY <1>2 DEF LawInv, DutiesHold
<1>4. \A p \in Adders : add'[p].at = "swap" => p # o /\ add'[p] = add[p]
  BY <1>2
<1>5. Mutex' /\ LawTypes'
  BY DEF LawInv, Mutex, LawTypes
<1>6. SwapsHold'
  BY <1>4 DEF LawInv, SwapsHold
<1> QED BY <1>1, <1>3, <1>5, <1>6 DEF LawInv

LEMMA AddStationInv ==
    ASSUME LawInv, NEW o \in Adders,
           LW!AddRead(o) \/ LW!AddList(o) \/ LW!AddCompare(o) \/ LW!AddSwap(o) \/ LW!AddFile(o)
           \/ LW!AddUndo(o) \/ LW!AddCut(o)
    PROVE  LawInv' /\ UNCHANGED proposals /\ (LW!IsPrefix(head, head') \/ lwPast'.raced \/ head' = head)
<1> DEFINE old == add[o].old
           toml == add[o].toml
           At(place) == [at |-> place, toml |-> toml, old |-> old]
<1>0. /\ UNCHANGED <<proposals, running, req>> /\ History(head, proposals) /\ Duty(add[o], proposals)
      /\ lwPast \in [raced : BOOLEAN, cuts : Nat]
  BY DEF LawInv, LawTypes, DutiesHold, LW!AddRead, LW!AddList, LW!AddCompare, LW!AddSwap, LW!AddFile,
         LW!AddUndo, LW!AddCut
<1>1. \A p \in Adding : add[o].at = p => add[o] = At(p) /\ History(old, proposals)
  BY <1>0 DEF Duty
<1>2. ASSUME NEW p \in Adding, NEW q \in Adding, add[o].at = p PROVE [add[o] EXCEPT !.at = q] = At(q)
  <2>1. add[o] = At(p)
    BY <1>1, <1>2
  <2>2. [At(p) EXCEPT !.at = q] = At(q)
    OBVIOUS
  <2> QED BY <2>1, <2>2
<1>3. \A p \in Adding : History(old, proposals) => Duty(At(p), proposals) /\ At(p).at = p /\ At(p).toml = toml
  BY DEF Duty
<1>4. Duty(LW!Idle, proposals) /\ LW!Idle.at = "idle" /\ \A p \in {"cut", "done"} : Duty([at |-> p], proposals)
  BY DEF Duty, Adding, LW!Idle
<1>6. CASE LW!AddRead(o)
  <2> DEFINE a == [at |-> "list", toml |-> lineToml, old |-> head]
  <2>1. o \notin lineToml /\ add' = [add EXCEPT ![o] = a] /\ UNCHANGED <<head, lineToml, lwPast>>
    BY <1>6 DEF LW!AddRead, LW!SetAdd
  <2>2. Duty(a, proposals) /\ a.at = "list" /\ a.toml = lineToml
    BY <1>0 DEF Duty
  <2> HIDE DEF a
  <2> QED BY <2>1, <2>2, <1>0, QuietAdd
<1>7. CASE LW!AddList(o)
  <2>1. add[o].at = "list" /\ lineToml' = toml \cup {o} /\ add' = [add EXCEPT ![o] = [add[o] EXCEPT !.at = "compare"]]
        /\ UNCHANGED <<head, lwPast>>
    BY <1>7 DEF LW!AddList, LW!SetAdd
  <2>2. PICK a : a = At("compare")
    OBVIOUS
  <2>3. add' = [add EXCEPT ![o] = a] /\ Duty(a, proposals) /\ a.at = "compare"
    BY <2>1, <2>2, <1>1, <1>2, <1>3 DEF Adding
  <2> HIDE DEF At, old, toml
  <2> QED BY <2>1, <2>3, <1>0, QuietAdd
<1>8. CASE LW!AddCompare(o)
  <2>1. /\ add[o].at = "compare"
        /\ add' = [add EXCEPT ![o] = [add[o] EXCEPT !.at = IF head = add[o].old THEN "swap" ELSE "undo"]]
        /\ lwPast' = [lwPast EXCEPT !.raced = @ \/ (head = add[o].old /\ (~LW!MutexFree \/ LW!OwnerSwaps))]
        /\ UNCHANGED <<head, lineToml>>
    BY <1>8 DEF LW!AddCompare, LW!SetAdd
  <2>3. CASE head # old
    <3>1. PICK a : a = At("undo")
      OBVIOUS
    <3>2. add' = [add EXCEPT ![o] = a] /\ Duty(a, proposals) /\ a.at = "undo"
      BY <2>1, <2>3, <3>1, <1>1, <1>2, <1>3 DEF Adding
    <3>3. (lwPast.raced \/ (head = add[o].old /\ (~LW!MutexFree \/ LW!OwnerSwaps))) = lwPast.raced
      BY <2>3, <1>0
    <3>4. lwPast' = lwPast
      BY <2>1, <3>3, <1>0
    <3> HIDE DEF At, old, toml
    <3> QED BY <2>1, <3>2, <3>4, <1>0, QuietAdd
  <2>4. CASE head = old
    <3>1. PICK a : a = At("swap")
      OBVIOUS
    <3>2. add' = [add EXCEPT ![o] = a] /\ Duty(a, proposals) /\ a.at = "swap" /\ a.old = head /\ a.toml = toml
      BY <2>1, <2>4, <3>1, <1>1, <1>2, <1>3 DEF Adding
    <3>3. PICK b \in BOOLEAN : b <=> (lwPast.raced \/ ~LW!MutexFree \/ LW!OwnerSwaps)
      OBVIOUS
    <3>4. lwPast' = [lwPast EXCEPT !.raced = b]
      BY <2>1, <2>4, <3>3, <1>0
    <3>5. lwPast' \in [raced : BOOLEAN, cuts : Nat] /\ lwPast'.raced = b
      BY <3>4, <1>0
    <3>6. add'[o] = a /\ add' = [p \in Adders |-> add'[p]] /\ \A p \in Adders : p # o => add'[p] = add[p]
      BY <3>2 DEF LawInv, DutiesHold
    <3>7. DutiesHold' /\ WordsHold' /\ LawTypes' /\ Mutex' /\ History(head, proposals)'
      <4>1. DutiesHold'
        BY <3>2, <3>6, <1>0 DEF LawInv, DutiesHold
      <4>2. WordsHold'
        BY <1>0, KeptSame, WordsStay DEF LawInv
      <4>3. LawTypes' /\ Mutex'
        BY <1>0, <3>5 DEF LawInv, LawTypes, Mutex
      <4> QED BY <4>1, <4>2, <4>3, <2>1, <1>0
    <3>8. SwapsHold'
      <4> SUFFICES ASSUME ~b PROVE SwapsHold'
        BY <3>5 DEF SwapsHold
      <4>1. \A h \in Approvers : req'[h].at # "swap"
        BY <3>3, <1>0 DEF LW!MutexFree
      <4>2. \A p \in Adders : p # o => add'[p].at # "swap"
        BY <3>3, <3>6 DEF LW!OwnerSwaps
      <4> QED BY <4>1, <4>2, <3>2, <3>6, <2>1, <2>4 DEF SwapsHold
    <3> QED BY <3>7, <3>8, <1>0, <2>1 DEF LawInv
  <2> QED BY <2>3, <2>4
<1>9. CASE LW!AddSwap(o)
  <2> DEFINE c == [LW!Last(old) EXCEPT !.keys = @ \cup {o}]
  <2>1. add[o].at = "swap" /\ head' = Append(old, c) /\ add' = [add EXCEPT ![o] = [add[o] EXCEPT !.at = "file"]]
        /\ UNCHANGED <<lineToml, lwPast>>
    BY <1>9 DEF LW!AddSwap, LW!SetAdd
  <2>2. PICK a : a = At("file")
    OBVIOUS
  <2>3. add' = [add EXCEPT ![o] = a] /\ Duty(a, proposals) /\ a.at = "file"
    BY <2>1, <2>2, <1>1, <1>2, <1>3 DEF Adding
  <2>4. History(old, proposals)
    BY <2>1, <1>1 DEF Adding
  <2>5. LW!Last(old) \in Content /\ LW!Last(old) = old[Len(old)]
    BY <2>4, LastContent
  <2>6. c \in Content /\ Keyed(old[Len(old)], c)
    BY <2>5 DEF Content, Keyed
  <2> HIDE DEF c
  <2>7. History(head', proposals) /\ LW!IsPrefix(old, head')
    BY <2>1, <2>4, <2>6, HistoryGrows
  <2>8. ~lwPast.raced => old = head /\ \A h \in Approvers : req[h].at # "swap"
    BY <2>1 DEF LawInv, SwapsHold
  <2> HIDE DEF At, old, toml
  <2>9. LawInv'
    BY <2>1, <2>3, <2>4, <2>7, <2>8, <1>0, QuietAdd
  <2> QED BY <2>1, <2>7, <2>8, <2>9, <1>0
<1>10. CASE LW!AddFile(o)
  <2>1. add[o].at = "file" /\ UNCHANGED <<head, lineToml>>
    BY <1>10 DEF LW!AddFile
  <2>2. History(old, proposals)
    BY <2>1, <1>1 DEF Adding
  <2>3. CASE LW!SetAdd(o, [at |-> "done"]) /\ UNCHANGED lwPast
    <3>1. PICK a : a = [at |-> "done"]
      OBVIOUS
    <3>2. add' = [add EXCEPT ![o] = a] /\ a.at = "done" /\ Duty(a, proposals)
      BY <2>3, <3>1, <1>4 DEF LW!SetAdd
    <3> QED BY <2>1, <2>2, <2>3, <3>2, <1>0, QuietAdd
  <2>4. CASE lwPast' = [lwPast EXCEPT !.cuts = @ + 1] /\ LW!SetAdd(o, [add[o] EXCEPT !.at = "undo"])
    <3>1. PICK a : a = At("undo")
      OBVIOUS
    <3>2. add' = [add EXCEPT ![o] = a] /\ Duty(a, proposals) /\ a.at = "undo"
      BY <2>1, <2>2, <2>4, <3>1, <1>1, <1>2, <1>3 DEF Adding, LW!SetAdd
    <3>3. lwPast' \in [raced : BOOLEAN, cuts : Nat] /\ lwPast'.raced = lwPast.raced
      BY <2>4, <1>0
    <3> HIDE DEF At, old, toml
    <3> QED BY <2>1, <2>2, <3>2, <3>3, <1>0, QuietAdd
  <2> QED BY <2>3, <2>4, <1>10 DEF LW!AddFile
<1>11. CASE LW!AddUndo(o)
  <2>1. add[o].at = "undo" /\ lineToml' = toml /\ add' = [add EXCEPT ![o] = LW!Idle] /\ UNCHANGED <<head, lwPast>>
    BY <1>11 DEF LW!AddUndo, LW!SetAdd
  <2> QED BY <2>1, <1>0, <1>4, QuietAdd
<1>12. CASE LW!AddCut(o)
  <2>1. add' = [add EXCEPT ![o] = [at |-> "cut"]] /\ lwPast' = [lwPast EXCEPT !.cuts = @ + 1]
        /\ UNCHANGED <<head, lineToml>>
    BY <1>12 DEF LW!AddCut, LW!SetAdd
  <2>2. PICK a : a = [at |-> "cut"]
    OBVIOUS
  <2>3. add' = [add EXCEPT ![o] = a] /\ a.at = "cut" /\ Duty(a, proposals)
    BY <2>1, <2>2, <1>4
  <2>4. lwPast' \in [raced : BOOLEAN, cuts : Nat] /\ lwPast'.raced = lwPast.raced
    BY <2>1, <1>0
  <2> QED BY <2>1, <2>3, <2>4, <1>0, QuietAdd
<1> QED BY <1>6, <1>7, <1>8, <1>9, <1>10, <1>11, <1>12

------------------------------------------------------------------------------
(* line.toml.                                                                 *)

LEMMA TomlStays ==
    ASSUME TomlHolds, UNCHANGED <<add, lineToml>>
    PROVE  TomlHolds'
BY DEF TomlHolds, Listed

LEMMA TomlMoves ==
    ASSUME OneAdder, DutiesHold, NEW o \in Adders, NEW a, add' = [add EXCEPT ![o] = a],
           a.at \in {"idle", "list"} => o \notin lineToml',
           a.at = "list" => a.toml = lineToml',
           a.at \in Adding => o \notin a.toml,
           a.at \in {"compare", "swap", "file", "undo", "done"} => o \in lineToml',
           a.at \in {"idle", "cut", "done"} \cup Adding
    PROVE  TomlHolds'
<1>1. add'[o] = a /\ \A p \in Adders : p = o
  BY DEF DutiesHold, OneAdder
<1> QED BY <1>1 DEF TomlHolds, Listed

LEMMA AddToml ==
    ASSUME LawInv, TomlHolds, OneAdder, NEW o \in Adders,
           LW!AddRead(o) \/ LW!AddList(o) \/ LW!AddCompare(o) \/ LW!AddSwap(o) \/ LW!AddFile(o)
           \/ LW!AddUndo(o) \/ LW!AddCut(o)
    PROVE  TomlHolds'
<1>0. Duty(add[o], proposals) /\ Listed(o) /\ DutiesHold
  BY DEF LawInv, DutiesHold, TomlHolds
<1>1. ASSUME add[o].at \in Adding, NEW q \in Adding
      PROVE  [add[o] EXCEPT !.at = q].at = q /\ [add[o] EXCEPT !.at = q].toml = add[o].toml
  <2>1. add[o] = [at |-> add[o].at, toml |-> add[o].toml, old |-> add[o].old]
    BY <1>0, <1>1 DEF Duty
  <2> QED BY <2>1
<1>2. CASE LW!AddRead(o)
  <2> DEFINE a == [at |-> "list", toml |-> lineToml, old |-> head]
  <2>1. o \notin lineToml /\ add' = [add EXCEPT ![o] = a] /\ UNCHANGED lineToml /\ a.at = "list" /\ a.toml = lineToml
    BY <1>2 DEF LW!AddRead, LW!SetAdd
  <2> HIDE DEF a
  <2> QED BY <2>1, <1>0, TomlMoves DEF Adding
<1>3. ASSUME LW!AddList(o) \/ LW!AddCompare(o) \/ LW!AddSwap(o)
      PROVE  TomlHolds'
  <2>1. PICK q \in {"compare", "swap", "undo", "file"} :
            add[o].at \in Adding /\ add' = [add EXCEPT ![o] = [add[o] EXCEPT !.at = q]] /\ o \in lineToml'
    <3>1. CASE LW!AddList(o)
      BY <3>1 DEF LW!AddList, LW!SetAdd, Adding
    <3>2. CASE LW!AddCompare(o)
      BY <3>2, <1>0 DEF LW!AddCompare, LW!SetAdd, Adding, Listed
    <3>3. CASE LW!AddSwap(o)
      BY <3>3, <1>0 DEF LW!AddSwap, LW!SetAdd, Adding, Listed
    <3> QED BY <1>3, <3>1, <3>2, <3>3
  <2>2. PICK a : a = [add[o] EXCEPT !.at = q]
    OBVIOUS
  <2>3. a.at = q /\ a.toml = add[o].toml /\ o \notin add[o].toml
    BY <2>1, <2>2, <1>0, <1>1 DEF Listed, Adding
  <2> QED BY <2>1, <2>2, <2>3, <1>0, TomlMoves DEF Adding
<1>4. CASE LW!AddFile(o)
  <2>1. add[o].at = "file" /\ UNCHANGED lineToml /\ o \in lineToml /\ o \notin add[o].toml
    BY <1>4, <1>0 DEF LW!AddFile, Listed, Adding
  <2>2. PICK a : add' = [add EXCEPT ![o] = a] /\ (a = [at |-> "done"] \/ a = [add[o] EXCEPT !.at = "undo"])
    BY <1>4 DEF LW!AddFile, LW!SetAdd
  <2>3. a.at = "done" \/ (a.at = "undo" /\ a.toml = add[o].toml)
    <3>1. "undo" \in Adding /\ add[o].at \in Adding
      BY <2>1 DEF Adding
    <3>2. [add[o] EXCEPT !.at = "undo"].at = "undo" /\ [add[o] EXCEPT !.at = "undo"].toml = add[o].toml
      BY <3>1, <1>1
    <3>3. CASE a = [at |-> "done"]
      BY <3>3
    <3>4. CASE a = [add[o] EXCEPT !.at = "undo"]
      BY <3>2, <3>4
    <3> QED BY <3>3, <3>4, <2>2
  <2> QED BY <2>1, <2>2, <2>3, <1>0, TomlMoves DEF Adding
<1>5. CASE LW!AddUndo(o)
  <2>1. o \notin lineToml' /\ add' = [add EXCEPT ![o] = LW!Idle] /\ LW!Idle.at = "idle"
    BY <1>5, <1>0 DEF LW!AddUndo, LW!SetAdd, LW!Idle, Listed, Adding
  <2> QED BY <2>1, <1>0, TomlMoves DEF Adding
<1>6. CASE LW!AddCut(o)
  <2>1. PICK a : add' = [add EXCEPT ![o] = a] /\ a = [at |-> "cut"]
    BY <1>6 DEF LW!AddCut, LW!SetAdd
  <2>2. a.at = "cut"
    BY <2>1
  <2> QED BY <2>1, <2>2, <1>0, TomlMoves DEF Adding
<1> QED BY <1>2, <1>3, <1>4, <1>5, <1>6

------------------------------------------------------------------------------
(* The theorems.                                                              *)

LEMMA LawInit == LW!Init => LawInv /\ TomlHolds
<1> SUFFICES ASSUME LW!Init PROVE LawInv /\ TomlHolds
  OBVIOUS
<1>1. /\ head = <<LW!Seed>> /\ running = LW!Seed /\ DOMAIN proposals = {} /\ lineToml = {}
      /\ req = [h \in Approvers |-> LW!Idle] /\ add = [o \in Adders |-> LW!Idle]
      /\ lwPast = [raced |-> FALSE, cuts |-> 0]
  BY DEF LW!Init
<1>2. LW!Seed \in Content /\ LW!Idle.at = "idle"
  BY DEF LW!Seed, LW!Idle, Content
<1>3. LawTypes
  BY <1>1, <1>2 DEF LawTypes
<1>4. head \in Seq(Content) /\ Len(head) = 1 /\ head # <<>>
  BY <1>1, <1>2
<1>5. History(head, proposals)
  BY <1>4 DEF History, Shown
<1>6. Word(LW!Idle, proposals) /\ Duty(LW!Idle, proposals)
  BY <1>2 DEF Word, Duty, Adding
<1>7. WordsHold /\ DutiesHold /\ Mutex /\ SwapsHold /\ TomlHolds
  BY <1>1, <1>2, <1>6 DEF WordsHold, DutiesHold, Mutex, SwapsHold, TomlHolds, Listed, Adding
<1> QED BY <1>3, <1>5, <1>7 DEF LawInv

LEMMA LawNext ==
    ASSUME LawInv, [LW!Next]_LW!lwVars
    PROVE  /\ LawInv' /\ KeptIn(proposals, proposals')
           /\ LW!IsPrefix(head, head') \/ lwPast'.raced \/ UNCHANGED head
<1>1. CASE UNCHANGED LW!lwVars
  <2>1. UNCHANGED <<head, proposals, lineToml, running, req, add, lwPast>>
    BY <1>1 DEF LW!lwVars
  <2>2. WordsHold' /\ DutiesHold' /\ KeptIn(proposals, proposals')
    BY <2>1, KeptSame, WordsStay, DutiesStay DEF LawInv
  <2>3. LawTypes' /\ Mutex' /\ SwapsHold' /\ History(head, proposals)'
    BY <2>1 DEF LawInv, LawTypes, Mutex, SwapsHold
  <2> QED BY <2>1, <2>2, <2>3 DEF LawInv
<1>2. CASE LW!ServeRestart \/ \E h \in Approvers : LW!ApproveSwap(h)
  BY <1>2, ServeWrites, KeptSame
<1>3. ASSUME NEW h \in Approvers, LW!Propose(h) \/ LW!ProposalNumber(h) \/ LW!ProposalStore(h)
      PROVE  LawInv' /\ KeptIn(proposals, proposals') /\ head' = head
  BY <1>3, ProposeInv
<1>4. ASSUME NEW h \in Approvers, LW!ApproveCompare(h) \/ \E n \in 1..MaxProposals : LW!Approve(h, n)
      PROVE  LawInv' /\ KeptIn(proposals, proposals') /\ head' = head
  BY <1>4, ApproveInv, KeptSame
<1>5. ASSUME NEW o \in Adders,
             LW!AddRead(o) \/ LW!AddList(o) \/ LW!AddCompare(o) \/ LW!AddSwap(o) \/ LW!AddFile(o)
             \/ LW!AddUndo(o) \/ LW!AddCut(o)
      PROVE  LawInv' /\ KeptIn(proposals, proposals') /\ (LW!IsPrefix(head, head') \/ lwPast'.raced \/ UNCHANGED head)
  BY <1>5, AddStationInv, KeptSame
<1> QED BY <1>1, <1>2, <1>3, <1>4, <1>5 DEF LW!Next

LEMMA LawLands == LawInv => LW!ShownIsLanded
BY DEF LawInv, History, Shown, Offered, Keyed, LW!ShownIsLanded

LEMMA LawSteps ==
    ASSUME LawInv, [LW!Next]_LW!lwVars
    PROVE  /\ [LW!IsPrefix(head, head') \/ lwPast'.raced]_LW!lwVars
           /\ [\A n \in DOMAIN proposals : n \in DOMAIN proposals' /\ proposals'[n] = proposals[n]]_LW!lwVars
<1>1. head \in Seq(Content)
  BY DEF LawInv, History
<1>2. LW!IsPrefix(head, head)
  BY <1>1 DEF LW!IsPrefix
<1>3. KeptIn(proposals, proposals') /\ (LW!IsPrefix(head, head') \/ lwPast'.raced \/ UNCHANGED head)
  BY LawNext
<1> QED BY <1>2, <1>3 DEF KeptIn

(* However many requests and runs of `station add` there are at once, and     *)
(* wherever they are cut: what lands was shown to the king or is the owner's, *)
(* a proposal never changes under its number, and the history only grows      *)
(* unless two processes were inside UpdateRef together.                       *)
THEOREM AmendmentsAreKept ==
    LW!Spec => []LW!ShownIsLanded /\ LW!AmendmentKept /\ LW!ProposalKept
<1>1. LW!Init => LawInv
  BY LawInit
<1>2. LawInv /\ [LW!Next]_LW!lwVars => LawInv'
  BY LawNext
<1>3. LawInv /\ [LW!Next]_LW!lwVars => [LW!IsPrefix(head, head') \/ lwPast'.raced]_LW!lwVars
  BY LawSteps
<1>4. LawInv /\ [LW!Next]_LW!lwVars =>
          [\A n \in DOMAIN proposals : n \in DOMAIN proposals' /\ proposals'[n] = proposals[n]]_LW!lwVars
  BY LawSteps
<1> QED BY <1>1, <1>2, <1>3, <1>4, LawLands, PTL DEF LW!Spec, LW!AmendmentKept, LW!ProposalKept

(* And with one `station add` at a time line.toml lists a station exactly     *)
(* while it is added, or once it is trusted or its run was cut.               *)
THEOREM LawIsKept ==
    ASSUME OneAdder
    PROVE  LW!Spec => LawHolds
<1>1. LW!Init => LawInv /\ TomlHolds
  BY LawInit
<1>2. LawInv /\ TomlHolds /\ [LW!Next]_LW!lwVars => LawInv' /\ TomlHolds'
  <2> SUFFICES ASSUME LawInv, TomlHolds, [LW!Next]_LW!lwVars PROVE LawInv' /\ TomlHolds'
    OBVIOUS
  <2>1. LawInv'
    BY LawNext
  <2>2. CASE \E o \in Adders : LW!AddRead(o) \/ LW!AddList(o) \/ LW!AddCompare(o) \/ LW!AddSwap(o) \/ LW!AddFile(o)
                               \/ LW!AddUndo(o) \/ LW!AddCut(o)
    BY <2>2, <2>1, AddToml
  <2>3. CASE UNCHANGED <<add, lineToml>>
    BY <2>3, <2>1, TomlStays
  <2>4. \/ UNCHANGED <<add, lineToml>>
        \/ \E o \in Adders : LW!AddRead(o) \/ LW!AddList(o) \/ LW!AddCompare(o) \/ LW!AddSwap(o) \/ LW!AddFile(o)
                             \/ LW!AddUndo(o) \/ LW!AddCut(o)
    BY DEF LW!Next, LW!lwVars, LW!ServeRestart, LW!Propose, LW!ProposalNumber, LW!ProposalStore, LW!Approve,
           LW!ApproveCompare, LW!ApproveSwap
  <2> QED BY <2>2, <2>3, <2>4
<1>3. LawInv /\ TomlHolds => LW!ShownIsLanded /\ LW!StationIsTrusted
  BY LawLands DEF TomlHolds, Listed, Adding, LW!StationIsTrusted
<1>4. LW!Spec => [](LW!ShownIsLanded /\ LW!StationIsTrusted)
  BY <1>1, <1>2, <1>3, PTL DEF LW!Spec
<1> QED BY <1>4, AmendmentsAreKept, PTL DEF LawHolds, LW!LawHolds

==============================================================================
