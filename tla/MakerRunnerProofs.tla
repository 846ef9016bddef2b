-------------------------- MODULE MakerRunnerProofs --------------------------
(***************************************************************************)
(* Proofs about the maker stations, for every number of makers and cards,  *)
(* every ranking and every bound, and about the desk that their cards pass *)
(* through (CardsDesk), for every number of requests at once, any failures *)
(* and any delegations of the constitution.                                *)
(***************************************************************************)
EXTENDS MakerRunner, ServeParts, SequenceTheorems, TLAPS

(* The type invariant by owner: the tracker, the line and what runs on it, *)
(* the makers, the bounds.                                                 *)
TrackerType ==
    /\ status \in [Card -> {"open", "in_progress", "closed"}]
    /\ holder \in [Card -> Station \cup {Nobody}]
    /\ gaveUp \subseteq Card /\ needsKing \subseteq Card

LineType ==
    /\ master \in Seq(Card) /\ Len(master) <= MaxLands /\ stopped \in BOOLEAN
    /\ containers \subseteq Station \X Card

WorkType ==
    /\ list \in [Station -> SUBSET Card]
    /\ pre \in [Station -> 0..MaxLands]
    /\ tries \in [Station -> 0..SettleTries - 1]
    /\ cordPulled \in [Station -> BOOLEAN] /\ giveUp \in [Station -> BOOLEAN]
    /\ escalate \in [Station -> BOOLEAN]

CountType ==
    /\ attempts \in [Station -> [Card -> 0..MaxAttempts]]
    /\ stopping \in [Station -> BOOLEAN]

NoCardSteps == {"down", "idle", "stranded", "ready", "stop"}

PlaceType ==
    /\ at \in [Station -> Step]
    /\ card \in [Station -> Card \cup {NoCard}]
    /\ \A m \in Station : card[m] = NoCard <=> at[m] \in NoCardSteps

UsedType ==
    used \in [DOMAIN Bound -> Nat] /\ \A b \in DOMAIN Bound : used[b] <= Bound[b]

LEMMA TypeParts ==
    /\ TypeOK <=> /\ TrackerType /\ LineType /\ WorkType
                  /\ CountType /\ PlaceType /\ UsedType
    /\ TypeOK' <=> /\ TrackerType' /\ LineType' /\ WorkType'
                   /\ CountType' /\ PlaceType' /\ UsedType'
BY DEF TypeOK, TrackerType, LineType, WorkType, CountType, PlaceType, UsedType, NoCardSteps

(* What each small step on one maker, on the tracker and on the bounds     *)
(* does to its part.                                                       *)
LEMMA UseType ==
    ASSUME UsedType, NEW b \in DOMAIN Bound, Use(b)
    PROVE  UsedType' /\ (b = "crashes" => used'.crashes > 0)
                     /\ (b # "crashes" => used'.crashes = used.crashes)
BY MakerAssumption DEF UsedType, Use, Bound

LEMMA ForgetType ==
    ASSUME WorkType, NEW m \in Station, Forget(m)
    PROVE  WorkType'
BY MakerAssumption DEF WorkType, Forget

LEMMA RetryType ==
    ASSUME WorkType, NEW m \in Station, NEW step \in Step, Retry(m, step), UNCHANGED <<list, run>>
    PROVE  WorkType'
<1>1. tries[m] \in Nat /\ 0 \in 0..SettleTries - 1
  BY MakerAssumption DEF WorkType
<1>2. CASE tries[m] + 1 < SettleTries
  <2>1. tries[m] + 1 \in 0..SettleTries - 1
    BY <1>1, <1>2, MakerAssumption
  <2> QED BY <2>1, <1>2 DEF WorkType, Retry, run
<1>3. CASE ~(tries[m] + 1 < SettleTries)
  BY <1>1, <1>3 DEF WorkType, Retry, run
<1> QED BY <1>2, <1>3

LEMMA ReturnPlace ==
    ASSUME PlaceType, NEW m \in Station, Return(m)
    PROVE  PlaceType'
BY MakerAssumption DEF PlaceType, Return, Forget, Goto, Step, PreRun, NoCardSteps

LEMMA RetryPlace ==
    ASSUME PlaceType, NEW m \in Station, at[m] \notin NoCardSteps,
           NEW step \in Step \ NoCardSteps, Retry(m, step), UNCHANGED card
    PROVE  PlaceType'
BY MakerAssumption DEF PlaceType, Retry, Goto, Step, PreRun, NoCardSteps

LEMMA ClaimType ==
    ASSUME TrackerType, NEW c \in Card, NEW m \in Station, BdClaim(c, m) \/ BdUnclaim(c) \/ BdClose(c)
    PROVE  TrackerType'
BY DEF TrackerType, BdClaim, BdUnclaim, BdClose

(* A part nobody writes keeps its type; so does the rest of a failed call. *)
LEMMA Quiet ==
    ASSUME TypeOK
    PROVE  /\ UNCHANGED tracker => TrackerType'
           /\ UNCHANGED <<line, containers>> => LineType'
           /\ UNCHANGED <<list, run, settling>> => WorkType'
           /\ UNCHANGED <<attempts, stopping>> => CountType'
           /\ UNCHANGED <<at, run>> => PlaceType'
           /\ UNCHANGED used => UsedType'
<1> USE TypeParts
<1>1. UNCHANGED tracker => TrackerType'
  BY DEF TrackerType, tracker
<1>2. UNCHANGED <<line, containers>> => LineType'
  BY DEF LineType, line
<1>3. UNCHANGED <<list, run, settling>> => WorkType'
  BY DEF WorkType, run, settling
<1>4. UNCHANGED <<attempts, stopping>> => CountType'
  BY DEF CountType
<1>5. UNCHANGED <<at, run>> => PlaceType'
  BY DEF PlaceType, run
<1>6. UNCHANGED used => UsedType'
  BY DEF UsedType
<1> QED BY <1>1, <1>2, <1>3, <1>4, <1>5, <1>6

LEMMA FaultType == ASSUME TypeOK, Fault PROVE TrackerType' /\ UsedType'
BY TypeParts, Quiet, UseType DEF Fault, Bound

(* A maker that returns, or goes on with the same card or still without one*)
LEMMA ReturnType ==
    ASSUME TypeOK, NEW m \in Station, Return(m)
    PROVE  WorkType' /\ PlaceType'
BY TypeParts, ForgetType, ReturnPlace DEF Return

LEMMA GotoPlace ==
    ASSUME TypeOK, NEW m \in Station, NEW step \in Step, Goto(m, step), UNCHANGED card,
           at[m] \in NoCardSteps <=> step \in NoCardSteps
    PROVE  PlaceType'
BY TypeParts DEF PlaceType, Goto

(* Picking up work: from the list of stranded cards to the claim.          *)
LEMMA PickType ==
    ASSUME TypeOK, NEW m \in Station,
           \/ ListStranded(m) \/ ReleaseStranded(m) \/ ListReady(m)
           \/ ReadStop(m) \/ ReadPre(m) \/ Claim(m)
    PROVE  TypeOK'
<1> USE TypeParts
<1>1. CASE ListStranded(m)
  <2>1. LineType' /\ CountType'
    BY <1>1, Quiet DEF ListStranded
  <2>2. TrackerType' /\ UsedType'
    BY <1>1, Quiet, FaultType DEF ListStranded
  <2>3. PlaceType'
    BY <1>1, GotoPlace DEF ListStranded, run, Step, PreRun, NoCardSteps
  <2>4. WorkType'
    BY <1>1 DEF ListStranded, run, settling, WorkType, Claimed
  <2> QED BY <2>1, <2>2, <2>3, <2>4
<1>2. CASE ReleaseStranded(m)
  <2>1. LineType' /\ CountType'
    BY <1>2, Quiet DEF ReleaseStranded
  <2>2. TrackerType' /\ UsedType'
    BY <1>2, Quiet, FaultType, ClaimType DEF ReleaseStranded, Claimed
  <2>3. PlaceType'
    BY <1>2, GotoPlace DEF ReleaseStranded, run, Step, PreRun, NoCardSteps
  <2>4. WorkType'
    BY <1>2 DEF ReleaseStranded, run, settling, WorkType
  <2> QED BY <2>1, <2>2, <2>3, <2>4
<1>3. CASE ListReady(m)
  <2>1. LineType' /\ CountType'
    BY <1>3, Quiet DEF ListReady
  <2>2. TrackerType' /\ UsedType'
    BY <1>3, Quiet, FaultType DEF ListReady
  <2>3. PlaceType'
    BY <1>3, GotoPlace, ReturnType DEF ListReady, run, Step, PreRun, NoCardSteps
  <2>4. WorkType'
    <3>1. CASE Return(m)
      BY <3>1, ReturnType
    <3>2. CASE ~Return(m)
      BY <1>3, <3>2 DEF ListReady, run, settling, WorkType, Ready
    <3> QED BY <3>1, <3>2
  <2> QED BY <2>1, <2>2, <2>3, <2>4
<1>4. CASE ReadStop(m)
  <2>1. LineType' /\ CountType'
    BY <1>4, Quiet DEF ReadStop
  <2>2. TrackerType' /\ UsedType'
    BY <1>4, Quiet, FaultType DEF ReadStop
  <2>3. PlaceType' /\ WorkType'
    <3>1. CASE Return(m)
      BY <3>1, ReturnType
    <3>2. CASE ~Return(m)
      <4>1. PICK c \in Pick(list[m], stopped) :
              /\ card' = [card EXCEPT ![m] = c]
              /\ list' = [list EXCEPT ![m] = {}]
              /\ Goto(m, "pre")
              /\ UNCHANGED <<tracker, pre, cordPulled, settling, used>>
        BY <1>4, <3>2 DEF ReadStop
      <4>2. c \in Card
        BY <4>1 DEF Pick, WorkType
      <4>3. PlaceType'
        BY <4>1, <4>2, MakerAssumption DEF PlaceType, Goto, Step, PreRun, NoCardSteps
      <4>4. WorkType'
        BY <4>1 DEF WorkType, settling
      <4> QED BY <4>3, <4>4
    <3> QED BY <3>1, <3>2
  <2> QED BY <2>1, <2>2, <2>3
<1>5. CASE ReadPre(m)
  <2>1. LineType' /\ CountType'
    BY <1>5, Quiet DEF ReadPre
  <2>2. TrackerType' /\ UsedType'
    BY <1>5, Quiet, FaultType DEF ReadPre
  <2>3. PlaceType'
    BY <1>5, GotoPlace, ReturnType DEF ReadPre, Step, PreRun, NoCardSteps
  <2>4. WorkType'
    <3>1. CASE Return(m)
      BY <3>1, ReturnType
    <3>2. CASE ~Return(m)
      <4>1. Len(master) \in 0..MaxLands
        BY LenProperties, MakerAssumption DEF LineType
      <4> QED BY <1>5, <3>2, <4>1 DEF ReadPre, settling, WorkType
    <3> QED BY <3>1, <3>2
  <2> QED BY <2>1, <2>2, <2>3, <2>4
<1>6. CASE Claim(m)
  <2>1. LineType' /\ CountType'
    BY <1>6, Quiet DEF Claim
  <2>2. card[m] \in Card
    BY <1>6 DEF Claim, PlaceType, NoCardSteps
  <2>3. TrackerType' /\ UsedType'
    BY <1>6, <2>2, Quiet, ClaimType, UseType DEF Claim, Bound
  <2>4. PlaceType' /\ WorkType'
    <3>1. CASE Return(m)
      BY <3>1, ReturnType
    <3>2. CASE Goto(m, "start") /\ UNCHANGED <<list, run, settling>>
      BY <3>2, <1>6, Quiet, GotoPlace DEF Claim, run, Step, PreRun, NoCardSteps
    <3> QED BY <1>6, <3>1, <3>2 DEF Claim
  <2> QED BY <2>1, <2>2, <2>3, <2>4
<1> QED BY <1>1, <1>2, <1>3, <1>4, <1>5, <1>6

(* A run that ends, whatever ended it.                                     *)
LEMMA RunEndsType ==
    ASSUME TypeOK, NEW m \in Station, NEW why, RunEnds(m, why), at[m] \in {"start", "run"}
    PROVE  TrackerType' /\ WorkType' /\ CountType' /\ PlaceType'
<1> USE TypeParts DEF RunEnds
<1>1. TrackerType'
  BY Quiet
<1>2. PlaceType'
  BY GotoPlace DEF run, Step, PreRun, NoCardSteps
<1>3. WorkType'
  BY DEF WorkType, run
<1>4. CountType'
  <2>1. card[m] \in Card
    BY DEF PlaceType, NoCardSteps
  <2>2. attempts[m][card[m]] \in 0..MaxAttempts
    BY <2>1 DEF CountType
  <2>3. CASE attempts' = attempts
    BY <2>3, Quiet
  <2>4. CASE /\ attempts[m][card[m]] + 1 <= MaxAttempts
             /\ attempts' = [attempts EXCEPT ![m][card[m]] = attempts[m][card[m]] + 1]
    <3>1. attempts[m][card[m]] + 1 \in 0..MaxAttempts
      BY <2>2, <2>4, MakerAssumption
    <3> QED BY <2>1, <2>4, <3>1 DEF CountType
  <2> QED BY <2>3, <2>4
<1> QED BY <1>1, <1>2, <1>3, <1>4

(* The run, and the look at master after it.                               *)
LEMMA RunType ==
    ASSUME TypeOK, NEW m \in Station,
           StartRun(m) \/ CancelRun(m) \/ EndRun(m) \/ ReadLanded(m)
    PROVE  TypeOK'
<1> USE TypeParts
<1>0. at[m] \in {"start", "run"} => <<m, card[m]>> \in Station \X Card
  BY DEF PlaceType, NoCardSteps
<1>1. CASE StartRun(m)
  <2>1. at[m] = "start"
    BY <1>1 DEF StartRun
  <2>2. LineType'
    BY <1>0, <1>1, <2>1 DEF StartRun, RunEnds, LineType, line
  <2>3. UsedType'
    BY <1>1, Quiet, UseType DEF StartRun, Bound
  <2>4. CASE \E why : RunEnds(m, why)
    BY <2>1, <2>2, <2>3, <2>4, RunEndsType
  <2>5. CASE Goto(m, "run") /\ UNCHANGED <<tracker, list, run, settling, attempts, stopping>>
    BY <2>1, <2>2, <2>3, <2>5, Quiet, GotoPlace DEF run, Step, PreRun, NoCardSteps
  <2> QED BY <1>1, <2>4, <2>5 DEF StartRun
<1>2. CASE CancelRun(m)
  <2>1. WorkType' /\ PlaceType'
    BY <1>2 DEF CancelRun, WorkType, PlaceType, settling
  <2> QED BY <1>2, <2>1, Quiet DEF CancelRun
<1>3. CASE EndRun(m)
  <2>1. PICK why \in {"exit", "timeout", "cut", "engine"} :
          /\ RunEnds(m, why)
          /\ \/ /\ containers' = containers \ {<<m, card[m]>>}
                /\ IF why = "engine" THEN Use("faults") ELSE UNCHANGED used
             \/ Use("crashes") /\ UNCHANGED containers
    BY <1>3 DEF EndRun
  <2>2. at[m] = "run"
    BY <1>3 DEF EndRun
  <2>3. LineType'
    BY <2>1 DEF RunEnds, LineType, line
  <2>4. UsedType'
    BY <2>1, Quiet, UseType DEF Bound
  <2> QED BY <2>1, <2>2, <2>3, <2>4, RunEndsType
<1>4. CASE ReadLanded(m)
  <2>1. LineType' /\ CountType'
    BY <1>4, Quiet DEF ReadLanded
  <2>2. TrackerType' /\ UsedType'
    BY <1>4, Quiet, FaultType DEF ReadLanded
  <2>3. CASE Retry(m, "landed")
    BY <1>4, <2>1, <2>2, <2>3, RetryType, RetryPlace
       DEF ReadLanded, run, Step, PreRun, NoCardSteps
  <2>4. CASE NextStep(m, "close") \/ NextStep(m, "release")
    <3>1. PlaceType'
      BY <1>4, <2>4, GotoPlace DEF ReadLanded, NextStep, run, Step, PreRun, NoCardSteps
    <3>2. WorkType'
      BY <1>4, <2>4, MakerAssumption DEF ReadLanded, NextStep, WorkType, run
    <3> QED BY <2>1, <2>2, <3>1, <3>2
  <2> QED BY <1>4, <2>3, <2>4 DEF ReadLanded
<1> QED BY <1>1, <1>2, <1>3, <1>4
(* Settling: the close or the release, and the give-up after it.           *)
LEMMA SettleType ==
    ASSUME TypeOK, NEW m \in Station,
           \/ CheckClose(m) \/ Close(m) \/ Release(m)
           \/ CheckGiveUp(m) \/ LabelGaveUp(m) \/ LabelNeedsKing(m)
    PROVE  TypeOK'
<1> USE TypeParts
<1>0. card[m] \in Card /\ at[m] \notin NoCardSteps
  BY DEF CheckClose, Close, Release, CheckGiveUp, LabelGaveUp, LabelNeedsKing,
         PlaceType, NoCardSteps
<1>1. CASE CheckClose(m)
  <2>1. LineType' /\ CountType'
    BY <1>1, Quiet DEF CheckClose
  <2>2. TrackerType' /\ UsedType'
    BY <1>1, Quiet, FaultType DEF CheckClose
  <2>3. CASE Retry(m, "close")
    BY <1>0, <1>1, <2>1, <2>2, <2>3, RetryType, RetryPlace
       DEF CheckClose, run, Step, PreRun, NoCardSteps
  <2>4. CASE Goto(m, "close_bd") /\ UNCHANGED settling
    BY <1>1, <2>1, <2>2, <2>4, Quiet, GotoPlace
       DEF CheckClose, run, Step, PreRun, NoCardSteps
  <2> QED BY <1>1, <2>3, <2>4 DEF CheckClose
<1>2. CASE Close(m)
  <2>1. LineType' /\ CountType'
    BY <1>2, Quiet DEF Close
  <2>2. TrackerType' /\ UsedType'
    BY <1>0, <1>2, Quiet, FaultType, ClaimType, UseType DEF Close, Bound
  <2>3. CASE Retry(m, "close") /\ UNCHANGED <<list, run>>
    BY <1>0, <2>1, <2>2, <2>3, RetryType, RetryPlace
       DEF run, Step, PreRun, NoCardSteps
  <2>4. CASE Return(m)
    BY <2>1, <2>2, <2>4, ReturnType
  <2> QED BY <1>2, <2>3, <2>4 DEF Close
<1>3. CASE Release(m)
  <2>1. LineType'
    BY <1>3, Quiet DEF Release
  <2>2. TrackerType' /\ UsedType'
    BY <1>0, <1>3, Quiet, FaultType, ClaimType, UseType DEF Release, Bound
  <2>3. CountType'
    <3>1. CASE UNCHANGED attempts
      BY <1>3, <3>1, Quiet DEF Release
    <3>2. CASE attempts' = [attempts EXCEPT ![m][card[m]] = 0]
      BY <1>0, <1>3, <3>2, MakerAssumption DEF Release, CountType
    <3> QED BY <1>3, <3>1, <3>2 DEF Release
  <2>4. CASE Retry(m, "release") /\ UNCHANGED <<list, run>>
    BY <1>0, <2>1, <2>2, <2>3, <2>4, RetryType, RetryPlace
       DEF run, Step, PreRun, NoCardSteps
  <2>5. CASE Return(m)
    BY <2>1, <2>2, <2>3, <2>5, ReturnType
  <2>6. CASE /\ escalate' = [escalate EXCEPT ![m] = card[m] \in Andon]
             /\ tries' = [tries EXCEPT ![m] = 0]
             /\ Goto(m, "giveup") /\ UNCHANGED <<list, run, giveUp>>
    <3>1. WorkType'
      BY <2>6, MakerAssumption DEF WorkType, run
    <3>2. PlaceType'
      BY <1>0, <2>6, GotoPlace DEF run, Step, PreRun, NoCardSteps
    <3> QED BY <2>1, <2>2, <2>3, <3>1, <3>2
  <2> QED BY <1>3, <2>4, <2>5, <2>6 DEF Release
<1>4. CASE CheckGiveUp(m)
  <2>1. LineType' /\ CountType'
    BY <1>4, Quiet DEF CheckGiveUp
  <2>2. TrackerType' /\ UsedType'
    BY <1>4, Quiet, FaultType DEF CheckGiveUp
  <2>3. CASE Return(m)
    BY <2>1, <2>2, <2>3, ReturnType
  <2>4. CASE Goto(m, "giveup_label") /\ UNCHANGED <<list, run, settling>>
    BY <1>0, <2>1, <2>2, <2>4, Quiet, GotoPlace DEF run, Step, PreRun, NoCardSteps
  <2> QED BY <1>4, <2>3, <2>4 DEF CheckGiveUp
<1>5. CASE LabelGaveUp(m)
  <2>1. LineType' /\ CountType'
    BY <1>5, Quiet DEF LabelGaveUp
  <2>2. TrackerType'
    BY <1>0, <1>5, FaultType DEF LabelGaveUp, TrackerType
  <2>3. UsedType'
    BY <1>5, Quiet, FaultType DEF LabelGaveUp
  <2>4. CASE Return(m)
    BY <2>1, <2>2, <2>3, <2>4, ReturnType
  <2>5. CASE Goto(m, "giveup_king") /\ UNCHANGED <<list, run, settling>>
    BY <1>0, <2>1, <2>2, <2>3, <2>5, Quiet, GotoPlace DEF run, Step, PreRun, NoCardSteps
  <2> QED BY <1>5, <2>4, <2>5 DEF LabelGaveUp
<1>6. CASE LabelNeedsKing(m)
  <2>1. LineType' /\ CountType'
    BY <1>6, Quiet DEF LabelNeedsKing
  <2>2. TrackerType'
    BY <1>0, <1>6, FaultType DEF LabelNeedsKing, TrackerType
  <2>3. UsedType'
    BY <1>6, Quiet, FaultType DEF LabelNeedsKing
  <2> QED BY <1>6, <2>1, <2>2, <2>3, ReturnType DEF LabelNeedsKing
<1> QED BY <1>1, <1>2, <1>3, <1>4, <1>5, <1>6

(* Signals, deaths and starts of a maker.                                  *)
LEMMA LifeType ==
    ASSUME TypeOK, NEW m \in Station, Signal(m) \/ Exit(m) \/ Crash(m) \/ Restart(m)
    PROVE  TypeOK'
<1> USE TypeParts
<1>1. CASE Signal(m)
  <2>1. CountType'
    BY <1>1 DEF Signal, CountType
  <2>2. UsedType'
    BY <1>1, UseType DEF Signal, Bound
  <2> QED BY <1>1, <2>1, <2>2, Quiet DEF Signal
<1>2. CASE Exit(m) \/ Crash(m)
  <2>1. LeaveLoop(m)
    BY <1>2 DEF Exit, Crash
  <2>2. TrackerType' /\ LineType'
    BY <2>1, Quiet DEF LeaveLoop
  <2>3. WorkType'
    BY <2>1, ForgetType DEF LeaveLoop
  <2>4. CountType'
    BY <2>1, MakerAssumption DEF LeaveLoop, CountType
  <2>5. PlaceType'
    BY <2>1, MakerAssumption DEF LeaveLoop, PlaceType, Goto, Forget, Step, PreRun, NoCardSteps
  <2>6. UsedType'
    BY <1>2, Quiet, UseType DEF Exit, Crash, Bound
  <2> QED BY <2>2, <2>3, <2>4, <2>5, <2>6
<1>3. CASE Restart(m)
  <2>1. PlaceType'
    BY <1>3, GotoPlace DEF Restart, run, Step, PreRun, NoCardSteps
  <2> QED BY <1>3, <2>1, Quiet DEF Restart
<1> QED BY <1>1, <1>2, <1>3

(* The agents, the cord and the viceroy.                                   *)
LEMMA LineMovesType ==
    ASSUME TypeOK,
           \/ \E m \in Station, c \in Card : OrphanExits(m, c)
           \/ \E m \in Station, c, named \in Card : Land(m, c, named)
           \/ Pull \/ Clear \/ \E c \in Card : viceroyLabels(c)
    PROVE  TypeOK'
<1> USE TypeParts
<1>1. ASSUME NEW m \in Station, NEW c \in Card, OrphanExits(m, c) PROVE TypeOK'
  <2>1. LineType'
    BY <1>1 DEF OrphanExits, LineType, line
  <2> QED BY <1>1, <2>1, Quiet DEF OrphanExits, maker
<1>2. ASSUME NEW m \in Station, NEW c \in Card, NEW named \in Card, Land(m, c, named)
      PROVE  TypeOK'
  <2>1. LineType'
    <3>1. Append(master, named) \in Seq(Card) /\ Len(Append(master, named)) = Len(master) + 1
      BY AppendProperties DEF LineType
    <3> QED BY <1>2, <3>1, LenProperties, MakerAssumption DEF Land, LineType
  <2> QED BY <1>2, <2>1, Quiet DEF Land, maker
<1>3. CASE Pull \/ Clear
  <2>1. LineType'
    BY <1>3 DEF Pull, Clear, LineType
  <2>2. UsedType'
    BY <1>3, Quiet, UseType DEF Pull, Clear, Bound
  <2> QED BY <1>3, <2>1, <2>2, Quiet DEF Pull, Clear, maker
<1>4. ASSUME NEW c \in Card, viceroyLabels(c) PROVE TypeOK'
  <2>1. TrackerType'
    BY <1>4 DEF viceroyLabels, TrackerType
  <2>2. UsedType'
    BY <1>4, UseType DEF viceroyLabels, Bound
  <2> QED BY <1>4, <2>1, <2>2, Quiet DEF viceroyLabels, maker
<1> QED BY <1>1, <1>2, <1>3, <1>4

LEMMA TypeInit == Init => TypeOK
<1> SUFFICES ASSUME Init PROVE TypeOK
  OBVIOUS
<1>1. TrackerType /\ WorkType /\ CountType /\ PlaceType
  BY MakerAssumption DEF Init, TrackerType, WorkType, CountType, PlaceType, Step, PreRun,
                         NoCardSteps
<1>2. LineType
  BY EmptySeq, MakerAssumption DEF Init, LineType
<1>3. UsedType
  BY MakerAssumption DEF Init, UsedType, Bound
<1> QED BY <1>1, <1>2, <1>3, TypeParts

LEMMA TypeStep == TypeOK /\ [Next]_vars => TypeOK'
<1> SUFFICES ASSUME TypeOK, [Next]_vars PROVE TypeOK'
  OBVIOUS
<1>1. CASE UNCHANGED vars
  BY <1>1, TypeParts, Quiet DEF vars, maker
<1>2. CASE Next
  BY <1>2, PickType, RunType, SettleType, LifeType, LineMovesType DEF Next, Once
<1> QED BY <1>1, <1>2

(* Makers, cards and the line stay of their kinds, and a maker past its    *)
(* pick has a card (runner.go).                                            *)
THEOREM TypeCorrect == Spec => []TypeOK
<1>1. Init => TypeOK
  BY TypeInit
<1>2. TypeOK /\ [Next]_vars => TypeOK'
  BY TypeStep
<1> QED BY <1>1, <1>2, PTL DEF Spec
-----------------------------------------------------------------------------
(* The inductive invariant.  A maker holds its card from the claim to the  *)
(* look at master; on the way to the close it is still the assignee of a   *)
(* card that is not open, and a commit of its run names that card.  While  *)
(* nobody died and every removal worked, a container has its maker waiting.*)
Closing == {"close", "close_bd"}

Working == {"start", "run", "landed"}

Holds(m) ==
    /\ at[m] \in Working => card[m] \in Claimed(m)
    /\ at[m] \in Closing => /\ holder[card[m]] = m
                            /\ status[card[m]] \in {"in_progress", "closed"}
                            /\ Landed(m)

Waited ==
    used.crashes = 0 => \A w \in containers : at[w[1]] = "run" /\ card[w[1]] = w[2]

IInv == TypeOK /\ (\A m \in Station : Holds(m)) /\ Waited

(* What one maker's step does to the tracker, and to the other makers.     *)
TrackerMove(m) ==
    \/ UNCHANGED <<status, holder>>
    \/ at[m] = "claim" /\ Claimable(card[m]) /\ BdClaim(card[m], m)
    \/ \E c \in Claimed(m) : BdUnclaim(c)
    \/ at[m] = "close_bd" /\ BdClose(card[m])

OthersKeep(m) ==
    \A n \in Station \ {m} : at'[n] = at[n] /\ card'[n] = card[n] /\ pre'[n] = pre[n]

MakerStep(m) ==
    Once(m) \/ CancelRun(m) \/ Signal(m) \/ Exit(m) \/ Crash(m) \/ Restart(m)

LEMMA FaultMove == ASSUME NEW m \in Station, Fault PROVE TrackerMove(m)
BY DEF Fault, TrackerMove, tracker

LEMMA PickMove ==
    ASSUME NEW m \in Station,
           \/ ListStranded(m) \/ ReleaseStranded(m) \/ ListReady(m)
           \/ ReadStop(m) \/ ReadPre(m) \/ Claim(m)
    PROVE  TrackerMove(m)
<1>1. CASE ListStranded(m)
  BY <1>1, FaultMove DEF ListStranded, tracker, TrackerMove
<1>2. CASE ReleaseStranded(m)
  BY <1>2, FaultMove DEF ReleaseStranded, tracker, TrackerMove
<1>3. CASE ListReady(m)
  BY <1>3, FaultMove DEF ListReady, tracker, TrackerMove
<1>4. CASE ReadStop(m)
  BY <1>4, FaultMove DEF ReadStop, tracker, TrackerMove
<1>5. CASE ReadPre(m)
  BY <1>5, FaultMove DEF ReadPre, tracker, TrackerMove
<1>6. CASE Claim(m)
  BY <1>6 DEF Claim, tracker, TrackerMove
<1> QED BY <1>1, <1>2, <1>3, <1>4, <1>5, <1>6

LEMMA SettleMove ==
    ASSUME NEW m \in Station,
           \/ StartRun(m) \/ EndRun(m) \/ ReadLanded(m)
           \/ CheckClose(m) \/ Close(m) \/ Release(m)
           \/ CheckGiveUp(m) \/ LabelGaveUp(m) \/ LabelNeedsKing(m)
    PROVE  TrackerMove(m)
<1>1. CASE StartRun(m) \/ EndRun(m)
  BY <1>1 DEF StartRun, EndRun, RunEnds, tracker, TrackerMove
<1>2. CASE ReadLanded(m)
  BY <1>2, FaultMove DEF ReadLanded, tracker, TrackerMove
<1>3. CASE CheckClose(m)
  BY <1>3, FaultMove DEF CheckClose, tracker, TrackerMove
<1>4. CASE Close(m)
  BY <1>4, FaultMove DEF Close, TrackerMove
<1>5. CASE Release(m)
  BY <1>5, FaultMove DEF Release, tracker, TrackerMove
<1>6. CASE CheckGiveUp(m)
  BY <1>6, FaultMove DEF CheckGiveUp, tracker, TrackerMove
<1>7. CASE LabelGaveUp(m) \/ LabelNeedsKing(m)
  BY <1>7, FaultMove DEF LabelGaveUp, LabelNeedsKing, TrackerMove
<1> QED BY <1>1, <1>2, <1>3, <1>4, <1>5, <1>6, <1>7

LEMMA MoveOfMaker ==
    ASSUME NEW m \in Station, MakerStep(m)
    PROVE  TrackerMove(m) /\ UNCHANGED master
<1>1. TrackerMove(m)
  <2>1. CASE Once(m)
    BY <2>1, PickMove, SettleMove DEF Once
  <2>2. CASE CancelRun(m) \/ Signal(m) \/ Exit(m) \/ Crash(m) \/ Restart(m)
    BY <2>2 DEF CancelRun, Signal, Exit, Crash, Restart, LeaveLoop, TrackerMove, tracker
  <2> QED BY <2>1, <2>2 DEF MakerStep
<1>2. UNCHANGED line
  <2>1. CASE ListStranded(m) \/ ReleaseStranded(m) \/ ListReady(m)
             \/ ReadStop(m) \/ ReadPre(m) \/ Claim(m)
    BY <2>1 DEF ListStranded, ReleaseStranded, ListReady, ReadStop, ReadPre, Claim
  <2>2. CASE StartRun(m) \/ EndRun(m) \/ ReadLanded(m)
    BY <2>2 DEF StartRun, EndRun, ReadLanded, RunEnds
  <2>3. CASE CheckClose(m) \/ Close(m) \/ Release(m)
             \/ CheckGiveUp(m) \/ LabelGaveUp(m) \/ LabelNeedsKing(m)
    BY <2>3 DEF CheckClose, Close, Release, CheckGiveUp, LabelGaveUp, LabelNeedsKing
  <2>4. CASE CancelRun(m) \/ Signal(m) \/ Exit(m) \/ Crash(m) \/ Restart(m)
    BY <2>4 DEF CancelRun, Signal, Exit, Crash, Restart, LeaveLoop
  <2> QED BY <2>1, <2>2, <2>3, <2>4 DEF MakerStep, Once
<1> QED BY <1>1, <1>2 DEF line

LEMMA ReturnOthers ==
    ASSUME TypeOK, NEW m \in Station, Return(m)
    PROVE  OthersKeep(m) /\ at'[m] = "idle"
BY TypeParts DEF Return, Goto, Forget, OthersKeep, PlaceType, WorkType

LEMMA GotoOthers ==
    ASSUME TypeOK, NEW m \in Station, NEW step, Goto(m, step), UNCHANGED run
    PROVE  OthersKeep(m) /\ at'[m] = step /\ UNCHANGED <<card, pre>>
BY TypeParts DEF Goto, run, OthersKeep, PlaceType

LEMMA RetryOthers ==
    ASSUME TypeOK, NEW m \in Station, NEW step, Retry(m, step), UNCHANGED run
    PROVE  OthersKeep(m) /\ at'[m] \in {step, "giveup"} /\ UNCHANGED <<card, pre>>
BY GotoOthers DEF Retry

LEMMA OthersOfMaker ==
    ASSUME TypeOK, NEW m \in Station, MakerStep(m)
    PROVE  OthersKeep(m)
<1> USE TypeParts
<1>1. CASE ListStranded(m) \/ ReleaseStranded(m)
  BY <1>1, GotoOthers DEF ListStranded, ReleaseStranded
<1>2. CASE ListReady(m)
  BY <1>2, GotoOthers, ReturnOthers DEF ListReady
<1>3. CASE ReadStop(m)
  <2>1. CASE Return(m)
    BY <2>1, ReturnOthers
  <2>2. CASE ~Return(m)
    BY <1>3, <2>2 DEF ReadStop, Goto, OthersKeep, PlaceType
  <2> QED BY <2>1, <2>2
<1>4. CASE ReadPre(m)
  <2>1. CASE Return(m)
    BY <2>1, ReturnOthers
  <2>2. CASE ~Return(m)
    BY <1>4, <2>2 DEF ReadPre, Goto, OthersKeep, PlaceType, WorkType
  <2> QED BY <2>1, <2>2
<1>5. CASE Claim(m)
  BY <1>5, GotoOthers, ReturnOthers DEF Claim
<1>6. CASE StartRun(m)
  BY <1>6, GotoOthers DEF StartRun, RunEnds
<1>7. CASE EndRun(m)
  BY <1>7, GotoOthers DEF EndRun, RunEnds
<1>8. CASE ReadLanded(m)
  BY <1>8, GotoOthers, RetryOthers DEF ReadLanded, NextStep
<1>9. CASE CheckClose(m)
  BY <1>9, GotoOthers, RetryOthers DEF CheckClose
<1>10. CASE Close(m)
  BY <1>10, ReturnOthers, RetryOthers DEF Close
<1>11. CASE Release(m)
  BY <1>11, GotoOthers, ReturnOthers, RetryOthers DEF Release
<1>12. CASE CheckGiveUp(m) \/ LabelGaveUp(m) \/ LabelNeedsKing(m)
  BY <1>12, GotoOthers, ReturnOthers DEF CheckGiveUp, LabelGaveUp, LabelNeedsKing
<1>13. CASE CancelRun(m) \/ Signal(m)
  BY <1>13 DEF CancelRun, Signal, OthersKeep, run
<1>14. CASE Exit(m) \/ Crash(m)
  <2>1. Goto(m, "down") /\ Forget(m)
    BY <1>14 DEF Exit, Crash, LeaveLoop
  <2> QED BY <2>1 DEF Goto, Forget, OthersKeep, PlaceType, WorkType
<1>15. CASE Restart(m)
  BY <1>15, GotoOthers DEF Restart
<1> QED BY <1>1, <1>2, <1>3, <1>4, <1>5, <1>6, <1>7, <1>8, <1>9, <1>10, <1>11,
           <1>12, <1>13, <1>14, <1>15 DEF MakerStep, Once
(* Master only grows, so what has landed stays landed.                     *)
LEMMA LandedKept ==
    ASSUME TypeOK, NEW m \in Station, Landed(m), pre'[m] = pre[m], card'[m] = card[m],
           \/ UNCHANGED master
           \/ \E named \in Card : master' = Append(master, named)
    PROVE  Landed(m)'
<1>1. master \in Seq(Card) /\ pre[m] \in Nat /\ Len(master) \in Nat
  BY TypeParts, LenProperties DEF LineType, WorkType
<1>2. PICK i \in pre[m] + 1..Len(master) : master[i] = card[m]
  BY DEF Landed
<1>3. Len(master') >= Len(master) /\ Len(master') \in Nat /\ master'[i] = master[i]
  BY <1>1, <1>2, AppendProperties
<1>4. i \in pre'[m] + 1..Len(master')
  BY <1>1, <1>2, <1>3
<1> QED BY <1>2, <1>3, <1>4 DEF Landed

(* No other maker's step takes a card from its holder.                     *)
LEMMA OthersHold ==
    ASSUME IInv, NEW m \in Station, TrackerMove(m), OthersKeep(m), UNCHANGED master,
           NEW n \in Station \ {m}
    PROVE  Holds(n)'
<1> DEFINE c == card[n]
<1>1. at'[n] = at[n] /\ card'[n] = card[n] /\ pre'[n] = pre[n]
  BY DEF OthersKeep
<1>2. at[n] \in Working \cup Closing => c \in Card
  BY TypeParts DEF IInv, PlaceType, NoCardSteps, Working, Closing
<1>3. Holds(n) /\ Holds(m) /\ TypeOK
  BY DEF IInv
<1>4. at[m] = "claim" /\ Claimable(card[m]) => card[m] \in Card
  BY <1>3, TypeParts DEF PlaceType, NoCardSteps
<1>5. ASSUME holder[c] = n, status[c] \in {"in_progress", "closed"}, c \in Card
      PROVE  holder'[c] = n /\ status'[c] \in {"in_progress", "closed"}
             /\ (status[c] = "in_progress" => status'[c] = "in_progress")
  <2>1. CASE UNCHANGED <<status, holder>>
    BY <1>5, <2>1
  <2>2. CASE at[m] = "claim" /\ Claimable(card[m]) /\ BdClaim(card[m], m)
    <3>1. card[m] # c
      BY <1>5, <2>2 DEF Claimable
    <3> QED BY <1>3, <1>5, <2>2, <3>1, TypeParts DEF BdClaim, TrackerType
  <2>3. CASE \E d \in Claimed(m) : BdUnclaim(d)
    <3>1. PICK d \in Claimed(m) : BdUnclaim(d)
      BY <2>3
    <3>2. d # c
      BY <1>5 DEF Claimed
    <3> QED BY <1>3, <1>5, <3>1, <3>2, TypeParts DEF BdUnclaim, TrackerType
  <2>4. CASE at[m] = "close_bd" /\ BdClose(card[m])
    <3>1. card[m] # c
      BY <1>3, <1>5, <2>4 DEF Holds, Closing
    <3> QED BY <1>3, <1>5, <2>4, <3>1, TypeParts DEF BdClose, TrackerType
  <2> QED BY <2>1, <2>2, <2>3, <2>4 DEF TrackerMove
<1>6. at[n] \in Working => c \in Claimed(n)'
  BY <1>2, <1>3, <1>5 DEF Holds, Claimed
<1>7. at[n] \in Closing => holder'[c] = n /\ status'[c] \in {"in_progress", "closed"}
  BY <1>2, <1>3, <1>5 DEF Holds
<1>8. at[n] \in Closing => Landed(n)'
  BY <1>1, <1>3, LandedKept DEF Holds
<1> QED BY <1>1, <1>6, <1>7, <1>8 DEF Holds

(* A maker at no such step holds what is asked of it.                      *)
LEMMA HoldsElsewhere ==
    ASSUME NEW m \in Station, at'[m] \notin Working \cup Closing
    PROVE  Holds(m)'
BY DEF Holds

LEMMA HoldsStill ==
    ASSUME IInv, NEW m \in Station, at'[m] = at[m],
           UNCHANGED <<status, holder, card, pre, master>>
    PROVE  Holds(m)'
BY DEF IInv, Holds, Claimed, Landed

(* A maker that tries a settle step again, or gives the card up.           *)
LEMMA RetryHolds ==
    ASSUME IInv, NEW m \in Station, NEW step, Retry(m, step), UNCHANGED <<tracker, run, master>>,
           at[m] = step
    PROVE  Holds(m)'
<1>1. at'[m] \in {step, "giveup"} /\ UNCHANGED <<card, pre>>
  BY RetryOthers DEF IInv
<1>2. CASE at'[m] = step
  BY <1>1, <1>2, HoldsStill DEF tracker
<1>3. CASE at'[m] = "giveup"
  BY <1>3, HoldsElsewhere DEF Working, Closing
<1> QED BY <1>1, <1>2, <1>3

LEMMA ReturnHolds ==
    ASSUME TypeOK, NEW m \in Station, Return(m)
    PROVE  Holds(m)'
BY ReturnOthers, HoldsElsewhere DEF Working, Closing

(* A maker's own step, up to the end of the run.                           *)
LEMMA WorkHolds ==
    ASSUME IInv, NEW m \in Station,
           \/ ListStranded(m) \/ ReleaseStranded(m) \/ ListReady(m)
           \/ ReadStop(m) \/ ReadPre(m) \/ Claim(m) \/ StartRun(m) \/ EndRun(m)
    PROVE  Holds(m)'
<1> USE DEF Working, Closing
<1>0. TypeOK /\ PlaceType /\ TrackerType /\ Holds(m)
  BY TypeParts DEF IInv
<1>1. CASE ListStranded(m) \/ ReleaseStranded(m)
  BY <1>0, <1>1, GotoOthers, HoldsElsewhere DEF ListStranded, ReleaseStranded
<1>2. CASE ListReady(m) \/ ReadStop(m) \/ ReadPre(m)
  <2>1. CASE Return(m)
    BY <1>0, <2>1, ReturnHolds
  <2>2. CASE ~Return(m)
    <3>1. Goto(m, "stop") \/ Goto(m, "pre") \/ Goto(m, "claim")
      BY <1>2, <2>2 DEF ListReady, ReadStop, ReadPre
    <3> QED BY <1>0, <3>1, HoldsElsewhere DEF Goto, PlaceType
  <2> QED BY <2>1, <2>2
<1>3. CASE Claim(m)
  <2>1. CASE Return(m)
    BY <1>0, <2>1, ReturnHolds
  <2>2. CASE BdClaim(card[m], m) /\ Goto(m, "start") /\ UNCHANGED run
    <3>1. card[m] \in Card
      BY <1>0, <1>3 DEF Claim, PlaceType, NoCardSteps
    <3>2. at'[m] = "start" /\ card' = card
      BY <1>0, <2>2, GotoOthers
    <3>3. card[m] \in Claimed(m)'
      BY <1>0, <2>2, <3>1 DEF BdClaim, Claimed, TrackerType
    <3> QED BY <3>2, <3>3 DEF Holds
  <2> QED BY <1>3, <2>1, <2>2 DEF Claim
<1>4. CASE StartRun(m) \/ EndRun(m)
  <2>1. at[m] \in {"start", "run"} /\ UNCHANGED <<tracker, run>>
        /\ (Goto(m, "run") \/ Goto(m, "landed"))
    BY <1>4 DEF StartRun, EndRun, RunEnds
  <2>2. at'[m] \in {"run", "landed"} /\ UNCHANGED card
    BY <1>0, <2>1, GotoOthers
  <2> QED BY <1>0, <2>1, <2>2 DEF Holds, Claimed, tracker
<1> QED BY <1>1, <1>2, <1>3, <1>4

(* A maker's own step while it settles.                                    *)
LEMMA SettleHolds ==
    ASSUME IInv, NEW m \in Station, UNCHANGED master,
           \/ ReadLanded(m) \/ CheckClose(m) \/ Close(m) \/ Release(m)
           \/ CheckGiveUp(m) \/ LabelGaveUp(m) \/ LabelNeedsKing(m)
    PROVE  Holds(m)'
<1> USE DEF Working, Closing
<1>0. TypeOK /\ PlaceType /\ TrackerType /\ Holds(m)
  BY TypeParts DEF IInv
<1>1. CASE ReadLanded(m)
  <2>1. at[m] = "landed" /\ UNCHANGED <<tracker, run>>
    BY <1>1 DEF ReadLanded, Fault
  <2>2. CASE NextStep(m, IF Landed(m) THEN "close" ELSE "release")
    <3>1. at'[m] = (IF Landed(m) THEN "close" ELSE "release") /\ UNCHANGED <<card, pre>>
      BY <1>0, <2>1, <2>2, GotoOthers DEF NextStep
    <3>2. CASE Landed(m)
      <4>1. Landed(m)'
        BY <1>0, <3>1, <3>2, LandedKept
      <4> QED BY <1>0, <2>1, <3>1, <3>2, <4>1 DEF Holds, Claimed, tracker
    <3>3. CASE ~Landed(m)
      BY <3>1, <3>3, HoldsElsewhere
    <3> QED BY <3>2, <3>3
  <2>3. CASE Retry(m, "landed")
    BY <2>1, <2>3, RetryHolds
  <2> QED BY <1>1, <2>2, <2>3 DEF ReadLanded
<1>2. CASE CheckClose(m)
  <2>1. at[m] = "close" /\ UNCHANGED <<tracker, run>>
    BY <1>2 DEF CheckClose, Fault
  <2>2. CASE Goto(m, "close_bd")
    <3>1. at'[m] = "close_bd" /\ UNCHANGED <<card, pre>>
      BY <1>0, <2>1, <2>2, GotoOthers
    <3>2. Landed(m)'
      BY <1>0, <2>1, <3>1, LandedKept DEF Holds
    <3> QED BY <1>0, <2>1, <3>1, <3>2 DEF Holds, tracker
  <2>3. CASE Retry(m, "close")
    BY <2>1, <2>3, RetryHolds
  <2> QED BY <1>2, <2>2, <2>3 DEF CheckClose
<1>3. CASE Close(m)
  <2>1. CASE Return(m)
    BY <1>0, <2>1, ReturnHolds
  <2>2. CASE Retry(m, "close") /\ UNCHANGED run
    <3>1. at'[m] \in {"close", "giveup"} /\ UNCHANGED <<card, pre>>
      BY <1>0, <2>2, RetryOthers
    <3>2. at[m] = "close_bd" /\ card[m] \in Card /\ Landed(m)'
      BY <1>0, <1>3, <3>1, LandedKept DEF Close, Holds, PlaceType, NoCardSteps
    <3>3. holder'[card[m]] = m /\ status'[card[m]] \in {"in_progress", "closed"}
      BY <1>0, <1>3, <3>2 DEF Close, Fault, tracker, BdClose, Holds, TrackerType
    <3> QED BY <3>1, <3>2, <3>3 DEF Holds
  <2> QED BY <1>3, <2>1, <2>2 DEF Close
<1>4. CASE Release(m) \/ CheckGiveUp(m) \/ LabelGaveUp(m) \/ LabelNeedsKing(m)
  <2>1. CASE Return(m)
    BY <1>0, <2>1, ReturnHolds
  <2>2. CASE ~Return(m)
    <3>1. \/ Goto(m, "giveup") \/ Goto(m, "giveup_label") \/ Goto(m, "giveup_king")
          \/ Retry(m, "release")
      BY <1>4, <2>2 DEF Release, CheckGiveUp, LabelGaveUp, LabelNeedsKing
    <3>2. at'[m] \in {"giveup", "giveup_label", "giveup_king", "release"}
      BY <1>0, <3>1 DEF Retry, Goto, PlaceType
    <3> QED BY <3>2, HoldsElsewhere
  <2> QED BY <2>1, <2>2
<1> QED BY <1>1, <1>2, <1>3, <1>4

(* Its signals, deaths and starts.                                         *)
LEMMA LifeHolds ==
    ASSUME IInv, NEW m \in Station, UNCHANGED master,
           CancelRun(m) \/ Signal(m) \/ Exit(m) \/ Crash(m) \/ Restart(m)
    PROVE  Holds(m)'
<1>1. CASE CancelRun(m) \/ Signal(m)
  BY <1>1, HoldsStill DEF CancelRun, Signal, tracker, run
<1>2. CASE Exit(m) \/ Crash(m) \/ Restart(m)
  <2>1. at'[m] \in {"down", "idle"}
    BY <1>2, TypeParts DEF Exit, Crash, Restart, LeaveLoop, Goto, IInv, PlaceType
  <2> QED BY <2>1, HoldsElsewhere DEF Working, Closing
<1> QED BY <1>1, <1>2

LEMMA HoldsStep ==
    ASSUME IInv, [Next]_vars, NEW n \in Station
    PROVE  Holds(n)'
<1>1. ASSUME NEW m \in Station, MakerStep(m) PROVE Holds(n)'
  <2>1. TrackerMove(m) /\ OthersKeep(m) /\ UNCHANGED master
    BY <1>1, MoveOfMaker, OthersOfMaker DEF IInv
  <2>2. CASE n = m
    BY <1>1, <2>1, <2>2, WorkHolds, SettleHolds, LifeHolds DEF MakerStep, Once
  <2>3. CASE n # m
    BY <2>1, <2>3, OthersHold
  <2> QED BY <2>2, <2>3
<1>2. ASSUME NEW m \in Station, NEW c \in Card, OrphanExits(m, c) PROVE Holds(n)'
  BY <1>2, HoldsStill DEF OrphanExits, maker, tracker, line, run
<1>3. ASSUME NEW m \in Station, NEW c \in Card, NEW named \in Card, Land(m, c, named)
      PROVE  Holds(n)'
  <2>1. /\ UNCHANGED <<status, holder, at, card, pre>>
        /\ master' = Append(master, named)
    BY <1>3 DEF Land, maker, tracker, run
  <2>2. at[n] \in Closing => Landed(n)'
    BY <2>1, LandedKept DEF IInv, Holds
  <2> QED BY <2>1, <2>2 DEF IInv, Holds, Claimed
<1>4. CASE Pull \/ Clear \/ \E c \in Card : viceroyLabels(c)
  BY <1>4, HoldsStill DEF Pull, Clear, viceroyLabels, maker, tracker, line, run
<1>5. CASE UNCHANGED vars
  BY <1>5, HoldsStill DEF vars, maker, tracker, line, run
<1> QED BY <1>1, <1>2, <1>3, <1>4, <1>5 DEF Next, MakerStep
-----------------------------------------------------------------------------
(* Deaths are only counted up.                                             *)
LEMMA DeathsCount ==
    ASSUME UsedType, UNCHANGED used \/ \E b \in DOMAIN Bound : Use(b), used'.crashes = 0
    PROVE  used.crashes = 0
BY UseType DEF UsedType, Bound

(* A maker that does not wait for a run has no container, as long as none  *)
(* died and every removal worked.                                          *)
LEMMA WaitedElsewhere ==
    ASSUME IInv, NEW m \in Station, OthersKeep(m), at[m] # "run",
           containers' \subseteq containers,
           used'.crashes = 0 => used.crashes = 0
    PROVE  Waited'
<1> SUFFICES ASSUME used'.crashes = 0, NEW w \in containers'
             PROVE  at'[w[1]] = "run" /\ card'[w[1]] = w[2]
  BY DEF Waited
<1>1. w \in containers /\ w[1] \in Station
  BY TypeParts DEF IInv, LineType
<1>2. at[w[1]] = "run" /\ card[w[1]] = w[2]
  BY <1>1 DEF IInv, Waited
<1> QED BY <1>1, <1>2 DEF OthersKeep

LEMMA WaitedMaker ==
    ASSUME IInv, NEW m \in Station, MakerStep(m)
    PROVE  Waited'
<1>0. /\ TypeOK /\ TrackerType /\ LineType /\ PlaceType /\ UsedType /\ Waited
      /\ OthersKeep(m)
  BY TypeParts, OthersOfMaker DEF IInv
<1> USE <1>0
<1>1. CASE \/ ListStranded(m) \/ ReleaseStranded(m) \/ ListReady(m)
           \/ ReadStop(m) \/ ReadPre(m) \/ Claim(m)
  <2>1. at[m] # "run" /\ UNCHANGED containers
    BY <1>1 DEF ListStranded, ReleaseStranded, ListReady, ReadStop, ReadPre, Claim
  <2>2. UNCHANGED used \/ Use("faults")
    BY <1>1 DEF ListStranded, ReleaseStranded, ListReady, ReadStop, ReadPre, Claim, Fault
  <2> QED BY <2>1, <2>2, DeathsCount, WaitedElsewhere DEF Bound
<1>2. CASE \/ ReadLanded(m) \/ CheckClose(m) \/ Close(m) \/ Release(m)
           \/ CheckGiveUp(m) \/ LabelGaveUp(m) \/ LabelNeedsKing(m)
  <2>1. at[m] # "run" /\ UNCHANGED containers
    BY <1>2 DEF ReadLanded, CheckClose, Close, Release, CheckGiveUp, LabelGaveUp,
                LabelNeedsKing
  <2>2. UNCHANGED used \/ Use("faults")
    BY <1>2 DEF ReadLanded, CheckClose, Close, Release, CheckGiveUp, LabelGaveUp,
                LabelNeedsKing, Fault
  <2> QED BY <2>1, <2>2, DeathsCount, WaitedElsewhere DEF Bound
<1>3. CASE StartRun(m)
  <2>0. at[m] = "start" /\ (UNCHANGED used \/ Use("faults"))
    BY <1>3 DEF StartRun
  <2>1. used'.crashes = 0 => used.crashes = 0
    BY <2>0, DeathsCount DEF Bound
  <2>2. CASE containers' \subseteq containers
    BY <2>0, <2>1, <2>2, WaitedElsewhere
  <2>3. CASE containers' = containers \cup {<<m, card[m]>>} /\ Goto(m, "run") /\ UNCHANGED run
    <3>1. at'[m] = "run" /\ UNCHANGED card
      BY <2>3, GotoOthers
    <3> SUFFICES ASSUME used'.crashes = 0, NEW w \in containers'
                 PROVE  at'[w[1]] = "run" /\ card'[w[1]] = w[2]
      BY DEF Waited
    <3>2. CASE w = <<m, card[m]>>
      BY <3>1, <3>2
    <3>3. CASE w \in containers
      <4>1. at[w[1]] = "run" /\ card[w[1]] = w[2] /\ w[1] \in Station
        BY <2>1, <3>3 DEF Waited, LineType
      <4> QED BY <2>0, <4>1 DEF OthersKeep
    <3> QED BY <2>3, <3>2, <3>3
  <2> QED BY <1>3, <2>2, <2>3 DEF StartRun
<1>4. CASE EndRun(m)
  <2>1. PICK why \in {"exit", "timeout", "cut", "engine"} :
          \/ /\ containers' = containers \ {<<m, card[m]>>}
             /\ IF why = "engine" THEN Use("faults") ELSE UNCHANGED used
          \/ Use("crashes") /\ UNCHANGED containers
    BY <1>4 DEF EndRun
  <2>2. CASE Use("crashes")
    BY <2>2, UseType DEF Waited, Bound
  <2>3. CASE containers' = containers \ {<<m, card[m]>>} /\ (UNCHANGED used \/ Use("faults"))
    <3> SUFFICES ASSUME used'.crashes = 0, NEW w \in containers'
                 PROVE  at'[w[1]] = "run" /\ card'[w[1]] = w[2]
      BY DEF Waited
    <3>1. w \in containers /\ w # <<m, card[m]>> /\ w \in Station \X Card
      BY <2>3 DEF LineType
    <3>2. at[w[1]] = "run" /\ card[w[1]] = w[2]
      BY <2>3, <3>1, DeathsCount DEF Waited, Bound
    <3>3. w[1] # m /\ w[1] \in Station
      BY <3>1, <3>2
    <3> QED BY <3>2, <3>3 DEF OthersKeep
  <2> QED BY <2>1, <2>2, <2>3
<1>5. CASE Crash(m)
  BY <1>5, UseType DEF Crash, Waited, Bound
<1>6. CASE Exit(m) \/ Restart(m)
  <2>1. at[m] # "run" /\ UNCHANGED <<containers, used>>
    BY <1>6 DEF Exit, Restart, LeaveLoop, PreRun
  <2> QED BY <2>1, WaitedElsewhere
<1>7. CASE CancelRun(m) \/ Signal(m)
  <2>1. UNCHANGED <<containers, at, card>> /\ (UNCHANGED used \/ Use("signals"))
    BY <1>7 DEF CancelRun, Signal, run
  <2> QED BY <2>1, DeathsCount DEF Waited, Bound
<1> QED BY <1>1, <1>2, <1>3, <1>4, <1>5, <1>6, <1>7 DEF MakerStep, Once

LEMMA WaitedStep == IInv /\ [Next]_vars => Waited'
<1> SUFFICES ASSUME IInv, [Next]_vars PROVE Waited'
  OBVIOUS
<1>0. Waited /\ UsedType
  BY TypeParts DEF IInv
<1>1. ASSUME NEW m \in Station, MakerStep(m) PROVE Waited'
  BY <1>1, WaitedMaker
<1>2. ASSUME NEW m \in Station, NEW c \in Card, OrphanExits(m, c) PROVE Waited'
  BY <1>0, <1>2 DEF OrphanExits, maker, run, Waited
<1>3. ASSUME NEW m \in Station, NEW c \in Card, NEW named \in Card, Land(m, c, named)
      PROVE  Waited'
  BY <1>0, <1>3 DEF Land, maker, run, Waited
<1>4. CASE Pull \/ Clear \/ \E c \in Card : viceroyLabels(c)
  <2>1. UNCHANGED <<containers, maker>>
        /\ (UNCHANGED used \/ Use("pulls") \/ Use("relabels"))
    BY <1>4 DEF Pull, Clear, viceroyLabels
  <2> QED BY <1>0, <2>1, DeathsCount DEF Waited, maker, run, Bound
<1>5. CASE UNCHANGED vars
  BY <1>0, <1>5 DEF vars, maker, run, Waited
<1> QED BY <1>1, <1>2, <1>3, <1>4, <1>5 DEF Next, MakerStep

LEMMA InvInit == Init => IInv
BY TypeInit DEF Init, IInv, Holds, Working, Closing, Waited

LEMMA InvStep == IInv /\ [Next]_vars => IInv'
BY TypeStep, HoldsStep, WaitedStep DEF IInv

LEMMA InvHolds == Spec => []IInv
<1>1. Init => IInv
  BY InvInit
<1>2. IInv /\ [Next]_vars => IInv'
  BY InvStep
<1> QED BY <1>1, <1>2, PTL DEF Spec

(* From the claim to the look at master a maker holds the card it works,   *)
(* and while nobody died no container runs without its maker               *)
(* (runner.go: once, run).                                                 *)
THEOREM MakersHoldTheirWork == Spec => []WorkIsClaimed
<1>1. IInv => WorkIsClaimed
  BY DEF IInv, Holds, Working, Waited, WorkIsClaimed
<1> QED BY <1>1, InvHolds, PTL

(* Nobody closes a card but its holder, for a commit of the run it just    *)
(* ended (runner.go: settle; the close route of cards.go).                 *)
THEOREM ClosesAreEarned == Spec => CloseIsEarned
<1> DEFINE Earned ==
      \A c \in Card : status[c] # "closed" /\ status'[c] = "closed" =>
        \E m \in Station : /\ card[m] = c /\ c \in Claimed(m)
                           /\ \E i \in pre[m] + 1..Len(master) : master[i] = c
<1>1. ASSUME IInv, [Next]_vars PROVE Earned
  <2> SUFFICES ASSUME NEW c \in Card, status[c] # "closed", status'[c] = "closed"
               PROVE  \E m \in Station :
                        /\ card[m] = c /\ c \in Claimed(m)
                        /\ \E i \in pre[m] + 1..Len(master) : master[i] = c
    OBVIOUS
  <2>0. TypeOK /\ TrackerType
    BY <1>1, TypeParts DEF IInv
  <2>1. \E m \in Station : MakerStep(m)
    BY <1>1 DEF Next, MakerStep, OrphanExits, Land, Pull, Clear, viceroyLabels, vars, tracker
  <2>2. PICK m \in Station : MakerStep(m)
    BY <2>1
  <2>3. at[m] = "close_bd" /\ BdClose(card[m])
    <3>1. TrackerMove(m)
      BY <2>2, MoveOfMaker
    <3> QED BY <2>0, <3>1 DEF TrackerMove, BdClaim, BdUnclaim, Claimed, TrackerType
  <2>4. card[m] = c
    BY <2>0, <2>3 DEF BdClose, TrackerType
  <2>5. Holds(m)
    BY <1>1 DEF IInv
  <2> QED BY <2>3, <2>4, <2>5 DEF Holds, Closing, Claimed, Landed
<1>2. IInv /\ [Next]_vars => [Earned]_vars
  BY <1>1
<1> QED BY <1>2, InvHolds, PTL DEF Spec, CloseIsEarned
----------------------------------------------------------------------------
(* The card desk. A handler's queue is judged by what each of its calls      *)
(* rests on: the king's words, the calls before it, or what they have left.  *)

Ops == {"add", "remove", "comment", "close", "create", "release", "approve", "revoke", "ledger?", "epic?"}
Args == {"", "line", "proposed", "gave-up", "deferred", "until", "needs:king", "gemba", "acceptance-request",
         "accepted", "declined", "answer", "approved", "deferral", "audit", "gave up", "remark"}
DeskCall == [op : Ops, id : CD!Ids, arg : Args]
DeskTypes ==
    /\ deskCards \in [CD!Ids -> [labels : SUBSET Args, status : {"none", "open", "closed"}, holder : {"none", "maker"},
                              comments : SUBSET Args]]
    /\ ledger \subseteq CD!Ids
    /\ todo \in [Handlers -> Seq(DeskCall)]
    /\ deskPast \in [king : SUBSET ({"approve"} \X CD!Ids), live : SUBSET CD!Ids, words : Nat, faults : Nat,
                     unrevoked : BOOLEAN]

(* What the king, the epic's delegation or a delegation of its own lets on.  *)
MayGoOn(id, king) ==
    \/ <<"approve", id>> \in king
    \/ id = CD!Card /\ <<"approve", CD!Epic>> \in king /\ \E d \in Delegations : CD!Inherits(d, id)
    \/ \E d \in Delegations : CD!Covers(d, id)
Justified(c, king) ==
    /\ c.op = "add" /\ c.arg = "line" => MayGoOn(c.id, king)
    /\ c.op = "approve" => <<"approve", c.id>> \in king
    /\ c.op = "epic?" => c.id = CD!Card /\ <<"approve", CD!Epic>> \in king
    /\ c.op = "remove" => c.arg \notin {"gemba", "declined"}
    /\ c.op \in {"close", "revoke"} => c.arg = ""

(* Calls that leave something for good, and those that must come after one.  *)
Lasting == {CD!Add(CD!New, "gemba"), CD!Add(CD!New, "declined"), CD!Comment(CD!New, "accepted"),
            CD!Comment(CD!New, "declined"), CD!Comment(CD!Card, "answer")}
Order == {<<CD!Add(CD!New, "acceptance-request"), CD!Add(CD!New, "gemba")>>,
          <<CD!Add(CD!New, "accepted"), CD!Comment(CD!New, "accepted")>>,
          <<CD!Add(CD!New, "declined"), CD!Comment(CD!New, "declined")>>,
          <<CD!Call("close", CD!New, ""), CD!Add(CD!New, "declined")>>}
Deeds == {d \in Lasting : d.arg \in IF d.op = "add" THEN deskCards[d.id].labels ELSE deskCards[d.id].comments}

Unblock == CD!Remove(CD!Card, "needs:king")
CloseEpic == CD!Call("close", CD!Epic, "")
RevokeEpic == CD!Call("revoke", CD!Epic, "")

Before(q, i, d) == \E j \in 1..(i - 1) : q[j] = d
InOrder(q, deeds) ==
    \A i \in 1..Len(q), d \in Lasting : <<q[i], d>> \in Order => d \in deeds \/ Before(q, i, d)
Answers(q, deeds) ==
    \A i \in 1..Len(q) : q[i] = Unblock =>
        \/ CD!Comment(CD!Card, "answer") \in deeds
        \/ Before(q, i, CD!Comment(CD!Card, "answer"))
        \/ i = 1 /\ q = <<Unblock, CD!Comment(CD!Card, "audit")>>
Spends(q) == \A i \in 1..Len(q) : q[i] = CloseEpic => i + 1 \in 1..Len(q) /\ q[i + 1] = RevokeEpic
Queue(q, deeds, king) ==
    /\ q \in Seq(DeskCall) /\ \A i \in 1..Len(q) : Justified(q[i], king)
    /\ InOrder(q, deeds) /\ Answers(q, deeds) /\ Spends(q)

(* An approval in the ledger that is spent is about to be revoked.           *)
LedgerHolds ==
    /\ \A id \in ledger : <<"approve", id>> \in deskPast.king
    /\ CD!Epic \in ledger /\ CD!Epic \notin deskPast.live /\ ~deskPast.unrevoked =>
           \E h \in Handlers : todo[h] # <<>> /\ Head(todo[h]) = RevokeEpic
DeskInv ==
    /\ DeskTypes /\ LedgerHolds /\ CD!LineIsTheKings /\ CD!VerdictHasReason
    /\ \A h \in Handlers : Queue(todo[h], Deeds, deskPast.king)

----------------------------------------------------------------------------
(* Queues.                                                                   *)

LEMMA IdsApart == /\ CD!Ids = {CD!Epic, CD!Card, CD!New}
                  /\ CD!Epic # CD!Card /\ CD!Epic # CD!New /\ CD!Card # CD!New
BY DEF CD!Ids, CD!Epic, CD!Card, CD!New

LEMMA JustifiedGrows ==
    ASSUME NEW c, NEW K, NEW L, K \subseteq L, Justified(c, K)
    PROVE  Justified(c, L)
BY DEF Justified, MayGoOn

LEMMA QueueGrows ==
    ASSUME NEW D, NEW E, D \subseteq E, NEW K, NEW L, K \subseteq L, NEW q, Queue(q, D, K)
    PROVE  Queue(q, E, L)
BY JustifiedGrows DEF Queue, InOrder, Answers

(* What the head of a queue has, and the queue once it is done.              *)
LEMMA QueueHead ==
    ASSUME NEW D, NEW K, NEW q, Queue(q, D, K), q # <<>>
    PROVE  /\ Head(q) \in DeskCall /\ Justified(Head(q), K)
           /\ \A d \in Lasting : <<Head(q), d>> \in Order => d \in D
           /\ Head(q) = Unblock =>
                  CD!Comment(CD!Card, "answer") \in D \/ q = <<Unblock, CD!Comment(CD!Card, "audit")>>
           /\ Head(q) = CloseEpic => Tail(q) # <<>> /\ Head(Tail(q)) = RevokeEpic
<1>1. q \in Seq(DeskCall) /\ 1 \in 1..Len(q) /\ Head(q) = q[1] /\ Len(q) \in Nat /\ Head(q) \in DeskCall
  BY DEF Queue
<1>2. \A d : ~Before(q, 1, d)
  BY DEF Before
<1>3. Head(q) = CloseEpic => Tail(q) # <<>> /\ Head(Tail(q)) = RevokeEpic
  <2> SUFFICES ASSUME Head(q) = CloseEpic PROVE Tail(q) # <<>> /\ Head(Tail(q)) = RevokeEpic
    OBVIOUS
  <2>1. 2 \in 1..Len(q) /\ q[2] = RevokeEpic
    BY <1>1 DEF Queue, Spends
  <2>2. PICK t : t = Tail(q)
    OBVIOUS
  <2>3. t \in Seq(DeskCall) /\ Len(t) = Len(q) - 1 /\ t[1] = q[2]
    BY <1>1, <2>1, <2>2
  <2>4. 1 \in 1..Len(t)
    BY <2>1, <2>3, <1>1
  <2>5. t # <<>>
    BY <2>4
  <2>6. Head(t) = t[1]
    BY <2>3, <2>5
  <2> QED BY <2>1, <2>2, <2>3, <2>5, <2>6
<1> QED BY <1>1, <1>2, <1>3 DEF Queue, InOrder, Answers

LEMMA QueueTail ==
    ASSUME NEW D, NEW E, D \subseteq E, NEW K, NEW q, Queue(q, D, K), q # <<>>,
           Head(q) \in Lasting => Head(q) \in E
    PROVE  Queue(Tail(q), E, K)
<1> DEFINE t == Tail(q)
<1>1. q \in Seq(DeskCall) /\ 1 \in 1..Len(q) /\ Head(q) = q[1] /\ Len(q) \in Nat
  BY DEF Queue
<1>2. t \in Seq(DeskCall) /\ Len(t) = Len(q) - 1 /\ \A i \in 1..Len(t) : i + 1 \in 1..Len(q) /\ t[i] = q[i + 1]
  BY <1>1
<1> HIDE DEF t
<1>3. ASSUME NEW i \in 1..Len(t), NEW d \in Lasting, Before(q, i + 1, d)
      PROVE  d \in E \/ Before(t, i, d)
  <2>1. PICK j \in 1..i : q[j] = d
    BY <1>3, <1>2 DEF Before
  <2>2. CASE j = 1
    BY <2>1, <2>2, <1>1
  <2>3. CASE j # 1
    <3>1. j - 1 \in 1..(i - 1) /\ j - 1 \in 1..Len(t) /\ t[j - 1] = q[j]
      BY <2>3, <1>1, <1>2
    <3> QED BY <3>1, <2>1 DEF Before
  <2> QED BY <2>2, <2>3
<1>4. InOrder(t, E)
  <2> SUFFICES ASSUME NEW i \in 1..Len(t), NEW d \in Lasting, <<t[i], d>> \in Order
               PROVE  d \in E \/ Before(t, i, d)
    BY DEF InOrder
  <2>1. d \in D \/ Before(q, i + 1, d)
    BY <1>2 DEF Queue, InOrder
  <2> QED BY <2>1, <1>3
<1>5. Answers(t, E)
  <2> SUFFICES ASSUME NEW i \in 1..Len(t), t[i] = Unblock
               PROVE  CD!Comment(CD!Card, "answer") \in E \/ Before(t, i, CD!Comment(CD!Card, "answer"))
    BY DEF Answers
  <2>1. i + 1 # 1 /\ i + 1 \in 1..Len(q) /\ q[i + 1] = Unblock
    BY <1>2, <1>1
  <2>2. CD!Comment(CD!Card, "answer") \in D \/ Before(q, i + 1, CD!Comment(CD!Card, "answer"))
    BY <2>1 DEF Queue, Answers
  <2>3. CD!Comment(CD!Card, "answer") \in Lasting
    BY DEF Lasting
  <2> QED BY <2>2, <2>3, <1>3
<1>6. Spends(t)
  <2> SUFFICES ASSUME NEW i \in 1..Len(t), t[i] = CloseEpic
               PROVE  i + 1 \in 1..Len(t) /\ t[i + 1] = RevokeEpic
    BY DEF Spends
  <2>1. (i + 1) + 1 \in 1..Len(q) /\ q[(i + 1) + 1] = RevokeEpic
    BY <1>2 DEF Queue, Spends
  <2>2. i + 1 \in 1..Len(t)
    BY <2>1, <1>1, <1>2
  <2> QED BY <2>1, <2>2, <1>2
<1>7. \A i \in 1..Len(t) : Justified(t[i], K)
  BY <1>2 DEF Queue
<1> QED BY <1>2, <1>4, <1>5, <1>6, <1>7 DEF Queue, t

(* A queue of calls that need no other.                                      *)
Free(king) == {c \in DeskCall : Justified(c, king) /\ c # Unblock /\ c # CloseEpic
                                /\ \A d \in Lasting : <<c, d>> \notin Order}

LEMMA FreeQueue ==
    ASSUME NEW D, NEW K, NEW q \in Seq(Free(K))
    PROVE  Queue(q, D, K)
<1>1. \A i \in 1..Len(q) : q[i] \in Free(K)
  OBVIOUS
<1>2. Len(q) \in Nat /\ DOMAIN q = 1..Len(q) /\ q = [i \in 1..Len(q) |-> q[i]]
  OBVIOUS
<1>3. \A i \in 1..Len(q) : q[i] \in DeskCall
  BY <1>1 DEF Free
<1>4. q \in Seq(DeskCall)
  BY <1>2, <1>3
<1> QED BY <1>1, <1>4 DEF Free, Queue, InOrder, Answers, Spends

----------------------------------------------------------------------------
(* A call that succeeds, and one that fails.                                 *)

LabelsAfter(c, id) ==
    IF id # c.id THEN deskCards[id].labels
    ELSE IF c.op = "add" THEN deskCards[id].labels \cup {c.arg}
    ELSE IF c.op = "remove" THEN deskCards[id].labels \ {c.arg} ELSE deskCards[id].labels
CommentsAfter(c, id) ==
    IF id = c.id /\ c.op = "comment" THEN deskCards[id].comments \cup {c.arg} ELSE deskCards[id].comments
StatusAfter(c, id) ==
    IF id # c.id THEN deskCards[id].status
    ELSE IF c.op = "close" THEN "closed" ELSE IF c.op = "create" THEN "open" ELSE deskCards[id].status

DeskCard == [labels : SUBSET Args, status : {"none", "open", "closed"}, holder : {"none", "maker"}, comments : SUBSET Args]

(* One record's change is all that a call does to the tracker.               *)
LEMMA Effects ==
    ASSUME DeskTypes, NEW c \in DeskCall, deskCards' = CD!Tracked(c)
    PROVE  /\ deskCards' \in [CD!Ids -> DeskCard]
           /\ \A id \in CD!Ids : /\ deskCards'[id].labels = LabelsAfter(c, id)
                                 /\ deskCards'[id].comments = CommentsAfter(c, id)
                                 /\ deskCards'[id].status = StatusAfter(c, id)
<1>1. deskCards \in [CD!Ids -> DeskCard] /\ c.id \in CD!Ids /\ c.arg \in Args /\ deskCards[c.id] \in DeskCard
  BY DEF DeskTypes, DeskCard, DeskCall
<1>2. CASE c.op \in {"add", "remove"}
  <2>1. PICK l \in SUBSET Args : l = LabelsAfter(c, c.id)
    BY <1>1, <1>2 DEF LabelsAfter, DeskCard
  <2>2. deskCards' = [deskCards EXCEPT ![c.id].labels = l]
    BY <1>1, <1>2, <2>1 DEF CD!Tracked, LabelsAfter
  <2>3. deskCards' = [deskCards EXCEPT ![c.id] = [deskCards[c.id] EXCEPT !.labels = l]]
    BY <2>2
  <2>4. [deskCards[c.id] EXCEPT !.labels = l] \in DeskCard
    BY <1>1 DEF DeskCard
  <2>5. PICK r \in DeskCard : r = [deskCards[c.id] EXCEPT !.labels = l]
    BY <2>4
  <2>6. r.labels = l /\ r.comments = deskCards[c.id].comments /\ r.status = deskCards[c.id].status
    BY <2>5, <1>1 DEF DeskCard
  <2>7. deskCards'[c.id] = r /\ deskCards' \in [CD!Ids -> DeskCard] /\ \A id \in CD!Ids : id # c.id => deskCards'[id] = deskCards[id]
    BY <2>3, <2>5, <1>1
  <2> QED BY <2>1, <2>6, <2>7, <1>2 DEF LabelsAfter, CommentsAfter, StatusAfter
<1>3. CASE c.op = "comment"
  <2>1. PICK l \in SUBSET Args : l = deskCards[c.id].comments \cup {c.arg}
    BY <1>1 DEF DeskCard
  <2>2. deskCards' = [deskCards EXCEPT ![c.id].comments = l]
    BY <1>1, <1>3, <2>1 DEF CD!Tracked
  <2>3. deskCards' = [deskCards EXCEPT ![c.id] = [deskCards[c.id] EXCEPT !.comments = l]]
    BY <2>2
  <2>4. [deskCards[c.id] EXCEPT !.comments = l] \in DeskCard
    BY <1>1 DEF DeskCard
  <2>5. PICK r \in DeskCard : r = [deskCards[c.id] EXCEPT !.comments = l]
    BY <2>4
  <2>6. r.comments = l /\ r.labels = deskCards[c.id].labels /\ r.status = deskCards[c.id].status
    BY <2>5, <1>1 DEF DeskCard
  <2>7. deskCards'[c.id] = r /\ deskCards' \in [CD!Ids -> DeskCard] /\ \A id \in CD!Ids : id # c.id => deskCards'[id] = deskCards[id]
    BY <2>3, <2>5, <1>1
  <2> QED BY <2>1, <2>6, <2>7, <1>3 DEF LabelsAfter, CommentsAfter, StatusAfter
<1>4. CASE c.op = "close"
  <2>2. deskCards' = [deskCards EXCEPT ![c.id].status = "closed", ![c.id].holder = "none"]
    BY <1>4 DEF CD!Tracked
  <2>3. deskCards' = [deskCards EXCEPT ![c.id] = [deskCards[c.id] EXCEPT !.status = "closed", !.holder = "none"]]
    BY <2>2, <1>1
  <2>4. [deskCards[c.id] EXCEPT !.status = "closed", !.holder = "none"] \in DeskCard
    BY <1>1 DEF DeskCard
  <2> QED BY <1>1, <1>4, <2>3, <2>4 DEF LabelsAfter, CommentsAfter, StatusAfter, DeskCard
<1>5. CASE c.op = "create"
  <2>2. deskCards' = [deskCards EXCEPT ![c.id].status = "open"]
    BY <1>5 DEF CD!Tracked
  <2>3. deskCards' = [deskCards EXCEPT ![c.id] = [deskCards[c.id] EXCEPT !.status = "open"]]
    BY <2>2
  <2>4. [deskCards[c.id] EXCEPT !.status = "open"] \in DeskCard
    BY <1>1 DEF DeskCard
  <2> QED BY <1>1, <1>5, <2>3, <2>4 DEF LabelsAfter, CommentsAfter, StatusAfter, DeskCard
<1>6. CASE c.op = "release"
  <2>2. deskCards' = [deskCards EXCEPT ![c.id].holder = "none"]
    BY <1>6 DEF CD!Tracked
  <2>3. deskCards' = [deskCards EXCEPT ![c.id] = [deskCards[c.id] EXCEPT !.holder = "none"]]
    BY <2>2
  <2>4. [deskCards[c.id] EXCEPT !.holder = "none"] \in DeskCard
    BY <1>1 DEF DeskCard
  <2> QED BY <1>1, <1>6, <2>3, <2>4 DEF LabelsAfter, CommentsAfter, StatusAfter, DeskCard
<1>7. CASE c.op \notin {"add", "remove", "comment", "close", "create", "release"}
  <2>1. deskCards' = deskCards
    BY <1>7 DEF CD!Tracked
  <2> QED BY <1>1, <1>7, <2>1 DEF LabelsAfter, CommentsAfter, StatusAfter
<1> QED BY <1>2, <1>3, <1>4, <1>5, <1>6, <1>7

LEMMA LastingIds == \A d \in Lasting : d.id \in CD!Ids /\ d.op \in {"add", "comment"}
                        /\ (d.op = "add" => d.arg \in {"gemba", "declined"}) /\ d = CD!Call(d.op, d.id, d.arg)
BY IdsApart DEF Lasting, CD!Add, CD!Comment, CD!Call

LEMMA DeedsGrow ==
    ASSUME DeskTypes, NEW c \in DeskCall, NEW K, Justified(c, K), deskCards' = CD!Tracked(c)
    PROVE  Deeds \subseteq Deeds' /\ (c \in Lasting => c \in Deeds')
<1>1. ASSUME NEW d \in Lasting, d \in Deeds \/ d = c PROVE d \in Deeds'
  <2>1. d.id \in CD!Ids /\ (d.op = "add" => d.arg \in {"gemba", "declined"}) /\ d.op \in {"add", "comment"}
    BY LastingIds
  <2>2. deskCards'[d.id].labels = LabelsAfter(c, d.id) /\ deskCards'[d.id].comments = CommentsAfter(c, d.id)
    BY <2>1, Effects
  <2>3. CASE d.op = "add"
    BY <1>1, <2>1, <2>2, <2>3 DEF Deeds, LabelsAfter, Justified
  <2>4. CASE d.op = "comment"
    BY <1>1, <2>1, <2>2, <2>4 DEF Deeds, CommentsAfter
  <2> QED BY <2>1, <2>3, <2>4
<1> QED BY <1>1 DEF Deeds

(* What the labels and comments of the first cards say of what was done.     *)
LEMMA DeedsTell ==
    ASSUME NEW c, c \in Deeds
    PROVE  IF c.op = "add" THEN c.arg \in deskCards[c.id].labels ELSE c.arg \in deskCards[c.id].comments
BY DEF Deeds

(* A call that does its work, whether or not the handler hears of it.         *)
DeskPastType ==
    [king : SUBSET ({"approve"} \X CD!Ids), live : SUBSET CD!Ids, words : Nat, faults : Nat, unrevoked : BOOLEAN]

LEMMA EffectInv ==
    ASSUME DeskInv, NEW h \in Handlers, NEW c, todo[h] # <<>>, c = Head(todo[h]),
           deskCards' = CD!Tracked(c), ledger' = CD!Ledgered(c),
           NEW q, todo' = [todo EXCEPT ![h] = q], q = Tail(todo[h]) \/ q = <<>>,
           deskPast' \in DeskPastType, deskPast'.king = deskPast.king,
           deskPast'.live = CD!Noted(c).live,
           ~deskPast'.unrevoked => ~deskPast.unrevoked /\ (c = CloseEpic => q = Tail(todo[h]))
    PROVE  DeskInv'
<1>1. /\ todo[h] # <<>> /\ Queue(todo[h], Deeds, deskPast.king) /\ DeskTypes
      /\ deskCards' = CD!Tracked(c) /\ ledger' = CD!Ledgered(c)
      /\ todo' = [todo EXCEPT ![h] = q]
  BY DEF DeskInv
<1>2. /\ c \in DeskCall /\ Justified(c, deskPast.king)
      /\ \A d \in Lasting : <<c, d>> \in Order => d \in Deeds
      /\ c = CloseEpic => Tail(todo[h]) # <<>> /\ Head(Tail(todo[h])) = RevokeEpic
  BY <1>1, QueueHead
<1>3. Deeds \subseteq Deeds' /\ (c \in Lasting => c \in Deeds')
  BY <1>1, <1>2, DeedsGrow
<1>4. /\ deskCards' \in [CD!Ids -> DeskCard]
      /\ \A id \in CD!Ids : /\ deskCards'[id].labels = LabelsAfter(c, id)
                            /\ deskCards'[id].comments = CommentsAfter(c, id)
                            /\ deskCards'[id].status = StatusAfter(c, id)
  BY <1>1, <1>2, Effects
<1>5. /\ deskPast'.king = deskPast.king /\ deskPast' \in DeskPastType
      /\ deskPast'.live = IF c.op = "approve" THEN deskPast.live \cup {c.id}
                          ELSE IF c.op = "close" THEN deskPast.live \ {c.id} ELSE deskPast.live
  BY <1>1 DEF CD!Noted, DeskTypes
<1>6. todo'[h] = q /\ \A k \in Handlers : k # h => todo'[k] = todo[k]
  BY <1>1 DEF DeskTypes
<1>7. ASSUME NEW k \in Handlers PROVE Queue(todo[k], Deeds, deskPast.king)' 
  <2>1. CASE k = h
    <3>1. CASE q = Tail(todo[h])
      BY <2>1, <3>1, <1>1, <1>3, <1>5, <1>6, QueueTail
    <3>2. CASE q = <<>>
      <4>1. <<>> \in Seq(Free(deskPast'.king))
        OBVIOUS
      <4>2. Queue(<<>>, Deeds', deskPast'.king)
        BY <4>1, FreeQueue
      <4> QED BY <2>1, <3>2, <4>2, <1>6
    <3> QED BY <3>1, <3>2
  <2>2. CASE k # h
    <3>1. Queue(todo[k], Deeds', deskPast.king)
      BY <1>3, QueueGrows DEF DeskInv
    <3> QED BY <3>1, <2>2, <1>5, <1>6
  <2> QED BY <2>1, <2>2
<1>8. DeskTypes'
  <2>1. \A k \in Handlers : todo'[k] \in Seq(DeskCall)
    BY <1>7 DEF Queue
  <2>2. todo' \in [Handlers -> Seq(DeskCall)]
    BY <2>1, <1>1 DEF DeskTypes
  <2>3. ledger' \subseteq CD!Ids
    BY <1>1, <1>2 DEF DeskTypes, DeskCall, CD!Ledgered
  <2> QED BY <2>2, <2>3, <1>4, <1>5 DEF DeskTypes, DeskCard, DeskPastType
<1>9. CD!LineIsTheKings'
  <2> SUFFICES ASSUME NEW id \in CD!Ids, "line" \in deskCards'[id].labels PROVE MayGoOn(id, deskPast.king)
    BY <1>5 DEF CD!LineIsTheKings, CD!Has, MayGoOn
  <2>1. "line" \in deskCards[id].labels \/ (c.op = "add" /\ c.id = id /\ c.arg = "line")
    BY <1>4 DEF LabelsAfter
  <2> QED BY <2>1, <1>2 DEF DeskInv, Justified, MayGoOn, CD!LineIsTheKings, CD!Has
<1>10. CD!VerdictHasReason'
  <2>0. CD!New \in CD!Ids
    BY IdsApart
  <2>1. c.op = "add" /\ c.id = CD!New => c = CD!Add(CD!New, c.arg)
    BY <1>2 DEF DeskCall, CD!Add, CD!Call
  <2>2. c.op = "close" /\ c.id = CD!New => c = CD!Call("close", CD!New, "")
    BY <1>2 DEF DeskCall, CD!Call, Justified
  <2>3. "acceptance-request" \in deskCards'[CD!New].labels => "gemba" \in deskCards'[CD!New].labels
    <3>1. "acceptance-request" \in deskCards[CD!New].labels \/ c = CD!Add(CD!New, "acceptance-request")
          \/ "acceptance-request" \notin deskCards'[CD!New].labels
      BY <1>4, <2>0, <2>1 DEF LabelsAfter
    <3>2. c = CD!Add(CD!New, "acceptance-request") => CD!Add(CD!New, "gemba") \in Deeds
      BY <1>2 DEF Order, Lasting
    <3>3. CD!Add(CD!New, "gemba") \in Deeds => "gemba" \in deskCards[CD!New].labels
      BY DeedsTell DEF CD!Add, CD!Call
    <3>4. "gemba" \in deskCards[CD!New].labels => "gemba" \in deskCards'[CD!New].labels
      BY <1>2, <1>4, <2>0 DEF LabelsAfter, Justified
    <3> QED BY <3>1, <3>2, <3>3, <3>4 DEF DeskInv, CD!VerdictHasReason, CD!Has
  <2>4. ASSUME NEW s \in {"accepted", "declined"}, s \in deskCards'[CD!New].labels
        PROVE  s \in deskCards'[CD!New].comments
    <3>1. s \in deskCards[CD!New].labels \/ c = CD!Add(CD!New, s)
      BY <1>4, <2>0, <2>1, <2>4 DEF LabelsAfter
    <3>2. c = CD!Add(CD!New, s) => CD!Comment(CD!New, s) \in Deeds
      BY <1>2 DEF Order, Lasting
    <3>3. CD!Comment(CD!New, s) \in Deeds => s \in deskCards[CD!New].comments
      BY DeedsTell DEF CD!Comment, CD!Call
    <3>4. s \in deskCards[CD!New].comments => s \in deskCards'[CD!New].comments
      BY <1>4, <2>0 DEF CommentsAfter
    <3> QED BY <3>1, <3>2, <3>3, <3>4 DEF DeskInv, CD!VerdictHasReason, CD!Has
  <2>5. deskCards'[CD!New].status = "closed" => "declined" \in deskCards'[CD!New].labels
    <3>1. deskCards'[CD!New].status = "closed" => deskCards[CD!New].status = "closed" \/ c = CD!Call("close", CD!New, "")
      BY <1>4, <2>0, <2>2 DEF StatusAfter
    <3>2. c = CD!Call("close", CD!New, "") => CD!Add(CD!New, "declined") \in Deeds
      BY <1>2 DEF Order, Lasting
    <3>3. CD!Add(CD!New, "declined") \in Deeds => "declined" \in deskCards[CD!New].labels
      BY DeedsTell DEF CD!Add, CD!Call
    <3>4. "declined" \in deskCards[CD!New].labels => "declined" \in deskCards'[CD!New].labels
      BY <1>2, <1>4, <2>0 DEF LabelsAfter, Justified
    <3> QED BY <3>1, <3>2, <3>3, <3>4 DEF DeskInv, CD!VerdictHasReason, CD!Has
  <2> QED BY <2>3, <2>4, <2>5 DEF CD!VerdictHasReason, CD!Has
<1>11. LedgerHolds'
  <2>1. \A id \in ledger' : <<"approve", id>> \in deskPast'.king
    BY <1>1, <1>2, <1>5 DEF DeskInv, LedgerHolds, CD!Ledgered, Justified
  <2>2. ASSUME CD!Epic \in ledger', CD!Epic \notin deskPast'.live, ~deskPast'.unrevoked
        PROVE  \E k \in Handlers : todo'[k] # <<>> /\ Head(todo'[k]) = RevokeEpic
    <3>1. c # RevokeEpic
      <4> SUFFICES ASSUME c = RevokeEpic PROVE FALSE
        OBVIOUS
      <4>1. RevokeEpic.op = "revoke" /\ RevokeEpic.id = CD!Epic
        BY DEF RevokeEpic, CD!Call
      <4>2. c.op = "revoke" /\ c.id = CD!Epic
        BY <4>1
      <4>3. CD!Epic \notin ledger'
        BY <4>2, <1>1 DEF CD!Ledgered
      <4> QED BY <4>3, <2>2
    <3>2. CASE c.op = "close" /\ c.id = CD!Epic
      <4>1. c = CloseEpic
        BY <3>2, <1>2 DEF DeskCall, CloseEpic, CD!Call, Justified
      <4> QED BY <4>1, <2>2, <1>2, <1>6
    <3>3. CASE ~(c.op = "close" /\ c.id = CD!Epic)
      <4>1. c.op = "approve" => c.id # CD!Epic
        BY <1>5, <2>2
      <4>2. CD!Epic \in ledger /\ CD!Epic \notin deskPast.live /\ ~deskPast.unrevoked
        <5>1. CD!Epic \in ledger
          BY <4>1, <1>1, <2>2 DEF CD!Ledgered
        <5>2. CD!Epic \notin deskPast.live
          BY <3>3, <4>1, <1>5, <2>2
        <5> QED BY <5>1, <5>2, <2>2
      <4>3. PICK k \in Handlers : todo[k] # <<>> /\ Head(todo[k]) = RevokeEpic
        BY <4>2 DEF DeskInv, LedgerHolds
      <4>4. k # h
        BY <4>3, <3>1
      <4> QED BY <4>3, <4>4, <1>6
    <3> QED BY <3>2, <3>3
  <2> QED BY <2>1, <2>2 DEF LedgerHolds
<1> QED BY <1>7, <1>8, <1>9, <1>10, <1>11 DEF DeskInv

(* What is noted of a call, as far as the ledger is judged by it.             *)
LEMMA NotedFacts ==
    ASSUME DeskTypes, NEW h \in Handlers, todo[h] # <<>>, NEW c, c = Head(todo[h])
    PROVE  /\ CD!Noted(c) \in DeskPastType /\ CD!Noted(c).king = deskPast.king
           /\ CD!Noted(c).unrevoked = deskPast.unrevoked
<1>1. deskPast \in DeskPastType
  BY DEF DeskTypes, DeskPastType
<1>2. c.id \in CD!Ids
  <2>1. todo[h] \in Seq(DeskCall)
    BY DEF DeskTypes
  <2>2. Head(todo[h]) \in DeskCall
    BY <2>1
  <2> QED BY <2>2 DEF DeskCall
<1>3. PICK l \in SUBSET CD!Ids : l = IF c.op = "approve" THEN deskPast.live \cup {c.id}
                        ELSE IF c.op = "close" THEN deskPast.live \ {c.id} ELSE deskPast.live
  BY <1>1, <1>2 DEF DeskPastType
<1>4. CD!Noted(c) = [deskPast EXCEPT !.live = l]
  BY <1>1, <1>3 DEF CD!Noted, DeskPastType
<1> QED BY <1>1, <1>4 DEF DeskPastType

LEMMA StepInv ==
    ASSUME DeskInv, NEW h \in Handlers, CD!Step(h)
    PROVE  DeskInv'
<1>1. PICK c : c = Head(todo[h])
  OBVIOUS
<1>2. PICK q : q = Tail(todo[h])
  OBVIOUS
<1>3. /\ todo[h] # <<>> /\ deskCards' = CD!Tracked(c) /\ ledger' = CD!Ledgered(c) /\ deskPast' = CD!Noted(c)
      /\ todo' = [todo EXCEPT ![h] = q] /\ DeskTypes
  BY <1>1, <1>2 DEF CD!Step, DeskInv
<1>4. /\ deskPast' \in DeskPastType /\ deskPast'.king = deskPast.king
      /\ deskPast'.live = CD!Noted(c).live /\ deskPast'.unrevoked = deskPast.unrevoked
  BY <1>1, <1>3, NotedFacts
<1> QED BY <1>1, <1>2, <1>3, <1>4, EffectInv

LEMMA LosesInv ==
    ASSUME DeskInv, NEW h \in Handlers, CD!StepLosesAnswer(h)
    PROVE  DeskInv'
<1>1. PICK c : c = Head(todo[h])
  OBVIOUS
<1>2. PICK d : d = CD!Noted(c)
  OBVIOUS
<1>3. /\ todo[h] # <<>> /\ deskCards' = CD!Tracked(c) /\ ledger' = CD!Ledgered(c)
      /\ deskPast' = [d EXCEPT !.faults = @ + 1, !.unrevoked = @ \/ c = CloseEpic]
      /\ todo' = [todo EXCEPT ![h] = <<>>] /\ DeskTypes
  BY <1>1, <1>2 DEF CD!StepLosesAnswer, DeskInv, CloseEpic
<1>4. d \in DeskPastType /\ d.king = deskPast.king /\ d.unrevoked = deskPast.unrevoked
  BY <1>1, <1>2, <1>3, NotedFacts
<1>5. PICK b \in BOOLEAN : b = (d.unrevoked \/ c = CloseEpic)
  OBVIOUS
<1>6. PICK n \in Nat : n = d.faults + 1
  BY <1>4 DEF DeskPastType
<1>7. deskPast' = [d EXCEPT !.faults = n, !.unrevoked = b]
  BY <1>3, <1>5, <1>6
<1>8. /\ deskPast' \in DeskPastType /\ deskPast'.king = d.king /\ deskPast'.live = d.live /\ deskPast'.unrevoked = b
  BY <1>4, <1>7 DEF DeskPastType
<1>9. ~b => ~deskPast.unrevoked /\ c # CloseEpic
  BY <1>4, <1>5
<1>10. PICK q : q = <<>>
  OBVIOUS
<1> QED BY <1>1, <1>2, <1>3, <1>4, <1>8, <1>9, <1>10, EffectInv

----------------------------------------------------------------------------
(* Words: a queue that is new or replaced, while labels, comments and the    *)
(* ledger stay.                                                              *)

CardsStay ==
    /\ deskCards' \in [CD!Ids -> DeskCard]
    /\ \A id \in CD!Ids : /\ deskCards'[id].labels = deskCards[id].labels /\ deskCards'[id].comments = deskCards[id].comments
                          /\ deskCards'[id].status = deskCards[id].status

LEMMA Requeue ==
    ASSUME DeskInv, NEW h \in Handlers, NEW q, todo' = [todo EXCEPT ![h] = q], CardsStay, ledger' = ledger,
           deskPast' \in [king : SUBSET ({"approve"} \X CD!Ids), live : SUBSET CD!Ids, words : Nat, faults : Nat,
                          unrevoked : BOOLEAN],
           deskPast.king \subseteq deskPast'.king, deskPast'.live = deskPast.live,
           ~deskPast'.unrevoked => ~deskPast.unrevoked /\ (todo[h] # <<>> => Head(todo[h]) # RevokeEpic),
           Queue(q, Deeds, deskPast'.king)
    PROVE  DeskInv'
<1>1. todo'[h] = q /\ \A k \in Handlers : k # h => todo'[k] = todo[k]
  BY DEF DeskInv, DeskTypes
<1>2. Deeds' = Deeds
  <2>1. \A d \in Lasting : d.id \in CD!Ids
    BY LastingIds
  <2> QED BY <2>1 DEF Deeds, CardsStay
<1>3. \A k \in Handlers : Queue(todo[k], Deeds, deskPast.king)'
  <2> SUFFICES ASSUME NEW k \in Handlers PROVE Queue(todo'[k], Deeds, deskPast'.king)
    BY <1>2
  <2>1. Queue(todo[k], Deeds, deskPast'.king)
    BY QueueGrows DEF DeskInv
  <2> QED BY <2>1, <1>1
<1>4. DeskTypes'
  <2>1. \A k \in Handlers : todo'[k] \in Seq(DeskCall)
    BY <1>3 DEF Queue
  <2>2. todo' \in [Handlers -> Seq(DeskCall)]
    BY <2>1 DEF DeskInv, DeskTypes
  <2> QED BY <2>2 DEF DeskInv, DeskTypes, CardsStay, DeskCard
<1>5. CD!LineIsTheKings'
  BY DEF DeskInv, CD!LineIsTheKings, CD!Has, CardsStay
<1>6. CD!VerdictHasReason'
  BY IdsApart DEF DeskInv, CD!VerdictHasReason, CD!Has, CardsStay
<1>7. LedgerHolds'
  <2>1. \A id \in ledger' : <<"approve", id>> \in deskPast'.king
    BY DEF DeskInv, LedgerHolds
  <2>2. ASSUME CD!Epic \in ledger', CD!Epic \notin deskPast'.live, ~deskPast'.unrevoked
        PROVE  \E k \in Handlers : todo'[k] # <<>> /\ Head(todo'[k]) = RevokeEpic
    <3>1. PICK k \in Handlers : todo[k] # <<>> /\ Head(todo[k]) = RevokeEpic
      BY <2>2 DEF DeskInv, LedgerHolds
    <3>2. k # h
      BY <3>1, <2>2
    <3> QED BY <3>1, <3>2, <1>1
  <2> QED BY <2>1, <2>2 DEF LedgerHolds
<1> QED BY <1>3, <1>4, <1>5, <1>6, <1>7 DEF DeskInv

LEMMA StartInv ==
    ASSUME DeskInv, NEW h \in Handlers, NEW q, NEW w \in SUBSET ({"approve"} \X CD!Ids), CD!Start(h, q),
           deskPast' = CD!Heard(w), CardsStay, ledger' = ledger, Queue(q, Deeds, deskPast.king \cup w)
    PROVE  DeskInv'
<1>1. todo[h] = <<>> /\ todo' = [todo EXCEPT ![h] = q]
  BY DEF CD!Start
<1>2. PICK k \in SUBSET ({"approve"} \X CD!Ids) : k = deskPast.king \cup w
  BY DEF DeskInv, DeskTypes
<1>3. PICK n \in Nat : n = deskPast.words + 1
  BY DEF DeskInv, DeskTypes
<1>5. deskPast' = [deskPast EXCEPT !.words = n, !.king = k]
  BY <1>2, <1>3 DEF CD!Heard
<1>4. /\ deskPast' \in [king : SUBSET ({"approve"} \X CD!Ids), live : SUBSET CD!Ids, words : Nat, faults : Nat,
                        unrevoked : BOOLEAN]
      /\ deskPast'.king = k /\ deskPast'.live = deskPast.live /\ deskPast'.unrevoked = deskPast.unrevoked
  BY <1>5 DEF DeskInv, DeskTypes
<1> QED BY <1>1, <1>2, <1>4, Requeue

LEMMA NothingMoves ==
    ASSUME DeskTypes, UNCHANGED deskCards
    PROVE  CardsStay
BY DEF CardsStay, DeskTypes, DeskCard

LEMMA FailsInv ==
    ASSUME DeskInv, NEW h \in Handlers, CD!StepFails(h)
    PROVE  DeskInv'
<1> DEFINE c == Head(todo[h])
<1>1. /\ todo[h] # <<>> /\ todo' = [todo EXCEPT ![h] = <<>>] /\ UNCHANGED <<deskCards, ledger>>
      /\ deskPast' = [deskPast EXCEPT !.faults = @ + 1, !.unrevoked = @ \/ c = RevokeEpic]
  BY DEF CD!StepFails, RevokeEpic
<1>2. PICK b \in BOOLEAN : b <=> (deskPast.unrevoked \/ c = RevokeEpic)
  OBVIOUS
<1>8. PICK n \in Nat : n = deskPast.faults + 1
  BY DEF DeskInv, DeskTypes
<1>9. (deskPast.unrevoked \/ c = RevokeEpic) = b
  BY <1>2
<1>3. deskPast' = [deskPast EXCEPT !.faults = n, !.unrevoked = b]
  BY <1>1, <1>8, <1>9
<1>4. /\ deskPast' \in [king : SUBSET ({"approve"} \X CD!Ids), live : SUBSET CD!Ids, words : Nat, faults : Nat,
                        unrevoked : BOOLEAN]
      /\ deskPast'.king = deskPast.king /\ deskPast'.live = deskPast.live /\ deskPast'.unrevoked = b
  BY <1>3 DEF DeskInv, DeskTypes
<1>5. ~b => ~deskPast.unrevoked /\ c # RevokeEpic
  BY <1>2
<1>6. Queue(<<>>, Deeds, deskPast'.king)
  <2>1. <<>> \in Seq(Free(deskPast'.king))
    OBVIOUS
  <2> QED BY <2>1, FreeQueue
<1>7. CardsStay
  BY <1>1, NothingMoves DEF DeskInv
<1> QED BY <1>1, <1>4, <1>5, <1>6, <1>7, Requeue

LEMMA ReopenInv == DeskInv /\ CD!Reopen => DeskInv'
<1> SUFFICES ASSUME DeskInv, CD!Reopen PROVE DeskInv'
  OBVIOUS
<1>1. deskCards' = [deskCards EXCEPT ![CD!Epic].status = "open"] /\ UNCHANGED <<ledger, todo, deskPast>>
  BY DEF CD!Reopen
<1>2. deskCards \in [CD!Ids -> DeskCard] /\ CD!Epic \in CD!Ids /\ CD!New \in CD!Ids /\ CD!New # CD!Epic
  BY IdsApart DEF DeskInv, DeskTypes, DeskCard
<1>3. deskCards' = [deskCards EXCEPT ![CD!Epic] = [deskCards[CD!Epic] EXCEPT !.status = "open"]]
  BY <1>1
<1>4. [deskCards[CD!Epic] EXCEPT !.status = "open"] \in DeskCard
  BY <1>2 DEF DeskCard
<1>5. /\ deskCards' \in [CD!Ids -> DeskCard] /\ deskCards'[CD!New] = deskCards[CD!New]
      /\ \A id \in CD!Ids : deskCards'[id].labels = deskCards[id].labels /\ deskCards'[id].comments = deskCards[id].comments
  BY <1>2, <1>3, <1>4 DEF DeskCard
<1>6. Deeds' = Deeds
  <2>1. \A d \in Lasting : d.id \in CD!Ids
    BY LastingIds
  <2> QED BY <2>1, <1>5 DEF Deeds
<1>7. DeskTypes' /\ LedgerHolds' /\ CD!LineIsTheKings'
  BY <1>1, <1>5 DEF DeskInv, DeskTypes, DeskCard, LedgerHolds, CD!LineIsTheKings, CD!Has
<1>8. CD!VerdictHasReason'
  BY <1>5 DEF DeskInv, CD!VerdictHasReason, CD!Has
<1> QED BY <1>1, <1>6, <1>7, <1>8 DEF DeskInv

LEMMA CallJustified ==
    ASSUME NEW K, NEW op, NEW id, NEW a,
           op = "add" /\ a = "line" => MayGoOn(id, K),
           op = "approve" => <<"approve", id>> \in K,
           op = "epic?" => id = CD!Card /\ <<"approve", CD!Epic>> \in K,
           op = "remove" => a \notin {"gemba", "declined"},
           op \in {"close", "revoke"} => a = ""
    PROVE  Justified(CD!Call(op, id, a), K)
<1>1. PICK c : c = CD!Call(op, id, a)
  OBVIOUS
<1>2. c.op = op /\ c.id = id /\ c.arg = a
  BY <1>1 DEF CD!Call
<1> QED BY <1>1, <1>2 DEF Justified

(* The calls that need no other.                                             *)
LEMMA FreeCalls ==
    ASSUME NEW K, NEW id \in CD!Ids
    PROVE  /\ \A a \in Args \ {"line", "acceptance-request", "accepted", "declined"} : CD!Add(id, a) \in Free(K)
           /\ MayGoOn(id, K) => CD!Add(id, "line") \in Free(K)
           /\ \A a \in {"gave-up", "deferred", "until"} : CD!Remove(id, a) \in Free(K)
           /\ \A a \in Args : CD!Comment(id, a) \in Free(K)
           /\ \A op \in {"create", "release", "revoke", "ledger?"} : CD!Call(op, id, "") \in Free(K)
           /\ <<"approve", id>> \in K => CD!Call("approve", id, "") \in Free(K)
           /\ id = CD!Card => CD!Call("close", id, "") \in Free(K)
           /\ id = CD!Card /\ <<"approve", CD!Epic>> \in K => CD!Call("epic?", id, "") \in Free(K)
<1> DEFINE Lone(c) == c # Unblock /\ c # CloseEpic /\ \A d \in Lasting : <<c, d>> \notin Order
<1>1. ASSUME NEW a \in Args \ {"acceptance-request", "accepted", "declined"} PROVE Lone(CD!Add(id, a))
  BY <1>1 DEF CD!Add, CD!Remove, CD!Call, Unblock, CloseEpic, Order
<1>2. ASSUME NEW a \in {"gave-up", "deferred", "until"} PROVE Lone(CD!Remove(id, a))
  BY <1>2 DEF CD!Add, CD!Remove, CD!Call, Unblock, CloseEpic, Order
<1>3. ASSUME NEW a \in Args PROVE Lone(CD!Comment(id, a))
  BY <1>3 DEF CD!Add, CD!Comment, CD!Remove, CD!Call, Unblock, CloseEpic, Order
<1>4. ASSUME NEW op \in {"create", "release", "revoke", "ledger?", "approve", "epic?"} PROVE Lone(CD!Call(op, id, ""))
  BY <1>4 DEF CD!Add, CD!Remove, CD!Call, Unblock, CloseEpic, Order
<1>5. Lone(CD!Call("close", CD!Card, ""))
  BY IdsApart DEF CD!Add, CD!Remove, CD!Call, Unblock, CloseEpic, Order
<1>6. ASSUME NEW op \in Ops, NEW a \in Args PROVE CD!Call(op, id, a) \in DeskCall
  BY DEF CD!Call, DeskCall
<1> HIDE DEF Lone
<1>8. \A a \in Args \ {"line", "acceptance-request", "accepted", "declined"} :
          CD!Add(id, a) \in DeskCall /\ Justified(CD!Add(id, a), K)
  BY <1>6, CallJustified DEF CD!Add, Ops
<1>9. MayGoOn(id, K) => CD!Add(id, "line") \in DeskCall /\ Justified(CD!Add(id, "line"), K) /\ Lone(CD!Add(id, "line"))
  <2>1. "line" \in Args /\ "line" \in Args \ {"acceptance-request", "accepted", "declined"}
    BY DEF Args
  <2> QED BY <1>1, <1>6, CallJustified, <2>1 DEF CD!Add, Ops
<1>10. \A a \in {"gave-up", "deferred", "until"} : CD!Remove(id, a) \in DeskCall /\ Justified(CD!Remove(id, a), K)
  BY <1>6, CallJustified DEF CD!Remove, Ops, Args
<1>11. ASSUME NEW a \in Args PROVE CD!Comment(id, a) \in DeskCall /\ Justified(CD!Comment(id, a), K)
  <2>1. PICK c : c = CD!Comment(id, a)
    OBVIOUS
  <2>2. c.op = "comment"
    BY <2>1 DEF CD!Comment, CD!Call
  <2>3. c \in DeskCall
    BY <2>1, <1>6 DEF CD!Comment, Ops
  <2> QED BY <2>1, <2>2, <2>3 DEF Justified
<1>12. \A op \in {"create", "release", "revoke", "ledger?"} :
           CD!Call(op, id, "") \in DeskCall /\ Justified(CD!Call(op, id, ""), K)
  BY <1>6, CallJustified DEF Ops, Args
<1>13. \A op \in {"close", "approve", "epic?"} : CD!Call(op, id, "") \in DeskCall
  BY <1>6 DEF Ops, Args
<1>14. <<"approve", id>> \in K => Justified(CD!Call("approve", id, ""), K)
  BY CallJustified
<1>15. Justified(CD!Call("close", id, ""), K)
  <2>1. PICK c : c = CD!Call("close", id, "")
    OBVIOUS
  <2>2. c.op = "close" /\ c.arg = ""
    BY <2>1 DEF CD!Call
  <2> QED BY <2>1, <2>2 DEF Justified
<1>16. id = CD!Card /\ <<"approve", CD!Epic>> \in K => Justified(CD!Call("epic?", id, ""), K)
  BY CallJustified
<1>17. \A c : c \in DeskCall /\ Justified(c, K) /\ Lone(c) => c \in Free(K)
  BY DEF Free, Lone
<1> HIDE DEF Free
<1> QED BY <1>1, <1>2, <1>3, <1>4, <1>5, <1>8, <1>9, <1>10, <1>11, <1>12, <1>13, <1>14, <1>15, <1>16, <1>17

LEMMA Tuples ==
    ASSUME NEW S, NEW a \in S, NEW b \in S, NEW c \in S, NEW d \in S, NEW e \in S
    PROVE  /\ <<a>> \in Seq(S) /\ <<a, b>> \in Seq(S) /\ <<a, b, c>> \in Seq(S) /\ <<a, b, c, d>> \in Seq(S)
           /\ <<a, b, c, d, e>> \in Seq(S)
OBVIOUS

(* Queues of two and three calls, of which one makes way for the next.       *)
Fits(c, earlier, deeds, king) ==
    /\ c \in DeskCall /\ Justified(c, king) /\ c # CloseEpic
    /\ \A d \in Lasting : <<c, d>> \in Order => d \in deeds \cup earlier
    /\ c = Unblock => CD!Comment(CD!Card, "answer") \in earlier

LEMMA Duo ==
    ASSUME NEW D, NEW K, NEW a, NEW b, Fits(a, {}, D, K), Fits(b, {a}, D, K)
    PROVE  Queue(<<a, b>>, D, K)
<1>1. PICK q : q = <<a, b>>
  OBVIOUS
<1>2. q \in Seq(DeskCall) /\ Len(q) = 2 /\ q[1] = a /\ q[2] = b
  BY <1>1 DEF Fits
<1>3. \A i \in 1..Len(q) : i = 1 \/ i = 2
  BY <1>2
<1>4. Before(q, 2, a)
  BY <1>2 DEF Before
<1>5. InOrder(q, D) /\ Answers(q, D) /\ Spends(q)
  BY <1>2, <1>3, <1>4 DEF Fits, InOrder, Answers, Spends
<1> QED BY <1>1, <1>2, <1>3, <1>5 DEF Queue, Fits

LEMMA Trio ==
    ASSUME NEW D, NEW K, NEW a, NEW b, NEW c, Fits(a, {}, D, K), Fits(b, {a}, D, K), Fits(c, {a, b}, D, K)
    PROVE  Queue(<<a, b, c>>, D, K)
<1>1. PICK q : q = <<a, b, c>>
  OBVIOUS
<1>2. q \in Seq(DeskCall) /\ Len(q) = 3 /\ q[1] = a /\ q[2] = b /\ q[3] = c
  BY <1>1 DEF Fits
<1>3. \A i \in 1..Len(q) : i = 1 \/ i = 2 \/ i = 3
  BY <1>2
<1>4. Before(q, 2, a) /\ Before(q, 3, a) /\ Before(q, 3, b)
  BY <1>2 DEF Before
<1>5. InOrder(q, D) /\ Answers(q, D) /\ Spends(q)
  BY <1>2, <1>3, <1>4 DEF Fits, InOrder, Answers, Spends
<1> QED BY <1>1, <1>2, <1>3, <1>5 DEF Queue, Fits

LEMMA FreeFits ==
    ASSUME NEW D, NEW K, NEW S, NEW c \in Free(K)
    PROVE  Fits(c, S, D, K)
BY DEF Free, Fits

(* The epic's close and its revocation; a label taken off by the viceroy.    *)
LEMMA CloseQueue == ASSUME NEW D, NEW K PROVE Queue(<<CloseEpic, RevokeEpic>>, D, K)
<1>1. PICK q : q = <<CloseEpic, RevokeEpic>>
  OBVIOUS
<1>2. CloseEpic \in DeskCall /\ RevokeEpic \in DeskCall
  BY IdsApart DEF CloseEpic, RevokeEpic, CD!Call, DeskCall, Ops, Args
<1>3. q \in Seq(DeskCall) /\ Len(q) = 2 /\ q[1] = CloseEpic /\ q[2] = RevokeEpic /\ \A i \in 1..Len(q) : i = 1 \/ i = 2
  BY <1>1, <1>2
<1>4. Justified(CloseEpic, K) /\ Justified(RevokeEpic, K)
  <2>1. CloseEpic.op = "close" /\ CloseEpic.arg = "" /\ RevokeEpic.op = "revoke" /\ RevokeEpic.arg = ""
    BY DEF CloseEpic, RevokeEpic, CD!Call
  <2> QED BY <2>1 DEF Justified
<1>5. CloseEpic # Unblock /\ RevokeEpic # Unblock /\ CloseEpic # RevokeEpic
      /\ \A d : <<CloseEpic, d>> \notin Order /\ <<RevokeEpic, d>> \notin Order
  BY IdsApart DEF CloseEpic, RevokeEpic, Unblock, CD!Remove, CD!Add, CD!Call, Order
<1>6. InOrder(q, D) /\ Answers(q, D) /\ Spends(q)
  <2>1. \A i \in 1..Len(q) : q[i] # Unblock /\ \A d : <<q[i], d>> \notin Order
    BY <1>3, <1>5
  <2>2. 2 \in 1..Len(q)
    BY <1>3
  <2>3. \A i \in 1..Len(q) : q[i] = CloseEpic => i + 1 = 2
    BY <1>3, <1>5
  <2> QED BY <1>3, <2>1, <2>2, <2>3 DEF InOrder, Answers, Spends
<1> QED BY <1>1, <1>3, <1>4, <1>6 DEF Queue

LEMMA AuditQueue == ASSUME NEW D, NEW K PROVE Queue(<<Unblock, CD!Comment(CD!Card, "audit")>>, D, K)
<1>1. PICK c : c = CD!Comment(CD!Card, "audit")
  OBVIOUS
<1>2. PICK q : q = <<Unblock, c>>
  OBVIOUS
<1>3. c \in Free(K)
  BY <1>1, FreeCalls, IdsApart DEF Args
<1>4. Unblock \in DeskCall /\ Justified(Unblock, K) /\ Unblock # CloseEpic /\ \A d : <<Unblock, d>> \notin Order
  <2>1. Unblock.op = "remove" /\ Unblock.arg = "needs:king"
    BY DEF Unblock, CD!Remove, CD!Call
  <2>2. Unblock \in DeskCall
    BY IdsApart DEF Unblock, CD!Remove, CD!Call, DeskCall, Ops, Args
  <2>3. Justified(Unblock, K)
    BY <2>1 DEF Justified
  <2>4. Unblock # CloseEpic /\ \A d : <<Unblock, d>> \notin Order
    BY DEF Unblock, CloseEpic, CD!Remove, CD!Add, CD!Call, Order
  <2> QED BY <2>2, <2>3, <2>4
<1>5. q \in Seq(DeskCall) /\ Len(q) = 2 /\ q[1] = Unblock /\ q[2] = c /\ \A i \in 1..Len(q) : i = 1 \/ i = 2
  BY <1>2, <1>3, <1>4 DEF Free
<1>6. InOrder(q, D) /\ Answers(q, D) /\ Spends(q)
  BY <1>1, <1>2, <1>3, <1>4, <1>5 DEF InOrder, Answers, Spends, Free
<1> QED BY <1>1, <1>2, <1>3, <1>4, <1>5, <1>6 DEF Queue, Free

(* The reason before the verdict, gemba's label before the request's.        *)
LEMMA AnswerQueue == ASSUME NEW D, NEW K PROVE Queue(<<CD!Comment(CD!Card, "answer"), Unblock>>, D, K)
<1>1. CD!Comment(CD!Card, "answer") \in Free(K)
  BY FreeCalls, IdsApart DEF Args
<1>2. Unblock \in DeskCall /\ Justified(Unblock, K)
  <2>1. Unblock.op = "remove" /\ Unblock.arg = "needs:king"
    BY DEF Unblock, CD!Remove, CD!Call
  <2>2. Unblock \in DeskCall
    BY IdsApart DEF Unblock, CD!Remove, CD!Call, DeskCall, Ops, Args
  <2> QED BY <2>1, <2>2 DEF Justified
<1>3. Unblock # CloseEpic /\ \A d : <<Unblock, d>> \notin Order
  BY DEF Unblock, CloseEpic, CD!Remove, CD!Add, CD!Call, Order
<1>4. Fits(Unblock, {CD!Comment(CD!Card, "answer")}, D, K)
  BY <1>2, <1>3 DEF Fits
<1> QED BY <1>1, <1>4, FreeFits, Duo

LEMMA RequestQueue ==
    ASSUME NEW D, NEW K
    PROVE  Queue(<<CD!Call("create", CD!New, ""), CD!Add(CD!New, "gemba"), CD!Add(CD!New, "acceptance-request")>>, D, K)
<1>0. CD!New \in CD!Ids
  BY IdsApart
<1>1. CD!Call("create", CD!New, "") \in Free(K) /\ CD!Add(CD!New, "gemba") \in Free(K)
  BY <1>0, FreeCalls DEF Args
<1>2. PICK c : c = CD!Add(CD!New, "acceptance-request")
  OBVIOUS
<1>3. c.op = "add" /\ c.arg = "acceptance-request" /\ c \in DeskCall
  BY <1>0, <1>2 DEF CD!Add, CD!Call, DeskCall, Ops, Args
<1>4. Justified(c, K)
  BY <1>3 DEF Justified
<1>5. c # Unblock /\ c # CloseEpic /\ \A d : <<c, d>> \in Order => d = CD!Add(CD!New, "gemba")
  BY <1>2 DEF Unblock, CloseEpic, CD!Remove, CD!Add, CD!Call, Order
<1>6. Fits(c, {CD!Call("create", CD!New, ""), CD!Add(CD!New, "gemba")}, D, K)
  BY <1>3, <1>4, <1>5 DEF Fits
<1> QED BY <1>1, <1>2, <1>6, FreeFits, Trio

LEMMA VerdictQueue ==
    ASSUME NEW D, NEW K, NEW s \in {"accepted", "declined"}
    PROVE  /\ Queue(<<CD!Comment(CD!New, s), CD!Add(CD!New, s)>>, D, K)
           /\ s = "declined" =>
                  Queue(<<CD!Comment(CD!New, s), CD!Add(CD!New, s), CD!Call("close", CD!New, "")>>, D, K)
<1>0. CD!New \in CD!Ids /\ CD!New # CD!Epic
  BY IdsApart
<1>1. CD!Comment(CD!New, s) \in Free(K)
  BY <1>0, FreeCalls DEF Args
<1>2. PICK c : c = CD!Add(CD!New, s)
  OBVIOUS
<1>3. c.op = "add" /\ c.arg = s /\ c \in DeskCall
  BY <1>0, <1>2 DEF CD!Add, CD!Call, DeskCall, Ops, Args
<1>4. Justified(c, K)
  BY <1>3 DEF Justified
<1>5. c # Unblock /\ c # CloseEpic /\ \A d : <<c, d>> \in Order => d = CD!Comment(CD!New, s)
  BY <1>2 DEF Unblock, CloseEpic, CD!Remove, CD!Add, CD!Call, Order
<1>6. Fits(c, {CD!Comment(CD!New, s)}, D, K)
  BY <1>3, <1>4, <1>5 DEF Fits
<1>7. PICK e : e = CD!Call("close", CD!New, "")
  OBVIOUS
<1>8. e.op = "close" /\ e.arg = "" /\ e \in DeskCall
  BY <1>0, <1>7 DEF CD!Call, DeskCall, Ops, Args
<1>9. Justified(e, K)
  BY <1>8 DEF Justified
<1>10. e # Unblock /\ e # CloseEpic /\ \A d : <<e, d>> \in Order => d = CD!Add(CD!New, "declined")
  BY <1>0, <1>7 DEF Unblock, CloseEpic, CD!Remove, CD!Add, CD!Call, Order
<1>11. s = "declined" => Fits(e, {CD!Comment(CD!New, s), c}, D, K)
  BY <1>2, <1>8, <1>9, <1>10 DEF Fits
<1> QED BY <1>1, <1>2, <1>6, <1>7, <1>11, FreeFits, Duo, Trio

LEMMA WordOfKing ==
    ASSUME NEW K, NEW id \in CD!Ids
    PROVE  /\ {<<"approve", id>>} \in SUBSET ({"approve"} \X CD!Ids)
           /\ <<"approve", id>> \in K \cup {<<"approve", id>>} /\ MayGoOn(id, K \cup {<<"approve", id>>})
<1>1. PICK w : w = <<"approve", id>>
  OBVIOUS
<1>2. w \in {"approve"} \X CD!Ids
  BY <1>1
<1> QED BY <1>1, <1>2 DEF MayGoOn

(* The words of the king, the viceroy, makers and gemba.                     *)
LEMMA KingInv ==
    ASSUME DeskInv, NEW h \in Handlers, CD!KingsWord(h)
    PROVE  DeskInv'
<1> DEFINE K == deskPast.king
<1>0. CardsStay /\ ledger' = ledger
  BY NothingMoves DEF CD!KingsWord, CD!approveCard, CD!deferCard, CD!answerCard, CD!fileCard, DeskInv
<1>1. ASSUME NEW id \in {CD!Epic, CD!Card}, CD!approveCard(h, id) PROVE DeskInv'
  <2> DEFINE w == {<<"approve", id>>}
             first == IF id = CD!Epic THEN <<CD!Call("approve", id, "")>> ELSE <<>>
             rest == <<CD!Remove(id, "gave-up"), CD!Remove(id, "deferred"), CD!Add(id, "line"),
                       CD!Comment(id, "approved")>>
  <2>1. CD!Start(h, first \o rest) /\ deskPast' = CD!Heard(w) /\ id \in CD!Ids
    BY <1>1, IdsApart DEF CD!approveCard
  <2>2. w \in SUBSET ({"approve"} \X CD!Ids) /\ <<"approve", id>> \in K \cup w /\ MayGoOn(id, K \cup w)
    BY <2>1, WordOfKing
  <2> HIDE DEF w, K
  <2>3. first \in Seq(Free(K \cup w))
    <3>1. CD!Call("approve", id, "") \in Free(K \cup w)
      BY <2>1, <2>2, FreeCalls
    <3>2. <<CD!Call("approve", id, "")>> \in Seq(Free(K \cup w))
      BY <3>1, Tuples
    <3>3. <<>> \in Seq(Free(K \cup w))
      OBVIOUS
    <3> QED BY <3>2, <3>3
  <2>4. rest \in Seq(Free(K \cup w))
    <3>1. CD!Remove(id, "gave-up") \in Free(K \cup w) /\ CD!Remove(id, "deferred") \in Free(K \cup w)
          /\ CD!Add(id, "line") \in Free(K \cup w) /\ CD!Comment(id, "approved") \in Free(K \cup w)
      BY <2>1, <2>2, FreeCalls DEF Args
    <3> QED BY <3>1, Tuples
  <2> HIDE DEF first, rest
  <2>5. first \o rest \in Seq(Free(K \cup w))
    BY <2>3, <2>4
  <2>6. Queue(first \o rest, Deeds, K \cup w)
    BY <2>5, FreeQueue
  <2> QED BY <1>0, <2>1, <2>2, <2>6, StartInv DEF K
<1>2. ASSUME NEW until \in BOOLEAN, CD!deferCard(h, CD!Card, until) PROVE DeskInv'
  <2> DEFINE id == CD!Card
             first == IF CD!Has(id, "until") THEN <<CD!Remove(id, "until")>> ELSE <<>>
             second == IF until THEN <<CD!Add(id, "until")>> ELSE <<>>
             rest == <<CD!Add(id, "deferred"), CD!Comment(id, "deferral")>>
  <2>1. CD!Start(h, first \o second \o rest) /\ deskPast' = CD!Heard({}) /\ id \in CD!Ids
    BY <1>2, IdsApart DEF CD!deferCard
  <2>2. CD!Remove(id, "until") \in Free(K) /\ CD!Add(id, "until") \in Free(K) /\ CD!Add(id, "deferred") \in Free(K)
        /\ CD!Comment(id, "deferral") \in Free(K)
    BY <2>1, FreeCalls DEF Args
  <2>3. first \in Seq(Free(K)) /\ second \in Seq(Free(K)) /\ rest \in Seq(Free(K))
    <3>1. <<CD!Remove(id, "until")>> \in Seq(Free(K)) /\ <<CD!Add(id, "until")>> \in Seq(Free(K))
          /\ <<>> \in Seq(Free(K)) /\ rest \in Seq(Free(K))
      BY <2>2, Tuples
    <3> QED BY <3>1
  <2> HIDE DEF first, second, rest
  <2>4. first \o second \o rest \in Seq(Free(K))
    BY <2>3
  <2>5. Queue(first \o second \o rest, Deeds, K) /\ K \cup {} = K
    BY <2>4, FreeQueue
  <2> QED BY <1>0, <2>1, <2>5, StartInv
<1>3. CASE CD!answerCard(h, CD!Card)
  <2>1. CD!Start(h, <<CD!Comment(CD!Card, "answer"), Unblock>>) /\ deskPast' = CD!Heard({})
    BY <1>3 DEF CD!answerCard, Unblock
  <2>2. Queue(<<CD!Comment(CD!Card, "answer"), Unblock>>, Deeds, K \cup {})
    BY AnswerQueue
  <2> QED BY <1>0, <2>1, <2>2, StartInv
<1>4. CASE CD!fileCard(h)
  <2> DEFINE id == CD!New
             w == {<<"approve", id>>}
             q == <<CD!Call("create", id, ""), CD!Remove(id, "gave-up"), CD!Remove(id, "deferred"), CD!Add(id, "line"),
                    CD!Comment(id, "approved")>>
  <2>1. CD!Start(h, q) /\ deskPast' = CD!Heard(w) /\ id \in CD!Ids
    BY <1>4, IdsApart DEF CD!fileCard
  <2>2. w \in SUBSET ({"approve"} \X CD!Ids) /\ MayGoOn(id, K \cup w)
    BY <2>1, WordOfKing
  <2> HIDE DEF w, K
  <2>3. CD!Call("create", id, "") \in Free(K \cup w) /\ CD!Remove(id, "gave-up") \in Free(K \cup w)
        /\ CD!Remove(id, "deferred") \in Free(K \cup w)
        /\ CD!Add(id, "line") \in Free(K \cup w) /\ CD!Comment(id, "approved") \in Free(K \cup w)
    BY <2>1, <2>2, FreeCalls DEF Args
  <2>4. q \in Seq(Free(K \cup w))
    BY <2>3, Tuples
  <2> HIDE DEF q
  <2>5. Queue(q, Deeds, K \cup w)
    BY <2>4, FreeQueue
  <2> QED BY <1>0, <2>1, <2>2, <2>5, StartInv DEF K
<1> QED BY <1>1, <1>2, <1>3, <1>4 DEF CD!KingsWord

LEMMA ViceroyInv ==
    ASSUME DeskInv, NEW h \in Handlers, CD!ViceroysWord(h)
    PROVE  DeskInv'
<1> DEFINE K == deskPast.king
<1>0. CardsStay /\ ledger' = ledger /\ K \cup {} = K
  BY NothingMoves DEF CD!ViceroysWord, CD!offer, CD!viceroyClose, CD!viceroyLabels, DeskInv
<1>1. ASSUME NEW id \in {CD!Epic, CD!Card}, CD!offer(h, id) PROVE DeskInv'
  <2>1. CD!Start(h, <<CD!Call("ledger?", id, "")>>) /\ deskPast' = CD!Heard({}) /\ id \in CD!Ids
    BY <1>1, IdsApart DEF CD!offer
  <2>2. CD!Call("ledger?", id, "") \in Free(K)
    BY <2>1, FreeCalls
  <2>3. <<CD!Call("ledger?", id, "")>> \in Seq(Free(K))
    BY <2>2, Tuples
  <2> QED BY <1>0, <2>1, <2>3, FreeQueue, StartInv
<1>2. ASSUME NEW id \in {CD!Epic, CD!Card}, CD!viceroyClose(h, id) PROVE DeskInv'
  <2> DEFINE q == <<CD!Call("close", id, ""), CD!Call("revoke", id, "")>>
  <2>1. CD!Start(h, q) /\ deskPast' = CD!Heard({}) /\ id \in CD!Ids
    BY <1>2, IdsApart DEF CD!viceroyClose
  <2>2. Queue(q, Deeds, K)
    <3>1. CASE id = CD!Epic
      BY <3>1, CloseQueue DEF CloseEpic, RevokeEpic
    <3>2. CASE id = CD!Card
      <4>1. CD!Call("close", id, "") \in Free(K) /\ CD!Call("revoke", id, "") \in Free(K)
        BY <2>1, <3>2, FreeCalls
      <4>2. q \in Seq(Free(K))
        BY <4>1, Tuples
      <4> QED BY <4>2, FreeQueue
    <3> QED BY <3>1, <3>2
  <2> HIDE DEF q
  <2> QED BY <1>0, <2>1, <2>2, StartInv
<1>3. ASSUME NEW label \in {"gave-up", "needs:king"}, CD!viceroyLabels(h, CD!Card, label) PROVE DeskInv'
  <2>0. CD!Card \in CD!Ids
    BY IdsApart
  <2>1. PICK c \in {CD!Add(CD!Card, label), CD!Remove(CD!Card, label)} : CD!Start(h, <<c, CD!Comment(CD!Card, "audit")>>)
    BY <1>3 DEF CD!viceroyLabels
  <2>2. deskPast' = CD!Heard({})
    BY <1>3 DEF CD!viceroyLabels
  <2>3. Queue(<<c, CD!Comment(CD!Card, "audit")>>, Deeds, K)
    <3>1. CASE c = Unblock
      BY <3>1, AuditQueue
    <3>2. CASE c # Unblock
      <4>1. CD!Add(CD!Card, label) \in Free(K) /\ CD!Remove(CD!Card, "gave-up") \in Free(K)
            /\ CD!Comment(CD!Card, "audit") \in Free(K)
        BY <2>0, FreeCalls DEF Args
      <4>2. c \in Free(K)
        BY <2>1, <3>2, <4>1 DEF Unblock
      <4>3. <<c, CD!Comment(CD!Card, "audit")>> \in Seq(Free(K))
        BY <4>1, <4>2, Tuples
      <4> QED BY <4>3, FreeQueue
    <3> QED BY <3>1, <3>2
  <2> QED BY <1>0, <2>1, <2>2, <2>3, StartInv
<1> QED BY <1>1, <1>2, <1>3 DEF CD!ViceroysWord

LEMMA SettleInv ==
    ASSUME DeskInv, NEW h \in Handlers, NEW action \in {"claim", "close", "release", "give-up"}, CD!settle(h, action)
    PROVE  DeskInv'
<1> DEFINE K == deskPast.king
           id == CD!Card
<1>0. id \in CD!Ids /\ K \cup {} = K /\ ledger' = ledger /\ deskPast' = CD!Heard({})
  BY IdsApart DEF CD!settle
<1>1. CardsStay
  <2>1. CASE action = "claim"
    <3>1. deskCards' = [deskCards EXCEPT ![id].holder = "maker"]
      BY <2>1 DEF CD!settle
    <3>2. deskCards \in [CD!Ids -> DeskCard]
      BY DEF DeskInv, DeskTypes, DeskCard
    <3>3. deskCards' = [deskCards EXCEPT ![id] = [deskCards[id] EXCEPT !.holder = "maker"]]
      BY <3>1
    <3>4. [deskCards[id] EXCEPT !.holder = "maker"] \in DeskCard
      BY <1>0, <3>2 DEF DeskCard
    <3> QED BY <1>0, <3>2, <3>3, <3>4 DEF CardsStay, DeskCard
  <2>2. CASE action # "claim"
    BY <2>2, NothingMoves DEF CD!settle, DeskInv
  <2> QED BY <2>1, <2>2
<1>2. CD!Call("close", id, "") \in Free(K) /\ CD!Call("revoke", id, "") \in Free(K) /\ CD!Call("release", id, "") \in Free(K)
      /\ CD!Comment(id, "gave up") \in Free(K) /\ CD!Add(id, "gave-up") \in Free(K) /\ CD!Add(id, "needs:king") \in Free(K)
  BY <1>0, FreeCalls DEF Args
<1>3. PICK q : CD!Start(h, q) /\ q \in Seq(Free(K))
  <2>1. CASE action = "claim"
    <3>1. CD!Start(h, <<>>) /\ <<>> \in Seq(Free(K))
      BY <2>1 DEF CD!settle
    <3> QED BY <3>1
  <2>2. CASE action = "close"
    <3>1. CD!Start(h, <<CD!Call("close", id, ""), CD!Call("revoke", id, "")>>)
      BY <2>2 DEF CD!settle
    <3>2. <<CD!Call("close", id, ""), CD!Call("revoke", id, "")>> \in Seq(Free(K))
      BY <1>2, Tuples
    <3> QED BY <3>1, <3>2
  <2>3. CASE action = "release"
    <3>1. CD!Start(h, <<CD!Call("release", id, "")>>)
      BY <2>3 DEF CD!settle
    <3>2. <<CD!Call("release", id, "")>> \in Seq(Free(K))
      BY <1>2, Tuples
    <3> QED BY <3>1, <3>2
  <2>4. CASE action = "give-up"
    <3>1. CD!Start(h, <<CD!Comment(id, "gave up"), CD!Add(id, "gave-up"), CD!Add(id, "needs:king")>>)
      BY <2>4 DEF CD!settle
    <3>2. <<CD!Comment(id, "gave up"), CD!Add(id, "gave-up"), CD!Add(id, "needs:king")>> \in Seq(Free(K))
      BY <1>2, Tuples
    <3> QED BY <3>1, <3>2
  <2> QED BY <2>1, <2>2, <2>3, <2>4
<1>4. Queue(q, Deeds, K)
  BY <1>3, FreeQueue
<1> QED BY <1>0, <1>1, <1>3, <1>4, StartInv

LEMMA Joined ==
    ASSUME NEW S, NEW a \in S, NEW b \in S, NEW c \in S
    PROVE  <<a, b>> \o <<c>> = <<a, b, c>> /\ <<a, b>> \o <<>> = <<a, b>>
<1>1. PICK p : p = <<a, b>>
  OBVIOUS
<1>2. PICK r : r = <<c>>
  OBVIOUS
<1>3. PICK t : t = <<a, b, c>>
  OBVIOUS
<1>4. p \in Seq(S) /\ Len(p) = 2 /\ p[1] = a /\ p[2] = b
  BY <1>1
<1>5. r \in Seq(S) /\ Len(r) = 1 /\ r[1] = c
  BY <1>2
<1>6. t \in Seq(S) /\ Len(t) = 3 /\ t[1] = a /\ t[2] = b /\ t[3] = c
  BY <1>3
<1>7. PICK q : q = p \o r
  OBVIOUS
<1>8. /\ q \in Seq(S) /\ Len(q) = Len(p) + Len(r)
      /\ \A i \in 1..Len(p) + Len(r) : q[i] = IF i <= Len(p) THEN p[i] ELSE r[i - Len(p)]
  <2>1. p \in Seq(S) /\ r \in Seq(S)
    BY <1>4, <1>5
  <2> QED BY <2>1, <1>7, ConcatProperties
<1>9. Len(q) = 3 /\ \A i \in 1..3 : q[i] = IF i <= 2 THEN p[i] ELSE r[i - 2]
  BY <1>4, <1>5, <1>8
<1>10. q[1] = a /\ q[2] = b /\ q[3] = c
  BY <1>4, <1>5, <1>9
<1>11. \A i \in 1..3 : q[i] = t[i]
  <2>1. \A i \in 1..3 : i = 1 \/ i = 2 \/ i = 3
    OBVIOUS
  <2> QED BY <2>1, <1>6, <1>10
<1>12. q = t
  BY <1>6, <1>8, <1>9, <1>11, SeqEqual
<1>13. p \o <<>> = p
  BY <1>4, ConcatEmptySeq
<1> QED BY <1>1, <1>2, <1>3, <1>7, <1>12, <1>13

LEMMA MakerInv ==
    ASSUME DeskInv, NEW h \in Handlers, CD!MakersWord(h) \/ CD!GembasWord(h)
    PROVE  DeskInv'
<1> DEFINE K == deskPast.king
<1>0. CD!Card \in CD!Ids /\ K \cup {} = K
  BY IdsApart
<1>1. CASE CD!raiseNeed(h)
  <2>1. CD!Start(h, <<CD!Add(CD!Card, "needs:king")>>) /\ deskPast' = CD!Heard({}) /\ ledger' = ledger /\ CardsStay
    BY <1>1, NothingMoves DEF CD!raiseNeed, DeskInv
  <2>2. CD!Add(CD!Card, "needs:king") \in Free(K)
    BY <1>0, FreeCalls DEF Args
  <2>3. <<CD!Add(CD!Card, "needs:king")>> \in Seq(Free(K))
    BY <2>2, Tuples
  <2> QED BY <1>0, <2>1, <2>3, FreeQueue, StartInv
<1>2. CASE CD!admitOwnComment(h)
  <2>1. CD!Start(h, <<CD!Comment(CD!Card, "remark")>>) /\ deskPast' = CD!Heard({}) /\ ledger' = ledger /\ CardsStay
    BY <1>2, NothingMoves DEF CD!admitOwnComment, DeskInv
  <2>2. CD!Comment(CD!Card, "remark") \in Free(K)
    BY <1>0, FreeCalls DEF Args
  <2>3. <<CD!Comment(CD!Card, "remark")>> \in Seq(Free(K))
    BY <2>2, Tuples
  <2> QED BY <1>0, <2>1, <2>3, FreeQueue, StartInv
<1>3. CASE CD!requestAcceptanceChange(h)
  <2> DEFINE q == <<CD!Call("create", CD!New, ""), CD!Add(CD!New, "gemba"), CD!Add(CD!New, "acceptance-request")>>
  <2>1. CD!Start(h, q) /\ deskPast' = CD!Heard({}) /\ ledger' = ledger /\ CardsStay
    BY <1>3, NothingMoves DEF CD!requestAcceptanceChange, DeskInv
  <2>2. Queue(q, Deeds, K)
    BY RequestQueue
  <2> HIDE DEF q
  <2> QED BY <1>0, <2>1, <2>2, StartInv
<1>4. ASSUME NEW s \in {"accepted", "declined"}, CD!answerAcceptanceRequest(h, s) PROVE DeskInv'
  <2> DEFINE two == <<CD!Comment(CD!New, s), CD!Add(CD!New, s)>>
             q == two \o (IF s = "declined" THEN <<CD!Call("close", CD!New, "")>> ELSE <<>>)
  <2>1. CD!Start(h, q) /\ deskPast' = CD!Heard({}) /\ ledger' = ledger /\ CardsStay
    BY <1>4, NothingMoves DEF CD!answerAcceptanceRequest, DeskInv
  <2>0. CD!Comment(CD!New, s) \in DeskCall /\ CD!Add(CD!New, s) \in DeskCall /\ CD!Call("close", CD!New, "") \in DeskCall
    BY IdsApart DEF CD!Comment, CD!Add, CD!Call, DeskCall, Ops, Args
  <2>2. CASE s = "declined"
    <3>1. q = <<CD!Comment(CD!New, s), CD!Add(CD!New, s), CD!Call("close", CD!New, "")>>
      BY <2>0, <2>2, Joined
    <3>2. Queue(q, Deeds, K)
      BY <2>2, <3>1, VerdictQueue
    <3> HIDE DEF q
    <3> QED BY <1>0, <2>1, <3>2, StartInv
  <2>3. CASE s # "declined"
    <3>1. q = two
      BY <2>0, <2>3, Joined
    <3>2. Queue(q, Deeds, K)
      BY <3>1, VerdictQueue
    <3> HIDE DEF q
    <3> QED BY <1>0, <2>1, <3>2, StartInv
  <2> QED BY <2>2, <2>3
<1>5. ASSUME NEW action \in {"claim", "close", "release", "give-up"}, CD!settle(h, action) PROVE DeskInv'
  BY <1>5, SettleInv
<1> QED BY <1>1, <1>2, <1>3, <1>4, <1>5 DEF CD!MakersWord, CD!GembasWord

(* An offer puts a card on the line only where the king or a delegation lets *)
(* it: the verdict on what the ledger and the epic have shown.               *)
LEMMA VerdictIsFree ==
    ASSUME NEW K, NEW id \in CD!Ids, NEW b \in BOOLEAN, b => id = CD!Card /\ <<"approve", CD!Epic>> \in K
    PROVE  CD!Add(id, IF CD!Delegates(id, b) THEN "line" ELSE "proposed") \in Free(K)
<1>1. CASE CD!Delegates(id, b)
  <2>1. MayGoOn(id, K)
    BY <1>1 DEF CD!Delegates, MayGoOn
  <2> QED BY <1>1, <2>1, FreeCalls
<1>2. CASE ~CD!Delegates(id, b)
  <2>1. CD!Add(id, "proposed") \in Free(K)
    BY FreeCalls DEF Args
  <2> QED BY <1>2, <2>1
<1> QED BY <1>1, <1>2

LEMMA OfferInv ==
    ASSUME DeskInv, NEW h \in Handlers, CD!OfferStep(h)
    PROVE  DeskInv'
<1> DEFINE c == Head(todo[h])
           K == deskPast.king
           verdict(inherited) == <<CD!Add(c.id, IF CD!Delegates(c.id, inherited) THEN "line" ELSE "proposed")>>
<1>1. /\ todo[h] # <<>> /\ c.op \in {"ledger?", "epic?"} /\ UNCHANGED <<deskCards, ledger, deskPast>>
      /\ Queue(todo[h], Deeds, K) /\ DeskTypes
  BY DEF CD!OfferStep, CD!Offering, DeskInv
<1>2. c \in DeskCall /\ Justified(c, K)
  BY <1>1, QueueHead
<1>3. c.id \in CD!Ids /\ c # RevokeEpic
  <2>1. RevokeEpic.op = "revoke"
    BY DEF RevokeEpic, CD!Call
  <2> QED BY <1>1, <1>2, <2>1 DEF DeskCall
<1>4. c.op = "epic?" => c.id = CD!Card /\ <<"approve", CD!Epic>> \in K
  BY <1>2 DEF Justified
<1>5. verdict(FALSE) \in Seq(Free(K)) /\ (c.op = "epic?" => verdict(TRUE) \in Seq(Free(K)))
  <2>1. CD!Add(c.id, IF CD!Delegates(c.id, FALSE) THEN "line" ELSE "proposed") \in Free(K)
    BY <1>3, VerdictIsFree
  <2>2. c.op = "epic?" => CD!Add(c.id, IF CD!Delegates(c.id, TRUE) THEN "line" ELSE "proposed") \in Free(K)
    BY <1>3, <1>4, VerdictIsFree
  <2> QED BY <2>1, <2>2, Tuples
<1>6. PICK q : todo' = [todo EXCEPT ![h] = q] /\ q \in Seq(Free(K))
  <2>1. CASE c.op = "ledger?" /\ CD!Ancestors(c.id) \cap ledger # {}
    <3>1. todo' = [todo EXCEPT ![h] = <<CD!Call("epic?", c.id, "")>>]
      BY <2>1 DEF CD!OfferStep
    <3>2. c.id = CD!Card /\ CD!Epic \in ledger
      BY <2>1 DEF CD!Ancestors
    <3>3. <<"approve", CD!Epic>> \in K
      BY <3>2 DEF DeskInv, LedgerHolds
    <3>4. CD!Call("epic?", c.id, "") \in Free(K)
      BY <1>3, <3>2, <3>3, FreeCalls
    <3>5. <<CD!Call("epic?", c.id, "")>> \in Seq(Free(K))
      BY <3>4, Tuples
    <3> QED BY <3>1, <3>5
  <2>2. CASE c.op = "ledger?" /\ CD!Ancestors(c.id) \cap ledger = {}
    <3>1. todo' = [todo EXCEPT ![h] = verdict(FALSE)]
      BY <2>2 DEF CD!OfferStep
    <3> HIDE DEF verdict
    <3> QED BY <3>1, <1>5
  <2>3. CASE c.op = "epic?" /\ deskCards[CD!Epic].status = "closed"
    <3>1. todo' = [todo EXCEPT ![h] = <<CD!Call("revoke", CD!Epic, "")>> \o verdict(FALSE)]
      BY <2>3 DEF CD!OfferStep
    <3>2. CD!Call("revoke", CD!Epic, "") \in Free(K)
      BY IdsApart, FreeCalls
    <3>3. <<CD!Call("revoke", CD!Epic, "")>> \in Seq(Free(K))
      BY <3>2, Tuples
    <3>4. PICK first, v : first = <<CD!Call("revoke", CD!Epic, "")>> /\ v = verdict(FALSE)
      OBVIOUS
    <3>5. first \in Seq(Free(K)) /\ v \in Seq(Free(K))
      BY <3>3, <3>4, <1>5
    <3>6. first \o v \in Seq(Free(K))
      BY <3>5
    <3> HIDE DEF verdict
    <3> QED BY <3>1, <3>4, <3>6
  <2>4. CASE c.op = "epic?" /\ deskCards[CD!Epic].status # "closed"
    <3>1. todo' = [todo EXCEPT ![h] = verdict(TRUE)]
      BY <2>4 DEF CD!OfferStep
    <3> HIDE DEF verdict
    <3> QED BY <3>1, <2>4, <1>5
  <2> QED BY <1>1, <2>1, <2>2, <2>3, <2>4
<1>7. CardsStay /\ Queue(q, Deeds, K)
  BY <1>1, <1>6, NothingMoves, FreeQueue
<1> QED BY <1>1, <1>3, <1>6, <1>7, Requeue DEF DeskTypes

LEMMA DeskInit == CD!Init => DeskInv
<1> SUFFICES ASSUME CD!Init PROVE DeskInv
  OBVIOUS
<1>1. /\ deskCards = [id \in CD!Ids |-> [labels |-> {}, status |-> IF id = CD!New THEN "none" ELSE "open",
                                     holder |-> "none", comments |-> {}]]
      /\ ledger = {} /\ todo = [h \in Handlers |-> <<>>]
      /\ deskPast = [king |-> {}, live |-> {}, words |-> 0, faults |-> 0, unrevoked |-> FALSE]
  BY DEF CD!Init
<1>2. deskCards \in [CD!Ids -> DeskCard] /\ \A id \in CD!Ids : deskCards[id].labels = {} /\ deskCards[id].comments = {}
                                                           /\ deskCards[id].status # "closed"
  BY <1>1 DEF DeskCard
<1>3. todo \in [Handlers -> Seq(DeskCall)]
  <2>1. <<>> \in Seq(DeskCall)
    OBVIOUS
  <2> QED BY <1>1, <2>1
<1>4. DeskTypes
  BY <1>1, <1>2, <1>3 DEF DeskTypes, DeskCard
<1>5. LedgerHolds /\ CD!LineIsTheKings
  BY <1>1, <1>2 DEF LedgerHolds, CD!LineIsTheKings, CD!Has
<1>6. CD!VerdictHasReason
  BY <1>2, IdsApart DEF CD!VerdictHasReason, CD!Has
<1>7. \A h \in Handlers : Queue(todo[h], Deeds, deskPast.king)
  <2>1. <<>> \in Seq(Free(deskPast.king))
    OBVIOUS
  <2> QED BY <1>1, <2>1, FreeQueue
<1> QED BY <1>4, <1>5, <1>6, <1>7 DEF DeskInv

LEMMA DeskNext == DeskInv /\ [CD!Next]_CD!cdVars => DeskInv'
<1> SUFFICES ASSUME DeskInv, [CD!Next]_CD!cdVars PROVE DeskInv'
  OBVIOUS
<1>1. CASE CD!Reopen
  BY <1>1, ReopenInv
<1>2. ASSUME NEW h \in Handlers, \/ CD!KingsWord(h) \/ CD!ViceroysWord(h) \/ CD!MakersWord(h) \/ CD!GembasWord(h)
                                 \/ CD!Step(h) \/ CD!StepLosesAnswer(h) \/ CD!OfferStep(h) \/ CD!StepFails(h)
      PROVE  DeskInv'
  BY <1>2, KingInv, ViceroyInv, MakerInv, StepInv, LosesInv, OfferInv, FailsInv
<1>3. CASE UNCHANGED CD!cdVars
  BY <1>3 DEF CD!cdVars, DeskInv, DeskTypes, LedgerHolds, CD!LineIsTheKings, CD!VerdictHasReason, CD!Has, Deeds
<1> QED BY <1>1, <1>2, <1>3 DEF CD!Next

(* Only a call takes a label off.                                            *)
LEMMA OnlyStepsUnblock ==
    ASSUME DeskInv, [CD!Next]_CD!cdVars, CD!Has(CD!Card, "needs:king"), "needs:king" \notin deskCards'[CD!Card].labels
    PROVE  \/ "answer" \in deskCards[CD!Card].comments
           \/ \E h \in Handlers : todo[h] = <<Unblock, CD!Comment(CD!Card, "audit")>>
<1>0. CD!Card \in CD!Ids /\ DeskTypes /\ "needs:king" \in deskCards[CD!Card].labels
  BY IdsApart DEF DeskInv, CD!Has
<1>1. CASE \E h \in Handlers : CD!Step(h) \/ CD!StepLosesAnswer(h)
  <2>1. PICK h \in Handlers : CD!Step(h) \/ CD!StepLosesAnswer(h)
    BY <1>1
  <2>2. PICK c : c = Head(todo[h])
    OBVIOUS
  <2>3. todo[h] # <<>> /\ Queue(todo[h], Deeds, deskPast.king) /\ deskCards' = CD!Tracked(c)
    BY <2>1, <2>2 DEF CD!Step, CD!StepLosesAnswer, DeskInv
  <2>4. /\ c \in DeskCall
        /\ c = Unblock => CD!Comment(CD!Card, "answer") \in Deeds \/ todo[h] = <<Unblock, CD!Comment(CD!Card, "audit")>>
    BY <2>2, <2>3, QueueHead
  <2>5. deskCards'[CD!Card].labels = LabelsAfter(c, CD!Card)
    BY <1>0, <2>3, <2>4, Effects
  <2>6. c.op = "remove" /\ c.id = CD!Card /\ c.arg = "needs:king"
    BY <1>0, <2>5 DEF LabelsAfter
  <2>7. c = Unblock
    BY <2>4, <2>6 DEF DeskCall, Unblock, CD!Remove, CD!Call
  <2>8. CD!Comment(CD!Card, "answer") \in Deeds => "answer" \in deskCards[CD!Card].comments
    BY DeedsTell DEF CD!Comment, CD!Call
  <2> QED BY <2>4, <2>7, <2>8
<1>2. CASE ~\E h \in Handlers : CD!Step(h) \/ CD!StepLosesAnswer(h)
  <2>1. ASSUME NEW id \in CD!Ids, deskCards' = [deskCards EXCEPT ![id].holder = "maker"] \/ deskCards' = [deskCards EXCEPT ![id].status = "open"]
        PROVE  deskCards'[CD!Card].labels = deskCards[CD!Card].labels
    <3>0. deskCards \in [CD!Ids -> DeskCard]
      BY <1>0 DEF DeskTypes, DeskCard
    <3>1. deskCards' = [deskCards EXCEPT ![id] = [deskCards[id] EXCEPT !.holder = "maker"]]
          \/ deskCards' = [deskCards EXCEPT ![id] = [deskCards[id] EXCEPT !.status = "open"]]
      BY <2>1
    <3> QED BY <1>0, <3>0, <3>1 DEF DeskCard
  <2>2. CASE UNCHANGED deskCards
    BY <1>0, <2>2
  <2>3. CASE CD!Reopen
    BY <1>0, <2>1, <2>3, IdsApart DEF CD!Reopen
  <2>4. ASSUME NEW h \in Handlers, NEW action \in {"claim", "close", "release", "give-up"}, CD!settle(h, action)
        PROVE  FALSE
    <3>1. CASE action = "claim"
      BY <1>0, <2>1, <2>4, <3>1 DEF CD!settle
    <3>2. CASE action # "claim"
      BY <1>0, <2>4, <3>2 DEF CD!settle
    <3> QED BY <3>1, <3>2
  <2>5. ASSUME NEW h \in Handlers, CD!KingsWord(h) \/ CD!ViceroysWord(h) \/ CD!GembasWord(h)
        PROVE  UNCHANGED deskCards
    BY <2>5 DEF CD!KingsWord, CD!approveCard, CD!deferCard, CD!answerCard, CD!fileCard, CD!ViceroysWord, CD!offer,
                CD!viceroyClose, CD!viceroyLabels, CD!GembasWord, CD!answerAcceptanceRequest
  <2>6. ASSUME NEW h \in Handlers, \/ CD!raiseNeed(h) \/ CD!admitOwnComment(h) \/ CD!requestAcceptanceChange(h)
                                   \/ CD!OfferStep(h) \/ CD!StepFails(h)
        PROVE  UNCHANGED deskCards
    BY <2>6 DEF CD!raiseNeed, CD!admitOwnComment, CD!requestAcceptanceChange, CD!OfferStep, CD!StepFails
  <2> QED BY <1>2, <2>2, <2>3, <2>4, <2>5, <2>6 DEF CD!Next, CD!cdVars, CD!MakersWord
<1> QED BY <1>1, <1>2

(* For any number of handlers at once and any delegations of the             *)
(* constitution, whichever calls fail or lose their answer: a card is on the *)
(* line only on the king's word or a delegation's, a spent approval of an    *)
(* epic is about to leave the ledger unless a close's answer was lost or a   *)
(* revocation failed, a verdict on an acceptance request has its reason, and *)
(* a question leaves its card only after an answer or by the viceroy's hand  *)
(* (line/station/cards.go, channel_answer.go, epic_approvals.go,             *)
(* acceptance_request.go).                                                   *)
THEOREM DeskKeepsTheWord == CD!Spec => DeskKeepsWord
<1>1. CD!Init => DeskInv
  BY DeskInit
<1>2. DeskInv /\ [CD!Next]_CD!cdVars => DeskInv'
  BY DeskNext
<1>3. DeskInv => CD!LineIsTheKings /\ CD!SpentApprovalGoes /\ CD!VerdictHasReason
  <2> SUFFICES ASSUME DeskInv PROVE CD!SpentApprovalGoes
    BY DEF DeskInv
  <2> SUFFICES ASSUME CD!Epic \in ledger, CD!Epic \notin deskPast.live, ~deskPast.unrevoked
               PROVE  \E h \in Handlers : \E i \in DOMAIN todo[h] : todo[h][i] = RevokeEpic
    BY DEF CD!SpentApprovalGoes, RevokeEpic
  <2>1. PICK h \in Handlers : todo[h] # <<>> /\ Head(todo[h]) = RevokeEpic
    BY DEF DeskInv, LedgerHolds
  <2>2. todo[h] \in Seq(DeskCall)
    BY DEF DeskInv, DeskTypes
  <2>3. 1 \in DOMAIN todo[h] /\ todo[h][1] = Head(todo[h])
    BY <2>1, <2>2
  <2> QED BY <2>1, <2>3
<1>4. DeskInv /\ [CD!Next]_CD!cdVars =>
          [CD!Has(CD!Card, "needs:king") /\ "needs:king" \notin deskCards'[CD!Card].labels =>
              \/ "answer" \in deskCards[CD!Card].comments
              \/ \E h \in Handlers : todo[h] = <<CD!Remove(CD!Card, "needs:king"), CD!Comment(CD!Card, "audit")>>]_CD!cdVars
  BY OnlyStepsUnblock DEF Unblock
<1> QED BY <1>1, <1>2, <1>3, <1>4, PTL DEF CD!Spec, DeskKeepsWord, CD!DeskKeepsWord, CD!AnsweredBeforeUnblocked

==============================================================================
