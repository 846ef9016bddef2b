------------------------- MODULE AndonWatcherProofs -------------------------
(***************************************************************************)
(* Proofs about the andon watcher, for every line, number of stations,     *)
(* events and restarts.                                                    *)
(***************************************************************************)
EXTENDS AndonPart, Naturals, Sequences, FiniteSets, SequenceTheorems, TLAPS

Call == {"status", "event", "attest", "history", "confirm", "flake", "pull",
         "pull_cas", "pull_lost", "clear", "clear_cas", "card", "resolve"}

(* The types of the line and of what the watcher and the others hold.      *)
LineType == masters \in Seq(AW!Kind) /\ Len(masters) >= 1
EventType == events \in Seq(Nat) /\ cord \in 0..Len(events)
StepType ==
    /\ pc \in Call
    /\ st \in [master : Nat, event : Nat]
    /\ st.master <= Len(masters) /\ st.event <= Len(events)
    /\ event \in 0..Len(events)
    /\ last \in 0..Len(masters)
OtherType == other \in [Other -> [op : {"none", "pull", "clear"}, commit : Nat, event : Nat]]

TypeOK == LineType /\ EventType /\ StepType /\ OtherType

(* What the watcher means to resolve is not the event in force: the stop   *)
(* it read is still there, or lifted, or an event that came after it.      *)
CordAhead ==
    /\ cord = 0 \/ cord >= st.event
    /\ pc = "clear" => st.event # 0
    /\ pc = "clear_cas" => /\ st.event \in 1..event
                           /\ cord = 0 \/ cord >= event
    /\ pc = "resolve" => event \notin {0, cord}

CordInv == TypeOK /\ CordAhead

(* The lengths are naturals, and a new event is one longer.                *)
LEMMA Lengths ==
    ASSUME TypeOK
    PROVE  Len(masters) \in Nat /\ Len(events) \in Nat
BY LenProperties DEF TypeOK, LineType, EventType

LEMMA EventAdded ==
    ASSUME TypeOK, NEW c \in Nat, AW!NewEvent(c)
    PROVE  /\ events' \in Seq(Nat)
           /\ Len(events') = Len(events) + 1
           /\ events'[Len(events) + 1] = c
           /\ \A i \in 1..Len(events) : events'[i] = events[i]
           /\ cord' = Len(events) + 1
           /\ UNCHANGED <<masters, passed, failures>>
<1>1. events \in Seq(Nat)
  BY DEF TypeOK, EventType
<1> QED BY <1>1, AppendProperties DEF AW!NewEvent

(* No step takes a commit or an event away, and the cord is where it was,  *)
(* lifted, or at an event that did not exist.                              *)
Onward ==
    /\ Len(masters') >= Len(masters)
    /\ Len(events') >= Len(events)
    /\ cord' \in {cord, 0} \/ cord' > Len(events)

LEMMA SharedKept ==
    ASSUME TypeOK, UNCHANGED <<masters, events>>, cord' \in {cord, 0}
    PROVE  LineType' /\ EventType' /\ Onward
BY Lengths DEF TypeOK, LineType, EventType, Onward

LEMMA SharedNewEvent ==
    ASSUME TypeOK, NEW c \in Nat, AW!NewEvent(c)
    PROVE  LineType' /\ EventType' /\ Onward
<1>1. /\ events' \in Seq(Nat) /\ Len(events') = Len(events) + 1
      /\ cord' = Len(events) + 1 /\ masters' = masters
  BY EventAdded
<1> QED BY <1>1, Lengths DEF TypeOK, LineType, EventType, Onward

(* The watcher rests, or goes on to file or to close the cards of e.       *)
LEMMA DoneInv ==
    ASSUME CordInv, LineType', EventType', Onward, OtherType', AW!Done, last' \in {last, 0, st.master}
    PROVE  CordInv'
<1>1. Len(masters) \in Nat /\ Len(events) \in Nat /\ Len(masters') \in Nat /\ Len(events') \in Nat
  BY Lengths, LenProperties DEF CordInv, LineType, EventType
<1>0. /\ Len(masters) <= Len(masters') /\ last \in 0..Len(masters)
      /\ st.master \in Nat /\ st.master <= Len(masters)
  BY <1>1 DEF CordInv, TypeOK, StepType, Onward
<1>2. StepType'
  BY <1>0, <1>1 DEF StepType, AW!Done, AW!NoStatus, Call
<1>3. CordAhead'
  BY <1>1 DEF CordInv, TypeOK, LineType, EventType, CordAhead, Onward, AW!Done, AW!NoStatus
<1> QED BY <1>2, <1>3 DEF CordInv, TypeOK

LEMMA EnsureInv ==
    ASSUME CordInv, LineType', EventType', Onward, OtherType', last' \in {last, 0, st.master},
           NEW e \in 0..Len(events'), AW!Ensure(e)
    PROVE  CordInv'
<1>1. Len(masters) \in Nat /\ Len(events) \in Nat /\ Len(masters') \in Nat /\ Len(events') \in Nat
  BY Lengths, LenProperties DEF CordInv, LineType, EventType
<1>0. /\ Len(masters) <= Len(masters') /\ last \in 0..Len(masters)
      /\ st.master \in Nat /\ st.master <= Len(masters)
  BY <1>1 DEF CordInv, TypeOK, StepType, Onward
<1>2. StepType'
  BY <1>0, <1>1 DEF StepType, AW!Ensure, AW!NoStatus, Call
<1>3. CordAhead'
  BY <1>1 DEF CordInv, TypeOK, LineType, EventType, CordAhead, Onward, AW!Ensure, AW!NoStatus
<1> QED BY <1>2, <1>3 DEF CordInv, TypeOK

LEMMA ResolveInv ==
    ASSUME CordInv, LineType', EventType', Onward, OtherType', last' \in {last, 0},
           NEW e \in 1..Len(events'), e # cord', AW!Resolve(e)
    PROVE  CordInv'
<1>1. Len(masters) \in Nat /\ Len(events) \in Nat /\ Len(masters') \in Nat /\ Len(events') \in Nat
  BY Lengths, LenProperties DEF CordInv, LineType, EventType
<1>0. /\ Len(masters) <= Len(masters') /\ last \in 0..Len(masters) /\ e \in 0..Len(events')
  BY <1>1 DEF CordInv, TypeOK, StepType, Onward
<1>2. StepType'
  BY <1>0, <1>1 DEF StepType, AW!Resolve, AW!NoStatus, Call
<1>3. CordAhead'
  BY <1>1 DEF CordInv, TypeOK, LineType, EventType, CordAhead, Onward, AW!Resolve, AW!NoStatus
<1> QED BY <1>2, <1>3 DEF CordInv, TypeOK

(* It keeps the status it read while the others go on.                     *)
LEMMA HoldInv ==
    ASSUME CordInv, LineType', EventType', Onward, OtherType',
           UNCHANGED <<st, event>>, last' \in {last, 0, st.master}, pc' \in Call,
           pc' \in {"clear", "clear_cas", "resolve"} => pc' = pc \/ (pc' = "clear" /\ st.event # 0)
    PROVE  CordInv'
<1>1. Len(masters) \in Nat /\ Len(events) \in Nat /\ Len(masters') \in Nat /\ Len(events') \in Nat
  BY Lengths, LenProperties DEF CordInv, LineType, EventType
<1>2. StepType'
  <2>1. /\ st \in [master : Nat, event : Nat] /\ st.master <= Len(masters) /\ st.event <= Len(events)
        /\ event \in 0..Len(events) /\ last \in 0..Len(masters)
    BY DEF CordInv, TypeOK, StepType
  <2>2. Len(masters) <= Len(masters') /\ Len(events) <= Len(events')
    BY <1>1 DEF Onward
  <2>3. st.master \in Nat /\ st.event \in Nat
    BY <2>1
  <2>4. st.master <= Len(masters') /\ st.event <= Len(events') /\ event \in 0..Len(events')
    BY <1>1, <2>1, <2>2, <2>3
  <2>5. last' \in 0..Len(masters')
    BY <1>1, <2>1, <2>2, <2>3
  <2> QED BY <2>1, <2>4, <2>5 DEF StepType
<1>3. CordAhead'
  <2>1. /\ st.event \in Nat /\ st.event <= Len(events) /\ event \in 0..Len(events)
        /\ cord \in 0..Len(events) /\ cord' \in 0..Len(events')
        /\ cord' \in {cord, 0} \/ cord' > Len(events)
    BY DEF CordInv, TypeOK, StepType, EventType, Onward
  <2>2. cord' = 0 \/ cord' >= st.event
    BY <1>1, <2>1 DEF CordInv, CordAhead
  <2>3. pc' = "clear_cas" => st.event \in 1..event /\ (cord' = 0 \/ cord' >= event)
    BY <1>1, <2>1 DEF CordInv, CordAhead
  <2>4. pc' = "resolve" => event \notin {0, cord'}
    BY <1>1, <2>1 DEF CordInv, CordAhead
  <2>5. pc' = "clear" => st.event # 0
    BY DEF CordInv, CordAhead
  <2> QED BY <2>2, <2>3, <2>4, <2>5 DEF CordAhead
<1> QED BY <1>2, <1>3 DEF CordInv, TypeOK

(* The verdict of an attestation.                                          *)
LEMMA VerdictInv ==
    ASSUME CordInv, NEW outcome, NEW flake, AW!Verdict(outcome, flake),
           UNCHANGED <<masters, events, cord, other>>
    PROVE  CordInv'
<1>1. LineType' /\ EventType' /\ Onward /\ OtherType'
  BY SharedKept DEF CordInv, TypeOK, OtherType
<1>2. st.event \in 0..Len(events') /\ last' = st.master
  BY DEF CordInv, TypeOK, StepType, AW!Verdict
<1> QED BY <1>1, <1>2, DoneInv, EnsureInv, HoldInv DEF AW!Verdict, Call

(* The guard's already_stopped.                                            *)
LEMMA AlreadyStoppedInv ==
    ASSUME CordInv, AW!AlreadyStopped, UNCHANGED <<AW!shared, last, other>>
    PROVE  CordInv'
<1>1. LineType' /\ EventType' /\ Onward /\ OtherType' /\ last' = last
  BY SharedKept DEF AW!shared, CordInv, TypeOK, OtherType
<1>2. st.event \in 0..Len(events') /\ cord \in 0..Len(events')
  BY DEF CordInv, TypeOK, StepType, EventType, AW!shared
<1> QED BY <1>1, <1>2, DoneInv, EnsureInv DEF AW!AlreadyStopped

-----------------------------------------------------------------------------
(* The calls of the watcher.                                               *)
LEMMA StatusInv ==
    ASSUME CordInv, AW!StatusMaster \/ AW!StatusEvent
    PROVE  CordInv'
<1>0. UNCHANGED <<masters, events, cord, other, last>>
  BY DEF AW!StatusMaster, AW!StatusEvent, AW!shared
<1>1. LineType' /\ EventType' /\ Onward /\ OtherType'
  BY <1>0, SharedKept DEF CordInv, TypeOK, OtherType
<1>2. Len(masters) \in Nat /\ Len(events) \in Nat /\ cord \in 0..Len(events')
  BY <1>0, Lengths DEF CordInv, TypeOK, EventType
<1>3. CASE AW!StatusMaster
  <2>1. st' = [st EXCEPT !.master = Len(masters)] /\ pc' = "event" /\ event' = event
    BY <1>3 DEF AW!StatusMaster, AW!master
  <2>2. st'.master = Len(masters) /\ st'.event = st.event /\ st' \in [master : Nat, event : Nat]
    BY <1>2, <2>1 DEF CordInv, TypeOK, StepType
  <2>3. StepType'
    BY <1>0, <1>2, <2>1, <2>2 DEF CordInv, TypeOK, StepType, Call
  <2>4. CordAhead'
    BY <1>0, <2>1, <2>2 DEF CordInv, CordAhead
  <2> QED BY <1>1, <2>3, <2>4 DEF CordInv, TypeOK
<1>4. CASE pc' = "attest" /\ st' = [st EXCEPT !.event = cord] /\ event' = event
  <2>1. st'.event = cord /\ st'.master = st.master /\ st' \in [master : Nat, event : Nat]
    BY <1>2, <1>4 DEF CordInv, TypeOK, StepType, EventType
  <2>2. StepType'
    BY <1>0, <1>2, <1>4, <2>1 DEF CordInv, TypeOK, EventType, StepType, Call
  <2>3. cord' = 0 \/ cord' >= st'.event
    BY <1>0, <1>2, <2>1 DEF CordInv, TypeOK, EventType
  <2>4. CordAhead'
    BY <1>4, <2>3 DEF CordAhead
  <2> QED BY <1>1, <2>2, <2>4 DEF CordInv, TypeOK
<1>5. CASE AW!StatusEvent
  BY <1>0, <1>1, <1>2, <1>4, <1>5, DoneInv, EnsureInv DEF AW!StatusEvent
<1> QED BY <1>3, <1>5

LEMMA AttestInv ==
    ASSUME CordInv, AW!AttestSome \/ AW!History \/ AW!ConfirmSome \/ AW!RaiseFlake
    PROVE  CordInv'
<1>0. UNCHANGED <<masters, events, cord, other>>
  BY DEF AW!AttestSome, AW!Attest, AW!History, AW!ConfirmSome, AW!Confirm, AW!RaiseFlake, AW!Record, AW!shared
<1>1. LineType' /\ EventType' /\ Onward /\ OtherType'
  BY <1>0, SharedKept DEF CordInv, TypeOK, OtherType
<1>2. CASE \E outcome, flake : AW!Verdict(outcome, flake)
  BY <1>0, <1>2, VerdictInv
<1>3. CASE UNCHANGED <<st, event, last>> /\ pc' \in {"history", "flake", "confirm"}
  BY <1>1, <1>3, HoldInv DEF Call
<1>4. CASE AW!AttestSome
  BY <1>2, <1>3, <1>4 DEF AW!AttestSome, AW!Attest, AW!Pending
<1>5. CASE AW!ConfirmSome
  BY <1>2, <1>3, <1>5 DEF AW!ConfirmSome, AW!Confirm, AW!Pending
<1>6. CASE AW!History
  BY <1>3, <1>6 DEF AW!History, AW!Goto
<1>7. CASE AW!RaiseFlake
  BY <1>2, <1>7 DEF AW!RaiseFlake
<1> QED BY <1>4, <1>5, <1>6, <1>7

LEMMA PullInv ==
    ASSUME CordInv, AW!PullRead \/ AW!PullCas \/ AW!PullLost
    PROVE  CordInv'
<1>1. CASE AW!PullRead
  <2>1. UNCHANGED <<AW!shared, other>>
    BY <1>1 DEF AW!PullRead
  <2>2. LineType' /\ EventType' /\ Onward /\ OtherType'
    BY <2>1, SharedKept DEF AW!shared, CordInv, TypeOK, OtherType
  <2>3. CASE last' = 0 /\ AW!Done
    BY <2>2, <2>3, DoneInv
  <2>4. CASE AW!AlreadyStopped /\ UNCHANGED last
    BY <2>1, <2>4, AlreadyStoppedInv
  <2>5. CASE AW!Goto("pull_cas") /\ UNCHANGED last
    BY <2>2, <2>5, HoldInv DEF AW!Goto, Call
  <2> QED BY <1>1, <2>3, <2>4, <2>5 DEF AW!PullRead
<1>2. CASE AW!PullCas
  <2>1. st.master \in Nat /\ OtherType' /\ last' = last
    BY <1>2, Lengths DEF AW!PullCas, CordInv, TypeOK, StepType, OtherType
  <2>2. CASE AW!NewEvent(st.master) /\ AW!Ensure(Len(events) + 1)
    <3>1. Len(events) + 1 \in 0..Len(events')
      BY <2>1, <2>2, EventAdded, Lengths DEF CordInv
    <3> QED BY <2>1, <2>2, <3>1, SharedNewEvent, EnsureInv DEF CordInv
  <2>3. CASE AW!Goto("pull_lost") /\ UNCHANGED AW!shared
    <3>1. LineType' /\ EventType' /\ Onward
      BY <2>3, SharedKept DEF AW!shared, CordInv
    <3> QED BY <2>1, <2>3, <3>1, HoldInv DEF AW!Goto, Call
  <2> QED BY <1>2, <2>2, <2>3 DEF AW!PullCas
<1>3. CASE AW!PullLost
  BY <1>3, AlreadyStoppedInv DEF AW!PullLost
<1> QED BY <1>1, <1>2, <1>3

LEMMA ClearInv ==
    ASSUME CordInv, AW!ClearRead \/ AW!ClearCas
    PROVE  CordInv'
<1>0. /\ UNCHANGED <<masters, events, other>> /\ cord' \in {cord, 0}
      /\ last' \in {last, 0}
  BY DEF AW!ClearRead, AW!ClearCas, AW!shared
<1>1. LineType' /\ EventType' /\ Onward /\ OtherType'
  BY <1>0, SharedKept DEF CordInv, TypeOK, OtherType
<1>2. /\ Len(masters) \in Nat /\ Len(events) \in Nat /\ cord \in 0..Len(events)
      /\ st.event \in 0..Len(events')
  BY <1>0, Lengths DEF CordInv, TypeOK, EventType, StepType
<1>3. CASE AW!ClearRead
  <2>1. pc = "clear" /\ cord' = cord /\ st.event \in 1..Len(events')
    BY <1>2, <1>3 DEF AW!ClearRead, AW!shared, CordInv, CordAhead
  <2>2. CASE cord = 0 /\ AW!Resolve(st.event)
    BY <1>0, <1>1, <2>1, <2>2, ResolveInv
  <2>3. CASE cord # 0 /\ pc' = "clear_cas" /\ event' = cord /\ st' = st
    BY <1>0, <1>1, <1>2, <2>1, <2>3
       DEF CordInv, CordAhead, TypeOK, LineType, EventType, StepType, Call
  <2>4. CASE AW!Ensure(st.event)
    BY <1>0, <1>1, <1>2, <2>4, EnsureInv
  <2> QED BY <1>3, <2>2, <2>3, <2>4 DEF AW!ClearRead
<1>4. CASE AW!ClearCas
  <2>1. /\ cord' = IF cord = event THEN 0 ELSE cord
        /\ st.event \in 1..event /\ (cord = 0 \/ cord >= event) /\ event \in 0..Len(events)
    BY <1>4 DEF AW!ClearCas, CordInv, CordAhead, TypeOK, StepType
  <2>2. st.event \in 1..Len(events') /\ st.event # cord'
    BY <1>0, <1>2, <2>1
  <2> QED BY <1>0, <1>1, <1>4, <2>2, ResolveInv DEF AW!ClearCas
<1> QED BY <1>3, <1>4

(* Cards, errors and restarts of the watcher.                              *)
LEMMA CardInv ==
    ASSUME CordInv, AW!EnsureCard \/ AW!EnsureCardError \/ AW!ResolveCards \/ AW!Restart
    PROVE  CordInv'
<1>1. UNCHANGED <<AW!shared, other>> /\ last' \in {last, 0} /\ AW!Done
  BY DEF AW!EnsureCard, AW!EnsureCardError, AW!ResolveCards, AW!Restart
<1>2. LineType' /\ EventType' /\ Onward /\ OtherType'
  BY <1>1, SharedKept DEF AW!shared, CordInv, TypeOK, OtherType
<1> QED BY <1>1, <1>2, DoneInv

LEMMA ErrorInv ==
    ASSUME CordInv, AW!AttestError \/ AW!StepError \/ AW!PullError \/ AW!ClearError
    PROVE  CordInv'
<1>0. OtherType'
  BY DEF CordInv, TypeOK, OtherType, AW!AttestError, AW!StepError, AW!PullError, AW!ClearError
<1>1. CASE AW!AttestError
  <2>1. UNCHANGED <<masters, events, cord, last>>
    BY <1>1 DEF AW!AttestError, AW!shared
  <2>2. LineType' /\ EventType' /\ Onward
    BY <2>1, SharedKept DEF CordInv
  <2>3. st.event \in 0..Len(events')
    BY <2>1 DEF CordInv, TypeOK, StepType
  <2> QED BY <1>0, <1>1, <2>1, <2>2, <2>3, DoneInv, EnsureInv DEF AW!AttestError
<1>2. CASE AW!StepError
  <2>1. LineType' /\ EventType' /\ Onward
    BY <1>2, SharedKept DEF CordInv, AW!StepError, AW!shared
  <2> QED BY <1>0, <1>2, <2>1, DoneInv DEF AW!StepError
<1>3. CASE AW!PullError
  <2>1. st.master \in Nat
    BY Lengths DEF CordInv, TypeOK, StepType
  <2>2. LineType' /\ EventType' /\ Onward
    BY <1>3, <2>1, SharedKept, SharedNewEvent DEF CordInv, AW!PullError, AW!shared
  <2> QED BY <1>0, <1>3, <2>2, DoneInv DEF AW!PullError
<1>4. CASE AW!ClearError
  <2>1. UNCHANGED <<masters, events>> /\ cord' \in {cord, 0}
    BY <1>4 DEF AW!ClearError
  <2>2. LineType' /\ EventType' /\ Onward
    BY <2>1, SharedKept DEF CordInv
  <2> QED BY <1>0, <1>4, <2>2, DoneInv DEF AW!ClearError
<1> QED BY <1>1, <1>2, <1>3, <1>4

(* Merges, card owners and the other stations.                             *)
LEMMA EnvironmentInv ==
    ASSUME CordInv, AW!Environment
    PROVE  CordInv'
<1>0. UNCHANGED AW!watcher
  BY DEF AW!Environment, AW!Land, AW!CloseCard, AW!OtherReads, AW!OtherActs
<1>1. ASSUME LineType', EventType', Onward, OtherType' PROVE CordInv'
  <2>1. pc \in Call /\ UNCHANGED <<pc, st, event, last>>
    BY <1>0 DEF AW!watcher, CordInv, TypeOK, StepType
  <2> QED BY <1>1, <2>1, HoldInv
<1>2. ASSUME NEW kind \in AW!Kind, AW!Land(kind) PROVE CordInv'
  <2>1. masters \in Seq(AW!Kind) /\ masters' = Append(masters, kind) /\ UNCHANGED <<events, cord, other>>
    BY <1>2 DEF AW!Land, CordInv, TypeOK, LineType
  <2>2. masters' \in Seq(AW!Kind) /\ Len(masters') = Len(masters) + 1
    BY <2>1, AppendProperties
  <2>3. LineType' /\ EventType' /\ Onward /\ OtherType'
    BY <2>1, <2>2, Lengths DEF CordInv, TypeOK, LineType, EventType, OtherType, Onward
  <2> QED BY <1>1, <2>3
<1>3. ASSUME NEW e \in live, AW!CloseCard(e) PROVE CordInv'
  <2>1. LineType' /\ EventType' /\ Onward /\ OtherType'
    BY <1>3, SharedKept DEF AW!CloseCard, AW!shared, CordInv, TypeOK, OtherType
  <2> QED BY <1>1, <2>1
<1>4. ASSUME NEW o \in Other, NEW op \in {"pull", "clear"}, AW!OtherReads(o, op) PROVE CordInv'
  <2>1. Len(masters) \in Nat /\ cord \in Nat
    BY Lengths DEF CordInv, TypeOK, EventType
  <2>2. LineType' /\ EventType' /\ Onward
    BY <1>4, SharedKept DEF AW!OtherReads, AW!shared, CordInv
  <2>3. OtherType'
    BY <1>4, <2>1 DEF AW!OtherReads, AW!master, CordInv, TypeOK, OtherType
  <2> QED BY <1>1, <2>2, <2>3
<1>5. ASSUME NEW o \in Other, AW!OtherActs(o) PROVE CordInv'
  <2>1. other[o].commit \in Nat
    BY DEF CordInv, TypeOK, OtherType
  <2>2. LineType' /\ EventType' /\ Onward
    BY <1>5, <2>1, SharedKept, SharedNewEvent DEF AW!OtherActs, AW!shared, CordInv
  <2>3. OtherType'
    BY <1>5 DEF AW!OtherActs, AW!Quiet, CordInv, TypeOK, OtherType
  <2> QED BY <1>1, <2>2, <2>3
<1> QED BY <1>2, <1>3, <1>4, <1>5 DEF AW!Environment

-----------------------------------------------------------------------------
LEMMA CordInit == AW!Init => CordInv
<1> SUFFICES ASSUME AW!Init PROVE CordInv
  OBVIOUS
<1>1. masters \in Seq(AW!Kind) /\ Len(masters) = 1
  <2>1. masters \in [1..1 -> AW!Kind]
    BY DEF AW!Init
  <2>2. masters \in Seq(AW!Kind)
    BY <2>1, SeqDef
  <2>3. DOMAIN masters = 1..1 /\ DOMAIN masters = 1..Len(masters) /\ Len(masters) \in Nat
    BY <2>1, <2>2, LenProperties
  <2>4. 1 \in 1..Len(masters) /\ Len(masters) \in 1..1
    BY <2>3
  <2> QED BY <2>2, <2>4
<1>2. events \in Seq(Nat) /\ Len(events) = 0
  BY DEF AW!Init
<1> QED BY <1>1, <1>2
        DEF AW!Init, CordInv, CordAhead, TypeOK, LineType, EventType, StepType, OtherType, Call,
            AW!NoStatus, AW!Quiet

LEMMA CordStep == CordInv /\ [AW!Next]_AW!vars => CordInv'
<1> SUFFICES ASSUME CordInv, [AW!Next]_AW!vars PROVE CordInv'
  OBVIOUS
<1>1. CASE AW!Step
  BY <1>1, StatusInv, AttestInv, PullInv, ClearInv, CardInv DEF AW!Step
<1>2. CASE AW!Errors
  BY <1>2, ErrorInv, CardInv DEF AW!Errors
<1>3. CASE AW!Restart
  BY <1>3, CardInv
<1>4. CASE AW!Environment
  BY <1>4, EnvironmentInv
<1>5. CASE UNCHANGED AW!vars
  BY <1>5 DEF AW!vars, AW!shared, AW!watcher, CordInv, CordAhead, TypeOK, LineType, EventType, StepType,
              OtherType
<1> QED BY <1>1, <1>2, <1>3, <1>4, <1>5 DEF AW!Next

(* The watcher never closes the cards of the event that stops the line,    *)
(* whatever other stations lift and pull between its calls.                *)
THEOREM ResolveSparesTheCord == AW!Spec => ResolveSparesTheStop
<1>1. CordInv /\ [AW!Next]_AW!vars
        => [pc = "resolve" /\ pc' = "status" => cord \notin live \ live']_AW!vars
  <2> SUFFICES ASSUME CordInv, [AW!Next]_AW!vars, pc = "resolve", pc' = "status",
                      cord \in live \ live'
               PROVE  FALSE
    OBVIOUS
  <2>1. event # cord
    BY DEF CordInv, CordAhead
  <2>2. ~AW!ResolveCards
    BY <2>1 DEF AW!ResolveCards
  <2>3. ~AW!Restart /\ ~UNCHANGED AW!vars
    BY DEF AW!Restart, AW!vars
  <2>4. ~AW!Environment
    <3>1. ASSUME AW!Environment PROVE pc' = pc
      BY <3>1 DEF AW!Environment, AW!Land, AW!CloseCard, AW!OtherReads, AW!OtherActs, AW!watcher
    <3> QED BY <3>1
  <2>5. ~AW!Errors
    BY DEF AW!Errors, AW!AttestError, AW!StepError, AW!PullError, AW!ClearError, AW!EnsureCardError
  <2>6. ~AW!Step
    BY <2>2 DEF AW!Step, AW!StatusMaster, AW!StatusEvent, AW!AttestSome, AW!History, AW!ConfirmSome, AW!RaiseFlake,
                AW!PullRead, AW!PullCas, AW!PullLost, AW!ClearRead, AW!ClearCas, AW!EnsureCard
  <2> QED BY <2>3, <2>4, <2>5, <2>6 DEF AW!Next
<1> QED BY <1>1, CordInit, CordStep, PTL DEF AW!Spec, ResolveSparesTheStop, AW!ResolveSparesTheStop

-----------------------------------------------------------------------------
(* The watcher's verdicts, where no other station pulls or clears.         *)
Commits == 1..Len(masters)
Attesting == {"attest", "history", "confirm", "flake"}
Resting == {"status", "event", "card", "resolve"}

(* A commit with a failing run can fail, and an event is of a commit that  *)
(* failed two.                                                             *)
FailuresReal ==
    /\ Commits \subseteq AW!Commit
    /\ failures \in [AW!Commit -> 0..2]
    /\ \A c \in AW!Commit : failures[c] > 0 => c \in Commits /\ masters[c] \in {"broken", "flaky"}
    /\ \A i \in 1..Len(events) : events[i] \in AW!Commit /\ failures[events[i]] = 2

(* What the watcher knows at each call: until it has a verdict `last` is   *)
(* behind the master it attests and the cord is the one it read; with a    *)
(* verdict `last` is that master, and what it is about to do is due.       *)
VerdictDue ==
    /\ pc \in {"event"} \cup Attesting => st.master \in Commits /\ last <= st.master
    /\ pc \in Attesting => last # st.master /\ cord = st.event
    /\ pc \in {"history", "confirm"} => failures[st.master] >= 1 /\ res = "failed"
    /\ pc = "flake" => /\ res \in AW!Outcome[masters[st.master]]
                       /\ res = "failed" => st.master \in passed
    /\ pc \in {"pull", "pull_cas", "clear", "clear_cas"} => st.master \in Commits /\ last = st.master
    /\ pc \in {"pull", "pull_cas"} => failures[st.master] = 2
    /\ pc = "pull_cas" => cord = 0
    /\ pc # "pull_lost"
    /\ pc \in {"clear", "clear_cas"} => /\ res \in AW!Outcome[masters[st.master]] /\ res # "failed"
                                        /\ cord = st.event /\ cord # 0
    /\ pc = "clear_cas" => res = "passed" /\ event = cord

(* Nothing is left to do about the current master once the watcher rests   *)
(* on its verdict.                                                         *)
Settled ==
    /\ masters[Len(masters)] = "broken" /\ Len(masters) \notin passed => cord # 0
    /\ masters[Len(masters)] = "good" => cord = 0

VerdictInvariant ==
    /\ CordInv
    /\ FailuresReal
    /\ VerdictDue
    /\ pc \in Resting /\ last = Len(masters) => Settled

(* What a run of each kind of commit can end in.                           *)
LEMMA Outcomes ==
    ASSUME NEW k \in AW!Kind
    PROVE  /\ "failed" \in AW!Outcome[k] => k \in {"broken", "flaky"}
           /\ \A o \in AW!Outcome[k] : o # "failed" => k # "broken"
BY DEF AW!Kind, AW!Outcome

LEMMA Numbers ==
    ASSUME VerdictInvariant
    PROVE  /\ Len(masters) \in Nat /\ Len(masters) >= 1 /\ Len(events) \in Nat
           /\ last \in 0..Len(masters)
           /\ st.master \in Nat /\ st.event \in Nat /\ cord \in 0..Len(events)
           /\ \A c \in Commits : masters[c] \in AW!Kind
           /\ Len(masters) \in Commits
<1>1. Len(masters) \in Nat /\ Len(events) \in Nat /\ masters \in Seq(AW!Kind) /\ Len(masters) >= 1
  BY Lengths DEF VerdictInvariant, CordInv, TypeOK, LineType
<1>2. \A c \in Commits : masters[c] \in AW!Kind
  BY <1>1, ElementOfSeq DEF Commits
<1> QED BY <1>1, <1>2 DEF VerdictInvariant, CordInv, TypeOK, StepType, EventType, Commits

(* A recorded run leaves the failures real, and counts a failing one.      *)
LEMMA RecordReal ==
    ASSUME VerdictInvariant, MaxMaster \in Nat, NEW c \in Commits,
           NEW outcome \in AW!Outcome[masters[c]], AW!Record(c, outcome)
    PROVE  /\ FailuresReal'
           /\ passed \subseteq passed'
           /\ outcome = "failed" => failures'[c] >= 1
           /\ outcome = "failed" /\ failures[c] >= 1 => failures'[c] = 2
<1>1. /\ c \in AW!Commit /\ masters[c] \in AW!Kind /\ failures \in [AW!Commit -> 0..2]
      /\ UNCHANGED <<masters, events, cord>>
      /\ failures' = [failures EXCEPT ![c] = IF outcome = "failed" /\ @ < 2 THEN @ + 1 ELSE @]
  BY Numbers DEF VerdictInvariant, FailuresReal, Commits, AW!Commit, AW!Record
<1>2. outcome = "failed" => masters[c] \in {"broken", "flaky"}
  BY <1>1, Outcomes
<1>3. /\ failures' \in [AW!Commit -> 0..2]
      /\ \A d \in AW!Commit : failures'[d] # failures[d] => d = c /\ outcome = "failed"
      /\ \A d \in AW!Commit : failures[d] = 2 => failures'[d] = 2
      /\ outcome = "failed" => failures'[c] >= 1
      /\ outcome = "failed" /\ failures[c] >= 1 => failures'[c] = 2
  BY <1>1
<1>4. FailuresReal'
  BY <1>1, <1>2, <1>3 DEF VerdictInvariant, FailuresReal, Commits, AW!Commit
<1> QED BY <1>3, <1>4 DEF AW!Record

(* The watcher rests, or goes on to the cards, and nothing was left to do  *)
(* about the master behind it.                                             *)
LEMMA RestHolds ==
    ASSUME VerdictInvariant, CordInv', FailuresReal', Len(masters') = Len(masters),
           pc' \in {"status", "card", "resolve"},
           last' = Len(masters) => Settled'
    PROVE  VerdictInvariant'
BY DEF VerdictInvariant, VerdictDue, Attesting

(* It forgets its verdict, or had none.                                    *)
LEMMA RestUnchanged ==
    ASSUME VerdictInvariant, CordInv', UNCHANGED <<masters, events, failures, cord, passed>>,
           pc' \in {"status", "card", "resolve"},
           last' = 0 \/ (last' = last /\ pc \in Resting \cup Attesting)
    PROVE  VerdictInvariant'
<1>1. FailuresReal'
  BY DEF VerdictInvariant, FailuresReal, Commits
<1>2. last' = Len(masters) => last' = last /\ pc \in Resting \cup Attesting
  BY Numbers
<1>3. pc \in Attesting => last # Len(masters)
  BY Numbers DEF VerdictInvariant, VerdictDue, Commits
<1>4. last' = Len(masters) => Settled
  BY <1>2, <1>3 DEF VerdictInvariant
<1>5. Settled => Settled'
  BY DEF Settled
<1> QED BY <1>1, <1>4, <1>5, RestHolds

(* The verdict of an attestation is settled, or due.                       *)
LEMMA VerdictHolds ==
    ASSUME VerdictInvariant, CordInv', FailuresReal', pc \in Attesting,
           NEW outcome \in AW!Outcome[masters[st.master]], NEW flake \in BOOLEAN,
           AW!Verdict(outcome, flake), UNCHANGED <<masters, events, cord>>,
           outcome = "failed" /\ ~flake => failures'[st.master] = 2,
           outcome = "failed" /\ flake => st.master \in passed'
    PROVE  VerdictInvariant'
<1>1. /\ st.master \in Commits /\ cord = st.event /\ masters[st.master] \in AW!Kind
      /\ last' = st.master
  BY Numbers DEF VerdictInvariant, VerdictDue, AW!Verdict
<1>2. masters[st.master] = "broken" => outcome = "failed"
  BY <1>1, Outcomes
<1>3. outcome = "failed" => masters[st.master] # "good"
  BY <1>1, Outcomes
<1>4. CASE outcome = "failed" /\ ~flake /\ pc' = "pull" /\ UNCHANGED st
  BY <1>1, <1>4 DEF VerdictInvariant, VerdictDue, Commits, Attesting, Resting
<1>5. CASE (outcome # "failed" \/ flake) /\ st.event = 0 /\ AW!Done
  <2>1. last' = Len(masters) => Settled'
    BY <1>1, <1>2, <1>5 DEF Settled
  <2> QED BY <1>5, <2>1, RestHolds DEF AW!Done
<1>6. CASE outcome = "failed" /\ flake /\ AW!Ensure(st.event)
  <2>1. last' = Len(masters) => Settled'
    BY <1>1, <1>2, <1>3, <1>6 DEF Settled
  <2> QED BY <1>6, <2>1, RestHolds DEF AW!Ensure
<1>7. CASE /\ outcome # "failed" /\ st.event # 0 /\ pc' = "clear" /\ res' = outcome
           /\ UNCHANGED st
  BY <1>1, <1>7 DEF VerdictInvariant, VerdictDue, Commits, Attesting, Resting
<1> QED BY <1>4, <1>5, <1>6, <1>7 DEF AW!Verdict

-----------------------------------------------------------------------------
(* The calls of the watcher.                                               *)
LEMMA StatusHolds ==
    ASSUME VerdictInvariant, CordInv', AW!StatusMaster \/ AW!StatusEvent
    PROVE  VerdictInvariant'
<1>0. UNCHANGED <<masters, events, failures, cord, passed, last>>
  BY DEF AW!StatusMaster, AW!StatusEvent, AW!shared
<1>1. FailuresReal' /\ (Settled => Settled')
  BY <1>0 DEF VerdictInvariant, FailuresReal, Commits, Settled
<1>2. st \in [master : Nat, event : Nat]
  BY DEF VerdictInvariant, CordInv, TypeOK, StepType
<1>3. CASE AW!StatusMaster
  <2>1. pc = "status" /\ pc' = "event" /\ st'.master = Len(masters)
    BY <1>2, <1>3 DEF AW!StatusMaster, AW!master
  <2> QED BY <1>0, <1>1, <2>1, Numbers
          DEF VerdictInvariant, VerdictDue, Attesting, Resting, Commits
<1>4. CASE pc = "event" /\ st.master # last /\ pc' = "attest" /\ st' = [st EXCEPT !.event = cord]
  <2>1. st'.master = st.master /\ st'.event = cord
    BY <1>2, <1>4
  <2> QED BY <1>0, <1>1, <1>4, <2>1, Numbers
          DEF VerdictInvariant, VerdictDue, Attesting, Resting, Commits
<1>5. CASE pc = "event" /\ pc' \in {"status", "card"}
  BY <1>0, <1>5, RestUnchanged DEF Resting
<1> QED BY <1>3, <1>4, <1>5 DEF AW!StatusEvent, AW!Done, AW!Ensure

(* An outcome that has to be confirmed, or a flake to be raised.           *)
LEMMA PendingHolds ==
    ASSUME VerdictInvariant, CordInv', FailuresReal', pc \in Attesting,
           UNCHANGED <<masters, events, cord, st, last>>, passed \subseteq passed',
           pc' \in {"history", "confirm", "flake"},
           pc' \in {"history", "confirm"} => failures'[st.master] >= 1 /\ res' = "failed",
           pc' = "flake" => /\ res' \in AW!Outcome[masters[st.master]]
                            /\ res' = "failed" => st.master \in passed'
    PROVE  VerdictInvariant'
BY DEF VerdictInvariant, VerdictDue, Attesting, Resting, Commits

LEMMA AttestHolds ==
    ASSUME VerdictInvariant, CordInv', MaxMaster \in Nat,
           AW!AttestSome \/ AW!History \/ AW!ConfirmSome \/ AW!RaiseFlake
    PROVE  VerdictInvariant'
<1>0. /\ UNCHANGED <<masters, events, cord>> /\ pc \in Attesting
      /\ st.master \in Commits
  BY DEF AW!AttestSome, AW!Attest, AW!History, AW!ConfirmSome, AW!Confirm, AW!RaiseFlake, AW!Record, AW!shared,
         Attesting, VerdictInvariant, VerdictDue
<1>1. CASE AW!AttestSome
  <2>1. PICK outcome \in AW!Outcome[masters[st.master]] : AW!Attest(outcome)
    BY <1>1 DEF AW!AttestSome
  <2>2. /\ FailuresReal' /\ passed \subseteq passed'
        /\ outcome = "failed" => failures'[st.master] >= 1
    BY <1>0, <2>1, RecordReal DEF AW!Attest
  <2>3. CASE outcome = "failed" /\ AW!Pending("history", outcome)
    BY <1>0, <2>2, <2>3, PendingHolds DEF AW!Pending
  <2>4. CASE outcome # "failed" /\ AW!Verdict(outcome, FALSE)
    BY <1>0, <2>2, <2>4, VerdictHolds
  <2> QED BY <2>1, <2>3, <2>4 DEF AW!Attest
<1>2. CASE AW!ConfirmSome
  <2>1. PICK outcome \in AW!Outcome[masters[st.master]] : AW!Confirm(outcome)
    BY <1>2 DEF AW!ConfirmSome
  <2>2. failures[st.master] >= 1
    BY <1>2 DEF AW!ConfirmSome, VerdictInvariant, VerdictDue
  <2>3. /\ FailuresReal' /\ passed \subseteq passed'
        /\ outcome = "failed" => failures'[st.master] = 2
    BY <1>0, <2>1, <2>2, RecordReal DEF AW!Confirm
  <2>4. CASE outcome = "failed" /\ AW!Verdict(outcome, FALSE)
    BY <1>0, <2>3, <2>4, VerdictHolds
  <2>5. CASE outcome # "failed" /\ AW!Pending("flake", outcome)
    BY <1>0, <2>3, <2>5, PendingHolds DEF AW!Pending
  <2> QED BY <2>1, <2>4, <2>5 DEF AW!Confirm
<1>3. CASE AW!History
  <2>1. /\ UNCHANGED <<passed, failures, st, res, last>> /\ pc = "history"
        /\ pc' = IF st.master \in passed THEN "flake" ELSE "confirm"
    BY <1>3 DEF AW!History, AW!Goto, AW!shared
  <2>2. FailuresReal' /\ failures[st.master] >= 1 /\ res = "failed"
    BY <1>0, <2>1 DEF VerdictInvariant, FailuresReal, VerdictDue, Commits
  <2>3. res \in AW!Outcome[masters[st.master]]
    <3>1. masters[st.master] \in {"broken", "flaky"}
      BY <1>0, <2>2, Numbers DEF VerdictInvariant, FailuresReal, Commits, AW!Commit
    <3> QED BY <2>2, <3>1 DEF AW!Outcome
  <2> QED BY <1>0, <2>1, <2>2, <2>3, PendingHolds
<1>4. CASE AW!RaiseFlake
  <2>1. UNCHANGED <<passed, failures>> /\ AW!Verdict(res, TRUE) /\ pc = "flake"
    BY <1>4 DEF AW!RaiseFlake, AW!shared
  <2>2. /\ FailuresReal' /\ res \in AW!Outcome[masters[st.master]]
        /\ res = "failed" => st.master \in passed'
    BY <1>0, <2>1 DEF VerdictInvariant, FailuresReal, VerdictDue, Commits
  <2> QED BY <1>0, <2>1, <2>2, VerdictHolds
<1> QED BY <1>1, <1>2, <1>3, <1>4

(* A commit with two failing runs is no good one.                          *)
LEMMA FailedTwice ==
    ASSUME VerdictInvariant, NEW c \in Commits, failures[c] = 2
    PROVE  masters[c] # "good"
BY Numbers DEF VerdictInvariant, FailuresReal, Commits, AW!Commit

(* The event of a pull is of the commit it attested.                       *)
LEMMA NewEventReal ==
    ASSUME VerdictInvariant, pc = "pull_cas", AW!NewEvent(st.master)
    PROVE  FailuresReal' /\ cord' # 0 /\ UNCHANGED <<masters, passed, failures>>
<1>1. /\ st.master \in Commits /\ st.master \in Nat /\ failures[st.master] = 2
      /\ Len(events) \in Nat
  BY Numbers DEF VerdictInvariant, VerdictDue
<1>2. /\ Len(events') = Len(events) + 1 /\ events'[Len(events) + 1] = st.master
      /\ \A i \in 1..Len(events) : events'[i] = events[i]
      /\ cord' = Len(events) + 1
      /\ UNCHANGED <<masters, passed, failures>>
  BY <1>1, EventAdded DEF VerdictInvariant, CordInv
<1>3. st.master \in AW!Commit
  BY <1>1, Numbers DEF VerdictInvariant, FailuresReal, Commits, AW!Commit
<1>4. \A i \in 1..Len(events') : i \in 1..Len(events) \/ i = Len(events) + 1
  BY <1>1, <1>2
<1>5. FailuresReal'
  BY <1>1, <1>2, <1>3, <1>4 DEF VerdictInvariant, FailuresReal, Commits
<1> QED BY <1>1, <1>2, <1>5

LEMMA PullHolds ==
    ASSUME VerdictInvariant, CordInv', AW!PullRead \/ AW!PullCas \/ AW!PullLost \/ AW!PullError
    PROVE  VerdictInvariant'
<1>0. /\ pc # "pull_lost"
      /\ pc \in {"pull", "pull_cas"} => /\ st.master \in Commits /\ last = st.master
                                        /\ failures[st.master] = 2
                                        /\ masters[st.master] # "good"
  BY FailedTwice DEF VerdictInvariant, VerdictDue
<1>1. CASE AW!PullRead
  <2>1. pc = "pull" /\ UNCHANGED <<masters, events, failures, cord, passed>>
    BY <1>1 DEF AW!PullRead, AW!shared
  <2>2. FailuresReal'
    BY <2>1 DEF VerdictInvariant, FailuresReal, Commits
  <2>3. CASE last' = 0 /\ AW!Done
    BY <2>1, <2>3, RestUnchanged DEF AW!Done
  <2>4. CASE st.master = Len(masters) /\ cord # 0 /\ AW!AlreadyStopped
    <3>1. Settled'
      BY <1>0, <2>1, <2>4 DEF Settled
    <3> QED BY <2>1, <2>2, <2>4, <3>1, RestHolds DEF AW!AlreadyStopped, AW!Done, AW!Ensure
  <2>5. CASE cord = 0 /\ AW!Goto("pull_cas") /\ UNCHANGED last
    BY <1>0, <2>1, <2>2, <2>5 DEF VerdictInvariant, VerdictDue, AW!Goto, Attesting, Resting, Commits
  <2> QED BY <1>1, <2>3, <2>4, <2>5 DEF AW!PullRead, AW!master
<1>2. CASE AW!PullCas
  <2>1. pc = "pull_cas" /\ cord = 0 /\ last' = last
    BY <1>2 DEF AW!PullCas, VerdictInvariant, VerdictDue
  <2>2. AW!NewEvent(st.master) /\ pc' = "card"
    BY <1>2, <2>1 DEF AW!PullCas, AW!Ensure
  <2>3. FailuresReal' /\ cord' # 0 /\ UNCHANGED <<masters, passed, failures>>
    BY <2>1, <2>2, NewEventReal
  <2>4. last' = Len(masters) => Settled'
    BY <1>0, <2>1, <2>3 DEF Settled
  <2> QED BY <2>2, <2>3, <2>4, RestHolds
<1>3. CASE AW!PullError
  <2>1. pc' = "status" /\ last' = 0
    BY <1>3 DEF AW!PullError, AW!Done
  <2>2. FailuresReal' /\ masters' = masters
    BY <1>3, NewEventReal DEF AW!PullError, AW!shared, VerdictInvariant, FailuresReal, Commits
  <2> QED BY <2>1, <2>2, Numbers, RestHolds
<1> QED BY <1>0, <1>1, <1>2, <1>3 DEF AW!PullLost

LEMMA ClearHolds ==
    ASSUME VerdictInvariant, CordInv', AW!ClearRead \/ AW!ClearCas \/ AW!ClearError
    PROVE  VerdictInvariant'
<1>0. /\ pc \in {"clear", "clear_cas"}
      /\ UNCHANGED <<masters, events, failures, passed>>
  BY DEF AW!ClearRead, AW!ClearCas, AW!ClearError, AW!shared
<1>1. /\ st.master \in Commits /\ last = st.master /\ cord = st.event /\ cord # 0
      /\ res \in AW!Outcome[masters[st.master]] /\ res # "failed" /\ masters[st.master] \in AW!Kind
      /\ cord \in 1..Len(events)
  BY <1>0, Numbers DEF VerdictInvariant, VerdictDue
<1>2. masters[st.master] # "broken" /\ FailuresReal'
  BY <1>0, <1>1, Outcomes DEF VerdictInvariant, FailuresReal, Commits
<1>3. CASE AW!ClearRead
  <2>1. cord' = cord
    BY <1>3 DEF AW!ClearRead, AW!shared
  <2>2. CASE pc' = "clear_cas" /\ event' = cord /\ res = "passed" /\ UNCHANGED <<st, res, last>>
    BY <1>0, <1>1, <1>2, <2>1, <2>2
       DEF VerdictInvariant, VerdictDue, Attesting, Resting, Commits
  <2>3. CASE /\ AW!Ensure(st.event)
             /\ last' = 0 \/ events[st.event] = st.master
    <3>1. events[st.event] = st.master => masters[st.master] # "good"
      BY <1>1, FailedTwice DEF VerdictInvariant, FailuresReal
    <3>2. last' \in {last, 0}
      BY <1>3 DEF AW!ClearRead
    <3>3. last' = Len(masters) => Settled'
      BY <1>0, <1>1, <1>2, <2>1, <2>3, <3>1, <3>2, Numbers DEF Settled
    <3> QED BY <1>0, <1>2, <2>3, <3>3, RestHolds DEF AW!Ensure
  <2> QED BY <1>1, <1>3, <2>2, <2>3 DEF AW!ClearRead
<1>4. CASE AW!ClearCas
  <2>1. pc' = "resolve" /\ cord' = 0 /\ last' = last
    BY <1>4 DEF AW!ClearCas, AW!Resolve, VerdictInvariant, VerdictDue
  <2>2. last' = Len(masters) => Settled'
    BY <1>0, <1>1, <1>2, <2>1 DEF Settled
  <2> QED BY <1>0, <1>2, <2>1, <2>2, RestHolds
<1>5. CASE AW!ClearError
  <2>1. pc' = "status" /\ last' = 0
    BY <1>5 DEF AW!ClearError, AW!Done
  <2> QED BY <1>0, <1>2, <2>1, Numbers, RestHolds
<1> QED BY <1>3, <1>4, <1>5

(* Cards, restarts and the calls that fail leave nothing undone behind     *)
(* `last`.                                                                 *)
LEMMA CardsHold ==
    ASSUME VerdictInvariant, CordInv',
           \/ AW!EnsureCard \/ AW!EnsureCardError \/ AW!ResolveCards \/ AW!Restart
           \/ AW!AttestError \/ AW!StepError
    PROVE  VerdictInvariant'
<1>1. UNCHANGED <<masters, events, failures, cord, passed>> /\ pc' \in {"status", "card"}
  BY DEF AW!EnsureCard, AW!EnsureCardError, AW!ResolveCards, AW!Restart, AW!AttestError, AW!StepError, AW!shared,
         AW!Done, AW!Ensure
<1>2. last' = 0 \/ (last' = last /\ pc \in Resting \cup Attesting)
  BY DEF AW!EnsureCard, AW!EnsureCardError, AW!ResolveCards, AW!Restart, AW!AttestError, AW!StepError,
         Resting, Attesting
<1> QED BY <1>1, <1>2, RestUnchanged

(* A newer master: the verdict is behind it.                               *)
LEMMA LandHolds ==
    ASSUME VerdictInvariant, CordInv', MaxMaster \in Nat, NEW kind \in AW!Kind, AW!Land(kind)
    PROVE  VerdictInvariant'
<1>1. /\ masters \in Seq(AW!Kind) /\ masters' = Append(masters, kind) /\ Len(masters) < MaxMaster
      /\ passed \subseteq passed' /\ UNCHANGED <<failures, events, cord, pc, st, res, event, last>>
  BY DEF AW!Land, AW!master, AW!watcher, VerdictInvariant, CordInv, TypeOK, LineType
<1>2. Len(masters') = Len(masters) + 1 /\ \A c \in 1..Len(masters) : masters'[c] = masters[c]
  BY <1>1, AppendProperties
<1>3. Len(masters) \in Nat /\ last \in 0..Len(masters) /\ Commits \subseteq Commits'
  BY <1>2, Numbers DEF Commits
<1>4. FailuresReal'
  <2>1. Commits' \subseteq AW!Commit
    BY <1>1, <1>2, <1>3 DEF Commits, AW!Commit
  <2> QED BY <1>1, <1>2, <1>3, <2>1 DEF VerdictInvariant, FailuresReal, Commits
<1>5. VerdictDue'
  BY <1>1, <1>2, <1>3 DEF VerdictInvariant, VerdictDue, Attesting, Commits
<1>6. last' # Len(masters')
  BY <1>1, <1>2, <1>3
<1> QED BY <1>4, <1>5, <1>6 DEF VerdictInvariant

LEMMA QuietHolds ==
    ASSUME VerdictInvariant, CordInv', UNCHANGED <<AW!shared, AW!watcher>>
    PROVE  VerdictInvariant'
BY DEF VerdictInvariant, FailuresReal, VerdictDue, Settled, Commits, AW!shared, AW!watcher

(* The watcher as the only station that pulls and clears stops the line    *)
(* only on two signed failures of the commit, and never rests on a verdict *)
(* of the current master that it did not act on: whatever lands, fails,    *)
(* is confirmed or restarts in between.                                    *)
THEOREM VerdictsAreKept ==
    ASSUME Other = {}, MaxMaster \in Nat \ {0}
    PROVE  AW!Spec => []VerdictsHold
<1>1. ASSUME AW!Init PROVE VerdictInvariant
  <2>1. CordInv /\ Len(masters) = 1
    BY <1>1, CordInit DEF AW!Init, CordInv, TypeOK, LineType, StepType
  <2>2. Len(events) = 0 /\ last = 0 /\ pc = "status" /\ failures = [c \in AW!Commit |-> 0]
    BY <1>1 DEF AW!Init
  <2>3. FailuresReal
    BY <2>1, <2>2 DEF FailuresReal, AW!Commit, Commits
  <2> QED BY <2>1, <2>2, <2>3 DEF VerdictInvariant, VerdictDue, Attesting
<1>2. ASSUME VerdictInvariant, [AW!Next]_AW!vars PROVE VerdictInvariant'
  <2>1. CordInv'
    BY <1>2, CordStep DEF VerdictInvariant
  <2>2. CASE AW!Step
    BY <1>2, <2>1, <2>2, StatusHolds, AttestHolds, PullHolds, ClearHolds, CardsHold DEF AW!Step
  <2>3. CASE AW!Errors \/ AW!Restart
    BY <1>2, <2>1, <2>3, PullHolds, ClearHolds, CardsHold DEF AW!Errors
  <2>4. CASE AW!Environment
    <3>1. ASSUME NEW e \in live, AW!CloseCard(e) PROVE UNCHANGED <<AW!shared, AW!watcher>>
      BY <3>1 DEF AW!CloseCard
    <3> QED BY <1>2, <2>1, <2>4, <3>1, LandHolds, QuietHolds DEF AW!Environment
  <2>5. CASE UNCHANGED AW!vars
    BY <1>2, <2>1, <2>5, QuietHolds DEF AW!vars
  <2> QED BY <1>2, <2>2, <2>3, <2>4, <2>5 DEF AW!Next
<1>3. ASSUME VerdictInvariant PROVE VerdictsHold
  <2>1. AW!StopIsConfirmed
    BY <1>3 DEF VerdictInvariant, FailuresReal, AW!StopIsConfirmed
  <2>2. AW!VerdictActedOn
    BY <1>3 DEF VerdictInvariant, AW!VerdictActedOn, Settled, Resting, AW!master
  <2> QED BY <2>1, <2>2 DEF VerdictsHold, AW!VerdictsHold
<1> QED BY <1>1, <1>2, <1>3, PTL DEF AW!Spec
=============================================================================
