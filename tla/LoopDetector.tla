---------------------------- MODULE LoopDetector -----------------------------
(* agentshd's detector of repeated failures (agentsh/internal/executor/       *)
(* loop.go) and how wait feeds it (executor.go): the end of an invocation is  *)
(* recorded by the goroutine that waited for it, so two ends may be recorded  *)
(* in the other order than they came about.                                   *)
EXTENDS Naturals, Sequences, FiniteSets

CONSTANTS
    Sessions, Commands,
    Threshold,  \* failures that make a loop
    Window,     \* ticks
    Late,       \* ticks by which an end may be recorded late
    MaxEnds, MaxTime  \* bounds: ends recorded, ticks

VARIABLES
    now,       \* the clock
    failures,  \* LoopDetector.failures: per session, a sequence of records
    warned,    \* whether the last end recorded was answered with a warning
    ends       \* history: the ends recorded since the daemon started

loVars == <<now, failures, warned, ends>>

\* Mutant: only the session of the invocation is pruned.
PrunedHere(session, t) ==
    [failures EXCEPT ![session] = SelectSeq(@, LAMBDA r : r.time + Window >= t)]

\* pruneStale: in every session.
Pruned(session, t) ==
    [s \in Sessions |-> SelectSeq(failures[s], LAMBDA r : r.time + Window >= t)]

Count(records, cmd) == Len(SelectSeq(records, LAMBDA r : r.cmd = cmd))
Ended(session, cmd, t, ok) == ends' = Append(ends, [session |-> session, cmd |-> cmd, time |-> t, ok |-> ok])
Times == {t \in 0..now : t + Late >= now}

\* RecordAndCheck, of an invocation that failed.
RecordAndCheck(session, cmd) ==
    /\ Len(ends) < MaxEnds
    /\ \E t \in Times :
        LET valid == Pruned(session, t) IN
        /\ failures' = [valid EXCEPT ![session] = Append(@, [cmd |-> cmd, time |-> t])]
        /\ warned' = (Count(valid[session], cmd) + 1 >= Threshold)
        /\ Ended(session, cmd, t, FALSE)
    /\ UNCHANGED now

\* Mutant: a success forgets every failure of the session.
RecordSuccessOfAll(session, cmd) ==
    /\ Len(ends) < MaxEnds
    /\ \E t \in Times :
        /\ failures' = [Pruned(session, t) EXCEPT ![session] = <<>>]
        /\ warned' = FALSE
        /\ Ended(session, cmd, t, TRUE)
    /\ UNCHANGED now

\* RecordSuccess forgets the failures of the command.
RecordSuccess(session, cmd) ==
    /\ Len(ends) < MaxEnds
    /\ \E t \in Times :
        /\ failures' = [Pruned(session, t) EXCEPT ![session] = SelectSeq(@, LAMBDA r : r.cmd # cmd)]
        /\ warned' = FALSE
        /\ Ended(session, cmd, t, TRUE)
    /\ UNCHANGED now

Tick ==
    /\ now < MaxTime
    /\ now' = now + 1
    /\ UNCHANGED <<failures, warned, ends>>

\* The counters are in memory only.
DaemonRestart ==
    /\ ends # <<>> /\ ends' = <<>> /\ warned' = FALSE
    /\ failures' = [s \in Sessions |-> <<>>]
    /\ UNCHANGED now

Init ==
    /\ now = 0 /\ warned = FALSE /\ ends = <<>>
    /\ failures = [s \in Sessions |-> <<>>]

Next ==
    \/ Tick \/ DaemonRestart
    \/ \E s \in Sessions, c \in Commands : RecordAndCheck(s, c) \/ RecordSuccess(s, c)

------------------------------------------------------------------------------

\* The failures the last end makes one more of: of its session and command, with no
\* success of them recorded after, and within d of the last end's time.
Repeats(d) ==
    LET last == ends[Len(ends)] IN
    {i \in DOMAIN ends :
        /\ ends[i].session = last.session /\ ends[i].cmd = last.cmd /\ ~ends[i].ok
        /\ \A j \in (i + 1)..Len(ends) : ends[j].ok => ends[j].session # last.session \/ ends[j].cmd # last.cmd
        /\ ends[i].time + d >= last.time}

\* A warning is due to as many failures of the command as it says, and as many
\* failures bring it: exactly when ends are recorded in order, and with ends that
\* are recorded late up to how late they were.
WarningIsDue ==
    ends # <<>> /\ ~ends[Len(ends)].ok =>
        /\ warned => Cardinality(Repeats(Window)) >= Threshold
        /\ Cardinality(Repeats(Window - Late)) >= Threshold => warned

\* The detector holds no record that was out of the window when the last end was
\* recorded, in any session, so sessions that go quiet do not pile up.
HoldsTheWindowOnly ==
    ends # <<>> => \A s \in Sessions : \A i \in DOMAIN failures[s] : failures[s][i].time + Window >= ends[Len(ends)].time
==============================================================================
