------------------------------ MODULE MakerWatch ------------------------------
(* The watch over the makers' heartbeats (line/station/liveness.go): serve     *)
(* posts to the king's channel when no maker has been heard for the silence    *)
(* limit and when one is heard again, and likewise for each station whose      *)
(* clock drifts. Heartbeats are kept in memory; a post may fail, or be delivered *)
(* and its answer lost.                                                        *)
EXTENDS Naturals, FiniteSets

CONSTANTS
    Makers,
    Limit,        \* MakerSilenceLimit, in ticks
    MaxDrifts,    \* bound: changes of a station's clock
    MaxFaults     \* bound: posts that fail or lose their answer, restarts of serve

VARIABLES
    up,           \* the makers that run
    drift,        \* the makers whose clock is off
    heard,        \* serve: per maker, ticks since its heartbeat (Limit + 1: over the limit), and its skew
    since,        \* serve: ticks since it started, capped likewise
    watch,        \* MakerWatch: alerted and skewed
    posts,        \* the channel: last word on the makers, last word per clock
    mwPast        \* history: repeated posts, posts last delivered without answer, restarts, counters

mwVars == <<up, drift, heard, since, watch, posts, mwPast>>

Silent == Limit + 1
Never == [ago |-> Silent, skew |-> FALSE, ever |-> FALSE]
Older(n) == IF n > Limit THEN n ELSE n + 1
Fault == mwPast.faults < MaxFaults
Line == "line"    \* the alarm over all makers; each maker has one over its clock

\* snapshot's Alive, and lastMakerSeen's: serve's own start counts as a sighting.
Alive(m) == heard[m].ever /\ heard[m].ago <= Limit

\* Mutant: before its first heartbeat no maker is missed.
UnheardIsAlive == since <= Limit \/ (\A m \in Makers : ~heard[m].ever) \/ \E m \in Makers : Alive(m)

SomeoneAlive == since <= Limit \/ \E m \in Makers : Alive(m)

------------------------------------------------------------------------------

\* A running maker beats every poll, three to the limit.
Beat(m) ==
    /\ m \in up /\ heard[m] # [ago |-> 0, skew |-> m \in drift, ever |-> TRUE]
    /\ heard' = [heard EXCEPT ![m] = [ago |-> 0, skew |-> m \in drift, ever |-> TRUE]]
    /\ UNCHANGED <<up, drift, since, watch, posts, mwPast>>

\* A tick finds every running maker heard since the last one.
Tick ==
    /\ \A m \in up : heard[m].ago = 0
    /\ heard' = [m \in Makers |-> [heard[m] EXCEPT !.ago = Older(@)]]
    /\ since' = Older(since)
    /\ <<heard', since'>> # <<heard, since>>
    /\ UNCHANGED <<up, drift, watch, posts, mwPast>>

StopOrStart(m) ==
    /\ mwPast.drifts < MaxDrifts
    /\ \/ up' = (up \ {m}) \cup ({m} \ up) /\ UNCHANGED drift
       \/ drift' = (drift \ {m}) \cup ({m} \ drift) /\ UNCHANGED up
    /\ mwPast' = [mwPast EXCEPT !.drifts = @ + 1]
    /\ UNCHANGED <<heard, since, watch, posts>>

\* A post of an alarm that is answered, delivered without answer, or not delivered. It
\* repeats the channel's last word for no reason unless that one had no answer.
Answered(alarm, again) ==
    mwPast' = [mwPast EXCEPT !.twice = @ \/ (again /\ alarm \notin mwPast.lost), !.lost = @ \ {alarm}]
Unanswered(alarm, again) ==
    Fault /\ mwPast' = [mwPast EXCEPT !.twice = @ \/ (again /\ alarm \notin mwPast.lost),
                                     !.lost = @ \cup {alarm}, !.faults = @ + 1]
Undelivered == Fault /\ mwPast' = [mwPast EXCEPT !.faults = @ + 1]

\* checkClockSkew: one post per station out of step or back in it; an error leaves
\* the state as it was.
Skewed(m) == Alive(m) /\ heard[m].skew
CheckClock(m) ==
    /\ Skewed(m) # watch.skewed[m]
    /\ LET again == posts.clock[m] = Skewed(m)
           delivered == posts' = [posts EXCEPT !.clock[m] = Skewed(m)]
       IN \/ Answered(m, again) /\ delivered /\ watch' = [watch EXCEPT !.skewed[m] = Skewed(m)]
          \/ Unanswered(m, again) /\ delivered /\ UNCHANGED watch
          \/ Undelivered /\ UNCHANGED <<watch, posts>>
    /\ UNCHANGED <<up, drift, heard, since>>

\* Mutant: the post is not remembered.
CheckForgets ==
    /\ SomeoneAlive = watch.alerted
    /\ posts' = [posts EXCEPT !.dead = ~SomeoneAlive]
    /\ Answered(Line, posts.dead = ~SomeoneAlive)
    /\ UNCHANGED <<up, drift, heard, since, watch>>

\* Mutant: the alert is never called off.
CheckDeathOnly ==
    /\ ~SomeoneAlive /\ ~watch.alerted
    /\ watch' = [watch EXCEPT !.alerted = TRUE]
    /\ posts' = [posts EXCEPT !.dead = TRUE]
    /\ UNCHANGED <<up, drift, heard, since, mwPast>>

\* Check: alerted follows the post and is put back on an error, delivered or not.
CheckMakers ==
    /\ SomeoneAlive = watch.alerted
    /\ LET again == posts.dead = ~SomeoneAlive
           delivered == posts' = [posts EXCEPT !.dead = ~SomeoneAlive]
       IN \/ Answered(Line, again) /\ delivered /\ watch' = [watch EXCEPT !.alerted = ~@]
          \/ Unanswered(Line, again) /\ delivered /\ UNCHANGED watch
          \/ Undelivered /\ UNCHANGED <<watch, posts>>
    /\ UNCHANGED <<up, drift, heard, since>>

\* A restart of serve forgets the heartbeats and what was posted.
Fresh == [alerted |-> FALSE, skewed |-> [m \in Makers |-> FALSE]]
Restart ==
    /\ Fault
    /\ heard' = [m \in Makers |-> Never] /\ since' = 0 /\ watch' = Fresh
    /\ mwPast' = [mwPast EXCEPT !.faults = @ + 1, !.restarted = TRUE, !.lost = {}]
    /\ UNCHANGED <<up, drift, posts>>

Init ==
    /\ up = Makers /\ drift = {}
    /\ heard = [m \in Makers |-> Never] /\ since = 0
    /\ watch = Fresh
    /\ posts = [dead |-> FALSE, clock |-> [m \in Makers |-> FALSE]]
    /\ mwPast = [twice |-> FALSE, lost |-> {}, restarted |-> FALSE, drifts |-> 0, faults |-> 0]

Check == CheckMakers \/ \E m \in Makers : CheckClock(m)
Next == Tick \/ Check \/ Restart \/ \E m \in Makers : Beat(m) \/ StopOrStart(m)

------------------------------------------------------------------------------

\* Until serve restarts the channel never hears the same thing twice running, except
\* what it heard in a post whose answer was lost.
AlertsAlternate == mwPast.twice => mwPast.restarted

\* A line without makers is reported: the channel's last word ends up right, and
\* stays so, for as long as the makers stay as they are. A restart may leave an
\* old alarm standing, never hide a dead line; only an all-clear that was delivered
\* and lost its answer does, when the makers are gone again before the next Check.
DeadLineReported == <>[](up = {}) => <>[](posts.dead \/ Line \in mwPast.lost)

\* Makers that come back take the alarm down, unless serve was restarted or the alarm
\* lost its answer and was never posted again.
RecoveryReported == <>[](up # {}) => <>[](~posts.dead \/ mwPast.restarted \/ Line \in mwPast.lost)
===============================================================================
