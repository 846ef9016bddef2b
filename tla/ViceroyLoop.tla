----------------------------- MODULE ViceroyLoop -----------------------------
(* The viceroy's wake loop (line/viceroy/viceroy.go) and the testament it     *)
(* leaves in serve (line/station/testament.go).                               *)
(*                                                                            *)
(* Messages are numbered by their ids. A generation waits for news, runs the  *)
(* agent on the batch it has fetched and records the batch as handled by      *)
(* reading the testament and writing it back with the new marker; the agent   *)
(* rewrites the same testament during its run. Two generations may overlap    *)
(* during a handover: the testament route admits both.                        *)
EXTENDS Naturals, FiniteSets

CONSTANTS
    Gens,         \* generations of the viceroy
    MaxMessages,  \* bound: messages in the inbox
    MaxWorld,     \* bound: andon changes and moves of master
    MaxFaults     \* bound: failed calls, failed runs and crashes

VARIABLES
    inboxLen,     \* serve: messages in the inbox
    world,        \* serve: version of the andon event and master
    testament,    \* serve: the marker and the notes in the testament
    loop,         \* per generation, its wake loop
    viPast        \* history: messages and world versions shown to a run, faults

vlVars == <<inboxLen, world, testament, loop, viPast>>

Off == [at |-> "off", wake |-> "none", handled |-> 0, to |-> 0, seen |-> 0, cur |-> 0,
        body |-> [marker |-> 0, notes |-> {}]]
Alive == {g \in Gens : loop[g].at \notin {"off", "gone"}}
Fault == viPast.faults < MaxFaults
Faulted == [viPast EXCEPT !.faults = @ + 1]
Set(g, r) == loop' = [loop EXCEPT ![g] = r]

------------------------------------------------------------------------------

\* Mutant: what is in the inbox at the start is history.
LoopStartAtEnd(g) ==
    /\ loop[g].at = "off"
    /\ Set(g, [Off EXCEPT !.at = "wake", !.wake = "startup", !.handled = inboxLen, !.to = inboxLen, !.seen = world])
    /\ viPast' = [viPast EXCEPT !.overlap = @ \/ Alive # {}]
    /\ UNCHANGED <<inboxLen, world, testament>>

\* Run begins: what the testament marks as handled is history, the rest of the
\* inbox is the first batch.
LoopStart(g) ==
    /\ loop[g].at = "off"
    /\ Set(g, [Off EXCEPT !.at = "wake", !.wake = "startup", !.handled = testament.marker,
                          !.to = IF inboxLen > testament.marker THEN inboxLen ELSE testament.marker, !.seen = world])
    /\ viPast' = [viPast EXCEPT !.overlap = @ \/ Alive # {}]
    /\ UNCHANGED <<inboxLen, world, testament>>

\* fetch: the inbox holds messages after the last one this generation handled.
Fetched(g) == inboxLen > loop[g].handled

\* Mutant: only messages wake the viceroy.
WaitForMessages(g) ==
    /\ loop[g].at = "wait"
    /\ Fetched(g) /\ Set(g, [loop[g] EXCEPT !.at = "wake", !.wake = "messages", !.to = inboxLen])
    /\ UNCHANGED <<inboxLen, world, testament, viPast>>

\* Waiting: new messages come first, then a change of the line, then the heartbeat.
Wait(g) ==
    /\ loop[g].at = "wait"
    /\ \/ Fetched(g) /\ Set(g, [loop[g] EXCEPT !.at = "wake", !.wake = "messages", !.to = inboxLen])
       \/ ~Fetched(g) /\ world # loop[g].seen /\ Set(g, [loop[g] EXCEPT !.at = "wake", !.wake = "line"])
       \/ ~Fetched(g) /\ world = loop[g].seen /\ Set(g, [loop[g] EXCEPT !.at = "wake", !.wake = "heartbeat"])
    /\ UNCHANGED <<inboxLen, world, testament, viPast>>

\* The run's prompt: the status, the testament and the batch as they are now.
RunAgent(g) ==
    /\ loop[g].at = "wake"
    /\ Set(g, [loop[g] EXCEPT !.at = "run", !.cur = world, !.body = testament])
    /\ viPast' = [viPast EXCEPT !.shown = @ \cup ((loop[g].handled + 1)..loop[g].to), !.told = world]
    /\ UNCHANGED <<inboxLen, world, testament>>

\* The agent writes the testament it was shown, with its own notes added.
AgentPut(g) ==
    /\ loop[g].at = "run" /\ g \notin loop[g].body.notes
    /\ testament' = [marker |-> loop[g].body.marker, notes |-> loop[g].body.notes \cup {g}]
    /\ Set(g, [loop[g] EXCEPT !.body = [marker |-> @.marker, notes |-> @.notes \cup {g}]])
    /\ UNCHANGED <<inboxLen, world, viPast>>

\* The run ends. A failed startup run ends the process; any other batch counts as
\* handled whatever became of the run.
RunEnds(g) ==
    /\ loop[g].at = "run"
    /\ \E ok \in BOOLEAN :
        /\ ok \/ Fault
        /\ viPast' = IF ok THEN viPast ELSE Faulted
        /\ Set(g, CASE ~ok /\ loop[g].wake = "startup" -> Off
                    [] (ok \/ loop[g].wake # "startup") /\ loop[g].to > loop[g].handled -> [loop[g] EXCEPT !.at = "mark"]
                    [] OTHER -> [Off EXCEPT !.at = "wait", !.handled = loop[g].handled, !.to = loop[g].handled, !.seen = loop[g].cur])
    /\ UNCHANGED <<inboxLen, world, testament>>

\* recordMarker: the freshest testament is read, and written back with the marker.
MarkerGet(g) ==
    /\ loop[g].at = "mark"
    /\ Set(g, [loop[g] EXCEPT !.at = "put", !.body = testament])
    /\ UNCHANGED <<inboxLen, world, testament, viPast>>

\* Mutant: all that is in the inbox by now is marked.
MarkedNow(g) == [loop[g].body EXCEPT !.marker = inboxLen]

\* Mutant: the rest of the testament is dropped.
MarkedOnly(g) == [marker |-> loop[g].to, notes |-> {}]

Marked(g) == [loop[g].body EXCEPT !.marker = loop[g].to]

MarkerPut(g) ==
    /\ loop[g].at = "put"
    /\ \/ testament' = Marked(g) /\ UNCHANGED viPast
       \/ Fault /\ viPast' = Faulted /\ UNCHANGED testament
    /\ Set(g, [Off EXCEPT !.at = "wait", !.handled = loop[g].to, !.to = loop[g].to, !.seen = loop[g].cur])
    /\ UNCHANGED <<inboxLen, world>>

Crash(g) ==
    /\ g \in Alive /\ Fault
    /\ Set(g, Off)
    /\ viPast' = Faulted
    /\ UNCHANGED <<inboxLen, world, testament>>

\* The succession stops a generation while another one runs.
Retire(g) ==
    /\ g \in Alive /\ Alive # {g}
    /\ Set(g, [Off EXCEPT !.at = "gone"])
    /\ UNCHANGED <<inboxLen, world, testament, viPast>>

Arrive ==
    /\ \/ inboxLen < MaxMessages /\ inboxLen' = inboxLen + 1 /\ UNCHANGED world
       \/ world < MaxWorld /\ world' = world + 1 /\ UNCHANGED inboxLen
    /\ UNCHANGED <<testament, loop, viPast>>

Init ==
    /\ inboxLen = 0 /\ world = 0
    /\ testament = [marker |-> 0, notes |-> {}]
    /\ loop = [g \in Gens |-> Off]
    /\ viPast = [shown |-> {}, told |-> 0, overlap |-> FALSE, faults |-> 0]

Looping(g) == LoopStart(g) \/ Wait(g) \/ RunAgent(g) \/ RunEnds(g) \/ MarkerGet(g) \/ MarkerPut(g)
Next == Arrive \/ \E g \in Gens : Looping(g) \/ AgentPut(g) \/ Crash(g) \/ Retire(g)
Spec == Init /\ [][Next]_vlVars

------------------------------------------------------------------------------

\* What the testament marks as handled was in some run's batch: no message is
\* passed over by a crash, a failed run or a handover.
MarkedWasShown == \A m \in 1..testament.marker : m \in viPast.shown

\* Notes in the testament are lost only while two generations write it.
NotesKept == [][testament.notes \subseteq testament'.notes \/ viPast.overlap]_vlVars

\* Every message and every change of the line is brought before a run.
EveryMessageShown == \A m \in 1..MaxMessages : inboxLen >= m ~> m \in viPast.shown
EveryChangeShown == \A v \in 1..MaxWorld : world >= v ~> viPast.told >= v
==============================================================================
