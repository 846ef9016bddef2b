---------------------------- MODULE Invocations ----------------------------
(***************************************************************************)
(* agentshd: the life of an invocation, from the handler that accepts it   *)
(* to the row that records how it ended.                                   *)
(*   agentsh/internal/executor/executor.go   Execute, start, wait, Kill    *)
(*   agentsh/internal/storage/store.go       the row, Reconcile            *)
(*   agentsh/internal/daemon/server.go       Serve, handle, Shutdown       *)
(* Execute runs in the handler of a connection, wait in a goroutine of its *)
(* own, and Kill in the handler of another connection; they share the      *)
(* record r.invocation under e.mu, which each takes several times.         *)
(***************************************************************************)
EXTENDS Naturals, TLC

CONSTANTS Invs,       \* ids of invocations
          Kinds,      \* "fg", "bg" and "tty" (foreground, interactive)
          MaxFaults   \* crashes of the daemon, refusals of the database, failed kills and commits

VARIABLES inv,        \* Invs -> the run, its process and its row
          daemon,     \* "up", "stopping" or "down"
          icount      \* faults so far

ivVars == <<inv, daemon, icount>>

Terminal == {"exited", "timeout", "killed", "daemon_lost"}

NoRow == [state |-> "none", reason |-> "none", pid |-> FALSE, out |-> FALSE]

\* A run nobody asked for yet.  at: where the executor and its waiter are;
\* state and reason: r.invocation; proc: the process ("alive" or how it ended);
\* sig: the strongest signal sent; err: what wait read; caller: the handler in
\* Execute; asked, late, refused and uncommitted: what really happened to it.
Unused == [kind |-> "none", at |-> "none", state |-> "running", reason |-> "none",
           proc |-> "none", sig |-> "none", err |-> "none", tracked |-> FALSE,
           caller |-> "none", input |-> FALSE, row |-> NoRow,
           copy |-> NoRow, asked |-> FALSE, late |-> FALSE, refused |-> FALSE, uncommitted |-> FALSE]

Init ==
  /\ inv = [i \in Invs |-> Unused]
  /\ daemon = "up"
  /\ icount = 0

Fault == icount < MaxFaults /\ icount' = icount + 1

Serving == daemon \in {"up", "stopping"}

InExecute(i) == inv[i].caller \in {"waiting", "leaving", "killing"}

\* Step(i, f): the run i, with the fields of f changed.
Step(i, f) == inv' = [inv EXCEPT ![i] = f @@ @]

\* server.go handleBash, executor.go Execute up to CreateInvocation: the row of
\* a new invocation is "running" and has no process id yet.
Create(i, k) ==
  /\ daemon = "up" /\ inv[i].at = "none"
  /\ Step(i, [kind |-> k, at |-> "created", caller |-> "waiting",
              row |-> [NoRow EXCEPT !.state = "running"]])
  /\ UNCHANGED <<daemon, icount>>

\* FinishInvocation of run i with the record r: one UPDATE, unless it is refused,
\* which the executor does not look at.
Finish(i, r, f) ==
  \/ /\ Step(i, f @@ [row |-> [r EXCEPT !.pid = inv[i].row.pid]])
     /\ UNCHANGED icount
  \/ Fault /\ Step(i, f @@ [refused |-> TRUE])

\* start fails before the process runs: the row is finished there and then.
StartFails(i) ==
  /\ Serving /\ inv[i].at = "created"
  /\ Finish(i, [NoRow EXCEPT !.state = "exited", !.reason = "start"],
            [at |-> "gone", caller |-> "failed"])
  /\ UNCHANGED daemon

\* cmd.Start: the process runs; its id is not in the row yet.
StartProcess(i) ==
  /\ Serving /\ inv[i].at = "created"
  /\ Step(i, [at |-> "started", proc |-> "alive"])
  /\ UNCHANGED <<daemon, icount>>

\* SetPID, the registration under e.mu and `go e.wait`; a background caller has
\* its answer.
Register(i) ==
  /\ Serving /\ inv[i].at = "started"
  /\ Step(i, [at |-> "loop", tracked |-> TRUE,
              caller |-> IF inv[i].kind = "bg" THEN "told" ELSE "waiting",
              row |-> [inv[i].row EXCEPT !.pid = TRUE]])
  /\ UNCHANGED <<daemon, icount>>

\* SetPID is refused: Execute treats it as a failed start; cancel kills the
\* shell and nobody waits for it.
SetPIDRefused(i) ==
  /\ Serving /\ inv[i].at = "started" /\ Fault
  /\ Step(i, [at |-> "gone", caller |-> "failed", sig |-> "kill",
              row |-> [NoRow EXCEPT !.state = "exited", !.reason = "start"]])
  /\ UNCHANGED daemon

\* The process ends: by itself, or of a signal.  SIGTERM can be ignored.
ProcessEnds(i) ==
  /\ inv[i].proc = "alive"
  /\ \E how \in {"ok", "nonzero"} \cup (IF inv[i].sig = "none" THEN {} ELSE {"signal"}) :
       Step(i, [proc |-> how])
  /\ UNCHANGED <<daemon, icount>>

\* SIGKILL cannot.
ProcessKilled(i) ==
  /\ inv[i].proc = "alive" /\ inv[i].sig = "kill"
  /\ Step(i, [proc |-> "signal"])
  /\ UNCHANGED <<daemon, icount>>

\* wait and terminate: cmd.Wait has returned.
WaitReturns(i) ==
  /\ Serving /\ inv[i].at \in {"loop", "grace", "dying"} /\ inv[i].proc # "alive"
  /\ Step(i, [at |-> "ended", err |-> inv[i].proc])
  /\ UNCHANGED <<daemon, icount>>

\* wait: the timer fires; the state is set under e.mu, then SIGTERM.
Deadline(i) ==
  /\ Serving /\ inv[i].at = "loop"
  /\ Step(i, [at |-> "grace", state |-> "timeout", late |-> TRUE,
              sig |-> IF inv[i].sig = "kill" THEN "kill" ELSE "term"])
  /\ UNCHANGED <<daemon, icount>>

\* Mutant: SIGTERM is sent again instead of SIGKILL.
GraceAgain(i) ==
  /\ Serving /\ inv[i].at = "grace"
  /\ Step(i, [at |-> "dying"]) /\ UNCHANGED icount
  /\ UNCHANGED daemon

\* terminate after the grace: SIGKILL, and wait again; when the kill itself
\* fails its error is returned and nobody waits for the process any more.
GraceOver(i) ==
  /\ Serving /\ inv[i].at = "grace"
  /\ \/ Step(i, [at |-> "dying", sig |-> "kill"]) /\ UNCHANGED icount
     \/ Fault /\ Step(i, [at |-> "ended", err |-> "supervisor"])
  /\ UNCHANGED daemon

\* wait's ticker: an interactive command is silent and reads its stdin.
WaitsOnInput(i) ==
  /\ Serving /\ inv[i].kind = "tty" /\ inv[i].at = "loop" /\ inv[i].proc = "alive"
  /\ ~inv[i].input
  /\ Step(i, [input |-> TRUE, state |-> "waiting_on_input"])
  /\ UNCHANGED <<daemon, icount>>

\* Execute's select: the command waits on input, so the caller is told.
AnswerInput(i) ==
  /\ Serving /\ inv[i].caller = "waiting" /\ inv[i].input
  /\ Step(i, [caller |-> "told"])
  /\ UNCHANGED <<daemon, icount>>

\* Mutant: an error that is no exit status counts as success.
MapUnknownToOk(state, err) ==
  CASE state = "timeout" /\ err # "supervisor" -> "timeout"
    [] state = "killed" /\ err # "supervisor" -> "killed"
    [] err = "supervisor" -> "ok"
    [] OTHER -> err

\* mapExit.
MapExit(state, err) ==
  CASE state = "timeout" -> "timeout"
    [] state = "killed" -> "killed"
    [] OTHER -> err

\* wait, first section under e.mu: the session's state, the terminal state, the
\* reason.
Capture(i) ==
  LET s == IF inv[i].state \in {"timeout", "killed"} THEN inv[i].state ELSE "exited"
  IN /\ Serving /\ inv[i].at = "ended"
     /\ Step(i, [at |-> "mapped", state |-> s, reason |-> MapExit(s, inv[i].err)])
     /\ UNCHANGED <<daemon, icount>>

\* Mutant: the run is taken out of e.running before its row is stored.
CopyAndForget(i) ==
  /\ Serving /\ inv[i].at = "mapped"
  /\ Step(i, [at |-> "copied", tracked |-> FALSE,
              copy |-> [state |-> inv[i].state, reason |-> inv[i].reason,
                        pid |-> TRUE, out |-> TRUE]])
  /\ UNCHANGED <<daemon, icount>>

\* The streams are committed without the lock; then, under it, the record is
\* copied to be stored.  finalizeStream drops the error of a Commit, and the record
\* then names no blob.
CopyRecord(i) ==
  /\ Serving /\ inv[i].at = "mapped"
  /\ LET copied(out) == [at |-> "copied",
                         copy |-> [state |-> inv[i].state, reason |-> inv[i].reason,
                                   pid |-> TRUE, out |-> out]]
     IN \/ Step(i, copied(TRUE)) /\ UNCHANGED icount
        \/ Fault /\ Step(i, copied(FALSE) @@ [uncommitted |-> TRUE])
  /\ UNCHANGED daemon

\* FinishInvocation of the copy.
StoreRecord(i) ==
  /\ Serving /\ inv[i].at = "copied"
  /\ Finish(i, inv[i].copy, [at |-> "stored"])
  /\ UNCHANGED daemon

\* Mutant: done is not closed.
ForgetSilently(i) ==
  /\ Serving /\ inv[i].at = "stored" /\ inv[i].tracked
  /\ Step(i, [tracked |-> FALSE])
  /\ UNCHANGED <<daemon, icount>>

\* delete(e.running, id), then done is closed.
Forget(i) ==
  /\ Serving /\ inv[i].at = "stored"
  /\ Step(i, [at |-> "gone", tracked |-> FALSE])
  /\ UNCHANGED <<daemon, icount>>

\* Execute's select: done.
AnswerDone(i) ==
  /\ Serving /\ InExecute(i) /\ inv[i].at = "gone"
  /\ Step(i, [caller |-> IF inv[i].caller = "waiting" THEN "told" ELSE "left"])
  /\ UNCHANGED <<daemon, icount>>

\* Execute's select: the client went away, or the daemon stops; the first half
\* of terminateRunning.
CallerLeaves(i) ==
  /\ Serving /\ inv[i].caller = "waiting" /\ inv[i].tracked
  /\ Step(i, [caller |-> "leaving", state |-> "killed", asked |-> TRUE,
              sig |-> IF inv[i].sig = "kill" THEN "kill" ELSE "term"])
  /\ UNCHANGED <<daemon, icount>>

\* The second half, after the grace.
LeaveGraceOver(i) ==
  /\ Serving /\ inv[i].caller = "leaving" /\ inv[i].at # "gone"
  /\ Step(i, [caller |-> "killing", sig |-> "kill"])
  /\ UNCHANGED <<daemon, icount>>

\* Kill, of BashKill: the state first, then whatever signal was asked for.
Kill(i) ==
  /\ Serving /\ inv[i].tracked
  /\ \E s \in {inv[i].sig, "kill", IF inv[i].sig = "kill" THEN "kill" ELSE "term"} :
       Step(i, [state |-> "killed", asked |-> TRUE, sig |-> s])
  /\ UNCHANGED <<daemon, icount>>

\* SIGTERM, SIGINT or the shutdown operation: the listener is closed and every
\* handler's context ends.
Shutdown ==
  /\ daemon = "up"
  /\ daemon' = "stopping"
  /\ UNCHANGED <<inv, icount>>

\* What the end of the daemon's process leaves of run i: its process and its row.
Survives(i) ==
  IF inv[i].at = "none" THEN inv[i]
  ELSE [inv[i] EXCEPT !.at = "lost", !.tracked = FALSE,
                      !.caller = IF InExecute(i) THEN "left" ELSE @]

\* Serve returns once every handler has (s.wg.Wait); waiters of background
\* invocations are not waited for.
Exit ==
  /\ daemon = "stopping" /\ \A i \in Invs : ~InExecute(i)
  /\ daemon' = "down"
  /\ inv' = [i \in Invs |-> Survives(i)]
  /\ UNCHANGED icount

\* The daemon dies.
Crash ==
  /\ Serving /\ Fault
  /\ daemon' = "down"
  /\ inv' = [i \in Invs |-> Survives(i)]

\* store.go Reconcile: a running row without a live process is lost.
Reconciled(i) ==
  IF inv[i].row.state = "running" /\ (~inv[i].row.pid \/ inv[i].proc # "alive")
  THEN [inv[i] EXCEPT !.row.state = "daemon_lost", !.row.reason = "daemon_lost"]
  ELSE inv[i]

\* Serve: the rows are reconciled before the first connection is accepted.
Restart ==
  /\ daemon = "down"
  /\ daemon' = "up"
  /\ inv' = [i \in Invs |-> Reconciled(i)]
  /\ UNCHANGED icount

Waiter(i) == WaitReturns(i) \/ Deadline(i) \/ GraceOver(i) \/ Capture(i)
             \/ CopyRecord(i) \/ StoreRecord(i) \/ Forget(i)

Caller(i) == \/ StartFails(i) \/ StartProcess(i) \/ Register(i) \/ SetPIDRefused(i)
             \/ AnswerInput(i) \/ AnswerDone(i) \/ LeaveGraceOver(i)

Next ==
  \/ \E i \in Invs :
       \/ \E k \in Kinds : Create(i, k)
       \/ Waiter(i) \/ Caller(i) \/ CallerLeaves(i) \/ WaitsOnInput(i)
       \/ Kill(i) \/ ProcessEnds(i) \/ ProcessKilled(i)
  \/ Shutdown \/ Exit \/ Crash \/ Restart

\* Goroutines run, timers fire, SIGKILL kills, and the daemon's own exit is not
\* put off; a stopping daemon's handlers see their context end.
Fairness ==
  /\ \A i \in Invs : WF_ivVars(Waiter(i)) /\ WF_ivVars(Caller(i))
                     /\ WF_ivVars(ProcessKilled(i))
                     /\ WF_ivVars(daemon = "stopping" /\ CallerLeaves(i))
  /\ WF_ivVars(Exit)

Spec == Init /\ [][Next]_ivVars /\ Fairness

(***************************************************************************)
(* Properties.                                                             *)
(***************************************************************************)

\* A caller that was told of an invocation can always read its output: the
\* executor follows the running stream, or the row names the committed blobs.
\* FinishInvocation comes before the delete from e.running; a reader looks at
\* e.running first and at the row second (server.go readOutput).  Only output that
\* could not be committed, a row the database refused, or a run cut off by the end of
\* the daemon, is lost.
ToldIsReadable ==
  \A i \in Invs : inv[i].caller = "told" =>
    \/ inv[i].tracked \/ inv[i].row.out
    \/ inv[i].uncommitted \/ inv[i].refused \/ inv[i].at = "lost"

\* The row tells the truth about the process: "ok" only for a process that ended
\* by itself with success, "timeout" only past the deadline, "killed" only when a
\* kill was asked for or the caller left, "daemon_lost" never for a process the
\* row names and that was alive when the daemon reconciled.
RowIsTrue ==
  \A i \in Invs : LET r == inv[i].row.reason IN
    /\ r = "ok" => inv[i].proc = "ok"
    /\ r = "timeout" => inv[i].late
    /\ r = "killed" => inv[i].asked
    /\ r = "daemon_lost" /\ inv[i].row.pid => inv[i].proc # "alive"

\* Every running invocation ends up in a terminal row and out of e.running,
\* whoever kills it, times it out or leaves it meanwhile, unless the daemon ends
\* or the database refuses the row.
EveryRunSettles ==
  \A i \in Invs : inv[i].at = "loop" ~>
    \/ ~inv[i].tracked /\ inv[i].row.state \in Terminal
    \/ inv[i].refused \/ inv[i].at = "lost"

\* A daemon told to stop does: no foreground command, not even one that ignores
\* SIGTERM, keeps s.wg.Wait from returning.
ShutdownEnds == daemon = "stopping" ~> daemon = "down"
=============================================================================
