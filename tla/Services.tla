------------------------------ MODULE Services ------------------------------
(***************************************************************************)
(* agentshd's named services (agentsh/internal/executor/service.go): one   *)
(* name, the record in memory and the one on disk, the invocations that    *)
(* ran under the name, and the handlers that start, ask about and kill it. *)
(* svcMu is released between the steps of every operation. Persistence is *)
(* best effort: a write of the record may fail, and nothing writes it again *)
(* before the next call does.                                              *)
(***************************************************************************)
EXTENDS Naturals, FiniteSets

CONSTANTS Runs,       \* ids of the invocations a start may use
          Clients,    \* connections handled at once
          MaxCrashes,
          MaxFaults   \* bound: files that cannot be read, written or removed

VARIABLES services,   \* the record in e.services, or None
          file,       \* the record in ServicesDir, or None
          runs,       \* Runs -> "none", "running", "spared" (it ignored the kill
                      \* that freed its name), "orphan" (alive, untracked), "dead"
          client,     \* Clients -> the operation in progress
          svPast      \* history: restarts, faults, and whether the last write of the
                      \* record failed

svVars == <<services, file, runs, client, svPast>>

None == [run |-> 0, state |-> "none"]
Idle == [op |-> "idle", rec |-> None]

Init ==
  /\ services = None /\ file = None
  /\ runs = [r \in Runs |-> "none"]
  /\ client = [c \in Clients |-> Idle]
  /\ svPast = [crashes |-> 0, faults |-> 0, unsaved |-> FALSE]

\* isServiceRunning: the invocation is in e.running.
IsServiceRunning(rec) == rec # None /\ runs[rec.run] \in {"running", "spared"}

To(c, op, rec) == client' = [client EXCEPT ![c] = [op |-> op, rec |-> rec]]

\* A read, a write or a removal of the file fails: the disk is not what it should be.
Fault == svPast.faults < MaxFaults /\ svPast' = [svPast EXCEPT !.faults = @ + 1, !.unsaved = TRUE]
Saved == svPast' = [svPast EXCEPT !.unsaved = FALSE]

Return(c) == client' = [client EXCEPT ![c] = Idle]

\* StartService, up to the check: refused while the named invocation runs.
StartCheck(c) ==
  /\ client[c].op = "idle" /\ ~IsServiceRunning(services)
  /\ To(c, "execute", None)
  /\ UNCHANGED <<services, file, runs, svPast>>

\* Execute in the background, or it fails and StartService returns.
StartExecute(c) ==
  /\ client[c].op = "execute"
  /\ \/ \E r \in Runs :
          /\ runs[r] = "none" /\ \A q \in Runs : q < r => runs[q] # "none"
          /\ runs' = [runs EXCEPT ![r] = "running"]
          /\ To(c, "record", [run |-> r, state |-> "running"])
     \/ Return(c) /\ UNCHANGED runs
  /\ UNCHANGED <<services, file, svPast>>

\* The record replaces whatever the name stands for now.
StartRecord(c) ==
  /\ client[c].op = "record"
  /\ services' = client[c].rec
  /\ To(c, "persist", client[c].rec)
  /\ UNCHANGED <<file, runs, svPast>>

\* persistService: a temporary file and a rename.
Persist(c) ==
  /\ client[c].op = "persist"
  /\ file' = client[c].rec /\ Saved
  /\ Return(c)
  /\ UNCHANGED <<services, runs>>

\* One of the two fails: StartService answers with an error though the service runs,
\* ServiceStatus goes on; the record that was there stays.
PersistFails(c) ==
  /\ client[c].op = "persist"
  /\ Fault
  /\ Return(c)
  /\ UNCHANGED <<services, file, runs>>

\* ServiceStatus, the copy under svcMu and the look at e.running.
StatusRead(c) ==
  /\ client[c].op = "idle" /\ services.state = "running"
  /\ To(c, "status", services)
  /\ UNCHANGED <<services, file, runs, svPast>>

\* Not running any more: the copy, marked, is written back and persisted.
StatusWrite(c) ==
  /\ client[c].op = "status"
  /\ IF IsServiceRunning(client[c].rec)
     THEN Return(c) /\ UNCHANGED services
     ELSE LET updated == [client[c].rec EXCEPT !.state = "crashed"]
          IN services' = updated /\ To(c, "persist", updated)
  /\ UNCHANGED <<file, runs, svPast>>

\* KillService: the name is freed first.
KillTake(c) ==
  /\ client[c].op = "idle" /\ services # None
  /\ To(c, "kill", services)
  /\ services' = None
  /\ UNCHANGED <<file, runs, svPast>>

\* Mutant: the record of a service that has ended is left on disk.
KillLeavesFile(c) ==
  /\ client[c].op = "kill"
  /\ IF IsServiceRunning(client[c].rec)
     THEN /\ runs' = [runs EXCEPT ![client[c].rec.run] = "dead"]
          /\ To(c, "remove", client[c].rec)
     ELSE UNCHANGED runs /\ Return(c)
  /\ UNCHANGED <<services, file, svPast>>

\* Then the invocation is signalled, when it is tracked, and dies of it; a
\* process that ignores the signal stays.
KillSignal(c) ==
  /\ client[c].op = "kill"
  /\ To(c, "remove", client[c].rec)
  /\ IF IsServiceRunning(client[c].rec)
     THEN \E s \in {"dead", "spared"} : runs' = [runs EXCEPT ![client[c].rec.run] = s]
     ELSE UNCHANGED runs
  /\ UNCHANGED <<services, file, svPast>>

\* removeServiceFile.
KillRemove(c) ==
  /\ client[c].op = "remove"
  /\ file' = None /\ Saved
  /\ Return(c)
  /\ UNCHANGED <<services, runs>>

\* The removal fails: KillService answers with an error, and the record stays.
RemoveFails(c) ==
  /\ client[c].op = "remove"
  /\ Fault
  /\ Return(c)
  /\ UNCHANGED <<services, file, runs>>

\* A service ends by itself.
RunEnds(r) ==
  /\ runs[r] \in {"running", "spared", "orphan"}
  /\ runs' = [runs EXCEPT ![r] = "dead"]
  /\ UNCHANGED <<services, file, client, svPast>>

\* LoadServices on the record of the file: "running" is kept only for a process
\* that is alive.
LoadServices(rec) ==
  IF rec.state = "running" /\ runs[rec.run] = "dead"
  THEN [rec EXCEPT !.state = "stopped"] ELSE rec

\* The record is read, and rewritten when the process has died; it is skipped when it
\* cannot be read, and the rewriting may fail or leave a file that cannot be read.
ReadsRecord ==
  \/ /\ services' = LoadServices(file) /\ file' = LoadServices(file)
     /\ svPast' = [svPast EXCEPT !.crashes = @ + 1, !.unsaved = FALSE]
  \/ /\ svPast.faults < MaxFaults
     /\ svPast' = [svPast EXCEPT !.crashes = @ + 1, !.faults = @ + 1, !.unsaved = TRUE]
     /\ \/ services' = None /\ file' = file
        \/ LoadServices(file) # file /\ services' = LoadServices(file) /\ file' \in {file, None}

\* The daemon ends and another one starts: what ran is alive, and untracked.
Restart ==
  /\ svPast.crashes < MaxCrashes
  /\ ReadsRecord
  /\ runs' = [r \in Runs |-> IF runs[r] \in {"running", "spared"} THEN "orphan" ELSE runs[r]]
  /\ client' = [c \in Clients |-> Idle]

Next ==
  \/ \E c \in Clients :
       \/ StartCheck(c) \/ StartExecute(c) \/ StartRecord(c) \/ Persist(c) \/ PersistFails(c)
       \/ StatusRead(c) \/ StatusWrite(c)
       \/ KillTake(c) \/ KillSignal(c) \/ KillRemove(c) \/ RemoveFails(c)
  \/ \E r \in Runs : RunEnds(r)
  \/ Restart

Spec == Init /\ [][Next]_svVars

(***************************************************************************)
(* Properties.                                                             *)
(***************************************************************************)

\* For a client that makes one call at a time: between two calls the name leads to the
\* invocation that runs, whatever starts, kills, failed writes and restarts came before;
\* and the disk says the same, unless the last write of the record failed: then the next
\* daemon may not know a service that runs, or know one that was killed.
NameLeadsToIt ==
  (\A c \in Clients : client[c] = Idle) =>
    /\ services = file \/ svPast.unsaved
    /\ \A r \in Runs : runs[r] = "running" => services.run = r
=============================================================================
