----------------------------- MODULE ToolsProofs -----------------------------
(* The tools beside the line: what is proved of agentshd's named services     *)
(* (module Services) for every set of invocations and every number of crashes,*)
(* of depmaint's campaigns (module Campaigns) for every goal, budget and      *)
(* finite set of racing executors, and of bughunt's findings (module Findings)*)
(* for every set of scans.                                                    *)
EXTENDS Parts, Naturals, Sequences, FiniteSetTheorems, TLAPS

------------------------------------------------------------------------------
(* Services, for a daemon with one client. The types.                         *)

States == {"none", "running", "crashed", "stopped"}
Record == [run : Runs, state : States]
MaybeRecord == Record \cup {SV!None}
Ops == {"idle", "execute", "record", "persist", "status", "kill", "remove"}

ServicesTypeOK ==
    /\ services \in MaybeRecord /\ file \in MaybeRecord
    /\ runs \in [Runs -> {"none", "running", "spared", "orphan", "dead"}]
    /\ client \in [Clients -> [op : Ops, rec : MaybeRecord]]
    /\ svPast \in [crashes : Nat, faults : Nat, unsaved : BOOLEAN]

(* The invocation that runs tracked, if any, is the one of rec.               *)
LeadsFrom(rec) == \A r \in Runs : runs[r] = "running" => rec.run = r
NoneRuns == \A r \in Runs : runs[r] # "running"

(* What is on disk is what is in memory, or it could not be written.          *)
OnDisk == services = file \/ svPast.unsaved

(* What the client may rely on in the middle of a call: which of memory, disk *)
(* and its own copy leads to what runs.                                       *)
Midway(o) ==
    /\ o.op = "idle" => OnDisk /\ LeadsFrom(services)
    /\ o.op = "execute" => OnDisk /\ NoneRuns
    /\ o.op = "record" => LeadsFrom(o.rec)
    /\ o.op = "persist" => services = o.rec /\ LeadsFrom(o.rec)
    /\ o.op = "status" => OnDisk /\ services = o.rec /\ o.rec # SV!None /\ LeadsFrom(o.rec)
    /\ o.op = "kill" => services = SV!None /\ o.rec # SV!None /\ LeadsFrom(o.rec)
    /\ o.op = "remove" => services = SV!None /\ NoneRuns

ServicesInv == ServicesTypeOK /\ \A c \in Clients : Midway(client[c])

(* The records of a running and of a marked service are records.              *)
LEMMA RecordFacts ==
    /\ SV!None \in MaybeRecord /\ SV!None.run = 0 /\ SV!None.state = "none"
    /\ SV!Idle = [op |-> "idle", rec |-> SV!None]
    /\ \A r \in Runs : [run |-> r, state |-> "running"] \in Record
    /\ \A rec \in Record, s \in States : [rec EXCEPT !.state = s] \in Record
                                         /\ [rec EXCEPT !.state = s].run = rec.run
BY DEF SV!None, SV!Idle, Record, MaybeRecord, States

(* One client: what it goes to is all that client' holds.                     *)
LEMMA OneClient ==
    ASSUME ServicesInv, NEW me \in Clients, Clients = {me},
           NEW op \in Ops, NEW rec \in MaybeRecord,
           client' = [client EXCEPT ![me] = [op |-> op, rec |-> rec]],
           services' \in MaybeRecord, file' \in MaybeRecord,
           runs' \in [Runs -> {"none", "running", "spared", "orphan", "dead"}],
           svPast' \in [crashes : Nat, faults : Nat, unsaved : BOOLEAN],
           Midway([op |-> op, rec |-> rec])'
    PROVE  ServicesInv'
<1>1. client' \in [Clients -> [op : Ops, rec : MaybeRecord]] /\ client'[me] = [op |-> op, rec |-> rec]
  BY DEF ServicesInv, ServicesTypeOK
<1>2. Midway(client[me])'
  BY <1>1 DEF Midway, LeadsFrom, NoneRuns, OnDisk
<1> QED BY <1>1, <1>2 DEF ServicesInv, ServicesTypeOK

(* What a write of the record leaves behind.                                  *)
LEMMA WriteFacts ==
    ASSUME ServicesInv
    PROVE  /\ svPast \in [crashes : Nat, faults : Nat, unsaved : BOOLEAN]
           /\ SV!Saved => svPast' \in [crashes : Nat, faults : Nat, unsaved : BOOLEAN]
           /\ SV!Fault => svPast' \in [crashes : Nat, faults : Nat, unsaved : BOOLEAN] /\ svPast'.unsaved
<1>1. svPast \in [crashes : Nat, faults : Nat, unsaved : BOOLEAN] /\ svPast.faults + 1 \in Nat
  BY DEF ServicesInv, ServicesTypeOK
<1> QED BY <1>1 DEF SV!Saved, SV!Fault

(* StartService: the check leaves nothing that runs under the name, and the   *)
(* new record leads to the one invocation that was started.                   *)
LEMMA StartInv ==
    ASSUME ServicesInv, NEW me \in Clients, Clients = {me}, 0 \notin Runs,
           SV!StartCheck(me) \/ SV!StartExecute(me) \/ SV!StartRecord(me) \/ SV!Persist(me) \/ SV!PersistFails(me)
    PROVE  ServicesInv'
<1>0. /\ services \in MaybeRecord /\ file \in MaybeRecord /\ Midway(client[me])
      /\ runs \in [Runs -> {"none", "running", "spared", "orphan", "dead"}]
      /\ client[me].rec \in MaybeRecord /\ svPast \in [crashes : Nat, faults : Nat, unsaved : BOOLEAN]
  BY DEF ServicesInv, ServicesTypeOK
<1>1. CASE SV!StartCheck(me)
  <2>1. OnDisk /\ LeadsFrom(services) /\ ~SV!IsServiceRunning(services)
        /\ UNCHANGED <<services, file, runs, svPast>>
        /\ client' = [client EXCEPT ![me] = [op |-> "execute", rec |-> SV!None]]
    BY <1>0, <1>1 DEF SV!StartCheck, Midway, SV!To
  <2>2. NoneRuns
    BY <1>0, <2>1, RecordFacts DEF NoneRuns, LeadsFrom, SV!IsServiceRunning
  <2>3. Midway([op |-> "execute", rec |-> SV!None])'
    BY <2>1, <2>2 DEF Midway, NoneRuns, OnDisk
  <2> QED BY <1>0, <2>1, <2>3, OneClient, RecordFacts DEF Ops
<1>2. CASE SV!StartExecute(me)
  <2>0. OnDisk /\ NoneRuns /\ UNCHANGED <<services, file, svPast>>
    BY <1>0, <1>2 DEF SV!StartExecute, Midway
  <2>1. CASE SV!Return(me) /\ UNCHANGED runs
    <3>1. Midway([op |-> "idle", rec |-> SV!None])'
      BY <2>0, <2>1 DEF Midway, NoneRuns, LeadsFrom, OnDisk
    <3> QED BY <1>0, <2>0, <2>1, <3>1, OneClient, RecordFacts DEF Ops, SV!Return
  <2>2. ASSUME NEW r \in Runs, runs' = [runs EXCEPT ![r] = "running"],
               SV!To(me, "record", [run |-> r, state |-> "running"])
        PROVE  ServicesInv'
    <3> DEFINE rec == [run |-> r, state |-> "running"]
    <3>1. rec \in MaybeRecord /\ rec.run = r
      BY RecordFacts DEF MaybeRecord
    <3>2. client' = [client EXCEPT ![me] = [op |-> "record", rec |-> rec]]
      BY <2>2 DEF SV!To
    <3>3. runs' \in [Runs -> {"none", "running", "spared", "orphan", "dead"}]
          /\ \A q \in Runs : runs'[q] = "running" => q = r
      BY <1>0, <2>0, <2>2 DEF NoneRuns
    <3> HIDE DEF rec
    <3>4. Midway([op |-> "record", rec |-> rec])'
      BY <3>1, <3>3 DEF Midway, LeadsFrom
    <3> QED BY <1>0, <2>0, <3>1, <3>2, <3>3, <3>4, OneClient DEF Ops
  <2> QED BY <1>2, <2>1, <2>2 DEF SV!StartExecute
<1>3. CASE SV!StartRecord(me)
  <2>1. LeadsFrom(client[me].rec) /\ services' = client[me].rec /\ UNCHANGED <<file, runs, svPast>>
        /\ client' = [client EXCEPT ![me] = [op |-> "persist", rec |-> client[me].rec]]
    BY <1>0, <1>3 DEF SV!StartRecord, Midway, SV!To
  <2> DEFINE rec == client[me].rec
  <2>2. ASSUME NEW q \in MaybeRecord, LeadsFrom(q), services' = q
        PROVE  Midway([op |-> "persist", rec |-> q])'
    BY <2>1, <2>2 DEF Midway, LeadsFrom
  <2> QED BY <1>0, <2>1, <2>2, OneClient DEF Ops
<1>4. CASE SV!Persist(me)
  <2>1. LeadsFrom(services) /\ file' = services /\ UNCHANGED <<services, runs>>
        /\ client' = [client EXCEPT ![me] = [op |-> "idle", rec |-> SV!None]]
    BY <1>0, <1>4, RecordFacts DEF SV!Persist, Midway, SV!Return
  <2>2. Midway([op |-> "idle", rec |-> SV!None])'
    BY <2>1 DEF Midway, LeadsFrom, OnDisk
  <2>3. svPast' \in [crashes : Nat, faults : Nat, unsaved : BOOLEAN]
    BY <1>4, WriteFacts DEF SV!Persist
  <2> QED BY <1>0, <2>1, <2>2, <2>3, OneClient, RecordFacts DEF Ops
<1>5. CASE SV!PersistFails(me)
  <2>1. LeadsFrom(services) /\ UNCHANGED <<services, file, runs>>
        /\ client' = [client EXCEPT ![me] = [op |-> "idle", rec |-> SV!None]]
    BY <1>0, <1>5, RecordFacts DEF SV!PersistFails, Midway, SV!Return
  <2>2. svPast' \in [crashes : Nat, faults : Nat, unsaved : BOOLEAN] /\ svPast'.unsaved
    BY <1>5, WriteFacts DEF SV!PersistFails
  <2>3. Midway([op |-> "idle", rec |-> SV!None])'
    BY <2>1, <2>2 DEF Midway, LeadsFrom, OnDisk
  <2> QED BY <1>0, <2>1, <2>2, <2>3, OneClient, RecordFacts DEF Ops
<1> QED BY <1>1, <1>2, <1>3, <1>4, <1>5

(* ServiceStatus and KillService.                                            *)
LEMMA CallsInv ==
    ASSUME ServicesInv, NEW me \in Clients, Clients = {me}, 0 \notin Runs,
           SV!StatusRead(me) \/ SV!StatusWrite(me) \/ SV!KillTake(me) \/ SV!KillSignal(me) \/ SV!KillRemove(me)
           \/ SV!RemoveFails(me)
    PROVE  ServicesInv'
<1>0. /\ services \in MaybeRecord /\ file \in MaybeRecord /\ Midway(client[me])
      /\ runs \in [Runs -> {"none", "running", "spared", "orphan", "dead"}]
      /\ client[me].rec \in MaybeRecord /\ svPast \in [crashes : Nat, faults : Nat, unsaved : BOOLEAN]
  BY DEF ServicesInv, ServicesTypeOK
<1>1. CASE SV!StatusRead(me)
  <2>1. OnDisk /\ LeadsFrom(services) /\ services # SV!None /\ UNCHANGED <<services, file, runs, svPast>>
        /\ client' = [client EXCEPT ![me] = [op |-> "status", rec |-> services]]
    BY <1>0, <1>1, RecordFacts DEF SV!StatusRead, Midway, SV!To
  <2>2. Midway([op |-> "status", rec |-> services])'
    BY <2>1 DEF Midway, LeadsFrom, OnDisk
  <2>3. client' = [client EXCEPT ![me] = [op |-> "status", rec |-> services']]
    BY <2>1
  <2> QED BY <1>0, <2>1, <2>2, <2>3, OneClient DEF Ops
<1>2. CASE SV!StatusWrite(me)
  <2>0. /\ OnDisk /\ services = client[me].rec /\ services # SV!None /\ LeadsFrom(services)
        /\ UNCHANGED <<file, runs, svPast>>
    BY <1>0, <1>2 DEF SV!StatusWrite, Midway
  <2>1. CASE SV!Return(me) /\ UNCHANGED services
    <3>1. Midway([op |-> "idle", rec |-> SV!None])'
      BY <2>0, <2>1 DEF Midway, LeadsFrom, OnDisk
    <3> QED BY <1>0, <2>0, <2>1, <3>1, OneClient, RecordFacts DEF Ops, SV!Return
  <2>2. ASSUME NEW rec, rec = [client[me].rec EXCEPT !.state = "crashed"],
               services' = rec, SV!To(me, "persist", rec)
        PROVE  ServicesInv'
    <3>1. rec \in MaybeRecord /\ rec.run = services.run
      BY <1>0, <2>0, <2>2, RecordFacts DEF MaybeRecord, States
    <3>2. Midway([op |-> "persist", rec |-> rec])'
      BY <2>0, <2>2, <3>1 DEF Midway, LeadsFrom
    <3>3. client' = [client EXCEPT ![me] = [op |-> "persist", rec |-> rec]]
      BY <2>2 DEF SV!To
    <3> QED BY <1>0, <2>0, <2>2, <3>1, <3>2, <3>3, OneClient DEF Ops
  <2> QED BY <1>2, <2>1, <2>2 DEF SV!StatusWrite
<1>3. CASE SV!KillTake(me)
  <2>1. LeadsFrom(services) /\ services # SV!None /\ services' = SV!None /\ UNCHANGED <<file, runs, svPast>>
        /\ client' = [client EXCEPT ![me] = [op |-> "kill", rec |-> services]]
    BY <1>0, <1>3 DEF SV!KillTake, Midway, SV!To
  <2>2. ASSUME NEW rec \in MaybeRecord, rec = services
        PROVE  Midway([op |-> "kill", rec |-> rec])'
    BY <2>1, <2>2 DEF Midway, LeadsFrom
  <2>3. ASSUME NEW rec \in MaybeRecord, rec = services
        PROVE  ServicesInv'
    BY <1>0, <2>1, <2>2, <2>3, OneClient, RecordFacts DEF Ops
  <2> QED BY <1>0, <2>3
<1>4. CASE SV!KillSignal(me)
  <2>1. /\ services = SV!None /\ client[me].rec # SV!None /\ LeadsFrom(client[me].rec)
        /\ UNCHANGED <<services, file, svPast>>
        /\ client' = [client EXCEPT ![me] = [op |-> "remove", rec |-> client[me].rec]]
    BY <1>0, <1>4 DEF SV!KillSignal, Midway, SV!To
  <2>2. client[me].rec.run \in Runs
    BY <1>0, <2>1 DEF MaybeRecord, Record
  <2>3. runs' \in [Runs -> {"none", "running", "spared", "orphan", "dead"}] /\ NoneRuns'
    BY <1>0, <1>4, <2>1, <2>2 DEF SV!KillSignal, SV!IsServiceRunning, NoneRuns, LeadsFrom
  <2>4. ASSUME NEW rec \in MaybeRecord
        PROVE  Midway([op |-> "remove", rec |-> rec])'
    BY <2>1, <2>3 DEF Midway
  <2> QED BY <1>0, <2>1, <2>3, <2>4, OneClient DEF Ops
<1>5. CASE SV!KillRemove(me)
  <2>1. services = SV!None /\ NoneRuns /\ file' = SV!None /\ UNCHANGED <<services, runs>>
        /\ client' = [client EXCEPT ![me] = [op |-> "idle", rec |-> SV!None]]
    BY <1>0, <1>5, RecordFacts DEF SV!KillRemove, Midway, SV!Return
  <2>2. Midway([op |-> "idle", rec |-> SV!None])'
    BY <2>1 DEF Midway, NoneRuns, LeadsFrom, OnDisk
  <2>3. svPast' \in [crashes : Nat, faults : Nat, unsaved : BOOLEAN]
    BY <1>5, WriteFacts DEF SV!KillRemove
  <2> QED BY <1>0, <2>1, <2>2, <2>3, OneClient, RecordFacts DEF Ops
<1>6. CASE SV!RemoveFails(me)
  <2>1. NoneRuns /\ UNCHANGED <<services, file, runs>>
        /\ client' = [client EXCEPT ![me] = [op |-> "idle", rec |-> SV!None]]
    BY <1>0, <1>6, RecordFacts DEF SV!RemoveFails, Midway, SV!Return
  <2>2. svPast' \in [crashes : Nat, faults : Nat, unsaved : BOOLEAN] /\ svPast'.unsaved
    BY <1>6, WriteFacts DEF SV!RemoveFails
  <2>3. Midway([op |-> "idle", rec |-> SV!None])'
    BY <2>1, <2>2 DEF Midway, NoneRuns, LeadsFrom, OnDisk
  <2> QED BY <1>0, <2>1, <2>2, <2>3, OneClient, RecordFacts DEF Ops
<1> QED BY <1>1, <1>2, <1>3, <1>4, <1>5, <1>6

(* A service that ends leads nowhere wrong.                                  *)
LEMMA RunEndsInv ==
    ASSUME ServicesInv, NEW r \in Runs, SV!RunEnds(r)
    PROVE  ServicesInv'
<1>1. /\ UNCHANGED <<services, file, client, svPast>>
      /\ runs' \in [Runs -> {"none", "running", "spared", "orphan", "dead"}]
      /\ \A q \in Runs : runs'[q] = "running" => runs[q] = "running"
  BY DEF SV!RunEnds, ServicesInv, ServicesTypeOK
<1>2. \A rec : LeadsFrom(rec) => LeadsFrom(rec)'
  BY <1>1 DEF LeadsFrom
<1>3. NoneRuns => NoneRuns'
  BY <1>1 DEF NoneRuns
<1>4. \A c \in Clients : Midway(client[c])'
  <2> TAKE c \in Clients
  <2>1. Midway(client[c]) /\ client'[c] = client[c]
    BY <1>1 DEF ServicesInv
  <2>2. (LeadsFrom(client[c].rec) => LeadsFrom(client[c].rec)') /\ (LeadsFrom(services) => LeadsFrom(services)')
    BY <1>1 DEF LeadsFrom
  <2> QED BY <1>1, <1>3, <2>1, <2>2 DEF Midway, OnDisk
<1> QED BY <1>1, <1>4 DEF ServicesInv, ServicesTypeOK

(* The daemon that starts tracks nothing, and takes what the disk says, or    *)
(* could not read or rewrite it.                                              *)
LEMMA RestartInv ==
    ASSUME ServicesInv, SV!Restart
    PROVE  ServicesInv'
<1>0. SV!LoadServices(file) \in MaybeRecord /\ file \in MaybeRecord
      /\ svPast \in [crashes : Nat, faults : Nat, unsaved : BOOLEAN] /\ svPast.faults + 1 \in Nat /\ svPast.crashes + 1 \in Nat
  <2>1. file \in MaybeRecord /\ svPast \in [crashes : Nat, faults : Nat, unsaved : BOOLEAN]
    BY DEF ServicesInv, ServicesTypeOK
  <2>2. SV!LoadServices(file) \in MaybeRecord
    BY <2>1, RecordFacts DEF SV!LoadServices, MaybeRecord, States
  <2> QED BY <2>1, <2>2
<1>1. /\ OnDisk' /\ services' \in MaybeRecord /\ file' \in MaybeRecord
      /\ svPast' \in [crashes : Nat, faults : Nat, unsaved : BOOLEAN]
  <2>1. CASE services' = SV!LoadServices(file) /\ file' = SV!LoadServices(file)
             /\ svPast' = [svPast EXCEPT !.crashes = @ + 1, !.unsaved = FALSE]
    BY <1>0, <2>1 DEF OnDisk
  <2>2. CASE /\ svPast' = [svPast EXCEPT !.crashes = @ + 1, !.faults = @ + 1, !.unsaved = TRUE]
             /\ services' \in {SV!None, SV!LoadServices(file)} /\ file' \in {file, SV!None}
    BY <1>0, <2>2, RecordFacts DEF OnDisk
  <2> QED BY <2>1, <2>2 DEF SV!Restart, SV!ReadsRecord
<1>2. runs' \in [Runs -> {"none", "running", "spared", "orphan", "dead"}] /\ NoneRuns'
  BY DEF SV!Restart, ServicesInv, ServicesTypeOK, NoneRuns
<1>3. client' \in [Clients -> [op : Ops, rec : MaybeRecord]] /\ \A c \in Clients : client'[c] = SV!Idle
  BY RecordFacts DEF SV!Restart, Ops
<1>4. \A c \in Clients : Midway(client[c])'
  BY <1>1, <1>2, <1>3, RecordFacts DEF Midway, LeadsFrom, NoneRuns
<1> QED BY <1>1, <1>2, <1>3, <1>4 DEF ServicesInv, ServicesTypeOK

(* For a daemon with one client, a service's name leads to the invocation that *)
(* runs whenever the client is between two calls, and so does its record on    *)
(* disk unless the last write of it failed: StartService, ServiceStatus and    *)
(* KillService of service.go, their failures and those of the files, services  *)
(* that end and every number of restarts.                                      *)
THEOREM NamesLead ==
    ASSUME NEW me, Clients = {me}, 0 \notin Runs
    PROVE  SV!Spec => []NameLeadsToIt
<1>1. SV!Init => ServicesInv
  <2> SUFFICES ASSUME SV!Init PROVE ServicesInv
    OBVIOUS
  <2>1. ServicesTypeOK
    BY RecordFacts DEF SV!Init, ServicesTypeOK, Ops
  <2>2. \A c \in Clients : Midway(client[c])
    BY RecordFacts DEF SV!Init, Midway, LeadsFrom, OnDisk
  <2> QED BY <2>1, <2>2 DEF ServicesInv
<1>2. ServicesInv /\ [SV!Next]_SV!svVars => ServicesInv'
  <2> SUFFICES ASSUME ServicesInv, [SV!Next]_SV!svVars PROVE ServicesInv'
    OBVIOUS
  <2>1. CASE SV!Next
    <3>1. CASE \E c \in Clients : SV!StartCheck(c) \/ SV!StartExecute(c) \/ SV!StartRecord(c) \/ SV!Persist(c) \/ SV!PersistFails(c)
      BY <3>1, StartInv
    <3>2. CASE \E c \in Clients : \/ SV!StatusRead(c) \/ SV!StatusWrite(c)
                                 \/ SV!KillTake(c) \/ SV!KillSignal(c) \/ SV!KillRemove(c) \/ SV!RemoveFails(c)
      BY <3>2, CallsInv
    <3> QED BY <2>1, <3>1, <3>2, RunEndsInv, RestartInv DEF SV!Next
  <2>2. CASE UNCHANGED SV!svVars
    BY <2>2 DEF SV!svVars, ServicesInv, ServicesTypeOK, Midway, LeadsFrom, NoneRuns, OnDisk
  <2> QED BY <2>1, <2>2
<1>3. ServicesInv => NameLeadsToIt
  BY RecordFacts DEF ServicesInv, Midway, LeadsFrom, OnDisk, NameLeadsToIt, SV!NameLeadsToIt
<1> QED BY <1>1, <1>2, <1>3, PTL DEF SV!Spec

------------------------------------------------------------------------------
(* Campaigns. The state.                                                      *)

Row == [status : {"planned", "running", "succeeded", "exhausted"}, spent : Nat, completed : Nat,
        plan : BOOLEAN, snap : Nat]
Verdicts == {"none", "succeeded", "rejected", "failed", "superseded"}
Attempt == [id : Nat, step : Nat, snap : Nat, verdict : Verdicts]
Graph == [landed : Nat, rev : Nat]
Order == [pc : {"free", "working", "report", "replan", "save", "append"}, step : Nat, from : Nat,
          verdict : Verdicts, row : Row, graph : Graph, att : Attempt]
UnderWay == [op : {"none", "plan", "save", "exhaust"}, row : Row, graph : Graph]
History == [orders : Nat, commands : Nat, events : Nat, undone : BOOLEAN]

RowType == camp \in Row /\ command \in UnderWay
TreeType == tree \in Graph /\ snapshot \in Graph
LogType == attempts \in Seq(Attempt) /\ caCount \in History
ExecType == exec \in [Executors -> Order]
CampTypeOK == RowType /\ TreeType /\ LogType /\ ExecType

(* A row, of the store or read from it however long ago, claims only what the *)
(* tree has; a graph that is planned on is no further than the tree.          *)
TrueRow(r) == r.completed <= snapshot.landed /\ (r.status = "succeeded" => tree.landed >= Goal)
TrueGraph(g) == g.landed <= tree.landed

(* What an order carries on its way: a step no further than the tree it was   *)
(* handed out on, a success that has landed, and an attempt at the live step  *)
(* of the row it was read with.                                               *)
Carries(e) ==
    /\ TrueRow(e.row) /\ TrueGraph(e.graph)
    /\ e.pc = "working" => e.step <= e.from + 1 /\ e.from <= tree.landed
    /\ e.pc = "report" /\ e.verdict = "succeeded" => e.step <= tree.landed
    /\ e.pc \in {"replan", "save"} /\ e.att.verdict = "succeeded" =>
         e.att.step = e.row.completed + 1 /\ e.att.step <= tree.landed
    /\ e.pc = "save" /\ e.att.verdict = "succeeded" => e.att.step <= snapshot.landed
AllCarry == \A x \in Executors : Carries(exec[x])

ClaimsHold ==
    /\ TrueRow(camp) /\ TrueRow(command.row) /\ TrueGraph(command.graph)
    /\ snapshot.landed <= tree.landed

(* The log has each landed step once, none beyond what the campaign counts,   *)
(* and so have the attempts that are counted but not yet appended.            *)
LogHolds ==
    /\ CA!StepOnce
    /\ \A k \in 1..Len(attempts) : attempts[k].verdict = "succeeded" => attempts[k].step <= camp.completed

Pending(x) == exec[x].pc = "append" /\ exec[x].att.verdict = "succeeded"
PendingNew ==
    \A x \in Executors : Pending(x) =>
      /\ exec[x].att.step <= camp.completed
      /\ \A k \in 1..Len(attempts) : attempts[k].verdict = "succeeded" => attempts[k].step # exec[x].att.step
PendingApart ==
    \A x, y \in Executors : Pending(x) /\ Pending(y) /\ exec[x].att.step = exec[y].att.step => x = y

(* What may still be spent once the budget is: a unit for each order held.    *)
Holders == {x \in Executors : exec[x].pc \in {"working", "report", "replan", "save"}}
Spending ==
    camp.spent < MaxAttempts \/ camp.spent + Cardinality(Holders) <= MaxAttempts + Cardinality(Executors) - 1

(* The claims hold whatever is undone; the counts hold until one is.          *)
Counts == LogHolds /\ PendingNew /\ PendingApart /\ Spending
CampInv == CampTypeOK /\ AllCarry /\ ClaimsHold /\ (caCount.undone \/ Counts)

CampAssumptions == Goal \in Nat /\ MaxAttempts \in Nat \ {0} /\ IsFiniteSet(Executors)

(* The tree and its snapshot only move forward.                               *)
Grows ==
    /\ tree' \in Graph /\ snapshot' \in Graph
    /\ tree'.landed >= tree.landed /\ snapshot'.landed >= snapshot.landed
    /\ snapshot'.landed <= tree'.landed

LEMMA GrowsIf ==
    ASSUME CampInv, UNCHANGED <<tree, snapshot>>
    PROVE  Grows
BY DEF CampInv, CampTypeOK, TreeType, ClaimsHold, Grows, Graph

(* Orders that are given back never raise what may still be spent.            *)
LEMMA HoldersShrink ==
    ASSUME CampAssumptions, CampTypeOK, Spending, CampTypeOK', camp'.spent = camp.spent, Holders' \subseteq Holders
    PROVE  Spending'
<1>1. IsFiniteSet(Holders)
  BY FS_Subset DEF CampAssumptions, Holders
<1>2. Cardinality(Holders') <= Cardinality(Holders) /\ Cardinality(Holders') \in Nat
  BY <1>1, FS_Subset, FS_CardinalityType
<1>3. Cardinality(Holders) \in Nat /\ Cardinality(Executors) \in Nat
  BY <1>1, FS_CardinalityType DEF CampAssumptions
<1>4. camp.spent \in Nat
  BY DEF CampTypeOK, RowType, Row
<1>5. camp.spent < MaxAttempts \/ camp.spent + Cardinality(Holders) <= MaxAttempts + Cardinality(Executors) - 1
  BY DEF Spending
<1> HIDE DEF Holders
<1> QED BY <1>2, <1>3, <1>4, <1>5 DEF Spending, CampAssumptions

(* What is carried stays true as the tree moves on.                           *)
LEMMA StillCarries ==
    ASSUME CampAssumptions, CampInv, Grows, NEW y \in Executors, exec'[y] = exec[y]
    PROVE  Carries(exec[y])'
<1>1. exec[y] \in Order /\ Carries(exec[y]) /\ tree \in Graph /\ snapshot \in Graph
  BY DEF CampInv, CampTypeOK, ExecType, TreeType, AllCarry
<1>2. /\ exec[y].row.completed \in Nat /\ exec[y].from \in Nat /\ exec[y].step \in Nat
      /\ exec[y].graph.landed \in Nat /\ exec[y].att.step \in Nat
  BY <1>1 DEF Order, Row, Graph, Attempt
<1>3. /\ tree.landed \in Nat /\ snapshot.landed \in Nat /\ tree'.landed \in Nat /\ snapshot'.landed \in Nat
      /\ tree'.landed >= tree.landed /\ snapshot'.landed >= snapshot.landed
  BY <1>1 DEF Grows, Graph
<1>4. TrueRow(exec[y].row)' /\ TrueGraph(exec[y].graph)'
  BY <1>1, <1>2, <1>3 DEF Carries, TrueRow, TrueGraph, CampAssumptions
<1> QED BY <1>1, <1>2, <1>3, <1>4 DEF Carries

LEMMA StillClaims ==
    ASSUME CampAssumptions, CampInv, Grows, UNCHANGED <<camp, command>>
    PROVE  ClaimsHold'
<1>1. camp \in Row /\ command \in UnderWay /\ tree \in Graph /\ snapshot \in Graph /\ ClaimsHold
  BY DEF CampInv, CampTypeOK, RowType, TreeType
<1>2. camp.completed \in Nat /\ command.row.completed \in Nat /\ command.graph.landed \in Nat
  BY <1>1 DEF UnderWay, Row, Graph
<1>3. /\ tree.landed \in Nat /\ snapshot.landed \in Nat /\ tree'.landed \in Nat /\ snapshot'.landed \in Nat
      /\ tree'.landed >= tree.landed /\ snapshot'.landed >= snapshot.landed
      /\ snapshot'.landed <= tree'.landed
  BY <1>1 DEF Grows, Graph
<1> QED BY <1>1, <1>2, <1>3 DEF ClaimsHold, TrueRow, TrueGraph, CampAssumptions

(* A step that changes one order only, and moves the tree at most.            *)
LEMMA OrderStep ==
    ASSUME CampAssumptions, CampInv, Grows, NEW x \in Executors, NEW e \in Order,
           exec' = [exec EXCEPT ![x] = e], UNCHANGED <<camp, command, attempts>>,
           caCount' \in History, caCount'.undone = caCount.undone,
           Carries(e)', e.pc # "append",
           e.pc \in {"working", "report", "replan", "save"} => x \in Holders \/ camp.spent < MaxAttempts
    PROVE  CampInv'
<1>1. ExecType' /\ exec'[x] = e /\ \A y \in Executors \ {x} : exec'[y] = exec[y]
  BY DEF CampInv, CampTypeOK, ExecType
<1>2. CampTypeOK'
  BY <1>1 DEF CampInv, CampTypeOK, RowType, TreeType, LogType, Grows
<1>3. AllCarry'
  <2> SUFFICES ASSUME NEW y \in Executors PROVE Carries(exec[y])'
    BY DEF AllCarry
  <2>1. CASE y = x
    BY <1>1, <2>1 DEF Carries, TrueRow, TrueGraph
  <2>2. CASE y # x
    BY <1>1, <2>2, StillCarries
  <2> QED BY <2>1, <2>2
<1>4. ClaimsHold'
  BY StillClaims
<1>5. ASSUME Counts PROVE Counts'
  <2>1. LogHolds'
    BY <1>5 DEF Counts, LogHolds, CA!StepOnce
  <2>2. \A y \in Executors : Pending(y)' => Pending(y) /\ exec'[y] = exec[y]
    BY <1>1 DEF Pending
  <2>3. PendingNew' /\ PendingApart'
    BY <1>5, <2>2 DEF Counts, PendingNew, PendingApart
  <2>4. camp.spent < MaxAttempts => Spending'
    BY DEF Spending
  <2>5. ASSUME e.pc \in {"working", "report", "replan", "save"} => x \in Holders
        PROVE  Spending'
    <3>1. Holders' \subseteq Holders
      BY <1>1, <2>5 DEF Holders
    <3>2. CampTypeOK /\ Spending
      BY <1>5 DEF CampInv, Counts
    <3> QED BY <1>2, <3>1, <3>2, HoldersShrink
  <2>6. Spending'
    BY <2>4, <2>5
  <2> QED BY <2>1, <2>3, <2>6 DEF Counts
<1> QED BY <1>2, <1>3, <1>4, <1>5 DEF CampInv

(* The order of a step.                                                       *)
Handed(step, from) == [CA!Free EXCEPT !.pc = "working", !.step = step, !.from = from]

LEMMA HandedFacts ==
    /\ CA!Free \in Order /\ CA!Free.pc = "free" /\ CA!Free.row.completed = 0 /\ CA!Free.row.status = "planned"
    /\ CA!Free.graph.landed = 0
    /\ CA!NewRow \in Row /\ CA!NewRow.completed = 0 /\ CA!NewRow.status = "planned" /\ CA!NewRow.spent = 0
    /\ CA!NoCommand \in UnderWay /\ CA!NoCommand.row = CA!NewRow /\ CA!NoCommand.graph.landed = 0
    /\ CA!NoGraph \in Graph /\ CA!NoGraph.landed = 0
    /\ \A n, f \in Nat : Handed(n, f) \in Order /\ Handed(n, f).pc = "working"
                         /\ Handed(n, f).step = n /\ Handed(n, f).from = f
                         /\ Handed(n, f).row = CA!Free.row /\ Handed(n, f).graph = CA!Free.graph
<1>1. CA!NewRow \in Row /\ CA!NewRow.completed = 0 /\ CA!NewRow.status = "planned" /\ CA!NewRow.spent = 0
  BY DEF CA!NewRow, Row
<1>2. CA!NoGraph \in Graph /\ CA!NoGraph.landed = 0
  BY DEF CA!NoGraph, Graph
<1>3. CA!NoAttempt \in Attempt
  BY DEF CA!NoAttempt, Attempt, Verdicts
<1>4. CA!Free \in Order /\ CA!Free.pc = "free" /\ CA!Free.row = CA!NewRow /\ CA!Free.graph = CA!NoGraph
  BY <1>1, <1>2, <1>3 DEF CA!Free, Order, Verdicts
<1>5. CA!NoCommand \in UnderWay /\ CA!NoCommand.row = CA!NewRow /\ CA!NoCommand.graph = CA!NoGraph
  BY <1>1, <1>2 DEF CA!NoCommand, UnderWay
<1>6. ASSUME NEW n \in Nat, NEW f \in Nat
      PROVE  Handed(n, f) \in Order /\ Handed(n, f).pc = "working"
             /\ Handed(n, f).step = n /\ Handed(n, f).from = f
             /\ Handed(n, f).row = CA!Free.row /\ Handed(n, f).graph = CA!Free.graph
  BY <1>4 DEF Handed, Order
<1> QED BY <1>1, <1>2, <1>4, <1>5, <1>6

(* What starts with nothing carries nothing false.                            *)
LEMMA EmptyCarries ==
    ASSUME CampAssumptions, CampInv, Grows, NEW e \in Order, e.pc = "free", e = CA!Free
    PROVE  Carries(e)'
<1>1. snapshot'.landed \in Nat /\ tree'.landed \in Nat
  BY DEF Grows, Graph
<1>2. e.row.completed = 0 /\ e.row.status = "planned" /\ e.graph.landed = 0
  BY HandedFacts
<1> QED BY <1>1, <1>2 DEF Carries, TrueRow, TrueGraph

(* The orders: handed out within the budget, worked, read, given up.          *)
LEMMA DispatchInv ==
    ASSUME CampAssumptions, CampInv, NEW x \in Executors, CA!Dispatch(x)
    PROVE  CampInv'
<1>0. /\ UNCHANGED <<tree, snapshot, camp, command, attempts>> /\ camp.spent < MaxAttempts
      /\ exec' = [exec EXCEPT ![x] = Handed(camp.completed + 1, snapshot.landed)]
      /\ caCount' = [caCount EXCEPT !.orders = @ + 1]
  BY DEF CA!Dispatch, CA!BudgetSpent, CampInv, CampTypeOK, RowType, Row, CampAssumptions, Handed
<1>1. Grows
  BY <1>0, GrowsIf
<1>2. /\ camp.completed \in Nat /\ snapshot.landed \in Nat /\ tree.landed \in Nat
      /\ camp.completed <= snapshot.landed /\ snapshot.landed <= tree.landed
  BY DEF CampInv, CampTypeOK, RowType, Row, TreeType, Graph, ClaimsHold, TrueRow
<1>3. camp.completed + 1 \in Nat
  BY <1>2
<1>4. PICK e \in Order : /\ exec' = [exec EXCEPT ![x] = e] /\ e.pc = "working"
                         /\ e.step = camp.completed + 1 /\ e.from = snapshot.landed
                         /\ e.row = CA!Free.row /\ e.graph = CA!Free.graph
  <2> DEFINE n == camp.completed + 1
             o == Handed(n, snapshot.landed)
  <2>1. n \in Nat /\ snapshot.landed \in Nat
    BY <1>2, <1>3
  <2> HIDE DEF n
  <2>2. o \in Order /\ o.pc = "working" /\ o.step = n /\ o.from = snapshot.landed
        /\ o.row = CA!Free.row /\ o.graph = CA!Free.graph
    BY <2>1, HandedFacts
  <2>3. exec' = [exec EXCEPT ![x] = o]
    BY <1>0 DEF n
  <2> HIDE DEF o
  <2> QED BY <2>2, <2>3 DEF n
<1>5. Carries(e)'
  <2>1. TrueRow(e.row)' /\ TrueGraph(e.graph)'
    BY <1>0, <1>2, <1>4, HandedFacts DEF TrueRow, TrueGraph
  <2> QED BY <1>0, <1>2, <1>4, <2>1 DEF Carries
<1>6. caCount' \in History /\ caCount'.undone = caCount.undone
  <2>1. caCount \in History /\ caCount.orders + 1 \in Nat
    BY DEF CampInv, CampTypeOK, LogType, History
  <2> QED BY <1>0, <2>1 DEF History
<1> QED BY <1>0, <1>1, <1>4, <1>5, <1>6, OrderStep

LEMMA WorkInv ==
    ASSUME CampAssumptions, CampInv, NEW x \in Executors, CA!Work(x)
    PROVE  CampInv'
<1>1. PICK v \in {"succeeded", "rejected", "failed"} :
         /\ exec' = [exec EXCEPT ![x].pc = "report", ![x].verdict = v]
         /\ tree' = IF v = "succeeded" /\ tree.landed = exec[x].from
                    THEN [landed |-> tree.landed + 1, rev |-> tree.rev + 1] ELSE tree
  BY DEF CA!Work
<1>2. /\ exec[x].pc = "working" /\ UNCHANGED <<snapshot, camp, command, attempts, caCount>>
      /\ exec[x] \in Order /\ Carries(exec[x]) /\ tree \in Graph /\ snapshot \in Graph
      /\ snapshot.landed <= tree.landed /\ caCount \in History
  BY DEF CA!Work, CampInv, CampTypeOK, ExecType, TreeType, LogType, AllCarry, ClaimsHold
<1>3. /\ exec[x].step \in Nat /\ exec[x].from \in Nat /\ tree.landed \in Nat /\ tree.rev \in Nat
      /\ exec[x].step <= exec[x].from + 1 /\ exec[x].from <= tree.landed /\ snapshot.landed \in Nat
      /\ exec[x].row.completed \in Nat /\ exec[x].graph.landed \in Nat
  BY <1>2 DEF Order, Graph, Row, Carries
<1>4. exec' = [exec EXCEPT ![x] = [exec[x] EXCEPT !.pc = "report", !.verdict = v]]
  BY <1>1 DEF CampInv, CampTypeOK, ExecType
<1>5. PICK e \in Order : /\ exec' = [exec EXCEPT ![x] = e] /\ e.pc = "report"
                         /\ e.verdict = v /\ e.step = exec[x].step
                         /\ e.row = exec[x].row /\ e.graph = exec[x].graph
  <2> DEFINE o == [exec[x] EXCEPT !.pc = "report", !.verdict = v]
  <2>1. o \in Order /\ o.pc = "report" /\ o.verdict = v /\ o.step = exec[x].step
        /\ o.row = exec[x].row /\ o.graph = exec[x].graph
    BY <1>2 DEF Order, Verdicts
  <2> HIDE DEF o
  <2>2. exec' = [exec EXCEPT ![x] = o]
    BY <1>4 DEF o
  <2> QED BY <2>1, <2>2
<1>6. tree' \in Graph /\ tree'.landed >= tree.landed /\ (v = "succeeded" => exec[x].step <= tree'.landed)
  BY <1>1, <1>2, <1>3 DEF Graph
<1>7. tree'.landed \in Nat
  BY <1>6 DEF Graph
<1>8. Grows
  BY <1>2, <1>3, <1>6, <1>7 DEF Grows
<1>9. TrueRow(e.row)' /\ TrueGraph(e.graph)'
  BY <1>2, <1>3, <1>5, <1>6, <1>7 DEF Carries, TrueRow, TrueGraph, CampAssumptions
<1>10. Carries(e)'
  BY <1>5, <1>6, <1>9 DEF Carries
<1>11. x \in Holders
  BY <1>2 DEF Holders
<1> QED BY <1>2, <1>5, <1>8, <1>10, <1>11, OrderStep

(* An attempt is a success only at the live step of its row.                  *)
LEMMA AttemptFacts ==
    ASSUME NEW e \in Order, NEW c \in Row, e.step <= c.completed + 1
    PROVE  /\ CA!AttemptOf(e, c) \in Attempt /\ CA!AttemptOf(e, c).step = e.step
           /\ CA!AttemptOf(e, c).verdict = "succeeded" => e.verdict = "succeeded" /\ e.step = c.completed + 1
<1> DEFINE v == IF e.step < c.completed + 1 THEN "superseded" ELSE e.verdict
<1>1. e.step \in Nat /\ c.completed \in Nat /\ c.spent + 1 \in Nat /\ c.snap \in Nat /\ e.verdict \in Verdicts
  BY DEF Order, Row
<1>2. v \in Verdicts
  BY <1>1 DEF Verdicts
<1>3. v = "succeeded" => e.verdict = "succeeded" /\ e.step = c.completed + 1
  BY <1>1
<1>4. CA!AttemptOf(e, c) = [id |-> c.spent + 1, step |-> e.step, snap |-> c.snap, verdict |-> v]
  BY DEF CA!AttemptOf
<1> HIDE DEF v
<1> QED BY <1>1, <1>2, <1>3, <1>4 DEF Attempt

LEMMA RecordReadInv ==
    ASSUME CampAssumptions, CampInv, NEW x \in Executors, CA!RecordRead(x)
    PROVE  CampInv'
<1>0. /\ exec[x].pc = "report" /\ UNCHANGED <<tree, snapshot, camp, command, attempts, caCount>>
      /\ exec[x] \in Order /\ Carries(exec[x]) /\ camp \in Row /\ TrueRow(camp)
      /\ tree \in Graph /\ snapshot \in Graph /\ x \in Holders /\ caCount \in History
  BY DEF CA!RecordRead, CampInv, CampTypeOK, ExecType, RowType, TreeType, LogType, AllCarry, ClaimsHold, Holders
<1>1. Grows
  BY <1>0, GrowsIf
<1>2. CASE camp.plan /\ exec[x].step <= camp.completed + 1
  <2> DEFINE a == CA!AttemptOf(exec[x], camp)
             p == IF a.verdict = "succeeded" THEN "replan" ELSE "save"
  <2>1. /\ a \in Attempt /\ a.step = exec[x].step
        /\ a.verdict = "succeeded" => exec[x].verdict = "succeeded" /\ exec[x].step = camp.completed + 1
    BY <1>0, <1>2, AttemptFacts
  <2>2. exec' = [exec EXCEPT ![x] = [CA!Free EXCEPT !.pc = p, !.row = camp, !.att = a]]
    BY <1>2 DEF CA!RecordRead
  <2>3. p \in {"replan", "save"} /\ (a.verdict = "succeeded" <=> p = "replan")
    OBVIOUS
  <2> HIDE DEF a, p
  <2>4. PICK e \in Order : /\ exec' = [exec EXCEPT ![x] = e] /\ e.pc = p /\ e.row = camp
                           /\ e.graph = CA!Free.graph /\ e.att = a
    <3> DEFINE o == [CA!Free EXCEPT !.pc = p, !.row = camp, !.att = a]
    <3>1. o \in Order /\ o.pc = p /\ o.row = camp /\ o.graph = CA!Free.graph /\ o.att = a
      BY <1>0, <2>1, <2>3, HandedFacts DEF Order
    <3> HIDE DEF o
    <3>2. exec' = [exec EXCEPT ![x] = o]
      BY <2>2 DEF o
    <3> QED BY <3>1, <3>2
  <2>5. TrueRow(e.row)'
    BY <1>0, <2>4 DEF TrueRow
  <2>6. TrueGraph(e.graph)'
    <3>1. tree'.landed \in Nat
      BY <1>1 DEF Grows, Graph
    <3> QED BY <2>4, <3>1, HandedFacts DEF TrueGraph
  <2>7. a.verdict = "succeeded" => a.step = camp.completed + 1 /\ a.step <= tree.landed
    BY <1>0, <2>1 DEF Carries
  <2>8. Carries(e)'
    BY <1>0, <2>3, <2>4, <2>5, <2>6, <2>7 DEF Carries
  <2> QED BY <1>0, <1>1, <2>3, <2>4, <2>8, OrderStep
<1>3. CASE exec' = [exec EXCEPT ![x] = CA!Free]
  <2>1. PICK e \in Order : e = CA!Free /\ e.pc = "free" /\ exec' = [exec EXCEPT ![x] = e]
    BY <1>3, HandedFacts
  <2>2. Carries(e)'
    BY <1>1, <2>1, EmptyCarries
  <2> QED BY <1>0, <1>1, <2>1, <2>2, OrderStep
<1> QED BY <1>2, <1>3 DEF CA!RecordRead

LEMMA RecordReplanInv ==
    ASSUME CampAssumptions, CampInv, NEW x \in Executors, CA!RecordReplan(x)
    PROVE  CampInv'
<1>0. /\ exec[x].pc = "replan" /\ UNCHANGED <<tree, camp, command, attempts, caCount>> /\ snapshot' = tree
      /\ exec[x] \in Order /\ Carries(exec[x]) /\ tree \in Graph /\ snapshot \in Graph
      /\ snapshot.landed <= tree.landed /\ x \in Holders /\ caCount \in History
  BY DEF CA!RecordReplan, CampInv, CampTypeOK, ExecType, TreeType, LogType, AllCarry, ClaimsHold, Holders
<1>1. /\ tree.landed \in Nat /\ snapshot.landed \in Nat /\ exec[x].row.completed \in Nat
      /\ exec[x].att.step \in Nat
  BY <1>0 DEF Order, Row, Graph, Attempt
<1>2. Grows
  BY <1>0, <1>1 DEF Grows
<1>3. exec' = [exec EXCEPT ![x] = [exec[x] EXCEPT !.pc = "save", !.graph = tree]]
  BY DEF CA!RecordReplan, CampInv, CampTypeOK, ExecType
<1>4. PICK e \in Order : /\ exec' = [exec EXCEPT ![x] = e] /\ e.pc = "save"
                         /\ e.graph = tree /\ e.row = exec[x].row /\ e.att = exec[x].att
  <2> DEFINE o == [exec[x] EXCEPT !.pc = "save", !.graph = tree]
  <2>1. o \in Order /\ o.pc = "save" /\ o.graph = tree /\ o.row = exec[x].row /\ o.att = exec[x].att
    BY <1>0 DEF Order
  <2> HIDE DEF o
  <2>2. exec' = [exec EXCEPT ![x] = o]
    BY <1>3 DEF o
  <2> QED BY <2>1, <2>2
<1>5. TrueRow(e.row)' /\ TrueGraph(e.graph)'
  BY <1>0, <1>1, <1>4 DEF Carries, TrueRow, TrueGraph
<1>6. Carries(e)'
  BY <1>0, <1>1, <1>4, <1>5 DEF Carries
<1> QED BY <1>0, <1>2, <1>4, <1>6, OrderStep

LEMMA CampCrashInv ==
    ASSUME CampAssumptions, CampInv, NEW x \in Executors, CA!Crash(x)
    PROVE  CampInv'
<1>1. UNCHANGED <<tree, snapshot, camp, command, attempts>> /\ caCount' = [caCount EXCEPT !.events = @ + 1]
  BY DEF CA!Crash
<1>2. caCount' \in History /\ caCount'.undone = caCount.undone
  BY <1>1 DEF CampInv, CampTypeOK, LogType, History
<1>3. Grows
  BY <1>1, GrowsIf
<1>4. PICK e \in Order : e = CA!Free /\ e.pc = "free" /\ exec' = [exec EXCEPT ![x] = e]
  BY HandedFacts DEF CA!Crash
<1>5. Carries(e)'
  BY <1>3, <1>4, EmptyCarries
<1> QED BY <1>1, <1>2, <1>3, <1>4, <1>5, OrderStep

(* The rows that are written back: one attempt more, and planned anew.        *)
LEMMA ReplannedFacts ==
    ASSUME NEW c \in Row, NEW g \in Graph
    PROVE  /\ CA!Replanned(c, g) \in Row
           /\ CA!Replanned(c, g).spent = c.spent /\ CA!Replanned(c, g).completed = c.completed
           /\ CA!Replanned(c, g).status = "succeeded" => g.landed >= Goal
<1>1. g.rev \in Nat
  BY DEF Graph
<1>2. CASE g.landed >= Goal
  <2> DEFINE d == [c EXCEPT !.status = "succeeded", !.plan = FALSE, !.snap = g.rev]
  <2>1. d \in Row /\ d.spent = c.spent /\ d.completed = c.completed
    BY <1>1 DEF Row
  <2>2. CA!Replanned(c, g) = d
    BY <1>2 DEF CA!Replanned
  <2> HIDE DEF d
  <2> QED BY <1>2, <2>1, <2>2
<1>3. CASE ~(g.landed >= Goal)
  <2> DEFINE d == [c EXCEPT !.status = "running", !.plan = TRUE, !.snap = g.rev]
  <2>1. d \in Row /\ d.spent = c.spent /\ d.completed = c.completed /\ d.status = "running"
    BY <1>1 DEF Row
  <2>2. CA!Replanned(c, g) = d
    BY <1>3 DEF CA!Replanned
  <2> HIDE DEF d
  <2> QED BY <2>1, <2>2
<1> QED BY <1>2, <1>3

LEMMA SpentFacts ==
    ASSUME NEW c \in Row
    PROVE  /\ [c EXCEPT !.spent = @ + 1] \in Row /\ [c EXCEPT !.spent = @ + 1].spent = c.spent + 1
           /\ [c EXCEPT !.spent = @ + 1].completed = c.completed
           /\ [c EXCEPT !.spent = @ + 1].status = c.status
BY DEF Row

LEMMA CompletedFacts ==
    ASSUME NEW c \in Row
    PROVE  /\ [c EXCEPT !.completed = @ + 1] \in Row /\ [c EXCEPT !.completed = @ + 1].spent = c.spent
           /\ [c EXCEPT !.completed = @ + 1].completed = c.completed + 1
BY DEF Row

LEMMA ExhaustedFacts ==
    ASSUME NEW c \in Row
    PROVE  /\ [c EXCEPT !.status = "exhausted"] \in Row /\ [c EXCEPT !.status = "exhausted"].spent = c.spent
           /\ [c EXCEPT !.status = "exhausted"].completed = c.completed
           /\ [c EXCEPT !.status = "exhausted"].status = "exhausted"
BY DEF Row

LEMMA LogFacts ==
    ASSUME CampTypeOK, LogHolds, NEW k \in 1..Len(attempts), attempts[k].verdict = "succeeded"
    PROVE  attempts[k].step <= camp.completed /\ attempts[k].step \in Nat
<1>1. attempts[k] \in Attempt
  BY DEF CampTypeOK, LogType
<1>2. attempts[k].step <= camp.completed
  BY DEF LogHolds
<1> QED BY <1>1, <1>2 DEF Attempt

(* A command that changes no order: the row it writes claims no more.         *)
LEMMA CommandStep ==
    ASSUME CampAssumptions, CampInv, UNCHANGED <<attempts, exec>>, Grows,
           command' \in UnderWay, camp' \in Row, caCount' \in History,
           TrueRow(camp)', TrueRow(command.row)', TrueGraph(command.graph)',
           caCount'.undone \/ (~caCount.undone /\ camp'.spent = camp.spent /\ camp'.completed = camp.completed)
    PROVE  CampInv'
<1>1. CampTypeOK'
  BY DEF CampInv, CampTypeOK, RowType, TreeType, LogType, ExecType, Grows
<1>2. AllCarry'
  BY StillCarries DEF AllCarry
<1>3. ClaimsHold'
  BY DEF ClaimsHold, Grows
<1>4. ASSUME ~caCount'.undone PROVE Counts'
  <2>1. Counts /\ CampTypeOK /\ camp'.spent = camp.spent /\ camp'.completed = camp.completed
    BY <1>4 DEF CampInv
  <2>2. LogHolds'
    BY <2>1 DEF Counts, LogHolds, CA!StepOnce
  <2>3. PendingNew' /\ PendingApart'
    BY <2>1 DEF Counts, PendingNew, PendingApart, Pending
  <2>4. Holders' \subseteq Holders
    BY DEF Holders
  <2>5. Spending'
    BY <1>1, <2>1, <2>4, HoldersShrink DEF Counts
  <2> QED BY <2>2, <2>3, <2>5 DEF Counts
<1> QED BY <1>1, <1>2, <1>3, <1>4 DEF CampInv

(* The commands and the tree: a plan reads, looks and writes; a spent budget  *)
(* is written down; the tree moves and is looked at.                          *)
LEMMA CommandInv ==
    ASSUME CampAssumptions, CampInv, NEW op \in {"plan", "exhaust"}, CA!Command(op)
    PROVE  CampInv'
<1>0. /\ UNCHANGED <<tree, snapshot, camp, attempts, exec>> /\ caCount' = [caCount EXCEPT !.commands = @ + 1]
      /\ command' = [CA!NoCommand EXCEPT !.op = op, !.row = camp] /\ camp \in Row /\ caCount \in History
      /\ TrueRow(camp)
  BY DEF CA!Command, CampInv, CampTypeOK, RowType, LogType, ClaimsHold
<1>1. Grows
  BY <1>0, GrowsIf
<1>2. caCount' \in History /\ caCount'.undone = caCount.undone
  BY <1>0 DEF History
<1>3. command' \in UnderWay /\ command'.row = camp /\ command'.graph.landed = 0
  BY <1>0, HandedFacts DEF UnderWay
<1>4. TrueRow(camp)' /\ TrueRow(command.row)'
  BY <1>0, <1>3 DEF TrueRow
<1>5. TrueGraph(command.graph)'
  BY <1>1, <1>3 DEF TrueGraph, Grows, Graph
<1>6. caCount'.undone \/ (~caCount.undone /\ camp'.spent = camp.spent /\ camp'.completed = camp.completed)
  BY <1>0, <1>2
<1> QED BY <1>0, <1>1, <1>2, <1>3, <1>4, <1>5, <1>6, CommandStep

LEMMA PlanGraphInv ==
    ASSUME CampAssumptions, CampInv, CA!PlanGraph
    PROVE  CampInv'
<1>0. /\ UNCHANGED <<tree, snapshot, camp, attempts, exec, caCount>>
      /\ command' = [command EXCEPT !.op = "save", !.graph = snapshot]
      /\ camp \in Row /\ command \in UnderWay /\ snapshot \in Graph /\ caCount \in History /\ ClaimsHold
  BY DEF CA!PlanGraph, CampInv, CampTypeOK, RowType, TreeType, LogType
<1>1. Grows
  BY <1>0, GrowsIf
<1>2. command' \in UnderWay /\ command'.row = command.row /\ command'.graph = snapshot
  BY <1>0 DEF UnderWay
<1>3. TrueRow(camp)' /\ TrueRow(command.row)' /\ TrueGraph(command.graph)'
  BY <1>0, <1>2 DEF ClaimsHold, TrueRow, TrueGraph
<1>4. caCount'.undone \/ (~caCount.undone /\ camp'.spent = camp.spent /\ camp'.completed = camp.completed)
  BY <1>0
<1> QED BY <1>0, <1>1, <1>2, <1>3, <1>4, CommandStep

LEMMA WriteBack ==
    ASSUME CampAssumptions, CampInv, NEW r \in Row, UNCHANGED <<tree, snapshot, attempts, exec>>,
           CA!Save(command.row, r), command' = CA!NoCommand, TrueRow(r),
           r.spent = command.row.spent, r.completed = command.row.completed
    PROVE  CampInv'
<1>0. /\ camp' = r /\ caCount \in History
      /\ caCount' = [caCount EXCEPT !.undone = @ \/ command.row.spent # camp.spent \/ command.row.completed # camp.completed]
  BY DEF CA!Save, CampInv, CampTypeOK, LogType
<1>1. Grows
  BY GrowsIf
<1>2. caCount' \in History
  BY <1>0, Zenon DEF History
<1>3. caCount'.undone = (caCount.undone \/ command.row.spent # camp.spent \/ command.row.completed # camp.completed)
  BY <1>0 DEF History
<1>4. command' \in UnderWay /\ TrueRow(command.row)' /\ TrueGraph(command.graph)'
  BY <1>1, HandedFacts DEF TrueRow, TrueGraph, Grows, Graph
<1>5. TrueRow(camp)'
  BY <1>0 DEF TrueRow
<1>6. caCount'.undone \/ (~caCount.undone /\ camp'.spent = camp.spent /\ camp'.completed = camp.completed)
  BY <1>0, <1>3
<1> QED BY <1>0, <1>1, <1>2, <1>4, <1>5, <1>6, CommandStep

LEMMA PlanSaveInv ==
    ASSUME CampAssumptions, CampInv, CA!PlanSave
    PROVE  CampInv'
<1>0. /\ UNCHANGED <<tree, snapshot, attempts, exec>> /\ command' = CA!NoCommand
      /\ CA!Save(command.row, CA!Replanned(command.row, command.graph))
      /\ command.row \in Row /\ command.graph \in Graph /\ ClaimsHold /\ tree.landed \in Nat
  BY DEF CA!PlanSave, CampInv, CampTypeOK, RowType, TreeType, UnderWay, Graph
<1>1. PICK r \in Row : /\ r = CA!Replanned(command.row, command.graph)
                       /\ r.spent = command.row.spent /\ r.completed = command.row.completed
                       /\ r.status = "succeeded" => command.graph.landed >= Goal
  BY <1>0, ReplannedFacts
<1>2. TrueRow(r)
  BY <1>0, <1>1 DEF ClaimsHold, TrueRow, TrueGraph, CampAssumptions, Graph
<1>3. CA!Save(command.row, r)
  BY <1>0, <1>1
<1> QED BY <1>0, <1>1, <1>2, <1>3, WriteBack

LEMMA ExhaustInv ==
    ASSUME CampAssumptions, CampInv, CA!Exhaust
    PROVE  CampInv'
<1>0. /\ UNCHANGED <<tree, snapshot, attempts, exec>> /\ command' = CA!NoCommand
      /\ CA!Save(command.row, [command.row EXCEPT !.status = "exhausted"])
      /\ command.row \in Row /\ ClaimsHold
  BY DEF CA!Exhaust, CampInv, CampTypeOK, RowType, UnderWay
<1>1. PICK r \in Row : /\ r = [command.row EXCEPT !.status = "exhausted"]
                       /\ r.spent = command.row.spent /\ r.completed = command.row.completed
                       /\ r.status = "exhausted"
  BY <1>0, ExhaustedFacts
<1>2. TrueRow(r)
  BY <1>0, <1>1 DEF ClaimsHold, TrueRow
<1>3. CA!Save(command.row, r)
  BY <1>0, <1>1
<1> QED BY <1>0, <1>1, <1>2, <1>3, WriteBack

LEMMA AroundInv ==
    ASSUME CampAssumptions, CampInv, CA!TakeSnapshot \/ CA!TreeMoves \/ CA!CommandFails
    PROVE  CampInv'
<1>0. /\ UNCHANGED <<camp, attempts, exec>> /\ camp \in Row /\ command \in UnderWay /\ caCount \in History
      /\ tree \in Graph /\ snapshot \in Graph /\ ClaimsHold
  BY DEF CA!TakeSnapshot, CA!TreeMoves, CA!CommandFails, CampInv, CampTypeOK, RowType, TreeType, LogType
<1>1. tree.landed \in Nat /\ tree.rev \in Nat /\ snapshot.landed \in Nat /\ snapshot.landed <= tree.landed
  BY <1>0 DEF Graph, ClaimsHold
<1>2. Grows /\ caCount' \in History /\ caCount'.undone = caCount.undone
  <2>1. CASE CA!TakeSnapshot
    BY <1>0, <1>1, <2>1 DEF CA!TakeSnapshot, Grows
  <2>2. CASE CA!TreeMoves
    <3>1. tree' \in Graph /\ tree'.landed = tree.landed
      BY <1>0, <1>1, <2>2 DEF CA!TreeMoves, Graph
    <3>2. caCount' \in History /\ caCount'.undone = caCount.undone
      BY <1>0, <2>2 DEF CA!TreeMoves, History
    <3> QED BY <1>0, <1>1, <2>2, <3>1, <3>2 DEF CA!TreeMoves, Grows
  <2>3. CASE CA!CommandFails
    BY <1>0, <2>3, GrowsIf DEF CA!CommandFails
  <2> QED BY <2>1, <2>2, <2>3
<1>3. CASE UNCHANGED command
  <2>1. ClaimsHold'
    BY <1>0, <1>2, <1>3, StillClaims
  <2> QED BY <1>0, <1>2, <1>3, <2>1, CommandStep DEF ClaimsHold
<1>4. CASE CA!CommandFails
  <2>1. command' = CA!NoCommand /\ UNCHANGED <<tree, snapshot>>
    BY <1>4 DEF CA!CommandFails
  <2>2. command' \in UnderWay /\ TrueRow(command.row)' /\ TrueGraph(command.graph)'
    BY <1>2, <2>1, HandedFacts DEF TrueRow, TrueGraph, Grows, Graph
  <2>3. TrueRow(camp)'
    BY <1>0, <2>1 DEF ClaimsHold, TrueRow
  <2> QED BY <1>0, <1>2, <2>2, <2>3, CommandStep
<1> QED BY <1>3, <1>4 DEF CA!TakeSnapshot, CA!TreeMoves

(* One order less is held, one attempt more is spent.                         *)
LEMMA SaveSpends ==
    ASSUME CampAssumptions, CampTypeOK, Spending, NEW x \in Holders, RowType', camp'.spent = camp.spent + 1,
           Holders' = Holders \ {x}
    PROVE  Spending'
<1>0. Holders \in SUBSET Executors
  BY DEF Holders
<1> HIDE DEF Holders
<1>1. IsFiniteSet(Holders) /\ Cardinality(Holders) \in Nat /\ Cardinality(Executors) \in Nat
      /\ Cardinality(Holders) <= Cardinality(Executors)
  BY <1>0, FS_Subset, FS_CardinalityType DEF CampAssumptions
<1>2. Cardinality(Holders') = Cardinality(Holders) - 1
  BY <1>1, FS_RemoveElement
<1>3. camp.spent \in Nat
  BY DEF CampTypeOK, RowType, Row
<1>4. camp.spent < MaxAttempts \/ camp.spent + Cardinality(Holders) <= MaxAttempts + Cardinality(Executors) - 1
  BY DEF Spending
<1> QED BY <1>1, <1>2, <1>3, <1>4 DEF Spending, CampAssumptions

(* Record writes the row: a step counts once it has landed, and only the live *)
(* one of the row that was read does.                                         *)
LEMMA RecordSaveInv ==
    ASSUME CampAssumptions, CampInv, NEW x \in Executors, CA!RecordSave(x)
    PROVE  CampInv'
<1> DEFINE read == exec[x].row
           a == exec[x].att
           g == exec[x].graph
           c == [read EXCEPT !.spent = @ + 1]
           d == [c EXCEPT !.completed = @ + 1]
           row == IF a.verdict = "succeeded" THEN CA!Replanned(d, g) ELSE c
<1>0. /\ exec[x].pc = "save" /\ UNCHANGED <<tree, snapshot, command, attempts>> /\ x \in Holders
      /\ exec[x] \in Order /\ Carries(exec[x]) /\ tree \in Graph /\ snapshot \in Graph /\ camp \in Row
      /\ caCount \in History /\ CA!Save(read, row)
      /\ exec' = [exec EXCEPT ![x] = [CA!Free EXCEPT !.pc = "append", !.att = a]]
  BY DEF CA!RecordSave, CampInv, CampTypeOK, RowType, ExecType, TreeType, LogType, AllCarry, Holders
<1>1. /\ read \in Row /\ a \in Attempt /\ g \in Graph
      /\ TrueRow(read) /\ TrueGraph(g)
      /\ a.verdict = "succeeded" => a.step = read.completed + 1 /\ a.step <= snapshot.landed
  BY <1>0 DEF Carries, Order
<1> HIDE DEF read, a, g
<1>2. c \in Row /\ c.spent = read.spent + 1 /\ c.completed = read.completed /\ c.status = read.status
  BY <1>1, SpentFacts
<1> HIDE DEF c
<1>3. d \in Row /\ d.spent = read.spent + 1 /\ d.completed = read.completed + 1
  BY <1>2, CompletedFacts
<1> HIDE DEF d
<1>4. /\ tree.landed \in Nat /\ snapshot.landed \in Nat /\ read.completed \in Nat /\ read.spent \in Nat
      /\ g.landed \in Nat /\ a.step \in Nat /\ camp.completed \in Nat /\ camp.spent \in Nat
  BY <1>0, <1>1 DEF Graph, Row, Attempt
<1>5. /\ row \in Row /\ row.spent = read.spent + 1 /\ TrueRow(row)
      /\ row.completed = IF a.verdict = "succeeded" THEN read.completed + 1 ELSE read.completed
  <2>1. CASE a.verdict = "succeeded"
    <3>1. /\ row \in Row /\ row.spent = read.spent + 1 /\ row.completed = read.completed + 1
          /\ row.status = "succeeded" => g.landed >= Goal
      BY <1>1, <1>3, <2>1, ReplannedFacts
    <3> HIDE DEF row
    <3> QED BY <1>1, <1>4, <2>1, <3>1 DEF TrueRow, TrueGraph, CampAssumptions
  <2>2. CASE a.verdict # "succeeded"
    BY <1>1, <1>2, <2>2 DEF TrueRow
  <2> QED BY <2>1, <2>2
<1> HIDE DEF row
<1>6. /\ camp' = row
      /\ caCount' = [caCount EXCEPT !.undone = @ \/ read.spent # camp.spent \/ read.completed # camp.completed]
  BY <1>0 DEF CA!Save
<1>7. caCount' \in History
  BY <1>0, <1>6, Zenon DEF History
<1>8. caCount'.undone = (caCount.undone \/ read.spent # camp.spent \/ read.completed # camp.completed)
  BY <1>0, <1>6 DEF History
<1>9. PICK e \in Order : /\ exec' = [exec EXCEPT ![x] = e] /\ e.pc = "append" /\ e.att = a
                         /\ e.row = CA!Free.row /\ e.graph = CA!Free.graph
  <2> DEFINE o == [CA!Free EXCEPT !.pc = "append", !.att = a]
  <2>1. o \in Order /\ o.pc = "append" /\ o.att = a /\ o.row = CA!Free.row /\ o.graph = CA!Free.graph
    BY <1>1, HandedFacts DEF Order
  <2>2. exec' = [exec EXCEPT ![x] = o]
    BY <1>0
  <2> HIDE DEF o
  <2> QED BY <2>1, <2>2
<1>10. exec \in [Executors -> Order] /\ ExecType' /\ exec'[x] = e /\ \A y \in Executors \ {x} : exec'[y] = exec[y]
  BY <1>9 DEF CampInv, CampTypeOK, ExecType
<1>11. CampTypeOK'
  BY <1>0, <1>5, <1>6, <1>7, <1>10 DEF CampInv, CampTypeOK, RowType, TreeType, LogType
<1>12. Grows
  BY <1>0, GrowsIf
<1>13. AllCarry'
  <2> SUFFICES ASSUME NEW y \in Executors PROVE Carries(exec[y])'
    BY DEF AllCarry
  <2>1. CASE y = x
    <3>1. TrueRow(e.row)' /\ TrueGraph(e.graph)'
      BY <1>0, <1>4, <1>9, HandedFacts DEF TrueRow, TrueGraph
    <3> QED BY <1>9, <1>10, <2>1, <3>1 DEF Carries, TrueRow, TrueGraph
  <2>2. CASE y # x
    BY <1>10, <1>12, <2>2, StillCarries
  <2> QED BY <2>1, <2>2
<1>14. ClaimsHold'
  BY <1>0, <1>5, <1>6 DEF CampInv, ClaimsHold, TrueRow, TrueGraph
<1>15. ASSUME ~caCount'.undone PROVE Counts'
  <2>0. read.spent = camp.spent /\ read.completed = camp.completed /\ ~caCount.undone
    BY <1>8, <1>15
  <2>1. /\ Counts /\ CampTypeOK
        /\ camp'.spent = camp.spent + 1 /\ camp'.completed \in Nat /\ camp'.completed >= camp.completed
        /\ a.verdict = "succeeded" => a.step = camp.completed + 1 /\ camp'.completed = camp.completed + 1
    <3>1. Counts /\ CampTypeOK
      BY <2>0 DEF CampInv
    <3>2. camp'.spent = camp.spent + 1
      BY <1>5, <1>6, <2>0
    <3>3. camp'.completed = IF a.verdict = "succeeded" THEN camp.completed + 1 ELSE camp.completed
      BY <1>5, <1>6, <2>0
    <3>4. a.verdict = "succeeded" => a.step = camp.completed + 1
      BY <1>1, <2>0
    <3> QED BY <1>4, <3>1, <3>2, <3>3, <3>4
  <2>2. LogHolds /\ PendingNew /\ PendingApart /\ Spending
    BY <2>1 DEF Counts
  <2>3. ASSUME NEW k \in 1..Len(attempts), attempts[k].verdict = "succeeded"
        PROVE  /\ attempts[k].step <= camp'.completed
               /\ a.verdict = "succeeded" => attempts[k].step # a.step
    <3>1. attempts[k].step <= camp.completed /\ attempts[k].step \in Nat
      BY <2>1, <2>2, <2>3, LogFacts
    <3>2. attempts[k].step <= camp'.completed
      <4>1. \A p, q, r \in Nat : p <= q /\ q <= r => p <= r
        OBVIOUS
      <4>2. camp.completed \in Nat /\ camp'.completed \in Nat /\ camp.completed <= camp'.completed
        BY <1>4, <2>1
      <4> HIDE <1>4, <2>1
      <4> QED BY <3>1, <4>1, <4>2
    <3>3. a.verdict = "succeeded" => attempts[k].step # a.step
      BY <1>4, <2>1, <3>1
    <3> QED BY <3>2, <3>3
  <2>4. LogHolds'
    BY <1>0, <2>2, <2>3 DEF LogHolds, CA!StepOnce
  <2>5. \A y \in Executors \ {x} : /\ Pending(y)' <=> Pending(y)
                                   /\ Pending(y) => exec[y].att.step <= camp.completed /\ exec[y].att.step \in Nat
    BY <1>10, <2>2 DEF Pending, PendingNew, Order, Attempt
  <2>6. PendingNew'
    <3> SUFFICES ASSUME NEW y \in Executors, Pending(y)'
                 PROVE  (/\ exec[y].att.step <= camp.completed
                         /\ \A k \in 1..Len(attempts) : attempts[k].verdict = "succeeded" => attempts[k].step # exec[y].att.step)'
      BY DEF PendingNew
    <3>1. CASE y = x
      <4>1. a.verdict = "succeeded" /\ exec'[y].att = a
        BY <1>9, <1>10, <3>1 DEF Pending
      <4> QED BY <1>0, <1>4, <2>1, <2>3, <4>1
    <3>2. CASE y # x
      <4>1. exec'[y] = exec[y] /\ Pending(y) /\ exec[y].att.step <= camp.completed /\ exec[y].att.step \in Nat
        BY <1>10, <2>5, <3>2
      <4>2. exec[y].att.step <= camp'.completed
        BY <1>4, <2>1, <4>1
      <4> QED BY <1>0, <2>2, <4>1, <4>2 DEF PendingNew
    <3> QED BY <3>1, <3>2
  <2>7. PendingApart'
    <3>1. ASSUME NEW y \in Executors \ {x}, Pending(x)', Pending(y)'
          PROVE  exec'[y].att.step # exec'[x].att.step
      <4>1. a.verdict = "succeeded" /\ exec'[x].att = a
        BY <1>9, <1>10, <3>1 DEF Pending
      <4>2. exec'[y] = exec[y] /\ exec[y].att.step <= camp.completed /\ exec[y].att.step \in Nat
        BY <1>10, <2>5, <3>1
      <4> QED BY <1>4, <2>1, <4>1, <4>2
    <3>2. ASSUME NEW y \in Executors \ {x}, NEW z \in Executors \ {x}, Pending(y)', Pending(z)',
                 exec'[y].att.step = exec'[z].att.step
          PROVE  y = z
      BY <1>10, <2>2, <2>5, <3>2 DEF PendingApart
    <3> QED BY <3>1, <3>2 DEF PendingApart
  <2>8. Holders' = Holders \ {x}
    BY <1>9, <1>10 DEF Holders
  <2>9. RowType'
    BY <1>11 DEF CampTypeOK
  <2>10. Spending'
    BY <1>0, <2>1, <2>2, <2>8, <2>9, SaveSpends
  <2> QED BY <2>4, <2>6, <2>7, <2>10 DEF Counts
<1> QED BY <1>11, <1>13, <1>14, <1>15 DEF CampInv

(* Record appends the attempt, unless its id is taken.                        *)
LEMMA RecordAppendInv ==
    ASSUME CampAssumptions, CampInv, NEW x \in Executors, CA!RecordAppend(x)
    PROVE  CampInv'
<1>0. /\ exec[x].pc = "append" /\ UNCHANGED <<tree, snapshot, camp, command, caCount>>
      /\ exec[x] \in Order /\ exec' = [exec EXCEPT ![x] = CA!Free]
      /\ exec[x].att \in Attempt /\ attempts \in Seq(Attempt) /\ CampTypeOK
  BY DEF CA!RecordAppend, CampInv, CampTypeOK, ExecType, LogType, Order
<1>1. ExecType' /\ exec'[x] = CA!Free /\ \A y \in Executors \ {x} : exec'[y] = exec[y]
  BY <1>0, HandedFacts DEF CampTypeOK, ExecType
<1>2. Grows
  BY <1>0, GrowsIf
<1>3. AllCarry'
  <2> SUFFICES ASSUME NEW y \in Executors PROVE Carries(exec[y])'
    BY DEF AllCarry
  <2>1. CASE y = x
    <3>1. PICK e \in Order : e = CA!Free /\ e.pc = "free"
      BY HandedFacts
    <3>2. Carries(e)'
      BY <1>2, <3>1, EmptyCarries
    <3> QED BY <1>1, <2>1, <3>1, <3>2 DEF Carries, TrueRow, TrueGraph
  <2>2. CASE y # x
    BY <1>1, <1>2, <2>2, StillCarries
  <2> QED BY <2>1, <2>2
<1>4. ClaimsHold'
  BY <1>0, <1>2, StillClaims
<1>5. attempts' = attempts \/ attempts' = Append(attempts, exec[x].att)
  BY DEF CA!RecordAppend
<1>6. CampTypeOK'
  <2>1. attempts' \in Seq(Attempt)
    BY <1>0, <1>5
  <2> QED BY <1>0, <1>1, <2>1 DEF CampTypeOK, RowType, TreeType, LogType
<1>7. ASSUME Counts PROVE Counts'
  <2>1. LogHolds /\ PendingNew /\ PendingApart /\ Spending
    BY <1>7 DEF Counts
  <2>2. \A y \in Executors : Pending(y)' => y # x /\ exec'[y] = exec[y] /\ Pending(y)
    BY <1>1, HandedFacts DEF Pending
  <2>3. PendingApart'
    BY <2>1, <2>2 DEF PendingApart
  <2>4. LogHolds' /\ PendingNew'
    <3>1. CASE attempts' = attempts
      BY <1>0, <2>1, <2>2, <3>1 DEF LogHolds, CA!StepOnce, PendingNew
    <3>2. CASE attempts' = Append(attempts, exec[x].att)
      <4>1. /\ Len(attempts') = Len(attempts) + 1 /\ Len(attempts) \in Nat
            /\ attempts'[Len(attempts) + 1] = exec[x].att
            /\ \A k \in 1..Len(attempts) : attempts'[k] = attempts[k]
        BY <1>0, <3>2
      <4>2. exec[x].att.verdict = "succeeded" =>
              /\ Pending(x) /\ exec[x].att.step <= camp.completed
              /\ \A k \in 1..Len(attempts) : attempts[k].verdict = "succeeded" => attempts[k].step # exec[x].att.step
        BY <1>0, <2>1 DEF Pending, PendingNew
      <4>3. ASSUME NEW k \in 1..Len(attempts'), attempts'[k].verdict = "succeeded"
            PROVE  attempts'[k].step <= camp.completed
        <5>1. CASE k = Len(attempts) + 1
          BY <4>1, <4>2, <4>3, <5>1
        <5>2. CASE k \in 1..Len(attempts)
          BY <1>0, <2>1, <4>1, <4>3, <5>2, LogFacts
        <5> QED BY <4>1, <5>1, <5>2
      <4>4. ASSUME NEW j \in 1..Len(attempts'), NEW k \in 1..Len(attempts'),
                   attempts'[j].verdict = "succeeded", attempts'[k].verdict = "succeeded",
                   attempts'[j].step = attempts'[k].step
            PROVE  j = k
        <5>1. CASE j \in 1..Len(attempts) /\ k \in 1..Len(attempts)
          BY <2>1, <4>1, <4>4, <5>1 DEF LogHolds, CA!StepOnce
        <5> QED BY <4>1, <4>2, <4>4, <5>1
      <4>5. ASSUME NEW y \in Executors, Pending(y)', NEW k \in 1..Len(attempts'), attempts'[k].verdict = "succeeded"
            PROVE  attempts'[k].step # exec'[y].att.step
        <5>1. y # x /\ exec'[y] = exec[y] /\ Pending(y)
          BY <2>2, <4>5
        <5>2. CASE k = Len(attempts) + 1
          BY <2>1, <4>1, <4>2, <4>5, <5>1, <5>2 DEF PendingApart
        <5>3. CASE k \in 1..Len(attempts)
          BY <2>1, <4>1, <4>5, <5>1, <5>3 DEF PendingNew
        <5> QED BY <4>1, <5>2, <5>3
      <4>6. ASSUME NEW y \in Executors, Pending(y)'
            PROVE  exec'[y].att.step <= camp.completed
        BY <2>1, <2>2, <4>6 DEF PendingNew
      <4>7. LogHolds'
        BY <1>0, <4>3, <4>4 DEF LogHolds, CA!StepOnce
      <4>8. PendingNew'
        BY <1>0, <4>5, <4>6 DEF PendingNew
      <4> QED BY <4>7, <4>8
    <3> QED BY <1>5, <3>1, <3>2
  <2>5. Holders' \subseteq Holders
    BY <1>1, HandedFacts DEF Holders
  <2>6. Spending'
    BY <1>0, <1>6, <2>1, <2>5, HoldersShrink
  <2> QED BY <2>3, <2>4, <2>6 DEF Counts
<1> QED BY <1>0, <1>3, <1>4, <1>6, <1>7 DEF CampInv

(* Whatever dies, fails, is planned at the same time or comes late, a campaign *)
(* claims no more than the tree has; and until a command writes its row over   *)
(* one whose counts have moved since it was read, each landed step is logged   *)
(* once and no more is spent beyond the budget than racing executors held:     *)
(* campaign.go's Plan, Next and Record over store.go's save, for every goal,   *)
(* budget and finite set of executors.                                         *)
THEOREM CampaignsAreTrue ==
    ASSUME Goal \in Nat, MaxAttempts \in Nat \ {0}, IsFiniteSet(Executors)
    PROVE  CA!Spec => []CampaignIsTrue
<1>0. CampAssumptions
  BY DEF CampAssumptions
<1>1. CA!Init => CampInv
  <2> SUFFICES ASSUME CA!Init PROVE CampInv
    OBVIOUS
  <2>1. /\ camp = CA!NewRow /\ command = CA!NoCommand /\ tree = CA!NoGraph /\ snapshot = tree /\ attempts = <<>>
        /\ exec = [x \in Executors |-> CA!Free]
        /\ caCount = [orders |-> 0, commands |-> 0, events |-> 0, undone |-> FALSE]
    BY DEF CA!Init
  <2>2. CampTypeOK
    BY <2>1, HandedFacts DEF CampTypeOK, RowType, TreeType, LogType, ExecType, History
  <2>3. \A x \in Executors : exec[x] = CA!Free /\ exec[x].pc = "free"
    BY <2>1, HandedFacts
  <2>4. AllCarry
    BY <2>1, <2>3, HandedFacts DEF AllCarry, Carries, TrueRow, TrueGraph
  <2>5. ClaimsHold
    BY <2>1, HandedFacts DEF ClaimsHold, TrueRow, TrueGraph
  <2>6. Counts
    <3>1. LogHolds
      BY <2>1 DEF LogHolds, CA!StepOnce
    <3>2. PendingNew /\ PendingApart
      BY <2>3 DEF PendingNew, PendingApart, Pending
    <3>3. Spending
      BY <1>0, <2>1, HandedFacts DEF Spending, CampAssumptions
    <3> QED BY <3>1, <3>2, <3>3 DEF Counts
  <2> QED BY <2>2, <2>4, <2>5, <2>6 DEF CampInv
<1>2. CampInv /\ [CA!Next]_(CA!caVars) => CampInv'
  <2> SUFFICES ASSUME CampInv, [CA!Next]_(CA!caVars) PROVE CampInv'
    OBVIOUS
  <2>1. CASE CA!Next
    <3>1. CASE CA!TakeSnapshot \/ CA!TreeMoves \/ CA!CommandFails
      BY <1>0, <3>1, AroundInv
    <3>2. CASE CA!PlanRead \/ CA!NextRead
      BY <1>0, <3>2, CommandInv DEF CA!PlanRead, CA!NextRead
    <3>3. CASE CA!PlanGraph \/ CA!PlanSave \/ CA!Exhaust
      BY <1>0, <3>3, PlanGraphInv, PlanSaveInv, ExhaustInv
    <3>4. ASSUME NEW x \in Executors, CA!Dispatch(x) \/ CA!Work(x) \/ CA!Recording(x) \/ CA!Crash(x)
          PROVE  CampInv'
      BY <1>0, <3>4, DispatchInv, WorkInv, RecordReadInv, RecordReplanInv, RecordSaveInv, RecordAppendInv,
         CampCrashInv DEF CA!Recording
    <3> QED BY <2>1, <3>1, <3>2, <3>3, <3>4 DEF CA!Next
  <2>2. CASE UNCHANGED CA!caVars
    <3>1. UNCHANGED <<tree, snapshot, camp, command, attempts, exec, caCount>>
      BY <2>2 DEF CA!caVars
    <3>2. Grows
      BY <3>1, GrowsIf
    <3>3. ClaimsHold'
      BY <1>0, <3>1, <3>2, StillClaims
    <3>4. /\ command' \in UnderWay /\ camp' \in Row /\ caCount' \in History
      BY <3>1 DEF CampInv, CampTypeOK, RowType, LogType
    <3>5. AllCarry'
      BY <1>0, <3>1, <3>2, StillCarries DEF AllCarry
    <3>6. CampTypeOK'
      BY <3>1 DEF CampInv, CampTypeOK, RowType, TreeType, LogType, ExecType
    <3>7. Counts => Counts'
      BY <3>1 DEF Counts, LogHolds, CA!StepOnce, PendingNew, PendingApart, Pending, Spending, Holders
    <3> QED BY <3>1, <3>3, <3>5, <3>6, <3>7 DEF CampInv
  <2> QED BY <2>1, <2>2
<1>3. CampInv => CampaignIsTrue
  <2> SUFFICES ASSUME CampInv PROVE CampaignIsTrue
    OBVIOUS
  <2>1. CA!ClaimsAreReal
    <3>1. camp.completed \in Nat /\ snapshot.landed \in Nat /\ tree.landed \in Nat
      BY DEF CampInv, CampTypeOK, RowType, Row, TreeType, Graph
    <3> QED BY <3>1 DEF CampInv, ClaimsHold, TrueRow, CA!ClaimsAreReal
  <2>2. Counts => CA!StepOnce
    BY DEF Counts, LogHolds
  <2>3. Counts => camp.spent <= MaxAttempts + Cardinality(Executors) - 1
    <3>1. IsFiniteSet(Holders) /\ Cardinality(Holders) \in Nat /\ Cardinality(Executors) \in Nat
      BY <1>0, FS_Subset, FS_CardinalityType DEF CampAssumptions, Holders
    <3>2. camp.spent \in Nat
      BY DEF CampInv, CampTypeOK, RowType, Row
    <3> HIDE DEF Holders
    <3> QED BY <1>0, <3>1, <3>2 DEF Counts, Spending, CampAssumptions
  <2>4. CA!Cardinality(Executors) = Cardinality(Executors)
    BY Zenon DEF CA!Cardinality, Cardinality
  <2>5. Counts => CA!BudgetBounds
    BY <2>3, <2>4 DEF CA!BudgetBounds
  <2> QED BY <2>1, <2>2, <2>5 DEF CampInv, CampaignIsTrue, CA!CampaignIsTrue
<1> QED BY <1>1, <1>2, <1>3, PTL DEF CA!Spec

------------------------------------------------------------------------------
(* The findings of bughunt. The types.                                        *)

FoundHit == [print : Prints, counts : BOOLEAN, inDiff : BOOLEAN]
FindingRow == {row \in [status : {"none", "new", "confirmed", "suppressed"}, seen : Nat] : row.status = "none" => row.seen = 0}
Scan == [at : {"unstarted", "hit", "write", "error", "done"}, hits : Seq(FoundHit), next : Nat \ {0}, seen : SUBSET Prints,
         found : FindingRow, gates : SUBSET Prints]
FindingTypes ==
    /\ finding \in [Prints -> FindingRow]
    /\ scan \in [Scans -> Scan]
    /\ fdPast \in [by : [Prints -> SUBSET Scans], triage : Nat, base : [Prints -> Nat]]

(* The rows count the scans that recorded them.                               *)
RowHolds(p) ==
    /\ IsFiniteSet(fdPast.by[p])
    /\ finding[p].seen = fdPast.base[p] + Cardinality(fdPast.by[p])
    /\ fdPast.by[p] # {} => finding[p].status # "none"

(* A hit before k that counts has the same fingerprint.                       *)
Again(s, k) == \E j \in DOMAIN scan[s].hits : j < k /\ scan[s].hits[j].print = scan[s].hits[k].print /\ scan[s].hits[j].counts

(* A scan has recorded each fingerprint it met, but one it is about to write, *)
(* and gates on those among them that are open on a changed line.             *)
Meets(s) ==
    /\ scan[s].next <= Len(scan[s].hits) + 1
    /\ \A p \in Prints : s \in fdPast.by[p] => p \in scan[s].seen
    /\ \A p \in scan[s].gates : s \in fdPast.by[p]
    /\ scan[s].at = "unstarted" => scan[s].seen = {} /\ scan[s].next = 1
    /\ scan[s].at = "done" => scan[s].next > Len(scan[s].hits)
    /\ scan[s].at \in {"hit", "write"} => \A j \in DOMAIN scan[s].hits :
           j < scan[s].next /\ scan[s].hits[j].counts => scan[s].hits[j].print \in scan[s].seen
    /\ scan[s].at = "hit" => \A p \in scan[s].seen :
           \E j \in DOMAIN scan[s].hits : j < scan[s].next /\ scan[s].hits[j].print = p /\ scan[s].hits[j].counts
    /\ scan[s].at = "write" => \A p \in scan[s].seen :
           \E j \in DOMAIN scan[s].hits : j <= scan[s].next /\ scan[s].hits[j].print = p /\ scan[s].hits[j].counts
Writes(s) ==
    scan[s].at = "write" => LET p == FD!Hit(s).print IN
        /\ scan[s].next \in DOMAIN scan[s].hits /\ FD!Hit(s).counts /\ ~Again(s, scan[s].next)
        /\ p \in scan[s].seen /\ s \notin fdPast.by[p]
        /\ scan[s].found.status # "none" => finding[p].status # "none"
        /\ fdPast.triage = 0 /\ scan[s].found.status # "none" => finding[p].status = scan[s].found.status
Judged(s) ==
    \A k \in DOMAIN scan[s].hits : LET h == scan[s].hits[k] IN
        k < scan[s].next /\ h.counts /\ ~Again(s, k) /\ scan[s].at # "error" =>
            /\ s \in fdPast.by[h.print]
            /\ fdPast.triage = 0 /\ h.inDiff => (FD!Gates(finding[h.print].status) <=> h.print \in scan[s].gates)
ScanHolds(s) == Meets(s) /\ Writes(s) /\ Judged(s)

FindingsInv == FindingTypes /\ (\A p \in Prints : RowHolds(p)) /\ \A s \in Scans : ScanHolds(s)
FindingsAssumption == Reports \subseteq Seq(FoundHit)

LEMMA RowOrNot == \A row \in FindingRow : row = FD!NoRow <=> row.status = "none"
BY DEF FindingRow, FD!NoRow

(* What a step leaves of a scan it is not about: the decided status stays     *)
(* unless a human decides.                                                    *)
LEMMA OtherScan ==
    ASSUME FindingTypes, FindingTypes', NEW s \in Scans, ScanHolds(s), scan'[s] = scan[s],
           \A p \in Prints : s \in fdPast'.by[p] <=> s \in fdPast.by[p],
           fdPast'.triage = 0 => fdPast.triage = 0,
           \A p \in Prints : finding[p].status # "none" =>
               finding'[p].status # "none" /\ (fdPast'.triage = 0 => finding'[p].status = finding[p].status),
           \A p \in Prints : s \in fdPast.by[p] => finding[p].status # "none"
    PROVE  ScanHolds(s)'
<1>1. scan[s] \in Scan /\ \A k \in DOMAIN scan[s].hits : scan[s].hits[k] \in FoundHit
  BY DEF FindingTypes, Scan
<1>2. Meets(s)'
  BY <1>1 DEF Meets, ScanHolds, Scan
<1>3. \A k : Again(s, k)' <=> Again(s, k)
  BY DEF Again
<1>4. Writes(s)'
  <2> SUFFICES ASSUME scan[s].at = "write" PROVE Writes(s)'
    BY DEF Writes
  <2> DEFINE p == FD!Hit(s).print
  <2>1. FD!Hit(s)' = FD!Hit(s) /\ p \in Prints
    BY <1>1 DEF FD!Hit, Writes, ScanHolds, FoundHit
  <2>2. /\ scan[s].next \in DOMAIN scan[s].hits /\ FD!Hit(s).counts /\ ~Again(s, scan[s].next)
        /\ p \in scan[s].seen /\ s \notin fdPast.by[p]
        /\ scan[s].found.status # "none" => finding[p].status # "none"
        /\ fdPast.triage = 0 /\ scan[s].found.status # "none" => finding[p].status = scan[s].found.status
    BY DEF Writes, ScanHolds
  <2>3. ~Again(s, scan[s].next)'
    BY <2>2 DEF Again
  <2> QED BY <2>1, <2>2, <2>3 DEF Writes
<1>5. Judged(s)'
  <2> SUFFICES ASSUME NEW k \in DOMAIN scan[s].hits, k < scan[s].next, scan[s].hits[k].counts, ~Again(s, k), scan[s].at # "error"
               PROVE  /\ s \in fdPast'.by[scan[s].hits[k].print]
                      /\ fdPast'.triage = 0 /\ scan[s].hits[k].inDiff =>
                             (FD!Gates(finding'[scan[s].hits[k].print].status) <=> scan[s].hits[k].print \in scan[s].gates)
    BY <1>3 DEF Judged, FD!Gates
  <2>1. scan[s].hits[k].print \in Prints
    BY <1>1 DEF FoundHit
  <2>2. /\ s \in fdPast.by[scan[s].hits[k].print]
        /\ fdPast.triage = 0 /\ scan[s].hits[k].inDiff =>
              (FD!Gates(finding[scan[s].hits[k].print].status) <=> scan[s].hits[k].print \in scan[s].gates)
    BY DEF Judged, ScanHolds
  <2> QED BY <2>1, <2>2
<1> QED BY <1>2, <1>4, <1>5 DEF ScanHolds

(* A step of one scan that leaves the rows alone.                             *)
LEMMA ScanMoves ==
    ASSUME FindingsInv, NEW s \in Scans, finding' = finding, fdPast' = fdPast, scan' \in [Scans -> Scan],
           \A t \in Scans \ {s} : scan'[t] = scan[t], ScanHolds(s)'
    PROVE  FindingsInv'
<1>1. FindingTypes'
  BY DEF FindingsInv, FindingTypes
<1>2. \A p \in Prints : RowHolds(p)'
  BY DEF FindingsInv, RowHolds
<1>3. ASSUME NEW t \in Scans \ {s} PROVE ScanHolds(t)'
  <2>1. \A p \in Prints : t \in fdPast.by[p] => finding[p].status # "none"
    BY DEF FindingsInv, RowHolds
  <2> QED BY <1>1, <2>1, OtherScan DEF FindingsInv
<1> QED BY <1>1, <1>2, <1>3 DEF FindingsInv

LEMMA FindingsInit == ASSUME FD!Init PROVE FindingsInv
<1>1. finding \in [Prints -> FindingRow]
  BY DEF FD!Init, FD!NoRow, FindingRow
<1>2. scan = [s \in Scans |-> FD!Unstarted] /\ FD!Unstarted \in Scan
  <2>1. <<>> \in Seq(FoundHit) /\ FD!NoRow \in FindingRow
    BY DEF FD!NoRow, FindingRow
  <2> QED BY <2>1 DEF FD!Init, FD!Unstarted, Scan
<1>3. FindingTypes /\ \A p \in Prints : fdPast.by[p] = {} /\ fdPast.base[p] = finding[p].seen
  <2> DEFINE b == [p \in Prints |-> finding[p].seen]
             y == [p \in Prints |-> {}]
  <2>1. b \in [Prints -> Nat] /\ (\A p \in Prints : b[p] = finding[p].seen)
    BY <1>1 DEF FindingRow
  <2>2. y \in [Prints -> SUBSET Scans] /\ (\A p \in Prints : y[p] = {})
    OBVIOUS
  <2>3. fdPast = [by |-> y, triage |-> 0, base |-> b]
    BY DEF FD!Init
  <2> HIDE DEF b, y
  <2> QED BY <1>1, <1>2, <2>1, <2>2, <2>3 DEF FindingTypes
<1>4. ASSUME NEW p \in Prints PROVE RowHolds(p)
  <2>1. IsFiniteSet({}) /\ Cardinality({}) = 0
    BY FS_EmptySet
  <2>2. finding[p].seen \in Nat
    BY <1>1 DEF FindingRow
  <2>3. finding[p].seen = finding[p].seen + 0
    BY <2>2
  <2> QED BY <1>3, <2>1, <2>3 DEF RowHolds
<1>5. ASSUME NEW s \in Scans PROVE ScanHolds(s)
  <2>1. scan[s].at = "unstarted" /\ scan[s].hits = <<>> /\ scan[s].next = 1 /\ scan[s].seen = {} /\ scan[s].gates = {}
    BY <1>2 DEF FD!Unstarted
  <2>2. DOMAIN scan[s].hits = {} /\ Len(scan[s].hits) = 0
    BY <2>1
  <2>3. Meets(s)
    BY <1>3, <2>1, <2>2 DEF Meets
  <2> QED BY <2>1, <2>2, <2>3 DEF ScanHolds, Writes, Judged
<1> QED BY <1>3, <1>4, <1>5 DEF FindingsInv

LEMMA ScanStartInv == ASSUME FindingsAssumption, FindingsInv, NEW s \in Scans, FD!Start(s) PROVE FindingsInv'
<1>1. PICK r \in Reports : scan' = [scan EXCEPT ![s] = [FD!Unstarted EXCEPT !.at = "hit", !.hits = r]]
  BY DEF FD!Start
<1>2. scan[s].at = "unstarted" /\ finding' = finding /\ fdPast' = fdPast
  BY DEF FD!Start
<1> DEFINE u == FD!Unstarted
           n == [u EXCEPT !.at = "hit", !.hits = r]
<1>3. u \in Scan /\ u.next = 1 /\ u.seen = {} /\ u.gates = {}
  <2>1. FD!NoRow \in FindingRow /\ <<>> \in Seq(FoundHit)
    BY DEF FD!NoRow, FindingRow
  <2> QED BY <2>1 DEF FD!Unstarted, Scan
<1> HIDE DEF u
<1>4. n \in Scan /\ n.at = "hit" /\ n.hits = r /\ n.next = 1 /\ n.seen = {} /\ n.gates = {}
  <2>1. r \in Seq(FoundHit)
    BY DEF FindingsAssumption
  <2> QED BY <1>3, <2>1 DEF Scan
<1> HIDE DEF n
<1>5. scan' \in [Scans -> Scan] /\ scan'[s] = n /\ \A t \in Scans \ {s} : scan'[t] = scan[t]
  BY <1>1, <1>4 DEF n, u, FindingsInv, FindingTypes
<1>6. \A p \in Prints : s \notin fdPast.by[p]
  BY <1>2 DEF FindingsInv, ScanHolds, Meets
<1>7. Len(r) \in Nat /\ \A k \in DOMAIN r : k >= 1
  BY DEF FindingsAssumption
<1>8. Meets(s)' /\ Writes(s)' /\ Judged(s)'
  BY <1>2, <1>4, <1>5, <1>6, <1>7 DEF Meets, Writes, Judged
<1> QED BY <1>2, <1>5, <1>8, ScanMoves DEF ScanHolds

LEMMA ScanFailsInv == ASSUME FindingsInv, NEW s \in Scans, FD!DetectorFails(s) PROVE FindingsInv'
<1>1. scan[s] \in Scan /\ finding' = finding /\ fdPast' = fdPast /\ scan' = [scan EXCEPT ![s].at = "error"]
  BY DEF FD!DetectorFails, FindingsInv, FindingTypes
<1>2. /\ scan' \in [Scans -> Scan] /\ scan'[s] = [scan[s] EXCEPT !.at = "error"] /\ \A t \in Scans \ {s} : scan'[t] = scan[t]
  BY <1>1 DEF FindingsInv, FindingTypes, Scan
<1>3. ScanHolds(s)'
  BY <1>1, <1>2 DEF FindingsInv, ScanHolds, Meets, Writes, Judged, Scan
<1> QED BY <1>1, <1>2, <1>3, ScanMoves

LEMMA SkipInv == ASSUME FindingsInv, NEW s \in Scans, FD!Skip(s) PROVE FindingsInv'
<1>1. /\ scan[s] \in Scan /\ finding' = finding /\ fdPast' = fdPast /\ scan[s].at = "hit"
      /\ scan[s].next <= Len(scan[s].hits) /\ FD!Skipped(s)
  BY DEF FD!Skip, FindingsInv, FindingTypes
<1> DEFINE n == scan[s].next + 1
           r == [scan[s] EXCEPT !.next = n]
<1>2. n \in Nat \ {0} /\ scan' = [scan EXCEPT ![s] = r] /\ scan[s].next \in Nat \ {0} /\ Len(scan[s].hits) \in Nat
  BY <1>1 DEF FD!Skip, Scan
<1>3. /\ r \in Scan /\ r.at = "hit" /\ r.hits = scan[s].hits /\ r.next = n /\ r.seen = scan[s].seen
      /\ r.gates = scan[s].gates
  <2> HIDE DEF n
  <2> QED BY <1>1, <1>2 DEF Scan
<1> HIDE DEF r
<1>4. scan' \in [Scans -> Scan] /\ scan'[s] = r /\ \A t \in Scans \ {s} : scan'[t] = scan[t]
  BY <1>2, <1>3 DEF FindingsInv, FindingTypes
<1>5. scan[s].next \in DOMAIN scan[s].hits /\ \A k \in DOMAIN scan[s].hits : k \in Nat /\ scan[s].hits[k] \in FoundHit
  BY <1>1, <1>2 DEF Scan
<1>6. Meets(s) /\ Judged(s)
  BY DEF FindingsInv, ScanHolds
<1>7. Meets(s)'
  <2>1. \A p \in scan[s].seen : \E j \in DOMAIN scan[s].hits : j < n /\ scan[s].hits[j].print = p /\ scan[s].hits[j].counts
    BY <1>1, <1>2, <1>5, <1>6 DEF Meets
  <2>2. \A j \in DOMAIN scan[s].hits : j < n /\ scan[s].hits[j].counts => scan[s].hits[j].print \in scan[s].seen
    <3>1. scan[s].hits[scan[s].next].counts => scan[s].hits[scan[s].next].print \in scan[s].seen
      BY <1>1 DEF FD!Skipped, FD!Hit
    <3>2. \A j \in DOMAIN scan[s].hits : j < n => j < scan[s].next \/ j = scan[s].next
      BY <1>2, <1>5
    <3> QED BY <1>1, <1>6, <3>1, <3>2 DEF Meets
  <2>3. n <= Len(scan[s].hits) + 1
    BY <1>1, <1>2
  <2> HIDE DEF n
  <2>4. /\ scan'[s].at = "hit" /\ scan'[s].hits = scan[s].hits /\ scan'[s].next = n /\ scan'[s].seen = scan[s].seen
        /\ scan'[s].gates = scan[s].gates
    BY <1>3, <1>4
  <2>5. /\ \A p \in Prints : s \in fdPast'.by[p] => p \in scan'[s].seen
        /\ \A p \in scan'[s].gates : s \in fdPast'.by[p]
    BY <1>1, <1>6, <2>4 DEF Meets
  <2> QED BY <2>1, <2>2, <2>3, <2>4, <2>5 DEF Meets
<1>8. Judged(s)'
  <2>1. \A k \in DOMAIN scan[s].hits : Again(s, k)' <=> Again(s, k)
    BY <1>3, <1>4 DEF Again
  <2>2. ~scan[s].hits[scan[s].next].counts \/ Again(s, scan[s].next)
    BY <1>1, <1>6 DEF FD!Skipped, FD!Hit, Meets, Again
  <2>3. ASSUME NEW k \in DOMAIN scan[s].hits, k < n, scan[s].hits[k].counts, ~Again(s, k) PROVE k < scan[s].next
    BY <1>2, <1>5, <2>2, <2>3
  <2> QED BY <1>1, <1>3, <1>4, <1>6, <2>1, <2>3 DEF Judged, FD!Gates
<1>9. Writes(s)'
  BY <1>3, <1>4 DEF Writes
<1> QED BY <1>1, <1>4, <1>7, <1>8, <1>9, ScanMoves DEF ScanHolds

LEMMA LookInv == ASSUME FindingsInv, NEW s \in Scans, FD!Look(s) PROVE FindingsInv'
<1> DEFINE p == FD!Hit(s).print
           n == scan[s].seen \cup {p}
           r == [scan[s] EXCEPT !.at = "write", !.found = finding[p], !.seen = n]
<1>1. /\ scan[s] \in Scan /\ finding' = finding /\ fdPast' = fdPast /\ scan[s].at = "hit"
      /\ scan[s].next <= Len(scan[s].hits) /\ FD!Hit(s).counts /\ p \notin scan[s].seen /\ scan' = [scan EXCEPT ![s] = r]
  BY DEF FD!Look, FD!Skipped, FindingsInv, FindingTypes
<1>2. scan[s].next \in DOMAIN scan[s].hits /\ \A k \in DOMAIN scan[s].hits : k \in Nat /\ scan[s].hits[k] \in FoundHit
  BY <1>1 DEF Scan
<1>3. p \in Prints /\ p = scan[s].hits[scan[s].next].print /\ finding[p] \in FindingRow
  BY <1>2 DEF FD!Hit, FoundHit, FindingsInv, FindingTypes
<1>4. n \in SUBSET Prints
  BY <1>1, <1>3 DEF Scan
<1>5. /\ r \in Scan /\ r.at = "write" /\ r.hits = scan[s].hits /\ r.next = scan[s].next /\ r.seen = n
      /\ r.gates = scan[s].gates /\ r.found = finding[p]
  <2> HIDE DEF n, p
  <2> QED BY <1>1, <1>3, <1>4 DEF Scan
<1> HIDE DEF r
<1>6. scan' \in [Scans -> Scan] /\ scan'[s] = r /\ \A t \in Scans \ {s} : scan'[t] = scan[t]
  BY <1>1, <1>5 DEF FindingsInv, FindingTypes
<1>7. Meets(s) /\ Judged(s) /\ s \notin fdPast.by[p]
  BY <1>1, <1>3 DEF FindingsInv, ScanHolds, Meets
<1>8. Meets(s)'
  <2>1. \A q \in n : \E j \in DOMAIN scan[s].hits : j <= scan[s].next /\ scan[s].hits[j].print = q /\ scan[s].hits[j].counts
    BY <1>1, <1>2, <1>3, <1>7 DEF Meets, FD!Hit
  <2>2. scan[s].seen \subseteq n
    OBVIOUS
  <2> HIDE DEF n
  <2>3. /\ scan'[s].hits = scan[s].hits /\ scan'[s].next = scan[s].next /\ scan'[s].gates = scan[s].gates
        /\ scan'[s].seen = n /\ scan'[s].at = "write" /\ fdPast' = fdPast
    BY <1>1, <1>5, <1>6
  <2>4. /\ \A q \in Prints : s \in fdPast'.by[q] => q \in scan'[s].seen
        /\ \A q \in scan'[s].gates : s \in fdPast'.by[q]
    BY <1>7, <2>2, <2>3 DEF Meets
  <2>5. scan'[s].next <= Len(scan'[s].hits) + 1
    BY <1>7, <2>3 DEF Meets
  <2>6. \A j \in DOMAIN scan'[s].hits :
            j < scan'[s].next /\ scan'[s].hits[j].counts => scan'[s].hits[j].print \in scan'[s].seen
    BY <1>1, <1>7, <2>2, <2>3 DEF Meets
  <2>7. \A q \in scan'[s].seen :
            \E j \in DOMAIN scan'[s].hits : j <= scan'[s].next /\ scan'[s].hits[j].print = q /\ scan'[s].hits[j].counts
    BY <2>1, <2>3
  <2> QED BY <2>3, <2>4, <2>5, <2>6, <2>7 DEF Meets
<1>9. \A k \in DOMAIN scan[s].hits : Again(s, k)' <=> Again(s, k)
  BY <1>5, <1>6 DEF Again
<1>10. Judged(s)'
  BY <1>1, <1>5, <1>6, <1>7, <1>9 DEF Judged, FD!Gates
<1>11. Writes(s)'
  <2>1. FD!Hit(s)' = FD!Hit(s)
    BY <1>5, <1>6 DEF FD!Hit
  <2>2. ~Again(s, scan[s].next)'
    <3> SUFFICES ASSUME Again(s, scan[s].next) PROVE FALSE
      BY <1>2, <1>9, <1>5, <1>6 DEF Again
    <3> PICK j \in DOMAIN scan[s].hits : j < scan[s].next /\ scan[s].hits[j].print = p /\ scan[s].hits[j].counts
      BY <1>3 DEF Again
    <3> QED BY <1>1, <1>7 DEF Meets
  <2> QED BY <1>1, <1>2, <1>3, <1>5, <1>6, <1>7, <2>1, <2>2 DEF Writes
<1> QED BY <1>1, <1>6, <1>8, <1>10, <1>11, ScanMoves DEF ScanHolds

(* What UpsertFinding writes: another sighting, and the status of the row.    *)
LEMMA UpsertFacts ==
    ASSUME NEW row \in FindingRow, NEW found \in FindingRow, found.status # "none" \/ row.status = "none",
           found.status # "none" => row.status # "none"
    PROVE  LET u == FD!Upserted(row, found) IN
           /\ u \in FindingRow /\ u.status # "none" /\ u.seen = row.seen + 1
           /\ row.status # "none" => u.status = row.status
           /\ found.status = "none" => u.status = "new"
<1>1. row.seen \in Nat /\ (row.status = "none" => row.seen = 0)
  BY DEF FindingRow
<1>2. CASE found.status # "none"
  <2> DEFINE n == row.seen + 1
  <2>1. FD!Upserted(row, found) = [row EXCEPT !.seen = n] /\ n \in Nat
    BY <1>1, <1>2, RowOrNot DEF FD!Upserted
  <2> HIDE DEF n
  <2>2. [row EXCEPT !.seen = n] \in FindingRow
    BY <1>2, <2>1 DEF FindingRow
  <2> QED BY <1>1, <1>2, <2>1, <2>2 DEF FindingRow, n
<1>3. CASE found.status = "none"
  <2>1. FD!Upserted(row, found) = [status |-> "new", seen |-> 1]
    BY <1>3, RowOrNot DEF FD!Upserted
  <2> QED BY <1>1, <1>3, <2>1 DEF FindingRow
<1> QED BY <1>2, <1>3

LEMMA RecordHitInv ==
    ASSUME FindingsInv, NEW s \in Scans, FD!Record(s)
    PROVE  FindingsInv' /\ \A q \in Prints : finding[q].status # "none" => finding'[q].status = finding[q].status
<1>1. scan[s] \in Scan /\ scan[s].at = "write" /\ Meets(s) /\ Writes(s) /\ Judged(s)
  BY DEF FD!Record, FindingsInv, FindingTypes, ScanHolds
<1>2. PICK p \in Prints : p = FD!Hit(s).print /\ p = scan[s].hits[scan[s].next].print
  BY <1>1 DEF Writes, FD!Hit, Scan, FoundHit
<1>3. /\ scan[s].next \in DOMAIN scan[s].hits /\ scan[s].hits[scan[s].next].counts /\ ~Again(s, scan[s].next)
      /\ p \in scan[s].seen /\ s \notin fdPast.by[p]
      /\ scan[s].found.status # "none" => finding[p].status # "none"
      /\ fdPast.triage = 0 /\ scan[s].found.status # "none" => finding[p].status = scan[s].found.status
  BY <1>1, <1>2 DEF Writes, FD!Hit
<1>4. finding[p] \in FindingRow /\ scan[s].found \in FindingRow
  BY <1>1 DEF FindingsInv, FindingTypes, Scan
<1>5. CASE scan[s].found = FD!NoRow /\ finding[p] # FD!NoRow
  <2>1. scan' = [scan EXCEPT ![s].at = "error"] /\ finding' = finding /\ fdPast' = fdPast
    BY <1>2, <1>5 DEF FD!Record
  <2>2. /\ scan' \in [Scans -> Scan] /\ scan'[s] = [scan[s] EXCEPT !.at = "error"] /\ \A t \in Scans \ {s} : scan'[t] = scan[t]
    BY <1>1, <2>1 DEF FindingsInv, FindingTypes, Scan
  <2>3. ScanHolds(s)'
    BY <1>1, <2>1, <2>2 DEF ScanHolds, Meets, Writes, Judged, Scan
  <2> QED BY <2>1, <2>2, <2>3, ScanMoves
<1>6. CASE ~(scan[s].found = FD!NoRow /\ finding[p] # FD!NoRow)
  <2> DEFINE st == IF scan[s].found = FD!NoRow THEN "new" ELSE scan[s].found.status
             u == FD!Upserted(finding[p], scan[s].found)
             b == [fdPast.by EXCEPT ![p] = @ \cup {s}]
             n == scan[s].next + 1
             g == IF FD!Gates(st) /\ FD!Hit(s).inDiff THEN scan[s].gates \cup {p} ELSE scan[s].gates
             r == [scan[s] EXCEPT !.at = "hit", !.next = n, !.gates = g]
  <2>1. finding' = [finding EXCEPT ![p] = u] /\ fdPast' = [fdPast EXCEPT !.by = b] /\ scan' = [scan EXCEPT ![s] = r]
    <3>1. IF scan[s].found = FD!NoRow /\ finding[p] # FD!NoRow
          THEN scan' = [scan EXCEPT ![s].at = "error"] /\ UNCHANGED <<finding, fdPast>>
          ELSE /\ finding' = [finding EXCEPT ![p] = FD!Upserted(@, scan[s].found)]
               /\ fdPast' = [fdPast EXCEPT !.by[p] = @ \cup {s}]
               /\ scan' = [scan EXCEPT ![s].at = "hit", ![s].next = @ + 1,
                            ![s].gates = IF FD!Gates(st) /\ FD!Hit(s).inDiff THEN @ \cup {p} ELSE @]
      BY <1>2, Zenon DEF FD!Record
    <3> QED BY <1>6, <3>1
  <2>2. /\ u \in FindingRow /\ u.status # "none" /\ u.seen = finding[p].seen + 1
        /\ finding[p].status # "none" => u.status = finding[p].status
        /\ scan[s].found.status = "none" => u.status = "new"
    BY <1>3, <1>4, <1>6, UpsertFacts, RowOrNot
  <2>3. fdPast.triage = 0 => u.status = st
    BY <1>3, <1>4, <2>2, RowOrNot
  <2>4. /\ b \in [Prints -> SUBSET Scans] /\ b[p] = fdPast.by[p] \cup {s} /\ \A q \in Prints \ {p} : b[q] = fdPast.by[q]
    BY DEF FindingsInv, FindingTypes
  <2>5. n \in Nat \ {0} /\ scan[s].next \in Nat
    BY <1>1 DEF Scan
  <2>6. /\ g \in SUBSET Prints /\ scan[s].gates \subseteq g /\ g \subseteq scan[s].gates \cup {p}
        /\ p \notin scan[s].gates
        /\ scan[s].hits[scan[s].next].inDiff => (p \in g <=> FD!Gates(st))
    BY <1>1, <1>2, <1>3 DEF Meets, Scan, FD!Hit
  <2> HIDE DEF st, u, b, n, g
  <2>7. /\ r \in Scan /\ r.at = "hit" /\ r.hits = scan[s].hits /\ r.next = n /\ r.seen = scan[s].seen /\ r.gates = g
    BY <1>1, <2>5, <2>6 DEF Scan
  <2> HIDE DEF r
  <2>8. /\ finding' \in [Prints -> FindingRow] /\ finding'[p] = u /\ \A q \in Prints \ {p} : finding'[q] = finding[q]
    BY <2>1, <2>2 DEF FindingsInv, FindingTypes
  <2>9. /\ fdPast' \in [by : [Prints -> SUBSET Scans], triage : Nat, base : [Prints -> Nat]]
        /\ fdPast'.by = b /\ fdPast'.triage = fdPast.triage /\ fdPast'.base = fdPast.base
    BY <2>1, <2>4 DEF FindingsInv, FindingTypes
  <2>10. /\ scan' \in [Scans -> Scan] /\ scan'[s] = r /\ \A t \in Scans \ {s} : scan'[t] = scan[t]
    BY <2>1, <2>7 DEF FindingsInv, FindingTypes
  <2>11. FindingTypes'
    BY <2>8, <2>9, <2>10 DEF FindingTypes
  <2>12. \A q \in Prints : finding[q].status # "none" => finding'[q].status = finding[q].status
    BY <2>2, <2>8
  <2>13. ASSUME NEW q \in Prints PROVE RowHolds(q)'
    <3>1. RowHolds(q)
      BY DEF FindingsInv
    <3>2. CASE q # p
      BY <2>4, <2>8, <2>9, <3>1, <3>2 DEF RowHolds
    <3>3. CASE q = p
      <4>1. IsFiniteSet(b[p]) /\ Cardinality(b[p]) = Cardinality(fdPast.by[p]) + 1
        <5>1. IsFiniteSet(fdPast.by[p])
          BY <3>1, <3>3 DEF RowHolds
        <5>2. /\ IsFiniteSet(fdPast.by[p] \cup {s})
              /\ Cardinality(fdPast.by[p] \cup {s})
                   = IF s \in fdPast.by[p] THEN Cardinality(fdPast.by[p]) ELSE Cardinality(fdPast.by[p]) + 1
          BY <5>1, FS_AddElement, Zenon
        <5> QED BY <1>3, <2>4, <5>2
      <4>2. Cardinality(fdPast.by[p]) \in Nat /\ fdPast.base[p] \in Nat /\ finding[p].seen \in Nat
            /\ finding[p].seen = fdPast.base[p] + Cardinality(fdPast.by[p])
        <5>1. IsFiniteSet(fdPast.by[p]) /\ finding[p].seen = fdPast.base[p] + Cardinality(fdPast.by[p])
          BY <3>1, <3>3 DEF RowHolds
        <5>2. fdPast.base[p] \in Nat /\ finding[p].seen \in Nat
          BY <1>4 DEF FindingsInv, FindingTypes, FindingRow
        <5> QED BY <5>1, <5>2, FS_CardinalityType
      <4>3. u.seen = fdPast.base[p] + Cardinality(b[p])
        BY <2>2, <4>1, <4>2
      <4> QED BY <2>2, <2>8, <2>9, <3>3, <4>1, <4>3 DEF RowHolds
    <3> QED BY <3>2, <3>3
  <2>14. ASSUME NEW t \in Scans \ {s} PROVE ScanHolds(t)'
    <3>1. \A q \in Prints : t \in fdPast'.by[q] <=> t \in fdPast.by[q]
      BY <2>4, <2>9
    <3>2. \A q \in Prints : t \in fdPast.by[q] => finding[q].status # "none"
      BY DEF FindingsInv, RowHolds
    <3> QED BY <2>9, <2>10, <2>11, <2>12, <3>1, <3>2, OtherScan DEF FindingsInv
  <2>15. /\ scan'[s].at = "hit" /\ scan'[s].hits = scan[s].hits /\ scan'[s].next = n /\ scan'[s].seen = scan[s].seen
         /\ scan'[s].gates = g
    BY <2>7, <2>10
  <2>16. \A j \in DOMAIN scan[s].hits : j \in Nat /\ (j < n <=> j <= scan[s].next) /\ (j < n => j < scan[s].next \/ j = scan[s].next)
    BY <1>1, <2>5 DEF Scan, n
  <2>17. Meets(s)'
    <3>1. n <= Len(scan[s].hits) + 1
      BY <1>1, <1>3, <2>5 DEF Scan, n
    <3>2. \A q \in Prints : s \in fdPast'.by[q] => q \in scan'[s].seen
      BY <1>1, <1>3, <2>4, <2>9, <2>15 DEF Meets
    <3>3. \A q \in scan'[s].gates : s \in fdPast'.by[q]
      BY <1>1, <2>4, <2>6, <2>9, <2>15 DEF Meets, Scan
    <3>4. \A q \in scan[s].seen : \E j \in DOMAIN scan[s].hits : j < n /\ scan[s].hits[j].print = q /\ scan[s].hits[j].counts
      BY <1>1, <2>16 DEF Meets
    <3>5. \A j \in DOMAIN scan[s].hits : j < n /\ scan[s].hits[j].counts => scan[s].hits[j].print \in scan[s].seen
      BY <1>1, <1>2, <1>3, <2>16 DEF Meets
    <3>6. \A q \in scan'[s].seen :
              \E j \in DOMAIN scan'[s].hits : j < scan'[s].next /\ scan'[s].hits[j].print = q /\ scan'[s].hits[j].counts
      BY <2>15, <3>4
    <3>7. \A j \in DOMAIN scan'[s].hits :
              j < scan'[s].next /\ scan'[s].hits[j].counts => scan'[s].hits[j].print \in scan'[s].seen
      BY <2>15, <3>5
    <3>8. scan'[s].next <= Len(scan'[s].hits) + 1
      BY <2>15, <3>1
    <3> QED BY <2>15, <3>2, <3>3, <3>6, <3>7, <3>8 DEF Meets
  <2>18. Judged(s)'
    <3>1. \A k \in DOMAIN scan[s].hits : Again(s, k)' <=> Again(s, k)
      BY <2>15 DEF Again
    <3>2. ASSUME NEW k \in DOMAIN scan[s].hits, k < n, scan[s].hits[k].counts, ~Again(s, k)
          PROVE  /\ s \in fdPast'.by[scan[s].hits[k].print]
                 /\ fdPast'.triage = 0 /\ scan[s].hits[k].inDiff =>
                        (FD!Gates(finding'[scan[s].hits[k].print].status) <=> scan[s].hits[k].print \in g)
      <4>1. CASE k = scan[s].next
        <5>1. scan[s].hits[k].print = p /\ s \in fdPast'.by[p]
          BY <1>2, <2>4, <2>9, <4>1
        <5>2. fdPast'.triage = 0 => finding'[p].status = st
          BY <2>3, <2>8, <2>9
        <5> QED BY <2>6, <4>1, <5>1, <5>2
      <4>2. CASE k < scan[s].next
        <5>1. scan[s].hits[k].print \in Prints \ {p}
          <6>1. scan[s].hits[k].print \in Prints
            <7>1. scan[s].hits \in Seq(FoundHit)
              BY <1>1 DEF Scan
            <7>2. scan[s].hits[k] \in FoundHit
              BY <7>1
            <7> QED BY <7>2 DEF FoundHit
          <6>2. scan[s].hits[k].print # p
            <7> SUFFICES ASSUME scan[s].hits[k].print = p PROVE Again(s, scan[s].next)
              BY <1>3
            <7> QED BY <1>2, <3>2, <4>2 DEF Again
          <6> QED BY <6>1, <6>2
        <5>2. /\ s \in fdPast.by[scan[s].hits[k].print]
              /\ fdPast.triage = 0 /\ scan[s].hits[k].inDiff =>
                     (FD!Gates(finding[scan[s].hits[k].print].status) <=> scan[s].hits[k].print \in scan[s].gates)
          BY <1>1, <3>2, <4>2 DEF Judged
        <5> QED BY <2>4, <2>6, <2>8, <2>9, <5>1, <5>2
      <4> QED BY <2>16, <3>2, <4>1, <4>2
    <3> QED BY <2>15, <3>1, <3>2 DEF Judged, FD!Gates
  <2>19. Writes(s)'
    BY <2>15 DEF Writes
  <2> QED BY <2>11, <2>12, <2>13, <2>14, <2>17, <2>18, <2>19 DEF FindingsInv, ScanHolds
<1> QED BY <1>5, <1>6

LEMMA FinishInv == ASSUME FindingsInv, NEW s \in Scans, FD!Finish(s) PROVE FindingsInv'
<1>1. /\ scan[s] \in Scan /\ finding' = finding /\ fdPast' = fdPast /\ scan[s].at = "hit" /\ scan[s].next > Len(scan[s].hits)
  BY DEF FD!Finish, FindingsInv, FindingTypes
<1>2. PICK at \in {"done", "error"} : scan' = [scan EXCEPT ![s].at = at]
  BY DEF FD!Finish
<1>3. /\ scan' \in [Scans -> Scan] /\ scan'[s] = [scan[s] EXCEPT !.at = at] /\ \A t \in Scans \ {s} : scan'[t] = scan[t]
  BY <1>1, <1>2 DEF FindingsInv, FindingTypes, Scan
<1>4. /\ scan'[s].at = at /\ scan'[s].hits = scan[s].hits /\ scan'[s].next = scan[s].next /\ scan'[s].seen = scan[s].seen
      /\ scan'[s].gates = scan[s].gates
  BY <1>1, <1>3 DEF Scan
<1>5. \A k \in DOMAIN scan[s].hits : Again(s, k)' <=> Again(s, k)
  BY <1>4 DEF Again
<1>6. Meets(s)' /\ Writes(s)'
  BY <1>1, <1>4 DEF Meets, Writes, FindingsInv, ScanHolds
<1>7. Judged(s)'
  BY <1>1, <1>4, <1>5 DEF Judged, FD!Gates, FindingsInv, ScanHolds
<1> QED BY <1>1, <1>3, <1>6, <1>7, ScanMoves DEF ScanHolds

LEMMA SetStatusInv == ASSUME FindingsInv, NEW p \in Prints, FD!SetStatus(p) PROVE FindingsInv' /\ fdPast'.triage # fdPast.triage
<1> DEFINE n == fdPast.triage + 1
<1>1. /\ scan' = scan /\ finding[p].status # "none" /\ fdPast' = [fdPast EXCEPT !.triage = n] /\ n \in Nat \ {0}
      /\ n # fdPast.triage
  <2>1. finding[p] \in FindingRow /\ fdPast.triage \in Nat
    BY DEF FindingsInv, FindingTypes
  <2> QED BY <2>1, RowOrNot DEF FD!SetStatus
<1>2. PICK st \in {"confirmed", "suppressed"} : finding' = [finding EXCEPT ![p].status = st]
  BY DEF FD!SetStatus
<1> HIDE DEF n
<1>3. /\ finding' \in [Prints -> FindingRow] /\ finding'[p].status = st /\ finding'[p].seen = finding[p].seen
      /\ \A q \in Prints \ {p} : finding'[q] = finding[q]
  BY <1>2 DEF FindingsInv, FindingTypes, FindingRow
<1>4. /\ fdPast' \in [by : [Prints -> SUBSET Scans], triage : Nat, base : [Prints -> Nat]]
      /\ fdPast'.by = fdPast.by /\ fdPast'.triage = n /\ fdPast'.base = fdPast.base
  BY <1>1 DEF FindingsInv, FindingTypes
<1>5. FindingTypes'
  BY <1>1, <1>3, <1>4 DEF FindingsInv, FindingTypes
<1>6. \A q \in Prints : RowHolds(q)'
  BY <1>3, <1>4 DEF FindingsInv, RowHolds
<1>7. ASSUME NEW s \in Scans PROVE ScanHolds(s)'
  <2>1. \A q \in Prints : s \in fdPast.by[q] => finding[q].status # "none"
    BY DEF FindingsInv, RowHolds
  <2> QED BY <1>1, <1>3, <1>4, <1>5, <2>1, OtherScan DEF FindingsInv
<1> QED BY <1>1, <1>4, <1>5, <1>6, <1>7 DEF FindingsInv

LEMMA FindingsNext ==
    ASSUME FindingsAssumption, FindingsInv, [FD!Next]_(FD!fdVars)
    PROVE  /\ FindingsInv'
           /\ \A p \in Prints : finding[p] # FD!NoRow /\ fdPast'.triage = fdPast.triage => finding'[p].status = finding[p].status
<1>1. CASE UNCHANGED FD!fdVars
  <2>1. finding' = finding /\ scan' = scan /\ fdPast' = fdPast
    BY <1>1 DEF FD!fdVars
  <2>2. FindingsInv'
    <3>1. FindingTypes'
      BY <2>1 DEF FindingsInv, FindingTypes
    <3>2. \A p \in Prints : RowHolds(p)'
      BY <2>1 DEF FindingsInv, RowHolds
    <3>3. ASSUME NEW s \in Scans PROVE Meets(s)' /\ Writes(s)' /\ Judged(s)'
      <4>1. Meets(s) /\ Writes(s) /\ Judged(s)
        BY DEF FindingsInv, ScanHolds
      <4>2. Meets(s)'
        BY <2>1, <4>1 DEF Meets
      <4>3. Writes(s)'
        BY <2>1, <4>1 DEF Writes, Again, FD!Hit
      <4>4. Judged(s)'
        BY <2>1, <4>1 DEF Judged, Again, FD!Gates
      <4> QED BY <4>2, <4>3, <4>4
    <3> QED BY <3>1, <3>2, <3>3 DEF FindingsInv, ScanHolds
  <2> QED BY <2>1, <2>2
<1>2. ASSUME NEW s \in Scans, FD!Record(s)
      PROVE  /\ FindingsInv'
             /\ \A p \in Prints : finding[p] # FD!NoRow /\ fdPast'.triage = fdPast.triage => finding'[p].status = finding[p].status
  BY <1>2, RecordHitInv, RowOrNot DEF FindingsInv, FindingTypes
<1>3. ASSUME NEW s \in Scans, FD!Start(s) \/ FD!DetectorFails(s) \/ FD!Skip(s) \/ FD!Look(s) \/ FD!Finish(s)
      PROVE  FindingsInv' /\ finding' = finding
  <2>1. FindingsInv'
    BY <1>3, ScanStartInv, ScanFailsInv, SkipInv, LookInv, FinishInv
  <2>2. finding' = finding
    BY <1>3 DEF FD!Start, FD!DetectorFails, FD!Skip, FD!Look, FD!Finish
  <2> QED BY <2>1, <2>2
<1>4. ASSUME NEW p \in Prints, FD!SetStatus(p) PROVE FindingsInv' /\ fdPast'.triage # fdPast.triage
  BY <1>4, SetStatusInv
<1> QED BY <1>1, <1>2, <1>3, <1>4 DEF FD!Next

(* Whatever scans race and fail while a human triages (bughunt's scan.go and  *)
(* store.go: UpsertFinding reads and writes apart): seen_count is the number  *)
(* of runs that recorded the finding, a scan gates on the open findings of    *)
(* the changed lines and on nothing else, and only a human changes what a     *)
(* human decided. For any sets of fingerprints, scans and reports.            *)
THEOREM FindingsStayTrue == ASSUME FindingsAssumption PROVE FD!Spec => FindingsAreKept
<1> DEFINE Decided == \A p \in Prints : finding[p] # FD!NoRow /\ fdPast'.triage = fdPast.triage
                                            => finding'[p].status = finding[p].status
<1>1. FD!Init => FindingsInv
  BY FindingsInit
<1>2. FindingsInv /\ [FD!Next]_(FD!fdVars) => FindingsInv' /\ [Decided]_(FD!fdVars)
  BY FindingsNext
<1>3. FindingsInv => FD!SeenOncePerRun
  BY Zenon DEF FindingsInv, RowHolds, FD!SeenOncePerRun, FD!Cardinality, Cardinality
<1>4. FindingsInv => FD!GateCatches
  <2> SUFFICES ASSUME FindingsInv, fdPast.triage = 0, NEW s \in Scans, scan[s].at = "done", NEW k \in DOMAIN scan[s].hits,
                      scan[s].hits[k].counts, scan[s].hits[k].inDiff, FD!First(s, k)
               PROVE  FD!Gates(finding[scan[s].hits[k].print].status) <=> scan[s].hits[k].print \in scan[s].gates
    BY DEF FD!GateCatches
  <2>1. scan[s] \in Scan /\ Meets(s) /\ Judged(s)
    BY DEF FindingsInv, FindingTypes, ScanHolds
  <2>2. \A j \in DOMAIN scan[s].hits : j < k => j \in 1..(k - 1)
    BY <2>1 DEF Scan
  <2>3. ~Again(s, k)
    BY <2>2 DEF Again, FD!First
  <2>4. k < scan[s].next
    BY <2>1 DEF Meets, Scan
  <2> QED BY <2>1, <2>3, <2>4 DEF Judged
<1> QED BY <1>1, <1>2, <1>3, <1>4, PTL DEF FD!Spec, FindingsAreKept, FD!FindingsAreKept, FD!DecisionKept

==============================================================================
