----------------------------- MODULE Campaigns -----------------------------
(***************************************************************************)
(* depmaint's campaign engine (depmaint/internal/campaign/campaign.go and  *)
(* store.go): one campaign, the racing executors its work orders go to,    *)
(* and the processes that plan and record.  Every command is a process of  *)
(* its own: it reads the campaign, looks at the tree and asks registries,  *)
(* rewrites the whole row, and a record then appends to the attempt log;   *)
(* nothing spans these steps, so a command may write back a row that has   *)
(* changed since it read it.                                               *)
(* A plan is the number of steps ahead, found from the snapshot of the     *)
(* tree; its hash is the snapshot it was computed on.                      *)
(***************************************************************************)
EXTENDS Naturals, Sequences, FiniteSets

CONSTANTS Executors,
          Goal,          \* steps the tree needs
          MaxAttempts,   \* Budget.MaxAttempts
          MaxOrders,     \* bound: work orders handed out
          MaxCommands,   \* bound: plan commands, and next commands that find the budget spent
          MaxEvents      \* bound: times the tree moves otherwise or a process dies

VARIABLES tree,          \* the working tree: steps landed, and a revision
          snapshot,      \* the latest snapshot in the cache
          camp,          \* the campaign's row
          command,       \* a plan or a next that is under way
          attempts,      \* the attempt log
          exec,          \* Executors -> what each is doing
          caCount        \* history: orders, commands, moves and deaths, and whether a count was undone

caVars == <<tree, snapshot, camp, command, attempts, exec, caCount>>

NewRow == [status |-> "planned", spent |-> 0, completed |-> 0, plan |-> FALSE, snap |-> 0]
NoAttempt == [id |-> 0, step |-> 0, snap |-> 0, verdict |-> "none"]
NoGraph == [landed |-> 0, rev |-> 0]
NoCommand == [op |-> "none", row |-> NewRow, graph |-> NoGraph]
Free == [pc |-> "free", step |-> 0, from |-> 0, verdict |-> "none", row |-> NewRow, graph |-> NoGraph, att |-> NoAttempt]

\* After New: planned, with no plan.
Init ==
  /\ tree = NoGraph /\ snapshot = tree
  /\ camp = NewRow /\ command = NoCommand
  /\ attempts = <<>>
  /\ exec = [x \in Executors |-> Free]
  /\ caCount = [orders |-> 0, commands |-> 0, events |-> 0, undone |-> FALSE]

\* Mutant: the last step ahead counts as none.
ReplannedEarly(c, g) ==
  IF g.landed + 1 >= Goal
  THEN [c EXCEPT !.status = "succeeded", !.plan = FALSE, !.snap = g.rev]
  ELSE [c EXCEPT !.status = "running", !.plan = TRUE, !.snap = g.rev]

\* replan of row c on graph g: at the target the campaign has succeeded and has
\* no plan; otherwise it runs on a plan of that snapshot.
Replanned(c, g) ==
  IF g.landed >= Goal
  THEN [c EXCEPT !.status = "succeeded", !.plan = FALSE, !.snap = g.rev]
  ELSE [c EXCEPT !.status = "running", !.plan = TRUE, !.snap = g.rev]

\* `depmaint graph`: a new snapshot of the tree.
TakeSnapshot ==
  /\ snapshot # tree
  /\ snapshot' = tree
  /\ UNCHANGED <<tree, camp, command, attempts, exec, caCount>>

\* Store.save of a row read earlier: what was counted in between is undone.
Save(read, row) ==
  /\ camp' = row
  /\ caCount' = [caCount EXCEPT !.undone = @ \/ read.spent # camp.spent \/ read.completed # camp.completed]

\* A plan or a next starts: it reads the row.
Command(op) ==
  /\ command.op = "none" /\ caCount.commands < MaxCommands
  /\ command' = [NoCommand EXCEPT !.op = op, !.row = camp]
  /\ caCount' = [caCount EXCEPT !.commands = @ + 1]
  /\ UNCHANGED <<tree, snapshot, camp, attempts, exec>>

\* Engine.Plan reads the row,
PlanRead == Command("plan")

\* then the latest snapshot, and asks the registries what the plan needs;
PlanGraph ==
  /\ command.op = "plan"
  /\ command' = [command EXCEPT !.op = "save", !.graph = snapshot]
  /\ UNCHANGED <<tree, snapshot, camp, attempts, exec, caCount>>

\* and it rewrites the row.
PlanSave ==
  /\ command.op = "save"
  /\ Save(command.row, Replanned(command.row, command.graph))
  /\ command' = NoCommand
  /\ UNCHANGED <<tree, snapshot, attempts, exec>>

\* A plan fails on a registry, or the command dies.
CommandFails ==
  /\ command.op # "none"
  /\ command' = NoCommand
  /\ UNCHANGED <<tree, snapshot, camp, attempts, exec, caCount>>

\* Mutant: the budget counts as spent one attempt late.
BudgetSpentLate == camp.spent > MaxAttempts

BudgetSpent == camp.spent >= MaxAttempts

\* Engine.Next finds the budget spent in the row it reads, and rewrites the row.
NextRead ==
  /\ camp.status \notin {"succeeded", "exhausted"} /\ camp.plan /\ BudgetSpent
  /\ Command("exhaust")

Exhaust ==
  /\ command.op = "exhaust"
  /\ Save(command.row, [command.row EXCEPT !.status = "exhausted"])
  /\ command' = NoCommand
  /\ UNCHANGED <<tree, snapshot, attempts, exec>>

\* The live step was rejected on this plan and snapshot.
RejectedHere ==
  \E k \in 1..Len(attempts) : /\ attempts[k].verdict = "rejected"
                              /\ attempts[k].step = camp.completed + 1
                              /\ attempts[k].snap = camp.snap

\* Engine.Next: the live step's work order, to any executor that asks. It reads the
\* row, the log and the snapshot and writes nothing; the snapshot is the row's still.
Dispatch(x) ==
  /\ exec[x].pc = "free" /\ camp.plan /\ caCount.orders < MaxOrders
  /\ camp.status = "running" /\ ~BudgetSpent /\ ~RejectedHere
  /\ snapshot.rev = camp.snap
  /\ exec' = [exec EXCEPT ![x] = 
       [Free EXCEPT !.pc = "working", !.step = camp.completed + 1, !.from = snapshot.landed]]
  /\ caCount' = [caCount EXCEPT !.orders = @ + 1]
  /\ UNCHANGED <<tree, snapshot, camp, command, attempts>>

\* The executor ends: it landed its step (the first to do so moves the tree), or
\* rejects it, or failed.
Work(x) ==
  /\ exec[x].pc = "working"
  /\ \E v \in {"succeeded", "rejected", "failed"} :
       /\ exec' = [exec EXCEPT ![x].pc = "report", ![x].verdict = v]
       /\ tree' = IF v = "succeeded" /\ tree.landed = exec[x].from
                  THEN [landed |-> tree.landed + 1, rev |-> tree.rev + 1] ELSE tree
  /\ UNCHANGED <<snapshot, camp, command, attempts, caCount>>

\* Mutant: the log gets what the executor said, late or not.
AttemptAsTold(e, c) == [id |-> c.spent + 1, step |-> e.step, snap |-> c.snap, verdict |-> e.verdict]

\* Record's attempt on row c: its id is the count of attempts the row knows of; a
\* step that is no longer live is superseded.
AttemptOf(e, c) ==
  [id |-> c.spent + 1, step |-> e.step, snap |-> c.snap,
   verdict |-> IF e.step < c.completed + 1 THEN "superseded" ELSE e.verdict]

\* Record reads the campaign; without a plan there is nothing to record against,
\* and the report is refused, as is one of a step ahead.
RecordRead(x) ==
  LET a == AttemptOf(exec[x], camp)
  IN /\ exec[x].pc = "report"
     /\ exec' = [exec EXCEPT ![x] =
          IF camp.plan /\ exec[x].step <= camp.completed + 1
          THEN [Free EXCEPT !.pc = IF a.verdict = "succeeded" THEN "replan" ELSE "save",
                            !.row = camp, !.att = a]
          ELSE Free]
     /\ UNCHANGED <<tree, snapshot, camp, command, attempts, caCount>>

\* A live success takes a new snapshot of the tree to plan on.
RecordReplan(x) ==
  /\ exec[x].pc = "replan"
  /\ snapshot' = tree
  /\ exec' = [exec EXCEPT ![x].pc = "save", ![x].graph = tree]
  /\ UNCHANGED <<tree, camp, command, attempts, caCount>>

\* Record rewrites the row it read, planned anew after a success.
RecordSave(x) ==
  LET c == [exec[x].row EXCEPT !.spent = @ + 1]
  IN /\ exec[x].pc = "save"
     /\ Save(exec[x].row, IF exec[x].att.verdict = "succeeded"
                          THEN Replanned([c EXCEPT !.completed = @ + 1], exec[x].graph) ELSE c)
     /\ exec' = [exec EXCEPT ![x] = [Free EXCEPT !.pc = "append", !.att = exec[x].att]]
     /\ UNCHANGED <<tree, snapshot, command, attempts>>

\* Record appends the attempt; its id is the key of the table, so a second one
\* is refused and the command fails with the row already rewritten.
RecordAppend(x) ==
  /\ exec[x].pc = "append"
  /\ attempts' = IF \E k \in 1..Len(attempts) : attempts[k].id = exec[x].att.id
                 THEN attempts ELSE Append(attempts, exec[x].att)
  /\ exec' = [exec EXCEPT ![x] = Free]
  /\ UNCHANGED <<tree, snapshot, camp, command, caCount>>

\* The tree moves for another reason.
TreeMoves ==
  /\ caCount.events < MaxEvents
  /\ tree' = [tree EXCEPT !.rev = @ + 1]
  /\ caCount' = [caCount EXCEPT !.events = @ + 1]
  /\ UNCHANGED <<snapshot, camp, command, attempts, exec>>

\* An executor dies, or its command does or fails on a registry: the report is lost.
Crash(x) ==
  /\ caCount.events < MaxEvents /\ exec[x].pc # "free"
  /\ exec' = [exec EXCEPT ![x] = Free]
  /\ caCount' = [caCount EXCEPT !.events = @ + 1]
  /\ UNCHANGED <<tree, snapshot, camp, command, attempts>>

Recording(x) == RecordRead(x) \/ RecordReplan(x) \/ RecordSave(x) \/ RecordAppend(x)

Next ==
  \/ TakeSnapshot \/ TreeMoves
  \/ PlanRead \/ PlanGraph \/ PlanSave \/ NextRead \/ Exhaust \/ CommandFails
  \/ \E x \in Executors : Dispatch(x) \/ Work(x) \/ Recording(x) \/ Crash(x)

Spec == Init /\ [][Next]_caVars

(***************************************************************************)
(* Properties.                                                             *)
(***************************************************************************)

\* A step is landed once in the log, however many executors raced for its order,
\* die or report late.
StepOnce ==
  \A j, k \in 1..Len(attempts) :
    /\ attempts[j].verdict = "succeeded" /\ attempts[k].verdict = "succeeded"
    /\ attempts[j].step = attempts[k].step
    => j = k

\* The campaign never claims more than the tree has, though commands write back what
\* they read long ago: it counts a step complete only once some executor landed it,
\* and calls itself succeeded only with the package at its target.
ClaimsAreReal ==
  /\ camp.completed <= tree.landed
  /\ camp.status = "succeeded" => tree.landed >= Goal

\* The budget bounds the work: orders handed out after the budget is spent are
\* none, so what is recorded beyond it is at most what racing executors held.
BudgetBounds == camp.spent <= MaxAttempts + Cardinality(Executors) - 1

\* What the campaign says of itself is so. Each step lands once and the budget binds
\* until a command writes its row over one whose counts have moved since it read it:
\* nothing in the store prevents that, also with one record at a time, and then a
\* landed step is handed out and logged again.
CampaignIsTrue == ClaimsAreReal /\ (caCount.undone \/ (StepOnce /\ BudgetBounds))
=============================================================================
