------------------------------ MODULE Planner ------------------------------
(***************************************************************************)
(* depmaint's upgrade planner (depmaint/internal/planner/planner.go and    *)
(* semver.go): for each tier in turn, grow a set of upgrades until every   *)
(* requirement holds with the target applied, repairing one violation at a *)
(* time by the smallest published bump.  One step of the model is one turn *)
(* of closure's loop.  The graph and the registry are chosen at the start. *)
(***************************************************************************)
EXTENDS Integers, FiniteSets, Sequences, SequencesExt

CONSTANTS Packages,     \* in the order sort.Strings gives them, roots included
          Roots,        \* packages with no incoming edge
          Target,       \* the package to move
          To,           \* and the version to move it to
          Current,      \* package -> its version in the graph
          Versions,     \* package -> its published versions, <<major, minor, patch>>
          Registries,   \* the registries a plan may be made against
          Requires(_, _, _) \* in a registry, of a package at a version: a
                        \* sequence of requirements

VARIABLES reg,          \* the registry of this plan
          tier,         \* maxTier of the closure: 0 patch, 1 minor, 2 major
          assigned,     \* package -> version
          moved,        \* the packages with a step
          plan          \* "searching", "feasible" or "infeasible"

plVars == <<reg, tier, assigned, moved, plan>>

Pkgs == ToSet(Packages)

Init ==
  /\ reg \in Registries
  /\ tier = 0
  /\ assigned = [Current EXCEPT ![Target] = To]
  /\ moved = {} /\ plan = "searching"

\* Version.Compare, as "is newer".
Newer(v, o) ==
  \/ v[1] > o[1]
  \/ v[1] = o[1] /\ v[2] > o[2]
  \/ v[1] = o[1] /\ v[2] = o[2] /\ v[3] > o[3]

\* TierOf.
TierOf(from, to) ==
  IF from[1] # to[1] THEN 2 ELSE IF from[2] # to[2] THEN 1 ELSE 0

\* clauseAccepts, for the operators "*", ">=", "<", "=", "~" and "^"; a
\* requirement is one clause.
Accepts(c, v) ==
  LET b == c.bound
      atLeast == v = b \/ Newer(v, b)
  IN CASE c.op = "*" -> TRUE
       [] c.op = ">=" -> atLeast
       [] c.op = "<" -> ~atLeast
       [] c.op = "=" -> v = b
       [] c.op = "~" -> atLeast /\ v[1] = b[1] /\ v[2] = b[2]
       [] OTHER -> CASE b[1] > 0 -> atLeast /\ v[1] = b[1]
                     [] b[1] = 0 /\ b[2] > 0 -> atLeast /\ v[1] = 0 /\ v[2] = b[2]
                     [] OTHER -> v = b

\* requirementsOf: the graph's edges while a package is untouched (what it
\* required when it was resolved), the registry's once it moves.
RequirementsOf(p, at) == Requires(reg, p, at[p])

\* What the target step rewrites is not held against the plan.
Counts(p, r) == ~(p \in Roots /\ r.dep = Target)

Violated(p, r, at) == Counts(p, r) /\ ~Accepts(r.clause, at[r.dep])

\* Mutant: what a step moved is not looked at again.
ViolationsUnmoved(at) ==
  UNION { LET needs == RequirementsOf(p, at)
          IN {<<p, k>> : k \in {j \in 1..Len(needs) : Violated(p, needs[j], at)}} : p \in Pkgs \ moved }

\* firstViolation: packages in order, requirements in order.
Violations(at) ==
  UNION { LET needs == RequirementsOf(p, at)
          IN {<<p, k>> : k \in {j \in 1..Len(needs) : Violated(p, needs[j], at)}} : p \in Pkgs }

Rank(p) == CHOOSE k \in 1..Len(Packages) : Packages[k] = p

FirstViolation(at) ==
  LET all == Violations(at)
  IN CHOOSE v \in all : \A u \in all :
       Rank(v[1]) < Rank(u[1]) \/ (v[1] = u[1] /\ v[2] <= u[2])

\* compatible: what the candidate requires of the target, and what the others
\* require of the candidate.
Compatible(p, v, at) ==
  /\ \A k \in 1..Len(Requires(reg, p, v)) : LET r == Requires(reg, p, v)[k] IN
       r.dep = Target => Accepts(r.clause, To)
  /\ \A q \in Pkgs : \A k \in 1..Len(RequirementsOf(q, at)) :
       LET r == RequirementsOf(q, at)[k] IN r.dep = p => Accepts(r.clause, v)

\* smallestFix: the candidates, and the lowest of them that fits.
Fixes(p, at, t) ==
  {v \in Versions[p] : Newer(v, at[p]) /\ TierOf(at[p], v) <= t /\ Compatible(p, v, at)}

\* Mutant: the lowest other version published, older ones included.
SmallestOther(p, at, t) ==
  LET other == Versions[p] \ {at[p]} IN CHOOSE v \in other : \A u \in other : ~Newer(v, u)

SmallestFix(p, at, t) ==
  LET fixes == Fixes(p, at, t) IN CHOOSE v \in fixes : \A u \in fixes : ~Newer(v, u)

\* The packages that may move for violation v, first choice first: the requirer,
\* unless it moved already.
Order(v) ==
  LET d == RequirementsOf(v[1], assigned)[v[2]].dep
      both == IF v[1] \in moved THEN <<d, v[1]>> ELSE <<v[1], d>>
  IN SelectSeq(both, LAMBDA q : q # Target /\ q \notin Roots /\ Fixes(q, assigned, tier) # {})

\* One turn of closure: nothing is violated, so the plan is feasible.
Done ==
  /\ plan = "searching" /\ Violations(assigned) = {}
  /\ plan' = "feasible"
  /\ UNCHANGED <<reg, tier, assigned, moved>>

\* Or the first violation is repaired.
Repair ==
  /\ plan = "searching" /\ Violations(assigned) # {}
  /\ LET order == Order(FirstViolation(assigned)) IN
       /\ order # <<>>
       /\ assigned' = [assigned EXCEPT ![Head(order)] = SmallestFix(Head(order), assigned, tier)]
       /\ moved' = moved \cup {Head(order)}
  /\ UNCHANGED <<reg, tier, plan>>

\* Or it cannot be, and Make starts again with the next tier, or gives up.
NextTier ==
  /\ plan = "searching" /\ Violations(assigned) # {}
  /\ Order(FirstViolation(assigned)) = <<>>
  /\ IF tier = 2
     THEN plan' = "infeasible" /\ UNCHANGED <<tier, assigned, moved>>
     ELSE /\ tier' = tier + 1
          /\ assigned' = [Current EXCEPT ![Target] = To]
          /\ moved' = {} /\ UNCHANGED plan
  /\ UNCHANGED reg

Next == Done \/ Repair \/ NextTier

(***************************************************************************)
(* Properties.                                                             *)
(***************************************************************************)

\* A feasible plan is one: with every step applied each requirement of every
\* package at its new version holds, the target is where it was asked to be, the
\* roots have not moved, and each step goes up by no more than the tier reported.
PlanIsSound ==
  plan = "feasible" =>
    /\ \A p \in Pkgs : \A k \in 1..Len(Requires(reg, p, assigned[p])) :
         LET r == Requires(reg, p, assigned[p])[k] IN
         Accepts(r.clause, assigned[r.dep]) \/ (p \in Roots /\ r.dep = Target)
    /\ assigned[Target] = To
    /\ \A p \in Pkgs \ {Target} : assigned[p] # Current[p] =>
         p \notin Roots /\ Newer(assigned[p], Current[p]) /\ TierOf(Current[p], assigned[p]) <= tier

\* Why closure's loop ends, whatever the packages require of each other: a turn
\* that neither ends the plan nor takes up the next tier moves some package up and
\* none down, and no repair takes back an earlier one.
RepairsClimb ==
  [][plan' = "searching" /\ tier' = tier =>
       /\ \E p \in Pkgs : Newer(assigned'[p], assigned[p])
       /\ \A p \in Pkgs : ~Newer(assigned[p], assigned'[p])]_plVars
=============================================================================
