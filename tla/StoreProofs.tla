----------------------------- MODULE StoreProofs -----------------------------
(* Proofs about what is counted and what is kept: the usage of the stations   *)
(* against the budgets, and the objects behind a submission.                  *)
EXTENDS Parts, Integers, Sequences, FiniteSets, FiniteSetsExt, FiniteSetTheorems, SequenceTheorems, WellFoundedInduction, TLAPS

(* The sum over a finite set. It is defined by a recursive function, which    *)
(* exists, and whose value does not depend on the order: each fact is shown   *)
(* on a smallest set that would contradict it.                                *)
Total(us) == MapThenSumSet(LAMBDA u : u.tokens, us)
Counted(S) == IsFiniteSet(S) /\ \A u \in S : u.tokens \in Nat

Pick(s) == CHOOSE x \in s : TRUE
IsSum(g, S) == g = [s \in SUBSET S |-> IF s = {} THEN 0 ELSE Pick(s).tokens + g[s \ {Pick(s)}]]

(* A set of finite sets has a smallest one.                                  *)
LEMMA Smallest ==
    ASSUME NEW S, IsFiniteSet(S), NEW F \in SUBSET (SUBSET S), F # {}
    PROVE  \E T \in F : \A U \in F : U \subseteq T => U = T
<1>1. IsWellFoundedOn(StrictSubsetOrdering(S), SUBSET S)
  BY FS_StrictSubsetOrderingWellFounded, FS_FiniteSubsetsOfFinite
<1>2. PICK T \in F : \A U \in F : <<U, T>> \notin StrictSubsetOrdering(S)
  BY <1>1, WFMin
<1>3. \A U \in F : U \subseteq T => U = T
  BY <1>2 DEF StrictSubsetOrdering
<1> QED BY <1>3

LEMMA Picked == \A s : s # {} => Pick(s) \in s
BY DEF Pick

LEMMA SumStep ==
    ASSUME NEW S, NEW g, IsSum(g, S), NEW s \in SUBSET S
    PROVE  g[s] = IF s = {} THEN 0 ELSE Pick(s).tokens + g[s \ {Pick(s)}]
<1> DEFINE body(t) == IF t = {} THEN 0 ELSE Pick(t).tokens + g[t \ {Pick(t)}]
<1>1. g = [t \in SUBSET S |-> body(t)]
  BY DEF IsSum
<1> HIDE DEF body
<1>2. g[s] = body(s)
  BY <1>1
<1> QED BY <1>2 DEF body

LEMMA SumsAgree ==
    ASSUME NEW S, NEW T, IsFiniteSet(S), NEW g, NEW h, IsSum(g, S), IsSum(h, T), NEW s \in SUBSET S, s \subseteq T
    PROVE  g[s] = h[s]
<1> DEFINE F == {t \in SUBSET S : t \subseteq T /\ g[t] # h[t]}
<1> SUFFICES ASSUME F # {} PROVE FALSE
  OBVIOUS
<1>1. PICK t \in F : \A U \in F : U \subseteq t => U = t
  <2>1. F \in SUBSET (SUBSET S)
    OBVIOUS
  <2> HIDE DEF F
  <2> QED BY <2>1, Smallest
<1>2. t \in SUBSET S /\ t \in SUBSET T /\ g[t] # h[t]
  BY <1>1
<1>3. CASE t = {}
  BY <1>2, <1>3, SumStep
<1>4. CASE t # {}
  <2>1. Pick(t) \in t
    BY <1>4, Picked
  <2>2. t \ {Pick(t)} \notin F
    BY <1>1, <2>1
  <2>3. g[t \ {Pick(t)}] = h[t \ {Pick(t)}]
    BY <1>2, <2>2
  <2>4. g[t] = Pick(t).tokens + g[t \ {Pick(t)}] /\ h[t] = Pick(t).tokens + h[t \ {Pick(t)}]
    BY <1>2, <1>4, SumStep
  <2> QED BY <1>2, <2>3, <2>4
<1> QED BY <1>3, <1>4

LEMMA SumExists ==
    ASSUME NEW S, IsFiniteSet(S)
    PROVE  \E g : IsSum(g, S)
<1> DEFINE F == {T \in SUBSET S : ~ \E g : IsSum(g, T)}
<1> SUFFICES ASSUME F # {} PROVE FALSE
  OBVIOUS
<1>1. PICK T \in F : \A U \in F : U \subseteq T => U = T
  <2>1. F \in SUBSET (SUBSET S)
    OBVIOUS
  <2> HIDE DEF F
  <2> QED BY <2>1, Smallest
<1> DEFINE H(U) == CHOOSE g : IsSum(g, U)
           r(s) == H(s \ {Pick(s)})[s \ {Pick(s)}]
           g == [s \in SUBSET T |-> IF s = {} THEN 0 ELSE Pick(s).tokens + r(s)]
<1>2. \A U \in SUBSET T : U # T => IsFiniteSet(U) /\ IsSum(H(U), U)
  <2> SUFFICES ASSUME NEW U \in SUBSET T, U # T PROVE IsFiniteSet(U) /\ IsSum(H(U), U)
    OBVIOUS
  <2>1. IsFiniteSet(U)
    BY <1>1, FS_Subset
  <2>2. \E f : IsSum(f, U)
    BY <1>1
  <2>3. IsSum(H(U), U)
    BY <2>2, Zenon
  <2> QED BY <2>1, <2>3
<1> HIDE DEF F, H
<1>3. ASSUME NEW s \in SUBSET T, s # {} PROVE r(s) = g[s \ {Pick(s)}]
  <2> DEFINE p == s \ {Pick(s)}
  <2>1. p \in SUBSET T /\ p # T
    BY <1>3, Picked
  <2>2. IsSum(H(p), p) /\ IsFiniteSet(p)
    BY <1>2, <2>1
  <2>3. H(p)[p] = IF p = {} THEN 0 ELSE Pick(p).tokens + H(p)[p \ {Pick(p)}]
    <3> HIDE DEF p
    <3>1. \A f, s1 : IsSum(f, p) /\ s1 \in SUBSET p => f[s1] = IF s1 = {} THEN 0 ELSE Pick(s1).tokens + f[s1 \ {Pick(s1)}]
      BY SumStep
    <3> QED BY <2>2, <3>1
  <2>4. ASSUME p # {} PROVE H(p)[p \ {Pick(p)}] = r(p)
    <3> DEFINE q == p \ {Pick(p)}
    <3>1. q \in SUBSET T /\ q # T /\ q \in SUBSET p
      BY <2>1, <2>4, Picked
    <3>2. IsSum(H(q), q)
      BY <1>2, <3>1
    <3>3. H(p)[q] = H(q)[q]
      BY <2>2, <3>1, <3>2, SumsAgree
    <3> QED BY <3>3
  <2>5. g[p] = IF p = {} THEN 0 ELSE Pick(p).tokens + r(p)
    BY <2>1
  <2> QED BY <2>3, <2>4, <2>5
<1>4. g = [s \in SUBSET T |-> IF s = {} THEN 0 ELSE Pick(s).tokens + g[s \ {Pick(s)}]]
  <2>1. \A s \in SUBSET T : g[s] = IF s = {} THEN 0 ELSE Pick(s).tokens + g[s \ {Pick(s)}]
    <3> SUFFICES ASSUME NEW s \in SUBSET T PROVE g[s] = IF s = {} THEN 0 ELSE Pick(s).tokens + g[s \ {Pick(s)}]
      OBVIOUS
    <3>1. g[s] = IF s = {} THEN 0 ELSE Pick(s).tokens + r(s)
      OBVIOUS
    <3> HIDE DEF g, r
    <3> QED BY <1>3, <3>1
  <2>2. g = [s \in SUBSET T |-> g[s]]
    OBVIOUS
  <2> HIDE DEF g
  <2> QED BY <2>1, <2>2
<1>5. IsSum(g, T)
  <2> HIDE DEF g
  <2> QED BY <1>4 DEF IsSum
<1> QED BY <1>1, <1>5 DEF F

LEMMA TotalIsSum ==
    ASSUME NEW S, IsFiniteSet(S)
    PROVE  \E g : IsSum(g, S) /\ Total(S) = g[S]
<1> DEFINE g == CHOOSE g : IsSum(g, S)
<1>1. IsSum(g, S)
  BY SumExists, Zenon
<1>2. Total(S) = g[S]
  BY Zenon DEF Total, MapThenSumSet, MapThenFoldSet, IsSum, Pick
<1> QED BY <1>1, <1>2

LEMMA TotalStep ==
    ASSUME NEW S, IsFiniteSet(S)
    PROVE  Total(S) = IF S = {} THEN 0 ELSE Pick(S).tokens + Total(S \ {Pick(S)})
<1>1. PICK g : IsSum(g, S) /\ Total(S) = g[S]
  BY TotalIsSum
<1>2. CASE S = {}
  BY <1>1, <1>2, SumStep
<1>3. CASE S # {}
  <2> DEFINE p == S \ {Pick(S)}
  <2>1. IsFiniteSet(p) /\ p \in SUBSET S /\ p \subseteq p
    BY FS_Subset
  <2>2. PICK h : IsSum(h, p) /\ Total(p) = h[p]
    BY <2>1, TotalIsSum
  <2>3. g[p] = h[p]
    <3> HIDE DEF p
    <3> QED BY <1>1, <2>1, <2>2, SumsAgree
  <2>4. g[S] = Pick(S).tokens + g[p]
    BY <1>1, <1>3, SumStep
  <2> QED BY <1>1, <1>3, <2>2, <2>3, <2>4
<1> QED BY <1>2, <1>3

LEMMA TotalType ==
    ASSUME NEW S, Counted(S)
    PROVE  Total(S) \in Nat
<1> DEFINE F == {T \in SUBSET S : Total(T) \notin Nat}
<1> SUFFICES ASSUME F # {} PROVE FALSE
  OBVIOUS
<1>1. PICK T \in F : \A U \in F : U \subseteq T => U = T
  <2>1. F \in SUBSET (SUBSET S) /\ IsFiniteSet(S)
    BY DEF Counted
  <2> HIDE DEF F
  <2> QED BY <2>1, Smallest
<1>2. IsFiniteSet(T) /\ T \in SUBSET S
  BY <1>1, FS_Subset DEF Counted
<1>3. T # {}
  <2>1. CASE T = {}
    <3>1. Total(T) = 0
      BY <1>2, <2>1, TotalStep
    <3> QED BY <1>1, <3>1
  <2> QED BY <2>1
<1>4. Pick(T) \in T /\ Pick(T).tokens \in Nat
  BY <1>2, <1>3, Picked DEF Counted
<1>5. T \ {Pick(T)} \notin F
  BY <1>1, <1>4
<1>6. Total(T \ {Pick(T)}) \in Nat
  BY <1>2, <1>5
<1>7. Total(T) = Pick(T).tokens + Total(T \ {Pick(T)})
  BY <1>2, <1>3, TotalStep
<1> QED BY <1>1, <1>4, <1>6, <1>7

(* One more report adds its tokens, whichever element the sum begins with. *)
LEMMA TotalAdds ==
    ASSUME NEW S, Counted(S), NEW a, a.tokens \in Nat, a \notin S
    PROVE  Total(S \cup {a}) = Total(S) + a.tokens
<1> DEFINE F == {T \in SUBSET S : \E x : x.tokens \in Nat /\ x \notin T /\ Total(T \cup {x}) # Total(T) + x.tokens}
<1> SUFFICES ASSUME F # {} PROVE FALSE
  BY DEF F
<1>1. PICK T \in F : \A U \in F : U \subseteq T => U = T
  <2>1. F \in SUBSET (SUBSET S) /\ IsFiniteSet(S)
    BY DEF Counted
  <2> HIDE DEF F
  <2> QED BY <2>1, Smallest
<1>2. PICK x : x.tokens \in Nat /\ x \notin T /\ Total(T \cup {x}) # Total(T) + x.tokens
  BY <1>1
<1>3. Counted(T) /\ Counted(T \cup {x})
  BY <1>1, <1>2, FS_Subset, FS_AddElement DEF Counted
<1> DEFINE V == T \cup {x}
           y == Pick(V)
<1>4. y \in V
  BY Picked
<1>5. Total(V) = y.tokens + Total(V \ {y})
  BY <1>3, TotalStep DEF Counted
<1>6. CASE y = x
  <2>1. V \ {y} = T
    BY <1>2, <1>6
  <2>2. Total(T) \in Nat
    BY <1>3, TotalType
  <2>3. Total(V) # Total(T) + x.tokens
    BY <1>2
  <2> HIDE DEF V, y
  <2>4. Total(V) = x.tokens + Total(T)
    BY <1>5, <1>6, <2>1
  <2> QED BY <1>2, <2>2, <2>3, <2>4
<1>7. CASE y # x
  <2> DEFINE R == T \ {y}
  <2>1. y \in T /\ V \ {y} = R \cup {x} /\ T = R \cup {y} /\ x \notin R /\ y \notin R /\ R # T /\ R \in SUBSET S
    BY <1>1, <1>2, <1>4, <1>7
  <2>2. y.tokens \in Nat
    BY <1>3, <2>1 DEF Counted
  <2>3. R \notin F
    BY <1>1, <2>1
  <2> HIDE DEF R, V, y
  <2>4. Total(R \cup {x}) = Total(R) + x.tokens /\ Total(R \cup {y}) = Total(R) + y.tokens
    BY <1>2, <2>1, <2>2, <2>3
  <2>5. Total(R) \in Nat
    <3>1. Counted(R)
      BY <1>3, <2>1, FS_Subset DEF Counted
    <3> QED BY <3>1, TotalType
  <2>6. Total(V) = y.tokens + (Total(R) + x.tokens) /\ Total(T) = Total(R) + y.tokens
    BY <1>5, <2>1, <2>4
  <2>7. Total(V) # Total(T) + x.tokens
    BY <1>2 DEF V
  <2> QED BY <1>2, <2>2, <2>5, <2>6, <2>7
<1> QED BY <1>6, <1>7

LEMMA TotalGrows ==
    ASSUME NEW S, Counted(S), NEW A \in SUBSET S
    PROVE  Total(A) <= Total(S)
<1> DEFINE F == {T \in SUBSET S : A \subseteq T /\ ~(Total(A) <= Total(T))}
<1> SUFFICES ASSUME F # {} PROVE FALSE
  OBVIOUS
<1>1. PICK T \in F : \A U \in F : U \subseteq T => U = T
  <2>1. F \in SUBSET (SUBSET S) /\ IsFiniteSet(S)
    BY DEF Counted
  <2> HIDE DEF F
  <2> QED BY <2>1, Smallest
<1>2. Counted(T) /\ Counted(A)
  BY <1>1, FS_Subset DEF Counted
<1>3. Total(A) \in Nat /\ Total(T) \in Nat
  BY <1>2, TotalType
<1>4. PICK x \in T : x \notin A
  <2>1. T # A
    <3>1. ~(Total(A) <= Total(T))
      BY <1>1
    <3> HIDE DEF F
    <3> QED BY <1>3, <3>1
  <2> QED BY <1>1, <2>1
<1> DEFINE R == T \ {x}
<1>5. T = R \cup {x} /\ x \notin R /\ x.tokens \in Nat /\ A \subseteq R /\ R \in SUBSET S
  BY <1>1, <1>2, <1>4 DEF Counted
<1>6. R \notin F
  BY <1>1, <1>4
<1>7. Total(A) <= Total(R)
  BY <1>5, <1>6
<1>8. Counted(R)
  BY <1>2, FS_Subset DEF Counted
<1> HIDE DEF R, F
<1>9. Total(T) = Total(R) + x.tokens /\ Total(R) \in Nat
  BY <1>5, <1>8, TotalAdds, TotalType
<1>10. ~(Total(A) <= Total(T))
  BY <1>1 DEF F
<1> QED BY <1>3, <1>5, <1>7, <1>9, <1>10

(* The same sum, as Budgets writes it.                                        *)
LEMMA UsedIsTotal ==
    ASSUME NEW k, NEW us, NEW t
    PROVE  BU!Used(k, us, t) = Total({u \in us : u.at >= t - k[1].period /\ BU!Counts(k[1], k[2], u)})
BY Zenon DEF BU!Used, Total, MapThenSumSet, MapThenFoldSet, BU!MapThenSumSet, BU!MapThenFoldSet

------------------------------------------------------------------------------
(* Budgets. The reports of a window, and what they sum to.                    *)

Window(k, us, t) == {u \in us : u.at >= t - k[1].period /\ BU!Counts(k[1], k[2], u)}
Recorded(us) == IsFiniteSet(us) /\ \A u \in us : u.at \in Nat /\ u.tokens \in Nat
MaxAmount == Max(Amounts)

LEMMA BudgetFacts ==
    /\ \A b \in Budget : b.tokens \in Nat /\ b.period \in Nat
    /\ IsFiniteSet(Spenders) /\ Spenders \cap Others = {}
    /\ IsFiniteSet(Amounts) /\ Amounts # {} /\ Amounts \subseteq Nat
<1>1. \A S : BU!IsFiniteSet(S) = IsFiniteSet(S)
  BY Zenon DEF BU!IsFiniteSet, IsFiniteSet
<1>2. BU!BudgetsAssumption
  BY StoreAssumption
<1> QED BY <1>1, <1>2 DEF BU!BudgetsAssumption

(* Every amount is at most the largest one.                                   *)
LEMMA LargestAmount ==
    /\ MaxAmount \in Nat
    /\ \A n \in Amounts : n <= MaxAmount
<1> DEFINE F == {T \in SUBSET Amounts : T # {} /\ \E n \in T : \A m \in Amounts \ T : m <= n}
<1>1. IsFiniteSet(Amounts) /\ Amounts # {} /\ Amounts \subseteq Nat
  BY BudgetFacts
<1>2. F \in SUBSET (SUBSET Amounts) /\ Amounts \in F
  BY <1>1
<1>3. PICK T \in F : \A U \in F : U \subseteq T => U = T
  <2>1. F # {} /\ IsFiniteSet(Amounts)
    BY <1>1, <1>2
  <2> HIDE DEF F
  <2> QED BY <1>2, <2>1, Smallest
<1>4. PICK n \in T : \A m \in Amounts \ T : m <= n
  BY <1>3
<1>5. ASSUME NEW m \in T, m # n PROVE m <= n
  <2>1. T \ {n} \in SUBSET Amounts /\ T \ {n} # {} /\ n \notin T \ {n} /\ m \in T \ {n} /\ n \in T
    BY <1>3, <1>4, <1>5
  <2>2. T \ {n} \notin F
    BY <1>3, <2>1
  <2>3. PICK l \in Amounts \ (T \ {n}) : ~(l <= m)
    BY <2>1, <2>2
  <2>4. l = n \/ l <= n
    BY <1>4, <2>3
  <2> QED BY <1>1, <1>3, <1>4, <1>5, <2>3, <2>4
<1>6. n \in Amounts /\ \A m \in Amounts : m <= n
  BY <1>1, <1>3, <1>4, <1>5
<1>7. MaxAmount \in Amounts /\ \A m \in Amounts : m <= MaxAmount
  BY <1>1, <1>6 DEF MaxAmount, Max
<1> QED BY <1>1, <1>7

LEMMA WindowCounts ==
    ASSUME NEW k \in BU!Keys, NEW us, Recorded(us), NEW t \in Int
    PROVE  /\ Counted(Window(k, us, t))
           /\ BU!Used(k, us, t) = Total(Window(k, us, t)) /\ BU!Used(k, us, t) \in Nat
<1>1. Window(k, us, t) \in SUBSET us
  BY DEF Window
<1>2. Counted(Window(k, us, t))
  BY <1>1, FS_Subset DEF Counted, Recorded
<1>3. BU!Used(k, us, t) = Total(Window(k, us, t))
  BY UsedIsTotal DEF Window
<1> QED BY <1>2, <1>3, TotalType

LEMMA KeyFacts ==
    ASSUME NEW k \in BU!Keys
    PROVE  k[1] \in Budget /\ k[1].tokens \in Nat /\ k[1].period \in Nat
BY BudgetFacts DEF BU!Keys

(* Time takes reports out of a window and brings none in.                     *)
LEMMA WindowSlides ==
    ASSUME NEW k \in BU!Keys, NEW us, Recorded(us), NEW t \in Nat, NEW t1 \in Nat, t <= t1
    PROVE  BU!Used(k, us, t1) <= BU!Used(k, us, t)
<1>1. Window(k, us, t1) \in SUBSET Window(k, us, t)
  BY KeyFacts DEF Window, Recorded
<1>2. t \in Int /\ t1 \in Int
  OBVIOUS
<1> QED BY <1>1, <1>2, WindowCounts, TotalGrows

(* A report adds at most its tokens, and nothing to a budget it is not of.    *)
LEMMA WindowAdds ==
    ASSUME NEW k \in BU!Keys, NEW us, Recorded(us), NEW t \in Nat,
           NEW rec, rec.at \in Nat, rec.tokens \in Nat
    PROVE  /\ Recorded(us \cup {rec})
           /\ BU!Used(k, us \cup {rec}, t) <= BU!Used(k, us, t) + rec.tokens
           /\ ~BU!Counts(k[1], k[2], rec) => BU!Used(k, us \cup {rec}, t) = BU!Used(k, us, t)
<1> DEFINE A == Window(k, us, t)
           B == Window(k, us \cup {rec}, t)
<1>1. Recorded(us \cup {rec})
  BY FS_AddElement DEF Recorded
<1>2. t \in Int
  OBVIOUS
<1>3. Counted(A) /\ Total(A) \in Nat /\ BU!Used(k, us, t) = Total(A) /\ BU!Used(k, us \cup {rec}, t) = Total(B)
  BY <1>1, <1>2, WindowCounts
<1>4. B = A \/ (rec \notin A /\ B = A \cup {rec} /\ BU!Counts(k[1], k[2], rec))
  BY DEF Window
<1> HIDE DEF A, B
<1>5. B = A \cup {rec} /\ rec \notin A => Total(B) = Total(A) + rec.tokens
  BY <1>3, TotalAdds
<1>6. Total(B) <= Total(A) + rec.tokens
  BY <1>3, <1>4, <1>5
<1>7. ~BU!Counts(k[1], k[2], rec) => Total(B) = Total(A)
  BY <1>4
<1> QED BY <1>1, <1>3, <1>6, <1>7

------------------------------------------------------------------------------
(* The inductive invariant of the budgets.                                    *)

Station == Spenders \cup Others
Report == [id : Nat, at : Nat, role : {"maker", "kaizen"}, card : WorkCards, tokens : Amounts]
Call == [at : {"waits"}, u : Report] \cup [at : {"locked"}, u : Report, seen : SUBSET Report] \cup {BU!Done}
RunState == {BU!Out} \cup [at : {"run"}, card : WorkCards] \cup [at : {"reports"}, call : Nat]
Rests == {s \in Spenders : run[s].at = "out"}
Paid == {c \in btPast.orphans : calls[c].at = "done"}

UsageTypeOK ==
    /\ now \in Nat /\ IsFiniteSet(usage) /\ usage \in SUBSET Report
    /\ calls \in Seq(Call) /\ run \in [Station -> RunState]
    /\ btPast \in [told : SUBSET BU!Keys, lost : SUBSET BU!Keys, aged : SUBSET BU!Keys,
                   twice : BOOLEAN, orphans : SUBSET DOMAIN calls]

(* Under the mutex nothing is recorded but by its holder; a report's clock    *)
(* was read before it waited.                                                 *)
MeteredAlone ==
    /\ \A c \in DOMAIN calls : calls[c].at = "locked" => calls[c].seen = usage
    /\ \A c, d \in DOMAIN calls : calls[c].at = "locked" /\ calls[d].at = "locked" => c = d
    /\ \A c \in DOMAIN calls : calls[c].at # "done" => calls[c].u.at <= now

(* A maker's report in the server is waited for, or an orphan.                *)
Reported ==
    \A c \in DOMAIN calls : calls[c].at # "done" /\ calls[c].u.role = "maker" =>
        c \in btPast.orphans \/ \E s \in Spenders : run[s] = [at |-> "reports", call |-> c]

(* A maker's budget can be filled once, and overrun by a report of each maker *)
(* that is out on a run it was cleared for, and by the orphans still in the   *)
(* server: whoever rests has none left, nor has an orphan that is recorded.   *)
ClearedOnly ==
    \A k \in BU!Keys : k[1].scope = "maker" =>
        BU!Used(k, usage, now) < k[1].tokens + (Cardinality(Rests) + Cardinality(Paid)) * MaxAmount

NoticesOfFull == btPast.told \cup btPast.lost \subseteq BU!Full

BudgetInv ==
    /\ UsageTypeOK /\ MeteredAlone /\ Reported /\ ClearedOnly /\ NoticesOfFull
    /\ BU!ExhaustionAnnounced

LEMMA RecordedIs ==
    /\ UsageTypeOK => Recorded(usage) /\ now \in Int
    /\ \A us : IsFiniteSet(us) /\ us \in SUBSET Report => Recorded(us)
<1>1. ASSUME NEW us, IsFiniteSet(us), us \in SUBSET Report PROVE Recorded(us)
  <2>1. \A u \in us : u.at \in Nat /\ u.tokens \in Amounts
    BY <1>1 DEF Report
  <2> QED BY <1>1, <2>1, BudgetFacts DEF Recorded
<1>2. UsageTypeOK => Recorded(usage) /\ now \in Int
  BY <1>1 DEF UsageTypeOK
<1> QED BY <1>1, <1>2

LEMMA FullIs ==
    /\ BU!Full = {k \in BU!Keys : BU!Used(k, usage, now) >= k[1].tokens}
    /\ BU!Full' = {k \in BU!Keys : BU!Used(k, usage', now') >= k[1].tokens}
BY DEF BU!Full, BU!Statuses, BU!budgetStatuses

LEMMA CountTimes ==
    ASSUME NEW c \in Nat, NEW m \in Nat
    PROVE  c * m \in Nat /\ (c + 1) * m = c * m + m
OBVIOUS

LEMMA TimesGrows ==
    ASSUME NEW c \in Nat, NEW d \in Nat, c <= d, NEW m \in Nat
    PROVE  c * m <= d * m /\ c * m \in Nat /\ d * m \in Nat
<1>1. c * m \in Nat /\ d * m \in Nat /\ (d - c) * m \in Nat
  BY CountTimes
<1>2. d * m = c * m + (d - c) * m
  OBVIOUS
<1> QED BY <1>1, <1>2

(* What the slack grows by, a budget may be overrun by in reports.            *)
LEMMA StillWithin ==
    ASSUME NEW t \in Nat, NEW b \in Nat, NEW a \in Nat, NEW m \in Nat, NEW c \in Nat, NEW d \in Nat,
           b < t + c * m,
           \/ a <= b /\ c <= d
           \/ a <= b + m /\ c + 1 <= d
           \/ a < t
    PROVE  a < t + d * m
<1>1. d * m \in Nat /\ c * m \in Nat /\ (c + 1) * m = c * m + m
  BY CountTimes
<1>2. CASE a <= b /\ c <= d
  <2>1. c * m <= d * m
    BY <1>2, TimesGrows
  <2> DEFINE x == c * m
             y == d * m
  <2> HIDE DEF x, y
  <2>2. x \in Nat /\ y \in Nat /\ x <= y /\ b < t + x
    BY <1>1, <2>1 DEF x, y
  <2>3. a < t + y
    BY <1>2, <2>2
  <2> QED BY <2>3 DEF y
<1>3. CASE a <= b + m /\ c + 1 <= d
  <2>1. c + 1 \in Nat
    OBVIOUS
  <2>2. (c + 1) * m <= d * m
    BY <1>3, <2>1, TimesGrows
  <2> DEFINE x == c * m
             y == d * m
  <2> HIDE DEF x, y
  <2>3. x \in Nat /\ y \in Nat /\ x + m <= y /\ b < t + x
    BY <1>1, <2>2 DEF x, y
  <2>4. a < t + y
    BY <1>3, <2>3
  <2> QED BY <2>4 DEF y
<1>4. CASE a < t
  <2> DEFINE y == d * m
  <2> HIDE DEF y
  <2>1. y \in Nat
    BY <1>1 DEF y
  <2>2. a < t + y
    BY <1>4, <2>1
  <2> QED BY <2>2 DEF y
<1> QED BY <1>2, <1>3, <1>4

LEMMA SlackFacts ==
    ASSUME UsageTypeOK
    PROVE  /\ IsFiniteSet(Rests) /\ Cardinality(Rests) \in Nat
           /\ IsFiniteSet(Paid) /\ Cardinality(Paid) \in Nat
           /\ IsFiniteSet(btPast.orphans)
<1>1. IsFiniteSet(Rests)
  BY BudgetFacts, FS_Subset DEF Rests
<1>2. DOMAIN calls = 1..Len(calls) /\ Len(calls) \in Nat
  BY DEF UsageTypeOK
<1>3. IsFiniteSet(btPast.orphans) /\ Paid \in SUBSET btPast.orphans
  <2>1. IsFiniteSet(1..Len(calls))
    BY <1>2, FS_Interval
  <2> QED BY <1>2, <2>1, FS_Subset DEF UsageTypeOK, Paid
<1>4. IsFiniteSet(Paid)
  BY <1>3, FS_Subset
<1> QED BY <1>1, <1>3, <1>4, FS_CardinalityType

LEMMA SlackNext ==
    ASSUME UsageTypeOK'
    PROVE  /\ IsFiniteSet(Rests') /\ Cardinality(Rests') \in Nat
           /\ IsFiniteSet(Paid') /\ Cardinality(Paid') \in Nat
<1>1. IsFiniteSet(Rests')
  BY BudgetFacts, FS_Subset DEF Rests
<1>2. DOMAIN calls' = 1..Len(calls') /\ Len(calls') \in Nat /\ Paid' \in SUBSET DOMAIN calls'
  BY DEF UsageTypeOK, Paid
<1>3. IsFiniteSet(Paid')
  <2>1. IsFiniteSet(1..Len(calls'))
    BY <1>2, FS_Interval
  <2> QED BY <1>2, <2>1, FS_Subset
<1> QED BY <1>1, <1>3, FS_CardinalityType

(* The slack never shrinks while nobody claims; it grows with a station that  *)
(* comes to rest and with an orphan whose call is done.                       *)
LEMMA SlackGrows ==
    ASSUME UsageTypeOK, UsageTypeOK', Rests \subseteq Rests', Paid \subseteq Paid'
    PROVE  /\ Cardinality(Rests) + Cardinality(Paid) <= Cardinality(Rests') + Cardinality(Paid')
           /\ \A s \in Rests' \ Rests : Cardinality(Rests) + Cardinality(Paid) + 1 <= Cardinality(Rests') + Cardinality(Paid')
           /\ \A c \in Paid' \ Paid : Cardinality(Rests) + Cardinality(Paid) + 1 <= Cardinality(Rests') + Cardinality(Paid')
<1>1. /\ IsFiniteSet(Rests) /\ Cardinality(Rests) \in Nat /\ IsFiniteSet(Paid) /\ Cardinality(Paid) \in Nat
  BY SlackFacts
<1>2. /\ IsFiniteSet(Rests') /\ Cardinality(Rests') \in Nat /\ IsFiniteSet(Paid') /\ Cardinality(Paid') \in Nat
  BY SlackNext
<1>3. Cardinality(Rests) <= Cardinality(Rests') /\ Cardinality(Paid) <= Cardinality(Paid')
  BY <1>2, FS_Subset
<1>4. ASSUME NEW s \in Rests' \ Rests PROVE Cardinality(Rests) + 1 <= Cardinality(Rests')
  <2>1. Rests \cup {s} \in SUBSET Rests' /\ s \notin Rests
    BY <1>4
  <2>2. Cardinality(Rests \cup {s}) = Cardinality(Rests) + 1
    BY <1>1, <2>1, FS_AddElement
  <2> QED BY <1>2, <2>1, <2>2, FS_Subset
<1>5. ASSUME NEW c \in Paid' \ Paid PROVE Cardinality(Paid) + 1 <= Cardinality(Paid')
  <2>1. Paid \cup {c} \in SUBSET Paid' /\ c \notin Paid
    BY <1>5
  <2>2. Cardinality(Paid \cup {c}) = Cardinality(Paid) + 1
    BY <1>1, <2>1, FS_AddElement
  <2> QED BY <1>2, <2>1, <2>2, FS_Subset
<1> QED BY <1>1, <1>2, <1>3, <1>4, <1>5

LEMMA UsedFacts ==
    ASSUME UsageTypeOK, NEW k \in BU!Keys
    PROVE  BU!Used(k, usage, now) \in Nat /\ k[1].tokens \in Nat
BY RecordedIs, WindowCounts, KeyFacts

LEMMA BudgetInit == BU!Init => BudgetInv
<1> SUFFICES ASSUME BU!Init PROVE BudgetInv
  OBVIOUS
<1>1. usage = {} /\ now = 0 /\ calls = <<>> /\ run = [s \in Station |-> BU!Out]
      /\ btPast = [told |-> {}, lost |-> {}, aged |-> {}, twice |-> FALSE, orphans |-> {}]
      /\ \A b \in Budget : b.tokens >= 1
  BY DEF BU!Init, BU!Valid, Station
<1>2. DOMAIN calls = {} /\ calls \in Seq(Call)
  BY <1>1
<1>3. UsageTypeOK
  BY <1>1, <1>2, FS_EmptySet DEF UsageTypeOK, RunState
<1>4. MeteredAlone /\ Reported
  BY <1>2 DEF MeteredAlone, Reported
<1>5. \A k \in BU!Keys : BU!Used(k, usage, now) = 0
  <2> SUFFICES ASSUME NEW k \in BU!Keys PROVE BU!Used(k, usage, now) = 0
    OBVIOUS
  <2>1. Window(k, {}, 0) = {}
    BY DEF Window
  <2>2. BU!Used(k, {}, 0) = Total({})
    BY <2>1, UsedIsTotal DEF Window
  <2> QED BY <1>1, <2>2, TotalStep, FS_EmptySet
<1>6. \A k \in BU!Keys : k[1].tokens \in Nat /\ k[1].tokens >= 1
  BY <1>1, KeyFacts
<1>7. BU!ExhaustionAnnounced /\ NoticesOfFull
  BY <1>1, <1>5, <1>6, FullIs DEF BU!ExhaustionAnnounced, NoticesOfFull
<1>8. ClearedOnly
  <2> DEFINE most == (Cardinality(Rests) + Cardinality(Paid)) * MaxAmount
  <2>1. most \in Nat
    <3>1. Cardinality(Rests) + Cardinality(Paid) \in Nat
      BY <1>3, SlackFacts
    <3> QED BY <3>1, LargestAmount, CountTimes
  <2> HIDE DEF most
  <2>2. \A k \in BU!Keys : BU!Used(k, usage, now) < k[1].tokens + most
    BY <1>5, <1>6, <2>1
  <2> QED BY <2>2 DEF ClearedOnly, most
<1> QED BY <1>3, <1>4, <1>7, <1>8 DEF BudgetInv

(* The bound after a step: usage does not grow, or by one report that the     *)
(* slack has room for, or the budget is not full yet.                         *)
LEMMA BoundKept ==
    ASSUME UsageTypeOK, UsageTypeOK', ClearedOnly,
           \A k \in BU!Keys : k[1].scope = "maker" =>
              \/ /\ BU!Used(k, usage', now') <= BU!Used(k, usage, now)
                 /\ Cardinality(Rests) + Cardinality(Paid) <= Cardinality(Rests') + Cardinality(Paid')
              \/ /\ BU!Used(k, usage', now') <= BU!Used(k, usage, now) + MaxAmount
                 /\ Cardinality(Rests) + Cardinality(Paid) + 1 <= Cardinality(Rests') + Cardinality(Paid')
              \/ BU!Used(k, usage', now') < k[1].tokens
    PROVE  ClearedOnly'
<1> SUFFICES ASSUME NEW k \in BU!Keys, k[1].scope = "maker"
             PROVE  BU!Used(k, usage', now') < k[1].tokens + (Cardinality(Rests') + Cardinality(Paid')) * MaxAmount
  BY DEF ClearedOnly
<1> DEFINE a == BU!Used(k, usage', now')
           b == BU!Used(k, usage, now)
           c == Cardinality(Rests) + Cardinality(Paid)
           d == Cardinality(Rests') + Cardinality(Paid')
           t == k[1].tokens
<1>1. b \in Nat /\ t \in Nat /\ c \in Nat /\ MaxAmount \in Nat
  BY UsedFacts, SlackFacts, LargestAmount
<1>2. a \in Nat
  <2>1. Recorded(usage') /\ now' \in Int
    BY RecordedIs DEF UsageTypeOK
  <2> QED BY <2>1, WindowCounts
<1>3. d \in Nat
  BY SlackNext
<1>4. b < t + c * MaxAmount
  BY DEF ClearedOnly
<1>5. (a <= b /\ c <= d) \/ (a <= b + MaxAmount /\ c + 1 <= d) \/ a < t
  OBVIOUS
<1> HIDE DEF a, b, c, d, t
<1>6. a < t + d * MaxAmount
  BY <1>1, <1>2, <1>3, <1>4, <1>5, StillWithin
<1> QED BY <1>6 DEF a, d, t

(* What a step that touches neither usage nor clock nor notices leaves true.  *)
LEMMA QuietStep ==
    ASSUME BudgetInv, UNCHANGED <<usage, now>>,
           btPast'.told = btPast.told, btPast'.lost = btPast.lost, btPast'.aged = btPast.aged, btPast'.twice = btPast.twice
    PROVE  BU!ExhaustionAnnounced' /\ NoticesOfFull'
BY FullIs DEF BudgetInv, BU!ExhaustionAnnounced, NoticesOfFull

LEMMA ClaimChecksInv ==
    ASSUME BudgetInv, NEW s \in Station, NEW card \in WorkCards, BU!ClaimChecks(s, card)
    PROVE  BudgetInv'
<1> DEFINE r == [at |-> "run", card |-> card]
<1>1. run[s] = BU!Out /\ BU!Clear(s, card) /\ run' = [run EXCEPT ![s] = r] /\ UNCHANGED <<usage, now, calls, btPast>>
  BY DEF BU!ClaimChecks
<1>2. r \in RunState /\ r.at = "run"
  BY DEF RunState
<1> HIDE DEF r
<1>3. UsageTypeOK'
  BY <1>1, <1>2 DEF BudgetInv, UsageTypeOK
<1>4. MeteredAlone'
  BY <1>1 DEF BudgetInv, MeteredAlone
<1>5. Reported'
  BY <1>1 DEF BudgetInv, Reported, UsageTypeOK, BU!Out
<1>6. BU!ExhaustionAnnounced' /\ NoticesOfFull'
  BY <1>1, QuietStep
<1>7. ASSUME s \in Spenders, NEW k \in BU!Keys, k[1].scope = "maker"
      PROVE  BU!Used(k, usage, now) < k[1].tokens
  <2>1. ~BU!budgetBlock(BU!Statuses, "maker", card)
    BY <1>1, <1>7, BudgetFacts DEF BU!Clear
  <2>2. ~(BU!Used(k, usage, now) >= k[1].tokens)
    BY <1>7, <2>1 DEF BU!budgetBlock, BU!Statuses, BU!budgetStatuses
  <2>3. BU!Used(k, usage, now) \in Nat /\ k[1].tokens \in Nat
    BY UsedFacts DEF BudgetInv
  <2> QED BY <2>2, <2>3
<1>8. ClearedOnly'
  <2>1. CASE s \in Spenders
    BY <1>1, <1>3, <1>7, <2>1, BoundKept DEF BudgetInv
  <2>2. CASE s \notin Spenders
    <3>1. Rests' = Rests /\ Paid' = Paid
      BY <1>1, <2>2 DEF Rests, Paid, BudgetInv, UsageTypeOK
    <3> QED BY <1>1, <3>1 DEF BudgetInv, ClearedOnly
  <2> QED BY <2>1, <2>2
<1> QED BY <1>3, <1>4, <1>5, <1>6, <1>8 DEF BudgetInv

(* Slack that does not shrink keeps the bound while usage stays.              *)
LEMMA SameUsage ==
    ASSUME BudgetInv, UsageTypeOK', UNCHANGED <<usage, now>>, Rests \subseteq Rests', Paid \subseteq Paid'
    PROVE  ClearedOnly'
<1>1. Cardinality(Rests) + Cardinality(Paid) <= Cardinality(Rests') + Cardinality(Paid')
  BY SlackGrows DEF BudgetInv
<1>2. \A k \in BU!Keys : BU!Used(k, usage, now) \in Nat
  BY UsedFacts DEF BudgetInv
<1> QED BY <1>1, <1>2, BoundKept DEF BudgetInv

LEMMA UsageArrivesInv ==
    ASSUME BudgetInv, NEW s \in Station, BU!UsageArrives(s)
    PROVE  BudgetInv'
<1> DEFINE n == Len(calls) + 1
           r == [at |-> "reports", call |-> n]
<1>1. PICK t \in Amounts :
        calls' = Append(calls, [at |-> "waits",
            u |-> [id |-> n, at |-> now, role |-> BU!Role(s), card |-> run[s].card, tokens |-> t]])
  BY DEF BU!UsageArrives
<1> DEFINE u == [id |-> n, at |-> now, role |-> BU!Role(s), card |-> run[s].card, tokens |-> t]
           call == [at |-> "waits", u |-> u]
<1>2. run[s].at = "run" /\ run' = [run EXCEPT ![s] = r] /\ UNCHANGED <<usage, now, btPast>> /\ calls' = Append(calls, call)
  BY <1>1 DEF BU!UsageArrives
<1>3. calls \in Seq(Call) /\ Len(calls) \in Nat /\ n \in Nat /\ run \in [Station -> RunState] /\ now \in Nat
  BY DEF BudgetInv, UsageTypeOK
<1>4. u \in Report
  <2>1. run[s].card \in WorkCards
    BY <1>2, <1>3 DEF RunState, BU!Out
  <2>2. BU!Role(s) \in {"maker", "kaizen"}
    BY DEF BU!Role
  <2> QED BY <1>3, <2>1, <2>2 DEF Report
<1>5. u.at = now /\ u.role = BU!Role(s)
  OBVIOUS
<1> HIDE DEF u
<1>6. call \in Call /\ call.at = "waits" /\ call.u = u
  BY <1>4 DEF Call
<1>7. r \in RunState /\ r.at = "reports" /\ r = [at |-> "reports", call |-> n]
  BY <1>3 DEF RunState
<1> HIDE DEF call, r
<1>8. /\ calls' \in Seq(Call) /\ DOMAIN calls = 1..Len(calls) /\ DOMAIN calls' = 1..n
      /\ \A c \in 1..Len(calls) : calls'[c] = calls[c]
      /\ calls'[n] = call
  BY <1>2, <1>3, <1>6, AppendProperties
<1>9. \A c \in 1..n : c \in 1..Len(calls) \/ c = n
  BY <1>3
<1> HIDE DEF n
<1>10. DOMAIN calls \subseteq DOMAIN calls'
  BY <1>8, <1>3 DEF n
<1>11. UsageTypeOK'
  BY <1>2, <1>3, <1>7, <1>8, <1>10 DEF BudgetInv, UsageTypeOK
<1>12. MeteredAlone'
  <2>1. \A c \in DOMAIN calls' : (c \in DOMAIN calls /\ calls'[c] = calls[c]) \/ (calls'[c].at = "waits" /\ calls'[c].u = u)
    <3> SUFFICES ASSUME NEW c \in 1..n
                 PROVE  (c \in 1..Len(calls) /\ calls'[c] = calls[c]) \/ (calls'[c].at = "waits" /\ calls'[c].u = u)
      BY <1>8
    <3> QED BY <1>6, <1>8, <1>9
  <2>2. now <= now
    BY <1>3
  <2> QED BY <1>2, <1>5, <2>1, <2>2 DEF BudgetInv, MeteredAlone
<1>13. Reported'
  <2> SUFFICES ASSUME NEW c \in DOMAIN calls', calls'[c].at # "done", calls'[c].u.role = "maker"
               PROVE  c \in btPast'.orphans \/ \E t1 \in Spenders : run'[t1] = [at |-> "reports", call |-> c]
    BY DEF Reported
  <2>1. CASE c \in DOMAIN calls
    <3>1. calls'[c] = calls[c]
      BY <1>8, <2>1
    <3>2. c \in btPast.orphans \/ \E t1 \in Spenders : run[t1] = [at |-> "reports", call |-> c]
      BY <2>1, <3>1 DEF BudgetInv, Reported
    <3>3. \A t1 \in Station : run[t1] = [at |-> "reports", call |-> c] => run'[t1] = run[t1]
      BY <1>2, <1>3
    <3> QED BY <1>2, <3>2, <3>3 DEF Station
  <2>2. CASE c = n
    <3>1. BU!Role(s) = "maker"
      BY <1>5, <1>6, <1>8, <2>2
    <3>2. s \in Spenders
      BY <3>1 DEF BU!Role
    <3>3. run'[s] = [at |-> "reports", call |-> c]
      BY <1>2, <1>3, <1>7, <2>2
    <3> QED BY <3>2, <3>3
  <2> QED BY <1>8, <1>9, <2>1, <2>2
<1>14. BU!ExhaustionAnnounced' /\ NoticesOfFull'
  BY <1>2, QuietStep
<1>15. Rests \subseteq Rests'
  BY <1>2, <1>3 DEF Rests, Station
<1>16. Paid \subseteq Paid'
  BY <1>2, <1>8 DEF Paid, BudgetInv, UsageTypeOK
<1>17. ClearedOnly'
  BY <1>2, <1>11, <1>15, <1>16, SameUsage
<1> QED BY <1>11, <1>12, <1>13, <1>14, <1>17 DEF BudgetInv

LEMMA UsageMetersInv ==
    ASSUME BudgetInv, NEW c \in DOMAIN calls, BU!UsageMeters(c)
    PROVE  BudgetInv'
<1> DEFINE call == [at |-> "locked", u |-> calls[c].u, seen |-> usage]
<1>1. /\ calls[c].at = "waits" /\ calls' = [calls EXCEPT ![c] = call] /\ UNCHANGED <<usage, now, run, btPast>>
      /\ \A d \in DOMAIN calls : calls[d].at # "locked"
  BY DEF BU!UsageMeters, BU!MeterFree
<1>2. calls[c].u \in Report /\ usage \in SUBSET Report
  BY <1>1 DEF BudgetInv, UsageTypeOK, Call, BU!Done
<1>3. call \in Call /\ call.at = "locked" /\ call.u = calls[c].u /\ call.seen = usage
  BY <1>2 DEF Call
<1> HIDE DEF call
<1>4. calls' \in Seq(Call) /\ DOMAIN calls' = DOMAIN calls /\ calls'[c] = call /\ \A d \in DOMAIN calls \ {c} : calls'[d] = calls[d]
  BY <1>1, <1>3 DEF BudgetInv, UsageTypeOK
<1>5. UsageTypeOK'
  BY <1>1, <1>4 DEF BudgetInv, UsageTypeOK
<1>6. MeteredAlone'
  BY <1>1, <1>3, <1>4 DEF BudgetInv, MeteredAlone
<1>7. Reported'
  BY <1>1, <1>3, <1>4 DEF BudgetInv, Reported
<1>8. BU!ExhaustionAnnounced' /\ NoticesOfFull'
  BY <1>1, QuietStep
<1>9. Rests \subseteq Rests' /\ Paid \subseteq Paid'
  BY <1>1, <1>4 DEF Rests, Paid, BudgetInv, UsageTypeOK
<1>10. ClearedOnly'
  BY <1>1, <1>5, <1>9, SameUsage
<1> QED BY <1>5, <1>6, <1>7, <1>8, <1>10 DEF BudgetInv

LEMMA StationDiesInv ==
    ASSUME BudgetInv, NEW s \in Station, BU!StationDies(s)
    PROVE  BudgetInv'
<1> DEFINE left == {c \in DOMAIN calls : s \in Spenders /\ run[s] = [at |-> "reports", call |-> c]}
<1>1. run' = [run EXCEPT ![s] = BU!Out] /\ btPast' = [btPast EXCEPT !.orphans = @ \cup left] /\ UNCHANGED <<usage, now, calls>>
  BY DEF BU!StationDies
<1>2. left \in SUBSET DOMAIN calls /\ BU!Out \in RunState /\ BU!Out.at = "out"
  BY DEF RunState, BU!Out
<1>3. \A c \in DOMAIN calls : s \in Spenders /\ run[s] = [at |-> "reports", call |-> c] => c \in left
  OBVIOUS
<1> HIDE DEF left
<1>4. /\ btPast'.told = btPast.told /\ btPast'.lost = btPast.lost /\ btPast'.aged = btPast.aged /\ btPast'.twice = btPast.twice
      /\ btPast'.orphans = btPast.orphans \cup left
      /\ btPast' \in [told : SUBSET BU!Keys, lost : SUBSET BU!Keys, aged : SUBSET BU!Keys, twice : BOOLEAN, orphans : SUBSET DOMAIN calls]
  BY <1>1, <1>2 DEF BudgetInv, UsageTypeOK
<1>5. UsageTypeOK'
  BY <1>1, <1>2, <1>4 DEF BudgetInv, UsageTypeOK
<1>6. MeteredAlone'
  BY <1>1 DEF BudgetInv, MeteredAlone
<1>7. Reported'
  BY <1>1, <1>3, <1>4 DEF BudgetInv, UsageTypeOK, Reported, Station
<1>8. BU!ExhaustionAnnounced' /\ NoticesOfFull'
  BY <1>1, <1>4, QuietStep
<1>9. Rests \subseteq Rests' /\ Paid \subseteq Paid'
  BY <1>1, <1>2, <1>4 DEF Rests, Paid, BudgetInv, UsageTypeOK
<1>10. ClearedOnly'
  BY <1>1, <1>5, <1>9, SameUsage
<1> QED BY <1>5, <1>6, <1>7, <1>8, <1>10 DEF BudgetInv

(* A call that returns: its station rests.                                    *)
LEMMA ReturnsFacts ==
    ASSUME BudgetInv, NEW c \in DOMAIN calls, calls[c].at # "done", BU!Returns(c),
           btPast'.orphans = btPast.orphans
    PROVE  /\ calls' \in Seq(Call) /\ run' \in [Station -> RunState]
           /\ DOMAIN calls' = DOMAIN calls /\ calls'[c].at = "done" /\ \A d \in DOMAIN calls \ {c} : calls'[d] = calls[d]
           /\ Reported'
           /\ Rests \subseteq Rests' /\ Paid \subseteq Paid'
           /\ calls[c].u.role = "maker" => (\E s \in Rests' : s \notin Rests) \/ (\E d \in Paid' : d \notin Paid)
<1>1. /\ calls' = [calls EXCEPT ![c] = BU!Done]
      /\ run' = [s \in DOMAIN run |-> IF run[s] = [at |-> "reports", call |-> c] THEN BU!Out ELSE run[s]]
  BY DEF BU!Returns
<1>2. BU!Done \in Call /\ BU!Done.at = "done" /\ BU!Out \in RunState /\ BU!Out.at = "out"
  BY DEF Call, RunState, BU!Done, BU!Out
<1>3. calls \in Seq(Call) /\ run \in [Station -> RunState] /\ btPast.orphans \subseteq DOMAIN calls
  BY DEF BudgetInv, UsageTypeOK
<1>4. calls' \in Seq(Call) /\ DOMAIN calls' = DOMAIN calls /\ calls'[c] = BU!Done /\ \A d \in DOMAIN calls \ {c} : calls'[d] = calls[d]
  BY <1>1, <1>2, <1>3
<1>5. run' \in [Station -> RunState]
  BY <1>1, <1>2, <1>3
<1>6. \A s \in Station : /\ run[s] = [at |-> "reports", call |-> c] => run'[s].at = "out"
                         /\ run[s] # [at |-> "reports", call |-> c] => run'[s] = run[s]
  BY <1>1, <1>2, <1>3
<1>7. Reported'
  <2> SUFFICES ASSUME NEW d \in DOMAIN calls', calls'[d].at # "done", calls'[d].u.role = "maker"
               PROVE  d \in btPast'.orphans \/ \E s \in Spenders : run'[s] = [at |-> "reports", call |-> d]
    BY DEF Reported
  <2>1. d \in DOMAIN calls /\ d # c /\ calls'[d] = calls[d]
    BY <1>2, <1>4
  <2>2. d \in btPast.orphans \/ \E s \in Spenders : run[s] = [at |-> "reports", call |-> d]
    BY <2>1 DEF BudgetInv, Reported
  <2>3. \A s \in Spenders : run[s] = [at |-> "reports", call |-> d] => run'[s] = run[s]
    <3>1. [at |-> "reports", call |-> d].call # [at |-> "reports", call |-> c].call
      BY <2>1
    <3> QED BY <1>6, <3>1 DEF Station
  <2> QED BY <2>2, <2>3
<1>8. Rests \subseteq Rests'
  <2> SUFFICES ASSUME NEW s \in Rests PROVE s \in Rests'
    OBVIOUS
  <2>1. s \in Spenders /\ s \in Station /\ run[s].at = "out"
    BY DEF Rests, Station
  <2>2. [at |-> "reports", call |-> c].at # "out"
    OBVIOUS
  <2> QED BY <1>6, <2>1, <2>2 DEF Rests
<1>9. Paid \subseteq Paid'
  BY <1>2, <1>3, <1>4 DEF Paid
<1>10. ASSUME calls[c].u.role = "maker" PROVE (\E s \in Rests' : s \notin Rests) \/ (\E d \in Paid' : d \notin Paid)
  <2>1. CASE c \in btPast.orphans
    BY <1>2, <1>4, <2>1 DEF Paid
  <2>2. CASE c \notin btPast.orphans
    <3>1. PICK s \in Spenders : run[s] = [at |-> "reports", call |-> c]
      BY <1>10, <2>2 DEF BudgetInv, Reported
    <3>2. s \in Rests' /\ s \notin Rests
      BY <1>6, <3>1 DEF Rests, Station
    <3> QED BY <3>2
  <2> QED BY <2>1, <2>2
<1> QED BY <1>2, <1>4, <1>5, <1>7, <1>8, <1>9, <1>10

LEMMA UsageFailsInv ==
    ASSUME BudgetInv, NEW c \in DOMAIN calls, BU!UsageFails(c)
    PROVE  BudgetInv'
<1>1. calls[c] # BU!Done /\ BU!Returns(c) /\ UNCHANGED <<usage, now, btPast>>
  BY DEF BU!UsageFails
<1>2. calls[c].at # "done"
  BY <1>1 DEF BudgetInv, UsageTypeOK, Call
<1>3. /\ calls' \in Seq(Call) /\ run' \in [Station -> RunState]
      /\ DOMAIN calls' = DOMAIN calls /\ calls'[c].at = "done" /\ \A d \in DOMAIN calls \ {c} : calls'[d] = calls[d]
      /\ Reported' /\ Rests \subseteq Rests' /\ Paid \subseteq Paid'
  BY <1>1, <1>2, ReturnsFacts
<1>4. UsageTypeOK'
  BY <1>1, <1>3 DEF BudgetInv, UsageTypeOK
<1>5. MeteredAlone'
  BY <1>1, <1>3 DEF BudgetInv, MeteredAlone
<1>6. BU!ExhaustionAnnounced' /\ NoticesOfFull'
  BY <1>1, QuietStep
<1>7. ClearedOnly'
  BY <1>1, <1>3, <1>4, SameUsage
<1> QED BY <1>3, <1>4, <1>5, <1>6, <1>7 DEF BudgetInv

LEMMA TickInv ==
    ASSUME BudgetInv, BU!Tick
    PROVE  BudgetInv'
<1> DEFINE full == {k \in BU!Keys : BU!budgetStatuses(usage, now + 1)[k].exhausted}
<1>1. /\ now' = now + 1 /\ UNCHANGED <<usage, run, calls>> /\ now \in Nat /\ now' \in Nat
      /\ btPast' = [btPast EXCEPT !.told = @ \cap full, !.lost = @ \cap full, !.aged = @ \cap full]
  BY DEF BU!Tick, BudgetInv, UsageTypeOK
<1>2. full = BU!Full'
  BY <1>1, FullIs DEF BU!budgetStatuses
<1> HIDE DEF full
<1>3. /\ btPast'.told = btPast.told \cap full /\ btPast'.lost = btPast.lost \cap full /\ btPast'.aged = btPast.aged \cap full
      /\ btPast'.twice = btPast.twice /\ btPast'.orphans = btPast.orphans
      /\ btPast' \in [told : SUBSET BU!Keys, lost : SUBSET BU!Keys, aged : SUBSET BU!Keys, twice : BOOLEAN, orphans : SUBSET DOMAIN calls]
  BY <1>1 DEF BudgetInv, UsageTypeOK
<1>4. \A k \in BU!Keys : BU!Used(k, usage, now') <= BU!Used(k, usage, now) /\ BU!Used(k, usage, now) \in Nat
                         /\ BU!Used(k, usage, now') \in Nat /\ k[1].tokens \in Nat
  <2>1. Recorded(usage) /\ now <= now'
    BY <1>1, RecordedIs DEF BudgetInv
  <2> QED BY <1>1, <2>1, WindowSlides, WindowCounts, KeyFacts
<1>5. UsageTypeOK'
  BY <1>1, <1>3 DEF BudgetInv, UsageTypeOK
<1>6. MeteredAlone'
  <2>1. \A c \in DOMAIN calls : calls[c].at # "done" => calls[c].u.at \in Nat
    BY DEF BudgetInv, UsageTypeOK, Call, Report, BU!Done
  <2> QED BY <1>1, <2>1 DEF BudgetInv, MeteredAlone
<1>7. Reported'
  BY <1>1, <1>3 DEF BudgetInv, Reported
<1>8. BU!ExhaustionAnnounced' /\ NoticesOfFull'
  <2>1. BU!Full' \subseteq BU!Full
    BY <1>1, <1>4, FullIs
  <2> QED BY <1>2, <1>3, <2>1 DEF BudgetInv, BU!ExhaustionAnnounced, NoticesOfFull
<1>9. ClearedOnly'
  <2>1. Rests' = Rests /\ Paid' = Paid
    BY <1>1, <1>3 DEF Rests, Paid
  <2>2. Cardinality(Rests) + Cardinality(Paid) <= Cardinality(Rests') + Cardinality(Paid')
    BY <2>1, SlackFacts DEF BudgetInv
  <2> QED BY <1>1, <1>4, <1>5, <2>2, BoundKept DEF BudgetInv
<1> QED BY <1>5, <1>6, <1>7, <1>8, <1>9 DEF BudgetInv

(* The report that is recorded is the one that was metered. What it fills it  *)
(* gives notice of, unless its own window was full: under the mutex the usage *)
(* it was metered over is the usage, and a window of now is no fuller than    *)
(* one of an earlier time.                                                    *)
LEMMA UsageRecordsInv ==
    ASSUME BudgetInv, NEW c \in DOMAIN calls, BU!UsageRecords(c)
    PROVE  BudgetInv'
<1> DEFINE rec == calls[c].u
           us == usage \cup {rec}
           before == BU!budgetStatuses(calls[c].seen, rec.at)
           after == BU!budgetStatuses(calls[c].seen \cup {rec}, rec.at)
           filled == {k \in BU!budgetNotices(before, after) : after[k].exhausted}
           full == {k \in BU!Keys : BU!budgetStatuses(us, now)[k].exhausted}
           aged == {k \in BU!Keys \ BU!Full : before[k].exhausted}
<1>1. calls[c].at = "locked" /\ calls[c].seen = usage /\ BU!Returns(c) /\ usage' = us /\ now' = now
  BY DEF BU!UsageRecords, BudgetInv, MeteredAlone
<1>2. PICK unposted \in SUBSET filled :
        btPast' = [btPast EXCEPT !.told = (@ \cup (filled \ unposted)) \cap full, !.lost = (@ \cup unposted) \cap full,
                                 !.aged = (@ \cup aged) \cap full,
                                 !.twice = @ \/ filled \cap (btPast.told \cup btPast.lost) # {}]
  BY DEF BU!UsageRecords
<1>3. rec \in Report /\ rec.at \in Nat /\ rec.tokens \in Nat /\ rec.tokens \in Amounts /\ rec.at <= now
  <2>1. rec \in Report
    BY <1>1 DEF BudgetInv, UsageTypeOK, Call, BU!Done
  <2> QED BY <1>1, <2>1, BudgetFacts DEF Report, BudgetInv, MeteredAlone
<1>4. now \in Nat /\ Recorded(usage) /\ Recorded(us) /\ IsFiniteSet(us) /\ us \in SUBSET Report
  <2>1. IsFiniteSet(us) /\ us \in SUBSET Report
    <3>1. IsFiniteSet(usage) /\ usage \in SUBSET Report
      BY DEF BudgetInv, UsageTypeOK
    <3> HIDE DEF rec
    <3> QED BY <1>3, <3>1, FS_AddElement
  <2> HIDE DEF us
  <2> QED BY <2>1, RecordedIs DEF BudgetInv, UsageTypeOK
<1>5. /\ filled = {k \in BU!Keys : BU!Used(k, us, rec.at) >= k[1].tokens /\ ~(BU!Used(k, usage, rec.at) >= k[1].tokens)}
      /\ full = BU!Full' /\ full = {k \in BU!Keys : BU!Used(k, us, now) >= k[1].tokens}
      /\ aged = {k \in BU!Keys \ BU!Full : BU!Used(k, usage, rec.at) >= k[1].tokens}
  <2>1. filled = {k \in BU!Keys : BU!Used(k, us, rec.at) >= k[1].tokens /\ ~(BU!Used(k, usage, rec.at) >= k[1].tokens)}
    BY <1>1 DEF BU!budgetStatuses, BU!budgetNotices
  <2>2. full = {k \in BU!Keys : BU!Used(k, us, now) >= k[1].tokens}
    BY DEF BU!budgetStatuses
  <2>3. aged = {k \in BU!Keys \ BU!Full : BU!Used(k, usage, rec.at) >= k[1].tokens}
    BY <1>1 DEF BU!budgetStatuses
  <2> QED BY <1>1, <2>1, <2>2, <2>3, FullIs
<1> HIDE DEF filled, full, aged, before, after
<1>6. /\ btPast'.told = (btPast.told \cup (filled \ unposted)) \cap full
      /\ btPast'.lost = (btPast.lost \cup unposted) \cap full
      /\ btPast'.aged = (btPast.aged \cup aged) \cap full
      /\ btPast'.twice = (btPast.twice \/ filled \cap (btPast.told \cup btPast.lost) # {})
      /\ btPast'.orphans = btPast.orphans
      /\ btPast' \in [told : SUBSET BU!Keys, lost : SUBSET BU!Keys, aged : SUBSET BU!Keys, twice : BOOLEAN, orphans : SUBSET DOMAIN calls]
  <2>1. filled \subseteq BU!Keys /\ full \subseteq BU!Keys
    BY <1>5
  <2>2. (btPast.twice \/ filled \cap (btPast.told \cup btPast.lost) # {}) \in BOOLEAN
    OBVIOUS
  <2> DEFINE tw == btPast.twice \/ filled \cap (btPast.told \cup btPast.lost) # {}
  <2>3. btPast' = [btPast EXCEPT !.told = (btPast.told \cup (filled \ unposted)) \cap full, !.lost = (btPast.lost \cup unposted) \cap full,
                                 !.aged = (btPast.aged \cup aged) \cap full, !.twice = tw]
    BY <1>2
  <2>4. tw \in BOOLEAN
    OBVIOUS
  <2>5. btPast'.twice = tw
    <3> HIDE DEF tw
    <3> QED BY <2>3 DEF BudgetInv, UsageTypeOK
  <2> HIDE DEF tw
  <2>6. btPast'.told = (btPast.told \cup (filled \ unposted)) \cap full /\ btPast'.lost = (btPast.lost \cup unposted) \cap full
        /\ btPast'.aged = (btPast.aged \cup aged) \cap full /\ btPast'.orphans = btPast.orphans
        /\ btPast' \in [told : SUBSET BU!Keys, lost : SUBSET BU!Keys, aged : SUBSET BU!Keys, twice : BOOLEAN, orphans : SUBSET DOMAIN calls]
    BY <2>1, <2>3, <2>4 DEF BudgetInv, UsageTypeOK
  <2> QED BY <2>5, <2>6 DEF tw
<1>7. /\ calls' \in Seq(Call) /\ run' \in [Station -> RunState]
      /\ DOMAIN calls' = DOMAIN calls /\ calls'[c].at = "done" /\ \A d \in DOMAIN calls \ {c} : calls'[d] = calls[d]
      /\ Reported' /\ Rests \subseteq Rests' /\ Paid \subseteq Paid'
      /\ calls[c].u.role = "maker" => (\E s \in Rests' : s \notin Rests) \/ (\E d \in Paid' : d \notin Paid)
  BY <1>1, <1>6, ReturnsFacts
<1>8. UsageTypeOK'
  BY <1>1, <1>4, <1>6, <1>7 DEF UsageTypeOK
<1>9. MeteredAlone'
  <2>1. \A d \in DOMAIN calls' : calls'[d].at # "done" => d # c /\ calls'[d] = calls[d]
    BY <1>7
  <2>2. \A d \in DOMAIN calls \ {c} : calls[d].at # "locked"
    BY <1>1 DEF BudgetInv, MeteredAlone
  <2> QED BY <1>1, <1>7, <2>1, <2>2 DEF BudgetInv, MeteredAlone
<1>10. \A k \in BU!Keys : /\ BU!Used(k, usage, now) <= BU!Used(k, usage, rec.at) /\ BU!Used(k, us, now) <= BU!Used(k, us, rec.at)
                         /\ BU!Used(k, usage, now) \in Nat /\ BU!Used(k, us, now) \in Nat
                         /\ BU!Used(k, usage, rec.at) \in Nat /\ BU!Used(k, us, rec.at) \in Nat /\ k[1].tokens \in Nat
  <2> HIDE DEF us, rec
  <2>1. now \in Int /\ rec.at \in Int
    BY <1>3, <1>4
  <2> QED BY <1>3, <1>4, <2>1, WindowSlides, WindowCounts, KeyFacts
<1>11. filled \cap BU!Full = {}
  BY <1>5, <1>10, FullIs
<1>12. BU!Full' \subseteq BU!Full \cup filled \cup aged
  <2> SUFFICES ASSUME NEW k \in BU!Full', k \notin BU!Full PROVE k \in filled \cup aged
    OBVIOUS
  <2>1. k \in BU!Keys /\ BU!Used(k, us, now) >= k[1].tokens
    BY <1>5
  <2>2. BU!Used(k, us, rec.at) >= k[1].tokens
    BY <1>10, <2>1
  <2> QED BY <1>5, <2>1, <2>2
<1>13. NoticesOfFull'
  BY <1>5, <1>6 DEF NoticesOfFull
<1>14. BU!ExhaustionAnnounced'
  <2>1. ~btPast'.twice
    <3>1. ~btPast.twice /\ filled \cap (btPast.told \cup btPast.lost) = {}
      BY <1>11 DEF BudgetInv, BU!ExhaustionAnnounced, NoticesOfFull
    <3> QED BY <1>6, <3>1
  <2>2. BU!Full' \subseteq btPast'.told \cup btPast'.lost \cup btPast'.aged
    BY <1>5, <1>6, <1>12 DEF BudgetInv, BU!ExhaustionAnnounced
  <2> QED BY <2>1, <2>2 DEF BU!ExhaustionAnnounced
<1>15. ClearedOnly'
  <2>1. /\ Cardinality(Rests) + Cardinality(Paid) <= Cardinality(Rests') + Cardinality(Paid')
        /\ rec.role = "maker" => Cardinality(Rests) + Cardinality(Paid) + 1 <= Cardinality(Rests') + Cardinality(Paid')
    BY <1>7, <1>8, SlackGrows DEF BudgetInv
  <2>2. ASSUME NEW k \in BU!Keys, k[1].scope = "maker"
        PROVE  \/ rec.role = "maker" /\ BU!Used(k, us, now) <= BU!Used(k, usage, now) + MaxAmount
               \/ BU!Used(k, us, now) <= BU!Used(k, usage, now)
    <3>1. /\ BU!Used(k, us, now) <= BU!Used(k, usage, now) + rec.tokens
          /\ ~BU!Counts(k[1], k[2], rec) => BU!Used(k, us, now) = BU!Used(k, usage, now)
      <4> HIDE DEF rec
      <4> QED BY <1>3, <1>4, WindowAdds
    <3>2. rec.tokens <= MaxAmount /\ MaxAmount \in Nat
      BY <1>3, LargestAmount
    <3>3. BU!Counts(k[1], k[2], rec) => rec.role = "maker"
      BY <2>2 DEF BU!Counts
    <3>4. BU!Used(k, us, now) \in Nat /\ BU!Used(k, usage, now) \in Nat
      BY <1>10
    <3> HIDE DEF rec, us
    <3> QED BY <1>3, <3>1, <3>2, <3>3, <3>4
  <2> QED BY <1>1, <1>8, <2>1, <2>2, BoundKept DEF BudgetInv
<1> QED BY <1>7, <1>8, <1>9, <1>13, <1>14, <1>15 DEF BudgetInv

LEMMA BudgetStep == BudgetInv /\ [BU!Next]_BU!btVars => BudgetInv'
<1> SUFFICES ASSUME BudgetInv, [BU!Next]_BU!btVars PROVE BudgetInv'
  OBVIOUS
<1>1. CASE BU!Tick
  BY <1>1, TickInv
<1>2. ASSUME NEW s \in Station, BU!UsageArrives(s) \/ BU!StationDies(s) PROVE BudgetInv'
  BY <1>2, UsageArrivesInv, StationDiesInv
<1>3. ASSUME NEW s \in Station, NEW card \in WorkCards, BU!ClaimChecks(s, card) PROVE BudgetInv'
  BY <1>3, ClaimChecksInv
<1>4. ASSUME NEW c \in DOMAIN calls, BU!UsageMeters(c) \/ BU!UsageRecords(c) \/ BU!UsageFails(c) PROVE BudgetInv'
  BY <1>4, UsageMetersInv, UsageRecordsInv, UsageFailsInv
<1>5. CASE UNCHANGED BU!btVars
  <2>1. UNCHANGED <<usage, now, run, calls, btPast>>
    BY <1>5 DEF BU!btVars
  <2>2. Rests' = Rests /\ Paid' = Paid /\ BU!Full' = BU!Full
    BY <2>1, FullIs DEF Rests, Paid
  <2> QED BY <2>1, <2>2 DEF BudgetInv, UsageTypeOK, MeteredAlone, Reported, ClearedOnly, NoticesOfFull, BU!ExhaustionAnnounced
<1> QED BY <1>1, <1>2, <1>3, <1>4, <1>5 DEF BU!Next, Station

(* What a claim's clearance is worth: whoever is out may still report, so the *)
(* overrun is at most a report of each and of each orphan.                    *)
LEMMA BudgetKept == BudgetInv => BudgetHolds
<1> SUFFICES ASSUME BudgetInv PROVE BU!OverrunBounded
  BY DEF BudgetHolds, BudgetInv
<1>1. \A S : BU!Cardinality(S) = Cardinality(S)
  BY Zenon DEF BU!Cardinality, Cardinality
<1>2. BU!Max(Amounts) = MaxAmount
  BY Zenon DEF BU!Max, MaxAmount, Max
<1> SUFFICES ASSUME NEW k \in BU!Keys, k[1].scope = "maker"
             PROVE  BU!Used(k, usage, now) < k[1].tokens + (Cardinality(Spenders) + Cardinality(btPast.orphans)) * MaxAmount
  BY <1>1, <1>2 DEF BU!OverrunBounded
<1> DEFINE c == Cardinality(Rests) + Cardinality(Paid)
           d == Cardinality(Spenders) + Cardinality(btPast.orphans)
           b == BU!Used(k, usage, now)
           t == k[1].tokens
<1>3. c \in Nat /\ d \in Nat /\ c <= d
  <2>1. IsFiniteSet(Spenders) /\ Rests \in SUBSET Spenders /\ IsFiniteSet(btPast.orphans) /\ Paid \in SUBSET btPast.orphans
    BY BudgetFacts, SlackFacts DEF BudgetInv, Rests, Paid
  <2>2. /\ Cardinality(Rests) <= Cardinality(Spenders) /\ Cardinality(Spenders) \in Nat
        /\ Cardinality(Paid) <= Cardinality(btPast.orphans) /\ Cardinality(btPast.orphans) \in Nat
    BY <2>1, FS_Subset, FS_CardinalityType
  <2> QED BY <2>2, SlackFacts DEF BudgetInv
<1>4. b \in Nat /\ t \in Nat /\ MaxAmount \in Nat /\ b < t + c * MaxAmount
  BY UsedFacts, LargestAmount DEF BudgetInv, ClearedOnly
<1> HIDE DEF b, c, d, t
<1>5. b <= b
  BY <1>4
<1>6. b < t + d * MaxAmount
  BY <1>3, <1>4, <1>5, StillWithin
<1> QED BY <1>6 DEF b, d, t

(* Every budget, and any finite set of makers beside stations of other roles, *)
(* however their claims and reports interleave and whichever fail (budget.go, *)
(* cards.go): a report that fills a budget gives notice of it once, unless it *)
(* was metered over an older window that was full, and makers overrun by a    *)
(* report of each and of each orphan at most.                                 *)
THEOREM BudgetsAreKept == BU!Spec => []BudgetHolds
<1>1. BU!Init => BudgetInv
  BY BudgetInit
<1>2. BudgetInv /\ [BU!Next]_BU!btVars => BudgetInv'
  BY BudgetStep
<1>3. BudgetInv => BudgetHolds
  BY BudgetKept
<1> QED BY <1>1, <1>2, <1>3, PTL DEF BU!Spec

------------------------------------------------------------------------------
(* Objects. What an object reaches: Closure satisfies its equation, since the *)
(* least closed sets do, and it is the least closed set, since references     *)
(* make no circle.                                                            *)

Kids(o) == {Child[o][i] : i \in DOMAIN Child[o]}
Closed(S) == \A o \in S : Kids(o) \subseteq S

LEMMA ObjectFacts ==
    /\ FirstCommit \in OB!Object /\ Submitted \subseteq OB!Object /\ OB!None \notin OB!Object
    /\ \A o \in OB!Object : Kids(o) \subseteq OB!Object /\ OB!Range(Child[o]) = Kids(o)
    /\ \A S \in SUBSET OB!Object : S # {} => \E o \in S : Kids(o) \cap S = {}
    /\ Stops \subseteq OB!Object /\ \A e \in Stops : Kids(e) = {}
<1>1. OB!ObjectsAssumption
  BY StoreAssumption
<1>2. \A o : OB!Range(Child[o]) = Kids(o)
  BY DEF OB!Range, Kids
<1>3. \A o \in OB!Object : Kids(o) \subseteq OB!Object
  BY <1>1 DEF OB!ObjectsAssumption, Kids
<1>4. \A S \in SUBSET OB!Object : S # {} => \E o \in S : Kids(o) \cap S = {}
  BY <1>1, <1>2 DEF OB!ObjectsAssumption
<1>5. \A e \in Stops : Kids(e) = {}
  BY <1>1 DEF OB!ObjectsAssumption, Kids
<1> QED BY <1>1, <1>2, <1>3, <1>4, <1>5 DEF OB!ObjectsAssumption

(* For any references K there is a function of what each object reaches.      *)
ReachOf(K) == [x \in OB!Object |-> {y \in OB!Object : \A S \in SUBSET OB!Object : x \in S /\ (\A z \in S : K[z] \subseteq S) => y \in S}]

LEMMA LeastFacts ==
    ASSUME NEW K \in [OB!Object -> SUBSET OB!Object], NEW o \in OB!Object
    PROVE  ReachOf(K)[o] = {o} \cup UNION {ReachOf(K)[c] : c \in K[o]}
<1> DEFINE KC(S) == \A z \in S : K[z] \subseteq S
           L(x) == {y \in OB!Object : \A S \in SUBSET OB!Object : x \in S /\ KC(S) => y \in S}
           R == {o} \cup UNION {L(c) : c \in K[o]}
<1>1. R \subseteq L(o)
  OBVIOUS
<1>2. R \in SUBSET OB!Object /\ o \in R
  OBVIOUS
<1>3. ASSUME NEW y \in R, NEW z \in K[y] PROVE z \in R
  <2>1. y \in OB!Object /\ z \in OB!Object
    BY <1>2, <1>3
  <2>2. CASE y = o
    <3>1. z \in L(z)
      BY <2>1
    <3> QED BY <1>3, <2>2, <3>1
  <2>3. ASSUME NEW c \in K[o], y \in L(c) PROVE z \in R
    <3>1. z \in L(c)
      BY <1>3, <2>1, <2>3
    <3> QED BY <3>1
  <2> QED BY <1>3, <2>2, <2>3
<1>4. KC(R)
  BY <1>3
<1>5. L(o) \subseteq R
  <2> HIDE DEF R
  <2> QED BY <1>2, <1>4
<1>6. \A x \in OB!Object : ReachOf(K)[x] = L(x)
  BY DEF ReachOf
<1>7. ReachOf(K)[o] = R
  BY <1>1, <1>5, <1>6
<1>8. UNION {ReachOf(K)[c] : c \in K[o]} = UNION {L(c) : c \in K[o]}
  <2> HIDE DEF L
  <2> QED BY <1>6
<1> QED BY <1>7, <1>8

LEMMA ReachExists ==
    ASSUME NEW K \in [OB!Object -> SUBSET OB!Object]
    PROVE  \E f : f = [x \in OB!Object |-> {x} \cup UNION {f[c] : c \in K[x]}]
<1> DEFINE f == ReachOf(K)
<1>1. f = [x \in OB!Object |-> f[x]]
  BY DEF ReachOf
<1>2. \A x \in OB!Object : f[x] = {x} \cup UNION {f[c] : c \in K[x]}
  BY LeastFacts
<1> HIDE DEF f
<1>3. f = [x \in OB!Object |-> {x} \cup UNION {f[c] : c \in K[x]}]
  BY <1>1, <1>2
<1> QED BY <1>3

LEMMA ReachIs ==
    ASSUME NEW K \in [OB!Object -> SUBSET OB!Object], NEW o \in OB!Object, NEW g,
           g = [x \in OB!Object |-> {x} \cup UNION {g[c] : c \in K[x]}]
    PROVE  g[o] = {o} \cup UNION {g[c] : c \in K[o]}
<1> DEFINE body(x) == {x} \cup UNION {g[c] : c \in K[x]}
<1>1. g = [x \in OB!Object |-> body(x)]
  OBVIOUS
<1> HIDE DEF body
<1>2. g[o] = body(o)
  BY <1>1
<1> QED BY <1>2 DEF body

LEMMA ClosureIs ==
    ASSUME NEW o \in OB!Object
    PROVE  OB!Closure[o] = {o} \cup UNION {OB!Closure[c] : c \in Kids(o)}
<1> DEFINE K == [x \in OB!Object |-> Kids(x)]
           IsC(f) == f = [x \in OB!Object |-> {x} \cup UNION {f[c] : c \in OB!Range(Child[x])}]
           IsK(f) == f = [x \in OB!Object |-> {x} \cup UNION {f[c] : c \in K[x]}]
<1>1. K \in [OB!Object -> SUBSET OB!Object]
  BY ObjectFacts
<1>2. \A f : IsC(f) <=> IsK(f)
  <2> TAKE f
  <2>1. \A x \in OB!Object : OB!Range(Child[x]) = K[x]
    BY ObjectFacts
  <2> HIDE DEF K
  <2>2. [x \in OB!Object |-> {x} \cup UNION {f[c] : c \in OB!Range(Child[x])}]
        = [x \in OB!Object |-> {x} \cup UNION {f[c] : c \in K[x]}]
    BY <2>1
  <2> QED BY <2>2
<1>3. \E f : IsK(f)
  <2> HIDE DEF K
  <2> QED BY <1>1, ReachExists
<1>4. OB!Closure = CHOOSE g : IsC(g)
  BY Zenon DEF OB!Closure
<1>5. IsK(OB!Closure)
  <2> HIDE DEF IsC, IsK
  <2> QED BY <1>2, <1>3, <1>4
<1>6. OB!Closure[o] = {o} \cup UNION {OB!Closure[c] : c \in K[o]}
  <2> HIDE DEF K
  <2> QED BY <1>1, <1>5, ReachIs
<1> QED BY <1>6

(* An object is among what it reaches, what it reaches is closed, and every   *)
(* closed set that has the object has it all.                                 *)
LEMMA ClosureIsLeast ==
    ASSUME NEW S \in SUBSET OB!Object, Closed(S), NEW o \in S
    PROVE  OB!Closure[o] \subseteq S
<1> DEFINE F == {x \in S : ~ OB!Closure[x] \subseteq S}
<1> SUFFICES ASSUME F # {} PROVE FALSE
  OBVIOUS
<1>1. PICK x \in F : Kids(x) \cap F = {}
  <2>1. F \in SUBSET OB!Object
    OBVIOUS
  <2> HIDE DEF F
  <2> QED BY <2>1, ObjectFacts
<1>2. \A c \in Kids(x) : OB!Closure[c] \subseteq S
  BY <1>1 DEF Closed
<1>3. OB!Closure[x] = {x} \cup UNION {OB!Closure[c] : c \in Kids(x)}
  BY <1>1, ClosureIs
<1> QED BY <1>1, <1>2, <1>3

LEMMA ClosureIsClosed ==
    ASSUME NEW o \in OB!Object
    PROVE  o \in OB!Closure[o] /\ OB!Closure[o] \in SUBSET OB!Object /\ Closed(OB!Closure[o])
<1>1. \A x \in OB!Object : x \in OB!Closure[x]
  BY ClosureIs
<1>2. OB!Closure[o] \in SUBSET OB!Object
  <2>1. Closed(OB!Object) /\ OB!Object \in SUBSET OB!Object
    BY ObjectFacts DEF Closed
  <2> QED BY <2>1, ClosureIsLeast
<1> DEFINE F == {x \in OB!Object : ~ Closed(OB!Closure[x])}
<1>3. SUFFICES ASSUME F # {} PROVE FALSE
  BY <1>1, <1>2
<1>4. PICK x \in F : Kids(x) \cap F = {}
  <2>1. F \in SUBSET OB!Object
    OBVIOUS
  <2> HIDE DEF F
  <2> QED BY <1>3, <2>1, ObjectFacts
<1>5. x \in OB!Object /\ \A c \in Kids(x) : c \in OB!Object /\ c \in OB!Closure[c] /\ Closed(OB!Closure[c])
  BY <1>1, <1>4, ObjectFacts
<1>6. OB!Closure[x] = {x} \cup UNION {OB!Closure[c] : c \in Kids(x)}
  BY <1>5, ClosureIs
<1>7. Closed(OB!Closure[x])
  BY <1>5, <1>6 DEF Closed
<1> QED BY <1>4, <1>7

LEMMA ClosureFacts ==
    /\ \A o \in OB!Object : \A x \in OB!Closure[o] : OB!Closure[x] \subseteq OB!Closure[o]
    /\ \A e \in Stops : OB!Closure[e] = {e}
<1>1. \A o \in OB!Object : \A x \in OB!Closure[o] : OB!Closure[x] \subseteq OB!Closure[o]
  BY ClosureIsClosed, ClosureIsLeast
<1>2. ASSUME NEW e \in Stops PROVE OB!Closure[e] = {e}
  <2>1. e \in OB!Object /\ Kids(e) = {}
    BY ObjectFacts
  <2> QED BY <2>1, ClosureIs
<1> QED BY <1>1, <1>2

(* What the guard reads: of a commit the first parent and the tree, of a tree *)
(* what is no symlink; all of it is among what the object reaches.            *)
LEMMA FirmKidsAre ==
    ASSUME NEW o \in OB!Object
    PROVE  /\ OB!FirmKids(o) \subseteq Kids(o)
           /\ o \in Submitted \cup {FirstCommit}
              => OB!FirmKids(o) = {Head(Child[o]), OB!Last(Child[o])} /\ OB!Last(Child[o]) \in OB!Object
<1>1. Child[o] \in Seq(OB!Object) /\ (o \in Submitted \cup {FirstCommit} => Child[o] # <<>>)
  BY StoreAssumption DEF OB!ObjectsAssumption
<1>2. CASE o \in Submitted \cup {FirstCommit}
  <2>1. Child[o] \in Seq(OB!Object) /\ Len(Child[o]) \in Nat /\ Len(Child[o]) >= 1 /\ DOMAIN Child[o] = 1..Len(Child[o])
    BY <1>1, <1>2
  <2>2. Head(Child[o]) = Child[o][1] /\ OB!Last(Child[o]) = Child[o][Len(Child[o])]
    BY <1>1, <1>2 DEF OB!Last
  <2>3. 1 \in DOMAIN Child[o] /\ Len(Child[o]) \in DOMAIN Child[o]
    BY <2>1
  <2>4. Head(Child[o]) \in Kids(o) /\ OB!Last(Child[o]) \in Kids(o)
    BY <2>2, <2>3 DEF Kids
  <2> QED BY <1>2, <2>4, ObjectFacts DEF OB!FirmKids
<1>3. CASE o \notin Submitted \cup {FirstCommit}
  BY <1>3, ObjectFacts DEF OB!FirmKids
<1> QED BY <1>2, <1>3

LEMMA FirmIs ==
    ASSUME NEW o \in OB!Object
    PROVE  OB!Firm[o] = {o} \cup UNION {OB!Firm[c] : c \in OB!FirmKids(o)}
<1> DEFINE K == [x \in OB!Object |-> OB!FirmKids(x)]
           IsF(f) == f = [x \in OB!Object |-> {x} \cup UNION {f[c] : c \in OB!FirmKids(x)}]
           IsK(f) == f = [x \in OB!Object |-> {x} \cup UNION {f[c] : c \in K[x]}]
<1>1. K \in [OB!Object -> SUBSET OB!Object]
  BY FirmKidsAre, ObjectFacts
<1>2. \A f : IsF(f) <=> IsK(f)
  <2> TAKE f
  <2>1. \A x \in OB!Object : OB!FirmKids(x) = K[x]
    OBVIOUS
  <2> HIDE DEF K
  <2>2. [x \in OB!Object |-> {x} \cup UNION {f[c] : c \in OB!FirmKids(x)}]
        = [x \in OB!Object |-> {x} \cup UNION {f[c] : c \in K[x]}]
    BY <2>1
  <2> QED BY <2>2
<1>3. \E f : IsK(f)
  <2> HIDE DEF K
  <2> QED BY <1>1, ReachExists
<1>4. OB!Firm = CHOOSE g : IsF(g)
  BY Zenon DEF OB!Firm
<1>5. IsK(OB!Firm)
  <2> HIDE DEF IsF, IsK
  <2> QED BY <1>2, <1>3, <1>4
<1>6. OB!Firm[o] = {o} \cup UNION {OB!Firm[c] : c \in K[o]}
  <2> HIDE DEF K
  <2> QED BY <1>1, <1>5, ReachIs
<1> QED BY <1>6

LEMMA FirmReached ==
    ASSUME NEW o \in OB!Object
    PROVE  OB!Firm[o] \subseteq OB!Closure[o]
<1> DEFINE F == {x \in OB!Object : ~ OB!Firm[x] \subseteq OB!Closure[x]}
<1> SUFFICES ASSUME F # {} PROVE FALSE
  OBVIOUS
<1>1. PICK x \in F : Kids(x) \cap F = {}
  <2>1. F \in SUBSET OB!Object
    OBVIOUS
  <2> HIDE DEF F
  <2> QED BY <2>1, ObjectFacts
<1>2. x \in OB!Object /\ \A c \in OB!FirmKids(x) : c \in Kids(x) /\ OB!Firm[c] \subseteq OB!Closure[c]
  BY <1>1, FirmKidsAre, ObjectFacts
<1>3. OB!Firm[x] = {x} \cup UNION {OB!Firm[c] : c \in OB!FirmKids(x)}
  BY <1>2, FirmIs
<1>4. OB!Closure[x] = {x} \cup UNION {OB!Closure[c] : c \in Kids(x)}
  BY <1>2, ClosureIs
<1>5. OB!Firm[x] \subseteq OB!Closure[x]
  BY <1>2, <1>3, <1>4
<1> QED BY <1>1, <1>5

(* The inductive invariant of the line's objects.                             *)

Stages == {"idle", "markCache", "deleteCache", "seed", "fetch", "attest", "push", "merge", "markLine", "deleteLine"}
Aging == [OB!Object -> OB!Age]
Subs == [at : Stages, commit : Submitted \cup {FirstCommit}, base : OB!Object, doomed : SUBSET OB!Object]

ObjectTypeOK ==
    /\ repo \in Aging /\ cache \in Aging
    /\ master \in Submitted \cup {FirstCommit} /\ candidates \subseteq OB!Object
    /\ stop \in Stops \cup {OB!None} /\ pulling \in Stops \cup {OB!None}
    /\ sub \in Subs
    /\ obPast \in [submits : Nat, ticks : Nat, crashes : Nat, masters : SUBSET OB!Object,
                   swept : BOOLEAN, pruned : SUBSET {"deleteLine", "deleteCache"}]

(* What the line is about to delete is past the grace and out of every ref's  *)
(* reach, and the event a pull has written is not past it.                    *)
DoomedApart ==
    /\ sub.at = "deleteLine" => \A o \in sub.doomed : repo[o] = "old" /\ o \notin OB!ReachedBy(OB!LineRefs)
    /\ pulling # OB!None => repo[pulling] = "new"

(* Whatever is held, what it refers to is held.                               *)
WholeParts ==
    /\ "deleteLine" \notin obPast.pruned => Closed(OB!Held(repo))
    /\ "deleteCache" \notin obPast.pruned => Closed(OB!Held(cache))

ObjectInv == ObjectTypeOK /\ DoomedApart /\ OB!LineStaysWhole /\ WholeParts

LEMMA MasterReached ==
    ASSUME NEW refs
    PROVE  \A r \in refs : OB!Closure[r] \subseteq OB!ReachedBy(refs)
BY DEF OB!ReachedBy

LEMMA ObjectInit == OB!Init => ObjectInv
<1> SUFFICES ASSUME OB!Init PROVE ObjectInv
  OBVIOUS
<1> USE DEF OB!Init
<1>1. FirstCommit \in OB!Object /\ OB!Closure[FirstCommit] \in SUBSET OB!Object /\ Closed(OB!Closure[FirstCommit]) /\ FirstCommit \in OB!Closure[FirstCommit]
  BY ObjectFacts, ClosureIsClosed
<1>2. OB!Held(repo) = OB!Closure[FirstCommit] /\ OB!Held(cache) = {}
  BY <1>1 DEF OB!Held, OB!None
<1>3. ObjectTypeOK
  <2>1. repo \in Aging /\ cache \in Aging
    BY DEF Aging, OB!Age, OB!None
  <2>2. sub \in Subs
    BY <1>1 DEF OB!Idle, Stages, Subs
  <2> QED BY <1>1, <2>1, <2>2 DEF ObjectTypeOK
<1>4. DoomedApart
  BY DEF DoomedApart, OB!Idle
<1>5. OB!LineStaysWhole
  BY <1>1, <1>2, FirmReached DEF OB!LineStaysWhole
<1>6. WholeParts
  BY <1>1, <1>2 DEF WholeParts, Closed
<1> QED BY <1>3, <1>4, <1>5, <1>6 DEF ObjectInv

(* What holds of the line goes on holding when its objects, master and the    *)
(* objects about to be deleted stay as they are.                              *)
LEMMA LineRests ==
    ASSUME ObjectInv, ObjectTypeOK', UNCHANGED <<repo, master>>,
           sub'.at = "deleteLine" => sub.at = "deleteLine" /\ sub'.doomed \subseteq sub.doomed,
           sub.at = "deleteLine" => \A o \in sub.doomed : o \in OB!ReachedBy(OB!LineRefs)' => o \in OB!ReachedBy(OB!LineRefs),
           pulling' \in {pulling, OB!None},
           obPast'.pruned = obPast.pruned,
           "deleteCache" \notin obPast.pruned => Closed(OB!Held(cache'))
    PROVE  ObjectInv'
<1>1. DoomedApart'
  BY DEF ObjectInv, DoomedApart
<1>2. OB!LineStaysWhole'
  BY DEF ObjectInv, OB!LineStaysWhole, OB!Held
<1>3. WholeParts'
  BY DEF ObjectInv, WholeParts, OB!Held
<1> QED BY <1>1, <1>2, <1>3 DEF ObjectInv

(* A copy writes one object, and nothing that it refers to is missing.        *)
LEMMA CopyFacts ==
    ASSUME NEW r \in Aging, NEW source, NEW o \in OB!Object, NEW after \in OB!Copies(r, source, o)
    PROVE  /\ after \in Aging /\ OB!Held(r) \subseteq OB!Held(after)
           /\ Closed(OB!Held(r)) => Closed(OB!Held(after))
           /\ \A y \in OB!Object : r[y] = "new" => after[y] = "new"
<1>1. PICK x \in OB!Deepest(r, o) : after = [r EXCEPT ![x] = "new"]
  BY DEF OB!Copies
<1>2. x \in OB!Object /\ OB!Missing(r, x) = {}
  BY DEF OB!Deepest
<1>3. Kids(x) \subseteq OB!Held(r)
  <2>1. \A i \in DOMAIN Child[x] : r[Child[x][i]] # OB!None
    BY <1>2 DEF OB!Missing
  <2> QED BY <1>2, <2>1, ObjectFacts DEF Kids, OB!Held
<1>4. after \in Aging
  BY <1>1, <1>2 DEF Aging, OB!Age
<1>5. OB!Held(after) = OB!Held(r) \cup {x}
  BY <1>1, <1>2 DEF Aging, OB!Held, OB!None
<1>6. \A y \in OB!Object : r[y] = "new" => after[y] = "new"
  BY <1>1, <1>2 DEF Aging
<1> QED BY <1>3, <1>4, <1>5, <1>6 DEF Closed

(* Time passes: nothing comes and nothing goes.                               *)
LEMMA AgedFacts ==
    ASSUME NEW r \in Aging
    PROVE  OB!Aged(r) \in Aging /\ OB!Held(OB!Aged(r)) = OB!Held(r) /\ \A o \in OB!Object : r[o] = "old" => OB!Aged(r)[o] = "old"
<1>1. OB!Aged(r) = [o \in OB!Object |-> IF r[o] = "new" THEN "old" ELSE r[o]]
  BY DEF OB!Aged
<1>2. OB!Aged(r) \in Aging
  BY <1>1 DEF Aging, OB!Age
<1>3. OB!Held(OB!Aged(r)) = OB!Held(r)
  BY <1>1 DEF OB!Held, OB!None
<1> QED BY <1>1, <1>2, <1>3

(* Where the submission may go.                                               *)
LEMMA SubTypes ==
    ASSUME ObjectTypeOK
    PROVE  /\ OB!Idle \in Subs
           /\ OB!Idle.at = "idle"
           /\ \A a \in Stages : OB!Goto(a) => /\ sub' \in Subs
                                              /\ sub'.at = a /\ sub'.doomed = sub.doomed /\ sub'.commit = sub.commit
           /\ sub.at \in Stages /\ sub.commit \in Submitted \cup {FirstCommit} /\ sub.commit \in OB!Object
           /\ sub.doomed \in SUBSET OB!Object
BY ObjectFacts DEF ObjectTypeOK, OB!Idle, OB!Goto, Stages, Subs

LEMMA SubmitInv ==
    ASSUME ObjectInv, NEW c \in Submitted, NEW base \in Submitted \cup {FirstCommit}, OB!Submit(c, base)
    PROVE  ObjectInv'
<1> USE DEF OB!Submit
<1>1. ObjectTypeOK'
  <2>1. obPast' \in [submits : Nat, ticks : Nat, crashes : Nat, masters : SUBSET OB!Object,
                     swept : BOOLEAN, pruned : SUBSET {"deleteLine", "deleteCache"}]
    <3>1. obPast' = [obPast EXCEPT !.submits = obPast.submits + 1, !.swept = TRUE] /\ obPast.submits + 1 \in Nat
      BY DEF ObjectInv, ObjectTypeOK
    <3> QED BY <3>1 DEF ObjectInv, ObjectTypeOK
  <2>2. c \in OB!Object /\ base \in OB!Object
    BY ObjectFacts
  <2>3. sub' \in Subs
    BY <2>2 DEF Stages, Subs
  <2> QED BY <2>1, <2>3 DEF ObjectInv, ObjectTypeOK
<1>2. sub'.at = "markCache" /\ UNCHANGED <<repo, cache, master, candidates, stop, pulling>>
  OBVIOUS
<1>3. obPast'.pruned = obPast.pruned
  BY DEF ObjectInv, ObjectTypeOK
<1>4. OB!LineRefs' = OB!LineRefs
  BY <1>2 DEF OB!LineRefs
<1>5. sub.at = "idle"
  BY DEF OB!Idle
<1>6. "deleteCache" \notin obPast.pruned => Closed(OB!Held(cache'))
  BY <1>2 DEF ObjectInv, WholeParts
<1> QED BY <1>1, <1>2, <1>3, <1>5, <1>6, LineRests

LEMMA PruneMarkInv ==
    ASSUME ObjectInv, OB!PruneMark(cache, cacheRefs, "markCache", "deleteCache") \/ OB!PruneMark(repo, OB!LineRefs, "markLine", "deleteLine")
    PROVE  ObjectInv'
<1>1. UNCHANGED <<repo, cache, master, candidates, stop, cacheRefs, pulling, obPast>>
  BY DEF OB!PruneMark
<1>2. OB!LineRefs' = OB!LineRefs
  BY <1>1 DEF OB!LineRefs
<1> DEFINE Marks(d, a) ==
             /\ sub' = OB!Idle \/ sub' = [sub EXCEPT !.at = a, !.doomed = d]
             /\ a = "deleteLine" => \A o \in d : repo[o] = "old" /\ o \notin OB!ReachedBy(OB!LineRefs)
<1>3. PICK d \in SUBSET OB!Object, a \in {"deleteCache", "deleteLine"} : Marks(d, a)
  <2>1. CASE OB!PruneMark(cache, cacheRefs, "markCache", "deleteCache")
    <3> DEFINE d == {o \in OB!Object \ OB!ReachedBy(cacheRefs) : OB!Expired(cache, o)}
    <3>1. sub' = OB!Idle \/ sub' = [sub EXCEPT !.at = "deleteCache", !.doomed = d]
      BY <2>1 DEF OB!PruneMark, OB!End
    <3>2. d \in SUBSET OB!Object
      OBVIOUS
    <3> HIDE DEF d
    <3>3. Marks(d, "deleteCache")
      BY <3>1
    <3> HIDE DEF Marks
    <3> QED BY <3>2, <3>3
  <2>2. CASE OB!PruneMark(repo, OB!LineRefs, "markLine", "deleteLine")
    <3> DEFINE d == {o \in OB!Object \ OB!ReachedBy(OB!LineRefs) : OB!Expired(repo, o)}
    <3>1. sub' = OB!Idle \/ sub' = [sub EXCEPT !.at = "deleteLine", !.doomed = d]
      BY <2>2 DEF OB!PruneMark, OB!End
    <3>2. \A o \in d : repo[o] = "old" /\ o \notin OB!ReachedBy(OB!LineRefs)
      BY DEF OB!Expired
    <3>3. d \in SUBSET OB!Object
      OBVIOUS
    <3> HIDE DEF d
    <3>4. Marks(d, "deleteLine")
      BY <3>1, <3>2
    <3> HIDE DEF Marks
    <3> QED BY <3>3, <3>4
  <2> QED BY <2>1, <2>2
<1>4. /\ sub' \in Subs
      /\ sub'.at = "deleteLine" => \A o \in sub'.doomed : repo[o] = "old" /\ o \notin OB!ReachedBy(OB!LineRefs)
  <2>1. CASE sub' = OB!Idle
    BY <2>1, SubTypes DEF ObjectInv
  <2>2. CASE sub' = [sub EXCEPT !.at = a, !.doomed = d]
    BY <1>3, <2>2 DEF ObjectInv, ObjectTypeOK, Stages, Subs
  <2> QED BY <1>3, <2>1, <2>2
<1>5. ObjectTypeOK'
  BY <1>1, <1>4 DEF ObjectInv, ObjectTypeOK
<1>6. DoomedApart'
  <2>1. OB!ReachedBy(OB!LineRefs)' = OB!ReachedBy(OB!LineRefs)
    BY <1>2 DEF OB!ReachedBy
  <2> QED BY <1>1, <1>4, <2>1 DEF ObjectInv, DoomedApart
<1>7. OB!LineStaysWhole' /\ WholeParts'
  BY <1>1 DEF ObjectInv, OB!LineStaysWhole, WholeParts, OB!Held
<1> QED BY <1>5, <1>6, <1>7 DEF ObjectInv

(* A prune deletes what it doomed: master's objects are not among it, and     *)
(* what it leaves of a repository may no longer be whole, which obPast tells. *)
LEMMA PruneDeleteInv ==
    ASSUME ObjectInv, OB!PruneDelete
    PROVE  ObjectInv'
<1>1. PICK o \in sub.doomed :
        /\ \/ sub.at = "deleteLine" /\ repo' = [repo EXCEPT ![o] = OB!None] /\ UNCHANGED cache
           \/ sub.at = "deleteCache" /\ cache' = [cache EXCEPT ![o] = OB!None] /\ UNCHANGED repo
        /\ sub' = [sub EXCEPT !.doomed = @ \ {o}]
  BY DEF OB!PruneDelete, OB!Delete
<1>2. obPast' = [obPast EXCEPT !.pruned = @ \cup {sub.at}] /\ UNCHANGED <<master, candidates, stop, cacheRefs, pulling>>
  BY DEF OB!PruneDelete
<1>3. o \in OB!Object /\ sub'.at = sub.at /\ sub'.doomed = sub.doomed \ {o}
      /\ sub' \in Subs
  BY <1>1 DEF ObjectInv, ObjectTypeOK, Subs
<1>4. repo' \in Aging /\ cache' \in Aging
  BY <1>1, <1>3 DEF ObjectInv, ObjectTypeOK, Aging, OB!Age
<1>5. obPast'.pruned = obPast.pruned \cup {sub.at}
      /\ obPast' \in [submits : Nat, ticks : Nat, crashes : Nat, masters : SUBSET OB!Object,
                      swept : BOOLEAN, pruned : SUBSET {"deleteLine", "deleteCache"}]
  BY <1>1, <1>2 DEF ObjectInv, ObjectTypeOK
<1>6. ObjectTypeOK'
  BY <1>2, <1>3, <1>4, <1>5 DEF ObjectInv, ObjectTypeOK
<1>7. OB!LineRefs' = OB!LineRefs
  BY <1>2 DEF OB!LineRefs
<1>8. OB!ReachedBy(OB!LineRefs)' = OB!ReachedBy(OB!LineRefs)
  BY <1>7 DEF OB!ReachedBy
<1>9. CASE sub.at = "deleteLine"
  <2>1. repo' = [repo EXCEPT ![o] = OB!None] /\ UNCHANGED cache /\ repo[o] = "old" /\ o \notin OB!ReachedBy(OB!LineRefs)
    BY <1>1, <1>9 DEF ObjectInv, DoomedApart
  <2>2. \A x \in OB!Object : x # o => repo'[x] = repo[x]
    BY <2>1 DEF ObjectInv, ObjectTypeOK, Aging
  <2>3. DoomedApart'
    <3>1. pulling # OB!None => pulling # o /\ pulling \in OB!Object
      BY <2>1, ObjectFacts DEF ObjectInv, ObjectTypeOK, DoomedApart
    <3>2. \A x \in sub'.doomed : repo'[x] = "old" /\ x \notin OB!ReachedBy(OB!LineRefs)
      BY <1>3, <1>9, <2>2 DEF ObjectInv, DoomedApart, ObjectTypeOK, Subs
    <3> QED BY <1>2, <1>8, <2>2, <3>1, <3>2 DEF ObjectInv, DoomedApart
  <2>4. OB!LineStaysWhole'
    <3>1. master \in OB!LineRefs /\ master \in OB!Object /\ OB!Closure[master] \in SUBSET OB!Object
      BY ObjectFacts, ClosureIsClosed DEF OB!LineRefs, ObjectInv, ObjectTypeOK
    <3>2. o \notin OB!Closure[master] /\ OB!Firm[master] \subseteq OB!Closure[master]
      BY <2>1, <3>1, MasterReached, FirmReached
    <3> QED BY <1>2, <2>2, <3>1, <3>2 DEF ObjectInv, OB!LineStaysWhole, OB!Held
  <2>5. WholeParts'
    BY <1>5, <1>9, <2>1 DEF ObjectInv, WholeParts, OB!Held
  <2> QED BY <1>6, <2>3, <2>4, <2>5 DEF ObjectInv
<1>10. CASE sub.at = "deleteCache"
  <2>1. UNCHANGED repo
    BY <1>1, <1>10
  <2>2. DoomedApart' /\ OB!LineStaysWhole'
    BY <1>2, <1>3, <1>10, <2>1 DEF ObjectInv, DoomedApart, OB!LineStaysWhole, OB!Held
  <2>3. WholeParts'
    BY <1>5, <1>10, <2>1 DEF ObjectInv, WholeParts, OB!Held
  <2> QED BY <1>6, <2>2, <2>3 DEF ObjectInv
<1> QED BY <1>1, <1>9, <1>10

(* The steps that neither write to the line nor move its refs.                *)
LEMMA OtherRepoInv ==
    ASSUME ObjectInv, OB!PruneDone \/ OB!SeedCopy \/ OB!FetchBundle \/ OB!Attest
    PROVE  ObjectInv'
<1>1. UNCHANGED <<repo, master, candidates, stop, pulling, obPast>>
  BY DEF OB!PruneDone, OB!SeedCopy, OB!FetchBundle, OB!Attest
<1>2. sub' = sub \/ sub' = OB!Idle \/ OB!Goto("seed") \/ OB!Goto("fetch") \/ OB!Goto("attest") \/ OB!Goto("push")
  BY DEF OB!PruneDone, OB!SeedCopy, OB!FetchBundle, OB!Attest, OB!End
<1>3. /\ sub' \in Subs
      /\ sub'.at = "deleteLine" => sub' = sub
  <2>1. CASE sub' = sub
    BY <2>1 DEF ObjectInv, ObjectTypeOK
  <2>2. CASE sub' = OB!Idle
    BY <2>2, SubTypes DEF ObjectInv
  <2>3. ASSUME NEW a \in {"seed", "fetch", "attest", "push"}, OB!Goto(a)
        PROVE  sub' \in Subs /\ sub'.at = a
    BY <2>3, SubTypes DEF ObjectInv, Stages
  <2> QED BY <1>2, <2>1, <2>2, <2>3
<1>4. \/ cache' = cache
      \/ cache' \in OB!Copies(cache, OB!Held(repo), master)
      \/ cache' \in OB!Copies(cache, OB!BundleOf(sub.commit, sub.base), sub.commit)
  BY DEF OB!PruneDone, OB!SeedCopy, OB!FetchBundle, OB!Attest
<1>5. cache' \in Aging /\ (Closed(OB!Held(cache)) => Closed(OB!Held(cache')))
  <2>1. cache \in Aging /\ master \in OB!Object /\ sub.commit \in OB!Object
    BY ObjectFacts DEF ObjectInv, ObjectTypeOK, Subs
  <2> QED BY <1>4, <2>1, CopyFacts
<1>6. ObjectTypeOK'
  BY <1>1, <1>3, <1>5 DEF ObjectInv, ObjectTypeOK
<1>7. OB!ReachedBy(OB!LineRefs)' = OB!ReachedBy(OB!LineRefs)
  BY <1>1 DEF OB!ReachedBy, OB!LineRefs
<1>8. "deleteCache" \notin obPast.pruned => Closed(OB!Held(cache'))
  BY <1>5 DEF ObjectInv, WholeParts
<1> QED BY <1>1, <1>3, <1>6, <1>7, <1>8, LineRests

LEMMA PushCommitInv ==
    ASSUME ObjectInv, OB!PushCommit
    PROVE  ObjectInv'
<1>1. UNCHANGED <<cache, master, stop, pulling, obPast>> /\ sub.at = "push" /\ repo \in Aging /\ sub.commit \in OB!Object
  BY ObjectFacts DEF OB!PushCommit, ObjectInv, ObjectTypeOK, Subs
<1>2. \/ repo' \in OB!Copies(repo, OB!Held(cache), sub.commit) /\ UNCHANGED <<candidates, sub>>
      \/ candidates' = candidates \cup {sub.commit} /\ OB!Goto("merge") /\ UNCHANGED repo
  BY DEF OB!PushCommit
<1>3. /\ sub' \in Subs
      /\ sub'.at # "deleteLine" /\ candidates' \subseteq OB!Object
  <2>1. OB!Goto("merge") => sub' \in Subs /\ sub'.at = "merge"
    BY SubTypes DEF ObjectInv, Stages
  <2> QED BY <1>1, <1>2, <2>1 DEF ObjectInv, ObjectTypeOK
<1>4. repo' \in Aging /\ OB!Held(repo) \subseteq OB!Held(repo') /\ (Closed(OB!Held(repo)) => Closed(OB!Held(repo')))
  <2>1. CASE repo' \in OB!Copies(repo, OB!Held(cache), sub.commit)
    BY <1>1, <2>1, CopyFacts
  <2>2. CASE UNCHANGED repo
    BY <1>1, <2>2
  <2> QED BY <1>2, <2>1, <2>2
<1>5. ObjectTypeOK'
  BY <1>1, <1>3, <1>4 DEF ObjectInv, ObjectTypeOK
<1>6. DoomedApart'
  <2>1. pulling # OB!None => repo'[pulling] = "new"
    <3>1. CASE repo' \in OB!Copies(repo, OB!Held(cache), sub.commit)
      BY <1>1, <3>1, CopyFacts, ObjectFacts DEF ObjectInv, DoomedApart, ObjectTypeOK
    <3>2. CASE UNCHANGED repo
      BY <3>2 DEF ObjectInv, DoomedApart
    <3> QED BY <1>2, <3>1, <3>2
  <2> QED BY <1>1, <1>3, <2>1 DEF DoomedApart
<1>7. OB!LineStaysWhole'
  BY <1>1, <1>4 DEF ObjectInv, OB!LineStaysWhole
<1>8. WholeParts'
  BY <1>1, <1>4 DEF ObjectInv, WholeParts, OB!Held
<1> QED BY <1>5, <1>6, <1>7, <1>8 DEF ObjectInv

(* Guard.Merge reads what differs before master moves to it.                  *)
LEMMA MergeInv ==
    ASSUME ObjectInv, OB!Merge
    PROVE  ObjectInv'
<1>1. /\ candidates' = candidates \ {sub.commit} /\ UNCHANGED <<repo, cache, stop, pulling>>
      /\ \/ /\ Head(Child[sub.commit]) = master /\ OB!Reads(sub.commit)
            /\ master' = sub.commit /\ sub' = OB!Idle
            /\ obPast' = [obPast EXCEPT !.masters = @ \cup {sub.commit}]
         \/ OB!Goto("markLine") /\ UNCHANGED <<master, obPast>>
  BY DEF OB!Merge, OB!End
<1>2. /\ sub' \in Subs
      /\ sub'.at # "deleteLine" /\ sub.commit \in Submitted \cup {FirstCommit} /\ sub.commit \in OB!Object
  <2>1. OB!Goto("markLine") => sub' \in Subs /\ sub'.at = "markLine"
    BY SubTypes DEF ObjectInv, Stages
  <2> QED BY <1>1, <2>1, SubTypes DEF ObjectInv
<1>3. /\ obPast' \in [submits : Nat, ticks : Nat, crashes : Nat, masters : SUBSET OB!Object,
                      swept : BOOLEAN, pruned : SUBSET {"deleteLine", "deleteCache"}]
      /\ obPast'.pruned = obPast.pruned
  BY <1>1, <1>2 DEF ObjectInv, ObjectTypeOK
<1>4. ObjectTypeOK'
  <2>1. candidates' \subseteq OB!Object /\ master' \in Submitted \cup {FirstCommit}
    BY <1>1, <1>2 DEF ObjectInv, ObjectTypeOK
  <2> QED BY <1>1, <1>2, <1>3, <2>1 DEF ObjectInv, ObjectTypeOK
<1>5. DoomedApart'
  BY <1>1, <1>2 DEF ObjectInv, DoomedApart
<1>6. OB!LineStaysWhole'
  <2>1. CASE UNCHANGED master
    BY <1>1, <2>1 DEF ObjectInv, OB!LineStaysWhole, OB!Held
  <2>2. CASE master' = sub.commit /\ Head(Child[sub.commit]) = master /\ OB!Reads(sub.commit)
    <3>1. master \in Submitted \cup {FirstCommit} /\ master \in OB!Object /\ OB!Firm[master] \subseteq OB!Held(repo)
      BY ObjectFacts DEF ObjectInv, ObjectTypeOK, OB!LineStaysWhole
    <3>2. OB!Content(master) \subseteq OB!Firm[master]
      BY <3>1, FirmKidsAre, FirmIs DEF OB!Content
    <3>3. {sub.commit} \cup OB!Content(sub.commit) \subseteq OB!Held(repo)
      BY <2>2, <3>1, <3>2 DEF OB!Reads
    <3>4. OB!FirmKids(sub.commit) = {master, OB!Last(Child[sub.commit])}
      BY <1>2, <2>2, FirmKidsAre
    <3>5. OB!Firm[sub.commit] = {sub.commit} \cup OB!Firm[master] \cup OB!Content(sub.commit)
      BY <1>2, <3>4, FirmIs DEF OB!Content
    <3>6. OB!Held(repo)' = OB!Held(repo)
      BY <1>1 DEF OB!Held
    <3> QED BY <2>2, <3>1, <3>3, <3>5, <3>6 DEF OB!LineStaysWhole
  <2> QED BY <1>1, <2>1, <2>2
<1>7. WholeParts'
  BY <1>1, <1>3 DEF ObjectInv, WholeParts, OB!Held
<1> QED BY <1>4, <1>5, <1>6, <1>7 DEF ObjectInv

LEMMA WriteBlobInv ==
    ASSUME ObjectInv, NEW e \in Stops, OB!WriteBlob(e)
    PROVE  ObjectInv'
<1>1. repo[e] = OB!None /\ pulling' = e /\ repo' = [repo EXCEPT ![e] = "new"] /\ UNCHANGED <<cache, master, candidates, stop, sub, obPast>>
  BY DEF OB!WriteBlob
<1>2. e \in OB!Object /\ Kids(e) = {}
  BY ObjectFacts
<1>3. /\ repo' \in Aging /\ repo'[e] = "new" /\ OB!Held(repo') = OB!Held(repo) \cup {e}
      /\ \A o \in OB!Object : o # e => repo'[o] = repo[o]
  BY <1>1, <1>2 DEF ObjectInv, ObjectTypeOK, Aging, OB!Age, OB!Held, OB!None
<1>4. ObjectTypeOK'
  BY <1>1, <1>2, <1>3 DEF ObjectInv, ObjectTypeOK
<1>5. DoomedApart'
  <2>1. OB!ReachedBy(OB!LineRefs)' = OB!ReachedBy(OB!LineRefs)
    BY <1>1 DEF OB!ReachedBy, OB!LineRefs
  <2>2. sub.at = "deleteLine" => \A o \in sub.doomed : o # e /\ o \in OB!Object
    BY <1>1 DEF ObjectInv, ObjectTypeOK, DoomedApart, Subs, OB!None
  <2> QED BY <1>1, <1>3, <2>1, <2>2 DEF ObjectInv, DoomedApart
<1>6. OB!LineStaysWhole'
  BY <1>1, <1>3 DEF ObjectInv, OB!LineStaysWhole
<1>7. WholeParts'
  BY <1>1, <1>2, <1>3 DEF ObjectInv, WholeParts, Closed, OB!Held
<1> QED BY <1>4, <1>5, <1>6, <1>7 DEF ObjectInv

(* A pull sets its ref to an event that is not past the grace, so to none a   *)
(* prune under way has doomed; a clear drops a ref.                           *)
LEMMA StopInv ==
    ASSUME ObjectInv, OB!PullRef \/ OB!Clear
    PROVE  ObjectInv'
<1>1. UNCHANGED <<repo, cache, master, candidates, sub, obPast>>
  BY DEF OB!PullRef, OB!Clear
<1>2. stop' \in {pulling, OB!None} /\ pulling' \in {pulling, OB!None} /\ pulling \in Stops \cup {OB!None}
  BY DEF OB!PullRef, OB!Clear, ObjectInv, ObjectTypeOK
<1>3. ObjectTypeOK'
  BY <1>1, <1>2 DEF ObjectInv, ObjectTypeOK
<1>4. ASSUME NEW o, sub.at = "deleteLine", o \in sub.doomed, o \in OB!ReachedBy(OB!LineRefs)'
      PROVE  o \in OB!ReachedBy(OB!LineRefs)
  <2>1. PICK r \in OB!LineRefs' : o \in OB!Closure[r]
    BY <1>4 DEF OB!ReachedBy
  <2>2. r \in OB!LineRefs \/ (r = pulling /\ pulling # OB!None)
    BY <1>1, <1>2, <2>1 DEF OB!LineRefs
  <2>3. CASE r = pulling /\ pulling # OB!None
    <3>1. OB!Closure[r] = {r}
      BY <1>2, <2>3, ClosureFacts
    <3>2. repo[o] = "new" /\ repo[o] = "old"
      BY <1>4, <2>1, <2>3, <3>1 DEF ObjectInv, DoomedApart
    <3> QED BY <3>2
  <2> QED BY <2>1, <2>2, <2>3 DEF OB!ReachedBy
<1>5. "deleteCache" \notin obPast.pruned => Closed(OB!Held(cache'))
  BY <1>1 DEF ObjectInv, WholeParts
<1> QED BY <1>1, <1>2, <1>3, <1>4, <1>5, LineRests

LEMMA TimeInv ==
    ASSUME ObjectInv, OB!Tick
    PROVE  ObjectInv'
<1>1. /\ pulling = OB!None /\ repo' = OB!Aged(repo) /\ cache' \in {cache, OB!Aged(cache)}
      /\ UNCHANGED <<master, candidates, stop, sub, pulling>>
      /\ obPast' = [obPast EXCEPT !.ticks = @ + 1] /\ repo \in Aging /\ cache \in Aging
  BY DEF OB!Tick, ObjectInv, ObjectTypeOK
<1>2. repo' \in Aging /\ OB!Held(repo') = OB!Held(repo) /\ cache' \in Aging /\ OB!Held(cache') = OB!Held(cache)
      /\ \A o \in OB!Object : repo[o] = "old" => repo'[o] = "old"
  BY <1>1, AgedFacts
<1>3. /\ obPast' \in [submits : Nat, ticks : Nat, crashes : Nat, masters : SUBSET OB!Object,
                      swept : BOOLEAN, pruned : SUBSET {"deleteLine", "deleteCache"}]
      /\ obPast'.pruned = obPast.pruned
  <2>1. obPast' = [obPast EXCEPT !.ticks = obPast.ticks + 1] /\ obPast.ticks + 1 \in Nat
    BY <1>1 DEF ObjectInv, ObjectTypeOK
  <2> QED BY <2>1 DEF ObjectInv, ObjectTypeOK
<1>4. ObjectTypeOK'
  BY <1>1, <1>2, <1>3 DEF ObjectInv, ObjectTypeOK
<1>5. DoomedApart'
  <2>1. OB!ReachedBy(OB!LineRefs)' = OB!ReachedBy(OB!LineRefs)
    BY <1>1 DEF OB!ReachedBy, OB!LineRefs
  <2> QED BY <1>1, <1>2, <2>1 DEF ObjectInv, ObjectTypeOK, DoomedApart, Subs
<1>6. OB!LineStaysWhole'
  BY <1>1, <1>2 DEF ObjectInv, OB!LineStaysWhole
<1>7. WholeParts'
  <2>1. OB!Held(repo)' = OB!Held(repo') /\ OB!Held(cache)' = OB!Held(cache')
    BY DEF OB!Held
  <2> QED BY <1>2, <1>3, <2>1 DEF ObjectInv, WholeParts
<1> QED BY <1>4, <1>5, <1>6, <1>7 DEF ObjectInv

LEMMA CrashInv ==
    ASSUME ObjectInv, OB!Crash
    PROVE  ObjectInv'
<1>1. /\ sub' = OB!Idle /\ pulling' = OB!None /\ UNCHANGED <<repo, cache, master, candidates, stop>>
      /\ obPast' = [obPast EXCEPT !.crashes = @ + 1, !.swept = FALSE]
  BY DEF OB!Crash, OB!End
<1>2. /\ obPast' \in [submits : Nat, ticks : Nat, crashes : Nat, masters : SUBSET OB!Object,
                      swept : BOOLEAN, pruned : SUBSET {"deleteLine", "deleteCache"}]
      /\ obPast'.pruned = obPast.pruned
  <2>1. obPast' = [obPast EXCEPT !.crashes = obPast.crashes + 1, !.swept = FALSE] /\ obPast.crashes + 1 \in Nat
    BY <1>1 DEF ObjectInv, ObjectTypeOK
  <2> QED BY <2>1 DEF ObjectInv, ObjectTypeOK
<1>3. ObjectTypeOK' /\ sub'.at # "deleteLine"
  BY <1>1, <1>2, SubTypes DEF ObjectInv, ObjectTypeOK
<1>4. OB!LineRefs' = OB!LineRefs
  BY <1>1 DEF OB!LineRefs
<1>5. OB!ReachedBy(OB!LineRefs)' = OB!ReachedBy(OB!LineRefs)
  BY <1>4 DEF OB!ReachedBy
<1>6. "deleteCache" \notin obPast.pruned => Closed(OB!Held(cache'))
  BY <1>1 DEF ObjectInv, WholeParts
<1> QED BY <1>1, <1>2, <1>3, <1>5, <1>6, LineRests

LEMMA ObjectStep == ObjectInv /\ [OB!Next]_OB!obVars => ObjectInv'
<1> SUFFICES ASSUME ObjectInv, [OB!Next]_OB!obVars PROVE ObjectInv'
  OBVIOUS
<1>1. ASSUME NEW c \in Submitted, NEW base \in Submitted \cup {FirstCommit}, OB!Submit(c, base) PROVE ObjectInv'
  BY <1>1, SubmitInv
<1>2. CASE OB!PruneMark(cache, cacheRefs, "markCache", "deleteCache") \/ OB!PruneMark(repo, OB!LineRefs, "markLine", "deleteLine")
  BY <1>2, PruneMarkInv
<1>3. CASE OB!PruneDelete
  BY <1>3, PruneDeleteInv
<1>4. CASE OB!PruneDone \/ OB!SeedCopy \/ OB!FetchBundle \/ OB!Attest
  BY <1>4, OtherRepoInv
<1>5. CASE OB!PushCommit \/ OB!Merge
  BY <1>5, PushCommitInv, MergeInv
<1>6. ASSUME NEW e \in Stops, OB!WriteBlob(e) PROVE ObjectInv'
  BY <1>6, WriteBlobInv
<1>7. CASE OB!PullRef \/ OB!Clear \/ OB!Tick \/ OB!Crash
  BY <1>7, StopInv, TimeInv, CrashInv
<1>8. CASE UNCHANGED OB!obVars
  <2>1. UNCHANGED <<repo, cache, master, candidates, stop, cacheRefs, sub, pulling, obPast>>
    BY <1>8 DEF OB!obVars
  <2> QED BY <2>1 DEF ObjectInv, ObjectTypeOK, DoomedApart, WholeParts, OB!LineStaysWhole, OB!Held, OB!ReachedBy, OB!LineRefs
<1> QED BY <1>1, <1>2, <1>3, <1>4, <1>5, <1>6, <1>7, <1>8 DEF OB!Next

LEMMA ObjectSafe == ObjectInv => OB!LineStaysWhole /\ OB!WholeUntilPruned
<1> SUFFICES ASSUME ObjectInv PROVE OB!WholeUntilPruned
  BY DEF ObjectInv
<1>1. OB!Held(repo) \in SUBSET OB!Object /\ OB!Held(cache) \in SUBSET OB!Object
  BY DEF OB!Held
<1>2. \A o \in OB!Object : OB!Range(Child[o]) = Kids(o)
  BY ObjectFacts
<1> QED BY <1>1, <1>2 DEF ObjectInv, WholeParts, Closed, OB!WholeUntilPruned

(* Only a push, a pull's write and a deletion change which of the line's      *)
(* objects are there, and only the last takes one.                            *)
LEMMA LineSpared ==
    ASSUME ObjectInv, [OB!Next]_OB!obVars
    PROVE  sub.at = "deleteLine" => \A o \in OB!Held(repo) : repo'[o] = OB!None => o \notin OB!ReachedBy(OB!LineRefs)
<1> SUFFICES ASSUME sub.at = "deleteLine", NEW o \in OB!Held(repo), repo'[o] = OB!None
             PROVE  o \notin OB!ReachedBy(OB!LineRefs)
  OBVIOUS
<1>1. o \in OB!Object /\ repo[o] # OB!None /\ repo \in Aging /\ repo' # repo
  BY DEF OB!Held, ObjectInv, ObjectTypeOK
<1>2. CASE OB!PruneDelete
  <2>1. PICK x \in sub.doomed : repo' = [repo EXCEPT ![x] = OB!None]
    BY <1>1, <1>2 DEF OB!PruneDelete, OB!Delete
  <2>2. o = x
    BY <1>1, <2>1 DEF Aging
  <2> QED BY <2>1, <2>2 DEF ObjectInv, DoomedApart
<1>3. CASE OB!Tick
  <2>1. repo' = OB!Aged(repo)
    BY <1>3 DEF OB!Tick
  <2> QED BY <1>1, <2>1, AgedFacts DEF OB!Held
<1>4. ASSUME NEW e \in Stops, OB!WriteBlob(e) PROVE FALSE
  <2>1. repo' = [repo EXCEPT ![e] = "new"]
    BY <1>4 DEF OB!WriteBlob
  <2> QED BY <1>1, <2>1 DEF Aging, OB!None
<1>5. OB!PruneDelete \/ OB!Tick \/ \E e \in Stops : OB!WriteBlob(e)
  <2>1. ~OB!PushCommit
    BY DEF OB!PushCommit
  <2> QED BY <1>1, <2>1 DEF OB!Next, OB!obVars, OB!Submit, OB!PruneMark, OB!PruneDone, OB!SeedCopy, OB!FetchBundle, OB!Attest,
                            OB!Merge, OB!PullRef, OB!Clear, OB!Crash
<1> QED BY <1>2, <1>3, <1>4, <1>5

(* Every graph of objects without a circle, and any number of submissions,    *)
(* prunes and crashes (transfer.go, git.go, witness.go): what the guard read  *)
(* of master and of each master before it is in the line's repository, what   *)
(* no prune has touched is whole, and no prune deletes what a ref reaches.    *)
THEOREM ObjectsAreSafe == OB!Spec => ObjectsAreKept
<1>1. OB!Init => ObjectInv
  BY ObjectInit
<1>2. ObjectInv /\ [OB!Next]_OB!obVars => ObjectInv'
  BY ObjectStep
<1>3. ObjectInv => OB!LineStaysWhole /\ OB!WholeUntilPruned
  BY ObjectSafe
<1>4. ObjectInv /\ [OB!Next]_OB!obVars
      => [sub.at = "deleteLine" => \A o \in OB!Held(repo) : repo'[o] = OB!None => o \notin OB!ReachedBy(OB!LineRefs)]_OB!obVars
  BY LineSpared
<1> QED BY <1>1, <1>2, <1>3, <1>4, PTL DEF OB!Spec, ObjectsAreKept, OB!PruneSparesRefs

==============================================================================
