----------------------------- MODULE GuardedLine -----------------------------
(***************************************************************************)
(* What the merge guard promises about the line, with each of its calls    *)
(* taking effect at once: the guarded branch only grows by commits with    *)
(* evidence, the andon cord is pulled only on signed proof that a commit   *)
(* of the line fails, and lifted only on signed proof that a newer commit  *)
(* of the line passes every check.                                         *)
(*                                                                         *)
(* The promise is about "a commit of the line", not "the current master":  *)
(* the guard reads master before it moves a ref and no lock spans the two. *)
(***************************************************************************)
EXTENDS Evidence

VARIABLES
    master,     \* refs/heads/master
    cord,       \* id of the andon event, 0 while the line runs
    failing,    \* commit the cord was pulled on; NoCommit for a hand-made event
    used        \* ids no later event can have

vars == <<master, cord, failing, used>>

Init ==
    /\ master \in Commit
    /\ cord = 0
    /\ failing = NoCommit
    /\ used = {}

(* master moves to one of its children, which carries its evidence.        *)
Land(c) ==
    /\ Parent[c] = master
    /\ c \in Proven
    /\ master' = c
    /\ UNCHANGED <<cord, failing, used>>

(* The cord gets an event id that no earlier event had.                    *)
FreshEvent ==
    /\ cord' \in Nat \ ({0} \cup used)
    /\ used' = used \cup {cord'}

(* The line stops on a failing commit of the line.                         *)
Stop(c) ==
    /\ cord = 0
    /\ FreshEvent
    /\ c \in Chain(master)
    /\ c \in Refuted
    /\ failing' = c
    /\ UNCHANGED master

(* The operator stops the line by hand; there is no failing commit.        *)
StopByHand ==
    /\ cord = 0
    /\ FreshEvent
    /\ failing' = NoCommit
    /\ UNCHANGED master

(* The line restarts on proof that c passes, c a commit of the line that   *)
(* is strictly newer than the failing one.                                 *)
Restart(c) ==
    /\ cord # 0
    /\ c \in Chain(master)
    /\ c \in Repaired
    /\ failing # NoCommit => c # failing /\ failing \in Chain(c)
    /\ cord' = 0
    /\ failing' = NoCommit
    /\ UNCHANGED <<master, used>>

(* An event was written but never became the cord: its id is spent.        *)
Discard ==
    /\ used' \in SUBSET Nat
    /\ used \subseteq used'
    /\ UNCHANGED <<master, cord, failing>>

Next ==
    \/ \E c \in Commit : Land(c) \/ Stop(c) \/ Restart(c)
    \/ StopByHand
    \/ Discard

Spec == Init /\ [][Next]_vars
=============================================================================
