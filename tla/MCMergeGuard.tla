---------------------------- MODULE MCMergeGuard ----------------------------
(* A small line: a seed s, a commit a that passes on its way in and fails  *)
(* once it is master, and children of a: u without a tag, f and the docs-  *)
(* only d tagged as fixes, and two commits the guard must refuse: r        *)
(* changes a path gated to gemba, x adds a forbidden blob.                 *)
EXTENDS MergeGuard, TLC

MCParent == [c \in Commit |->
                CASE c = "s" -> NoCommit
                  [] c = "a" -> "s"
                  [] c \in {"u", "f", "d", "r", "x"} -> "a"]
MCTag == [c \in Commit |-> IF c \in {"f", "d"} THEN {1} ELSE {}]
MCPaths == [c \in Commit |-> IF c = "r" THEN {"gated"} ELSE {"free"}]
MCGateRoles == [p \in {"gated"} |-> {"gemba"}]
MCKeyRoles == [k \in {"k1", "k2"} |-> IF k = "k2" THEN {"andon"} ELSE {}]
MCRequired == <<"lint", "test">>

Attested(key, role, commit, lint, test) ==
    [key |-> key, role |-> role, commit |-> commit, constitution |-> "now",
     runner |-> "image", checks |-> [k \in {"lint", "test"} |->
                                       IF k = "lint" THEN lint ELSE test]]

Good(c) == Attested("k1", "maker", c, "passed", "passed")
Failed(c) == Attested("k2", "andon", c, "passed", "failed")
DocsRun(c) == Attested("k1", "maker", c, "passed", "skipped")

(* What honest stations sign: enough for every race.                       *)
RaceEnvelope == {Good("a"), Failed("a"), Good("u"), Good("f")}

(* And what the guard must see through: a docs-only run, a role without    *)
(* the path, a key without the role, a failed and a missing check, an      *)
(* older constitution.                                                     *)
VerdictEnvelope ==
    {Good("a"), Failed("a"), Good("f"), DocsRun("d"), Good("r"),
     Attested("k2", "maker", "u", "passed", "passed"),
     Attested("k1", "maker", "x", "failed", "missing"),
     [Good("u") EXCEPT !.constitution = "before"]}

(* The witness submits the commit it attested...                           *)
OwnSubmission == {<<env.commit, env>> : env \in Envelope}
(* ... and the guard does not rely on that.                                *)
AnySubmission == OwnSubmission \cup {<<"u", DocsRun("d")>>, <<"x", Good("f")>>}

Symmetry == Permutations(Call)
=============================================================================
