--------------------------------- MODULE Law ---------------------------------
(* The constitution's life on the line remote: the viceroy proposes a change,   *)
(* the king approves it (line/station/constitution.go), and the owner adds a    *)
(* station and its key from a process of his own (line/linedir).                *)
(*                                                                              *)
(* A commit of the constitution is the history that leads to it, a sequence of  *)
(* contents; a content is a text and the keys it trusts. UpdateRef compares and *)
(* writes: serve's handlers exclude each other by a mutex of the process, the   *)
(* owner's process does not take part in it.                                    *)
EXTENDS Naturals, Sequences, SequencesExt, FiniteSets, FiniteSetsExt

CONSTANTS
    Texts, BadTexts,   \* texts the viceroy may send; those Parse refuses
    Handlers,          \* requests of serve in flight
    Adders,            \* runs of `line station add`, each for a station of its own
    MaxProposals,      \* bound: proposals stored
    MaxRetry,          \* maxProposalRetry
    MaxFaults          \* bound: crashes and failed writes of the owner's process

VARIABLES
    head,        \* refs/line/constitution: the history of contents
    proposals,   \* refs/line/constitution-proposals/<n>
    lineToml,    \* line.toml: the stations of the line
    running,     \* serve: the content it was started with
    req,         \* per handler of serve
    add,         \* per run of station add
    lwPast       \* history: two processes inside UpdateRef, adds cut short

lwVars == <<head, proposals, lineToml, running, req, add, lwPast>>

Idle == [at |-> "idle"]
Seed == [text |-> "t0", keys |-> {}]
Parses(text) == text \notin BadTexts
SetReq(h, r) == req' = [req EXCEPT ![h] = r]
SetAdd(o, r) == add' = [add EXCEPT ![o] = r]
NextProposal == Max(DOMAIN proposals \cup {0}) + 1

\* refWrites: one handler of serve at a time is between compare and write.
MutexFree == \A h \in Handlers : req[h].at # "swap"
OwnerSwaps == \E o \in Adders : add[o].at = "swap"

------------------------------------------------------------------------------
\* Proposals.

\* The request is bound to the constitution of the moment it is handled.
Propose(h) ==
    /\ req[h] = Idle /\ Cardinality(DOMAIN proposals) < MaxProposals
    /\ \E t \in Texts, keys \in {running.keys, Last(head).keys} :
        /\ Parses(t) /\ [text |-> t, keys |-> keys] # Last(head)
        /\ SetReq(h, [at |-> "number", base |-> head, new |-> [text |-> t, keys |-> keys], tries |-> 0])
    /\ UNCHANGED <<head, proposals, lineToml, running, add, lwPast>>

ProposalNumber(h) ==
    /\ req[h].at = "number"
    /\ SetReq(h, [at |-> "store", base |-> req[h].base, new |-> req[h].new, tries |-> req[h].tries, n |-> NextProposal])
    /\ UNCHANGED <<head, proposals, lineToml, running, add, lwPast>>

\* Mutant: a number is free when it was.
TakenNever(n) == n = 0

\* UpdateRef that expects no ref of the number; a number taken meanwhile is retried.
Taken(n) == n \in DOMAIN proposals
ProposalStore(h) ==
    /\ req[h].at = "store" /\ MutexFree
    /\ LET r == req[h] IN
       IF Taken(r.n)
       THEN /\ SetReq(h, IF r.tries + 1 < MaxRetry THEN [at |-> "number", base |-> r.base, new |-> r.new, tries |-> r.tries + 1] ELSE Idle)
            /\ UNCHANGED proposals
       ELSE /\ proposals' = [n \in DOMAIN proposals \cup {r.n} |-> IF n = r.n THEN [base |-> r.base, new |-> r.new] ELSE proposals[n]]
            /\ SetReq(h, Idle)
    /\ UNCHANGED <<head, lineToml, running, add, lwPast>>

------------------------------------------------------------------------------
\* Approval.

\* Mutant: a proposal is good for any constitution.
CurrentAlways(n) == n \in DOMAIN proposals

\* The king's word names a proposal; one made on another constitution is stale.
Current(n) == proposals[n].base = head
Approve(h, n) ==
    /\ req[h] = Idle /\ n \in DOMAIN proposals /\ Current(n)
    /\ SetReq(h, [at |-> "compare", old |-> head, new |-> proposals[n].new])
    /\ UNCHANGED <<head, proposals, lineToml, running, add, lwPast>>

\* Mutant: the ref is set, not compared.
ApproveUncompared(h) ==
    /\ req[h].at = "compare" /\ MutexFree
    /\ SetReq(h, [req[h] EXCEPT !.at = "swap"])
    /\ lwPast' = [lwPast EXCEPT !.raced = @ \/ OwnerSwaps]
    /\ UNCHANGED <<head, proposals, lineToml, running, add>>

\* CommitConstitution: UpdateRef reads the ref...
ApproveCompare(h) ==
    /\ req[h].at = "compare" /\ MutexFree
    /\ SetReq(h, IF head = req[h].old THEN [req[h] EXCEPT !.at = "swap"] ELSE Idle)
    /\ lwPast' = [lwPast EXCEPT !.raced = @ \/ OwnerSwaps]
    /\ UNCHANGED <<head, proposals, lineToml, running, add>>

\* ... and writes it.
ApproveSwap(h) ==
    /\ req[h].at = "swap"
    /\ head' = Append(req[h].old, req[h].new)
    /\ SetReq(h, Idle)
    /\ UNCHANGED <<proposals, lineToml, running, add, lwPast>>

\* Serve reads the constitution when it starts; its requests end with it.
ServeRestart ==
    /\ running # Last(head) \/ \E h \in Handlers : req[h] # Idle
    /\ running' = Last(head)
    /\ req' = [h \in Handlers |-> Idle]
    /\ UNCHANGED <<head, proposals, lineToml, add, lwPast>>

------------------------------------------------------------------------------
\* AddStation, in a process of its own.

AddRead(o) ==
    /\ add[o] = Idle /\ o \notin lineToml
    /\ SetAdd(o, [at |-> "list", toml |-> lineToml, old |-> head])
    /\ UNCHANGED <<head, proposals, lineToml, running, req, lwPast>>

\* addTrust lists the station in line.toml first.
AddList(o) ==
    /\ add[o].at = "list"
    /\ lineToml' = add[o].toml \cup {o}
    /\ SetAdd(o, [add[o] EXCEPT !.at = "compare"])
    /\ UNCHANGED <<head, proposals, running, req, lwPast>>

\* The key is committed on the constitution that was read; a constitution that
\* moved puts line.toml back.
AddCompare(o) ==
    /\ add[o].at = "compare"
    /\ SetAdd(o, [add[o] EXCEPT !.at = IF head = add[o].old THEN "swap" ELSE "undo"])
    /\ lwPast' = [lwPast EXCEPT !.raced = @ \/ (head = add[o].old /\ (~MutexFree \/ OwnerSwaps))]
    /\ UNCHANGED <<head, proposals, lineToml, running, req>>

AddSwap(o) ==
    /\ add[o].at = "swap"
    /\ head' = Append(add[o].old, [Last(add[o].old) EXCEPT !.keys = @ \cup {o}])
    /\ SetAdd(o, [add[o] EXCEPT !.at = "file"])
    /\ UNCHANGED <<proposals, lineToml, running, req, lwPast>>

\* The copy beside line.toml is written last; when that fails, line.toml is put
\* back, the key stays committed.
AddFile(o) ==
    /\ add[o].at = "file"
    /\ \/ SetAdd(o, [at |-> "done"]) /\ UNCHANGED lwPast
       \/ /\ lwPast.cuts < MaxFaults
          /\ lwPast' = [lwPast EXCEPT !.cuts = @ + 1]
          /\ SetAdd(o, [add[o] EXCEPT !.at = "undo"])
    /\ UNCHANGED <<head, proposals, lineToml, running, req>>

\* Mutant: line.toml keeps a station whose key was refused.
AddUndoNothing(o) ==
    /\ add[o].at = "undo"
    /\ SetAdd(o, Idle)
    /\ UNCHANGED <<head, proposals, lineToml, running, req, lwPast>>

AddUndo(o) ==
    /\ add[o].at = "undo"
    /\ lineToml' = add[o].toml
    /\ SetAdd(o, Idle)
    /\ UNCHANGED <<head, proposals, running, req, lwPast>>

AddCut(o) ==
    /\ add[o].at \in {"list", "compare", "swap", "file", "undo"} /\ lwPast.cuts < MaxFaults
    /\ SetAdd(o, [at |-> "cut"])
    /\ lwPast' = [lwPast EXCEPT !.cuts = @ + 1]
    /\ UNCHANGED <<head, proposals, lineToml, running, req>>

Init ==
    /\ head = <<Seed>> /\ running = Seed
    /\ proposals = [n \in {} |-> Seed]
    /\ lineToml = {}
    /\ req = [h \in Handlers |-> Idle]
    /\ add = [o \in Adders |-> Idle]
    /\ lwPast = [raced |-> FALSE, cuts |-> 0]

Next ==
    \/ ServeRestart
    \/ \E h \in Handlers : \/ Propose(h) \/ ProposalNumber(h) \/ ProposalStore(h)
                           \/ ApproveCompare(h) \/ ApproveSwap(h)
                           \/ \E n \in 1..MaxProposals : Approve(h, n)
    \/ \E o \in Adders : AddRead(o) \/ AddList(o) \/ AddCompare(o) \/ AddSwap(o) \/ AddFile(o) \/ AddUndo(o) \/ AddCut(o)

Spec == Init /\ [][Next]_lwVars

------------------------------------------------------------------------------

\* No constitution that was in force is dropped from the history, whoever amends
\* it at the same time, as long as two processes are not inside UpdateRef at once.
AmendmentKept == [][IsPrefix(head, head') \/ lwPast'.raced]_lwVars

\* A proposal the king may have been shown under its number never changes.
ProposalKept == [][\A n \in DOMAIN proposals : n \in DOMAIN proposals' /\ proposals'[n] = proposals[n]]_lwVars

\* The change that lands is the one the king was shown: it replaces the content the
\* proposal was compared with, or it is the owner's.
ShownIsLanded ==
    \A i \in 2..Len(head) :
        \/ \E n \in DOMAIN proposals : proposals[n].base = SubSeq(head, 1, i - 1) /\ proposals[n].new = head[i]
        \/ \E o \in Adders : head[i] = [head[i - 1] EXCEPT !.keys = @ \cup {o}]

\* A station is in line.toml exactly when an add is under way, was cut short, or
\* its key was committed; for one `station add` at a time, since line.toml is
\* written as it was read.
StationIsTrusted ==
    \A o \in Adders :
        /\ add[o].at = "done" => o \in lineToml
        /\ o \in lineToml => add[o].at \in {"compare", "swap", "file", "undo", "cut", "done"}

\* The law in force is the one decided: what lands is what the king was shown or
\* the owner's, a station is listed exactly while it is added or once trusted, no
\* text that was in force drops from the history, and a numbered proposal the king
\* may have seen never changes.
LawHolds == [](ShownIsLanded /\ StationIsTrusted) /\ AmendmentKept /\ ProposalKept
==============================================================================
