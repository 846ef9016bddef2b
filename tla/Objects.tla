------------------------------- MODULE Objects -------------------------------
(* The objects behind a submission: the bundle a station sends, the witness's *)
(* cache it is fetched into, the line's own repository the candidate is       *)
(* pushed to, and the prunes of both (line/gitx/transfer.go, bundle.go and    *)
(* git.go, as line/witness and line/guard call them).                         *)
(*                                                                            *)
(* A repository is what it holds of Object, and whether each loose object is  *)
(* older than the grace of a prune. The server has one check slot, so one     *)
(* submission is under way at a time; pulls and clears of the cord, the clock *)
(* and crashes of the server interleave with its steps.                       *)
EXTENDS Naturals, Sequences, FiniteSets, SequencesExt

CONSTANTS
    Child,       \* per object what it refers to: a commit its parents, the first one first, and its tree
    Links,       \* the entries of trees that are symlinks, as pairs of tree and blob
    Commits,     \* the commits stations submit
    Seed,        \* the commit the line starts with
    Blobs,       \* the objects that refer to nothing and are not read by a walk
    Events,      \* the blobs of andon events
    MaxSubmits,  \* bound: submissions
    MaxTicks,    \* bound: times the grace of each prune passes
    MaxCrashes   \* bound: crashes of the server

VARIABLES
    line,        \* the line's repository: per object its age
    cache,       \* the witness's cache, likewise
    master,      \* refs/heads/master of the line
    candidates,  \* refs/candidates/* of the line
    stop,        \* refs/line/andon of the line
    cacheRefs,   \* what the cache's refs hold: the line's heads, bundles, checkouts
    sub,         \* the submission in the check slot
    pulling,     \* an event written by a pull that has not set the stop ref yet
    obPast       \* history: submissions, ticks and crashes, masters, deletions

obVars == <<line, cache, master, candidates, stop, cacheRefs, sub, pulling, obPast>>

Object == DOMAIN Child
None == "none"
Age == {None, "new", "old"}

\* An object names what it refers to by its hash, so references make no circle.
ObjectsAssumption ==
    /\ Seed \in Object /\ Commits \subseteq Object /\ None \notin Object
    /\ \A o \in Object : Child[o] \in Seq(Object)
    /\ \A c \in Commits \cup {Seed} : Child[c] # <<>>
    /\ \A S \in SUBSET Object : S # {} => \E o \in S : Range(Child[o]) \cap S = {}
    /\ Events \subseteq Object /\ \A e \in Events : Child[e] = <<>>

Held(repo) == {o \in Object : repo[o] # None}

\* Everything an object reaches.
Closure[o \in Object] == {o} \cup UNION {Closure[c] : c \in Range(Child[o])}
History[c \in Commits \cup {Seed}] == {c} \cup UNION {History[p] : p \in Range(Child[c]) \cap (Commits \cup {Seed})}
ReachedBy(refs) == UNION {Closure[r] : r \in refs}

\* What the guard has read by the time it merges: of a commit its first parent and its
\* tree, of a tree what is not a symlink.
FirmKids(o) ==
    IF o \in Commits \cup {Seed} THEN {Head(Child[o]), Last(Child[o])} ELSE {c \in Range(Child[o]) : <<o, c>> \notin Links}
Firm[o \in Object] == {o} \cup UNION {Firm[c] : c \in FirmKids(o)}
Content(c) == Firm[Last(Child[c])]

\* Mutant: the line's branches are not walked.
LineRefsAside == candidates \cup (IF stop = None THEN {} ELSE {stop})

LineRefs == {master} \cup candidates \cup (IF stop = None THEN {} ELSE {stop})

------------------------------------------------------------------------------
(* objectCopier.copy *)

\* The children of an object that the destination does not hold, by their places.
Missing(repo, o) == {i \in DOMAIN Child[o] : repo[Child[o][i]] = None}
FirstMissing(repo, o) == Child[o][Min(Missing(repo, o))]

\* The objects that are open when the next one is written: the copy stops at what
\* the destination holds, takes the children in order and writes them first.
Open(repo, o) ==
    LET down[x \in Object] == {x} \cup IF Missing(repo, x) = {} THEN {} ELSE down[FirstMissing(repo, x)]
    IN down[o]

\* Mutant: an object is written before what it refers to.
TopFirst(repo, o) == {o}

\* The open object that is written: nothing it refers to is missing.
Deepest(repo, o) == {x \in Object \cap Open(repo, o) : Missing(repo, x) = {}}

CopyReads(repo, source, o) == repo[o] = None /\ Open(repo, o) \subseteq source

\* An object neither side has ends the copy; what it wrote stays.
CopyFails(repo, source, o) == repo[o] = None /\ ~ Open(repo, o) \subseteq source

Copies(repo, source, o) == IF CopyReads(repo, source, o) THEN {[repo EXCEPT ![x] = "new"] : x \in Deepest(repo, o)} ELSE {}

------------------------------------------------------------------------------
(* CreateBundle: the commits that are not the base, and what they hold that the *)
(* base's tree does not.                                                        *)

BundleOf(c, base) ==
    LET have == {base} \cup UNION {Closure[t] : t \in Range(Child[base]) \ (Commits \cup {Seed})}
        walk[k \in History[c]] ==
            IF k \in have THEN {}
            ELSE (Closure[Last(Child[k])] \ have) \cup {k} \cup UNION {walk[p] : p \in Range(Child[k]) \cap History[c]}
    IN walk[c]

------------------------------------------------------------------------------
(* PruneUnreachable *)

\* The walk reads every commit and tree, and a blob only when a ref holds it.
WalkFails(repo, refs) ==
    \E o \in ReachedBy(refs) \ Held(repo) : o \notin Blobs \/ o \in refs

\* Mutant: what no ref reaches goes, whatever its age.
ExpiredAtOnce(repo, o) == repo[o] # None

\* Only objects older than the grace are deleted.
Expired(repo, o) == repo[o] = "old"

Idle == [at |-> "idle", commit |-> Seed, base |-> Seed, doomed |-> {}]
End == sub' = Idle
Goto(step) == sub' = [sub EXCEPT !.at = step]

\* The refs are walked, and the cutoff is the grace before the end of the walk; an
\* object that is missing fails the prune and its caller.
PruneMark(repo, refs, mark, delete) ==
    /\ sub.at = mark
    /\ IF WalkFails(repo, refs) THEN End
       ELSE sub' = [sub EXCEPT !.at = delete,
                               !.doomed = {o \in Object \ ReachedBy(refs) : Expired(repo, o)}]
    /\ UNCHANGED <<line, cache, master, candidates, stop, cacheRefs, pulling, obPast>>

Delete(repo, o) == [repo EXCEPT ![o] = None]

PruneDelete ==
    /\ \E o \in sub.doomed :
         /\ \/ sub.at = "deleteLine" /\ line' = Delete(line, o) /\ UNCHANGED cache
            \/ sub.at = "deleteCache" /\ cache' = Delete(cache, o) /\ UNCHANGED line
         /\ sub' = [sub EXCEPT !.doomed = @ \ {o}]
    /\ obPast' = [obPast EXCEPT !.pruned = @ \cup {sub.at}]
    /\ UNCHANGED <<master, candidates, stop, cacheRefs, pulling>>

PruneDone ==
    /\ sub.doomed = {}
    /\ \/ sub.at = "deleteLine" /\ End
       \/ sub.at = "deleteCache" /\ Goto("seed")
    /\ UNCHANGED <<line, cache, master, candidates, stop, cacheRefs, pulling, obPast>>

------------------------------------------------------------------------------
(* MergeBundle, step by step. *)

\* A station sends the bundle of a commit on a base that is or was master and does
\* not have it; prepare sweeps the refs an earlier process left in the cache.
Submit(c, base) ==
    /\ sub = Idle /\ obPast.submits < MaxSubmits
    /\ base \in obPast.masters /\ c \notin History[base]
    /\ sub' = [at |-> "markCache", commit |-> c, base |-> base, doomed |-> {}]
    /\ cacheRefs' = IF obPast.swept THEN cacheRefs ELSE cacheRefs \cap obPast.masters
    /\ obPast' = [obPast EXCEPT !.submits = @ + 1, !.swept = TRUE]
    /\ UNCHANGED <<line, cache, master, candidates, stop, pulling>>

\* seed: the line's heads are fetched into the cache, then the ref is set.
SeedCopy ==
    /\ sub.at = "seed"
    /\ \/ /\ cache' \in Copies(cache, Held(line), master)
          /\ UNCHANGED <<cacheRefs, sub>>
       \/ /\ CopyFails(cache, Held(line), master)
          /\ End /\ UNCHANGED <<cache, cacheRefs>>
       \/ /\ cache[master] # None
          /\ cacheRefs' = (cacheRefs \ obPast.masters) \cup {master}
          /\ Goto("fetch") /\ UNCHANGED cache
    /\ UNCHANGED <<line, master, candidates, stop, pulling, obPast>>

\* FetchBundle: the base must be in the history of the line's heads; the copy reads
\* the bundle alone, so what the bundle leaves out must be in the cache.
FetchBundle ==
    /\ sub.at = "fetch"
    /\ LET source == BundleOf(sub.commit, sub.base)
           known == cache[sub.base] # None /\ \E h \in cacheRefs \cap obPast.masters : sub.base \in History[h]
       IN \/ /\ known /\ cache' \in Copies(cache, source, sub.commit)
             /\ UNCHANGED <<cacheRefs, sub>>
          \/ /\ ~known \/ CopyFails(cache, source, sub.commit)
             /\ End /\ UNCHANGED <<cache, cacheRefs>>
          \/ /\ known /\ cache[sub.commit] # None
             /\ cacheRefs' = cacheRefs \cup {sub.commit}
             /\ Goto("attest") /\ UNCHANGED cache
    /\ UNCHANGED <<line, master, candidates, stop, pulling, obPast>>

\* The commit is checked out, which reads all it reaches from the cache, and the
\* checks run; its refs in the cache go. Only a pass is pushed.
Attest ==
    /\ sub.at = "attest"
    /\ cacheRefs' = cacheRefs \cap obPast.masters
    /\ \/ Closure[sub.commit] \subseteq Held(cache) /\ Goto("push")
       \/ End
    /\ UNCHANGED <<line, cache, master, candidates, stop, pulling, obPast>>

\* PushCommit: the objects, then the candidate's ref, which a crash may have left.
PushCommit ==
    /\ sub.at = "push"
    /\ \/ /\ line' \in Copies(line, Held(cache), sub.commit)
          /\ UNCHANGED <<candidates, sub>>
       \/ /\ line[sub.commit] # None
          /\ candidates' = candidates \cup {sub.commit}
          /\ Goto("merge") /\ UNCHANGED line
    /\ UNCHANGED <<cache, master, stop, cacheRefs, pulling, obPast>>

\* Mutant: the changed blobs are not read.
ReadsCommit(c) == line[c] # None

\* Guard.Merge reads the commit, and of its tree what differs from master's: the trees
\* and every blob that is a regular file.
Reads(c) == ({c} \cup Content(c)) \ Content(master) \subseteq Held(line)

\* Guard.Merge (its other verdicts and its races are MergeGuard's): master moves to a
\* child of it that can be read; in every case the candidate's ref goes, and after
\* anything but a merge the repository is pruned.
Merge ==
    /\ sub.at = "merge"
    /\ candidates' = candidates \ {sub.commit}
    /\ \/ /\ Head(Child[sub.commit]) = master /\ Reads(sub.commit)
          /\ master' = sub.commit
          /\ obPast' = [obPast EXCEPT !.masters = @ \cup {sub.commit}]
          /\ End
       \/ Goto("markLine") /\ UNCHANGED <<master, obPast>>
    /\ UNCHANGED <<line, cache, stop, cacheRefs, pulling>>

------------------------------------------------------------------------------
(* What else happens to the two repositories. *)

\* Guard.Pull writes the event's blob and then sets the stop ref to it; both within
\* the grace of a prune.
WriteBlob(e) ==
    /\ pulling = None /\ line[e] = None /\ stop = None
    /\ pulling' = e
    /\ line' = [line EXCEPT ![e] = "new"]
    /\ UNCHANGED <<cache, master, candidates, stop, cacheRefs, sub, obPast>>

PullRef ==
    /\ pulling # None
    /\ stop' = pulling /\ pulling' = None
    /\ UNCHANGED <<line, cache, master, candidates, cacheRefs, sub, obPast>>

Clear ==
    /\ stop # None
    /\ stop' = None
    /\ UNCHANGED <<line, cache, master, candidates, cacheRefs, sub, pulling, obPast>>

Aged(repo) == [o \in Object |-> IF repo[o] = "new" THEN "old" ELSE repo[o]]

\* A minute passes for the line's objects, or a fortnight for both repositories'. A
\* push and a pull take less than a minute, as the line's grace supposes.
Tick ==
    /\ pulling = None /\ sub.at # "push" /\ obPast.ticks < MaxTicks
    /\ line' = Aged(line)
    /\ cache' \in {cache, Aged(cache)}
    /\ obPast' = [obPast EXCEPT !.ticks = @ + 1]
    /\ UNCHANGED <<master, candidates, stop, cacheRefs, sub, pulling>>

\* The server dies: deferred cleanups do not run.
Crash ==
    /\ obPast.crashes < MaxCrashes
    /\ End /\ pulling' = None
    /\ obPast' = [obPast EXCEPT !.crashes = @ + 1, !.swept = FALSE]
    /\ UNCHANGED <<line, cache, master, candidates, stop, cacheRefs>>

------------------------------------------------------------------------------

Init ==
    /\ line = [o \in Object |-> IF o \in Closure[Seed] THEN "old" ELSE None]
    /\ cache = [o \in Object |-> None]
    /\ master = Seed
    /\ candidates = {} /\ stop = None /\ cacheRefs = {} /\ sub = Idle /\ pulling = None
    /\ obPast = [submits |-> 0, ticks |-> 0, crashes |-> 0, masters |-> {Seed}, swept |-> FALSE, pruned |-> {}]

Next ==
    \/ \E c \in Commits, base \in Commits \cup {Seed} : Submit(c, base)
    \/ PruneMark(cache, cacheRefs, "markCache", "deleteCache")
    \/ PruneMark(line, LineRefs, "markLine", "deleteLine")
    \/ PruneDelete \/ PruneDone
    \/ SeedCopy \/ FetchBundle \/ Attest \/ PushCommit \/ Merge
    \/ \E e \in Events : WriteBlob(e)
    \/ PullRef \/ Clear \/ Tick \/ Crash

Spec == Init /\ [][Next]_obVars

------------------------------------------------------------------------------

\* Every file of every commit that was master is in the line's repository, although a
\* copy stops at objects whose own children a prune may have taken: the guard reads
\* each blob that changes (ChangedBlobs) before master moves. It does not read a
\* symlink's blob nor a further parent: those may be missing.
LineStaysWhole == Firm[master] \subseteq Held(line)

\* Children are written before their parents: until a prune deletes something, a
\* repository holds what its objects refer to, and so their whole closures, through
\* crashes and copies that fail half way.
WholeUntilPruned ==
    /\ "deleteLine" \notin obPast.pruned => \A o \in Held(line) : Range(Child[o]) \subseteq Held(line)
    /\ "deleteCache" \notin obPast.pruned => \A o \in Held(cache) : Range(Child[o]) \subseteq Held(cache)

\* A prune takes nothing that a ref reaches, also a ref set after the walk: the
\* grace covers a pull in flight and the slot a push.
PruneSparesRefs ==
    [][sub.at = "deleteLine" => \A o \in Held(line) : line'[o] = None => o \notin ReachedBy(LineRefs)]_obVars

\* "objectCopier copies an object and everything it reaches from src to dst"
\* (transfer.go:53): a candidate's ref leads to a commit whose closure is there.
CopyIsWhole == \A c \in candidates : Closure[c] \subseteq Held(line)
==============================================================================
