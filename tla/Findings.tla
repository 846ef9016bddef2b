------------------------------ MODULE Findings ------------------------------
(* bughunt: a scan fingerprints the hits of its detectors, records them in a  *)
(* database that remembers what a human decided about each, and gates a       *)
(* commit on the rest.                                                        *)
(*   bughunt/internal/scan/scan.go     Run, record, inDiff                    *)
(*   bughunt/internal/store/store.go   UpsertFinding, SetStatus, InsertRun    *)
(* Scans are processes of their own: two of them and a triage may interleave  *)
(* between the read and the write of UpsertFinding.                           *)
EXTENDS Naturals, Sequences, FiniteSets

CONSTANTS
    Prints,     \* fingerprints
    Scans,      \* processes that scan, each once
    Reports,    \* the hits the detectors of a scan may report, in order
    MaxTriage   \* bound: triage decisions

VARIABLES
    finding,    \* fingerprint -> its row
    runRows,    \* the scans that have a row in the run table
    scan,       \* Scans -> the scan in progress
    fdPast      \* history: who recorded each finding, decisions, earlier sightings

fdVars == <<finding, runRows, scan, fdPast>>

NoRow == [status |-> "none", seen |-> 0]
Unstarted == [at |-> "unstarted", hits |-> <<>>, next |-> 1, seen |-> {}, found |-> NoRow, gates |-> {}]

\* A hit is what its detector and the configuration made of it: the fingerprint,
\* whether severity and excludes let it through, and whether its line is in the diff.
Hit(s) == scan[s].hits[scan[s].next]
Gates(status) == status \in {"new", "confirmed"}

\* The detectors ran; the hits of all of them come in the registry's order.
Start(s) ==
    /\ scan[s].at = "unstarted"
    /\ \E r \in Reports : scan' = [scan EXCEPT ![s] = [Unstarted EXCEPT !.at = "hit", !.hits = r]]
    /\ UNCHANGED <<finding, runRows, fdPast>>

\* A detector fails midway: the scan ends with an error; what it recorded stays.
DetectorFails(s) ==
    /\ scan[s].at = "hit" /\ scan[s].next <= Len(scan[s].hits)
    /\ scan' = [scan EXCEPT ![s].at = "error"]
    /\ UNCHANGED <<finding, runRows, fdPast>>

\* Mutant: the same finding is recorded for each of its hits.
SkippedUnlessLow(s) == ~Hit(s).counts

\* A hit below the floor, excluded, or of a fingerprint this run has recorded.
Skipped(s) == ~Hit(s).counts \/ Hit(s).print \in scan[s].seen

Skip(s) ==
    /\ scan[s].at = "hit" /\ scan[s].next <= Len(scan[s].hits) /\ Skipped(s)
    /\ scan' = [scan EXCEPT ![s].next = @ + 1]
    /\ UNCHANGED <<finding, runRows, fdPast>>

\* UpsertFinding, first half: GetFinding.
Look(s) ==
    /\ scan[s].at = "hit" /\ scan[s].next <= Len(scan[s].hits) /\ ~Skipped(s)
    /\ scan' = [scan EXCEPT ![s].at = "write", ![s].found = finding[Hit(s).print],
                            ![s].seen = @ \cup {Hit(s).print}]
    /\ UNCHANGED <<finding, runRows, fdPast>>

\* Mutant: the row is replaced on a second sighting.
UpsertReplaces(row, found) == [status |-> "new", seen |-> row.seen + 1]

\* What the write makes of the row: another sighting, which keeps the status, or
\* a new row.
Upserted(row, found) ==
    IF found # NoRow THEN [row EXCEPT !.seen = @ + 1] ELSE [status |-> "new", seen |-> 1]

\* Mutant: every finding that is recorded counts as new.
RecordAsNew(s) ==
    LET p == Hit(s).print IN
    /\ scan[s].at = "write"
    /\ IF scan[s].found = NoRow /\ finding[p] # NoRow
       THEN scan' = [scan EXCEPT ![s].at = "error"] /\ UNCHANGED <<finding, fdPast>>
       ELSE /\ finding' = [finding EXCEPT ![p] = Upserted(@, scan[s].found)]
            /\ fdPast' = [fdPast EXCEPT !.by[p] = @ \cup {s}]
            /\ scan' = [scan EXCEPT ![s].at = "hit", ![s].next = @ + 1,
                            ![s].gates = IF Hit(s).inDiff THEN @ \cup {p} ELSE @]
    /\ UNCHANGED runRows

\* UpsertFinding, second half, and what record makes of it. The fingerprint is
\* the table's key: the insert of a row that is there by now is an error.
Record(s) ==
    LET p == Hit(s).print
        status == IF scan[s].found = NoRow THEN "new" ELSE scan[s].found.status
    IN
    /\ scan[s].at = "write"
    /\ IF scan[s].found = NoRow /\ finding[p] # NoRow
       THEN scan' = [scan EXCEPT ![s].at = "error"] /\ UNCHANGED <<finding, fdPast>>
       ELSE /\ finding' = [finding EXCEPT ![p] = Upserted(@, scan[s].found)]
            /\ fdPast' = [fdPast EXCEPT !.by[p] = @ \cup {s}]
            /\ scan' = [scan EXCEPT ![s].at = "hit", ![s].next = @ + 1,
                            ![s].gates = IF Gates(status) /\ Hit(s).inDiff THEN @ \cup {p} ELSE @]
    /\ UNCHANGED runRows

\* InsertRun comes last; its failure fails the scan.
Finish(s) ==
    /\ scan[s].at = "hit" /\ scan[s].next > Len(scan[s].hits)
    /\ \/ runRows' = runRows \cup {s} /\ scan' = [scan EXCEPT ![s].at = "done"]
       \/ scan' = [scan EXCEPT ![s].at = "error"] /\ UNCHANGED runRows
    /\ UNCHANGED <<finding, fdPast>>

\* SetStatus: a human decides.
SetStatus(p) ==
    /\ fdPast.triage < MaxTriage /\ finding[p] # NoRow
    /\ \E st \in {"confirmed", "suppressed"} : finding' = [finding EXCEPT ![p].status = st]
    /\ fdPast' = [fdPast EXCEPT !.triage = @ + 1]
    /\ UNCHANGED <<runRows, scan>>

\* The database is empty or knows a finding that was dismissed.
Init ==
    /\ finding \in [Prints -> {NoRow, [status |-> "suppressed", seen |-> 1]}] /\ runRows = {}
    /\ scan = [s \in Scans |-> Unstarted]
    /\ fdPast = [by |-> [p \in Prints |-> {}], triage |-> 0, base |-> [p \in Prints |-> finding[p].seen]]

Next ==
    \/ \E s \in Scans : Start(s) \/ DetectorFails(s) \/ Skip(s) \/ Look(s) \/ Record(s) \/ Finish(s)
    \/ \E p \in Prints : SetStatus(p)

Spec == Init /\ [][Next]_fdVars

------------------------------------------------------------------------------

\* One sighting per run, whatever scans overlap, fail or repeat a hit: seen_count
\* is the number of runs that recorded the finding.
SeenOncePerRun == \A p \in Prints : finding[p].seen = fdPast.base[p] + Cardinality(fdPast.by[p])

\* "A scan must never resurrect something a human already dismissed": while no
\* decision is taken in between, no step of a scan changes a decided status.
DecisionKept ==
    [][\A p \in Prints : finding[p] # NoRow /\ fdPast'.triage = fdPast.triage
            => finding'[p].status = finding[p].status]_fdVars

First(s, k) == \A j \in 1..(k - 1) : scan[s].hits[j].print # scan[s].hits[k].print \/ ~scan[s].hits[j].counts

\* The gate of a scan that ends is right while nobody triages meanwhile: a hit on
\* a changed line gates exactly when its finding is open, whatever was dismissed
\* before. Only a hit whose fingerprint the run has met already is not looked at,
\* also when the first one was on an unchanged line.
GateCatches ==
    fdPast.triage = 0 =>
        \A s \in Scans : scan[s].at = "done" =>
            \A k \in DOMAIN scan[s].hits : LET h == scan[s].hits[k] IN
                h.counts /\ h.inDiff /\ First(s, k)
                    => (Gates(finding[h.print].status) <=> h.print \in scan[s].gates)

\* What scans record, and what humans decide about it, stays true.
FindingsAreKept == [](SeenOncePerRun /\ GateCatches) /\ DecisionKept
==============================================================================
