-------------------------- MODULE SuccessionProofs --------------------------
(***************************************************************************)
(* Proofs about viceroy succession, for every number of handlers,          *)
(* generations, commits, attempts and faults, and about the wake loops of  *)
(* the generations and their testament (ViceroyLoop), for every capacity,  *)
(* number of messages and crash.                                           *)
(***************************************************************************)
EXTENDS Succession, ServeParts, TLAPS

(* The invariant by owner of the state.  To the types it adds that an      *)
(* attempt that was started, and a request that is about to launch, have a *)
(* generation, and that a check-in past its first look names an attempt of *)
(* its own generation.                                                     *)
Holding == {"begin", "current", "superseded", "check", "check_stop", "attest",
            "start", "pending"}

LineType == master \in Commit /\ stopped \in BOOLEAN

RecordType ==
    /\ current \in [gen: 0..MaxGen, commit: 0..MaxMaster]
    /\ history \subseteq Gen
    /\ current.gen # 0 => current.gen \in history

BoxState == {"none", "startup", "checkin", "serving"}

BoxType == box \in [Gen -> BoxState]

SlotType ==
    /\ serve \in {"up", "resume"} /\ starting \in BOOLEAN
    /\ slot \in {"free", "merge"} \cup Request

AttemptType ==
    /\ pending \in 0..MaxAttempts
    /\ attempt \in [Attempt -> [gen: 0..MaxGen, commit: 0..MaxMaster,
                                watch: {"none", "waiting", "removing", "gone"}]]
    /\ pending # 0 => attempt[pending].watch = "waiting"
    /\ \A a \in Attempt : attempt[a] # NoAttempt =>
        attempt[a].watch # "none" /\ attempt[a].gen \in Gen

Handler == [at: {"idle", "admit", "queue", "poll"} \cup Holding,
            header: 0..MaxGen, commit: 0..MaxMaster, gen: 0..(MaxGen + 1)]

ReqType ==
    /\ req \in [Request -> Handler]
    /\ \A r \in Request : req[r].at \in {"start", "pending"} => req[r].gen \in Gen

CallType ==
    /\ call \in [Caller -> [at: {"idle", "pending", "current", "remove", "lock"},
                            gen: 0..MaxGen, attempt: 0..MaxAttempts, waits: BOOLEAN]]
    /\ \A c \in Caller : call[c].at # "idle" => call[c].gen \in Gen

CallsNamed ==
    \A c \in Caller : call[c].at \in {"remove", "lock"} =>
        /\ call[c].attempt \in Attempt
        /\ attempt[call[c].attempt].watch # "none"
        /\ attempt[call[c].attempt].gen = call[c].gen

OwnerType ==
    owner \in [at: {"idle", "running", "check", "check_stop", "launch", "record"},
               commit: 0..MaxMaster, gen: 0..MaxGen]

IInv ==
    /\ LineType /\ RecordType /\ BoxType /\ SlotType /\ AttemptType /\ ReqType
    /\ CallType /\ CallsNamed /\ OwnerType /\ LaunchIsAlone

LEMMA InvType == IInv => TypeOK
BY DEF IInv, TypeOK, LineType, RecordType, BoxType, BoxState, SlotType, AttemptType, ReqType,
       Handler, CallType, OwnerType, Holding

(* A part nobody writes keeps its invariant.                               *)
LEMMA Quiet ==
    ASSUME IInv
    PROVE  /\ UNCHANGED line => LineType'
           /\ UNCHANGED record => RecordType'
           /\ UNCHANGED box => BoxType'
           /\ UNCHANGED <<serve, slot, starting>> => SlotType'
           /\ UNCHANGED <<pending, attempt>> => AttemptType'
           /\ UNCHANGED req => ReqType'
           /\ UNCHANGED call => CallType'
           /\ UNCHANGED <<call, attempt>> => CallsNamed'
           /\ UNCHANGED owner => OwnerType'
           /\ UNCHANGED <<req, slot, starting, pending>> => LaunchIsAlone'
<1> USE DEF IInv
<1>1. UNCHANGED line => LineType'
  BY DEF LineType, line
<1>2. UNCHANGED record => RecordType'
  BY DEF RecordType, record
<1>3. UNCHANGED box => BoxType'
  BY DEF BoxType
<1>4. UNCHANGED <<serve, slot, starting>> => SlotType'
  BY DEF SlotType
<1>5. UNCHANGED <<pending, attempt>> => AttemptType'
  BY DEF AttemptType
<1>6. UNCHANGED req => ReqType'
  BY DEF ReqType
<1>7. UNCHANGED call => CallType'
  BY DEF CallType
<1>8. UNCHANGED <<call, attempt>> => CallsNamed'
  BY DEF CallsNamed
<1>9. UNCHANGED owner => OwnerType'
  BY DEF OwnerType
<1>10. UNCHANGED <<req, slot, starting, pending>> => LaunchIsAlone'
  BY DEF LaunchIsAlone
<1> QED BY <1>1, <1>2, <1>3, <1>4, <1>5, <1>6, <1>7, <1>8, <1>9, <1>10

(* A container changes its state.                                          *)
LEMMA SetBoxType ==
    ASSUME IInv, NEW g, NEW state \in BoxState, SetBox(g, state)
    PROVE  BoxType' /\ CallType' /\ (UNCHANGED attempt => CallsNamed')
<1>1. BoxType'
  BY DEF IInv, BoxType, SetBox
<1>2. \A c \in Caller : /\ call'[c].at = call[c].at /\ call'[c].gen = call[c].gen
                        /\ call'[c].attempt = call[c].attempt
                        /\ call'[c] \in [at: {"idle", "pending", "current", "remove", "lock"},
                                         gen: 0..MaxGen, attempt: 0..MaxAttempts, waits: BOOLEAN]
  BY DEF IInv, CallType, SetBox
<1>3. CallType'
  BY <1>2 DEF IInv, CallType, SetBox
<1>4. UNCHANGED attempt => CallsNamed'
  BY <1>2 DEF IInv, CallsNamed
<1> QED BY <1>1, <1>3, <1>4

(* A check-in is answered.                                                 *)
LEMMA AnswerType ==
    ASSUME IInv, NEW c \in Caller, NEW ok \in BOOLEAN, Answer(c, ok)
    PROVE  BoxType' /\ CallType' /\ (UNCHANGED attempt => CallsNamed')
<1>1. BoxType'
  BY DEF IInv, BoxType, Answer, Told, BoxState
<1>2. CallType'
  BY SuccessionAssumption DEF IInv, CallType, Answer, IdleCall
<1>3. UNCHANGED attempt => CallsNamed'
  BY DEF IInv, CallsNamed, CallType, Answer, IdleCall
<1> QED BY <1>1, <1>2, <1>3

(* A succeed handler replies, or goes on without changing what it holds.   *)
LEMMA ReplyType ==
    ASSUME IInv, NEW r \in Request, Reply(r), UNCHANGED <<serve, pending>>
    PROVE  SlotType' /\ ReqType' /\ LaunchIsAlone'
<1>1. SlotType'
  BY DEF IInv, SlotType, Reply
<1>2. ReqType'
  BY SuccessionAssumption DEF IInv, ReqType, Handler, Holding, Reply, IdleReq
<1>3. LaunchIsAlone'
  <2> SUFFICES ASSUME NEW q \in Request
               PROVE  /\ req'[q].at \notin {"idle", "admit", "queue", "poll"} <=> slot' = q
                      /\ slot' = q /\ req'[q].at # "begin" => starting' /\ pending' = 0
    BY DEF LaunchIsAlone
  <2>1. CASE q = r
    BY <2>1, SuccessionAssumption DEF IInv, ReqType, Handler, Holding, Reply, IdleReq
  <2>2. CASE q # r
    <3>1. req'[q] = req[q] /\ "free" # q
      BY <2>2, SuccessionAssumption DEF IInv, ReqType, Reply
    <3>2. slot' = q <=> slot = q
      BY <2>2, <3>1, SuccessionAssumption DEF Reply
    <3>3. slot = q => starting' = starting
      BY <2>2, SuccessionAssumption DEF IInv, LaunchIsAlone, Reply
    <3> QED BY <3>1, <3>2, <3>3 DEF IInv, LaunchIsAlone
  <2> QED BY <2>1, <2>2
<1> QED BY <1>1, <1>2, <1>3

LEMMA MoveType ==
    ASSUME IInv, NEW r \in Request, NEW new \in Handler, req' = [req EXCEPT ![r] = new],
           new.at \in {"start", "pending"} => new.gen \in Gen,
           UNCHANGED <<serve, slot, starting, pending>>,
           req[r].at \in Holding <=> new.at \in Holding,
           req[r].at = "begin" => new.at = "begin"
    PROVE  SlotType' /\ ReqType' /\ LaunchIsAlone'
<1>1. SlotType' /\ ReqType'
  BY Quiet DEF IInv, ReqType
<1>2. LaunchIsAlone'
  BY DEF IInv, ReqType, LaunchIsAlone, Handler, Holding
<1> QED BY <1>1, <1>2

LEMMA AtType ==
    ASSUME IInv, NEW r \in Request,
           NEW step \in {"idle", "admit", "queue", "poll"} \cup Holding,
           step \in {"start", "pending"} => req[r].gen \in Gen,
           At(r, step), UNCHANGED <<serve, slot, starting, pending>>,
           req[r].at \in Holding <=> step \in Holding,
           req[r].at = "begin" => step = "begin"
    PROVE  SlotType' /\ ReqType' /\ LaunchIsAlone'
<1> DEFINE new == [req[r] EXCEPT !.at = step]
<1>1. new \in Handler /\ new.at = step /\ new.gen = req[r].gen
  BY DEF IInv, ReqType, Handler
<1>2. req' = [req EXCEPT ![r] = new]
  BY DEF At
<1> HIDE DEF new
<1> QED BY <1>1, <1>2, MoveType

(* A commit a caller may name.                                             *)
LEMMA CommitType == ASSUME IInv PROVE 0..master \subseteq 0..MaxMaster /\ master \in 0..MaxMaster
BY SuccessionAssumption DEF IInv, LineType, Commit

(* A succeed request, up to the flag.                                      *)
LEMMA QueueStep ==
    ASSUME IInv, NEW r \in Request,
           \/ \E h \in 0..MaxGen, commit \in 0..master : Admit(r, h, commit)
           \/ AdmitLocked(r) \/ acquireQueued(r) \/ QueueLimit(r) \/ begin(r)
    PROVE  IInv'
<1> USE DEF Holding
<1>1. ASSUME NEW h \in 0..MaxGen, NEW commit \in 0..master, Admit(r, h, commit)
      PROVE  IInv'
  <2> DEFINE new == [at |-> "admit", header |-> h, commit |-> commit, gen |-> current.gen]
  <2>1. new \in Handler /\ new.at = "admit"
    BY CommitType, SuccessionAssumption DEF IInv, RecordType, Handler
  <2>3. req' = [req EXCEPT ![r] = new] /\ req[r].at = "idle"
    BY <1>1 DEF Admit
  <2> HIDE DEF new
  <2>2. SlotType' /\ ReqType' /\ LaunchIsAlone'
    BY <1>1, <2>1, <2>3, MoveType DEF Admit, supervisor
  <2> QED BY <1>1, <2>2, Quiet DEF Admit, supervisor, IInv
<1>2. CASE AdmitLocked(r)
  <2>1. CASE Reply(r)
    <3>1. SlotType' /\ ReqType' /\ LaunchIsAlone'
      BY <1>2, <2>1, ReplyType DEF AdmitLocked
    <3> QED BY <1>2, <3>1, Quiet DEF AdmitLocked, IInv
  <2>2. CASE ~Reply(r)
    <3> DEFINE new == [IdleReq EXCEPT !.at = "queue", !.commit = req[r].commit]
    <3>1. /\ req' = [req EXCEPT ![r] = new]
          /\ req[r].at = "admit" /\ UNCHANGED <<slot, starting, serve, pending>>
      BY <1>2, <2>2 DEF AdmitLocked
    <3>2. new \in Handler /\ new.at = "queue"
      <4>1. req[r].commit \in 0..MaxMaster /\ IdleReq \in Handler
        BY SuccessionAssumption DEF IInv, ReqType, Handler, IdleReq
      <4>2. [IdleReq EXCEPT !.at = "queue"] \in Handler
        BY <4>1 DEF Handler
      <4> QED BY <4>1, <4>2 DEF Handler
    <3> HIDE DEF new
    <3>3. SlotType' /\ ReqType' /\ LaunchIsAlone'
      BY <3>1, <3>2, MoveType
    <3> QED BY <1>2, <3>1, <3>3, Quiet DEF AdmitLocked, IInv
  <2> QED BY <2>1, <2>2
<1>3. CASE acquireQueued(r)
  <2>1. CASE req[r].at = "queue" /\ At(r, "poll") /\ UNCHANGED <<slot, starting>>
    <3>1. SlotType' /\ ReqType' /\ LaunchIsAlone'
      BY <1>3, <2>1, AtType DEF acquireQueued
    <3> QED BY <1>3, <2>1, <3>1, Quiet DEF acquireQueued, IInv
  <2>2. CASE req[r].at = "poll" /\ slot = "free" /\ slot' = r /\ At(r, "begin") /\ UNCHANGED starting
    <3>1. SlotType'
      BY <1>3, <2>2 DEF IInv, SlotType, acquireQueued
    <3>2. ReqType'
      BY <2>2 DEF IInv, ReqType, Handler, At
    <3>3. LaunchIsAlone'
      <4> SUFFICES ASSUME NEW q \in Request
                   PROVE  /\ req'[q].at \notin {"idle", "admit", "queue", "poll"} <=> slot' = q
                          /\ slot' = q /\ req'[q].at # "begin" => starting' /\ pending' = 0
        BY DEF LaunchIsAlone
      <4>1. slot # q
        BY <2>2, SuccessionAssumption
      <4> QED BY <2>2, <4>1 DEF IInv, LaunchIsAlone, At, ReqType, Handler
    <3> QED BY <1>3, <3>1, <3>2, <3>3, Quiet DEF acquireQueued, IInv
  <2> QED BY <1>3, <2>1, <2>2 DEF acquireQueued
<1>4. CASE QueueLimit(r)
  <2>1. SlotType' /\ ReqType' /\ LaunchIsAlone'
    BY <1>4, ReplyType DEF QueueLimit
  <2> QED BY <1>4, <2>1, Quiet DEF QueueLimit, IInv
<1>5. CASE begin(r)
  <2>1. CASE Reply(r)
    <3>1. SlotType' /\ ReqType' /\ LaunchIsAlone'
      BY <1>5, <2>1, ReplyType DEF begin
    <3> QED BY <1>5, <3>1, Quiet DEF begin, IInv
  <2>2. CASE ~starting /\ pending = 0 /\ starting' = TRUE /\ At(r, "current") /\ UNCHANGED slot
    <3>1. SlotType'
      BY <1>5, <2>2 DEF IInv, SlotType, begin
    <3>2. ReqType'
      BY <2>2 DEF IInv, ReqType, Handler, At
    <3>3. LaunchIsAlone'
      BY <1>5, <2>2 DEF IInv, LaunchIsAlone, At, ReqType, Handler, begin
    <3> QED BY <1>5, <3>1, <3>2, <3>3, Quiet DEF begin, IInv
  <2> QED BY <1>5, <2>1, <2>2 DEF begin
<1> QED BY <1>1, <1>2, <1>3, <1>4, <1>5

(* ... and from the flag to the launch.                                    *)
LEMMA LaunchStep ==
    ASSUME IInv, NEW r \in Request,
           \/ SucceedCurrent(r) \/ currentMasterIfSuperseded(r) \/ checkMaster(r)
           \/ launchAttest(r) \/ launchStart(r) \/ launchError(r) \/ SucceedPending(r)
    PROVE  IInv'
<1> USE DEF Holding
<1>1. CASE SucceedCurrent(r)
  <2>1. CASE Reply(r)
    <3>1. SlotType' /\ ReqType' /\ LaunchIsAlone'
      BY <1>1, <2>1, ReplyType DEF SucceedCurrent
    <3> QED BY <1>1, <3>1, Quiet DEF SucceedCurrent, IInv
  <2>2. CASE ~Reply(r)
    <3> DEFINE new == [[req[r] EXCEPT !.at = "superseded"] EXCEPT !.gen = current.gen + 1]
    <3>1. /\ req[r].at = "current" /\ UNCHANGED <<slot, starting, serve, pending>>
          /\ req' = [req EXCEPT ![r].at = "superseded", ![r].gen = current.gen + 1]
      BY <1>1, <2>2 DEF SucceedCurrent
    <3>2. req' = [req EXCEPT ![r] = new]
      BY <3>1 DEF IInv, ReqType
    <3>3. new \in Handler /\ new.at = "superseded"
      <4>1. current.gen + 1 \in 0..(MaxGen + 1)
        BY SuccessionAssumption DEF IInv, RecordType
      <4> QED BY <4>1 DEF IInv, ReqType, Handler
    <3> HIDE DEF new
    <3>4. SlotType' /\ ReqType' /\ LaunchIsAlone'
      BY <3>1, <3>2, <3>3, MoveType
    <3> QED BY <1>1, <3>1, <3>4, Quiet DEF SucceedCurrent, IInv
  <2> QED BY <2>1, <2>2
<1>2. CASE currentMasterIfSuperseded(r)
  <2> DEFINE commit == IF req[r].commit \in 1..master THEN master ELSE req[r].commit
             new == [[req[r] EXCEPT !.at = "check"] EXCEPT !.commit = commit]
  <2>1. req' = [req EXCEPT ![r] = new]
    BY <1>2 DEF currentMasterIfSuperseded, IInv, ReqType
  <2>2. commit \in 0..MaxMaster
    BY CommitType DEF IInv, ReqType, Handler
  <2>4. new \in Handler /\ new.at = "check"
    BY <2>2 DEF IInv, ReqType, Handler
  <2> HIDE DEF new
  <2>3. SlotType' /\ ReqType' /\ LaunchIsAlone'
    BY <1>2, <2>1, <2>4, MoveType DEF currentMasterIfSuperseded, supervisor
  <2> QED BY <1>2, <2>3, Quiet DEF currentMasterIfSuperseded, IInv, supervisor
<1>3. CASE checkMaster(r)
  <2>1. SlotType' /\ ReqType' /\ LaunchIsAlone'
    BY <1>3, ReplyType, AtType DEF checkMaster
  <2> QED BY <1>3, <2>1, Quiet DEF checkMaster, IInv
<1>4. CASE launchAttest(r)
  <2>1. SlotType' /\ ReqType' /\ LaunchIsAlone'
    BY <1>4, ReplyType, AtType DEF launchAttest
  <2> QED BY <1>4, <2>1, Quiet DEF launchAttest, IInv
<1>5. CASE launchStart(r)
  <2>1. SlotType' /\ ReqType' /\ LaunchIsAlone'
    BY <1>5, AtType DEF launchStart, supervisor, IInv, ReqType
  <2>2. BoxType' /\ CallType' /\ CallsNamed'
    BY <1>5, SetBoxType DEF launchStart, supervisor, Launched, BoxState
  <2> QED BY <1>5, <2>1, <2>2, Quiet DEF launchStart, IInv, supervisor
<1>6. CASE launchError(r)
  <2>1. SlotType' /\ ReqType' /\ LaunchIsAlone'
    BY <1>6, ReplyType DEF launchError
  <2>2. BoxType' /\ CallType' /\ CallsNamed'
    BY <1>6, SetBoxType DEF launchError, Launched, BoxState
  <2> QED BY <1>6, <2>1, <2>2, Quiet DEF launchError, IInv
<1>7. CASE SucceedPending(r)
  <2>1. PICK a \in Attempt :
          /\ req[r].at = "pending" /\ attempt[a] = NoAttempt
          /\ attempt' = [attempt EXCEPT ![a] = [gen |-> req[r].gen, commit |-> req[r].commit,
                                                watch |-> "waiting"]]
          /\ pending' = a /\ Reply(r)
          /\ UNCHANGED <<line, record, box, serve, call, owner, bounds>>
    BY <1>7 DEF SucceedPending
  <2>2. req[r].gen \in Gen /\ req[r].commit \in 0..MaxMaster /\ slot = r
    BY <2>1 DEF IInv, ReqType, Handler, LaunchIsAlone
  <2>3. SlotType'
    BY <2>1 DEF IInv, SlotType, Reply
  <2>4. ReqType'
    BY <2>1, SuccessionAssumption DEF IInv, ReqType, Handler, Holding, Reply, IdleReq
  <2>5. AttemptType'
    <3>1. a # 0 /\ a \in 0..MaxAttempts /\ req[r].gen \in 0..MaxGen
      BY <2>2, SuccessionAssumption DEF Gen, Attempt
    <3>2. attempt' \in [Attempt -> [gen: 0..MaxGen, commit: 0..MaxMaster,
                                    watch: {"none", "waiting", "removing", "gone"}]]
      BY <2>1, <2>2, <3>1 DEF IInv, AttemptType
    <3>3. attempt'[a].watch = "waiting" /\ attempt'[a].gen \in Gen /\ \A b \in Attempt \ {a} : attempt'[b] = attempt[b]
      BY <2>1, <2>2 DEF IInv, AttemptType
    <3> QED BY <2>1, <3>1, <3>2, <3>3 DEF IInv, AttemptType
  <2>6. CallsNamed'
    BY <2>1 DEF IInv, CallsNamed, AttemptType, NoAttempt
  <2>7. LaunchIsAlone'
    <3> SUFFICES ASSUME NEW q \in Request
                 PROVE  req'[q].at \in {"idle", "admit", "queue", "poll"} /\ slot' # q
      BY DEF LaunchIsAlone
    <3>1. slot' = "free" /\ "free" # q
      BY <2>1, <2>2, SuccessionAssumption DEF Reply
    <3>2. CASE q = r
      BY <2>1, <3>1, <3>2 DEF IInv, ReqType, Handler, Holding, Reply, IdleReq
    <3>3. CASE q # r
      BY <2>1, <2>2, <3>1, <3>3 DEF IInv, ReqType, Reply, LaunchIsAlone
    <3> QED BY <3>1, <3>2, <3>3
  <2> QED BY <2>1, <2>3, <2>4, <2>5, <2>6, <2>7, Quiet DEF IInv
<1> QED BY <1>1, <1>2, <1>3, <1>4, <1>5, <1>6, <1>7
(* The watcher of an attempt.                                              *)
LEMMA WatcherStep ==
    ASSUME IInv, NEW a \in Attempt, Watcher(a)
    PROVE  IInv'
<1>1. PICK state \in {"removing", "gone"} :
        /\ attempt' = [attempt EXCEPT ![a].watch = state]
        /\ \/ UNCHANGED pending /\ pending # a
           \/ pending' = 0
           \/ UNCHANGED pending /\ attempt[a].watch = "removing"
  BY DEF Watcher, watch, rollback, rollbackRemove, Watch
<1>2. attempt[a].watch # "none"
  BY DEF Watcher, watch, rollbackRemove
<1>3. AttemptType'
  <2>1. attempt' \in [Attempt -> [gen: 0..MaxGen, commit: 0..MaxMaster,
                                  watch: {"none", "waiting", "removing", "gone"}]]
    BY <1>1 DEF IInv, AttemptType
  <2>2. pending' \in 0..MaxAttempts
    BY <1>1, SuccessionAssumption DEF IInv, AttemptType
  <2>3. pending' # 0 => attempt'[pending'].watch = "waiting"
    BY <1>1 DEF IInv, AttemptType, Attempt
  <2>4. \A b \in Attempt : attempt'[b] # NoAttempt =>
          attempt'[b].watch # "none" /\ attempt'[b].gen \in Gen
    BY <1>1, <1>2 DEF IInv, AttemptType, NoAttempt
  <2> QED BY <2>1, <2>2, <2>3, <2>4 DEF AttemptType
<1>4. LaunchIsAlone'
  <2>1. UNCHANGED <<req, slot, starting>> /\ pending' \in {pending, 0}
    BY DEF Watcher, watch, rollback, rollbackRemove, Watch
  <2> QED BY <2>1 DEF IInv, LaunchIsAlone
<1>5. BoxType' /\ CallType' /\ CallsNamed'
  <2>1. BoxType' /\ CallType'
    BY SetBoxType, Quiet DEF Watcher, watch, rollbackRemove, BoxState
  <2>2. \A c \in Caller : /\ call'[c].at = call[c].at /\ call'[c].gen = call[c].gen
                          /\ call'[c].attempt = call[c].attempt
    BY DEF Watcher, watch, rollbackRemove, SetBox, IInv, CallType
  <2>3. \A b \in Attempt : attempt[b].watch # "none" =>
          attempt'[b].watch # "none" /\ attempt'[b].gen = attempt[b].gen
    BY <1>1 DEF IInv, AttemptType
  <2> QED BY <2>1, <2>2, <2>3 DEF IInv, CallsNamed
<1>6. /\ UNCHANGED <<line, record, serve, slot, starting, req, owner>>
  BY DEF Watcher, watch, rollbackRemove
<1> QED BY <1>3, <1>4, <1>5, <1>6, Quiet DEF IInv

(* A check-in.                                                             *)
LEMMA CheckinBegins ==
    ASSUME IInv, NEW c \in Caller, NEW g \in Gen, Checkin(c, g)
    PROVE  IInv'
<1>1. BoxType'
  BY DEF IInv, BoxType, BoxState, Checkin
<1>2. CallType'
  <2>1. [at |-> "pending", gen |-> g, attempt |-> 0, waits |-> TRUE]
          \in [at: {"idle", "pending", "current", "remove", "lock"},
               gen: 0..MaxGen, attempt: 0..MaxAttempts, waits: BOOLEAN]
    BY SuccessionAssumption DEF Gen
  <2> QED BY <2>1 DEF IInv, CallType, Checkin
<1>3. CallsNamed'
  BY DEF IInv, CallsNamed, CallType, Checkin, supervisor
<1> QED BY <1>1, <1>2, <1>3, Quiet DEF Checkin, IInv, supervisor

(* A record of a generation moves the current one into the history.        *)
LEMMA RecordStep ==
    ASSUME IInv, NEW g \in Gen, NEW commit \in 0..MaxMaster, Record(g, commit) \/ RecordError(g)
    PROVE  RecordType'
<1>1. g \in 0..MaxGen
  BY DEF Gen
<1>2. CASE Record(g, commit)
  <2>1. current' \in [gen: 0..MaxGen, commit: 0..MaxMaster] /\ current'.gen = g
    BY <1>1, <1>2 DEF Record
  <2>2. history' = history \cup {g}
    BY <1>2 DEF Record
  <2> QED BY <2>1, <2>2 DEF IInv, RecordType
<1>3. CASE RecordError(g)
  BY <1>3 DEF IInv, RecordType, RecordError
<1> QED BY <1>2, <1>3

LEMMA CheckinMoves ==
    ASSUME IInv, NEW c \in Caller, CheckinStep(c)
    PROVE  IInv'
<1>1. CASE CheckinPending(c)
  <2>1. BoxType' /\ CallType' /\ CallsNamed'
    <3>1. CASE Answer(c, FALSE)
      BY <1>1, <3>1, AnswerType DEF CheckinPending, supervisor
    <3>2. CASE pending = 0 /\ call' = [call EXCEPT ![c].at = "current"] /\ UNCHANGED box
      <4>1. call[c].at # "idle"
        BY <1>1 DEF CheckinPending
      <4>2. BoxType'
        BY <3>2, Quiet
      <4>3. CallType'
        BY <3>2, <4>1 DEF IInv, CallType
      <4>4. CallsNamed'
        BY <1>1, <3>2 DEF IInv, CallType, CallsNamed, CheckinPending, supervisor
      <4> QED BY <4>2, <4>3, <4>4
    <3>3. CASE /\ pending # 0 /\ attempt[pending].gen = call[c].gen /\ UNCHANGED box
               /\ call' = [call EXCEPT ![c].at = "remove", ![c].attempt = pending]
      <4>1. call[c].at # "idle" /\ pending \in Attempt /\ UNCHANGED attempt
        BY <1>1, <3>3, SuccessionAssumption DEF CheckinPending, IInv, AttemptType, Attempt, supervisor
      <4>2. BoxType'
        BY <3>3, Quiet
      <4>3. CallType'
        <5> DEFINE new == [[call[c] EXCEPT !.at = "remove"] EXCEPT !.attempt = pending]
        <5>1. pending \in 0..MaxAttempts
          BY DEF IInv, AttemptType
        <5>2. /\ new \in [at: {"idle", "pending", "current", "remove", "lock"},
                          gen: 0..MaxGen, attempt: 0..MaxAttempts, waits: BOOLEAN]
              /\ new.gen = call[c].gen
          BY <5>1 DEF IInv, CallType
        <5>3. call' = [call EXCEPT ![c] = new]
          BY <3>3 DEF IInv, CallType
        <5> HIDE DEF new
        <5> QED BY <4>1, <5>2, <5>3 DEF IInv, CallType
      <4>4. CallsNamed'
        BY <3>3, <4>1 DEF IInv, CallType, CallsNamed, AttemptType
      <4> QED BY <4>2, <4>3, <4>4
    <3> QED BY <1>1, <3>1, <3>2, <3>3 DEF CheckinPending
  <2> QED BY <1>1, <2>1, Quiet DEF CheckinPending, IInv, supervisor
<1>2. CASE CheckinCurrent(c)
  <2>1. BoxType' /\ CallType' /\ CallsNamed'
    BY <1>2, AnswerType DEF CheckinCurrent, supervisor
  <2> QED BY <1>2, <2>1, Quiet DEF CheckinCurrent, IInv, supervisor
<1>3. CASE CheckinRemove(c)
  <2> DEFINE old == call[c].gen - 1
             boxes == [box EXCEPT ![old] = "none"]
             calls == [d \in Caller |-> IF call[d].gen = old THEN [call[d] EXCEPT !.waits = FALSE]
                                                             ELSE call[d]]
  <2>0. UNCHANGED attempt /\ call[c].at = "remove"
    BY <1>3 DEF CheckinRemove, supervisor
  <2>1. boxes \in [Gen -> BoxState]
    BY DEF IInv, BoxType, BoxState
  <2>2. /\ calls \in [Caller -> [at: {"idle", "pending", "current", "remove", "lock"},
                                 gen: 0..MaxGen, attempt: 0..MaxAttempts, waits: BOOLEAN]]
        /\ \A d \in Caller : /\ calls[d].at = call[d].at /\ calls[d].gen = call[d].gen
                             /\ calls[d].attempt = call[d].attempt
    BY DEF IInv, CallType
  <2>3. \/ box' = boxes /\ call' = [calls EXCEPT ![c].at = "lock"]
        \/ box' = Told(c, FALSE, boxes) /\ call' = [calls EXCEPT ![c] = IdleCall]
        \/ Answer(c, FALSE)
    BY <1>3 DEF CheckinRemove
  <2> HIDE DEF boxes, calls
  <2>4. BoxType' /\ CallType' /\ CallsNamed'
    <3>1. CASE Answer(c, FALSE)
      BY <2>0, <3>1, AnswerType
    <3>2. CASE box' = boxes /\ call' = [calls EXCEPT ![c].at = "lock"]
      <4>1. BoxType'
        BY <2>1, <3>2 DEF BoxType
      <4>2. CallType'
        BY <2>0, <2>2, <3>2 DEF IInv, CallType
      <4>3. CallsNamed'
        BY <2>0, <2>2, <3>2 DEF IInv, CallsNamed
      <4> QED BY <4>1, <4>2, <4>3
    <3>3. CASE box' = Told(c, FALSE, boxes) /\ call' = [calls EXCEPT ![c] = IdleCall]
      <4>1. BoxType'
        BY <2>1, <3>3 DEF BoxType, BoxState, Told
      <4>2. CallType'
        BY <2>2, <3>3, SuccessionAssumption DEF IInv, CallType, IdleCall
      <4>3. CallsNamed'
        BY <2>0, <2>2, <3>3 DEF IInv, CallsNamed, IdleCall
      <4> QED BY <4>1, <4>2, <4>3
    <3> QED BY <2>3, <3>1, <3>2, <3>3
  <2> QED BY <1>3, <2>4, Quiet DEF CheckinRemove, IInv, supervisor
<1>4. CASE CheckinRecord(c)
  <2> DEFINE a == call[c].attempt
  <2>1. a \in Attempt /\ attempt[a].gen \in Gen /\ attempt[a].commit \in 0..MaxMaster
    BY <1>4 DEF CheckinRecord, IInv, CallsNamed, AttemptType, NoAttempt
  <2>2. RecordType'
    BY <1>4, <2>1, RecordStep, Quiet DEF CheckinRecord
  <2>3. BoxType' /\ CallType' /\ CallsNamed'
    BY <1>4, AnswerType DEF CheckinRecord
  <2>4. UNCHANGED <<attempt, req, slot, starting, line, serve, owner>> /\ pending' \in {pending, 0}
    BY <1>4 DEF CheckinRecord
  <2>5. AttemptType'
    BY <2>4, SuccessionAssumption DEF IInv, AttemptType
  <2>6. LaunchIsAlone'
    BY <2>4 DEF IInv, LaunchIsAlone
  <2> QED BY <2>2, <2>3, <2>4, <2>5, <2>6, Quiet DEF IInv
<1> QED BY <1>1, <1>2, <1>3, <1>4 DEF CheckinStep

(* The owner's process.                                                    *)
LEMMA OwnerStep == ASSUME IInv, Owner PROVE IInv'
<1>0. 1 \in Gen /\ 1 \in 0..MaxGen
  BY SuccessionAssumption DEF Gen
<1>1. ASSUME NEW commit \in 0..master, Bootstrap(commit) PROVE IInv'
  <2>1. OwnerType'
    BY <1>1, CommitType DEF Bootstrap, OwnerType, IInv, RecordType
  <2> QED BY <1>1, <2>1, Quiet DEF Bootstrap, IInv, supervisor
<1>2. CASE BootstrapRunning
  <2>1. OwnerType'
    <3>1. [[owner EXCEPT !.at = "check"] EXCEPT !.gen = 0]
            \in [at: {"idle", "running", "check", "check_stop", "launch", "record"},
                 commit: 0..MaxMaster, gen: 0..MaxGen]
      <4> DEFINE checked == [owner EXCEPT !.at = "check"]
      <4>1. checked \in [at: {"idle", "running", "check", "check_stop", "launch", "record"},
                        commit: 0..MaxMaster, gen: 0..MaxGen]
        BY DEF OwnerType, IInv
      <4>2. 0 \in 0..MaxGen
        BY SuccessionAssumption
      <4> HIDE DEF checked
      <4>3. [checked EXCEPT !.gen = 0]
              \in [at: {"idle", "running", "check", "check_stop", "launch", "record"},
                   commit: 0..MaxMaster, gen: 0..MaxGen]
        BY <4>1, <4>2
      <4> QED BY <4>3 DEF checked
    <3>2. IdleOwner \in [at: {"idle", "running", "check", "check_stop", "launch", "record"},
                         commit: 0..MaxMaster, gen: 0..MaxGen]
      BY SuccessionAssumption DEF IdleOwner
    <3> QED BY <1>2, <3>1, <3>2 DEF BootstrapRunning, OwnerType
  <2> QED BY <1>2, <2>1, Quiet DEF BootstrapRunning, IInv, supervisor
<1>3. CASE BootstrapCheck
  <2>1. OwnerType'
    BY <1>3, SuccessionAssumption DEF BootstrapCheck, OwnerType, IInv, IdleOwner
  <2> QED BY <1>3, <2>1, Quiet DEF BootstrapCheck, IInv, supervisor
<1>4. CASE BootstrapLaunch
  <2>1. OwnerType'
    BY <1>4, SuccessionAssumption DEF BootstrapLaunch, OwnerType, IInv, IdleOwner
  <2>2. BoxType' /\ CallType' /\ CallsNamed'
    <3>1. box[1] \in BoxState
      BY <1>0 DEF IInv, BoxType
    <3> QED BY <1>4, <3>1, SetBoxType DEF BootstrapLaunch, BoxState, supervisor
  <2> QED BY <1>4, <2>1, <2>2, Quiet DEF BootstrapLaunch, IInv, supervisor
<1>5. CASE BootstrapRecord
  <2>1. OwnerType'
    BY <1>5, SuccessionAssumption DEF BootstrapRecord, OwnerType, IInv, IdleOwner
  <2>2. RecordType'
    <3>1. owner.commit \in 0..MaxMaster
      BY DEF IInv, OwnerType
    <3> QED BY <1>0, <1>5, <3>1, RecordStep DEF BootstrapRecord
  <2>3. BoxType' /\ CallType' /\ CallsNamed'
    <3>1. box[1] \in BoxState
      BY <1>0 DEF IInv, BoxType
    <3> QED BY <1>5, <3>1, Quiet, SetBoxType DEF BootstrapRecord, BoxState, supervisor
  <2> QED BY <1>5, <2>1, <2>2, <2>3, Quiet DEF BootstrapRecord, IInv, supervisor
<1> QED BY <1>1, <1>2, <1>3, <1>4, <1>5 DEF Owner

(* Crashes of the server, ends of containers, merges and the cord.         *)
LEMMA FaultStep ==
    ASSUME IInv,
           \/ Crash \/ Resume \/ Land \/ Andon \/ OtherChecks
           \/ \E g \in Gen : ViceroyFails(g) \/ Exit(g)
    PROVE  IInv'
<1>1. CASE Crash
  <2>1. UNCHANGED <<line, record, box, owner>>
    BY <1>1 DEF Crash
  <2>2. SlotType' /\ LaunchIsAlone'
    BY <1>1, SuccessionAssumption DEF Crash, SlotType, LaunchIsAlone, IdleReq
  <2>3. ReqType'
    BY <1>1, SuccessionAssumption DEF Crash, ReqType, Handler, IdleReq
  <2>4. CallType' /\ CallsNamed'
    BY <1>1, SuccessionAssumption DEF Crash, CallType, CallsNamed, IdleCall
  <2>5. AttemptType'
    <3>1. pending' = 0 /\ 0 \in 0..MaxAttempts
      BY <1>1, SuccessionAssumption DEF Crash
    <3>2. \A a \in Attempt :
            /\ attempt'[a] \in [gen: 0..MaxGen, commit: 0..MaxMaster,
                                watch: {"none", "waiting", "removing", "gone"}]
            /\ attempt'[a] # NoAttempt => attempt'[a].watch # "none" /\ attempt'[a].gen \in Gen
      <4> SUFFICES ASSUME NEW a \in Attempt
                   PROVE /\ attempt'[a] \in [gen: 0..MaxGen, commit: 0..MaxMaster,
                                             watch: {"none", "waiting", "removing", "gone"}]
                         /\ attempt'[a] # NoAttempt =>
                              attempt'[a].watch # "none" /\ attempt'[a].gen \in Gen
        OBVIOUS
      <4>1. CASE attempt[a] = NoAttempt
        BY <1>1, <4>1 DEF Crash, IInv, AttemptType, NoAttempt
      <4>2. CASE attempt[a] # NoAttempt
        <5>1. attempt'[a] = [attempt[a] EXCEPT !.watch = "gone"]
          BY <1>1, <4>2 DEF Crash
        <5>2. attempt[a].gen \in Gen
          BY <4>2 DEF IInv, AttemptType
        <5> QED BY <5>1, <5>2 DEF IInv, AttemptType
      <4> QED BY <4>1, <4>2
    <3>3. attempt' = [a \in Attempt |-> attempt'[a]]
      BY <1>1 DEF Crash
    <3> QED BY <3>1, <3>2, <3>3 DEF AttemptType
  <2> QED BY <2>1, <2>2, <2>3, <2>4, <2>5, Quiet DEF IInv
<1>2. CASE Resume
  <2>1. BoxType'
    BY <1>2 DEF Resume, IInv, BoxType, BoxState, Launched
  <2>2. SlotType'
    BY <1>2 DEF Resume, IInv, SlotType, supervisor
  <2> QED BY <1>2, <2>1, <2>2, Quiet DEF Resume, IInv, supervisor
<1>3. CASE Land \/ Andon
  <2>1. LineType'
    <3>1. CASE Land
      BY <3>1, SuccessionAssumption DEF Land, IInv, LineType, Commit
    <3>2. CASE Andon
      BY <3>2 DEF Andon, IInv, LineType
    <3> QED BY <1>3, <3>1, <3>2
  <2> QED BY <1>3, <2>1, Quiet DEF Land, Andon, IInv, supervisor
<1>4. CASE OtherChecks
  <2>1. SlotType'
    BY <1>4 DEF OtherChecks, IInv, SlotType, supervisor
  <2>2. LaunchIsAlone'
    BY <1>4, SuccessionAssumption DEF OtherChecks, IInv, LaunchIsAlone, supervisor
  <2> QED BY <1>4, <2>1, <2>2, Quiet DEF OtherChecks, IInv, supervisor
<1>5. ASSUME NEW g \in Gen, ViceroyFails(g) PROVE IInv'
  <2>1. BoxType'
    BY <1>5 DEF ViceroyFails, IInv, BoxType, BoxState
  <2> QED BY <1>5, <2>1, Quiet DEF ViceroyFails, IInv, supervisor
<1>6. ASSUME NEW g \in Gen, Exit(g) PROVE IInv'
  <2>1. BoxType' /\ CallType' /\ CallsNamed'
    BY <1>6, SetBoxType DEF Exit, BoxState, supervisor
  <2> QED BY <1>6, <2>1, Quiet DEF Exit, IInv, supervisor
<1> QED BY <1>1, <1>2, <1>3, <1>4, <1>5, <1>6
LEMMA InvInit == Init => IInv
<1> SUFFICES ASSUME Init PROVE IInv
  OBVIOUS
<1>1. /\ NoGeneration \in [gen: 0..MaxGen, commit: 0..MaxMaster]
      /\ [gen |-> 1, commit |-> 1] \in [gen: 0..MaxGen, commit: 0..MaxMaster]
      /\ 1 \in Gen /\ 1 \in Commit /\ 0 \notin Gen
  BY SuccessionAssumption DEF NoGeneration, Gen, Commit
<1>2. LineType /\ BoxType /\ SlotType
  BY <1>1 DEF Init, LineType, BoxType, BoxState, SlotType
<1>3. RecordType
  BY <1>1 DEF Init, RecordType, NoGeneration
<1>4. AttemptType
  BY SuccessionAssumption DEF Init, AttemptType, NoAttempt
<1>5. ReqType /\ OwnerType
  BY SuccessionAssumption DEF Init, ReqType, Handler, IdleReq, OwnerType, IdleOwner
<1>6. CallType /\ CallsNamed
  BY SuccessionAssumption DEF Init, CallType, CallsNamed, IdleCall
<1>7. LaunchIsAlone
  BY SuccessionAssumption DEF Init, LaunchIsAlone, IdleReq
<1> QED BY <1>2, <1>3, <1>4, <1>5, <1>6, <1>7 DEF IInv

LEMMA InvStep == IInv /\ [Next]_vars => IInv'
<1> SUFFICES ASSUME IInv, [Next]_vars PROVE IInv'
  OBVIOUS
<1>1. CASE UNCHANGED vars
  BY <1>1, Quiet DEF vars, supervisor, IInv
<1>2. CASE Next
  BY <1>2, QueueStep, LaunchStep, WatcherStep, CheckinBegins, CheckinMoves, OwnerStep, FaultStep
     DEF Next, Succeed, Viceroy
<1> QED BY <1>1, <1>2

LEMMA InvHolds == Spec => []IInv
<1>1. Init => IInv
  BY InvInit
<1>2. IInv /\ [Next]_vars => IInv'
  BY InvStep
<1> QED BY <1>1, <1>2, PTL DEF Spec

(* The state is of its kind; what is pending is watched by a goroutine     *)
(* that can still roll it back, and the generation in charge is in the     *)
(* history (succession.go).                                                *)
THEOREM TypeCorrect == Spec => []TypeOK
BY InvType, InvHolds, PTL

(* However requests queue and give up, merges take the slot, the owner     *)
(* starts a viceroy and the server crashes, one request at a time is past  *)
(* the queue, and it launches with nothing pending (succession.go: launch).*)
THEOREM LaunchesAreAlone == Spec => []LaunchIsAlone
<1>1. IInv => LaunchIsAlone
  BY DEF IInv
<1> QED BY <1>1, InvHolds, PTL
-----------------------------------------------------------------------------
(* A container waits for one check-in of its own generation, and none does *)
(* while the server is down.                                               *)
Waits ==
    /\ \A c \in Caller : call[c].waits => call[c].at # "idle" /\ box[call[c].gen] = "checkin"
    /\ \A c, d \in Caller : call[c].waits /\ call[d].waits /\ call[c].gen = call[d].gen => c = d
    /\ serve = "resume" => \A c \in Caller : call[c].at = "idle"

LEMMA SetBoxWaits ==
    ASSUME IInv, Waits, NEW g, NEW state, SetBox(g, state), UNCHANGED serve
    PROVE  Waits'
<1>1. \A c \in Caller : /\ call'[c].at = call[c].at /\ call'[c].gen = call[c].gen
                        /\ call'[c].waits => call[c].waits /\ call[c].gen # g
  BY DEF IInv, CallType, SetBox
<1>2. \A h \in Gen : h # g => box'[h] = box[h]
  BY DEF IInv, BoxType, SetBox
<1>3. \A c \in Caller : call[c].at # "idle" => call[c].gen \in Gen
  BY DEF IInv, CallType
<1> QED BY <1>1, <1>2, <1>3 DEF Waits

LEMMA AnswerWaits ==
    ASSUME IInv, Waits, NEW c \in Caller, NEW ok \in BOOLEAN, Answer(c, ok), UNCHANGED serve
    PROVE  Waits'
<1>1. /\ call'[c].at = "idle" /\ ~call'[c].waits
      /\ \A d \in Caller : d # c => call'[d] = call[d]
  BY DEF IInv, CallType, Answer, IdleCall
<1>2. ASSUME NEW d \in Caller, d # c, call[d].waits
      PROVE  box'[call[d].gen] = box[call[d].gen]
  <2>1. CASE ~call[c].waits
    BY <2>1 DEF Answer, Told
  <2>2. CASE call[c].waits
    <3>1. call[c].gen # call[d].gen /\ call[d].gen \in Gen
      BY <1>2, <2>2 DEF Waits, IInv, CallType
    <3> QED BY <3>1 DEF Answer, Told, IInv, BoxType
  <2> QED BY <2>1, <2>2
<1> QED BY <1>1, <1>2 DEF Waits

LEMMA QuietWaits ==
    ASSUME Waits, UNCHANGED <<call, box, serve>>
    PROVE  Waits'
BY DEF Waits

LEMMA CheckinWaits ==
    ASSUME IInv, Waits, NEW c \in Caller,
           CheckinStep(c) \/ \E g \in Gen : Checkin(c, g)
    PROVE  Waits'
<1>1. ASSUME NEW g \in Gen, Checkin(c, g) PROVE Waits'
  <2>1. /\ call'[c].at = "pending" /\ call'[c].gen = g /\ box[g] = "startup"
        /\ \A d \in Caller : d # c => call'[d] = call[d]
        /\ serve' = "up"
    BY <1>1 DEF Checkin, IInv, CallType
  <2>2. box'[g] = "checkin" /\ \A h \in Gen : h # g => box'[h] = box[h]
    BY <1>1 DEF Checkin, IInv, BoxType
  <2>3. \A d \in Caller : call[d].waits => call[d].gen # g /\ call[d].gen \in Gen
    BY <2>1 DEF Waits, IInv, CallType
  <2> QED BY <2>1, <2>2, <2>3 DEF Waits
<1>2. CASE CheckinPending(c)
  <2>1. CASE Answer(c, FALSE)
    BY <1>2, <2>1, AnswerWaits DEF CheckinPending
  <2>2. CASE ~Answer(c, FALSE)
    <3>1. UNCHANGED <<box, serve>> /\ call[c].at = "pending"
      BY <1>2, <2>2 DEF CheckinPending
    <3>2. \A d \in Caller : /\ call'[d].gen = call[d].gen /\ call'[d].waits = call[d].waits
                            /\ call'[d].at = "idle" <=> call[d].at = "idle"
      <4>1. CASE call' = [call EXCEPT ![c].at = "current"]
        BY <3>1, <4>1 DEF IInv, CallType
      <4>2. CASE call' = [call EXCEPT ![c].at = "remove", ![c].attempt = pending]
        BY <3>1, <4>2 DEF IInv, CallType
      <4> QED BY <1>2, <2>2, <4>1, <4>2 DEF CheckinPending
    <3> QED BY <3>1, <3>2 DEF Waits
  <2> QED BY <2>1, <2>2
<1>3. CASE CheckinCurrent(c) \/ CheckinRecord(c)
  BY <1>3, AnswerWaits DEF CheckinCurrent, CheckinRecord
<1>4. CASE CheckinRemove(c)
  <2> DEFINE old == call[c].gen - 1
             boxes == [box EXCEPT ![old] = "none"]
             calls == [d \in Caller |-> IF call[d].gen = old THEN [call[d] EXCEPT !.waits = FALSE]
                                                             ELSE call[d]]
  <2>0. call[c].at = "remove" /\ UNCHANGED serve /\ call[c].gen \in Gen
    BY <1>4 DEF CheckinRemove, IInv, CallType
  <2>1. /\ \A h \in Gen : h # old => boxes[h] = box[h]
        /\ boxes \in [Gen -> BoxState]
    BY DEF IInv, BoxType, BoxState
  <2>2. /\ calls \in [Caller -> [at: {"idle", "pending", "current", "remove", "lock"},
                                 gen: 0..MaxGen, attempt: 0..MaxAttempts, waits: BOOLEAN]]
        /\ \A d \in Caller : /\ calls[d].at = call[d].at /\ calls[d].gen = call[d].gen
                             /\ calls[d].waits => call[d].waits /\ call[d].gen # old
    BY DEF IInv, CallType
  <2>3. \/ box' = boxes /\ call' = [calls EXCEPT ![c].at = "lock"]
        \/ box' = Told(c, FALSE, boxes) /\ call' = [calls EXCEPT ![c] = IdleCall]
        \/ Answer(c, FALSE)
    BY <1>4 DEF CheckinRemove
  <2>4. \A d \in Caller : call[d].waits => call[d].gen \in Gen
    BY DEF Waits, IInv, CallType
  <2>5. \A d \in Caller : calls[d].waits => boxes[call[d].gen] = "checkin"
    BY <2>1, <2>2, <2>4 DEF Waits
  <2> HIDE DEF boxes, calls
  <2>6. CASE Answer(c, FALSE)
    BY <2>0, <2>6, AnswerWaits
  <2>7. CASE box' = boxes /\ call' = [calls EXCEPT ![c].at = "lock"]
    <3>1. \A d \in Caller : /\ call'[d].gen = call[d].gen /\ call'[d].waits = calls[d].waits
                            /\ call'[d].at = "idle" <=> call[d].at = "idle"
      BY <2>0, <2>2, <2>7
    <3> QED BY <2>0, <2>2, <2>5, <2>7, <3>1 DEF Waits
  <2>8. CASE box' = Told(c, FALSE, boxes) /\ call' = [calls EXCEPT ![c] = IdleCall]
    <3>1. /\ call'[c].at = "idle" /\ ~call'[c].waits
          /\ \A d \in Caller : d # c => call'[d] = calls[d]
      BY <2>2, <2>8 DEF IdleCall
    <3>2. ASSUME NEW d \in Caller, d # c, calls[d].waits
          PROVE  box'[call[d].gen] = "checkin"
      <4>1. CASE ~call[c].waits
        BY <2>5, <2>8, <3>2, <4>1 DEF Told
      <4>2. CASE call[c].waits
        <5>1. call[c].gen # call[d].gen /\ call[d].gen \in Gen
          BY <2>2, <2>4, <3>2, <4>2 DEF Waits
        <5> QED BY <2>1, <2>5, <2>8, <3>2, <5>1 DEF Told
      <4> QED BY <4>1, <4>2
    <3> QED BY <2>0, <2>2, <3>1, <3>2 DEF Waits
  <2> QED BY <2>3, <2>6, <2>7, <2>8
<1> QED BY <1>1, <1>2, <1>3, <1>4 DEF CheckinStep

LEMMA WaitsStep == IInv /\ Waits /\ [Next]_vars => Waits'
<1> SUFFICES ASSUME IInv, Waits, [Next]_vars PROVE Waits'
  OBVIOUS
<1>1. ASSUME NEW r \in Request,
             Succeed(r) \/ \E h \in 0..MaxGen, commit \in 0..master : Admit(r, h, commit)
      PROVE  Waits'
  <2>1. UNCHANGED serve
    BY <1>1 DEF Succeed, Admit, AdmitLocked, acquireQueued, QueueLimit, begin, SucceedCurrent,
                currentMasterIfSuperseded, checkMaster, launchAttest, launchStart, launchError,
                SucceedPending
  <2>2. \/ UNCHANGED <<box, call>>
        \/ \E state : SetBox(req[r].gen, state)
    BY <1>1 DEF Succeed, Admit, AdmitLocked, acquireQueued, QueueLimit, begin, SucceedCurrent,
                currentMasterIfSuperseded, checkMaster, launchAttest, launchStart, launchError,
                SucceedPending
  <2> QED BY <2>1, <2>2, SetBoxWaits, QuietWaits
<1>2. ASSUME NEW a \in Attempt, Watcher(a) PROVE Waits'
  BY <1>2, SetBoxWaits, QuietWaits DEF Watcher, watch, rollbackRemove
<1>3. ASSUME NEW c \in Caller, CheckinStep(c) \/ \E g \in Gen : Checkin(c, g) PROVE Waits'
  BY <1>3, CheckinWaits
<1>4. CASE Owner
  <2>1. UNCHANGED serve
    BY <1>4 DEF Owner, Bootstrap, BootstrapRunning, BootstrapCheck, BootstrapLaunch, BootstrapRecord
  <2>2. UNCHANGED <<box, call>> \/ \E state : SetBox(1, state)
    BY <1>4 DEF Owner, Bootstrap, BootstrapRunning, BootstrapCheck, BootstrapLaunch, BootstrapRecord
  <2> QED BY <2>1, <2>2, SetBoxWaits, QuietWaits
<1>5. CASE Crash
  BY <1>5 DEF Crash, Waits, IdleCall
<1>6. CASE Resume
  <2>1. \A c \in Caller : call[c].at = "idle"
    BY <1>6 DEF Resume, Waits
  <2> QED BY <1>6, <2>1 DEF Resume, Waits
<1>7. ASSUME NEW g \in Gen, ViceroyFails(g) PROVE Waits'
  <2>1. UNCHANGED <<call, serve>> /\ \A h \in Gen : h # g => box'[h] = box[h]
    BY <1>7 DEF ViceroyFails, IInv, BoxType
  <2>2. \A c \in Caller : call[c].waits => call[c].gen # g /\ call[c].gen \in Gen
    BY <1>7 DEF ViceroyFails, Waits, IInv, CallType
  <2> QED BY <2>1, <2>2 DEF Waits
<1>8. ASSUME NEW g \in Gen, Exit(g) PROVE Waits'
  BY <1>8, SetBoxWaits DEF Exit
<1>9. CASE Land \/ Andon \/ OtherChecks \/ UNCHANGED vars
  BY <1>9, QuietWaits DEF Land, Andon, OtherChecks, vars
<1> QED BY <1>1, <1>2, <1>3, <1>4, <1>5, <1>6, <1>7, <1>8, <1>9 DEF Next, Viceroy-----------------------------------------------------------------------------
(* As long as the owner starts no viceroy by hand, a generation is launched*)
(* only to succeed the one in charge, and is pending only as its successor.*)
Chosen == Holding \ {"begin", "current"}

Forward ==
    /\ owner.at = "idle"
    /\ \A r \in Request : req[r].at \in Chosen => current.gen # 0 /\ req[r].gen = current.gen + 1
    /\ pending # 0 => current.gen # 0 /\ attempt[pending].gen = current.gen + 1

(* Only the one in charge serves, and it is gone by the time a check-in is *)
(* about to record its successor.                                          *)
OneServes ==
    /\ \A g \in Gen : box[g] = "serving" => g = current.gen
    /\ \A c \in Caller : call[c].at = "lock" /\ pending # 0 /\ call[c].attempt = pending =>
        box[current.gen] = "none"

HInv == IInv /\ Waits /\ Forward /\ OneServes

LEMMA NoOwner ==
    ASSUME HInv, bootstraps = 0, bootstraps' = 0
    PROVE  ~Owner
BY DEF Owner, Bootstrap, BootstrapRunning, BootstrapCheck, BootstrapLaunch, BootstrapRecord,
       HInv, Forward

(* The record changes only under a check-in, to its pending attempt.       *)
RecordMove(c) ==
    LET a == call[c].attempt
    IN /\ call[c].at = "lock" /\ pending = a /\ pending # 0 /\ pending' = 0
       /\ current' = [gen |-> attempt[a].gen, commit |-> attempt[a].commit]
       /\ UNCHANGED <<attempt, req, owner>> /\ Answer(c, TRUE)

LEMMA CurrentMoves ==
    ASSUME HInv, [Next]_vars, bootstraps = 0, bootstraps' = 0
    PROVE  UNCHANGED current \/ \E c \in Caller : RecordMove(c)
<1>1. ASSUME NEW c \in Caller, CheckinStep(c)
      PROVE  UNCHANGED current \/ RecordMove(c)
  <2>1. CASE CheckinPending(c) \/ CheckinCurrent(c) \/ CheckinRemove(c)
    BY <2>1 DEF CheckinPending, CheckinCurrent, CheckinRemove, record
  <2>2. CASE CheckinRecord(c)
    <3>1. call[c].at = "lock" /\ call[c].attempt \in Attempt
      BY <2>2 DEF CheckinRecord, HInv, IInv, CallsNamed
    <3>2. call[c].attempt # 0
      BY <3>1 DEF Attempt
    <3> QED BY <2>2, <3>1, <3>2 DEF CheckinRecord, RecordMove, Record, RecordError, record
  <2> QED BY <1>1, <2>1, <2>2 DEF CheckinStep
<1>2. ASSUME NEW r \in Request,
             Succeed(r) \/ \E h \in 0..MaxGen, commit \in 0..master : Admit(r, h, commit)
      PROVE  UNCHANGED current
  BY <1>2 DEF Succeed, Admit, AdmitLocked, acquireQueued, QueueLimit, begin, SucceedCurrent,
              currentMasterIfSuperseded, checkMaster, launchAttest, launchStart, launchError,
              SucceedPending, record
<1>3. CASE \/ UNCHANGED vars \/ Crash \/ Resume \/ Land \/ Andon \/ OtherChecks
           \/ \E a \in Attempt : Watcher(a)
           \/ \E g \in Gen : Viceroy(g) \/ Exit(g)
  BY <1>3 DEF vars, Crash, Resume, Land, Andon, OtherChecks, Watcher, watch, rollbackRemove,
              Viceroy, ViceroyFails, Checkin, Exit, record
<1> QED BY <1>1, <1>2, <1>3, NoOwner DEF Next

(* A request's generation is that of the successor when it is chosen, and  *)
(* stays.                                                                  *)
ReqMove(r) ==
    req'[r].at \in Chosen =>
        \/ req[r].at \in Chosen /\ req'[r].gen = req[r].gen
        \/ UNCHANGED current /\ current.gen # 0 /\ req'[r].gen = current.gen + 1

LEMMA ReqMoves ==
    ASSUME IInv, NEW r \in Request, NEW q \in Request,
           Succeed(r) \/ \E h \in 0..MaxGen, commit \in 0..master : Admit(r, h, commit)
    PROVE  ReqMove(q)
<1> USE DEF Chosen, Holding
<1>0. req \in [Request -> Handler]
  BY DEF IInv, ReqType
<1>1. CASE \E h \in 0..MaxGen, commit \in 0..master : Admit(r, h, commit)
  BY <1>0, <1>1 DEF Admit, ReqMove
<1>2. CASE Reply(r)
  BY <1>0, <1>2 DEF Reply, ReqMove, IdleReq
<1>3. ASSUME NEW step, At(r, step), step \in Chosen => req[r].at \in Chosen PROVE ReqMove(q)
  BY <1>0, <1>3 DEF At, ReqMove, Handler
<1>4. CASE AdmitLocked(r)
  BY <1>0, <1>2, <1>4 DEF AdmitLocked, ReqMove, IdleReq
<1>5. CASE acquireQueued(r) \/ QueueLimit(r) \/ begin(r)
  BY <1>2, <1>3, <1>5 DEF acquireQueued, QueueLimit, begin
<1>6. CASE SucceedCurrent(r)
  BY <1>0, <1>2, <1>6 DEF SucceedCurrent, ReqMove, Handler, record
<1>7. CASE currentMasterIfSuperseded(r)
  BY <1>0, <1>7 DEF currentMasterIfSuperseded, ReqMove, Handler
<1>8. CASE checkMaster(r)
  BY <1>2, <1>3, <1>8 DEF checkMaster
<1>9. CASE launchAttest(r) \/ launchStart(r) \/ launchError(r)
  BY <1>2, <1>3, <1>9 DEF launchAttest, launchStart, launchError
<1>10. CASE SucceedPending(r)
  BY <1>2, <1>10 DEF SucceedPending
<1> QED BY <1>1, <1>4, <1>5, <1>6, <1>7, <1>8, <1>9, <1>10 DEF Succeed

(* What is pending stays the same attempt, or is what a launch just began. *)
LEMMA PendingMoves ==
    ASSUME IInv, [Next]_vars, pending' # 0
    PROVE  \/ pending' = pending /\ attempt'[pending].gen = attempt[pending].gen
           \/ \E r \in Request : /\ req[r].at = "pending"
                                 /\ pending' \in Attempt /\ attempt[pending'] = NoAttempt
                                 /\ attempt'[pending'].gen = req[r].gen
<1>1. ASSUME NEW r \in Request, SucceedPending(r)
      PROVE  /\ req[r].at = "pending"
             /\ pending' \in Attempt /\ attempt[pending'] = NoAttempt
             /\ attempt'[pending'].gen = req[r].gen
  BY <1>1 DEF SucceedPending, IInv, AttemptType
<1>2. ASSUME NEW r \in Request, ~SucceedPending(r),
             Succeed(r) \/ \E h \in 0..MaxGen, commit \in 0..master : Admit(r, h, commit)
      PROVE  UNCHANGED <<pending, attempt>>
  BY <1>2 DEF Succeed, Admit, AdmitLocked, acquireQueued, QueueLimit, begin, SucceedCurrent,
              currentMasterIfSuperseded, checkMaster, launchAttest, launchStart, launchError,
              supervisor
<1>3. ASSUME NEW a \in Attempt, Watcher(a)
      PROVE  pending' = pending /\ attempt'[pending].gen = attempt[pending].gen
  <2>1. pending' = pending
    BY <1>3 DEF Watcher, watch, rollback, rollbackRemove
  <2>2. pending \in Attempt
    BY <2>1 DEF IInv, AttemptType, Attempt
  <2> QED BY <1>3, <2>1, <2>2 DEF Watcher, watch, rollback, rollbackRemove, Watch, IInv, AttemptType
<1>4. ASSUME NEW c \in Caller, CheckinStep(c) PROVE UNCHANGED <<pending, attempt>>
  BY <1>4 DEF CheckinStep, CheckinPending, CheckinCurrent, CheckinRemove, CheckinRecord, supervisor
<1>5. CASE \/ UNCHANGED vars \/ Resume \/ Land \/ Andon \/ OtherChecks \/ Owner
           \/ \E g \in Gen : Viceroy(g) \/ Exit(g)
  BY <1>5 DEF vars, Resume, Land, Andon, OtherChecks, Viceroy, ViceroyFails, Checkin, Exit,
              Owner, Bootstrap, BootstrapRunning, BootstrapCheck, BootstrapLaunch,
              BootstrapRecord, supervisor
<1>6. ~Crash
  BY DEF Crash
<1> QED BY <1>1, <1>2, <1>3, <1>4, <1>5, <1>6 DEF Next

LEMMA ForwardStep ==
    ASSUME HInv, [Next]_vars, bootstraps = 0, bootstraps' = 0
    PROVE  Forward'
<1>0. IInv /\ Forward /\ ~Owner
  BY NoOwner DEF HInv
<1>1. UNCHANGED owner
  BY <1>0 DEF Next, vars, Succeed, Admit, AdmitLocked, acquireQueued, QueueLimit, begin,
              SucceedCurrent, currentMasterIfSuperseded, checkMaster, launchAttest, launchStart,
              launchError, SucceedPending, Watcher, watch, rollbackRemove, CheckinStep,
              CheckinPending, CheckinCurrent, CheckinRemove, CheckinRecord, Viceroy, ViceroyFails,
              Checkin, Exit, Crash, Resume, Land, Andon, OtherChecks
<1>2. CASE \E c \in Caller : RecordMove(c)
  <2>1. pending # 0 /\ pending' = 0 /\ UNCHANGED req
    BY <1>2 DEF RecordMove
  <2>2. \A r \in Request : req[r].at \notin Chosen
    <3>1. \A r \in Request : req[r].at \in {"idle", "admit", "queue", "poll", "begin"}
      BY <1>0, <2>1 DEF IInv, ReqType, Handler, Holding, LaunchIsAlone
    <3> QED BY <3>1 DEF Chosen, Holding
  <2> QED BY <1>0, <1>1, <2>1, <2>2 DEF Forward
<1>3. CASE UNCHANGED current
  <2>1. \A q \in Request : ReqMove(q)
    <3>1. ASSUME NEW r \in Request, NEW q \in Request,
                 Succeed(r) \/ \E h \in 0..MaxGen, commit \in 0..master : Admit(r, h, commit)
          PROVE  ReqMove(q)
      BY <1>0, <3>1, ReqMoves
    <3>2. CASE Crash
      BY <3>2 DEF Crash, IdleReq, ReqMove, Chosen, Holding
    <3>3. CASE UNCHANGED req
      BY <3>3 DEF ReqMove
    <3>4. ASSUME NEW x, Watcher(x) \/ CheckinStep(x) \/ Viceroy(x) \/ Exit(x) PROVE UNCHANGED req
      BY <3>4 DEF Watcher, watch, rollbackRemove, CheckinStep, CheckinPending, CheckinCurrent,
                  CheckinRemove, CheckinRecord, Viceroy, ViceroyFails, Checkin, Exit
    <3>5. CASE UNCHANGED vars \/ Resume \/ Land \/ Andon \/ OtherChecks
      BY <3>3, <3>5 DEF vars, Resume, Land, Andon, OtherChecks
    <3> QED BY <1>0, <3>1, <3>2, <3>3, <3>4, <3>5 DEF Next
  <2>2. \A q \in Request : req'[q].at \in Chosen =>
          current'.gen # 0 /\ req'[q].gen = current'.gen + 1
    BY <1>0, <1>3, <2>1 DEF Forward, ReqMove
  <2>3. pending' # 0 => current'.gen # 0 /\ attempt'[pending'].gen = current'.gen + 1
    <3> SUFFICES ASSUME pending' # 0
                 PROVE  current'.gen # 0 /\ attempt'[pending'].gen = current'.gen + 1
      OBVIOUS
    <3>1. CASE pending' = pending /\ attempt'[pending].gen = attempt[pending].gen
      BY <1>0, <1>3, <3>1 DEF Forward
    <3>2. CASE \E r \in Request : req[r].at = "pending" /\ attempt'[pending'].gen = req[r].gen
      BY <1>0, <1>3, <3>2 DEF Forward, Chosen, Holding
    <3> QED BY <1>0, <3>1, <3>2, PendingMoves
  <2> QED BY <1>0, <1>1, <2>2, <2>3 DEF Forward
<1> QED BY <1>2, <1>3, CurrentMoves

(* A container that serves, or whose generation goes on beside a check-in  *)
(* about to record, is that of the current generation.                     *)
Gone(boxes) ==
    /\ \A g \in Gen : boxes[g] = "serving" => g = current.gen
    /\ \A c \in Caller : call[c].at = "lock" /\ pending # 0 /\ call[c].attempt = pending =>
        boxes[current.gen] = "none"

LEMMA OneServesKeeps ==
    ASSUME HInv, UNCHANGED current, Gone(box'),
           \A c \in Caller : call'[c].at = "lock" =>
                call[c].at = "lock" /\ call'[c].attempt = call[c].attempt,
           \/ pending' \in {0, pending}
           \/ attempt[pending'] = NoAttempt
    PROVE  OneServes'
<1> SUFFICES ASSUME NEW c \in Caller, call'[c].at = "lock", pending' # 0,
                    call'[c].attempt = pending'
             PROVE  box'[current'.gen] = "none"
  BY DEF OneServes, Gone
<1>1. call[c].at = "lock" /\ call[c].attempt = pending'
  OBVIOUS
<1>2. attempt[call[c].attempt].watch # "none"
  BY <1>1 DEF HInv, IInv, CallsNamed
<1>3. pending' = pending
  BY <1>1, <1>2 DEF NoAttempt
<1> QED BY <1>1, <1>3 DEF Gone

LEMMA EndKeepsGone ==
    ASSUME HInv, NEW g, NEW boxes, boxes = box \/ boxes = [box EXCEPT ![g] = "none"]
    PROVE  Gone(boxes)
<1>1. Gone(box)
  BY DEF HInv, OneServes, Gone
<1>2. CASE boxes = [box EXCEPT ![g] = "none"]
  <2>1. box \in [Gen -> BoxState]
    BY DEF HInv, IInv, BoxType
  <2>2. \A h \in Gen : boxes[h] \in {box[h], "none"}
    BY <1>2, <2>1
  <2>3. pending # 0 => current.gen \in Gen
    BY SuccessionAssumption DEF HInv, IInv, Forward, RecordType, Gen
  <2> QED BY <1>1, <2>2, <2>3 DEF Gone
<1> QED BY <1>1, <1>2

LEMMA SucceedOneServes ==
    ASSUME HInv, NEW r \in Request,
           Succeed(r) \/ \E h \in 0..MaxGen, commit \in 0..master : Admit(r, h, commit)
    PROVE  OneServes'
<1>1. UNCHANGED current
  BY DEF Succeed, Admit, AdmitLocked, acquireQueued, QueueLimit, begin, SucceedCurrent,
         currentMasterIfSuperseded, checkMaster, launchAttest, launchStart, launchError,
         SucceedPending, record
<1>2. pending' \in {0, pending} \/ attempt[pending'] = NoAttempt
  BY DEF Succeed, Admit, AdmitLocked, acquireQueued, QueueLimit, begin, SucceedCurrent,
         currentMasterIfSuperseded, checkMaster, launchAttest, launchStart, launchError,
         SucceedPending, supervisor
<1>3. CASE launchStart(r) \/ launchError(r)
  <2>1. req[r].at = "start"
    BY <1>3 DEF launchStart, launchError
  <2>2. current.gen # 0 /\ req[r].gen = current.gen + 1 /\ current.gen \in Nat
    BY <2>1 DEF HInv, Forward, Chosen, Holding, IInv, RecordType
  <2>3. Launched(req[r].gen) = "startup" /\ req[r].gen # current.gen
    BY <2>2 DEF Launched
  <2>4. PICK state \in {"none", "startup"} : SetBox(req[r].gen, state)
    BY <1>3, <2>3 DEF launchStart, launchError
  <2>5. box' = [box EXCEPT ![req[r].gen] = state]
    BY <2>4 DEF SetBox
  <2>6. Gone(box')
    BY <2>3, <2>5 DEF HInv, OneServes, Gone, IInv, BoxType
  <2>7. \A c \in Caller : call'[c].at = call[c].at /\ call'[c].attempt = call[c].attempt
    BY <2>4 DEF SetBox, HInv, IInv, CallType
  <2> QED BY <1>1, <1>2, <2>6, <2>7, OneServesKeeps
<1>4. CASE UNCHANGED <<box, call>>
  BY <1>1, <1>2, <1>4, EndKeepsGone, OneServesKeeps
<1> QED BY <1>3, <1>4
        DEF Succeed, Admit, AdmitLocked, acquireQueued, QueueLimit, begin, SucceedCurrent,
            currentMasterIfSuperseded, checkMaster, launchAttest, SucceedPending

(* A check-in that is answered: an error ends the container, and only the  *)
(* one in charge is told to serve.                                         *)
LEMMA AnswerOneServes ==
    ASSUME HInv, NEW c \in Caller, NEW ok \in BOOLEAN, Answer(c, ok),
           ok => call[c].gen = current.gen,
           UNCHANGED <<current, pending>>
    PROVE  OneServes'
<1>1. \A d \in Caller : call'[d].at = "lock" =>
        call[d].at = "lock" /\ call'[d].attempt = call[d].attempt
  BY DEF Answer, IdleCall, HInv, IInv, CallType
<1>2. CASE ~ok
  BY <1>1, <1>2, EndKeepsGone, OneServesKeeps DEF Answer, Told
<1>3. CASE ok /\ ~call[c].waits
  BY <1>1, <1>3, EndKeepsGone, OneServesKeeps DEF Answer, Told
<1>4. CASE ok /\ call[c].waits
  <2>1. box' = [box EXCEPT ![current.gen] = "serving"] /\ box[current.gen] = "checkin"
    BY <1>4 DEF Answer, Told, HInv, Waits
  <2>2. Gone(box')
    BY <2>1 DEF HInv, OneServes, Gone, IInv, BoxType
  <2> QED BY <1>1, <2>2, OneServesKeeps
<1> QED BY <1>2, <1>3, <1>4

LEMMA CheckinOneServes ==
    ASSUME HInv, NEW c \in Caller, CheckinStep(c), UNCHANGED current, ~RecordMove(c)
    PROVE  OneServes'
<1>1. CASE CheckinPending(c)
  <2>1. CASE Answer(c, FALSE)
    BY <1>1, <2>1, AnswerOneServes DEF CheckinPending, supervisor
  <2>2. CASE ~Answer(c, FALSE)
    <3>1. UNCHANGED <<box, pending>>
      BY <1>1, <2>2 DEF CheckinPending, supervisor
    <3>2. \A d \in Caller : call'[d].at = "lock" =>
            call[d].at = "lock" /\ call'[d].attempt = call[d].attempt
      <4>1. CASE call' = [call EXCEPT ![c].at = "current"]
        BY <4>1 DEF HInv, IInv, CallType
      <4>2. CASE call' = [call EXCEPT ![c].at = "remove", ![c].attempt = pending]
        <5>1. call'[c].at = "remove" /\ \A d \in Caller : d # c => call'[d] = call[d]
          BY <4>2 DEF HInv, IInv, CallType
        <5> QED BY <5>1
      <4> QED BY <1>1, <2>2, <4>1, <4>2 DEF CheckinPending
    <3> QED BY <3>1, <3>2, EndKeepsGone, OneServesKeeps
  <2> QED BY <2>1, <2>2
<1>2. CASE CheckinCurrent(c)
  <2>1. PICK ok \in BOOLEAN : Answer(c, ok) /\ (ok => call[c].gen = current.gen)
    BY <1>2 DEF CheckinCurrent
  <2> QED BY <1>2, <2>1, AnswerOneServes DEF CheckinCurrent, supervisor
<1>3. CASE CheckinRemove(c)
  <2> DEFINE old == call[c].gen - 1
             boxes == [box EXCEPT ![old] = "none"]
             calls == [d \in Caller |-> IF call[d].gen = old THEN [call[d] EXCEPT !.waits = FALSE]
                                                             ELSE call[d]]
  <2>0. call[c].at = "remove" /\ UNCHANGED pending
    BY <1>3 DEF CheckinRemove, supervisor
  <2>1. Gone(boxes) /\ Gone(box)
    BY EndKeepsGone
  <2>2. /\ calls \in [Caller -> [at: {"idle", "pending", "current", "remove", "lock"},
                                 gen: 0..MaxGen, attempt: 0..MaxAttempts, waits: BOOLEAN]]
        /\ \A d \in Caller : /\ calls[d].at = call[d].at /\ calls[d].gen = call[d].gen
                             /\ calls[d].attempt = call[d].attempt
    BY DEF HInv, IInv, CallType
  <2>3. \/ box' = boxes /\ call' = [calls EXCEPT ![c].at = "lock"]
        \/ box' = Told(c, FALSE, boxes) /\ call' = [calls EXCEPT ![c] = IdleCall]
        \/ Answer(c, FALSE)
    BY <1>3 DEF CheckinRemove
  <2>4. pending # 0 /\ call[c].attempt = pending => boxes[current.gen] = "none"
    <3> SUFFICES ASSUME pending # 0, call[c].attempt = pending
                 PROVE  boxes[current.gen] = "none"
      OBVIOUS
    <3>1. call[c].gen = current.gen + 1 /\ current.gen # 0
      BY <2>0 DEF HInv, Forward, IInv, CallsNamed
    <3>2. current.gen \in Gen /\ old = current.gen
      BY <3>1, SuccessionAssumption DEF HInv, IInv, RecordType, Gen
    <3> QED BY <3>2 DEF HInv, IInv, BoxType
  <2>5. boxes \in [Gen -> BoxState]
    BY DEF HInv, IInv, BoxType, BoxState
  <2>6. pending # 0 => current.gen \in Gen
    BY SuccessionAssumption DEF HInv, IInv, Forward, RecordType, Gen
  <2> HIDE DEF boxes, calls
  <2>7. CASE Answer(c, FALSE)
    BY <2>0, <2>7, AnswerOneServes
  <2>8. CASE box' = boxes /\ call' = [calls EXCEPT ![c].at = "lock"]
    <3>1. \A d \in Caller : /\ d # c => call'[d].at = call[d].at
                            /\ call'[d].attempt = call[d].attempt
      BY <2>2, <2>8
    <3> QED BY <2>0, <2>1, <2>4, <2>8, <3>1 DEF Gone, OneServes
  <2>9. CASE box' = Told(c, FALSE, boxes) /\ call' = [calls EXCEPT ![c] = IdleCall]
    <3>1. \A d \in Caller : call'[d].at = "lock" =>
            call[d].at = "lock" /\ call'[d].attempt = call[d].attempt
      BY <2>2, <2>9 DEF IdleCall
    <3>2. Gone(box')
      BY <2>1, <2>5, <2>6, <2>9 DEF Told, Gone
    <3> QED BY <2>0, <3>1, <3>2, OneServesKeeps
  <2> QED BY <2>3, <2>7, <2>8, <2>9
<1>4. CASE CheckinRecord(c)
  <2>1. call[c].at = "lock" /\ call[c].attempt # 0
    BY <1>4 DEF CheckinRecord, HInv, IInv, CallsNamed, Attempt
  <2>2. Answer(c, FALSE) /\ UNCHANGED pending
    BY <1>4, <2>1 DEF CheckinRecord, RecordMove, Record
  <2> QED BY <2>2, AnswerOneServes
<1> QED BY <1>1, <1>2, <1>3, <1>4 DEF CheckinStep

(* The handover itself: the old container is gone by then.                 *)
LEMMA HandoverOneServes ==
    ASSUME HInv, NEW c \in Caller, RecordMove(c)
    PROVE  OneServes' /\ current'.gen = current.gen + 1
<1>1. /\ call[c].at = "lock" /\ call[c].attempt = pending /\ pending # 0 /\ pending' = 0
      /\ current'.gen = attempt[pending].gen
    BY DEF RecordMove
<1>2. call[c].gen = current.gen + 1 /\ current'.gen = current.gen + 1
  BY <1>1 DEF HInv, Forward, IInv, CallsNamed
<1>3. box[current.gen] = "none"
  BY <1>1 DEF HInv, OneServes
<1>4. \A g \in Gen : box[g] # "serving"
  BY <1>3 DEF HInv, OneServes
<1>5. \A g \in Gen : g # call[c].gen => box'[g] = box[g]
  BY DEF RecordMove, Answer, Told, HInv, IInv, BoxType
<1>6. \A g \in Gen : box'[g] = "serving" => g = current'.gen
  BY <1>2, <1>4, <1>5
<1> QED BY <1>1, <1>2, <1>6 DEF OneServes

LEMMA OneServesStep ==
    ASSUME HInv, [Next]_vars, bootstraps = 0, bootstraps' = 0
    PROVE  OneServes'
<1>0. IInv /\ Waits /\ OneServes /\ ~Owner
  BY NoOwner DEF HInv
<1>1. CASE \E c \in Caller : RecordMove(c)
  BY <1>1, HandoverOneServes
<1>2. ASSUME UNCHANGED current, \A c \in Caller : ~RecordMove(c) PROVE OneServes'
  <2>1. ASSUME NEW r \in Request,
               Succeed(r) \/ \E h \in 0..MaxGen, commit \in 0..master : Admit(r, h, commit)
        PROVE  OneServes'
    BY <2>1, SucceedOneServes
  <2>2. ASSUME NEW c \in Caller, CheckinStep(c) PROVE OneServes'
    BY <1>2, <2>2, CheckinOneServes
  <2>3. ASSUME NEW c \in Caller, NEW g \in Gen, Checkin(c, g) PROVE OneServes'
    <3>1. UNCHANGED pending /\ \A d \in Caller : call'[d].at = "lock" =>
            call[d].at = "lock" /\ call'[d].attempt = call[d].attempt
      BY <2>3 DEF Checkin, supervisor, IInv, CallType
    <3>2. box[g] = "startup" /\ box' = [box EXCEPT ![g] = "checkin"]
      BY <2>3 DEF Checkin
    <3>3. Gone(box')
      BY <1>0, <3>2 DEF OneServes, Gone, IInv, BoxType
    <3> QED BY <1>2, <3>1, <3>3, OneServesKeeps
  <2>4. ASSUME NEW g \in Gen, ViceroyFails(g) PROVE OneServes'
    <3>1. box' = [box EXCEPT ![g] = "none"] /\ UNCHANGED <<pending, call>>
      BY <2>4 DEF ViceroyFails, supervisor
    <3> QED BY <1>2, <3>1, EndKeepsGone, OneServesKeeps
  <2>5. ASSUME NEW g, SetBox(g, "none"), pending' \in {0, pending} PROVE OneServes'
    <3>1. \A d \in Caller : call'[d].at = call[d].at /\ call'[d].attempt = call[d].attempt
      BY <1>0, <2>5 DEF SetBox, IInv, CallType
    <3> QED BY <1>2, <2>5, <3>1, EndKeepsGone, OneServesKeeps DEF SetBox
  <2>6. ASSUME UNCHANGED <<box, call>>, pending' \in {0, pending} PROVE OneServes'
    BY <1>2, <2>6, EndKeepsGone, OneServesKeeps
  <2>7. ASSUME NEW a \in Attempt, Watcher(a) PROVE OneServes'
    BY <2>5, <2>6, <2>7 DEF Watcher, watch, rollback, rollbackRemove
  <2>8. ASSUME NEW g \in Gen, Exit(g) PROVE OneServes'
    BY <2>5, <2>8 DEF Exit, supervisor
  <2>9. CASE Crash
    <3>1. UNCHANGED box /\ \A c \in Caller : call'[c].at = "idle"
      BY <2>9 DEF Crash, IdleCall
    <3> QED BY <1>0, <1>2, <3>1 DEF OneServes
  <2>10. CASE Resume
    <3>1. \A c \in Caller : call'[c].at = "idle"
      BY <1>0, <2>10 DEF Resume, Waits
    <3>2. \A g \in Gen : g # current.gen => box'[g] = box[g]
      BY <1>0, <2>10 DEF Resume, IInv, BoxType
    <3> QED BY <1>0, <1>2, <3>1, <3>2 DEF OneServes
  <2>11. CASE UNCHANGED vars \/ Land \/ Andon \/ OtherChecks
    BY <2>6, <2>11 DEF vars, Land, Andon, OtherChecks, supervisor
  <2> QED BY <1>0, <2>1, <2>2, <2>3, <2>4, <2>7, <2>8, <2>9, <2>10, <2>11 DEF Next, Viceroy
<1> QED BY <1>1, <1>2, CurrentMoves

LEMMA HandoverInit == Init => HInv
<1> SUFFICES ASSUME Init PROVE HInv
  OBVIOUS
<1>1. Waits
  BY DEF Init, Waits, IdleCall
<1>2. Forward
  BY DEF Init, Forward, IdleOwner, IdleReq, Chosen, Holding
<1>3. OneServes
  BY DEF Init, OneServes, IdleCall
<1> QED BY <1>1, <1>2, <1>3, InvInit DEF HInv

LEMMA HandoverStep ==
    HInv /\ [Next]_vars /\ bootstraps = 0 /\ bootstraps' = 0 => HInv'
BY InvStep, WaitsStep, ForwardStep, OneServesStep DEF HInv

LEMMA HandoverHolds == Spec /\ [](bootstraps = 0) => []HInv
<1>1. Init => HInv
  BY HandoverInit
<1>2. HInv /\ [Next]_vars /\ bootstraps = 0 /\ (bootstraps = 0)' => HInv'
  BY HandoverStep
<1> QED BY <1>1, <1>2, PTL DEF Spec

(* Only one generation is active (m2-succession.md:185), as long as the    *)
(* owner starts none by hand: check-ins, rollbacks, exits, crashes and     *)
(* resumes never make two serve at once (succession.go: Checkin).          *)
THEOREM OneGenerationServes == Spec /\ [](bootstraps = 0) => []OneInCharge
<1>1. HInv => OneInCharge
  BY DEF HInv, OneServes, OneInCharge
<1> QED BY <1>1, HandoverHolds, PTL

(* Under the same condition the record only moves to the next generation,  *)
(* the one that is pending at that moment (succession.go: Checkin).        *)
THEOREM HandoversGoForward == Spec /\ [](bootstraps = 0) => HandoverIsForward
<1> DEFINE Forth ==
      current' # current /\ current.gen # 0 =>
        /\ pending # 0
        /\ current' = [gen |-> attempt[pending].gen, commit |-> attempt[pending].commit]
        /\ current'.gen = current.gen + 1
<1>1. ASSUME HInv, [Next]_vars, bootstraps = 0, bootstraps' = 0 PROVE Forth
  <2>1. CASE UNCHANGED current
    BY <2>1
  <2>2. ASSUME NEW c \in Caller, RecordMove(c) PROVE Forth
    BY <1>1, <2>2, HandoverOneServes DEF RecordMove
  <2> QED BY <1>1, <2>1, <2>2, CurrentMoves
<1>2. HInv /\ [Next]_vars /\ bootstraps = 0 /\ (bootstraps = 0)' => [Forth]_vars
  BY <1>1
<1> QED BY <1>2, HandoverHolds, PTL DEF Spec, HandoverIsForward
------------------------------------------------------------------------------
(* The wake loops of the generations and the testament they share.         *)

Testament == [marker : Nat, notes : SUBSET Gens]
Loop == [at : {"off", "wait", "wake", "run", "mark", "put", "gone"}, wake : {"none", "startup", "messages", "line", "heartbeat"},
         handled : Nat, to : Nat, seen : Nat, cur : Nat, body : Testament]
LoopTypes ==
    /\ inboxLen \in Nat /\ world \in Nat /\ testament \in Testament
    /\ loop \in [Gens -> Loop]
    /\ viPast \in [shown : SUBSET Nat, told : Nat, overlap : BOOLEAN, faults : Nat]

(* All messages up to one were in the batch of a run.                      *)
UpTo(n) == \A m \in 1..n : m \in viPast.shown

(* A generation counts as handled what a run was shown, and while no other *)
(* runs the text it will write back holds the notes of the testament.      *)
GenHolds(g) ==
    /\ UpTo(loop[g].handled)
    /\ loop[g].at \in {"run", "mark", "put"} => UpTo(loop[g].to)
    /\ loop[g].at \in {"run", "put"} => UpTo(loop[g].body.marker)
    /\ loop[g].at \in {"run", "put"} /\ ~viPast.overlap => testament.notes \subseteq loop[g].body.notes

OneLoop == ~viPast.overlap => \A g, h \in VL!Alive : g = h
LoopInv == LoopTypes /\ UpTo(testament.marker) /\ OneLoop /\ \A g \in Gens : GenHolds(g)

(* What a step of one generation leaves of the others.                     *)
LEMMA OtherLoops ==
    ASSUME LoopInv, LoopTypes', NEW g \in Gens, NEW r, loop' = [loop EXCEPT ![g] = r],
           viPast.shown \subseteq viPast'.shown, viPast.overlap => viPast'.overlap,
           testament' = testament \/ g \in VL!Alive
    PROVE  \A h \in Gens \ {g} : GenHolds(h)'
<1> SUFFICES ASSUME NEW h \in Gens \ {g} PROVE GenHolds(h)'
  OBVIOUS
<1>1. loop'[h] = loop[h] /\ GenHolds(h)
  BY DEF LoopInv, LoopTypes
<1>2. testament' = testament \/ viPast.overlap \/ loop[h].at \in {"off", "gone"}
  BY DEF LoopInv, OneLoop, VL!Alive
<1> QED BY <1>1, <1>2 DEF GenHolds, UpTo, LoopInv, LoopTypes

LEMMA StartLoop == ASSUME LoopInv, NEW g \in Gens, VL!LoopStart(g) PROVE LoopInv'
<1> DEFINE r == [VL!Off EXCEPT !.at = "wake", !.wake = "startup", !.handled = testament.marker,
                          !.to = IF inboxLen > testament.marker THEN inboxLen ELSE testament.marker, !.seen = world]
           n == IF inboxLen > testament.marker THEN inboxLen ELSE testament.marker
           o == viPast.overlap \/ VL!Alive # {}
<1>1. /\ loop' = [loop EXCEPT ![g] = r] /\ loop[g].at = "off" /\ viPast' = [viPast EXCEPT !.overlap = o]
      /\ inboxLen' = inboxLen /\ world' = world /\ testament' = testament
  BY DEF VL!LoopStart, VL!Set
<1>2. n \in Nat
  BY DEF LoopInv, LoopTypes, Testament
<1>3. r = [at |-> "wake", wake |-> "startup", handled |-> testament.marker, to |-> n, seen |-> world, cur |-> 0,
           body |-> [marker |-> 0, notes |-> {}]]
  <2>1. r = [VL!Off EXCEPT !.at = "wake", !.wake = "startup", !.handled = testament.marker, !.to = n, !.seen = world]
    OBVIOUS
  <2> HIDE DEF n, r
  <2> QED BY <2>1 DEF VL!Off
<1>4. o \in BOOLEAN /\ (o <=> viPast.overlap \/ VL!Alive # {})
  OBVIOUS
<1> HIDE DEF n, r, o
<1>5. /\ viPast' \in [shown : SUBSET Nat, told : Nat, overlap : BOOLEAN, faults : Nat]
      /\ viPast'.shown = viPast.shown /\ viPast'.overlap = o
  BY <1>1, <1>4 DEF LoopInv, LoopTypes
<1>6. r \in Loop /\ r.at = "wake" /\ r.handled = testament.marker
  BY <1>2, <1>3 DEF Loop, LoopInv, LoopTypes, Testament
<1>7. LoopTypes'
  BY <1>1, <1>5, <1>6 DEF LoopInv, LoopTypes
<1>8. \A h \in Gens \ {g} : GenHolds(h)'
  BY <1>1, <1>4, <1>5, <1>7, OtherLoops
<1>9. loop'[g] = r
  BY <1>1 DEF LoopInv, LoopTypes
<1>10. GenHolds(g)'
  BY <1>1, <1>5, <1>6, <1>9 DEF GenHolds, UpTo, LoopInv
<1>11. OneLoop'
  BY <1>1, <1>4, <1>5, <1>7 DEF OneLoop, LoopInv, LoopTypes, VL!Alive
<1>12. UpTo(testament.marker)'
  BY <1>1, <1>5 DEF UpTo, LoopInv
<1> QED BY <1>7, <1>8, <1>10, <1>11, <1>12 DEF LoopInv

(* A step of a generation that is alive.                                   *)
LEMMA LoopMoves ==
    ASSUME LoopInv, NEW g \in VL!Alive, NEW r \in Loop, loop' = [loop EXCEPT ![g] = r],
           inboxLen' = inboxLen, world' = world, testament' \in Testament,
           viPast' \in [shown : SUBSET Nat, told : Nat, overlap : BOOLEAN, faults : Nat],
           viPast.shown \subseteq viPast'.shown, viPast'.overlap = viPast.overlap,
           UpTo(testament.marker)', GenHolds(g)'
    PROVE  LoopInv'
<1>1. g \in Gens
  BY DEF VL!Alive
<1>2. LoopTypes'
  BY <1>1 DEF LoopInv, LoopTypes
<1>3. \A h \in Gens \ {g} : GenHolds(h)'
  BY <1>1, <1>2, OtherLoops
<1>4. VL!Alive' \subseteq VL!Alive
  BY <1>1 DEF VL!Alive, LoopInv, LoopTypes
<1>5. OneLoop'
  BY <1>4 DEF OneLoop, LoopInv
<1> QED BY <1>1, <1>2, <1>3, <1>5 DEF LoopInv

LEMMA WaitInv == ASSUME LoopInv, NEW g \in Gens, VL!Wait(g) PROVE LoopInv'
<1>1. loop[g].at = "wait" /\ UNCHANGED <<inboxLen, world, testament, viPast>> /\ g \in VL!Alive /\ loop[g] \in Loop /\ GenHolds(g)
  BY DEF VL!Wait, VL!Alive, LoopInv, LoopTypes
<1>2. PICK r : /\ loop' = [loop EXCEPT ![g] = r]
               /\ \/ r = [loop[g] EXCEPT !.at = "wake", !.wake = "messages", !.to = inboxLen]
                  \/ r = [loop[g] EXCEPT !.at = "wake", !.wake = "line"]
                  \/ r = [loop[g] EXCEPT !.at = "wake", !.wake = "heartbeat"]
  BY DEF VL!Wait, VL!Set
<1>3. r \in Loop /\ r.at = "wake" /\ r.handled = loop[g].handled
  <2>1. inboxLen \in Nat /\ loop[g] \in Loop
    BY <1>1 DEF LoopInv, LoopTypes
  <2> QED BY <1>2, <2>1 DEF Loop
<1>4. loop'[g] = r
  BY <1>2 DEF LoopInv, LoopTypes
<1>5. GenHolds(g)' /\ UpTo(testament.marker)'
  BY <1>1, <1>3, <1>4 DEF GenHolds, UpTo, LoopInv
<1> QED BY <1>1, <1>2, <1>3, <1>5, LoopMoves DEF LoopInv, LoopTypes

LEMMA RunInv == ASSUME LoopInv, NEW g \in Gens, VL!RunAgent(g) PROVE LoopInv'
<1> DEFINE r == [loop[g] EXCEPT !.at = "run", !.cur = world, !.body = testament]
           s == viPast.shown \cup ((loop[g].handled + 1)..loop[g].to)
<1>1. /\ loop[g].at = "wake" /\ UNCHANGED <<inboxLen, world, testament>> /\ loop' = [loop EXCEPT ![g] = r]
      /\ viPast' = [viPast EXCEPT !.shown = s, !.told = world]
  BY DEF VL!RunAgent, VL!Set
<1>2. g \in VL!Alive /\ loop[g] \in Loop /\ GenHolds(g)
  BY <1>1 DEF VL!Alive, LoopInv, LoopTypes
<1>3. loop[g].handled \in Nat /\ loop[g].to \in Nat /\ testament \in Testament /\ world \in Nat
  BY <1>2 DEF Loop, LoopInv, LoopTypes
<1>4. s \in SUBSET Nat /\ viPast.shown \subseteq s /\ (\A m \in (loop[g].handled + 1)..loop[g].to : m \in s)
  BY <1>3 DEF LoopInv, LoopTypes
<1>5. r \in Loop /\ r.at = "run" /\ r.handled = loop[g].handled /\ r.to = loop[g].to /\ r.body = testament
  BY <1>2, <1>3 DEF Loop
<1> HIDE DEF r, s
<1>6. /\ viPast' \in [shown : SUBSET Nat, told : Nat, overlap : BOOLEAN, faults : Nat] /\ viPast'.overlap = viPast.overlap
      /\ viPast'.shown = s
  BY <1>1, <1>3, <1>4 DEF LoopInv, LoopTypes
<1>7. loop'[g] = r
  BY <1>1 DEF LoopInv, LoopTypes
<1>8. (\A m \in 1..loop[g].to : m \in s) /\ (\A m \in 1..loop[g].handled : m \in s)
  BY <1>2, <1>3, <1>4 DEF GenHolds, UpTo
<1>9. UpTo(testament.marker)'
  BY <1>1, <1>4, <1>6 DEF UpTo, LoopInv
<1>10. GenHolds(g)'
  BY <1>1, <1>5, <1>6, <1>7, <1>8, <1>9 DEF GenHolds, UpTo
<1> QED BY <1>1, <1>2, <1>3, <1>4, <1>5, <1>6, <1>9, <1>10, LoopMoves

LEMMA AgentPutInv == ASSUME LoopInv, NEW g \in Gens, VL!AgentPut(g) PROVE LoopInv' /\ (testament.notes \subseteq testament'.notes \/ viPast.overlap)
<1> DEFINE b == [marker |-> loop[g].body.marker, notes |-> loop[g].body.notes \cup {g}]
           r == [loop[g] EXCEPT !.body = b]
<1>1. loop[g].at = "run" /\ testament' = b /\ loop' = [loop EXCEPT ![g] = r] /\ UNCHANGED <<inboxLen, world, viPast>>
  BY DEF VL!AgentPut, VL!Set
<1>2. g \in VL!Alive /\ loop[g] \in Loop /\ GenHolds(g)
  BY <1>1 DEF VL!Alive, LoopInv, LoopTypes
<1>3. b \in Testament /\ b.marker = loop[g].body.marker /\ loop[g].body.notes \subseteq b.notes
  BY <1>2 DEF Loop, Testament
<1> HIDE DEF b
<1>4. r \in Loop /\ r.at = "run" /\ r.handled = loop[g].handled /\ r.to = loop[g].to /\ r.body = b
  BY <1>1, <1>2, <1>3 DEF Loop
<1> HIDE DEF r
<1>5. loop'[g] = r
  BY <1>1 DEF LoopInv, LoopTypes
<1>6. UpTo(testament.marker)' /\ GenHolds(g)'
  BY <1>1, <1>2, <1>3, <1>4, <1>5 DEF GenHolds, UpTo
<1>7. LoopInv'
  BY <1>1, <1>2, <1>3, <1>4, <1>6, LoopMoves DEF LoopInv, LoopTypes
<1> QED BY <1>1, <1>2, <1>3, <1>7 DEF GenHolds

LEMMA FaultCounted ==
    ASSUME LoopInv, viPast' = VL!Faulted
    PROVE  /\ viPast' \in [shown : SUBSET Nat, told : Nat, overlap : BOOLEAN, faults : Nat]
           /\ viPast'.shown = viPast.shown /\ viPast'.overlap = viPast.overlap
<1> DEFINE n == viPast.faults + 1
<1>1. n \in Nat /\ viPast' = [viPast EXCEPT !.faults = n]
  BY DEF LoopInv, LoopTypes, VL!Faulted
<1> HIDE DEF n
<1> QED BY <1>1 DEF LoopInv, LoopTypes

(* A generation that is between two runs, or not running, has acted on     *)
(* nothing but what it has handled.                                        *)
LEMMA Settled ==
    ASSUME LoopInv, NEW g \in VL!Alive, NEW r \in Loop, loop' = [loop EXCEPT ![g] = r],
           inboxLen' = inboxLen, world' = world, testament' = testament, viPast' = viPast \/ viPast' = VL!Faulted,
           r.at \in {"off", "gone", "wait", "mark"}, UpTo(r.handled), r.at = "mark" => UpTo(r.to)
    PROVE  LoopInv'
<1>1. /\ viPast' \in [shown : SUBSET Nat, told : Nat, overlap : BOOLEAN, faults : Nat]
      /\ viPast'.shown = viPast.shown /\ viPast'.overlap = viPast.overlap
  BY FaultCounted DEF LoopInv, LoopTypes
<1>2. loop'[g] = r
  BY DEF LoopInv, LoopTypes, VL!Alive
<1>3. GenHolds(g)' /\ UpTo(testament.marker)'
  BY <1>1, <1>2 DEF GenHolds, UpTo, LoopInv
<1> QED BY <1>1, <1>3, LoopMoves DEF LoopInv, LoopTypes

LEMMA RunEndsInv == ASSUME LoopInv, NEW g \in Gens, VL!RunEnds(g) PROVE LoopInv'
<1>1. /\ loop[g].at = "run" /\ UNCHANGED <<inboxLen, world, testament>> /\ g \in VL!Alive /\ loop[g] \in Loop /\ GenHolds(g)
      /\ viPast' = viPast \/ viPast' = VL!Faulted
  BY DEF VL!RunEnds, VL!Alive, LoopInv, LoopTypes
<1>2. PICK r : /\ loop' = [loop EXCEPT ![g] = r]
               /\ \/ r = VL!Off
                  \/ r = [loop[g] EXCEPT !.at = "mark"]
                  \/ r = [VL!Off EXCEPT !.at = "wait", !.handled = loop[g].handled, !.to = loop[g].handled, !.seen = loop[g].cur]
  BY DEF VL!RunEnds, VL!Set
<1>3. /\ r \in Loop /\ r.at \in {"off", "mark", "wait"} /\ r.handled \in {0, loop[g].handled}
      /\ r.at = "mark" => r.to = loop[g].to
  <2>1. CASE r = VL!Off
    BY <2>1 DEF VL!Off, Loop, Testament
  <2>2. CASE r = [loop[g] EXCEPT !.at = "mark"]
    BY <1>1, <2>2 DEF Loop
  <2>3. CASE r = [VL!Off EXCEPT !.at = "wait", !.handled = loop[g].handled, !.to = loop[g].handled, !.seen = loop[g].cur]
    BY <1>1, <2>3 DEF VL!Off, Loop, Testament
  <2> QED BY <1>2, <2>1, <2>2, <2>3
<1>4. UpTo(r.handled) /\ (r.at = "mark" => UpTo(r.to))
  BY <1>1, <1>3 DEF GenHolds, UpTo
<1> QED BY <1>1, <1>2, <1>3, <1>4, Settled

LEMMA MarkerGetInv == ASSUME LoopInv, NEW g \in Gens, VL!MarkerGet(g) PROVE LoopInv'
<1> DEFINE r == [loop[g] EXCEPT !.at = "put", !.body = testament]
<1>1. /\ loop[g].at = "mark" /\ UNCHANGED <<inboxLen, world, testament, viPast>> /\ g \in VL!Alive /\ loop[g] \in Loop /\ GenHolds(g)
      /\ loop' = [loop EXCEPT ![g] = r] /\ testament \in Testament
  BY DEF VL!MarkerGet, VL!Set, VL!Alive, LoopInv, LoopTypes
<1>2. r \in Loop /\ r.at = "put" /\ r.handled = loop[g].handled /\ r.to = loop[g].to /\ r.body = testament
  BY <1>1 DEF Loop
<1> HIDE DEF r
<1>3. loop'[g] = r
  BY <1>1 DEF LoopInv, LoopTypes
<1>4. UpTo(testament.marker)' /\ GenHolds(g)'
  BY <1>1, <1>2, <1>3 DEF GenHolds, UpTo, LoopInv
<1> QED BY <1>1, <1>2, <1>4, LoopMoves DEF LoopInv, LoopTypes

LEMMA MarkerPutInv ==
    ASSUME LoopInv, NEW g \in Gens, VL!MarkerPut(g)
    PROVE  LoopInv' /\ (testament.notes \subseteq testament'.notes \/ viPast.overlap)
<1> DEFINE r == [VL!Off EXCEPT !.at = "wait", !.handled = loop[g].to, !.to = loop[g].to, !.seen = loop[g].cur]
           b == VL!Marked(g)
<1>1. /\ loop[g].at = "put" /\ UNCHANGED <<inboxLen, world>> /\ g \in VL!Alive /\ loop[g] \in Loop /\ GenHolds(g)
      /\ loop' = [loop EXCEPT ![g] = r]
  BY DEF VL!MarkerPut, VL!Set, VL!Alive, LoopInv, LoopTypes
<1>2. r \in Loop /\ r.at = "wait" /\ r.handled = loop[g].to
  BY <1>1 DEF Loop, VL!Off, Testament
<1>3. b \in Testament /\ b.marker = loop[g].to /\ b.notes = loop[g].body.notes
  BY <1>1 DEF Loop, Testament, VL!Marked
<1>4. \/ testament' = b /\ viPast' = viPast
      \/ testament' = testament /\ viPast' = VL!Faulted
  BY DEF VL!MarkerPut
<1> HIDE DEF r, b
<1>5. loop'[g] = r
  BY <1>1 DEF LoopInv, LoopTypes
<1>6. CASE testament' = testament /\ viPast' = VL!Faulted
  <2>1. UpTo(r.handled)
    BY <1>1, <1>2 DEF GenHolds
  <2> QED BY <1>1, <1>2, <1>6, <2>1, Settled DEF LoopInv, LoopTypes
<1>7. CASE testament' = b /\ viPast' = viPast
  <2>1. UpTo(testament.marker)' /\ GenHolds(g)'
    BY <1>1, <1>2, <1>3, <1>5, <1>7 DEF GenHolds, UpTo
  <2>2. LoopInv'
    BY <1>1, <1>2, <1>3, <1>7, <2>1, LoopMoves DEF LoopInv, LoopTypes
  <2> QED BY <1>1, <1>3, <1>7, <2>2 DEF GenHolds
<1> QED BY <1>4, <1>6, <1>7

LEMMA LoopEndsInv == ASSUME LoopInv, NEW g \in Gens, VL!Crash(g) \/ VL!Retire(g) PROVE LoopInv'
<1>1. /\ g \in VL!Alive /\ UNCHANGED <<inboxLen, world, testament>> /\ (viPast' = viPast \/ viPast' = VL!Faulted)
  BY DEF VL!Crash, VL!Retire
<1>2. PICK r : loop' = [loop EXCEPT ![g] = r] /\ (r = VL!Off \/ r = [VL!Off EXCEPT !.at = "gone"])
  BY DEF VL!Crash, VL!Retire, VL!Set
<1>3. r \in Loop /\ r.at \in {"off", "gone"} /\ r.handled = 0
  BY <1>2 DEF VL!Off, Loop, Testament
<1>4. UpTo(r.handled)
  BY <1>3 DEF UpTo
<1> QED BY <1>1, <1>2, <1>3, <1>4, Settled

LEMMA LoopNext ==
    ASSUME LoopInv, [VL!Next]_(VL!vlVars)
    PROVE  LoopInv' /\ (testament.notes \subseteq testament'.notes \/ viPast.overlap)
<1>1. CASE UNCHANGED VL!vlVars
  BY <1>1 DEF VL!vlVars, LoopInv, LoopTypes, GenHolds, UpTo, OneLoop, VL!Alive
<1>2. CASE VL!Arrive
  <2>1. inboxLen' \in Nat /\ world' \in Nat /\ UNCHANGED <<testament, loop, viPast>>
    BY <1>2 DEF VL!Arrive, LoopInv, LoopTypes
  <2> QED BY <2>1 DEF LoopInv, LoopTypes, GenHolds, UpTo, OneLoop, VL!Alive
<1>3. ASSUME NEW g \in Gens, VL!Looping(g) \/ VL!AgentPut(g) \/ VL!Crash(g) \/ VL!Retire(g)
      PROVE  LoopInv' /\ (testament.notes \subseteq testament'.notes \/ viPast.overlap)
  <2>1. CASE VL!AgentPut(g)
    BY <2>1, AgentPutInv
  <2>2. CASE VL!MarkerPut(g)
    BY <2>2, MarkerPutInv
  <2>3. CASE VL!LoopStart(g) \/ VL!Wait(g) \/ VL!RunAgent(g) \/ VL!RunEnds(g) \/ VL!MarkerGet(g)
    <3>1. LoopInv'
      BY <2>3, StartLoop, WaitInv, RunInv, RunEndsInv, MarkerGetInv
    <3>2. testament' = testament
      BY <2>3 DEF VL!LoopStart, VL!Wait, VL!RunAgent, VL!RunEnds, VL!MarkerGet
    <3> QED BY <3>1, <3>2
  <2>4. CASE VL!Crash(g) \/ VL!Retire(g)
    <3>1. testament' = testament
      BY <2>4 DEF VL!Crash, VL!Retire
    <3> QED BY <2>4, <3>1, LoopEndsInv
  <2> QED BY <1>3, <2>1, <2>2, <2>3, <2>4 DEF VL!Looping
<1> QED BY <1>1, <1>2, <1>3 DEF VL!Next

LEMMA LoopInit == VL!Init => LoopInv
<1> SUFFICES ASSUME VL!Init PROVE LoopInv
  OBVIOUS
<1>1. LoopTypes /\ testament.marker = 0 /\ \A g \in Gens : loop[g] = VL!Off
  BY DEF VL!Init, LoopTypes, Loop, Testament, VL!Off
<1>2. \A g \in Gens : loop[g].at = "off" /\ loop[g].handled = 0
  BY <1>1 DEF VL!Off
<1> QED BY <1>1, <1>2 DEF LoopInv, UpTo, OneLoop, GenHolds, VL!Alive

(* The notes a generation has left are lost only while another one writes  *)
(* the testament too (testament.go: the route admits both), however the    *)
(* agent's writes, the marker's read and write, failed calls and crashes   *)
(* interleave (viceroy.go: recordMarker).                                  *)
THEOREM NotesAreKept == VL!Spec => NotesKept
<1> DEFINE Keeps == testament.notes \subseteq testament'.notes \/ viPast.overlap
<1>1. LoopInv /\ [VL!Next]_(VL!vlVars) => LoopInv' /\ [Keeps]_(VL!vlVars)
  BY LoopNext
<1> QED BY <1>1, LoopInit, PTL DEF VL!Spec, NotesKept, VL!NotesKept

(* What the testament marks as handled was in the batch of some run, also  *)
(* of a generation that crashed or was replaced (viceroy.go: Run): the     *)
(* next one passes no message over.                                        *)
THEOREM NothingIsPassedOver == VL!Spec => []VL!MarkedWasShown
<1>1. LoopInv => VL!MarkedWasShown
  BY DEF LoopInv, UpTo, VL!MarkedWasShown
<1>2. LoopInv /\ [VL!Next]_(VL!vlVars) => LoopInv'
  BY LoopNext
<1> QED BY <1>1, <1>2, LoopInit, PTL DEF VL!Spec

==============================================================================
