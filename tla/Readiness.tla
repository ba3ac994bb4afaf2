----------------------------- MODULE Readiness -----------------------------
(***************************************************************************)
(* The readiness subsystem of one Project and Change Mission: the four     *)
(* input tables, the release_assessments history, and the asynchronous     *)
(* requests that assess, view and review.  The API is one Node.js process  *)
(* over one SQLite file, so a request is a sequence of segments that run   *)
(* from one await to the next without interruption, and any segments of    *)
(* other requests may run in between.  One action below is one segment.    *)
(***************************************************************************)
EXTENDS Integers, Sequences

CONSTANTS
    Assessors,           \* concurrent POST .../readiness/assessments requests
    Viewers,             \* concurrent GET .../readiness/assessments/:revision requests
    Reviewers,           \* concurrent recordReview calls
    Keys,                \* validation keys a reconciliation may require
    Outcomes,            \* validation statuses in use, of VALIDATION_RESULT_STATUSES
    SnapshotStamps,      \* the stamps that Git snapshots may take (they bound the table)
    ValidationStamps,    \* the stamps that validation results may take
    ReviewStamps,        \* the stamps that readiness reviews may take
    UtcMs,               \* the UTC millisecond of a stamp
    MaxReconciliations   \* bound on the reconciliation history

VARIABLES
    snapshots,        \* git_snapshots: the stamps of the stored snapshots
    reconciliations,  \* reconciliation_impact_revisions, in revision order
    validations,      \* validation_results: stamp -> [key, snapshot, status]
    reviews,          \* readiness_reviews: stamp -> [reconciliation, snapshot, actor]
    assessments,      \* release_assessments: revision -> [inputs, status]
    pc,               \* where each request is
    draft,            \* the inputs each request has read so far
    todo,             \* required keys whose latest result is still to be read
    base,             \* the assessment revision each request has read, 0 for none
    reply,            \* what each request last answered
    started           \* history: the inputs and the revision when it began

tables  == <<snapshots, reconciliations, validations, reviews>>
locals  == <<pc, draft, todo, base, reply>>
vars    == <<tables, assessments, locals, started>>

Requests == Assessors \cup Viewers \cup Reviewers

NoStamp == 0    \* no such record: SQL finds no row, the code holds undefined

(***************************************************************************)
(* A record that "ORDER BY ..._at_utc DESC, id DESC LIMIT 1" can return is *)
(* known by its stamp, its place in that order.  Timestamps come from the  *)
(* wall clock and ids are random, so a new record may take any free stamp, *)
(* also one below those already stored.                                    *)
(***************************************************************************)
Stamps == SnapshotStamps \cup ValidationStamps \cup ReviewStamps

StampAssumption ==
    /\ Stamps \subseteq Nat \ {NoStamp}
    /\ \A S \in SUBSET Stamps :
          S # {} => \E newest \in S : \A s \in S : s <= newest

ASSUME StampsOrdered == StampAssumption

ASSUME ClockOrdersStamps ==
    /\ UtcMs \in [Stamps -> Nat]
    /\ \A s, t \in Stamps : s <= t => UtcMs[s] <= UtcMs[t]

ASSUME BoundIsNat == MaxReconciliations \in Nat

ASSUME RequestKindsDisjoint ==
    /\ Assessors \cap Viewers = {}
    /\ Assessors \cap Reviewers = {}
    /\ Viewers \cap Reviewers = {}

VALIDATION_RESULT_STATUSES == {"PASSED", "FAILED", "INCONCLUSIVE"}
ASSUME OutcomesKnown == Outcomes \subseteq VALIDATION_RESULT_STATUSES

READINESS_REVIEW_ACTOR_KINDS == {"HUMAN", "AI_ADVISORY"}
READINESS_STATUSES == {"BLOCKED", "READY", "STALE"}

-----------------------------------------------------------------------------
(***************************************************************************)
(* What the SQL reads return.                                              *)
(***************************************************************************)
Newest(S) == IF S = {} THEN NoStamp
             ELSE CHOOSE s \in S : \A t \in S : t <= s

latestSnapshot == Newest(snapshots)

latestValidation(k) ==
    Newest({s \in DOMAIN validations : validations[s].key = k})

latestReview == Newest(DOMAIN reviews)

latestReconciliation == Len(reconciliations)

\* The revisions of an assessment history are 1..n, so the last is the largest.
latestAssessment == Newest(DOMAIN assessments)

\* The VALIDATION requirements of a stored reconciliation, as the set of their
\* keys: requirement ids, by which they are sorted, are unrelated to the keys.
Catalog(revision) ==
    IF revision = 0 THEN {} ELSE reconciliations[revision].catalog

Inputs == [reconciliation : Nat,
           snapshot       : Stamps \cup {NoStamp},
           evidence       : [Keys -> Stamps \cup {NoStamp}],
           review         : Stamps \cup {NoStamp}]

NothingRead == [reconciliation |-> 0,
                snapshot       |-> NoStamp,
                evidence       |-> [k \in Keys |-> NoStamp],
                review         |-> NoStamp]

\* The inputs an assessment made in one instant would have.
CurrentInputs ==
    [reconciliation |-> latestReconciliation,
     snapshot       |-> latestSnapshot,
     evidence       |-> [k \in Keys |->
                            IF k \in Catalog(latestReconciliation)
                            THEN latestValidation(k) ELSE NoStamp],
     review         |-> latestReview]

-----------------------------------------------------------------------------
(***************************************************************************)
(* The readiness policy (evaluateReadiness).  Blocker codes are grouped by *)
(* the status they lead to.  A reconciliation is "clear" when its finding  *)
(* counts are all zero and its code map is complete and no fallback.  The  *)
(* blockers on scope, integrity, authority, persistence and freshness      *)
(* cannot be raised: the service passes these inputs as constants.         *)
(***************************************************************************)
StaleBlocker(in) ==
    LET target == reconciliations[in.reconciliation].target IN
    \/ in.snapshot # target                                  \* SNAPSHOT_CHANGED
    \/ \E k \in Catalog(in.reconciliation) :                 \* VALIDATION_STALE
          /\ in.evidence[k] # NoStamp
          /\ \/ validations[in.evidence[k]].snapshot # target
             \/ validations[in.evidence[k]].snapshot # in.snapshot
    \/ /\ in.review # NoStamp                                \* REVIEW_STALE
       /\ \/ reviews[in.review].snapshot # target
          \/ reviews[in.review].snapshot # in.snapshot

OtherBlocker(in) ==
    \/ ~ reconciliations[in.reconciliation].clear
    \/ Catalog(in.reconciliation) = {}                       \* VALIDATION_CATALOG_EMPTY
    \/ \E k \in Catalog(in.reconciliation) :
          \/ in.evidence[k] = NoStamp                        \* VALIDATION_MISSING
          \/ validations[in.evidence[k]].status # "PASSED"   \* _FAILED, _INCONCLUSIVE
    \/ in.review = NoStamp                                   \* REVIEW_MISSING
    \/ /\ in.review # NoStamp
       /\ \/ reviews[in.review].actor # "HUMAN"              \* REVIEW_NOT_HUMAN
          \/ reviews[in.review].reconciliation               \* REVIEW_SCOPE_MISMATCH
                # in.reconciliation

evaluateReadiness(in) ==
    IF StaleBlocker(in) THEN "STALE"
    ELSE IF OtherBlocker(in) THEN "BLOCKED"
    ELSE "READY"

\* Mutant: a newer snapshot alone is no stale reason.
DerivedStatus_NoSnapshot(assessment, in) ==
    IF [in EXCEPT !.snapshot = assessment.inputs.snapshot] = assessment.inputs
    THEN assessment.status ELSE "STALE"

\* deriveReadinessAssessmentState: any difference of inputs is a stale reason.
DerivedStatus(assessment, in) ==
    IF in = assessment.inputs THEN assessment.status ELSE "STALE"

-----------------------------------------------------------------------------
NoReply == [outcome |-> "NONE", revision |-> 0, status |-> "NONE"]

Answer(outcome, revision, status) ==
    [outcome |-> outcome, revision |-> revision, status |-> status]

Init ==
    /\ snapshots = {}
    /\ reconciliations = <<>>
    /\ validations = <<>>
    /\ reviews = <<>>
    /\ assessments = <<>>
    /\ pc = [p \in Requests |-> "idle"]
    /\ draft = [p \in Requests |-> NothingRead]
    /\ todo = [p \in Requests |-> {}]
    /\ base = [p \in Requests |-> 0]
    /\ reply = [p \in Requests |-> NoReply]
    /\ started = [p \in Requests |-> [inputs |-> NothingRead, revision |-> 0]]

-----------------------------------------------------------------------------
\* INSERT of a row under a fresh primary key.
WithRow(table, id, row) ==
    [x \in DOMAIN table \cup {id} |-> IF x = id THEN row ELSE table[x]]

(***************************************************************************)
(* Writers of the input tables.  Before their transaction they read only   *)
(* immutable rows, so the transaction is the whole of their effect.        *)
(***************************************************************************)
CaptureSnapshot(s) ==
    /\ s \notin snapshots
    /\ snapshots' = snapshots \cup {s}
    /\ UNCHANGED <<reconciliations, validations, reviews, assessments, locals, started>>

\* The caller names the target snapshot, any stored one.
ExecuteReconciliation(target, catalog, clear) ==
    /\ Len(reconciliations) < MaxReconciliations
    /\ reconciliations' = Append(reconciliations,
            [target |-> target, catalog |-> catalog, clear |-> clear])
    /\ UNCHANGED <<snapshots, validations, reviews, assessments, locals, started>>

persistValidation(s, key, snapshot, status) ==
    /\ s \notin DOMAIN validations
    /\ UtcMs[s] >= UtcMs[snapshot]
    /\ validations' = WithRow(validations, s,
            [key |-> key, snapshot |-> snapshot, status |-> status])
    /\ UNCHANGED <<snapshots, reconciliations, reviews, assessments, locals, started>>

-----------------------------------------------------------------------------
(***************************************************************************)
(* The steps of a request.                                                 *)
(***************************************************************************)
Goto(p, label) == pc' = [pc EXCEPT ![p] = label]

\* The request answers, and its local variables are gone.
Finish(p, answer) ==
    /\ Goto(p, "idle")
    /\ reply' = [reply EXCEPT ![p] = answer]
    /\ draft' = [draft EXCEPT ![p] = NothingRead]
    /\ todo' = [todo EXCEPT ![p] = {}]
    /\ base' = [base EXCEPT ![p] = 0]

\* A request arrives; the history variable notes the state it finds.
Begin(p) ==
    /\ pc[p] = "idle"
    /\ started' = [started EXCEPT ![p] =
            [inputs |-> CurrentInputs, revision |-> latestAssessment]]

ClearReply(p) == reply' = [reply EXCEPT ![p] = NoReply]

ReadReconciliation(p) ==
    draft' = [draft EXCEPT ![p].reconciliation = latestReconciliation]

\* recordReview: the reconciliation that the review will bind is read here,
\* and again only by its own revision.
BeginReview(p) ==
    /\ latestReconciliation > 0
    /\ Begin(p)
    /\ ClearReply(p)
    /\ ReadReconciliation(p)
    /\ Goto(p, "review")
    /\ UNCHANGED <<tables, assessments, todo, base>>

InsertReview(p, s, actor) ==
    LET bound == draft[p].reconciliation
        target == reconciliations[bound].target
    IN  /\ pc[p] = "review"
        /\ s \notin DOMAIN reviews
        /\ UtcMs[s] >= UtcMs[target]
        /\ reviews' = WithRow(reviews, s,
              [reconciliation |-> bound, snapshot |-> target, actor |-> actor])
        /\ Finish(p, Answer("RECORDED", 0, "NONE"))
        /\ UNCHANGED <<snapshots, reconciliations, validations, assessments, started>>

\* createReadinessReviewRecord rejects a clock behind the snapshot's time.
RejectReviewTime(p, s) ==
    /\ pc[p] = "review"
    /\ UtcMs[s] < UtcMs[reconciliations[draft[p].reconciliation].target]
    /\ Finish(p, Answer("TIME_INVALID", 0, "NONE"))
    /\ UNCHANGED <<tables, assessments, started>>

BeginAssess(p) ==
    /\ latestReconciliation > 0
    /\ Begin(p)
    /\ ClearReply(p)
    /\ ReadReconciliation(p)
    /\ Goto(p, "snapshot")
    /\ UNCHANGED <<tables, assessments, todo, base>>

\* READINESS_EXECUTION_RECONCILIATION_MISSING
RejectAssess(p) ==
    /\ latestReconciliation = 0
    /\ Begin(p)
    /\ reply' = [reply EXCEPT ![p] = Answer("RECONCILIATION_MISSING", 0, "NONE")]
    /\ UNCHANGED <<tables, assessments, pc, draft, todo, base>>

\* state(): the stored assessment first, then the inputs of the moment.
BeginView(p, revision) ==
    /\ revision \in DOMAIN assessments
    /\ Begin(p)
    /\ ClearReply(p)
    /\ base' = [base EXCEPT ![p] = revision]
    /\ Goto(p, "reconciliation")
    /\ UNCHANGED <<tables, assessments, draft, todo>>

ViewReconciliation(p) ==
    /\ pc[p] = "reconciliation"
    /\ ReadReconciliation(p)
    /\ Goto(p, "snapshot")
    /\ UNCHANGED <<tables, assessments, todo, base, reply, started>>

\* One segment reads one record: the latest result of a key that is left, or,
\* when none is left, the latest review.
ReadOne(p, soFar, left) ==
    \/ \E k \in left :
          /\ draft' = [draft EXCEPT ![p] =
                          [soFar EXCEPT !.evidence[k] = latestValidation(k)]]
          /\ todo' = [todo EXCEPT ![p] = left \ {k}]
          /\ Goto(p, "evidence")
    \/ /\ left = {}
       /\ draft' = [draft EXCEPT ![p] = [soFar EXCEPT !.review = latestReview]]
       /\ todo' = [todo EXCEPT ![p] = {}]
       /\ Goto(p, "evaluate")

\* latestSnapshot is synchronous: it shares its segment with the next read.
ReadSnapshot(p) ==
    /\ pc[p] = "snapshot"
    /\ ReadOne(p, [draft[p] EXCEPT !.snapshot = latestSnapshot],
                  Catalog(draft[p].reconciliation))
    /\ UNCHANGED <<tables, assessments, base, reply, started>>

ReadEvidence(p) ==
    /\ pc[p] = "evidence"
    /\ ReadOne(p, draft[p], todo[p])
    /\ UNCHANGED <<tables, assessments, base, reply, started>>

DeriveState(p) ==
    /\ p \in Viewers
    /\ pc[p] = "evaluate"
    /\ Finish(p, Answer("STATE", base[p],
                        DerivedStatus(assessments[base[p]], draft[p])))
    /\ UNCHANGED <<tables, assessments, started>>

AnswerExisting(p, revision) ==
    Finish(p, Answer("EXISTING", revision, assessments[revision].status))

\* assess() reads the predecessor; createReadinessAssessment returns it when
\* its fingerprint is that of the inputs read.
ReadPrevious(p) ==
    /\ p \in Assessors
    /\ pc[p] = "evaluate"
    /\ \/ /\ latestAssessment # 0
          /\ assessments[latestAssessment].inputs = draft[p]
          /\ AnswerExisting(p, latestAssessment)
       \/ /\ latestAssessment # 0 => assessments[latestAssessment].inputs # draft[p]
          /\ base' = [base EXCEPT ![p] = latestAssessment]
          /\ Goto(p, "precheck")
          /\ UNCHANGED <<draft, todo, reply>>
    /\ UNCHANGED <<tables, assessments, started>>

\* Mutant: a fingerprint that forgets the validation evidence.
WithFingerprint_NoEvidence(in) ==
    {r \in DOMAIN assessments :
        [assessments[r].inputs EXCEPT !.evidence = in.evidence] = in}

\* SELECT ... WHERE mission_id = ? AND input_fingerprint_digest = ?
WithFingerprint(in) == {r \in DOMAIN assessments : assessments[r].inputs = in}

Precheck(p) ==
    /\ pc[p] = "precheck"
    /\ \/ \E r \in WithFingerprint(draft[p]) : AnswerExisting(p, r)
       \/ /\ WithFingerprint(draft[p]) = {}
          /\ Goto(p, "observe")
          /\ UNCHANGED <<draft, todo, base, reply>>
    /\ UNCHANGED <<tables, assessments, started>>

\* assertReadinessAssessmentInvariant rebuilds the candidate on the latest
\* assessment of this moment; on any other predecessor the rebuilt record
\* differs and the request fails with READINESS_STORAGE_FAILED.
ObserveLatest(p) ==
    /\ pc[p] = "observe"
    /\ \/ /\ latestAssessment = base[p]
          /\ Goto(p, "commit")
          /\ UNCHANGED <<draft, todo, base, reply>>
       \/ /\ latestAssessment # base[p]
          /\ Finish(p, Answer("STORAGE_FAILED", 0, "NONE"))
    /\ UNCHANGED <<tables, assessments, started>>

\* Mutant: the transaction does not look at the latest snapshot again.
DependenciesUnchanged_NoSnapshot(in) ==
    /\ latestReconciliation = in.reconciliation
    /\ latestReview = in.review
    /\ \A k \in Catalog(in.reconciliation) : latestValidation(k) = in.evidence[k]

\* Mutant: only the evidence that was present is looked at again.
DependenciesUnchanged_PresentOnly(in) ==
    /\ latestReconciliation = in.reconciliation
    /\ latestSnapshot = in.snapshot
    /\ latestReview = in.review
    /\ \A k \in Catalog(in.reconciliation) :
          in.evidence[k] # NoStamp => latestValidation(k) = in.evidence[k]

\* The re-read of every dependency inside the transaction.
DependenciesUnchanged(in) ==
    /\ latestReconciliation = in.reconciliation
    /\ latestSnapshot = in.snapshot
    /\ latestReview = in.review
    /\ \A k \in Catalog(in.reconciliation) : latestValidation(k) = in.evidence[k]

PredecessorIsLatest(p) == latestAssessment = base[p]

AppendAssessment(p) ==
    assessments' = WithRow(assessments, base[p] + 1,
        [inputs |-> draft[p], status |-> evaluateReadiness(draft[p])])

\* The IMMEDIATE transaction of persistAssessment.
Commit(p) ==
    /\ pc[p] = "commit"
    /\ \/ \E r \in WithFingerprint(draft[p]) :
             AnswerExisting(p, r) /\ UNCHANGED assessments
       \/ /\ WithFingerprint(draft[p]) = {}
          /\ ~ PredecessorIsLatest(p)
          /\ Finish(p, Answer("PREDECESSOR_CONFLICT", 0, "NONE"))
          /\ UNCHANGED assessments
       \/ /\ WithFingerprint(draft[p]) = {}
          /\ PredecessorIsLatest(p)
          /\ ~ DependenciesUnchanged(draft[p])
          /\ Finish(p, Answer("DEPENDENCY_CONFLICT", 0, "NONE"))
          /\ UNCHANGED assessments
       \/ /\ WithFingerprint(draft[p]) = {}
          /\ PredecessorIsLatest(p)
          /\ DependenciesUnchanged(draft[p])
          /\ AppendAssessment(p)
          /\ Finish(p, Answer("CREATED", base[p] + 1, evaluateReadiness(draft[p])))
    /\ UNCHANGED <<tables, started>>

-----------------------------------------------------------------------------
\* The rest of a request that has begun.
Continue(p) ==
    \/ ViewReconciliation(p)
    \/ ReadSnapshot(p)
    \/ ReadEvidence(p)
    \/ DeriveState(p)
    \/ ReadPrevious(p)
    \/ Precheck(p)
    \/ ObserveLatest(p)
    \/ Commit(p)

Write ==
    \/ \E s \in SnapshotStamps : CaptureSnapshot(s)
    \/ \E target \in snapshots, catalog \in SUBSET Keys, clear \in BOOLEAN :
          ExecuteReconciliation(target, catalog, clear)
    \/ \E s \in ValidationStamps, key \in Keys, snapshot \in snapshots, status \in Outcomes :
          persistValidation(s, key, snapshot, status)

Review ==
    \E p \in Reviewers :
        \/ BeginReview(p)
        \/ \E s \in ReviewStamps, actor \in READINESS_REVIEW_ACTOR_KINDS :
              InsertReview(p, s, actor)
        \/ \E s \in ReviewStamps : RejectReviewTime(p, s)

Next ==
    \/ Write
    \/ Review
    \/ \E p \in Assessors : BeginAssess(p) \/ RejectAssess(p)
    \/ \E p \in Viewers, revision \in DOMAIN assessments : BeginView(p, revision)
    \/ \E p \in Assessors \cup Viewers : Continue(p)

Spec == Init /\ [][Next]_vars

\* Every await of a request resolves, and the event loop runs what it resolved.
RequestsRun == \A p \in Assessors \cup Viewers : WF_vars(Continue(p))

\* A client that keeps asking for an assessment, one request after another.
ClientRetries(p) == WF_vars(BeginAssess(p))

Fairness == RequestsRun /\ \A p \in Assessors : ClientRetries(p)

-----------------------------------------------------------------------------
\* Every variable keeps its type, and the assessment revisions have no gap.
Assessment == [inputs : Inputs, status : READINESS_STATUSES]

Reply == [outcome  : {"NONE", "RECORDED", "TIME_INVALID", "RECONCILIATION_MISSING",
                      "STATE", "EXISTING", "CREATED", "STORAGE_FAILED",
                      "PREDECESSOR_CONFLICT", "DEPENDENCY_CONFLICT"},
          revision : Nat,
          status   : READINESS_STATUSES \cup {"NONE"}]

Labels == {"idle", "review", "reconciliation", "snapshot", "evidence",
           "evaluate", "precheck", "observe", "commit"}

TablesTypeOK ==
    /\ snapshots \subseteq Stamps
    /\ reconciliations \in Seq([target : Stamps, catalog : SUBSET Keys, clear : BOOLEAN])
    /\ DOMAIN validations \subseteq Stamps
    /\ validations \in [DOMAIN validations ->
            [key : Keys, snapshot : Stamps, status : Outcomes]]
    /\ DOMAIN reviews \subseteq Stamps
    /\ reviews \in [DOMAIN reviews ->
            [reconciliation : Nat, snapshot : Stamps,
             actor : READINESS_REVIEW_ACTOR_KINDS]]

TypeOK ==
    /\ TablesTypeOK
    /\ latestAssessment \in Nat
    /\ DOMAIN assessments = 1 .. latestAssessment
    /\ assessments \in [DOMAIN assessments -> Assessment]
    /\ pc \in [Requests -> Labels]
    /\ draft \in [Requests -> Inputs]
    /\ todo \in [Requests -> SUBSET Keys]
    /\ base \in [Requests -> Nat]
    /\ reply \in [Requests -> Reply]
    /\ started \in [Requests -> [inputs : Inputs, revision : Nat]]

-----------------------------------------------------------------------------
\* Refinement: the requests, however their segments interleave, implement a
\* history of distinct states, each recorded while it was current, none of
\* which becomes current again (persistAssessment's transaction).
History == INSTANCE ReleaseHistory WITH
    Assessable <- {in \in Inputs : in.reconciliation # 0},
    current    <- CurrentInputs,
    history    <- [r \in DOMAIN assessments |-> assessments[r].inputs]

HistorySpec == History!Spec

\* The inputs of a stored assessment were current at some instant of p's
\* request: when it began, or when the assessment was appended since.
CurrentDuring(p, revision) ==
    \/ revision > started[p].revision
    \/ assessments[revision].inputs = started[p].inputs

\* assess() reads its inputs one await after another, so the set it read may
\* never have been current.  Whatever it answers with nevertheless was current
\* at one instant between the request and the answer.
AssessLinearizable ==
    \A p \in Assessors : reply[p].outcome \in {"EXISTING", "CREATED"} =>
        CurrentDuring(p, reply[p].revision)

\* state() reads in the same way.  A status other than STALE was right at some
\* instant of the request; STALE is right when it is answered, and from then on.
ViewLinearizable ==
    \A p \in Viewers : reply[p].outcome = "STATE" =>
        \/ /\ reply[p].status = assessments[reply[p].revision].status
           /\ CurrentDuring(p, reply[p].revision)
        \/ /\ reply[p].status = "STALE"
           /\ assessments[reply[p].revision].inputs # CurrentInputs

\* The release gate read from the tables alone: the newest reconciliation is
\* clear and targets the newest snapshot, the newest result of every key it
\* requires passed on that snapshot, and the newest review is a human's, of
\* that reconciliation.
GateOpen ==
    LET rec == reconciliations[latestReconciliation] IN
    /\ rec.clear
    /\ rec.catalog # {}
    /\ rec.target = latestSnapshot
    /\ \A k \in rec.catalog : \E s \in DOMAIN validations :
          /\ validations[s] = [key |-> k, snapshot |-> latestSnapshot, status |-> "PASSED"]
          /\ \A t \in DOMAIN validations : validations[t].key = k => t <= s
    /\ \E s \in DOMAIN reviews :
          /\ reviews[s] = [reconciliation |-> latestReconciliation,
                           snapshot |-> latestSnapshot, actor |-> "HUMAN"]
          /\ \A t \in DOMAIN reviews : t <= s

\* A READY assessment enters the history only in an instant in which the gate
\* is open, although its status was computed from reads made before.
ReadyOnlyWhenOpen ==
    [][\A r \in DOMAIN assessments' \ DOMAIN assessments :
          assessments'[r].status = "READY" => GateOpen]_vars

\* Optimistic commits may fail again and again while the inputs change; once
\* they are left alone, clients that retry bring the history up to them.
CatchesUp ==
    <>[](latestReconciliation > 0 =>
            /\ latestAssessment # 0
            /\ assessments[latestAssessment].inputs = CurrentInputs)

\* A request that fails does not fail while an assessment of exactly its inputs
\* is stored (docs/development/TESTING.md:575: "Exact same-input replay and
\* concurrent requests converge on one stable assessment identity").
ConcurrentConverge ==
    [][\A p \in Assessors :
          reply'[p] # reply[p] /\ reply'[p].outcome = "STORAGE_FAILED"
             => WithFingerprint(draft[p]) = {}]_vars

=============================================================================
