-------------------------- MODULE ReadinessProofs --------------------------
(***************************************************************************)
(* Proofs about Readiness and ReleasePassport, for every set of requests,  *)
(* projectors, keys and stamps.                                            *)
(***************************************************************************)
EXTENDS ReleasePassport, SequenceTheorems, TLAPS

-----------------------------------------------------------------------------
(***************************************************************************)
(* The inductive invariant.  Inputs are compared field by field: every     *)
(* "latest" only ever moves forward, whatever the clock does, because rows *)
(* are added and never removed.                                            *)
(***************************************************************************)
Reading  == {"snapshot", "evidence", "evaluate", "precheck", "observe", "commit"}
Deciding == {"evaluate", "precheck", "observe", "commit"}
Writing  == {"precheck", "observe", "commit"}

RequestOK(p) ==
    /\ draft[p].reconciliation \in 0 .. latestReconciliation
    /\ pc[p] = "review" => p \in Reviewers /\ draft[p].reconciliation # 0
    /\ pc[p] = "reconciliation" => p \in Viewers
    /\ pc[p] \in {"idle", "reconciliation"} => draft[p] = NothingRead
    /\ pc[p] \in Reading => p \in Assessors \cup Viewers
    /\ pc[p] \in Writing => p \in Assessors
    /\ p \in Assessors /\ pc[p] \in Reading => draft[p].reconciliation # 0
    /\ p \in Viewers /\ pc[p] # "idle" => base[p] \in 1 .. started[p].revision
    /\ started[p].revision \in 0 .. latestAssessment
    /\ todo[p] \subseteq Catalog(draft[p].reconciliation)
    /\ pc[p] # "evidence" => todo[p] = {}

RequestsOK == \A p \in Requests : RequestOK(p)

\* Inputs read from the tables at some earlier time.
Past(in) ==
    /\ in.reconciliation \in 0 .. latestReconciliation
    /\ in.snapshot <= latestSnapshot
    /\ in.review <= latestReview
    /\ \A k \in Keys : in.evidence[k] <= latestValidation(k)
    /\ \A k \in Keys \ Catalog(in.reconciliation) : in.evidence[k] = NoStamp

RequestPast(p) == Past(draft[p]) /\ Past(started[p].inputs)

PastOK ==
    /\ \A p \in Requests : RequestPast(p)
    /\ \A r \in DOMAIN assessments : Past(assessments[r].inputs)

Precedes(a, b) ==
    /\ a.reconciliation <= b.reconciliation
    /\ a.snapshot <= b.snapshot
    /\ a.review <= b.review
    /\ a.reconciliation = b.reconciliation =>
          \A k \in Keys : a.evidence[k] <= b.evidence[k]

\* What is stored when a request begins precedes its start, and what the
\* request reads does not.
RequestOrder(p) ==
    /\ \A r \in 1 .. started[p].revision :
          Precedes(assessments[r].inputs, started[p].inputs)
    /\ pc[p] \in Reading =>
          started[p].inputs.reconciliation <= draft[p].reconciliation
    /\ pc[p] \in Reading \ {"snapshot"} =>
          /\ started[p].inputs.snapshot <= draft[p].snapshot
          /\ started[p].inputs.reconciliation = draft[p].reconciliation =>
                \A k \in Keys \ todo[p] :
                    started[p].inputs.evidence[k] <= draft[p].evidence[k]
    /\ pc[p] \in Deciding => started[p].inputs.review <= draft[p].review

OrderOK == \A p \in Requests : RequestOrder(p)

\* What a request answers is one of the two properties of answers, for one request.
RequestReply(p) ==
    /\ reply[p].outcome \in {"EXISTING", "CREATED", "STATE"} =>
          reply[p].revision \in DOMAIN assessments
    /\ p \in Assessors /\ reply[p].outcome \in {"EXISTING", "CREATED"} =>
          CurrentDuring(p, reply[p].revision)
    /\ p \in Viewers /\ reply[p].outcome = "STATE" =>
          \/ /\ reply[p].status = assessments[reply[p].revision].status
             /\ CurrentDuring(p, reply[p].revision)
          \/ /\ reply[p].status = "STALE"
             /\ assessments[reply[p].revision].inputs # CurrentInputs

RepliesOK == \A p \in Requests : RequestReply(p)

IInv == TypeOK /\ RequestsOK /\ PastOK /\ OrderOK /\ RepliesOK
-----------------------------------------------------------------------------
(***************************************************************************)
(* Reads and tables.                                                       *)
(***************************************************************************)
\* Newest returns the greatest element of a set of stamps, 0 of the empty set.
LEMMA NewestIsGreatest ==
    ASSUME NEW S \in SUBSET Stamps
    PROVE  /\ Newest(S) \in S \cup {NoStamp}
           /\ Newest(S) \in Nat
           /\ S # {} => Newest(S) \in S
           /\ \A s \in S : s \in Nat \ {NoStamp} /\ s <= Newest(S)
  <1>1. CASE S = {}
    BY <1>1 DEF Newest, NoStamp
  <1>2. CASE S # {}
    <2>1. PICK newest \in S : \A s \in S : s <= newest
      BY <1>2, StampsOrdered DEF StampAssumption
    <2>2. Newest(S) \in S /\ \A s \in S : s <= Newest(S)
      BY <1>2, <2>1 DEF Newest
    <2>3. S \subseteq Nat \ {NoStamp}
      BY StampsOrdered DEF StampAssumption
    <2> QED
      BY <1>2, <2>2, <2>3
  <1> QED
    BY <1>1, <1>2

\* The newest of more records is no older.
LEMMA NewestMonotone ==
    ASSUME NEW S \in SUBSET Stamps, NEW T \in SUBSET Stamps, S \subseteq T
    PROVE  Newest(S) <= Newest(T)
  <1>1. Newest(S) \in S \cup {NoStamp} /\ Newest(T) \in Nat
    BY NewestIsGreatest
  <1>2. CASE Newest(S) = NoStamp
    BY <1>1, <1>2 DEF NoStamp
  <1>3. CASE Newest(S) \in S
    <2>1. Newest(S) \in T
      BY <1>3
    <2> QED
      BY <2>1, NewestIsGreatest
  <1> QED
    BY <1>1, <1>2, <1>3

\* The latest revision of a history without gaps is its length.
LEMMA NewestOfRevisions ==
    ASSUME NEW n \in Nat
    PROVE  Newest(1 .. n) = n
  <1>1. CASE n = 0
    BY <1>1 DEF Newest, NoStamp
  <1>2. CASE n # 0
    <2>1. n \in 1 .. n /\ \A t \in 1 .. n : t <= n
      BY <1>2
    <2>2. Newest(1 .. n) \in 1 .. n /\ \A t \in 1 .. n : t <= Newest(1 .. n)
      BY <2>1 DEF Newest
    <2> QED
      BY <2>1, <2>2
  <1> QED
    BY <1>1, <1>2

\* An INSERT adds its row and keeps the others.
LEMMA WithRowFacts ==
    ASSUME NEW table, NEW id, NEW row
    PROVE  /\ DOMAIN WithRow(table, id, row) = DOMAIN table \cup {id}
           /\ WithRow(table, id, row)[id] = row
           /\ \A x \in DOMAIN table : x # id => WithRow(table, id, row)[x] = table[x]
  BY DEF WithRow

-----------------------------------------------------------------------------
(***************************************************************************)
(* Types.                                                                  *)
(***************************************************************************)
Reconciliation == [target : Stamps, catalog : SUBSET Keys, clear : BOOLEAN]

\* A stored reconciliation has the fields of one.
LEMMA ReconciliationType ==
    ASSUME TypeOK, NEW r \in 1 .. latestReconciliation
    PROVE  reconciliations[r] \in Reconciliation
  <1>1. reconciliations \in Seq(Reconciliation)
    BY DEF TypeOK, TablesTypeOK, Reconciliation
  <1>2. r \in 1 .. Len(reconciliations)
    BY DEF latestReconciliation
  <1> QED
    BY <1>1, <1>2

\* The newest row of every table is a row of it, or none.
LEMMA LatestTypes ==
    ASSUME TypeOK
    PROVE  /\ latestReconciliation \in Nat
           /\ latestSnapshot \in Stamps \cup {NoStamp}
           /\ latestReview \in Stamps \cup {NoStamp}
           /\ \A k \in Keys : latestValidation(k) \in Stamps \cup {NoStamp}
           /\ \A r \in 0 .. latestReconciliation : Catalog(r) \in SUBSET Keys
           /\ CurrentInputs \in Inputs
           /\ Stamps \cup {NoStamp} \subseteq Nat
  <1>1. latestReconciliation \in Nat
    BY DEF TypeOK, TablesTypeOK, latestReconciliation
  <1>2. latestSnapshot \in Stamps \cup {NoStamp}
    BY NewestIsGreatest DEF TypeOK, TablesTypeOK, latestSnapshot
  <1>3. latestReview \in Stamps \cup {NoStamp}
    BY NewestIsGreatest DEF TypeOK, TablesTypeOK, latestReview
  <1>4. ASSUME NEW k \in Keys
        PROVE  latestValidation(k) \in Stamps \cup {NoStamp}
    <2>1. {s \in DOMAIN validations : validations[s].key = k} \in SUBSET Stamps
      BY DEF TypeOK, TablesTypeOK
    <2> QED
      BY <2>1, NewestIsGreatest DEF latestValidation
  <1>5. ASSUME NEW r \in 0 .. latestReconciliation
        PROVE  Catalog(r) \in SUBSET Keys
    <2>1. ASSUME r # 0 PROVE reconciliations[r] \in Reconciliation
      BY <1>1, <2>1, ReconciliationType
    <2> QED
      BY <2>1 DEF Catalog, Reconciliation
  <1>6. Stamps \cup {NoStamp} \subseteq Nat
    BY StampsOrdered DEF StampAssumption, NoStamp
  <1>7. CurrentInputs \in Inputs
    BY <1>1, <1>2, <1>3, <1>4 DEF CurrentInputs, Inputs
  <1> QED
    BY <1>1, <1>2, <1>3, <1>4, <1>5, <1>6, <1>7

\* The same facts of the state after a step.
LatestAreNat ==
    /\ latestReconciliation \in Nat
    /\ latestSnapshot \in Nat
    /\ latestReview \in Nat
    /\ \A k \in Keys : latestValidation(k) \in Nat

\* Revisions and stamps of newest rows are natural numbers.
LEMMA LatestNat == TypeOK => LatestAreNat
  BY LatestTypes DEF LatestAreNat

\* The same of the next state.
LEMMA LatestNatNext == TypeOK' => LatestAreNat'
  BY LatestNat, PTL

\* The fields of a set of inputs are numbers.
LEMMA InputFields ==
    ASSUME NEW in \in Inputs
    PROVE  /\ in.reconciliation \in Nat
           /\ in.snapshot \in Nat
           /\ in.review \in Nat
           /\ \A k \in Keys : in.evidence[k] \in Nat
  <1>1. Stamps \cup {NoStamp} \subseteq Nat
    BY StampsOrdered DEF StampAssumption, NoStamp
  <1>2. /\ in.reconciliation \in Nat
        /\ in.snapshot \in Stamps \cup {NoStamp}
        /\ in.review \in Stamps \cup {NoStamp}
        /\ in.evidence \in [Keys -> Stamps \cup {NoStamp}]
    BY DEF Inputs
  <1> QED
    BY <1>1, <1>2

\* What a request starts from is a set of inputs.
LEMMA NothingReadType == NothingRead \in Inputs
  BY DEF NothingRead, Inputs

\* The policy yields one of the readiness statuses.
LEMMA EvaluationType == \A in : evaluateReadiness(in) \in READINESS_STATUSES
  BY DEF evaluateReadiness, READINESS_STATUSES

\* The initial state has the right types.
LEMMA TypeInit == Init => TypeOK
  <1> SUFFICES ASSUME Init PROVE TypeOK
    OBVIOUS
  <1>1. TablesTypeOK
    BY DEF Init, TablesTypeOK
  <1>2. latestAssessment = 0 /\ DOMAIN assessments = {}
    BY DEF Init, latestAssessment, Newest, NoStamp
  <1>3. DOMAIN assessments = 1 .. latestAssessment /\ latestAssessment \in Nat
    BY <1>2
  <1>4. assessments \in [DOMAIN assessments -> Assessment]
    BY <1>2 DEF Init
  <1>5. /\ pc \in [Requests -> Labels]
        /\ draft \in [Requests -> Inputs]
        /\ todo \in [Requests -> SUBSET Keys]
        /\ base \in [Requests -> Nat]
        /\ reply \in [Requests -> Reply]
        /\ started \in [Requests -> [inputs : Inputs, revision : Nat]]
    BY NothingReadType DEF Init, Labels, NoReply, Reply
  <1> QED
    BY <1>1, <1>3, <1>4, <1>5 DEF TypeOK

\* The part of TypeOK about the requests alone.
RequestTypesOK ==
    /\ pc \in [Requests -> Labels]
    /\ draft \in [Requests -> Inputs]
    /\ todo \in [Requests -> SUBSET Keys]
    /\ base \in [Requests -> Nat]
    /\ reply \in [Requests -> Reply]
    /\ started \in [Requests -> [inputs : Inputs, revision : Nat]]

\* Answering keeps the types of a request's variables.
LEMMA FinishTypes ==
    ASSUME TypeOK, NEW p \in Requests, NEW answer \in Reply,
           Finish(p, answer), UNCHANGED started
    PROVE  RequestTypesOK'
  BY NothingReadType DEF TypeOK, RequestTypesOK, Finish, Goto, Labels

\* The writers of the input tables keep the types.
LEMMA WriteTypes ==
    ASSUME TypeOK, Write
    PROVE  TypeOK'
  <1>1. ASSUME NEW s \in SnapshotStamps, CaptureSnapshot(s)
        PROVE  TypeOK'
    <2>1. TablesTypeOK'
      BY <1>1 DEF TypeOK, TablesTypeOK, CaptureSnapshot, Stamps
    <2> QED
      BY <1>1, <2>1 DEF TypeOK, CaptureSnapshot, locals, latestAssessment
  <1>2. ASSUME NEW target \in snapshots, NEW catalog \in SUBSET Keys,
               NEW clear \in BOOLEAN, ExecuteReconciliation(target, catalog, clear)
        PROVE  TypeOK'
    <2> DEFINE rec == [target |-> target, catalog |-> catalog, clear |-> clear]
    <2>1. reconciliations' = Append(reconciliations, rec) /\ snapshots' = snapshots
      BY <1>2 DEF ExecuteReconciliation
    <2>2. rec \in [target : Stamps, catalog : SUBSET Keys, clear : BOOLEAN]
      BY DEF TypeOK, TablesTypeOK
    <2>3. /\ reconciliations' \in
                Seq([target : Stamps, catalog : SUBSET Keys, clear : BOOLEAN])
          /\ Len(reconciliations') = Len(reconciliations) + 1
          /\ Len(reconciliations) \in Nat
      BY <2>1, <2>2 DEF TypeOK, TablesTypeOK
    <2>4. TablesTypeOK'
      BY <1>2, <2>3 DEF TypeOK, TablesTypeOK, ExecuteReconciliation
    <2> QED
      BY <1>2, <2>4 DEF TypeOK, ExecuteReconciliation, locals, latestAssessment
  <1>3. ASSUME NEW s \in ValidationStamps, NEW key \in Keys, NEW snapshot \in snapshots,
               NEW status \in Outcomes, persistValidation(s, key, snapshot, status)
        PROVE  TypeOK'
    <2>1. TablesTypeOK'
      BY <1>3 DEF TypeOK, TablesTypeOK, persistValidation, Stamps, WithRow
    <2> QED
      BY <1>3, <2>1 DEF TypeOK, persistValidation, locals, latestAssessment
  <1> QED
    BY <1>1, <1>2, <1>3 DEF Write

\* recordReview keeps the types.
LEMMA ReviewTypes ==
    ASSUME TypeOK, RequestsOK, Review
    PROVE  TypeOK'
  <1>1. PICK p \in Reviewers :
            \/ BeginReview(p)
            \/ \E s \in ReviewStamps, actor \in READINESS_REVIEW_ACTOR_KINDS :
                  InsertReview(p, s, actor)
            \/ \E s \in ReviewStamps : RejectReviewTime(p, s)
    BY DEF Review
  <1>2. p \in Requests
    BY DEF Requests
  <1>3. CASE BeginReview(p)
    <2>1. UNCHANGED <<snapshots, reconciliations, validations, reviews, assessments>>
      BY <1>3 DEF BeginReview, tables
    <2>2. RequestTypesOK'
      BY <1>2, <1>3, LatestTypes DEF BeginReview, Begin, ClearReply, ReadReconciliation,
         Goto, TypeOK, RequestTypesOK, Labels, NoReply, Reply, Inputs
    <2> QED
      BY <2>1, <2>2 DEF TypeOK, RequestTypesOK, TablesTypeOK, latestAssessment
  <1>4. ASSUME NEW s \in ReviewStamps, NEW actor \in READINESS_REVIEW_ACTOR_KINDS,
               InsertReview(p, s, actor)
        PROVE  TypeOK'
    <2> DEFINE bound == draft[p].reconciliation
               row == [reconciliation |-> bound,
                       snapshot |-> reconciliations[bound].target, actor |-> actor]
    <2>1. bound \in 1 .. Len(reconciliations)
      BY <1>2, <1>4, LatestTypes
         DEF InsertReview, RequestsOK, RequestOK, latestReconciliation, TypeOK, TablesTypeOK
    <2>2. row \in [reconciliation : Nat, snapshot : Stamps,
                   actor : READINESS_REVIEW_ACTOR_KINDS]
      BY <2>1, ReconciliationType DEF latestReconciliation, Reconciliation
    <2>3. /\ reviews' = WithRow(reviews, s, row)
          /\ UNCHANGED <<snapshots, reconciliations, validations, assessments>>
      BY <1>4 DEF InsertReview
    <2>4. TablesTypeOK'
      <3> HIDE DEF row
      <3> QED
        BY <2>2, <2>3, WithRowFacts DEF TypeOK, TablesTypeOK, WithRow, Stamps
    <2>5. Answer("RECORDED", 0, "NONE") \in Reply
      BY DEF Answer, Reply
    <2>6. RequestTypesOK'
      BY <1>2, <1>4, <2>5, FinishTypes DEF InsertReview
    <2> QED
      BY <2>3, <2>4, <2>6 DEF TypeOK, RequestTypesOK, latestAssessment
  <1>5. ASSUME NEW s \in ReviewStamps, RejectReviewTime(p, s)
        PROVE  TypeOK'
    <2>1. Answer("TIME_INVALID", 0, "NONE") \in Reply
      BY DEF Answer, Reply
    <2>2. RequestTypesOK'
      BY <1>2, <1>5, <2>1, FinishTypes DEF RejectReviewTime
    <2>3. UNCHANGED <<snapshots, reconciliations, validations, reviews, assessments>>
      BY <1>5 DEF RejectReviewTime, tables
    <2> QED
      BY <2>2, <2>3 DEF TypeOK, RequestTypesOK, TablesTypeOK, latestAssessment
  <1> QED
    BY <1>1, <1>3, <1>4, <1>5

\* A request that begins, or is refused at once, keeps the types.
LEMMA BeginTypes ==
    ASSUME TypeOK,
           NEW p \in Assessors \cup Viewers,
           \/ BeginAssess(p)
           \/ RejectAssess(p)
           \/ \E r \in DOMAIN assessments : BeginView(p, r)
    PROVE  TypeOK'
  <1>1. p \in Requests
    BY DEF Requests
  <1>2. UNCHANGED <<snapshots, reconciliations, validations, reviews, assessments>>
    BY DEF BeginAssess, RejectAssess, BeginView, tables
  <1>3. started' \in [Requests -> [inputs : Inputs, revision : Nat]]
    <2>1. Begin(p)
      BY DEF BeginAssess, RejectAssess, BeginView
    <2>2. latestAssessment \in Nat /\ CurrentInputs \in Inputs
      BY LatestTypes DEF TypeOK
    <2> QED
      BY <2>1, <2>2 DEF TypeOK, Begin
  <1>4. CASE BeginAssess(p)
    <2>1. RequestTypesOK'
      BY <1>1, <1>3, <1>4, LatestTypes DEF BeginAssess, ClearReply, ReadReconciliation,
         Goto, TypeOK, RequestTypesOK, Labels, NoReply, Reply, Inputs
    <2> QED
      BY <1>2, <2>1 DEF TypeOK, RequestTypesOK, TablesTypeOK, latestAssessment
  <1>5. CASE RejectAssess(p)
    BY <1>1, <1>2, <1>3, <1>5
       DEF RejectAssess, Answer, Reply, TypeOK, TablesTypeOK, latestAssessment
  <1>6. ASSUME NEW r \in DOMAIN assessments, BeginView(p, r)
        PROVE  TypeOK'
    <2>1. r \in Nat
      BY DEF TypeOK
    <2> QED
      BY <1>1, <1>2, <1>3, <1>6, <2>1
         DEF BeginView, ClearReply, Goto, Labels, NoReply, Reply, TypeOK, TablesTypeOK,
             latestAssessment
  <1> QED
    BY <1>4, <1>5, <1>6

\* One awaited read of an evidence key keeps the types.
LEMMA ReadOneTypes ==
    ASSUME TypeOK, NEW p \in Requests, NEW soFar \in Inputs, NEW left \in SUBSET Keys,
           ReadOne(p, soFar, left),
           UNCHANGED <<tables, assessments, base, reply, started>>
    PROVE  TypeOK'
  <1>1. ASSUME NEW k \in left,
               draft' = [draft EXCEPT ![p] =
                            [soFar EXCEPT !.evidence[k] = latestValidation(k)]]
        PROVE  draft' \in [Requests -> Inputs]
    <2>1. latestValidation(k) \in Stamps \cup {NoStamp}
      BY LatestTypes
    <2>2. [soFar EXCEPT !.evidence[k] = latestValidation(k)] \in Inputs
      BY <2>1 DEF Inputs
    <2> QED
      BY <1>1, <2>2 DEF TypeOK
  <1>2. [soFar EXCEPT !.review = latestReview] \in Inputs
    BY LatestTypes DEF Inputs
  <1>3. draft' \in [Requests -> Inputs]
    BY <1>1, <1>2 DEF ReadOne, TypeOK
  <1>4. todo' \in [Requests -> SUBSET Keys] /\ pc' \in [Requests -> Labels]
    BY DEF ReadOne, TypeOK, Goto, Labels
  <1> QED
    BY <1>3, <1>4 DEF TypeOK, TablesTypeOK, tables, latestAssessment

\* A request that ends without an append leaves all types as they were.
LEMMA FinishKeepsTypes ==
    ASSUME TypeOK, NEW p \in Requests, NEW answer \in Reply, Finish(p, answer),
           UNCHANGED <<tables, assessments, started>>
    PROVE  TypeOK'
  <1>1. RequestTypesOK'
    BY FinishTypes
  <1> QED
    BY <1>1 DEF TypeOK, RequestTypesOK, TablesTypeOK, tables, latestAssessment

\* Every answer of persistAssessment is a reply.
LEMMA AnswerTypes ==
    ASSUME TypeOK
    PROVE  /\ \A r \in DOMAIN assessments :
                 /\ r \in Nat \ {0}
                 /\ Answer("EXISTING", r, assessments[r].status) \in Reply
                 /\ \A in : Answer("STATE", r, DerivedStatus(assessments[r], in)) \in Reply
           /\ \A r \in Nat : \A in :
                 Answer("CREATED", r, evaluateReadiness(in)) \in Reply
           /\ Answer("STORAGE_FAILED", 0, "NONE") \in Reply
           /\ Answer("PREDECESSOR_CONFLICT", 0, "NONE") \in Reply
           /\ Answer("DEPENDENCY_CONFLICT", 0, "NONE") \in Reply
  <1>1. ASSUME NEW r \in DOMAIN assessments
        PROVE  /\ r \in Nat \ {0}
               /\ assessments[r].status \in READINESS_STATUSES
    BY DEF TypeOK, Assessment
  <1>2. \A r \in DOMAIN assessments : \A in :
            DerivedStatus(assessments[r], in) \in READINESS_STATUSES
    BY <1>1 DEF DerivedStatus, READINESS_STATUSES
  <1> QED
    BY <1>1, <1>2, EvaluationType DEF Answer, Reply

\* The transaction that appends writes the next revision.
LEMMA AppendFacts ==
    ASSUME TypeOK, NEW p \in Requests, PredecessorIsLatest(p), AppendAssessment(p)
    PROVE  /\ base[p] + 1 = latestAssessment + 1
           /\ assessments' = WithRow(assessments, latestAssessment + 1,
                    [inputs |-> draft[p], status |-> evaluateReadiness(draft[p])])
           /\ DOMAIN assessments' = 1 .. (latestAssessment + 1)
           /\ latestAssessment' = latestAssessment + 1
           /\ \A r \in DOMAIN assessments : assessments'[r] = assessments[r]
           /\ assessments'[latestAssessment + 1] =
                    [inputs |-> draft[p], status |-> evaluateReadiness(draft[p])]
           /\ assessments' \in [DOMAIN assessments' -> Assessment]
  <1> DEFINE n == latestAssessment
             row == [inputs |-> draft[p], status |-> evaluateReadiness(draft[p])]
  <1>1. n \in Nat /\ DOMAIN assessments = 1 .. n /\ base[p] = n
    BY DEF TypeOK, PredecessorIsLatest
  <1>2. assessments' = WithRow(assessments, n + 1, row)
    BY <1>1 DEF AppendAssessment
  <1>3. row \in Assessment
    BY EvaluationType DEF TypeOK, Assessment
  <1> HIDE DEF n, row
  <1>4. /\ DOMAIN assessments' = 1 .. (n + 1)
        /\ assessments'[n + 1] = row
        /\ \A r \in DOMAIN assessments : assessments'[r] = assessments[r]
    <2>1. /\ DOMAIN assessments' = DOMAIN assessments \cup {n + 1}
          /\ assessments'[n + 1] = row
          /\ \A r \in DOMAIN assessments : r # n + 1 => assessments'[r] = assessments[r]
      BY <1>2 DEF WithRow
    <2>2. (1 .. n) \cup {n + 1} = 1 .. (n + 1) /\ n + 1 \notin 1 .. n
      BY <1>1
    <2> QED
      BY <1>1, <2>1, <2>2
  <1>5. Newest(DOMAIN assessments') = n + 1
    BY <1>1, <1>4, NewestOfRevisions
  <1>6. latestAssessment' = n + 1
    BY <1>5 DEF latestAssessment
  <1>7. assessments' \in [DOMAIN assessments' -> Assessment]
    <2>1. \A r \in 1 .. n + 1 : assessments'[r] \in Assessment
      BY <1>1, <1>3, <1>4 DEF TypeOK
    <2> QED
      BY <1>2, <1>4, <2>1 DEF WithRow
  <1> QED
    BY <1>1, <1>2, <1>4, <1>6, <1>7 DEF n, row

\* Every further segment of a request keeps the types.
LEMMA ContinueTypes ==
    ASSUME TypeOK, RequestsOK, NEW p \in Assessors \cup Viewers, Continue(p)
    PROVE  TypeOK'
  <1>1. p \in Requests
    BY DEF Requests
  <1>2. CASE ViewReconciliation(p)
    <2>1. draft' \in [Requests -> Inputs]
      BY <1>1, <1>2, LatestTypes DEF ViewReconciliation, ReadReconciliation, TypeOK, Inputs
    <2>2. pc' \in [Requests -> Labels]
      BY <1>2 DEF ViewReconciliation, Goto, TypeOK, Labels
    <2> QED
      BY <1>2, <2>1, <2>2
         DEF ViewReconciliation, tables, TypeOK, TablesTypeOK, latestAssessment
  <1>3. CASE ReadSnapshot(p)
    <2>1. [draft[p] EXCEPT !.snapshot = latestSnapshot] \in Inputs
      BY <1>1, LatestTypes DEF TypeOK, Inputs
    <2>2. Catalog(draft[p].reconciliation) \in SUBSET Keys
      BY <1>1, LatestTypes DEF RequestsOK, RequestOK
    <2> QED
      BY <1>1, <1>3, <2>1, <2>2, ReadOneTypes DEF ReadSnapshot
  <1>4. CASE ReadEvidence(p)
    <2>1. draft[p] \in Inputs /\ todo[p] \in SUBSET Keys
      BY <1>1 DEF TypeOK
    <2> QED
      BY <1>1, <1>4, <2>1, ReadOneTypes DEF ReadEvidence
  <1>5. CASE DeriveState(p)
    <2>1. base[p] \in DOMAIN assessments
      BY <1>1, <1>5 DEF DeriveState, RequestsOK, RequestOK, TypeOK
    <2> QED
      BY <1>1, <1>5, <2>1, AnswerTypes, FinishKeepsTypes DEF DeriveState
  <1>6. ASSUME NEW r \in DOMAIN assessments, AnswerExisting(p, r),
               UNCHANGED <<tables, assessments, started>>
        PROVE  TypeOK'
    BY <1>1, <1>6, AnswerTypes, FinishKeepsTypes DEF AnswerExisting
  <1>7. ASSUME NEW label \in Labels, Goto(p, label), base' \in [Requests -> Nat],
               UNCHANGED <<tables, assessments, started, draft, todo, reply>>
        PROVE  TypeOK'
    <2>1. pc' \in [Requests -> Labels]
      BY <1>7 DEF TypeOK, Goto
    <2> QED
      BY <1>7, <2>1 DEF tables, TypeOK, TablesTypeOK, latestAssessment
  <1>8. CASE ReadPrevious(p)
    <2>1. CASE latestAssessment # 0 /\ AnswerExisting(p, latestAssessment)
      <3>1. latestAssessment \in DOMAIN assessments
        BY <2>1 DEF TypeOK
      <3> QED
        BY <1>6, <1>8, <2>1, <3>1 DEF ReadPrevious
    <2>2. CASE base' = [base EXCEPT ![p] = latestAssessment] /\ Goto(p, "precheck")
               /\ UNCHANGED <<draft, todo, reply>>
      <3>1. base' \in [Requests -> Nat] /\ "precheck" \in Labels
        BY <2>2 DEF TypeOK, Labels
      <3> QED
        BY <1>7, <1>8, <2>2, <3>1 DEF ReadPrevious
    <2> QED
      BY <1>8, <2>1, <2>2 DEF ReadPrevious
  <1>9. CASE Precheck(p)
    <2>1. CASE \E r \in WithFingerprint(draft[p]) : AnswerExisting(p, r)
      BY <1>6, <1>9, <2>1 DEF Precheck, WithFingerprint
    <2>2. CASE Goto(p, "observe") /\ UNCHANGED <<draft, todo, base, reply>>
      <3>1. base' \in [Requests -> Nat] /\ "observe" \in Labels
        BY <2>2 DEF TypeOK, Labels
      <3> QED
        BY <1>7, <1>9, <2>2, <3>1 DEF Precheck
    <2> QED
      BY <1>9, <2>1, <2>2 DEF Precheck
  <1>10. CASE ObserveLatest(p)
    <2>1. CASE Goto(p, "commit") /\ UNCHANGED <<draft, todo, base, reply>>
      <3>1. base' \in [Requests -> Nat] /\ "commit" \in Labels
        BY <2>1 DEF TypeOK, Labels
      <3> QED
        BY <1>7, <1>10, <2>1, <3>1 DEF ObserveLatest
    <2>2. CASE Finish(p, Answer("STORAGE_FAILED", 0, "NONE"))
      BY <1>1, <1>10, <2>2, AnswerTypes, FinishKeepsTypes DEF ObserveLatest
    <2> QED
      BY <1>10, <2>1, <2>2 DEF ObserveLatest
  <1>11. CASE Commit(p)
    <2>1. CASE \E r \in WithFingerprint(draft[p]) :
                  AnswerExisting(p, r) /\ UNCHANGED assessments
      BY <1>6, <1>11, <2>1 DEF Commit, WithFingerprint
    <2>2. CASE /\ \/ Finish(p, Answer("PREDECESSOR_CONFLICT", 0, "NONE"))
                  \/ Finish(p, Answer("DEPENDENCY_CONFLICT", 0, "NONE"))
               /\ UNCHANGED assessments
      BY <1>1, <1>11, <2>2, AnswerTypes, FinishKeepsTypes DEF Commit
    <2>3. CASE /\ PredecessorIsLatest(p)
               /\ AppendAssessment(p)
               /\ Finish(p, Answer("CREATED", base[p] + 1, evaluateReadiness(draft[p])))
      <3>1. Answer("CREATED", base[p] + 1, evaluateReadiness(draft[p])) \in Reply
        <4>1. base[p] + 1 \in Nat
          BY <1>1 DEF TypeOK
        <4> QED
          BY <4>1, AnswerTypes
      <3>2. RequestTypesOK'
        BY <1>1, <1>11, <2>3, <3>1, FinishTypes DEF Commit
      <3>3. TablesTypeOK'
        BY <1>11 DEF Commit, tables, TypeOK, TablesTypeOK
      <3>4. /\ latestAssessment' \in Nat
            /\ DOMAIN assessments' = 1 .. latestAssessment'
            /\ assessments' \in [DOMAIN assessments' -> Assessment]
        <4>1. latestAssessment \in Nat
          BY DEF TypeOK
        <4>2. PredecessorIsLatest(p) /\ AppendAssessment(p)
          BY <2>3
        <4>3. /\ latestAssessment' = latestAssessment + 1
              /\ DOMAIN assessments' = 1 .. (latestAssessment + 1)
              /\ assessments' \in [DOMAIN assessments' -> Assessment]
          BY <1>1, <4>2, AppendFacts
        <4> QED
          BY <4>1, <4>3
      <3> QED
        BY <3>2, <3>3, <3>4 DEF TypeOK, RequestTypesOK
    <2> QED
      BY <1>11, <2>1, <2>2, <2>3 DEF Commit
  <1> QED
    BY <1>2, <1>3, <1>4, <1>5, <1>8, <1>9, <1>10, <1>11 DEF Continue

\* Every step keeps the types.
LEMMA TypeStep ==
    ASSUME TypeOK, RequestsOK, [Next]_vars
    PROVE  TypeOK'
  <1>1. CASE UNCHANGED vars
    BY <1>1 DEF vars, tables, locals, TypeOK, TablesTypeOK, latestAssessment
  <1>2. CASE Next
    BY <1>2, WriteTypes, ReviewTypes, BeginTypes, ContinueTypes DEF Next
  <1> QED
    BY <1>1, <1>2

-----------------------------------------------------------------------------
(***************************************************************************)
(* Every step adds rows or adds none, and moves at most one request, in    *)
(* one of four ways.                                                       *)
(***************************************************************************)
Grow ==
    /\ snapshots \subseteq snapshots'
    /\ latestReconciliation <= latestReconciliation'
    /\ \A r \in 1 .. latestReconciliation : reconciliations'[r] = reconciliations[r]
    /\ DOMAIN validations \subseteq DOMAIN validations'
    /\ \A s \in DOMAIN validations : validations'[s] = validations[s]
    /\ DOMAIN reviews \subseteq DOMAIN reviews'
    /\ \A s \in DOMAIN reviews : reviews'[s] = reviews[s]
    /\ latestAssessment <= latestAssessment'
    /\ \A r \in DOMAIN assessments : assessments'[r] = assessments[r]
    /\ \A r \in DOMAIN assessments' \ DOMAIN assessments :
          \E p \in Requests : assessments'[r].inputs = draft[p]

Quiet == UNCHANGED <<locals, started>>

Begins(p) ==
    \/ p \in Reviewers /\ BeginReview(p)
    \/ p \in Assessors /\ (BeginAssess(p) \/ RejectAssess(p))
    \/ p \in Viewers /\ \E r \in DOMAIN assessments : BeginView(p, r)

Reads(p) ==
    /\ p \in Assessors \cup Viewers
    /\ ViewReconciliation(p) \/ ReadSnapshot(p) \/ ReadEvidence(p)

Advances(p) ==
    /\ p \in Assessors
    /\ pc[p] \in Deciding
    /\ \E label \in Writing : Goto(p, label)
    /\ \A q \in Viewers : base'[q] = base[q]
    /\ UNCHANGED <<tables, assessments, draft, todo, reply, started>>

\* An answer that names an assessment names one with the inputs read.
Justified(p, answer) ==
    \/ answer.outcome \notin {"EXISTING", "CREATED", "STATE"}
    \/ /\ answer.outcome = "EXISTING"
       /\ p \in Assessors
       /\ pc[p] \in Deciding
       /\ answer.revision \in DOMAIN assessments
       /\ assessments[answer.revision].inputs = draft[p]
    \/ /\ answer.outcome = "CREATED"
       /\ p \in Assessors
       /\ answer.revision = latestAssessment + 1
       /\ latestAssessment' = latestAssessment + 1
    \/ /\ answer.outcome = "STATE"
       /\ p \in Viewers
       /\ pc[p] \in Deciding
       /\ answer.revision = base[p]
       /\ answer.status = DerivedStatus(assessments[base[p]], draft[p])
       /\ UNCHANGED <<tables, assessments>>

Answers(p) ==
    /\ \E answer \in Reply : Finish(p, answer) /\ Justified(p, answer)
    /\ UNCHANGED started

StepKind == Quiet \/ \E p \in Requests : Begins(p) \/ Reads(p) \/ Advances(p) \/ Answers(p)

\* Rows are added, never changed or removed, and an assessment that is added
\* has the inputs some request has read.
LEMMA StepGrows ==
    ASSUME TypeOK, TypeOK', RequestsOK, [Next]_vars
    PROVE  Grow
  <1> DEFINE Same == UNCHANGED <<tables, assessments>>
  <1>1. ASSUME Same PROVE Grow
    BY <1>1 DEF tables, Grow, latestReconciliation, latestAssessment, TypeOK, TablesTypeOK
  <1>2. ASSUME UNCHANGED assessments
        PROVE  /\ latestAssessment <= latestAssessment'
               /\ \A r \in DOMAIN assessments : assessments'[r] = assessments[r]
               /\ DOMAIN assessments' \ DOMAIN assessments = {}
    BY <1>2 DEF latestAssessment, TypeOK
  <1>3. latestReconciliation \in Nat
    BY LatestTypes
  <1>4. ASSUME NEW s \in SnapshotStamps, CaptureSnapshot(s) PROVE Grow
    BY <1>2, <1>3, <1>4 DEF CaptureSnapshot, Grow, latestReconciliation
  <1>5. ASSUME NEW target \in snapshots, NEW catalog \in SUBSET Keys,
               NEW clear \in BOOLEAN, ExecuteReconciliation(target, catalog, clear)
        PROVE  Grow
    <2> DEFINE rec == [target |-> target, catalog |-> catalog, clear |-> clear]
    <2>1. /\ reconciliations' = Append(reconciliations, rec)
          /\ UNCHANGED <<snapshots, validations, reviews, assessments>>
      BY <1>5 DEF ExecuteReconciliation
    <2>2. reconciliations \in Seq(Reconciliation) /\ rec \in Reconciliation
      BY DEF TypeOK, TablesTypeOK, Reconciliation
    <2>3. /\ latestReconciliation <= latestReconciliation'
          /\ \A r \in 1 .. latestReconciliation : reconciliations'[r] = reconciliations[r]
      <3> HIDE DEF rec
      <3> QED
        BY <2>1, <2>2 DEF latestReconciliation
    <2> QED
      BY <1>2, <2>1, <2>3 DEF Grow
  <1>6. ASSUME NEW s \in ValidationStamps, NEW key \in Keys, NEW snapshot \in snapshots,
               NEW status \in Outcomes, persistValidation(s, key, snapshot, status)
        PROVE  Grow
    BY <1>2, <1>3, <1>6 DEF persistValidation, WithRow, Grow, latestReconciliation
  <1>7. ASSUME NEW p \in Reviewers, NEW s \in ReviewStamps,
               NEW actor \in READINESS_REVIEW_ACTOR_KINDS, InsertReview(p, s, actor)
        PROVE  Grow
    <2>1. /\ DOMAIN reviews \subseteq DOMAIN reviews'
          /\ \A x \in DOMAIN reviews : reviews'[x] = reviews[x]
          /\ UNCHANGED <<snapshots, reconciliations, validations, assessments>>
      BY <1>7 DEF InsertReview, WithRow
    <2> QED
      BY <1>2, <1>3, <2>1 DEF Grow, latestReconciliation
  <1>8. ASSUME NEW p \in Assessors \cup Viewers, Commit(p), ~ Same
        PROVE  Grow
    <2>1. PredecessorIsLatest(p) /\ AppendAssessment(p) /\ UNCHANGED tables
      BY <1>8 DEF Commit
    <2>2. p \in Requests
      BY DEF Requests
    <2>3. /\ DOMAIN assessments' = 1 .. (latestAssessment + 1)
          /\ latestAssessment' = latestAssessment + 1
          /\ \A r \in DOMAIN assessments : assessments'[r] = assessments[r]
          /\ assessments'[latestAssessment + 1] =
                [inputs |-> draft[p], status |-> evaluateReadiness(draft[p])]
      BY <2>1, <2>2, AppendFacts
    <2>4. latestAssessment \in Nat /\ DOMAIN assessments = 1 .. latestAssessment
      BY DEF TypeOK
    <2>5. \A r \in DOMAIN assessments' \ DOMAIN assessments :
              assessments'[r].inputs = draft[p]
      <3>1. \A r \in 1 .. latestAssessment + 1 :
                r \notin 1 .. latestAssessment => r = latestAssessment + 1
        BY <2>4
      <3> QED
        BY <2>3, <2>4, <3>1
    <2>6. latestAssessment <= latestAssessment'
      BY <2>3, <2>4
    <2> QED
      BY <1>3, <2>1, <2>2, <2>3, <2>5, <2>6 DEF tables, Grow, latestReconciliation
  <1>9. CASE UNCHANGED vars
    BY <1>1, <1>9 DEF vars
  <1>10. CASE Write
    BY <1>4, <1>5, <1>6, <1>10 DEF Write
  <1>11. CASE Review
    <2>1. ASSUME NEW p \in Reviewers, BeginReview(p) \/ \E s : RejectReviewTime(p, s)
          PROVE  Same
      BY <2>1 DEF BeginReview, RejectReviewTime
    <2> QED
      BY <1>1, <1>7, <1>11, <2>1 DEF Review
  <1>12. ASSUME NEW p, BeginAssess(p) \/ RejectAssess(p) \/ \E r : BeginView(p, r)
         PROVE  Grow
    <2>1. Same
      BY <1>12 DEF BeginAssess, RejectAssess, BeginView
    <2> QED
      BY <1>1, <2>1
  <1>13. ASSUME NEW p \in Assessors \cup Viewers, Continue(p)
         PROVE  Grow
    <2>1. Same \/ Commit(p)
      BY <1>13 DEF Continue, ViewReconciliation, ReadSnapshot, ReadEvidence, DeriveState,
         ReadPrevious, Precheck, ObserveLatest
    <2> QED
      BY <1>1, <1>8, <2>1
  <1> QED
    BY <1>9, <1>10, <1>11, <1>12, <1>13 DEF Next

\* Every step is of one of the kinds above.
LEMMA StepKinds ==
    ASSUME TypeOK, RequestsOK, [Next]_vars
    PROVE  StepKind
  <1>1. ASSUME Write \/ UNCHANGED vars PROVE Quiet
    BY <1>1 DEF Write, CaptureSnapshot, ExecuteReconciliation, persistValidation,
       Quiet, vars
  <1>2. ASSUME NEW p \in Reviewers, NEW s \in ReviewStamps,
               \/ RejectReviewTime(p, s)
               \/ \E actor \in READINESS_REVIEW_ACTOR_KINDS : InsertReview(p, s, actor)
        PROVE  Answers(p)
    <2>1. /\ Answer("RECORDED", 0, "NONE") \in Reply
          /\ Answer("TIME_INVALID", 0, "NONE") \in Reply
          /\ Justified(p, Answer("RECORDED", 0, "NONE"))
          /\ Justified(p, Answer("TIME_INVALID", 0, "NONE"))
      BY DEF Answer, Reply, Justified
    <2> QED
      BY <1>2, <2>1 DEF RejectReviewTime, InsertReview, Answers
  <1>3. CASE Review
    BY <1>2, <1>3 DEF Review, StepKind, Begins, Requests
  <1>4. ASSUME NEW p \in Assessors, NEW r \in DOMAIN assessments, AnswerExisting(p, r),
               assessments[r].inputs = draft[p], pc[p] \in Deciding, UNCHANGED started
        PROVE  Answers(p)
    <2>1. Answer("EXISTING", r, assessments[r].status) \in Reply
      BY AnswerTypes
    <2>2. Justified(p, Answer("EXISTING", r, assessments[r].status))
      BY <1>4 DEF Justified, Answer
    <2> QED
      BY <1>4, <2>1, <2>2 DEF Answers, AnswerExisting
  <1>5. ASSUME NEW p \in Assessors \cup Viewers, ReadPrevious(p)
        PROVE  Advances(p) \/ Answers(p)
    <2>1. CASE /\ latestAssessment # 0
               /\ assessments[latestAssessment].inputs = draft[p]
               /\ AnswerExisting(p, latestAssessment)
      <3>1. latestAssessment \in DOMAIN assessments
        BY <2>1 DEF TypeOK
      <3> QED
        BY <1>4, <1>5, <2>1, <3>1 DEF ReadPrevious, Deciding
    <2>2. CASE base' = [base EXCEPT ![p] = latestAssessment] /\ Goto(p, "precheck")
               /\ UNCHANGED <<draft, todo, reply>>
      <3>1. p \in Assessors /\ \A q \in Viewers : q # p /\ q \in Requests
        BY <1>5, RequestKindsDisjoint DEF ReadPrevious, Requests
      <3>2. \A q \in Viewers : base'[q] = base[q]
        BY <2>2, <3>1 DEF TypeOK
      <3> QED
        BY <1>5, <2>2, <3>1, <3>2 DEF ReadPrevious, Advances, Deciding, Writing
    <2> QED
      BY <1>5, <2>1, <2>2 DEF ReadPrevious
  <1>6. ASSUME NEW p \in Assessors \cup Viewers, Precheck(p)
        PROVE  Advances(p) \/ Answers(p)
    <2>1. p \in Assessors /\ pc[p] \in Deciding
      BY <1>6 DEF Precheck, RequestsOK, RequestOK, Writing, Deciding, Requests
    <2>2. CASE \E r \in WithFingerprint(draft[p]) : AnswerExisting(p, r)
      BY <1>4, <1>6, <2>1, <2>2 DEF Precheck, WithFingerprint
    <2>3. CASE Goto(p, "observe") /\ UNCHANGED <<draft, todo, base, reply>>
      BY <1>6, <2>1, <2>3 DEF Precheck, Advances, Writing
    <2> QED
      BY <1>6, <2>2, <2>3 DEF Precheck
  <1>7. ASSUME NEW p \in Assessors \cup Viewers, ObserveLatest(p)
        PROVE  Advances(p) \/ Answers(p)
    <2>1. p \in Assessors /\ pc[p] \in Deciding
      BY <1>7 DEF ObserveLatest, RequestsOK, RequestOK, Writing, Deciding, Requests
    <2>2. CASE Goto(p, "commit") /\ UNCHANGED <<draft, todo, base, reply>>
      BY <1>7, <2>1, <2>2 DEF ObserveLatest, Advances, Writing
    <2>3. CASE Finish(p, Answer("STORAGE_FAILED", 0, "NONE"))
      <3>1. Justified(p, Answer("STORAGE_FAILED", 0, "NONE"))
        BY DEF Justified, Answer
      <3> QED
        BY <1>7, <2>3, <3>1, AnswerTypes DEF ObserveLatest, Answers
    <2> QED
      BY <1>7, <2>2, <2>3 DEF ObserveLatest
  <1>8. ASSUME NEW p \in Assessors \cup Viewers, Commit(p)
        PROVE  Answers(p)
    <2>1. p \in Assessors /\ pc[p] \in Deciding /\ p \in Requests
      BY <1>8 DEF Commit, RequestsOK, RequestOK, Writing, Deciding, Requests
    <2>2. CASE \E r \in WithFingerprint(draft[p]) : AnswerExisting(p, r)
      BY <1>4, <1>8, <2>1, <2>2 DEF Commit, WithFingerprint
    <2>3. CASE \/ Finish(p, Answer("PREDECESSOR_CONFLICT", 0, "NONE"))
               \/ Finish(p, Answer("DEPENDENCY_CONFLICT", 0, "NONE"))
      <3>1. /\ Justified(p, Answer("PREDECESSOR_CONFLICT", 0, "NONE"))
            /\ Justified(p, Answer("DEPENDENCY_CONFLICT", 0, "NONE"))
        BY DEF Justified, Answer
      <3> QED
        BY <1>8, <2>3, <3>1, AnswerTypes DEF Commit, Answers
    <2>4. CASE /\ PredecessorIsLatest(p)
               /\ AppendAssessment(p)
               /\ Finish(p, Answer("CREATED", base[p] + 1, evaluateReadiness(draft[p])))
      <3> DEFINE answer == Answer("CREATED", base[p] + 1, evaluateReadiness(draft[p]))
      <3>1. base[p] + 1 \in Nat
        BY <2>1 DEF TypeOK
      <3>2. answer \in Reply
        BY <3>1, AnswerTypes
      <3>3. PredecessorIsLatest(p) /\ AppendAssessment(p)
        BY <2>4
      <3>4. latestAssessment' = latestAssessment + 1
        BY <2>1, <3>3, AppendFacts
      <3>5. Justified(p, answer)
        BY <2>1, <3>3, <3>4 DEF Justified, Answer, PredecessorIsLatest
      <3> QED
        BY <1>8, <2>4, <3>2, <3>5 DEF Commit, Answers
    <2> QED
      BY <1>8, <2>2, <2>3, <2>4 DEF Commit
  <1>9. ASSUME NEW p \in Assessors \cup Viewers, DeriveState(p)
        PROVE  Answers(p)
    <2> DEFINE answer == Answer("STATE", base[p],
                                DerivedStatus(assessments[base[p]], draft[p]))
    <2>1. base[p] \in DOMAIN assessments
      BY <1>9 DEF DeriveState, RequestsOK, RequestOK, TypeOK, Requests
    <2>2. answer \in Reply
      BY <2>1, AnswerTypes
    <2>3. Justified(p, answer)
      BY <1>9 DEF DeriveState, Justified, Answer, Deciding
    <2> QED
      BY <1>9, <2>2, <2>3 DEF DeriveState, Answers
  <1>10. ASSUME NEW p \in Assessors \cup Viewers, Continue(p)
         PROVE  Reads(p) \/ Advances(p) \/ Answers(p)
    BY <1>5, <1>6, <1>7, <1>8, <1>9, <1>10 DEF Continue, Reads
  <1>11. Assessors \cup Viewers \subseteq Requests
    BY DEF Requests
  <1>12. ASSUME \/ \E p \in Assessors : BeginAssess(p) \/ RejectAssess(p)
                \/ \E p \in Viewers, r \in DOMAIN assessments : BeginView(p, r)
         PROVE  \E p \in Requests : Begins(p)
    BY <1>11, <1>12 DEF Begins
  <1>13. ASSUME \E p \in Assessors \cup Viewers : Continue(p)
         PROVE  \E p \in Requests : Reads(p) \/ Advances(p) \/ Answers(p)
    BY <1>10, <1>11, <1>13
  <1> QED
    BY <1>1, <1>3, <1>12, <1>13 DEF Next, StepKind

-----------------------------------------------------------------------------
(***************************************************************************)
(* What growing tables preserve.                                           *)
(***************************************************************************)
\* No latest record moves back, and a stored reconciliation keeps its catalog.
LEMMA LatestMonotone ==
    ASSUME TypeOK, TypeOK', Grow
    PROVE  /\ latestReconciliation <= latestReconciliation'
           /\ latestSnapshot <= latestSnapshot'
           /\ latestReview <= latestReview'
           /\ latestAssessment <= latestAssessment'
           /\ \A k \in Keys : latestValidation(k) <= latestValidation(k)'
           /\ \A r \in 0 .. latestReconciliation : Catalog(r)' = Catalog(r)
  <1>1. latestSnapshot <= latestSnapshot'
    BY NewestMonotone DEF Grow, TypeOK, TablesTypeOK, latestSnapshot
  <1>2. latestReview <= latestReview'
    BY NewestMonotone DEF Grow, TypeOK, TablesTypeOK, latestReview
  <1>3. ASSUME NEW k \in Keys
        PROVE  latestValidation(k) <= latestValidation(k)'
    <2> DEFINE S == {s \in DOMAIN validations : validations[s].key = k}
               T == {s \in DOMAIN validations' : validations'[s].key = k}
    <2>1. S \subseteq T /\ S \in SUBSET Stamps /\ T \in SUBSET Stamps
      BY DEF Grow, TypeOK, TablesTypeOK
    <2>2. Newest(S) <= Newest(T)
      <3> HIDE DEF S, T
      <3> QED
        BY <2>1, NewestMonotone
    <2> QED
      BY <2>2 DEF latestValidation
  <1>4. ASSUME NEW r \in 0 .. latestReconciliation
        PROVE  Catalog(r)' = Catalog(r)
    <2>1. r # 0 => r \in 1 .. latestReconciliation
      BY LatestTypes
    <2> QED
      BY <2>1 DEF Grow, Catalog
  <1> QED
    BY <1>1, <1>2, <1>3, <1>4 DEF Grow

\* What was read at some earlier time stays so.
LEMMA PastStable ==
    ASSUME TypeOK, TypeOK', Grow, NEW in \in Inputs, Past(in)
    PROVE  Past(in)'
  <1>1. /\ latestReconciliation \in Nat /\ latestReconciliation' \in Nat
        /\ latestSnapshot \in Nat /\ latestSnapshot' \in Nat
        /\ latestReview \in Nat /\ latestReview' \in Nat
    BY LatestNat, LatestNatNext DEF LatestAreNat
  <1>2. \A k \in Keys : latestValidation(k) \in Nat /\ latestValidation(k)' \in Nat
    BY LatestNat, LatestNatNext DEF LatestAreNat
  <1>3. /\ in.snapshot \in Nat /\ in.review \in Nat
        /\ \A k \in Keys : in.evidence[k] \in Nat
    BY InputFields
  <1>4. in.reconciliation \in 0 .. latestReconciliation'
    BY <1>1, LatestMonotone DEF Past
  <1>5. in.snapshot <= latestSnapshot' /\ in.review <= latestReview'
    BY <1>1, <1>3, LatestMonotone DEF Past
  <1>6. ASSUME NEW k \in Keys
        PROVE  in.evidence[k] <= latestValidation(k)'
    <2>1. in.evidence[k] <= latestValidation(k) /\ latestValidation(k) <= latestValidation(k)'
      BY LatestMonotone DEF Past
    <2> QED
      BY <1>2, <1>3, <2>1
  <1>7. Catalog(in.reconciliation)' = Catalog(in.reconciliation)
    <2>1. \A r \in 0 .. latestReconciliation : Catalog(r)' = Catalog(r)
      BY LatestMonotone
    <2>2. in.reconciliation \in 0 .. latestReconciliation
      BY DEF Past
    <2> QED
      BY <2>1, <2>2 DEF Catalog
  <1> QED
    BY <1>4, <1>5, <1>6, <1>7 DEF Past

\* Nothing that was read is ahead of a request that has read nothing.
LEMMA NothingReadIsPast ==
    ASSUME TypeOK
    PROVE  Past(NothingRead)
  BY LatestTypes DEF Past, NothingRead, NoStamp, Catalog

\* The inputs of this moment are Past as well.
LEMMA CurrentIsPast ==
    ASSUME TypeOK
    PROVE  Past(CurrentInputs)
  <1>1. \A k \in Keys : /\ latestValidation(k) \in Nat
                        /\ CurrentInputs.evidence[k] \in {latestValidation(k), NoStamp}
    BY LatestTypes DEF CurrentInputs
  <1>2. \A k \in Keys \ Catalog(latestReconciliation) : CurrentInputs.evidence[k] = NoStamp
    BY DEF CurrentInputs
  <1>3. latestReconciliation \in Nat /\ latestSnapshot \in Nat /\ latestReview \in Nat
    BY LatestTypes
  <1>4. \A k \in Keys : CurrentInputs.evidence[k] <= latestValidation(k)
    BY <1>1 DEF NoStamp
  <1> QED
    BY <1>2, <1>3, <1>4 DEF Past, CurrentInputs

\* Past inputs that are current after a step were current before it: what has
\* been read and has changed since never returns.
LEMMA NoReturn ==
    ASSUME TypeOK, TypeOK', Grow, NEW in \in Inputs, Past(in), in = CurrentInputs'
    PROVE  in = CurrentInputs
  <1>1. /\ latestReconciliation \in Nat /\ latestReconciliation' \in Nat
        /\ latestSnapshot \in Nat /\ latestSnapshot' \in Nat
        /\ latestReview \in Nat /\ latestReview' \in Nat
        /\ \A k \in Keys : latestValidation(k) \in Nat /\ latestValidation(k)' \in Nat
    BY LatestNat, LatestNatNext DEF LatestAreNat
  <1>2. /\ in.reconciliation = latestReconciliation'
        /\ in.snapshot = latestSnapshot'
        /\ in.review = latestReview'
        /\ \A k \in Keys : in.evidence[k] =
               IF k \in Catalog(latestReconciliation)' THEN latestValidation(k)' ELSE NoStamp
    BY DEF CurrentInputs
  <1>3. in.reconciliation = latestReconciliation
    BY <1>1, <1>2, LatestMonotone DEF Past
  <1>4. in.snapshot = latestSnapshot /\ in.review = latestReview
    BY <1>1, <1>2, LatestMonotone DEF Past
  <1>5. Catalog(latestReconciliation)' = Catalog(latestReconciliation)
    <2>1. \A r \in 0 .. latestReconciliation : Catalog(r)' = Catalog(r)
      BY LatestMonotone
    <2>2. latestReconciliation' = latestReconciliation
      BY <1>2, <1>3
    <2>3. latestReconciliation \in 0 .. latestReconciliation
      BY <1>1
    <2> QED
      BY <2>1, <2>2, <2>3 DEF Catalog
  <1>6. ASSUME NEW k \in Keys
        PROVE  in.evidence[k] =
                  IF k \in Catalog(latestReconciliation) THEN latestValidation(k) ELSE NoStamp
    <2>1. CASE k \in Catalog(latestReconciliation)
      <3>1. in.evidence[k] = latestValidation(k)'
        BY <1>2, <1>5, <2>1
      <3>2. in.evidence[k] <= latestValidation(k) /\ latestValidation(k) <= latestValidation(k)'
        BY LatestMonotone DEF Past
      <3> QED
        BY <1>1, <2>1, <3>1, <3>2
    <2>2. CASE k \notin Catalog(latestReconciliation)
      BY <1>2, <1>5, <2>2
    <2> QED
      BY <2>1, <2>2
  <1>7. in = [reconciliation |-> in.reconciliation, snapshot |-> in.snapshot,
              evidence |-> [k \in Keys |-> in.evidence[k]], review |-> in.review]
    BY DEF Inputs
  <1>8. [k \in Keys |-> in.evidence[k]] =
           [k \in Keys |-> IF k \in Catalog(latestReconciliation)
                           THEN latestValidation(k) ELSE NoStamp]
    BY <1>6
  <1> QED
    BY <1>3, <1>4, <1>7, <1>8 DEF CurrentInputs

-----------------------------------------------------------------------------
(***************************************************************************)
(* One request across a step: first one that the step does not move.       *)
(***************************************************************************)
Kept(p) == RequestOK(p) /\ RequestPast(p) /\ RequestOrder(p) /\ RequestReply(p)

Unmoved(p) ==
    /\ pc'[p] = pc[p]
    /\ draft'[p] = draft[p]
    /\ todo'[p] = todo[p]
    /\ reply'[p] = reply[p]
    /\ started'[p] = started[p]
    /\ p \in Viewers => base'[p] = base[p]

\* The parts of TypeOK, RequestsOK and PastOK about one request and the rows.
LEMMA RequestFields ==
    ASSUME TypeOK, NEW p \in Requests
    PROVE  /\ pc[p] \in Labels
           /\ draft[p] \in Inputs
           /\ todo[p] \in SUBSET Keys
           /\ base[p] \in Nat
           /\ reply[p] \in Reply
           /\ started[p].inputs \in Inputs
           /\ started[p].revision \in Nat
  BY DEF TypeOK

\* A stored assessment is of a set of inputs.
LEMMA RowInputs ==
    ASSUME TypeOK, NEW r \in DOMAIN assessments
    PROVE  assessments[r].inputs \in Inputs
  BY DEF TypeOK, Assessment

\* The catalog of what was read stays what it was.
LEMMA CatalogStable ==
    ASSUME TypeOK, TypeOK', Grow, NEW r \in 0 .. latestReconciliation
    PROVE  Catalog(r)' = Catalog(r)
  <1>1. \A s \in 0 .. latestReconciliation : Catalog(s)' = Catalog(s)
    BY LatestMonotone
  <1> QED
    BY <1>1 DEF Catalog

\* Another's step keeps RequestOK of a request.
LEMMA UnmovedOK ==
    ASSUME TypeOK, TypeOK', Grow, NEW p \in Requests, RequestOK(p), Unmoved(p)
    PROVE  RequestOK(p)'
  <1>1. /\ latestReconciliation \in Nat /\ latestReconciliation' \in Nat
        /\ latestReconciliation <= latestReconciliation'
        /\ latestAssessment \in Nat /\ latestAssessment' \in Nat
        /\ latestAssessment <= latestAssessment'
    BY LatestNat, LatestNatNext DEF LatestAreNat, Grow, TypeOK
  <1>2. draft'[p].reconciliation \in 0 .. latestReconciliation'
    BY <1>1 DEF RequestOK, Unmoved
  <1>3. started'[p].revision \in 0 .. latestAssessment'
    BY <1>1 DEF RequestOK, Unmoved
  <1>4. Catalog(draft[p].reconciliation)' = Catalog(draft[p].reconciliation)
    <2>1. \A s \in 0 .. latestReconciliation : Catalog(s)' = Catalog(s)
      BY CatalogStable
    <2>2. draft[p].reconciliation \in 0 .. latestReconciliation
      BY DEF RequestOK
    <2> QED
      BY <2>1, <2>2 DEF Catalog, Unmoved
  <1> QED
    BY <1>2, <1>3, <1>4 DEF RequestOK, Unmoved

\* Another's step leaves in the past what a request has read.
LEMMA UnmovedPast ==
    ASSUME TypeOK, TypeOK', Grow, NEW p \in Requests, RequestPast(p), Unmoved(p)
    PROVE  RequestPast(p)'
  <1>1. \A in \in Inputs : Past(in) => Past(in)'
    BY PastStable
  <1>2. draft[p] \in Inputs /\ started[p].inputs \in Inputs
    BY RequestFields
  <1> QED
    BY <1>1, <1>2 DEF RequestPast, Unmoved, Past

\* Another's step keeps the order of a request's reads.
LEMMA UnmovedOrder ==
    ASSUME TypeOK, TypeOK', Grow, NEW p \in Requests, RequestOK(p), RequestOrder(p),
           Unmoved(p)
    PROVE  RequestOrder(p)'
  <1>1. \A r \in 1 .. started[p].revision : assessments'[r] = assessments[r]
    BY DEF RequestOK, TypeOK, Grow
  <1> QED
    BY <1>1 DEF RequestOrder, Unmoved, Precedes

\* Another's step keeps what justified a request's answer.
LEMMA UnmovedReply ==
    ASSUME TypeOK, TypeOK', Grow, PastOK, NEW p \in Requests, RequestReply(p), Unmoved(p)
    PROVE  RequestReply(p)'
  <1>1. ASSUME reply[p].revision \in DOMAIN assessments
        PROVE  /\ reply[p].revision \in DOMAIN assessments'
               /\ assessments'[reply[p].revision] = assessments[reply[p].revision]
    BY <1>1 DEF Grow, TypeOK
  <1>2. ASSUME reply[p].revision \in DOMAIN assessments,
               assessments[reply[p].revision].inputs # CurrentInputs
        PROVE  assessments[reply[p].revision].inputs # CurrentInputs'
    <2>1. assessments[reply[p].revision].inputs \in Inputs
      BY <1>2, RowInputs
    <2>2. Past(assessments[reply[p].revision].inputs)
      BY <1>2 DEF PastOK
    <2>3. \A in \in Inputs : Past(in) /\ in = CurrentInputs' => in = CurrentInputs
      BY NoReturn
    <2> QED
      BY <1>2, <2>1, <2>2, <2>3
  <1>3. reply'[p] = reply[p] /\ started'[p] = started[p]
    BY DEF Unmoved
  <1> QED
    BY <1>1, <1>2, <1>3 DEF RequestReply, CurrentDuring

\* Another's step keeps all that is kept of a request.
LEMMA UnmovedKept ==
    ASSUME TypeOK, TypeOK', Grow, PastOK, NEW p \in Requests, Kept(p), Unmoved(p)
    PROVE  Kept(p)'
  BY UnmovedOK, UnmovedPast, UnmovedOrder, UnmovedReply DEF Kept

\* A step of one request moves no other.
LEMMA OthersUnmoved ==
    ASSUME TypeOK, NEW p \in Requests, NEW q \in Requests, q # p,
           Begins(p) \/ Reads(p) \/ Advances(p) \/ Answers(p)
    PROVE  Unmoved(q)
  <1>1. CASE Begins(p)
    BY <1>1 DEF Begins, BeginReview, BeginAssess, RejectAssess, BeginView, Begin,
       ClearReply, ReadReconciliation, Goto, TypeOK, Unmoved
  <1>2. CASE Reads(p)
    BY <1>2 DEF Reads, ViewReconciliation, ReadSnapshot, ReadEvidence, ReadOne,
       ReadReconciliation, Goto, TypeOK, Unmoved
  <1>3. CASE Advances(p)
    BY <1>3 DEF Advances, Goto, TypeOK, Unmoved
  <1>4. CASE Answers(p)
    BY <1>4 DEF Answers, Finish, Goto, TypeOK, Unmoved
  <1> QED
    BY <1>1, <1>2, <1>3, <1>4

-----------------------------------------------------------------------------
(***************************************************************************)
(* The request that the step moves.                                        *)
(***************************************************************************)
\* A step that writes no row leaves every read as it was.
LEMMA StillTables ==
    ASSUME UNCHANGED <<tables, assessments>>
    PROVE  /\ latestReconciliation' = latestReconciliation
           /\ latestSnapshot' = latestSnapshot
           /\ latestReview' = latestReview
           /\ latestAssessment' = latestAssessment
           /\ \A k : latestValidation(k)' = latestValidation(k)
           /\ \A r : Catalog(r)' = Catalog(r)
           /\ CurrentInputs' = CurrentInputs
           /\ \A in : Past(in)' = Past(in)
  BY DEF tables, latestReconciliation, latestSnapshot, latestReview, latestAssessment,
     latestValidation, Catalog, CurrentInputs, Past

\* The inputs of the moment follow all inputs of the past.
LEMMA PastPrecedesCurrent ==
    ASSUME TypeOK, NEW in \in Inputs, Past(in)
    PROVE  Precedes(in, CurrentInputs)
  <1>1. LatestAreNat
    BY LatestNat
  <1>2. /\ in.reconciliation \in Nat
        /\ \A k \in Keys : in.evidence[k] \in Nat
    BY InputFields
  <1>3. ASSUME in.reconciliation = latestReconciliation, NEW k \in Keys
        PROVE  in.evidence[k] <= CurrentInputs.evidence[k]
    BY <1>1, <1>2, <1>3 DEF Past, CurrentInputs, NoStamp
  <1> QED
    BY <1>1, <1>2, <1>3 DEF Past, Precedes, CurrentInputs, LatestAreNat

\* With only a reconciliation read, the draft is of the past as well.
LEMMA FirstReadIsPast ==
    ASSUME TypeOK
    PROVE  /\ Past([NothingRead EXCEPT !.reconciliation = latestReconciliation])
           /\ [NothingRead EXCEPT !.reconciliation = latestReconciliation] \in Inputs
  <1>1. LatestAreNat
    BY LatestNat
  <1>2. NothingRead \in Inputs
    BY NothingReadType
  <1>3. [NothingRead EXCEPT !.reconciliation = latestReconciliation] \in Inputs
    BY <1>1, <1>2 DEF Inputs, LatestAreNat
  <1> QED
    BY <1>1, <1>3 DEF Past, NothingRead, NoStamp, LatestAreNat

\* A request that begins has read nothing yet.
LEMMA BeginsKept ==
    ASSUME TypeOK, TypeOK', RequestsOK, PastOK, NEW p \in Requests, Begins(p)
    PROVE  Kept(p)'
  <1>1. /\ Begin(p)
        /\ UNCHANGED <<tables, assessments, todo>>
    BY DEF Begins, BeginReview, BeginAssess, RejectAssess, BeginView
  <1>2. /\ pc[p] = "idle"
        /\ started'[p].inputs = CurrentInputs
        /\ started'[p].revision = latestAssessment
    BY <1>1 DEF Begin, TypeOK
  <1>3. /\ draft[p] = NothingRead
        /\ todo'[p] = {}
        /\ draft[p].reconciliation \in 0 .. latestReconciliation
    BY <1>1, <1>2 DEF RequestsOK, RequestOK
  <1>4. UNCHANGED <<tables, assessments>>
    BY <1>1
  <1>5. latestReconciliation \in Nat /\ latestAssessment \in Nat
    BY LatestNat DEF LatestAreNat, TypeOK
  <1> DEFINE first == [NothingRead EXCEPT !.reconciliation = latestReconciliation]
  <1>6. \/ /\ p \in Reviewers \cup Assessors
           /\ pc'[p] = IF p \in Reviewers THEN "review" ELSE "snapshot"
           /\ draft'[p] = first
           /\ latestReconciliation # 0
        \/ pc'[p] = "idle" /\ draft'[p] = NothingRead /\ p \in Assessors
        \/ /\ p \in Viewers
           /\ pc'[p] = "reconciliation"
           /\ draft'[p] = NothingRead
           /\ base'[p] \in 1 .. latestAssessment
    <2>1. CASE p \in Reviewers /\ BeginReview(p)
      BY <1>3, <1>5, <2>1 DEF BeginReview, ReadReconciliation, Goto, TypeOK
    <2>2. CASE p \in Assessors /\ BeginAssess(p)
      <3>1. p \notin Reviewers
        BY <2>2, RequestKindsDisjoint
      <3> QED
        BY <1>3, <1>5, <2>2, <3>1 DEF BeginAssess, ReadReconciliation, Goto, TypeOK
    <2>3. CASE p \in Assessors /\ RejectAssess(p)
      BY <1>2, <1>3, <2>3 DEF RejectAssess
    <2>4. ASSUME p \in Viewers, NEW r \in DOMAIN assessments, BeginView(p, r)
          PROVE  /\ pc'[p] = "reconciliation"
                 /\ draft'[p] = NothingRead
                 /\ base'[p] \in 1 .. latestAssessment
      BY <1>3, <2>4 DEF BeginView, Goto, TypeOK
    <2> QED
      BY <2>1, <2>2, <2>3, <2>4 DEF Begins
  <1>7. first.reconciliation = latestReconciliation /\ NothingRead.reconciliation = 0
    BY DEF NothingRead
  <1>8. RequestOK(p)'
    <2> HIDE DEF first
    <2>1. draft'[p].reconciliation \in 0 .. latestReconciliation
      <3>1. draft'[p].reconciliation \in {0, latestReconciliation}
        BY <1>6, <1>7
      <3> QED
        BY <1>5, <3>1
    <2>2. /\ latestReconciliation' = latestReconciliation
          /\ latestAssessment' = latestAssessment
      BY <1>4, StillTables
    <2>3. p \in Viewers => p \notin Assessors /\ p \notin Reviewers
      BY RequestKindsDisjoint
    <2>4. p \in Assessors => p \notin Reviewers
      BY RequestKindsDisjoint
    <2> QED
      BY <1>2, <1>3, <1>5, <1>6, <1>7, <2>1, <2>2, <2>3, <2>4
         DEF RequestOK, Reading, Writing
  <1>9. RequestPast(p)'
    <2>1. Past(first) /\ Past(NothingRead) /\ Past(CurrentInputs)
      BY FirstReadIsPast, NothingReadIsPast, CurrentIsPast
    <2>2. Past(draft'[p])
      <3> HIDE DEF first
      <3> QED
        BY <1>6, <2>1
    <2>3. Past(started'[p].inputs)
      BY <1>2, <2>1
    <2>4. \A in : Past(in)' = Past(in)
      BY <1>4, StillTables
    <2> QED
      BY <2>2, <2>3, <2>4 DEF RequestPast, Past
  <1>10. RequestOrder(p)'
    <2>1. ASSUME NEW r \in 1 .. latestAssessment
          PROVE  Precedes(assessments[r].inputs, CurrentInputs)
      <3>1. r \in DOMAIN assessments
        BY DEF TypeOK
      <3>2. assessments[r].inputs \in Inputs /\ Past(assessments[r].inputs)
        BY <3>1, RowInputs DEF PastOK
      <3> QED
        BY <3>2, PastPrecedesCurrent
    <2>2. pc'[p] \in Reading =>
              /\ pc'[p] = "snapshot"
              /\ draft'[p].reconciliation = latestReconciliation
      BY <1>6, <1>7 DEF Reading
    <2>3. CurrentInputs.reconciliation = latestReconciliation
      BY DEF CurrentInputs
    <2>4. assessments' = assessments
      BY <1>1
    <2> QED
      BY <1>2, <1>5, <2>1, <2>2, <2>3, <2>4 DEF RequestOrder, Deciding, Reading, Precedes
  <1>11. RequestReply(p)'
    <2>1. reply'[p].outcome \in {"NONE", "RECONCILIATION_MISSING"}
      BY DEF Begins, BeginReview, BeginAssess, RejectAssess, BeginView, ClearReply,
         NoReply, Answer, TypeOK
    <2> QED
      BY <2>1 DEF RequestReply
  <1> QED
    BY <1>8, <1>9, <1>10, <1>11 DEF Kept

\* One read of a validation result or of the review, after soFar was read and
\* with the results of the keys in left still to be read.
LEMMA ReadOneKept ==
    ASSUME TypeOK, TypeOK', NEW p \in Assessors \cup Viewers, Kept(p),
           pc[p] \in {"snapshot", "evidence"},
           NEW soFar \in Inputs, NEW left \in SUBSET Keys,
           Past(soFar),
           soFar.reconciliation = draft[p].reconciliation,
           started[p].inputs.snapshot <= soFar.snapshot,
           left \subseteq Catalog(soFar.reconciliation),
           started[p].inputs.reconciliation = soFar.reconciliation =>
              \A k \in Keys \ left : started[p].inputs.evidence[k] <= soFar.evidence[k],
           ReadOne(p, soFar, left),
           UNCHANGED <<tables, assessments, base, reply, started>>
    PROVE  Kept(p)'
  <1>1. p \in Requests
    BY DEF Requests
  <1>2. UNCHANGED <<tables, assessments>> /\ UNCHANGED <<base, reply, started>>
    OBVIOUS
  <1>3. /\ latestReconciliation' = latestReconciliation
        /\ latestAssessment' = latestAssessment
        /\ CurrentInputs' = CurrentInputs
        /\ \A r : Catalog(r)' = Catalog(r)
    BY <1>2, StillTables
  <1>4. /\ started[p].inputs \in Inputs
        /\ Past(started[p].inputs)
        /\ started[p].inputs.reconciliation <= soFar.reconciliation
    BY <1>1, RequestFields DEF Kept, RequestPast, RequestOrder, Reading
  <1>5. LatestAreNat
    BY LatestNat
  <1> DEFINE HasRead ==
         /\ pc'[p] \in {"evidence", "evaluate"}
         /\ draft'[p] \in Inputs
         /\ draft'[p].reconciliation = soFar.reconciliation
         /\ draft'[p].snapshot = soFar.snapshot
         /\ todo'[p] \subseteq left
         /\ pc'[p] = "evaluate" =>
               /\ todo'[p] = {}
               /\ draft'[p].review = latestReview
         /\ draft'[p].review \in {soFar.review, latestReview}
         /\ \A k \in Keys :
               \/ draft'[p].evidence[k] = soFar.evidence[k] /\ (k \in left => k \in todo'[p])
               \/ draft'[p].evidence[k] = latestValidation(k) /\ k \in left
  <1>6. HasRead
    <2>1. ASSUME NEW k \in left,
                 draft' = [draft EXCEPT ![p] =
                              [soFar EXCEPT !.evidence[k] = latestValidation(k)]],
                 todo' = [todo EXCEPT ![p] = left \ {k}],
                 Goto(p, "evidence")
          PROVE  HasRead
      <3>1. draft'[p] = [soFar EXCEPT !.evidence[k] = latestValidation(k)]
        BY <1>1, <2>1 DEF TypeOK
      <3>2. todo'[p] = left \ {k} /\ pc'[p] = "evidence"
        BY <1>1, <2>1 DEF TypeOK, Goto
      <3>3. draft'[p] \in Inputs
        BY <1>1 DEF TypeOK
      <3>4. \A j \in Keys :
               draft'[p].evidence[j] = IF j = k THEN latestValidation(k) ELSE soFar.evidence[j]
        BY <3>1 DEF Inputs
      <3>5. /\ draft'[p].reconciliation = soFar.reconciliation
            /\ draft'[p].snapshot = soFar.snapshot
            /\ draft'[p].review = soFar.review
        BY <3>1 DEF Inputs
      <3> QED
        BY <3>2, <3>3, <3>4, <3>5
    <2>2. ASSUME left = {},
                 draft' = [draft EXCEPT ![p] = [soFar EXCEPT !.review = latestReview]],
                 todo' = [todo EXCEPT ![p] = {}],
                 Goto(p, "evaluate")
          PROVE  HasRead
      <3>1. draft'[p] = [soFar EXCEPT !.review = latestReview]
        BY <1>1, <2>2 DEF TypeOK
      <3>2. todo'[p] = {} /\ pc'[p] = "evaluate"
        BY <1>1, <2>2 DEF TypeOK, Goto
      <3>3. draft'[p] \in Inputs
        BY <1>1 DEF TypeOK
      <3>4. /\ draft'[p].reconciliation = soFar.reconciliation
            /\ draft'[p].snapshot = soFar.snapshot
            /\ draft'[p].review = latestReview
            /\ draft'[p].evidence = soFar.evidence
        BY <3>1 DEF Inputs
      <3> QED
        BY <2>2, <3>2, <3>3, <3>4
    <2> QED
      BY <2>1, <2>2 DEF ReadOne
  <1>7. RequestOK(p)'
    BY <1>1, <1>2, <1>3, <1>6 DEF Kept, RequestOK, Past, Reading, Writing
  <1>8. Past(draft'[p])
    BY <1>5, <1>6 DEF Past, LatestAreNat
  <1>9. RequestPast(p)'
    <2>1. \A in : Past(in)' = Past(in)
      BY <1>2, StillTables
    <2> QED
      BY <1>2, <1>4, <1>8, <2>1 DEF RequestPast, Past
  <1>10. RequestOrder(p)'
    <2>1. ASSUME started[p].inputs.reconciliation = soFar.reconciliation,
                 NEW k \in Keys \ todo'[p]
          PROVE  started[p].inputs.evidence[k] <= draft'[p].evidence[k]
      BY <1>4, <1>6, <2>1 DEF Past
    <2>2. pc'[p] \in Deciding => started[p].inputs.review <= draft'[p].review
      BY <1>4, <1>6 DEF Past, Deciding
    <2>3. UNCHANGED <<assessments, started>>
      BY <1>2
    <2>4. \A r \in 1 .. started[p].revision :
              Precedes(assessments[r].inputs, started[p].inputs)
      BY DEF Kept, RequestOrder
    <2> QED
      BY <1>4, <1>6, <2>1, <2>2, <2>3, <2>4 DEF RequestOrder, Reading, Deciding, Precedes
  <1>11. RequestReply(p)'
    BY <1>1, <1>2, <1>3 DEF Kept, RequestReply, CurrentDuring
  <1> QED
    BY <1>7, <1>9, <1>10, <1>11 DEF Kept

\* A read takes the newest row, which the tables now have.
LEMMA ReadsKept ==
    ASSUME TypeOK, TypeOK', NEW p \in Requests, Kept(p), Reads(p)
    PROVE  Kept(p)'
  <1>1. p \in Assessors \cup Viewers
    BY DEF Reads
  <1>2. /\ draft[p] \in Inputs /\ todo[p] \in SUBSET Keys
        /\ started[p].inputs \in Inputs
    BY RequestFields
  <1>3. /\ draft[p].reconciliation \in 0 .. latestReconciliation
        /\ Catalog(draft[p].reconciliation) \in SUBSET Keys
        /\ Past(started[p].inputs)
        /\ Past(draft[p])
    BY LatestTypes DEF Kept, RequestOK, RequestPast
  <1>4. LatestAreNat
    BY LatestNat
  <1>5. CASE ViewReconciliation(p)
    <2> DEFINE first == [NothingRead EXCEPT !.reconciliation = latestReconciliation]
    <2>1. /\ p \in Viewers /\ p \notin Assessors
          /\ draft[p] = NothingRead /\ pc[p] = "reconciliation" /\ todo[p] = {}
      BY <1>5, RequestKindsDisjoint DEF ViewReconciliation, Kept, RequestOK
    <2>2. draft'[p] = first /\ pc'[p] = "snapshot"
      BY <1>5, <2>1 DEF ViewReconciliation, ReadReconciliation, Goto, TypeOK
    <2>3. /\ UNCHANGED <<tables, assessments>>
          /\ UNCHANGED <<todo, base, reply, started>>
      BY <1>5 DEF ViewReconciliation
    <2>4. first.reconciliation = latestReconciliation
      BY DEF NothingRead
    <2>5. /\ latestReconciliation' = latestReconciliation
          /\ latestAssessment' = latestAssessment
          /\ CurrentInputs' = CurrentInputs
          /\ \A in : Past(in)' = Past(in)
      BY <2>3, StillTables
    <2> HIDE DEF first
    <2>6. RequestOK(p)'
      BY <1>4, <2>1, <2>2, <2>3, <2>4, <2>5
         DEF Kept, RequestOK, Reading, Writing, LatestAreNat
    <2>7. RequestPast(p)'
      <3>1. Past(draft'[p])
        BY <2>2, FirstReadIsPast DEF first
      <3> QED
        BY <1>3, <2>3, <2>5, <3>1 DEF RequestPast, Past
    <2>8. RequestOrder(p)'
      <3>1. \A r \in 1 .. started[p].revision :
                Precedes(assessments[r].inputs, started[p].inputs)
        BY DEF Kept, RequestOrder
      <3>2. started[p].inputs.reconciliation <= latestReconciliation
        BY <1>3, <1>4 DEF Past, LatestAreNat
      <3> QED
        BY <2>2, <2>3, <2>4, <3>1, <3>2 DEF RequestOrder, Reading, Deciding, Precedes
    <2>9. RequestReply(p)'
      BY <2>3, <2>5 DEF Kept, RequestReply, CurrentDuring
    <2> QED
      BY <2>6, <2>7, <2>8, <2>9 DEF Kept
  <1>6. CASE ReadSnapshot(p)
    <2> DEFINE soFar == [draft[p] EXCEPT !.snapshot = latestSnapshot]
               left == Catalog(draft[p].reconciliation)
    <2>1. pc[p] = "snapshot"
      BY <1>6 DEF ReadSnapshot
    <2>2. soFar \in Inputs
      BY <1>2, LatestTypes DEF Inputs
    <2>3. /\ soFar.reconciliation = draft[p].reconciliation
          /\ soFar.snapshot = latestSnapshot
          /\ soFar.review = draft[p].review
          /\ soFar.evidence = draft[p].evidence
      BY <1>2 DEF Inputs
    <2>4. /\ ReadOne(p, soFar, left)
          /\ UNCHANGED <<tables, assessments, base, reply, started>>
      BY <1>6 DEF ReadSnapshot
    <2> HIDE DEF soFar
    <2>5. Past(soFar)
      BY <1>3, <1>4, <2>3 DEF Past, LatestAreNat
    <2>6. started[p].inputs.snapshot <= soFar.snapshot
      BY <1>3, <2>3 DEF Past
    <2>7. left \in SUBSET Keys /\ left \subseteq Catalog(soFar.reconciliation)
      BY <1>3, <2>3
    <2>8. ASSUME started[p].inputs.reconciliation = soFar.reconciliation,
                 NEW k \in Keys \ left
          PROVE  started[p].inputs.evidence[k] <= soFar.evidence[k]
      <3>1. started[p].inputs.evidence[k] = NoStamp
        BY <1>3, <2>3, <2>8 DEF Past
      <3>2. soFar.evidence[k] \in Nat
        BY <2>2, InputFields
      <3> QED
        BY <3>1, <3>2 DEF NoStamp
    <2> HIDE DEF left
    <2> QED
      BY <1>1, <2>1, <2>2, <2>3, <2>4, <2>5, <2>6, <2>7, <2>8, ReadOneKept
  <1>7. CASE ReadEvidence(p)
    <2>1. pc[p] = "evidence"
      BY <1>7 DEF ReadEvidence
    <2>2. /\ ReadOne(p, draft[p], todo[p])
          /\ UNCHANGED <<tables, assessments, base, reply, started>>
      BY <1>7 DEF ReadEvidence
    <2>3. todo[p] \subseteq Catalog(draft[p].reconciliation)
      BY DEF Kept, RequestOK
    <2>4. /\ started[p].inputs.snapshot <= draft[p].snapshot
          /\ started[p].inputs.reconciliation = draft[p].reconciliation =>
                \A k \in Keys \ todo[p] :
                    started[p].inputs.evidence[k] <= draft[p].evidence[k]
      BY <2>1 DEF Kept, RequestOrder, Reading
    <2> QED
      BY <1>1, <1>2, <1>3, <2>1, <2>2, <2>3, <2>4, ReadOneKept
  <1> QED
    BY <1>5, <1>6, <1>7 DEF Reads

\* A segment that reads the assessment history keeps what was read.
LEMMA AdvancesKept ==
    ASSUME TypeOK, TypeOK', NEW p \in Requests, Kept(p), Advances(p)
    PROVE  Kept(p)'
  <1>1. /\ UNCHANGED <<tables, assessments>>
        /\ UNCHANGED <<draft, todo, reply, started>>
        /\ p \in Assessors /\ p \notin Viewers /\ p \notin Reviewers
    BY RequestKindsDisjoint DEF Advances
  <1>2. pc[p] \in Deciding /\ pc'[p] \in Writing
    BY DEF Advances, Goto, TypeOK
  <1>3. /\ latestReconciliation' = latestReconciliation
        /\ latestAssessment' = latestAssessment
        /\ CurrentInputs' = CurrentInputs
        /\ \A in : Past(in)' = Past(in)
        /\ \A r : Catalog(r)' = Catalog(r)
    BY <1>1, StillTables
  <1>4. RequestOK(p)'
    BY <1>1, <1>2, <1>3 DEF Kept, RequestOK, Reading, Writing, Deciding
  <1>5. RequestPast(p)'
    BY <1>1, <1>3 DEF Kept, RequestPast, Past
  <1>6. RequestOrder(p)'
    BY <1>1, <1>2 DEF Kept, RequestOrder, Precedes, Reading, Writing, Deciding
  <1>7. RequestReply(p)'
    BY <1>1, <1>3 DEF Kept, RequestReply, CurrentDuring
  <1> QED
    BY <1>4, <1>5, <1>6, <1>7 DEF Kept

\* Sets of inputs that agree on every field are equal.
LEMMA InputsEqual ==
    ASSUME NEW a \in Inputs, NEW b \in Inputs,
           a.reconciliation = b.reconciliation,
           a.snapshot = b.snapshot,
           a.review = b.review,
           \A k \in Keys : a.evidence[k] = b.evidence[k]
    PROVE  a = b
  <1>1. a.evidence = b.evidence
    <2>1. /\ a.evidence \in [Keys -> Stamps \cup {NoStamp}]
          /\ b.evidence \in [Keys -> Stamps \cup {NoStamp}]
      BY DEF Inputs
    <2> QED
      BY <2>1
  <1> QED
    BY <1>1 DEF Inputs

\* What a request has read, once everything is read, lies between the inputs
\* of its start and those of the moment.
LEMMA DraftIsBetween ==
    ASSUME TypeOK, NEW p \in Requests, Kept(p), pc[p] \in Deciding
    PROVE  /\ Precedes(started[p].inputs, draft[p])
           /\ Precedes(draft[p], CurrentInputs)
  <1>1. todo[p] = {}
    BY DEF Kept, RequestOK, Deciding
  <1>2. draft[p] \in Inputs
    BY RequestFields
  <1>3. Precedes(started[p].inputs, draft[p])
    BY <1>1 DEF Kept, RequestOrder, Precedes, Deciding, Reading
  <1>4. Past(draft[p])
    BY DEF Kept, RequestPast
  <1> QED
    BY <1>2, <1>3, <1>4, PastPrecedesCurrent

\* A set of inputs between a state and itself is that state.
LEMMA PrecedesAntisymmetric ==
    ASSUME NEW a \in Inputs, NEW b \in Inputs, NEW c \in Inputs,
           Precedes(a, b), Precedes(b, c), a = c
    PROVE  a = b
  <1>1. /\ a.reconciliation \in Nat /\ a.snapshot \in Nat /\ a.review \in Nat
        /\ \A k \in Keys : a.evidence[k] \in Nat
        /\ b.reconciliation \in Nat /\ b.snapshot \in Nat /\ b.review \in Nat
        /\ \A k \in Keys : b.evidence[k] \in Nat
    BY InputFields
  <1>2. /\ a.reconciliation = b.reconciliation
        /\ a.snapshot = b.snapshot
        /\ a.review = b.review
    BY <1>1 DEF Precedes
  <1>3. ASSUME NEW k \in Keys
        PROVE  a.evidence[k] = b.evidence[k]
    BY <1>1, <1>2 DEF Precedes
  <1> QED
    BY <1>2, <1>3, InputsEqual

\* The order of sets of inputs is transitive.
LEMMA PrecedesTransitive ==
    ASSUME NEW a \in Inputs, NEW b \in Inputs, NEW c \in Inputs,
           Precedes(a, b), Precedes(b, c)
    PROVE  Precedes(a, c)
  <1>1. /\ a.reconciliation \in Nat /\ a.snapshot \in Nat /\ a.review \in Nat
        /\ \A k \in Keys : a.evidence[k] \in Nat
        /\ b.reconciliation \in Nat /\ b.snapshot \in Nat /\ b.review \in Nat
        /\ \A k \in Keys : b.evidence[k] \in Nat
        /\ c.reconciliation \in Nat /\ c.snapshot \in Nat /\ c.review \in Nat
        /\ \A k \in Keys : c.evidence[k] \in Nat
    BY InputFields
  <1>2. /\ a.reconciliation <= c.reconciliation
        /\ a.snapshot <= c.snapshot
        /\ a.review <= c.review
    BY <1>1 DEF Precedes
  <1>3. ASSUME a.reconciliation = c.reconciliation, NEW k \in Keys
        PROVE  a.evidence[k] <= c.evidence[k]
    <2>1. a.reconciliation = b.reconciliation /\ b.reconciliation = c.reconciliation
      BY <1>1, <1>3 DEF Precedes
    <2>2. a.evidence[k] <= b.evidence[k] /\ b.evidence[k] <= c.evidence[k]
      BY <2>1 DEF Precedes
    <2> QED
      BY <1>1, <2>2
  <1> QED
    BY <1>2, <1>3 DEF Precedes

\* A stored state that a request reads again was current when it began.
LEMMA ReadAgainWasCurrent ==
    ASSUME TypeOK, NEW p \in Requests, Kept(p), pc[p] \in Deciding,
           NEW r \in DOMAIN assessments, r <= started[p].revision,
           assessments[r].inputs = draft[p]
    PROVE  assessments[r].inputs = started[p].inputs
  <1>1. r \in 1 .. started[p].revision
    BY RequestFields DEF TypeOK
  <1>2. Precedes(assessments[r].inputs, started[p].inputs)
    BY <1>1 DEF Kept, RequestOrder
  <1>3. Precedes(started[p].inputs, draft[p])
    BY DraftIsBetween
  <1>4. draft[p] \in Inputs /\ started[p].inputs \in Inputs
    BY RequestFields
  <1> QED
    BY <1>2, <1>3, <1>4, PrecedesAntisymmetric

\* A stored state that is current now is what the request has read.
LEMMA StillCurrentWasRead ==
    ASSUME TypeOK, NEW p \in Requests, Kept(p), pc[p] \in Deciding,
           NEW r \in DOMAIN assessments, r <= started[p].revision,
           assessments[r].inputs = CurrentInputs
    PROVE  assessments[r].inputs = draft[p]
  <1>1. r \in 1 .. started[p].revision
    BY RequestFields DEF TypeOK
  <1>2. Precedes(assessments[r].inputs, started[p].inputs)
    BY <1>1 DEF Kept, RequestOrder
  <1>3. Precedes(started[p].inputs, draft[p]) /\ Precedes(draft[p], CurrentInputs)
    BY DraftIsBetween
  <1>4. /\ draft[p] \in Inputs /\ started[p].inputs \in Inputs
        /\ CurrentInputs \in Inputs
    BY RequestFields, LatestTypes
  <1>5. Precedes(CurrentInputs, draft[p])
    BY <1>2, <1>3, <1>4, PrecedesTransitive
  <1> QED
    BY <1>3, <1>4, <1>5, PrecedesAntisymmetric

\* An answer is justified by what the request has read.
LEMMA AnswersKept ==
    ASSUME TypeOK, TypeOK', Grow, NEW p \in Requests, Kept(p), Answers(p)
    PROVE  Kept(p)'
  <1>1. PICK answer \in Reply : Finish(p, answer) /\ Justified(p, answer)
    BY DEF Answers
  <1>2. /\ pc'[p] = "idle"
        /\ draft'[p] = NothingRead
        /\ todo'[p] = {}
        /\ reply'[p] = answer
        /\ started' = started
    BY <1>1 DEF Answers, Finish, Goto, TypeOK
  <1>3. /\ latestReconciliation' \in Nat
        /\ latestAssessment \in Nat
        /\ latestAssessment' \in Nat
        /\ latestAssessment <= latestAssessment'
        /\ DOMAIN assessments = 1 .. latestAssessment
        /\ DOMAIN assessments' = 1 .. latestAssessment'
        /\ \A r \in DOMAIN assessments : assessments'[r] = assessments[r]
    BY LatestNatNext DEF LatestAreNat, TypeOK, Grow
  <1>4. started[p].revision \in 0 .. latestAssessment
    BY DEF Kept, RequestOK
  <1>5. RequestOK(p)'
    <2>1. draft'[p].reconciliation = 0
      BY <1>2 DEF NothingRead
    <2> QED
      BY <1>2, <1>3, <1>4, <2>1 DEF RequestOK, Reading, Writing
  <1>6. RequestPast(p)'
    <2>1. \A in \in Inputs : Past(in) => Past(in)'
      BY PastStable
    <2>2. Past(NothingRead) /\ NothingRead \in Inputs
      BY NothingReadIsPast, NothingReadType
    <2>3. Past(started[p].inputs) /\ started[p].inputs \in Inputs
      BY RequestFields DEF Kept, RequestPast
    <2> QED
      BY <1>2, <2>1, <2>2, <2>3 DEF RequestPast, Past
  <1>7. RequestOrder(p)'
    <2>1. \A r \in 1 .. started[p].revision :
              Precedes(assessments[r].inputs, started[p].inputs)
      BY DEF Kept, RequestOrder
    <2>2. \A r \in 1 .. started[p].revision : assessments'[r] = assessments[r]
      BY <1>3, <1>4
    <2> QED
      BY <1>2, <2>1, <2>2 DEF RequestOrder, Precedes, Reading, Deciding
  <1>8. ASSUME NEW r \in DOMAIN assessments, pc[p] \in Deciding,
               assessments[r].inputs = draft[p]
        PROVE  r > started[p].revision \/ assessments[r].inputs = started[p].inputs
    <2>1. r \in Nat /\ started[p].revision \in Nat
      BY <1>3, RequestFields
    <2>2. CASE r <= started[p].revision
      BY <1>8, <2>2, ReadAgainWasCurrent
    <2> QED
      BY <2>1, <2>2
  <1>9. RequestReply(p)'
    <2>1. CASE answer.outcome \notin {"EXISTING", "CREATED", "STATE"}
      BY <1>2, <2>1 DEF RequestReply
    <2>2. CASE /\ answer.outcome = "EXISTING"
               /\ p \in Assessors
               /\ pc[p] \in Deciding
               /\ answer.revision \in DOMAIN assessments
               /\ assessments[answer.revision].inputs = draft[p]
      <3>1. \/ answer.revision > started[p].revision
            \/ assessments[answer.revision].inputs = started[p].inputs
        BY <1>8, <2>2
      <3>2. /\ answer.revision \in DOMAIN assessments'
            /\ assessments'[answer.revision] = assessments[answer.revision]
        BY <1>3, <2>2
      <3> QED
        BY <1>2, <2>2, <3>1, <3>2 DEF RequestReply, CurrentDuring
    <2>3. CASE /\ answer.outcome = "CREATED"
               /\ p \in Assessors
               /\ answer.revision = latestAssessment + 1
               /\ latestAssessment' = latestAssessment + 1
      <3>1. answer.revision > started[p].revision /\ answer.revision \in DOMAIN assessments'
        BY <1>3, <1>4, <2>3
      <3> QED
        BY <1>2, <2>3, <3>1 DEF RequestReply, CurrentDuring
    <2>4. CASE /\ answer.outcome = "STATE"
               /\ p \in Viewers
               /\ pc[p] \in Deciding
               /\ answer.revision = base[p]
               /\ answer.status = DerivedStatus(assessments[base[p]], draft[p])
               /\ UNCHANGED <<tables, assessments>>
      <3> DEFINE r == base[p]
      <3>1. r \in 1 .. started[p].revision
        BY <2>4 DEF Kept, RequestOK, Deciding
      <3>2. r \in DOMAIN assessments /\ r <= started[p].revision
        BY <1>3, <1>4, <3>1
      <3>3. CurrentInputs' = CurrentInputs /\ assessments' = assessments
        BY <2>4, StillTables
      <3>4. CASE draft[p] = assessments[r].inputs
        <4>1. answer.status = assessments[r].status
          BY <2>4, <3>4 DEF DerivedStatus
        <4>2. assessments[r].inputs = started[p].inputs
          BY <2>4, <3>2, <3>4, ReadAgainWasCurrent
        <4> QED
          BY <1>2, <2>4, <3>2, <3>3, <4>1, <4>2, RequestKindsDisjoint
             DEF RequestReply, CurrentDuring
      <3>5. CASE draft[p] # assessments[r].inputs
        <4>1. answer.status = "STALE"
          BY <2>4, <3>5 DEF DerivedStatus
        <4>2. assessments[r].inputs # CurrentInputs
          BY <2>4, <3>2, <3>5, StillCurrentWasRead
        <4> QED
          BY <1>2, <2>4, <3>2, <3>3, <4>1, <4>2, RequestKindsDisjoint
             DEF RequestReply, CurrentDuring
      <3> QED
        BY <3>4, <3>5
    <2> QED
      BY <1>1, <2>1, <2>2, <2>3, <2>4 DEF Justified
  <1> QED
    BY <1>5, <1>6, <1>7, <1>9 DEF Kept

-----------------------------------------------------------------------------
(***************************************************************************)
(* The invariant is inductive.                                             *)
(***************************************************************************)
LEMMA InvariantInit == Init => IInv
  <1> SUFFICES ASSUME Init PROVE IInv
    OBVIOUS
  <1>1. TypeOK
    BY TypeInit
  <1>2. DOMAIN assessments = {}
    BY DEF Init
  <1>3. /\ latestReconciliation = 0
        /\ latestAssessment = 0
    BY <1>2 DEF Init, latestReconciliation, latestAssessment, Newest, NoStamp
  <1>4. ASSUME NEW p \in Requests
        PROVE  /\ pc[p] = "idle" /\ draft[p] = NothingRead /\ todo[p] = {}
               /\ reply[p] = NoReply
               /\ started[p].inputs = NothingRead /\ started[p].revision = 0
    BY <1>4 DEF Init
  <1>5. NothingRead.reconciliation = 0
    BY DEF NothingRead
  <1>6. RequestsOK
    BY <1>3, <1>4, <1>5 DEF RequestsOK, RequestOK, Reading, Writing
  <1>7. PastOK
    BY <1>1, <1>2, <1>4, NothingReadIsPast DEF PastOK, RequestPast
  <1>8. OrderOK
    BY <1>4 DEF OrderOK, RequestOrder, Reading, Deciding
  <1>9. RepliesOK
    BY <1>4 DEF RepliesOK, RequestReply, NoReply
  <1> QED
    BY <1>1, <1>6, <1>7, <1>8, <1>9 DEF IInv

\* Every step keeps the inductive invariant.
LEMMA InvariantStep == IInv /\ [Next]_vars => IInv'
  <1> SUFFICES ASSUME IInv, [Next]_vars PROVE IInv'
    OBVIOUS
  <1>1. /\ TypeOK /\ RequestsOK /\ PastOK
        /\ \A p \in Requests : Kept(p)
    BY DEF IInv, RequestsOK, PastOK, OrderOK, RepliesOK, Kept
  <1>2. TypeOK'
    BY <1>1, TypeStep
  <1>3. Grow
    BY <1>1, <1>2, StepGrows
  <1>4. StepKind
    BY <1>1, StepKinds
  <1>5. ASSUME NEW p \in Requests
        PROVE  Kept(p)'
    <2>1. CASE Unmoved(p)
      BY <1>1, <1>2, <1>3, <2>1, UnmovedKept
    <2>2. CASE Quiet
      <3>1. Unmoved(p)
        BY <2>2 DEF Quiet, locals, Unmoved
      <3> QED
        BY <2>1, <3>1
    <2>3. ASSUME NEW q \in Requests, q # p,
                 Begins(q) \/ Reads(q) \/ Advances(q) \/ Answers(q)
          PROVE  Unmoved(p)
      BY <1>1, <2>3, OthersUnmoved
    <2>4. ASSUME Begins(p) \/ Reads(p) \/ Advances(p) \/ Answers(p)
          PROVE  Kept(p)'
      BY <1>1, <1>2, <1>3, <2>4, BeginsKept, ReadsKept, AdvancesKept, AnswersKept
    <2> QED
      BY <1>4, <2>1, <2>2, <2>3, <2>4 DEF StepKind
  <1>6. ASSUME NEW r \in DOMAIN assessments'
        PROVE  Past(assessments[r].inputs)'
    <2>1. \A in \in Inputs : Past(in) => Past(in)'
      BY <1>1, <1>2, <1>3, PastStable
    <2>2. CASE r \in DOMAIN assessments
      <3>1. assessments[r].inputs \in Inputs /\ Past(assessments[r].inputs)
        BY <1>1, <2>2, RowInputs DEF PastOK
      <3>2. assessments'[r] = assessments[r]
        BY <1>3, <2>2 DEF Grow
      <3> QED
        BY <2>1, <3>1, <3>2 DEF Past
    <2>3. CASE r \notin DOMAIN assessments
      <3>1. PICK p \in Requests : assessments'[r].inputs = draft[p]
        BY <1>3, <1>6, <2>3 DEF Grow
      <3>2. draft[p] \in Inputs /\ Past(draft[p])
        BY <1>1, RequestFields DEF Kept, RequestPast
      <3> QED
        BY <2>1, <3>1, <3>2 DEF Past
    <2> QED
      BY <2>2, <2>3
  <1>7. RequestsOK' /\ OrderOK' /\ RepliesOK' /\ (\A p \in Requests : RequestPast(p)')
    BY <1>5 DEF Kept, RequestsOK, OrderOK, RepliesOK
  <1>8. PastOK'
    BY <1>6, <1>7 DEF PastOK
  <1> QED
    BY <1>2, <1>7, <1>8 DEF IInv

\* The inductive invariant holds in every reachable state.
THEOREM Invariant == Spec => []IInv
  BY InvariantInit, InvariantStep, PTL DEF Spec

-----------------------------------------------------------------------------
(***************************************************************************)
(* The theorems.                                                           *)
(***************************************************************************)
\* However the segments of requests and writers interleave, every variable
\* keeps its type, and the assessment revisions are 1, 2, 3... with no gap.
THEOREM TypeCorrect == Spec => []TypeOK
  <1>1. IInv => TypeOK
    BY DEF IInv
  <1> QED
    BY <1>1, Invariant, PTL

\* Whatever assess() answers with was current at one instant of the request.
THEOREM AssessIsLinearizable == Spec => []AssessLinearizable
  <1>1. IInv => AssessLinearizable
    BY DEF IInv, RepliesOK, RequestReply, AssessLinearizable, Requests
  <1> QED
    BY <1>1, Invariant, PTL

\* A status that state() answers with was right at one instant of the request,
\* and a STALE it derives stays right.
THEOREM ViewIsLinearizable == Spec => []ViewLinearizable
  <1>1. IInv => ViewLinearizable
    BY DEF IInv, RepliesOK, RequestReply, ViewLinearizable, Requests
  <1> QED
    BY <1>1, Invariant, PTL

-----------------------------------------------------------------------------
\* The dependencies the transaction reads again are all the inputs there are.
LEMMA DependenciesMakeCurrent ==
    ASSUME TypeOK, NEW p \in Requests, Kept(p), DependenciesUnchanged(draft[p])
    PROVE  draft[p] = CurrentInputs
  <1>1. draft[p] \in Inputs /\ CurrentInputs \in Inputs
    BY RequestFields, LatestTypes
  <1>2. /\ draft[p].reconciliation = latestReconciliation
        /\ draft[p].snapshot = latestSnapshot
        /\ draft[p].review = latestReview
        /\ \A k \in Catalog(latestReconciliation) : draft[p].evidence[k] = latestValidation(k)
    BY DEF DependenciesUnchanged
  <1>3. \A k \in Keys \ Catalog(latestReconciliation) : draft[p].evidence[k] = NoStamp
    BY <1>2 DEF Kept, RequestPast, Past
  <1>4. /\ CurrentInputs.reconciliation = latestReconciliation
        /\ CurrentInputs.snapshot = latestSnapshot
        /\ CurrentInputs.review = latestReview
        /\ \A k \in Keys : CurrentInputs.evidence[k] =
              IF k \in Catalog(latestReconciliation) THEN latestValidation(k) ELSE NoStamp
    BY DEF CurrentInputs
  <1> QED
    BY <1>1, <1>2, <1>3, <1>4, InputsEqual

\* The one step that changes the history is the last branch of Commit.
LEMMA OnlyCommitAppends ==
    ASSUME IInv, [Next]_vars, assessments' # assessments
    PROVE  \E p \in Requests :
               /\ draft[p] = CurrentInputs
               /\ draft[p].reconciliation # 0
               /\ WithFingerprint(draft[p]) = {}
               /\ PredecessorIsLatest(p)
               /\ AppendAssessment(p)
               /\ UNCHANGED tables
  <1>1. TypeOK /\ \A p \in Requests : Kept(p)
    BY DEF IInv, RequestsOK, PastOK, OrderOK, RepliesOK, Kept
  <1>2. PICK p \in Assessors \cup Viewers : Commit(p)
    <2>1. ~ Write /\ ~ Review
      BY DEF Write, CaptureSnapshot, ExecuteReconciliation, persistValidation, Review,
         BeginReview, InsertReview, RejectReviewTime
    <2>2. \A p : /\ ~ BeginAssess(p) /\ ~ RejectAssess(p)
                 /\ \A r : ~ BeginView(p, r)
      BY DEF BeginAssess, RejectAssess, BeginView
    <2>3. \A p : Continue(p) => Commit(p)
      BY DEF Continue, ViewReconciliation, ReadSnapshot, ReadEvidence, DeriveState,
         ReadPrevious, Precheck, ObserveLatest
    <2> QED
      BY <2>1, <2>2, <2>3 DEF Next, vars
  <1>3. /\ WithFingerprint(draft[p]) = {}
        /\ PredecessorIsLatest(p)
        /\ DependenciesUnchanged(draft[p])
        /\ AppendAssessment(p)
        /\ UNCHANGED tables
        /\ pc[p] = "commit"
    BY <1>2 DEF Commit
  <1>4. p \in Requests
    BY DEF Requests
  <1>5. draft[p] = CurrentInputs
    BY <1>1, <1>3, <1>4, DependenciesMakeCurrent
  <1>6. draft[p].reconciliation # 0
    BY <1>1, <1>3, <1>4 DEF Kept, RequestOK, Reading, Writing
  <1> QED
    BY <1>3, <1>4, <1>5, <1>6

\* A READY evaluation of the inputs of the moment opens the gate.
LEMMA ReadyIsOpen ==
    ASSUME TypeOK, latestReconciliation # 0, evaluateReadiness(CurrentInputs) = "READY"
    PROVE  GateOpen
  <1> DEFINE in == CurrentInputs
             rec == reconciliations[latestReconciliation]
  <1>1. ~ StaleBlocker(in) /\ ~ OtherBlocker(in)
    BY DEF evaluateReadiness
  <1>2. /\ in.reconciliation = latestReconciliation
        /\ in.snapshot = latestSnapshot
        /\ in.review = latestReview
        /\ \A k \in Catalog(latestReconciliation) : in.evidence[k] = latestValidation(k)
    BY LatestTypes, LatestNat DEF CurrentInputs, LatestAreNat
  <1>3. Catalog(latestReconciliation) = rec.catalog
    BY DEF Catalog
  <1> HIDE DEF in
  <1>4. rec.clear /\ rec.catalog # {} /\ rec.target = latestSnapshot
    BY <1>1, <1>2, <1>3 DEF StaleBlocker, OtherBlocker
  <1>5. ASSUME NEW k \in rec.catalog
        PROVE  \E s \in DOMAIN validations :
                  /\ validations[s] = [key |-> k, snapshot |-> latestSnapshot,
                                       status |-> "PASSED"]
                  /\ \A t \in DOMAIN validations : validations[t].key = k => t <= s
    <2> DEFINE s == latestValidation(k)
               S == {t \in DOMAIN validations : validations[t].key = k}
    <2>1. /\ s # NoStamp
          /\ validations[s].status = "PASSED"
          /\ validations[s].snapshot = latestSnapshot
      BY <1>1, <1>2, <1>3, <1>4, <1>5 DEF StaleBlocker, OtherBlocker
    <2>2. S \in SUBSET Stamps /\ s = Newest(S)
      BY DEF TypeOK, TablesTypeOK, latestValidation
    <2> HIDE DEF s, S
    <2>3. s \in S /\ \A t \in S : t <= s
      BY <2>1, <2>2, NewestIsGreatest
    <2>4. s \in DOMAIN validations /\ validations[s].key = k
      BY <2>3 DEF S
    <2>5. validations[s] \in [key : Keys, snapshot : Stamps, status : Outcomes]
      BY <2>4 DEF TypeOK, TablesTypeOK
    <2>6. validations[s] = [key |-> k, snapshot |-> latestSnapshot, status |-> "PASSED"]
      BY <2>1, <2>4, <2>5
    <2> QED
      BY <2>3, <2>4, <2>6 DEF S
  <1>6. \E s \in DOMAIN reviews :
           /\ reviews[s] = [reconciliation |-> latestReconciliation,
                            snapshot |-> latestSnapshot, actor |-> "HUMAN"]
           /\ \A t \in DOMAIN reviews : t <= s
    <2> DEFINE s == latestReview
    <2>1. /\ s # NoStamp
          /\ reviews[s].actor = "HUMAN"
          /\ reviews[s].reconciliation = latestReconciliation
          /\ reviews[s].snapshot = latestSnapshot
      BY <1>1, <1>2, <1>4 DEF StaleBlocker, OtherBlocker
    <2>2. DOMAIN reviews \in SUBSET Stamps /\ s = Newest(DOMAIN reviews)
      BY DEF TypeOK, TablesTypeOK, latestReview
    <2> HIDE DEF s
    <2>3. s \in DOMAIN reviews /\ \A t \in DOMAIN reviews : t <= s
      BY <2>1, <2>2, NewestIsGreatest
    <2>4. reviews[s] \in [reconciliation : Nat, snapshot : Stamps,
                          actor : READINESS_REVIEW_ACTOR_KINDS]
      BY <2>3 DEF TypeOK, TablesTypeOK
    <2>5. reviews[s] = [reconciliation |-> latestReconciliation,
                        snapshot |-> latestSnapshot, actor |-> "HUMAN"]
      BY <2>1, <2>4
    <2> QED
      BY <2>3, <2>5
  <1> QED
    BY <1>4, <1>5, <1>6 DEF GateOpen

\* Every READY assessment was appended in an instant in which the release gate
\* was open, whatever happened between the reads of assess() and its commit.
THEOREM ReadyWasOpen == Spec => ReadyOnlyWhenOpen
  <1> DEFINE Opened == \A r \in DOMAIN assessments' \ DOMAIN assessments :
                          assessments'[r].status = "READY" => GateOpen
  <1>1. IInv /\ [Next]_vars => Opened
    <2> SUFFICES ASSUME IInv, [Next]_vars,
                        NEW r \in DOMAIN assessments' \ DOMAIN assessments,
                        assessments'[r].status = "READY"
                 PROVE  GateOpen
      OBVIOUS
    <2>1. TypeOK
      BY DEF IInv
    <2>2. PICK p \in Requests : /\ draft[p] = CurrentInputs
                                /\ draft[p].reconciliation # 0
                                /\ PredecessorIsLatest(p)
                                /\ AppendAssessment(p)
      BY OnlyCommitAppends
    <2>3. /\ DOMAIN assessments' = 1 .. (latestAssessment + 1)
          /\ assessments'[latestAssessment + 1] =
                [inputs |-> draft[p], status |-> evaluateReadiness(draft[p])]
      BY <2>1, <2>2, AppendFacts
    <2>4. DOMAIN assessments = 1 .. latestAssessment /\ latestAssessment \in Nat
      BY <2>1 DEF TypeOK
    <2>5. r = latestAssessment + 1
      BY <2>3, <2>4
    <2>6. evaluateReadiness(CurrentInputs) = "READY"
      BY <2>2, <2>3, <2>5
    <2>7. latestReconciliation # 0
      BY <2>2 DEF CurrentInputs
    <2> QED
      BY <2>1, <2>6, <2>7, ReadyIsOpen
  <1>2. IInv /\ [Next]_vars => [Opened]_vars
    BY <1>1
  <1> QED
    BY <1>2, Invariant, PTL DEF Spec, ReadyOnlyWhenOpen

-----------------------------------------------------------------------------
(***************************************************************************)
(* The refinement: the initial state and every step, through the mapping   *)
(* of History.                                                             *)
(***************************************************************************)
Assessed == [r \in DOMAIN assessments |-> assessments[r].inputs]

\* The commit appends the draft to the abstract history.
LEMMA AssessedAppends ==
    ASSUME TypeOK, NEW p \in Requests, PredecessorIsLatest(p), AppendAssessment(p)
    PROVE  Assessed' = Append(Assessed, draft[p])
  <1> DEFINE n == latestAssessment
  <1>1. /\ n \in Nat
        /\ DOMAIN assessments = 1 .. n
        /\ \A r \in 1 .. n : assessments[r].inputs \in Inputs
        /\ draft[p] \in Inputs
    BY RowInputs, RequestFields DEF TypeOK
  <1>2. /\ DOMAIN assessments' = 1 .. (n + 1)
        /\ \A r \in 1 .. n : assessments'[r] = assessments[r]
        /\ assessments'[n + 1].inputs = draft[p]
    <2>1. /\ DOMAIN assessments' = 1 .. (n + 1)
          /\ \A r \in DOMAIN assessments : assessments'[r] = assessments[r]
          /\ assessments'[n + 1] =
                [inputs |-> draft[p], status |-> evaluateReadiness(draft[p])]
      BY AppendFacts
    <2> HIDE DEF n
    <2> QED
      BY <1>1, <2>1
  <1> HIDE DEF n
  <1>3. Assessed \in [1 .. n -> Inputs]
    BY <1>1 DEF Assessed
  <1>4. Assessed \in Seq(Inputs) /\ Len(Assessed) = n
    BY <1>1, <1>3, SeqDef
  <1>5. /\ Append(Assessed, draft[p]) \in Seq(Inputs)
        /\ Len(Append(Assessed, draft[p])) = n + 1
        /\ \A i \in 1 .. n : Append(Assessed, draft[p])[i] = Assessed[i]
        /\ Append(Assessed, draft[p])[n + 1] = draft[p]
    BY <1>1, <1>4, AppendProperties
  <1>6. /\ Assessed' = [r \in 1 .. (n + 1) |-> assessments'[r].inputs]
        /\ \A r \in 1 .. n : Assessed[r] = assessments[r].inputs
    BY <1>1, <1>2 DEF Assessed
  <1>7. ASSUME NEW i \in 1 .. (n + 1)
        PROVE  Assessed'[i] = Append(Assessed, draft[p])[i]
    <2>1. i \in 1 .. n \/ i = n + 1
      BY <1>1
    <2> QED
      BY <1>2, <1>5, <1>6, <2>1
  <1>8. Append(Assessed, draft[p]) =
           [i \in 1 .. (n + 1) |-> Append(Assessed, draft[p])[i]]
    BY <1>5
  <1>9. Assessed' = [i \in 1 .. (n + 1) |-> Append(Assessed, draft[p])[i]]
    BY <1>6, <1>7
  <1> QED
    BY <1>8, <1>9

\* Requests that race over one history implement the list of distinct states,
\* each recorded while current, that ReleaseHistory promises.
THEOREM Refinement == Spec => HistorySpec
  <1>1. Init => History!Init
    <2> SUFFICES ASSUME Init PROVE History!Init
      OBVIOUS
    <2>1. CurrentInputs.reconciliation = 0
      BY DEF Init, CurrentInputs, latestReconciliation
    <2>2. [r \in DOMAIN assessments |-> assessments[r].inputs] = <<>>
      BY DEF Init
    <2> QED
      BY <2>1, <2>2 DEF History!Init
  <1>2. IInv /\ IInv' /\ [Next]_vars =>
            [History!Next]_<<CurrentInputs, Assessed>>
    <2> SUFFICES ASSUME IInv, IInv', [Next]_vars
                 PROVE  History!Next \/ UNCHANGED <<CurrentInputs, Assessed>>
      OBVIOUS
    <2>1. TypeOK /\ TypeOK' /\ RequestsOK /\ PastOK
      BY DEF IInv
    <2>2. Grow
      BY <2>1, StepGrows
    <2>3. CASE assessments' = assessments
      <3>1. Assessed' = Assessed
        BY <2>3 DEF Assessed
      <3>2. ASSUME CurrentInputs' # CurrentInputs,
                   NEW r \in DOMAIN assessments, assessments[r].inputs = CurrentInputs'
            PROVE  FALSE
        <4>1. assessments[r].inputs \in Inputs /\ Past(assessments[r].inputs)
          BY <2>1, <3>2, RowInputs DEF PastOK
        <4>2. assessments[r].inputs = CurrentInputs
          <5>1. \A in \in Inputs : Past(in) /\ in = CurrentInputs' => in = CurrentInputs
            BY <2>1, <2>2, NoReturn
          <5> QED
            BY <3>2, <4>1, <5>1
        <4> QED
          BY <3>2, <4>2
      <3>3. CurrentInputs' # CurrentInputs => CurrentInputs' \notin History!Recorded
        BY <3>2 DEF History!Recorded
      <3> QED
        BY <3>1, <3>3 DEF History!Next, History!Supply, Assessed
    <2>4. CASE assessments' # assessments
      <3>1. PICK p \in Requests : /\ draft[p] = CurrentInputs
                                  /\ draft[p].reconciliation # 0
                                  /\ WithFingerprint(draft[p]) = {}
                                  /\ PredecessorIsLatest(p)
                                  /\ AppendAssessment(p)
                                  /\ UNCHANGED tables
        BY <2>4, OnlyCommitAppends
      <3>2. Assessed' = Append(Assessed, CurrentInputs)
        BY <2>1, <3>1, AssessedAppends
      <3>3. CurrentInputs \in Inputs /\ CurrentInputs.reconciliation # 0
        BY <2>1, <3>1, LatestTypes
      <3>4. CurrentInputs \notin History!Recorded
        BY <3>1 DEF WithFingerprint, History!Recorded
      <3>5. UNCHANGED CurrentInputs
        BY <3>1 DEF tables, CurrentInputs, latestReconciliation, latestSnapshot,
           latestReview, latestValidation, Catalog
      <3> QED
        BY <3>2, <3>3, <3>4, <3>5 DEF History!Next, History!Record, Assessed
    <2> QED
      BY <2>3, <2>4
  <1> QED
    BY <1>1, <1>2, Invariant, PTL DEF Spec, HistorySpec, History!Spec, Assessed

-----------------------------------------------------------------------------
(***************************************************************************)
(* The Release Passport.  Its inductive invariant rests on that of the     *)
(* readiness history.                                                      *)
(***************************************************************************)
\* A stored Passport reproduces the status of its assessment.
Reproduces ==
    \A r \in DOMAIN passports :
        /\ r \in DOMAIN assessments
        /\ passports[r].status = assessments[r].status

\* A projector that goes on has found its assessment.
ProjectsStored ==
    \A p \in Projectors : at[p] = "commit" => revision[p] \in DOMAIN assessments

\* An assessment is of some reconciliation, and one that is READY and of the
\* inputs of this moment means that the gate is open.
ReadyStaysOpen ==
    \A r \in DOMAIN assessments :
        /\ assessments[r].inputs.reconciliation # 0
        /\ assessments[r].status = "READY" /\ assessments[r].inputs = CurrentInputs
               => GateOpen

PassportsOK ==
    /\ at \in [Projectors -> {"idle", "commit"}]
    /\ revision \in [Projectors -> Nat]
    /\ Reproduces
    /\ ProjectsStored

PInv == IInv /\ ReadyStaysOpen /\ PassportsOK /\ PassportsConverge

-----------------------------------------------------------------------------
(***************************************************************************)
(* The gate, across a step that leaves the current inputs as they are.     *)
(***************************************************************************)
\* A newest row that is there is a row of its table.
LEMMA NewestValidation ==
    ASSUME TypeOK, NEW k \in Keys,
           NEW s \in DOMAIN validations, validations[s].key = k,
           \A t \in DOMAIN validations : validations[t].key = k => t <= s
    PROVE  s = latestValidation(k)
  <1> DEFINE S == {t \in DOMAIN validations : validations[t].key = k}
  <1>1. S \in SUBSET Stamps /\ s \in S /\ latestValidation(k) = Newest(S)
    BY DEF TypeOK, TablesTypeOK, latestValidation
  <1>2. \A t \in S : t <= s
    OBVIOUS
  <1> HIDE DEF S
  <1>3. /\ Newest(S) \in S /\ Newest(S) \in Nat
        /\ s \in Nat /\ s <= Newest(S)
    BY <1>1, NewestIsGreatest
  <1>4. Newest(S) <= s
    BY <1>2, <1>3
  <1>5. s = Newest(S)
    BY <1>3, <1>4
  <1> QED
    BY <1>1, <1>5

\* The same of the reviews.
LEMMA NewestReview ==
    ASSUME TypeOK, NEW s \in DOMAIN reviews, \A t \in DOMAIN reviews : t <= s
    PROVE  s = latestReview
  <1>1. DOMAIN reviews \in SUBSET Stamps /\ latestReview = Newest(DOMAIN reviews)
    BY DEF TypeOK, TablesTypeOK, latestReview
  <1>2. /\ latestReview \in DOMAIN reviews /\ latestReview \in Nat
        /\ s \in Nat /\ s <= latestReview
    BY <1>1, NewestIsGreatest
  <1>3. latestReview <= s
    BY <1>2
  <1> QED
    BY <1>2, <1>3

\* No row of a key is newer than its latest, and none than the latest review.
LEMMA NoneIsNewer ==
    ASSUME TypeOK
    PROVE  /\ \A t \in DOMAIN validations : t <= latestValidation(validations[t].key)
           /\ \A t \in DOMAIN reviews : t <= latestReview
  <1>1. ASSUME NEW t \in DOMAIN validations
        PROVE  t <= latestValidation(validations[t].key)
    <2> DEFINE S == {u \in DOMAIN validations : validations[u].key = validations[t].key}
    <2>1. S \in SUBSET Stamps /\ t \in S /\ latestValidation(validations[t].key) = Newest(S)
      BY DEF TypeOK, TablesTypeOK, latestValidation
    <2> HIDE DEF S
    <2> QED
      BY <2>1, NewestIsGreatest
  <1>2. ASSUME NEW t \in DOMAIN reviews PROVE t <= latestReview
    <2>1. DOMAIN reviews \in SUBSET Stamps
      BY DEF TypeOK, TablesTypeOK
    <2> QED
      BY <2>1, NewestIsGreatest DEF latestReview
  <1> QED
    BY <1>1, <1>2

\* The same of the next state.
LEMMA NoneIsNewerNext ==
    TypeOK' => (/\ \A t \in DOMAIN validations : t <= latestValidation(validations[t].key)
                /\ \A t \in DOMAIN reviews : t <= latestReview)'
  BY NoneIsNewer, PTL

\* A gate that is open stays open while the inputs of the moment stay: the
\* rows that open it are the newest of their kind, and rows never change.
LEMMA GateStays ==
    ASSUME TypeOK, TypeOK', Grow, GateOpen, latestReconciliation # 0,
           CurrentInputs' = CurrentInputs
    PROVE  GateOpen'
  <1> DEFINE rec == reconciliations[latestReconciliation]
  <1>1. /\ latestReconciliation' = latestReconciliation
        /\ latestSnapshot' = latestSnapshot
        /\ latestReview' = latestReview
        /\ \A k \in Keys : CurrentInputs'.evidence[k] = CurrentInputs.evidence[k]
    BY DEF CurrentInputs
  <1>2. latestReconciliation \in Nat /\ latestReconciliation \in 1 .. latestReconciliation
    BY LatestTypes
  <1>3. reconciliations'[latestReconciliation'] = rec
    BY <1>1, <1>2 DEF Grow
  <1>4. Catalog(latestReconciliation) = rec.catalog /\ rec.catalog \subseteq Keys
    <2>1. rec \in Reconciliation
      BY <1>2, ReconciliationType
    <2> QED
      BY <2>1 DEF Catalog, Reconciliation
  <1>5. Catalog(latestReconciliation)' = rec.catalog
    BY <1>1, <1>3 DEF Catalog
  <1>6. \A k \in rec.catalog : latestValidation(k)' = latestValidation(k)
    <2> SUFFICES ASSUME NEW k \in rec.catalog
                 PROVE  latestValidation(k)' = latestValidation(k)
      OBVIOUS
    <2>1. CurrentInputs.evidence[k] = latestValidation(k)
      BY <1>4 DEF CurrentInputs
    <2>2. CurrentInputs'.evidence[k] = latestValidation(k)'
      BY <1>4, <1>5 DEF CurrentInputs
    <2> QED
      BY <1>1, <1>4, <2>1, <2>2
  <1> HIDE DEF rec
  <1>7. rec.clear /\ rec.catalog # {} /\ rec.target = latestSnapshot
    BY DEF GateOpen, rec
  <1>8. ASSUME NEW k \in rec.catalog
        PROVE  \E s \in DOMAIN validations' :
                  /\ validations'[s] =
                        [key |-> k, snapshot |-> latestSnapshot, status |-> "PASSED"]
                  /\ \A t \in DOMAIN validations' : validations'[t].key = k => t <= s
    <2>1. PICK s \in DOMAIN validations :
              /\ validations[s] =
                    [key |-> k, snapshot |-> latestSnapshot, status |-> "PASSED"]
              /\ \A t \in DOMAIN validations : validations[t].key = k => t <= s
      BY DEF GateOpen, rec
    <2>2. s = latestValidation(k)
      BY <1>4, <2>1, NewestValidation
    <2>3. s \in DOMAIN validations' /\ validations'[s] = validations[s]
      BY DEF Grow
    <2>4. \A t \in DOMAIN validations' :
              t <= latestValidation(validations[t].key)'
      BY NoneIsNewerNext
    <2>5. ASSUME NEW t \in DOMAIN validations', validations'[t].key = k PROVE t <= s
      BY <1>6, <2>2, <2>4, <2>5 DEF latestValidation
    <2> QED
      BY <2>1, <2>3, <2>5
  <1>9. \E s \in DOMAIN reviews' :
           /\ reviews'[s] = [reconciliation |-> latestReconciliation,
                             snapshot |-> latestSnapshot, actor |-> "HUMAN"]
           /\ \A t \in DOMAIN reviews' : t <= s
    <2>1. PICK s \in DOMAIN reviews :
              /\ reviews[s] = [reconciliation |-> latestReconciliation,
                               snapshot |-> latestSnapshot, actor |-> "HUMAN"]
              /\ \A t \in DOMAIN reviews : t <= s
      BY DEF GateOpen
    <2>2. s = latestReview
      BY <2>1, NewestReview
    <2>3. s \in DOMAIN reviews' /\ reviews'[s] = reviews[s]
      BY DEF Grow
    <2>4. \A t \in DOMAIN reviews' : t <= latestReview'
      BY NoneIsNewerNext
    <2> QED
      BY <1>1, <2>1, <2>2, <2>3, <2>4
  <1> QED
    BY <1>1, <1>3, <1>7, <1>8, <1>9 DEF GateOpen

-----------------------------------------------------------------------------
(***************************************************************************)
(* The invariant is inductive.                                             *)
(***************************************************************************)
\* A step of the readiness service, or one that leaves it alone, keeps READY
\* assessments of the current inputs in front of an open gate.
LEMMA ReadyStaysOpenStep ==
    ASSUME IInv, IInv', [Next]_vars, ReadyStaysOpen
    PROVE  ReadyStaysOpen'
  <1>1. TypeOK /\ TypeOK' /\ RequestsOK /\ PastOK
    BY DEF IInv
  <1>2. Grow
    BY <1>1, StepGrows
  <1> SUFFICES ASSUME NEW r \in DOMAIN assessments'
               PROVE  /\ assessments'[r].inputs.reconciliation # 0
                      /\ /\ assessments'[r].status = "READY"
                         /\ assessments'[r].inputs = CurrentInputs'
                         => GateOpen'
    BY DEF ReadyStaysOpen
  <1>3. CASE r \in DOMAIN assessments
    <2>1. assessments'[r] = assessments[r] /\ assessments[r].inputs.reconciliation # 0
      BY <1>2, <1>3 DEF Grow, ReadyStaysOpen
    <2>2. assessments[r].inputs \in Inputs /\ Past(assessments[r].inputs)
      BY <1>1, <1>3, RowInputs DEF PastOK
    <2>3. ASSUME assessments[r].status = "READY", assessments[r].inputs = CurrentInputs'
          PROVE  GateOpen'
      <3>1. assessments[r].inputs = CurrentInputs
        BY <1>1, <1>2, <2>2, <2>3, NoReturn
      <3>2. GateOpen
        BY <1>3, <2>3, <3>1 DEF ReadyStaysOpen
      <3>3. latestReconciliation # 0
        BY <2>1, <3>1 DEF CurrentInputs
      <3> QED
        BY <1>1, <1>2, <2>3, <3>1, <3>2, <3>3, GateStays
    <2> QED
      BY <2>1, <2>3
  <1>4. CASE r \notin DOMAIN assessments
    <2>1. PICK p \in Requests : /\ draft[p] = CurrentInputs
                                /\ draft[p].reconciliation # 0
                                /\ PredecessorIsLatest(p)
                                /\ AppendAssessment(p)
                                /\ UNCHANGED tables
      <3>1. assessments' # assessments
        BY <1>4
      <3> QED
        BY <3>1, OnlyCommitAppends
    <2>2. /\ DOMAIN assessments' = 1 .. (latestAssessment + 1)
          /\ assessments'[latestAssessment + 1] =
                [inputs |-> draft[p], status |-> evaluateReadiness(draft[p])]
      BY <1>1, <2>1, AppendFacts
    <2>3. DOMAIN assessments = 1 .. latestAssessment /\ latestAssessment \in Nat
      BY <1>1 DEF TypeOK
    <2>4. r = latestAssessment + 1
      BY <1>4, <2>2, <2>3
    <2>5. assessments'[r].inputs.reconciliation # 0 /\ latestReconciliation # 0
      BY <2>1, <2>2, <2>4 DEF CurrentInputs
    <2>6. ASSUME assessments'[r].status = "READY"
          PROVE  GateOpen'
      <3>1. evaluateReadiness(CurrentInputs) = "READY"
        BY <2>1, <2>2, <2>4, <2>6
      <3>2. GateOpen
        BY <1>1, <2>5, <3>1, ReadyIsOpen
      <3> QED
        BY <2>1, <3>2 DEF tables, GateOpen, latestReconciliation, latestSnapshot
    <2> QED
      BY <2>5, <2>6
  <1> QED
    BY <1>3, <1>4

\* A step of a projector adds at most the Passport of the assessment it found.
LEMMA ProjectorStep ==
    ASSUME IInv, PassportsOK, PassportsConverge,
           NEW p \in Projectors, Project(p), UNCHANGED vars
    PROVE  PassportsOK' /\ PassportsConverge'
  <1>1. UNCHANGED assessments /\ DOMAIN assessments \subseteq Nat
    BY DEF vars, IInv, TypeOK
  <1>2. ASSUME NEW r \in DOMAIN assessments, Lookup(p, r)
        PROVE  PassportsOK' /\ PassportsConverge'
    BY <1>1, <1>2 DEF PassportsOK, Reproduces, ProjectsStored, PassportsConverge, Lookup, MoveTo
  <1>3. CASE RejectPassportTime(p)
    BY <1>1, <1>3 DEF PassportsOK, Reproduces, ProjectsStored, PassportsConverge,
       RejectPassportTime, Done, MoveTo
  <1>4. CASE CommitPassport(p)
    <2>1. CASE ReturnExisting(p)
      BY <1>1, <1>4, <2>1 DEF PassportsOK, Reproduces, ProjectsStored, PassportsConverge,
         CommitPassport, ReturnExisting, Return, Done, MoveTo
    <2>2. CASE ~ ReturnExisting(p)
      <3> DEFINE r == revision[p]
      <3>1. /\ at[p] = "commit"
            /\ r \notin DOMAIN passports
            /\ passports' = WithRow(passports, r, NewPassport(p))
            /\ Return(p, NewPassport(p))
        BY <1>4, <2>2 DEF CommitPassport
      <3>2. /\ DOMAIN passports' = DOMAIN passports \cup {r}
            /\ passports'[r] = NewPassport(p)
            /\ \A s \in DOMAIN passports : passports'[s] = passports[s]
        BY <3>1 DEF WithRow
      <3>3. r \in DOMAIN assessments /\ NewPassport(p).status = assessments[r].status
        <4>1. r \in DOMAIN assessments
          BY <3>1 DEF PassportsOK, ProjectsStored
        <4>2. NewPassport(p).status = assessments[r].status
          BY DEF NewPassport
        <4> QED
          BY <4>1, <4>2
      <3>4. Reproduces'
        BY <1>1, <3>2, <3>3 DEF PassportsOK, Reproduces
      <3>5. /\ at' \in [Projectors -> {"idle", "commit"}]
            /\ revision' \in [Projectors -> Nat]
            /\ ProjectsStored'
        <4>1. /\ at' = [at EXCEPT ![p] = "idle"]
              /\ revision' = [revision EXCEPT ![p] = 0]
          BY <3>1 DEF Return, Done, MoveTo
        <4> QED
          BY <1>1, <4>1 DEF PassportsOK, ProjectsStored
      <3>6. answers' = answers \cup {[revision |-> r, passport |-> NewPassport(p)]}
        BY <3>1 DEF Return
      <3>7. PassportsConverge'
        BY <3>2, <3>6 DEF PassportsConverge
      <3> QED
        BY <3>4, <3>5, <3>7 DEF PassportsOK
    <2> QED
      BY <2>1, <2>2
  <1> QED
    BY <1>2, <1>3, <1>4 DEF Project

\* A step of the readiness service keeps every Passport of its assessment.
LEMMA ReadinessStep ==
    ASSUME IInv, IInv', [Next]_vars, PassportsOK, PassportsConverge, UNCHANGED passportVars
    PROVE  PassportsOK' /\ PassportsConverge'
  <1>1. Grow
    BY StepGrows DEF IInv
  <1>2. \A r \in DOMAIN assessments : r \in DOMAIN assessments' /\ assessments'[r] = assessments[r]
    <2>1. /\ DOMAIN assessments = 1 .. latestAssessment /\ latestAssessment \in Nat
          /\ DOMAIN assessments' = 1 .. latestAssessment' /\ latestAssessment' \in Nat
      BY DEF IInv, TypeOK
    <2> QED
      BY <1>1, <2>1 DEF Grow
  <1> QED
    BY <1>2 DEF PassportsOK, Reproduces, ProjectsStored, PassportsConverge, passportVars

\* The invariant holds at the start and after every step.
LEMMA PassportInvariant == PassportSpec => []PInv
  <1>1. PassportInit => PInv
    <2> SUFFICES ASSUME PassportInit PROVE PInv
      OBVIOUS
    <2>1. IInv
      BY InvariantInit DEF PassportInit
    <2>2. ReadyStaysOpen
      BY DEF PassportInit, Init, ReadyStaysOpen
    <2>3. PassportsOK /\ PassportsConverge
      BY DEF PassportInit, PassportsOK, Reproduces, ProjectsStored, PassportsConverge
    <2> QED
      BY <2>1, <2>2, <2>3 DEF PInv
  <1>2. PInv /\ [PassportNext]_allVars => PInv'
    <2> SUFFICES ASSUME PInv, [PassportNext]_allVars PROVE PInv'
      OBVIOUS
    <2>1. [Next]_vars
      BY DEF PassportNext, allVars
    <2>2. IInv'
      BY <2>1, InvariantStep DEF PInv
    <2>3. ReadyStaysOpen'
      BY <2>1, <2>2, ReadyStaysOpenStep DEF PInv
    <2>4. CASE UNCHANGED passportVars
      BY <2>1, <2>2, <2>3, <2>4, ReadinessStep DEF PInv
    <2>5. CASE \E p \in Projectors : Project(p) /\ UNCHANGED vars
      BY <2>2, <2>3, <2>5, ProjectorStep DEF PInv
    <2> QED
      BY <2>4, <2>5 DEF PassportNext, allVars
  <1> QED
    BY <1>1, <1>2, PTL DEF PassportSpec

-----------------------------------------------------------------------------
(***************************************************************************)
(* The theorems.                                                           *)
(***************************************************************************)
\* Competing projections of one assessment are answered with the one Passport
\* that is stored (SqliteReleasePassportRepository.persist).
THEOREM PassportsAreShared == PassportSpec => []PassportsConverge
  <1>1. PInv => PassportsConverge
    BY DEF PInv
  <1> QED
    BY <1>1, PassportInvariant, PTL

\* However long ago a READY Passport was projected, and through whatever race:
\* as long as its assessment is not stale, the release gate is open now.
THEOREM ReadyPassportIsTrue == PassportSpec => []ReadyPassportMeansOpen
  <1>1. PInv => ReadyPassportMeansOpen
    <2> SUFFICES ASSUME PInv, NEW r \in DOMAIN passports,
                        passports[r].status = "READY",
                        DerivedStatus(assessments[r], CurrentInputs) # "STALE"
                 PROVE  GateOpen
      BY DEF ReadyPassportMeansOpen
    <2>1. r \in DOMAIN assessments /\ assessments[r].status = "READY"
      BY DEF PInv, PassportsOK, Reproduces
    <2>2. assessments[r].inputs = CurrentInputs
      BY DEF DerivedStatus
    <2> QED
      BY <2>1, <2>2 DEF PInv, ReadyStaysOpen
  <1> QED
    BY <1>1, PassportInvariant, PTL
=============================================================================
