--------------------------- MODULE Reconciliation ---------------------------
(***************************************************************************)
(* The reconciliation and impact revisions of one Mission.  An execution   *)
(* (ReconciliationExecutionService.execute) reads the Twin revision it was *)
(* asked for and the latest reconciliation together; what it reads later   *)
(* are rows that never change.  It reassesses the claims of that Twin,     *)
(* analyses the impact from the requested roots, and stores its candidate  *)
(* in one transaction, if no other execution stored one meanwhile.         *)
(***************************************************************************)
EXTENDS ActiveTwin

CONSTANTS
    Reconcilers,       \* concurrent requests to reconcile
    Declarations,      \* what a request may ask: validations it needs, and roots
    MaxClaims,         \* MAXIMUM_RECONCILIATION_CLAIMS
    MaxReconciliations \* bound on the history

ASSUME ClaimLimitAssumption == MaxClaims \in Nat

ASSUME DeclarationAssumption ==
    \A d \in Declarations : d.support \subseteq ValidationKeys

VARIABLES
    reconciliations, \* reconciliation_impact_revisions, in order
    executing        \* what each execution has read and been asked

reconciliationVars == <<twinVars, reconciliations, executing>>

\* A request: a declaration, about a Twin revision.
Requests ==
    {[twin |-> t, support |-> d.support, roots |-> d.roots] :
        t \in 1 .. MaxRevisions, d \in Declarations}

Waiting == [previous |-> 0, request |-> [twin |-> 0]]

ReconciliationInit ==
    /\ TwinInit
    /\ reconciliations = <<>>
    /\ executing = [p \in Reconcilers |-> Waiting]

-----------------------------------------------------------------------------
(***************************************************************************)
(* What is computed from one Twin revision.                                *)
(***************************************************************************)
ClaimsOf(twin) == twin.rows["claims"]

LinksOf(twin) == twin.rows["links"]

TargetOf(twin) == codeMaps[twin.codeMap]

\* The request names the code map the Twin is bound to and that map's
\* snapshot (assertExactCodeMapBinding), and every validation is of it.
OnOneSnapshot(twin) ==
    /\ twin.codeMap # 0
    /\ \A i \in twin.validations : validations[i].snapshot = TargetOf(twin)

\* Mutant: each link is checked, but not that each claim has its link.
Whole_LinksOnly(twin) ==
    \A l \in LinksOf(twin) : claims[links[l].successor].supersedes = links[l].predecessor

\* validateSupersessions: the claims that supersede are those with a link.
Whole(twin) ==
    \A c \in ClaimsOf(twin) :
        {claims[c].supersedes} \ {None} =
            {links[l].predecessor : l \in {k \in LinksOf(twin) : links[k].successor = c}}

Reconcilable(twin) ==
    /\ OnOneSnapshot(twin)
    /\ Cardinality(ClaimsOf(twin)) <= MaxClaims
    /\ Whole(twin)

\* reconcileClaimSet: the conflicts among the claims no link supersedes.
Active(twin) == ClaimsOf(twin) \ {links[l].predecessor : l \in LinksOf(twin)}

Conflicts(twin) ==
    {pair \in SUBSET Active(twin) :
        \E c, d \in pair : pair = {c, d} /\ claims[c].value # claims[d].value}

Matching(twin, support) == {i \in twin.validations : validations[i].key \in support}

\* The rows a reassessment depends on, each under the kind of its key.
Dependencies(twin, support) ==
    LET matching == Matching(twin, support)
        sources  == {claims[c].source : c \in ClaimsOf(twin)}
                        \cup {validations[i].source : i \in matching}
    IN  [support |-> support, claims |-> ClaimsOf(twin), evidence |-> sources,
         links |-> LinksOf(twin), validations |-> matching, snapshot |-> TargetOf(twin)]

Missing(twin, support) ==
    {key \in support : \A i \in twin.validations : validations[i].key # key}

\* The revision and dependencies before the first reassessment.
LatestReassessment(previous) ==
    IF previous = 0
    THEN [revision |-> 0, twin |-> 0, support |-> {}]
    ELSE reconciliations[previous].reassessment

\* reassessReconciliation: the latest one when nothing it is made of changed.
Reassess(request, previous) ==
    LET latest == LatestReassessment(previous)
        twin   == twins[request.twin]
        needs  == Dependencies(twin, request.support)
    IN  IF /\ latest.revision # 0
           /\ latest.twin = request.twin
           /\ latest.support = request.support
        THEN latest
        ELSE [revision     |-> latest.revision + 1,
              twin         |-> request.twin,
              support      |-> request.support,
              dependencies |-> needs,
              conflicts    |-> Conflicts(twin),
              missing      |-> Missing(twin, request.support),
              stale        |-> latest.revision # 0 /\ latest.dependencies # needs]

\* analyzeChangeImpact, as what its paths and findings are a function of,
\* besides the reassessment of the same Twin.
Impact(request) == [twin |-> request.twin, roots |-> request.roots]

\* createReconciliationImpactRevision: both results, of one Twin.
Candidate(execution) ==
    [reassessment |-> Reassess(execution.request, execution.previous),
     impact       |-> Impact(execution.request)]

\* Whether a revision has the input digest of a request.
HasInput(stored, request) ==
    /\ stored.reassessment.twin = request.twin
    /\ stored.reassessment.support = request.support
    /\ stored.impact = Impact(request)

-----------------------------------------------------------------------------
(***************************************************************************)
(* An execution.                                                           *)
(***************************************************************************)
Begin(p, request) ==
    /\ executing[p] = Waiting
    /\ request.twin \in DOMAIN twins
    /\ Reconcilable(twins[request.twin])
    /\ executing' = [executing EXCEPT
           ![p] = [previous |-> Len(reconciliations), request |-> request]]
    /\ UNCHANGED <<twinVars, reconciliations>>

\* Mutant: only the latest revision is looked at.
Replayed_Latest(request) ==
    /\ reconciliations # <<>>
    /\ HasInput(reconciliations[Len(reconciliations)], request)

\* A revision with the same input digest, whichever it is.
Replayed(request) ==
    \E i \in DOMAIN reconciliations : HasInput(reconciliations[i], request)

\* Mutant: the predecessor is not compared with the latest revision.
Storable_AnyPredecessor(execution) == ~ Replayed(execution.request)

Storable(execution) ==
    /\ ~ Replayed(execution.request)
    /\ execution.previous = Len(reconciliations)

\* SqliteReconciliationRepository.persist: CREATED.
StoreReconciliation(p) ==
    /\ executing[p] # Waiting
    /\ Storable(executing[p])
    /\ Len(reconciliations) < MaxReconciliations
    /\ reconciliations' = Append(reconciliations, Candidate(executing[p]))
    /\ executing' = [executing EXCEPT ![p] = Waiting]
    /\ UNCHANGED twinVars

\* EXISTING or RECONCILIATION_PREDECESSOR_CONFLICT.
KeepReconciliations(p) ==
    /\ executing[p] # Waiting
    /\ ~ Storable(executing[p])
    /\ executing' = [executing EXCEPT ![p] = Waiting]
    /\ UNCHANGED <<twinVars, reconciliations>>

Reconcile(p) ==
    \/ \E request \in Requests : Begin(p, request)
    \/ StoreReconciliation(p)
    \/ KeepReconciliations(p)

ReconciliationNext ==
    \/ TwinNext /\ UNCHANGED <<reconciliations, executing>>
    \/ \E p \in Reconcilers : Reconcile(p)

ReconciliationSpec ==
    ReconciliationInit /\ [][ReconciliationNext]_reconciliationVars

-----------------------------------------------------------------------------
(***************************************************************************)
(* Properties.                                                             *)
(***************************************************************************)
Reassessments == {reconciliations[i].reassessment : i \in DOMAIN reconciliations}

\* A conflict is reported only between claims that nothing in the same Twin
\* supersedes, even in a Twin whose pages were read around an import and which
\* holds the successor but not its link (reconcileClaimSet).
ConflictsAreUnresolved ==
    \A r \in Reassessments : \A pair \in r.conflicts :
        \A c \in ClaimsOf(twins[r.twin]) : claims[c].supersedes \notin pair

\* One input is reconciled once: asking again, concurrently or after others
\* were stored, finds the revision there is (persist's look for the digest).
InputsAreUnique ==
    \A i, j \in DOMAIN reconciliations :
        LET one == reconciliations[i]
            two == reconciliations[j]
        IN  /\ one.impact = two.impact
            /\ one.reassessment.twin = two.reassessment.twin
            /\ one.reassessment.support = two.reassessment.support
            => i = j

\* Each revision carries the reassessment of the one before it or the next
\* one, which is marked stale exactly when what it depends on differs from what
\* that predecessor depended on: no revision is stored between the predecessor
\* an execution reads and the one it stores (persist's predecessor check).
StaleNamesTheChange ==
    \A i \in DOMAIN reconciliations :
        LET this == reconciliations[i].reassessment IN
        IF i = 1
        THEN this.revision = 1 /\ ~ this.stale
        ELSE LET before == reconciliations[i - 1].reassessment IN
             \/ this = before
             \/ /\ this.revision = before.revision + 1
                /\ this.stale <=> this.dependencies # before.dependencies
=============================================================================
