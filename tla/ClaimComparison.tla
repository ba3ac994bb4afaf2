-------------------------- MODULE ClaimComparison --------------------------
(***************************************************************************)
(* reconcileClaimSet: which claims of a Twin are active, and which pairs   *)
(* of them conflict or cannot be told apart.  Reconciliation.tla takes all *)
(* claims to be about one thing everywhere and always; here a claim has    *)
(* the subject, applicability and value by which pairs are compared.  Like *)
(* the impact analysis this is a pure function: the only variable is the   *)
(* input of one call.                                                      *)
(***************************************************************************)
EXTENDS Integers, FiniteSets

CONSTANTS
    Dimensions,       \* the dimensions an applicability may name
    DimensionValues,  \* and their values
    Instants,         \* points in time that are looked at
    ClaimSets         \* the inputs of the call

\* ReconcileClaimSetInput: [claims, links], where claims is a function from ids
\* to [key, dimensions, from, until, value, supersedes], and a link goes from a
\* predecessor to a successor.
VARIABLE claimSet

NoTime  == -1    \* effectiveFromUtc or effectiveUntilUtc is undefined
NoClaim == 0     \* supersedesClaimId is undefined

\* normalizeClaimApplicability: an interval that is given ends after it begins.
Applicable(claim) ==
    /\ \A d \in DOMAIN claim.dimensions :
          d \in Dimensions /\ claim.dimensions[d] \in DimensionValues
    /\ claim.from \in Instants \cup {NoTime}
    /\ claim.until \in (Nat \ {0}) \cup {NoTime}
    /\ claim.until # NoTime => claim.from < claim.until

\* A finite set of claims as createClaim makes them.
Created(claims) ==
    /\ IsFiniteSet(DOMAIN claims)
    /\ DOMAIN claims \subseteq Nat \ {NoClaim}
    /\ \A c \in DOMAIN claims : Applicable(claims[c])

\* The instants looked at are one before all ends and those at which claims begin.
ASSUME ClaimSetAssumption ==
    /\ DimensionValues # {}
    /\ Instants \subseteq Nat /\ 0 \in Instants
    /\ \A set \in ClaimSets : Created(set.claims)

\* Values by the kind of their JSON.
Null == [kind |-> "NULL", is |-> 0]

ScalarKinds == {"BOOLEAN", "NUMBER", "STRING"}

-----------------------------------------------------------------------------
(***************************************************************************)
(* compareClaims.                                                          *)
(***************************************************************************)
conflictingDimensions(left, right) ==
    {d \in DOMAIN left.dimensions \cap DOMAIN right.dimensions :
        left.dimensions[d] # right.dimensions[d]}

\* Mutant: intervals are closed, so that those that touch overlap.
startsBeforeEnds_Closed(left, right) ==
    right.until = NoTime \/ left.from = NoTime \/ left.from <= right.until

startsBeforeEnds(left, right) ==
    right.until = NoTime \/ left.from = NoTime \/ left.from < right.until

intervalsOverlap(left, right) ==
    startsBeforeEnds(left, right) /\ startsBeforeEnds(right, left)

compareClaimApplicability(left, right) ==
    IF conflictingDimensions(left, right) = {} /\ intervalsOverlap(left, right)
    THEN "OVERLAPS" ELSE "DISJOINT"

\* Equal canonical JSON is the equality of values.
compareClaimValues(left, right) ==
    IF left = right THEN "EQUIVALENT"
    ELSE IF left.kind # right.kind \/ left.kind \notin ScalarKinds
    THEN "AMBIGUOUS"
    ELSE "INCOMPATIBLE"

compareClaims(left, right) ==
    IF \/ left.key # right.key
       \/ compareClaimApplicability(left, right) = "DISJOINT"
    THEN "NOT_COMPARABLE"
    ELSE compareClaimValues(left.value, right.value)

-----------------------------------------------------------------------------
(***************************************************************************)
(* validateSupersessions and reconcileClaimSet.                            *)
(***************************************************************************)
\* No claim has two successors, and none two predecessors.
NoFork(links) ==
    \A k, l \in links :
        k.predecessor = l.predecessor \/ k.successor = l.successor => k = l

\* Every claim names the predecessor its link gives it, or none without a link.
LinksMatch(set) ==
    /\ \A l \in set.links :
          /\ l.predecessor # l.successor
          /\ {l.predecessor, l.successor} \subseteq DOMAIN set.claims
    /\ \A c \in DOMAIN set.claims :
          {set.claims[c].supersedes} \ {NoClaim} =
              {l.predecessor : l \in {k \in set.links : k.successor = c}}

Successors(set, ids) == {l.successor : l \in {k \in set.links : k.predecessor \in ids}}

\* The claims that n steps along the links lead to.
Onward(set) ==
    LET path[n \in 0 .. Cardinality(DOMAIN set.claims)] ==
            IF n = 0 THEN DOMAIN set.claims ELSE Successors(set, path[n - 1])
    IN  path

\* detectCycle: from each predecessor on, the path of successors comes to an
\* end, which without a cycle it does before it has visited every claim again.
Acyclic(set) == Onward(set)[Cardinality(DOMAIN set.claims)] = {}

\* assertClaimSupersessionInvariant: of one subject, applicable alike.
SupersedesAlike(set) ==
    \A l \in set.links :
        LET one == set.claims[l.predecessor]
            two == set.claims[l.successor]
        IN  /\ one.key = two.key
            /\ <<one.dimensions, one.from, one.until>> =
                   <<two.dimensions, two.from, two.until>>

validateSupersessions(set) ==
    /\ NoFork(set.links)
    /\ LinksMatch(set)
    /\ Acyclic(set)
    /\ SupersedesAlike(set)

ActiveClaims(set) == DOMAIN set.claims \ {l.predecessor : l \in set.links}

\* The pairs of active claims, the lower id on the left, with a finding.
FindingsOf(set, relation) ==
    {{p[1], p[2]} : p \in
        {q \in ActiveClaims(set) \X ActiveClaims(set) :
            q[1] < q[2] /\ compareClaims(set.claims[q[1]], set.claims[q[2]]) = relation}}

reconcileClaimSet(set) ==
    IF ~ validateSupersessions(set) THEN [error |-> "RECONCILIATION_SUPERSESSION"]
    ELSE [error     |-> "NONE",
          active    |-> ActiveClaims(set),
          conflict  |-> FindingsOf(set, "INCOMPATIBLE"),
          ambiguous |-> FindingsOf(set, "AMBIGUOUS")]

ClaimSetInit == claimSet \in ClaimSets

-----------------------------------------------------------------------------
(***************************************************************************)
(* Reference definitions.  A circumstance gives every dimension a value    *)
(* and is at one instant.                                                  *)
(***************************************************************************)
Circumstances == [is : [Dimensions -> DimensionValues], at : Instants]

AppliesIn(claim, circumstance) ==
    /\ \A d \in DOMAIN claim.dimensions : circumstance.is[d] = claim.dimensions[d]
    /\ claim.from = NoTime \/ claim.from <= circumstance.at
    /\ claim.until = NoTime \/ circumstance.at < claim.until

\* Two claims that say different things of one subject in some circumstance.
Differ(one, two) ==
    /\ one.key = two.key
    /\ one.value # two.value
    /\ \E circumstance \in Circumstances :
          AppliesIn(one, circumstance) /\ AppliesIn(two, circumstance)

\* Some claims, with those that they supersede.
WithSuperseded(set, ids) == ids \cup ({set.claims[d].supersedes : d \in ids} \ {NoClaim})

\* The claims that led to c in at most n steps, with c itself.
Lineage(set, c) ==
    LET back[n \in 0 .. Cardinality(DOMAIN set.claims)] ==
            IF n = 0 THEN {c} ELSE WithSuperseded(set, back[n - 1])
    IN  back

Ancestry(set, c) == Lineage(set, c)[Cardinality(DOMAIN set.claims)]

-----------------------------------------------------------------------------
(***************************************************************************)
(* Properties.                                                             *)
(***************************************************************************)
\* In a set that is accepted, every claim speaks through exactly one active
\* claim, and two active claims make a finding exactly when there is some
\* circumstance in which both apply and they differ: a conflict for scalars of
\* one kind, an ambiguity for unknown, mixed or structured values.  No boundary
\* of an interval, partial scope or order of ids adds or hides one
\* (docs/architecture/DOMAIN_MODEL.md:163).
FindingsAreTheClashes ==
    LET found  == reconcileClaimSet(claimSet)
        claims == claimSet.claims
    IN  found.error = "NONE" =>
            /\ \A c \in DOMAIN claims :
                  Cardinality({a \in found.active : c \in Ancestry(claimSet, a)}) = 1
            /\ found.conflict \cap found.ambiguous = {}
            /\ \A c, d \in found.active :
                  LET known == {claims[c].value.kind, claims[d].value.kind} IN
                  /\ {c, d} \in found.conflict \cup found.ambiguous
                        <=> Differ(claims[c], claims[d])
                  /\ {c, d} \in found.conflict
                        => known \subseteq ScalarKinds /\ Cardinality(known) = 1
                  /\ {c, d} \in found.ambiguous
                        => ~ known \subseteq ScalarKinds \/ Cardinality(known) = 2
=============================================================================
