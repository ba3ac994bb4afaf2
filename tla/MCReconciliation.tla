-------------------------- MODULE MCReconciliation --------------------------
(* A small instance of Reconciliation for TLC, and inputs of the three     *)
(* pure functions about it.                                                *)
EXTENDS Reconciliation, CitedExplanation

CONSTANTS k1, q1, q2

\* Three requests: two with the same support, two with the same roots.
MCDeclarations ==
    {[support |-> {k1}, roots |-> q1],
     [support |-> {k1}, roots |-> q2],
     [support |-> {}, roots |-> q1]}

Symmetry ==
    Permutations(Reconcilers) \cup Permutations(Values)

-----------------------------------------------------------------------------
(* Impact analysis: every Twin over these relationships, with a cycle, two *)
(* ways to a3 of one length, an edge whose type and id disagree about its  *)
(* place, and a result that lies at, or beyond, the depth.                 *)
MCKeyOf == [v \in ResultNodes |-> IF v = "v3" THEN "k2" ELSE "k1"]

Related(id, from, type, to) == [id |-> id, from |-> from, type |-> type, to |-> to]

Pool ==
    {Related(1, "a2", "IMPLEMENTS", "c1"),
     Related(2, "a3", "DEPENDS_ON", "a2"),
     Related(3, "c1", "AFFECTS", "a1"),
     Related(4, "a2", "DEPENDS_ON", "a1"),
     Related(5, "a1", "AFFECTS", "a3"),
     Related(6, "a1", "DEPENDS_ON", "a3"),
     Related(7, "a1", "VALIDATED_BY", "v1"),
     Related(8, "a3", "VALIDATED_BY", "v1"),
     Related(9, "a1", "VALIDATED_BY", "v2")}

NoFixture == [nodes |-> {}, relationships |-> {}]

\* What may be a fixture: a claim, a declared relationship, a validation.
Fixtures ==
    {[NoFixture EXCEPT !.nodes = ns] : ns \in {{"c1"}, {"v1"}, {"v1", "v2"}}}
    \cup {[NoFixture EXCEPT !.relationships = {r}] : r \in {3, 5, 7}}

Requirement(id, root, asset, kind, key) ==
    [id |-> id, root |-> root, asset |-> asset, kind |-> kind, key |-> key]

\* One requirement of each kind, of an asset there is or is not.
Single ==
    {Requirement(<<Early>>, root, asset, "IMPLEMENTATION", "") :
        root \in {"c1", "a1"}, asset \in {"a3", "a4"}}
    \cup {Requirement(<<Early>>, "c1", asset, "VALIDATION", key) :
        asset \in {"a1", "a3"}, key \in {"k1", "k2", "k3"}}

\* Ids that differ early, that nest, or that share all but the last character.
Ids == {<<Early>>, <<Early, Hyphen>>, <<Early, Colon, Early>>, <<Early, Colon, Late>>, <<Late>>}

Pairs ==
    {{Requirement(i, "c1", "a1", "IMPLEMENTATION", ""),
      Requirement(j, root, "a3", kind, IF kind = "VALIDATION" THEN "k1" ELSE "")} :
        i \in Ids, j \in Ids, root \in {"c1", "c2"}, kind \in {"IMPLEMENTATION", "VALIDATION"}}

\* A model suggested the second claim, and perhaps some relationships.
Twin(relationships, fixture, suggested) ==
    [relationships |-> relationships, fixture |-> fixture,
     advisory |-> [nodes |-> {"c2"}, relationships |-> suggested]]

NothingAsked == [twin |-> Twin({}, NoFixture, {}), inferred |-> FALSE, requirements |-> {}]

\* Every Twin, and whole ones where a model suggested one relationship and some
\* member is of a fixture; the pairs of ids in Twins with all or nothing.
MCImpactInputs ==
    {NothingAsked}
    \cup {[twin |-> Twin(rs, NoFixture, {}), inferred |-> TRUE, requirements |-> {r}] :
        rs \in SUBSET Pool, r \in Single}
    \cup {[twin |-> Twin(Pool, fixture, {out.id}), inferred |-> TRUE, requirements |-> {r}] :
        out \in Pool, fixture \in Fixtures, r \in Single}
    \cup {[twin |-> Twin(rs, NoFixture, {}), inferred |-> inferred, requirements |-> pair] :
        rs \in {Pool, {}}, inferred \in BOOLEAN, pair \in Pairs}

-----------------------------------------------------------------------------
(* Claim sets: two claims of every two scopes; of every two values; three  *)
(* claims of every topology, with a link too few, too many or as it should *)
(* be.                                                                     *)
Spans ==
    {[from |-> f, until |-> u] : f \in {NoTime, 1, 2}, u \in {NoTime, 2, 3}}
        \ {[from |-> 2, until |-> 2]}

Scopes ==
    [dimensions : UNION {[ds -> DimensionValues] : ds \in SUBSET Dimensions}, span : Spans]

ClaimValues ==
    {Null, [kind |-> "BOOLEAN", is |-> 0], [kind |-> "STRING", is |-> 0],
     [kind |-> "STRING", is |-> 1], [kind |-> "OBJECT", is |-> 0], [kind |-> "OBJECT", is |-> 1]}

AnyScope == [dimensions |-> <<>>, span |-> [from |-> NoTime, until |-> NoTime]]

ClaimOf(key, scope, value, supersedes) ==
    [key |-> key, dimensions |-> scope.dimensions, from |-> scope.span.from,
     until |-> scope.span.until, value |-> value, supersedes |-> supersedes]

Unlinked(one, two) == [claims |-> <<one, two>>, links |-> {}]

LinksFor(supersedes) ==
    {[predecessor |-> supersedes[c], successor |-> c] :
        c \in {d \in 1 .. 3 : supersedes[d] # NoClaim}}

Forged == {[predecessor |-> 1, successor |-> c] : c \in 2 .. 3}

Topologies ==
    {[claims |-> [c \in 1 .. 3 |->
                     ClaimOf(1, IF c = 3 THEN scope ELSE AnyScope,
                             [kind |-> "NUMBER", is |-> c], supersedes[c])],
      links  |-> (LinksFor(supersedes) \ few) \cup many] :
        supersedes \in [1 .. 3 -> 0 .. 3], few \in {{}} \cup {{l} : l \in Forged},
        many \in {{}} \cup {{l} : l \in Forged},
        scope \in {AnyScope, [AnyScope EXCEPT !.span.from = 1]}}

NoClaims == [claims |-> <<>>, links |-> {}]

MCClaimSets ==
    {NoClaims}
    \cup {Unlinked(ClaimOf(1, one, Null, NoClaim),
                   ClaimOf(1, two, [kind |-> "NUMBER", is |-> 1], NoClaim)) :
              one \in Scopes, two \in Scopes}
    \cup {Unlinked(ClaimOf(1, AnyScope, v, NoClaim), ClaimOf(key, AnyScope, w, NoClaim)) :
              v \in ClaimValues, w \in ClaimValues, key \in 1 .. 2}
    \cup Topologies

-----------------------------------------------------------------------------
(* Questions: of assessments with disputes and corrections among up to     *)
(* four claims, with gaps of every reason, and with both at once.          *)
Said(is) == ClaimOf(1, AnyScope, [kind |-> IF is = 3 THEN "OBJECT" ELSE "NUMBER", is |-> is], NoClaim)

Superseding(claim, predecessor) == [claim EXCEPT !.supersedes = predecessor]

Link(predecessor, successor) == [predecessor |-> predecessor, successor |-> successor]

\* Nothing claimed; a dispute of two values, or of three; one that a correction settles, or
\* opens; one correction after the other, beside an ambiguity.
AssessedSets ==
    {NoClaims,
     [claims |-> <<Said(1), Said(2)>>, links |-> {}],
     [claims |-> <<Said(1), Said(2), Said(3)>>, links |-> {}],
     [claims |-> <<Said(1), Superseding(Said(2), 1)>>, links |-> {Link(1, 2)}],
     [claims |-> <<Said(1), Said(1), Superseding(Said(2), 1)>>, links |-> {Link(1, 3)}],
     [claims |-> <<Said(1), Superseding(Said(2), 1), Superseding(Said(1), 2), Said(3)>>,
      links  |-> {Link(1, 2), Link(2, 3)}]}

\* Requirements of which none, some or all are met, for each reason of a gap.
Obligations(r) == {r, Requirement(<<Late>>, "c1", "a1", "VALIDATION", "k1")}

Analysed ==
    {NothingAsked,
     [twin |-> Twin(Pool, NoFixture, {}), inferred |-> FALSE,
      requirements |-> Obligations(Requirement(<<Early>>, "c1", "a3", "IMPLEMENTATION", ""))]}
    \cup {[twin |-> Twin(rs, fixture, {}), inferred |-> TRUE, requirements |-> Obligations(r)] :
              rs \in {Pool, {s \in Pool : s.type # "VALIDATED_BY"}, {}},
              fixture \in {NoFixture, [NoFixture EXCEPT !.nodes = {"v1", "v2"}]},
              r \in {s \in Single : s.root = "c1"}}

\* Two sources, from the first of which a model inferred its claims.
Texts(set, odd, text) ==
    [c \in DOMAIN set.claims |->
        [source |-> IF c = 2 THEN 1 ELSE 2, label |-> IF c = 2 THEN "INFERENCE" ELSE "FACT",
         text   |-> IF c = odd THEN text ELSE "PLAIN"]]

Question(question, set, odd, text, analysed, missing, changes, later) ==
    [question |-> question, assessed |-> TRUE, set |-> set, of |-> Texts(set, odd, text),
     analysed |-> analysed, missing |-> missing, changes |-> changes, later |-> later]

Lacks(support, key) == [support |-> support, key |-> key]

MissingSets ==
    {{}, {Lacks("EVIDENCE_SOURCE", 1)}, {Lacks("VALIDATION_RESULT", 1), Lacks("VALIDATION_RESULT", 2)},
     {Lacks("EVIDENCE_SOURCE", 1), Lacks("VALIDATION_RESULT", 1)}}

NoQuestion == [question |-> "RELEASE", assessed |-> FALSE]

LaterLinks == {{}, {Link(3, 5)}, {Link(3, 5), Link(4, 6)}}

MCQuestions ==
    {NoQuestion}
    \cup {Question(question, set, odd, text, NothingAsked, missing, changes, later) :
              question \in QuestionKinds, set \in AssessedSets, odd \in {0, 1, 3},
              text \in {"ENDS_IN_SECRET", "LONG"}, missing \in MissingSets,
              changes \in {0, 2}, later \in LaterLinks}
    \cup {Question(question, set, 0, "PLAIN", analysed, missing, 1, {}) :
              question \in QuestionKinds, set \in AssessedSets, analysed \in Analysed,
              missing \in MissingSets}

-----------------------------------------------------------------------------
(* The initial states are those of the executions, once for each input of  *)
(* a function; only under the inputs that ask for nothing do the           *)
(* executions run, since they take what the functions return as given.     *)
MCInit ==
    /\ ReconciliationInit
    /\ \/ input = NothingAsked /\ ClaimSetInit /\ asked = NoQuestion
       \/ ImpactInit /\ claimSet = NoClaims /\ asked = NoQuestion
       \/ input = NothingAsked /\ claimSet = NoClaims /\ ExplanationInit

MCNext ==
    /\ input = NothingAsked /\ claimSet = NoClaims /\ asked = NoQuestion
    /\ ReconciliationNext
    /\ UNCHANGED <<input, claimSet, asked>>

MCSpec == MCInit /\ [][MCNext]_<<reconciliationVars, input, claimSet, asked>>
=============================================================================
