--------------------------- MODULE ImpactAnalysis ---------------------------
(***************************************************************************)
(* analyzeChangeImpact: from each declared root, which critical assets a   *)
(* change reaches in one Twin revision, by which path, and which declared  *)
(* requirements are left with a gap.  The analysis is a pure function of   *)
(* its input, and the only variable is the input of one call.  It is       *)
(* written here as the code computes it, a queue that grows while it is    *)
(* read, and the properties compare its result with all the walks there    *)
(* are.                                                                    *)
(***************************************************************************)
EXTENDS Integers, SequencesExt

CONSTANTS
    ClaimNodes,     \* nodes of the Twin, by their type
    AssetNodes,     \* also the assets of the code map the Twin is bound to
    ResultNodes,    \* the validation results, one node each
    KeyOf,          \* the validation key of each result
    MaximumDepth,   \* MAXIMUM_IMPACT_TRAVERSAL_DEPTH
    ImpactInputs    \* the inputs of the call: a Twin and declared requirements

ASSUME TraversalAssumption == MaximumDepth \in Nat \ {0}

ASSUME NodeTypesDisjoint ==
    /\ ClaimNodes \cap AssetNodes = {}
    /\ ResultNodes \cap (ClaimNodes \cup AssetNodes) = {}

ASSUME NodesAreFinite == IsFiniteSet(ClaimNodes \cup AssetNodes \cup ResultNodes)

\* AnalyzeChangeImpactInput: [twin, inferred, requirements], where inferred says
\* whether the code map's inference was available.
VARIABLE input

TwinNodes == ClaimNodes \cup AssetNodes \cup ResultNodes

NoResult == "none"

ASSUME NoResultIsNone == NoResult \notin ResultNodes

-----------------------------------------------------------------------------
(***************************************************************************)
(* The traversal.  A relationship has an id, a type and two ends, of the   *)
(* node types that validateInput lets its type have.                       *)
(***************************************************************************)
\* IMPACT_TRAVERSAL_RELATIONSHIP_TYPES, in the order edges are tried.
TraversalTypes == <<"AFFECTS", "DEPENDS_ON", "IMPLEMENTS", "VALIDATED_BY">>

Rank(type) == CHOOSE i \in DOMAIN TraversalTypes : TraversalTypes[i] = type

Traversed(twin) ==
    {r \in twin.relationships :
        /\ r.type \in ToSet(TraversalTypes)
        /\ r.id \notin twin.advisory.relationships
        /\ twin.advisory.nodes \cap {r.from, r.to} = {}}

\* A change spreads to what depends on an asset and to what implements a claim.
Against(r) ==
    \/ r.type = "DEPENDS_ON"
    \/ r.type = "IMPLEMENTS" /\ r.from \in AssetNodes

directedEdge(r) ==
    [relationship |-> r,
     from |-> IF Against(r) THEN r.to ELSE r.from,
     to   |-> IF Against(r) THEN r.from ELSE r.to]

Edges(twin) == {directedEdge(r) : r \in Traversed(twin)}

\* Ids are unique, sourceNode lets no result be advisory, and the ends of what
\* is traversed are of the types its own allows.  (Else IMPACT_TWIN_INVALID.)
TwinAccepted(twin) ==
    /\ IsFiniteSet(twin.relationships)
    /\ \A r \in twin.relationships : r.id \in Nat
    /\ \A r, s \in twin.relationships : r.id = s.id => r = s
    /\ twin.advisory.nodes \cap ResultNodes = {}
    /\ \A r \in Traversed(twin) :
          \/ r.type = "AFFECTS" /\ r.from \in ClaimNodes \cup AssetNodes /\ r.to \in AssetNodes
          \/ r.type = "DEPENDS_ON" /\ r.from \in AssetNodes /\ r.to \in AssetNodes
          \/ r.type = "IMPLEMENTS" /\ r.from \in ClaimNodes /\ r.to \in AssetNodes
          \/ r.type = "IMPLEMENTS" /\ r.from \in AssetNodes /\ r.to \in ClaimNodes
          \/ r.type = "VALIDATED_BY" /\ r.from \in AssetNodes /\ r.to \in ResultNodes

TriedBefore(e, f) ==
    \/ Rank(e.relationship.type) < Rank(f.relationship.type)
    \/ /\ e.relationship.type = f.relationship.type
       /\ e.relationship.id < f.relationship.id

Adjacency(twin, node) ==
    LET edges == {e \in Edges(twin) : e.from = node}
    IN  [i \in 1 .. Cardinality(edges) |->
            CHOOSE e \in edges : Cardinality({f \in edges : TriedBefore(f, e)}) = i - 1]

\* What an edge leads to is discovered once.
Discover(states, state, edge) ==
    IF \E s \in ToSet(states) : s.node = edge.to
    THEN states
    ELSE Append(states, [node |-> edge.to, edges |-> Append(state.edges, edge)])

\* The queue after each edge of a state.
Discovered(twin, queue, state) ==
    LET tried    == Adjacency(twin, state.node)
        after[m \in 0 .. Len(tried)] ==
            IF m = 0 THEN queue
            ELSE LET before == after[m - 1] IN Discover(before, state, tried[m])
    IN  after

\* One turn of the loop: what the i-th state discovers joins the queue.
Expand(twin, queue, i) ==
    LET state == queue[i] IN
    IF Len(state.edges) >= MaximumDepth \/ state.node \in ResultNodes
    THEN queue
    ELSE Discovered(twin, queue, state)[Len(Adjacency(twin, state.node))]

\* The queue after each turn, of which there are no more than nodes: it never
\* holds a node twice.
Searched(twin, root) ==
    LET queue[n \in 0 .. Cardinality(TwinNodes)] ==
            IF n = 0 THEN <<[node |-> root, edges |-> <<>>]>>
            ELSE LET before == queue[n - 1] IN
                 IF n > Len(before) THEN before ELSE Expand(twin, before, n)
    IN  queue

canonicalPathsFrom(twin, root) == ToSet(Searched(twin, root)[Cardinality(TwinNodes)])

-----------------------------------------------------------------------------
(***************************************************************************)
(* Paths and gaps of one requirement: [id, root, asset, kind, key].  The   *)
(* key of a path is a digest of its requirement and terminal result.       *)
(***************************************************************************)
pathFromState(requirement, edges, terminal) ==
    [key   |-> [requirement |-> requirement.id, terminal |-> terminal],
     asset |-> requirement.asset,
     root  |-> requirement.root,
     steps |-> edges]

NodesOf(path) ==
    {path.root, path.asset} \cup UNION {{e.from, e.to} : e \in ToSet(path.steps)}

\* A member of a fixture, by origin or by extraction method, is on the path.
pathUsesUnavailableSupport(twin, path) ==
    \/ NodesOf(path) \cap twin.fixture.nodes # {}
    \/ {e.relationship.id : e \in ToSet(path.steps)} \cap twin.fixture.relationships # {}

\* Mutant: a path at the depth limit is extended by its validation.
ValidationEdges_AnyDepth(twin, state, result) ==
    {directedEdge(r) : r \in {s \in twin.relationships :
        /\ s.type = "VALIDATED_BY" /\ s.from = state.node /\ s.to = result
        /\ s.id \notin twin.advisory.relationships}}

\* VALIDATED_BY from the critical asset to a result, unless a model suggested
\* it, if the path may grow.
ValidationEdges(twin, state, result) ==
    IF Len(state.edges) >= MaximumDepth THEN {}
    ELSE ValidationEdges_AnyDepth(twin, state, result)

\* The path through the first such edge, for each result of the required key.
ValidationPaths(twin, requirement, state) ==
    LET First(v) == CHOOSE e \in ValidationEdges(twin, state, v) :
                        \A f \in ValidationEdges(twin, state, v) :
                            e.relationship.id <= f.relationship.id
    IN  {pathFromState(requirement, Append(state.edges, First(v)), v) :
            v \in {w \in ResultNodes : /\ KeyOf[w] = requirement.key
                                       /\ ValidationEdges(twin, state, w) # {}}}

Found(paths, reason) == [paths |-> paths, reason |-> reason]

\* A requirement for validation whose implementation path can be trusted.
validationOutcome(twin, requirement, state) ==
    LET implementation == {pathFromState(requirement, state.edges, NoResult)}
        linked         == ValidationPaths(twin, requirement, state)
    IN  IF \A v \in ResultNodes : KeyOf[v] # requirement.key
        THEN Found(implementation, "REQUIRED_VALIDATION_RESULT_ABSENT")
        ELSE IF linked = {}
        THEN Found(implementation, "REQUIRED_VALIDATION_PATH_ABSENT")
        ELSE IF \A p \in linked : pathUsesUnavailableSupport(twin, p)
        THEN Found(linked, "IMPLEMENTATION_SUPPORT_UNAVAILABLE")
        ELSE Found(linked, "NONE")

\* One turn of the loop over the requirements.
requirementOutcome(in, requirement) ==
    LET states == {s \in canonicalPathsFrom(in.twin, requirement.root) :
                       s.node = requirement.asset}
        state          == CHOOSE s \in states : TRUE
        implementation == pathFromState(requirement, state.edges, NoResult)
    IN  IF requirement.asset \notin AssetNodes
        THEN Found({}, "CRITICAL_IMPLEMENTATION_ASSET_ABSENT")
        ELSE IF states = {}
        THEN Found({}, "CRITICAL_IMPLEMENTATION_PATH_ABSENT")
        ELSE IF ~ in.inferred \/ pathUsesUnavailableSupport(in.twin, implementation)
        THEN Found({implementation}, "IMPLEMENTATION_SUPPORT_UNAVAILABLE")
        ELSE IF requirement.kind = "IMPLEMENTATION"
        THEN Found({implementation}, "NONE")
        ELSE validationOutcome(in.twin, requirement, state)

-----------------------------------------------------------------------------
(***************************************************************************)
(* The whole analysis.  An id is a word over the places of its characters  *)
(* in the collation of en-US.  Of those, the model tells apart a hyphen,   *)
(* the colon, the letters before and after the "s" of "sha256:", and that  *)
(* word itself, with which every digest begins.                            *)
(***************************************************************************)
Hyphen == 1
Colon  == 2
Early  == 3
Digest == 4
Late   == 5

\* localeCompare of two words is negative.
Precedes(one, two) ==
    \/ one # two /\ IsPrefix(one, two)
    \/ \E i \in DOMAIN one \cap DOMAIN two :
          one[i] < two[i] /\ SubSeq(one, 1, i - 1) = SubSeq(two, 1, i - 1)

\* What an entry of pathOrder, or of findingOrder, begins with.
OrderEntry(id) == id \o <<Colon, Digest>>

LogicalKey(requirement) ==
    [requirement EXCEPT !.id = <<>>]

\* The declarations are accepted: roots that no model suggested, and neither an
\* id nor an obligation twice.  (Else IMPACT_REQUIREMENT_INVALID.)
DeclarationsAccepted(in) ==
    /\ \A r \in in.requirements :
          r.root \in (ClaimNodes \cup AssetNodes) \ in.twin.advisory.nodes
    /\ \A r, s \in in.requirements :
          r.id = s.id \/ LogicalKey(r) = LogicalKey(s) => r = s

\* Each step leaves the node the one before it reached, from the root to the
\* asset or to the terminal result, within the depth.
PathIntact(path) ==
    LET steps == path.steps
        node[i \in 0 .. Len(steps)] == IF i = 0 THEN path.root ELSE steps[i].to
    IN  /\ Len(steps) <= MaximumDepth
        /\ \A i \in DOMAIN steps : steps[i].from = node[i - 1]
        /\ node[Len(steps)] =
              IF path.key.terminal = NoResult THEN path.asset ELSE path.key.terminal

\* orderedUnique: the entries, which follow the order of the ids, are in order.
EntriesInOrder(ids) ==
    \A i, j \in ids : Precedes(i, j) => Precedes(OrderEntry(i), OrderEntry(j))

\* assertImpactAnalysisResultInvariant, which every result must pass.
resultIntact(in, outcome) ==
    LET paths == UNION {outcome[r].paths : r \in in.requirements} IN
    /\ \A p \in paths : PathIntact(p)
    /\ EntriesInOrder({p.key.requirement : p \in paths})
    /\ EntriesInOrder({r.id : r \in {s \in in.requirements : outcome[s].reason # "NONE"}})

\* The outcome of each requirement, or the error.
analyzeChangeImpact(in) ==
    LET outcome == [r \in in.requirements |-> requirementOutcome(in, r)]
    IN  IF resultIntact(in, outcome)
        THEN [error |-> "NONE", outcome |-> outcome]
        ELSE [error |-> "IMPACT_INTEGRITY_INVALID"]

\* An input in which the Twin is accepted, with what a requirement can ask for.
Presented(in) ==
    /\ TwinAccepted(in.twin)
    /\ \A r \in in.requirements : r.kind \in {"IMPLEMENTATION", "VALIDATION"} /\ r.id \in Seq(Nat)

ImpactInit == input \in {in \in ImpactInputs : Presented(in)}

-----------------------------------------------------------------------------
(***************************************************************************)
(* Reference definitions: all walks, however they are found.               *)
(***************************************************************************)
EndOf(walk, root) == IF walk = <<>> THEN root ELSE Last(walk).to

\* Some walks, each one edge longer.
OneLonger(twin, root, walks) ==
    UNION {{Append(w, e) : e \in {f \in Edges(twin) : f.from = EndOf(w, root)}} : w \in walks}

\* The walks of at most each number of edges from a root.
WalksUpTo(twin, root) ==
    LET upTo[n \in 0 .. MaximumDepth] ==
            IF n = 0 THEN {<<>>}
            ELSE LET shorter == upTo[n - 1] IN shorter \cup OneLonger(twin, root, shorter)
    IN  upTo

Walks(twin, root) == WalksUpTo(twin, root)[MaximumDepth]

\* Of two walks, the one to be preferred: the shorter, or else the one that at
\* the first difference takes the edge that is tried first.
Preferred(v, w) ==
    \/ Len(v) < Len(w)
    \/ /\ Len(v) = Len(w)
       /\ \E i \in DOMAIN v :
             /\ SubSeq(v, 1, i - 1) = SubSeq(w, 1, i - 1)
             /\ \/ Rank(v[i].relationship.type) < Rank(w[i].relationship.type)
                \/ /\ v[i].relationship.type = w[i].relationship.type
                   /\ v[i].relationship.id < w[i].relationship.id

\* What a requirement asks for: the ways to its asset, or on from it to a result.
Ways(in, requirement) ==
    {w \in Walks(in.twin, requirement.root) :
        LET end == EndOf(w, requirement.root) IN
        IF requirement.kind = "IMPLEMENTATION"
        THEN end = requirement.asset /\ end \in AssetNodes
        ELSE end \in ResultNodes /\ KeyOf[end] = requirement.key
                 /\ Last(w).from = requirement.asset}

Trusted(in, path) == in.inferred /\ ~ pathUsesUnavailableSupport(in.twin, path)

Nested(one, two) == one # two /\ IsPrefix(one, two)

-----------------------------------------------------------------------------
(***************************************************************************)
(* Properties.                                                             *)
(***************************************************************************)
\* The search finds a node exactly when some walk within the depth does, cycles
\* or not, and keeps of these walks the one canonical shortest path, which no
\* order of the rows or of the queue may sway (docs/product/TRUST_MODEL.md:124).
PathsAreCanonical ==
    \A r \in input.requirements : DeclarationsAccepted(input) =>
        LET walks  == Walks(input.twin, r.root)
            states == canonicalPathsFrom(input.twin, r.root)
        IN  \A node \in TwinNodes :
                LET ways == {w \in walks : EndOf(w, r.root) = node} IN
                {s.edges : s \in {t \in states : t.node = node}}
                    = {w \in ways : \A v \in ways \ {w} : Preferred(w, v)}

\* Declarations whose ids do not nest are answered, never with an integrity
\* error of the analysis itself; and a requirement is left without a gap only
\* for a path that is trusted in every member and reaches what it asks for,
\* with a gap of absence only where no walk whatever does.
GapsAreExact ==
    /\ DeclarationsAccepted(input)
    /\ \A r, s \in input.requirements : ~ Nested(r.id, s.id)
    => LET answer == analyzeChangeImpact(input) IN
       /\ answer.error = "NONE"
       /\ \A r \in input.requirements :
             LET found == answer.outcome[r] IN
             /\ found.reason = "NONE" <=>
                   \E p \in found.paths : p.steps \in Ways(input, r) /\ Trusted(input, p)
             /\ found.reason \notin {"NONE", "IMPLEMENTATION_SUPPORT_UNAVAILABLE"}
                   => Ways(input, r) = {}

\* The paths of an analysis, and the gaps it reads off them.
AnalysisIsExact == PathsAreCanonical /\ GapsAreExact
=============================================================================
