---------------------------- MODULE TwinProjection ----------------------------
(***************************************************************************)
(* What projectTwinRevision makes of the sources of a Mission: a node for  *)
(* each source, the relationships between them, which member depends on    *)
(* which, the revision of every member, and which members of the previous  *)
(* revision a change invalidates.  The sources change between revisions as *)
(* the services change them; ActiveTwin has how they are read and how      *)
(* revisions are stored.                                                   *)
(*                                                                         *)
(* A digest stands for what it is computed from.  A member is a tuple: its *)
(* kind, its type and what its deterministic id is made of.                *)
(***************************************************************************)
EXTENDS Integers, Sequences, FiniteSets

CONSTANTS
    Sources,        \* evidence sources
    SourceOf,       \* claim or validation result -> its evidence source
    Corrections,    \* links: [successor, predecessor]
    SnapshotOf,     \* validation result -> its snapshot
    KeyOfResult,    \* validation result -> its validationKey
    GitSnapshots,
    AssetMaps,      \* what runs of the code map find: [assets, edges]
    Declarations,   \* semantic relationships: [key, type, from, to]
    StoredBefore,   \* what the first projection may find stored
    MaxTwins, MaxChanges   \* bounds on the revisions and on the changes

VARIABLES
    stored,     \* the sources of the Mission as they are stored
    twinChain,  \* its projections, by revision
    changes     \* how often the sources changed

projectionVars == <<stored, twinChain, changes>>

Results == DOMAIN SnapshotOf
AssertedClaims == DOMAIN SourceOf \ Results

NoMap == [snapshot |-> "", assets |-> <<>>, edges |-> {}]

\* A Mission of which nothing is stored yet.  results has the latest result of
\* each key, map the latest code map.
NothingStored ==
    [project |-> "ACTIVE", mission |-> "CURRENT", evidence |-> {}, claims |-> {},
     snapshots |-> {}, results |-> {}, replaced |-> {}, mapped |-> {}, map |-> NoMap]

MapOf(snapshot, found) == [snapshot |-> snapshot, assets |-> found.assets, edges |-> found.edges]

\* What may be stored: what a row refers to is there before it (the foreign
\* keys, and what validateInput asks of the rows).
Storable ==
    [project : {"ACTIVE", "ARCHIVED"}, mission : {"CURRENT", "ARCHIVED"},
     evidence : SUBSET Sources, claims : SUBSET AssertedClaims,
     snapshots : SUBSET GitSnapshots, results : SUBSET Results, replaced : SUBSET Results,
     mapped : SUBSET GitSnapshots,
     map : {NoMap} \cup {MapOf(g, found) : g \in GitSnapshots, found \in AssetMaps}]

RefersToStored(s) ==
    /\ \A c \in s.claims : SourceOf[c] \in s.evidence
    /\ \A l \in Corrections : l.successor \in s.claims => l.predecessor \in s.claims
    /\ \A v \in s.results : SourceOf[v] \in s.evidence /\ SnapshotOf[v] \in s.snapshots
    /\ s.mapped \subseteq s.snapshots
    /\ s.map # NoMap => s.map.snapshot \in s.mapped

ASSUME StoredBeforeAssumption == \A s \in StoredBefore : s \in Storable /\ RefersToStored(s)

ASSUME ResultsHaveSources == Results \subseteq DOMAIN SourceOf

\* assertCodeMapProjectionRevisionInvariant: an edge has an id of its own and
\* lies between assets of its map.
ASSUME AssetMapsAssumption ==
    \A found \in AssetMaps :
        /\ \A e \in found.edges : {e.from, e.to} \subseteq DOMAIN found.assets
        /\ \A e, f \in found.edges : e.id = f.id => e = f

\* projectSourceDescriptors: the node of a source, and its digest.
Node(type, id) == <<"NODE", type, id>>

ProjectNode == Node("Project", "project")
MissionNode == Node("ChangeMission", "mission")
Nodes(type, ids) == {Node(type, id) : id \in ids}

SourceNodes(s) ==
    {ProjectNode, MissionNode}
    \cup Nodes("EvidenceSource", s.evidence)
    \cup Nodes("Claim", s.claims)
    \cup Nodes("GitSnapshot", s.snapshots)
    \cup Nodes("ValidationResult", s.results)
    \cup Nodes("SoftwareAsset", DOMAIN s.map.assets)

\* Rows never change, but for the Project and the Mission; an asset is
\* digested anew by every run of the code map.
SourceDigest(s, n) ==
    CASE n = ProjectNode -> s.project
      [] n = MissionNode -> s.mission
      [] n[2] = "SoftwareAsset" -> s.map.assets[n[3]]
      [] OTHER -> 0

-----------------------------------------------------------------------------
(***************************************************************************)
(* Nodes and relationships.                                                *)
(***************************************************************************)
\* The revision of a member: 1, that of its predecessor or the one after it.
\* before is what the previous projection has of the members of this kind.
Numbered(before, m, digest) ==
    IF m \notin DOMAIN before THEN 1
    ELSE IF before[m].digest = digest THEN before[m].revision
         ELSE before[m].revision + 1

buildNodes(s, before) ==
    [n \in SourceNodes(s) |->
        [revision |-> Numbered(before, n, SourceDigest(s, n)), digest |-> SourceDigest(s, n)]]

Relation(type, key, from, to, attribution) ==
    [id |-> <<"RELATIONSHIP", type, key>>, from |-> from, to |-> to, attribution |-> attribution]

\* A relationship that follows from the rows: its key is made of their ids, its
\* attribution of their times, which do not change without their digests.
Derived(type, from, to) ==
    Relation(type, <<from[2], from[3], to[2], to[3]>>, from, to, "DERIVED")

ScopeRelations(s) ==
    {Derived("SCOPED_TO", MissionNode, ProjectNode)}
    \cup {Derived("SCOPED_TO", n, MissionNode) :
            n \in {m \in SourceNodes(s) :
                    m[2] \in {"EvidenceSource", "GitSnapshot", "Claim", "ValidationResult"}}}

ClaimRelations(s) ==
    {Derived("EXTRACTED_FROM", Node("Claim", c), Node("EvidenceSource", SourceOf[c])) :
        c \in s.claims}
    \cup {Derived("ASSERTS", Node("EvidenceSource", SourceOf[c]), Node("Claim", c)) :
            c \in s.claims}

ResultRelations(s) ==
    {Derived("EXTRACTED_FROM", Node("ValidationResult", v), Node("EvidenceSource", SourceOf[v])) :
        v \in s.results}
    \cup {Derived("BOUND_TO", Node("ValidationResult", v), Node("GitSnapshot", SnapshotOf[v])) :
            v \in s.results}

LinkRelations(s) ==
    {Relation("SUPERSEDES", <<"supersession", l.successor, l.predecessor>>,
              Node("Claim", l.successor), Node("Claim", l.predecessor), "LINK") :
        l \in {k \in Corrections : k.successor \in s.claims}}

\* relationshipType of an edge of the code map.
EdgeType(kind) ==
    CASE kind \in {"IMPORTS", "REEXPORTS"} -> "DEPENDS_ON"
      [] kind = "TEST_IMPORTS" -> "CONCERNS"
      [] OTHER -> "EXTRACTED_FROM"

\* The code map attributes its relationships to the time of its run, for which
\* its snapshot stands.
AssetRelations(s) ==
    {Relation("SCOPED_TO", <<"code-asset", a, "mission">>, Node("SoftwareAsset", a),
              MissionNode, s.map.snapshot) : a \in DOMAIN s.map.assets}
    \cup {Relation("BOUND_TO", <<"code-asset", a, "snapshot", s.map.snapshot>>,
                   Node("SoftwareAsset", a), Node("GitSnapshot", s.map.snapshot),
                   s.map.snapshot) : a \in DOMAIN s.map.assets}

EdgeRelations(s) ==
    {Relation(EdgeType(e.kind), <<"code-edge", e.id>>, Node("SoftwareAsset", e.from),
              Node("SoftwareAsset", e.to), s.map.snapshot) : e \in s.map.edges}

SemanticRelations(declared) ==
    {Relation(d.type, <<"semantic", d.key>>, d.from, d.to, "DECLARED") : d \in declared}

RowRelations(s) ==
    ScopeRelations(s) \cup ClaimRelations(s) \cup ResultRelations(s) \cup LinkRelations(s)

MapRelations(s) == AssetRelations(s) \cup EdgeRelations(s)

Relations(s, declared) == RowRelations(s) \cup MapRelations(s) \cup SemanticRelations(declared)

RelationDigest(r, nodes) == <<r.from, nodes[r.from], r.to, nodes[r.to], r.attribution>>

buildRelationships(relations, nodes, before) ==
    [id \in {r.id : r \in relations} |->
        LET r == CHOOSE q \in relations : q.id = id IN
        [from |-> r.from, to |-> r.to, attribution |-> r.attribution,
         digest |-> RelationDigest(r, nodes),
         revision |-> Numbered(before, id, RelationDigest(r, nodes))]]

-----------------------------------------------------------------------------
(***************************************************************************)
(* Dependencies and invalidations.                                         *)
(***************************************************************************)
Binding(dependency, dependent) == [dependency |-> dependency, dependent |-> dependent]

RowBindings(s) ==
    {Binding(ProjectNode, MissionNode)}
    \cup {Binding(MissionNode, n) : n \in Nodes("EvidenceSource", s.evidence)
                \cup Nodes("GitSnapshot", s.snapshots)
                \cup Nodes("SoftwareAsset", DOMAIN s.map.assets)}
    \cup {Binding(Node("EvidenceSource", SourceOf[c]), Node("Claim", c)) : c \in s.claims}
    \cup {Binding(Node("EvidenceSource", SourceOf[v]), Node("ValidationResult", v)) : v \in s.results}
    \cup {Binding(Node("GitSnapshot", SnapshotOf[v]), Node("ValidationResult", v)) : v \in s.results}
    \cup {Binding(Node("GitSnapshot", s.map.snapshot), Node("SoftwareAsset", a)) :
            a \in DOMAIN s.map.assets}

\* A relationship depends on both of its ends.
Bindings(s, relations) ==
    RowBindings(s)
    \cup {Binding(r.from, r.id) : r \in relations}
    \cup {Binding(r.to, r.id) : r \in relations}

\* memberMap: what a projection has of a member.
Members(twin) == DOMAIN twin.nodes \cup DOMAIN twin.relationships

Reference(twin, m) ==
    IF m \in DOMAIN twin.nodes THEN twin.nodes[m]
    ELSE [revision |-> twin.relationships[m].revision, digest |-> twin.relationships[m].digest]

DependentsOf(twin, found) ==
    {b.dependent : b \in {c \in twin.bindings : c.dependency \in found}}

\* The queue of exactInvalidations: what is found is followed until nothing is
\* new; a member is never its own dependent.
Reached(twin, m) ==
    LET reach[found \in SUBSET Members(twin)] ==
            IF DependentsOf(twin, found) \subseteq found THEN found
            ELSE reach[found \cup DependentsOf(twin, found)]
    IN  reach[DependentsOf(twin, {m})]

Unchanged(before, after, m) ==
    m \in Members(after) /\ Reference(after, m).digest = Reference(before, m).digest

\* Mutant: only the direct dependents.
exactInvalidations_Direct(before, after) ==
    {[changeType |-> IF m \in Members(after) THEN "CHANGED" ELSE "REMOVED",
      dependency |-> m, dependents |-> DependentsOf(before, {m})] :
        m \in {n \in Members(before) :
                ~ Unchanged(before, after, n) /\ Reached(before, n) # {}}}

exactInvalidations(before, after) ==
    {[changeType |-> IF m \in Members(after) THEN "CHANGED" ELSE "REMOVED",
      dependency |-> m, dependents |-> Reached(before, m)] :
        m \in {n \in Members(before) :
                ~ Unchanged(before, after, n) /\ Reached(before, n) # {}}}

-----------------------------------------------------------------------------
(***************************************************************************)
(* A projection.                                                           *)
(***************************************************************************)
\* validateInput, of the declarations: the shape of their ends.
ShapeOK(d) ==
    LET from == d.from[2] to == d.to[2] IN
    CASE d.type = "AFFECTS"    -> from \in {"Claim", "SoftwareAsset"} /\ to = "SoftwareAsset"
      [] d.type = "DEPENDS_ON" -> from = "SoftwareAsset" /\ to = "SoftwareAsset"
      [] d.type = "IMPLEMENTS" -> {from, to} = {"Claim", "SoftwareAsset"}
      [] OTHER                 -> from = "SoftwareAsset" /\ to = "ValidationResult"

\* ... and that no two have one key, or one type and the same ends; requireNode
\* finds both ends among the sources.
ValidDeclarations(s, declared) ==
    /\ \A d \in declared : ShapeOK(d) /\ {d.from, d.to} \subseteq SourceNodes(s)
    /\ \A d, e \in declared :
          d.key = e.key \/ <<d.type, d.from, d.to>> = <<e.type, e.from, e.to>> => d = e

\* The inputDigest; the code map stands for its projectionDigest.
InputDigest(s, declared) ==
    [sources |-> [n \in SourceNodes(s) |-> SourceDigest(s, n)],
     supersessions |-> {l \in Corrections : l.successor \in s.claims},
     codeMap |-> s.map, declared |-> declared]

NoTwin == [nodes |-> <<>>, relationships |-> <<>>]

\* projectTwinRevision, of an input that is not its predecessor's.
Projected(s, declared, before) ==
    LET nodes == buildNodes(s, before.nodes)
        relations == Relations(s, declared)
        built == [nodes |-> nodes,
                  relationships |-> buildRelationships(relations, nodes, before.relationships)]
    IN  [input |-> InputDigest(s, declared), nodes |-> built.nodes,
         relationships |-> built.relationships, bindings |-> Bindings(s, relations),
         invalidations |-> IF before = NoTwin THEN {} ELSE exactInvalidations(before, built)]

Predecessor == IF twinChain = <<>> THEN NoTwin ELSE twinChain[Len(twinChain)]

IsReplay(declared) ==
    twinChain # <<>> /\ Predecessor.input = InputDigest(stored, declared)

projectTwinRevision(declared) ==
    /\ Len(twinChain) < MaxTwins
    /\ ValidDeclarations(stored, declared)
    /\ ~ IsReplay(declared)
    /\ twinChain' = Append(twinChain, Projected(stored, declared, Predecessor))
    /\ UNCHANGED <<stored, changes>>

-----------------------------------------------------------------------------
(***************************************************************************)
(* The sources change.                                                     *)
(***************************************************************************)
Change(sources) ==
    /\ changes < MaxChanges
    /\ changes' = changes + 1
    /\ stored' = sources
    /\ UNCHANGED twinChain

Open == stored.mission = "CURRENT"

ArchiveMission ==
    /\ Open
    /\ Change([stored EXCEPT !.mission = "ARCHIVED"])

\* Not under its current Mission.
ArchiveProject ==
    /\ stored.project = "ACTIVE" /\ ~ Open
    /\ Change([stored EXCEPT !.project = "ARCHIVED"])

ImportSource(e) ==
    /\ Open
    /\ e \notin stored.evidence
    /\ Change([stored EXCEPT !.evidence = @ \cup {e}])

\* A claim, with its link if it corrects one.
ImportClaim(c) ==
    /\ Open
    /\ c \notin stored.claims
    /\ SourceOf[c] \in stored.evidence
    /\ \A l \in Corrections : l.successor = c => l.predecessor \in stored.claims
    /\ Change([stored EXCEPT !.claims = @ \cup {c}])

Capture(g) ==
    /\ Open
    /\ g \notin stored.snapshots
    /\ Change([stored EXCEPT !.snapshots = @ \cup {g}])

\* A result takes the place of the one with its key.
RecordResult(v) ==
    LET former == {w \in stored.results : KeyOfResult[w] = KeyOfResult[v]} IN
    /\ v \notin stored.results \cup stored.replaced
    /\ SourceOf[v] \in stored.evidence
    /\ SnapshotOf[v] \in stored.snapshots
    /\ Change([stored EXCEPT !.results = (@ \ former) \cup {v}, !.replaced = @ \cup former])

\* A run of the code map binds what it found to the snapshot it captured.
RunCodeMap(g, found) ==
    /\ g \in stored.snapshots \ stored.mapped
    /\ Change([stored EXCEPT
           !.mapped = @ \cup {g},
           !.map = MapOf(g, found)])

ProjectionInit ==
    /\ stored \in StoredBefore
    /\ twinChain = <<>>
    /\ changes = 0

ChangesNext ==
    \/ ArchiveMission
    \/ ArchiveProject
    \/ \E e \in Sources : ImportSource(e)
    \/ \E c \in AssertedClaims : ImportClaim(c)
    \/ \E g \in GitSnapshots : Capture(g)
    \/ \E v \in Results : RecordResult(v)
    \/ \E g \in GitSnapshots, found \in AssetMaps : RunCodeMap(g, found)

\* Only the correction of the demo passes declarations.
ProjectionNext == ChangesNext \/ \E declared \in SUBSET Declarations : projectTwinRevision(declared)

ProjectionSpec == ProjectionInit /\ [][ProjectionNext]_projectionVars

-----------------------------------------------------------------------------
(***************************************************************************)
(* Properties.                                                             *)
(***************************************************************************)
\* The sources that changed, or are gone, from one input to the next.
Causes(before, after) ==
    {n \in DOMAIN before : n \notin DOMAIN after \/ after[n] # before[n]}

\* Whom a source concerns: everything is scoped to the Mission, and it to the
\* Project; and the relationships of all these.
ConcernedNodes(twin, n) ==
    CASE n = ProjectNode -> DOMAIN twin.nodes \ {ProjectNode}
      [] n = MissionNode -> DOMAIN twin.nodes \ {ProjectNode, MissionNode}
      [] OTHER           -> {}

Concerned(twin, n) ==
    LET nodes == ConcernedNodes(twin, n) IN
    nodes \cup {r \in DOMAIN twin.relationships :
                  {twin.relationships[r].from, twin.relationships[r].to} \cap (nodes \cup {n}) # {}}

\* A relationship of the former code map, or a declaration that is not made
\* again as it was.
Replaced(before, after, m) ==
    /\ m \in DOMAIN before.relationships
    /\ \/ m[3][1] \in {"code-asset", "code-edge"} /\ before.input.codeMap # after.input.codeMap
       \/ /\ m[3][1] = "semantic"
          /\ \A d \in before.input.declared :
                d.type = m[2] /\ d.key = m[3][2] => d \notin after.input.declared

\* A revision lists exactly the causes of its predecessor's end, each with all
\* that it concerned, though by bindings of bindings (docs/architecture/
\* DOMAIN_MODEL.md:273, docs/product/TRUST_MODEL.md:201); only the Project, the
\* Mission, an asset and a replaced result are ever a cause.  And no member
\* has another revision, or is gone, that is neither listed nor made anew by
\* each run of the code map or by each declaration.
InvalidationsAreExact ==
    \A i \in 2 .. Len(twinChain) :
        LET before == twinChain[i - 1]
            after  == twinChain[i]
            causes == Causes(before.input.sources, after.input.sources)
            listed == causes \cup UNION {x.dependents : x \in after.invalidations}
        IN  /\ after.invalidations =
                   {[changeType |-> IF n \in DOMAIN after.nodes THEN "CHANGED" ELSE "REMOVED",
                     dependency |-> n, dependents |-> Concerned(before, n)] : n \in causes}
            /\ \A n \in causes :
                   n[2] \notin {"EvidenceSource", "Claim", "GitSnapshot"}
            /\ \A m \in Members(before) \ listed :
                   \/ m \in Members(after) /\ Reference(before, m).revision = Reference(after, m).revision
                   \/ Replaced(before, after, m)

\* What a member shows: its source, or its ends, theirs and its attribution.
Contents(twin, m) ==
    IF m \in DOMAIN twin.nodes THEN twin.input.sources[m]
    ELSE LET r == twin.relationships[m] IN
         <<r.from, twin.input.sources[r.from], r.to, twin.input.sources[r.to], r.attribution>>

Throughout(i, j) == {m \in Members(twinChain[i]) : \A k \in i .. j : m \in Members(twinChain[k])}

\* Whoever kept a member's id and revision kept its contents: as long as the
\* member is there its revision names them, those of a relationship's ends
\* among them, and only a change of them gives it another.
RevisionsNameContents ==
    \A i, j \in DOMAIN twinChain : i < j =>
        \A m \in Throughout(i, j) :
            LET same == Contents(twinChain[i], m) = Contents(twinChain[j], m)
                kept == Reference(twinChain[i], m).revision = Reference(twinChain[j], m).revision
            IN  (kept => same) /\ (j = i + 1 /\ same => kept)

\* What a change of the sources makes stale is shown twice, by what a revision
\* lists and by how it numbers its members, and both are exact.
RevisionsAreHonest == InvalidationsAreExact /\ RevisionsNameContents

=============================================================================
