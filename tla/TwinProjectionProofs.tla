------------------------ MODULE TwinProjectionProofs ------------------------
(***************************************************************************)
(* Proofs about TwinProjection, for any sources, any code maps, any        *)
(* declarations and any number of revisions and changes.  What a revision  *)
(* lists follows from its predecessor alone and is proved of any two       *)
(* projections of which the second's sources came after the first's; what  *)
(* a member's revision names is an invariant of the whole chain.           *)
(***************************************************************************)
EXTENDS TwinProjection, SequenceTheorems, TLAPS

NodeTypes ==
    {"Project", "ChangeMission", "EvidenceSource", "Claim", "GitSnapshot", "ValidationResult",
     "SoftwareAsset"}

IsNode(n) == n[1] = "NODE" /\ n = Node(n[2], n[3]) /\ n[2] \in NodeTypes

-----------------------------------------------------------------------------
(***************************************************************************)
(* The nodes.                                                              *)
(***************************************************************************)
LEMMA NodeParts ==
    ASSUME NEW type, NEW id
    PROVE  /\ Node(type, id)[1] = "NODE"
           /\ Node(type, id)[2] = type
           /\ Node(type, id)[3] = id
  BY DEF Node

\* The nodes of the sources, by type.
LEMMA SourceNodesAre ==
    ASSUME NEW s
    PROVE  /\ \A n \in SourceNodes(s) : IsNode(n)
           /\ ProjectNode \in SourceNodes(s) /\ MissionNode \in SourceNodes(s)
           /\ \A e : Node("EvidenceSource", e) \in SourceNodes(s) <=> e \in s.evidence
           /\ \A c : Node("Claim", c) \in SourceNodes(s) <=> c \in s.claims
           /\ \A g : Node("GitSnapshot", g) \in SourceNodes(s) <=> g \in s.snapshots
           /\ \A v : Node("ValidationResult", v) \in SourceNodes(s) <=> v \in s.results
           /\ \A a : Node("SoftwareAsset", a) \in SourceNodes(s) <=> a \in DOMAIN s.map.assets
           /\ \A n \in SourceNodes(s) :
                 /\ n[2] = "Project" => n = ProjectNode
                 /\ n[2] = "ChangeMission" => n = MissionNode
  <1>1. \A n \in SourceNodes(s) :
           \/ n = ProjectNode
           \/ n = MissionNode
           \/ \E e \in s.evidence : n = Node("EvidenceSource", e)
           \/ \E c \in s.claims : n = Node("Claim", c)
           \/ \E g \in s.snapshots : n = Node("GitSnapshot", g)
           \/ \E v \in s.results : n = Node("ValidationResult", v)
           \/ \E a \in DOMAIN s.map.assets : n = Node("SoftwareAsset", a)
    BY DEF SourceNodes, Nodes
  <1>2. /\ ProjectNode = Node("Project", "project")
        /\ MissionNode = Node("ChangeMission", "mission")
    BY DEF ProjectNode, MissionNode
  <1>3. \A n \in SourceNodes(s) : IsNode(n)
    BY <1>1, <1>2, NodeParts DEF IsNode, NodeTypes
  <1>4. /\ ProjectNode \in SourceNodes(s) /\ MissionNode \in SourceNodes(s)
        /\ \A e \in s.evidence : Node("EvidenceSource", e) \in SourceNodes(s)
        /\ \A c \in s.claims : Node("Claim", c) \in SourceNodes(s)
        /\ \A g \in s.snapshots : Node("GitSnapshot", g) \in SourceNodes(s)
        /\ \A v \in s.results : Node("ValidationResult", v) \in SourceNodes(s)
        /\ \A a \in DOMAIN s.map.assets : Node("SoftwareAsset", a) \in SourceNodes(s)
    BY DEF SourceNodes, Nodes
  <1>5. \A n \in SourceNodes(s) :
           /\ n[2] = "EvidenceSource" => n[3] \in s.evidence
           /\ n[2] = "Claim" => n[3] \in s.claims
           /\ n[2] = "GitSnapshot" => n[3] \in s.snapshots
           /\ n[2] = "ValidationResult" => n[3] \in s.results
           /\ n[2] = "SoftwareAsset" => n[3] \in DOMAIN s.map.assets
           /\ n[2] = "Project" => n = ProjectNode
           /\ n[2] = "ChangeMission" => n = MissionNode
    BY <1>1, <1>2, NodeParts
  <1> QED
    BY <1>3, <1>4, <1>5, NodeParts

\* The digest of a row that never changes.
LEMMA FixedDigests ==
    ASSUME NEW s, NEW n \in SourceNodes(s),
           n[2] \in {"EvidenceSource", "Claim", "GitSnapshot", "ValidationResult"}
    PROVE  SourceDigest(s, n) = 0
  <1>1. n # ProjectNode /\ n # MissionNode
    BY NodeParts DEF ProjectNode, MissionNode
  <1> QED
    BY <1>1 DEF SourceDigest

-----------------------------------------------------------------------------
(***************************************************************************)
(* The relationships.  Every one lies between nodes of the sources, and    *)
(* its id names it: what it is can be read from the id and the sources.    *)
(***************************************************************************)
\* The sources of an input that validateInput accepts.
Acceptable(s, declared) ==
    /\ s \in Storable /\ RefersToStored(s)
    /\ ValidDeclarations(s, declared)

LEMMA MapIsWhole ==
    ASSUME NEW s \in Storable
    PROVE  /\ \A e \in s.map.edges : {e.from, e.to} \subseteq DOMAIN s.map.assets
           /\ \A e, f \in s.map.edges : e.id = f.id => e = f
           /\ s.map = NoMap => DOMAIN s.map.assets = {}
  <1>1. CASE s.map = NoMap
    <2>1. NoMap.assets = <<>> /\ NoMap.edges = {}
      BY DEF NoMap
    <2>2. DOMAIN <<>> = {}
      OBVIOUS
    <2> QED
      BY <1>1, <2>1, <2>2
  <1>2. CASE s.map # NoMap
    <2>1. PICK g \in GitSnapshots, found \in AssetMaps : s.map = MapOf(g, found)
      BY <1>2 DEF Storable
    <2>2. s.map.assets = found.assets /\ s.map.edges = found.edges
      BY <2>1 DEF MapOf
    <2> QED
      BY <1>2, <2>2, AssetMapsAssumption
  <1> QED
    BY <1>1, <1>2

\* A relationship that follows from the rows, but for the links.
IsDerived(r, s) ==
    \E type \in {"SCOPED_TO", "EXTRACTED_FROM", "ASSERTS", "BOUND_TO"},
       from \in SourceNodes(s), to \in SourceNodes(s) : r = Derived(type, from, to)

LEMMA RowRelationsAre ==
    ASSUME NEW s \in Storable, RefersToStored(s), NEW r \in RowRelations(s)
    PROVE  IsDerived(r, s) \/ r \in LinkRelations(s)
  <1>1. CASE r \in ScopeRelations(s)
    BY <1>1, SourceNodesAre DEF IsDerived, ScopeRelations
  <1>2. CASE r \in ClaimRelations(s)
    <2>1. PICK c \in s.claims :
             \/ r = Derived("EXTRACTED_FROM", Node("Claim", c), Node("EvidenceSource", SourceOf[c]))
             \/ r = Derived("ASSERTS", Node("EvidenceSource", SourceOf[c]), Node("Claim", c))
      BY <1>2 DEF ClaimRelations
    <2>2. /\ Node("Claim", c) \in SourceNodes(s)
          /\ Node("EvidenceSource", SourceOf[c]) \in SourceNodes(s)
      BY SourceNodesAre DEF RefersToStored
    <2> QED
      BY <2>1, <2>2 DEF IsDerived
  <1>3. CASE r \in ResultRelations(s)
    <2>1. PICK v \in s.results :
             \/ r = Derived("EXTRACTED_FROM", Node("ValidationResult", v),
                            Node("EvidenceSource", SourceOf[v]))
             \/ r = Derived("BOUND_TO", Node("ValidationResult", v),
                            Node("GitSnapshot", SnapshotOf[v]))
      BY <1>3 DEF ResultRelations
    <2>2. /\ Node("ValidationResult", v) \in SourceNodes(s)
          /\ Node("EvidenceSource", SourceOf[v]) \in SourceNodes(s)
          /\ Node("GitSnapshot", SnapshotOf[v]) \in SourceNodes(s)
      BY SourceNodesAre DEF RefersToStored
    <2> QED
      BY <2>1, <2>2 DEF IsDerived
  <1> QED
    BY <1>1, <1>2, <1>3 DEF RowRelations

LEMMA RelationParts ==
    ASSUME NEW type, NEW key, NEW from, NEW to, NEW attribution
    PROVE  LET r == Relation(type, key, from, to, attribution) IN
           /\ r.id = <<"RELATIONSHIP", type, key>>
           /\ r.id[1] = "RELATIONSHIP" /\ r.id[2] = type /\ r.id[3] = key
           /\ r.from = from /\ r.to = to /\ r.attribution = attribution
  BY DEF Relation

LEMMA DerivedParts ==
    ASSUME NEW type, NEW from, NEW to, IsNode(from), IsNode(to)
    PROVE  LET r == Derived(type, from, to) IN
           /\ r.id[1] = "RELATIONSHIP" /\ r.id[2] = type
           /\ r.from = from /\ r.to = to /\ r.attribution = "DERIVED"
           /\ r.id[3][1] = from[2]
           /\ from = Node(r.id[3][1], r.id[3][2])
           /\ to = Node(r.id[3][3], r.id[3][4])
  BY RelationParts DEF Derived, IsNode

\* Both ends of a relationship are nodes of the sources, and its id is none.
LEMMA RelationEnds ==
    ASSUME NEW s, NEW declared, Acceptable(s, declared), NEW r \in Relations(s, declared)
    PROVE  /\ r.from \in SourceNodes(s)
           /\ r.to \in SourceNodes(s)
           /\ r.id[1] = "RELATIONSHIP"
  <1> USE SourceNodesAre DEF Acceptable
  <1>1. CASE IsDerived(r, s)
    BY <1>1, DerivedParts DEF IsDerived
  <1>2. CASE r \in LinkRelations(s)
    <2>1. PICK l \in Corrections :
             /\ l.successor \in s.claims
             /\ r = Relation("SUPERSEDES", <<"supersession", l.successor, l.predecessor>>,
                             Node("Claim", l.successor), Node("Claim", l.predecessor), "LINK")
      BY <1>2 DEF LinkRelations
    <2> QED
      BY <2>1, RelationParts DEF RefersToStored
  <1>3. CASE r \in AssetRelations(s)
    <2>1. PICK a \in DOMAIN s.map.assets :
             \/ r = Relation("SCOPED_TO", <<"code-asset", a, "mission">>, Node("SoftwareAsset", a),
                             MissionNode, s.map.snapshot)
             \/ r = Relation("BOUND_TO", <<"code-asset", a, "snapshot", s.map.snapshot>>,
                             Node("SoftwareAsset", a), Node("GitSnapshot", s.map.snapshot),
                             s.map.snapshot)
      BY <1>3 DEF AssetRelations
    <2>2. s.map.snapshot \in s.snapshots
      BY <2>1, MapIsWhole DEF RefersToStored
    <2> QED
      BY <2>1, <2>2, RelationParts
  <1>4. CASE r \in EdgeRelations(s)
    <2>1. PICK e \in s.map.edges :
             r = Relation(EdgeType(e.kind), <<"code-edge", e.id>>, Node("SoftwareAsset", e.from),
                          Node("SoftwareAsset", e.to), s.map.snapshot)
      BY <1>4 DEF EdgeRelations
    <2>2. e.from \in DOMAIN s.map.assets /\ e.to \in DOMAIN s.map.assets
      BY MapIsWhole
    <2> QED
      BY <2>1, <2>2, RelationParts
  <1>5. CASE r \in SemanticRelations(declared)
    <2>1. PICK d \in declared :
             r = Relation(d.type, <<"semantic", d.key>>, d.from, d.to, "DECLARED")
      BY <1>5 DEF SemanticRelations
    <2>2. d.from \in SourceNodes(s) /\ d.to \in SourceNodes(s)
      BY DEF ValidDeclarations
    <2> QED
      BY <2>1, <2>2, RelationParts
  <1> QED
    BY <1>1, <1>2, <1>3, <1>4, <1>5, RowRelationsAre DEF Relations, MapRelations

\* How the key of a relationship begins tells which kind it is of.
LEMMA RelationTags ==
    ASSUME NEW s, NEW declared, NEW r
    PROVE  /\ IsDerived(r, s) => r.id[3][1] \in NodeTypes
           /\ r \in LinkRelations(s) => r.id[3][1] = "supersession"
           /\ r \in AssetRelations(s) => r.id[3][1] = "code-asset"
           /\ r \in EdgeRelations(s) => r.id[3][1] = "code-edge"
           /\ r \in SemanticRelations(declared) => r.id[3][1] = "semantic"
  <1>1. IsDerived(r, s) => r.id[3][1] \in NodeTypes
    BY SourceNodesAre, DerivedParts DEF IsDerived, IsNode
  <1>2. r \in LinkRelations(s) => r.id[3][1] = "supersession"
    <2>1. ASSUME r \in LinkRelations(s)
          PROVE  \E l \in Corrections : r.id[3] = <<"supersession", l.successor, l.predecessor>>
      BY <2>1 DEF LinkRelations, Relation
    <2> QED
      BY <2>1
  <1>3. r \in AssetRelations(s) => r.id[3][1] = "code-asset"
    <2>1. ASSUME r \in AssetRelations(s)
          PROVE  \E a \in DOMAIN s.map.assets :
                    \/ r.id[3] = <<"code-asset", a, "mission">>
                    \/ r.id[3] = <<"code-asset", a, "snapshot", s.map.snapshot>>
      BY <2>1 DEF AssetRelations, Relation
    <2> QED
      BY <2>1
  <1>4. r \in EdgeRelations(s) => r.id[3][1] = "code-edge"
    <2>1. ASSUME r \in EdgeRelations(s)
          PROVE  \E e \in s.map.edges : r.id[3] = <<"code-edge", e.id>>
      BY <2>1 DEF EdgeRelations, Relation
    <2> QED
      BY <2>1
  <1>5. r \in SemanticRelations(declared) => r.id[3][1] = "semantic"
    <2>1. ASSUME r \in SemanticRelations(declared)
          PROVE  \E d \in declared : r.id[3] = <<"semantic", d.key>>
      BY <2>1 DEF SemanticRelations, Relation
    <2> QED
      BY <2>1
  <1> QED
    BY <1>1, <1>2, <1>3, <1>4, <1>5

\* No two relationships of a projection have one id.
LEMMA RelationsAreUnique ==
    ASSUME NEW s, NEW declared, Acceptable(s, declared),
           NEW r \in Relations(s, declared), NEW q \in Relations(s, declared), r.id = q.id
    PROVE  r = q
  <1> USE DEF Acceptable
  <1>1. /\ IsDerived(r, s) \/ r \in LinkRelations(s) \/ r \in AssetRelations(s)
              \/ r \in EdgeRelations(s) \/ r \in SemanticRelations(declared)
        /\ IsDerived(q, s) \/ q \in LinkRelations(s) \/ q \in AssetRelations(s)
              \/ q \in EdgeRelations(s) \/ q \in SemanticRelations(declared)
    BY RowRelationsAre DEF Relations, MapRelations
  <1>2. CASE IsDerived(r, s) /\ IsDerived(q, s)
    <2>1. PICK t \in {"SCOPED_TO", "EXTRACTED_FROM", "ASSERTS", "BOUND_TO"},
               from \in SourceNodes(s), to \in SourceNodes(s) : r = Derived(t, from, to)
      BY <1>2 DEF IsDerived
    <2>2. PICK u \in {"SCOPED_TO", "EXTRACTED_FROM", "ASSERTS", "BOUND_TO"},
               from2 \in SourceNodes(s), to2 \in SourceNodes(s) : q = Derived(u, from2, to2)
      BY <1>2 DEF IsDerived
    <2>3. IsNode(from) /\ IsNode(to) /\ IsNode(from2) /\ IsNode(to2)
      BY SourceNodesAre
    <2>4. t = u /\ from = from2 /\ to = to2
      BY <2>1, <2>2, <2>3, DerivedParts
    <2> QED
      BY <2>1, <2>2, <2>4
  <1>3. CASE r \in LinkRelations(s) /\ q \in LinkRelations(s)
    <2>1. PICK l \in Corrections :
             r = Relation("SUPERSEDES", <<"supersession", l.successor, l.predecessor>>,
                          Node("Claim", l.successor), Node("Claim", l.predecessor), "LINK")
      BY <1>3 DEF LinkRelations
    <2>2. PICK k \in Corrections :
             q = Relation("SUPERSEDES", <<"supersession", k.successor, k.predecessor>>,
                          Node("Claim", k.successor), Node("Claim", k.predecessor), "LINK")
      BY <1>3 DEF LinkRelations
    <2>3. r.id[3] = <<"supersession", l.successor, l.predecessor>>
      BY <2>1, RelationParts
    <2>4. q.id[3] = <<"supersession", k.successor, k.predecessor>>
      BY <2>2, RelationParts
    <2>5. l.successor = k.successor /\ l.predecessor = k.predecessor
      BY <2>3, <2>4
    <2> QED
      BY <2>1, <2>2, <2>5
  <1>4. CASE r \in AssetRelations(s) /\ q \in AssetRelations(s)
    <2> DEFINE Scoped(a) == Relation("SCOPED_TO", <<"code-asset", a, "mission">>,
                                     Node("SoftwareAsset", a), MissionNode, s.map.snapshot)
               Bound(a) == Relation("BOUND_TO", <<"code-asset", a, "snapshot", s.map.snapshot>>,
                                    Node("SoftwareAsset", a), Node("GitSnapshot", s.map.snapshot),
                                    s.map.snapshot)
    <2>1. PICK a \in DOMAIN s.map.assets : r = Scoped(a) \/ r = Bound(a)
      BY <1>4 DEF AssetRelations
    <2>2. PICK b \in DOMAIN s.map.assets : q = Scoped(b) \/ q = Bound(b)
      BY <1>4 DEF AssetRelations
    <2>3. \A x : /\ Scoped(x).id[2] = "SCOPED_TO" /\ Scoped(x).id[3][2] = x
                 /\ Bound(x).id[2] = "BOUND_TO" /\ Bound(x).id[3][2] = x
      BY RelationParts
    <2> HIDE DEF Scoped, Bound
    <2> QED
      BY <2>1, <2>2, <2>3
  <1>5. CASE r \in EdgeRelations(s) /\ q \in EdgeRelations(s)
    <2>1. PICK e \in s.map.edges :
             r = Relation(EdgeType(e.kind), <<"code-edge", e.id>>, Node("SoftwareAsset", e.from),
                          Node("SoftwareAsset", e.to), s.map.snapshot)
      BY <1>5 DEF EdgeRelations
    <2>2. PICK f \in s.map.edges :
             q = Relation(EdgeType(f.kind), <<"code-edge", f.id>>, Node("SoftwareAsset", f.from),
                          Node("SoftwareAsset", f.to), s.map.snapshot)
      BY <1>5 DEF EdgeRelations
    <2>3. e.id = f.id
      BY <2>1, <2>2, RelationParts
    <2> QED
      BY <2>1, <2>2, <2>3, MapIsWhole
  <1>6. CASE r \in SemanticRelations(declared) /\ q \in SemanticRelations(declared)
    <2>1. PICK d \in declared : r = Relation(d.type, <<"semantic", d.key>>, d.from, d.to, "DECLARED")
      BY <1>6 DEF SemanticRelations
    <2>2. PICK e \in declared : q = Relation(e.type, <<"semantic", e.key>>, e.from, e.to, "DECLARED")
      BY <1>6 DEF SemanticRelations
    <2>3. d.key = e.key
      BY <2>1, <2>2, RelationParts
    <2> QED
      BY <2>1, <2>2, <2>3 DEF ValidDeclarations
  <1> QED
    BY <1>1, <1>2, <1>3, <1>4, <1>5, <1>6, RelationTags DEF NodeTypes

-----------------------------------------------------------------------------
(***************************************************************************)
(* A projection, member by member.                                         *)
(***************************************************************************)
LEMMA BuiltRelationships ==
    ASSUME NEW s, NEW declared, Acceptable(s, declared), NEW nodes, NEW before,
           NEW B, B = buildRelationships(Relations(s, declared), nodes, before)
    PROVE  /\ \A m : m \in DOMAIN B <=> \E r \in Relations(s, declared) : m = r.id
           /\ \A r \in Relations(s, declared) :
                 /\ B[r.id].from = r.from /\ B[r.id].to = r.to
                 /\ B[r.id].attribution = r.attribution
                 /\ B[r.id].digest = RelationDigest(r, nodes)
                 /\ B[r.id].revision = Numbered(before, r.id, RelationDigest(r, nodes))
  <1> DEFINE R == Relations(s, declared)
             Made(q) == [from |-> q.from, to |-> q.to, attribution |-> q.attribution,
                         digest |-> RelationDigest(q, nodes),
                         revision |-> Numbered(before, q.id, RelationDigest(q, nodes))]
  <1>1. DOMAIN B = {r.id : r \in R}
    BY Zenon DEF buildRelationships
  <1>2. ASSUME NEW r \in R PROVE B[r.id] = Made(r)
    <2>1. (CHOOSE q \in R : q.id = r.id) = r
      BY RelationsAreUnique
    <2>2. B[r.id] = LET q == CHOOSE q \in R : q.id = r.id
                    IN  [from |-> q.from, to |-> q.to, attribution |-> q.attribution,
                         digest |-> RelationDigest(q, nodes),
                         revision |-> Numbered(before, r.id, RelationDigest(q, nodes))]
      BY DEF buildRelationships
    <2> QED
      BY <2>1, <2>2
  <1>3. \A q : /\ Made(q).from = q.from /\ Made(q).to = q.to
               /\ Made(q).attribution = q.attribution
               /\ Made(q).digest = RelationDigest(q, nodes)
               /\ Made(q).revision = Numbered(before, q.id, RelationDigest(q, nodes))
    OBVIOUS
  <1> HIDE DEF Made
  <1> QED
    BY <1>1, <1>2, <1>3

LEMMA ProjectedParts ==
    ASSUME NEW s, NEW declared, NEW before, NEW T, T = Projected(s, declared, before)
    PROVE  /\ T.nodes = buildNodes(s, before.nodes)
           /\ T.relationships =
                 buildRelationships(Relations(s, declared), T.nodes, before.relationships)
           /\ T.bindings = Bindings(s, Relations(s, declared))
           /\ T.input = InputDigest(s, declared)
           /\ T.invalidations =
                 IF before = NoTwin THEN {}
                 ELSE exactInvalidations(before, [nodes |-> T.nodes,
                                                  relationships |-> T.relationships])
  BY DEF Projected

LEMMA InputParts ==
    ASSUME NEW s, NEW declared, NEW input, input = InputDigest(s, declared)
    PROVE  /\ DOMAIN input.sources = SourceNodes(s)
           /\ \A n \in SourceNodes(s) : input.sources[n] = SourceDigest(s, n)
           /\ input.codeMap = s.map
           /\ input.declared = declared
  BY DEF InputDigest

LEMMA NodeIs ==
    ASSUME NEW s, NEW before, NEW nodes, nodes = buildNodes(s, before), NEW n \in SourceNodes(s)
    PROVE  /\ DOMAIN nodes = SourceNodes(s)
           /\ nodes[n] = [revision |-> Numbered(before, n, SourceDigest(s, n)),
                          digest |-> SourceDigest(s, n)]
           /\ nodes[n].digest = SourceDigest(s, n)
           /\ nodes[n].revision = Numbered(before, n, SourceDigest(s, n))
  BY DEF buildNodes

\* What holds of a projection by itself: its members are told apart, and their
\* digests are of what they show.
TwinOK(T) ==
    /\ DOMAIN T.input.sources = DOMAIN T.nodes
    /\ \A n \in DOMAIN T.nodes :
          /\ n[1] = "NODE"
          /\ T.nodes[n] = [revision |-> T.nodes[n].revision, digest |-> T.input.sources[n]]
          /\ T.nodes[n].revision \in Nat
    /\ \A m \in DOMAIN T.relationships :
          /\ m[1] = "RELATIONSHIP"
          /\ T.relationships[m].from \in DOMAIN T.nodes
          /\ T.relationships[m].to \in DOMAIN T.nodes
          /\ T.relationships[m].digest = RelationDigest(T.relationships[m], T.nodes)
          /\ T.relationships[m].revision \in Nat

\* How a projection numbers the members that its predecessor has.
Renumbers(T, U) ==
    /\ \A n \in DOMAIN T.nodes \cap DOMAIN U.nodes :
          U.nodes[n].revision = Numbered(T.nodes, n, U.nodes[n].digest)
    /\ \A m \in DOMAIN T.relationships \cap DOMAIN U.relationships :
          U.relationships[m].revision = Numbered(T.relationships, m, U.relationships[m].digest)

\* A predecessor's revisions are numbers; the first projection has none.
NumbersBefore(T) ==
    /\ \A n \in DOMAIN T.nodes : T.nodes[n].revision \in Nat
    /\ \A m \in DOMAIN T.relationships : T.relationships[m].revision \in Nat

LEMMA NumberedIsNat ==
    ASSUME NEW before, NEW m, NEW digest, m \in DOMAIN before => before[m].revision \in Nat
    PROVE  Numbered(before, m, digest) \in Nat
  BY DEF Numbered

LEMMA ProjectedIsOK ==
    ASSUME NEW s, NEW declared, NEW before, Acceptable(s, declared), NumbersBefore(before),
           NEW T, T = Projected(s, declared, before)
    PROVE  TwinOK(T) /\ Renumbers(before, T)
  <1> DEFINE R == Relations(s, declared)
  <1>1. /\ T.nodes = buildNodes(s, before.nodes)
        /\ T.relationships = buildRelationships(R, T.nodes, before.relationships)
        /\ T.input = InputDigest(s, declared)
    BY DEF Projected
  <1>2. DOMAIN T.nodes = SourceNodes(s) /\ DOMAIN T.input.sources = SourceNodes(s)
    BY <1>1, SourceNodesAre DEF buildNodes, InputDigest
  <1>3. \A n \in SourceNodes(s) :
           /\ T.nodes[n] = [revision |-> Numbered(before.nodes, n, SourceDigest(s, n)),
                            digest |-> SourceDigest(s, n)]
           /\ T.nodes[n].revision = Numbered(before.nodes, n, SourceDigest(s, n))
           /\ T.nodes[n].digest = SourceDigest(s, n)
           /\ T.input.sources[n] = SourceDigest(s, n)
    BY <1>1 DEF buildNodes, InputDigest
  <1>4. /\ \A m : m \in DOMAIN T.relationships <=> \E r \in R : m = r.id
        /\ \A r \in R :
              /\ T.relationships[r.id].from = r.from /\ T.relationships[r.id].to = r.to
              /\ T.relationships[r.id].attribution = r.attribution
              /\ T.relationships[r.id].digest = RelationDigest(r, T.nodes)
              /\ T.relationships[r.id].revision =
                    Numbered(before.relationships, r.id, RelationDigest(r, T.nodes))
    BY <1>1, BuiltRelationships
  <1>5. \A r \in R : r.from \in SourceNodes(s) /\ r.to \in SourceNodes(s) /\ r.id[1] = "RELATIONSHIP"
    BY RelationEnds
  <1> HIDE DEF R
  <1>6. \A n \in SourceNodes(s) : n[1] = "NODE" /\ T.nodes[n].revision \in Nat
    <2> SUFFICES ASSUME NEW n \in SourceNodes(s) PROVE n[1] = "NODE" /\ T.nodes[n].revision \in Nat
      OBVIOUS
    <2>1. Numbered(before.nodes, n, SourceDigest(s, n)) \in Nat
      BY DEF Numbered, NumbersBefore
    <2> QED
      BY <1>3, <2>1, SourceNodesAre DEF IsNode
  <1>7. ASSUME NEW m \in DOMAIN T.relationships
        PROVE  /\ m[1] = "RELATIONSHIP"
               /\ T.relationships[m].from \in DOMAIN T.nodes
               /\ T.relationships[m].to \in DOMAIN T.nodes
               /\ T.relationships[m].digest = RelationDigest(T.relationships[m], T.nodes)
               /\ T.relationships[m].revision \in Nat
               /\ T.relationships[m].revision =
                     Numbered(before.relationships, m, T.relationships[m].digest)
    <2>1. PICK r \in R : m = r.id
      BY <1>4
    <2>2. RelationDigest(T.relationships[m], T.nodes) = RelationDigest(r, T.nodes)
      BY <1>4, <2>1 DEF RelationDigest
    <2>3. T.relationships[m].revision \in Nat
      <3>1. Numbered(before.relationships, m, RelationDigest(r, T.nodes)) \in Nat
        BY DEF Numbered, NumbersBefore
      <3> QED
        BY <1>4, <2>1, <3>1
    <2> QED
      BY <1>2, <1>4, <1>5, <2>1, <2>2, <2>3
  <1>8. TwinOK(T)
    <2>1. \A n \in DOMAIN T.nodes :
             T.nodes[n] = [revision |-> T.nodes[n].revision, digest |-> T.input.sources[n]]
      BY <1>2, <1>3
    <2> QED
      BY <1>2, <1>6, <1>7, <2>1 DEF TwinOK
  <1>9. Renumbers(before, T)
    BY <1>2, <1>3, <1>7 DEF Renumbers
  <1> QED
    BY <1>8, <1>9

-----------------------------------------------------------------------------
(***************************************************************************)
(* What the queue of exactInvalidations reaches.                           *)
(***************************************************************************)
\* All that is found from some members on: in every set that has them and
\* their dependents' dependents.
Closure(T, found) ==
    {x \in Members(T) : \A K \in SUBSET Members(T) :
        found \subseteq K /\ DependentsOf(T, K) \subseteq K => x \in K}

LEMMA DependentsGrow ==
    ASSUME NEW T, NEW K, NEW L, K \subseteq L
    PROVE  DependentsOf(T, K) \subseteq DependentsOf(T, L)
  BY DEF DependentsOf

\* The queue ends, whatever the bindings: there is a function that the
\* recursion defines.
LEMMA ReachExists ==
    ASSUME NEW T, \A found \in SUBSET Members(T) : DependentsOf(T, found) \subseteq Members(T)
    PROVE  \E f : f = [found \in SUBSET Members(T) |->
                          IF DependentsOf(T, found) \subseteq found THEN found
                          ELSE f[found \cup DependentsOf(T, found)]]
  <1> DEFINE M == SUBSET Members(T)
             f == [found \in M |-> Closure(T, found)]
             g == [found \in M |-> IF DependentsOf(T, found) \subseteq found THEN found
                                   ELSE f[found \cup DependentsOf(T, found)]]
  <1>1. ASSUME NEW found \in M PROVE f[found] = g[found]
    <2>1. CASE DependentsOf(T, found) \subseteq found
      <3>1. Closure(T, found) = found
        BY <2>1 DEF Closure
      <3> QED
        BY <2>1, <3>1
    <2>2. CASE ~ (DependentsOf(T, found) \subseteq found)
      <3> DEFINE more == found \cup DependentsOf(T, found)
      <3>1. more \in M
        OBVIOUS
      <3>2. \A K \in M : DependentsOf(T, K) \subseteq K => (found \subseteq K <=> more \subseteq K)
        BY DependentsGrow
      <3>3. Closure(T, found) = Closure(T, more)
        BY <3>2 DEF Closure
      <3>4. f[found] = Closure(T, found) /\ f[more] = Closure(T, more)
        BY <3>1
      <3>5. g[found] = f[more]
        BY <2>2
      <3> QED
        BY <3>3, <3>4, <3>5
    <2> QED
      BY <2>1, <2>2
  <1>2. f = g
    <2>1. f = [found \in M |-> f[found]] /\ g = [found \in M |-> g[found]]
      OBVIOUS
    <2> HIDE DEF f, g
    <2> QED
      BY <1>1, <2>1, Zenon
  <1> QED
    BY <1>2

\* What two and three rounds of the queue find.
InTwo(T, m) == DependentsOf(T, {m}) \cup DependentsOf(T, DependentsOf(T, {m}))
InThree(T, m) == InTwo(T, m) \cup DependentsOf(T, InTwo(T, m))

\* What depends on a member is reached by following the bindings four times
\* when all that it concerns is.
LEMMA ReachedIs ==
    ASSUME NEW T, NEW m, NEW C,
           \A found \in SUBSET Members(T) : DependentsOf(T, found) \subseteq Members(T),
           C \subseteq Members(T),
           DependentsOf(T, {m}) \subseteq C,
           DependentsOf(T, C) \subseteq C,
           C \subseteq InThree(T, m) \cup DependentsOf(T, InThree(T, m))
    PROVE  Reached(T, m) = C
  <1> DEFINE M == SUBSET Members(T)
             F1 == DependentsOf(T, {m})
             F2 == InTwo(T, m)
             F3 == InThree(T, m)
             F4 == F3 \cup DependentsOf(T, F3)
             reach == CHOOSE f : f = [found \in M |->
                          IF DependentsOf(T, found) \subseteq found THEN found
                          ELSE f[found \cup DependentsOf(T, found)]]
  <1> USE DEF InTwo, InThree
  <1>1. Reached(T, m) = reach[F1]
    BY DEF Reached
  <1>2. reach = [found \in M |-> IF DependentsOf(T, found) \subseteq found THEN found
                                 ELSE reach[found \cup DependentsOf(T, found)]]
    BY ReachExists, Zenon
  <1> HIDE DEF reach
  <1>3. \A found \in M :
           /\ DependentsOf(T, found) \subseteq found => reach[found] = found
           /\ ~ (DependentsOf(T, found) \subseteq found) =>
                 reach[found] = reach[found \cup DependentsOf(T, found)]
    BY <1>2
  <1>4. F1 \subseteq F2 /\ F2 \subseteq F3 /\ F3 \subseteq F4
    OBVIOUS
  <1>5. F1 \subseteq C /\ F2 \subseteq C /\ F3 \subseteq C /\ F4 \subseteq C
    BY DependentsGrow
  <1>6. F4 = C
    BY <1>5
  <1>7. F1 \in M /\ F2 \in M /\ F3 \in M /\ F4 \in M
    BY <1>5
  <1>8. reach[C] = C
    BY <1>3
  <1>9. reach[F3] = C
    BY <1>3, <1>6, <1>7, <1>8
  <1>10. reach[F2] = C
    <2>1. CASE DependentsOf(T, F2) \subseteq F2
      <3>1. F2 = F3
        BY <2>1
      <3> QED
        BY <1>9, <3>1
    <2>2. CASE ~ (DependentsOf(T, F2) \subseteq F2)
      BY <1>3, <1>7, <1>9, <2>2
    <2> QED
      BY <2>1, <2>2
  <1>11. reach[F1] = C
    <2>1. CASE DependentsOf(T, F1) \subseteq F1
      <3>1. F1 = F2
        BY <2>1
      <3> QED
        BY <1>10, <3>1
    <2>2. CASE ~ (DependentsOf(T, F1) \subseteq F1)
      BY <1>3, <1>7, <1>10, <2>2
    <2> QED
      BY <2>1, <2>2
  <1> QED
    BY <1>1, <1>11

-----------------------------------------------------------------------------
(***************************************************************************)
(* Who depends on whom in a projection.                                    *)
(***************************************************************************)
\* No relationship begins at the Project.
LEMMA FromIsNotProject ==
    ASSUME NEW s, NEW declared, Acceptable(s, declared), NEW r \in Relations(s, declared)
    PROVE  r.from # ProjectNode
  <1>1. CASE r \in ScopeRelations(s)
    <2>1. PICK from, to : r = Derived("SCOPED_TO", from, to) /\ from # ProjectNode
      BY <1>1, NodeParts DEF ScopeRelations, ProjectNode, MissionNode
    <2> QED
      BY <2>1 DEF Derived, Relation
  <1>2. CASE r \in ClaimRelations(s)
    <2>1. PICK c \in s.claims : r.from = Node("Claim", c) \/ r.from = Node("EvidenceSource", SourceOf[c])
      BY <1>2 DEF ClaimRelations, Derived, Relation
    <2> QED
      BY <2>1, NodeParts DEF ProjectNode
  <1>3. CASE r \in ResultRelations(s)
    <2>1. PICK v \in s.results : r.from = Node("ValidationResult", v)
      BY <1>3 DEF ResultRelations, Derived, Relation
    <2> QED
      BY <2>1, NodeParts DEF ProjectNode
  <1>4. CASE r \in LinkRelations(s)
    <2>1. PICK l \in Corrections : r.from = Node("Claim", l.successor)
      BY <1>4 DEF LinkRelations, Relation
    <2> QED
      BY <2>1, NodeParts DEF ProjectNode
  <1>5. CASE r \in AssetRelations(s) \/ r \in EdgeRelations(s)
    <2>1. PICK a : r.from = Node("SoftwareAsset", a)
      BY <1>5 DEF AssetRelations, EdgeRelations, Relation
    <2> QED
      BY <2>1, NodeParts DEF ProjectNode
  <1>6. CASE r \in SemanticRelations(declared)
    <2>1. PICK d \in declared : r.from = d.from
      BY <1>6 DEF SemanticRelations, Relation
    <2>2. d.from[2] \in {"Claim", "SoftwareAsset"}
      BY DEF Acceptable, ValidDeclarations, ShapeOK
    <2> QED
      BY <2>1, <2>2, NodeParts DEF ProjectNode
  <1> QED
    BY <1>1, <1>2, <1>3, <1>4, <1>5, <1>6 DEF Relations, RowRelations, MapRelations

LEMMA BindingParts ==
    ASSUME NEW from, NEW to
    PROVE  Binding(from, to).dependency = from /\ Binding(from, to).dependent = to
  BY DEF Binding

\* The bindings of the rows lie between nodes: none begins at an asset or a
\* result, and the Mission depends on the Project alone.
LEMMA RowBindingsAre ==
    ASSUME NEW s \in Storable, RefersToStored(s), NEW b \in RowBindings(s)
    PROVE  /\ b.dependency \in SourceNodes(s) /\ b.dependent \in SourceNodes(s)
           /\ b.dependent # ProjectNode
           /\ b.dependent = MissionNode => b.dependency = ProjectNode
           /\ b.dependency[2] \notin {"SoftwareAsset", "ValidationResult"}
  <1> USE SourceNodesAre, NodeParts, BindingParts DEF ProjectNode, MissionNode
  <1>1. CASE b = Binding(ProjectNode, MissionNode)
    BY <1>1
  <1>2. CASE \E e \in s.evidence : b = Binding(MissionNode, Node("EvidenceSource", e))
    BY <1>2
  <1>3. CASE \E g \in s.snapshots : b = Binding(MissionNode, Node("GitSnapshot", g))
    BY <1>3
  <1>4. CASE \E a \in DOMAIN s.map.assets : b = Binding(MissionNode, Node("SoftwareAsset", a))
    BY <1>4
  <1>5. CASE \E c \in s.claims : b = Binding(Node("EvidenceSource", SourceOf[c]), Node("Claim", c))
    BY <1>5 DEF RefersToStored
  <1>6. CASE \E v \in s.results :
                b = Binding(Node("EvidenceSource", SourceOf[v]), Node("ValidationResult", v))
    BY <1>6 DEF RefersToStored
  <1>7. CASE \E v \in s.results :
                b = Binding(Node("GitSnapshot", SnapshotOf[v]), Node("ValidationResult", v))
    BY <1>7 DEF RefersToStored
  <1>8. CASE \E a \in DOMAIN s.map.assets :
                b = Binding(Node("GitSnapshot", s.map.snapshot), Node("SoftwareAsset", a))
    BY <1>8, MapIsWhole DEF RefersToStored
  <1>9. \/ b = Binding(ProjectNode, MissionNode)
        \/ \E e \in s.evidence : b = Binding(MissionNode, Node("EvidenceSource", e))
        \/ \E g \in s.snapshots : b = Binding(MissionNode, Node("GitSnapshot", g))
        \/ \E a \in DOMAIN s.map.assets : b = Binding(MissionNode, Node("SoftwareAsset", a))
        \/ \E c \in s.claims : b = Binding(Node("EvidenceSource", SourceOf[c]), Node("Claim", c))
        \/ \E v \in s.results :
              b = Binding(Node("EvidenceSource", SourceOf[v]), Node("ValidationResult", v))
        \/ \E v \in s.results :
              b = Binding(Node("GitSnapshot", SnapshotOf[v]), Node("ValidationResult", v))
        \/ \E a \in DOMAIN s.map.assets :
              b = Binding(Node("GitSnapshot", s.map.snapshot), Node("SoftwareAsset", a))
    BY DEF RowBindings, Nodes
  <1> QED
    BY ONLY <1>1, <1>2, <1>3, <1>4, <1>5, <1>6, <1>7, <1>8, <1>9

LEMMA RowsAreBound ==
    ASSUME NEW s \in Storable, RefersToStored(s)
    PROVE  /\ Binding(ProjectNode, MissionNode) \in RowBindings(s)
           /\ \A n \in SourceNodes(s) :
                 /\ n[2] \in {"EvidenceSource", "GitSnapshot", "SoftwareAsset"} =>
                       Binding(MissionNode, n) \in RowBindings(s)
                 /\ n[2] \in {"Claim", "ValidationResult"} =>
                       \E e \in SourceNodes(s) :
                          e[2] = "EvidenceSource" /\ Binding(e, n) \in RowBindings(s)
  <1>1. Binding(ProjectNode, MissionNode) \in RowBindings(s)
    BY DEF RowBindings
  <1>2. ASSUME NEW n \in SourceNodes(s), n[2] \in {"EvidenceSource", "GitSnapshot", "SoftwareAsset"}
        PROVE  Binding(MissionNode, n) \in RowBindings(s)
    <2>1. n \in Nodes("EvidenceSource", s.evidence) \cup Nodes("GitSnapshot", s.snapshots)
                  \cup Nodes("SoftwareAsset", DOMAIN s.map.assets)
      BY <1>2, SourceNodesAre, NodeParts DEF Nodes, IsNode
    <2> QED
      BY <2>1 DEF RowBindings
  <1>3. ASSUME NEW n \in SourceNodes(s), n[2] = "Claim"
        PROVE  \E e \in SourceNodes(s) :
                  e[2] = "EvidenceSource" /\ Binding(e, n) \in RowBindings(s)
    <2>1. n[3] \in s.claims /\ n = Node("Claim", n[3])
      BY <1>3, SourceNodesAre DEF IsNode
    <2>2. Binding(Node("EvidenceSource", SourceOf[n[3]]), Node("Claim", n[3])) \in RowBindings(s)
      BY <2>1 DEF RowBindings
    <2>3. SourceOf[n[3]] \in s.evidence
      BY <2>1 DEF RefersToStored
    <2> QED
      BY <2>1, <2>2, <2>3, SourceNodesAre, NodeParts
  <1>4. ASSUME NEW n \in SourceNodes(s), n[2] = "ValidationResult"
        PROVE  \E e \in SourceNodes(s) :
                  e[2] = "EvidenceSource" /\ Binding(e, n) \in RowBindings(s)
    <2>1. n[3] \in s.results /\ n = Node("ValidationResult", n[3])
      BY <1>4, SourceNodesAre DEF IsNode
    <2>2. Binding(Node("EvidenceSource", SourceOf[n[3]]), Node("ValidationResult", n[3]))
             \in RowBindings(s)
      BY <2>1 DEF RowBindings
    <2>3. SourceOf[n[3]] \in s.evidence
      BY <2>1 DEF RefersToStored
    <2> QED
      BY <2>1, <2>2, <2>3, SourceNodesAre, NodeParts
  <1> QED
    BY <1>1, <1>2, <1>3, <1>4

\* All members of a projection depend only on its nodes; a relationship does
\* on both of its ends, and on nothing else.
LEMMA TwinBindings ==
    ASSUME NEW s, NEW declared, NEW before, Acceptable(s, declared),
           NEW T, T = Projected(s, declared, before)
    PROVE  /\ \A b \in T.bindings :
                 /\ b.dependency \in DOMAIN T.nodes
                 /\ b.dependent \in Members(T)
                 /\ b.dependent # ProjectNode
                 /\ b.dependent = MissionNode => b.dependency = ProjectNode
                 /\ b.dependent \in DOMAIN T.relationships =>
                       b.dependency \in {T.relationships[b.dependent].from,
                                         T.relationships[b.dependent].to}
                 /\ b.dependency[2] \in {"SoftwareAsset", "ValidationResult"} =>
                       b.dependent \in DOMAIN T.relationships
           /\ \A m \in DOMAIN T.relationships :
                 /\ T.relationships[m].from \in DOMAIN T.nodes
                 /\ T.relationships[m].to \in DOMAIN T.nodes
                 /\ T.relationships[m].from # ProjectNode
                 /\ Binding(T.relationships[m].from, m) \in T.bindings
                 /\ Binding(T.relationships[m].to, m) \in T.bindings
           /\ RowBindings(s) \subseteq T.bindings
           /\ DOMAIN T.nodes = SourceNodes(s)
           /\ \A m \in DOMAIN T.relationships : m \notin DOMAIN T.nodes
  <1> DEFINE R == Relations(s, declared)
  <1>1. T.nodes = buildNodes(s, before.nodes) /\ T.bindings = Bindings(s, R)
    BY DEF Projected
  <1>2. T.relationships = buildRelationships(R, T.nodes, before.relationships)
    BY DEF Projected
  <1>3. DOMAIN T.nodes = SourceNodes(s)
    BY <1>1 DEF buildNodes
  <1>4. /\ \A m : m \in DOMAIN T.relationships <=> \E r \in R : m = r.id
        /\ \A r \in R : T.relationships[r.id].from = r.from /\ T.relationships[r.id].to = r.to
    BY <1>2, BuiltRelationships
  <1>5. \A r \in R : /\ r.from \in SourceNodes(s) /\ r.to \in SourceNodes(s)
                     /\ r.id[1] = "RELATIONSHIP" /\ r.from # ProjectNode
    BY RelationEnds, FromIsNotProject
  <1> HIDE DEF R
  <1>6. \A n \in SourceNodes(s) : n[1] = "NODE"
    BY SourceNodesAre DEF IsNode
  <1>7. \A m \in DOMAIN T.relationships : m \notin DOMAIN T.nodes
    BY <1>3, <1>4, <1>5, <1>6
  <1>8. RowBindings(s) \subseteq T.bindings
    BY <1>1 DEF Bindings
  <1>9. ASSUME NEW m \in DOMAIN T.relationships
        PROVE  /\ T.relationships[m].from \in DOMAIN T.nodes
               /\ T.relationships[m].to \in DOMAIN T.nodes
               /\ T.relationships[m].from # ProjectNode
               /\ Binding(T.relationships[m].from, m) \in T.bindings
               /\ Binding(T.relationships[m].to, m) \in T.bindings
    <2>1. PICK r \in R : m = r.id
      BY <1>4
    <2>2. Binding(r.from, r.id) \in T.bindings /\ Binding(r.to, r.id) \in T.bindings
      BY <1>1 DEF Bindings
    <2> QED
      BY <1>3, <1>4, <1>5, <2>1, <2>2
  <1>10. ASSUME NEW b \in T.bindings
         PROVE  /\ b.dependency \in DOMAIN T.nodes
                /\ b.dependent \in Members(T)
                /\ b.dependent # ProjectNode
                /\ b.dependent = MissionNode => b.dependency = ProjectNode
                /\ b.dependent \in DOMAIN T.relationships =>
                      b.dependency \in {T.relationships[b.dependent].from,
                                        T.relationships[b.dependent].to}
                /\ b.dependency[2] \in {"SoftwareAsset", "ValidationResult"} =>
                      b.dependent \in DOMAIN T.relationships
    <2>1. CASE b \in RowBindings(s)
      <3>1. s \in Storable /\ RefersToStored(s)
        BY DEF Acceptable
      <3> QED
        BY <1>3, <1>7, <2>1, <3>1, RowBindingsAre DEF Members
    <2>2. CASE b \notin RowBindings(s)
      <3>1. PICK r \in R : b = Binding(r.from, r.id) \/ b = Binding(r.to, r.id)
        BY <1>1, <2>2 DEF Bindings
      <3>2. b.dependent = r.id /\ b.dependency \in {r.from, r.to}
        BY <3>1, BindingParts
      <3>3. b.dependent \in DOMAIN T.relationships /\ b.dependent \notin SourceNodes(s)
        BY <1>3, <1>4, <1>7, <3>2
      <3> QED
        BY <1>3, <1>4, <1>5, <3>2, <3>3, SourceNodesAre DEF Members
    <2> QED
      BY <2>1, <2>2
  <1> QED
    BY <1>3, <1>7, <1>8, <1>9, <1>10

\* A relationship has no dependents.
LEMMA NothingHangsOnRelationships ==
    ASSUME NEW s, NEW declared, NEW before, Acceptable(s, declared),
           NEW T, T = Projected(s, declared, before)
    PROVE  /\ \A F \in SUBSET DOMAIN T.relationships : DependentsOf(T, F) = {}
           /\ \A F \in SUBSET Members(T) : DependentsOf(T, F) \subseteq Members(T)
           /\ \A m \in DOMAIN T.relationships : Reached(T, m) = {}
  <1>1. /\ \A b \in T.bindings : b.dependency \in DOMAIN T.nodes /\ b.dependent \in Members(T)
        /\ \A m \in DOMAIN T.relationships : m \notin DOMAIN T.nodes
    BY TwinBindings
  <1>2. \A F \in SUBSET DOMAIN T.relationships : DependentsOf(T, F) = {}
    BY <1>1 DEF DependentsOf
  <1>3. \A F \in SUBSET Members(T) : DependentsOf(T, F) \subseteq Members(T)
    BY <1>1 DEF DependentsOf
  <1>4. ASSUME NEW m \in DOMAIN T.relationships PROVE Reached(T, m) = {}
    <2>1. DependentsOf(T, {m}) = {} /\ DependentsOf(T, {}) = {}
      BY <1>2
    <2>2. {} \subseteq Members(T)
      OBVIOUS
    <2> QED
      BY <1>3, <2>1, <2>2, ReachedIs
  <1> QED
    BY <1>2, <1>3, <1>4

\* Whom a source concerns, spelt out.
LEMMA ConcernedParts ==
    ASSUME NEW s, NEW declared, NEW before, Acceptable(s, declared),
           NEW T, T = Projected(s, declared, before), NEW n \in DOMAIN T.nodes
    PROVE  /\ Concerned(T, n) \subseteq Members(T)
           /\ n = ProjectNode => Concerned(T, n) = Members(T) \ {ProjectNode}
           /\ n = MissionNode => Concerned(T, n) = Members(T) \ {ProjectNode, MissionNode}
           /\ \A m \in DOMAIN T.relationships :
                 /\ n \in {T.relationships[m].from, T.relationships[m].to} => m \in Concerned(T, n)
                 /\ n # ProjectNode /\ n # MissionNode /\ m \in Concerned(T, n) =>
                       n \in {T.relationships[m].from, T.relationships[m].to}
           /\ n # ProjectNode /\ n # MissionNode => Concerned(T, n) \subseteq DOMAIN T.relationships
  <1>1. /\ \A m \in DOMAIN T.relationships :
              /\ m \notin DOMAIN T.nodes
              /\ T.relationships[m].from \in DOMAIN T.nodes
              /\ T.relationships[m].to \in DOMAIN T.nodes
              /\ T.relationships[m].from # ProjectNode
        /\ DOMAIN T.nodes = SourceNodes(s)
    BY TwinBindings
  <1>2. /\ ProjectNode # MissionNode
        /\ ProjectNode \in DOMAIN T.nodes /\ MissionNode \in DOMAIN T.nodes
    BY <1>1, SourceNodesAre, NodeParts DEF ProjectNode, MissionNode
  <1>3. \A x : x \in Concerned(T, n) <=>
                  \/ x \in ConcernedNodes(T, n)
                  \/ /\ x \in DOMAIN T.relationships
                     /\ \/ T.relationships[x].from \in ConcernedNodes(T, n) \cup {n}
                        \/ T.relationships[x].to \in ConcernedNodes(T, n) \cup {n}
    BY DEF Concerned
  <1>4. CASE n = ProjectNode
    <2>1. ConcernedNodes(T, n) = DOMAIN T.nodes \ {ProjectNode}
      BY <1>4 DEF ConcernedNodes
    <2>2. Concerned(T, n) = Members(T) \ {ProjectNode}
      BY <1>1, <1>2, <1>3, <1>4, <2>1 DEF Members
    <2> QED
      BY <1>1, <1>2, <1>4, <2>2 DEF Members
  <1>5. CASE n = MissionNode
    <2>1. ConcernedNodes(T, n) = DOMAIN T.nodes \ {ProjectNode, MissionNode}
      BY <1>2, <1>5 DEF ConcernedNodes
    <2>2. Concerned(T, n) = Members(T) \ {ProjectNode, MissionNode}
      BY <1>1, <1>2, <1>3, <1>5, <2>1 DEF Members
    <2> QED
      BY <1>1, <1>2, <1>5, <2>2 DEF Members
  <1>6. CASE n # ProjectNode /\ n # MissionNode
    <2>1. ConcernedNodes(T, n) = {}
      BY <1>6 DEF ConcernedNodes
    <2> QED
      BY <1>3, <1>6, <2>1 DEF Members
  <1> QED
    BY <1>4, <1>5, <1>6

\* What the queue reaches from the Project: in four rounds, the Mission, what
\* is scoped to it, what that is evidence of, and all relationships.
LEMMA ReachedFromProject ==
    ASSUME NEW s, NEW declared, NEW before, Acceptable(s, declared),
           NEW T, T = Projected(s, declared, before)
    PROVE  Reached(T, ProjectNode) = Members(T) \ {ProjectNode}
  <1> DEFINE C == Members(T) \ {ProjectNode}
             F1 == DependentsOf(T, {ProjectNode})
             F2 == F1 \cup DependentsOf(T, F1)
             F3 == F2 \cup DependentsOf(T, F2)
             F4 == F3 \cup DependentsOf(T, F3)
  <1>1. /\ \A b \in T.bindings : b.dependent \in Members(T) /\ b.dependent # ProjectNode
        /\ \A m \in DOMAIN T.relationships :
              /\ T.relationships[m].from \in SourceNodes(s)
              /\ T.relationships[m].from # ProjectNode
              /\ Binding(T.relationships[m].from, m) \in T.bindings
        /\ RowBindings(s) \subseteq T.bindings
        /\ DOMAIN T.nodes = SourceNodes(s)
    BY TwinBindings
  <1>2. \A F, a, x : a \in F /\ Binding(a, x) \in T.bindings => x \in DependentsOf(T, F)
    BY BindingParts DEF DependentsOf
  <1>3. \A F : DependentsOf(T, F) \subseteq C
    BY <1>1 DEF DependentsOf
  <1>4. s \in Storable /\ RefersToStored(s)
    BY DEF Acceptable
  <1>5. MissionNode \in F1
    BY <1>1, <1>2, <1>4, RowsAreBound
  <1>6. \A n \in SourceNodes(s) :
           n[2] \in {"EvidenceSource", "GitSnapshot", "SoftwareAsset"} => n \in F2
    BY <1>1, <1>2, <1>4, <1>5, RowsAreBound
  <1>7. \A n \in SourceNodes(s) : n[2] \in {"Claim", "ValidationResult"} => n \in F3
    <2> SUFFICES ASSUME NEW n \in SourceNodes(s), n[2] \in {"Claim", "ValidationResult"}
                 PROVE  n \in F3
      OBVIOUS
    <2>1. PICK e \in SourceNodes(s) : e[2] = "EvidenceSource" /\ Binding(e, n) \in RowBindings(s)
      BY <1>4, RowsAreBound
    <2>2. e \in F2 /\ Binding(e, n) \in T.bindings
      BY <1>1, <1>6, <2>1
    <2>3. n \in DependentsOf(T, F2)
      BY <1>2, <2>2
    <2> QED
      BY <2>3
  <1>8. SourceNodes(s) \ {ProjectNode} \subseteq F3
    <2>1. \A n \in SourceNodes(s) \ {ProjectNode} :
             n[2] \in {"EvidenceSource", "Claim", "GitSnapshot", "ValidationResult", "SoftwareAsset"}
                \/ n = MissionNode
      BY SourceNodesAre DEF IsNode, NodeTypes
    <2> QED
      BY <1>5, <1>6, <1>7, <2>1
  <1>9. DOMAIN T.relationships \subseteq DependentsOf(T, F3)
    BY <1>1, <1>2, <1>8
  <1>10. C \subseteq F4
    BY <1>1, <1>8, <1>9 DEF Members
  <1>12. \A F \in SUBSET Members(T) : DependentsOf(T, F) \subseteq Members(T)
    BY NothingHangsOnRelationships
  <1>13. /\ C \in SUBSET Members(T)
         /\ DependentsOf(T, {ProjectNode}) \subseteq C
         /\ DependentsOf(T, C) \subseteq C
         /\ C \subseteq InThree(T, ProjectNode) \cup DependentsOf(T, InThree(T, ProjectNode))
    BY <1>3, <1>10 DEF InTwo, InThree
  <1>14. C = Members(T) \ {ProjectNode}
    OBVIOUS
  <1> HIDE DEF C, F1, F2, F3, F4
  <1>15. Reached(T, ProjectNode) = C
    BY <1>12, <1>13, ReachedIs
  <1> QED
    BY <1>14, <1>15

\* From the Mission: what is scoped to it, in three rounds.
LEMMA ReachedFromMission ==
    ASSUME NEW s, NEW declared, NEW before, Acceptable(s, declared),
           NEW T, T = Projected(s, declared, before)
    PROVE  Reached(T, MissionNode) = Members(T) \ {ProjectNode, MissionNode}
  <1> DEFINE C == Members(T) \ {ProjectNode, MissionNode}
             F1 == DependentsOf(T, {MissionNode})
             F2 == F1 \cup DependentsOf(T, F1)
             F3 == F2 \cup DependentsOf(T, F2)
             F4 == F3 \cup DependentsOf(T, F3)
  <1>1. /\ \A b \in T.bindings :
              /\ b.dependent \in Members(T) /\ b.dependent # ProjectNode
              /\ b.dependent = MissionNode => b.dependency = ProjectNode
        /\ \A m \in DOMAIN T.relationships :
              /\ T.relationships[m].from \in SourceNodes(s)
              /\ T.relationships[m].from # ProjectNode
              /\ Binding(T.relationships[m].from, m) \in T.bindings
        /\ RowBindings(s) \subseteq T.bindings
        /\ DOMAIN T.nodes = SourceNodes(s)
    BY TwinBindings
  <1>2. \A F, a, x : a \in F /\ Binding(a, x) \in T.bindings => x \in DependentsOf(T, F)
    BY BindingParts DEF DependentsOf
  <1>3. ProjectNode # MissionNode
    BY NodeParts DEF ProjectNode, MissionNode
  <1>4. \A F : ProjectNode \notin F => DependentsOf(T, F) \subseteq C
    BY <1>1 DEF DependentsOf
  <1>5. s \in Storable /\ RefersToStored(s)
    BY DEF Acceptable
  <1>6. \A n \in SourceNodes(s) :
           n[2] \in {"EvidenceSource", "GitSnapshot", "SoftwareAsset"} => n \in F1
    BY <1>1, <1>2, <1>5, RowsAreBound
  <1>7. \A n \in SourceNodes(s) : n[2] \in {"Claim", "ValidationResult"} => n \in F2
    <2> SUFFICES ASSUME NEW n \in SourceNodes(s), n[2] \in {"Claim", "ValidationResult"}
                 PROVE  n \in F2
      OBVIOUS
    <2>1. PICK e \in SourceNodes(s) : e[2] = "EvidenceSource" /\ Binding(e, n) \in RowBindings(s)
      BY <1>5, RowsAreBound
    <2>2. e \in F1 /\ Binding(e, n) \in T.bindings
      BY <1>1, <1>6, <2>1
    <2>3. n \in DependentsOf(T, F1)
      BY <1>2, <2>2
    <2> QED
      BY <2>3
  <1>8. SourceNodes(s) \ {ProjectNode, MissionNode} \subseteq F2
    <2>1. \A n \in SourceNodes(s) \ {ProjectNode, MissionNode} :
             n[2] \in {"EvidenceSource", "Claim", "GitSnapshot", "ValidationResult", "SoftwareAsset"}
      BY SourceNodesAre DEF IsNode, NodeTypes
    <2> QED
      BY <1>6, <1>7, <2>1
  <1>9. DOMAIN T.relationships \subseteq F3
    <2> SUFFICES ASSUME NEW m \in DOMAIN T.relationships PROVE m \in F3
      OBVIOUS
    <2>1. CASE T.relationships[m].from = MissionNode
      <3>1. m \in F1
        BY <1>1, <1>2, <2>1
      <3> QED
        BY <3>1
    <2>2. CASE T.relationships[m].from # MissionNode
      <3>1. T.relationships[m].from \in F2
        BY <1>1, <1>8, <2>2
      <3>2. m \in DependentsOf(T, F2)
        BY <1>1, <1>2, <3>1
      <3> QED
        BY <3>2
    <2> QED
      BY <2>1, <2>2
  <1>10. C \subseteq F4
    BY <1>1, <1>8, <1>9 DEF Members
  <1>12. \A F \in SUBSET Members(T) : DependentsOf(T, F) \subseteq Members(T)
    BY NothingHangsOnRelationships
  <1>13. /\ C \in SUBSET Members(T)
         /\ DependentsOf(T, {MissionNode}) \subseteq C
         /\ DependentsOf(T, C) \subseteq C
         /\ C \subseteq InThree(T, MissionNode) \cup DependentsOf(T, InThree(T, MissionNode))
    BY <1>3, <1>4, <1>10 DEF InTwo, InThree
  <1>14. C = Members(T) \ {ProjectNode, MissionNode}
    OBVIOUS
  <1> HIDE DEF C, F1, F2, F3, F4
  <1>15. Reached(T, MissionNode) = C
    BY <1>12, <1>13, ReachedIs
  <1> QED
    BY <1>14, <1>15

\* From an asset or a result: its relationships.
LEMMA ReachedFromOthers ==
    ASSUME NEW s, NEW declared, NEW before, Acceptable(s, declared),
           NEW T, T = Projected(s, declared, before),
           NEW n \in DOMAIN T.nodes, n[2] \in {"SoftwareAsset", "ValidationResult"}
    PROVE  Reached(T, n) = Concerned(T, n)
  <1>1. /\ \A b \in T.bindings :
              /\ b.dependent \in DOMAIN T.relationships =>
                    b.dependency \in {T.relationships[b.dependent].from,
                                      T.relationships[b.dependent].to}
              /\ b.dependency[2] \in {"SoftwareAsset", "ValidationResult"} =>
                    b.dependent \in DOMAIN T.relationships
        /\ \A m \in DOMAIN T.relationships :
              /\ Binding(T.relationships[m].from, m) \in T.bindings
              /\ Binding(T.relationships[m].to, m) \in T.bindings
    BY TwinBindings
  <1>2. n # ProjectNode /\ n # MissionNode
    BY NodeParts DEF ProjectNode, MissionNode
  <1>3. /\ Concerned(T, n) \subseteq DOMAIN T.relationships
        /\ \A m \in DOMAIN T.relationships :
              m \in Concerned(T, n) <=> n \in {T.relationships[m].from, T.relationships[m].to}
    BY <1>2, ConcernedParts
  <1>4. DependentsOf(T, {n}) = Concerned(T, n)
    <2>1. \A x : x \in DependentsOf(T, {n}) <=> \E b \in T.bindings : b.dependency = n /\ b.dependent = x
      BY DEF DependentsOf
    <2>2. \A x \in DependentsOf(T, {n}) : x \in Concerned(T, n)
      BY <1>1, <1>3, <2>1
    <2>3. \A x \in Concerned(T, n) : x \in DependentsOf(T, {n})
      <3> SUFFICES ASSUME NEW x \in Concerned(T, n) PROVE x \in DependentsOf(T, {n})
        OBVIOUS
      <3>1. x \in DOMAIN T.relationships /\ Binding(n, x) \in T.bindings
        BY <1>1, <1>3
      <3>2. Binding(n, x).dependency = n /\ Binding(n, x).dependent = x
        BY BindingParts
      <3> QED
        BY <2>1, <3>1, <3>2
    <2> QED
      BY <2>2, <2>3
  <1>5. /\ \A F \in SUBSET DOMAIN T.relationships : DependentsOf(T, F) = {}
        /\ \A F \in SUBSET Members(T) : DependentsOf(T, F) \subseteq Members(T)
    BY NothingHangsOnRelationships
  <1>6. {n} \subseteq Members(T) /\ Concerned(T, n) \in SUBSET Members(T)
    BY <1>3 DEF Members
  <1>7. DependentsOf(T, Concerned(T, n)) = {}
    BY <1>3, <1>5
  <1>10. /\ DependentsOf(T, {n}) \subseteq Concerned(T, n)
         /\ DependentsOf(T, Concerned(T, n)) \subseteq Concerned(T, n)
         /\ Concerned(T, n) \subseteq InThree(T, n) \cup DependentsOf(T, InThree(T, n))
    BY <1>4, <1>7 DEF InTwo, InThree
  <1> QED
    BY <1>5, <1>6, <1>10, ReachedIs

-----------------------------------------------------------------------------
(***************************************************************************)
(* Two projections, one after the other.                                   *)
(***************************************************************************)
\* Rows are never removed, but a result when one takes its place.
Later(s, t) ==
    /\ s.evidence \subseteq t.evidence
    /\ s.claims \subseteq t.claims
    /\ s.snapshots \subseteq t.snapshots

\* Only the Project, the Mission, an asset and a replaced result ever change.
LEMMA CausesAre ==
    ASSUME NEW s, NEW d, NEW t, NEW e, Later(s, t),
           NEW n \in Causes(InputDigest(s, d).sources, InputDigest(t, e).sources)
    PROVE  /\ n \in SourceNodes(s)
           /\ n[2] \notin {"EvidenceSource", "Claim", "GitSnapshot"}
           /\ n = ProjectNode \/ n = MissionNode \/ n[2] \in {"SoftwareAsset", "ValidationResult"}
  <1>1. /\ n \in SourceNodes(s)
        /\ n \notin SourceNodes(t) \/ SourceDigest(t, n) # SourceDigest(s, n)
    BY DEF Causes, InputDigest
  <1>2. /\ n[2] = "EvidenceSource" => n \in SourceNodes(t)
        /\ n[2] = "Claim" => n \in SourceNodes(t)
        /\ n[2] = "GitSnapshot" => n \in SourceNodes(t)
    BY <1>1, SourceNodesAre DEF Later, IsNode
  <1>3. n[2] \notin {"EvidenceSource", "Claim", "GitSnapshot"}
    <2> SUFFICES ASSUME n[2] \in {"EvidenceSource", "Claim", "GitSnapshot"} PROVE FALSE
      OBVIOUS
    <2>1. n \in SourceNodes(t)
      BY <1>2
    <2>2. SourceDigest(s, n) = 0 /\ SourceDigest(t, n) = 0
      BY <1>1, <2>1, FixedDigests
    <2> QED
      BY <1>1, <2>1, <2>2
  <1>4. n[2] = "Project" => n = ProjectNode
    BY <1>1, SourceNodesAre
  <1>5. n[2] = "ChangeMission" => n = MissionNode
    BY <1>1, SourceNodesAre
  <1>6. n[2] \in NodeTypes
    BY <1>1, SourceNodesAre DEF IsNode
  <1> QED
    BY <1>1, <1>3, <1>4, <1>5, <1>6 DEF NodeTypes

\* A relationship of the earlier sources, of which both ends are still there,
\* is one of the later sources, or what made it was replaced.
LEMMA RelationsStay ==
    ASSUME NEW s, NEW d, NEW t, NEW e, Acceptable(s, d), Acceptable(t, e), Later(s, t),
           NEW r \in Relations(s, d), r.from \in SourceNodes(t), r.to \in SourceNodes(t)
    PROVE  \/ r \in Relations(t, e)
           \/ r.id[3][1] \in {"code-asset", "code-edge"} /\ s.map # t.map
           \/ /\ r.id[3][1] = "semantic"
              /\ \A x \in d : x.type = r.id[2] /\ x.key = r.id[3][2] => x \notin e
  <1>1. CASE r \in ScopeRelations(s)
    <2>1. CASE r = Derived("SCOPED_TO", MissionNode, ProjectNode)
      <3>1. r \in ScopeRelations(t)
        BY <2>1 DEF ScopeRelations
      <3> QED
        BY <3>1 DEF Relations, RowRelations
    <2>2. CASE r # Derived("SCOPED_TO", MissionNode, ProjectNode)
      <3>1. PICK n \in SourceNodes(s) :
               /\ n[2] \in {"EvidenceSource", "GitSnapshot", "Claim", "ValidationResult"}
               /\ r = Derived("SCOPED_TO", n, MissionNode)
        BY <1>1, <2>2 DEF ScopeRelations
      <3>2. r.from = n
        BY <3>1 DEF Derived, Relation
      <3>3. r \in ScopeRelations(t)
        BY <3>1, <3>2 DEF ScopeRelations
      <3> QED
        BY <3>3 DEF Relations, RowRelations
    <2> QED
      BY <2>1, <2>2
  <1>2. CASE r \in ClaimRelations(s)
    <2>1. r \in ClaimRelations(t)
      BY <1>2 DEF ClaimRelations, Later
    <2> QED
      BY <2>1 DEF Relations, RowRelations
  <1>3. CASE r \in ResultRelations(s)
    <2>1. PICK v \in s.results :
             \/ r = Derived("EXTRACTED_FROM", Node("ValidationResult", v),
                            Node("EvidenceSource", SourceOf[v]))
             \/ r = Derived("BOUND_TO", Node("ValidationResult", v),
                            Node("GitSnapshot", SnapshotOf[v]))
      BY <1>3 DEF ResultRelations
    <2>2. r.from = Node("ValidationResult", v)
      BY <2>1 DEF Derived, Relation
    <2>3. v \in t.results
      BY <2>2, SourceNodesAre
    <2>4. r \in ResultRelations(t)
      BY <2>1, <2>3 DEF ResultRelations
    <2> QED
      BY <2>4 DEF Relations, RowRelations
  <1>4. CASE r \in LinkRelations(s)
    <2>1. r \in LinkRelations(t)
      BY <1>4 DEF LinkRelations, Later
    <2> QED
      BY <2>1 DEF Relations, RowRelations
  <1>5. CASE r \in AssetRelations(s) \/ r \in EdgeRelations(s)
    <2>1. r.id[3][1] \in {"code-asset", "code-edge"}
      BY <1>5, RelationTags
    <2>2. CASE s.map = t.map
      <3>1. r \in AssetRelations(t) \/ r \in EdgeRelations(t)
        BY <1>5, <2>2 DEF AssetRelations, EdgeRelations
      <3> QED
        BY <3>1 DEF Relations, MapRelations
    <2> QED
      BY <2>1, <2>2
  <1>6. CASE r \in SemanticRelations(d)
    <2>1. PICK x \in d : r = Relation(x.type, <<"semantic", x.key>>, x.from, x.to, "DECLARED")
      BY <1>6 DEF SemanticRelations
    <2>2. r.id[2] = x.type /\ r.id[3][1] = "semantic" /\ r.id[3][2] = x.key
      BY <2>1, RelationParts
    <2>3. CASE x \in e
      <3>1. r \in SemanticRelations(e)
        BY <2>1, <2>3 DEF SemanticRelations
      <3> QED
        BY <3>1 DEF Relations
    <2>4. CASE x \notin e
      <3>1. \A y \in d : y.key = x.key => y = x
        BY DEF Acceptable, ValidDeclarations
      <3> QED
        BY <2>2, <2>4, <3>1
    <2> QED
      BY <2>3, <2>4
  <1> QED
    BY <1>1, <1>2, <1>3, <1>4, <1>5, <1>6 DEF Relations, RowRelations, MapRelations

\* InvalidationsAreExact, of a projection and its predecessor.
Listed(before, after) ==
    Causes(before.input.sources, after.input.sources)
        \cup UNION {x.dependents : x \in after.invalidations}

ListsTheCauses(before, after) ==
    after.invalidations =
        {[changeType |-> IF n \in DOMAIN after.nodes THEN "CHANGED" ELSE "REMOVED",
          dependency |-> n, dependents |-> Concerned(before, n)] :
            n \in Causes(before.input.sources, after.input.sources)}

SparesTheRest(before, after) ==
    \A m \in Members(before) \ Listed(before, after) :
        \/ m \in Members(after) /\ Reference(before, m).revision = Reference(after, m).revision
        \/ Replaced(before, after, m)

FewAreCauses(before, after) ==
    \A n \in Causes(before.input.sources, after.input.sources) :
        n[2] \notin {"EvidenceSource", "Claim", "GitSnapshot"}

\* What a cause reaches is what it concerns, and there is some of it.
LEMMA CausesReach ==
    ASSUME NEW s, NEW declared, NEW before, Acceptable(s, declared),
           NEW T, T = Projected(s, declared, before), NEW n \in DOMAIN T.nodes,
           n = ProjectNode \/ n = MissionNode \/ n[2] \in {"SoftwareAsset", "ValidationResult"}
    PROVE  Reached(T, n) = Concerned(T, n) /\ Reached(T, n) # {}
  <1>1. Reached(T, n) = Concerned(T, n)
    <2>1. CASE n = ProjectNode
      <3>1. Reached(T, n) = Members(T) \ {ProjectNode}
        BY <2>1, ReachedFromProject
      <3>2. Concerned(T, n) = Members(T) \ {ProjectNode}
        BY <2>1, ConcernedParts
      <3> QED
        BY <3>1, <3>2
    <2>2. CASE n = MissionNode
      <3>1. Reached(T, n) = Members(T) \ {ProjectNode, MissionNode}
        BY <2>2, ReachedFromMission
      <3>2. Concerned(T, n) = Members(T) \ {ProjectNode, MissionNode}
        BY <2>2, ConcernedParts
      <3> QED
        BY <3>1, <3>2
    <2>3. CASE n[2] \in {"SoftwareAsset", "ValidationResult"}
      BY <2>3, ReachedFromOthers
    <2> QED
      BY <2>1, <2>2, <2>3
  <1>2. \E m \in DOMAIN T.relationships : n \in {T.relationships[m].from, T.relationships[m].to}
    <2>1. DOMAIN T.nodes = SourceNodes(s)
      BY TwinBindings
    <2> DEFINE R == Relations(s, declared)
    <2>2. T.relationships = buildRelationships(R, T.nodes, before.relationships)
      BY DEF Projected
    <2>3. /\ \A m : m \in DOMAIN T.relationships <=> \E r \in R : m = r.id
          /\ \A r \in R : T.relationships[r.id].from = r.from /\ T.relationships[r.id].to = r.to
      BY <2>2, BuiltRelationships
    <2>4. \E r \in R : n \in {r.from, r.to}
      <3>1. CASE n = ProjectNode \/ n = MissionNode
        <4>1. Derived("SCOPED_TO", MissionNode, ProjectNode) \in R
          BY DEF Relations, RowRelations, ScopeRelations
        <4>2. /\ Derived("SCOPED_TO", MissionNode, ProjectNode).from = MissionNode
              /\ Derived("SCOPED_TO", MissionNode, ProjectNode).to = ProjectNode
          BY DEF Derived, Relation
        <4> QED
          BY <3>1, <4>1, <4>2
      <3>2. CASE n[2] = "SoftwareAsset"
        <4> DEFINE q == Relation("SCOPED_TO", <<"code-asset", n[3], "mission">>,
                                 Node("SoftwareAsset", n[3]), MissionNode, s.map.snapshot)
        <4>1. n = Node("SoftwareAsset", n[3]) /\ n[3] \in DOMAIN s.map.assets
          BY <2>1, <3>2, SourceNodesAre DEF IsNode
        <4>2. q \in AssetRelations(s)
          BY <4>1 DEF AssetRelations
        <4>3. q \in R
          BY <4>2 DEF Relations, MapRelations
        <4>4. q.from = n
          BY <4>1 DEF Relation
        <4> HIDE DEF q, R
        <4> QED
          BY <4>3, <4>4
      <3>3. CASE n[2] = "ValidationResult"
        <4> DEFINE q == Derived("SCOPED_TO", n, MissionNode)
        <4>1. q \in ScopeRelations(s)
          BY <2>1, <3>3 DEF ScopeRelations
        <4>2. q \in R
          BY <4>1 DEF Relations, RowRelations
        <4>3. q.from = n
          BY DEF Derived, Relation
        <4> HIDE DEF q, R
        <4> QED
          BY <4>2, <4>3
      <3> QED
        BY <3>1, <3>2, <3>3
    <2> HIDE DEF R
    <2> QED
      BY <2>3, <2>4
  <1>3. Concerned(T, n) # {}
    BY <1>2, ConcernedParts
  <1> QED
    BY <1>1, <1>3

\* The list of a projection: the sources that changed since its predecessor's.
LEMMA ListIsExact ==
    ASSUME NEW s, NEW d, NEW t, NEW e, NEW b, Acceptable(s, d), Acceptable(t, e), Later(s, t),
           NEW T, T = Projected(s, d, b), NEW U, U = Projected(t, e, T)
    PROVE  ListsTheCauses(T, U) /\ FewAreCauses(T, U)
  <1> DEFINE built == [nodes |-> U.nodes, relationships |-> U.relationships]
             causes == Causes(T.input.sources, U.input.sources)
             Changed == {n \in Members(T) : ~ Unchanged(T, built, n) /\ Reached(T, n) # {}}
             Row(n) == [changeType |-> IF n \in Members(built) THEN "CHANGED" ELSE "REMOVED",
                        dependency |-> n, dependents |-> Reached(T, n)]
             Wanted(n) == [changeType |-> IF n \in DOMAIN U.nodes THEN "CHANGED" ELSE "REMOVED",
                           dependency |-> n, dependents |-> Concerned(T, n)]
  <1>1. /\ T.nodes = buildNodes(s, b.nodes) /\ T.input = InputDigest(s, d)
        /\ U.nodes = buildNodes(t, T.nodes) /\ U.input = InputDigest(t, e)
    BY DEF Projected
  <1>2. /\ DOMAIN T.nodes = SourceNodes(s)
        /\ DOMAIN U.nodes = SourceNodes(t)
        /\ \A m \in DOMAIN T.relationships : m \notin DOMAIN T.nodes
        /\ \A n \in SourceNodes(s) : n[1] = "NODE"
    BY TwinBindings, SourceNodesAre DEF IsNode
  <1>3. \A m \in DOMAIN U.relationships : m[1] = "RELATIONSHIP"
    <2>1. U.relationships = buildRelationships(Relations(t, e), U.nodes, T.relationships)
      BY DEF Projected
    <2> QED
      BY <2>1, BuiltRelationships, RelationEnds
  <1>4. T # NoTwin
    <2>1. T.nodes # <<>>
      <3>1. ProjectNode \in DOMAIN T.nodes
        BY <1>2, SourceNodesAre
      <3>2. DOMAIN <<>> = {}
        OBVIOUS
      <3> QED
        BY <3>1, <3>2
    <2>2. NoTwin.nodes = <<>>
      BY DEF NoTwin
    <2> QED
      BY <2>1, <2>2
  <1>5. U.invalidations = exactInvalidations(T, built)
    BY <1>4 DEF Projected
  <1>6. U.invalidations = {Row(n) : n \in Changed}
    BY <1>5 DEF exactInvalidations
  <1>7. \A n \in causes : /\ n \in DOMAIN T.nodes
                          /\ n[2] \notin {"EvidenceSource", "Claim", "GitSnapshot"}
                          /\ n = ProjectNode \/ n = MissionNode
                                \/ n[2] \in {"SoftwareAsset", "ValidationResult"}
    BY <1>1, <1>2, CausesAre
  <1>8. \A n \in causes : Reached(T, n) = Concerned(T, n) /\ Reached(T, n) # {}
    BY <1>7, CausesReach
  <1>9. \A n \in DOMAIN T.nodes : n \in causes <=> ~ Unchanged(T, built, n)
    <2> SUFFICES ASSUME NEW n \in DOMAIN T.nodes
                 PROVE  n \in causes <=> ~ Unchanged(T, built, n)
      OBVIOUS
    <2>1. n \in Members(built) <=> n \in DOMAIN U.nodes
      BY <1>2, <1>3 DEF Members
    <2>2. n \in causes <=> n \notin SourceNodes(t) \/ SourceDigest(t, n) # SourceDigest(s, n)
      BY <1>1, <1>2 DEF Causes, InputDigest
    <2>3. Reference(T, n).digest = SourceDigest(s, n)
      BY <1>1, <1>2 DEF Reference, buildNodes
    <2>4. n \in DOMAIN U.nodes => Reference(built, n).digest = SourceDigest(t, n)
      BY <1>1, <1>2 DEF Reference, buildNodes
    <2> QED
      BY <1>2, <2>1, <2>2, <2>3, <2>4 DEF Unchanged
  <1>10. \A m \in DOMAIN T.relationships : Reached(T, m) = {}
    BY NothingHangsOnRelationships
  <1>11. Changed = causes
    BY <1>7, <1>8, <1>9, <1>10 DEF Members
  <1>12. \A n \in causes : Row(n) = Wanted(n)
    <2> SUFFICES ASSUME NEW n \in causes PROVE Row(n) = Wanted(n)
      OBVIOUS
    <2>1. n \in Members(built) <=> n \in DOMAIN U.nodes
      BY <1>2, <1>3, <1>7 DEF Members
    <2> QED
      BY <1>8, <2>1
  <1> HIDE DEF Row, Changed, causes
  <1>13. U.invalidations = {Wanted(n) : n \in causes}
    BY <1>6, <1>11, <1>12
  <1> QED
    BY <1>7, <1>13 DEF ListsTheCauses, FewAreCauses, causes

\* Whoever is not listed keeps its revision: its source is as it was, or both
\* its ends are.
LEMMA RestIsSpared ==
    ASSUME NEW s, NEW d, NEW t, NEW e, NEW b, Acceptable(s, d), Acceptable(t, e), Later(s, t),
           NEW T, T = Projected(s, d, b), NEW U, U = Projected(t, e, T),
           NumbersBefore(b)
    PROVE  SparesTheRest(T, U)
  <1> DEFINE causes == Causes(T.input.sources, U.input.sources)
             R == Relations(s, d)
             Q == Relations(t, e)
  <1> SUFFICES ASSUME NEW m \in Members(T) \ Listed(T, U)
               PROVE  \/ m \in Members(U) /\ Reference(T, m).revision = Reference(U, m).revision
                      \/ Replaced(T, U, m)
    BY DEF SparesTheRest
  <1>1. /\ T.nodes = buildNodes(s, b.nodes) /\ T.input = InputDigest(s, d)
        /\ U.nodes = buildNodes(t, T.nodes) /\ U.input = InputDigest(t, e)
        /\ T.relationships = buildRelationships(R, T.nodes, b.relationships)
        /\ U.relationships = buildRelationships(Q, U.nodes, T.relationships)
    BY DEF Projected
  <1>2. DOMAIN T.nodes = SourceNodes(s) /\ DOMAIN U.nodes = SourceNodes(t)
    BY <1>1 DEF buildNodes
  <1>3. TwinOK(T) /\ NumbersBefore(T)
    <2>1. TwinOK(T)
      BY ProjectedIsOK
    <2> QED
      BY <2>1 DEF TwinOK, NumbersBefore
  <1>4. TwinOK(U) /\ Renumbers(T, U)
    BY <1>3, ProjectedIsOK
  <1>5. ASSUME NEW n \in DOMAIN T.nodes, n \notin causes
        PROVE  /\ n \in DOMAIN U.nodes
               /\ T.nodes[n].revision = U.nodes[n].revision
               /\ T.nodes[n] = U.nodes[n]
    <2>1. n \in SourceNodes(t) /\ SourceDigest(t, n) = SourceDigest(s, n)
      BY <1>1, <1>2, <1>5 DEF Causes, InputDigest
    <2>2. /\ T.nodes[n].digest = SourceDigest(s, n)
          /\ U.nodes[n].digest = SourceDigest(s, n)
          /\ U.nodes[n].revision = Numbered(T.nodes, n, SourceDigest(s, n))
      BY <1>1, <1>2, <2>1 DEF buildNodes
    <2>3. T.nodes[n].revision = U.nodes[n].revision
      BY <2>2 DEF Numbered
    <2>4. T.nodes[n] = [revision |-> T.nodes[n].revision, digest |-> SourceDigest(s, n)]
      BY <1>1, <1>2 DEF buildNodes
    <2>5. U.nodes[n] = [revision |-> U.nodes[n].revision, digest |-> SourceDigest(s, n)]
      BY <1>1, <1>2, <2>1 DEF buildNodes
    <2> QED
      BY <1>2, <2>1, <2>3, <2>4, <2>5
  <1>6. m \notin causes /\ \A x \in U.invalidations : m \notin x.dependents
    BY DEF Listed
  <1>7. CASE m \in DOMAIN T.nodes
    BY <1>5, <1>6, <1>7 DEF Members, Reference
  <1>8. CASE m \in DOMAIN T.relationships
    <2>1. /\ \A x : x \in DOMAIN T.relationships <=> \E r \in R : x = r.id
          /\ \A r \in R :
                /\ T.relationships[r.id].from = r.from /\ T.relationships[r.id].to = r.to
                /\ T.relationships[r.id].digest = RelationDigest(r, T.nodes)
      BY <1>1, BuiltRelationships
    <2>2. PICK r \in R : m = r.id
      BY <1>8, <2>1
    <2>3. r.from \in DOMAIN T.nodes /\ r.to \in DOMAIN T.nodes /\ m \notin DOMAIN T.nodes
      BY <1>2, <1>8, <2>2, RelationEnds, TwinBindings
    <2>4. \A n \in DOMAIN T.nodes : n \in {r.from, r.to} => m \in Concerned(T, n)
      BY <1>8, <2>1, <2>2, ConcernedParts
    <2>5. ASSUME NEW n \in causes PROVE m \notin Concerned(T, n)
      <3> DEFINE x == [changeType |-> IF n \in DOMAIN U.nodes THEN "CHANGED" ELSE "REMOVED",
                       dependency |-> n, dependents |-> Concerned(T, n)]
      <3>1. x \in U.invalidations
        BY <2>5, ListIsExact DEF ListsTheCauses
      <3>2. x.dependents = Concerned(T, n)
        OBVIOUS
      <3> HIDE DEF x
      <3> QED
        BY <1>6, <3>1, <3>2
    <2>6. r.from \notin causes /\ r.to \notin causes
      BY <2>3, <2>4, <2>5
    <2>7. /\ r.from \in DOMAIN U.nodes /\ T.nodes[r.from] = U.nodes[r.from]
          /\ r.to \in DOMAIN U.nodes /\ T.nodes[r.to] = U.nodes[r.to]
      BY <1>5, <2>3, <2>6
    <2>8. CASE r \in Q
      <3>1. /\ m \in DOMAIN U.relationships
            /\ U.relationships[m].digest = RelationDigest(r, U.nodes)
            /\ U.relationships[m].revision =
                  Numbered(T.relationships, m, RelationDigest(r, U.nodes))
        BY <1>1, <2>2, <2>8, BuiltRelationships
      <3>2. RelationDigest(r, U.nodes) = RelationDigest(r, T.nodes)
        BY <2>7 DEF RelationDigest
      <3>3. T.relationships[m].digest = RelationDigest(r, T.nodes)
        BY <2>1, <2>2
      <3>4. T.relationships[m].revision = U.relationships[m].revision
        BY <1>8, <3>1, <3>2, <3>3 DEF Numbered
      <3>5. m \notin DOMAIN U.nodes
        BY <1>4, <3>1 DEF TwinOK
      <3> QED
        BY <2>3, <3>1, <3>4, <3>5 DEF Members, Reference
    <2>9. CASE r \notin Q
      <3>1. \/ m[3][1] \in {"code-asset", "code-edge"} /\ s.map # t.map
            \/ /\ m[3][1] = "semantic"
               /\ \A x \in d : x.type = m[2] /\ x.key = m[3][2] => x \notin e
        BY <1>2, <2>2, <2>7, <2>9, RelationsStay
      <3>2. /\ T.input.codeMap = s.map /\ T.input.declared = d
            /\ U.input.codeMap = t.map /\ U.input.declared = e
        BY <1>1 DEF InputDigest
      <3> QED
        BY <1>8, <3>1, <3>2 DEF Replaced
    <2> QED
      BY <2>8, <2>9
  <1> QED
    BY <1>7, <1>8 DEF Members

-----------------------------------------------------------------------------
(***************************************************************************)
(* The chain.                                                              *)
(***************************************************************************)
\* What is stored refers to what is stored.
StoredOK == stored \in Storable /\ RefersToStored(stored)

\* The last projection is of sources that what is stored came after.
LastOK ==
    twinChain # <<>> =>
        \E s \in Storable, declared \in SUBSET Declarations,
           b \in {NoTwin} \cup {twinChain[k] : k \in DOMAIN twinChain} :
            /\ Acceptable(s, declared)
            /\ Later(s, stored)
            /\ NumbersBefore(b)
            /\ Predecessor = Projected(s, declared, b)

TwinsOK ==
    /\ twinChain \in Seq({twinChain[k] : k \in DOMAIN twinChain})
    /\ \A i \in DOMAIN twinChain : TwinOK(twinChain[i])
    /\ \A i \in 2 .. Len(twinChain) : Renumbers(twinChain[i - 1], twinChain[i])

\* Revisions of a member that stays never go back, and one of them has one
\* digest.
NumbersName ==
    \A i, j \in DOMAIN twinChain : i < j =>
        \A m \in Throughout(i, j) :
            LET former == Reference(twinChain[i], m) latter == Reference(twinChain[j], m) IN
            /\ former.revision <= latter.revision
            /\ former.revision = latter.revision => former.digest = latter.digest

ChainInv == StoredOK /\ LastOK /\ TwinsOK /\ NumbersName /\ InvalidationsAreExact

LEMMA SetsOfRows ==
    ASSUME NEW s \in Storable
    PROVE  /\ s.results \subseteq Results /\ s.replaced \subseteq Results
           /\ s.mapped \subseteq GitSnapshots
  BY DEF Storable

WithResults(s, results, replaced) == [s EXCEPT !.results = results, !.replaced = replaced]
WithMap(s, mapped, map) == [s EXCEPT !.mapped = mapped, !.map = map]

LEMMA StoredWithResults ==
    ASSUME NEW s \in Storable, NEW results \in SUBSET Results, NEW replaced \in SUBSET Results,
           NEW t, t = WithResults(s, results, replaced)
    PROVE  /\ t \in Storable
           /\ t.results = results
           /\ t.evidence = s.evidence /\ t.claims = s.claims
           /\ t.snapshots = s.snapshots /\ t.mapped = s.mapped /\ t.map = s.map
  <1> DEFINE u == [s EXCEPT !.results = results]
  <1>1. /\ u \in Storable
        /\ u.results = results /\ u.evidence = s.evidence /\ u.claims = s.claims
        /\ u.snapshots = s.snapshots /\ u.mapped = s.mapped /\ u.map = s.map
    BY DEF Storable
  <1>2. t = [u EXCEPT !.replaced = replaced]
    BY DEF Storable, WithResults
  <1> HIDE DEF u
  <1> QED
    BY <1>1, <1>2 DEF Storable

LEMMA StoredWithMap ==
    ASSUME NEW s \in Storable, NEW mapped \in SUBSET GitSnapshots,
           NEW map \in {NoMap} \cup {MapOf(h, f) : h \in GitSnapshots, f \in AssetMaps},
           NEW t, t = WithMap(s, mapped, map)
    PROVE  /\ t \in Storable
           /\ t.results = s.results
           /\ t.evidence = s.evidence /\ t.claims = s.claims
           /\ t.snapshots = s.snapshots /\ t.mapped = mapped /\ t.map = map
  <1> DEFINE u == [s EXCEPT !.mapped = mapped]
  <1>1. /\ u \in Storable
        /\ u.results = s.results /\ u.evidence = s.evidence /\ u.claims = s.claims
        /\ u.snapshots = s.snapshots /\ u.mapped = mapped
    BY DEF Storable
  <1>2. t = [u EXCEPT !.map = map]
    BY DEF Storable, WithMap
  <1> HIDE DEF u
  <1> QED
    BY <1>1, <1>2 DEF Storable

\* Every change of the sources leaves them in order, and comes after.
LEMMA ChangesComeAfter ==
    ASSUME StoredOK, ChangesNext
    PROVE  StoredOK' /\ Later(stored, stored') /\ UNCHANGED twinChain
  <1> USE DEF Change, StoredOK, Later
  <1>0. \A s \in Storable :
           /\ s.evidence \subseteq Sources /\ s.claims \subseteq AssertedClaims
           /\ s.snapshots \subseteq GitSnapshots /\ s.results \subseteq Results
    BY DEF Storable
  <1>1. CASE ArchiveMission
    BY <1>1 DEF ArchiveMission, Storable, RefersToStored
  <1>2. CASE ArchiveProject
    BY <1>2 DEF ArchiveProject, Storable, RefersToStored
  <1>3. ASSUME NEW e \in Sources, ImportSource(e)
        PROVE  StoredOK' /\ Later(stored, stored') /\ UNCHANGED twinChain
    BY <1>3 DEF ImportSource, Storable, RefersToStored
  <1>4. ASSUME NEW c \in AssertedClaims, ImportClaim(c)
        PROVE  StoredOK' /\ Later(stored, stored') /\ UNCHANGED twinChain
    BY <1>4 DEF ImportClaim, Storable, RefersToStored
  <1>5. ASSUME NEW g \in GitSnapshots, Capture(g)
        PROVE  StoredOK' /\ Later(stored, stored') /\ UNCHANGED twinChain
    BY <1>5 DEF Capture, Storable, RefersToStored
  <1>6. ASSUME NEW v \in Results, RecordResult(v)
        PROVE  StoredOK' /\ Later(stored, stored') /\ UNCHANGED twinChain
    <2> DEFINE former == {w \in stored.results : KeyOfResult[w] = KeyOfResult[v]}
    <2>1. /\ SourceOf[v] \in stored.evidence /\ SnapshotOf[v] \in stored.snapshots
          /\ stored' = WithResults(stored, (stored.results \ former) \cup {v},
                                   stored.replaced \cup former)
          /\ UNCHANGED twinChain
      BY <1>6 DEF RecordResult, WithResults
    <2>2. former \subseteq stored.results /\ v \in Results
      OBVIOUS
    <2> HIDE DEF former
    <2>3. /\ stored' \in Storable
          /\ stored'.results = (stored.results \ former) \cup {v}
          /\ stored'.evidence = stored.evidence /\ stored'.claims = stored.claims
          /\ stored'.snapshots = stored.snapshots /\ stored'.mapped = stored.mapped
          /\ stored'.map = stored.map
      <3>1. /\ (stored.results \ former) \cup {v} \in SUBSET Results
            /\ stored.replaced \cup former \in SUBSET Results
        BY <1>0, <2>2, SetsOfRows
      <3> QED
        BY <2>1, <3>1, StoredWithResults
    <2>4. RefersToStored(stored')
      BY <2>1, <2>3 DEF RefersToStored
    <2> QED
      BY <2>1, <2>3, <2>4
  <1>7. ASSUME NEW g \in GitSnapshots, NEW found \in AssetMaps, RunCodeMap(g, found)
        PROVE  StoredOK' /\ Later(stored, stored') /\ UNCHANGED twinChain
    <2>1. /\ g \in stored.snapshots
          /\ stored' = WithMap(stored, stored.mapped \cup {g}, MapOf(g, found))
          /\ UNCHANGED twinChain
      BY <1>7 DEF RunCodeMap, WithMap
    <2>2. MapOf(g, found).snapshot = g
      BY DEF MapOf
    <2>3. MapOf(g, found) \in {NoMap} \cup {MapOf(h, f) : h \in GitSnapshots, f \in AssetMaps}
      OBVIOUS
    <2>4. /\ stored' \in Storable
          /\ stored'.results = stored.results
          /\ stored'.evidence = stored.evidence /\ stored'.claims = stored.claims
          /\ stored'.snapshots = stored.snapshots /\ stored'.mapped = stored.mapped \cup {g}
          /\ stored'.map = MapOf(g, found)
      <3>1. stored.mapped \cup {g} \in SUBSET GitSnapshots
        BY SetsOfRows
      <3> QED
        BY <2>1, <2>3, <3>1, StoredWithMap
    <2>5. RefersToStored(stored')
      BY <2>1, <2>2, <2>4 DEF RefersToStored
    <2> QED
      BY <2>1, <2>4, <2>5
  <1> QED
    BY <1>1, <1>2, <1>3, <1>4, <1>5, <1>6, <1>7 DEF ChangesNext

LEMMA NumbersAreNat ==
    ASSUME NEW T, TwinOK(T), NEW m \in Members(T)
    PROVE  Reference(T, m).revision \in Nat
  <1>1. CASE m \in DOMAIN T.nodes
    BY <1>1 DEF TwinOK, Reference
  <1>2. CASE m \notin DOMAIN T.nodes
    BY <1>2 DEF TwinOK, Reference, Members
  <1> QED
    BY <1>1, <1>2

\* From one projection to the next, a member's revision stays with its digest
\* or goes up.
LEMMA NumbersGoUp ==
    ASSUME NEW T, NEW U, TwinOK(T), TwinOK(U), Renumbers(T, U),
           NEW m \in Members(T), m \in Members(U)
    PROVE  /\ Reference(T, m).revision \in Nat /\ Reference(U, m).revision \in Nat
           /\ Reference(T, m).revision <= Reference(U, m).revision
           /\ Reference(T, m).revision = Reference(U, m).revision <=>
                 Reference(T, m).digest = Reference(U, m).digest
  <1>1. CASE m \in DOMAIN T.nodes
    <2>1. m \in DOMAIN U.nodes
      BY <1>1 DEF TwinOK, Members
    <2>2. Reference(T, m) = T.nodes[m] /\ Reference(U, m) = U.nodes[m]
      BY <1>1, <2>1 DEF Reference
    <2>3. T.nodes[m].revision \in Nat /\ U.nodes[m].revision \in Nat
      BY <1>1, <2>1 DEF TwinOK
    <2>4. U.nodes[m].revision = Numbered(T.nodes, m, U.nodes[m].digest)
      BY <1>1, <2>1 DEF Renumbers
    <2> QED
      BY <1>1, <2>2, <2>3, <2>4 DEF Numbered
  <1>2. CASE m \in DOMAIN T.relationships
    <2>1. m \in DOMAIN U.relationships /\ m \notin DOMAIN T.nodes /\ m \notin DOMAIN U.nodes
      BY <1>2 DEF TwinOK, Members
    <2>2. /\ Reference(T, m).revision = T.relationships[m].revision
          /\ Reference(T, m).digest = T.relationships[m].digest
          /\ Reference(U, m).revision = U.relationships[m].revision
          /\ Reference(U, m).digest = U.relationships[m].digest
      BY <2>1 DEF Reference
    <2>3. T.relationships[m].revision \in Nat /\ U.relationships[m].revision \in Nat
      BY <1>2, <2>1 DEF TwinOK
    <2>4. U.relationships[m].revision = Numbered(T.relationships, m, U.relationships[m].digest)
      BY <1>2, <2>1 DEF Renumbers
    <2> QED
      BY <1>2, <2>2, <2>3, <2>4 DEF Numbered
  <1> QED
    BY <1>1, <1>2 DEF Members

LEMMA ExactIs ==
    InvalidationsAreExact <=>
        \A i \in 2 .. Len(twinChain) :
            /\ ListsTheCauses(twinChain[i - 1], twinChain[i])
            /\ FewAreCauses(twinChain[i - 1], twinChain[i])
            /\ SparesTheRest(twinChain[i - 1], twinChain[i])
  BY DEF InvalidationsAreExact, ListsTheCauses, FewAreCauses, SparesTheRest, Listed

LEMMA SeqIsOfItsElements ==
    ASSUME NEW S, NEW q \in Seq(S)
    PROVE  q \in Seq({q[k] : k \in DOMAIN q})
  <1>1. Len(q) \in Nat /\ DOMAIN q = 1 .. Len(q)
    BY LenProperties
  <1>2. q = [k \in 1 .. Len(q) |-> q[k]]
    BY <1>1
  <1>3. \A k \in 1 .. Len(q) : q[k] \in {q[l] : l \in DOMAIN q}
    BY <1>1
  <1> QED
    BY <1>1, <1>2, <1>3

\* A projection puts one at the end of the chain.
LEMMA ChainGrows ==
    ASSUME NEW U, twinChain \in Seq({twinChain[k] : k \in DOMAIN twinChain}),
           twinChain' = Append(twinChain, U)
    PROVE  /\ Len(twinChain) \in Nat /\ DOMAIN twinChain = 1 .. Len(twinChain)
           /\ Len(twinChain)' = Len(twinChain) + 1
           /\ DOMAIN twinChain' = 1 .. Len(twinChain) + 1
           /\ \A i \in 1 .. Len(twinChain) : twinChain'[i] = twinChain[i]
           /\ twinChain'[Len(twinChain) + 1] = U
           /\ Predecessor' = U
           /\ twinChain' \in Seq({twinChain'[k] : k \in DOMAIN twinChain'})
           /\ twinChain' # <<>>
  <1> DEFINE n == Len(twinChain)
             S == {twinChain[k] : k \in DOMAIN twinChain}
  <1>1. n \in Nat /\ DOMAIN twinChain = 1 .. n
    BY LenProperties
  <1>2. twinChain \in Seq(S \cup {U})
    <2>1. \A k \in 1 .. n : twinChain[k] \in S \cup {U}
      BY <1>1
    <2>2. twinChain = [k \in 1 .. n |-> twinChain[k]]
      BY <1>1
    <2> QED
      BY <1>1, <2>1, <2>2
  <1>3. /\ Len(twinChain') = n + 1
        /\ \A i \in 1 .. n : twinChain'[i] = twinChain[i]
        /\ twinChain'[n + 1] = U
        /\ twinChain' \in Seq(S \cup {U})
    BY <1>2, AppendProperties
  <1>4. DOMAIN twinChain' = 1 .. n + 1
    BY <1>3, LenProperties
  <1>5. twinChain' # <<>>
    BY <1>1, <1>3
  <1>6. Predecessor' = U
    BY <1>3, <1>5 DEF Predecessor
  <1>7. twinChain' \in Seq({twinChain'[k] : k \in DOMAIN twinChain'})
    BY <1>3, SeqIsOfItsElements
  <1> QED
    BY <1>1, <1>3, <1>4, <1>5, <1>6, <1>7

\* A projection of what is stored is a link of the chain.
LEMMA ProjectionKeepsChain ==
    ASSUME ChainInv, NEW declared \in SUBSET Declarations, projectTwinRevision(declared)
    PROVE  ChainInv'
  <1> DEFINE n == Len(twinChain)
             U == Projected(stored, declared, Predecessor)
  <1> USE DEF ChainInv
  <1>1. twinChain' = Append(twinChain, U) /\ stored' = stored
    BY DEF projectTwinRevision
  <1>2. Acceptable(stored, declared)
    BY DEF projectTwinRevision, Acceptable, StoredOK
  <1> HIDE DEF U
  <1>3. /\ n \in Nat /\ DOMAIN twinChain = 1 .. n
        /\ Len(twinChain)' = n + 1 /\ DOMAIN twinChain' = 1 .. n + 1
        /\ \A i \in 1 .. n : twinChain'[i] = twinChain[i]
        /\ twinChain'[n + 1] = U
        /\ Predecessor' = U
        /\ twinChain' \in Seq({twinChain'[k] : k \in DOMAIN twinChain'})
    BY <1>1, ChainGrows DEF TwinsOK
  <1>4. NumbersBefore(Predecessor)
    <2>1. CASE twinChain = <<>>
      <3>1. Predecessor.nodes = <<>> /\ Predecessor.relationships = <<>>
        BY <2>1 DEF Predecessor, NoTwin
      <3>2. DOMAIN <<>> = {}
        OBVIOUS
      <3> QED
        BY <3>1, <3>2 DEF NumbersBefore
    <2>2. CASE twinChain # <<>>
      <3>1. n # 0
        BY <2>2, EmptySeq DEF TwinsOK
      <3>2. Predecessor = twinChain[n] /\ n \in DOMAIN twinChain
        BY <1>3, <2>2, <3>1 DEF Predecessor
      <3> QED
        BY <3>2 DEF TwinsOK, TwinOK, NumbersBefore
    <2> QED
      BY <2>1, <2>2
  <1>5. TwinOK(U) /\ Renumbers(Predecessor, U)
    BY <1>2, <1>4, ProjectedIsOK DEF U
  <1>6. ASSUME n # 0
        PROVE  /\ n \in DOMAIN twinChain
               /\ Predecessor = twinChain[n]
               /\ ListsTheCauses(twinChain[n], U)
               /\ FewAreCauses(twinChain[n], U)
               /\ SparesTheRest(twinChain[n], U)
    <2>1. twinChain # <<>>
      BY <1>6
    <2>2. Predecessor = twinChain[n] /\ n \in DOMAIN twinChain
      BY <1>3, <1>6, <2>1 DEF Predecessor
    <2>3. PICK s \in Storable, d \in SUBSET Declarations,
               b \in {NoTwin} \cup {twinChain[k] : k \in DOMAIN twinChain} :
                  /\ Acceptable(s, d)
                  /\ Later(s, stored)
                  /\ NumbersBefore(b)
                  /\ Predecessor = Projected(s, d, b)
      BY <2>1 DEF LastOK
    <2>4. ListsTheCauses(Predecessor, U) /\ FewAreCauses(Predecessor, U)
      BY <1>2, <2>3, ListIsExact DEF U
    <2>5. SparesTheRest(Predecessor, U)
      BY <1>2, <2>3, RestIsSpared DEF U
    <2> QED
      BY <2>2, <2>4, <2>5
  <1>7. StoredOK'
    BY <1>1 DEF StoredOK
  <1>8. LastOK'
    <2>1. stored \in Storable /\ Later(stored, stored)
      BY DEF StoredOK, Later
    <2>2. Predecessor \in {NoTwin} \cup {twinChain'[k] : k \in DOMAIN twinChain'}
      <3>1. CASE n = 0
        <4>1. twinChain = <<>>
          BY <3>1, EmptySeq DEF TwinsOK
        <4> QED
          BY <4>1 DEF Predecessor
      <3>2. CASE n # 0
        BY <1>3, <1>6, <3>2
      <3> QED
        BY <3>1, <3>2
    <2>3. Predecessor' = Projected(stored, declared, Predecessor)
      BY <1>3 DEF U
    <2> QED
      BY <1>1, <1>2, <1>4, <2>1, <2>2, <2>3 DEF LastOK
  <1>9. TwinsOK'
    <2>1. \A i \in DOMAIN twinChain' : TwinOK(twinChain'[i])
      BY <1>3, <1>5 DEF TwinsOK
    <2>2. ASSUME NEW i \in 2 .. n + 1 PROVE Renumbers(twinChain'[i - 1], twinChain'[i])
      <3>1. CASE i = n + 1
        BY <1>3, <1>5, <1>6, <3>1
      <3>2. CASE i # n + 1
        <4>1. i \in 2 .. n /\ i \in 1 .. n /\ i - 1 \in 1 .. n
          BY <1>3, <3>2
        <4>2. twinChain'[i] = twinChain[i] /\ twinChain'[i - 1] = twinChain[i - 1]
          BY <1>3, <4>1
        <4> QED
          BY <4>1, <4>2 DEF TwinsOK
      <3> QED
        BY <3>1, <3>2
    <2> QED
      BY <1>3, <2>1, <2>2 DEF TwinsOK
  <1>10. NumbersName'
    <2> SUFFICES ASSUME NEW i \in 1 .. n + 1, NEW j \in 1 .. n + 1, i < j,
                        NEW m \in Members(twinChain'[i]),
                        \A k \in i .. j : m \in Members(twinChain'[k])
                 PROVE  /\ Reference(twinChain'[i], m).revision <= Reference(twinChain'[j], m).revision
                        /\ Reference(twinChain'[i], m).revision = Reference(twinChain'[j], m).revision =>
                              Reference(twinChain'[i], m).digest = Reference(twinChain'[j], m).digest
      BY <1>3 DEF NumbersName, Throughout
    <2>1. i \in 1 .. n /\ twinChain'[i] = twinChain[i]
      BY <1>3
    <2>2. ASSUME NEW l \in 1 .. n, i < l, l <= j
          PROVE  /\ Reference(twinChain[i], m).revision <= Reference(twinChain[l], m).revision
                 /\ Reference(twinChain[i], m).revision = Reference(twinChain[l], m).revision =>
                       Reference(twinChain[i], m).digest = Reference(twinChain[l], m).digest
      <3>1. \A k \in i .. l : m \in Members(twinChain[k])
        BY <1>3, <2>1, <2>2
      <3>2. m \in Throughout(i, l)
        BY <2>1, <3>1 DEF Throughout
      <3> QED
        BY <1>3, <2>1, <2>2, <3>2 DEF NumbersName
    <2>3. CASE j # n + 1
      BY <1>3, <2>1, <2>2, <2>3
    <2>4. CASE j = n + 1
      <3>1. n # 0 /\ m \in Members(twinChain[n]) /\ m \in Members(U)
        BY <1>3, <2>1, <2>4
      <3>2. TwinOK(twinChain[n]) /\ Renumbers(twinChain[n], U)
        BY <1>5, <1>6, <3>1 DEF TwinsOK
      <3>3. /\ Reference(twinChain[n], m).revision \in Nat /\ Reference(U, m).revision \in Nat
            /\ Reference(twinChain[n], m).revision <= Reference(U, m).revision
            /\ Reference(twinChain[n], m).revision = Reference(U, m).revision =>
                  Reference(twinChain[n], m).digest = Reference(U, m).digest
        BY <1>5, <3>1, <3>2, NumbersGoUp
      <3>4. CASE i = n
        BY <1>3, <2>1, <2>4, <3>3, <3>4
      <3>5. CASE i # n
        <4>1. /\ Reference(twinChain[i], m).revision <= Reference(twinChain[n], m).revision
              /\ Reference(twinChain[i], m).revision = Reference(twinChain[n], m).revision =>
                    Reference(twinChain[i], m).digest = Reference(twinChain[n], m).digest
          <5>1. n \in 1 .. n /\ i < n /\ n <= j
            <6>1. n \in Nat /\ i \in 1 .. n /\ j = n + 1 /\ i # n
              BY <1>3, <2>1, <2>4, <3>5
            <6> HIDE DEF n
            <6> QED
              BY <6>1
          <5> QED
            BY <2>2, <5>1
        <4>2. Reference(twinChain[i], m).revision \in Nat
          <5>1. m \in Members(twinChain[i]) /\ TwinOK(twinChain[i])
            BY <1>3, <2>1 DEF TwinsOK
          <5> QED
            BY <5>1, NumbersAreNat
        <4> QED
          BY <1>3, <2>1, <2>4, <3>3, <4>1, <4>2
      <3> QED
        BY <3>4, <3>5
    <2> QED
      BY <2>3, <2>4
  <1>11. InvalidationsAreExact'
    <2>1. \A i \in 2 .. n :
             /\ ListsTheCauses(twinChain[i - 1], twinChain[i])
             /\ FewAreCauses(twinChain[i - 1], twinChain[i])
             /\ SparesTheRest(twinChain[i - 1], twinChain[i])
      BY ExactIs
    <2>2. ASSUME NEW i \in 2 .. n + 1
          PROVE  /\ ListsTheCauses(twinChain'[i - 1], twinChain'[i])
                 /\ FewAreCauses(twinChain'[i - 1], twinChain'[i])
                 /\ SparesTheRest(twinChain'[i - 1], twinChain'[i])
      <3>1. CASE i = n + 1
        BY <1>3, <1>6, <3>1
      <3>2. CASE i # n + 1
        <4>1. i \in 2 .. n /\ i \in 1 .. n /\ i - 1 \in 1 .. n
          BY <1>3, <3>2
        <4>2. twinChain'[i] = twinChain[i] /\ twinChain'[i - 1] = twinChain[i - 1]
          BY <1>3, <4>1
        <4> QED
          BY <2>1, <4>1, <4>2
      <3> QED
        BY <3>1, <3>2
    <2>3. (InvalidationsAreExact <=>
              \A i \in 2 .. Len(twinChain) :
                 /\ ListsTheCauses(twinChain[i - 1], twinChain[i])
                 /\ FewAreCauses(twinChain[i - 1], twinChain[i])
                 /\ SparesTheRest(twinChain[i - 1], twinChain[i]))'
      BY ExactIs, PTL
    <2> QED
      BY <1>3, <2>2, <2>3
  <1> QED
    BY <1>7, <1>8, <1>9, <1>10, <1>11

LEMMA ChainStarts ==
    ProjectionInit => ChainInv
  <1> SUFFICES ASSUME ProjectionInit PROVE ChainInv
    OBVIOUS
  <1>1. twinChain = <<>> /\ stored \in StoredBefore
    BY DEF ProjectionInit
  <1>2. DOMAIN twinChain = {} /\ Len(twinChain) = 0
    BY <1>1
  <1>3. StoredOK
    BY <1>1, StoredBeforeAssumption DEF StoredOK
  <1>4. LastOK
    BY <1>1 DEF LastOK
  <1>5. TwinsOK
    <2>1. twinChain \in Seq({twinChain[k] : k \in DOMAIN twinChain})
      BY <1>1, EmptySeq
    <2>2. 2 .. Len(twinChain) = {}
      BY <1>2
    <2> QED
      BY <1>2, <2>1, <2>2 DEF TwinsOK
  <1>6. NumbersName
    BY <1>2 DEF NumbersName
  <1>7. InvalidationsAreExact
    <2>1. 2 .. Len(twinChain) = {}
      BY <1>2
    <2> QED
      BY <2>1, ExactIs
  <1> QED
    BY <1>3, <1>4, <1>5, <1>6, <1>7 DEF ChainInv

LEMMA StepsKeepChain ==
    ChainInv /\ [ProjectionNext]_projectionVars => ChainInv'
  <1> SUFFICES ASSUME ChainInv, [ProjectionNext]_projectionVars PROVE ChainInv'
    OBVIOUS
  <1>1. CASE ChangesNext
    <2>1. StoredOK' /\ Later(stored, stored') /\ UNCHANGED twinChain
      BY <1>1, ChangesComeAfter DEF ChainInv
    <2>2. LastOK'
      BY <2>1 DEF ChainInv, LastOK, Later, Predecessor
    <2>3. TwinsOK'
      BY <2>1 DEF ChainInv, TwinsOK
    <2>4. NumbersName'
      BY <2>1 DEF ChainInv, NumbersName, Throughout
    <2>5. InvalidationsAreExact'
      BY <2>1 DEF ChainInv, InvalidationsAreExact
    <2> QED
      BY <2>1, <2>2, <2>3, <2>4, <2>5 DEF ChainInv
  <1>2. ASSUME NEW declared \in SUBSET Declarations, projectTwinRevision(declared)
        PROVE  ChainInv'
    BY <1>2, ProjectionKeepsChain
  <1>3. CASE UNCHANGED projectionVars
    <2>1. StoredOK'
      BY <1>3 DEF projectionVars, ChainInv, StoredOK
    <2>2. LastOK'
      BY <1>3 DEF projectionVars, ChainInv, LastOK, Predecessor
    <2>3. TwinsOK'
      BY <1>3 DEF projectionVars, ChainInv, TwinsOK
    <2>4. NumbersName'
      BY <1>3 DEF projectionVars, ChainInv, NumbersName, Throughout
    <2>5. InvalidationsAreExact'
      BY <1>3 DEF projectionVars, ChainInv, InvalidationsAreExact
    <2> QED
      BY <2>1, <2>2, <2>3, <2>4, <2>5 DEF ChainInv
  <1> QED
    BY <1>1, <1>2, <1>3 DEF ProjectionNext

LEMMA NodeDigests ==
    ASSUME NEW T, TwinOK(T), NEW n \in DOMAIN T.nodes
    PROVE  T.nodes[n].digest = T.input.sources[n]
  <1> DEFINE v == T.nodes[n].revision
  <1>1. T.nodes[n] = [revision |-> v, digest |-> T.input.sources[n]]
    BY DEF TwinOK
  <1> HIDE DEF v
  <1> QED
    BY <1>1

\* What a member shows goes with its digest.
LEMMA DigestsAreContents ==
    ASSUME NEW T, NEW U, TwinOK(T), TwinOK(U), NEW m \in Members(T), m \in Members(U),
           Reference(T, m).digest = Reference(U, m).digest
    PROVE  Contents(T, m) = Contents(U, m)
  <1>1. CASE m \in DOMAIN T.nodes
    <2>1. m \in DOMAIN U.nodes
      BY <1>1 DEF TwinOK, Members
    <2>2. T.nodes[m].digest = U.nodes[m].digest
      BY <1>1, <2>1 DEF Reference
    <2>3. T.nodes[m].digest = T.input.sources[m] /\ U.nodes[m].digest = U.input.sources[m]
      BY <1>1, <2>1, NodeDigests
    <2> QED
      BY <1>1, <2>1, <2>2, <2>3 DEF Contents
  <1>2. CASE m \in DOMAIN T.relationships
    <2> DEFINE r == T.relationships[m]
               q == U.relationships[m]
    <2>1. m \in DOMAIN U.relationships /\ m \notin DOMAIN T.nodes /\ m \notin DOMAIN U.nodes
      BY <1>2 DEF TwinOK, Members
    <2>2. RelationDigest(r, T.nodes) = RelationDigest(q, U.nodes)
      BY <1>2, <2>1 DEF Reference, TwinOK
    <2>3. /\ r.from = q.from /\ r.to = q.to /\ r.attribution = q.attribution
          /\ T.nodes[r.from] = U.nodes[r.from] /\ T.nodes[r.to] = U.nodes[r.to]
      BY <2>2 DEF RelationDigest
    <2>4. /\ r.from \in DOMAIN T.nodes /\ r.to \in DOMAIN T.nodes
          /\ r.from \in DOMAIN U.nodes /\ r.to \in DOMAIN U.nodes
      BY <1>2, <2>1, <2>3 DEF TwinOK
    <2>5. /\ T.nodes[r.from].digest = T.input.sources[r.from]
          /\ T.nodes[r.to].digest = T.input.sources[r.to]
          /\ U.nodes[r.from].digest = U.input.sources[r.from]
          /\ U.nodes[r.to].digest = U.input.sources[r.to]
      BY <2>4, NodeDigests
    <2> HIDE DEF r, q
    <2>6. /\ T.input.sources[r.from] = U.input.sources[r.from]
          /\ T.input.sources[r.to] = U.input.sources[r.to]
      BY <2>3, <2>5
    <2> QED
      BY <2>1, <2>3, <2>6 DEF Contents, r, q
  <1> QED
    BY <1>1, <1>2 DEF Members

\* ... and in the next revision the other way about: a relationship's ends, and
\* with them their revisions, are as they were.
LEMMA ContentsAreDigests ==
    ASSUME NEW T, NEW U, TwinOK(T), TwinOK(U), Renumbers(T, U),
           NEW m \in Members(T), m \in Members(U), Contents(T, m) = Contents(U, m)
    PROVE  Reference(T, m).digest = Reference(U, m).digest
  <1>1. ASSUME NEW n \in DOMAIN T.nodes, n \in DOMAIN U.nodes,
               T.input.sources[n] = U.input.sources[n]
        PROVE  T.nodes[n] = U.nodes[n] /\ T.nodes[n].digest = U.nodes[n].digest
    <2>1. /\ T.nodes[n] = [revision |-> T.nodes[n].revision, digest |-> T.input.sources[n]]
          /\ U.nodes[n] = [revision |-> U.nodes[n].revision, digest |-> U.input.sources[n]]
      BY <1>1 DEF TwinOK
    <2>2. T.nodes[n].digest = U.nodes[n].digest
      BY <1>1, <2>1
    <2>3. U.nodes[n].revision = T.nodes[n].revision
      BY <1>1, <2>2 DEF Renumbers, Numbered
    <2> QED
      BY <1>1, <2>1, <2>2, <2>3
  <1>2. CASE m \in DOMAIN T.nodes
    <2>1. m \in DOMAIN U.nodes
      BY <1>2 DEF TwinOK, Members
    <2>2. T.input.sources[m] = U.input.sources[m]
      BY <1>2, <2>1 DEF Contents
    <2> QED
      BY <1>1, <1>2, <2>1, <2>2 DEF Reference
  <1>3. CASE m \in DOMAIN T.relationships
    <2> DEFINE r == T.relationships[m]
               q == U.relationships[m]
    <2>1. m \in DOMAIN U.relationships /\ m \notin DOMAIN T.nodes /\ m \notin DOMAIN U.nodes
      BY <1>3 DEF TwinOK, Members
    <2>2. /\ r.from = q.from /\ r.to = q.to /\ r.attribution = q.attribution
          /\ T.input.sources[r.from] = U.input.sources[r.from]
          /\ T.input.sources[r.to] = U.input.sources[r.to]
      BY <2>1 DEF Contents
    <2>3. /\ r.from \in DOMAIN T.nodes /\ r.to \in DOMAIN T.nodes
          /\ r.from \in DOMAIN U.nodes /\ r.to \in DOMAIN U.nodes
      BY <1>3, <2>1, <2>2 DEF TwinOK
    <2>4. T.nodes[r.from] = U.nodes[r.from] /\ T.nodes[r.to] = U.nodes[r.to]
      BY <1>1, <2>2, <2>3
    <2>5. RelationDigest(r, T.nodes) = RelationDigest(q, U.nodes)
      BY <2>2, <2>4 DEF RelationDigest
    <2>6. r.digest = RelationDigest(r, T.nodes) /\ q.digest = RelationDigest(q, U.nodes)
      BY <1>3, <2>1 DEF TwinOK
    <2> QED
      BY <2>1, <2>5, <2>6 DEF Reference
  <1> QED
    BY <1>2, <1>3 DEF Members

LEMMA ChainIsHonest ==
    ChainInv => RevisionsAreHonest
  <1> SUFFICES ASSUME ChainInv, NEW i \in DOMAIN twinChain, NEW j \in DOMAIN twinChain, i < j,
                      NEW m \in Throughout(i, j)
               PROVE  /\ Reference(twinChain[i], m).revision = Reference(twinChain[j], m).revision =>
                            Contents(twinChain[i], m) = Contents(twinChain[j], m)
                      /\ j = i + 1 /\ Contents(twinChain[i], m) = Contents(twinChain[j], m) =>
                            Reference(twinChain[i], m).revision = Reference(twinChain[j], m).revision
    BY DEF RevisionsAreHonest, RevisionsNameContents, ChainInv
  <1>1. Len(twinChain) \in Nat /\ DOMAIN twinChain = 1 .. Len(twinChain)
    BY LenProperties DEF ChainInv, TwinsOK
  <1>2. /\ TwinOK(twinChain[i]) /\ TwinOK(twinChain[j])
        /\ m \in Members(twinChain[i]) /\ m \in Members(twinChain[j])
    BY <1>1 DEF ChainInv, TwinsOK, Throughout
  <1>3. ASSUME Reference(twinChain[i], m).revision = Reference(twinChain[j], m).revision
        PROVE  Contents(twinChain[i], m) = Contents(twinChain[j], m)
    <2>1. Reference(twinChain[i], m).digest = Reference(twinChain[j], m).digest
      BY <1>3 DEF ChainInv, NumbersName
    <2> QED
      BY <1>2, <2>1, DigestsAreContents
  <1>4. ASSUME j = i + 1, Contents(twinChain[i], m) = Contents(twinChain[j], m)
        PROVE  Reference(twinChain[i], m).revision = Reference(twinChain[j], m).revision
    <2>1. j \in 2 .. Len(twinChain) /\ j - 1 = i
      BY <1>1, <1>4
    <2>2. Renumbers(twinChain[i], twinChain[j])
      BY <2>1 DEF ChainInv, TwinsOK
    <2>3. Reference(twinChain[i], m).digest = Reference(twinChain[j], m).digest
      BY <1>2, <1>4, <2>2, ContentsAreDigests
    <2> QED
      BY <1>2, <2>2, <2>3, NumbersGoUp
  <1> QED
    BY <1>3, <1>4

\* projectTwinRevision: a revision lists the sources that changed since its
\* predecessor's, each with all that it concerned; whoever is not listed keeps
\* its revision; and a member's revision names what it shows for as long as it
\* is there.
THEOREM RevisionsAreTrue == ProjectionSpec => []RevisionsAreHonest
  <1>1. ProjectionSpec => []ChainInv
    BY ChainStarts, StepsKeepChain, PTL DEF ProjectionSpec
  <1> QED
    BY <1>1, ChainIsHonest, PTL
=============================================================================
