------------------------ MODULE ReconciliationProofs ------------------------
(***************************************************************************)
(* Proofs about ActiveTwin and Reconciliation, for any sets of requests,   *)
(* any identities and any length of a page.                                *)
(***************************************************************************)
EXTENDS Reconciliation, SequenceTheorems, FiniteSetTheorems, WellFoundedInduction, TLAPS

-----------------------------------------------------------------------------
(***************************************************************************)
(* Numbers and pages.                                                      *)
(***************************************************************************)
\* A set of natural numbers that is not empty has a least element.
LEMMA LeastNatural ==
    ASSUME NEW S \in SUBSET Nat, S # {}
    PROVE  \E least \in S : \A i \in S : least <= i
  <1>1. PICK m \in S : \A y \in S : <<y, m>> \notin OpToRel(<, Nat)
    BY NatLessThanWellFounded, WFMin, Zenon
  <1>2. \A y \in S : ~ (y < m)
    BY <1>1 DEF OpToRel
  <1> QED
    BY <1>2

\* The greatest of a set of identities.
LEMMA MaxOfIds ==
    ASSUME NEW S \in SUBSET AllIds, S # {}
    PROVE  Max(S) \in S /\ \A i \in S : Max(S) >= i
  <1>1. PICK m \in S : \A i \in S : m >= i
    BY IdsHaveGreatest
  <1> QED
    BY <1>1 DEF Max

\* Identities are positive numbers up to a greatest one.
LEMMA IdsAreBounded ==
    /\ AllIds \subseteq Nat
    /\ Exhausted \in Nat
    /\ \A i \in AllIds : i \in Nat /\ i > 0 /\ i < Exhausted
  <1>1. \A i \in AllIds : i \in Nat /\ i > 0
    BY IdAssumption DEF AllIds
  <1>2. Max(AllIds) \in AllIds /\ \A i \in AllIds : Max(AllIds) >= i
    <2>1. AllIds \in SUBSET AllIds /\ AllIds # {}
      BY IdsHaveGreatest
    <2> QED
      BY <2>1, MaxOfIds
  <1>3. Exhausted \in Nat /\ \A i \in AllIds : i < Exhausted
    BY <1>1, <1>2 DEF Exhausted
  <1> QED
    BY <1>1, <1>3

\* Every set of identities is finite, and a smaller one has fewer elements.
LEMMA IdsAreFinite ==
    ASSUME NEW S \in SUBSET AllIds
    PROVE  /\ IsFiniteSet(S)
           /\ Cardinality(S) \in Nat
           /\ \A T \in SUBSET S : Cardinality(T) <= Cardinality(S) /\ Cardinality(T) \in Nat
           /\ \A T \in SUBSET S : T # S => Cardinality(T) < Cardinality(S)
  <1>1. IsFiniteSet(S)
    <2>1. S \in SUBSET Nat /\ \A i \in S : i <= Exhausted
      BY IdsAreBounded
    <2> QED
      BY <2>1, IdsAreBounded, FS_BoundedSetOfNaturals
  <1>2. ASSUME NEW T \in SUBSET S
        PROVE  /\ Cardinality(T) <= Cardinality(S)
               /\ Cardinality(T) \in Nat
               /\ T # S => Cardinality(T) # Cardinality(S)
    <2>1. /\ IsFiniteSet(T)
          /\ Cardinality(T) <= Cardinality(S)
          /\ Cardinality(S) = Cardinality(T) => S = T
      BY <1>1, FS_Subset
    <2> QED
      BY <2>1, FS_CardinalityType
  <1>3. Cardinality(S) \in Nat
    BY <1>1, FS_CardinalityType
  <1> QED
    BY <1>1, <1>2, <1>3

\* What is stored is stored under identities.
StoredIds ==
    /\ DOMAIN evidence \subseteq EvidenceIds
    /\ DOMAIN claims \subseteq ClaimIds
    /\ DOMAIN links \subseteq LinkIds

\* The rows of each collection.
LEMMA StoredRows ==
    ASSUME StoredIds
    PROVE  /\ \A k \in Collections : Stored(k) \in SUBSET AllIds
           /\ Stored("evidence") = DOMAIN evidence
           /\ Stored("claims") = DOMAIN claims
           /\ Stored("links") = DOMAIN links
  BY DEF StoredIds, Stored, Collections, AllIds

\* A page holds every row up to the cursor it leaves.
LEMMA PageReaches ==
    ASSUME StoredIds, NEW k \in Collections, NEW cursor \in Nat
    PROVE  /\ Page(k, cursor) \in SUBSET Stored(k)
           /\ NextCursor(k, cursor) \in Nat
           /\ \A i \in Stored(k) : cursor < i /\ i <= NextCursor(k, cursor)
                  => i \in Page(k, cursor)
  <1> DEFINE B == Behind(k, cursor)
             P == Page(k, cursor)
             Before(i) == {j \in B : j < i}
  <1>1. /\ B \in SUBSET AllIds /\ P \in SUBSET B
        /\ Stored(k) \in SUBSET AllIds
        /\ B = {i \in Stored(k) : i > cursor}
        /\ \A i \in B : i \in P <=> Cardinality(Before(i)) < PageLimit
    BY StoredRows DEF Behind, Page
  <1>2. AllIds \subseteq Nat
    BY IdsAreBounded
  <1>3. CASE P = B
    BY <1>1, <1>2, <1>3, IdsAreBounded DEF NextCursor
  <1>4. CASE P # B
    <2>1. NextCursor(k, cursor) = Max(P)
      BY <1>4 DEF NextCursor
    <2>2. P # {}
      <3>1. B # {} /\ B \in SUBSET Nat
        BY <1>1, <1>2, <1>4
      <3>2. PICK least \in B : \A i \in B : least <= i
        BY <3>1, LeastNatural
      <3>3. Before(least) = {}
        <4> SUFFICES ASSUME NEW j \in B, j < least PROVE FALSE
          OBVIOUS
        <4> QED
          BY <3>1, <3>2
      <3>4. Cardinality(Before(least)) = 0
        BY <3>3, FS_EmptySet
      <3> QED
        BY <1>1, <3>2, <3>4, PageAssumption
    <2> HIDE DEF P
    <2>3. Max(P) \in P /\ Max(P) \in Nat /\ \A i \in P : i \in Nat /\ i <= Max(P)
      BY <1>1, <1>2, <2>2, MaxOfIds
    <2>4. ASSUME NEW i \in B, i <= Max(P)
          PROVE  i \in P
      <3>1. Before(i) \in SUBSET Before(Max(P)) /\ Before(Max(P)) \in SUBSET AllIds
        <4>1. \A j \in B : j < i => j < Max(P)
          <5>1. i \in Nat /\ \A j \in B : j \in Nat
            BY <1>1, <1>2
          <5> HIDE DEF B
          <5> QED
            BY <2>3, <2>4, <5>1
        <4>2. Before(Max(P)) \subseteq B /\ Before(i) \subseteq Before(Max(P))
          BY <4>1
        <4> QED
          BY <1>1, <4>2
      <3>2. Cardinality(Before(i)) <= Cardinality(Before(Max(P)))
        BY <3>1, IdsAreFinite
      <3>3. Cardinality(Before(i)) \in Nat /\ Cardinality(Before(Max(P))) \in Nat
        BY <3>1, IdsAreFinite
      <3>4. Cardinality(Before(Max(P))) < PageLimit
        BY <1>1, <2>3
      <3> QED
        BY <1>1, <2>4, <3>2, <3>3, <3>4, PageAssumption
    <2> QED
      BY <1>1, <1>2, <2>1, <2>3, <2>4 DEF P
  <1> QED
    BY <1>3, <1>4

\* A collection that fits a page is read at once.
LEMMA SmallPage ==
    ASSUME StoredIds, NEW k \in Collections, Cardinality(Stored(k)) <= PageLimit
    PROVE  Page(k, None) = Stored(k) /\ NextCursor(k, None) = Exhausted
  <1>1. Stored(k) \in SUBSET AllIds /\ \A i \in Stored(k) : i \in Nat /\ i > 0
    BY StoredRows, IdsAreBounded
  <1>2. Behind(k, None) = Stored(k)
    <2>1. \A i \in Stored(k) : i > 0
      BY <1>1
    <2> QED
      BY <2>1 DEF Behind, None
  <1>3. ASSUME NEW i \in Stored(k)
        PROVE  Cardinality({j \in Behind(k, None) : j < i}) < PageLimit
    <2> DEFINE T == {j \in Behind(k, None) : j < i}
    <2>1. T \in SUBSET Stored(k) /\ T # Stored(k)
      <3>1. T \subseteq Stored(k)
        BY <1>2
      <3>2. i \notin T
        BY <1>1
      <3> QED
        BY <3>1, <3>2
    <2> HIDE DEF T
    <2>2. /\ Cardinality(T) < Cardinality(Stored(k))
          /\ Cardinality(T) \in Nat /\ Cardinality(Stored(k)) \in Nat
      BY <1>1, <2>1, IdsAreFinite
    <2>3. Cardinality(T) < PageLimit
      BY <2>2, PageAssumption
    <2> QED
      BY <2>3 DEF T
  <1>4. Page(k, None) = Stored(k)
    BY <1>2, <1>3 DEF Page
  <1> QED
    BY <1>2, <1>4 DEF NextCursor

-----------------------------------------------------------------------------
(***************************************************************************)
(* What is stored: it is closed, and it only grows.                        *)
(***************************************************************************)
Inputs ==
    [mission : BOOLEAN, rows : [Collections -> SUBSET AllIds], validations : SUBSET Nat,
     codeMap : Nat, snapshots : Nat]

Steps ==
    {"requested", "begun", "paging", "mapped", "projected", "answered", "integrity", "conflict"}

Work ==
    [step : Steps, previous : Nat, input : Inputs, cursor : [Collections -> Nat],
     since : [Collections -> SUBSET AllIds]]

ValidationRows ==
    [key : ValidationKeys, at : Nat, source : EvidenceIds, snapshot : Nat]

\* Every row that a row names is there.
SourcesClosed ==
    /\ \A c \in DOMAIN claims :
           /\ claims[c].source \in DOMAIN evidence
           /\ claims[c].supersedes \in DOMAIN claims \cup {None}
    /\ \A l \in DOMAIN links :
           {links[l].predecessor, links[l].successor} \subseteq DOMAIN claims
    /\ \A i \in DOMAIN codeMaps : codeMaps[i] <= snapshots
    /\ \A i \in DOMAIN validations :
           /\ validations[i].source \in DOMAIN evidence
           /\ validations[i].snapshot <= snapshots
           /\ validations[i].at <= MaxValidations

\* The rows of a sequence.
LEMMA SeqElements ==
    ASSUME NEW Rows, NEW s \in Seq(Rows)
    PROVE  /\ DOMAIN s = 1 .. Len(s) /\ Len(s) \in Nat
           /\ \A i \in DOMAIN s : s[i] \in Rows
  BY ElementOfSeq, LenProperties

\* A row that is appended comes after the others.
LEMMA AppendFacts ==
    ASSUME NEW Rows, NEW s \in Seq(Rows), NEW row \in Rows
    PROVE  /\ Append(s, row) \in Seq(Rows)
           /\ Len(Append(s, row)) = Len(s) + 1
           /\ DOMAIN s = 1 .. Len(s) /\ Len(s) \in Nat
           /\ DOMAIN Append(s, row) = DOMAIN s \cup {Len(s) + 1}
           /\ \A i \in DOMAIN s : Append(s, row)[i] = s[i]
           /\ Append(s, row)[Len(s) + 1] = row
  BY AppendProperties

\* An import adds rows and keeps what is stored closed.
LEMMA ImportKeeps ==
    ASSUME StoredIds, current \in BOOLEAN, SourcesClosed, LedgerNext
    PROVE  /\ StoredIds' /\ current' \in BOOLEAN
           /\ DOMAIN evidence \subseteq DOMAIN evidence'
           /\ DOMAIN claims \subseteq DOMAIN claims'
           /\ DOMAIN links \subseteq DOMAIN links'
           /\ \A c \in DOMAIN claims : claims'[c] = claims[c]
           /\ \A l \in DOMAIN links : links'[l] = links[l]
           /\ \A c \in DOMAIN claims' :
                  /\ claims'[c].source \in DOMAIN evidence'
                  /\ claims'[c].supersedes \in DOMAIN claims' \cup {None}
           /\ \A l \in DOMAIN links' :
                  {links'[l].predecessor, links'[l].successor} \subseteq DOMAIN claims'
  <1>1. CASE archiveMission
    BY <1>1 DEF archiveMission, StoredIds, SourcesClosed
  <1>2. ASSUME NEW document \in Documents, persistEvidence(document)
        PROVE  /\ UNCHANGED <<current, claims, links>>
               /\ DOMAIN evidence \subseteq DOMAIN evidence'
               /\ DOMAIN evidence' \subseteq EvidenceIds
    BY <1>2 DEF persistEvidence, Insert, StoredIds
  <1>3. ASSUME NEW statement \in Statements, importClaim(statement)
        PROVE  /\ UNCHANGED <<current, evidence>>
               /\ \E c \in ClaimIds \ DOMAIN claims :
                      /\ claims' = Insert(claims, c, statement)
                      /\ \/ UNCHANGED links
                         \/ /\ statement.supersedes \in DOMAIN claims
                            /\ \E l \in LinkIds \ DOMAIN links :
                                   links' = Insert(links, l,
                                       [predecessor |-> statement.supersedes, successor |-> c])
               /\ statement.source \in DOMAIN evidence
               /\ statement.supersedes \in DOMAIN claims \cup {None}
    BY <1>3 DEF importClaim, Supported, Extensible, InsertClaim
  <1>4. ASSUME NEW document \in Documents, persistEvidence(document)
        PROVE  /\ StoredIds' /\ current' \in BOOLEAN
               /\ DOMAIN evidence \subseteq DOMAIN evidence'
               /\ SourcesClosed => \A c \in DOMAIN claims : claims[c].source \in DOMAIN evidence'
    BY <1>2, <1>4 DEF StoredIds, SourcesClosed
  <1>5. ASSUME NEW statement \in Statements, importClaim(statement)
        PROVE  /\ StoredIds' /\ current' \in BOOLEAN
               /\ DOMAIN claims \subseteq DOMAIN claims'
               /\ DOMAIN links \subseteq DOMAIN links'
               /\ \A c \in DOMAIN claims : claims'[c] = claims[c]
               /\ \A l \in DOMAIN links : links'[l] = links[l]
               /\ \A c \in DOMAIN claims' :
                      /\ claims'[c].source \in DOMAIN evidence'
                      /\ claims'[c].supersedes \in DOMAIN claims' \cup {None}
               /\ \A l \in DOMAIN links' :
                      {links'[l].predecessor, links'[l].successor} \subseteq DOMAIN claims'
    <2>1. PICK c \in ClaimIds \ DOMAIN claims :
              /\ claims' = Insert(claims, c, statement)
              /\ \/ UNCHANGED links
                 \/ /\ statement.supersedes \in DOMAIN claims
                    /\ \E l \in LinkIds \ DOMAIN links :
                           links' = Insert(links, l,
                               [predecessor |-> statement.supersedes, successor |-> c])
      BY <1>3, <1>5
    <2>2. /\ DOMAIN claims' = DOMAIN claims \cup {c}
          /\ claims'[c] = statement
          /\ \A d \in DOMAIN claims : claims'[d] = claims[d]
      BY <2>1 DEF Insert
    <2>3. UNCHANGED <<current, evidence>> /\ statement.source \in DOMAIN evidence
          /\ statement.supersedes \in DOMAIN claims \cup {None}
      BY <1>3, <1>5
    <2>4. /\ DOMAIN links \subseteq DOMAIN links' /\ DOMAIN links' \subseteq LinkIds
          /\ \A l \in DOMAIN links : links'[l] = links[l]
          /\ \A l \in DOMAIN links' \ DOMAIN links :
                 links'[l].predecessor \in DOMAIN claims /\ links'[l].successor = c
      <3>1. CASE UNCHANGED links
        BY <3>1 DEF StoredIds
      <3>2. CASE ~ UNCHANGED links
        <4> DEFINE link == [predecessor |-> statement.supersedes, successor |-> c]
        <4>1. PICK l \in LinkIds \ DOMAIN links : links' = Insert(links, l, link)
          BY <2>1, <3>2
        <4>2. link.predecessor \in DOMAIN claims /\ link.successor = c
          BY <2>1, <3>2
        <4> HIDE DEF link
        <4>3. /\ DOMAIN links' = DOMAIN links \cup {l}
              /\ links'[l] = link
              /\ \A k \in DOMAIN links : links'[k] = links[k]
          BY <4>1 DEF Insert
        <4> QED
          BY <4>2, <4>3 DEF StoredIds
      <3> QED
        BY <3>1, <3>2
    <2>5. \A d \in DOMAIN claims' :
              /\ claims'[d].source \in DOMAIN evidence'
              /\ claims'[d].supersedes \in DOMAIN claims' \cup {None}
      <3>1. ASSUME NEW d \in DOMAIN claims
            PROVE  /\ claims'[d].source \in DOMAIN evidence'
                   /\ claims'[d].supersedes \in DOMAIN claims' \cup {None}
        <4>1. /\ claims[d].source \in DOMAIN evidence
              /\ claims[d].supersedes \in DOMAIN claims \cup {None}
          BY DEF SourcesClosed
        <4> QED
          BY <2>2, <2>3, <4>1
      <3>2. /\ claims'[c].source \in DOMAIN evidence'
            /\ claims'[c].supersedes \in DOMAIN claims' \cup {None}
        BY <2>2, <2>3
      <3> QED
        BY <2>2, <3>1, <3>2
    <2>6. \A l \in DOMAIN links' :
              {links'[l].predecessor, links'[l].successor} \subseteq DOMAIN claims'
      BY <2>2, <2>4 DEF SourcesClosed
    <2>7. StoredIds'
      BY <2>2, <2>3, <2>4 DEF StoredIds
    <2>8. current' \in BOOLEAN
      BY <2>3
    <2> QED
      BY <2>2, <2>4, <2>5, <2>6, <2>7, <2>8
  <1>6. ASSUME NEW statement \in Statements, importClaim(statement)
        PROVE  UNCHANGED evidence
    BY <1>3, <1>6
  <1>7. ASSUME NEW document \in Documents, persistEvidence(document)
        PROVE  UNCHANGED <<claims, links>>
    BY <1>2, <1>7
  <1> QED
    BY <1>1, <1>4, <1>5, <1>6, <1>7 DEF LedgerNext, SourcesClosed

\* What the sources hold, of which materializations change nothing.
Sources == <<current, evidence, claims, links, snapshots, codeMaps, validations>>

SourcesOK ==
    /\ StoredIds
    /\ current \in BOOLEAN
    /\ snapshots \in Nat
    /\ codeMaps \in Seq(Nat)
    /\ validations \in Seq(ValidationRows)
    /\ SourcesClosed

SourcesGrow ==
    /\ DOMAIN evidence \subseteq DOMAIN evidence'
    /\ DOMAIN claims \subseteq DOMAIN claims'
    /\ DOMAIN links \subseteq DOMAIN links'
    /\ \A c \in DOMAIN claims : claims'[c] = claims[c]
    /\ \A l \in DOMAIN links : links'[l] = links[l]
    /\ snapshots <= snapshots'
    /\ Len(codeMaps) <= Len(codeMaps')
    /\ \A i \in DOMAIN codeMaps : codeMaps'[i] = codeMaps[i]
    /\ Len(validations) <= Len(validations')
    /\ \A i \in DOMAIN validations : validations'[i] = validations[i]

\* Every writer of a source adds rows to closed tables.
LEMMA SourcesStep ==
    ASSUME SourcesOK, SourcesNext
    PROVE  SourcesOK' /\ SourcesGrow
  <1>1. CASE Import
    <2>1. UNCHANGED <<snapshots, codeMaps, validations>>
      BY <1>1 DEF Import, sourceVars
    <2>2. /\ StoredIds' /\ current' \in BOOLEAN
          /\ DOMAIN evidence \subseteq DOMAIN evidence'
          /\ DOMAIN claims \subseteq DOMAIN claims'
          /\ DOMAIN links \subseteq DOMAIN links'
          /\ \A c \in DOMAIN claims : claims'[c] = claims[c]
          /\ \A l \in DOMAIN links : links'[l] = links[l]
          /\ \A c \in DOMAIN claims' :
                 /\ claims'[c].source \in DOMAIN evidence'
                 /\ claims'[c].supersedes \in DOMAIN claims' \cup {None}
          /\ \A l \in DOMAIN links' :
                 {links'[l].predecessor, links'[l].successor} \subseteq DOMAIN claims'
      BY <1>1, ImportKeeps DEF Import, SourcesOK
    <2>3. SourcesClosed'
      BY <2>1, <2>2 DEF SourcesOK, SourcesClosed
    <2>4. SourcesOK'
      BY <2>1, <2>2, <2>3 DEF SourcesOK
    <2>5. SourcesGrow
      BY <2>1, <2>2 DEF SourcesGrow, SourcesOK
    <2> QED
      BY <2>4, <2>5
  <1>2. ASSUME NEW snapshot \in 1 .. MaxSnapshots, CaptureSnapshot(snapshot)
        PROVE  SourcesOK' /\ SourcesGrow
    <2>1. /\ snapshots' = snapshots + 1
          /\ UNCHANGED <<current, evidence, claims, links, codeMaps, validations>>
      BY <1>2 DEF CaptureSnapshot, ledgerVars
    <2>2. /\ \A i \in DOMAIN codeMaps : codeMaps[i] \in Nat
          /\ \A i \in DOMAIN validations : validations[i].snapshot \in Nat
      <3>1. \A i \in DOMAIN validations : validations[i] \in ValidationRows
        BY SeqElements DEF SourcesOK
      <3> QED
        BY <3>1, SeqElements DEF SourcesOK, ValidationRows
    <2>3. SourcesClosed'
      BY <2>1, <2>2 DEF SourcesOK, SourcesClosed
    <2>4. SourcesOK'
      BY <2>1, <2>3 DEF SourcesOK, StoredIds
    <2>5. SourcesGrow
      BY <2>1 DEF SourcesGrow, SourcesOK
    <2> QED
      BY <2>4, <2>5
  <1>3. ASSUME NEW snapshot \in 1 .. MaxSnapshots, MapRepository(snapshot)
        PROVE  SourcesOK' /\ SourcesGrow
    <2>1. /\ codeMaps' = Append(codeMaps, snapshot)
          /\ snapshot \in Nat /\ snapshot <= snapshots
          /\ UNCHANGED <<current, evidence, claims, links, snapshots, validations>>
      BY <1>3 DEF MapRepository, ledgerVars, SourcesOK
    <2>2. /\ codeMaps' \in Seq(Nat)
          /\ Len(codeMaps) <= Len(codeMaps')
          /\ DOMAIN codeMaps' = DOMAIN codeMaps \cup {Len(codeMaps) + 1}
          /\ codeMaps'[Len(codeMaps) + 1] = snapshot
          /\ \A i \in DOMAIN codeMaps : codeMaps'[i] = codeMaps[i]
      BY <2>1, AppendFacts DEF SourcesOK
    <2>3. SourcesClosed'
      BY <2>1, <2>2 DEF SourcesOK, SourcesClosed
    <2>4. SourcesOK'
      BY <2>1, <2>2, <2>3 DEF SourcesOK, StoredIds
    <2>5. SourcesGrow
      BY <2>1, <2>2 DEF SourcesGrow, SourcesOK
    <2> QED
      BY <2>4, <2>5
  <1>4. ASSUME NEW key \in ValidationKeys, NEW at \in 1 .. MaxValidations,
               NEW source \in EvidenceIds, NEW snapshot \in 1 .. MaxSnapshots,
               persistValidation(key, at, source, snapshot)
        PROVE  SourcesOK' /\ SourcesGrow
    <2> DEFINE row == [key |-> key, at |-> at, source |-> source, snapshot |-> snapshot]
    <2>1. /\ validations' = Append(validations, row)
          /\ row.source \in DOMAIN evidence
          /\ row.snapshot <= snapshots /\ row.at <= MaxValidations
          /\ row \in ValidationRows
          /\ UNCHANGED <<current, evidence, claims, links, snapshots, codeMaps>>
      BY <1>4, BoundsAssumption DEF persistValidation, ledgerVars, SourcesOK, ValidationRows
    <2> HIDE DEF row
    <2>2. /\ validations' \in Seq(ValidationRows)
          /\ Len(validations) <= Len(validations')
          /\ DOMAIN validations' = DOMAIN validations \cup {Len(validations) + 1}
          /\ validations'[Len(validations) + 1] = row
          /\ \A i \in DOMAIN validations : validations'[i] = validations[i]
      BY <2>1, AppendFacts DEF SourcesOK
    <2>3. SourcesClosed'
      BY <2>1, <2>2 DEF SourcesOK, SourcesClosed
    <2>4. SourcesOK'
      BY <2>1, <2>2, <2>3 DEF SourcesOK, StoredIds
    <2>5. SourcesGrow
      BY <2>1, <2>2 DEF SourcesGrow, SourcesOK
    <2> QED
      BY <2>4, <2>5
  <1> QED
    BY <1>1, <1>2, <1>3, <1>4 DEF SourcesNext

\* A materialization reads the sources and leaves them as they are.
LEMMA SourcesStay ==
    ASSUME SourcesOK, UNCHANGED Sources
    PROVE  SourcesOK' /\ SourcesGrow
  BY DEF Sources, SourcesOK, StoredIds, SourcesClosed, SourcesGrow

\* Only materializations change the Twins and the requests.
LEMMA SourcesLeaveTwins ==
    SourcesNext => UNCHANGED <<twins, work>>
  BY DEF SourcesNext, Import, CaptureSnapshot, MapRepository, persistValidation

-----------------------------------------------------------------------------
(***************************************************************************)
(* The invariant of the Twins and of the requests.                         *)
(***************************************************************************)
\* An input of rows that are stored.
Held(input) ==
    /\ \A k \in Collections : input.rows[k] \subseteq Stored(k)
    /\ input.validations \subseteq DOMAIN validations
    /\ input.codeMap <= Len(codeMaps)
    /\ input.snapshots <= snapshots

\* No validation of one set is without one of its key, as late, in another.
NoOlder(small, large) ==
    \A i \in small : \E j \in large :
        /\ validations[j].key = validations[i].key
        /\ validations[i].at <= validations[j].at

\* Every row that a row or validation of an input names is one of its rows.
RowsClosed(input) ==
    /\ \A c \in input.rows["claims"] :
           /\ claims[c].source \in input.rows["evidence"]
           /\ claims[c].supersedes \in input.rows["claims"] \cup {None}
    /\ \A l \in input.rows["links"] :
           {links[l].predecessor, links[l].successor} \subseteq input.rows["claims"]
    /\ \A i \in input.validations : validations[i].source \in input.rows["evidence"]

AllFitAPage == \A k \in Collections : Cardinality(Stored(k)) <= PageLimit

\* What a request read when it began: its predecessor is a revision, and held
\* nothing that was not stored by then.
BegunOK(p) ==
    /\ work[p].previous <= Len(twins)
    /\ \A k \in Collections : work[p].since[k] \subseteq Stored(k)
    /\ \A t \in 1 .. work[p].previous : \A k \in Collections :
           twins[t].rows[k] \subseteq work[p].since[k]

\* The pages read so far: they reach up to their cursors, and when no
\* collection is longer than a page they are all there is.
PagesOK(p) ==
    /\ \A k \in Collections : work[p].input.rows[k] \subseteq Stored(k)
    /\ \A k \in Collections : \A i \in work[p].since[k] :
           i <= work[p].cursor[k] => i \in work[p].input.rows[k]
    /\ work[p].input.validations \subseteq DOMAIN validations
    /\ \A t \in 1 .. work[p].previous :
           NoOlder(twins[t].validations, work[p].input.validations)
    /\ AllFitAPage => /\ \A k \in Collections : work[p].cursor[k] = Exhausted
                      /\ RowsClosed(work[p].input)

\* The code map is read after the last pages.
MappedOK(p) ==
    /\ \A k \in Collections : work[p].cursor[k] = Exhausted
    /\ work[p].input.codeMap <= Len(codeMaps)
    /\ \A t \in 1 .. work[p].previous : twins[t].codeMap <= work[p].input.codeMap

\* A projection holds what its predecessors hold and what was stored when its
\* request came in.
ProjectedOK(p) ==
    /\ Held(work[p].input)
    /\ \A k \in Collections : work[p].since[k] \subseteq work[p].input.rows[k]
    /\ \A t \in 1 .. work[p].previous : Within(twins[t], work[p].input)

AnsweredOK(p) ==
    \E t \in DOMAIN twins :
        \A k \in Collections : work[p].since[k] \subseteq twins[t].rows[k]

WorkOK(p) ==
    /\ work[p].step \in {"begun", "paging", "mapped", "projected"} => BegunOK(p)
    /\ work[p].step \in {"paging", "mapped"} => PagesOK(p)
    /\ work[p].step = "mapped" => MappedOK(p)
    /\ work[p].step = "projected" => ProjectedOK(p)
    /\ work[p].step = "answered" => AnsweredOK(p)
    /\ work[p].step = "conflict" => Len(twins) > work[p].previous
    /\ work[p].step = "integrity" => ~ AllFitAPage

TwinsOK ==
    /\ twins \in Seq(Inputs)
    /\ \A t \in DOMAIN twins : Held(twins[t])
    /\ TwinsOnlyGrow

TwinIInv ==
    /\ SourcesOK
    /\ TwinsOK
    /\ work \in [Materializers -> Work]
    /\ \A p \in Materializers : WorkOK(p)

TwinsExtend ==
    /\ Len(twins) <= Len(twins')
    /\ DOMAIN twins \subseteq DOMAIN twins'
    /\ \A t \in DOMAIN twins : twins'[t] = twins[t]

-----------------------------------------------------------------------------
(***************************************************************************)
(* What more sources do not change.                                        *)
(***************************************************************************)
\* A collection loses no row, and so gets no shorter.
LEMMA StoredGrows ==
    ASSUME SourcesOK, SourcesOK', SourcesGrow
    PROVE  /\ \A k \in Collections : Stored(k) \subseteq Stored(k)' /\ Stored(k)' \in SUBSET AllIds
           /\ AllFitAPage' => AllFitAPage
  <1>1. \A k \in Collections : Stored(k) \subseteq Stored(k)' /\ Stored(k)' \in SUBSET AllIds
    BY DEF SourcesOK, StoredIds, SourcesGrow, Stored, Collections, AllIds
  <1>2. ASSUME NEW k \in Collections, Cardinality(Stored(k)') <= PageLimit
        PROVE  Cardinality(Stored(k)) <= PageLimit
    <2>1. /\ Cardinality(Stored(k)) <= Cardinality(Stored(k)')
          /\ Cardinality(Stored(k)) \in Nat /\ Cardinality(Stored(k)') \in Nat
      BY <1>1, IdsAreFinite
    <2> QED
      BY <1>2, <2>1, PageAssumption
  <1> QED
    BY <1>1, <1>2 DEF AllFitAPage

\* What is held stays held.
LEMMA HeldStays ==
    ASSUME SourcesOK, SourcesOK', SourcesGrow, NEW input \in Inputs, Held(input)
    PROVE  Held(input)'
  <1>1. DOMAIN validations \subseteq DOMAIN validations'
    BY SeqElements DEF SourcesOK, SourcesGrow
  <1>2. input.codeMap \in Nat /\ input.snapshots \in Nat
    BY DEF Inputs
  <1>3. Len(codeMaps) \in Nat /\ Len(codeMaps') \in Nat /\ snapshots \in Nat /\ snapshots' \in Nat
    BY SeqElements DEF SourcesOK
  <1>4. \A k \in Collections : input.rows[k] \subseteq Stored(k)'
    BY StoredGrows DEF Held
  <1> QED
    BY <1>1, <1>2, <1>3, <1>4 DEF Held, SourcesGrow

\* The key and time of a stored validation do not change.
LEMMA NoOlderStays ==
    ASSUME SourcesOK, SourcesGrow, NEW small \in SUBSET DOMAIN validations,
           NEW large \in SUBSET DOMAIN validations, NoOlder(small, large)
    PROVE  NoOlder(small, large)'
  BY DEF SourcesGrow, NoOlder

\* Rows that are stored name the same rows.
LEMMA RowsClosedStays ==
    ASSUME SourcesOK, SourcesGrow, NEW input \in Inputs,
           \A k \in Collections : input.rows[k] \subseteq Stored(k),
           input.validations \subseteq DOMAIN validations,
           RowsClosed(input)
    PROVE  RowsClosed(input)'
  <1>1. input.rows["claims"] \subseteq DOMAIN claims /\ input.rows["links"] \subseteq DOMAIN links
    BY DEF Stored, Collections
  <1>2. /\ \A c \in input.rows["claims"] : claims'[c] = claims[c]
        /\ \A l \in input.rows["links"] : links'[l] = links[l]
        /\ \A i \in input.validations : validations'[i] = validations[i]
    BY <1>1 DEF SourcesGrow
  <1>3. ASSUME NEW c \in input.rows["claims"]
        PROVE  /\ claims'[c].source \in input.rows["evidence"]
               /\ claims'[c].supersedes \in input.rows["claims"] \cup {None}
    BY <1>2 DEF RowsClosed
  <1>4. ASSUME NEW l \in input.rows["links"]
        PROVE  {links'[l].predecessor, links'[l].successor} \subseteq input.rows["claims"]
    BY <1>2 DEF RowsClosed
  <1>5. ASSUME NEW i \in input.validations
        PROVE  validations'[i].source \in input.rows["evidence"]
    BY <1>2 DEF RowsClosed
  <1> QED
    BY <1>3, <1>4, <1>5 DEF RowsClosed

\* One input within another stays so.
LEMMA WithinStays ==
    ASSUME SourcesOK, SourcesGrow, NEW small \in Inputs, NEW large \in Inputs,
           Held(small), Held(large), Within(small, large)
    PROVE  Within(small, large)'
  <1>1. NoOlder(small.validations, large.validations)
    BY DEF Within, NoOlder
  <1>2. NoOlder(small.validations, large.validations)'
    BY <1>1, NoOlderStays DEF Held
  <1> QED
    BY <1>2 DEF Within, NoOlder

\* Every stored validation has a latest of its key.
LEMMA LatestExists ==
    ASSUME SourcesOK
    PROVE  LatestValidations \subseteq DOMAIN validations
           /\ NoOlder(DOMAIN validations, LatestValidations)
  <1>1. ASSUME NEW i \in DOMAIN validations
        PROVE  \E j \in LatestValidations :
                   /\ validations[j].key = validations[i].key
                   /\ validations[i].at <= validations[j].at
    <2> DEFINE Same == {j \in DOMAIN validations : validations[j].key = validations[i].key}
               Rest == {MaxValidations - validations[j].at : j \in Same}
    <2>1. \A j \in DOMAIN validations :
              /\ validations[j].at \in Nat
              /\ validations[j].at <= MaxValidations
      <3>1. \A j \in DOMAIN validations : validations[j] \in ValidationRows
        BY SeqElements DEF SourcesOK
      <3> QED
        BY <3>1 DEF SourcesOK, SourcesClosed, ValidationRows
    <2>2. Rest \in SUBSET Nat /\ Rest # {}
      <3>1. \A j \in Same : MaxValidations - validations[j].at \in Nat
        BY <2>1, BoundsAssumption
      <3>2. i \in Same
        OBVIOUS
      <3> QED
        BY <3>1, <3>2
    <2>3. PICK least \in Rest : \A r \in Rest : least <= r
      BY <2>2, LeastNatural
    <2>4. PICK j \in Same : least = MaxValidations - validations[j].at
      BY <2>3
    <2>5. ASSUME NEW l \in Same
          PROVE  validations[l].at <= validations[j].at
      <3>1. MaxValidations - validations[j].at <= MaxValidations - validations[l].at
        BY <2>3, <2>4
      <3>2. validations[j].at \in Nat /\ validations[l].at \in Nat
        BY <2>1
      <3> QED
        BY <3>1, <3>2, BoundsAssumption
    <2>6. j \in LatestValidations
      BY <2>5 DEF LatestValidations
    <2> QED
      BY <2>5, <2>6
  <1>2. LatestValidations \subseteq DOMAIN validations
    BY DEF LatestValidations
  <1> QED
    BY <1>1, <1>2 DEF NoOlder

\* A request that makes no step keeps what holds of it.
LEMMA Unmoved ==
    ASSUME TwinIInv, SourcesOK', SourcesGrow, TwinsExtend,
           NEW p \in Materializers, work'[p] = work[p]
    PROVE  WorkOK(p)'
  <1>1. PICK w \in Work : w = work[p]
    BY DEF TwinIInv
  <1>2. w.input \in Inputs /\ w.previous \in Nat /\ w.step \in Steps
    BY DEF Work
  <1>3. SourcesOK /\ WorkOK(p) /\ TwinsOK
    BY DEF TwinIInv
  <1>4. /\ Len(twins) \in Nat /\ Len(twins') >= Len(twins) /\ Len(twins') \in Nat
        /\ \A t \in 1 .. Len(twins) : t \in DOMAIN twins /\ twins[t] \in Inputs /\ Held(twins[t])
        /\ \A t \in 1 .. Len(twins) : twins'[t] = twins[t]
    <2>1. DOMAIN twins = 1 .. Len(twins) /\ Len(twins) \in Nat
          /\ \A t \in DOMAIN twins : twins[t] \in Inputs
      BY <1>3, SeqElements DEF TwinsOK
    <2> QED
      BY <1>3, <2>1 DEF TwinsOK, TwinsExtend
  <1>5. ASSUME BegunOK(p)
        PROVE  BegunOK(p)' /\ \A t \in 1 .. w.previous : t \in 1 .. Len(twins)
    <2>1. \A t \in 1 .. w.previous : t \in 1 .. Len(twins)
      BY <1>1, <1>2, <1>4, <1>5 DEF BegunOK
    <2>2. \A k \in Collections : w.since[k] \subseteq Stored(k)'
      BY <1>1, <1>3, <1>5, StoredGrows DEF BegunOK
    <2>3. w.previous <= Len(twins')
      BY <1>1, <1>2, <1>4, <1>5 DEF BegunOK
    <2> QED
      BY <1>1, <1>4, <1>5, <2>1, <2>2, <2>3 DEF BegunOK
  <1>6. ASSUME BegunOK(p), PagesOK(p)
        PROVE  PagesOK(p)'
    <2>1. \A k \in Collections : w.input.rows[k] \subseteq Stored(k)'
      BY <1>1, <1>3, <1>6, StoredGrows DEF PagesOK
    <2>2. \A k \in Collections : \A i \in w.since[k] : i <= w.cursor[k] => i \in w.input.rows[k]
      BY <1>1, <1>6 DEF PagesOK
    <2>3. w.input.validations \subseteq DOMAIN validations
          /\ w.input.validations \subseteq DOMAIN validations'
      <3>1. DOMAIN validations \subseteq DOMAIN validations'
        BY <1>3, SeqElements DEF SourcesOK, SourcesGrow
      <3> QED
        BY <1>1, <1>6, <3>1 DEF PagesOK
    <2>4. ASSUME NEW t \in 1 .. w.previous
          PROVE  NoOlder(twins[t].validations, w.input.validations)'
      <3>1. twins'[t] = twins[t] /\ twins[t].validations \subseteq DOMAIN validations
        BY <1>4, <1>5, <1>6 DEF Held
      <3>2. PICK small \in SUBSET DOMAIN validations : small = twins[t].validations
        BY <3>1
      <3>3. NoOlder(small, w.input.validations)
        BY <1>1, <1>6, <3>2 DEF PagesOK
      <3>4. NoOlder(small, w.input.validations)'
        BY <1>3, <2>3, <3>3, NoOlderStays
      <3> QED
        BY <3>1, <3>2, <3>4 DEF NoOlder
    <2>5. ASSUME AllFitAPage'
          PROVE  (\A k \in Collections : w.cursor[k] = Exhausted) /\ RowsClosed(w.input)'
      <3>1. AllFitAPage
        BY <1>3, <2>5, StoredGrows
      <3>2. (\A k \in Collections : w.cursor[k] = Exhausted) /\ RowsClosed(w.input)
        BY <1>1, <1>6, <3>1 DEF PagesOK
      <3>3. \A k \in Collections : w.input.rows[k] \subseteq Stored(k)
        BY <1>1, <1>6 DEF PagesOK
      <3> QED
        BY <1>2, <1>3, <2>3, <3>2, <3>3, RowsClosedStays
    <2> QED
      BY <1>1, <2>1, <2>2, <2>3, <2>4, <2>5 DEF PagesOK, NoOlder, RowsClosed
  <1>7. ASSUME BegunOK(p), MappedOK(p)
        PROVE  MappedOK(p)'
    <2>1. w.input.codeMap \in Nat /\ Len(codeMaps) \in Nat /\ Len(codeMaps') \in Nat
      BY <1>2, <1>3, SeqElements DEF Inputs, SourcesOK
    <2>2. w.input.codeMap <= Len(codeMaps')
      BY <1>1, <1>7, <2>1 DEF MappedOK, SourcesGrow
    <2> QED
      BY <1>1, <1>4, <1>5, <1>7, <2>2 DEF MappedOK
  <1>8. ASSUME BegunOK(p), ProjectedOK(p)
        PROVE  ProjectedOK(p)'
    <2>1. Held(w.input) /\ Held(w.input)'
      BY <1>1, <1>2, <1>3, <1>8, HeldStays DEF ProjectedOK
    <2>2. ASSUME NEW t \in 1 .. w.previous
          PROVE  Within(twins[t], w.input)'
      <3>1. twins'[t] = twins[t] /\ twins[t] \in Inputs /\ Held(twins[t])
        BY <1>4, <1>5, <1>8
      <3>2. PICK small \in Inputs : small = twins[t]
        BY <3>1
      <3>3. Held(small) /\ Within(small, w.input)
        BY <1>1, <1>8, <3>1, <3>2 DEF ProjectedOK, Within, Held
      <3>4. Within(small, w.input)'
        BY <1>2, <1>3, <2>1, <3>3, WithinStays
      <3> QED
        BY <3>1, <3>2, <3>4 DEF Within
    <2>3. \A k \in Collections : w.since[k] \subseteq w.input.rows[k]
      BY <1>1, <1>8 DEF ProjectedOK
    <2> QED
      BY <1>1, <2>1, <2>2, <2>3 DEF ProjectedOK, Held, Within
  <1>9. AnsweredOK(p) => AnsweredOK(p)'
    BY DEF AnsweredOK, TwinsExtend
  <1>10. Len(twins) > work[p].previous => Len(twins') > work'[p].previous
    BY <1>1, <1>2, <1>4
  <1>11. ~ AllFitAPage => ~ AllFitAPage'
    BY <1>3, StoredGrows
  <1> QED
    BY <1>3, <1>5, <1>6, <1>7, <1>8, <1>9, <1>10, <1>11 DEF WorkOK

-----------------------------------------------------------------------------
(***************************************************************************)
(* The steps of a request.                                                 *)
(***************************************************************************)
\* A step that only reads leaves every collection and every page as it is.
LEMMA ReadsChangeNothing ==
    ASSUME UNCHANGED Sources
    PROVE  /\ UNCHANGED <<current, evidence, claims, links, snapshots, codeMaps, validations>>
           /\ \A k \in Collections : Stored(k)' = Stored(k)
           /\ AllFitAPage' <=> AllFitAPage
  <1>1. UNCHANGED <<current, evidence, claims, links, snapshots, codeMaps, validations>>
    BY DEF Sources
  <1>2. \A k \in Collections : Stored(k)' = Stored(k)
    BY <1>1 DEF Stored
  <1> QED
    BY <1>1, <1>2 DEF AllFitAPage

\* Rows per collection.
LEMMA PerCollection ==
    ASSUME StoredIds
    PROVE  /\ [k \in Collections |-> Stored(k)] \in [Collections -> SUBSET AllIds]
           /\ \A cursor \in [Collections -> Nat] :
                  /\ [k \in Collections |-> Page(k, cursor[k])] \in [Collections -> SUBSET AllIds]
                  /\ [k \in Collections |-> NextCursor(k, cursor[k])] \in [Collections -> Nat]
           /\ [k \in Collections |-> Page(k, None)] \in [Collections -> SUBSET AllIds]
           /\ [k \in Collections |-> NextCursor(k, None)] \in [Collections -> Nat]
  <1>1. \A k \in Collections : Stored(k) \in SUBSET AllIds
    BY StoredRows
  <1>2. ASSUME NEW k \in Collections, NEW cursor \in Nat
        PROVE  Page(k, cursor) \in SUBSET AllIds /\ NextCursor(k, cursor) \in Nat
    BY <1>1, PageReaches
  <1>3. None \in Nat
    BY DEF None
  <1> QED
    BY <1>1, <1>2, <1>3

\* What a revision holds.
LEMMA TwinFacts ==
    ASSUME TwinIInv
    PROVE  /\ Len(twins) \in Nat /\ DOMAIN twins = 1 .. Len(twins)
           /\ \A t \in 1 .. Len(twins) : t \in DOMAIN twins /\ twins[t] \in Inputs /\ Held(twins[t])
  BY SeqElements DEF TwinIInv, TwinsOK

\* The request reads its predecessor and begins.
LEMMA BeginStep ==
    ASSUME TwinIInv, NEW p \in Materializers, BeginMaterialize(p)
    PROVE  /\ work' \in [Materializers -> Work] /\ WorkOK(p)'
           /\ \A q \in Materializers \ {p} : work'[q] = work[q]
           /\ UNCHANGED Sources /\ UNCHANGED twins
  <1>1. UNCHANGED Sources /\ UNCHANGED twins
    BY DEF BeginMaterialize, ledgerVars, sourceVars, Sources
  <1>2. PICK w \in Work : w = work[p]
    BY DEF TwinIInv
  <1> DEFINE v == [w EXCEPT !.step = "begun", !.previous = Len(twins),
                            !.input = [w.input EXCEPT !.mission = current],
                            !.since = [k \in Collections |-> Stored(k)]]
  <1>3. SourcesOK /\ StoredIds /\ current \in BOOLEAN /\ work \in [Materializers -> Work]
    BY DEF TwinIInv, SourcesOK
  <1>4. work' = [work EXCEPT ![p] = v]
    BY <1>2, <1>3 DEF BeginMaterialize, Work
  <1>5. v \in Work
    <2>1. [w.input EXCEPT !.mission = current] \in Inputs
      BY <1>3 DEF Work, Inputs
    <2>2. Len(twins) \in Nat
      BY TwinFacts
    <2> QED
      BY <1>3, <2>1, <2>2, PerCollection DEF Work, Steps
  <1>6. /\ v.step = "begun" /\ v.previous = Len(twins)
        /\ \A k \in Collections : v.since[k] = Stored(k)
    BY DEF Work
  <1> HIDE DEF v
  <1>7. /\ work' \in [Materializers -> Work] /\ work'[p] = v
        /\ \A q \in Materializers \ {p} : work'[q] = work[q]
    BY <1>3, <1>4, <1>5
  <1>8. BegunOK(p)'
    <2>1. \A t \in 1 .. Len(twins) : \A k \in Collections : twins[t].rows[k] \subseteq Stored(k)
      BY TwinFacts DEF Held
    <2> QED
      BY <1>1, <1>6, <1>7, <2>1, TwinFacts, ReadsChangeNothing DEF BegunOK
  <1> QED
    BY <1>1, <1>6, <1>7, <1>8 DEF WorkOK

\* The first pages are read at one instant, with the latest validations.
LEMMA FirstPagesStep ==
    ASSUME TwinIInv, NEW p \in Materializers, ReadFirstPages(p)
    PROVE  /\ work' \in [Materializers -> Work] /\ WorkOK(p)'
           /\ \A q \in Materializers \ {p} : work'[q] = work[q]
           /\ UNCHANGED Sources /\ UNCHANGED twins
  <1>1. UNCHANGED Sources /\ UNCHANGED twins
    BY DEF ReadFirstPages, ledgerVars, sourceVars, Sources
  <1>2. PICK w \in Work : w = work[p]
    BY DEF TwinIInv
  <1> DEFINE rows == [k \in Collections |-> Page(k, None)]
             cursor == [k \in Collections |-> NextCursor(k, None)]
             v == [w EXCEPT !.step = "paging",
                            !.input = [w.input EXCEPT !.rows = rows,
                                                      !.validations = LatestValidations],
                            !.cursor = cursor]
  <1>3. SourcesOK /\ StoredIds /\ SourcesClosed /\ work \in [Materializers -> Work]
    BY DEF TwinIInv, SourcesOK
  <1>4. work' = [work EXCEPT ![p] = v]
    BY <1>2, <1>3 DEF ReadFirstPages, Work
  <1>5. LatestValidations \subseteq DOMAIN validations /\ DOMAIN validations \subseteq Nat
    BY <1>3, LatestExists, SeqElements DEF SourcesOK
  <1>6. rows \in [Collections -> SUBSET AllIds] /\ cursor \in [Collections -> Nat]
    BY <1>3, PerCollection
  <1>7. /\ \A k \in Collections : rows[k] = Page(k, None) /\ cursor[k] = NextCursor(k, None)
    OBVIOUS
  <1> HIDE DEF rows, cursor
  <1>8. v \in Work
    BY <1>5, <1>6 DEF Work, Inputs, Steps
  <1>9. /\ v.step = "paging" /\ v.previous = w.previous /\ v.since = w.since
        /\ v.input.rows = rows /\ v.input.validations = LatestValidations /\ v.cursor = cursor
    BY DEF Work, Inputs
  <1> HIDE DEF v
  <1>10. /\ work' \in [Materializers -> Work] /\ work'[p] = v
         /\ \A q \in Materializers \ {p} : work'[q] = work[q]
    BY <1>3, <1>4, <1>8
  <1>11. BegunOK(p)
    BY DEF TwinIInv, WorkOK, ReadFirstPages
  <1>12. BegunOK(p)'
    BY <1>1, <1>2, <1>9, <1>10, <1>11, ReadsChangeNothing DEF BegunOK
  <1>13. PagesOK(p)'
    <2>1. \A k \in Collections : rows[k] \subseteq Stored(k)
      <3>1. None \in Nat
        BY DEF None
      <3> QED
        BY <1>3, <1>7, <3>1, PageReaches
    <2>2. ASSUME NEW k \in Collections, NEW i \in w.since[k], i <= cursor[k]
          PROVE  i \in rows[k]
      <3>1. i \in Stored(k) /\ Stored(k) \in SUBSET AllIds
        BY <1>2, <1>3, <1>11, <2>2, StoredRows DEF BegunOK
      <3>2. None \in Nat /\ None < i
        BY <3>1, IdsAreBounded DEF None
      <3> QED
        BY <1>3, <1>7, <2>2, <3>1, <3>2, PageReaches
    <2>3. ASSUME NEW t \in 1 .. w.previous
          PROVE  NoOlder(twins[t].validations, LatestValidations)
      <3>1. t \in 1 .. Len(twins)
        BY <1>2, <1>11, TwinFacts DEF BegunOK, Work
      <3>2. twins[t].validations \subseteq DOMAIN validations
        BY <3>1, TwinFacts DEF Held
      <3> QED
        BY <1>3, <3>2, LatestExists DEF NoOlder
    <2>4. ASSUME AllFitAPage
          PROVE  (\A k \in Collections : cursor[k] = Exhausted) /\ RowsClosed(v.input)
      <3>1. \A k \in Collections : rows[k] = Stored(k) /\ cursor[k] = Exhausted
        BY <1>3, <1>7, <2>4, SmallPage DEF AllFitAPage
      <3>2. /\ rows["evidence"] = DOMAIN evidence
            /\ rows["claims"] = DOMAIN claims
            /\ rows["links"] = DOMAIN links
        BY <1>3, <3>1, StoredRows DEF Collections
      <3>3. RowsClosed(v.input)
        BY <1>3, <1>5, <1>9, <3>2 DEF RowsClosed, SourcesClosed
      <3> QED
        BY <3>1, <3>3
    <2>5. \A t \in 1 .. w.previous : NoOlder(twins[t].validations, LatestValidations)'
      BY <1>1, <2>3, ReadsChangeNothing DEF NoOlder, LatestValidations
    <2>6. AllFitAPage' => (\A k \in Collections : cursor[k] = Exhausted) /\ RowsClosed(v.input)
      BY <1>1, <2>4, ReadsChangeNothing
    <2>7. LatestValidations' = LatestValidations
      BY <1>1, ReadsChangeNothing DEF LatestValidations
    <2> QED
      BY <1>1, <1>5, <1>9, <1>10, <2>1, <2>2, <2>5, <2>6, <2>7, ReadsChangeNothing
      DEF PagesOK, NoOlder, RowsClosed
  <1> QED
    BY <1>1, <1>9, <1>10, <1>12, <1>13 DEF WorkOK

\* The next page of a collection is read behind the last row of the one before.
LEMMA NextPageStep ==
    ASSUME TwinIInv, NEW p \in Materializers, NEW collection \in Collections,
           ReadNextPage(p, collection)
    PROVE  /\ work' \in [Materializers -> Work] /\ WorkOK(p)'
           /\ \A q \in Materializers \ {p} : work'[q] = work[q]
           /\ UNCHANGED Sources /\ UNCHANGED twins
  <1>1. UNCHANGED Sources /\ UNCHANGED twins
    BY DEF ReadNextPage, ledgerVars, sourceVars, Sources
  <1>2. PICK w \in Work : w = work[p]
    BY DEF TwinIInv
  <1> DEFINE page == Page(collection, w.cursor[collection])
             next == NextCursor(collection, w.cursor[collection])
             rows == [w.input.rows EXCEPT ![collection] = @ \cup page]
             cursor == [w.cursor EXCEPT ![collection] = next]
             v == [w EXCEPT !.input = [w.input EXCEPT !.rows = rows], !.cursor = cursor]
  <1>3. SourcesOK /\ StoredIds /\ work \in [Materializers -> Work]
    BY DEF TwinIInv, SourcesOK
  <1>4. work' = [work EXCEPT ![p] = v]
    BY <1>2, <1>3 DEF ReadNextPage, Work
  <1>5. /\ w.input.rows \in [Collections -> SUBSET AllIds] /\ w.cursor \in [Collections -> Nat]
        /\ w.cursor[collection] \in Nat
    BY DEF Work, Inputs
  <1>6. /\ page \in SUBSET Stored(collection) /\ Stored(collection) \in SUBSET AllIds
        /\ next \in Nat
        /\ \A i \in Stored(collection) :
               w.cursor[collection] < i /\ i <= next => i \in page
    BY <1>3, <1>5, PageReaches, StoredRows
  <1> HIDE DEF page, next
  <1>7. /\ rows \in [Collections -> SUBSET AllIds] /\ cursor \in [Collections -> Nat]
        /\ rows[collection] = w.input.rows[collection] \cup page /\ cursor[collection] = next
        /\ \A k \in Collections \ {collection} :
               rows[k] = w.input.rows[k] /\ cursor[k] = w.cursor[k]
    <2>1. w.input.rows[collection] \cup page \in SUBSET AllIds
      BY <1>5, <1>6
    <2> QED
      BY <1>5, <1>6, <2>1
  <1> HIDE DEF rows, cursor
  <1>8. v \in Work
    BY <1>7 DEF Work, Inputs
  <1>9. /\ v.step = w.step /\ v.previous = w.previous /\ v.since = w.since
        /\ v.input.rows = rows /\ v.input.validations = w.input.validations /\ v.cursor = cursor
    BY DEF Work, Inputs
  <1> HIDE DEF v
  <1>10. /\ work' \in [Materializers -> Work] /\ work'[p] = v
         /\ \A q \in Materializers \ {p} : work'[q] = work[q]
    BY <1>3, <1>4, <1>8
  <1>11. BegunOK(p) /\ PagesOK(p) /\ w.step = "paging" /\ w.cursor[collection] # Exhausted
    BY <1>2 DEF TwinIInv, WorkOK, ReadNextPage
  <1>12. BegunOK(p)'
    BY <1>1, <1>2, <1>9, <1>10, <1>11, ReadsChangeNothing DEF BegunOK
  <1>13. PagesOK(p)'
    <2>1. \A k \in Collections : rows[k] \subseteq Stored(k)
      BY <1>2, <1>6, <1>7, <1>11 DEF PagesOK
    <2>2. ASSUME NEW k \in Collections, NEW i \in w.since[k], i <= cursor[k]
          PROVE  i \in rows[k]
      <3>1. CASE k # collection
        BY <1>2, <1>7, <1>11, <2>2, <3>1 DEF PagesOK
      <3>2. CASE k = collection
        <4>1. i \in Stored(collection) /\ i \in Nat
          BY <1>2, <1>6, <1>11, <3>2, IdsAreBounded DEF BegunOK
        <4>2. CASE i <= w.cursor[collection]
          BY <1>2, <1>7, <1>11, <2>2, <3>2, <4>2 DEF PagesOK
        <4>3. CASE w.cursor[collection] < i
          BY <1>6, <1>7, <2>2, <3>2, <4>1, <4>3
        <4> QED
          BY <1>5, <4>1, <4>2, <4>3
      <3> QED
        BY <3>1, <3>2
    <2>3. \A t \in 1 .. w.previous : NoOlder(twins[t].validations, w.input.validations)'
      BY <1>1, <1>2, <1>11, ReadsChangeNothing DEF NoOlder, PagesOK
    <2>4. ~ AllFitAPage
      BY <1>2, <1>11 DEF PagesOK
    <2>5. w.input.validations \subseteq DOMAIN validations
      BY <1>2, <1>11 DEF PagesOK
    <2> QED
      BY <1>1, <1>9, <1>10, <2>1, <2>2, <2>3, <2>4, <2>5, ReadsChangeNothing
      DEF PagesOK, NoOlder
  <1> QED
    BY <1>1, <1>9, <1>10, <1>11, <1>12, <1>13 DEF WorkOK

\* The latest code map is read when the page loops have finished.
LEMMA CodeMapStep ==
    ASSUME TwinIInv, NEW p \in Materializers, ReadCodeMap(p)
    PROVE  /\ work' \in [Materializers -> Work] /\ WorkOK(p)'
           /\ \A q \in Materializers \ {p} : work'[q] = work[q]
           /\ UNCHANGED Sources /\ UNCHANGED twins
  <1>1. UNCHANGED Sources /\ UNCHANGED twins
    BY DEF ReadCodeMap, ledgerVars, sourceVars, Sources
  <1>2. PICK w \in Work : w = work[p]
    BY DEF TwinIInv
  <1> DEFINE v == [w EXCEPT !.step = "mapped",
                            !.input = [w.input EXCEPT !.codeMap = Len(codeMaps)]]
  <1>3. SourcesOK /\ work \in [Materializers -> Work]
    BY DEF TwinIInv
  <1>4. work' = [work EXCEPT ![p] = v]
    BY <1>2, <1>3 DEF ReadCodeMap, Work
  <1>5. Len(codeMaps) \in Nat
    BY <1>3, SeqElements DEF SourcesOK
  <1>6. v \in Work
    BY <1>5 DEF Work, Inputs, Steps
  <1>7. /\ v.step = "mapped" /\ v.previous = w.previous /\ v.since = w.since
        /\ v.input.rows = w.input.rows /\ v.input.validations = w.input.validations
        /\ v.cursor = w.cursor /\ v.input.codeMap = Len(codeMaps)
    BY DEF Work, Inputs
  <1> HIDE DEF v
  <1>8. /\ work' \in [Materializers -> Work] /\ work'[p] = v
        /\ \A q \in Materializers \ {p} : work'[q] = work[q]
    BY <1>3, <1>4, <1>6
  <1>9. BegunOK(p) /\ PagesOK(p) /\ \A k \in Collections : w.cursor[k] = Exhausted
    BY <1>2 DEF TwinIInv, WorkOK, ReadCodeMap
  <1>10. BegunOK(p)'
    BY <1>1, <1>2, <1>7, <1>8, <1>9, ReadsChangeNothing DEF BegunOK
  <1>11. PagesOK(p)'
    BY <1>1, <1>2, <1>7, <1>8, <1>9, ReadsChangeNothing DEF PagesOK, NoOlder, RowsClosed
  <1>12. MappedOK(p)'
    <2>1. \A t \in 1 .. w.previous : twins[t].codeMap <= Len(codeMaps)
      <3>1. \A t \in 1 .. w.previous : t \in 1 .. Len(twins)
        BY <1>2, <1>9, TwinFacts DEF BegunOK, Work
      <3> QED
        BY <3>1, TwinFacts DEF Held
    <2> QED
      BY <1>1, <1>5, <1>7, <1>8, <1>9, <2>1, ReadsChangeNothing DEF MappedOK
  <1> QED
    BY <1>1, <1>7, <1>8, <1>10, <1>11, <1>12 DEF WorkOK

\* The projection: of rows that reach back to the predecessor's, or refused
\* because a row it names is not among them.
LEMMA ProjectStep ==
    ASSUME TwinIInv, NEW p \in Materializers, Project(p)
    PROVE  /\ work' \in [Materializers -> Work] /\ WorkOK(p)'
           /\ \A q \in Materializers \ {p} : work'[q] = work[q]
           /\ UNCHANGED Sources /\ UNCHANGED twins
  <1>1. UNCHANGED Sources /\ UNCHANGED twins
    BY DEF Project, ledgerVars, sourceVars, Sources
  <1>2. PICK w \in Work : w = work[p]
    BY DEF TwinIInv
  <1> DEFINE input == [w.input EXCEPT !.snapshots = snapshots]
             projected == [w EXCEPT !.step = "projected", !.input = input]
             refused == [Unread EXCEPT !.step = "integrity", !.previous = w.previous]
  <1>3. /\ SourcesOK /\ SourcesClosed /\ work \in [Materializers -> Work] /\ snapshots \in Nat
        /\ Len(codeMaps) \in Nat
        /\ DOMAIN codeMaps = 1 .. Len(codeMaps)
    BY SeqElements DEF TwinIInv, SourcesOK
  <1>4. BegunOK(p) /\ PagesOK(p) /\ MappedOK(p)
    BY DEF TwinIInv, WorkOK, Project
  <1>5. /\ input \in Inputs
        /\ input.rows = w.input.rows /\ input.validations = w.input.validations
        /\ input.codeMap = w.input.codeMap /\ input.snapshots = snapshots
    BY <1>3 DEF Work, Inputs
  <1>6. IF Closed(input)
        THEN work' = [work EXCEPT ![p] = projected]
        ELSE work' = [work EXCEPT ![p] = refused]
    BY <1>2, <1>3 DEF Project, Refuse, Work
  <1> HIDE DEF input
  <1>7. CASE Closed(input)
    <2>1. projected \in Work
      BY <1>5 DEF Work, Steps
    <2>2. /\ projected.step = "projected" /\ projected.previous = w.previous
          /\ projected.since = w.since /\ projected.input = input
      BY DEF Work
    <2> HIDE DEF projected
    <2>3. /\ work' \in [Materializers -> Work] /\ work'[p] = projected
          /\ \A q \in Materializers \ {p} : work'[q] = work[q]
      BY <1>3, <1>6, <1>7, <2>1
    <2>4. BegunOK(p)'
      BY <1>1, <1>2, <1>4, <2>2, <2>3, ReadsChangeNothing DEF BegunOK
    <2>5. Held(input)
      <3>1. snapshots <= snapshots
        BY <1>3
      <3> QED
        BY <1>2, <1>4, <1>5, <3>1 DEF Held, PagesOK, MappedOK
    <2>6. \A k \in Collections : w.since[k] \subseteq input.rows[k]
      <3>1. ASSUME NEW k \in Collections, NEW i \in w.since[k]
            PROVE  i <= w.cursor[k]
        <4>1. w.cursor[k] = Exhausted
          BY <1>2, <1>4 DEF MappedOK
        <4>2. w.since[k] \subseteq AllIds
          BY DEF Work
        <4> QED
          BY <3>1, <4>1, <4>2, IdsAreBounded
      <3> QED
        BY <1>2, <1>4, <1>5, <3>1 DEF PagesOK
    <2>7. ASSUME NEW t \in 1 .. w.previous
          PROVE  Within(twins[t], input)
      <3>1. Held(twins[t])
        BY <1>2, <1>4, TwinFacts DEF BegunOK, Work
      <3>2. \A k \in Collections : twins[t].rows[k] \subseteq input.rows[k]
        BY <1>2, <1>4, <2>6 DEF BegunOK
      <3>3. twins[t].codeMap <= input.codeMap
        BY <1>2, <1>4, <1>5 DEF MappedOK
      <3>4. twins[t].snapshots <= input.snapshots
        BY <1>5, <3>1 DEF Held
      <3>5. NoOlder(twins[t].validations, input.validations)
        BY <1>2, <1>4, <1>5 DEF PagesOK
      <3> QED
        BY <3>2, <3>3, <3>4, <3>5 DEF Within, NoOlder
    <2>8. ProjectedOK(p)'
      BY <1>1, <2>2, <2>3, <2>5, <2>6, <2>7, ReadsChangeNothing DEF ProjectedOK, Held, Within
    <2> QED
      BY <1>1, <2>2, <2>3, <2>4, <2>8 DEF WorkOK
  <1>8. CASE ~ Closed(input)
    <2>1. refused \in Work /\ refused.step = "integrity"
      BY PerCollection DEF Unread, NoInput, Input, NoRows, Work, Inputs, Steps, None
    <2> HIDE DEF refused
    <2>2. /\ work' \in [Materializers -> Work] /\ work'[p] = refused
          /\ \A q \in Materializers \ {p} : work'[q] = work[q]
      BY <1>3, <1>6, <1>8, <2>1
    <2>3. ASSUME AllFitAPage
          PROVE  FALSE
      <3>1. RowsClosed(input)
        BY <1>2, <1>4, <1>5, <2>3 DEF PagesOK, RowsClosed
      <3>2. \A i \in input.validations : validations[i].snapshot <= input.snapshots
        BY <1>2, <1>3, <1>4, <1>5 DEF PagesOK, SourcesClosed
      <3>3. input.codeMap # 0 => codeMaps[input.codeMap] <= input.snapshots
        <4>1. input.codeMap \in Nat /\ input.codeMap <= Len(codeMaps)
          BY <1>2, <1>4, <1>5 DEF MappedOK, Inputs
        <4>2. input.codeMap # 0 => input.codeMap \in DOMAIN codeMaps
          BY <1>3, <4>1
        <4> QED
          BY <1>3, <1>5, <4>2 DEF SourcesClosed
      <3> QED
        BY <1>8, <3>1, <3>2, <3>3 DEF Closed, RowsClosed
    <2> QED
      BY <1>1, <2>1, <2>2, <2>3, ReadsChangeNothing DEF WorkOK
  <1> QED
    BY <1>7, <1>8

\* What an answered request is left with.
LEMMA AnswerLeaves ==
    ASSUME work \in [Materializers -> Work], NEW p \in Materializers, Answer(p)
    PROVE  /\ work' \in [Materializers -> Work]
           /\ \A q \in Materializers \ {p} : work'[q] = work[q]
           /\ work'[p].step = "answered" /\ work'[p].since = work[p].since
  <1>1. NoInput \in Inputs
    BY DEF NoInput, Input, NoRows, Inputs
  <1>2. PICK w \in Work : w = work[p]
    OBVIOUS
  <1> DEFINE v == [w EXCEPT !.step = "answered", !.input = NoInput]
  <1>3. work' = [work EXCEPT ![p] = v]
    BY <1>2 DEF Answer, Work
  <1>4. v \in Work /\ v.step = "answered" /\ v.since = w.since
    BY <1>1 DEF Work, Steps
  <1> HIDE DEF v
  <1> QED
    BY <1>2, <1>3, <1>4

\* A projection equal to the latest revision is answered with that revision.
LEMMA ReuseStep ==
    ASSUME TwinIInv, NEW p \in Materializers, Reuse(p)
    PROVE  /\ work' \in [Materializers -> Work] /\ WorkOK(p)'
           /\ \A q \in Materializers \ {p} : work'[q] = work[q]
           /\ UNCHANGED Sources /\ UNCHANGED twins
  <1>1. UNCHANGED Sources /\ UNCHANGED twins
    BY DEF Reuse, ledgerVars, sourceVars, Sources
  <1>2. /\ work' \in [Materializers -> Work]
        /\ \A q \in Materializers \ {p} : work'[q] = work[q]
        /\ work'[p].step = "answered" /\ work'[p].since = work[p].since
    BY AnswerLeaves DEF TwinIInv, Reuse
  <1>3. ProjectedOK(p)
    BY DEF TwinIInv, WorkOK, Reuse
  <1>4. Len(twins) \in DOMAIN twins /\ twins[Len(twins)] = work[p].input
    <2>1. twins # <<>> /\ twins[Len(twins)] = work[p].input
      BY DEF Reuse, IsLatest
    <2>2. Len(twins) # 0
      BY <2>1, EmptySeq DEF TwinIInv, TwinsOK
    <2> QED
      BY <2>1, <2>2, TwinFacts
  <1>5. AnsweredOK(p)'
    BY <1>1, <1>2, <1>3, <1>4 DEF AnsweredOK, ProjectedOK
  <1> QED
    BY <1>1, <1>2, <1>5 DEF WorkOK

\* A request whose predecessor is no longer the latest revision is refused.
LEMMA ConflictStep ==
    ASSUME TwinIInv, NEW p \in Materializers, Conflict(p)
    PROVE  /\ work' \in [Materializers -> Work] /\ WorkOK(p)'
           /\ \A q \in Materializers \ {p} : work'[q] = work[q]
           /\ UNCHANGED Sources /\ UNCHANGED twins
  <1>1. UNCHANGED Sources /\ UNCHANGED twins
    BY DEF Conflict, ledgerVars, sourceVars, Sources
  <1>2. PICK w \in Work : w = work[p]
    BY DEF TwinIInv
  <1> DEFINE refused == [Unread EXCEPT !.step = "conflict", !.previous = w.previous]
  <1>3. work' = [work EXCEPT ![p] = refused]
    BY <1>2 DEF Conflict, Refuse
  <1>4. refused \in Work /\ refused.step = "conflict" /\ refused.previous = w.previous
    BY DEF Unread, NoInput, Input, NoRows, Work, Inputs, Steps, None
  <1> HIDE DEF refused
  <1>5. /\ work' \in [Materializers -> Work] /\ work'[p] = refused
        /\ \A q \in Materializers \ {p} : work'[q] = work[q]
    BY <1>3, <1>4 DEF TwinIInv
  <1>6. Len(twins) > w.previous
    <2>1. w.previous # Len(twins)
      BY <1>2 DEF Conflict, Follows
    <2>2. w.previous <= Len(twins)
      BY <1>2 DEF TwinIInv, WorkOK, BegunOK, Conflict
    <2> QED
      BY <2>1, <2>2, TwinFacts DEF Work
  <1> QED
    BY <1>1, <1>4, <1>5, <1>6 DEF WorkOK

\* A projection whose predecessor is still the latest becomes the next revision.
LEMMA StoreStep ==
    ASSUME TwinIInv, NEW p \in Materializers, StoreTwin(p)
    PROVE  /\ work' \in [Materializers -> Work] /\ WorkOK(p)'
           /\ \A q \in Materializers \ {p} : work'[q] = work[q]
           /\ UNCHANGED Sources
           /\ TwinsOK' /\ TwinsExtend
  <1>1. UNCHANGED Sources
    BY DEF StoreTwin, ledgerVars, sourceVars, Sources
  <1>2. /\ work' \in [Materializers -> Work]
        /\ \A q \in Materializers \ {p} : work'[q] = work[q]
        /\ work'[p].step = "answered" /\ work'[p].since = work[p].since
    BY AnswerLeaves DEF TwinIInv, StoreTwin
  <1>3. ProjectedOK(p) /\ SourcesOK /\ TwinsOK
    BY DEF TwinIInv, WorkOK, StoreTwin
  <1>4. PICK input \in Inputs : input = work[p].input
    BY DEF TwinIInv, Work
  <1>5. /\ twins' = Append(twins, input) /\ twins \in Seq(Inputs)
        /\ work[p].previous = Len(twins)
    BY <1>3, <1>4 DEF StoreTwin, Follows, TwinsOK
  <1>6. /\ twins' \in Seq(Inputs)
        /\ Len(twins') = Len(twins) + 1 /\ Len(twins) \in Nat
        /\ DOMAIN twins = 1 .. Len(twins)
        /\ DOMAIN twins' = DOMAIN twins \cup {Len(twins) + 1}
        /\ \A t \in DOMAIN twins : twins'[t] = twins[t]
        /\ twins'[Len(twins) + 1] = input
    BY <1>5, AppendFacts
  <1>7. TwinsExtend
    BY <1>6 DEF TwinsExtend
  <1>8. \A t \in DOMAIN twins' : Held(twins[t])'
    <2>1. Held(input)
      BY <1>3, <1>4 DEF ProjectedOK
    <2>2. \A t \in DOMAIN twins : Held(twins[t])
      BY <1>3 DEF TwinsOK
    <2> QED
      BY <1>1, <1>6, <2>1, <2>2, ReadsChangeNothing DEF Held
  <1>9. TwinsOnlyGrow'
    <2>1. ASSUME NEW i \in DOMAIN twins', NEW j \in DOMAIN twins', i < j
          PROVE  Within(twins[i], twins[j])'
      <3>1. CASE j \in DOMAIN twins
        <4>1. i \in DOMAIN twins
          BY <1>6, <2>1, <3>1
        <4>2. Within(twins[i], twins[j])
          BY <1>3, <2>1, <3>1, <4>1 DEF TwinsOK, TwinsOnlyGrow
        <4> QED
          BY <1>1, <1>6, <3>1, <4>1, <4>2, ReadsChangeNothing DEF Within
      <3>2. CASE j = Len(twins) + 1
        <4>1. i \in DOMAIN twins /\ i \in 1 .. work[p].previous
          BY <1>5, <1>6, <2>1, <3>2
        <4>2. Within(twins[i], input)
          BY <1>3, <1>4, <4>1 DEF ProjectedOK
        <4> QED
          BY <1>1, <1>6, <3>2, <4>1, <4>2, ReadsChangeNothing DEF Within
      <3> QED
        BY <1>6, <3>1, <3>2
    <2> QED
      BY <2>1 DEF TwinsOnlyGrow
  <1>10. TwinsOK'
    BY <1>6, <1>8, <1>9 DEF TwinsOK
  <1>11. AnsweredOK(p)'
    <2>1. \A k \in Collections : work[p].since[k] \subseteq input.rows[k]
      BY <1>3, <1>4 DEF ProjectedOK
    <2> QED
      BY <1>2, <1>6, <2>1 DEF AnsweredOK
  <1> QED
    BY <1>1, <1>2, <1>7, <1>10, <1>11 DEF WorkOK

-----------------------------------------------------------------------------
(***************************************************************************)
(* The theorems about the Twins.                                           *)
(***************************************************************************)
\* Nothing is stored and no request has begun.
LEMMA TwinInitOK ==
    ASSUME TwinInit
    PROVE  TwinIInv
  <1>1. SourcesOK
    <2>1. /\ current = TRUE /\ DOMAIN evidence = {} /\ DOMAIN claims = {} /\ DOMAIN links = {}
      BY DEF TwinInit, LedgerInit
    <2> QED
      BY <2>1, EmptySeq DEF TwinInit, SourcesOK, StoredIds, SourcesClosed
  <1>2. TwinsOK
    BY EmptySeq DEF TwinInit, TwinsOK, TwinsOnlyGrow
  <1>3. Unread \in Work /\ Unread.step = "requested"
    BY DEF Unread, NoInput, Input, NoRows, Work, Inputs, Steps, None
  <1>4. \A p \in Materializers : work[p] = Unread
    BY DEF TwinInit
  <1>5. work \in [Materializers -> Work]
    BY <1>3 DEF TwinInit
  <1>6. \A p \in Materializers : WorkOK(p)
    BY <1>3, <1>4 DEF WorkOK
  <1> QED
    BY <1>1, <1>2, <1>5, <1>6 DEF TwinIInv

\* The revisions stay as they are while only sources or nothing is stored.
LEMMA TwinsStay ==
    ASSUME TwinIInv, SourcesOK', SourcesGrow, UNCHANGED twins
    PROVE  TwinsOK' /\ TwinsExtend
  <1>1. SourcesOK /\ TwinsOK
    BY DEF TwinIInv
  <1>2. TwinsExtend
    BY TwinFacts DEF TwinsExtend
  <1>3. \A t \in DOMAIN twins : twins[t] \in Inputs /\ Held(twins[t])
    BY TwinFacts
  <1>4. ASSUME NEW t \in DOMAIN twins
        PROVE  Held(twins[t])'
    <2>1. PICK input \in Inputs : input = twins[t]
      BY <1>3
    <2>2. Held(input)
      BY <1>3, <2>1
    <2>3. Held(input)'
      BY <1>1, <2>2, HeldStays
    <2> QED
      BY <2>1, <2>3 DEF Held
  <1>5. ASSUME NEW i \in DOMAIN twins, NEW j \in DOMAIN twins, i < j
        PROVE  Within(twins[i], twins[j])'
    <2>1. PICK small \in Inputs : small = twins[i]
      BY <1>3
    <2>2. PICK large \in Inputs : large = twins[j]
      BY <1>3
    <2>3. Held(small) /\ Held(large)
      BY <1>3, <2>1, <2>2
    <2>4. Within(small, large)
      BY <1>1, <1>5, <2>1, <2>2 DEF TwinsOK, TwinsOnlyGrow
    <2>5. Within(small, large)'
      BY <1>1, <2>3, <2>4, WithinStays
    <2> QED
      BY <2>1, <2>2, <2>5 DEF Within
  <1> QED
    BY <1>1, <1>2, <1>4, <1>5 DEF TwinsOK, TwinsOnlyGrow

\* Every step keeps the invariant, and the sources and revisions only grow.
LEMMA TwinStep ==
    ASSUME TwinIInv, [TwinNext]_twinVars
    PROVE  TwinIInv' /\ SourcesGrow /\ TwinsExtend
  <1>1. SourcesOK
    BY DEF TwinIInv
  <1>2. ASSUME SourcesNext \/ UNCHANGED twinVars
        PROVE  TwinIInv' /\ SourcesGrow /\ TwinsExtend
    <2>1. UNCHANGED <<twins, work>>
      BY <1>2, SourcesLeaveTwins DEF twinVars
    <2>2. SourcesOK' /\ SourcesGrow
      <3>1. CASE SourcesNext
        BY <1>1, <3>1, SourcesStep
      <3>2. CASE UNCHANGED twinVars
        BY <1>1, <3>2, SourcesStay DEF twinVars, ledgerVars, sourceVars, Sources
      <3> QED
        BY <1>2, <3>1, <3>2
    <2>3. TwinsOK' /\ TwinsExtend
      BY <2>1, <2>2, TwinsStay
    <2>4. \A p \in Materializers : WorkOK(p)'
      BY <2>1, <2>2, <2>3, Unmoved
    <2> QED
      BY <2>1, <2>2, <2>3, <2>4 DEF TwinIInv
  <1>3. ASSUME NEW p \in Materializers, Materialize(p)
        PROVE  TwinIInv' /\ SourcesGrow /\ TwinsExtend
    <2>1. /\ work' \in [Materializers -> Work] /\ WorkOK(p)'
          /\ \A q \in Materializers \ {p} : work'[q] = work[q]
          /\ UNCHANGED Sources
          /\ UNCHANGED twins \/ (TwinsOK' /\ TwinsExtend)
      BY <1>3, BeginStep, FirstPagesStep, NextPageStep, CodeMapStep, ProjectStep,
         ReuseStep, StoreStep, ConflictStep DEF Materialize
    <2>2. SourcesOK' /\ SourcesGrow
      BY <1>1, <2>1, SourcesStay
    <2>3. TwinsOK' /\ TwinsExtend
      BY <2>1, <2>2, TwinsStay
    <2>4. \A q \in Materializers : WorkOK(q)'
      BY <2>1, <2>2, <2>3, Unmoved
    <2> QED
      BY <2>1, <2>2, <2>3, <2>4 DEF TwinIInv
  <1> QED
    BY <1>2, <1>3 DEF TwinNext

\* What the properties say of one state.
LEMMA TwinIInvImplies ==
    ASSUME TwinIInv
    PROVE  /\ TwinsOnlyGrow
           /\ AnswerCoversRequest
           /\ ConflictMeansProgress
           /\ IncompleteOnlyAcrossPages
  <1>1. TwinsOnlyGrow
    BY DEF TwinIInv, TwinsOK
  <1>2. AnswerCoversRequest
    BY DEF TwinIInv, WorkOK, AnsweredOK, AnswerCoversRequest
  <1>3. ConflictMeansProgress
    BY DEF TwinIInv, WorkOK, ConflictMeansProgress
  <1>4. IncompleteOnlyAcrossPages
    <2> SUFFICES ASSUME NEW p \in Materializers, work[p].step = "integrity"
                 PROVE  \E k \in Collections : Cardinality(Stored(k)) > PageLimit
      BY DEF IncompleteOnlyAcrossPages
    <2>1. PICK k \in Collections : ~ (Cardinality(Stored(k)) <= PageLimit)
      BY DEF TwinIInv, WorkOK, AllFitAPage
    <2>2. Cardinality(Stored(k)) \in Nat
      BY StoredRows, IdsAreFinite DEF TwinIInv, SourcesOK
    <2> QED
      BY <2>1, <2>2, PageAssumption
  <1> QED
    BY <1>1, <1>2, <1>3, <1>4

\* The invariant holds of every behaviour of the materializations.
THEOREM TwinInvariant == TwinSpec => []TwinIInv
  <1>1. TwinInit => TwinIInv
    BY TwinInitOK
  <1>2. TwinIInv /\ [TwinNext]_twinVars => TwinIInv'
    BY TwinStep
  <1> QED
    BY <1>1, <1>2, PTL DEF TwinSpec

\* No revision of the Twin loses what an earlier one holds, for any number of
\* materializations, whose reads interleave with any imports.
THEOREM TwinsLoseNothing == TwinSpec => []TwinsOnlyGrow
  BY TwinInvariant, TwinIInvImplies, PTL

\* Every answer names a revision with all that was stored when the request
\* came in, for any length of a page and of the collections.
THEOREM AnswersAreCurrent == TwinSpec => []AnswerCoversRequest
  BY TwinInvariant, TwinIInvImplies, PTL

\* Every 409 is due to a revision stored since the request came in, and a
\* projection is refused as incomplete only when some collection is longer than
\* a page.
THEOREM RefusalsAreExplained == TwinSpec => []RefusalsHaveCause
  <1>1. TwinIInv => RefusalsHaveCause
    BY TwinIInvImplies DEF RefusalsHaveCause
  <1> QED
    BY <1>1, TwinInvariant, PTL

-----------------------------------------------------------------------------
(***************************************************************************)
(* Reconciliation.                                                         *)
(***************************************************************************)
Executions == {Waiting} \cup [previous : Nat, request : Requests]

RevisionsOK ==
    /\ \E Revisions : reconciliations \in Seq(Revisions)
    /\ \A i \in DOMAIN reconciliations :
           /\ reconciliations[i].reassessment.revision \in Nat
           /\ reconciliations[i].reassessment.revision > 0
           /\ reconciliations[i].reassessment.twin \in DOMAIN twins
    /\ InputsAreUnique
    /\ StaleNamesTheChange
    /\ ConflictsAreUnresolved

\* An execution that has begun is about a Twin whose claims and links agree.
ExecutionOK(p) ==
    executing[p] # Waiting =>
        /\ executing[p].request.twin \in DOMAIN twins
        /\ Whole(twins[executing[p].request.twin])

ReconciliationIInv ==
    /\ TwinIInv
    /\ RevisionsOK
    /\ executing \in [Reconcilers -> Executions]
    /\ \A p \in Reconcilers : ExecutionOK(p)

\* The claims and links of a revision are those it was stored with.
LEMMA TwinRowsStay ==
    ASSUME TwinIInv, SourcesGrow, TwinsExtend, NEW t \in DOMAIN twins
    PROVE  /\ t \in DOMAIN twins' /\ twins'[t] = twins[t]
           /\ \A c \in ClaimsOf(twins[t]) : claims'[c] = claims[c]
           /\ \A l \in LinksOf(twins[t]) : links'[l] = links[l]
  <1>1. t \in DOMAIN twins' /\ twins'[t] = twins[t]
    BY DEF TwinsExtend
  <1>2. /\ ClaimsOf(twins[t]) \subseteq DOMAIN claims
        /\ LinksOf(twins[t]) \subseteq DOMAIN links
    BY TwinFacts DEF Held, Stored, Collections, ClaimsOf, LinksOf
  <1> QED
    BY <1>1, <1>2 DEF SourcesGrow

\* A revision whose claims and links agree keeps them so.
LEMMA WholeStays ==
    ASSUME TwinIInv, SourcesGrow, TwinsExtend, NEW t \in DOMAIN twins, Whole(twins[t])
    PROVE  Whole(twins[t])'
  <1>1. /\ twins'[t] = twins[t]
        /\ \A c \in ClaimsOf(twins[t]) : claims'[c] = claims[c]
        /\ \A l \in LinksOf(twins[t]) : links'[l] = links[l]
    BY TwinRowsStay
  <1>2. ASSUME NEW c \in ClaimsOf(twins[t])
        PROVE  {claims'[c].supersedes} \ {None} =
                   {links'[l].predecessor :
                       l \in {k \in LinksOf(twins[t]) : links'[k].successor = c}}
    <2>1. {claims[c].supersedes} \ {None} =
              {links[l].predecessor : l \in {k \in LinksOf(twins[t]) : links[k].successor = c}}
      BY DEF Whole
    <2>2. {k \in LinksOf(twins[t]) : links'[k].successor = c} =
              {k \in LinksOf(twins[t]) : links[k].successor = c}
      BY <1>1
    <2>3. {links'[l].predecessor :
              l \in {k \in LinksOf(twins[t]) : links'[k].successor = c}} =
          {links[l].predecessor :
              l \in {k \in LinksOf(twins[t]) : links[k].successor = c}}
      BY <1>1, <2>2
    <2> QED
      BY <1>1, <2>1, <2>3
  <1> QED
    BY <1>1, <1>2 DEF Whole, ClaimsOf, LinksOf

\* No claim of a conflict is superseded in a revision whose claims and links agree.
LEMMA ConflictsAreActive ==
    ASSUME TwinIInv, NEW t \in DOMAIN twins, Whole(twins[t])
    PROVE  \A pair \in Conflicts(twins[t]) :
               \A c \in ClaimsOf(twins[t]) : claims[c].supersedes \notin pair
  <1> SUFFICES ASSUME NEW pair \in Conflicts(twins[t]), NEW c \in ClaimsOf(twins[t]),
                      claims[c].supersedes \in pair
               PROVE  FALSE
    OBVIOUS
  <1> DEFINE s == claims[c].supersedes
  <1>1. s \in ClaimsOf(twins[t])
        /\ s \notin {links[l].predecessor : l \in LinksOf(twins[t])}
    BY DEF Conflicts, Active
  <1>2. s # None
    <2>1. ClaimsOf(twins[t]) \subseteq AllIds
      BY TwinFacts, StoredRows DEF Held, ClaimsOf, TwinIInv, SourcesOK, Collections
    <2> QED
      BY <1>1, <2>1, IdsAreBounded DEF None
  <1>3. s \in {links[l].predecessor : l \in {k \in LinksOf(twins[t]) : links[k].successor = c}}
    BY <1>2 DEF Whole
  <1> QED
    BY <1>1, <1>3

\* The state of a reconciliation that stores no revision.
LEMMA RevisionsStay ==
    ASSUME ReconciliationIInv, SourcesGrow, TwinsExtend, UNCHANGED reconciliations
    PROVE  RevisionsOK'
  <1>1. TwinIInv /\ RevisionsOK
    BY DEF ReconciliationIInv
  <1>2. \E Revisions : reconciliations' \in Seq(Revisions)
    BY <1>1 DEF RevisionsOK
  <1>3. \A i \in DOMAIN reconciliations' :
            /\ reconciliations'[i].reassessment.revision \in Nat
            /\ reconciliations'[i].reassessment.revision > 0
            /\ reconciliations'[i].reassessment.twin \in DOMAIN twins'
    BY <1>1 DEF RevisionsOK, TwinsExtend
  <1>4. InputsAreUnique' /\ StaleNamesTheChange'
    BY <1>1 DEF RevisionsOK, InputsAreUnique, StaleNamesTheChange
  <1>5. ConflictsAreUnresolved'
    <2> SUFFICES ASSUME NEW i \in DOMAIN reconciliations,
                        NEW pair \in reconciliations[i].reassessment.conflicts,
                        NEW c \in ClaimsOf(twins'[reconciliations[i].reassessment.twin])
                 PROVE  claims'[c].supersedes \notin pair
      BY DEF ConflictsAreUnresolved, Reassessments, ClaimsOf
    <2>1. PICK t \in DOMAIN twins : t = reconciliations[i].reassessment.twin
      BY <1>1 DEF RevisionsOK
    <2>2. /\ twins'[t] = twins[t]
          /\ \A d \in ClaimsOf(twins[t]) : claims'[d] = claims[d]
      BY <1>1, TwinRowsStay
    <2>3. \A d \in ClaimsOf(twins[t]) : claims[d].supersedes \notin pair
      BY <1>1, <2>1 DEF RevisionsOK, ConflictsAreUnresolved, Reassessments
    <2> QED
      BY <2>1, <2>2, <2>3 DEF ClaimsOf
  <1> QED
    BY <1>2, <1>3, <1>4, <1>5 DEF RevisionsOK

\* An execution that makes no step keeps what holds of it.
LEMMA ExecutionStays ==
    ASSUME TwinIInv, SourcesGrow, TwinsExtend, NEW p \in Reconcilers,
           executing'[p] = executing[p], ExecutionOK(p)
    PROVE  ExecutionOK(p)'
  <1> SUFFICES ASSUME executing[p] # Waiting
               PROVE  /\ executing[p].request.twin \in DOMAIN twins'
                      /\ Whole(twins[executing[p].request.twin])'
    BY DEF ExecutionOK, Waiting
  <1>1. PICK t \in DOMAIN twins : t = executing[p].request.twin /\ Whole(twins[t])
    BY DEF ExecutionOK
  <1>2. Whole(twins[t])' /\ t \in DOMAIN twins'
    BY <1>1, WholeStays, TwinRowsStay
  <1> QED
    BY <1>1, <1>2 DEF Whole, ClaimsOf, LinksOf

\* A sequence with one more row, of whatever kind.
LEMMA AppendToAny ==
    ASSUME NEW Rows, NEW s \in Seq(Rows), NEW row
    PROVE  /\ \E More : Append(s, row) \in Seq(More)
           /\ DOMAIN s = 1 .. Len(s) /\ Len(s) \in Nat
           /\ DOMAIN Append(s, row) = DOMAIN s \cup {Len(s) + 1}
           /\ \A i \in DOMAIN s : Append(s, row)[i] = s[i]
           /\ Append(s, row)[Len(s) + 1] = row
  <1>1. s \in Seq(Rows \cup {row})
    <2>1. DOMAIN s = 1 .. Len(s) /\ Len(s) \in Nat /\ \A i \in DOMAIN s : s[i] \in Rows
      BY SeqElements
    <2>2. s = [i \in 1 .. Len(s) |-> s[i]]
      BY LenProperties
    <2> QED
      BY <2>1, <2>2, SeqDef
  <1>2. row \in Rows \cup {row}
    OBVIOUS
  <1>3. /\ Append(s, row) \in Seq(Rows \cup {row})
        /\ DOMAIN s = 1 .. Len(s) /\ Len(s) \in Nat
        /\ DOMAIN Append(s, row) = DOMAIN s \cup {Len(s) + 1}
        /\ \A i \in DOMAIN s : Append(s, row)[i] = s[i]
        /\ Append(s, row)[Len(s) + 1] = row
    BY <1>1, <1>2, AppendFacts
  <1> QED
    BY <1>3

\* An execution that begins is about a revision whose claims and links agree.
LEMMA BeginExecution ==
    ASSUME ReconciliationIInv, NEW p \in Reconcilers, NEW request \in Requests,
           Begin(p, request)
    PROVE  /\ executing' \in [Reconcilers -> Executions]
           /\ \A q \in Reconcilers \ {p} : executing'[q] = executing[q]
           /\ ExecutionOK(p)'
  <1>1. Len(reconciliations) \in Nat
    BY LenProperties DEF ReconciliationIInv, RevisionsOK
  <1> DEFINE execution == [previous |-> Len(reconciliations), request |-> request]
  <1>2. execution \in Executions /\ execution.request = request
    BY <1>1 DEF Executions
  <1>3. executing' = [executing EXCEPT ![p] = execution]
    BY DEF Begin
  <1> HIDE DEF execution
  <1>4. /\ executing' \in [Reconcilers -> Executions] /\ executing'[p] = execution
        /\ \A q \in Reconcilers \ {p} : executing'[q] = executing[q]
    BY <1>2, <1>3 DEF ReconciliationIInv
  <1>5. /\ UNCHANGED <<twins, claims, links>>
        /\ request.twin \in DOMAIN twins /\ Whole(twins[request.twin])
    BY DEF Begin, Reconcilable, twinVars, ledgerVars
  <1> QED
    BY <1>2, <1>4, <1>5 DEF ExecutionOK, Whole, ClaimsOf, LinksOf

\* What an execution stores: the last reassessment, or the next one.
LEMMA CandidateFacts ==
    ASSUME ReconciliationIInv, NEW p \in Reconcilers, executing[p] # Waiting,
           executing[p].previous = Len(reconciliations)
    PROVE  LET request == executing[p].request
               this    == Candidate(executing[p]).reassessment
               last    == reconciliations[Len(reconciliations)].reassessment
           IN  /\ Candidate(executing[p]).impact = Impact(request)
               /\ this.twin = request.twin /\ this.support = request.support
               /\ this.revision \in Nat /\ this.revision > 0
               /\ Len(reconciliations) = 0 =>
                      /\ this.revision = 1 /\ ~ this.stale
                      /\ this.conflicts = Conflicts(twins[request.twin])
               /\ Len(reconciliations) # 0 =>
                      \/ this = last
                      \/ /\ this.revision = last.revision + 1
                         /\ this.stale <=> this.dependencies # last.dependencies
                         /\ this.conflicts = Conflicts(twins[request.twin])
  <1> DEFINE request == executing[p].request
             this == Candidate(executing[p]).reassessment
             last == reconciliations[Len(reconciliations)].reassessment
             latest == LatestReassessment(executing[p].previous)
             needs == Dependencies(twins[request.twin], request.support)
             made == [revision     |-> latest.revision + 1,
                      twin         |-> request.twin,
                      support      |-> request.support,
                      dependencies |-> needs,
                      conflicts    |-> Conflicts(twins[request.twin]),
                      missing      |-> Missing(twins[request.twin], request.support),
                      stale        |-> latest.revision # 0 /\ latest.dependencies # needs]
  <1>1. PICK Revisions : reconciliations \in Seq(Revisions)
    BY DEF ReconciliationIInv, RevisionsOK
  <1>2. Len(reconciliations) \in Nat /\ DOMAIN reconciliations = 1 .. Len(reconciliations)
    BY <1>1, LenProperties
  <1>3. /\ Candidate(executing[p]).impact = Impact(request)
        /\ this = IF /\ latest.revision # 0
                     /\ latest.twin = request.twin
                     /\ latest.support = request.support
                  THEN latest ELSE made
    BY DEF Candidate, Reassess
  <1>4. Len(reconciliations) = 0 => latest.revision = 0
    BY DEF LatestReassessment
  <1>5. Len(reconciliations) # 0 => /\ latest = last
                                    /\ last.revision \in Nat /\ last.revision > 0
    <2>1. Len(reconciliations) # 0 => Len(reconciliations) \in DOMAIN reconciliations
      BY <1>2
    <2> QED
      BY <2>1 DEF LatestReassessment, ReconciliationIInv, RevisionsOK
  <1>6. latest.revision \in Nat
    BY <1>4, <1>5
  <1>7. /\ made.revision = latest.revision + 1
        /\ made.twin = request.twin /\ made.support = request.support
        /\ made.dependencies = needs
        /\ made.conflicts = Conflicts(twins[request.twin])
        /\ made.stale = (latest.revision # 0 /\ latest.dependencies # needs)
    OBVIOUS
  <1> HIDE DEF made, latest, needs, this, last
  <1>8. CASE this = made
    <2>1. this.revision \in Nat /\ this.revision > 0
      BY <1>6, <1>7, <1>8
    <2>2. ASSUME Len(reconciliations) = 0
          PROVE  this.revision = 1 /\ ~ this.stale
      <3>1. this.revision = 1
        BY <1>4, <1>7, <1>8, <2>2
      <3>2. ~ this.stale
        BY <1>4, <1>7, <1>8, <2>2
      <3> QED
        BY <3>1, <3>2
    <2>3. ASSUME Len(reconciliations) # 0
          PROVE  /\ this.revision = last.revision + 1
                 /\ this.stale <=> this.dependencies # last.dependencies
      <3>1. this.revision = last.revision + 1 /\ latest = last /\ latest.revision # 0
        BY <1>5, <1>7, <1>8, <2>3
      <3>2. this.stale = (latest.revision # 0 /\ latest.dependencies # needs)
        BY <1>7, <1>8
      <3>3. this.dependencies = needs
        BY <1>7, <1>8
      <3>4. this.stale <=> this.dependencies # last.dependencies
        BY <3>1, <3>2, <3>3, Zenon
      <3> QED
        BY <3>1, <3>4
    <2> QED
      BY <1>3, <1>7, <1>8, <2>1, <2>2, <2>3 DEF this, last
  <1>9. CASE this = latest /\ this # made
    <2>1. latest.revision # 0 /\ latest.twin = request.twin /\ latest.support = request.support
      BY <1>3, <1>9
    <2>2. Len(reconciliations) # 0 /\ this = last
      BY <1>4, <1>5, <1>9, <2>1
    <2> QED
      BY <1>3, <1>5, <1>9, <2>1, <2>2 DEF this, last
  <1> QED
    BY <1>3, <1>8, <1>9

\* A revision is stored for an input no revision has, after the last one.
LEMMA StoreExecution ==
    ASSUME ReconciliationIInv, NEW p \in Reconcilers, StoreReconciliation(p)
    PROVE  /\ RevisionsOK'
           /\ executing' \in [Reconcilers -> Executions]
           /\ \A q \in Reconcilers \ {p} : executing'[q] = executing[q]
           /\ ExecutionOK(p)'
           /\ UNCHANGED twinVars
  <1> DEFINE request == executing[p].request
             last == reconciliations[Len(reconciliations)].reassessment
  <1>1. PICK row : row = Candidate(executing[p])
    OBVIOUS
  <1>2. PICK Revisions : reconciliations \in Seq(Revisions)
    BY DEF ReconciliationIInv, RevisionsOK
  <1>3. /\ reconciliations' = Append(reconciliations, row)
        /\ executing[p] # Waiting
        /\ executing[p].previous = Len(reconciliations)
        /\ ~ Replayed(request)
        /\ executing' = [executing EXCEPT ![p] = Waiting]
        /\ UNCHANGED twinVars
    BY <1>1 DEF StoreReconciliation, Storable
  <1>4. /\ \E More : reconciliations' \in Seq(More)
        /\ Len(reconciliations) \in Nat
        /\ DOMAIN reconciliations = 1 .. Len(reconciliations)
        /\ DOMAIN reconciliations' = DOMAIN reconciliations \cup {Len(reconciliations) + 1}
        /\ \A i \in DOMAIN reconciliations : reconciliations'[i] = reconciliations[i]
        /\ reconciliations'[Len(reconciliations) + 1] = row
    <2> DEFINE next == Append(reconciliations, row)
    <2>1. /\ \E More : next \in Seq(More)
          /\ DOMAIN reconciliations = 1 .. Len(reconciliations)
          /\ Len(reconciliations) \in Nat
          /\ DOMAIN next = DOMAIN reconciliations \cup {Len(reconciliations) + 1}
          /\ \A i \in DOMAIN reconciliations : next[i] = reconciliations[i]
          /\ next[Len(reconciliations) + 1] = row
      BY <1>2, AppendToAny
    <2>2. reconciliations' = next
      BY <1>3
    <2> HIDE DEF next
    <2> QED
      BY <2>1, <2>2
  <1>5. UNCHANGED <<twins, claims, links>>
    BY <1>3 DEF twinVars, ledgerVars
  <1>6. request.twin \in DOMAIN twins /\ Whole(twins[request.twin])
    BY <1>3 DEF ReconciliationIInv, ExecutionOK
  <1>7. /\ row.impact = Impact(request)
        /\ row.reassessment.twin = request.twin /\ row.reassessment.support = request.support
        /\ row.reassessment.revision \in Nat /\ row.reassessment.revision > 0
        /\ Len(reconciliations) = 0 =>
               /\ row.reassessment.revision = 1 /\ ~ row.reassessment.stale
               /\ row.reassessment.conflicts = Conflicts(twins[request.twin])
        /\ Len(reconciliations) # 0 =>
               \/ row.reassessment = last
               \/ /\ row.reassessment.revision = last.revision + 1
                  /\ row.reassessment.stale
                         <=> row.reassessment.dependencies # last.dependencies
                  /\ row.reassessment.conflicts = Conflicts(twins[request.twin])
    BY <1>1, <1>3, CandidateFacts
  <1> HIDE DEF request, last
  <1>8. \A i \in DOMAIN reconciliations' :
            /\ reconciliations'[i].reassessment.revision \in Nat
            /\ reconciliations'[i].reassessment.revision > 0
            /\ reconciliations'[i].reassessment.twin \in DOMAIN twins'
    <2>1. \A i \in DOMAIN reconciliations :
              /\ reconciliations[i].reassessment.revision \in Nat
              /\ reconciliations[i].reassessment.revision > 0
              /\ reconciliations[i].reassessment.twin \in DOMAIN twins
      BY DEF ReconciliationIInv, RevisionsOK
    <2> QED
      BY <1>4, <1>5, <1>6, <1>7, <2>1
  <1>9. InputsAreUnique'
    <2>1. \A i \in DOMAIN reconciliations :
              ~ /\ reconciliations[i].impact = row.impact
                /\ reconciliations[i].reassessment.twin = row.reassessment.twin
                /\ reconciliations[i].reassessment.support = row.reassessment.support
      BY <1>3, <1>7 DEF Replayed, HasInput
    <2>2. InputsAreUnique
      BY DEF ReconciliationIInv, RevisionsOK
    <2> QED
      BY <1>4, <2>1, <2>2 DEF InputsAreUnique
  <1>10. StaleNamesTheChange'
    <2>1. StaleNamesTheChange
      BY DEF ReconciliationIInv, RevisionsOK
    <2> SUFFICES ASSUME NEW i \in DOMAIN reconciliations'
                 PROVE  IF i = 1
                        THEN /\ reconciliations'[i].reassessment.revision = 1
                             /\ ~ reconciliations'[i].reassessment.stale
                        ELSE \/ reconciliations'[i].reassessment
                                    = reconciliations'[i - 1].reassessment
                             \/ /\ reconciliations'[i].reassessment.revision
                                       = reconciliations'[i - 1].reassessment.revision + 1
                                /\ reconciliations'[i].reassessment.stale
                                       <=> reconciliations'[i].reassessment.dependencies
                                             # reconciliations'[i - 1].reassessment.dependencies
      BY DEF StaleNamesTheChange
    <2>2. CASE i \in DOMAIN reconciliations
      <3>1. i # 1 => i - 1 \in DOMAIN reconciliations
        BY <1>4, <2>2
      <3>2. /\ reconciliations'[i] = reconciliations[i]
            /\ i # 1 => reconciliations'[i - 1] = reconciliations[i - 1]
        BY <1>4, <2>2, <3>1
      <3> QED
        BY <2>1, <2>2, <3>2 DEF StaleNamesTheChange
    <2>3. CASE i = Len(reconciliations) + 1
      <3>1. reconciliations'[i] = row
        BY <1>4, <2>3
      <3>2. CASE Len(reconciliations) = 0
        <4>1. i = 1
          BY <2>3, <3>2
        <4> QED
          BY <1>7, <3>1, <3>2, <4>1
      <3>3. CASE Len(reconciliations) # 0
        <4>1. i # 1 /\ i - 1 = Len(reconciliations)
              /\ Len(reconciliations) \in DOMAIN reconciliations
          BY <1>4, <2>3, <3>3
        <4>2. reconciliations'[i - 1].reassessment = last
          BY <1>4, <4>1 DEF last
        <4>3. \/ row.reassessment = last
              \/ /\ row.reassessment.revision = last.revision + 1
                 /\ row.reassessment.stale
                        <=> row.reassessment.dependencies # last.dependencies
          BY <1>7, <3>3
        <4> HIDE DEF last
        <4> QED
          BY <3>1, <4>1, <4>2, <4>3, Zenon
      <3> QED
        BY <3>2, <3>3
    <2> QED
      BY <1>4, <2>2, <2>3
  <1>11. ConflictsAreUnresolved'
    <2>1. ConflictsAreUnresolved
      BY DEF ReconciliationIInv, RevisionsOK
    <2>2. \A i \in DOMAIN reconciliations :
              \A pair \in reconciliations[i].reassessment.conflicts :
                  \A c \in ClaimsOf(twins[reconciliations[i].reassessment.twin]) :
                      claims[c].supersedes \notin pair
      BY <2>1 DEF ConflictsAreUnresolved, Reassessments
    <2>3. \A pair \in row.reassessment.conflicts :
              \A c \in ClaimsOf(twins[row.reassessment.twin]) :
                  claims[c].supersedes \notin pair
      <3>1. CASE row.reassessment.conflicts = Conflicts(twins[request.twin])
        <4>1. PICK t \in DOMAIN twins : t = request.twin /\ Whole(twins[t])
          BY <1>6
        <4>2. \A pair \in Conflicts(twins[t]) :
                  \A c \in ClaimsOf(twins[t]) : claims[c].supersedes \notin pair
          BY <4>1, ConflictsAreActive DEF ReconciliationIInv
        <4> QED
          BY <1>7, <3>1, <4>1, <4>2
      <3>2. CASE Len(reconciliations) # 0 /\ row.reassessment = last
        <4>1. Len(reconciliations) \in DOMAIN reconciliations
          BY <1>4, <3>2
        <4> QED
          BY <2>2, <3>2, <4>1 DEF last
      <3> QED
        BY <1>7, <3>1, <3>2
    <2>4. \A i \in DOMAIN reconciliations' :
              \A pair \in reconciliations'[i].reassessment.conflicts :
                  \A c \in ClaimsOf(twins[reconciliations'[i].reassessment.twin]) :
                      claims[c].supersedes \notin pair
      BY <1>4, <2>2, <2>3
    <2> QED
      BY <1>5, <2>4 DEF ConflictsAreUnresolved, Reassessments, ClaimsOf
  <1>12. /\ executing' \in [Reconcilers -> Executions] /\ executing'[p] = Waiting
         /\ \A q \in Reconcilers \ {p} : executing'[q] = executing[q]
    BY <1>3 DEF ReconciliationIInv, Executions
  <1>13. ExecutionOK(p)'
    BY <1>12 DEF ExecutionOK, Waiting
  <1>14. RevisionsOK'
    BY <1>4, <1>8, <1>9, <1>10, <1>11 DEF RevisionsOK
  <1> QED
    BY <1>3, <1>12, <1>13, <1>14

\* An execution that finds its input stored, or another predecessor, ends.
LEMMA KeepExecution ==
    ASSUME ReconciliationIInv, NEW p \in Reconcilers, KeepReconciliations(p)
    PROVE  /\ executing' \in [Reconcilers -> Executions]
           /\ \A q \in Reconcilers \ {p} : executing'[q] = executing[q]
           /\ ExecutionOK(p)'
           /\ UNCHANGED <<twinVars, reconciliations>>
  <1>1. executing' = [executing EXCEPT ![p] = Waiting] /\ UNCHANGED <<twinVars, reconciliations>>
    BY DEF KeepReconciliations
  <1>2. /\ executing' \in [Reconcilers -> Executions] /\ executing'[p] = Waiting
        /\ \A q \in Reconcilers \ {p} : executing'[q] = executing[q]
    BY <1>1 DEF ReconciliationIInv, Executions
  <1> QED
    BY <1>1, <1>2 DEF ExecutionOK, Waiting

\* Nothing is reconciled at first.
LEMMA ReconciliationInitOK ==
    ASSUME ReconciliationInit
    PROVE  ReconciliationIInv
  <1>1. TwinIInv
    BY TwinInitOK DEF ReconciliationInit
  <1>2. reconciliations = <<>> /\ DOMAIN reconciliations = {}
    BY EmptySeq DEF ReconciliationInit
  <1>3. RevisionsOK
    <2>1. \E Revisions : reconciliations \in Seq(Revisions)
      BY <1>2, EmptySeq
    <2> QED
      BY <1>2, <2>1
      DEF RevisionsOK, InputsAreUnique, StaleNamesTheChange, ConflictsAreUnresolved, Reassessments
  <1>4. executing \in [Reconcilers -> Executions] /\ \A p \in Reconcilers : ExecutionOK(p)
    BY DEF ReconciliationInit, Executions, ExecutionOK
  <1> QED
    BY <1>1, <1>3, <1>4 DEF ReconciliationIInv

\* Every step keeps the invariant.
LEMMA ReconciliationStep ==
    ASSUME ReconciliationIInv, [ReconciliationNext]_reconciliationVars
    PROVE  ReconciliationIInv'
  <1>1. TwinIInv' /\ SourcesGrow /\ TwinsExtend
    <2>1. [TwinNext]_twinVars
      BY DEF ReconciliationNext, Reconcile, Begin, StoreReconciliation, KeepReconciliations,
             reconciliationVars
    <2> QED
      BY <2>1, TwinStep DEF ReconciliationIInv
  <1>2. ASSUME UNCHANGED <<reconciliations, executing>>
        PROVE  ReconciliationIInv'
    <2>1. RevisionsOK'
      BY <1>1, <1>2, RevisionsStay
    <2>2. \A p \in Reconcilers : ExecutionOK(p)'
      BY <1>1, <1>2, ExecutionStays DEF ReconciliationIInv
    <2> QED
      BY <1>1, <1>2, <2>1, <2>2 DEF ReconciliationIInv
  <1>3. ASSUME NEW p \in Reconcilers, Reconcile(p)
        PROVE  ReconciliationIInv'
    <2>1. /\ executing' \in [Reconcilers -> Executions] /\ ExecutionOK(p)'
          /\ \A q \in Reconcilers \ {p} : executing'[q] = executing[q]
          /\ UNCHANGED reconciliations \/ RevisionsOK'
      <3>1. CASE \E request \in Requests : Begin(p, request)
        <4>1. UNCHANGED reconciliations
          BY <3>1 DEF Begin
        <4> QED
          BY <3>1, <4>1, BeginExecution
      <3>2. CASE StoreReconciliation(p)
        BY <3>2, StoreExecution
      <3>3. CASE KeepReconciliations(p)
        BY <3>3, KeepExecution
      <3> QED
        BY <1>3, <3>1, <3>2, <3>3 DEF Reconcile
    <2>2. RevisionsOK'
      BY <1>1, <2>1, RevisionsStay
    <2>3. \A q \in Reconcilers : ExecutionOK(q)'
      BY <1>1, <2>1, ExecutionStays DEF ReconciliationIInv
    <2> QED
      BY <1>1, <2>1, <2>2, <2>3 DEF ReconciliationIInv
  <1> QED
    BY <1>2, <1>3 DEF ReconciliationNext, reconciliationVars

\* The invariant holds of every behaviour of the executions.
THEOREM ReconciliationInvariant == ReconciliationSpec => []ReconciliationIInv
  <1>1. ReconciliationInit => ReconciliationIInv
    BY ReconciliationInitOK
  <1>2. ReconciliationIInv /\ [ReconciliationNext]_reconciliationVars => ReconciliationIInv'
    BY ReconciliationStep
  <1> QED
    BY <1>1, <1>2, PTL DEF ReconciliationSpec

\* An input is reconciled once, however many executions ask for it.
THEOREM InputsReconciledOnce == ReconciliationSpec => []InputsAreUnique
  <1>1. ReconciliationIInv => InputsAreUnique
    BY DEF ReconciliationIInv, RevisionsOK
  <1> QED
    BY <1>1, ReconciliationInvariant, PTL

\* Every revision follows the one before it and is stale for a change of what
\* that one depends on.
THEOREM StaleIsAChange == ReconciliationSpec => []StaleNamesTheChange
  <1>1. ReconciliationIInv => StaleNamesTheChange
    BY DEF ReconciliationIInv, RevisionsOK
  <1> QED
    BY <1>1, ReconciliationInvariant, PTL

\* Every conflict that is reported is one that nothing in its Twin supersedes.
THEOREM ConflictsStand == ReconciliationSpec => []ConflictsAreUnresolved
  <1>1. ReconciliationIInv => ConflictsAreUnresolved
    BY DEF ReconciliationIInv, RevisionsOK
  <1> QED
    BY <1>1, ReconciliationInvariant, PTL
=============================================================================
