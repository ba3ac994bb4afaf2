--------------------------- MODULE EvidenceProofs ---------------------------
(***************************************************************************)
(* Proofs about ClaimHistory, EvidenceTimeline and EvidencePage.           *)
(*                                                                         *)
(* Of the claims: their histories are chains that match the links, and     *)
(* imports in two segments implement the ledger.  The heart of both is     *)
(* that a prepared import stays supported.  A claim that is inserted is    *)
(* new, so it is the successor of no stored link and lies on no history of *)
(* a stored claim: no history grows at its old end.                        *)
(*                                                                         *)
(* Of the sources: every step of the timeline is one of the history or     *)
(* leaves it alone, so that the above holds beside the uploads and the     *)
(* readers too; the sequences of the events count the sources, so that an  *)
(* event is always added after all that a reader has seen; and what the    *)
(* page has read is between what was stored when it asked and what is      *)
(* stored now.                                                             *)
(***************************************************************************)
EXTENDS EvidencePage, FiniteSetTheorems, WellFoundedInduction, TLAPS

LedgerInv == LedgerTypeOK /\ LinksAreTheClaims /\ HistoriesAreChains

PreparedIsSupported ==
    \A p \in Importers, t \in Statements : importing[p] = t => Supported(t)

HistoryInv == HistoryTypeOK /\ LedgerInv /\ PreparedIsSupported

\* A table with one more row stays well formed.
LEMMA InsertIsTable ==
    ASSUME NEW ids, NEW rows, NEW table, IsTable(table, ids, rows),
           NEW id \in ids, NEW row \in rows
    PROVE  IsTable(Insert(table, id, row), ids, rows)
<1>1. DOMAIN Insert(table, id, row) = DOMAIN table \cup {id}
    BY DEF Insert
<1>2. Insert(table, id, row) \in [DOMAIN table \cup {id} -> rows]
    BY DEF Insert, IsTable
<1> QED BY <1>1, <1>2 DEF IsTable

\* Rows of well-formed tables.
LEMMA RowsAre ==
    ASSUME LedgerTypeOK
    PROVE  /\ DOMAIN claims \subseteq ClaimIds
           /\ \A c \in DOMAIN claims : claims[c] \in Statements
           /\ DOMAIN links \subseteq LinkIds
           /\ \A l \in DOMAIN links : links[l] \in Links
BY DEF LedgerTypeOK, IsTable

\* The first step of a path, as a link.
LEMMA LinkedClaims ==
    ASSUME LedgerInv, NEW c, NEW d, Linked(c, d)
    PROVE  c \in DOMAIN claims /\ d \in DOMAIN claims /\ claims[c].supersedes = d
<1>1. PICK l \in DOMAIN links : links[l] = [predecessor |-> d, successor |-> c]
    BY DEF Linked
<1>2. links[l].predecessor = d /\ links[l].successor = c
    BY <1>1
<1>3. c \in DOMAIN claims /\ d \in DOMAIN claims
    BY <1>1, <1>2 DEF LedgerInv, LinksAreTheClaims
<1>4. d \in ClaimIds
    BY <1>3, RowsAre DEF LedgerInv
<1> QED BY <1>3, <1>4 DEF LedgerInv, LinksAreTheClaims

-----------------------------------------------------------------------------
(***************************************************************************)
(* One import, as one step.                                                *)
(***************************************************************************)
\* What an inserted claim changes: one new claim, and the link it needs.
Added(s, c) ==
    /\ c \in ClaimIds /\ c \notin DOMAIN claims
    /\ DOMAIN claims' = DOMAIN claims \cup {c}
    /\ claims'[c] = s
    /\ \A i \in DOMAIN claims : claims'[i] = claims[i]
    /\ \A e, d : Linked(e, d)' <=>
           Linked(e, d) \/ (s.supersedes # None /\ e = c /\ d = s.supersedes)

\* The inserted claim and its link are the only difference.
LEMMA InsertClaimAdds ==
    ASSUME LedgerInv, NEW s \in Statements, Supported(s), InsertClaim(s)
    PROVE  \E c \in ClaimIds :
               /\ Added(s, c)
               /\ LedgerTypeOK'
               /\ \A l \in DOMAIN links' :
                      \/ l \in DOMAIN links /\ links'[l] = links[l]
                      \/ /\ s.supersedes # None
                         /\ links'[l] = [predecessor |-> s.supersedes, successor |-> c]
               /\ \A l \in DOMAIN links : links'[l] = links[l]
               /\ \A l, k \in DOMAIN links' :
                      l \notin DOMAIN links /\ k \notin DOMAIN links => l = k
<1>1. PICK c \in ClaimIds \ DOMAIN claims :
          /\ claims' = Insert(claims, c, s)
          /\ IF s.supersedes = None
             THEN UNCHANGED links
             ELSE \E l \in LinkIds \ DOMAIN links :
                      links' = Insert(links, l,
                          [predecessor |-> s.supersedes, successor |-> c])
    BY DEF InsertClaim
<1>2. /\ IsTable(claims, ClaimIds, Statements)
      /\ IsTable(links, LinkIds, Links)
    BY DEF LedgerInv, LedgerTypeOK
<1>3. /\ IsTable(claims', ClaimIds, Statements)
      /\ DOMAIN claims' = DOMAIN claims \cup {c}
      /\ claims'[c] = s
      /\ \A i \in DOMAIN claims : claims'[i] = claims[i]
    <2>1. claims' = Insert(claims, c, s) /\ c \in ClaimIds /\ c \notin DOMAIN claims
        BY <1>1
    <2>2. IsTable(Insert(claims, c, s), ClaimIds, Statements)
        BY <1>2, <2>1, InsertIsTable, Zenon
    <2>3. /\ DOMAIN Insert(claims, c, s) = DOMAIN claims \cup {c}
          /\ Insert(claims, c, s)[c] = s
          /\ \A i \in DOMAIN claims : Insert(claims, c, s)[i] = claims[i]
        BY <2>1 DEF Insert
    <2> QED BY <2>1, <2>2, <2>3, Zenon
<1>4. UNCHANGED <<current, evidence>>
    BY DEF InsertClaim
<1>5. CASE s.supersedes = None
    <2>1. links' = links
        BY <1>1, <1>5
    <2>2. \A e, d : Linked(e, d)' <=> Linked(e, d)
        BY <2>1 DEF Linked
    <2>3. Added(s, c)
        BY <1>1, <1>3, <1>5, <2>2 DEF Added
    <2>4. LedgerTypeOK'
        BY <1>2, <1>3, <1>4, <2>1 DEF LedgerInv, LedgerTypeOK
    <2> QED BY <1>1, <2>1, <2>3, <2>4
<1>6. CASE s.supersedes # None
    <2> DEFINE link == [predecessor |-> s.supersedes, successor |-> c]
    <2>1. PICK l \in LinkIds \ DOMAIN links : links' = Insert(links, l, link)
        BY <1>1, <1>6
    <2>2. s.supersedes \in ClaimIds
        BY <1>6 DEF Statements
    <2>3. link \in Links
        BY <1>1, <2>2 DEF Links
    <2> HIDE DEF link
    <2>4. /\ IsTable(links', LinkIds, Links)
          /\ DOMAIN links' = DOMAIN links \cup {l}
          /\ links'[l] = link
          /\ \A i \in DOMAIN links : links'[i] = links[i]
        <3>1. l \in LinkIds /\ l \notin DOMAIN links
            OBVIOUS
        <3>2. IsTable(Insert(links, l, link), LinkIds, Links)
            BY <1>2, <2>3, <3>1, InsertIsTable, Zenon
        <3>3. /\ DOMAIN Insert(links, l, link) = DOMAIN links \cup {l}
              /\ Insert(links, l, link)[l] = link
              /\ \A i \in DOMAIN links : Insert(links, l, link)[i] = links[i]
            BY <3>1 DEF Insert
        <3> QED BY <2>1, <3>2, <3>3, Zenon
    <2>5. ASSUME NEW e, NEW d
          PROVE  Linked(e, d)' <=> Linked(e, d) \/ (e = c /\ d = s.supersedes)
        <3>1. Linked(e, d)' <=> Linked(e, d) \/ link = [predecessor |-> d, successor |-> e]
            BY <2>4 DEF Linked
        <3>2. link = [predecessor |-> d, successor |-> e] <=> e = c /\ d = s.supersedes
            BY DEF link
        <3> QED BY <3>1, <3>2
    <2>6. Added(s, c)
        BY <1>1, <1>3, <1>6, <2>5 DEF Added
    <2>7. LedgerTypeOK'
        BY <1>3, <1>4, <2>4 DEF LedgerInv, LedgerTypeOK
    <2> QED BY <1>1, <2>4, <2>6, <2>7 DEF link
<1> QED BY <1>5, <1>6

-----------------------------------------------------------------------------
(***************************************************************************)
(* What an import does to the histories.                                   *)
(***************************************************************************)
\* A stored claim gets no longer a history: the new claim is on none of its
\* paths, each of which starts at a stored claim and goes on to claims that a
\* stored or the new claim supersedes, which are all stored.
LEMMA OldHistories ==
    ASSUME LedgerInv, NEW s \in Statements, Supported(s), NEW c, Added(s, c),
           NEW x \in DOMAIN claims, NEW n \in Nat \ {0}, AtLeast(x, n)'
    PROVE  AtLeast(x, n)
<1>1. PICK path \in [1 .. n -> ClaimIds] :
          /\ path[1] = x
          /\ \A i \in 1 .. n - 1 : Linked(path[i], path[i + 1])'
    BY DEF AtLeast
<1>2. ASSUME NEW i \in 1 .. n - 1
      PROVE  path[i + 1] \in DOMAIN claims
    <2>1. Linked(path[i], path[i + 1])'
        BY <1>1
    <2>2. CASE Linked(path[i], path[i + 1])
        BY <2>2, LinkedClaims, Zenon
    <2>3. CASE s.supersedes # None /\ path[i + 1] = s.supersedes
        BY <2>3 DEF Supported, Extensible
    <2> QED BY <2>1, <2>2, <2>3 DEF Added
<1>3. ASSUME NEW i \in 1 .. n - 1
      PROVE  path[i] \in DOMAIN claims
    <2>1. CASE i = 1
        BY <1>1, <2>1
    <2>2. CASE i # 1
        <3>1. i - 1 \in 1 .. n - 1 /\ (i - 1) + 1 = i
            BY <2>2
        <3> QED BY <1>2, <3>1
    <2> QED BY <2>1, <2>2
<1>4. \A i \in 1 .. n - 1 : Linked(path[i], path[i + 1])
    BY <1>1, <1>3 DEF Added
<1> QED BY <1>1, <1>4 DEF AtLeast

\* The new claim's history is its predecessor's and itself.
LEMMA NewHistory ==
    ASSUME LedgerInv, NEW s \in Statements, Supported(s), NEW c, Added(s, c)
    PROVE  ~ AtLeast(c, MaxDepth + 1)'
<1> SUFFICES ASSUME AtLeast(c, MaxDepth + 1)'
             PROVE  FALSE
    OBVIOUS
<1>0. MaxDepth \in Nat \ {0}
    BY DepthAssumption
<1>1. PICK path \in [1 .. MaxDepth + 1 -> ClaimIds] :
          /\ path[1] = c
          /\ \A i \in 1 .. MaxDepth : Linked(path[i], path[i + 1])'
    BY <1>0 DEF AtLeast
<1>2. Linked(c, path[2])'
    <2>1. Linked(path[1], path[1 + 1])'
        BY <1>0, <1>1
    <2> QED BY <1>1, <2>1
<1>3. ~ Linked(c, path[2])
    BY LinkedClaims DEF Added
<1>4. s.supersedes # None /\ path[2] = s.supersedes
    BY <1>2, <1>3 DEF Added
<1>5. s.supersedes \in DOMAIN claims /\ ~ AtLeast(s.supersedes, MaxDepth)
    BY <1>4 DEF Supported, Extensible
<1> DEFINE rest == [i \in 1 .. MaxDepth |-> path[i + 1]]
<1>6. /\ rest \in [1 .. MaxDepth -> ClaimIds]
      /\ rest[1] = s.supersedes
    BY <1>0, <1>4
<1>7. \A i \in 1 .. MaxDepth - 1 : Linked(rest[i], rest[i + 1])'
    <2>1. ASSUME NEW i \in 1 .. MaxDepth - 1
          PROVE  Linked(rest[i], rest[i + 1])'
        <3>1. Linked(path[i + 1], path[(i + 1) + 1])'
            BY <1>0, <1>1
        <3>2. rest[i] = path[i + 1] /\ rest[i + 1] = path[(i + 1) + 1]
            BY <1>0
        <3> QED BY <3>1, <3>2
    <2> QED BY <2>1
<1>8. AtLeast(s.supersedes, MaxDepth)'
    <2> HIDE DEF rest
    <2> QED BY <1>6, <1>7 DEF AtLeast
<1>9. AtLeast(s.supersedes, MaxDepth)
    BY <1>0, <1>5, <1>8, OldHistories
<1> QED BY <1>5, <1>9

\* What was supported stays so when a claim is inserted.
LEMMA InsertSupports ==
    ASSUME LedgerInv, NEW s \in Statements, Supported(s), InsertClaim(s),
           NEW c, Added(s, c), NEW t \in Statements, Supported(t)
    PROVE  Supported(t)'
<1>1. t.source \in DOMAIN evidence'
    BY DEF Supported, InsertClaim
<1>2. ASSUME t.supersedes # None
      PROVE  t.supersedes \in DOMAIN claims' /\ ~ AtLeast(t.supersedes, MaxDepth)'
    <2>1. t.supersedes \in DOMAIN claims /\ ~ AtLeast(t.supersedes, MaxDepth)
        BY <1>2 DEF Supported, Extensible
    <2>2. ~ AtLeast(t.supersedes, MaxDepth)'
        BY <2>1, OldHistories, DepthAssumption
    <2> QED BY <2>1, <2>2 DEF Added
<1> QED BY <1>1, <1>2 DEF Supported, Extensible

\* A supported claim that is inserted keeps the ledger's histories chains.
LEMMA InsertKeeps ==
    ASSUME LedgerInv, NEW s \in Statements, Supported(s), InsertClaim(s)
    PROVE  LedgerInv' /\ \A t \in Statements : Supported(t) => Supported(t)'
<1>1. PICK c \in ClaimIds :
          /\ Added(s, c)
          /\ LedgerTypeOK'
          /\ \A l \in DOMAIN links' :
                 \/ l \in DOMAIN links /\ links'[l] = links[l]
                 \/ /\ s.supersedes # None
                    /\ links'[l] = [predecessor |-> s.supersedes, successor |-> c]
          /\ \A l \in DOMAIN links : links'[l] = links[l]
          /\ \A l, k \in DOMAIN links' :
                 l \notin DOMAIN links /\ k \notin DOMAIN links => l = k
    BY InsertClaimAdds
<1>2. LinksAreTheClaims'
    <2>1. ASSUME NEW e \in DOMAIN claims', NEW d \in ClaimIds
          PROVE  Linked(e, d)' <=> claims'[e].supersedes = d
        <3>1. CASE e = c
            <4>1. ~ Linked(e, d)
                BY <1>1, <3>1, LinkedClaims DEF Added
            <4>2. d # None
                BY IdAssumption DEF None
            <4> QED BY <1>1, <3>1, <4>1, <4>2 DEF Added
        <3>2. CASE e # c
            <4>1. e \in DOMAIN claims /\ claims'[e] = claims[e]
                BY <1>1, <3>2 DEF Added
            <4>2. Linked(e, d) <=> claims[e].supersedes = d
                BY <4>1 DEF LedgerInv, LinksAreTheClaims
            <4> QED BY <1>1, <3>2, <4>1, <4>2 DEF Added
        <3> QED BY <3>1, <3>2
    <2>2. ASSUME NEW l \in DOMAIN links'
          PROVE  {links'[l].predecessor, links'[l].successor} \subseteq DOMAIN claims'
        <3>1. CASE l \in DOMAIN links /\ links'[l] = links[l]
            BY <1>1, <3>1 DEF Added, LedgerInv, LinksAreTheClaims
        <3>2. CASE /\ s.supersedes # None
                   /\ links'[l] = [predecessor |-> s.supersedes, successor |-> c]
            <4>1. s.supersedes \in DOMAIN claims
                BY <3>2 DEF Supported, Extensible
            <4>2. links'[l].predecessor = s.supersedes /\ links'[l].successor = c
                BY <3>2
            <4> QED BY <1>1, <4>1, <4>2 DEF Added
        <3> QED BY <1>1, <3>1, <3>2
    <2> QED BY <2>1, <2>2 DEF LinksAreTheClaims
<1>3. HistoriesAreChains'
    <2>1. ASSUME NEW l \in DOMAIN links', NEW k \in DOMAIN links',
                 l \in DOMAIN links, k \notin DOMAIN links
          PROVE  /\ links'[l].predecessor # links'[k].predecessor
                 /\ links'[l].successor # links'[k].successor
        <3>1. /\ s.supersedes # None
              /\ links'[k] = [predecessor |-> s.supersedes, successor |-> c]
            BY <1>1, <2>1
        <3>2. links'[k].predecessor = s.supersedes /\ links'[k].successor = c
            BY <3>1
        <3>3. LinkFrom(s.supersedes) = {}
            BY <3>1 DEF InsertClaim, Insertable
        <3>4. links[l].predecessor # s.supersedes
            BY <2>1, <3>3 DEF LinkFrom
        <3>5. links[l].successor # c
            BY <1>1, <2>1 DEF Added, LedgerInv, LinksAreTheClaims
        <3>6. links'[l] = links[l]
            BY <1>1, <2>1
        <3> QED BY <3>2, <3>4, <3>5, <3>6
    <2>2. ASSUME NEW l \in DOMAIN links', NEW k \in DOMAIN links', l # k
          PROVE  /\ links'[l].predecessor # links'[k].predecessor
                 /\ links'[l].successor # links'[k].successor
        <3>1. CASE l \in DOMAIN links /\ k \in DOMAIN links
            BY <1>1, <2>2, <3>1 DEF LedgerInv, HistoriesAreChains
        <3>2. CASE l \in DOMAIN links /\ k \notin DOMAIN links
            BY <2>1, <3>2
        <3>3. CASE l \notin DOMAIN links /\ k \in DOMAIN links
            BY <2>1, <3>3
        <3> QED BY <1>1, <2>2, <3>1, <3>2, <3>3
    <2>3. ASSUME NEW d \in DOMAIN claims'
          PROVE  ~ AtLeast(d, MaxDepth + 1)'
        <3>1. CASE d \in DOMAIN claims
            <4>1. MaxDepth + 1 \in Nat \ {0}
                BY DepthAssumption
            <4>2. ~ AtLeast(d, MaxDepth + 1)
                BY <3>1 DEF LedgerInv, HistoriesAreChains
            <4> QED BY <1>1, <3>1, <4>1, <4>2, OldHistories
        <3>2. CASE d = c
            BY <1>1, <3>2, NewHistory
        <3> QED BY <1>1, <3>1, <3>2 DEF Added
    <2> QED BY <2>2, <2>3 DEF HistoriesAreChains
<1>4. \A t \in Statements : Supported(t) => Supported(t)'
    BY <1>1, InsertSupports
<1> QED BY <1>1, <1>2, <1>3, <1>4 DEF LedgerInv

-----------------------------------------------------------------------------
(***************************************************************************)
(* The steps of ClaimHistory.                                              *)
(***************************************************************************)
\* Steps that touch neither claims nor links, and lose no evidence.
LEMMA OtherStepsKeep ==
    ASSUME LedgerInv, UNCHANGED <<claims, links>>, DOMAIN evidence \subseteq DOMAIN evidence',
           IsTable(evidence', EvidenceIds, Documents), current' \in BOOLEAN
    PROVE  LedgerInv' /\ \A t \in Statements : Supported(t) => Supported(t)'
<1>1. LedgerTypeOK'
    BY DEF LedgerInv, LedgerTypeOK
<1>2. \A c, d : Linked(c, d)' <=> Linked(c, d)
    BY DEF Linked
<1>3. \A c, n : AtLeast(c, n)' <=> AtLeast(c, n)
    BY DEF AtLeast, Linked
<1>4. LinksAreTheClaims'
    BY <1>2 DEF LedgerInv, LinksAreTheClaims
<1>5. HistoriesAreChains'
    BY <1>3 DEF LedgerInv, HistoriesAreChains
<1>6. \A t \in Statements : Supported(t) => Supported(t)'
    BY <1>3 DEF Supported, Extensible
<1> QED BY <1>1, <1>4, <1>5, <1>6 DEF LedgerInv

\* A statement has more to it than Nothing.
LEMMA NothingIsNoStatement == Nothing \notin Statements
<1>1. \A t \in Statements : DOMAIN t = {"source", "value", "supersedes"}
    BY DEF Statements
<1>2. DOMAIN Nothing = {"source"}
    BY DEF Nothing
<1> QED BY <1>1, <1>2

\* The invariant holds at the start, when there is neither claim nor link.
LEMMA InvInit == HistoryInit => HistoryInv
<1> SUFFICES ASSUME HistoryInit
             PROVE  HistoryInv
    OBVIOUS
<1>1. evidence = <<>> /\ claims = <<>> /\ links = <<>> /\ current = TRUE
    BY DEF HistoryInit, LedgerInit
<1>2. ASSUME NEW ids, NEW rows
      PROVE  IsTable(<<>>, ids, rows)
    BY DEF IsTable
<1>3. LedgerTypeOK
    BY <1>1, <1>2 DEF LedgerTypeOK
<1>4. DOMAIN claims = {} /\ DOMAIN links = {}
    BY <1>1
<1>5. LinksAreTheClaims /\ HistoriesAreChains
    BY <1>4 DEF LinksAreTheClaims, HistoriesAreChains
<1>6. importing \in [Importers -> Statements \cup {Nothing}]
    BY DEF HistoryInit
<1>7. PreparedIsSupported
    BY NothingIsNoStatement DEF HistoryInit, PreparedIsSupported
<1> QED BY <1>3, <1>5, <1>6, <1>7 DEF HistoryInv, LedgerInv, HistoryTypeOK

\* A prepared import is a statement, and supported.
LEMMA PreparedImport ==
    ASSUME HistoryInv, NEW p \in Importers, importing[p] # Nothing
    PROVE  importing[p] \in Statements /\ Supported(importing[p])
BY DEF HistoryInv, HistoryTypeOK, PreparedIsSupported

\* What a step of the ledger must keep, for the importers it leaves alone.
LEMMA KeepsPrepared ==
    ASSUME HistoryInv, LedgerInv', NEW p \in Importers,
           importing' = importing \/ importing' = [importing EXCEPT ![p] = Nothing],
           \A t \in Statements : Supported(t) => Supported(t)'
    PROVE  HistoryInv'
<1>1. importing' \in [Importers -> Statements \cup {Nothing}]
    BY DEF HistoryInv, HistoryTypeOK
<1>2. ASSUME NEW q \in Importers, NEW t \in Statements, importing'[q] = t
      PROVE  Supported(t)'
    <2>1. importing[q] = t
        BY <1>2, NothingIsNoStatement DEF HistoryInv, HistoryTypeOK
    <2>2. Supported(t)
        BY <2>1 DEF HistoryInv, PreparedIsSupported
    <2> QED BY <2>2
<1> QED BY <1>1, <1>2 DEF HistoryInv, HistoryTypeOK, LedgerInv, PreparedIsSupported

\* Every step keeps the invariant.
LEMMA InvNext == HistoryInv /\ [HistoryNext]_historyVars => HistoryInv'
<1> SUFFICES ASSUME HistoryInv, [HistoryNext]_historyVars
             PROVE  HistoryInv'
    OBVIOUS
<1>0. LedgerInv /\ LedgerTypeOK
    BY DEF HistoryInv, LedgerInv
<1>1. ASSUME UNCHANGED <<claims, links>>, DOMAIN evidence \subseteq DOMAIN evidence',
             IsTable(evidence', EvidenceIds, Documents), current' \in BOOLEAN,
             UNCHANGED importing
      PROVE  HistoryInv'
    <2>1. LedgerInv' /\ \A t \in Statements : Supported(t) => Supported(t)'
        BY <1>0, <1>1, OtherStepsKeep
    <2>2. importing' \in [Importers -> Statements \cup {Nothing}]
        BY <1>1 DEF HistoryInv, HistoryTypeOK
    <2>3. PreparedIsSupported'
        BY <1>1, <2>1 DEF HistoryInv, PreparedIsSupported
    <2> QED BY <2>1, <2>2, <2>3 DEF HistoryInv, HistoryTypeOK, LedgerInv
<1>2. CASE archiveMission /\ UNCHANGED importing
    BY <1>0, <1>1, <1>2 DEF archiveMission, LedgerTypeOK
<1>3. ASSUME NEW document \in Documents, persistEvidence(document), UNCHANGED importing
      PROVE  HistoryInv'
    <2>1. PICK e \in EvidenceIds : evidence' = Insert(evidence, e, document)
        BY <1>3 DEF persistEvidence
    <2>2. IsTable(evidence, EvidenceIds, Documents) /\ current \in BOOLEAN
        BY <1>0 DEF LedgerTypeOK
    <2>3. IsTable(Insert(evidence, e, document), EvidenceIds, Documents)
        BY <2>2, InsertIsTable, Zenon
    <2>4. DOMAIN evidence \subseteq DOMAIN Insert(evidence, e, document)
        BY DEF Insert
    <2>5. UNCHANGED <<current, claims, links>>
        BY <1>3 DEF persistEvidence
    <2>6. current' \in BOOLEAN
        BY <2>2, <2>5
    <2> QED BY <1>1, <1>3, <2>1, <2>3, <2>4, <2>5, <2>6, Zenon
<1>4. ASSUME NEW p \in Importers, NEW statement \in Statements, PrepareClaim(p, statement)
      PROVE  HistoryInv'
    <2>1. /\ UNCHANGED <<current, evidence, claims, links>>
          /\ Supported(statement)
          /\ importing' = [importing EXCEPT ![p] = statement]
        BY <1>4 DEF PrepareClaim, ledgerVars
    <2>2. LedgerInv' /\ \A t \in Statements : Supported(t) => Supported(t)'
        BY <1>0, <2>1, OtherStepsKeep DEF LedgerTypeOK
    <2>3. importing' \in [Importers -> Statements \cup {Nothing}]
        BY <2>1 DEF HistoryInv, HistoryTypeOK
    <2>4. ASSUME NEW q \in Importers, NEW t \in Statements, importing'[q] = t
          PROVE  Supported(t)'
        <3>1. t = statement \/ importing[q] = t
            BY <2>1, <2>4 DEF HistoryInv, HistoryTypeOK
        <3>2. Supported(t)
            BY <2>1, <3>1 DEF HistoryInv, PreparedIsSupported
        <3> QED BY <2>2, <3>2
    <2> QED BY <2>2, <2>3, <2>4
        DEF HistoryInv, HistoryTypeOK, LedgerInv, PreparedIsSupported
<1>5. ASSUME NEW p \in Importers, StoreClaim(p)
      PROVE  HistoryInv'
    <2>1. importing[p] # Nothing /\ InsertClaim(importing[p])
        BY <1>5 DEF StoreClaim
    <2>2. importing[p] \in Statements /\ Supported(importing[p])
        BY <2>1, PreparedImport
    <2>3. LedgerInv' /\ \A t \in Statements : Supported(t) => Supported(t)'
        BY <1>0, <2>1, <2>2, InsertKeeps
    <2> QED BY <1>5, <2>3, KeepsPrepared DEF StoreClaim
<1>6. ASSUME NEW p \in Importers, KeepClaims(p)
      PROVE  HistoryInv'
    <2>1. UNCHANGED <<current, evidence, claims, links>>
        BY <1>6 DEF KeepClaims, ledgerVars
    <2>2. LedgerInv' /\ \A t \in Statements : Supported(t) => Supported(t)'
        BY <1>0, <2>1, OtherStepsKeep DEF LedgerTypeOK
    <2> QED BY <1>6, <2>2, KeepsPrepared DEF KeepClaims
<1>7. CASE UNCHANGED historyVars
    BY <1>0, <1>1, <1>7 DEF historyVars, ledgerVars, LedgerTypeOK
<1> QED BY <1>2, <1>3, <1>4, <1>5, <1>6, <1>7 DEF HistoryNext, ImportClaims, ImportSource

-----------------------------------------------------------------------------
(***************************************************************************)
(* The theorems.                                                           *)
(***************************************************************************)
\* Histories and prepared imports are well formed and supported, always: the
\* invariant from which the others follow.
THEOREM HistoryInvariant == HistorySpec => []HistoryInv
BY InvInit, InvNext, PTL DEF HistorySpec

\* The tables and the prepared claims of persistClaim are always well formed.
THEOREM HistoryTypeCorrect == HistorySpec => []HistoryTypeOK
<1>1. HistoryInv => HistoryTypeOK
    BY DEF HistoryInv
<1> QED BY <1>1, HistoryInvariant, PTL

\* However imports interleave, no claim gets a second successor and no history
\* grows past MaxDepth, although the depth is not looked at again.
THEOREM HistoriesStayChains == HistorySpec => []HistoriesAreChains
<1>1. HistoryInv => HistoriesAreChains
    BY DEF HistoryInv, LedgerInv
<1> QED BY <1>1, HistoryInvariant, PTL

\* A claim's predecessor and its link always say the same.
THEOREM LinksStayTheClaims == HistorySpec => []LinksAreTheClaims
<1>1. HistoryInv => LinksAreTheClaims
    BY DEF HistoryInv, LedgerInv
<1> QED BY <1>1, HistoryInvariant, PTL

\* Imports in two segments implement the ledger, where an import is one step:
\* the stored claim is still supported, so storing it is importing it.
THEOREM LedgerIsImplemented == HistorySpec => ImplementsLedger
<1>1. HistoryInit => LedgerInit
    BY DEF HistoryInit
<1>2. HistoryInv /\ [HistoryNext]_historyVars => [LedgerNext]_ledgerVars
    <2> SUFFICES ASSUME HistoryInv, [HistoryNext]_historyVars
                 PROVE  [LedgerNext]_ledgerVars
        OBVIOUS
    <2>1. ASSUME NEW p \in Importers, StoreClaim(p)
          PROVE  LedgerNext
        <3>1. importing[p] # Nothing /\ InsertClaim(importing[p])
            BY <2>1 DEF StoreClaim
        <3>2. importing[p] \in Statements /\ Supported(importing[p])
            BY <3>1, PreparedImport
        <3> QED BY <3>1, <3>2 DEF LedgerNext, importClaim
    <2>2. ASSUME NEW p \in Importers, NEW statement \in Statements, PrepareClaim(p, statement)
          PROVE  UNCHANGED ledgerVars
        BY <2>2 DEF PrepareClaim
    <2>3. ASSUME NEW p \in Importers, KeepClaims(p)
          PROVE  UNCHANGED ledgerVars
        BY <2>3 DEF KeepClaims
    <2>4. CASE UNCHANGED historyVars
        BY <2>4 DEF historyVars
    <2> QED BY <2>1, <2>2, <2>3, <2>4
            DEF HistoryNext, ImportClaims, ImportSource, LedgerNext
<1> QED BY <1>1, <1>2, HistoryInvariant, PTL DEF HistorySpec, ImplementsLedger, LedgerSpec

-----------------------------------------------------------------------------
(***************************************************************************)
(* The invariant of the timeline.                                          *)
(***************************************************************************)
ClaimsAreSourced == \A c \in DOMAIN claims : claims[c].source \in DOMAIN evidence

Count == Cardinality(DOMAIN evidence)

\* Every source has its time and its event, and the events are counted.
TablesOK ==
    /\ IsFiniteSet(DOMAIN evidence)
    /\ DOMAIN recordedAt = DOMAIN evidence
    /\ \A e \in DOMAIN evidence : recordedAt[e] \in Nat
    /\ DOMAIN sequences = DOMAIN evidence
    /\ SequenceNumbers = 1 .. Count
    /\ \A e, f \in DOMAIN evidence : sequences[e] = sequences[f] => e = f

ObservedOK ==
    /\ observed \subseteq DOMAIN evidence
    /\ \A o \in observed : evidence[o] \in Summaries /\ Until(o) <= recordedAt[o]

PreparedOK(p) ==
    uploading[p].stage = "PREPARED" =>
        /\ uploading[p].document \in Documents
        /\ uploading[p].at \in Times
        /\ uploading[p].kind = "RUNTIME" =>
               /\ uploading[p].document \in Summaries
               /\ UntilOf[uploading[p].document] <= uploading[p].at

StoredOK(p) ==
    uploading[p].stage = "STORED" =>
        /\ uploading[p].source \in DOMAIN evidence
        /\ evidence[uploading[p].source] = uploading[p].document
        /\ uploading[p].kind = "RUNTIME" => uploading[p].source \in observed
        /\ uploading[p].created \in BOOLEAN

AnsweredOK(p) ==
    Answers(p) =>
        /\ answered[p].source \in DOMAIN evidence
        /\ evidence[answered[p].source] = answered[p].document
        /\ answered[p].at = recordedAt[answered[p].source]
        /\ answered[p].sequence = sequences[answered[p].source]
        /\ answered[p].kind = "RUNTIME" => answered[p].source \in observed
        /\ answered[p].created \in BOOLEAN

\* Whether an upload has created a source, answered yet or not.
Creates(p, source) ==
    \/ uploading[p].stage = "STORED" /\ uploading[p].created = TRUE /\ uploading[p].source = source
    \/ Answers(p) /\ answered[p].created = TRUE /\ answered[p].source = source

UploadsOK ==
    /\ clock \in Times
    /\ DOMAIN uploading = Uploaders /\ DOMAIN answered = Uploaders
    /\ \A p \in Uploaders : PreparedOK(p) /\ StoredOK(p) /\ AnsweredOK(p)
    /\ \A p, q \in Uploaders, e \in DOMAIN evidence : Creates(p, e) /\ Creates(q, e) => p = q

\* What a view says holds of the rows, and names an observation there is.
ViewOK(source) ==
    LET view == reader.views[source] IN
    /\ view.freshness = "LATEST_OBSERVED_WINDOW" =>
           \A o \in reader.rows : SameSeries(o, source) => ~ (Until(o) > Until(source))
    /\ view.freshness # "LATEST_OBSERVED_WINDOW" =>
           /\ view.newer \in observed
           /\ SameSeries(view.newer, source)
           /\ Until(view.newer) > Until(source)
           /\ \A o \in reader.rows : SameSeries(o, source) /\ Until(o) > Until(source) =>
                  Until(o) <= Until(view.newer)

ReaderOK ==
    /\ reader.reads \in {"TIMELINE", "TIMELINE_READ"} =>
           /\ reader.cursor \in 0 .. Count
           /\ reader.events = {e \in DOMAIN sequences : sequences[e] <= reader.cursor}
           /\ reader.began \subseteq DOMAIN evidence
    /\ reader.reads = "TIMELINE_READ" => reader.began \subseteq reader.events
    /\ reader.reads = "OBSERVATIONS" =>
           /\ reader.rows \subseteq observed
           /\ DOMAIN reader.views \subseteq reader.rows
           /\ \A source \in DOMAIN reader.views : ViewOK(source)

EvidenceInv ==
    HistoryInv /\ ClaimsAreSourced /\ TablesOK /\ ObservedOK /\ UploadsOK /\ ReaderOK

-----------------------------------------------------------------------------
(***************************************************************************)
(* The steps of the timeline.                                              *)
(***************************************************************************)
\* What a step of the timeline may be, so far as uploads and readers see it.
LEMMA StepKinds ==
    ASSUME [EvidenceNext]_evidenceVars
    PROVE  \/ \E p \in Uploaders, source \in EvidenceIds :
                  InsertSource(p, source) \/ ReuseSource(p, source)
           \/ \E p \in Uploaders :
                  \/ \E kind \in Kinds, document \in Documents : PrepareUpload(p, kind, document)
                  \/ RefuseUpload(p)
                  \/ AnswerUpload(p)
           \/ Read
           \/ /\ UNCHANGED <<evidence, recordedAt, sequences, observed, uploading, answered, reader>>
              /\ clock' \in Times \cup {clock}
<1>1. CASE \E now \in Times : SetClock(now)
    BY <1>1 DEF SetClock, historyVars, ledgerVars, tables
<1>2. CASE \E p \in Uploaders : Upload(p)
    BY <1>2 DEF Upload
<1>3. CASE ImportClaims /\ UNCHANGED timelineVars
    <2>1. UNCHANGED evidence
        BY <1>3 DEF ImportClaims, archiveMission, PrepareClaim, StoreClaim, InsertClaim,
                    KeepClaims, ledgerVars
    <2> QED BY <1>3, <2>1 DEF timelineVars, tables
<1>4. CASE UNCHANGED evidenceVars
    BY <1>4 DEF evidenceVars, historyVars, ledgerVars, timelineVars, tables
<1> QED BY <1>1, <1>2, <1>3, <1>4 DEF EvidenceNext

\* The next sequence is one more than there are sources.
LEMMA NextCounts ==
    ASSUME TablesOK
    PROVE  Count \in Nat /\ nextSequence = Count + 1
<1>1. Count \in Nat
    BY FS_CardinalityType DEF TablesOK, Count
<1>2. {0} \cup SequenceNumbers = 0 .. Count
    BY <1>1 DEF TablesOK
<1>3. Max(0 .. Count) = Count
    BY <1>1 DEF Max
<1>4. Max({0} \cup SequenceNumbers) = Count
    BY <1>2, <1>3, Zenon
<1> QED BY <1>1, <1>4 DEF nextSequence

\* What a stored source changes.
Inserted(source) ==
    /\ source \notin DOMAIN evidence
    /\ DOMAIN evidence' = DOMAIN evidence \cup {source}
    /\ DOMAIN recordedAt' = DOMAIN evidence'
    /\ DOMAIN sequences' = DOMAIN evidence'
    /\ \A e \in DOMAIN evidence :
           /\ evidence'[e] = evidence[e]
           /\ recordedAt'[e] = recordedAt[e]
           /\ sequences'[e] = sequences[e]
    /\ sequences'[source] = Count + 1
    /\ Count' = Count + 1

LEMMA InsertSourceInserts ==
    ASSUME TablesOK, NEW p, NEW source, InsertSource(p, source)
    PROVE  /\ Inserted(source)
           /\ evidence'[source] = uploading[p].document
           /\ recordedAt'[source] = uploading[p].at
<1> DEFINE document == uploading[p].document
<1>1. PICK e \in EvidenceIds \ DOMAIN evidence : evidence' = Insert(evidence, e, document)
    BY DEF InsertSource, ImportSource, persistEvidence
<1>2. /\ DOMAIN evidence' = DOMAIN evidence \cup {source}
      /\ recordedAt' = Insert(recordedAt, source, uploading[p].at)
      /\ sequences' = Insert(sequences, source, nextSequence)
    BY DEF InsertSource
<1>3. DOMAIN Insert(evidence, e, document) = DOMAIN evidence \cup {e}
    BY DEF Insert
<1>4. e = source /\ source \notin DOMAIN evidence
    <2>1. e \in DOMAIN evidence \cup {source}
        BY <1>1, <1>2, <1>3
    <2> QED BY <2>1
<1>5. /\ evidence'[source] = document
      /\ \A f \in DOMAIN evidence : evidence'[f] = evidence[f]
    BY <1>1, <1>4 DEF Insert
<1>6. /\ DOMAIN recordedAt' = DOMAIN evidence'
      /\ recordedAt'[source] = uploading[p].at
      /\ \A f \in DOMAIN evidence : recordedAt'[f] = recordedAt[f]
    BY <1>2, <1>4 DEF Insert, TablesOK
<1>7. /\ DOMAIN sequences' = DOMAIN evidence'
      /\ sequences'[source] = nextSequence
      /\ \A f \in DOMAIN evidence : sequences'[f] = sequences[f]
    BY <1>2, <1>4 DEF Insert, TablesOK
<1>8. Count' = Count + 1
    BY <1>2, <1>4, FS_AddElement DEF Count, TablesOK
<1> QED BY <1>2, <1>4, <1>5, <1>6, <1>7, <1>8, NextCounts DEF Inserted

\* Nothing that is stored changes or goes.
Grows ==
    /\ DOMAIN evidence \subseteq DOMAIN evidence'
    /\ observed \subseteq observed'
    /\ \A e \in DOMAIN evidence :
           /\ evidence'[e] = evidence[e]
           /\ recordedAt'[e] = recordedAt[e]
           /\ sequences'[e] = sequences[e]
    /\ Count \in Nat /\ Count' \in Nat /\ Count <= Count'
    /\ \A e \in DOMAIN evidence' \ DOMAIN evidence : sequences'[e] = Count + 1

\* The tables of an insertion.
LEMMA InsertKeepsTables ==
    ASSUME TablesOK, NEW source, Inserted(source), recordedAt'[source] \in Nat
    PROVE  TablesOK'
<1>1. IsFiniteSet(DOMAIN evidence')
    BY FS_AddElement DEF TablesOK, Inserted
<1>2. Count \in Nat
    BY NextCounts
<1>3. \A e \in DOMAIN evidence' : recordedAt'[e] \in Nat
    BY DEF TablesOK, Inserted
<1>4. \A e \in DOMAIN evidence : sequences[e] \in 1 .. Count
    BY DEF TablesOK, SequenceNumbers
<1>5. SequenceNumbers' = SequenceNumbers \cup {Count + 1}
    BY DEF SequenceNumbers, Inserted, TablesOK
<1>6. SequenceNumbers' = 1 .. Count'
    BY <1>2, <1>5 DEF TablesOK, Inserted
<1>7. ASSUME NEW e \in DOMAIN evidence', NEW f \in DOMAIN evidence', sequences'[e] = sequences'[f]
      PROVE  e = f
    <2>1. CASE e \in DOMAIN evidence /\ f \in DOMAIN evidence
        BY <1>7, <2>1 DEF TablesOK, Inserted
    <2>2. CASE e = source /\ f \in DOMAIN evidence
        BY <1>2, <1>4, <1>7, <2>2 DEF Inserted
    <2>3. CASE f = source /\ e \in DOMAIN evidence
        BY <1>2, <1>4, <1>7, <2>3 DEF Inserted
    <2> QED BY <2>1, <2>2, <2>3 DEF Inserted
<1> QED BY <1>1, <1>3, <1>6, <1>7 DEF TablesOK, Inserted

\* Every step keeps the tables, and only adds to them.
LEMMA TablesKept ==
    ASSUME EvidenceInv, [EvidenceNext]_evidenceVars
    PROVE  TablesOK' /\ Grows
<1>0. TablesOK /\ Count \in Nat
    BY NextCounts DEF EvidenceInv
<1>1. ASSUME UNCHANGED <<evidence, recordedAt, sequences>>, observed \subseteq observed'
      PROVE  TablesOK' /\ Grows
    BY <1>0, <1>1 DEF TablesOK, Grows, SequenceNumbers, Count
<1>2. ASSUME NEW p \in Uploaders, NEW source \in EvidenceIds, InsertSource(p, source)
      PROVE  TablesOK' /\ Grows
    <2>1. Inserted(source) /\ recordedAt'[source] = uploading[p].at
        BY <1>0, <1>2, InsertSourceInserts
    <2>2. uploading[p].at \in Nat
        BY <1>2, TimelineAssumption DEF EvidenceInv, UploadsOK, PreparedOK, InsertSource
    <2>3. observed \subseteq observed'
        BY <1>2 DEF InsertSource
    <2> QED BY <1>0, <2>1, <2>2, <2>3, InsertKeepsTables DEF Inserted, Grows
<1>3. ASSUME NEW p \in Uploaders, NEW source \in EvidenceIds, ReuseSource(p, source)
      PROVE  TablesOK' /\ Grows
    BY <1>1, <1>3 DEF ReuseSource, historyVars, ledgerVars
<1>4. CASE Read
    BY <1>1, <1>4 DEF Read, BeginTimeline, listTimelineEvents, BeginObservations, ViewRow,
                      EndRead, historyVars, ledgerVars, tables
<1>5. ASSUME NEW p \in Uploaders,
             \/ \E kind \in Kinds, document \in Documents : PrepareUpload(p, kind, document)
             \/ RefuseUpload(p)
             \/ AnswerUpload(p)
      PROVE  TablesOK' /\ Grows
    BY <1>1, <1>5 DEF PrepareUpload, RefuseUpload, AnswerUpload, historyVars, ledgerVars, tables
<1> QED BY <1>1, <1>2, <1>3, <1>4, <1>5, StepKinds

\* Sources that are observed keep their documents and times.
LEMMA ObservedKept ==
    ASSUME EvidenceInv, [EvidenceNext]_evidenceVars
    PROVE  ObservedOK'
<1>0. TablesOK /\ ObservedOK /\ Grows
    BY TablesKept DEF EvidenceInv
<1>1. \A o \in observed : evidence'[o] \in Summaries /\ Until(o)' <= recordedAt'[o]
    BY <1>0 DEF ObservedOK, Grows, Until
<1>2. ASSUME observed' \subseteq observed
      PROVE  ObservedOK'
    BY <1>0, <1>1, <1>2 DEF ObservedOK, Grows
<1>3. ASSUME NEW p \in Uploaders, NEW source \in EvidenceIds, InsertSource(p, source)
      PROVE  ObservedOK'
    <2>1. /\ Inserted(source)
          /\ evidence'[source] = uploading[p].document
          /\ recordedAt'[source] = uploading[p].at
        BY <1>0, <1>3, InsertSourceInserts
    <2>2. CASE uploading[p].kind = "RUNTIME"
        <3>1. observed' = observed \cup {source}
            BY <1>3, <2>2 DEF InsertSource
        <3>2. /\ uploading[p].document \in Summaries
              /\ UntilOf[uploading[p].document] <= uploading[p].at
            BY <1>3, <2>2 DEF EvidenceInv, UploadsOK, PreparedOK, InsertSource
        <3>3. evidence'[source] \in Summaries /\ Until(source)' <= recordedAt'[source]
            BY <2>1, <3>2 DEF Until
        <3> QED BY <1>0, <1>1, <2>1, <3>1, <3>3 DEF ObservedOK, Inserted
    <2>3. CASE uploading[p].kind # "RUNTIME"
        BY <1>2, <1>3, <2>3 DEF InsertSource
    <2> QED BY <2>2, <2>3
<1>4. ASSUME NEW p \in Uploaders, NEW source \in EvidenceIds, ReuseSource(p, source)
      PROVE  ObservedOK'
    <2>1. UNCHANGED <<evidence, recordedAt>>
        BY <1>4 DEF ReuseSource, historyVars, ledgerVars
    <2>2. CASE uploading[p].kind = "RUNTIME"
        <3>1. /\ observed' = observed \cup {source}
              /\ source \in DOMAIN evidence /\ evidence[source] = uploading[p].document
              /\ Attachable(source)
            BY <1>4, <2>2 DEF ReuseSource, Existing
        <3>2. uploading[p].document \in Summaries
            BY <1>4, <2>2 DEF EvidenceInv, UploadsOK, PreparedOK, ReuseSource
        <3>3. Until(source) <= recordedAt[source]
            BY <1>0, <3>1 DEF Attachable, Until, ObservedOK
        <3> QED BY <1>0, <2>1, <3>1, <3>2, <3>3 DEF ObservedOK, Until
    <2>3. CASE uploading[p].kind # "RUNTIME"
        BY <1>2, <1>4, <2>3 DEF ReuseSource
    <2> QED BY <2>2, <2>3
<1>5. CASE Read
    BY <1>2, <1>5 DEF Read, BeginTimeline, listTimelineEvents, BeginObservations, ViewRow,
                      EndRead, tables
<1>6. ASSUME NEW p \in Uploaders,
             \/ \E kind \in Kinds, document \in Documents : PrepareUpload(p, kind, document)
             \/ RefuseUpload(p)
             \/ AnswerUpload(p)
      PROVE  ObservedOK'
    BY <1>2, <1>6 DEF PrepareUpload, RefuseUpload, AnswerUpload, tables
<1> QED BY <1>2, <1>3, <1>4, <1>5, <1>6, StepKinds

\* What an upload holds stays true while others store.
LEMMA OthersKeepUploads ==
    ASSUME Grows, TablesOK, NEW p, UNCHANGED <<uploading[p], answered[p]>>
    PROVE  /\ PreparedOK(p) => PreparedOK(p)'
           /\ StoredOK(p) => StoredOK(p)'
           /\ AnsweredOK(p) => AnsweredOK(p)'
           /\ \A e : Creates(p, e)' <=> Creates(p, e)
BY DEF Grows, TablesOK, PreparedOK, StoredOK, AnsweredOK, Creates, Answers

\* Each created source has its creator among the sources.
LEMMA CreatedIsStored ==
    ASSUME UploadsOK, NEW p \in Uploaders, NEW e, Creates(p, e)
    PROVE  e \in DOMAIN evidence
BY DEF UploadsOK, StoredOK, AnsweredOK, Creates

\* Every step keeps what uploads hold.
LEMMA UploadsKept ==
    ASSUME EvidenceInv, [EvidenceNext]_evidenceVars
    PROVE  UploadsOK'
<1>0. TablesOK /\ UploadsOK /\ Grows
    BY TablesKept DEF EvidenceInv
<1>1. ASSUME NEW p \in Uploaders, clock' = clock,
             DOMAIN uploading' = Uploaders, DOMAIN answered' = Uploaders,
             \A q \in Uploaders \ {p} : UNCHANGED <<uploading[q], answered[q]>>,
             PreparedOK(p)', StoredOK(p)', AnsweredOK(p)',
             \A e \in DOMAIN evidence' : Creates(p, e)' => Creates(p, e) \/ e \notin DOMAIN evidence
      PROVE  UploadsOK'
    <2>1. ASSUME NEW q \in Uploaders
          PROVE  PreparedOK(q)' /\ StoredOK(q)' /\ AnsweredOK(q)'
        <3>1. CASE q = p
            BY <1>1, <3>1
        <3>2. CASE q # p
            <4>1. UNCHANGED <<uploading[q], answered[q]>>
                BY <1>1, <3>2
            <4> QED BY <1>0, <4>1, OthersKeepUploads DEF UploadsOK
        <3> QED BY <3>1, <3>2
    <2>2. ASSUME NEW q \in Uploaders \ {p}, NEW e
          PROVE  Creates(q, e)' => Creates(q, e) /\ e \in DOMAIN evidence
        <3>1. UNCHANGED <<uploading[q], answered[q]>>
            BY <1>1, <2>2
        <3>2. Creates(q, e)' <=> Creates(q, e)
            BY <1>0, <3>1, OthersKeepUploads
        <3> QED BY <1>0, <3>2, CreatedIsStored
    <2>3. ASSUME NEW q \in Uploaders, NEW r \in Uploaders, NEW e \in DOMAIN evidence',
                 Creates(q, e)', Creates(r, e)'
          PROVE  q = r
        <3>1. CASE q # p /\ r # p
            BY <1>0, <2>2, <2>3, <3>1 DEF UploadsOK
        <3>2. CASE q # p /\ r = p
            BY <1>0, <1>1, <2>2, <2>3, <3>2 DEF UploadsOK
        <3>3. CASE q = p /\ r # p
            BY <1>0, <1>1, <2>2, <2>3, <3>3 DEF UploadsOK
        <3> QED BY <3>1, <3>2, <3>3
    <2> QED BY <1>0, <1>1, <2>1, <2>3 DEF UploadsOK
<1>2. ASSUME NEW p \in Uploaders, clock' = clock,
             \/ \E kind \in Kinds, document \in Documents : PrepareUpload(p, kind, document)
             \/ RefuseUpload(p)
      PROVE  UploadsOK'
    <2>1. CASE \E kind \in Kinds, document \in Documents : PrepareUpload(p, kind, document)
        <3>1. PICK kind \in Kinds, document \in Documents : PrepareUpload(p, kind, document)
            BY <2>1
        <3>2. /\ answered' = answered
              /\ uploading' = [uploading EXCEPT ![p] =
                     [stage |-> "PREPARED", kind |-> kind, document |-> document, at |-> clock]]
              /\ kind = "RUNTIME" => document \in Summaries /\ UntilOf[document] <= clock
            BY <3>1 DEF PrepareUpload, Observable
        <3>3. /\ uploading'[p] =
                     [stage |-> "PREPARED", kind |-> kind, document |-> document, at |-> clock]
              /\ DOMAIN uploading' = Uploaders /\ DOMAIN answered' = Uploaders
              /\ \A q \in Uploaders \ {p} : UNCHANGED <<uploading[q], answered[q]>>
            BY <1>0, <3>2 DEF UploadsOK
        <3>4. PreparedOK(p)'
            BY <1>0, <3>2, <3>3 DEF PreparedOK, UploadsOK
        <3>5. StoredOK(p)'
            BY <3>3 DEF StoredOK
        <3>6. AnsweredOK(p)'
            BY <1>0, <3>2 DEF AnsweredOK, Answers, Grows, TablesOK, UploadsOK
        <3>7. \A e : Creates(p, e)' => Creates(p, e)
            BY <3>2, <3>3 DEF Creates, Answers
        <3> QED BY <1>1, <1>2, <3>3, <3>4, <3>5, <3>6, <3>7
    <2>2. CASE RefuseUpload(p)
        <3>1. answered' = answered /\ uploading' = [uploading EXCEPT ![p] = NoUpload]
            BY <2>2 DEF RefuseUpload
        <3>2. /\ uploading'[p].stage = "NONE"
              /\ DOMAIN uploading' = Uploaders /\ DOMAIN answered' = Uploaders
              /\ \A q \in Uploaders \ {p} : UNCHANGED <<uploading[q], answered[q]>>
            BY <1>0, <3>1 DEF UploadsOK, NoUpload
        <3>3. PreparedOK(p)' /\ StoredOK(p)'
            BY <3>2 DEF PreparedOK, StoredOK
        <3>4. AnsweredOK(p)'
            BY <1>0, <3>1 DEF AnsweredOK, Answers, Grows, TablesOK, UploadsOK
        <3>5. \A e : Creates(p, e)' => Creates(p, e)
            BY <3>1, <3>2 DEF Creates, Answers
        <3> QED BY <1>1, <1>2, <3>2, <3>3, <3>4, <3>5
    <2> QED BY <1>2, <2>1, <2>2
<1>3. ASSUME NEW p \in Uploaders, AnswerUpload(p)
      PROVE  UploadsOK'
    <2>1. /\ clock' = clock
          /\ uploading[p].stage = "STORED"
          /\ uploading' = [uploading EXCEPT ![p] = NoUpload]
          /\ answered' = [answered EXCEPT ![p] =
                 [stage |-> "ANSWERED", kind |-> uploading[p].kind,
                  document |-> uploading[p].document, created |-> uploading[p].created,
                  source |-> uploading[p].source, at |-> recordedAt[uploading[p].source],
                  sequence |-> sequences[uploading[p].source]]]
          /\ UNCHANGED <<evidence, recordedAt, sequences, observed>>
        BY <1>3 DEF AnswerUpload, historyVars, ledgerVars, tables
    <2>2. /\ uploading'[p].stage = "NONE"
          /\ answered'[p].kind = uploading[p].kind
          /\ answered'[p].document = uploading[p].document
          /\ answered'[p].created = uploading[p].created
          /\ answered'[p].source = uploading[p].source
          /\ answered'[p].at = recordedAt[uploading[p].source]
          /\ answered'[p].sequence = sequences[uploading[p].source]
        BY <1>0, <2>1 DEF UploadsOK, NoUpload
    <2>3. /\ DOMAIN uploading' = Uploaders /\ DOMAIN answered' = Uploaders
          /\ \A q \in Uploaders \ {p} : UNCHANGED <<uploading[q], answered[q]>>
        BY <1>0, <2>1 DEF UploadsOK
    <2>4. PreparedOK(p)' /\ StoredOK(p)'
        BY <2>2 DEF PreparedOK, StoredOK
    <2>5. AnsweredOK(p)'
        BY <1>0, <2>1, <2>2 DEF AnsweredOK, StoredOK, UploadsOK
    <2>6. \A e : Creates(p, e)' => Creates(p, e)
        BY <2>1, <2>2 DEF Creates
    <2> QED BY <1>1, <2>1, <2>3, <2>4, <2>5, <2>6
<1>4. ASSUME NEW p \in Uploaders, NEW source, NEW created \in BOOLEAN,
             Stored(p, created, source), UNCHANGED <<clock, answered>>,
             source \in DOMAIN evidence', evidence'[source] = uploading[p].document,
             uploading[p].kind = "RUNTIME" => source \in observed',
             created = TRUE => source \notin DOMAIN evidence
      PROVE  UploadsOK'
    <2>1. /\ uploading'[p] = [stage |-> "STORED", kind |-> uploading[p].kind,
                              document |-> uploading[p].document, created |-> created,
                              source |-> source]
          /\ DOMAIN uploading' = Uploaders /\ DOMAIN answered' = Uploaders
          /\ \A q \in Uploaders \ {p} : UNCHANGED <<uploading[q], answered[q]>>
        BY <1>0, <1>4 DEF Stored, UploadsOK
    <2>2. /\ uploading'[p].stage = "STORED"
          /\ uploading'[p].kind = uploading[p].kind
          /\ uploading'[p].document = uploading[p].document
          /\ uploading'[p].source = source
          /\ uploading'[p].created = created
        BY <2>1
    <2>3. PreparedOK(p)' /\ StoredOK(p)'
        BY <1>4, <2>2 DEF PreparedOK, StoredOK
    <2>4. AnsweredOK(p)'
        BY <1>0, <1>4 DEF AnsweredOK, Answers, Grows, TablesOK, UploadsOK
    <2>5. ASSUME NEW e \in DOMAIN evidence', Creates(p, e)'
          PROVE  Creates(p, e) \/ e \notin DOMAIN evidence
        BY <1>4, <2>2, <2>5 DEF Creates, Answers
    <2> QED BY <1>1, <1>4, <2>1, <2>3, <2>4, <2>5
<1>5. ASSUME NEW p \in Uploaders, NEW source \in EvidenceIds, InsertSource(p, source)
      PROVE  UploadsOK'
    <2>1. Inserted(source) /\ evidence'[source] = uploading[p].document
        BY <1>0, <1>5, InsertSourceInserts
    <2> QED BY <1>4, <1>5, <2>1 DEF InsertSource, Inserted
<1>6. ASSUME NEW p \in Uploaders, NEW source \in EvidenceIds, ReuseSource(p, source)
      PROVE  UploadsOK'
    <2>1. source \in DOMAIN evidence /\ evidence[source] = uploading[p].document /\ evidence' = evidence
        BY <1>6 DEF ReuseSource, Existing, historyVars, ledgerVars
    <2> QED BY <1>4, <1>6, <2>1 DEF ReuseSource
<1>7. ASSUME UNCHANGED <<uploading, answered>>, clock' \in Times
      PROVE  UploadsOK'
    <2>1. \A p \in Uploaders : UNCHANGED <<uploading[p], answered[p]>>
        BY <1>7
    <2>2. \A p \in Uploaders : PreparedOK(p)' /\ StoredOK(p)' /\ AnsweredOK(p)'
        BY <1>0, <2>1, OthersKeepUploads DEF UploadsOK
    <2>3. \A p \in Uploaders : \A e : Creates(p, e)' <=> Creates(p, e)
        BY <1>0, <2>1, OthersKeepUploads
    <2>4. \A p \in Uploaders : \A e : Creates(p, e) => e \in DOMAIN evidence
        BY <1>0, CreatedIsStored
    <2> QED BY <1>0, <1>7, <2>2, <2>3, <2>4 DEF UploadsOK
<1>8. CASE Read
    BY <1>0, <1>7, <1>8 DEF Read, BeginTimeline, listTimelineEvents, BeginObservations, ViewRow,
                            EndRead, UploadsOK
<1>9. ASSUME NEW p \in Uploaders,
             \/ \E kind \in Kinds, document \in Documents : PrepareUpload(p, kind, document)
             \/ RefuseUpload(p)
      PROVE  UploadsOK'
    <2>1. clock' = clock
        BY <1>9 DEF PrepareUpload, RefuseUpload
    <2> QED BY <1>2, <1>9, <2>1
<1>10. clock \in Times
    BY <1>0 DEF UploadsOK
<1> QED BY <1>3, <1>5, <1>6, <1>7, <1>8, <1>9, <1>10, StepKinds

\* A page of the timeline takes no event before one it leaves.
LEMMA PagesAreWhole ==
    ASSUME TablesOK, NEW cursor \in Nat, NEW e \in After(cursor), NEW f \in TimelinePage(cursor),
           sequences[e] <= sequences[f]
    PROVE  e \in TimelinePage(cursor)
<1> DEFINE Before(g) == {h \in After(cursor) : sequences[h] < sequences[g]}
<1>1. \A g \in DOMAIN sequences : sequences[g] \in Nat
    BY NextCounts DEF TablesOK, SequenceNumbers
<1>2. e \in DOMAIN sequences /\ f \in DOMAIN sequences
    BY DEF After, TimelinePage
<1>3. Before(e) \subseteq Before(f)
    BY <1>1, <1>2 DEF After
<1>4. IsFiniteSet(Before(f))
    <2>1. Before(f) \subseteq DOMAIN evidence
        BY DEF TablesOK, After
    <2> QED BY <2>1, FS_Subset DEF TablesOK
<1>5. Cardinality(Before(e)) <= Cardinality(Before(f)) /\ IsFiniteSet(Before(e))
    BY <1>3, <1>4, FS_Subset
<1>6. Cardinality(Before(e)) \in Nat /\ Cardinality(Before(f)) \in Nat
    BY <1>4, <1>5, FS_CardinalityType
<1>7. Cardinality(Before(f)) < PageLimit
    BY DEF TimelinePage
<1>8. Cardinality(Before(e)) < PageLimit
    BY <1>5, <1>6, <1>7, TimelineAssumption
<1> QED BY <1>8 DEF TimelinePage

\* A set of numbers up to a bound has a greatest.
LEMMA GreatestOf ==
    ASSUME NEW n \in Nat, NEW S \in SUBSET (0 .. n), S # {}
    PROVE  Max(S) \in S /\ \A x \in S : Max(S) >= x
<1> DEFINE T == {n - x : x \in S}
<1>1. T \in SUBSET Nat /\ T # {}
    <2>1. \A x \in S : n - x \in Nat
        OBVIOUS
    <2>2. PICK x \in S : TRUE
        OBVIOUS
    <2>3. n - x \in T
        OBVIOUS
    <2> QED BY <2>1, <2>3
<1>2. PICK t \in T : \A u \in T : <<u, t>> \notin OpToRel(<, Nat)
    BY <1>1, NatLessThanWellFounded, WFMin, Zenon
<1>3. \A u \in T : ~ (u < t)
    BY <1>1, <1>2 DEF OpToRel
<1>4. PICK x \in S : t = n - x
    BY <1>2
<1>5. \A y \in S : x >= y
    <2> SUFFICES ASSUME NEW y \in S
                 PROVE  x >= y
        OBVIOUS
    <2>1. ~ (n - y < n - x)
        BY <1>3, <1>4
    <2> QED BY <2>1
<1> QED BY <1>5 DEF Max

\* A page that follows the cursor leaves no gap behind its last event.
LEMMA CursorsFollow ==
    ASSUME TablesOK, NEW cursor \in 0 .. Count
    PROVE  LET page0 == TimelinePage(cursor)
               last  == Max({cursor} \cup {sequences[e] : e \in page0})
           IN  /\ last \in 0 .. Count
               /\ {e \in DOMAIN sequences : sequences[e] <= last}
                      = {e \in DOMAIN sequences : sequences[e] <= cursor} \cup page0
<1> DEFINE page0 == TimelinePage(cursor)
<1> DEFINE reached == {cursor} \cup {sequences[e] : e \in page0}
<1> DEFINE last == Max(reached)
<1>1. Count \in Nat /\ \A e \in DOMAIN sequences : sequences[e] \in 1 .. Count
    BY NextCounts DEF TablesOK, SequenceNumbers
<1>2. page0 \subseteq After(cursor) /\ After(cursor) \subseteq DOMAIN sequences
    BY DEF TimelinePage, After
<1>3. reached \in SUBSET (0 .. Count) /\ reached # {}
    BY <1>1, <1>2
<1> HIDE DEF reached
<1>4. last \in reached /\ \A x \in reached : last >= x
    BY <1>1, <1>3, GreatestOf
<1> HIDE DEF last
<1>5. last \in 0 .. Count
    BY <1>3, <1>4
<1>6. ASSUME NEW e \in DOMAIN sequences, sequences[e] <= last, ~ (sequences[e] <= cursor)
      PROVE  e \in page0
    <2>1. e \in After(cursor) /\ last # cursor
        BY <1>1, <1>5, <1>6 DEF After
    <2>2. PICK f \in page0 : last = sequences[f]
        BY <1>4, <2>1 DEF reached
    <2> QED BY <1>1, <1>6, <2>1, <2>2, PagesAreWhole
<1>7. ASSUME NEW e \in page0
      PROVE  e \in DOMAIN sequences /\ sequences[e] <= last
    BY <1>1, <1>2, <1>4, <1>5 DEF reached
<1>8. cursor <= last
    BY <1>1, <1>3, <1>4 DEF reached
<1>9. \A e \in DOMAIN sequences : sequences[e] <= cursor => sequences[e] <= last
    BY <1>1, <1>5, <1>8
<1>10. {e \in DOMAIN sequences : sequences[e] <= last}
           = {e \in DOMAIN sequences : sequences[e] <= cursor} \cup page0
    BY <1>6, <1>7, <1>9
<1> QED BY <1>5, <1>10 DEF last, reached

\* What a reader has read stays true while others store.
LEMMA OthersKeepReader ==
    ASSUME ReaderOK, TablesOK, TablesOK', ObservedOK, Grows, UNCHANGED reader
    PROVE  ReaderOK'
<1>1. ASSUME reader.reads \in {"TIMELINE", "TIMELINE_READ"}
      PROVE  /\ reader.cursor \in 0 .. Count'
             /\ reader.events = {e \in DOMAIN sequences' : sequences'[e] <= reader.cursor}
             /\ reader.began \subseteq DOMAIN evidence'
    <2>1. /\ reader.cursor \in 0 .. Count
          /\ reader.events = {e \in DOMAIN sequences : sequences[e] <= reader.cursor}
          /\ reader.began \subseteq DOMAIN evidence
        BY <1>1 DEF ReaderOK
    <2>2. \A e \in DOMAIN sequences' : e \in DOMAIN sequences \/ sequences'[e] = Count + 1
        BY DEF Grows, TablesOK
    <2>3. \A e \in DOMAIN sequences : e \in DOMAIN sequences' /\ sequences'[e] = sequences[e]
        BY DEF Grows, TablesOK
    <2>4. \A e \in DOMAIN sequences' : sequences'[e] <= reader.cursor <=>
              e \in DOMAIN sequences /\ sequences[e] <= reader.cursor
        BY <2>1, <2>2, <2>3 DEF Grows
    <2>5. reader.events = {e \in DOMAIN sequences' : sequences'[e] <= reader.cursor}
        BY <2>1, <2>3, <2>4
    <2> QED BY <2>1, <2>5 DEF Grows
<1>2. ASSUME reader.reads = "OBSERVATIONS", NEW source \in DOMAIN reader.views
      PROVE  ViewOK(source)'
    <2>1. /\ reader.rows \subseteq observed
          /\ source \in observed
          /\ ViewOK(source)
        BY <1>2 DEF ReaderOK
    <2>2. \A o \in observed : evidence'[o] = evidence[o] /\ o \in observed'
        BY DEF ObservedOK, Grows
    <2>3. \A o \in observed : Until(o)' = Until(o) /\ (SameSeries(o, source)' <=> SameSeries(o, source))
        BY <2>1, <2>2 DEF Until, SameSeries
    <2> QED BY <2>1, <2>2, <2>3 DEF ViewOK
<1>3. reader.reads = "OBSERVATIONS" =>
          reader.rows \subseteq observed' /\ DOMAIN reader.views \subseteq reader.rows
    BY DEF ReaderOK, Grows
<1>4. reader.reads = "TIMELINE_READ" => reader.began \subseteq reader.events
    BY DEF ReaderOK
<1> QED BY <1>1, <1>2, <1>3, <1>4 DEF ReaderOK

\* Every step keeps what a reader has read.
LEMMA ReaderKept ==
    ASSUME EvidenceInv, [EvidenceNext]_evidenceVars
    PROVE  ReaderOK'
<1>0. TablesOK /\ TablesOK' /\ ObservedOK /\ ReaderOK /\ Grows /\ Count \in Nat
    BY TablesKept, NextCounts DEF EvidenceInv
<1>1. ASSUME UNCHANGED reader
      PROVE  ReaderOK'
    BY <1>0, <1>1, OthersKeepReader
<1>2. CASE BeginTimeline
    <2>1. /\ reader' = [reads |-> "TIMELINE", cursor |-> 0, events |-> {}, began |-> DOMAIN evidence]
          /\ UNCHANGED <<evidence, sequences>>
        BY <1>2 DEF BeginTimeline, historyVars, ledgerVars, tables
    <2>2. \A e \in DOMAIN sequences : ~ (sequences[e] <= 0)
        BY <1>0 DEF TablesOK, SequenceNumbers
    <2>3. Count' = Count
        BY <2>1 DEF Count
    <2> QED BY <1>0, <2>1, <2>2, <2>3 DEF ReaderOK
<1>3. CASE listTimelineEvents
    <2> DEFINE next == TimelinePage(reader.cursor)
    <2> DEFINE last == Max({reader.cursor} \cup {sequences[e] : e \in next})
    <2>1. /\ reader.reads = "TIMELINE"
          /\ reader' = [reader EXCEPT
                 !.reads  = IF next = After(reader.cursor) THEN "TIMELINE_READ" ELSE "TIMELINE",
                 !.cursor = last,
                 !.events = reader.events \cup next]
          /\ UNCHANGED <<evidence, sequences>>
        BY <1>3 DEF listTimelineEvents, historyVars, ledgerVars, tables
    <2>2. /\ reader.cursor \in 0 .. Count
          /\ reader.events = {e \in DOMAIN sequences : sequences[e] <= reader.cursor}
          /\ reader.began \subseteq DOMAIN evidence
        BY <1>0, <2>1 DEF ReaderOK
    <2>3. /\ last \in 0 .. Count
          /\ {e \in DOMAIN sequences : sequences[e] <= last} = reader.events \cup next
        BY <1>0, <2>2, CursorsFollow, Zenon
    <2> HIDE DEF last
    <2>5. next = After(reader.cursor) => reader.events \cup next = DOMAIN evidence
        <3>1. \A e \in DOMAIN sequences : sequences[e] \in Nat
            BY <1>0 DEF TablesOK, SequenceNumbers
        <3>2. \A e \in DOMAIN sequences : e \in reader.events \/ e \in After(reader.cursor)
            BY <2>2, <3>1 DEF After
        <3>3. reader.events \subseteq DOMAIN evidence /\ After(reader.cursor) \subseteq DOMAIN evidence
            BY <1>0, <2>2 DEF After, TablesOK
        <3> HIDE DEF next
        <3> QED BY <1>0, <3>2, <3>3 DEF TablesOK
    <2> HIDE DEF next
    <2>4. /\ reader'.reads = IF next = After(reader.cursor) THEN "TIMELINE_READ" ELSE "TIMELINE"
          /\ reader'.cursor = last
          /\ reader'.events = reader.events \cup next
          /\ reader'.began = reader.began
        BY <2>1
    <2>6. Count' = Count
        BY <2>1 DEF Count
    <2> QED BY <2>1, <2>2, <2>3, <2>4, <2>5, <2>6 DEF ReaderOK
<1>4. CASE BeginObservations
    <2>1. /\ reader' = [reads |-> "OBSERVATIONS", rows |-> FirstOf(observed), views |-> <<>>]
          /\ UNCHANGED observed
        BY <1>4 DEF BeginObservations, tables
    <2>2. FirstOf(observed) \subseteq observed
        BY DEF FirstOf
    <2> QED BY <2>1, <2>2 DEF ReaderOK
<1>5. ASSUME NEW source \in EvidenceIds, ViewRow(source)
      PROVE  ReaderOK'
    <2>1. PICK view \in runtimeObservationView(source) :
              reader' = [reader EXCEPT !.views = Insert(@, source, view)]
        BY <1>5 DEF ViewRow
    <2>2. /\ reader.reads = "OBSERVATIONS"
          /\ source \in reader.rows \ DOMAIN reader.views
          /\ UNCHANGED <<evidence, observed>>
        BY <1>5 DEF ViewRow, historyVars, ledgerVars, tables
    <2>3. /\ reader.rows \subseteq observed
          /\ DOMAIN reader.views \subseteq reader.rows
          /\ \A s \in DOMAIN reader.views : ViewOK(s)
        BY <1>0, <2>2 DEF ReaderOK
    <2>4. /\ reader'.reads = "OBSERVATIONS"
          /\ reader'.rows = reader.rows
          /\ reader'.views = Insert(reader.views, source, view)
        BY <2>1, <2>2
    <2>5. /\ DOMAIN reader'.views = DOMAIN reader.views \cup {source}
          /\ reader'.views[source] = view
          /\ \A s \in DOMAIN reader.views : reader'.views[s] = reader.views[s]
        BY <2>2, <2>4 DEF Insert
    <2>6. \A s \in DOMAIN reader.views : ViewOK(s)'
        BY <2>2, <2>3, <2>4, <2>5 DEF ViewOK, SameSeries, Until
    <2>7. ViewOK(source)'
        <3>1. CASE Newer(source) = {}
            <4>1. view.freshness = "LATEST_OBSERVED_WINDOW"
                BY <2>1, <3>1 DEF runtimeObservationView
            <4>2. \A o \in reader.rows : SameSeries(o, source) => ~ (Until(o) > Until(source))
                BY <2>3, <3>1 DEF Newer
            <4> QED BY <2>2, <2>4, <2>5, <4>1, <4>2 DEF ViewOK, SameSeries, Until
        <3>2. CASE Newer(source) # {}
            <4>1. PICK o \in Newer(source) :
                      /\ view = [freshness |-> "STALE_BY_NEWER_WINDOW", newer |-> o]
                      /\ \A m \in Newer(source) : Until(m) <= Until(o)
                BY <2>1, <3>2 DEF runtimeObservationView
            <4>2. view.freshness = "STALE_BY_NEWER_WINDOW" /\ view.newer = o
                BY <4>1
            <4>3. /\ o \in observed /\ SameSeries(o, source) /\ Until(o) > Until(source)
                  /\ \A m \in reader.rows : SameSeries(m, source) /\ Until(m) > Until(source) =>
                         Until(m) <= Until(o)
                BY <2>3, <4>1 DEF Newer
            <4> QED BY <2>2, <2>4, <2>5, <4>2, <4>3 DEF ViewOK, SameSeries, Until
        <3> QED BY <3>1, <3>2
    <2> QED BY <2>2, <2>3, <2>4, <2>5, <2>6, <2>7 DEF ReaderOK
<1>6. CASE EndRead
    BY <1>6 DEF EndRead, NoReader, ReaderOK
<1>7. CASE Read
    BY <1>2, <1>3, <1>4, <1>5, <1>6, <1>7 DEF Read
<1>8. ASSUME NEW p \in Uploaders, NEW source \in EvidenceIds,
             InsertSource(p, source) \/ ReuseSource(p, source)
      PROVE  ReaderOK'
    BY <1>1, <1>8 DEF InsertSource, ReuseSource
<1>9. ASSUME NEW p \in Uploaders,
             \/ \E kind \in Kinds, document \in Documents : PrepareUpload(p, kind, document)
             \/ RefuseUpload(p)
             \/ AnswerUpload(p)
      PROVE  ReaderOK'
    BY <1>1, <1>9 DEF PrepareUpload, RefuseUpload, AnswerUpload
<1> QED BY <1>1, <1>7, <1>8, <1>9, StepKinds

\* Every step of the timeline is one of the claims' history, or leaves it alone.
LEMMA HistorySteps ==
    ASSUME EvidenceInv, [EvidenceNext]_evidenceVars
    PROVE  [HistoryNext]_historyVars
<1>1. CASE \E now \in Times : SetClock(now)
    BY <1>1 DEF SetClock
<1>2. ASSUME NEW p \in Uploaders, Upload(p)
      PROVE  [HistoryNext]_historyVars
    <2>1. ASSUME NEW source \in EvidenceIds, InsertSource(p, source)
          PROVE  HistoryNext
        <3>1. ImportSource(uploading[p].document)
            BY <2>1 DEF InsertSource
        <3>2. uploading[p].document \in Documents
            BY <2>1 DEF EvidenceInv, UploadsOK, PreparedOK, InsertSource
        <3> QED BY <3>1, <3>2 DEF HistoryNext
    <2>2. ASSUME NEW source \in EvidenceIds, ReuseSource(p, source)
          PROVE  UNCHANGED historyVars
        BY <2>2 DEF ReuseSource
    <2>3. ASSUME \/ \E kind \in Kinds, document \in Documents : PrepareUpload(p, kind, document)
                 \/ RefuseUpload(p)
                 \/ AnswerUpload(p)
          PROVE  UNCHANGED historyVars
        BY <2>3 DEF PrepareUpload, RefuseUpload, AnswerUpload
    <2> QED BY <1>2, <2>1, <2>2, <2>3 DEF Upload
<1>3. CASE Read
    BY <1>3 DEF Read, BeginTimeline, listTimelineEvents, BeginObservations, ViewRow, EndRead
<1>4. CASE ImportClaims /\ UNCHANGED timelineVars
    BY <1>4 DEF HistoryNext
<1>5. CASE UNCHANGED evidenceVars
    BY <1>5 DEF evidenceVars
<1> QED BY <1>1, <1>2, <1>3, <1>4, <1>5 DEF EvidenceNext

\* Claims and links stay as they were stored, and a claim's source is there.
ClaimsGrow ==
    /\ DOMAIN claims \subseteq DOMAIN claims'
    /\ DOMAIN links \subseteq DOMAIN links'
    /\ \A c \in DOMAIN claims : claims'[c] = claims[c]

LEMMA ClaimsKept ==
    ASSUME EvidenceInv, [EvidenceNext]_evidenceVars
    PROVE  ClaimsAreSourced' /\ ClaimsGrow
<1>0. HistoryInv /\ LedgerInv /\ ClaimsAreSourced /\ DOMAIN evidence \subseteq DOMAIN evidence'
    BY TablesKept DEF EvidenceInv, HistoryInv, Grows
<1>1. ASSUME UNCHANGED <<claims, links>>
      PROVE  ClaimsAreSourced' /\ ClaimsGrow
    BY <1>0, <1>1 DEF ClaimsAreSourced, ClaimsGrow
<1>2. ASSUME NEW p \in Importers, StoreClaim(p)
      PROVE  ClaimsAreSourced' /\ ClaimsGrow
    <2> DEFINE s == importing[p]
    <2>1. s # Nothing /\ InsertClaim(s)
        BY <1>2 DEF StoreClaim
    <2>2. s \in Statements /\ Supported(s)
        BY <1>0, <2>1, PreparedImport
    <2> HIDE DEF s
    <2>3. PICK c \in ClaimIds :
              /\ Added(s, c)
              /\ \A l \in DOMAIN links : links'[l] = links[l]
        BY <1>0, <2>1, <2>2, InsertClaimAdds
    <2>4. DOMAIN links \subseteq DOMAIN links'
        BY <2>1 DEF InsertClaim, Insert
    <2>5. s.source \in DOMAIN evidence
        BY <2>2 DEF Supported
    <2>6. \A d \in DOMAIN claims' : claims'[d].source \in DOMAIN evidence
        BY <1>0, <2>3, <2>5 DEF Added, ClaimsAreSourced
    <2>7. ClaimsAreSourced'
        BY <1>0, <2>6 DEF ClaimsAreSourced
    <2> QED BY <2>3, <2>4, <2>7 DEF Added, ClaimsGrow
<1>3. \/ UNCHANGED <<claims, links>>
      \/ \E p \in Importers : StoreClaim(p)
    <2>1. CASE HistoryNext
        BY <2>1 DEF HistoryNext, ImportClaims, ImportSource, archiveMission, persistEvidence,
                    PrepareClaim, KeepClaims, ledgerVars
    <2>2. CASE UNCHANGED historyVars
        BY <2>2 DEF historyVars, ledgerVars
    <2> QED BY <2>1, <2>2, HistorySteps
<1> QED BY <1>1, <1>2, <1>3

\* The invariant holds at the start and is kept.
LEMMA EvidenceInvInit == EvidenceInit => EvidenceInv
<1> SUFFICES ASSUME EvidenceInit
             PROVE  EvidenceInv
    OBVIOUS
<1>1. HistoryInv
    BY InvInit DEF EvidenceInit
<1>2. evidence = <<>> /\ claims = <<>> /\ recordedAt = <<>> /\ sequences = <<>> /\ observed = {}
    BY DEF EvidenceInit, HistoryInit, LedgerInit
<1>3. DOMAIN evidence = {} /\ DOMAIN claims = {} /\ DOMAIN recordedAt = {} /\ DOMAIN sequences = {}
    BY <1>2
<1>4. TablesOK
    <2>1. IsFiniteSet(DOMAIN evidence) /\ Count = 0
        BY <1>3, FS_EmptySet DEF Count
    <2>2. SequenceNumbers = {}
        BY <1>3 DEF SequenceNumbers
    <2>3. 1 .. 0 = {}
        OBVIOUS
    <2> QED BY <1>3, <2>1, <2>2, <2>3 DEF TablesOK
<1>5. ClaimsAreSourced /\ ObservedOK
    BY <1>2, <1>3 DEF ClaimsAreSourced, ObservedOK
<1>6. UploadsOK
    <2>1. \A p \in Uploaders : uploading[p].stage = "NONE" /\ answered[p].stage = "NONE"
        BY DEF EvidenceInit, NoUpload
    <2>2. \A p \in Uploaders : PreparedOK(p) /\ StoredOK(p) /\ AnsweredOK(p)
        BY <2>1 DEF PreparedOK, StoredOK, AnsweredOK, Answers
    <2> QED BY <1>3, <2>2 DEF UploadsOK, EvidenceInit
<1>7. ReaderOK
    BY DEF EvidenceInit, NoReader, ReaderOK
<1> QED BY <1>1, <1>4, <1>5, <1>6, <1>7 DEF EvidenceInv

LEMMA EvidenceInvNext == EvidenceInv /\ [EvidenceNext]_evidenceVars => EvidenceInv'
<1> SUFFICES ASSUME EvidenceInv, [EvidenceNext]_evidenceVars
             PROVE  EvidenceInv'
    OBVIOUS
<1>1. HistoryInv'
    BY HistorySteps, InvNext DEF EvidenceInv
<1> QED BY <1>1, TablesKept, ObservedKept, UploadsKept, ReaderKept, ClaimsKept DEF EvidenceInv

-----------------------------------------------------------------------------
(***************************************************************************)
(* The theorems about the timeline.                                        *)
(***************************************************************************)
\* Tables, uploads and readers agree, always: the invariant from which the
\* others follow.
THEOREM EvidenceInvariant == EvidenceSpec => []EvidenceInv
BY EvidenceInvInit, EvidenceInvNext, PTL DEF EvidenceSpec

\* What holds of the claims holds of them beside uploads and readers too: every
\* behaviour of the timeline is one of persistClaim's history.
THEOREM HistoryIsImplemented == EvidenceSpec => HistorySpec
<1>1. EvidenceInit => HistoryInit
    BY DEF EvidenceInit
<1>2. EvidenceInv /\ [EvidenceNext]_evidenceVars => [HistoryNext]_historyVars
    BY HistorySteps
<1> QED BY <1>1, <1>2, EvidenceInvariant, PTL DEF EvidenceSpec, HistorySpec

\* The claims of the timeline form chains that match their links.
THEOREM ClaimsStayChained == EvidenceSpec => []ClaimsAreChained
<1>1. HistoriesAreChains /\ LinksAreTheClaims => ClaimsAreChained
    BY DEF ClaimsAreChained
<1> QED BY <1>1, HistoryIsImplemented, HistoriesStayChains, LinksStayTheClaims, PTL

\* However uploads race, repeat or find the clock set back, each source is
\* recorded once, with one event, and answered as it was recorded.
THEOREM ImportsRecorded == EvidenceSpec => []ImportsAreRecordedOnce
<1>1. EvidenceInv => ImportsAreRecordedOnce
    <2> SUFFICES ASSUME EvidenceInv
                 PROVE  ImportsAreRecordedOnce
        OBVIOUS
    <2>1. TablesOK /\ ObservedOK /\ UploadsOK
        BY DEF EvidenceInv
    <2>2. ASSUME NEW p \in Uploaders, Answers(p)
          PROVE  /\ evidence[answered[p].source] = answered[p].document
                 /\ answered[p].at = recordedAt[answered[p].source]
                 /\ answered[p].sequence = sequences[answered[p].source]
                 /\ answered[p].kind = "RUNTIME" => answered[p].source \in observed
        BY <2>1, <2>2 DEF UploadsOK, AnsweredOK
    <2>3. ASSUME NEW p \in Uploaders, NEW q \in Uploaders \ {p}, Answers(p), Answers(q),
                 answered[p].created, answered[q].created
          PROVE  answered[p].source # answered[q].source
        <3>1. /\ answered[p].created \in BOOLEAN /\ answered[q].created \in BOOLEAN
              /\ answered[p].source \in DOMAIN evidence
            BY <2>1, <2>3 DEF UploadsOK, AnsweredOK
        <3>2. answered[p].created = TRUE /\ answered[q].created = TRUE
            BY <2>3, <3>1
        <3>3. Creates(p, answered[p].source) /\ Creates(q, answered[q].source)
            BY <2>3, <3>2 DEF Creates
        <3> QED BY <2>1, <3>1, <3>3 DEF UploadsOK
    <2> QED BY <2>1, <2>2, <2>3 DEF ImportsAreRecordedOnce, TablesOK, ObservedOK, Count
<1> QED BY <1>1, EvidenceInvariant, PTL

\* No reader misses or repeats an event, and no freshness it reads is overtaken
\* by a row of its own page.
THEOREM ReadersAreServed == EvidenceSpec => []ReadsAreHonest
<1>1. EvidenceInv => ReadsAreHonest
    <2> SUFFICES ASSUME EvidenceInv
                 PROVE  ReadsAreHonest
        OBVIOUS
    <2>1. ReaderOK
        BY DEF EvidenceInv
    <2>2. ASSUME reader.reads = "OBSERVATIONS", NEW source \in DOMAIN reader.views
          PROVE  LET view  == reader.views[source]
                     later == {o \in reader.rows :
                                  SameSeries(o, source) /\ Until(o) > Until(source)}
                 IN  IF view.freshness = "LATEST_OBSERVED_WINDOW"
                     THEN later = {}
                     ELSE /\ SameSeries(view.newer, source)
                          /\ Until(view.newer) > Until(source)
                          /\ \A o \in later : Until(o) <= Until(view.newer)
        <3>1. ViewOK(source)
            BY <2>1, <2>2 DEF ReaderOK
        <3> QED BY <3>1 DEF ViewOK
    <2> QED BY <2>1, <2>2 DEF ReaderOK, ReadsAreHonest
<1> QED BY <1>1, EvidenceInvariant, PTL

-----------------------------------------------------------------------------
(***************************************************************************)
(* The page.                                                               *)
(***************************************************************************)
\* A collection that was received lies between what was there when the load
\* began and what is there now, and is all of it unless there is more.
ReceivedOK(c) ==
    /\ Items(c) \subseteq Everything[c]
    /\ ~ page.got[c].more => page.began[c] \subseteq Items(c)

PageOK ==
    /\ DOMAIN page.got \subseteq Collections
    /\ \A c \in Collections : page.began[c] \subseteq Everything[c]
    /\ \A c \in DOMAIN page.got : page.got[c].more \in BOOLEAN /\ ReceivedOK(c)
    /\ page.view = "READY" =>
           /\ DOMAIN page.got = Collections
           /\ ~ partial => \A c \in Items("CLAIMS") : claims[c].source \in Items("EVIDENCE_SOURCES")
    /\ page.view = "INTEGRITY_ERROR" => \E c \in Collections : page.began[c] # Everything[c]

PageInv == EvidenceInv /\ PageOK

\* The collections, one by one.
LEMMA EverythingIs ==
    /\ Everything["EVIDENCE_SOURCES"] = DOMAIN evidence
    /\ Everything["TIMELINE"] = DOMAIN sequences
    /\ Everything["CLAIMS"] = DOMAIN claims
    /\ Everything["SUPERSESSIONS"] = DOMAIN links
BY DEF Everything, Collections

\* A first page is of what there is.
LEMMA FirstPageIs ==
    ASSUME NEW c \in Collections
    PROVE  FirstPage(c) \subseteq Everything[c]
<1>1. TimelinePage(0) \subseteq DOMAIN sequences
    BY DEF TimelinePage, After
<1>2. FirstOf(Everything[c]) \subseteq Everything[c]
    BY DEF FirstOf
<1> QED BY <1>1, <1>2, EverythingIs DEF FirstPage

\* The collections only grow while others import.
LEMMA EverythingGrows ==
    ASSUME EvidenceInv, [EvidenceNext]_evidenceVars
    PROVE  \A c \in Collections : Everything[c] \subseteq Everything'[c]
<1>1. /\ DOMAIN evidence \subseteq DOMAIN evidence'
      /\ DOMAIN sequences \subseteq DOMAIN sequences'
    BY TablesKept DEF EvidenceInv, TablesOK, Grows
<1>2. /\ DOMAIN claims \subseteq DOMAIN claims'
      /\ DOMAIN links \subseteq DOMAIN links'
    BY ClaimsKept DEF ClaimsGrow
<1>3. /\ Everything'["EVIDENCE_SOURCES"] = DOMAIN evidence'
      /\ Everything'["TIMELINE"] = DOMAIN sequences'
      /\ Everything'["CLAIMS"] = DOMAIN claims'
      /\ Everything'["SUPERSESSIONS"] = DOMAIN links'
    BY DEF Everything, Collections
<1> QED BY <1>1, <1>2, <1>3, EverythingIs DEF Collections

\* Imports leave what the page has read as it was.
LEMMA ImportsKeepPage ==
    ASSUME PageInv, [EvidenceNext]_evidenceVars, UNCHANGED page
    PROVE  PageOK'
<1>0. EvidenceInv /\ PageOK
    BY DEF PageInv
<1>1. \A c \in Collections : Everything[c] \subseteq Everything'[c]
    BY <1>0, EverythingGrows
<1>2. \A c \in DOMAIN page.got : ReceivedOK(c)'
    BY <1>0, <1>1 DEF PageOK, ReceivedOK, Items
<1>3. ASSUME page.view = "READY", ~ partial, NEW c \in Items("CLAIMS")
      PROVE  claims'[c].source \in Items("EVIDENCE_SOURCES")
    <2>1. Items("CLAIMS") \subseteq DOMAIN claims
        BY <1>0, <1>3, EverythingIs DEF PageOK, ReceivedOK, Collections
    <2>2. claims'[c] = claims[c]
        BY <1>0, <1>3, <2>1, ClaimsKept DEF ClaimsGrow
    <2> QED BY <1>0, <1>3, <2>2 DEF PageOK
<1>4. page.view = "INTEGRITY_ERROR" => \E c \in Collections : page.began[c] # Everything'[c]
    <2> SUFFICES ASSUME page.view = "INTEGRITY_ERROR"
                 PROVE  \E c \in Collections : page.began[c] # Everything'[c]
        OBVIOUS
    <2>1. PICK c \in Collections : page.began[c] # Everything[c]
        BY <1>0 DEF PageOK
    <2>2. page.began[c] \subseteq Everything[c]
        BY <1>0 DEF PageOK
    <2>3. Everything[c] \subseteq Everything'[c]
        BY <1>1
    <2>4. page.began[c] # Everything'[c]
        BY <2>1, <2>2, <2>3
    <2> QED BY <2>4
<1>5. partial' <=> partial
    BY DEF partial
<1>6. \A c \in Collections : page.began[c] \subseteq Everything'[c]
    BY <1>0, <1>1 DEF PageOK
<1> QED BY <1>0, <1>2, <1>3, <1>4, <1>5, <1>6 DEF PageOK, Items

\* The steps of the page.
LEMMA PageSteps ==
    ASSUME PageInv, UNCHANGED evidenceVars,
           (\E c \in Collections : Receive(c)) \/ Show \/ ShowError \/ Reload
    PROVE  PageOK'
<1>0. EvidenceInv /\ PageOK
    BY DEF PageInv
<1>1. Everything' = Everything /\ UNCHANGED <<evidence, claims, links, sequences>>
    BY DEF evidenceVars, historyVars, ledgerVars, timelineVars, tables, Everything
<1>2. CASE Reload
    <2>1. page'.view = "LOADING" /\ page'.began = Everything /\ page'.got = <<>>
        BY <1>2 DEF Reload, Loading
    <2> QED BY <1>1, <2>1 DEF PageOK
<1>3. CASE ShowError
    <2>1. page'.view = "ERROR" /\ page'.began = page.began /\ page'.got = <<>>
        BY <1>3 DEF ShowError
    <2> QED BY <1>0, <1>1, <2>1 DEF PageOK
<1>4. ASSUME NEW c \in Collections, Receive(c)
      PROVE  PageOK'
    <2> DEFINE row == [items |-> FirstPage(c), more |-> FirstPage(c) # Everything[c]]
    <2>1. /\ page.view = "LOADING" /\ c \notin DOMAIN page.got
          /\ page'.view = page.view /\ page'.began = page.began
          /\ page'.got = Insert(page.got, c, row)
        BY <1>4 DEF Receive
    <2>2. row.items = FirstPage(c) /\ row.more = (FirstPage(c) # Everything[c])
        OBVIOUS
    <2> HIDE DEF row
    <2>3. /\ DOMAIN page'.got = DOMAIN page.got \cup {c}
          /\ page'.got[c] = row
          /\ \A d \in DOMAIN page.got : page'.got[d] = page.got[d]
        BY <2>1 DEF Insert
    <2>4. row.more \in BOOLEAN /\ ReceivedOK(c)'
        <3>1. FirstPage(c) \subseteq Everything[c] /\ page.began[c] \subseteq Everything[c]
            BY <1>0, FirstPageIs DEF PageOK
        <3>2. row.more \in BOOLEAN
            BY <2>2
        <3>3. ~ row.more => FirstPage(c) = Everything[c]
            BY <2>2
        <3> QED BY <1>1, <2>1, <2>2, <2>3, <3>1, <3>2, <3>3 DEF ReceivedOK, Items
    <2>5. ASSUME NEW d \in DOMAIN page.got
          PROVE  page'.got[d].more \in BOOLEAN /\ ReceivedOK(d)'
        BY <1>0, <1>1, <2>1, <2>3 DEF PageOK, ReceivedOK, Items
    <2>6. \A d \in DOMAIN page'.got : page'.got[d].more \in BOOLEAN /\ ReceivedOK(d)'
        BY <2>3, <2>4, <2>5
    <2> QED BY <1>0, <1>1, <2>1, <2>3, <2>6 DEF PageOK
<1>5. CASE Show
    <2>1. /\ DOMAIN page.got = Collections
          /\ page' = [page EXCEPT !.view = IF isConsistent THEN "READY" ELSE "INTEGRITY_ERROR"]
        BY <1>5 DEF Show
    <2>2. /\ page'.view = IF isConsistent THEN "READY" ELSE "INTEGRITY_ERROR"
          /\ page'.began = page.began /\ page'.got = page.got
        BY <2>1
    <2>3. ASSUME isConsistent, ~ partial, NEW c \in Items("CLAIMS")
          PROVE  claims[c].source \in Items("EVIDENCE_SOURCES")
        BY <2>3 DEF isConsistent
    <2>4. ASSUME ~ isConsistent
          PROVE  \E c \in Collections : page.began[c] # Everything[c]
        <3> SUFFICES ASSUME \A c \in Collections : page.began[c] = Everything[c]
                     PROVE  isConsistent
            BY <2>4
        <3>1. ~ partial
            BY <2>4 DEF isConsistent
        <3>2. ASSUME NEW c \in Collections
              PROVE  Items(c) = Everything[c]
            BY <1>0, <2>1, <3>1 DEF PageOK, ReceivedOK, partial
        <3>3. /\ Items("EVIDENCE_SOURCES") = DOMAIN evidence
              /\ Items("TIMELINE") = DOMAIN sequences
              /\ Items("CLAIMS") = DOMAIN claims
              /\ Items("SUPERSESSIONS") = DOMAIN links
            BY <3>2, EverythingIs DEF Collections
        <3>4. DOMAIN sequences = DOMAIN evidence
            BY <1>0 DEF EvidenceInv, TablesOK
        <3>5. {claims[c].source : c \in DOMAIN claims} \subseteq DOMAIN evidence
            BY <1>0 DEF EvidenceInv, ClaimsAreSourced
        <3>6. \A l \in DOMAIN links : {links[l].predecessor, links[l].successor} \subseteq DOMAIN claims
            BY <1>0 DEF EvidenceInv, HistoryInv, LedgerInv, LinksAreTheClaims
        <3>7. UNION {{links[l].predecessor, links[l].successor} : l \in DOMAIN links}
                  \subseteq DOMAIN claims
            BY <3>6
        <3> QED BY <3>3, <3>4, <3>5, <3>7 DEF isConsistent
    <2>5. (partial' <=> partial) /\ \A c : Items(c)' = Items(c)
        BY <2>2 DEF partial, Items
    <2>6. \A c \in DOMAIN page'.got : page'.got[c].more \in BOOLEAN /\ ReceivedOK(c)'
        BY <1>0, <1>1, <2>2 DEF PageOK, ReceivedOK, Items
    <2>7. page'.view = "READY" => isConsistent
        BY <2>2
    <2>8. page'.view = "INTEGRITY_ERROR" => ~ isConsistent
        BY <2>2
    <2> QED BY <1>0, <1>1, <2>1, <2>2, <2>3, <2>4, <2>5, <2>6, <2>7, <2>8 DEF PageOK
<1> QED BY <1>2, <1>3, <1>4, <1>5

LEMMA PageInvInit == PageInit => PageInv
<1> SUFFICES ASSUME PageInit
             PROVE  PageInv
    OBVIOUS
<1>1. page.view = "LOADING" /\ page.began = Everything /\ page.got = <<>>
    BY DEF PageInit, Loading
<1> QED BY <1>1, EvidenceInvInit DEF PageInit, PageInv, PageOK

LEMMA PageInvNext == PageInv /\ [PageNext]_pageVars => PageInv'
<1> SUFFICES ASSUME PageInv, [PageNext]_pageVars
             PROVE  PageInv'
    OBVIOUS
<1>1. CASE [EvidenceNext]_evidenceVars /\ UNCHANGED page
    BY <1>1, ImportsKeepPage, EvidenceInvNext DEF PageInv
<1>2. CASE (\E c \in Collections : Receive(c)) \/ Show \/ ShowError \/ Reload
    <2>1. UNCHANGED evidenceVars
        BY <1>2 DEF Receive, Show, ShowError, Reload
    <2>2. EvidenceInv'
        BY <2>1, EvidenceInvNext DEF PageInv
    <2> QED BY <1>2, <2>1, <2>2, PageSteps DEF PageInv
<1>3. CASE UNCHANGED pageVars
    BY <1>1, <1>3 DEF pageVars
<1> QED BY <1>1, <1>2, <1>3 DEF PageNext

\* Every behaviour of the page is one of the timeline, so that all that holds
\* of uploads, readers and claims holds while pages are loaded.
THEOREM TimelineIsImplemented == PageSpec => EvidenceSpec
<1>1. PageInit => EvidenceInit
    BY DEF PageInit
<1>2. [PageNext]_pageVars => [EvidenceNext]_evidenceVars
    BY DEF PageNext, pageVars, Receive, Show, ShowError, Reload
<1> QED BY <1>1, <1>2, PTL DEF PageSpec, EvidenceSpec

\* A page that is shown as complete is, and one that reports damaged evidence
\* was overtaken by an import.
THEOREM PagesAreHonest == PageSpec => []PageIsHonest
<1>1. PageInv => PageIsHonest
    <2> SUFFICES ASSUME PageOK
                 PROVE  PageIsHonest
        BY DEF PageInv
    <2>1. ASSUME page.view = "READY", ~ partial, NEW c \in Collections
          PROVE  page.began[c] \subseteq Items(c)
        BY <2>1 DEF PageOK, ReceivedOK, partial
    <2> QED BY <2>1 DEF PageOK, PageIsHonest
<1> QED BY <1>1, PageInvInit, PageInvNext, PTL DEF PageSpec
=============================================================================
