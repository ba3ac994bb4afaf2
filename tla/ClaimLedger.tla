---------------------------- MODULE ClaimLedger ----------------------------
(***************************************************************************)
(* What the evidence and claim repositories promise for one Mission: three *)
(* tables that only grow, each import one step.  ClaimHistory shows that   *)
(* the code, which checks an import outside its transaction, implements    *)
(* this; ActiveTwin reads these tables.                                    *)
(*                                                                         *)
(* Identities are random UUIDs, which the code orders as strings: here     *)
(* numbers, any free one of which a new row may take.  All the claims have *)
(* one comparison key and one applicability, so that any of them may       *)
(* supersede any other; what tells them apart is source and value.         *)
(***************************************************************************)
EXTENDS Naturals, FiniteSets

CONSTANTS
    Documents,   \* contents an evidence source may have
    Values,      \* values a claim may state
    EvidenceIds, ClaimIds, LinkIds,   \* bounds on the three tables
    MaxDepth     \* MAXIMUM_CLAIM_HISTORY_DEPTH

ASSUME IdAssumption ==
    /\ EvidenceIds \subseteq Nat \ {0}
    /\ ClaimIds \subseteq Nat \ {0}
    /\ LinkIds \subseteq Nat \ {0}

ASSUME DepthAssumption == MaxDepth \in Nat \ {0}

VARIABLES
    current,    \* whether the Mission is CURRENT and its Project ACTIVE
    evidence,   \* evidence_sources: identity -> document
    claims,     \* claims: identity -> what its import key is the digest of
    links       \* claim_supersessions: identity -> predecessor and successor

ledgerVars == <<current, evidence, claims, links>>

None == 0   \* an absent identity

Statements == [source : EvidenceIds, value : Values, supersedes : ClaimIds \cup {None}]

Links == [predecessor : ClaimIds, successor : ClaimIds]

LedgerInit ==
    /\ current = TRUE
    /\ evidence = <<>>
    /\ claims = <<>>
    /\ links = <<>>

\* A table after a row was inserted.
Insert(table, id, row) ==
    [i \in DOMAIN table \cup {id} |-> IF i = id THEN row ELSE table[i]]

-----------------------------------------------------------------------------
(***************************************************************************)
(* The history of a claim, as the links tell it.                           *)
(***************************************************************************)
LinkFrom(predecessor) == {l \in DOMAIN links : links[l].predecessor = predecessor}

\* Whether a link says that one claim supersedes another.
Linked(successor, predecessor) ==
    \E l \in DOMAIN links :
        links[l] = [predecessor |-> predecessor, successor |-> successor]

\* Whether the history of a claim has at least so many claims.
AtLeast(claim, depth) ==
    \E path \in [1 .. depth -> ClaimIds] :
        /\ path[1] = claim
        /\ \A i \in 1 .. depth - 1 : Linked(path[i], path[i + 1])

-----------------------------------------------------------------------------
(***************************************************************************)
(* The operations.                                                         *)
(***************************************************************************)
archiveMission ==
    /\ current
    /\ current' = FALSE
    /\ UNCHANGED <<evidence, claims, links>>

\* One document is imported once: its import key finds the row there is.
persistEvidence(document) ==
    /\ current
    /\ \A e \in DOMAIN evidence : evidence[e] # document
    /\ \E e \in EvidenceIds \ DOMAIN evidence :
           evidence' = Insert(evidence, e, document)
    /\ UNCHANGED <<current, claims, links>>

\* #historyDepth refuses a predecessor whose history is already full.
Extensible(predecessor) ==
    predecessor # None =>
        /\ predecessor \in DOMAIN claims
        /\ ~ AtLeast(predecessor, MaxDepth)

\* What a claim is built from is there.
Supported(statement) ==
    /\ statement.source \in DOMAIN evidence
    /\ Extensible(statement.supersedes)

\* The claim with the same import key, if it was imported before.
Imported(statement) == {c \in DOMAIN claims : claims[c] = statement}

\* Mutant: the transaction does not look for another successor.
Insertable_AnySuccessor(statement) == current /\ Imported(statement) = {}

Insertable(statement) ==
    /\ current
    /\ Imported(statement) = {}
    /\ statement.supersedes # None => LinkFrom(statement.supersedes) = {}

\* The transaction inserts the claim, and its link with it.
InsertClaim(statement) ==
    /\ Insertable(statement)
    /\ \E c \in ClaimIds \ DOMAIN claims :
           /\ claims' = Insert(claims, c, statement)
           /\ IF statement.supersedes = None
              THEN UNCHANGED links
              ELSE \E l \in LinkIds \ DOMAIN links :
                       links' = Insert(links, l,
                           [predecessor |-> statement.supersedes, successor |-> c])
    /\ UNCHANGED <<current, evidence>>

importClaim(statement) == Supported(statement) /\ InsertClaim(statement)

LedgerNext ==
    \/ archiveMission
    \/ \E document \in Documents : persistEvidence(document)
    \/ \E statement \in Statements : importClaim(statement)

LedgerSpec == LedgerInit /\ [][LedgerNext]_ledgerVars

-----------------------------------------------------------------------------
(***************************************************************************)
(* Properties.                                                             *)
(***************************************************************************)
IsTable(table, ids, rows) == DOMAIN table \subseteq ids /\ table \in [DOMAIN table -> rows]

\* Every row of the three tables is well formed, and names rows there are.
LedgerTypeOK ==
    /\ current \in BOOLEAN
    /\ IsTable(evidence, EvidenceIds, Documents)
    /\ IsTable(claims, ClaimIds, Statements)
    /\ IsTable(links, LinkIds, Links)

\* A claim has at most one successor and at most one predecessor, and no
\* history grows past MaxDepth claims, although the depth is read before the
\* transaction and two imports may name one predecessor (#historyDepth and
\* persistClaim).
HistoriesAreChains ==
    /\ \A l, k \in DOMAIN links : l # k =>
           /\ links[l].predecessor # links[k].predecessor
           /\ links[l].successor # links[k].successor
    /\ \A c \in DOMAIN claims : ~ AtLeast(c, MaxDepth + 1)

\* A link and the claim that supersedes are one: no claim states a predecessor
\* its link does not, and no link stands without its two claims (the one
\* transaction of persistClaim).
LinksAreTheClaims ==
    /\ \A c \in DOMAIN claims, d \in ClaimIds :
           Linked(c, d) <=> claims[c].supersedes = d
    /\ \A l \in DOMAIN links : {links[l].predecessor, links[l].successor} \subseteq DOMAIN claims

\* However imports interleave, the claims form chains of bounded length, and the
\* links are those the claims state.
ClaimsAreChained == HistoriesAreChains /\ LinksAreTheClaims
=============================================================================
