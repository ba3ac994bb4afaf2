---------------------------- MODULE ClaimHistory ----------------------------
(***************************************************************************)
(* SqliteClaimRepository.persistClaim, in its two segments: an import is   *)
(* prepared outside any transaction, from the evidence source and the      *)
(* predecessor it names, and stored later, in a transaction that looks at  *)
(* the Mission, at the import key and at the predecessor's successor, but  *)
(* not at the source or at the depth again.  Between the two, other        *)
(* requests import and archive.                                            *)
(***************************************************************************)
EXTENDS ClaimLedger

CONSTANT Importers   \* concurrent requests to import a claim

VARIABLE importing   \* the claim each importer has prepared

historyVars == <<ledgerVars, importing>>

Nothing == [source |-> None]

HistoryInit ==
    /\ LedgerInit
    /\ importing = [p \in Importers |-> Nothing]

\* Mutant: the depth of the predecessor's history is not looked at.
PrepareClaim_AnyDepth(p, statement) ==
    /\ importing[p] = Nothing
    /\ current
    /\ statement.source \in DOMAIN evidence
    /\ statement.supersedes \in DOMAIN claims \cup {None}
    /\ importing' = [importing EXCEPT ![p] = statement]
    /\ UNCHANGED ledgerVars

\* The first segment: scope, source, predecessor, its depth, createClaim.  What
\* its awaits read never changes, but for the Mission, which is read again.
PrepareClaim(p, statement) ==
    /\ importing[p] = Nothing
    /\ current
    /\ Supported(statement)
    /\ importing' = [importing EXCEPT ![p] = statement]
    /\ UNCHANGED ledgerVars

\* The transaction, CREATED.
StoreClaim(p) ==
    /\ importing[p] # Nothing
    /\ InsertClaim(importing[p])
    /\ importing' = [importing EXCEPT ![p] = Nothing]

\* EXISTING, CLAIM_MISSION_NOT_CURRENT or CLAIM_SUPERSESSION_CONFLICT.
KeepClaims(p) ==
    /\ importing[p] # Nothing
    /\ ~ Insertable(importing[p])
    /\ importing' = [importing EXCEPT ![p] = Nothing]
    /\ UNCHANGED ledgerVars

ImportClaims ==
    \/ archiveMission /\ UNCHANGED importing
    \/ \E p \in Importers :
           \/ \E statement \in Statements : PrepareClaim(p, statement)
           \/ StoreClaim(p)
           \/ KeepClaims(p)

\* Sources are imported meanwhile (EvidenceTimeline).
ImportSource(document) == persistEvidence(document) /\ UNCHANGED importing

HistoryNext ==
    \/ ImportClaims
    \/ \E document \in Documents : ImportSource(document)

HistorySpec == HistoryInit /\ [][HistoryNext]_historyVars

-----------------------------------------------------------------------------
(***************************************************************************)
(* Properties.                                                             *)
(***************************************************************************)
\* The ledger and every prepared claim are well formed.
HistoryTypeOK ==
    /\ LedgerTypeOK
    /\ importing \in [Importers -> Statements \cup {Nothing}]

\* A claim that is stored could be imported in one step at that moment: its
\* source is there, and its predecessor's history has not filled up since it
\* was checked, whatever was imported meanwhile (persistClaim implements the
\* ledger).
ImplementsLedger == LedgerSpec
=============================================================================
