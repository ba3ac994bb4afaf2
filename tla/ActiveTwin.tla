----------------------------- MODULE ActiveTwin -----------------------------
(***************************************************************************)
(* The Active Software Twin of one Mission: the append-only revisions that *)
(* TwinMaterializationService.materialize projects from the stored sources.*)
(* A materialization reads the latest revision, then the first pages of    *)
(* three collections, then the remaining pages of each (the three loops    *)
(* run side by side), then the latest code map, then the snapshots, and    *)
(* stores its projection if no other revision was stored meanwhile.        *)
(* Imports, captures and other materializations run between any two reads. *)
(***************************************************************************)
EXTENDS ClaimLedger, Sequences, FiniteSetsExt

CONSTANTS
    Materializers,   \* requests for a Twin revision, each made once
    ValidationKeys,
    PageLimit,       \* TWIN_REPOSITORY_PAGE_LIMIT
    MaxSnapshots, MaxValidations, MaxRevisions   \* bounds on the histories

ASSUME PageAssumption == PageLimit \in Nat \ {0}

ASSUME BoundsAssumption ==
    MaxSnapshots \in Nat /\ MaxValidations \in Nat /\ MaxRevisions \in Nat

AllIds == EvidenceIds \cup ClaimIds \cup LinkIds

\* The tables are bounded: every set of identities has a greatest.
ASSUME IdsHaveGreatest ==
    /\ AllIds # {}
    /\ \A S \in SUBSET AllIds : S # {} => \E greatest \in S : \A i \in S : greatest >= i

VARIABLES
    snapshots,     \* how many Git snapshots are stored: they are 1 .. snapshots
    codeMaps,      \* code_map_revisions: the snapshot each is bound to
    validations,   \* validation_results: key, time, source and snapshot of each
    twins,         \* twin_revisions: what each was projected from
    work           \* the local variables of each materialization

sourceVars == <<snapshots, codeMaps, validations>>
twinVars == <<ledgerVars, sourceVars, twins, work>>

Collections == {"evidence", "claims", "links"}

\* The rows of a collection.
Stored(collection) ==
    CASE collection = "evidence" -> DOMAIN evidence
      [] collection = "claims"   -> DOMAIN claims
      [] OTHER                   -> DOMAIN links

\* The latest validation of each key, by recordedAtUtc.
LatestValidations ==
    {i \in DOMAIN validations :
        \A j \in DOMAIN validations :
            validations[j].key = validations[i].key
                => validations[j].at <= validations[i].at}

\* What a projection is made of; its digest is the inputDigest.
Input(mission, rows, latest, map, last) ==
    [mission |-> mission, rows |-> rows, validations |-> latest,
     codeMap |-> map, snapshots |-> last]

NoRows == [k \in Collections |-> {}]

NoInput == Input(TRUE, NoRows, {}, 0, 0)

\* A finished page loop.
Exhausted == Max(AllIds) + 1

Unread == [step |-> "requested", previous |-> 0, input |-> NoInput,
           cursor |-> [k \in Collections |-> None], since |-> NoRows]

TwinInit ==
    /\ LedgerInit
    /\ snapshots = 0
    /\ codeMaps = <<>>
    /\ validations = <<>>
    /\ twins = <<>>
    /\ work = [p \in Materializers |-> Unread]

-----------------------------------------------------------------------------
(***************************************************************************)
(* The other sources.                                                      *)
(***************************************************************************)
Import == LedgerNext /\ UNCHANGED <<sourceVars, twins, work>>

CaptureSnapshot(snapshot) ==
    /\ current
    /\ snapshot = snapshots + 1
    /\ snapshots' = snapshot
    /\ UNCHANGED <<ledgerVars, codeMaps, validations, twins, work>>

\* A code-map run stores its map some time after it captured the snapshot it
\* binds the map to, which no other run does.
MapRepository(snapshot) ==
    /\ snapshot \in 1 .. snapshots
    /\ \A i \in DOMAIN codeMaps : codeMaps[i] # snapshot
    /\ codeMaps' = Append(codeMaps, snapshot)
    /\ UNCHANGED <<ledgerVars, snapshots, validations, twins, work>>

\* A result is recorded at some time before it is stored; no two share one.
persistValidation(key, at, source, snapshot) ==
    /\ Len(validations) < MaxValidations
    /\ \A i \in DOMAIN validations : validations[i].at # at
    /\ source \in DOMAIN evidence
    /\ snapshot \in 1 .. snapshots
    /\ validations' = Append(validations,
           [key |-> key, at |-> at, source |-> source, snapshot |-> snapshot])
    /\ UNCHANGED <<ledgerVars, snapshots, codeMaps, twins, work>>

-----------------------------------------------------------------------------
(***************************************************************************)
(* A materialization.                                                      *)
(***************************************************************************)
\* The rows of a page: the first PageLimit of those behind the cursor.
Behind(collection, cursor) == {i \in Stored(collection) : i > cursor}

Page(collection, cursor) ==
    {i \in Behind(collection, cursor) :
        Cardinality({j \in Behind(collection, cursor) : j < i}) < PageLimit}

\* Mutant: the cursor is the row read only to learn that there are more.
NextCursor_ExtraRow(collection, cursor) ==
    IF Page(collection, cursor) = Behind(collection, cursor)
    THEN Exhausted
    ELSE Min(Behind(collection, Max(Page(collection, cursor))))

NextCursor(collection, cursor) ==
    IF Page(collection, cursor) = Behind(collection, cursor)
    THEN Exhausted
    ELSE Max(Page(collection, cursor))

\* materialize reads the Mission and the latest revision.
BeginMaterialize(p) ==
    /\ work[p].step = "requested"
    /\ work' = [work EXCEPT
           ![p].step = "begun",
           ![p].previous = Len(twins),
           ![p].input.mission = current,
           ![p].since = [k \in Collections |-> Stored(k)]]
    /\ UNCHANGED <<ledgerVars, sourceVars, twins>>

\* Promise.all starts the three loops and the list of validations, each of
\* which reads its first page before it awaits.
ReadFirstPages(p) ==
    /\ work[p].step = "begun"
    /\ work' = [work EXCEPT
           ![p].step = "paging",
           ![p].input.rows = [k \in Collections |-> Page(k, None)],
           ![p].input.validations = LatestValidations,
           ![p].cursor = [k \in Collections |-> NextCursor(k, None)]]
    /\ UNCHANGED <<ledgerVars, sourceVars, twins>>

\* allEvidence, allClaims and allSupersessions ask for their next page.
ReadNextPage(p, collection) ==
    /\ work[p].step = "paging"
    /\ work[p].cursor[collection] # Exhausted
    /\ work' = [work EXCEPT
           ![p].input.rows[collection] = @ \cup Page(collection, work[p].cursor[collection]),
           ![p].cursor[collection] = NextCursor(collection, @)]
    /\ UNCHANGED <<ledgerVars, sourceVars, twins>>

ReadCodeMap(p) ==
    /\ work[p].step = "paging"
    /\ \A k \in Collections : work[p].cursor[k] = Exhausted
    /\ work' = [work EXCEPT ![p].step = "mapped", ![p].input.codeMap = Len(codeMaps)]
    /\ UNCHANGED <<ledgerVars, sourceVars, twins>>

\* validateInput: every row that another one names is there.
Closed(input) ==
    /\ \A c \in input.rows["claims"] :
           /\ claims[c].source \in input.rows["evidence"]
           /\ claims[c].supersedes \in input.rows["claims"] \cup {None}
    /\ \A l \in input.rows["links"] :
           {links[l].predecessor, links[l].successor} \subseteq input.rows["claims"]
    /\ \A i \in input.validations :
           /\ validations[i].source \in input.rows["evidence"]
           /\ validations[i].snapshot <= input.snapshots
    /\ input.codeMap # 0 => codeMaps[input.codeMap] <= input.snapshots

\* The request is answered, 201 or 200, or refused, 409 or 500 INTEGRITY_ERROR.
Answer(p) == work' = [work EXCEPT ![p].step = "answered", ![p].input = NoInput]

Refuse(p, step) ==
    work' = [work EXCEPT ![p] = [Unread EXCEPT !.step = step, !.previous = work[p].previous]]

\* allSnapshots reads without awaiting; projectTwinRevision validates.
Project(p) ==
    /\ work[p].step = "mapped"
    /\ LET input == [work[p].input EXCEPT !.snapshots = snapshots] IN
       IF Closed(input)
       THEN work' = [work EXCEPT ![p].step = "projected", ![p].input = input]
       ELSE Refuse(p, "integrity")
    /\ UNCHANGED <<ledgerVars, sourceVars, twins>>

\* A projection equal to its predecessor's is its predecessor.
IsLatest(input) == twins # <<>> /\ twins[Len(twins)] = input

\* SqliteTwinRepository.persist, in one transaction: EXISTING, CREATED or
\* TWIN_PREDECESSOR_CONFLICT.
Reuse(p) ==
    /\ work[p].step = "projected"
    /\ IsLatest(work[p].input)
    /\ Answer(p)
    /\ UNCHANGED <<ledgerVars, sourceVars, twins>>

\* Mutants: any predecessor will do; the revision is compared, not its successor.
Follows_Any(p) == ~ IsLatest(work[p].input)

Follows_Same(p) ==
    /\ work[p].previous + 1 = Len(twins)
    /\ ~ IsLatest(work[p].input)

Follows(p) ==
    /\ work[p].previous = Len(twins)
    /\ ~ IsLatest(work[p].input)

StoreTwin(p) ==
    /\ work[p].step = "projected"
    /\ Follows(p)
    /\ Len(twins) < MaxRevisions
    /\ twins' = Append(twins, work[p].input)
    /\ Answer(p)
    /\ UNCHANGED <<ledgerVars, sourceVars>>

Conflict(p) ==
    /\ work[p].step = "projected"
    /\ ~ Follows(p)
    /\ ~ IsLatest(work[p].input)
    /\ Refuse(p, "conflict")
    /\ UNCHANGED <<ledgerVars, sourceVars, twins>>

Materialize(p) ==
    \/ BeginMaterialize(p)
    \/ ReadFirstPages(p)
    \/ \E k \in Collections : ReadNextPage(p, k)
    \/ ReadCodeMap(p)
    \/ Project(p)
    \/ Reuse(p)
    \/ StoreTwin(p)
    \/ Conflict(p)

SourcesNext ==
    \/ Import
    \/ \E snapshot \in 1 .. MaxSnapshots :
           CaptureSnapshot(snapshot) \/ MapRepository(snapshot)
    \/ \E key \in ValidationKeys, at \in 1 .. MaxValidations,
          source \in EvidenceIds, snapshot \in 1 .. MaxSnapshots :
           persistValidation(key, at, source, snapshot)

TwinNext == SourcesNext \/ \E p \in Materializers : Materialize(p)

TwinSpec == TwinInit /\ [][TwinNext]_twinVars

-----------------------------------------------------------------------------
(***************************************************************************)
(* Properties.                                                             *)
(***************************************************************************)
\* One input holds no more than another.
Within(small, large) ==
    /\ \A k \in Collections : small.rows[k] \subseteq large.rows[k]
    /\ small.codeMap <= large.codeMap
    /\ small.snapshots <= large.snapshots
    /\ \A i \in small.validations : \E j \in large.validations :
           /\ validations[j].key = validations[i].key
           /\ validations[i].at <= validations[j].at

\* No revision loses what an earlier one holds, however the reads of the
\* materializations interleave with each other and with imports: each reads
\* its predecessor before its pages, and persist refuses a stale predecessor.
TwinsOnlyGrow ==
    \A i, j \in DOMAIN twins : i < j => Within(twins[i], twins[j])

\* A materialization that answers has stored, or found, a revision with all
\* that was stored when the request came in: nothing imported before a
\* request is missing from what it is answered (materialize and persist).
AnswerCoversRequest ==
    \A p \in Materializers :
        work[p].step = "answered" =>
            \E i \in DOMAIN twins :
                \A k \in Collections : work[p].since[k] \subseteq twins[i].rows[k]

\* A 409 means that another materialization has stored a revision since this
\* one began, so some request always gets through (persist's predecessor check).
ConflictMeansProgress ==
    \A p \in Materializers :
        work[p].step = "conflict" => Len(twins) > work[p].previous

\* Reads that fit a page are of one instant, and the code map is read before
\* the snapshots: a materialization can find its sources incomplete only
\* while it reads a collection of more than one page (validateInput).
IncompleteOnlyAcrossPages ==
    \A p \in Materializers :
        work[p].step = "integrity" =>
            \E k \in Collections : Cardinality(Stored(k)) > PageLimit

\* A materialization that fails has a cause outside itself: another's revision,
\* or an import while it read more than one page (the catch of materialize).
RefusalsHaveCause == ConflictMeansProgress /\ IncompleteOnlyAcrossPages

\* 500 INTEGRITY_ERROR is for a stored history that fails its verification
\* (API_REFERENCE.md), and nothing here ever damages what is stored.
IntegrityErrorMeansCorruption ==
    \A p \in Materializers : work[p].step # "integrity"
=============================================================================
