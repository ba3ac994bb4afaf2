-------------------------- MODULE EvidenceTimeline --------------------------
(***************************************************************************)
(* SqliteEvidenceRepository: evidence sources, the timeline event of each, *)
(* and the runtime observation that a summary among them may be.  An       *)
(* upload is prepared outside any transaction, with the clock of that      *)
(* moment, and stored later, in a transaction that looks for its import    *)
(* key again.  Its answer, and the pages that readers ask for, are put     *)
(* together after further awaits.  The module adds this to ClaimHistory,   *)
(* whose ImportSource is the transaction here.                            *)
(*                                                                         *)
(* A document is a content with its attribution, all that its import key   *)
(* is the digest of.  A runtime observation has the identity of its        *)
(* source, which has at most one.                                          *)
(***************************************************************************)
EXTENDS ClaimHistory, FiniteSetsExt

CONSTANTS
    Uploaders,   \* concurrent requests to import a document
    Times,       \* what the wall clock may show
    Summaries,   \* documents that are a summary, effective when its window ends
    SeriesOf,    \* Summaries -> subject, environment and kind
    UntilOf,     \* Summaries -> observedUntilUtc
    PageLimit    \* limit of a page

ASSUME TimelineAssumption ==
    /\ Times \subseteq Nat
    /\ Summaries \subseteq Documents
    /\ UntilOf \in [Summaries -> Times]
    /\ PageLimit \in Nat \ {0}

VARIABLES
    clock,        \* the wall clock
    recordedAt,   \* evidence_sources.recorded_at_utc
    sequences,    \* timeline_events.mission_sequence, by source
    observed,     \* runtime_observations, by source
    uploading,    \* what each uploader has prepared or stored
    answered,     \* the last answer of each uploader
    reader        \* a request for the timeline, or for a page of observations

tables == <<recordedAt, sequences, observed>>
timelineVars == <<clock, tables, uploading, answered, reader>>
evidenceVars == <<historyVars, timelineVars>>

NoUpload == [stage |-> "NONE"]
NoReader == [reads |-> "NONE"]

EvidenceInit ==
    /\ HistoryInit
    /\ clock \in Times
    /\ recordedAt = <<>>
    /\ sequences = <<>>
    /\ observed = {}
    /\ uploading = [p \in Uploaders |-> NoUpload]
    /\ answered = [p \in Uploaders |-> NoUpload]
    /\ reader = NoReader

\* The wall clock may be set forward and back.
SetClock(now) ==
    /\ clock' = now
    /\ UNCHANGED <<historyVars, tables, uploading, answered, reader>>

-----------------------------------------------------------------------------
(***************************************************************************)
(* persistEvidence and persistRuntimeObservation.                          *)
(***************************************************************************)
Kinds == {"EVIDENCE", "RUNTIME"}

\* createRuntimeObservation: a summary of a window that has ended.
Observable(document) == document \in Summaries /\ UntilOf[document] <= clock

\* createEvidenceSource, before the transaction.  Nothing is looked up yet.
PrepareUpload(p, kind, document) ==
    /\ uploading[p] = NoUpload
    /\ kind = "RUNTIME" => Observable(document)
    /\ uploading' = [uploading EXCEPT ![p] =
           [stage |-> "PREPARED", kind |-> kind, document |-> document, at |-> clock]]
    /\ UNCHANGED <<historyVars, clock, tables, answered, reader>>

Existing(document) == {e \in DOMAIN evidence : evidence[e] = document}

SequenceNumbers == {sequences[e] : e \in DOMAIN sequences}

nextSequence == 1 + Max({0} \cup SequenceNumbers)

Stored(p, created, source) ==
    uploading' = [uploading EXCEPT ![p] =
        [stage |-> "STORED", kind |-> uploading[p].kind, document |-> uploading[p].document,
         created |-> created, source |-> source]]

\* Mutant: the event of the source is left to a later step.
InsertSource_NoEvent(p, source) ==
    LET upload == uploading[p] IN
    /\ upload.stage = "PREPARED"
    /\ ImportSource(upload.document)
    /\ DOMAIN evidence' = DOMAIN evidence \cup {source}
    /\ recordedAt' = Insert(recordedAt, source, upload.at)
    /\ observed' = IF upload.kind = "RUNTIME" THEN observed \cup {source} ELSE observed
    /\ Stored(p, TRUE, source)
    /\ UNCHANGED <<clock, sequences, answered, reader>>

\* The transaction of a document that is not there: source and event, and the
\* observation with them.
InsertSource(p, source) ==
    LET upload == uploading[p] IN
    /\ upload.stage = "PREPARED"
    /\ ImportSource(upload.document)
    /\ DOMAIN evidence' = DOMAIN evidence \cup {source}
    /\ recordedAt' = Insert(recordedAt, source, upload.at)
    /\ sequences' = Insert(sequences, source, nextSequence)
    /\ observed' = IF upload.kind = "RUNTIME" THEN observed \cup {source} ELSE observed
    /\ Stored(p, TRUE, source)
    /\ UNCHANGED <<clock, answered, reader>>

\* Whether the reused source can have the observation: the row takes the time
\* of the source, which must not be before the end of the window.
Attachable(source) ==
    source \in observed \/ UntilOf[evidence[source]] <= recordedAt[source]

\* The transaction of a document that was imported before.
ReuseSource(p, source) ==
    LET upload == uploading[p] IN
    /\ upload.stage = "PREPARED"
    /\ current
    /\ source \in Existing(upload.document)
    /\ upload.kind = "RUNTIME" => Attachable(source)
    /\ observed' = IF upload.kind = "RUNTIME" THEN observed \cup {source} ELSE observed
    /\ Stored(p, FALSE, source)
    /\ UNCHANGED <<historyVars, clock, recordedAt, sequences, answered, reader>>

\* EVIDENCE_MISSION_NOT_CURRENT, or the check on recorded_at_utc.
RefuseUpload(p) ==
    LET upload == uploading[p] IN
    /\ upload.stage = "PREPARED"
    /\ \/ ~ current
       \/ /\ upload.kind = "RUNTIME"
          /\ \E source \in Existing(upload.document) : ~ Attachable(source)
    /\ uploading' = [uploading EXCEPT ![p] = NoUpload]
    /\ UNCHANGED <<historyVars, clock, tables, answered, reader>>

-----------------------------------------------------------------------------
(***************************************************************************)
(* Views.                                                                  *)
(***************************************************************************)
SameSeries(one, two) == SeriesOf[evidence[one]] = SeriesOf[evidence[two]]

Until(source) == UntilOf[evidence[source]]

\* Mutant: a window that ends at the same time is newer.
Newer_OrEqual(source) ==
    {o \in observed \ {source} : SameSeries(o, source) /\ Until(o) >= Until(source)}

Newer(source) == {o \in observed : SameSeries(o, source) /\ Until(o) > Until(source)}

\* #runtimeObservationView names one of the newest.
runtimeObservationView(source) ==
    IF Newer(source) = {}
    THEN {[freshness |-> "LATEST_OBSERVED_WINDOW"]}
    ELSE {[freshness |-> "STALE_BY_NEWER_WINDOW", newer |-> o] :
             o \in {n \in Newer(source) : \A m \in Newer(source) : Until(m) <= Until(n)}}

\* What an upload is answered.  (For an observation, with its view as of now.)
AnswerUpload(p) ==
    LET upload == uploading[p] IN
    /\ upload.stage = "STORED"
    /\ answered' = [answered EXCEPT ![p] =
           [stage |-> "ANSWERED", kind |-> upload.kind, document |-> upload.document,
            created |-> upload.created, source |-> upload.source,
            at |-> recordedAt[upload.source], sequence |-> sequences[upload.source]]]
    /\ uploading' = [uploading EXCEPT ![p] = NoUpload]
    /\ UNCHANGED <<historyVars, clock, tables, reader>>

Upload(p) ==
    \/ \E kind \in Kinds, document \in Documents : PrepareUpload(p, kind, document)
    \/ \E source \in EvidenceIds : InsertSource(p, source) \/ ReuseSource(p, source)
    \/ RefuseUpload(p)
    \/ AnswerUpload(p)

\* A client that follows the cursor of listTimelineEvents to its end.
BeginTimeline ==
    /\ reader = NoReader
    /\ reader' = [reads |-> "TIMELINE", cursor |-> 0, events |-> {}, began |-> DOMAIN evidence]
    /\ UNCHANGED <<historyVars, clock, tables, uploading, answered>>

After(cursor) == {e \in DOMAIN sequences : sequences[e] > cursor}

\* The first PageLimit of them.
TimelinePage(cursor) ==
    {e \in After(cursor) :
        Cardinality({f \in After(cursor) : sequences[f] < sequences[e]}) < PageLimit}

listTimelineEvents ==
    LET page == TimelinePage(reader.cursor) IN
    /\ reader.reads = "TIMELINE"
    /\ reader' = [reader EXCEPT
           !.reads  = IF page = After(reader.cursor) THEN "TIMELINE_READ" ELSE "TIMELINE",
           !.cursor = Max({reader.cursor} \cup {sequences[e] : e \in page}),
           !.events = reader.events \cup page]
    /\ UNCHANGED <<historyVars, clock, tables, uploading, answered>>

\* The first PageLimit of a table, in the order of their identities.
FirstOf(ids) == {i \in ids : Cardinality({j \in ids : j < i}) < PageLimit}

\* listRuntimeObservations reads its rows at once, and then what is newer than
\* each, after an await of its own.
BeginObservations ==
    /\ reader = NoReader
    /\ reader' = [reads |-> "OBSERVATIONS", rows |-> FirstOf(observed), views |-> <<>>]
    /\ UNCHANGED <<historyVars, clock, tables, uploading, answered>>

ViewRow(source) ==
    /\ reader.reads = "OBSERVATIONS"
    /\ source \in reader.rows \ DOMAIN reader.views
    /\ \E view \in runtimeObservationView(source) :
           reader' = [reader EXCEPT !.views = Insert(@, source, view)]
    /\ UNCHANGED <<historyVars, clock, tables, uploading, answered>>

EndRead ==
    /\ \/ reader.reads = "TIMELINE_READ"
       \/ reader.reads = "OBSERVATIONS" /\ DOMAIN reader.views = reader.rows
    /\ reader' = NoReader
    /\ UNCHANGED <<historyVars, clock, tables, uploading, answered>>

Read ==
    \/ BeginTimeline
    \/ listTimelineEvents
    \/ BeginObservations
    \/ \E source \in EvidenceIds : ViewRow(source)
    \/ EndRead

EvidenceNext ==
    \/ \E now \in Times : SetClock(now)
    \/ \E p \in Uploaders : Upload(p)
    \/ Read
    \/ ImportClaims /\ UNCHANGED timelineVars

EvidenceSpec == EvidenceInit /\ [][EvidenceNext]_evidenceVars

-----------------------------------------------------------------------------
(***************************************************************************)
(* Properties.                                                             *)
(***************************************************************************)
Answers(p) == answered[p].stage = "ANSWERED"

\* However uploads race, are repeated, or find the clock set back: every source
\* has one event, and the sequences of a Mission have no gap; an upload is
\* answered with the source of its own document, as it was first stored, and
\* only one upload is told that it created it; and whatever is observed had
\* ended when it was recorded (docs/development/TESTING.md:193 and :259).
ImportsAreRecordedOnce ==
    /\ DOMAIN sequences = DOMAIN evidence
    /\ SequenceNumbers = 1 .. Cardinality(DOMAIN evidence)
    /\ \A o \in observed : evidence[o] \in Summaries /\ Until(o) <= recordedAt[o]
    /\ \A p \in Uploaders : Answers(p) =>
           /\ evidence[answered[p].source] = answered[p].document
           /\ answered[p].at = recordedAt[answered[p].source]
           /\ answered[p].sequence = sequences[answered[p].source]
           /\ answered[p].kind = "RUNTIME" => answered[p].source \in observed
           /\ \A q \in Uploaders \ {p} :
                 Answers(q) /\ answered[p].created /\ answered[q].created =>
                     answered[p].source # answered[q].source

\* A client that follows the cursors misses no event and sees none twice,
\* whatever is imported between its pages.  A page of observations, the
\* freshness of each of which is looked up by itself, says of none that it is
\* the latest if a later one of its series was there when the page was begun,
\* and of none that it is stale but by a window that ends later
\* (docs/product/TRUST_MODEL.md:154).
ReadsAreHonest ==
    /\ reader.reads \in {"TIMELINE", "TIMELINE_READ"} =>
           reader.events = {e \in DOMAIN sequences : sequences[e] <= reader.cursor}
    /\ reader.reads = "TIMELINE_READ" => reader.began \subseteq reader.events
    /\ reader.reads = "OBSERVATIONS" =>
           \A source \in DOMAIN reader.views :
               LET view  == reader.views[source]
                   later == {o \in reader.rows :
                                SameSeries(o, source) /\ Until(o) > Until(source)}
               IN  IF view.freshness = "LATEST_OBSERVED_WINDOW"
                   THEN later = {}
                   ELSE /\ SameSeries(view.newer, source)
                        /\ Until(view.newer) > Until(source)
                        /\ \A o \in later : Until(o) <= Until(view.newer)
=============================================================================
