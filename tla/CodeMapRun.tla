------------------------------ MODULE CodeMapRun ------------------------------
(***************************************************************************)
(* One run of the code map (CodeMapProjectionService.run): a snapshot of   *)
(* the repository, two Git commands that read the sources of its commit,   *)
(* their extraction, a second snapshot that must show the same state, and  *)
(* the next revision of the Mission's map.  Where the sources cannot be    *)
(* read within the limits, a run that was allowed to stores the declared   *)
(* map of the fixture instead.                                             *)
(*                                                                         *)
(* Each Git command is a run of GitCommand.  A snapshot is taken in one    *)
(* step, since GitSnapshotCapture shows that its five commands describe    *)
(* one instant.  The owner of the repository and of the Mission is not a   *)
(* process here: the run looks at what they change when it takes a         *)
(* snapshot and when the scan begins, and may find anything then.          *)
(***************************************************************************)
EXTENDS GitCommand, Sequences, FiniteSetsExt

CONSTANTS
    Commits,
    Tree,                \* Commits -> sequence of entries, what ls-tree lists
    Changes,             \* what "git status" may show
    MaxFiles,            \* CODE_MAP_SCAN_LIMITS.maximumFiles
    MaxFileBytes,        \* .maximumFileBytes
    MaxAggregateBytes,   \* .maximumAggregateBytes
    MaxRevisions         \* bound on the revisions that the other runs store

VARIABLES
    phase,        \* where the run is
    consent,      \* allowDeclaredIntelliLoopFixtureFallback
    before,       \* the two snapshots
    after,
    blobs,        \* the entries that parseTree selects
    extraction,   \* [completeness, sources]
    failure,      \* the error that ended the run or made it fall back
    previous,     \* the revision that repository.latest returned
    maps          \* code_map_revisions of the Mission, by revision

runVars == <<phase, consent, before, after, blobs, extraction, failure, previous>>
codeMapVars == <<commandVars, runVars, maps>>

NoCommit == 0     \* a branch without a commit: headCommit is undefined

Snapshots == [commit : Commits \cup {NoCommit}, changes : Changes]
NoSnapshot == [commit |-> NoCommit, changes |-> "NONE"]

\* What an entry of a tree is to the reader; a path below node_modules and a
\* submodule are passed over, a sensitive name and another extension counted.
EntryKinds == {"source", "binary", "sensitive", "other", "vendored", "submodule",
               "link", "unsafe"}
Counted == {"source", "binary", "sensitive", "other"}
Read == {"source", "binary"}

Entries == [kind : EntryKinds, size : Nat]

ASSUME TreeAssumption == Tree \in [Commits -> Seq(Entries)] /\ NoCommit \notin Commits

ASSUME ScanLimitsAreNat == {MaxFiles, MaxFileBytes, MaxAggregateBytes} \subseteq Nat

ScanFallbackCodes == {"ENTRY_TYPE_UNSUPPORTED", "FILE_LIMIT_EXCEEDED",
    "FILE_BYTES_EXCEEDED", "AGGREGATE_BYTES_EXCEEDED", "SCAN_TIMEOUT",
    "FILE_ENCODING_INVALID", "READ_FAILED"}
ExtractionFallbackCodes == {"EXTRACTION_LIMIT_EXCEEDED", "EXTRACTION_FAILED"}

InitIn(label) ==
    /\ CommandInit
    /\ phase = label
    /\ consent \in BOOLEAN
    /\ before = NoSnapshot
    /\ after = NoSnapshot
    /\ blobs = {}
    /\ extraction = [completeness |-> "NONE", sources |-> {}]
    /\ failure = "NONE"
    /\ previous = 0
    /\ maps = <<>>

RunInit == InitIn("before")

-----------------------------------------------------------------------------
(***************************************************************************)
(* Failing.                                                                *)
(***************************************************************************)
\* fallbackReason is not undefined.
fallbackReason(code) == code \in ScanFallbackCodes \cup ExtractionFallbackCodes

Stop(code) == phase' = "done" /\ failure' = code

\* The catch of run: the error is thrown on, or the run falls back.
Fail(code) ==
    /\ failure' = code
    /\ phase' = IF fallbackReason(code) /\ consent THEN "after" ELSE "done"

-----------------------------------------------------------------------------
(***************************************************************************)
(* The first snapshot, and the scan it is handed to.                       *)
(***************************************************************************)
\* A command of the capture fails, its transaction does, or the Mission is
\* archived by now.
CaptureFails ==
    /\ phase \in {"before", "after"}
    /\ Stop("CAPTURE_FAILED")
    /\ UNCHANGED <<commandVars, consent, before, after, blobs, extraction,
                   previous, maps>>

CaptureBefore ==
    /\ phase = "before"
    /\ before' \in Snapshots
    /\ phase' = "scan"
    /\ UNCHANGED <<commandVars, consent, after, blobs, extraction, failure,
                   previous, maps>>

\* spawn() of a command: a child and a timer of its own.
StartCommand ==
    /\ child' = "starting"
    /\ exitCode' = NoCode
    /\ written' = [s \in Streams |-> 0]
    /\ killSent' = FALSE
    /\ delivered' = [s \in Streams |-> 0]
    /\ outputBytes' = 0
    /\ retained' = 0
    /\ timer' = TRUE
    /\ settled' = FALSE
    /\ outcome' = Pending

\* The scan begins with ls-tree; or the Mission is archived by now, or the
\* branch has no commit to read.
Scan ==
    /\ phase = "scan"
    /\ \/ /\ before.commit # NoCommit
          /\ phase' = "tree"
          /\ StartCommand
          /\ UNCHANGED failure
       \/ /\ Fail("MISSION_ARCHIVED")
          /\ UNCHANGED commandVars
       \/ /\ before.commit = NoCommit
          /\ Fail("REPOSITORY_CHANGED")
          /\ UNCHANGED commandVars
    /\ UNCHANGED <<consent, before, after, blobs, extraction, previous, maps>>

-----------------------------------------------------------------------------
(***************************************************************************)
(* The two Git commands.                                                   *)
(***************************************************************************)
\* A command's child ends with 0 only after it has listed the whole tree; an
\* object that cat-file cannot find leaves its output short of one.
ChildMay ==
    child' = "exited" /\ exitCode' = 0 =>
        /\ phase = "tree" => written["stdout"] = Len(Tree[before.commit])
        /\ phase = "batch" => written["stdout"] <= Cardinality(blobs)

\* ls-tree reads no input, so that only its start can fail with an error.
ErrorMay == phase = "batch" \/ child = "failed"

Command ==
    /\ phase \in {"tree", "batch"}
    /\ \/ Child /\ ChildMay
       \/ \E s \in Streams, n \in 1 .. MaxWritten : OnData(s, n)
       \/ ErrorMay /\ OnError
       \/ OnClose
       \/ OnTimeout
    /\ UNCHANGED <<runVars, maps>>

\* What runGit rejects with, or what its exit code is refused with.  A child
\* that is gone without a code is SCAN_FAILED, which does not fall back.
CommandErrors ==
    CASE outcome.error = "OUTPUT_LIMIT" -> {"AGGREGATE_BYTES_EXCEEDED"}
      [] outcome.error = "TIMEOUT"      -> {"SCAN_TIMEOUT"}
      [] outcome.error = "FAILED"       ->
            (IF child = "signalled" THEN {"SCAN_FAILED"} ELSE {})
            \cup (IF ErrorMay THEN {"READ_FAILED"} ELSE {})
      [] OTHER -> IF outcome.code # 0 THEN {"READ_FAILED"} ELSE {}

CommandFailed ==
    /\ phase \in {"tree", "batch"}
    /\ settled
    /\ \E code \in CommandErrors : Fail(code)
    /\ UNCHANGED <<commandVars, consent, before, after, blobs, extraction,
                   previous, maps>>

CommandSucceeded(command) ==
    /\ phase = command
    /\ settled
    /\ CommandErrors = {}

\* The entries of the output of ls-tree, as far as it was kept.
Listed == SubSeq(Tree[before.commit], 1, outcome.stdout)

OfKind(kinds, n) == {i \in 1 .. n : Listed[i].kind \in kinds}

\* The bytes of some of the entries, by their places.
SizeOf(entries, places) == MapThenSumSet(LAMBDA i : entries[i].size, places)

TooManyBytes(entries, places) == SizeOf(entries, places) > MaxAggregateBytes

\* What parseTree throws when it comes to the i-th entry.
FaultOf(i) ==
    CASE Listed[i].kind = "link"                 -> "ENTRY_TYPE_UNSUPPORTED"
      [] Listed[i].kind = "unsafe"               -> "TRAVERSAL_REJECTED"
      [] Listed[i].kind \notin Counted           -> "NONE"
      [] Cardinality(OfKind(Counted, i)) > MaxFiles -> "FILE_LIMIT_EXCEEDED"
      [] Listed[i].kind \notin Read              -> "NONE"
      [] Listed[i].size > MaxFileBytes           -> "FILE_BYTES_EXCEEDED"
      [] TooManyBytes(Listed, OfKind(Read, i)) -> "AGGREGATE_BYTES_EXCEEDED"
      [] OTHER                                   -> "NONE"

Faults == {i \in DOMAIN Listed : FaultOf(i) # "NONE"}

\* parseTree: the first entry at fault fails the scan.  Without a blob to read
\* there is no second command; before it starts, the deadline may have passed.
ParseTree ==
    /\ CommandSucceeded("tree")
    /\ IF Faults # {}
       THEN Fail(FaultOf(Min(Faults))) /\ UNCHANGED <<commandVars, blobs>>
       ELSE /\ blobs' = OfKind(Read, Len(Listed))
            /\ \/ /\ blobs' = {}
                  /\ phase' = "extract"
                  /\ UNCHANGED <<commandVars, failure>>
               \/ /\ blobs' # {}
                  /\ StartCommand
                  /\ phase' = "batch"
                  /\ UNCHANGED failure
               \/ /\ blobs' # {}
                  /\ Fail("SCAN_TIMEOUT")
                  /\ UNCHANGED commandVars
    /\ UNCHANGED <<consent, before, after, extraction, previous, maps>>

\* Mutant: what is missing from the output is not looked for.
BatchFault_Lenient ==
    IF \E i \in blobs : Tree[before.commit][i].kind = "binary" THEN "FILE_ENCODING_INVALID"
    ELSE "NONE"

\* parseBatch: one object for each blob and nothing after them, all of them text.
BatchFault ==
    IF outcome.stdout # Cardinality(blobs) THEN "READ_FAILED"
    ELSE IF \E i \in blobs : Tree[before.commit][i].kind = "binary"
         THEN "FILE_ENCODING_INVALID"
         ELSE "NONE"

ParseBatch ==
    /\ CommandSucceeded("batch")
    /\ IF BatchFault = "NONE" THEN phase' = "extract" /\ UNCHANGED failure
       ELSE Fail(BatchFault)
    /\ UNCHANGED <<commandVars, consent, before, after, blobs, extraction,
                   previous, maps>>

-----------------------------------------------------------------------------
(***************************************************************************)
(* Extraction, the second snapshot and the new revision.                   *)
(***************************************************************************)
\* The files of the scan: the blobs in their order, as many as were delivered.
SourcesRead ==
    {<<before.commit, i>> : i \in
        {j \in blobs : Cardinality({k \in blobs : k <= j}) <= outcome.stdout}}

\* extractCodeMap: PARTIAL when a file has a syntax error.
Extract ==
    /\ phase = "extract"
    /\ \E completeness \in {"COMPLETE", "PARTIAL"} :
          extraction' = [completeness |-> completeness, sources |-> SourcesRead]
    /\ phase' = "after"
    /\ UNCHANGED <<commandVars, consent, before, after, blobs, failure,
                   previous, maps>>

\* A limit of the extraction, its deadline, or an error nobody expects.
ExtractionFails ==
    /\ phase = "extract"
    /\ \E code \in ExtractionFallbackCodes \cup {"UNEXPECTED"} : Fail(code)
    /\ UNCHANGED <<commandVars, consent, before, after, blobs, extraction,
                   previous, maps>>

sameRepositoryState(left, right) == left = right

\* capture() again, for the result and for the fallback alike.
CaptureAfter ==
    /\ phase = "after"
    /\ \E snapshot \in Snapshots :
          IF sameRepositoryState(before, snapshot)
          THEN /\ after' = snapshot
               /\ phase' = "latest"
               /\ UNCHANGED failure
          ELSE Stop("SNAPSHOT_CHANGED") /\ UNCHANGED after
    /\ UNCHANGED <<commandVars, consent, before, blobs, extraction, previous, maps>>

ReadLatest ==
    /\ phase = "latest"
    /\ previous' = Len(maps)
    /\ phase' = "persist"
    /\ UNCHANGED <<commandVars, consent, before, after, blobs, extraction,
                   failure, maps>>

\* The revision of this run, with two fields of its history: the consent and
\* the error that made it fall back.
Projection ==
    [revision     |-> previous + 1,
     predecessor  |-> previous,
     snapshot     |-> after,
     evidenceKind |-> IF failure = "NONE" THEN "STATIC_INFERENCE"
                      ELSE "DECLARED_INTELLILOOP_FIXTURE",
     completeness |-> IF failure = "NONE" THEN extraction.completeness ELSE "UNAVAILABLE",
     sources      |-> IF failure = "NONE" THEN extraction.sources ELSE {},
     consented    |-> consent,
     reason       |-> failure]

\* persist: CODE_MAP_PREDECESSOR_CONFLICT when another run was faster.  An
\* input digest holds the snapshot's new id, so that no input is EXISTING.
persist(projection) ==
    IF projection.revision = Len(maps) + 1 /\ projection.predecessor = Len(maps)
    THEN maps' = Append(maps, projection) /\ Stop(failure)
    ELSE Stop("PREDECESSOR_CONFLICT") /\ UNCHANGED maps

Persist ==
    /\ phase = "persist"
    /\ persist(Projection)
    /\ UNCHANGED <<commandVars, consent, before, after, blobs, extraction,
                   previous>>

\* createCodeMapProjectionRevision refuses a time before the snapshot's, which a
\* wall clock may show, and members that are not as they should be.
RejectProjection ==
    /\ phase = "persist"
    /\ Stop("PROJECTION_INVALID")
    /\ UNCHANGED <<commandVars, consent, before, after, blobs, extraction,
                   previous, maps>>

\* The next step of the run when it does not wait for a command.
Advance ==
    \/ CaptureFails
    \/ CaptureBefore
    \/ Scan
    \/ CommandFailed
    \/ ParseTree
    \/ ParseBatch
    \/ Extract
    \/ ExtractionFails
    \/ CaptureAfter
    \/ ReadLatest
    \/ RejectProjection
    \/ Persist

-----------------------------------------------------------------------------
\* Another run of the Mission stores its revision, of which only the place in
\* the chain matters here.
OtherRun ==
    /\ Len(maps) < MaxRevisions
    /\ maps' = Append(maps,
           [Projection EXCEPT !.revision = Len(maps) + 1, !.predecessor = Len(maps),
                              !.snapshot = NoSnapshot, !.evidenceKind = "OTHER",
                              !.completeness = "NONE", !.sources = {},
                              !.consented = FALSE, !.reason = "NONE"])
    /\ UNCHANGED <<commandVars, runVars>>

RunNext ==
    \/ Command
    \/ Advance
    \/ OtherRun

\* An event loop that runs takes the next step of the run and fires its timer;
\* nothing is assumed of the child.
Fairness ==
    /\ WF_codeMapVars(Advance)
    /\ WF_codeMapVars(Command /\ OnTimeout)

RunSpec == RunInit /\ [][RunNext]_codeMapVars /\ Fairness

-----------------------------------------------------------------------------
SourcesOf(commit) ==
    {<<commit, i>> : i \in {j \in DOMAIN Tree[commit] : Tree[commit][j].kind \in Read}}

SourcePlaces(sources) == {s[2] : s \in sources}

\* A map inferred from the sources is a map of exactly the commit that its own
\* snapshot shows: the whole of its sources, in a repository that others
\* write, through two commands whose output may be cut, and within the limits
\* (docs/architecture/DOMAIN_MODEL.md:293).  The declared map of the fixture is
\* stored only with consent and only for a limit or a safe failure: a repository
\* that moved, an archived Mission, a child that died never pass for one (:297).
MapIsOfItsSnapshot ==
    \A r \in DOMAIN maps :
        /\ maps[r].evidenceKind = "STATIC_INFERENCE"
              => /\ maps[r].snapshot.commit # NoCommit
                 /\ maps[r].sources = SourcesOf(maps[r].snapshot.commit)
                 /\ Cardinality(maps[r].sources) <= MaxFiles
                 /\ ~ TooManyBytes(Tree[maps[r].snapshot.commit], SourcePlaces(maps[r].sources))
        /\ maps[r].evidenceKind = "DECLARED_INTELLILOOP_FIXTURE"
              => /\ maps[r].consented
                 /\ maps[r].snapshot = before
                 /\ maps[r].reason \notin
                       {"NONE", "MISSION_ARCHIVED", "REPOSITORY_CHANGED",
                        "TRAVERSAL_REJECTED", "SCAN_FAILED", "UNEXPECTED"}

\* A run ends, though its Git commands may hang, or write for ever.
RunEnds == <>(phase = "done")
=============================================================================
