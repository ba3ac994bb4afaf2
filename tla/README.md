# IntelliLoop: verification development

TLA+ models, TLC configurations and TLAPS proofs for IntelliLoop, a TypeScript
monorepo: a Fastify API over one SQLite file (`apps/api`), a pure domain library
(`packages/domain`), shared contracts (`packages/contracts`) and a React client
(`apps/web`). Paths below are relative to the repository root.

## 1. The system

One Node.js process serves all requests. SQLite is used through the synchronous
`better-sqlite3` driver, so a request runs without interruption from one `await`
to the next, and other requests run in between. Writes happen inside
`connection.transaction(...).immediate()`, which is one uninterrupted step.
Concurrency is therefore the interleaving of *segments* between awaits, and that
is what every stateful model below takes as its step.

| Component | State | Operations | Hard behaviour | What makes it correct |
|---|---|---|---|---|
| Projects and Change Missions (`packages/domain/src/project.ts`, `apps/api/src/projects/project-repository.ts`) | projects, missions and their revisions | create, archive | two requests at once; one current Mission | at most one current Mission per Project; no Mission of an archived Project is current |
| Repository registration, local pilot preflight (`repository-registration.ts`, `local-project-pilot-service.ts`) | repositories | register, preflight | paths that change between checks | a registration names one real root of its Project |
| Git snapshot capture (`git-snapshot-service.ts`, `git-command-runner.ts`) | git_snapshots | capture, get, list | the work tree changes under the capture; command time-outs; mission archived meanwhile | a stored snapshot's evidence was stable around the status command |
| Code map (`apps/api/src/code-map`) | code_map_revisions | run, read | two Git commands between two snapshots; limits, deadline, cut output; the fall-back; what a program may say twice | a map is of exactly the commit its snapshot shows, within the limits, and has an edge for each link of its files; a declared map only with consent |
| Evidence, claims, timeline (`apps/api/src/evidence`) | evidence_sources, claims, claim_supersessions, timeline_events, runtime_observations | import, record, supersede, page | a depth checked before the transaction; replays, concurrent imports; a clock set back; pages read around imports | histories are short chains; a claim and its link agree; one event per source, without a gap; no reader misses a row |
| Engineering Twin (`packages/domain/src/twin-projection.ts`, `apps/api/src/twin`) | twin_revisions | materialize | pages read around imports; predecessor race; what a change reaches | no revision loses what an earlier one holds; an answer holds all that was there before the request; invalidations are exact, and a member's revision names its contents |
| Reconciliation (`apps/api/src/reconciliation`, `reconciliation-*.ts`, `impact-analysis.ts`) | reconciliation_impact_revisions | execute, read | the predecessor is read before many awaits; Twins with half an import | one revision per input; each names the change since the one before |
| Readiness (`apps/api/src/readiness`, `readiness-*.ts`) | validation_results, readiness_reviews, release_assessments | persistValidation, recordReview, assess, state | reads torn by awaits; three looks at the history; wall-clock order | READY only while the gate is open; answers linearize |
| Release Passport (`apps/api/src/passports`, `release-passport.ts`) | release_passports | project, state | competing projections; overtaken assessments | one Passport per assessment, its status reproduced |
| Demo workspace (`apps/api/src/demo`) | a directory, demo_workspaces and all of the above | setup, correction, staleness, reset, status | disk, row and Project change one after the other; crash between any two steps; users act meanwhile | READY only with all it names; no Project without an owner; others untouched; a retried set-up completes |
| Database lifecycle (`apps/api/src/database`) | user_version, schema_migrations | open, migrate, close | several processes starting; a crash in a migration; an older build; another application's file | the history is what ran; whoever serves has its whole plan; never a downgrade |
| Provider adapter, explanations (`provider-adapter.ts`, `apps/api/src/explanations`) | one session: active requests, consumed budget | execute, fall back | a budget and a slot shared by all requests; time-outs against late answers; answers changed after they are given | never overspent, one request at a time, only the answer of its own request accepted |
| Web client (`apps/web/src`) | what a page has loaded | load, show, reload | four requests answered in any order, around an import | a page shown as complete is whole |
| Routes, contracts, scripts | none durable | – | – | transport and tooling |

How they interact: snapshots, claims and code maps feed the Twin and the
reconciliation by foreign keys and digests; the reconciliation fixes the list of
required validations; readiness reads the latest row of four tables and appends
an assessment; the Passport copies an assessment. All calls are in-process
method calls, and the database is the only shared state.

## 2. Modules

### `Readiness.tla`

The four input tables and the assessment history of one Project and Mission, and
any number of concurrent requests.

| Model | Code |
|---|---|
| `snapshots`, `reconciliations`, `validations`, `reviews`, `assessments` | the tables `git_snapshots`, `reconciliation_impact_revisions`, `validation_results`, `readiness_reviews`, `release_assessments` |
| a *stamp* | the place of a row in `ORDER BY ..._at_utc DESC, ..._id DESC`. Clocks may step back and ids are random, so a new row takes any free stamp |
| `pc`, `draft`, `todo`, `base` | where a request is between two awaits, and its local variables |
| `CaptureSnapshot`, `ExecuteReconciliation`, `persistValidation` | the writing transactions of the other components, any of which may run between two segments |
| `BeginReview`, `InsertReview`, `RejectReviewTime` | `recordReview` |
| `BeginAssess`, `RejectAssess`, `ReadSnapshot`, `ReadEvidence`, `ReadPrevious` | `assess` and `#input` |
| `Precheck`, `ObserveLatest`, `Commit` | `persistAssessment`: the look-up, the assertion against the latest assessment, the transaction |
| `BeginView`, `ViewReconciliation`, `DeriveState` | `state` |
| `evaluateReadiness` | the policy: every blocker the service can raise, grouped by the status it leads to |

Records and digests are identified with their contents: two inputs have equal
fingerprints exactly when they are equal. `started` is a history variable that
no action reads.

### `ReleaseHistory.tla`

The abstract specification: a list of distinct states of the inputs, each
appended while it was current, none of which becomes current again. `Readiness`
implements it through the mapping `History` (assessments to their inputs, the
tables to `CurrentInputs`).

### `ReleasePassport.tla`

Extends `Readiness` with projectors and the table `release_passports`:
`Lookup` (the assessment and the search for its Passport), `RejectPassportTime`,
`CommitPassport`.

### `ProjectLifecycle.tla`

Projects, Change Missions and repository registrations. Every write of
`SqliteProjectRepository` is one IMMEDIATE transaction that reads what it decides
on, so every operation is one action: `createProject`, `createMission`,
`archiveMission`, `archiveProject`, `register`. An entity has a head row and a row
for each of its revisions (`projects`/`project_revisions`,
`missions`/`mission_revisions`); `Hydrates` and `ValidCollection` are what the
readers demand of them before they answer. The wall clock is an argument `t` of
every operation, and may be earlier than that of the operation before. A call
that is refused changes nothing and is no step.

### `GitSnapshotCapture.tla`

Extends `ProjectLifecycle` with requests that capture a snapshot or run the
preflight of a local project, and with the repositories they read.

| Model | Code |
|---|---|
| `HEAD`, `worktree` | the repository of a root. Its owner takes no lock: `MoveHead` and `Edit` may happen between any two commands |
| `pc`, `Script`, `NextCommand` | the Git command a request awaits, in the order of `capture` and `#safePreflight` |
| `BeginCapture`, `BeginPilot` | the synchronous part before the first await: `#activeMission`, the registration, the root; the checks of the pilot's root |
| `RunCommand` | one command reads the repository at one instant of its run |
| `FailCommand` | any of `GitCommandError`, a parse error, an unexpected exit code |
| `RejectChanged`, `Compare` | `sameEvidence`, and the comparisons of the preflight |
| `StoreSnapshot`, `RejectStore` | the IMMEDIATE transaction of `capture`, which checks the Mission again |
| `RegisterPilot`, `RejectPilot` | the end of `LocalProjectPilotService.register` and `preflight` |

`statusHead` and `moves` are history variables that no action's guard reads: HEAD
when the status command ran, and how often HEAD has moved since the request began
(two stands for more).

### `GitCommand.tla`

One child process, as `FixedGitCommandRunner.run` and `runGit` of the
committed-source reader run it. The child (`Child`) starts, writes, exits or dies;
the event loop delivers `OnData`, `OnError`, `OnClose` and `OnTimeout` in any order.
`outputBytes`, `retained`, `settled`, `timer` are the closure's variables; bytes are
counted, not spelled. `HasInput` tells the two callers apart: only `runGit` writes
an input to the child, and an error of writing it may come at any time.

### `CodeMapRun.tla`

Extends `GitCommand`: one run of `CodeMapProjectionService.run` over a committed
tree, whose two commands (`ls-tree`, then `cat-file --batch`) are runs of the
command module, one after the other on the same variables.

| Model | Code |
|---|---|
| `phase` | the segment of `run` and `scan`: `before`, `scan`, `tree`, `batch`, `extract`, `after`, `latest`, `persist`, `done` |
| `CaptureBefore`, `CaptureAfter`, `CaptureFails` | the two captures of the repository. Its owner moves it at will: a capture returns any snapshot |
| `Scan` | the Mission is read again, and the first command starts |
| `Command`, `CommandFailed` | the child and the event loop, and what the error of a command becomes |
| `ParseTree`, `ParseBatch` | the output of each command, as far as it was kept; the limits in the order in which `parseTree` comes to them |
| `Extract`, `ExtractionFails` | the outcome of `extractCodeMap`: complete, partial, or one of its limits |
| `RejectProjection` | `createCodeMapProjectionRevision` refuses a clock behind its snapshot, or members that `CodeMapMembers` describes |
| `Fail` | a code of the fall-back list with the caller's consent goes on to the declared fixture; any other ends the run |
| `ReadLatest`, `Persist`, `OtherRun` | the predecessor, the transaction, and a competing run of the Mission |

### `CodeMapMembers.tla`

What a run makes of the files it has read: a pure function of `sources`, in which a
file is a sequence of statements as the compiler parses them. Member keys are what
they are put together from, and lengths are counted in names. A specifier is its text
split at each slash, so that "./b", "././b", "./b/" and "./" are four, and
`plain` if it has none of the characters that `resolveRelativeSpecifier` refuses;
`FileNames` are the names that end in an extension, each with the file it names.

| Model | Code |
|---|---|
| `SafePath` | `safeRelativePath`, in `SourcesAssumption`, which says of what form the statements are |
| `normalized` | `posix.normalize` of a specifier at its directory, one name after the other (`Follow`); the names of `Still` change nothing |
| `UnsafeBase` | the bases that are refused: the root, what lies above it, and what ends in the slash that `posix.normalize` keeps |
| `Candidates` | the base itself if it ends in an extension (`expectedExtension`), else every file of its name and every index in it |
| `resolveRelativeSpecifier`, `isTestPath` | the functions of these names: one file that a specifier can mean, or none |
| `imports`, `reexports`, `contracts` | the records of `extractSourceFacts`; a contract has one for each name it is exported under |
| `receivers`, `PluginReceivers`, `routes` | `visit` and `addRoute`: the names that stand for a Fastify instance where a call is made |
| `manifests`, `testAssociations`, `completeness`, `RecordCount` | the rest of `extractCodeMap`, and its budget of records |
| `Assets`, `Edges` | `extractedMembers` |
| `AssetsAccepted`, `EdgesAccepted` | `buildAssets` and `buildEdges`: limits, tokens, unique keys, no edge from an asset to itself |
| `mapping` | the members of the revision, or the code the route answers with |

`Names`, `Means` and `SourceLinks` are the reference: what a specifier names, said of a
path at a time, without a list of candidates and without a stack. A trail of names leads
as deep as its names count (`Depth`), and ends at the path of those names by which each of
the depths was last entered (`Place`). A trail that ends in a slash names a directory, and
means no file.

### `ClaimLedger.tla`

What the evidence and claim repositories promise for one Mission: the tables
`evidence_sources`, `claims` and `claim_supersessions` (`evidence`, `claims`, `links`)
only grow, and an import is one step (`importClaim`). A claim is its source, its
value and the claim it supersedes, which is what its import key is the digest of;
identities are numbers, of which a new row takes any free one, because the code
draws random UUIDs and pages in their order. `AtLeast` is `#historyDepth`.

### `ClaimHistory.tla`

Extends the ledger with the two segments of `persistClaim`: `PrepareClaim` (scope,
source, predecessor, depth, `createClaim`) and the transaction (`StoreClaim` when a
row is inserted, `KeepClaims` for a replay or a refusal). The several awaits of the
first segment are one step: what they read are rows that never change, and the
one thing that does change, the Mission, the transaction reads again. It
implements `LedgerSpec`, with the ledger's variables as they are. `ImportSource` is
the arrival of a document, which the next module takes apart.

### `EvidenceTimeline.tla`

Extends the history with what else an import stores, and with readers.

| Model | Code |
|---|---|
| a document | a content with its attribution: what the import key is the digest of. Some are summaries, of which a runtime observation can be made |
| `clock` | the wall clock, which may be set either way (`SetClock`) |
| `recordedAt`, `sequences`, `observed` | `recorded_at_utc` of a source, `mission_sequence` of its event, and the rows of `runtime_observations`, which are named by their source |
| `PrepareUpload` | `createEvidenceSource`, and for an observation `createRuntimeObservation`, which refuses a window that has not ended |
| `InsertSource`, `ReuseSource`, `RefuseUpload` | the IMMEDIATE transaction of `persistEvidence` and `persistRuntimeObservation`: a new document, one that is there, a Mission that is no longer current or a row that the table refuses (`Attachable`) |
| `AnswerUpload` | what is put together after the transaction |
| `BeginTimeline`, `listTimelineEvents` | a client that follows the cursor, one request a page |
| `BeginObservations`, `ViewRow` | `listRuntimeObservations`: its rows, and then for each, after an await of its own, what is newer |

`began` is a history variable of the reader. It implements `HistorySpec`.

### `EvidencePage.tla`

Extends the timeline with the Linked Evidence page of the web client: `Receive` is the
answer of one of its four requests, `Show` is `isConsistent` on all four, `ShowError`
a request that failed, `Reload` a retry, an import that succeeded or a change of
Mission, after which the answers of the load before are dropped. The two sides of a
reference are compared field by field in the code; these are rows that were compared
when they were stored and never change, so of `isConsistent` the model keeps what an
import can disturb: whether what is named was received. It implements `EvidenceSpec`.

### `ActiveTwin.tla`

Extends the ledger with the other sources of a Twin and the requests that
materialize one.

| Model | Code |
|---|---|
| `snapshots`, `codeMaps`, `validations`, `twins` | the tables `git_snapshots`, `code_map_revisions`, `validation_results`, `twin_revisions`; a Twin is what it was projected from |
| `work[p]` | the local variables of `materialize`; `since` is a history variable, what was stored when the request began |
| `BeginMaterialize`, `ReadFirstPages`, `ReadNextPage`, `ReadCodeMap`, `Project` | its segments: the latest revision; the first pages of the three collections with the latest validations, which `Promise.all` starts together; the further pages of each, in any interleaving; the code map; the snapshots with `projectTwinRevision` |
| `Closed` | `validateInput`: every row that another names is there |
| `Reuse`, `StoreTwin`, `Conflict` | the transaction of `SqliteTwinRepository.persist` |
| `Import`, `CaptureSnapshot`, `MapRepository`, `persistValidation` | the writers of the sources, any of which may run between two segments |

### `TwinProjection.tla`

What `projectTwinRevision` makes of the sources that `ActiveTwin` brings together. A
digest stands for what it is computed from, an id for what it is made of.

| Model | Code |
|---|---|
| `stored` | the rows `materialize` reads: the latest results only (`replaced` are the others), the latest code map |
| `twinChain` | the projections of the Mission; each has its input, nodes, relationships, bindings and invalidations |
| `SourceNodes`, `MapOf`, `SourceDigest`, `InputDigest`, `IsReplay` | `projectSourceDescriptors` and the `inputDigest`, by which a projection is its predecessor again |
| `buildNodes`, `ScopeRelations`, `ClaimRelations`, `ResultRelations`, `LinkRelations`, `AssetRelations`, `EdgeRelations`, `SemanticRelations`, `buildRelationships`, `Numbered` | the members and their revisions, numbered from the predecessor by digest |
| `RowBindings`, `Bindings` | `addBinding`, and the two bindings of a relationship to its ends |
| `exactInvalidations`, `Reached` | the members of the predecessor that changed or vanished, and the queue along its bindings |
| `ShapeOK`, `ValidDeclarations` | what `validateInput` and `requireNode` refuse of semantic relationships |
| `ArchiveMission` ... `RunCodeMap` | the operations that change the sources, each as one step |

### `Reconciliation.tla`

Extends `ActiveTwin` with executions. `Begin` reads the Twin revision and the
latest reconciliation; all that `execute` reads later are rows that never change,
so the rest is one step, the transaction of `persist` (`StoreReconciliation`,
`KeepReconciliations`). `Reassess` is `reassessReconciliation`: the conflicts among
the active claims, the validations that are missing, and the comparison of the
dependencies with those of the reassessment before.

### `ImpactAnalysis.tla` and `ClaimComparison.tla`

Two pure functions that an execution calls. Their only variable is the input of one
call (`input`, `claimSet`); the properties compare what the function returns with a
definition that does not compute.

| Model | Code |
|---|---|
| `TwinAccepted`, `Presented` | the input that the checks before the analysis let through |
| `directedEdge`, `Adjacency`, `Discover`, `Expand`, `Searched`, `canonicalPathsFrom` | the search from a root: the edges a Twin gives, in the order of type and id, and the queue after each turn of the loop over it, whose first arrival at a node is the one kept |
| `requirementOutcome`, `validationOutcome`, `pathUsesUnavailableSupport` | what `analyzeChangeImpact` reports for a requirement: a path, or one of its gaps |
| `OrderEntry`, `PathIntact`, `EntriesInOrder`, `resultIntact` | `assertImpactAnalysisResultInvariant`, which the analysis runs on its own result; ids are words over characters in their collation order |
| `compareClaims`, `compareClaimApplicability`, `compareClaimValues` | the comparison of two claims, with half-open intervals and partly given dimensions |
| `validateSupersessions`, `reconcileClaimSet` | the topology of links, the active claims, and the findings of a set |

The references are walks of a bounded length, of which the shortest and then the
first by edge is the canonical one (`Walks`, `Preferred`), and circumstances: two
claims clash when there is a moment and a value of every dimension in which both
apply and they differ (`Circumstances`, `Differ`).

### `CitedExplanation.tla`

Extends the two with what is said of an assessment: the questions a user may ask,
the evidence pack, the renderer and the service. `asked` is the input of one call.

| Model | Code |
|---|---|
| `allFindings`, `Relevant`, `selectionOf`, `Items`, `packOf` | `compileEvidencePack`: the findings a question is about, with the claims and paths they name; redaction and the limit (`RedactionFails`, `MaxPackItems`) |
| `addClaimStatement`, `addSupersessionStatement`, `addFindingStatements`, `addImpactPathStatement`, `answerText`, `buildExplanation` | the renderer, which is given nothing but the pack |
| `createSyntheticEdgeCaseSuggestions`, `exactSupersessions`, `execute` | the suggestions, the corrections the assessment depends on, and the service |

Its references count in the assessment, not in the pack: `Disputes`, `Gaps`, `Counts`,
and `Concerned`, the claims a question is about. `MCReconciliation` instantiates all three.

### `DatabaseLifecycle.tla`

Processes of any builds that open one SQLite file.

| Model | Code |
|---|---|
| `file`, `draft` | the committed database, and what the open transaction sees: `user_version`, the rows of `schema_migrations`, and `applied`, the migrations whose SQL it has really been through (a history field) |
| `lock` | SQLite's writer lock |
| `Open`, `SwitchToWal`, `WalTimeout` | `new Database`, `configureConnection` |
| `BeginImmediate`, `RejectSchema`, `BusyTimeout` | `BEGIN IMMEDIATE`, and `validateCurrentSchema` on what it then reads |
| `ApplyMigration`, `RollBack`, `Commit` | the loop of `applyPendingMigrations`, its failure, the second check with the commit |
| `Stop` | `close()`, or the death of the process at any point |

### `DemoWorkspace.tla`

Composes `DatabaseLifecycle` and `ProjectLifecycle`: the demo writes the Projects and
Missions of the lifecycle with the lifecycle's own operations, and runs only while
its process has the database open.

| Model | Code |
|---|---|
| `disk` | the workspace directory: is it there, has it the ownership marker and a repository, which tree is at HEAD and in the work tree |
| `row` | the row of `demo_workspaces`, through `MATERIALIZED`, `LOADING` and `READY` with its stage |
| `pc`, `cont`, `seen` | where the one operation is that `#exclusive` lets run, and its local variables |
| `BeginSetup` ... `FinishSetup` | `setup`: reset what an earlier set-up left, `materialize`, the row, the Project and the Mission with the row that owns them, the registration, the capture, the services in between |
| `BeginCorrection` ... `FinishCorrection`, `BeginStaleness`, `FinishStaleness` | `applyCorrection`, `demonstrateStaleness` |
| `BeginReset`, `ClearRows`, `CheckOwner`, `RemoveSome`, `RemoveAll` | `#resetInternal`: the rows in one transaction, then the directory entry by entry |
| `StepFails`, `Undo`, `RemovalFails` | what each operation catches |
| `UserStep` | users' calls on Projects and Missions, the demo's too, at the awaits |
| `ServerStops`, `DatabaseStep` | the death of the process, and other processes at the same file |

`made` and `torn` are history variables.

### `ProviderAdapter.tla`

The session object behind cited explanations and any number of `execute()` calls on
it. `Admit` is the uninterrupted segment from `budgetBefore` to the call of the
transport; `Retry` is the return of the race after a failure or a time-out;
`Validate`, `Detach` and `Check` are the steps of an answer, between which the
transport may still change the object (`ChangeAnswer`). The transport is the
environment: it answers late, for another request, or never. What an answer says
is one Boolean, `sound`. Each execution falls back to the offline explanation when
its `result` is not `MOCK_ADVISORY_ACCEPTED`.

### MC and proof modules

`MCReadiness`, `MCReleasePassport`, `MCGitSnapshotCapture`, `MCEvidence`,
`MCActiveTwin`, `MCReconciliation`, `MCDemoWorkspace`, `MCProviderAdapter` and `MCCodeMapRun`
are the instances for TLC. `ProjectLifecycle` and `DatabaseLifecycle` are checked
inside `MCDemoWorkspace`, and `GitCommand` inside `MCCodeMapRun`, where their steps
meet those of the modules that use them. `CodeMapMembers` has no steps: `MCCodeMapRun`
checks it in initial states in which the run is over. `ReadinessProofs`
(with the Passport), `ProjectLifecycleProofs` (with the capture), `GitCommandProofs` (with
the run of the code map and its members), `EvidenceProofs`, `ReconciliationProofs` (with the
Twin), `TwinProjectionProofs`, `DatabaseLifecycleProofs` (with the demo workspace) and
`ExplanationProofs` (the adapter, the comparison of claims, the cited explanations) hold
the proofs.

## 3. Runs

| Run | Configuration | Shows |
|---|---|---|
| assess | `MCReadinessAssess.cfg` | two clients that retry `assess`, or one beside a view of `state`: linearizable answers, the refinement of `ReleaseHistory`, and that the history catches up |
| converge | `MCReadinessConverge.cfg` | a violation, see section 6 |
| passport | `MCReleasePassport.cfg` | `assess` and `state` against a review in flight and clocks that step back: READY only while the gate is open, answers of `state` right at one instant; competing projections converge on one Passport, and a READY Passport of an assessment that is not stale means the gate is open |
| snapshot | `MCGitSnapshotCapture.cfg` | the evidence of a snapshot is of one instant; an archived Project is frozen |
| evidence | `MCEvidence.cfg` | racing imports keep histories short chains that match the claims, and implement the ledger; racing and repeated uploads store a source once, with one event and no gap in the sequences, under a clock that is set back; readers of the timeline and of observations miss nothing; and the page that shows all this errs only when an import overtakes it |
| twin | `MCActiveTwin.cfg` | Twins projected from pages read around imports are closed, only grow, and cover the request they answer; and, while sources change, projections list exactly what a change invalidates and number members by their contents |
| twin_integrity | `MCActiveTwinIntegrity.cfg` | a violation, see section 6 |
| reconciliation | `MCReconciliation.cfg` | one revision per input, a chain that names every change, no conflict between a claim and the one it supersedes; and for the inputs of the pure functions: canonical paths, exact gaps, findings that are the clashes, and cited answers that say what the assessment says |
| workspace | `MCDemoWorkspace.cfg` | the demo over a database that an older build and foreign files meet: crashes and failed steps leave no Project without an owner and nothing of others deleted; what runs is what the ledger says; Projects stay readable; starts settle and a retried set-up completes |
| adapter | `MCProviderAdapter.cfg` | executions that share a budget and a slot, with late, wrong and changed answers: the books balance, one request at a time, the accepted answer is its own, retries follow failures, every execution settles |
| scan | `MCCodeMapRun.cfg` | a code map of a repository that moves: a map is of the commit of its snapshot and within the limits, whatever the two commands do; the fixture only by consent; a run ends; and a map of given sources has an edge for each of their links and no other, or is refused for one of five reasons |
| map_members | `MCCodeMapMembers.cfg` | a violation, see section 6 |

Bounds of Readiness and the Passport. One or two stamps per table are enough
for every order of an old, a new and a late-but-older row; `MCUtcMs` puts two
stamps into one millisecond, so that a tie broken by id and a clock behind a
snapshot both occur. In the run of the Passport either a view or the projections
observe the assessments (`observed`): they share nothing but what the others write. Two requests give every pairwise race; the third that a race
needs is one of the writers. `MaxReconciliations` bounds the reconciliation table.
The proofs need none of these bounds.

Bounds of the workspace. Two Projects, one the demo's, compete for one root and
two Missions; two times give a clock that steps back, stands still or goes on. Two
migrations and two builds, of which the older knows the first only, and files of
another application with and without a plausible version. `MaxFaults` is 1: one
crash or failed step anywhere in the demo, after which the next operation must cope;
other processes stop as often as they like. `MaxCalls` is 2: two users' calls, which
is what it takes to archive the demo's Mission and make another, or to take the
root with a Project of one's own.

Bounds of the capture. One request, because captures share nothing but the
tables that the lifecycle's own actions already change under it. One branch and
two commits give attached, detached and unborn HEADs, five in all, so that two
reads can mix into a HEAD that never was, or into none. Two states of the work
tree. `MaxSnapshots` bounds the table.

Bounds of the scan. Eight trees, one for each way `parseTree` can go: sources that
fit, one too many, one too large, too much together, a link, an unsafe path, a
binary file, nothing to read. A command writes up to three units, of which three
are kept, so that stdout, stderr or both together cross the limit. One revision of
another run races for the place in the chain. The sources of a map are some ten thousand
small programs: one import between any of four places and five files, by one of seventeen
specifiers, some of which lead up and down again or above the root, end in a slash or in a
dot, or carry a query; one import from and into a directory with the name of a file; two
statements of ten, three declarations of seven, three statements of eleven about routes, manifests of
every kind, and up to nine files that say almost nothing. The limits are so small that
each is met from both sides (13 records, 7 assets, 3 edges, keys of 9 names, labels of 3
and routes of 4), and each kind of edge, each cause of a refusal and each way to be
partial occurs.

Bounds of the adapter. Two executions, two packs that fit and one over the input
limit; the budget pays for three calls of the small pack, so that a retry and a
later execution compete for what is left. Two ids, so that two requests can carry
the same one.

Bounds of the evidence. `part` chooses what an instance explores, so that each hazard
has the actors it needs and no others. CLAIMS: two importers race; three claim
identities with `MaxDepth` 2 give a history that is full and a claim that would
overfill it. PAGE: a page of two rows, and up to three sources or two claims with a
link, imported between any two of the four requests, so that each collection may be
the one with more. UPLOADS: two uploaders of two documents, either as plain evidence or
as an observation, at two times the clock jumps between, while the Mission may be
archived: a repetition meets its first before, in and after the transaction. READS: one
uploader of four summaries, in two series, of which two end one window together; two
pages of the timeline, or a page of two observations with a third behind it. The two
refinements that the proofs add (`TimelineIsImplemented`, `HistoryIsImplemented`) are
not run: they follow from how the modules extend one another.

Bounds of the Twin. A page of one row with three claim identities lets a row be
inserted before, in and behind the pages a materialization has read; the code's
page of a hundred rows needs no other case, for the loops only tell a last page
from the others. Two materializations and two revisions give every race of
`persist`. Snapshots, code maps and validations are left to the run of the
reconciliation, where one materialization meets them. The projections start from a
Mission with nothing, or with two sources, a claim, two snapshots, a result and a code
map of two files; two changes of the sources and three projections let a file, the edge
from it and a declaration change, vanish and return, with any subset of two
declarations passed each time. Materializations and projections run in one instance,
but never both: a projection is a function of what a materialization read. A third
change, tried once with 109 thousand states, found nothing new.

Bounds of the reconciliation. One materialization, whose pages imports may split,
one snapshot, one validation; three declarations, of which two share the support
and two the roots, and three revisions, so that an input comes back when another
is the latest. The inputs of the impact analysis are all 512 Twins over nine
relationships, with a cycle and two ways of one length, times ten requirements, and
the whole Twin with one suggested relationship and any of six fixtures; a path may
have two relationships, so that a validation lies at the limit and beyond it. Pairs
of requirements have ids that differ early, nest, or share a prefix. The questions are all six, about
six sets of claims (none, two or three that disagree, a dispute that a correction settles
or opens, one correction after the other), gaps of every reason, claims that end in a secret or are too long to cite; `MaxPackItems` is 12
and `MaxInspectedLinks` 3, so that packs at and over the limit occur. The claim sets
are all pairs of 72 applicabilities (two dimensions, intervals open or closed at
either end, touching or not), all pairs of six values, and three claims in every
topology with a link too few or too many. Executions take what the
functions return as given, so they run only in the instance that asks nothing of them.

Fairness. `Fairness` of Readiness assumes that an await that resolves is
eventually run (the event loop is fair and SQLite calls return) and that each
client asks again after an answer. It does not assume that the inputs stop
changing: `CatchesUp` holds because the tables are finite in an instance, so they
do stop. `RunSpec` of the code map assumes that the run takes its next step and
that an armed timer fires; the child may hang or write for ever. `FairAdapterSpec`
assumes that timers fire and settled promises continue, and nothing of the
transport. `FairWorkspaceSpec` assumes that an operation that was let in goes on
while its process runs, that a starting process goes on starting (SQLite's own
time-outs end its waits), and, for a retried set-up, that the user keeps asking.
`StartsAndRetriesEnd` names what a retried set-up needs besides: the process stays
up, the demo's Project is left alone, and the directory is not one the demo refuses
(`Wedged`).

Deadlock is checked except in the runs in which the system really stops: in
`evidence`, `twin` and `reconciliation` the identities run out and every request was
answered; in `scan` the run is over; in `adapter` every execution has settled; in
`workspace` the file may be another application's, which every process refuses.

## 4. Proofs

`ReadinessProofs.tla` proves, for every set of requests, keys and stamps:
`TypeCorrect`, `AssessIsLinearizable`, `ViewIsLinearizable`, `ReadyWasOpen` and
`Refinement`. They rest on the assumptions of `Readiness` (`StampsOrdered`: every
non-empty set of stamps has a newest; `RequestKindsDisjoint`).

The inductive invariant `IInv` adds to the properties: what each request has read
lies in the past of the tables (`PastOK`); what was stored when a request began
precedes its start, and what it reads since does not (`OrderOK`). Rows are only
added, so every "latest" moves forward whatever the clock does
(`LatestMonotone`), and a state that has passed cannot return (`NoReturn`).
Linearizability then follows by a sandwich: a stored state that a request reads
again is at most its start, and its reads are at least its start.

Every step is of one of five kinds (`StepKinds`): it moves no request, or one
request begins, reads, advances or answers. Each kind has one lemma
(`UnmovedKept`, `BeginsKept`, `ReadsKept`, `AdvancesKept`, `AnswersKept`).

Of the Passport it proves `PassportsAreShared` and `ReadyPassportIsTrue` for
any requests, keys and stamps. `PInv` adds to the `IInv` of Readiness that a Passport
reproduces the status of a stored assessment (`Reproduces`) and that an assessment
that is READY and of the inputs of this moment means an open gate
(`ReadyStaysOpen`), which every writer keeps: it leaves the inputs as they are, or
makes them others.

`ProjectLifecycleProofs.tla` proves `LifecycleTypeCorrect`, `AlwaysReadable` and
`MissionsAreOrdered` for any ids, roots and times, from `TimesAreNat` (times can be
compared). The three properties are inductive together: that a Project is
readable is what lets `NotBefore` order a new Mission after the old ones. There is
one lemma per operation.

Of the capture it proves `CapturesSeeOneInstant`, `ArchivedStaysFrozen` and
`CaptureImplementsLifecycle` for any requests, branches and commits: a capture or a
preflight is a stutter of the lifecycle or one of its registrations, so that what is
proved of the lifecycle holds beside captures. `EvidenceOfOneInstant` is not inductive,
because it speaks of snapshots only, when all has been read. `CaptureInv` says what a
request has read while it reads (`ReadsAreCut`): as long as HEAD has not moved, its reads
show the HEAD that is there; after one move there is a cut among the six reads, before
which they show the old HEAD and after which the new one. When the reads before and
after the status command agree, a cut between them would have to be between two equal
HEADs, so the status command read the HEAD that is stored. After two moves nothing is
claimed, which is the exception that the property names (`restored`).

`GitCommandProofs.tla` proves `CommandTypeCorrect`, `SuccessWasWhole`,
`NoChildStrays` and `DecisionStands` for any limit and any output, from
`LimitsAreNat`. The invariant says what the counters mean while the promise is
open (`OpenOK`: all that was delivered is kept, no signal was sent) and lists the
reasons it may have been settled for (`SettledOK`).

Of the run it proves `MapsAreOfTheirSnapshots` and `RunCommandsAreWhole`, for any trees and
limits, from `TreeAssumption` and `ScanLimitsAreNat` besides. `RunInv` adds to the
invariant of the command what each phase may rely on: a listing that is parsed came from a
child that exited with 0 and wrote the whole tree (`TreeOK`), so the blobs are all there
are to read and within the limits (`BlobsOK`); the objects were delivered one and all
(`ExtractOK`), so the sources are those of the commit (`SourcesOK`); a failure goes on
only with consent and a code of the list (`FallbackOK`); the second capture was equal to
the first (`AfterOK`). Each of these hands over to the next, and `MapIsOfItsSnapshot` alone
speaks of the last.

Of the members it proves `MembersCorrect`, that is `MembersAreExact`, for any finite tree of
files with any statements, from `SourcesAssumption` (paths are safe, statements are what the
compiler may parse) and `LimitAssumption`. The argument is an invariant of `posix.normalize`
(`LedTo`): after n names the base is as long as the trail is deep, and holds at each depth the
name that entered it last, once the trail has not left the root; when it has, the base begins
with `..` for good. One lemma says so of the directory, whose names all lead down
(`DirectoryLeads`), one of a further name, which leads down, up or nowhere (`NameLeadsOn`); so `Place` is the base
(`PlaceIsLed`), the candidates are the paths that are named (`CandidatesAreNamed`), and a specifier is
resolved to what it means, or to nothing (`ResolvedIsMeant`). The edges are then the links
of the sources, kind by kind (`ImportsAreLinks`, `ReexportsAreLinks`, `TestImportsAreLinks`).
For the refusals, two members of one key are of one kind, which their key says first
(`AssetTags`, `EdgeParts`), and differ only when two statements say the same or one contract
has two names (`ImportsCollide`, `ReexportsCollide`, `ContractsCollide`, `RoutesAreApart`); an edge
that leads back is of a statement that names its own file (`EdgesLeadOut`); and what is left
is a limit (`RefusedForAReason`), for which the members have to be finitely many.

`EvidenceProofs.tla` proves, for any importers, uploaders, documents, identities, depth,
clock and length of a page, from `IdAssumption` (0 is no identity), `DepthAssumption`
and `TimelineAssumption`: of the history `HistoryTypeCorrect` and `LedgerIsImplemented`;
of the timeline `ClaimsStayChained`, `ImportsRecorded`, `ReadersAreServed` and
`HistoryIsImplemented`; of the page `PagesAreHonest` and `TimelineIsImplemented`. So the
page implements the timeline, the timeline the history, and the history the ledger.

`HistoryInv` adds to the properties of claims that every prepared import is still
supported (`PreparedIsSupported`). The argument for it, and for the depth, is
`OldHistories`: a new claim is the successor of no stored link, so no history of
a stored claim grows; a path from it visits stored claims only, which needs no
induction. So the depth that was read before the transaction is still right in it.
`EvidenceInv` says besides what the tables mean to each other (`TablesOK`: the sequences
are `1 .. n`, in which the maximum is the count; `ObservedOK`), to an upload
(`UploadsOK`: of all uploads that were told that they created a source, no two name the
same) and to a reader (`ReaderOK`: what has been read is what lies up to the cursor; a
newest observation stays one against the rows that were read first). `PageOK` says that
what was received was whole at some moment since the load began, unless it has more;
tables only grow, so a name that is missing was imported since.

`DatabaseLifecycleProofs.tla` proves `DbTypeCorrect`, `MigratedCorrect` (of its parts
`HistoryCorrect` and `OpenCorrect`), `RefusalCorrect` and `ForwardCorrect` for any processes and plans, from
`PlanAssumption`, `ForeignAreNat` and `NoProcessIsNone`. The invariant adds what the
holder of the lock knows: nobody else writes, so its draft continues the file, and
the file's history was checked against its own plan. That two plans may differ is
the point: `Begins` is transitive along one history, so a process that serves stays
current when a newer build goes on, and a refusal cannot be undone.

Of the demo it proves `SetupCorrect`, `OthersAreSpared` and `WorkspaceImplementsDatabase`
for any Projects, Missions, roots, times and numbers of faults and calls, from
`ServerAndRoot` and `TimesAreNat` besides. A READY row is written at the end of an operation whose steps
lie far back, and between which users act and the process may die; `WorkspaceInv` says
for each place what is behind it (`PlaceOK`): where the row is gone, where the directory,
its marker and its repository are there, from where on the Project and Mission that the
row names exist (`ScopeThere`) and the root is taken. A user may archive the
demo's Mission or Project, but rows are never deleted by one. `OwnsOK` is what makes `SetupIsWhole`
true of Projects: what the demo made is what its row owns, because both are written in
one transaction. A step of the demo leaves the database file alone, or is one of the
process that serves.

`ExplanationProofs.tla` proves of the adapter `AdapterTypeCorrect`, `SessionCorrect` (of its parts
`BudgetCorrect` and `SlotCorrect`),
`AdvisoryCorrect` and `RetryCorrect` for any executions, packs, limits and number
of retries, from `LimitsAssumption`. The invariant says who holds the slot: at most
one execution is in flight, so what the session consumed since its admission is its
own charge.

Of the comparison of claims it proves `FindingsCorrect`: for every set of claims in
`ClaimSets`, of any size and with any dimensions, values and times, `FindingsAreTheClashes`. `ClaimSetAssumption` says of the sets
that they are finite and their claims such as `normalizeClaimApplicability` lets through
(an interval ends after it begins), and of `Instants`, with which circumstances are
described, that they contain those at which claims begin and one before. Two claims that
are not kept apart apply together at the later of their beginnings (`OverlapHasCircumstance`).
That each claim speaks through one active claim rests on the lines of supersession:
`Onward` and `Lineage` are recursive, so that what they compute is first unfolded
(`OnwardSteps`, `LineageSteps`, from `Iterates`, which shows by a least counterexample that such a
sequence exists). A claim that led to no active one would have a path of as many steps
as there are claims (`SomeActive`); two ways on from one claim stay together because no
claim has two successors (`OneActive`).

Of the cited explanations it proves `ExplanationsCorrect`, that is `ExplanationsAreExact`, for any
assessment that `Askable` admits: a finite claim set that was reconciled and a finite set of
requirements that was analysed without an error. `NodesAreFinite` is assumed, that a Twin has
finitely many nodes. The renderer counts statements and items, the property counts claims and
requirements, and the proof is that one are made of the other one for one: a finding of each
disputed pair (`FindingsArePairs`, from the comparison above), of each missing support and of
each requirement with a gap, because no two have the same id (`DisputesAreCounted`,
`SupportIsCounted`, `GapsAreCounted`); a statement and an action of each finding, since of
all findings a statement cites only its own (`OneFindingCited`). That an answer is given at all is that
the pack holds whatever an item of it names (`PackResolves`), and that its claims are claims
the question is about (`ClaimsAreConcerned`).

Of the impact analysis it proves `AnalysisCorrect`, that is `AnalysisIsExact`, for every input of
`ImpactInputs`, any Twin that is accepted and any depth, from `TraversalAssumption`, `NodeTypesDisjoint`,
`NodesAreFinite` and `NoResultIsNone` (the mark of a path without a result is no result). The
invariant of the search, `SearchInv`, speaks of the queue when its i-th state has tried m of its
edges. The queue holds each node once, by a walk, and is in the order of preference: by length,
and then by the first edge that differs (`InOrder`). For every edge that was tried, it holds the end
of the edge by a walk that is no later than the one through that edge (`EndsHeld`); without this part a
first arrival could not be shown to be the best one. One lemma shows that it begins so, one for an edge whose end
is known, one for an edge that discovers a node, and one for a turn (`SearchBegins`, `AlreadyDiscovered`,
`NewlyDiscovered`, `TurnKeeps`). A new walk comes after all that are queued, because each of those is a
walk through an edge that was tried earlier (`ByTriedEdges`, `NewIsLast`). The queue holds no
node twice, so that it has no more turns than there are nodes (`QueueIsShort`, `SearchEnds`), and
then every walk within the depth, edge by edge, ends at a node the queue holds by a walk that is no
later (`WalksAreFound`), which makes it the canonical one (`PathIsCanonical`). `Searched`, `Discovered` and
`WalksUpTo` are recursive functions, unfolded like `Onward` above (`SearchedByTurn`,
`DiscoveredByTurn`, `WalksByTurn`). The paths of an analysis are then walks, so that they pass its
own check, and its ids stay in order unless they nest (`PathsAreIntact`, `EntryFollowsId`). The
gap of each requirement is read off case by case (`OutcomeKinds`, `ValidationKinds`, `RequirementGap`): a
walk to a result is a walk to the asset and one validation of it, which the canonical path also has,
since it is no longer (`WayIsLinked`).

`ReconciliationProofs.tla` proves `TwinsLoseNothing`, `AnswersAreCurrent`,
`RefusalsAreExplained` of the Twin, and
`InputsReconciledOnce`, `StaleIsAChange` and `ConflictsStand` of the reconciliation,
for any requests, identities, declarations and length of a page, from the
assumptions of the modules (`IdAssumption`, `IdsHaveGreatest`, `PageAssumption`,
`BoundsAssumption`, `DeclarationAssumption`). `TwinIInv` says of the sources that
every row names rows that are there, of the Twins that each was projected from rows
that are stored, and of a request what its pages hold: all that was stored when it
began up to its cursors (`PagesOK`), with validations no older than those of its predecessors. Tables only grow, so each of these is stable under the writers
(`SourcesGrow`, `TwinsExtend`), and there is one lemma per step of a request.
`ReconciliationIInv` adds that every revision is about a Twin that exists, and that
the Twin an execution reads is whole, which stays so because its rows never change.

`TwinProjectionProofs.tla` proves `RevisionsAreTrue`, that is `RevisionsAreHonest`, for any
sources, maps, declarations and length of the chain, from `StoredBeforeAssumption`, `ResultsHaveSources`
and `AssetMapsAssumption` (the edges of a map have ids of their own and lie between its
assets). `ChainInv` adds to the two properties what a projection may rely on of its
predecessor: it was projected from sources that what is stored now came after (`LastOK`:
sources are only added, but for the map and the latest results, which are replaced), its
members and bindings are well formed and each numbered from the one before (`TwinsOK`), and
numbers never fall along the chain, nor stand still while the digest changes (`NumbersName`).
The exactness of invalidations then needs a fact about graphs: what the queue `Reached`
collects is closed under the bindings and all of it is reached, and, since the bindings
of a Twin are of few kinds, what is reached can be said without a path.
The argument has three parts: the causes are those nodes that changed or vanished (`CausesAre`),
each listed with all it concerned (`ListIsExact`), and a member that neither is a cause nor
rests on one keeps its revision (`RestIsSpared`).

Each inductive invariant was checked by TLC on the instance of its run before it was proved:
`CaptureInv` on 2,379,174 states, `RunInv` on 711,304, `WorkspaceInv` on 393,232, `ChainInv`
on all 19,540 of the projections, with the witness of `LastOK` rebuilt from the last twin.
The first attempts were not inductive, and TLC's counterexamples showed what was missing.

Left to TLC: liveness (`CatchesUp`, `RunEnds`, `StartsAndRetriesEnd`,
`EveryExecutionSettles`), which is out of the prover's reach. Every other property that a
passing run checks is proved.

## 5. Not modelled

In the components above: hydration checks that re-validate an immutable row (they
read nothing mutable), paging, formatting, and the parsing of Git's output.
`READINESS_EXECUTION_SNAPSHOT_MISSING` cannot be reached: a reconciliation names
a stored snapshot by foreign key. The blockers on scope, integrity, authority,
persistence and freshness cannot be raised by the service, which passes
constants. `POST .../assess` is `assess` followed by `state`, both modelled; the state of
a Passport is the `state` request on its revision.

HEAD that is moved away and back between two commands is not seen by
`sameEvidence`: `EvidenceOfOneInstant` states exactly this exception, and holds
otherwise.

Of evidence and claims: what documents are parsed, normalised and redacted to, and the
pages of sources and claims, which are those of the Twin. In the executions claims all share one comparison key and one applicability,
so that any two of them with different values conflict; `ClaimComparison` has the
rest. Of the Twin: the reads of members and revisions, and the limits on the numbers
of members. Of the reconciliation: `EVIDENCE_SOURCE` requirements, which are
`VALIDATION_RESULT` requirements over another collection. Of the impact analysis:
the digests it is sealed with, the dependencies it copies from the reassessment,
and its limits on the numbers of nodes and paths.

Of the code map: parsing. Statements are given as the TypeScript compiler parses them, in a
run their outcome is (`Extract`), names are never too long, differ in more than their case, and the budget counts neither syntax nodes nor dependencies.
Nor `scanCodeMapRoot`, which reads a directory instead of a
commit and is reached only by tests and tools. Of the adapter: what an answer says
(text, schema, citations, usage), and the evaluation checkpoint. Of the offline
explanation and its evidence pack: wording, digests and byte counts. Of
the database: the triggers and tables of each migration, which are SQL text. Of the
demo: the documents it imports, whose claims and reconciliation are those of the
modules above. HTTP routes, schemas, logging and the scripts keep no state that another component
reads. Of the web client, all pages but the Linked Evidence page.

## 6. Findings

`ConcurrentConverge` is violated: docs/development/TESTING.md:575 says that
concurrent requests of the same input converge on one assessment, but a request
that passes the look-up of `persistAssessment` before its competitor commits
fails in `assertReadinessAssessmentInvariant` with `READINESS_STORAGE_FAILED`.

`IntegrityErrorMeansCorruption` is violated: docs/api/API_REFERENCE.md:32 keeps 500
`INTEGRITY_ERROR` for a stored history that fails its verification, but
`materialize` answers it when an import commits between two of its pages, with
nothing damaged. The run `twin` shows how far this goes: only while a collection
has more than one page (`RefusalsHaveCause`), and never to a revision that
is not closed (the action `Project` requires `Closed`).

`SourcesAreNoFailure` is violated: docs/api/API_REFERENCE.md:33 keeps 500
`INTERNAL_ERROR` for a storage or service failure, and :250 says that static limits are
conflicts. But the key of an edge does not tell two statements apart, so that a program
in which one file imports its neighbour twice (a type and a value, say) has two edges of
one key, which `buildEdges` refuses, and the run answers 500 for as long as the program is
so. `MembersAreExact` lists what else is refused this way: a re-export that is repeated, a
file that imports itself, a contract exported under two names, and whatever is over a
limit of the projection rather than of the extraction.

Further observations. They are reported here only, because no run of a single property
shows a sentence of a document to be false:

`analyzeChangeImpact` sorts its paths and findings by requirement id and then by key
(`impact-analysis.ts:1280`), but the check of its own result compares the joined
strings `requirementId:key` (1769, 1848). A requirement whose id extends another's by
a character that sorts before the separator, or by a colon and a word before
`sha256` (`release:core` and `release:core:implementation`), is ordered differently
by the two, and the analysis of a well-formed request ends in
`IMPACT_INTEGRITY_INVALID`. `GapsAreExact` is stated for ids of which none extends
another; `resultIntact` models the check as it is.

Only the canonical path to an asset is looked at: a shorter way through a fixture
hides a longer one that is trusted, and the requirement has a gap. This is the policy
of docs/product/TRUST_MODEL.md:124, and `GapsAreExact` states it.

A claim whose text ends in a secret assignment, even one already redacted, swallows the
quote that closes it when the JSON of its pack item is redacted (`evidence-pack.ts:298`,
with the pattern of `evidence-import.ts:188`). What is left is no JSON, and every question
that rests on the claim ends in `CITED_EXPLANATION_INTEGRITY_INVALID`, where README.md:83
promises the deterministic explanation. A pack over its limit ends in the same code,
not in one that names the limit. `QuestionsAreAnswered` names both exceptions.

When an import commits between the four requests of the Linked Evidence page, the page
shows `INTEGRITY ERROR` of evidence that is whole, for which
docs/product/USER_GUIDE.md:216 advises to restore a trustworthy database; a retry is all
that is needed. `PageIsHonest` states that nothing else brings it about.

A summary that was imported as plain evidence before its window ended can never become a
runtime observation: the source is reused with its first `recorded_at_utc`, which the
table refuses (`007-runtime-observations.ts:43`), at every repetition (`Attachable`). A
repetition that does make the observation is answered `created: false`, of the source.
When the clock is set back between `createEvidenceSource` and a competing transaction, the
order of sequences and that of `occurredAtUtc` differ; only the first is promised.

The only causes that a Twin ever lists are its Project, its Mission, a file of the code
map and a replaced validation result: evidence, claims and snapshots are never changed
nor deleted, and a relationship, on which nothing depends, is never a cause. So the
following pass without an invalidation (`Replaced` in `InvalidationsAreExact`): a semantic
relationship that the next plain `materialize` drops, since only the demo's correction
passes any; and the relationships of a code map, all of which a new run renumbers or
replaces, because their attribution has its time. A file that vanishes and returns starts
at revision 1 again, with contents that may be others than revision 1 had before
(`RevisionsNameContents` is stated for members that stay); its digest tells them apart.

A route of 257 to 512 characters is too long for the label of its asset, and the whole map is
refused, while a longer one is only left out (`OmittedRoutes`), and the map is partial.
An import of ".." that leads to the root never resolves, because the root is not a safe
path, nor does "./x.js" where the file is x.ts: a map of sources that write their
extensions, as this repository does, has no edge for them. Nor does any specifier that ends
in a slash ("./", "../", "./b/"), whose base keeps the slash and so has an empty
segment, which `safeRelativePath` refuses (`code-map-extractor.ts:276`), while "." and "./b" resolve
to the same index; nor what leads to a directory named like a file (`b.js/index.ts`). A
program may write all four, and its map has a link too few without a diagnostic.
`Names` states each of them, so that `MembersAreExact` says that these, and no others, are missing.

## 7. Plan

Done: the readiness core with its Passport, the Project lifecycle, the snapshot
capture, the Git command and the code map with its members over it, the evidence, its claims, its timeline
and the page that shows them, the Twin with its projection and the reconciliation with its comparison of
claims, its impact analysis and the cited answers about it, the database lifecycle and the
demo workspace over it, the provider adapter. Next, the most important first:

1. `Readiness` composed with `Reconciliation`: a release gate over reconciliations
   that name the Twin they are of, and what new claims after READY mean for it.
2. The reassessment of a reconciliation in full.
3. The other pages of the web client, which load and compare as the evidence page does.
