--------------------------- MODULE DemoWorkspace ---------------------------
(***************************************************************************)
(* The controlled demo of one API process: a generated Git repository on   *)
(* disk, a row of demo_workspaces, and a Project that the demo creates,    *)
(* drives and deletes among the Projects of users.  Disk and database      *)
(* change one after the other, and the process may die between any two     *)
(* steps.  The module composes the opening of the database file and the    *)
(* Projects and Missions stored in it.                                     *)
(***************************************************************************)
EXTENDS DatabaseLifecycle, ProjectLifecycle

CONSTANTS
    Server,      \* the process that listens: another one finds the port taken
    DemoRoot,    \* the generated repository's root
    MaxFaults,   \* bound on the crashes and failed steps of the demo
    MaxCalls     \* bound on what users do to Projects and Missions

ASSUME ServerAndRoot == Server \in Processes /\ DemoRoot \in Roots

ASSUME BoundsAreNat == MaxFaults \in Nat /\ MaxCalls \in Nat

VARIABLES
    disk,     \* the workspace directory
    row,      \* demo_workspaces
    made,     \* history: the Projects there are that the demo created
    pc,       \* where the operation that #exclusive lets run is
    cont,     \* what follows a removal: "materialize" or "idle"
    seen,     \* the committed tree of the snapshot just captured
    torn,     \* history: rows were deleted and the directory was left
    faults,   \* failures still to come
    calls     \* calls of users still to come

local == <<pc, cont, seen>>
demoVars == <<disk, row, made, local, torn, faults>>
workspaceVars == <<dbVars, lifecycleVars, demoVars, calls>>

Unborn == {"no commit"}

\* A tree is known by the changes it has over the initial revision, a subset
\* of {"correction", "stale"}.
NoDisk == [root |-> FALSE, marker |-> FALSE, git |-> FALSE, head |-> Unborn, work |-> {}]

NoRow == [status |-> "NONE"]

DemoInit ==
    /\ disk = NoDisk
    /\ row = NoRow
    /\ made = {}
    /\ pc = "idle"
    /\ cont = "idle"
    /\ seen = {}
    /\ torn = FALSE
    /\ faults = MaxFaults
    /\ calls = MaxCalls

WorkspaceInit == DbInit /\ LifecycleInit /\ DemoInit

-----------------------------------------------------------------------------
Goto(label) == pc' = label

\* assertMaterialized
Materialized == disk.root /\ disk.marker /\ disk.git

Running == phase[Server] = "open"

NoTables == UNCHANGED <<row, made, lifecycleVars>>

(***************************************************************************)
(* #resetInternal: the rows first, in one transaction, then the directory. *)
(***************************************************************************)
Without(table, keys) == [k \in DOMAIN table \ keys |-> table[k]]

\* The demo's Project with all that is scoped to it, and the row.
DeleteScope(p) ==
    LET ms == missionsForProject(p)
    IN  /\ projects' = Without(projects, {p})
        /\ project_revisions' =
              Without(project_revisions, {k \in DOMAIN project_revisions : k[1] = p})
        /\ missions' = Without(missions, ms)
        /\ mission_revisions' =
              Without(mission_revisions, {k \in DOMAIN mission_revisions : k[1] \in ms})
        /\ repositories' = Without(repositories, {p})

\* Mutant: every Project goes.
ClearRows_AllProjects(then) ==
    /\ IF row = NoRow \/ row.status = "MATERIALIZED"
       THEN UNCHANGED lifecycleVars ELSE
          /\ projects' = <<>> /\ project_revisions' = <<>>
          /\ missions' = <<>> /\ mission_revisions' = <<>>
          /\ repositories' = <<>>
    /\ row' = NoRow
    /\ torn' = disk.root
    /\ Goto("remove")
    /\ cont' = then
    /\ made' = made \cap DOMAIN projects'
    /\ UNCHANGED <<disk, seen, faults>>

ClearRows(then) ==
    /\ IF row = NoRow \/ row.status = "MATERIALIZED"
       THEN UNCHANGED lifecycleVars ELSE DeleteScope(row.project)
    /\ row' = NoRow
    /\ torn' = disk.root
    /\ Goto("remove")
    /\ cont' = then
    /\ made' = made \cap DOMAIN projects'
    /\ UNCHANGED <<disk, seen, faults>>

\* RetailDemoMaterializer.reset: only a directory with the marker is removed.
CheckOwner ==
    /\ pc = "remove"
    /\ Goto(CASE ~disk.root                -> cont
              [] disk.root /\ disk.marker  -> "removing"
              [] disk.root /\ ~disk.marker -> "idle")
    /\ UNCHANGED <<disk, cont, seen, torn, faults>> /\ NoTables

\* rmSync on its way: entries go in the order of the directory.  It shows only
\* when a failure is still to come.
RemoveSome ==
    /\ pc = "removing"
    /\ faults > 0
    /\ disk' \in {[disk EXCEPT !.marker = FALSE],
                  [disk EXCEPT !.git = FALSE, !.head = Unborn, !.work = {}],
                  [disk EXCEPT !.head = Unborn]}
    /\ UNCHANGED <<local, torn, faults>> /\ NoTables

RemoveAll ==
    /\ pc = "removing"
    /\ disk' = NoDisk
    /\ torn' = FALSE
    /\ Goto(cont)
    /\ UNCHANGED <<cont, seen, faults>> /\ NoTables

-----------------------------------------------------------------------------
(***************************************************************************)
(* setup                                                                   *)
(***************************************************************************)
\* Mutant: a setup that finds another's row reports a conflict.
BeginSetup_Conflict ==
    /\ pc = "idle"
    /\ row = NoRow
    /\ Goto("materialize")
    /\ UNCHANGED <<disk, cont, seen, torn, faults>> /\ NoTables

\* A row that is not READY is what an earlier setup left: it is reset first.
BeginSetup ==
    /\ pc = "idle"
    /\ \/ /\ row = NoRow
          /\ Goto("materialize")
          /\ UNCHANGED <<disk, cont, seen, torn, faults>> /\ NoTables
       \/ /\ row # NoRow
          /\ row.status # "READY"
          /\ ClearRows("materialize")

\* materialize: a directory that is there must be the demo's own; without a
\* repository in it, it is removed and made again.
Materialize ==
    /\ pc = "materialize"
    /\ \/ ~disk.root /\ Goto("mkdir") /\ UNCHANGED cont
       \/ Materialized /\ Goto("insert") /\ UNCHANGED cont
       \/ disk.root /\ disk.marker /\ ~disk.git /\ Goto("removing") /\ cont' = "materialize"
       \/ disk.root /\ ~disk.marker /\ Goto("idle") /\ UNCHANGED cont
    /\ UNCHANGED <<disk, seen, torn, faults>> /\ NoTables

DiskStep(at, next, new) ==
    /\ pc = at
    /\ disk' = new
    /\ Goto(next)
    /\ UNCHANGED <<cont, seen, torn, faults>> /\ NoTables

MakeDirectory == DiskStep("mkdir", "marker", [disk EXCEPT !.root = TRUE])
WriteMarker   == DiskStep("marker", "init", [disk EXCEPT !.marker = TRUE])
InitGit       == DiskStep("init", "commit", [disk EXCEPT !.git = TRUE])
CommitInitial == DiskStep("commit", "insert", [disk EXCEPT !.head = {}])

InsertRow(t) ==
    /\ pc = "insert"
    /\ row' = [status |-> "MATERIALIZED", created |-> t]
    /\ Goto("project")
    /\ UNCHANGED <<disk, made, cont, seen, torn, faults, lifecycleVars>>

\* Ids are random: any that is free will do.
Fresh(ids, used) == CHOOSE id \in ids : id \notin used

\* The Project and the row that owns it, in one transaction.
CreateDemoProject(t, u) ==
    LET p == Fresh(Projects, DOMAIN projects)
    IN  /\ pc = "project"
        /\ DOMAIN projects # Projects
        /\ createProject(p, t)
        /\ row.created <= u
        /\ row' = [status |-> "LOADING", created |-> row.created, project |-> p]
        /\ made' = made \cup {p}
        /\ Goto("mission")
        /\ UNCHANGED <<disk, cont, seen, torn, faults>>

CreateDemoMission(t, u) ==
    LET m == Fresh(Missions, DOMAIN missions)
    IN  /\ pc = "mission"
        /\ DOMAIN missions # Missions
        /\ createMission(row.project, m, t)
        /\ row.created <= u
        /\ row' = [status |-> "LOADING", created |-> row.created, project |-> row.project,
                   mission |-> m]
        /\ Goto("register")
        /\ UNCHANGED <<disk, made, cont, seen, torn, faults>>

RegisterDemoRoot ==
    /\ pc = "register"
    /\ register(row.project, DemoRoot)
    /\ Goto("capture")
    /\ UNCHANGED <<disk, row, made, cont, seen, torn, faults>>

-----------------------------------------------------------------------------
(***************************************************************************)
(* The services the operations call.  Evidence, claims, code map, Twin,    *)
(* reconciliation and assessment all run on the Project's current Mission; *)
(* of what they store only the snapshot's tree matters here.               *)
(***************************************************************************)
ScopeIsLive ==
    /\ projects[row.project].status = "ACTIVE"
    /\ missions[row.mission].status = "CURRENT"

CaptureHead(at, next) ==
    /\ pc = at
    /\ ScopeIsLive
    /\ disk.head # Unborn
    /\ seen' = disk.head
    /\ Goto(next)
    /\ UNCHANGED <<disk, cont, torn, faults>> /\ NoTables

Captures == CaptureHead("capture", "finish") \/ CaptureHead("recapture", "finishfix")

Advance(t, new) ==
    /\ ScopeIsLive
    /\ row.created <= t          \* CHECK (updated_at_utc >= created_at_utc)
    /\ row' = new
    /\ Goto("idle")
    /\ seen' = {}
    /\ UNCHANGED <<disk, made, cont, torn, faults, lifecycleVars>>

\* The assessment is BLOCKED, and the workspace READY.
FinishSetup(t) ==
    /\ pc = "finish"
    /\ Advance(t, [status |-> "READY", created |-> row.created, project |-> row.project,
                   mission |-> row.mission, stage |-> "INITIAL_BLOCKED",
                   initial |-> seen, corrected |-> {}])

(***************************************************************************)
(* applyCorrection and demonstrateStaleness                                *)
(***************************************************************************)
BeginCorrection ==
    /\ pc = "idle"
    /\ row.status = "READY"
    /\ row.stage = "INITIAL_BLOCKED"
    /\ Materialized
    /\ Goto("edit")
    /\ UNCHANGED <<disk, cont, seen, torn, faults>> /\ NoTables

WriteCorrection == DiskStep("edit", "stage", [disk EXCEPT !.work = @ \cup {"correction"}])

\* Mutant: the correction is staged and its commit left to a later call.
CommitCorrection_OnlyStaged == DiskStep("stage", "recapture", disk)

\* git add --all, and a commit unless nothing is staged.
CommitCorrection == DiskStep("stage", "recapture", [disk EXCEPT !.head = disk.work])

FinishCorrection(t) ==
    /\ pc = "finishfix"
    /\ Advance(t, [row EXCEPT !.stage = "CORRECTED_READY", !.corrected = seen])

BeginStaleness ==
    /\ pc = "idle"
    /\ row.status = "READY"
    /\ row.stage = "CORRECTED_READY"
    /\ Materialized
    /\ disk' = [disk EXCEPT !.work = @ \cup {"stale"}]
    /\ Goto("recheck")
    /\ UNCHANGED <<cont, seen, torn, faults>> /\ NoTables

\* A new snapshot is a new input: what was READY is STALE.
FinishStaleness(t) ==
    /\ pc = "recheck"
    /\ Advance(t, [row EXCEPT !.stage = "READY_STALE"])

BeginReset == pc = "idle" /\ ClearRows("idle")

-----------------------------------------------------------------------------
Loading ==
    {"mkdir", "marker", "init", "commit", "insert", "project", "mission", "register",
     "capture", "finish"}

Transitions == {"edit", "stage", "recapture", "finishfix", "recheck"}

\* What a step finds may refuse it, without any failure of the machine.
Refused ==
    \/ pc = "register" /\ \E p \in DOMAIN repositories : repositories[p] = DemoRoot
    \/ pc \in {"capture", "finish", "recapture", "finishfix", "recheck"} /\ ~ScopeIsLive
    \/ pc \in {"capture", "recapture"} /\ disk.head = Unborn

\* setup catches and resets; the others leave everything as it is.
StepFails ==
    /\ pc \in Loading \cup Transitions
    /\ \/ Refused /\ UNCHANGED faults
       \/ ~Refused /\ faults > 0 /\ faults' = faults - 1
    /\ Goto(IF pc \in Loading THEN "undo" ELSE "idle")
    /\ UNCHANGED <<disk, cont, seen, torn>> /\ NoTables

Undo == pc = "undo" /\ ClearRows("idle")

RemovalFails ==
    /\ pc = "removing"
    /\ faults > 0
    /\ faults' = faults - 1
    /\ Goto("idle")
    /\ UNCHANGED <<disk, cont, seen, torn>> /\ NoTables

-----------------------------------------------------------------------------
DemoStep ==
    \/ CheckOwner \/ RemoveSome \/ RemoveAll
    \/ Materialize \/ MakeDirectory \/ WriteMarker \/ InitGit \/ CommitInitial
    \/ \E t \in Times :
          \/ InsertRow(t) \/ FinishSetup(t) \/ FinishCorrection(t) \/ FinishStaleness(t)
          \/ \E u \in Times : CreateDemoProject(t, u) \/ CreateDemoMission(t, u)
    \/ RegisterDemoRoot \/ Captures
    \/ WriteCorrection \/ CommitCorrection
    \/ StepFails \/ Undo \/ RemovalFails

DemoCall == BeginSetup \/ BeginCorrection \/ BeginStaleness \/ BeginReset

\* Users act on their Projects, and on the demo's, between the awaits.
UserStep ==
    /\ pc \in {"idle", "capture", "finish", "recapture", "finishfix", "recheck"}
    /\ calls > 0
    /\ calls' = calls - 1
    /\ LifecycleNext
    /\ repositories' # repositories => disk.git
    /\ UNCHANGED demoVars

\* A death of the serving process, wherever its operation is.
ServerStops ==
    /\ Running
    /\ Stop(Server)
    /\ \/ pc = "idle" /\ UNCHANGED faults
       \/ pc # "idle" /\ faults > 0 /\ faults' = faults - 1
    /\ Goto("idle")
    /\ cont' = "idle"
    /\ seen' = {}

\* Any process opens and closes the file; the demo dies with its own.
DatabaseStep ==
    /\ \/ DbNext /\ (Running => Running') /\ UNCHANGED <<local, faults>>
       \/ ServerStops
    /\ UNCHANGED <<disk, row, made, torn, calls, lifecycleVars>>

WorkspaceNext ==
    \/ Running /\ (DemoCall \/ DemoStep) /\ UNCHANGED <<dbVars, calls>>
    \/ Running /\ UserStep /\ UNCHANGED dbVars
    \/ DatabaseStep

WorkspaceSpec == WorkspaceInit /\ [][WorkspaceNext]_workspaceVars

\* An operation that was let in goes on; a user keeps pressing the button; and
\* a process that starts goes on starting.
FairWorkspaceSpec ==
    /\ WorkspaceSpec
    /\ WF_workspaceVars(Running /\ DemoStep /\ UNCHANGED <<dbVars, calls>>)
    /\ SF_workspaceVars(Running /\ BeginSetup /\ UNCHANGED <<dbVars, calls>>)
    /\ \A p \in Processes : WF_workspaceVars(Start(p) /\ DatabaseStep)

-----------------------------------------------------------------------------
\* A workspace shown as READY has behind it everything it names, whatever
\* crashed before and whatever users did: its Project and Mission, the
\* registered repository on disk, and, from the correction on, the correction
\* in the commit that was assessed.  While blocked it shows the initial
\* revision, unless an earlier removal deleted the rows and died before it had
\* deleted the directory.
ReadyIsWhole ==
    row.status = "READY" =>
        /\ row.project \in DOMAIN projects
        /\ row.mission \in missionsForProject(row.project)
        /\ repositories[row.project] = DemoRoot
        /\ Materialized /\ disk.head # Unborn
        /\ row.stage = "INITIAL_BLOCKED" => torn \/ row.initial = {}
        /\ row.stage # "INITIAL_BLOCKED" =>
              "correction" \in row.corrected /\ row.corrected = disk.head
        /\ row.stage = "READY_STALE" => "stale" \in disk.work

\* No crash leaves a Project of the demo that no row owns: nothing could ever
\* delete it again, and the root it registered would stay taken.
NoOrphanProject ==
    \A p \in made :
        row.status \in {"LOADING", "READY"} /\ row.project = p

\* Whatever crashed, a READY workspace has all that it names, and all that was
\* made for a workspace belongs to the one there is (setup and resetInternal).
SetupIsWhole == ReadyIsWhole /\ NoOrphanProject

\* A reset removes the demo's Project only (docs/development/TESTING.md:646).
OthersSurvive ==
    [][\A p \in DOMAIN projects \ made :
          /\ p \in DOMAIN projects'
          /\ missionsForProject(p) \subseteq DOMAIN missions'
          /\ p \in DOMAIN repositories => p \in DOMAIN repositories']_workspaceVars

\* What no number of retries gets past: a directory without its marker, and a
\* Project of a user that has taken the demo's root.
Wedged ==
    \/ row = NoRow /\ disk.root /\ ~disk.marker
    \/ \E p \in DOMAIN repositories \ made : repositories[p] = DemoRoot

LeftAlone ==
    row.status \in {"LOADING", "READY"} => projects[row.project].status = "ACTIVE"

\* The bounds leave an id for the demo's next Project and Mission.
IdsLeft ==
    \/ row.status \in {"LOADING", "READY"}
    \/ DOMAIN projects # Projects /\ DOMAIN missions # Missions

\* From whatever a crash left, a setup that is retried comes to READY, once
\* the process stays up and users leave the demo's Project alone.
RetriedSetupEnds ==
    <>[](Running /\ LeftAlone /\ IdsLeft /\ ~Wedged) => []<>(row.status = "READY")

\* Nothing that is begun hangs: a start settles (database-lifecycle.ts:176), and
\* a setup that is retried ends.
StartsAndRetriesEnd == StartsSettle /\ RetriedSetupEnds
=============================================================================
