------------------------- MODULE GitSnapshotCapture -------------------------
(***************************************************************************)
(* Git snapshot capture and the local pilot's preflight.  A capture checks *)
(* the Mission, runs five Git commands one await after another, compares   *)
(* what it saw of HEAD before and after the status command, and inserts    *)
(* the snapshot in a transaction that checks the Mission again.  Between   *)
(* any two of its segments other requests run, and the owner of the        *)
(* repository, who takes no lock, commits, switches branches and edits.    *)
(***************************************************************************)
EXTENDS ProjectLifecycle, FiniteSets

CONSTANTS
    Requests,   \* concurrent requests, each to capture a snapshot or for a preflight
    Branches,
    Commits,
    Changes,    \* what "git status --porcelain" may print, as a whole
    MaxSnapshots   \* bound on the git_snapshots table

VARIABLES
    HEAD,            \* external: root -> [branch, commit] of the repository
    worktree,        \* external: root -> its changed files
    git_snapshots,   \* the stored snapshots
    pc,              \* the Git command each request runs, or where it is
    scope,           \* the Project, Mission and root each request works on
    read,            \* what each command of a request has printed
    statusHead,      \* history: HEAD when the status command read
    moves            \* history: how often HEAD moved during the request

repositoryVars == <<HEAD, worktree>>
requestVars == <<pc, scope, read, statusHead, moves>>
captureVars == <<lifecycleVars, repositoryVars, git_snapshots, requestVars>>

None == "NONE"   \* a command that exits with an expected non-zero code

\* A branch with a commit, a detached HEAD, or a branch without a commit yet.
Heads == [branch : Branches, commit : Commits]
         \cup [branch : {None}, commit : Commits]
         \cup [branch : Branches, commit : {None}]

NoHead == [branch |-> None, commit |-> None]

\* The commands in the order they are run; COMMIT_TIME is the preflight's alone.
Script == <<"SYMBOLIC_HEAD", "HEAD_COMMIT", "STATUS", "COMMIT_TIME",
            "SYMBOLIC_HEAD_AFTER", "HEAD_COMMIT_AFTER">>

\* A preflight works on a root of its own choice, for no Mission.
IsPilot(r) == scope[r].mission = None

NextCommand(r, command) ==
    CASE command = "SYMBOLIC_HEAD"       -> "HEAD_COMMIT"
      [] command = "HEAD_COMMIT"         -> "STATUS"
      [] command = "STATUS"              -> IF IsPilot(r) THEN "COMMIT_TIME"
                                            ELSE "SYMBOLIC_HEAD_AFTER"
      [] command = "COMMIT_TIME"         -> "SYMBOLIC_HEAD_AFTER"
      [] command = "SYMBOLIC_HEAD_AFTER" -> "HEAD_COMMIT_AFTER"
      [] OTHER                           -> "compare"

NothingPrinted ==
    [before |-> NoHead, changes |-> None, timeOf |-> None, after |-> NoHead]

NoScope == [project |-> None, mission |-> None, root |-> None]

CaptureInit ==
    /\ LifecycleInit
    /\ HEAD \in [Roots -> Heads]
    /\ worktree \in [Roots -> Changes]
    /\ git_snapshots = {}
    /\ pc = [r \in Requests |-> "idle"]
    /\ scope = [r \in Requests |-> NoScope]
    /\ read = [r \in Requests |-> NothingPrinted]
    /\ statusHead = [r \in Requests |-> NoHead]
    /\ moves = [r \in Requests |-> 0]

-----------------------------------------------------------------------------
(***************************************************************************)
(* The owner of a repository.                                              *)
(***************************************************************************)
\* Requests whose capture is under way in that root.
Watching(root) == {r \in Requests : scope[r].root = root}

MoveHead(root, head) ==
    /\ head # HEAD[root]
    /\ HEAD' = [HEAD EXCEPT ![root] = head]
    /\ moves' = [r \in Requests |->
           IF r \in Watching(root) /\ moves[r] < 2 THEN moves[r] + 1 ELSE moves[r]]
    /\ UNCHANGED <<lifecycleVars, worktree, git_snapshots, pc, scope, read, statusHead>>

Edit(root, changes) ==
    /\ changes # worktree[root]
    /\ worktree' = [worktree EXCEPT ![root] = changes]
    /\ UNCHANGED <<lifecycleVars, HEAD, git_snapshots, requestVars>>

-----------------------------------------------------------------------------
(***************************************************************************)
(* The steps of a request.                                                 *)
(***************************************************************************)
Start(r, project, mission, root) ==
    /\ pc[r] = "idle"
    /\ pc' = [pc EXCEPT ![r] = "SYMBOLIC_HEAD"]
    /\ scope' = [scope EXCEPT ![r] =
           [project |-> project, mission |-> mission, root |-> root]]
    /\ moves' = [moves EXCEPT ![r] = 0]
    /\ UNCHANGED <<lifecycleVars, repositoryVars, git_snapshots, read, statusHead>>

ActiveMission(m) ==
    /\ m \in DOMAIN missions
    /\ missions[m].status = "CURRENT"
    /\ projects[missions[m].project].status = "ACTIVE"

\* capture(): #activeMission, registrations.get and resolveRootForRead.
BeginCapture(r, m) ==
    /\ ActiveMission(m)
    /\ missions[m].project \in DOMAIN repositories
    /\ Start(r, missions[m].project, m, repositories[missions[m].project])

\* LocalProjectPilotService.register: the preflight of an allowed root.
BeginPilot(r, p, root) == Start(r, p, None, root)

\* The request answers and its local variables are gone.
Finish(r) ==
    /\ pc' = [pc EXCEPT ![r] = "idle"]
    /\ scope' = [scope EXCEPT ![r] = NoScope]
    /\ read' = [read EXCEPT ![r] = NothingPrinted]
    /\ statusHead' = [statusHead EXCEPT ![r] = NoHead]
    /\ moves' = [moves EXCEPT ![r] = 0]

\* What the command prints, put with what the earlier ones printed.
Printed(r, command) ==
    LET root == scope[r].root IN
    CASE command = "SYMBOLIC_HEAD"       -> [read[r] EXCEPT !.before.branch = HEAD[root].branch]
      [] command = "HEAD_COMMIT"         -> [read[r] EXCEPT !.before.commit = HEAD[root].commit]
      [] command = "STATUS"              -> [read[r] EXCEPT !.changes = worktree[root]]
      [] command = "COMMIT_TIME"         -> [read[r] EXCEPT !.timeOf = HEAD[root].commit]
      [] command = "SYMBOLIC_HEAD_AFTER" -> [read[r] EXCEPT !.after.branch = HEAD[root].branch]
      [] OTHER                           -> [read[r] EXCEPT !.after.commit = HEAD[root].commit]

classifyHead(head) == head # NoHead

\* One command reads the repository at one instant of its run, and its output
\* is taken up.  classifyHead refuses a HEAD with neither branch nor commit,
\* which no repository has but two reads may show.
RunCommand(r, command) ==
    LET printed == Printed(r, command) IN
    /\ pc[r] = command
    /\ ~ IsPilot(r) /\ command = "HEAD_COMMIT" => classifyHead(printed.before)
    /\ read' = [read EXCEPT ![r] = printed]
    /\ pc' = [pc EXCEPT ![r] = NextCommand(r, command)]
    /\ statusHead' = [statusHead EXCEPT ![r] =
           IF command = "STATUS" THEN HEAD[scope[r].root] ELSE @]
    /\ UNCHANGED <<lifecycleVars, repositoryVars, git_snapshots, scope, moves>>

\* A command times out, prints too much or exits with an unexpected code, or
\* classifyHead refuses what was printed: the request fails.
FailCommand(r) ==
    /\ pc[r] \in {Script[i] : i \in DOMAIN Script}
    /\ Finish(r)
    /\ UNCHANGED <<lifecycleVars, repositoryVars, git_snapshots>>

\* Mutant: only the commit is compared.
sameEvidence_CommitOnly(evidence) == evidence.before.commit = evidence.after.commit

\* sameEvidence, and the two comparisons of the preflight.
sameEvidence(evidence) == evidence.before = evidence.after

\* The preflight also needs a commit and its time.
Acceptable(r) ==
    /\ sameEvidence(read[r])
    /\ IsPilot(r) => None \notin {read[r].before.commit, read[r].timeOf}

\* GIT_REPOSITORY_CHANGED; COMMIT_UNAVAILABLE, INTEGRITY_CHECK_FAILED
RejectChanged(r) ==
    /\ pc[r] = "compare"
    /\ ~ Acceptable(r)
    /\ Finish(r)
    /\ UNCHANGED <<lifecycleVars, repositoryVars, git_snapshots>>

\* createGitSnapshot awaits a digest; the preflight resolves.
Compare(r) ==
    /\ pc[r] = "compare"
    /\ Acceptable(r)
    /\ pc' = [pc EXCEPT ![r] = "store"]
    /\ UNCHANGED <<lifecycleVars, repositoryVars, git_snapshots, scope, read,
                   statusHead, moves>>

\* Mutant: the transaction does not look at the Mission again.
Storable_CheckedBefore(r) ==
    /\ missions[scope[r].mission].project = scope[r].project
    /\ scope[r].project \in DOMAIN repositories

\* The checks of the transaction.  Registrations are never changed.
Storable(r) ==
    /\ ActiveMission(scope[r].mission)
    /\ missions[scope[r].mission].project = scope[r].project
    /\ scope[r].project \in DOMAIN repositories

\* The snapshot: HEAD as it was before, the changes, and the history of both.
Snapshot(r) ==
    [project    |-> scope[r].project,
     mission    |-> scope[r].mission,
     root       |-> scope[r].root,
     head       |-> read[r].before,
     changes    |-> read[r].changes,
     statusHead |-> statusHead[r],
     restored   |-> moves[r] >= 2]

StoreSnapshot(r) ==
    /\ pc[r] = "store"
    /\ ~ IsPilot(r)
    /\ Storable(r)
    /\ Cardinality(git_snapshots) < MaxSnapshots
    /\ git_snapshots' = git_snapshots \cup {Snapshot(r)}
    /\ Finish(r)
    /\ UNCHANGED <<lifecycleVars, repositoryVars>>

\* GIT_MISSION_ARCHIVED
RejectStore(r) ==
    /\ pc[r] = "store"
    /\ ~ IsPilot(r)
    /\ ~ Storable(r)
    /\ Finish(r)
    /\ UNCHANGED <<lifecycleVars, repositoryVars, git_snapshots>>

\* The pilot registers the root that passed; or it wanted no registration, or
\* register() refuses, also because the path has changed since.
RegisterPilot(r) ==
    /\ pc[r] = "store"
    /\ IsPilot(r)
    /\ register(scope[r].project, scope[r].root)
    /\ Finish(r)
    /\ UNCHANGED <<repositoryVars, git_snapshots>>

RejectPilot(r) ==
    /\ pc[r] = "store"
    /\ IsPilot(r)
    /\ Finish(r)
    /\ UNCHANGED <<lifecycleVars, repositoryVars, git_snapshots>>

Request(r) ==
    \/ \E m \in Missions : BeginCapture(r, m)
    \/ \E p \in Projects, root \in Roots : BeginPilot(r, p, root)
    \/ \E i \in DOMAIN Script : RunCommand(r, Script[i])
    \/ FailCommand(r)
    \/ RejectChanged(r)
    \/ Compare(r)
    \/ StoreSnapshot(r)
    \/ RejectStore(r)
    \/ RegisterPilot(r)
    \/ RejectPilot(r)

Owner(root) ==
    \/ \E head \in Heads : MoveHead(root, head)
    \/ \E changes \in Changes : Edit(root, changes)

CaptureNext ==
    \/ LifecycleNext /\ UNCHANGED <<repositoryVars, git_snapshots, requestVars>>
    \/ \E root \in Roots : Owner(root)
    \/ \E r \in Requests : Request(r)

CaptureSpec == CaptureInit /\ [][CaptureNext]_captureVars

-----------------------------------------------------------------------------
\* Five separate commands, over a repository that nobody locks, still describe
\* one instant of it, that of the status command, unless HEAD was moved away
\* and back again in between (docs/development/TESTING.md:130: no mixed snapshot).
EvidenceOfOneInstant ==
    /\ \A s \in git_snapshots : s.head = s.statusHead \/ s.restored
    /\ \A r \in Requests : pc[r] = "store" /\ IsPilot(r) =>
          \/ moves[r] = 2
          \/ /\ read[r].before = statusHead[r]
             /\ read[r].timeOf = read[r].before.commit

SnapshotsOf(p) == {s \in git_snapshots : s.project = p}

\* Once a Project is archived, nothing of it ever changes: no Mission, no
\* registration and no snapshot is added, not even by a request that was under
\* way when it was archived.
ArchivedIsFrozen ==
    [][\A p \in DOMAIN projects : projects[p].status = "ARCHIVED" =>
          /\ projects'[p] = projects[p]
          /\ missionsForProject(p)' = missionsForProject(p)
          /\ \A m \in missionsForProject(p) : missions'[m] = missions[m]
          /\ p \in DOMAIN repositories' => p \in DOMAIN repositories
          /\ SnapshotsOf(p)' = SnapshotsOf(p)]_captureVars
=============================================================================
