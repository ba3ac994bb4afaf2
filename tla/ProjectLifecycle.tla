-------------------------- MODULE ProjectLifecycle --------------------------
(***************************************************************************)
(* Projects, Change Missions and repository registrations.  Every write is *)
(* one IMMEDIATE transaction that reads what it decides on, so every       *)
(* operation is one action.  Each entity has a head row and a row for each *)
(* of its revisions; a reader joins the two and rejects them when they     *)
(* disagree.  A call that is refused changes nothing.                      *)
(***************************************************************************)
EXTENDS Naturals

CONSTANTS
    Projects,   \* project ids
    Missions,   \* mission ids
    Roots,      \* canonical repository roots
    Times       \* readings of the wall clock, which may step back

VARIABLES
    projects,            \* head rows: id -> [revision, status, created, updated]
    project_revisions,   \* <<id, revision>> -> [status, created, updated]
    missions,            \* head rows, with the project each belongs to
    mission_revisions,
    repositories         \* project -> canonical root

lifecycleVars ==
    <<projects, project_revisions, missions, mission_revisions, repositories>>

ASSUME TimesAreNat == Times \subseteq Nat

LifecycleInit ==
    /\ projects = <<>>
    /\ project_revisions = <<>>
    /\ missions = <<>>
    /\ mission_revisions = <<>>
    /\ repositories = <<>>

\* INSERT or UPDATE of the row with that primary key.
PutRow(table, id, row) ==
    [x \in DOMAIN table \cup {id} |-> IF x = id THEN row ELSE table[x]]

-----------------------------------------------------------------------------
(***************************************************************************)
(* What readers accept.                                                    *)
(***************************************************************************)
RevisionRow(head) ==
    [status |-> head.status, created |-> head.created, updated |-> head.updated]

\* hydrateProject and hydrateMission: the head row equals its revision row.
Hydrates(heads, revisions, id) ==
    /\ id \in DOMAIN heads
    /\ <<id, heads[id].revision>> \in DOMAIN revisions
    /\ revisions[<<id, heads[id].revision>>] = RevisionRow(heads[id])

\* assertProjectInvariant and assertChangeMissionInvariant: the first revision
\* is the live one, and archiving is what makes a second.
EntityOK(head, live) ==
    /\ head.created <= head.updated
    /\ \/ head.status = live /\ head.revision = 1
       \/ head.status = "ARCHIVED" /\ head.revision >= 2

missionsForProject(p) == {m \in DOMAIN missions : missions[m].project = p}

CurrentMissions(p) ==
    {m \in missionsForProject(p) : missions[m].status = "CURRENT"}

\* validateMissionCollection
ValidCollection(p) ==
    /\ Hydrates(projects, project_revisions, p)
    /\ EntityOK(projects[p], "ACTIVE")
    /\ \A m \in missionsForProject(p) :
          /\ Hydrates(missions, mission_revisions, m)
          /\ EntityOK(missions[m], "CURRENT")
          /\ projects[p].created <= missions[m].created
    /\ \A m, n \in CurrentMissions(p) : m = n
    /\ projects[p].status = "ARCHIVED" => CurrentMissions(p) = {}

\* latestUpdatedAtUtc of the collection is at most t.
NotBefore(p, t) ==
    /\ projects[p].updated <= t
    /\ \A m \in missionsForProject(p) : missions[m].updated <= t

-----------------------------------------------------------------------------
(***************************************************************************)
(* What the domain allows, and the rows it makes.                          *)
(***************************************************************************)
NewProject(t) ==
    [revision |-> 1, status |-> "ACTIVE", created |-> t, updated |-> t]

NewMission(p, t) ==
    [project |-> p, revision |-> 1, status |-> "CURRENT", created |-> t, updated |-> t]

\* The next revision of an entity: archived now.
Archived(head, t) ==
    [head EXCEPT !.revision = @ + 1, !.status = "ARCHIVED", !.updated = t]

\* Mutant: nothing orders the new Mission after those before it.
createChangeMission_AnyTime(p, t) ==
    /\ ValidCollection(p)
    /\ projects[p].status = "ACTIVE"
    /\ CurrentMissions(p) = {}
    /\ projects[p].created <= t

createChangeMission(p, t) ==
    /\ ValidCollection(p)
    /\ projects[p].status = "ACTIVE"         \* PROJECT_ARCHIVED
    /\ CurrentMissions(p) = {}               \* CURRENT_MISSION_EXISTS
    /\ NotBefore(p, t)                       \* NON_MONOTONIC_TIME

archiveChangeMission(p, m, t) ==
    /\ missions[m].project = p               \* CROSS_PROJECT_REFERENCE
    /\ projects[p].status = "ACTIVE"         \* PROJECT_ARCHIVED
    /\ missions[m].status = "CURRENT"        \* MISSION_ALREADY_ARCHIVED
    /\ missions[m].updated <= t              \* NON_MONOTONIC_TIME

\* Mutant: a Project is archived under its current Mission.
archiveProjectEntity_AnyMission(p, t) ==
    /\ ValidCollection(p)
    /\ projects[p].status = "ACTIVE"
    /\ NotBefore(p, t)

archiveProjectEntity(p, t) ==
    /\ ValidCollection(p)
    /\ projects[p].status = "ACTIVE"         \* PROJECT_ALREADY_ARCHIVED
    /\ CurrentMissions(p) = {}               \* PROJECT_HAS_CURRENT_MISSION
    /\ NotBefore(p, t)                       \* NON_MONOTONIC_TIME

-----------------------------------------------------------------------------
(***************************************************************************)
(* The operations.                                                         *)
(***************************************************************************)
\* ProjectHead row and revision row are written together.
SaveProject(p, head) ==
    /\ projects' = PutRow(projects, p, head)
    /\ project_revisions' =
          PutRow(project_revisions, <<p, head.revision>>, RevisionRow(head))

SaveMission(m, head) ==
    /\ missions' = PutRow(missions, m, head)
    /\ mission_revisions' =
          PutRow(mission_revisions, <<m, head.revision>>, RevisionRow(head))

createProject(p, t) ==
    /\ p \notin DOMAIN projects
    /\ SaveProject(p, NewProject(t))
    /\ UNCHANGED <<missions, mission_revisions, repositories>>

createMission(p, m, t) ==
    /\ p \in DOMAIN projects
    /\ m \notin DOMAIN missions
    /\ createChangeMission(p, t)
    /\ SaveMission(m, NewMission(p, t))
    /\ UNCHANGED <<projects, project_revisions, repositories>>

archiveMission(p, m, t) ==
    /\ Hydrates(projects, project_revisions, p)
    /\ Hydrates(missions, mission_revisions, m)
    /\ archiveChangeMission(p, m, t)
    /\ SaveMission(m, Archived(missions[m], t))
    /\ UNCHANGED <<projects, project_revisions, repositories>>

archiveProject(p, t) ==
    /\ p \in DOMAIN projects
    /\ archiveProjectEntity(p, t)
    /\ SaveProject(p, Archived(projects[p], t))
    /\ UNCHANGED <<missions, mission_revisions, repositories>>

\* RepositoryRegistrationService.register, of a root that canonicalRepositoryRoot
\* accepts: one registration for a Project and one Project for a root.
register(p, root) ==
    /\ p \in DOMAIN projects
    /\ projects[p].status = "ACTIVE"         \* REPOSITORY_PROJECT_ARCHIVED
    /\ p \notin DOMAIN repositories
    /\ \A q \in DOMAIN repositories : repositories[q] # root
    /\ repositories' = PutRow(repositories, p, root)
    /\ UNCHANGED <<projects, project_revisions, missions, mission_revisions>>

LifecycleNext ==
    \E p \in Projects :
        \/ \E t \in Times :
              \/ createProject(p, t)
              \/ archiveProject(p, t)
              \/ \E m \in Missions : createMission(p, m, t) \/ archiveMission(p, m, t)
        \/ \E root \in Roots : register(p, root)

LifecycleSpec == LifecycleInit /\ [][LifecycleNext]_lifecycleVars

-----------------------------------------------------------------------------
ProjectHead == [revision : Nat, status : {"ACTIVE", "ARCHIVED"}, created : Times, updated : Times]

MissionHead == [project : Projects, revision : Nat, status : {"CURRENT", "ARCHIVED"},
                created : Times, updated : Times]

Revision == [status : {"ACTIVE", "CURRENT", "ARCHIVED"}, created : Times, updated : Times]

\* Every table keeps its type, and its foreign keys refer to stored rows.
LifecycleTypeOK ==
    /\ DOMAIN projects \subseteq Projects
    /\ projects \in [DOMAIN projects -> ProjectHead]
    /\ DOMAIN missions \subseteq Missions
    /\ missions \in [DOMAIN missions -> MissionHead]
    /\ \A m \in DOMAIN missions : missions[m].project \in DOMAIN projects
    /\ DOMAIN project_revisions \subseteq (DOMAIN projects) \X Nat
    /\ project_revisions \in [DOMAIN project_revisions -> Revision]
    /\ DOMAIN mission_revisions \subseteq (DOMAIN missions) \X Nat
    /\ mission_revisions \in [DOMAIN mission_revisions -> Revision]
    /\ DOMAIN repositories \subseteq DOMAIN projects
    /\ repositories \in [DOMAIN repositories -> Roots]

\* No sequence of accepted calls brings a Project into a state that its own
\* readers refuse (PROJECT_STORAGE_SCHEMA_INVALID, INVALID_ENTITY), after which
\* it could be neither shown nor archived.
StoredStateIsReadable == \A p \in DOMAIN projects : ValidCollection(p)

\* Whatever the wall clock does, the Missions of a Project follow one another:
\* each ended before the next began, and all lie within the Project's life.
MissionsFollowOneAnother ==
    \A p \in DOMAIN projects : \A m \in missionsForProject(p) :
        /\ projects[p].created <= missions[m].created
        /\ projects[p].status = "ARCHIVED" => missions[m].updated <= projects[p].updated
        /\ \A n \in missionsForProject(p) \ {m} :
              \/ missions[m].status = "ARCHIVED" /\ missions[m].updated <= missions[n].created
              \/ missions[n].status = "ARCHIVED" /\ missions[n].updated <= missions[m].created
=============================================================================
