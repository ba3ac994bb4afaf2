----------------------- MODULE ProjectLifecycleProofs -----------------------
(***************************************************************************)
(* Proofs about ProjectLifecycle and GitSnapshotCapture, for any Projects, *)
(* Missions, roots, readings of the clock, requests, branches and commits. *)
(* The three lifecycle properties are inductive together: what a           *)
(* transaction decides on is what the readers accept.  Captures run beside *)
(* the lifecycle and keep it.                                              *)
(***************************************************************************)
EXTENDS GitSnapshotCapture, TLAPS

LifecycleInv == LifecycleTypeOK /\ StoredStateIsReadable /\ MissionsFollowOneAnother

\* What a row is after PutRow.
LEMMA PutRowDef ==
    ASSUME NEW table, NEW id, NEW row
    PROVE  /\ DOMAIN PutRow(table, id, row) = DOMAIN table \cup {id}
           /\ PutRow(table, id, row)[id] = row
           /\ \A x \in DOMAIN table \ {id} : PutRow(table, id, row)[x] = table[x]
  BY DEF PutRow

\* A table stays one of its rows when a row of the same kind is put into it.
LEMMA PutRowType ==
    ASSUME NEW S, NEW table, table \in [DOMAIN table -> S], NEW id, NEW row \in S
    PROVE  PutRow(table, id, row) \in [DOMAIN PutRow(table, id, row) -> S]
  BY DEF PutRow

\* The times of the rows are numbers, and can be compared.
LEMMA TimesCompare ==
    ASSUME LifecycleTypeOK
    PROVE  /\ \A p \in DOMAIN projects :
                 projects[p].created \in Nat /\ projects[p].updated \in Nat
           /\ \A m \in DOMAIN missions :
                 missions[m].created \in Nat /\ missions[m].updated \in Nat
  BY TimesAreNat DEF LifecycleTypeOK, ProjectHead, MissionHead

\* The next revision of a Project: archived, with its old beginning.
LEMMA ArchivedProject ==
    ASSUME NEW head \in ProjectHead, NEW t \in Times
    PROVE  /\ Archived(head, t).revision = head.revision + 1
           /\ Archived(head, t).created = head.created
           /\ Archived(head, t).updated = t
           /\ Archived(head, t).status = "ARCHIVED"
           /\ Archived(head, t) \in ProjectHead
  <1>1. Archived(head, t).revision = head.revision + 1
    BY DEF Archived, ProjectHead
  <1>2. Archived(head, t).created = head.created
    BY DEF Archived, ProjectHead
  <1>3. Archived(head, t).updated = t
    BY DEF Archived, ProjectHead
  <1>4. Archived(head, t).status = "ARCHIVED"
    BY DEF Archived, ProjectHead
  <1>5. Archived(head, t) \in ProjectHead
    <2>1. head.revision + 1 \in Nat
      BY DEF ProjectHead
    <2> QED
      BY <2>1 DEF Archived, ProjectHead
  <1> QED
    BY <1>1, <1>2, <1>3, <1>4, <1>5

\* The next revision of a Mission: archived, with its old beginning.
LEMMA ArchivedMission ==
    ASSUME NEW head \in MissionHead, NEW t \in Times
    PROVE  /\ Archived(head, t).revision = head.revision + 1
           /\ Archived(head, t).created = head.created
           /\ Archived(head, t).updated = t
           /\ Archived(head, t).status = "ARCHIVED"
           /\ Archived(head, t).project = head.project
           /\ Archived(head, t) \in MissionHead
  <1>1. Archived(head, t).revision = head.revision + 1
    BY DEF Archived, MissionHead
  <1>2. Archived(head, t).created = head.created
    BY DEF Archived, MissionHead
  <1>3. Archived(head, t).updated = t
    BY DEF Archived, MissionHead
  <1>4. Archived(head, t).status = "ARCHIVED"
    BY DEF Archived, MissionHead
  <1>5. Archived(head, t).project = head.project
    BY DEF Archived, MissionHead
  <1>6. Archived(head, t) \in MissionHead
    <2>1. head.revision + 1 \in Nat
      BY DEF MissionHead
    <2> QED
      BY <2>1 DEF Archived, MissionHead
  <1> QED
    BY <1>1, <1>2, <1>3, <1>4, <1>5, <1>6

\* No row is stored yet.
LEMMA LifecycleInvInit == LifecycleInit => LifecycleInv
  BY DEF LifecycleInit, LifecycleInv, LifecycleTypeOK, StoredStateIsReadable,
         MissionsFollowOneAnother

-----------------------------------------------------------------------------
(***************************************************************************)
(* Writing a Project.                                                      *)
(***************************************************************************)
\* Storing a Project keeps the types.
LEMMA SaveProjectTypes ==
    ASSUME LifecycleTypeOK, NEW p \in Projects, NEW head \in ProjectHead,
           SaveProject(p, head), UNCHANGED <<missions, mission_revisions, repositories>>
    PROVE  LifecycleTypeOK'
  <1>1. /\ projects' \in [DOMAIN projects' -> ProjectHead]
        /\ DOMAIN projects' = DOMAIN projects \cup {p}
    BY PutRowDef, PutRowType DEF SaveProject, LifecycleTypeOK
  <1>2. /\ project_revisions' \in [DOMAIN project_revisions' -> Revision]
        /\ DOMAIN project_revisions' = DOMAIN project_revisions \cup {<<p, head.revision>>}
    <2>1. RevisionRow(head) \in Revision
      BY DEF RevisionRow, Revision, ProjectHead
    <2> QED
      BY <2>1, PutRowDef, PutRowType DEF SaveProject, LifecycleTypeOK
  <1>3. head.revision \in Nat
    BY DEF ProjectHead
  <1> QED
    BY <1>1, <1>2, <1>3 DEF LifecycleTypeOK

\* The row that was stored is read back, and the others are what they were.
LEMMA SaveProjectRows ==
    ASSUME NEW p \in Projects, NEW head, SaveProject(p, head)
    PROVE  /\ projects'[p] = head
           /\ DOMAIN projects' = DOMAIN projects \cup {p}
           /\ Hydrates(projects, project_revisions, p)'
           /\ \A q \in DOMAIN projects \ {p} :
                 /\ projects'[q] = projects[q]
                 /\ Hydrates(projects, project_revisions, q)
                       => Hydrates(projects, project_revisions, q)'
  <1>1. /\ projects'[p] = head
        /\ DOMAIN projects' = DOMAIN projects \cup {p}
        /\ \A q \in DOMAIN projects \ {p} : projects'[q] = projects[q]
    BY DEF SaveProject, PutRow
  <1>2. /\ project_revisions'[<<p, head.revision>>] = RevisionRow(head)
        /\ DOMAIN project_revisions' = DOMAIN project_revisions \cup {<<p, head.revision>>}
        /\ \A x \in DOMAIN project_revisions \ {<<p, head.revision>>} :
              project_revisions'[x] = project_revisions[x]
    BY DEF SaveProject, PutRow
  <1>3. Hydrates(projects, project_revisions, p)'
    BY <1>1, <1>2 DEF Hydrates
  <1>4. ASSUME NEW q \in DOMAIN projects \ {p}, Hydrates(projects, project_revisions, q)
        PROVE  Hydrates(projects, project_revisions, q)'
    <2>1. <<q, projects[q].revision>> # <<p, head.revision>>
      OBVIOUS
    <2> QED
      BY <1>1, <1>2, <1>4, <2>1 DEF Hydrates
  <1> QED
    BY <1>1, <1>3, <1>4

\* A Project is created: it has no Mission.
LEMMA createProjectKeeps ==
    ASSUME LifecycleInv, NEW p \in Projects, NEW t \in Times, createProject(p, t)
    PROVE  LifecycleInv'
  <1> DEFINE head == NewProject(t)
  <1>1. /\ p \notin DOMAIN projects
        /\ SaveProject(p, head)
        /\ UNCHANGED <<missions, mission_revisions, repositories>>
    BY DEF createProject
  <1>2. /\ LifecycleTypeOK
        /\ \A q \in DOMAIN projects : ValidCollection(q)
        /\ MissionsFollowOneAnother
    BY DEF LifecycleInv, StoredStateIsReadable
  <1>3. head \in ProjectHead /\ EntityOK(head, "ACTIVE") /\ head.status = "ACTIVE"
    BY TimesAreNat DEF NewProject, ProjectHead, EntityOK
  <1>4. LifecycleTypeOK'
    BY <1>1, <1>2, <1>3, SaveProjectTypes
  <1>5. /\ projects'[p] = head
        /\ DOMAIN projects' = DOMAIN projects \cup {p}
        /\ Hydrates(projects, project_revisions, p)'
        /\ \A q \in DOMAIN projects :
              /\ projects'[q] = projects[q]
              /\ Hydrates(projects, project_revisions, q)
                    => Hydrates(projects, project_revisions, q)'
    BY <1>1, SaveProjectRows
  <1>6. missionsForProject(p) = {}
    BY <1>1, <1>2 DEF missionsForProject, LifecycleTypeOK
  <1>7. \A q : /\ missionsForProject(q)' = missionsForProject(q)
               /\ CurrentMissions(q)' = CurrentMissions(q)
    BY <1>1 DEF missionsForProject, CurrentMissions
  <1>8. ASSUME NEW q \in DOMAIN projects'
        PROVE  ValidCollection(q)'
    <2>1. CASE q = p
      BY <1>3, <1>5, <1>6, <1>7, <2>1 DEF ValidCollection, CurrentMissions
    <2>2. CASE q \in DOMAIN projects
      BY <1>1, <1>2, <1>5, <1>7, <2>2 DEF ValidCollection, Hydrates
    <2> QED
      BY <1>5, <2>1, <2>2
  <1>9. MissionsFollowOneAnother'
    BY <1>1, <1>2, <1>5, <1>6, <1>7 DEF MissionsFollowOneAnother
  <1> QED
    BY <1>4, <1>8, <1>9 DEF LifecycleInv, StoredStateIsReadable

\* A Project is archived after all of its Missions.
LEMMA archiveProjectKeeps ==
    ASSUME LifecycleInv, NEW p \in Projects, NEW t \in Times, archiveProject(p, t)
    PROVE  LifecycleInv'
  <1> DEFINE head == Archived(projects[p], t)
  <1>1. /\ p \in DOMAIN projects
        /\ CurrentMissions(p) = {}
        /\ NotBefore(p, t)
        /\ SaveProject(p, head)
        /\ UNCHANGED <<missions, mission_revisions, repositories>>
    BY DEF archiveProject, archiveProjectEntity
  <1>2. /\ LifecycleTypeOK
        /\ \A q \in DOMAIN projects : ValidCollection(q)
        /\ MissionsFollowOneAnother
    BY DEF LifecycleInv, StoredStateIsReadable
  <1>3. /\ head.created = projects[p].created
        /\ head.updated = t
        /\ head.status = "ARCHIVED"
        /\ head \in ProjectHead
        /\ EntityOK(head, "ACTIVE")
    <2>1. /\ projects[p] \in ProjectHead
          /\ projects[p].created \in Nat /\ projects[p].updated \in Nat /\ t \in Nat
      BY <1>1, <1>2, TimesAreNat, TimesCompare DEF LifecycleTypeOK
    <2>2. projects[p].revision >= 1 /\ projects[p].created <= projects[p].updated
      BY <1>1, <1>2, <2>1 DEF ValidCollection, EntityOK, ProjectHead
    <2>3. projects[p].updated <= t
      BY <1>1 DEF NotBefore
    <2>4. /\ head.revision = projects[p].revision + 1
          /\ head.created = projects[p].created
          /\ head.updated = t
          /\ head.status = "ARCHIVED"
          /\ head \in ProjectHead
      BY <1>1, <2>1, ArchivedProject
    <2>5. projects[p].revision \in Nat
      BY <2>1 DEF ProjectHead
    <2>6. head.created <= head.updated /\ head.revision >= 2
      BY <1>1, <2>1, <2>2, <2>3, <2>4, <2>5
    <2> HIDE DEF head
    <2> QED
      BY <2>4, <2>6 DEF EntityOK
  <1>4. LifecycleTypeOK'
    BY <1>1, <1>2, <1>3, SaveProjectTypes
  <1>5. /\ projects'[p] = head
        /\ DOMAIN projects' = DOMAIN projects
        /\ Hydrates(projects, project_revisions, p)'
        /\ \A q \in DOMAIN projects \ {p} :
              /\ projects'[q] = projects[q]
              /\ Hydrates(projects, project_revisions, q)
                    => Hydrates(projects, project_revisions, q)'
    BY <1>1, SaveProjectRows
  <1>6. \A q : /\ missionsForProject(q)' = missionsForProject(q)
               /\ CurrentMissions(q)' = CurrentMissions(q)
    BY <1>1 DEF missionsForProject, CurrentMissions
  <1>7. ASSUME NEW q \in DOMAIN projects'
        PROVE  ValidCollection(q)'
    <2>1. CASE q = p
      BY <1>1, <1>2, <1>3, <1>5, <1>6, <2>1 DEF ValidCollection, Hydrates
    <2>2. CASE q # p
      BY <1>1, <1>2, <1>5, <1>6, <2>2 DEF ValidCollection, Hydrates
    <2> QED
      BY <2>1, <2>2
  <1>8. MissionsFollowOneAnother'
    BY <1>1, <1>2, <1>3, <1>5, <1>6 DEF MissionsFollowOneAnother, NotBefore
  <1> QED
    BY <1>4, <1>7, <1>8 DEF LifecycleInv, StoredStateIsReadable
-----------------------------------------------------------------------------
(***************************************************************************)
(* Writing a Mission.                                                      *)
(***************************************************************************)
\* Storing a Mission keeps the types.
LEMMA SaveMissionTypes ==
    ASSUME LifecycleTypeOK, NEW m \in Missions, NEW head \in MissionHead,
           head.project \in DOMAIN projects,
           SaveMission(m, head), UNCHANGED <<projects, project_revisions, repositories>>
    PROVE  LifecycleTypeOK'
  <1>1. /\ missions' \in [DOMAIN missions' -> MissionHead]
        /\ DOMAIN missions' = DOMAIN missions \cup {m}
        /\ missions'[m] = head
        /\ \A n \in DOMAIN missions \ {m} : missions'[n] = missions[n]
    <2>1. missions' \in [DOMAIN missions' -> MissionHead]
      BY PutRowType DEF SaveMission, LifecycleTypeOK
    <2> QED
      BY <2>1 DEF SaveMission, PutRow
  <1>2. /\ mission_revisions' \in [DOMAIN mission_revisions' -> Revision]
        /\ DOMAIN mission_revisions' = DOMAIN mission_revisions \cup {<<m, head.revision>>}
    <2>1. RevisionRow(head) \in Revision
      BY DEF RevisionRow, Revision, MissionHead
    <2> QED
      BY <2>1, PutRowDef, PutRowType DEF SaveMission, LifecycleTypeOK
  <1>3. head.revision \in Nat
    BY DEF MissionHead
  <1> QED
    BY <1>1, <1>2, <1>3 DEF LifecycleTypeOK

\* The row that was stored is read back, and the others are what they were.
LEMMA SaveMissionRows ==
    ASSUME NEW m \in Missions, NEW head, SaveMission(m, head)
    PROVE  /\ missions'[m] = head
           /\ DOMAIN missions' = DOMAIN missions \cup {m}
           /\ Hydrates(missions, mission_revisions, m)'
           /\ \A n \in DOMAIN missions \ {m} :
                 /\ missions'[n] = missions[n]
                 /\ Hydrates(missions, mission_revisions, n)
                       => Hydrates(missions, mission_revisions, n)'
  <1>1. /\ missions'[m] = head
        /\ DOMAIN missions' = DOMAIN missions \cup {m}
        /\ \A n \in DOMAIN missions \ {m} : missions'[n] = missions[n]
    BY DEF SaveMission, PutRow
  <1>2. /\ mission_revisions'[<<m, head.revision>>] = RevisionRow(head)
        /\ DOMAIN mission_revisions' = DOMAIN mission_revisions \cup {<<m, head.revision>>}
        /\ \A x \in DOMAIN mission_revisions \ {<<m, head.revision>>} :
              mission_revisions'[x] = mission_revisions[x]
    BY DEF SaveMission, PutRow
  <1>3. Hydrates(missions, mission_revisions, m)'
    BY <1>1, <1>2 DEF Hydrates
  <1>4. ASSUME NEW n \in DOMAIN missions \ {m}, Hydrates(missions, mission_revisions, n)
        PROVE  Hydrates(missions, mission_revisions, n)'
    <2>1. <<n, missions[n].revision>> # <<m, head.revision>>
      OBVIOUS
    <2> QED
      BY <1>1, <1>2, <1>4, <2>1 DEF Hydrates
  <1> QED
    BY <1>1, <1>3, <1>4

\* A Mission begins after all those before it have ended.
LEMMA createMissionKeeps ==
    ASSUME LifecycleInv, NEW p \in Projects, NEW m \in Missions, NEW t \in Times,
           createMission(p, m, t)
    PROVE  LifecycleInv'
  <1> DEFINE head == NewMission(p, t)
  <1>1. /\ p \in DOMAIN projects
        /\ m \notin DOMAIN missions
        /\ projects[p].status = "ACTIVE"
        /\ CurrentMissions(p) = {}
        /\ NotBefore(p, t)
        /\ SaveMission(m, head)
        /\ UNCHANGED <<projects, project_revisions, repositories>>
    BY DEF createMission, createChangeMission
  <1>2. /\ LifecycleTypeOK
        /\ \A q \in DOMAIN projects : ValidCollection(q)
        /\ MissionsFollowOneAnother
    BY DEF LifecycleInv, StoredStateIsReadable
  <1>3. /\ head.project = p /\ head.created = t /\ head.updated = t
        /\ head.status = "CURRENT"
        /\ head \in MissionHead
        /\ EntityOK(head, "CURRENT")
    BY TimesAreNat DEF NewMission, MissionHead, EntityOK
  <1>4. LifecycleTypeOK'
    BY <1>1, <1>2, <1>3, SaveMissionTypes
  <1>5. /\ missions'[m] = head
        /\ DOMAIN missions' = DOMAIN missions \cup {m}
        /\ Hydrates(missions, mission_revisions, m)'
        /\ \A n \in DOMAIN missions :
              /\ missions'[n] = missions[n]
              /\ Hydrates(missions, mission_revisions, n)
                    => Hydrates(missions, mission_revisions, n)'
    BY <1>1, SaveMissionRows
  <1>6. /\ missionsForProject(p)' = missionsForProject(p) \cup {m}
        /\ CurrentMissions(p)' = {m}
        /\ \A q \in DOMAIN projects \ {p} :
              /\ missionsForProject(q)' = missionsForProject(q)
              /\ CurrentMissions(q)' = CurrentMissions(q)
    BY <1>1, <1>3, <1>5 DEF missionsForProject, CurrentMissions
  <1>7. projects[p].created <= t
    <2>1. projects[p].created <= projects[p].updated /\ projects[p].updated <= t
      BY <1>1, <1>2 DEF ValidCollection, EntityOK, NotBefore
    <2> QED
      BY <1>1, <1>2, <2>1, TimesCompare, TimesAreNat
  <1>8. ASSUME NEW q \in DOMAIN projects'
        PROVE  ValidCollection(q)'
    <2>1. \A n \in missionsForProject(q) : n \in DOMAIN missions
      BY DEF missionsForProject
    <2>2. CASE q = p
      BY <1>1, <1>2, <1>3, <1>5, <1>6, <1>7, <2>1, <2>2 DEF ValidCollection, Hydrates
    <2>3. CASE q # p
      <3>1. /\ projects' = projects /\ project_revisions' = project_revisions
            /\ missionsForProject(q)' = missionsForProject(q)
            /\ CurrentMissions(q)' = CurrentMissions(q)
        BY <1>1, <1>6, <2>3
      <3>2. \A n \in missionsForProject(q) :
               /\ missions'[n] = missions[n]
               /\ Hydrates(missions, mission_revisions, n)
                     => Hydrates(missions, mission_revisions, n)'
        BY <1>5, <2>1
      <3>3. ValidCollection(q)
        BY <1>1, <1>2
      <3>4. Hydrates(projects, project_revisions, q)'
        BY <3>1, <3>3 DEF ValidCollection, Hydrates
      <3> QED
        BY <3>1, <3>2, <3>3, <3>4 DEF ValidCollection
    <2> QED
      BY <2>2, <2>3
  <1>9. MissionsFollowOneAnother'
    <2> SUFFICES ASSUME NEW q \in DOMAIN projects, NEW n \in missionsForProject(q)',
                        NEW o \in missionsForProject(q)' \ {n}
                 PROVE  \/ /\ missions'[n].status = "ARCHIVED"
                           /\ missions'[n].updated <= missions'[o].created
                        \/ /\ missions'[o].status = "ARCHIVED"
                           /\ missions'[o].updated <= missions'[n].created
      <3>1. ASSUME NEW q \in DOMAIN projects, NEW n \in missionsForProject(q)'
            PROVE  /\ projects[q].created <= missions'[n].created
                   /\ projects[q].status = "ARCHIVED" => missions'[n].updated <= projects[q].updated
        <4>1. CASE n = m
          BY <1>1, <1>3, <1>5, <1>7, <4>1 DEF missionsForProject
        <4>2. CASE n # m
          BY <1>1, <1>2, <1>5, <4>2 DEF missionsForProject, MissionsFollowOneAnother
        <4> QED
          BY <4>1, <4>2
      <3> QED
        BY <1>1, <3>1 DEF MissionsFollowOneAnother
    <2>1. ASSUME NEW k \in missionsForProject(p)
          PROVE  /\ missions'[k] = missions[k]
                 /\ missions[k].status = "ARCHIVED"
                 /\ missions[k].updated <= t
      <3>1. k \in DOMAIN missions /\ missions[k].status # "CURRENT"
        BY <1>1 DEF missionsForProject, CurrentMissions
      <3> QED
        BY <1>1, <1>2, <1>5, <3>1 DEF NotBefore, LifecycleTypeOK, MissionHead
    <2>2. CASE n = m \/ o = m
      BY <1>1, <1>3, <1>5, <1>6, <2>1, <2>2 DEF missionsForProject
    <2>3. CASE n # m /\ o # m
      BY <1>1, <1>2, <1>5, <2>3 DEF missionsForProject, MissionsFollowOneAnother
    <2> QED
      BY <2>2, <2>3
  <1> QED
    BY <1>4, <1>8, <1>9 DEF LifecycleInv, StoredStateIsReadable

\* The current Mission ends; it still begins after the others have ended.
LEMMA archiveMissionKeeps ==
    ASSUME LifecycleInv, NEW p \in Projects, NEW m \in Missions, NEW t \in Times,
           archiveMission(p, m, t)
    PROVE  LifecycleInv'
  <1> DEFINE head == Archived(missions[m], t)
  <1>1. /\ p \in DOMAIN projects
        /\ m \in DOMAIN missions
        /\ missions[m].project = p
        /\ projects[p].status = "ACTIVE"
        /\ missions[m].status = "CURRENT"
        /\ missions[m].updated <= t
        /\ SaveMission(m, head)
        /\ UNCHANGED <<projects, project_revisions, repositories>>
    BY DEF archiveMission, archiveChangeMission, Hydrates
  <1>2. /\ LifecycleTypeOK
        /\ \A q \in DOMAIN projects : ValidCollection(q)
        /\ MissionsFollowOneAnother
    BY DEF LifecycleInv, StoredStateIsReadable
  <1>3. m \in missionsForProject(p)
    BY <1>1 DEF missionsForProject
  <1>4. /\ head.project = p /\ head.created = missions[m].created
        /\ head.updated = t /\ head.status = "ARCHIVED"
        /\ head \in MissionHead
        /\ EntityOK(head, "CURRENT")
    <2>1. /\ missions[m] \in MissionHead
          /\ missions[m].created \in Nat /\ missions[m].updated \in Nat /\ t \in Nat
      BY <1>1, <1>2, TimesAreNat, TimesCompare DEF LifecycleTypeOK
    <2>2. missions[m].revision >= 1 /\ missions[m].created <= missions[m].updated
      BY <1>1, <1>2, <1>3, <2>1 DEF ValidCollection, EntityOK, MissionHead
    <2>4. /\ head.revision = missions[m].revision + 1
          /\ head.project = p
          /\ head.created = missions[m].created
          /\ head.updated = t
          /\ head.status = "ARCHIVED"
          /\ head \in MissionHead
      BY <1>1, <2>1, ArchivedMission
    <2>5. missions[m].revision \in Nat
      BY <2>1 DEF MissionHead
    <2>6. head.created <= head.updated /\ head.revision >= 2
      BY <1>1, <2>1, <2>2, <2>4, <2>5
    <2> HIDE DEF head
    <2> QED
      BY <2>4, <2>6 DEF EntityOK
  <1>5. LifecycleTypeOK'
    BY <1>1, <1>2, <1>4, SaveMissionTypes
  <1>6. /\ missions'[m] = head
        /\ DOMAIN missions' = DOMAIN missions
        /\ Hydrates(missions, mission_revisions, m)'
        /\ \A n \in DOMAIN missions \ {m} :
              /\ missions'[n] = missions[n]
              /\ Hydrates(missions, mission_revisions, n)
                    => Hydrates(missions, mission_revisions, n)'
    BY <1>1, SaveMissionRows
  <1>7. /\ \A q : missionsForProject(q)' = missionsForProject(q)
        /\ CurrentMissions(p)' = CurrentMissions(p) \ {m}
        /\ \A q \in DOMAIN projects \ {p} : CurrentMissions(q)' = CurrentMissions(q)
    BY <1>1, <1>4, <1>6 DEF missionsForProject, CurrentMissions
  <1>8. ASSUME NEW q \in DOMAIN projects'
        PROVE  ValidCollection(q)'
    <2>1. \A n \in missionsForProject(q) : n \in DOMAIN missions
      BY DEF missionsForProject
    <2>2. CASE q = p
      BY <1>1, <1>2, <1>3, <1>4, <1>6, <1>7, <2>1, <2>2 DEF ValidCollection, Hydrates
    <2>3. CASE q # p
      <3>1. m \notin missionsForProject(q)
        BY <1>1, <2>3 DEF missionsForProject
      <3>2. /\ projects' = projects /\ project_revisions' = project_revisions
            /\ missionsForProject(q)' = missionsForProject(q)
            /\ CurrentMissions(q)' = CurrentMissions(q)
        BY <1>1, <1>7, <2>3
      <3>3. \A n \in missionsForProject(q) :
               /\ missions'[n] = missions[n]
               /\ Hydrates(missions, mission_revisions, n)
                     => Hydrates(missions, mission_revisions, n)'
        BY <1>6, <2>1, <3>1
      <3>4. ValidCollection(q)
        BY <1>1, <1>2
      <3>5. Hydrates(projects, project_revisions, q)'
        BY <3>2, <3>4 DEF ValidCollection, Hydrates
      <3> QED
        BY <3>2, <3>3, <3>4, <3>5 DEF ValidCollection
    <2> QED
      BY <2>2, <2>3
  <1>9. MissionsFollowOneAnother'
    <2>1. \A q \in DOMAIN projects : \A n \in missionsForProject(q) :
             /\ missions'[n].created = missions[n].created
             /\ n # m => missions'[n] = missions[n]
             /\ projects[q].status = "ARCHIVED" => n # m
      BY <1>1, <1>4, <1>6 DEF missionsForProject
    <2>2. \A n \in missionsForProject(p) \ {m} :
             missions[n].status = "ARCHIVED" /\ missions[n].updated <= missions[m].created
      BY <1>1, <1>2, <1>3 DEF MissionsFollowOneAnother
    <2>3. \A q \in DOMAIN projects : m \in missionsForProject(q) => q = p
      BY <1>1 DEF missionsForProject
    <2> SUFFICES ASSUME NEW q \in DOMAIN projects, NEW n \in missionsForProject(q)
                 PROVE  /\ projects[q].created <= missions'[n].created
                        /\ projects[q].status = "ARCHIVED"
                              => missions'[n].updated <= projects[q].updated
                        /\ \A o \in missionsForProject(q) \ {n} :
                              \/ /\ missions'[n].status = "ARCHIVED"
                                 /\ missions'[n].updated <= missions'[o].created
                              \/ /\ missions'[o].status = "ARCHIVED"
                                 /\ missions'[o].updated <= missions'[n].created
      BY <1>1, <1>7 DEF MissionsFollowOneAnother
    <2>4. projects[q].created <= missions'[n].created
      BY <1>2, <2>1 DEF MissionsFollowOneAnother
    <2>5. projects[q].status = "ARCHIVED" => missions'[n].updated <= projects[q].updated
      BY <1>2, <2>1 DEF MissionsFollowOneAnother
    <2>6. ASSUME NEW o \in missionsForProject(q) \ {n}
          PROVE  \/ /\ missions'[n].status = "ARCHIVED"
                    /\ missions'[n].updated <= missions'[o].created
                 \/ /\ missions'[o].status = "ARCHIVED"
                    /\ missions'[o].updated <= missions'[n].created
      <3>1. CASE n = m \/ o = m
        BY <2>1, <2>2, <2>3, <3>1
      <3>2. CASE n # m /\ o # m
        BY <1>2, <2>1, <3>2 DEF MissionsFollowOneAnother
      <3> QED
        BY <3>1, <3>2
    <2> QED
      BY <2>4, <2>5, <2>6
  <1> QED
    BY <1>5, <1>8, <1>9 DEF LifecycleInv, StoredStateIsReadable

\* A registration touches no Project and no Mission.
LEMMA registerKeeps ==
    ASSUME LifecycleInv, NEW p \in Projects, NEW root \in Roots, register(p, root)
    PROVE  LifecycleInv'
  <1>1. /\ p \in DOMAIN projects
        /\ repositories' = PutRow(repositories, p, root)
        /\ UNCHANGED <<projects, project_revisions, missions, mission_revisions>>
    BY DEF register
  <1>2. LifecycleTypeOK'
    <2>1. /\ repositories' \in [DOMAIN repositories' -> Roots]
          /\ DOMAIN repositories' = DOMAIN repositories \cup {p}
      BY <1>1, PutRowDef, PutRowType DEF LifecycleInv, LifecycleTypeOK
    <2> QED
      BY <1>1, <2>1 DEF LifecycleInv, LifecycleTypeOK
  <1>3. StoredStateIsReadable' /\ MissionsFollowOneAnother'
    BY <1>1 DEF LifecycleInv, StoredStateIsReadable, MissionsFollowOneAnother,
                ValidCollection, Hydrates, missionsForProject, CurrentMissions
  <1> QED
    BY <1>2, <1>3 DEF LifecycleInv

\* Every step keeps the invariant.
LEMMA LifecycleInvStep == LifecycleInv /\ [LifecycleNext]_lifecycleVars => LifecycleInv'
  <1> SUFFICES ASSUME LifecycleInv, [LifecycleNext]_lifecycleVars PROVE LifecycleInv'
    OBVIOUS
  <1>1. CASE UNCHANGED lifecycleVars
    BY <1>1 DEF lifecycleVars, LifecycleInv, LifecycleTypeOK, StoredStateIsReadable,
                MissionsFollowOneAnother, ValidCollection, Hydrates,
                missionsForProject, CurrentMissions
  <1>2. CASE LifecycleNext
    BY <1>2, createProjectKeeps, archiveProjectKeeps, createMissionKeeps,
       archiveMissionKeeps, registerKeeps
    DEF LifecycleNext
  <1> QED
    BY <1>1, <1>2

-----------------------------------------------------------------------------
\* The tables of project-repository.ts and repository-registration.ts keep
\* their types, and every foreign key refers to a stored row.
THEOREM LifecycleTypeCorrect == LifecycleSpec => []LifecycleTypeOK
  BY LifecycleInvInit, LifecycleInvStep, PTL DEF LifecycleSpec, LifecycleInv

\* No sequence of accepted calls makes a Project that its readers refuse.
THEOREM AlwaysReadable == LifecycleSpec => []StoredStateIsReadable
  BY LifecycleInvInit, LifecycleInvStep, PTL DEF LifecycleSpec, LifecycleInv

\* The Missions of a Project follow one another, whatever the clock does.
THEOREM MissionsAreOrdered == LifecycleSpec => []MissionsFollowOneAnother
  BY LifecycleInvInit, LifecycleInvStep, PTL DEF LifecycleSpec, LifecycleInv

-----------------------------------------------------------------------------
(***************************************************************************)
(* Captures and preflights.  Lifecycle rows change only by lifecycle       *)
(* steps, and what a request has read is cut in two by the one move of     *)
(* HEAD it has seen: the reads before it show the old HEAD, those after it *)
(* the present one.                                                        *)
(***************************************************************************)
\* What two reads of HEAD may print together.
Readings == [branch : Branches \cup {None}, commit : Commits \cup {None}]

Evidence == [before : Readings, changes : Changes \cup {None},
             timeOf : Commits \cup {None}, after : Readings]

CaptureTypeOK ==
    /\ HEAD \in [Roots -> Heads]
    /\ worktree \in [Roots -> Changes]
    /\ pc \in [Requests -> {Script[i] : i \in DOMAIN Script} \cup {"idle", "compare", "store"}]
    /\ scope \in [Requests -> [project : Projects \cup {None},
                               mission : Missions \cup {None},
                               root : Roots \cup {None}]]
    /\ read \in [Requests -> Evidence]
    /\ statusHead \in [Requests -> Readings]
    /\ moves \in [Requests -> 0 .. 2]

\* How many of the six reads of HEAD a request has behind it.
ReadsDone(r) ==
    CASE pc[r] \in {"idle", "SYMBOLIC_HEAD"} -> 0
      [] pc[r] = "HEAD_COMMIT"               -> 1
      [] pc[r] = "STATUS"                    -> 2
      [] pc[r] = "COMMIT_TIME"               -> 3
      [] pc[r] = "SYMBOLIC_HEAD_AFTER"       -> 4
      [] pc[r] = "HEAD_COMMIT_AFTER"         -> 5
      [] OTHER                               -> 6

\* The HEAD that the read number i saw: the old one up to the cut.
Seen(r, i, old, cut) == IF i <= cut THEN old ELSE HEAD[scope[r].root]

\* Everything the request has read is what those HEADs print.
CutAt(r, old, cut) ==
    /\ ReadsDone(r) >= 1 => read[r].before.branch = Seen(r, 1, old, cut).branch
    /\ ReadsDone(r) >= 2 => read[r].before.commit = Seen(r, 2, old, cut).commit
    /\ ReadsDone(r) >= 3 => statusHead[r] = Seen(r, 3, old, cut)
    /\ ReadsDone(r) >= 4 /\ IsPilot(r) => read[r].timeOf = Seen(r, 4, old, cut).commit
    /\ ReadsDone(r) >= 5 => read[r].after.branch = Seen(r, 5, old, cut).branch
    /\ ReadsDone(r) >= 6 => read[r].after.commit = Seen(r, 6, old, cut).commit

\* No move: the reads show the present HEAD.  One move: they show two HEADs.
ReadsAreCut(r) ==
    /\ moves[r] = 0 => CutAt(r, HEAD[scope[r].root], 0)
    /\ moves[r] = 1 => \E old \in Heads, cut \in 0 .. ReadsDone(r) :
                          old # HEAD[scope[r].root] /\ CutAt(r, old, cut)

RequestInv(r) ==
    pc[r] # "idle" =>
        /\ scope[r].project \in Projects
        /\ scope[r].root \in Roots
        /\ ReadsAreCut(r)
        /\ pc[r] = "store" => read[r].before = read[r].after

CaptureInv ==
    /\ LifecycleInv
    /\ CaptureTypeOK
    /\ \A r \in Requests : RequestInv(r)
    /\ \A s \in git_snapshots : s.head = s.statusHead \/ s.restored

\* A HEAD prints a branch or nothing, and a commit or nothing.
LEMMA HeadsAreReadings == Heads \subseteq Readings /\ NoHead \in Readings
  BY DEF Heads, Readings, NoHead

\* Two readings with the same branch and the same commit are one.
LEMMA ReadingEquality ==
    ASSUME NEW a \in Readings, NEW b \in Readings,
           a.branch = b.branch, a.commit = b.commit
    PROVE  a = b
  BY DEF Readings

\* The six commands by name.
LEMMA ScriptCommands ==
    {Script[i] : i \in DOMAIN Script} =
        {"SYMBOLIC_HEAD", "HEAD_COMMIT", "STATUS", "COMMIT_TIME",
         "SYMBOLIC_HEAD_AFTER", "HEAD_COMMIT_AFTER"}
  <1>1. /\ DOMAIN Script = 1 .. 6
        /\ Script[1] = "SYMBOLIC_HEAD" /\ Script[2] = "HEAD_COMMIT"
        /\ Script[3] = "STATUS" /\ Script[4] = "COMMIT_TIME"
        /\ Script[5] = "SYMBOLIC_HEAD_AFTER" /\ Script[6] = "HEAD_COMMIT_AFTER"
    BY DEF Script
  <1>2. \A i \in 1 .. 6 : i = 1 \/ i = 2 \/ i = 3 \/ i = 4 \/ i = 5 \/ i = 6
    OBVIOUS
  <1> HIDE DEF Script
  <1> QED
    BY <1>1, <1>2

\* A request whose reads are compared equal read one HEAD, or HEAD came back:
\* a single cut leaves an equal before and after only when the old HEAD, or the
\* present one, was seen from the first read to the last.
LEMMA EqualReadsAreOneHead ==
    ASSUME CaptureTypeOK, NEW r \in Requests, RequestInv(r), pc[r] = "store"
    PROVE  \/ moves[r] = 2
           \/ /\ read[r].before = statusHead[r]
              /\ IsPilot(r) => read[r].timeOf = read[r].before.commit
  <1>1. /\ scope[r].root \in Roots
        /\ ReadsAreCut(r)
        /\ read[r].before = read[r].after
        /\ ReadsDone(r) = 6
    BY DEF RequestInv, ReadsDone
  <1>2. /\ HEAD[scope[r].root] \in Readings
        /\ read[r].before \in Readings
        /\ statusHead[r] \in Readings
        /\ moves[r] \in 0 .. 2
    BY <1>1, HeadsAreReadings DEF CaptureTypeOK, Evidence
  <1>3. CASE moves[r] = 0
    <2>1. CutAt(r, HEAD[scope[r].root], 0)
      BY <1>1, <1>3 DEF ReadsAreCut
    <2>2. /\ read[r].before.branch = HEAD[scope[r].root].branch
          /\ read[r].before.commit = HEAD[scope[r].root].commit
          /\ statusHead[r] = HEAD[scope[r].root]
          /\ IsPilot(r) => read[r].timeOf = HEAD[scope[r].root].commit
      BY <1>1, <2>1 DEF CutAt, Seen
    <2> QED
      BY <1>2, <2>2, ReadingEquality
  <1>4. CASE moves[r] = 1
    <2>1. PICK old \in Heads, cut \in 0 .. 6 :
             old # HEAD[scope[r].root] /\ CutAt(r, old, cut)
      BY <1>1, <1>4 DEF ReadsAreCut
    <2>2. old \in Readings /\ cut \in Nat
      BY HeadsAreReadings
    <2>3. /\ read[r].before.branch = Seen(r, 1, old, cut).branch
          /\ read[r].before.commit = Seen(r, 2, old, cut).commit
          /\ statusHead[r] = Seen(r, 3, old, cut)
          /\ IsPilot(r) => read[r].timeOf = Seen(r, 4, old, cut).commit
          /\ read[r].before.branch = Seen(r, 5, old, cut).branch
          /\ read[r].before.commit = Seen(r, 6, old, cut).commit
      BY <1>1, <2>1 DEF CutAt
    <2>4. CASE cut < 2
      <3>1. /\ Seen(r, 3, old, cut) = HEAD[scope[r].root]
            /\ Seen(r, 4, old, cut) = HEAD[scope[r].root]
            /\ Seen(r, 5, old, cut) = HEAD[scope[r].root]
            /\ Seen(r, 6, old, cut) = HEAD[scope[r].root]
        BY <2>2, <2>4 DEF Seen
      <3> QED
        BY <1>2, <2>3, <3>1, ReadingEquality
    <2>5. CASE cut >= 2 /\ cut < 5
      <3>1. /\ Seen(r, 1, old, cut) = old
            /\ Seen(r, 2, old, cut) = old
            /\ Seen(r, 5, old, cut) = HEAD[scope[r].root]
            /\ Seen(r, 6, old, cut) = HEAD[scope[r].root]
        BY <2>2, <2>5 DEF Seen
      <3>2. old = HEAD[scope[r].root]
        BY <1>2, <2>2, <2>3, <3>1, ReadingEquality
      <3> QED
        BY <2>1, <3>2
    <2>6. CASE cut >= 5
      <3>1. /\ Seen(r, 1, old, cut) = old
            /\ Seen(r, 2, old, cut) = old
            /\ Seen(r, 3, old, cut) = old
            /\ Seen(r, 4, old, cut) = old
        BY <2>2, <2>6 DEF Seen
      <3> QED
        BY <1>2, <2>2, <2>3, <3>1, ReadingEquality
    <2> QED
      BY <2>2, <2>4, <2>5, <2>6
  <1> QED
    BY <1>2, <1>3, <1>4

\* A request that a step leaves alone, in a repository whose HEAD stays.
LEMMA RequestKept ==
    ASSUME NEW r \in Requests, RequestInv(r),
           pc'[r] = pc[r], scope'[r] = scope[r], read'[r] = read[r],
           statusHead'[r] = statusHead[r], moves'[r] = moves[r],
           HEAD'[scope[r].root] = HEAD[scope[r].root]
    PROVE  RequestInv(r)'
  <1>1. ReadsDone(r)' = ReadsDone(r)
    BY DEF ReadsDone
  <1>2. ASSUME NEW i, NEW old, NEW cut
        PROVE  Seen(r, i, old, cut)' = Seen(r, i, old, cut)
    BY DEF Seen
  <1>3. ASSUME NEW old, NEW cut, CutAt(r, old, cut)
        PROVE  CutAt(r, old, cut)'
    BY <1>1, <1>2, <1>3 DEF CutAt, IsPilot
  <1> QED
    BY <1>1, <1>3 DEF RequestInv, ReadsAreCut

\* A request that has finished.
LEMMA RequestFinished ==
    ASSUME NEW r \in Requests, CaptureTypeOK, Finish(r)
    PROVE  /\ RequestInv(r)'
           /\ \A q \in Requests \ {r} :
                 /\ pc'[q] = pc[q] /\ scope'[q] = scope[q] /\ read'[q] = read[q]
                 /\ statusHead'[q] = statusHead[q] /\ moves'[q] = moves[q]
           /\ (HEAD' = HEAD /\ worktree' = worktree) => CaptureTypeOK'
  <1>1. pc'[r] = "idle"
    BY DEF Finish, CaptureTypeOK
  <1>2. \A q \in Requests \ {r} :
           /\ pc'[q] = pc[q] /\ scope'[q] = scope[q] /\ read'[q] = read[q]
           /\ statusHead'[q] = statusHead[q] /\ moves'[q] = moves[q]
    BY DEF Finish, CaptureTypeOK
  <1>3. NoScope \in [project : Projects \cup {None}, mission : Missions \cup {None},
                     root : Roots \cup {None}]
    BY DEF NoScope
  <1>4. NothingPrinted \in Evidence
    BY HeadsAreReadings DEF NothingPrinted, Evidence
  <1>5. (HEAD' = HEAD /\ worktree' = worktree) => CaptureTypeOK'
    BY <1>3, <1>4, HeadsAreReadings DEF Finish, CaptureTypeOK
  <1> QED
    BY <1>1, <1>2, <1>5 DEF RequestInv

\* What a command adds to what was printed before it.
LEMMA PrintedFields ==
    ASSUME NEW r \in Requests, read[r] \in Evidence, NEW command
    PROVE  LET new == Printed(r, command)
               head == HEAD[scope[r].root]
               isLast == command \notin {"SYMBOLIC_HEAD", "HEAD_COMMIT", "STATUS",
                                         "COMMIT_TIME", "SYMBOLIC_HEAD_AFTER"}
           IN  /\ new.before.branch =
                     IF command = "SYMBOLIC_HEAD" THEN head.branch ELSE read[r].before.branch
               /\ new.before.commit =
                     IF command = "HEAD_COMMIT" THEN head.commit ELSE read[r].before.commit
               /\ new.timeOf =
                     IF command = "COMMIT_TIME" THEN head.commit ELSE read[r].timeOf
               /\ new.after.branch =
                     IF command = "SYMBOLIC_HEAD_AFTER" THEN head.branch
                     ELSE read[r].after.branch
               /\ new.after.commit =
                     IF isLast THEN head.commit ELSE read[r].after.commit
  BY DEF Printed, Evidence, Readings

\* What a command prints has its type.
LEMMA PrintedType ==
    ASSUME CaptureTypeOK, NEW r \in Requests, scope[r].root \in Roots, NEW command
    PROVE  Printed(r, command) \in Evidence
  <1>1. /\ read[r] \in Evidence
        /\ HEAD[scope[r].root] \in Readings
        /\ worktree[scope[r].root] \in Changes
    BY HeadsAreReadings DEF CaptureTypeOK
  <1> QED
    BY <1>1 DEF Printed, Evidence, Readings

\* A command takes the request to the next one, and changes no other request.
LEMMA RunCommandStep ==
    ASSUME CaptureTypeOK, NEW r \in Requests, RequestInv(r),
           NEW command \in {Script[i] : i \in DOMAIN Script}, RunCommand(r, command)
    PROVE  /\ pc[r] = command
           /\ pc'[r] = NextCommand(r, command)
           /\ read'[r] = Printed(r, command)
           /\ statusHead'[r] = IF command = "STATUS" THEN HEAD[scope[r].root] ELSE statusHead[r]
           /\ scope[r].root \in Roots
           /\ CaptureTypeOK'
           /\ \A q \in Requests \ {r} :
                 /\ pc'[q] = pc[q] /\ read'[q] = read[q] /\ statusHead'[q] = statusHead[q]
  <1>1. pc[r] = command /\ pc[r] # "idle"
    BY ScriptCommands DEF RunCommand
  <1>2. scope[r].root \in Roots
    BY <1>1 DEF RequestInv
  <1>3. /\ pc'[r] = NextCommand(r, command)
        /\ read'[r] = Printed(r, command)
        /\ statusHead'[r] = IF command = "STATUS" THEN HEAD[scope[r].root] ELSE statusHead[r]
        /\ \A q \in Requests \ {r} :
              /\ pc'[q] = pc[q] /\ read'[q] = read[q] /\ statusHead'[q] = statusHead[q]
    BY DEF RunCommand, CaptureTypeOK
  <1>4. /\ NextCommand(r, command) \in {Script[i] : i \in DOMAIN Script} \cup {"compare"}
        /\ Printed(r, command) \in Evidence
        /\ HEAD[scope[r].root] \in Readings
    <2>1. NextCommand(r, command) \in {Script[i] : i \in DOMAIN Script} \cup {"compare"}
      BY ScriptCommands DEF NextCommand
    <2>2. HEAD[scope[r].root] \in Readings
      BY <1>2, HeadsAreReadings DEF CaptureTypeOK
    <2> QED
      BY <1>2, <2>1, <2>2, PrintedType
  <1>5. CaptureTypeOK'
    <2>1. pc' \in [Requests -> {Script[i] : i \in DOMAIN Script} \cup {"idle", "compare", "store"}]
      BY <1>4 DEF RunCommand, CaptureTypeOK
    <2>2. read' \in [Requests -> Evidence] /\ statusHead' \in [Requests -> Readings]
      BY <1>4 DEF RunCommand, CaptureTypeOK
    <2>3. /\ UNCHANGED <<HEAD, worktree, scope, moves>>
          /\ \A i : Script[i]' = Script[i]
      BY DEF RunCommand, repositoryVars
    <2> QED
      BY <2>1, <2>2, <2>3 DEF CaptureTypeOK, Evidence, Readings, Heads
  <1> QED
    BY <1>1, <1>2, <1>3, <1>5

\* A command reads the present HEAD: the cut lies where it was.
LEMMA RunCommandKeepsCut ==
    ASSUME CaptureTypeOK, NEW r \in Requests, RequestInv(r),
           NEW command \in {Script[i] : i \in DOMAIN Script}, RunCommand(r, command),
           NEW old, NEW cut \in 0 .. ReadsDone(r), CutAt(r, old, cut)
    PROVE  CutAt(r, old, cut)' /\ cut \in 0 .. ReadsDone(r)'
  <1> DEFINE head == HEAD[scope[r].root]
  <1>1. /\ pc[r] = command
        /\ pc'[r] = NextCommand(r, command)
        /\ read'[r] = Printed(r, command)
        /\ statusHead'[r] = IF command = "STATUS" THEN head ELSE statusHead[r]
    BY RunCommandStep
  <1>2. HEAD' = HEAD /\ scope' = scope /\ moves' = moves
    BY DEF RunCommand, repositoryVars
  <1>3. \A i : Seen(r, i, old, cut)' = Seen(r, i, old, cut)
    BY <1>2 DEF Seen
  <1>4. IsPilot(r)' = IsPilot(r)
    BY <1>2 DEF IsPilot
  <1>5. read[r] \in Evidence
    BY DEF CaptureTypeOK
  <1>6. command \in {"SYMBOLIC_HEAD", "HEAD_COMMIT", "STATUS", "COMMIT_TIME",
                     "SYMBOLIC_HEAD_AFTER", "HEAD_COMMIT_AFTER"}
    BY ScriptCommands
  <1>7. ReadsDone(r) \in 0 .. 6
    BY DEF ReadsDone
  <1>8. \A i \in 1 .. 6 : i > ReadsDone(r) => Seen(r, i, old, cut) = head
    BY <1>7 DEF Seen
  <1>9. /\ read'[r].before.branch =
              IF command = "SYMBOLIC_HEAD" THEN head.branch ELSE read[r].before.branch
        /\ read'[r].before.commit =
              IF command = "HEAD_COMMIT" THEN head.commit ELSE read[r].before.commit
        /\ read'[r].timeOf =
              IF command = "COMMIT_TIME" THEN head.commit ELSE read[r].timeOf
        /\ read'[r].after.branch =
              IF command = "SYMBOLIC_HEAD_AFTER" THEN head.branch ELSE read[r].after.branch
        /\ read'[r].after.commit =
              IF command = "HEAD_COMMIT_AFTER" THEN head.commit ELSE read[r].after.commit
    BY <1>1, <1>5, <1>6, PrintedFields
  <1> HIDE DEF head
  <1>10. CASE command = "SYMBOLIC_HEAD"
    <2>1. ReadsDone(r) = 0 /\ ReadsDone(r)' = 1
      BY <1>1, <1>10 DEF ReadsDone, NextCommand
    <2> QED
      BY <1>3, <1>4, <1>8, <1>9, <1>10, <2>1 DEF CutAt
  <1>11. CASE command = "HEAD_COMMIT"
    <2>1. ReadsDone(r) = 1 /\ ReadsDone(r)' = 2
      BY <1>1, <1>11 DEF ReadsDone, NextCommand
    <2> QED
      BY <1>3, <1>4, <1>8, <1>9, <1>11, <2>1 DEF CutAt
  <1>12. CASE command = "STATUS"
    <2>1. /\ ReadsDone(r) = 2
          /\ IsPilot(r) => ReadsDone(r)' = 3
          /\ ~ IsPilot(r) => ReadsDone(r)' = 4
      BY <1>1, <1>12 DEF ReadsDone, NextCommand
    <2> QED
      BY <1>1, <1>3, <1>4, <1>8, <1>9, <1>12, <2>1 DEF CutAt
  <1>13. CASE command = "COMMIT_TIME"
    <2>1. ReadsDone(r) = 3 /\ ReadsDone(r)' = 4
      BY <1>1, <1>13 DEF ReadsDone, NextCommand
    <2> QED
      BY <1>1, <1>3, <1>4, <1>8, <1>9, <1>13, <2>1 DEF CutAt
  <1>14. CASE command = "SYMBOLIC_HEAD_AFTER"
    <2>1. ReadsDone(r) = 4 /\ ReadsDone(r)' = 5
      BY <1>1, <1>14 DEF ReadsDone, NextCommand
    <2> QED
      BY <1>1, <1>3, <1>4, <1>8, <1>9, <1>14, <2>1 DEF CutAt
  <1>15. CASE command = "HEAD_COMMIT_AFTER"
    <2>1. ReadsDone(r) = 5 /\ ReadsDone(r)' = 6
      BY <1>1, <1>15 DEF ReadsDone, NextCommand
    <2> QED
      BY <1>1, <1>3, <1>4, <1>8, <1>9, <1>15, <2>1 DEF CutAt
  <1> QED
    BY <1>6, <1>10, <1>11, <1>12, <1>13, <1>14, <1>15

\* The request that ran a command keeps its invariant.
LEMMA RunCommandKeeps ==
    ASSUME CaptureTypeOK, NEW r \in Requests, RequestInv(r),
           NEW command \in {Script[i] : i \in DOMAIN Script}, RunCommand(r, command)
    PROVE  RequestInv(r)'
  <1>1. pc[r] = command /\ pc'[r] = NextCommand(r, command)
    BY RunCommandStep
  <1>2. HEAD' = HEAD /\ scope' = scope /\ moves' = moves
    BY DEF RunCommand, repositoryVars
  <1>3. pc[r] # "idle" /\ pc'[r] # "store"
    BY <1>1, ScriptCommands DEF NextCommand
  <1>4. ReadsDone(r) \in 0 .. 6
    BY DEF ReadsDone
  <1>5. ReadsAreCut(r)'
    <2>1. ReadsAreCut(r)
      BY <1>3 DEF RequestInv
    <2>2. ASSUME moves[r] = 0, NEW old, old = HEAD[scope[r].root]
          PROVE  CutAt(r, old, 0)'
      <3>1. CutAt(r, old, 0) /\ 0 \in 0 .. ReadsDone(r)
        BY <1>4, <2>1, <2>2 DEF ReadsAreCut
      <3> QED
        BY <3>1, RunCommandKeepsCut
    <2>3. ASSUME moves[r] = 1
          PROVE  \E old \in Heads, cut \in 0 .. ReadsDone(r)' :
                    old # HEAD[scope[r].root] /\ CutAt(r, old, cut)'
      <3>1. PICK old \in Heads, cut \in 0 .. ReadsDone(r) :
               old # HEAD[scope[r].root] /\ CutAt(r, old, cut)
        BY <2>1, <2>3 DEF ReadsAreCut
      <3>2. CutAt(r, old, cut)' /\ cut \in 0 .. ReadsDone(r)'
        BY <3>1, RunCommandKeepsCut
      <3> QED
        BY <3>1, <3>2
    <2>4. moves[r] = 0 => CutAt(r, HEAD[scope[r].root], 0)'
      BY <1>2, <2>2
    <2> QED
      BY <1>2, <2>3, <2>4 DEF ReadsAreCut, Heads
  <1> QED
    BY <1>2, <1>3, <1>5 DEF RequestInv

\* The owner moves HEAD: what the requests watching it have read is cut here.
LEMMA MoveHeadKeeps ==
    ASSUME CaptureTypeOK, NEW root \in Roots, NEW head \in Heads, MoveHead(root, head),
           NEW r \in Requests, RequestInv(r)
    PROVE  RequestInv(r)'
  <1>1. /\ head # HEAD[root]
        /\ HEAD' = [HEAD EXCEPT ![root] = head]
        /\ UNCHANGED <<pc, scope, read, statusHead>>
    BY DEF MoveHead
  <1>2. moves'[r] = IF scope[r].root = root /\ moves[r] < 2 THEN moves[r] + 1 ELSE moves[r]
    BY DEF MoveHead, Watching
  <1>3. ReadsDone(r)' = ReadsDone(r) /\ ReadsDone(r) \in 0 .. 6
    BY <1>1 DEF ReadsDone
  <1>4. CASE pc[r] = "idle"
    BY <1>1, <1>4 DEF RequestInv
  <1>5. CASE pc[r] # "idle" /\ scope[r].root # root
    <2>1. HEAD'[scope[r].root] = HEAD[scope[r].root] /\ moves'[r] = moves[r]
      BY <1>1, <1>2, <1>5 DEF RequestInv, CaptureTypeOK
    <2> QED
      BY <1>1, <2>1, RequestKept
  <1>6. CASE pc[r] # "idle" /\ scope[r].root = root
    <2>1. HEAD'[root] = head /\ HEAD[root] \in Heads
      BY <1>1 DEF CaptureTypeOK
    <2>2. ReadsAreCut(r)
      BY <1>6 DEF RequestInv
    <2>3. ReadsAreCut(r)'
      <3>1. CASE moves[r] = 0
        <4> DEFINE old == HEAD[root]
                   cut == ReadsDone(r)
        <4>1. CutAt(r, old, 0)
          BY <1>6, <2>2, <3>1 DEF ReadsAreCut
        <4>2. \A i \in 1 .. 6 : Seen(r, i, old, 0) = old
          BY <1>6 DEF Seen
        <4>3. ASSUME NEW x, x = old, NEW c, c = cut
              PROVE  CutAt(r, x, c)'
          <5>1. \A i \in 1 .. 6 : c >= i => Seen(r, i, x, c)' = x
            BY <1>3, <4>3 DEF Seen
          <5>2. IsPilot(r)' = IsPilot(r)
            BY <1>1 DEF IsPilot
          <5> HIDE DEF old, cut
          <5> QED
            BY <1>1, <1>3, <4>1, <4>2, <4>3, <5>1, <5>2 DEF CutAt, cut
        <4>4. moves'[r] = 1
          BY <1>2, <1>6, <3>1
        <4>5. old \in Heads' /\ old # HEAD'[scope'[r].root] /\ cut \in 0 .. ReadsDone(r)'
          BY <1>1, <1>3, <1>6, <2>1 DEF Heads
        <4> HIDE DEF old, cut
        <4> QED
          BY <4>3, <4>4, <4>5 DEF ReadsAreCut
      <3>2. CASE moves[r] # 0
        <4>1. moves'[r] = 2
          BY <1>2, <1>6, <3>2 DEF CaptureTypeOK
        <4> QED
          BY <4>1 DEF ReadsAreCut
      <3> QED
        BY <3>1, <3>2
    <2> QED
      BY <1>1, <1>6, <2>3 DEF RequestInv
  <1> QED
    BY <1>4, <1>5, <1>6

\* A request starts with nothing read.
LEMMA StartKeeps ==
    ASSUME CaptureTypeOK, NEW r \in Requests,
           NEW project \in Projects, NEW mission \in Missions \cup {None}, NEW root \in Roots,
           Start(r, project, mission, root)
    PROVE  /\ RequestInv(r)'
           /\ CaptureTypeOK'
           /\ \A q \in Requests \ {r} :
                 pc'[q] = pc[q] /\ scope'[q] = scope[q] /\ moves'[q] = moves[q]
  <1>1. /\ pc'[r] = "SYMBOLIC_HEAD"
        /\ scope'[r] = [project |-> project, mission |-> mission, root |-> root]
        /\ moves'[r] = 0
        /\ \A q \in Requests \ {r} :
              pc'[q] = pc[q] /\ scope'[q] = scope[q] /\ moves'[q] = moves[q]
    BY DEF Start, CaptureTypeOK
  <1>2. ReadsDone(r)' = 0
    BY <1>1 DEF ReadsDone
  <1>3. ReadsAreCut(r)'
    BY <1>1, <1>2 DEF ReadsAreCut, CutAt
  <1>4. CaptureTypeOK'
    <2>1. pc' \in [Requests -> {Script[i] : i \in DOMAIN Script} \cup {"idle", "compare", "store"}]
      BY ScriptCommands DEF Start, CaptureTypeOK
    <2>2. /\ scope' \in [Requests -> [project : Projects \cup {None},
                                      mission : Missions \cup {None},
                                      root : Roots \cup {None}]]
          /\ moves' \in [Requests -> 0 .. 2]
      BY DEF Start, CaptureTypeOK
    <2>3. UNCHANGED <<HEAD, worktree, read, statusHead>>
      BY DEF Start, repositoryVars
    <2> QED
      BY <2>1, <2>2, <2>3 DEF CaptureTypeOK, Evidence, Readings, Heads, Script
  <1> QED
    BY <1>1, <1>3, <1>4 DEF RequestInv

\* A capture takes its Project and its root from the stored rows.
LEMMA BeginStarts ==
    ASSUME LifecycleTypeOK, NEW r \in Requests, NEW m \in Missions, BeginCapture(r, m)
    PROVE  \E project \in Projects, root \in Roots : Start(r, project, m, root)
  <1>1. /\ missions[m].project \in Projects
        /\ repositories[missions[m].project] \in Roots
        /\ Start(r, missions[m].project, m, repositories[missions[m].project])
    BY DEF BeginCapture, ActiveMission, LifecycleTypeOK
  <1> QED
    BY <1>1

\* The rows of the lifecycle change by lifecycle steps only.
LEMMA CaptureStepIsLifecycleStep ==
    ASSUME CaptureInv, [CaptureNext]_captureVars
    PROVE  [LifecycleNext]_lifecycleVars
  <1>1. CASE UNCHANGED captureVars
    BY <1>1 DEF captureVars
  <1>2. CASE LifecycleNext /\ UNCHANGED <<repositoryVars, git_snapshots, requestVars>>
    BY <1>2
  <1>3. ASSUME NEW root \in Roots, Owner(root)
        PROVE  UNCHANGED lifecycleVars
    BY <1>3 DEF Owner, MoveHead, Edit
  <1>4. ASSUME NEW r \in Requests, Request(r)
        PROVE  [LifecycleNext]_lifecycleVars
    <2>1. CASE RegisterPilot(r)
      <3>1. /\ scope[r].project \in Projects
            /\ scope[r].root \in Roots
            /\ register(scope[r].project, scope[r].root)
        BY <2>1 DEF RegisterPilot, CaptureInv, RequestInv
      <3> QED
        BY <3>1 DEF LifecycleNext
    <2>2. CASE ~ RegisterPilot(r)
      BY <1>4, <2>2 DEF Request, BeginCapture, BeginPilot, Start, RunCommand, FailCommand,
         RejectChanged, Compare, StoreSnapshot, RejectStore, RejectPilot
    <2> QED
      BY <2>1, <2>2
  <1> QED
    BY <1>1, <1>2, <1>3, <1>4 DEF CaptureNext

\* A step that leaves HEAD, the requests and the snapshots alone.
LEMMA RequestsUntouched ==
    ASSUME CaptureInv, UNCHANGED <<HEAD, git_snapshots, requestVars>>,
           worktree' \in [Roots -> Changes]
    PROVE  /\ CaptureTypeOK'
           /\ \A r \in Requests : RequestInv(r)'
           /\ \A s \in git_snapshots' : s.head = s.statusHead \/ s.restored
  <1>1. UNCHANGED <<pc, scope, read, statusHead, moves>>
    BY DEF requestVars
  <1>2. \A r \in Requests : RequestInv(r)'
    BY <1>1, RequestKept DEF CaptureInv
  <1>3. CaptureTypeOK'
    BY <1>1 DEF CaptureInv, CaptureTypeOK, Evidence, Readings, Heads, Script
  <1> QED
    BY <1>2, <1>3 DEF CaptureInv

\* A request's step keeps what is known of the requests and of the snapshots.
LEMMA RequestStepKeeps ==
    ASSUME CaptureInv, NEW r \in Requests, Request(r)
    PROVE  /\ CaptureTypeOK'
           /\ \A q \in Requests : RequestInv(q)'
           /\ \A s \in git_snapshots' : s.head = s.statusHead \/ s.restored
  <1> USE DEF CaptureInv
  <1>1. ASSUME NEW project \in Projects, NEW mission \in Missions \cup {None},
               NEW root \in Roots, Start(r, project, mission, root)
        PROVE  /\ CaptureTypeOK'
               /\ \A q \in Requests : RequestInv(q)'
               /\ git_snapshots' = git_snapshots
    <2>1. UNCHANGED <<HEAD, git_snapshots, read, statusHead>>
      BY <1>1 DEF Start, repositoryVars
    <2>2. /\ RequestInv(r)'
          /\ CaptureTypeOK'
          /\ \A q \in Requests \ {r} :
                pc'[q] = pc[q] /\ scope'[q] = scope[q] /\ moves'[q] = moves[q]
      BY <1>1, StartKeeps
    <2>3. ASSUME NEW q \in Requests \ {r} PROVE RequestInv(q)'
      BY <2>1, <2>2, RequestKept
    <2> QED
      BY <2>1, <2>2, <2>3
  <1>2. CASE \E m \in Missions : BeginCapture(r, m)
    BY <1>1, <1>2, BeginStarts DEF LifecycleInv
  <1>3. CASE \E p \in Projects, root \in Roots : BeginPilot(r, p, root)
    BY <1>1, <1>3 DEF BeginPilot
  <1>4. CASE \E i \in DOMAIN Script : RunCommand(r, Script[i])
    <2>1. PICK command \in {Script[i] : i \in DOMAIN Script} : RunCommand(r, command)
      BY <1>4
    <2>2. UNCHANGED <<HEAD, git_snapshots, scope, moves>>
      BY <2>1 DEF RunCommand, repositoryVars
    <2>3. /\ CaptureTypeOK'
          /\ \A q \in Requests \ {r} :
                /\ pc'[q] = pc[q] /\ read'[q] = read[q] /\ statusHead'[q] = statusHead[q]
      BY <2>1, RunCommandStep
    <2>4. RequestInv(r)'
      BY <2>1, RunCommandKeeps
    <2>5. ASSUME NEW q \in Requests \ {r} PROVE RequestInv(q)'
      BY <2>2, <2>3, RequestKept
    <2> QED
      BY <2>2, <2>3, <2>4, <2>5
  <1>5. ASSUME Finish(r), UNCHANGED repositoryVars
        PROVE  CaptureTypeOK' /\ \A q \in Requests : RequestInv(q)'
    <2>1. HEAD' = HEAD /\ worktree' = worktree
      BY <1>5 DEF repositoryVars
    <2>2. /\ RequestInv(r)'
          /\ CaptureTypeOK'
          /\ \A q \in Requests \ {r} :
                /\ pc'[q] = pc[q] /\ scope'[q] = scope[q] /\ read'[q] = read[q]
                /\ statusHead'[q] = statusHead[q] /\ moves'[q] = moves[q]
      BY <1>5, <2>1, RequestFinished
    <2>3. ASSUME NEW q \in Requests \ {r} PROVE RequestInv(q)'
      BY <2>1, <2>2, RequestKept
    <2> QED
      BY <2>2, <2>3
  <1>6. CASE FailCommand(r) \/ RejectChanged(r) \/ RejectStore(r) \/ RejectPilot(r)
    BY <1>5, <1>6 DEF FailCommand, RejectChanged, RejectStore, RejectPilot
  <1>7. CASE RegisterPilot(r)
    BY <1>5, <1>7 DEF RegisterPilot
  <1>8. CASE StoreSnapshot(r)
    <2>1. /\ pc[r] = "store"
          /\ Finish(r)
          /\ UNCHANGED repositoryVars
          /\ git_snapshots' = git_snapshots \cup {Snapshot(r)}
      BY <1>8 DEF StoreSnapshot
    <2>2. moves[r] = 2 \/ read[r].before = statusHead[r]
      BY <2>1, EqualReadsAreOneHead
    <2>3. Snapshot(r).head = Snapshot(r).statusHead \/ Snapshot(r).restored
      <3>1. /\ Snapshot(r).head = read[r].before
            /\ Snapshot(r).statusHead = statusHead[r]
            /\ Snapshot(r).restored = (moves[r] >= 2)
        BY DEF Snapshot
      <3>2. moves[r] = 2 => moves[r] >= 2
        OBVIOUS
      <3> QED
        BY <2>2, <3>1, <3>2
    <2> QED
      BY <1>5, <2>1, <2>3
  <1>9. CASE Compare(r)
    <2>1. /\ pc[r] = "compare"
          /\ read[r].before = read[r].after
          /\ pc' = [pc EXCEPT ![r] = "store"]
          /\ UNCHANGED <<HEAD, worktree, git_snapshots, scope, read, statusHead, moves>>
      BY <1>9 DEF Compare, Acceptable, sameEvidence, repositoryVars
    <2>2. pc'[r] = "store" /\ \A q \in Requests \ {r} : pc'[q] = pc[q]
      BY <2>1 DEF CaptureTypeOK
    <2>3. RequestInv(r)'
      <3>1. ReadsDone(r)' = ReadsDone(r)
        BY <2>1, <2>2 DEF ReadsDone
      <3>2. \A i, old, cut : Seen(r, i, old, cut)' = Seen(r, i, old, cut)
        BY <2>1 DEF Seen
      <3>3. ReadsAreCut(r)'
        BY <2>1, <3>1, <3>2 DEF RequestInv, ReadsAreCut, CutAt, IsPilot, Heads
      <3> QED
        BY <2>1, <2>2, <3>3 DEF RequestInv
    <2>4. ASSUME NEW q \in Requests \ {r} PROVE RequestInv(q)'
      BY <2>1, <2>2, RequestKept
    <2>5. CaptureTypeOK'
      BY <2>1 DEF CaptureTypeOK, Evidence, Readings, Heads, Script
    <2> QED
      BY <2>1, <2>3, <2>4, <2>5
  <1>10. ~ StoreSnapshot(r) => UNCHANGED git_snapshots
    BY DEF Request, BeginCapture, BeginPilot, Start, RunCommand, FailCommand,
       RejectChanged, Compare, RejectStore, RegisterPilot, RejectPilot
  <1> QED
    BY <1>2, <1>3, <1>4, <1>6, <1>7, <1>8, <1>9, <1>10 DEF Request

\* No request is under way and no snapshot is stored.
LEMMA CaptureInvInit == CaptureInit => CaptureInv
  <1> SUFFICES ASSUME CaptureInit PROVE CaptureInv
    OBVIOUS
  <1>1. LifecycleInv
    BY LifecycleInvInit DEF CaptureInit
  <1>2. CaptureTypeOK
    BY HeadsAreReadings DEF CaptureInit, CaptureTypeOK, NoScope, NothingPrinted, Evidence
  <1>3. \A r \in Requests : RequestInv(r)
    BY DEF CaptureInit, RequestInv
  <1> QED
    BY <1>1, <1>2, <1>3 DEF CaptureInit, CaptureInv

\* Every step keeps the invariant.
LEMMA CaptureInvStep == CaptureInv /\ [CaptureNext]_captureVars => CaptureInv'
  <1> SUFFICES ASSUME CaptureInv, [CaptureNext]_captureVars PROVE CaptureInv'
    OBVIOUS
  <1>1. LifecycleInv'
    BY CaptureStepIsLifecycleStep, LifecycleInvStep DEF CaptureInv
  <1>2. CASE UNCHANGED <<repositoryVars, git_snapshots, requestVars>>
    <2>1. UNCHANGED <<HEAD, git_snapshots, requestVars>> /\ worktree' \in [Roots -> Changes]
      BY <1>2 DEF repositoryVars, CaptureInv, CaptureTypeOK
    <2> QED
      BY <1>1, <2>1, RequestsUntouched DEF CaptureInv
  <1>3. ASSUME NEW root \in Roots, NEW changes \in Changes, Edit(root, changes)
        PROVE  CaptureInv'
    <2>1. UNCHANGED <<HEAD, git_snapshots, requestVars>> /\ worktree' \in [Roots -> Changes]
      BY <1>3 DEF Edit, CaptureInv, CaptureTypeOK
    <2> QED
      BY <1>1, <2>1, RequestsUntouched DEF CaptureInv
  <1>4. ASSUME NEW root \in Roots, NEW head \in Heads, MoveHead(root, head)
        PROVE  CaptureInv'
    <2>1. \A r \in Requests : RequestInv(r)'
      BY <1>4, MoveHeadKeeps DEF CaptureInv
    <2>2. CaptureTypeOK'
      <3>1. HEAD' \in [Roots -> Heads]
        BY <1>4 DEF MoveHead, CaptureInv, CaptureTypeOK
      <3>2. moves' \in [Requests -> 0 .. 2]
        <4>1. \A r \in Requests : moves[r] \in 0 .. 2
          BY DEF CaptureInv, CaptureTypeOK
        <4>2. moves' = [r \in Requests |->
                  IF r \in Watching(root) /\ moves[r] < 2 THEN moves[r] + 1 ELSE moves[r]]
          BY <1>4 DEF MoveHead
        <4> QED
          BY <4>1, <4>2
      <3>3. UNCHANGED <<worktree, pc, scope, read, statusHead>>
        BY <1>4 DEF MoveHead
      <3> QED
        BY <3>1, <3>2, <3>3 DEF CaptureInv, CaptureTypeOK, Evidence, Readings, Heads, Script
    <2>3. git_snapshots' = git_snapshots
      BY <1>4 DEF MoveHead
    <2> QED
      BY <1>1, <2>1, <2>2, <2>3 DEF CaptureInv
  <1>5. ASSUME NEW r \in Requests, Request(r)
        PROVE  CaptureInv'
    BY <1>1, <1>5, RequestStepKeeps DEF CaptureInv
  <1> QED
    BY <1>2, <1>3, <1>4, <1>5 DEF CaptureNext, Owner, captureVars

\* A capture's evidence, and a preflight's, is HEAD as the status command read it.
LEMMA InvIsOneInstant == CaptureInv => EvidenceOfOneInstant
  BY EqualReadsAreOneHead DEF CaptureInv, EvidenceOfOneInstant

-----------------------------------------------------------------------------
\* No lifecycle step changes an archived Project, its Missions or its root.
LEMMA LifecycleStepFreezes ==
    ASSUME LifecycleInv, [LifecycleNext]_lifecycleVars,
           NEW p \in DOMAIN projects, projects[p].status = "ARCHIVED"
    PROVE  /\ projects'[p] = projects[p]
           /\ missionsForProject(p)' = missionsForProject(p)
           /\ \A m \in missionsForProject(p) : missions'[m] = missions[m]
           /\ p \in DOMAIN repositories' => p \in DOMAIN repositories
  <1>1. CASE UNCHANGED lifecycleVars
    BY <1>1 DEF lifecycleVars, missionsForProject
  <1>2. ASSUME NEW q \in Projects, NEW t \in Times, createProject(q, t)
        PROVE  /\ projects'[p] = projects[p]
               /\ UNCHANGED <<missions, repositories>>
    BY <1>2, SaveProjectRows DEF createProject
  <1>3. ASSUME NEW q \in Projects, NEW t \in Times, archiveProject(q, t)
        PROVE  /\ projects'[p] = projects[p]
               /\ UNCHANGED <<missions, repositories>>
    <2>1. q # p
      BY <1>3 DEF archiveProject, archiveProjectEntity
    <2> QED
      BY <1>3, <2>1, SaveProjectRows DEF archiveProject
  <1>4. ASSUME NEW q \in Projects, NEW m \in Missions, NEW t \in Times, createMission(q, m, t)
        PROVE  /\ UNCHANGED <<projects, repositories>>
               /\ missionsForProject(p)' = missionsForProject(p)
               /\ \A n \in missionsForProject(p) : missions'[n] = missions[n]
    <2>1. /\ q # p /\ m \notin DOMAIN missions
          /\ SaveMission(m, NewMission(q, t))
          /\ UNCHANGED <<projects, repositories>>
      BY <1>4 DEF createMission, createChangeMission
    <2>2. NewMission(q, t).project = q
      BY DEF NewMission
    <2>3. /\ missions'[m].project = q
          /\ DOMAIN missions' = DOMAIN missions \cup {m}
          /\ \A n \in DOMAIN missions \ {m} : missions'[n] = missions[n]
      BY <2>1, <2>2, SaveMissionRows
    <2> QED
      BY <2>1, <2>3 DEF missionsForProject
  <1>5. ASSUME NEW q \in Projects, NEW m \in Missions, NEW t \in Times, archiveMission(q, m, t)
        PROVE  /\ UNCHANGED <<projects, repositories>>
               /\ missionsForProject(p)' = missionsForProject(p)
               /\ \A n \in missionsForProject(p) : missions'[n] = missions[n]
    <2>1. /\ q # p /\ m \in DOMAIN missions /\ missions[m].project = q
          /\ SaveMission(m, Archived(missions[m], t))
          /\ UNCHANGED <<projects, repositories>>
      BY <1>5 DEF archiveMission, archiveChangeMission, Hydrates
    <2>2. Archived(missions[m], t).project = q
      BY <2>1, ArchivedMission DEF LifecycleInv, LifecycleTypeOK
    <2>3. /\ missions'[m].project = q
          /\ DOMAIN missions' = DOMAIN missions \cup {m}
          /\ \A n \in DOMAIN missions \ {m} : missions'[n] = missions[n]
      BY <2>1, <2>2, SaveMissionRows
    <2> QED
      BY <2>1, <2>3 DEF missionsForProject
  <1>6. ASSUME NEW q \in Projects, NEW root \in Roots, register(q, root)
        PROVE  /\ UNCHANGED <<projects, missions>>
               /\ p \in DOMAIN repositories' => p \in DOMAIN repositories
    <2>1. /\ q # p
          /\ repositories' = PutRow(repositories, q, root)
          /\ UNCHANGED <<projects, missions>>
      BY <1>6 DEF register
    <2>2. DOMAIN repositories' = DOMAIN repositories \cup {q}
      BY <2>1, PutRowDef
    <2> QED
      BY <2>1, <2>2
  <1>7. UNCHANGED missions => missionsForProject(p)' = missionsForProject(p)
    BY DEF missionsForProject
  <1>8. missionsForProject(p) \subseteq DOMAIN missions
    BY DEF missionsForProject
  <1> QED
    BY <1>1, <1>2, <1>3, <1>4, <1>5, <1>6, <1>7 DEF LifecycleNext

\* A snapshot is stored for a Project that is active when it is stored.
LEMMA CaptureStepFreezes ==
    ASSUME CaptureInv, [CaptureNext]_captureVars,
           NEW p \in DOMAIN projects, projects[p].status = "ARCHIVED"
    PROVE  SnapshotsOf(p)' = SnapshotsOf(p)
  <1>1. ASSUME NEW r \in Requests, StoreSnapshot(r)
        PROVE  SnapshotsOf(p)' = SnapshotsOf(p)
    <2>1. git_snapshots' = git_snapshots \cup {Snapshot(r)}
      BY <1>1 DEF StoreSnapshot
    <2>2. Snapshot(r).project = scope[r].project
      BY DEF Snapshot
    <2>3. scope[r].project # p
      BY <1>1 DEF StoreSnapshot, Storable, ActiveMission
    <2> QED
      BY <2>1, <2>2, <2>3 DEF SnapshotsOf
  <1>2. ASSUME NEW r \in Requests, Request(r), ~ StoreSnapshot(r)
        PROVE  git_snapshots' = git_snapshots
    BY <1>2 DEF Request, BeginCapture, BeginPilot, Start, RunCommand, FailCommand,
       RejectChanged, Compare, RejectStore, RegisterPilot, RejectPilot
  <1>3. ASSUME NEW root \in Roots, Owner(root)
        PROVE  git_snapshots' = git_snapshots
    BY <1>3 DEF Owner, MoveHead, Edit
  <1>4. git_snapshots' = git_snapshots => SnapshotsOf(p)' = SnapshotsOf(p)
    BY DEF SnapshotsOf
  <1> QED
    BY <1>1, <1>2, <1>3, <1>4 DEF CaptureNext, captureVars

\* Nothing of an archived Project changes.
LEMMA FrozenStep ==
    ASSUME CaptureInv, [CaptureNext]_captureVars
    PROVE  \A p \in DOMAIN projects : projects[p].status = "ARCHIVED" =>
              /\ projects'[p] = projects[p]
              /\ missionsForProject(p)' = missionsForProject(p)
              /\ \A m \in missionsForProject(p) : missions'[m] = missions[m]
              /\ p \in DOMAIN repositories' => p \in DOMAIN repositories
              /\ SnapshotsOf(p)' = SnapshotsOf(p)
  BY CaptureStepIsLifecycleStep, LifecycleStepFreezes, CaptureStepFreezes DEF CaptureInv

-----------------------------------------------------------------------------
\* git-snapshot-service.ts and local-pilot: the evidence that a capture stores,
\* and that a preflight accepts, is HEAD as it was at the status command, for
\* any number of requests, repositories, branches and commits, unless HEAD was
\* moved twice under the request.
THEOREM CapturesSeeOneInstant == CaptureSpec => []EvidenceOfOneInstant
  BY CaptureInvInit, CaptureInvStep, InvIsOneInstant, PTL DEF CaptureSpec

\* Captures and preflights keep the contract of the Projects and Missions they
\* run beside: what they do to those tables is what the lifecycle allows.
THEOREM CaptureImplementsLifecycle == CaptureSpec => LifecycleSpec
  <1>1. CaptureInit => LifecycleInit
    BY DEF CaptureInit
  <1> QED
    BY <1>1, CaptureInvInit, CaptureInvStep, CaptureStepIsLifecycleStep, PTL
    DEF CaptureSpec, LifecycleSpec

\* An archived Project, its Missions, its root and its snapshots never change,
\* not even by a request that began before it was archived.
THEOREM ArchivedStaysFrozen == CaptureSpec => ArchivedIsFrozen
  BY CaptureInvInit, CaptureInvStep, FrozenStep, PTL DEF CaptureSpec, ArchivedIsFrozen
=============================================================================
