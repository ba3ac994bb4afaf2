-------------------------- MODULE ReleasePassport --------------------------
(***************************************************************************)
(* Release Passports over the readiness history: concurrent requests       *)
(* project a stored assessment into the release_passports table.  The      *)
(* module adds the projectors and their table to Readiness and interleaves *)
(* their segments with all of its steps.                                   *)
(***************************************************************************)
EXTENDS Readiness

CONSTANT Projectors   \* concurrent POST .../assessments/:revision/passport requests

ASSUME ProjectorsDisjoint == Projectors \cap Requests = {}

VARIABLES
    passports,   \* release_passports: assessment revision -> [by, status]
    at,          \* where each projector is
    revision,    \* the assessment revision each projector projects
    answers      \* every answer given so far: [revision, passport]

passportVars == <<passports, at, revision, answers>>
allVars == <<vars, passportVars>>

PassportInit ==
    /\ Init
    /\ passports = <<>>
    /\ at = [p \in Projectors |-> "idle"]
    /\ revision = [p \in Projectors |-> 0]
    /\ answers = {}

-----------------------------------------------------------------------------
MoveTo(p, label) == at' = [at EXCEPT ![p] = label]

Done(p) ==
    /\ MoveTo(p, "idle")
    /\ revision' = [revision EXCEPT ![p] = 0]

Return(p, passport) ==
    /\ Done(p)
    /\ answers' = answers \cup {[revision |-> revision[p], passport |-> passport]}

\* project() reads the assessment it is asked for, or the latest, and then looks
\* for its Passport, which is the answer if it is there.  The assessment's row
\* never changes: only the moment of the second read matters.
Lookup(p, r) ==
    /\ at[p] = "idle"
    /\ r \in DOMAIN assessments
    /\ \/ /\ r \in DOMAIN passports
          /\ answers' = answers \cup {[revision |-> r, passport |-> passports[r]]}
          /\ UNCHANGED <<passports, at, revision>>
       \/ /\ r \notin DOMAIN passports
          /\ MoveTo(p, "commit")
          /\ revision' = [revision EXCEPT ![p] = r]
          /\ UNCHANGED <<passports, answers>>

\* createReleasePassport: a wall clock behind the assessment's time is refused.
RejectPassportTime(p) ==
    /\ at[p] = "commit"
    /\ Done(p)
    /\ UNCHANGED <<passports, answers>>

\* The Passport reproduces the assessment's status; it evaluates nothing.
NewPassport(p) == [by |-> p, status |-> assessments[revision[p]].status]

\* Mutant: the transaction replaces the Passport that a competitor inserted.
CommitPassport_Replaces(p) ==
    /\ at[p] = "commit"
    /\ passports' = WithRow(passports, revision[p], NewPassport(p))
    /\ Return(p, NewPassport(p))

ReturnExisting(p) ==
    /\ revision[p] \in DOMAIN passports
    /\ Return(p, passports[revision[p]])
    /\ UNCHANGED passports

\* The IMMEDIATE transaction of persist.  The assessment row is immutable, so
\* the comparison of the candidate with it cannot fail.
CommitPassport(p) ==
    /\ at[p] = "commit"
    /\ \/ ReturnExisting(p)
       \/ /\ revision[p] \notin DOMAIN passports
          /\ passports' = WithRow(passports, revision[p], NewPassport(p))
          /\ Return(p, NewPassport(p))

Project(p) ==
    \/ \E r \in DOMAIN assessments : Lookup(p, r)
    \/ RejectPassportTime(p)
    \/ CommitPassport(p)

PassportNext ==
    \/ Next /\ UNCHANGED passportVars
    \/ \E p \in Projectors : Project(p) /\ UNCHANGED vars

PassportSpec == PassportInit /\ [][PassportNext]_allVars

-----------------------------------------------------------------------------
Passport == [by : Projectors, status : READINESS_STATUSES]

\* Competing projections of one assessment answer with one and the same
\* Passport, and it is the one stored (docs/development/TESTING.md:590).
PassportsConverge ==
    \A a \in answers :
        a.revision \in DOMAIN passports /\ a.passport = passports[a.revision]

\* A Passport that says READY, of an assessment that is not stale, means that
\* the release gate is open now, however long ago and through whatever race
\* it was projected.
ReadyPassportMeansOpen ==
    \A r \in DOMAIN passports :
        /\ passports[r].status = "READY"
        /\ DerivedStatus(assessments[r], CurrentInputs) # "STALE"
        => GateOpen
=============================================================================
