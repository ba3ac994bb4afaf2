---------------------------- MODULE MCReadiness ----------------------------
(* Small instances of Readiness for TLC.                                   *)
EXTENDS Readiness, TLC

\* Three stamps in two milliseconds: 1 and 2 differ only by their record ids.
MCUtcMs == [s \in Stamps |-> s \div 3]

-----------------------------------------------------------------------------
(* Two assessments race, or one meets a view: who is absent has no action. *)
MCInit ==
    /\ snapshots = {}
    /\ reconciliations = <<>>
    /\ validations = <<>>
    /\ reviews = <<>>
    /\ assessments = <<>>
    /\ \E absent \in Viewers \cup {CHOOSE a \in Assessors : TRUE} :
          pc = [p \in Requests |-> IF p = absent THEN "absent" ELSE "idle"]
    /\ draft = [p \in Requests |-> NothingRead]
    /\ todo = [p \in Requests |-> {}]
    /\ base = [p \in Requests |-> 0]
    /\ reply = [p \in Requests |-> NoReply]
    /\ started = [p \in Requests |-> [inputs |-> NothingRead, revision |-> 0]]

MCFairSpec == MCInit /\ [][Next]_vars /\ Fairness
=============================================================================
