------------------------- MODULE MCReleasePassport -------------------------
(* Small instances of Readiness and of ReleasePassport for TLC.            *)
EXTENDS ReleasePassport, TLC

VARIABLE observed   \* by whom: "VIEWS" or "PASSPORTS"; the others stay idle

\* Three stamps in two milliseconds: 1 and 2 differ only by their record ids.
MCUtcMs == [s \in Stamps |-> s \div 3]

Symmetry == Permutations(Projectors)

-----------------------------------------------------------------------------
(* A view and a projection share only what the other requests write.       *)
MCInit ==
    /\ PassportInit
    /\ observed \in {"VIEWS", "PASSPORTS"}

MCNext ==
    /\ \/ observed = "VIEWS" /\ Next /\ UNCHANGED passportVars
       \/ observed = "PASSPORTS" /\ PassportNext /\ \A v \in Viewers : pc'[v] = pc[v]
    /\ UNCHANGED observed

MCSpec == MCInit /\ [][MCNext]_<<allVars, observed>>
=============================================================================
