------------------------ MODULE MCGitSnapshotCapture ------------------------
(* Small instances of GitSnapshotCapture for TLC. *)
EXTENDS GitSnapshotCapture, TLC

Symmetry == Permutations(Branches) \cup Permutations(Commits)

=============================================================================
