---------------------------- MODULE MCActiveTwin ----------------------------
(* Small instances of ActiveTwin and of TwinProjection for TLC.            *)
EXTENDS ActiveTwin, TwinProjection, TLC

Symmetry == Permutations(Materializers) \cup Permutations(Documents)

-----------------------------------------------------------------------------
(* One claim corrects the other, one result replaces the other.            *)
MCSourceOf == [c1 |-> "e1", c2 |-> "e1", v1 |-> "e2", v2 |-> "e2"]

MCCorrections == {[successor |-> "c2", predecessor |-> "c1"]}

MCSnapshotOf == [v1 |-> "g1", v2 |-> "g2"]

MCKeyOfResult == [v1 |-> "k1", v2 |-> "k1"]

\* A code map of two files, one where the first has changed, one without the
\* second: from one to another, files and the edge between them change, vanish
\* and return.
Imports(from, to) == [id |-> <<from, to>>, kind |-> "IMPORTS", from |-> from, to |-> to]

BothFiles == [assets |-> [a1 |-> 1, a2 |-> 1], edges |-> {Imports("a2", "a1")}]

MCAssetMaps ==
    {BothFiles,
     [BothFiles EXCEPT !.assets.a1 = 2],
     [assets |-> [a1 |-> 1], edges |-> {}]}

MCDeclarations ==
    {[key |-> "claim", type |-> "AFFECTS", from |-> Node("Claim", "c1"),
      to |-> Node("SoftwareAsset", "a1")],
     [key |-> "result", type |-> "VALIDATED_BY", from |-> Node("SoftwareAsset", "a1"),
      to |-> Node("ValidationResult", "v1")],
     [key |-> "result", type |-> "VALIDATED_BY", from |-> Node("SoftwareAsset", "a1"),
      to |-> Node("ValidationResult", "v2")]}

\* Nothing, or a bit of everything.
MCStoredBefore ==
    {NothingStored,
     [NothingStored EXCEPT
         !.evidence = {"e1", "e2"}, !.claims = {"c1"}, !.snapshots = {"g1", "g2"},
         !.results = {"v1"}, !.mapped = {"g1"},
         !.map = [snapshot |-> "g1", assets |-> BothFiles.assets, edges |-> BothFiles.edges]]}

-----------------------------------------------------------------------------
(* The projections start in each of their initial states; the              *)
(* materializations run where nothing is stored, and neither while the     *)
(* other does.                                                             *)
MCInit == TwinInit /\ ProjectionInit

MCNext ==
    \/ ProjectionInit /\ stored = NothingStored /\ TwinNext /\ UNCHANGED projectionVars
    \/ TwinInit /\ ProjectionNext /\ UNCHANGED twinVars

MCSpec == MCInit /\ [][MCNext]_<<twinVars, projectionVars>>
=============================================================================
