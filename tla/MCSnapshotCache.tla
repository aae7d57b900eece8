--------------------------- MODULE MCSnapshotCache ---------------------------
(***************************************************************************)
(* SnapshotCache for TLC.  Requests are interchangeable, and so are the      *)
(* structures that have tables: every property is an invariant.             *)
(***************************************************************************)
EXTENDS SnapshotCache, TLC

Interchangeable == Permutations(Requests) \cup Permutations(Schemas \ {Empty})

=============================================================================
