------------------------------ MODULE MCSettings ------------------------------
(* Settings for TLC: saves are interchangeable.                             *)
EXTENDS Settings, TLC

Interchangeable == Permutations(Requests)

=============================================================================
