------------------------------ MODULE MCAccounts ------------------------------
(***************************************************************************)
(* Accounts for TLC: requests are interchangeable.                          *)
(***************************************************************************)
EXTENDS Accounts, TLC

CONSTANTS a1, a2, m1, m2

MCMailbox == [f \in Founders |-> IF f = a1 THEN m1 ELSE m2]

Interchangeable == Permutations(Requests)

=============================================================================
