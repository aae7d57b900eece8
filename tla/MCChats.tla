------------------------------- MODULE MCChats -------------------------------
(* Chats for TLC: requests are interchangeable.                             *)
EXTENDS Chats, TLC

Interchangeable == Permutations(Requests)

=============================================================================
