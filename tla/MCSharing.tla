------------------------------ MODULE MCSharing ------------------------------
(* A dashboard and a connection of one user, a connection of an admin's, and  *)
(* one more user.                                                           *)
EXTENDS Sharing, TLC

CONSTANTS u, v, a, c1, c2

MCOwner == [x \in Objects |-> IF x = c2 THEN a ELSE u]
MCRank == [k \in Keys |-> CASE k[1] = u -> 0 [] k[1] = v -> 1 [] OTHER -> 2]
MCPlaces == { [x |-> 0, y |-> 0], [x |-> 1, y |-> 0], [x |-> 0, y |-> 1] }
List(ofV, ofA) == [p \in People |-> IF p = v THEN ofV ELSE IF p = a THEN ofA ELSE "view"]
MCShareLists == { List(Nothing, Nothing), List("edit", "edit"), List("view", Nothing) }
MCGranted == { {}, {<<v, Board>>, <<a, Board>>, <<v, c1>>, <<Text, c1>>} }

Interchangeable == Permutations(Requests)

=============================================================================
