---------------------------- MODULE MCToolLoops ----------------------------
(* Two schemas with an equally named table, and two tables more.           *)
EXTENDS ToolLoops

T(s, n) == [schema |-> s, name |-> n]
MCTables == << T("public", "orders"), T("public", "users"), T("sales", "orders"), T("public", "items") >>
MCSnapshots == {<<>>, MCTables}
MCRequests == { {}, {<<"orders">>}, {<<"sales", "orders">>, <<"bogus">>}, {<<"users">>, <<"items">>} }
MCCost == [n \in {<<"orders">>, <<"users">>, <<"sales", "orders">>, <<"items">>} |-> IF n = <<"sales", "orders">> THEN 2 ELSE 1]

=============================================================================
