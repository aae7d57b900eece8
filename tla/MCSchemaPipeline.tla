-------------------------- MODULE MCSchemaPipeline --------------------------
(* Databases: for what CHECK clauses say, for what probes see, with tables   *)
(* of one name in two schemas, and one whose tables are all out of sight;   *)
(* and statements of one to three scopes over their names.                  *)
EXTENDS SchemaPipeline

Col(n, textual, enum, content) == [name |-> n, textual |-> textual, enum |-> enum, content |-> content]
Plain(n) == Col(n, FALSE, {}, {})
Text(n, content) == Col(n, TRUE, {}, content)
In(c, lits) == [op |-> "in", negated |-> FALSE, column |-> c, literals |-> lits]
NotIn(c, lits) == [In(c, lits) EXCEPT !.negated = TRUE]
Eq(c, lits) == [In(c, lits) EXCEPT !.op = "eq"]
\* One member, whose column is read, or something else.
CheckRead(all, parts, read) == [all |-> all, parts |-> parts, read |-> read]
Check(all, parts) == CheckRead(all, parts, LET members == {p \in parts : p.op = "in"}
                                           IN (CHOOSE p \in members : TRUE).column)
Fk(con, c, table, rc) == [constraint |-> con, column |-> c, refSchema |-> "public", refTable |-> table, refColumn |-> rc]
Table(schema, name, columns, checks, fkRows) ==
  [schema |-> schema, name |-> name, columns |-> columns, pk |-> {"id"}, checks |-> checks, fkRows |-> fkRows]

Checks == << Table("public", "orders",
                << Plain("id"), Text("status", {"a", "b"}), Text("kind", {"a"}), Col("state", FALSE, {"a", "b"}, {}),
                   Text("tier", {"a"}), Text("flag", {"c"}) >>,
                { Check(TRUE, {In("status", {"a", "b"})}),
                  Check(TRUE, {In("state", {"a"})}),
                  Check(FALSE, {In("kind", {"a"}), Eq("status", {"b"})}),
                  Check(TRUE, {In("tier", {"a", "b"})}), Check(TRUE, {In("tier", {"a", "c"}), Eq("id", {"b"})}),
                  Check(TRUE, {NotIn("flag", {"a"})}) }, <<>>) >>

\* What the search reads is not what the clause is about, or nothing.
Heads == << Table("public", "orders", << Plain("id"), Text("status", {"a", "b"}), Text("level", {"c"}), Plain("order-status") >>,
               { CheckRead(TRUE, {In("lower(level)", {"a"})}, "level"),
                 CheckRead(TRUE, {In("level || status", {"b"})}, ""),
                 CheckRead(TRUE, {In("order-status", {"a"})}, "status") }, <<>>) >>

Probes == << Table("public", "orders",
                << Text("id", {"a", "b"}), Text("status", {"a", "b"}), Text("kind", {"a", "b", "c"}), Plain("note") >>,
                {}, << Fk("f1", "status", "users", "id"), Fk("f1", "kind", "users", "name"),
                       Fk("f2", "note", "users", "name") >>),
             Table("public", "users", <<Plain("id"), Text("name", {"a"})>>, {}, <<>>) >>

Schemas == << Table("pgboss", "orders", <<Plain("id")>>, {}, <<>>),
              Table("public", "orders", <<Plain("id"), Plain("user")>>, {}, << Fk("f1", "user", "users", "id") >>),
              Table("public", "users", <<Plain("id")>>, {}, <<>>),
              Table("sales", "orders", <<Plain("id"), Text("note", {})>>, {}, << Fk("f1", "id", "users", "id") >>) >>

Many == << Table("public", "items", <<Plain("id"), Plain("user"), Plain("note")>>, {},
                 << Fk("f1", "id", "orders", "id") >>) >> \o SubSeq(Schemas, 2, 3)

Source(tables, dialect, schemas, allow) ==
  [tables |-> tables, dialect |-> dialect, schemas |-> schemas, allow |-> allow, sampling |-> TRUE]

Unsampled(tables, dialect) == [Source(tables, dialect, {}, {}) EXCEPT !.sampling = FALSE]

MCSources ==
  << Source(Checks, "postgres", {}, {}), Unsampled(Checks, "mysql"), Source(Probes, "postgres", {}, {}),
     Source(Schemas, "postgres", {}, {}), Source(Schemas, "postgres", {"sales", "pgboss"}, {}),
     Source(Schemas, "mysql", {}, {"orders"}), Source(Many, "postgres", {}, {}),
     Source(Schemas, "postgres", {"other"}, {}), Source(Heads, "postgres", {}, {}), Source(Heads, "mysql", {}, {}),
     Unsampled(Probes, "mysql") >>

MCChars(t) == 31 + 10 * Len(t.columns) + 5 * Len(t.fks)

-----------------------------------------------------------------------------
From(db, name) == [kind |-> "table", db |-> db, name |-> name, renames |-> <<>>]
Function == [kind |-> "function", renames |-> <<>>]
Sub(k) == [kind |-> "scope", scope |-> k, renames |-> <<>>]
As(src, list) == [src EXCEPT !.renames = list]   \* with a column alias list
Ref(q, c, late) == [table |-> q, name |-> c, late |-> late]
Scope(parent, sees, srcs, columns, aliases, outputs) ==
  [parent |-> parent, sees |-> sees, sources |-> srcs, columns |-> columns, aliases |-> aliases, outputs |-> outputs]

Written == { From("", "orders"), From("", "bogus"), From("sales", "orders"), From("pg_catalog", "pg_class"), Function }
References == { Ref("o", "id", FALSE), Ref("o", "note", FALSE), Ref("x", "id", FALSE), Ref("", "user", FALSE),
                Ref("", "total", TRUE), Ref("", "total", FALSE), Ref("orders", "note", FALSE), Ref("", "note", FALSE), Ref("", "o", FALSE), Ref("", "ctid", FALSE) }

\* One scope; a derived table under it; a subquery beside its table.
Flat == { << Scope(0, FALSE, [a \in {"o"} |-> s], {r}, {"total"}, {"id", "total"}) >> : s \in Written, r \in References }
Derived == { << Scope(0, FALSE, [a \in {alias} |-> Sub(2)], {r}, {}, {"id"}),
                Scope(1, FALSE, [a \in {"u"} |-> s], inner, {}, out) >> :
               alias \in {"o", "orders"}, s \in {From("", "orders"), From("", "users"), Function}, r \in References,
               inner \in {{}, {Ref("", "id", FALSE)}, {Ref("o", "id", FALSE)}}, out \in {{"id"}, {"*"}} }
Nested == { << Scope(0, FALSE, [a \in {"o"} |-> s], {Ref("o", "id", FALSE)}, {}, {"id"}),
               Scope(1, sees, [a \in {"u"} |-> From("", "users")], {r}, {}, {"id"}) >> :
              s \in {From("", "orders"), From("sales", "orders")}, r \in References, sees \in BOOLEAN }

\* Column alias lists: of a table, of a derived table, of a recursive CTE.
ListedNames == { Ref("o", "id", FALSE), Ref("", "id", FALSE), Ref("o", "a", FALSE), Ref("", "a", FALSE), Ref("o", "user", FALSE) }
IdAsA == [n \in {"id"} |-> "a"]
WithList == { << Scope(0, FALSE, [a \in {"o"} |-> As(From("", "orders"), IdAsA)], {r}, {}, {"id"}) >> : r \in ListedNames }
           \union { << Scope(0, FALSE, [a \in {"o"} |-> As(Sub(2), IdAsA)], {r}, {}, {"id"}),
                      Scope(1, FALSE, [a \in {"u"} |-> From("", "orders")], {}, {}, out) >> :
                     r \in ListedNames, out \in {{"id"}, {"*"}} }
Counter == As(Sub(2), [n \in {"1"} |-> "n"])
RecursiveCte == { << Scope(0, FALSE, [a \in {"t"} |-> Counter], {Ref("t", n, FALSE)}, {}, {n}),
                   Scope(1, FALSE, <<>>, {}, {}, {"1"}),
                   Scope(1, FALSE, [a \in {"t"} |-> Counter], {Ref("", n, FALSE)}, {}, {"n + 1"}) >> : n \in {"n", "1"} }

MCStatements == Flat \union Derived \union Nested \union WithList \union RecursiveCte

=============================================================================
