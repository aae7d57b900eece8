---------------------------- MODULE Verification ----------------------------
(***************************************************************************)
(* verify_identifiers and build_correction_feedback                        *)
(* (services/sql_verify.py): which identifiers of a generated statement     *)
(* the snapshot does not know, and what the model is then shown.            *)
(*                                                                         *)
(* A statement is the sequence of its scopes, as sqlglot's scope analysis   *)
(* gives them: parent (0 for the root), sees (whether the database lets it  *)
(* use its parent's sources), sources (alias -> source), columns (the       *)
(* references: table "" when bare, late when in ORDER BY), aliases (of its  *)
(* select list) and outputs (named_selects).  A source is a table as        *)
(* written, another scope or a table function; its column alias list        *)
(* renames columns, as in AS o(oid) or WITH t(a) AS ..., which the verifier  *)
(* does not look at.  Names are case-folded.                                *)
(***************************************************************************)
EXTENDS SchemaNames

SystemSchemas == {"information_schema", "pg_catalog", "performance_schema", "mysql", "sys"}

ColumnNames(t) == {t.columns[i].name : i \in DOMAIN t.columns}

\* Mutant of Resolve: the written schema is not looked at.
ResolveBare(src, tables) == ElementsAt(tables, {i \in DOMAIN tables : tables[i].name = src.name})

\* _Lookup.resolve.
Resolve(src, tables) ==
  ElementsAt(tables, {i \in DOMAIN tables : /\ tables[i].name = src.name
                                            /\ src.db = "" \/ tables[i].schema = src.db})

\* _source_output_names: the names the inner query selects.
OutputsOf(stmt, src) == stmt[src.scope].outputs
Star(stmt, src) == src.kind = "scope" /\ "*" \in OutputsOf(stmt, src)

\* A written table the snapshot has to know.
Checked(src) == src.kind = "table" /\ src.db \notin SystemSchemas
Unknown(src, tables) == Checked(src) /\ Resolve(src, tables) = <<>>

SourcesOf(scope) == {scope.sources[a] : a \in DOMAIN scope.sources}

Opaque(stmt, scope, tables) ==
  \E s \in SourcesOf(scope) :
    s.kind = "function" \/ (s.kind = "table" /\ ~Checked(s)) \/ Unknown(s, tables) \/ Star(stmt, s)

\* A scope and the scopes around it, innermost first.
Chain(stmt, i) ==
  LET up[k \in DOMAIN stmt] == IF stmt[k].parent = 0 THEN <<k>> ELSE <<k>> \o up[stmt[k].parent]
  IN up[i]

Has(stmt, src, tables, c) ==
  \/ /\ Checked(src)
     /\ \E k \in DOMAIN Resolve(src, tables) : c \in ColumnNames(Resolve(src, tables)[k])
  \/ src.kind = "scope" /\ ~Star(stmt, src) /\ c \in OutputsOf(stmt, src)

\* The first scope of the chain that knows the qualifier.
Nearest(stmt, chain, q) == ElementsAt(chain, {k \in DOMAIN chain : q \in DOMAIN stmt[chain[k]].sources})

\* check_qualified: what is reported of alias.column, if anything.
QualifiedMiss(stmt, i, col, tables) ==
  LET at == Nearest(stmt, Chain(stmt, i), col.table)
  IN IF at = <<>> THEN {}
     ELSE LET src == stmt[at[1]].sources[col.table]
          IN IF Has(stmt, src, tables, col.name) \/ Star(stmt, src) THEN {}
             ELSE IF src.kind = "scope" THEN {<<col.table, col.name>>}
             ELSE IF Checked(src) /\ ~Unknown(src, tables) THEN {<<Resolve(src, tables)[1].name, col.name>>}
             ELSE {}

\* Mutant of BareMiss: the enclosing scopes are not looked at.
BareMissOwn(stmt, i, col, tables) ==
  IF \/ col.name \in stmt[i].aliases
     \/ Opaque(stmt, stmt[i], tables)
     \/ \E s \in SourcesOf(stmt[i]) : Has(stmt, s, tables, col.name)
  THEN {} ELSE {<<"", col.name>>}

\* check_unqualified.
BareMiss(stmt, i, col, tables) ==
  IF \/ col.name \in stmt[i].aliases
     \/ \E k \in DOMAIN Chain(stmt, i) :
          LET scope == stmt[Chain(stmt, i)[k]]
          IN \/ Opaque(stmt, scope, tables)
             \/ \E s \in SourcesOf(scope) : Has(stmt, s, tables, col.name)
  THEN {} ELSE {<<"", col.name>>}

NothingReported == [unknownTables |-> {}, unknownColumns |-> {}]

\* verify_identifiers: nothing is reported of a statement sqlglot's parser or
\* scope analysis raises on.
Verify(stmt, tables, analysed) ==
  IF ~analysed THEN NothingReported ELSE
  [ unknownTables |-> { <<s.db, s.name>> : s \in {s \in UNION {SourcesOf(stmt[i]) : i \in DOMAIN stmt} :
                                                    Unknown(s, tables)} },
    unknownColumns |->
      UNION { UNION { IF col.table = "" THEN BareMiss(stmt, i, col, tables)
                      ELSE QualifiedMiss(stmt, i, col, tables) : col \in stmt[i].columns } : i \in DOMAIN stmt } ]

Clean(report) == report.unknownTables = {} /\ report.unknownColumns = {}

\* build_correction_feedback: the tables written out for the model, found by
\* the bare name a reported column carries.
Shown(report, tables) ==
  { Lookup(tables)[<<ref[1]>>] :
      ref \in {r \in report.unknownColumns : \E k \in DOMAIN tables : tables[k].name = r[1]} }

=============================================================================
