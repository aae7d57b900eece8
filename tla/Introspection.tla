--------------------------- MODULE Introspection ---------------------------
(***************************************************************************)
(* How a connector reads the catalog of a user's database into a snapshot: *)
(* services/schema/introspect.py for PostgreSQL and MySQL, and the columns *)
(* services/schema/sample.py goes on to probe.                             *)
(*                                                                         *)
(* A catalog is the sequence of the database's tables in (schema, name)    *)
(* order, which is the order _finalize sorts a snapshot into.  A table is  *)
(*   schema, name, columns (in attnum order), pk (a set of columns),       *)
(*   fkRows (one row per constraint and position, the constraints in the    *)
(*           order _finalize sorts their foreign keys into),                *)
(*   checks (a set of clauses).                                            *)
(* A column carries its enum labels, whether its type is textual, and the  *)
(* distinct values it stores.  A clause is its parts, whether they are all *)
(* required, and what the search for the head of the membership reads in   *)
(* its text: the first identifier right before a membership operator, ""   *)
(* if there is none.  A part compares a column, or an expression that is   *)
(* no column, with literals.  The search is not anchored and takes letters, *)
(* digits and underscores only: of the column "order-status" it reads       *)
(* status, and the same of lower(status).                                  *)
(***************************************************************************)
EXTENDS SchemaNames, FiniteSets

CONSTANTS Database,      \* the schema a MySQL connection sees
          PgLike,        \* the schema names LIKE 'pg_%': pg and one character more, such as pgboss
          Values         \* the values columns may hold

NoValues == {}           \* allowed_values is None

Members(clause) == {p \in clause.parts : p.op = "in"}

\* The column the clause is put down to.  MySQL renders a negated membership
\* as "not in", whose head reads as a column named "not".
Column(clause, dialect) ==
  IF dialect = "mysql" /\ \E p \in Members(clause) : p.negated THEN "not" ELSE clause.read

\* Mutant of Attributed: the first literal of the clause is skipped.
AttributedShort(clause, dialect) ==
  LET all == UNION {p.literals : p \in clause.parts}
  IN [column |-> Column(clause, dialect),
      values |-> all \ {CHOOSE v \in all : TRUE}]

\* _parse_check_values: what is read at the one membership of the clause names
\* the column, all the literals of the clause become its values.
Attributed(clause, dialect) ==
  [column |-> Column(clause, dialect),
   values |-> UNION {p.literals : p \in clause.parts}]

Parsed(clause) == /\ Cardinality(Members(clause)) = 1 /\ clause.read # ""
                  /\ UNION {p.literals : p \in clause.parts} # {}

\* The value lists the readable clauses of a table give one of its columns.
CheckValues(table, column, dialect) ==
  {Attributed(c, dialect).values :
     c \in {d \in table.checks : Parsed(d) /\ Attributed(d, dialect).column = column.name}}

\* What the catalog says of a column: enum labels win, then one of its checks
\* (the query orders them by nothing), none when they cannot be read.
CatalogValues(table, column, dialect, readable) ==
  IF column.enum # {} THEN {column.enum}
  ELSE IF readable /\ CheckValues(table, column, dialect) # {} THEN CheckValues(table, column, dialect)
  ELSE {NoValues}

\* The foreign key of a constraint: its rows, the first of which says what it refers to.
KeyOf(head, own) ==
  [columns |-> [i \in DOMAIN own |-> own[i].column], refSchema |-> head.refSchema, refTable |-> head.refTable,
   refColumns |-> [i \in DOMAIN own |-> own[i].refColumn]]

\* The rows of one constraint make one foreign key.
ForeignKeys(rows) ==
  LET heads == ElementsAt(rows, {i \in DOMAIN rows : \A j \in 1..(i - 1) : rows[j].constraint # rows[i].constraint})
      own(head) == ElementsAt(rows, {i \in DOMAIN rows : rows[i].constraint = head.constraint})
  IN [k \in DOMAIN heads |-> KeyOf(heads[k], own(heads[k]))]

\* The tables a connector reads: those with columns, of the configured schemas
\* (none configured: all but the system's, and those named like them) and of the
\* allowlist, by bare name.
Visible(catalog, dialect, schemas, allow) ==
  ElementsAt(catalog, {i \in DOMAIN catalog :
    /\ catalog[i].columns # <<>>
    /\ IF dialect = "mysql" THEN catalog[i].schema = Database
       ELSE IF schemas = {} THEN catalog[i].schema \notin PgLike ELSE catalog[i].schema \in schemas
    /\ allow = {} \/ catalog[i].name \in allow})

Places(tables) == UNION {{i} \X DOMAIN tables[i].columns : i \in DOMAIN tables}

\* Every snapshot one reading of the catalog can give: pick is what the order of
\* the check rows settled on, for the columns several of them list values for.
Readings(tables, dialect, readable) ==
  LET Lists(i, j) == CatalogValues(tables[i], tables[i].columns[j], dialect, readable)
      several == {p \in Places(tables) : Cardinality(Lists(p[1], p[2])) > 1}
      Snapshot(pick) ==
        [i \in DOMAIN tables |->
           [schema |-> tables[i].schema, name |-> tables[i].name, pk |-> tables[i].pk,
            fks |-> ForeignKeys(tables[i].fkRows),
            columns |-> [j \in DOMAIN tables[i].columns |->
              [name |-> tables[i].columns[j].name, textual |-> tables[i].columns[j].textual,
               values |-> IF <<i, j>> \in several THEN pick[<<i, j>>] ELSE CHOOSE l \in Lists(i, j) : TRUE]]]]
  IN {Snapshot(pick) : pick \in {f \in [several -> SUBSET Values] :
                                    \A p \in several : f[p] \in Lists(p[1], p[2])}}

-----------------------------------------------------------------------------
\* Mutant of ToProbe: primary keys are sampled too.
ToProbeKeys(snapshot) ==
  { p \in Places(snapshot) : LET c == snapshot[p[1]].columns[p[2]]
                             IN c.values = NoValues /\ c.textual }

\* apply_sampled_values: textual columns without values, primary keys apart.
ToProbe(snapshot) ==
  { p \in Places(snapshot) : LET c == snapshot[p[1]].columns[p[2]]
                             IN /\ c.values = NoValues /\ c.textual
                                /\ c.name \notin snapshot[p[1]].pk }

\* What one probe can see: the distinct values of the rows it scanned, of a
\* column that holds each of its values in one row.
Seen(stored, scan) ==
  { s \in SUBSET stored : Cardinality(s) = IF Cardinality(stored) < scan THEN Cardinality(stored) ELSE scan }

\* _sample_values: more than max distinct values are no list at all.
Kept(seen, max) == IF Cardinality(seen) > max THEN NoValues ELSE seen

-----------------------------------------------------------------------------
\* What the catalog means: may a row with value v in this column satisfy the clause?
PartAdmits(part, v) == (v \in part.literals) # part.negated

Admits(clause, column, v) ==
  LET own == {p \in clause.parts : p.column = column}
  IN IF clause.all THEN \A p \in own : PartAdmits(p, v)
     ELSE own # clause.parts \/ \E p \in own : PartAdmits(p, v)

Allowed(table, column) ==
  { v \in IF column.enum # {} THEN column.enum ELSE Values :
      \A c \in table.checks : Admits(c, column.name, v) }

\* A clause whose literals are no list of what the column read there may hold:
\* negated, parts of which one alone makes a row legal, or a membership of
\* another column or of an expression.
Misread(clause) ==
  \/ \E p \in clause.parts : p.negated
  \/ ~clause.all /\ Cardinality(clause.parts) > 1
  \/ \E p \in Members(clause) : p.column # clause.read

=============================================================================
