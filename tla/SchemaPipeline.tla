--------------------------- MODULE SchemaPipeline ---------------------------
(***************************************************************************)
(* From a user's database to a generated statement: a connector reads the   *)
(* catalog and probes columns for their values                              *)
(* (connectors/postgres.py, connectors/mysql.py), the snapshot is stored, a *)
(* question is sent with the part of it that fits, and the statement that   *)
(* comes back is held against the whole of it.                              *)
(*                                                                         *)
(* The database does not change here (SnapshotCache models that); what      *)
(* varies is what a refresh manages to read of it.                          *)
(***************************************************************************)
EXTENDS Introspection, Selection, Verification, Functions

CONSTANTS Sources,       \* a function to databases and their configuration:
                         \* tables, dialect, schemas, allow, sampling
          MaxValues,     \* schema_sample_max_values
          ScanLimit,     \* schema_sample_scan_limit
          Budgets,       \* values of schema_max_tokens
          Statements,    \* the statements a model may write
          HiddenColumns, \* columns a database has beside those of the catalog
          MaxRefreshes   \* bound: catalogs read in one behaviour

ASSUME LimitsAssumption == /\ MaxValues \in Nat \ {0} /\ ScanLimit \in Nat \ {0} /\ MaxRefreshes \in Nat
                           /\ Budgets \subseteq Nat /\ NameChars \in Nat

IsSequence(s) == s \in Seq({s[i] : i \in DOMAIN s})

\* What a catalog tells of a table: the columns and the foreign keys in an order,
\* finitely many clauses and values.
IsTable(t) == /\ IsSequence(t.columns) /\ IsSequence(t.fkRows) /\ IsFiniteSet(t.checks)
              /\ \A c \in t.checks : IsFiniteSet(c.parts) /\ \A p \in c.parts : p.negated \in BOOLEAN
              /\ \A j \in DOMAIN t.columns : IsFiniteSet(t.columns[j].content)

ASSUME SourcesAssumption ==
  \A s \in DOMAIN Sources : /\ Sources[s].sampling \in BOOLEAN /\ IsSequence(Sources[s].tables)
                            /\ \A i \in DOMAIN Sources[s].tables : IsTable(Sources[s].tables[i])

\* Stands for the columns of what cannot be enumerated.
Anything == "any column"

\* A database has one table of each schema and name, and none without a name.
ASSUME NamesAssumption ==
  /\ Anything \notin HiddenColumns
  /\ \A s \in DOMAIN Sources :
       LET tables == Sources[s].tables
       IN \A i \in DOMAIN tables :
            /\ tables[i].name # "" /\ Anything \notin ColumnNames(tables[i])
            /\ \A j \in DOMAIN tables :
                 tables[i].schema = tables[j].schema /\ tables[i].name = tables[j].name => i = j

\* The scopes of a statement come outermost first.
ASSUME StatementsAssumption ==
  \A stmt \in Statements :
    /\ IsSequence(stmt)
    /\ \A k \in DOMAIN stmt :
         /\ stmt[k].parent \in 0..(k - 1) /\ Anything \notin stmt[k].outputs
         /\ \A s \in SourcesOf(stmt[k]) : /\ s.kind \in {"table", "scope", "function"}
                                          /\ \A n \in DOMAIN s.renames : s.renames[n] # Anything
                                          /\ s.kind = "scope" => s.scope \in DOMAIN stmt

VARIABLES source,     \* the database and how the connection is configured
          phase,      \* idle | reading | probing | selected | verified
          conn,       \* the connector's transaction: ok | aborted | lost
          snap,       \* the snapshot being built
          todo,       \* the places still to probe
          failed,     \* the places whose own probe failed
          stored,     \* the stored snapshot, with what failed while it was read
          refreshes, selection, judged

pipelineVars == <<source, phase, conn, snap, todo, failed, stored, refreshes, selection, judged>>

None == [none |-> TRUE]

Config == Sources[source]

Tables == Visible(Config.tables, Config.dialect, Config.schemas, Config.allow)

PipelineInit == /\ source \in DOMAIN Sources
                /\ phase = "idle" /\ conn = "ok" /\ refreshes = 0
                /\ snap = <<>> /\ todo = {} /\ failed = {}
                /\ stored = None /\ selection = None /\ judged = None

\* _connect, then the dialect's introspection.
Connect == /\ phase = "idle" /\ refreshes < MaxRefreshes
           /\ phase' = "reading" /\ conn' = "ok"
           /\ UNCHANGED <<source, snap, todo, failed, stored, refreshes, selection, judged>>

\* The connection or a catalog query fails: nothing is stored.
ReadFails == /\ phase = "reading" /\ phase' = "idle"
             /\ UNCHANGED <<source, conn, snap, todo, failed, stored, refreshes, selection, judged>>

\* _mysql_check_values gives up on any error.
Readable == IF Config.dialect = "mysql" THEN BOOLEAN ELSE {TRUE}

\* introspect_postgres / introspect_mysql.
ReadCatalog ==
  /\ phase = "reading" /\ phase' = "probing"
  /\ \E readable \in Readable : snap' \in Readings(Tables, Config.dialect, readable)
  /\ todo' = IF Config.sampling THEN ToProbe(snap') ELSE {}
  /\ failed' = {} /\ refreshes' = refreshes + 1
  /\ UNCHANGED <<source, conn, stored, selection, judged>>

\* The place apply_sampled_values comes to next.
Next1(places) == CHOOSE p \in places : \A q \in places : p[1] < q[1] \/ (p[1] = q[1] /\ p[2] <= q[2])

Probe(values) == /\ phase = "probing" /\ todo # {}
                 /\ todo' = todo \ {Next1(todo)}
                 /\ LET p == Next1(todo) IN snap' = [snap EXCEPT ![p[1]].columns[p[2]].values = values]
                 /\ UNCHANGED <<source, phase, stored, refreshes, selection, judged>>

ProbeSucceeds ==
  /\ conn = "ok" /\ todo # {}
  /\ LET p == Next1(todo)
     IN \E seen \in Seen(Tables[p[1]].columns[p[2]].content, ScanLimit) : Probe(Kept(seen, MaxValues))
  /\ UNCHANGED <<conn, failed>>

\* Mutant of Recovered: no savepoint to go back to.
RecoveredNever(dialect) == IF dialect = "postgres" THEN "aborted" ELSE "ok"

\* After a failed probe: ROLLBACK TO SAVEPOINT, or autocommit.
Recovered(dialect) == "ok"

\* The query of the probe fails, or the connection is gone.
ProbeFails == /\ conn = "ok" /\ Probe(NoValues)
              /\ conn' \in {Recovered(Config.dialect), "lost"}
              /\ failed' = failed \union {Next1(todo)}

\* Every further statement of the connection fails, the rollback too.
ProbeRefused == /\ conn # "ok" /\ Probe(NoValues)
                /\ failed' = IF conn = "lost" THEN failed \union {Next1(todo)} ELSE failed
                /\ UNCHANGED conn

\* introspect returns, whatever became of the probes, and the snapshot is kept.
Store == /\ phase = "probing" /\ todo = {}
         /\ stored' = [tables |-> snap, failed |-> failed]
         /\ phase' = "idle" /\ snap' = <<>> /\ failed' = {} /\ conn' = "ok"
         /\ UNCHANGED <<source, todo, refreshes, selection, judged>>

\* A question: the scores rank the tables and say which match it directly.
SelectTables ==
  /\ phase = "idle" /\ stored # None
  /\ \E order \in Bijection(DOMAIN stored.tables, DOMAIN stored.tables), direct \in SUBSET DOMAIN stored.tables, max \in Budgets :
       selection' = [ result |-> Select(stored.tables, [i \in DOMAIN order |-> stored.tables[order[i]]],
                                        {stored.tables[i] : i \in direct}, max),
                      max |-> max ]
  /\ phase' = "selected"
  /\ UNCHANGED <<source, conn, snap, todo, failed, stored, refreshes, judged>>

\* The model answers with a statement; it is verified against the full snapshot.
VerifyStatement ==
  /\ phase = "idle" /\ stored # None
  /\ \E stmt \in Statements : \E analysed \in BOOLEAN :
       judged' = [stmt |-> stmt, analysed |-> analysed, report |-> Verify(stmt, stored.tables, analysed)]
  /\ phase' = "verified"
  /\ UNCHANGED <<source, conn, snap, todo, failed, stored, refreshes, selection>>

Answered == /\ phase \in {"selected", "verified"}
            /\ phase' = "idle" /\ selection' = None /\ judged' = None
            /\ UNCHANGED <<source, conn, snap, todo, failed, stored, refreshes>>

PipelineNext == \/ Connect \/ ReadFails \/ ReadCatalog
                \/ ProbeSucceeds \/ ProbeFails \/ ProbeRefused \/ Store
                \/ SelectTables \/ VerifyStatement \/ Answered

PipelineSpec == PipelineInit /\ [][PipelineNext]_pipelineVars

-----------------------------------------------------------------------------
\* The snapshot exists only while it is read; a place is probed once, and only a
\* failed probe can have cost the connection.
PipelineTypeOK == /\ source \in DOMAIN Sources /\ refreshes \in 0..MaxRefreshes
                  /\ phase \in {"idle", "reading", "probing", "selected", "verified"}
                  /\ conn \in {"ok", "aborted", "lost"}
                  /\ todo \subseteq Places(snap) /\ failed \subseteq Places(snap) \ todo
                  /\ conn = "lost" => phase = "probing" /\ failed # {}
                  /\ phase # "probing" => snap = <<>>

Pairs(rows, c) == {<<rows[i].column, rows[i].refColumn>> : i \in {i \in DOMAIN rows : rows[i].constraint = c}}

PairsOf(fk) == {<<fk.columns[i], fk.refColumns[i]>> : i \in DOMAIN fk.columns}

\* Two foreign keys of a table, even to one table, stay two.
KeysAreTold(i) ==
  LET rows == Tables[i].fkRows
      constraints == {rows[k].constraint : k \in DOMAIN rows}
      fks == stored.tables[i].fks
  IN /\ Len(fks) = Cardinality(constraints)
     /\ {PairsOf(fks[k]) : k \in DOMAIN fks} = {Pairs(rows, c) : c \in constraints}

\* A list sampled from the column: values it holds, all of them if all its rows were scanned.
FromRows(values, c) ==
  /\ values \subseteq c.content /\ Cardinality(values) <= MaxValues
  /\ Cardinality(c.content) <= ScanLimit => values = c.content

MisreadFor(t, c) == \E d \in t.checks : Misread(d) /\ Parsed(d) /\ Attributed(d, Config.dialect).column = c.name

\* The list of a column leaves out no value a row may hold, unless it was
\* sampled from rows or comes of a clause that is no list at all.
ValuesAreTold(i, j) ==
  LET c == Tables[i].columns[j]
      values == stored.tables[i].columns[j].values
  IN values # NoValues =>
       \/ Allowed(Tables[i], c) \subseteq values
       \/ Config.sampling /\ c.textual /\ c.name \notin Tables[i].pk /\ c.enum = {} /\ FromRows(values, c)
       \/ c.enum = {} /\ MisreadFor(Tables[i], c)

\* A stored snapshot tells what the catalog says: the tables the connector reads
\* with their foreign keys, and for a column only lists that leave out no
\* value the database admits (introspect.py:84-101, 239-302).  The exceptions:
\* lists sampled from rows, and CHECK clauses put down to the column that are
\* negated, an alternative to another condition, or about something else whose
\* text ends in the column's name.
SnapshotTellsTheCatalog ==
  stored # None =>
    /\ Len(stored.tables) = Len(Tables)
    /\ \A i \in DOMAIN Tables :
         /\ stored.tables[i].schema = Tables[i].schema /\ stored.tables[i].name = Tables[i].name
         /\ KeysAreTold(i)
         /\ \A j \in DOMAIN Tables[i].columns : ValuesAreTold(i, j)

\* None is returned for anything not confidently a single-column string
\* membership check.
OnlySimpleChecksAreRead ==
  stored # None =>
    \A i \in DOMAIN Tables : \A d \in Tables[i].checks : Parsed(d) => ~Misread(d)

\* Too many values for a list, or none.
Unlisted(p) == LET n == Cardinality(Tables[p[1]].columns[p[2]].content)
               IN n = 0 \/ (n > MaxValues /\ ScanLimit > MaxValues)

\* One failed probe costs its own column only (the savepoint of
\* postgres.py:112-139): every other eligible column that holds few enough
\* values has them listed.
ProbesAreIsolated ==
  stored # None /\ Config.sampling =>
    \A p \in ToProbe(stored.tables) \ stored.failed : Unlisted(p)

\* The lists a reading of the catalog may give a column.
Catalogued(i, j) == UNION {CatalogValues(Tables[i], Tables[i].columns[j], Config.dialect, r) : r \in Readable}

\* A probe that saw values, and few enough of them.
Sampled(i, j, values) ==
  LET c == Tables[i].columns[j]
  IN Config.sampling /\ c.textual /\ c.name \notin Tables[i].pk /\ NoValues \in Catalogued(i, j) /\ FromRows(values, c)

Shaped(tables) ==
  tables = [i \in DOMAIN Tables |->
    [schema |-> Tables[i].schema, name |-> Tables[i].name, pk |-> Tables[i].pk, fks |-> ForeignKeys(Tables[i].fkRows),
     columns |-> [j \in DOMAIN Tables[i].columns |->
       [name |-> Tables[i].columns[j].name, textual |-> Tables[i].columns[j].textual,
        values |-> tables[i].columns[j].values]]]]

Listed(tables) ==
  \A p \in Places(Tables) : LET values == tables[p[1]].columns[p[2]].values
                             IN values \in Catalogued(p[1], p[2]) \/ Sampled(p[1], p[2], values)

\* A snapshot some of whose places are still to be probed and some probes failed.
Refreshed(tables, left, lost) ==
  /\ Shaped(tables) /\ Listed(tables)
  /\ left \subseteq IF Config.sampling THEN ToProbe(tables) ELSE {}
  /\ Config.sampling => \A p \in ToProbe(tables) \ (left \union lost) : Unlisted(p)

\* What holds of a refresh at every step, and of what it stored.
PipelineInv == /\ PipelineTypeOK /\ ProbesAreIsolated
               /\ phase = "probing" => Refreshed(snap, todo, failed)
               /\ stored # None => Refreshed(stored.tables, {}, stored.failed)

\* Values a refresh may read differently although the database is the same.
Volatile(i, j) ==
  LET t == Tables[i]  c == t.columns[j]  lists == CheckValues(t, c, Config.dialect)
  IN /\ c.enum = {}
     /\ \/ Cardinality(lists) > 1
        \/ lists # {} /\ Config.dialect = "mysql"
        \/ lists = {} /\ Config.sampling /\ c.textual /\ c.name \notin t.pk

Blank(tables, places) ==
  [i \in DOMAIN tables |-> [tables[i] EXCEPT !.columns =
     [j \in DOMAIN tables[i].columns |->
        IF <<i, j>> \in places THEN [tables[i].columns[j] EXCEPT !.values = NoValues] ELSE tables[i].columns[j]]]]

\* Two snapshots of an unchanged database differ in nothing but sampled values,
\* CHECK lists MySQL could not read, and columns of several CHECK lists
\* (introspect_postgres promises a fingerprint stable across runs, :217-218).
StableUpToValues ==
  [][ (stored # None /\ stored' # stored) =>
        LET volatile == {p \in Places(Tables) : Volatile(p[1], p[2])}
        IN Blank(stored.tables, volatile) = Blank(stored'.tables, volatile) ]_pipelineVars

-----------------------------------------------------------------------------
OneName(tables) == Cardinality(Names(tables)) = 1
Distinct(tables) == Cardinality(Names(tables)) = Len(tables)

\* What a question is sent with keeps the token budget, and no table is left
\* out that would have fitted beside the others (select.py:94-119).  It may
\* exceed the budget by the one token the separator costs, by a single table
\* that does not fit, and by tables that share their name; the sentence that
\* stands for an empty database is not measured.
SelectionFits ==
  phase = "selected" =>
    LET r == selection.result
        left == {stored.tables[i] : i \in {i \in DOMAIN stored.tables : stored.tables[i].name \notin Names(r.sent)}}
        budget == selection.max - Tokens(DirectoryChars(stored.tables))
    IN /\ stored.tables # <<>> =>
            /\ r.sent # <<>>
            /\ Distinct(stored.tables) => Tokens(r.chars) <= selection.max + 1 \/ (r.trimmed /\ OneName(r.sent))
       /\ r.trimmed =>
            \A t \in left : Tokens(Joined(Append(r.sent, t))) > budget

-----------------------------------------------------------------------------
\* What the database makes of a statement.
Home == IF Config.dialect = "mysql" THEN Database ELSE "public"

Meant(src) ==
  {i \in DOMAIN Config.tables : /\ Config.tables[i].name = src.name
                                /\ Config.tables[i].schema = IF src.db = "" THEN Home ELSE src.db}

ColumnsMeant(src) == UNION {ColumnNames(Config.tables[i]) : i \in Meant(src)}

Named(stmt, src) == OutputsOf(stmt, src) \ {"*"}

\* The names columns go by once the source's alias list has renamed some.
Aliased(src, names) == {IF n \in DOMAIN src.renames THEN src.renames[n] ELSE n : n \in names}

\* The columns a star in each scope stands for.
Given(stmt) ==
  LET given[k \in DOMAIN stmt] ==
        UNION { IF s.kind = "scope"
                  THEN Aliased(s, Named(stmt, s) \union IF Star(stmt, s) THEN given[s.scope] ELSE {})
                ELSE IF Checked(s) THEN Aliased(s, ColumnsMeant(s))
                ELSE {Anything} : s \in SourcesOf(stmt[k]) }
  IN given

Gives(stmt, src, c) ==
  LET names == IF src.kind = "scope"
                 THEN Aliased(src, Named(stmt, src) \union IF Star(stmt, src) THEN Given(stmt)[src.scope] ELSE {})
               ELSE IF Checked(src) THEN Aliased(src, ColumnsMeant(src)) \union HiddenColumns
               ELSE {Anything}
  IN c \in names \/ Anything \in names

\* The scopes whose sources a scope may use.
Seeing(stmt, i) ==
  LET chain == Chain(stmt, i)
  IN {chain[k] : k \in {k \in DOMAIN chain : \A m \in 1..(k - 1) : stmt[chain[m]].sees}}

Resolves(stmt, i, col) ==
  LET scopes == Seeing(stmt, i)
      introduce == Nearest(stmt, Chain(stmt, i), col.table)
      nearest == ElementsAt(introduce, {k \in DOMAIN introduce : introduce[k] \in scopes})
  IN IF col.table # "" THEN nearest # <<>> /\ Gives(stmt, stmt[nearest[1]].sources[col.table], col.name)
     ELSE \/ col.late /\ col.name \in stmt[i].aliases
          \/ \E k \in scopes : \/ col.name \in DOMAIN stmt[k].sources   \* a whole row
                               \/ \E s \in SourcesOf(stmt[k]) : Gives(stmt, s, col.name)

AllSources(stmt) == UNION {SourcesOf(stmt[i]) : i \in DOMAIN stmt}
Refs(stmt) == UNION {{<<i, col>> : col \in stmt[i].columns} : i \in DOMAIN stmt}

DatabaseAccepts(stmt) ==
  /\ \A s \in AllSources(stmt) : Checked(s) => Meant(s) # {}
  /\ \A r \in Refs(stmt) : Resolves(stmt, r[1], r[2])

\* The sources of a scope and of the scopes around it.
Around(stmt, i) ==
  LET chain == Chain(stmt, i) IN UNION {SourcesOf(stmt[chain[k]]) : k \in DOMAIN chain}

\* A name an alias list gives a column, and one that an alias list takes away.
NamedByList(stmt, i, c) == \E s \in Around(stmt, i) : \E n \in DOMAIN s.renames : s.renames[n] = c
RenamedAway(stmt, i, c) == \E s \in Around(stmt, i) : c \in DOMAIN s.renames

\* A table the database has and the snapshot does not hold.
Outside(stmt) ==
  \E s \in AllSources(stmt) : Checked(s) /\ \E i \in Meant(s) :
    ~\E k \in DOMAIN stored.tables : /\ stored.tables[k].name = Config.tables[i].name
                                     /\ stored.tables[k].schema = Config.tables[i].schema

BeyondTheCatalog(stmt) ==
  \E r \in Refs(stmt) : \/ r[2].name \in HiddenColumns
                        \/ r[2].table = "" /\ \E i \in DOMAIN stmt : r[2].name \in DOMAIN stmt[i].sources

AliasListed(stmt) == \E r \in Refs(stmt) : NamedByList(stmt, r[1], r[2].name)

\* The checks are biased toward false negatives; the database is the arbiter.
AcceptedIsNotCorrected ==
  phase = "verified" => (DatabaseAccepts(judged.stmt) /\ ~Outside(judged.stmt) => Clean(judged.report))

\* A statement the database accepts is never sent back for correction
\* (sql_verify.py:10-13), if the snapshot holds the tables it reads and it uses
\* neither hidden columns nor whole rows nor a name that a column alias list
\* gives (WITH t(a) AS ..., AS o(oid)), which the verifier does not know; and
\* what the correction writes out is a table the statement reads, or one of the
\* same name.
NoFalseAlarm ==
  phase = "verified" =>
    LET stmt == judged.stmt
        read == UNION {{Resolve(s, stored.tables)[k].name : k \in DOMAIN Resolve(s, stored.tables)} :
                         s \in {s \in AllSources(stmt) : Checked(s)}}
        derived == UNION {{a \in DOMAIN stmt[i].sources : stmt[i].sources[a].kind = "scope"} : i \in DOMAIN stmt}
    IN /\ DatabaseAccepts(stmt) /\ ~Outside(stmt) /\ ~BeyondTheCatalog(stmt) /\ ~AliasListed(stmt) =>
            Clean(judged.report)
       /\ \A t \in Shown(judged.report, stored.tables) : t.name \in read \union derived

\* The references the verifier leaves to the database (sql_verify.py:10-13,
\* 166-173): one whose scope it cannot enumerate, a bare name another schema may
\* hold, a qualifier nobody introduces, a select alias, and one that only a
\* scope it may not see would resolve; and, since it does not read column alias
\* lists, a name that such a list has taken away.
Lenient(stmt, i, col) ==
  LET chain == Chain(stmt, i)
      from == Around(stmt, i)
  IN \/ \E k \in DOMAIN chain : Opaque(stmt, stmt[chain[k]], stored.tables)
     \/ \E s \in from : Checked(s) /\ \E k \in DOMAIN Resolve(s, stored.tables) :
          s.db = "" /\ Resolve(s, stored.tables)[k].schema # Home
     \/ col.table # "" /\ Nearest(stmt, chain, col.table) = <<>>
     \/ col.table = "" /\ col.name \in stmt[i].aliases
     \/ \E k \in DOMAIN chain : chain[k] \notin Seeing(stmt, i)
     \/ RenamedAway(stmt, i, col.name)

\* What the database rejects of a statement sqlglot analyses, the verifier has
\* reported, the tables by their names and the columns by theirs, unless it is
\* lenient.
MissesAreExplained ==
  phase = "verified" /\ judged.analysed =>
    LET stmt == judged.stmt  report == judged.report
    IN /\ \A s \in AllSources(stmt) : (Checked(s) /\ Meant(s) = {}) =>
            \/ <<s.db, s.name>> \in report.unknownTables
            \/ s.db = "" /\ Resolve(s, stored.tables) # <<>>
       /\ \A r \in Refs(stmt) : ~Resolves(stmt, r[1], r[2]) =>
            (\E miss \in report.unknownColumns : miss[2] = r[2].name) \/ Lenient(stmt, r[1], r[2])

=============================================================================
