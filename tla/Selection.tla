----------------------------- MODULE Selection -----------------------------
(***************************************************************************)
(* select_schema (services/schema/select.py): which tables of a snapshot a  *)
(* question is sent with.  The relevance scores are abstracted to what the  *)
(* function makes of them: a ranking of the tables and the set of those     *)
(* that match the question directly.  Lengths are in characters, as the     *)
(* code measures them; four characters make a token.                        *)
(***************************************************************************)
EXTENDS SchemaNames, FiniteSets

CONSTANTS Chars(_),      \* length of serialize_table(t)
          NameChars      \* length of a qualified name (names are equally long)

Tokens(chars) == (chars + 3) \div 4

\* Length of the sentence an empty database is described with.
EmptyChars == 68

\* The sum of the first n numbers of a.
Total(a, n) ==
  LET sum[k \in 0..n] == IF k = 0 THEN 0 ELSE sum[k - 1] + a[k]
  IN sum[n]

Lengths(tables) == [i \in DOMAIN tables |-> Chars(tables[i])]

\* The texts of the tables, separated by blank lines.
Joined(tables) ==
  Total(Lengths(tables), Len(tables)) + IF tables = <<>> THEN 0 ELSE 2 * (Len(tables) - 1)

DirectoryChars(tables) == 8 + NameChars * Len(tables) + 2 * (Len(tables) - 1)

Names(tables) == {tables[i].name : i \in DOMAIN tables}

Fits(sel, t, budget) == Tokens(Joined(Append(sel, t))) <= budget

\* Mutant of TryAdd: each table is measured alone.
TryAddAlone(sel, t, budget) ==
  IF t.name \notin Names(sel) /\ (Fits(<<>>, t, budget) \/ sel = <<>>) THEN Append(sel, t) ELSE sel

TryAdd(sel, t, budget) ==
  IF t.name \notin Names(sel) /\ (Fits(sel, t, budget) \/ sel = <<>>) THEN Append(sel, t) ELSE sel

\* by_name[fk.ref_table] of each foreign key, the missing ones left out.
Neighbours(t, tables) ==
  LET known == ElementsAt(t.fks, {i \in DOMAIN t.fks : t.fks[i].refTable \in Names(tables)})
  IN [i \in DOMAIN known |-> Lookup(tables)[<<known[i].refTable>>]]

AddAll(sel, more, budget) ==
  LET added[k \in 0..Len(more)] == IF k = 0 THEN sel ELSE TryAdd(added[k - 1], more[k], budget)
  IN added[Len(more)]

\* One seed and its neighbours; the first seed that is refused ends the loop.
Seed(acc, t, tables, budget) ==
  LET sel == TryAdd(acc.sel, t, budget)
  IN IF ~acc.open THEN acc
     ELSE IF t.name \notin Names(sel) THEN [acc EXCEPT !.open = FALSE]
     ELSE [sel |-> AddAll(sel, Neighbours(t, tables), budget), open |-> TRUE]

Seeded(seeds, tables, budget) ==
  LET acc[k \in 0..Len(seeds)] ==
        IF k = 0 THEN [sel |-> <<>>, open |-> TRUE] ELSE Seed(acc[k - 1], seeds[k], tables, budget)
  IN acc[Len(seeds)].sel

\* The tables added one by one, in the order they were added.
Chosen(tables, ranked, strong, budget) ==
  LET matched == ElementsAt(ranked, {i \in DOMAIN ranked : ranked[i] \in strong})
      seeds == IF matched = <<>> THEN <<ranked[1]>> ELSE matched
  IN AddAll(Seeded(seeds, tables, budget), ranked, budget)

\* The length of serialize_schema's text.
SchemaChars(tables) == IF tables = <<>> THEN EmptyChars ELSE Joined(tables)

\* select_schema: everything when it fits, else the directory and the tables
\* whose bare name was chosen, in snapshot order.
Select(tables, ranked, strong, max) ==
  IF tables = <<>> \/ Tokens(SchemaChars(tables)) <= max
  THEN [trimmed |-> FALSE, sent |-> tables, chars |-> SchemaChars(tables)]
  ELSE LET names == Names(Chosen(tables, ranked, strong, max - Tokens(DirectoryChars(tables))))
           sent == ElementsAt(tables, {i \in DOMAIN tables : tables[i].name \in names})
       IN [trimmed |-> TRUE, sent |-> sent, chars |-> DirectoryChars(tables) + 2 + Joined(sent)]

=============================================================================
