----------------------------- MODULE SchemaNames -----------------------------
(***************************************************************************)
(* How the backend names the tables of a schema snapshot: to the model       *)
(* (services/schema/serialize.py), and in the dictionary the model's answers *)
(* are looked up in (services/schema/discover.py).                          *)
(*                                                                         *)
(* A table is a record with at least a schema and a name; a snapshot is the *)
(* sequence of its tables in snapshot order; a written name is a tuple.     *)
(***************************************************************************)
EXTENDS Integers, Sequences

Qualified(t) == IF t.schema = "public" THEN <<t.name>> ELSE <<t.schema, t.name>>

NamesOf(t) == {<<t.name>>, Qualified(t)}

\* _lookup: bare and qualified name of every table, a later table overwriting.
Lookup(tables) ==
  [ n \in UNION {NamesOf(tables[i]) : i \in DOMAIN tables} |->
      LET i == CHOOSE i \in DOMAIN tables :
                 n \in NamesOf(tables[i]) /\ \A j \in DOMAIN tables : n \in NamesOf(tables[j]) => j <= i
      IN tables[i] ]

\* The elements of a sequence at some of its positions, in their order: the
\* comprehensions and filtering loops of the schema code.
ElementsAt(s, at) ==
  LET kept[i \in 0..Len(s)] ==
        IF i = 0 THEN <<>> ELSE IF i \in at THEN Append(kept[i - 1], s[i]) ELSE kept[i - 1]
  IN kept[Len(s)]

\* The tables of a snapshot whose qualified name is in keys, in snapshot order.
InSnapshotOrder(tables, keys) ==
  ElementsAt(tables, {i \in DOMAIN tables : Qualified(tables[i]) \in keys})

=============================================================================
