---------------------------- MODULE SnapshotCache ----------------------------
(***************************************************************************)
(* The persisted schema snapshots of one connection                         *)
(* (services/schema/cache.py) under concurrent requests.  Each request is    *)
(* one panel-database transaction at read committed, committed by            *)
(* get_session after the handler returns: it sees what others have           *)
(* committed, and its own row is invisible to them until it commits.  An Ask  *)
(* run holds its transaction open for the whole run.                        *)
(***************************************************************************)
EXTENDS Naturals

CONSTANTS
  Requests,    \* requests about this connection, each handled once
  Schemas,     \* structures the live database can have
  Empty,       \* the structure without tables
  Languages,   \* UI languages of the suggested questions
  NoSchema,    \* not a structure: nothing introspected, nothing cached
  Nobody       \* not a request

ASSUME EmptyAssumption == Empty \in Schemas
ASSUME NoneAssumption == NoSchema \notin Schemas /\ Nobody \notin Requests
ASSUME LanguagesAssumption == Languages \cap {"read", "refresh"} = {}

VARIABLES
  live,       \* the structure of the live database
  kind,       \* what each request is
  pc,         \* where each request is
  seen,       \* the structure it introspected
  rows,       \* the row each request inserted, if it did
  committed,  \* the requests whose row is committed
  at,         \* the request whose row it serves: maybe its own
  held,       \* the cached questions of that row as it read them
  fresh       \* requests that introspected since the last DDL (history variable)

reading == <<kind, seen, at, held>>
vars == <<live, kind, pc, seen, rows, committed, at, held, fresh>>

-----------------------------------------------------------------------------

Kinds  == {"read", "refresh"} \cup Languages

\* Suggested questions are named by the schema they were generated from.
Questions == [Languages -> Schemas \cup {NoSchema}]
Row       == [version : Nat \ {0}, schema : Schemas, questions : Questions]
NoRow     == [version |-> 0, schema |-> NoSchema, questions |-> NoSchema]
Unasked   == [l \in Languages |-> NoSchema]

RequestsOK ==
  /\ kind \in [Requests -> Kinds]
  /\ pc \in [Requests -> {"new", "look", "introspect", "compare", "loaded",
                           "asking", "done", "failed"}]
  /\ seen \in [Requests -> Schemas \cup {NoSchema}]
  /\ at \in [Requests -> Requests \cup {Nobody}]
  /\ held \in [Requests -> Questions]

TypeOK ==
  /\ live \in Schemas
  /\ RequestsOK
  /\ rows \in [Requests -> Row \cup {NoRow}]
  /\ committed \subseteq Requests /\ fresh \subseteq Requests

Init ==
  /\ live \in Schemas
  /\ kind = [r \in Requests |-> "read"]
  /\ pc = [r \in Requests |-> "new"]
  /\ seen = [r \in Requests |-> NoSchema]
  /\ rows = [r \in Requests |-> NoRow]
  /\ committed = {}
  /\ at = [r \in Requests |-> Nobody]
  /\ held = [r \in Requests |-> Unasked]
  /\ fresh = {}

\* get_current_snapshot: a committed row of the highest version.  Nothing breaks
\* a tie.
Current == {c \in committed : \A d \in committed : rows[d].version <= rows[c].version}

Goto(r, where) == pc' = [pc EXCEPT ![r] = where]

-----------------------------------------------------------------------------

\* GET schema and an Ask run read, POST refresh rebuilds, GET
\* suggested-questions reads and then wants the questions in one language.
Start(r) ==
  /\ pc[r] = "new"
  /\ \E k \in Kinds :
       /\ kind' = [kind EXCEPT ![r] = k]
       /\ Goto(r, IF k = "refresh" THEN "introspect" ELSE "look")
  /\ UNCHANGED <<live, seen, rows, committed, at, held, fresh>>

Serve(r, c) ==
  /\ at' = [at EXCEPT ![r] = c]
  /\ held' = [held EXCEPT ![r] = rows'[c].questions]
  /\ Goto(r, "loaded")

\* ensure_snapshot: the current snapshot, if it has tables.
LookHit(r) ==
  /\ pc[r] = "look" /\ UNCHANGED rows
  /\ \E c \in Current : rows[c].schema # Empty /\ Serve(r, c)
  /\ UNCHANGED <<live, kind, seen, committed, fresh>>

LookMiss(r) ==
  /\ pc[r] = "look"
  /\ committed = {} \/ \E c \in Current : rows[c].schema = Empty
  /\ Goto(r, "introspect")
  /\ UNCHANGED <<live, reading, rows, committed, fresh>>

\* rebuild_snapshot: connector.introspect reads the live database in a thread.
Introspect(r) ==
  /\ pc[r] = "introspect" /\ Goto(r, "compare")
  /\ seen' = [seen EXCEPT ![r] = live]
  /\ fresh' = fresh \cup {r}
  /\ UNCHANGED <<live, kind, rows, committed, at, held>>

\* Mutant of Keep: any current snapshot is kept.
KeepAny(r) ==
  /\ pc[r] = "compare" /\ UNCHANGED rows
  /\ \E c \in Current : Serve(r, c)
  /\ UNCHANGED <<live, kind, seen, committed, fresh>>

\* The current snapshot has the same fingerprint: keep it.
Keep(r) ==
  /\ pc[r] = "compare" /\ UNCHANGED rows
  /\ \E c \in Current : rows[c].schema = seen[r] /\ Serve(r, c)
  /\ UNCHANGED <<live, kind, seen, committed, fresh>>

NewRow(r, v) == rows' = [rows EXCEPT ![r] =
  [version |-> v, schema |-> seen[r], questions |-> Unasked]]

\* Mutant of Insert: a row is inserted whether or not the structure changed.
InsertAlways(r) ==
  /\ pc[r] = "compare"
  /\ IF committed = {} THEN NewRow(r, 1) ELSE \E c \in Current : NewRow(r, rows[c].version + 1)
  /\ Serve(r, r)
  /\ UNCHANGED <<live, kind, seen, committed, fresh>>

\* It has another one, or there is none: insert the next version and flush.
Insert(r) ==
  /\ pc[r] = "compare"
  /\ \/ committed = {} /\ NewRow(r, 1)
     \/ \E c \in Current : rows[c].schema # seen[r] /\ NewRow(r, rows[c].version + 1)
  /\ Serve(r, r)
  /\ UNCHANGED <<live, kind, seen, committed, fresh>>

Publish(r) == committed' = committed \cup ({at[r]} \cap {r})

\* suggested-questions goes to the provider unless the row has no tables or
\* held questions in this language when it was read.
WantsQuestions(r) ==
  /\ kind[r] \in Languages /\ rows[at[r]].schema # Empty
  /\ held[r][kind[r]] = NoSchema

\* The handler returns and the transaction commits.
Respond(r) ==
  /\ pc[r] = "loaded" /\ ~WantsQuestions(r)
  /\ Publish(r) /\ Goto(r, "done")
  /\ UNCHANGED <<live, reading, rows, fresh>>

AskProvider(r) ==
  /\ pc[r] = "loaded" /\ WantsQuestions(r) /\ Goto(r, "asking")
  /\ UNCHANGED <<live, reading, rows, committed, fresh>>

\* Mutant of Suggested: the answer is cached on whatever row is current by now.
SuggestedOnCurrent(r) ==
  /\ pc[r] = "asking" /\ at[r] # r
  /\ \E c \in Current : rows' = [rows EXCEPT ![c].questions =
       [held[r] EXCEPT ![kind[r]] = rows[at[r]].schema]]
  /\ Publish(r) /\ Goto(r, "done")
  /\ UNCHANGED <<live, reading, fresh>>

\* The provider answers: the whole mapping is written to the row the request
\* holds, from the copy it read, and the transaction commits.
Suggested(r) ==
  /\ pc[r] = "asking"
  /\ rows' = [rows EXCEPT ![at[r]].questions =
       [held[r] EXCEPT ![kind[r]] = rows[at[r]].schema]]
  /\ Publish(r) /\ Goto(r, "done")
  /\ UNCHANGED <<live, reading, fresh>>

\* Introspection, the provider or the panel database fails, an Ask run fails or
\* is cancelled: the transaction is rolled back, and the row it inserted with it.
Fail(r) ==
  /\ pc[r] \notin {"new", "done", "failed"} /\ Goto(r, "failed")
  /\ rows' = [rows EXCEPT ![r] = NoRow]
  /\ UNCHANGED <<live, reading, committed, fresh>>

\* The live database changes, or the connection is pointed at another one.
Ddl ==
  /\ live' \in Schemas \ {live} /\ fresh' = {}
  /\ UNCHANGED <<pc, reading, rows, committed>>

Next ==
  \/ Ddl
  \/ \E r \in Requests :
       \/ Start(r) \/ LookHit(r) \/ LookMiss(r) \/ Introspect(r) \/ Keep(r)
       \/ Insert(r) \/ Respond(r) \/ AskProvider(r) \/ Suggested(r) \/ Fail(r)

Spec == Init /\ [][Next]_vars

-----------------------------------------------------------------------------
(* Properties.                                                             *)

Inserted(r) == rows[r] # NoRow

\* Every stored version above the first replaced a stored version just below it
\* with a different structure: versions have no gaps and no row repeats the one
\* it was compared with, however requests overlap.
EachVersionIsAChange ==
  \A r \in Requests : Inserted(r) /\ rows[r].version > 1 =>
    \E d \in committed : /\ rows[d].version + 1 = rows[r].version
                         /\ rows[d].schema # rows[r].schema

\* Cached example questions were generated from the structure of the row they
\* are cached on, though the provider is awaited while others rebuild.
QuestionsFitTheirSnapshot ==
  \A r \in Requests, l \in Languages :
    Inserted(r) => rows[r].questions[l] \in {NoSchema, rows[r].schema}

Serves(r) == pc[r] \in {"loaded", "asking", "done"}

\* A request is given an empty structure only if it looked at the live database
\* itself and found it empty: an empty snapshot is never served from the cache.
EmptyIsNeverCached ==
  \A r \in Requests : Serves(r) /\ rows[at[r]].schema = Empty => seen[r] = Empty

\* What a request was given stays in the table: its row is its own or committed,
\* and a refresh is given the structure it introspected.
ServedRowExists ==
  \A r \in Requests : Serves(r) =>
    /\ (at[r] = r /\ Inserted(r)) \/ at[r] \in committed
    /\ kind[r] = "refresh" => rows[at[r]].schema = seen[r]

\* The inductive strengthening: a row is visible to others exactly when its
\* request is done, and a held copy of the questions fits the row it came from.
RowsInv ==
  \A r \in Requests :
    /\ Inserted(r) => at[r] = r /\ Serves(r)
    /\ r \in committed <=> Inserted(r) /\ pc[r] = "done"
    /\ pc[r] = "look" => kind[r] # "refresh"
    /\ pc[r] = "compare" => seen[r] \in Schemas

HeldInv ==
  \A r \in Requests, l \in Languages :
    Serves(r) => held[r][l] \in {NoSchema, rows[at[r]].schema}

CacheInv ==
  /\ RowsInv /\ HeldInv /\ ServedRowExists
  /\ EachVersionIsAChange /\ QuestionsFitTheirSnapshot /\ EmptyIsNeverCached

\* Types, and what is cached, held and served at each await of the requests
\* (cache.py:25-73): no empty schema from the cache, no row that is not there.
CacheOK == TypeOK /\ CacheInv

Idle == \A r \in Requests : pc[r] \in {"new", "done", "failed"}

\* docs/architecture.md, line 279: the highest version is the current schema.
\* Here, once a refresh that introspected after the last DDL has finished and
\* nobody is still at work.
HighestIsCurrent ==
  Idle /\ (\E r \in fresh : kind[r] = "refresh" /\ pc[r] = "done")
    => \A c \in Current : rows[c].schema = live

=============================================================================
