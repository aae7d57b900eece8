---------------------------- MODULE SchemaProofs ----------------------------
(***************************************************************************)
(* Proofs about the schema a question is answered with.                     *)
(*                                                                         *)
(* The cache of snapshots, for any number of concurrent requests, any       *)
(* structures and any languages; how a snapshot is read and probed, for     *)
(* any databases and any limits; what the verifier says of a statement; and *)
(* which tables a question is sent with.                                    *)
(***************************************************************************)
EXTENDS SnapshotCache, SchemaPipeline, SequenceTheorems, FiniteSetTheorems, FunctionTheorems, WellFoundedInduction, TLAPS

-----------------------------------------------------------------------------
(* The cache of snapshots.                                                  *)

\* A row is in the table or is the value that stands for none.
LEMMA RowFacts ==
  ASSUME TypeOK, NEW r \in Requests
  PROVE  /\ Inserted(r) => rows[r] \in Row /\ rows[r].version \in Nat \ {0}
                            /\ rows[r].schema \in Schemas /\ rows[r].questions \in Questions
         /\ NoRow \notin Row
<1>1. \A x \in Row : x.version # 0
  BY DEF Row
<1>2. NoRow.version = 0
  BY DEF NoRow
<1>3. NoRow \notin Row
  BY <1>1, <1>2
<1>4. Inserted(r) => rows[r] \in Row
  BY DEF TypeOK, Inserted
<1> QED BY <1>3, <1>4 DEF Row

\* A row built for a version and a structure.
LEMMA NewRowFacts ==
  ASSUME TypeOK, NEW r \in Requests, NEW v \in Nat \ {0}, NewRow(r, v), seen[r] \in Schemas
  PROVE  /\ rows' \in [Requests -> Row \cup {NoRow}]
         /\ rows'[r] = [version |-> v, schema |-> seen[r], questions |-> Unasked]
         /\ rows'[r] # NoRow
         /\ \A d \in Requests \ {r} : rows'[d] = rows[d]
<1>1. Unasked \in Questions
  BY DEF Unasked, Questions
<1>2. [version |-> v, schema |-> seen[r], questions |-> Unasked] \in Row
  BY <1>1 DEF Row
<1>3. rows' = [rows EXCEPT ![r] = [version |-> v, schema |-> seen[r], questions |-> Unasked]]
  BY DEF NewRow
<1>4. rows'[r] = [version |-> v, schema |-> seen[r], questions |-> Unasked]
  BY <1>3 DEF TypeOK
<1>5. rows'[r] # NoRow
  BY <1>4, <1>2, RowFacts
<1> QED BY <1>2, <1>3, <1>4, <1>5 DEF TypeOK

\* Writing the questions of a stored row leaves its version and structure alone.
LEMMA WriteFacts ==
  ASSUME TypeOK, NEW c \in Requests, Inserted(c), NEW q \in Questions,
         rows' = [rows EXCEPT ![c].questions = q]
  PROVE  /\ rows' \in [Requests -> Row \cup {NoRow}]
         /\ rows'[c].questions = q
         /\ \A d \in Requests \ {c} : rows'[d] = rows[d]
         /\ \A d \in Requests : /\ rows'[d].version = rows[d].version
                                /\ rows'[d].schema = rows[d].schema
                                /\ Inserted(d)' <=> Inserted(d)
<1>1. rows[c] \in Row /\ NoRow \notin Row
  BY RowFacts
<1>2. rows'[c] = [rows[c] EXCEPT !.questions = q]
  BY DEF TypeOK
<1>3. rows'[c] = [version |-> rows[c].version, schema |-> rows[c].schema, questions |-> q]
  BY <1>1, <1>2 DEF Row
<1>4. rows'[c] \in Row
  BY <1>1, <1>3 DEF Row
<1>5. \A d \in Requests \ {c} : rows'[d] = rows[d]
  BY DEF TypeOK
<1>6. rows' = [d \in Requests |-> IF d = c THEN [rows[c] EXCEPT !.questions = q] ELSE rows[d]]
  BY DEF TypeOK
<1>7. rows' \in [Requests -> Row \cup {NoRow}]
  BY <1>2, <1>4, <1>6 DEF TypeOK
<1> QED BY <1>1, <1>3, <1>4, <1>5, <1>7 DEF Inserted

-----------------------------------------------------------------------------

\* What a request at work, or its current candidate, may rely on.
LEMMA CurrentFacts ==
  ASSUME TypeOK, RowsInv, NEW c \in Current
  PROVE  /\ c \in Requests /\ c \in committed /\ Inserted(c)
         /\ rows[c] \in Row /\ rows[c].version \in Nat \ {0}
<1>1. c \in committed /\ c \in Requests
  BY DEF Current, TypeOK
<1>2. Inserted(c)
  BY <1>1 DEF RowsInv
<1> QED BY <1>1, <1>2, RowFacts

LEMMA ServedFacts ==
  ASSUME TypeOK, RowsInv, ServedRowExists, NEW r \in Requests, Serves(r)
  PROVE  at[r] \in Requests /\ Inserted(at[r]) /\ rows[at[r]] \in Row
<1>1. at[r] \in Requests
  BY DEF ServedRowExists, TypeOK
<1>2. Inserted(at[r])
  BY <1>1 DEF ServedRowExists, RowsInv
<1> QED BY <1>1, <1>2, RowFacts

LEMMA TypeStep ==
  ASSUME TypeOK, CacheInv, [Next]_vars
  PROVE  TypeOK'
<1> USE DEF TypeOK, RequestsOK, Kinds
<1>1. CASE Ddl
  BY <1>1 DEF Ddl, reading
<1>2. ASSUME NEW r \in Requests, Start(r) PROVE TypeOK'
  BY <1>2 DEF Start, Goto
<1>3. ASSUME NEW r \in Requests, LookHit(r) \/ Keep(r) PROVE TypeOK'
  <2>1. PICK c \in Current : Serve(r, c) /\ UNCHANGED <<live, kind, seen, rows, committed, fresh>>
    BY <1>3 DEF LookHit, Keep
  <2>2. c \in Requests /\ rows[c].questions \in Questions
    BY CurrentFacts DEF CacheInv, Row
  <2> QED BY <2>1, <2>2 DEF Serve, Goto
<1>4. ASSUME NEW r \in Requests, LookMiss(r) \/ AskProvider(r) PROVE TypeOK'
  BY <1>4 DEF LookMiss, AskProvider, Goto, reading
<1>5. ASSUME NEW r \in Requests, Introspect(r) PROVE TypeOK'
  BY <1>5 DEF Introspect, Goto
<1>6. ASSUME NEW r \in Requests, Insert(r) PROVE TypeOK'
  <2> HIDE DEF TypeOK, RequestsOK, Kinds
  <2>1. PICK v \in Nat \ {0} : NewRow(r, v)
    BY <1>6, CurrentFacts DEF Insert, CacheInv
  <2>2. seen[r] \in Schemas
    BY <1>6 DEF Insert, CacheInv, RowsInv
  <2>3. rows' \in [Requests -> Row \cup {NoRow}] /\ rows'[r].questions = Unasked
    <3>1. /\ rows' \in [Requests -> Row \cup {NoRow}]
          /\ rows'[r] = [version |-> v, schema |-> seen[r], questions |-> Unasked]
      BY <2>1, <2>2, NewRowFacts
    <3> QED BY <3>1
  <2>4. Unasked \in Questions
    BY DEF Unasked, Questions
  <2>5. /\ at' = [at EXCEPT ![r] = r] /\ held' = [held EXCEPT ![r] = Unasked]
        /\ pc' = [pc EXCEPT ![r] = "loaded"]
        /\ UNCHANGED <<live, kind, seen, committed, fresh>>
    BY <1>6, <2>3 DEF Insert, Serve, Goto
  <2> QED BY <2>3, <2>4, <2>5 DEF TypeOK, RequestsOK
<1>7. ASSUME NEW r \in Requests, Respond(r) PROVE TypeOK'
  BY <1>7 DEF Respond, Publish, Goto, reading
<1>8. ASSUME NEW r \in Requests, Suggested(r) PROVE TypeOK'
  <2> HIDE DEF TypeOK, RequestsOK, Kinds
  <2>1. at[r] \in Requests /\ Inserted(at[r]) /\ rows[at[r]] \in Row
    BY <1>8, ServedFacts DEF Suggested, Serves, CacheInv
  <2>2. [held[r] EXCEPT ![kind[r]] = rows[at[r]].schema] \in Questions
    BY <2>1 DEF TypeOK, RequestsOK, Questions, Row
  <2>3. rows' \in [Requests -> Row \cup {NoRow}]
    BY <1>8, <2>1, <2>2, WriteFacts DEF Suggested
  <2> QED BY <1>8, <2>3 DEF Suggested, Publish, Goto, reading, TypeOK, RequestsOK
<1>9. ASSUME NEW r \in Requests, Fail(r) PROVE TypeOK'
  BY <1>9 DEF Fail, Goto, reading
<1>10. CASE UNCHANGED vars
  BY <1>10 DEF vars, reading
<1> QED BY <1>1, <1>2, <1>3, <1>4, <1>5, <1>6, <1>7, <1>8, <1>9, <1>10 DEF Next

-----------------------------------------------------------------------------

\* Steps that touch neither a row nor what a request serves.
LEMMA QuietStep ==
  ASSUME TypeOK, CacheInv, UNCHANGED <<rows, committed, at, held>>,
         \/ Ddl
         \/ \E r \in Requests : Start(r) \/ LookMiss(r) \/ Introspect(r) \/ AskProvider(r)
         \/ UNCHANGED vars
  PROVE  CacheInv'
<1> DEFINE Same(r) == /\ Serves(r)' <=> Serves(r)
                      /\ Inserted(r)' <=> Inserted(r)
                      /\ (pc[r] = "done")' <=> pc[r] = "done"
                      /\ Serves(r) => (kind[r])' = kind[r] /\ (seen[r])' = seen[r]
<1>1. \A r \in Requests : Same(r)
  <2>1. CASE Ddl
    BY <2>1 DEF Ddl, reading, Serves, Inserted
  <2>2. ASSUME NEW q \in Requests, Start(q) PROVE \A r \in Requests : Same(r)
    BY <2>2 DEF Start, Goto, Serves, Inserted, TypeOK, RequestsOK
  <2>3. ASSUME NEW q \in Requests, LookMiss(q) \/ AskProvider(q) PROVE \A r \in Requests : Same(r)
    BY <2>3 DEF LookMiss, AskProvider, Goto, Serves, Inserted, TypeOK, RequestsOK, reading
  <2>4. ASSUME NEW q \in Requests, Introspect(q) PROVE \A r \in Requests : Same(r)
    BY <2>4 DEF Introspect, Goto, Serves, Inserted, TypeOK, RequestsOK
  <2>5. CASE UNCHANGED vars
    BY <2>5 DEF vars, reading, Serves, Inserted
  <2> QED BY <2>1, <2>2, <2>3, <2>4, <2>5
<1>2. RowsInv'
  <2>1. \A r \in Requests : /\ (pc[r] = "look" => kind[r] # "refresh")'
                            /\ (pc[r] = "compare" => seen[r] \in Schemas)'
    <3>1. CASE Ddl \/ UNCHANGED vars
      BY <3>1 DEF Ddl, vars, reading, CacheInv, RowsInv
    <3>2. ASSUME NEW q \in Requests, Start(q)
          PROVE  \A r \in Requests : /\ (pc[r] = "look" => kind[r] # "refresh")'
                                     /\ (pc[r] = "compare" => seen[r] \in Schemas)'
      BY <3>2 DEF Start, Goto, TypeOK, RequestsOK, CacheInv, RowsInv
    <3>3. ASSUME NEW q \in Requests, LookMiss(q) \/ AskProvider(q)
          PROVE  \A r \in Requests : /\ (pc[r] = "look" => kind[r] # "refresh")'
                                     /\ (pc[r] = "compare" => seen[r] \in Schemas)'
      BY <3>3 DEF LookMiss, AskProvider, Goto, TypeOK, RequestsOK, CacheInv, RowsInv, reading
    <3>4. ASSUME NEW q \in Requests, Introspect(q)
          PROVE  \A r \in Requests : /\ (pc[r] = "look" => kind[r] # "refresh")'
                                     /\ (pc[r] = "compare" => seen[r] \in Schemas)'
      BY <3>4 DEF Introspect, Goto, TypeOK, RequestsOK, CacheInv, RowsInv
    <3> QED BY <3>1, <3>2, <3>3, <3>4
  <2> QED BY <1>1, <2>1 DEF CacheInv, RowsInv
<1>3. HeldInv' /\ ServedRowExists' /\ EmptyIsNeverCached'
  BY <1>1 DEF CacheInv, HeldInv, ServedRowExists, EmptyIsNeverCached
<1>4. EachVersionIsAChange' /\ QuestionsFitTheirSnapshot'
  BY <1>1 DEF CacheInv, EachVersionIsAChange, QuestionsFitTheirSnapshot
<1> QED BY <1>2, <1>3, <1>4 DEF CacheInv

\* A request starts to serve a committed row.
LEMMA HitStep ==
  ASSUME TypeOK, CacheInv, NEW r \in Requests, LookHit(r) \/ Keep(r)
  PROVE  CacheInv'
<1>1. PICK c \in Current : /\ Serve(r, c)
                           /\ \/ pc[r] = "look" /\ rows[c].schema # Empty
                              \/ pc[r] = "compare" /\ rows[c].schema = seen[r]
                           /\ UNCHANGED <<live, kind, seen, rows, committed, fresh>>
  BY DEF LookHit, Keep
<1>2. c \in committed /\ c \in Requests /\ Inserted(c) /\ c # r
  BY CurrentFacts DEF CacheInv, RowsInv, LookHit, Keep
<1>3. /\ at' = [at EXCEPT ![r] = c] /\ held' = [held EXCEPT ![r] = rows[c].questions]
      /\ pc' = [pc EXCEPT ![r] = "loaded"] /\ pc[r] \in {"look", "compare"}
  BY <1>1 DEF Serve, Goto, LookHit, Keep
<1>4. ~Inserted(r) /\ r \notin committed /\ ~Serves(r)
  BY <1>3 DEF CacheInv, RowsInv, Serves
<1>5. RowsInv'
  BY <1>1, <1>3, <1>4 DEF CacheInv, RowsInv, Inserted, Serves, TypeOK, RequestsOK
<1>6. HeldInv'
  <2> SUFFICES ASSUME NEW x \in Requests, Serves(x)', NEW l \in Languages
               PROVE  held'[x][l] \in {NoSchema, rows'[at'[x]].schema}
    BY DEF HeldInv
  <2>1. CASE x = r
    BY <2>1, <1>1, <1>2, <1>3 DEF CacheInv, QuestionsFitTheirSnapshot, TypeOK, RequestsOK
  <2>2. CASE x # r
    BY <2>2, <1>1, <1>3 DEF CacheInv, HeldInv, Serves, TypeOK, RequestsOK
  <2> QED BY <2>1, <2>2
<1>7. kind[r] = "refresh" => rows[c].schema = seen[r]
  BY <1>1 DEF CacheInv, RowsInv
<1>8. ServedRowExists'
  <2> SUFFICES ASSUME NEW x \in Requests, Serves(x)'
               PROVE  /\ (at'[x] = x /\ Inserted(x)') \/ at'[x] \in committed'
                      /\ kind'[x] = "refresh" => rows'[at'[x]].schema = seen'[x]
    BY DEF ServedRowExists
  <2>1. CASE x = r
    BY <2>1, <1>1, <1>2, <1>3, <1>7 DEF TypeOK, RequestsOK
  <2>2. CASE x # r
    BY <2>2, <1>1, <1>3 DEF CacheInv, ServedRowExists, Inserted, Serves, TypeOK, RequestsOK
  <2> QED BY <2>1, <2>2
<1>9. EmptyIsNeverCached'
  BY <1>1, <1>3 DEF CacheInv, EmptyIsNeverCached, Serves, TypeOK, RequestsOK
<1>10. EachVersionIsAChange' /\ QuestionsFitTheirSnapshot'
  BY <1>1 DEF CacheInv, EachVersionIsAChange, QuestionsFitTheirSnapshot, Inserted
<1> QED BY <1>5, <1>6, <1>8, <1>9, <1>10 DEF CacheInv

\* A request inserts its row and starts to serve it.
LEMMA InsertStep ==
  ASSUME TypeOK, CacheInv, NEW r \in Requests, Insert(r)
  PROVE  CacheInv'
<1>1. PICK v \in Nat \ {0} :
        /\ NewRow(r, v)
        /\ v > 1 => \E c \in committed : rows[c].version + 1 = v /\ rows[c].schema # seen[r]
  <2>1. CASE committed = {} /\ NewRow(r, 1)
    BY <2>1
  <2>2. CASE \E c \in Current : rows[c].schema # seen[r] /\ NewRow(r, rows[c].version + 1)
    BY <2>2, CurrentFacts DEF CacheInv
  <2> QED BY <2>1, <2>2 DEF Insert
<1>2. /\ seen[r] \in Schemas /\ ~Inserted(r) /\ r \notin committed
      /\ pc[r] = "compare" /\ pc' = [pc EXCEPT ![r] = "loaded"] /\ at' = [at EXCEPT ![r] = r]
      /\ UNCHANGED <<live, kind, seen, committed, fresh>>
  BY DEF Insert, Serve, Goto, CacheInv, RowsInv, Serves
<1>3. /\ rows'[r] = [version |-> v, schema |-> seen[r], questions |-> Unasked]
      /\ Inserted(r)'
      /\ \A d \in Requests \ {r} : rows'[d] = rows[d]
  BY <1>1, <1>2, NewRowFacts DEF Inserted
<1>4. held' = [held EXCEPT ![r] = Unasked]
  BY <1>3 DEF Insert, Serve
<1>5. \A x \in Requests \ {r} : Serves(x) => at[x] \in Requests \ {r}
  BY <1>2 DEF CacheInv, ServedRowExists, TypeOK
<1>6. RowsInv'
  BY <1>2, <1>3 DEF CacheInv, RowsInv, Inserted, Serves, TypeOK, RequestsOK
<1>7. HeldInv' /\ ServedRowExists' /\ EmptyIsNeverCached'
  <2> SUFFICES ASSUME NEW x \in Requests, Serves(x)'
               PROVE  /\ \A l \in Languages : held'[x][l] \in {NoSchema, rows'[at'[x]].schema}
                      /\ (at'[x] = x /\ Inserted(x)') \/ at'[x] \in committed'
                      /\ kind'[x] = "refresh" => rows'[at'[x]].schema = seen'[x]
                      /\ rows'[at'[x]].schema = Empty => seen'[x] = Empty
    BY DEF HeldInv, ServedRowExists, EmptyIsNeverCached
  <2>1. CASE x = r
    BY <2>1, <1>2, <1>3, <1>4 DEF Unasked, TypeOK, RequestsOK
  <2>2. CASE x # r
    <3>1. /\ Serves(x) /\ at'[x] = at[x] /\ held'[x] = held[x] /\ rows'[at[x]] = rows[at[x]]
          /\ rows'[x] = rows[x]
      BY <2>2, <1>2, <1>3, <1>4, <1>5 DEF Serves, TypeOK, RequestsOK
    <3> QED BY <3>1, <1>2 DEF CacheInv, HeldInv, ServedRowExists, EmptyIsNeverCached, Inserted
  <2> QED BY <2>1, <2>2
<1>8. EachVersionIsAChange'
  <2> SUFFICES ASSUME NEW x \in Requests, Inserted(x)', rows'[x].version > 1
               PROVE  \E d \in committed' : /\ rows'[d].version + 1 = rows'[x].version
                                            /\ rows'[d].schema # rows'[x].schema
    BY DEF EachVersionIsAChange
  <2>1. \A d \in committed : rows'[d] = rows[d]
    BY <1>2, <1>3 DEF TypeOK
  <2>2. CASE x = r
    BY <2>1, <2>2, <1>1, <1>2, <1>3
  <2>3. CASE x # r
    BY <2>1, <2>3, <1>2, <1>3 DEF CacheInv, EachVersionIsAChange, Inserted
  <2> QED BY <2>2, <2>3
<1>9. QuestionsFitTheirSnapshot'
  BY <1>3 DEF CacheInv, QuestionsFitTheirSnapshot, Inserted, Unasked
<1> QED BY <1>6, <1>7, <1>8, <1>9 DEF CacheInv

\* A request is done, possibly after writing questions to the row it serves.
LEMMA DoneStep ==
  ASSUME TypeOK, CacheInv, NEW r \in Requests, Respond(r) \/ Suggested(r)
  PROVE  CacheInv'
<1>1. /\ Serves(r) /\ pc[r] # "done" /\ pc' = [pc EXCEPT ![r] = "done"]
      /\ committed' = committed \cup ({at[r]} \cap {r})
      /\ UNCHANGED <<live, kind, seen, at, held, fresh>>
  BY DEF Respond, Suggested, Serves, Publish, Goto, reading
<1>2. at[r] \in Requests /\ Inserted(at[r]) /\ rows[at[r]] \in Row
  BY <1>1, ServedFacts DEF CacheInv
<1>3. \A x \in Requests : /\ rows'[x].version = rows[x].version
                          /\ rows'[x].schema = rows[x].schema
                          /\ Inserted(x)' <=> Inserted(x)
                          /\ \A l \in Languages :
                               Inserted(x) => rows'[x].questions[l] \in {NoSchema, rows[x].schema}
  <2>1. CASE Respond(r)
    BY <2>1 DEF Respond, CacheInv, QuestionsFitTheirSnapshot, Inserted
  <2>2. CASE Suggested(r)
    <3> DEFINE q == [held[r] EXCEPT ![kind[r]] = rows[at[r]].schema]
    <3>1. q \in Questions
      BY <1>2 DEF Questions, Row, TypeOK, RequestsOK
    <3>2. \A l \in Languages : q[l] \in {NoSchema, rows[at[r]].schema}
      BY <1>1 DEF CacheInv, HeldInv, TypeOK, RequestsOK, Questions
    <3>3. rows' = [rows EXCEPT ![at[r]].questions = q]
      BY <2>2 DEF Suggested
    <3> HIDE DEF q
    <3>4. /\ rows'[at[r]].questions = q
          /\ \A d \in Requests \ {at[r]} : rows'[d] = rows[d]
          /\ \A d \in Requests : /\ rows'[d].version = rows[d].version
                                 /\ rows'[d].schema = rows[d].schema
                                 /\ Inserted(d)' <=> Inserted(d)
      BY <1>2, <3>1, <3>3, WriteFacts
    <3> QED BY <3>2, <3>4 DEF CacheInv, QuestionsFitTheirSnapshot
  <2> QED BY <2>1, <2>2
<1>4. \A x \in Requests : Serves(x)' <=> Serves(x)
  BY <1>1 DEF Serves, TypeOK, RequestsOK
<1>5. \A x \in Requests : Serves(x) => at[x] \in Requests
  BY ServedFacts DEF CacheInv
<1>6. RowsInv'
  <2> SUFFICES ASSUME NEW x \in Requests
               PROVE  /\ Inserted(x)' => at'[x] = x /\ Serves(x)'
                      /\ x \in committed' <=> Inserted(x)' /\ pc'[x] = "done"
                      /\ pc'[x] = "look" => kind'[x] # "refresh"
                      /\ pc'[x] = "compare" => seen'[x] \in Schemas
    BY DEF RowsInv
  <2>1. CASE x = r
    BY <2>1, <1>1, <1>2, <1>3, <1>4 DEF CacheInv, RowsInv, TypeOK, RequestsOK
  <2>2. CASE x # r
    BY <2>2, <1>1, <1>3, <1>4 DEF CacheInv, RowsInv, TypeOK, RequestsOK
  <2> QED BY <2>1, <2>2
<1>7. HeldInv' /\ ServedRowExists' /\ EmptyIsNeverCached'
  BY <1>1, <1>3, <1>4, <1>5 DEF CacheInv, HeldInv, ServedRowExists, EmptyIsNeverCached
<1>8. EachVersionIsAChange'
  BY <1>1, <1>3 DEF CacheInv, EachVersionIsAChange, TypeOK
<1>9. QuestionsFitTheirSnapshot'
  BY <1>3 DEF QuestionsFitTheirSnapshot
<1> QED BY <1>6, <1>7, <1>8, <1>9 DEF CacheInv

\* A request fails: only its own uncommitted row goes.
LEMMA FailStep ==
  ASSUME TypeOK, CacheInv, NEW r \in Requests, Fail(r)
  PROVE  CacheInv'
<1>1. /\ pc[r] # "done" /\ r \notin committed /\ pc' = [pc EXCEPT ![r] = "failed"]
      /\ UNCHANGED <<live, kind, seen, committed, at, held, fresh>>
  BY DEF Fail, Goto, reading, CacheInv, RowsInv
<1>2. rows'[r] = NoRow /\ \A d \in Requests \ {r} : rows'[d] = rows[d]
  BY DEF Fail, TypeOK
<1>3. \A x \in Requests : Serves(x)' <=> Serves(x) /\ x # r
  BY <1>1 DEF Serves, TypeOK, RequestsOK
<1>4. \A x \in Requests \ {r} : Serves(x) => at[x] \in Requests \ {r}
  BY <1>1 DEF CacheInv, ServedRowExists, TypeOK
<1>5. \A x \in Requests : Inserted(x)' <=> Inserted(x) /\ x # r
  BY <1>2 DEF Inserted
<1>6. RowsInv'
  BY <1>1, <1>3, <1>5 DEF CacheInv, RowsInv, TypeOK, RequestsOK
<1>7. HeldInv' /\ ServedRowExists' /\ EmptyIsNeverCached'
  BY <1>1, <1>2, <1>3, <1>4, <1>5 DEF CacheInv, HeldInv, ServedRowExists, EmptyIsNeverCached
<1>8. EachVersionIsAChange'
  BY <1>1, <1>2, <1>5 DEF CacheInv, EachVersionIsAChange, TypeOK
<1>9. QuestionsFitTheirSnapshot'
  BY <1>2, <1>5 DEF CacheInv, QuestionsFitTheirSnapshot
<1> QED BY <1>6, <1>7, <1>8, <1>9 DEF CacheInv

-----------------------------------------------------------------------------

LEMMA InvInit == Init => TypeOK /\ CacheInv
<1> SUFFICES ASSUME Init PROVE TypeOK /\ CacheInv
  OBVIOUS
<1>1. TypeOK
  BY DEF Init, TypeOK, RequestsOK, Kinds, Unasked, Questions
<1>2. \A r \in Requests : ~Inserted(r) /\ ~Serves(r)
  BY DEF Init, Inserted, Serves
<1> QED
  BY <1>1, <1>2
     DEF Init, CacheInv, RowsInv, HeldInv, ServedRowExists, EachVersionIsAChange,
         QuestionsFitTheirSnapshot, EmptyIsNeverCached

LEMMA InvStep == TypeOK /\ CacheInv /\ [Next]_vars => (TypeOK /\ CacheInv)'
<1> SUFFICES ASSUME TypeOK, CacheInv, [Next]_vars PROVE TypeOK' /\ CacheInv'
  OBVIOUS
<1>1. TypeOK'
  BY TypeStep
<1>2. CacheInv'
  <2>1. CASE Ddl
    BY <2>1, QuietStep DEF Ddl, reading
  <2>2. ASSUME NEW r \in Requests, Start(r) \/ LookMiss(r) \/ Introspect(r) \/ AskProvider(r)
        PROVE  CacheInv'
    <3>1. UNCHANGED <<rows, committed, at, held>>
      BY <2>2 DEF Start, LookMiss, Introspect, AskProvider, reading
    <3> QED BY <2>2, <3>1, QuietStep
  <2>3. ASSUME NEW r \in Requests, LookHit(r) \/ Keep(r) PROVE CacheInv'
    BY <2>3, HitStep
  <2>4. ASSUME NEW r \in Requests, Insert(r) PROVE CacheInv'
    BY <2>4, InsertStep
  <2>5. ASSUME NEW r \in Requests, Respond(r) \/ Suggested(r) PROVE CacheInv'
    BY <2>5, DoneStep
  <2>6. ASSUME NEW r \in Requests, Fail(r) PROVE CacheInv'
    BY <2>6, FailStep
  <2>7. CASE UNCHANGED vars
    BY <2>7, QuietStep DEF vars, reading
  <2> QED BY <2>1, <2>2, <2>3, <2>4, <2>5, <2>6, <2>7 DEF Next
<1> QED BY <1>1, <1>2

\* Type correctness, and the inductive invariant of the cache.
THEOREM TypeAndCache == Spec => [](TypeOK /\ CacheInv)
BY InvInit, InvStep, PTL DEF Spec

\* However requests overlap, versions have no gaps and each differs from the one
\* it was compared with (cache.py, rebuild_snapshot).
THEOREM VersionsAreChanges == Spec => []EachVersionIsAChange
BY TypeAndCache, PTL DEF CacheInv

\* Cached questions belong to the structure they are cached with, across the
\* await of the provider (connections.py, suggested_questions).
THEOREM QuestionsFit == Spec => []QuestionsFitTheirSnapshot
BY TypeAndCache, PTL DEF CacheInv

\* An empty snapshot is never served from the cache (cache.py, ensure_snapshot).
THEOREM EmptyNotCached == Spec => []EmptyIsNeverCached
BY TypeAndCache, PTL DEF CacheInv

\* A response is backed by a row that stays, and a refresh returns what it saw.
THEOREM ServedRows == Spec => []ServedRowExists
BY TypeAndCache, PTL DEF CacheInv

\* Types and the inductive invariant of the cache.
THEOREM CacheIsSound == Spec => []CacheOK
BY TypeAndCache, PTL DEF CacheOK

-----------------------------------------------------------------------------
(* The elements of a sequence at some positions.                            *)

\* A family of subsets of a finite set has a least one.
LEMMA Smallest ==
  ASSUME NEW S, IsFiniteSet(S), NEW F, F \subseteq SUBSET S, F # {}
  PROVE  \E X \in F : \A Y \in F : Y \subseteq X => Y = X
<1>1. F \subseteq FiniteSubsetsOf(S)
  BY FS_FiniteSubsetsOfFinite
<1>2. PICK X \in F : \A Y \in F : ~(<<Y, X>> \in StrictSubsetOrdering(S))
  BY <1>1, WFMin, FS_StrictSubsetOrderingWellFounded
<1> QED BY <1>2 DEF StrictSubsetOrdering

\* A set of numbers has a least one.
LEMMA LeastNumber ==
  ASSUME NEW n \in Nat, NEW bad, bad \subseteq 1..n, bad # {}
  PROVE  \E m \in bad : \A k \in bad : m <= k
<1> DEFINE below == {1..m : m \in bad}
<1>1. IsFiniteSet(1..n)
  BY FS_Interval, n \in Int, 1 \in Int
<1>2. below \subseteq SUBSET (1..n) /\ below # {}
  <2>1. \A m \in bad : 1..m \subseteq 1..n
    OBVIOUS
  <2> QED BY <2>1
<1>3. \E X \in below : \A Y \in below : Y \subseteq X => Y = X
  <2> DEFINE all == 1..n
  <2>1. IsFiniteSet(all) /\ below \subseteq SUBSET all /\ below # {}
    BY <1>1, <1>2
  <2> HIDE DEF all, below
  <2> QED BY <2>1, Smallest
<1>4. PICK m \in bad : \A Y \in below : Y \subseteq 1..m => Y = 1..m
  BY <1>3
<1>5. ASSUME NEW k \in bad, k < m PROVE FALSE
  <2>1. 1..k \in below /\ 1..k \subseteq 1..m /\ m \in 1..m /\ m \notin 1..k
    BY <1>5
  <2> QED BY <1>4, <2>1
<1> QED BY <1>5

\* What ElementsAt chooses: the elements kept of the first n.
KeptTo(s, places, n, f) ==
  f = [i \in 0..n |-> IF i = 0 THEN <<>> ELSE IF i \in places THEN Append(f[i - 1], s[i]) ELSE f[i - 1]]

LEMMA KeptGrow ==
  ASSUME NEW s, NEW places, NEW n \in Nat, NEW f, KeptTo(s, places, n, f)
  PROVE  \E g : KeptTo(s, places, n + 1, g)
<1> DEFINE next == IF n + 1 \in places THEN Append(f[n], s[n + 1]) ELSE f[n]
           g == [i \in 0..(n + 1) |-> IF i = n + 1 THEN next ELSE f[i]]
<1>1. ASSUME NEW i \in 0..(n + 1)
      PROVE  g[i] = (IF i = 0 THEN <<>> ELSE IF i \in places THEN Append(g[i - 1], s[i]) ELSE g[i - 1])
  <2>1. CASE i = n + 1
    <3>1. i # 0 /\ i - 1 = n /\ n \in 0..(n + 1) /\ n # n + 1
      BY <2>1
    <3>2. g[i] = next /\ g[i - 1] = f[n]
      BY <2>1, <3>1
    <3> QED BY <2>1, <3>1, <3>2
  <2>2. CASE i # n + 1
    <3>1. i \in 0..n /\ (i # 0 => i - 1 \in 0..n)
      BY <2>2
    <3>2. g[i] = f[i] /\ (i # 0 => g[i - 1] = f[i - 1])
      BY <2>2, <3>1
    <3>3. f[i] = (IF i = 0 THEN <<>> ELSE IF i \in places THEN Append(f[i - 1], s[i]) ELSE f[i - 1])
      BY <3>1 DEF KeptTo
    <3> QED BY <3>2, <3>3
  <2> QED BY <2>1, <2>2
<1>2. g = [i \in 0..(n + 1) |-> g[i]]
  OBVIOUS
<1> HIDE DEF g
<1>3. g = [i \in 0..(n + 1) |-> IF i = 0 THEN <<>> ELSE IF i \in places THEN Append(g[i - 1], s[i]) ELSE g[i - 1]]
  BY <1>1, <1>2
<1> QED BY <1>3 DEF KeptTo

LEMMA KeptExist ==
  ASSUME NEW s, NEW places, NEW n \in Nat
  PROVE  \E f : KeptTo(s, places, n, f)
<1> DEFINE bad == {i \in 1..n : ~\E f : KeptTo(s, places, i, f)}
<1>1. \E f : KeptTo(s, places, 0, f)
  <2> DEFINE f == [i \in 0..0 |-> <<>>]
  <2>1. \A i \in 0..0 : i = 0
    OBVIOUS
  <2>2. KeptTo(s, places, 0, f)
    BY <2>1 DEF KeptTo
  <2> QED BY <2>2
<1>2. SUFFICES ASSUME bad # {} PROVE FALSE
  BY <1>1
<1>3. PICK m \in bad : \A i \in bad : m <= i
  BY <1>2, LeastNumber
<1>4. m \in 1..n /\ ~(\E f : KeptTo(s, places, m, f)) /\ m - 1 \in Nat
  OBVIOUS
<1>5. \E f : KeptTo(s, places, m - 1, f)
  <2>1. CASE m = 1
    BY <1>1, <2>1
  <2>2. CASE m # 1
    <3>1. m - 1 \in 1..n /\ m - 1 < m
      BY <1>4, <2>2
    <3> QED BY <1>3, <3>1
  <2> QED BY <2>1, <2>2
<1>6. m - 1 + 1 = m
  BY <1>4
<1> QED BY <1>4, <1>5, <1>6, KeptGrow

\* The elements kept of the first n are those at the positions asked for, one for each.
KeptRight(s, places, n, e) ==
  /\ e \in Seq({s[i] : i \in DOMAIN s})
  /\ {e[k] : k \in DOMAIN e} = {s[i] : i \in (1..n) \cap places}
  /\ IsFiniteSet((1..n) \cap places) /\ Len(e) = Cardinality((1..n) \cap places)

LEMMA KeptOneMore ==
  ASSUME NEW s, IsSequence(s), NEW places, NEW n \in 1..Len(s), NEW e, KeptRight(s, places, n - 1, e)
  PROVE  /\ n \in places => KeptRight(s, places, n, Append(e, s[n]))
         /\ n \notin places => KeptRight(s, places, n, e)
<1> DEFINE S == {s[i] : i \in DOMAIN s}
           old == (1..(n - 1)) \cap places
           new == (1..n) \cap places
<1>1. s \in Seq(S) /\ Len(s) \in Nat /\ DOMAIN s = 1..Len(s) /\ s[n] \in S
  BY DEF IsSequence
<1>2. 1..n = (1..(n - 1)) \cup {n} /\ n \notin 1..(n - 1)
  BY <1>1
<1>3. CASE n \notin places
  <2>1. new = old
    BY <1>2, <1>3
  <2> QED BY <1>3, <2>1 DEF KeptRight
<1>4. CASE n \in places
  <2> DEFINE x == s[n]
  <2>1. x \in S /\ new = old \cup {n} /\ n \notin old
    BY <1>1, <1>2, <1>4
  <2>2. e \in Seq(S) /\ IsFiniteSet(old) /\ Len(e) = Cardinality(old) /\ {e[k] : k \in DOMAIN e} = {s[i] : i \in old}
    BY DEF KeptRight
  <2> HIDE DEF S, x, old, new
  <2>3. IsFiniteSet(new) /\ Cardinality(new) = Cardinality(old) + 1
    BY <2>1, <2>2, FS_AddElement
  <2> DEFINE app == Append(e, x)
  <2>4. app \in Seq(S) /\ Len(app) = Len(e) + 1 /\ app[Len(e) + 1] = x /\ \A k \in 1..Len(e) : app[k] = e[k]
    BY <2>1, <2>2, AppendProperties
  <2>5. DOMAIN e = 1..Len(e) /\ DOMAIN app = 1..(Len(e) + 1) /\ Len(e) \in Nat
    BY <2>2, <2>4
  <2> HIDE DEF app
  <2>6. DOMAIN app = DOMAIN e \cup {Len(e) + 1} /\ \A k \in DOMAIN e : app[k] = e[k]
    BY <2>4, <2>5
  <2>7. {app[k] : k \in DOMAIN app} = {e[k] : k \in DOMAIN e} \cup {x}
    BY <2>4, <2>6
  <2>8. {s[i] : i \in new} = {s[i] : i \in old} \cup {x}
    BY <2>1 DEF x
  <2>9. {app[k] : k \in DOMAIN app} = {s[i] : i \in new} /\ Len(app) = Cardinality(new)
    BY <2>2, <2>3, <2>4, <2>7, <2>8
  <2>10. KeptRight(s, places, n, app)
    BY <2>3, <2>4, <2>9 DEF KeptRight, new, S
  <2> QED BY <1>4, <2>10 DEF app, x
<1> QED BY <1>3, <1>4

LEMMA ElementsAtIs ==
  ASSUME NEW s, IsSequence(s), NEW places, places \subseteq DOMAIN s
  PROVE  /\ ElementsAt(s, places) \in Seq({s[i] : i \in DOMAIN s})
         /\ {ElementsAt(s, places)[k] : k \in DOMAIN ElementsAt(s, places)} = {s[i] : i \in places}
         /\ IsFiniteSet(places) /\ Len(ElementsAt(s, places)) = Cardinality(places)
<1> DEFINE n == Len(s)
           kept == CHOOSE f : KeptTo(s, places, n, f)
           bad == {i \in 1..n : ~KeptRight(s, places, i, kept[i])}
<1>1. n \in Nat /\ DOMAIN s = 1..n
  BY DEF IsSequence
<1>2. KeptTo(s, places, n, kept)
  BY <1>1, KeptExist
<1>3. ElementsAt(s, places) = kept[n]
  BY DEF ElementsAt, KeptTo
<1> HIDE DEF kept
<1>4. KeptRight(s, places, 0, kept[0])
  <2>1. kept[0] = <<>>
    <3>1. 0 \in 0..n
      BY <1>1
    <3> QED BY <1>2, <3>1 DEF KeptTo
  <2>2. (1..0) \cap places = {}
    OBVIOUS
  <2>3. IsFiniteSet({}) /\ Cardinality({}) = 0
    BY FS_EmptySet
  <2>4. <<>> \in Seq({s[i] : i \in DOMAIN s}) /\ Len(<<>>) = 0 /\ DOMAIN <<>> = {}
    OBVIOUS
  <2> QED BY <2>1, <2>2, <2>3, <2>4 DEF KeptRight
<1>5. ASSUME bad # {} PROVE FALSE
  <2>1. PICK m \in bad : \A i \in bad : m <= i
    BY <1>1, <1>5, LeastNumber
  <2>2. m \in 1..n /\ m \in 0..n /\ m # 0 /\ ~KeptRight(s, places, m, kept[m])
    BY <1>1
  <2>3. KeptRight(s, places, m - 1, kept[m - 1])
    <3>1. CASE m = 1
      BY <1>4, <3>1
    <3>2. CASE m # 1
      <4>1. m - 1 \in 1..n /\ m - 1 < m
        BY <1>1, <2>2, <3>2
      <4> QED BY <2>1, <4>1
    <3> QED BY <3>1, <3>2
  <2>4. kept[m] = IF m \in places THEN Append(kept[m - 1], s[m]) ELSE kept[m - 1]
    BY <1>2, <2>2 DEF KeptTo
  <2> QED BY <2>2, <2>3, <2>4, KeptOneMore
<1>6. KeptRight(s, places, n, kept[n])
  <2>1. n = 0 \/ n \in 1..n
    BY <1>1
  <2> QED BY <1>4, <1>5, <2>1
<1>7. (1..n) \cap places = places
  BY <1>1
<1> QED BY <1>3, <1>6, <1>7 DEF KeptRight

-----------------------------------------------------------------------------
(* Foreign keys.                                                            *)

\* A key's pairs of columns are those of its constraint's rows.
LEMMA KeyTellsItsRows ==
  ASSUME NEW keyRows, IsSequence(keyRows), NEW head
  PROVE  PairsOf(KeyOf(head, ElementsAt(keyRows, {i \in DOMAIN keyRows : keyRows[i].constraint = head.constraint})))
           = Pairs(keyRows, head.constraint)
<1> DEFINE places == {i \in DOMAIN keyRows : keyRows[i].constraint = head.constraint}
           own == ElementsAt(keyRows, places)
           key == KeyOf(head, own)
<1>1. places \subseteq DOMAIN keyRows
  OBVIOUS
<1>2. {own[k] : k \in DOMAIN own} = {keyRows[i] : i \in places}
  BY <1>1, ElementsAtIs
<1>3. Pairs(keyRows, head.constraint) = {<<keyRows[i].column, keyRows[i].refColumn>> : i \in places}
  BY DEF Pairs
<1> HIDE DEF own, places
<1>4. DOMAIN key.columns = DOMAIN own /\ \A k \in DOMAIN own : key.columns[k] = own[k].column /\ key.refColumns[k] = own[k].refColumn
  BY DEF KeyOf
<1>5. PairsOf(key) = {<<own[k].column, own[k].refColumn>> : k \in DOMAIN own}
  BY <1>4 DEF PairsOf
<1>6. ASSUME NEW k \in DOMAIN own PROVE \E i \in places : own[k] = keyRows[i]
  BY <1>2
<1>7. ASSUME NEW i \in places PROVE \E k \in DOMAIN own : own[k] = keyRows[i]
  BY <1>2
<1>8. PairsOf(key) = Pairs(keyRows, head.constraint)
  BY <1>3, <1>5, <1>6, <1>7
<1> QED BY <1>8 DEF own, places

Constraints(keyRows) == {keyRows[i].constraint : i \in DOMAIN keyRows}
Firsts(keyRows) == {i \in DOMAIN keyRows : \A j \in 1..(i - 1) : keyRows[j].constraint # keyRows[i].constraint}

\* Of each constraint one row is the first.
LEMMA FirstRows ==
  ASSUME NEW keyRows, IsSequence(keyRows)
  PROVE  /\ {keyRows[i].constraint : i \in Firsts(keyRows)} = Constraints(keyRows)
         /\ Cardinality(Firsts(keyRows)) = Cardinality(Constraints(keyRows))
<1> DEFINE firsts == Firsts(keyRows)
           constraints == Constraints(keyRows)
           f == [i \in firsts |-> keyRows[i].constraint]
<1> USE DEF Firsts, Constraints
<1>1. Len(keyRows) \in Nat /\ DOMAIN keyRows = 1..Len(keyRows) /\ firsts \subseteq 1..Len(keyRows)
  BY DEF IsSequence
<1>2. ASSUME NEW i \in firsts, NEW j \in firsts, keyRows[i].constraint = keyRows[j].constraint PROVE i = j
  <2>1. i \in 1..Len(keyRows) /\ j \in 1..Len(keyRows)
    BY <1>1
  <2>2. ~(i < j) /\ ~(j < i)
    <3>1. i < j => i \in 1..(j - 1)
      BY <2>1
    <3>2. j < i => j \in 1..(i - 1)
      BY <2>1
    <3> QED BY <1>2, <3>1, <3>2
  <2> QED BY <2>1, <2>2
<1>3. ASSUME NEW k \in DOMAIN keyRows PROVE \E i \in firsts : keyRows[i].constraint = keyRows[k].constraint
  <2> DEFINE same == {i \in DOMAIN keyRows : keyRows[i].constraint = keyRows[k].constraint}
  <2>1. k \in same /\ same \subseteq 1..Len(keyRows)
    BY <1>1
  <2>2. PICK m \in same : \A i \in same : m <= i
    BY <1>1, <2>1, LeastNumber
  <2>3. m \in 1..Len(keyRows) /\ m \in DOMAIN keyRows /\ keyRows[m].constraint = keyRows[k].constraint
    BY <1>1, <2>2
  <2>4. ASSUME NEW j \in 1..(m - 1) PROVE keyRows[j].constraint # keyRows[m].constraint
    <3>1. j \in DOMAIN keyRows /\ ~(m <= j)
      BY <1>1, <2>3
    <3> QED BY <2>2, <2>3, <3>1
  <2> QED BY <2>3, <2>4
<1>4. {keyRows[i].constraint : i \in firsts} = constraints
  <2>1. {keyRows[i].constraint : i \in firsts} \subseteq constraints
    BY DEF Firsts
  <2>2. ASSUME NEW c \in constraints PROVE c \in {keyRows[i].constraint : i \in firsts}
    <3>1. PICK k \in DOMAIN keyRows : c = keyRows[k].constraint
      OBVIOUS
    <3> HIDE DEF firsts
    <3> QED BY <1>3, <3>1
  <2> QED BY <2>1, <2>2
<1>5. IsFiniteSet(firsts)
  <2>1. IsFiniteSet(1..Len(keyRows))
    BY <1>1, FS_Interval, 1 \in Int, Len(keyRows) \in Int
  <2> QED BY <1>1, <2>1, FS_Subset
<1>6. f \in Surjection(firsts, constraints)
  <2>1. f \in [firsts -> constraints] /\ \A c \in constraints : \E i \in firsts : f[i] = c
    BY <1>4
  <2> QED BY <2>1, Fun_IsSurj
<1>7. f \in Injection(firsts, constraints)
  <2>1. f \in [firsts -> constraints] /\ \A i, j \in firsts : f[i] = f[j] => i = j
    BY <1>2, <1>4
  <2> QED BY <2>1, Fun_IsInj
<1>8. Cardinality(firsts) = Cardinality(constraints)
  <2> HIDE DEF f, firsts, constraints
  <2> QED BY <1>5, <1>6, <1>7, FS_Surjection
<1> QED BY <1>4, <1>8

\* The foreign keys of a table are its constraints, one for each.
LEMMA KeysAre ==
  ASSUME NEW keyRows, IsSequence(keyRows)
  PROVE  /\ Len(ForeignKeys(keyRows)) = Cardinality(Constraints(keyRows))
         /\ {PairsOf(ForeignKeys(keyRows)[k]) : k \in DOMAIN ForeignKeys(keyRows)} = {Pairs(keyRows, c) : c \in Constraints(keyRows)}
<1> DEFINE firsts == Firsts(keyRows)
           constraints == Constraints(keyRows)
           heads == ElementsAt(keyRows, firsts)
           own(head) == ElementsAt(keyRows, {i \in DOMAIN keyRows : keyRows[i].constraint = head.constraint})
           fks == [k \in DOMAIN heads |-> KeyOf(heads[k], own(heads[k]))]
<1>1. ForeignKeys(keyRows) = fks
  BY DEF ForeignKeys, Firsts
<1>2. {keyRows[i].constraint : i \in firsts} = constraints /\ Cardinality(firsts) = Cardinality(constraints)
  BY FirstRows
<1>3. firsts \subseteq DOMAIN keyRows
  BY DEF Firsts
<1>4. ASSUME NEW head PROVE PairsOf(KeyOf(head, own(head))) = Pairs(keyRows, head.constraint)
  BY KeyTellsItsRows
<1> HIDE DEF firsts, constraints, own
<1>5. /\ heads \in Seq({keyRows[i] : i \in DOMAIN keyRows}) /\ Len(heads) = Cardinality(firsts)
      /\ {heads[k] : k \in DOMAIN heads} = {keyRows[i] : i \in firsts}
  BY <1>3, ElementsAtIs
<1> HIDE DEF heads
<1>6. Len(fks) = Len(heads) /\ DOMAIN fks = DOMAIN heads
  <2>1. DOMAIN heads = 1..Len(heads) /\ Len(heads) \in Nat
    BY <1>5
  <2>2. fks \in Seq({KeyOf(heads[k], own(heads[k])) : k \in DOMAIN heads}) /\ DOMAIN fks = DOMAIN heads
    BY <2>1
  <2> HIDE DEF fks
  <2> QED BY <2>1, <2>2, LenProperties
<1>7. \A k \in DOMAIN heads : PairsOf(fks[k]) = Pairs(keyRows, heads[k].constraint)
  BY <1>4
<1> HIDE DEF fks
<1>8. {PairsOf(fks[k]) : k \in DOMAIN fks} = {Pairs(keyRows, heads[k].constraint) : k \in DOMAIN heads}
  BY <1>6, <1>7
<1>9. {Pairs(keyRows, heads[k].constraint) : k \in DOMAIN heads} = {Pairs(keyRows, c) : c \in constraints}
  <2>1. ASSUME NEW k \in DOMAIN heads PROVE heads[k].constraint \in constraints
    <3>1. PICK i \in firsts : heads[k] = keyRows[i]
      BY <1>5
    <3> QED BY <1>2, <3>1
  <2>2. ASSUME NEW c \in constraints PROVE \E k \in DOMAIN heads : heads[k].constraint = c
    <3>1. PICK i \in firsts : keyRows[i].constraint = c
      BY <1>2
    <3>2. PICK k \in DOMAIN heads : heads[k] = keyRows[i]
      BY <1>5
    <3> QED BY <3>1, <3>2
  <2> QED BY <2>1, <2>2
<1> QED BY <1>1, <1>2, <1>5, <1>6, <1>8, <1>9 DEF constraints, firsts

-----------------------------------------------------------------------------
(* Readings of a catalog.                                                   *)

LEMMA SeqIsSequence ==
  ASSUME NEW S, NEW s \in Seq(S)
  PROVE  IsSequence(s)
<1> DEFINE R == {s[i] : i \in DOMAIN s}
<1>1. Len(s) \in Nat /\ DOMAIN s = 1..Len(s) /\ s \in [1..Len(s) -> S]
  BY LenProperties
<1>2. s \in [1..Len(s) -> R]
  BY <1>1
<1> HIDE DEF R
<1>3. s \in Seq(R)
  BY <1>1, <1>2, SeqDef
<1> QED BY <1>3 DEF IsSequence, R

\* The tables a connection sees are tables of its catalog.
LEMMA TablesAre ==
  ASSUME source \in DOMAIN Sources
  PROVE  /\ IsSequence(Tables) /\ Len(Tables) \in Nat /\ DOMAIN Tables = 1..Len(Tables)
         /\ \A i \in DOMAIN Tables : IsTable(Tables[i])
<1> DEFINE catalog == Config.tables
           places == {i \in DOMAIN catalog :
                    /\ catalog[i].columns # <<>>
                    /\ IF Config.dialect = "mysql" THEN catalog[i].schema = Database
                       ELSE IF Config.schemas = {} THEN catalog[i].schema \notin PgLike
                       ELSE catalog[i].schema \in Config.schemas
                    /\ Config.allow = {} \/ catalog[i].name \in Config.allow}
           S == {catalog[i] : i \in DOMAIN catalog}
<1>1. IsSequence(catalog) /\ \A i \in DOMAIN catalog : IsTable(catalog[i])
  BY SourcesAssumption DEF Config
<1>2. Tables = ElementsAt(catalog, places)
  BY DEF Tables, Visible
<1>3. places \subseteq DOMAIN catalog
  OBVIOUS
<1> HIDE DEF catalog, places
<1>4. Tables \in Seq(S)
  BY <1>1, <1>2, <1>3, ElementsAtIs
<1>5. \A t \in S : IsTable(t)
  BY <1>1
<1> HIDE DEF S
<1>6. Len(Tables) \in Nat /\ DOMAIN Tables = 1..Len(Tables) /\ \A i \in DOMAIN Tables : Tables[i] \in S
  BY <1>4
<1>7. IsSequence(Tables)
  BY <1>4, SeqIsSequence
<1> QED BY <1>5, <1>6, <1>7

\* What a snapshot keeps of the catalog.
LEMMA ShapeIs ==
  ASSUME NEW tables, Shaped(tables)
  PROVE  /\ DOMAIN tables = DOMAIN Tables /\ Places(tables) = Places(Tables)
         /\ \A i \in DOMAIN Tables :
              /\ tables[i].schema = Tables[i].schema /\ tables[i].name = Tables[i].name /\ tables[i].pk = Tables[i].pk
              /\ tables[i].fks = ForeignKeys(Tables[i].fkRows)
              /\ DOMAIN tables[i].columns = DOMAIN Tables[i].columns
              /\ \A j \in DOMAIN Tables[i].columns : /\ tables[i].columns[j].name = Tables[i].columns[j].name
                                                     /\ tables[i].columns[j].textual = Tables[i].columns[j].textual
<1> DEFINE T == Tables
           cols(i) == [j \in DOMAIN T[i].columns |->
                        [name |-> T[i].columns[j].name, textual |-> T[i].columns[j].textual, values |-> tables[i].columns[j].values]]
           keys(i) == ForeignKeys(T[i].fkRows)
           table(i) == [schema |-> T[i].schema, name |-> T[i].name, pk |-> T[i].pk, fks |-> keys(i), columns |-> cols(i)]
<1>1. tables = [i \in DOMAIN T |-> table(i)]
  BY DEF Shaped
<1> HIDE DEF T
<1>2. DOMAIN tables = DOMAIN T
  <2> HIDE DEF table
  <2> QED BY <1>1
<1>3. ASSUME NEW i \in DOMAIN T
      PROVE  /\ tables[i].schema = T[i].schema /\ tables[i].name = T[i].name /\ tables[i].pk = T[i].pk
             /\ tables[i].fks = ForeignKeys(T[i].fkRows)
             /\ tables[i].columns = cols(i)
  <2>1. tables[i] = table(i)
    <3> HIDE DEF table
    <3> QED BY <1>1
  <2>2. /\ table(i).schema = T[i].schema /\ table(i).name = T[i].name /\ table(i).pk = T[i].pk
        /\ table(i).fks = keys(i) /\ table(i).columns = cols(i)
    <3> HIDE DEF cols, keys
    <3> QED OBVIOUS
  <2> HIDE DEF table, cols
  <2> QED BY <2>1, <2>2
<1>4. ASSUME NEW i \in DOMAIN T
      PROVE  /\ DOMAIN tables[i].columns = DOMAIN T[i].columns
             /\ \A j \in DOMAIN T[i].columns : /\ tables[i].columns[j].name = T[i].columns[j].name
                                               /\ tables[i].columns[j].textual = T[i].columns[j].textual
  <2> DEFINE had == T[i].columns
             has == tables[i].columns
             list(j) == has[j].values
  <2>1. has = [j \in DOMAIN had |-> [name |-> had[j].name, textual |-> had[j].textual, values |-> list(j)]]
    BY <1>3
  <2> HIDE DEF had, list, has
  <2>2. DOMAIN has = DOMAIN had
    BY <2>1
  <2>3. ASSUME NEW j \in DOMAIN had PROVE has[j].name = had[j].name /\ has[j].textual = had[j].textual
    BY <2>1
  <2> QED BY <2>2, <2>3 DEF had, has
<1>5. Places(tables) = Places(T)
  BY <1>2, <1>4 DEF Places
<1> QED BY <1>2, <1>3, <1>4, <1>5 DEF T

LEMMA PlacesAre ==
  ASSUME NEW tables, NEW p
  PROVE  p \in Places(tables) <=> /\ p = <<p[1], p[2]>> /\ p[1] \in DOMAIN tables
                                  /\ p[2] \in DOMAIN tables[p[1]].columns
<1> DEFINE of(i) == {i} \X DOMAIN tables[i].columns
<1>1. Places(tables) = UNION {of(i) : i \in DOMAIN tables}
  BY DEF Places
<1>2. p \in Places(tables) <=> \E i \in DOMAIN tables : p \in of(i)
  BY <1>1
<1>3. \A i : p \in of(i) <=> p = <<p[1], p[2]>> /\ p[1] = i /\ p[2] \in DOMAIN tables[i].columns
  OBVIOUS
<1> HIDE DEF of
<1> QED BY <1>2, <1>3

\* No CHECK clause lists nothing.
LEMMA ListsAreFilled ==
  ASSUME NEW t, NEW c, NEW d
  PROVE  NoValues \notin CheckValues(t, c, d)
<1>1. \A clause : Attributed(clause, d).values = UNION {p.literals : p \in clause.parts}
  BY DEF Attributed
<1>2. \A clause : Parsed(clause) => Attributed(clause, d).values # NoValues
  BY <1>1 DEF Parsed, NoValues
<1> QED BY <1>2 DEF CheckValues

LEMMA SomeList ==
  ASSUME NEW t, NEW c, NEW d, NEW r
  PROVE  CatalogValues(t, c, d, r) # {}
BY DEF CatalogValues

\* Whatever the order of the check rows, a reading takes what the catalog gives.
LEMMA ReadingIs ==
  ASSUME NEW r, NEW new \in Readings(Tables, Config.dialect, r)
  PROVE  /\ Shaped(new)
         /\ \A p \in Places(Tables) :
              new[p[1]].columns[p[2]].values \in CatalogValues(Tables[p[1]], Tables[p[1]].columns[p[2]], Config.dialect, r)
<1> DEFINE T == Tables
           Lists(i, j) == CatalogValues(T[i], T[i].columns[j], Config.dialect, r)
           several == {p \in Places(T) : Cardinality(Lists(p[1], p[2])) > 1}
           List(pick, i, j) == IF <<i, j>> \in several THEN pick[<<i, j>>] ELSE CHOOSE l \in Lists(i, j) : TRUE
           Snapshot(pick) ==
             [i \in DOMAIN T |->
               [schema |-> T[i].schema, name |-> T[i].name, pk |-> T[i].pk, fks |-> ForeignKeys(T[i].fkRows),
                columns |-> [j \in DOMAIN T[i].columns |->
                  [name |-> T[i].columns[j].name, textual |-> T[i].columns[j].textual, values |-> List(pick, i, j)]]]]
<1>1. PICK pick \in {f \in [several -> SUBSET Values] : \A p \in several : f[p] \in Lists(p[1], p[2])} : new = Snapshot(pick)
  BY DEF Readings
<1>2. \A p \in several : pick[p] \in Lists(p[1], p[2])
  BY <1>1
<1>3. \A i, j : Lists(i, j) # {}
  BY SomeList
<1> HIDE DEF T, Lists, several
<1>4. ASSUME NEW i \in DOMAIN T, NEW j \in DOMAIN T[i].columns PROVE List(pick, i, j) \in Lists(i, j)
  BY <1>2, <1>3
<1> HIDE DEF List
<1>5. ASSUME NEW i \in DOMAIN T, NEW j \in DOMAIN T[i].columns PROVE new[i].columns[j].values = List(pick, i, j)
  BY <1>1
<1>6. new = [i \in DOMAIN T |->
               [schema |-> T[i].schema, name |-> T[i].name, pk |-> T[i].pk, fks |-> ForeignKeys(T[i].fkRows),
                columns |-> [j \in DOMAIN T[i].columns |->
                  [name |-> T[i].columns[j].name, textual |-> T[i].columns[j].textual, values |-> new[i].columns[j].values]]]]
  BY <1>1, <1>5
<1>7. Shaped(new)
  BY <1>6 DEF Shaped, T
<1>8. ASSUME NEW p \in Places(T) PROVE new[p[1]].columns[p[2]].values \in Lists(p[1], p[2])
  <2>1. p[1] \in DOMAIN T /\ p[2] \in DOMAIN T[p[1]].columns
    BY PlacesAre
  <2> QED BY <1>4, <1>5, <2>1
<1> QED BY <1>7, <1>8 DEF T, Lists

-----------------------------------------------------------------------------
(* Probes.                                                                  *)

\* The next place is one that is left.
LEMMA NextIsLeft ==
  ASSUME source \in DOMAIN Sources, NEW left, left \subseteq Places(Tables), left # {}
  PROVE  Next1(left) \in left
<1> DEFINE T == Tables
           ones == {p[1] : p \in left}
<1>1. Len(T) \in Nat /\ DOMAIN T = 1..Len(T) /\ \A i \in DOMAIN T : IsTable(T[i])
  BY TablesAre
<1>2. \A p \in left : p = <<p[1], p[2]>> /\ p[1] \in DOMAIN T /\ p[2] \in DOMAIN T[p[1]].columns
  BY PlacesAre
<1> HIDE DEF T
<1>3. ones \subseteq 1..Len(T) /\ ones # {}
  BY <1>1, <1>2
<1>4. PICK a \in ones : \A i \in ones : a <= i
  BY <1>1, <1>3, LeastNumber
<1> DEFINE twos == {p[2] : p \in {q \in left : q[1] = a}}
           cols == T[a].columns
<1>5. a \in DOMAIN T /\ Len(cols) \in Nat /\ DOMAIN cols = 1..Len(cols)
  <2>1. a \in DOMAIN T
    BY <1>1, <1>3, <1>4
  <2>2. IsSequence(cols)
    BY <1>1, <2>1 DEF IsTable
  <2> HIDE DEF cols
  <2> QED BY <2>1, <2>2 DEF IsSequence
<1>6. twos \subseteq 1..Len(cols) /\ twos # {}
  <2>1. ASSUME NEW p \in left, p[1] = a PROVE p[2] \in DOMAIN cols
    BY <1>2, <2>1
  <2>2. PICK p \in left : p[1] = a
    BY <1>4
  <2> HIDE DEF cols
  <2> QED BY <1>5, <2>1, <2>2
<1> HIDE DEF cols
<1>7. PICK b \in twos : \A j \in twos : b <= j
  BY <1>5, <1>6, LeastNumber
<1>8. PICK p \in left : p[1] = a /\ p[2] = b
  BY <1>7
<1>9. ASSUME NEW q \in left PROVE p[1] < q[1] \/ (p[1] = q[1] /\ p[2] <= q[2])
  <2>1. a <= q[1] /\ a \in 1..Len(T) /\ q[1] \in 1..Len(T)
    BY <1>3, <1>4
  <2>2. CASE a = q[1]
    BY <1>7, <1>8, <2>2
  <2>3. CASE a # q[1]
    BY <1>1, <1>8, <2>1, <2>3
  <2> QED BY <2>2, <2>3
<1>10. \E m \in left : \A q \in left : m[1] < q[1] \/ (m[1] = q[1] /\ m[2] <= q[2])
  BY <1>9
<1> QED BY <1>10 DEF Next1

\* A snapshot with one list replaced.
Written(tables, p, new) == [tables EXCEPT ![p[1]].columns[p[2]].values = new]

LEMMA WrittenIs ==
  ASSUME NEW tables, Shaped(tables), NEW p \in Places(Tables), NEW list, NEW new, new = Written(tables, p, list)
  PROVE  /\ Shaped(new)
         /\ new[p[1]].columns[p[2]].values = list
         /\ \A q \in Places(Tables) \ {p} : new[q[1]].columns[q[2]].values = tables[q[1]].columns[q[2]].values
<1> DEFINE T == Tables
           a == p[1]
           b == p[2]
           Record(i, columns) ==
             [schema |-> T[i].schema, name |-> T[i].name, pk |-> T[i].pk, fks |-> ForeignKeys(T[i].fkRows),
              columns |-> columns]
           Columns(i, x) ==
             [j \in DOMAIN T[i].columns |->
               [name |-> T[i].columns[j].name, textual |-> T[i].columns[j].textual, values |-> x[i].columns[j].values]]
<1>1. tables = [i \in DOMAIN T |-> Record(i, Columns(i, tables))]
  BY DEF Shaped
<1>2. p = <<a, b>> /\ a \in DOMAIN T /\ b \in DOMAIN T[a].columns
  BY PlacesAre
<1> DEFINE col == [tables[a].columns[b] EXCEPT !.values = list]
           cols == [tables[a].columns EXCEPT ![b] = col]
<1>3. new = [tables EXCEPT ![a] = [tables[a] EXCEPT !.columns = cols]]
  BY DEF Written
<1>4. DOMAIN tables = DOMAIN T /\ tables[a] = Record(a, Columns(a, tables))
  BY <1>1, <1>2
<1>5. tables[a].columns = Columns(a, tables)
  <2> DEFINE cs == Columns(a, tables)
  <2>1. tables[a] = Record(a, cs)
    BY <1>4
  <2> HIDE DEF cs
  <2>2. tables[a].columns = cs
    BY <2>1
  <2> QED BY <2>2 DEF cs
<1>6. tables[a].columns[b] = [name |-> T[a].columns[b].name, textual |-> T[a].columns[b].textual,
                              values |-> tables[a].columns[b].values]
  <2> DEFINE old(j) == tables[a].columns[j].values
  <2>1. tables[a].columns = [j \in DOMAIN T[a].columns |->
               [name |-> T[a].columns[j].name, textual |-> T[a].columns[j].textual, values |-> old(j)]]
    BY <1>5
  <2> HIDE DEF old
  <2>2. tables[a].columns[b] = [name |-> T[a].columns[b].name, textual |-> T[a].columns[b].textual, values |-> old(b)]
    BY <1>2, <2>1
  <2> QED BY <2>2 DEF old
<1>7. col = [name |-> T[a].columns[b].name, textual |-> T[a].columns[b].textual, values |-> list]
  <2> DEFINE was == tables[a].columns[b]  x == T[a].columns[b].name  y == T[a].columns[b].textual  v == was.values
  <2>1. was = [name |-> x, textual |-> y, values |-> v]
    BY <1>6
  <2> HIDE DEF was, x, y, v
  <2>2. [was EXCEPT !.values = list] = [name |-> x, textual |-> y, values |-> list]
    BY <2>1
  <2> QED BY <2>2 DEF was, x, y
<1> HIDE DEF col
<1>8. DOMAIN cols = DOMAIN T[a].columns /\ cols[b] = col /\ \A j \in DOMAIN T[a].columns \ {b} : cols[j] = tables[a].columns[j]
  BY <1>2, <1>5
<1> HIDE DEF cols
<1>9. [tables[a] EXCEPT !.columns = cols] = Record(a, cols)
  <2> DEFINE had == tables[a]  has == Columns(a, tables)
             x == T[a].schema  y == T[a].name  z == T[a].pk  k == ForeignKeys(T[a].fkRows)
  <2>1. had = [schema |-> x, name |-> y, pk |-> z, fks |-> k, columns |-> has]
    BY <1>4
  <2> HIDE DEF had, has, x, y, z, k
  <2>2. [had EXCEPT !.columns = cols] = [schema |-> x, name |-> y, pk |-> z, fks |-> k, columns |-> cols]
    BY <2>1
  <2> QED BY <2>2 DEF had, x, y, z, k
<1>10. DOMAIN new = DOMAIN T /\ new[a] = Record(a, cols) /\ \A i \in DOMAIN T \ {a} : new[i] = tables[i]
  BY <1>2, <1>3, <1>4, <1>9
<1>11. new[a].columns = cols
  BY <1>10
<1>12. new[a].columns[b].values = list
  BY <1>7, <1>8, <1>11
<1>13. ASSUME NEW q \in Places(Tables) \ {p} PROVE new[q[1]].columns[q[2]].values = tables[q[1]].columns[q[2]].values
  <2>1. q = <<q[1], q[2]>> /\ q[1] \in DOMAIN T /\ q[2] \in DOMAIN T[q[1]].columns
    BY PlacesAre
  <2>2. CASE q[1] # a
    BY <1>10, <2>1, <2>2
  <2>3. CASE q[1] = a
    <3>1. q[2] # b
      BY <1>2, <2>1, <2>3
    <3> QED BY <1>8, <1>11, <2>1, <2>3, <3>1
  <2> QED BY <2>2, <2>3
<1>14. cols = Columns(a, new)
  <2> DEFINE had == T[a].columns
             given(j) == new[a].columns[j].values
  <2>1. ASSUME NEW j \in DOMAIN had PROVE cols[j] = [name |-> had[j].name, textual |-> had[j].textual, values |-> given(j)]
    <3>1. CASE j = b
      BY <1>7, <1>8, <1>12, <3>1
    <3>2. CASE j # b
      <4> DEFINE was == tables[a].columns
                 old(k) == was[k].values
      <4>1. was = [k \in DOMAIN had |-> [name |-> had[k].name, textual |-> had[k].textual, values |-> old(k)]]
        BY <1>5
      <4>2. cols[j] = was[j] /\ given(j) = old(j)
        BY <1>8, <1>11, <3>2
      <4> HIDE DEF was, old, had, given
      <4>3. was[j] = [name |-> had[j].name, textual |-> had[j].textual, values |-> old(j)]
        BY <4>1
      <4> QED BY <4>2, <4>3
    <3> QED BY <3>1, <3>2
  <2>2. DOMAIN cols = DOMAIN had /\ cols = [j \in DOMAIN cols |-> cols[j]]
    BY <1>8 DEF cols
  <2>3. Columns(a, new) = [j \in DOMAIN had |-> [name |-> had[j].name, textual |-> had[j].textual, values |-> given(j)]]
    OBVIOUS
  <2> HIDE DEF had, given, Columns
  <2> QED BY <2>1, <2>2, <2>3
<1>15. ASSUME NEW i \in DOMAIN T \ {a} PROVE new[i] = Record(i, Columns(i, new))
  <2>1. new[i] = tables[i]
    BY <1>10
  <2>2. Columns(i, new) = Columns(i, tables)
    BY <2>1
  <2>3. tables[i] = Record(i, Columns(i, tables))
    BY <1>1
  <2> HIDE DEF Columns, Record
  <2> QED BY <2>1, <2>2, <2>3
<1>16. new = [i \in DOMAIN T |-> Record(i, Columns(i, new))]
  <2>1. new = [i \in DOMAIN new |-> new[i]]
    BY <1>3, <1>4
  <2> HIDE DEF Columns, Record
  <2>2. \A i \in DOMAIN T : new[i] = Record(i, Columns(i, new))
    BY <1>10, <1>14, <1>15
  <2> QED BY <1>10, <2>1, <2>2
<1>17. Shaped(new)
  BY <1>16 DEF Shaped
<1> QED BY <1>12, <1>13, <1>17

LEMMA ToProbeIs ==
  ASSUME NEW tables, NEW q
  PROVE  q \in ToProbe(tables) <=> /\ q \in Places(tables)
                                   /\ tables[q[1]].columns[q[2]].values = NoValues
                                   /\ tables[q[1]].columns[q[2]].textual
                                   /\ tables[q[1]].columns[q[2]].name \notin tables[q[1]].pk
BY DEF ToProbe

\* A probed place has the list it was given, or is one that has none to give.
LEMMA ProbedIs ==
  ASSUME source \in DOMAIN Sources, NEW tables, NEW left, NEW lost, Refreshed(tables, left, lost), NEW p \in left,
         NEW list, list = NoValues \/ FromRows(list, Tables[p[1]].columns[p[2]]),
         NEW more, lost \subseteq more, p \in more \/ list # NoValues \/ Unlisted(p),
         NEW new, new = Written(tables, p, list)
  PROVE  /\ p \in Places(Tables) /\ Places(new) = Places(tables) /\ Refreshed(new, left \ {p}, more)
<1> DEFINE V(t, q) == t[q[1]].columns[q[2]].values
           Textual(q) == Tables[q[1]].columns[q[2]].textual
           Key(q) == Tables[q[1]].columns[q[2]].name \in Tables[q[1]].pk
<1>1. /\ Shaped(tables)
      /\ \A q \in Places(Tables) : V(tables, q) \in Catalogued(q[1], q[2]) \/ Sampled(q[1], q[2], V(tables, q))
      /\ left \subseteq (IF Config.sampling THEN ToProbe(tables) ELSE {})
      /\ Config.sampling => \A q \in ToProbe(tables) \ (left \cup lost) : Unlisted(q)
  BY DEF Refreshed, Listed
<1>2. Config.sampling /\ left \subseteq ToProbe(tables)
  <2>1. Config.sampling \in BOOLEAN
    BY SourcesAssumption DEF Config
  <2> QED BY <1>1, <2>1
<1>3. p \in Places(Tables) /\ \A t, q : (Shaped(t) /\ q \in Places(Tables)) =>
                                     (q \in ToProbe(t) <=> V(t, q) = NoValues /\ Textual(q) /\ ~Key(q))
  <2>1. ASSUME NEW t, NEW q, Shaped(t), q \in Places(Tables)
        PROVE  q \in ToProbe(t) <=> V(t, q) = NoValues /\ Textual(q) /\ ~Key(q)
    <3>1. q[1] \in DOMAIN Tables /\ q[2] \in DOMAIN Tables[q[1]].columns
      BY <2>1, PlacesAre
    <3>2. Places(t) = Places(Tables) /\ t[q[1]].pk = Tables[q[1]].pk
      BY <2>1, <3>1, ShapeIs
    <3>3. t[q[1]].columns[q[2]].name = Tables[q[1]].columns[q[2]].name
          /\ t[q[1]].columns[q[2]].textual = Tables[q[1]].columns[q[2]].textual
      BY <2>1, <3>1, ShapeIs
    <3> QED BY <2>1, <3>2, <3>3, ToProbeIs
  <2>2. p \in Places(tables)
    BY <1>2, ToProbeIs
  <2>3. p \in Places(Tables)
    BY <1>1, <2>2, ShapeIs
  <2> HIDE DEF V, Textual, Key
  <2> QED BY <2>1, <2>3
<1>4. Shaped(new) /\ V(new, p) = list /\ \A q \in Places(Tables) \ {p} : V(new, q) = V(tables, q)
  <2>1. Shaped(tables) /\ p \in Places(Tables)
    BY <1>1, <1>3
  <2> QED BY ONLY <2>1, new = Written(tables, p, list), WrittenIs
<1>5. Places(new) = Places(Tables) /\ Places(tables) = Places(Tables)
  BY <1>1, <1>4, ShapeIs
<1>6. Textual(p) /\ ~Key(p) /\ V(tables, p) = NoValues
  BY <1>1, <1>2, <1>3
<1>7. NoValues \in Catalogued(p[1], p[2])
  <2>1. Sampled(p[1], p[2], V(tables, p)) => NoValues \in Catalogued(p[1], p[2])
    BY DEF Sampled
  <2>2. V(tables, p) \in Catalogued(p[1], p[2]) \/ Sampled(p[1], p[2], V(tables, p))
    BY <1>1, <1>3
  <2> HIDE DEF V
  <2> QED BY <1>6, <2>1, <2>2
<1>8. list \in Catalogued(p[1], p[2]) \/ Sampled(p[1], p[2], list)
  BY <1>2, <1>6, <1>7 DEF Sampled
<1>9. \A q \in Places(Tables) : q # p => (q \in ToProbe(new) <=> q \in ToProbe(tables))
  <2> HIDE DEF V, Textual, Key
  <2> QED BY <1>1, <1>3, <1>4
<1>10. p \in ToProbe(new) <=> list = NoValues
  <2> HIDE DEF V, Textual, Key
  <2> QED BY <1>3, <1>4, <1>6
<1>11. ToProbe(new) \subseteq Places(Tables) /\ ToProbe(tables) \subseteq Places(Tables)
  BY <1>5, ToProbeIs
<1>12. \A q \in Places(Tables) : V(new, q) \in Catalogued(q[1], q[2]) \/ Sampled(q[1], q[2], V(new, q))
  <2> HIDE DEF V
  <2>1. ASSUME NEW q \in Places(Tables) PROVE V(new, q) \in Catalogued(q[1], q[2]) \/ Sampled(q[1], q[2], V(new, q))
    <3>1. CASE q = p
      BY <1>4, <1>8, <3>1
    <3>2. CASE q # p
      BY <1>1, <1>4, <3>2
    <3> QED BY <3>1, <3>2
  <2> QED BY <2>1
<1>13. left \ {p} \subseteq ToProbe(new)
  BY <1>2, <1>9, <1>11
<1>14. \A q \in ToProbe(new) \ ((left \ {p}) \cup more) : Unlisted(q)
  BY <1>1, <1>2, <1>9, <1>10, <1>11
<1>15. Refreshed(new, left \ {p}, more)
  BY <1>2, <1>4, <1>12, <1>13, <1>14 DEF Refreshed, Listed
<1> QED BY <1>3, <1>5, <1>15

\* What a probe makes of the values it saw.
LEMMA KeptIs ==
  ASSUME source \in DOMAIN Sources, NEW p \in Places(Tables),
         NEW drawn \in Seen(Tables[p[1]].columns[p[2]].content, ScanLimit)
  PROVE  /\ Kept(drawn, MaxValues) = NoValues \/ FromRows(Kept(drawn, MaxValues), Tables[p[1]].columns[p[2]])
         /\ Kept(drawn, MaxValues) # NoValues \/ Unlisted(p)
<1> DEFINE c == Tables[p[1]].columns[p[2]]
           content == c.content
           n == Cardinality(content)
           m == Cardinality(drawn)
<1>1. IsFiniteSet(content)
  <2>1. p[1] \in DOMAIN Tables /\ p[2] \in DOMAIN Tables[p[1]].columns
    BY PlacesAre
  <2> QED BY <2>1, TablesAre DEF IsTable
<1>2. drawn \subseteq content /\ m = IF n < ScanLimit THEN n ELSE ScanLimit
  BY DEF Seen
<1> HIDE DEF content
<1>3. IsFiniteSet(drawn) /\ m <= n /\ (m = n => drawn = content) /\ n \in Nat /\ m \in Nat
  BY <1>1, <1>2, FS_Subset, FS_CardinalityType
<1>4. drawn = {} => m = 0
  BY FS_EmptySet
<1>5. MaxValues \in Nat \ {0} /\ ScanLimit \in Nat \ {0}
  BY LimitsAssumption
<1>6. Unlisted(p) <=> n = 0 \/ (n > MaxValues /\ ScanLimit > MaxValues)
  BY DEF Unlisted, content
<1>7. ASSUME m > MaxValues PROVE Kept(drawn, MaxValues) = NoValues /\ Unlisted(p)
  <2>1. Kept(drawn, MaxValues) = NoValues
    BY <1>7 DEF Kept
  <2>2. n > MaxValues /\ ScanLimit > MaxValues
    BY <1>2, <1>3, <1>5, <1>7
  <2> QED BY <1>6, <2>1, <2>2
<1>8. ASSUME ~(m > MaxValues) PROVE Kept(drawn, MaxValues) = drawn /\ FromRows(drawn, c) /\ (drawn = NoValues => Unlisted(p))
  <2>1. Kept(drawn, MaxValues) = drawn
    BY <1>8 DEF Kept
  <2>2. m <= MaxValues /\ (n <= ScanLimit => m = n)
    BY <1>2, <1>3, <1>5, <1>8
  <2>3. FromRows(drawn, c)
    BY <1>2, <1>3, <2>2 DEF FromRows, content
  <2>4. m = 0 => n = 0
    BY <1>2, <1>3, <1>5
  <2> QED BY <1>4, <1>6, <2>1, <2>3, <2>4 DEF NoValues
<1> QED BY <1>7, <1>8

-----------------------------------------------------------------------------
(* A refresh keeps its invariant.                                           *)

\* The connection is never left aborted: what a failed probe broke is rolled back.
RefreshInv == /\ PipelineTypeOK /\ conn # "aborted"
              /\ phase = "reading" => refreshes < MaxRefreshes
              /\ phase = "probing" => Refreshed(snap, todo, failed)
              /\ stored # None => Refreshed(stored.tables, {}, stored.failed)

LEMMA Unmoved ==
  ASSUME source' = source
  PROVE  Config' = Config /\ Tables' = Tables
BY DEF Config, Tables

LEMMA RefreshedUnmoved ==
  ASSUME source' = source
  PROVE  /\ Refreshed(snap, todo, failed)' <=> Refreshed(snap', todo', failed')
         /\ Refreshed(stored.tables, {}, stored.failed)' <=> Refreshed(stored'.tables, {}, stored'.failed)
<1>1. Config' = Config /\ Tables' = Tables
  BY Unmoved
<1>2. Shaped(snap)' <=> Shaped(snap')
  BY <1>1 DEF Shaped
<1>3. Shaped(stored.tables)' <=> Shaped(stored'.tables)
  BY <1>1 DEF Shaped
<1>4. Listed(snap)' <=> Listed(snap')
  BY <1>1 DEF Listed, Catalogued, Readable, Sampled, FromRows
<1>5. Listed(stored.tables)' <=> Listed(stored'.tables)
  BY <1>1 DEF Listed, Catalogued, Readable, Sampled, FromRows
<1>6. \A p : Unlisted(p)' <=> Unlisted(p)
  BY <1>1 DEF Unlisted
<1> QED BY <1>1, <1>2, <1>3, <1>4, <1>5, <1>6 DEF Refreshed

LEMMA InitRefreshes == PipelineInit => RefreshInv
<1> SUFFICES ASSUME PipelineInit PROVE RefreshInv
  OBVIOUS
<1>1. PipelineTypeOK
  BY LimitsAssumption DEF PipelineInit, PipelineTypeOK
<1> QED BY <1>1 DEF PipelineInit, RefreshInv

\* The steps that read no catalog and probe nothing.
LEMMA QuietKeeps ==
  ASSUME RefreshInv, source' = source, stored' = stored, refreshes' = refreshes, phase # "probing", phase' # "probing",
         phase' \in {"idle", "reading", "probing", "selected", "verified"}, snap' = snap, todo' = todo, failed' = failed,
         conn' = conn \/ conn' = "ok", phase' = "reading" => refreshes < MaxRefreshes
  PROVE  RefreshInv'
<1>1. PipelineTypeOK' /\ conn' # "aborted"
  BY DEF RefreshInv, PipelineTypeOK
<1>2. stored' # None => Refreshed(stored.tables, {}, stored.failed)'
  BY RefreshedUnmoved DEF RefreshInv
<1>3. (stored # None)' <=> stored' # None
  BY DEF None
<1> QED BY <1>1, <1>2, <1>3 DEF RefreshInv

LEMMA CatalogKeeps == RefreshInv /\ ReadCatalog => RefreshInv'
<1> SUFFICES ASSUME RefreshInv, ReadCatalog PROVE RefreshInv'
  OBVIOUS
<1>1. PICK r \in Readable : snap' \in Readings(Tables, Config.dialect, r)
  BY DEF ReadCatalog
<1>2. /\ phase = "reading" /\ phase' = "probing" /\ failed' = {} /\ refreshes' = refreshes + 1
      /\ todo' = (IF Config.sampling THEN ToProbe(snap') ELSE {})
      /\ source' = source /\ conn' = conn /\ stored' = stored
  BY DEF ReadCatalog
<1>3. source \in DOMAIN Sources /\ refreshes \in 0..MaxRefreshes /\ conn \in {"ok", "lost"} /\ conn # "lost"
  BY <1>2 DEF RefreshInv, PipelineTypeOK
<1>4. Shaped(snap') /\ \A p \in Places(Tables) : snap'[p[1]].columns[p[2]].values \in Catalogued(p[1], p[2])
  <2>1. Shaped(snap') /\ \A p \in Places(Tables) : snap'[p[1]].columns[p[2]].values
                           \in CatalogValues(Tables[p[1]], Tables[p[1]].columns[p[2]], Config.dialect, r)
    BY <1>1, ReadingIs
  <2> QED BY <2>1 DEF Catalogued
<1>5. Refreshed(snap', todo', failed')
  <2>1. ToProbe(snap') \ (ToProbe(snap') \cup {}) = {}
    OBVIOUS
  <2> QED BY <1>2, <1>4, <2>1 DEF Refreshed, Listed
<1>6. Refreshed(snap, todo, failed)' /\ (stored' # None => Refreshed(stored.tables, {}, stored.failed)')
  BY <1>2, <1>5, RefreshedUnmoved DEF RefreshInv
<1>7. todo' \subseteq Places(snap') /\ failed' = {}
  <2>1. \A q \in ToProbe(snap') : q \in Places(snap')
    BY ToProbeIs
  <2> QED BY <1>2, <2>1
<1>8. refreshes' \in 0..MaxRefreshes
  BY <1>2, <1>3, LimitsAssumption DEF RefreshInv
<1>9. (stored # None)' <=> stored' # None
  BY DEF None
<1>10. Places(snap)' = Places(snap')
  BY DEF Places
<1>11. PipelineTypeOK'
  BY <1>2, <1>3, <1>7, <1>8, <1>10 DEF PipelineTypeOK
<1> QED BY <1>2, <1>3, <1>6, <1>9, <1>11 DEF RefreshInv

\* A probe, whatever came of it.
LEMMA ProbeKeeps ==
  ASSUME RefreshInv, NEW list, Probe(list), NEW p, p = Next1(todo),
         conn' \in {"ok", "lost"}, failed \subseteq failed', failed' \subseteq failed \cup {p},
         conn' = "lost" => failed' # {},
         list = NoValues \/ FromRows(list, Tables[p[1]].columns[p[2]]),
         p \in failed' \/ list # NoValues \/ Unlisted(p)
  PROVE  RefreshInv'
<1>1. /\ phase = "probing" /\ todo # {} /\ todo' = todo \ {p} /\ snap' = Written(snap, p, list)
      /\ source' = source /\ phase' = phase /\ stored' = stored /\ refreshes' = refreshes
  BY DEF Probe, Written
<1>2. source \in DOMAIN Sources /\ todo \subseteq Places(snap) /\ failed \subseteq Places(snap) \ todo
      /\ Refreshed(snap, todo, failed) /\ refreshes \in 0..MaxRefreshes
  BY <1>1 DEF RefreshInv, PipelineTypeOK
<1>3. p \in todo
  <2>1. Places(snap) = Places(Tables)
    BY <1>2, ShapeIs DEF Refreshed
  <2> QED BY <1>1, <1>2, <2>1, NextIsLeft
<1>4. Places(snap') = Places(snap) /\ Refreshed(snap', todo', failed')
  BY <1>1, <1>2, <1>3, ProbedIs
<1>5. Refreshed(snap, todo, failed)' /\ (stored' # None => Refreshed(stored.tables, {}, stored.failed)')
  BY <1>1, <1>4, RefreshedUnmoved DEF RefreshInv
<1>6. todo' \subseteq Places(snap') /\ failed' \subseteq Places(snap') \ todo'
  BY <1>1, <1>2, <1>3, <1>4
<1>7. Places(snap)' = Places(snap')
  BY DEF Places
<1>8. PipelineTypeOK'
  BY <1>1, <1>2, <1>6, <1>7 DEF PipelineTypeOK
<1>9. (stored # None)' <=> stored' # None
  BY DEF None
<1> QED BY <1>1, <1>5, <1>8, <1>9 DEF RefreshInv

LEMMA RefreshKeeps == RefreshInv /\ [PipelineNext]_pipelineVars => RefreshInv'
<1> SUFFICES ASSUME RefreshInv, [PipelineNext]_pipelineVars PROVE RefreshInv'
  OBVIOUS
<1>1. CASE Connect
  BY <1>1, QuietKeeps DEF Connect
<1>2. CASE ReadFails
  BY <1>2, QuietKeeps DEF ReadFails
<1>3. CASE ReadCatalog
  BY <1>3, CatalogKeeps
<1>4. CASE ProbeSucceeds
  <2> DEFINE p == Next1(todo)
  <2>1. PICK drawn \in Seen(Tables[p[1]].columns[p[2]].content, ScanLimit) : Probe(Kept(drawn, MaxValues))
    BY <1>4 DEF ProbeSucceeds
  <2>2. conn = "ok" /\ todo # {} /\ conn' = conn /\ failed' = failed
    BY <1>4 DEF ProbeSucceeds
  <2>3. source \in DOMAIN Sources /\ p \in Places(Tables)
    <3>1. source \in DOMAIN Sources /\ todo \subseteq Places(snap) /\ Refreshed(snap, todo, failed)
      BY <2>1 DEF RefreshInv, PipelineTypeOK, Probe
    <3>2. Places(snap) = Places(Tables)
      BY <3>1, ShapeIs DEF Refreshed
    <3> QED BY <2>2, <3>1, <3>2, NextIsLeft
  <2> DEFINE list == Kept(drawn, MaxValues)
  <2>4. (list = NoValues \/ FromRows(list, Tables[p[1]].columns[p[2]])) /\ (list # NoValues \/ Unlisted(p))
    BY <2>1, <2>3, KeptIs
  <2>5. Probe(list)
    BY <2>1
  <2> HIDE DEF list, p
  <2> QED BY <2>2, <2>4, <2>5, ProbeKeeps DEF p
<1>5. CASE ProbeFails
  <2> DEFINE p == Next1(todo)
  <2>1. Probe(NoValues) /\ conn' \in {"ok", "lost"} /\ failed' = failed \cup {p}
    BY <1>5 DEF ProbeFails, Recovered
  <2> HIDE DEF p
  <2> QED BY <2>1, ProbeKeeps DEF p
<1>6. CASE ProbeRefused
  <2> DEFINE p == Next1(todo)
  <2>1. conn = "lost"
    BY <1>6 DEF ProbeRefused, RefreshInv, PipelineTypeOK
  <2>2. Probe(NoValues) /\ conn' = "lost" /\ failed' = failed \cup {p}
    BY <1>6, <2>1 DEF ProbeRefused
  <2> HIDE DEF p
  <2> QED BY <2>2, ProbeKeeps DEF p
<1>7. CASE Store
  <2>1. /\ phase = "probing" /\ todo = {} /\ stored' = [tables |-> snap, failed |-> failed] /\ phase' = "idle"
        /\ snap' = <<>> /\ failed' = {} /\ conn' = "ok" /\ source' = source /\ todo' = todo /\ refreshes' = refreshes
    BY <1>7 DEF Store
  <2>2. Refreshed(snap, {}, failed)
    BY <2>1 DEF RefreshInv
  <2>3. Refreshed(stored'.tables, {}, stored'.failed)
    <3>1. stored'.tables = snap /\ stored'.failed = failed
      BY <2>1
    <3> QED BY <2>2, <3>1
  <2>4. Refreshed(stored.tables, {}, stored.failed)'
    BY <2>1, <2>3, RefreshedUnmoved
  <2>5. PipelineTypeOK'
    BY <2>1 DEF RefreshInv, PipelineTypeOK
  <2> QED BY <2>1, <2>4, <2>5 DEF RefreshInv
<1>8. CASE SelectTables
  BY <1>8, QuietKeeps DEF SelectTables
<1>9. CASE VerifyStatement
  BY <1>9, QuietKeeps DEF VerifyStatement
<1>10. CASE Answered
  BY <1>10, QuietKeeps DEF Answered
<1>11. CASE UNCHANGED pipelineVars
  <2>1. UNCHANGED <<source, phase, conn, snap, todo, failed, stored, refreshes>>
    BY <1>11 DEF pipelineVars
  <2>2. PipelineTypeOK' /\ conn' # "aborted"
    BY <2>1 DEF RefreshInv, PipelineTypeOK, Places
  <2>3. (phase = "probing" => Refreshed(snap, todo, failed)) /\ (stored # None => Refreshed(stored.tables, {}, stored.failed))
    BY DEF RefreshInv
  <2>4. (phase' = "probing" => Refreshed(snap, todo, failed)') /\ (stored' # None => Refreshed(stored.tables, {}, stored.failed)')
    BY <2>1, <2>3, RefreshedUnmoved
  <2>5. (stored # None)' <=> stored' # None
    BY DEF None
  <2>6. phase' = "reading" => refreshes' < MaxRefreshes
    BY <2>1 DEF RefreshInv
  <2> QED BY <2>2, <2>4, <2>5, <2>6 DEF RefreshInv
<1> QED BY <1>1, <1>2, <1>3, <1>4, <1>5, <1>6, <1>7, <1>8, <1>9, <1>10, <1>11 DEF PipelineNext

\* A refresh works through the places it found, what it has read of the catalog
\* stays with the snapshot, and one failed probe costs one column only.
THEOREM RefreshIsIsolated == PipelineSpec => []PipelineInv
<1>1. RefreshInv => PipelineInv
  <2>1. ASSUME RefreshInv PROVE ProbesAreIsolated
    <3>1. ASSUME stored # None, Config.sampling PROVE \A p \in ToProbe(stored.tables) \ stored.failed : Unlisted(p)
      <4>1. Refreshed(stored.tables, {}, stored.failed)
        BY <2>1, <3>1 DEF RefreshInv
      <4> QED BY <3>1, <4>1 DEF Refreshed
    <3> QED BY <3>1 DEF ProbesAreIsolated
  <2> QED BY <2>1 DEF RefreshInv, PipelineInv
<1> QED BY <1>1, InitRefreshes, RefreshKeeps, PTL DEF PipelineSpec

-----------------------------------------------------------------------------
(* What a stored snapshot tells.                                            *)

\* A clause that is a list of allowed values: what it admits is in its list.
LEMMA ClauseTells ==
  ASSUME NEW d, IsFiniteSet(d.parts), \A p \in d.parts : p.negated \in BOOLEAN, Parsed(d), ~Misread(d),
         NEW dialect, NEW n, Attributed(d, dialect).column = n, NEW v, Admits(d, n, v)
  PROVE  v \in Attributed(d, dialect).values
<1> DEFINE part == CHOOSE p \in Members(d) : TRUE
           own == {p \in d.parts : p.column = n}
<1>1. Members(d) \subseteq d.parts
  BY DEF Members
<1>2. part \in d.parts /\ part \in Members(d)
  <2>1. Cardinality(Members(d)) = 1
    BY DEF Parsed
  <2>2. Members(d) # {}
    BY <2>1, FS_EmptySet
  <2> QED BY <1>1, <2>2
<1>3. ~part.negated /\ part.negated \in BOOLEAN
  BY <1>2 DEF Misread
<1>4. Attributed(d, dialect).column = d.read
  <2>1. \A p \in Members(d) : ~p.negated
    BY <1>1 DEF Misread
  <2>2. Attributed(d, dialect).column = Column(d, dialect)
    BY DEF Attributed
  <2> QED BY <2>1, <2>2 DEF Column
<1>5. Attributed(d, dialect).values = UNION {p.literals : p \in d.parts}
  BY DEF Attributed
<1> HIDE DEF part
<1>6. part.column = n
  BY <1>2, <1>4 DEF Misread
<1>7. part \in own
  BY <1>2, <1>6
<1>8. PartAdmits(part, v)
  <2>1. CASE d.all
    <3>1. \A p \in own : PartAdmits(p, v)
      BY <2>1 DEF Admits
    <3> QED BY <1>7, <3>1
  <2>2. CASE ~d.all
    <3>1. ~(Cardinality(d.parts) > 1) /\ Cardinality(d.parts) \in Nat
      BY <2>2, FS_CardinalityType DEF Misread
    <3>2. Cardinality(d.parts) # 0
      BY <1>2, FS_EmptySet
    <3>3. Cardinality(d.parts) = 1
      BY <3>1, <3>2
    <3>4. PICK x : d.parts = {x}
      BY <3>3, FS_Singleton
    <3>5. d.parts = {part} /\ own = d.parts
      BY <1>2, <1>7, <3>4
    <3>6. own # d.parts \/ \E p \in own : PartAdmits(p, v)
      BY <2>2 DEF Admits
    <3> QED BY <3>5, <3>6
  <2> QED BY <2>1, <2>2
<1>9. v \in part.literals
  BY <1>3, <1>8 DEF PartAdmits
<1> QED BY <1>2, <1>5, <1>9

LEMMA ListTells ==
  ASSUME source \in DOMAIN Sources, NEW i \in DOMAIN Tables, NEW j \in DOMAIN Tables[i].columns,
         NEW list \in Catalogued(i, j), list # NoValues
  PROVE  \/ Allowed(Tables[i], Tables[i].columns[j]) \subseteq list
         \/ Tables[i].columns[j].enum = {} /\ MisreadFor(Tables[i], Tables[i].columns[j])
<1> DEFINE t == Tables[i]
           c == t.columns[j]
<1>1. IsTable(t)
  BY TablesAre
<1>2. PICK r : list \in CatalogValues(t, c, Config.dialect, r)
  BY DEF Catalogued
<1> HIDE DEF t, c
<1>3. CASE c.enum # {}
  <2>1. list = c.enum
    BY <1>2, <1>3 DEF CatalogValues
  <2>2. Allowed(t, c) \subseteq c.enum
    BY <1>3 DEF Allowed
  <2> QED BY <2>1, <2>2 DEF t, c
<1>4. CASE c.enum = {}
  <2>1. list \in CheckValues(t, c, Config.dialect)
    BY <1>2, <1>4 DEF CatalogValues, NoValues
  <2>2. PICK d \in t.checks : Parsed(d) /\ Attributed(d, Config.dialect).column = c.name /\ list = Attributed(d, Config.dialect).values
    BY <2>1 DEF CheckValues
  <2>3. CASE Misread(d)
    <3>1. MisreadFor(t, c)
      BY <2>2, <2>3 DEF MisreadFor
    <3> QED BY <1>4, <3>1 DEF t, c
  <2>4. CASE ~Misread(d)
    <3>1. IsFiniteSet(d.parts) /\ \A p \in d.parts : p.negated \in BOOLEAN
      BY <1>1 DEF IsTable
    <3>2. ASSUME NEW v \in Allowed(t, c) PROVE v \in list
      <4>1. Admits(d, c.name, v)
        BY DEF Allowed
      <4> QED BY <2>2, <2>4, <3>1, <4>1, ClauseTells
    <3> QED BY <3>2 DEF t, c
  <2> QED BY <2>3, <2>4
<1> QED BY <1>3, <1>4

\* Whatever the catalog and however the probes went, a snapshot tells what the
\* catalog says: its tables, every foreign key of theirs, and only lists that
\* leave out no value a row may hold, samples and misread clauses apart.
THEOREM SnapshotIsTheCatalog == PipelineSpec => []SnapshotTellsTheCatalog
<1>1. RefreshInv => SnapshotTellsTheCatalog
  <2> SUFFICES ASSUME RefreshInv, stored # None
               PROVE  /\ Len(stored.tables) = Len(Tables)
                      /\ \A i \in DOMAIN Tables :
                           /\ stored.tables[i].schema = Tables[i].schema /\ stored.tables[i].name = Tables[i].name
                           /\ KeysAreTold(i)
                           /\ \A j \in DOMAIN Tables[i].columns : ValuesAreTold(i, j)
    BY DEF SnapshotTellsTheCatalog
  <2> DEFINE told == stored.tables
  <2>1. source \in DOMAIN Sources /\ Shaped(told) /\ Listed(told)
    BY DEF RefreshInv, PipelineTypeOK, Refreshed
  <2>2. Len(Tables) \in Nat /\ DOMAIN Tables = 1..Len(Tables) /\ \A i \in DOMAIN Tables : IsTable(Tables[i])
    BY <2>1, TablesAre
  <2>3. Len(told) = Len(Tables)
    <3> DEFINE n == Len(Tables)
    <3>1. DOMAIN told = 1..n /\ n \in Nat
      BY <2>1, <2>2, ShapeIs
    <3>2. told = [i \in DOMAIN told |-> told[i]]
      BY <2>1 DEF Shaped
    <3> HIDE DEF n, told
    <3>3. told \in [1..n -> {told[i] : i \in 1..n}]
      BY <3>1, <3>2
    <3>4. told \in Seq({told[i] : i \in 1..n})
      BY <3>1, <3>3, SeqDef
    <3>5. Len(told) \in Nat /\ DOMAIN told = 1..Len(told)
      BY <3>4, LenProperties
    <3> QED BY <3>1, <3>5 DEF n
  <2>4. ASSUME NEW i \in DOMAIN Tables PROVE KeysAreTold(i)
    <3>1. told[i].fks = ForeignKeys(Tables[i].fkRows) /\ IsSequence(Tables[i].fkRows)
      BY <2>1, <2>2, ShapeIs DEF IsTable
    <3> DEFINE keyRows == Tables[i].fkRows
               fks == told[i].fks
    <3>2. /\ Len(fks) = Cardinality(Constraints(keyRows))
          /\ {PairsOf(fks[k]) : k \in DOMAIN fks} = {Pairs(keyRows, c) : c \in Constraints(keyRows)}
      <4> HIDE DEF keyRows, fks
      <4>1. fks = ForeignKeys(keyRows) /\ IsSequence(keyRows)
        BY <3>1 DEF keyRows, fks
      <4> QED BY <4>1, KeysAre
    <3>3. KeysAreTold(i) <=> /\ Len(fks) = Cardinality(Constraints(keyRows))
                             /\ {PairsOf(fks[k]) : k \in DOMAIN fks} = {Pairs(keyRows, c) : c \in Constraints(keyRows)}
      BY DEF KeysAreTold, Constraints
    <3> QED BY <3>2, <3>3
  <2>5. ASSUME NEW i \in DOMAIN Tables, NEW j \in DOMAIN Tables[i].columns PROVE ValuesAreTold(i, j)
    <3> DEFINE list == told[i].columns[j].values
    <3>1. list \in Catalogued(i, j) \/ Sampled(i, j, list)
      <4> DEFINE p == <<i, j>>
      <4>1. p[1] = i /\ p[2] = j /\ p \in Places(Tables)
        BY PlacesAre
      <4> HIDE DEF p
      <4> QED BY <2>1, <4>1 DEF Listed
    <3>2. NoValues \in Catalogued(i, j) => Tables[i].columns[j].enum = {}
      BY DEF Catalogued, CatalogValues, NoValues
    <3> HIDE DEF list
    <3>3. CASE Sampled(i, j, list)
      BY <3>2, <3>3 DEF Sampled, ValuesAreTold, list
    <3>4. CASE list \in Catalogued(i, j)
      <4>1. list # NoValues =>
              \/ Allowed(Tables[i], Tables[i].columns[j]) \subseteq list
              \/ Tables[i].columns[j].enum = {} /\ MisreadFor(Tables[i], Tables[i].columns[j])
        BY <2>1, <3>4, ListTells
      <4> QED BY <4>1 DEF ValuesAreTold, list
    <3> QED BY <3>1, <3>3, <3>4
  <2>6. \A i \in DOMAIN Tables : told[i].schema = Tables[i].schema /\ told[i].name = Tables[i].name
    BY <2>1, ShapeIs
  <2> QED BY <2>3, <2>4, <2>5, <2>6
<1> QED BY <1>1, InitRefreshes, RefreshKeeps, PTL DEF PipelineSpec

-----------------------------------------------------------------------------
(* Two snapshots of one database.                                           *)

LEMMA ListsAreFinite ==
  ASSUME NEW t, IsTable(t), NEW c, NEW d
  PROVE  IsFiniteSet(CheckValues(t, c, d))
<1> DEFINE clauses == {k \in t.checks : Parsed(k) /\ Attributed(k, d).column = c.name}
           lists == CheckValues(t, c, d)
           f == [k \in clauses |-> Attributed(k, d).values]
<1>1. IsFiniteSet(clauses)
  <2>1. IsFiniteSet(t.checks) /\ clauses \subseteq t.checks
    BY DEF IsTable
  <2> HIDE DEF clauses
  <2> QED BY <2>1, FS_Subset
<1>2. lists = {Attributed(k, d).values : k \in clauses}
  BY DEF CheckValues
<1> HIDE DEF clauses, lists
<1>3. f \in [clauses -> lists] /\ \A l \in lists : \E k \in clauses : f[k] = l
  BY <1>2
<1> HIDE DEF f
<1>4. f \in Surjection(clauses, lists)
  BY <1>3, Fun_IsSurj
<1>5. IsFiniteSet(lists)
  BY <1>1, <1>4, FS_Surjection
<1> QED BY <1>5 DEF lists

\* A list that is not volatile is the same in every reading.
LEMMA SteadyIs ==
  ASSUME source \in DOMAIN Sources, NEW i \in DOMAIN Tables, NEW j \in DOMAIN Tables[i].columns, ~Volatile(i, j),
         NEW v, v \in Catalogued(i, j) \/ Sampled(i, j, v), NEW w, w \in Catalogued(i, j) \/ Sampled(i, j, w)
  PROVE  v = w
<1> DEFINE t == Tables[i]
           c == t.columns[j]
           lists == CheckValues(t, c, Config.dialect)
           sampled == Config.sampling /\ c.textual /\ c.name \notin t.pk
<1>1. Volatile(i, j) <=> /\ c.enum = {}
                         /\ \/ Cardinality(lists) > 1
                            \/ lists # {} /\ Config.dialect = "mysql"
                            \/ lists = {} /\ sampled
  BY DEF Volatile
<1>2. NoValues \notin lists
  BY ListsAreFilled
<1>3. \A x : x \in Catalogued(i, j) <=> \E r \in Readable : x \in CatalogValues(t, c, Config.dialect, r)
  BY DEF Catalogued
<1>4. \A r, x : x \in CatalogValues(t, c, Config.dialect, r) <=>
        IF c.enum # {} THEN x = c.enum ELSE IF r /\ lists # {} THEN x \in lists ELSE x = NoValues
  BY DEF CatalogValues
<1>5. \A x : Sampled(i, j, x) => sampled /\ NoValues \in Catalogued(i, j)
  BY DEF Sampled
<1>6. IsFiniteSet(lists)
  BY TablesAre, ListsAreFinite
<1>7. Config.dialect # "mysql" => Readable = {TRUE}
  BY DEF Readable
<1> HIDE DEF t, c, lists, sampled
<1>8. sampled => NoValues \notin Catalogued(i, j)
  <2>1. ASSUME sampled, NoValues \in Catalogued(i, j) PROVE FALSE
    <3>1. PICK r \in Readable : NoValues \in CatalogValues(t, c, Config.dialect, r)
      BY <1>3, <2>1
    <3>2. c.enum = {}
      BY <1>4, <3>1 DEF NoValues
    <3>3. lists # {} /\ Config.dialect # "mysql"
      BY <1>1, <2>1, <3>2
    <3>4. r = TRUE
      BY <1>7, <3>1, <3>3
    <3> QED BY <1>2, <1>4, <3>1, <3>2, <3>3, <3>4
  <2> QED BY <2>1
<1>9. v \in Catalogued(i, j) /\ w \in Catalogued(i, j)
  BY <1>5, <1>8
<1>10. PICK r \in Readable : v \in CatalogValues(t, c, Config.dialect, r)
  BY <1>3, <1>9
<1>11. PICK q \in Readable : w \in CatalogValues(t, c, Config.dialect, q)
  BY <1>3, <1>9
<1>12. CASE c.enum # {}
  BY <1>4, <1>10, <1>11, <1>12
<1>13. CASE c.enum = {} /\ lists = {}
  BY <1>4, <1>10, <1>11, <1>13
<1>14. CASE c.enum = {} /\ lists # {}
  <2>1. Config.dialect # "mysql" /\ ~(Cardinality(lists) > 1)
    BY <1>1, <1>14
  <2>2. r = TRUE /\ q = TRUE
    BY <1>7, <1>10, <1>11, <2>1
  <2>3. v \in lists /\ w \in lists
    BY <1>4, <1>10, <1>11, <1>14, <2>2
  <2>4. Cardinality(lists) \in Nat /\ Cardinality(lists) # 0
    BY <1>6, <1>14, FS_CardinalityType, FS_EmptySet
  <2>5. Cardinality(lists) = 1
    BY <2>1, <2>4
  <2>6. PICK x : lists = {x}
    BY <1>6, <2>5, FS_Singleton
  <2> QED BY <2>3, <2>6
<1> QED BY <1>12, <1>13, <1>14

\* What is left of a snapshot when the lists at some places are blanked.
Blanked(tables, places) ==
  [i \in DOMAIN Tables |->
    [schema |-> Tables[i].schema, name |-> Tables[i].name, pk |-> Tables[i].pk, fks |-> ForeignKeys(Tables[i].fkRows),
     columns |-> [j \in DOMAIN Tables[i].columns |->
       [name |-> Tables[i].columns[j].name, textual |-> Tables[i].columns[j].textual,
        values |-> IF <<i, j>> \in places THEN NoValues ELSE tables[i].columns[j].values]]]]

LEMMA BlankIs ==
  ASSUME NEW tables, Shaped(tables), NEW places
  PROVE  Blank(tables, places) = Blanked(tables, places)
<1> DEFINE T == Tables
           list(i, j) == tables[i].columns[j].values
           Col(i, j, x) == [name |-> T[i].columns[j].name, textual |-> T[i].columns[j].textual, values |-> x]
           Rec(i, columns) == [schema |-> T[i].schema, name |-> T[i].name, pk |-> T[i].pk,
                               fks |-> ForeignKeys(T[i].fkRows), columns |-> columns]
           cols(i) == [j \in DOMAIN T[i].columns |-> Col(i, j, list(i, j))]
           blank(i) == [j \in DOMAIN T[i].columns |-> Col(i, j, IF <<i, j>> \in places THEN NoValues ELSE list(i, j))]
           made(i) == [j \in DOMAIN tables[i].columns |->
                         IF <<i, j>> \in places THEN [tables[i].columns[j] EXCEPT !.values = NoValues]
                         ELSE tables[i].columns[j]]
<1>1. tables = [i \in DOMAIN T |-> Rec(i, cols(i))]
  BY DEF Shaped
<1>2. Blanked(tables, places) = [i \in DOMAIN T |-> Rec(i, blank(i))]
  BY DEF Blanked
<1>3. Blank(tables, places) = [i \in DOMAIN tables |-> [tables[i] EXCEPT !.columns = made(i)]]
  BY DEF Blank
<1> HIDE DEF T, list
<1>4. ASSUME NEW i \in DOMAIN T PROVE tables[i] = Rec(i, cols(i)) /\ DOMAIN tables = DOMAIN T
  <2> HIDE DEF Rec, cols
  <2> QED BY <1>1
<1>5. ASSUME NEW i \in DOMAIN T PROVE tables[i].columns = cols(i)
  <2> DEFINE x == cols(i)
  <2>1. tables[i] = Rec(i, x)
    BY <1>4
  <2> HIDE DEF x
  <2>2. tables[i].columns = x
    BY <2>1
  <2> QED BY <2>2 DEF x
<1>6. ASSUME NEW i \in DOMAIN T PROVE made(i) = blank(i)
  <2>1. DOMAIN tables[i].columns = DOMAIN T[i].columns
    BY <1>5
  <2>2. ASSUME NEW j \in DOMAIN T[i].columns PROVE tables[i].columns[j] = Col(i, j, list(i, j))
    <3> HIDE DEF Col
    <3> QED BY <1>5
  <2>3. ASSUME NEW j \in DOMAIN T[i].columns PROVE [tables[i].columns[j] EXCEPT !.values = NoValues] = Col(i, j, NoValues)
    <3> DEFINE was == tables[i].columns[j]  x == T[i].columns[j].name  y == T[i].columns[j].textual  v == list(i, j)
    <3>1. was = [name |-> x, textual |-> y, values |-> v]
      BY <2>2
    <3> HIDE DEF was, x, y, v
    <3>2. [was EXCEPT !.values = NoValues] = [name |-> x, textual |-> y, values |-> NoValues]
      BY <3>1
    <3> QED BY <3>2 DEF was, x, y
  <2> HIDE DEF Col
  <2> QED BY <2>1, <2>2, <2>3
<1>7. ASSUME NEW i \in DOMAIN T PROVE [tables[i] EXCEPT !.columns = made(i)] = Rec(i, blank(i))
  <2> DEFINE was == tables[i]  x == cols(i)  y == blank(i)
  <2>1. was = Rec(i, x) /\ made(i) = y
    BY <1>4, <1>6
  <2> HIDE DEF was, x, y, made
  <2>2. [was EXCEPT !.columns = y] = Rec(i, y)
    BY <2>1
  <2> QED BY <2>1, <2>2 DEF was, y
<1>8. DOMAIN tables = DOMAIN T
  BY <1>1
<1> DEFINE left(i) == [tables[i] EXCEPT !.columns = made(i)]
           right(i) == Rec(i, blank(i))
<1>9. \A i \in DOMAIN T : left(i) = right(i)
  BY <1>7
<1> HIDE DEF left, right
<1>10. [i \in DOMAIN tables |-> left(i)] = [i \in DOMAIN T |-> right(i)]
  BY <1>8, <1>9
<1> QED BY <1>2, <1>3, <1>10 DEF left, right

\* Two snapshots of an unchanged database differ in nothing but sampled values,
\* CHECK lists MySQL could not read, and columns of several CHECK lists.
THEOREM RefreshesAgree == PipelineSpec => StableUpToValues
<1> DEFINE volatile == {p \in Places(Tables) : Volatile(p[1], p[2])}
<1>1. ASSUME RefreshInv, [PipelineNext]_pipelineVars, stored # None, stored' # stored
      PROVE  Blank(stored.tables, volatile) = Blank(stored'.tables, volatile)
  <2> DEFINE a == stored.tables
             b == stored'.tables
  <2>1. Store
    BY <1>1 DEF PipelineNext, pipelineVars, Connect, ReadFails, ReadCatalog, ProbeSucceeds, ProbeFails, ProbeRefused,
                Probe, SelectTables, VerifyStatement, Answered
  <2>2. b = snap /\ phase = "probing"
    BY <2>1 DEF Store
  <2>3. source \in DOMAIN Sources /\ Shaped(a) /\ Listed(a) /\ Shaped(b) /\ Listed(b)
    BY <1>1, <2>2 DEF RefreshInv, PipelineTypeOK, Refreshed
  <2> HIDE DEF a, b
  <2>4. ASSUME NEW i \in DOMAIN Tables, NEW j \in DOMAIN Tables[i].columns, <<i, j>> \notin volatile
        PROVE  a[i].columns[j].values = b[i].columns[j].values
    <3> DEFINE p == <<i, j>>
    <3>1. p[1] = i /\ p[2] = j /\ p \in Places(Tables)
      BY PlacesAre
    <3>2. ~Volatile(i, j)
      BY <2>4, <3>1
    <3> DEFINE v == a[i].columns[j].values
               w == b[i].columns[j].values
    <3> HIDE DEF p, volatile
    <3>3. (v \in Catalogued(i, j) \/ Sampled(i, j, v)) /\ (w \in Catalogued(i, j) \/ Sampled(i, j, w))
      BY <2>3, <3>1 DEF Listed
    <3> HIDE DEF v, w
    <3>4. v = w
      BY <2>3, <3>2, <3>3, SteadyIs
    <3> QED BY <3>4 DEF v, w
  <2> HIDE DEF volatile
  <2>5. Blanked(a, volatile) = Blanked(b, volatile)
    BY <2>4 DEF Blanked
  <2>6. Blank(a, volatile) = Blank(b, volatile)
    BY <2>3, <2>5, BlankIs
  <2> QED BY <2>6 DEF a, b
<1>2. RefreshInv /\ [PipelineNext]_pipelineVars =>
        [ (stored # None /\ stored' # stored) => Blank(stored.tables, volatile) = Blank(stored'.tables, volatile) ]_pipelineVars
  BY <1>1
<1> QED BY <1>2, InitRefreshes, RefreshKeeps, PTL DEF PipelineSpec, StableUpToValues

-----------------------------------------------------------------------------
(* The scopes around a scope.                                               *)

\* What ElementsAt returns first is the element at the first position.
LEMMA FirstElement ==
  ASSUME NEW s, IsSequence(s), NEW places, places \subseteq DOMAIN s, NEW m \in places, \A k \in places : m <= k
  PROVE  ElementsAt(s, places) # <<>> /\ ElementsAt(s, places)[1] = s[m]
<1> DEFINE n == Len(s)
           R == {s[i] : i \in DOMAIN s}
           kept == CHOOSE f : KeptTo(s, places, n, f)
           Right(i) == IF i < m THEN kept[i] = <<>> ELSE kept[i] \in Seq(R) /\ kept[i] # <<>> /\ kept[i][1] = s[m]
           bad == {i \in 1..n : ~Right(i)}
<1>1. n \in Nat /\ DOMAIN s = 1..n /\ m \in 1..n /\ s \in Seq(R)
  BY DEF IsSequence
<1>2. KeptTo(s, places, n, kept)
  BY <1>1, KeptExist
<1>3. ElementsAt(s, places) = kept[n]
  BY DEF ElementsAt, KeptTo
<1> HIDE DEF kept
<1>4. kept[0] = <<>> /\ \A i \in 1..n : kept[i] = IF i \in places THEN Append(kept[i - 1], s[i]) ELSE kept[i - 1]
  <2>1. ASSUME NEW i \in 0..n
        PROVE  kept[i] = IF i = 0 THEN <<>> ELSE IF i \in places THEN Append(kept[i - 1], s[i]) ELSE kept[i - 1]
    BY <1>2 DEF KeptTo
  <2> QED BY <1>1, <2>1
<1>5. bad = {}
  <2> SUFFICES ASSUME bad # {} PROVE FALSE
    OBVIOUS
  <2>1. PICK i \in bad : \A k \in bad : i <= k
    <3>1. bad \subseteq 1..n
      OBVIOUS
    <3> HIDE DEF bad
    <3> QED BY <1>1, <3>1, LeastNumber
  <2>2. i \in 1..n /\ ~Right(i) /\ i - 1 \in 0..n /\ (i - 1 # 0 => Right(i - 1))
    BY <1>1, <2>1
  <2>3. Right(i - 1)
    BY <1>1, <1>4, <2>2
  <2>4. s[i] \in R
    BY <1>1, <2>2
  <2> HIDE DEF R
  <2>5. CASE i < m
    <3>1. i \notin places /\ i - 1 < m
      BY <1>1, <2>2, <2>5
    <3> QED BY <1>4, <2>2, <2>3, <2>5, <3>1
  <2>6. CASE i = m
    <3>1. kept[i - 1] = <<>>
      BY <1>1, <2>2, <2>3, <2>6
    <3>2. kept[i] = Append(kept[i - 1], s[i])
      BY <1>4, <2>2, <2>6
    <3>3. Append(<<>>, s[i]) \in Seq(R) /\ Append(<<>>, s[i]) # <<>> /\ Append(<<>>, s[i])[1] = s[i]
      BY <2>4
    <3> QED BY <1>1, <2>2, <2>6, <3>1, <3>2, <3>3
  <2>7. CASE i > m
    <3> DEFINE q == kept[i - 1]
               e == s[i]
    <3>1. q \in Seq(R) /\ q # <<>> /\ q[1] = s[m]
      BY <1>1, <2>2, <2>3, <2>7
    <3>2. kept[i] = Append(q, e) \/ kept[i] = q
      BY <1>4, <2>2
    <3>3. e \in R
      BY <2>4
    <3>4. ~(i < m)
      BY <1>1, <2>2, <2>7
    <3> HIDE DEF q, e
    <3>5. Append(q, e) \in Seq(R) /\ Append(q, e) # <<>> /\ Append(q, e)[1] = q[1]
      <4>1. Len(q) \in Nat /\ Len(q) >= 1
        BY <3>1
      <4> QED BY <3>1, <3>3, <4>1
    <3> QED BY <2>2, <3>1, <3>2, <3>4, <3>5
  <2> QED BY <1>1, <2>2, <2>5, <2>6, <2>7
<1>6. Right(n)
  BY <1>1, <1>5
<1> QED BY <1>1, <1>3, <1>6

\* What the verifier is asked of: the statements of the model.
IsStatement(stmt) ==
  /\ IsSequence(stmt)
  /\ \A k \in DOMAIN stmt :
       /\ stmt[k].parent \in 0..(k - 1) /\ Anything \notin stmt[k].outputs
       /\ \A s \in SourcesOf(stmt[k]) : /\ s.kind \in {"table", "scope", "function"}
                                        /\ \A n \in DOMAIN s.renames : s.renames[n] # Anything
                                        /\ s.kind = "scope" => s.scope \in DOMAIN stmt

\* What Chain chooses, for the first n scopes.
ChainTo(stmt, n, f) ==
  f = [k \in 1..n |-> IF stmt[k].parent = 0 THEN <<k>> ELSE <<k>> \o f[stmt[k].parent]]

LEMMA ChainGrow ==
  ASSUME NEW stmt, NEW n \in Nat, \A k \in 1..(n + 1) : stmt[k].parent \in 0..(k - 1), NEW f, ChainTo(stmt, n, f)
  PROVE  \E g : ChainTo(stmt, n + 1, g)
<1> DEFINE up(k) == stmt[k].parent
           next == IF up(n + 1) = 0 THEN <<n + 1>> ELSE <<n + 1>> \o f[up(n + 1)]
           g == [k \in 1..(n + 1) |-> IF k = n + 1 THEN next ELSE f[k]]
<1>1. ASSUME NEW k \in 1..(n + 1) PROVE g[k] = IF up(k) = 0 THEN <<k>> ELSE <<k>> \o g[up(k)]
  <2>1. up(k) \in 0..(k - 1)
    OBVIOUS
  <2>2. up(k) # 0 => up(k) \in 1..n /\ g[up(k)] = f[up(k)]
    BY <2>1
  <2>3. CASE k = n + 1
    BY <2>2, <2>3
  <2>4. CASE k # n + 1
    <3>1. k \in 1..n /\ g[k] = f[k]
      BY <2>4
    <3>2. f[k] = IF up(k) = 0 THEN <<k>> ELSE <<k>> \o f[up(k)]
      BY <3>1 DEF ChainTo
    <3> QED BY <2>2, <3>1, <3>2
  <2> QED BY <2>3, <2>4
<1>2. g = [k \in 1..(n + 1) |-> g[k]]
  OBVIOUS
<1> HIDE DEF g
<1>3. g = [k \in 1..(n + 1) |-> IF up(k) = 0 THEN <<k>> ELSE <<k>> \o g[up(k)]]
  BY <1>1, <1>2
<1> QED BY <1>3 DEF ChainTo

LEMMA ChainExist ==
  ASSUME NEW stmt, NEW n \in Nat, \A k \in 1..n : stmt[k].parent \in 0..(k - 1)
  PROVE  \E f : ChainTo(stmt, n, f)
<1> DEFINE bad == {i \in 1..n : ~\E f : ChainTo(stmt, i, f)}
<1>1. \E f : ChainTo(stmt, 0, f)
  <2> DEFINE f == [k \in 1..0 |-> <<>>]
  <2>1. 1..0 = {}
    OBVIOUS
  <2>2. ChainTo(stmt, 0, f)
    BY <2>1 DEF ChainTo
  <2> QED BY <2>2
<1>2. SUFFICES ASSUME bad # {} PROVE FALSE
  BY <1>1
<1>3. PICK m \in bad : \A i \in bad : m <= i
  BY <1>2, LeastNumber
<1>4. m \in 1..n /\ ~(\E f : ChainTo(stmt, m, f)) /\ m - 1 \in Nat
  OBVIOUS
<1>5. \E f : ChainTo(stmt, m - 1, f)
  <2>1. CASE m = 1
    BY <1>1, <2>1
  <2>2. CASE m # 1
    <3>1. m - 1 \in 1..n /\ m - 1 < m
      BY <1>4, <2>2
    <3> QED BY <1>3, <3>1
  <2> QED BY <2>1, <2>2
<1>6. m - 1 + 1 = m
  BY <1>4
<1>7. \A k \in 1..(m - 1 + 1) : stmt[k].parent \in 0..(k - 1)
  BY <1>4
<1> HIDE DEF bad
<1> QED BY <1>4, <1>5, <1>6, <1>7, ChainGrow

\* The chain of a scope consists of scopes.
LEMMA ChainIs ==
  ASSUME NEW stmt, IsStatement(stmt), NEW i \in DOMAIN stmt
  PROVE  Chain(stmt, i) \in Seq(DOMAIN stmt) /\ IsSequence(Chain(stmt, i))
<1> DEFINE n == Len(stmt)
           S == DOMAIN stmt
           up == CHOOSE f : ChainTo(stmt, n, f)
           bad == {k \in 1..n : up[k] \notin Seq(S)}
<1>1. n \in Nat /\ S = 1..n /\ \A k \in 1..n : stmt[k].parent \in 0..(k - 1)
  BY DEF IsStatement, IsSequence
<1>2. ChainTo(stmt, n, up)
  BY <1>1, ChainExist
<1>3. Chain(stmt, i) = up[i]
  BY <1>1 DEF Chain, ChainTo
<1> HIDE DEF up
<1>4. \A k \in 1..n : up[k] = IF stmt[k].parent = 0 THEN <<k>> ELSE <<k>> \o up[stmt[k].parent]
  BY <1>2 DEF ChainTo
<1>5. bad = {}
  <2> SUFFICES ASSUME bad # {} PROVE FALSE
    OBVIOUS
  <2>1. PICK k \in bad : \A j \in bad : k <= j
    <3>1. bad \subseteq 1..n
      OBVIOUS
    <3> HIDE DEF bad
    <3> QED BY <1>1, <3>1, LeastNumber
  <2>2. k \in 1..n /\ up[k] \notin Seq(S) /\ stmt[k].parent \in 0..(k - 1)
    BY <1>1, <2>1
  <2>3. k \in S /\ <<k>> \in Seq(S)
    BY <1>1, <2>2
  <2>4. CASE stmt[k].parent = 0
    BY <1>4, <2>2, <2>3, <2>4
  <2>5. CASE stmt[k].parent # 0
    <3> DEFINE p == stmt[k].parent
    <3>1. p \in 1..n /\ p < k
      BY <2>2, <2>5
    <3>2. up[p] \in Seq(S)
      BY <2>1, <3>1
    <3>3. up[k] = <<k>> \o up[p]
      BY <1>4, <2>2, <2>5
    <3>4. <<k>> \o up[p] \in Seq(S)
      BY <2>3, <3>2
    <3> QED BY <2>2, <3>3, <3>4
  <2> QED BY <2>4, <2>5
<1>6. up[i] \in Seq(S)
  BY <1>1, <1>5
<1>7. IsSequence(up[i])
  <2> DEFINE c == up[i]
  <2>1. c \in Seq(S)
    BY <1>6
  <2> HIDE DEF c, S
  <2>2. c \in Seq({c[k] : k \in DOMAIN c})
    BY <2>1
  <2> QED BY <2>2 DEF IsSequence, c
<1> QED BY <1>3, <1>6, <1>7

-----------------------------------------------------------------------------
(* What the verifier looks a name up in.                                    *)

LEMMA SubsequenceIs ==
  ASSUME NEW S, NEW s \in Seq(S)
  PROVE  IsSequence(s) /\ Len(s) \in Nat /\ DOMAIN s = 1..Len(s) /\ (s = <<>> <=> Len(s) = 0)
<1>1. s \in Seq({s[k] : k \in DOMAIN s})
  OBVIOUS
<1> QED BY <1>1 DEF IsSequence

LEMMA ElementsAre ==
  ASSUME NEW S, NEW s \in Seq(S), NEW places, places \subseteq DOMAIN s, NEW e, e = ElementsAt(s, places)
  PROVE  /\ e \in Seq(S) /\ Len(e) \in Nat /\ DOMAIN e = 1..Len(e) /\ (e = <<>> <=> Len(e) = 0)
         /\ \A k \in DOMAIN e : \E i \in places : e[k] = s[i]
         /\ \A i \in places : \E k \in DOMAIN e : e[k] = s[i]
<1> DEFINE x == ElementsAt(s, places)
           R == {s[i] : i \in DOMAIN s}
<1>1. IsSequence(s) /\ R \subseteq S
  BY SubsequenceIs
<1>2. x \in Seq(R) /\ {x[k] : k \in DOMAIN x} = {s[i] : i \in places}
  BY <1>1, ElementsAtIs
<1> HIDE DEF x, R
<1>3. x \in Seq(S)
  BY <1>1, <1>2
<1>4. Len(x) \in Nat /\ DOMAIN x = 1..Len(x) /\ (x = <<>> <=> Len(x) = 0)
  BY <1>3
<1>5. ASSUME NEW k \in DOMAIN x PROVE \E i \in places : x[k] = s[i]
  <2>1. x[k] \in {s[i] : i \in places}
    BY <1>2
  <2> QED BY <2>1
<1>6. ASSUME NEW i \in places PROVE \E k \in DOMAIN x : x[k] = s[i]
  <2>1. s[i] \in {x[k] : k \in DOMAIN x}
    BY <1>2
  <2> QED BY <2>1
<1>7. e = x
  BY DEF x
<1> QED BY <1>3, <1>4, <1>5, <1>6, <1>7

\* The sources a scope may use begin with those nearest to it.
NearestSeen(stmt, i, q) ==
  LET introduce == Nearest(stmt, Chain(stmt, i), q)
  IN ElementsAt(introduce, {k \in DOMAIN introduce : introduce[k] \in Seeing(stmt, i)})

LEMMA NearestIs ==
  ASSUME NEW stmt, IsStatement(stmt), NEW i \in DOMAIN stmt, NEW q
  PROVE  LET chain == Chain(stmt, i)
             near == Nearest(stmt, chain, q)
             knows == {k \in DOMAIN chain : q \in DOMAIN stmt[chain[k]].sources}
         IN /\ near \in Seq(DOMAIN stmt)
            /\ Len(near) \in Nat /\ DOMAIN near = 1..Len(near) /\ (near = <<>> <=> Len(near) = 0)
            /\ \A k \in DOMAIN near : \E j \in knows : near[k] = chain[j]
            /\ near # <<>> => \E m \in knows : near[1] = chain[m] /\ \A k \in knows : m <= k
<1> DEFINE chain == Chain(stmt, i)
           near == Nearest(stmt, chain, q)
           knows == {k \in DOMAIN chain : q \in DOMAIN stmt[chain[k]].sources}
<1>1. chain \in Seq(DOMAIN stmt) /\ IsSequence(chain)
  BY ChainIs
<1>2. near = ElementsAt(chain, knows) /\ knows \subseteq DOMAIN chain
  BY DEF Nearest
<1> HIDE DEF chain, near, knows
<1>3. /\ near \in Seq(DOMAIN stmt) /\ Len(near) \in Nat /\ DOMAIN near = 1..Len(near) /\ (near = <<>> <=> Len(near) = 0)
      /\ \A k \in DOMAIN near : \E j \in knows : near[k] = chain[j]
  BY <1>1, <1>2, ElementsAre
<1>4. ASSUME near # <<>> PROVE \E m \in knows : near[1] = chain[m] /\ \A k \in knows : m <= k
  <2>1. 1 \in DOMAIN near
    BY <1>3, <1>4
  <2>2. knows # {}
    BY <1>3, <2>1
  <2>3. Len(chain) \in Nat /\ knows \subseteq 1..Len(chain)
    BY <1>1, <1>2
  <2>4. PICK m \in knows : \A k \in knows : m <= k
    BY <2>2, <2>3, LeastNumber
  <2>5. near[1] = chain[m]
    BY <1>1, <1>2, <2>4, FirstElement
  <2> QED BY <2>4, <2>5
<1> QED BY <1>3, <1>4 DEF chain, near, knows

LEMMA FirstSeen ==
  ASSUME NEW stmt, IsStatement(stmt), NEW i \in DOMAIN stmt, NEW q
  PROVE  LET chain == Chain(stmt, i)
             near == Nearest(stmt, chain, q)
             saw == NearestSeen(stmt, i, q)
         IN /\ saw # <<>> => near # <<>> /\ saw[1] = near[1]
            /\ near # <<>> /\ (\A k \in DOMAIN chain : chain[k] \in Seeing(stmt, i)) => saw # <<>>
<1> DEFINE chain == Chain(stmt, i)
           near == Nearest(stmt, chain, q)
           saw == NearestSeen(stmt, i, q)
           knows == {k \in DOMAIN chain : q \in DOMAIN stmt[chain[k]].sources}
           see == Seeing(stmt, i)
           places == {k \in DOMAIN near : near[k] \in see}
<1>1. /\ near \in Seq(DOMAIN stmt) /\ Len(near) \in Nat /\ DOMAIN near = 1..Len(near) /\ (near = <<>> <=> Len(near) = 0)
      /\ \A k \in DOMAIN near : \E j \in knows : near[k] = chain[j]
      /\ near # <<>> => \E m \in knows : near[1] = chain[m] /\ \A k \in knows : m <= k
  BY NearestIs
<1>2. chain \in Seq(DOMAIN stmt)
  BY ChainIs
<1>3. IsSequence(near)
  <2> HIDE DEF near
  <2> QED BY <1>1, SubsequenceIs
<1>4. saw = ElementsAt(near, places) /\ places \subseteq DOMAIN near
  BY DEF NearestSeen
<1>5. see = {chain[k] : k \in {k \in DOMAIN chain : \A m \in 1..(k - 1) : stmt[chain[m]].sees}}
  BY DEF Seeing
<1> HIDE DEF chain, near, saw, see
<1>6. /\ Len(saw) \in Nat /\ DOMAIN saw = 1..Len(saw) /\ (saw = <<>> <=> Len(saw) = 0)
      /\ \A k \in DOMAIN saw : \E j \in places : saw[k] = near[j]
  <2> HIDE DEF places
  <2> QED BY <1>1, <1>4, ElementsAre
<1>7. ASSUME near # <<>>, near[1] \in see PROVE saw # <<>> /\ saw[1] = near[1]
  <2>1. 1 \in places /\ places \subseteq DOMAIN near /\ \A k \in places : 1 <= k
    BY <1>1, <1>7
  <2> HIDE DEF places
  <2> QED BY <1>3, <1>4, <2>1, FirstElement
<1>8. ASSUME saw # <<>> PROVE near # <<>> /\ near[1] \in see
  <2>1. 1 \in DOMAIN saw
    BY <1>6, <1>8
  <2>2. PICK k \in places : saw[1] = near[k]
    BY <1>6, <2>1
  <2>3. k \in DOMAIN near /\ near # <<>> /\ near[k] \in see
    BY <1>1, <2>2
  <2>4. PICK m \in knows : near[1] = chain[m] /\ \A j \in knows : m <= j
    BY <1>1, <2>3
  <2>5. PICK j \in knows : near[k] = chain[j]
    BY <1>1, <2>3
  <2>6. PICK w \in DOMAIN chain : near[k] = chain[w] /\ \A v \in 1..(w - 1) : stmt[chain[v]].sees
    BY <1>5, <2>3
  <2>7. w \in knows
    BY <2>5, <2>6
  <2>8. m \in DOMAIN chain /\ m \in Nat /\ w \in Nat /\ m <= w
    BY <1>2, <2>4, <2>6, <2>7
  <2>9. \A v \in 1..(m - 1) : stmt[chain[v]].sees
    BY <2>6, <2>8
  <2> QED BY <1>5, <2>3, <2>4, <2>8, <2>9
<1>9. ASSUME near # <<>>, \A k \in DOMAIN chain : chain[k] \in see PROVE near[1] \in see
  BY <1>1, <1>9
<1> QED BY <1>7, <1>8, <1>9 DEF chain, near, saw, see

\* A snapshot is a sequence of tables of the database.
LEMMA SnapshotIs ==
  ASSUME source \in DOMAIN Sources, NEW tables, Shaped(tables)
  PROVE  /\ IsSequence(tables)
         /\ \A k \in DOMAIN tables : \E m \in DOMAIN Config.tables :
              /\ tables[k].schema = Config.tables[m].schema /\ tables[k].name = Config.tables[m].name
              /\ ColumnNames(tables[k]) = ColumnNames(Config.tables[m])
<1> DEFINE catalog == Config.tables
           places == {i \in DOMAIN catalog :
                        /\ catalog[i].columns # <<>>
                        /\ IF Config.dialect = "mysql" THEN catalog[i].schema = Database
                           ELSE IF Config.schemas = {} THEN catalog[i].schema \notin PgLike
                           ELSE catalog[i].schema \in Config.schemas
                        /\ Config.allow = {} \/ catalog[i].name \in Config.allow}
<1>1. IsSequence(catalog)
  BY SourcesAssumption DEF Config
<1>2. Tables = ElementsAt(catalog, places)
  BY DEF Tables, Visible
<1>3. places \subseteq DOMAIN catalog
  OBVIOUS
<1> HIDE DEF catalog, places
<1>4. \A k \in DOMAIN Tables : \E m \in places : Tables[k] = catalog[m]
  BY <1>1, <1>2, <1>3, ElementsAre DEF IsSequence
<1>5. Len(Tables) \in Nat /\ DOMAIN Tables = 1..Len(Tables)
  BY TablesAre
<1>6. DOMAIN tables = DOMAIN Tables
  BY ShapeIs
<1>7. tables = [i \in 1..Len(Tables) |-> tables[i]]
  <2> DEFINE n == Len(Tables)
             t(i) == tables[i]
  <2>1. tables = [i \in DOMAIN tables |-> tables[i]]
    BY DEF Shaped
  <2> QED BY <1>5, <1>6, <2>1
<1>8. IsSequence(tables)
  <2> DEFINE n == Len(Tables)
             S == {tables[i] : i \in 1..n}
  <2>1. \A i \in 1..n : tables[i] \in S
    OBVIOUS
  <2> HIDE DEF S, n
  <2>2. tables \in [1..n -> S] /\ n \in Nat
    BY <1>5, <1>7, <2>1 DEF n
  <2>3. tables \in Seq(S)
    BY <2>2
  <2> QED BY <2>3, SubsequenceIs
<1>9. ASSUME NEW k \in DOMAIN tables
      PROVE  \E m \in DOMAIN catalog :
               /\ tables[k].schema = catalog[m].schema /\ tables[k].name = catalog[m].name
               /\ ColumnNames(tables[k]) = ColumnNames(catalog[m])
  <2>1. PICK m \in places : Tables[k] = catalog[m]
    BY <1>4, <1>6
  <2>2. /\ tables[k].schema = Tables[k].schema /\ tables[k].name = Tables[k].name
        /\ DOMAIN tables[k].columns = DOMAIN Tables[k].columns
        /\ \A j \in DOMAIN Tables[k].columns : tables[k].columns[j].name = Tables[k].columns[j].name
    BY <1>6, ShapeIs
  <2>3. ColumnNames(tables[k]) = ColumnNames(Tables[k])
    BY <2>2 DEF ColumnNames
  <2> QED BY <1>3, <2>1, <2>2, <2>3
<1> QED BY <1>8, <1>9 DEF catalog

\* A table a written name may stand for.
Answers(src, t) == t.name = src.name /\ (src.db = "" \/ t.schema = src.db)

LEMMA ResolveIs ==
  ASSUME NEW tables, IsSequence(tables), NEW src
  PROVE  LET hits == Resolve(src, tables)
         IN /\ Len(hits) \in Nat /\ DOMAIN hits = 1..Len(hits) /\ (hits = <<>> <=> Len(hits) = 0)
            /\ \A k \in DOMAIN hits : \E j \in DOMAIN tables : hits[k] = tables[j] /\ Answers(src, tables[j])
            /\ \A j \in DOMAIN tables : Answers(src, tables[j]) => \E k \in DOMAIN hits : hits[k] = tables[j]
<1> DEFINE hits == Resolve(src, tables)
           places == {k \in DOMAIN tables : tables[k].name = src.name /\ (src.db = "" \/ tables[k].schema = src.db)}
<1>1. hits = ElementsAt(tables, places) /\ places \subseteq DOMAIN tables
  BY DEF Resolve
<1>2. \A j : j \in places <=> j \in DOMAIN tables /\ Answers(src, tables[j])
  BY DEF Answers
<1> HIDE DEF hits, places
<1>3. /\ Len(hits) \in Nat /\ DOMAIN hits = 1..Len(hits) /\ (hits = <<>> <=> Len(hits) = 0)
      /\ \A k \in DOMAIN hits : \E j \in places : hits[k] = tables[j]
      /\ \A j \in places : \E k \in DOMAIN hits : hits[k] = tables[j]
  BY <1>1, ElementsAre DEF IsSequence
<1> QED BY <1>2, <1>3 DEF hits

-----------------------------------------------------------------------------
(* The verdicts of the verifier and of the database.                        *)

LEMMA StatementIs ==
  ASSUME NEW stmt \in Statements
  PROVE  IsStatement(stmt)
BY StatementsAssumption DEF IsStatement

LEMMA SourceIs ==
  ASSUME NEW stmt, IsStatement(stmt), NEW k \in DOMAIN stmt, NEW src \in SourcesOf(stmt[k])
  PROVE  src.kind \in {"table", "scope", "function"} /\ (src.kind = "scope" => src.scope \in DOMAIN stmt)
<1> DEFINE kinds == {"table", "scope", "function"}
<1>1. \A s \in SourcesOf(stmt[k]) : s.kind \in kinds /\ (s.kind = "scope" => s.scope \in DOMAIN stmt)
  <2>1. \A m \in DOMAIN stmt : \A s \in SourcesOf(stmt[m]) : s.kind \in kinds /\ (s.kind = "scope" => s.scope \in DOMAIN stmt)
    BY DEF IsStatement
  <2> QED BY <2>1
<1> QED BY <1>1

\* A name that another schema than the database's own may have given.
Elsewhere(src, tables) ==
  Checked(src) /\ \E k \in DOMAIN Resolve(src, tables) : src.db = "" /\ Resolve(src, tables)[k].schema # Home

\* What the verifier finds the database finds.
LEMMA HadIsGiven ==
  ASSUME source \in DOMAIN Sources, NEW tables, Shaped(tables), NEW stmt, NEW src, NEW c, Has(stmt, src, tables, c),
         c \notin DOMAIN src.renames
  PROVE  Gives(stmt, src, c) \/ Elsewhere(src, tables)
<1>0. \A names : c \in names => c \in Aliased(src, names)
  BY DEF Aliased
<1>1. CASE src.kind = "scope" /\ ~Star(stmt, src) /\ c \in OutputsOf(stmt, src)
  <2>1. c \in Aliased(src, Named(stmt, src) \union {})
    BY <1>0, <1>1 DEF Star, Named
  <2> QED BY <1>1, <2>1 DEF Gives
<1>2. CASE /\ Checked(src)
           /\ \E k \in DOMAIN Resolve(src, tables) : c \in ColumnNames(Resolve(src, tables)[k])
  <2> DEFINE hits == Resolve(src, tables)
  <2>1. \A k \in DOMAIN hits : \E j \in DOMAIN tables : hits[k] = tables[j] /\ Answers(src, tables[j])
    <3>1. IsSequence(tables)
      BY SnapshotIs
    <3> QED BY <3>1, ResolveIs
  <2>2. PICK k \in DOMAIN hits : c \in ColumnNames(hits[k])
    BY <1>2
  <2>3. PICK j \in DOMAIN tables : hits[k] = tables[j] /\ Answers(src, tables[j])
    BY <2>1
  <2>4. PICK m \in DOMAIN Config.tables :
               /\ tables[j].schema = Config.tables[m].schema /\ tables[j].name = Config.tables[m].name
               /\ ColumnNames(tables[j]) = ColumnNames(Config.tables[m])
    BY <2>3, SnapshotIs
  <2>5. CASE src.db = "" /\ tables[j].schema # Home
    BY <1>2, <2>3, <2>5 DEF Elsewhere
  <2>6. CASE ~(src.db = "" /\ tables[j].schema # Home)
    <3>1. m \in Meant(src)
      BY <2>3, <2>4, <2>6 DEF Meant, Answers
    <3>2. c \in ColumnNames(Config.tables[m])
      BY <2>2, <2>3, <2>4
    <3>3. src.kind # "scope" /\ Checked(src)
      BY <1>2 DEF Checked
    <3>4. c \in Aliased(src, ColumnsMeant(src))
      BY <1>0, <3>1, <3>2 DEF ColumnsMeant
    <3> QED BY <3>3, <3>4 DEF Gives
  <2> QED BY <2>5, <2>6
<1> QED BY <1>1, <1>2 DEF Has

\* The tables of the database a source may mean are in the snapshot.
Held(src, tables) ==
  \A i \in Meant(src) : \E k \in DOMAIN tables : /\ tables[k].name = Config.tables[i].name
                                                 /\ tables[k].schema = Config.tables[i].schema

\* What the database finds the verifier finds, or leaves to it.
LEMMA GivenIsHad ==
  ASSUME source \in DOMAIN Sources, NEW tables, Shaped(tables), NEW stmt, NEW src, NEW c, Gives(stmt, src, c),
         src.kind \in {"table", "scope", "function"}, src.kind = "scope" => Anything \notin OutputsOf(stmt, src),
         Checked(src) => Held(src, tables) /\ c \notin HiddenColumns,
         \A n \in DOMAIN src.renames : src.renames[n] # c /\ src.renames[n] # Anything
  PROVE  \/ Has(stmt, src, tables, c) \/ Star(stmt, src)
         \/ src.kind = "function" \/ (src.kind = "table" /\ ~Checked(src))
<1>0. \A names : /\ c \in Aliased(src, names) => c \in names
                 /\ Anything \in Aliased(src, names) => Anything \in names
  BY DEF Aliased
<1>1. CASE src.kind = "scope" /\ ~Star(stmt, src)
  <2>1. c \in Named(stmt, src) \/ Anything \in Named(stmt, src)
    <3>1. \/ c \in Aliased(src, Named(stmt, src) \union {})
          \/ Anything \in Aliased(src, Named(stmt, src) \union {})
      BY <1>1 DEF Gives
    <3> QED BY <1>0, <3>1
  <2>2. c \in OutputsOf(stmt, src)
    BY <1>1, <2>1 DEF Named
  <2> QED BY <1>1, <2>2 DEF Has
<1>2. CASE Checked(src)
  <2>1. src.kind # "scope"
    BY <1>2 DEF Checked
  <2>2. c \in ColumnsMeant(src) \union HiddenColumns \/ Anything \in ColumnsMeant(src) \union HiddenColumns
    <3>1. \/ c \in Aliased(src, ColumnsMeant(src)) \union HiddenColumns
          \/ Anything \in Aliased(src, ColumnsMeant(src)) \union HiddenColumns
      BY <1>2, <2>1 DEF Gives
    <3> QED BY <1>0, <3>1
  <2>3. \A i \in Meant(src) : i \in DOMAIN Config.tables
    BY DEF Meant
  <2>4. Anything \notin ColumnsMeant(src) \union HiddenColumns
    <3>1. \A i \in Meant(src) : Anything \notin ColumnNames(Config.tables[i])
      BY <2>3, NamesAssumption DEF Config
    <3> QED BY <3>1, NamesAssumption DEF ColumnsMeant
  <2>5. PICK i \in Meant(src) : c \in ColumnNames(Config.tables[i])
    <3>1. c \in ColumnsMeant(src)
      BY <1>2, <2>2, <2>4
    <3> QED BY <3>1 DEF ColumnsMeant
  <2>6. PICK k \in DOMAIN tables : /\ tables[k].name = Config.tables[i].name
                                   /\ tables[k].schema = Config.tables[i].schema
    BY <1>2 DEF Held
  <2>7. PICK m \in DOMAIN Config.tables :
               /\ tables[k].schema = Config.tables[m].schema /\ tables[k].name = Config.tables[m].name
               /\ ColumnNames(tables[k]) = ColumnNames(Config.tables[m])
    BY SnapshotIs
  <2>8. m = i
    BY <2>3, <2>6, <2>7, NamesAssumption DEF Config
  <2>9. Answers(src, tables[k])
    BY <2>6 DEF Meant, Answers
  <2>10. PICK h \in DOMAIN Resolve(src, tables) : Resolve(src, tables)[h] = tables[k]
    <3>1. IsSequence(tables)
      BY SnapshotIs
    <3>2. k \in DOMAIN tables /\ Answers(src, tables[k])
      BY <2>6, <2>9
    <3> QED BY ONLY <3>1, <3>2, ResolveIs
  <2>11. c \in ColumnNames(Resolve(src, tables)[h])
    BY <2>5, <2>7, <2>8, <2>10
  <2> QED BY <1>2, <2>11 DEF Has
<1> QED BY <1>1, <1>2

\* What is reported of one reference.
MissOf(stmt, i, col, tables) ==
  IF col.table = "" THEN BareMiss(stmt, i, col, tables) ELSE QualifiedMiss(stmt, i, col, tables)

LEMMA ReportIs ==
  ASSUME NEW stmt, NEW tables
  PROVE  /\ \A miss : miss \in Verify(stmt, tables, TRUE).unknownColumns <=>
                        \E i \in DOMAIN stmt : \E col \in stmt[i].columns : miss \in MissOf(stmt, i, col, tables)
         /\ \A s \in AllSources(stmt) : Unknown(s, tables) => <<s.db, s.name>> \in Verify(stmt, tables, TRUE).unknownTables
         /\ (\A s \in AllSources(stmt) : ~Unknown(s, tables)) => Verify(stmt, tables, TRUE).unknownTables = {}
<1> DEFINE of(i) == UNION {MissOf(stmt, i, col, tables) : col \in stmt[i].columns}
           missing == {<<s.db, s.name>> : s \in {s \in AllSources(stmt) : Unknown(s, tables)}}
           misses == UNION {of(i) : i \in DOMAIN stmt}
           report == Verify(stmt, tables, TRUE)
<1>1. report = [unknownTables |-> missing, unknownColumns |-> misses]
  BY DEF Verify, AllSources, MissOf
<1>2. ASSUME NEW miss PROVE miss \in misses <=> \E i \in DOMAIN stmt : \E col \in stmt[i].columns : miss \in MissOf(stmt, i, col, tables)
  <2>1. \A i : miss \in of(i) <=> \E col \in stmt[i].columns : miss \in MissOf(stmt, i, col, tables)
    OBVIOUS
  <2> HIDE DEF of
  <2> QED BY <2>1
<1>3. /\ \A s \in AllSources(stmt) : Unknown(s, tables) => <<s.db, s.name>> \in missing
      /\ (\A s \in AllSources(stmt) : ~Unknown(s, tables)) => missing = {}
  OBVIOUS
<1> HIDE DEF missing, misses, report
<1>4. report.unknownColumns = misses /\ report.unknownTables = missing
  BY <1>1
<1> QED BY <1>2, <1>3, <1>4 DEF report

\* A statement's report is made when it is judged, and is of the stored snapshot.
VerifiedInv ==
  phase = "verified" =>
    /\ stored # None /\ judged.stmt \in Statements
    /\ judged.analysed \in BOOLEAN /\ judged.report = Verify(judged.stmt, stored.tables, judged.analysed)

LEMMA VerdictKept ==
  ASSUME VerifiedInv, [PipelineNext]_pipelineVars
  PROVE  VerifiedInv'
<1> SUFFICES ASSUME phase' = "verified"
             PROVE  /\ stored' # None /\ judged'.stmt \in Statements
                    /\ judged'.analysed \in BOOLEAN
                    /\ judged'.report = Verify(judged'.stmt, stored'.tables, judged'.analysed)
  BY DEF VerifiedInv, None
<1>1. CASE VerifyStatement
  <2>1. PICK stmt \in Statements : \E analysed \in BOOLEAN :
               judged' = [stmt |-> stmt, analysed |-> analysed, report |-> Verify(stmt, stored.tables, analysed)]
    BY <1>1 DEF VerifyStatement
  <2>4. PICK analysed \in BOOLEAN :
               judged' = [stmt |-> stmt, analysed |-> analysed, report |-> Verify(stmt, stored.tables, analysed)]
    BY <2>1
  <2>2. stored # None /\ stored' = stored
    BY <1>1 DEF VerifyStatement
  <2>3. judged'.stmt = stmt /\ judged'.analysed = analysed /\ judged'.report = Verify(stmt, stored.tables, analysed)
    BY <2>4
  <2> QED BY <2>2, <2>3
<1>2. CASE UNCHANGED pipelineVars
  BY <1>2 DEF VerifiedInv, pipelineVars
<1>3. CASE PipelineNext /\ ~VerifyStatement
  BY <1>3 DEF PipelineNext, Connect, ReadFails, ReadCatalog, ProbeSucceeds, ProbeFails, ProbeRefused, Probe, Store,
              SelectTables, Answered
<1> QED BY <1>1, <1>2, <1>3

LEMMA Verified == PipelineSpec => [](RefreshInv /\ VerifiedInv)
<1>1. PipelineInit => VerifiedInv
  BY DEF PipelineInit, VerifiedInv
<1> QED BY <1>1, VerdictKept, InitRefreshes, RefreshKeeps, PTL DEF PipelineSpec

\* The first case of Opaque a source can be.
LEMMA ClearSource ==
  ASSUME NEW stmt, NEW scope, NEW tables, ~Opaque(stmt, scope, tables), NEW src \in SourcesOf(scope)
  PROVE  /\ src.kind # "function" /\ ~(src.kind = "table" /\ ~Checked(src))
         /\ ~Unknown(src, tables) /\ ~Star(stmt, src)
BY DEF Opaque

LEMMA OneMiss ==
  ASSUME NEW a, NEW b, NEW misses, misses = {<<a, b>>}
  PROVE  \E miss \in misses : miss[2] = b
<1>1. <<a, b>> \in misses /\ <<a, b>>[2] = b
  OBVIOUS
<1> QED BY <1>1

\* A reference that no miss is reported of and the database does not resolve is
\* one the verifier is lenient about.
LEMMA MissOrLenient ==
  ASSUME source \in DOMAIN Sources, Shaped(stored.tables), NEW stmt \in Statements, NEW i \in DOMAIN stmt, NEW col,
         ~Resolves(stmt, i, col), ~Lenient(stmt, i, col)
  PROVE  \E miss \in MissOf(stmt, i, col, stored.tables) : miss[2] = col.name
<1> DEFINE tables == stored.tables
           chain == Chain(stmt, i)
           near == Nearest(stmt, chain, col.table)
           saw == NearestSeen(stmt, i, col.table)
<1>1. IsStatement(stmt) /\ chain \in Seq(DOMAIN stmt)
  BY StatementIs, ChainIs
<1>2. \A k \in DOMAIN chain : ~Opaque(stmt, stmt[chain[k]], tables) /\ chain[k] \in Seeing(stmt, i)
  BY DEF Lenient
<1>3. ASSUME NEW k \in DOMAIN chain, NEW src \in SourcesOf(stmt[chain[k]]) PROVE ~Elsewhere(src, tables)
  <2>1. src \in Around(stmt, i)
    BY DEF Around
  <2> QED BY <2>1 DEF Lenient, Elsewhere
<1>r. ASSUME NEW k \in DOMAIN chain, NEW src \in SourcesOf(stmt[chain[k]]) PROVE col.name \notin DOMAIN src.renames
  <2>1. src \in Around(stmt, i)
    BY DEF Around
  <2> QED BY <2>1 DEF Lenient, RenamedAway
<1>4. col.table # "" => near # <<>>
  BY DEF Lenient
<1>5. col.table = "" => col.name \notin stmt[i].aliases
  BY DEF Lenient
<1> HIDE DEF chain, tables
<1>6. ASSUME NEW k \in DOMAIN chain, NEW src \in SourcesOf(stmt[chain[k]])
      PROVE  /\ src.kind \in {"table", "scope", "function"} /\ src.kind # "function"
             /\ ~(src.kind = "table" /\ ~Checked(src)) /\ ~Unknown(src, tables) /\ ~Star(stmt, src)
             /\ Has(stmt, src, tables, col.name) => Gives(stmt, src, col.name)
  <2>1. chain[k] \in DOMAIN stmt
    BY <1>1
  <2>2. src.kind \in {"table", "scope", "function"}
    BY ONLY <1>1, <2>1, SourceIs
  <2>3. /\ src.kind # "function" /\ ~(src.kind = "table" /\ ~Checked(src))
        /\ ~Unknown(src, tables) /\ ~Star(stmt, src)
    BY <1>2, ClearSource
  <2>4. Has(stmt, src, tables, col.name) => Gives(stmt, src, col.name)
    BY <1>3, <1>r, HadIsGiven DEF tables
  <2> QED BY <2>2, <2>3, <2>4
<1>7. CASE col.table # ""
  <2> DEFINE src == stmt[near[1]].sources[col.table]
  <2>1. saw # <<>> /\ saw[1] = near[1]
    BY <1>1, <1>2, <1>4, <1>7, FirstSeen DEF chain
  <2>2. ~Gives(stmt, src, col.name)
    BY <1>7, <2>1 DEF Resolves, NearestSeen, chain
  <2>3. PICK m \in DOMAIN chain : near[1] = chain[m] /\ col.table \in DOMAIN stmt[chain[m]].sources
    BY <1>1, <1>4, <1>7, NearestIs DEF chain
  <2>4. src \in SourcesOf(stmt[chain[m]])
    BY <2>3 DEF SourcesOf
  <2>5. near # <<>>
    BY <1>4, <1>7
  <2>6. QualifiedMiss(stmt, i, col, tables) =
          IF Has(stmt, src, tables, col.name) \/ Star(stmt, src) THEN {}
          ELSE IF src.kind = "scope" THEN {<<col.table, col.name>>}
          ELSE IF Checked(src) /\ ~Unknown(src, tables) THEN {<<Resolve(src, tables)[1].name, col.name>>}
          ELSE {}
    BY <2>5 DEF QualifiedMiss, chain
  <2> HIDE DEF src, near, saw
  <2>7. \/ QualifiedMiss(stmt, i, col, tables) = {<<col.table, col.name>>}
        \/ QualifiedMiss(stmt, i, col, tables) = {<<Resolve(src, tables)[1].name, col.name>>}
    BY <1>6, <2>2, <2>4, <2>6
  <2>8. \E miss \in QualifiedMiss(stmt, i, col, tables) : miss[2] = col.name
    BY <2>7, OneMiss
  <2> QED BY <1>7, <2>8 DEF MissOf, tables
<1>8. CASE col.table = ""
  <2>1. ASSUME NEW k \in DOMAIN chain, NEW src \in SourcesOf(stmt[chain[k]]) PROVE ~Has(stmt, src, tables, col.name)
    <3>1. ~Gives(stmt, src, col.name)
      BY <1>2, <1>8 DEF Resolves
    <3> QED BY <1>6, <3>1
  <2>2. BareMiss(stmt, i, col, tables) = {<<"", col.name>>}
    BY <1>2, <1>5, <1>8, <2>1 DEF BareMiss, chain
  <2>3. \E miss \in BareMiss(stmt, i, col, tables) : miss[2] = col.name
    BY <2>2, OneMiss
  <2> QED BY <1>8, <2>3 DEF MissOf, tables
<1> QED BY <1>7, <1>8

\* What the database rejects has been reported (sql_verify.py), but for what
\* the verifier cannot know.
THEOREM NothingSlipsThrough == PipelineSpec => []MissesAreExplained
<1>1. ASSUME RefreshInv, VerifiedInv PROVE MissesAreExplained
  <2> SUFFICES ASSUME phase = "verified", judged.analysed
               PROVE  /\ \A s \in AllSources(judged.stmt) : (Checked(s) /\ Meant(s) = {}) =>
                            \/ <<s.db, s.name>> \in judged.report.unknownTables
                            \/ s.db = "" /\ Resolve(s, stored.tables) # <<>>
                      /\ \A r \in Refs(judged.stmt) : ~Resolves(judged.stmt, r[1], r[2]) =>
                            \/ \E miss \in judged.report.unknownColumns : miss[2] = r[2].name
                            \/ Lenient(judged.stmt, r[1], r[2])
    BY DEF MissesAreExplained
  <2> DEFINE stmt == judged.stmt
             tables == stored.tables
  <2>1. source \in DOMAIN Sources /\ Shaped(tables) /\ stmt \in Statements /\ judged.report = Verify(stmt, tables, TRUE)
    BY <1>1 DEF RefreshInv, VerifiedInv, PipelineTypeOK, Refreshed
  <2> HIDE DEF stmt
  <2>2. ASSUME NEW s \in AllSources(stmt), Checked(s), Meant(s) = {}
        PROVE  \/ <<s.db, s.name>> \in Verify(stmt, tables, TRUE).unknownTables
               \/ s.db = "" /\ Resolve(s, tables) # <<>>
    <3>1. CASE Resolve(s, tables) = <<>>
      <4>1. Unknown(s, tables)
        BY <2>2, <3>1 DEF Unknown
      <4> QED BY <4>1, ReportIs
    <3>2. CASE Resolve(s, tables) # <<>> /\ s.db # ""
      <4>1. IsSequence(tables)
        BY <2>1, SnapshotIs
      <4>2. PICK j \in DOMAIN tables : Answers(s, tables[j])
        <5> HIDE DEF tables
        <5>1. 1 \in DOMAIN Resolve(s, tables)
          <6> DEFINE hits == Resolve(s, tables)
          <6>1. Len(hits) \in Nat /\ DOMAIN hits = 1..Len(hits) /\ (hits = <<>> <=> Len(hits) = 0)
            BY <4>1, ResolveIs
          <6>2. hits # <<>>
            BY <3>2
          <6> HIDE DEF hits
          <6>3. 1 \in DOMAIN hits
            BY <6>1, <6>2
          <6> QED BY <6>3 DEF hits
        <5> QED BY <4>1, <5>1, ResolveIs
      <4>3. PICK m \in DOMAIN Config.tables :
                   tables[j].schema = Config.tables[m].schema /\ tables[j].name = Config.tables[m].name
        BY <2>1, SnapshotIs
      <4>4. m \in Meant(s)
        BY <3>2, <4>2, <4>3 DEF Meant, Answers
      <4> QED BY <2>2, <4>4
    <3> QED BY <3>1, <3>2
  <2>3. ASSUME NEW r \in Refs(stmt), ~Resolves(stmt, r[1], r[2]), ~Lenient(stmt, r[1], r[2])
        PROVE  \E miss \in Verify(stmt, tables, TRUE).unknownColumns : miss[2] = r[2].name
    <3>1. PICK i \in DOMAIN stmt : \E col \in stmt[i].columns : r = <<i, col>>
      BY DEF Refs
    <3>2. PICK col \in stmt[i].columns : r = <<i, col>>
      BY <3>1
    <3>3. PICK miss \in MissOf(stmt, i, col, tables) : miss[2] = col.name
      BY <2>1, <2>3, <3>2, MissOrLenient
    <3>4. miss \in Verify(stmt, tables, TRUE).unknownColumns
      BY <3>3, ReportIs
    <3> QED BY <3>2, <3>3, <3>4
  <2> QED BY <2>1, <2>2, <2>3 DEF stmt
<1> QED BY <1>1, Verified, PTL

\* Nothing is reported of a reference the database resolves, in a statement that
\* reads tables of the snapshot and uses their columns only.
LEMMA ResolvedIsNoMiss ==
  ASSUME source \in DOMAIN Sources, Shaped(stored.tables), NEW stmt \in Statements, NEW i \in DOMAIN stmt,
         NEW col \in stmt[i].columns, Resolves(stmt, i, col), ~Outside(stmt), ~BeyondTheCatalog(stmt),
         ~AliasListed(stmt)
  PROVE  MissOf(stmt, i, col, stored.tables) = {}
<1> DEFINE tables == stored.tables
           chain == Chain(stmt, i)
           near == Nearest(stmt, chain, col.table)
           saw == NearestSeen(stmt, i, col.table)
<1>1. IsStatement(stmt) /\ chain \in Seq(DOMAIN stmt)
  BY StatementIs, ChainIs
<1>2. col.name \notin HiddenColumns /\ (col.table = "" => \A k \in DOMAIN stmt : col.name \notin DOMAIN stmt[k].sources)
  <2>1. <<i, col>> \in Refs(stmt)
    <3>1. <<i, col>> \in {<<i, c>> : c \in stmt[i].columns}
      OBVIOUS
    <3> QED BY <3>1 DEF Refs
  <2> QED BY <2>1 DEF BeyondTheCatalog
<1>r. ASSUME NEW k \in DOMAIN chain, NEW src \in SourcesOf(stmt[chain[k]]), NEW n \in DOMAIN src.renames
      PROVE  src.renames[n] # col.name
  <2>1. <<i, col>> \in Refs(stmt)
    <3>1. <<i, col>> \in {<<i, c>> : c \in stmt[i].columns}
      OBVIOUS
    <3> QED BY <3>1 DEF Refs
  <2>2. src \in Around(stmt, i)
    BY DEF Around
  <2> QED BY <2>1, <2>2 DEF AliasListed, NamedByList
<1>3. ASSUME NEW m \in DOMAIN chain, NEW k, k = chain[m], NEW src \in SourcesOf(stmt[k]), Gives(stmt, src, col.name)
      PROVE  \/ Has(stmt, src, tables, col.name) \/ Star(stmt, src)
             \/ src.kind = "function" \/ (src.kind = "table" /\ ~Checked(src))
  <2>0. k \in DOMAIN stmt
    BY <1>1, <1>3
  <2>1. src.kind \in {"table", "scope", "function"} /\ (src.kind = "scope" => src.scope \in DOMAIN stmt)
    BY ONLY <1>1, <1>3, <2>0, SourceIs
  <2>2. src.kind = "scope" => Anything \notin OutputsOf(stmt, src)
    BY <1>1, <2>1 DEF IsStatement, OutputsOf
  <2>3. src \in AllSources(stmt)
    BY <2>0 DEF AllSources
  <2>5. \A n \in DOMAIN src.renames : src.renames[n] # col.name /\ src.renames[n] # Anything
    <3>1. \A n \in DOMAIN src.renames : src.renames[n] # Anything
      BY <1>1, <2>0 DEF IsStatement
    <3> QED BY <1>3, <1>r, <3>1
  <2>4. Checked(src) => Held(src, tables)
    BY <2>3 DEF Outside, Held
  <2> HIDE DEF tables
  <2> QED BY <1>2, <1>3, <2>1, <2>2, <2>4, <2>5, GivenIsHad DEF tables
<1> HIDE DEF chain, tables
<1>4. CASE col.table # ""
  <2> DEFINE src == stmt[near[1]].sources[col.table]
  <2>1. saw # <<>> /\ Gives(stmt, stmt[saw[1]].sources[col.table], col.name)
    BY <1>4 DEF Resolves, NearestSeen, chain
  <2>2. near # <<>> /\ saw[1] = near[1]
    BY <1>1, <2>1, FirstSeen DEF chain
  <2>3. PICK m \in DOMAIN chain : near[1] = chain[m] /\ col.table \in DOMAIN stmt[chain[m]].sources
    BY <1>1, <2>2, NearestIs DEF chain
  <2>4. src \in SourcesOf(stmt[chain[m]]) /\ chain[m] \in DOMAIN stmt
    BY <1>1, <2>3 DEF SourcesOf
  <2>5. QualifiedMiss(stmt, i, col, tables) =
          IF Has(stmt, src, tables, col.name) \/ Star(stmt, src) THEN {}
          ELSE IF src.kind = "scope" THEN {<<col.table, col.name>>}
          ELSE IF Checked(src) /\ ~Unknown(src, tables) THEN {<<Resolve(src, tables)[1].name, col.name>>}
          ELSE {}
    BY <2>2 DEF QualifiedMiss, chain
  <2>6. Gives(stmt, src, col.name)
    BY <2>1, <2>2
  <2> HIDE DEF src, near, saw
  <2>7. \/ Has(stmt, src, tables, col.name) \/ Star(stmt, src)
        \/ src.kind = "function" \/ (src.kind = "table" /\ ~Checked(src))
    BY <1>3, <2>3, <2>4, <2>6
  <2>8. Checked(src) => src.kind = "table"
    BY DEF Checked
  <2>9. QualifiedMiss(stmt, i, col, tables) = {}
    BY <2>5, <2>7, <2>8
  <2> QED BY <1>4, <2>9 DEF MissOf, tables
<1>5. CASE col.table = ""
  <2>1. \/ col.name \in stmt[i].aliases
        \/ \E k \in DOMAIN chain : \E src \in SourcesOf(stmt[chain[k]]) : Gives(stmt, src, col.name)
    <3>1. \/ col.name \in stmt[i].aliases
          \/ \E k \in Seeing(stmt, i) : \/ col.name \in DOMAIN stmt[k].sources
                                        \/ \E src \in SourcesOf(stmt[k]) : Gives(stmt, src, col.name)
      BY <1>5 DEF Resolves
    <3>2. \A k \in Seeing(stmt, i) : k \in DOMAIN stmt /\ \E m \in DOMAIN chain : k = chain[m]
      BY <1>1 DEF Seeing, chain
    <3> QED BY <1>2, <1>5, <3>1, <3>2
  <2>2. ASSUME NEW k \in DOMAIN chain, NEW src \in SourcesOf(stmt[chain[k]]), Gives(stmt, src, col.name)
        PROVE  Opaque(stmt, stmt[chain[k]], tables) \/ Has(stmt, src, tables, col.name)
    <3>1. chain[k] \in DOMAIN stmt
      BY <1>1
    <3>2. \/ Has(stmt, src, tables, col.name) \/ Star(stmt, src)
          \/ src.kind = "function" \/ (src.kind = "table" /\ ~Checked(src))
      BY <1>3, <2>2, <3>1
    <3> QED BY <3>2 DEF Opaque
  <2>3. BareMiss(stmt, i, col, tables) = {}
    BY <2>1, <2>2 DEF BareMiss, chain
  <2> QED BY <1>5, <2>3 DEF MissOf, tables
<1> QED BY <1>4, <1>5

\* The entry of a bare name is a table of that name.
LEMMA BareEntry ==
  ASSUME NEW tables, IsSequence(tables), NEW n, NEW k \in DOMAIN tables, tables[k].name = n
  PROVE  \E j \in DOMAIN tables : Lookup(tables)[<<n>>] = tables[j] /\ tables[j].name = n
<1> DEFINE len == Len(tables)
           hits == {i \in DOMAIN tables : <<n>> \in NamesOf(tables[i])}
           last == CHOOSE i \in DOMAIN tables :
                     <<n>> \in NamesOf(tables[i]) /\ \A j \in DOMAIN tables : <<n>> \in NamesOf(tables[j]) => j <= i
           back == {len + 1 - i : i \in hits}
<1>1. len \in Nat /\ DOMAIN tables = 1..len
  BY DEF IsSequence
<1>2. k \in hits /\ hits \subseteq 1..len
  BY <1>1 DEF NamesOf
<1>3. PICK b \in back : \A c \in back : b <= c
  <2>1. \A i \in hits : len + 1 - i \in 1..len
    BY <1>1
  <2>2. back \subseteq 1..len /\ back # {}
    BY <1>2, <2>1
  <2> HIDE DEF back
  <2> QED BY <1>1, <2>2, LeastNumber
<1>4. PICK m \in hits : b = len + 1 - m
  OBVIOUS
<1>5. \A j \in hits : j <= m
  <2>1. ASSUME NEW j \in hits PROVE j <= m
    <3>1. b <= len + 1 - j
      BY <1>3
    <3>2. j \in Int /\ m \in Int
      BY <1>1
    <3> QED BY <1>1, <1>4, <3>1, <3>2
  <2> QED BY <2>1
<1>6. last \in DOMAIN tables /\ <<n>> \in NamesOf(tables[last])
  <2>1. \E i \in DOMAIN tables : <<n>> \in NamesOf(tables[i]) /\ \A j \in DOMAIN tables : <<n>> \in NamesOf(tables[j]) => j <= i
    BY <1>4, <1>5
  <2> QED BY <2>1
<1>7. <<n>> \in UNION {NamesOf(tables[i]) : i \in DOMAIN tables}
  BY <1>6
<1>8. Lookup(tables)[<<n>>] = tables[last]
  BY <1>7 DEF Lookup
<1> HIDE DEF last
<1>9. tables[last].name = n
  <2>1. <<n>> = <<tables[last].name>> \/ <<n>> = Qualified(tables[last])
    BY <1>6 DEF NamesOf
  <2>2. \A a, b1, c : <<a>> # <<b1, c>>
    OBVIOUS
  <2> QED BY <2>1, <2>2 DEF Qualified
<1> QED BY <1>6, <1>8, <1>9

\* The alias of a derived table, or the name of a table the statement reads.
InStatement(n, stmt, tables) ==
  \/ \E k \in DOMAIN stmt : \E a \in DOMAIN stmt[k].sources : stmt[k].sources[a].kind = "scope" /\ n = a
  \/ \E s \in AllSources(stmt) : Checked(s) /\ \E k \in DOMAIN Resolve(s, tables) : n = Resolve(s, tables)[k].name

\* A reported column carries such a name or none.
LEMMA MissNames ==
  ASSUME NEW tables, IsSequence(tables), NEW stmt \in Statements, NEW i \in DOMAIN stmt, NEW col,
         NEW miss \in MissOf(stmt, i, col, tables)
  PROVE  miss[1] = "" \/ InStatement(miss[1], stmt, tables)
<1> DEFINE chain == Chain(stmt, i)
           near == Nearest(stmt, chain, col.table)
           src == stmt[near[1]].sources[col.table]
<1>1. IsStatement(stmt) /\ chain \in Seq(DOMAIN stmt)
  BY StatementIs, ChainIs
<1>2. CASE col.table = ""
  <2>1. miss = <<"", col.name>>
    BY <1>2 DEF MissOf, BareMiss
  <2> QED BY <2>1
<1>3. CASE col.table # ""
  <2>1. /\ near # <<>>
        /\ \/ src.kind = "scope" /\ miss = <<col.table, col.name>>
           \/ Checked(src) /\ ~Unknown(src, tables) /\ miss = <<Resolve(src, tables)[1].name, col.name>>
    BY <1>3 DEF MissOf, QualifiedMiss
  <2>2. PICK m \in DOMAIN chain : near[1] = chain[m] /\ col.table \in DOMAIN stmt[chain[m]].sources
    BY <1>1, <2>1, NearestIs
  <2> HIDE DEF chain
  <2>3. near[1] \in DOMAIN stmt /\ col.table \in DOMAIN stmt[near[1]].sources
    BY <1>1, <2>2
  <2> HIDE DEF near
  <2>4. src \in AllSources(stmt)
    BY <2>3 DEF AllSources, SourcesOf
  <2>5. CASE src.kind = "scope" /\ miss = <<col.table, col.name>>
    BY <2>3, <2>5 DEF InStatement
  <2>6. CASE Checked(src) /\ ~Unknown(src, tables) /\ miss = <<Resolve(src, tables)[1].name, col.name>>
    <3> DEFINE hits == Resolve(src, tables)
    <3>1. Len(hits) \in Nat /\ DOMAIN hits = 1..Len(hits) /\ (hits = <<>> <=> Len(hits) = 0)
      BY ResolveIs
    <3>2. hits # <<>>
      BY <2>6 DEF Unknown
    <3> HIDE DEF hits
    <3>3. 1 \in DOMAIN hits
      BY <3>1, <3>2
    <3>4. Checked(src) /\ miss[1] = hits[1].name
      BY <2>6 DEF hits
    <3> HIDE DEF src
    <3> QED BY <2>4, <3>3, <3>4 DEF hits, InStatement
  <2> QED BY <2>1, <2>5, <2>6
<1> QED BY <1>2, <1>3

\* A statement the database accepts is not sent back (sql_verify.py:10-13), and a
\* correction writes out no table the statement has nothing to do with.
THEOREM NobodyIsCorrectedForNothing == PipelineSpec => []NoFalseAlarm
<1>1. ASSUME RefreshInv, VerifiedInv, phase = "verified"
      PROVE  /\ DatabaseAccepts(judged.stmt) /\ ~Outside(judged.stmt) /\ ~BeyondTheCatalog(judged.stmt)
                  /\ ~AliasListed(judged.stmt) => Clean(judged.report)
             /\ \A t \in Shown(judged.report, stored.tables) : InStatement(t.name, judged.stmt, stored.tables)
  <2> DEFINE stmt == judged.stmt
             tables == stored.tables
             report == Verify(stmt, tables, TRUE)
  <2>1. /\ source \in DOMAIN Sources /\ Shaped(tables) /\ stmt \in Statements
        /\ judged.analysed => judged.report = report
        /\ ~judged.analysed => judged.report = NothingReported
    BY <1>1 DEF RefreshInv, VerifiedInv, PipelineTypeOK, Refreshed, Verify
  <2> HIDE DEF stmt
  <2>2. IsSequence(tables) /\ \A k \in DOMAIN tables : tables[k].name # ""
    <3>1. ASSUME NEW k \in DOMAIN tables PROVE tables[k].name # ""
      <4>1. PICK m \in DOMAIN Config.tables : tables[k].name = Config.tables[m].name
        BY <2>1, SnapshotIs
      <4> QED BY <2>1, <4>1, NamesAssumption DEF Config
    <3> QED BY <2>1, <3>1, SnapshotIs
  <2>3. ASSUME DatabaseAccepts(stmt), ~Outside(stmt), ~BeyondTheCatalog(stmt), ~AliasListed(stmt) PROVE Clean(report)
    <3>1. ASSUME NEW s \in AllSources(stmt), Unknown(s, tables) PROVE FALSE
      <4>1. Checked(s) /\ Resolve(s, tables) = <<>>
        BY <3>1 DEF Unknown
      <4>2. PICK m \in Meant(s) : TRUE
        BY <2>3, <4>1 DEF DatabaseAccepts
      <4>3. PICK k \in DOMAIN tables : tables[k].name = Config.tables[m].name /\ tables[k].schema = Config.tables[m].schema
        BY <2>3, <4>1 DEF Outside
      <4>4. Answers(s, tables[k])
        BY <4>2, <4>3 DEF Meant, Answers
      <4> DEFINE hits == Resolve(s, tables)
      <4>5. /\ Len(hits) \in Nat /\ DOMAIN hits = 1..Len(hits) /\ (hits = <<>> <=> Len(hits) = 0)
            /\ \E h \in DOMAIN hits : hits[h] = tables[k]
        <5>1. k \in DOMAIN tables /\ Answers(s, tables[k]) /\ IsSequence(tables)
          BY <2>2, <4>3, <4>4
        <5> HIDE DEF tables
        <5> QED BY <5>1, ResolveIs
      <4>6. hits = <<>>
        BY <4>1
      <4> HIDE DEF hits
      <4> QED BY <4>5, <4>6
    <3>2. report.unknownTables = {}
      BY <3>1, ReportIs
    <3>3. ASSUME NEW i \in DOMAIN stmt, NEW col \in stmt[i].columns PROVE MissOf(stmt, i, col, tables) = {}
      <4>1. Resolves(stmt, i, col)
        <5>1. <<i, col>> \in Refs(stmt)
          <6>1. <<i, col>> \in {<<i, c>> : c \in stmt[i].columns}
            OBVIOUS
          <6> QED BY <6>1 DEF Refs
        <5> QED BY <2>3, <5>1 DEF DatabaseAccepts
      <4> QED BY <2>1, <2>3, <4>1, ResolvedIsNoMiss
    <3>4. \A miss : miss \notin report.unknownColumns
      BY <3>3, ReportIs
    <3> QED BY <3>2, <3>4 DEF Clean
  <2>4. ASSUME NEW t \in Shown(report, tables)
        PROVE  InStatement(t.name, stmt, tables)
    <3>1. PICK ref \in report.unknownColumns : /\ \E k \in DOMAIN tables : tables[k].name = ref[1]
                                              /\ t = Lookup(tables)[<<ref[1]>>]
      BY DEF Shown
    <3>2. t.name = ref[1] /\ ref[1] # ""
      <4> DEFINE n == ref[1]
      <4>1. PICK k \in DOMAIN tables : tables[k].name = n
        BY <3>1
      <4>2. t = Lookup(tables)[<<n>>]
        BY <3>1
      <4> HIDE DEF n, tables
      <4>3. IsSequence(tables)
        BY <2>2
      <4>4. \E j \in DOMAIN tables : Lookup(tables)[<<n>>] = tables[j] /\ tables[j].name = n
        BY ONLY <4>1, <4>3, BareEntry
      <4> QED BY <2>2, <4>2, <4>4 DEF n
    <3>3. PICK i \in DOMAIN stmt : \E col \in stmt[i].columns : ref \in MissOf(stmt, i, col, tables)
      BY <3>1, ReportIs
    <3>4. ref[1] = "" \/ InStatement(ref[1], stmt, tables)
      <4>1. PICK col \in stmt[i].columns : ref \in MissOf(stmt, i, col, tables)
        BY <3>3
      <4> HIDE DEF tables
      <4>2. IsSequence(tables) /\ stmt \in Statements /\ i \in DOMAIN stmt /\ ref \in MissOf(stmt, i, col, tables)
        BY <2>1, <2>2, <3>3, <4>1
      <4> QED BY ONLY <4>2, MissNames
    <3> QED BY <3>2, <3>4
  <2>5. CASE ~judged.analysed
    <3>1. judged.report.unknownTables = {} /\ judged.report.unknownColumns = {}
      BY <2>1, <2>5 DEF NothingReported
    <3>2. Clean(judged.report)
      BY <3>1 DEF Clean
    <3>3. Shown(judged.report, stored.tables) = {}
      BY <3>1 DEF Shown
    <3> QED BY <3>2, <3>3
  <2>6. CASE judged.analysed
    <3> HIDE DEF report
    <3> QED BY <2>1, <2>3, <2>4, <2>6 DEF stmt
  <2> QED BY <2>5, <2>6
<1>2. ASSUME RefreshInv, VerifiedInv PROVE NoFalseAlarm
  <2> SUFFICES ASSUME phase = "verified" PROVE NoFalseAlarm
    BY DEF NoFalseAlarm
  <2> DEFINE stmt == judged.stmt
             names(s) == {Resolve(s, stored.tables)[k].name : k \in DOMAIN Resolve(s, stored.tables)}
             aliases(i) == {a \in DOMAIN stmt[i].sources : stmt[i].sources[a].kind = "scope"}
             read == UNION {names(s) : s \in {s \in AllSources(stmt) : Checked(s)}}
             derived == UNION {aliases(i) : i \in DOMAIN stmt}
  <2>1. \A n : (\E s \in AllSources(stmt) : Checked(s) /\ n \in names(s)) => n \in read
    <3> HIDE DEF names
    <3> QED OBVIOUS
  <2>2. \A n : (\E i \in DOMAIN stmt : n \in aliases(i)) => n \in derived
    <3> HIDE DEF aliases
    <3> QED OBVIOUS
  <2>3. \A t \in Shown(judged.report, stored.tables) :
          \/ \E s \in AllSources(stmt) : Checked(s) /\ t.name \in names(s)
          \/ \E i \in DOMAIN stmt : t.name \in aliases(i)
    BY <1>1, <1>2 DEF InStatement
  <2>4. /\ DatabaseAccepts(stmt) /\ ~Outside(stmt) /\ ~BeyondTheCatalog(stmt) /\ ~AliasListed(stmt) =>
             Clean(judged.report)
        /\ \A t \in Shown(judged.report, stored.tables) : t.name \in read \union derived
    <3>1. \A t \in Shown(judged.report, stored.tables) : t.name \in read \/ t.name \in derived
      <4> HIDE DEF read, derived, names, aliases
      <4> QED BY <2>1, <2>2, <2>3
    <3> HIDE DEF read, derived
    <3> QED BY <1>1, <1>2, <3>1
  <2> QED BY <2>4 DEF NoFalseAlarm
<1> QED BY <1>2, Verified, PTL

-----------------------------------------------------------------------------
(* Recursion and sums.                                                      *)

\* What holds at 0 and carries upwards holds up to n.
LEMMA Upwards ==
  ASSUME NEW n \in Nat, NEW good, 0 \in good, \A k \in 1..n : k - 1 \in good => k \in good
  PROVE  \A k \in 0..n : k \in good
<1> DEFINE bad == {k \in 1..n : k \notin good}
<1>1. bad = {}
  <2> SUFFICES ASSUME bad # {} PROVE FALSE
    OBVIOUS
  <2>1. PICK m \in bad : \A k \in bad : m <= k
    BY LeastNumber
  <2>2. m \in 1..n /\ m - 1 \in 0..n /\ m - 1 \notin bad
    BY <2>1
  <2>3. m - 1 \in good
    BY <2>2
  <2> QED BY <2>2, <2>3
<1>2. \A k \in 0..n : k = 0 \/ k \in 1..n
  OBVIOUS
<1> QED BY <1>1, <1>2

\* f solves a recursion whose steps are those of step.
Solves(n, S, base, step, f) ==
  f \in [0..n -> S] /\ f[0] = base /\ \A k \in 1..n : f[k] = step[k][f[k - 1]]

\* A recursion whose steps stay in a set has a solution.
LEMMA Recursion ==
  ASSUME NEW n \in Nat, NEW S, NEW base \in S, NEW step, \A k \in 1..n, x \in S : step[k][x] \in S
  PROVE  \E f : Solves(n, S, base, step, f)
<1> DEFINE good == {m \in 0..n : \E f : Solves(m, S, base, step, f)}
<1>1. 0 \in good
  <2>1. 0..0 = {0} /\ 1..0 = {}
    OBVIOUS
  <2>2. Solves(0, S, base, step, [i \in {0} |-> base])
    BY <2>1 DEF Solves
  <2> QED BY <2>2
<1>2. ASSUME NEW m \in 1..n, m - 1 \in good PROVE m \in good
  <2>1. PICK f : Solves(m - 1, S, base, step, f)
    BY <1>2
  <2> DEFINE last == step[m][f[m - 1]]
             g == [i \in 0..m |-> IF i = m THEN last ELSE f[i]]
  <2>2. last \in S
    <3>1. m - 1 \in 0..(m - 1) /\ f \in [0..(m - 1) -> S]
      BY <2>1 DEF Solves
    <3>2. f[m - 1] \in S
      BY <3>1
    <3> QED BY <3>2
  <2>3. g[m] = last /\ \A i \in 0..(m - 1) : g[i] = f[i]
    OBVIOUS
  <2>4. g \in [0..m -> S]
    <3>1. \A i \in 0..m : i # m => i \in 0..(m - 1)
      OBVIOUS
    <3> QED BY <2>1, <2>2, <3>1 DEF Solves
  <2> HIDE DEF g
  <2>5. g[0] = base
    BY <2>1, <2>3 DEF Solves
  <2>6. ASSUME NEW k \in 1..m PROVE g[k] = step[k][g[k - 1]]
    <3>1. CASE k = m
      BY <2>3, <3>1
    <3>2. CASE k # m
      <4>1. k \in 1..(m - 1) /\ k \in 0..(m - 1) /\ k - 1 \in 0..(m - 1)
        BY <3>2
      <4> QED BY <2>1, <2>3, <4>1 DEF Solves
    <3> QED BY <3>1, <3>2
  <2>7. Solves(m, S, base, step, g)
    BY <2>4, <2>5, <2>6 DEF Solves
  <2> QED BY <2>7
<1> HIDE DEF good
<1>3. n \in good
  <2>1. n \in Nat /\ n \in 0..n
    OBVIOUS
  <2> QED BY ONLY <2>1, <1>1, <1>2, Upwards
<1> QED BY <1>3 DEF good

\* What Total sums with, and what it is defined by.
IsSum(a, n, f) == f = [k \in 0..n |-> IF k = 0 THEN 0 ELSE f[k - 1] + a[k]]

LEMMA SumsExist ==
  ASSUME NEW n \in Nat, NEW a, \A k \in 1..n : a[k] \in Nat
  PROVE  \E f \in [0..n -> Nat] : IsSum(a, n, f)
<1> DEFINE step == [k \in 1..n |-> [x \in Nat |-> x + a[k]]]
<1>2. \A k \in 1..n, x \in Nat : step[k][x] = x + a[k] /\ step[k][x] \in Nat
  OBVIOUS
<1> HIDE DEF step
<1>3. PICK f : Solves(n, Nat, 0, step, f)
  <2>1. 0 \in Nat
    OBVIOUS
  <2> QED BY ONLY n \in Nat, <1>2, <2>1, Recursion
<1>4. ASSUME NEW k \in 0..n PROVE f[k] = IF k = 0 THEN 0 ELSE f[k - 1] + a[k]
  <2>1. CASE k = 0
    BY <1>3, <2>1 DEF Solves
  <2>2. CASE k # 0
    <3>1. k \in 1..n /\ k - 1 \in 0..n
      BY <2>2
    <3> QED BY <1>2, <1>3, <2>2, <3>1 DEF Solves
  <2> QED BY <2>1, <2>2
<1>5. IsSum(a, n, f)
  <2>1. f = [k \in 0..n |-> f[k]]
    BY <1>3 DEF Solves
  <2> QED BY <1>4, <2>1 DEF IsSum
<1> QED BY <1>3, <1>5 DEF Solves

LEMMA SumUnfolds ==
  ASSUME NEW n \in Nat, NEW a, NEW f, IsSum(a, n, f)
  PROVE  f[0] = 0 /\ \A k \in 1..n : f[k] = f[k - 1] + a[k]
<1>1. \A k \in 0..n : f[k] = IF k = 0 THEN 0 ELSE f[k - 1] + a[k]
  BY DEF IsSum
<1>2. 0 \in 0..n /\ \A k \in 1..n : k \in 0..n /\ k # 0
  OBVIOUS
<1> QED BY <1>1, <1>2

LEMMA SumsAgree ==
  ASSUME NEW m \in Nat, NEW n \in Nat, m <= n, NEW a, NEW f, NEW g, IsSum(a, m, f), IsSum(a, n, g)
  PROVE  f[m] = g[m]
<1> DEFINE good == {k \in 0..m : f[k] = g[k]}
<1>1. 0 \in good
  BY SumUnfolds
<1>2. ASSUME NEW k \in 1..m, k - 1 \in good PROVE k \in good
  <2>1. f[k] = f[k - 1] + a[k] /\ g[k] = g[k - 1] + a[k]
    BY SumUnfolds
  <2> QED BY <1>2, <2>1
<1> HIDE DEF good
<1>3. m \in good
  <2>1. m \in Nat /\ m \in 0..m
    OBVIOUS
  <2> QED BY ONLY <2>1, <1>1, <1>2, Upwards
<1> QED BY <1>3 DEF good

\* A sum, taken one number after the other.
LEMMA TotalUnfolds ==
  ASSUME NEW n \in Nat, NEW a, \A k \in 1..n : a[k] \in Nat
  PROVE  Total(a, 0) = 0 /\ \A k \in 1..n : /\ Total(a, k - 1) \in Nat /\ Total(a, k) \in Nat
                                              /\ Total(a, k) = Total(a, k - 1) + a[k]
<1> DEFINE chosen(k) == CHOOSE f : IsSum(a, k, f)
<1>1. ASSUME NEW k \in 0..n PROVE IsSum(a, k, chosen(k)) /\ Total(a, k) = chosen(k)[k]
  <2>1. \E f : IsSum(a, k, f)
    BY SumsExist
  <2> QED BY <2>1 DEF Total, IsSum
<1>2. PICK f \in [0..n -> Nat] : IsSum(a, n, f)
  BY SumsExist
<1> HIDE DEF chosen
<1>3. ASSUME NEW k \in 0..n PROVE Total(a, k) = f[k]
  <2>1. chosen(k)[k] = f[k]
    BY <1>1, <1>2, SumsAgree
  <2> QED BY <1>1, <2>1
<1>4. f[0] = 0 /\ \A k \in 1..n : f[k] = f[k - 1] + a[k]
  BY <1>2, SumUnfolds
<1>5. Total(a, 0) = 0
  BY <1>3, <1>4
<1>6. ASSUME NEW k \in 1..n
      PROVE  Total(a, k - 1) \in Nat /\ Total(a, k) \in Nat /\ Total(a, k) = Total(a, k - 1) + a[k]
  <2>1. k \in 0..n /\ k - 1 \in 0..n
    OBVIOUS
  <2>2. Total(a, k) = f[k] /\ Total(a, k - 1) = f[k - 1] /\ f[k] \in Nat /\ f[k - 1] \in Nat
    BY <1>2, <1>3, <2>1
  <2> QED BY <1>4, <2>2
<1> QED BY <1>5, <1>6

LEMMA TotalIsNat ==
  ASSUME NEW n \in Nat, NEW a, \A k \in 1..n : a[k] \in Nat
  PROVE  Total(a, n) \in Nat
<1>1. CASE n = 0
  BY <1>1, TotalUnfolds
<1>2. CASE n # 0
  <2>1. n \in 1..n
    BY <1>2
  <2> QED BY <2>1, TotalUnfolds
<1> QED BY <1>1, <1>2

\* A sum of no larger numbers is no larger.
LEMMA TotalGrows ==
  ASSUME NEW n \in Nat, NEW a, NEW b, \A k \in 1..n : a[k] \in Nat /\ b[k] \in Nat /\ a[k] <= b[k]
  PROVE  Total(a, n) <= Total(b, n)
<1> DEFINE good == {k \in 0..n : Total(a, k) <= Total(b, k)}
<1>1. 0 \in good
  <2>1. Total(a, 0) = 0 /\ Total(b, 0) = 0
    BY TotalUnfolds
  <2> QED BY <2>1
<1>2. ASSUME NEW k \in 1..n, k - 1 \in good PROVE k \in good
  <2>1. Total(a, k - 1) \in Nat /\ Total(a, k) = Total(a, k - 1) + a[k]
    BY TotalUnfolds
  <2>2. Total(b, k - 1) \in Nat /\ Total(b, k) = Total(b, k - 1) + b[k]
    BY TotalUnfolds
  <2>3. Total(a, k - 1) <= Total(b, k - 1)
    BY <1>2
  <2>4. Total(a, k) <= Total(b, k)
    BY <2>1, <2>2, <2>3
  <2> QED BY <2>4
<1> HIDE DEF good
<1>3. n \in good
  <2>1. n \in Nat /\ n \in 0..n
    OBVIOUS
  <2> QED BY ONLY <2>1, <1>1, <1>2, Upwards
<1> QED BY <1>3 DEF good

\* One number raised raises the sum by as much.
LEMMA TotalRises ==
  ASSUME NEW n \in Nat, NEW a, NEW b, \A k \in 1..n : a[k] \in Nat /\ b[k] \in Nat,
         NEW y \in 1..n, NEW d \in Nat, b[y] = a[y] + d, \A k \in 1..n : k # y => b[k] = a[k]
  PROVE  Total(b, n) = Total(a, n) + d
<1> DEFINE more(k) == IF y <= k THEN d ELSE 0
           good == {k \in 0..n : Total(b, k) = Total(a, k) + more(k)}
<1>1. 0 \in good
  <2>1. Total(a, 0) = 0 /\ Total(b, 0) = 0
    BY TotalUnfolds
  <2> QED BY <2>1
<1>2. ASSUME NEW k \in 1..n, k - 1 \in good PROVE k \in good
  <2>1. Total(a, k - 1) \in Nat /\ Total(a, k) = Total(a, k - 1) + a[k]
    BY TotalUnfolds
  <2>2. Total(b, k - 1) \in Nat /\ Total(b, k) = Total(b, k - 1) + b[k]
    BY TotalUnfolds
  <2>3. Total(b, k - 1) = Total(a, k - 1) + more(k - 1)
    BY <1>2
  <2>4. more(k) = more(k - 1) + b[k] - a[k]
    <3>1. CASE k = y
      BY <3>1
    <3>2. CASE k # y
      BY <3>2
    <3> QED BY <3>1, <3>2
  <2>5. Total(b, k) = Total(a, k) + more(k)
    <3>1. more(k) \in Nat /\ more(k - 1) \in Nat
      OBVIOUS
    <3> HIDE DEF more
    <3> QED BY <2>1, <2>2, <2>3, <2>4, <3>1
  <2> QED BY <2>5
<1> HIDE DEF good, more
<1>3. n \in good
  <2>1. n \in Nat /\ n \in 0..n
    OBVIOUS
  <2> QED BY ONLY <2>1, <1>1, <1>2, Upwards
<1> QED BY <1>3 DEF good, more

\* Numbers found among others, each at a place of its own, sum to no more.
LEMMA TotalInto ==
  ASSUME NEW m \in Nat, NEW n \in Nat, NEW a, NEW b, NEW to, \A k \in 1..n : b[k] \in Nat,
         \A i \in 1..m : to[i] \in 1..n /\ a[i] = b[to[i]],
         \A i, j \in 1..m : to[i] = to[j] => i = j
  PROVE  Total(a, m) <= Total(b, n)
<1> DEFINE found(k) == {to[i] : i \in 1..k}
           w(k) == [j \in 1..n |-> IF j \in found(k) THEN b[j] ELSE 0]
           good == {k \in 0..m : Total(w(k), n) = Total(a, k)}
<1>1. \A k \in 1..m : a[k] \in Nat
  OBVIOUS
<1>2. ASSUME NEW k \in 0..m PROVE \A j \in 1..n : w(k)[j] \in Nat /\ w(k)[j] <= b[j]
  OBVIOUS
<1>3. 0 \in good
  <2> DEFINE zero == {k \in 0..n : Total(w(0), k) = 0}
  <2>1. \A j \in 1..n : w(0)[j] = 0
    OBVIOUS
  <2> HIDE DEF w
  <2>2. 0 \in zero
    BY <2>1, TotalUnfolds
  <2>3. ASSUME NEW k \in 1..n, k - 1 \in zero PROVE k \in zero
    <3>1. Total(w(0), k) = Total(w(0), k - 1) + w(0)[k]
      BY <2>1, TotalUnfolds
    <3> QED BY <2>1, <2>3, <3>1
  <2> HIDE DEF zero
  <2>4. n \in zero
    BY <2>2, <2>3, Upwards
  <2>5. Total(a, 0) = 0
    BY <1>1, TotalUnfolds
  <2> QED BY <2>4, <2>5 DEF zero
<1>4. ASSUME NEW k \in 1..m, k - 1 \in good PROVE k \in good
  <2> DEFINE y == to[k]
  <2>1. y \in 1..n /\ b[y] = a[k] /\ a[k] \in Nat
    OBVIOUS
  <2>2. found(k) = found(k - 1) \cup {y} /\ y \notin found(k - 1)
    <3>1. 1..k = (1..(k - 1)) \cup {k} /\ k \notin 1..(k - 1) /\ 1..k \subseteq 1..m
      OBVIOUS
    <3> QED BY <3>1
  <2>3. w(k)[y] = w(k - 1)[y] + a[k] /\ \A j \in 1..n : j # y => w(k)[j] = w(k - 1)[j]
    <3> HIDE DEF found, y
    <3> QED BY <2>1, <2>2
  <2>4. \A j \in 1..n : w(k - 1)[j] \in Nat /\ w(k)[j] \in Nat
    BY <1>2
  <2> HIDE DEF w, y
  <2>5. Total(w(k), n) = Total(w(k - 1), n) + a[k]
    <3>1. n \in Nat /\ y \in 1..n /\ a[k] \in Nat
      BY <2>1
    <3> QED BY ONLY <3>1, <2>3, <2>4, TotalRises
  <2>6. Total(a, k) = Total(a, k - 1) + a[k]
    BY <1>1, TotalUnfolds
  <2> QED BY <1>4, <2>5, <2>6
<1>5. \A j \in 1..n : w(m)[j] \in Nat /\ w(m)[j] <= b[j]
  BY <1>2
<1> HIDE DEF good, found, w
<1>6. m \in good
  <2>1. m \in Nat /\ m \in 0..m
    OBVIOUS
  <2> QED BY ONLY <2>1, <1>3, <1>4, Upwards
<1>7. Total(w(m), n) <= Total(b, n)
  BY <1>5, TotalGrows
<1> QED BY <1>6, <1>7 DEF good

-----------------------------------------------------------------------------
(* The texts of the tables chosen.                                          *)

\* serialize_table returns some text.
TextsHaveLengths == \A t : Chars(t) \in Nat

LEMMA JoinedIs ==
  ASSUME TextsHaveLengths, NEW T, NEW s \in Seq(T)
  PROVE  /\ Total(Lengths(s), Len(s)) \in Nat
         /\ Joined(s) = Total(Lengths(s), Len(s)) + IF Len(s) = 0 THEN 0 ELSE 2 * (Len(s) - 1)
         /\ Joined(s) \in Nat /\ Tokens(Joined(s)) \in Nat
<1> DEFINE n == Len(s)
<1>1. n \in Nat /\ DOMAIN s = 1..n /\ (s = <<>> <=> n = 0)
  OBVIOUS
<1>2. \A k \in 1..n : Lengths(s)[k] \in Nat
  BY <1>1 DEF Lengths, TextsHaveLengths
<1>3. Total(Lengths(s), n) \in Nat
  BY <1>1, <1>2, TotalIsNat
<1>4. Joined(s) = Total(Lengths(s), n) + IF n = 0 THEN 0 ELSE 2 * (n - 1)
  BY <1>1 DEF Joined
<1> HIDE DEF n
<1>5. Joined(s) \in Nat
  BY <1>1, <1>3, <1>4
<1>6. Tokens(Joined(s)) \in Nat
  BY <1>5 DEF Tokens
<1> QED BY <1>3, <1>4, <1>5, <1>6 DEF n

\* Tables found among others, each at a place of its own, have no longer a text.
LEMMA JoinedInto ==
  ASSUME TextsHaveLengths, NEW T, NEW c \in Seq(T), NEW s \in Seq(T), NEW to,
         \A i \in DOMAIN c : to[i] \in DOMAIN s /\ s[to[i]] = c[i],
         \A i, j \in DOMAIN c : to[i] = to[j] => i = j
  PROVE  Len(c) <= Len(s) /\ Joined(c) <= Joined(s)
<1> DEFINE m == Len(c)
           n == Len(s)
           f == [i \in 1..m |-> to[i]]
<1>1. m \in Nat /\ n \in Nat /\ DOMAIN c = 1..m /\ DOMAIN s = 1..n
  OBVIOUS
<1>2. m <= n
  <2>1. f \in Injection(1..m, 1..n)
    <3>1. f \in [1..m -> 1..n] /\ \A i, j \in 1..m : f[i] = f[j] => i = j
      BY <1>1
    <3> HIDE DEF f, m, n
    <3> QED BY <3>1 DEF Injection, IsInjective
  <2>2. IsFiniteSet(1..n) /\ Cardinality(1..m) = m /\ Cardinality(1..n) = n
    <3> HIDE DEF m, n
    <3>1. 1 \in Int /\ m \in Int /\ n \in Int
      BY <1>1
    <3>2. IsFiniteSet(1..n) /\ Cardinality(1..n) = IF 1 > n THEN 0 ELSE n - 1 + 1
      BY ONLY <3>1, FS_Interval
    <3>3. Cardinality(1..m) = IF 1 > m THEN 0 ELSE m - 1 + 1
      BY ONLY <3>1, FS_Interval
    <3> QED BY <1>1, <3>2, <3>3
  <2> HIDE DEF f, m, n
  <2> QED BY <2>1, <2>2, FS_Injection
<1>3. Total(Lengths(c), m) <= Total(Lengths(s), n)
  <2> DEFINE a == Lengths(c)
             b == Lengths(s)
  <2>1. \A k \in 1..n : b[k] \in Nat
    BY <1>1 DEF Lengths, TextsHaveLengths
  <2>2. \A i \in 1..m : to[i] \in 1..n /\ a[i] = b[to[i]]
    BY <1>1 DEF Lengths
  <2>3. \A i, j \in 1..m : to[i] = to[j] => i = j
    BY <1>1
  <2> HIDE DEF a, b, m, n
  <2>4. Total(a, m) <= Total(b, n)
    BY ONLY <1>1, <2>1, <2>2, <2>3, TotalInto
  <2> QED BY <2>4 DEF a, b
<1>4. Joined(c) = Total(Lengths(c), m) + (IF m = 0 THEN 0 ELSE 2 * (m - 1)) /\ Total(Lengths(c), m) \in Nat
  BY JoinedIs
<1>5. Joined(s) = Total(Lengths(s), n) + (IF n = 0 THEN 0 ELSE 2 * (n - 1)) /\ Total(Lengths(s), n) \in Nat
  BY JoinedIs
<1> HIDE DEF m, n
<1> QED BY <1>1, <1>2, <1>3, <1>4, <1>5 DEF m, n

-----------------------------------------------------------------------------
(* The tables chosen.                                                       *)

\* Chosen tables have names of their own, and more than one of them fit.
Fitting(sel, T, budget) ==
  /\ sel \in Seq(T)
  /\ \A i, j \in DOMAIN sel : sel[i].name = sel[j].name => i = j
  /\ Len(sel) <= 1 \/ Tokens(Joined(sel)) <= budget

\* The tables of sel are the first of more.
Begins(sel, more) == DOMAIN sel \subseteq DOMAIN more /\ \A i \in DOMAIN sel : more[i] = sel[i]

\* A table is chosen, or did not fit beside some of those chosen.
Tried(t, sel, T, budget) ==
  \/ t.name \in Names(sel)
  \/ \E s \in Seq(T) : Begins(s, sel) /\ Tokens(Joined(Append(s, t))) > budget

LEMMA TriedOn ==
  ASSUME NEW T, NEW budget, NEW a, NEW b, Begins(a, b), NEW t, Tried(t, a, T, budget)
  PROVE  Tried(t, b, T, budget)
<1>1. Names(a) \subseteq Names(b)
  BY DEF Names, Begins
<1>2. \A s : Begins(s, a) => Begins(s, b)
  BY DEF Begins
<1> QED BY <1>1, <1>2 DEF Tried

LEMMA TryAddIs ==
  ASSUME TextsHaveLengths, NEW T, NEW budget \in Int, NEW t \in T, NEW sel, Fitting(sel, T, budget)
  PROVE  /\ Fitting(TryAdd(sel, t, budget), T, budget)
         /\ Begins(sel, TryAdd(sel, t, budget)) /\ TryAdd(sel, t, budget) # <<>>
         /\ Tried(t, TryAdd(sel, t, budget), T, budget)
<1> DEFINE new == Append(sel, t)
<1>1. sel \in Seq(T) /\ Len(sel) \in Nat /\ DOMAIN sel = 1..Len(sel) /\ (sel = <<>> <=> Len(sel) = 0)
  BY DEF Fitting
<1>2. /\ new \in Seq(T) /\ Len(new) = Len(sel) + 1 /\ DOMAIN new = 1..(Len(sel) + 1)
      /\ new[Len(sel) + 1] = t /\ \A i \in 1..Len(sel) : new[i] = sel[i]
  BY <1>1, AppendProperties
<1>3. Tokens(Joined(new)) \in Nat
  BY <1>2, JoinedIs
<1> HIDE DEF new
<1>4. Begins(sel, sel) /\ Begins(sel, new)
  BY <1>1, <1>2 DEF Begins
<1>5. CASE t.name \in Names(sel)
  <2>1. TryAdd(sel, t, budget) = sel
    BY <1>5 DEF TryAdd
  <2>2. sel # <<>> /\ Tried(t, sel, T, budget)
    BY <1>1, <1>5 DEF Names, Tried
  <2> QED BY <1>4, <2>1, <2>2
<1>6. CASE t.name \notin Names(sel) /\ ~(Fits(sel, t, budget) \/ sel = <<>>)
  <2>1. TryAdd(sel, t, budget) = sel
    BY <1>6 DEF TryAdd
  <2>2. Tokens(Joined(new)) > budget
    BY <1>3, <1>6 DEF Fits, new
  <2>3. Tried(t, sel, T, budget)
    BY <1>1, <1>4, <2>2 DEF Tried, new
  <2> QED BY <1>4, <1>6, <2>1, <2>3
<1>7. CASE t.name \notin Names(sel) /\ (Fits(sel, t, budget) \/ sel = <<>>)
  <2>1. TryAdd(sel, t, budget) = new
    BY <1>7 DEF TryAdd, new
  <2>2. \A i \in 1..Len(sel) : new[i].name # t.name
    BY <1>1, <1>2, <1>7 DEF Names
  <2>3. \A i, j \in DOMAIN sel : sel[i].name = sel[j].name => i = j
    BY DEF Fitting
  <2>4. ASSUME NEW i \in DOMAIN new, NEW j \in DOMAIN new, new[i].name = new[j].name PROVE i = j
    <3>1. CASE i \in 1..Len(sel) /\ j \in 1..Len(sel)
      BY <1>1, <1>2, <2>3, <2>4, <3>1
    <3>2. CASE i \in 1..Len(sel) /\ j = Len(sel) + 1
      BY <1>2, <2>2, <2>4, <3>2
    <3>3. CASE i = Len(sel) + 1 /\ j \in 1..Len(sel)
      BY <1>2, <2>2, <2>4, <3>3
    <3>4. CASE i = Len(sel) + 1 /\ j = Len(sel) + 1
      BY <3>4
    <3> QED BY <1>1, <1>2, <3>1, <3>2, <3>3, <3>4
  <2>5. Len(new) <= 1 \/ Tokens(Joined(new)) <= budget
    BY <1>1, <1>2, <1>7 DEF Fits, new
  <2>6. Fitting(new, T, budget)
    BY <1>2, <2>4, <2>5 DEF Fitting
  <2>7. new # <<>> /\ t.name \in Names(new)
    BY <1>1, <1>2 DEF Names
  <2> QED BY <1>4, <2>1, <2>6, <2>7 DEF Tried
<1> QED BY <1>5, <1>6, <1>7

\* What AddAll goes through.
IsAdded(sel, more, budget, n, f) ==
  f = [k \in 0..n |-> IF k = 0 THEN sel ELSE TryAdd(f[k - 1], more[k], budget)]

LEMMA AddAllIs ==
  ASSUME TextsHaveLengths, NEW T, NEW budget \in Int, NEW more \in Seq(T), NEW sel, Fitting(sel, T, budget)
  PROVE  /\ Fitting(AddAll(sel, more, budget), T, budget) /\ (more # <<>> => AddAll(sel, more, budget) # <<>>)
         /\ \A k \in DOMAIN more : Tried(more[k], AddAll(sel, more, budget), T, budget)
<1> DEFINE n == Len(more)
           S == {s \in Seq(T) : Fitting(s, T, budget)}
           step == [k \in 1..n |-> [s \in S |-> TryAdd(s, more[k], budget)]]
           f == CHOOSE g : IsAdded(sel, more, budget, n, g)
<1>1. n \in Nat /\ DOMAIN more = 1..n /\ (\A k \in 1..n : more[k] \in T) /\ (more # <<>> => n # 0)
  OBVIOUS
<1>2. sel \in S /\ \A s \in S : Fitting(s, T, budget)
  BY DEF Fitting
<1>3. ASSUME NEW k \in 1..n, NEW s \in S PROVE TryAdd(s, more[k], budget) \in S
  <2>1. more[k] \in T /\ Fitting(s, T, budget)
    BY <1>1, <1>2
  <2>2. Fitting(TryAdd(s, more[k], budget), T, budget)
    BY ONLY TextsHaveLengths, budget \in Int, <2>1, TryAddIs
  <2> QED BY <2>2 DEF Fitting
<1> HIDE DEF S, n
<1>4. \A k \in 1..n, s \in S : step[k][s] = TryAdd(s, more[k], budget) /\ step[k][s] \in S
  BY <1>3
<1> HIDE DEF step
<1>5. PICK g : Solves(n, S, sel, step, g)
  BY ONLY <1>1, <1>2, <1>4, Recursion
<1>6. IsAdded(sel, more, budget, n, g)
  <2>1. g = [k \in 0..n |-> g[k]] /\ g[0] = sel /\ \A k \in 0..n : g[k] \in S
    BY <1>5 DEF Solves
  <2>2. ASSUME NEW k \in 0..n PROVE g[k] = IF k = 0 THEN sel ELSE TryAdd(g[k - 1], more[k], budget)
    <3>1. CASE k = 0
      BY <2>1, <3>1
    <3>2. CASE k # 0
      <4>1. k \in 1..n /\ k - 1 \in 0..n
        BY <1>1, <3>2
      <4>2. g[k] = step[k][g[k - 1]]
        BY <1>5, <4>1 DEF Solves
      <4> QED BY <1>4, <2>1, <3>2, <4>1, <4>2
    <3> QED BY <3>1, <3>2
  <2> QED BY <2>1, <2>2 DEF IsAdded
<1>7. IsAdded(sel, more, budget, n, f)
  BY <1>6
<1>8. AddAll(sel, more, budget) = f[n]
  BY DEF AddAll, IsAdded, n
<1> HIDE DEF f
<1> DEFINE Right(k) == /\ Fitting(f[k], T, budget) /\ (k # 0 => f[k] # <<>>)
                       /\ \A i \in 1..k : Tried(more[i], f[k], T, budget)
           good == {k \in 0..n : Right(k)}
<1>9. f[0] = sel /\ \A k \in 1..n : f[k] = TryAdd(f[k - 1], more[k], budget)
  <2>1. \A k \in 0..n : f[k] = IF k = 0 THEN sel ELSE TryAdd(f[k - 1], more[k], budget)
    BY <1>7 DEF IsAdded
  <2>2. 0 \in 0..n /\ \A k \in 1..n : k \in 0..n /\ k # 0
    BY <1>1
  <2> QED BY <2>1, <2>2
<1>10. 0 \in good
  BY <1>1, <1>9
<1>11. ASSUME NEW k \in 1..n, k - 1 \in good PROVE k \in good
  <2>1. Fitting(f[k - 1], T, budget) /\ \A i \in 1..(k - 1) : Tried(more[i], f[k - 1], T, budget)
    BY <1>11
  <2> DEFINE old == f[k - 1]
             new == f[k]
             t == more[k]
  <2>2. t \in T /\ new = TryAdd(old, t, budget) /\ Fitting(old, T, budget)
    BY <1>1, <1>9, <2>1
  <2> HIDE DEF t, new, old
  <2>3. Fitting(new, T, budget) /\ Begins(old, new) /\ new # <<>> /\ Tried(t, new, T, budget)
    BY ONLY TextsHaveLengths, budget \in Int, <2>2, TryAddIs
  <2>4. ASSUME NEW i \in 1..k PROVE Tried(more[i], new, T, budget)
    <3>1. CASE i = k
      BY <2>3, <3>1 DEF t
    <3>2. CASE i # k
      <4>1. i \in 1..(k - 1)
        BY <3>2
      <4>2. Tried(more[i], old, T, budget)
        BY <2>1, <4>1 DEF old
      <4> QED BY ONLY <2>3, <4>2, TriedOn
    <3> QED BY <3>1, <3>2
  <2> QED BY <1>1, <2>3, <2>4 DEF new
<1> HIDE DEF good, Right
<1>12. n \in good
  <2>1. n \in Nat /\ n \in 0..n
    BY <1>1
  <2> QED BY ONLY <2>1, <1>10, <1>11, Upwards
<1> QED BY <1>1, <1>8, <1>12 DEF good, Right

\* A table's neighbours are tables.
LEMMA NeighboursAre ==
  ASSUME NEW tables, IsSequence(tables), NEW t, IsSequence(t.fks)
  PROVE  Neighbours(t, tables) \in Seq({tables[i] : i \in DOMAIN tables})
<1> DEFINE places == {i \in DOMAIN t.fks : t.fks[i].refTable \in Names(tables)}
           R == {t.fks[i] : i \in DOMAIN t.fks}
           known == ElementsAt(t.fks, places)
           T == {tables[i] : i \in DOMAIN tables}
           entry(k) == Lookup(tables)[<<known[k].refTable>>]
<1>1. t.fks \in Seq(R)
  BY DEF IsSequence
<1>2. places \subseteq DOMAIN t.fks /\ \A i \in places : t.fks[i].refTable \in Names(tables)
  OBVIOUS
<1>3. Neighbours(t, tables) = [k \in DOMAIN known |-> entry(k)]
  BY DEF Neighbours
<1> HIDE DEF places, R
<1>4. Len(known) \in Nat /\ DOMAIN known = 1..Len(known) /\ \A k \in DOMAIN known : \E i \in places : known[k] = t.fks[i]
  BY <1>1, <1>2, ElementsAre
<1> HIDE DEF known
<1>5. ASSUME NEW k \in DOMAIN known PROVE entry(k) \in T
  <2>1. known[k].refTable \in Names(tables)
    BY <1>2, <1>4
  <2>2. PICK i \in DOMAIN tables : tables[i].name = known[k].refTable
    BY <2>1 DEF Names
  <2>3. \E j \in DOMAIN tables : entry(k) = tables[j]
    BY <2>2, BareEntry
  <2> QED BY <2>3
<1> HIDE DEF entry, T
<1>6. [k \in 1..Len(known) |-> entry(k)] \in [1..Len(known) -> T]
  BY <1>4, <1>5
<1>7. [k \in 1..Len(known) |-> entry(k)] \in Seq(T)
  BY <1>4, <1>6, SeqDef
<1> QED BY <1>3, <1>4, <1>7 DEF T

\* Where the loop over the seeds can be.
Accs(T, budget) == {a \in [sel : Seq(T), open : BOOLEAN] : Fitting(a.sel, T, budget)}

LEMMA SeedIs ==
  ASSUME TextsHaveLengths, NEW tables, IsSequence(tables), NEW T, T = {tables[i] : i \in DOMAIN tables},
         NEW budget \in Int, NEW t \in T, IsSequence(t.fks), NEW acc \in Accs(T, budget)
  PROVE  Seed(acc, t, tables, budget) \in Accs(T, budget)
<1> DEFINE sel == TryAdd(acc.sel, t, budget)
           more == AddAll(sel, Neighbours(t, tables), budget)
<1>1. acc \in [sel : Seq(T), open : BOOLEAN] /\ Fitting(acc.sel, T, budget)
  BY DEF Accs
<1>2. Fitting(sel, T, budget)
  BY <1>1, TryAddIs
<1>3. Neighbours(t, tables) \in Seq(T)
  BY NeighboursAre
<1> HIDE DEF sel
<1>4. Fitting(more, T, budget)
  BY <1>2, <1>3, AddAllIs
<1>5. \/ Seed(acc, t, tables, budget) = acc
      \/ Seed(acc, t, tables, budget) = [acc EXCEPT !.open = FALSE]
      \/ Seed(acc, t, tables, budget) = [sel |-> more, open |-> TRUE]
  BY DEF Seed, sel
<1> HIDE DEF more
<1>6. [acc EXCEPT !.open = FALSE] \in Accs(T, budget)
  <2>1. [acc EXCEPT !.open = FALSE] \in [sel : Seq(T), open : BOOLEAN] /\ [acc EXCEPT !.open = FALSE].sel = acc.sel
    BY <1>1
  <2> QED BY <1>1, <2>1 DEF Accs
<1>7. [sel |-> more, open |-> TRUE] \in Accs(T, budget)
  <2>1. more \in Seq(T)
    BY <1>4 DEF Fitting
  <2> QED BY <1>4, <2>1 DEF Accs
<1> QED BY <1>5, <1>6, <1>7

\* What the loop over the seeds goes through.
IsSeeded(seeds, tables, budget, n, f) ==
  f = [k \in 0..n |-> IF k = 0 THEN [sel |-> <<>>, open |-> TRUE] ELSE Seed(f[k - 1], seeds[k], tables, budget)]

LEMMA SeededIs ==
  ASSUME TextsHaveLengths, NEW tables, IsSequence(tables), NEW T, T = {tables[i] : i \in DOMAIN tables},
         NEW budget \in Int, NEW seeds \in Seq(T), \A t \in T : IsSequence(t.fks)
  PROVE  Fitting(Seeded(seeds, tables, budget), T, budget)
<1> DEFINE n == Len(seeds)
           S == Accs(T, budget)
           none == [sel |-> <<>>, open |-> TRUE]
           step == [k \in 1..n |-> [a \in S |-> Seed(a, seeds[k], tables, budget)]]
           f == CHOOSE g : IsSeeded(seeds, tables, budget, n, g)
<1>1. n \in Nat /\ DOMAIN seeds = 1..n /\ (\A k \in 1..n : seeds[k] \in T)
  OBVIOUS
<1>2. none \in S
  <2>1. <<>> \in Seq(T) /\ DOMAIN <<>> = {} /\ Len(<<>>) = 0
    OBVIOUS
  <2>2. Fitting(<<>>, T, budget)
    BY <2>1 DEF Fitting
  <2> QED BY <2>1, <2>2 DEF Accs
<1>3. ASSUME NEW k \in 1..n, NEW a \in S PROVE Seed(a, seeds[k], tables, budget) \in S
  <2>1. seeds[k] \in T /\ IsSequence(seeds[k].fks)
    BY <1>1
  <2> QED BY <2>1, SeedIs
<1> HIDE DEF S, n, none
<1>4. \A k \in 1..n, a \in S : step[k][a] = Seed(a, seeds[k], tables, budget) /\ step[k][a] \in S
  BY <1>3
<1> HIDE DEF step
<1>5. PICK g : Solves(n, S, none, step, g)
  BY ONLY <1>1, <1>2, <1>4, Recursion
<1>6. g = [k \in 0..n |-> g[k]] /\ g[0] = none /\ \A k \in 0..n : g[k] \in S
  BY <1>5 DEF Solves
<1>7. IsSeeded(seeds, tables, budget, n, g)
  <2>1. ASSUME NEW k \in 0..n PROVE g[k] = IF k = 0 THEN none ELSE Seed(g[k - 1], seeds[k], tables, budget)
    <3>1. CASE k = 0
      BY <1>6, <3>1
    <3>2. CASE k # 0
      <4>1. k \in 1..n /\ k - 1 \in 0..n
        BY <1>1, <3>2
      <4>2. g[k] = step[k][g[k - 1]]
        BY <1>5, <4>1 DEF Solves
      <4> QED BY <1>4, <1>6, <3>2, <4>1, <4>2
    <3> QED BY <3>1, <3>2
  <2> QED BY <1>6, <2>1 DEF IsSeeded, none
<1>8. IsSeeded(seeds, tables, budget, n, f)
  BY <1>7
<1>9. Seeded(seeds, tables, budget) = f[n].sel
  BY DEF Seeded, IsSeeded, n
<1> HIDE DEF f
<1> DEFINE good == {k \in 0..n : f[k] \in S}
<1>10. f[0] = none /\ \A k \in 1..n : f[k] = Seed(f[k - 1], seeds[k], tables, budget)
  <2>1. \A k \in 0..n : f[k] = IF k = 0 THEN none ELSE Seed(f[k - 1], seeds[k], tables, budget)
    BY <1>8 DEF IsSeeded, none
  <2>2. 0 \in 0..n /\ \A k \in 1..n : k \in 0..n /\ k # 0
    BY <1>1
  <2> QED BY <2>1, <2>2
<1>11. 0 \in good
  BY <1>1, <1>2, <1>10
<1>12. ASSUME NEW k \in 1..n, k - 1 \in good PROVE k \in good
  BY <1>3, <1>10, <1>12
<1> HIDE DEF good
<1>13. n \in good
  <2>1. n \in Nat /\ n \in 0..n
    BY <1>1
  <2> QED BY ONLY <2>1, <1>11, <1>12, Upwards
<1> QED BY <1>9, <1>13 DEF good, S, Accs

\* The tables chosen have names of their own, more than one of them fit, and
\* every table was tried.
LEMMA ChosenIs ==
  ASSUME TextsHaveLengths, NEW tables, IsSequence(tables), NEW T, T = {tables[i] : i \in DOMAIN tables},
         NEW budget \in Int, NEW ranked \in Seq(T), ranked # <<>>, NEW strong, \A t \in T : IsSequence(t.fks)
  PROVE  /\ Fitting(Chosen(tables, ranked, strong, budget), T, budget)
         /\ Chosen(tables, ranked, strong, budget) # <<>>
         /\ \A k \in DOMAIN ranked : Tried(ranked[k], Chosen(tables, ranked, strong, budget), T, budget)
<1> DEFINE matched == ElementsAt(ranked, {i \in DOMAIN ranked : ranked[i] \in strong})
           seeds == IF matched = <<>> THEN <<ranked[1]>> ELSE matched
           sel == Seeded(seeds, tables, budget)
<1>1. seeds \in Seq(T)
  <2>1. matched \in Seq(T)
    <3> DEFINE places == {i \in DOMAIN ranked : ranked[i] \in strong}
    <3>1. places \subseteq DOMAIN ranked
      OBVIOUS
    <3> HIDE DEF places
    <3> QED BY <3>1, ElementsAre
  <2>2. ranked[1] \in T
    OBVIOUS
  <2>3. <<ranked[1]>> \in Seq(T)
    BY <2>2
  <2> HIDE DEF matched
  <2> QED BY <2>1, <2>3
<1>2. Chosen(tables, ranked, strong, budget) = AddAll(sel, ranked, budget)
  BY DEF Chosen
<1> HIDE DEF seeds
<1>3. Fitting(sel, T, budget)
  BY <1>1, SeededIs
<1> HIDE DEF sel
<1> QED BY <1>2, <1>3, AddAllIs

-----------------------------------------------------------------------------
(* The tables sent.                                                         *)

\* What occurs among other tables, each once, has no longer a text.
LEMMA JoinedOver ==
  ASSUME TextsHaveLengths, NEW T, NEW c \in Seq(T), NEW s \in Seq(T),
         \A i, j \in DOMAIN c : c[i] = c[j] => i = j,
         \A i \in DOMAIN c : \E k \in DOMAIN s : s[k] = c[i]
  PROVE  Len(c) <= Len(s) /\ Joined(c) <= Joined(s) /\ Tokens(Joined(c)) <= Tokens(Joined(s))
<1> DEFINE to == [i \in DOMAIN c |-> CHOOSE k \in DOMAIN s : s[k] = c[i]]
<1>1. \A i \in DOMAIN c : to[i] \in DOMAIN s /\ s[to[i]] = c[i]
  OBVIOUS
<1> HIDE DEF to
<1>2. \A i, j \in DOMAIN c : to[i] = to[j] => i = j
  BY <1>1
<1>3. Len(c) <= Len(s) /\ Joined(c) <= Joined(s)
  BY ONLY TextsHaveLengths, c \in Seq(T), s \in Seq(T), <1>1, <1>2, JoinedInto
<1>4. Joined(c) \in Nat /\ Joined(s) \in Nat
  BY JoinedIs
<1> QED BY <1>3, <1>4 DEF Tokens

LEMMA DistinctIs ==
  ASSUME NEW tables, IsSequence(tables), Distinct(tables)
  PROVE  \A i, j \in DOMAIN tables : tables[i].name = tables[j].name => i = j
<1> DEFINE n == Len(tables)
           f == [i \in 1..n |-> tables[i].name]
<1>1. n \in Nat /\ DOMAIN tables = 1..n
  BY DEF IsSequence
<1>2. Names(tables) = {f[i] : i \in 1..n}
  BY <1>1 DEF Names
<1>3. f \in Surjection(1..n, Names(tables))
  <2>1. f \in [1..n -> Names(tables)] /\ \A x \in Names(tables) : \E i \in 1..n : f[i] = x
    BY <1>2
  <2> HIDE DEF f, n
  <2> QED BY <2>1 DEF Surjection
<1>4. IsFiniteSet(1..n) /\ Cardinality(1..n) = n
  <2> HIDE DEF n
  <2>1. 1 \in Int /\ n \in Int
    BY <1>1
  <2>2. IsFiniteSet(1..n) /\ Cardinality(1..n) = IF 1 > n THEN 0 ELSE n - 1 + 1
    BY ONLY <2>1, FS_Interval
  <2> QED BY <1>1, <2>2
<1>5. Cardinality(Names(tables)) = n
  BY DEF Distinct
<1> HIDE DEF f, n
<1>6. f \in Injection(1..n, Names(tables))
  BY <1>3, <1>4, <1>5, FS_Surjection
<1>7. \A i, j \in 1..n : f[i] = f[j] => i = j
  BY <1>6 DEF Injection, IsInjective
<1> QED BY <1>1, <1>7 DEF f, n

\* What is sent are the tables of a name chosen; each table chosen, and where
\* names tell tables, nothing else.
IsSent(sent, sel, tables, T) ==
  /\ sent \in Seq(T) /\ Names(sent) = Names(sel)
  /\ \A i \in DOMAIN sel : \E k \in DOMAIN sent : sent[k] = sel[i]
  /\ Distinct(tables) => /\ \A k \in DOMAIN sent : \E i \in DOMAIN sel : sel[i] = sent[k]
                         /\ \A k, l \in DOMAIN sent : sent[k] = sent[l] => k = l

LEMMA SentIs ==
  ASSUME NEW tables, IsSequence(tables), NEW T, T = {tables[i] : i \in DOMAIN tables},
         NEW sel \in Seq(T), NEW sent, sent = ElementsAt(tables, {i \in DOMAIN tables : tables[i].name \in Names(sel)})
  PROVE  IsSent(sent, sel, tables, T)
<1> DEFINE places == {i \in DOMAIN tables : tables[i].name \in Names(sel)}
           R == {sent[k] : k \in DOMAIN sent}
<1>1. tables \in Seq(T)
  BY DEF IsSequence
<1>2. places \subseteq DOMAIN tables /\ \A i \in DOMAIN tables : i \in places <=> tables[i].name \in Names(sel)
  OBVIOUS
<1>3. sent = ElementsAt(tables, places)
  OBVIOUS
<1> HIDE DEF places
<1>4. /\ sent \in Seq(T) /\ Len(sent) \in Nat /\ DOMAIN sent = 1..Len(sent)
      /\ \A k \in DOMAIN sent : \E i \in places : sent[k] = tables[i]
      /\ \A i \in places : \E k \in DOMAIN sent : sent[k] = tables[i]
  BY ONLY <1>1, <1>2, <1>3, ElementsAre
<1>5. ASSUME NEW i \in DOMAIN sel PROVE \E k \in DOMAIN sent : sent[k] = sel[i]
  <2>1. sel[i] \in T /\ sel[i].name \in Names(sel)
    BY DEF Names
  <2>2. PICK j \in DOMAIN tables : sel[i] = tables[j]
    BY <2>1
  <2>3. j \in places
    BY <1>2, <2>1, <2>2
  <2>4. PICK k \in DOMAIN sent : sent[k] = tables[j]
    BY ONLY <1>4, <2>3
  <2> QED BY <2>2, <2>4
<1>6. Names(sent) = Names(sel)
  <2>1. ASSUME NEW k \in DOMAIN sent PROVE sent[k].name \in Names(sel)
    BY <1>2, <1>4
  <2>2. ASSUME NEW i \in DOMAIN sel PROVE \E k \in DOMAIN sent : sent[k].name = sel[i].name
    BY <1>5
  <2>3. Names(sent) \subseteq Names(sel)
    BY ONLY <2>1 DEF Names
  <2>4. Names(sel) \subseteq Names(sent)
    BY ONLY <2>2 DEF Names
  <2> QED BY ONLY <2>3, <2>4
<1>7. ASSUME Distinct(tables), NEW k \in DOMAIN sent PROVE \E i \in DOMAIN sel : sel[i] = sent[k]
  <2>1. PICK m \in places : sent[k] = tables[m]
    BY <1>4
  <2>2. PICK i \in DOMAIN sel : sel[i].name = tables[m].name
    BY <1>2, <2>1 DEF Names
  <2>3. PICK j \in DOMAIN tables : sel[i] = tables[j]
    <3>1. sel[i] \in T
      OBVIOUS
    <3> QED BY <3>1
  <2>4. j = m
    BY <1>2, <1>7, <2>2, <2>3, DistinctIs
  <2> QED BY <2>1, <2>3, <2>4
<1>8. ASSUME Distinct(tables) PROVE \A k, l \in DOMAIN sent : sent[k] = sent[l] => k = l
  <2> DEFINE n == Len(sent)
             g == [i \in places |-> tables[i]]
             h == [k \in 1..n |-> sent[k]]
  <2>1. IsFiniteSet(places) /\ n = Cardinality(places)
    BY <1>2, <1>3, ElementsAtIs
  <2>2. g \in [places -> R] /\ h \in [1..n -> R]
    BY <1>4
  <2>3. \A x \in R : (\E i \in places : g[i] = x) /\ (\E k \in 1..n : h[k] = x)
    BY <1>4
  <2>4. \A i, j \in places : g[i] = g[j] => i = j
    BY <1>2, <1>8, DistinctIs
  <2>5. n \in Nat /\ DOMAIN sent = 1..n
    BY <1>4
  <2> HIDE DEF R, g, n
  <2>6. g \in Surjection(places, R) /\ g \in Injection(places, R)
    BY <2>2, <2>3, <2>4 DEF Surjection, Injection, IsInjective
  <2>7. Cardinality(R) = n
    BY <2>1, <2>6, FS_Surjection
  <2>8. IsFiniteSet(1..n) /\ Cardinality(1..n) = n
    <3>1. 1 \in Int /\ n \in Int
      BY <2>5
    <3>2. IsFiniteSet(1..n) /\ Cardinality(1..n) = IF 1 > n THEN 0 ELSE n - 1 + 1
      BY ONLY <3>1, FS_Interval
    <3> QED BY <2>5, <3>2
  <2> HIDE DEF h
  <2>9. h \in Surjection(1..n, R)
    BY <2>2, <2>3 DEF Surjection
  <2>10. h \in Injection(1..n, R)
    BY <2>7, <2>8, <2>9, FS_Surjection
  <2>11. \A k, l \in 1..n : h[k] = h[l] => k = l
    BY <2>10 DEF Injection, IsInjective
  <2> QED BY <2>5, <2>11 DEF h
<1> QED BY <1>4, <1>5, <1>6, <1>7, <1>8 DEF IsSent

\* A table that was tried and is not sent does not fit beside those that are.
LEMMA LeftOut ==
  ASSUME TextsHaveLengths, NEW T, NEW budget \in Int, NEW sel, Fitting(sel, T, budget), NEW sent \in Seq(T),
         Names(sent) = Names(sel), \A i \in DOMAIN sel : \E k \in DOMAIN sent : sent[k] = sel[i],
         NEW t \in T, Tried(t, sel, T, budget), t.name \notin Names(sent)
  PROVE  Tokens(Joined(Append(sent, t))) > budget
<1>1. PICK s \in Seq(T) : Begins(s, sel) /\ Tokens(Joined(Append(s, t))) > budget
  BY DEF Tried
<1> DEFINE c == Append(s, t)
           all == Append(sent, t)
<1>2. /\ c \in Seq(T) /\ Len(s) \in Nat /\ DOMAIN s = 1..Len(s) /\ DOMAIN c = 1..(Len(s) + 1)
      /\ c[Len(s) + 1] = t /\ \A i \in 1..Len(s) : c[i] = s[i]
  BY AppendProperties
<1>3. /\ all \in Seq(T) /\ Len(sent) \in Nat /\ DOMAIN sent = 1..Len(sent) /\ DOMAIN all = 1..(Len(sent) + 1)
      /\ all[Len(sent) + 1] = t /\ \A k \in 1..Len(sent) : all[k] = sent[k]
  BY AppendProperties
<1> HIDE DEF c, all
<1>4. \A i \in 1..Len(s) : i \in DOMAIN sel /\ s[i] = sel[i] /\ s[i].name # t.name
  <2>1. \A i \in DOMAIN sel : sel[i].name # t.name
    BY DEF Names
  <2> QED BY <1>1, <1>2, <2>1 DEF Begins
<1>5. ASSUME NEW i \in DOMAIN c, NEW j \in DOMAIN c, c[i] = c[j] PROVE i = j
  <2>1. \A k, l \in DOMAIN sel : sel[k].name = sel[l].name => k = l
    BY DEF Fitting
  <2>2. CASE i \in 1..Len(s) /\ j \in 1..Len(s)
    BY <1>2, <1>4, <1>5, <2>1, <2>2
  <2>3. CASE i \in 1..Len(s) /\ j = Len(s) + 1
    BY <1>2, <1>4, <1>5, <2>3
  <2>4. CASE i = Len(s) + 1 /\ j \in 1..Len(s)
    BY <1>2, <1>4, <1>5, <2>4
  <2>5. CASE i = Len(s) + 1 /\ j = Len(s) + 1
    BY <2>5
  <2> QED BY <1>2, <2>2, <2>3, <2>4, <2>5
<1>6. ASSUME NEW i \in DOMAIN c PROVE \E k \in DOMAIN all : all[k] = c[i]
  <2>1. CASE i \in 1..Len(s)
    <3>1. PICK k \in DOMAIN sent : sent[k] = sel[i]
      BY <1>4, <2>1
    <3>2. k \in DOMAIN all /\ all[k] = c[i]
      BY <1>2, <1>3, <1>4, <2>1, <3>1
    <3> QED BY <3>2
  <2>2. CASE i = Len(s) + 1
    <3>1. Len(sent) + 1 \in DOMAIN all /\ all[Len(sent) + 1] = t
      BY <1>3
    <3>2. c[i] = t
      BY <1>2, <2>2
    <3> QED BY <3>1, <3>2
  <2> QED BY <1>2, <2>1, <2>2
<1>7. Tokens(Joined(c)) <= Tokens(Joined(all))
  BY ONLY TextsHaveLengths, <1>2, <1>3, <1>5, <1>6, JoinedOver
<1>8. Tokens(Joined(c)) \in Nat /\ Tokens(Joined(all)) \in Nat
  BY <1>2, <1>3, JoinedIs
<1>9. Tokens(Joined(c)) > budget
  BY <1>1 DEF c
<1>10. Tokens(Joined(all)) > budget
  BY <1>7, <1>8, <1>9
<1> QED BY <1>10 DEF all

\* The foreign keys of a table come in some order.
LEMMA KeysAreListed ==
  ASSUME NEW keyRows, IsSequence(keyRows)
  PROVE  IsSequence(ForeignKeys(keyRows))
<1> DEFINE places == {i \in DOMAIN keyRows : \A j \in 1..(i - 1) : keyRows[j].constraint # keyRows[i].constraint}
           heads == ElementsAt(keyRows, places)
           own(head) == ElementsAt(keyRows, {i \in DOMAIN keyRows : keyRows[i].constraint = head.constraint})
           key(k) == KeyOf(heads[k], own(heads[k]))
           K == {key(k) : k \in DOMAIN heads}
<1>1. ForeignKeys(keyRows) = [k \in DOMAIN heads |-> key(k)]
  BY DEF ForeignKeys
<1>2. Len(heads) \in Nat /\ DOMAIN heads = 1..Len(heads)
  <2>1. places \subseteq DOMAIN keyRows /\ keyRows \in Seq({keyRows[i] : i \in DOMAIN keyRows})
    BY DEF IsSequence
  <2> HIDE DEF places
  <2> QED BY <2>1, ElementsAre
<1> HIDE DEF heads, key
<1>3. [k \in 1..Len(heads) |-> key(k)] \in [1..Len(heads) -> K]
  BY <1>2
<1> HIDE DEF K
<1>4. ForeignKeys(keyRows) \in Seq(K)
  BY <1>1, <1>2, <1>3, SeqDef
<1> QED BY <1>4, SubsequenceIs

\* SelectionFits, of one selection.
FitsOrIsFull(r, tables, max) ==
  /\ tables # <<>> =>
       /\ r.sent # <<>>
       /\ Distinct(tables) => Tokens(r.chars) <= max + 1 \/ (r.trimmed /\ OneName(r.sent))
  /\ r.trimmed => \A i \in DOMAIN tables : tables[i].name \notin Names(r.sent) =>
       Tokens(Joined(Append(r.sent, tables[i]))) > max - Tokens(DirectoryChars(tables))

\* What a question is sent with: nothing is trimmed that fits, and what is
\* trimmed is full.
LEMMA SelectIs ==
  ASSUME TextsHaveLengths, NEW tables, IsSequence(tables), NEW T, T = {tables[i] : i \in DOMAIN tables},
         NEW ranked \in Seq(T), \A i \in DOMAIN tables : \E k \in DOMAIN ranked : ranked[k] = tables[i],
         NEW strong, NEW max \in Nat, \A t \in T : IsSequence(t.fks),
         NEW r, r = Select(tables, ranked, strong, max)
  PROVE  FitsOrIsFull(r, tables, max)
<1> DEFINE whole == tables = <<>> \/ Tokens(SchemaChars(tables)) <= max
           budget == max - Tokens(DirectoryChars(tables))
           sel == Chosen(tables, ranked, strong, budget)
           sent == ElementsAt(tables, {i \in DOMAIN tables : tables[i].name \in Names(sel)})
           directory == DirectoryChars(tables)
<1>1. tables \in Seq(T) /\ Len(tables) \in Nat /\ DOMAIN tables = 1..Len(tables) /\ (tables = <<>> <=> Len(tables) = 0)
  BY DEF IsSequence
<1>2. CASE whole
  <2>1. r = [trimmed |-> FALSE, sent |-> tables, chars |-> SchemaChars(tables)]
    BY <1>2 DEF Select
  <2>2. r.trimmed = FALSE /\ r.sent = tables /\ r.chars = SchemaChars(tables)
    BY <2>1
  <2>3. ASSUME tables # <<>> PROVE Tokens(r.chars) <= max + 1
    <3>1. Tokens(Joined(tables)) \in Nat
      BY <1>1, JoinedIs
    <3>2. r.chars = Joined(tables) /\ Tokens(Joined(tables)) <= max
      BY <1>2, <2>2, <2>3 DEF SchemaChars
    <3> QED BY <3>1, <3>2
  <2> QED BY <2>2, <2>3 DEF FitsOrIsFull
<1>3. CASE ~whole
  <2>1. r = [trimmed |-> TRUE, sent |-> sent, chars |-> directory + 2 + Joined(sent)]
    BY <1>3 DEF Select
  <2>2. ranked # <<>>
    <3>1. 1 \in DOMAIN tables
      BY <1>1, <1>3
    <3> QED BY <3>1
  <2>3. directory \in Int /\ Tokens(directory) \in Int /\ budget \in Int
    <3>1. directory \in Int
      BY <1>1, LimitsAssumption DEF DirectoryChars
    <3> HIDE DEF directory
    <3>2. Tokens(directory) \in Int
      BY <3>1 DEF Tokens
    <3> QED BY <3>1, <3>2 DEF directory
  <2>4. Fitting(sel, T, budget) /\ sel # <<>> /\ \A k \in DOMAIN ranked : Tried(ranked[k], sel, T, budget)
    BY <2>2, <2>3, ChosenIs
  <2> HIDE DEF sel
  <2>5. sel \in Seq(T) /\ Len(sel) \in Nat \ {0} /\ DOMAIN sel = 1..Len(sel)
    BY <2>4 DEF Fitting
  <2>6. /\ sent \in Seq(T) /\ Names(sent) = Names(sel)
        /\ \A i \in DOMAIN sel : \E k \in DOMAIN sent : sent[k] = sel[i]
        /\ Distinct(tables) => /\ \A k \in DOMAIN sent : \E i \in DOMAIN sel : sel[i] = sent[k]
                               /\ \A k, l \in DOMAIN sent : sent[k] = sent[l] => k = l
    <3>1. sent = ElementsAt(tables, {i \in DOMAIN tables : tables[i].name \in Names(sel)})
      OBVIOUS
    <3>2. IsSequence(tables) /\ T = {tables[i] : i \in DOMAIN tables}
      OBVIOUS
    <3> HIDE DEF sent
    <3>3. IsSent(sent, sel, tables, T)
      BY ONLY <2>5, <3>1, <3>2, SentIs
    <3> QED BY ONLY <3>3 DEF IsSent
  <2> HIDE DEF sent, whole, directory, budget
  <2>7. sent # <<>>
    <3>1. 1 \in DOMAIN sel
      BY <2>5
    <3> QED BY <2>6, <3>1
  <2>8. ASSUME Distinct(tables) PROVE Tokens(directory + 2 + Joined(sent)) <= max + 1 \/ OneName(sent)
    <3>1. CASE Len(sel) = 1
      <4>1. Names(sel) = {sel[1].name}
        BY <2>5, <3>1 DEF Names
      <4>2. Cardinality(Names(sent)) = 1
        BY ONLY <2>6, <4>1, FS_Singleton
      <4> QED BY <4>2 DEF OneName
    <3>2. CASE Len(sel) # 1
      <4>1. Tokens(Joined(sel)) <= budget
        BY <2>4, <2>5, <3>2 DEF Fitting
      <4>2. Joined(sent) <= Joined(sel)
        BY <2>5, <2>6, <2>8, JoinedOver
      <4>3. Joined(sent) \in Nat /\ Joined(sel) \in Nat
        BY <2>5, <2>6, JoinedIs
      <4>4. budget = max - Tokens(directory)
        BY DEF directory, budget
      <4> DEFINE a == Joined(sent)
                 b == Joined(sel)
      <4>5. a \in Nat /\ b \in Nat /\ a <= b /\ Tokens(b) <= max - Tokens(directory)
        BY <4>1, <4>2, <4>3, <4>4
      <4> HIDE DEF a, b
      <4>6. Tokens(directory + 2 + a) <= max + 1
        BY <2>3, <4>5 DEF Tokens
      <4> QED BY <4>6 DEF a
    <3> QED BY <3>1, <3>2
  <2>9. ASSUME NEW i \in DOMAIN tables, tables[i].name \notin Names(sent)
        PROVE  Tokens(Joined(Append(sent, tables[i]))) > budget
    <3> DEFINE t == tables[i]
    <3>1. t \in T /\ Tried(t, sel, T, budget) /\ t.name \notin Names(sent)
      BY <2>4, <2>9
    <3> HIDE DEF t
    <3>2. Tokens(Joined(Append(sent, t))) > budget
      BY ONLY TextsHaveLengths, <2>3, <2>4, <2>6, <3>1, LeftOut
    <3> QED BY <3>2 DEF t
  <2>10. r.trimmed = TRUE /\ r.sent = sent /\ r.chars = directory + 2 + Joined(sent)
    BY <2>1
  <2> QED BY <2>7, <2>8, <2>9, <2>10 DEF FitsOrIsFull, budget
<1> QED BY <1>2, <1>3

\* A selection is of the snapshot stored.
SelectedInv ==
  phase = "selected" =>
    /\ stored # None
    /\ \E order \in Bijection(DOMAIN stored.tables, DOMAIN stored.tables), max \in Budgets : \E strong :
         /\ selection.result = Select(stored.tables, [i \in DOMAIN order |-> stored.tables[order[i]]], strong, max)
         /\ selection.max = max

LEMMA SelectionKept ==
  ASSUME SelectedInv, [PipelineNext]_pipelineVars
  PROVE  SelectedInv'
<1> SUFFICES ASSUME phase' = "selected"
             PROVE  SelectedInv'
  BY DEF SelectedInv
<1>1. CASE SelectTables
  <2>1. PICK order \in Bijection(DOMAIN stored.tables, DOMAIN stored.tables), direct \in SUBSET DOMAIN stored.tables, max \in Budgets :
          selection' = [ result |-> Select(stored.tables, [i \in DOMAIN order |-> stored.tables[order[i]]],
                                           {stored.tables[i] : i \in direct}, max),
                         max |-> max ]
    BY <1>1 DEF SelectTables
  <2> DEFINE strong == {stored.tables[i] : i \in direct}
             result == Select(stored.tables, [i \in DOMAIN order |-> stored.tables[order[i]]], strong, max)
  <2>2. selection'.result = result /\ selection'.max = max
    BY <2>1
  <2>3. stored # None /\ stored' = stored
    BY <1>1 DEF SelectTables
  <2>4. \E o \in Bijection(DOMAIN stored.tables, DOMAIN stored.tables), m \in Budgets : \E s :
          /\ selection'.result = Select(stored.tables, [i \in DOMAIN o |-> stored.tables[o[i]]], s, m)
          /\ selection'.max = m
    <3> HIDE DEF strong
    <3> QED BY <2>2
  <2> QED BY <2>3, <2>4 DEF SelectedInv, None
<1>2. CASE UNCHANGED pipelineVars
  BY <1>2 DEF SelectedInv, pipelineVars, None
<1>3. CASE PipelineNext /\ ~SelectTables
  BY <1>3 DEF PipelineNext, Connect, ReadFails, ReadCatalog, ProbeSucceeds, ProbeFails, ProbeRefused, Probe, Store,
              VerifyStatement, Answered
<1> QED BY <1>1, <1>2, <1>3

\* Whatever the tables, their texts, the ranking and the limit, what a question
\* is sent with keeps the budget, and leaves out nothing that fits.
THEOREM EveryQuestionFits ==
  ASSUME TextsHaveLengths
  PROVE  PipelineSpec => []SelectionFits
<1>1. PipelineInit => SelectedInv
  BY DEF PipelineInit, SelectedInv
<1>2. RefreshInv /\ SelectedInv => SelectionFits
  <2> SUFFICES ASSUME RefreshInv, SelectedInv, phase = "selected" PROVE SelectionFits
    BY DEF SelectionFits
  <2> DEFINE tables == stored.tables
             T == {tables[i] : i \in DOMAIN tables}
             r == selection.result
  <2>1. source \in DOMAIN Sources /\ Shaped(tables)
    BY DEF RefreshInv, PipelineTypeOK, Refreshed, SelectedInv
  <2>2. PICK order \in Bijection(DOMAIN tables, DOMAIN tables), max \in Budgets : \E strong :
          /\ r = Select(tables, [i \in DOMAIN order |-> tables[order[i]]], strong, max)
          /\ selection.max = max
    BY DEF SelectedInv
  <2> DEFINE ranked == [i \in DOMAIN order |-> tables[order[i]]]
  <2>s. PICK strong : r = Select(tables, ranked, strong, max) /\ selection.max = max
    BY <2>2
  <2>3. IsSequence(tables)
    BY <2>1, SnapshotIs
  <2>4. \A t \in T : IsSequence(t.fks)
    <3> SUFFICES ASSUME NEW i \in DOMAIN tables PROVE IsSequence(tables[i].fks)
      OBVIOUS
    <3>1. i \in DOMAIN Tables /\ tables[i].fks = ForeignKeys(Tables[i].fkRows)
      BY <2>1, ShapeIs
    <3>2. IsSequence(Tables[i].fkRows)
      BY <2>1, <3>1, TablesAre DEF IsTable
    <3> HIDE DEF tables
    <3> QED BY <3>1, <3>2, KeysAreListed
  <2> HIDE DEF tables
  <2>5. Len(tables) \in Nat /\ DOMAIN tables = 1..Len(tables)
    BY <2>3 DEF IsSequence
  <2>6. /\ order \in [DOMAIN tables -> DOMAIN tables]
        /\ \A i \in DOMAIN tables : \E k \in DOMAIN tables : order[k] = i
    BY DEF Bijection, Injection, Surjection
  <2>7. ranked \in Seq(T)
    <3>1. ranked \in [1..Len(tables) -> T]
      BY <2>5, <2>6
    <3> HIDE DEF ranked, T
    <3> QED BY <2>5, <3>1, SeqDef
  <2>8. \A i \in DOMAIN tables : \E k \in DOMAIN ranked : ranked[k] = tables[i]
    BY <2>6
  <2>9. selection.max \in Nat /\ r = Select(tables, ranked, strong, selection.max)
    BY <2>s, LimitsAssumption
  <2> HIDE DEF ranked, T, r
  <2>10. FitsOrIsFull(r, tables, selection.max)
    <3>1. T = {tables[i] : i \in DOMAIN tables}
      BY DEF T
    <3> QED BY ONLY TextsHaveLengths, <2>3, <2>4, <2>7, <2>8, <2>9, <3>1, SelectIs
  <2> QED BY <2>10 DEF SelectionFits, FitsOrIsFull, tables, r
<1> QED BY <1>1, <1>2, SelectionKept, InitRefreshes, RefreshKeeps, PTL DEF PipelineSpec

=============================================================================
