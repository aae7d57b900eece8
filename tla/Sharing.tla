------------------------------- MODULE Sharing -------------------------------
(***************************************************************************)
(* Who may use what: the shares of a dashboard (routers/dashboards.py), the   *)
(* connections granted to a user (routers/connection_access.py,               *)
(* services/connections.py), the descriptions of a connection                 *)
(* (routers/glossary.py), and the dashboard or saved query                    *)
(* (routers/saved_queries.py) itself, under concurrent requests.              *)
(*                                                                         *)
(* Each request is a transaction at read committed: each of its reads sees    *)
(* what is committed then, its changes are published by its commit, and until *)
(* then it keeps every row it deletes, updates or inserts locked, one after   *)
(* the other.  Rows of the three tables have one shape, <<subject, object>>:  *)
(* a user's share of the dashboard, a user's access to a connection, the text *)
(* about a connection.  A row, and a widget, is named by the request that     *)
(* inserted it, which stands for its id.                                    *)
(***************************************************************************)
EXTENDS PanelRows, FiniteSets, Naturals

CONSTANTS
  Requests, People, Admins, Connections,
  Inactive,     \* people whose account is not active
  Owner,        \* who owns the board and each connection
  Board,        \* the dashboard or saved query
  Text,         \* the subject of a description
  Rank,         \* the order of the rows by id, which is that of a flush's updates
  Places,       \* where a layout may put the widget: [x, y]
  ShareLists,   \* the sets of grants a dashboard may be given: level by person
  Granted,      \* the sets of keys that may have a row at the outset
  Nothing

Objects == Connections \cup {Board}
Keys    == (People \cup {Text}) \X Objects
Texts   == {"text", "other text"}
Levels  == {"view", "edit", "use"} \cup Texts
Row     == [level : Levels, by : Requests \cup {"past"}]

ASSUME SharingAssumption ==
  /\ Admins \subseteq People /\ Inactive \subseteq People
  /\ Owner \in [Objects -> People]
  /\ Board \notin Connections /\ Text \notin People /\ Keys \cap Objects = {}
  /\ Rank \in [Keys -> Nat]
  /\ ShareLists \subseteq [People -> {Nothing, "view", "edit"}]
  /\ \A granted \in Granted : \A k \in granted : k \in Keys /\ k[1] # Owner[k[2]]
  /\ Places # {} /\ \A l \in Places : l = [x |-> l.x, y |-> l.y]
  /\ Nothing \notin Requests \cup People \cup Connections \cup Levels \cup Row \cup BOOLEAN \cup {"past"}

VARIABLES
  kind,      \* whether the board is a dashboard or a saved query
  exists,    \* the objects that exist
  rows,      \* the committed row of each key
  shared,    \* the board's shared flag
  item,      \* what runs on it: the dashboard's widget, or the saved query
  op, by,    \* what a request does, and for whom
  pc,        \* where it is
  want,      \* the rows, values or object it is about
  saw,       \* the rows it has read, by key
  loaded,    \* the board's flag and the item it has loaded
  pending,   \* its uncommitted changes, by key of the rows it has locked
  locked,    \* the objects it deletes or has referred to
  disturbed, \* requests under way when another one committed (history variable)
  lost,      \* runs under way when their caller lost the connection (history variable)
  mixed      \* the widget's place was written over one not read (history variable)

data    == <<exists, rows, shared, item, mixed>>
request == <<op, by, want, saw, loaded>>
held    == <<pending, locked>>
history == <<disturbed, lost>>
vars    == <<kind, data, request, held, pc, history>>

-----------------------------------------------------------------------------

NoWidget == [source |-> Nothing, place |-> Nothing, by |-> Nothing]
Level(row) == IF row = Nothing THEN Nothing ELSE row.level

\* get_accessible_connection.
CanUse(p, c) == c \in exists /\ (p = Owner[c] \/ p \in Admins \/ rows[<<p, c>>] # Nothing)

\* can_view, can_edit: of the flag that was loaded, and the grant there is.
CanView(p, flag) == p = Owner[Board] \/ flag \/ rows[<<p, Board>>] # Nothing
CanEdit(p, flag) == \/ p = Owner[Board]
                    \/ p \in Admins /\ flag
                    \/ Level(rows[<<p, Board>>]) = "edit"

Init ==
  /\ kind \in {"dashboard", "saved query"}
  /\ exists = Objects
  /\ \E granted \in Granted :
       rows = [k \in Keys |->
         IF k \notin granted \/ (k[2] = Board /\ kind # "dashboard") THEN Nothing
         ELSE [level |-> IF k[1] = Text THEN "text" ELSE IF k[2] = Board THEN "view" ELSE "use", by |-> "past"]]
  /\ shared \in BOOLEAN
  /\ item \in [source : Connections, place : {CHOOSE l \in Places : TRUE}, by : {"past"}]
  /\ op = [r \in Requests |-> "none"] /\ by = [r \in Requests |-> Nothing]
  /\ pc = [r \in Requests |-> "new"]
  /\ want = [r \in Requests |-> Nothing] /\ saw = [r \in Requests |-> Nothing]
  /\ loaded = [r \in Requests |-> Nothing]
  /\ pending = [r \in Requests |-> <<>>] /\ locked = [r \in Requests |-> {}]
  /\ disturbed = {} /\ lost = {} /\ mixed = FALSE

Goto(r, where) == pc' = [pc EXCEPT ![r] = where]
Ended(q)  == pc[q] \in {"done", "refused", "failed", "deadlocked"}
Active(q) == pc[q] # "new" /\ ~Ended(q)

\* A request is over: its session is closed and its locks are released.
Closes(r, where) ==
  /\ Goto(r, where)
  /\ op' = [op EXCEPT ![r] = "none"] /\ by' = [by EXCEPT ![r] = Nothing] /\ want' = [want EXCEPT ![r] = Nothing]
  /\ saw' = [saw EXCEPT ![r] = Nothing] /\ loaded' = [loaded EXCEPT ![r] = Nothing]
  /\ pending' = [pending EXCEPT ![r] = <<>>] /\ locked' = [locked EXCEPT ![r] = {}]
  /\ UNCHANGED kind

\* A commit is seen by the requests under way, which may have read before it.
Publishes(r) == Closes(r, "done") /\ disturbed' = {q \in Requests \ {r} : q \in disturbed \/ Active(q)}

\* A request that changes nothing, or whose transaction is rolled back because its
\* handler raised; a refused one answers 403, 404 or 409.
Ends(r, where) == Closes(r, where) /\ disturbed' = disturbed \ {r} /\ lost' = lost \ {r} /\ UNCHANGED data

Moves(r, where) == Goto(r, where) /\ UNCHANGED <<kind, data, op, by, want, held, history>>

\* A check lets a request pass or refuses it.
Checks(r, from, allowed, where) ==
  /\ pc[r] = from
  /\ IF allowed THEN Moves(r, where) /\ UNCHANGED <<saw, loaded>> ELSE Ends(r, "refused")

\* A request arrives.  One about the board loads it first: the flag, and all of a
\* saved query.
Arrive(r, o, p, w, allowed, where) ==
  /\ pc[r] = "new"
  /\ IF ~allowed THEN Ends(r, "refused")
     ELSE /\ op' = [op EXCEPT ![r] = o] /\ by' = [by EXCEPT ![r] = p] /\ want' = [want EXCEPT ![r] = w]
          /\ loaded' = [loaded EXCEPT ![r] =
               IF where = "read" \/ o = "disconnect" THEN Nothing
               ELSE [flag |-> shared, item |-> IF kind = "dashboard" THEN NoWidget ELSE item]]
          /\ Goto(r, where)
          /\ UNCHANGED <<kind, data, saw, held, history>>

-----------------------------------------------------------------------------
(* The checks of a request about the board.                                 *)

\* The caller's grant on a dashboard is read after the dashboard.  Whoever may
\* see it may run it; its owner and the administrators may manage its shares.
View(r) ==
  LET sees == CanView(by[r], loaded[r].flag)
  IN CASE op[r] = "replace" -> Checks(r, "view", sees /\ by[r] \in {Owner[Board]} \cup Admins, "read")
       [] op[r] = "run" -> Checks(r, "view", sees, "load")
       [] OTHER -> Checks(r, "view", sees, "edit")

\* It is read once more for an edit.
MayEdit(r) ==
  Checks(r, "edit", CanEdit(by[r], loaded[r].flag),
    CASE op[r] = "publish" -> "write"
      [] op[r] = "delete"  -> "work"
      [] op[r] = "create widget" -> "use"
      [] OTHER -> "load")

\* The widget; a layout takes the widgets there are.
LoadItem(r) ==
  /\ pc[r] = "load"
  /\ IF (op[r] = "run" /\ item.source = Nothing) \/ (op[r] # "layout" /\ item = NoWidget) THEN Ends(r, "refused")
     ELSE /\ Moves(r, IF op[r] = "run" \/ (op[r] = "update widget" /\ want[r].source # Nothing) THEN "use" ELSE "write")
          /\ loaded' = [loaded EXCEPT ![r].item = item] /\ UNCHANGED saw

\* Mutant of MayRun: the board's visibility is taken for access to its data.
MayRunVisible(p, c) == CanView(p, shared)

\* run_widget, run_saved_query: the caller's own access to the connection counts.
MayRun(p, c) == CanUse(p, c)

Use(r) ==
  IF op[r] = "run" THEN Checks(r, "use", MayRun(by[r], loaded[r].item.source), "run")
  ELSE Checks(r, "use", CanUse(by[r], want[r].source), "write")

\* run_widget, run_saved_query.
Run(r) ==
  \E p \in People :
    IF kind = "dashboard" THEN Arrive(r, "run", p, Nothing, Board \in exists, "view")
    ELSE Arrive(r, "run", p, Nothing, Board \in exists /\ CanView(p, shared) /\ item.source # Nothing, "use")

\* The statement is run, and its rows are shown.
RunEnds(r) == pc[r] = "run" /\ \E where \in {"done", "refused"} : Ends(r, where)

-----------------------------------------------------------------------------
(* Replacing a set of rows.                                                 *)

\* Mutant of SetShares: the owner is not left out.
SetSharesOfAll(r) ==
  \E p \in People, level \in ShareLists :
    /\ kind = "dashboard"
    /\ Arrive(r, "replace", p, [k \in People \X {Board} |-> IF k[1] \in Inactive THEN Nothing ELSE level[k[1]]],
              Board \in exists, "view")

\* set_dashboard_shares: the full set of grants, less the owner and inactive users.
SetShares(r) ==
  \E p \in People, level \in ShareLists :
    /\ kind = "dashboard"
    /\ Arrive(r, "replace", p,
              [k \in People \X {Board} |-> IF k[1] \in Inactive \cup {Owner[Board]} THEN Nothing ELSE level[k[1]]],
              Board \in exists, "view")

\* set_user_access: the full set of a user's connections, less those that do
\* not exist or are the user's own.
SetAccess(r) ==
  \E p, u \in People, granted \in SUBSET Connections :
    Arrive(r, "replace", p,
           [k \in {u} \X Connections |-> IF k[2] \in granted \cap exists /\ Owner[k[2]] # u THEN "use" ELSE Nothing],
           p \in Admins, "read")

\* upsert_description, delete_description.
Describe(r) ==
  \E p \in People, c \in Connections, text \in Texts :
    Arrive(r, "replace", p, [k \in {<<Text, c>>} |-> text], CanUse(p, c), "read")
DeleteDescription(r) ==
  \E p \in People, c \in Connections :
    Arrive(r, "drop", p, [k \in {<<Text, c>>} |-> Nothing], CanUse(p, c), "read")

Scope(r) == DOMAIN want[r]

\* The rows there are; a description that is to go may be none of them.
ReadRows(r) ==
  /\ pc[r] = "read"
  /\ \/ op[r] = "drop" /\ Ends(r, "refused")
     \/ /\ op[r] = "drop" => \A k \in Scope(r) : rows[k] # Nothing
        /\ Moves(r, "send") /\ saw' = [saw EXCEPT ![r] = [k \in Scope(r) |-> rows[k]]] /\ UNCHANGED loaded

\* Mutants of ToUpdate and ToInsert: a level is not changed; a row that exists is
\* inserted again.
ToUpdateNone(r) == {}
ToInsertAll(r)  == {k \in Scope(r) : want[r][k] # Nothing}

ToRemove(r) == {k \in Scope(r) : saw[r][k] # Nothing /\ want[r][k] = Nothing}
ToUpdate(r) == {k \in Scope(r) : saw[r][k] # Nothing /\ want[r][k] \notin {Nothing, saw[r][k].level}}
ToInsert(r) == {k \in Scope(r) : saw[r][k] = Nothing /\ want[r][k] # Nothing}

\* One DELETE for the keys to go takes the rows they have by then; the one
\* description goes by its id.
SendDelete(r) ==
  /\ pc[r] = "send" /\ Moves(r, "work") /\ UNCHANGED loaded
  /\ saw' = IF op[r] = "drop" THEN saw
            ELSE [saw EXCEPT ![r] = [k \in Scope(r) |-> IF k \in ToRemove(r) THEN rows[k] ELSE saw[r][k]]]

-----------------------------------------------------------------------------
(* The locks of a replace or of a deletion.                                 *)

Deletes(r) == op[r] \in {"delete", "disconnect"}

\* The row that was read is gone.
Gone(r, k) == rows[k] = Nothing \/ rows[k].by # saw[r][k].by

\* The rows still to be locked: by a DELETE those it saw that are there, by a
\* deletion those of its object.  The UPDATEs of several rows go in one batch, which
\* passes over a row that is gone, as the driver counts none.
Removals(r) == {k \in ToRemove(r) \ DOMAIN pending[r] : ~Gone(r, k)}
Updates(r)  == {k \in ToUpdate(r) \ DOMAIN pending[r] : Gone(r, k) => ToUpdate(r) = {k}}
Inserts(r)  == ToInsert(r) \ DOMAIN pending[r]
Cascade(r)  == {k \in Keys \ DOMAIN pending[r] : k[2] \in locked[r] /\ rows[k] # Nothing}

Left(r) == IF pc[r] # "work" THEN {}
           ELSE IF Deletes(r) THEN Cascade(r) ELSE Removals(r) \cup Updates(r) \cup Inserts(r)

\* Those that may be next: the DELETE first, then the UPDATEs in their order, then
\* the INSERTs.
First(r) ==
  {k \in Left(r) :
    ~Deletes(r) =>
      /\ k \notin Removals(r) => Removals(r) = {}
      /\ k \in Updates(r) => \A l \in Updates(r) : Rank[k] <= Rank[l]
      /\ k \in Inserts(r) => Updates(r) = {}}

\* A board's new values.
Flips(r)   == want[r].flag # loaded[r].flag
Rebinds(r) == kind = "saved query" /\ want[r].source # loaded[r].item.source

\* The objects still to be locked: what a deletion deletes, what new rows refer to
\* once they are in, what an edit changes or refers to.
Refers(r) ==
  CASE pc[r] = "work" /\ Deletes(r)  -> {want[r]} \ locked[r]
    [] pc[r] = "work" /\ ~Deletes(r) -> IF Left(r) # {} THEN {} ELSE {k[2] : k \in ToInsert(r)} \ locked[r]
    [] pc[r] = "write" /\ op[r] = "publish" ->
         (IF Flips(r) \/ Rebinds(r) THEN {Board} ELSE {}) \cup (IF Rebinds(r) THEN {want[r].source} \ {Nothing} ELSE {})
    [] pc[r] = "write" /\ op[r] = "create widget" -> {Board, want[r].source}
    [] pc[r] = "write" /\ op[r] = "update widget" -> {want[r].source} \ {Nothing, loaded[r].item.source}
    [] OTHER -> {}

\* Rows are locked by one request at a time; objects that are referred to by many,
\* unless one deletes it.
Bars(q, r, o)  == o \in locked[q] /\ (Deletes(q) \/ Deletes(r))
Waits(r, q)    == q # r /\ (First(r) \cap DOMAIN pending[q] # {} \/ \E o \in Refers(r) : Bars(q, r, o))
FreeRow(r, k)  == \A q \in Requests \ {r} : k \notin DOMAIN pending[q]
FreeObject(r, o) == \A q \in Requests \ {r} : ~Bars(q, r, o)
MayGo(r)       == \A o \in Refers(r) : FreeObject(r, o)

\* A row loaded and gone, and a key taken: the flush raises.
Obsolete(r, k) == (k \in ToUpdate(r) /\ Gone(r, k)) \/ (k \in ToInsert(r) /\ rows[k] # Nothing)

NewRow(r, k) ==
  IF Deletes(r) \/ want[r][k] = Nothing THEN Nothing
  ELSE IF k \in ToUpdate(r) THEN [rows[k] EXCEPT !.level = want[r][k]]
  ELSE [level |-> want[r][k], by |-> r]

LockRow(r) ==
  \E k \in First(r) :
    /\ FreeRow(r, k)
    /\ IF ~Deletes(r) /\ Obsolete(r, k) THEN Ends(r, "failed")
       ELSE /\ pending' = [pending EXCEPT ![r] = [j \in DOMAIN pending[r] \cup {k} |->
                                                  IF j = k THEN NewRow(r, k) ELSE pending[r][j]]]
            /\ UNCHANGED <<kind, data, request, pc, locked, history>>

\* What is referred to and gone raises; a deletion of what is gone does nothing.
LockObject(r) ==
  /\ pc[r] = "work"
  /\ \E o \in Refers(r) :
       /\ FreeObject(r, o)
       /\ IF o \notin exists THEN Ends(r, IF Deletes(r) THEN "done" ELSE "failed")
          ELSE /\ locked' = [locked EXCEPT ![r] = @ \cup {o}]
               /\ UNCHANGED <<kind, data, request, pc, pending, history>>

\* The database breaks a cycle of waiting requests by failing one.
Deadlock(r) ==
  /\ \E q \in Requests : Waits(r, q) /\ (Waits(q, r) \/ \E s \in Requests : Waits(q, s) /\ Waits(s, r))
  /\ Ends(r, "deadlocked")

\* Everything is locked and written.
Ready(r) == pc[r] = "work" /\ Left(r) = {} /\ Refers(r) = {}
Written(r) == [k \in Keys |-> IF k \in DOMAIN pending[r] THEN pending[r][k] ELSE rows[k]]

\* The runs past their check whose caller loses the connection.
Allowed(r) == CanUse(by[r], loaded[r].item.source)
Watch == lost' = {r \in Requests : pc[r] = "run" /\ (r \in lost \/ (Allowed(r) /\ ~Allowed(r)'))}

CommitRows(r) ==
  /\ Ready(r) /\ ~Deletes(r) /\ Publishes(r)
  /\ rows' = Written(r)
  /\ UNCHANGED <<exists, shared, item, mixed>> /\ Watch

\* delete_dashboard, delete_saved_query, delete_connection: what belongs to a board
\* goes with it, what runs on a connection loses it.
CommitDeletion(r) ==
  /\ Ready(r) /\ Deletes(r) /\ Publishes(r)
  /\ exists' = exists \ {want[r]} /\ rows' = Written(r)
  /\ item' = IF want[r] = Board THEN NoWidget
             ELSE IF item.source = want[r] THEN [item EXCEPT !.source = Nothing] ELSE item
  /\ UNCHANGED <<shared, mixed>> /\ Watch

-----------------------------------------------------------------------------
(* The board and what is on it.                                             *)

Writes == {"publish", "create widget", "update widget", "delete widget", "layout"}

\* An edit of a saved query is checked when it is loaded.
Opens(r, o, p, w, where) ==
  IF kind = "dashboard" THEN Arrive(r, o, p, w, Board \in exists, "view")
  ELSE Arrive(r, o, p, w, Board \in exists /\ CanView(p, shared) /\ CanEdit(p, shared), where)

\* What is not sent, and what is sent as null, is Nothing; a flag not sent is the
\* one that was loaded.
Edit(r, o) ==
  \E p \in People, flag \in BOOLEAN \cup {Nothing}, source \in Connections \cup {Nothing}, place \in Places :
    /\ kind = "dashboard" \/ o = "publish"
    /\ o # "publish" => flag = Nothing
    /\ source # Nothing => o \in {"create widget", "update widget"} \/ kind = "saved query"
    /\ o = "create widget" => source # Nothing
    /\ o # "layout" => place = CHOOSE l \in Places : TRUE
    /\ Opens(r, o, p, [flag |-> flag, source |-> source, place |-> place], "write")

Delete(r) == \E p \in People : Opens(r, "delete", p, Board, "work")

\* delete_connection, by its owner or an admin.
DeleteConnection(r) ==
  \E p \in People, c \in Connections :
    Arrive(r, "disconnect", p, c, c \in exists /\ p \in {Owner[c]} \cup Admins, "work")

\* Values the database refuses: a flag that is null, a connection there is none of,
\* which update_saved_query does not look up.
Unfit(r) == op[r] = "publish" /\ (want[r].flag = Nothing \/ (Rebinds(r) /\ want[r].source \notin exists \cup {Nothing}))

\* update_dashboard, update_saved_query: what differs from what was loaded is
\* written; the dashboard is then read again.
Publish(r) ==
  /\ pc[r] = "write" /\ op[r] = "publish" /\ MayGo(r)
  /\ IF Unfit(r) \/ (Board \notin exists /\ (kind = "dashboard" \/ Refers(r) # {})) THEN Ends(r, "failed")
     ELSE IF Refers(r) = {} THEN Ends(r, "done")
     ELSE /\ Publishes(r)
          /\ shared' = IF Flips(r) THEN want[r].flag ELSE shared
          /\ item' = IF Rebinds(r) THEN [item EXCEPT !.source = want[r].source] ELSE item
          /\ UNCHANGED <<exists, rows, mixed, lost>>

\* Only one widget is followed: another one beside it changes nothing here.
CreateWidget(r) ==
  /\ pc[r] = "write" /\ op[r] = "create widget" /\ MayGo(r)
  /\ IF ~({Board, want[r].source} \subseteq exists) THEN Ends(r, "failed")
     ELSE IF item # NoWidget THEN Ends(r, "done")
     ELSE /\ Publishes(r)
          /\ item' = [source |-> want[r].source, place |-> want[r].place, by |-> r] /\ mixed' = FALSE
          /\ UNCHANGED <<exists, rows, shared, lost>>

\* The columns that differ from what was loaded are written.  A widget that is gone
\* raises, but not in a layout's batch of several widgets.
WriteWidget(r, old, new) ==
  \/ new = old /\ Ends(r, "done")
  \/ /\ new # old /\ item.by # old.by
     /\ \E where \in {"failed", "done"} : (where = "done" => op[r] = "layout") /\ Ends(r, where)
  \/ /\ new # old /\ item.by = old.by
     /\ Publishes(r)
     /\ item' = [item EXCEPT !.source = IF new.source = old.source THEN @ ELSE new.source,
                             !.place  = Changed(@, old.place, new.place)]
     /\ mixed' = IF op[r] = "layout" THEN item.place # old.place ELSE mixed
     /\ UNCHANGED <<exists, rows, shared, lost>>

UpdateWidget(r) ==
  /\ pc[r] = "write" /\ op[r] = "update widget" /\ MayGo(r)
  /\ IF ~(Refers(r) \subseteq exists) THEN Ends(r, "failed")
     ELSE WriteWidget(r, loaded[r].item, [loaded[r].item EXCEPT !.source = want[r].source])

\* A widget gone when the layout's widgets were loaded is left out.
SaveLayout(r) ==
  /\ pc[r] = "write" /\ op[r] = "layout"
  /\ IF loaded[r].item = NoWidget THEN Ends(r, "done")
     ELSE WriteWidget(r, loaded[r].item, [loaded[r].item EXCEPT !.place = want[r].place])

DeleteWidget(r) ==
  /\ pc[r] = "write" /\ op[r] = "delete widget"
  /\ IF item.by # loaded[r].item.by THEN Ends(r, "done")
     ELSE Publishes(r) /\ item' = NoWidget /\ UNCHANGED <<exists, rows, shared, mixed, lost>>

-----------------------------------------------------------------------------

Arrives(r) == \/ SetShares(r) \/ SetAccess(r) \/ Describe(r) \/ DeleteDescription(r)
              \/ Delete(r) \/ DeleteConnection(r) \/ Run(r) \/ (\E o \in Writes : Edit(r, o))
Goes(r) == \/ View(r) \/ MayEdit(r) \/ LoadItem(r) \/ Use(r) \/ RunEnds(r)
           \/ ReadRows(r) \/ SendDelete(r) \/ LockRow(r) \/ LockObject(r) \/ Deadlock(r)
           \/ CommitRows(r) \/ CommitDeletion(r)
           \/ Publish(r) \/ CreateWidget(r) \/ UpdateWidget(r) \/ SaveLayout(r) \/ DeleteWidget(r)

Over == (\A r \in Requests : Ended(r)) /\ UNCHANGED vars

Next == (\E r \in Requests : Arrives(r) \/ Goes(r)) \/ Over

Spec == Init /\ [][Next]_vars

-----------------------------------------------------------------------------
(* Properties.                                                             *)

TypeOK ==
  /\ exists \subseteq Objects /\ shared \in BOOLEAN /\ mixed \in BOOLEAN
  /\ rows \in [Keys -> {Nothing} \cup Row]
  /\ item.source \in Connections \cup {Nothing}
  /\ pc \in [Requests -> {"new", "view", "edit", "load", "use", "run", "read", "send", "work", "write",
                          "done", "refused", "failed", "deadlocked"}]

\* Nothing refers to what was deleted, and nobody is granted what they own, which
\* would outlast a change of hands; a key has one writer at a time.
NothingDangles ==
  /\ \A k \in Keys : rows[k] # Nothing => k[2] \in exists /\ k[1] # Owner[k[2]]
  /\ item.source \in exists \cup {Nothing}
  /\ (item # NoWidget => Board \in exists)
  /\ \A r, q \in Requests : r # q => DOMAIN pending[r] \cap DOMAIN pending[q] = {}

\* The widget stands where some layout put it, unless a layout was saved over
\* one its author had not seen: then it may stand where nobody put it.
PlaceIsOneSave == item = NoWidget \/ item.place \in Places \/ mixed

SharingInv == TypeOK /\ NothingDangles /\ PlaceIsOneSave

\* A replace leaves exactly the set that was asked for, unless another request
\* committed while it ran.
ReplaceIsExact ==
  [][ \A r \in Requests : op[r] = "replace" /\ pc[r] = "work" /\ pc'[r] = "done" /\ r \notin disturbed =>
        \A k \in Scope(r) : Level(rows'[k]) = want[r][k] ]_vars

\* The rows and objects a replace or a deletion may have to lock.
Touches(r) ==
  CASE op[r] \in {"replace", "drop"} -> ToRemove(r) \cup ToUpdate(r) \cup ToInsert(r) \cup {k[2] : k \in ToInsert(r)}
    [] Deletes(r) -> {want[r]} \cup {k \in Keys : k[2] = want[r]}
    [] OTHER -> {}

\* Two requests that each have something more to lock than what they share.
Cross(r, q) ==
  \E x \in Touches(r) \cap Touches(q), y \in Touches(r), z \in Touches(q) : x # y /\ x # z

\* A request fails with a server error only when another one committed while it ran,
\* or when it sends what the database refuses; and as a deadlock's victim only by
\* another replace or deletion, when both have more to lock than the one thing they
\* meet at.  Edits, runs and single descriptions that exist are never victims.
FailuresAreRaces ==
  [][ \A r \in Requests :
        /\ pc[r] # "failed" /\ pc'[r] = "failed" => r \in disturbed \/ Unfit(r)
        /\ pc[r] # "deadlocked" /\ pc'[r] = "deadlocked" => \E q \in Requests \ {r} : Cross(r, q) ]_vars

\* The rows of a connection are shown only to a caller that may use it, or that
\* could when the run checked and lost it before the rows came.
RowsNeedAccess ==
  [][ \A r \in Requests : pc[r] = "run" /\ pc'[r] = "done" => Allowed(r) \/ r \in lost ]_vars

\* Replace a dashboard's full set of per-user grants.
FullSetIsReplaced ==
  [][ \A r \in Requests : op[r] = "replace" /\ pc[r] = "work" /\ pc'[r] = "done" =>
        \A k \in Scope(r) : Level(rows'[k]) = want[r][k] ]_vars

\* A shared saved query is runnable by every panel user.
SharedQueriesRun ==
  [][ \A r \in Requests : kind = "saved query" /\ op[r] = "run" /\ loaded[r].flag /\ pc[r] = "use" => pc'[r] # "refused" ]_vars

\* A widget is edited only by those who may edit the dashboard then.
EditorsMayEdit ==
  [][ \A r \in Requests : op[r] \in Writes /\ pc[r] = "write" /\ item' # item => CanEdit(by[r], shared) ]_vars

=============================================================================
