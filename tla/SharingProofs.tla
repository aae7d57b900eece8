---------------------------- MODULE SharingProofs ----------------------------
(***************************************************************************)
(* Sharing is correct for any people, connections, grants and requests: what *)
(* is deleted is referred to by nothing, a replace nobody overtook leaves     *)
(* what was asked for, requests fail only by races, and a run shows a         *)
(* connection's rows only to a caller who could use it.                       *)
(***************************************************************************)
EXTENDS Sharing, TLAPS

Spots   == [x : {l.x : l \in Places}, y : {l.y : l \in Places}]
Widgets == {NoWidget} \cup
           [source : Connections \cup {Nothing}, place : Spots, by : Requests \cup {"past"}]

Ends4  == {"done", "refused", "failed", "deadlocked"}
Stages == {"new", "view", "edit", "load", "use", "run", "read", "send", "work", "write"} \cup Ends4

Typed ==
  /\ pc \in [Requests -> Stages]
  /\ DOMAIN op = Requests /\ DOMAIN by = Requests /\ DOMAIN want = Requests
  /\ DOMAIN saw = Requests /\ DOMAIN loaded = Requests
  /\ DOMAIN pending = Requests /\ DOMAIN locked = Requests

\* What holds of the data alone.
DataInv ==
  /\ exists \subseteq Objects /\ shared \in BOOLEAN /\ mixed \in BOOLEAN
  /\ rows \in [Keys -> {Nothing} \cup Row]
  /\ item \in Widgets /\ item.source \in exists \cup {Nothing}
  /\ item # NoWidget => Board \in exists
  /\ kind # "dashboard" /\ Board \in exists => item # NoWidget
  /\ \A k \in Keys : rows[k] # Nothing => k[2] \in exists /\ k[1] # Owner[k[2]]
  /\ PlaceIsOneSave

\* What a request is about, by where it is.
OpInv(r) ==
  /\ ~Active(r) => op[r] = "none"
  /\ pc[r] = "view" => op[r] \in {"replace", "run", "delete"} \cup Writes
  /\ pc[r] = "edit" => op[r] \in {"delete"} \cup Writes
  /\ pc[r] = "load" => op[r] \in {"run", "update widget", "delete widget", "layout"}
  /\ pc[r] = "use"  => op[r] \in {"run", "create widget", "update widget"}
  /\ pc[r] \in {"use", "write"} /\ op[r] = "update widget" => loaded[r].item # NoWidget
  /\ pc[r] \in {"read", "send"} => op[r] \in {"replace", "drop"}
  /\ pc[r] = "work" => op[r] \in {"replace", "drop", "delete", "disconnect"}
  /\ pc[r] = "write" => op[r] \in Writes

Replaces(r) == op[r] \in {"replace", "drop"}

WantInv(r) ==
  /\ Replaces(r) =>
       /\ Scope(r) \subseteq Keys
       /\ \A k \in Scope(r) : want[r][k] \in Levels \cup {Nothing} /\ (want[r][k] # Nothing => k[1] # Owner[k[2]])
  /\ op[r] \in Writes =>
       /\ want[r].flag \in BOOLEAN \cup {Nothing} /\ want[r].source \in Connections \cup {Nothing}
       /\ want[r].place \in Places /\ (op[r] = "create widget" => want[r].source # Nothing)
  /\ op[r] \in Writes \ {"publish"} => kind = "dashboard"
  /\ op[r] = "delete" => want[r] = Board
  /\ Deletes(r) => want[r] \in Objects
  /\ op[r] \in Writes \cup {"run"} => loaded[r] \in [flag : BOOLEAN, item : Widgets]

\* What it holds, and what its new rows are.
HoldInv(r) ==
  /\ pc[r] # "work" => DOMAIN pending[r] = {} /\ locked[r] = {}
  /\ locked[r] \subseteq exists
  /\ Deletes(r) =>
       /\ locked[r] \subseteq {want[r]}
       /\ \A k \in DOMAIN pending[r] : k \in Keys /\ k[2] = want[r] /\ pending[r][k] = Nothing
  /\ pc[r] = "work" /\ Replaces(r) =>
       /\ locked[r] \subseteq {k[2] : k \in ToInsert(r)}
       /\ \A k \in DOMAIN pending[r] :
            /\ k \in ToRemove(r) \cup ToUpdate(r) \cup ToInsert(r)
            /\ pending[r][k] \in Row \cup {Nothing} /\ Level(pending[r][k]) = want[r][k]
            /\ k \in ToUpdate(r) => rows[k] # Nothing

\* Two requests lock no row, and no object one of them deletes, together.
Apart(r, q) ==
  /\ DOMAIN pending[r] \cap DOMAIN pending[q] = {}
  /\ \A o \in locked[r] \cap locked[q] : ~Deletes(r) /\ ~Deletes(q)

RunInv(r) == pc[r] = "run" => Allowed(r) \/ r \in lost

\* What a request nobody overtook has read, and checked, still holds.
FreshReplace(r) == Replaces(r) =>
  /\ \A k \in Scope(r) : want[r][k] # Nothing => k[2] \in exists
  /\ pc[r] \in {"send", "work"} => \A k \in Scope(r) : saw[r][k] = rows[k]

FreshEdit(r) == op[r] \in Writes =>
  /\ Board \in exists
  /\ pc[r] \in {"use", "write"} /\ op[r] \in {"update widget", "delete widget", "layout"} => loaded[r].item = item
  /\ pc[r] = "write" /\ op[r] \in {"create widget", "update widget"} => want[r].source \in exists \cup {Nothing}

Fresh(r) == FreshReplace(r) /\ FreshEdit(r)

RequestInv(r) ==
  /\ OpInv(r) /\ WantInv(r) /\ HoldInv(r) /\ RunInv(r)
  /\ r \notin disturbed => Fresh(r)

BoardInv ==
  /\ Typed /\ DataInv
  /\ \A r, q \in Requests : r # q => Apart(r, q)
  /\ \A r \in Requests : RequestInv(r)

-----------------------------------------------------------------------------
(* What a step leaves alone.                                               *)

Same(q) ==
  /\ pc'[q] = pc[q] /\ op'[q] = op[q] /\ by'[q] = by[q] /\ want'[q] = want[q]
  /\ saw'[q] = saw[q] /\ loaded'[q] = loaded[q] /\ pending'[q] = pending[q] /\ locked'[q] = locked[q]

Others(r) == UNCHANGED kind /\ \A q \in Requests \ {r} : Same(q)

\* What a step of r does to the data: it deletes an object it has locked, and writes
\* rows it has locked; whom that reaches is disturbed, and a run's loss is noted.
Affects(r) ==
  /\ exists' \subseteq exists /\ \A o \in exists \ exists' : o \in locked[r] /\ Deletes(r)
  /\ \A k \in Keys : k \notin DOMAIN pending[r] => rows'[k] = rows[k]
  /\ \A q \in Requests \ {r} :
       /\ q \in disturbed => q \in disturbed'
       /\ Active(q) /\ q \notin disturbed' => UNCHANGED <<exists, rows, item>>
       /\ pc[q] = "run" /\ (Allowed(q) \/ q \in lost) => Allowed(q)' \/ q \in lost'

LEMMA OthersKeep ==
  ASSUME BoardInv, NEW r \in Requests, Others(r), Affects(r), NEW q \in Requests \ {r}
  PROVE  RequestInv(q)'
<1>1. Same(q) /\ kind' = kind /\ RequestInv(q) /\ Apart(r, q)
  BY DEF Others, BoardInv
<1>2. OpInv(q)' /\ WantInv(q)' /\ (Active(q)' <=> Active(q))
  <2>1. OpInv(q)' /\ (Active(q)' <=> Active(q))
    BY <1>1 DEF Same, RequestInv, OpInv, Active, Ended
  <2>2. WantInv(q)'
    BY <1>1 DEF Same, RequestInv, WantInv, Replaces, Deletes, Scope
  <2> QED BY <2>1, <2>2
<1>3. /\ ToRemove(q)' = ToRemove(q) /\ ToUpdate(q)' = ToUpdate(q) /\ ToInsert(q)' = ToInsert(q) /\ Scope(q)' = Scope(q)
      /\ (Replaces(q)' <=> Replaces(q)) /\ (Deletes(q)' <=> Deletes(q))
  BY <1>1 DEF Same, ToRemove, ToUpdate, ToInsert, Scope, Replaces, Deletes
<1>4. HoldInv(q)'
  <2>1. locked[q] \subseteq exists'
    BY <1>1 DEF Affects, RequestInv, HoldInv, Apart
  <2>2. pc[q] = "work" /\ Replaces(q) => \A k \in DOMAIN pending[q] : rows'[k] = rows[k]
    <3>1. pc[q] = "work" /\ Replaces(q) => DOMAIN pending[q] \subseteq Keys
      BY <1>1 DEF RequestInv, HoldInv, WantInv, ToRemove, ToUpdate, ToInsert
    <3> QED BY <1>1, <3>1 DEF Affects, Apart
  <2> QED BY <1>1, <1>3, <2>1, <2>2 DEF Same, RequestInv, HoldInv
<1>5. RunInv(q)'
  BY <1>1 DEF Same, RequestInv, RunInv, Affects
<1>6. (q \notin disturbed => Fresh(q))'
  <2>1. CASE ~Active(q)
    BY <1>1, <1>2, <2>1 DEF RequestInv, OpInv, Fresh, FreshReplace, FreshEdit, Replaces, Writes
  <2>2. CASE Active(q)
    <3>1. q \notin disturbed' => Fresh(q) /\ UNCHANGED <<exists, rows, item>>
      BY <1>1, <2>2 DEF Affects, RequestInv
    <3> QED BY <1>1, <1>3, <3>1 DEF Same, Fresh, FreshReplace, FreshEdit
  <2> QED BY <2>1, <2>2
<1> QED BY <1>2, <1>4, <1>5, <1>6 DEF RequestInv

LEMMA StepKeeps ==
  ASSUME BoardInv, NEW r \in Requests, Others(r), Affects(r), Typed', DataInv', RequestInv(r)',
         \A q \in Requests \ {r} : Apart(r, q)'
  PROVE  BoardInv'
<1>1. \A q \in Requests : RequestInv(q)'
  BY OthersKeep
<1>2. ASSUME NEW p \in Requests, NEW q \in Requests, p # q PROVE Apart(p, q)'
  <2>1. CASE p = r
    BY <1>2, <2>1
  <2>2. CASE q = r
    <3>1. Apart(r, p)'
      BY <1>2, <2>2
    <3> QED BY <2>2, <3>1 DEF Apart
  <2>3. CASE p # r /\ q # r
    BY <1>2, <2>3 DEF BoardInv, Others, Same, Apart, Deletes
  <2> QED BY <2>1, <2>2, <2>3
<1> QED BY <1>1, <1>2 DEF BoardInv

\* A step that changes no data keeps the whole invariant if it keeps its own part.
LEMMA QuietStep ==
  ASSUME BoardInv, NEW r \in Requests, UNCHANGED data, Others(r), Typed', RequestInv(r)',
         \A q \in Requests \ {r} : Apart(r, q)',
         disturbed' \in {disturbed, disturbed \ {r}}, lost' \in {lost, lost \ {r}}
  PROVE  BoardInv'
<1>1. UNCHANGED <<exists, rows, shared, item, mixed>>
  BY DEF data
<1>2. DataInv'
  BY <1>1 DEF BoardInv, DataInv, PlaceIsOneSave, Others
<1>3. Affects(r)
  <2>1. \A q \in Requests \ {r} : Allowed(q)' = Allowed(q)
    BY <1>1 DEF Allowed, CanUse, Others, Same
  <2> QED BY <1>1, <2>1 DEF Affects
<1> QED BY <1>2, <1>3, StepKeeps

\* A request that is over holds nothing.
LEMMA Closed ==
  ASSUME BoardInv, NEW r \in Requests, NEW where \in Ends4, Closes(r, where)
  PROVE  /\ Typed' /\ Others(r) /\ (\A q \in Requests \ {r} : Apart(r, q)')
         /\ OpInv(r)' /\ WantInv(r)' /\ HoldInv(r)' /\ RunInv(r)' /\ Fresh(r)'
<1>1. Typed' /\ Others(r)
  <2>1. pc' \in [Requests -> Stages]
    BY DEF Closes, Goto, BoardInv, Typed, Stages
  <2> QED BY <2>1 DEF Closes, Goto, BoardInv, Typed, Others, Same
<1>2. pc'[r] = where /\ op'[r] = "none" /\ pending'[r] = <<>> /\ locked'[r] = {}
  BY DEF Closes, Goto, BoardInv, Typed
<1>3. DOMAIN pending'[r] = {}
  BY <1>2
<1>4. \A q \in Requests \ {r} : Apart(r, q)'
  BY <1>2, <1>3 DEF Apart
<1>5. OpInv(r)' /\ WantInv(r)' /\ HoldInv(r)' /\ RunInv(r)' /\ Fresh(r)'
  <2>1. ~Active(r)' /\ ~Deletes(r)' /\ ~Replaces(r)' /\ op'[r] \notin Writes \cup {"run", "delete"}
    BY <1>2 DEF Active, Ended, Deletes, Replaces, Writes, Ends4
  <2>2. OpInv(r)' /\ RunInv(r)'
    BY <1>2, <2>1 DEF OpInv, RunInv, Ends4
  <2>3. WantInv(r)' /\ HoldInv(r)' /\ Fresh(r)'
    BY <1>2, <1>3, <2>1 DEF WantInv, HoldInv, Fresh, FreshReplace, FreshEdit, Ends4
  <2> QED BY <2>2, <2>3
<1> QED BY <1>1, <1>4, <1>5

LEMMA EndsKeeps ==
  ASSUME BoardInv, NEW r \in Requests, NEW where \in Ends4, Ends(r, where)
  PROVE  BoardInv'
<1>1. Closes(r, where) /\ disturbed' = disturbed \ {r} /\ lost' = lost \ {r} /\ UNCHANGED data
  BY DEF Ends
<1>2. /\ Typed' /\ Others(r) /\ (\A q \in Requests \ {r} : Apart(r, q)')
      /\ OpInv(r)' /\ WantInv(r)' /\ HoldInv(r)' /\ RunInv(r)' /\ Fresh(r)'
  BY <1>1, Closed
<1>3. RequestInv(r)'
  BY <1>2 DEF RequestInv
<1> QED BY <1>1, <1>2, <1>3, QuietStep

LEMMA PublishesKeeps ==
  ASSUME BoardInv, NEW r \in Requests, Publishes(r), DataInv',
         exists' \subseteq exists, \A o \in exists \ exists' : o \in locked[r] /\ Deletes(r),
         \A k \in Keys : k \notin DOMAIN pending[r] => rows'[k] = rows[k],
         UNCHANGED <<exists, rows, lost>> \/ Watch
  PROVE  BoardInv'
<1>1. Closes(r, "done") /\ disturbed' = {q \in Requests \ {r} : q \in disturbed \/ Active(q)}
  BY DEF Publishes
<1>2. "done" \in Ends4
  BY DEF Ends4
<1>3. /\ Typed' /\ Others(r) /\ (\A q \in Requests \ {r} : Apart(r, q)')
      /\ OpInv(r)' /\ WantInv(r)' /\ HoldInv(r)' /\ RunInv(r)' /\ Fresh(r)'
  BY <1>1, <1>2, Closed
<1>4. RequestInv(r)'
  BY <1>3 DEF RequestInv
<1>5. \A q \in Requests \ {r} : pc[q] = "run" /\ (Allowed(q) \/ q \in lost) => Allowed(q)' \/ q \in lost'
  <2>1. CASE UNCHANGED <<exists, rows, lost>>
    BY <1>3, <2>1 DEF Allowed, CanUse, Others, Same
  <2>2. CASE Watch
    BY <2>2 DEF Watch
  <2> QED BY <2>1, <2>2
<1>6. Affects(r)
  BY <1>1, <1>5 DEF Affects
<1> QED BY <1>3, <1>4, <1>6, StepKeeps

-----------------------------------------------------------------------------
(* A request arrives and passes its checks.                                *)

\* What a request may be about, and what one about rows or a widget has checked.
Suits(o, w, where) ==
  \/ /\ o \in {"replace", "drop"} /\ where \in {"view", "read"} /\ (where = "view" => o = "replace")
     /\ DOMAIN w \subseteq Keys
     /\ \A k \in DOMAIN w : w[k] \in Levels \cup {Nothing} /\ (w[k] # Nothing => k[1] # Owner[k[2]] /\ k[2] \in exists)
  \/ /\ o \in Writes /\ (where = "view" \/ (where = "write" /\ o = "publish"))
     /\ o # "publish" => kind = "dashboard"
     /\ w.flag \in BOOLEAN \cup {Nothing} /\ w.source \in Connections \cup {Nothing} /\ w.place \in Places
     /\ o = "create widget" => w.source # Nothing
     /\ Board \in exists
  \/ o = "delete" /\ where \in {"view", "work"} /\ w = Board
  \/ o = "disconnect" /\ where = "work" /\ w \in Connections
  \/ o = "run" /\ where \in {"view", "use"}

LEMMA ArriveKeeps ==
  ASSUME BoardInv, NEW r \in Requests, NEW o, NEW p, NEW w, NEW allowed \in BOOLEAN, NEW where,
         Arrive(r, o, p, w, allowed, where), allowed => Suits(o, w, where)
  PROVE  BoardInv'
<1>1. CASE ~allowed
  BY <1>1, EndsKeeps DEF Arrive, Ends4
<1>2. CASE allowed
  <2> DEFINE load == IF where = "read" \/ o = "disconnect" THEN Nothing
                     ELSE [flag |-> shared, item |-> IF kind = "dashboard" THEN NoWidget ELSE item]
  <2>1. /\ pc[r] = "new" /\ Goto(r, where) /\ UNCHANGED <<kind, data, saw, pending, locked, disturbed, lost>>
        /\ op' = [op EXCEPT ![r] = o] /\ by' = [by EXCEPT ![r] = p] /\ want' = [want EXCEPT ![r] = w]
        /\ loaded' = [loaded EXCEPT ![r] = load]
    BY <1>2 DEF Arrive, held, history
  <2>2. o \in Writes \cup {"run"} => load \in [flag : BOOLEAN, item : Widgets]
    <3>1. NoWidget \in Widgets /\ item \in Widgets /\ shared \in BOOLEAN
      BY DEF BoardInv, DataInv, Widgets
    <3>2. o \in Writes \cup {"run"} => where # "read" /\ o # "disconnect"
      BY <1>2 DEF Suits, Writes
    <3> QED BY <3>1, <3>2
  <2> HIDE DEF load
  <2>3. Suits(o, w, where)
    BY <1>2
  <2>4. where \in {"view", "read", "write", "work", "use"}
    BY <2>3 DEF Suits
  <2>5. kind' = kind /\ Typed' /\ Others(r) /\ pc'[r] = where /\ op'[r] = o /\ want'[r] = w /\ loaded'[r] = load
    <3>1. pc' \in [Requests -> Stages]
      BY <2>1, <2>4 DEF Goto, BoardInv, Typed, Stages
    <3> QED BY <2>1, <3>1 DEF Goto, BoardInv, Typed, Others, Same
  <2>6. DOMAIN pending[r] = {} /\ locked[r] = {} /\ pending'[r] = pending[r] /\ locked'[r] = locked[r]
    BY <2>1 DEF BoardInv, RequestInv, HoldInv
  <2>7. \A q \in Requests \ {r} : Apart(r, q)'
    BY <2>6 DEF Apart
  <2>8. OpInv(r)' /\ RunInv(r)'
    BY <2>3, <2>4, <2>5 DEF OpInv, RunInv, Active, Ended, Suits, Writes
  <2>9. WantInv(r)'
    <3>1. Board \in Objects /\ Connections \subseteq Objects
      BY DEF Objects
    <3>2. Scope(r)' = DOMAIN w
      BY <2>5 DEF Scope
    <3> QED BY <2>2, <2>3, <2>5, <3>1, <3>2 DEF WantInv, Suits, Replaces, Deletes, Writes
  <2>10. HoldInv(r)'
    BY <2>6 DEF HoldInv
  <2>11. Fresh(r)'
    <3>1. Scope(r)' = DOMAIN w /\ exists' = exists
      BY <2>1, <2>5 DEF Scope, data
    <3>2. FreshReplace(r)'
      BY <2>3, <2>5, <3>1 DEF FreshReplace, Replaces, Suits, Writes
    <3>3. FreshEdit(r)'
      BY <2>3, <2>5, <3>1 DEF FreshEdit, Suits, Writes
    <3> QED BY <3>2, <3>3 DEF Fresh
  <2> QED BY <2>1, <2>5, <2>7, <2>8, <2>9, <2>10, <2>11, QuietStep DEF RequestInv
<1> QED BY <1>1, <1>2

LEMMA SharesArrive ==
  ASSUME BoardInv, NEW r \in Requests, SetShares(r)
  PROVE  BoardInv'
<1>1. PICK p \in People, level \in ShareLists :
        Arrive(r, "replace", p,
               [k \in People \X {Board} |-> IF k[1] \in Inactive \cup {Owner[Board]} THEN Nothing ELSE level[k[1]]],
               Board \in exists, "view")
  BY DEF SetShares
<1> DEFINE w == [k \in People \X {Board} |-> IF k[1] \in Inactive \cup {Owner[Board]} THEN Nothing ELSE level[k[1]]]
<1>2. level \in [People -> {Nothing, "view", "edit"}]
  BY SharingAssumption
<1>3. DOMAIN w \subseteq Keys
  BY DEF Keys, Objects
<1>4. ASSUME NEW k \in DOMAIN w
      PROVE  w[k] \in Levels \cup {Nothing} /\ k[2] = Board /\ (w[k] # Nothing => k[1] # Owner[k[2]])
  BY <1>2, <1>4 DEF Levels
<1>5. Arrive(r, "replace", p, w, Board \in exists, "view") /\ (Board \in exists) \in BOOLEAN
  BY <1>1
<1> HIDE DEF w
<1>6. Board \in exists => Suits("replace", w, "view")
  BY <1>3, <1>4 DEF Suits
<1> QED BY <1>5, <1>6, ArriveKeeps

LEMMA AccessArrives ==
  ASSUME BoardInv, NEW r \in Requests, SetAccess(r)
  PROVE  BoardInv'
<1>1. PICK p \in People, u \in People, granted \in SUBSET Connections :
        Arrive(r, "replace", p,
               [k \in {u} \X Connections |-> IF k[2] \in granted \cap exists /\ Owner[k[2]] # u THEN "use" ELSE Nothing],
               p \in Admins, "read")
  BY DEF SetAccess
<1> DEFINE w == [k \in {u} \X Connections |-> IF k[2] \in granted \cap exists /\ Owner[k[2]] # u THEN "use" ELSE Nothing]
<1>2. DOMAIN w \subseteq Keys
  BY DEF Keys, Objects
<1>3. ASSUME NEW k \in DOMAIN w
      PROVE  w[k] \in Levels \cup {Nothing} /\ (w[k] # Nothing => k[1] # Owner[k[2]] /\ k[2] \in exists)
  BY <1>3 DEF Levels
<1>4. Arrive(r, "replace", p, w, p \in Admins, "read") /\ (p \in Admins) \in BOOLEAN
  BY <1>1
<1> HIDE DEF w
<1>5. Suits("replace", w, "read")
  BY <1>2, <1>3 DEF Suits
<1> QED BY <1>4, <1>5, ArriveKeeps

LEMMA DescriptionsArrive ==
  ASSUME BoardInv, NEW r \in Requests, Describe(r) \/ DeleteDescription(r)
  PROVE  BoardInv'
<1>1. PICK p \in People, c \in Connections, text \in Texts \cup {Nothing}, o \in {"replace", "drop"} :
        Arrive(r, o, p, [k \in {<<Text, c>>} |-> text], CanUse(p, c), "read")
  <2>1. CASE Describe(r)
    BY <2>1 DEF Describe
  <2>2. CASE DeleteDescription(r)
    BY <2>2 DEF DeleteDescription
  <2> QED BY <2>1, <2>2
<1> DEFINE w == [k \in {<<Text, c>>} |-> text]
<1>2. DOMAIN w \subseteq Keys
  BY DEF Keys, Objects
<1>3. ASSUME NEW k \in DOMAIN w
      PROVE  w[k] \in Levels \cup {Nothing} /\ k[2] = c /\ k[1] # Owner[k[2]]
  BY <1>3, SharingAssumption DEF Levels, Objects
<1>4. Arrive(r, o, p, w, CanUse(p, c), "read")
  BY <1>1
<1>5. CanUse(p, c) \in BOOLEAN /\ (CanUse(p, c) => c \in exists)
  BY DEF CanUse
<1> HIDE DEF w
<1>6. CanUse(p, c) => Suits(o, w, "read")
  BY <1>2, <1>3, <1>5 DEF Suits
<1> QED BY <1>4, <1>5, <1>6, ArriveKeeps

LEMMA OpensKeeps ==
  ASSUME BoardInv, NEW r \in Requests, NEW o, NEW p, NEW w, NEW where, Opens(r, o, p, w, where),
         Board \in exists => Suits(o, w, "view") /\ (kind # "dashboard" => Suits(o, w, where))
  PROVE  BoardInv'
<1>1. CASE kind = "dashboard"
  <2>1. Arrive(r, o, p, w, Board \in exists, "view") /\ (Board \in exists) \in BOOLEAN
    BY <1>1 DEF Opens
  <2> QED BY <2>1, ArriveKeeps
<1>2. CASE kind # "dashboard"
  <2> DEFINE allowed == Board \in exists /\ CanView(p, shared) /\ CanEdit(p, shared)
  <2>1. Arrive(r, o, p, w, allowed, where) /\ allowed \in BOOLEAN /\ (allowed => Board \in exists)
    BY <1>2 DEF Opens
  <2> HIDE DEF allowed
  <2> QED BY <1>2, <2>1, ArriveKeeps
<1> QED BY <1>1, <1>2

LEMMA BoardRequestsArrive ==
  ASSUME BoardInv, NEW r \in Requests,
         (\E o \in Writes : Edit(r, o)) \/ Delete(r) \/ DeleteConnection(r) \/ Run(r)
  PROVE  BoardInv'
<1>1. ASSUME NEW o \in Writes, Edit(r, o) PROVE BoardInv'
  <2>1. PICK p \in People, flag \in BOOLEAN \cup {Nothing}, source \in Connections \cup {Nothing}, place \in Places :
          /\ kind = "dashboard" \/ o = "publish"
          /\ o = "create widget" => source # Nothing
          /\ Opens(r, o, p, [flag |-> flag, source |-> source, place |-> place], "write")
    BY <1>1 DEF Edit
  <2> DEFINE w == [flag |-> flag, source |-> source, place |-> place]
  <2>2. w.flag = flag /\ w.source = source /\ w.place = place /\ Opens(r, o, p, w, "write")
    BY <2>1
  <2> HIDE DEF w
  <2>3. Board \in exists => Suits(o, w, "view") /\ (kind # "dashboard" => Suits(o, w, "write"))
    BY <2>1, <2>2 DEF Suits, Writes
  <2> QED BY <2>2, <2>3, OpensKeeps
<1>2. CASE Delete(r)
  <2>1. PICK p \in People : Opens(r, "delete", p, Board, "work")
    BY <1>2 DEF Delete
  <2>2. Suits("delete", Board, "view") /\ Suits("delete", Board, "work")
    BY DEF Suits
  <2> QED BY <2>1, <2>2, OpensKeeps
<1>3. CASE DeleteConnection(r)
  <2>1. PICK p \in People, c \in Connections :
          Arrive(r, "disconnect", p, c, c \in exists /\ p \in {Owner[c]} \cup Admins, "work")
    BY <1>3 DEF DeleteConnection
  <2>2. Suits("disconnect", c, "work")
    BY DEF Suits
  <2> QED BY <2>1, <2>2, ArriveKeeps
<1>4. CASE Run(r)
  <2>1. PICK p \in People, allowed \in BOOLEAN, where \in {"view", "use"} : Arrive(r, "run", p, Nothing, allowed, where)
    <3>1. PICK p \in People :
            IF kind = "dashboard" THEN Arrive(r, "run", p, Nothing, Board \in exists, "view")
            ELSE Arrive(r, "run", p, Nothing, Board \in exists /\ CanView(p, shared) /\ item.source # Nothing, "use")
      BY <1>4 DEF Run
    <3>2. (Board \in exists /\ CanView(p, shared) /\ item.source # Nothing) \in BOOLEAN /\ (Board \in exists) \in BOOLEAN
      OBVIOUS
    <3> QED BY <3>1, <3>2
  <2>2. Suits("run", Nothing, where)
    BY DEF Suits
  <2> QED BY <2>1, <2>2, ArriveKeeps
<1> QED BY <1>1, <1>2, <1>3, <1>4

LEMMA MoveKeeps ==
  ASSUME BoardInv, NEW r \in Requests, NEW where \in Stages, pc[r] # "work", Moves(r, where),
         DOMAIN saw' = Requests, DOMAIN loaded' = Requests,
         \A q \in Requests \ {r} : saw'[q] = saw[q] /\ loaded'[q] = loaded[q],
         pc'[r] = where => OpInv(r)' /\ WantInv(r)' /\ RunInv(r)' /\ (r \notin disturbed => Fresh(r)')
  PROVE  BoardInv'
<1>1. UNCHANGED <<kind, data, op, by, want, pending, locked, disturbed, lost>> /\ Goto(r, where)
  BY DEF Moves, held, history
<1>2. Typed' /\ Others(r) /\ pc'[r] = where
  <2>1. pc' \in [Requests -> Stages]
    BY <1>1 DEF Goto, BoardInv, Typed
  <2> QED BY <1>1, <2>1 DEF Goto, BoardInv, Typed, Others, Same
<1>3. DOMAIN pending'[r] = {} /\ locked'[r] = {}
  BY <1>1 DEF BoardInv, RequestInv, HoldInv
<1>4. HoldInv(r)' /\ \A q \in Requests \ {r} : Apart(r, q)'
  BY <1>3 DEF HoldInv, Apart
<1>5. RequestInv(r)'
  BY <1>1, <1>2, <1>4 DEF RequestInv
<1> QED BY <1>1, <1>2, <1>4, <1>5, QuietStep

\* A request that may go on knows nothing new but what the check says.
LEMMA ChecksKeeps ==
  ASSUME BoardInv, NEW r \in Requests, NEW from \in {"view", "edit", "use"}, NEW allowed \in BOOLEAN,
         NEW where \in Stages, Checks(r, from, allowed, where),
         allowed => /\ where = "edit" => op[r] \in {"delete"} \cup Writes
                    /\ where = "load" => op[r] \in {"run", "update widget", "delete widget", "layout"}
                    /\ where = "use"  => op[r] = "create widget"
                    /\ where = "read" => op[r] = "replace"
                    /\ where = "work" => op[r] = "delete"
                    /\ where = "run"  => Allowed(r)
                    /\ where = "write" => \/ op[r] = "publish"
                                          \/ /\ from = "use" /\ op[r] \in {"create widget", "update widget"}
                                             /\ want[r].source \in exists
                    /\ where \in {"edit", "load", "use", "read", "work", "run", "write"}
  PROVE  BoardInv'
<1>1. CASE ~allowed
  BY <1>1, EndsKeeps DEF Checks, Ends4
<1>2. CASE allowed
  <2>1. Moves(r, where) /\ UNCHANGED <<saw, loaded>> /\ pc[r] = from
    BY <1>2 DEF Checks
  <2>2. UNCHANGED <<kind, exists, rows, item, op, by, want, saw, loaded, lost>> /\ RequestInv(r)
    BY <2>1 DEF Moves, data, history, BoardInv
  <2>3. ASSUME pc'[r] = where
        PROVE  OpInv(r)' /\ WantInv(r)' /\ RunInv(r)' /\ (r \notin disturbed => Fresh(r)')
    <3>1. OpInv(r)'
      BY <1>2, <2>1, <2>2, <2>3 DEF RequestInv, OpInv, Active, Ended, Writes
    <3>2. WantInv(r)'
      BY <2>2 DEF RequestInv, WantInv, Replaces, Deletes, Scope
    <3>3. RunInv(r)'
      BY <1>2, <2>2, <2>3 DEF RunInv, Allowed, CanUse
    <3>4. r \notin disturbed => FreshReplace(r)'
      BY <1>2, <2>2, <2>3 DEF RequestInv, Fresh, FreshReplace, Replaces, Scope
    <3>5. r \notin disturbed => FreshEdit(r)'
      BY <1>2, <2>1, <2>2, <2>3 DEF RequestInv, Fresh, FreshEdit, Writes
    <3> QED BY <3>1, <3>2, <3>3, <3>4, <3>5 DEF Fresh
  <2>4. pc[r] # "work" /\ DOMAIN saw' = Requests /\ DOMAIN loaded' = Requests
    BY <2>1, <2>2 DEF BoardInv, Typed
  <2> QED BY <2>1, <2>2, <2>3, <2>4, MoveKeeps
<1> QED BY <1>1, <1>2

LEMMA ViewKeeps ==
  ASSUME BoardInv, NEW r \in Requests, View(r) PROVE BoardInv'
<1> DEFINE sees == CanView(by[r], loaded[r].flag)
           manages == sees /\ by[r] \in {Owner[Board]} \cup Admins
<1>1. pc[r] = "view"
  BY DEF View, Checks
<1>2. op[r] \in {"replace", "run", "delete"} \cup Writes
  BY <1>1 DEF BoardInv, RequestInv, OpInv
<1>3. \A where \in {"read", "load", "edit"} : where \in Stages
  BY DEF Stages
<1>4. manages \in BOOLEAN
  OBVIOUS
<1>5. sees \in BOOLEAN
  <2>1. (loaded[r].flag) \in BOOLEAN \/ op[r] = "replace" \/ op[r] = "delete"
    BY <1>2 DEF BoardInv, RequestInv, WantInv
  <2> QED BY DEF CanView
<1>6. CASE op[r] = "replace"
  <2>1. Checks(r, "view", manages, "read")
    BY <1>6 DEF View
  <2> HIDE DEF manages
  <2> QED BY <1>3, <1>4, <1>6, <2>1, ChecksKeeps
<1>7. CASE op[r] = "run"
  <2>1. Checks(r, "view", sees, "load")
    BY <1>7 DEF View
  <2> HIDE DEF sees
  <2> QED BY <1>3, <1>5, <1>7, <2>1, ChecksKeeps
<1>8. CASE op[r] \notin {"replace", "run"}
  <2>1. Checks(r, "view", sees, "edit")
    BY <1>8 DEF View
  <2> HIDE DEF sees
  <2> QED BY <1>2, <1>3, <1>5, <1>8, <2>1, ChecksKeeps
<1> QED BY <1>6, <1>7, <1>8

LEMMA MayEditKeeps ==
  ASSUME BoardInv, NEW r \in Requests, MayEdit(r) PROVE BoardInv'
<1> DEFINE allowed == CanEdit(by[r], loaded[r].flag)
           where == CASE op[r] = "publish" -> "write"
                      [] op[r] = "delete"  -> "work"
                      [] op[r] = "create widget" -> "use"
                      [] OTHER -> "load"
<1>1. Checks(r, "edit", allowed, where)
  BY DEF MayEdit
<1>2. allowed \in BOOLEAN
  BY DEF CanEdit
<1>3. op[r] \in {"delete"} \cup Writes
  BY <1>1 DEF Checks, BoardInv, RequestInv, OpInv
<1>4. \/ op[r] = "publish" /\ where = "write"
      \/ op[r] = "delete" /\ where = "work"
      \/ op[r] = "create widget" /\ where = "use"
      \/ op[r] \in {"update widget", "delete widget", "layout"} /\ where = "load"
  BY <1>3 DEF Writes
<1> HIDE DEF allowed, where
<1>5. where \in Stages
  BY <1>4 DEF Stages
<1> QED BY <1>1, <1>2, <1>4, <1>5, ChecksKeeps

LEMMA UseKeeps ==
  ASSUME BoardInv, NEW r \in Requests, Use(r) PROVE BoardInv'
<1>1. pc[r] = "use"
  BY DEF Use, Checks
<1>2. op[r] \in {"run", "create widget", "update widget"} /\ "run" \in Stages /\ "write" \in Stages
  BY <1>1 DEF BoardInv, RequestInv, OpInv, Stages
<1>3. CASE op[r] = "run"
  <2>1. Checks(r, "use", Allowed(r), "run") /\ Allowed(r) \in BOOLEAN
    BY <1>3 DEF Use, MayRun, Allowed, CanUse
  <2> QED BY <1>2, <1>3, <2>1, ChecksKeeps
<1>4. CASE op[r] # "run"
  <2> DEFINE allowed == CanUse(by[r], want[r].source)
  <2>1. Checks(r, "use", allowed, "write") /\ allowed \in BOOLEAN /\ (allowed => want[r].source \in exists)
    BY <1>4 DEF Use, CanUse
  <2> HIDE DEF allowed
  <2> QED BY <1>2, <1>4, <2>1, ChecksKeeps
<1> QED BY <1>3, <1>4

-----------------------------------------------------------------------------
(* What a request reads.                                                   *)

LEMMA LoadItemKeeps ==
  ASSUME BoardInv, NEW r \in Requests, LoadItem(r) PROVE BoardInv'
<1>1. CASE Ends(r, "refused")
  BY <1>1, EndsKeeps DEF Ends4
<1>2. CASE ~Ends(r, "refused")
  <2> DEFINE where == IF op[r] = "run" \/ (op[r] = "update widget" /\ want[r].source # Nothing) THEN "use" ELSE "write"
  <2>1. /\ pc[r] = "load" /\ Moves(r, where) /\ loaded' = [loaded EXCEPT ![r].item = item] /\ UNCHANGED saw
        /\ op[r] = "update widget" => item # NoWidget
    BY <1>2 DEF LoadItem
  <2>2. \/ where = "use" /\ op[r] \in {"run", "update widget"}
        \/ /\ where = "write" /\ op[r] # "run"
           /\ op[r] = "update widget" => want[r].source = Nothing
    OBVIOUS
  <2> HIDE DEF where
  <2>3. op[r] \in {"run", "update widget", "delete widget", "layout"}
    BY <2>1 DEF BoardInv, RequestInv, OpInv
  <2>4. /\ UNCHANGED <<kind, exists, rows, item, op, by, want, lost>> /\ RequestInv(r) /\ item \in Widgets
        /\ DOMAIN loaded = Requests /\ loaded[r] \in [flag : BOOLEAN, item : Widgets]
    BY <2>1, <2>3 DEF Moves, data, history, BoardInv, DataInv, Typed, RequestInv, WantInv, Writes
  <2>5. loaded'[r] \in [flag : BOOLEAN, item : Widgets] /\ loaded'[r].item = item
    BY <2>1, <2>4
  <2>6. ASSUME pc'[r] = where
        PROVE  OpInv(r)' /\ WantInv(r)' /\ RunInv(r)' /\ (r \notin disturbed => Fresh(r)')
    <3>1. OpInv(r)' /\ RunInv(r)'
      BY <2>1, <2>2, <2>3, <2>4, <2>5, <2>6 DEF OpInv, RunInv, Active, Ended, Writes
    <3>2. WantInv(r)'
      BY <2>4, <2>5 DEF RequestInv, WantInv, Replaces, Deletes, Scope
    <3>3. r \notin disturbed => FreshReplace(r)' /\ FreshEdit(r)'
      BY <2>2, <2>3, <2>4, <2>5, <2>6 DEF RequestInv, Fresh, FreshReplace, FreshEdit, Replaces, Writes
    <3> QED BY <3>1, <3>2, <3>3 DEF Fresh
  <2>7. pc[r] # "work" /\ DOMAIN saw' = Requests /\ DOMAIN loaded' = Requests
        /\ where \in Stages /\ \A q \in Requests \ {r} : saw'[q] = saw[q] /\ loaded'[q] = loaded[q]
    BY <2>1, <2>2 DEF BoardInv, Typed, Stages
  <2> QED BY <2>1, <2>6, <2>7, MoveKeeps
<1> QED BY <1>1, <1>2

LEMMA RowsRead ==
  ASSUME BoardInv, NEW r \in Requests, NEW where \in {"send", "work"}, pc[r] \in {"read", "send"},
         Moves(r, where), UNCHANGED loaded, DOMAIN saw' = Requests, \A q \in Requests \ {r} : saw'[q] = saw[q],
         r \notin disturbed => \A k \in Scope(r) : saw'[r][k] = rows[k]
  PROVE  BoardInv'
<1>1. UNCHANGED <<kind, exists, rows, item, op, by, want, loaded, lost>> /\ RequestInv(r)
  BY DEF Moves, data, history, BoardInv
<1>2. op[r] \in {"replace", "drop"}
  BY <1>1 DEF RequestInv, OpInv
<1>3. ASSUME pc'[r] = where
      PROVE  OpInv(r)' /\ WantInv(r)' /\ RunInv(r)' /\ (r \notin disturbed => Fresh(r)')
  <2>1. OpInv(r)' /\ RunInv(r)'
    BY <1>1, <1>2, <1>3 DEF OpInv, RunInv, Active, Ended
  <2>2. WantInv(r)'
    BY <1>1 DEF RequestInv, WantInv, Replaces, Deletes, Scope
  <2>3. FreshEdit(r)'
    BY <1>1, <1>2 DEF FreshEdit, Writes
  <2>4. r \notin disturbed => FreshReplace(r)'
    BY <1>1, <1>2 DEF RequestInv, Fresh, FreshReplace, Replaces, Scope
  <2> QED BY <2>1, <2>2, <2>3, <2>4 DEF Fresh
<1>4. where \in Stages /\ DOMAIN loaded' = Requests /\ pc[r] # "work"
  BY <1>1 DEF BoardInv, Typed, Stages
<1> QED BY <1>1, <1>3, <1>4, MoveKeeps

LEMMA ReadRowsKeeps ==
  ASSUME BoardInv, NEW r \in Requests, ReadRows(r) \/ SendDelete(r) PROVE BoardInv'
<1>1. CASE ReadRows(r)
  <2>1. CASE Ends(r, "refused")
    BY <2>1, EndsKeeps DEF Ends4
  <2>2. CASE ~Ends(r, "refused")
    <3>1. /\ pc[r] = "read" /\ Moves(r, "send") /\ UNCHANGED loaded
          /\ saw' = [saw EXCEPT ![r] = [k \in Scope(r) |-> rows[k]]]
      BY <1>1, <2>2 DEF ReadRows
    <3>2. DOMAIN saw' = Requests /\ saw'[r] = [k \in Scope(r) |-> rows[k]] /\ \A q \in Requests \ {r} : saw'[q] = saw[q]
      BY <3>1 DEF BoardInv, Typed
    <3> QED BY <3>1, <3>2, RowsRead
  <2> QED BY <2>1, <2>2
<1>2. CASE SendDelete(r)
  <2> DEFINE read == IF op[r] = "drop" THEN saw
                     ELSE [saw EXCEPT ![r] = [k \in Scope(r) |-> IF k \in ToRemove(r) THEN rows[k] ELSE saw[r][k]]]
  <2>1. pc[r] = "send" /\ Moves(r, "work") /\ UNCHANGED loaded /\ saw' = read
    BY <1>2 DEF SendDelete
  <2>2. op[r] \in {"replace", "drop"} /\ (r \notin disturbed => \A k \in Scope(r) : saw[r][k] = rows[k])
    BY <2>1 DEF BoardInv, RequestInv, OpInv, Fresh, FreshReplace, Replaces
  <2>3. DOMAIN read = Requests /\ \A q \in Requests \ {r} : read[q] = saw[q]
    BY DEF BoardInv, Typed
  <2>4. \A k \in Scope(r) : read[r][k] \in {saw[r][k], rows[k]}
    BY DEF BoardInv, Typed
  <2> HIDE DEF read
  <2> QED BY <2>1, <2>2, <2>3, <2>4, RowsRead
<1> QED BY <1>1, <1>2

-----------------------------------------------------------------------------
(* The locks.                                                              *)

LEMMA HoldsKeep ==
  ASSUME BoardInv, NEW r \in Requests, pc[r] = "work", UNCHANGED <<kind, data, request, pc, history>>,
         DOMAIN pending' = Requests, DOMAIN locked' = Requests,
         \A q \in Requests \ {r} : pending'[q] = pending[q] /\ locked'[q] = locked[q] /\ Apart(r, q)',
         HoldInv(r)'
  PROVE  BoardInv'
<1>1. UNCHANGED <<kind, exists, rows, item, op, by, want, saw, loaded, disturbed, lost>> /\ RequestInv(r)
  BY DEF data, request, history, BoardInv
<1>2. Typed' /\ Others(r)
  BY <1>1 DEF BoardInv, Typed, Others, Same
<1>3. OpInv(r)' /\ WantInv(r)' /\ RunInv(r)'
  BY <1>1 DEF RequestInv, OpInv, Active, Ended, WantInv, Replaces, Deletes, Scope, RunInv
<1>4. (r \notin disturbed => Fresh(r))'
  BY <1>1 DEF RequestInv, Fresh, FreshReplace, FreshEdit, Replaces, Scope
<1> QED BY <1>1, <1>2, <1>3, <1>4, QuietStep DEF RequestInv

LEMMA RowsWritten ==
  ASSUME NEW l \in Levels
  PROVE  /\ \A r \in Requests : [level |-> l, by |-> r] \in Row /\ Level([level |-> l, by |-> r]) = l
         /\ \A x \in Row : [x EXCEPT !.level = l] \in Row /\ Level([x EXCEPT !.level = l]) = l
<1>1. \A x \in Row : Level(x) = x.level
  BY SharingAssumption DEF Level
<1>2. \A r \in Requests : [level |-> l, by |-> r] \in Row
  BY DEF Row
<1>3. \A x \in Row : [x EXCEPT !.level = l] \in Row /\ [x EXCEPT !.level = l].level = l
  BY DEF Row
<1> QED BY <1>1, <1>2, <1>3

\* A row is written as it is wanted.
LEMMA NewRowIsWanted ==
  ASSUME BoardInv, NEW r \in Requests, pc[r] = "work", Replaces(r), NEW k \in First(r), ~Obsolete(r, k)
  PROVE  /\ k \in ToRemove(r) \cup ToUpdate(r) \cup ToInsert(r)
         /\ NewRow(r, k) \in Row \cup {Nothing} /\ Level(NewRow(r, k)) = want[r][k]
         /\ k \in ToUpdate(r) => rows[k] # Nothing
<1>1. ~Deletes(r)
  BY DEF Replaces, Deletes
<1>2. k \in ToRemove(r) \cup ToUpdate(r) \cup ToInsert(r)
  BY <1>1 DEF First, Left, Removals, Updates, Inserts
<1>3. k \in Keys /\ want[r][k] \in Levels \cup {Nothing}
  BY <1>2 DEF BoardInv, RequestInv, WantInv, ToRemove, ToUpdate, ToInsert
<1>4. k \in ToUpdate(r) => rows[k] # Nothing /\ rows[k] \in Row
  BY <1>3 DEF Obsolete, Gone, BoardInv, DataInv
<1>5. CASE want[r][k] = Nothing
  BY <1>1, <1>2, <1>4, <1>5 DEF NewRow, Level
<1>6. CASE want[r][k] # Nothing
  <2>1. want[r][k] \in Levels /\ k \notin ToRemove(r)
    BY <1>3, <1>6 DEF ToRemove
  <2>2. CASE k \in ToUpdate(r)
    <3>1. NewRow(r, k) = [rows[k] EXCEPT !.level = want[r][k]]
      BY <1>1, <1>6, <2>2 DEF NewRow
    <3> QED BY <1>2, <1>4, <2>1, <2>2, <3>1, RowsWritten
  <2>3. CASE k \notin ToUpdate(r)
    <3>1. NewRow(r, k) = [level |-> want[r][k], by |-> r]
      BY <1>1, <1>6, <2>3 DEF NewRow
    <3> QED BY <1>2, <2>1, <2>3, <3>1, RowsWritten
  <2> QED BY <2>2, <2>3
<1> QED BY <1>5, <1>6

LEMMA LockRowKeeps ==
  ASSUME BoardInv, NEW r \in Requests, LockRow(r) PROVE BoardInv'
<1>1. PICK k \in First(r) :
        /\ FreeRow(r, k)
        /\ IF ~Deletes(r) /\ Obsolete(r, k) THEN Ends(r, "failed")
           ELSE /\ pending' = [pending EXCEPT ![r] = [j \in DOMAIN pending[r] \cup {k} |->
                                                      IF j = k THEN NewRow(r, k) ELSE pending[r][j]]]
                /\ UNCHANGED <<kind, data, request, pc, locked, history>>
  BY DEF LockRow
<1>2. CASE ~Deletes(r) /\ Obsolete(r, k)
  BY <1>1, <1>2, EndsKeeps DEF Ends4
<1>3. CASE ~(~Deletes(r) /\ Obsolete(r, k))
  <2> DEFINE new == [j \in DOMAIN pending[r] \cup {k} |-> IF j = k THEN NewRow(r, k) ELSE pending[r][j]]
  <2>1. /\ pending' = [pending EXCEPT ![r] = new] /\ UNCHANGED <<kind, data, request, pc, locked, history>>
        /\ UNCHANGED <<exists, rows, op, want, saw>>
    BY <1>1, <1>3 DEF data, request
  <2>2. pc[r] = "work" /\ HoldInv(r) /\ OpInv(r)
    BY DEF First, Left, BoardInv, RequestInv
  <2>3. DOMAIN new = DOMAIN pending[r] \cup {k} /\ new[k] = NewRow(r, k)
        /\ \A j \in DOMAIN pending[r] : j # k => new[j] = pending[r][j]
    OBVIOUS
  <2> HIDE DEF new
  <2>4. /\ DOMAIN pending' = Requests /\ pending'[r] = new /\ DOMAIN locked' = Requests /\ locked'[r] = locked[r]
        /\ \A q \in Requests \ {r} : pending'[q] = pending[q] /\ locked'[q] = locked[q]
    BY <2>1 DEF BoardInv, Typed
  <2>5. \A q \in Requests \ {r} : Apart(r, q)'
    BY <1>1, <2>1, <2>3, <2>4 DEF BoardInv, Apart, FreeRow, Deletes
  <2>6. /\ ToRemove(r)' = ToRemove(r) /\ ToUpdate(r)' = ToUpdate(r) /\ ToInsert(r)' = ToInsert(r)
        /\ (Replaces(r)' <=> Replaces(r)) /\ (Deletes(r)' <=> Deletes(r))
    BY <2>1 DEF ToRemove, ToUpdate, ToInsert, Scope, Replaces, Deletes
  <2>7. CASE Deletes(r)
    <3>1. k \in Cascade(r) /\ NewRow(r, k) = Nothing
      BY <2>7 DEF First, Left, NewRow
    <3>2. k \in Keys /\ k[2] = want[r]
      BY <2>2, <2>7, <3>1 DEF HoldInv, Cascade
    <3>3. ~Replaces(r)
      BY <2>7 DEF Replaces, Deletes
    <3>4. \A j \in DOMAIN new : j \in Keys /\ j[2] = want[r] /\ new[j] = Nothing
      BY <2>2, <2>3, <2>7, <3>1, <3>2 DEF HoldInv
    <3>5. HoldInv(r)'
      BY <2>1, <2>2, <2>4, <2>6, <2>7, <3>3, <3>4 DEF HoldInv
    <3> QED BY <2>1, <2>2, <2>4, <2>5, <3>5, HoldsKeep
  <2>8. CASE ~Deletes(r)
    <3>1. Replaces(r) /\ ~Obsolete(r, k)
      BY <1>3, <2>2, <2>8 DEF OpInv, Replaces, Deletes
    <3>2. /\ k \in ToRemove(r) \cup ToUpdate(r) \cup ToInsert(r)
          /\ NewRow(r, k) \in Row \cup {Nothing} /\ Level(NewRow(r, k)) = want[r][k]
          /\ k \in ToUpdate(r) => rows[k] # Nothing
      BY <2>2, <3>1, NewRowIsWanted
    <3>3. \A j \in DOMAIN new :
            /\ j \in ToRemove(r) \cup ToUpdate(r) \cup ToInsert(r)
            /\ new[j] \in Row \cup {Nothing} /\ Level(new[j]) = want[r][j]
            /\ j \in ToUpdate(r) => rows[j] # Nothing
      BY <2>2, <2>3, <3>1, <3>2 DEF HoldInv
    <3>4. HoldInv(r)'
      BY <2>1, <2>2, <2>4, <2>6, <2>8, <3>1, <3>3 DEF HoldInv, Level
    <3> QED BY <2>1, <2>2, <2>4, <2>5, <3>4, HoldsKeep
  <2> QED BY <2>7, <2>8
<1> QED BY <1>2, <1>3

LEMMA LockObjectKeeps ==
  ASSUME BoardInv, NEW r \in Requests, LockObject(r) PROVE BoardInv'
<1>1. PICK o \in Refers(r) :
        /\ FreeObject(r, o) /\ pc[r] = "work"
        /\ IF o \notin exists THEN Ends(r, IF Deletes(r) THEN "done" ELSE "failed")
           ELSE /\ locked' = [locked EXCEPT ![r] = @ \cup {o}]
                /\ UNCHANGED <<kind, data, request, pc, pending, history>>
  BY DEF LockObject
<1>2. CASE o \notin exists
  <2> DEFINE where == IF Deletes(r) THEN "done" ELSE "failed"
  <2>1. Ends(r, where) /\ where \in Ends4
    BY <1>1, <1>2 DEF Ends4
  <2> HIDE DEF where
  <2> QED BY <2>1, EndsKeeps
<1>3. CASE o \in exists
  <2>1. /\ locked' = [locked EXCEPT ![r] = @ \cup {o}] /\ UNCHANGED <<kind, data, request, pc, pending, history>>
        /\ UNCHANGED <<exists, rows, op, want, saw>>
    BY <1>1, <1>3 DEF data, request
  <2>2. /\ DOMAIN pending' = Requests /\ DOMAIN locked' = Requests /\ locked'[r] = locked[r] \cup {o}
        /\ \A q \in Requests \ {r} : pending'[q] = pending[q] /\ locked'[q] = locked[q]
    BY <2>1 DEF BoardInv, Typed
  <2>3. \A q \in Requests \ {r} : Apart(r, q)'
    BY <1>1, <2>1, <2>2 DEF BoardInv, Apart, FreeObject, Bars, Deletes
  <2>4. /\ ToRemove(r)' = ToRemove(r) /\ ToUpdate(r)' = ToUpdate(r) /\ ToInsert(r)' = ToInsert(r)
        /\ (Replaces(r)' <=> Replaces(r)) /\ (Deletes(r)' <=> Deletes(r))
    BY <2>1 DEF ToRemove, ToUpdate, ToInsert, Scope, Replaces, Deletes
  <2>5. HoldInv(r) /\ (Deletes(r) => o = want[r]) /\ (Replaces(r) => o \in {k[2] : k \in ToInsert(r)})
    BY <1>1 DEF Refers, BoardInv, RequestInv, Replaces, Deletes
  <2>6. HoldInv(r)'
    BY <1>1, <1>3, <2>1, <2>2, <2>4, <2>5 DEF HoldInv, Level
  <2> QED BY <1>1, <2>1, <2>2, <2>3, <2>6, HoldsKeep
<1> QED BY <1>2, <1>3

-----------------------------------------------------------------------------
(* The commits of rows and of deletions.                                   *)

LEMMA CommitRowsKeeps ==
  ASSUME BoardInv, NEW r \in Requests, CommitRows(r) PROVE BoardInv'
<1>1. /\ Publishes(r) /\ rows' = Written(r) /\ UNCHANGED <<exists, shared, item, mixed>> /\ Watch
      /\ pc[r] = "work" /\ ~Deletes(r) /\ Left(r) = {} /\ Refers(r) = {}
  BY DEF CommitRows, Ready
<1>0. kind' = kind
  BY <1>1 DEF Publishes, Closes
<1>2. DataInv /\ HoldInv(r) /\ WantInv(r) /\ Replaces(r)
  BY <1>1 DEF BoardInv, RequestInv, OpInv, Replaces, Deletes
<1>3. \A k \in ToInsert(r) : k[2] \in exists
  BY <1>1, <1>2 DEF Refers, HoldInv
<1>4. ASSUME NEW k \in DOMAIN pending[r]
      PROVE  pending[r][k] \in Row \cup {Nothing} /\ (pending[r][k] # Nothing => k[2] \in exists /\ k[1] # Owner[k[2]])
  <2>1. /\ k \in ToRemove(r) \cup ToUpdate(r) \cup ToInsert(r)
        /\ pending[r][k] \in Row \cup {Nothing} /\ Level(pending[r][k]) = want[r][k]
        /\ k \in ToUpdate(r) => rows[k] # Nothing
    BY <1>1, <1>2, <1>4 DEF HoldInv
  <2>2. k \in Scope(r) /\ k \in Keys
    BY <1>2, <2>1 DEF WantInv, ToRemove, ToUpdate, ToInsert
  <2>3. pending[r][k] # Nothing => want[r][k] # Nothing
    <3>1. pending[r][k] # Nothing => Level(pending[r][k]) \in Levels
      BY <2>1 DEF Level, Row
    <3> QED BY <2>1, <3>1, SharingAssumption
  <2>4. pending[r][k] # Nothing => k \in ToUpdate(r) \cup ToInsert(r)
    BY <2>1, <2>3 DEF ToRemove
  <2>5. k \in ToUpdate(r) => k[2] \in exists
    BY <1>2, <2>1, <2>2 DEF DataInv
  <2> QED BY <1>2, <1>3, <2>1, <2>2, <2>3, <2>4, <2>5 DEF WantInv
<1>5. \A k \in Keys : rows'[k] \in {Nothing} \cup Row /\ (rows'[k] # Nothing => k[2] \in exists /\ k[1] # Owner[k[2]])
  BY <1>1, <1>2, <1>4 DEF Written, DataInv
<1>6. rows' \in [Keys -> {Nothing} \cup Row]
  BY <1>1, <1>5 DEF Written
<1>7. DataInv'
  BY <1>0, <1>1, <1>2, <1>5, <1>6 DEF DataInv, PlaceIsOneSave
<1>8. \A k \in Keys : k \notin DOMAIN pending[r] => rows'[k] = rows[k]
  BY <1>1 DEF Written
<1> QED BY <1>1, <1>7, <1>8, PublishesKeeps

LEMMA CommitDeletionKeeps ==
  ASSUME BoardInv, NEW r \in Requests, CommitDeletion(r) PROVE BoardInv'
<1>1. /\ Publishes(r) /\ exists' = exists \ {want[r]} /\ rows' = Written(r) /\ UNCHANGED <<shared, mixed>> /\ Watch
      /\ item' = (IF want[r] = Board THEN NoWidget
                  ELSE IF item.source = want[r] THEN [item EXCEPT !.source = Nothing] ELSE item)
      /\ pc[r] = "work" /\ Deletes(r) /\ Left(r) = {} /\ Refers(r) = {}
  BY DEF CommitDeletion, Ready
<1>0. kind' = kind
  BY <1>1 DEF Publishes, Closes
<1>2. DataInv /\ HoldInv(r) /\ want[r] \in Objects
  BY <1>1 DEF BoardInv, RequestInv, WantInv
<1>3. want[r] \in locked[r] /\ \A k \in DOMAIN pending[r] : pending[r][k] = Nothing
  BY <1>1, <1>2 DEF Refers, HoldInv
<1>4. \A k \in Keys : /\ rows'[k] \in {Nothing} \cup Row
                      /\ rows'[k] # Nothing => rows'[k] = rows[k] /\ k[2] # want[r]
  BY <1>1, <1>2, <1>3 DEF Written, Left, Cascade, DataInv
<1>5. rows' \in [Keys -> {Nothing} \cup Row]
  BY <1>1, <1>4 DEF Written
<1>6. \A k \in Keys : rows'[k] # Nothing => k[2] \in exists' /\ k[1] # Owner[k[2]]
  BY <1>1, <1>2, <1>4 DEF DataInv
<1>7. item' \in Widgets /\ item'.source \in exists' \cup {Nothing} /\ (item' # NoWidget => Board \in exists')
      /\ (kind # "dashboard" /\ Board \in exists' => item' # NoWidget)
      /\ (item' # NoWidget => item # NoWidget /\ item'.place = item.place)
  <2>1. CASE want[r] = Board
    BY <1>1, <2>1 DEF Widgets, NoWidget
  <2>2. CASE want[r] # Board /\ item.source = want[r]
    <3>1. want[r] # Nothing
      BY <1>2, <2>2, SharingAssumption DEF Objects
    <3>2. item # NoWidget
      BY <2>2, <3>1 DEF NoWidget
    <3>3. /\ item' = [item EXCEPT !.source = Nothing]
          /\ item \in [source : Connections \cup {Nothing}, place : Spots, by : Requests \cup {"past"}]
      BY <1>1, <1>2, <2>2, <3>2 DEF DataInv, Widgets
    <3>4. item' \in Widgets /\ item'.source = Nothing /\ item'.place = item.place /\ item' # NoWidget
      BY <3>3, SharingAssumption DEF Widgets, NoWidget
    <3> QED BY <1>1, <1>2, <2>2, <3>2, <3>4 DEF DataInv
  <2>3. CASE want[r] # Board /\ item.source # want[r]
    BY <1>1, <1>2, <2>3 DEF DataInv
  <2> QED BY <2>1, <2>2, <2>3
<1>8. DataInv'
  BY <1>0, <1>1, <1>2, <1>5, <1>6, <1>7 DEF DataInv, PlaceIsOneSave
<1>9. \A k \in Keys : k \notin DOMAIN pending[r] => rows'[k] = rows[k]
  BY <1>1 DEF Written
<1> QED BY <1>1, <1>3, <1>8, <1>9, PublishesKeeps

-----------------------------------------------------------------------------
(* The board and what is on it.                                             *)

LEMMA PlacesAreSpots ==
  /\ \A l \in Places : l \in Spots
  /\ \A w \in Widgets : w # NoWidget => w.place \in Spots /\ w.by # Nothing
<1>1. \A l \in Places : l \in Spots
  BY SharingAssumption DEF Spots
<1>2. Nothing \notin Requests \cup {"past"}
  BY SharingAssumption
<1> QED BY <1>1, <1>2 DEF Widgets

LEMMA WidgetSource ==
  ASSUME NEW w \in Widgets PROVE w.source \in Connections \cup {Nothing}
BY DEF Widgets, NoWidget

\* A widget that is written is still one.
Named == [source : Connections \cup {Nothing}, place : Spots, by : Requests \cup {"past"}]

LEMMA WidgetIsNamed ==
  /\ \A w \in Widgets : w # NoWidget => w \in Named
  /\ \A w \in Named : w \in Widgets /\ w # NoWidget
BY SharingAssumption DEF Widgets, NoWidget, Named

LEMMA SourceSet ==
  ASSUME NEW w \in Widgets, w # NoWidget, NEW c \in Connections \cup {Nothing}
  PROVE  LET new == [w EXCEPT !.source = c] IN new \in Widgets /\ new # NoWidget /\ new.source = c /\ new.place = w.place
<1>1. [w EXCEPT !.source = c] \in Named /\ [w EXCEPT !.source = c].source = c /\ [w EXCEPT !.source = c].place = w.place
  BY WidgetIsNamed DEF Named
<1> QED BY <1>1, WidgetIsNamed

LEMMA PlaceSet ==
  ASSUME NEW w \in Widgets, w # NoWidget, NEW l \in Spots
  PROVE  LET new == [w EXCEPT !.place = l] IN new.source = w.source /\ new.place = l
BY WidgetIsNamed DEF Named

LEMMA PublishKeeps ==
  ASSUME BoardInv, NEW r \in Requests, Publish(r) PROVE BoardInv'
<1>1. CASE \E where \in {"failed", "done"} : Ends(r, where)
  BY <1>1, EndsKeeps DEF Ends4
<1>2. CASE ~\E where \in {"failed", "done"} : Ends(r, where)
  <2>1. /\ pc[r] = "write" /\ op[r] = "publish" /\ ~Unfit(r) /\ Refers(r) # {} /\ Board \in exists
        /\ Publishes(r) /\ UNCHANGED <<exists, rows, mixed, lost>>
        /\ shared' = IF Flips(r) THEN want[r].flag ELSE shared
        /\ item' = IF Rebinds(r) THEN [item EXCEPT !.source = want[r].source] ELSE item
    BY <1>2 DEF Publish
  <2>2. /\ DataInv /\ kind' = kind
        /\ want[r].flag \in BOOLEAN \cup {Nothing} /\ want[r].source \in Connections \cup {Nothing}
    BY <2>1 DEF BoardInv, RequestInv, WantInv, Writes, Publishes, Closes
  <2>3. shared' \in BOOLEAN
    BY <2>1, <2>2 DEF Unfit, DataInv
  <2>4. /\ item' \in Widgets /\ item'.source \in exists \cup {Nothing}
        /\ item # NoWidget => item' # NoWidget /\ item'.place = item.place
        /\ item = NoWidget => item' = NoWidget
    <3>1. CASE Rebinds(r)
      <4>1. item # NoWidget
        BY <2>1, <2>2, <3>1 DEF Rebinds, DataInv
      <4>2. item' = [item EXCEPT !.source = want[r].source] /\ want[r].source \in exists \cup {Nothing}
        BY <2>1, <3>1 DEF Unfit
      <4>3. item \in Widgets
        BY <2>2 DEF DataInv
      <4>4. /\ [item EXCEPT !.source = want[r].source] \in Widgets /\ [item EXCEPT !.source = want[r].source] # NoWidget
            /\ [item EXCEPT !.source = want[r].source].source = want[r].source
            /\ [item EXCEPT !.source = want[r].source].place = item.place
        BY <2>2, <4>1, <4>3, SourceSet
      <4> QED BY <4>1, <4>2, <4>4
    <3>2. CASE ~Rebinds(r)
      BY <2>1, <2>2, <3>2 DEF DataInv
    <3> QED BY <3>1, <3>2
  <2>5. DataInv'
    BY <2>1, <2>2, <2>3, <2>4 DEF DataInv, PlaceIsOneSave
  <2> QED BY <2>1, <2>5, PublishesKeeps
<1> QED BY <1>1, <1>2

LEMMA CreateWidgetKeeps ==
  ASSUME BoardInv, NEW r \in Requests, CreateWidget(r) PROVE BoardInv'
<1>1. CASE \E where \in {"failed", "done"} : Ends(r, where)
  BY <1>1, EndsKeeps DEF Ends4
<1>2. CASE ~\E where \in {"failed", "done"} : Ends(r, where)
  <2>1. /\ pc[r] = "write" /\ op[r] = "create widget" /\ {Board, want[r].source} \subseteq exists
        /\ Publishes(r) /\ UNCHANGED <<exists, rows, shared, lost>>
        /\ item' = [source |-> want[r].source, place |-> want[r].place, by |-> r] /\ mixed' = FALSE
    BY <1>2 DEF CreateWidget
  <2>2. /\ DataInv /\ kind' = kind /\ want[r].source \in Connections \cup {Nothing} /\ want[r].place \in Places
    BY <2>1 DEF BoardInv, RequestInv, WantInv, Writes, Publishes, Closes
  <2>3. want[r].place \in Spots
    BY <2>2, PlacesAreSpots
  <2>4. item' \in Widgets /\ item'.source = want[r].source /\ item'.place = want[r].place /\ item' # NoWidget
    BY <2>1, <2>2, <2>3, SharingAssumption DEF Widgets, NoWidget
  <2>5. DataInv'
    BY <2>1, <2>2, <2>4 DEF DataInv, PlaceIsOneSave
  <2> QED BY <2>1, <2>5, PublishesKeeps
<1> QED BY <1>1, <1>2

\* A place is written column by column: where it was read, it is replaced.
LEMMA PlaceChanges ==
  ASSUME NEW a \in Spots, NEW b \in Spots
  PROVE  /\ Changed(a, b, b) = a
         /\ \A l \in Spots : Changed(a, a, l) = l /\ Changed(a, b, l) \in Spots
<1>1. \A l \in Spots : DOMAIN l = {"x", "y"} /\ l = [c \in {"x", "y"} |-> l[c]]
  BY DEF Spots
<1>2. Changed(a, b, b) = [c \in {"x", "y"} |-> a[c]]
  BY <1>1 DEF Changed
<1>3. ASSUME NEW l \in Spots PROVE Changed(a, a, l) = l /\ Changed(a, b, l) \in Spots
  <2>1. Changed(a, a, l) = [c \in {"x", "y"} |-> l[c]]
    BY <1>1 DEF Changed
  <2>2. Changed(a, b, l) = [c \in {"x", "y"} |-> IF l[c] = b[c] THEN a[c] ELSE l[c]]
    BY <1>1 DEF Changed
  <2>3. Changed(a, b, l) = [x |-> IF l.x = b.x THEN a.x ELSE l.x, y |-> IF l.y = b.y THEN a.y ELSE l.y]
    BY <2>2
  <2>4. Changed(a, b, l) \in Spots
    BY <2>3 DEF Spots
  <2> QED BY <1>1, <2>1, <2>4
<1> QED BY <1>1, <1>2, <1>3

LEMMA WriteWidgetKeeps ==
  ASSUME BoardInv, NEW r \in Requests, pc[r] = "write", NEW old \in Widgets, old # NoWidget, NEW new,
         WriteWidget(r, old, new), new.source \in Connections \cup {Nothing},
         new.source # old.source => new.source \in exists \cup {Nothing},
         \/ op[r] = "update widget" /\ new.place = old.place
         \/ op[r] = "layout" /\ new.source = old.source /\ new.place \in Places
  PROVE  BoardInv'
<1>1. CASE \E where \in {"failed", "done"} : Ends(r, where)
  BY <1>1, EndsKeeps DEF Ends4
<1>2. CASE ~\E where \in {"failed", "done"} : Ends(r, where)
  <2>1. /\ item.by = old.by /\ Publishes(r) /\ UNCHANGED <<exists, rows, shared, lost>>
        /\ item' = [item EXCEPT !.source = IF new.source = old.source THEN @ ELSE new.source,
                                !.place  = Changed(@, old.place, new.place)]
        /\ mixed' = IF op[r] = "layout" THEN item.place # old.place ELSE mixed
    BY <1>2 DEF WriteWidget
  <2>2. DataInv /\ kind' = kind
    BY <2>1 DEF BoardInv, Publishes, Closes
  <2>3. item # NoWidget /\ item \in Widgets /\ item.place \in Spots /\ old.place \in Spots
    <3>1. old.place \in Spots /\ old.by # Nothing /\ NoWidget.by = Nothing
      BY PlacesAreSpots DEF NoWidget
    <3> QED BY <2>1, <2>2, <3>1, PlacesAreSpots DEF DataInv
  <2> DEFINE source == IF new.source = old.source THEN item.source ELSE new.source
             place  == Changed(item.place, old.place, new.place)
  <2> DEFINE a == item.place  b == old.place
  <2>4. /\ Changed(a, b, b) = a
        /\ \A l \in Spots : Changed(a, a, l) = l /\ Changed(a, b, l) \in Spots
    <3>1. a \in Spots /\ b \in Spots
      BY <2>3
    <3> HIDE DEF a, b
    <3> QED BY <3>1, PlaceChanges
  <2>5. item' = [item EXCEPT !.source = source, !.place = place]
    BY <2>1
  <2>6. source \in Connections \cup {Nothing} /\ source \in exists \cup {Nothing}
    BY <2>2, WidgetSource DEF DataInv
  <2>7. place \in Spots /\ (place \in Places \/ mixed')
    <3>1. CASE op[r] = "update widget" /\ new.place = old.place
      <4>1. place = item.place
        BY <2>4, <3>1, Zenon
      <4>2. item.place \in Places \/ mixed
        BY <2>2, <2>3 DEF DataInv, PlaceIsOneSave
      <4>3. mixed' = mixed
        <5>1. op[r] # "layout"
          BY <3>1
        <5> QED BY <2>1, <5>1
      <4>4. mixed => mixed'
        BY ONLY <4>3, Zenon
      <4> QED BY <2>3, <4>1, <4>2, <4>4
    <3>2. CASE op[r] = "layout" /\ new.place \in Places
      <4>1. new.place \in Spots
        BY <3>2, PlacesAreSpots
      <4>2. place \in Spots /\ (item.place = old.place => place = new.place)
        BY <2>4, <4>1, Zenon
      <4>3. mixed' = (item.place # old.place)
        BY <2>1, <3>2
      <4>4. item.place # old.place => mixed'
        BY ONLY <4>3, Zenon
      <4> QED BY <3>2, <4>2, <4>4
    <3> QED BY <3>1, <3>2
  <2> HIDE DEF source, place
  <2>8. item' \in Widgets \ {NoWidget} /\ item'.source = source /\ item'.place = place
    <3>1. source \in Connections \cup {Nothing} /\ place \in Spots /\ item \in Named
      BY <2>3, <2>6, <2>7, WidgetIsNamed
    <3>2. item' = [source |-> source, place |-> place, by |-> item.by]
      BY ONLY <2>5, <3>1 DEF Named
    <3>3. item' \in Named /\ item'.source = source /\ item'.place = place
      BY ONLY <3>1, <3>2 DEF Named
    <3> QED BY <3>3, WidgetIsNamed
  <2>9. mixed' \in BOOLEAN
    BY <2>1, <2>2 DEF DataInv
  <2>10. DataInv'
    BY <2>1, <2>2, <2>3, <2>6, <2>7, <2>8, <2>9 DEF DataInv, PlaceIsOneSave
  <2> QED BY <2>1, <2>10, PublishesKeeps
<1> QED BY <1>1, <1>2

LEMMA WidgetsKeep ==
  ASSUME BoardInv, NEW r \in Requests, UpdateWidget(r) \/ SaveLayout(r) \/ DeleteWidget(r)
  PROVE  BoardInv'
<1> DEFINE old == loaded[r].item
<1>1. pc[r] = "write" /\ op[r] \in {"update widget", "layout", "delete widget"}
  BY DEF UpdateWidget, SaveLayout, DeleteWidget
<1>2. /\ old \in Widgets /\ want[r].source \in Connections \cup {Nothing} /\ want[r].place \in Places
      /\ op[r] = "update widget" => old # NoWidget
      /\ kind = "dashboard" /\ DataInv
  BY <1>1 DEF BoardInv, RequestInv, OpInv, WantInv, Writes
<1>3. want[r].place \in Spots /\ old.source \in Connections \cup {Nothing}
  BY <1>2, PlacesAreSpots, WidgetSource
<1> HIDE DEF old
<1>4. CASE \E where \in {"failed", "done"} : Ends(r, where)
  BY <1>4, EndsKeeps DEF Ends4
<1>5. CASE UpdateWidget(r) /\ ~\E where \in {"failed", "done"} : Ends(r, where)
  <2> DEFINE new == [old EXCEPT !.source = want[r].source]
  <2>1. op[r] = "update widget" /\ WriteWidget(r, old, new) /\ Refers(r) \subseteq exists
    BY <1>5 DEF UpdateWidget, old
  <2>2. new.source = want[r].source /\ new.place = old.place
    BY <1>2, <2>1, SourceSet
  <2>3. want[r].source # old.source => want[r].source \in exists \cup {Nothing}
    BY <1>1, <2>1 DEF Refers, old, Deletes
  <2> HIDE DEF new
  <2> QED BY <1>1, <1>2, <2>1, <2>2, <2>3, WriteWidgetKeeps
<1>6. CASE SaveLayout(r) /\ ~\E where \in {"failed", "done"} : Ends(r, where)
  <2> DEFINE new == [old EXCEPT !.place = want[r].place]
  <2>1. op[r] = "layout" /\ old # NoWidget /\ WriteWidget(r, old, new)
    BY <1>6 DEF SaveLayout, old
  <2>2. new.place = want[r].place /\ new.source = old.source
    BY <1>2, <1>3, <2>1, PlaceSet
  <2> HIDE DEF new
  <2> QED BY <1>1, <1>2, <1>3, <2>1, <2>2, WriteWidgetKeeps
<1>7. CASE DeleteWidget(r) /\ ~\E where \in {"failed", "done"} : Ends(r, where)
  <2>1. Publishes(r) /\ item' = NoWidget /\ UNCHANGED <<exists, rows, shared, mixed, lost>>
    BY <1>7 DEF DeleteWidget
  <2>2. NoWidget \in Widgets /\ NoWidget.source = Nothing /\ kind' = kind
    BY <2>1 DEF Widgets, NoWidget, Publishes, Closes
  <2>3. DataInv'
    BY <1>2, <2>1, <2>2 DEF DataInv, PlaceIsOneSave
  <2> QED BY <2>1, <2>3, PublishesKeeps
<1> QED BY <1>4, <1>5, <1>6, <1>7

-----------------------------------------------------------------------------
(* The invariant.                                                          *)

LEMMA BoardInit ==
  ASSUME Init PROVE BoardInv
<1>1. PICK granted \in Granted :
        rows = [k \in Keys |->
          IF k \notin granted \/ (k[2] = Board /\ kind # "dashboard") THEN Nothing
          ELSE [level |-> IF k[1] = Text THEN "text" ELSE IF k[2] = Board THEN "view" ELSE "use", by |-> "past"]]
  BY DEF Init
<1>2. \A l \in {"text", "view", "use"} : [level |-> l, by |-> "past"] \in Row
  BY DEF Row, Levels, Texts
<1>3. \A k \in Keys : rows[k] \in {Nothing} \cup Row /\ (rows[k] # Nothing => k \in granted)
  BY <1>1, <1>2
<1>4. rows \in [Keys -> {Nothing} \cup Row]
  BY <1>1, <1>3
<1>5. \A k \in Keys : k[2] \in Objects
  BY DEF Keys
<1>6. \A k \in granted : k[1] # Owner[k[2]]
  BY SharingAssumption
<1>7. (CHOOSE l \in Places : TRUE) \in Places
  BY SharingAssumption
<1>8. item \in Widgets /\ item.source \in Connections /\ item.place \in Places /\ item # NoWidget
  <2>1. PICK c \in Connections : item = [source |-> c, place |-> CHOOSE l \in Places : TRUE, by |-> "past"]
    BY DEF Init
  <2>2. (CHOOSE l \in Places : TRUE) \in Spots
    BY <1>7, PlacesAreSpots
  <2>3. item \in Widgets /\ item.by = "past" /\ NoWidget.by = Nothing
    BY <2>1, <2>2 DEF Widgets, NoWidget
  <2> QED BY <1>7, <2>1, <2>3, SharingAssumption
<1>9. Board \in Objects /\ Connections \subseteq Objects
  BY DEF Objects
<1>10. DataInv
  BY <1>3, <1>4, <1>5, <1>6, <1>8, <1>9 DEF DataInv, Init, PlaceIsOneSave
<1>11. \A r \in Requests : pc[r] = "new" /\ op[r] = "none" /\ DOMAIN pending[r] = {} /\ locked[r] = {}
  <2>1. DOMAIN <<>> = {}
    OBVIOUS
  <2> QED BY <2>1 DEF Init
<1>12. Typed
  BY DEF Init, Typed, Stages
<1>13. \A r, q \in Requests : Apart(r, q)
  BY <1>11 DEF Apart
<1>14. ASSUME NEW r \in Requests PROVE RequestInv(r)
  <2>1. OpInv(r) /\ WantInv(r) /\ HoldInv(r) /\ RunInv(r)
    BY <1>11 DEF OpInv, WantInv, HoldInv, RunInv, Replaces, Deletes, Writes
  <2>2. Fresh(r)
    BY <1>11 DEF Fresh, FreshReplace, FreshEdit, Replaces, Writes
  <2> QED BY <2>1, <2>2 DEF RequestInv
<1> QED BY <1>10, <1>12, <1>13, <1>14 DEF BoardInv

LEMMA BoardStutters ==
  ASSUME BoardInv, UNCHANGED vars PROVE BoardInv'
<1>1. UNCHANGED <<kind, exists, rows, shared, item, mixed, op, by, want, saw, loaded, pc, pending, locked, disturbed, lost>>
  BY DEF vars, data, request, held, history
<1>2. Typed' /\ DataInv'
  BY <1>1 DEF BoardInv, Typed, DataInv, PlaceIsOneSave
<1>3. \A r, q \in Requests : r # q => Apart(r, q)'
  BY <1>1 DEF BoardInv, Apart, Deletes
<1>4. ASSUME NEW r \in Requests PROVE RequestInv(r)'
  <2>1. /\ Scope(r)' = Scope(r) /\ ToRemove(r)' = ToRemove(r) /\ ToUpdate(r)' = ToUpdate(r) /\ ToInsert(r)' = ToInsert(r)
        /\ (Deletes(r)' <=> Deletes(r)) /\ (Replaces(r)' <=> Replaces(r)) /\ RequestInv(r)
    BY <1>1 DEF BoardInv, Scope, ToRemove, ToUpdate, ToInsert, Deletes, Replaces
  <2>2. OpInv(r)' /\ RunInv(r)'
    BY <1>1, <2>1 DEF RequestInv, OpInv, RunInv, Active, Ended, Allowed, CanUse
  <2>3. WantInv(r)' /\ HoldInv(r)'
    BY <1>1, <2>1 DEF RequestInv, WantInv, HoldInv, Level
  <2>4. (r \notin disturbed => Fresh(r))'
    BY <1>1, <2>1 DEF RequestInv, Fresh, FreshReplace, FreshEdit
  <2> QED BY <2>2, <2>3, <2>4 DEF RequestInv
<1> QED BY <1>2, <1>3, <1>4 DEF BoardInv

LEMMA BoardNext ==
  ASSUME BoardInv, [Next]_vars PROVE BoardInv'
<1>1. ASSUME NEW r \in Requests, Arrives(r) PROVE BoardInv'
  BY <1>1, SharesArrive, AccessArrives, DescriptionsArrive, BoardRequestsArrive DEF Arrives
<1>2. ASSUME NEW r \in Requests, Goes(r) PROVE BoardInv'
  <2>1. CASE RunEnds(r) \/ Deadlock(r)
    BY <2>1, EndsKeeps DEF RunEnds, Deadlock, Ends4
  <2> QED BY <1>2, <2>1, ViewKeeps, MayEditKeeps, LoadItemKeeps, UseKeeps, ReadRowsKeeps, LockRowKeeps, LockObjectKeeps,
             CommitRowsKeeps, CommitDeletionKeeps, PublishKeeps, CreateWidgetKeeps, WidgetsKeep DEF Goes
<1> QED BY <1>1, <1>2, BoardStutters DEF Next, Over

\* The inductive invariant holds.
THEOREM BoardHolds == Spec => []BoardInv
<1> QED BY BoardInit, BoardNext, PTL DEF Spec

\* Nothing refers to what was deleted, a key has one writer, and the widget stands
\* where one layout put it (SharingInv).
THEOREM BoardIsSound == Spec => []SharingInv
<1>1. BoardInv => SharingInv
  BY WidgetSource DEF BoardInv, Typed, Stages, Ends4, DataInv, Apart, TypeOK, NothingDangles, SharingInv
<1> QED BY <1>1, BoardHolds, PTL

-----------------------------------------------------------------------------
(* What a step may do.                                                     *)

\* A step moves one request.
LEMMA OneMoves ==
  ASSUME BoardInv, NEW q \in Requests, Arrives(q) \/ Goes(q), NEW r \in Requests \ {q}
  PROVE  pc'[r] = pc[r]
<1>1. \A where : Goto(q, where) => pc'[r] = pc[r]
  BY DEF Goto, BoardInv, Typed
<1>2. \A where : Ends(q, where) => pc'[r] = pc[r]
  BY <1>1 DEF Ends, Closes
<1>3. Publishes(q) => pc'[r] = pc[r]
  BY <1>1 DEF Publishes, Closes
<1>4. \A from, where : \A allowed \in BOOLEAN : Checks(q, from, allowed, where) => pc'[r] = pc[r]
  BY <1>1, <1>2 DEF Checks, Moves
<1>5. \A o, p, w, where, allowed : Arrive(q, o, p, w, allowed, where) => pc'[r] = pc[r]
  BY <1>1, <1>2 DEF Arrive
<1>6. CASE Arrives(q)
  <2>1. \A o, p, w, where : Opens(q, o, p, w, where) => pc'[r] = pc[r]
    BY <1>5 DEF Opens
  <2>2. CASE SetShares(q) \/ SetAccess(q)
    BY <1>5, <2>2 DEF SetShares, SetAccess
  <2>3. CASE Describe(q) \/ DeleteDescription(q) \/ DeleteConnection(q) \/ Run(q)
    BY <1>5, <2>3 DEF Describe, DeleteDescription, DeleteConnection, Run
  <2>4. CASE Delete(q) \/ \E o \in Writes : Edit(q, o)
    BY <2>1, <2>4 DEF Delete, Edit
  <2> QED BY <1>6, <2>2, <2>3, <2>4 DEF Arrives
<1>7. CASE View(q) \/ MayEdit(q) \/ Use(q)
  BY <1>1, <1>2, <1>7 DEF View, MayEdit, Use, Checks, Moves
<1>8. CASE LoadItem(q) \/ ReadRows(q) \/ SendDelete(q) \/ RunEnds(q) \/ Deadlock(q)
  BY <1>1, <1>2, <1>8 DEF LoadItem, ReadRows, SendDelete, RunEnds, Deadlock, Moves
<1>9. CASE LockRow(q) \/ LockObject(q)
  BY <1>2, <1>9 DEF LockRow, LockObject
<1>10. CASE CommitRows(q) \/ CommitDeletion(q) \/ Publish(q) \/ CreateWidget(q) \/ DeleteWidget(q)
  BY <1>2, <1>3, <1>10 DEF CommitRows, CommitDeletion, Publish, CreateWidget, DeleteWidget
<1>11. CASE UpdateWidget(q) \/ SaveLayout(q)
  BY <1>2, <1>3, <1>11 DEF UpdateWidget, SaveLayout, WriteWidget
<1> QED BY <1>6, <1>7, <1>8, <1>9, <1>10, <1>11 DEF Goes

\* Where a request that ends has got to.
LEMMA EndsAt ==
  ASSUME BoardInv, NEW r \in Requests
  PROVE  /\ \A where : Goto(r, where) => pc'[r] = where
         /\ \A where : Ends(r, where) => pc'[r] = where
         /\ \A where : Moves(r, where) => pc'[r] = where
         /\ Publishes(r) => pc'[r] = "done"
BY DEF Goto, Moves, Ends, Publishes, Closes, BoardInv, Typed

\* Requests that arrive, check, read or commit do not fail, nor does a run.
LEMMA WhoFails ==
  ASSUME BoardInv, NEW r \in Requests, Arrives(r) \/ Goes(r), pc'[r] \in {"failed", "deadlocked"}, pc'[r] # pc[r]
  PROVE  \/ pc'[r] = "deadlocked" /\ Deadlock(r)
         \/ pc'[r] = "failed" /\ (LockRow(r) \/ LockObject(r) \/ Publish(r) \/ CreateWidget(r) \/ UpdateWidget(r) \/ SaveLayout(r))
<1>1. ASSUME Arrives(r) PROVE FALSE
  <2> DEFINE Passes(where) == \A o, p, w, allowed : ~Arrive(r, o, p, w, allowed, where)
  <2>1. Passes("view") /\ Passes("read") /\ Passes("write") /\ Passes("work") /\ Passes("use")
    BY EndsAt DEF Arrive
  <2>2. \A o, p, w : ~Opens(r, o, p, w, "write") /\ ~Opens(r, o, p, w, "work")
    BY <2>1 DEF Opens
  <2>3. ~SetShares(r) /\ ~SetAccess(r) /\ ~Describe(r) /\ ~DeleteDescription(r) /\ ~DeleteConnection(r) /\ ~Run(r)
    BY <2>1 DEF SetShares, SetAccess, Describe, DeleteDescription, DeleteConnection, Run
  <2>4. ~Delete(r) /\ \A o \in Writes : ~Edit(r, o)
    BY <2>2 DEF Delete, Edit
  <2> QED BY <1>1, <2>3, <2>4 DEF Arrives
<1>2. ASSUME View(r) \/ MayEdit(r) \/ Use(r) PROVE FALSE
  BY <1>2, EndsAt DEF View, MayEdit, Use, Checks
<1>3. ASSUME LoadItem(r) \/ ReadRows(r) \/ SendDelete(r) \/ RunEnds(r) PROVE FALSE
  BY <1>3, EndsAt DEF LoadItem, ReadRows, SendDelete, RunEnds
<1>4. ASSUME CommitRows(r) \/ CommitDeletion(r) \/ DeleteWidget(r) PROVE FALSE
  BY <1>4, EndsAt DEF CommitRows, CommitDeletion, DeleteWidget
<1>5. Deadlock(r) => pc'[r] = "deadlocked"
  BY EndsAt DEF Deadlock
<1>6. LockRow(r) \/ LockObject(r) => pc'[r] # "deadlocked"
  BY EndsAt DEF LockRow, LockObject
<1>7. Publish(r) \/ CreateWidget(r) \/ UpdateWidget(r) \/ SaveLayout(r) => pc'[r] # "deadlocked"
  BY EndsAt DEF Publish, CreateWidget, UpdateWidget, SaveLayout, WriteWidget
<1> QED BY <1>1, <1>2, <1>3, <1>4, <1>5, <1>6, <1>7 DEF Goes

\* What nobody overtook, the database takes.
LEMMA FreshDoesNotFail ==
  ASSUME BoardInv, NEW r \in Requests, r \notin disturbed, pc'[r] = "failed",
         LockRow(r) \/ LockObject(r) \/ Publish(r) \/ CreateWidget(r) \/ UpdateWidget(r) \/ SaveLayout(r)
  PROVE  Unfit(r)
<1>1. Fresh(r) /\ RequestInv(r)
  BY DEF BoardInv, RequestInv
<1>2. CASE LockRow(r)
  <2>1. PICK k \in First(r) : (~Deletes(r) /\ Obsolete(r, k)) \/ pc' = pc
    BY <1>2 DEF LockRow
  <2>2. pc[r] = "work"
    BY DEF First, Left
  <2>3. ~Deletes(r) /\ Obsolete(r, k)
    BY <2>1, <2>2
  <2>4. Replaces(r)
    BY <1>1, <2>2, <2>3 DEF RequestInv, OpInv, Replaces, Deletes
  <2>5. k \in Scope(r)
    BY <2>3 DEF Obsolete, ToUpdate, ToInsert
  <2>6. saw[r][k] = rows[k]
    BY <1>1, <2>2, <2>4, <2>5 DEF Fresh, FreshReplace
  <2> QED BY <2>3, <2>6 DEF Obsolete, Gone, ToUpdate, ToInsert
<1>3. CASE LockObject(r)
  <2>1. PICK o \in Refers(r) : pc[r] = "work" /\ (o \in exists => pc' = pc) /\ (o \notin exists /\ Deletes(r) => pc'[r] = "done")
    BY <1>3, EndsAt DEF LockObject
  <2>2. o \notin exists /\ ~Deletes(r)
    BY <2>1
  <2>3. PICK k \in ToInsert(r) : o = k[2]
    BY <2>1, <2>2 DEF Refers
  <2>4. Replaces(r)
    BY <1>1, <2>1, <2>2 DEF RequestInv, OpInv, Replaces, Deletes
  <2> QED BY <1>1, <2>2, <2>3, <2>4 DEF Fresh, FreshReplace, ToInsert
<1>4. CASE Publish(r)
  <2>1. op[r] \in Writes
    BY <1>4 DEF Publish, Writes
  <2>2. Board \in exists
    BY <1>1, <2>1 DEF Fresh, FreshEdit
  <2> QED BY <1>4, <2>2, EndsAt DEF Publish
<1>5. CASE CreateWidget(r)
  <2>1. pc[r] = "write" /\ op[r] = "create widget" /\ op[r] \in Writes /\ ~({Board, want[r].source} \subseteq exists)
    BY <1>5, EndsAt DEF CreateWidget, Writes
  <2>2. want[r].source # Nothing
    BY <1>1, <2>1 DEF RequestInv, WantInv
  <2> QED BY <1>1, <2>1, <2>2 DEF Fresh, FreshEdit
<1>6. CASE UpdateWidget(r) \/ SaveLayout(r)
  <2>1. pc[r] = "write" /\ op[r] \in {"update widget", "layout"} /\ op[r] \in Writes
    BY <1>6 DEF UpdateWidget, SaveLayout, Writes
  <2>2. loaded[r].item = item
    BY <1>1, <2>1 DEF Fresh, FreshEdit
  <2>3. \A new : WriteWidget(r, item, new) => pc'[r] = "done"
    BY EndsAt DEF WriteWidget
  <2>4. UpdateWidget(r) => Refers(r) \subseteq exists
    BY <1>1, <2>1 DEF Refers, Fresh, FreshEdit, UpdateWidget, Deletes
  <2> QED BY <1>6, <2>2, <2>3, <2>4, EndsAt DEF UpdateWidget, SaveLayout
<1> QED BY <1>2, <1>3, <1>4, <1>5, <1>6

\* What a request holds, and what it has still to lock.
Held(r)  == DOMAIN pending[r] \cup locked[r]
Needs(r) == First(r) \cup Refers(r)

LEMMA HoldersAreAtWork ==
  ASSUME BoardInv, NEW r \in Requests, Held(r) # {}
  PROVE  Held(r) \subseteq Touches(r) /\ Needs(r) \subseteq Touches(r) /\ Held(r) \cap Needs(r) = {}
<1>1. pc[r] = "work" /\ HoldInv(r) /\ WantInv(r) /\ (Deletes(r) \/ Replaces(r))
  BY DEF Held, BoardInv, RequestInv, HoldInv, OpInv, Deletes, Replaces
<1>2. Keys \cap Objects = {} /\ exists \subseteq Objects /\ locked[r] \subseteq Objects
  BY <1>1, SharingAssumption DEF BoardInv, DataInv, HoldInv
<1>3. CASE Deletes(r)
  <2>1. op[r] \notin {"replace", "drop"} /\ Touches(r) = {want[r]} \cup {k \in Keys : k[2] = want[r]}
    BY <1>3 DEF Touches, Deletes
  <2>2. Held(r) \subseteq Touches(r)
    BY <1>1, <1>3, <2>1 DEF Held, HoldInv
  <2>3. First(r) \subseteq Cascade(r) /\ Refers(r) = {want[r]} \ locked[r]
    BY <1>1, <1>3 DEF First, Left, Refers
  <2>4. Needs(r) \subseteq Touches(r)
    BY <1>1, <1>3, <2>1, <2>3 DEF Needs, Cascade, HoldInv
  <2>5. First(r) \subseteq Keys \ DOMAIN pending[r]
    BY <2>3 DEF Cascade
  <2>6. want[r] \in Objects /\ DOMAIN pending[r] \subseteq Keys
    BY <1>1, <1>3 DEF WantInv, HoldInv
  <2> QED BY <1>2, <2>2, <2>3, <2>4, <2>5, <2>6 DEF Held, Needs
<1>4. CASE Replaces(r)
  <2> DEFINE changed == ToRemove(r) \cup ToUpdate(r) \cup ToInsert(r)
             parents == {k[2] : k \in ToInsert(r)}
  <2>1. ~Deletes(r) /\ Touches(r) = changed \cup parents
    BY <1>4 DEF Touches, Deletes, Replaces
  <2>2. DOMAIN pending[r] \subseteq changed /\ locked[r] \subseteq parents
    BY <1>1, <1>4 DEF HoldInv
  <2>3. First(r) \subseteq changed \ DOMAIN pending[r] /\ Refers(r) \subseteq parents \ locked[r]
    BY <1>1, <2>1 DEF First, Left, Removals, Updates, Inserts, Refers
  <2>4. changed \subseteq Keys
    BY <1>1, <1>4 DEF WantInv, ToRemove, ToUpdate, ToInsert
  <2>5. parents \subseteq Objects
    BY <2>4 DEF Keys
  <2> HIDE DEF changed, parents
  <2> QED BY <1>2, <2>1, <2>2, <2>3, <2>4, <2>5 DEF Held, Needs
<1> QED BY <1>1, <1>3, <1>4

LEMMA WaitsFor ==
  ASSUME NEW r \in Requests, NEW q \in Requests, Waits(r, q) PROVE q # r /\ \E x \in Needs(r) : x \in Held(q)
BY DEF Waits, Bars, Needs, Held

\* A deadlock's victim crosses the one it waits for.
LEMMA VictimsCross ==
  ASSUME BoardInv, NEW r \in Requests, Deadlock(r) PROVE \E q \in Requests \ {r} : Cross(r, q)
<1>1. PICK q \in Requests : Waits(r, q) /\ (Waits(q, r) \/ \E s \in Requests : Waits(q, s) /\ Waits(s, r))
  BY DEF Deadlock
<1>2. PICK s \in Requests, t \in Requests : Waits(q, s) /\ Waits(t, r)
  BY <1>1
<1>3. PICK x \in Needs(r) : x \in Held(q) /\ q # r
  BY <1>1, WaitsFor
<1>4. PICK z \in Needs(q) : TRUE
  BY <1>2, WaitsFor
<1>5. PICK y \in Held(r) : TRUE
  BY <1>2, WaitsFor
<1>6. x \in Touches(r) /\ y \in Touches(r) /\ x # y
  BY <1>3, <1>5, HoldersAreAtWork
<1>7. x \in Touches(q) /\ z \in Touches(q) /\ x # z
  BY <1>3, <1>4, HoldersAreAtWork
<1> QED BY <1>3, <1>6, <1>7 DEF Cross

\* A request fails only when another one committed while it ran or when it sends what
\* the database refuses, and as a deadlock's victim only by a replace or deletion it
\* crosses (FailuresAreRaces).
THEOREM OnlyRacesFail == Spec => FailuresAreRaces
<1>1. ASSUME BoardInv, [Next]_vars, NEW r \in Requests, pc'[r] \in {"failed", "deadlocked"}, pc[r] # pc'[r]
      PROVE  /\ pc'[r] = "failed" => r \in disturbed \/ Unfit(r)
             /\ pc'[r] = "deadlocked" => \E q \in Requests \ {r} : Cross(r, q)
  <2>1. pc' # pc
    BY <1>1
  <2>2. PICK q \in Requests : Arrives(q) \/ Goes(q)
    BY <1>1, <2>1 DEF Next, Over, vars
  <2>3. q = r
    BY <1>1, <2>2, OneMoves
  <2>4. Arrives(r) \/ Goes(r)
    BY <2>2, <2>3
  <2> QED BY <1>1, <2>4, WhoFails, FreshDoesNotFail, VictimsCross
<1>2. BoardInv /\ [Next]_vars =>
        [ \A r \in Requests :
            /\ pc[r] # "failed" /\ pc'[r] = "failed" => r \in disturbed \/ Unfit(r)
            /\ pc[r] # "deadlocked" /\ pc'[r] = "deadlocked" => \E q \in Requests \ {r} : Cross(r, q) ]_vars
  BY <1>1
<1> QED BY <1>2, BoardHolds, PTL DEF Spec, FailuresAreRaces

\* A commit of a replace nobody overtook has written what was wanted.
LEMMA WrittenIsWanted ==
  ASSUME BoardInv, NEW r \in Requests, r \notin disturbed, op[r] = "replace", Ready(r), NEW k \in Scope(r)
  PROVE  Level(Written(r)[k]) = want[r][k]
<1>1. pc[r] = "work" /\ Replaces(r) /\ ~Deletes(r) /\ Left(r) = {}
  BY DEF Ready, Replaces, Deletes
<1>2. HoldInv(r) /\ Fresh(r) /\ k \in Keys
  BY <1>1 DEF BoardInv, RequestInv, WantInv
<1>3. saw[r][k] = rows[k]
  BY <1>1, <1>2 DEF Fresh, FreshReplace
<1>4. Written(r)[k] = IF k \in DOMAIN pending[r] THEN pending[r][k] ELSE rows[k]
  BY <1>2 DEF Written
<1>5. CASE k \in DOMAIN pending[r]
  BY <1>1, <1>2, <1>4, <1>5 DEF HoldInv
<1>6. CASE k \notin DOMAIN pending[r]
  <2>1. Removals(r) = {} /\ Updates(r) = {} /\ Inserts(r) = {}
    BY <1>1 DEF Left
  <2>2. k \in ToRemove(r) \cup ToUpdate(r) => ~Gone(r, k)
    BY <1>3 DEF Gone, ToRemove, ToUpdate
  <2>3. k \notin ToRemove(r) \cup ToUpdate(r) \cup ToInsert(r)
    BY <1>6, <2>1, <2>2 DEF Removals, Updates, Inserts
  <2>4. Level(rows[k]) = want[r][k]
    BY <1>3, <2>3 DEF ToRemove, ToUpdate, ToInsert, Level
  <2> QED BY <1>4, <1>6, <2>4
<1> QED BY <1>5, <1>6

\* A replace nobody overtook leaves exactly the set asked for (ReplaceIsExact).
THEOREM ReplacesAreExact == Spec => ReplaceIsExact
<1>1. ASSUME BoardInv, [Next]_vars, NEW r \in Requests, op[r] = "replace", pc[r] = "work", pc'[r] = "done", r \notin disturbed,
             NEW k \in Scope(r)
      PROVE  Level(rows'[k]) = want[r][k]
  <2>1. pc' # pc /\ ~Deletes(r)
    BY <1>1 DEF Deletes
  <2>2. PICK q \in Requests : Arrives(q) \/ Goes(q)
    BY <1>1, <2>1 DEF Next, Over, vars
  <2>3. q = r
    BY <1>1, <2>2, OneMoves
  <2>4. CommitRows(r)
    <3>1. ~Arrives(r)
      BY <1>1 DEF Arrives, SetShares, SetAccess, Describe, DeleteDescription, Delete, DeleteConnection, Run, Edit, Opens, Arrive
    <3>2. ~Deadlock(r) /\ ~LockRow(r) /\ ~LockObject(r)
      BY <1>1, <2>1, EndsAt DEF Deadlock, LockRow, LockObject
    <3>3. ~CommitDeletion(r)
      BY <2>1 DEF CommitDeletion
    <3> QED BY <1>1, <2>2, <2>3, <3>1, <3>2, <3>3 DEF Goes, View, MayEdit, Use, Checks, LoadItem, RunEnds, ReadRows, SendDelete,
               Publish, CreateWidget, UpdateWidget, SaveLayout, DeleteWidget
  <2>5. Ready(r) /\ rows' = Written(r)
    BY <2>4 DEF CommitRows
  <2> QED BY <1>1, <2>5, WrittenIsWanted
<1>2. BoardInv /\ [Next]_vars =>
        [ \A r \in Requests : op[r] = "replace" /\ pc[r] = "work" /\ pc'[r] = "done" /\ r \notin disturbed =>
            \A k \in Scope(r) : Level(rows'[k]) = want[r][k] ]_vars
  BY <1>1
<1> QED BY <1>2, BoardHolds, PTL DEF Spec, ReplaceIsExact

\* A run shows a connection's rows only to a caller who may use it, or could when the
\* run checked and lost it since (RowsNeedAccess).
THEOREM RowsAreAllowed == Spec => RowsNeedAccess
<1>1. BoardInv =>
        [ \A r \in Requests : pc[r] = "run" /\ pc'[r] = "done" => Allowed(r) \/ r \in lost ]_vars
  BY DEF BoardInv, RequestInv, RunInv
<1> QED BY <1>1, BoardHolds, PTL DEF RowsNeedAccess

=============================================================================
