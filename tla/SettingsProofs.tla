---------------------------- MODULE SettingsProofs ----------------------------
(***************************************************************************)
(* Settings is correct for any requests, values and number of restarts: its  *)
(* rows are locked in one order, its failures are races, and the schedule of *)
(* the daily fetch follows what was saved.                                   *)
(***************************************************************************)
EXTENDS Settings, SequenceTheorems, TLAPS

Stored  == Values \cup {Nothing}
Sets    == [key : Keys, value : Stored]
Partial == UNION {[S -> Stored] : S \in SUBSET Keys}

\* The order of the settings in every handler.
Rank == [k \in Keys |-> IF k \in {"zone", "mode", "prompt"} THEN 1 ELSE 2]

Ordered(s)   == \A i, j \in DOMAIN s : i < j => Rank[s[i].key] < Rank[s[j].key]
OffSchedule(s) == \A i \in DOMAIN s : s[i].key \notin Schedule

TypeInv ==
  /\ TypeOK
  /\ op \in [Requests -> {"none", "clarity", "ask", "prompt"}]
  /\ todo \in [Requests -> Seq(Sets)]
  /\ loaded \in [Requests -> Stored]
  /\ pending \in [Requests -> Partial]
  /\ disturbed \subseteq Requests /\ behind \subseteq Requests

\* What a save has still to do and what it holds, by where it is.
PlaceInv ==
  \A r \in Requests :
    /\ pc[r] \in {"load", "write"} <=> todo[r] # <<>>
    /\ ~Saving(r) => Locked(r) = {}

\* What is left to write comes after what is written, and only a save of the
\* Clarity settings touches the schedule.
PlanInv ==
  \A r \in Requests :
    /\ Ordered(todo[r])
    /\ \A k \in Locked(r), i \in DOMAIN todo[r] : Rank[k] < Rank[todo[r][i].key]
    /\ op[r] # "clarity" => OffSchedule(todo[r]) /\ Locked(r) \cap Schedule = {}

OneWriter == \A r, q \in Requests : r # q => Locked(r) \cap Locked(q) = {}

\* A save nobody overtook has loaded what is there.
LoadInv ==
  /\ \A r \in Requests : pc[r] = "write" /\ r \notin disturbed => loaded[r] = row[todo[r][1].key]
  /\ FailuresAreRaces

\* A rescheduling nobody overtook has read what is there.
ReadInv ==
  /\ \A r \in Requests \ behind :
       /\ pc[r] \in {"read zone", "apply"} => config[r]["time"] = Effective("time")
       /\ pc[r] = "apply" => config[r]["zone"] = Effective("zone")
  /\ JobFollowsSettings

SavesInv == TypeInv /\ PlaceInv /\ PlanInv /\ OneWriter /\ LoadInv /\ ReadInv

-----------------------------------------------------------------------------
(* Facts about plans and what a save holds.                                *)

LEMMA Holdings ==
  /\ <<>> \in Partial /\ DOMAIN <<>> = {}
  /\ \A f \in Partial : DOMAIN f \subseteq Keys /\ \A k \in DOMAIN f : f[k] \in Stored
<1>1. DOMAIN <<>> = {}
  OBVIOUS
<1>2. <<>> \in [{} -> Stored]
  OBVIOUS
<1> QED BY <1>1, <1>2 DEF Partial

LEMMA Extended ==
  ASSUME NEW f \in Partial, NEW k \in Keys, NEW v \in Stored
  PROVE  LET g == [x \in DOMAIN f \cup {k} |-> IF x = k THEN v ELSE f[x]]
         IN g \in Partial /\ DOMAIN g = DOMAIN f \cup {k}
<1> DEFINE g == [x \in DOMAIN f \cup {k} |-> IF x = k THEN v ELSE f[x]]
<1>1. DOMAIN f \cup {k} \in SUBSET Keys
  BY Holdings
<1>2. g \in [DOMAIN f \cup {k} -> Stored]
  BY Holdings
<1> QED BY <1>1, <1>2 DEF Partial

\* A plan some handler may start with.
Plan(o, s) ==
  /\ o \in {"clarity", "ask", "prompt"} /\ s \in Seq(Sets) /\ Ordered(s)
  /\ o # "clarity" => OffSchedule(s)

LEMMA ShortPlans ==
  /\ <<>> \in Seq(Sets) /\ Ordered(<<>>)
  /\ \A k \in Keys, v \in Stored :
       /\ <<Set(k, v)>> \in Seq(Sets) /\ Ordered(<<Set(k, v)>>)
       /\ k \notin Schedule => OffSchedule(<<Set(k, v)>>)
  /\ \A k, l \in Keys, v, w \in Stored : Rank[k] < Rank[l] =>
       /\ <<Set(k, v), Set(l, w)>> \in Seq(Sets) /\ Ordered(<<Set(k, v), Set(l, w)>>)
       /\ k \notin Schedule /\ l \notin Schedule => OffSchedule(<<Set(k, v), Set(l, w)>>)
<1>1. \A k \in Keys, v \in Stored : Set(k, v) \in Sets /\ Set(k, v).key = k
  BY DEF Set, Sets
<1>2. <<>> \in Seq(Sets) /\ Ordered(<<>>)
  BY DEF Ordered
<1>3. ASSUME NEW k \in Keys, NEW v \in Stored
      PROVE  /\ <<Set(k, v)>> \in Seq(Sets) /\ Ordered(<<Set(k, v)>>)
             /\ k \notin Schedule => OffSchedule(<<Set(k, v)>>)
  <2> DEFINE a == Set(k, v)
  <2>1. a \in Sets /\ a.key = k
    BY <1>1
  <2> HIDE DEF a
  <2>2. <<a>> \in Seq(Sets) /\ Ordered(<<a>>) /\ (k \notin Schedule => OffSchedule(<<a>>))
    BY <2>1 DEF Ordered, OffSchedule
  <2> QED BY <2>2 DEF a
<1>4. ASSUME NEW k \in Keys, NEW v \in Stored, NEW l \in Keys, NEW w \in Stored, Rank[k] < Rank[l]
      PROVE  /\ <<Set(k, v), Set(l, w)>> \in Seq(Sets) /\ Ordered(<<Set(k, v), Set(l, w)>>)
             /\ k \notin Schedule /\ l \notin Schedule => OffSchedule(<<Set(k, v), Set(l, w)>>)
  <2> DEFINE a == Set(k, v)  b == Set(l, w)
  <2>1. a \in Sets /\ a.key = k /\ b \in Sets /\ b.key = l
    BY <1>1
  <2> HIDE DEF a, b
  <2>2. <<a, b>> \in Seq(Sets)
    BY <2>1
  <2>3. Ordered(<<a, b>>)
    BY <1>4, <2>1 DEF Ordered
  <2>4. k \notin Schedule /\ l \notin Schedule => OffSchedule(<<a, b>>)
    BY <2>1 DEF OffSchedule
  <2> QED BY <2>2, <2>3, <2>4 DEF a, b
<1> QED BY <1>2, <1>3, <1>4

LEMMA Plans ==
  ASSUME NEW r, SaveClarity(r) \/ SaveAsk(r) \/ SavePrompt(r) \/ ResetPrompt(r)
  PROVE  \E o \in {"clarity", "ask", "prompt"}, s \in Seq(Sets) : Begin(r, o, s) /\ Plan(o, s)
<1>1. CASE SaveClarity(r)
  <2>1. PICK t, z \in Values \cup {Nothing} :
          Begin(r, "clarity", (IF z = Nothing THEN <<>> ELSE <<Set("zone", z)>>)
                              \o (IF t = Nothing THEN <<>> ELSE <<Set("time", t)>>))
    BY <1>1 DEF SaveClarity
  <2>2. \A a, b : <<>> \o <<>> = <<>> /\ <<a>> \o <<>> = <<a>> /\ <<>> \o <<b>> = <<b>> /\ <<a>> \o <<b>> = <<a, b>>
    <3> SUFFICES ASSUME NEW a, NEW b
                 PROVE  <<>> \o <<>> = <<>> /\ <<a>> \o <<>> = <<a>> /\ <<>> \o <<b>> = <<b>> /\ <<a>> \o <<b>> = <<a, b>>
      OBVIOUS
    <3>1. <<>> \in Seq({a, b}) /\ <<a>> \in Seq({a, b}) /\ <<b>> \in Seq({a, b})
      OBVIOUS
    <3>2. <<>> \o <<>> = <<>> /\ <<a>> \o <<>> = <<a>> /\ <<>> \o <<b>> = <<b>>
      BY <3>1, ConcatEmptySeq
    <3>3. <<a>> \o <<b>> = <<a, b>>
      <4> DEFINE s == <<a>> \o <<b>>
      <4>1. s \in Seq({a, b}) /\ Len(s) = 2 /\ \A i \in 1..2 : s[i] = IF i <= 1 THEN <<a>>[i] ELSE <<b>>[i - 1]
        BY <3>1, ConcatProperties
      <4>2. s[1] = a /\ s[2] = b
        BY <4>1
      <4> HIDE DEF s
      <4>3. s = <<a, b>>
        BY <4>1, <4>2
      <4> QED BY <4>3 DEF s
    <3> QED BY <3>2, <3>3
  <2>3. \E s \in {<<>>, <<Set("zone", z)>>, <<Set("time", t)>>, <<Set("zone", z), Set("time", t)>>} :
          Begin(r, "clarity", s)
    BY <2>1, <2>2
  <2>4. Rank["zone"] < Rank["time"] /\ {"zone", "time"} \subseteq Keys
    BY DEF Rank, Keys, Schedule
  <2>5. \A s \in {<<>>, <<Set("zone", z)>>, <<Set("time", t)>>, <<Set("zone", z), Set("time", t)>>} :
          s \in Seq(Sets) /\ Ordered(s)
    BY ZenonT(30), <2>4, ShortPlans DEF Stored
  <2> QED BY <2>3, <2>5 DEF Plan
<1>2. CASE SaveAsk(r)
  <2>1. PICK v, w \in Values : Begin(r, "ask", <<Set("mode", v), Set("cap", w)>>)
    BY <1>2 DEF SaveAsk
  <2>2. Rank["mode"] < Rank["cap"] /\ {"mode", "cap"} \subseteq Keys /\ "mode" \notin Schedule /\ "cap" \notin Schedule
    BY DEF Rank, Keys, Schedule
  <2> QED BY <2>1, <2>2, ShortPlans DEF Plan, Stored
<1>3. CASE SavePrompt(r) \/ ResetPrompt(r)
  <2>1. PICK v \in Stored : Begin(r, "prompt", <<Set("prompt", v)>>)
    BY <1>3 DEF SavePrompt, ResetPrompt, Stored
  <2>2. "prompt" \in Keys \ Schedule
    BY DEF Keys, Schedule
  <2> QED BY <2>1, <2>2, ShortPlans DEF Plan
<1> QED BY <1>1, <1>2, <1>3

-----------------------------------------------------------------------------
(* What a step is.                                                         *)

\* A plan that is left has a first setting.
LEMMA FirstSetting ==
  ASSUME TypeInv, PlaceInv, NEW r \in Requests, pc[r] \in {"load", "write"}
  PROVE  /\ todo[r] \in Seq(Sets) /\ todo[r] # <<>> /\ 1 \in DOMAIN todo[r]
         /\ todo[r][1] \in Sets /\ todo[r][1].key \in Keys /\ todo[r][1].value \in Stored
<1>1. todo[r] \in Seq(Sets) /\ todo[r] # <<>>
  BY DEF TypeInv, PlaceInv
<1>2. 1 \in DOMAIN todo[r] /\ todo[r][1] \in Sets
  <2> DEFINE t == todo[r]
  <2>1. t \in Seq(Sets) /\ t # <<>>
    BY <1>1
  <2> HIDE DEF t
  <2>2. 1 \in DOMAIN t /\ t[1] \in Sets
    BY <2>1
  <2> QED BY <2>2 DEF t
<1> QED BY <1>1, <1>2 DEF Sets

\* What a successful write adds: nothing, or a row nobody else holds.
Adds(r, new) ==
  /\ new \in Partial
  /\ \/ DOMAIN new = Locked(r)
     \/ DOMAIN new = Locked(r) \cup {todo[r][1].key} /\ \A q \in Requests \ {r} : todo[r][1].key \notin Locked(q)

LEMMA WriteIs ==
  ASSUME TypeInv, PlaceInv, NEW r \in Requests, Write(r)
  PROVE  /\ pc[r] = "write"
         /\ \/ Abort(r, "failed") /\ loaded[r] # row[todo[r][1].key]
            \/ \E new \in Partial : Adds(r, new) /\ Writes(r, new)
<1> DEFINE s == todo[r][1]
          bigger == [k \in Locked(r) \cup {s.key} |-> IF k = s.key THEN s.value ELSE pending[r][k]]
<1>1. pc[r] = "write" /\ s.key \in Keys /\ s.value \in Stored
  BY FirstSetting DEF Write
<1>2. pending[r] \in Partial
  BY DEF TypeInv
<1>3. CASE s.value = loaded[r] \/ (s.value = Nothing /\ row[s.key] = Nothing)
  <2>1. Writes(r, pending[r]) /\ Adds(r, pending[r])
    BY <1>2, <1>3 DEF Write, Adds, Locked
  <2> QED BY <1>1, <1>2, <2>1
<1>4. CASE /\ ~(s.value = loaded[r] \/ (s.value = Nothing /\ row[s.key] = Nothing))
          /\ s.value # Nothing /\ (row[s.key] = Nothing) # (loaded[r] = Nothing)
  BY <1>1, <1>4 DEF Write
<1>5. CASE /\ ~(s.value = loaded[r] \/ (s.value = Nothing /\ row[s.key] = Nothing))
          /\ ~(s.value # Nothing /\ (row[s.key] = Nothing) # (loaded[r] = Nothing))
  <2>1. Writes(r, bigger)
    BY <1>5 DEF Write
  <2>2. bigger \in Partial /\ DOMAIN bigger = Locked(r) \cup {s.key}
    BY <1>1, <1>2, Extended DEF Locked
  <2>3. \A q \in Requests \ {r} : s.key \notin Locked(q)
    BY <1>1, <1>5 DEF Write, WaitsFor
  <2> HIDE DEF bigger
  <2>4. Adds(r, bigger)
    BY <2>2, <2>3 DEF Adds
  <2> QED BY <1>1, <2>1, <2>2, <2>4
<1> QED BY <1>3, <1>4, <1>5

\* The steps of a save and of its rescheduling.
Moves(r) ==
  \/ \E o \in {"clarity", "ask", "prompt"}, s \in Seq(Sets) : Begin(r, o, s) /\ Plan(o, s)
  \/ pc[r] = "load" /\ Abort(r, "refused")
  \/ pc[r] = "write" /\ Abort(r, "failed") /\ loaded[r] # row[todo[r][1].key]
  \/ Load(r)
  \/ pc[r] = "write" /\ \E new \in Partial : Adds(r, new) /\ Writes(r, new)
  \/ Commit(r) \/ ReadTime(r) \/ ReadZone(r) \/ ReadFails(r) \/ Apply(r)

LEMMA StepIs ==
  ASSUME TypeInv, PlaceInv, NEW r \in Requests, Step(r)
  PROVE  Moves(r)
<1>1. CASE SaveClarity(r) \/ SaveAsk(r) \/ SavePrompt(r) \/ ResetPrompt(r)
  BY <1>1, Plans DEF Moves
<1>2. CASE Write(r)
  BY <1>2, WriteIs DEF Moves
<1>3. CASE Refuse(r)
  BY <1>3 DEF Refuse, Moves
<1>4. CASE Load(r) \/ Commit(r) \/ ReadTime(r) \/ ReadZone(r) \/ ReadFails(r) \/ Apply(r)
  BY <1>4 DEF Moves
<1> QED BY <1>1, <1>2, <1>3, <1>4 DEF Step

-----------------------------------------------------------------------------
(* Types.                                                                  *)

LEMMA EffectiveType ==
  ASSUME TypeOK
  PROVE  Configured \in [Schedule -> Values \cup {Default}] /\ Fallback \in [Schedule -> Values \cup {Default}]
<1>1. \A k \in Schedule : Effective(k) \in Values \cup {Default}
  BY DEF TypeOK, Effective, Keys
<1> QED BY <1>1 DEF Configured, Fallback

LEMMA TypeStep ==
  ASSUME TypeInv, PlaceInv, NEW r \in Requests, Moves(r)
  PROVE  TypeInv'
<1> DEFINE Places == {"new", "load", "write", "commit", "read time", "read zone", "apply",
                      "done", "refused", "failed", "lost"}
<1>0. \A w \in Places : Goto(r, w) => pc' \in [Requests -> Places]
  BY DEF Goto, TypeInv, TypeOK
<1>1. ASSUME NEW o \in {"clarity", "ask", "prompt"}, NEW s \in Seq(Sets), Begin(r, o, s)
      PROVE  TypeInv'
  BY <1>0, <1>1 DEF Begin, TypeInv, TypeOK
<1>2. ASSUME NEW w \in {"refused", "failed"}, Abort(r, w)
      PROVE  TypeInv'
  <2>1. pending' \in [Requests -> Partial] /\ todo' \in [Requests -> Seq(Sets)]
    BY <1>2, Holdings DEF Abort, TypeInv
  <2> QED BY <1>0, <1>2, <2>1 DEF Abort, TypeInv, TypeOK, Stored
<1>3. CASE Load(r)
  <2>1. row[todo[r][1].key] \in Stored
    BY <1>3, FirstSetting DEF Load, TypeInv, TypeOK, Stored
  <2> QED BY <1>0, <1>3, <2>1 DEF Load, TypeInv, TypeOK
<1>4. ASSUME NEW new \in Partial, Writes(r, new), pc[r] = "write"
      PROVE  TypeInv'
  <2>1. Tail(todo[r]) \in Seq(Sets)
    <3>1. todo[r] \in Seq(Sets) /\ todo[r] # <<>>
      BY <1>4, FirstSetting
    <3> QED BY <3>1
  <2>2. todo' \in [Requests -> Seq(Sets)] /\ pending' \in [Requests -> Partial]
    BY <1>4, <2>1 DEF Writes, TypeInv
  <2>3. pc' \in [Requests -> Places]
    BY <1>0, <1>4 DEF Writes
  <2> QED BY <1>4, <2>2, <2>3 DEF Writes, TypeInv, TypeOK, Stored
<1>5. CASE Commit(r)
  <2>1. row' \in [Keys -> Values \cup {Nothing}]
    <3>1. \A k \in Locked(r) : pending[r][k] \in Values \cup {Nothing}
      BY Holdings DEF TypeInv, Locked, Stored
    <3> QED BY <1>5, <3>1 DEF Commit, TypeInv, TypeOK
  <2>2. pending' \in [Requests -> Partial] /\ op' \in [Requests -> {"none", "clarity", "ask", "prompt"}]
    BY <1>5, Holdings DEF Commit, TypeInv
  <2>3. pc' \in [Requests -> Places] /\ disturbed' \subseteq Requests /\ behind' \subseteq Requests
    BY <1>0, <1>5 DEF Commit, TypeInv
  <2> QED BY <1>5, <2>1, <2>2, <2>3 DEF Commit, TypeInv, TypeOK
<1>6. ASSUME NEW here, NEW k \in Schedule, NEW next \in {"read zone", "apply"}, Read(r, here, k, next)
      PROVE  TypeInv'
  <2>1. Effective(k) \in Values \cup {Default}
    BY DEF TypeInv, TypeOK, Effective, Keys
  <2>2. config' \in [Requests -> [Schedule -> Values \cup {Default}]]
    BY <1>6, <2>1 DEF Read, TypeInv, TypeOK
  <2>3. pc' \in [Requests -> Places]
    BY <1>0, <1>6 DEF Read
  <2> QED BY <1>6, <2>2, <2>3 DEF Read, TypeInv, TypeOK, save
<1>7. CASE ReadTime(r) \/ ReadZone(r)
  BY <1>6, <1>7 DEF ReadTime, ReadZone, Schedule
<1>8. CASE ReadFails(r)
  <2>1. Fallback \in [Schedule -> Values \cup {Default}]
    BY EffectiveType DEF TypeInv
  <2> QED BY <1>0, <1>8, <2>1 DEF ReadFails, TypeInv, TypeOK, save
<1>9. CASE Apply(r)
  <2>1. Fallback \in [Schedule -> Values \cup {Default}]
    BY EffectiveType DEF TypeInv
  <2>2. pc' \in [Requests -> Places] /\ behind' \subseteq Requests
    BY <1>0, <1>9 DEF Apply, TypeInv
  <2>5. stale' \in BOOLEAN
    <3>1. CASE r \in behind
      <4>1. stale' = TRUE
        BY <1>9, <3>1 DEF Apply
      <4> QED BY <4>1
    <3>2. CASE r \notin behind
      <4>0. (r \in behind) = FALSE
        BY <3>2
      <4>1. stale' = (r \in behind)
        BY <1>9 DEF Apply
      <4>2. stale' = FALSE
        BY <4>0, <4>1
      <4> QED BY <4>2
    <3> QED BY <3>1, <3>2
  <2>3. job' \in [Schedule -> Values \cup {Default}]
    BY <1>9 DEF Apply, TypeInv, TypeOK
  <2>4. config' \in [Requests -> [Schedule -> Values \cup {Default}]]
    BY <1>9, <2>1 DEF Apply, TypeInv, TypeOK
  <2> QED BY <1>9, <2>2, <2>3, <2>4, <2>5 DEF Apply, TypeInv, TypeOK, save
<1> QED BY <1>1, <1>2, <1>3, <1>4, <1>5, <1>7, <1>8, <1>9 DEF Moves

LEMMA TypeRestart ==
  ASSUME TypeInv, Restart
  PROVE  TypeInv'
<1>1. Fallback \in [Schedule -> Values \cup {Default}] /\ Configured \in [Schedule -> Values \cup {Default}]
  BY EffectiveType DEF TypeInv
<1>2. pending' \in [Requests -> Partial] /\ todo' \in [Requests -> Seq(Sets)]
  BY Holdings DEF Restart
<1>3. op' \in [Requests -> {"none", "clarity", "ask", "prompt"}] /\ loaded' \in [Requests -> Stored]
  BY DEF Restart, Stored
<1>4. restarts' \in 0..MaxRestarts
  <2>1. restarts \in 0..MaxRestarts /\ restarts < MaxRestarts /\ restarts' = restarts + 1
    BY DEF Restart, TypeInv, TypeOK
  <2> QED BY <2>1, SettingsAssumption
<1>5. job' \in [Schedule -> Values \cup {Default}] /\ stale' \in BOOLEAN
      /\ config' \in [Requests -> [Schedule -> Values \cup {Default}]]
  BY <1>1 DEF Restart
<1>6. pc' \in [Requests -> {"new", "load", "write", "commit", "read time", "read zone", "apply",
                            "done", "refused", "failed", "lost"}]
  BY DEF Restart, TypeInv, TypeOK
<1> QED BY <1>2, <1>3, <1>4, <1>5, <1>6 DEF Restart, TypeInv, TypeOK

-----------------------------------------------------------------------------
(* Where a save is, what it still has to do and what it holds.             *)

Same(q) == /\ pc'[q] = pc[q] /\ op'[q] = op[q] /\ todo'[q] = todo[q]
           /\ loaded'[q] = loaded[q] /\ pending'[q] = pending[q] /\ config'[q] = config[q]

LEMMA OthersStay ==
  ASSUME TypeInv, NEW r \in Requests, Moves(r), NEW q \in Requests \ {r}
  PROVE  Same(q)
<1>0. \A w : Goto(r, w) => pc'[q] = pc[q]
  BY DEF Goto, TypeInv, TypeOK
<1>1. ASSUME NEW o, NEW s, Begin(r, o, s)
      PROVE  Same(q)
  BY <1>0, <1>1 DEF Begin, TypeInv, Same
<1>2. ASSUME NEW w, Abort(r, w)
      PROVE  Same(q)
  BY <1>0, <1>2 DEF Abort, TypeInv, Same
<1>3. CASE Load(r)
  BY <1>0, <1>3 DEF Load, TypeInv, Same
<1>4. ASSUME NEW new, Writes(r, new)
      PROVE  Same(q)
  BY <1>0, <1>4 DEF Writes, TypeInv, Same
<1>5. CASE Commit(r)
  BY <1>0, <1>5 DEF Commit, TypeInv, Same
<1>6. CASE ReadTime(r) \/ ReadZone(r) \/ ReadFails(r) \/ Apply(r)
  <2>1. UNCHANGED save /\ pc'[q] = pc[q]
    BY <1>0, <1>6 DEF ReadTime, ReadZone, Read, ReadFails, Apply
  <2>2. config'[q] = config[q]
    BY <1>6 DEF ReadTime, ReadZone, Read, ReadFails, Apply, TypeInv, TypeOK
  <2> QED BY <2>1, <2>2 DEF save, Same
<1> QED BY <1>1, <1>2, <1>3, <1>4, <1>5, <1>6 DEF Moves

\* The rest of a plan.
LEMMA Rest ==
  ASSUME NEW s \in Seq(Sets), s # <<>>
  PROVE  /\ Tail(s) \in Seq(Sets) /\ (Len(s) = 1 <=> Tail(s) = <<>>)
         /\ \A i \in DOMAIN Tail(s) : i \in Nat /\ i + 1 \in DOMAIN s /\ Tail(s)[i] = s[i + 1]
         /\ 1 \in DOMAIN s
<1>1. Len(s) \in Nat /\ Len(s) # 0 /\ DOMAIN s = 1..Len(s)
  BY LenProperties, EmptySeq
<1>2. Tail(s) \in Seq(Sets) /\ Len(Tail(s)) = Len(s) - 1 /\ \A i \in 1..Len(Tail(s)) : Tail(s)[i] = s[i + 1]
  BY <1>1
<1>3. DOMAIN Tail(s) = 1..Len(Tail(s))
  BY <1>2, LenProperties
<1>4. Tail(s) = <<>> <=> Len(Tail(s)) = 0
  BY <1>2, EmptySeq
<1> QED BY <1>1, <1>2, <1>3, <1>4

LEMMA PlaceStep ==
  ASSUME TypeInv, PlaceInv, NEW r \in Requests, Moves(r)
  PROVE  PlaceInv'
<1> DEFINE P(q) == /\ pc[q] \in {"load", "write"} <=> todo[q] # <<>>
                   /\ ~Saving(q) => Locked(q) = {}
<1>p. \A q \in Requests : P(q)
  BY DEF PlaceInv
<1>q. ASSUME NEW q \in Requests \ {r}
      PROVE  P(q)'
  <2>1. Same(q) /\ P(q)
    BY <1>p, OthersStay
  <2> QED BY <2>1 DEF Same, Saving, Locked
<1> SUFFICES P(r)'
  <2> SUFFICES ASSUME P(r)'
               PROVE  \A q \in Requests : P(q)'
    BY DEF PlaceInv
  <2> QED BY <1>q
<1>0. \A w : Goto(r, w) => pc'[r] = w
  BY DEF Goto, TypeInv, TypeOK
<1>1. ASSUME NEW o, NEW s, Begin(r, o, s)
      PROVE  P(r)'
  <2>1. pc[r] = "new" /\ pc'[r] = (IF s = <<>> THEN "commit" ELSE "load") /\ todo'[r] = s /\ pending'[r] = pending[r]
    BY <1>0, <1>1 DEF Begin, TypeInv
  <2> QED BY <1>p, <2>1 DEF Saving, Locked
<1>2. ASSUME NEW w \in {"refused", "failed"}, Abort(r, w)
      PROVE  P(r)'
  <2>1. pc'[r] = w /\ todo'[r] = <<>> /\ pending'[r] = <<>>
    BY <1>0, <1>2 DEF Abort, TypeInv
  <2> QED BY <1>p, <2>1, Holdings DEF Saving, Locked
<1>3. CASE Load(r)
  <2>1. pc[r] = "load" /\ pc'[r] = "write" /\ todo'[r] = todo[r]
    BY <1>0, <1>3 DEF Load
  <2> QED BY <1>p, <2>1 DEF Saving, Locked
<1>4. ASSUME NEW new, Writes(r, new), pc[r] = "write"
      PROVE  P(r)'
  <2>1. pc'[r] = (IF Len(todo[r]) = 1 THEN "commit" ELSE "load") /\ todo'[r] = Tail(todo[r])
    BY <1>0, <1>4 DEF Writes, TypeInv
  <2>2. todo[r] \in Seq(Sets) /\ todo[r] # <<>>
    BY <1>4, FirstSetting
  <2>3. Len(todo[r]) = 1 <=> Tail(todo[r]) = <<>>
    BY <2>2, Rest
  <2> QED BY <2>1, <2>3 DEF Saving
<1>5. CASE Commit(r)
  <2>1. pc[r] = "commit" /\ pc'[r] \in {"read time", "done"} /\ todo'[r] = todo[r] /\ pending'[r] = <<>>
    BY <1>0, <1>5 DEF Commit, TypeInv
  <2> QED BY <1>p, <2>1, Holdings DEF Saving, Locked
<1>6. CASE ReadTime(r) \/ ReadZone(r) \/ ReadFails(r) \/ Apply(r)
  <2>1. /\ UNCHANGED save /\ pc[r] \in {"read time", "read zone", "apply"}
        /\ pc'[r] \in {"read zone", "apply", "done"}
    BY <1>0, <1>6 DEF ReadTime, ReadZone, Read, ReadFails, Apply
  <2>2. todo'[r] = todo[r] /\ pending'[r] = pending[r]
    BY <2>1 DEF save
  <2> QED BY <1>p, <2>1, <2>2 DEF Saving, Locked
<1> QED BY <1>1, <1>2, <1>3, <1>4, <1>5, <1>6 DEF Moves

LEMMA PlanStep ==
  ASSUME TypeInv, PlaceInv, PlanInv, NEW r \in Requests, Moves(r)
  PROVE  PlanInv'
<1> DEFINE P(q) == /\ Ordered(todo[q])
                   /\ \A k \in Locked(q), i \in DOMAIN todo[q] : Rank[k] < Rank[todo[q][i].key]
                   /\ op[q] # "clarity" => OffSchedule(todo[q]) /\ Locked(q) \cap Schedule = {}
<1>p. \A q \in Requests : P(q)
  BY DEF PlanInv
<1>q. ASSUME NEW q \in Requests \ {r}
      PROVE  P(q)'
  <2>1. Same(q) /\ P(q)
    BY <1>p, OthersStay
  <2> QED BY <2>1 DEF Same, Ordered, OffSchedule, Locked
<1> SUFFICES P(r)'
  <2> SUFFICES ASSUME P(r)'
               PROVE  \A q \in Requests : P(q)'
    BY DEF PlanInv
  <2> QED BY <1>q
<1>1. ASSUME NEW o, NEW s, Begin(r, o, s), Plan(o, s)
      PROVE  P(r)'
  <2>1. pc[r] = "new" /\ op'[r] = o /\ todo'[r] = s /\ pending'[r] = pending[r]
    BY <1>1 DEF Begin, TypeInv
  <2>2. Locked(r) = {}
    BY <2>1 DEF PlaceInv, Saving
  <2> QED BY <1>1, <2>1, <2>2 DEF Plan, Ordered, OffSchedule, Locked
<1>2. ASSUME NEW w, Abort(r, w)
      PROVE  P(r)'
  <2>1. todo'[r] = <<>> /\ pending'[r] = <<>>
    BY <1>2 DEF Abort, TypeInv
  <2> QED BY <2>1, Holdings DEF Ordered, OffSchedule, Locked
<1>3. CASE Load(r)
  <2>1. op'[r] = op[r] /\ todo'[r] = todo[r] /\ pending'[r] = pending[r]
    BY <1>3 DEF Load
  <2> QED BY <1>p, <2>1 DEF Ordered, OffSchedule, Locked
<1>4. ASSUME NEW new \in Partial, Adds(r, new), Writes(r, new), pc[r] = "write"
      PROVE  P(r)'
  <2> DEFINE s == todo[r]
  <2>1. op'[r] = op[r] /\ todo'[r] = Tail(s) /\ pending'[r] = new
    BY <1>4 DEF Writes, TypeInv
  <2>2. s \in Seq(Sets) /\ s # <<>>
    BY <1>4, FirstSetting
  <2>3. 1 \in DOMAIN s /\ \A i \in DOMAIN Tail(s) : i \in 1..Len(Tail(s)) /\ i + 1 \in DOMAIN s /\ Tail(s)[i] = s[i + 1]
    BY <2>2, Rest, LenProperties
  <2>4. DOMAIN new \subseteq Locked(r) \cup {s[1].key}
    BY <1>4 DEF Adds
  <2>5. P(r)
    BY <1>p
  <2> HIDE DEF s
  <2>6. Ordered(Tail(s))
    BY <2>3, <2>5 DEF Ordered, s
  <2>7. ASSUME NEW k \in DOMAIN new, NEW i \in DOMAIN Tail(s)
        PROVE  Rank[k] < Rank[Tail(s)[i].key]
    <3>1. i + 1 \in DOMAIN s /\ Tail(s)[i] = s[i + 1] /\ 1 \in DOMAIN s /\ 1 < i + 1
      BY <2>3
    <3>2. CASE k \in Locked(r)
      BY <2>5, <3>1, <3>2 DEF s
    <3>3. CASE k = s[1].key
      BY <2>5, <3>1, <3>3 DEF s, Ordered
    <3> QED BY <2>4, <3>2, <3>3
  <2>8. op[r] # "clarity" => OffSchedule(Tail(s)) /\ DOMAIN new \cap Schedule = {}
    BY <2>3, <2>4, <2>5 DEF OffSchedule, s
  <2> QED BY <2>1, <2>6, <2>7, <2>8 DEF Locked
<1>5. CASE Commit(r)
  <2>1. pc[r] = "commit" /\ todo'[r] = todo[r] /\ pending'[r] = <<>>
    BY <1>5 DEF Commit, TypeInv
  <2>2. todo[r] = <<>>
    BY <2>1 DEF PlaceInv
  <2> QED BY <2>1, <2>2, Holdings DEF Ordered, OffSchedule, Locked
<1>6. CASE ReadTime(r) \/ ReadZone(r) \/ ReadFails(r) \/ Apply(r)
  <2>1. op'[r] = op[r] /\ todo'[r] = todo[r] /\ pending'[r] = pending[r]
    BY <1>6 DEF ReadTime, ReadZone, Read, ReadFails, Apply, save
  <2> QED BY <1>p, <2>1 DEF Ordered, OffSchedule, Locked
<1> QED BY <1>1, <1>2, <1>3, <1>4, <1>5, <1>6 DEF Moves

LEMMA WriterStep ==
  ASSUME TypeInv, PlaceInv, OneWriter, NEW r \in Requests, Moves(r)
  PROVE  OneWriter'
<1>1. \/ DOMAIN pending'[r] \subseteq Locked(r)
      \/ \E k : DOMAIN pending'[r] = Locked(r) \cup {k} /\ \A q \in Requests \ {r} : k \notin Locked(q)
  <2>1. ASSUME NEW o, NEW s, Begin(r, o, s)
        PROVE  DOMAIN pending'[r] \subseteq Locked(r)
    BY <2>1 DEF Begin, Locked
  <2>2. CASE Commit(r) \/ \E w : Abort(r, w)
    <3>1. pending'[r] = <<>>
      BY <2>2 DEF Commit, Abort, TypeInv
    <3> QED BY <3>1, Holdings
  <2>3. CASE Load(r) \/ ReadTime(r) \/ ReadZone(r) \/ ReadFails(r) \/ Apply(r)
    BY <2>3 DEF Load, ReadTime, ReadZone, Read, ReadFails, Apply, save, Locked
  <2>4. ASSUME NEW new, Adds(r, new), Writes(r, new)
        PROVE  \/ DOMAIN pending'[r] \subseteq Locked(r)
               \/ \E k : DOMAIN pending'[r] = Locked(r) \cup {k} /\ \A q \in Requests \ {r} : k \notin Locked(q)
    <3>1. pending'[r] = new
      BY <2>4 DEF Writes, TypeInv
    <3> QED BY <2>4, <3>1 DEF Adds
  <2> QED BY <2>1, <2>2, <2>3, <2>4 DEF Moves
<1>2. \A q \in Requests \ {r} : DOMAIN pending'[q] = Locked(q)
  BY OthersStay DEF Same, Locked
<1> QED BY <1>1, <1>2 DEF OneWriter, Locked

-----------------------------------------------------------------------------
(* What was read and who overtook whom.                                    *)

\* Every step but Commit leaves the rows alone.
LEMMA RowsStay ==
  ASSUME NEW r \in Requests, Moves(r), ~Commit(r)
  PROVE  row' = row /\ disturbed' = disturbed
  BY DEF Moves, Begin, Abort, Load, Writes, ReadTime, ReadZone, Read, ReadFails, Apply

LEMMA LoadStep ==
  ASSUME TypeInv, LoadInv, NEW r \in Requests, Moves(r)
  PROVE  LoadInv'
<1> DEFINE P(q) == /\ pc[q] = "write" /\ q \notin disturbed => loaded[q] = row[todo[q][1].key]
                   /\ pc[q] = "failed" => q \in disturbed
<1>p. \A q \in Requests : P(q)
  BY DEF LoadInv, FailuresAreRaces
<1>0. \A w : Goto(r, w) => pc'[r] = w
  BY DEF Goto, TypeInv, TypeOK
<1>1. CASE Commit(r)
  <2>1. pc'[r] \notin {"write", "failed"} /\ disturbed' = (disturbed \ {r}) \cup {q \in Requests \ {r} : Saving(q)}
    BY <1>0, <1>1 DEF Commit
  <2>2. ASSUME NEW q \in Requests \ {r}
        PROVE  P(q)'
    <3>1. Same(q) /\ P(q)
      BY <1>p, OthersStay
    <3>2. Saving(q) => q \in disturbed'
      BY <2>1
    <3> QED BY <2>1, <3>1, <3>2 DEF Same, Saving
  <2> QED BY <2>1, <2>2 DEF LoadInv, FailuresAreRaces
<1>2. CASE ~Commit(r)
  <2>1. row' = row /\ disturbed' = disturbed
    BY <1>2, RowsStay
  <2>2. ASSUME NEW q \in Requests \ {r}
        PROVE  P(q)'
    BY <1>p, <2>1, OthersStay DEF Same
  <2>3. P(r)'
    <3>1. CASE Load(r)
      BY <1>0, <2>1, <3>1 DEF Load, TypeInv
    <3>2. CASE pc[r] = "write" /\ Abort(r, "failed") /\ loaded[r] # row[todo[r][1].key]
      BY <1>0, <1>p, <2>1, <3>2 DEF Abort
    <3>3. CASE /\ ~Load(r)
              /\ ~(pc[r] = "write" /\ Abort(r, "failed") /\ loaded[r] # row[todo[r][1].key])
      <4>1. \E w \in {"load", "commit", "refused", "read zone", "apply", "done"} : Goto(r, w)
        BY <1>2, <3>3 DEF Moves, Begin, Abort, Writes, ReadTime, ReadZone, Read, ReadFails, Apply
      <4> QED BY <1>0, <4>1
    <3> QED BY <3>1, <3>2, <3>3
  <2> QED BY <2>2, <2>3 DEF LoadInv, FailuresAreRaces
<1> QED BY <1>1, <1>2

\* A commit moves the schedule only if its request reschedules.
LEMMA ScheduleStays ==
  ASSUME TypeInv, PlanInv, NEW r \in Requests, Commit(r), op[r] # "clarity"
  PROVE  Configured' = Configured
<1>1. \A k \in Schedule : k \notin Locked(r) /\ k \in Keys
  BY DEF PlanInv, Keys
<1>2. \A k \in Schedule : row'[k] = row[k]
  BY <1>1 DEF Commit
<1>3. \A k \in Schedule : Effective(k)' = Effective(k)
  BY <1>2 DEF Effective
<1> QED BY <1>3 DEF Configured

LEMMA ReadStep ==
  ASSUME TypeInv, PlanInv, ReadInv, NEW r \in Requests, Moves(r)
  PROVE  ReadInv'
<1> DEFINE P(q) == q \notin behind => /\ pc[q] \in {"read zone", "apply"} => config[q]["time"] = Effective("time")
                                      /\ pc[q] = "apply" => config[q]["zone"] = Effective("zone")
<1>p. \A q \in Requests : P(q)
  BY DEF ReadInv
<1>0. \A w : Goto(r, w) => pc'[r] = w
  BY DEF Goto, TypeInv, TypeOK
<1>1. ASSUME NEW q \in Requests \ {r}
      PROVE  P(q)'
  <2>1. Same(q) /\ P(q)
    BY <1>p, OthersStay
  <2>2. CASE Commit(r)
    <3>1. pc[q] \in {"read zone", "apply"} => q \in behind'
      BY <2>2 DEF Commit
    <3> QED BY <2>1, <3>1 DEF Same
  <2>3. CASE ~Commit(r)
    <3>1. row' = row
      BY <2>3, RowsStay
    <3>2. q \notin behind' => q \notin behind
      BY <2>3 DEF Moves, Begin, Abort, Load, Writes, ReadTime, ReadZone, Read, ReadFails, Apply
    <3> QED BY <2>1, <3>1, <3>2 DEF Same, Effective
  <2> QED BY <2>2, <2>3
<1>2. P(r)'
  <2>1. CASE ReadTime(r)
    <3>1. pc'[r] = "read zone" /\ row' = row /\ config'[r]["time"] = Effective("time")
      BY <1>0, <2>1 DEF ReadTime, Read, TypeInv, TypeOK, Schedule
    <3> QED BY <3>1 DEF Effective
  <2>2. CASE ReadZone(r)
    <3>1. /\ pc[r] = "read zone" /\ row' = row /\ behind' = behind
          /\ config'[r]["zone"] = Effective("zone") /\ config'[r]["time"] = config[r]["time"]
      BY <2>2 DEF ReadZone, Read, TypeInv, TypeOK, Schedule
    <3> QED BY <1>p, <3>1 DEF Effective
  <2>3. CASE ReadFails(r)
    BY <2>3 DEF ReadFails
  <2>4. CASE ~ReadTime(r) /\ ~ReadZone(r) /\ ~ReadFails(r)
    <3>1. \E w \in {"load", "write", "commit", "refused", "failed", "read time", "done"} : Goto(r, w)
      BY <2>4 DEF Moves, Begin, Abort, Load, Writes, Commit, Apply
    <3> QED BY <1>0, <3>1
  <2> QED BY <2>1, <2>2, <2>3, <2>4
<1>3. JobFollowsSettings'
  <2>0. \A q \in Requests \ {r} : Rescheduling(q)' <=> Rescheduling(q)
    BY OthersStay DEF Same, Rescheduling
  <2>1. CASE Apply(r)
    <3>1. pc[r] = "apply" /\ job' = config[r] /\ row' = row /\ (stale' <=> r \in behind)
      BY <2>1 DEF Apply
    <3>2. r \notin behind => \A k \in Schedule : config[r][k] = Effective(k)
      BY <1>p, <3>1 DEF Schedule
    <3>3. config[r] = [k \in Schedule |-> config[r][k]]
      BY DEF TypeInv, TypeOK
    <3>4. r \notin behind => config[r] = Configured
      BY <3>2, <3>3 DEF Configured
    <3>5. Configured' = Configured
      BY <3>1 DEF Configured, Effective
    <3> QED BY <3>1, <3>4, <3>5 DEF JobFollowsSettings
  <2>2. CASE ReadTime(r) \/ ReadZone(r) \/ ReadFails(r) \/ (Commit(r) /\ op[r] = "clarity")
    <3>1. Rescheduling(r)'
      BY <1>0, <2>2 DEF ReadTime, ReadZone, Read, ReadFails, Commit, Rescheduling
    <3> QED BY <3>1 DEF JobFollowsSettings
  <2>3. CASE Commit(r) /\ op[r] # "clarity"
    <3>1. ~Rescheduling(r) /\ UNCHANGED <<job, stale>> /\ Configured' = Configured
      BY <2>3, ScheduleStays DEF Commit, Rescheduling
    <3> QED BY <2>0, <3>1 DEF JobFollowsSettings, ReadInv
  <2>4. CASE ~Apply(r) /\ ~ReadTime(r) /\ ~ReadZone(r) /\ ~ReadFails(r) /\ ~Commit(r)
    <3>1. pc[r] \in {"new", "load", "write"} /\ UNCHANGED <<job, stale, row>>
      BY <2>4 DEF Moves, Begin, Abort, Load, Writes
    <3>2. ~Rescheduling(r) /\ Configured' = Configured
      BY <3>1 DEF Rescheduling, Configured, Effective
    <3> QED BY <2>0, <3>1, <3>2 DEF JobFollowsSettings, ReadInv
  <2> QED BY <2>1, <2>2, <2>3, <2>4
<1> QED
  <2>1. \A q \in Requests : P(q)'
    BY <1>1, <1>2
  <2> QED BY <1>3, <2>1 DEF ReadInv

-----------------------------------------------------------------------------
(* The invariant.                                                          *)

LEMMA SavesInit == Init => SavesInv
<1> SUFFICES ASSUME Init PROVE SavesInv
  OBVIOUS
<1>1. TypeOK
  <2>1. row \in [Keys -> Values \cup {Nothing}]
    <3>1. PICK v \in {Nothing, CHOOSE v \in Values : TRUE} : row = [k \in Keys |-> v]
      BY DEF Init
    <3>2. v \in Values \cup {Nothing}
      BY SettingsAssumption
    <3> QED BY <3>1, <3>2
  <2>2. \A k \in Schedule : Effective(k) \in Values \cup {Default}
    BY <2>1 DEF Effective, Keys
  <2>3. Configured \in [Schedule -> Values \cup {Default}] /\ Fallback \in [Schedule -> Values \cup {Default}]
    BY <2>2 DEF Configured, Fallback
  <2>4. restarts \in 0..MaxRestarts /\ job \in [Schedule -> Values \cup {Default}]
    BY <2>3, SettingsAssumption DEF Init
  <2>5. config \in [Requests -> [Schedule -> Values \cup {Default}]]
    BY <2>3 DEF Init
  <2> QED BY <2>1, <2>4, <2>5 DEF Init, TypeOK
<1>2. TypeInv
  BY <1>1, Holdings DEF Init, TypeInv, Stored
<1>3. PlaceInv /\ PlanInv /\ OneWriter
  <2>1. \A r \in Requests : pc[r] = "new" /\ todo[r] = <<>> /\ Locked(r) = {}
    BY Holdings DEF Init, Locked
  <2> QED BY <2>1 DEF PlaceInv, PlanInv, OneWriter, Ordered, OffSchedule
<1>4. LoadInv /\ ReadInv
  BY DEF Init, LoadInv, FailuresAreRaces, ReadInv, JobFollowsSettings
<1> QED BY <1>2, <1>3, <1>4 DEF SavesInv

LEMMA SavesRestart ==
  ASSUME SavesInv, Restart
  PROVE  SavesInv'
<1>1. TypeInv'
  BY TypeRestart DEF SavesInv
<1>2. \A r \in Requests : todo'[r] = <<>> /\ DOMAIN pending'[r] = {}
  BY Holdings DEF Restart
<1>3. \A r \in Requests : pc'[r] = IF Saving(r) \/ Rescheduling(r) THEN "lost" ELSE pc[r]
  BY DEF Restart
<1>4. PlaceInv'
  BY <1>2, <1>3 DEF PlaceInv, Saving, Locked
<1>5. PlanInv' /\ OneWriter'
  BY <1>2 DEF PlanInv, OneWriter, Ordered, OffSchedule, Locked
<1>6. LoadInv'
  <2>1. disturbed' = disturbed /\ \A r \in Requests : pc[r] = "failed" => r \in disturbed
    BY DEF Restart, SavesInv, LoadInv, FailuresAreRaces
  <2> QED BY <1>3, <2>1 DEF LoadInv, FailuresAreRaces, Saving
<1>7. ReadInv'
  <2>1. \A r \in Requests : pc'[r] \notin {"read zone", "apply"}
    BY <1>3 DEF Rescheduling
  <2>2. Configured' = Configured
    BY DEF Restart, Configured, Effective
  <2>3. ~stale' => job' = Configured
    BY DEF Restart
  <2> QED BY <2>1, <2>2, <2>3 DEF ReadInv, JobFollowsSettings
<1> QED BY <1>1, <1>4, <1>5, <1>6, <1>7 DEF SavesInv

LEMMA SavesSame ==
  ASSUME SavesInv, UNCHANGED vars
  PROVE  SavesInv'
<1>1. TypeInv'
  BY DEF SavesInv, TypeInv, TypeOK, vars, save
<1>2. PlaceInv' /\ PlanInv' /\ OneWriter'
  BY DEF SavesInv, PlaceInv, PlanInv, OneWriter, Saving, Locked, Ordered, OffSchedule, vars, save
<1>3. LoadInv' /\ ReadInv'
  BY DEF SavesInv, LoadInv, FailuresAreRaces, ReadInv, JobFollowsSettings, Rescheduling, Configured, Effective, vars, save
<1> QED BY <1>1, <1>2, <1>3 DEF SavesInv

LEMMA SavesStep ==
  ASSUME SavesInv, [Next]_vars
  PROVE  SavesInv'
<1>1. ASSUME NEW r \in Requests, Step(r)
      PROVE  SavesInv'
  <2>1. Moves(r)
    BY <1>1, StepIs DEF SavesInv
  <2>2. TypeInv' /\ PlaceInv' /\ PlanInv' /\ OneWriter'
    BY <2>1, TypeStep, PlaceStep, PlanStep, WriterStep DEF SavesInv
  <2>3. LoadInv' /\ ReadInv'
    BY <2>1, LoadStep, ReadStep DEF SavesInv
  <2> QED BY <2>2, <2>3 DEF SavesInv
<1>2. CASE Restart
  BY <1>2, SavesRestart
<1>3. CASE UNCHANGED vars
  BY <1>3, SavesSame
<1> QED BY <1>1, <1>2, <1>3 DEF Next, Over

\* The inductive invariant of saves and schedules holds.
THEOREM SavesHold == Spec => []SavesInv
<1> QED BY SavesInit, SavesStep, PTL DEF Spec

-----------------------------------------------------------------------------

\* Locks taken in the order of Rank leave no circle of waiting saves.
LEMMA NoCircleFollows ==
  ASSUME SavesInv
  PROVE  NoCircle
<1> SUFFICES ASSUME NEW r \in Requests, NEW q \in Requests, r # q
             PROVE  Locked(r) \cap Locked(q) = {} /\ ~(WaitsFor(r, q) /\ WaitsFor(q, r))
  BY DEF NoCircle
<1>1. Locked(r) \cap Locked(q) = {}
  BY DEF SavesInv, OneWriter
<1>2. ~(WaitsFor(r, q) /\ WaitsFor(q, r))
  <2> SUFFICES ASSUME WaitsFor(r, q), WaitsFor(q, r) PROVE FALSE
    OBVIOUS
  <2> DEFINE k == todo[r][1].key  l == todo[q][1].key
  <2>1. k \in Keys /\ l \in Keys /\ 1 \in DOMAIN todo[r] /\ 1 \in DOMAIN todo[q]
    BY FirstSetting DEF WaitsFor, SavesInv
  <2>2. k \in Locked(q) /\ l \in Locked(r)
    BY DEF WaitsFor
  <2>3. Rank[k] < Rank[l] /\ Rank[l] < Rank[k]
    BY <2>1, <2>2 DEF SavesInv, PlanInv
  <2>4. Rank[k] \in Nat /\ Rank[l] \in Nat
    BY <2>1 DEF Rank
  <2> HIDE DEF k, l
  <2> QED BY <2>3, <2>4
<1> QED BY <1>1, <1>2

\* set_setting: a row has one writer, saves never wait for each other in a circle,
\* and one fails with a server error only when another one committed meanwhile.
THEOREM SavesAreSound == Spec => []SettingsInv
<1>1. SavesInv => SettingsInv
  BY NoCircleFollows DEF SavesInv, TypeInv, LoadInv, SettingsInv
<1> QED BY <1>1, SavesHold, PTL

\* reschedule_clarity_job: when no rescheduling is under way the daily fetch runs
\* at the time and zone saved, unless the last one was overtaken or could not read.
THEOREM JobIsTrue == Spec => []JobFollowsSettings
<1>1. SavesInv => JobFollowsSettings
  BY DEF SavesInv, ReadInv
<1> QED BY <1>1, SavesHold, PTL

=============================================================================
