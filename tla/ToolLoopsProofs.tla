--------------------------- MODULE ToolLoopsProofs ---------------------------
(***************************************************************************)
(* The tool-calling loops are correct for any schema, any requests of the    *)
(* model and any limits: each tool call is answered once, in order and by    *)
(* the next message, queries are counted, rounds are limited, both providers *)
(* accept the conversation, and what the model learns reaches the SQL        *)
(* generation.                                                               *)
(***************************************************************************)
EXTENDS ToolLoops, SequenceTheorems, FiniteSetTheorems, WellFoundedInduction, TLAPS

CallIds  == Nat \X Nat
Calls    == [id : CallIds, tool : {"details", "query", "unknown"}, names : Requests \cup {{}}]
Findings == [id : CallIds, end : {"rows", "failed", "rejected", "unknown_connection"}]
Shows    == {{}} \cup {{Qualified(Lookup(ts)[n]) : n \in names \cap DOMAIN Lookup(ts)} : ts \in Snapshots, names \in Requests \cup {{}}}
Results  == [id : CallIds, error : BOOLEAN, shown : Shows, ran : {<<>>} \cup {<<f>> : f \in Findings}]
Messages == [role : {"user", "assistant"}, text : BOOLEAN, calls : Seq(CallIds), results : Seq(Results)]

ConversationOK ==
  /\ tables \in Snapshots /\ messages \in Seq(Messages) /\ calls \in Seq(Calls)
  /\ results \in Seq(Results) /\ findings \in Seq(Findings)

\* Rounds are left where the model is called, and only the agent is forced to answer.
RoundsLeft ==
  /\ pc = "call" /\ loop # "agent" => round = 0 \/ round < MaxRounds
  /\ pc = "force" => loop = "agent"

LoopInv == TypeOK /\ ConversationOK /\ Paired /\ QueriesCounted /\ RoundsCounted /\ RoundsLeft

-----------------------------------------------------------------------------
(* Pairing, when the conversation grows.                                   *)

\* Assistant message i is answered by the message after it.
Answered(ms, i) == i < Len(ms) /\ ms[i].calls = Ids(ms[i + 1].results)

LEMMA Grown ==
  ASSUME NEW ms \in Seq(Messages), NEW m \in Messages
  PROVE  /\ Append(ms, m) \in Seq(Messages) /\ Len(Append(ms, m)) = Len(ms) + 1
         /\ Append(ms, m)[Len(ms) + 1] = m
         /\ \A i \in DOMAIN ms : Append(ms, m)[i] = ms[i]
         /\ \A i \in DOMAIN ms : Answered(ms, i) => Answered(Append(ms, m), i)
<1>1. Append(ms, m) \in Seq(Messages)
  BY AppendProperties
<1>2. Len(Append(ms, m)) = Len(ms) + 1
  BY AppendProperties
<1>3. Append(ms, m)[Len(ms) + 1] = m
  BY AppendProperties
<1>4. \A i \in 1..Len(ms) : Append(ms, m)[i] = ms[i]
  BY AppendProperties
<1>5. DOMAIN ms = 1..Len(ms) /\ Len(ms) \in Nat
  OBVIOUS
<1>6. ASSUME NEW i \in DOMAIN ms, Answered(ms, i) PROVE Answered(Append(ms, m), i)
  <2>1. i < Len(ms) /\ ms[i].calls = Ids(ms[i + 1].results) /\ i + 1 \in 1..Len(ms)
    BY <1>5, <1>6 DEF Answered
  <2>2. Append(ms, m)[i] = ms[i] /\ Append(ms, m)[i + 1] = ms[i + 1] /\ i < Len(Append(ms, m))
    BY <1>2, <1>4, <1>5, <2>1
  <2> QED BY <2>1, <2>2 DEF Answered
<1> QED BY <1>1, <1>2, <1>3, <1>4, <1>5, <1>6

\* Outside the execution of a turn every assistant message is answered.
AllAnswered(ms) == \A i \in DOMAIN ms : ms[i].role = "assistant" => Answered(ms, i)

LEMMA PairedIdle == pc # "execute" => (Paired <=> AllAnswered(messages))
BY DEF Paired, AllAnswered, Answered

LEMMA UserGrows ==
  ASSUME NEW ms \in Seq(Messages), AllAnswered(ms), NEW m \in Messages, m.role = "user"
  PROVE  Append(ms, m) \in Seq(Messages) /\ AllAnswered(Append(ms, m))
<1>1. Append(ms, m) \in Seq(Messages) /\ Len(Append(ms, m)) = Len(ms) + 1 /\ Append(ms, m)[Len(ms) + 1] = m
  BY Grown
<1>2. ASSUME NEW i \in DOMAIN Append(ms, m), Append(ms, m)[i].role = "assistant" PROVE Answered(Append(ms, m), i)
  <2>1. i \in 1..(Len(ms) + 1) /\ Len(ms) \in Nat /\ DOMAIN ms = 1..Len(ms)
    BY <1>1
  <2>2. i # Len(ms) + 1
    BY <1>1, <1>2
  <2>3. i \in DOMAIN ms
    BY <2>1, <2>2
  <2>4. ms[i].role = "assistant"
    BY <1>2, <2>3, Grown
  <2> QED BY <2>3, <2>4, Grown DEF AllAnswered
<1> QED BY <1>1, <1>2 DEF AllAnswered

\* The results of a finished turn answer its calls.
LEMMA TurnAnswered ==
  ASSUME ConversationOK, Paired, TurnDone
  PROVE  /\ User(FALSE, results) \in Messages
         /\ Append(messages, User(FALSE, results)) \in Seq(Messages)
         /\ AllAnswered(Append(messages, User(FALSE, results)))
<1> DEFINE m  == User(FALSE, results)
           ms == Append(messages, m)
<1>1. m \in Messages /\ m.results = results /\ m.role = "user"
  <2>1. <<>> \in Seq(CallIds)
    OBVIOUS
  <2> QED BY <2>1 DEF User, Messages, ConversationOK
<1> HIDE DEF m
<1>2. ms \in Seq(Messages) /\ Len(ms) = Len(messages) + 1 /\ ms[Len(messages) + 1] = m
      /\ \A i \in DOMAIN messages : ms[i] = messages[i]
  BY <1>1, Grown DEF ConversationOK
<1>3. Ids(calls) = Ids(results)
  <2>1. DOMAIN calls = DOMAIN results /\ \A k \in DOMAIN results : results[k].id = calls[k].id
    BY DEF ConversationOK, Paired, TurnDone
  <2> QED BY <2>1 DEF Ids
<1> HIDE DEF ms
<1>4. Len(messages) \in Nat /\ DOMAIN messages = 1..Len(messages)
  BY DEF ConversationOK
<1>5. ASSUME NEW i \in DOMAIN ms, ms[i].role = "assistant" PROVE Answered(ms, i)
  <2>1. i \in DOMAIN messages
    <3>1. i \in 1..(Len(messages) + 1)
      BY <1>2
    <3>2. i # Len(messages) + 1
      BY <1>1, <1>2, <1>5
    <3> QED BY <1>4, <3>1, <3>2
  <2>2. messages[i].role = "assistant"
    BY <1>2, <1>5, <2>1
  <2>3. CASE i = Len(messages)
    <3>1. messages[i].calls = Ids(calls)
      BY <1>4, <2>1, <2>2, <2>3 DEF Paired
    <3>2. ms[i].calls = Ids(ms[i + 1].results)
      BY <1>1, <1>2, <1>3, <2>1, <2>3, <3>1
    <3> QED BY <1>2, <1>4, <2>3, <3>2 DEF Answered
  <2>4. CASE i # Len(messages)
    <3>1. Answered(messages, i)
      BY <2>1, <2>2, <2>4 DEF Paired, Answered
    <3> QED BY <1>1, <2>1, <3>1, Grown DEF ConversationOK, ms
  <2> QED BY <2>3, <2>4
<1> QED BY <1>1, <1>2, <1>5 DEF AllAnswered, m, ms

LEMMA TwoMore ==
  ASSUME NEW ms \in Seq(Messages), NEW a \in Messages, NEW b \in Messages
  PROVE  ms \o <<a, b>> = Append(Append(ms, a), b)
<1> DEFINE left == ms \o <<a, b>>
           right == Append(Append(ms, a), b)
<1>1. <<a, b>> \in Seq(Messages) /\ Len(<<a, b>>) = 2 /\ Len(ms) \in Nat
  OBVIOUS
<1>2. left \in Seq(Messages) /\ Len(left) = Len(ms) + 2
  BY <1>1, ConcatProperties
<1>3. \A i \in 1..(Len(ms) + 2) : left[i] = IF i <= Len(ms) THEN ms[i] ELSE <<a, b>>[i - Len(ms)]
  BY <1>1, ConcatProperties
<1>4. /\ Append(ms, a) \in Seq(Messages) /\ Len(Append(ms, a)) = Len(ms) + 1
      /\ Append(ms, a)[Len(ms) + 1] = a /\ \A i \in DOMAIN ms : Append(ms, a)[i] = ms[i]
  BY Grown
<1>5. /\ right \in Seq(Messages) /\ Len(right) = Len(ms) + 2
      /\ right[Len(ms) + 2] = b /\ \A i \in DOMAIN Append(ms, a) : right[i] = Append(ms, a)[i]
  BY <1>4, Grown
<1> HIDE DEF left, right
<1>6. ASSUME NEW i \in 1..Len(left) PROVE left[i] = right[i]
  <2>1. CASE i \in 1..Len(ms)
    <3>1. i \in DOMAIN ms /\ i \in DOMAIN Append(ms, a)
      BY <1>1, <1>4, <2>1
    <3> QED BY <1>1, <1>2, <1>3, <1>4, <1>5, <2>1, <3>1
  <2>2. CASE i = Len(ms) + 1
    <3>1. left[i] = a
      BY <1>1, <1>2, <1>3, <2>2
    <3>2. i \in DOMAIN Append(ms, a)
      BY <1>1, <1>4, <2>2
    <3> QED BY <1>4, <1>5, <2>2, <3>1, <3>2
  <2>3. CASE i = Len(ms) + 2
    BY <1>1, <1>2, <1>3, <1>5, <2>3
  <2> QED BY <1>1, <1>2, <2>1, <2>2, <2>3
<1>7. left = right
  BY <1>2, <1>5, <1>6, SeqEqual
<1> QED BY <1>7 DEF left, right

-----------------------------------------------------------------------------

LEMMA InitHolds == Init => LoopInv
<1> SUFFICES ASSUME Init PROVE LoopInv
  OBVIOUS
<1>1. /\ loop \in Loops /\ round = 0 /\ queries = 0 /\ messages = <<User(TRUE, <<>>)>>
      /\ calls = <<>> /\ results = <<>> /\ findings = <<>> /\ warnings = {} /\ pc \in {"call", "conclude"}
      /\ tables \in Snapshots
  BY DEF Init
<1>2. TypeOK
  BY <1>1 DEF TypeOK
<1> DEFINE m == User(TRUE, <<>>)
<1>3. m \in Messages /\ m.role = "user" /\ messages = <<m>>
  <2>1. <<>> \in Seq(CallIds) /\ <<>> \in Seq(Results)
    OBVIOUS
  <2> QED BY <1>1, <2>1 DEF User, Messages
<1> HIDE DEF m
<1>4. /\ messages \in Seq(Messages) /\ Len(messages) = 1 /\ messages[1] = m
  BY <1>3
<1>5. ConversationOK
  <2>1. <<>> \in Seq(Calls) /\ <<>> \in Seq(Results) /\ <<>> \in Seq(Findings)
    OBVIOUS
  <2> QED BY <1>1, <1>4, <2>1 DEF ConversationOK
<1>6. Paired
  <2>1. \A i \in DOMAIN messages : i = 1
    BY <1>4
  <2>2. \A i \in DOMAIN messages : messages[i].role = "user"
    BY <1>3, <1>4, <2>1
  <2> QED BY <1>1, <2>2 DEF Paired
<1>7. QueriesCounted /\ RoundsCounted /\ RoundsLeft
  BY <1>1, LimitsAssumption DEF QueriesCounted, RoundsCounted, RoundsLeft
<1> QED BY <1>2, <1>5, <1>6, <1>7 DEF LoopInv

\* A step that neither makes nor uses up a turn keeps pairing and counts.
LEMMA Stops ==
  ASSUME LoopInv, pc # "execute", pc' \in {"done", "conclude"}, round' \in Nat,
         UNCHANGED <<loop, tables, messages, calls, results, findings, queries>>,
         warnings' \subseteq {"table_limit", "token_budget", "round_limit", "unavailable", "nothing_requested"},
         RoundsCounted'
  PROVE  LoopInv'
<1>1. TypeOK'
  BY DEF LoopInv, TypeOK
<1>2. ConversationOK'
  BY DEF LoopInv, ConversationOK
<1>4. QueriesCounted'
  BY DEF LoopInv, QueriesCounted
<1>5. RoundsLeft'
  BY DEF RoundsLeft
<1>3. Paired'
  <2>1. AllAnswered(messages)
    BY PairedIdle DEF LoopInv
  <2> QED BY <2>1 DEF AllAnswered, Answered, Paired, Ids
<1> QED BY <1>1, <1>2, <1>3, <1>4, <1>5 DEF LoopInv

LEMMA StopsKeep ==
  ASSUME LoopInv, ProviderFails \/ EnoughSeen \/ AgentAnswers \/ Conclude
  PROVE  LoopInv'
<1>1. round \in Nat /\ warnings \subseteq {"table_limit", "token_budget", "round_limit", "unavailable", "nothing_requested"}
  BY DEF LoopInv, TypeOK
<1>2. CASE ProviderFails \/ Conclude
  <2>1. /\ pc # "execute" /\ pc' = "done" /\ UNCHANGED <<loop, tables, messages, calls, results, findings, queries, round>>
        /\ warnings' = warnings \/ warnings' = {"unavailable"} \/ warnings' = {"nothing_requested"}
    BY <1>2 DEF ProviderFails, Conclude
  <2>2. RoundsCounted'
    BY <2>1 DEF LoopInv, RoundsCounted
  <2> QED BY <1>1, <2>1, <2>2, Stops
<1>3. CASE EnoughSeen
  <2>1. pc = "call" /\ pc' = "conclude" /\ loop # "agent" /\ round' = round + 1 /\ UNCHANGED <<loop, tables, messages, calls, results, findings, queries, warnings>>
    BY <1>3 DEF EnoughSeen
  <2>2. RoundsCounted'
    BY <1>1, <2>1, LimitsAssumption DEF LoopInv, RoundsCounted, RoundsLeft
  <2> QED BY <1>1, <2>1, <2>2, Stops
<1>4. CASE AgentAnswers
  <2>1. pc # "execute" /\ pc' = "done" /\ loop = "agent" /\ round' = round + 1 /\ UNCHANGED <<loop, tables, messages, calls, results, findings, queries, warnings>>
    BY <1>4 DEF AgentAnswers
  <2>2. RoundsCounted'
    BY <2>1 DEF RoundsCounted
  <2> QED BY <1>1, <2>1, <2>2, Stops
<1> QED BY <1>2, <1>3, <1>4

LEMMA ToolTurnKeeps ==
  ASSUME LoopInv, ToolTurn
  PROVE  LoopInv'
<1>1. /\ pc = "call" /\ pc' = "execute" /\ round' = round + 1 /\ results' = <<>> /\ messages' = Append(messages, Assistant(Ids(calls')))
      /\ UNCHANGED <<loop, tables, findings, queries, warnings>>
  BY DEF ToolTurn
<1>2. round \in Nat /\ round' \in Nat
  BY <1>1 DEF LoopInv, TypeOK
<1>3. PICK n \in 1..MaxCalls : \E ws \in [1..n -> Wishes] :
        calls' = [k \in 1..n |-> [id |-> <<round', k>>, tool |-> ws[k].tool, names |-> ws[k].names]]
  BY DEF ToolTurn
<1>4. PICK ws \in [1..n -> Wishes] :
        calls' = [k \in 1..n |-> [id |-> <<round', k>>, tool |-> ws[k].tool, names |-> ws[k].names]]
  BY <1>3
<1>5. n \in Nat
  BY LimitsAssumption
<1>6. ASSUME NEW w \in Wishes PROVE w.tool \in {"details", "query", "unknown"} /\ w.names \in Requests \cup {{}}
  <2>1. loop \in {"discover", "analysis", "agent"}
    BY DEF LoopInv, TypeOK, Loops
  <2>2. CASE loop = "discover"
    BY <2>2 DEF Wishes
  <2>3. CASE loop = "analysis"
    BY <2>3 DEF Wishes
  <2>4. CASE loop = "agent"
    BY <2>4 DEF Wishes
  <2> QED BY <2>1, <2>2, <2>3, <2>4
<1>7. \A k \in 1..n : [id |-> <<round', k>>, tool |-> ws[k].tool, names |-> ws[k].names] \in Calls
  <2> SUFFICES ASSUME NEW k \in 1..n PROVE [id |-> <<round', k>>, tool |-> ws[k].tool, names |-> ws[k].names] \in Calls
    OBVIOUS
  <2>1. ws[k] \in Wishes /\ k \in Nat
    OBVIOUS
  <2>2. ws[k].tool \in {"details", "query", "unknown"} /\ ws[k].names \in Requests \cup {{}}
    BY <1>6, <2>1
  <2>3. <<round', k>> \in CallIds
    BY <1>2, <2>1 DEF CallIds
  <2> QED BY <2>2, <2>3 DEF Calls
<1>8. calls' \in Seq(Calls)
  BY <1>4, <1>5, <1>7
<1>9. Ids(calls') \in Seq(CallIds)
  <2>1. DOMAIN calls' = 1..n /\ \A k \in 1..n : calls'[k].id \in CallIds
    BY <1>4, <1>7 DEF Calls
  <2>2. [k \in 1..n |-> calls'[k].id] \in Seq(CallIds)
    BY <1>5, <2>1
  <2> QED BY <2>1, <2>2 DEF Ids
<1> DEFINE m == Assistant(Ids(calls'))
<1>10. m \in Messages /\ m.role = "assistant" /\ m.calls = Ids(calls')
  BY <1>9 DEF Assistant, Messages
<1> HIDE DEF m
<1>11. tables \in Snapshots /\ messages \in Seq(Messages) /\ findings \in Seq(Findings) /\ AllAnswered(messages)
  BY <1>1, PairedIdle DEF LoopInv, ConversationOK
<1>12. /\ messages' \in Seq(Messages) /\ Len(messages') = Len(messages) + 1 /\ messages'[Len(messages) + 1] = m
       /\ \A i \in DOMAIN messages : messages'[i] = messages[i]
       /\ \A i \in DOMAIN messages : Answered(messages, i) => Answered(messages', i)
  BY <1>1, <1>10, <1>11, Grown DEF m
<1>13. TypeOK'
  BY <1>1, <1>2 DEF LoopInv, TypeOK
<1>14. ConversationOK'
  <2>1. <<>> \in Seq(Results)
    OBVIOUS
  <2> QED BY <1>1, <1>8, <1>11, <1>12, <2>1 DEF ConversationOK
<1>15. Paired'
  <2>1. ASSUME NEW i \in DOMAIN messages', messages'[i].role = "assistant"
        PROVE  (i = Len(messages') /\ messages'[i].calls = Ids(calls')) \/ Answered(messages', i)
    <3>1. CASE i = Len(messages) + 1
      BY <1>10, <1>12, <3>1
    <3>2. CASE i # Len(messages) + 1
      <4>1. i \in DOMAIN messages
        BY <1>11, <1>12, <3>2
      <4> QED BY <1>11, <1>12, <2>1, <4>1 DEF AllAnswered
    <3> QED BY <3>1, <3>2
  <2>2. Len(messages') > 0 /\ messages'[Len(messages')].role = "assistant"
    BY <1>10, <1>11, <1>12
  <2>3. Len(results') <= Len(calls') /\ \A k \in DOMAIN results' : results'[k].id = calls'[k].id
    <3>1. Len(results') = 0 /\ Len(calls') \in Nat /\ DOMAIN results' = {}
      BY <1>1, <1>8
    <3> QED BY <3>1
  <2>4. \A i \in DOMAIN messages' : messages'[i].role = "assistant" =>
          \/ pc' = "execute" /\ i = Len(messages') /\ messages'[i].calls = [k \in DOMAIN calls' |-> calls'[k].id]
          \/ i < Len(messages') /\ messages'[i].calls = [k \in DOMAIN messages'[i + 1].results |-> messages'[i + 1].results[k].id]
    BY <1>1, <2>1 DEF Answered, Ids
  <2> QED BY <2>2, <2>3, <2>4 DEF Paired, Ids
<1>16. QueriesCounted' /\ RoundsCounted' /\ RoundsLeft'
  BY <1>1, <1>2, LimitsAssumption DEF LoopInv, QueriesCounted, RoundsCounted, RoundsLeft
<1> QED BY <1>13, <1>14, <1>15, <1>16 DEF LoopInv

\* A result joins the call it answers.
LEMMA AnswerKeeps ==
  ASSUME LoopInv, Executing, NEW error \in BOOLEAN, NEW shown \in Shows, NEW ran \in {<<>>} \cup {<<f>> : f \in Findings},
         Answer(error, shown, ran), findings' \in Seq(Findings), queries' \in Nat
  PROVE  TypeOK' /\ ConversationOK' /\ Paired' /\ RoundsCounted' /\ RoundsLeft'
<1> DEFINE res == [id |-> Current.id, error |-> error, shown |-> shown, ran |-> ran]
<1>1. results' = Append(results, res) /\ UNCHANGED <<loop, tables, pc, round, messages, calls, warnings, outcome>>
  BY DEF Answer
<1>2. /\ pc = "execute" /\ results \in Seq(Results) /\ calls \in Seq(Calls) /\ messages \in Seq(Messages) /\ tables \in Snapshots
      /\ Len(results) \in Nat /\ Len(calls) \in Nat /\ Len(results) < Len(calls)
  <2>1. results \in Seq(Results) /\ calls \in Seq(Calls) /\ messages \in Seq(Messages) /\ tables \in Snapshots
    BY DEF LoopInv, ConversationOK
  <2> QED BY <2>1 DEF Executing
<1>3. Current \in Calls /\ Current = calls[Len(results) + 1]
  BY <1>2 DEF Current
<1>4. res \in Results /\ res.id = Current.id
  BY <1>3 DEF Results, Calls
<1> HIDE DEF res
<1>5. results' \in Seq(Results) /\ Len(results') = Len(results) + 1
  <2>1. Append(results, res) \in Seq(Results)
    BY <1>2, <1>4, AppendProperties
  <2>2. Len(Append(results, res)) = Len(results) + 1
    BY <1>2, <1>4, AppendProperties
  <2> QED BY <1>1, <2>1, <2>2
<1>6. results'[Len(results) + 1] = res
  <2>1. Append(results, res)[Len(results) + 1] = res
    BY <1>2, <1>4, AppendProperties
  <2> QED BY <1>1, <2>1
<1>7. \A k \in 1..Len(results) : results'[k] = results[k]
  <2>1. \A k \in 1..Len(results) : Append(results, res)[k] = results[k]
    BY <1>2, <1>4, AppendProperties
  <2> QED BY <1>1, <2>1
<1>8. TypeOK'
  BY <1>1 DEF LoopInv, TypeOK
<1>9. ConversationOK'
  BY <1>1, <1>2, <1>5 DEF ConversationOK
<1>10. Paired'
  <2>1. ASSUME NEW k \in DOMAIN results' PROVE results'[k].id = calls'[k].id
    <3>1. k \in 1..(Len(results) + 1)
      BY <1>5
    <3>2. CASE k = Len(results) + 1
      BY <1>1, <1>3, <1>4, <1>6, <3>2
    <3>3. CASE k # Len(results) + 1
      <4>1. k \in 1..Len(results) /\ k \in DOMAIN results
        BY <1>2, <3>1, <3>3
      <4>2. results[k].id = calls[k].id
        BY <1>2, <4>1 DEF LoopInv, Paired
      <4> QED BY <1>1, <1>7, <4>1, <4>2
    <3> QED BY <3>2, <3>3
  <2>2. Len(results') <= Len(calls')
    BY <1>1, <1>2, <1>5
  <2>3. Paired
    BY DEF LoopInv
  <2>4. \A i \in DOMAIN messages : messages[i].role = "assistant" =>
          \/ i = Len(messages) /\ messages[i].calls = [k \in DOMAIN calls |-> calls[k].id]
          \/ i < Len(messages) /\ messages[i].calls = [k \in DOMAIN messages[i + 1].results |-> messages[i + 1].results[k].id]
    BY <2>3 DEF Paired, Ids
  <2>5. Len(messages) > 0 /\ messages[Len(messages)].role = "assistant"
    BY <1>2, <2>3 DEF Paired
  <2>6. UNCHANGED <<pc, messages, calls>>
    BY <1>1
  <2>7. pc' = "execute" => Len(messages') > 0 /\ messages'[Len(messages')].role = "assistant"
    BY <2>5, <2>6
  <2>8. \A i \in DOMAIN messages' : messages'[i].role = "assistant" =>
          \/ pc' = "execute" /\ i = Len(messages') /\ messages'[i].calls = [k \in DOMAIN calls' |-> calls'[k].id]
          \/ i < Len(messages') /\ messages'[i].calls = [k \in DOMAIN messages'[i + 1].results |-> messages'[i + 1].results[k].id]
    <3> DEFINE Answers(i, ms, cs) == \/ i = Len(ms) /\ ms[i].calls = [k \in DOMAIN cs |-> cs[k].id]
                                     \/ i < Len(ms) /\ ms[i].calls = [k \in DOMAIN ms[i + 1].results |-> ms[i + 1].results[k].id]
    <3>1. \A i \in DOMAIN messages : messages[i].role = "assistant" => Answers(i, messages, calls)
      BY <2>4
    <3> HIDE DEF Answers
    <3>2. \A i \in DOMAIN messages' : messages'[i].role = "assistant" => Answers(i, messages', calls')
      BY <2>6, <3>1
    <3>3. pc' = "execute"
      BY <1>2, <2>6
    <3> QED BY <3>2, <3>3 DEF Answers
  <2> QED BY ONLY <2>1, <2>2, <2>7, <2>8 DEF Paired, Ids
<1>11. RoundsCounted' /\ RoundsLeft'
  BY <1>1 DEF LoopInv, RoundsCounted, RoundsLeft
<1> QED BY <1>8, <1>9, <1>10, <1>11

LEMMA ExecutionKeeps ==
  ASSUME LoopInv, Refuse \/ Details \/ RunQuery
  PROVE  LoopInv'
<1>1. queries \in Nat /\ findings \in Seq(Findings) /\ Len(findings) = queries /\ tables \in Snapshots /\ calls \in Seq(Calls)
  BY DEF LoopInv, TypeOK, ConversationOK, QueriesCounted
<1>2. Executing /\ Current \in Calls
  <2>1. Executing
    BY DEF Refuse, Details, RunQuery
  <2>2. results \in Seq(Results)
    BY DEF LoopInv, ConversationOK
  <2> QED BY <1>1, <2>1, <2>2 DEF Executing, Current
<1>3. CASE Refuse
  <2>1. {} \in Shows /\ <<>> \in {<<>>} \cup {<<f>> : f \in Findings}
    BY DEF Shows
  <2>2. Answer(TRUE, {}, <<>>) /\ UNCHANGED <<findings, queries>>
    BY <1>3 DEF Refuse
  <2>3. TypeOK' /\ ConversationOK' /\ Paired' /\ RoundsCounted' /\ RoundsLeft'
    BY <1>1, <1>2, <2>1, <2>2, AnswerKeeps
  <2>4. QueriesCounted'
    BY <2>2 DEF LoopInv, QueriesCounted
  <2> QED BY <2>3, <2>4 DEF LoopInv
<1>4. CASE Details
  <2>1. Known(Current.names) \in Shows /\ <<>> \in {<<>>} \cup {<<f>> : f \in Findings}
    BY <1>1, <1>2 DEF Shows, Known, Calls
  <2>2. Answer(Known(Current.names) = {}, Known(Current.names), <<>>) /\ UNCHANGED <<findings, queries>>
    BY <1>4 DEF Details
  <2>3. TypeOK' /\ ConversationOK' /\ Paired' /\ RoundsCounted' /\ RoundsLeft'
    <3>1. (Known(Current.names) = {}) \in BOOLEAN
      OBVIOUS
    <3> QED BY <1>1, <1>2, <2>1, <2>2, <3>1, AnswerKeeps
  <2>4. QueriesCounted'
    BY <2>2 DEF LoopInv, QueriesCounted
  <2> QED BY <2>3, <2>4 DEF LoopInv
<1>5. CASE RunQuery
  <2>1. PICK end \in QueryEnds :
          /\ findings' = Append(findings, [id |-> Current.id, end |-> end])
          /\ Answer(end # "rows", {}, <<[id |-> Current.id, end |-> end]>>)
    BY <1>5 DEF RunQuery
  <2>2. queries' = queries + 1 /\ queries < MaxQueries
    BY <1>5 DEF RunQuery
  <2> DEFINE f == [id |-> Current.id, end |-> end]
  <2>3. f \in Findings
    <3>1. end \in {"rows", "failed", "rejected", "unknown_connection"}
      BY DEF QueryEnds
    <3> QED BY <1>2, <3>1 DEF Findings, Calls
  <2>4. findings' = Append(findings, f) /\ Answer(end # "rows", {}, <<f>>)
    BY <2>1
  <2> HIDE DEF f
  <2>5. findings' \in Seq(Findings) /\ Len(findings') = queries + 1
    <3>1. Append(findings, f) \in Seq(Findings)
      BY <1>1, <2>3, AppendProperties
    <3>2. Len(Append(findings, f)) = Len(findings) + 1
      BY <1>1, <2>3, AppendProperties
    <3> QED BY <1>1, <2>4, <3>1, <3>2
  <2>6. {} \in Shows /\ <<f>> \in {<<>>} \cup {<<g>> : g \in Findings} /\ (end # "rows") \in BOOLEAN /\ queries' \in Nat
    BY <1>1, <2>2, <2>3 DEF Shows
  <2>7. TypeOK' /\ ConversationOK' /\ Paired' /\ RoundsCounted' /\ RoundsLeft'
    BY <1>2, <2>4, <2>5, <2>6, AnswerKeeps
  <2>8. QueriesCounted'
    BY <1>1, <2>2, <2>5, LimitsAssumption DEF QueriesCounted
  <2> QED BY <2>7, <2>8 DEF LoopInv
<1> QED BY <1>3, <1>4, <1>5

\* A step that ends with all tool calls answered keeps the rest.
LEMMA GrowsKeep ==
  ASSUME LoopInv, messages' \in Seq(Messages), AllAnswered(messages'), pc' # "execute", TypeOK', RoundsCounted', RoundsLeft',
         UNCHANGED <<loop, tables, calls, results, findings, queries>>
  PROVE  LoopInv'
<1>1. ConversationOK' /\ QueriesCounted'
  BY DEF LoopInv, ConversationOK, QueriesCounted
<1>2. Paired'
  BY DEF AllAnswered, Answered, Paired, Ids
<1> QED BY <1>1, <1>2 DEF LoopInv

LEMMA Nudge == User(TRUE, <<>>) \in Messages /\ User(TRUE, <<>>).role = "user"
<1>1. <<>> \in Seq(CallIds) /\ <<>> \in Seq(Results)
  OBVIOUS
<1> QED BY <1>1 DEF User, Messages

LEMMA AgentSaysNothingKeeps ==
  ASSUME LoopInv, AgentSaysNothing
  PROVE  LoopInv'
<1>1. /\ loop = "agent" /\ pc = "call" /\ pc' = "force" /\ round' = round + 1
      /\ messages' = Append(messages, User(TRUE, <<>>))
      /\ UNCHANGED <<loop, tables, calls, results, findings, queries, warnings>>
  BY DEF AgentSaysNothing
<1>2. messages \in Seq(Messages) /\ AllAnswered(messages)
  BY <1>1, PairedIdle DEF LoopInv, ConversationOK
<1>3. messages' \in Seq(Messages) /\ AllAnswered(messages')
  BY <1>1, <1>2, Nudge, UserGrows
<1>4. TypeOK' /\ RoundsCounted' /\ RoundsLeft'
  BY <1>1 DEF LoopInv, TypeOK, RoundsCounted, RoundsLeft
<1> QED BY <1>1, <1>3, <1>4, GrowsKeep

LEMMA TurnsEnd ==
  ASSUME LoopInv, AgentTurnEnds \/ AskTurnEnds
  PROVE  LoopInv'
<1> DEFINE m  == User(FALSE, results)
           ms == Append(messages, m)
<1>1. TurnDone /\ ConversationOK /\ Paired /\ round \in Nat
  BY DEF LoopInv, TypeOK, AgentTurnEnds, AskTurnEnds
<1>2. m \in Messages /\ ms \in Seq(Messages) /\ AllAnswered(ms)
  BY <1>1, TurnAnswered
<1>3. CASE AgentTurnEnds
  <2>1. loop = "agent" /\ pc' \in {"force", "call"} /\ UNCHANGED <<loop, tables, round, calls, results, findings, queries, warnings>>
    BY <1>3 DEF AgentTurnEnds
  <2>2. messages' \in Seq(Messages) /\ AllAnswered(messages')
    <3>1. CASE messages' = ms
      BY <1>2, <3>1
    <3>2. CASE messages' = messages \o <<m, User(TRUE, <<>>)>>
      <4>1. messages \in Seq(Messages)
        BY <1>1 DEF ConversationOK
      <4>2. messages' = Append(ms, User(TRUE, <<>>))
        BY <1>2, <3>2, <4>1, TwoMore, Nudge
      <4> QED BY <1>2, <4>2, Nudge, UserGrows
    <3> QED BY <1>3, <3>1, <3>2 DEF AgentTurnEnds
  <2>3. TypeOK' /\ RoundsCounted' /\ RoundsLeft'
    BY <2>1 DEF LoopInv, TypeOK, RoundsCounted, RoundsLeft
  <2> QED BY <2>1, <2>2, <2>3, GrowsKeep
<1>4. CASE AskTurnEnds
  <2>1. /\ loop # "agent" /\ messages' = ms /\ warnings' = Limits /\ pc' = (IF Limits = {} THEN "call" ELSE "conclude")
        /\ UNCHANGED <<loop, tables, round, calls, results, findings, queries>>
    BY <1>4 DEF AskTurnEnds
  <2>2. Limits \in SUBSET {"table_limit", "token_budget", "round_limit"} /\ (Limits = {} => ~(round >= MaxRounds))
    BY DEF Limits
  <2>3. RoundsLeft'
    BY <1>1, <2>1, <2>2, LimitsAssumption DEF RoundsLeft
  <2>4. TypeOK' /\ RoundsCounted'
    BY <2>1, <2>2 DEF LoopInv, TypeOK, RoundsCounted
  <2> QED BY <1>2, <2>1, <2>3, <2>4, GrowsKeep
<1> QED BY <1>3, <1>4

LEMMA NextKeeps == LoopInv /\ [Next]_vars => LoopInv'
<1> SUFFICES ASSUME LoopInv, [Next]_vars PROVE LoopInv'
  OBVIOUS
<1>1. CASE UNCHANGED vars
  <2>1. UNCHANGED <<loop, tables, pc, round, messages, calls, results, findings, queries, warnings>>
    BY <1>1 DEF vars
  <2>2. TypeOK' /\ QueriesCounted' /\ RoundsCounted' /\ RoundsLeft'
    BY <2>1 DEF LoopInv, TypeOK, QueriesCounted, RoundsCounted, RoundsLeft
  <2>3. ConversationOK'
    BY <2>1 DEF LoopInv, ConversationOK
  <2>4. Paired'
    BY <2>1 DEF LoopInv, Paired, Ids
  <2> QED BY <2>2, <2>3, <2>4 DEF LoopInv
<1>2. CASE Step
  BY <1>2, StopsKeep, ToolTurnKeeps, AgentSaysNothingKeeps, ExecutionKeeps, TurnsEnd DEF Step
<1> QED BY <1>1, <1>2 DEF Next, Returned

\* The inductive invariant holds of every run of the three loops.
THEOREM LoopHolds == Spec => []LoopInv
BY InitHolds, NextKeeps, PTL DEF Spec

\* However many tools the model calls, and whichever limit is hit in between,
\* each call of a turn is answered once and in order by the next message; queries
\* are counted and refused beyond their limit, and the discovery and the analysis
\* loop call the provider no more often than their rounds (services/schema/
\* discover.py, ask_analysis.py, analysis/agent.py).
THEOREM LoopsAreSound == Spec => []ToolInv
<1>1. LoopInv => ToolInv
  BY DEF LoopInv, ToolInv
<1> QED BY <1>1, LoopHolds, PTL

-----------------------------------------------------------------------------
(* Flattening, by the least place where a claim about it would fail.       *)

\* A family of subsets of a finite set has a least one.
LEMMA Smallest ==
  ASSUME NEW S, IsFiniteSet(S), NEW F, F \subseteq SUBSET S, F # {}
  PROVE  \E X \in F : \A Y \in F : Y \subseteq X => Y = X
<1>1. F \subseteq FiniteSubsetsOf(S)
  BY FS_FiniteSubsetsOfFinite
<1>2. PICK X \in F : \A Y \in F : ~(<<Y, X>> \in StrictSubsetOrdering(S))
  BY <1>1, WFMin, FS_StrictSubsetOrderingWellFounded
<1> QED BY <1>2 DEF StrictSubsetOrdering

\* A set of numbers has a least one.
LEMMA LeastNumber ==
  ASSUME NEW n \in Nat, NEW bad, bad \subseteq 1..n, bad # {}
  PROVE  \E m \in bad : \A k \in bad : m <= k
<1> DEFINE below == {1..m : m \in bad}
<1>1. IsFiniteSet(1..n)
  BY FS_Interval, n \in Int, 1 \in Int
<1>2. below \subseteq SUBSET (1..n) /\ below # {}
  <2>1. \A m \in bad : 1..m \subseteq 1..n
    OBVIOUS
  <2> QED BY <2>1
<1>3. \E X \in below : \A Y \in below : Y \subseteq X => Y = X
  <2> DEFINE all == 1..n
  <2>1. IsFiniteSet(all) /\ below \subseteq SUBSET all /\ below # {}
    BY <1>1, <1>2
  <2> HIDE DEF all, below
  <2> QED BY <2>1, Smallest
<1>4. PICK m \in bad : \A Y \in below : Y \subseteq 1..m => Y = 1..m
  BY <1>3
<1>5. ASSUME NEW k \in bad, k < m PROVE FALSE
  <2>1. 1..k \in below /\ 1..k \subseteq 1..m /\ m \in 1..m /\ m \notin 1..k
    BY <1>5
  <2> QED BY <1>4, <2>1
<1> QED BY <1>5

\* What FlattenSeq chooses: the flattened beginnings of a sequence.
Beginnings(ss, n, f) == f = [i \in 1..n |-> IF i = 1 THEN ss[i] ELSE f[i - 1] \o ss[i]]

Agree(ss, tt, n) == \A i \in 1..n : ss[i] = tt[i]

\* Sequences that agree up to a place are flattened alike up to it.
LEMMA BeginningsAgree ==
  ASSUME NEW ss, NEW tt, NEW n \in Nat, NEW k \in Nat, k <= n, NEW f, NEW g,
         Beginnings(ss, n, f), Beginnings(tt, k, g), Agree(ss, tt, k)
  PROVE  \A i \in 1..k : f[i] = g[i]
<1> DEFINE bad == {i \in 1..k : f[i] # g[i]}
<1>1. SUFFICES ASSUME bad # {} PROVE FALSE
  OBVIOUS
<1>2. PICK m \in bad : \A i \in bad : m <= i
  BY <1>1, LeastNumber
<1>3. m \in 1..k /\ m \in 1..n /\ f[m] # g[m]
  OBVIOUS
<1>4. f[m] = (IF m = 1 THEN ss[m] ELSE f[m - 1] \o ss[m]) /\ g[m] = (IF m = 1 THEN tt[m] ELSE g[m - 1] \o tt[m])
  BY <1>3 DEF Beginnings
<1>5. ss[m] = tt[m]
  BY <1>3 DEF Agree
<1>6. CASE m = 1
  BY <1>3, <1>4, <1>6, <1>5
<1>7. CASE m # 1
  <2>1. m - 1 \in 1..k /\ m - 1 < m
    BY <1>3, <1>7
  <2>2. f[m - 1] = g[m - 1]
    BY <1>2, <2>1
  <2> QED BY <1>3, <1>4, <1>7, <1>5, <2>2
<1> QED BY <1>6, <1>7

\* One more place.
LEMMA BeginningsGrow ==
  ASSUME NEW ss, NEW n \in Nat, NEW f, Beginnings(ss, n, f)
  PROVE  \E g : Beginnings(ss, n + 1, g)
<1> DEFINE next == IF n = 0 THEN ss[1] ELSE f[n] \o ss[n + 1]
           g == [i \in 1..(n + 1) |-> IF i = n + 1 THEN next ELSE f[i]]
<1>1. ASSUME NEW i \in 1..(n + 1) PROVE g[i] = (IF i = 1 THEN ss[i] ELSE g[i - 1] \o ss[i])
  <2>1. CASE i = n + 1
    <3>1. CASE n = 0
      BY <2>1, <3>1
    <3>2. CASE n # 0
      <4>1. i # 1 /\ i - 1 = n /\ n \in 1..(n + 1) /\ n # n + 1
        BY <2>1, <3>2
      <4>2. g[i] = next /\ g[i - 1] = f[n]
        BY <2>1, <4>1
      <4> QED BY <2>1, <3>2, <4>1, <4>2
    <3> QED BY <3>1, <3>2
  <2>2. CASE i # n + 1
    <3>1. i \in 1..n /\ (i # 1 => i - 1 \in 1..n)
      BY <2>2
    <3>2. g[i] = f[i] /\ (i # 1 => g[i - 1] = f[i - 1])
      BY <2>2, <3>1
    <3>3. f[i] = (IF i = 1 THEN ss[i] ELSE f[i - 1] \o ss[i])
      BY <3>1 DEF Beginnings
    <3> QED BY <3>2, <3>3
  <2> QED BY <2>1, <2>2
<1>2. g = [i \in 1..(n + 1) |-> g[i]]
  OBVIOUS
<1> HIDE DEF g
<1>3. g = [i \in 1..(n + 1) |-> IF i = 1 THEN ss[i] ELSE g[i - 1] \o ss[i]]
  BY <1>1, <1>2
<1> QED BY <1>3 DEF Beginnings

LEMMA BeginningsExist ==
  ASSUME NEW ss, NEW n \in Nat
  PROVE  \E f : Beginnings(ss, n, f)
<1> DEFINE bad == {i \in 1..n : ~\E f : Beginnings(ss, i, f)}
<1>1. Beginnings(ss, 0, <<>>)
  BY DEF Beginnings
<1>2. SUFFICES ASSUME bad # {} PROVE FALSE
  BY <1>1
<1>3. PICK m \in bad : \A i \in bad : m <= i
  BY <1>2, LeastNumber
<1>4. m \in 1..n /\ ~\E f : Beginnings(ss, m, f) /\ m - 1 \in Nat
  OBVIOUS
<1>5. \E f : Beginnings(ss, m - 1, f)
  <2>1. CASE m = 1
    BY <1>1, <2>1
  <2>2. CASE m # 1
    <3>1. m - 1 \in 1..n /\ m - 1 < m
      BY <1>4, <2>2
    <3> QED BY <1>3, <3>1
  <2> QED BY <2>1, <2>2
<1>6. m - 1 + 1 = m
  BY <1>4
<1> QED BY <1>4, <1>5, <1>6, BeginningsGrow

LEMMA FlattenIs ==
  ASSUME NEW S, NEW ss \in Seq(Seq(S)), Len(ss) > 0
  PROVE  \E f : Beginnings(ss, Len(ss), f) /\ FlattenSeq(ss) = f[Len(ss)]
<1> DEFINE f == CHOOSE f : Beginnings(ss, Len(ss), f)
<1>1. Len(ss) \in Nat
  OBVIOUS
<1>2. Beginnings(ss, Len(ss), f)
  BY <1>1, BeginningsExist
<1>3. FlattenSeq(ss) = f[Len(ss)]
  BY DEF FlattenSeq, Beginnings
<1> QED BY <1>2, <1>3

LEMMA FlattenNothing == FlattenSeq(<<>>) = <<>>
BY DEF FlattenSeq

\* Flattening keeps the kind of the elements.
LEMMA FlattenTyped ==
  ASSUME NEW S, NEW ss \in Seq(Seq(S))
  PROVE  FlattenSeq(ss) \in Seq(S)
<1>1. CASE Len(ss) = 0
  <2>1. ss = <<>> /\ <<>> \in Seq(S)
    BY <1>1
  <2> QED BY <2>1, FlattenNothing
<1>2. CASE Len(ss) # 0
  <2>1. Len(ss) \in Nat /\ Len(ss) > 0
    BY <1>2
  <2>2. PICK f : Beginnings(ss, Len(ss), f) /\ FlattenSeq(ss) = f[Len(ss)]
    BY <2>1, FlattenIs
  <2> DEFINE bad == {i \in 1..Len(ss) : f[i] \notin Seq(S)}
  <2>3. ASSUME bad # {} PROVE FALSE
    <3>1. PICK m \in bad : \A i \in bad : m <= i
      BY <2>1, <2>3, LeastNumber
    <3>2. m \in 1..Len(ss) /\ f[m] \notin Seq(S) /\ ss[m] \in Seq(S)
      OBVIOUS
    <3>3. f[m] = IF m = 1 THEN ss[m] ELSE f[m - 1] \o ss[m]
      BY <2>2, <3>2 DEF Beginnings
    <3>4. m # 1 /\ m - 1 \in 1..Len(ss) /\ m - 1 < m
      BY <3>2, <3>3
    <3>5. f[m - 1] \in Seq(S)
      BY <3>1, <3>4
    <3>6. f[m - 1] \o ss[m] \in Seq(S)
      BY <3>2, <3>5, ConcatProperties
    <3> QED BY <3>2, <3>3, <3>4, <3>6
  <2>4. Len(ss) \in 1..Len(ss)
    BY <2>1
  <2> QED BY <2>2, <2>3, <2>4
<1> QED BY <1>1, <1>2

\* The k-th beginning g of tt is the n-th beginning f of another and one element of tt more.
OneMore(tt, n, f, k, g) ==
  /\ n = 0 => g[k] = tt[k]
  /\ n # 0 => g[k] = f[n] \o tt[k]

LEMMA LastBeginning ==
  ASSUME NEW ss, NEW tt, NEW n \in Nat, NEW k \in Nat, n < k, k <= n + 1, NEW f, NEW g,
         Beginnings(ss, n, f), Beginnings(tt, k, g), Agree(tt, ss, n)
  PROVE  OneMore(tt, n, f, k, g)
<1>1. k \in 1..k /\ k - 1 = n /\ (k = 1 <=> n = 0) /\ n <= k
  OBVIOUS
<1>2. \A i \in 1..n : g[i] = f[i]
  BY <1>1, BeginningsAgree
<1>3. \A i \in 1..k : g[i] = IF i = 1 THEN tt[i] ELSE g[i - 1] \o tt[i]
  BY DEF Beginnings
<1>4. g[k] = IF k = 1 THEN tt[k] ELSE g[k - 1] \o tt[k]
  BY <1>1, <1>3
<1>5. ASSUME n # 0 PROVE g[k] = f[n] \o tt[k]
  <2>1. g[n] = f[n]
    BY <1>2, <1>5
  <2> QED BY <1>1, <1>4, <1>5, <2>1
<1> QED BY <1>1, <1>4, <1>5 DEF OneMore

\* A sequence more at the end adds its elements at the end.
LEMMA FlattenAppend ==
  ASSUME NEW S, NEW ss \in Seq(Seq(S)), NEW s \in Seq(S)
  PROVE  FlattenSeq(Append(ss, s)) = FlattenSeq(ss) \o s
<1> DEFINE tt == Append(ss, s)
           n  == Len(ss)
           k  == n + 1
<1>1. tt \in Seq(Seq(S)) /\ Len(tt) = k /\ tt[k] = s /\ Agree(tt, ss, n)
  <2>1. tt \in Seq(Seq(S))
    BY AppendProperties
  <2>2. Len(tt) = k /\ tt[k] = s
    BY AppendProperties
  <2>3. Agree(tt, ss, n)
    BY AppendProperties DEF Agree
  <2> QED BY <2>1, <2>2, <2>3
<1>2. n \in Nat /\ k \in Nat /\ k = n + 1 /\ k > 0
  OBVIOUS
<1>3. <<>> \o s = s /\ (n = 0 => FlattenSeq(ss) = <<>>)
  BY FlattenNothing
<1>4. PICK f : Beginnings(ss, n, f) /\ (n # 0 => FlattenSeq(ss) = f[n])
  <2>1. CASE n = 0
    BY <1>2, <2>1, BeginningsExist
  <2>2. CASE n # 0
    <3>1. Len(ss) > 0
      BY <1>2, <2>2
    <3> QED BY <3>1, FlattenIs
  <2> QED BY <2>1, <2>2
<1> HIDE DEF tt, n, k
<1>5. PICK g : Beginnings(tt, k, g) /\ FlattenSeq(tt) = g[k]
  BY <1>1, <1>2, FlattenIs
<1>6. OneMore(tt, n, f, k, g)
  <2>1. Beginnings(ss, n, f) /\ Beginnings(tt, k, g) /\ Agree(tt, ss, n)
    BY <1>1, <1>4, <1>5
  <2>2. n < k /\ k <= n + 1
    BY <1>2
  <2> QED BY <1>2, <2>1, <2>2, LastBeginning
<1>7. FlattenSeq(tt) = FlattenSeq(ss) \o s
  BY <1>1, <1>3, <1>4, <1>5, <1>6 DEF OneMore
<1> QED BY <1>7 DEF tt

-----------------------------------------------------------------------------
(* What the providers accept.                                              *)

\* The messages of the OpenAI format.
Sent == [role : {"system", "user"}] \cup [role : {"assistant"}, calls : Seq(CallIds)] \cup [role : {"tool"}, call : CallIds]

Asks(c)    == [role |-> "assistant", calls |-> c]
Answers(c) == [k \in DOMAIN c |-> [role |-> "tool", call |-> c[k]]]

\* A turn is the model's calls, their results, or a text of the user.
ShapeOf(m) ==
  \/ m.role = "assistant" /\ ~m.text /\ m.results = <<>> /\ m.calls # <<>>
  \/ m.role = "user" /\ ~m.text /\ m.results # <<>> /\ m.calls = <<>>
  \/ m.role = "user" /\ m.text /\ m.results = <<>> /\ m.calls = <<>>

\* The user speaks first, and results follow the turn they answer.
Shaped(ms) ==
  /\ Len(ms) > 0 /\ ms[1].role = "user"
  /\ \A i \in DOMAIN ms : ShapeOf(ms[i])
  /\ \A i \in DOMAIN ms : ms[i].results # <<>> => i > 1 /\ ms[i - 1].role = "assistant"

SentInv ==
  /\ pc # "execute" => OpenAIAccepts(ToOpenAI(messages))
  /\ pc = "execute" => \E o \in Seq(Sent) : OpenAIAccepts(o) /\ ToOpenAI(messages) = Append(o, Asks(Ids(calls)))

AcceptInv == Shaped(messages) /\ SentInv

LEMMA AnswersTyped ==
  ASSUME NEW c \in Seq(CallIds)
  PROVE  Answers(c) \in Seq(Sent) /\ Len(Answers(c)) = Len(c)
BY DEF Answers, Sent

\* What a turn becomes.
LEMMA TurnSent ==
  ASSUME NEW m \in Messages, ShapeOf(m)
  PROVE  /\ m.role = "assistant" => OpenAI(m) = <<Asks(m.calls)>>
         /\ m.role = "user" /\ ~m.text => OpenAI(m) = Answers(Ids(m.results)) /\ Ids(m.results) \in Seq(CallIds)
         /\ m.role = "user" /\ m.text => OpenAI(m) = <<[role |-> "user"]>>
         /\ OpenAI(m) \in Seq(Sent)
<1>1. m.results \in Seq(Results) /\ m.calls \in Seq(CallIds) /\ m.role \in {"user", "assistant"} /\ m.text \in BOOLEAN
  BY DEF Messages
<1>2. CASE m.role = "assistant"
  <2>1. OpenAI(m) = <<Asks(m.calls)>> /\ Asks(m.calls) \in Sent
    BY <1>1, <1>2 DEF OpenAI, Asks, Sent
  <2> QED BY <1>2, <2>1
<1>3. CASE m.role = "user" /\ ~m.text
  <2> DEFINE ids == Ids(m.results)
  <2>1. ids \in Seq(CallIds) /\ DOMAIN ids = DOMAIN m.results /\ \A k \in DOMAIN ids : ids[k] = m.results[k].id
    <3>1. \A k \in DOMAIN m.results : m.results[k] \in Results
      BY <1>1
    <3>2. \A k \in DOMAIN m.results : m.results[k].id \in CallIds
      BY <3>1 DEF Results
    <3> QED BY <1>1, <3>2 DEF Ids
  <2> HIDE DEF ids
  <2>2. [k \in DOMAIN m.results |-> [role |-> "tool", call |-> m.results[k].id]] = Answers(ids)
    BY <2>1 DEF Answers
  <2>3. OpenAI(m) = Answers(ids) \o <<>>
    BY <1>3, <2>2 DEF OpenAI
  <2>4. OpenAI(m) = Answers(ids) /\ Answers(ids) \in Seq(Sent)
    BY <2>1, <2>3, AnswersTyped
  <2> QED BY <1>3, <2>1, <2>4 DEF ids
<1>4. CASE m.role = "user" /\ m.text
  <2>1. m.results = <<>>
    BY <1>4 DEF ShapeOf
  <2>2. [k \in DOMAIN m.results |-> [role |-> "tool", call |-> m.results[k].id]] = <<>>
    BY <2>1
  <2>3. OpenAI(m) = <<>> \o <<[role |-> "user"]>>
    BY <1>4, <2>2 DEF OpenAI
  <2>4. <<[role |-> "user"]>> \in Seq(Sent) /\ <<>> \o <<[role |-> "user"]>> = <<[role |-> "user"]>>
    BY DEF Sent
  <2> QED BY <1>4, <2>3, <2>4
<1> QED BY <1>1, <1>2, <1>3, <1>4

\* A turn more is sent after what was sent before.
LEMMA SentGrows ==
  ASSUME NEW ms \in Seq(Messages), NEW m \in Messages, \A i \in DOMAIN ms : ShapeOf(ms[i]), ShapeOf(m)
  PROVE  ToOpenAI(ms) \in Seq(Sent) /\ ToOpenAI(Append(ms, m)) = ToOpenAI(ms) \o OpenAI(m)
<1> DEFINE mm == Append(ms, m)
           ss == [i \in DOMAIN ms |-> OpenAI(ms[i])]
           tt == [i \in DOMAIN mm |-> OpenAI(mm[i])]
           one == <<[role |-> "system"]>>
<1>1. mm \in Seq(Messages) /\ Len(mm) = Len(ms) + 1 /\ mm[Len(ms) + 1] = m /\ \A i \in DOMAIN ms : mm[i] = ms[i]
  BY Grown
<1>2. ss \in Seq(Seq(Sent)) /\ Len(ss) = Len(ms) /\ \A i \in 1..Len(ms) : ss[i] = OpenAI(ms[i])
  <2>1. \A i \in 1..Len(ms) : OpenAI(ms[i]) \in Seq(Sent)
    BY TurnSent
  <2>2. DOMAIN ms = 1..Len(ms) /\ Len(ms) \in Nat
    OBVIOUS
  <2>3. ss = [i \in 1..Len(ms) |-> OpenAI(ms[i])]
    BY <2>2
  <2>4. [i \in 1..Len(ms) |-> OpenAI(ms[i])] \in Seq(Seq(Sent))
    BY <2>1, <2>2
  <2> HIDE DEF ss
  <2>5. Len(ss) = Len(ms)
    BY <2>2, <2>3
  <2> QED BY <2>3, <2>4, <2>5
<1>3. OpenAI(m) \in Seq(Sent)
  BY TurnSent
<1> HIDE DEF mm
<1>4. tt = Append(ss, OpenAI(m))
  <2> DEFINE uu == Append(ss, OpenAI(m))
  <2>1. uu \in Seq(Seq(Sent)) /\ Len(uu) = Len(ms) + 1
    BY <1>2, <1>3, AppendProperties
  <2>2. uu[Len(ms) + 1] = OpenAI(m) /\ \A i \in 1..Len(ms) : uu[i] = ss[i]
    BY <1>2, <1>3, AppendProperties
  <2>3. DOMAIN mm = 1..(Len(ms) + 1) /\ Len(ms) \in Nat
    BY <1>1
  <2> HIDE DEF ss, uu
  <2>4. \A i \in 1..(Len(ms) + 1) : OpenAI(mm[i]) = uu[i]
    <3> SUFFICES ASSUME NEW i \in 1..(Len(ms) + 1) PROVE OpenAI(mm[i]) = uu[i]
      OBVIOUS
    <3>1. CASE i = Len(ms) + 1
      BY <1>1, <2>2, <3>1
    <3>2. CASE i # Len(ms) + 1
      <4>1. i \in 1..Len(ms) /\ i \in DOMAIN ms
        BY <2>3, <3>2
      <4> QED BY <1>1, <1>2, <2>2, <4>1
    <3> QED BY <3>1, <3>2
  <2>5. uu = [i \in 1..(Len(ms) + 1) |-> uu[i]]
    BY <2>1, <2>3
  <2> QED BY <2>3, <2>4, <2>5 DEF uu
<1> HIDE DEF ss, tt
<1>5. FlattenSeq(ss) \in Seq(Sent) /\ FlattenSeq(tt) = FlattenSeq(ss) \o OpenAI(m)
  BY <1>2, <1>3, <1>4, FlattenAppend, FlattenTyped
<1>6. one \in Seq(Sent)
  BY DEF Sent
<1> HIDE DEF one
<1>7. one \o FlattenSeq(ss) \in Seq(Sent)
  BY <1>5, <1>6, ConcatProperties
<1>8. one \o (FlattenSeq(ss) \o OpenAI(m)) = (one \o FlattenSeq(ss)) \o OpenAI(m)
  <2> DEFINE S == Sent
             f == FlattenSeq(ss)
             o == OpenAI(m)
  <2>1. one \in Seq(S) /\ f \in Seq(S) /\ o \in Seq(S)
    BY <1>3, <1>5, <1>6
  <2> HIDE DEF S, f, o
  <2>2. (one \o f) \o o = one \o (f \o o)
    BY <2>1, ConcatAssociative
  <2> QED BY <2>2 DEF f, o
<1>9. ToOpenAI(ms) = one \o FlattenSeq(ss) /\ ToOpenAI(mm) = one \o FlattenSeq(tt)
  BY DEF ToOpenAI, one, ss, tt
<1>10. ToOpenAI(ms) \in Seq(Sent) /\ ToOpenAI(mm) = ToOpenAI(ms) \o OpenAI(m)
  BY <1>5, <1>7, <1>8, <1>9
<1> QED BY <1>10 DEF mm

\* What OpenAIAccepts asks of the message at i.
Followed(out, i) == out[i].role = "assistant" =>
  \A k \in DOMAIN out[i].calls : i + k \in DOMAIN out /\ out[i + k] = [role |-> "tool", call |-> out[i].calls[k]]
Follows(out, i) == out[i].role = "tool" =>
  \E j \in 1..(i - 1) : out[j].role = "assistant" /\ i - j \in DOMAIN out[j].calls

LEMMA AcceptsIs ==
  ASSUME NEW o
  PROVE  OpenAIAccepts(o) <=> \A i \in DOMAIN o : Followed(o, i) /\ Follows(o, i)
BY DEF OpenAIAccepts, Followed, Follows

\* Messages sent later leave those sent before answered.
LEMMA StaysAccepted ==
  ASSUME NEW o \in Seq(Sent), NEW p \in Seq(Sent), OpenAIAccepts(o), NEW i \in 1..Len(o)
  PROVE  Followed(o \o p, i) /\ Follows(o \o p, i)
<1> DEFINE q == o \o p
<1>1. DOMAIN o = 1..Len(o) /\ Len(o) \in Nat /\ Len(p) \in Nat
  OBVIOUS
<1>2. q \in Seq(Sent) /\ Len(q) = Len(o) + Len(p) /\ \A j \in 1..Len(o) : q[j] = o[j] /\ j \in 1..Len(q)
  <2>1. q \in Seq(Sent) /\ Len(q) = Len(o) + Len(p)
    BY ConcatProperties
  <2>2. \A j \in 1..(Len(o) + Len(p)) : q[j] = IF j <= Len(o) THEN o[j] ELSE p[j - Len(o)]
    BY ConcatProperties
  <2> HIDE DEF q
  <2>3. \A j \in 1..Len(o) : j \in 1..(Len(o) + Len(p)) /\ j <= Len(o)
    BY <1>1
  <2> QED BY <2>1, <2>2, <2>3
<1> HIDE DEF q
<1>3. DOMAIN q = 1..Len(q)
  BY <1>2
<1>4. Followed(o, i) /\ Follows(o, i)
  BY <1>1, AcceptsIs
<1>5. Followed(q, i)
  <2> SUFFICES ASSUME q[i].role = "assistant", NEW k \in DOMAIN q[i].calls
               PROVE  i + k \in DOMAIN q /\ q[i + k] = [role |-> "tool", call |-> q[i].calls[k]]
    BY DEF Followed
  <2>1. q[i] = o[i]
    BY <1>2
  <2>2. i + k \in DOMAIN o /\ o[i + k] = [role |-> "tool", call |-> o[i].calls[k]]
    BY <1>4, <2>1 DEF Followed
  <2> QED BY <1>1, <1>2, <1>3, <2>1, <2>2
<1>6. Follows(q, i)
  <2> SUFFICES ASSUME q[i].role = "tool"
               PROVE  \E j \in 1..(i - 1) : q[j].role = "assistant" /\ i - j \in DOMAIN q[j].calls
    BY DEF Follows
  <2>1. q[i] = o[i]
    BY <1>2
  <2>2. PICK j \in 1..(i - 1) : o[j].role = "assistant" /\ i - j \in DOMAIN o[j].calls
    BY <1>4, <2>1 DEF Follows
  <2>3. j \in 1..Len(o)
    BY <1>1
  <2>4. q[j] = o[j]
    BY <1>2, <2>3
  <2> QED BY <2>2, <2>4
<1> QED BY <1>5, <1>6 DEF q

LEMMA AcceptsText ==
  ASSUME NEW o \in Seq(Sent), OpenAIAccepts(o)
  PROVE  OpenAIAccepts(o \o <<[role |-> "user"]>>)
<1> DEFINE p == <<[role |-> "user"]>>
           q == o \o p
<1>1. p \in Seq(Sent) /\ Len(p) = 1 /\ p[1].role = "user" /\ Len(o) \in Nat
  BY DEF Sent
<1> HIDE DEF p
<1>2. q \in Seq(Sent) /\ Len(q) = Len(o) + 1
  <2>1. q \in Seq(Sent)
    BY <1>1, ConcatProperties
  <2>2. Len(q) = Len(o) + Len(p)
    BY <1>1, ConcatProperties
  <2> QED BY <1>1, <2>1, <2>2
<1>3. q[Len(o) + 1] = p[1]
  BY <1>1, ConcatProperties
<1>4. \A i \in 1..Len(o) : Followed(q, i) /\ Follows(q, i)
  BY <1>1, StaysAccepted
<1> HIDE DEF q
<1>5. ASSUME NEW i \in DOMAIN q PROVE Followed(q, i) /\ Follows(q, i)
  <2>1. i \in 1..Len(o) \/ i = Len(o) + 1
    BY <1>1, <1>2
  <2>2. CASE i = Len(o) + 1
    <3>1. q[i].role = "user"
      BY <1>1, <1>3, <2>2
    <3> QED BY <3>1 DEF Followed, Follows
  <2> QED BY <1>4, <2>1, <2>2
<1>6. OpenAIAccepts(q)
  BY <1>5, AcceptsIs
<1> QED BY <1>6 DEF q, p

\* Calls and all their answers.
LEMMA AcceptsTurn ==
  ASSUME NEW o \in Seq(Sent), OpenAIAccepts(o), NEW c \in Seq(CallIds)
  PROVE  OpenAIAccepts(Append(o, Asks(c)) \o Answers(c))
<1> DEFINE a == Append(o, Asks(c))
           b == Answers(c)
           q == a \o b
           n == Len(o) + 1
<1>1. /\ b \in Seq(Sent) /\ Len(b) = Len(c) /\ Len(o) \in Nat /\ Len(c) \in Nat /\ DOMAIN c = 1..Len(c)
      /\ n = Len(o) + 1
  BY AnswersTyped
<1>2. \A k \in 1..Len(c) : b[k] = [role |-> "tool", call |-> c[k]]
  BY DEF Answers
<1>3. Asks(c) \in Sent /\ Asks(c).role = "assistant" /\ Asks(c).calls = c
  BY DEF Asks, Sent
<1>4. a \in Seq(Sent) /\ Len(a) = n /\ a[n] = Asks(c) /\ a = o \o <<Asks(c)>>
  BY <1>3, AppendProperties, AppendIsConcat
<1> HIDE DEF a, b, n
<1>5. q \in Seq(Sent) /\ Len(q) = n + Len(c)
  <2>1. q \in Seq(Sent)
    BY <1>1, <1>4, ConcatProperties
  <2>2. Len(q) = Len(a) + Len(b)
    BY <1>1, <1>4, ConcatProperties
  <2> QED BY <1>1, <1>4, <2>1, <2>2
<1>6. \A i \in 1..(n + Len(c)) : q[i] = IF i <= n THEN a[i] ELSE b[i - n]
  BY <1>1, <1>4, ConcatProperties
<1>7. \A i \in 1..Len(o) : Followed(q, i) /\ Follows(q, i)
  <2> DEFINE p == <<Asks(c)>> \o b
  <2>1. <<Asks(c)>> \in Seq(Sent)
    BY <1>3
  <2>2. p \in Seq(Sent) /\ q = o \o p
    BY <1>1, <1>4, <2>1, ConcatProperties, ConcatAssociative
  <2> HIDE DEF p, q
  <2> QED BY <2>2, StaysAccepted
<1> HIDE DEF q
<1>8. q[n] = Asks(c) /\ DOMAIN q = 1..(n + Len(c)) /\ n \in Nat /\ n > 0
  <2>1. n \in 1..(n + Len(c)) /\ n <= n /\ n \in Nat /\ n > 0
    BY <1>1
  <2> QED BY <1>4, <1>5, <1>6, <2>1
<1>9. ASSUME NEW k \in 1..Len(c) PROVE q[n + k] = [role |-> "tool", call |-> c[k]] /\ n + k \in DOMAIN q
  <2> DEFINE i == n + k
  <2>1. i \in 1..(n + Len(c)) /\ ~(i <= n) /\ i - n = k
    BY <1>1, <1>8
  <2> HIDE DEF i
  <2>2. q[i] = b[k]
    BY <1>6, <2>1
  <2> QED BY <1>2, <1>8, <2>1, <2>2 DEF i
<1>10. ASSUME NEW i \in DOMAIN q PROVE Followed(q, i) /\ Follows(q, i)
  <2>1. CASE i \in 1..Len(o)
    BY <1>7, <2>1
  <2>2. CASE i = n
    <3>1. Followed(q, i)
      BY <1>1, <1>3, <1>8, <1>9, <2>2 DEF Followed
    <3>2. Follows(q, i)
      BY <1>3, <1>8, <2>2 DEF Follows
    <3> QED BY <3>1, <3>2
  <2>3. CASE i > n
    <3> DEFINE k == i - n
    <3>1. k \in 1..Len(c) /\ i = n + k /\ n \in 1..(i - 1)
      <4>1. i \in 1..(n + Len(c)) /\ n \in Nat /\ n > 0 /\ Len(c) \in Nat
        BY <1>1, <1>8
      <4> QED BY <2>3, <4>1
    <3>2. q[i].role = "tool"
      <4>1. q[n + k] = [role |-> "tool", call |-> c[k]]
        BY <1>9, <3>1
      <4>2. q[i] = [role |-> "tool", call |-> c[k]]
        BY <3>1, <4>1
      <4> QED BY <4>2
    <3>3. Followed(q, i)
      BY <3>2 DEF Followed
    <3>4. q[n].role = "assistant" /\ i - n \in DOMAIN q[n].calls
      BY <1>1, <1>3, <1>8, <3>1
    <3>5. Follows(q, i)
      BY <3>1, <3>4 DEF Follows
    <3> QED BY <3>3, <3>5
  <2> QED BY <1>1, <1>8, <2>1, <2>2, <2>3
<1>11. OpenAIAccepts(q)
  BY <1>10, AcceptsIs
<1> QED BY <1>11 DEF q, a, b

\* The blocks of a turn, by kind.
BlockKinds == {<<"tool_result", id>> : id \in CallIds} \cup {<<"tool_use", id>> : id \in CallIds} \cup {<<"text">>}

LEMMA TurnBlocks ==
  ASSUME NEW m \in Messages, ShapeOf(m)
  PROVE  /\ Anthropic(m).role = m.role /\ Anthropic(m).blocks # <<>>
         /\ m.role = "assistant" => /\ Blocks(Anthropic(m), "tool_use") = {m.calls[k] : k \in DOMAIN m.calls}
                                    /\ Blocks(Anthropic(m), "tool_result") = {}
         /\ m.role = "user" => Blocks(Anthropic(m), "tool_result") = {m.results[k].id : k \in DOMAIN m.results}
<1> DEFINE told  == [k \in DOMAIN m.results |-> <<"tool_result", m.results[k].id>>]
           text  == IF m.text THEN << <<"text">> >> ELSE <<>>
           asked == [k \in DOMAIN m.calls |-> <<"tool_use", m.calls[k]>>]
           b     == told \o text \o asked
<1>1. m.results \in Seq(Results) /\ m.calls \in Seq(CallIds) /\ m.role \in {"user", "assistant"} /\ m.text \in BOOLEAN
  BY DEF Messages
<1>2. Anthropic(m).role = m.role /\ Anthropic(m).blocks = b
  BY DEF Anthropic
<1>3. told \in Seq(BlockKinds) /\ Len(told) = Len(m.results) /\ \A k \in DOMAIN told : told[k][1] = "tool_result" /\ told[k][2] = m.results[k].id
  <2>1. \A k \in DOMAIN m.results : m.results[k] \in Results
    BY <1>1
  <2>2. \A k \in DOMAIN m.results : m.results[k].id \in CallIds
    BY <2>1 DEF Results
  <2>3. \A k \in DOMAIN m.results : <<"tool_result", m.results[k].id>> \in BlockKinds
    BY <2>2 DEF BlockKinds
  <2>4. DOMAIN m.results = 1..Len(m.results) /\ Len(m.results) \in Nat
    BY <1>1
  <2>5. told \in Seq(BlockKinds)
    BY <2>3, <2>4
  <2>6. Len(told) = Len(m.results)
    BY <2>4
  <2>7. \A k \in DOMAIN told : told[k][1] = "tool_result" /\ told[k][2] = m.results[k].id
    OBVIOUS
  <2> QED BY <2>5, <2>6, <2>7
<1>4. asked \in Seq(BlockKinds) /\ Len(asked) = Len(m.calls) /\ \A k \in DOMAIN asked : asked[k][1] = "tool_use" /\ asked[k][2] = m.calls[k]
  <2>1. \A k \in DOMAIN m.calls : <<"tool_use", m.calls[k]>> \in BlockKinds
    BY <1>1 DEF BlockKinds
  <2>2. DOMAIN m.calls = 1..Len(m.calls) /\ Len(m.calls) \in Nat
    BY <1>1
  <2>3. asked \in Seq(BlockKinds)
    BY <2>1, <2>2
  <2>4. Len(asked) = Len(m.calls)
    BY <2>2
  <2>5. \A k \in DOMAIN asked : asked[k][1] = "tool_use" /\ asked[k][2] = m.calls[k]
    OBVIOUS
  <2> QED BY <2>3, <2>4, <2>5
<1>5. text \in Seq(BlockKinds) /\ <<>> \in Seq(BlockKinds)
  <2>1. <<"text">> \in BlockKinds
    BY DEF BlockKinds
  <2>2. << <<"text">> >> \in Seq(BlockKinds) /\ <<>> \in Seq(BlockKinds)
    BY <2>1
  <2> QED BY <2>2
<1>6. DOMAIN told = DOMAIN m.results /\ DOMAIN asked = DOMAIN m.calls
  OBVIOUS
<1>7. CASE m.role = "assistant"
  <2>1. m.results = <<>> /\ text = <<>> /\ m.calls # <<>>
    BY <1>7 DEF ShapeOf
  <2>2. told = <<>>
    BY <1>3, <2>1
  <2> HIDE DEF told, text, asked
  <2>3. b = asked
    BY <1>4, <2>1, <2>2, ConcatEmptySeq
  <2>4. asked # <<>>
    BY <1>1, <1>4, <2>1
  <2>5. /\ {b[k][2] : k \in {k \in DOMAIN b : b[k][1] = "tool_use"}} = {m.calls[k] : k \in DOMAIN m.calls}
        /\ {b[k][2] : k \in {k \in DOMAIN b : b[k][1] = "tool_result"}} = {}
    <3> HIDE DEF b
    <3>1. \A k \in DOMAIN b : b[k][1] = "tool_use" /\ b[k][2] = m.calls[k]
      BY <1>4, <2>3
    <3>2. DOMAIN b = DOMAIN m.calls
      BY <1>6, <2>3
    <3>3. {k \in DOMAIN b : b[k][1] = "tool_use"} = DOMAIN m.calls /\ {k \in DOMAIN b : b[k][1] = "tool_result"} = {}
      BY <3>1, <3>2
    <3> QED BY <3>1, <3>2, <3>3
  <2> HIDE DEF b
  <2>6. b # <<>>
    BY <2>3, <2>4
  <2>7. /\ Blocks(Anthropic(m), "tool_use") = {b[k][2] : k \in {k \in DOMAIN b : b[k][1] = "tool_use"}}
        /\ Blocks(Anthropic(m), "tool_result") = {b[k][2] : k \in {k \in DOMAIN b : b[k][1] = "tool_result"}}
    <3>1. Anthropic(m).blocks = b
      BY <1>2
    <3> QED BY <3>1 DEF Blocks
  <2>8. m.role # "user"
    BY <1>7
  <2> QED BY <1>2, <1>7, <2>5, <2>6, <2>7, <2>8
<1>8. CASE m.role = "user"
  <2>1. m.calls = <<>> /\ (m.text \/ m.results # <<>>) /\ (m.text => m.results = <<>>)
    BY <1>8 DEF ShapeOf
  <2>2. asked = <<>>
    BY <1>4, <2>1
  <2>3. b = told \o text
    <3> HIDE DEF told, text, asked
    <3>1. told \o text \in Seq(BlockKinds)
      BY <1>3, <1>5, ConcatProperties
    <3> QED BY <2>2, <3>1, ConcatEmptySeq
  <2>4. CASE m.text
    <3>1. told = <<>> /\ text = << <<"text">> >> /\ m.results = <<>>
      BY <1>3, <2>1, <2>4
    <3>2. b = << <<"text">> >>
      <4> HIDE DEF told, text, asked
      <4>1. b = <<>> \o << <<"text">> >>
        BY <2>3, <3>1
      <4> QED BY <1>5, <3>1, <4>1, ConcatEmptySeq
    <3>3. b # <<>> /\ {b[k][2] : k \in {k \in DOMAIN b : b[k][1] = "tool_result"}} = {}
      <4> HIDE DEF b
      <4> QED BY <3>2
    <3> QED BY <1>2, <1>8, <3>1, <3>3 DEF Blocks
  <2>5. CASE ~m.text
    <3>1. text = <<>> /\ m.results # <<>>
      BY <2>1, <2>5
    <3> HIDE DEF told, text, asked
    <3>2. b = told
      BY <1>3, <2>3, <3>1, ConcatEmptySeq
    <3>3. b # <<>>
      BY <1>1, <1>3, <3>1, <3>2
    <3>4. {b[k][2] : k \in {k \in DOMAIN b : b[k][1] = "tool_result"}} = {m.results[k].id : k \in DOMAIN m.results}
      <4> HIDE DEF b
      <4>1. \A k \in DOMAIN b : b[k][1] = "tool_result" /\ b[k][2] = m.results[k].id
        BY <1>3, <3>2
      <4>2. DOMAIN b = DOMAIN m.results
        BY <1>6, <3>2
      <4> QED BY <4>1, <4>2
    <3> QED BY <1>2, <1>8, <3>3, <3>4 DEF Blocks
  <2> QED BY <1>1, <2>4, <2>5
<1> QED BY <1>1, <1>7, <1>8

LEMMA AnthropicIs ==
  ASSUME NEW ms \in Seq(Messages), Shaped(ms), AllAnswered(ms)
  PROVE  AnthropicAccepts(ToAnthropic(ms))
<1> DEFINE out == ToAnthropic(ms)
<1>1. DOMAIN out = 1..Len(ms) /\ DOMAIN ms = 1..Len(ms) /\ Len(ms) \in Nat /\ Len(ms) > 0 /\ \A i \in 1..Len(ms) : out[i] = Anthropic(ms[i])
  BY DEF ToAnthropic, Shaped
<1> HIDE DEF out
<1>2. \A i \in 1..Len(ms) : ShapeOf(ms[i]) /\ ms[i] \in Messages /\ ms[i].role \in {"user", "assistant"}
  <2>1. \A i \in 1..Len(ms) : ms[i] \in Messages
    OBVIOUS
  <2> QED BY <1>1, <2>1 DEF Shaped, Messages
<1>3. \A i \in 1..Len(ms) : out[i].role = ms[i].role /\ out[i].blocks # <<>>
  BY <1>1, <1>2, TurnBlocks
<1>4. out[1].role = "user"
  <2>1. 1 \in 1..Len(ms)
    BY <1>1
  <2> QED BY <1>3, <2>1 DEF Shaped
<1>5. ASSUME NEW i \in DOMAIN out, out[i].role = "assistant"
      PROVE  i + 1 \in DOMAIN out /\ Blocks(out[i + 1], "tool_result") = Blocks(out[i], "tool_use")
  <2>1. i \in 1..Len(ms) /\ ms[i].role = "assistant"
    BY <1>1, <1>3, <1>5
  <2>2. i < Len(ms) /\ ms[i].calls = Ids(ms[i + 1].results)
    BY <1>1, <2>1 DEF AllAnswered, Answered
  <2> DEFINE j == i + 1
  <2>3. j \in 1..Len(ms) /\ ms[i].calls = Ids(ms[j].results)
    BY <1>1, <2>1, <2>2
  <2>4. ms[i].calls # <<>>
    BY <1>2, <2>1 DEF ShapeOf
  <2> HIDE DEF j
  <2>5. ms[j].results # <<>>
    <3>1. ms[j].results = <<>> => Ids(ms[j].results) = <<>>
      BY DEF Ids
    <3> QED BY <2>3, <2>4, <3>1
  <2>6. ms[j].role = "user"
    BY <1>2, <2>3, <2>5 DEF ShapeOf
  <2>7. Blocks(out[j], "tool_result") = {ms[j].results[k].id : k \in DOMAIN ms[j].results}
    BY <1>1, <1>2, <2>3, <2>6, TurnBlocks
  <2>8. Blocks(out[i], "tool_use") = {ms[i].calls[k] : k \in DOMAIN ms[i].calls}
    BY <1>1, <1>2, <2>1, TurnBlocks
  <2>9. DOMAIN ms[i].calls = DOMAIN ms[j].results /\ \A k \in DOMAIN ms[j].results : ms[i].calls[k] = ms[j].results[k].id
    BY <2>3 DEF Ids
  <2>10. Blocks(out[j], "tool_result") = Blocks(out[i], "tool_use")
    <3> DEFINE R == ms[j].results
                C == ms[i].calls
    <3>1. DOMAIN C = DOMAIN R /\ \A k \in DOMAIN R : C[k] = R[k].id
      BY <2>9
    <3> HIDE DEF R, C
    <3>2. {R[k].id : k \in DOMAIN R} = {C[k] : k \in DOMAIN C}
      BY <3>1, Zenon
    <3> QED BY <2>7, <2>8, <3>2, Zenon DEF R, C
  <2> QED BY <1>1, <2>3, <2>10 DEF j
<1>6. ASSUME NEW i \in DOMAIN out, Blocks(out[i], "tool_result") # {} PROVE i > 1 /\ out[i - 1].role = "assistant"
  <2>1. i \in 1..Len(ms)
    BY <1>1
  <2>2. ms[i].role = "user" /\ {ms[i].results[k].id : k \in DOMAIN ms[i].results} # {}
    BY <1>1, <1>2, <1>6, <2>1, TurnBlocks
  <2>3. ms[i].results # <<>>
    BY <2>2
  <2>4. i > 1 /\ ms[i - 1].role = "assistant"
    BY <1>1, <2>1, <2>3 DEF Shaped
  <2>5. i - 1 \in 1..Len(ms)
    BY <1>1, <2>1, <2>4
  <2> QED BY <1>3, <2>4, <2>5
<1>7. AnthropicAccepts(out)
  BY <1>1, <1>3, <1>4, <1>5, <1>6 DEF AnthropicAccepts
<1> QED BY <1>7 DEF out

LEMMA ShapedGrows ==
  ASSUME NEW ms \in Seq(Messages), Shaped(ms), NEW m \in Messages, ShapeOf(m),
         m.results # <<>> => ms[Len(ms)].role = "assistant"
  PROVE  Shaped(Append(ms, m))
<1> DEFINE mm == Append(ms, m)
<1>1. mm \in Seq(Messages) /\ Len(mm) = Len(ms) + 1 /\ mm[Len(ms) + 1] = m /\ \A i \in DOMAIN ms : mm[i] = ms[i]
  BY Grown
<1>2. DOMAIN ms = 1..Len(ms) /\ Len(ms) \in Nat /\ Len(ms) > 0
  BY DEF Shaped
<1> HIDE DEF mm
<1>3. DOMAIN mm = 1..(Len(ms) + 1)
  BY <1>1
<1>4. mm[1].role = "user"
  BY <1>1, <1>2 DEF Shaped
<1>5. ASSUME NEW i \in DOMAIN mm PROVE ShapeOf(mm[i]) /\ (mm[i].results # <<>> => i > 1 /\ mm[i - 1].role = "assistant")
  <2>1. CASE i = Len(ms) + 1
    <3>1. mm[i] = m /\ i > 1 /\ i - 1 = Len(ms) /\ Len(ms) \in DOMAIN ms
      BY <1>1, <1>2, <2>1
    <3>2. mm[i - 1] = ms[Len(ms)]
      BY <1>1, <3>1
    <3> QED BY <3>1, <3>2
  <2>2. CASE i # Len(ms) + 1
    <3>1. i \in DOMAIN ms /\ mm[i] = ms[i]
      BY <1>1, <1>2, <1>3, <2>2
    <3>2. ShapeOf(ms[i]) /\ (ms[i].results # <<>> => i > 1 /\ ms[i - 1].role = "assistant")
      BY <3>1 DEF Shaped
    <3>3. i > 1 => i - 1 \in DOMAIN ms
      BY <1>2, <3>1
    <3> QED BY <1>1, <3>1, <3>2, <3>3
  <2> QED BY <2>1, <2>2
<1>6. Shaped(mm)
  BY <1>1, <1>2, <1>4, <1>5 DEF Shaped
<1> QED BY <1>6 DEF mm

LEMMA NudgeShape == ShapeOf(User(TRUE, <<>>)) /\ OpenAI(User(TRUE, <<>>)) = <<[role |-> "user"]>>
<1>1. ShapeOf(User(TRUE, <<>>)) /\ User(TRUE, <<>>).role = "user" /\ User(TRUE, <<>>).text
  BY DEF ShapeOf, User
<1> QED BY <1>1, Nudge, TurnSent

\* A text of the user joins a conversation that is accepted.
LEMMA TextGrows ==
  ASSUME NEW ms \in Seq(Messages), Shaped(ms), OpenAIAccepts(ToOpenAI(ms))
  PROVE  Shaped(Append(ms, User(TRUE, <<>>))) /\ OpenAIAccepts(ToOpenAI(Append(ms, User(TRUE, <<>>))))
<1>1. User(TRUE, <<>>) \in Messages /\ ShapeOf(User(TRUE, <<>>)) /\ User(TRUE, <<>>).results = <<>>
  BY Nudge, NudgeShape DEF User
<1>2. Shaped(Append(ms, User(TRUE, <<>>)))
  BY <1>1, ShapedGrows
<1>3. \A i \in DOMAIN ms : ShapeOf(ms[i])
  BY DEF Shaped
<1>4. /\ ToOpenAI(ms) \in Seq(Sent)
      /\ ToOpenAI(Append(ms, User(TRUE, <<>>))) = ToOpenAI(ms) \o <<[role |-> "user"]>>
  BY <1>1, <1>3, SentGrows, NudgeShape
<1> QED BY <1>2, <1>4, AcceptsText

LEMMA InitAccepted == Init => AcceptInv
<1> SUFFICES ASSUME Init PROVE AcceptInv
  OBVIOUS
<1> DEFINE m == User(TRUE, <<>>)
<1>1. messages = <<m>> /\ pc # "execute"
  BY DEF Init
<1>2. m \in Messages /\ ShapeOf(m) /\ m.role = "user" /\ m.results = <<>>
  BY Nudge, NudgeShape DEF User
<1>3. OpenAI(m) = <<[role |-> "user"]>>
  BY NudgeShape
<1> HIDE DEF m
<1>4. Shaped(messages)
  <2>1. DOMAIN messages = {1} /\ Len(messages) = 1 /\ messages[1] = m
    BY <1>1
  <2> QED BY <1>2, <2>1 DEF Shaped
<1>5. <<>> \in Seq(Messages) /\ <<m>> = Append(<<>>, m) /\ \A i \in DOMAIN <<>> : ShapeOf(<<>>[i])
  BY <1>2
<1>6. ToOpenAI(<<>>) \in Seq(Sent) /\ ToOpenAI(<<m>>) = ToOpenAI(<<>>) \o <<[role |-> "user"]>>
  BY <1>2, <1>3, <1>5, SentGrows
<1>7. OpenAIAccepts(ToOpenAI(<<>>))
  <2>1. [i \in DOMAIN <<>> |-> OpenAI(<<>>[i])] = <<>>
    OBVIOUS
  <2>2. ToOpenAI(<<>>) = << [role |-> "system"] >> \o <<>>
    BY <2>1, FlattenNothing DEF ToOpenAI
  <2>3. ToOpenAI(<<>>) = << [role |-> "system"] >>
    BY <2>2
  <2>4. DOMAIN << [role |-> "system"] >> = {1} /\ << [role |-> "system"] >>[1].role = "system"
    OBVIOUS
  <2>5. OpenAIAccepts(<< [role |-> "system"] >>)
    BY <2>4 DEF OpenAIAccepts
  <2> QED BY <2>3, <2>5
<1>8. OpenAIAccepts(ToOpenAI(<<m>>))
  BY <1>6, <1>7, AcceptsText
<1> QED BY <1>1, <1>4, <1>8 DEF AcceptInv, SentInv

LEMMA CallsJoin ==
  ASSUME LoopInv, LoopInv', AcceptInv, ToolTurn
  PROVE  AcceptInv'
<1> DEFINE c == Ids(calls')
           m == Assistant(c)
           o == ToOpenAI(messages)
<1>1. pc = "call" /\ pc' = "execute" /\ messages' = Append(messages, m) /\ messages \in Seq(Messages)
  BY DEF ToolTurn, LoopInv, ConversationOK
<1>2. calls' \in Seq(Calls) /\ Len(calls') > 0
  <2>1. calls' \in Seq(Calls)
    BY DEF LoopInv, ConversationOK
  <2>2. PICK n \in 1..MaxCalls : \E ws \in [1..n -> Wishes] :
          calls' = [k \in 1..n |-> [id |-> <<round', k>>, tool |-> ws[k].tool, names |-> ws[k].names]]
    BY DEF ToolTurn
  <2>3. DOMAIN calls' = 1..n /\ n > 0 /\ n \in Nat
    BY <2>2, LimitsAssumption
  <2> QED BY <2>1, <2>3
<1>3. c \in Seq(CallIds) /\ c # <<>>
  <2>1. \A k \in DOMAIN calls' : calls'[k] \in Calls
    BY <1>2
  <2>2. \A k \in DOMAIN calls' : calls'[k].id \in CallIds
    BY <2>1 DEF Calls
  <2>3. DOMAIN calls' = 1..Len(calls') /\ Len(calls') \in Nat
    BY <1>2
  <2>4. c \in Seq(CallIds) /\ 1 \in DOMAIN c
    BY <1>2, <2>2, <2>3 DEF Ids
  <2> QED BY <2>4
<1> HIDE DEF c
<1>4. m \in Messages /\ m.role = "assistant" /\ m.calls = c /\ m.results = <<>> /\ ShapeOf(m)
  <2>1. <<>> \in Seq(Results)
    OBVIOUS
  <2> QED BY <1>3, <2>1 DEF Assistant, Messages, ShapeOf
<1> HIDE DEF m
<1>5. Shaped(messages) /\ \A i \in DOMAIN messages : ShapeOf(messages[i])
  BY DEF AcceptInv, Shaped
<1>6. Shaped(messages')
  BY <1>1, <1>4, <1>5, ShapedGrows
<1>7. OpenAI(m) = <<Asks(c)>>
  BY <1>4, TurnSent
<1>8. o \in Seq(Sent) /\ ToOpenAI(messages') = o \o <<Asks(c)>>
  BY <1>1, <1>4, <1>5, <1>7, SentGrows
<1>9. OpenAIAccepts(o)
  BY <1>1 DEF AcceptInv, SentInv
<1> HIDE DEF o
<1>10. Asks(c) \in Sent
  BY <1>3 DEF Asks, Sent
<1>11. ToOpenAI(messages') = Append(o, Asks(c))
  BY <1>8, <1>10, AppendIsConcat
<1> QED BY <1>1, <1>6, <1>8, <1>9, <1>11 DEF AcceptInv, SentInv, c

\* When all calls of a turn are answered, the conversation is accepted again.
LEMMA ResultsJoin ==
  ASSUME LoopInv, AcceptInv, TurnDone
  PROVE  /\ Append(messages, User(FALSE, results)) \in Seq(Messages)
         /\ Shaped(Append(messages, User(FALSE, results)))
         /\ OpenAIAccepts(ToOpenAI(Append(messages, User(FALSE, results))))
<1> DEFINE m == User(FALSE, results)
           c == Ids(calls)
<1>1. /\ pc = "execute" /\ messages \in Seq(Messages) /\ results \in Seq(Results) /\ calls \in Seq(Calls) /\ Len(results) = Len(calls)
      /\ m \in Messages /\ Append(messages, m) \in Seq(Messages)
  BY TurnAnswered DEF LoopInv, ConversationOK, TurnDone
<1>2. Shaped(messages) /\ Len(messages) \in DOMAIN messages /\ \A i \in DOMAIN messages : ShapeOf(messages[i])
  <2>1. Shaped(messages)
    BY DEF AcceptInv
  <2>2. Len(messages) > 0 /\ Len(messages) \in Nat /\ DOMAIN messages = 1..Len(messages)
    BY <1>1, <2>1 DEF Shaped
  <2> QED BY <2>1, <2>2 DEF Shaped
<1>3. messages[Len(messages)].role = "assistant" /\ messages[Len(messages)].calls = c
  <2>1. messages[Len(messages)].role = "assistant"
    BY <1>1 DEF LoopInv, Paired
  <2>2. Len(messages) \in Nat /\ ~(Len(messages) < Len(messages))
    BY <1>1
  <2> QED BY <1>1, <1>2, <2>1, <2>2 DEF LoopInv, Paired
<1>4. Len(calls) > 0
  <2>1. c # <<>>
    BY <1>2, <1>3 DEF ShapeOf
  <2>2. calls = <<>> => c = <<>>
    BY DEF Ids
  <2> QED BY <1>1, <2>1, <2>2
<1>5. Ids(results) = c
  <2>1. DOMAIN calls = DOMAIN results /\ \A k \in DOMAIN results : results[k].id = calls[k].id
    BY <1>1 DEF LoopInv, Paired
  <2> QED BY <2>1 DEF Ids
<1>6. m.role = "user" /\ ~m.text /\ m.results = results /\ m.calls = <<>> /\ results # <<>>
  BY <1>1, <1>4 DEF User
<1> HIDE DEF c, m
<1>7. ShapeOf(m)
  BY <1>6 DEF ShapeOf
<1>8. Shaped(Append(messages, m))
  BY <1>1, <1>2, <1>3, <1>7, ShapedGrows
<1>9. OpenAI(m) = Answers(c) /\ c \in Seq(CallIds)
  BY <1>1, <1>5, <1>6, <1>7, TurnSent
<1>10. ToOpenAI(Append(messages, m)) = ToOpenAI(messages) \o Answers(c)
  BY <1>1, <1>2, <1>7, <1>9, SentGrows
<1>11. PICK o \in Seq(Sent) : OpenAIAccepts(o) /\ ToOpenAI(messages) = Append(o, Asks(c))
  BY <1>1 DEF AcceptInv, SentInv, c
<1>12. OpenAIAccepts(ToOpenAI(Append(messages, m)))
  BY <1>9, <1>10, <1>11, AcceptsTurn
<1> QED BY <1>1, <1>8, <1>12 DEF m

LEMMA AcceptStep == LoopInv /\ LoopInv' /\ AcceptInv /\ [Next]_vars => AcceptInv'
<1> SUFFICES ASSUME LoopInv, LoopInv', AcceptInv, [Next]_vars PROVE AcceptInv'
  OBVIOUS
<1>1. messages \in Seq(Messages) /\ Shaped(messages)
  BY DEF LoopInv, ConversationOK, AcceptInv
<1>2. ASSUME messages' = messages, calls' = calls, pc' = "execute" <=> pc = "execute" PROVE AcceptInv'
  <2>1. Shaped(messages')
    BY <1>1, <1>2
  <2>2. Ids(calls') = Ids(calls)
    BY <1>2
  <2>3. SentInv'
    <3>1. CASE pc = "execute"
      <4>1. PICK o \in Seq(Sent) : OpenAIAccepts(o) /\ ToOpenAI(messages) = Append(o, Asks(Ids(calls)))
        BY <3>1 DEF AcceptInv, SentInv
      <4> QED BY <1>2, <2>2, <3>1, <4>1 DEF SentInv
    <3>2. CASE pc # "execute"
      BY <1>2, <3>2 DEF AcceptInv, SentInv
    <3> QED BY <3>1, <3>2
  <2> QED BY <2>1, <2>3 DEF AcceptInv
<1>3. CASE UNCHANGED vars
  <2>1. messages' = messages /\ calls' = calls /\ (pc' = "execute" <=> pc = "execute")
    BY <1>3 DEF vars
  <2> QED BY <1>2, <2>1
<1>4. CASE ProviderFails \/ EnoughSeen \/ AgentAnswers \/ Conclude
  <2>1. messages' = messages /\ calls' = calls /\ (pc' = "execute" <=> pc = "execute")
    BY <1>4 DEF ProviderFails, EnoughSeen, AgentAnswers, Conclude
  <2> QED BY <1>2, <2>1
<1>5. CASE Refuse \/ Details \/ RunQuery
  <2>1. messages' = messages /\ calls' = calls /\ (pc' = "execute" <=> pc = "execute")
    BY <1>5 DEF Refuse, Details, RunQuery, Answer
  <2> QED BY <1>2, <2>1
<1>6. CASE ToolTurn
  BY <1>6, CallsJoin
<1>7. CASE AgentSaysNothing
  <2>1. pc = "call" /\ pc' = "force" /\ messages' = Append(messages, User(TRUE, <<>>))
    BY <1>7 DEF AgentSaysNothing
  <2>2. OpenAIAccepts(ToOpenAI(messages))
    BY <2>1 DEF AcceptInv, SentInv
  <2>3. Shaped(messages') /\ OpenAIAccepts(ToOpenAI(messages'))
    BY <1>1, <2>1, <2>2, TextGrows
  <2> QED BY <2>1, <2>3 DEF AcceptInv, SentInv
<1>8. CASE AgentTurnEnds \/ AskTurnEnds
  <2> DEFINE ms == Append(messages, User(FALSE, results))
  <2>1. TurnDone /\ pc' # "execute"
    BY <1>8 DEF AgentTurnEnds, AskTurnEnds
  <2>2. ms \in Seq(Messages) /\ Shaped(ms) /\ OpenAIAccepts(ToOpenAI(ms))
    BY <2>1, ResultsJoin
  <2>3. messages' = ms \/ messages' = Append(ms, User(TRUE, <<>>))
    <3>1. messages' = ms \/ messages' = messages \o <<User(FALSE, results), User(TRUE, <<>>)>>
      BY <1>8 DEF AgentTurnEnds, AskTurnEnds
    <3>2. User(FALSE, results) \in Messages
      BY <2>1, TurnAnswered DEF LoopInv
    <3>3. messages \o <<User(FALSE, results), User(TRUE, <<>>)>> = Append(ms, User(TRUE, <<>>))
      BY <1>1, <3>2, Nudge, TwoMore
    <3> QED BY <3>1, <3>3
  <2> HIDE DEF ms
  <2>4. Shaped(messages') /\ OpenAIAccepts(ToOpenAI(messages'))
    BY <2>2, <2>3, TextGrows
  <2> QED BY <2>1, <2>4 DEF AcceptInv, SentInv
<1> QED BY <1>3, <1>4, <1>5, <1>6, <1>7, <1>8 DEF Next, Step, Returned

\* Whichever loop runs, whatever the model calls, says or leaves unsaid and
\* whichever limit is hit in between, the conversation a provider is called with
\* is well-formed for OpenAI and for Anthropic (_to_openai_messages and
\* _to_anthropic_messages over the loops of discover.py, ask_analysis.py and agent.py).
THEOREM ConversationIsAccepted == Spec => []AcceptedByProviders
<1>1. LoopInv /\ AcceptInv => AcceptedByProviders
  <2> SUFFICES ASSUME LoopInv, AcceptInv, pc \in {"call", "force"}
               PROVE  OpenAIAccepts(ToOpenAI(messages)) /\ AnthropicAccepts(ToAnthropic(messages))
    BY DEF AcceptedByProviders
  <2>1. messages \in Seq(Messages) /\ Shaped(messages) /\ AllAnswered(messages)
    BY PairedIdle DEF LoopInv, ConversationOK, AcceptInv
  <2> QED BY <2>1, AnthropicIs DEF AcceptInv, SentInv
<1> QED BY <1>1, InitAccepted, AcceptStep, LoopHolds, PTL DEF Spec

-----------------------------------------------------------------------------
(* The tables of a snapshot, in its order.                                 *)

LEMMA GreatestNumber ==
  ASSUME NEW n \in Nat, NEW F, F \subseteq 1..n, F # {}
  PROVE  \E m \in F : \A k \in F : k <= m
<1> DEFINE back == {n + 1 - k : k \in F}
<1>1. back \subseteq 1..n /\ back # {}
  <2>1. \A k \in F : n + 1 - k \in 1..n
    OBVIOUS
  <2> QED BY <2>1
<1>2. PICK b \in back : \A k \in back : b <= k
  BY <1>1, LeastNumber
<1>3. PICK m \in F : b = n + 1 - m
  OBVIOUS
<1>4. ASSUME NEW k \in F PROVE k <= m
  <2>1. n + 1 - k \in back
    OBVIOUS
  <2>2. b <= n + 1 - k /\ k \in 1..n /\ m \in 1..n
    BY <1>2, <2>1
  <2> QED BY <1>3, <2>2
<1> QED BY <1>4

NamesIn(ts, n) == {Qualified(ts[i]) : i \in 1..n}

LEMMA SnapshotIs ==
  ASSUME NEW ts \in Snapshots
  PROVE  /\ Len(ts) \in Nat /\ DOMAIN ts = 1..Len(ts) /\ ts \in Seq({ts[i] : i \in DOMAIN ts})
         /\ \A i, j \in DOMAIN ts : Qualified(ts[i]) = Qualified(ts[j]) => i = j
<1>1. ts \in Seq({ts[i] : i \in DOMAIN ts})
  BY SnapshotsAssumption
<1>2. ASSUME NEW i \in DOMAIN ts, NEW j \in DOMAIN ts, Qualified(ts[i]) = Qualified(ts[j]) PROVE i = j
  <2>1. ts[i].schema = ts[j].schema /\ ts[i].name = ts[j].name
    <3>1. \A a, b, c : <<a>> # <<b, c>>
      OBVIOUS
    <3>2. CASE ts[i].schema = "public"
      <4>1. ts[j].schema = "public"
        BY <1>2, <3>1, <3>2 DEF Qualified
      <4> QED BY <1>2, <3>2, <4>1 DEF Qualified
    <3>3. CASE ts[i].schema # "public"
      <4>1. ts[j].schema # "public"
        BY <1>2, <3>1, <3>3 DEF Qualified
      <4> QED BY <1>2, <3>3, <4>1 DEF Qualified
    <3> QED BY <3>2, <3>3
  <2> QED BY <2>1, SnapshotsAssumption
<1> QED BY <1>1, <1>2

\* Every name in the lookup is a table's.
LEMMA LookupFinds ==
  ASSUME NEW ts \in Snapshots, NEW n \in DOMAIN Lookup(ts)
  PROVE  Qualified(Lookup(ts)[n]) \in NamesIn(ts, Len(ts))
<1> DEFINE has == {i \in DOMAIN ts : n \in NamesOf(ts[i])}
           last == CHOOSE i \in DOMAIN ts : n \in NamesOf(ts[i]) /\ \A j \in DOMAIN ts : n \in NamesOf(ts[j]) => j <= i
<1>1. Len(ts) \in Nat /\ DOMAIN ts = 1..Len(ts)
  BY SnapshotIs
<1>2. has # {} /\ has \subseteq 1..Len(ts)
  BY <1>1 DEF Lookup
<1>3. \E i \in has : \A j \in has : j <= i
  BY <1>1, <1>2, GreatestNumber
<1>4. \E i \in DOMAIN ts : n \in NamesOf(ts[i]) /\ \A j \in DOMAIN ts : n \in NamesOf(ts[j]) => j <= i
  BY <1>3
<1>5. last \in DOMAIN ts
  BY <1>4
<1>6. Lookup(ts)[n] = ts[last]
  BY DEF Lookup
<1> HIDE DEF last
<1> QED BY <1>1, <1>5, <1>6 DEF NamesIn

\* The positions of the tables with these names.
Named(ts, keys) == {i \in DOMAIN ts : Qualified(ts[i]) \in keys}

\* What InSnapshotOrder chooses: the tables kept of the first i.
KeptTo(ts, keys, n, f) ==
  f = [i \in 0..n |-> IF i = 0 THEN <<>>
                      ELSE IF i \in Named(ts, keys) THEN Append(f[i - 1], ts[i]) ELSE f[i - 1]]

LEMMA KeptGrow ==
  ASSUME NEW ts, NEW keys, NEW n \in Nat, NEW f, KeptTo(ts, keys, n, f)
  PROVE  \E g : KeptTo(ts, keys, n + 1, g)
<1> DEFINE next == IF n + 1 \in Named(ts, keys) THEN Append(f[n], ts[n + 1]) ELSE f[n]
           g == [i \in 0..(n + 1) |-> IF i = n + 1 THEN next ELSE f[i]]
<1>1. ASSUME NEW i \in 0..(n + 1)
      PROVE  g[i] = (IF i = 0 THEN <<>> ELSE IF i \in Named(ts, keys) THEN Append(g[i - 1], ts[i]) ELSE g[i - 1])
  <2>1. CASE i = n + 1
    <3>1. i # 0 /\ i - 1 = n /\ n \in 0..(n + 1) /\ n # n + 1
      BY <2>1
    <3>2. g[i] = next /\ g[i - 1] = f[n]
      BY <2>1, <3>1
    <3> QED BY <2>1, <3>1, <3>2
  <2>2. CASE i # n + 1
    <3>1. i \in 0..n /\ (i # 0 => i - 1 \in 0..n)
      BY <2>2
    <3>2. g[i] = f[i] /\ (i # 0 => g[i - 1] = f[i - 1])
      BY <2>2, <3>1
    <3>3. f[i] = (IF i = 0 THEN <<>> ELSE IF i \in Named(ts, keys) THEN Append(f[i - 1], ts[i]) ELSE f[i - 1])
      BY <3>1 DEF KeptTo
    <3> QED BY <3>2, <3>3
  <2> QED BY <2>1, <2>2
<1>2. g = [i \in 0..(n + 1) |-> g[i]]
  OBVIOUS
<1> HIDE DEF g
<1>3. g = [i \in 0..(n + 1) |-> IF i = 0 THEN <<>> ELSE IF i \in Named(ts, keys) THEN Append(g[i - 1], ts[i]) ELSE g[i - 1]]
  BY <1>1, <1>2
<1> QED BY <1>3 DEF KeptTo

LEMMA KeptExist ==
  ASSUME NEW ts, NEW keys, NEW n \in Nat
  PROVE  \E f : KeptTo(ts, keys, n, f)
<1> DEFINE bad == {i \in 1..n : ~\E f : KeptTo(ts, keys, i, f)}
<1>1. \E f : KeptTo(ts, keys, 0, f)
  <2> DEFINE f == [i \in 0..0 |-> <<>>]
  <2>1. \A i \in 0..0 : i = 0
    OBVIOUS
  <2>2. KeptTo(ts, keys, 0, f)
    BY <2>1 DEF KeptTo
  <2> QED BY <2>2
<1>2. SUFFICES ASSUME bad # {} PROVE FALSE
  BY <1>1
<1>3. PICK m \in bad : \A i \in bad : m <= i
  BY <1>2, LeastNumber
<1>4. m \in 1..n /\ ~(\E f : KeptTo(ts, keys, m, f)) /\ m - 1 \in Nat
  OBVIOUS
<1>5. \E f : KeptTo(ts, keys, m - 1, f)
  <2>1. CASE m = 1
    BY <1>1, <2>1
  <2>2. CASE m # 1
    <3>1. m - 1 \in 1..n /\ m - 1 < m
      BY <1>4, <2>2
    <3> QED BY <1>3, <3>1
  <2> QED BY <2>1, <2>2
<1>6. m - 1 + 1 = m
  BY <1>4
<1> QED BY <1>4, <1>5, <1>6, KeptGrow

\* The tables kept of the first n are those with the names asked for, each once.
KeptRight(ts, keys, n, s) ==
  /\ s \in Seq({ts[i] : i \in DOMAIN ts})
  /\ {Qualified(s[i]) : i \in DOMAIN s} = NamesIn(ts, n) \cap keys
  /\ IsFiniteSet(NamesIn(ts, n) \cap keys) /\ Len(s) = Cardinality(NamesIn(ts, n) \cap keys)

LEMMA KeptOneMore ==
  ASSUME NEW ts \in Snapshots, NEW keys, NEW n \in 1..Len(ts), NEW s, KeptRight(ts, keys, n - 1, s)
  PROVE  /\ Qualified(ts[n]) \in keys => KeptRight(ts, keys, n, Append(s, ts[n]))
         /\ Qualified(ts[n]) \notin keys => KeptRight(ts, keys, n, s)
<1> DEFINE q == Qualified(ts[n])
           old == NamesIn(ts, n - 1) \cap keys
           new == NamesIn(ts, n) \cap keys
<1>1. Len(ts) \in Nat /\ DOMAIN ts = 1..Len(ts) /\ \A i, j \in DOMAIN ts : Qualified(ts[i]) = Qualified(ts[j]) => i = j
  BY SnapshotIs
<1>2. 1..n = (1..(n - 1)) \cup {n} /\ n \notin 1..(n - 1) /\ 1..n \subseteq DOMAIN ts
  BY <1>1
<1>3. NamesIn(ts, n) = NamesIn(ts, n - 1) \cup {q} /\ q \notin NamesIn(ts, n - 1)
  <2>1. NamesIn(ts, n) = NamesIn(ts, n - 1) \cup {q}
    BY <1>2 DEF NamesIn
  <2>2. q \notin NamesIn(ts, n - 1)
    BY <1>1, <1>2 DEF NamesIn
  <2> QED BY <2>1, <2>2
<1>4. s \in Seq({ts[i] : i \in DOMAIN ts}) /\ {Qualified(s[i]) : i \in DOMAIN s} = old /\ IsFiniteSet(old) /\ Len(s) = Cardinality(old)
  BY DEF KeptRight
<1>5. ASSUME q \in keys PROVE KeptRight(ts, keys, n, Append(s, ts[n]))
  <2> DEFINE t == Append(s, ts[n])
             All == {ts[i] : i \in DOMAIN ts}
  <2>1. new = old \cup {q} /\ q \notin old
    BY <1>3, <1>5
  <2>2. IsFiniteSet(new) /\ Cardinality(new) = Cardinality(old) + 1
    <3>1. IsFiniteSet(old) /\ new = old \cup {q} /\ q \notin old
      BY <1>4, <2>1
    <3> HIDE DEF old, new, q
    <3> QED BY ONLY <3>1, FS_AddElement
  <2>3. ts[n] \in All
    BY <1>2
  <2> HIDE DEF All
  <2>4. t \in Seq(All) /\ Len(t) = Len(s) + 1
    <3>1. s \in Seq(All)
      BY <1>4 DEF All
    <3> QED BY <2>3, <3>1, AppendProperties
  <2>5. t[Len(s) + 1] = ts[n] /\ \A i \in 1..Len(s) : t[i] = s[i]
    <3>1. s \in Seq(All)
      BY <1>4 DEF All
    <3> QED BY <2>3, <3>1, AppendProperties
  <2>6. {Qualified(t[i]) : i \in DOMAIN t} = new
    <3> HIDE DEF t, old, new
    <3>1. Len(s) \in Nat /\ DOMAIN s = 1..Len(s) /\ DOMAIN t = 1..(Len(s) + 1)
      BY <1>4, <2>4
    <3>2. ASSUME NEW i \in DOMAIN t PROVE Qualified(t[i]) \in new
      <4>1. CASE i = Len(s) + 1
        BY <2>1, <2>5, <4>1
      <4>2. CASE i # Len(s) + 1
        <5>1. i \in 1..Len(s)
          BY <3>1, <4>2
        <5>2. Qualified(s[i]) \in old
          BY <1>4, <3>1, <5>1
        <5> QED BY <2>1, <2>5, <5>1, <5>2
      <4> QED BY <4>1, <4>2
    <3>3. ASSUME NEW x \in new PROVE \E i \in DOMAIN t : x = Qualified(t[i])
      <4>1. CASE x = q
        <5>1. Len(s) + 1 \in DOMAIN t /\ x = Qualified(t[Len(s) + 1])
          BY <2>5, <3>1, <4>1
        <5> QED BY <5>1
      <4>2. CASE x \in old
        <5>1. PICK i \in DOMAIN s : x = Qualified(s[i])
          BY <1>4, <4>2
        <5>2. i \in DOMAIN t /\ t[i] = s[i]
          BY <2>5, <3>1
        <5> QED BY <5>1, <5>2
      <4> QED BY <2>1, <4>1, <4>2
    <3> QED BY <3>2, <3>3
  <2>7. Len(t) = Cardinality(new)
    BY <1>4, <2>2, <2>4
  <2> QED BY <2>2, <2>4, <2>6, <2>7 DEF KeptRight, All
<1>6. ASSUME q \notin keys PROVE KeptRight(ts, keys, n, s)
  <2>1. new = old
    BY <1>3, <1>6
  <2> QED BY <1>4, <2>1 DEF KeptRight
<1> QED BY <1>5, <1>6

LEMMA InSnapshotOrderIs ==
  ASSUME NEW ts \in Snapshots, NEW keys, keys \subseteq NamesIn(ts, Len(ts))
  PROVE  /\ {Qualified(InSnapshotOrder(ts, keys)[i]) : i \in DOMAIN InSnapshotOrder(ts, keys)} = keys
         /\ Len(InSnapshotOrder(ts, keys)) = Cardinality(keys)
<1> DEFINE n == Len(ts)
           kept == CHOOSE f : KeptTo(ts, keys, n, f)
           bad == {i \in 1..n : ~KeptRight(ts, keys, i, kept[i])}
<1>1. n \in Nat /\ DOMAIN ts = 1..n
  BY SnapshotIs
<1>2. KeptTo(ts, keys, n, kept)
  BY <1>1, KeptExist
<1>3. InSnapshotOrder(ts, keys) = kept[n]
  BY DEF InSnapshotOrder, ElementsAt, Named, KeptTo
<1> HIDE DEF kept
<1>4. KeptRight(ts, keys, 0, kept[0])
  <2>1. 0 \in 0..n
    BY <1>1
  <2>2. kept[0] = <<>>
    BY <1>2, <2>1 DEF KeptTo
  <2>3. NamesIn(ts, 0) = {}
    BY DEF NamesIn
  <2>4. IsFiniteSet({}) /\ Cardinality({}) = 0
    BY FS_EmptySet
  <2>5. <<>> \in Seq({ts[i] : i \in DOMAIN ts}) /\ Len(<<>>) = 0 /\ DOMAIN <<>> = {}
    OBVIOUS
  <2> QED BY <2>2, <2>3, <2>4, <2>5 DEF KeptRight
<1>5. ASSUME bad # {} PROVE FALSE
  <2>1. PICK m \in bad : \A i \in bad : m <= i
    BY <1>1, <1>5, LeastNumber
  <2>2. m \in 1..n /\ m \in 0..n /\ m # 0 /\ ~KeptRight(ts, keys, m, kept[m])
    BY <1>1
  <2>3. KeptRight(ts, keys, m - 1, kept[m - 1])
    <3>1. CASE m = 1
      BY <1>4, <3>1
    <3>2. CASE m # 1
      <4>1. m - 1 \in 1..n /\ m - 1 < m
        BY <1>1, <2>2, <3>2
      <4> QED BY <2>1, <4>1
    <3> QED BY <3>1, <3>2
  <2>4. kept[m] = IF Qualified(ts[m]) \in keys THEN Append(kept[m - 1], ts[m]) ELSE kept[m - 1]
    BY <1>1, <1>2, <2>2 DEF KeptTo, Named
  <2> QED BY <2>2, <2>3, <2>4, KeptOneMore
<1>6. KeptRight(ts, keys, n, kept[n])
  <2>1. n = 0 \/ n \in 1..n
    BY <1>1
  <2> QED BY <1>4, <1>5, <2>1
<1>7. NamesIn(ts, n) \cap keys = keys
  OBVIOUS
<1> QED BY <1>3, <1>6, <1>7 DEF KeptRight

-----------------------------------------------------------------------------
(* What the model was told, and what is sent on.                           *)

ToldOf(ms)  == FlattenSeq([i \in DOMAIN ms |-> ms[i].results])
RanOf(told) == FlattenSeq([i \in DOMAIN told |-> told[i].ran])

\* What was told is all the details that are sent on, and all the findings.
Knows(told) ==
  /\ UNION {told[i].shown : i \in DOMAIN told} = expanded
  /\ RanOf(told) = findings
  /\ \A i \in DOMAIN told : told[i].shown # {} => Cardinality(UNION {told[k].shown : k \in 1..(i - 1)}) < MaxTables

LearnInv ==
  /\ Knows(Heard)
  /\ expanded \subseteq NamesIn(tables, Len(tables))
  /\ pc # "done" => outcome = None
  /\ pc = "conclude" => loop # "agent"
  /\ WhatWasLearnedIsSent

\* A sequence with one element more.
LEMMA AppendedIs ==
  ASSUME NEW S, NEW s \in Seq(S), NEW x \in S, NEW t, DOMAIN t = 1..(Len(s) + 1), t = [i \in DOMAIN t |-> t[i]],
         Agree(t, s, Len(s)), t[Len(s) + 1] = x
  PROVE  t = Append(s, x)
<1> DEFINE u == Append(s, x)
<1>1. u \in Seq(S) /\ Len(u) = Len(s) + 1
  BY AppendProperties
<1>2. u[Len(s) + 1] = x /\ \A i \in 1..Len(s) : u[i] = s[i]
  BY AppendProperties
<1>3. Len(s) \in Nat
  OBVIOUS
<1> HIDE DEF u
<1>4. ASSUME NEW i \in 1..(Len(s) + 1) PROVE t[i] = u[i]
  <2>1. CASE i = Len(s) + 1
    BY <1>2, <2>1
  <2>2. CASE i # Len(s) + 1
    <3>1. i \in 1..Len(s)
      BY <1>3, <2>2
    <3> QED BY <1>2, <3>1 DEF Agree
  <2> QED BY <2>1, <2>2
<1>5. u = [i \in 1..(Len(s) + 1) |-> u[i]]
  BY <1>1
<1>6. t = u
  BY <1>4, <1>5
<1> QED BY <1>6 DEF u

LEMMA ToldGrows ==
  ASSUME NEW ms \in Seq(Messages), NEW m \in Messages
  PROVE  ToldOf(ms) \in Seq(Results) /\ ToldOf(Append(ms, m)) = ToldOf(ms) \o m.results
<1> DEFINE mm == Append(ms, m)
           ss == [i \in DOMAIN ms |-> ms[i].results]
           tt == [i \in DOMAIN mm |-> mm[i].results]
<1>1. mm \in Seq(Messages) /\ Len(mm) = Len(ms) + 1 /\ mm[Len(ms) + 1] = m /\ \A i \in DOMAIN ms : mm[i] = ms[i]
  BY Grown
<1>2. DOMAIN ms = 1..Len(ms) /\ Len(ms) \in Nat
  OBVIOUS
<1>3. \A i \in DOMAIN ms : ms[i].results \in Seq(Results)
  <2>1. \A i \in DOMAIN ms : ms[i] \in Messages
    OBVIOUS
  <2> QED BY <2>1 DEF Messages
<1>4. m.results \in Seq(Results)
  BY DEF Messages
<1>5. ss \in Seq(Seq(Results)) /\ Len(ss) = Len(ms) /\ \A i \in 1..Len(ms) : ss[i] = ms[i].results
  <2>1. ss \in Seq(Seq(Results))
    BY <1>2, <1>3
  <2>2. Len(ss) = Len(ms)
    BY <1>2
  <2>3. \A i \in 1..Len(ms) : ss[i] = ms[i].results
    BY <1>2
  <2> QED BY <2>1, <2>2, <2>3
<1> HIDE DEF mm
<1>6. DOMAIN tt = 1..(Len(ms) + 1) /\ tt = [i \in DOMAIN tt |-> tt[i]] /\ \A i \in DOMAIN tt : tt[i] = mm[i].results
  BY <1>1
<1> HIDE DEF ss, tt
<1>7. tt[Len(ms) + 1] = m.results
  BY <1>1, <1>2, <1>6
<1>8. Agree(tt, ss, Len(ms))
  <2>1. \A i \in 1..Len(ms) : i \in 1..(Len(ms) + 1)
    BY <1>2
  <2> QED BY <1>1, <1>2, <1>5, <1>6, <2>1 DEF Agree
<1>9. tt = Append(ss, m.results)
  BY <1>4, <1>5, <1>6, <1>7, <1>8, AppendedIs
<1>10. FlattenSeq(ss) \in Seq(Results) /\ FlattenSeq(tt) = FlattenSeq(ss) \o m.results
  BY <1>4, <1>5, <1>9, FlattenAppend, FlattenTyped
<1> QED BY <1>10 DEF ToldOf, ss, tt, mm

LEMMA RanGrows ==
  ASSUME NEW told \in Seq(Results), NEW r \in Results
  PROVE  RanOf(Append(told, r)) = RanOf(told) \o r.ran /\ RanOf(told) \in Seq(Findings)
<1> DEFINE mm == Append(told, r)
           ss == [i \in DOMAIN told |-> told[i].ran]
           tt == [i \in DOMAIN mm |-> mm[i].ran]
<1>1. DOMAIN told = 1..Len(told) /\ Len(told) \in Nat
  OBVIOUS
<1>2. mm \in Seq(Results) /\ Len(mm) = Len(told) + 1
  BY AppendProperties
<1>3. mm[Len(told) + 1] = r /\ \A i \in 1..Len(told) : mm[i] = told[i]
  BY AppendProperties
<1>4. \A x \in Results : x.ran \in Seq(Findings)
  <2>1. <<>> \in Seq(Findings) /\ \A f \in Findings : <<f>> \in Seq(Findings)
    OBVIOUS
  <2> QED BY <2>1 DEF Results
<1>5. \A i \in DOMAIN told : told[i] \in Results
  OBVIOUS
<1>6. ss \in Seq(Seq(Findings)) /\ Len(ss) = Len(told) /\ \A i \in 1..Len(told) : ss[i] = told[i].ran
  <2>1. ss \in Seq(Seq(Findings))
    BY <1>1, <1>4, <1>5
  <2>2. Len(ss) = Len(told)
    BY <1>1
  <2>3. \A i \in 1..Len(told) : ss[i] = told[i].ran
    BY <1>1
  <2> QED BY <2>1, <2>2, <2>3
<1> HIDE DEF mm
<1>7. DOMAIN tt = 1..(Len(told) + 1) /\ tt = [i \in DOMAIN tt |-> tt[i]] /\ \A i \in DOMAIN tt : tt[i] = mm[i].ran
  BY <1>2
<1> HIDE DEF ss, tt
<1>8. tt[Len(told) + 1] = r.ran
  BY <1>1, <1>3, <1>7
<1>9. Agree(tt, ss, Len(told))
  <2>1. \A i \in 1..Len(told) : i \in 1..(Len(told) + 1)
    BY <1>1
  <2> QED BY <1>1, <1>3, <1>6, <1>7, <2>1 DEF Agree
<1>10. r.ran \in Seq(Findings)
  BY <1>4
<1>11. tt = Append(ss, r.ran)
  BY <1>6, <1>7, <1>8, <1>9, <1>10, AppendedIs
<1>12. FlattenSeq(ss) \in Seq(Findings) /\ FlattenSeq(tt) = FlattenSeq(ss) \o r.ran
  BY <1>6, <1>10, <1>11, FlattenAppend, FlattenTyped
<1> QED BY <1>12 DEF RanOf, ss, tt, mm

LEMMA HeardIs ==
  ASSUME LoopInv
  PROVE  /\ Told = ToldOf(messages) /\ Told \in Seq(Results) /\ Heard \in Seq(Results)
         /\ pc # "execute" => Heard = Told
         /\ pc = "execute" => Heard = Told \o results
<1>1. messages \in Seq(Messages) /\ results \in Seq(Results)
  BY DEF LoopInv, ConversationOK
<1>2. Told = ToldOf(messages)
  BY DEF Told, ToldOf
<1>3. User(TRUE, <<>>) \in Messages
  BY Nudge
<1>4. Told \in Seq(Results)
  BY <1>1, <1>2, <1>3, ToldGrows
<1>5. CASE pc = "execute"
  <2>1. Heard = Told \o results
    BY <1>5 DEF Heard
  <2>2. Told \o results \in Seq(Results)
    BY <1>1, <1>4, ConcatProperties
  <2> QED BY <1>2, <1>4, <1>5, <2>1, <2>2
<1>6. CASE pc # "execute"
  <2>1. Heard = Told \o <<>>
    BY <1>6 DEF Heard
  <2>2. Told \o <<>> = Told
    BY <1>4, ConcatEmptySeq
  <2> QED BY <1>2, <1>4, <1>6, <2>1, <2>2
<1> QED BY <1>5, <1>6

\* Nothing was told in this step: the conversation may have been rearranged.
LEMMA NothingTold ==
  ASSUME LearnInv, Heard' = Heard, UNCHANGED <<expanded, findings, tables>>
  PROVE  Knows(Heard)' /\ (expanded \subseteq NamesIn(tables, Len(tables)))'
<1>1. Knows(Heard) /\ expanded \subseteq NamesIn(tables, Len(tables))
  BY DEF LearnInv
<1> QED BY <1>1 DEF Knows, RanOf, NamesIn

\* A result was told in this step.
LEMMA ResultTold ==
  ASSUME LoopInv, LearnInv, Heard \in Seq(Results), NEW r \in Results, Heard' = Append(Heard, r),
         expanded' = expanded \cup r.shown, findings' = findings \o r.ran,
         r.shown # {} => Cardinality(expanded) < MaxTables
  PROVE  Knows(Heard)'
<1> DEFINE H == Heard
           G == Append(H, r)
           n == Len(H)
<1>1. G \in Seq(Results) /\ Len(G) = n + 1
  BY AppendProperties
<1>2. G[n + 1] = r /\ \A i \in 1..n : G[i] = H[i]
  BY AppendProperties
<1>3. n \in Nat /\ DOMAIN H = 1..n /\ DOMAIN G = 1..(n + 1)
  BY <1>1
<1>4. /\ UNION {H[i].shown : i \in DOMAIN H} = expanded /\ RanOf(H) = findings
      /\ \A i \in DOMAIN H : H[i].shown # {} => Cardinality(UNION {H[k].shown : k \in 1..(i - 1)}) < MaxTables
  BY DEF LearnInv, Knows
<1>5. RanOf(G) = findings'
  BY <1>4, RanGrows
<1>6. Heard' = G
  OBVIOUS
<1> HIDE DEF G, H, n
<1>7. UNION {G[i].shown : i \in DOMAIN G} = expanded'
  <2>1. ASSUME NEW x \in UNION {G[i].shown : i \in DOMAIN G} PROVE x \in expanded'
    <3>1. PICK i \in DOMAIN G : x \in G[i].shown
      OBVIOUS
    <3>2. CASE i = n + 1
      BY <1>2, <3>1, <3>2
    <3>3. CASE i # n + 1
      <4>1. i \in DOMAIN H /\ G[i] = H[i]
        BY <1>2, <1>3, <3>3
      <4>2. x \in expanded
        BY <1>4, <3>1, <4>1
      <4> QED BY <4>2
    <3> QED BY <3>2, <3>3
  <2>2. ASSUME NEW x \in expanded' PROVE x \in UNION {G[i].shown : i \in DOMAIN G}
    <3>1. CASE x \in r.shown
      <4>1. n + 1 \in DOMAIN G /\ x \in G[n + 1].shown
        BY <1>2, <1>3, <3>1
      <4> QED BY <4>1
    <3>2. CASE x \in expanded
      <4>1. PICK i \in DOMAIN H : x \in H[i].shown
        BY <1>4, <3>2
      <4>2. i \in DOMAIN G /\ G[i] = H[i]
        BY <1>2, <1>3
      <4> QED BY <4>1, <4>2
    <3> QED BY <3>1, <3>2
  <2> QED BY <2>1, <2>2
<1>8. ASSUME NEW i \in DOMAIN G, G[i].shown # {} PROVE Cardinality(UNION {G[k].shown : k \in 1..(i - 1)}) < MaxTables
  <2>1. \A k \in 1..(i - 1) : k \in 1..n
    BY <1>3
  <2>2. {G[k].shown : k \in 1..(i - 1)} = {H[k].shown : k \in 1..(i - 1)}
    BY <1>2, <2>1
  <2>3. CASE i = n + 1
    <3>1. 1..(i - 1) = DOMAIN H
      BY <1>3, <2>3
    <3>2. UNION {G[k].shown : k \in 1..(i - 1)} = expanded
      BY <1>4, <2>2, <3>1
    <3> QED BY <1>2, <1>8, <2>3, <3>2
  <2>4. CASE i # n + 1
    <3>1. i \in DOMAIN H /\ G[i] = H[i]
      BY <1>2, <1>3, <2>4
    <3> QED BY <1>4, <1>8, <2>2, <3>1
  <2> QED BY <2>3, <2>4
<1>9. UNION {Heard'[i].shown : i \in DOMAIN Heard'} = expanded' /\ RanOf(Heard') = findings'
  BY <1>5, <1>6, <1>7
<1>10. \A i \in DOMAIN Heard' : Heard'[i].shown # {} => Cardinality(UNION {Heard'[k].shown : k \in 1..(i - 1)}) < MaxTables
  BY <1>6, <1>8
<1> QED BY ONLY <1>9, <1>10 DEF Knows, RanOf

LEMMA InitLearned == Init => LearnInv
<1> SUFFICES ASSUME Init PROVE LearnInv
  OBVIOUS
<1>1. /\ messages = <<User(TRUE, <<>>)>> /\ results = <<>> /\ findings = <<>> /\ expanded = {} /\ outcome = None
      /\ pc = (IF loop = "discover" /\ tables = <<>> THEN "conclude" ELSE "call")
  BY DEF Init
<1> DEFINE m == User(TRUE, <<>>)
<1>2. m \in Messages /\ m.results = <<>>
  BY Nudge DEF User
<1> HIDE DEF m
<1>3. ToldOf(<<m>>) = <<>>
  <2>1. <<>> \in Seq(Messages) /\ <<m>> = Append(<<>>, m)
    BY <1>2
  <2>2. ToldOf(<<m>>) = ToldOf(<<>>) \o <<>>
    BY <1>2, <2>1, ToldGrows
  <2>3. ToldOf(<<>>) = <<>>
    <3>1. [i \in DOMAIN <<>> |-> <<>>[i].results] = <<>>
      OBVIOUS
    <3> QED BY <3>1, FlattenNothing DEF ToldOf
  <2> QED BY <2>2, <2>3
<1>4. Heard = <<>>
  <2>1. Told = <<>>
    BY <1>1, <1>3 DEF Told, ToldOf, m
  <2> QED BY <1>1, <2>1 DEF Heard
<1>5. Knows(Heard)
  <2>1. RanOf(<<>>) = <<>>
    <3>1. [i \in DOMAIN <<>> |-> <<>>[i].ran] = <<>>
      OBVIOUS
    <3> QED BY <3>1, FlattenNothing DEF RanOf
  <2>2. DOMAIN <<>> = {}
    OBVIOUS
  <2> QED BY <1>1, <1>4, <2>1, <2>2 DEF Knows
<1>6. WhatWasLearnedIsSent
  BY <1>1 DEF WhatWasLearnedIsSent, None
<1>7. pc = "conclude" => loop # "agent"
  BY <1>1
<1> QED BY <1>1, <1>5, <1>6, <1>7 DEF LearnInv

LEMMA HeardNext ==
  ASSUME LoopInv'
  PROVE  /\ messages' \in Seq(Messages) /\ results' \in Seq(Results)
         /\ Told' = ToldOf(messages') /\ Told' \in Seq(Results)
         /\ pc' # "execute" => Heard' = Told'
         /\ pc' = "execute" => Heard' = Told' \o results'
<1>1. messages' \in Seq(Messages) /\ results' \in Seq(Results)
  BY DEF LoopInv, ConversationOK
<1>2. Told' = ToldOf(messages')
  BY DEF Told, ToldOf
<1>3. Told' \in Seq(Results)
  BY <1>1, <1>2, Nudge, ToldGrows
<1>4. CASE pc' = "execute"
  BY <1>1, <1>2, <1>3, <1>4 DEF Heard
<1>5. CASE pc' # "execute"
  <2>1. Heard' = Told' \o <<>>
    BY <1>5 DEF Heard
  <2>2. Told' \o <<>> = Told'
    BY <1>3, ConcatEmptySeq
  <2> QED BY <1>1, <1>2, <1>3, <1>5, <2>1, <2>2
<1> QED BY <1>4, <1>5

\* A step in which nothing is told and nothing returned.
LEMMA QuietKeeps ==
  ASSUME LearnInv, Heard' = Heard, UNCHANGED <<expanded, findings, tables, loop, outcome>>,
         pc # "done", pc' # "done", pc' = "conclude" => loop # "agent"
  PROVE  LearnInv'
<1>1. outcome' = None
  BY DEF LearnInv
<1>2. Knows(Heard)' /\ (expanded \subseteq NamesIn(tables, Len(tables)))'
  BY NothingTold
<1>3. WhatWasLearnedIsSent'
  BY <1>1 DEF WhatWasLearnedIsSent, None
<1>4. (pc = "conclude" => loop # "agent")'
  OBVIOUS
<1> QED BY <1>1, <1>2, <1>3, <1>4 DEF LearnInv

LEMMA MessagesStay ==
  ASSUME LoopInv, LoopInv', messages' = messages, pc # "execute", pc' # "execute"
  PROVE  Heard' = Heard
<1>1. Heard = Told /\ Told = ToldOf(messages)
  BY HeardIs
<1>2. Heard' = Told' /\ Told' = ToldOf(messages')
  BY HeardNext
<1> QED BY <1>1, <1>2

LEMMA AssistantTyped ==
  ASSUME LoopInv', ToolTurn
  PROVE  Assistant(Ids(calls')) \in Messages /\ Assistant(Ids(calls')).results = <<>>
<1> DEFINE c == Ids(calls')
<1>1. calls' \in Seq(Calls)
  BY DEF LoopInv, ConversationOK
<1>2. c \in Seq(CallIds)
  <2>1. \A k \in DOMAIN calls' : calls'[k] \in Calls
    BY <1>1
  <2>2. \A k \in DOMAIN calls' : calls'[k].id \in CallIds
    BY <2>1 DEF Calls
  <2>3. DOMAIN calls' = 1..Len(calls') /\ Len(calls') \in Nat
    BY <1>1
  <2> QED BY <2>2, <2>3 DEF Ids
<1> HIDE DEF c
<1>3. <<>> \in Seq(Results)
  OBVIOUS
<1>4. Assistant(c) \in Messages /\ Assistant(c).results = <<>>
  BY <1>2, <1>3 DEF Assistant, Messages
<1> QED BY <1>4 DEF c

\* The conversation grows by what was heard already.
LEMMA TurnsTellNothing ==
  ASSUME LoopInv, LoopInv', ToolTurn \/ AgentSaysNothing \/ AgentTurnEnds \/ AskTurnEnds
  PROVE  Heard' = Heard
<1>1. messages \in Seq(Messages) /\ results \in Seq(Results)
  BY DEF LoopInv, ConversationOK
<1>2. Told = ToldOf(messages) /\ Told \in Seq(Results)
  BY HeardIs
<1>3. Told' = ToldOf(messages') /\ Told' \in Seq(Results)
  BY HeardNext
<1>4. Told \o <<>> = Told
  BY <1>2, ConcatEmptySeq
<1> DEFINE n == User(TRUE, <<>>)
           m == User(FALSE, results)
<1>5. n \in Messages /\ n.results = <<>>
  BY Nudge DEF User
<1>6. CASE ToolTurn
  <2> DEFINE a == Assistant(Ids(calls'))
  <2>1. pc = "call" /\ pc' = "execute" /\ messages' = Append(messages, a) /\ results' = <<>>
    BY <1>6 DEF ToolTurn
  <2>2. a \in Messages /\ a.results = <<>>
    BY <1>6, AssistantTyped
  <2> HIDE DEF a
  <2>3. Told' = Told \o <<>>
    BY <1>1, <1>2, <1>3, <2>1, <2>2, ToldGrows
  <2>4. Heard' = Told' \o <<>> /\ Heard = Told
    BY <2>1, HeardNext, HeardIs
  <2> QED BY <1>4, <2>3, <2>4
<1>7. CASE AgentSaysNothing
  <2>1. pc = "call" /\ pc' = "force" /\ messages' = Append(messages, n)
    BY <1>7 DEF AgentSaysNothing
  <2> HIDE DEF n
  <2>2. Told' = Told \o <<>>
    BY <1>1, <1>2, <1>3, <1>5, <2>1, ToldGrows
  <2>3. Heard' = Told' /\ Heard = Told
    BY <2>1, HeardNext, HeardIs
  <2> QED BY <1>4, <2>2, <2>3
<1>8. CASE AgentTurnEnds \/ AskTurnEnds
  <2>1. TurnDone /\ pc = "execute" /\ pc' # "execute"
    BY <1>8 DEF AgentTurnEnds, AskTurnEnds, TurnDone
  <2>2. m \in Messages /\ Append(messages, m) \in Seq(Messages) /\ m.results = results
    BY <2>1, TurnAnswered DEF LoopInv, User
  <2>3. messages' = Append(messages, m) \/ messages' = Append(Append(messages, m), n)
    <3>1. messages' = Append(messages, m) \/ messages' = messages \o <<m, n>>
      BY <1>8 DEF AgentTurnEnds, AskTurnEnds
    <3>2. messages \o <<m, n>> = Append(Append(messages, m), n)
      BY <1>1, <1>5, <2>2, TwoMore
    <3> QED BY <3>1, <3>2
  <2> HIDE DEF m, n
  <2>4. ToldOf(Append(messages, m)) = Told \o results
    BY <1>1, <1>2, <2>2, ToldGrows
  <2>5. Told \o results \in Seq(Results)
    BY <1>1, <1>2, ConcatProperties
  <2>6. ToldOf(Append(Append(messages, m), n)) = (Told \o results) \o <<>>
    BY <1>5, <2>2, <2>4, ToldGrows
  <2>7. (Told \o results) \o <<>> = Told \o results
    BY <2>5, ConcatEmptySeq
  <2>8. Told' = Told \o results
    BY <1>3, <2>3, <2>4, <2>6, <2>7
  <2>9. Heard' = Told' /\ Heard = Told \o results
    BY <2>1, HeardNext, HeardIs
  <2> QED BY <2>8, <2>9
<1> QED BY <1>6, <1>7, <1>8

\* An answered call is heard.
LEMMA AnswerHeard ==
  ASSUME LoopInv, LoopInv', Executing, NEW r \in Results, results' = Append(results, r), messages' = messages, pc' = "execute"
  PROVE  Heard \in Seq(Results) /\ Heard' = Append(Heard, r)
<1>1. Told = ToldOf(messages) /\ Told \in Seq(Results) /\ Heard \in Seq(Results) /\ Heard = Told \o results
  BY HeardIs DEF Executing
<1>2. Heard' = Told \o Append(results, r)
  BY <1>1, HeardNext
<1>3. results \in Seq(Results)
  BY DEF LoopInv, ConversationOK
<1>4. Append(results, r) = results \o <<r>> /\ <<r>> \in Seq(Results)
  BY <1>3, AppendIsConcat
<1>5. Told \o (results \o <<r>>) = (Told \o results) \o <<r>>
  BY <1>1, <1>3, <1>4, ConcatAssociative
<1>6. Append(Heard, r) = Heard \o <<r>>
  BY <1>1, AppendIsConcat
<1> QED BY <1>1, <1>2, <1>4, <1>5, <1>6

LEMMA KnownNames ==
  ASSUME NEW names, tables \in Snapshots
  PROVE  Known(names) \subseteq NamesIn(tables, Len(tables))
BY LookupFinds DEF Known

LEMMA ExecutionLearns ==
  ASSUME LoopInv, LoopInv', LearnInv, Refuse \/ Details \/ RunQuery
  PROVE  LearnInv'
<1>1. Executing /\ pc = "execute" /\ calls \in Seq(Calls) /\ results \in Seq(Results) /\ findings \in Seq(Findings) /\ tables \in Snapshots
  BY DEF Refuse, Details, RunQuery, Executing, LoopInv, ConversationOK
<1>2. Current \in Calls
  <2>1. Len(results) + 1 \in DOMAIN calls
    BY <1>1 DEF Executing
  <2> QED BY <1>1, <2>1 DEF Current
<1>3. expanded \subseteq NamesIn(tables, Len(tables))
  BY DEF LearnInv
<1>4. ASSUME NEW r \in Results, results' = Append(results, r), UNCHANGED <<loop, tables, pc, messages, outcome>>,
             expanded' = expanded \cup r.shown, findings' = findings \o r.ran,
             r.shown # {} => Cardinality(expanded) < MaxTables, r.shown \subseteq NamesIn(tables, Len(tables))
      PROVE  LearnInv'
  <2>1. Heard \in Seq(Results) /\ Heard' = Append(Heard, r)
    BY <1>1, <1>4, AnswerHeard
  <2>2. Knows(Heard)'
    BY <1>4, <2>1, ResultTold
  <2>3. outcome' = None
    BY <1>1, <1>4 DEF LearnInv
  <2>4. WhatWasLearnedIsSent'
    BY <2>3 DEF WhatWasLearnedIsSent, None
  <2>5. (expanded \subseteq NamesIn(tables, Len(tables)))'
    BY <1>3, <1>4 DEF NamesIn
  <2>6. pc' = "execute"
    BY <1>1, <1>4
  <2> QED BY <2>2, <2>3, <2>4, <2>5, <2>6 DEF LearnInv
<1> DEFINE new(error, shown, ran) == [id |-> Current.id, error |-> error, shown |-> shown, ran |-> ran]
<1>5. Current.id \in CallIds /\ findings \o <<>> = findings
  BY <1>1, <1>2 DEF Calls
<1>6. CASE Refuse
  <2> DEFINE r == new(TRUE, {}, <<>>)
  <2>1. results' = Append(results, r) /\ UNCHANGED <<loop, tables, pc, messages, outcome, expanded, findings>>
    BY <1>6 DEF Refuse, Answer
  <2>2. r \in Results /\ r.shown = {} /\ r.ran = <<>>
    BY <1>5 DEF Results, Shows
  <2> HIDE DEF r
  <2> QED BY <1>4, <1>5, <2>1, <2>2
<1>7. CASE Details
  <2> DEFINE shown == Known(Current.names)
             r == new(shown = {}, shown, <<>>)
  <2>1. /\ results' = Append(results, r) /\ UNCHANGED <<loop, tables, pc, messages, outcome, findings>>
        /\ expanded' = expanded \cup shown /\ Cardinality(expanded) < MaxTables
    BY <1>7 DEF Details, Answer
  <2>2. shown \in Shows /\ shown \subseteq NamesIn(tables, Len(tables))
    <3>1. shown \in Shows
      BY <1>1, <1>2 DEF Shows, Known, Calls
    <3> QED BY <1>1, <3>1, KnownNames
  <2>3. r \in Results /\ r.shown = shown /\ r.ran = <<>>
    <3> HIDE DEF shown
    <3> QED BY <1>5, <2>2 DEF Results
  <2> HIDE DEF r, shown
  <2> QED BY <1>4, <1>5, <2>1, <2>2, <2>3
<1>8. CASE RunQuery
  <2>1. PICK end \in QueryEnds :
          /\ findings' = Append(findings, [id |-> Current.id, end |-> end])
          /\ Answer(end # "rows", {}, <<[id |-> Current.id, end |-> end]>>)
    BY <1>8 DEF RunQuery
  <2> DEFINE f == [id |-> Current.id, end |-> end]
             r == new(end # "rows", {}, <<f>>)
  <2>2. f \in Findings
    <3>1. end \in {"rows", "failed", "rejected", "unknown_connection"}
      BY DEF QueryEnds
    <3> QED BY <1>5, <3>1 DEF Findings
  <2>3. results' = Append(results, r) /\ UNCHANGED <<loop, tables, pc, messages, outcome, expanded>> /\ findings' = Append(findings, f)
    BY <1>8, <2>1 DEF RunQuery, Answer
  <2> HIDE DEF f
  <2>4. r \in Results /\ r.shown = {} /\ r.ran = <<f>>
    BY <1>5, <2>2 DEF Results, Shows
  <2>5. Append(findings, f) = findings \o <<f>>
    BY <1>1, <2>2, AppendIsConcat
  <2> HIDE DEF r
  <2> QED BY <1>4, <2>3, <2>4, <2>5
<1> QED BY <1>6, <1>7, <1>8

\* What was told, seen from a loop that is not executing calls.
LEMMA ShownIs ==
  ASSUME LearnInv, Told = Heard
  PROVE  Shown = expanded /\ Ran = findings
BY DEF LearnInv, Knows, RanOf, Shown, Ran

\* The steps that return.
LEMMA ReturnLearns ==
  ASSUME LoopInv, LoopInv', LearnInv, ProviderFails \/ AgentAnswers \/ Conclude
  PROVE  LearnInv'
<1>1. pc # "execute" /\ pc' = "done" /\ UNCHANGED <<loop, tables, messages, expanded, findings>>
  BY DEF ProviderFails, AgentAnswers, Conclude
<1>2. Heard' = Heard
  BY <1>1, MessagesStay
<1>3. Knows(Heard)' /\ (expanded \subseteq NamesIn(tables, Len(tables)))'
  BY <1>1, <1>2, NothingTold
<1>4. Told = Heard /\ Told' = Told
  BY <1>1, HeardIs DEF Told
<1>5. Shown' = expanded /\ Ran' = findings
  <2>1. Shown = expanded /\ Ran = findings
    BY <1>4, ShownIs
  <2>2. Shown' = Shown /\ Ran' = Ran
    BY <1>4 DEF Shown, Ran
  <2> QED BY <2>1, <2>2
<1>6. WhatWasLearnedIsSent'
  <2>1. CASE ProviderFails
    <3>1. CASE loop = "agent"
      <4>1. outcome'.kind = "raised"
        BY <2>1, <3>1 DEF ProviderFails, Outcome
      <4> QED BY <4>1 DEF WhatWasLearnedIsSent
    <3>2. CASE loop # "agent"
      <4>1. /\ outcome'.kind = "fallback" /\ outcome'.findings = findings /\ outcome'.usage = round /\ round' = round
            /\ warnings' = {"unavailable"}
        BY <2>1, <3>2 DEF ProviderFails, Outcome
      <4> QED BY <1>5, <4>1 DEF WhatWasLearnedIsSent
    <3> QED BY <3>1, <3>2
  <2>2. CASE AgentAnswers
    <3>1. outcome'.kind = "answer" /\ outcome'.findings = findings
      BY <2>2 DEF AgentAnswers, Outcome
    <3> QED BY <1>5, <3>1 DEF WhatWasLearnedIsSent
  <2>3. CASE Conclude
    <3>1. loop # "agent" /\ pc = "conclude" /\ round' = round
      BY <2>3 DEF Conclude, LearnInv
    <3>2. CASE loop = "discover" /\ tables = <<>>
      <4>1. outcome'.kind = "empty"
        BY <2>3, <3>2 DEF Conclude, Outcome
      <4> QED BY <4>1 DEF WhatWasLearnedIsSent
    <3>3. CASE ~(loop = "discover" /\ tables = <<>>) /\ expanded = {}
      <4>1. /\ outcome'.kind = "fallback" /\ outcome'.findings = findings /\ outcome'.usage = round
            /\ warnings' = {"nothing_requested"}
        BY <2>3, <3>1, <3>3 DEF Conclude, Outcome
      <4> QED BY <1>5, <3>1, <3>3, <4>1 DEF WhatWasLearnedIsSent
    <3>4. CASE ~(loop = "discover" /\ tables = <<>>) /\ expanded # {}
      <4> DEFINE sent == InSnapshotOrder(tables, expanded)
      <4>1. outcome'.kind = "detailed" /\ outcome'.sent = sent /\ outcome'.findings = findings /\ outcome'.usage = round
        BY <2>3, <3>1, <3>4 DEF Conclude, Outcome
      <4>2. {Qualified(sent[i]) : i \in DOMAIN sent} = expanded /\ Len(sent) = Cardinality(expanded)
        <5>1. tables \in Snapshots /\ expanded \subseteq NamesIn(tables, Len(tables))
          BY DEF LoopInv, ConversationOK, LearnInv
        <5> QED BY <5>1, InSnapshotOrderIs
      <4> HIDE DEF sent
      <4> QED BY <1>5, <3>1, <4>1, <4>2 DEF WhatWasLearnedIsSent
    <3> QED BY <2>3, <3>2, <3>3, <3>4
  <2> QED BY <2>1, <2>2, <2>3
<1> QED BY <1>1, <1>3, <1>6 DEF LearnInv

LEMMA LearnStep == LoopInv /\ LoopInv' /\ LearnInv /\ [Next]_vars => LearnInv'
<1> SUFFICES ASSUME LoopInv, LoopInv', LearnInv, [Next]_vars PROVE LearnInv'
  OBVIOUS
<1>1. CASE UNCHANGED vars
  <2>1. UNCHANGED <<loop, tables, pc, round, messages, results, expanded, findings, warnings, outcome>>
    BY <1>1 DEF vars
  <2>2. Told' = Told /\ Heard' = Heard
    BY <2>1 DEF Told, Heard
  <2>3. Knows(Heard)' /\ (expanded \subseteq NamesIn(tables, Len(tables)))'
    BY <2>1, <2>2, NothingTold
  <2>4. Shown' = Shown /\ Ran' = Ran
    BY <2>2 DEF Shown, Ran
  <2>5. WhatWasLearnedIsSent'
    BY <2>1, <2>4 DEF LearnInv, WhatWasLearnedIsSent
  <2>6. (pc # "done" => outcome = None)' /\ (pc = "conclude" => loop # "agent")'
    BY <2>1 DEF LearnInv
  <2> QED BY <2>3, <2>5, <2>6 DEF LearnInv
<1>2. CASE ProviderFails \/ AgentAnswers \/ Conclude
  BY <1>2, ReturnLearns
<1>3. CASE Refuse \/ Details \/ RunQuery
  BY <1>3, ExecutionLearns
<1>4. CASE EnoughSeen
  <2>1. /\ pc = "call" /\ pc' = "conclude" /\ loop # "agent"
        /\ UNCHANGED <<loop, tables, messages, expanded, findings, outcome>>
    BY <1>4 DEF EnoughSeen
  <2> QED BY <2>1, MessagesStay, QuietKeeps
<1>5. CASE ToolTurn \/ AgentSaysNothing \/ AgentTurnEnds \/ AskTurnEnds
  <2>1. Heard' = Heard
    BY <1>5, TurnsTellNothing
  <2>2. UNCHANGED <<expanded, findings, tables, loop, outcome>> /\ pc # "done" /\ pc' # "done" /\ (pc' = "conclude" => loop # "agent")
    BY <1>5 DEF ToolTurn, AgentSaysNothing, AgentTurnEnds, AskTurnEnds, TurnDone
  <2> QED BY <2>1, <2>2, QuietKeeps
<1> QED BY <1>1, <1>2, <1>3, <1>4, <1>5 DEF Next, Step, Returned

\* Only the call that crosses the table limit details more tables, and whatever
\* the model was shown and ran reaches the SQL generation: exactly the detailed
\* tables, each once, and every finding in order, or the user is told why not
\* (discover.py, ask_analysis.py and agent.py, from the first call to what they return).
THEOREM WhatIsLearnedIsKept == Spec => []LearningInv
<1>1. LearnInv => LearningInv
  BY DEF LearnInv, Knows, LearningInv, TablesBounded
<1> QED BY <1>1, InitLearned, LearnStep, LoopHolds, PTL DEF Spec

=============================================================================
