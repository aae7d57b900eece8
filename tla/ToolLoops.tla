------------------------------ MODULE ToolLoops ------------------------------
(***************************************************************************)
(* The three tool-calling loops: table discovery (services/schema/           *)
(* discover.py), the Ask analysis loop (services/ask_analysis.py) and the    *)
(* standalone analysis agent (services/analysis/agent.py), over the chat     *)
(* call of the two providers (services/ai/openai_provider.py and             *)
(* anthropic_provider.py).                                                  *)
(*                                                                         *)
(* A tool call is a tool and the table names it asks for; a result keeps     *)
(* the call it answers, whether it is an error, and what it tells the model: *)
(* the tables it details and the query it ran.                              *)
(***************************************************************************)
EXTENDS SchemaNames, SequencesExt

CONSTANTS
  Snapshots,   \* the schemas a question may be asked about
  Requests,    \* the sets of table names a details call may ask for
  Cost,        \* estimated tokens of a table's details, by qualified name
  MaxTokens,   \* settings.schema_max_tokens
  MaxRounds,   \* settings.ask_discovery_max_rounds, ask_analysis_max_rounds
  MaxTables,   \* settings.ask_discovery_max_tables
  MaxQueries,  \* settings.ask_analysis_max_queries, MAX_QUERIES
  MaxCalls     \* bound: tool calls in one turn of the model

ASSUME LimitsAssumption ==
  /\ MaxRounds \in Int /\ MaxTables \in Int /\ MaxQueries \in Int
  /\ MaxCalls \in Nat

\* A snapshot is made from a dictionary of its tables by schema and name
\* (introspect.py, _finalize).
ASSUME SnapshotsAssumption ==
  \A ts \in Snapshots :
    /\ ts \in Seq({ts[i] : i \in DOMAIN ts})
    /\ \A i, j \in DOMAIN ts : ts[i].schema = ts[j].schema /\ ts[i].name = ts[j].name => i = j

VARIABLES
  loop,      \* which of the three runs
  tables,    \* the snapshot
  pc,        \* what the loop does next
  round,     \* provider calls that answered
  messages,  \* the neutral conversation
  calls,     \* the tool calls of the current turn
  results,   \* their results so far
  expanded,  \* qualified names of the tables detailed so far
  findings,  \* the queries run so far (the agent's steps), in order
  queries,   \* queries_used
  warnings,  \* why the loop stopped, as the user is told
  outcome    \* what the loop returned, or that it raised

vars == <<loop, tables, pc, round, messages, calls, results, expanded, findings,
          queries, warnings, outcome>>

-----------------------------------------------------------------------------

Loops == {"discover", "analysis", "agent"}

\* How a query ends; only the agent's may name a connection it was not given.
QueryEnds == {"rows", "failed", "rejected"} \cup (IF loop = "agent" THEN {"unknown_connection"} ELSE {})

\* The discovery loop takes every call for a details call, the agent for a query.
IsDetails(c) == loop = "discover" \/ (loop = "analysis" /\ c.tool = "details")
IsQuery(c)   == loop = "agent"    \/ (loop = "analysis" /\ c.tool = "query")

\* What the model may call: the tools it was given, and one it invents.
Wishes ==
  CASE loop = "discover" -> [tool : {"details"}, names : Requests]
    [] loop = "analysis" -> [tool : {"details"}, names : Requests] \cup [tool : {"query", "unknown"}, names : {{}}]
    [] loop = "agent"    -> [tool : {"query"}, names : {{}}]

Ids(cs) == [k \in DOMAIN cs |-> cs[k].id]

User(text, res) == [role |-> "user", text |-> text, calls |-> <<>>, results |-> res]
Assistant(ids)  == [role |-> "assistant", text |-> FALSE, calls |-> ids, results |-> <<>>]

None == [kind |-> "none"]
Outcome(kind, sent, found) ==
  [kind |-> kind, sent |-> sent, findings |-> found, usage |-> IF loop = "agent" THEN 0 ELSE round]

\* Progress events are left out: they do not change what a loop does.
Init ==
  /\ loop \in Loops
  /\ tables \in Snapshots
  /\ pc = IF loop = "discover" /\ tables = <<>> THEN "conclude" ELSE "call"
  /\ round = 0 /\ queries = 0
  /\ messages = <<User(TRUE, <<>>)>>
  /\ calls = <<>> /\ results = <<>> /\ findings = <<>>
  /\ expanded = {} /\ warnings = {}
  /\ outcome = None

-----------------------------------------------------------------------------
(* A provider call.                                                         *)

\* provider.chat raises AIProviderError: the agent lets it through, the other
\* loops fall back to the lexical selection, the analysis with its findings.
ProviderFails ==
  /\ pc \in {"call", "force"} /\ pc' = "done"
  /\ IF loop = "agent" THEN outcome' = Outcome("raised", <<>>, <<>>) /\ UNCHANGED warnings
     ELSE outcome' = Outcome("fallback", <<>>, findings) /\ warnings' = {"unavailable"}
  /\ UNCHANGED <<loop, tables, round, messages, calls, results, expanded, findings, queries>>

\* A turn with tool calls: it joins the conversation and its calls are executed.
ToolTurn ==
  /\ pc = "call" /\ pc' = "execute"
  /\ round' = round + 1
  /\ \E n \in 1..MaxCalls : \E ws \in [1..n -> Wishes] :
       calls' = [k \in 1..n |-> [id |-> <<round', k>>, tool |-> ws[k].tool, names |-> ws[k].names]]
  /\ messages' = Append(messages, Assistant(Ids(calls')))
  /\ results' = <<>>
  /\ UNCHANGED <<loop, tables, expanded, findings, queries, warnings, outcome>>

\* A turn without tool calls: the model has seen enough.
EnoughSeen ==
  /\ pc = "call" /\ loop # "agent" /\ pc' = "conclude"
  /\ round' = round + 1
  /\ UNCHANGED <<loop, tables, messages, calls, results, expanded, findings, queries, warnings, outcome>>

\* The agent's plain text is its answer; an empty turn makes it force one.
\* The answer forced at the end may be missing: a default text replaces it.
AgentAnswers ==
  /\ loop = "agent" /\ pc \in {"call", "force"} /\ pc' = "done"
  /\ round' = round + 1
  /\ outcome' = Outcome("answer", <<>>, findings)
  /\ UNCHANGED <<loop, tables, messages, calls, results, expanded, findings, queries, warnings>>

AgentSaysNothing ==
  /\ loop = "agent" /\ pc = "call" /\ pc' = "force"
  /\ round' = round + 1
  /\ messages' = Append(messages, User(TRUE, <<>>))
  /\ UNCHANGED <<loop, tables, calls, results, expanded, findings, queries, warnings, outcome>>

-----------------------------------------------------------------------------
(* The calls of a turn, one result each, in order.                          *)

Executing == pc = "execute" /\ Len(results) < Len(calls)
Current   == calls[Len(results) + 1]

Answer(error, shown, ran) ==
  /\ results' = Append(results, [id |-> Current.id, error |-> error, shown |-> shown, ran |-> ran])
  /\ UNCHANGED <<loop, tables, pc, round, messages, calls, warnings, outcome>>

\* A limit is reached, or the tool does not exist.
Refused(c) ==
  \/ IsDetails(c) /\ Cardinality(expanded) >= MaxTables
  \/ IsQuery(c) /\ queries >= MaxQueries
  \/ ~IsDetails(c) /\ ~IsQuery(c)

\* Mutants of Refuse: the refused call is dropped without a result; it stays the
\* current one.
RefuseSilently ==
  /\ Executing
  /\ Refused(Current)
  /\ calls' = RemoveAt(calls, Len(results) + 1)
  /\ UNCHANGED <<loop, tables, pc, round, messages, results, expanded, findings, queries, warnings, outcome>>

RefuseForever ==
  /\ Executing
  /\ Refused(Current)
  /\ UNCHANGED vars

\* A limit is reached, or the tool does not exist: the call is answered with an error instead.
Refuse ==
  /\ Executing
  /\ Refused(Current)
  /\ Answer(TRUE, {}, <<>>)
  /\ UNCHANGED <<expanded, findings, queries>>

\* The tables of the request that exist, by whichever name it uses for them.
Known(names) == {Qualified(Lookup(tables)[n]) : n \in names \cap DOMAIN Lookup(tables)}

\* Mutant of Details: one more call is taken at the limit.
DetailsOneMore ==
  /\ Executing /\ IsDetails(Current) /\ Cardinality(expanded) <= MaxTables
  /\ expanded' = expanded \cup Known(Current.names)
  /\ Answer(Known(Current.names) = {}, Known(Current.names), <<>>)
  /\ UNCHANGED <<findings, queries>>

Details ==
  /\ Executing /\ IsDetails(Current) /\ Cardinality(expanded) < MaxTables
  /\ expanded' = expanded \cup Known(Current.names)
  /\ Answer(Known(Current.names) = {}, Known(Current.names), <<>>)
  /\ UNCHANGED <<findings, queries>>

\* A query is counted and leaves one finding however it ends.
RunQuery ==
  /\ Executing /\ IsQuery(Current) /\ queries < MaxQueries
  /\ queries' = queries + 1
  /\ \E end \in QueryEnds :
       /\ findings' = Append(findings, [id |-> Current.id, end |-> end])
       /\ Answer(end # "rows", {}, <<[id |-> Current.id, end |-> end]>>)
  /\ UNCHANGED expanded

TurnDone == pc = "execute" /\ Len(results) = Len(calls)

\* The agent goes on until its queries are used up, then an answer is forced.
AgentTurnEnds ==
  /\ TurnDone /\ loop = "agent"
  /\ IF queries >= MaxQueries
     THEN pc' = "force" /\ messages' = messages \o <<User(FALSE, results), User(TRUE, <<>>)>>
     ELSE pc' = "call" /\ messages' = Append(messages, User(FALSE, results))
  /\ UNCHANGED <<loop, tables, round, calls, results, expanded, findings, queries, warnings, outcome>>

Tokens == FoldSet(LAMBDA n, sum : sum + Cost[n], 0, expanded)

\* Mutant of Limits: the rounds are not limited.
LimitsOnSize ==
  IF Cardinality(expanded) >= MaxTables THEN {"table_limit"}
  ELSE IF Tokens > MaxTokens THEN {"token_budget"} ELSE {}

Limits ==
  IF Cardinality(expanded) >= MaxTables THEN {"table_limit"}
  ELSE IF Tokens > MaxTokens THEN {"token_budget"}
  ELSE IF round >= MaxRounds THEN {"round_limit"} ELSE {}

AskTurnEnds ==
  /\ TurnDone /\ loop # "agent"
  /\ messages' = Append(messages, User(FALSE, results))
  /\ warnings' = Limits
  /\ pc' = IF Limits = {} THEN "call" ELSE "conclude"
  /\ UNCHANGED <<loop, tables, round, calls, results, expanded, findings, queries, outcome>>

\* Mutant of Conclude: the fallback forgets the findings.
ConcludeEmptyHanded ==
  /\ pc = "conclude" /\ pc' = "done"
  /\ IF loop = "discover" /\ tables = <<>>
     THEN outcome' = Outcome("empty", <<>>, <<>>) /\ UNCHANGED warnings
     ELSE IF expanded = {}
     THEN outcome' = Outcome("fallback", <<>>, <<>>) /\ warnings' = {"nothing_requested"}
     ELSE outcome' = Outcome("detailed", InSnapshotOrder(tables, expanded), findings) /\ UNCHANGED warnings
  /\ UNCHANGED <<loop, tables, round, messages, calls, results, expanded, findings, queries>>

\* The schema text sent on: the details the model asked for, in snapshot order,
\* or the lexical selection when it asked for none.
Conclude ==
  /\ pc = "conclude" /\ pc' = "done"
  /\ IF loop = "discover" /\ tables = <<>>
     THEN outcome' = Outcome("empty", <<>>, <<>>) /\ UNCHANGED warnings
     ELSE IF expanded = {}
     THEN outcome' = Outcome("fallback", <<>>, findings) /\ warnings' = {"nothing_requested"}
     ELSE outcome' = Outcome("detailed", InSnapshotOrder(tables, expanded), findings) /\ UNCHANGED warnings
  /\ UNCHANGED <<loop, tables, round, messages, calls, results, expanded, findings, queries>>

Returned == pc = "done" /\ UNCHANGED vars

Step ==
  \/ ProviderFails \/ ToolTurn \/ EnoughSeen \/ AgentAnswers \/ AgentSaysNothing
  \/ Refuse \/ Details \/ RunQuery \/ AgentTurnEnds \/ AskTurnEnds \/ Conclude

Next == Step \/ Returned

\* A loop is one coroutine; its provider calls and queries return or raise.
Spec == Init /\ [][Next]_vars /\ WF_vars(Step)

-----------------------------------------------------------------------------
(* What the providers are sent: the neutral conversation in their formats.  *)

\* _to_openai_messages: each result is a message of its own, before any text.
OpenAI(m) ==
  IF m.role = "assistant" THEN << [role |-> "assistant", calls |-> m.calls] >>
  ELSE [k \in DOMAIN m.results |-> [role |-> "tool", call |-> m.results[k].id]]
       \o IF m.text THEN << [role |-> "user"] >> ELSE <<>>

ToOpenAI(ms) == << [role |-> "system"] >> \o FlattenSeq([i \in DOMAIN ms |-> OpenAI(ms[i])])

\* _to_anthropic_messages: one message per turn, made of blocks, results first.
Anthropic(m) ==
  [ role |-> m.role,
    blocks |-> [k \in DOMAIN m.results |-> <<"tool_result", m.results[k].id>>]
               \o (IF m.text THEN << <<"text">> >> ELSE <<>>)
               \o [k \in DOMAIN m.calls |-> <<"tool_use", m.calls[k]>>] ]

ToAnthropic(ms) == [i \in DOMAIN ms |-> Anthropic(ms[i])]

\* An assistant's calls are followed at once by one tool message each, and a
\* tool message answers the assistant it follows.
OpenAIAccepts(out) ==
  \A i \in DOMAIN out :
    /\ out[i].role = "assistant" =>
         \A k \in DOMAIN out[i].calls : i + k \in DOMAIN out /\ out[i + k] = [role |-> "tool", call |-> out[i].calls[k]]
    /\ out[i].role = "tool" =>
         \E j \in 1..(i - 1) : out[j].role = "assistant" /\ i - j \in DOMAIN out[j].calls

Blocks(m, kind) == {m.blocks[k][2] : k \in {k \in DOMAIN m.blocks : m.blocks[k][1] = kind}}

\* The user speaks first, no message is empty, and the tool uses of a message
\* are answered by the next one, which answers nothing else.
AnthropicAccepts(out) ==
  /\ out[1].role = "user"
  /\ \A i \in DOMAIN out :
       /\ out[i].blocks # <<>>
       /\ out[i].role = "assistant" =>
            i + 1 \in DOMAIN out /\ Blocks(out[i + 1], "tool_result") = Blocks(out[i], "tool_use")
       /\ Blocks(out[i], "tool_result") # {} => i > 1 /\ out[i - 1].role = "assistant"

-----------------------------------------------------------------------------
(* Properties.                                                             *)

TypeOK ==
  /\ loop \in Loops
  /\ pc \in {"call", "execute", "conclude", "force", "done"}
  /\ round \in Nat /\ queries \in Nat
  /\ warnings \subseteq {"table_limit", "token_budget", "round_limit", "unavailable", "nothing_requested"}

\* Each turn's tool calls are answered by the next turn, once each and in
\* order, and a turn with results follows the calls they answer.
Paired ==
  /\ \A i \in DOMAIN messages :
       messages[i].role = "assistant" =>
         \/ pc = "execute" /\ i = Len(messages) /\ messages[i].calls = Ids(calls)
         \/ i < Len(messages) /\ messages[i].calls = Ids(messages[i + 1].results)
  /\ pc = "execute" => Len(messages) > 0 /\ messages[Len(messages)].role = "assistant"
  /\ pc = "execute" => Len(results) <= Len(calls) /\ \A k \in DOMAIN results : results[k].id = calls[k].id

\* A query is counted once, refused beyond the limit, and leaves one finding.
QueriesCounted ==
  /\ queries <= (IF MaxQueries > 0 THEN MaxQueries ELSE 0)
  /\ Len(findings) = queries

\* The discovery and analysis loops call the provider once at least and no more
\* often than their limit.
RoundsCounted == loop # "agent" => round <= (IF MaxRounds > 1 THEN MaxRounds ELSE 1)

\* Whatever the loop and however it went so far, the conversation it calls a
\* provider with is one both providers accept.
AcceptedByProviders ==
  pc \in {"call", "force"} => OpenAIAccepts(ToOpenAI(messages)) /\ AnthropicAccepts(ToAnthropic(messages))

\* What the conversation has told the model.
Told  == FlattenSeq([i \in DOMAIN messages |-> messages[i].results])
Shown == UNION {Told[i].shown : i \in DOMAIN Told}
Ran   == FlattenSeq([i \in DOMAIN Told |-> Told[i].ran])

\* What it will have told with the results at hand.
Heard == Told \o IF pc = "execute" THEN results ELSE <<>>

\* The SQL generation that follows gets the details of exactly the tables the
\* model was shown, each once, and of every query it ran, in order; details are
\* lost only to a provider failure, findings never, and the user is told why.
WhatWasLearnedIsSent ==
  /\ outcome.kind = "detailed" =>
       /\ {Qualified(outcome.sent[i]) : i \in DOMAIN outcome.sent} = Shown
       /\ Len(outcome.sent) = Cardinality(Shown)
  /\ outcome.kind \in {"detailed", "fallback", "answer"} => outcome.findings = Ran
  /\ outcome.kind = "fallback" => (warnings = {"unavailable"} \/ (warnings = {"nothing_requested"} /\ Shown = {}))
  /\ outcome.kind \in {"detailed", "fallback"} => outcome.usage = round

\* The table limit is checked before a call and not in it: only the call that
\* crosses it may detail more tables.
TablesBounded ==
  \A i \in DOMAIN Heard : Heard[i].shown # {} => Cardinality(UNION {Heard[k].shown : k \in 1..(i - 1)}) < MaxTables

\* What the model learns is bounded by the limit, and all of it reaches the SQL
\* generation.
LearningInv == TablesBounded /\ WhatWasLearnedIsSent

\* Types, the pairing of calls and results, and the limits of the loops.
ToolInv == TypeOK /\ Paired /\ QueriesCounted /\ RoundsCounted

\* Every loop returns or raises.
LoopEnds == <>(pc = "done")

=============================================================================
