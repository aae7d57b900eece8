# Talk2Database: a verification project in TLA+

Talk2Database is a FastAPI server and a React client. A user asks a question about one of their databases; the
server shows an AI model the schema, asks it for SQL, checks the SQL, stores the exchange in its own "panel"
database and streams progress to the browser. This directory models the parts of it where order, failure and
concurrency decide whether it is right, checks the models with TLC, and proves the main safety properties with
TLAPS for every value of the constants.

## 1. The system

| component | state it keeps | operations | what is hard |
|---|---|---|---|
| Ask over WebSocket, `backend/app/routers/ask_ws.py`, `services/ask_flow.py` | one run: three asyncio tasks, a queue of events, one panel session and its open transaction, the socket | start, cancel, disconnect, progress, commit, close | a cancel or a disconnect lands on any await, COMMIT included; both tasks may end at once; the database or the socket fails in the middle |
| Ask in the browser, `frontend/src/api/askSocket.ts`, `pages/AskPage.tsx` | a promise, a timer, a socket, the page's turn | open, message, close, timer, cancel, fallback to `POST /chats/{id}/ask` | the timer races the first event; a lost answer; a server crash; asking twice |
| SQL generation, `services/ai/generate.py` | the conversation, attempt and retry counts, the last SQL and failed verification | call the model, guard, verify, correct, return | the last attempt; values of an earlier attempt leaking into the outcome |
| Schema snapshots, `services/schema/cache.py`, `routers/connections.py` | versioned rows per connection, cached example questions | ensure, rebuild, suggest questions | introspection and AI calls take seconds inside a transaction; no lock, no unique index |
| Introspection, selection, serialization, `services/schema/*`, `connectors/*` | the catalog being read, one read-only transaction on the user's database | read catalog, probe columns, choose tables | a failed probe aborts a transaction; unordered catalog rows; text found in CHECK clauses; the token budget |
| SQL verification, `services/sql_verify.py` | none | scopes of a statement against a snapshot | sound enough to reject, lenient enough not to reject right SQL |
| Discovery and analysis loops, `services/schema/discover.py`, `services/ask_analysis.py`, `services/analysis/agent.py`, `services/ai/*_provider.py` | a conversation of tool calls and results, budgets | one provider round, run tools, force an answer | each tool call needs its result whichever limit is hit; two providers want different conversations |
| Chats, execution, history, `services/chat_context.py`, `routers/chats.py`, `routers/execute.py`, `routers/history.py` | a chat, its turns, result samples, history rows | ask in a chat, rename, archive, delete, execute, rerun | a title or a turn read before a long run and written after it; interleaved turns |
| Dashboards, saved queries, glossary and connection access, `routers/dashboards.py`, `saved_queries.py`, `glossary.py`, `connection_access.py` | shares, grants, widgets and their places, descriptions | replace a set, save a layout, edit, delete, run a widget | replace-the-set and whole-layout writes by two editors; deletion under use; whose data a viewer is shown |
| Accounts and invitations, `routers/auth.py`, `routers/users.py` | users, invitations | bootstrap, invite, register, delete, (login, language) | check-then-act at read committed |
| Settings and prompts, `services/app_settings.py`, `prompt_store.py`, `routers/clarity.py`, `ask_settings.py`, `prompts.py` | rows by key; the trigger of the daily job, in the process | save several keys, reset, reschedule, restart | get-then-insert; row locks; a job that follows rows without sharing their transaction |
| Clarity fetching, `services/clarity/*`, `services/scheduler.py` | snapshots of an external API, a daily call budget | manual and scheduled fetch | budget read before and spent after an HTTP call; midnight; row locks held across HTTP calls; retries; a rollback that forgets a call |
| Admin reports, other pages, deployment | none | read | - |

How they interact: the browser talks to the Ask endpoint over one WebSocket, and to everything else over HTTP.
Every HTTP request is one transaction of the panel database (`db/panel.py`, `get_session`: commit after the
handler, roll back on an exception), at PostgreSQL's default, read committed. A WebSocket run uses the same kind
of session but commits it itself. The Ask flow loads (and may build) the connection's snapshot, runs the
discovery or the analysis loop, then the generation loop, and stores a history row, a usage row and, in a chat,
a turn. An execution attaches a sample of its result to that turn, which the next question of the chat shows the
model. Saving the Clarity settings reschedules the job that starts the fetch runs.

## 2. Modules

| module | models | built on |
|---|---|---|
| `AskRun` | the abstract promise of one run: rows saved at most once, one outcome told, the two agree | - |
| `AskServer` | the WebSocket endpoint: coordinator, flow, sender, watcher, queue, transaction, socket | implements `AskRun` |
| `AskSession` | the browser client and the page's HTTP fallback, with network drops and a server crash | composes with `AskServer` |
| `GenerateLoop` | `generate_with_verification` and the history row made of its outcome | - |
| `SchemaNames` | the names of tables: qualified, as the model writes them, as they are looked up | - |
| `ToolLoops`, `MCToolLoops` | the discovery loop, the analysis loop and the standalone agent, over the providers' chat calls | `SchemaNames` |
| `Introspection`, `Selection`, `Verification` | the pure parts: catalog to snapshot, tables for a budget, a statement against a snapshot | `SchemaNames` |
| `SchemaPipeline`, `MCSchemaPipeline` | a refresh through a connector, a question's schema text, the verification of what comes back | composes the three |
| `SnapshotCache`, `MCSnapshotCache` | the snapshot rows of one connection under concurrent requests | - |
| `PanelRows` | how the ORM writes a changed row: only the columns that differ from what it loaded | - |
| `Chats`, `MCChats` | one chat: concurrent questions, patches of title and archiving, deletion, runs and reruns of its statements | `PanelRows` |
| `Sharing`, `MCSharing` | one dashboard or saved query and two connections: shares, access, descriptions, a widget | `PanelRows` |
| `Accounts`, `MCAccounts` | accounts and invitations under concurrent requests | - |
| `Settings`, `MCSettings` | saves of settings and prompts, rescheduling, restarts | - |
| `ClarityFetch`, `MCClarityFetch` | the Clarity fetch runs, their budget and their snapshots | - |
| `AskProofs` (of `AskServer`, `AskSession`, `GenerateLoop`), `SchemaProofs` (of `SnapshotCache`, `SchemaPipeline`), `AccountsProofs`, `SettingsProofs`, `SharingProofs`, `ChatsProofs`, `ClarityFetchProofs`, `ToolLoopsProofs` | the theorems | their components |

`PROJECT.json` maps each definition to the lines it stands for. An operator whose comment says "Mutant of" is a
wrong version of the definition named there, of the kind a slip in the code would be; it is used by nothing and
shows that some property notices.

**AskServer.** asyncio runs one task at a time, so a step is the code between two awaits. `coord` is the
endpoint's own coroutine, `flow`, `sender` and `watcher` its tasks. `flow` names the next await of `run_flow`
and of the flow it calls. `events` is everything ever put on the queue, so that the queue is
`events[sent+1..]` and the `seq` of an event its index. `session`, `pending`, `db` are the panel transaction: a
failed flush leaves the session `poisoned` (SQLAlchemy has rolled it back and refuses statements until
`rollback()`), and COMMIT is two steps, sent by the flow and answered by the database, so that a cancellation can
land between them. `CoordStop` is `flow.cancel()`; from there the flow only takes `FlowCancelled`, since
`CancelledError` is no `Exception` and skips the except clauses. `CoordClose` is the `finally` clause, the close
and the commit of the session dependency.

**AskSession.** The browser handles one frame or timer per step. `recv` counts the events it has handled, so
events in `recv+1..sent` are on the wire. `GiveUpAndPost` is `fail()` with the page's catch block: the promise
rejects and the question goes out over HTTP. `NetworkDrop` and `Crash` may happen at any time (one crash); a
COMMIT already sent may still be applied after the crash.

**GenerateLoop.** A reply is one of four verdicts the loop can tell apart. SQL texts and failed verifications
are named by the attempt they came from, which is what lets a property say that nothing leaks between attempts.

**ToolLoops.** One module for three loops that differ in their tools, their limits and how they end; `loop` says
which. `messages` is the neutral conversation the loops build; `ToOpenAI` and `ToAnthropic` are the conversions
the two providers make of it, and `OpenAIAccepts` and `AnthropicAccepts` what their APIs demand of a request. A
turn of the model is any sequence of at most `MaxCalls` calls, with any names out of `Requests`, unknown ones
included. Provider failures end a loop in the way each handles them: discovery falls back to the selected schema,
analysis goes on with its findings, the agent raises.

**Introspection, Selection, Verification, SchemaPipeline.** A database is a sequence of tables with columns,
primary keys, foreign key rows, CHECK clauses as sets of parts, and the values its columns hold. A clause comes
with `read`, what the code's search finds in its text: the search is not anchored, so that the identifier before
the membership may be the end of a quoted name (`"order-status"`) or inside a call (`lower(status)`), while the
clause's parts say what it really compares. `PgLike` are the schemas that `NOT LIKE 'pg_%'` takes for the
system's, `pgboss` for one. `Readings` is every snapshot a refresh may read, since neither CHECK rows nor samples
come in an order.
`SchemaPipeline` makes one refresh a sequence of steps: connect, read the catalog, probe one column after the
other, any of them failing, with a savepoint in PostgreSQL and without a transaction in MySQL. A question selects
tables by any ranking and any of the budgets; a statement is a sequence of scopes, as sqlglot's scope analysis
gives them, and `DatabaseAccepts` is what the database itself would make of it, which the report is compared with.
The two do not share their notion of a source's columns: a source may carry a column alias list (`renames`, for
`AS o(oid)` and `WITH t(a) AS`), by which the database goes and of which the verifier knows nothing. A statement
sqlglot cannot analyse is reported with nothing (`analysed`).

**SnapshotCache.** A row is named by the request that inserted it; only `committed` rows are visible to others.
`LookHit`, `LookMiss`, `Keep` and `Insert` read `Current`, the committed rows of the highest version, any of them
when versions tie (`ORDER BY version DESC LIMIT 1` breaks no tie). `Ddl` changes the live database under
everybody. `held` is the copy of the cached questions read before the provider is awaited and written back
after it. Read committed lets a request that finds no row, or the same fingerprint, decide on what is committed at
that moment.

**Chats.** A question reads the chat and its turns, is answered, then inserts the question, the answer and the new
title and commits; an execution reads the turn and the history row, runs, and writes both. `saw` is what a request
has read and still relies on. Message ids are drawn from one sequence at the insert, so two questions may
interleave theirs. An insert that refers to the chat or the connection holds a key lock a deletion waits for; an
update waits for the row's lock. A `patch` sets the title, the archiving, or both, and writes what differs from the
chat it loaded. `History` is `build_history_messages` with its limits of turns and of characters, for the rows in
the order of their ids.

**Sharing.** The three tables of `<<subject, object>>` rows, shares, access rows and descriptions, obey the same
code: read the existing rows, send a DELETE for those to go, flush the updates and inserts. Locks are taken one at a
time, in the order the statements take them: `First` are the rows a request may lock next (the DELETE's, in the
order of whatever plan; then the updates by id, which is `Rank`; then the inserts), `Refers` the objects it deletes,
changes or refers to. `LockRow` and `LockObject` take one each; a deletion has its object first and its children
then, while others still hold some. `pending` and `locked` are what a request has written and locked and not
committed. A request waits for a lock another one has, fails if the row it inserts has appeared or the one it
updates is gone, and PostgreSQL fails one of a cycle of waits (`Deadlock`). Each check of a request is a step of its
own: the board as it was loaded, the caller's grant, the widget, the connection. An edit of a saved query may point
it to another connection, which is not looked up (`Rebinds`): the foreign key refuses one that does not exist
(`Unfit`). The widget's place is two
columns that two saved layouts may mix; like a row, a widget is named by the request that created it, so that a late
write to a deleted one fails though another has come. `lost` are the runs
whose caller could use the connection when they were checked and has lost it since.

**Accounts.** An operation is authorized, checks, and writes in separate steps; a write is flush and commit
together. Unique e-mails and the inviter's foreign key make a late write fail.

**Settings.** A save is the sequence of keys its handler writes. `Load` is `get_setting`, `Write` the flush of
the insert, update or delete it decides on, with the row locked until the commit. After the commit of a save of
the Clarity settings, `ReadTime`, `ReadZone` and `Apply` are `reschedule_clarity_job`, which reads the rows in a
session of its own and replaces the trigger, `job`, in the process. `Restart` loses what is not committed and sets
the trigger before requests are served.

**ClarityFetch.** A run is one transaction from `Begin` to `Commit` or `Fail`, whoever starts it: the scheduled
job and the manual request differ in nothing but the trigger they record. A snapshot is named by the run that
stored it and its combination, so its date and its outcome are the run's. `FindOld` and `LockOld` are the two
halves of PostgreSQL's DELETE at read committed: the rows its snapshot shows, then a wait for every transaction
that has deleted one of them, then those that are left. The locks (`doomed`) stay until the transaction ends,
across the HTTP calls of the later combinations, and `BreakDeadlock` is the server's way out of a cycle.
`counted` and `saw` remember what the budget was computed from. `Fail` is any way not to commit.

## 3. Runs

| run | bounds | question |
|---|---|---|
| `MCAskServer` | at most 5 queued events before exploration and retries stop emitting | every interleaving of the tasks, the database and the client: types, what the tasks, the queue and the transaction hold of each other, one terminal event, rows all or none, the database's outcome is the one told, a clean exit, the refinement of `AskRun` with its liveness, and that the socket closes |
| `MCAskSession` | 4 queued events, one crash, one cancel | the browser, the endpoint, the network: answers shown are saved, fallback only before the run is announced, each question settles |
| `MCGenerateLoop` | 3 retries, verification on or off | every sequence of verdicts |
| `MCToolLoops` | 3 rounds, 2 tables, 2 queries, 2 calls a turn; four tables, two of one name, and a call that crosses the table limit | every sequence of turns, calls and failures: pairing and limits, conversations both providers accept, what was learned is sent on, termination |
| `MCSchemaPipeline` | 11 databases of up to four tables, both dialects; 2 refreshes; 5 budgets; 467 statements of one to three scopes | what the snapshot says of the catalog, what a failed probe costs, a snapshot that changes by itself, the token budget, false alarms and misses of the verifier |
| `MCSnapshotCache` | 3 requests, 3 structures (one of them empty), 2 languages; symmetric in the requests | concurrent reads, refreshes and suggestions while the database changes |
| `MCChats` | 3 requests, a past turn or none, limits of 2 turns and 4 pieces of text; symmetric in the requests | concurrent questions, patches, deletion and runs in one chat: turns stored whole, the conversation the model is given, records that agree |
| `MCSharing` | 2 requests, 3 people (an administrator, two users), 2 connections, 3 share lists, no row or four at the outset; symmetric in the requests | concurrent replaces, edits, deletions and runs: nothing dangles, failures are races or refused values, a replace is exact, rows need access |
| `MCAccounts` | 4 requests, at most one founder, 3 e-mails; symmetric in the requests | concurrent bootstrap, invite, register, delete |
| `MCSettings` | 3 saves, 2 values, 1 restart; symmetric in the saves | one writer by row, no circle of waiting saves, failures are races, the job follows the settings |
| `MCClarityFetch` | one past run and two more, 2 combinations in either order, 2 days, budget 5 | overlapping fetches, midnight, retries, failures and row locks: what overspends the budget or duplicates a snapshot, how data are lost, that the status is true, and that a run ends |

The properties are in the modules, each with a comment. `ServerInv`, `GenerateInv`, `CacheOK`, `AccountsOK`,
`FetchInv`, `ToolInv`, `ChatsInv`, `SharingInv` and `SettingsInv` are conjunctions of named parts, the type
invariant first; the parts are the definitions above them. `LearningInv` joins the two about what a tool loop learns.

The bounds. Five events are enough for `run_started`, its status, one exploration or retry, the terminal event and
the sentinel, so that the terminal event meets both an empty and a full queue; a longer queue adds only more
`progress`. Three attempts with a retry show first, middle and last attempts. In `ToolLoops` two calls in one turn
cross a limit between them, three rounds contain a first, a middle and a forced last one, and a request for two
tables crosses the table limit within one call. In `SchemaPipeline` each database is there for one rule (the
comments in `MCSchemaPipeline` say which), two refreshes compare two readings, and the budgets hold nothing, one
table, two, and all. In `SnapshotCache` two requests are enough for every pairwise race, and the third makes a
request meet the outcome of a race; three structures allow a change away from and back to a structure with the
empty one in between. In `Chats` the third request looks at what two racing ones leave, and the limits cut a history
of three turns. In `Sharing` two requests race on one row, and two replaces of two rows are the smallest
that can deadlock; the three people are an owner, a stranger and an administrator, each with and without a share, and
the share lists grant to nobody, to two at one level, and to one at another, so that a replace removes, changes and
inserts. In `Accounts` four requests cover two invitations and two
registrations that race for one e-mail, and an invitation, a registration and two administrators who delete each
other; the founder may be absent, which opens bootstrap. In `Settings` three saves allow a circle of three and a
rescheduling overtaken by another one's commit before a third's. In `ClarityFetch` the past run and the budget of 5
leave one of two overlapping runs a full plan and the next one a part of it, so that the budget is overspent in a
race, cuts a plan short and is exhausted; two combinations in two orders are the smallest cycle of row locks; the
second day puts a midnight between any two steps.

### Exceptions the properties had to make

What could not be stated without an exception says something about the code, and the exception is part of the
property:

* `RecordsAgreeUnlessRaced`: two runs of one turn that overlap may leave the statement of one with the sample of the
  other (`execute.py:58`, and only changed columns are written).
* `FailuresAreRaces`, of `Sharing` and of `Settings`: the check-then-insert of shares, access rows, descriptions and
  settings answers 500 when another request inserted the row meanwhile. In `Sharing` a request also fails, alone, by
  sending what the database refuses (a null flag; a connection there is none of, `saved_queries.py:116`), and two
  replaces or deletions that cross may deadlock, with nobody committed: the victim answers 500.
* `ReplaceIsExact`: a set replaced while another request changes it may end as a mixture.
* `RowsNeedAccess`: who loses the connection between the check of a run and its rows is still shown them; nobody else.
* `PlaceIsOneSave`: two layouts saved at once may put a widget where neither did.
* `TablesBounded`: the table limit is checked before a call, which may detail several tables.
* `SelectionFits`: the text may exceed the budget by a separator's token, by a first table that alone exceeds it, and
  by tables that share a bare name; the sentence that stands for an empty database is sent unmeasured.
* `SnapshotTellsTheCatalog`: a list may be sampled, or come of a CHECK the search misreads: a negated one, one beside
  an alternative, or one about something whose text only ends in the column's name. Such a list leaves out values
  the database admits.
* `StableUpToValues`: sampled values, MySQL CHECK lists that could not be read, and columns named by several CHECKs.
* `NoFalseAlarm`: hidden columns such as `ctid`, whole-row references and every name a column alias list gives
  (`WITH t(a) AS ...`, `AS o(oid)`) are reported as unknown.
* `MissesAreExplained`: the verifier is lenient where `Lenient` says, lets pass a name an alias list has taken away, and
  reports nothing of a statement sqlglot cannot analyse.
* `RefetchReplaces`: a refetch the API refuses loses the data it was to replace; its error row has no payload and the
  readers pass it over.
* `ConversationIsTheChats`: where two questions were asked at once, an answer may be missing from the history or stand
  behind the other's question.
* `JobFollowsSettings`: a rescheduling that read before another save committed, and applies after that one's, leaves
  the older time; so does one that cannot read.
* `OverspentMeansRace`, `DuplicatesMeanRace`: only runs that overlapped, or a midnight, overspend or duplicate.

### Where the code does less than a text says

`MCNoDoubleSpend` ends in a violation: `askSocket.ts:4-7` says the caller can retry over HTTP without
double-spending tokens; the start timer may fire while `run_started` is on the wire and the AI is already working.

More such disagreements are stated as definitions in the modules, each named after what the text promises; no
configuration asks for them, and TLC refutes each one when its name is put into the component's configuration:

| definition | said | the trace shows |
|---|---|---|
| `AskServer!CancelledLeavesNoRow` | `ask_ws.py:20-22`: a cancelled run leaves no history row | the cancel lands between COMMIT sent and COMMIT answered |
| `AskServer!StartedRunIsAnswered` | `ask_ws.py:13-17`: then exactly one of `final_result`, `error`, `cancelled` | COMMIT or ROLLBACK raises; the flow task dies unseen and the socket closes silently |
| `AskServer!UsageNeverFailsTheRun` | `ask_flow.py:233`: usage tracking must never fail the request | the failed flush is swallowed, the session is not: the next statement or COMMIT raises |
| `SnapshotCache!HighestIsCurrent` | `docs/architecture.md:279`: the highest version is the current schema | an older introspection commits after a newer one |
| `Accounts!AnAdminRemains` | `docs/security.md:110`: the system refuses to delete the last administrator | two administrators delete each other |
| `ClarityFetch!RefetchKeepsData` | `fetcher.py:108`: a refetch for the same day replaces the previous snapshot | the API refuses the refetch; the answer is gone and the row in its place is empty |
| `SchemaPipeline!OnlySimpleChecksAreRead` | `introspect.py:89-90`: returns None for anything not confidently a single-column string membership check | the values of `lower(level)`, or of a negated membership, are listed for the column |
| `SchemaPipeline!AcceptedIsNotCorrected` | `sql_verify.py:10-13`: the checks are biased toward false negatives | a column named by an alias list is reported as unknown |
| `Sharing!FullSetIsReplaced` | `dashboards.py:280`: replace a dashboard's full set of per-user grants | two replaces at once leave a mixture |
| `Sharing!SharedQueriesRun` | `models/saved_query.py:4`: a shared query is visible, and runnable, by every panel user | a user without access to its connection is refused; the code protects the rows, `RowsNeedAccess` |
| `Sharing!EditorsMayEdit` | `dashboards.py:129-137`: an edit needs the right to edit the dashboard | the share is taken back between the check and the write |
| `Chats!RenameIsKept` | `chat_context.py:175`: the first question names the chat unless the user renamed it | the first question, asked before the rename, writes its own title after it |

Three related races were met and have no definition of their own: two bootstraps may both count no account and
both create an administrator (`auth.py:52`); two refreshes may store the same version (the index on
connection and version is not unique), and an invitation may be accepted a second time by a registration that
read it before the first one, once the first one's account has been deleted. Seen in the code and not modelled:
renaming a metric or a connection to a taken name answers 500, where creating one answers 409.

### Fairness

`AskServer` assumes weak fairness of each task, of the database's answer and of the coordinator: every await of the
endpoint returns (the start wait has a timeout, the provider and connector calls have theirs, the queue is
unbounded, and uvicorn's keep-alive closes a socket nobody reads), and asyncio resumes what is ready. The client
owes nothing: it may never send, cancel or leave. `AskSession` adds fairness of the browser's event loop and of the
HTTP run; not of the network, the crash or the user's cancel. `GenerateLoop` and `ToolLoops` are one coroutine each:
weak fairness of its step, since each provider call and each query returns or times out; that the loops end is then
the limits' doing, not the model's. `ClarityFetch`: each await of a run returns (the HTTP client has a timeout,
PostgreSQL grants a lock when its holder is gone), and PostgreSQL's deadlock detector fails one of two transactions
that wait for each other; nobody has to start a run, and midnight need not come.

`SnapshotCache`, `Accounts`, `Chats`, `Sharing`, `Settings` and `SchemaPipeline` are checked for safety only: a
request there may stop anywhere, so no fairness is assumed and no liveness claimed. TLC checks them for deadlock,
which in `Chats`, `Sharing` and `Settings`, where requests wait for each other's locks, is a question of its own: the
only states without a next step are those where all is over, and these loop (`Over`). Only `MCClarityFetch` does
without, since its runs really end.

## 4. Proofs

TLAPS proves, for every value of the constants, from the named assumptions on them:

* `AskProofs`, of `AskServer`: `TypeCorrect`, `RunInvHolds`, `ExitInvHolds`, `OneTerminalEvent`, `TellsTheTruth`,
  `AllOrNothing`, `StopIsFinal`, `ExitIsClean` (`CleanExit`), `ServerIsSound` (`ServerInv`), and `RunIsKept`: every
  step is a step of `AskRun` or none. Of `AskSession`: `SessionHolds`, `SessionIsSound` (`SessionInv`),
  `AnswersAreSaved` (`ShownAnswerIsSaved`). Of `GenerateLoop`: `TypeAndLoop`, `Conversation`, `Outcome`,
  `RowIsTrue`, `Bounded`, `LoopIsSound`.
* `SchemaProofs`, of `SnapshotCache`: `TypeAndCache`, `VersionsAreChanges`, `QuestionsFit`, `EmptyNotCached`,
  `ServedRows`, `CacheIsSound`. Of `SchemaPipeline`: `RefreshIsIsolated` (`PipelineInv`), `SnapshotIsTheCatalog`
  (`SnapshotTellsTheCatalog`), `RefreshesAgree` (`StableUpToValues`), `NothingSlipsThrough` (`MissesAreExplained`),
  `NobodyIsCorrectedForNothing` (`NoFalseAlarm`), `EveryQuestionFits` (`SelectionFits`).
* `AccountsProofs`: `TypeAndAccounts`, `OneLivingAccount`, `AcceptedIsTrue`, `OnlyRacesLoseAdmins`, and
  `AccountsAreSound`.
* `SettingsProofs`: `SavesHold`, `SavesAreSound`, `JobIsTrue`.
* `SharingProofs`: `BoardHolds`, and all four properties of the run: `BoardIsSound` (`SharingInv`), `OnlyRacesFail`,
  `ReplacesAreExact`, `RowsAreAllowed`.
* `ChatsProofs`: `ChatHolds`, `ChatIsWhole` (`ChatsInv`), `RecordsAgree` (`RecordsAgreeUnlessRaced`), `ModelIsTold`
  (`ConversationIsTheChats`).
* `ClarityFetchProofs`: `RunsInvHolds`, `FetchIsSound` (`FetchInv`), `RefetchesReplace` (`RefetchReplaces`).
* `ToolLoopsProofs`: `LoopHolds`, `LoopsAreSound` (`ToolInv`), `ConversationIsAccepted` (`AcceptedByProviders`),
  `WhatIsLearnedIsKept` (`LearningInv`).

Each follows one pattern: the property is a conjunct or a consequence of an inductive invariant that TLC has
checked as well; one lemma per group of conjuncts shows that each action preserves it.

* `RunInv`. That a terminal event is queued last is not inductive: one has to know who may still queue
  something. `QueueInv` says the queue is free of terminals while the flow runs or is being stopped, `FlowInv`
  ties the coordinator's phase to the flow's, `TxInv` and `PendingInv` say what the transaction holds at each
  await, so that a successful COMMIT saves exactly the run's rows.
* `ExitInv`. The coordinator's silence at the close is the database's doing: `ToldInv` follows what the queue and
  the client hold from the flow's end to the close, `SenderInv` says that the sender takes events in order and is
  gone, with the queue drained, before the socket closes.
* `RunIsKept`. `AskRun` sees only whether the rows are saved, what was told and whether it is over. Under `TypeOK`
  and `RunInv` each action maps to one of its steps or to a stutter (`StepIsRunStep`): a COMMIT to the save, the
  sender's terminal event to the telling. `RunIsImplemented` adds the fairness of `AskRun`, which is TLC's part.
* `SessionInv`. `PageInv` says that a page that waits has been sent nothing and that only a page that gave up has
  posted. After a crash the tasks stop where they are, and `RunInv` with them: `CrashLeaves` says what they leave,
  that a COMMIT the database has in hand is whole and nobody was told of it.
* `RunsInv` of `ClarityFetch`. `BudgetInv` says that a run's plan and what it counted fit the budget, `SawInv` that
  what a run counted was logged and that counting is transitive, `RowInv` that a run has deleted every snapshot of
  its combinations so far whose run it counted, and that no two runs delete the same one. That only races overspend
  is then an argument by minimality: of a least set of runs that overspends and of which each counted or was
  counted by each other, one has counted all others (`LastToCount`), and its plan left them room. Sums over finite
  sets are proved from their definition by the same principle (`Smallest`, from the well-foundedness of strict
  inclusion): the library's induction takes an operator, this takes a set of counterexamples.
* `GenerateInv`. `LoopInv` relates the number of replies, the retry count and the program counter; `OutcomeInv` says when an
  outcome carries a failed verification. `Attempts` is positive for every setting, a negative one included.
* `CacheInv`. `RowsInv` says a row is visible exactly when its request is done, `HeldInv` that a held copy of
  the questions fits the row it came from; with these a late write cannot attach questions to another structure.
* `RefreshInv` of `SchemaPipeline`. `Refreshed` says of the snapshot under construction and of the stored one alike
  what a refresh has done so far: the shape is the catalog's, each list is one the catalog gives or one a probe
  saw, what is left is a part of what was to be probed, and a place that has neither a list nor a failed
  probe of its own is one no list could be made for. That a list leaves out no value the database admits
  (`SnapshotTellsTheCatalog`) then follows clause by clause, for the clauses that are not misread. On top of
  `PipelineInv` it says that a transaction is never aborted, which is the savepoint's doing: an aborted one would cost the places that come after. `Shaped` leaves
  the foreign keys to `ForeignKeys`; that these are the constraints, one each, with their pairs of columns, is `KeysAre`.
  Databases and limits are any (`SourcesAssumption` asks of a catalog that its columns and rows come in a
  finite order and its clauses and values are finitely many).
* `VerifiedInv`, on top of `RefreshInv`: a report is of the snapshot stored and of a statement of the model. The two
  verdicts are then compared name by name. Where a scope can be enumerated, what the verifier finds the database
  finds (`HadIsGiven`) and conversely (`GivenIsHad`), but for names an alias list gives or takes away: both follow
  stars through nested scopes, and a snapshot's tables
  are those a name can mean, one of each schema and name (`NamesAssumption`). What the verifier looks up is what
  the database does because the scopes a scope may use begin with the nearest that introduces the name
  (`FirstSeen`). Scopes come outermost first, the reverse of sqlglot's order, and read scopes of the
  statement (`StatementsAssumption`). The two implications need not have the same exceptions: `OneMiss` and
  `MissOrLenient` take the one way, `ResolvedIsNoMiss` the other, and `MissNames` says what a correction is shown.
* `SelectedInv`: a selection is of the snapshot stored, whose shape `RefreshInv` gives; the rest is about what one
  selection computes (`SelectIs`). Of the tables chosen so far `Fitting` says that no two share a name and that
  more than one of them fit the budget, and `Tried` says of a table looked at that it was chosen or did not fit
  beside some of those chosen; later ones only lengthen the text (`JoinedInto`), so it does not fit at the end
  either. Sent are the tables chosen, and where names are distinct no others (`SentIs`): as many texts in another
  order, no longer than those measured. The theorem's hypothesis `TextsHaveLengths` says that a length is a
  natural number, for every table; `LimitsAssumption` says it of the limits.
* `AccountsInv`. That two accounts never share an invitation rests on two facts together: a registration past
  its checks has the invitation's e-mail (`InvitedInv`), and living accounts have different e-mails
  (`SettledInv`). `DeleteInv` says that a deletion nobody overtook still has a living administrator as its
  caller, other than its target.
* `SavesInv`. That saves never wait in a circle follows from an order: `Rank` orders the keys, and `PlanInv` says
  that what a save still has to write ranks above all it holds. It holds for a circle of any length, TLC's
  configuration shows three. `LoadInv` (a save nobody overtook has loaded what is there) makes failures races.
  `ReadInv` says the same of a rescheduling, and with `PlanInv` (only a save of the Clarity settings touches
  the schedule, and that one reschedules) makes the trigger the settings'.
* `BoardInv`. Two parts by request: what it asks for and holds (`WantInv`, `HoldInv`, `OpInv`), true whatever
  others do, and `Fresh`, which says that what it has read and checked is still so and which lasts until another
  request commits. `Affects` is the frame: a step of one request deletes and writes only what it has locked, so that
  it can cost another nothing but its `Fresh`, and then `disturbed` says so, or a run its permission, and then `lost`
  does (`RunInv`; `OthersKeep`). At the commit `Fresh` is the property to prove: each row of a replace's scope ends
  at the level asked for. That a layout's place is one save's uses that places are pairs (`SharingAssumption`):
  written over the place that was read, every column is the new one or unchanged.
* `FailuresAreRaces`, of `Sharing`: a request that is `Fresh` and sends nothing unfit finds everything its flush needs
  (`FreshDoesNotFail`). Of a deadlock: what a request holds and what it needs next are different things, both among
  those it touches (`HoldersAreAtWork`); in a cycle of waits everybody holds something and needs something, so the
  victim and the one it waits for each have a thing besides the one they meet at (`VictimsCross`).
* `ChatInv`. That a turn appears whole rests on the ids its question has taken: nothing is stored under them, no
  other question has them (`IdsInv`, `LockInv`), and nothing of the turn is stored before (`OwnerInv`). That a
  chat with turns has a name uses `TitleInv`: a question that read a name, and so will set none, still finds one.
  `PlainStep` is the frame for all steps that neither store nor delete a turn. That a turn and its history row are
  raced separately uses that a message id is never the name of a turn (`ChatsAssumption`).
* `ModelInv`. What a question reads is whole turns (`RowsPaired`, from `TurnsWhole` of that moment); the rest is about
  what `History` computes of such rows. `InOrder`, the k-th least number of a set for each k, lists the set: the
  places of its numbers are an injection into as many places. So the history is an image, in order, of the rows
  kept from some question on (`HistoryIs`), and each of its messages tells one row (`TellsOne`). `LatestAre` says that
  the questions kept are the latest and that one more would break a limit, `TurnsAre` that a question is followed by
  its answer: between a question and its answer lies nothing but rows of questions asked at once with it
  (`AnswerFollows`). `SamplesAre` says which answer's sample a question carries.
* `LoopInv`. While a turn is executed the last message holds its calls and the results so far are a prefix of
  their answers (`Paired`); outside, every assistant message is answered by the next (`AllAnswered`), and a step
  that appends a user message keeps that. `RoundsLeft` says that the model is only called again below the limit
  of rounds; the limit may be any integer, and the first call is made whatever it is.
* `AcceptInv`, on top of `LoopInv`. Each message has one of three shapes (`Shaped`), and what has been sent in
  OpenAI's form is acceptable, but for the open calls of the turn that is executed (`SentInv`). A turn's answers
  are then appended behind their calls (`AcceptsTurn`); for Anthropic's form the shapes suffice.
* `LearnInv`. What the tool results told, those of the open turn included (`Heard`), is what the loop has noted:
  the tables expanded, the findings. That the tables sent on are as many as those shown uses that a snapshot has
  one table of each schema and name (`SnapshotsAssumption`; `introspect.py` keeps them in a dictionary).

The library's induction theorems take an operator, which no prover here can instantiate. Where a recursion over
data is needed (`FlattenSeq`, `ElementsAt`, `Chain`, sums over finite sets) the proofs take a least counterexample
instead: the places where a claim fails are a set of numbers, and a set of numbers has a least one. The sums and
folds of a selection (`Total`, `AddAll`, `Seeded`) are recursive functions for the same reason: `Upwards` is that
argument once and for all, and `Recursion` proves by it that such a function has a solution.

Only model-checked: the liveness properties (`EventuallyClosed`, `QuestionSettles`, `Terminates`, `LoopEnds`,
`EveryRunEnds`) and the fairness the refinement of `AskRun` states, as liveness is beyond the prover; and the
statements the code breaks, which no theorem can state. Every safety invariant the passing runs check is a theorem.

## 5. What is not modelled

Within modelled parts: wording and payload of events, login and the language preference, password and token
hashing, a second question asked while one runs, cancellation of the endpoint's own coroutine at server
shutdown, and the worker threads that go on after a cancelled await (their results are dropped). The start
timeout and the user lookup of a WebSocket run are one step. A lost cache entry in `suggested_questions` is
reproduced by `Suggested`, and no property objects.

In `ClarityFetch` a missing token is a failure, the budget query reads the clock and the log at one moment, and the
requests behind one attempt are not counted: the client sends a second one after a transient failure
(`client.py:68`) and a run that rolls back forgets all of its own (`scheduler.py:38`), so the budget the code keeps
is of attempts logged, not of requests made. When the trigger fires is not modelled.

In `ToolLoops` the estimate of tokens is a cost by table, and progress events and prompt texts are left out; what the
providers demand is asked of the messages alone, not of the tools sent with them, which a forced answer leaves out
(`anthropic_provider.py:168`). In `SchemaPipeline` the relevance scores are any ranking, the length of a table's text
is a linear function of its columns and keys, parsing belongs to sqlglot, a column holds each of its values in one
row, and a refresh fails as a whole only while the catalog is read. In `Sharing` there is one widget, its title and
chart are not told apart, and a name, a title or a statement sent as null is not among the requests; past rows have
one order of ids. In `Chats` a result is one of two samples, the AI's answer is the run's name, and the title is never
"New chat" again once a question or a patch has set it: a blank one would leave it.

In `AskServer` a COMMIT that is on its way when the coordinator rolls back is taken not to be applied, unless the
process dies (`Crash`). In `Settings` a save that is refused is refused when it reads a setting, not between the lock
and the next read, and a change waits for every uncommitted change of its key, an insert PostgreSQL would not show
it included.

Whole parts: the SQL guard is a walk over sqlglot's parse tree whose verdict `GenerateLoop` takes as given;
prompt texts, CSV export, EXPLAIN, result summaries, and token prices are text and arithmetic; the admin reports and
the other pages read what other components write; `config.py`, `main.py` and the migrations configure. Creating and
testing connections, metrics of the glossary and login write single rows no modelled component waits for.

## 6. Plan

Metrics of the glossary and the connection's own row, as further replaced and renamed rows of `Sharing`.
