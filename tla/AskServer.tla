------------------------------ MODULE AskServer ------------------------------
(***************************************************************************)
(* One run of the Ask WebSocket endpoint (routers/ask_ws.py): three asyncio *)
(* tasks share one panel-database session and one event queue.             *)
(*                                                                         *)
(*   flow     runs the question through run_ask_flow and commits           *)
(*   watcher  waits for a cancel message or for the socket to die          *)
(*   sender   forwards queued events to the socket, numbering them         *)
(*                                                                         *)
(* and the endpoint's own coroutine, the coordinator, starts them, stops   *)
(* the flow when the client cancels or leaves, and drains the sender.      *)
(* asyncio runs one task at a time, so a step is the code between two      *)
(* awaits; a cancellation lands on whatever await the flow is suspended in.*)
(***************************************************************************)
EXTENDS Naturals, Sequences

CONSTANT
  MaxEvents   \* bound: exploration and retries emit while fewer are queued

ASSUME MaxEventsAssumption == MaxEvents \in Nat

VARIABLES
  chat,      \* is the run bound to a chat session ('start' carried chat_id)?
  coord,     \* where the coordinator is
  flow,      \* the flow task: its next await, or how it ended
  session,   \* the panel session's transaction
  pending,   \* rows flushed in that transaction
  db,        \* rows of this run that are committed
  spent,     \* has the AI provider been called?  (history variable)
  events,    \* every event put on the queue, in order, and the sentinel
  sent,      \* how many of them the sender has sent: the last one's seq
  sender,    \* the sender task
  watcher,   \* the watcher task, and its verdict once it returns
  inbox,     \* messages the client has sent
  peer       \* is the client's end of the socket open?

txVars     == <<session, pending, db>>
senderVars == <<sent, sender>>
clientVars == <<inbox, peer>>
vars == <<chat, coord, flow, txVars, spent, events, senderVars, watcher, clientVars>>

-----------------------------------------------------------------------------

Terminals == {"final_result", "error", "cancelled"}
Events    == {"run_started", "progress", "stop"} \cup Terminals
Rows      == {"history", "usage", "turn"}
FlowEnds  == {"done", "raised", "cancelled"}
FlowSteps == {"idle", "load", "schema", "explore", "generate", "awaiting",
              "history", "usage", "persist", "commit", "committing", "failing"}

TasksOK ==
  /\ chat \in BOOLEAN /\ spent \in BOOLEAN /\ peer \in BOOLEAN
  /\ coord \in {"accepting", "running", "stopping", "draining", "closed"}
  /\ flow \in FlowSteps \cup FlowEnds
  /\ session \in {"usable", "poisoned", "committing", "committed", "failed"}
  /\ sender \in {"idle", "sending", "done", "failed"}
  /\ watcher \in {"idle", "reading", "cancel", "disconnect"}

RowsOK   == pending \subseteq Rows /\ db \subseteq Rows
EventsOK == events \in Seq(Events) /\ sent \in 0..Len(events)
InboxOK  == inbox \subseteq {"start", "cancel"}

TypeOK == TasksOK /\ RowsOK /\ EventsOK /\ InboxOK

Init ==
  /\ chat \in BOOLEAN
  /\ coord = "accepting"
  /\ flow = "idle"
  /\ session = "usable" /\ pending = {} /\ db = {}
  /\ spent = FALSE
  /\ events = <<>>
  /\ sent = 0 /\ sender = "idle"
  /\ watcher = "idle"
  /\ inbox = {} /\ peer = TRUE

Emit(e) == events' = Append(events, e)

-----------------------------------------------------------------------------
(* Accepting: the first message must be a valid, authenticated 'start'.    *)

\* The three tasks are created together.
AcceptStart ==
  /\ coord = "accepting" /\ "start" \in inbox
  /\ coord' = "running" /\ flow' = "load" /\ sender' = "sending" /\ watcher' = "reading"
  /\ UNCHANGED <<chat, txVars, spent, events, sent, clientVars>>

\* No message within the start timeout, a malformed one, or a bad token: the
\* endpoint sends an error itself, with no tasks running, and closes.
Reject ==
  /\ coord = "accepting" /\ peer
  /\ Emit("error") /\ sent' = 1
  /\ coord' = "closed"
  /\ UNCHANGED <<chat, flow, txVars, spent, sender, watcher, clientVars>>

\* The client leaves, or the panel database fails while its token is resolved:
\* the endpoint ends without a word.
EndUnstarted ==
  /\ coord = "accepting" /\ (~peer \/ "start" \in inbox)
  /\ coord' = "closed"
  /\ UNCHANGED <<chat, flow, txVars, spent, events, senderVars, watcher, clientVars>>

-----------------------------------------------------------------------------
(* The flow task.  It steps only while nobody has cancelled it.            *)

At(f) == coord = "running" /\ flow = f

\* Chat lookup and load_connector succeed: the run is announced.
FlowLoad ==
  /\ At("load") /\ flow' = "schema"
  /\ events' = events \o <<"run_started", "progress">>
  /\ UNCHANGED <<chat, coord, txVars, spent, senderVars, watcher, clientVars>>

\* A non-empty schema snapshot, the glossary and the prompt are at hand.
FlowSchema ==
  /\ At("schema") /\ flow' = "explore"
  /\ UNCHANGED <<chat, coord, txVars, spent, events, senderVars, watcher, clientVars>>

\* One provider call of the discovery or analysis loop.
FlowExplore ==
  /\ At("explore") /\ Len(events) < MaxEvents
  /\ Emit("progress") /\ spent' = TRUE
  /\ UNCHANGED <<chat, coord, flow, txVars, senderVars, watcher, clientVars>>

FlowExplored ==
  /\ At("explore") /\ flow' = "generate"
  /\ UNCHANGED <<chat, coord, txVars, spent, events, senderVars, watcher, clientVars>>

\* generating_sql is emitted and the provider is called.
FlowGenerate ==
  /\ At("generate") /\ flow' = "awaiting"
  /\ Emit("progress") /\ spent' = TRUE
  /\ UNCHANGED <<chat, coord, txVars, senderVars, watcher, clientVars>>

FlowRetry ==
  /\ At("awaiting") /\ Len(events) < MaxEvents /\ flow' = "generate"
  /\ Emit("progress")
  /\ UNCHANGED <<chat, coord, txVars, spent, senderVars, watcher, clientVars>>

FlowGenerated ==
  /\ At("awaiting") /\ flow' = "history"
  /\ UNCHANGED <<chat, coord, txVars, spent, events, senderVars, watcher, clientVars>>

FlowHistory ==
  /\ At("history") /\ flow' = "usage"
  /\ pending' = pending \cup {"history"}
  /\ UNCHANGED <<chat, coord, session, db, spent, events, senderVars, watcher, clientVars>>

\* Mutant of FlowUsage: a failed flush drops the rows and leaves the session
\* usable.
FlowUsageLosesRows ==
  /\ At("usage") /\ flow' = IF chat THEN "persist" ELSE "commit"
  /\ pending' \in {pending, pending \cup {"usage"}, {}}
  /\ UNCHANGED <<chat, coord, session, db, spent, events, senderVars, watcher, clientVars>>

\* record_usage swallows a failed flush, but SQLAlchemy has then rolled the
\* whole transaction back and refuses everything except rollback().
FlowUsage ==
  /\ At("usage") /\ flow' = IF chat THEN "persist" ELSE "commit"
  /\ \/ \E written \in SUBSET {"usage"} : pending' = pending \cup written /\ UNCHANGED session
     \/ pending' = {} /\ session' = "poisoned"
  /\ UNCHANGED <<chat, coord, db, spent, events, senderVars, watcher, clientVars>>

FlowPersist ==
  /\ At("persist") /\ session = "usable" /\ flow' = "commit"
  /\ pending' = pending \cup {"turn"}
  /\ UNCHANGED <<chat, coord, session, db, spent, events, senderVars, watcher, clientVars>>

\* Any expected or unexpected exception inside the flow's try block.
FlowFail ==
  /\ coord = "running"
  /\ flow \in {"load", "schema", "explore", "awaiting", "history", "persist"}
  /\ flow' = "failing"
  /\ UNCHANGED <<chat, coord, txVars, spent, events, senderVars, watcher, clientVars>>

\* Mutant of FlowRollback: the error is queued without the rollback.
FlowErrorOnly ==
  /\ At("failing") /\ flow' = "done" /\ Emit("error")
  /\ UNCHANGED <<chat, coord, txVars, spent, senderVars, watcher, clientVars>>

\* The except clauses: roll back, then queue the error.
FlowRollback ==
  /\ At("failing") /\ flow' = "done"
  /\ pending' = {} /\ session' = "usable"
  /\ Emit("error")
  /\ UNCHANGED <<chat, coord, db, spent, senderVars, watcher, clientVars>>

\* The rollback itself raises (the panel connection is gone).
FlowRollbackRaises ==
  /\ At("failing") /\ flow' = "raised"
  /\ pending' = {} /\ session' = "failed"
  /\ UNCHANGED <<chat, coord, db, spent, events, senderVars, watcher, clientVars>>

\* Mutant of FlowCommit: final_result is queued before the commit.
FlowAnnounceThenCommit ==
  /\ At("commit") /\ session = "usable"
  /\ flow' = "committing" /\ session' = "committing"
  /\ Emit("final_result")
  /\ UNCHANGED <<chat, coord, pending, db, spent, senderVars, watcher, clientVars>>

\* COMMIT goes out; on a poisoned session it raises at once.  It is outside the
\* try block: an exception here ends the task.
FlowCommit ==
  /\ At("commit")
  /\ IF session = "usable"
     THEN flow' = "committing" /\ session' = "committing"
     ELSE flow' = "raised" /\ UNCHANGED session
  /\ UNCHANGED <<chat, coord, pending, db, spent, events, senderVars, watcher, clientVars>>

FlowCommitted ==
  /\ At("committing") /\ session = "committed" /\ flow' = "done"
  /\ Emit("final_result")
  /\ UNCHANGED <<chat, coord, txVars, spent, senderVars, watcher, clientVars>>

\* The database refused the commit, or its answer was lost with the connection.
FlowCommitRaises ==
  /\ At("committing") /\ session \in {"committed", "failed"} /\ flow' = "raised"
  /\ UNCHANGED <<chat, coord, txVars, spent, events, senderVars, watcher, clientVars>>

\* CancelledError lands on the await the flow is suspended in.  It is no
\* Exception: no except clause runs and nothing is queued.
FlowCancelled ==
  /\ coord = "stopping" /\ flow \notin FlowEnds /\ flow' = "cancelled"
  /\ UNCHANGED <<chat, coord, txVars, spent, events, senderVars, watcher, clientVars>>

-----------------------------------------------------------------------------
(* The panel database answers a COMMIT in flight.                          *)

DbCommit ==
  /\ session = "committing" /\ session' = "committed"
  /\ db' = db \cup pending /\ pending' = {}
  /\ UNCHANGED <<chat, coord, flow, spent, events, senderVars, watcher, clientVars>>

DbCommitFails ==
  /\ session = "committing" /\ session' = "failed" /\ pending' = {}
  /\ UNCHANGED <<chat, coord, flow, db, spent, events, senderVars, watcher, clientVars>>

-----------------------------------------------------------------------------
(* Watcher and sender.                                                     *)

WatchCancel ==
  /\ watcher = "reading" /\ "cancel" \in inbox
  /\ watcher' = "cancel"
  /\ UNCHANGED <<chat, coord, flow, txVars, spent, events, senderVars, clientVars>>

WatchDisconnect ==
  /\ watcher = "reading" /\ ~peer
  /\ watcher' = "disconnect"
  /\ UNCHANGED <<chat, coord, flow, txVars, spent, events, senderVars, clientVars>>

\* The sender takes the next event; the sentinel ends it.
SenderSend ==
  /\ sender = "sending" /\ sent < Len(events)
  /\ IF events[sent + 1] = "stop"
     THEN sender' = "done" /\ UNCHANGED sent
     ELSE sent' = sent + 1 /\ UNCHANGED sender
  /\ UNCHANGED <<chat, coord, flow, txVars, spent, events, watcher, clientVars>>

\* Sending on a dead socket raises and ends the task.
SenderFails ==
  /\ sender = "sending" /\ sent < Len(events) /\ events[sent + 1] # "stop" /\ ~peer
  /\ sender' = "failed"
  /\ UNCHANGED <<chat, coord, flow, txVars, spent, events, sent, watcher, clientVars>>

-----------------------------------------------------------------------------
(* The coordinator.                                                        *)

\* Mutant of CoordFlowDone: the sentinel is forgotten.
CoordNoSentinel ==
  /\ coord = "running" /\ flow \in FlowEnds /\ coord' = "draining"
  /\ UNCHANGED <<chat, flow, txVars, spent, events, senderVars, watcher, clientVars>>

\* The flow ended, by itself: it wins over a watcher that ended too.
CoordFlowDone ==
  /\ coord = "running" /\ flow \in FlowEnds
  /\ coord' = "draining" /\ Emit("stop")
  /\ UNCHANGED <<chat, flow, txVars, spent, senderVars, watcher, clientVars>>

\* Only the watcher ended: flow.cancel().
CoordStop ==
  /\ coord = "running" /\ flow \notin FlowEnds /\ watcher \in {"cancel", "disconnect"}
  /\ coord' = "stopping"
  /\ UNCHANGED <<chat, flow, txVars, spent, events, senderVars, watcher, clientVars>>

\* Mutant of CoordRollback: the transaction is left as it is.
CoordNoRollback ==
  /\ coord = "stopping" /\ flow \in FlowEnds /\ coord' = "draining" /\ Emit("stop")
  /\ UNCHANGED <<chat, flow, txVars, spent, senderVars, watcher, clientVars>>

\* The cancelled flow has unwound: roll back, answer a cancel, end the sender.
CoordRollback ==
  /\ coord = "stopping" /\ flow \in FlowEnds
  /\ coord' = "draining"
  /\ pending' = {} /\ session' = "usable"
  /\ events' = events \o (IF watcher = "cancel" THEN <<"cancelled", "stop">> ELSE <<"stop">>)
  /\ UNCHANGED <<chat, flow, db, spent, senderVars, watcher, clientVars>>

\* Mutant of CoordClose: the socket is closed without draining the sender.
CoordCloseUndrained ==
  /\ coord = "draining" /\ coord' = "closed"
  /\ IF session = "usable" THEN db' = db \cup pending ELSE UNCHANGED db
  /\ pending' = {} /\ sender' = "done"
  /\ UNCHANGED <<chat, flow, session, spent, events, sent, watcher, clientVars>>

\* The sender is drained: the socket is closed, and the session dependency
\* commits whatever its transaction still holds.
CoordClose ==
  /\ coord = "draining" /\ sender \in {"done", "failed"}
  /\ coord' = "closed"
  /\ IF session = "usable" THEN db' = db \cup pending ELSE UNCHANGED db
  /\ pending' = {}
  /\ UNCHANGED <<chat, flow, session, spent, events, senderVars, watcher, clientVars>>

-----------------------------------------------------------------------------
(* The client, as far as the server can see it.                            *)

ClientSend(m) ==
  /\ peer /\ m \notin inbox /\ (m = "cancel" => "start" \in inbox)
  /\ inbox' = inbox \cup {m}
  /\ UNCHANGED <<chat, coord, flow, txVars, spent, events, senderVars, watcher, peer>>

\* The client closes its end, or the network does.
ClientGone ==
  /\ peer /\ peer' = FALSE
  /\ UNCHANGED <<chat, coord, flow, txVars, spent, events, senderVars, watcher, inbox>>

Finished ==
  /\ coord = "closed"
  /\ UNCHANGED vars

FlowNext ==
  \/ FlowLoad \/ FlowSchema \/ FlowExplore \/ FlowExplored \/ FlowGenerate
  \/ FlowRetry \/ FlowGenerated \/ FlowHistory \/ FlowUsage \/ FlowPersist
  \/ FlowFail \/ FlowRollback \/ FlowRollbackRaises
  \/ FlowCommit \/ FlowCommitted \/ FlowCommitRaises \/ FlowCancelled
DbNext      == DbCommit \/ DbCommitFails
AcceptNext  == AcceptStart \/ Reject \/ EndUnstarted
WatchNext   == WatchCancel \/ WatchDisconnect
SenderNext  == SenderSend \/ SenderFails
CoordNext   == CoordFlowDone \/ CoordStop \/ CoordRollback \/ CoordClose

ServerNext == AcceptNext \/ FlowNext \/ DbNext \/ WatchNext \/ SenderNext \/ CoordNext
ClientNext == ClientGone \/ \E m \in {"start", "cancel"} : ClientSend(m)

Next == ServerNext \/ ClientNext \/ Finished

\* Every server task is scheduled again and every await it makes returns: the
\* start wait and the provider calls have timeouts, the queue is unbounded, and
\* a socket that stops reading is closed by the keep-alive ping.  The client
\* owes nothing.
Fairness ==
  /\ WF_vars(AcceptNext) /\ WF_vars(FlowNext) /\ WF_vars(DbNext)
  /\ WF_vars(WatchNext) /\ WF_vars(SenderNext) /\ WF_vars(CoordNext)

Safety == Init /\ [][Next]_vars
Spec   == Safety /\ Fairness

-----------------------------------------------------------------------------
(* Properties.                                                             *)

Queued(e) == \E i \in 1..Len(events) : events[i] = e
Told      == \E e \in Terminals : Queued(e)

\* A terminal event is followed by the sentinel and by nothing else, and the
\* sentinel by nothing: at most one of final_result, error and cancelled is
\* queued however the flow, the watcher and the coordinator interleave.
TerminalIsLast ==
  \A i \in 1..Len(events) :
    /\ events[i] \in Terminals => \A j \in (i + 1)..Len(events) : events[j] = "stop"
    /\ events[i] = "stop" => i = Len(events)

\* What the client is told agrees with the panel database: final_result is
\* queued only after the commit is durable, error only when nothing is.
TerminalMatchesDb ==
  /\ Queued("final_result") => "history" \in db
  /\ Queued("error") => db = {}

\* The run's rows are committed together: never a history row without the chat
\* turn it belongs to, nor a turn without its history row.
RowsAllOrNothing ==
  db # {} => "history" \in db /\ ("turn" \in db <=> chat)

\* The inductive strengthening of the three invariants above: who may still
\* queue something, and what the transaction holds at each step of the flow.
Quiet == \A i \in 1..Len(events) : events[i] \notin Terminals \cup {"stop"}

QueueInv ==
  /\ coord = "accepting" => events = <<>>
  /\ coord = "running" => \A i \in 1..Len(events) : events[i] # "stop"
  /\ (coord = "running" /\ flow # "done") \/ coord = "stopping" => Quiet

FlowInv ==
  /\ coord = "accepting" => flow = "idle"
  /\ coord = "running" => flow # "cancelled"
  /\ coord = "stopping" => flow \notin {"done", "raised"}
  /\ coord \in {"draining", "closed"} => flow \in FlowEnds \cup {"idle"}
  /\ flow = "persist" => chat

TxInv ==
  /\ session = "committing" => flow \in {"committing", "cancelled"} /\ coord \in {"running", "stopping"}
  /\ flow = "committing" => session \in {"committing", "committed", "failed"}
  /\ flow \in FlowSteps \ {"committing"} \/ session \in {"committing", "failed"} => db = {}
  /\ flow \in {"idle", "load", "schema", "explore", "generate", "awaiting", "history", "usage"}
       => session = "usable"
  /\ flow \in {"persist", "commit", "failing"} => session \in {"usable", "poisoned"}
  /\ session = "committed" => "history" \in db

PendingInv ==
  /\ session \in {"poisoned", "committed", "failed"} \/ coord \in {"draining", "closed"}
       \/ flow \in {"done", "raised"} => pending = {}
  /\ flow \in FlowSteps \ {"usage", "persist", "commit", "committing", "failing"} => pending = {}
  /\ flow \in {"usage", "persist"} /\ session = "usable" => "history" \in pending /\ "turn" \notin pending
  /\ (flow = "commit" /\ session = "usable") \/ session = "committing"
       => "history" \in pending /\ ("turn" \in pending <=> chat)

RunInv ==
  /\ QueueInv /\ FlowInv /\ TxInv /\ PendingInv
  /\ TerminalIsLast /\ TerminalMatchesDb /\ RowsAllOrNothing

\* The inductive strengthening of CleanExit below: how far the sender may be, and
\* which end of the flow has left the client with an outcome.
SenderInv ==
  /\ coord = "accepting" => sender = "idle" /\ sent = 0
  /\ coord \in {"running", "stopping"} => sender \in {"sending", "failed"}
  /\ coord = "draining" => sender # "idle" /\ Queued("stop")
  /\ coord = "closed" => sender # "sending" /\ (sender = "idle" => sent = Len(events))
  /\ sender = "done" =>
       coord \in {"draining", "closed"} /\ sent + 1 = Len(events) /\ events[sent + 1] = "stop"

ToldInv ==
  /\ coord \in {"accepting", "running"} \/ watcher \in {"cancel", "disconnect"} \/ flow # "cancelled"
  /\ coord = "stopping" => watcher \in {"cancel", "disconnect"}
  /\ flow = "done" => Told
  /\ coord \in {"draining", "closed"} /\ flow = "cancelled" /\ watcher = "cancel" => Told

ExitInv == SenderInv /\ ToldInv

\* Types, and what ties the tasks, the queue and the transaction together at
\* every await of the endpoint (ask_ws.py:66-223).
ServerInv == TypeOK /\ RunInv /\ ExitInv

\* A started run whose client stays connected is left without any terminal event
\* only when the panel database refused a rollback or a commit.
SilenceMeansDbFailure ==
  coord = "closed" /\ flow # "idle" /\ watcher # "disconnect" /\ peer /\ ~Told => flow = "raised"

\* A client that is still connected when the endpoint closes the socket has
\* been sent every queued event before the close.
DrainedBeforeClose ==
  coord = "closed" /\ sender # "failed" =>
    \A i \in 1..Len(events) : events[i] # "stop" => i <= sent

\* When the endpoint returns, no task of it is still running and nothing is
\* left uncommitted in the session it hands back to the pool.
NothingOutlivesTheSocket ==
  coord = "closed" => /\ flow \in FlowEnds \cup {"idle"}
                      /\ sender # "sending"
                      /\ pending = {}

\* How the endpoint leaves (ask_ws.py:216-223): silent only after a database
\* failure, its queue drained, and nothing of it still at work.
CleanExit == SilenceMeansDbFailure /\ DrainedBeforeClose /\ NothingOutlivesTheSocket

\* Once the coordinator has begun to stop a run, only a COMMIT that was already
\* in flight can still change the database.
StoppedRunWritesNothing ==
  [][ (coord \in {"stopping", "draining"} /\ session # "committing") => db' = db]_vars

\* Whatever the client does, the endpoint finishes and closes the socket.
EventuallyClosed == <>(coord = "closed")

\* The terminal event of the run: by TerminalIsLast there is at most one.
Terminal == IF Told THEN CHOOSE e \in Terminals : Queued(e) ELSE "none"

\* The run the client and the database see, without tasks, queue or awaits.
Run == INSTANCE AskRun WITH
  open  <- coord # "closed",
  told  <- Terminal,
  saved <- "history" \in db

\* The endpoint implements AskRun: every step of its tasks is a step of the
\* run as promised, or invisible.
ImplementsAskRun == Run!Spec

\* routers/ask_ws.py, lines 20 to 22: a cancelled run leaves no history row.
CancelledLeavesNoRow == Queued("cancelled") => "history" \notin db

\* routers/ask_ws.py, lines 13 to 17: the progress events of a run are followed
\* by exactly one terminal event (here for a client that stays connected).
StartedRunIsAnswered ==
  coord = "closed" /\ Queued("run_started") /\ peer => Told

\* services/ask_flow.py, line 233: a failure to record token usage never fails
\* the request.
UsageNeverFailsTheRun == session = "poisoned" => flow \notin {"raised", "failing"}

=============================================================================
