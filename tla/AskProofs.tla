------------------------------- MODULE AskProofs -------------------------------
(***************************************************************************)
(* Proofs about one question: the server's run of it (AskServer), which      *)
(* implements AskRun, the page that asked it (AskSession), and the loop that *)
(* generates its SQL (GenerateLoop).  They hold for every bound on progress  *)
(* events and for every number of retries.                                 *)
(***************************************************************************)
EXTENDS AskSession, GenerateLoop, TLAPS

LEMMA EventKinds ==
  /\ {"run_started", "progress", "stop", "final_result", "error", "cancelled"} \subseteq Events
  /\ Terminals \subseteq Events
BY DEF Events, Terminals

\* Rows, events and inbox keep their types: each action adds at most known
\* kinds, and the sender's cursor never passes the end of the queue.
LEMMA StepKeepsRows == RowsOK /\ [Next]_vars => RowsOK'
<1> SUFFICES ASSUME RowsOK, [Next]_vars PROVE RowsOK'
  OBVIOUS
<1> USE DEF RowsOK, Rows, txVars, vars
<1>1. CASE FlowHistory \/ FlowUsage \/ FlowPersist
  BY <1>1 DEF FlowHistory, FlowUsage, FlowPersist
<1>2. CASE FlowRollback \/ FlowRollbackRaises \/ CoordRollback \/ DbCommit \/ DbCommitFails
  BY <1>2 DEF FlowRollback, FlowRollbackRaises, CoordRollback, DbCommit, DbCommitFails
<1>3. CASE CoordClose
  BY <1>3 DEF CoordClose
<1>4. CASE UNCHANGED <<pending, db>>
  BY <1>4
<1> QED
  BY <1>1, <1>2, <1>3, <1>4
     DEF Next, ServerNext, AcceptNext, FlowNext, DbNext, WatchNext, SenderNext, CoordNext,
         ClientNext, Finished, AcceptStart, Reject, EndUnstarted, FlowLoad, FlowSchema,
         FlowExplore, FlowExplored, FlowGenerate, FlowRetry, FlowGenerated, FlowFail,
         FlowCommit, FlowCommitted, FlowCommitRaises, FlowCancelled, WatchCancel,
         WatchDisconnect, SenderSend, SenderFails, CoordFlowDone, CoordStop,
         ClientGone, ClientSend

LEMMA StepKeepsEvents == EventsOK /\ [Next]_vars => EventsOK'
<1> SUFFICES ASSUME EventsOK, [Next]_vars PROVE EventsOK'
  OBVIOUS
<1> USE EventKinds DEF EventsOK, Emit
<1>1. CASE FlowExplore \/ FlowGenerate \/ FlowRetry \/ FlowRollback \/ FlowCommitted \/ CoordFlowDone
  BY <1>1 DEF FlowExplore, FlowGenerate, FlowRetry, FlowRollback, FlowCommitted, CoordFlowDone,
              senderVars
<1>2. CASE FlowLoad
  BY <1>2 DEF FlowLoad, senderVars
<1>3. CASE Reject
  <2>1. events' = Append(events, "error") /\ sent' = 1
    BY <1>3 DEF Reject
  <2>2. Len(events') = Len(events) + 1 /\ events' \in Seq(Events)
    BY <2>1
  <2> QED BY <2>1, <2>2
<1>4. CASE CoordRollback
  <2>1. CASE watcher = "cancel"
    BY <1>4, <2>1 DEF CoordRollback, senderVars
  <2>2. CASE watcher # "cancel"
    BY <1>4, <2>2 DEF CoordRollback, senderVars
  <2> QED BY <2>1, <2>2
<1>5. CASE SenderSend
  BY <1>5 DEF SenderSend
<1>6. CASE UNCHANGED <<events, sent>>
  BY <1>6
<1> QED
  BY <1>1, <1>2, <1>3, <1>4, <1>5, <1>6
     DEF Next, ServerNext, AcceptNext, FlowNext, DbNext, WatchNext, SenderNext, CoordNext,
         ClientNext, Finished, AcceptStart, EndUnstarted, FlowSchema, FlowExplored,
         FlowGenerated, FlowHistory, FlowUsage, FlowPersist, FlowFail, FlowRollbackRaises,
         FlowCommit, FlowCommitRaises, FlowCancelled, DbCommit, DbCommitFails, WatchCancel,
         WatchDisconnect, SenderFails, CoordStop, CoordClose, ClientGone, ClientSend,
         senderVars, vars

LEMMA StepKeepsTasks == TasksOK /\ [Next]_vars => TasksOK'
<1> SUFFICES ASSUME TasksOK, [Next]_vars PROVE TasksOK'
  OBVIOUS
<1> USE DEF TasksOK, FlowSteps, FlowEnds, At, txVars, senderVars, clientVars
<1>1. CASE AcceptNext
  BY <1>1 DEF AcceptNext, AcceptStart, Reject, EndUnstarted
<1>2. CASE FlowNext
  <2>1. CASE FlowLoad \/ FlowSchema \/ FlowExplore \/ FlowExplored \/ FlowGenerate \/ FlowRetry
    BY <2>1 DEF FlowLoad, FlowSchema, FlowExplore, FlowExplored, FlowGenerate, FlowRetry
  <2>2. CASE FlowGenerated \/ FlowHistory \/ FlowUsage \/ FlowPersist \/ FlowFail
    BY <2>2 DEF FlowGenerated, FlowHistory, FlowUsage, FlowPersist, FlowFail
  <2>3. CASE FlowRollback \/ FlowRollbackRaises \/ FlowCommit \/ FlowCommitted
             \/ FlowCommitRaises \/ FlowCancelled
    BY <2>3 DEF FlowRollback, FlowRollbackRaises, FlowCommit, FlowCommitted,
                FlowCommitRaises, FlowCancelled
  <2> QED BY <1>2, <2>1, <2>2, <2>3 DEF FlowNext
<1>3. CASE DbNext \/ WatchNext \/ SenderNext
  BY <1>3 DEF DbNext, DbCommit, DbCommitFails, WatchNext, WatchCancel, WatchDisconnect,
              SenderNext, SenderSend, SenderFails
<1>4. CASE CoordNext
  BY <1>4 DEF CoordNext, CoordFlowDone, CoordStop, CoordRollback, CoordClose
<1>5. CASE ClientNext \/ UNCHANGED vars
  BY <1>5 DEF ClientNext, ClientGone, ClientSend, vars
<1> QED BY <1>1, <1>2, <1>3, <1>4, <1>5 DEF Next, ServerNext, Finished

LEMMA StepKeepsInbox == InboxOK /\ [Next]_vars => InboxOK'
BY DEF InboxOK, Next, ServerNext, AcceptNext, FlowNext, DbNext, WatchNext, SenderNext,
       CoordNext, ClientNext, Finished, AcceptStart, Reject, EndUnstarted, FlowLoad,
       FlowSchema, FlowExplore, FlowExplored, FlowGenerate, FlowRetry, FlowGenerated,
       FlowHistory, FlowUsage, FlowPersist, FlowFail, FlowRollback, FlowRollbackRaises,
       FlowCommit, FlowCommitted, FlowCommitRaises, FlowCancelled, DbCommit, DbCommitFails,
       WatchCancel, WatchDisconnect, SenderSend, SenderFails, CoordFlowDone, CoordStop,
       CoordRollback, CoordClose, ClientGone, ClientSend, clientVars, vars

LEMMA InitIsTyped == Init => TypeOK
<1> SUFFICES ASSUME Init PROVE TypeOK
  OBVIOUS
<1>1. EventsOK
  BY DEF Init, EventsOK
<1> QED BY <1>1 DEF Init, TypeOK, TasksOK, RowsOK, InboxOK, FlowSteps

LEMMA StepKeepsTypes == TypeOK /\ [Next]_vars => TypeOK'
BY StepKeepsTasks, StepKeepsRows, StepKeepsEvents, StepKeepsInbox DEF TypeOK

\* Every reachable state is well typed, whatever the bound on progress events.
THEOREM TypeCorrect == Safety => []TypeOK
BY InitIsTyped, StepKeepsTypes, PTL DEF Safety

-----------------------------------------------------------------------------
(* The transaction of a run: what is flushed, and when it is durable.      *)

TxPart == FlowInv /\ TxInv /\ PendingInv /\ RowsAllOrNothing

LEMMA StepKeepsTx == TasksOK /\ TxPart /\ [Next]_vars => TxPart'
<1> SUFFICES ASSUME TasksOK, TxPart, [Next]_vars PROVE TxPart'
  OBVIOUS
<1> USE DEF TasksOK, TxPart, FlowInv, TxInv, PendingInv, RowsAllOrNothing, FlowSteps, FlowEnds,
            At, txVars, senderVars, clientVars
<1>1. CASE AcceptNext
  BY <1>1 DEF AcceptNext, AcceptStart, Reject, EndUnstarted
<1>2. CASE FlowNext
  <2>1. CASE FlowLoad \/ FlowSchema \/ FlowExplore \/ FlowExplored \/ FlowGenerate
    BY <2>1 DEF FlowLoad, FlowSchema, FlowExplore, FlowExplored, FlowGenerate
  <2>2. CASE FlowRetry \/ FlowGenerated \/ FlowHistory \/ FlowFail
    BY <2>2 DEF FlowRetry, FlowGenerated, FlowHistory, FlowFail
  <2>3. CASE FlowUsage
    BY <2>3 DEF FlowUsage
  <2>4. CASE FlowPersist
    BY <2>4 DEF FlowPersist
  <2>5. CASE FlowRollback \/ FlowRollbackRaises
    BY <2>5 DEF FlowRollback, FlowRollbackRaises
  <2>6. CASE FlowCommit
    BY <2>6 DEF FlowCommit
  <2>7. CASE FlowCommitted \/ FlowCommitRaises \/ FlowCancelled
    BY <2>7 DEF FlowCommitted, FlowCommitRaises, FlowCancelled
  <2> QED BY <1>2, <2>1, <2>2, <2>3, <2>4, <2>5, <2>6, <2>7 DEF FlowNext
<1>3. CASE DbNext
  BY <1>3 DEF DbNext, DbCommit, DbCommitFails
<1>4. CASE WatchNext \/ SenderNext
  BY <1>4 DEF WatchNext, WatchCancel, WatchDisconnect, SenderNext, SenderSend, SenderFails
<1>5. CASE CoordNext
  BY <1>5 DEF CoordNext, CoordFlowDone, CoordStop, CoordRollback, CoordClose
<1>6. CASE ClientNext \/ UNCHANGED vars
  BY <1>6 DEF ClientNext, ClientGone, ClientSend, vars
<1> QED BY <1>1, <1>2, <1>3, <1>4, <1>5, <1>6 DEF Next, ServerNext, Finished

-----------------------------------------------------------------------------
(* The queue of a run: nothing follows a terminal event but the sentinel.  *)

QueuePart == QueueInv /\ TerminalIsLast

LEMMA Appending ==
  ASSUME NEW q \in Seq(Events), NEW e \in Events
  PROVE  /\ Len(Append(q, e)) = Len(q) + 1
         /\ \A i \in 1..Len(q) : Append(q, e)[i] = q[i]
         /\ Append(q, e)[Len(q) + 1] = e
OBVIOUS

\* A step that queues one event of a running flow: a progress event leaves the
\* run without an outcome, a terminal event ends the flow.
LEMMA EmitKeepsQueue ==
  ASSUME EventsOK, QueuePart, coord = "running", flow # "done", NEW e \in Events, e # "stop",
         Emit(e), coord' = "running", e \in Terminals => flow' = "done"
  PROVE  QueuePart'
<1>1. events' = Append(events, e) /\ Len(events') = Len(events) + 1 /\ events'[Len(events) + 1] = e
  BY Appending DEF Emit, EventsOK
<1>2. \A i \in 1..Len(events) : events'[i] = events[i]
  BY Appending DEF Emit, EventsOK
<1>3. Len(events) \in Nat /\ Quiet
  BY DEF EventsOK, QueuePart, QueueInv
<1>4. \A i \in 1..Len(events') : i \in 1..Len(events) \/ i = Len(events) + 1
  BY <1>1, <1>3
<1> QED
  BY <1>1, <1>2, <1>3, <1>4 DEF QueuePart, QueueInv, TerminalIsLast, Quiet

\* Two events the same way; neither ends the flow.
LEMMA EmitTwoKeepsQueue ==
  ASSUME EventsOK, QueuePart, coord = "running", flow # "done",
         NEW d \in Events \ (Terminals \cup {"stop"}), NEW e \in Events \ (Terminals \cup {"stop"}),
         events' = events \o <<d, e>>, coord' = "running"
  PROVE  QueuePart'
<1>1. Len(events') = Len(events) + 2 /\ events'[Len(events) + 1] = d /\ events'[Len(events) + 2] = e
  BY DEF EventsOK
<1>2. \A i \in 1..Len(events) : events'[i] = events[i]
  BY DEF EventsOK
<1>3. Len(events) \in Nat /\ Quiet
  BY DEF EventsOK, QueuePart, QueueInv
<1>4. \A i \in 1..Len(events') : events'[i] \notin Terminals \cup {"stop"}
  BY <1>1, <1>2, <1>3 DEF Quiet
<1> QED
  BY <1>4 DEF QueuePart, QueueInv, TerminalIsLast, Quiet

\* The coordinator ends the queue with the sentinel.
LEMMA StopKeepsQueue ==
  ASSUME EventsOK, TerminalIsLast, \A i \in 1..Len(events) : events[i] # "stop",
         Emit("stop"), coord' = "draining"
  PROVE  QueuePart'
<1>1. /\ Len(events') = Len(events) + 1 /\ events'[Len(events) + 1] = "stop"
      /\ \A i \in 1..Len(events) : events'[i] = events[i]
  BY Appending, EventKinds DEF Emit, EventsOK
<1>2. Len(events) \in Nat
  BY DEF EventsOK
<1>3. \A i \in 1..Len(events) : events[i] \in Terminals => i = Len(events)
  <2> SUFFICES ASSUME NEW i \in 1..Len(events), events[i] \in Terminals, i # Len(events)
               PROVE FALSE
    OBVIOUS
  <2>1. i + 1 \in (i + 1)..Len(events) /\ i + 1 \in 1..Len(events)
    BY <1>2
  <2> QED BY <2>1 DEF TerminalIsLast
<1>4. \A i \in 1..Len(events') : i \in 1..Len(events) \/ i = Len(events) + 1
  BY <1>1, <1>2
<1>5. "stop" \notin Terminals
  BY DEF Terminals
<1>6. TerminalIsLast'
  BY <1>1, <1>2, <1>3, <1>4, <1>5 DEF TerminalIsLast
<1> QED
  BY <1>6 DEF QueuePart, QueueInv

\* The coordinator answers a cancel of a run that had no outcome.
LEMMA AnswerKeepsQueue ==
  ASSUME EventsOK, Quiet, events' = events \o <<"cancelled", "stop">>, coord' = "draining"
  PROVE  QueuePart'
<1>1. /\ Len(events') = Len(events) + 2
      /\ events'[Len(events) + 1] = "cancelled" /\ events'[Len(events) + 2] = "stop"
      /\ \A i \in 1..Len(events) : events'[i] = events[i]
  BY DEF EventsOK
<1>2. Len(events) \in Nat
  BY DEF EventsOK
<1>3. \A i \in 1..Len(events') :
        i \in 1..Len(events) \/ i = Len(events) + 1 \/ i = Len(events) + 2
  BY <1>1, <1>2
<1>4. "stop" \notin Terminals /\ "cancelled" # "stop"
  BY DEF Terminals
<1>5. TerminalIsLast'
  BY <1>1, <1>2, <1>3, <1>4 DEF TerminalIsLast, Quiet
<1> QED
  BY <1>5 DEF QueuePart, QueueInv

LEMMA StepKeepsQueue ==
  EventsOK /\ TasksOK /\ FlowInv /\ QueuePart /\ [Next]_vars => QueuePart'
<1> SUFFICES ASSUME EventsOK, TasksOK, FlowInv, QueuePart, [Next]_vars PROVE QueuePart'
  OBVIOUS
<1> USE DEF At
<1>1. CASE FlowExplore \/ FlowGenerate \/ FlowRetry \/ FlowRollback \/ FlowCommitted
  <2>1. CASE FlowExplore \/ FlowGenerate \/ FlowRetry
    <3>1. "progress" \in Events /\ "progress" \notin Terminals
      BY DEF Events, Terminals
    <3> QED BY <2>1, <3>1, EmitKeepsQueue DEF FlowExplore, FlowGenerate, FlowRetry
  <2>2. CASE FlowRollback \/ FlowCommitted
    BY <2>2, EmitKeepsQueue, EventKinds DEF FlowRollback, FlowCommitted
  <2> QED BY <1>1, <2>1, <2>2
<1>2. CASE FlowLoad
  <2>1. "run_started" \in Events \ (Terminals \cup {"stop"})
    BY DEF Events, Terminals
  <2>2. "progress" \in Events \ (Terminals \cup {"stop"})
    BY DEF Events, Terminals
  <2> QED BY <1>2, <2>1, <2>2, EmitTwoKeepsQueue DEF FlowLoad
<1>3. CASE Reject
  <2>1. events = <<>>
    BY <1>3 DEF Reject, QueuePart, QueueInv
  <2>2. Len(events') = 1 /\ events'[1] = "error" /\ coord' = "closed"
    BY <1>3, <2>1, Appending, EventKinds DEF Reject, Emit, EventsOK
  <2> QED BY <2>2 DEF QueuePart, QueueInv, TerminalIsLast
<1>4. CASE CoordFlowDone
  BY <1>4, StopKeepsQueue DEF CoordFlowDone, QueuePart, QueueInv
<1>5. CASE CoordRollback
  <2>1. Quiet
    BY <1>5 DEF CoordRollback, QueuePart, QueueInv
  <2>2. CASE watcher = "cancel"
    BY <1>5, <2>1, <2>2, AnswerKeepsQueue DEF CoordRollback
  <2>3. CASE watcher # "cancel"
    <3>1. events' = events \o <<"stop">>
      BY <1>5, <2>3 DEF CoordRollback
    <3>2. events' = Append(events, "stop")
      BY <3>1, EventKinds DEF EventsOK
    <3> QED BY <1>5, <2>1, <3>2, StopKeepsQueue DEF CoordRollback, Emit, QueuePart, Quiet
  <2> QED BY <2>2, <2>3
<1>6. CASE AcceptStart \/ FlowCancelled \/ CoordStop \/ CoordClose \/ EndUnstarted
  <2>1. events' = events
    BY <1>6 DEF AcceptStart, FlowCancelled, CoordStop, CoordClose, EndUnstarted
  <2>2. TerminalIsLast'
    BY <2>1 DEF QueuePart, TerminalIsLast
  <2>3. CASE AcceptStart
    BY <2>1, <2>2, <2>3 DEF AcceptStart, QueuePart, QueueInv, Quiet, EventsOK
  <2>4. CASE FlowCancelled \/ CoordStop \/ CoordClose \/ EndUnstarted
    BY <2>1, <2>2, <2>4
       DEF FlowCancelled, CoordStop, CoordClose, EndUnstarted, QueuePart, QueueInv, Quiet, FlowEnds
  <2> QED BY <1>6, <2>3, <2>4
<1>7. CASE events' = events /\ coord' = coord /\ (flow # "done" => flow' = flow \/ flow' # "done")
                            /\ (flow = "done" => flow' = flow)
  BY <1>7 DEF QueuePart, QueueInv, TerminalIsLast, Quiet
<1> QED
  BY <1>1, <1>2, <1>3, <1>4, <1>5, <1>6, <1>7
     DEF Next, ServerNext, AcceptNext, FlowNext, DbNext, WatchNext, SenderNext, CoordNext,
         ClientNext, Finished, FlowSchema, FlowExplored, FlowGenerated, FlowHistory, FlowUsage,
         FlowPersist, FlowFail, FlowRollbackRaises, FlowCommit, FlowCommitRaises, DbCommit,
         DbCommitFails, WatchCancel, WatchDisconnect, SenderSend, SenderFails, ClientGone,
         ClientSend, vars

-----------------------------------------------------------------------------
(* What the client is told against what is durable.                        *)

LEMMA StepKeepsMatch == TypeOK /\ RunInv /\ [Next]_vars => TerminalMatchesDb'
<1> SUFFICES ASSUME TypeOK, RunInv, [Next]_vars PROVE TerminalMatchesDb'
  OBVIOUS
<1> USE DEF TypeOK, RunInv, At
<1>1. CASE UNCHANGED <<events, db>>
  BY <1>1 DEF TerminalMatchesDb, Queued
<1>2. CASE DbCommit
  <2>1. Quiet /\ events' = events
    BY <1>2 DEF DbCommit, QueueInv, TxInv
  <2>2. ~Queued("final_result")' /\ ~Queued("error")'
    BY <2>1 DEF Quiet, Queued, Terminals
  <2> QED BY <2>2 DEF TerminalMatchesDb
<1>3. CASE CoordClose
  <2>1. db' = db /\ events' = events
    BY <1>3 DEF CoordClose, PendingInv
  <2> QED BY <2>1 DEF TerminalMatchesDb, Queued
<1>4. ASSUME NEW e \in Events, Emit(e), db' = db,
             e = "final_result" => "history" \in db, e = "error" => db = {}
      PROVE  TerminalMatchesDb'
  <2>1. \A f \in Events : Queued(f)' => Queued(f) \/ f = e
    BY <1>4, Appending DEF Emit, Queued, EventsOK
  <2> QED BY <1>4, <2>1, EventKinds DEF TerminalMatchesDb
<1>5. CASE FlowExplore \/ FlowGenerate \/ FlowRetry \/ CoordFlowDone
  BY <1>4, <1>5, EventKinds DEF FlowExplore, FlowGenerate, FlowRetry, CoordFlowDone, txVars
<1>6. CASE FlowRollback
  BY <1>4, <1>6, EventKinds DEF FlowRollback, TxInv, FlowSteps
<1>7. CASE FlowCommitted
  BY <1>4, <1>7, EventKinds DEF FlowCommitted, TxInv, txVars
<1>8. CASE Reject
  BY <1>4, <1>8, EventKinds DEF Reject, TxInv, FlowInv, FlowSteps, txVars
<1>9. ASSUME NEW d \in Events \ {"final_result", "error"}, NEW e \in Events \ {"final_result", "error"},
             events' = events \o <<d, e>>, db' = db
      PROVE  TerminalMatchesDb'
  <2>1. \A f \in Events : Queued(f)' => Queued(f) \/ f = d \/ f = e
    BY <1>9 DEF Queued, EventsOK
  <2> QED BY <1>9, <2>1, EventKinds DEF TerminalMatchesDb
<1>10. CASE FlowLoad
  BY <1>9, <1>10, EventKinds DEF FlowLoad, txVars
<1>11. CASE CoordRollback
  <2>1. CASE watcher = "cancel"
    BY <1>9, <1>11, <2>1, EventKinds DEF CoordRollback
  <2>2. CASE watcher # "cancel"
    <3>1. events' = Append(events, "stop")
      BY <1>11, <2>2, EventKinds DEF CoordRollback, EventsOK
    <3> QED BY <1>4, <1>11, <3>1, EventKinds DEF CoordRollback, Emit
  <2> QED BY <2>1, <2>2
<1> QED
  BY <1>1, <1>2, <1>3, <1>5, <1>6, <1>7, <1>8, <1>10, <1>11
     DEF Next, ServerNext, AcceptNext, FlowNext, DbNext, WatchNext, SenderNext, CoordNext,
         ClientNext, Finished, AcceptStart, EndUnstarted, FlowSchema, FlowExplored,
         FlowGenerated, FlowHistory, FlowUsage, FlowPersist, FlowFail, FlowRollbackRaises,
         FlowCommit, FlowCommitRaises, FlowCancelled, DbCommitFails, WatchCancel,
         WatchDisconnect, SenderSend, SenderFails, CoordStop, ClientGone, ClientSend,
         txVars, vars

LEMMA InitIsARun == Init => RunInv
<1> SUFFICES ASSUME Init PROVE RunInv
  OBVIOUS
<1>1. Len(events) = 0
  BY DEF Init
<1> QED BY <1>1 DEF Init, RunInv, QueueInv, FlowInv, TxInv, PendingInv, TerminalIsLast,
                    TerminalMatchesDb, RowsAllOrNothing, Queued, Quiet, FlowEnds, FlowSteps

LEMMA StepKeepsRun == TypeOK /\ RunInv /\ [Next]_vars => RunInv'
<1> SUFFICES ASSUME TypeOK, RunInv, [Next]_vars PROVE RunInv'
  OBVIOUS
<1>1. TxPart'
  BY StepKeepsTx DEF TypeOK, RunInv, TxPart
<1>2. QueuePart'
  BY StepKeepsQueue DEF TypeOK, RunInv, QueuePart
<1>3. TerminalMatchesDb'
  BY StepKeepsMatch
<1> QED BY <1>1, <1>2, <1>3 DEF RunInv, TxPart, QueuePart

-----------------------------------------------------------------------------

\* The inductive invariant holds in every reachable state.
THEOREM RunInvHolds == Safety => []RunInv
BY InitIsARun, StepKeepsRun, TypeCorrect, PTL DEF Safety

\* At most one terminal event, and nothing after it, in every run.
THEOREM OneTerminalEvent == Safety => []TerminalIsLast
<1>1. RunInv => TerminalIsLast
  BY DEF RunInv
<1> QED BY <1>1, RunInvHolds, PTL

\* No run reports final_result before its commit is durable, nor an error for a
\* run that left rows behind.
THEOREM TellsTheTruth == Safety => []TerminalMatchesDb
<1>1. RunInv => TerminalMatchesDb
  BY DEF RunInv
<1> QED BY <1>1, RunInvHolds, PTL

\* The history row and the chat turn of a run are durable together or not at all.
THEOREM AllOrNothing == Safety => []RowsAllOrNothing
<1>1. RunInv => RowsAllOrNothing
  BY DEF RunInv
<1> QED BY <1>1, RunInvHolds, PTL

\* A stopped run changes the database only through a COMMIT already in flight.
THEOREM StopIsFinal == Safety => StoppedRunWritesNothing
<1>1. TypeOK /\ RunInv /\ [Next]_vars
        => [(coord \in {"stopping", "draining"} /\ session # "committing") => db' = db]_vars
  <2> SUFFICES ASSUME TypeOK, RunInv, [Next]_vars, coord \in {"stopping", "draining"},
                      session # "committing"
               PROVE  db' = db
    OBVIOUS
  <2>1. CASE CoordClose
    BY <2>1 DEF CoordClose, RunInv, PendingInv
  <2> QED
    BY <2>1
       DEF Next, ServerNext, AcceptNext, FlowNext, DbNext, WatchNext, SenderNext, CoordNext,
           ClientNext, Finished, AcceptStart, Reject, EndUnstarted, FlowLoad, FlowSchema,
           FlowExplore, FlowExplored, FlowGenerate, FlowRetry, FlowGenerated, FlowHistory,
           FlowUsage, FlowPersist, FlowFail, FlowRollback, FlowRollbackRaises, FlowCommit,
           FlowCommitted, FlowCommitRaises, FlowCancelled, DbCommit, DbCommitFails,
           WatchCancel, WatchDisconnect, SenderSend, SenderFails, CoordFlowDone, CoordStop,
           CoordRollback, ClientGone, ClientSend, txVars, vars
<1> QED BY <1>1, TypeCorrect, RunInvHolds, PTL DEF Safety, StoppedRunWritesNothing

-----------------------------------------------------------------------------
(* How the endpoint leaves.                                                *)

\* Queued events stay where they are.
LEMMA QueueGrows ==
  ASSUME EventsOK, [Next]_vars
  PROVE  /\ Len(events) \in Nat /\ Len(events') \in Nat /\ Len(events) <= Len(events')
         /\ \A i \in 1..Len(events) : events'[i] = events[i]
<1>1. ASSUME NEW e \in Events, Emit(e)
      PROVE  /\ Len(events') = Len(events) + 1
             /\ \A i \in 1..Len(events) : events'[i] = events[i]
  BY <1>1, Appending DEF Emit, EventsOK
<1>2. ASSUME NEW d \in Events, NEW e \in Events, events' = events \o <<d, e>>
      PROVE  /\ Len(events') = Len(events) + 2
             /\ \A i \in 1..Len(events) : events'[i] = events[i]
  BY <1>2 DEF EventsOK
<1>3. CASE FlowExplore \/ FlowGenerate \/ FlowRetry \/ FlowRollback \/ FlowCommitted
           \/ CoordFlowDone \/ Reject
  <2>1. \E e \in Events : Emit(e)
    BY <1>3, EventKinds DEF FlowExplore, FlowGenerate, FlowRetry, FlowRollback, FlowCommitted,
                            CoordFlowDone, Reject
  <2> QED BY <1>1, <2>1 DEF EventsOK
<1>4. CASE FlowLoad
  <2>1. \E d, e \in Events : events' = events \o <<d, e>>
    BY <1>4, EventKinds DEF FlowLoad
  <2> QED BY <1>2, <2>1 DEF EventsOK
<1>5. CASE CoordRollback
  <2>1. CASE watcher = "cancel"
    <3>1. \E d, e \in Events : events' = events \o <<d, e>>
      BY <1>5, <2>1, EventKinds DEF CoordRollback
    <3> QED BY <1>2, <3>1 DEF EventsOK
  <2>2. CASE watcher # "cancel"
    <3>1. Emit("stop")
      BY <1>5, <2>2, EventKinds DEF CoordRollback, EventsOK, Emit
    <3> QED BY <1>1, <3>1, EventKinds DEF EventsOK
  <2> QED BY <2>1, <2>2
<1>6. CASE events' = events
  BY <1>6 DEF EventsOK
<1> QED
  BY <1>3, <1>4, <1>5, <1>6
     DEF Next, ServerNext, AcceptNext, FlowNext, DbNext, WatchNext, SenderNext, CoordNext,
         ClientNext, Finished, AcceptStart, EndUnstarted, FlowSchema, FlowExplored,
         FlowGenerated, FlowHistory, FlowUsage, FlowPersist, FlowFail, FlowRollbackRaises,
         FlowCommit, FlowCommitRaises, FlowCancelled, DbCommit, DbCommitFails, WatchCancel,
         WatchDisconnect, SenderSend, SenderFails, CoordStop, CoordClose, ClientGone,
         ClientSend, senderVars, vars

\* What has been queued stays queued, and a client that has been told stays told.
LEMMA QueuedStays ==
  ASSUME EventsOK, [Next]_vars
  PROVE  /\ \A e \in Events : Queued(e) => Queued(e)'
         /\ Told => Told'
<1>1. \A e \in Events : Queued(e) => Queued(e)'
  <2> SUFFICES ASSUME NEW e \in Events, NEW i \in 1..Len(events), events[i] = e
               PROVE  \E j \in 1..Len(events') : events'[j] = e
    BY DEF Queued
  <2>1. i \in 1..Len(events') /\ events'[i] = e
    BY QueueGrows
  <2> QED BY <2>1
<1>2. Terminals \subseteq Events
  BY EventKinds
<1> QED BY <1>1, <1>2 DEF Told

LEMMA EmitQueues ==
  ASSUME EventsOK, NEW e \in Events, Emit(e)
  PROVE  Queued(e)'
<1>1. Len(events') = Len(events) + 1 /\ events'[Len(events) + 1] = e /\ Len(events) \in Nat
  BY Appending DEF Emit, EventsOK
<1> QED BY <1>1 DEF Queued

LEMMA RollbackQueues ==
  ASSUME EventsOK, CoordRollback
  PROVE  Queued("stop")' /\ (watcher = "cancel" => Queued("cancelled")')
<1>1. CASE watcher = "cancel"
  <2>1. events' = events \o <<"cancelled", "stop">>
    BY <1>1 DEF CoordRollback
  <2>2. /\ Len(events') = Len(events) + 2 /\ Len(events) \in Nat
        /\ events'[Len(events) + 1] = "cancelled" /\ events'[Len(events) + 2] = "stop"
    BY <2>1, EventKinds DEF EventsOK
  <2> QED BY <2>2 DEF Queued
<1>2. CASE watcher # "cancel"
  <2>1. Emit("stop")
    BY <1>2, EventKinds DEF CoordRollback, EventsOK, Emit
  <2> QED BY <1>2, <2>1, EmitQueues, EventKinds
<1> QED BY <1>1, <1>2

LEMMA StepKeepsSender == TypeOK /\ RunInv /\ SenderInv /\ [Next]_vars => SenderInv'
<1> SUFFICES ASSUME TypeOK, RunInv, SenderInv, [Next]_vars PROVE SenderInv'
  OBVIOUS
<1>t. /\ sender \in {"idle", "sending", "done", "failed"}
      /\ coord \in {"accepting", "running", "stopping", "draining", "closed"}
      /\ EventsOK /\ sent \in 0..Len(events) /\ Len(events) \in Nat
  BY DEF TypeOK, TasksOK, EventsOK
<1>1. CASE coord = "running" /\ coord' = "running" /\ sender' = sender
  BY <1>1 DEF SenderInv
<1>2. CASE AcceptStart
  BY <1>2 DEF AcceptStart, SenderInv
<1>3. CASE Reject
  <2>1. events = <<>>
    BY <1>3 DEF Reject, RunInv, QueueInv
  <2>2. Len(events') = 1
    BY <1>3, <2>1, <1>t, Appending, EventKinds DEF Reject, Emit, EventsOK
  <2> QED BY <1>3, <2>2 DEF Reject, SenderInv
<1>4. CASE EndUnstarted
  <2>1. events = <<>>
    BY <1>4 DEF EndUnstarted, RunInv, QueueInv
  <2> QED BY <1>4, <2>1 DEF EndUnstarted, SenderInv, senderVars
<1>5. CASE CoordFlowDone
  <2>1. Queued("stop")'
    BY <1>5, <1>t, EmitQueues, EventKinds DEF CoordFlowDone
  <2> QED BY <1>5, <2>1 DEF CoordFlowDone, SenderInv, senderVars
<1>6. CASE CoordRollback
  <2>1. Queued("stop")'
    BY <1>6, <1>t, RollbackQueues
  <2> QED BY <1>6, <2>1 DEF CoordRollback, SenderInv, senderVars
<1>7. CASE CoordStop \/ FlowCancelled
  BY <1>7 DEF CoordStop, FlowCancelled, SenderInv, senderVars
<1>8. CASE CoordClose
  BY <1>8 DEF CoordClose, SenderInv, senderVars
<1>9. CASE SenderFails
  BY <1>9 DEF SenderFails, SenderInv, Queued
<1>10. CASE SenderSend
  <2>1. CASE events[sent + 1] = "stop"
    <3>1. sent + 1 \in 1..Len(events)
      BY <1>10, <1>t DEF SenderSend
    <3>2. sent + 1 = Len(events)
      BY <2>1, <3>1 DEF RunInv, TerminalIsLast
    <3>3. coord \in {"draining", "closed"}
      BY <2>1, <3>1, <1>t DEF RunInv, QueueInv, Quiet
    <3>4. sender' = "done" /\ UNCHANGED <<coord, events, sent>>
      BY <1>10, <2>1 DEF SenderSend
    <3> QED BY <1>10, <2>1, <3>2, <3>3, <3>4 DEF SenderSend, SenderInv, Queued
  <2>2. CASE events[sent + 1] # "stop"
    BY <1>10, <2>2 DEF SenderSend, SenderInv, Queued
  <2> QED BY <2>1, <2>2
<1>11. CASE UNCHANGED <<coord, events, senderVars>>
  BY <1>11 DEF SenderInv, Queued, senderVars
<1> QED
  BY <1>1, <1>2, <1>3, <1>4, <1>5, <1>6, <1>7, <1>8, <1>9, <1>10, <1>11
     DEF Next, ServerNext, AcceptNext, FlowNext, DbNext, WatchNext, SenderNext, CoordNext,
         ClientNext, Finished, FlowLoad, FlowSchema, FlowExplore, FlowExplored, FlowGenerate,
         FlowRetry, FlowGenerated, FlowHistory, FlowUsage, FlowPersist, FlowFail, FlowRollback,
         FlowRollbackRaises, FlowCommit, FlowCommitted, FlowCommitRaises, DbCommit,
         DbCommitFails, WatchCancel, WatchDisconnect, ClientGone, ClientSend, At, senderVars, vars

LEMMA StepKeepsOutcome == TypeOK /\ RunInv /\ ToldInv /\ [Next]_vars => ToldInv'
<1> SUFFICES ASSUME TypeOK, RunInv, ToldInv, [Next]_vars PROVE ToldInv'
  OBVIOUS
<1>t. TasksOK /\ EventsOK /\ (Told => Told') /\ "error" \in Terminals /\ "final_result" \in Terminals
      /\ "cancelled" \in Terminals
  BY QueuedStays DEF TypeOK, Terminals
<1>1. CASE FlowRollback \/ FlowCommitted
  <2>1. Queued("error")' \/ Queued("final_result")'
    BY <1>1, <1>t, EmitQueues, EventKinds DEF FlowRollback, FlowCommitted
  <2>2. Told'
    BY <2>1, <1>t DEF Told
  <2> QED BY <1>1, <2>2 DEF FlowRollback, FlowCommitted, At, ToldInv
<1>2. CASE CoordRollback
  <2>1. watcher = "cancel" => Told'
    BY <1>2, <1>t, RollbackQueues DEF Told
  <2> QED BY <1>2, <1>t, <2>1 DEF CoordRollback, ToldInv
<1>3. CASE CoordFlowDone
  BY <1>3, <1>t DEF CoordFlowDone, ToldInv, RunInv, FlowInv
<1>4. CASE CoordStop \/ CoordClose \/ FlowCancelled
  BY <1>4, <1>t DEF CoordStop, CoordClose, FlowCancelled, ToldInv, FlowEnds
<1>5. CASE AcceptNext
  BY <1>5, <1>t DEF AcceptNext, AcceptStart, Reject, EndUnstarted, ToldInv, RunInv, FlowInv
<1>6. CASE WatchNext
  BY <1>6, <1>t DEF WatchNext, WatchCancel, WatchDisconnect, ToldInv
<1>7. CASE coord = "running" /\ UNCHANGED <<coord, watcher>> /\ flow' # "done"
  BY <1>7 DEF ToldInv
<1>8. CASE UNCHANGED <<coord, flow, watcher>>
  BY <1>8, <1>t DEF ToldInv
<1> QED
  BY <1>1, <1>2, <1>3, <1>4, <1>5, <1>6, <1>7, <1>8
     DEF Next, ServerNext, FlowNext, DbNext, SenderNext, CoordNext,
         ClientNext, Finished, FlowLoad, FlowSchema, FlowExplore, FlowExplored, FlowGenerate,
         FlowRetry, FlowGenerated, FlowHistory, FlowUsage, FlowPersist, FlowFail,
         FlowRollbackRaises, FlowCommit, FlowCommitRaises, DbCommit, DbCommitFails,
         SenderSend, SenderFails, ClientGone, ClientSend, At, vars

\* Where the sender may be and who has been told, at every await.
THEOREM ExitInvHolds == Safety => []ExitInv
<1>1. Init => ExitInv
  BY DEF Init, ExitInv, SenderInv, ToldInv
<1>2. TypeOK /\ RunInv /\ ExitInv /\ [Next]_vars => ExitInv'
  BY StepKeepsSender, StepKeepsOutcome DEF ExitInv
<1> QED BY <1>1, <1>2, TypeCorrect, RunInvHolds, PTL DEF Safety

\* Types and the inductive invariant of the endpoint, in every reachable state.
THEOREM ServerIsSound == Safety => []ServerInv
BY TypeCorrect, RunInvHolds, ExitInvHolds, PTL DEF ServerInv

\* The endpoint closes the socket on a connected client that it has told nothing
\* only after the panel database has failed it; it drains its queue first, and
\* leaves no task and no uncommitted row behind.
THEOREM ExitIsClean == Safety => []CleanExit
<1>1. TypeOK /\ RunInv /\ ExitInv => CleanExit
  <2> SUFFICES ASSUME TypeOK, RunInv, ExitInv PROVE CleanExit
    OBVIOUS
  <2>1. SilenceMeansDbFailure
    <3> SUFFICES ASSUME coord = "closed", flow # "idle", watcher # "disconnect", ~Told, flow # "raised"
                 PROVE  FALSE
      BY DEF SilenceMeansDbFailure
    <3>1. flow = "cancelled"
      BY DEF RunInv, FlowInv, FlowEnds, ExitInv, ToldInv
    <3> QED BY <3>1 DEF ExitInv, ToldInv
  <2>2. DrainedBeforeClose
    <3> SUFFICES ASSUME coord = "closed", sender # "failed",
                        NEW i \in 1..Len(events), events[i] # "stop"
                 PROVE  i <= sent
      BY DEF DrainedBeforeClose
    <3>1. Len(events) \in Nat /\ sent \in Nat /\ i \in Nat
      BY DEF TypeOK, EventsOK
    <3>2. CASE sender = "idle"
      BY <3>1, <3>2 DEF ExitInv, SenderInv
    <3>3. CASE sender = "done"
      <4>1. sent + 1 = Len(events) /\ events[sent + 1] = "stop"
        BY <3>3 DEF ExitInv, SenderInv
      <4> QED BY <3>1, <4>1
    <3> QED BY <3>2, <3>3 DEF ExitInv, SenderInv, TypeOK, TasksOK
  <2>3. NothingOutlivesTheSocket
    BY DEF NothingOutlivesTheSocket, RunInv, FlowInv, PendingInv, ExitInv, SenderInv
  <2> QED BY <2>1, <2>2, <2>3 DEF CleanExit
<1> QED BY <1>1, TypeCorrect, RunInvHolds, ExitInvHolds, PTL

-----------------------------------------------------------------------------
(* The endpoint implements AskRun.                                         *)

\* At most one terminal event is queued, so Terminal is the one.
Determined ==
  /\ ~Told => Terminal = "none"
  /\ \A e \in Terminals : Queued(e) => Told /\ Terminal = e

LEMMA TerminalIs == EventsOK /\ TerminalIsLast => Determined
<1> SUFFICES ASSUME EventsOK, TerminalIsLast PROVE Determined
  OBVIOUS
<1>1. ~Told => Terminal = "none"
  BY DEF Terminal
<1>2. ASSUME NEW e \in Terminals, NEW f \in Terminals, Queued(e), Queued(f)
      PROVE  e = f
  <2>1. PICK i \in 1..Len(events) : events[i] = e
    BY <1>2 DEF Queued
  <2>2. PICK j \in 1..Len(events) : events[j] = f
    BY <1>2 DEF Queued
  <2>3. "stop" \notin Terminals /\ Len(events) \in Nat
    BY DEF Terminals, EventsOK
  <2>4. ~(i < j) /\ ~(j < i)
    <3>1. ASSUME NEW k \in 1..Len(events), NEW l \in 1..Len(events), k < l,
                 events[k] \in Terminals, events[l] \in Terminals
          PROVE  FALSE
      <4>1. l \in (k + 1)..Len(events)
        BY <2>3, <3>1
      <4> QED BY <2>3, <3>1, <4>1 DEF TerminalIsLast
    <3> QED BY <1>2, <2>1, <2>2, <3>1
  <2> QED BY <2>1, <2>2, <2>3, <2>4
<1>3. ASSUME NEW e \in Terminals, Queued(e)
      PROVE  Told /\ Terminal = e
  <2>1. Told
    BY <1>3 DEF Told
  <2>2. Terminal \in Terminals /\ Queued(Terminal)
    BY <2>1 DEF Terminal, Told
  <2> QED BY <1>2, <1>3, <2>1, <2>2
<1> QED BY <1>1, <1>3 DEF Determined

LEMMA QuietIsSilent ==
  ASSUME Quiet
  PROVE  ~Told
BY DEF Quiet, Told, Queued

\* A step that queues no terminal event leaves the outcome as it is.
LEMMA SameTerminal ==
  ASSUME \A e \in Terminals : Queued(e)' <=> Queued(e), EventsOK, EventsOK',
         TerminalIsLast, TerminalIsLast'
  PROVE  Terminal' = Terminal
<1>0. Determined /\ Determined'
  BY TerminalIs, PTL
<1>1. Told' <=> Told
  BY DEF Told
<1>2. CASE Told
  <2>1. PICK e \in Terminals : Queued(e)
    BY <1>2 DEF Told
  <2>2. Terminal = e
    BY <2>1, <1>0 DEF Determined
  <2>3. Queued(e)'
    BY <2>1
  <2>4. Terminal' = e
    BY <2>3, <1>0 DEF Determined, Terminals
  <2> QED BY <2>2, <2>4
<1>3. CASE ~Told
  BY <1>1, <1>3 DEF Terminal
<1> QED BY <1>2, <1>3

LEMMA SilentEmit ==
  ASSUME EventsOK, NEW e \in Events \ Terminals, Emit(e)
  PROVE  \A f \in Terminals : Queued(f)' <=> Queued(f)
<1>1. /\ Len(events') = Len(events) + 1 /\ events'[Len(events) + 1] = e /\ Len(events) \in Nat
      /\ \A i \in 1..Len(events) : events'[i] = events[i]
  BY Appending DEF Emit, EventsOK
<1>2. \A i \in 1..Len(events') : i \in 1..Len(events) \/ i = Len(events) + 1
  BY <1>1
<1>3. 1..Len(events) \subseteq 1..Len(events')
  BY <1>1
<1> QED BY <1>1, <1>2, <1>3 DEF Queued

LEMMA SilentLoad ==
  ASSUME EventsOK, FlowLoad
  PROVE  \A f \in Terminals : Queued(f)' <=> Queued(f)
<1>1. events' = events \o <<"run_started", "progress">>
  BY DEF FlowLoad
<1>2. "run_started" \in Events \ Terminals /\ "progress" \in Events \ Terminals
  BY DEF Events, Terminals
<1>3. /\ Len(events') = Len(events) + 2 /\ Len(events) \in Nat
      /\ events'[Len(events) + 1] \notin Terminals /\ events'[Len(events) + 2] \notin Terminals
      /\ \A i \in 1..Len(events) : events'[i] = events[i]
  BY <1>1, <1>2 DEF EventsOK
<1>4. \A i \in 1..Len(events') :
        i \in 1..Len(events) \/ i = Len(events) + 1 \/ i = Len(events) + 2
  BY <1>3
<1>5. 1..Len(events) \subseteq 1..Len(events')
  BY <1>3
<1> QED BY <1>3, <1>4, <1>5 DEF Queued

\* Each step of the endpoint is one of the run's: turning the client away,
\* closing, saving, telling; or the run does not notice it.
LEMMA StepIsRunStep ==
  ASSUME TypeOK, TypeOK', RunInv, RunInv', [Next]_vars
  PROVE  [Run!Next]_(Run!runVars)
<1>d. EventsOK /\ Determined /\ Determined' /\ EventsOK' /\ TerminalIsLast /\ TerminalIsLast'
  <2>1. Determined /\ Determined'
    BY TerminalIs, PTL DEF TypeOK, RunInv
  <2> QED BY <2>1 DEF TypeOK, RunInv
<1>t. "error" \in Terminals /\ "final_result" \in Terminals /\ "cancelled" \in Terminals
      /\ "stop" \notin Terminals /\ "progress" \notin Terminals
  BY DEF Terminals
\* Nothing the run sees has changed.
<1>1. ASSUME \A f \in Terminals : Queued(f)' <=> Queued(f), db' = db,
             coord # "closed", coord' # "closed"
      PROVE  UNCHANGED Run!runVars
  BY <1>1, <1>d, SameTerminal DEF Run!runVars
<1>2. CASE UNCHANGED <<coord, events, db>>
  <2>1. \A f \in Terminals : Queued(f)' <=> Queued(f)
    BY <1>2 DEF Queued
  <2>2. Terminal' = Terminal
    BY <1>d, <2>1, SameTerminal
  <2> QED BY <1>2, <2>2 DEF Run!runVars
<1>3. CASE FlowExplore \/ FlowGenerate \/ FlowRetry \/ CoordFlowDone
  <2>1. \A f \in Terminals : Queued(f)' <=> Queued(f)
    BY <1>3, <1>d, <1>t, EventKinds, SilentEmit DEF FlowExplore, FlowGenerate, FlowRetry, CoordFlowDone
  <2>2. db' = db /\ coord # "closed" /\ coord' # "closed"
    BY <1>3 DEF FlowExplore, FlowGenerate, FlowRetry, CoordFlowDone, At, txVars
  <2> QED BY <1>1, <2>1, <2>2
<1>4. CASE FlowLoad
  <2>1. \A f \in Terminals : Queued(f)' <=> Queued(f)
    BY <1>4, <1>d, SilentLoad
  <2>2. db' = db /\ coord # "closed" /\ coord' # "closed"
    BY <1>4 DEF FlowLoad, At, txVars
  <2> QED BY <1>1, <2>1, <2>2
<1>5. CASE AcceptStart \/ FlowCancelled \/ CoordStop
  <2>1. \A f \in Terminals : Queued(f)' <=> Queued(f)
    BY <1>5 DEF AcceptStart, FlowCancelled, CoordStop, Queued
  <2>2. db' = db /\ coord # "closed" /\ coord' # "closed"
    BY <1>5 DEF AcceptStart, FlowCancelled, CoordStop, txVars
  <2> QED BY <1>1, <2>1, <2>2
\* The client is told.
<1>6. ASSUME NEW e \in Terminals, Quiet, Queued(e)', db' = db,
             coord # "closed", coord' # "closed", Run!Consistent(e)
      PROVE  Run!Next
  <2>1. Terminal = "none" /\ Terminal' = e
    BY <1>6, <1>d, QuietIsSilent DEF Determined
  <2>2. Run!Tell(e)
    BY <1>6, <2>1 DEF Run!Tell
  <2> QED BY <2>2 DEF Run!Next, Terminals
<1>7. CASE FlowRollback
  <2>1. Quiet /\ db = {}
    BY <1>7 DEF FlowRollback, At, RunInv, QueueInv, TxInv, FlowSteps
  <2>2. Queued("error")'
    BY <1>7, <1>d, EmitQueues, EventKinds DEF FlowRollback
  <2>3. db' = db /\ coord # "closed" /\ coord' # "closed"
    BY <1>7 DEF FlowRollback, At
  <2>4. Run!Consistent("error")
    BY <2>1 DEF Run!Consistent
  <2> QED BY <1>6, <1>t, <2>1, <2>2, <2>3, <2>4
<1>8. CASE FlowCommitted
  <2>1. Quiet /\ "history" \in db
    BY <1>8 DEF FlowCommitted, At, RunInv, QueueInv, TxInv
  <2>2. Queued("final_result")'
    BY <1>8, <1>d, EmitQueues, EventKinds DEF FlowCommitted
  <2>3. db' = db /\ coord # "closed" /\ coord' # "closed"
    BY <1>8 DEF FlowCommitted, At, txVars
  <2>4. Run!Consistent("final_result")
    BY <2>1 DEF Run!Consistent
  <2> QED BY <1>6, <1>t, <2>1, <2>2, <2>3, <2>4
<1>9. CASE CoordRollback
  <2>1. Quiet /\ db' = db /\ coord # "closed" /\ coord' # "closed"
    BY <1>9 DEF CoordRollback, RunInv, QueueInv
  <2>2. CASE watcher = "cancel"
    <3>1. Queued("cancelled")'
      BY <1>9, <1>d, <2>2, RollbackQueues
    <3>2. Run!Consistent("cancelled")
      BY DEF Run!Consistent
    <3> QED BY <1>6, <1>t, <2>1, <3>1, <3>2
  <2>3. CASE watcher # "cancel"
    <3>1. Emit("stop")
      BY <1>9, <1>d, <2>3, EventKinds DEF CoordRollback, EventsOK, Emit
    <3>2. \A f \in Terminals : Queued(f)' <=> Queued(f)
      BY <1>d, <1>t, <3>1, EventKinds, SilentEmit
    <3> QED BY <1>1, <2>1, <3>2
  <2> QED BY <2>2, <2>3
\* The rows are saved.
<1>10. CASE DbCommit
  <2>1. Quiet /\ db = {} /\ "history" \in pending /\ coord # "closed"
    BY <1>10 DEF DbCommit, RunInv, QueueInv, TxInv, PendingInv
  <2>2. \A f \in Terminals : Queued(f)' <=> Queued(f)
    BY <1>10 DEF DbCommit, Queued
  <2>3. Terminal = "none" /\ Terminal' = Terminal
    BY <1>d, <2>1, <2>2, QuietIsSilent, SameTerminal DEF Determined
  <2>4. Run!Save
    BY <1>10, <2>1, <2>3 DEF DbCommit, Run!Save
  <2> QED BY <2>4 DEF Run!Next
\* The socket is closed.
<1>11. CASE Reject
  <2>1. events = <<>> /\ db = {} /\ coord = "accepting"
    BY <1>11 DEF Reject, RunInv, QueueInv, TxInv, FlowInv, FlowSteps
  <2>2. Terminal = "none"
    BY <1>d, <2>1 DEF Determined, Told, Queued
  <2>3. Queued("error")'
    BY <1>11, <1>d, EmitQueues, EventKinds DEF Reject
  <2>4. Terminal' = "error"
    BY <1>d, <1>t, <2>3 DEF Determined
  <2>5. Run!TurnAway
    BY <1>11, <2>1, <2>2, <2>4 DEF Reject, txVars, Run!TurnAway
  <2> QED BY <2>5 DEF Run!Next
<1>12. CASE EndUnstarted \/ CoordClose
  <2>1. db' = db /\ events' = events /\ coord # "closed" /\ coord' = "closed"
    BY <1>12 DEF EndUnstarted, CoordClose, RunInv, PendingInv, txVars
  <2>2. Terminal' = Terminal
    <3>1. \A f \in Terminals : Queued(f)' <=> Queued(f)
      BY <2>1 DEF Queued
    <3> QED BY <1>d, <3>1, SameTerminal
  <2>3. Run!Close
    BY <2>1, <2>2 DEF Run!Close
  <2> QED BY <2>3 DEF Run!Next
<1> QED
  BY <1>2, <1>3, <1>4, <1>5, <1>7, <1>8, <1>9, <1>10, <1>11, <1>12
     DEF Next, ServerNext, AcceptNext, FlowNext, DbNext, WatchNext, SenderNext, CoordNext,
         ClientNext, Finished, FlowSchema, FlowExplored, FlowGenerated, FlowHistory, FlowUsage,
         FlowPersist, FlowFail, FlowRollbackRaises, FlowCommit, FlowCommitRaises,
         DbCommitFails, WatchCancel, WatchDisconnect, SenderSend, SenderFails, ClientGone,
         ClientSend, At, txVars, vars

\* Whatever the tasks do, the client and the database see a run of AskRun: one
\* outcome, agreeing with what was saved, and nothing after the close.
THEOREM RunIsKept == Safety => Run!Safety
<1>1. Init => Run!Init
  <2> SUFFICES ASSUME Init PROVE Run!Init
    OBVIOUS
  <2>1. ~Told
    BY DEF Init, Told, Queued
  <2>2. Terminal = "none"
    BY <2>1 DEF Terminal
  <2> QED BY <2>2 DEF Init, Run!Init
<1>2. TypeOK /\ TypeOK' /\ RunInv /\ RunInv' /\ [Next]_vars => [Run!Next]_(Run!runVars)
  BY StepIsRunStep
<1> QED BY <1>1, <1>2, TypeCorrect, RunInvHolds, PTL DEF Safety, Run!Safety

\* What is left of the promise is that the socket is closed in the end.
COROLLARY RunIsImplemented == Safety /\ Run!Fairness => ImplementsAskRun
BY RunIsKept DEF ImplementsAskRun, Run!Spec

-----------------------------------------------------------------------------
(* The page and the server together, through drops and crashes.            *)

\* A step that at most closes the client's end of the socket.
LEMMA PeerStep ==
  ASSUME TypeOK, peer' \in {peer, FALSE}, UNCHANGED <<serverVars, inbox>>
  PROVE  [Next]_vars
<1>1. CASE peer' = peer
  BY <1>1 DEF vars, serverVars, clientVars
<1>2. CASE peer' # peer
  BY <1>2 DEF Next, ClientNext, ClientGone, serverVars, TypeOK, TasksOK
<1> QED BY <1>1, <1>2

\* A step of the session is one of the server's, or the crash.
LEMMA ServerStep == TypeOK /\ [SessionNext]_sessionVars => [Next]_vars \/ Crash
<1> SUFFICES ASSUME TypeOK, [SessionNext]_sessionVars PROVE [Next]_vars \/ Crash
  OBVIOUS
<1>1. CASE SocketOpens \/ Cancel
  BY <1>1 DEF SocketOpens, Cancel, Next, ClientNext
<1>2. CASE StartTimesOut \/ FirstMessage \/ NextMessage \/ OnClose
  BY <1>2, PeerStep DEF StartTimesOut, FirstMessage, NextMessage, OnClose, GiveUpAndPost, clientVars
<1>3. CASE HttpAnswer \/ HttpRun \/ UNCHANGED sessionVars
  BY <1>3 DEF HttpAnswer, HttpRun, sessionVars
<1>4. CASE ServerNext \/ Finished
  BY <1>4 DEF Next
<1> QED BY <1>1, <1>2, <1>3, <1>4 DEF SessionNext, PageNext, ServerClosed, NetworkDrop

LEMMA CrashKeepsTypes == TypeOK /\ Crash => TypeOK'
BY DEF TypeOK, TasksOK, RowsOK, EventsOK, InboxOK, Crash, FlowEnds, clientVars

\* The crash itself: a COMMIT in flight is of a run that has told nobody.
LEMMA CrashStep == TypeOK /\ CrashInv /\ Crash => CrashInv'
<1> SUFFICES ASSUME TypeOK, CrashInv, Crash PROVE CrashInv'
  OBVIOUS
<1>1. RunInv /\ crashed' = TRUE /\ coord' = "closed" /\ UNCHANGED <<chat, db, events>>
  BY DEF Crash, CrashInv
<1>2. TerminalMatchesDb' /\ RowsAllOrNothing'
  BY <1>1 DEF CrashInv, TerminalMatchesDb, RowsAllOrNothing, Queued
<1>3. ASSUME session' = "committing"
      PROVE  /\ "history" \in pending' /\ ("turn" \in pending' <=> chat') /\ db' = {}
             /\ ~Queued("final_result")' /\ ~Queued("error")'
  <2>1. session = "committing" /\ pending' = pending
    BY <1>3 DEF Crash
  <2>2. "history" \in pending /\ ("turn" \in pending <=> chat) /\ db = {}
    BY <1>1, <2>1 DEF RunInv, PendingInv, TxInv
  <2>3. Quiet
    BY <1>1, <2>1 DEF RunInv, TxInv, QueueInv
  <2>4. ~Queued("final_result") /\ ~Queued("error")
    BY <2>3 DEF Quiet, Queued, Terminals
  <2> QED BY <1>1, <2>1, <2>2, <2>4 DEF Queued
<1> QED BY <1>1, <1>2, <1>3 DEF CrashInv, CrashLeaves

\* After it, only the database's answer to that COMMIT changes anything.
LEMMA CrashedStep ==
  ASSUME TypeOK, CrashInv, crashed, crashed' = crashed, [Next]_vars
  PROVE  CrashInv'
<1>1. CrashLeaves /\ TerminalMatchesDb /\ RowsAllOrNothing /\ coord = "closed"
  BY DEF CrashInv, CrashLeaves
<1>2. CASE DbCommit
  <2>1. /\ session = "committing" /\ session' = "committed" /\ db' = db \cup pending
        /\ UNCHANGED <<chat, coord, events>>
    BY <1>2 DEF DbCommit
  <2>2. "history" \in db' /\ ("turn" \in db' <=> chat')
    BY <1>1, <2>1 DEF CrashLeaves
  <2>3. ~Queued("error")' /\ ~Queued("final_result")'
    BY <1>1, <2>1 DEF CrashLeaves, Queued
  <2> QED BY <1>1, <2>1, <2>2, <2>3 DEF CrashInv, CrashLeaves, TerminalMatchesDb, RowsAllOrNothing
<1>3. CASE DbCommitFails
  BY <1>1, <1>3 DEF DbCommitFails, CrashInv, CrashLeaves, TerminalMatchesDb, RowsAllOrNothing, Queued
<1>4. CASE UNCHANGED <<chat, coord, txVars, events>>
  BY <1>1, <1>4 DEF CrashInv, CrashLeaves, TerminalMatchesDb, RowsAllOrNothing, Queued, txVars
<1>5. ~(coord \in {"accepting", "running", "stopping", "draining"})
  BY <1>1
<1> QED
  BY <1>2, <1>3, <1>4, <1>5
     DEF Next, ServerNext, AcceptNext, FlowNext, DbNext, WatchNext, SenderNext, CoordNext,
         ClientNext, Finished, AcceptStart, Reject, EndUnstarted, FlowLoad, FlowSchema,
         FlowExplore, FlowExplored, FlowGenerate, FlowRetry, FlowGenerated, FlowHistory,
         FlowUsage, FlowPersist, FlowFail, FlowRollback, FlowRollbackRaises, FlowCommit,
         FlowCommitted, FlowCommitRaises, FlowCancelled, WatchCancel, WatchDisconnect,
         SenderSend, SenderFails, CoordFlowDone, CoordStop, CoordRollback, CoordClose,
         ClientGone, ClientSend, At, vars

LEMMA StepKeepsCrashInv ==
  ASSUME TypeOK, CrashInv, crashed \in BOOLEAN, [SessionNext]_sessionVars
  PROVE  TypeOK' /\ CrashInv'
<1>1. CASE Crash
  BY <1>1, CrashKeepsTypes, CrashStep
<1>2. CASE ~Crash
  <2>1. crashed' = crashed
    BY <1>2 DEF SessionNext, PageNext, SocketOpens, StartTimesOut, FirstMessage, NextMessage,
                ServerClosed, NetworkDrop, OnClose, GiveUpAndPost, HttpAnswer, HttpRun, Cancel,
                sessionVars
  <2>2. [Next]_vars
    BY <1>2, ServerStep
  <2>3. CASE crashed
    BY <2>1, <2>2, <2>3, StepKeepsTypes, CrashedStep
  <2>4. CASE ~crashed
    <3>1. RunInv /\ RunInv' /\ TypeOK'
      BY <2>2, <2>4, StepKeepsRun, StepKeepsTypes DEF CrashInv
    <3> QED BY <2>1, <2>4, <3>1 DEF CrashInv, RunInv
  <2> QED BY <2>3, <2>4
<1> QED BY <1>1, <1>2

\* What a step of the session does to the server, as far as the page can tell:
\* events stay, the sender advances, rows are added.
LEMMA ServerAdvances ==
  ASSUME TypeOK, CrashInv, [SessionNext]_sessionVars
  PROVE  /\ sent <= sent' /\ sent \in Nat /\ sent' \in Nat /\ db \subseteq db'
         /\ \A i \in 1..sent : i \in 1..Len(events) /\ events'[i] = events[i]
<1>t. EventsOK /\ Len(events) \in Nat /\ sent \in 0..Len(events) /\ TypeOK'
  BY ServerStep, CrashKeepsTypes, StepKeepsTypes DEF TypeOK, EventsOK
<1>1. CASE Crash
  BY <1>1, <1>t DEF Crash
<1>2. CASE [Next]_vars
  <2>1. sent' \in Nat
    BY <1>t DEF TypeOK, EventsOK
  <2>2. \A i \in 1..sent : i \in 1..Len(events) /\ events'[i] = events[i]
    BY <1>2, <1>t, QueueGrows
  <2>3. db \subseteq db'
    BY <1>2 DEF Next, ServerNext, AcceptNext, FlowNext, DbNext, WatchNext, SenderNext, CoordNext,
         ClientNext, Finished, AcceptStart, Reject, EndUnstarted, FlowLoad, FlowSchema,
         FlowExplore, FlowExplored, FlowGenerate, FlowRetry, FlowGenerated, FlowHistory,
         FlowUsage, FlowPersist, FlowFail, FlowRollback, FlowRollbackRaises, FlowCommit,
         FlowCommitted, FlowCommitRaises, FlowCancelled, DbCommit, DbCommitFails, WatchCancel,
         WatchDisconnect, SenderSend, SenderFails, CoordFlowDone, CoordStop, CoordRollback,
         CoordClose, ClientGone, ClientSend, txVars, vars
  <2>4. sent <= sent'
    <3>1. CASE Reject
      <4>1. events = <<>>
        BY <3>1 DEF Reject, CrashInv, CrashLeaves, RunInv, QueueInv
      <4> QED BY <3>1, <4>1, <1>t DEF Reject
    <3>2. CASE SenderSend
      BY <3>2, <1>t DEF SenderSend
    <3>3. CASE sent' = sent
      BY <3>3, <1>t
    <3> QED
      BY <1>2, <3>1, <3>2, <3>3
         DEF Next, ServerNext, AcceptNext, FlowNext, DbNext, WatchNext, SenderNext, CoordNext,
         ClientNext, Finished, AcceptStart, EndUnstarted, FlowLoad, FlowSchema,
         FlowExplore, FlowExplored, FlowGenerate, FlowRetry, FlowGenerated, FlowHistory,
         FlowUsage, FlowPersist, FlowFail, FlowRollback, FlowRollbackRaises, FlowCommit,
         FlowCommitted, FlowCommitRaises, FlowCancelled, DbCommit, DbCommitFails, WatchCancel,
         WatchDisconnect, SenderFails, CoordFlowDone, CoordStop, CoordRollback,
         CoordClose, ClientGone, ClientSend, senderVars, vars
  <2> QED BY <1>t, <2>1, <2>2, <2>3, <2>4
<1> QED BY <1>1, <1>2, ServerStep

PagePart == FallbackOnlyBeforeStart /\ PageInv /\ ShownAnswerIsSaved

\* What the page shows, has handled and asks for.
LEMMA StepKeepsPage ==
  ASSUME SessionTypeOK, CrashInv, PagePart, [SessionNext]_sessionVars
  PROVE  SessionTypeOK' /\ PagePart'
<1>t. TypeOK'
  BY StepKeepsCrashInv DEF SessionTypeOK
<1>s. /\ sent <= sent' /\ sent \in Nat /\ sent' \in Nat /\ db \subseteq db'
      /\ \A i \in 1..sent : i \in 1..Len(events) /\ events'[i] = events[i]
  BY ServerAdvances DEF SessionTypeOK
<1>r. recv \in Nat /\ recv <= sent /\ \A i \in 1..recv : i \in 1..sent
  BY <1>s DEF SessionTypeOK
<1> USE DEF SessionTypeOK, PagePart, FallbackOnlyBeforeStart, PageInv, ShownAnswerIsSaved
<1>1. CASE UNCHANGED <<pageVars, crashed>>
  BY <1>1, <1>t, <1>s, <1>r DEF pageVars
<1>2. CASE client = "waiting" /\ GiveUpAndPost /\ recv' = recv
  BY <1>2, <1>t, <1>s, <1>r DEF GiveUpAndPost, serverVars, senderVars, txVars
<1>3. CASE FirstMessage
  BY <1>3, <1>t, <1>s, <1>r DEF FirstMessage, GiveUpAndPost, Arriving, serverVars, senderVars, txVars
<1>4. CASE NextMessage
  <2>1. recv' = recv + 1 /\ recv + 1 \in 1..sent /\ recv' \in 0..sent' /\ http = "none"
        /\ http' = "none" /\ client = "live" /\ crashed' = crashed
    BY <1>4, <1>s, <1>r DEF NextMessage
  <2>2. CASE Arriving \in Terminals
    <3>1. client' = "done" /\ shown' = Shows(Arriving)
      BY <1>4, <2>2 DEF NextMessage
    <3>2. shown' \in {"answer", "error", "cancelled"}
      BY <3>1 DEF Shows
    <3>3. shown' = "answer" => Arriving = "final_result"
      BY <3>1 DEF Shows
    <3>4. Arriving = "final_result" => "history" \in db
      BY <1>s, <2>1 DEF Arriving, Queued, CrashInv, TerminalMatchesDb
    <3> QED BY <1>t, <1>s, <2>1, <3>1, <3>2, <3>3, <3>4
  <2>3. CASE Arriving \notin Terminals
    <3>1. UNCHANGED <<client, shown>>
      BY <1>4, <2>3 DEF NextMessage
    <3> QED BY <1>t, <1>s, <2>1, <3>1
  <2> QED BY <2>2, <2>3
<1>5. CASE client = "live" /\ OnClose
  BY <1>5, <1>t, <1>s, <1>r DEF OnClose
<1>6. CASE HttpAnswer
  BY <1>6, <1>t, <1>s, <1>r DEF HttpAnswer, vars, senderVars
<1>7. CASE HttpRun
  BY <1>7, <1>t, <1>s, <1>r DEF HttpRun, vars, senderVars
<1>8. CASE Crash
  BY <1>8, <1>t, <1>s, <1>r DEF Crash
<1> QED
  BY <1>1, <1>2, <1>3, <1>4, <1>5, <1>6, <1>7, <1>8
     DEF SessionNext, PageNext, SocketOpens, StartTimesOut, ServerClosed, NetworkDrop, OnClose,
         Cancel, sessionVars

\* The session's inductive invariant, through any drop and a crash at any await.
THEOREM SessionHolds == SessionSafety => [](SessionInv /\ ShownAnswerIsSaved)
<1> DEFINE Sound == SessionTypeOK /\ CrashInv /\ PagePart
<1>1. SessionInit => Sound
  <2> SUFFICES ASSUME SessionInit PROVE Sound
    OBVIOUS
  <2>1. TypeOK /\ RunInv
    BY InitIsTyped, InitIsARun DEF SessionInit
  <2>2. CrashInv
    BY <2>1 DEF SessionInit, CrashInv, RunInv
  <2>3. SessionTypeOK
    <3>1. recv = 0 /\ sent = 0
      BY DEF SessionInit, Init
    <3>2. recv \in 0..sent
      BY <3>1
    <3>3. crashed \in BOOLEAN
      BY DEF SessionInit
    <3>4. client \in {"waiting", "live", "http", "done"}
      BY DEF SessionInit
    <3>5. shown \in {"nothing", "answer", "error", "cancelled"}
      BY DEF SessionInit
    <3>6. http \in {"none", "running", "saved", "failed"}
      BY DEF SessionInit
    <3> QED BY <2>1, <3>2, <3>3, <3>4, <3>5, <3>6 DEF SessionTypeOK
  <2>4. PagePart
    BY DEF SessionInit, PagePart, FallbackOnlyBeforeStart, PageInv, ShownAnswerIsSaved
  <2> QED BY <2>2, <2>3, <2>4
<1>2. Sound /\ [SessionNext]_sessionVars => Sound'
  BY StepKeepsPage, StepKeepsCrashInv DEF SessionTypeOK
<1>3. Sound => SessionInv /\ ShownAnswerIsSaved
  BY DEF PagePart, SessionInv
<1> HIDE DEF Sound
<1> QED BY <1>1, <1>2, <1>3, PTL DEF SessionSafety

\* The page posts a question again only while no run of it has been announced to
\* it, and a crash of the server at any await leaves the run's rows whole and in
\* agreement with what the client was told.
THEOREM SessionIsSound == SessionSafety => []SessionInv
BY SessionHolds, PTL

\* Whatever is lost on the way, an answer the page shows is in the database.
THEOREM AnswersAreSaved == SessionSafety => []ShownAnswerIsSaved
BY SessionHolds, PTL

-----------------------------------------------------------------------------
(* The loop that generates the SQL.                                        *)

LEMMA AttemptsPositive == Attempts \in Nat \ {0}
BY MaxRetriesAssumption DEF Attempts

\* Judging happens on a reply that exists.
LEMMA ReplyTyped ==
  ASSUME LoopTypeOK, LoopInv, pc = "judge"
  PROVE  Attempt \in 1..Len(replies) /\ Reply \in ReplyKinds
BY DEF LoopTypeOK, LoopInv, Attempt, Reply

THEOREM TypeAndLoop == LoopSafety => [](LoopTypeOK /\ LoopInv)
<1>1. LoopInit => LoopTypeOK /\ LoopInv
  <2> SUFFICES ASSUME LoopInit PROVE LoopTypeOK /\ LoopInv
    OBVIOUS
  <2>1. messages \in Seq(Messages)
    <3>1. [kind |-> "question", attempt |-> 0] \in Messages
      BY DEF Messages
    <3> QED BY <3>1 DEF LoopInit
  <2>2. replies \in Seq(ReplyKinds) /\ Len(replies) = 0
    BY DEF LoopInit
  <2> QED BY <2>1, <2>2, AttemptsPositive DEF LoopInit, LoopTypeOK, LoopInv
<1>2. (LoopTypeOK /\ LoopInv) /\ [LoopNext]_loopVars => (LoopTypeOK /\ LoopInv)'
  <2> SUFFICES ASSUME LoopTypeOK, LoopInv, [LoopNext]_loopVars PROVE LoopTypeOK' /\ LoopInv'
    OBVIOUS
  <2>1. CASE Call
    <3>1. PICK k \in ReplyKinds : replies' = Append(replies, k)
      BY <2>1 DEF Call
    <3>2. Len(replies') = Len(replies) + 1 /\ replies' \in Seq(ReplyKinds)
      BY <3>1 DEF LoopTypeOK
    <3> QED BY <2>1, <3>2, AttemptsPositive DEF Call, LoopTypeOK, LoopInv
  <2>2. CASE ProviderFails
    BY <2>2, AttemptsPositive DEF ProviderFails, LoopTypeOK, LoopInv
  <2>3. CASE GuardRejects \/ VerificationFails
    <3>1. \A f \in Corrections : [kind |-> f, attempt |-> Attempt] \in Messages
      BY DEF Messages, Corrections, Attempt, LoopTypeOK
    <3>2. Attempt \in Nat /\ Attempt < Attempts
      BY <2>3, AttemptsPositive DEF GuardRejects, VerificationFails, IsLast, Attempt, LoopTypeOK, LoopInv
    <3>3. PICK f \in Corrections : AskAgain(f)
      BY <2>3 DEF GuardRejects, VerificationFails, Corrections
    <3>4. messages' \in Seq(Messages)
      BY <3>1, <3>3 DEF AskAgain, LoopTypeOK, Corrections
    <3> QED
      BY <2>3, <3>2, <3>3, <3>4
         DEF GuardRejects, VerificationFails, AskAgain, Attempt, LoopTypeOK, LoopInv
  <2>4. CASE GuardRaises
    BY <2>4, AttemptsPositive DEF GuardRaises, LoopTypeOK, LoopInv
  <2>5. CASE Unanswered \/ Accept \/ VerificationGivesUp
    <3>1. Attempt \in Nat
      BY DEF Attempt, LoopTypeOK
    <3>2. /\ outcome' \in Outcomes /\ outcome' # None
          /\ safeSql' \in Nat /\ lastFailed' \in Nat
          /\ pc = "judge" /\ pc' = "returned"
          /\ UNCHANGED <<verify, replies, messages, retryCount, row>>
      <4>1. \A s, f \in {0, Attempt} :
              Return(s, f) => /\ outcome' \in Outcomes /\ outcome' # None /\ pc' = "returned"
                              /\ UNCHANGED <<verify, replies, messages, retryCount, row>>
        <5> SUFFICES ASSUME NEW s \in {0, Attempt}, NEW f \in {0, Attempt}, Return(s, f)
                     PROVE  /\ outcome' \in Outcomes /\ outcome' # None /\ pc' = "returned"
                            /\ UNCHANGED <<verify, replies, messages, retryCount, row>>
          OBVIOUS
        <5>1. outcome' \in Outcomes
          BY <3>1 DEF Return, Outcomes, LoopTypeOK
        <5>2. outcome'.reply = Attempt /\ Attempt # 0
          BY <2>5, <3>1, ReplyTyped
             DEF Return, Unanswered, Accept, VerificationGivesUp, Attempt, LoopTypeOK, LoopInv
        <5>3. outcome' # None
          BY <5>2 DEF None
        <5> QED BY <5>1, <5>3 DEF Return
      <4>2. \E s, f \in {0, Attempt} : Return(s, f)
        <5>1. Return(0, 0) \/ Return(Attempt, 0) \/ Return(Attempt, Attempt)
          BY <2>5 DEF Unanswered, Accept, VerificationGivesUp
        <5> QED BY <5>1
      <4>3. safeSql' \in Nat /\ lastFailed' \in Nat /\ pc = "judge"
        BY <2>5, <3>1 DEF Unanswered, Accept, VerificationGivesUp, LoopTypeOK
      <4> QED BY <4>1, <4>2, <4>3
    <3> QED BY <3>2 DEF LoopTypeOK, LoopInv
  <2>6. CASE Store
    <3>1. outcome \in Outcomes
      BY <2>6 DEF Store, LoopTypeOK, LoopInv
    <3>2. RowOf(outcome) \in HistoryRows
      BY <3>1 DEF RowOf, HistoryRows, Outcomes
    <3>3. RowOf(outcome)' = RowOf(outcome)
      BY <2>6 DEF Store, RowOf
    <3> QED BY <2>6, <3>2, <3>3 DEF Store, LoopTypeOK, LoopInv
  <2>7. CASE UNCHANGED loopVars
    BY <2>7 DEF loopVars, LoopTypeOK, LoopInv, RowOf
  <2> QED
    BY <2>1, <2>2, <2>3, <2>4, <2>5, <2>6, <2>7 DEF LoopNext, Step, Stopped
<1> QED BY <1>1, <1>2, PTL DEF LoopSafety

\* One correction more: the pair about this attempt joins the conversation.
LEMMA CorrectionKeepsConversation ==
  ASSUME LoopTypeOK, LoopInv, ConversationIsSound, pc = "judge", Reply \in {"unsafe", "unknown"},
         AskAgain(FeedbackFor(Reply))
  PROVE  ConversationIsSound'
<1>1. Attempt = retryCount + 1 /\ retryCount \in Nat /\ Len(messages) = 1 + 2 * retryCount
  BY DEF LoopInv, LoopTypeOK, ConversationIsSound, Attempt
<1> DEFINE r == [kind |-> "reply", attempt |-> Attempt]
           f == [kind |-> FeedbackFor(Reply), attempt |-> Attempt]
<1>2. /\ Len(messages') = Len(messages) + 2
      /\ \A i \in 1..Len(messages) : messages'[i] = messages[i]
      /\ messages'[Len(messages) + 1] = r /\ messages'[Len(messages) + 2] = f
  <2>1. messages' = messages \o <<r, f>>
    BY DEF AskAgain
  <2> HIDE DEF r, f
  <2> QED BY <2>1 DEF LoopTypeOK
<1>3. retryCount' = retryCount + 1 /\ replies' = replies
  BY DEF AskAgain
<1>4. ASSUME NEW i \in 1..retryCount'
      PROVE  /\ messages'[2 * i] = [kind |-> "reply", attempt |-> i]
             /\ messages'[2 * i + 1] = [kind |-> FeedbackFor(replies[i]), attempt |-> i]
             /\ replies[i] \in {"unsafe", "unknown"}
  <2>1. CASE i \in 1..retryCount
    <3>1. 2 * i \in 1..Len(messages) /\ 2 * i + 1 \in 1..Len(messages)
      BY <1>1, <2>1
    <3> QED BY <1>2, <2>1, <3>1 DEF ConversationIsSound
  <2>2. CASE i = retryCount + 1
    <3>1. 2 * i = Len(messages) + 1 /\ 2 * i + 1 = Len(messages) + 2 /\ i = Attempt
      BY <1>1, <2>2
    <3>2. replies[i] = Reply
      BY <3>1 DEF Reply
    <3> QED BY <1>2, <3>1, <3>2
  <2> QED BY <1>1, <1>3, <2>1, <2>2
<1>5. Len(messages') = 1 + 2 * retryCount'
  BY <1>1, <1>2, <1>3
<1>6. \A i \in 1..retryCount' : FeedbackFor(replies[i]) = FeedbackFor(replies'[i])
  BY <1>3
<1> QED BY <1>3, <1>4, <1>5 DEF ConversationIsSound, FeedbackFor

\* The conversation sent to the model is sound at every call of every run.
THEOREM Conversation == LoopSafety => []ConversationIsSound
<1>1. LoopInit => ConversationIsSound
  BY DEF LoopInit, ConversationIsSound
<1>2. LoopTypeOK /\ LoopInv /\ ConversationIsSound /\ [LoopNext]_loopVars => ConversationIsSound'
  <2> SUFFICES ASSUME LoopTypeOK, LoopInv, ConversationIsSound, [LoopNext]_loopVars
               PROVE  ConversationIsSound'
    OBVIOUS
  <2>1. CASE Call
    <3>1. PICK k \in ReplyKinds : replies' = Append(replies, k)
      BY <2>1 DEF Call
    <3>2. \A i \in 1..retryCount : i \in 1..Len(replies) /\ replies'[i] = replies[i]
      BY <2>1, <3>1 DEF Call, LoopTypeOK, LoopInv
    <3> QED BY <2>1, <3>2 DEF Call, ConversationIsSound, FeedbackFor
  <2>2. CASE GuardRejects \/ VerificationFails
    <3>1. Reply \in {"unsafe", "unknown"} /\ AskAgain(FeedbackFor(Reply)) /\ pc = "judge"
      BY <2>2 DEF GuardRejects, VerificationFails, FeedbackFor
    <3> QED BY <3>1, CorrectionKeepsConversation
  <2>3. CASE UNCHANGED <<replies, messages, retryCount>>
    BY <2>3 DEF ConversationIsSound, FeedbackFor
  <2> QED
    BY <2>1, <2>2, <2>3
       DEF LoopNext, Step, Stopped, ProviderFails, Unanswered, GuardRaises, Accept,
           VerificationGivesUp, Store, Return, loopVars
<1> QED BY <1>1, <1>2, TypeAndLoop, PTL DEF LoopSafety

\* Every outcome is about the last attempt, and carries a failed verification
\* exactly when its SQL has one.
THEOREM Outcome == LoopSafety => [](OutcomeIsLastAttempt /\ OutcomeInv)
<1> DEFINE Sound == OutcomeIsLastAttempt /\ OutcomeInv
<1>1. LoopInit => Sound
  BY DEF LoopInit, OutcomeIsLastAttempt, OutcomeInv
<1>2. LoopTypeOK /\ LoopInv /\ Sound /\ [LoopNext]_loopVars => Sound'
  <2> SUFFICES ASSUME LoopTypeOK, LoopInv, Sound, [LoopNext]_loopVars PROVE Sound'
    OBVIOUS
  <2>1. ASSUME pc = "judge", NEW s \in {0, Attempt}, NEW f \in {0, Attempt}, Return(s, f),
               Reply = "unanswered" => s = 0 /\ f = 0,
               Reply = "unknown" => s = Attempt /\ f = IF verify THEN Attempt ELSE 0,
               Reply = "good" => s = Attempt /\ f = 0, Reply # "unsafe"
        PROVE  Sound'
    <3>1. /\ outcome'.reply = Attempt /\ outcome'.sql = s /\ outcome'.failed = f
          /\ replies' = replies /\ verify' = verify
      BY <2>1 DEF Return
    <3>2. replies'[outcome'.reply] = Reply /\ Reply \in {"unanswered", "unknown", "good"}
      BY <2>1, <3>1, ReplyTyped DEF Reply, ReplyKinds
    <3>3. OutcomeIsLastAttempt'
      BY <2>1, <3>1 DEF OutcomeIsLastAttempt, Attempt
    <3>4. CASE Reply = "unanswered"
      BY <2>1, <3>1, <3>2, <3>3, <3>4 DEF OutcomeInv
    <3>5. CASE Reply = "unknown"
      BY <2>1, <3>1, <3>2, <3>3, <3>5 DEF OutcomeInv
    <3>6. CASE Reply = "good"
      BY <2>1, <3>1, <3>2, <3>3, <3>6 DEF OutcomeInv
    <3> QED BY <3>2, <3>4, <3>5, <3>6
  <2>2. CASE Unanswered
    BY <2>1, <2>2 DEF Unanswered
  <2>3. CASE Accept
    <3>1. Reply = "unknown" => ~verify
      BY <2>3 DEF Accept
    <3> QED BY <2>1, <2>3, <3>1 DEF Accept
  <2>4. CASE VerificationGivesUp
    BY <2>1, <2>4 DEF VerificationGivesUp
  <2>5. CASE Call
    <3>1. outcome' = None
      BY <2>5 DEF Call, LoopInv
    <3> QED BY <3>1 DEF OutcomeIsLastAttempt, OutcomeInv
  <2>6. CASE UNCHANGED <<verify, replies, outcome>>
    BY <2>6 DEF OutcomeIsLastAttempt, OutcomeInv
  <2> QED
    BY <2>2, <2>3, <2>4, <2>5, <2>6
       DEF LoopNext, Step, Stopped, ProviderFails, GuardRejects, GuardRaises, VerificationFails,
           AskAgain, Store, loopVars
<1> QED BY <1>1, <1>2, TypeAndLoop, PTL DEF LoopSafety

\* A stored row never calls SQL "ok" that failed the guard or, with
\* verification on, names identifiers the schema lacks.
THEOREM RowIsTrue == LoopSafety => []RowTellsTheTruth
<1>1. LoopTypeOK /\ LoopInv /\ OutcomeIsLastAttempt /\ OutcomeInv => RowTellsTheTruth
  <2> SUFFICES ASSUME LoopTypeOK, LoopInv, OutcomeIsLastAttempt, OutcomeInv, row # NoRow
               PROVE  /\ row.status = "ok" => row.sql # 0 /\ replies[row.sql] \in {"good"} \cup IF verify THEN {} ELSE {"unknown"}
                      /\ row.status = "verification_failed" => row.sql # 0 /\ replies[row.sql] = "unknown"
                      /\ row.status = "unanswered" => row.sql = 0
    BY DEF RowTellsTheTruth
  <2>1. pc = "stored" /\ outcome # None /\ row = RowOf(outcome) /\ Len(replies) # 0
    BY DEF LoopInv, LoopTypeOK
  <2>2. outcome.reply = Len(replies) /\ Len(replies) \in Nat
    BY <2>1 DEF OutcomeIsLastAttempt, LoopTypeOK
  <2>3. replies[outcome.reply] \in ReplyKinds
    BY <2>1, <2>2 DEF LoopTypeOK
  <2>4. CASE replies[outcome.reply] = "unanswered"
    BY <2>1, <2>4 DEF RowOf
  <2>5. CASE replies[outcome.reply] = "unknown"
    BY <2>1, <2>2, <2>5 DEF RowOf, OutcomeInv, LoopTypeOK
  <2>6. CASE replies[outcome.reply] = "good"
    BY <2>1, <2>2, <2>6 DEF RowOf, OutcomeInv
  <2>7. replies[outcome.reply] # "unsafe"
    BY <2>1 DEF OutcomeInv
  <2> QED BY <2>3, <2>4, <2>5, <2>6, <2>7 DEF ReplyKinds
<1> QED BY <1>1, TypeAndLoop, Outcome, PTL

\* At most one call per allowed attempt.
THEOREM Bounded == LoopSafety => []CallsBounded
<1>1. LoopTypeOK /\ LoopInv => CallsBounded
  BY AttemptsPositive DEF LoopInv, CallsBounded, LoopTypeOK
<1> QED BY <1>1, TypeAndLoop, PTL

\* The whole invariant of the generation loop.
THEOREM LoopIsSound == LoopSafety => []GenerateInv
BY TypeAndLoop, Outcome, Conversation, Bounded, PTL DEF GenerateInv

=============================================================================
